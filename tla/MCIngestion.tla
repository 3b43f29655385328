----------------------------- MODULE MCIngestion -----------------------------
(* Instance of Ingestion for TLC: what a connector sends for the changes of *)
(* two keys, in every form the parser tells apart, and every single damage. *)
EXTENDS Ingestion

CONSTANTS k1, k2

Change(key, op, batch, lsn, day) ==
    [kind |-> "event", key |-> key, op |-> op, batch |-> batch, lsn |-> lsn,
     tx |-> 0, day |-> day]

(* The message of a change: JSON without schema, batch in the row.          *)
Row(c) == [key |-> c.key, complete |-> TRUE, decimal |-> "text", batch |-> c.batch]
Record(c) ==
    [key |-> c.key, body |-> "envelope", declared |-> FALSE, op |-> c.op,
     before |-> IF c.op = "c" THEN NoRow ELSE Row(c),
     after |-> IF c.op = "d" THEN NoRow ELSE Row(c),
     source |-> [lsn |-> c.lsn, batch |-> Absent, day |-> c.day],
     orders |-> <<Absent, Absent>>, day |-> Absent, kafkaDay |-> 2]
Sent(raw, carries) == [raw |-> raw, carries |-> carries]
Plain(c) == Sent(Record(c), c)
Refused(raw, reason) == Sent(raw, Malformed(reason))

(* Other forms of an update that mean the same, or almost.                  *)
Forms(c) ==
    LET raw == Record(c) IN
    {Sent([raw EXCEPT !.declared = TRUE, !.before.decimal = "encoded",
                      !.after.decimal = "encoded"], c),
     Sent([raw EXCEPT !.after.batch = 0, !.source.batch = c.batch], c),
     Sent([raw EXCEPT !.after.batch = Absent, !.source.batch = c.batch], c),
     Sent([raw EXCEPT !.op = "r", !.before = NoRow], [c EXCEPT !.op = "r"]),
     Sent([raw EXCEPT !.source.day = Absent, !.day = c.day], c),
     Sent([raw EXCEPT !.source.day = Absent], [c EXCEPT !.day = Absent]),
     Sent([raw EXCEPT !.orders = <<2, 5>>], [c EXCEPT !.tx = 2]),
     Sent([raw EXCEPT !.orders = <<0, 5>>], [c EXCEPT !.tx = 5]),
     Sent([raw EXCEPT !.body = "null"], Tombstone(c.key)),
     Sent([raw EXCEPT !.source.day = MaxDay + 1], [c EXCEPT !.day = MaxDay + 1])}

Damages(c) ==
    LET raw == Record(c) IN
    {Refused([raw EXCEPT !.body = "null", !.key = Absent], "missing_key"),
     Refused([raw EXCEPT !.body = "notJson"], "invalid_json"),
     Refused([raw EXCEPT !.body = "notEnvelope"], "invalid_envelope"),
     Refused([raw EXCEPT !.op = "t"], "unsupported_operation"),
     Refused([raw EXCEPT !.op = "d", !.before = NoRow], "invalid_envelope"),
     Refused([raw EXCEPT !.source = NoSource], "invalid_envelope"),
     Refused([raw EXCEPT !.source.lsn = Absent], "missing_source_lsn"),
     Refused([raw EXCEPT !.after.complete = FALSE], "invalid_schema"),
     Refused([raw EXCEPT !.after.decimal = "encoded"], "invalid_schema"),
     Refused([raw EXCEPT !.after.key = k2], "invalid_schema"),
     Refused([raw EXCEPT !.key = Absent], "missing_key"),
     Refused([raw EXCEPT !.after.batch = 0], "missing_batch_id")}

Insert == Change(k1, "c", 1, 1, 1)
Update == Change(k1, "u", 2, 3, 2)
Delete == Change(k1, "d", 2, 4, 2)
Other == Change(k2, "c", 1, 2, 1)

SourceLogs ==
    {<<m>> : m \in Forms(Update) \cup Damages(Update)}
        \cup {<<Plain(Insert), Plain(c)>> : c \in {Delete, Other}}

ByKey == [k \in {k1, k2, Absent} |-> IF k = k2 THEN 1 ELSE 0]
=============================================================================
