----------------------------- MODULE EventParsing -----------------------------
(***************************************************************************)
(* parse_debezium_event: what one Kafka record of an entity's topic says,  *)
(* a change event, a tombstone, or nothing that can be used, with the      *)
(* reason the dead-letter file gives.                                      *)
(*                                                                         *)
(* A raw record keeps what the parser's decisions depend on:               *)
(*   key       message key; Absent when there is none, when it cannot be   *)
(*             read, or when it lacks the entity's key fields              *)
(*   body      "null", "notJson", "notEnvelope" or "envelope"              *)
(*   declared  the envelope comes with a schema naming its decimal fields  *)
(*   op, before, after, source, orders, day    the fields of the envelope  *)
(*   kafkaDay  day of the Kafka timestamp (Kafka gives every record one)   *)
(* A row is its key, whether its other fields are complete and of their    *)
(* kinds, the form of its decimals, and its batch_id.  A timestamp stands  *)
(* for its day.                                                            *)
(***************************************************************************)
EXTENDS Integers, Sequences, SequencesExt

CONSTANTS
    Keys,       \* key values of the entity
    Absent,     \* a field that is missing or of the wrong kind
    MaxDay      \* last day a datetime can represent

ASSUME ParsingAssumption ==
    /\ MaxDay \in Nat
    /\ Absent \notin Keys

Operations == {"c", "u", "d", "r"}
NoRow == [key |-> Absent, complete |-> FALSE, decimal |-> "none", batch |-> Absent]
NoSource == [lsn |-> Absent, batch |-> Absent, day |-> 0]

(* The first of two optional values that is there.                         *)
OrElse(value, other) == IF value # Absent THEN value ELSE other

Positive(value) == IF value = Absent \/ value = 0 THEN Absent ELSE value

(* _normalize_decimal_fields: Connect's base64 decimals become text.  Only *)
(* the schema tells them from other strings.                               *)
Decoded(r, row) ==
    IF r.declared /\ row.decimal = "encoded" THEN [row EXCEPT !.decimal = "text"] ELSE row

(* The row an operation is about.                                          *)
ImageOf(r) == Decoded(r, IF r.op = "d" THEN r.before ELSE r.after)

FitsSchema(row) == row.key \in Keys /\ row.complete /\ row.decimal = "text"
SchemaOk(r) == FitsSchema(ImageOf(r))

(* The batch of the row, else of the source block.                         *)
BatchOf(r) == OrElse(Positive(ImageOf(r).batch), Positive(r.source.batch))

(* A faulty variant of KeysMatch: the message key is trusted.              *)
KeysMatchUnchecked(r) == TRUE
KeysMatch(r) == r.key = ImageOf(r).key

(* The checks in the order of the code; the first that fails decides.      *)
Checks(r) == <<
    [ok |-> r.body # "notJson",          reason |-> "invalid_json"],
    [ok |-> r.body = "envelope",         reason |-> "invalid_envelope"],
    [ok |-> r.op \in Operations,         reason |-> "unsupported_operation"],
    [ok |-> ImageOf(r) # NoRow,          reason |-> "invalid_envelope"],
    [ok |-> r.source # NoSource,         reason |-> "invalid_envelope"],
    [ok |-> r.source.lsn # Absent,       reason |-> "missing_source_lsn"],
    [ok |-> SchemaOk(r),                 reason |-> "invalid_schema"],
    [ok |-> r.key \in Keys,              reason |-> "missing_key"],
    [ok |-> KeysMatch(r),                reason |-> "invalid_schema"],
    [ok |-> BatchOf(r) # Absent,         reason |-> "missing_batch_id"]>>

Malformed(reason) == [kind |-> "malformed", reason |-> reason]
Tombstone(key) == [kind |-> "tombstone", key |-> key]

(* data_collection_order or total_order or 0: zero counts as missing.      *)
TransactionOrder(r) ==
    OrElse(Positive(r.orders[1]), OrElse(Positive(r.orders[2]), 0))

CdcEvent(r) ==
    [kind |-> "event", key |-> r.key, op |-> r.op, batch |-> BatchOf(r),
     lsn |-> r.source.lsn, tx |-> TransactionOrder(r),
     day |-> OrElse(r.source.day, r.day)]

Parse(r) ==
    IF r.body = "null"
    THEN IF r.key \in Keys THEN Tombstone(r.key) ELSE Malformed("missing_key")
    ELSE LET checks == Checks(r)
             failed == SelectInSeq(checks, LAMBDA check : ~check.ok)
         IN  IF failed = 0 THEN CdcEvent(r) ELSE Malformed(checks[failed].reason)

(* _event_date: the source's timestamp, else Kafka's.  A day no datetime   *)
(* can represent raises.                                                   *)
EventDay(r) ==
    IF Parse(r).kind = "event" THEN OrElse(Parse(r).day, r.kafkaDay) ELSE r.kafkaDay
DayRaises(day) == day > MaxDay

-----------------------------------------------------------------------------
(* What a record means to its sender, whatever the order of the checks.    *)
(* Zero is no batch and no transaction order.                              *)

Missing == {Absent, 0}
RowOf(r) == IF r.op = "d" THEN r.before ELSE r.after
Readable(r, row) == row.decimal = "text" \/ (row.decimal = "encoded" /\ r.declared)

(* The record r tells of the change c.                                     *)
Conveys(r, c) ==
    /\ c = [kind |-> "event", key |-> c.key, op |-> c.op, batch |-> c.batch,
            lsn |-> c.lsn, tx |-> c.tx, day |-> c.day]
    /\ r.body = "envelope"
    /\ c.op \in Operations /\ r.op = c.op
    /\ c.key \in Keys /\ r.key = c.key /\ RowOf(r).key = c.key
    /\ RowOf(r).complete /\ Readable(r, RowOf(r))
    /\ c.lsn # Absent /\ r.source.lsn = c.lsn
    /\ c.batch \notin Missing
    /\ \/ RowOf(r).batch = c.batch
       \/ RowOf(r).batch \in Missing /\ r.source.batch = c.batch
    /\ \/ r.orders[1] \notin Missing /\ c.tx = r.orders[1]
       \/ r.orders[1] \in Missing /\ r.orders[2] \notin Missing /\ c.tx = r.orders[2]
       \/ r.orders[1] \in Missing /\ r.orders[2] \in Missing /\ c.tx = 0
    /\ c.day = IF r.source.day = Absent THEN r.day ELSE r.source.day

(* What is wrong with a record.  What is not there cannot be wrong too.    *)
RowFlaw(r) ==
    \/ RowOf(r).key \notin Keys \/ ~RowOf(r).complete
    \/ ~Readable(r, RowOf(r))
    \/ r.key \in Keys /\ RowOf(r).key # r.key
Flaw(r, reason) ==
    \/ reason = "invalid_json" /\ r.body = "notJson"
    \/ reason = "invalid_envelope" /\ r.body = "notEnvelope"
    \/ reason = "missing_key" /\ r.body \in {"null", "envelope"} /\ r.key \notin Keys
    \/ /\ r.body = "envelope"
       /\ \/ reason = "unsupported_operation" /\ r.op \notin Operations
          \/ reason = "invalid_envelope" /\ (RowOf(r) = NoRow \/ r.source = NoSource)
          \/ reason = "missing_source_lsn" /\ r.source # NoSource /\ r.source.lsn = Absent
          \/ reason = "invalid_schema" /\ RowOf(r) # NoRow /\ RowFlaw(r)
          \/ /\ reason = "missing_batch_id" /\ RowOf(r) # NoRow /\ r.source # NoSource
             /\ RowOf(r).batch \in Missing /\ r.source.batch \in Missing
Reasons == {"invalid_json", "invalid_envelope", "missing_key", "unsupported_operation",
            "missing_source_lsn", "invalid_schema", "missing_batch_id"}
Flaws(r) == {reason \in Reasons : Flaw(r, reason)}

(* The record r means m: a change, a tombstone, or one damage.             *)
Means(r, m) ==
    \/ m.kind = "event" /\ Conveys(r, m)
    \/ r.body = "null" /\ r.key \in Keys /\ m = Tombstone(r.key)
    \/ \E reason \in Reasons : Flaws(r) = {reason} /\ m = Malformed(reason)

(* The fields a record has; an image or source block may be missing, which *)
(* is not the same as an object that lacks every field.                    *)
IsNumber(n) == n = Absent \/ n \in Nat
IsRow(row) ==
    /\ IsNumber(row.batch)
    /\ row = [key |-> row.key, complete |-> row.complete, decimal |-> row.decimal,
              batch |-> row.batch]
    /\ row = NoRow \/ (row.complete \in BOOLEAN /\ row.decimal \in {"text", "encoded"})
IsDay(day) == day = Absent \/ day \in Nat \ {0}
IsRecord(r) ==
    /\ r.body \in {"null", "notJson", "notEnvelope", "envelope"}
    /\ r.declared \in BOOLEAN
    /\ IsRow(r.before) /\ IsRow(r.after)
    /\ IsNumber(r.source.lsn) /\ IsNumber(r.source.batch)
    /\ r.source = NoSource \/ IsDay(r.source.day)
    /\ IsNumber(r.orders[1]) /\ IsNumber(r.orders[2])
    /\ IsDay(r.day) /\ r.kafkaDay \in Nat \ {0}
=============================================================================
