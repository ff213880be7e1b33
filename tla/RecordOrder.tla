---------------------------- MODULE RecordOrder ----------------------------
(***************************************************************************)
(* Table records and the order in which they replace each other.           *)
(***************************************************************************)
EXTENDS Integers

CONSTANTS Node,    \* the devices
          Key,     \* table keys (writer, or writer and gate)
          Owner,   \* Owner[k]: the node that writes the records of key k
          None     \* no record

(* table_record_t: header fields, and as a stand-in for the signed content *)
(* the power cycle of the writer in which the record was made.             *)
Records == [key : Key, seq : Nat, ts : Nat, life : Nat]

(* The merge rule of tables_merge_record: larger sequence number, or the   *)
(* same one with a later timestamp.                                        *)
Newer(a, b) == a.seq > b.seq \/ (a.seq = b.seq /\ a.ts > b.ts)
=============================================================================
