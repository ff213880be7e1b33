------------------------- MODULE RecordReplication -------------------------
(***************************************************************************)
(* What the tables promise the applications: every key has one             *)
(* authoritative writer ("Authoritative Writer Functions", tables.h), each *)
(* node holds at most one record per key, a foreign record in a table was  *)
(* written by its owner, and it is only ever replaced by a newer one until *)
(* the node loses its (RAM) store.                                         *)
(***************************************************************************)
EXTENDS RecordOrder

VARIABLES life,    \* life[n]: power cycles of n
          issued,  \* every record signed by its writer
          copy     \* copy[n][k]: the record n holds under k

vars == <<life, issued, copy>>

Init ==
  /\ life = [n \in Node |-> 0]
  /\ issued = {}
  /\ copy = [n \in Node |-> [k \in Key |-> None]]

(* An owner signs a record with a sequence number it has not used since it *)
(* was powered on.                                                         *)
Sign(r) ==
  /\ r \in Records
  /\ r.life = life[Owner[r.key]]
  /\ \A q \in issued : Owner[q.key] = Owner[r.key] /\ q.life = r.life => q.seq # r.seq
  /\ issued' = issued \cup {r}
  /\ UNCHANGED <<life, copy>>

(* An owner files one of its records of this power cycle. *)
File(n, r) ==
  /\ r \in issued /\ Owner[r.key] = n /\ r.life = life[n]
  /\ copy' = [copy EXCEPT ![n][r.key] = r]
  /\ UNCHANGED <<life, issued>>

(* Any other node replaces its copy by a newer record. *)
Replace(n, r) ==
  /\ r \in issued /\ Owner[r.key] # n
  /\ copy[n][r.key] # None => Newer(r, copy[n][r.key])
  /\ copy' = [copy EXCEPT ![n][r.key] = r]
  /\ UNCHANGED <<life, issued>>

Forget(n) ==
  /\ life' = [life EXCEPT ![n] = @ + 1]
  /\ copy' = [copy EXCEPT ![n] = [k \in Key |-> None]]
  /\ UNCHANGED issued

Next ==
  \/ \E r \in issued' : Sign(r)
  \/ \E n \in Node : \/ \E r \in issued : File(n, r) \/ Replace(n, r)
                     \/ Forget(n)

Spec == Init /\ [][Next]_vars
=============================================================================
