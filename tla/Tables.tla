------------------------------- MODULE Tables -------------------------------
(***************************************************************************)
(* The distributed tables (tables.c, records.c) of all nodes and the BLE   *)
(* gossip between them (mate_ble.c).  On a node, the threads that write    *)
(* its own records and the BLE receive thread interleave; ctx->lock covers *)
(* only the allocation of a sequence number, one header read or one        *)
(* four-part put, so each of those is a step of its own.                   *)
(*                                                                         *)
(* A timestamp is its rank in the order of hlc_compare.  Of the clock only *)
(* what module HLC establishes is used: a new stamp is later than every    *)
(* stamp the node has issued or adopted since it was powered on.           *)
(***************************************************************************)
EXTENDS RecordOrder

CONSTANTS Thread,      \* threads that write records
          Writers,     \* Writers[n]: the ones of node n
          Link,        \* pairs <<s, n>>: n is in radio range of s
          Met,         \* Met[n]: nodes whose identities n has on file at first
          Private,     \* keys of encounter records, not to be propagated
          MaxSeq,      \* bound: sequence numbers per power cycle
          MaxStamp,    \* bound: timestamps
          MaxLife,     \* MaxLife[n], bound: power cycles of n
          MaxFaults    \* MaxFaults[n], bound: failing put_record_in_store of n

ASSUME TablesAssumption ==
  /\ Owner \in [Key -> Node]
  /\ Writers \in [Node -> SUBSET Thread]
  /\ Link \subseteq Node \X Node
  /\ Met \in [Node -> SUBSET Node]
  /\ Private \subseteq Key
  /\ MaxSeq \in Nat /\ MaxStamp \in Nat
  /\ MaxLife \in [Node -> Nat] /\ MaxFaults \in [Node -> Nat]
  /\ None \notin Records
  /\ None \notin [hdr : Records, sig : Records \cup {None}]

VARIABLES life,    \* life[n]: power cycles of n
          issued,  \* history: every record signed by its writer
          seq,     \* seq[n]: ctx->self_sequence
          clk,     \* clk[n]: the local HLC stamp
          store,   \* store[n][k]: header, and the record whose signature it has
          seen,    \* history: what the last memo callback for k found in n's table
          job,     \* job[n][t]: the put operation of thread t of n
          rx,      \* rx[n]: the merge operation of n's BLE receive thread
          air,     \* air[s]: what s has broadcast; may arrive late, twice or never
          known,   \* known[n]: nodes whose public key n has
          faults   \* faults[n]: number of failed puts

vars == <<life, issued, seq, clk, store, seen, job, rx, air, known, faults>>

Entries == [hdr : Records, sig : Records \cup {None}]
Idle    == [stage |-> "idle", rec |-> None]
Jobs    == {Idle} \cup [stage : {"stamp", "store", "memo"}, rec : Records]
Merges  == {Idle} \cup [stage : {"verify", "store", "memo"}, rec : Entries]

(* The record another node would read here; the abstract copy. *)
Header(e) == IF e = None THEN None ELSE e.hdr
Held == [n \in Node |-> [k \in Key |-> Header(store[n][k])]]

Replication == INSTANCE RecordReplication WITH copy <- Held

Init ==
  /\ life = [n \in Node |-> 0]
  /\ issued = {}
  /\ air = [n \in Node |-> {}]
  /\ seq = [n \in Node |-> 0]
  /\ clk = [n \in Node |-> 0]
  /\ store = [n \in Node |-> [k \in Key |-> None]]
  /\ seen = [n \in Node |-> [k \in Key |-> None]]
  /\ job = [n \in Node |-> [t \in Thread |-> Idle]]
  /\ rx = [n \in Node |-> Idle]
  /\ known = [n \in Node |-> {n} \cup Met[n]]
  /\ faults = [n \in Node |-> 0]
-----------------------------------------------------------------------------
(* Mutant: the header is written last. *)
HeaderLastMutant(e, w, outcome) ==
  CASE outcome = "ok"   -> w
    [] outcome = "none" -> e
    [] outcome = "torn" -> [hdr |-> Header(e), sig |-> w.sig]

(* put_record_in_store of the record w, one critical section: header, data,*)
(* signature length, signature.  A failing header write leaves the entry e *)
(* alone.  Any later failure leaves the new header with the old signature, *)
(* over old or new data: the signature covers both, so neither the old nor *)
(* the new record is whole, and without an old one there is no signature.  *)
Put(e, w, outcome) ==
  CASE outcome = "ok"   -> w
    [] outcome = "none" -> e
    [] outcome = "torn" -> [hdr |-> w.hdr, sig |-> IF e = None THEN None ELSE e.sig]

Outcomes(n) == {"ok"} \cup (IF faults[n] < MaxFaults[n] THEN {"none", "torn"} ELSE {})

StorePut(n, w, outcome) ==
  /\ store' = [store EXCEPT ![n][w.hdr.key] = Put(@, w, outcome)]
  /\ faults' = IF outcome = "ok" THEN faults ELSE [faults EXCEPT ![n] = @ + 1]

(* Mutant: the number is used but the counter not advanced under the lock. *)
NoIncrementMutant(n, t, k) ==
  /\ job[n][t] = Idle
  /\ Owner[k] = n
  /\ seq[n] < MaxSeq
  /\ job' = [job EXCEPT ![n][t] =
               [stage |-> "stamp",
                rec   |-> [key |-> k, seq |-> seq[n] + 1, ts |-> 0, life |-> life[n]]]]
  /\ UNCHANGED <<life, issued, seq, clk, store, seen, rx, air, known, faults>>

(* tables_put_*, first part: _get_next_sequence. *)
GetNextSequence(n, t, k) ==
  /\ job[n][t] = Idle
  /\ Owner[k] = n
  /\ seq[n] < MaxSeq
  /\ seq' = [seq EXCEPT ![n] = @ + 1]
  /\ job' = [job EXCEPT ![n][t] =
               [stage |-> "stamp",
                rec   |-> [key |-> k, seq |-> seq[n] + 1, ts |-> 0, life |-> life[n]]]]
  /\ UNCHANGED <<life, issued, clk, store, seen, rx, air, known, faults>>

(* hlc_get_current_timestamp and sign_record. *)
StampAndSign(n, t) ==
  /\ job[n][t].stage = "stamp"
  /\ \E ts \in clk[n] + 1 .. MaxStamp :
       LET q == job[n][t].rec
           r == [key |-> q.key, seq |-> q.seq, ts |-> ts, life |-> q.life]
       IN  /\ clk' = [clk EXCEPT ![n] = ts]
           /\ issued' = issued \cup {r}
           /\ job' = [job EXCEPT ![n][t] = [stage |-> "store", rec |-> r]]
  /\ UNCHANGED <<life, seq, store, seen, rx, air, known, faults>>

(* The clock or sign_record fails: the call returns an error, the sequence *)
(* number is spent.  A stamp taken in vain needs no choice of its own: the *)
(* next stamp may be any later one.                                        *)
GiveUp(n, t) ==
  /\ job[n][t].stage = "stamp"
  /\ job' = [job EXCEPT ![n][t] = Idle]
  /\ UNCHANGED <<life, issued, seq, clk, store, seen, rx, air, known, faults>>

(* put_record_in_store; a failure returns before the memos. *)
PutRecord(n, t) ==
  /\ job[n][t].stage = "store"
  /\ \E outcome \in Outcomes(n) :
       LET r == job[n][t].rec
       IN  /\ StorePut(n, [hdr |-> r, sig |-> r], outcome)
           /\ job' = [job EXCEPT ![n][t] =
                        IF outcome = "ok" THEN [stage |-> "memo", rec |-> r] ELSE Idle]
  /\ UNCHANGED <<life, issued, seq, clk, seen, rx, air, known>>

(* _check_and_call_memos, without the lock.  The callback that acts        *)
(* (mate_lorawan.c:415) is given the record but looks up the table.        *)
CallMemos(n, t) ==
  /\ job[n][t].stage = "memo"
  /\ LET k == job[n][t].rec.key IN seen' = [seen EXCEPT ![n][k] = store[n][k]]
  /\ job' = [job EXCEPT ![n][t] = Idle]
  /\ UNCHANGED <<life, issued, seq, clk, store, rx, air, known, faults>>
-----------------------------------------------------------------------------

(* mateble_send_query_matches: what get_record_from_store can read is sent.*)
(* Only a broadcast someone is in range of makes a difference.             *)
Broadcast(n, k) ==
  /\ \E s \in Node : <<n, s>> \in Link
  /\ store[n][k] # None
  /\ store[n][k].sig # None
  /\ air' = [air EXCEPT ![n] = @ \cup {store[n][k]}]
  /\ UNCHANGED <<life, issued, seq, clk, store, seen, job, rx, known, faults>>

(* Mutant: a larger number or a later timestamp is enough.                 *)
EitherMutant(r, e) == e # None => r.seq > e.hdr.seq \/ r.ts > e.hdr.ts

(* tables_merge_record, first part: the comparison with the stored header. *)
Supersedes(r, e) == e # None => Newer(r, e.hdr)

(* _handle_record: records of this device are ignored, as are encounters   *)
(* and records no newer than the stored one.                               *)
Receive(n, m) ==
  /\ rx[n] = Idle
  /\ Owner[m.hdr.key] # n
  /\ m.hdr.key \notin Private
  /\ Supersedes(m.hdr, store[n][m.hdr.key])
  /\ rx' = [rx EXCEPT ![n] = [stage |-> "verify", rec |-> m]]
  /\ UNCHANGED <<life, issued, seq, clk, store, seen, job, air, known, faults>>

(* Mutant: the signature covers the header only. *)
HeaderOnlyMutant(n, m) == Owner[m.hdr.key] \in known[n]

(* verify_record: the signature covers header and data, and the key of the *)
(* writer must be known.                                                   *)
Verified(n, m) == m.sig = m.hdr /\ Owner[m.hdr.key] \in known[n]

(* verify_record and hlc_update_with_remote_timestamp. *)
Verify(n) ==
  /\ rx[n].stage = "verify"
  /\ IF Verified(n, rx[n].rec)
     THEN LET ts == rx[n].rec.hdr.ts
          IN  /\ clk' = [clk EXCEPT ![n] = (IF @ > ts THEN @ ELSE ts) + 1]
              /\ rx' = [rx EXCEPT ![n] = [stage |-> "store", rec |-> rx[n].rec]]
     ELSE /\ rx' = [rx EXCEPT ![n] = Idle]
          /\ UNCHANGED clk
  /\ UNCHANGED <<life, issued, seq, store, seen, job, air, known, faults>>

(* Mutant: a merged record triggers no memo. *)
NoMemoMutant(n) ==
  /\ rx[n].stage = "store"
  /\ \E outcome \in Outcomes(n) : StorePut(n, rx[n].rec, outcome)
  /\ rx' = [rx EXCEPT ![n] = Idle]
  /\ UNCHANGED <<life, issued, seq, clk, seen, job, air, known>>

(* put_record_in_store.  The mate encounter that a mate's receive thread   *)
(* then writes is a put like any other: it is one of Writers[n] as well.   *)
MergePut(n) ==
  /\ rx[n].stage = "store"
  /\ \E outcome \in Outcomes(n) : StorePut(n, rx[n].rec, outcome)
  /\ rx' = [rx EXCEPT ![n] = [stage |-> "memo", rec |-> rx[n].rec]]
  /\ UNCHANGED <<life, issued, seq, clk, seen, job, air, known>>

(* The memos of a merged record, whether or not its put succeeded. *)
MergeMemos(n) ==
  /\ rx[n].stage = "memo"
  /\ LET k == rx[n].rec.hdr.key IN seen' = [seen EXCEPT ![n][k] = store[n][k]]
  /\ rx' = [rx EXCEPT ![n] = Idle]
  /\ UNCHANGED <<life, issued, seq, clk, store, job, air, known, faults>>

(* _handle_id_res: an identity signed by the root key arrives.  A node     *)
(* sends its own (_send_id_res) and no other one's.                        *)
LearnIdentity(n, m) ==
  /\ <<m, n>> \in Link
  /\ m \notin known[n]
  /\ known' = [known EXCEPT ![n] = @ \cup {m}]
  /\ UNCHANGED <<life, issued, seq, clk, store, seen, job, rx, air, faults>>

(* A power cycle: the tables live in a RAM device, tables_init sets        *)
(* self_sequence to 0 and hlc_init starts again; only identities persist.  *)
Restart(n) ==
  /\ life[n] < MaxLife[n]
  /\ life' = [life EXCEPT ![n] = @ + 1]
  /\ seq' = [seq EXCEPT ![n] = 0]
  /\ clk' = [clk EXCEPT ![n] = 0]
  /\ store' = [store EXCEPT ![n] = [k \in Key |-> None]]
  /\ seen' = [seen EXCEPT ![n] = [k \in Key |-> None]]
  /\ job' = [job EXCEPT ![n] = [t \in Thread |-> Idle]]
  /\ rx' = [rx EXCEPT ![n] = Idle]
  /\ UNCHANGED <<issued, air, known, faults>>

Next ==
  \E n \in Node :
    \/ \E t \in Writers[n] : \/ \E k \in Key : GetNextSequence(n, t, k)
                             \/ StampAndSign(n, t)
                             \/ GiveUp(n, t)
                             \/ PutRecord(n, t)
                             \/ CallMemos(n, t)
    \/ \E k \in Key : Broadcast(n, k)
    \/ \E s \in Node : <<s, n>> \in Link /\ \E m \in air[s] : Receive(n, m)
    \/ Verify(n)
    \/ MergePut(n)
    \/ MergeMemos(n)
    \/ \E m \in Node : LearnIdentity(n, m)
    \/ Restart(n)

Spec == Init /\ [][Next]_vars

(* The threads run; a node broadcasts all it holds every ten seconds       *)
(* (ble_tx_thread), so what stays in a table is sent again and again; a    *)
(* record that is sent again and again to a node in range is not missed    *)
(* every time; nor is the identity it broadcasts with them.                *)
Fairness ==
  \A n \in Node :
    /\ \A t \in Writers[n] :
         WF_vars(StampAndSign(n, t) \/ GiveUp(n, t) \/ PutRecord(n, t) \/ CallMemos(n, t))
    /\ \A k \in Key : WF_vars(Broadcast(n, k))
    /\ \A s \in Node, k \in Key :
         SF_vars(<<s, n>> \in Link /\ \E e \in air[s] :
                   e = store[s][k] /\ e.hdr.key = k /\ Receive(n, e))
    /\ WF_vars(Verify(n) \/ MergePut(n) \/ MergeMemos(n))
    /\ \A m \in Node : WF_vars(LearnIdentity(n, m))

FairSpec == Spec /\ Fairness
-----------------------------------------------------------------------------
TypeOK ==
  /\ life \in [Node -> Nat]
  /\ issued \subseteq Records
  /\ seq \in [Node -> Nat]
  /\ clk \in [Node -> Nat]
  /\ store \in [Node -> [Key -> Entries \cup {None}]]
  /\ seen \in [Node -> [Key -> Entries \cup {None}]]
  /\ job \in [Node -> [Thread -> Jobs]]
  /\ rx \in [Node -> Merges]
  /\ air \in [Node -> SUBSET Entries]
  /\ known \in [Node -> SUBSET Node]
  /\ faults \in [Node -> Nat]

(* The tables implement RecordReplication: whatever the interleaving of    *)
(* the header comparison, the verification and the put of a merge with the *)
(* writing threads, with power cycles, with torn entries and with records  *)
(* that arrive late, twice or out of order, a foreign record in a table    *)
(* was signed by its owner and is only replaced by a newer one.            *)
Replicates == Replication!Spec

(* A record half of which could not be written (records.c:213-244) stays   *)
(* where it is: a node whose own puts never failed holds only whole        *)
(* records, even when its peers broadcast torn ones.                       *)
TornStaysLocal ==
  \A n \in Node, k \in Key :
    faults[n] = 0 /\ store[n][k] # None => store[n][k].sig = store[n][k].hdr

(* types.h:77, "sequence number, unique per writer", for the records of    *)
(* one power cycle: two threads never share a number (tables.c:80-86).     *)
UniqueInLife ==
  \A p, q \in issued :
    Owner[p.key] = Owner[q.key] /\ p.life = q.life /\ p.seq = q.seq => p = q

(* A memo is under way to the callbacks of n for a record under k. *)
Notifying(n, k) ==
  \/ \E t \in Thread : job[n][t].stage = "memo" /\ job[n][t].rec.key = k
  \/ rx[n].stage = "memo" /\ rx[n].rec.hdr.key = k

(* The memos drive the uplink and run outside the lock: in another order   *)
(* than the puts of two threads, and after a merge whose put failed        *)
(* (tables.c:177,399).  A callback that looks up the table misses nothing  *)
(* all the same: whenever no memo is under way, the last one has found the *)
(* whole record that the table holds.                                      *)
SeenIsHeld ==
  \A n \in Node, k \in Key :
    LET e == store[n][k]
    IN  e # None /\ e.sig = e.hdr /\ ~ Notifying(n, k) => seen[n][k] = e

(* Gossip delivers (ble_tx_thread sends the whole table): once the writers *)
(* pause, every node that has the key of a writer ends up with a record at *)
(* least as new as the writer's own, also a node that has met the writer   *)
(* before and is now in range only of one that passes its records on.      *)
UpToDate(n, k) ==
  LET own == store[Owner[k]][k]
  IN  own # None => store[n][k] # None /\ ~ Newer(own.hdr, store[n][k].hdr)


(* types.h:77 as it stands: "Type representing a record sequence number,   *)
(* unique per writer".                                                     *)
UniquePerWriter ==
  \A p, q \in issued : Owner[p.key] = Owner[q.key] /\ p.seq = q.seq => p = q
=============================================================================
