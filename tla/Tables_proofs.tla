---------------------------- MODULE Tables_proofs ----------------------------
(***************************************************************************)
(* Proofs about Tables for every set of nodes, keys and threads, and every *)
(* bound: type correctness, the inductive invariant behind the safety      *)
(* properties, and that the tables implement RecordReplication.            *)
(***************************************************************************)
EXTENDS Tables, TLAPS

(* The constants' assumptions under names of their own. *)
LEMMA ConstantFacts ==
  /\ Owner \in [Key -> Node]
  /\ \A k \in Key : Owner[k] \in Node
  /\ \A n \in Node : Writers[n] \subseteq Thread
  /\ MaxSeq \in Nat /\ MaxStamp \in Nat
  /\ None \notin Records
  /\ None \notin Entries
BY TablesAssumption DEF Entries

LEMMA IdleFacts ==
  /\ Idle.stage = "idle" /\ Idle.rec = None
  /\ Idle \in Jobs /\ Idle \in Merges
BY DEF Idle, Jobs, Merges

(* A thread in a stage of tables_put_* carries a record. *)
LEMMA JobFacts ==
  ASSUME NEW j \in Jobs
  PROVE  /\ j.stage \in {"idle", "stamp", "store", "memo"}
         /\ j.stage # "idle" => j.rec \in Records /\ j # Idle
         /\ j.stage = "idle" => j = Idle
BY DEF Jobs, Idle

LEMMA MergeFacts ==
  ASSUME NEW j \in Merges
  PROVE  /\ j.stage \in {"idle", "verify", "store", "memo"}
         /\ j.stage # "idle" => j.rec \in Entries /\ j # Idle
         /\ j.stage = "idle" => j = Idle
BY DEF Merges, Idle

LEMMA RecordFacts ==
  ASSUME NEW r \in Records
  PROVE  /\ r.key \in Key /\ Owner[r.key] \in Node
         /\ r.seq \in Nat /\ r.ts \in Nat /\ r.life \in Nat
         /\ r # None
BY ConstantFacts DEF Records

LEMMA EntryFacts ==
  ASSUME NEW e \in Entries
  PROVE  /\ e.hdr \in Records
         /\ e.sig \in Records \cup {None}
         /\ e # None /\ e = [hdr |-> e.hdr, sig |-> e.sig]
BY ConstantFacts DEF Entries

(* put_record_in_store leaves the old entry or one with the new header. *)
LEMMA PutFacts ==
  ASSUME NEW e \in Entries \cup {None}, NEW w \in Entries,
         NEW outcome \in {"ok", "none", "torn"}
  PROVE  /\ Put(e, w, outcome) \in Entries \cup {None}
         /\ outcome = "ok" => Put(e, w, outcome) = w
         /\ outcome = "none" => Put(e, w, outcome) = e
         /\ outcome # "none" => /\ Put(e, w, outcome) \in Entries
                                /\ Put(e, w, outcome).hdr = w.hdr
         /\ outcome = "torn" => Put(e, w, outcome).sig =
                                  IF e = None THEN None ELSE e.sig
BY EntryFacts DEF Put, Entries

LEMMA OutcomeFacts ==
  ASSUME NEW n \in Node, NEW outcome \in Outcomes(n)
  PROVE  outcome \in {"ok", "none", "torn"}
BY DEF Outcomes
-----------------------------------------------------------------------------
(* Type correctness. *)

LEMMA InitType == Init => TypeOK
<1> SUFFICES ASSUME Init PROVE TypeOK
  OBVIOUS
<1>1. \A n \in Node : {n} \cup Met[n] \subseteq Node
  BY TablesAssumption
<1>2. known \in [Node -> SUBSET Node]
  BY <1>1 DEF Init
<1> QED BY <1>2, IdleFacts DEF Init, TypeOK

LEMMA TypeFacts ==
  ASSUME TypeOK, NEW n \in Node
  PROVE  /\ life[n] \in Nat /\ seq[n] \in Nat /\ clk[n] \in Nat /\ faults[n] \in Nat
         /\ \A t \in Thread : job[n][t] \in Jobs
         /\ rx[n] \in Merges
         /\ \A k \in Key : store[n][k] \in Entries \cup {None}
         /\ \A k \in Key : seen[n][k] \in Entries \cup {None}
         /\ \A e \in air[n] : e \in Entries
         /\ known[n] \subseteq Node
BY DEF TypeOK

(* A put keeps the store a store. *)
LEMMA StorePutType ==
  ASSUME TypeOK, NEW n \in Node, NEW w \in Entries, NEW outcome \in Outcomes(n),
         StorePut(n, w, outcome)
  PROVE  /\ store' \in [Node -> [Key -> Entries \cup {None}]]
         /\ faults' \in [Node -> Nat]
<1>1. w.hdr.key \in Key
  BY EntryFacts, RecordFacts
<1>2. Put(store[n][w.hdr.key], w, outcome) \in Entries \cup {None}
  BY <1>1, TypeFacts, OutcomeFacts, PutFacts
<1>3. store' \in [Node -> [Key -> Entries \cup {None}]]
  BY <1>1, <1>2 DEF StorePut, TypeOK
<1>4. faults' \in [Node -> Nat]
  BY DEF StorePut, TypeOK
<1> QED BY <1>3, <1>4

LEMMA StepType == TypeOK /\ [Next]_vars => TypeOK'
<1> SUFFICES ASSUME TypeOK, [Next]_vars PROVE TypeOK'
  OBVIOUS
<1> USE ConstantFacts
<1>1. ASSUME NEW n \in Node, NEW t \in Writers[n], NEW k \in Key, GetNextSequence(n, t, k)
      PROVE  TypeOK'
  <2>1. [key |-> k, seq |-> seq[n] + 1, ts |-> 0, life |-> life[n]] \in Records
    BY TypeFacts DEF Records
  <2>2. [stage |-> "stamp",
         rec |-> [key |-> k, seq |-> seq[n] + 1, ts |-> 0, life |-> life[n]]] \in Jobs
    BY <2>1 DEF Jobs
  <2> QED BY <1>1, <2>2 DEF GetNextSequence, TypeOK
<1>2. ASSUME NEW n \in Node, NEW t \in Writers[n], StampAndSign(n, t)
      PROVE  TypeOK'
  <2> DEFINE q == job[n][t].rec
             r(ts) == [key |-> q.key, seq |-> q.seq, ts |-> ts, life |-> q.life]
  <2>1. PICK ts \in clk[n] + 1 .. MaxStamp :
          /\ clk' = [clk EXCEPT ![n] = ts]
          /\ issued' = issued \cup {r(ts)}
          /\ job' = [job EXCEPT ![n][t] = [stage |-> "store", rec |-> r(ts)]]
    BY <1>2 DEF StampAndSign
  <2>2. q \in Records
    BY <1>2, TypeFacts, JobFacts DEF StampAndSign
  <2>3. ts \in Nat
    BY TypeFacts
  <2>4. r(ts) \in Records
    BY <2>2, <2>3, RecordFacts DEF Records
  <2>5. [stage |-> "store", rec |-> r(ts)] \in Jobs
    BY <2>4 DEF Jobs
  <2> HIDE DEF r
  <2> QED BY <1>2, <2>1, <2>3, <2>4, <2>5 DEF StampAndSign, TypeOK
<1>3. ASSUME NEW n \in Node, NEW t \in Writers[n], GiveUp(n, t)
      PROVE  TypeOK'
  BY <1>3, IdleFacts DEF GiveUp, TypeOK
<1>4. ASSUME NEW n \in Node, NEW t \in Writers[n], PutRecord(n, t)
      PROVE  TypeOK'
  <2> DEFINE r == job[n][t].rec
             w == [hdr |-> r, sig |-> r]
  <2>1. PICK outcome \in Outcomes(n) :
          /\ StorePut(n, w, outcome)
          /\ job' = [job EXCEPT ![n][t] =
                       IF outcome = "ok" THEN [stage |-> "memo", rec |-> r] ELSE Idle]
    BY <1>4 DEF PutRecord
  <2>2. r \in Records
    BY <1>4, TypeFacts, JobFacts DEF PutRecord
  <2>3. w \in Entries /\ [stage |-> "memo", rec |-> r] \in Jobs
    BY <2>2 DEF Entries, Jobs
  <2>4. /\ store' \in [Node -> [Key -> Entries \cup {None}]]
        /\ faults' \in [Node -> Nat]
    BY <2>1, <2>3, StorePutType
  <2>5. job' \in [Node -> [Thread -> Jobs]]
    BY <2>1, <2>3, IdleFacts DEF TypeOK
  <2> QED BY <1>4, <2>4, <2>5 DEF PutRecord, TypeOK
<1>5. ASSUME NEW n \in Node, NEW t \in Writers[n], CallMemos(n, t)
      PROVE  TypeOK'
  <2>1. job[n][t].rec \in Records
    BY <1>5, TypeFacts, JobFacts DEF CallMemos
  <2>2. job[n][t].rec.key \in Key
    BY <2>1, RecordFacts
  <2> QED BY <1>5, <2>2, IdleFacts DEF CallMemos, TypeOK
<1>6. ASSUME NEW n \in Node, NEW k \in Key, Broadcast(n, k)
      PROVE  TypeOK'
  <2>1. store[n][k] \in Entries
    BY <1>6, TypeFacts DEF Broadcast
  <2> QED BY <1>6, <2>1 DEF Broadcast, TypeOK
<1>7. ASSUME NEW n \in Node, NEW s \in Node, NEW m \in air[s], Receive(n, m)
      PROVE  TypeOK'
  <2>1. [stage |-> "verify", rec |-> m] \in Merges
    BY TypeFacts DEF Merges
  <2> QED BY <1>7, <2>1 DEF Receive, TypeOK
<1>8. ASSUME NEW n \in Node, Verify(n)
      PROVE  TypeOK'
  <2>1. rx[n].rec \in Entries
    BY <1>8, TypeFacts, MergeFacts DEF Verify
  <2>2. [stage |-> "store", rec |-> rx[n].rec] \in Merges
    BY <2>1 DEF Merges
  <2>3. rx[n].rec.hdr.ts \in Nat
    BY <2>1, EntryFacts, RecordFacts
  <2>4. clk' \in [Node -> Nat]
    <3>1. (IF clk[n] > rx[n].rec.hdr.ts THEN clk[n] ELSE rx[n].rec.hdr.ts) + 1 \in Nat
      BY <2>3, TypeFacts
    <3> QED BY <1>8, <3>1 DEF Verify, TypeOK
  <2>5. rx' \in [Node -> Merges]
    <3>1. \E j \in Merges : rx' = [rx EXCEPT ![n] = j]
      BY <1>8, <2>2, IdleFacts DEF Verify
    <3> QED BY <3>1 DEF TypeOK
  <2> QED BY <1>8, <2>4, <2>5 DEF Verify, TypeOK
<1>9. ASSUME NEW n \in Node, MergePut(n)
      PROVE  TypeOK'
  <2>1. rx[n].rec \in Entries
    BY <1>9, TypeFacts, MergeFacts DEF MergePut
  <2>3. /\ store' \in [Node -> [Key -> Entries \cup {None}]]
        /\ faults' \in [Node -> Nat]
    <3>1. PICK outcome \in Outcomes(n) : StorePut(n, rx[n].rec, outcome)
      BY <1>9 DEF MergePut
    <3> QED BY <2>1, <3>1, StorePutType
  <2>4. [stage |-> "memo", rec |-> rx[n].rec] \in Merges
    BY <2>1 DEF Merges
  <2> QED BY <1>9, <2>3, <2>4 DEF MergePut, TypeOK
<1>10. ASSUME NEW n \in Node, NEW m \in Node, LearnIdentity(n, m)
       PROVE  TypeOK'
  BY <1>10 DEF LearnIdentity, TypeOK
<1>13. ASSUME NEW n \in Node, MergeMemos(n)
       PROVE  TypeOK'
  <2>1. rx[n].rec.hdr.key \in Key
    BY <1>13, TypeFacts, MergeFacts, EntryFacts, RecordFacts DEF MergeMemos
  <2> QED BY <1>13, <2>1, IdleFacts DEF MergeMemos, TypeOK
<1>11. ASSUME NEW n \in Node, Restart(n)
       PROVE  TypeOK'
  BY <1>11, IdleFacts DEF Restart, TypeOK
<1>12. CASE UNCHANGED vars
  BY <1>12 DEF vars, TypeOK
<1> QED
  BY <1>1, <1>2, <1>3, <1>4, <1>5, <1>6, <1>7, <1>8, <1>9, <1>10, <1>11, <1>12, <1>13
     DEF Next

(* The tables, the jobs of all threads and the messages keep their types.  *)
THEOREM TypeCorrect == Spec => []TypeOK
BY InitType, StepType, PTL DEF Spec
-----------------------------------------------------------------------------
(* The inductive invariant behind the safety properties. *)

(* Every record was signed in a past power cycle of its owner, or in this  *)
(* one with a number the owner has allocated.                              *)
IssuedInPast ==
  \A q \in issued : LET o == Owner[q.key]
                    IN  /\ q.life <= life[o]
                        /\ q.life = life[o] => q.seq <= seq[o]

(* A thread's job is a record of its node and power cycle; its number is   *)
(* allocated, used by no other thread and, before signing, by no record.   *)
JobsOwned ==
  \A n \in Node, t \in Thread :
    job[n][t].stage # "idle" =>
      LET r == job[n][t].rec
      IN  /\ Owner[r.key] = n /\ r.life = life[n] /\ r.seq <= seq[n]
          /\ job[n][t].stage # "stamp" => r \in issued
          /\ job[n][t].stage = "stamp" =>
               \A q \in issued : Owner[q.key] = n /\ q.life = life[n] => q.seq # r.seq

JobsApart ==
  \A n \in Node : \A s, t \in Thread :
    s # t /\ job[n][s].stage # "idle" /\ job[n][t].stage # "idle"
      => job[n][s].rec.seq # job[n][t].rec.seq

(* Every header in a table or on the air was signed by its owner, and      *)
(* every signature in a table is that of a record.                         *)
StoredIssued ==
  \A n \in Node, k \in Key :
    store[n][k] # None => /\ store[n][k].hdr \in issued /\ store[n][k].hdr.key = k
                          /\ store[n][k].sig \in issued \cup {None}

AirIssued == \A s \in Node : \A e \in air[s] : e.hdr \in issued

(* The comparison made at the start of a merge stays valid until its put:  *)
(* nobody but this thread writes foreign records.                          *)
MergeValid ==
  \A n \in Node :
    rx[n].stage # "idle" =>
      LET e == rx[n].rec
      IN  /\ e.hdr \in issued /\ Owner[e.hdr.key] # n
          /\ rx[n].stage # "memo" => Supersedes(e.hdr, store[n][e.hdr.key])
          /\ rx[n].stage = "store" => e.sig = e.hdr

IInv ==
  /\ TypeOK
  /\ IssuedInPast
  /\ JobsOwned
  /\ JobsApart
  /\ StoredIssued
  /\ AirIssued
  /\ MergeValid
  /\ UniqueInLife
  /\ TornStaysLocal

LEMMA InitIInv == Init => IInv
<1> SUFFICES ASSUME Init PROVE IInv
  OBVIOUS
<1>1. TypeOK
  BY InitType
<1>2. \A n \in Node, t \in Thread : job[n][t].stage = "idle"
  BY IdleFacts DEF Init
<1>3. \A n \in Node : rx[n].stage = "idle"
  BY IdleFacts DEF Init
<1>4. JobsOwned /\ JobsApart
  BY <1>2 DEF JobsOwned, JobsApart
<1>5. MergeValid
  BY <1>3 DEF MergeValid
<1>6. IssuedInPast /\ UniqueInLife
  BY DEF Init, IssuedInPast, UniqueInLife
<1>7. StoredIssued /\ AirIssued /\ TornStaysLocal
  BY DEF Init, StoredIssued, AirIssued, TornStaysLocal
<1> QED BY <1>1, <1>4, <1>5, <1>6, <1>7 DEF IInv

(* What a put does to the tables and to the number of failures. *)
LEMMA StoreUpdate ==
  ASSUME TypeOK, NEW n \in Node, NEW w \in Entries, NEW outcome \in Outcomes(n),
         StorePut(n, w, outcome)
  PROVE  LET k == w.hdr.key
         IN  /\ k \in Key
             /\ store'[n][k] = Put(store[n][k], w, outcome)
             /\ \A a \in Node, b \in Key : a # n \/ b # k => store'[a][b] = store[a][b]
             /\ outcome = "ok" => faults' = faults
             /\ outcome # "ok" => faults'[n] = faults[n] + 1
             /\ \A a \in Node : a # n => faults'[a] = faults[a]
<1>1. w.hdr.key \in Key
  BY EntryFacts, RecordFacts
<1> QED BY <1>1 DEF StorePut, TypeOK

(* What a put does to the conjuncts about the store. *)
LEMMA StorePutIInv ==
  ASSUME IInv, NEW n \in Node, NEW w \in Entries, NEW outcome \in Outcomes(n),
         StorePut(n, w, outcome), issued' = issued,
         w.hdr \in issued, w.sig = w.hdr
  PROVE  StoredIssued' /\ TornStaysLocal'
<1> DEFINE k == w.hdr.key
<1>1. /\ k \in Key
      /\ store'[n][k] = Put(store[n][k], w, outcome)
      /\ \A a \in Node, b \in Key : a # n \/ b # k => store'[a][b] = store[a][b]
      /\ outcome = "ok" => faults' = faults
      /\ outcome # "ok" => faults'[n] = faults[n] + 1
      /\ \A a \in Node : a # n => faults'[a] = faults[a]
  BY StoreUpdate DEF IInv
<1> HIDE DEF k
<1>2. /\ outcome = "ok" => store'[n][k] = w
      /\ outcome = "none" => store'[n][k] = store[n][k]
      /\ outcome # "none" => store'[n][k] # None /\ store'[n][k].hdr = w.hdr
      /\ outcome = "torn" => store'[n][k].sig =
                               IF store[n][k] = None THEN None ELSE store[n][k].sig
      /\ outcome \in {"ok", "none", "torn"}
  <2>1. outcome \in {"ok", "none", "torn"} /\ store[n][k] \in Entries \cup {None}
    BY <1>1, OutcomeFacts, TypeFacts DEF IInv
  <2>2. outcome # "none" => store'[n][k] \in Entries /\ store'[n][k].hdr = w.hdr
    BY <1>1, <2>1, PutFacts
  <2>3. /\ outcome = "ok" => store'[n][k] = w
        /\ outcome = "none" => store'[n][k] = store[n][k]
    BY <1>1, <2>1, PutFacts
  <2>4. outcome = "torn" => store'[n][k].sig =
                             IF store[n][k] = None THEN None ELSE store[n][k].sig
    BY <1>1, <2>1, PutFacts
  <2> QED BY <2>1, <2>2, <2>3, <2>4, EntryFacts
<1>3. StoredIssued'
  <2> SUFFICES ASSUME NEW a \in Node, NEW b \in Key, store'[a][b] # None
               PROVE  /\ store'[a][b].hdr \in issued /\ store'[a][b].hdr.key = b
                      /\ store'[a][b].sig \in issued \cup {None}
    BY DEF StoredIssued
  <2>1. CASE a = n /\ b = k
    <3>1. store'[n][k].hdr \in issued /\ store'[n][k].hdr.key = k
      BY <1>2, <2>1 DEF IInv, StoredIssued, k
    <3>2. store'[n][k].sig \in issued \cup {None}
      BY <1>1, <1>2, <2>1 DEF IInv, StoredIssued
    <3> QED BY <2>1, <3>1, <3>2
  <2>2. CASE a # n \/ b # k
    BY <1>1, <2>2 DEF IInv, StoredIssued
  <2> QED BY <2>1, <2>2
<1>4. TornStaysLocal'
  <2> SUFFICES ASSUME NEW a \in Node, NEW b \in Key, faults'[a] = 0, store'[a][b] # None
               PROVE  store'[a][b].sig = store'[a][b].hdr
    BY DEF TornStaysLocal
  <2>1. CASE a = n
    <3>1. faults[n] \in Nat
      BY TypeFacts DEF IInv
    <3>2. outcome = "ok" /\ faults[n] = 0
      BY <1>1, <2>1, <3>1
    <3> QED BY <1>1, <1>2, <2>1, <3>2 DEF IInv, TornStaysLocal
  <2>2. CASE a # n
    BY <1>1, <2>2 DEF IInv, TornStaysLocal
  <2> QED BY <2>1, <2>2
<1> QED BY <1>3, <1>4

(* A thread that ends its job disturbs nothing. *)
LEMMA JobEnds ==
  ASSUME IInv, NEW n \in Node, NEW t \in Thread,
         job' = [job EXCEPT ![n][t] = Idle],
         UNCHANGED <<life, issued, seq>>
  PROVE  JobsOwned' /\ JobsApart'
<1>1. /\ job'[n][t].stage = "idle"
      /\ \A a \in Node, b \in Thread : a # n \/ b # t => job'[a][b] = job[a][b]
  BY IdleFacts DEF IInv, TypeOK
<1>2. \A a \in Node, b \in Thread : job'[a][b].stage # "idle" => job'[a][b] = job[a][b]
  BY <1>1
<1>3. JobsOwned'
  BY <1>2 DEF IInv, JobsOwned
<1>4. JobsApart'
  BY <1>2 DEF IInv, JobsApart
<1> QED BY <1>3, <1>4

LEMMA GetNextSequenceIInv ==
  ASSUME IInv, NEW n \in Node, NEW t \in Writers[n], NEW k \in Key,
         GetNextSequence(n, t, k), TypeOK'
  PROVE  IInv'
<1> DEFINE r == [key |-> k, seq |-> seq[n] + 1, ts |-> 0, life |-> life[n]]
<1>1. t \in Thread
  BY ConstantFacts
<1>2. /\ job' = [job EXCEPT ![n][t] = [stage |-> "stamp", rec |-> r]]
      /\ seq' = [seq EXCEPT ![n] = @ + 1]
      /\ Owner[k] = n
      /\ UNCHANGED <<life, issued, clk, store, seen, rx, air, known, faults>>
  BY DEF GetNextSequence
<1>3. /\ job'[n][t] = [stage |-> "stamp", rec |-> r]
      /\ \A a \in Node, b \in Thread : a # n \/ b # t => job'[a][b] = job[a][b]
  BY <1>1, <1>2 DEF IInv, TypeOK
<1>4. /\ r.key = k /\ r.seq = seq[n] + 1 /\ r.life = life[n]
      /\ job'[n][t].stage = "stamp" /\ job'[n][t].rec = r
  BY <1>3
<1>5. /\ seq'[n] = seq[n] + 1 /\ seq[n] \in Nat
      /\ \A a \in Node : seq[a] \in Nat /\ seq'[a] \in Nat /\ seq'[a] >= seq[a]
  BY <1>2, TypeFacts DEF IInv, TypeOK
<1> HIDE DEF r
<1>6. \A q \in issued : Owner[q.key] \in Node /\ q.seq \in Nat /\ q.life \in Nat
  BY RecordFacts DEF IInv, TypeOK
<1>7. \A a \in Node, b \in Thread :
        job[a][b].stage # "idle" => job[a][b].rec.seq \in Nat /\ job[a][b].rec.seq <= seq[a]
  BY TypeFacts, JobFacts, RecordFacts DEF IInv, JobsOwned
<1>8. IssuedInPast'
  BY <1>2, <1>5, <1>6 DEF IInv, IssuedInPast
<1>9. JobsOwned'
  <2> SUFFICES ASSUME NEW a \in Node, NEW b \in Thread, job'[a][b].stage # "idle"
               PROVE  LET x == job'[a][b].rec
                      IN  /\ Owner[x.key] = a /\ x.life = life[a] /\ x.seq <= seq'[a]
                          /\ job'[a][b].stage # "stamp" => x \in issued
                          /\ job'[a][b].stage = "stamp" =>
                               \A q \in issued : Owner[q.key] = a /\ q.life = life[a]
                                                   => q.seq # x.seq
    BY <1>2 DEF JobsOwned
  <2>1. CASE a = n /\ b = t
    <3>1. \A q \in issued : Owner[q.key] = n /\ q.life = life[n] => q.seq # r.seq
      BY <1>4, <1>5, <1>6 DEF IInv, IssuedInPast
    <3> QED BY <2>1, <3>1, <1>2, <1>4, <1>5
  <2>2. CASE a # n \/ b # t
    BY <2>2, <1>3, <1>5, <1>7 DEF IInv, JobsOwned
  <2> QED BY <2>1, <2>2
<1>10. JobsApart'
  <2> SUFFICES ASSUME NEW a \in Node, NEW b \in Thread, NEW c \in Thread, b # c,
                      job'[a][b].stage # "idle", job'[a][c].stage # "idle"
               PROVE  job'[a][b].rec.seq # job'[a][c].rec.seq
    BY DEF JobsApart
  <2>1. CASE a = n /\ (b = t \/ c = t)
    BY <2>1, <1>3, <1>4, <1>5, <1>7
  <2>2. CASE a # n \/ (b # t /\ c # t)
    BY <2>2, <1>3 DEF IInv, JobsApart
  <2> QED BY <2>1, <2>2
<1>11. StoredIssued' /\ AirIssued' /\ UniqueInLife' /\ TornStaysLocal'
  BY <1>2 DEF IInv, StoredIssued, AirIssued, UniqueInLife, TornStaysLocal
<1>12. MergeValid'
  BY <1>2 DEF IInv, MergeValid
<1> QED BY <1>8, <1>9, <1>10, <1>11, <1>12 DEF IInv

LEMMA StampAndSignIInv ==
  ASSUME IInv, NEW n \in Node, NEW t \in Writers[n], StampAndSign(n, t), TypeOK'
  PROVE  IInv'
<1> DEFINE q == job[n][t].rec
           r(ts) == [key |-> q.key, seq |-> q.seq, ts |-> ts, life |-> q.life]
<1>1. t \in Thread
  BY ConstantFacts
<1>2. PICK ts \in clk[n] + 1 .. MaxStamp :
        /\ issued' = issued \cup {r(ts)}
        /\ job' = [job EXCEPT ![n][t] = [stage |-> "store", rec |-> r(ts)]]
        /\ job[n][t].stage = "stamp"
        /\ UNCHANGED <<life, seq, store, seen, rx, air, known, faults>>
  BY DEF StampAndSign
<1> DEFINE x == r(ts)
<1>3. /\ job'[n][t] = [stage |-> "store", rec |-> x]
      /\ \A a \in Node, b \in Thread : a # n \/ b # t => job'[a][b] = job[a][b]
  BY <1>1, <1>2 DEF IInv, TypeOK
<1>4. /\ x.key = q.key /\ x.seq = q.seq /\ x.life = q.life
      /\ job'[n][t].stage = "store" /\ job'[n][t].rec = x
      /\ issued' = issued \cup {x}
  BY <1>2, <1>3
<1>5. /\ Owner[q.key] = n /\ q.life = life[n] /\ q.seq <= seq[n]
      /\ \A y \in issued : Owner[y.key] = n /\ y.life = life[n] => y.seq # q.seq
  BY <1>1, <1>2 DEF IInv, JobsOwned
<1>6. life[n] \in Nat
  BY TypeFacts DEF IInv
<1> HIDE DEF x, q
<1>7. IssuedInPast'
  BY <1>2, <1>4, <1>5, <1>6 DEF IInv, IssuedInPast
<1>8. JobsOwned'
  <2> SUFFICES ASSUME NEW a \in Node, NEW b \in Thread, job'[a][b].stage # "idle"
               PROVE  LET z == job'[a][b].rec
                      IN  /\ Owner[z.key] = a /\ z.life = life[a] /\ z.seq <= seq[a]
                          /\ job'[a][b].stage # "stamp" => z \in issued'
                          /\ job'[a][b].stage = "stamp" =>
                               \A y \in issued' : Owner[y.key] = a /\ y.life = life[a]
                                                   => y.seq # z.seq
    BY <1>2 DEF JobsOwned
  <2>1. CASE a = n /\ b = t
    BY <2>1, <1>4, <1>5
  <2>2. CASE a # n \/ b # t
    <3>1. job'[a][b] = job[a][b]
      BY <2>2, <1>3
    <3>2. LET z == job[a][b].rec
          IN  /\ Owner[z.key] = a /\ z.life = life[a] /\ z.seq <= seq[a]
              /\ job[a][b].stage # "stamp" => z \in issued
              /\ job[a][b].stage = "stamp" =>
                   \A y \in issued : Owner[y.key] = a /\ y.life = life[a] => y.seq # z.seq
      BY <3>1 DEF IInv, JobsOwned
    <3>3. Owner[x.key] = a => x.seq # job[a][b].rec.seq
      <4> SUFFICES ASSUME a = n PROVE q.seq # job[a][b].rec.seq
        BY <1>4, <1>5
      <4> QED BY <1>1, <1>2, <2>2, <3>1 DEF IInv, JobsApart, q
    <3> QED BY <3>1, <3>2, <3>3, <1>4
  <2> QED BY <2>1, <2>2
<1>9. JobsApart'
  <2> SUFFICES ASSUME NEW a \in Node, NEW b \in Thread, NEW c \in Thread, b # c,
                      job'[a][b].stage # "idle", job'[a][c].stage # "idle"
               PROVE  job'[a][b].rec.seq # job'[a][c].rec.seq
    BY DEF JobsApart
  <2>1. \A d \in Thread : /\ job'[a][d].stage # "idle" => job[a][d].stage # "idle"
                          /\ job'[a][d].rec.seq = job[a][d].rec.seq
    BY <1>2, <1>3, <1>4 DEF q
  <2> QED BY <2>1 DEF IInv, JobsApart
<1>10. UniqueInLife'
  BY <1>4, <1>5 DEF IInv, UniqueInLife
<1>11. StoredIssued' /\ AirIssued' /\ TornStaysLocal'
  BY <1>2, <1>4 DEF IInv, StoredIssued, AirIssued, TornStaysLocal
<1>12. MergeValid'
  BY <1>2, <1>4 DEF IInv, MergeValid
<1> QED BY <1>7, <1>8, <1>9, <1>10, <1>11, <1>12 DEF IInv

LEMMA PutRecordIInv ==
  ASSUME IInv, NEW n \in Node, NEW t \in Writers[n], PutRecord(n, t), TypeOK'
  PROVE  IInv'
<1> DEFINE r == job[n][t].rec
           w == [hdr |-> r, sig |-> r]
<1>1. t \in Thread
  BY ConstantFacts
<1>2. PICK outcome \in Outcomes(n) :
        /\ StorePut(n, w, outcome)
        /\ job' = [job EXCEPT ![n][t] =
                     IF outcome = "ok" THEN [stage |-> "memo", rec |-> r] ELSE Idle]
        /\ job[n][t].stage = "store"
        /\ UNCHANGED <<life, issued, seq, clk, seen, rx, air, known>>
  BY DEF PutRecord
<1>3. r \in Records /\ w \in Entries /\ w.hdr = r /\ w.sig = r
  BY <1>1, <1>2, TypeFacts, JobFacts DEF IInv, Entries
<1>4. Owner[r.key] = n /\ r \in issued
  BY <1>1, <1>2 DEF IInv, JobsOwned
<1>5. /\ \A a \in Node, b \in Thread : a # n \/ b # t => job'[a][b] = job[a][b]
      /\ job'[n][t].stage # "idle" => job'[n][t].stage = "memo" /\ job'[n][t].rec = r
  BY <1>1, <1>2, IdleFacts DEF IInv, TypeOK
<1> HIDE DEF w
<1>6. StoredIssued' /\ TornStaysLocal'
  BY <1>2, <1>3, <1>4, StorePutIInv
<1>7. \A a \in Node, b \in Key : a # n \/ b # r.key => store'[a][b] = store[a][b]
  BY <1>2, <1>3, StoreUpdate DEF IInv
<1>8. MergeValid'
  <2> SUFFICES ASSUME NEW a \in Node, rx[a].stage # "idle"
               PROVE  LET e == rx[a].rec
                      IN  store'[a][e.hdr.key] = store[a][e.hdr.key]
    BY <1>2 DEF IInv, MergeValid
  <2>1. Owner[rx[a].rec.hdr.key] # a /\ rx[a].rec.hdr.key \in Key
    BY TypeFacts, MergeFacts, EntryFacts, RecordFacts DEF IInv, MergeValid
  <2> QED BY <1>4, <1>7, <2>1
<1>9. JobsOwned'
  <2>1. \A a \in Node, b \in Thread :
          job'[a][b].stage # "idle" =>
            /\ job[a][b].stage # "idle"
            /\ job'[a][b].rec = job[a][b].rec
            /\ job'[a][b].stage = "stamp" <=> job[a][b].stage = "stamp"
    BY <1>2, <1>5
  <2> QED BY <1>2, <2>1 DEF IInv, JobsOwned
<1>10. JobsApart'
  <2>1. \A a \in Node, b \in Thread :
          job'[a][b].stage # "idle" =>
            job[a][b].stage # "idle" /\ job'[a][b].rec = job[a][b].rec
    BY <1>2, <1>5
  <2> QED BY <2>1 DEF IInv, JobsApart
<1>11. IssuedInPast' /\ AirIssued' /\ UniqueInLife'
  BY <1>2 DEF IInv, IssuedInPast, AirIssued, UniqueInLife
<1> QED BY <1>6, <1>8, <1>9, <1>10, <1>11 DEF IInv

LEMMA MergePutIInv ==
  ASSUME IInv, NEW n \in Node, MergePut(n), TypeOK'
  PROVE  IInv'
<1> DEFINE w == rx[n].rec
<1>1. PICK outcome \in Outcomes(n) :
        /\ StorePut(n, w, outcome)
        /\ rx[n].stage = "store"
        /\ rx' = [rx EXCEPT ![n] = [stage |-> "memo", rec |-> w]]
        /\ UNCHANGED <<life, issued, seq, clk, seen, job, air, known>>
  BY DEF MergePut
<1>2. w \in Entries /\ w.hdr \in issued /\ w.sig = w.hdr /\ Owner[w.hdr.key] # n
  BY <1>1, TypeFacts, MergeFacts DEF IInv, MergeValid
<1> HIDE DEF w
<1>3. StoredIssued' /\ TornStaysLocal'
  BY <1>1, <1>2, StorePutIInv
<1>4. \A a \in Node, b \in Key : a # n => store'[a][b] = store[a][b]
  BY <1>1, <1>2, StoreUpdate DEF IInv
<1>5. /\ rx'[n].stage = "memo" /\ rx'[n].rec = w
      /\ \A a \in Node : a # n => rx'[a] = rx[a]
  BY <1>1 DEF IInv, TypeOK
<1>6. MergeValid'
  <2> SUFFICES ASSUME NEW a \in Node, rx'[a].stage # "idle"
               PROVE  LET e == rx'[a].rec
                      IN  /\ e.hdr \in issued' /\ Owner[e.hdr.key] # a
                          /\ rx'[a].stage # "memo" =>
                               Supersedes(e.hdr, store'[a][e.hdr.key])
                          /\ rx'[a].stage = "store" => e.sig = e.hdr
    BY DEF MergeValid
  <2>1. CASE a = n
    BY <1>1, <1>2, <1>5, <2>1
  <2>2. CASE a # n
    <3>1. rx'[a] = rx[a] /\ issued' = issued
      BY <1>1, <1>5, <2>2
    <3>2. rx[a].rec.hdr.key \in Key
      BY <3>1, TypeFacts, MergeFacts, EntryFacts, RecordFacts DEF IInv
    <3>3. store'[a][rx[a].rec.hdr.key] = store[a][rx[a].rec.hdr.key]
      BY <1>4, <2>2, <3>2
    <3> QED BY <3>1, <3>3 DEF IInv, MergeValid
  <2> QED BY <2>1, <2>2
<1>7. IssuedInPast' /\ AirIssued' /\ UniqueInLife'
  BY <1>1 DEF IInv, IssuedInPast, AirIssued, UniqueInLife
<1>8. JobsOwned' /\ JobsApart'
  BY <1>1 DEF IInv, JobsOwned, JobsApart
<1> QED BY <1>3, <1>6, <1>7, <1>8 DEF IInv

LEMMA ReceiveIInv ==
  ASSUME IInv, NEW n \in Node, NEW s \in Node, NEW m \in air[s], Receive(n, m), TypeOK'
  PROVE  IInv'
<1>1. /\ rx' = [rx EXCEPT ![n] = [stage |-> "verify", rec |-> m]]
      /\ Owner[m.hdr.key] # n
      /\ Supersedes(m.hdr, store[n][m.hdr.key])
      /\ UNCHANGED <<life, issued, seq, clk, store, seen, job, air, known, faults>>
  BY DEF Receive
<1>2. m.hdr \in issued
  BY DEF IInv, AirIssued
<1>3. /\ rx'[n].stage = "verify" /\ rx'[n].rec = m
      /\ \A a \in Node : a # n => rx'[a] = rx[a]
  BY <1>1 DEF IInv, TypeOK
<1>4. MergeValid'
  <2> SUFFICES ASSUME NEW a \in Node, rx'[a].stage # "idle"
               PROVE  LET e == rx'[a].rec
                      IN  /\ e.hdr \in issued' /\ Owner[e.hdr.key] # a
                          /\ rx'[a].stage # "memo" =>
                               Supersedes(e.hdr, store'[a][e.hdr.key])
                          /\ rx'[a].stage = "store" => e.sig = e.hdr
    BY DEF MergeValid
  <2>1. CASE a = n
    BY <1>1, <1>2, <1>3, <2>1
  <2>2. CASE a # n
    <3>1. rx'[a] = rx[a] /\ store' = store /\ issued' = issued
      BY <1>1, <1>3, <2>2
    <3> QED BY <3>1 DEF IInv, MergeValid, Supersedes
  <2> QED BY <2>1, <2>2
<1>5. IssuedInPast' /\ AirIssued' /\ UniqueInLife' /\ StoredIssued' /\ TornStaysLocal'
  BY <1>1 DEF IInv, IssuedInPast, AirIssued, UniqueInLife, StoredIssued, TornStaysLocal
<1>6. JobsOwned' /\ JobsApart'
  BY <1>1 DEF IInv, JobsOwned, JobsApart
<1> QED BY <1>4, <1>5, <1>6 DEF IInv

LEMMA VerifyIInv ==
  ASSUME IInv, NEW n \in Node, Verify(n), TypeOK'
  PROVE  IInv'
<1>1. /\ rx[n].stage = "verify"
      /\ \/ /\ Verified(n, rx[n].rec)
            /\ rx' = [rx EXCEPT ![n] = [stage |-> "store", rec |-> rx[n].rec]]
         \/ rx' = [rx EXCEPT ![n] = Idle]
      /\ UNCHANGED <<life, issued, seq, store, seen, job, air, known, faults>>
  BY DEF Verify
<1>2. \A a \in Node : rx'[a].stage # "idle" =>
        /\ rx[a].stage # "idle"
        /\ rx'[a].rec = rx[a].rec
        /\ rx'[a].stage # "memo" => rx[a].stage # "memo"
        /\ rx'[a].stage = "store" => rx[a].stage = "store" \/ Verified(a, rx[a].rec)
  <2>1. \A a \in Node : a # n => rx'[a] = rx[a]
    BY <1>1 DEF IInv, TypeOK
  <2>2. \/ /\ Verified(n, rx[n].rec)
           /\ rx'[n] = [stage |-> "store", rec |-> rx[n].rec]
        \/ rx'[n] = Idle
    BY <1>1 DEF IInv, TypeOK
  <2>3. \/ /\ Verified(n, rx[n].rec)
           /\ rx'[n].stage = "store" /\ rx'[n].rec = rx[n].rec
        \/ rx'[n].stage = "idle"
    BY <2>2, IdleFacts
  <2> QED BY <1>1, <2>1, <2>3
<1>3. MergeValid'
  BY <1>1, <1>2 DEF IInv, MergeValid, Verified
<1>4. IssuedInPast' /\ AirIssued' /\ UniqueInLife' /\ StoredIssued' /\ TornStaysLocal'
  BY <1>1 DEF IInv, IssuedInPast, AirIssued, UniqueInLife, StoredIssued, TornStaysLocal
<1>5. JobsOwned' /\ JobsApart'
  BY <1>1 DEF IInv, JobsOwned, JobsApart
<1> QED BY <1>3, <1>4, <1>5 DEF IInv

LEMMA RestartIInv ==
  ASSUME IInv, NEW n \in Node, Restart(n), TypeOK'
  PROVE  IInv'
<1>1. /\ life'[n] = life[n] + 1 /\ \A a \in Node : a # n => life'[a] = life[a] /\ seq'[a] = seq[a]
      /\ \A t \in Thread : job'[n][t].stage = "idle"
      /\ \A a \in Node : a # n => job'[a] = job[a] /\ store'[a] = store[a] /\ rx'[a] = rx[a]
      /\ rx'[n].stage = "idle"
      /\ \A k \in Key : store'[n][k] = None
      /\ UNCHANGED <<issued, air, known, faults>>
  BY IdleFacts DEF Restart, IInv, TypeOK
<1>2. \A a \in Node : life[a] \in Nat
  BY TypeFacts DEF IInv
<1>3. \A q \in issued : Owner[q.key] \in Node /\ q.life \in Nat
  BY RecordFacts DEF IInv, TypeOK
<1>4. IssuedInPast'
  BY <1>1, <1>2, <1>3 DEF IInv, IssuedInPast
<1>5. JobsOwned'
  BY <1>1 DEF IInv, JobsOwned
<1>6. JobsApart'
  BY <1>1 DEF IInv, JobsApart
<1>7. StoredIssued' /\ AirIssued' /\ UniqueInLife' /\ TornStaysLocal'
  BY <1>1 DEF IInv, StoredIssued, AirIssued, UniqueInLife, TornStaysLocal
<1>8. MergeValid'
  BY <1>1 DEF IInv, MergeValid
<1> QED BY <1>4, <1>5, <1>6, <1>7, <1>8 DEF IInv

LEMMA StepIInv == IInv /\ [Next]_vars => IInv'
<1> SUFFICES ASSUME IInv, [Next]_vars PROVE IInv'
  OBVIOUS
<1>0. TypeOK'
  BY StepType DEF IInv
<1>1. ASSUME NEW n \in Node, NEW t \in Writers[n], NEW k \in Key, GetNextSequence(n, t, k)
      PROVE  IInv'
  BY <1>0, <1>1, GetNextSequenceIInv
<1>2. ASSUME NEW n \in Node, NEW t \in Writers[n], StampAndSign(n, t)
      PROVE  IInv'
  BY <1>0, <1>2, StampAndSignIInv
<1>3. ASSUME NEW n \in Node, NEW t \in Writers[n], GiveUp(n, t) \/ CallMemos(n, t)
      PROVE  IInv'
  <2>1. /\ job' = [job EXCEPT ![n][t] = Idle]
        /\ UNCHANGED <<life, issued, seq, clk, store, rx, air, known, faults>>
    BY <1>3 DEF GiveUp, CallMemos
  <2>2. JobsOwned' /\ JobsApart'
    BY <2>1, ConstantFacts, JobEnds
  <2>3. IssuedInPast' /\ AirIssued' /\ UniqueInLife' /\ StoredIssued' /\ TornStaysLocal'
    BY <2>1 DEF IInv, IssuedInPast, AirIssued, UniqueInLife, StoredIssued, TornStaysLocal
  <2>4. MergeValid'
    BY <2>1 DEF IInv, MergeValid
  <2> QED BY <1>0, <2>2, <2>3, <2>4 DEF IInv
<1>4. ASSUME NEW n \in Node, NEW t \in Writers[n], PutRecord(n, t)
      PROVE  IInv'
  BY <1>0, <1>4, PutRecordIInv
<1>5. ASSUME NEW n \in Node, NEW k \in Key, Broadcast(n, k)
      PROVE  IInv'
  <2>1. /\ store[n][k] # None
        /\ air' = [air EXCEPT ![n] = @ \cup {store[n][k]}]
        /\ UNCHANGED <<life, issued, seq, clk, store, seen, job, rx, known, faults>>
    BY <1>5 DEF Broadcast
  <2>2. AirIssued'
    BY <2>1 DEF IInv, AirIssued, StoredIssued, TypeOK
  <2>3. IssuedInPast' /\ UniqueInLife' /\ StoredIssued' /\ TornStaysLocal'
    BY <2>1 DEF IInv, IssuedInPast, UniqueInLife, StoredIssued, TornStaysLocal
  <2>4. JobsOwned' /\ JobsApart' /\ MergeValid'
    BY <2>1 DEF IInv, JobsOwned, JobsApart, MergeValid
  <2> QED BY <1>0, <2>2, <2>3, <2>4 DEF IInv
<1>6. ASSUME NEW n \in Node, NEW s \in Node, NEW m \in air[s], Receive(n, m)
      PROVE  IInv'
  BY <1>0, <1>6, ReceiveIInv
<1>7. ASSUME NEW n \in Node, Verify(n) PROVE IInv'
  BY <1>0, <1>7, VerifyIInv
<1>8. ASSUME NEW n \in Node, MergePut(n) PROVE IInv'
  BY <1>0, <1>8, MergePutIInv
<1>9. ASSUME NEW n \in Node, Restart(n) PROVE IInv'
  BY <1>0, <1>9, RestartIInv
<1>13. ASSUME NEW n \in Node, MergeMemos(n) PROVE IInv'
  <2>1. /\ rx' = [rx EXCEPT ![n] = Idle]
        /\ UNCHANGED <<life, issued, seq, clk, store, job, air, known, faults>>
    BY <1>13 DEF MergeMemos
  <2>2. \A a \in Node : rx'[a].stage # "idle" => rx'[a] = rx[a]
    BY <2>1, IdleFacts DEF IInv, TypeOK
  <2>3. MergeValid'
    BY <2>1, <2>2 DEF IInv, MergeValid
  <2>4. IssuedInPast' /\ AirIssued' /\ UniqueInLife' /\ StoredIssued' /\ TornStaysLocal'
    BY <2>1 DEF IInv, IssuedInPast, AirIssued, UniqueInLife, StoredIssued, TornStaysLocal
  <2>5. JobsOwned' /\ JobsApart'
    BY <2>1 DEF IInv, JobsOwned, JobsApart
  <2> QED BY <1>0, <2>3, <2>4, <2>5 DEF IInv
<1>10. CASE UNCHANGED <<life, issued, seq, store, job, rx, air, faults>>
  <2>1. IssuedInPast' /\ AirIssued' /\ UniqueInLife' /\ StoredIssued' /\ TornStaysLocal'
    BY <1>10 DEF IInv, IssuedInPast, AirIssued, UniqueInLife, StoredIssued, TornStaysLocal
  <2>2. JobsOwned' /\ JobsApart' /\ MergeValid'
    BY <1>10 DEF IInv, JobsOwned, JobsApart, MergeValid
  <2> QED BY <1>0, <2>1, <2>2 DEF IInv
<1>11. ASSUME NEW n \in Node, NEW m \in Node, LearnIdentity(n, m) PROVE IInv'
  BY <1>10, <1>11 DEF LearnIdentity
<1>12. CASE UNCHANGED vars
  BY <1>10, <1>12 DEF vars
<1> QED
  BY <1>1, <1>2, <1>3, <1>4, <1>5, <1>6, <1>7, <1>8, <1>9, <1>11, <1>12, <1>13 DEF Next

LEMMA Invariance == Spec => []IInv
BY InitIInv, StepIInv, PTL DEF Spec

(* Two threads of a node never give a record the same number.              *)
THEOREM UniqueSequences == Spec => []UniqueInLife
<1>1. IInv => UniqueInLife
  BY DEF IInv
<1> QED BY <1>1, Invariance, PTL

(* A torn record is accepted by no other node.                             *)
THEOREM TornRecordsStayLocal == Spec => []TornStaysLocal
<1>1. IInv => TornStaysLocal
  BY DEF IInv
<1> QED BY <1>1, Invariance, PTL
-----------------------------------------------------------------------------
(* What the memo callbacks have seen. *)

(* What a thread is about to file is in no entry of the table yet. *)
Fresh ==
  \A n \in Node, t \in Thread :
    LET r == job[n][t].rec
    IN  job[n][t].stage = "store" /\ store[n][r.key] # None => store[n][r.key].sig # r

SInv == Fresh /\ SeenIsHeld

LEMMA InitSInv == Init => SInv
<1> SUFFICES ASSUME Init PROVE SInv
  OBVIOUS
<1>1. \A n \in Node, t \in Thread : job[n][t].stage # "store"
  BY IdleFacts DEF Init
<1>2. \A n \in Node, k \in Key : store[n][k] = None
  BY DEF Init
<1> QED BY <1>1, <1>2 DEF SInv, Fresh, SeenIsHeld

(* Steps that file nothing, end no memo and bring no new record to a put.  *)
LEMMA SInvKept ==
  ASSUME SInv, UNCHANGED <<store, seen>>,
         \A n \in Node, t \in Thread :
           /\ job'[n][t].stage = "store" => job'[n][t] = job[n][t]
           /\ job[n][t].stage = "memo" => job'[n][t] = job[n][t],
         \A n \in Node : rx[n].stage = "memo" => rx'[n] = rx[n]
  PROVE  SInv'
<1>1. Fresh'
  BY DEF SInv, Fresh
<1>2. \A n \in Node, k \in Key : Notifying(n, k) => Notifying(n, k)'
  BY DEF Notifying
<1>3. SeenIsHeld'
  BY <1>2 DEF SInv, SeenIsHeld
<1> QED BY <1>1, <1>3 DEF SInv

LEMMA StampAndSignSInv ==
  ASSUME IInv, SInv, NEW n \in Node, NEW t \in Writers[n], StampAndSign(n, t)
  PROVE  SInv'
<1> DEFINE q == job[n][t].rec
           r(ts) == [key |-> q.key, seq |-> q.seq, ts |-> ts, life |-> q.life]
<1>1. PICK ts \in clk[n] + 1 .. MaxStamp :
        /\ job' = [job EXCEPT ![n][t] = [stage |-> "store", rec |-> r(ts)]]
        /\ job[n][t].stage = "stamp"
        /\ UNCHANGED <<store, seen, rx>>
  BY DEF StampAndSign
<1> DEFINE x == r(ts)
<1>2. t \in Thread
  BY ConstantFacts
<1>3. /\ job'[n][t] = [stage |-> "store", rec |-> x]
      /\ \A a \in Node, b \in Thread : a # n \/ b # t => job'[a][b] = job[a][b]
  BY <1>1, <1>2 DEF IInv, TypeOK
<1>4. q \in Records /\ ts \in Nat
  BY <1>1, <1>2, TypeFacts, JobFacts DEF IInv
<1>5. x \in Records /\ x.key = q.key /\ x.seq = q.seq /\ x.life = q.life
  BY <1>4, RecordFacts DEF Records
<1>6. x \notin issued /\ x # None
  BY <1>1, <1>2, <1>5, RecordFacts DEF IInv, JobsOwned
<1>7. job'[n][t].stage = "store" /\ job'[n][t].rec = x
  BY <1>3
<1> HIDE DEF x, q
<1>8. Fresh'
  <2> SUFFICES ASSUME NEW a \in Node, NEW b \in Thread, job'[a][b].stage = "store",
                      store[a][job'[a][b].rec.key] # None
               PROVE  store[a][job'[a][b].rec.key].sig # job'[a][b].rec
    BY <1>1 DEF Fresh
  <2>1. CASE a = n /\ b = t
    <3>1. x.key \in Key
      BY <1>5, RecordFacts
    <3>2. store[n][x.key].sig \in issued \cup {None}
      BY <1>7, <2>1, <3>1 DEF IInv, StoredIssued
    <3> QED BY <1>6, <1>7, <2>1, <3>2
  <2>2. CASE a # n \/ b # t
    BY <1>3, <2>2 DEF SInv, Fresh
  <2> QED BY <2>1, <2>2
<1>9. \A a \in Node, k \in Key : Notifying(a, k) => Notifying(a, k)'
  BY <1>1, <1>3 DEF Notifying
<1>10. SeenIsHeld'
  BY <1>1, <1>9 DEF SInv, SeenIsHeld
<1> QED BY <1>8, <1>10 DEF SInv

LEMMA PutRecordSInv ==
  ASSUME IInv, SInv, NEW n \in Node, NEW t \in Writers[n], PutRecord(n, t)
  PROVE  SInv'
<1> DEFINE r == job[n][t].rec
           w == [hdr |-> r, sig |-> r]
<1>1. PICK outcome \in Outcomes(n) :
        /\ StorePut(n, w, outcome)
        /\ job' = [job EXCEPT ![n][t] =
                     IF outcome = "ok" THEN [stage |-> "memo", rec |-> r] ELSE Idle]
  BY DEF PutRecord
<1>2. t \in Thread /\ job[n][t].stage = "store" /\ UNCHANGED <<seen, rx>>
  BY ConstantFacts DEF PutRecord
<1>3. r \in Records /\ r.key \in Key
  BY <1>2, TypeFacts, JobFacts, RecordFacts DEF IInv
<1>4. w \in Entries /\ w.hdr = r /\ w.sig = r
  BY <1>3 DEF Entries
<1>5. /\ \A a \in Node, b \in Thread : a # n \/ b # t => job'[a][b] = job[a][b]
      /\ job'[n][t].stage # "store"
      /\ outcome = "ok" => job'[n][t].stage = "memo" /\ job'[n][t].rec = r
  BY <1>1, <1>2, IdleFacts DEF IInv, TypeOK
<1> HIDE DEF w
<1>6. /\ store'[n][r.key] = Put(store[n][r.key], w, outcome)
      /\ \A a \in Node, k \in Key : a # n \/ k # r.key => store'[a][k] = store[a][k]
  BY <1>1, <1>4, StoreUpdate DEF IInv
<1>7. outcome \in {"ok", "none", "torn"} /\ store[n][r.key] \in Entries \cup {None}
  BY <1>1, <1>3, OutcomeFacts, TypeFacts DEF IInv
<1>8. /\ outcome = "ok" => store'[n][r.key].sig = r
      /\ outcome = "none" => store'[n][r.key] = store[n][r.key]
      /\ outcome = "torn" => /\ store'[n][r.key].hdr = r
                             /\ store'[n][r.key].sig =
                                  IF store[n][r.key] = None THEN None
                                                            ELSE store[n][r.key].sig
  <2> DEFINE e == store[n][r.key]
             p == Put(e, w, outcome)
  <2>1. e \in Entries \cup {None} /\ w \in Entries
    BY <1>4, <1>7
  <2>2. store'[n][r.key] = p
    BY <1>6
  <2>3. w.hdr = r /\ w.sig = r
    BY <1>4
  <2> HIDE DEF r, e
  <2>4. /\ outcome = "ok" => p = w
        /\ outcome = "none" => p = e
        /\ outcome = "torn" => p.hdr = w.hdr /\ p.sig = (IF e = None THEN None ELSE e.sig)
    BY <1>7, <2>1, PutFacts
  <2> HIDE DEF p
  <2>5. outcome = "ok" => store'[n][r.key].sig = r
    BY <2>2, <2>3, <2>4
  <2>6. outcome = "none" => store'[n][r.key] = e
    BY <2>2, <2>4
  <2>7. outcome = "torn" => /\ store'[n][r.key].hdr = r
                             /\ store'[n][r.key].sig = (IF e = None THEN None ELSE e.sig)
    BY <2>2, <2>3, <2>4
  <2> QED BY <2>5, <2>6, <2>7 DEF e
<1>9. outcome = "torn" => store'[n][r.key].sig # r
  BY <1>2, <1>3, <1>8, RecordFacts DEF SInv, Fresh
<1>10. Fresh'
  <2> SUFFICES ASSUME NEW a \in Node, NEW b \in Thread, job'[a][b].stage = "store",
                      store'[a][job'[a][b].rec.key] # None
               PROVE  store'[a][job'[a][b].rec.key].sig # job'[a][b].rec
    BY DEF Fresh
  <2>1. job'[a][b] = job[a][b] /\ (a # n \/ b # t)
    BY <1>5
  <2> DEFINE x == job[a][b].rec
  <2>2. x \in Records /\ x.key \in Key
    BY <2>1, TypeFacts, JobFacts, RecordFacts DEF IInv
  <2> HIDE DEF x
  <2>3. CASE a = n /\ x.key = r.key
    <3>1. x # r
      BY <1>2, <2>1, <2>3 DEF IInv, JobsApart, x
    <3>2. store[n][r.key] # None => store[n][r.key].sig # x
      BY <2>1, <2>3 DEF SInv, Fresh, x
    <3>3. x # None
      BY <2>2, RecordFacts
    <3> QED BY <1>7, <1>8, <2>1, <2>3, <3>1, <3>2, <3>3 DEF x
  <2>4. CASE a # n \/ x.key # r.key
    <3>1. store'[a][x.key] = store[a][x.key]
      BY <1>6, <2>2, <2>4
    <3> QED BY <2>1, <3>1 DEF SInv, Fresh, x
  <2> QED BY <2>3, <2>4
<1>11. SeenIsHeld'
  <2> SUFFICES ASSUME NEW a \in Node, NEW k \in Key,
                      store'[a][k] # None, store'[a][k].sig = store'[a][k].hdr,
                      ~ Notifying(a, k)'
               PROVE  seen[a][k] = store'[a][k]
    BY <1>2 DEF SeenIsHeld
  <2>1. Notifying(a, k) => Notifying(a, k)'
    BY <1>2, <1>5 DEF Notifying
  <2>2. CASE a = n /\ k = r.key
    <3>1. outcome # "ok"
      BY <1>2, <1>5, <2>2 DEF Notifying
    <3>2. outcome = "none"
      BY <1>7, <1>8, <1>9, <2>2, <3>1
    <3> QED BY <1>3, <1>8, <2>1, <2>2, <3>2 DEF SInv, SeenIsHeld
  <2>3. CASE a # n \/ k # r.key
    BY <1>6, <2>1, <2>3 DEF SInv, SeenIsHeld
  <2> QED BY <2>2, <2>3
<1> QED BY <1>10, <1>11 DEF SInv

LEMMA MergePutSInv ==
  ASSUME IInv, SInv, NEW n \in Node, MergePut(n)
  PROVE  SInv'
<1> DEFINE w == rx[n].rec
           k == w.hdr.key
<1>1. PICK outcome \in Outcomes(n) : StorePut(n, w, outcome)
  BY DEF MergePut
<1>2. /\ rx[n].stage = "store" /\ UNCHANGED <<job, seen>>
      /\ rx' = [rx EXCEPT ![n] = [stage |-> "memo", rec |-> w]]
  BY DEF MergePut
<1>3. w \in Entries /\ k \in Key /\ Owner[k] # n
  BY <1>2, TypeFacts, MergeFacts, EntryFacts, RecordFacts DEF IInv, MergeValid
<1>4. \A a \in Node, b \in Key : a # n \/ b # k => store'[a][b] = store[a][b]
  BY <1>1, <1>3, StoreUpdate DEF IInv
<1>5. /\ rx'[n].stage = "memo" /\ rx'[n].rec = w
      /\ \A a \in Node : a # n => rx'[a] = rx[a]
  BY <1>2 DEF IInv, TypeOK
<1>6. \A b \in Key : b = k => Notifying(n, b)'
  BY <1>5 DEF Notifying
<1> HIDE DEF w, k
<1>7. Fresh'
  <2> SUFFICES ASSUME NEW a \in Node, NEW b \in Thread, job[a][b].stage = "store",
                      store'[a][job[a][b].rec.key] # None
               PROVE  store'[a][job[a][b].rec.key].sig # job[a][b].rec
    BY <1>2 DEF Fresh
  <2>1. job[a][b].rec.key \in Key /\ Owner[job[a][b].rec.key] = a
    BY TypeFacts, JobFacts, RecordFacts DEF IInv, JobsOwned
  <2> QED BY <1>3, <1>4, <2>1 DEF SInv, Fresh
<1>8. SeenIsHeld'
  <2> SUFFICES ASSUME NEW a \in Node, NEW b \in Key,
                      store'[a][b] # None, store'[a][b].sig = store'[a][b].hdr,
                      ~ Notifying(a, b)'
               PROVE  seen[a][b] = store'[a][b]
    BY <1>2 DEF SeenIsHeld
  <2>1. a # n \/ b # k
    BY <1>6
  <2>2. store'[a][b] = store[a][b]
    BY <1>4, <2>1
  <2>3. Notifying(a, b) => Notifying(a, b)'
    BY <1>2, <1>5 DEF Notifying
  <2> QED BY <2>2, <2>3 DEF SInv, SeenIsHeld
<1> QED BY <1>7, <1>8 DEF SInv

(* A memo for k, by whichever thread, has the callback see what is held.   *)
LEMMA MemosSInv ==
  ASSUME IInv, SInv, NEW n \in Node, NEW k \in Key,
         seen' = [seen EXCEPT ![n][k] = store[n][k]],
         store' = store,
         \A a \in Node, t \in Thread : job'[a][t].stage = "store" => job'[a][t] = job[a][t],
         \A a \in Node, b \in Key : (a # n \/ b # k) /\ Notifying(a, b) => Notifying(a, b)'
  PROVE  SInv'
<1>1. /\ seen'[n][k] = store[n][k]
      /\ \A a \in Node, b \in Key : a # n \/ b # k => seen'[a][b] = seen[a][b]
  BY DEF IInv, TypeOK
<1>2. Fresh'
  BY DEF SInv, Fresh
<1>3. SeenIsHeld'
  BY <1>1 DEF SInv, SeenIsHeld
<1> QED BY <1>2, <1>3 DEF SInv

LEMMA RestartSInv ==
  ASSUME IInv, SInv, NEW n \in Node, Restart(n)
  PROVE  SInv'
<1>1. /\ \A t \in Thread : job'[n][t].stage = "idle"
      /\ \A a \in Node : a # n => /\ job'[a] = job[a] /\ store'[a] = store[a]
                                   /\ seen'[a] = seen[a] /\ rx'[a] = rx[a]
      /\ \A k \in Key : store'[n][k] = None
  BY IdleFacts DEF Restart, IInv, TypeOK
<1>2. Fresh'
  <2> SUFFICES ASSUME NEW a \in Node, NEW b \in Thread, job'[a][b].stage = "store",
                      store'[a][job'[a][b].rec.key] # None
               PROVE  store'[a][job'[a][b].rec.key].sig # job'[a][b].rec
    BY DEF Fresh
  <2>1. a # n
    BY <1>1
  <2>2. job'[a] = job[a] /\ store'[a] = store[a]
    BY <1>1, <2>1
  <2> QED BY <2>2 DEF SInv, Fresh
<1>3. \A a \in Node, k \in Key : a # n => (Notifying(a, k)' <=> Notifying(a, k))
  BY <1>1 DEF Notifying
<1>4. SeenIsHeld'
  BY <1>1, <1>3 DEF SInv, SeenIsHeld
<1> QED BY <1>2, <1>4 DEF SInv

LEMMA StepSInv == IInv /\ SInv /\ [Next]_vars => SInv'
<1> SUFFICES ASSUME IInv, SInv, [Next]_vars PROVE SInv'
  OBVIOUS
<1>1. ASSUME NEW n \in Node, NEW t \in Writers[n], NEW k \in Key, GetNextSequence(n, t, k)
      PROVE  SInv'
  <2>1. /\ t \in Thread /\ job[n][t] = Idle
        /\ \E r : job' = [job EXCEPT ![n][t] = [stage |-> "stamp", rec |-> r]]
        /\ UNCHANGED <<store, seen, rx>>
    BY <1>1, ConstantFacts DEF GetNextSequence
  <2>2. /\ job'[n][t].stage = "stamp"
        /\ \A a \in Node, b \in Thread : a # n \/ b # t => job'[a][b] = job[a][b]
    BY <2>1 DEF IInv, TypeOK
  <2> QED BY <2>1, <2>2, IdleFacts, SInvKept
<1>2. ASSUME NEW n \in Node, NEW t \in Writers[n], StampAndSign(n, t)
      PROVE  SInv'
  BY <1>2, StampAndSignSInv
<1>3. ASSUME NEW n \in Node, NEW t \in Writers[n], GiveUp(n, t)
      PROVE  SInv'
  <2>1. /\ t \in Thread /\ job[n][t].stage = "stamp"
        /\ job' = [job EXCEPT ![n][t] = Idle]
        /\ UNCHANGED <<store, seen, rx>>
    BY <1>3, ConstantFacts DEF GiveUp
  <2>2. /\ job'[n][t].stage = "idle"
        /\ \A a \in Node, b \in Thread : a # n \/ b # t => job'[a][b] = job[a][b]
    BY <2>1, IdleFacts DEF IInv, TypeOK
  <2> QED BY <2>1, <2>2, SInvKept
<1>4. ASSUME NEW n \in Node, NEW t \in Writers[n], PutRecord(n, t)
      PROVE  SInv'
  BY <1>4, PutRecordSInv
<1>5. ASSUME NEW n \in Node, NEW t \in Writers[n], CallMemos(n, t)
      PROVE  SInv'
  <2> DEFINE k == job[n][t].rec.key
  <2>1. /\ t \in Thread /\ job[n][t].stage = "memo"
        /\ seen' = [seen EXCEPT ![n][k] = store[n][k]]
        /\ job' = [job EXCEPT ![n][t] = Idle]
        /\ UNCHANGED <<store, rx>>
    BY <1>5, ConstantFacts DEF CallMemos
  <2>2. k \in Key
    BY <2>1, TypeFacts, JobFacts, RecordFacts DEF IInv
  <2>3. /\ job'[n][t].stage = "idle"
        /\ \A a \in Node, b \in Thread : a # n \/ b # t => job'[a][b] = job[a][b]
    BY <2>1, IdleFacts DEF IInv, TypeOK
  <2>4. \A a \in Node, b \in Key : (a # n \/ b # k) /\ Notifying(a, b) => Notifying(a, b)'
    BY <2>1, <2>3 DEF Notifying
  <2>5. \A a \in Node, b \in Thread : job'[a][b].stage = "store" => job'[a][b] = job[a][b]
    BY <2>3
  <2>6. store' = store /\ seen' = [seen EXCEPT ![n][k] = store[n][k]]
    BY <2>1
  <2> HIDE DEF k
  <2> QED BY <2>2, <2>4, <2>5, <2>6, MemosSInv
<1>6. ASSUME NEW n \in Node, MergePut(n) PROVE SInv'
  BY <1>6, MergePutSInv
<1>7. ASSUME NEW n \in Node, MergeMemos(n) PROVE SInv'
  <2> DEFINE k == rx[n].rec.hdr.key
  <2>1. /\ rx[n].stage = "memo"
        /\ seen' = [seen EXCEPT ![n][k] = store[n][k]]
        /\ rx' = [rx EXCEPT ![n] = Idle]
        /\ UNCHANGED <<store, job>>
    BY <1>7 DEF MergeMemos
  <2>2. k \in Key
    BY <2>1, TypeFacts, MergeFacts, EntryFacts, RecordFacts DEF IInv
  <2>3. \A a \in Node : a # n => rx'[a] = rx[a]
    BY <2>1 DEF IInv, TypeOK
  <2>4. \A a \in Node, b \in Key : (a # n \/ b # k) /\ Notifying(a, b) => Notifying(a, b)'
    BY <2>1, <2>3 DEF Notifying
  <2> HIDE DEF k
  <2> QED BY <2>1, <2>2, <2>4, MemosSInv
<1>8. ASSUME NEW n \in Node, NEW s \in Node, NEW m \in air[s], Receive(n, m)
      PROVE  SInv'
  <2>1. /\ rx[n].stage = "idle"
        /\ \A a \in Node : a # n => rx'[a] = rx[a]
        /\ UNCHANGED <<store, seen, job>>
    BY <1>8, IdleFacts DEF Receive, IInv, TypeOK
  <2> QED BY <2>1, SInvKept
<1>9. ASSUME NEW n \in Node, Verify(n) PROVE SInv'
  <2>1. /\ rx[n].stage = "verify"
        /\ \A a \in Node : a # n => rx'[a] = rx[a]
        /\ UNCHANGED <<store, seen, job>>
    BY <1>9 DEF Verify, IInv, TypeOK
  <2> QED BY <2>1, SInvKept
<1>10. ASSUME NEW n \in Node, Restart(n) PROVE SInv'
  BY <1>10, RestartSInv
<1>11. CASE UNCHANGED <<store, seen, job, rx>>
  BY <1>11, SInvKept
<1>12. ASSUME NEW n \in Node,
              (\E k \in Key : Broadcast(n, k)) \/ (\E m \in Node : LearnIdentity(n, m))
       PROVE  SInv'
  BY <1>11, <1>12 DEF Broadcast, LearnIdentity
<1>13. CASE UNCHANGED vars
  BY <1>11, <1>13 DEF vars
<1> QED
  BY <1>1, <1>2, <1>3, <1>4, <1>5, <1>6, <1>7, <1>8, <1>9, <1>10, <1>12, <1>13 DEF Next

(* Whatever the order of the memos of several threads, and although a memo *)
(* runs after a failed put as well, the last callback has found the whole  *)
(* record that the table holds.                                            *)
THEOREM MemosSeeTheTable == Spec => []SeenIsHeld
<1>1. SInv => SeenIsHeld
  BY DEF SInv
<1>2. Spec => []IInv
  BY Invariance
<1> QED BY <1>1, <1>2, InitSInv, StepSInv, PTL DEF Spec
-----------------------------------------------------------------------------
(* The tables implement RecordReplication. *)

LEMMA HeldFacts ==
  ASSUME NEW n \in Node, NEW k \in Key
  PROVE  Held[n][k] = Header(store[n][k]) /\ Held'[n][k] = Header(store'[n][k])
BY DEF Held

LEMMA InitMaps == Init => Replication!Init
BY DEF Init, Replication!Init, Held, Header

(* A step that keeps the stores keeps what is held. *)
LEMMA HeldKept ==
  ASSUME store' = store
  PROVE  Held' = Held
BY DEF Held

(* A put files the record, leaving every other copy alone, or stutters.    *)
LEMMA PutMaps ==
  ASSUME IInv, NEW n \in Node, NEW w \in Entries, NEW outcome \in Outcomes(n),
         StorePut(n, w, outcome)
  PROVE  \/ Held' = Held
         \/ Held' = [Held EXCEPT ![n][w.hdr.key] = w.hdr]
<1> DEFINE k == w.hdr.key
           e == Put(store[n][k], w, outcome)
<1>1. k \in Key /\ store[n][k] \in Entries \cup {None}
  BY EntryFacts, RecordFacts, TypeFacts DEF IInv
<1>2. outcome \in {"ok", "none", "torn"}
  BY OutcomeFacts
<1>3. \/ e = store[n][k]
      \/ e \in Entries /\ e.hdr = w.hdr
  BY <1>1, <1>2, PutFacts
<1>4. store' = [store EXCEPT ![n][k] = e]
  BY DEF StorePut
<1> HIDE DEF e, k
<1>5. /\ \A a \in Node, b \in Key : a # n \/ b # k => store'[a][b] = store[a][b]
      /\ store'[n][k] = e
  BY <1>1, <1>4 DEF IInv, TypeOK
<1>6. \A a \in Node, b \in Key : a # n \/ b # k => Header(store'[a][b]) = Header(store[a][b])
  BY <1>5
<1>7. CASE e = store[n][k]
  <2>1. \A a \in Node, b \in Key : Header(store'[a][b]) = Header(store[a][b])
    BY <1>1, <1>5, <1>6, <1>7
  <2> QED BY <2>1 DEF Held
<1>8. CASE e \in Entries /\ e.hdr = w.hdr
  <2>1. Header(store'[n][k]) = w.hdr
    BY <1>5, <1>8, EntryFacts DEF Header
  <2>2. Held' = [Held EXCEPT ![n][k] = w.hdr]
    BY <1>1, <1>6, <2>1 DEF Held
  <2> QED BY <2>2 DEF k
<1> QED BY <1>3, <1>7, <1>8

LEMMA SignMaps ==
  ASSUME IInv, NEW n \in Node, NEW t \in Writers[n], StampAndSign(n, t), TypeOK'
  PROVE  \E r \in issued' : Replication!Sign(r)
<1> DEFINE q == job[n][t].rec
           r(ts) == [key |-> q.key, seq |-> q.seq, ts |-> ts, life |-> q.life]
<1>1. PICK ts \in clk[n] + 1 .. MaxStamp : issued' = issued \cup {r(ts)}
  BY DEF StampAndSign
<1>2. /\ job[n][t].stage = "stamp"
      /\ UNCHANGED <<life, store>>
  BY DEF StampAndSign
<1>3. t \in Thread
  BY ConstantFacts
<1>4. r(ts) \in Records /\ r(ts) \in issued'
  BY <1>1 DEF TypeOK
<1>5. r(ts).key = q.key /\ r(ts).seq = q.seq /\ r(ts).life = q.life
  OBVIOUS
<1>6. Owner[q.key] = n /\ q.life = life[n]
  BY <1>2, <1>3 DEF IInv, JobsOwned
<1>7. \A p \in issued : Owner[p.key] = n /\ p.life = life[n] => p.seq # q.seq
  BY <1>2, <1>3 DEF IInv, JobsApart, JobsOwned
<1>8. Held' = Held
  BY <1>2, HeldKept
<1>9. Replication!Records = Records
  BY DEF Records, Replication!Records
<1> HIDE DEF r, q
<1> QED BY <1>1, <1>2, <1>4, <1>5, <1>6, <1>7, <1>8, <1>9 DEF Replication!Sign

LEMMA FileMaps ==
  ASSUME IInv, NEW n \in Node, NEW t \in Writers[n], PutRecord(n, t)
  PROVE  \/ \E r \in issued : Replication!File(n, r)
         \/ UNCHANGED Replication!vars
<1> DEFINE r == job[n][t].rec
           w == [hdr |-> r, sig |-> r]
<1>1. PICK outcome \in Outcomes(n) : StorePut(n, w, outcome)
  BY DEF PutRecord
<1>2. job[n][t].stage = "store" /\ UNCHANGED <<life, issued>>
  BY DEF PutRecord
<1>3. t \in Thread
  BY ConstantFacts
<1>4. r \in Records
  BY <1>2, <1>3, TypeFacts, JobFacts DEF IInv
<1>5. Owner[r.key] = n /\ r.life = life[n] /\ r \in issued
  BY <1>2, <1>3 DEF IInv, JobsOwned
<1>6. w \in Entries /\ w.hdr = r
  BY <1>4 DEF Entries
<1> HIDE DEF w, r
<1>7. Held' = Held \/ Held' = [Held EXCEPT ![n][w.hdr.key] = w.hdr]
  BY <1>1, <1>6, PutMaps
<1> QED BY <1>2, <1>5, <1>6, <1>7 DEF Replication!File, Replication!vars

LEMMA ReplaceMaps ==
  ASSUME IInv, NEW n \in Node, MergePut(n)
  PROVE  \/ \E r \in issued : Replication!Replace(n, r)
         \/ UNCHANGED Replication!vars
<1> DEFINE w == rx[n].rec
<1>1. PICK outcome \in Outcomes(n) : StorePut(n, w, outcome)
  BY DEF MergePut
<1>2. rx[n].stage = "store" /\ UNCHANGED <<life, issued>>
  BY DEF MergePut
<1>3. w \in Entries
  BY <1>2, TypeFacts, MergeFacts DEF IInv
<1>4. /\ w.hdr \in issued
      /\ Owner[w.hdr.key] # n
      /\ store[n][w.hdr.key] # None => Newer(w.hdr, store[n][w.hdr.key].hdr)
  BY <1>2 DEF IInv, MergeValid, Supersedes
<1> HIDE DEF w
<1>5. w.hdr.key \in Key
  BY <1>3, EntryFacts, RecordFacts
<1>6. Held[n][w.hdr.key] # None => Replication!Newer(w.hdr, Held[n][w.hdr.key])
  BY <1>4, <1>5, HeldFacts DEF Header, Newer, Replication!Newer
<1>7. Held' = Held \/ Held' = [Held EXCEPT ![n][w.hdr.key] = w.hdr]
  BY <1>1, <1>3, PutMaps
<1> QED BY <1>2, <1>4, <1>6, <1>7 DEF Replication!Replace, Replication!vars

LEMMA ForgetMaps ==
  ASSUME IInv, NEW n \in Node, Restart(n)
  PROVE  Replication!Forget(n)
<1>1. /\ \A a \in Node : a # n => store'[a] = store[a]
      /\ \A k \in Key : store'[n][k] = None
  BY DEF Restart, IInv, TypeOK
<1>2. Held' = [Held EXCEPT ![n] = [k \in Key |-> None]]
  BY <1>1 DEF Held, Header
<1> QED BY <1>2 DEF Restart, Replication!Forget

LEMMA StepMaps == IInv /\ [Next]_vars => [Replication!Next]_Replication!vars
<1> SUFFICES ASSUME IInv, [Next]_vars PROVE [Replication!Next]_Replication!vars
  OBVIOUS
<1>0. TypeOK'
  BY StepType DEF IInv
<1>1. CASE UNCHANGED <<life, issued, store>>
  BY <1>1, HeldKept DEF Replication!vars
<1>2. ASSUME NEW n \in Node, NEW t \in Writers[n], StampAndSign(n, t)
      PROVE  Replication!Next
  BY <1>0, <1>2, SignMaps DEF Replication!Next
<1>3. ASSUME NEW n \in Node, NEW t \in Writers[n], PutRecord(n, t)
      PROVE  [Replication!Next]_Replication!vars
  BY <1>3, FileMaps DEF Replication!Next
<1>4. ASSUME NEW n \in Node, MergePut(n)
      PROVE  [Replication!Next]_Replication!vars
  BY <1>4, ReplaceMaps DEF Replication!Next
<1>5. ASSUME NEW n \in Node, Restart(n)
      PROVE  Replication!Next
  BY <1>5, ForgetMaps DEF Replication!Next
<1>6. ASSUME NEW n \in Node, NEW t \in Writers[n],
             (\E k \in Key : GetNextSequence(n, t, k)) \/ GiveUp(n, t) \/ CallMemos(n, t)
      PROVE  UNCHANGED <<life, issued, store>>
  BY <1>6 DEF GetNextSequence, GiveUp, CallMemos
<1>7. ASSUME NEW n \in Node,
             \/ \E k \in Key : Broadcast(n, k)
             \/ \E s \in Node : <<s, n>> \in Link /\ \E m \in air[s] : Receive(n, m)
             \/ Verify(n)
             \/ MergeMemos(n)
             \/ \E m \in Node : LearnIdentity(n, m)
      PROVE  UNCHANGED <<life, issued, store>>
  BY <1>7 DEF Broadcast, Receive, Verify, MergeMemos, LearnIdentity
<1>8. CASE UNCHANGED vars
  BY <1>1, <1>8 DEF vars
<1> QED
  BY <1>1, <1>2, <1>3, <1>4, <1>5, <1>6, <1>7, <1>8 DEF Next

(* tables.c with its interleavings, its torn puts and its power cycles     *)
(* implements one authoritative writer per key with copies that only move  *)
(* to newer records, for any number of nodes, keys and threads.            *)
THEOREM ImplementsReplication == Spec => Replicates
<1>1. Spec => []IInv
  BY Invariance
<1>2. Init => Replication!Init
  BY InitMaps
<1>3. IInv /\ [Next]_vars => [Replication!Next]_Replication!vars
  BY StepMaps
<1> QED BY <1>1, <1>2, <1>3, PTL DEF Spec, Replicates, Replication!Spec
=============================================================================
