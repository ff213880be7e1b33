-------------------------- MODULE MateBleTx_proofs --------------------------
(***************************************************************************)
(* Proofs about the transmit thread: it frees the queries it is sent, a    *)
(* round reaches every record it began with, and what it advertises can be *)
(* decoded; and that records and identities survive their encoding.        *)
(***************************************************************************)
EXTENDS MateBleTx, Cbor_proofs, WellFoundedInduction, FiniteSetTheorems

(* What the flash can hold: records of Puts, and parts of them.            *)
Filed   == FiledFrom(Puts)
Entry   == Entries(Filed)
Keys    == {RecordKey(r) : r \in Filed}
Queries == {SendAll, OwnReportQuery}
Sent    == (UNION {SerializeRecord(r, TRUE, RecordBuffer) : r \in Filed})
             \cup SerializeIdReqres("id_response", OwnIdentity, IdBuffer)
Iterators ==
  [state : {"run", "done", "error"}, pos : Nat, query : Queries,
   cap : {Capacity, SignatureLen}, rec : SUBSET Filed]
TxStates ==
  [pc : {"recv", "next", "id", "lock", "wait", "stop", "free"}, q : SUBSET QueryMem,
   it : Iterators, buf : SUBSET Sent, id : BOOLEAN, timedOut : BOOLEAN,
   due : SUBSET Keys, sent : SUBSET Keys]

Typed ==
  /\ log \in Seq(Entry)
  /\ poster \in [pc : {"idle", "post", "blocked"}, q : SUBSET QueryMem]
  /\ qheap \in SUBSET QueryMem /\ txq \in Seq(QueryMem)
  /\ tx \in TxStates
  /\ mutex \in BOOLEAN /\ adv \in [on : BOOLEAN, aired : BOOLEAN]
  /\ done \in 0 .. MaxEvents

Bounded == Len(log) <= MaxLog /\ Len(txq) <= TxQueueSize

(* Nobody holds a query another one holds. *)
Apart ==
  /\ poster.pc # "blocked" => poster.q = {}
  /\ poster.pc = "blocked" => \E q \in QueryMem : poster.q = {q}
  /\ tx.pc = "recv" => tx.q = {}
  /\ \A i, j \in 1 .. Len(txq) : txq[i] = txq[j] => i = j
  /\ \A i \in 1 .. Len(txq) : txq[i] \notin poster.q \cup tx.q
  /\ poster.q \cap tx.q = {}

(* While the iterator runs, what is due and not yet sent lies ahead.       *)
Ahead(k) ==
  \E i \in 1 .. Len(log) :
    /\ i > tx.it.pos /\ log[i].live /\ RecordKey(log[i].rec) = k
    /\ KeyMatchesQuery(k, tx.it.query) /\ k.type \in Types
Swept ==
  /\ tx.id => tx.pc \in {"lock", "wait", "stop", "free"}
  /\ tx.pc \in {"next", "lock", "wait", "stop"} /\ ~tx.id => tx.it.state = "run"
  /\ tx.pc = "id" => tx.it.state # "run"
  /\ tx.it.pos <= Len(log)
  /\ tx.it.state = "run" => \A k \in tx.due : k \in tx.sent \/ Ahead(k)
  /\ tx.it.state = "done" => tx.due \subseteq tx.sent
  /\ tx.it.state = "error" => tx.it.pos > 0 /\ log[tx.it.pos].torn

(* What is advertised is the encoding of the record found. *)
Advertised ==
  ~tx.id => \A m \in tx.buf, r \in tx.it.rec : m \in SerializeRecord(r, TRUE, RecordBuffer)

IInv == Typed /\ Bounded /\ QueriesOwned /\ Apart /\ Swept /\ Advertised
-----------------------------------------------------------------------------
(* Operators of the libraries. *)

LEMMA SetToSeqFacts ==
  /\ SetToSeq({}) = <<>>
  /\ \A q : SetToSeq({q}) = <<q>>
<1>1. SetToSeq({}) = <<>>
  <2>1. Cardinality({}) = 0
    BY FS_EmptySet
  <2>2. /\ \A f \in [1 .. 0 -> {}] : f = <<>>
        /\ <<>> \in [1 .. 0 -> {}]
    OBVIOUS
  <2>3. IsInjective(<<>>)
    BY DEF IsInjective
  <2> QED BY <2>1, <2>2, <2>3 DEF SetToSeq
<1>2. ASSUME NEW q PROVE SetToSeq({q}) = <<q>>
  <2>1. Cardinality({q}) = 1
    BY FS_Singleton
  <2>2. \A f \in [1 .. 1 -> {q}] : f = <<q>>
    OBVIOUS
  <2>3. IsInjective(<<q>>) /\ <<q>> \in [1 .. 1 -> {q}]
    BY DEF IsInjective
  <2> QED BY <2>1, <2>2, <2>3 DEF SetToSeq
<1> QED BY <1>1, <1>2
-----------------------------------------------------------------------------
(* The records of the log. *)

LEMMA FiledEntries ==
  ASSUME NEW l \in Seq(Entry), NEW i \in 1 .. Len(l)
  PROVE  /\ l[i] \in Entry /\ l[i].rec \in Filed
         /\ l[i].live \in BOOLEAN /\ l[i].torn \in BOOLEAN
BY EntryFacts DEF Entry

LEMMA FiledPuts ==
  ASSUME NEW l \in Seq(Entry), NEW r \in Filed, NEW torn \in BOOLEAN
  PROVE  LET new == LogPut(l, r, torn)
         IN  /\ new \in Seq(Entry) /\ Len(new) = Len(l) + 1
             /\ new[Len(l) + 1] = [rec |-> r, live |-> TRUE, torn |-> torn]
             /\ \A i \in 1 .. Len(l) :
                  /\ new[i].rec = l[i].rec /\ new[i].torn = l[i].torn
                  /\ l[i].live /\ RecordKey(l[i].rec) # RecordKey(r) => new[i].live
BY LogPutFacts DEF Entry

LEMMA FiledFacts ==
  /\ \A r \in Filed : IsRecord(r)
  /\ \A r \in Puts : r \in Filed
BY FiledAreRecords, PutsAssumption DEF Filed

LEMMA PutFacts ==
  ASSUME log \in Seq(Entry), NEW r \in Puts, NEW new \in PutOutcomes(r)
  PROVE  new = log \/ \E x \in Filed, torn \in BOOLEAN : new = LogPut(log, x, torn)
<1>1. \A o \in Puts : IsRecord(o)
  BY PutsAssumption
<1>2. log \in Seq(Entries(FiledFrom(Puts)))
  BY DEF Entry, Filed
<1>3. new \in {LogPut(log, r, FALSE)} \cup FailedPuts(log, r)
  BY DEF PutOutcomes
<1>4. Adds(log, new, FiledFrom(Puts))
  BY <1>1, <1>2, <1>3, FailedPutFacts
<1> QED BY <1>4 DEF Filed, Adds
-----------------------------------------------------------------------------
(* The iterator stops at the first live entry behind its position that the *)
(* query selects.                                                          *)
LEMMA IteratorFacts ==
  ASSUME NEW l \in Seq(Entry), NEW it \in Iterators, it.state = "run"
  PROVE  LET C   == Candidates(l, it)
             new == IteratorNext(l, it)
         IN  /\ new \in Iterators /\ new.query = it.query
             /\ \/ /\ C = {} /\ new.state = "done" /\ new.rec = {} /\ new.pos = it.pos
                \/ \E i \in C :
                     /\ \A j \in C : i <= j
                     /\ new.pos = i
                     /\ \/ l[i].torn /\ new.state = "error" /\ new.rec = {}
                        \/ ~l[i].torn /\ new.state = "run" /\ new.rec = {l[i].rec}
<1> DEFINE C   == Candidates(l, it)
           i   == Min(C)
           new == IteratorNext(l, it)
<1>1. it.pos \in Nat /\ it.cap \in {Capacity, SignatureLen}
  BY DEF Iterators
<1>2. C \in SUBSET (1 .. Len(l))
  BY <1>1 DEF Candidates
<1>3. CASE C = {}
  <2>1. new = [it EXCEPT !.state = "done", !.rec = {}]
    BY <1>3 DEF IteratorNext
  <2> QED BY <1>3, <2>1 DEF Iterators
<1>4. CASE C # {}
  <2>1. i \in C /\ \A j \in C : i <= j
    BY <1>2, <1>4, MinFacts
  <2>2. i \in 1 .. Len(l) /\ l[i] \in Entry /\ l[i].rec \in Filed
    <3>1. i \in 1 .. Len(l)
      BY <1>2, <2>1
    <3> HIDE DEF i
    <3> QED BY <3>1, FiledEntries
  <2>3. l[i].rec.sig.len = SignatureLen
    BY <2>2, FiledFacts, RecordFacts
  <2>4. it.cap # NoBuffer /\ ~(l[i].rec.sig.len > it.cap)
    BY <1>1, <2>3, SignatureAssumption DEF Capacity, NoBuffer
  <2>5. CASE l[i].torn
    <3>1. new = [it EXCEPT !.state = "error", !.pos = i, !.rec = {}]
      BY <1>4, <2>5 DEF IteratorNext
    <3>2. new \in Iterators /\ new.query = it.query /\ new.pos = i /\ new.state = "error" /\ new.rec = {}
      <4> HIDE DEF i, new
      <4>1. i \in Nat
        BY <2>2
      <4> QED BY <3>1, <4>1 DEF Iterators
    <3> QED BY <2>1, <2>5, <3>2
  <2>6. CASE ~l[i].torn
    <3>1. new = [it EXCEPT !.pos = i, !.cap = l[i].rec.sig.len, !.rec = {l[i].rec}]
      BY <1>4, <2>4, <2>6 DEF IteratorNext
    <3>2. new \in Iterators /\ new.query = it.query /\ new.pos = i /\ new.state = "run" /\ new.rec = {l[i].rec}
      <4> DEFINE x == l[i].rec
      <4>1. i \in Nat /\ x \in Filed
        BY <2>2
      <4>2. new = [it EXCEPT !.pos = i, !.cap = SignatureLen, !.rec = {x}]
        BY <2>3, <3>1
      <4> HIDE DEF i, new, x
      <4>3. /\ new \in Iterators /\ new.query = it.query /\ new.pos = i
            /\ new.state = it.state /\ new.rec = {x}
        BY <4>1, <4>2 DEF Iterators
      <4> QED BY <4>3 DEF x
    <3> QED BY <2>1, <2>6, <3>2
  <2> QED BY <2>5, <2>6
<1> QED BY <1>3, <1>4
-----------------------------------------------------------------------------
(* What the steps of others leave. *)

LEMMA QueueSame ==
  ASSUME Typed, Bounded, QueriesOwned, Apart, UNCHANGED <<poster, qheap, txq>>,
         tx'.q = tx.q, tx'.pc = "recv" => tx.pc = "recv"
  PROVE  QueriesOwned' /\ Apart' /\ Len(txq') <= TxQueueSize
<1>1. QueriesOwned'
  BY DEF QueriesOwned
<1>2. Apart'
  BY DEF Apart
<1> QED BY <1>1, <1>2 DEF Bounded

(* A put by another thread: what lies ahead of the iterator stays ahead.   *)
LEMMA LogStep ==
  ASSUME Typed, Bounded, Swept, Len(log) < MaxLog, UNCHANGED tx,
         NEW r \in Puts, log' \in PutOutcomes(r)
  PROVE  log' \in Seq(Entry) /\ Len(log') <= MaxLog /\ Swept'
<1>1. log \in Seq(Entry) /\ tx \in TxStates
  BY DEF Typed
<1>2. CASE log' = log
  BY <1>1, <1>2 DEF Swept, Ahead, Bounded
<1>3. CASE log' # log
  <2>1. PICK x \in Filed, torn \in BOOLEAN : log' = LogPut(log, x, torn)
    BY <1>1, <1>3, PutFacts
  <2> DEFINE n == Len(log)
  <2>2. /\ log' \in Seq(Entry) /\ Len(log') = n + 1
        /\ log'[n + 1] = [rec |-> x, live |-> TRUE, torn |-> torn]
        /\ \A i \in 1 .. n :
             /\ log'[i].rec = log[i].rec /\ log'[i].torn = log[i].torn
             /\ log[i].live /\ RecordKey(log[i].rec) # RecordKey(x) => log'[i].live
    BY <1>1, <2>1, FiledPuts
  <2>3. n \in Nat /\ MaxLog \in Nat /\ tx.it.pos \in Nat
    BY <1>1, MateBleTxAssumption DEF TxStates, Iterators
  <2>4. ASSUME NEW k, Ahead(k), tx.it.pos <= n PROVE Ahead(k)'
    <3>1. PICK i \in 1 .. n :
            /\ i > tx.it.pos /\ log[i].live /\ RecordKey(log[i].rec) = k
            /\ KeyMatchesQuery(k, tx.it.query) /\ k.type \in Types
      BY <2>4 DEF Ahead
    <3>2. CASE RecordKey(x) = k
      <4>1. /\ n + 1 \in 1 .. Len(log') /\ n + 1 > tx.it.pos
            /\ log'[n + 1].live /\ RecordKey(log'[n + 1].rec) = k
        BY <2>2, <2>3, <2>4, <3>2
      <4> QED BY <3>1, <4>1 DEF Ahead
    <3>3. CASE RecordKey(x) # k
      <4>1. /\ i \in 1 .. Len(log') /\ log'[i].live /\ RecordKey(log'[i].rec) = k
        BY <2>2, <2>3, <3>1, <3>3
      <4> QED BY <3>1, <4>1 DEF Ahead
    <3> QED BY <3>2, <3>3
  <2>5. Swept'
    <3>1. tx.it.pos <= n
      BY DEF Swept
    <3>2. tx.it.pos <= Len(log')
      BY <2>2, <2>3, <3>1
    <3>3. tx.it.state = "run" => \A k \in tx.due : k \in tx.sent \/ Ahead(k)'
      BY <2>4, <3>1 DEF Swept
    <3>4. tx.it.state = "error" => tx.it.pos > 0 /\ log'[tx.it.pos].torn
      BY <2>2, <2>3, <3>1 DEF Swept
    <3> QED BY <3>2, <3>3, <3>4 DEF Swept
  <2> QED BY <2>2, <2>3, <2>5
<1> QED BY <1>1, <1>2, <1>3
-----------------------------------------------------------------------------
(* A round begins: everything that matches the query lies ahead. *)
LEMMA SweepStep ==
  ASSUME Typed, UNCHANGED log, NEW query \in Queries, NEW q \in SUBSET QueryMem,
         Sweep(query, q)
  PROVE  /\ tx' \in TxStates /\ tx'.pc = "next" /\ tx'.q = q
         /\ Swept' /\ Advertised'
<1> DEFINE due == {RecordKey(r) : r \in {h \in HeldRecords(log) :
                     RecordMatchesQuery(h, query) /\ SerializeRecord(h, TRUE, RecordBuffer) # {}}}
           it == [state |-> "run", pos |-> 0, query |-> query, cap |-> Capacity, rec |-> {}]
<1>1. log \in Seq(Entry)
  BY DEF Typed
<1>2. ASSUME NEW k \in due
      PROVE  /\ k \in Keys
             /\ \E i \in 1 .. Len(log) :
                  /\ log[i].live /\ RecordKey(log[i].rec) = k
                  /\ KeyMatchesQuery(k, query) /\ k.type \in Types
  <2>1. PICK h \in HeldRecords(log) :
          /\ k = RecordKey(h) /\ RecordMatchesQuery(h, query)
          /\ SerializeRecord(h, TRUE, RecordBuffer) # {}
    OBVIOUS
  <2>2. PICK i \in 1 .. Len(log) : log[i].live /\ log[i].rec = h
    BY <1>1 DEF HeldRecords
  <2>3. h \in Filed
    BY <1>1, <2>2, FiledEntries
  <2>4. /\ k.type = h.type /\ (h.type = "report" => k.first = h.writer)
    BY <2>1, <2>3, FiledFacts, RecordFacts
  <2>5. h.type \in Types
    BY <2>1, CodeFacts DEF SerializeRecord
  <2>6. KeyMatchesQuery(k, query)
    BY <2>1, <2>4
      DEF KeyMatchesQuery, RecordMatchesQuery, Queries, SendAll, OwnReportQuery, Query
  <2> QED BY <2>1, <2>2, <2>3, <2>4, <2>5, <2>6 DEF Keys
<1>3. tx' = [pc |-> "next", q |-> q, it |-> it, buf |-> {}, id |-> FALSE,
             timedOut |-> FALSE, due |-> due, sent |-> {}]
  BY DEF Sweep, TxIdle, IteratorInit
<1>4. it \in Iterators
  BY DEF Iterators
<1> HIDE DEF due, it
<1>5. tx' \in TxStates
  BY <1>2, <1>3, <1>4 DEF TxStates
<1>6. /\ tx'.it = it /\ tx'.due = due /\ tx'.sent = {} /\ tx'.pc = "next"
      /\ tx'.id = FALSE /\ tx'.buf = {} /\ tx'.q = q
  BY <1>3
<1>7. it.state = "run" /\ it.pos = 0 /\ it.query = query
  BY DEF it
<1>8. \A k \in due : Ahead(k)'
  BY <1>2, <1>6, <1>7 DEF Ahead
<1>9. Swept'
  BY <1>1, <1>6, <1>7, <1>8 DEF Swept
<1> QED BY <1>5, <1>6, <1>9 DEF Advertised

(* The next record: the key of what is serialised is sent, and nothing     *)
(* that lies ahead is passed.                                              *)
LEMMA NextStep ==
  ASSUME Typed, Swept, TxNext
  PROVE  /\ tx' \in TxStates /\ tx'.pc # "recv" /\ tx'.q = tx.q
         /\ Swept' /\ Advertised'
<1> DEFINE it  == IteratorNext(log, tx.it)
           buf == UNION {SerializeRecord(r, TRUE, RecordBuffer) : r \in it.rec}
           new == {RecordKey(r) : r \in {s \in it.rec : buf # {}}}
           pc  == IF it.rec = {} THEN "id" ELSE IF buf = {} THEN "next" ELSE "lock"
           C   == Candidates(log, tx.it)
<1>1. /\ log \in Seq(Entry) /\ tx \in TxStates /\ tx.it \in Iterators
      /\ tx.pc = "next" /\ ~tx.id /\ tx.it.state = "run" /\ UNCHANGED log
      /\ tx.it.pos \in Nat
  BY DEF Typed, TxStates, Swept, TxNext, Iterators
<1>2. /\ it \in Iterators /\ it.query = tx.it.query
      /\ \/ /\ C = {} /\ it.state = "done" /\ it.rec = {} /\ it.pos = tx.it.pos
         \/ \E i \in C :
              /\ \A j \in C : i <= j
              /\ it.pos = i
              /\ \/ log[i].torn /\ it.state = "error" /\ it.rec = {}
                 \/ ~log[i].torn /\ it.state = "run" /\ it.rec = {log[i].rec}
  BY <1>1, IteratorFacts
<1>3. tx' = [tx EXCEPT !.it = it, !.buf = buf, !.pc = pc, !.sent = tx.sent \cup new]
  BY DEF TxNext
<1>4. \A i \in 1 .. Len(log) :
        (i > tx.it.pos /\ log[i].live /\ KeyMatchesQuery(RecordKey(log[i].rec), tx.it.query))
          => i \in C
  BY <1>1 DEF Candidates
<1>5. C \subseteq 1 .. Len(log)
  BY <1>1 DEF Candidates
<1>6. \A i \in C : i > tx.it.pos
  BY <1>1 DEF Candidates
<1>7. it.rec \in SUBSET Filed
  BY <1>2 DEF Iterators
<1>8. buf \in SUBSET Sent /\ new \in SUBSET Keys
  BY <1>7 DEF Sent, Keys
<1>9. pc \in {"id", "next", "lock"} /\ (pc = "id" <=> it.rec = {})
  OBVIOUS
<1>10. ASSUME NEW i \in 1 .. Len(log), RecordKey(log[i].rec).type \in Types, it.rec = {log[i].rec}
       PROVE  RecordKey(log[i].rec) \in new
  <2> DEFINE r == log[i].rec
  <2>1. r \in Filed
    BY <1>1, FiledEntries
  <2>2. WireRecord(r) /\ r.sig.len = SignatureLen
    BY <1>10, <2>1, FiledFacts, RecordFacts
  <2>3. SerializeRecord(r, TRUE, RecordBuffer) # {}
    <3> HIDE DEF r
    <3> QED BY <2>2, RecordFits, SignatureAssumption
  <2>4. buf # {}
    BY <1>10, <2>3
  <2> HIDE DEF buf, it
  <2> QED BY <1>10, <2>4
<1>11. \A m \in buf, r \in it.rec : m \in SerializeRecord(r, TRUE, RecordBuffer)
  BY <1>2
<1> HIDE DEF it, buf, new, pc, C
<1>12. /\ tx' \in TxStates /\ tx'.pc = pc /\ tx'.q = tx.q /\ tx'.it = it /\ tx'.buf = buf
       /\ tx'.id = tx.id /\ tx'.due = tx.due /\ tx'.sent = tx.sent \cup new
  BY <1>1, <1>2, <1>3, <1>8, <1>9 DEF TxStates
<1>13. CASE C = {} /\ it.state = "done" /\ it.rec = {} /\ it.pos = tx.it.pos
  <2>1. \A k \in tx.due : k \in tx.sent
    BY <1>1, <1>4, <1>13 DEF Swept, Ahead
  <2> QED BY <1>1, <1>9, <1>11, <1>12, <1>13, <2>1 DEF Swept, Advertised
<1>14. ASSUME NEW i \in C, \A j \in C : i <= j, it.pos = i
       PROVE  /\ log[i].torn /\ it.state = "error" /\ it.rec = {} => Swept'
              /\ ~log[i].torn /\ it.state = "run" /\ it.rec = {log[i].rec} => Swept'
  <2>1. i \in 1 .. Len(log) /\ i > tx.it.pos
    BY <1>5, <1>6
  <2>2. CASE log[i].torn /\ it.state = "error" /\ it.rec = {}
    BY <1>1, <1>9, <1>12, <1>14, <2>1, <2>2 DEF Swept
  <2>3. CASE ~log[i].torn /\ it.state = "run" /\ it.rec = {log[i].rec}
    <3>1. ASSUME NEW k \in tx.due, k \notin tx'.sent PROVE Ahead(k)'
      <4>1. k \notin tx.sent /\ k \notin new
        BY <1>12, <3>1
      <4>2. PICK j \in 1 .. Len(log) :
              /\ j > tx.it.pos /\ log[j].live /\ RecordKey(log[j].rec) = k
              /\ KeyMatchesQuery(k, tx.it.query) /\ k.type \in Types
        BY <1>1, <4>1 DEF Swept, Ahead
      <4>3. j \in C
        BY <1>4, <4>2
      <4>4. j # i
        BY <1>10, <2>3, <4>1, <4>2
      <4>5. j > i
        BY <1>14, <2>1, <4>3, <4>4
      <4> QED BY <1>1, <1>2, <1>12, <1>14, <4>2, <4>5 DEF Ahead
    <3>2. /\ tx'.it.state = "run" /\ tx'.it.pos <= Len(log') /\ tx'.pc \in {"next", "lock"}
          /\ ~tx'.id
      <4>1. pc # "id"
        BY <1>9, <2>3
      <4>2. pc \in {"next", "lock"}
        BY <1>9, <4>1
      <4>3. log' = log /\ ~tx.id
        BY <1>1
      <4>4. it.pos <= Len(log)
        BY <1>14, <2>1
      <4> QED BY <1>12, <2>3, <4>2, <4>3, <4>4
    <3>3. \A k \in tx'.due : k \in tx'.sent \/ Ahead(k)'
      BY <1>12, <3>1
    <3>4. Swept'
      BY <3>2, <3>3 DEF Swept
    <3> QED BY <2>3, <3>4
  <2> QED BY <2>2, <2>3
<1>15. Swept'
  BY <1>2, <1>13, <1>14
<1>16. Advertised'
  BY <1>11, <1>12 DEF Advertised
<1> QED BY <1>9, <1>12, <1>15, <1>16
-----------------------------------------------------------------------------
(* A query moves from its sender to the queue, to the transmit thread, and *)
(* back to the memory. *)

LEMMA PostStep ==
  ASSUME Typed, Bounded, QueriesOwned, Apart, PostQuery
  PROVE  /\ qheap' \in SUBSET QueryMem /\ txq' \in Seq(QueryMem)
         /\ poster' \in [pc : {"idle", "post", "blocked"}, q : SUBSET QueryMem]
         /\ QueriesOwned' /\ Apart' /\ Len(txq') <= TxQueueSize
<1>1. /\ txq \in Seq(QueryMem) /\ qheap \in SUBSET QueryMem /\ poster.q = {}
      /\ tx' = tx /\ TxQueueSize \in Nat /\ Len(txq) <= TxQueueSize
  BY MateBleTxAssumption DEF Typed, Bounded, Apart, PostQuery
<1>2. CASE qheap = QueryMem
  <2>1. poster' = [pc |-> "idle", q |-> {}] /\ UNCHANGED <<qheap, txq>>
    BY <1>2 DEF PostQuery
  <2>2. poster'.q = poster.q /\ poster'.pc # "blocked"
    BY <1>1, <2>1
  <2>3. QueriesOwned'
    BY <1>1, <2>1, <2>2 DEF QueriesOwned
  <2>4. Apart'
    BY <1>1, <2>1, <2>2 DEF Apart
  <2> QED BY <1>1, <2>1, <2>3, <2>4
<1>3. CASE qheap # QueryMem
  <2> DEFINE q == Malloc(QueryMem, qheap)
  <2>1. q \in QueryMem /\ q \notin qheap
    BY <1>1, <1>3 DEF Malloc
  <2>2. /\ qheap' = qheap \cup {q}
        /\ IF Len(txq) < TxQueueSize
           THEN txq' = Append(txq, q) /\ poster' = [pc |-> "idle", q |-> {}]
           ELSE txq' = txq /\ poster' = [pc |-> "blocked", q |-> {q}]
    BY <1>3 DEF PostQuery
  <2> HIDE DEF q
  <2>3. \A i \in 1 .. Len(txq) : txq[i] # q
    BY <1>1, <2>1 DEF QueriesOwned
  <2>4. q \notin tx.q
    BY <2>1 DEF QueriesOwned
  <2>5. CASE Len(txq) < TxQueueSize
    <3>1. /\ txq' \in Seq(QueryMem) /\ Len(txq') = Len(txq) + 1 /\ txq'[Len(txq) + 1] = q
          /\ \A i \in 1 .. Len(txq) : txq'[i] = txq[i]
      BY <1>1, <2>1, <2>2, <2>5
    <3>2. poster'.pc = "idle" /\ poster'.q = {}
      BY <2>2, <2>5
    <3>3. {txq'[i] : i \in DOMAIN txq'} = {txq[i] : i \in DOMAIN txq} \cup {q}
      <4>1. DOMAIN txq = 1 .. Len(txq) /\ DOMAIN txq' = 1 .. Len(txq) + 1 /\ Len(txq) \in Nat
        BY <1>1, <3>1
      <4> QED BY <3>1, <4>1
    <3>4. QueriesOwned'
      BY <1>1, <2>2, <3>2, <3>3 DEF QueriesOwned
    <3>5. Apart'
      <4>1. \A i, j \in 1 .. Len(txq') : txq'[i] = txq'[j] => i = j
        BY <1>1, <2>3, <3>1 DEF Apart
      <4>2. \A i \in 1 .. Len(txq') : txq'[i] \notin tx.q
        BY <1>1, <2>4, <3>1 DEF Apart
      <4> QED BY <1>1, <3>2, <4>1, <4>2 DEF Apart
    <3> QED BY <1>1, <2>1, <2>2, <2>5, <3>1, <3>4, <3>5
  <2>6. CASE ~(Len(txq) < TxQueueSize)
    <3>1. txq' = txq /\ poster' = [pc |-> "blocked", q |-> {q}]
      BY <2>2, <2>6
    <3>2. poster'.pc = "blocked" /\ poster'.q = {q}
      BY <3>1
    <3>3. QueriesOwned'
      BY <1>1, <2>2, <3>1, <3>2 DEF QueriesOwned
    <3>4. Apart'
      BY <1>1, <2>1, <2>3, <2>4, <3>1, <3>2 DEF Apart
    <3> QED BY <1>1, <2>1, <2>2, <3>1, <3>3, <3>4
  <2> QED BY <2>5, <2>6
<1> QED BY <1>2, <1>3

LEMMA ReceiveStep ==
  ASSUME Typed, Bounded, QueriesOwned, Apart, TxReceive,
         tx'.q = {Head(txq)}, tx'.pc = "next"
  PROVE  /\ txq' \in Seq(QueryMem)
         /\ poster' \in [pc : {"idle", "post", "blocked"}, q : SUBSET QueryMem]
         /\ QueriesOwned' /\ Apart' /\ Len(txq') <= TxQueueSize
<1> DEFINE h == Head(txq)
           t == Tail(txq)
           n == Len(txq)
<1>1. /\ txq \in Seq(QueryMem) /\ n \in Nat /\ n >= 1 /\ n <= TxQueueSize
      /\ TxQueueSize \in Nat /\ tx.q = {} /\ qheap' = qheap
      /\ h = txq[1] /\ t \in Seq(QueryMem) /\ Len(t) = n - 1
      /\ \A i \in 1 .. n - 1 : t[i] = txq[i + 1]
  BY MateBleTxAssumption DEF Typed, Bounded, Apart, TxReceive
<1>2. poster \in [pc : {"idle", "post", "blocked"}, q : SUBSET QueryMem]
  BY DEF Typed
<1>3. poster'.q = {} /\ poster'.pc # "blocked" /\
      poster' \in [pc : {"idle", "post", "blocked"}, q : SUBSET QueryMem]
  BY <1>2 DEF TxReceive, Apart
<1>4. {txq[i] : i \in DOMAIN txq} = {t[i] : i \in 1 .. n - 1} \cup {h}
  <2>1. DOMAIN txq = 1 .. n
    BY <1>1
  <2> HIDE DEF t, h, n
  <2>2. ASSUME NEW i \in 1 .. n PROVE txq[i] \in {t[j] : j \in 1 .. n - 1} \cup {h}
    <3>1. CASE i = 1
      BY <1>1, <3>1
    <3>2. CASE i # 1
      <4>1. i - 1 \in 1 .. n - 1 /\ t[i - 1] = txq[i]
        BY <1>1, <3>2
      <4> QED BY <4>1
    <3> QED BY <3>1, <3>2
  <2>3. ASSUME NEW j \in 1 .. n - 1 PROVE t[j] \in {txq[i] : i \in 1 .. n}
    <3>1. j + 1 \in 1 .. n /\ t[j] = txq[j + 1]
      BY <1>1
    <3> QED BY <3>1
  <2>4. h \in {txq[i] : i \in 1 .. n}
    BY <1>1
  <2> QED BY <2>1, <2>2, <2>3, <2>4
<1>5. CASE poster.q = {}
  <2>1. txq' = t
    <3>1. txq' = t \o <<>>
      BY <1>5, SetToSeqFacts DEF TxReceive
    <3> HIDE DEF t
    <3> QED BY <1>1, <3>1
  <2> HIDE DEF t, h, n
  <2>2. DOMAIN txq' = 1 .. n - 1 /\ Len(txq') = n - 1
    BY <1>1, <2>1
  <2>3. QueriesOwned'
    BY <1>1, <1>3, <1>4, <1>5, <2>1, <2>2 DEF QueriesOwned, h
  <2>4. \A i, j \in 1 .. Len(txq') : txq'[i] = txq'[j] => i = j
    BY <1>1, <2>1, <2>2 DEF Apart, n
  <2>5. \A i \in 1 .. Len(txq') : txq'[i] # h
    BY <1>1, <2>1, <2>2 DEF Apart, n
  <2>6. Apart'
    BY <1>3, <2>4, <2>5 DEF Apart, h
  <2> QED BY <1>1, <1>3, <2>1, <2>2, <2>3, <2>6
<1>6. CASE poster.q # {}
  <2>1. PICK q \in QueryMem : poster.q = {q}
    BY <1>6 DEF Apart
  <2>2. txq' = t \o <<q>>
    BY <2>1, SetToSeqFacts DEF TxReceive
  <2>3. \A i \in 1 .. n : txq[i] # q
    BY <2>1 DEF Apart
  <2> HIDE DEF t, h, n
  <2>4. /\ txq' \in Seq(QueryMem) /\ Len(txq') = n /\ txq'[n] = q
        /\ \A i \in 1 .. n - 1 : txq'[i] = t[i]
    BY <1>1, <2>2
  <2>5. {txq'[i] : i \in DOMAIN txq'} = {t[i] : i \in 1 .. n - 1} \cup {q}
    <3>1. DOMAIN txq' = 1 .. n
      BY <2>4
    <3>2. ASSUME NEW i \in 1 .. n PROVE txq'[i] \in {t[j] : j \in 1 .. n - 1} \cup {q}
      <4>1. CASE i = n
        BY <2>4, <4>1
      <4>2. CASE i # n
        <5>1. i \in 1 .. n - 1
          BY <1>1, <4>2
        <5> QED BY <2>4, <5>1
      <4> QED BY <4>1, <4>2
    <3>3. ASSUME NEW j \in 1 .. n - 1 PROVE t[j] \in {txq'[i] : i \in 1 .. n}
      <4>1. j \in 1 .. n /\ t[j] = txq'[j]
        BY <1>1, <2>4
      <4> QED BY <4>1
    <3>4. q \in {txq'[i] : i \in 1 .. n}
      BY <1>1, <2>4
    <3> QED BY <3>1, <3>2, <3>3, <3>4
  <2>6. QueriesOwned'
    BY <1>1, <1>3, <1>4, <2>1, <2>5 DEF QueriesOwned, h
  <2>7. \A i, j \in 1 .. Len(txq') : txq'[i] = txq'[j] => i = j
    <3>1. \A i \in 1 .. n - 1 : txq'[i] = txq[i + 1] /\ txq'[i] # q
      BY <1>1, <2>3, <2>4
    <3>2. \A i, j \in 1 .. n - 1 : txq'[i] = txq'[j] => i = j
      BY <1>1, <3>1 DEF Apart, n
    <3> QED BY <1>1, <2>4, <3>1, <3>2
  <2>8. \A i \in 1 .. Len(txq') : txq'[i] # h
    <3>1. \A i \in 1 .. n - 1 : txq'[i] = txq[i + 1] /\ txq[i + 1] # h
      BY SMTT(30), <1>1, <2>4 DEF Apart, n
    <3>2. q # h
      BY <1>1, <2>3
    <3> QED BY SMTT(30), <1>1, <2>4, <3>1, <3>2
  <2>9. Apart'
    BY <1>3, <2>7, <2>8 DEF Apart, h
  <2> QED BY <1>1, <1>3, <2>4, <2>6, <2>9
<1> QED BY <1>5, <1>6

LEMMA FreeStep ==
  ASSUME Typed, Bounded, QueriesOwned, Apart, TxFree
  PROVE  qheap' \in SUBSET QueryMem /\ QueriesOwned' /\ Apart' /\ Len(txq') <= TxQueueSize
<1>1. /\ qheap' = qheap \ tx.q /\ UNCHANGED <<poster, txq>>
      /\ tx'.q = {} /\ tx'.pc = "recv" /\ txq \in Seq(QueryMem)
  BY DEF TxFree, TxIdle, Typed
<1>2. DOMAIN txq = 1 .. Len(txq)
  BY <1>1
<1>3. {txq[i] : i \in DOMAIN txq} \cap tx.q = {}
  BY <1>2 DEF Apart
<1>4. QueriesOwned'
  BY <1>1, <1>3 DEF QueriesOwned, Apart
<1>5. Apart'
  BY <1>1 DEF Apart
<1> QED BY <1>1, <1>4, <1>5 DEF Typed, Bounded
-----------------------------------------------------------------------------
LEMMA InitInv == Init => IInv
<1> SUFFICES ASSUME Init PROVE IInv
  OBVIOUS
<1>1. TxIdle \in TxStates
  <2>1. IteratorInit(SendAll, Capacity) \in Iterators
    BY DEF IteratorInit, Iterators, Queries
  <2> QED BY <2>1 DEF TxIdle, TxStates
<1>2. /\ TxIdle.pc = "recv" /\ TxIdle.q = {} /\ TxIdle.buf = {} /\ TxIdle.id = FALSE
      /\ TxIdle.due = {} /\ TxIdle.it.state = "run" /\ TxIdle.it.pos = 0
  BY DEF TxIdle, IteratorInit
<1>3. log = <<>> /\ txq = <<>> /\ tx = TxIdle /\ qheap = {} /\ poster = [pc |-> "idle", q |-> {}]
  BY DEF Init
<1>4. Typed
  <2>1. mutex = FALSE /\ done = 0 /\ adv = [on |-> FALSE, aired |-> FALSE]
    BY DEF Init
  <2>2. 0 \in 0 .. MaxEvents
    BY MateBleTxAssumption
  <2>3. log \in Seq(Entry) /\ txq \in Seq(QueryMem)
    BY <1>3
  <2> QED BY <1>1, <1>3, <2>1, <2>2, <2>3 DEF Typed
<1>5. Bounded
  BY <1>3, MateBleTxAssumption DEF Bounded
<1>6. QueriesOwned
  BY <1>2, <1>3 DEF QueriesOwned
<1>7. Apart
  BY <1>2, <1>3 DEF Apart
<1>8. Swept /\ Advertised
  <2>1. /\ tx.pc = "recv" /\ tx.buf = {} /\ tx.id = FALSE
        /\ tx.due = {} /\ tx.it.state = "run" /\ tx.it.pos = 0
    BY <1>2, <1>3
  <2>2. Len(log) = 0
    BY <1>3
  <2> QED BY <2>1, <2>2 DEF Swept, Advertised
<1> QED BY <1>4, <1>5, <1>6, <1>7, <1>8 DEF IInv

(* The steps of the transmit thread outside the iteration. *)
LEMMA ThreadStep ==
  ASSUME IInv, TxIdentity \/ TxFree \/ TxStart \/ TxWait \/ TxTimeout \/ TxStop
  PROVE  /\ tx' \in TxStates /\ Swept' /\ Advertised'
         /\ TxFree \/ (tx'.q = tx.q /\ tx'.pc # "recv")
<1>1. tx \in TxStates /\ UNCHANGED log /\ tx.it \in Iterators
  BY DEF IInv, Typed, TxStates, TxIdentity, TxFree, TxStart, TxWait, TxTimeout, TxStop
<1>2. CASE TxIdentity
  <2>1. PICK buf \in {{}, SerializeIdReqres("id_response", OwnIdentity, IdBuffer)} :
          tx' = [tx EXCEPT !.buf = buf, !.id = TRUE, !.pc = IF buf = {} THEN "free" ELSE "lock"]
    BY <1>2 DEF TxIdentity
  <2>2. buf \in SUBSET Sent
    BY DEF Sent
  <2>3. /\ tx' \in TxStates /\ tx'.q = tx.q /\ tx'.id = TRUE /\ tx'.pc \in {"free", "lock"}
        /\ tx'.it = tx.it /\ tx'.due = tx.due /\ tx'.sent = tx.sent
    BY <1>1, <2>1, <2>2 DEF TxStates
  <2>4. Swept'
    BY <1>1, <1>2, <2>3 DEF IInv, Swept, Ahead
  <2> QED BY <2>3, <2>4 DEF Advertised
<1>3. CASE TxFree
  <2>1. tx' = TxIdle
    BY <1>3 DEF TxFree
  <2>2. TxIdle \in TxStates
    <3>1. IteratorInit(SendAll, Capacity) \in Iterators
      BY DEF IteratorInit, Iterators, Queries
    <3> QED BY <3>1 DEF TxIdle, TxStates
  <2>3. /\ TxIdle.pc = "recv" /\ TxIdle.buf = {} /\ TxIdle.id = FALSE
        /\ TxIdle.due = {} /\ TxIdle.it.state = "run" /\ TxIdle.it.pos = 0
    BY DEF TxIdle, IteratorInit
  <2>4. log \in Seq(Entry)
    BY DEF IInv, Typed
  <2>5. Swept' /\ Advertised'
    BY <1>1, <2>1, <2>3, <2>4 DEF Swept, Advertised
  <2> QED BY <1>3, <2>1, <2>2, <2>5
<1>4. CASE TxStart \/ TxWait \/ TxTimeout
  <2>1. /\ tx' \in TxStates /\ tx'.q = tx.q /\ tx'.id = tx.id /\ tx'.pc \in {"wait", "stop"}
        /\ tx'.it = tx.it /\ tx'.due = tx.due /\ tx'.sent = tx.sent /\ tx'.buf = tx.buf
        /\ tx.pc \in {"lock", "wait"}
    BY ZenonT(40), <1>1, <1>4 DEF TxStates, TxStart, TxWait, TxTimeout
  <2>2. Swept'
    BY <1>1, <2>1 DEF IInv, Swept, Ahead
  <2> QED BY <2>1, <2>2 DEF IInv, Advertised
<1>5. CASE TxStop
  <2>1. tx' = [tx EXCEPT !.pc = IF tx.id THEN "free" ELSE "next", !.buf = {}, !.timedOut = FALSE]
    BY <1>5 DEF TxStop
  <2>2. /\ tx' \in TxStates /\ tx'.q = tx.q /\ tx'.id = tx.id
        /\ tx'.pc = IF tx.id THEN "free" ELSE "next"
        /\ tx'.it = tx.it /\ tx'.due = tx.due /\ tx'.sent = tx.sent /\ tx'.buf = {}
    BY <1>1, <2>1 DEF TxStates
  <2>3. Swept'
    BY <1>1, <1>5, <2>2 DEF IInv, Swept, Ahead, TxStop
  <2> QED BY <2>2, <2>3 DEF Advertised
<1> QED BY <1>2, <1>3, <1>4, <1>5

LEMMA StepInv == IInv /\ [Next]_vars => IInv'
<1> SUFFICES ASSUME IInv, [Next]_vars PROVE IInv'
  OBVIOUS
<1> USE DEF IInv
<1>1. ASSUME NEW r \in Puts, OtherPut(r) PROVE IInv'
  <2>1. log' \in Seq(Entry) /\ Len(log') <= MaxLog /\ Swept'
    BY <1>1, LogStep DEF OtherPut
  <2>2. UNCHANGED <<poster, qheap, txq, tx, mutex, adv, done>>
    BY <1>1 DEF OtherPut
  <2>3. QueriesOwned' /\ Apart' /\ Len(txq') <= TxQueueSize
    BY <2>2, QueueSame
  <2> QED BY <2>1, <2>2, <2>3 DEF Typed, Bounded, Advertised
<1>2. ASSUME NEW r \in Puts, PutReport(r) PROVE IInv'
  <2>1. log' \in Seq(Entry) /\ Len(log') <= MaxLog /\ Swept'
    BY <1>2, LogStep DEF PutReport
  <2>2. UNCHANGED <<qheap, txq, tx, mutex, adv, done>> /\ poster' = [pc |-> "post", q |-> {}]
        /\ poster.pc = "idle"
    BY <1>2 DEF PutReport
  <2>3. poster.q = {} /\ poster'.q = {} /\ poster'.pc = "post"
    BY <2>2 DEF Apart
  <2>4. QueriesOwned'
    BY <2>2, <2>3 DEF QueriesOwned
  <2>5. Apart'
    BY <2>2, <2>3 DEF Apart
  <2> QED BY <2>1, <2>2, <2>4, <2>5 DEF Typed, Bounded, Advertised
<1>3. CASE PostQuery
  <2>1. UNCHANGED <<log, tx, mutex, adv, done>>
    BY <1>3 DEF PostQuery
  <2>2. Swept'
    BY <2>1 DEF Swept, Ahead
  <2> QED BY <1>3, <2>1, <2>2, PostStep DEF Typed, Bounded, Advertised
<1>4. CASE TxReceive
  <2>1. Head(txq) \in QueryMem
    BY <1>4 DEF TxReceive, Typed
  <2>2. /\ tx' \in TxStates /\ tx'.pc = "next" /\ tx'.q = {Head(txq)}
        /\ Swept' /\ Advertised'
    BY <1>4, <2>1, SweepStep DEF TxReceive, Queries
  <2>3. UNCHANGED <<log, qheap, mutex, adv, done>>
    BY <1>4 DEF TxReceive
  <2>4. /\ txq' \in Seq(QueryMem)
        /\ poster' \in [pc : {"idle", "post", "blocked"}, q : SUBSET QueryMem]
        /\ QueriesOwned' /\ Apart' /\ Len(txq') <= TxQueueSize
    BY <1>4, <2>2, ReceiveStep
  <2> QED BY <2>2, <2>3, <2>4 DEF Typed, Bounded
<1>5. CASE TxInterval
  <2>1. UNCHANGED <<log, poster, qheap, txq, mutex, adv, done>> /\ tx.q = {}
    BY <1>5 DEF TxInterval, Apart
  <2>2. tx' \in TxStates /\ tx'.pc = "next" /\ tx'.q = {} /\ Swept' /\ Advertised'
    BY <1>5, SweepStep DEF TxInterval, Queries
  <2>3. QueriesOwned' /\ Apart' /\ Len(txq') <= TxQueueSize
    BY <2>1, <2>2, QueueSame
  <2> QED BY <2>1, <2>2, <2>3 DEF Typed, Bounded
<1>6. CASE TxNext
  <2>1. UNCHANGED <<log, poster, qheap, txq, mutex, adv, done>>
    BY <1>6 DEF TxNext
  <2>2. tx' \in TxStates /\ tx'.pc # "recv" /\ tx'.q = tx.q /\ Swept' /\ Advertised'
    BY <1>6, NextStep
  <2>3. QueriesOwned' /\ Apart' /\ Len(txq') <= TxQueueSize
    BY <2>1, <2>2, QueueSame
  <2> QED BY <2>1, <2>2, <2>3 DEF Typed, Bounded
<1>7. CASE TxFree
  <2>1. UNCHANGED <<log, poster, txq, mutex, adv, done>>
    BY <1>7 DEF TxFree
  <2>2. tx' \in TxStates /\ Swept' /\ Advertised'
    BY <1>7, ThreadStep
  <2>3. qheap' \in SUBSET QueryMem /\ QueriesOwned' /\ Apart' /\ Len(txq') <= TxQueueSize
    BY <1>7, FreeStep
  <2> QED BY <2>1, <2>2, <2>3 DEF Typed, Bounded
<1>8. CASE TxIdentity \/ TxStart \/ TxWait \/ TxTimeout \/ TxStop
  <2>1. UNCHANGED <<log, poster, qheap, txq, done>>
    BY <1>8 DEF TxIdentity, TxStart, TxWait, TxTimeout, TxStop
  <2>2. mutex' \in BOOLEAN /\ adv' \in [on : BOOLEAN, aired : BOOLEAN]
    <3>1. mutex \in BOOLEAN /\ adv \in [on : BOOLEAN, aired : BOOLEAN]
      BY DEF Typed
    <3>2. mutex' \in {mutex, TRUE, FALSE}
      BY <1>8 DEF TxIdentity, TxStart, TxWait, TxTimeout, TxStop
    <3>3. \/ adv' = adv \/ adv' = [on |-> TRUE, aired |-> FALSE]
          \/ adv' = [adv EXCEPT !.on = FALSE]
      BY <1>8 DEF TxIdentity, TxStart, TxWait, TxTimeout, TxStop
    <3>4. adv' \in [on : BOOLEAN, aired : BOOLEAN]
      <4>1. [adv EXCEPT !.on = FALSE] \in [on : BOOLEAN, aired : BOOLEAN]
        BY <3>1, Zenon
      <4>2. [on |-> TRUE, aired |-> FALSE] \in [on : BOOLEAN, aired : BOOLEAN]
        OBVIOUS
      <4> QED BY <3>1, <3>3, <4>1, <4>2
    <3> QED BY <3>1, <3>2, <3>4
  <2>3. ~TxFree
    BY <1>8 DEF TxFree, TxIdentity, TxStart, TxWait, TxTimeout, TxStop
  <2>4. tx' \in TxStates /\ Swept' /\ Advertised' /\ tx'.q = tx.q /\ tx'.pc # "recv"
    BY <1>8, <2>3, ThreadStep
  <2>5. QueriesOwned' /\ Apart' /\ Len(txq') <= TxQueueSize
    BY <2>1, <2>4, QueueSame
  <2> QED BY <2>1, <2>2, <2>4, <2>5 DEF Typed, Bounded
<1>9. CASE Air \/ AdvComplete
  <2>1. UNCHANGED <<log, poster, qheap, txq, tx>>
    BY <1>9 DEF Air, AdvComplete
  <2>2. /\ mutex' \in BOOLEAN /\ adv' \in [on : BOOLEAN, aired : BOOLEAN]
        /\ done' \in 0 .. MaxEvents
    <3>1. /\ mutex \in BOOLEAN /\ adv \in [on : BOOLEAN, aired : BOOLEAN]
          /\ done \in 0 .. MaxEvents /\ MaxEvents \in Nat
      BY MateBleTxAssumption DEF Typed
    <3>2. CASE Air
      <4>1. adv' = [on |-> FALSE, aired |-> TRUE] /\ mutex' = mutex
        BY <3>2 DEF Air
      <4>2. done' \in {done, IF done < MaxEvents THEN done + 1 ELSE done}
        BY <3>2 DEF Air
      <4>3. done' \in 0 .. MaxEvents
        BY <3>1, <4>2
      <4>4. adv' \in [on : BOOLEAN, aired : BOOLEAN]
        BY <4>1
      <4> QED BY <3>1, <4>1, <4>3, <4>4
    <3>3. CASE AdvComplete
      <4>1. adv' = adv /\ mutex' = FALSE /\ done > 0 /\ done' = done - 1
        BY <3>3 DEF AdvComplete
      <4>2. done' \in 0 .. MaxEvents
        BY <3>1, <4>1
      <4> QED BY <3>1, <4>1, <4>2
    <3> QED BY <1>9, <3>2, <3>3
  <2>3. QueriesOwned' /\ Apart' /\ Len(txq') <= TxQueueSize
    BY <2>1, QueueSame
  <2>4. Swept'
    BY <2>1 DEF Swept, Ahead
  <2> QED BY <2>1, <2>2, <2>3, <2>4 DEF Typed, Bounded, Advertised
<1>10. CASE UNCHANGED vars
  <2>1. UNCHANGED <<log, poster, qheap, txq, tx, mutex, adv, done>>
    BY <1>10 DEF vars
  <2>2. QueriesOwned' /\ Apart' /\ Len(txq') <= TxQueueSize
    BY <2>1, QueueSame
  <2>3. Swept'
    BY <2>1 DEF Swept, Ahead
  <2> QED BY <2>1, <2>2, <2>3 DEF Typed, Bounded, Advertised
<1> QED BY <1>1, <1>2, <1>3, <1>4, <1>5, <1>6, <1>7, <1>8, <1>9, <1>10 DEF Next

LEMMA Invariance == Spec => []IInv
<1> QED BY InitInv, StepInv, PTL DEF Spec
-----------------------------------------------------------------------------
(* The state stays in its type; the queue, the log and the events stay in  *)
(* their bounds. *)
THEOREM TypeCorrect == Spec => []TypeOK
<1>1. IInv => TypeOK
  BY DEF IInv, Typed, Bounded, TypeOK, TxStates
<1> QED BY <1>1, Invariance, PTL

(* No query leaks and none is freed twice, whichever of sender, queue and  *)
(* transmit thread is late. *)
THEOREM QueriesAreOwned == Spec => []QueriesOwned
<1>1. IInv => QueriesOwned
  BY DEF IInv
<1> QED BY <1>1, Invariance, PTL

(* A round reaches every record it began with, however many records other  *)
(* threads put meanwhile, and ends early only at a torn one. *)
THEOREM RoundsAreComplete == Spec => []SweepComplete
<1>1. IInv => SweepComplete
  BY DEF IInv, Swept, SweepComplete
<1> QED BY <1>1, Invariance, PTL

(* Every advertised record is decoded to itself by any other node. *)
THEOREM AdvertisedAreDecoded == Spec => []AdvertisedIsDecoded
<1>1. IInv => AdvertisedIsDecoded
  <2> SUFFICES ASSUME IInv, ~tx.id, NEW m \in tx.buf, NEW r \in tx.it.rec
               PROVE  /\ r.type \notin {"gate_encounter", "mate_encounter"}
                      /\ \/ DeserializeRecord(m, Capacity) = {r}
                         \/ Uint32Max \in {r.ts.physical, r.ts.logical}
    BY DEF AdvertisedIsDecoded
  <2>1. r \in Filed
    BY DEF IInv, Typed, TxStates, Iterators
  <2>2. m \in SerializeRecord(r, TRUE, RecordBuffer)
    BY DEF IInv, Advertised
  <2>3. r.type \in Types
    BY <2>2, CodeFacts DEF SerializeRecord
  <2>4. WireRecord(r) /\ r.sig.len \in 1 .. 80
    BY <2>1, <2>3, FiledFacts, RecordFacts, SignatureAssumption
  <2>5. CASE Uint32Max \notin {r.ts.physical, r.ts.logical}
    <3>1. RoundTrips(r)
      BY <2>4, <2>5, RecordsRoundTrip
    <3> QED BY <2>2, <2>3, <3>1 DEF RoundTrips, Capacity, Types
  <2> QED BY <2>3, <2>5 DEF Types
<1> QED BY <1>1, Invariance, PTL

LEMMA SampleFacts ==
  ASSUME NEW r \in SampleRecords
  PROVE  WireRecord(r) /\ r.sig.len \in 1 .. 80
<1>1. PICK type \in DOMAIN TypeCode, w \in SampleIds, seq \in {0, Uint8Max, Uint32Max + 1},
           t \in SampleTimes, g \in SampleIds, d \in SampleIds, s \in {"open", "closed"} :
        r = Record(type, w, seq, t, IF IdCount(type) >= 1 THEN g ELSE NoId,
                   IF IdCount(type) = 2 THEN d ELSE NoId, s)
  BY DEF SampleRecords
<1>2. type \in Types /\ IdCount(type) \in 0 .. 2
  BY CodeFacts, IdCountFacts
<1>3. seq \in Nat
  BY CborAssumption
<1>4. t \in [physical : 0 .. Uint32Max, logical : 0 .. Uint32Max]
  BY CborAssumption DEF SampleTimes
<1>5. /\ r.type = type /\ r.writer = w /\ r.seq = seq /\ r.ts = t /\ r.data.state = s
      /\ r.data.gate = IF IdCount(type) >= 1 THEN g ELSE NoId
      /\ r.data.mate = IF IdCount(type) = 2 THEN d ELSE NoId
      /\ r.sig.len = SignatureLen
  BY <1>1 DEF Record
<1>6. r = [type |-> r.type, writer |-> r.writer, seq |-> r.seq,
           ts |-> [physical |-> r.ts.physical, logical |-> r.ts.logical],
           data |-> [gate |-> r.data.gate, mate |-> r.data.mate, state |-> r.data.state],
           sig |-> [by |-> r.sig.by, len |-> r.sig.len]]
  BY <1>1, <1>4 DEF Record
<1> QED BY <1>2, <1>3, <1>4, <1>5, <1>6, SignatureAssumption DEF WireRecord, States

(* No record is too long for the buffers it is written to, whichever       *)
(* integers it holds. *)
THEOREM RecordsAlwaysFit == Spec => []RecordsFit
<1>1. RecordsFit
  BY SampleFacts, RecordFits DEF RecordsFit
<1> QED BY <1>1, PTL

(* What is encoded is decoded to the same, for every record. *)
THEOREM RecordsSurvive == Spec => []RecordRoundTrip
<1>1. RecordRoundTrip
  BY SampleFacts, RecordsRoundTrip DEF RecordRoundTrip
<1> QED BY <1>1, PTL

(* The same for identities. *)
THEOREM IdentitiesSurvive == Spec => []IdentityRoundTrip
<1>1. IdentityRoundTrip
  BY IdentitiesRoundTrip DEF IdentityRoundTrip
<1> QED BY <1>1, PTL
=============================================================================
