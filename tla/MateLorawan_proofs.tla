------------------------- MODULE MateLorawan_proofs -------------------------
(***************************************************************************)
(* Proofs about the LoRaWAN thread: it offers only records of its own node *)
(* to the network, what is held was put or came with its writer's          *)
(* signature, and queries and packets are lost only to the wait for a      *)
(* confirmation.                                                           *)
(***************************************************************************)
EXTENDS MateLorawan, Cbor_proofs

OwnTypes   == {"report", "observation", "gate_encounter", "mate_encounter"}
OwnQueries == {Query(t, Self, NoId) : t \in OwnTypes}
Filed      == FiledFrom(Puts)
OwnBare    == {[r EXCEPT !.sig.by = NoId] : r \in {p \in Filed : p.writer = Self}}
Entry      == Entries(Filed)
Sent       == UNION {SerializeRecord(r, FALSE, RecordBuffer) : r \in OwnBare}
Iterators  ==
  [state : {"run", "done", "error"}, pos : Nat, query : OwnQueries, cap : {NoBuffer},
   rec : SUBSET OwnBare]

QueryMessages  == {QueryMessage(p, q) : p \in QueryMem, q \in OwnQueries}
PacketMessages == {Packet(p, MemoQuery) : p \in PacketMem}
Messages       == QueryMessages \cup PacketMessages \cup {NetErr}

WriterStates == [pc : {"idle", "memo", "blocked"}, rec : SUBSET Puts, msg : Seq(QueryMessages)]
LwStates ==
  [pc : {"join", "recv", "next", "send", "confirm"}, todo : Seq(OwnQueries),
   mem : SUBSET QueryMem, it : Iterators, buf : SUBSET Sent]

Typed ==
  /\ log \in Seq(Entry) /\ Len(log) <= MaxLog
  /\ writer \in [Writers -> WriterStates]
  /\ qheap \in SUBSET QueryMem
  /\ queue \in Seq(Messages) /\ Len(queue) <= QUEUE_SIZE
  /\ lw \in LwStates
  /\ pending \in 0 .. QUEUE_SIZE
  /\ offered \in SUBSET OwnBare

(* A writer has a message only while it waits for room in the queue. *)
Waiting(wr) ==
  \A w \in Writers :
    /\ wr[w].pc = "memo" => \E r \in Puts : wr[w].rec = {r} /\ RecordMatchesQuery(r, MemoQuery)
    /\ wr[w].pc = "blocked" => \E m \in QueryMessages : wr[w].msg = <<m>>
    /\ wr[w].pc # "blocked" => wr[w].msg = <<>>

(* Every packet in the queue is a downlink in memory of its own. *)
Packets ==
  /\ DOMAIN packets \subseteq PacketMem
  /\ \A p \in DOMAIN packets : packets[p] \in Downlinks
  /\ \A i \in 1 .. Len(queue) : queue[i].kind = "packet" => queue[i].mem \subseteq DOMAIN packets
  /\ \A i, j \in 1 .. Len(queue) :
       queue[i].kind = "packet" /\ queue[j].kind = "packet" /\ queue[i].mem = queue[j].mem => i = j

(* The thread holds a query only while it answers it. *)
Answering == lw.pc \in {"join", "recv"} => lw.mem = {}

IInv == Typed /\ Waiting(writer) /\ Packets /\ Answering
-----------------------------------------------------------------------------
(* The records and the iterator. *)

LEMMA OwnFacts ==
  ASSUME NEW r \in Puts, RecordMatchesQuery(r, MemoQuery)
  PROVE  r.writer = Self /\ r.type \in OwnTypes
<1>1. r.writer = Self
  BY MateLorawanAssumption DEF RecordMatchesQuery, MemoQuery, Query
<1>2. r.type \notin {"command", "job"}
  BY <1>1, PutsAssumption
<1>3. r.type \in {"report", "observation", "gate_encounter", "mate_encounter", "command", "job"}
  BY PutsAssumption DEF IsRecord
<1> QED BY <1>1, <1>2, <1>3 DEF OwnTypes

LEMMA FiledFacts ==
  ASSUME NEW r \in Filed
  PROVE  IsRecord(r) /\ \E o \in Puts : SameHeader(r, o)
BY FiledAreRecords, PutsAssumption DEF Filed

LEMMA BareFacts ==
  ASSUME NEW r \in OwnBare PROVE r.writer = Self
<1>1. PICK s \in Filed : s.writer = Self /\ r = [s EXCEPT !.sig.by = NoId]
  BY DEF OwnBare
<1>2. IsRecord(s)
  BY FiledFacts
<1> QED BY <1>1, <1>2 DEF IsRecord

(* What a query for records of this node selects was written by it. *)
LEMMA IteratorFacts ==
  ASSUME NEW l \in Seq(Entry), NEW it \in Iterators
  PROVE  IteratorNext(l, it) \in Iterators
<1> DEFINE C == Candidates(l, it)
           i == Min(C)
<1>1. it.pos \in Nat /\ it.cap = NoBuffer /\ it.query \in OwnQueries
  BY DEF Iterators
<1>2. C \in SUBSET (1 .. Len(l))
  BY <1>1 DEF Candidates
<1>3. CASE it.state # "run"
  <2>1. IteratorNext(l, it) = [it EXCEPT !.rec = {}]
    BY <1>3 DEF IteratorNext
  <2> QED BY <2>1 DEF Iterators
<1>4. CASE it.state = "run" /\ C = {}
  <2>1. IteratorNext(l, it) = [it EXCEPT !.state = "done", !.rec = {}]
    BY <1>4 DEF IteratorNext
  <2> QED BY <2>1 DEF Iterators
<1>5. CASE it.state = "run" /\ C # {}
  <2>1. i \in C
    BY <1>2, <1>5, MinFacts
  <2>2. i \in 1 .. Len(l)
    BY <1>2, <2>1
  <2> DEFINE r == l[i].rec
             bare == [r EXCEPT !.sig.by = NoId]
  <2>3. r \in Filed
    <3> HIDE DEF i
    <3> QED BY <2>2, EntryFacts DEF Entry
  <2>4. KeyMatchesQuery(RecordKey(r), it.query)
    <3>1. \A j \in C : KeyMatchesQuery(RecordKey(l[j].rec), it.query)
      BY DEF Candidates
    <3> HIDE DEF C, i
    <3> QED BY <2>1, <3>1
  <2>5. bare \in OwnBare
    <3> HIDE DEF i
    <3>1. PICK t \in OwnTypes : it.query = Query(t, Self, NoId)
      BY <1>1 DEF OwnQueries
    <3>2. t = RecordKey(r).type /\ Self = RecordKey(r).first
      BY <2>4, <3>1, MateLorawanAssumption DEF KeyMatchesQuery, Query, OwnTypes
    <3>3. IsRecord(r)
      BY <2>3, FiledFacts
    <3>4. r.type \notin {"command", "job"}
      BY <3>1, <3>2, <3>3, RecordFacts DEF OwnTypes
    <3>5. r.writer = Self
      BY <3>2, <3>3, <3>4, RecordFacts
    <3> QED BY <2>3, <3>5 DEF OwnBare
  <2>6. \/ IteratorNext(l, it) = [it EXCEPT !.state = "error", !.pos = i, !.rec = {}]
        \/ IteratorNext(l, it) = [it EXCEPT !.pos = i, !.rec = {bare}]
    BY <1>1, <1>5 DEF IteratorNext
  <2> HIDE DEF i, bare
  <2>7. i \in Nat
    BY <2>2
  <2>8. CASE IteratorNext(l, it) = [it EXCEPT !.state = "error", !.pos = i, !.rec = {}]
    BY <2>7, <2>8 DEF Iterators
  <2>9. CASE IteratorNext(l, it) = [it EXCEPT !.pos = i, !.rec = {bare}]
    BY ZenonT(40), <2>5, <2>7, <2>9 DEF Iterators
  <2> QED BY <2>6, <2>8, <2>9
<1> QED BY <1>3, <1>4, <1>5

LEMMA InitialIterator ==
  ASSUME NEW q \in OwnQueries PROVE IteratorInit(q, NoBuffer) \in Iterators
BY DEF IteratorInit, Iterators

LEMMA ReportQuery == SelfReports \in OwnQueries
BY DEF SelfReports, OwnQueries, OwnTypes

(* Without a buffer for the signature no record of a downlink is verified. *)
LEMMA DownlinkFacts ==
  ASSUME NEW m \in Downlinks, NEW r \in DeserializeRecord(m, NoBuffer)
  PROVE  ~Verified(r)
<1>1. PICK type : r \in DecodeRecord(m.items, type, NoBuffer)
  BY DEF DeserializeRecord
<1> DEFINE i == m.items
<1>2. PICK sig \in SignatureAt(i, 9 + IdCount(type), NoBuffer) :
        r.writer = i[4].v /\ r.sig = sig
  BY <1>1 DEF DecodeRecord
<1>3. 4 \in DOMAIN i
  BY <1>1, DownlinksAssumption DEF DecodeRecord, HeaderAt, BytesAt
<1>4. r.writer # NoId
  BY <1>2, <1>3, DownlinksAssumption
<1>5. sig.len = 0 \/ sig.by = NoId
  BY <1>2 DEF SignatureAt, NoSignature
<1> QED BY <1>2, <1>4, <1>5 DEF Verified
-----------------------------------------------------------------------------
(* The queue. *)

LEMMA MessageFacts ==
  /\ \A m \in QueryMessages :
       /\ m.kind = "query" /\ m.query \in OwnQueries
       /\ \E p \in QueryMem : m.mem = {p}
  /\ \A m \in PacketMessages : m.kind = "packet" /\ \E p \in PacketMem : m.mem = {p}
  /\ NetErr.kind = "neterr" /\ NetErr.mem = {}
  /\ QueryMessages \cup PacketMessages \cup {NetErr} = Messages
BY DEF QueryMessages, PacketMessages, Messages, QueryMessage, Packet, NetErr

LEMMA AppendFacts ==
  ASSUME NEW S, NEW s \in Seq(S), NEW m \in S
  PROVE  LET t == Append(s, m)
         IN  /\ t \in Seq(S) /\ Len(t) = Len(s) + 1 /\ t[Len(s) + 1] = m
             /\ \A i \in 1 .. Len(s) : t[i] = s[i]
OBVIOUS

LEMMA TailFacts ==
  ASSUME NEW S, NEW s \in Seq(S), s # <<>>
  PROVE  /\ Tail(s) \in Seq(S) /\ Len(Tail(s)) = Len(s) - 1 /\ Len(s) \in Nat \ {0}
         /\ Head(s) = s[1] /\ s[1] \in S
         /\ \A i \in 1 .. Len(s) - 1 : Tail(s)[i] = s[i + 1]
OBVIOUS

LEMMA ReplaceFacts ==
  ASSUME NEW S, NEW s \in Seq(S), NEW m \in S
  PROVE  LET t == s \o <<m>>
         IN  /\ t \in Seq(S) /\ Len(t) = Len(s) + 1 /\ t[Len(s) + 1] = m
             /\ \A i \in 1 .. Len(s) : t[i] = s[i]
<1> DEFINE one == <<m>>
           t   == Append(s, m)
<1>1. one \in Seq(S) /\ Len(one) = 1 /\ one[1] = m
  OBVIOUS
<1>2. /\ t \in Seq(S) /\ Len(t) = Len(s) + 1 /\ t[Len(s) + 1] = m
      /\ \A i \in 1 .. Len(s) : t[i] = s[i]
  BY AppendFacts
<1> HIDE DEF one, t
<1>3. Len(t) = Len(s) + Len(one) /\ \A n \in 1 .. Len(one) : t[Len(s) + n] = one[n]
  BY <1>1, <1>2
<1>4. s \o one = t
  BY <1>1, <1>2, <1>3, Concat, Zenon
<1> QED BY <1>2, <1>4 DEF one

(* Whose hands a query or packet is in. *)
Used(p, kind, s, wr, mem) ==
  \/ \E i \in 1 .. Len(s) : s[i].kind = kind /\ p \in s[i].mem
  \/ \E w \in Writers : \E i \in 1 .. Len(wr[w].msg) :
       wr[w].msg[i].kind = kind /\ p \in wr[w].msg[i].mem
  \/ kind = "query" /\ p \in mem

LEMMA UsedFacts ==
  ASSUME NEW s \in Seq(Messages), NEW wr \in [Writers -> WriterStates], NEW mem, NEW kind, NEW p
  PROVE  p \in (UNION {m.mem : m \in {n \in ToSet(s) \cup UNION {ToSet(wr[w].msg) : w \in Writers} :
                                      n.kind = kind}})
                 \cup (IF kind = "query" THEN mem ELSE {})
           <=> Used(p, kind, s, wr, mem)
<1> DEFINE T == ToSet(s)
           M == UNION {ToSet(wr[w].msg) : w \in Writers}
           N == {n \in T \cup M : n.kind = kind}
<1>1. \A n : n \in T <=> \E i \in 1 .. Len(s) : n = s[i]
  BY DEF ToSet
<1>2. \A w \in Writers : wr[w].msg \in Seq(QueryMessages)
  BY DEF WriterStates
<1>3. \A n : n \in M <=> \E w \in Writers : \E i \in 1 .. Len(wr[w].msg) : n = wr[w].msg[i]
  <2>1. \A n : n \in M <=> \E w \in Writers : n \in ToSet(wr[w].msg)
    OBVIOUS
  <2>2. ASSUME NEW w \in Writers, NEW n
        PROVE  n \in ToSet(wr[w].msg) <=> \E i \in 1 .. Len(wr[w].msg) : n = wr[w].msg[i]
    BY <1>2 DEF ToSet
  <2>3. ASSUME NEW n
        PROVE  n \in M <=> \E w \in Writers : \E i \in 1 .. Len(wr[w].msg) : n = wr[w].msg[i]
    <3>1. n \in M <=> \E w \in Writers : n \in ToSet(wr[w].msg)
      BY <2>1
    <3>2. \A w \in Writers :
            n \in ToSet(wr[w].msg) <=> \E i \in 1 .. Len(wr[w].msg) : n = wr[w].msg[i]
      BY <2>2
    <3> HIDE DEF M
    <3> QED BY <3>1, <3>2, Zenon
  <2> HIDE DEF M
  <2> QED BY <2>3, Zenon
<1> HIDE DEF T, M
<1>4. p \in UNION {m.mem : m \in N} <=> \E n \in T \cup M : n.kind = kind /\ p \in n.mem
  OBVIOUS
<1>5. (\E n \in T \cup M : n.kind = kind /\ p \in n.mem)
        <=> \/ \E i \in 1 .. Len(s) : s[i].kind = kind /\ p \in s[i].mem
            \/ \E w \in Writers : \E i \in 1 .. Len(wr[w].msg) :
                 wr[w].msg[i].kind = kind /\ p \in wr[w].msg[i].mem
  BY <1>1, <1>3
<1>6. p \in (UNION {m.mem : m \in N}) \cup (IF kind = "query" THEN mem ELSE {})
        <=> Used(p, kind, s, wr, mem)
  BY <1>4, <1>5 DEF Used
<1> QED BY <1>6 DEF T, M

LEMMA InUseFacts ==
  ASSUME Typed, queue' \in Seq(Messages), writer' \in [Writers -> WriterStates], NEW kind, NEW p
  PROVE  /\ p \in InUse(kind) <=> Used(p, kind, queue, writer, lw.mem)
         /\ p \in InUse(kind)' <=> Used(p, kind, queue', writer', lw'.mem)
BY UsedFacts DEF Typed, InUse
-----------------------------------------------------------------------------
(* What a step keeps in somebody's hands, frees, or loses to the wait for  *)
(* a confirmation. *)
Kept ==
  \A p : \A kind \in {"query", "packet"} :
    Used(p, kind, queue, writer, lw.mem) =>
      \/ Used(p, kind, queue', writer', lw'.mem)
      \/ kind = "query" /\ p \notin qheap'
      \/ kind = "packet" /\ p \notin DOMAIN packets'
      \/ lw.pc = "confirm"

(* A message is added to the queue. *)
LEMMA AppendStep ==
  ASSUME Typed, Packets, NEW m \in Messages, Len(queue) < QUEUE_SIZE, queue' = Append(queue, m)
  PROVE  /\ queue' \in Seq(Messages) /\ Len(queue') <= QUEUE_SIZE
         /\ m.kind # "packet" /\ UNCHANGED packets => Packets'
         /\ \A p, kind, wr, mem :
              \/ Used(p, kind, queue, wr, mem)
              \/ m.kind = kind /\ p \in m.mem
              => Used(p, kind, queue', wr, mem)
<1>1. /\ queue \in Seq(Messages) /\ Len(queue) \in Nat /\ QUEUE_SIZE \in Nat
  BY MateLorawanAssumption DEF Typed
<1>2. /\ queue' \in Seq(Messages) /\ Len(queue') = Len(queue) + 1
      /\ queue'[Len(queue) + 1] = m
      /\ \A i \in 1 .. Len(queue) : queue'[i] = queue[i]
  BY <1>1, AppendFacts
<1>3. Len(queue') <= QUEUE_SIZE
  BY <1>1, <1>2
<1>4. ASSUME m.kind # "packet", UNCHANGED packets PROVE Packets'
  <2>1. \A i \in 1 .. Len(queue') :
          queue'[i].kind = "packet" => i \in 1 .. Len(queue) /\ queue'[i] = queue[i]
    BY <1>1, <1>2, <1>4
  <2> QED BY <1>4, <2>1 DEF Packets
<1>5. ASSUME NEW p, NEW kind, NEW wr, NEW mem,
             Used(p, kind, queue, wr, mem) \/ (m.kind = kind /\ p \in m.mem)
      PROVE  Used(p, kind, queue', wr, mem)
  <2>1. CASE m.kind = kind /\ p \in m.mem
    <3>1. Len(queue) + 1 \in 1 .. Len(queue')
      BY <1>1, <1>2
    <3> QED BY <1>2, <2>1, <3>1 DEF Used
  <2>2. CASE \E i \in 1 .. Len(queue) : queue[i].kind = kind /\ p \in queue[i].mem
    <3>1. \A i \in 1 .. Len(queue) : i \in 1 .. Len(queue') /\ queue'[i] = queue[i]
      BY <1>1, <1>2
    <3> QED BY <2>2, <3>1 DEF Used
  <2> QED BY <1>5, <2>1, <2>2 DEF Used
<1> QED BY <1>2, <1>3, <1>4, <1>5

(* A message is taken; a blocked writer's takes the place. *)
LEMMA TakeStep ==
  ASSUME Typed, Waiting(writer), queue # <<>>, Take
  PROVE  /\ queue' \in Seq(Messages) /\ Len(queue') <= QUEUE_SIZE
         /\ writer' \in [Writers -> WriterStates] /\ Waiting(writer')
         /\ \A i \in 1 .. Len(queue') :
              queue'[i].kind = "packet" => i + 1 \in 1 .. Len(queue) /\ queue'[i] = queue[i + 1]
         /\ \A p, kind, mem :
              Used(p, kind, queue, writer, mem) =>
                Used(p, kind, queue', writer', mem) \/ (Head(queue).kind = kind /\ p \in Head(queue).mem)
<1> DEFINE n == Len(queue)
           t == Tail(queue)
<1>1. /\ queue \in Seq(Messages) /\ n \in Nat \ {0} /\ QUEUE_SIZE \in Nat /\ n <= QUEUE_SIZE
      /\ writer \in [Writers -> WriterStates]
  BY TailFacts, MateLorawanAssumption DEF Typed
<1>2. /\ t \in Seq(Messages) /\ Len(t) = n - 1 /\ Head(queue) = queue[1]
      /\ \A i \in 1 .. n - 1 : t[i] = queue[i + 1]
  BY <1>1, TailFacts
<1> HIDE DEF n, t
<1>3. \A i \in 1 .. n : i = 1 \/ (i - 1 \in 1 .. n - 1 /\ t[i - 1] = queue[i])
  <2> TAKE i \in 1 .. n
  <2>1. CASE i = 1
    BY <2>1
  <2>2. CASE i # 1
    <3>1. i - 1 \in 1 .. n - 1 /\ (i - 1) + 1 = i
      BY <1>1, <2>2
    <3> QED BY <1>2, <3>1
  <2> QED BY <2>1, <2>2
<1>4. CASE ~ \E w \in Writers : writer[w].pc = "blocked"
  <2>1. queue' = t /\ writer' = writer
    BY <1>4 DEF Take, t
  <2>2. ASSUME NEW p, NEW kind, NEW i \in 1 .. n, queue[i].kind = kind, p \in queue[i].mem, i # 1
        PROVE  \E j \in 1 .. n - 1 : t[j].kind = kind /\ p \in t[j].mem
    BY <1>3, <2>2
  <2>3. \A p, kind, mem :
          Used(p, kind, queue, writer, mem) =>
            Used(p, kind, queue', writer', mem) \/ (Head(queue).kind = kind /\ p \in Head(queue).mem)
    BY <1>2, <2>1, <2>2 DEF Used, n
  <2> QED BY <1>1, <1>2, <2>1, <2>3 DEF n
<1>5. CASE \E w \in Writers : writer[w].pc = "blocked"
  <2>1. PICK w \in Writers :
          /\ writer[w].pc = "blocked"
          /\ queue' = t \o writer[w].msg /\ writer' = [writer EXCEPT ![w] = WriterIdle]
    BY <1>5 DEF Take, t
  <2>2. PICK m \in QueryMessages : writer[w].msg = <<m>>
    BY <2>1 DEF Waiting
  <2>3. m \in Messages /\ m.kind = "query" /\ WriterIdle \in WriterStates
        /\ WriterIdle.pc = "idle" /\ WriterIdle.msg = <<>>
    BY MessageFacts DEF WriterIdle, WriterStates
  <2>4. /\ queue' \in Seq(Messages) /\ Len(queue') = n /\ queue'[n] = m
        /\ \A i \in 1 .. n - 1 : queue'[i] = t[i]
    <3>1. /\ queue' \in Seq(Messages) /\ Len(queue') = Len(t) + 1 /\ queue'[Len(t) + 1] = m
          /\ \A i \in 1 .. Len(t) : queue'[i] = t[i]
      BY <1>2, <2>1, <2>2, <2>3, ReplaceFacts
    <3>2. Len(t) + 1 = n
      BY <1>1, <1>2
    <3> QED BY <1>2, <3>1, <3>2
  <2>5. /\ writer' \in [Writers -> WriterStates]
        /\ \A v \in Writers : writer'[v] = IF v = w THEN WriterIdle ELSE writer[v]
    BY <1>1, <2>1, <2>3
  <2>6. Waiting(writer')
    BY <2>3, <2>5 DEF Waiting
  <2>7. \A i \in 1 .. Len(queue') :
          queue'[i].kind = "packet" => i + 1 \in 1 .. n /\ queue'[i] = queue[i + 1]
    <3> SUFFICES ASSUME NEW i \in 1 .. Len(queue'), queue'[i].kind = "packet"
                 PROVE  i + 1 \in 1 .. n /\ queue'[i] = queue[i + 1]
      OBVIOUS
    <3>1. i # n
      BY <2>3, <2>4
    <3>2. i \in 1 .. n - 1 /\ i + 1 \in 1 .. n
      BY <1>1, <2>4, <3>1
    <3> QED BY <1>2, <2>4, <3>2
  <2>8. ASSUME NEW p, NEW kind, NEW mem, Used(p, kind, queue, writer, mem),
               ~(Head(queue).kind = kind /\ p \in Head(queue).mem)
        PROVE  Used(p, kind, queue', writer', mem)
    <3>1. CASE \E i \in 1 .. n : queue[i].kind = kind /\ p \in queue[i].mem
      <4>1. PICK i \in 1 .. n : queue[i].kind = kind /\ p \in queue[i].mem
        BY <3>1
      <4>2. i # 1
        BY <1>2, <2>8, <4>1
      <4>3. i - 1 \in 1 .. n - 1 /\ queue'[i - 1] = queue[i]
        BY <1>3, <2>4, <4>2
      <4>4. i - 1 \in 1 .. Len(queue')
        BY <1>1, <2>4, <4>3
      <4> QED BY <4>1, <4>3, <4>4 DEF Used
    <3>2. CASE \E v \in Writers : \E i \in 1 .. Len(writer[v].msg) :
                 writer[v].msg[i].kind = kind /\ p \in writer[v].msg[i].mem
      <4>1. PICK v \in Writers : \E i \in 1 .. Len(writer[v].msg) :
              writer[v].msg[i].kind = kind /\ p \in writer[v].msg[i].mem
        BY <3>2
      <4>2. CASE v = w
        <5>1. m.kind = kind /\ p \in m.mem
          <6>1. Len(<<m>>) = 1 /\ <<m>>[1] = m
            OBVIOUS
          <6> QED BY <2>2, <4>1, <4>2, <6>1
        <5>2. n \in 1 .. Len(queue')
          BY <1>1, <2>4
        <5> QED BY <2>4, <5>1, <5>2 DEF Used
      <4>3. CASE v # w
        BY <2>5, <4>1, <4>3 DEF Used
      <4> QED BY <4>2, <4>3
    <3> QED BY <2>8, <3>1, <3>2 DEF Used, n
  <2> QED BY <1>1, <2>4, <2>5, <2>6, <2>7, <2>8 DEF n
<1> QED BY <1>4, <1>5

LEMMA TakePackets ==
  ASSUME Typed, Packets, queue # <<>>, queue' \in Seq(Messages), UNCHANGED packets,
         \A i \in 1 .. Len(queue') :
           queue'[i].kind = "packet" => i + 1 \in 1 .. Len(queue) /\ queue'[i] = queue[i + 1]
  PROVE  Packets'
<1>1. \A i, j \in 1 .. Len(queue') : i + 1 = j + 1 => i = j
  OBVIOUS
<1> QED BY <1>1 DEF Packets

(* The packet at the head of the queue is released. *)
LEMMA ReleasePackets ==
  ASSUME Typed, Packets, queue # <<>>, queue' \in Seq(Messages), Head(queue).kind = "packet",
         NEW p \in Head(queue).mem, packets' = [q \in DOMAIN packets \ {p} |-> packets[q]],
         \A i \in 1 .. Len(queue') :
           queue'[i].kind = "packet" => i + 1 \in 1 .. Len(queue) /\ queue'[i] = queue[i + 1]
  PROVE  p \in DOMAIN packets /\ packets[p] \in Downlinks /\ Head(queue).mem = {p} /\ Packets'
<1>1. /\ queue \in Seq(Messages) /\ Len(queue) \in Nat \ {0} /\ Head(queue) = queue[1]
      /\ \A i \in 1 .. Len(queue) : queue[i] \in Messages
  BY TailFacts DEF Typed
<1>2. \A i \in 1 .. Len(queue) : queue[i].kind = "packet" => \E q \in PacketMem : queue[i].mem = {q}
  BY <1>1, MessageFacts
<1>3. 1 \in 1 .. Len(queue) /\ queue[1].kind = "packet" /\ queue[1].mem = {p}
  BY <1>1, <1>2
<1>4. p \in DOMAIN packets /\ packets[p] \in Downlinks
  BY <1>3 DEF Packets
<1>5. /\ DOMAIN packets' = DOMAIN packets \ {p}
      /\ \A q \in DOMAIN packets' : packets'[q] = packets[q]
  OBVIOUS
<1>6. ASSUME NEW i \in 1 .. Len(queue'), queue'[i].kind = "packet"
      PROVE  queue'[i].mem \subseteq DOMAIN packets'
  <2>1. i + 1 \in 1 .. Len(queue) /\ queue'[i] = queue[i + 1]
    BY <1>6
  <2>2. PICK q \in PacketMem : queue[i + 1].mem = {q}
    BY <1>2, <1>6, <2>1
  <2>3. i + 1 # 1
    OBVIOUS
  <2>4. q # p
    BY <1>3, <1>6, <2>1, <2>2, <2>3 DEF Packets
  <2>5. q \in DOMAIN packets
    BY <1>6, <2>1, <2>2 DEF Packets
  <2> QED BY <1>5, <2>1, <2>2, <2>4, <2>5
<1>7. \A i, j \in 1 .. Len(queue') :
        queue'[i].kind = "packet" /\ queue'[j].kind = "packet" /\ queue'[i].mem = queue'[j].mem => i = j
  <2>1. \A i, j \in 1 .. Len(queue') : i + 1 = j + 1 => i = j
    OBVIOUS
  <2> QED BY <2>1 DEF Packets
<1>8. Packets'
  BY <1>5, <1>6, <1>7 DEF Packets
<1> QED BY <1>1, <1>3, <1>4, <1>8

LEMMA IdleFacts == LwIdle \in LwStates /\ LwIdle.pc = "recv" /\ LwIdle.mem = {}
BY ReportQuery, InitialIterator DEF LwIdle, LwStates

LEMMA IterateFacts ==
  ASSUME NEW q \in OwnQueries, NEW rest \in Seq(OwnQueries), NEW mem \in SUBSET QueryMem
  PROVE  /\ Iterate(q, rest, mem) \in LwStates /\ Iterate(q, rest, mem).pc = "next"
         /\ Iterate(q, rest, mem).mem = mem
<1> DEFINE it == IteratorInit(q, NoBuffer)
<1>1. it \in Iterators
  BY InitialIterator
<1>2. Iterate(q, rest, mem) = [LwIdle EXCEPT !.pc = "next", !.todo = rest, !.mem = mem, !.it = it]
  BY DEF Iterate
<1> HIDE DEF it
<1> QED BY <1>1, <1>2, IdleFacts DEF LwStates
-----------------------------------------------------------------------------
(* The steps. *)

LEMMA InitInv == Init => IInv
<1> SUFFICES ASSUME Init PROVE IInv
  OBVIOUS
<1>1. lw \in LwStates /\ lw.mem = {}
  BY IdleFacts DEF Init, LwStates
<1>3. WriterIdle \in WriterStates /\ WriterIdle.pc = "idle" /\ WriterIdle.msg = <<>>
  BY DEF WriterIdle, WriterStates
<1>4. writer \in [Writers -> WriterStates] /\ Waiting(writer)
  BY <1>3 DEF Init, Waiting
<1>5. Len(log) <= MaxLog /\ Len(queue) <= QUEUE_SIZE /\ pending \in 0 .. QUEUE_SIZE
  BY MateLorawanAssumption DEF Init
<1>6. Typed
  BY <1>1, <1>4, <1>5 DEF Init, Typed
<1>7. Packets
  BY DEF Init, Packets
<1> QED BY <1>1, <1>4, <1>6, <1>7 DEF IInv, Answering

LEMMA PutStep ==
  ASSUME IInv, NEW w \in Writers, NEW r \in Puts, Put(w, r)
  PROVE  IInv' /\ Kept
<1>1. /\ Typed /\ Waiting(writer) /\ Packets /\ Answering /\ writer[w].msg = <<>>
      /\ writer \in [Writers -> WriterStates] /\ log \in Seq(Entry) /\ Len(log) \in Nat
      /\ UNCHANGED <<qheap, packets, queue, lw, pending, offered>>
  BY DEF IInv, Typed, Waiting, Put
<1>2. log' \in Seq(Entry) /\ Len(log') <= MaxLog
  <2> DEFINE Outcomes == {LogPut(log, r, FALSE)} \cup FailedPuts(log, r)
  <2>1. log' \in Outcomes /\ Len(log) < MaxLog
    <3>1. log' = LogPut(log, r, FALSE) \/ log' \in Outcomes
      BY DEF Put
    <3>2. LogPut(log, r, FALSE) \in Outcomes
      OBVIOUS
    <3> HIDE DEF Outcomes
    <3> QED BY <3>1, <3>2 DEF Put
  <2>2. log' = log \/ \E x \in Filed, torn \in BOOLEAN : log' = LogPut(log, x, torn)
    <3>1. \A o \in Puts : IsRecord(o)
      BY PutsAssumption
    <3>2. log \in Seq(Entries(FiledFrom(Puts)))
      BY <1>1 DEF Entry, Filed
    <3>3. \A new \in Outcomes : Adds(log, new, FiledFrom(Puts))
      BY <3>1, <3>2, FailedPutFacts
    <3> HIDE DEF Outcomes
    <3> QED BY <2>1, <3>3 DEF Filed, Adds
  <2>3. Len(log) + 1 <= MaxLog /\ Len(log) <= MaxLog
    BY <1>1, <2>1, MateLorawanAssumption
  <2>4. CASE log' = log
    BY <1>1, <2>3, <2>4
  <2>5. CASE \E x \in Filed, torn \in BOOLEAN : log' = LogPut(log, x, torn)
    <3>1. PICK x \in Filed, torn \in BOOLEAN : log' = LogPut(log, x, torn)
      BY <2>5
    <3>2. /\ LogPut(log, x, torn) \in Seq(Entries(Filed))
          /\ Len(LogPut(log, x, torn)) = Len(log) + 1
      <4>1. log \in Seq(Entries(Filed))
        BY <1>1 DEF Entry
      <4> QED BY <4>1, LogPutFacts
    <3> QED BY <2>3, <3>1, <3>2 DEF Entry
  <2> QED BY <2>2, <2>4, <2>5
<1> DEFINE memo == [WriterIdle EXCEPT !.pc = "memo", !.rec = {r}]
<1>3. /\ memo \in WriterStates /\ memo.pc = "memo" /\ memo.rec = {r} /\ memo.msg = <<>>
  <2>1. WriterIdle \in WriterStates /\ WriterIdle.msg = <<>>
    BY DEF WriterIdle, WriterStates
  <2> QED BY <2>1 DEF WriterStates
<1>4. \/ writer' = writer
      \/ RecordMatchesQuery(r, MemoQuery) /\ writer' = [writer EXCEPT ![w] = memo]
  BY DEF Put
<1> HIDE DEF memo
<1>5. writer' \in [Writers -> WriterStates] /\ Waiting(writer')
  BY <1>1, <1>3, <1>4 DEF Waiting
<1>6. \A v \in Writers : writer'[v].msg = writer[v].msg
  BY <1>1, <1>3, <1>4
<1>7. Kept
  BY <1>1, <1>6 DEF Kept, Used
<1> QED BY <1>1, <1>2, <1>5, <1>7 DEF IInv, Typed, Packets, Answering

(* The query goes to the queue, or waits with its writer. *)
LEMMA MemoStep ==
  ASSUME IInv, NEW w \in Writers, TableSelfStateUpdated(w)
  PROVE  IInv' /\ Kept
<1>1. /\ Typed /\ Waiting(writer) /\ Packets /\ Answering
      /\ writer \in [Writers -> WriterStates] /\ qheap \in SUBSET QueryMem
      /\ UNCHANGED <<log, packets, lw, pending, offered>>
      /\ writer[w].pc = "memo" /\ writer[w].msg = <<>>
      /\ Len(queue) \in Nat /\ QUEUE_SIZE \in Nat
  BY SMTT(30), MateLorawanAssumption DEF IInv, Typed, Waiting, TableSelfStateUpdated
<1>2. WriterIdle \in WriterStates /\ WriterIdle.pc = "idle" /\ WriterIdle.msg = <<>>
  BY DEF WriterIdle, WriterStates
<1>3. ASSUME writer' = [writer EXCEPT ![w] = WriterIdle]
      PROVE  /\ writer' \in [Writers -> WriterStates] /\ Waiting(writer')
             /\ \A v \in Writers : writer'[v].msg = writer[v].msg
  BY <1>1, <1>2, <1>3 DEF Waiting
<1>4. CASE lw.pc = "join" \/ qheap = QueryMem
  <2>1. UNCHANGED <<qheap, queue>> /\ writer' = [writer EXCEPT ![w] = WriterIdle]
    BY <1>4 DEF TableSelfStateUpdated
  <2>2. Kept
    BY <1>1, <1>3, <2>1 DEF Kept, Used
  <2> QED BY <1>1, <1>3, <2>1, <2>2 DEF IInv, Typed, Packets, Answering
<1>5. CASE ~(lw.pc = "join" \/ qheap = QueryMem)
  <2> DEFINE q == CHOOSE p \in QueryMem : p \notin qheap
             r == CHOOSE s \in writer[w].rec : TRUE
             m == QueryMessage(q, Query(r.type, Self, NoId))
  <2>1. /\ qheap' = qheap \cup {q}
        /\ \/ /\ Len(queue) < QUEUE_SIZE
              /\ queue' = Append(queue, m) /\ writer' = [writer EXCEPT ![w] = WriterIdle]
           \/ /\ queue' = queue
              /\ writer' = [writer EXCEPT ![w] = [WriterIdle EXCEPT !.pc = "blocked", !.msg = <<m>>]]
    BY <1>5 DEF TableSelfStateUpdated
  <2>2. q \in QueryMem
    BY <1>1, <1>5
  <2>3. r \in Puts /\ RecordMatchesQuery(r, MemoQuery)
    BY <1>1 DEF Waiting
  <2>4. Query(r.type, Self, NoId) \in OwnQueries
    <3> HIDE DEF r
    <3> QED BY <2>3, OwnFacts DEF OwnQueries
  <2>5. m \in QueryMessages
    <3> HIDE DEF q, r
    <3> QED BY <2>2, <2>4 DEF QueryMessages
  <2>6. qheap' \in SUBSET QueryMem
    <3> HIDE DEF q
    <3> QED BY <1>1, <2>1, <2>2
  <2> HIDE DEF m, q, r
  <2>7. m \in Messages /\ m.kind = "query"
    BY <2>5, MessageFacts
  <2>8. CASE Len(queue) < QUEUE_SIZE /\ queue' = Append(queue, m)
               /\ writer' = [writer EXCEPT ![w] = WriterIdle]
    <3>1. /\ queue' \in Seq(Messages) /\ Len(queue') <= QUEUE_SIZE /\ Packets'
          /\ \A p, kind, wr, mem :
               Used(p, kind, queue, wr, mem) => Used(p, kind, queue', wr, mem)
      BY <1>1, <2>7, <2>8, AppendStep
    <3>2. Kept
      BY <1>1, <1>3, <2>8, <3>1 DEF Kept, Used
    <3> QED BY <1>1, <1>3, <2>6, <2>8, <3>1, <3>2 DEF IInv, Typed, Answering
  <2>9. CASE /\ queue' = queue
             /\ writer' = [writer EXCEPT ![w] = [WriterIdle EXCEPT !.pc = "blocked", !.msg = <<m>>]]
    <3> DEFINE b == [WriterIdle EXCEPT !.pc = "blocked", !.msg = <<m>>]
    <3>1. b \in WriterStates /\ b.pc = "blocked" /\ b.msg = <<m>>
      <4>1. <<m>> \in Seq(QueryMessages)
        BY <2>5
      <4> QED BY <1>2, <4>1 DEF WriterStates
    <3> HIDE DEF b
    <3>2. /\ writer' \in [Writers -> WriterStates]
          /\ \A v \in Writers : writer'[v] = IF v = w THEN b ELSE writer[v]
      BY <1>1, <2>9, <3>1 DEF b
    <3>3. Waiting(writer')
      BY <1>1, <2>5, <3>1, <3>2 DEF Waiting
    <3>4. \A v \in Writers : \A i \in 1 .. Len(writer[v].msg) :
            i \in 1 .. Len(writer'[v].msg) /\ writer'[v].msg[i] = writer[v].msg[i]
      BY <1>1, <3>2
    <3>5. Kept
      BY <1>1, <2>9, <3>4 DEF Kept, Used
    <3> QED BY <1>1, <2>6, <2>9, <3>2, <3>3, <3>5 DEF IInv, Typed, Packets, Answering
  <2> QED BY <2>1, <2>8, <2>9
<1> QED BY <1>4, <1>5

(* The thread alone goes on. *)
LEMMA ThreadStep ==
  ASSUME IInv, UNCHANGED <<log, writer, packets, queue, pending, offered>>,
         lw' \in LwStates, qheap' \in SUBSET QueryMem,
         lw'.pc \in {"join", "recv"} => lw'.mem = {},
         \A q \in lw.mem : q \in lw'.mem \/ q \notin qheap'
  PROVE  IInv' /\ Kept
<1>1. Kept
  BY DEF Kept, Used
<1> QED BY <1>1 DEF IInv, Typed, Packets, Answering

LEMMA WaitStep ==
  ASSUME IInv, Join \/ Timeout
  PROVE  IInv' /\ Kept
<1>1. lw.mem = {} /\ qheap \in SUBSET QueryMem
  BY DEF IInv, Typed, Answering, Join, Timeout
<1>2. CASE Join
  <2>1. lw' \in LwStates /\ lw'.mem = {}
    BY <1>2, IdleFacts DEF Join
  <2> QED BY <1>1, <1>2, <2>1, ThreadStep DEF Join
<1>3. CASE Timeout
  <2>1. Head(PeriodicQueries) \in OwnQueries /\ Tail(PeriodicQueries) \in Seq(OwnQueries)
    <3>1. PeriodicQueries \in Seq(OwnQueries) /\ PeriodicQueries # <<>>
      BY ReportQuery DEF PeriodicQueries
    <3> QED BY <3>1
  <2> DEFINE head == Head(PeriodicQueries)
             rest == Tail(PeriodicQueries)
  <2>2. lw' \in LwStates /\ lw'.pc = "next"
    <3>1. lw' = Iterate(head, rest, {})
      BY <1>3 DEF Timeout
    <3>2. head \in OwnQueries /\ rest \in Seq(OwnQueries)
      BY <2>1
    <3> HIDE DEF head, rest
    <3> QED BY <3>1, <3>2, IterateFacts
  <2> QED BY <1>1, <1>3, <2>2, ThreadStep DEF Timeout
<1> QED BY <1>2, <1>3

LEMMA NextRecordStep ==
  ASSUME IInv, NextRecord
  PROVE  IInv' /\ Kept
<1> DEFINE it  == IteratorNext(log, lw.it)
           buf == UNION {SerializeRecord(r, FALSE, RecordBuffer) : r \in it.rec}
           pc  == IF buf = {} THEN "next" ELSE "send"
<1>1. /\ lw \in LwStates /\ lw.pc = "next" /\ qheap \in SUBSET QueryMem
      /\ lw.mem \in SUBSET QueryMem /\ lw.todo \in Seq(OwnQueries)
      /\ UNCHANGED <<log, writer, packets, queue, pending, offered>>
  BY DEF IInv, Typed, LwStates, NextRecord
<1>2. it \in Iterators /\ it.rec \in SUBSET OwnBare
  <2>1. log \in Seq(Entry) /\ lw.it \in Iterators
    BY DEF IInv, Typed, LwStates
  <2>2. it \in Iterators
    BY <2>1, IteratorFacts
  <2> HIDE DEF it
  <2> QED BY <2>2 DEF Iterators
<1>3. \/ lw' = [lw EXCEPT !.it = it, !.buf = buf, !.pc = pc] /\ UNCHANGED qheap
      \/ lw.todo # <<>> /\ lw' = Iterate(Head(lw.todo), Tail(lw.todo), lw.mem) /\ UNCHANGED qheap
      \/ lw' = LwIdle /\ qheap' = qheap \ lw.mem
  BY DEF NextRecord
<1>4. CASE lw' = [lw EXCEPT !.it = it, !.buf = buf, !.pc = pc] /\ UNCHANGED qheap
  <2>1. buf \in SUBSET Sent
    BY <1>2 DEF Sent
  <2>2. pc \in {"next", "send"}
    OBVIOUS
  <2> HIDE DEF it, buf, pc
  <2>3. lw' \in LwStates /\ lw'.pc = pc /\ lw'.mem = lw.mem
    BY <1>1, <1>2, <1>4, <2>1, <2>2 DEF LwStates
  <2> QED BY <1>1, <1>4, <2>2, <2>3, ThreadStep
<1>5. CASE lw.todo # <<>> /\ lw' = Iterate(Head(lw.todo), Tail(lw.todo), lw.mem) /\ UNCHANGED qheap
  <2>1. Head(lw.todo) \in OwnQueries /\ Tail(lw.todo) \in Seq(OwnQueries)
    BY <1>1, <1>5
  <2>2. lw' \in LwStates /\ lw'.pc = "next" /\ lw'.mem = lw.mem
    BY <1>1, <1>5, <2>1, IterateFacts
  <2> QED BY <1>1, <1>5, <2>2, ThreadStep
<1>6. CASE lw' = LwIdle /\ qheap' = qheap \ lw.mem
  <2>1. lw' \in LwStates /\ lw'.mem = {}
    BY <1>1, <1>6, IdleFacts
  <2> QED BY <1>1, <1>6, <2>1, ThreadStep
<1> QED BY <1>3, <1>4, <1>5, <1>6

(* No packet changes the log. *)
LEMMA ReceiveStep ==
  ASSUME IInv, ReceiveQuery \/ ReceiveOther \/ ReceivePacket \/ AwaitConfirmation
  PROVE  IInv' /\ Kept
<1>1. /\ queue # <<>> /\ Take /\ UNCHANGED <<qheap, pending, offered>>
      /\ Typed /\ Waiting(writer) /\ Packets /\ Answering /\ lw \in LwStates
  BY DEF IInv, Typed, ReceiveQuery, ReceiveOther, ReceivePacket, AwaitConfirmation
<1>2. /\ queue' \in Seq(Messages) /\ Len(queue') <= QUEUE_SIZE
      /\ writer' \in [Writers -> WriterStates] /\ Waiting(writer')
      /\ \A i \in 1 .. Len(queue') :
           queue'[i].kind = "packet" => i + 1 \in 1 .. Len(queue) /\ queue'[i] = queue[i + 1]
      /\ \A p, kind, mem :
           Used(p, kind, queue, writer, mem) =>
             Used(p, kind, queue', writer', mem) \/ (Head(queue).kind = kind /\ p \in Head(queue).mem)
  BY <1>1, TakeStep
<1>3. Head(queue) \in Messages
  BY <1>1, TailFacts DEF Typed
<1>4. ASSUME UNCHANGED <<log, packets>>, lw' \in LwStates, Answering', Kept PROVE IInv' /\ Kept
  <2>1. Packets'
    BY <1>1, <1>2, <1>4, TakePackets
  <2> QED BY <1>1, <1>2, <1>4, <2>1 DEF IInv, Typed
<1>5. CASE ReceiveQuery
  <2> DEFINE m == Head(queue)
  <2>1. m.query \in OwnQueries /\ m.mem \in SUBSET QueryMem
    BY <1>3, <1>5, MessageFacts DEF ReceiveQuery
  <2>2. lw' \in LwStates /\ lw'.pc = "next" /\ lw'.mem = m.mem
    <3>1. lw' = Iterate(m.query, <<>>, m.mem) /\ <<>> \in Seq(OwnQueries)
      BY <1>5 DEF ReceiveQuery
    <3> HIDE DEF m
    <3> QED BY <2>1, <3>1, IterateFacts
  <2>3. lw.mem = {} /\ m.kind = "query"
    BY <1>1, <1>5 DEF ReceiveQuery, Answering
  <2>4. ASSUME NEW p, NEW kind, Used(p, kind, queue, writer, lw.mem)
        PROVE  Used(p, kind, queue', writer', lw'.mem)
    <3>1. \/ Used(p, kind, queue', writer', lw.mem)
          \/ kind = "query" /\ p \in m.mem
      BY <1>2, <2>3, <2>4
    <3> QED BY <2>2, <2>3, <3>1 DEF Used
  <2>5. Kept
    BY <2>4 DEF Kept
  <2> QED BY <1>4, <1>5, <2>2, <2>5 DEF ReceiveQuery, Answering
<1>6. CASE ReceiveOther
  <2>1. lw' = lw /\ UNCHANGED <<log, packets>> /\ Head(queue).kind = "neterr"
    BY <1>6 DEF ReceiveOther
  <2>2. Kept
    BY <1>2, <2>1 DEF Kept
  <2> QED BY <1>1, <1>4, <2>1, <2>2 DEF Answering
<1>7. CASE AwaitConfirmation
  <2>1. lw.pc = "confirm" /\ lw' = [lw EXCEPT !.pc = "next"] /\ UNCHANGED <<log, packets>>
    BY <1>7 DEF AwaitConfirmation
  <2>2. lw' \in LwStates /\ lw'.pc = "next"
    BY <1>1, <2>1 DEF LwStates
  <2> QED BY <1>4, <2>1, <2>2 DEF Kept, Answering
<1>8. CASE ReceivePacket
  <2>1. PICK p \in Head(queue).mem :
          LET new == {r \in DeserializeRecord(packets[p], NoBuffer) :
                        /\ \A i \in Live(log, RecordKey(r)) : Supersedes(r, log[i].rec)
                        /\ Verified(r)}
          IN  /\ log' = IF new = {} \/ Len(log) >= MaxLog THEN log
                        ELSE LogPut(log, CHOOSE r \in new : TRUE, FALSE)
              /\ packets' = [q \in DOMAIN packets \ {p} |-> packets[q]]
    BY <1>8 DEF ReceivePacket
  <2>2. Head(queue).kind = "packet" /\ lw' = lw
    BY <1>8 DEF ReceivePacket
  <2>3. packets[p] \in Downlinks /\ Head(queue).mem = {p} /\ Packets'
    BY <1>1, <1>2, <2>1, <2>2, ReleasePackets
  <2>4. log' = log
    BY <2>1, <2>3, DownlinkFacts
  <2>5. p \notin DOMAIN packets'
    BY <2>1
  <2>6. Kept
    BY <1>2, <2>2, <2>3, <2>5 DEF Kept
  <2> QED BY <1>1, <1>2, <2>2, <2>3, <2>4, <2>6 DEF IInv, Typed, Answering
<1> QED BY <1>5, <1>6, <1>7, <1>8

LEMMA SendStep ==
  ASSUME IInv, SendPacket
  PROVE  IInv' /\ Kept
<1>1. /\ Typed /\ Packets /\ lw \in LwStates /\ lw.pc = "send" /\ lw.it.rec \in SUBSET OwnBare
      /\ UNCHANGED <<log, writer, qheap, packets>>
      /\ offered' = offered \cup lw.it.rec /\ offered \in SUBSET OwnBare
      /\ pending \in 0 .. QUEUE_SIZE /\ QUEUE_SIZE \in Nat
  BY MateLorawanAssumption DEF IInv, Typed, LwStates, Iterators, SendPacket
<1>2. offered' \in SUBSET OwnBare
  BY <1>1
<1>3. lw' \in LwStates /\ lw'.mem = lw.mem /\ lw'.pc \in {"confirm", "next"}
  <2>1. {} \in SUBSET Sent
    OBVIOUS
  <2>2. \E pc \in {"confirm", "next"} : lw' = [lw EXCEPT !.pc = pc, !.buf = {}]
    BY DEF SendPacket
  <2> QED BY <1>1, <2>1, <2>2 DEF LwStates
<1>4. pending' \in 0 .. QUEUE_SIZE
  BY <1>1 DEF SendPacket
<1>5. /\ queue' \in Seq(Messages) /\ Len(queue') <= QUEUE_SIZE /\ Packets'
      /\ \A p, kind, wr, mem : Used(p, kind, queue, wr, mem) => Used(p, kind, queue', wr, mem)
  <2>1. NetErr \in Messages /\ NetErr.kind # "packet"
    BY MessageFacts
  <2>2. queue' = queue \/ (Len(queue) < QUEUE_SIZE /\ queue' = Append(queue, NetErr))
    BY DEF SendPacket
  <2>3. CASE queue' = queue
    BY <1>1, <2>3 DEF Typed, Packets
  <2>4. CASE Len(queue) < QUEUE_SIZE /\ queue' = Append(queue, NetErr)
    BY <1>1, <2>1, <2>4, AppendStep
  <2> QED BY <2>2, <2>3, <2>4
<1>6. Kept
  BY <1>1, <1>3, <1>5 DEF Kept
<1> QED BY <1>1, <1>2, <1>3, <1>4, <1>5, <1>6 DEF IInv, Typed, Answering

LEMMA ConfirmStep ==
  ASSUME IInv, Confirm
  PROVE  IInv' /\ Kept
<1>1. /\ Typed /\ Packets /\ pending \in 0 .. QUEUE_SIZE /\ QUEUE_SIZE \in Nat
      /\ UNCHANGED <<log, writer, qheap, packets, lw, offered>>
      /\ pending > 0 /\ pending' = pending - 1
      /\ Len(queue) < QUEUE_SIZE /\ queue' = Append(queue, NetErr)
  BY MateLorawanAssumption DEF IInv, Typed, Confirm
<1>2. NetErr \in Messages /\ NetErr.kind # "packet"
  BY MessageFacts
<1>3. /\ queue' \in Seq(Messages) /\ Len(queue') <= QUEUE_SIZE /\ Packets'
      /\ \A p, kind, wr, mem : Used(p, kind, queue, wr, mem) => Used(p, kind, queue', wr, mem)
  BY <1>1, <1>2, AppendStep
<1>4. pending' \in 0 .. QUEUE_SIZE
  BY <1>1
<1>5. Kept
  BY <1>1, <1>3 DEF Kept
<1> QED BY <1>1, <1>3, <1>4, <1>5 DEF IInv, Typed, Answering

LEMMA DownlinkStep ==
  ASSUME IInv, NEW m \in Downlinks, Downlink(m)
  PROVE  IInv' /\ Kept
<1>1. /\ Typed /\ Packets /\ UNCHANGED <<log, writer, qheap, lw, pending, offered>>
      /\ DOMAIN packets # PacketMem /\ DOMAIN packets \subseteq PacketMem
      /\ queue \in Seq(Messages) /\ Len(queue) \in Nat
  BY DEF IInv, Typed, Packets, Downlink
<1>2. CASE UNCHANGED <<packets, queue>>
  <2>1. Kept
    BY <1>1, <1>2 DEF Kept
  <2> QED BY <1>1, <1>2, <2>1 DEF IInv, Typed, Packets, Answering
<1>3. CASE Len(queue) < QUEUE_SIZE
  <2> DEFINE p == CHOOSE q \in PacketMem : q \notin DOMAIN packets
             new == Packet(p, MemoQuery)
  <2>1. /\ packets' = [q \in DOMAIN packets \cup {p} |-> IF q = p THEN m ELSE packets[q]]
        /\ queue' = Append(queue, new)
    BY <1>3 DEF Downlink
  <2>2. p \in PacketMem /\ p \notin DOMAIN packets
    BY <1>1
  <2>3. new \in Messages /\ new.kind = "packet" /\ new.mem = {p}
    <3>1. new \in PacketMessages
      <4> HIDE DEF p
      <4> QED BY <2>2 DEF PacketMessages
    <3>2. new.kind = "packet" /\ new.mem = {p}
      BY DEF Packet
    <3> QED BY <3>1, <3>2, MessageFacts
  <2> HIDE DEF p, new
  <2>4. /\ queue' \in Seq(Messages) /\ Len(queue') <= QUEUE_SIZE
        /\ \A x, kind, wr, mem : Used(x, kind, queue, wr, mem) => Used(x, kind, queue', wr, mem)
    BY <1>1, <1>3, <2>1, <2>3, AppendStep
  <2>5. /\ Len(queue') = Len(queue) + 1 /\ queue'[Len(queue) + 1] = new
        /\ \A i \in 1 .. Len(queue) : queue'[i] = queue[i]
    BY <1>1, <2>1, <2>3, AppendFacts
  <2>6. /\ DOMAIN packets' = DOMAIN packets \cup {p} /\ packets'[p] = m
        /\ \A q \in DOMAIN packets : packets'[q] = packets[q]
    BY <2>1, <2>2
  <2>7. Packets'
    <3>1. \A i \in 1 .. Len(queue') :
            \/ i = Len(queue) + 1 /\ queue'[i] = new
            \/ i \in 1 .. Len(queue) /\ queue'[i] = queue[i]
      BY <1>1, <2>5
    <3>2. \A i \in 1 .. Len(queue) : queue[i].kind = "packet" => queue[i].mem # {p}
      BY <1>1, <2>2 DEF Packets
    <3>3. DOMAIN packets' \subseteq PacketMem /\ \A q \in DOMAIN packets' : packets'[q] \in Downlinks
      BY <1>1, <2>2, <2>6 DEF Packets
    <3>4. ASSUME NEW i \in 1 .. Len(queue'), queue'[i].kind = "packet"
          PROVE  queue'[i].mem \subseteq DOMAIN packets'
      BY <1>1, <2>3, <2>6, <3>1, <3>4 DEF Packets
    <3>5. ASSUME NEW i \in 1 .. Len(queue'), NEW j \in 1 .. Len(queue'),
                 queue'[i].kind = "packet", queue'[j].kind = "packet", queue'[i].mem = queue'[j].mem
          PROVE  i = j
      BY <1>1, <2>3, <3>1, <3>2, <3>5 DEF Packets
    <3> QED BY <3>3, <3>4, <3>5 DEF Packets
  <2>8. Kept
    BY <1>1, <2>4 DEF Kept
  <2> QED BY <1>1, <2>4, <2>7, <2>8 DEF IInv, Typed, Answering
<1> QED BY <1>2, <1>3 DEF Downlink

LEMMA StepInv == IInv /\ [Next]_vars => IInv' /\ Kept
<1> SUFFICES ASSUME IInv, [Next]_vars PROVE IInv' /\ Kept
  OBVIOUS
<1>1. CASE \E w \in Writers, r \in Puts : Put(w, r)
  BY <1>1, PutStep
<1>2. CASE \E w \in Writers : TableSelfStateUpdated(w)
  BY <1>2, MemoStep
<1>3. CASE Join \/ Timeout
  BY <1>3, WaitStep
<1>4. CASE ReceiveQuery \/ ReceiveOther \/ ReceivePacket \/ AwaitConfirmation
  BY <1>4, ReceiveStep
<1>5. CASE NextRecord
  BY <1>5, NextRecordStep
<1>6. CASE SendPacket
  BY <1>6, SendStep
<1>7. CASE Confirm
  BY <1>7, ConfirmStep
<1>8. CASE \E m \in Downlinks : Downlink(m)
  BY <1>8, DownlinkStep
<1>9. CASE UNCHANGED vars
  BY <1>9 DEF vars, IInv, Typed, Packets, Answering, Kept
<1> QED BY <1>1, <1>2, <1>3, <1>4, <1>5, <1>6, <1>7, <1>8, <1>9 DEF Next

LEMMA Invariance == Spec => []IInv
<1>1. IInv /\ [Next]_vars => IInv'
  BY StepInv
<1> QED BY <1>1, InitInv, PTL DEF Spec
-----------------------------------------------------------------------------
(* The state stays in its type; log and queue stay in their bounds. *)
THEOREM TypeCorrect == Spec => []TypeOK
<1>1. IInv => TypeOK
  BY DEF IInv, Typed, Packets, TypeOK, WriterStates, LwStates
<1> QED BY <1>1, Invariance, PTL

(* The header of every record held is that of one a thread has put, or of  *)
(* one that came by a downlink with the signature its writer made.         *)
THEOREM DownlinksAreVerified == Spec => []DownlinkVerified
<1>1. IInv => DownlinkVerified
  <2> SUFFICES ASSUME IInv, NEW i \in DOMAIN log
               PROVE  \E r \in Puts \cup SignedDownlinks : SameHeader(log[i].rec, r)
    BY DEF DownlinkVerified, HeldRecords
  <2>1. log \in Seq(Entry) /\ i \in 1 .. Len(log)
    BY DEF IInv, Typed
  <2>2. log[i].rec \in Filed
    BY <2>1, EntryFacts DEF Entry
  <2> QED BY <2>2, FiledFacts
<1> QED BY <1>1, Invariance, PTL

(* Whatever the table holds, only records this node wrote are offered to   *)
(* the network. *)
THEOREM UplinksAreOwn == Spec => []OwnUplinksOnly
<1>1. IInv => OwnUplinksOnly
  BY BareFacts DEF IInv, Typed, OwnUplinksOnly
<1> QED BY <1>1, Invariance, PTL

(* A query or packet that nobody holds any more is freed, unless it was    *)
(* taken for a confirmation. *)
THEOREM MemoryIsFreed == Spec => MemoryFreed
<1> DEFINE Freed ==
      /\ \A q \in InUse("query") \ InUse("query")' : q \in qheap' => lw.pc = "confirm"
      /\ \A p \in InUse("packet") \ InUse("packet")' : p \in DOMAIN packets' => lw.pc = "confirm"
<1>1. IInv /\ [Next]_vars => [Freed]_vars
  <2> SUFFICES ASSUME IInv, [Next]_vars PROVE Freed
    OBVIOUS
  <2>1. IInv' /\ Kept
    BY StepInv
  <2>2. Typed /\ queue' \in Seq(Messages) /\ writer' \in [Writers -> WriterStates]
    BY <2>1 DEF IInv, Typed
  <2>3. \A p : \A kind \in {"query", "packet"} :
          /\ p \in InUse(kind) <=> Used(p, kind, queue, writer, lw.mem)
          /\ p \in InUse(kind)' <=> Used(p, kind, queue', writer', lw'.mem)
    BY <2>2, InUseFacts
  <2>4. \A q \in InUse("query") \ InUse("query")' : q \in qheap' => lw.pc = "confirm"
    BY <2>1, <2>3 DEF Kept
  <2>5. \A p \in InUse("packet") \ InUse("packet")' : p \in DOMAIN packets' => lw.pc = "confirm"
    BY <2>1, <2>3 DEF Kept
  <2> QED BY <2>4, <2>5
<1> HIDE DEF Freed
<1>2. Spec => [][Freed]_vars
  BY <1>1, Invariance, PTL DEF Spec
<1> QED BY <1>2 DEF MemoryFreed, Freed
=============================================================================
