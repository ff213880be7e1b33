----------------------------- MODULE MateLorawan -----------------------------
(***************************************************************************)
(* The LoRaWAN thread of one node (mate_lorawan.c).  Threads that write a  *)
(* record of the node ask it, by a memo of the tables, to send what they   *)
(* wrote; without a message for a minute it sends the node's report.  One  *)
(* message queue carries queries, received packets and the network stack's *)
(* confirmations, and while the thread waits for a confirmation it takes   *)
(* whatever comes first.                                                   *)
(*                                                                         *)
(* The network stack is external: it confirms every packet it accepted,    *)
(* and receives at most one packet after each of them (class A).           *)
(***************************************************************************)
EXTENDS Cbor, SequencesExt

CONSTANTS Self,          \* self_node_id
          Writers,       \* threads that write records of this node
          Puts,          \* records written by them, or merged from other nodes
          Downlinks,     \* messages the backend sends
          QueryMem,      \* memory for queries
          PacketMem,     \* packet buffer for received packets
          QUEUE_SIZE,
          MaxLog         \* bound: headers written to flash

ASSUME MateLorawanAssumption ==
  QUEUE_SIZE \in Nat \ {0} /\ MaxLog \in Nat /\ Self # NoId

(* A node puts reports, observations and encounters of its own             *)
(* (tables.c:138-275); commands and jobs come from others.  A downlink is a *)
(* sequence of items, none of which is the NULL pointer.                   *)
ASSUME PutsAssumption ==
  \A r \in Puts : IsRecord(r) /\ (r.writer = Self => r.type \notin {"command", "job"})
ASSUME DownlinksAssumption ==
  \A m \in Downlinks :
    DOMAIN m.items = 1 .. Len(m.items) /\ \A i \in DOMAIN m.items : m.items[i].v # NoId

VARIABLES log,      \* the flash log
          writer,   \* the writing threads
          qheap,    \* allocated queries
          packets,  \* allocated received packets
          queue,    \* _rx_msg_queue
          lw,       \* the LoRaWAN thread
          pending,  \* accepted packets that are not confirmed
          window,   \* a packet may be received
          offered   \* records handed to _send_lorawan_packet

vars == <<log, writer, qheap, packets, queue, lw, pending, window, offered>>

(* Mutant: the reports of all nodes are sent, as the TODO has in mind. *)
AnyReportsMutant == Query("report", NoId, NoId)

SelfReports  == Query("report", Self, NoId)
PeriodicQueries == <<SelfReports, SelfReports>>
MemoQuery    == Query("any", Self, NoId)
QueryMessage(mem, q) == [kind |-> "query", mem |-> {mem}, query |-> q]
Packet(mem, q) == [kind |-> "packet", mem |-> {mem}, query |-> q]
NetErr       == [kind |-> "neterr", mem |-> {}, query |-> MemoQuery]
WriterIdle   == [pc |-> "idle", rec |-> {}, msg |-> <<>>]
LwIdle       == [pc |-> "recv", todo |-> <<>>, mem |-> {}, it |-> IteratorInit(SelfReports, NoBuffer),
                 buf |-> {}]

Init ==
  /\ log = <<>>
  /\ writer = [w \in Writers |-> WriterIdle]
  /\ qheap = {} /\ packets = [p \in {} |-> NetErr] /\ queue = <<>>
  /\ lw = [LwIdle EXCEPT !.pc = "join"]
  /\ pending = 0 /\ window = FALSE /\ offered = {}
-----------------------------------------------------------------------------
(* A record is put; those of this node call _table_self_state_updated_cb,  *)
(* unless the put failed.  Nobody reads the signature here: a record that  *)
(* lacks only this is like any other.                                      *)
Put(w, r) ==
  /\ writer[w].pc = "idle" /\ Len(log) < MaxLog /\ MayPut(log, Self, r)
  /\ \/ /\ log' = LogPut(log, r, FALSE)
        /\ writer' = IF RecordMatchesQuery(r, MemoQuery)
                     THEN [writer EXCEPT ![w] = [WriterIdle EXCEPT !.pc = "memo", !.rec = {r}]]
                     ELSE writer
     \/ /\ log' \in {LogPut(log, r, FALSE)} \cup FailedPuts(log, r)
        /\ writer' = writer
  /\ UNCHANGED <<qheap, packets, queue, lw, pending, window, offered>>

(* Mutant: the message is queued without looking at the queue. *)
NoLimitMutant(w) ==
  /\ writer[w].pc = "memo"
  /\ IF lw.pc = "join" \/ qheap = QueryMem
     THEN writer' = [writer EXCEPT ![w] = WriterIdle] /\ UNCHANGED <<qheap, queue>>
     ELSE LET q == CHOOSE p \in QueryMem : p \notin qheap
              r == CHOOSE s \in writer[w].rec : TRUE
          IN  /\ qheap' = qheap \cup {q}
              /\ queue' = Append(queue, QueryMessage(q, Query(r.type, Self, NoId)))
              /\ writer' = [writer EXCEPT ![w] = WriterIdle]
  /\ UNCHANGED <<log, packets, lw, pending, window, offered>>

(* The callback: nothing while the node has not joined; otherwise malloc   *)
(* and msg_send of a query for records of that type, which blocks while    *)
(* the queue is full.                                                      *)
TableSelfStateUpdated(w) ==
  /\ writer[w].pc = "memo"
  /\ IF lw.pc = "join" \/ qheap = QueryMem
     THEN writer' = [writer EXCEPT ![w] = WriterIdle] /\ UNCHANGED <<qheap, queue>>
     ELSE LET q == CHOOSE p \in QueryMem : p \notin qheap
              r == CHOOSE s \in writer[w].rec : TRUE
              m == QueryMessage(q, Query(r.type, Self, NoId))
          IN  /\ qheap' = qheap \cup {q}
              /\ IF Len(queue) < QUEUE_SIZE
                 THEN queue' = Append(queue, m) /\ writer' = [writer EXCEPT ![w] = WriterIdle]
                 ELSE /\ queue' = queue
                      /\ writer' = [writer EXCEPT ![w] = [WriterIdle EXCEPT !.pc = "blocked", !.msg = <<m>>]]
  /\ UNCHANGED <<log, packets, lw, pending, window, offered>>

(* msg_receive: the message of a blocked sender takes the place. *)
Take ==
  IF \E w \in Writers : writer[w].pc = "blocked"
  THEN \E w \in {v \in Writers : writer[v].pc = "blocked"} :
         queue' = Tail(queue) \o writer[w].msg /\ writer' = [writer EXCEPT ![w] = WriterIdle]
  ELSE queue' = Tail(queue) /\ writer' = writer
-----------------------------------------------------------------------------
(* _join_lorawan_network succeeds, after any number of attempts; the       *)
(* thread registers and sets its pid.                                      *)
Join ==
  /\ lw.pc = "join"
  /\ lw' = LwIdle
  /\ UNCHANGED <<log, writer, qheap, packets, queue, pending, window, offered>>

Iterate(q, rest, mem) ==
  [LwIdle EXCEPT !.pc = "next", !.todo = rest, !.mem = mem, !.it = IteratorInit(q, NoBuffer)]

(* mate_lorawan_thread receives a query ... *)
ReceiveQuery ==
  /\ lw.pc = "recv" /\ queue # <<>> /\ Head(queue).kind = "query"
  /\ lw' = Iterate(Head(queue).query, <<>>, Head(queue).mem)
  /\ Take
  /\ UNCHANGED <<log, qheap, packets, pending, window, offered>>

(* ... or a confirmation nobody waits for any more ... *)
ReceiveOther ==
  /\ lw.pc = "recv" /\ queue # <<>> /\ Head(queue).kind = "neterr"
  /\ lw' = lw
  /\ Take
  /\ UNCHANGED <<log, qheap, packets, pending, window, offered>>

(* Mutant: after the interval the thread only waits again. *)
NothingPeriodicMutant ==
  /\ lw.pc = "recv" /\ queue = <<>>
  /\ UNCHANGED vars

(* ... or no message for the periodic send interval. *)
Timeout ==
  /\ lw.pc = "recv" /\ queue = <<>>
  /\ lw' = Iterate(Head(PeriodicQueries), Tail(PeriodicQueries), {})
  /\ UNCHANGED <<log, writer, qheap, packets, queue, pending, window, offered>>

(* Mutant: the signature of a record that has none is not verified. *)
UnsignedMutant(r) == r.sig.len = 0 \/ r.sig.by = r.writer

(* verify_record in tables_merge_record; the keys of all writers are known.*)
Verified(r) == r.sig.len > 0 /\ r.sig.by = r.writer

(* Mutant: an error returns before the packet is released. *)
EarlyReturnMutant ==
  /\ lw.pc = "recv" /\ queue # <<>> /\ Head(queue).kind = "packet"
  /\ log' = log /\ packets' = packets
  /\ lw' = lw
  /\ Take
  /\ UNCHANGED <<qheap, pending, window, offered>>

(* _handle_received_packet: no buffer is given for the signature.  The     *)
(* packet is released.                                                     *)
ReceivePacket ==
  /\ lw.pc = "recv" /\ queue # <<>> /\ Head(queue).kind = "packet"
  /\ \E p \in Head(queue).mem :
       LET new == {r \in DeserializeRecord(packets[p], NoBuffer) :
                     /\ \A i \in Live(log, RecordKey(r)) : Supersedes(r, log[i].rec)
                     /\ Verified(r)}
       IN  /\ log' = IF new = {} \/ Len(log) >= MaxLog THEN log
                     ELSE LogPut(log, CHOOSE r \in new : TRUE, FALSE)
           /\ packets' = [q \in DOMAIN packets \ {p} |-> packets[q]]
  /\ lw' = lw
  /\ Take
  /\ UNCHANGED <<qheap, pending, window, offered>>
-----------------------------------------------------------------------------
(* mate_lorawan_send_query_matches: the next record, serialised without    *)
(* its signature; records without an encoding are skipped.  In the end the *)
(* query is freed.                                                         *)
NextRecord ==
  /\ lw.pc = "next"
  /\ LET it  == IteratorNext(log, lw.it)
         buf == UNION {SerializeRecord(r, FALSE, RecordBuffer) : r \in it.rec}
     IN  IF it.rec # {}
         THEN /\ lw' = [lw EXCEPT !.it = it, !.buf = buf, !.pc = IF buf = {} THEN "next" ELSE "send"]
              /\ UNCHANGED qheap
         ELSE IF lw.todo # <<>>
         THEN lw' = Iterate(Head(lw.todo), Tail(lw.todo), lw.mem) /\ UNCHANGED qheap
         ELSE lw' = LwIdle /\ qheap' = qheap \ lw.mem
  /\ UNCHANGED <<log, writer, packets, queue, pending, window, offered>>

(* Mutant: a packet that cannot be sent is tried again. *)
RetryMutant ==
  /\ lw.pc = "send"
  /\ offered' = offered \cup lw.it.rec
  /\ \/ /\ pending < QUEUE_SIZE
        /\ pending' = pending + 1
        /\ lw' = [lw EXCEPT !.pc = "confirm", !.buf = {}]
     \/ UNCHANGED <<lw, pending>>
  /\ UNCHANGED <<log, writer, qheap, packets, queue, window>>

(* _send_lorawan_packet up to the confirmation: the stack accepts the      *)
(* packet, or some step fails.  Releasing a packet that was registered for *)
(* error reports may put one into the thread's own queue.                  *)
SendPacket ==
  /\ lw.pc = "send"
  /\ offered' = offered \cup lw.it.rec
  /\ \/ /\ pending < QUEUE_SIZE
        /\ pending' = pending + 1 /\ queue' = queue
        /\ lw' = [lw EXCEPT !.pc = "confirm", !.buf = {}]
     \/ /\ queue' \in {queue, IF Len(queue) < QUEUE_SIZE THEN Append(queue, NetErr) ELSE queue}
        /\ pending' = pending
        /\ lw' = [lw EXCEPT !.pc = "next", !.buf = {}]
  /\ UNCHANGED <<log, writer, qheap, packets, window>>

(* The wait for the confirmation takes any message.  A query or a packet   *)
(* is not handled, nor freed.                                              *)
AwaitConfirmation ==
  /\ lw.pc = "confirm" /\ queue # <<>>
  /\ lw' = [lw EXCEPT !.pc = "next"]
  /\ Take
  /\ UNCHANGED <<log, qheap, packets, pending, window, offered>>
-----------------------------------------------------------------------------
(* The network stack reports the end of a transmission, waiting for room   *)
(* in the queue, and then listens.                                         *)
Confirm ==
  /\ pending > 0 /\ Len(queue) < QUEUE_SIZE
  /\ queue' = Append(queue, NetErr)
  /\ pending' = pending - 1
  /\ window' = TRUE
  /\ UNCHANGED <<log, writer, qheap, packets, lw, offered>>

(* A packet is received; the stack drops it when the queue is full. *)
Downlink(m) ==
  /\ window /\ DOMAIN packets # PacketMem
  /\ window' = FALSE
  /\ IF Len(queue) < QUEUE_SIZE
     THEN LET p == CHOOSE q \in PacketMem : q \notin DOMAIN packets
          IN  /\ packets' = [q \in DOMAIN packets \cup {p} |-> IF q = p THEN m ELSE packets[q]]
              /\ queue' = Append(queue, Packet(p, MemoQuery))
     ELSE UNCHANGED <<packets, queue>>
  /\ UNCHANGED <<log, writer, qheap, lw, pending, offered>>
-----------------------------------------------------------------------------
LwStep == ReceiveQuery \/ ReceiveOther \/ ReceivePacket \/ Timeout
            \/ NextRecord \/ SendPacket \/ AwaitConfirmation

Next ==
  \/ \E w \in Writers, r \in Puts : Put(w, r)
  \/ \E w \in Writers : TableSelfStateUpdated(w)
  \/ Join
  \/ ReceiveQuery \/ ReceiveOther \/ ReceivePacket \/ Timeout
  \/ NextRecord \/ SendPacket \/ AwaitConfirmation
  \/ Confirm
  \/ \E m \in Downlinks : Downlink(m)

(* The thread is scheduled and its timer expires; the network lets the     *)
(* node join, and the stack confirms what it accepted.                     *)
Spec == Init /\ [][Next]_vars /\ WF_vars(LwStep) /\ WF_vars(Join) /\ WF_vars(Confirm)
-----------------------------------------------------------------------------
TypeOK ==
  /\ Len(log) <= MaxLog /\ Len(queue) <= QUEUE_SIZE
  /\ qheap \subseteq QueryMem /\ DOMAIN packets \subseteq PacketMem
  /\ pending \in 0 .. QUEUE_SIZE
  /\ \A w \in Writers : writer[w].pc \in {"idle", "memo", "blocked"}
  /\ lw.pc \in {"join", "recv", "next", "send", "confirm"}

InUse(kind) ==
  (UNION {m.mem : m \in {n \in ToSet(queue) \cup UNION {ToSet(writer[w].msg) : w \in Writers} :
                           n.kind = kind}})
    \cup (IF kind = "query" THEN lw.mem ELSE {})

(* Queries and packets leave the hands of the threads only by being freed, *)
(* except when they are taken for a confirmation (mate_lorawan.c:248-252,  *)
(* 313, 373).                                                              *)
MemoryFreed ==
  [][/\ \A q \in InUse("query") \ InUse("query")' : q \in qheap' => lw.pc = "confirm"
     /\ \A p \in InUse("packet") \ InUse("packet")' : p \in DOMAIN packets' => lw.pc = "confirm"
    ]_vars

(* What is held was put by a writing thread or came by a downlink with the *)
(* signature its writer made (tables.c:380, mate_lorawan.c:352).           *)
Received(m) == DeserializeRecord(m, 80)
SignedDownlinks ==
  {r \in UNION {Received(m) : m \in Downlinks} : r.sig.len > 0 /\ r.sig.by = r.writer}
DownlinkVerified ==
  \A h \in HeldRecords(log) : \E r \in Puts \cup SignedDownlinks : SameHeader(h, r)

(* A job or a command the backend sends, signed by its writer and newer    *)
(* than what is held, is in the table when its packet has been handled     *)
(* (mate_lorawan.c:360-363).                                               *)
DownlinkMerged ==
  [][\A p \in DOMAIN packets \ DOMAIN packets' : \A r \in Received(packets[p]) \cap SignedDownlinks :
       \/ \E i \in Live(log, RecordKey(r)) : ~Supersedes(r, log[i].rec)
       \/ Len(log) = MaxLog
       \/ \E h \in HeldRecords(log') : SameHeader(h, r)]_vars

(* Only records this node wrote are offered to the network, although the   *)
(* table holds those of other nodes (mate_lorawan.c:292).                  *)
OwnUplinksOnly == \A r \in offered : r.writer = Self

(* The report of the node is offered to the network or replaced by a newer *)
(* one, even if its query was lost or was never queued                     *)
(* (mate_lorawan.c:303-317).                                               *)
Readable(r) == \E i \in DOMAIN log : log[i].live /\ ~log[i].torn /\ log[i].rec = r
ReportsSent ==
  \A r \in {p \in Puts : p.type = "report" /\ p.writer = Self} :
    Readable(r) ~>
      (~Readable(r) \/ \E s \in offered : RecordKey(s) = RecordKey(r) /\ s.seq = r.seq)

(* A thread that writes a record is not held up for ever by the queue      *)
(* (mate_lorawan.c:435).                                                   *)
CallersReturn == \A w \in Writers : writer[w].pc = "blocked" ~> writer[w].pc = "idle"
=============================================================================
