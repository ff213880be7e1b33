----------------------------- MODULE MateBleTx -----------------------------
(***************************************************************************)
(* The BLE transmit thread of one node (mate_ble.c): on a query, or at the *)
(* end of the send interval, it broadcasts the selected records, one       *)
(* advertisement at a time.  The completion of an advertisement is         *)
(* reported by the NimBLE host thread, which the scan callback may block   *)
(* for any time (HostReturns of module MateBleRx): the event may come late.*)
(*                                                                         *)
(* The table is the flash log of TableRecords; other threads put records   *)
(* while the iteration runs.  The gate observer of senseGate posts the     *)
(* queries.                                                                *)
(***************************************************************************)
EXTENDS Cbor, SequencesExt

CONSTANTS Self,          \* self_node_id
          OwnIdentity,   \* the node's signed identity
          Puts,          \* records other threads put or merge
          QueryMem,      \* memory for queries
          TxQueueSize,   \* TX_MSG_QUEUE_SIZE
          MaxLog,        \* bound: headers written to flash
          MaxEvents      \* bound: ADV_COMPLETE events waiting for the host

ASSUME MateBleTxAssumption ==
  TxQueueSize \in Nat \ {0} /\ MaxLog \in Nat /\ MaxEvents \in Nat
ASSUME PutsAssumption == \A r \in Puts : IsRecord(r)

VARIABLES log,     \* the flash log
          poster,  \* the thread of the gate observer
          qheap,   \* allocated queries
          txq,     \* tx_msg_queue
          tx,      \* the transmit thread
          mutex,   \* adv_done_mutex is locked
          adv,     \* the advertising instance of the controller
          done     \* ADV_COMPLETE events the host thread has not handled

vars == <<log, poster, qheap, txq, tx, mutex, adv, done>>

SendAll == Query("any", NoId, NoId)
OwnReportQuery == Query("report", Self, NoId)
Capacity == 80
TxIdle == [pc |-> "recv", q |-> {}, it |-> IteratorInit(SendAll, Capacity), buf |-> {},
           id |-> FALSE, timedOut |-> FALSE, due |-> {}, sent |-> {}]

Init ==
  /\ log = <<>>
  /\ poster = [pc |-> "idle", q |-> {}]
  /\ qheap = {} /\ txq = <<>>
  /\ tx = TxIdle
  /\ mutex = FALSE /\ done = 0
  /\ adv = [on |-> FALSE, aired |-> FALSE]
-----------------------------------------------------------------------------
(* malloc, of any memory that is free. *)
Malloc(all, used) == CHOOSE p \in all : p \notin used

PutOutcomes(r) == {LogPut(log, r, FALSE)} \cup FailedPuts(log, r)
-----------------------------------------------------------------------------
(* Another thread puts a record of its own or merges one. *)
OtherPut(r) ==
  /\ Len(log) < MaxLog /\ MayPut(log, Self, r)
  /\ log' \in PutOutcomes(r)
  /\ UNCHANGED <<poster, qheap, txq, tx, mutex, adv, done>>

(* gate_observer_state_change_cb: tables_put_gate_report ... *)
PutReport(r) ==
  /\ poster.pc = "idle" /\ Len(log) < MaxLog /\ MayPut(log, Self, r)
  /\ r.type = "report" /\ r.writer = Self
  /\ log' \in PutOutcomes(r)
  /\ poster' = [pc |-> "post", q |-> {}]
  /\ UNCHANGED <<qheap, txq, tx, mutex, adv, done>>

(* Mutant: the message is queued without looking at the queue. *)
NoLimitMutant ==
  /\ poster.pc = "post"
  /\ IF qheap = QueryMem
     THEN poster' = [pc |-> "idle", q |-> {}] /\ UNCHANGED <<qheap, txq>>
     ELSE LET q == Malloc(QueryMem, qheap)
          IN  /\ qheap' = qheap \cup {q}
              /\ txq' = Append(txq, q) /\ poster' = [pc |-> "idle", q |-> {}]
  /\ UNCHANGED <<log, tx, mutex, adv, done>>

(* ... and a query for the transmit thread: malloc, msg_send, which blocks *)
(* while the queue is full.                                                *)
PostQuery ==
  /\ poster.pc = "post"
  /\ IF qheap = QueryMem
     THEN poster' = [pc |-> "idle", q |-> {}] /\ UNCHANGED <<qheap, txq>>
     ELSE LET q == Malloc(QueryMem, qheap)
          IN  /\ qheap' = qheap \cup {q}
              /\ IF Len(txq) < TxQueueSize
                 THEN txq' = Append(txq, q) /\ poster' = [pc |-> "idle", q |-> {}]
                 ELSE txq' = txq /\ poster' = [pc |-> "blocked", q |-> {q}]
  /\ UNCHANGED <<log, tx, mutex, adv, done>>

(* mateble_send_query_matches begins. *)
Sweep(query, q) ==
  tx' = [TxIdle EXCEPT !.pc = "next", !.q = q, !.it = IteratorInit(query, Capacity),
           !.due = {RecordKey(r) : r \in {h \in HeldRecords(log) :
                      RecordMatchesQuery(h, query) /\ SerializeRecord(h, TRUE, RecordBuffer) # {}}}]

(* ble_tx_thread receives a query; a blocked sender's takes its place. *)
TxReceive ==
  /\ tx.pc = "recv" /\ txq # <<>>
  /\ Sweep(OwnReportQuery, {Head(txq)})
  /\ txq' = Tail(txq) \o SetToSeq(poster.q)
  /\ poster' = IF poster.pc = "blocked" THEN [pc |-> "idle", q |-> {}] ELSE poster
  /\ UNCHANGED <<log, qheap, mutex, adv, done>>

(* The send interval ends without a message: everything is sent. *)
TxInterval ==
  /\ tx.pc = "recv" /\ txq = <<>>
  /\ Sweep(SendAll, {})
  /\ UNCHANGED <<log, poster, qheap, txq, mutex, adv, done>>

(* tables_iterator_next and the serialisation of _send_record; a record    *)
(* that cannot be serialised is skipped.                                   *)
TxNext ==
  /\ tx.pc = "next"
  /\ LET it  == IteratorNext(log, tx.it)
         buf == UNION {SerializeRecord(r, TRUE, RecordBuffer) : r \in it.rec}
     IN  tx' = [tx EXCEPT !.it = it, !.buf = buf,
                  !.pc = IF it.rec = {} THEN "id" ELSE IF buf = {} THEN "next" ELSE "lock",
                  !.sent = @ \cup {RecordKey(r) : r \in {s \in it.rec : buf # {}}}]
  /\ UNCHANGED <<log, poster, qheap, txq, mutex, adv, done>>

(* _send_id_res; reading the identity may fail. *)
TxIdentity ==
  /\ tx.pc = "id"
  /\ \E buf \in {{}, SerializeIdReqres("id_response", OwnIdentity, IdBuffer)} :
       tx' = [tx EXCEPT !.buf = buf, !.id = TRUE, !.pc = IF buf = {} THEN "free" ELSE "lock"]
  /\ UNCHANGED <<log, poster, qheap, txq, mutex, adv, done>>

(* Mutant: only the queries that found something are freed. *)
FreeSentMutant ==
  /\ tx.pc = "free"
  /\ qheap' = IF tx.sent = {} THEN qheap ELSE qheap \ tx.q
  /\ tx' = TxIdle
  /\ UNCHANGED <<log, poster, txq, mutex, adv, done>>

(* The end of the round: a received query is freed. *)
TxFree ==
  /\ tx.pc = "free"
  /\ qheap' = qheap \ tx.q
  /\ tx' = TxIdle
  /\ UNCHANGED <<log, poster, txq, mutex, adv, done>>
-----------------------------------------------------------------------------
(* _ble_send: lock the mutex, start_adv one advertising event.  No          *)
(* advertisement is running here: TxStop has stopped the one before.       *)
TxStart ==
  /\ tx.pc = "lock" /\ ~mutex
  /\ mutex' = TRUE
  /\ adv' = [on |-> TRUE, aired |-> FALSE]
  /\ tx' = [tx EXCEPT !.pc = "wait"]
  /\ UNCHANGED <<log, poster, qheap, txq, done>>

(* ... wait for the callback to unlock the mutex ... *)
TxWait ==
  /\ tx.pc = "wait" /\ ~mutex
  /\ mutex' = TRUE
  /\ tx' = [tx EXCEPT !.pc = "stop", !.timedOut = FALSE]
  /\ UNCHANGED <<log, poster, qheap, txq, adv, done>>

(* Mutant: there is no timeout. *)
NoTimeoutMutant ==
  /\ tx.pc = "wait" /\ mutex /\ FALSE
  /\ tx' = [tx EXCEPT !.pc = "stop", !.timedOut = TRUE]
  /\ UNCHANGED <<log, poster, qheap, txq, mutex, adv, done>>

(* ... or for the timeout ... *)
TxTimeout ==
  /\ tx.pc = "wait" /\ mutex
  /\ tx' = [tx EXCEPT !.pc = "stop", !.timedOut = TRUE]
  /\ UNCHANGED <<log, poster, qheap, txq, mutex, adv, done>>

(* ... stop the advertisement and leave the mutex unlocked. *)
TxStop ==
  /\ tx.pc = "stop"
  /\ adv' = [adv EXCEPT !.on = FALSE]
  /\ mutex' = FALSE
  /\ tx' = [tx EXCEPT !.pc = IF tx.id THEN "free" ELSE "next", !.buf = {}, !.timedOut = FALSE]
  /\ UNCHANGED <<log, poster, qheap, txq, done>>

(* The controller sends the advertisement and, unless it fails to, reports *)
(* the end to the host.                                                    *)
Air ==
  /\ adv.on /\ ~adv.aired
  /\ adv' = [on |-> FALSE, aired |-> TRUE]
  /\ done' \in {done, IF done < MaxEvents THEN done + 1 ELSE done}
  /\ UNCHANGED <<log, poster, qheap, txq, tx, mutex>>

(* ble_gap_event_cb, in the host thread, which a full receive queue blocks. *)
AdvComplete ==
  /\ done > 0
  /\ done' = done - 1
  /\ mutex' = FALSE
  /\ UNCHANGED <<log, poster, qheap, txq, tx, adv>>
-----------------------------------------------------------------------------
TxStep == TxReceive \/ TxInterval \/ TxNext \/ TxIdentity \/ TxFree
            \/ TxStart \/ TxWait \/ TxTimeout \/ TxStop

Next ==
  \/ \E r \in Puts : OtherPut(r) \/ PutReport(r)
  \/ PostQuery
  \/ TxReceive \/ TxInterval \/ TxNext \/ TxIdentity \/ TxFree
  \/ TxStart \/ TxWait \/ TxTimeout \/ TxStop
  \/ Air \/ AdvComplete

(* The thread is scheduled (only NimBLE runs above it) and the timer of    *)
(* its wait expires.  Nothing is assumed of the controller and the host.   *)
Spec == Init /\ [][Next]_vars /\ WF_vars(TxStep)
-----------------------------------------------------------------------------
TypeOK ==
  /\ Len(log) <= MaxLog /\ Len(txq) <= TxQueueSize
  /\ qheap \subseteq QueryMem
  /\ tx.pc \in {"recv", "next", "id", "lock", "wait", "stop", "free"}
  /\ mutex \in BOOLEAN /\ adv \in [on : BOOLEAN, aired : BOOLEAN] /\ done \in 0 .. MaxEvents

(* Every allocated query is with its sender, in the queue or with the      *)
(* transmit thread, which frees it (mate_ble.c:546-548).                   *)
QueriesOwned ==
  qheap = {txq[i] : i \in DOMAIN txq} \cup poster.q \cup tx.q

(* A round of the transmit thread reaches every record that matched its    *)
(* query when it began, also when records are replaced meanwhile; it ends  *)
(* early only at a record whose put failed (tables.c:496-526).             *)
SweepComplete ==
  tx.pc = "id" =>
    /\ tx.it.state = "done" => tx.due \subseteq tx.sent
    /\ tx.it.state = "error" => log[tx.it.pos].torn

(* What the node advertises is no encounter (mate_ble.c:434), and every    *)
(* other node decodes it to a record with the same key, or cannot decode   *)
(* it because of its timestamp.                                            *)
AdvertisedIsDecoded ==
  \A m \in tx.buf, r \in tx.it.rec :
    ~tx.id =>
      /\ r.type \notin {"gate_encounter", "mate_encounter"}
      /\ \/ DeserializeRecord(m, Capacity) = {r}
         \/ Uint32Max \in {r.ts.physical, r.ts.logical}

(* The next three are about the encoding alone and judged at the start.    *)
(* Every record a node can store can be serialised, with its signature     *)
(* into MAX_SERIALIZED_RECORD_SIZE (mate_ble.c:72, 431), and without it    *)
(* into the buffer of the LoRaWAN thread (mate_lorawan.c:381).             *)
RecordsFit ==
  Init => \A r \in SampleRecords : /\ SerializeRecord(r, TRUE, RecordBuffer) # {}
                                   /\ SerializeRecord(r, FALSE, RecordBuffer) # {}

(* Records survive encoding and decoding, whichever integers they hold, if *)
(* their timestamp is below the largest 32-bit value (decode_record.c:58,  *)
(* 85).                                                                    *)
RecordRoundTrip ==
  Init => \A r \in SampleRecords :
            Uint32Max \notin {r.ts.physical, r.ts.logical} => RoundTrips(r)

(* The same for identities: what one node announces another one stores and *)
(* later reads back from its file (cbor_serialization.c:396-527).          *)
IdentityRoundTrip ==
  Init => \A kid, key \in SampleIds : IdentityRoundTrips([kid |-> kid, key |-> key], key)

(* A round of the transmit thread ends, even if an ADV_COMPLETE event is   *)
(* lost or comes late (mate_ble.c:407-412).                                *)
RoundEnds == tx.pc # "recv" ~> tx.pc = "recv"

(* An advertisement is stopped only when it was sent or its wait timed out *)
(* (mate_ble.c:127-130).                                                   *)
StoppedWhenDone == tx.pc = "stop" => tx.timedOut \/ adv.aired
=============================================================================
