------------------------------ MODULE MateBleRx ------------------------------
(***************************************************************************)
(* The receive side of the BLE gossip of one node (mate_ble.c): the scan   *)
(* callback in the NimBLE host thread hands marked payloads to the receive *)
(* thread, which merges records into the table and learns the identities   *)
(* other nodes announce.                                                   *)
(*                                                                         *)
(* The neighbours are the environment: any message of Incoming may arrive  *)
(* at any time.  The table is the set of its entries; how concurrent       *)
(* writers interleave on it is in module Tables.  Start-up, files and keys *)
(* are those of IdentityStore.                                             *)
(***************************************************************************)
EXTENDS IdentityStore

CONSTANTS Incoming,      \* [msg, mate]: payloads in the air, mate the SenseMate named
          Descriptor,    \* memory for payload descriptors and their buffers
          RxQueueSize    \* RX_MSG_QUEUE_SIZE

ASSUME MateBleRxAssumption ==
  RxQueueSize \in Nat \ {0}

(* A signature is the kid and the key of its signer, and no root signs     *)
(* another key under its own kid.                                          *)
ASSUME IncomingAssumption ==
  \A m \in Incoming : \A s \in DeserializeIdReqres(m.msg) :
    /\ s.signature = [kid |-> s.signature.kid, key |-> s.signature.key]
    /\ \A d \in Provisionings : \A p \in DeserializeProvisioningData(d) :
         s.signature = [kid |-> RootKid, key |-> p.root.key] =>
           \A i \in DeserializeIdentity(s.pubid) : i.kid # RootKid

VARIABLES rxUp,   \* _ble_receive_pid is set
          heap,   \* allocated descriptors with their buffers
          host,   \* message with which the scan callback is blocked in msg_send
          rxq,    \* rx_msg_queue
          rx,     \* the receive thread
          table   \* the entries [rec, torn]; torn: never put completely

rxVars == <<rxUp, heap, host, rxq, rx, table>>
vars   == <<idVars, rxVars>>

Capacity == 80
RxIdle   == [pc |-> "recv", pd |-> {}, rec |-> {}, mate |-> NoId, id |-> {}]

Init ==
  /\ IdInit
  /\ rxUp = FALSE /\ heap = {} /\ host = <<>> /\ rxq = <<>> /\ rx = RxIdle /\ table = {}

(* A power cycle: only the flash files survive. *)
Restart ==
  /\ IdRestart
  /\ rxUp' = FALSE /\ heap' = {} /\ host' = <<>> /\ rxq' = <<>> /\ rx' = RxIdle /\ table' = {}
-----------------------------------------------------------------------------
(* ble_rx_thread starts; before, msg_send to KERNEL_PID_UNDEF fails and    *)
(* the scan callback frees what it allocated.                              *)
RxStart ==
  /\ boot.mode = "run" /\ ~rxUp
  /\ rxUp' = TRUE
  /\ UNCHANGED <<idVars, heap, host, rxq, rx, table>>

(* malloc, of any memory that is free. *)
Malloc(used) == CHOOSE p \in Descriptor : p \notin used

(* Mutant: the buffers are freed when msg_send would have to wait. *)
FreeBlockedMutant(m) ==
  /\ host = <<>> /\ rxUp /\ Descriptor # heap
  /\ LET p == Malloc(heap)
         d == [mem |-> p, msg |-> m.msg, mate |-> m.mate]
     IN  IF Len(rxq) < RxQueueSize
         THEN rxq' = Append(rxq, d) /\ host' = host /\ heap' = heap \cup {p}
         ELSE host' = <<d>> /\ rxq' = rxq /\ heap' = heap
  /\ UNCHANGED <<idVars, rxUp, rx, table>>

(* nimble_scan_evt_cb with a marked payload: allocate, copy, msg_send.  A  *)
(* full queue blocks the host thread in the callback.  Without memory the  *)
(* packet is dropped, which changes nothing.                               *)
Scan(m) ==
  /\ host = <<>> /\ rxUp /\ Descriptor # heap
  /\ LET p == Malloc(heap)
         d == [mem |-> p, msg |-> m.msg, mate |-> m.mate]
     IN  /\ heap' = heap \cup {p}
         /\ IF Len(rxq) < RxQueueSize
            THEN rxq' = Append(rxq, d) /\ host' = host
            ELSE host' = <<d>> /\ rxq' = rxq
  /\ UNCHANGED <<idVars, rxUp, rx, table>>

(* Mutant: the message of a blocked sender is lost. *)
LostSenderMutant ==
  /\ rx.pc = "recv" /\ rxq # <<>>
  /\ rx' = [rx EXCEPT !.pc = "dispatch", !.pd = {Head(rxq)}]
  /\ rxq' = Tail(rxq)
  /\ UNCHANGED <<idVars, rxUp, heap, host, table>>

(* msg_receive; a blocked sender's message takes the place in the queue. *)
RxReceive ==
  /\ rx.pc = "recv" /\ rxq # <<>>
  /\ rx' = [rx EXCEPT !.pc = "dispatch", !.pd = {Head(rxq)}]
  /\ rxq' = Tail(rxq) \o host
  /\ host' = <<>>
  /\ UNCHANGED <<idVars, rxUp, heap, table>>
-----------------------------------------------------------------------------
(* Mutant: a record that is not merged keeps its buffers. *)
EarlyReturnMutant(m) ==
  /\ rx.pc = "dispatch" /\ VersionInfo(m.msg) = {MessageCode.record}
  /\ LET recs == {r \in DeserializeRecord(m.msg, Capacity) : r.writer # boot.id}
     IN  /\ heap' = IF recs = {} THEN heap ELSE heap \ {m.mem}
         /\ rx' = IF recs = {} THEN RxIdle
                  ELSE [RxIdle EXCEPT !.pc = "merge", !.rec = recs, !.mate = m.mate]
  /\ UNCHANGED <<idVars, rxUp, host, rxq, table>>

(* _handle_record up to tables_merge_record: the record is decoded and its *)
(* buffers are freed; the node's own records are ignored.                  *)
RxRecord(m) ==
  /\ rx.pc = "dispatch" /\ VersionInfo(m.msg) = {MessageCode.record}
  /\ LET recs == {r \in DeserializeRecord(m.msg, Capacity) : r.writer # boot.id}
     IN  rx' = IF recs = {} THEN RxIdle
               ELSE [RxIdle EXCEPT !.pc = "merge", !.rec = recs, !.mate = m.mate]
  /\ heap' = heap \ {m.mem}
  /\ UNCHANGED <<idVars, rxUp, host, rxq, table>>

(* Mutant: the signature of the root is not verified. *)
NoVerifyMutant(m) ==
  /\ rx.pc = "dispatch" /\ VersionInfo(m.msg) = {MessageCode.id_response}
  /\ LET new == {s \in DeserializeIdReqres(m.msg) :
                   \E i \in DeserializeIdentity(s.pubid) :
                     i.key \notin GetKey(keys, "public", i.kid)}
     IN  rx' = IF new = {} THEN RxIdle ELSE [RxIdle EXCEPT !.pc = "add", !.id = new]
  /\ UNCHANGED <<idVars, rxUp, heap, host, rxq, table>>

(* _handle_id_res up to credential_manager_add_key: signed by the root,    *)
(* and not the key the node knows already.  Nothing is freed.              *)
RxIdentity(m) ==
  /\ rx.pc = "dispatch" /\ VersionInfo(m.msg) = {MessageCode.id_response}
  /\ LET new == {s \in DeserializeIdReqres(m.msg) :
                   /\ CryptoVerify(RootKid, s.signature)
                   /\ \E i \in DeserializeIdentity(s.pubid) :
                        i.key \notin GetKey(keys, "public", i.kid)}
     IN  rx' = IF new = {} THEN RxIdle ELSE [RxIdle EXCEPT !.pc = "add", !.id = new]
  /\ UNCHANGED <<idVars, rxUp, heap, host, rxq, table>>

(* Messages of another type or version are dropped and not freed. *)
RxOther(m) ==
  /\ rx.pc = "dispatch"
  /\ VersionInfo(m.msg) \notin {{MessageCode.record}, {MessageCode.id_response}}
  /\ rx' = RxIdle
  /\ UNCHANGED <<idVars, rxUp, heap, host, rxq, table>>

Learned == CHOOSE i \in UNION {DeserializeIdentity(s.pubid) : s \in rx.id} : TRUE

(* credential_manager_add_key, which may fail; then                        *)
(* add_signed_public_identity, which refuses other device types, opens ... *)
RxAddKey ==
  /\ rx.pc = "add"
  /\ \/ /\ keys' = AddKey(keys, "public", Learned)
        /\ rx' = IF Learned.kid \in Gates \cup Mates THEN [rx EXCEPT !.pc = "open"] ELSE RxIdle
     \/ keys' = keys /\ rx' = RxIdle
  /\ UNCHANGED <<dirs, self, valid, boot, setup, cmd, rxUp, heap, host, rxq, table>>

(* ... and writes the file of the node. *)
RxOpenFile ==
  /\ rx.pc = "open"
  /\ \/ /\ "valid" \in dirs
        /\ valid' = Opened(valid, Learned.kid)
        /\ rx' = [rx EXCEPT !.pc = "close"]
     \/ valid' = valid /\ rx' = RxIdle
  /\ UNCHANGED <<dirs, self, keys, boot, setup, cmd, rxUp, heap, host, rxq, table>>

RxCloseFile ==
  /\ rx.pc = "close"
  /\ \/ \E s \in rx.id : \E m \in SerializeSignedPublicIdentity(s, MAX_IDENTITY_SIZE) :
          valid' = Closed(valid, Learned.kid, m)
     \/ valid' = valid
  /\ rx' = RxIdle
  /\ UNCHANGED <<dirs, self, keys, boot, setup, cmd, rxUp, heap, host, rxq, table>>
-----------------------------------------------------------------------------
HeldUnder(k)  == {e \in table : RecordKey(e.rec) = k}
Stored(t, r, torn) == {e \in t : RecordKey(e.rec) # RecordKey(r)} \cup {[rec |-> r, torn |-> torn]}

(* put_record_in_store: done, failed at the header, or failed behind it,   *)
(* over an entry of the key that was whole, or over none.                  *)
PutOutcomes(t, r) ==
  LET old == {e.rec : e \in {h \in t : RecordKey(h.rec) = RecordKey(r) /\ ~h.torn}}
  IN  {Stored(t, r, FALSE), t}
        \cup IF old = {} THEN {Stored(t, r, TRUE)}
             ELSE {Stored(t, x, FALSE) : x \in UNION {Mixed(r, o) : o \in old}}

(* tables_put_mate_encounter for the SenseMate that sent the record.  Its  *)
(* number and time do not matter here.                                     *)
Encountered(t, mate) ==
  {t} \cup IF mate = NoId \/ CryptoSign(boot.id) = {} THEN {}
           ELSE PutOutcomes(t, MateEncounter(boot.id, 0, [physical |-> 0, logical |-> 0], mate))

(* Mutant: a record without a signature is not verified. *)
UnsignedMutant(r) ==
  CASE \E e \in HeldUnder(RecordKey(r)) : ~Supersedes(r, e.rec) -> "old"
    [] r.sig.len > 0 /\ (r.sig.by # r.writer \/ GetKey(keys, "public", r.writer) = {}) -> "rejected"
    [] OTHER -> "merge"

(* tables_merge_record up to the store: not newer, not verified, or taken. *)
MergeVerdict(r) ==
  IF \E e \in HeldUnder(RecordKey(r)) : ~Supersedes(r, e.rec) THEN "old"
  ELSE IF r.sig.len = 0 \/ r.sig.by # r.writer \/ GetKey(keys, "public", r.writer) = {}
  THEN "rejected" ELSE "merge"

(* _handle_record from tables_merge_record on.  The clock may refuse the   *)
(* timestamp, which ends like a failed put; both count as "no updates".    *)
(* The events posted on a SenseMate only refresh its display.              *)
RxMerge ==
  /\ rx.pc = "merge"
  /\ \E r \in rx.rec :
       CASE MergeVerdict(r) = "rejected" -> table' = table
         [] MergeVerdict(r) = "old"      -> table' \in Encountered(table, rx.mate)
         [] MergeVerdict(r) = "merge"    ->
              \E t \in PutOutcomes(table, r) : table' \in Encountered(t, rx.mate)
  /\ rx' = RxIdle
  /\ UNCHANGED <<idVars, rxUp, heap, host, rxq>>
-----------------------------------------------------------------------------
RxStep ==
  \/ RxReceive
  \/ \E m \in rx.pd : RxRecord(m) \/ RxIdentity(m) \/ RxOther(m)
  \/ RxAddKey \/ RxOpenFile \/ RxCloseFile \/ RxMerge

Next ==
  \/ Restart
  \/ (BootStep \/ ShellStep) /\ UNCHANGED rxVars
  \/ RxStart
  \/ \E m \in Incoming : Scan(m)
  \/ RxStep

(* The receive thread is scheduled: the threads above it block again and   *)
(* again.                                                                  *)
Spec == Init /\ [][Next]_vars /\ WF_vars(RxStep)
-----------------------------------------------------------------------------
InUse == ToSet(rxq) \cup ToSet(host) \cup rx.pd

TypeOK ==
  /\ dirs \subseteq AllDirs /\ DOMAIN self \subseteq ToSet(SelfFiles)
  /\ setup \in {"none", "ok", "failed"}
  /\ boot.mode \in {"check", "format", "shell", "keys", "learned", "run"}
  /\ heap \subseteq Descriptor /\ {d.mem : d \in InUse} \subseteq heap
  /\ Len(rxq) <= RxQueueSize /\ Len(host) <= 1
  /\ rx.pc \in {"recv", "dispatch", "add", "open", "close", "merge"}

(* What is queued or being handled is allocated and has one owner; when it *)
(* has been handled it is free again, unless it was no record              *)
(* (mate_ble.c:609-610, 660-723, 752).                                     *)
RecordsFreed ==
  [][/\ Cardinality({d.mem : d \in InUse'}) = Len(rxq') + Len(host') + Cardinality(rx'.pd)
     /\ \A d \in InUse \ InUse' :
          VersionInfo(d.msg) = {MessageCode.record} => d.mem \notin heap']_vars

(* Every public key besides the root's and the node's own belongs to an    *)
(* identity a root the node was provisioned with has signed, also when the *)
(* key was read back from a file after a restart (mate_ble.c:671-680).     *)
Certified ==
  UNION {UNION {
    LET signed == {s \in UNION {DeserializeIdReqres(m.msg) : m \in Incoming} :
                     s.signature = [kid |-> RootKid, key |-> p.root.key]}
    IN  {p.root, p.private} \cup UNION {DeserializeIdentity(s.pubid) : s \in signed} :
    p \in DeserializeProvisioningData(d)} : d \in Provisionings}
OnlyCertified == {[kid |-> k.kid, key |-> k.key] : k \in keys} \subseteq Certified

(* While the node runs with its keys set up, it knows every node whose     *)
(* identity it has on file, whatever happened to the other files           *)
(* (credential_manager_setup.c:100-115).                                   *)
FiledIsKnown ==
  boot.mode = "run" /\ setup = "ok" =>
    \A kid \in DOMAIN valid : PublicIdentity(valid, kid) # {} => GetKey(keys, "public", kid) # {}

(* The identity of a node, once on file, is never torn: it can be read     *)
(* until it is deleted, though it may be written again                     *)
(* (identity_store.c:34-57).                                               *)
FilesStayWhole ==
  [][\A kid \in DOMAIN valid \cap DOMAIN valid' :
       PublicIdentity(valid, kid) # {} => PublicIdentity(valid', kid) # {}]_vars

(* Every part of what is held of another node (its header, its data, its   *)
(* signature) is that of a record of its key that was received and that    *)
(* its writer signed (tables.c:380-386).  After puts that failed half-way  *)
(* the parts may be those of three records, for a command or a job of      *)
(* different writers.                                                      *)
Received == UNION {DeserializeRecord(m.msg, Capacity) : m \in Incoming}
SignedFor(k) == {d \in Received : RecordKey(d) = k /\ d.sig.len # 0 /\ d.sig.by = d.writer}
PartsSigned(e) ==
  LET from == SignedFor(RecordKey(e.rec))
  IN  /\ \E d \in from : SameHeader(e.rec, d)
      /\ ~e.torn => \E d \in from : e.rec.data = d.data
      /\ ~e.torn => \E d \in from : e.rec.sig = d.sig
StoredIsSigned == \A e \in table : e.rec.writer # boot.id => PartsSigned(e)

(* The scan callback does not stay blocked in the host thread              *)
(* (mate_ble.c:311).                                                       *)
HostReturns == host # <<>> ~> host = <<>>
=============================================================================
