-------------------------- MODULE MateBleRx_proofs --------------------------
(***************************************************************************)
(* Proofs about the receive side of the BLE gossip and the identity store: *)
(* no key is trusted that no root has signed, no part of a record is held  *)
(* that its writer did not sign, every buffer of a record is freed, and an *)
(* identity that is on file is known and stays readable, whatever a power  *)
(* cycle interrupts.                                                       *)
(***************************************************************************)
EXTENDS MateBleRx, Cbor_proofs, FiniteSetTheorems

Provs == UNION {DeserializeProvisioningData(d) : d \in Provisionings}

(* The identities some root signed, as they are announced. *)
Announcements ==
  {s \in UNION {DeserializeIdReqres(m.msg) : m \in Incoming} :
     /\ \E p \in Provs : s.signature = [kid |-> RootKid, key |-> p.root.key]
     /\ DeserializeIdentity(s.pubid) # {}}

Devices     == Gates \cup Mates
Files       == ToSet(SelfFiles)
Descriptors == {[mem |-> p, msg |-> m.msg, mate |-> m.mate] : p \in Descriptor, m \in Incoming}
Senders     == {NoId} \cup {m.mate : m \in Incoming}

BootStates == [mode : {"check", "format", "shell", "keys", "learned", "run"},
               todo : SUBSET Devices, id : {NoId} \cup {p.private.kid : p \in Provs}]
CmdStates  == [name : {"none", "provision", "mkdir"}, data : SUBSET Provs, todo : Seq(Files),
               open : BOOLEAN]
RxStates   == [pc : {"recv", "dispatch", "add", "open", "close", "merge"}, pd : SUBSET Descriptors,
               rec : SUBSET Received, mate : Senders, id : SUBSET Announcements]

IdTyped ==
  /\ dirs \subseteq AllDirs
  /\ boot \in BootStates /\ setup \in {"none", "ok", "failed"}
  /\ cmd \in CmdStates /\ (cmd.name = "provision" => cmd.todo # <<>>)

(* A file is empty or holds what was handed out or announced for it. *)
SelfOk(files) ==
  /\ DOMAIN files \subseteq Files
  /\ \A p \in DOMAIN files : files[p] = Empty \/ \E d \in Provs : files[p] \in FileContent(p, d)
Filing(s, kid) == \A i \in DeserializeIdentity(s.pubid) : i.kid = kid
ValidOk(files) ==
  /\ DOMAIN files \subseteq Devices
  /\ \A kid \in DOMAIN files :
       \/ files[kid] = Empty
       \/ \E s \in Announcements :
            files[kid] \in SerializeSignedPublicIdentity(s, MAX_IDENTITY_SIZE) /\ Filing(s, kid)

(* Only a root's key is known under the kid of the root. *)
KeysOk(ks) ==
  \A k \in ks :
    /\ [kid |-> k.kid, key |-> k.key] \in Certified
    /\ k.kind = "public" /\ k.kid = RootKid => \E p \in Provs : k.key = p.root.key

Known(ks, kid) == GetKey(ks, "public", kid) # {}
FiledKnown(files, ks, left) ==
  \A kid \in DOMAIN files \ left : PublicIdentity(files, kid) # {} => Known(ks, kid)
BootOk ==
  /\ boot.mode = "learned" => FiledKnown(valid, keys, boot.todo)
  /\ boot.mode = "run" /\ setup = "ok" => FiledKnown(valid, keys, {})

(* The receive thread does not run before the start is over. *)
Quiet == rxUp = FALSE /\ heap = {} /\ host = <<>> /\ rxq = <<>> /\ rx = RxIdle /\ table = {}

RxTyped ==
  /\ heap \in SUBSET Descriptor /\ rxUp \in BOOLEAN
  /\ host \in Seq(Descriptors) /\ Len(host) <= 1
  /\ rxq \in Seq(Descriptors) /\ Len(rxq) <= RxQueueSize
  /\ rx \in RxStates

(* Every descriptor in use has memory of its own. *)
Mems == {d.mem : d \in InUse}
Owned ==
  /\ Mems \subseteq heap
  /\ \A i, j \in 1 .. Len(rxq) : rxq[i].mem = rxq[j].mem => i = j
  /\ \A i \in 1 .. Len(rxq) : \A d \in ToSet(host) \cup rx.pd : rxq[i].mem # d.mem
  /\ \A d \in ToSet(host) : \A e \in rx.pd : d.mem # e.mem
  /\ IsFiniteSet(Mems)
  /\ Cardinality(Mems) = Len(rxq) + Len(host) + Cardinality(rx.pd)

Handling ==
  /\ rx.pc = "dispatch" => \E d \in rx.pd : rx.pd = {d}
  /\ rx.pc # "dispatch" => rx.pd = {}
  /\ rx.pc = "merge" => \A r \in rx.rec : r.writer # boot.id
  /\ rx.pc \in {"add", "open", "close"} => \E s \in rx.id : rx.id = {s}
  /\ rx.pc \in {"open", "close"} => Learned.kid \in Devices /\ Known(keys, Learned.kid)

(* What is held was put by the node itself or came with signatures. *)
HeldOk(t) ==
  \A e \in t :
    \/ e.rec.type = "mate_encounter" /\ e.rec.writer = boot.id
    \/ e.rec.type \in Types /\ PartsSigned(e)

IdInv == IdTyped /\ SelfOk(self) /\ ValidOk(valid) /\ KeysOk(keys) /\ BootOk
RxInv == RxTyped /\ Owned /\ Handling /\ HeldOk(table) /\ (boot.mode # "run" => Quiet)
IInv  == IdInv /\ RxInv
-----------------------------------------------------------------------------
(* What is decoded. *)

LEMMA DecodedFacts ==
  ASSUME NEW m
  PROVE  /\ \A i \in DeserializeIdentity(m) :
              DeserializeIdentity(m) = {i} /\ i = [kid |-> i.kid, key |-> i.key]
         /\ \A s \in DeserializeIdReqres(m) :
              DeserializeIdReqres(m) = {s} /\ s = [pubid |-> s.pubid, signature |-> s.signature]
         /\ \A p \in DeserializeProvisioningData(m) :
              /\ p.root = [kid |-> p.root.kid, key |-> p.root.key]
              /\ p.private = [kid |-> p.private.kid, key |-> p.private.key]
              /\ p.own = [pubid |-> p.own.pubid, signature |-> p.own.signature]
BY DEF DeserializeIdentity, DeserializeIdReqres, DeserializeProvisioningData, Identity, SignedIdentity

LEMMA EmptyFacts == DeserializeIdentity(Empty) = {} /\ DeserializeSignedIdentity(Empty) = {}
BY DEF Empty, Message, DeserializeIdentity, DeserializeSignedIdentity, IdentityAt, SignedPubidAt, BytesAt

LEMMA ProvFacts ==
  ASSUME NEW p \in Provs
  PROVE  /\ p.root = [kid |-> p.root.kid, key |-> p.root.key] /\ p.root \in Certified
         /\ p.private = [kid |-> p.private.kid, key |-> p.private.key] /\ p.private \in Certified
         /\ p.own = [pubid |-> p.own.pubid, signature |-> p.own.signature]
         /\ DeserializeIdentity(p.own.pubid) \subseteq {p.private} /\ p.private.kid # RootKid
<1>1. PICK d \in Provisionings : p \in DeserializeProvisioningData(d)
  BY DEF Provs
<1>2. p.root \in Certified /\ p.private \in Certified
  BY <1>1 DEF Certified
<1> QED BY <1>1, <1>2, DecodedFacts, ProvisioningsAssumption

LEMMA AnnouncementFacts ==
  ASSUME NEW s \in Announcements
  PROVE  /\ s = [pubid |-> s.pubid, signature |-> s.signature]
         /\ \E i \in DeserializeIdentity(s.pubid) :
              /\ DeserializeIdentity(s.pubid) = {i} /\ i = [kid |-> i.kid, key |-> i.key]
              /\ i \in Certified /\ i.kid # RootKid
<1>1. PICK m \in Incoming : s \in DeserializeIdReqres(m.msg)
  BY DEF Announcements
<1>2. PICK p \in Provs : s.signature = [kid |-> RootKid, key |-> p.root.key]
  BY DEF Announcements
<1>3. PICK d \in Provisionings : p \in DeserializeProvisioningData(d)
  BY DEF Provs
<1>4. PICK i \in DeserializeIdentity(s.pubid) : TRUE
  BY DEF Announcements
<1>5. i.kid # RootKid
  BY <1>1, <1>2, <1>3, IncomingAssumption
<1>6. i \in Certified
  <2> DEFINE signed == {t \in UNION {DeserializeIdReqres(n.msg) : n \in Incoming} :
                          t.signature = [kid |-> RootKid, key |-> p.root.key]}
  <2>1. s \in signed
    BY <1>1, <1>2
  <2>2. i \in UNION {DeserializeIdentity(t.pubid) : t \in signed}
    <3> HIDE DEF signed
    <3> QED BY <1>4, <2>1
  <2> QED BY <1>3, <2>2 DEF Certified
<1> QED BY <1>1, <1>4, <1>5, <1>6, DecodedFacts
-----------------------------------------------------------------------------
(* The files. *)

LEMMA OwnFileFacts ==
  ASSUME NEW files, SelfOk(files), NEW p \in DOMAIN files
  PROVE  /\ p = "root" => \A i \in DeserializeIdentity(files[p]) : \E d \in Provs : i = d.root
         /\ p = "private" => \A i \in DeserializeIdentity(files[p]) : \E d \in Provs : i = d.private
         /\ p = "own" => \A s \in DeserializeSignedIdentity(files[p]) : \E d \in Provs : s = d.own
<1>1. CASE files[p] = Empty
  BY <1>1, EmptyFacts
<1>2. ASSUME NEW d \in Provs, files[p] \in FileContent(p, d)
      PROVE  /\ p = "root" => DeserializeIdentity(files[p]) = {d.root}
             /\ p = "private" => DeserializeIdentity(files[p]) = {d.private}
             /\ p = "own" => DeserializeSignedIdentity(files[p]) = {d.own}
  <2>1. ASSUME p = "root" PROVE DeserializeIdentity(files[p]) = {d.root}
    <3>1. files[p] \in SerializeIdentity(d.root, MAX_IDENTITY_SIZE)
      BY <1>2, <2>1 DEF FileContent
    <3> QED BY <3>1, ProvFacts, IdentityRead
  <2>2. ASSUME p = "private" PROVE DeserializeIdentity(files[p]) = {d.private}
    <3>1. files[p] \in SerializeIdentity(d.private, MAX_IDENTITY_SIZE)
      BY <1>2, <2>2 DEF FileContent
    <3> QED BY <3>1, ProvFacts, IdentityRead
  <2>3. ASSUME p = "own" PROVE DeserializeSignedIdentity(files[p]) = {d.own}
    <3>1. files[p] \in SerializeSignedPublicIdentity(d.own, MAX_IDENTITY_SIZE)
      BY <1>2, <2>3 DEF FileContent
    <3> QED BY <3>1, ProvFacts, SignedIdentityRead
  <2> QED BY <2>1, <2>2, <2>3
<1> QED BY <1>1, <1>2 DEF SelfOk

(* The identities the start reads are those of one provisioning each. *)
LEMMA OwnFacts ==
  ASSUME SelfOk(self)
  PROVE  /\ \A i \in PlainIdentity("root") : \E d \in Provs : i = d.root
         /\ \A i \in PlainIdentity("private") : \E d \in Provs : i = d.private
         /\ \A i \in PublicIdentity(self, "own") : \E d \in Provs : i = d.private
<1>1. ASSUME NEW i \in PlainIdentity("root") PROVE \E d \in Provs : i = d.root
  BY OwnFileFacts DEF PlainIdentity, ReadFile
<1>2. ASSUME NEW i \in PlainIdentity("private") PROVE \E d \in Provs : i = d.private
  BY OwnFileFacts DEF PlainIdentity, ReadFile
<1>3. ASSUME NEW i \in PublicIdentity(self, "own") PROVE \E d \in Provs : i = d.private
  <2>1. PICK s \in SignedIdentities(self, "own") : i \in DeserializeIdentity(s.pubid)
    BY DEF PublicIdentity
  <2>2. PICK d \in Provs : s = d.own
    BY <2>1, OwnFileFacts DEF SignedIdentities, ReadFile
  <2> QED BY <2>1, <2>2, ProvFacts
<1> QED BY <1>1, <1>2, <1>3

(* A filed identity is that of an announcement, and of its file's name. *)
LEMMA ReadFacts ==
  ASSUME NEW files, NEW kid
  PROVE  /\ kid \notin DOMAIN files => PublicIdentity(files, kid) = {}
         /\ kid \in DOMAIN files =>
              /\ files[kid] = Empty => PublicIdentity(files, kid) = {}
              /\ \A s \in Announcements :
                   files[kid] \in SerializeSignedPublicIdentity(s, MAX_IDENTITY_SIZE) =>
                     PublicIdentity(files, kid) = DeserializeIdentity(s.pubid)
<1>1. ASSUME kid \notin DOMAIN files PROVE PublicIdentity(files, kid) = {}
  BY <1>1 DEF PublicIdentity, SignedIdentities, ReadFile
<1>2. ASSUME kid \in DOMAIN files, NEW S, DeserializeSignedIdentity(files[kid]) = S
      PROVE  SignedIdentities(files, kid) = S
  BY <1>2 DEF SignedIdentities, ReadFile
<1>3. ASSUME kid \in DOMAIN files, files[kid] = Empty PROVE PublicIdentity(files, kid) = {}
  <2>1. SignedIdentities(files, kid) = {}
    BY <1>2, <1>3, EmptyFacts
  <2> QED BY <2>1 DEF PublicIdentity
<1>4. ASSUME kid \in DOMAIN files, NEW s \in Announcements,
             files[kid] \in SerializeSignedPublicIdentity(s, MAX_IDENTITY_SIZE)
      PROVE  PublicIdentity(files, kid) = DeserializeIdentity(s.pubid)
  <2>1. DeserializeSignedIdentity(files[kid]) = {s}
    BY <1>4, AnnouncementFacts, SignedIdentityRead
  <2>2. SignedIdentities(files, kid) = {s}
    BY <1>2, <1>4, <2>1
  <2> QED BY <2>2 DEF PublicIdentity
<1> QED BY <1>1, <1>3, <1>4

LEMMA FiledFacts ==
  ASSUME NEW files, ValidOk(files), NEW kid, PublicIdentity(files, kid) # {}
  PROVE  /\ kid \in DOMAIN files
         /\ \E i : /\ PublicIdentity(files, kid) = {i} /\ i.kid = kid
                   /\ i = [kid |-> i.kid, key |-> i.key] /\ i \in Certified /\ i.kid # RootKid
<1>1. kid \in DOMAIN files /\ files[kid] # Empty
  BY ReadFacts
<1>2. PICK s \in Announcements :
        files[kid] \in SerializeSignedPublicIdentity(s, MAX_IDENTITY_SIZE) /\ Filing(s, kid)
  BY <1>1 DEF ValidOk
<1>3. PublicIdentity(files, kid) = DeserializeIdentity(s.pubid)
  BY <1>1, <1>2, ReadFacts
<1> QED BY <1>1, <1>2, <1>3, AnnouncementFacts DEF Filing
-----------------------------------------------------------------------------
(* The keys. *)

LEMMA AddKeyFacts ==
  ASSUME NEW ks, KeysOk(ks), NEW kind, NEW i \in Certified, i = [kid |-> i.kid, key |-> i.key],
         kind = "public" /\ i.kid = RootKid => \E p \in Provs : i.key = p.root.key
  PROVE  KeysOk(AddKey(ks, kind, i))
<1> DEFINE new == [kind |-> kind, kid |-> i.kid, key |-> i.key]
<1>1. [kid |-> new.kid, key |-> new.key] \in Certified
  OBVIOUS
<1>2. new.kind = "public" /\ new.kid = RootKid => \E p \in Provs : new.key = p.root.key
  OBVIOUS
<1>3. \A k \in AddKey(ks, kind, i) : k \in ks \/ k = new
  BY DEF AddKey
<1> HIDE DEF new
<1> QED BY <1>1, <1>2, <1>3 DEF KeysOk

LEMMA KnownFacts ==
  ASSUME NEW ks, NEW i
  PROVE  /\ Known(AddKey(ks, "public", i), i.kid)
         /\ \A kid : Known(ks, kid) => Known(AddKey(ks, "public", i), kid)
<1> DEFINE new == [kind |-> "public", kid |-> i.kid, key |-> i.key]
           all == AddKey(ks, "public", i)
<1>1. new \in all /\ new.kind = "public" /\ new.kid = i.kid
  BY DEF AddKey
<1>2. ASSUME NEW c \in all, c.kind = "public" PROVE Known(all, c.kid)
  <2>1. c.key \in GetKey(all, "public", c.kid)
    <3> HIDE DEF all
    <3> QED BY <1>2 DEF GetKey
  <2> QED BY <2>1 DEF Known
<1>3. Known(all, i.kid)
  BY <1>1, <1>2
<1>4. ASSUME NEW kid, Known(ks, kid) PROVE Known(all, kid)
  <2>1. PICK c \in ks : c.kind = "public" /\ c.kid = kid
    BY <1>4 DEF Known, GetKey
  <2>2. CASE kid = i.kid
    BY <1>3, <2>2
  <2>3. CASE kid # i.kid
    <3>1. c \in all
      BY <2>1, <2>3 DEF AddKey
    <3> QED BY <1>2, <2>1, <3>1
  <2> QED BY <2>2, <2>3
<1> QED BY <1>3, <1>4
-----------------------------------------------------------------------------
(* The steps of the start. *)

LEMMA NoFileFacts ==
  SelfOk(NoFiles) /\ ValidOk(NoFiles) /\ \A ks, left : FiledKnown(NoFiles, ks, left)
<1>1. DOMAIN NoFiles = {}
  BY DEF NoFiles
<1> QED BY <1>1 DEF SelfOk, ValidOk, FiledKnown

LEMMA StartFacts ==
  /\ Booting \in BootStates /\ NoCommand \in CmdStates /\ NoCommand.name = "none"
  /\ Booting.mode = "check" /\ KeysOk({})
BY DEF Booting, BootStates, NoCommand, CmdStates, KeysOk

LEMMA IdInitInv == IdInit => IdInv
BY NoFileFacts, StartFacts DEF IdInit, IdInv, IdTyped, BootOk

LEMMA IdRestartStep ==
  ASSUME IdInv, IdRestart
  PROVE  IdInv' /\ boot'.mode # "run"
BY StartFacts DEF IdRestart, IdInv, IdTyped, BootOk

LEMMA CheckStoreStep ==
  ASSUME IdInv, CheckStore
  PROVE  IdInv' /\ boot'.mode # "run"
<1>1. /\ boot \in BootStates /\ SelfOk(self) /\ ValidOk(valid) /\ UNCHANGED <<keys, setup, cmd>>
  BY DEF IdInv, IdTyped, CheckStore
<1>2. OwnNodeId \in {NoId} \cup {p.private.kid : p \in Provs}
  <2>1. CASE PlainIdentity("private") = {}
    BY <2>1 DEF OwnNodeId
  <2>2. CASE PlainIdentity("private") # {}
    <3> DEFINE i == CHOOSE j \in PlainIdentity("private") : TRUE
    <3>1. i \in PlainIdentity("private")
      BY <2>2
    <3>2. OwnNodeId = i.kid
      BY <2>2 DEF OwnNodeId
    <3> HIDE DEF i
    <3> QED BY <1>1, <3>1, <3>2, OwnFacts
  <2> QED BY <2>1, <2>2
<1> DEFINE id == OwnNodeId
<1>3. /\ boot' \in BootStates /\ boot'.mode \in {"format", "keys", "shell"}
  <2>1. \/ boot' = [boot EXCEPT !.mode = "format"] \/ boot' = [boot EXCEPT !.mode = "shell"]
        \/ boot' = [boot EXCEPT !.mode = "keys", !.id = id]
    BY DEF CheckStore
  <2> HIDE DEF id
  <2> QED BY <1>1, <1>2, <2>1 DEF BootStates, id
<1>4. \/ dirs' = {} /\ self' = NoFiles /\ valid' = NoFiles
      \/ UNCHANGED <<dirs, self, valid>>
  BY DEF CheckStore
<1>5. SelfOk(self') /\ ValidOk(valid') /\ dirs' \subseteq AllDirs
  BY <1>1, <1>4, NoFileFacts DEF IdInv, IdTyped
<1> QED BY <1>1, <1>3, <1>5 DEF IdInv, IdTyped, BootOk

LEMMA MakeDirsStep ==
  ASSUME IdInv, MakeDirs
  PROVE  IdInv' /\ boot'.mode # "run"
<1>1. boot' \in BootStates /\ boot'.mode = "check"
  BY DEF MakeDirs, IdInv, IdTyped, BootStates
<1> QED BY <1>1 DEF MakeDirs, IdInv, IdTyped, BootOk

(* The keys of the root and of the node. *)
LEMMA SetupOwnKeysStep ==
  ASSUME IdInv, SetupOwnKeys
  PROVE  IdInv'
<1> DEFINE root == PlainIdentity("root")
           prv  == PlainIdentity("private")
           pub  == PublicIdentity(self, "own")
           k1   == UNION {AddKey({}, "public", i) : i \in root}
           k2   == UNION {AddKey(k1, "private", i) : i \in prv}
           k3   == UNION {AddKey(k2, "public", i) : i \in pub}
<1>1. /\ \A i \in root : \E d \in Provs : i = d.root
      /\ \A i \in prv : \E d \in Provs : i = d.private
      /\ \A i \in pub : \E d \in Provs : i = d.private
  BY OwnFacts DEF IdInv
<1> HIDE DEF root, prv, pub
<1>2. ASSUME NEW I, NEW ks, NEW kind, KeysOk(ks),
             \A i \in I : KeysOk(AddKey(ks, kind, i))
      PROVE  KeysOk(UNION {AddKey(ks, kind, i) : i \in I})
  BY ZenonT(40), <1>2 DEF KeysOk
<1>3. KeysOk(k1)
  <2>1. \A i \in root : KeysOk(AddKey({}, "public", i))
    BY <1>1, StartFacts, ProvFacts, AddKeyFacts
  <2> QED BY <1>2, <2>1, StartFacts
<1> HIDE DEF k1
<1>4. KeysOk(k2)
  <2>1. \A i \in prv : KeysOk(AddKey(k1, "private", i))
    BY <1>1, <1>3, ProvFacts, AddKeyFacts
  <2> QED BY <1>2, <1>3, <2>1
<1> HIDE DEF k2
<1>5. KeysOk(k3)
  <2>1. \A i \in pub : KeysOk(AddKey(k2, "public", i))
    BY <1>1, <1>4, ProvFacts, AddKeyFacts
  <2> QED BY <1>2, <1>4, <2>1
<1> HIDE DEF k3
<1>6. PICK n \in 0 .. 3 :
        /\ keys' = <<{}, k1, k2, k3>>[n + 1]
        /\ IF n = 3 /\ "valid" \in dirs
           THEN boot' = [boot EXCEPT !.mode = "learned", !.todo = DOMAIN valid] /\ setup' = setup
           ELSE boot' = [boot EXCEPT !.mode = "run", !.todo = {}] /\ setup' = "failed"
  BY DEF SetupOwnKeys, root, prv, pub, k1, k2, k3
<1>7. keys' \in {{}, k1, k2, k3}
  <2>1. n = 0 \/ n = 1 \/ n = 2 \/ n = 3
    OBVIOUS
  <2> QED BY <1>6, <2>1
<1>8. KeysOk(keys')
  BY <1>3, <1>4, <1>5, <1>7, StartFacts
<1>9. /\ boot \in BootStates /\ DOMAIN valid \in SUBSET Devices
      /\ UNCHANGED <<dirs, self, valid, cmd>>
  BY DEF IdInv, IdTyped, ValidOk, SetupOwnKeys
<1>10. CASE boot' = [boot EXCEPT !.mode = "learned", !.todo = DOMAIN valid] /\ setup' = setup
  <2> DEFINE D == DOMAIN valid
  <2>1. D \in SUBSET Devices /\ boot' = [boot EXCEPT !.mode = "learned", !.todo = D]
    BY <1>9, <1>10
  <2> HIDE DEF D
  <2>2. boot' \in BootStates /\ boot'.mode = "learned" /\ boot'.todo = D
    BY <1>9, <2>1 DEF BootStates
  <2>3. BootOk'
    BY <1>9, <2>2 DEF BootOk, FiledKnown, D
  <2> QED BY <1>8, <1>9, <1>10, <2>2, <2>3 DEF IdInv, IdTyped
<1>11. CASE boot' = [boot EXCEPT !.mode = "run", !.todo = {}] /\ setup' = "failed"
  <2>1. boot' \in BootStates /\ boot'.mode = "run"
    BY <1>9, <1>11 DEF BootStates
  <2> QED BY <1>8, <1>9, <1>11, <2>1 DEF IdInv, IdTyped, BootOk
<1> QED BY <1>6, <1>10, <1>11

(* The key of one learned identity. *)
LEMMA SetupLearnedKeyStep ==
  ASSUME IdInv, NEW kid \in Devices, SetupLearnedKey(kid)
  PROVE  IdInv'
<1> DEFINE read == PublicIdentity(valid, kid)
<1>1. /\ boot \in BootStates /\ KeysOk(keys) /\ ValidOk(valid) /\ boot.mode = "learned"
      /\ FiledKnown(valid, keys, boot.todo) /\ UNCHANGED <<dirs, self, valid, cmd>>
  BY DEF IdInv, IdTyped, BootOk, SetupLearnedKey
<1>2. CASE /\ keys' = IF read = {} THEN keys ELSE UNION {AddKey(keys, "public", i) : i \in read}
           /\ boot' = [boot EXCEPT !.todo = boot.todo \ {kid}]
           /\ setup' = setup
  <2>1. boot' \in BootStates /\ boot'.mode = "learned" /\ boot'.todo = boot.todo \ {kid}
    <3>1. boot.todo \ {kid} \in SUBSET Devices
      BY <1>1 DEF BootStates
    <3> QED BY <1>1, <1>2, <3>1 DEF BootStates
  <2>2. KeysOk(keys') /\ (read # {} => Known(keys', kid)) /\ \A c : Known(keys, c) => Known(keys', c)
    <3>1. CASE read = {}
      BY <1>1, <1>2, <3>1
    <3>2. CASE read # {}
      <4>1. PICK i : /\ read = {i} /\ i.kid = kid /\ i = [kid |-> i.kid, key |-> i.key]
                     /\ i \in Certified /\ i.kid # RootKid
        BY <1>1, <3>2, FiledFacts
      <4> HIDE DEF read
      <4>2. keys' = AddKey(keys, "public", i)
        BY <1>2, <3>2, <4>1
      <4> QED BY <1>1, <4>1, <4>2, AddKeyFacts, KnownFacts
    <3> QED BY <3>1, <3>2
  <2>3. FiledKnown(valid, keys', boot.todo \ {kid})
    BY <1>1, <2>2 DEF FiledKnown
  <2> QED BY <1>1, <1>2, <2>1, <2>2, <2>3 DEF IdInv, IdTyped, BootOk
<1>3. CASE boot' = [boot EXCEPT !.mode = "run", !.todo = {}] /\ setup' = "failed" /\ keys' = keys
  <2>1. boot' \in BootStates /\ boot'.mode = "run"
    BY <1>1, <1>3 DEF BootStates
  <2> QED BY <1>1, <1>3, <2>1 DEF IdInv, IdTyped, BootOk
<1> QED BY <1>2, <1>3 DEF SetupLearnedKey

LEMMA SetupDoneStep ==
  ASSUME IdInv, SetupDone
  PROVE  IdInv'
<1>1. boot' \in BootStates /\ boot'.mode = "run" /\ setup' = "ok"
  BY DEF IdInv, IdTyped, BootStates, SetupDone
<1>2. FiledKnown(valid, keys, {})
  BY DEF IdInv, BootOk, SetupDone
<1> QED BY <1>1, <1>2 DEF SetupDone, IdInv, IdTyped, BootOk
-----------------------------------------------------------------------------
(* The steps of the shell: the keys and the start are left alone. *)

LEMMA CommandFacts ==
  /\ SelfFiles \in Seq(Files) /\ SelfFiles # <<>>
  /\ \A c \in CmdStates : c.name = "provision" /\ c.todo # <<>> =>
       /\ Head(c.todo) \in Files /\ c.data \subseteq Provs
       /\ [c EXCEPT !.open = TRUE] \in CmdStates
       /\ Len(c.todo) # 1 => Tail(c.todo) \in Seq(Files) /\ Tail(c.todo) # <<>>
<1>1. SelfFiles \in Seq(Files) /\ SelfFiles # <<>>
  BY DEF Files, ToSet, SelfFiles
<1>2. ASSUME NEW c \in CmdStates, c.todo # <<>>
      PROVE  /\ Head(c.todo) \in Files /\ c.data \subseteq Provs
             /\ [c EXCEPT !.open = TRUE] \in CmdStates
             /\ Len(c.todo) # 1 => Tail(c.todo) \in Seq(Files) /\ Tail(c.todo) # <<>>
  <2>1. c.todo \in Seq(Files) /\ c.data \in SUBSET Provs
    BY DEF CmdStates
  <2>2. [c EXCEPT !.open = TRUE] \in CmdStates
    BY DEF CmdStates
  <2>3. Len(c.todo) # 1 => Tail(c.todo) # <<>>
    <3>1. Len(c.todo) \in Nat /\ Len(c.todo) # 0 /\ Len(Tail(c.todo)) = Len(c.todo) - 1
      BY <1>2, <2>1
    <3>2. Tail(c.todo) = <<>> => Len(Tail(c.todo)) = 0
      <4>1. Len(<<>>) = 0
        OBVIOUS
      <4> QED BY <4>1, Zenon
    <3> QED BY <3>1, <3>2
  <2> QED BY <1>2, <2>1, <2>2, <2>3
<1> QED BY <1>1, <1>2

LEMMA ProvisionStep ==
  ASSUME IdInv, NEW d \in Provisionings, Provision(d)
  PROVE  IdInv' /\ UNCHANGED <<keys, boot, setup>>
<1>1. PICK p \in DeserializeProvisioningData(d) :
        cmd' = [name |-> "provision", data |-> {p}, todo |-> SelfFiles, open |-> FALSE]
  BY DEF Provision
<1>2. p \in Provs
  BY DEF Provs
<1>3. cmd' \in CmdStates /\ cmd'.todo # <<>>
  BY <1>1, <1>2, CommandFacts DEF CmdStates
<1> QED BY <1>3 DEF Provision, IdInv, IdTyped, BootOk

LEMMA ProvisionOpenStep ==
  ASSUME IdInv, ProvisionOpen
  PROVE  IdInv' /\ UNCHANGED <<keys, boot, setup>>
<1>1. /\ cmd \in CmdStates /\ cmd.name = "provision" /\ cmd.todo # <<>> /\ SelfOk(self)
      /\ UNCHANGED <<dirs, valid, keys, boot, setup>>
  BY DEF IdInv, IdTyped, ProvisionOpen
<1>2. CASE self' = self /\ cmd' = NoCommand
  BY <1>1, <1>2, StartFacts DEF IdInv, IdTyped, BootOk
<1>3. CASE self' = Opened(self, Head(cmd.todo)) /\ cmd' = [cmd EXCEPT !.open = TRUE]
  <2>1. cmd' \in CmdStates /\ cmd'.todo # <<>> /\ Head(cmd.todo) \in Files
    <3>1. cmd'.todo = cmd.todo
      BY <1>1, <1>3 DEF CmdStates
    <3> QED BY <1>1, <1>3, <3>1, CommandFacts
  <2> DEFINE p == Head(cmd.todo)
  <2> HIDE DEF p
  <2>2. /\ DOMAIN self' = DOMAIN self \cup {p}
        /\ \A q \in DOMAIN self' : IF q \in DOMAIN self THEN self'[q] = self[q] ELSE self'[q] = Empty
    BY <1>3 DEF Opened, p
  <2>3. SelfOk(self')
    <3>1. p \in Files
      BY <2>1 DEF p
    <3> QED BY <1>1, <2>2, <3>1 DEF SelfOk
  <2> QED BY <1>1, <2>1, <2>3 DEF IdInv, IdTyped, BootOk
<1> QED BY <1>2, <1>3 DEF ProvisionOpen

LEMMA ProvisionCloseStep ==
  ASSUME IdInv, ProvisionClose
  PROVE  IdInv' /\ UNCHANGED <<keys, boot, setup>>
<1>1. /\ cmd \in CmdStates /\ cmd.name = "provision" /\ cmd.todo # <<>> /\ SelfOk(self)
      /\ UNCHANGED <<dirs, valid, keys, boot, setup>>
  BY DEF IdInv, IdTyped, ProvisionClose
<1>2. CASE self' = self /\ cmd' = NoCommand
  BY <1>1, <1>2, StartFacts DEF IdInv, IdTyped, BootOk
<1>3. CASE /\ \E d \in cmd.data : \E m \in FileContent(Head(cmd.todo), d) :
                self' = Closed(self, Head(cmd.todo), m)
           /\ cmd' = IF Len(cmd.todo) = 1 THEN NoCommand
                     ELSE [cmd EXCEPT !.todo = Tail(cmd.todo), !.open = FALSE]
  <2>1. cmd' \in CmdStates /\ (cmd'.name = "provision" => cmd'.todo # <<>>)
    <3>1. CASE Len(cmd.todo) = 1
      BY <1>3, <3>1, StartFacts
    <3>2. CASE Len(cmd.todo) # 1
      <4> DEFINE rest == Tail(cmd.todo)
      <4>1. rest \in Seq(Files) /\ rest # <<>>
        BY <1>1, <3>2, CommandFacts
      <4>2. cmd' = [cmd EXCEPT !.todo = rest, !.open = FALSE]
        BY <1>3, <3>2
      <4> HIDE DEF rest
      <4> QED BY <1>1, <4>1, <4>2 DEF CmdStates
    <3> QED BY <3>1, <3>2
  <2> DEFINE p == Head(cmd.todo)
  <2>2. PICK d \in Provs : \E m \in FileContent(p, d) : self' = Closed(self, p, m)
    BY <1>1, <1>3, CommandFacts
  <2>3. PICK m \in FileContent(p, d) : self' = Closed(self, p, m)
    BY <2>2
  <2> HIDE DEF p
  <2>4. /\ DOMAIN self' = DOMAIN self
        /\ \A q \in DOMAIN self' : self'[q] = self[q] \/ (q = p /\ self'[q] = m)
    BY <2>3 DEF Closed
  <2>5. SelfOk(self')
    BY <1>1, <2>3, <2>4 DEF SelfOk
  <2> QED BY <1>1, <2>1, <2>5 DEF IdInv, IdTyped, BootOk
<1> QED BY <1>2, <1>3 DEF ProvisionClose

LEMMA DirectoryStep ==
  ASSUME IdInv, Delete \/ Wipe \/ RecreateDirs
  PROVE  IdInv' /\ UNCHANGED <<keys, boot, setup>>
<1>1. cmd' \in CmdStates /\ cmd'.name # "provision" /\ dirs' \subseteq AllDirs
  BY StartFacts DEF IdInv, IdTyped, CmdStates, NoCommand, Delete, Wipe, RecreateDirs
<1>2. /\ valid' = NoFiles \/ valid' = valid
      /\ self' = NoFiles \/ self' = self
      /\ UNCHANGED <<keys, boot, setup>>
  BY DEF Delete, Wipe, RecreateDirs
<1>3. SelfOk(self') /\ ValidOk(valid') /\ BootOk'
  BY <1>2, NoFileFacts DEF IdInv, BootOk
<1> QED BY <1>1, <1>2, <1>3 DEF IdInv, IdTyped

LEMMA ShellStepInv ==
  ASSUME IdInv, ShellStep
  PROVE  IdInv' /\ UNCHANGED <<keys, boot, setup>>
BY ProvisionStep, ProvisionOpenStep, ProvisionCloseStep, DirectoryStep DEF ShellStep

LEMMA BootStepInv ==
  ASSUME IdInv, BootStep
  PROVE  IdInv' /\ boot.mode # "run"
<1>1. boot.mode # "run"
  BY DEF BootStep, CheckStore, MakeDirs, SetupOwnKeys, SetupDone, SetupLearnedKey
<1> QED BY <1>1, CheckStoreStep, MakeDirsStep, SetupOwnKeysStep, SetupDoneStep, SetupLearnedKeyStep
      DEF BootStep, Devices
-----------------------------------------------------------------------------
(* The memory of the descriptors. *)

(* A record's descriptor that leaves the hands of the threads is freed. *)
Freed ==
  \A d \in InUse \ InUse' : VersionInfo(d.msg) = {MessageCode.record} => d.mem \notin heap'

LEMMA QuietFacts == Quiet => RxInv
<1>1. RxIdle \in RxStates /\ RxIdle.pc = "recv" /\ RxIdle.pd = {}
  BY DEF RxIdle, RxStates, Senders
<1> SUFFICES ASSUME Quiet PROVE RxInv
  OBVIOUS
<1>2. ToSet(<<>>) = {} /\ Len(<<>>) = 0 /\ <<>> \in Seq(Descriptors)
  BY DEF ToSet
<1>3. RxTyped
  <2>1. heap \in SUBSET Descriptor /\ rxUp \in BOOLEAN /\ rx \in RxStates
    BY <1>1 DEF Quiet
  <2>2. host \in Seq(Descriptors) /\ Len(host) <= 1
    BY <1>2 DEF Quiet
  <2>3. rxq \in Seq(Descriptors) /\ Len(rxq) <= RxQueueSize
    BY <1>2, MateBleRxAssumption DEF Quiet
  <2> QED BY <2>1, <2>2, <2>3 DEF RxTyped
<1>4. Owned
  <2>1. Mems = {} /\ InUse = {}
    BY <1>1, <1>2 DEF Quiet, Mems, InUse
  <2>2. Cardinality(rx.pd) = 0 /\ Cardinality(Mems) = 0 /\ IsFiniteSet(Mems)
    BY <1>1, <2>1, FS_EmptySet DEF Quiet
  <2> QED BY <1>1, <1>2, <2>1, <2>2 DEF Quiet, Owned
<1> QED BY <1>1, <1>3, <1>4 DEF RxInv, Quiet, Handling, HeldOk

LEMMA QuietStep == Quiet' => RxInv'
BY QuietFacts, PTL

(* Nothing is handed over. *)
LEMMA OwnedKept ==
  ASSUME Owned, UNCHANGED <<heap, host, rxq>>, rx'.pd = rx.pd
  PROVE  Owned' /\ Freed
<1>1. InUse' = InUse
  BY DEF InUse
<1> QED BY <1>1 DEF Owned, Mems, Freed

LEMMA QueueFacts ==
  ASSUME RxTyped
  PROVE  /\ Len(rxq) \in Nat /\ ToSet(rxq) = {rxq[i] : i \in 1 .. Len(rxq)}
         /\ \A i \in 1 .. Len(rxq) : rxq[i] \in Descriptors
         /\ \/ host = <<>> /\ Len(host) = 0 /\ ToSet(host) = {}
            \/ Len(host) = 1 /\ host = <<host[1]>> /\ host[1] \in Descriptors /\ ToSet(host) = {host[1]}
<1>1. /\ rxq \in Seq(Descriptors) /\ host \in Seq(Descriptors)
      /\ Len(host) \in Nat /\ Len(host) <= 1 /\ Len(rxq) \in Nat
  BY DEF RxTyped
<1>2. CASE Len(host) = 0
  <2>1. host = <<>>
    BY <1>1, <1>2
  <2> QED BY <1>1, <2>1, <1>2 DEF ToSet
<1>3. CASE Len(host) = 1
  <2>1. host[1] \in Descriptors /\ DOMAIN host = 1 .. 1
    BY <1>1, <1>3
  <2>2. host = <<host[1]>>
    BY <1>1, <1>3
  <2>3. ToSet(host) = {host[1]}
    <3>1. 1 .. 1 = {1}
      OBVIOUS
    <3> QED BY <2>1, <3>1 DEF ToSet
  <2> QED BY <1>1, <1>3, <2>1, <2>2, <2>3 DEF ToSet
<1> QED BY SMTT(30), <1>1, <1>2, <1>3

(* The thread is done with a descriptor. *)
LEMMA OwnedDone ==
  ASSUME RxTyped, Owned, NEW m, rx.pd = {m}, rx'.pd = {}, UNCHANGED <<rxq, host>>,
         heap' \in {heap, heap \ {m.mem}},
         VersionInfo(m.msg) = {MessageCode.record} => heap' = heap \ {m.mem}
  PROVE  Owned' /\ Freed
<1> DEFINE waiting == ToSet(rxq) \cup ToSet(host)
           rest == {d.mem : d \in waiting}
<1>1. InUse = waiting \cup {m} /\ InUse' = waiting
  BY DEF InUse
<1>2. \A d \in waiting : d.mem # m.mem
  BY QueueFacts DEF Owned
<1> HIDE DEF waiting
<1>3. /\ Mems = rest \cup {m.mem} /\ Mems' = rest /\ m.mem \notin rest
  BY <1>1, <1>2 DEF Mems
<1>4. IsFiniteSet(Mems') /\ Cardinality(Mems') = Len(rxq') + Len(host') + Cardinality(rx'.pd)
  <2>1. Cardinality(rx.pd) = 1 /\ Cardinality(rx'.pd) = 0
    BY FS_Singleton, FS_EmptySet
  <2>2. Mems' = Mems \ {m.mem} /\ m.mem \in Mems
    BY <1>3
  <2>3. IsFiniteSet(Mems') /\ Cardinality(Mems') = Cardinality(Mems) - 1
    BY <2>2, FS_RemoveElement DEF Owned
  <2>4. Len(rxq) \in Nat /\ Len(host) \in Nat
    BY DEF RxTyped
  <2>5. Cardinality(Mems) = Len(rxq) + Len(host) + 1
    BY <2>1 DEF Owned
  <2>6. Cardinality(Mems') = Len(rxq) + Len(host) + 0
    BY <2>3, <2>4, <2>5
  <2> QED BY <2>1, <2>3, <2>6
<1>5. Mems' \subseteq heap'
  BY <1>3 DEF Owned
<1>6. Freed
  BY <1>1 DEF Freed
<1> QED BY <1>4, <1>5, <1>6 DEF Owned
-----------------------------------------------------------------------------
(* The steps on the queue. *)

LEMMA ScanStep ==
  ASSUME RxTyped, Owned, Handling, NEW m \in Incoming, Scan(m)
  PROVE  RxTyped' /\ Owned' /\ Handling' /\ Freed
<1> DEFINE p == Malloc(heap)
           d == [mem |-> p, msg |-> m.msg, mate |-> m.mate]
<1>1. p \in Descriptor /\ p \notin heap
  <2>1. \E q \in Descriptor : q \notin heap
    BY DEF RxTyped, Scan
  <2> QED BY <2>1 DEF Malloc
<1>2. d \in Descriptors /\ d.mem = p
  BY <1>1 DEF Descriptors
<1>3. /\ host = <<>> /\ heap' = heap \cup {p} /\ UNCHANGED <<idVars, rx, table>> /\ rxUp' = rxUp
      /\ \/ Len(rxq) < RxQueueSize /\ rxq' = Append(rxq, d) /\ host' = host
         \/ host' = <<d>> /\ rxq' = rxq
  BY DEF Scan
<1> HIDE DEF d, p
<1>4. /\ rxq \in Seq(Descriptors) /\ Len(rxq) \in Nat /\ Len(host) = 0 /\ ToSet(host) = {}
      /\ RxQueueSize \in Nat
  BY <1>3, MateBleRxAssumption DEF RxTyped, ToSet
<1>5. ToSet(<<d>>) = {d} /\ Len(<<d>>) = 1 /\ <<d>> \in Seq(Descriptors)
  BY <1>2 DEF ToSet
<1>6. ASSUME rxq' = Append(rxq, d)
      PROVE  /\ rxq' \in Seq(Descriptors) /\ Len(rxq') = Len(rxq) + 1 /\ rxq'[Len(rxq) + 1] = d
             /\ \A i \in 1 .. Len(rxq) : rxq'[i] = rxq[i]
  BY <1>2, <1>4, <1>6
<1>7. ASSUME rxq' = Append(rxq, d) PROVE ToSet(rxq') = ToSet(rxq) \cup {d}
  <2>1. DOMAIN rxq = 1 .. Len(rxq) /\ DOMAIN rxq' = 1 .. (Len(rxq) + 1)
    BY <1>4, <1>6, <1>7
  <2>2. 1 .. (Len(rxq) + 1) = (1 .. Len(rxq)) \cup {Len(rxq) + 1}
    BY <1>4
  <2> QED BY <1>6, <1>7, <2>1, <2>2 DEF ToSet
<1>8. InUse' = InUse \cup {d} /\ rx'.pd = rx.pd
  BY <1>3, <1>4, <1>5, <1>7 DEF InUse
<1>9. Mems' = Mems \cup {p} /\ p \notin Mems
  BY <1>1, <1>2, <1>8 DEF Mems, Owned
<1>10. RxTyped'
  <2>1. heap' \in SUBSET Descriptor /\ rx' \in RxStates /\ rxUp' \in BOOLEAN
    BY <1>1, <1>3 DEF RxTyped
  <2>2. rxq' \in Seq(Descriptors) /\ Len(rxq') <= RxQueueSize
    <3>1. CASE rxq' = rxq
      BY <3>1 DEF RxTyped
    <3>2. CASE rxq' = Append(rxq, d) /\ Len(rxq) < RxQueueSize
      <4>1. Len(rxq) + 1 <= RxQueueSize
        BY <1>4, <3>2
      <4> QED BY <1>6, <3>2, <4>1
    <3> QED BY <1>3, <3>1, <3>2
  <2>3. host' \in Seq(Descriptors) /\ Len(host') <= 1
    <3>1. CASE host' = host
      BY <3>1 DEF RxTyped
    <3>2. CASE host' = <<d>>
      <4>1. Len(<<d>>) <= 1
        BY <1>5
      <4> QED BY <1>5, <3>2, <4>1, Zenon
    <3> QED BY <1>3, <3>1, <3>2
  <2> QED BY <2>1, <2>2, <2>3 DEF RxTyped
<1>11. Owned'
  <2>1. Mems' \subseteq heap'
    BY <1>3, <1>9 DEF Owned
  <2>2. /\ \A i \in 1 .. Len(rxq) : rxq[i].mem # p
        /\ \A e \in rx.pd : e.mem # p
    <3>1. \A e \in InUse : e.mem # p
      BY <1>9 DEF Mems
    <3>2. \A i \in 1 .. Len(rxq) : rxq[i] \in InUse
      BY <1>4 DEF InUse, ToSet
    <3> QED BY <3>1, <3>2 DEF InUse
  <2>3. /\ \A i, j \in 1 .. Len(rxq') : rxq'[i].mem = rxq'[j].mem => i = j
        /\ \A i \in 1 .. Len(rxq') : \A e \in ToSet(host') \cup rx'.pd : rxq'[i].mem # e.mem
        /\ \A e \in ToSet(host') : \A f \in rx'.pd : e.mem # f.mem
    <3>1. CASE rxq' = Append(rxq, d) /\ host' = host
      <4>1. \A i \in 1 .. Len(rxq') :
              \/ i \in 1 .. Len(rxq) /\ rxq'[i] = rxq[i]
              \/ i = Len(rxq) + 1 /\ rxq'[i] = d
        <5>1. \A i \in 1 .. (Len(rxq) + 1) : i \in 1 .. Len(rxq) \/ i = Len(rxq) + 1
          BY <1>4
        <5> QED BY <1>6, <3>1, <5>1
      <4>2. ToSet(host') = {}
        BY <1>4, <3>1
      <4> QED BY SMTT(30), <1>2, <1>8, <2>2, <4>1, <4>2 DEF Owned
    <3>2. CASE host' = <<d>> /\ rxq' = rxq
      BY <1>2, <1>5, <1>8, <2>2, <3>2 DEF Owned
    <3> QED BY <1>3, <3>1, <3>2
  <2>4. IsFiniteSet(Mems') /\ Cardinality(Mems') = Cardinality(Mems) + 1
    BY <1>9, FS_AddElement DEF Owned
  <2>5. Cardinality(Mems') = Len(rxq') + Len(host') + Cardinality(rx'.pd)
    <3>1. Cardinality(Mems) = Len(rxq) + Cardinality(rx.pd)
      <4>1. Cardinality(rx.pd) \in Nat
        BY FS_EmptySet, FS_Singleton DEF Handling
      <4> QED BY <1>4, <4>1 DEF Owned
    <3>2. Cardinality(rx'.pd) = Cardinality(rx.pd) /\ Cardinality(rx.pd) \in Nat
      BY SMTT(30), <1>8, FS_EmptySet, FS_Singleton DEF Handling
    <3>3. \/ Len(rxq') = Len(rxq) + 1 /\ Len(host') = 0
          \/ Len(rxq') = Len(rxq) /\ Len(host') = 1
      BY <1>3, <1>4, <1>5, <1>6
    <3>4. Cardinality(Mems') = Len(rxq) + 1 + Cardinality(rx'.pd)
      BY <1>4, <2>4, <3>1, <3>2
    <3>5. /\ Len(rxq) + 1 + 0 + Cardinality(rx'.pd) = Len(rxq) + 1 + Cardinality(rx'.pd)
          /\ Len(rxq) + 1 + Cardinality(rx'.pd) = Len(rxq) + 1 + Cardinality(rx'.pd)
      BY <1>4, <3>2
    <3> QED BY <3>3, <3>4, <3>5
  <2> QED BY <2>1, <2>3, <2>4, <2>5 DEF Owned
<1> QED BY <1>3, <1>8, <1>10, <1>11 DEF Handling, Learned, Freed, idVars

LEMMA RxReceiveStep ==
  ASSUME RxTyped, Owned, Handling, RxReceive
  PROVE  RxTyped' /\ Owned' /\ Handling' /\ Freed
<1> DEFINE h == Head(rxq)
<1>1. /\ rx' = [rx EXCEPT !.pc = "dispatch", !.pd = {h}] /\ rx.pd = {}
      /\ rxq' = Tail(rxq) \o host /\ host' = <<>> /\ UNCHANGED <<rxUp, heap>>
  BY DEF RxReceive, Handling
<1>2. /\ rxq \in Seq(Descriptors) /\ Len(rxq) \in Nat /\ Len(rxq) >= 1 /\ Len(rxq) <= RxQueueSize
      /\ host \in Seq(Descriptors) /\ RxQueueSize \in Nat
      /\ \/ host = <<>> /\ Len(host) = 0 /\ ToSet(host) = {}
         \/ Len(host) = 1 /\ host = <<host[1]>> /\ ToSet(host) = {host[1]}
  <2>1. rxq \in Seq(Descriptors) /\ rxq # <<>> /\ Len(rxq) <= RxQueueSize
    BY DEF RxTyped, RxReceive
  <2>2. Len(rxq) \in Nat /\ Len(rxq) >= 1
    BY <2>1
  <2>3. host \in Seq(Descriptors)
    BY DEF RxTyped
  <2> QED BY <2>1, <2>2, <2>3, QueueFacts, MateBleRxAssumption
<1>3. h = rxq[1] /\ h \in Descriptors
  BY <1>2
<1> HIDE DEF h
<1>4. /\ Tail(rxq) \in Seq(Descriptors) /\ Len(Tail(rxq)) = Len(rxq) - 1
      /\ \A i \in 1 .. Len(rxq) - 1 : Tail(rxq)[i] = rxq[i + 1]
  BY <1>2
<1>5. /\ rxq' \in Seq(Descriptors)
      /\ \A i \in 1 .. Len(rxq) - 1 : rxq'[i] = rxq[i + 1]
      /\ \/ Len(host) = 0 /\ Len(rxq') = Len(rxq) - 1
         \/ Len(host) = 1 /\ Len(rxq') = Len(rxq) /\ rxq'[Len(rxq)] = host[1]
  <2> DEFINE t == Tail(rxq)
  <2>1. t \in Seq(Descriptors) /\ Len(t) = Len(rxq) - 1 /\ rxq' = t \o host
    BY <1>1, <1>4
  <2> HIDE DEF t
  <2>2. /\ rxq' \in Seq(Descriptors)
        /\ \A i \in 1 .. Len(t) : rxq'[i] = t[i]
        /\ Len(host) = 0 => Len(rxq') = Len(t)
        /\ Len(host) = 1 => Len(rxq') = Len(t) + 1 /\ rxq'[Len(t) + 1] = host[1]
    <3>1. rxq' \in Seq(Descriptors)
      BY <1>2, <2>1
    <3>2. \A i \in 1 .. Len(t) : rxq'[i] = t[i]
      BY <1>2, <2>1
    <3>3. CASE host = <<>> /\ Len(host) = 0
      BY <2>1, <3>1, <3>2, <3>3
    <3>4. CASE Len(host) = 1
      <4> DEFINE u == Append(t, host[1])
      <4>1. host \in Seq(Descriptors) /\ host[1] \in Descriptors
        BY <1>2, <3>4, QueueFacts
      <4>2. /\ u \in Seq(Descriptors) /\ Len(u) = Len(t) + 1 /\ u[Len(t) + 1] = host[1]
            /\ \A i \in 1 .. Len(t) : u[i] = t[i]
        BY <2>1, <4>1
      <4>3. Len(u) = Len(t) + Len(host)
        BY <3>4, <4>2
      <4>4. \A i \in 1 .. Len(host) : u[Len(t) + i] = host[i]
        <5>1. \A i \in 1 .. Len(host) : i = 1
          BY <3>4
        <5> QED BY <4>2, <5>1
      <4> HIDE DEF u
      <4>5. rxq' = u
        BY <2>1, <4>1, <4>2, <4>3, <4>4, Concat
      <4> QED BY <3>4, <4>2, <4>5
    <3> QED BY <1>2, <3>3, <3>4
  <2>3. Len(host) = 0 \/ Len(host) = 1
    BY <1>2
  <2>4. \A i \in 1 .. Len(rxq) - 1 : rxq'[i] = rxq[i + 1]
    BY <1>4, <2>1, <2>2 DEF t
  <2>5. Len(t) + 1 = Len(rxq) /\ Len(t) + 0 = Len(rxq) - 1
    BY <1>2, <2>1
  <2> QED BY <2>2, <2>3, <2>4, <2>5
<1>6. rx' \in RxStates /\ rx'.pd = {h} /\ rx'.pc = "dispatch"
  <2>1. rx \in RxStates
    BY DEF RxTyped
  <2>2. {h} \in SUBSET Descriptors
    BY <1>3
  <2> QED BY <1>1, <2>1, <2>2 DEF RxStates
<1>7. RxTyped'
  <2>1. Len(rxq') <= RxQueueSize
    BY <1>2, <1>5
  <2>2. host' \in Seq(Descriptors) /\ Len(host') <= 1
    BY <1>1
  <2>3. heap' \in SUBSET Descriptor /\ rxUp' \in BOOLEAN /\ rx' \in RxStates
    BY <1>1, <1>6 DEF RxTyped
  <2>4. rxq' \in Seq(Descriptors)
    BY <1>5
  <2> QED BY <2>1, <2>2, <2>3, <2>4 DEF RxTyped
(* Where a descriptor in the queue comes from. *)
<1>8. \A i \in 1 .. Len(rxq') :
        \/ i + 1 \in 1 .. Len(rxq) /\ rxq'[i] = rxq[i + 1]
        \/ i = Len(rxq) /\ Len(host) = 1 /\ rxq'[i] = host[1] /\ host[1] \in ToSet(host)
  <2> TAKE i \in 1 .. Len(rxq')
  <2>1. CASE i <= Len(rxq) - 1
    <3>1. i \in Nat /\ i >= 1 /\ Len(rxq) \in Nat
      BY <1>2, <1>5
    <3>2. i \in 1 .. Len(rxq) - 1 /\ i + 1 \in 1 .. Len(rxq)
      BY <2>1, <3>1
    <3> QED BY <1>5, <3>2
  <2>2. CASE i = Len(rxq) /\ Len(host) = 1
    <3>1. 1 \in DOMAIN host
      BY <1>2, <2>2
    <3> QED BY <1>5, <2>2, <3>1 DEF ToSet
  <2> QED BY <1>2, <1>5, <2>1, <2>2
<1>9. InUse' = InUse
  <2>1. ToSet(rxq) = {h} \cup {rxq[i + 1] : i \in 1 .. Len(rxq) - 1}
    <3>1. \A i \in 1 .. Len(rxq) : i = 1 \/ (i - 1 \in 1 .. Len(rxq) - 1 /\ (i - 1) + 1 = i)
      BY <1>2
    <3>2. \A i \in 1 .. Len(rxq) - 1 : i + 1 \in 1 .. Len(rxq)
      BY <1>2
    <3>3. DOMAIN rxq = 1 .. Len(rxq) /\ 1 \in 1 .. Len(rxq)
      BY <1>2
    <3> QED BY ZenonT(40), <1>3, <3>1, <3>2, <3>3 DEF ToSet
  <2>2. ToSet(rxq') = {rxq[i + 1] : i \in 1 .. Len(rxq) - 1} \cup ToSet(host)
    <3>1. DOMAIN rxq' = 1 .. Len(rxq')
      BY <1>5
    <3>2. ToSet(rxq') \subseteq {rxq[i + 1] : i \in 1 .. Len(rxq) - 1} \cup ToSet(host)
      <4>1. \A i \in 1 .. Len(rxq') : i + 1 \in 1 .. Len(rxq) => i \in 1 .. Len(rxq) - 1
        BY <1>2
      <4> QED BY <1>8, <3>1, <4>1 DEF ToSet
    <3>3. \A i \in 1 .. Len(rxq) - 1 : i \in 1 .. Len(rxq')
      BY <1>2, <1>5
    <3>4. ToSet(host) \subseteq ToSet(rxq')
      <4>1. CASE Len(host) = 0
        BY <1>2, <4>1
      <4>2. CASE Len(host) = 1 /\ Len(rxq') = Len(rxq) /\ rxq'[Len(rxq)] = host[1]
        <5>1. Len(rxq) \in DOMAIN rxq'
          BY <1>2, <3>1, <4>2
        <5>2. host[1] \in ToSet(rxq')
          BY <4>2, <5>1 DEF ToSet
        <5>3. ToSet(host) = {host[1]}
          BY <1>2, <4>2
        <5> QED BY <5>2, <5>3
      <4> QED BY <1>5, <4>1, <4>2
    <3>5. {rxq[i + 1] : i \in 1 .. Len(rxq) - 1} \subseteq ToSet(rxq')
      BY <1>5, <3>1, <3>3 DEF ToSet
    <3> QED BY <3>2, <3>4, <3>5
  <2>3. ToSet(host') = {}
    BY <1>1 DEF ToSet
  <2> QED BY <1>1, <1>6, <2>1, <2>2, <2>3 DEF InUse
<1>10. Owned'
  <2>1. Mems' = Mems
    BY <1>9 DEF Mems
  <2>2. \A i, j \in 1 .. Len(rxq') : rxq'[i].mem = rxq'[j].mem => i = j
    <3> TAKE i, j \in 1 .. Len(rxq')
    <3>1. CASE i + 1 \in 1 .. Len(rxq) /\ rxq'[i] = rxq[i + 1]
      <4>1. CASE j + 1 \in 1 .. Len(rxq) /\ rxq'[j] = rxq[j + 1]
        <5>1. rxq[i + 1].mem = rxq[j + 1].mem => i + 1 = j + 1
          BY <3>1, <4>1 DEF Owned
        <5> QED BY <1>2, <1>5, <3>1, <4>1, <5>1
      <4>2. CASE rxq'[j] = host[1] /\ host[1] \in ToSet(host)
        BY <3>1, <4>2 DEF Owned
      <4> QED BY <1>8, <4>1, <4>2
    <3>2. CASE i = Len(rxq) /\ rxq'[i] = host[1] /\ host[1] \in ToSet(host)
      <4>1. CASE j + 1 \in 1 .. Len(rxq) /\ rxq'[j] = rxq[j + 1]
        BY <3>2, <4>1 DEF Owned
      <4>2. CASE j = Len(rxq)
        BY <3>2, <4>2
      <4> QED BY <1>8, <4>1, <4>2
    <3> QED BY <1>8, <3>1, <3>2
  <2>3. \A i \in 1 .. Len(rxq') : \A e \in ToSet(host') \cup rx'.pd : rxq'[i].mem # e.mem
    <3> SUFFICES ASSUME NEW i \in 1 .. Len(rxq') PROVE rxq'[i].mem # h.mem
      BY <1>1, <1>6 DEF ToSet
    <3>1. CASE i + 1 \in 1 .. Len(rxq) /\ rxq'[i] = rxq[i + 1]
      <4>1. rxq[i + 1].mem = rxq[1].mem => i + 1 = 1
        BY <1>2, <3>1 DEF Owned
      <4>2. i + 1 # 1
        BY <1>2
      <4> QED BY <1>3, <3>1, <4>1, <4>2
    <3>2. CASE rxq'[i] = host[1] /\ host[1] \in ToSet(host)
      <4>1. 1 \in 1 .. Len(rxq)
        BY <1>2
      <4> QED BY <1>3, <3>2, <4>1 DEF Owned
    <3> QED BY <1>8, <3>1, <3>2
  <2>4. Cardinality(Mems') = Len(rxq') + Len(host') + Cardinality(rx'.pd)
    <3>1. Cardinality(rx.pd) = 0 /\ Cardinality(rx'.pd) = 1 /\ Len(host') = 0
      BY <1>1, <1>6, FS_EmptySet, FS_Singleton
    <3>2. Cardinality(Mems) = Len(rxq) + Len(host) + 0
      BY <3>1 DEF Owned
    <3>3. \/ Len(host) = 0 /\ Len(rxq') = Len(rxq) - 1
          \/ Len(host) = 1 /\ Len(rxq') = Len(rxq)
      BY <1>5
    <3>4. Cardinality(Mems') = Len(rxq') + 0 + 1
      <4>1. /\ Len(rxq) + 0 + 0 = Len(rxq) - 1 + 0 + 1
            /\ Len(rxq) + 1 + 0 = Len(rxq) + 0 + 1
        BY <1>2
      <4> QED BY <2>1, <3>2, <3>3, <4>1
    <3> QED BY <3>1, <3>4
  <2>5. ToSet(host') = {}
    BY <1>1 DEF ToSet
  <2> QED BY <1>1, <2>1, <2>2, <2>3, <2>4, <2>5 DEF Owned
<1> QED BY <1>6, <1>7, <1>9, <1>10 DEF Handling, Freed
-----------------------------------------------------------------------------
(* The steps that handle a message. *)

LEMMA IdKept ==
  ASSUME IdInv, UNCHANGED idVars
  PROVE  IdInv' /\ (HeldOk(table) /\ table' = table => HeldOk(table)')
BY DEF IdInv, IdTyped, BootOk, idVars, HeldOk

LEMMA DescriptorFacts ==
  ASSUME RxTyped, Handling, rx.pc = "dispatch", NEW d \in rx.pd
  PROVE  /\ rx.pd = {d} /\ d.mate \in Senders
         /\ \E m \in Incoming : d.msg = m.msg
<1>1. rx.pd = {d} /\ d \in Descriptors
  BY DEF RxTyped, RxStates, Handling
<1> QED BY <1>1 DEF Descriptors, Senders

LEMMA IdleFacts == RxIdle \in RxStates /\ RxIdle.pc = "recv" /\ RxIdle.pd = {}
BY DEF RxIdle, RxStates, Senders

LEMMA RxRecordStep ==
  ASSUME RxTyped, Owned, Handling, NEW d \in rx.pd, RxRecord(d)
  PROVE  RxTyped' /\ Owned' /\ Handling' /\ Freed
<1> DEFINE recs == {r \in DeserializeRecord(d.msg, Capacity) : r.writer # boot.id}
<1>1. /\ rx' = IF recs = {} THEN RxIdle
               ELSE [RxIdle EXCEPT !.pc = "merge", !.rec = recs, !.mate = d.mate]
      /\ heap' = heap \ {d.mem} /\ UNCHANGED <<idVars, rxUp, host, rxq>> /\ rx.pc = "dispatch"
  BY DEF RxRecord
<1>2. rx.pd = {d} /\ d.mate \in Senders /\ \E m \in Incoming : d.msg = m.msg
  BY <1>1, DescriptorFacts
<1>3. recs \in SUBSET Received /\ \A r \in recs : r.writer # boot.id
  BY <1>2 DEF Received
<1> HIDE DEF recs
<1>4. rx' \in RxStates /\ rx'.pd = {} /\ rx'.pc \in {"recv", "merge"}
      /\ (rx'.pc = "merge" => rx'.rec = recs)
  <2>1. CASE rx' = RxIdle
    BY <2>1, IdleFacts
  <2>2. CASE rx' = [RxIdle EXCEPT !.pc = "merge", !.rec = recs, !.mate = d.mate]
    BY <1>2, <1>3, <2>2, IdleFacts DEF RxStates
  <2> QED BY <1>1, <2>1, <2>2
<1>5. Owned' /\ Freed
  BY <1>1, <1>2, <1>4, OwnedDone
<1>6. RxTyped'
  BY <1>1, <1>4 DEF RxTyped
<1>7. boot' = boot
  BY <1>1 DEF idVars
<1> QED BY <1>3, <1>4, <1>5, <1>6, <1>7 DEF Handling

(* The signature of an identity that is taken was made by a root. *)
LEMMA RxIdentityStep ==
  ASSUME RxTyped, Owned, Handling, KeysOk(keys), NEW d \in rx.pd, RxIdentity(d)
  PROVE  RxTyped' /\ Owned' /\ Handling' /\ Freed
<1> DEFINE new == {s \in DeserializeIdReqres(d.msg) :
                     /\ CryptoVerify(RootKid, s.signature)
                     /\ \E i \in DeserializeIdentity(s.pubid) :
                          i.key \notin GetKey(keys, "public", i.kid)}
<1>1. /\ rx' = IF new = {} THEN RxIdle ELSE [RxIdle EXCEPT !.pc = "add", !.id = new]
      /\ UNCHANGED <<rxUp, heap, host, rxq>>
      /\ rx.pc = "dispatch" /\ VersionInfo(d.msg) = {MessageCode.id_response}
  BY DEF RxIdentity
<1>2. rx.pd = {d}
  BY <1>1, DescriptorFacts
<1>3. ASSUME NEW s \in new PROVE s \in Announcements /\ new = {s}
  <2>1. PICK m \in Incoming : d.msg = m.msg
    BY <1>1, DescriptorFacts
  <2>2. s \in DeserializeIdReqres(m.msg) /\ s.signature = [kid |-> s.signature.kid, key |-> s.signature.key]
    BY <1>3, <2>1, IncomingAssumption
  <2>3. s.signature.kid = RootKid /\ s.signature.key \in GetKey(keys, "public", RootKid)
    BY <1>3 DEF CryptoVerify
  <2>4. PICK p \in Provs : s.signature.key = p.root.key
    BY ZenonT(40), <2>3 DEF GetKey, KeysOk
  <2>5. new = {s}
    BY <1>3, DecodedFacts
  <2> QED BY <1>3, <2>2, <2>3, <2>4, <2>5 DEF Announcements
<1> HIDE DEF new
<1>4. /\ rx' \in RxStates /\ rx'.pd = {} /\ rx'.pc \in {"recv", "add"}
      /\ rx'.pc = "add" => \E s \in rx'.id : rx'.id = {s}
  <2>1. CASE new = {}
    BY <1>1, <2>1, IdleFacts
  <2>2. CASE new # {}
    <3>1. rx' = [RxIdle EXCEPT !.pc = "add", !.id = new]
      BY <1>1, <2>2
    <3>2. new \in SUBSET Announcements /\ \E s \in new : new = {s}
      BY <1>3, <2>2
    <3> QED BY <3>1, <3>2, IdleFacts DEF RxStates
  <2> QED BY <2>1, <2>2
<1>5. Owned' /\ Freed
  BY <1>1, <1>2, <1>4, OwnedDone, CodeFacts
<1>6. RxTyped'
  BY <1>1, <1>4 DEF RxTyped
<1> QED BY <1>4, <1>5, <1>6 DEF Handling

LEMMA RxOtherStep ==
  ASSUME RxTyped, Owned, Handling, NEW d \in rx.pd, RxOther(d)
  PROVE  RxTyped' /\ Owned' /\ Handling' /\ Freed
<1>1. /\ rx' = RxIdle /\ UNCHANGED <<rxUp, heap, host, rxq>> /\ rx.pd = {d}
      /\ VersionInfo(d.msg) # {MessageCode.record}
  BY DescriptorFacts DEF RxOther
<1>2. Owned' /\ Freed
  BY <1>1, OwnedDone, IdleFacts
<1>3. RxTyped'
  BY <1>1, IdleFacts DEF RxTyped
<1> QED BY <1>1, <1>2, <1>3, IdleFacts DEF Handling
-----------------------------------------------------------------------------
(* The steps that learn an identity. *)

LEMMA LearnedFacts ==
  ASSUME RxTyped, NEW s \in rx.id, rx.id = {s}
  PROVE  /\ s \in Announcements /\ Filing(s, Learned.kid)
         /\ Learned = [kid |-> Learned.kid, key |-> Learned.key]
         /\ Learned \in Certified /\ Learned.kid # RootKid
<1>1. s \in Announcements
  BY DEF RxTyped, RxStates
<1>2. PICK i \in DeserializeIdentity(s.pubid) :
        /\ DeserializeIdentity(s.pubid) = {i} /\ i = [kid |-> i.kid, key |-> i.key]
        /\ i \in Certified /\ i.kid # RootKid
  BY <1>1, AnnouncementFacts
<1>3. Learned = i
  <2>1. UNION {DeserializeIdentity(t.pubid) : t \in rx.id} = {i}
    BY <1>2
  <2> QED BY <2>1 DEF Learned
<1> QED BY <1>1, <1>2, <1>3 DEF Filing

LEMMA RxAddKeyStep ==
  ASSUME IdInv, RxTyped, Owned, Handling, RxAddKey
  PROVE  IdInv' /\ RxTyped' /\ Owned' /\ Handling' /\ Freed
<1>1. PICK s \in rx.id : rx.id = {s}
  BY DEF Handling, RxAddKey
<1>2. /\ UNCHANGED <<dirs, self, valid, boot, setup, cmd, rxUp, heap, host, rxq>>
      /\ rx.pc = "add" /\ rx.pd = {} /\ rx \in RxStates
  BY DEF Handling, RxAddKey, RxTyped
<1>3. CASE keys' = keys /\ rx' = RxIdle
  <2>1. Owned' /\ Freed
    BY <1>2, <1>3, OwnedKept, IdleFacts
  <2>2. RxTyped' /\ Handling'
    BY <1>2, <1>3, IdleFacts DEF RxTyped, Handling
  <2> QED BY <1>2, <1>3, <2>1, <2>2, IdKept DEF idVars
<1>4. CASE /\ keys' = AddKey(keys, "public", Learned)
           /\ rx' = IF Learned.kid \in Gates \cup Mates THEN [rx EXCEPT !.pc = "open"] ELSE RxIdle
  <2>1. KeysOk(keys') /\ Known(keys', Learned.kid) /\ \A kid : Known(keys, kid) => Known(keys', kid)
    BY <1>1, <1>4, LearnedFacts, AddKeyFacts, KnownFacts DEF IdInv
  <2>2. IdInv'
    <3>1. \A files, left : FiledKnown(files, keys, left) => FiledKnown(files, keys', left)
      BY <2>1 DEF FiledKnown
    <3> QED BY <1>2, <2>1, <3>1 DEF IdInv, IdTyped, BootOk
  <2>3. /\ rx' \in RxStates /\ rx'.pd = {} /\ rx'.pc \in {"recv", "open"}
        /\ rx'.pc = "open" => rx'.id = rx.id /\ Learned.kid \in Devices
    <3>1. CASE rx' = RxIdle
      BY <3>1, IdleFacts
    <3>2. CASE rx' = [rx EXCEPT !.pc = "open"] /\ Learned.kid \in Devices
      BY <1>2, <3>2 DEF RxStates
    <3> QED BY <1>4, <3>1, <3>2 DEF Devices
  <2>4. Owned' /\ Freed
    BY <1>2, <2>3, OwnedKept
  <2>5. RxTyped'
    BY <1>2, <2>3 DEF RxTyped
  <2>6. rx'.pc = "open" => Learned' = Learned
    BY <2>3 DEF Learned
  <2>7. Handling'
    BY <1>1, <2>1, <2>3, <2>6 DEF Handling
  <2> QED BY <2>2, <2>4, <2>5, <2>7
<1> QED BY <1>3, <1>4 DEF RxAddKey

(* No step leaves a file torn that could be read. *)
Whole ==
  \A kid \in DOMAIN valid \cap DOMAIN valid' :
    PublicIdentity(valid, kid) # {} => PublicIdentity(valid', kid) # {}

(* What is read of a file is what is in it. *)
LEMMA SameFile ==
  ASSUME NEW f, NEW g, NEW kid \in DOMAIN f \cap DOMAIN g, f[kid] = g[kid]
  PROVE  PublicIdentity(f, kid) = PublicIdentity(g, kid)
<1>1. ReadFile(f, kid) = ReadFile(g, kid)
  BY DEF ReadFile
<1>2. SignedIdentities(f, kid) = SignedIdentities(g, kid)
  BY <1>1 DEF SignedIdentities
<1> QED BY <1>2 DEF PublicIdentity

LEMMA WholeKept == valid' = valid \/ valid' = NoFiles => Whole
BY DEF Whole, NoFiles

LEMMA RxOpenFileStep ==
  ASSUME IdInv, RxTyped, Owned, Handling, RxOpenFile
  PROVE  IdInv' /\ RxTyped' /\ Owned' /\ Handling' /\ Freed /\ Whole
<1>1. /\ UNCHANGED <<dirs, self, keys, boot, setup, cmd, rxUp, heap, host, rxq>>
      /\ rx.pc = "open" /\ rx.pd = {} /\ rx \in RxStates /\ Learned.kid \in Devices
      /\ Known(keys, Learned.kid) /\ ValidOk(valid)
  BY DEF Handling, RxOpenFile, RxTyped, IdInv
<1>2. CASE valid' = valid /\ rx' = RxIdle
  <2>1. Owned' /\ Freed
    BY <1>1, <1>2, OwnedKept, IdleFacts
  <2>2. RxTyped' /\ Handling'
    BY <1>1, <1>2, IdleFacts DEF RxTyped, Handling
  <2> QED BY <1>1, <1>2, <2>1, <2>2, IdKept, WholeKept DEF idVars
<1>3. CASE valid' = Opened(valid, Learned.kid) /\ rx' = [rx EXCEPT !.pc = "close"]
  <2> DEFINE kid == Learned.kid
  <2> HIDE DEF kid
  <2>1. /\ DOMAIN valid' = DOMAIN valid \cup {kid}
        /\ \A q \in DOMAIN valid' : IF q \in DOMAIN valid THEN valid'[q] = valid[q] ELSE valid'[q] = Empty
    BY <1>3 DEF Opened, kid
  <2>2. ValidOk(valid')
    BY <1>1, <2>1 DEF ValidOk, kid
  <2>3. /\ \A q \in DOMAIN valid : PublicIdentity(valid', q) = PublicIdentity(valid, q)
        /\ \A q \in DOMAIN valid' \ DOMAIN valid : PublicIdentity(valid', q) = {}
    BY <2>1, SameFile, ReadFacts
  <2>4. \A left : FiledKnown(valid, keys, left) => FiledKnown(valid', keys, left)
    BY <2>1, <2>3 DEF FiledKnown
  <2>5. IdInv'
    BY <1>1, <2>2, <2>4 DEF IdInv, IdTyped, BootOk
  <2>6. Whole
    BY <2>3 DEF Whole
  <2>7. /\ rx' \in RxStates /\ rx'.pd = {} /\ rx'.pc = "close" /\ rx'.id = rx.id
    BY <1>1, <1>3 DEF RxStates
  <2>8. Owned' /\ Freed
    BY <1>1, <2>7, OwnedKept
  <2>9. RxTyped'
    BY <1>1, <2>7 DEF RxTyped
  <2>10. Handling'
    <3>1. Learned' = Learned
      BY <2>7 DEF Learned
    <3> QED BY <1>1, <2>7, <3>1 DEF Handling
  <2> QED BY <2>5, <2>6, <2>8, <2>9, <2>10
<1> QED BY <1>2, <1>3 DEF RxOpenFile

LEMMA RxCloseFileStep ==
  ASSUME IdInv, RxTyped, Owned, Handling, RxCloseFile
  PROVE  IdInv' /\ RxTyped' /\ Owned' /\ Handling' /\ Freed /\ Whole
<1>1. /\ UNCHANGED <<dirs, self, keys, boot, setup, cmd, rxUp, heap, host, rxq>> /\ rx' = RxIdle
      /\ rx.pc = "close" /\ rx.pd = {} /\ Learned.kid \in Devices
      /\ Known(keys, Learned.kid) /\ ValidOk(valid)
  BY DEF Handling, RxCloseFile, RxTyped, IdInv
<1>2. Owned' /\ Freed
  BY <1>1, OwnedKept, IdleFacts
<1>3. RxTyped' /\ Handling'
  BY <1>1, IdleFacts DEF RxTyped, Handling
<1>4. CASE valid' = valid
  BY <1>1, <1>2, <1>3, <1>4, IdKept, WholeKept DEF idVars
<1>5. ASSUME NEW s \in rx.id, NEW m \in SerializeSignedPublicIdentity(s, MAX_IDENTITY_SIZE),
             valid' = Closed(valid, Learned.kid, m)
      PROVE  IdInv' /\ Whole
  <2> DEFINE kid == Learned.kid
  <2>1. s \in Announcements /\ Filing(s, kid)
    <3>1. rx.id = {s}
      BY <1>1 DEF Handling
    <3> QED BY <3>1, LearnedFacts
  <2> HIDE DEF kid
  <2>2. /\ DOMAIN valid' = DOMAIN valid
        /\ \A q \in DOMAIN valid' : IF q = kid THEN valid'[q] = m ELSE valid'[q] = valid[q]
    BY <1>5 DEF Closed, kid
  <2>3. ValidOk(valid')
    BY <1>1, <1>5, <2>1, <2>2 DEF ValidOk
  <2>4. /\ \A q \in DOMAIN valid \ {kid} : PublicIdentity(valid', q) = PublicIdentity(valid, q)
        /\ kid \in DOMAIN valid => PublicIdentity(valid', kid) # {}
    <3>1. \A q \in DOMAIN valid \ {kid} : PublicIdentity(valid', q) = PublicIdentity(valid, q)
      BY <2>2, SameFile
    <3>2. ASSUME kid \in DOMAIN valid PROVE PublicIdentity(valid', kid) # {}
      <4>1. valid'[kid] \in SerializeSignedPublicIdentity(s, MAX_IDENTITY_SIZE) /\ kid \in DOMAIN valid'
        BY <1>5, <2>2, <3>2
      <4>2. PublicIdentity(valid', kid) = DeserializeIdentity(s.pubid)
        BY <2>1, <4>1, ReadFacts
      <4> QED BY <2>1, <4>2, AnnouncementFacts
    <3> QED BY <3>1, <3>2
  <2>5. \A left : FiledKnown(valid, keys, left) => FiledKnown(valid', keys, left)
    BY <1>1, <2>2, <2>4 DEF FiledKnown, kid
  <2>6. IdInv'
    BY <1>1, <2>3, <2>5 DEF IdInv, IdTyped, BootOk
  <2>7. Whole
    BY <2>2, <2>4 DEF Whole
  <2> QED BY <2>6, <2>7
<1> QED BY <1>2, <1>3, <1>4, <1>5 DEF RxCloseFile
-----------------------------------------------------------------------------
(* The records that are held. *)

LEMMA ReceivedFacts ==
  ASSUME NEW r \in Received
  PROVE  /\ r.type \in Types
         /\ r = [type |-> r.type, writer |-> r.writer, seq |-> r.seq, ts |-> r.ts,
                 data |-> r.data, sig |-> r.sig]
<1>1. PICK m \in Incoming : r \in DeserializeRecord(m.msg, Capacity)
  BY DEF Received
<1>2. PICK type \in CodeAt(m.msg.items, 3, TypeCode) : r \in DecodeRecord(m.msg.items, type, Capacity)
  BY <1>1 DEF DeserializeRecord
<1>3. type \in Types
  BY CodeFacts DEF CodeAt
<1> QED BY <1>2, <1>3 DEF DecodeRecord

LEMMA KeyFacts ==
  ASSUME NEW r, NEW o, r.type \in Types, o.type \in Types \cup {"mate_encounter"},
         RecordKey(o) = RecordKey(r)
  PROVE  o.type = r.type
<1>1. RecordKey(r).type = r.type
  BY DEF RecordKey, Types
<1>2. RecordKey(o).type = o.type
  BY DEF RecordKey, Types
<1> QED BY <1>1, <1>2

(* A new entry over an old one, which keeps the data and the signature, or *)
(* the signature, of the old one.                                          *)
LEMMA MixedFacts ==
  ASSUME NEW r, NEW o,
         r = [type |-> r.type, writer |-> r.writer, seq |-> r.seq, ts |-> r.ts,
              data |-> r.data, sig |-> r.sig],
         r.type \in Types \cup {"mate_encounter"}, o.type = r.type,
         o.type = "mate_encounter" => o.writer = r.writer,
         RecordKey(o) = RecordKey(r)
  PROVE  LET x == [r EXCEPT !.data = o.data, !.sig = o.sig]
             y == [r EXCEPT !.sig = o.sig]
         IN  /\ SameHeader(x, r) /\ x.data = o.data /\ x.sig = o.sig
             /\ SameHeader(y, r) /\ y.data = r.data /\ y.sig = o.sig
             /\ RecordKey(x) = RecordKey(r) /\ RecordKey(y) = RecordKey(r)
<1> DEFINE x == [r EXCEPT !.data = o.data, !.sig = o.sig]
           y == [r EXCEPT !.sig = o.sig]
<1>1. /\ x.type = r.type /\ x.writer = r.writer /\ x.seq = r.seq /\ x.ts = r.ts
      /\ x.data = o.data /\ x.sig = o.sig
  OBVIOUS
<1>2. /\ y.type = r.type /\ y.writer = r.writer /\ y.seq = r.seq /\ y.ts = r.ts
      /\ y.data = r.data /\ y.sig = o.sig
  OBVIOUS
<1> HIDE DEF x, y
<1>3. RecordKey(y) = RecordKey(r)
  BY <1>2 DEF RecordKey
<1>4. RecordKey(x) = RecordKey(r)
  BY <1>1 DEF RecordKey, Types
<1> QED BY <1>1, <1>2, <1>3, <1>4 DEF SameHeader, x, y

(* An entry of which every part is that of a signed record of its key. *)
LEMMA PartsFacts ==
  ASSUME NEW e, NEW d \in SignedFor(RecordKey(e.rec)), SameHeader(e.rec, d),
         ~e.torn => /\ \E c \in SignedFor(RecordKey(e.rec)) : e.rec.data = c.data
                    /\ \E c \in SignedFor(RecordKey(e.rec)) : e.rec.sig = c.sig
  PROVE  e.rec.type \in Types /\ PartsSigned(e)
<1>1. d \in Received
  BY DEF SignedFor
<1>2. e.rec.type \in Types
  BY <1>1, ReceivedFacts DEF SameHeader
<1> QED BY <1>2 DEF PartsSigned

LEMMA StoredFacts ==
  ASSUME NEW t, HeldOk(t), NEW r, NEW torn,
         \/ r.type = "mate_encounter" /\ r.writer = boot.id
         \/ r.type \in Types /\ PartsSigned([rec |-> r, torn |-> torn])
  PROVE  HeldOk(Stored(t, r, torn))
<1> DEFINE new == [rec |-> r, torn |-> torn]
<1>1. new.rec = r
  OBVIOUS
<1>2. \A e \in Stored(t, r, torn) : e \in t \/ e = new
  BY DEF Stored
<1>3. \/ r.type = "mate_encounter" /\ r.writer = boot.id
      \/ r.type \in Types /\ PartsSigned(new)
  OBVIOUS
<1> HIDE DEF new
<1> QED BY <1>1, <1>2, <1>3 DEF HeldOk

(* How a put may end. *)
OverOld(t, r, u) ==
  \E h \in t : /\ RecordKey(h.rec) = RecordKey(r) /\ ~h.torn
              /\ \E x \in Mixed(r, h.rec) : u = Stored(t, x, FALSE)

LEMMA OutcomeFacts ==
  ASSUME NEW t, NEW r, NEW u \in PutOutcomes(t, r)
  PROVE  u = t \/ u = Stored(t, r, FALSE) \/ u = Stored(t, r, TRUE) \/ OverOld(t, r, u)
<1> DEFINE old == {e.rec : e \in {h \in t : RecordKey(h.rec) = RecordKey(r) /\ ~h.torn}}
<1>1. ASSUME u \in {Stored(t, x, FALSE) : x \in UNION {Mixed(r, o) : o \in old}}
      PROVE  OverOld(t, r, u)
  <2>1. PICK o \in old : \E x \in Mixed(r, o) : u = Stored(t, x, FALSE)
    BY <1>1
  <2> QED BY <2>1 DEF OverOld
<1> QED BY <1>1 DEF PutOutcomes

LEMMA EncounteredFacts ==
  ASSUME NEW t, HeldOk(t), NEW mate, NEW u \in Encountered(t, mate)
  PROVE  HeldOk(u)
<1> DEFINE r == MateEncounter(boot.id, 0, [physical |-> 0, logical |-> 0], mate)
<1>1. CASE u = t
  BY <1>1
<1>2. CASE u \in PutOutcomes(t, r)
  <2>1. r.type = "mate_encounter" /\ r.writer = boot.id
    BY DEF MateEncounter, Record
  <2>2. \A o : \A x \in Mixed(r, o) : x.type = r.type /\ x.writer = r.writer
    BY DEF Mixed, MateEncounter, Record
  <2> HIDE DEF r
  <2>3. ASSUME NEW x, NEW torn, u = Stored(t, x, torn), x.type = r.type, x.writer = r.writer
        PROVE  HeldOk(u)
    BY <2>1, <2>3, StoredFacts
  <2>4. CASE OverOld(t, r, u)
    <3>1. PICK o : \E x \in Mixed(r, o) : u = Stored(t, x, FALSE)
      BY <2>4 DEF OverOld
    <3> QED BY <2>2, <2>3, <3>1
  <2>5. CASE u = Stored(t, r, FALSE) \/ u = Stored(t, r, TRUE)
    BY <2>3, <2>5
  <2> QED BY <1>1, <1>2, <2>4, <2>5, OutcomeFacts
<1> QED BY <1>1, <1>2 DEF Encountered

LEMMA PutFacts ==
  ASSUME HeldOk(table), NEW r \in Received, MergeVerdict(r) = "merge", NEW t \in PutOutcomes(table, r)
  PROVE  HeldOk(t)
<1> DEFINE from == SignedFor(RecordKey(r))
<1>1. /\ r \in from /\ r.type \in Types /\ SameHeader(r, r)
      /\ r = [type |-> r.type, writer |-> r.writer, seq |-> r.seq, ts |-> r.ts,
              data |-> r.data, sig |-> r.sig]
  BY ReceivedFacts DEF MergeVerdict, SignedFor, SameHeader
<1>2. ASSUME NEW x, NEW torn, RecordKey(x) = RecordKey(r), SameHeader(x, r),
             ~torn => (\E c \in from : x.data = c.data) /\ (\E c \in from : x.sig = c.sig)
      PROVE  HeldOk(Stored(table, x, torn))
  <2> DEFINE e == [rec |-> x, torn |-> torn]
  <2>1. e.rec = x /\ e.torn = torn
    OBVIOUS
  <2> HIDE DEF e
  <2>2. x.type \in Types /\ PartsSigned(e)
    BY <1>1, <1>2, <2>1, PartsFacts
  <2> QED BY <2>2, StoredFacts DEF e
<1>3. CASE t = table
  BY <1>3
<1>4. CASE t = Stored(table, r, FALSE) \/ t = Stored(table, r, TRUE)
  BY <1>1, <1>2, <1>4
<1>5. ASSUME NEW h \in table, RecordKey(h.rec) = RecordKey(r), ~h.torn,
             NEW z \in Mixed(r, h.rec), t = Stored(table, z, FALSE)
      PROVE  HeldOk(t)
  <2> DEFINE o == h.rec
             x == [r EXCEPT !.data = o.data, !.sig = o.sig]
             y == [r EXCEPT !.sig = o.sig]
  <2>1. h.rec.type = "mate_encounter" \/ (h.rec.type \in Types /\ PartsSigned(h))
    BY DEF HeldOk
  <2>2. o.type = r.type
    BY <1>1, <1>5, <2>1, KeyFacts
  <2>3. (\E c \in from : o.data = c.data) /\ (\E c \in from : o.sig = c.sig)
    BY <1>1, <1>5, <2>1, <2>2 DEF PartsSigned, Types
  <2>4. /\ SameHeader(x, r) /\ x.data = o.data /\ x.sig = o.sig
        /\ SameHeader(y, r) /\ y.data = r.data /\ y.sig = o.sig
        /\ RecordKey(x) = RecordKey(r) /\ RecordKey(y) = RecordKey(r)
    BY <1>1, <1>5, <2>2, MixedFacts DEF Types
  <2>5. t = Stored(table, x, FALSE) \/ t = Stored(table, y, FALSE)
    BY <1>5 DEF Mixed
  <2> HIDE DEF x, y, o, from
  <2> QED BY <1>1, <1>2, <2>3, <2>4, <2>5
<1>6. CASE OverOld(table, r, t)
  BY <1>5, <1>6 DEF OverOld
<1> QED BY <1>3, <1>4, <1>6, OutcomeFacts

LEMMA RxMergeStep ==
  ASSUME IdInv, RxTyped, Owned, Handling, HeldOk(table), RxMerge
  PROVE  IdInv' /\ RxTyped' /\ Owned' /\ Handling' /\ HeldOk(table)' /\ Freed
<1>1. /\ UNCHANGED <<idVars, rxUp, heap, host, rxq>> /\ rx' = RxIdle /\ rx.pc = "merge" /\ rx.pd = {}
  BY DEF RxMerge, Handling
<1>2. Owned' /\ Freed
  BY <1>1, OwnedKept, IdleFacts
<1>3. RxTyped' /\ Handling'
  BY <1>1, IdleFacts DEF RxTyped, Handling
<1>4. HeldOk(table')
  <2>1. PICK r \in rx.rec :
          CASE MergeVerdict(r) = "rejected" -> table' = table
            [] MergeVerdict(r) = "old"      -> table' \in Encountered(table, rx.mate)
            [] MergeVerdict(r) = "merge"    ->
                 \E t \in PutOutcomes(table, r) : table' \in Encountered(t, rx.mate)
    BY DEF RxMerge
  <2>2. r \in Received
    BY DEF RxTyped, RxStates
  <2>3. MergeVerdict(r) \in {"rejected", "old", "merge"}
    BY DEF MergeVerdict
  <2>4. CASE MergeVerdict(r) = "rejected"
    BY <2>1, <2>4
  <2>5. CASE MergeVerdict(r) = "old"
    BY <2>1, <2>5, EncounteredFacts
  <2>6. CASE MergeVerdict(r) = "merge"
    BY <2>1, <2>2, <2>6, PutFacts, EncounteredFacts
  <2> QED BY <2>3, <2>4, <2>5, <2>6
<1>5. boot' = boot /\ IdInv'
  BY <1>1, IdKept DEF idVars
<1>6. HeldOk(table)'
  BY <1>4, <1>5 DEF HeldOk
<1> QED BY <1>2, <1>3, <1>5, <1>6
-----------------------------------------------------------------------------
(* All steps. *)

LEMMA InitInv == Init => IInv
BY IdInitInv, QuietFacts DEF Init, Quiet, IInv

LEMMA RestartStep ==
  ASSUME IInv, Restart
  PROVE  IInv' /\ Freed /\ Whole
<1>1. IdInv'
  BY IdRestartStep DEF IInv, Restart
<1>2. Quiet'
  BY DEF Quiet, Restart
<1>3. Freed
  BY DEF Freed, Restart
<1>4. Whole
  BY WholeKept DEF Restart, IdRestart
<1> QED BY <1>1, <1>2, <1>3, <1>4, QuietStep DEF IInv

(* The start runs before the receive thread, the shell beside it. *)
LEMMA StartStep ==
  ASSUME IInv, BootStep, UNCHANGED rxVars
  PROVE  IInv' /\ Freed /\ Whole
<1>1. IdInv' /\ Quiet
  BY BootStepInv DEF IInv, RxInv
<1>2. Quiet'
  BY <1>1 DEF Quiet, rxVars
<1>3. Freed
  BY DEF Freed, InUse, rxVars
<1>4. Whole
  <2>1. valid' = valid \/ valid' = NoFiles
    BY DEF BootStep, CheckStore, MakeDirs, SetupOwnKeys, SetupDone, SetupLearnedKey
  <2> QED BY <2>1, WholeKept
<1> QED BY <1>1, <1>2, <1>3, <1>4, QuietStep DEF IInv

LEMMA ShellStepKeeps ==
  ASSUME IInv, ShellStep, UNCHANGED rxVars
  PROVE  IInv' /\ Freed /\ Whole
<1>1. IdInv' /\ UNCHANGED <<keys, boot, setup>>
  BY ShellStepInv DEF IInv
<1>2. UNCHANGED <<rxUp, heap, host, rxq, rx, table>>
  BY DEF rxVars
<1>3. Owned' /\ Freed
  BY <1>2, OwnedKept DEF IInv, RxInv
<1>4. RxTyped' /\ Handling' /\ HeldOk(table)' /\ (boot'.mode # "run" => Quiet')
  BY <1>1, <1>2 DEF IInv, RxInv, RxTyped, Handling, Learned, HeldOk, Quiet
<1>5. Whole
  <2>1. valid' = valid \/ valid' = NoFiles
    BY DEF ShellStep, Provision, ProvisionOpen, ProvisionClose, Delete, Wipe, RecreateDirs
  <2> QED BY <2>1, WholeKept
<1> QED BY <1>1, <1>3, <1>4, <1>5 DEF IInv, RxInv

(* While the receive thread runs the start is over. *)
LEMMA RunFacts ==
  ASSUME IInv, boot' = boot,
         RxStart \/ (\E m \in Incoming : Scan(m)) \/ RxStep
  PROVE  boot'.mode = "run"
<1>1. boot.mode # "run" => rxUp = FALSE /\ rxq = <<>> /\ rx = RxIdle
  BY DEF IInv, RxInv, Quiet
<1>2. RxStart => boot.mode = "run"
  BY DEF RxStart
<1>3. (\E m \in Incoming : Scan(m)) => rxUp # FALSE
  BY DEF Scan
<1>4. RxStep => rxq # <<>> \/ rx # RxIdle
  <2>1. \A m : RxRecord(m) \/ RxIdentity(m) \/ RxOther(m) => rx.pc = "dispatch"
    BY DEF RxRecord, RxIdentity, RxOther
  <2> QED BY <2>1, IdleFacts DEF RxStep, RxReceive, RxAddKey, RxOpenFile, RxCloseFile, RxMerge
<1> QED BY <1>1, <1>2, <1>3, <1>4

LEMMA ThreadStep ==
  ASSUME IInv, RxStart \/ (\E m \in Incoming : Scan(m)) \/ RxStep
  PROVE  IInv' /\ Freed /\ Whole
<1> USE DEF IInv, RxInv
<1>1. CASE RxStart
  <2>1. /\ UNCHANGED <<idVars, heap, host, rxq, rx, table>> /\ rxUp' = TRUE
    BY <1>1 DEF RxStart
  <2>2. Owned' /\ Freed
    BY <2>1, OwnedKept
  <2>3. boot' = boot /\ keys' = keys /\ valid' = valid
    BY <2>1 DEF idVars
  <2>4. RxTyped' /\ Handling'
    BY <2>1, <2>3 DEF RxTyped, Handling, Learned
  <2> QED BY <1>1, <2>1, <2>2, <2>3, <2>4, IdKept, RunFacts, WholeKept
<1>2. CASE \E m \in Incoming : Scan(m)
  <2>1. RxTyped' /\ Owned' /\ Handling' /\ Freed
    BY <1>2, ScanStep
  <2>2. UNCHANGED idVars /\ table' = table
    BY <1>2 DEF Scan
  <2>3. boot' = boot /\ valid' = valid
    BY <2>2 DEF idVars
  <2> QED BY <1>2, <2>1, <2>2, <2>3, IdKept, RunFacts, WholeKept
<1>3. CASE RxReceive \/ \E m \in rx.pd : RxRecord(m) \/ RxIdentity(m) \/ RxOther(m)
  <2>1. RxTyped' /\ Owned' /\ Handling' /\ Freed
    BY <1>3, RxReceiveStep, RxRecordStep, RxIdentityStep, RxOtherStep DEF IdInv
  <2>2. UNCHANGED idVars /\ table' = table
    BY <1>3 DEF RxReceive, RxRecord, RxIdentity, RxOther
  <2>3. boot' = boot /\ valid' = valid
    BY <2>2 DEF idVars
  <2>4. RxStep
    BY <1>3 DEF RxStep
  <2> QED BY <2>1, <2>2, <2>3, <2>4, IdKept, RunFacts, WholeKept
<1>4. CASE RxAddKey \/ RxOpenFile \/ RxCloseFile
  <2>1. IdInv' /\ RxTyped' /\ Owned' /\ Handling' /\ Freed
    BY <1>4, RxAddKeyStep, RxOpenFileStep, RxCloseFileStep
  <2>2. boot' = boot /\ table' = table
    BY <1>4 DEF RxAddKey, RxOpenFile, RxCloseFile
  <2>3. Whole
    <3>1. RxAddKey => valid' = valid
      BY DEF RxAddKey
    <3> QED BY <1>4, <3>1, WholeKept, RxOpenFileStep, RxCloseFileStep
  <2>4. HeldOk(table)'
    BY <2>2 DEF HeldOk
  <2>5. RxStep
    BY <1>4 DEF RxStep
  <2> QED BY <2>1, <2>2, <2>3, <2>4, <2>5, RunFacts
<1>5. CASE RxMerge
  <2>1. boot' = boot /\ valid' = valid
    BY <1>5 DEF RxMerge, idVars
  <2>2. RxStep
    BY <1>5 DEF RxStep
  <2> QED BY <1>5, <2>1, <2>2, RxMergeStep, RunFacts, WholeKept
<1> QED BY <1>1, <1>2, <1>3, <1>4, <1>5 DEF RxStep

LEMMA StutterStep ==
  ASSUME IInv, UNCHANGED vars
  PROVE  IInv' /\ Freed /\ Whole
<1>1. UNCHANGED idVars /\ UNCHANGED rxVars
  BY DEF vars
<1>2. UNCHANGED <<rxUp, heap, host, rxq, rx, table>> /\ keys' = keys /\ valid' = valid /\ boot' = boot
  BY <1>1 DEF idVars, rxVars
<1>3. Owned' /\ Freed
  BY <1>2, OwnedKept DEF IInv, RxInv
<1>4. RxTyped' /\ Handling' /\ (boot'.mode # "run" => Quiet')
  BY <1>2 DEF IInv, RxInv, RxTyped, Handling, Learned, Quiet
<1> QED BY <1>1, <1>2, <1>3, <1>4, IdKept, WholeKept DEF IInv, RxInv

LEMMA StepInv == IInv /\ [Next]_vars => IInv' /\ Freed /\ Whole
BY RestartStep, StartStep, ShellStepKeeps, ThreadStep, StutterStep DEF Next

LEMMA Invariance == Spec => []IInv
<1>1. IInv /\ [Next]_vars => IInv'
  BY StepInv
<1> QED BY InitInv, <1>1, PTL DEF Spec
-----------------------------------------------------------------------------
(* The types, and the limits of the queue and of the memory. *)
THEOREM TypeCorrect == Spec => []TypeOK
<1>1. IInv => TypeOK
  <2> SUFFICES ASSUME IInv PROVE TypeOK
    OBVIOUS
  <2>1. boot.mode \in {"check", "format", "shell", "keys", "learned", "run"}
    BY DEF IInv, IdInv, IdTyped, BootStates
  <2>2. rx.pc \in {"recv", "dispatch", "add", "open", "close", "merge"}
    BY DEF IInv, RxInv, RxTyped, RxStates
  <2> QED BY <2>1, <2>2
        DEF IInv, IdInv, IdTyped, SelfOk, Files, RxInv, RxTyped, Owned, Mems, TypeOK
<1> QED BY Invariance, <1>1, PTL

(* No public key is trusted but the roots', the node's own and those a     *)
(* root has signed, whatever was on file (mate_ble.c:671-680).             *)
THEOREM KeysAreCertified == Spec => []OnlyCertified
<1>1. IInv => OnlyCertified
  BY DEF IInv, IdInv, KeysOk, OnlyCertified
<1> QED BY Invariance, <1>1, PTL

(* After a start that succeeded every node with a readable identity on     *)
(* file is known (credential_manager_setup.c:100-115).                     *)
THEOREM FiledAreKnown == Spec => []FiledIsKnown
<1>1. IInv => FiledIsKnown
  BY DEF IInv, IdInv, BootOk, FiledKnown, Known, FiledIsKnown
<1> QED BY Invariance, <1>1, PTL

(* Every part of what is held of another node is that of a record of its   *)
(* key that its writer signed, also after failed puts (tables.c:380-386).  *)
THEOREM HeldAreSigned == Spec => []StoredIsSigned
<1>1. IInv => StoredIsSigned
  BY DEF IInv, RxInv, HeldOk, StoredIsSigned
<1> QED BY Invariance, <1>1, PTL

(* Every buffer in use has one owner, and that of a record is freed        *)
(* (mate_ble.c:609-610, 660-723, 752).                                     *)
THEOREM BuffersAreFreed == Spec => RecordsFreed
<1>1. IInv /\ [Next]_vars =>
        /\ Cardinality({d.mem : d \in InUse'}) = Len(rxq') + Len(host') + Cardinality(rx'.pd)
        /\ \A d \in InUse \ InUse' : VersionInfo(d.msg) = {MessageCode.record} => d.mem \notin heap'
  <2> SUFFICES ASSUME IInv, [Next]_vars
               PROVE  /\ Cardinality({d.mem : d \in InUse'}) = Len(rxq') + Len(host') + Cardinality(rx'.pd)
                      /\ \A d \in InUse \ InUse' :
                           VersionInfo(d.msg) = {MessageCode.record} => d.mem \notin heap'
    OBVIOUS
  <2>1. IInv' /\ Freed
    BY StepInv
  <2> QED BY <2>1 DEF IInv, RxInv, Owned, Mems, Freed
<1> QED BY Invariance, <1>1, PTL DEF Spec, RecordsFreed

(* An identity that can be read from its file can be read until it is      *)
(* deleted (identity_store.c:34-57).                                       *)
THEOREM FilesAreWhole == Spec => FilesStayWhole
<1>1. IInv /\ [Next]_vars =>
        \A kid \in DOMAIN valid \cap DOMAIN valid' :
          PublicIdentity(valid, kid) # {} => PublicIdentity(valid', kid) # {}
  BY StepInv DEF Whole
<1> QED BY Invariance, <1>1, PTL DEF Spec, FilesStayWhole
=============================================================================
