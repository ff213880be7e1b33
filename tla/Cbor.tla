-------------------------------- MODULE Cbor --------------------------------
(***************************************************************************)
(* The messages of the nodes (cbor_serialization.c, decode_record.c): one  *)
(* CBOR array of simple values, unsigned integers and byte strings.  An    *)
(* item is its kind and its value, a byte string its content and length; a *)
(* message is the announced array size and the items.                      *)
(*                                                                         *)
(* Encoding and decoding return the set of possible results, empty when    *)
(* the code returns an error.  The integer limits are parameters, so that  *)
(* small models reach them; in the code they are 23, 255, 65535, 2^32-1.   *)
(***************************************************************************)
EXTENDS TableRecords

CONSTANTS InlineMax, Uint8Max, Uint16Max, Uint32Max,
          RecordBuffer,  \* MAX_SERIALIZED_RECORD_SIZE
          IdBuffer,      \* MAX_SERIALIZED_ID_REQRES_SIZE
          SampleIds      \* ids the round trips below are checked with

ASSUME CborAssumption ==
  /\ {InlineMax, Uint8Max, Uint16Max, Uint32Max} \subseteq Nat
  /\ InlineMax < Uint8Max
  /\ Uint8Max < Uint16Max /\ Uint16Max < Uint32Max

(* COSE signatures of the nodes have 77 bytes, MAX_SIGNATURE_SIZE is 80,   *)
(* MAX_SERIALIZED_RECORD_SIZE 128.                                         *)
ASSUME SignatureAssumption == SignatureLen \in 1 .. 80
ASSUME RecordBufferAssumption == RecordBuffer \in Nat /\ RecordBuffer >= 128

(* table_record_t as the tables file it: a type uses as many of the two id *)
(* fields as it has, and what has an encoding is about an open or a closed *)
(* gate; timestamps have 32 bits.                                          *)
IsRecord(r) ==
  /\ r \in [type : {"report", "observation", "gate_encounter", "mate_encounter",
                    "command", "job"},
             writer : {r.writer}, seq : Nat,
             ts     : [physical : 0 .. Uint32Max, logical : 0 .. Uint32Max],
             data   : [gate : {r.data.gate}, mate : {r.data.mate},
                       state : {"open", "closed", "unknown"}],
             sig    : [by : {r.sig.by}, len : {SignatureLen}]]
  /\ r.type \in {"report", "mate_encounter"} => r.data.gate = NoId
  /\ r.type \notin {"mate_encounter", "job"} => r.data.mate = NoId
  /\ r.type # "mate_encounter" => r.data.state # "unknown"

Simple(v)   == [kind |-> "simple", v |-> v, len |-> 1]
Uint(v)     == [kind |-> "uint", v |-> v, len |-> 1]
Bytes(v, n) == [kind |-> "bytes", v |-> v, len |-> n]
Message(size, items) == [size |-> size, items |-> items]

NODE_ID_SIZE        == 4
KID_LEN             == 4
ED25519_KEY_LEN     == 32
PUBID_LEN           == 40
PUBID_SIGNATURE_LEN == 80
LORAMAC_KEY_LENS    == <<8, 8, 16>>

ENCODING_V_1 == 1
MessageCode  == [record |-> 1, id_request |-> 2, id_response |-> 3]
TypeCode     == [report |-> 0, observation |-> 1, command |-> 3, job |-> 4]
StateCode    == [open |-> 0, closed |-> 1]

(* Bytes of an item and of a message as the CBOR library writes them. *)
UintSize(v) == CASE v <= InlineMax -> 1
                 [] v > InlineMax /\ v <= Uint8Max -> 2
                 [] v > Uint8Max /\ v <= Uint16Max -> 3
                 [] v > Uint16Max /\ v <= Uint32Max -> 5
                 [] OTHER -> 9
ItemSize(x) == CASE x.kind = "simple" -> 1
                 [] x.kind = "uint"   -> UintSize(x.v)
                 [] x.kind = "bytes"  -> x.len + IF x.len <= 23 THEN 1 ELSE 2
MessageSize(m) ==
  LET Upto[i \in 0 .. Len(m.items)] ==
        IF i = 0 THEN 1 ELSE Upto[i - 1] + ItemSize(m.items[i])
  IN  Upto[Len(m.items)]

(* Closing the array fails when it does not hold the announced items, and  *)
(* any item fails that does not fit into the buffer.                       *)
Written(m, capacity) ==
  IF m.size = Len(m.items) /\ MessageSize(m) <= capacity THEN {m} ELSE {}
-----------------------------------------------------------------------------
(* Mutant: a job has as many items as a command. *)
JobSizeMutant(r, includeSig) ==
  2 + 5 + [report |-> 1, observation |-> 2, command |-> 2, job |-> 2][r.type]
        + IF includeSig THEN 1 ELSE 0

(* _cbor_array_size_record: 2 for the message, 5 for the header, the data  *)
(* and the signature.                                                      *)
ArraySizeRecord(r, includeSig) ==
  2 + 5 + [report |-> 1, observation |-> 2, command |-> 2, job |-> 3][r.type]
        + IF includeSig THEN 1 ELSE 0

EncodeHeader(r) ==
  <<Simple(TypeCode[r.type]), Bytes(r.writer, NODE_ID_SIZE), Uint(r.seq),
    Uint(r.ts.physical), Uint(r.ts.logical)>>

EncodeData(r) ==
  (IF r.type = "report" THEN <<>> ELSE <<Bytes(r.data.gate, NODE_ID_SIZE)>>)
    \o (IF r.type = "job" THEN <<Bytes(r.data.mate, NODE_ID_SIZE)>> ELSE <<>>)
    \o <<Simple(StateCode[r.data.state])>>

(* Mutant: encounters are sent as observations. *)
EncounterMutant(r, includeSig, capacity) ==
  LET o == IF r.type = "gate_encounter" THEN [r EXCEPT !.type = "observation"] ELSE r
  IN  IF /\ o.type \in DOMAIN TypeCode
         /\ o.data.state \in DOMAIN StateCode
         /\ includeSig => o.sig # NoSignature
      THEN Written(Message(ArraySizeRecord(o, includeSig),
                           <<Simple(ENCODING_V_1), Simple(MessageCode.record)>>
                             \o EncodeHeader(o) \o EncodeData(o)
                             \o IF includeSig THEN <<Bytes(o.sig, o.sig.len)>> ELSE <<>>),
                   capacity)
      ELSE {}

(* cbor_serialize_record and cbor_serialize_record_no_sig.  Encounters and *)
(* gate states other than open and closed have no encoding.                *)
SerializeRecord(r, includeSig, capacity) ==
  IF /\ r.type \in DOMAIN TypeCode
     /\ r.data.state \in DOMAIN StateCode
     /\ includeSig => r.sig # NoSignature
  THEN Written(Message(ArraySizeRecord(r, includeSig),
                       <<Simple(ENCODING_V_1), Simple(MessageCode.record)>>
                         \o EncodeHeader(r) \o EncodeData(r)
                         \o IF includeSig THEN <<Bytes(r.sig, r.sig.len)>> ELSE <<>>),
               capacity)
  ELSE {}

(* identity_t is [kid, key], signed_identity_t [pubid, signature], where   *)
(* pubid is the message of the identity.                                   *)
EncodeIdentity(id) == <<Bytes(id.kid, KID_LEN), Bytes(id.key, ED25519_KEY_LEN)>>
EncodeSignedPubid(s) ==
  <<Bytes(s.pubid, PUBID_LEN), Bytes(s.signature, PUBID_SIGNATURE_LEN)>>

SerializeIdentity(id, capacity) == Written(Message(2, EncodeIdentity(id)), capacity)
SerializeSignedPublicIdentity(s, capacity) ==
  Written(Message(2, EncodeSignedPubid(s)), capacity)
SerializeIdReqres(type, s, capacity) ==
  IF type \in {"id_request", "id_response"}
  THEN Written(Message(2 + 2, <<Simple(ENCODING_V_1), Simple(MessageCode[type])>>
                                \o EncodeSignedPubid(s)), capacity)
  ELSE {}
-----------------------------------------------------------------------------
(* cbor_deserialize_simple_or_u8 accepts both kinds. *)
IsSmall(x) == x.kind = "simple" \/ (x.kind = "uint" /\ x.v <= Uint8Max)
SmallIs(items, i, v) == i <= Len(items) /\ IsSmall(items[i]) /\ items[i].v = v
BytesAt(items, i, n) == i <= Len(items) /\ items[i].kind = "bytes" /\ items[i].len = n
UintAt(items, i)     == i <= Len(items) /\ items[i].kind = "uint"
CodeAt(items, i, codes) ==
  {c \in DOMAIN codes : SmallIs(items, i, codes[c])}

(* Mutant: the comparison uses the limit of a narrower type. *)
StrictMutant(items, i) ==
  UintAt(items, i) /\ UintAt(items, i + 1) /\ items[i].v < Uint16Max /\ items[i + 1].v < Uint16Max

(* _cbor_decode_hlc_timestamp: the largest 32-bit value is refused, though *)
(* the encoder writes it.                                                  *)
TimestampAt(items, i) ==
  UintAt(items, i) /\ UintAt(items, i + 1) /\ items[i].v < Uint32Max /\ items[i + 1].v < Uint32Max

(* _cbor_decode_record_header, from item 3. *)
HeaderAt(items) ==
  /\ BytesAt(items, 4, NODE_ID_SIZE)
  /\ UintAt(items, 5)
  /\ TimestampAt(items, 6)

(* The items of the record data, from item 8: how many ids, then the state. *)
IdCount(type) == CASE type = "report" -> 0
                   [] type \in {"observation", "command"} -> 1
                   [] type = "job" -> 2
DataAt(items, type) ==
  /\ \A i \in 1 .. IdCount(type) : BytesAt(items, 7 + i, NODE_ID_SIZE)
  /\ CodeAt(items, 8 + IdCount(type), StateCode) # {}

(* _cbor_decode_record_signature and its caller: buffer is the capacity of *)
(* the caller's signature buffer, NoBuffer for NULL.  Without a buffer the *)
(* length is set but the signature stays NULL.                             *)
SignatureAt(items, i, buffer) ==
  IF i > Len(items) THEN (IF buffer = NoBuffer THEN {NoSignature} ELSE {})
  ELSE IF items[i].kind # "bytes" THEN {}
  ELSE IF buffer = NoBuffer THEN {[by |-> NoId, len |-> items[i].len]}
  ELSE IF items[i].len > buffer THEN {} ELSE {items[i].v}

(* cbor_msg_version_info: the message type of a message of version 1. *)
VersionInfo(m) ==
  IF /\ SmallIs(m.items, 1, ENCODING_V_1)
     /\ Len(m.items) >= 2 /\ IsSmall(m.items[2])
  THEN {m.items[2].v} ELSE {}

(* cbor_decode_record of a record of that type, and its caller            *)
(* cbor_deserialize_record, which also leaves the array.                   *)
DecodeRecord(items, type, buffer) ==
  IF HeaderAt(items) /\ DataAt(items, type) /\ Len(items) <= 9 + IdCount(type)
  THEN {[type   |-> type,
         writer |-> items[4].v,
         seq    |-> items[5].v,
         ts     |-> [physical |-> items[6].v, logical |-> items[7].v],
         data   |-> [gate  |-> IF IdCount(type) >= 1 THEN items[8].v ELSE NoId,
                     mate  |-> IF IdCount(type) = 2 THEN items[9].v ELSE NoId,
                     state |-> CHOOSE c \in CodeAt(items, 8 + IdCount(type), StateCode) : TRUE],
         sig    |-> sig] : sig \in SignatureAt(items, 9 + IdCount(type), buffer)}
  ELSE {}

DeserializeRecord(m, buffer) ==
  IF VersionInfo(m) = {MessageCode.record}
  THEN UNION {DecodeRecord(m.items, type, buffer) : type \in CodeAt(m.items, 3, TypeCode)}
  ELSE {}

(* Mutant: the two lengths are swapped. *)
SwappedLengthsMutant(items, i) ==
  BytesAt(items, i, PUBID_SIGNATURE_LEN) /\ BytesAt(items, i + 1, PUBID_LEN)

SignedPubidAt(items, i) ==
  BytesAt(items, i, PUBID_LEN) /\ BytesAt(items, i + 1, PUBID_SIGNATURE_LEN)
SignedIdentity(items, i) == [pubid |-> items[i].v, signature |-> items[i + 1].v]
IdentityAt(items, i) == BytesAt(items, i, KID_LEN) /\ BytesAt(items, i + 1, ED25519_KEY_LEN)
Identity(items, i)   == [kid |-> items[i].v, key |-> items[i + 1].v]

(* cbor_deserialize_id_reqres. *)
DeserializeIdReqres(m) ==
  IF /\ VersionInfo(m) \in {{MessageCode.id_request}, {MessageCode.id_response}}
     /\ SignedPubidAt(m.items, 3) /\ Len(m.items) = 4
  THEN {SignedIdentity(m.items, 3)} ELSE {}

(* cbor_deserialize_identity and cbor_deserialize_signed_identity. *)
DeserializeIdentity(m) ==
  IF IdentityAt(m.items, 1) /\ Len(m.items) = 2 THEN {Identity(m.items, 1)} ELSE {}
DeserializeSignedIdentity(m) ==
  IF SignedPubidAt(m.items, 1) /\ Len(m.items) = 2 THEN {SignedIdentity(m.items, 1)} ELSE {}

(* cbor_deserialize_provisioning_data: root identity, private identity,    *)
(* own signed identity and three LoRaMAC keys.                             *)
DeserializeProvisioningData(m) ==
  IF /\ IdentityAt(m.items, 1) /\ IdentityAt(m.items, 3) /\ SignedPubidAt(m.items, 5)
     /\ \A i \in 1 .. 3 : BytesAt(m.items, 6 + i, LORAMAC_KEY_LENS[i])
     /\ Len(m.items) = 9
  THEN {[root |-> Identity(m.items, 1), private |-> Identity(m.items, 3),
         own |-> SignedIdentity(m.items, 5),
         loramac |-> <<m.items[7].v, m.items[8].v, m.items[9].v>>]}
  ELSE {}
-----------------------------------------------------------------------------
(* Records with every data and, for each of their integers, every value up *)
(* to and beyond the limits above.                                         *)
SampleTimes == [physical : 0 .. Uint32Max, logical : {0, Uint16Max, Uint32Max}]
SampleRecords ==
  {Record(type, w, seq, t, IF IdCount(type) >= 1 THEN g ELSE NoId,
          IF IdCount(type) = 2 THEN d ELSE NoId, s) :
     type \in DOMAIN TypeCode, w \in SampleIds, seq \in {0, Uint8Max, Uint32Max + 1},
     t \in SampleTimes, g \in SampleIds, d \in SampleIds, s \in {"open", "closed"}}

(* What is encoded is decoded again, without a buffer for the signature to *)
(* the record without its signature.                                       *)
RoundTrips(r) ==
  /\ \A m \in SerializeRecord(r, TRUE, RecordBuffer) :
       /\ DeserializeRecord(m, 80) = {r}
       /\ DeserializeRecord(m, NoBuffer) = {[r EXCEPT !.sig.by = NoId]}
       /\ DeserializeRecord(m, r.sig.len - 1) = {}
  /\ \A m \in SerializeRecord(r, FALSE, RecordBuffer) :
       /\ DeserializeRecord(m, NoBuffer) = {[r EXCEPT !.sig = NoSignature]}
       /\ DeserializeRecord(m, 80) = {}

IdentityRoundTrips(id, signature) ==
  \A p \in SerializeIdentity(id, PUBID_LEN) :
    LET s == [pubid |-> p, signature |-> signature]
    IN  /\ DeserializeIdentity(p) = {id}
        /\ \A m \in SerializeSignedPublicIdentity(s, IdBuffer) :
             DeserializeSignedIdentity(m) = {s}
        /\ \A m \in SerializeIdReqres("id_response", s, IdBuffer) :
             VersionInfo(m) = {MessageCode.id_response} /\ DeserializeIdReqres(m) = {s}
=============================================================================
