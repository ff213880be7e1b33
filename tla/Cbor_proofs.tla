----------------------------- MODULE Cbor_proofs -----------------------------
(***************************************************************************)
(* Proofs about the encoding of records and identities: what a node        *)
(* encodes any node decodes to the same, for every record and whichever    *)
(* integers it holds.                                                      *)
(***************************************************************************)
EXTENDS Cbor, SequenceTheorems, WellFoundedInduction, TLAPS

Types  == {"report", "observation", "command", "job"}
States == {"open", "closed"}

LEMMA CodeFacts ==
  /\ DOMAIN TypeCode = Types /\ DOMAIN StateCode = States
  /\ TypeCode["report"] = 0 /\ TypeCode["observation"] = 1
  /\ TypeCode["command"] = 3 /\ TypeCode["job"] = 4
  /\ StateCode["open"] = 0 /\ StateCode["closed"] = 1
  /\ MessageCode.record = 1 /\ MessageCode.id_request = 2 /\ MessageCode.id_response = 3
BY DEF TypeCode, StateCode, MessageCode, Types, States

LEMMA ItemFacts ==
  ASSUME NEW v, NEW n
  PROVE  /\ Simple(v).kind = "simple" /\ Simple(v).v = v
         /\ Uint(v).kind = "uint" /\ Uint(v).v = v
         /\ Bytes(v, n).kind = "bytes" /\ Bytes(v, n).v = v /\ Bytes(v, n).len = n
BY DEF Simple, Uint, Bytes

(* The records a node can file and send: a type uses as many of the two id *)
(* fields as it has; timestamps are 32 bits.                               *)
WireRecord(r) ==
  /\ r = [type |-> r.type, writer |-> r.writer, seq |-> r.seq,
          ts |-> [physical |-> r.ts.physical, logical |-> r.ts.logical],
          data |-> [gate |-> r.data.gate, mate |-> r.data.mate, state |-> r.data.state],
          sig |-> [by |-> r.sig.by, len |-> r.sig.len]]
  /\ r.type \in Types /\ r.data.state \in States /\ r.seq \in Nat
  /\ r.ts.physical \in 0 .. Uint32Max /\ r.ts.logical \in 0 .. Uint32Max
  /\ r.sig.len \in Nat
  /\ IdCount(r.type) = 0 => r.data.gate = NoId
  /\ IdCount(r.type) < 2 => r.data.mate = NoId

(* The record with another signature, or with none. *)
Signed(r, sig) ==
  [type |-> r.type, writer |-> r.writer, seq |-> r.seq,
   ts |-> [physical |-> r.ts.physical, logical |-> r.ts.logical],
   data |-> [gate |-> r.data.gate, mate |-> r.data.mate, state |-> r.data.state],
   sig |-> sig]

LEMMA SignedFacts ==
  ASSUME NEW r, WireRecord(r)
  PROVE  /\ Signed(r, r.sig) = r
         /\ [r EXCEPT !.sig.by = NoId] = Signed(r, [by |-> NoId, len |-> r.sig.len])
         /\ [r EXCEPT !.sig = NoSignature] = Signed(r, NoSignature)
BY DEF WireRecord, Signed

LEMMA IdCountFacts ==
  ASSUME NEW type \in Types
  PROVE  /\ IdCount(type) \in 0 .. 2
         /\ type = "report" <=> IdCount(type) = 0
         /\ type = "job" <=> IdCount(type) = 2
BY DEF IdCount, Types

(* The items of a record's message, tail being those of the signature. *)
Encoding(r, tail) ==
  <<Simple(ENCODING_V_1), Simple(MessageCode.record)>>
    \o EncodeHeader(r) \o EncodeData(r) \o tail

LEMMA Concat ==
  ASSUME NEW S, NEW l \in Seq(S), NEW r \in Seq(S), NEW u \in Seq(S),
         Len(u) = Len(l) + Len(r),
         \A n \in 1 .. Len(l) : u[n] = l[n],
         \A n \in 1 .. Len(r) : u[Len(l) + n] = r[n]
  PROVE  l \o r = u
<1> DEFINE c == l \o r
<1>1. c \in Seq(S) /\ Len(c) = Len(l) + Len(r) /\ Len(l) \in Nat /\ Len(r) \in Nat
  OBVIOUS
<1>2. \A n \in 1 .. Len(l) : c[n] = l[n]
  OBVIOUS
<1>3. \A n \in 1 .. Len(r) : c[Len(l) + n] = r[n]
  OBVIOUS
<1> HIDE DEF c
<1>4. \A n \in 1 .. Len(c) : n \in 1 .. Len(l) \/ (n - Len(l) \in 1 .. Len(r) /\ Len(l) + (n - Len(l)) = n)
  BY <1>1
<1>5. \A n \in 1 .. Len(c) : c[n] = u[n]
  BY ZenonT(40), <1>2, <1>3, <1>4
<1> QED BY <1>1, <1>5, SeqEqual DEF c

(* A message of n ids, item by item. *)
Encodes(i, r) ==
  LET n == IdCount(r.type)
  IN  /\ Len(i) \in {8 + n, 9 + n}
      /\ i[1] = Simple(ENCODING_V_1) /\ i[2] = Simple(MessageCode.record)
      /\ i[3] = Simple(TypeCode[r.type]) /\ i[4] = Bytes(r.writer, NODE_ID_SIZE)
      /\ i[5] = Uint(r.seq) /\ i[6] = Uint(r.ts.physical) /\ i[7] = Uint(r.ts.logical)
      /\ n >= 1 => i[8] = Bytes(r.data.gate, NODE_ID_SIZE)
      /\ n = 2 => i[9] = Bytes(r.data.mate, NODE_ID_SIZE)
      /\ i[8 + n] = Simple(StateCode[r.data.state])

LEMMA EncodingFacts ==
  ASSUME NEW r, r.type \in Types, NEW x
  PROVE  LET n == IdCount(r.type)
             i == Encoding(r, <<x>>)
         IN  /\ Encodes(Encoding(r, <<>>), r) /\ Len(Encoding(r, <<>>)) = 8 + n
             /\ Encodes(i, r) /\ Len(i) = 9 + n /\ i[9 + n] = x
<1> DEFINE a == Simple(ENCODING_V_1)
           b == Simple(MessageCode.record)
           c == Simple(TypeCode[r.type])
           d == Bytes(r.writer, NODE_ID_SIZE)
           e == Uint(r.seq)
           f == Uint(r.ts.physical)
           g == Uint(r.ts.logical)
           h == Bytes(r.data.gate, NODE_ID_SIZE)
           k == Bytes(r.data.mate, NODE_ID_SIZE)
           s == Simple(StateCode[r.data.state])
           n == IdCount(r.type)
           Facts(i, t) == /\ Len(i) = IF t = <<>> THEN 8 + n ELSE 9 + n
                          /\ i[1] = a /\ i[2] = b /\ i[3] = c /\ i[4] = d /\ i[5] = e
                          /\ i[6] = f /\ i[7] = g
                          /\ n >= 1 => i[8] = h
                          /\ n = 2 => i[9] = k
                          /\ i[8 + n] = s
                          /\ t = <<x>> => i[9 + n] = x
<1>1. n \in 0 .. 2 /\ (r.type = "report" <=> n = 0) /\ (r.type = "job" <=> n = 2)
  BY IdCountFacts
<1>2. EncodeData(r) = (IF n = 0 THEN <<>> ELSE <<h>>)
                        \o (IF n = 2 THEN <<k>> ELSE <<>>) \o <<s>>
  BY <1>1 DEF EncodeData
<1>3. /\ Encoding(r, <<>>)    = <<a, b>> \o <<c, d, e, f, g>> \o EncodeData(r) \o <<>>
      /\ Encoding(r, <<x>>) = <<a, b>> \o <<c, d, e, f, g>> \o EncodeData(r) \o <<x>>
  BY DEF Encoding, EncodeHeader
<1>4. Facts(Encoding(r, <<>>), <<>>) /\ Facts(Encoding(r, <<x>>), <<x>>)
  <2> DEFINE S == {a, b, c, d, e, f, g, h, k, s, x}
  <2> HIDE DEF a, b, c, d, e, f, g, h, k, s, n
  <2>1. /\ a \in S /\ b \in S /\ c \in S /\ d \in S /\ e \in S /\ f \in S
        /\ g \in S /\ h \in S /\ k \in S /\ s \in S /\ x \in S
    OBVIOUS
  <2> HIDE DEF S, Facts
  <2>2. <<a, b>> \o <<c, d, e, f, g>> = <<a, b, c, d, e, f, g>>
    <3> DEFINE l == <<a, b>>
               w == <<c, d, e, f, g>>
               u == <<a, b, c, d, e, f, g>>
    <3>1. l \in Seq(S) /\ w \in Seq(S) /\ u \in Seq(S)
      BY <2>1
    <3>2. Len(u) = Len(l) + Len(w)
      OBVIOUS
    <3>3. \A j \in 1 .. Len(l) : u[j] = l[j]
      OBVIOUS
    <3>4. \A j \in 1 .. Len(w) : u[Len(l) + j] = w[j]
      OBVIOUS
    <3> QED BY <3>1, <3>2, <3>3, <3>4, Concat, Zenon
  <2>3. CASE n = 0
    <3>1. EncodeData(r) = <<s>>
      BY <1>2, <2>3
    <3>2. <<a, b, c, d, e, f, g>> \o <<s>> = <<a, b, c, d, e, f, g, s>>
      <4> DEFINE l == <<a, b, c, d, e, f, g>>
                 w == <<s>>
                 u == <<a, b, c, d, e, f, g, s>>
      <4>1. l \in Seq(S) /\ w \in Seq(S) /\ u \in Seq(S)
        BY <2>1
      <4>2. Len(u) = Len(l) + Len(w)
        OBVIOUS
      <4>3. \A j \in 1 .. Len(l) : u[j] = l[j]
        OBVIOUS
      <4>4. \A j \in 1 .. Len(w) : u[Len(l) + j] = w[j]
        OBVIOUS
      <4> QED BY <4>1, <4>2, <4>3, <4>4, Concat, Zenon
    <3>3. <<a, b, c, d, e, f, g, s>> \o <<x>> = <<a, b, c, d, e, f, g, s, x>>
      <4> DEFINE l == <<a, b, c, d, e, f, g, s>>
                 w == <<x>>
                 u == <<a, b, c, d, e, f, g, s, x>>
      <4>1. l \in Seq(S) /\ w \in Seq(S) /\ u \in Seq(S)
        BY <2>1
      <4>2. Len(u) = Len(l) + Len(w)
        OBVIOUS
      <4>3. \A j \in 1 .. Len(l) : u[j] = l[j]
        OBVIOUS
      <4>4. \A j \in 1 .. Len(w) : u[Len(l) + j] = w[j]
        OBVIOUS
      <4> QED BY <4>1, <4>2, <4>3, <4>4, Concat, Zenon
    <3>4. <<a, b, c, d, e, f, g, s>> \o <<>> = <<a, b, c, d, e, f, g, s>>
      OBVIOUS
    <3>5. Encoding(r, <<>>) = <<a, b, c, d, e, f, g, s>>
      BY <1>3, <2>2, <3>1, <3>2, <3>4, Zenon
    <3>6. Encoding(r, <<x>>) = <<a, b, c, d, e, f, g, s, x>>
      BY <1>3, <2>2, <3>1, <3>2, <3>3, Zenon
    <3> QED BY <2>3, <3>5, <3>6 DEF Facts
  <2>4. CASE n = 1
    <3>1. EncodeData(r) = <<h, s>>
      <4>1. EncodeData(r) = (<<h>> \o <<>>) \o <<s>>
        BY <1>2, <2>4
      <4>2. <<h>> \o <<>> = <<h>>
        OBVIOUS
      <4>3. <<h>> \o <<s>> = <<h, s>>
        <5> DEFINE l == <<h>>
                   w == <<s>>
                   u == <<h, s>>
        <5>1. l \in Seq(S) /\ w \in Seq(S) /\ u \in Seq(S)
          BY <2>1
        <5>2. Len(u) = Len(l) + Len(w)
          OBVIOUS
        <5>3. \A j \in 1 .. Len(l) : u[j] = l[j]
          OBVIOUS
        <5>4. \A j \in 1 .. Len(w) : u[Len(l) + j] = w[j]
          OBVIOUS
        <5> QED BY <5>1, <5>2, <5>3, <5>4, Concat, Zenon
      <4> QED BY <4>1, <4>2, <4>3, Zenon
    <3>2. <<a, b, c, d, e, f, g>> \o <<h, s>> = <<a, b, c, d, e, f, g, h, s>>
      <4> DEFINE l == <<a, b, c, d, e, f, g>>
                 w == <<h, s>>
                 u == <<a, b, c, d, e, f, g, h, s>>
      <4>1. l \in Seq(S) /\ w \in Seq(S) /\ u \in Seq(S)
        BY <2>1
      <4>2. Len(u) = Len(l) + Len(w)
        OBVIOUS
      <4>3. \A j \in 1 .. Len(l) : u[j] = l[j]
        OBVIOUS
      <4>4. \A j \in 1 .. Len(w) : u[Len(l) + j] = w[j]
        OBVIOUS
      <4> QED BY <4>1, <4>2, <4>3, <4>4, Concat, Zenon
    <3>3. <<a, b, c, d, e, f, g, h, s>> \o <<x>> = <<a, b, c, d, e, f, g, h, s, x>>
      <4> DEFINE l == <<a, b, c, d, e, f, g, h, s>>
                 w == <<x>>
                 u == <<a, b, c, d, e, f, g, h, s, x>>
      <4>1. l \in Seq(S) /\ w \in Seq(S) /\ u \in Seq(S)
        BY <2>1
      <4>2. Len(u) = Len(l) + Len(w)
        OBVIOUS
      <4>3. \A j \in 1 .. Len(l) : u[j] = l[j]
        OBVIOUS
      <4>4. \A j \in 1 .. Len(w) : u[Len(l) + j] = w[j]
        OBVIOUS
      <4> QED BY <4>1, <4>2, <4>3, <4>4, Concat, Zenon
    <3>4. <<a, b, c, d, e, f, g, h, s>> \o <<>> = <<a, b, c, d, e, f, g, h, s>>
      OBVIOUS
    <3>5. Encoding(r, <<>>) = <<a, b, c, d, e, f, g, h, s>>
      BY <1>3, <2>2, <3>1, <3>2, <3>4, Zenon
    <3>6. Encoding(r, <<x>>) = <<a, b, c, d, e, f, g, h, s, x>>
      BY <1>3, <2>2, <3>1, <3>2, <3>3, Zenon
    <3> QED BY <2>4, <3>5, <3>6 DEF Facts
  <2>5. CASE n = 2
    <3>1. EncodeData(r) = <<h, k, s>>
      <4>1. EncodeData(r) = (<<h>> \o <<k>>) \o <<s>>
        BY <1>2, <2>5
      <4>2. <<h>> \o <<k>> = <<h, k>>
        <5> DEFINE l == <<h>>
                   w == <<k>>
                   u == <<h, k>>
        <5>1. l \in Seq(S) /\ w \in Seq(S) /\ u \in Seq(S)
          BY <2>1
        <5>2. Len(u) = Len(l) + Len(w)
          OBVIOUS
        <5>3. \A j \in 1 .. Len(l) : u[j] = l[j]
          OBVIOUS
        <5>4. \A j \in 1 .. Len(w) : u[Len(l) + j] = w[j]
          OBVIOUS
        <5> QED BY <5>1, <5>2, <5>3, <5>4, Concat, Zenon
      <4>3. <<h, k>> \o <<s>> = <<h, k, s>>
        <5> DEFINE l == <<h, k>>
                   w == <<s>>
                   u == <<h, k, s>>
        <5>1. l \in Seq(S) /\ w \in Seq(S) /\ u \in Seq(S)
          BY <2>1
        <5>2. Len(u) = Len(l) + Len(w)
          OBVIOUS
        <5>3. \A j \in 1 .. Len(l) : u[j] = l[j]
          OBVIOUS
        <5>4. \A j \in 1 .. Len(w) : u[Len(l) + j] = w[j]
          OBVIOUS
        <5> QED BY <5>1, <5>2, <5>3, <5>4, Concat, Zenon
      <4> QED BY <4>1, <4>2, <4>3, Zenon
    <3>2. <<a, b, c, d, e, f, g>> \o <<h, k, s>> = <<a, b, c, d, e, f, g, h, k, s>>
      <4> DEFINE l == <<a, b, c, d, e, f, g>>
                 w == <<h, k, s>>
                 u == <<a, b, c, d, e, f, g, h, k, s>>
      <4>1. l \in Seq(S) /\ w \in Seq(S) /\ u \in Seq(S)
        BY <2>1
      <4>2. Len(u) = Len(l) + Len(w)
        OBVIOUS
      <4>3. \A j \in 1 .. Len(l) : u[j] = l[j]
        OBVIOUS
      <4>4. \A j \in 1 .. Len(w) : u[Len(l) + j] = w[j]
        OBVIOUS
      <4> QED BY <4>1, <4>2, <4>3, <4>4, Concat, Zenon
    <3>3. <<a, b, c, d, e, f, g, h, k, s>> \o <<x>> = <<a, b, c, d, e, f, g, h, k, s, x>>
      <4> DEFINE l == <<a, b, c, d, e, f, g, h, k, s>>
                 w == <<x>>
                 u == <<a, b, c, d, e, f, g, h, k, s, x>>
      <4>1. l \in Seq(S) /\ w \in Seq(S) /\ u \in Seq(S)
        BY <2>1
      <4>2. Len(u) = Len(l) + Len(w)
        OBVIOUS
      <4>3. \A j \in 1 .. Len(l) : u[j] = l[j]
        OBVIOUS
      <4>4. \A j \in 1 .. Len(w) : u[Len(l) + j] = w[j]
        OBVIOUS
      <4> QED BY <4>1, <4>2, <4>3, <4>4, Concat, Zenon
    <3>4. <<a, b, c, d, e, f, g, h, k, s>> \o <<>> = <<a, b, c, d, e, f, g, h, k, s>>
      OBVIOUS
    <3>5. Encoding(r, <<>>) = <<a, b, c, d, e, f, g, h, k, s>>
      BY <1>3, <2>2, <3>1, <3>2, <3>4, Zenon
    <3>6. Encoding(r, <<x>>) = <<a, b, c, d, e, f, g, h, k, s, x>>
      BY <1>3, <2>2, <3>1, <3>2, <3>3, Zenon
    <3> QED BY <2>5, <3>5, <3>6 DEF Facts
  <2> QED BY <1>1, <2>3, <2>4, <2>5
<1> QED BY <1>4 DEF Encodes
-----------------------------------------------------------------------------
(* Decoding undoes it. *)

LEMMA SerializeFacts ==
  ASSUME NEW r, NEW includeSig \in BOOLEAN, NEW capacity,
         NEW m \in SerializeRecord(r, includeSig, capacity)
  PROVE  /\ r.type \in Types /\ r.data.state \in States
         /\ m.items = Encoding(r, IF includeSig THEN <<Bytes(r.sig, r.sig.len)>> ELSE <<>>)
<1>1. r.type \in Types /\ r.data.state \in States
  BY CodeFacts DEF SerializeRecord
<1>2. m.items = Encoding(r, IF includeSig THEN <<Bytes(r.sig, r.sig.len)>> ELSE <<>>)
  BY DEF SerializeRecord, Written, Message, Encoding
<1> QED BY <1>1, <1>2

(* A code is decoded to what it stands for.                                *)
LEMMA CodeAtFacts ==
  ASSUME NEW items, NEW i \in Nat, i <= Len(items)
  PROVE  /\ \A c \in Types : items[i] = Simple(TypeCode[c]) => CodeAt(items, i, TypeCode) = {c}
         /\ \A c \in States : items[i] = Simple(StateCode[c]) => CodeAt(items, i, StateCode) = {c}
<1>1. ASSUME NEW c \in Types, items[i] = Simple(TypeCode[c])
      PROVE  CodeAt(items, i, TypeCode) = {c}
  BY <1>1, CodeFacts, ItemFacts DEF CodeAt, SmallIs, IsSmall, Types
<1>2. ASSUME NEW c \in States, items[i] = Simple(StateCode[c])
      PROVE  CodeAt(items, i, StateCode) = {c}
  BY <1>2, CodeFacts, ItemFacts DEF CodeAt, SmallIs, IsSmall, States
<1> QED BY <1>1, <1>2

LEMMA DecodeFacts ==
  ASSUME NEW r, WireRecord(r), Uint32Max \notin {r.ts.physical, r.ts.logical},
         NEW i, Encodes(i, r), NEW buffer
  PROVE  DecodeRecord(i, r.type, buffer) =
           {Signed(r, sig) : sig \in SignatureAt(i, 9 + IdCount(r.type), buffer)}
<1> DEFINE n == IdCount(r.type)
<1>1. r.type \in Types /\ n \in 0 .. 2 /\ r.data.state \in States
  BY IdCountFacts DEF WireRecord
<1>2. /\ Len(i) \in {8 + n, 9 + n}
      /\ i[4] = Bytes(r.writer, NODE_ID_SIZE)
      /\ i[5] = Uint(r.seq) /\ i[6] = Uint(r.ts.physical) /\ i[7] = Uint(r.ts.logical)
      /\ n >= 1 => i[8] = Bytes(r.data.gate, NODE_ID_SIZE)
      /\ n = 2 => i[9] = Bytes(r.data.mate, NODE_ID_SIZE)
      /\ i[8 + n] = Simple(StateCode[r.data.state])
  BY DEF Encodes
<1>3. Len(i) \in Nat /\ Len(i) >= 8 + n /\ Len(i) <= 9 + n /\ 8 + n \in Nat
  BY <1>1, <1>2
<1>4. HeaderAt(i)
  <2>1. r.ts.physical < Uint32Max /\ r.ts.logical < Uint32Max
    BY CborAssumption DEF WireRecord
  <2>2. i[4].kind = "bytes" /\ i[4].len = NODE_ID_SIZE
    BY <1>2, ItemFacts
  <2>3. /\ i[5].kind = "uint" /\ i[6].kind = "uint" /\ i[7].kind = "uint"
        /\ i[6].v = r.ts.physical /\ i[7].v = r.ts.logical
    BY <1>2 DEF Uint
  <2> QED BY <1>1, <1>3, <2>1, <2>2, <2>3 DEF HeaderAt, BytesAt, UintAt, TimestampAt
<1>5. CodeAt(i, 8 + n, StateCode) = {r.data.state}
  BY <1>1, <1>2, <1>3, CodeAtFacts
<1>6. DataAt(i, r.type)
  <2>1. \A j \in 1 .. n : BytesAt(i, 7 + j, NODE_ID_SIZE)
    <3>1. ASSUME NEW j \in 1 .. n PROVE BytesAt(i, 7 + j, NODE_ID_SIZE)
      <4>1. j = 1 \/ (j = 2 /\ n = 2)
        BY <1>1
      <4>2. i[7 + j].kind = "bytes" /\ i[7 + j].len = NODE_ID_SIZE
        BY <1>1, <1>2, <4>1, ItemFacts
      <4> QED BY <1>1, <1>3, <4>2 DEF BytesAt
    <3> QED BY <3>1
  <2> QED BY <1>5, <2>1 DEF DataAt
<1>8. /\ i[4].v = r.writer /\ i[5].v = r.seq
      /\ i[6].v = r.ts.physical /\ i[7].v = r.ts.logical
      /\ (IF n >= 1 THEN i[8].v ELSE NoId) = r.data.gate
      /\ (IF n = 2 THEN i[9].v ELSE NoId) = r.data.mate
      /\ (CHOOSE c \in CodeAt(i, 8 + n, StateCode) : TRUE) = r.data.state
  <2>1. /\ n < 1 => r.data.gate = NoId
        /\ n # 2 => r.data.mate = NoId
    BY <1>1 DEF WireRecord
  <2>2. (CHOOSE c \in {r.data.state} : TRUE) = r.data.state
    OBVIOUS
  <2>3. i[4].v = r.writer /\ i[5].v = r.seq /\ i[6].v = r.ts.physical /\ i[7].v = r.ts.logical
    BY <1>2 DEF Bytes, Uint
  <2>4. (n >= 1 => i[8].v = r.data.gate) /\ (n = 2 => i[9].v = r.data.mate)
    BY <1>2 DEF Bytes
  <2> QED BY <1>1, <1>5, <2>1, <2>2, <2>3, <2>4
<1> HIDE DEF n
<1>9. DecodeRecord(i, r.type, buffer) = {Signed(r, sig) : sig \in SignatureAt(i, 9 + n, buffer)}
  <2>1. HeaderAt(i) /\ DataAt(i, r.type) /\ Len(i) <= 9 + n
    BY <1>3, <1>4, <1>6
  <2> QED BY ZenonT(40), <2>1, <1>8 DEF DecodeRecord, Signed, n
<1> QED BY <1>9 DEF n

LEMMA DeserializeFacts ==
  ASSUME NEW r, WireRecord(r), Uint32Max \notin {r.ts.physical, r.ts.logical},
         NEW m, Encodes(m.items, r), NEW buffer
  PROVE  DeserializeRecord(m, buffer) =
           {Signed(r, sig) : sig \in SignatureAt(m.items, 9 + IdCount(r.type), buffer)}
<1> DEFINE i == m.items
<1>1. r.type \in Types /\ IdCount(r.type) \in 0 .. 2
  BY IdCountFacts DEF WireRecord
<1>2. /\ Len(i) \in Nat /\ Len(i) >= 3
      /\ i[1] = Simple(ENCODING_V_1) /\ i[2] = Simple(MessageCode.record)
      /\ i[3] = Simple(TypeCode[r.type])
  BY SMTT(30), <1>1 DEF Encodes
<1>3. VersionInfo(m) = {MessageCode.record}
  <2>1. i[1].kind = "simple" /\ i[1].v = ENCODING_V_1
    BY <1>2 DEF Simple
  <2>2. i[2].kind = "simple" /\ i[2].v = MessageCode.record
    BY <1>2 DEF Simple
  <2> QED BY <1>2, <2>1, <2>2 DEF VersionInfo, SmallIs, IsSmall
<1>4. CodeAt(i, 3, TypeCode) = {r.type}
  BY <1>1, <1>2, CodeAtFacts
<1>5. DeserializeRecord(m, buffer) = DecodeRecord(i, r.type, buffer)
  BY <1>3, <1>4 DEF DeserializeRecord
<1> QED BY <1>5, DecodeFacts

(* The recursive function in MessageSize exists: it is extended item by    *)
(* item, as far as messages are long.                                      *)
Sums(m, n, f) == [i \in 0 .. n |-> IF i = 0 THEN 1 ELSE f[i - 1] + ItemSize(m.items[i])]

LEMMA SumsExtend ==
  ASSUME NEW m, NEW n \in Nat, \E f : f = Sums(m, n, f)
  PROVE  \E f : f = Sums(m, n + 1, f)
<1>1. PICK f : f = Sums(m, n, f)
  OBVIOUS
<1> DEFINE g == [i \in 0 .. n + 1 |-> IF i <= n THEN f[i] ELSE f[n] + ItemSize(m.items[n + 1])]
<1>2. f[0] = 1 /\ \A i \in 1 .. n : f[i] = f[i - 1] + ItemSize(m.items[i])
  BY <1>1 DEF Sums
<1>3. g = Sums(m, n + 1, g)
  <2>1. \A i \in 0 .. n + 1 :
          g[i] = IF i = 0 THEN 1 ELSE g[i - 1] + ItemSize(m.items[i])
    BY <1>2
  <2> HIDE DEF g
  <2>2. g = [i \in 0 .. n + 1 |-> g[i]]
    BY DEF g
  <2> QED BY <2>1, <2>2 DEF Sums
<1> HIDE DEF g
<1> QED BY <1>3

LEMMA SizeFacts ==
  ASSUME NEW m, Len(m.items) \in 8 .. 11
  PROVE  \E f : /\ f[0] = 1 /\ MessageSize(m) = f[Len(m.items)]
                /\ \A i \in 1 .. Len(m.items) : f[i] = f[i - 1] + ItemSize(m.items[i])
<1> DEFINE Ex(n) == \E f : f = Sums(m, n, f)
           L == Len(m.items)
<1>1. \A n \in Nat : Ex(n) => Ex(n + 1)
  BY SumsExtend
<1>2. Ex(0)
  <2> DEFINE g == [i \in 0 .. 0 |-> 1]
  <2>1. g = Sums(m, 0, g)
    BY DEF Sums
  <2> QED BY <2>1
<1>3. Ex(8) /\ Ex(9) /\ Ex(10) /\ Ex(11)
  <2> HIDE DEF Ex
  <2>1. Ex(1) /\ Ex(2) /\ Ex(3) /\ Ex(4)
    BY <1>1, <1>2
  <2> QED BY <1>1, <2>1
<1>4. Ex(L)
  <2>1. L = 8 \/ L = 9 \/ L = 10 \/ L = 11
    OBVIOUS
  <2> HIDE DEF Ex, L
  <2> QED BY <1>3, <2>1
<1> DEFINE u == CHOOSE f : f = Sums(m, L, f)
<1>5. u = Sums(m, L, u)
  BY <1>4
<1>6. MessageSize(m) = u[L]
  BY DEF MessageSize, Sums
<1> HIDE DEF u, L
<1>7. L \in 8 .. 11
  BY DEF L
<1>8. u[0] = 1 /\ \A i \in 1 .. L : u[i] = u[i - 1] + ItemSize(m.items[i])
  BY <1>5, <1>7 DEF Sums
<1> QED BY <1>6, <1>8 DEF L

LEMMA ItemSizeFacts ==
  ASSUME NEW v, NEW n \in Nat
  PROVE  /\ ItemSize(Simple(v)) = 1
         /\ ItemSize(Bytes(v, n)) \in 0 .. n + 2
         /\ n <= 23 => ItemSize(Bytes(v, n)) = n + 1
         /\ ItemSize(Uint(v)) \in 1 .. 9
         /\ v \in 0 .. Uint32Max => ItemSize(Uint(v)) \in 1 .. 5
<1>1. ItemSize(Simple(v)) = 1
  BY DEF ItemSize, Simple
<1>2. ItemSize(Bytes(v, n)) = n + IF n <= 23 THEN 1 ELSE 2
  BY DEF ItemSize, Bytes
<1>3. ItemSize(Uint(v)) = UintSize(v)
  BY DEF ItemSize, Uint
<1>4. UintSize(v) \in 1 .. 9
  BY DEF UintSize
<1>5. v \in 0 .. Uint32Max => UintSize(v) \in 1 .. 5
  BY CborAssumption DEF UintSize
<1> QED BY <1>1, <1>2, <1>3, <1>4, <1>5

(* At most 1 + 1 + 1 + 1 + 5 + 9 + 5 + 5 bytes in front of the data, 11    *)
(* bytes of data and 82 of the signature.                                  *)
LEMMA RecordFits ==
  ASSUME NEW r, WireRecord(r), r.sig.len \in 1 .. 80, NEW b \in BOOLEAN
  PROVE  SerializeRecord(r, b, RecordBuffer) # {}
<1> DEFINE n == IdCount(r.type)
           x == Bytes(r.sig, r.sig.len)
           i == Encoding(r, IF b THEN <<x>> ELSE <<>>)
           m == Message(ArraySizeRecord(r, b), i)
<1>1. r.type \in Types /\ n \in 0 .. 2 /\ r.data.state \in States
  BY IdCountFacts DEF WireRecord
<1>2. /\ Encodes(i, r) /\ Len(i) = 8 + n + IF b THEN 1 ELSE 0
      /\ b => i[9 + n] = x
  BY <1>1, EncodingFacts
<1>3. SerializeRecord(r, b, RecordBuffer) = Written(m, RecordBuffer)
  <2>1. r.sig # NoSignature
    BY DEF NoSignature
  <2> QED BY <1>1, <2>1, CodeFacts DEF SerializeRecord, Encoding
<1>4. ArraySizeRecord(r, b) = 8 + n + IF b THEN 1 ELSE 0
  BY <1>1 DEF ArraySizeRecord, IdCount, Types
<1>5. m.items = i /\ m.size = Len(m.items)
  BY <1>2, <1>4 DEF Message
<1> HIDE DEF m, i
<1>6. PICK f : /\ f[0] = 1 /\ MessageSize(m) = f[Len(i)]
               /\ \A j \in 1 .. Len(i) : f[j] = f[j - 1] + ItemSize(i[j])
  <2>1. Len(m.items) \in 8 .. 11
    <3> DEFINE k == Len(i)
    <3>1. k = 8 + n \/ k = 9 + n
      BY <1>1, <1>2
    <3> HIDE DEF n, x, k
    <3>2. k \in 8 .. 11
      BY <1>1, <3>1
    <3> QED BY <1>5, <3>2 DEF k
  <2>2. \E f : /\ f[0] = 1 /\ MessageSize(m) = f[Len(m.items)]
               /\ \A j \in 1 .. Len(m.items) : f[j] = f[j - 1] + ItemSize(m.items[j])
    BY <2>1, SizeFacts
  <2> QED BY <1>5, <2>2
<1>7. /\ ItemSize(i[1]) = 1 /\ ItemSize(i[2]) = 1 /\ ItemSize(i[3]) = 1
      /\ ItemSize(i[4]) = 5 /\ ItemSize(i[5]) \in 1 .. 9
      /\ ItemSize(i[6]) \in 1 .. 5 /\ ItemSize(i[7]) \in 1 .. 5
  <2>1. /\ i[1] = Simple(ENCODING_V_1) /\ i[2] = Simple(MessageCode.record)
        /\ i[3] = Simple(TypeCode[r.type]) /\ i[4] = Bytes(r.writer, 4)
        /\ i[5] = Uint(r.seq) /\ i[6] = Uint(r.ts.physical) /\ i[7] = Uint(r.ts.logical)
    BY <1>2 DEF Encodes, NODE_ID_SIZE
  <2>2. r.ts.physical \in 0 .. Uint32Max /\ r.ts.logical \in 0 .. Uint32Max
    BY DEF WireRecord
  <2>3. ItemSize(i[1]) = 1 /\ ItemSize(i[2]) = 1 /\ ItemSize(i[3]) = 1
    BY <2>1, ItemSizeFacts
  <2>4. ItemSize(i[4]) = 5
    BY <2>1, ItemSizeFacts
  <2>5. ItemSize(i[5]) \in 1 .. 9 /\ ItemSize(i[6]) \in 1 .. 5 /\ ItemSize(i[7]) \in 1 .. 5
    BY <2>1, <2>2, ItemSizeFacts
  <2> QED BY <2>3, <2>4, <2>5
<1>8. /\ n >= 1 => ItemSize(i[8]) = 5
      /\ n = 2 => ItemSize(i[9]) = 5
      /\ ItemSize(i[8 + n]) = 1
      /\ b => ItemSize(i[9 + n]) \in 0 .. 82
  <2>1. /\ n >= 1 => i[8] = Bytes(r.data.gate, 4)
        /\ n = 2 => i[9] = Bytes(r.data.mate, 4)
        /\ i[8 + n] = Simple(StateCode[r.data.state])
    BY <1>2 DEF Encodes, NODE_ID_SIZE
  <2>2. n >= 1 => ItemSize(i[8]) = 5
    BY <2>1, ItemSizeFacts
  <2>3. n = 2 => ItemSize(i[9]) = 5
    BY <2>1, ItemSizeFacts
  <2>4. ItemSize(i[8 + n]) = 1
    BY <2>1, ItemSizeFacts
  <2>5. ItemSize(x) \in 0 .. r.sig.len + 2
    BY ItemSizeFacts
  <2>6. ItemSize(x) \in 0 .. 82
    BY <2>5
  <2> QED BY <1>2, <2>2, <2>3, <2>4, <2>6
<1>9. MessageSize(m) \in 0 .. 121
  <2> HIDE DEF n, x
  <2>1. Len(i) \in Nat /\ Len(i) >= 8 + n /\ n \in 0 .. 2
    BY <1>1, <1>2
  <2>2. /\ f[1] = f[0] + ItemSize(i[1]) /\ f[2] = f[1] + ItemSize(i[2])
        /\ f[3] = f[2] + ItemSize(i[3]) /\ f[4] = f[3] + ItemSize(i[4])
        /\ f[5] = f[4] + ItemSize(i[5]) /\ f[6] = f[5] + ItemSize(i[6])
        /\ f[7] = f[6] + ItemSize(i[7]) /\ f[8] = f[7] + ItemSize(i[8])
    BY <1>6, <2>1
  <2>3. /\ n >= 1 => f[9] = f[8] + ItemSize(i[9])
        /\ n = 2 => f[10] = f[9] + ItemSize(i[10])
        /\ b => f[9 + n] = f[8 + n] + ItemSize(i[9 + n])
    BY <1>2, <1>6, <2>1
  <2>4. f[7] \in 0 .. 28
    <3>1. f[4] = 9
      BY <1>6, <1>7, <2>2
    <3>2. f[5] \in 0 .. 18
      BY <1>7, <2>2, <3>1
    <3>3. f[6] \in 0 .. 23
      BY <1>7, <2>2, <3>2
    <3> QED BY <1>7, <2>2, <3>3
  <2>5. f[8 + n] \in 0 .. 39
    <3>1. CASE n = 0
      BY <1>8, <2>2, <2>4, <3>1
    <3>2. CASE n = 1
      <4>1. f[8] \in 0 .. 33
        BY <1>8, <2>2, <2>4, <3>2
      <4> QED BY <1>8, <2>3, <3>2, <4>1
    <3>3. CASE n = 2
      <4>1. f[8] \in 0 .. 33
        BY <1>8, <2>2, <2>4, <3>3
      <4>2. f[9] \in 0 .. 38
        BY <1>8, <2>3, <3>3, <4>1
      <4> QED BY <1>8, <2>3, <3>3, <4>2
    <3> QED BY <2>1, <3>1, <3>2, <3>3
  <2>6. CASE b
    <3>1. Len(i) = 9 + n
      BY <1>2, <2>1, <2>6
    <3>2. MessageSize(m) = f[8 + n] + ItemSize(i[9 + n])
      BY <1>6, <2>3, <2>6, <3>1
    <3>3. ItemSize(i[9 + n]) \in 0 .. 82
      BY <1>8, <2>6
    <3> QED BY <2>5, <3>2, <3>3
  <2>7. CASE ~b
    <3>1. Len(i) = 8 + n
      BY <1>2, <2>1, <2>7
    <3> QED BY <1>6, <2>5, <3>1
  <2> QED BY <2>6, <2>7
<1>10. MessageSize(m) <= RecordBuffer
  BY <1>9, RecordBufferAssumption
<1> QED BY <1>3, <1>5, <1>10 DEF Written
-----------------------------------------------------------------------------
(* Every record a node can file, with a signature of any length the crypto *)
(* service has, is decoded to itself, without a signature buffer to the    *)
(* record without its signature, and refused when the buffer is too small. *)
THEOREM RecordsRoundTrip ==
  ASSUME NEW r, WireRecord(r), Uint32Max \notin {r.ts.physical, r.ts.logical},
         r.sig.len \in 1 .. 80
  PROVE  RoundTrips(r)
<1> DEFINE n == IdCount(r.type)
           len == r.sig.len
<1>1. r.type \in Types /\ n \in 0 .. 2
  BY IdCountFacts DEF WireRecord
<1>2. ASSUME NEW m \in SerializeRecord(r, TRUE, RecordBuffer)
      PROVE  /\ DeserializeRecord(m, 80) = {r}
             /\ DeserializeRecord(m, NoBuffer) = {[r EXCEPT !.sig.by = NoId]}
             /\ DeserializeRecord(m, len - 1) = {}
  <2> DEFINE i == m.items
             x == Bytes(r.sig, len)
  <2>1. i = Encoding(r, <<x>>)
    BY SerializeFacts
  <2>2. Encodes(i, r) /\ Len(i) = 9 + n /\ i[9 + n] = x
    BY <1>1, <2>1, EncodingFacts
  <2>3. x.kind = "bytes" /\ x.v = r.sig /\ x.len = len
    BY ItemFacts
  <2>4. /\ SignatureAt(i, 9 + n, 80) = {r.sig}
        /\ SignatureAt(i, 9 + n, NoBuffer) = {[by |-> NoId, len |-> len]}
        /\ SignatureAt(i, 9 + n, len - 1) = {}
    <3> DEFINE k == 9 + n
    <3>1. /\ len \in 1 .. 80 /\ k \in Nat /\ Len(i) = k
          /\ i[k].kind = "bytes" /\ i[k].v = r.sig /\ i[k].len = len
      BY <1>1, <2>2, <2>3
    <3> HIDE DEF i, k, len
    <3>2. SignatureAt(i, k, 80) = {r.sig}
      BY <3>1 DEF SignatureAt, NoBuffer
    <3>3. SignatureAt(i, k, NoBuffer) = {[by |-> NoId, len |-> len]}
      BY <3>1 DEF SignatureAt, NoBuffer
    <3>4. SignatureAt(i, k, len - 1) = {}
      BY <3>1 DEF SignatureAt, NoBuffer
    <3> QED BY <3>2, <3>3, <3>4 DEF k
  <2>5. /\ DeserializeRecord(m, 80) = {Signed(r, r.sig)}
        /\ DeserializeRecord(m, NoBuffer) = {Signed(r, [by |-> NoId, len |-> len])}
        /\ DeserializeRecord(m, len - 1) = {}
    BY <2>2, <2>4, DeserializeFacts
  <2> QED BY <2>5, SignedFacts
<1>3. ASSUME NEW m \in SerializeRecord(r, FALSE, RecordBuffer)
      PROVE  /\ DeserializeRecord(m, NoBuffer) = {[r EXCEPT !.sig = NoSignature]}
             /\ DeserializeRecord(m, 80) = {}
  <2> DEFINE i == m.items
  <2>1. i = Encoding(r, <<>>)
    BY SerializeFacts
  <2>2. Encodes(i, r) /\ Len(i) = 8 + n
    BY <1>1, <2>1, EncodingFacts
  <2>3. /\ SignatureAt(i, 9 + n, NoBuffer) = {NoSignature}
        /\ SignatureAt(i, 9 + n, 80) = {}
    <3> HIDE DEF i, n
    <3> QED BY <1>1, <2>2 DEF SignatureAt, NoBuffer
  <2>4. /\ DeserializeRecord(m, NoBuffer) = {Signed(r, NoSignature)}
        /\ DeserializeRecord(m, 80) = {}
    BY <2>2, <2>3, DeserializeFacts
  <2> QED BY <2>4, SignedFacts
<1> QED BY <1>2, <1>3 DEF RoundTrips

(* Identities and signed identities of any content. *)
LEMMA IdentityRead ==
  ASSUME NEW id, id = [kid |-> id.kid, key |-> id.key], NEW capacity,
         NEW m \in SerializeIdentity(id, capacity)
  PROVE  DeserializeIdentity(m) = {id}
<1>1. m.items = <<Bytes(id.kid, KID_LEN), Bytes(id.key, ED25519_KEY_LEN)>>
  BY DEF SerializeIdentity, Written, Message, EncodeIdentity
<1>2. DeserializeIdentity(m) = {[kid |-> id.kid, key |-> id.key]}
  BY <1>1 DEF DeserializeIdentity, IdentityAt, Identity, BytesAt, Bytes
<1> QED BY <1>2

LEMMA SignedIdentityRead ==
  ASSUME NEW s, s = [pubid |-> s.pubid, signature |-> s.signature], NEW capacity,
         NEW m \in SerializeSignedPublicIdentity(s, capacity)
  PROVE  DeserializeSignedIdentity(m) = {s}
<1>1. m.items = <<Bytes(s.pubid, PUBID_LEN), Bytes(s.signature, PUBID_SIGNATURE_LEN)>>
  BY DEF SerializeSignedPublicIdentity, Written, Message, EncodeSignedPubid
<1>2. DeserializeSignedIdentity(m) = {[pubid |-> s.pubid, signature |-> s.signature]}
  BY <1>1 DEF DeserializeSignedIdentity, SignedPubidAt, SignedIdentity, BytesAt, Bytes
<1> QED BY <1>2

(* An identity, the signed identity that holds its message, and the        *)
(* announcement of it are decoded to what was encoded, for any key, id and *)
(* signature.                                                              *)
THEOREM IdentitiesRoundTrip ==
  ASSUME NEW kid, NEW key, NEW signature
  PROVE  IdentityRoundTrips([kid |-> kid, key |-> key], signature)
<1> DEFINE id == [kid |-> kid, key |-> key]
<1>1. ASSUME NEW p \in SerializeIdentity(id, PUBID_LEN)
      PROVE  DeserializeIdentity(p) = {id}
  BY <1>1, IdentityRead
<1>2. ASSUME NEW p, NEW m \in SerializeSignedPublicIdentity([pubid |-> p, signature |-> signature], IdBuffer)
      PROVE  DeserializeSignedIdentity(m) = {[pubid |-> p, signature |-> signature]}
  BY <1>2, SignedIdentityRead
<1>3. ASSUME NEW p, NEW m \in SerializeIdReqres("id_response", [pubid |-> p, signature |-> signature], IdBuffer)
      PROVE  /\ VersionInfo(m) = {MessageCode.id_response}
             /\ DeserializeIdReqres(m) = {[pubid |-> p, signature |-> signature]}
  <2> DEFINE a == Simple(ENCODING_V_1)
             b == Simple(MessageCode.id_response)
             c == Bytes(p, PUBID_LEN)
             d == Bytes(signature, PUBID_SIGNATURE_LEN)
  <2>1. m.items = <<a, b>> \o <<c, d>>
    BY CodeFacts DEF SerializeIdReqres, Written, Message, EncodeSignedPubid
  <2>2. <<a, b>> \o <<c, d>> = <<a, b, c, d>>
    <3> DEFINE S == {a, b, c, d}
               l == <<a, b>>
               w == <<c, d>>
               u == <<a, b, c, d>>
    <3> HIDE DEF a, b, c, d
    <3>1. l \in Seq(S) /\ w \in Seq(S) /\ u \in Seq(S)
      OBVIOUS
    <3>2. Len(u) = Len(l) + Len(w)
      OBVIOUS
    <3>3. \A j \in 1 .. Len(l) : u[j] = l[j]
      OBVIOUS
    <3>4. \A j \in 1 .. Len(w) : u[Len(l) + j] = w[j]
      OBVIOUS
    <3> HIDE DEF S
    <3> QED BY <3>1, <3>2, <3>3, <3>4, Concat, Zenon
  <2>3. VersionInfo(m) = {MessageCode.id_response}
    BY <2>1, <2>2 DEF VersionInfo, SmallIs, IsSmall, Simple
  <2> QED BY <2>1, <2>2, <2>3
        DEF DeserializeIdReqres, SignedPubidAt, SignedIdentity, BytesAt, Bytes
<1> QED BY <1>1, <1>2, <1>3 DEF IdentityRoundTrips
-----------------------------------------------------------------------------
(* What the threads that send records need of the flash log: its records,  *)
(* its entries, and the first candidate of the iterator.                   *)

LEMMA RecordFacts ==
  ASSUME NEW r, IsRecord(r)
  PROVE  /\ r.sig.len = SignatureLen
         /\ RecordKey(r).type = r.type
         /\ r.type \notin {"command", "job"} => RecordKey(r).first = r.writer
         /\ r.type \in Types => WireRecord(r)
<1>1. r.sig.len = SignatureLen
  BY DEF IsRecord
<1>2. RecordKey(r).type = r.type
  BY DEF IsRecord, RecordKey
<1>3. r.type \notin {"command", "job"} => RecordKey(r).first = r.writer
  BY DEF IsRecord, RecordKey
<1>4. ASSUME r.type \in Types PROVE WireRecord(r)
  <2>1. r.data.state \in States
    BY <1>4 DEF IsRecord, Types, States
  <2>2. /\ IdCount(r.type) = 0 => r.data.gate = NoId
        /\ IdCount(r.type) < 2 => r.data.mate = NoId
    BY <1>4 DEF IsRecord, IdCount, Types
  <2> QED BY <1>1, <1>4, <2>1, <2>2, SignatureAssumption DEF IsRecord, WireRecord
<1> QED BY <1>1, <1>2, <1>3, <1>4

Entries(R) == [rec : R, live : BOOLEAN, torn : BOOLEAN]

LEMMA EntryFacts ==
  ASSUME NEW R, NEW l \in Seq(Entries(R)), NEW i \in 1 .. Len(l)
  PROVE  /\ l[i] \in Entries(R) /\ l[i].rec \in R
         /\ l[i].live \in BOOLEAN /\ l[i].torn \in BOOLEAN
<1>1. l[i] \in Entries(R)
  OBVIOUS
<1> QED BY <1>1 DEF Entries

(* A put adds a live entry and buries the one of the same key. *)
LEMMA LogPutFacts ==
  ASSUME NEW R, NEW l \in Seq(Entries(R)), NEW r \in R, NEW torn \in BOOLEAN
  PROVE  LET new == LogPut(l, r, torn)
         IN  /\ new \in Seq(Entries(R)) /\ Len(new) = Len(l) + 1
             /\ new[Len(l) + 1] = [rec |-> r, live |-> TRUE, torn |-> torn]
             /\ \A i \in 1 .. Len(l) :
                  /\ new[i].rec = l[i].rec /\ new[i].torn = l[i].torn
                  /\ l[i].live /\ RecordKey(l[i].rec) # RecordKey(r) => new[i].live
<1> DEFINE old == [i \in DOMAIN l |->
                     [l[i] EXCEPT !.live = @ /\ i \notin Live(l, RecordKey(r))]]
           e == [rec |-> r, live |-> TRUE, torn |-> torn]
<1>1. \A i \in 1 .. Len(l) : l[i] \in Entries(R)
  OBVIOUS
<1>2. \A i \in 1 .. Len(l) :
        /\ old[i] \in Entries(R) /\ old[i].rec = l[i].rec /\ old[i].torn = l[i].torn
        /\ old[i].live = (l[i].live /\ i \notin Live(l, RecordKey(r)))
  <2> TAKE i \in 1 .. Len(l)
  <2> DEFINE b == l[i].live /\ i \notin Live(l, RecordKey(r))
  <2>1. old[i] = [l[i] EXCEPT !.live = b]
    OBVIOUS
  <2>2. b \in BOOLEAN
    OBVIOUS
  <2>3. l[i] \in [rec : R, live : BOOLEAN, torn : BOOLEAN]
    BY <1>1 DEF Entries
  <2> HIDE DEF b, old
  <2>4. /\ old[i] \in [rec : R, live : BOOLEAN, torn : BOOLEAN]
        /\ old[i].rec = l[i].rec /\ old[i].torn = l[i].torn /\ old[i].live = b
    BY <2>1, <2>2, <2>3
  <2> QED BY <2>4 DEF Entries, b
<1>3. old \in Seq(Entries(R)) /\ Len(old) = Len(l)
  <2>1. old = [i \in 1 .. Len(l) |-> old[i]]
    OBVIOUS
  <2> HIDE DEF old
  <2> QED BY <1>2, <2>1
<1>4. e \in Entries(R)
  BY DEF Entries
<1>5. LogPut(l, r, torn) = Append(old, e)
  BY DEF LogPut
<1>6. \A i \in 1 .. Len(l) : l[i].live /\ RecordKey(l[i].rec) # RecordKey(r) => old[i].live
  BY <1>2 DEF Live
<1> HIDE DEF old, e
<1>7. /\ Append(old, e) \in Seq(Entries(R)) /\ Len(Append(old, e)) = Len(l) + 1
      /\ Append(old, e)[Len(l) + 1] = e
      /\ \A i \in 1 .. Len(l) : Append(old, e)[i] = old[i]
  BY <1>3, <1>4
<1> QED BY <1>2, <1>5, <1>6, <1>7 DEF e

(* After puts that failed behind the header, the header, the data and the  *)
(* signature that are read are those of up to three records.               *)
Parts(r, d, s) == [r EXCEPT !.data = d.data, !.sig = s.sig]
FiledFrom(R) ==
  {Parts(p[1], p[2], p[3]) : p \in {q \in R \X R \X R : q[1].type = q[2].type /\ q[1].type = q[3].type}}

LEMMA PartsAreRecords ==
  ASSUME NEW r, NEW d, NEW g, IsRecord(r), IsRecord(d), IsRecord(g),
         r.type = d.type, r.type = g.type
  PROVE  IsRecord(Parts(r, d, g))
BY DEF IsRecord, Parts

LEMMA FiledAreRecords ==
  ASSUME NEW R, \A r \in R : IsRecord(r)
  PROVE  /\ \A r \in FiledFrom(R) : IsRecord(r)
         /\ \A r \in R : r \in FiledFrom(R)
         /\ \A r \in FiledFrom(R) : \E o \in R : SameHeader(r, o)
         /\ \A r \in R, old \in FiledFrom(R) :
              r.type = old.type => Mixed(r, old) \subseteq FiledFrom(R)
<1>1. ASSUME NEW r \in R, NEW d \in R, NEW g \in R, r.type = d.type, r.type = g.type
      PROVE  Parts(r, d, g) \in FiledFrom(R) /\ IsRecord(Parts(r, d, g))
  <2>1. <<r, d, g>> \in {q \in R \X R \X R : q[1].type = q[2].type /\ q[1].type = q[3].type}
    BY <1>1
  <2>2. Parts(r, d, g) \in FiledFrom(R)
    BY <2>1 DEF FiledFrom
  <2> QED BY <1>1, <2>2, PartsAreRecords
<1>2. ASSUME NEW r \in FiledFrom(R)
      PROVE  \E a, b, c \in R : a.type = b.type /\ a.type = c.type /\ r = Parts(a, b, c)
  BY DEF FiledFrom
<1>3. ASSUME NEW r \in R PROVE r \in FiledFrom(R)
  <2>1. Parts(r, r, r) = r
    BY DEF Parts, IsRecord
  <2> QED BY <1>1, <2>1
<1>4. ASSUME NEW r \in R, NEW old \in FiledFrom(R), r.type = old.type
      PROVE  Mixed(r, old) \subseteq FiledFrom(R)
  <2>1. PICK a, b, c \in R : a.type = b.type /\ a.type = c.type /\ old = Parts(a, b, c)
    BY <1>2
  <2>2. IsRecord(a) /\ IsRecord(b) /\ IsRecord(c) /\ IsRecord(r)
    OBVIOUS
  <2>3. old.type = a.type /\ old.data = b.data /\ old.sig = c.sig
    <3>1. /\ Parts(a, b, c).type = a.type /\ Parts(a, b, c).data = b.data
          /\ Parts(a, b, c).sig = c.sig
      BY <2>2 DEF Parts, IsRecord
    <3> QED BY <2>1, <3>1
  <2>4. [r EXCEPT !.data = old.data, !.sig = old.sig] = Parts(r, b, c)
    BY <2>3 DEF Parts
  <2>5. [r EXCEPT !.sig = old.sig] = Parts(r, r, c)
    BY <2>2, <2>3 DEF Parts, IsRecord
  <2>6. Parts(r, b, c) \in FiledFrom(R) /\ Parts(r, r, c) \in FiledFrom(R)
    BY <1>1, <1>4, <2>1, <2>3
  <2> QED BY <2>4, <2>5, <2>6 DEF Mixed
<1>5. \A r \in FiledFrom(R) : IsRecord(r)
  BY <1>1, <1>2
<1>6. ASSUME NEW r \in FiledFrom(R) PROVE \E o \in R : SameHeader(r, o)
  <2>1. PICK a, b, c \in R : a.type = b.type /\ a.type = c.type /\ r = Parts(a, b, c)
    BY <1>2
  <2>2. IsRecord(a)
    OBVIOUS
  <2>3. SameHeader(Parts(a, b, c), a)
    BY <2>2 DEF SameHeader, Parts, IsRecord
  <2> QED BY <2>1, <2>3
<1> QED BY <1>3, <1>4, <1>5, <1>6

(* The flash stays, or a record of S is added. *)
Adds(l, new, S) == new = l \/ \E x \in S, torn \in BOOLEAN : new = LogPut(l, x, torn)

LEMMA FailedPutFacts ==
  ASSUME NEW R, \A r \in R : IsRecord(r), NEW l \in Seq(Entries(FiledFrom(R))), NEW r \in R,
         NEW new \in {LogPut(l, r, FALSE)} \cup FailedPuts(l, r)
  PROVE  Adds(l, new, FiledFrom(R))
<1> DEFINE whole == {i \in Live(l, RecordKey(r)) : ~l[i].torn}
<1>1. CASE new = LogPut(l, r, FALSE) \/ new = l \/ new = LogPut(l, r, TRUE)
  BY <1>1, FiledAreRecords DEF Adds
<1>2. CASE new \in {LogPut(l, x, FALSE) : x \in UNION {Mixed(r, l[i].rec) : i \in whole}}
  <2>1. PICK i \in whole : \E x \in Mixed(r, l[i].rec) : new = LogPut(l, x, FALSE)
    BY <1>2
  <2> DEFINE old == l[i].rec
  <2>2. i \in 1 .. Len(l) /\ RecordKey(old) = RecordKey(r)
    BY DEF Live
  <2>3. old \in FiledFrom(R)
    BY <2>2, EntryFacts
  <2>4. r.type = old.type
    BY <2>2, <2>3, FiledAreRecords, RecordFacts
  <2>5. \A x \in Mixed(r, old) : x \in FiledFrom(R)
    BY <2>3, <2>4, FiledAreRecords
  <2> QED BY <2>1, <2>5 DEF Adds
<1> QED BY <1>1, <1>2 DEF FailedPuts

LEMMA MinFacts ==
  ASSUME NEW S \in SUBSET Nat, S # {}
  PROVE  Min(S) \in S /\ \A y \in S : Min(S) <= y
<1> DEFINE R == OpToRel(<, Nat)
<1>1. \E x \in S : \A y \in S : ~ (<<y, x>> \in R)
  <2> HIDE DEF R
  <2>1. IsWellFoundedOn(R, Nat)
    BY NatLessThanWellFounded DEF R
  <2> QED BY <2>1, WFMin
<1>2. \A x, y \in Nat : x < y => <<x, y>> \in R
  BY DEF OpToRel
<1> HIDE DEF R
<1>3. PICK x \in S : \A y \in S : ~ (<<y, x>> \in R)
  BY <1>1
<1>4. \A y \in S : ~ (y < x)
  BY <1>2, <1>3
<1>5. \A y \in S : x <= y
  BY <1>4
<1> QED BY <1>5 DEF Min
=============================================================================
