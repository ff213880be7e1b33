---------------------------- MODULE TableRecords ----------------------------
(***************************************************************************)
(* Table records as the serialisation and the iterators see them: the six  *)
(* record types (records/*.c), the keys they are stored under (keys.c),    *)
(* the queries that select them (records.c), the flash log that holds them *)
(* (flashdb_store_service.c) and the iterator over it (tables.c).          *)
(*                                                                         *)
(* RSSI values are left out.  A signature is what it signs, who signed it  *)
(* and its length.                                                         *)
(***************************************************************************)
EXTENDS Integers, Sequences, FiniteSetsExt

CONSTANTS NoId,          \* the NULL id, and the unused part of a key
          SignatureLen   \* length of the signatures of the crypto service

(* table_record_t.  Every type fills the id fields it has. *)
Record(type, writer, seq, ts, gate, mate, state) ==
  [type |-> type, writer |-> writer, seq |-> seq, ts |-> ts,
   data |-> [gate |-> gate, mate |-> mate, state |-> state],
   sig  |-> [by |-> writer, len |-> SignatureLen]]

GateReport(writer, seq, ts, state) ==
  Record("report", writer, seq, ts, NoId, NoId, state)
GateObservation(writer, seq, ts, gate, state) ==
  Record("observation", writer, seq, ts, gate, NoId, state)
GateEncounter(writer, seq, ts, gate, state) ==
  Record("gate_encounter", writer, seq, ts, gate, NoId, state)
MateEncounter(writer, seq, ts, mate) ==
  Record("mate_encounter", writer, seq, ts, NoId, mate, "unknown")
GateCommand(writer, seq, ts, gate, state) ==
  Record("command", writer, seq, ts, gate, NoId, state)
GateJob(writer, seq, ts, gate, mate, state) ==
  Record("job", writer, seq, ts, gate, mate, state)

NoSignature == [by |-> NoId, len |-> 0]

(* get_record_key: two id fields behind the type; commands and jobs are    *)
(* stored under the gate they are for, not under their writer.             *)
RecordKey(r) ==
  LET K(first, second) == [type |-> r.type, first |-> first, second |-> second]
  IN  CASE r.type = "report" -> K(r.writer, NoId)
        [] r.type \in {"observation", "gate_encounter"} -> K(r.writer, r.data.gate)
        [] r.type = "mate_encounter" -> K(r.writer, r.data.mate)
        [] r.type = "command" -> K(r.data.gate, NoId)
        [] r.type = "job" -> K(r.data.gate, r.data.mate)

(* tables_init_query; NoId and "any" leave a field open. *)
Query(type, writer, involved) == [type |-> type, writer |-> writer, involved |-> involved]

(* The test of tables_merge_record for a record of the same key. *)
Supersedes(r, held) ==
  \/ r.seq > held.seq
  \/ r.seq = held.seq /\ \/ r.ts.physical > held.ts.physical
                         \/ /\ r.ts.physical = held.ts.physical
                            /\ r.ts.logical > held.ts.logical

SameHeader(r, o) == r.type = o.type /\ r.writer = o.writer /\ r.seq = o.seq /\ r.ts = o.ts

Involves(r, id) == id \in {r.writer, r.data.gate, r.data.mate}

(* record_matches_query, the rule by which memos are called. *)
RecordMatchesQuery(r, q) ==
  /\ q.type \in {"any", r.type}
  /\ q.writer \in {NoId, r.writer}
  /\ q.involved # NoId => Involves(r, q.involved)

(* Mutant: the mask of the writer covers the second id field. *)
SecondFieldMutant(k, q) ==
  /\ q.type \in {"any", k.type}
  /\ q.writer \in {NoId, k.second}
  /\ q.involved \in {NoId, k.second}

(* The masked comparison by which the iterator selects keys. *)
KeyMatchesQuery(k, q) ==
  /\ q.type \in {"any", k.type}
  /\ q.writer \in {NoId, k.first}
  /\ q.involved \in {NoId, k.second}
-----------------------------------------------------------------------------
(* The flash log: FlashDB appends every header and marks the one it        *)
(* replaces as deleted.  torn: not all parts of the record are there.      *)
Live(log, k) == {i \in DOMAIN log : log[i].live /\ RecordKey(log[i].rec) = k}

LogPut(log, r, torn) ==
  Append([i \in DOMAIN log |->
            [log[i] EXCEPT !.live = @ /\ i \notin Live(log, RecordKey(r))]],
         [rec |-> r, live |-> TRUE, torn |-> torn])

(* What a put of r over the record o leaves when it fails at the data, or  *)
(* at the signature or its length (all have one length): the parts behind  *)
(* are still those of o.                                                   *)
Mixed(r, o) == {[r EXCEPT !.data = o.data, !.sig = o.sig], [r EXCEPT !.sig = o.sig]}

(* put_record_in_store fails, at the header or behind it.  Parts that were *)
(* not written are those of the old record, if all of them are there.      *)
FailedPuts(log, r) ==
  LET whole == {i \in Live(log, RecordKey(r)) : ~log[i].torn}
  IN  {log} \cup IF whole = {} THEN {LogPut(log, r, TRUE)}
                 ELSE {LogPut(log, x, FALSE) : x \in UNION {Mixed(r, log[i].rec) : i \in whole}}

(* Records of the node itself are put once each, whatever is held: an      *)
(* older one may come last.  Those of others are merged: they supersede it.*)
MayPut(log, self, r) ==
  IF r.writer = self
  THEN \A i \in DOMAIN log : log[i].rec.writer = self => log[i].rec.seq # r.seq
  ELSE \A i \in Live(log, RecordKey(r)) : Supersedes(r, log[i].rec)

HeldRecords(log) == {log[i].rec : i \in {j \in DOMAIN log : log[j].live}}

(* tables_iterator_init; cap is the capacity of the caller's signature     *)
(* buffer, NoBuffer when it passes NULL.                                   *)
NoBuffer == -1
IteratorInit(q, cap) == [state |-> "run", pos |-> 0, query |-> q, cap |-> cap, rec |-> {}]

Candidates(log, it) ==
  {i \in it.pos + 1 .. Len(log) :
     log[i].live /\ KeyMatchesQuery(RecordKey(log[i].rec), it.query)}

(* tables_iterator_next: rec is the record found, if any.  The first       *)
(* record that cannot be read, or whose signature is longer than the one   *)
(* before, ends the iteration; the length found becomes the capacity for   *)
(* the next call.                                                          *)
IteratorNext(log, it) ==
  LET i == Min(Candidates(log, it))
      e == log[i]
  IN  IF it.state # "run" THEN [it EXCEPT !.rec = {}]
      ELSE IF Candidates(log, it) = {} THEN [it EXCEPT !.state = "done", !.rec = {}]
      ELSE IF e.torn \/ (it.cap # NoBuffer /\ e.rec.sig.len > it.cap)
      THEN [it EXCEPT !.state = "error", !.pos = i, !.rec = {}]
      ELSE IF it.cap = NoBuffer
      THEN [it EXCEPT !.pos = i, !.rec = {[e.rec EXCEPT !.sig.by = NoId]}]
      ELSE [it EXCEPT !.pos = i, !.cap = e.rec.sig.len, !.rec = {e.rec}]
=============================================================================
