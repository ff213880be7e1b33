------------------------------ MODULE HlcClock ------------------------------
(***************************************************************************)
(* The hybrid logical clock of one node, as pure operators: the arithmetic *)
(* of hybrid_logical_clock.c on a clock [local, offset] and a reading of   *)
(* the node's own stopwatch.  HLC and Tables run these operators under the *)
(* context lock that the C functions hold from entry to exit.              *)
(***************************************************************************)
EXTENDS Integers

CONSTANT PhysMod     \* hlc_physical_t counts modulo this (2^32 in the code)

ASSUME PhysModAssumption == PhysMod \in Nat /\ PhysMod > 2

(* hlc_timestamp_t.  The logical part is not bounded: it restarts whenever *)
(* the physical part moves, far below 2^32 events.                         *)
Stamp(p, l) == [physical |-> p, logical |-> l]
Stamps == [physical : 0 .. PhysMod - 1, logical : Nat]

(* hlc_compare(a, b) < 0: the lexicographic order. *)
Before(a, b) ==
  \/ a.physical < b.physical
  \/ a.physical = b.physical /\ a.logical < b.logical

NotAfter(a, b) == a = b \/ Before(a, b)

LaterOf(a, b) == IF Before(a, b) THEN b ELSE a

Clocks == [local : Stamps, offset : 0 .. PhysMod - 1]

(* hlc_init: the stopwatch has just been started, so it reads 0. *)
ClockInit == [local |-> Stamp(0, 0), offset |-> 0]

(* get_physical_time() + physical_offset, in the width of the type. *)
Adjusted(c, raw) == (raw + c.offset) % PhysMod

(* Mutant: "not before" instead of "after". *)
GetTimestampMutant(c, raw) ==
  LET p == Adjusted(c, raw)
      l == c.local
  IN  [local  |-> IF p >= l.physical THEN Stamp(p, 0)
                                     ELSE Stamp(l.physical, l.logical + 1),
       offset |-> c.offset]

(* hlc_get_current_timestamp: the stamp handed out is the new local one. *)
GetTimestamp(c, raw) ==
  LET p == Adjusted(c, raw)
      l == c.local
  IN  [local  |-> IF p > l.physical THEN Stamp(p, 0)
                                    ELSE Stamp(l.physical, l.logical + 1),
       offset |-> c.offset]

MaxLogical(a, b) == IF a > b THEN a ELSE b      \* _hlc_max_logical

(* Mutants: a signed offset, and the margin of line 94 added instead of    *)
(* subtracted.                                                             *)
SignedOffsetMutant(c, raw, ts) ==
  IF c.local.physical >= ts.physical THEN c
  ELSE [local  |-> Stamp(ts.physical, ts.logical + 1),
        offset |-> ts.physical - Adjusted(c, raw) - 1]

MarginMutant(c, raw, ts) ==
  IF c.local.physical >= ts.physical THEN c
  ELSE [local  |-> Stamp(ts.physical, ts.logical + 1),
        offset |-> (ts.physical - Adjusted(c, raw) + 1) % PhysMod]

(* hlc_update_with_remote_timestamp: four cases, tried in this order.  The *)
(* last one also replaces the offset; p already contains the old offset.   *)
UpdateWithRemote(c, raw, ts) ==
  LET p == Adjusted(c, raw)
      l == c.local
      Keep(t) == [local |-> t, offset |-> c.offset]
  IN  IF p > l.physical /\ p > ts.physical
        THEN Keep(Stamp(p, 0))
      ELSE IF l.physical = ts.physical
        THEN Keep(Stamp(l.physical, MaxLogical(l.logical, ts.logical) + 1))
      ELSE IF l.physical > ts.physical
        THEN Keep(Stamp(l.physical, l.logical + 1))
      ELSE [local  |-> Stamp(ts.physical, ts.logical + 1),
            offset |-> (ts.physical - p - 1) % PhysMod]

(* The offset read as a signed number of seconds. *)
SignedOffset(c) == IF c.offset > PhysMod \div 2 THEN c.offset - PhysMod ELSE c.offset
=============================================================================
