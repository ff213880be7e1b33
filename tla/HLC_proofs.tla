----------------------------- MODULE HLC_proofs -----------------------------
(***************************************************************************)
(* Proofs about HLC for every set of nodes, every width of the physical    *)
(* part and every bound.                                                   *)
(***************************************************************************)
EXTENDS HLC, TLAPS

LEMMA ModRange ==
  ASSUME NEW a \in Int, NEW m \in Nat \ {0}
  PROVE  a % m \in 0 .. m - 1
OBVIOUS

LEMMA ModSmall ==
  ASSUME NEW m \in Nat \ {0}, NEW d \in 0 .. m - 1
  PROVE  /\ d % m = d
         /\ (d + m) % m = d
         /\ (d - m) % m = d
OBVIOUS

LEMMA DivStep ==
  ASSUME NEW s \in Nat \ {0}, NEW x \in Nat
  PROVE  /\ x \div s \in Nat
         /\ x \div s <= x
         /\ (x + 1) \div s \in {x \div s, x \div s + 1}
OBVIOUS

LEMMA DivMonotone ==
  ASSUME NEW s \in Nat \ {0}, NEW x \in Nat, NEW y \in Nat, x <= y
  PROVE  x \div s <= y \div s
OBVIOUS
-----------------------------------------------------------------------------
(* The operators of HlcClock. *)

LEMMA StampFacts ==
  ASSUME NEW p \in 0 .. PhysMod - 1, NEW l \in Nat
  PROVE  /\ Stamp(p, l) \in Stamps
         /\ Stamp(p, l).physical = p
         /\ Stamp(p, l).logical = l
BY DEF Stamp, Stamps

(* hlc_compare is a strict order, and LaterOf its maximum. *)
LEMMA StampOrder ==
  ASSUME NEW a \in Stamps, NEW b \in Stamps, NEW c \in Stamps
  PROVE  /\ ~ Before(a, a)
         /\ Before(a, b) /\ Before(b, c) => Before(a, c)
         /\ NotAfter(a, b) /\ Before(b, c) => Before(a, c)
         /\ NotAfter(a, c) /\ NotAfter(b, c) => NotAfter(LaterOf(a, b), c)
         /\ LaterOf(a, b) \in Stamps
BY DEF Stamps, Before, NotAfter, LaterOf

LEMMA AdjustedType ==
  ASSUME NEW c \in Clocks, NEW raw \in Nat
  PROVE  Adjusted(c, raw) \in 0 .. PhysMod - 1
<1>1. raw + c.offset \in Int /\ PhysMod \in Nat \ {0}
  BY PhysModAssumption DEF Clocks
<1> QED BY <1>1, ModRange DEF Adjusted

(* hlc_get_current_timestamp moves the local stamp strictly upwards. *)
LEMMA GetTimestampFacts ==
  ASSUME NEW c \in Clocks, NEW raw \in Nat
  PROVE  /\ GetTimestamp(c, raw) \in Clocks
         /\ GetTimestamp(c, raw).local \in Stamps
         /\ GetTimestamp(c, raw).offset = c.offset
         /\ Before(c.local, GetTimestamp(c, raw).local)
         /\ GetTimestamp(c, raw).local.physical \in {c.local.physical, Adjusted(c, raw)}
         /\ GetTimestamp(c, raw).local.physical >= c.local.physical
<1> DEFINE p == Adjusted(c, raw)
<1>1. p \in 0 .. PhysMod - 1
  BY AdjustedType
<1>2. /\ c.local \in Stamps
      /\ c.local.physical \in 0 .. PhysMod - 1
      /\ c.local.logical \in Nat
      /\ c.offset \in 0 .. PhysMod - 1
  BY DEF Clocks, Stamps
<1> HIDE DEF p
<1>3. CASE p > c.local.physical
  <2>1. GetTimestamp(c, raw) = [local |-> Stamp(p, 0), offset |-> c.offset]
    BY <1>3 DEF GetTimestamp, p
  <2> QED BY <2>1, <1>1, <1>2, <1>3, StampFacts DEF Clocks, Before, p
<1>4. CASE ~(p > c.local.physical)
  <2>1. GetTimestamp(c, raw) =
          [local |-> Stamp(c.local.physical, c.local.logical + 1), offset |-> c.offset]
    BY <1>4 DEF GetTimestamp, p
  <2> QED BY <2>1, <1>1, <1>2, StampFacts DEF Clocks, Before, p
<1> QED BY <1>3, <1>4

(* hlc_update_with_remote_timestamp leaves the local stamp later than the  *)
(* stamp it adopts and than its own, and touches the offset in one case.   *)
LEMMA UpdateFacts ==
  ASSUME NEW c \in Clocks, NEW raw \in Nat, NEW ts \in Stamps
  PROVE  LET d == UpdateWithRemote(c, raw, ts)
             p == Adjusted(c, raw)
         IN  /\ d \in Clocks
             /\ Before(c.local, d.local)
             /\ Before(ts, d.local)
             /\ d.local.physical >= c.local.physical
             /\ \/ /\ d.offset = c.offset
                   /\ d.local.physical \in {c.local.physical, p}
                \/ /\ c.local.physical < ts.physical
                   /\ p <= ts.physical
                   /\ d.local.physical = ts.physical
                   /\ d.offset = (ts.physical - p - 1) % PhysMod
<1> DEFINE p == Adjusted(c, raw)
           l == c.local
           d == UpdateWithRemote(c, raw, ts)
<1>1. p \in 0 .. PhysMod - 1
  BY AdjustedType
<1>2. /\ l \in Stamps
      /\ l.physical \in 0 .. PhysMod - 1 /\ l.logical \in Nat
      /\ ts.physical \in 0 .. PhysMod - 1 /\ ts.logical \in Nat
      /\ c.offset \in 0 .. PhysMod - 1
      /\ c = [local |-> l, offset |-> c.offset]
  BY DEF Clocks, Stamps
<1> SUFFICES /\ d \in Clocks
             /\ Before(l, d.local)
             /\ Before(ts, d.local)
             /\ d.local.physical >= l.physical
             /\ \/ /\ d.offset = c.offset
                   /\ d.local.physical \in {l.physical, p}
                \/ /\ l.physical < ts.physical
                   /\ p <= ts.physical
                   /\ d.local.physical = ts.physical
                   /\ d.offset = (ts.physical - p - 1) % PhysMod
  OBVIOUS
<1>3. CASE p > l.physical /\ p > ts.physical
  <2>1. d = [local |-> Stamp(p, 0), offset |-> c.offset]
    BY <1>3 DEF UpdateWithRemote
  <2> HIDE DEF d, p
  <2> QED BY <2>1, <1>1, <1>2, <1>3, StampFacts DEF Clocks, Before
<1>4. CASE ~(p > l.physical /\ p > ts.physical) /\ l.physical = ts.physical
  <2> DEFINE m == MaxLogical(l.logical, ts.logical)
  <2>1. d = [local |-> Stamp(l.physical, m + 1), offset |-> c.offset]
    BY <1>4 DEF UpdateWithRemote
  <2>2. m \in Nat /\ m >= l.logical /\ m >= ts.logical
    BY <1>2 DEF MaxLogical
  <2> HIDE DEF d, p, m
  <2> QED BY <2>1, <2>2, <1>1, <1>2, <1>4, StampFacts DEF Clocks, Before
<1>5. CASE ~(p > l.physical /\ p > ts.physical) /\ l.physical > ts.physical
  <2>1. d = [local |-> Stamp(l.physical, l.logical + 1), offset |-> c.offset]
    BY <1>5, <1>2 DEF UpdateWithRemote
  <2> HIDE DEF d, p
  <2> QED BY <2>1, <1>1, <1>2, <1>5, StampFacts DEF Clocks, Before
<1>6. CASE ~(p > l.physical /\ p > ts.physical) /\ l.physical < ts.physical
  <2>1. d = [local  |-> Stamp(ts.physical, ts.logical + 1),
             offset |-> (ts.physical - p - 1) % PhysMod]
    BY <1>6, <1>2 DEF UpdateWithRemote
  <2>2. (ts.physical - p - 1) % PhysMod \in 0 .. PhysMod - 1
    BY <1>1, <1>2, ModRange, PhysModAssumption
  <2> HIDE DEF d, p
  <2> QED BY <2>1, <2>2, <1>1, <1>2, <1>6, StampFacts DEF Clocks, Before
<1> QED BY <1>2, <1>3, <1>4, <1>5, <1>6
-----------------------------------------------------------------------------
(* Type correctness. *)

LEMMA RawType ==
  ASSUME NEW n \in Node, now \in Nat, boot[n] \in Nat, boot[n] <= now
  PROVE  Raw(n) \in Nat /\ Raw(n) <= now
<1>1. now - boot[n] \in Nat /\ now - boot[n] <= now
  OBVIOUS
<1> QED BY <1>1, DivStep, HLCAssumption DEF Raw

(* No node was powered on in the future, and no stopwatch went on twice at *)
(* one instant.                                                            *)
Booted == ticks <= now /\ \A n \in Node : boot[n] <= now

TInv == TypeOK /\ Booted

LEMMA InitTInv == Init => TInv
<1> SUFFICES ASSUME Init PROVE TInv
  OBVIOUS
<1>1. Stamp(0, 0) \in Stamps
  BY StampFacts, PhysModAssumption
<1>2. ClockInit \in Clocks
  BY <1>1, PhysModAssumption DEF ClockInit, Clocks
<1>3. ticks \in Nat /\ ticks <= Spread
  BY DivStep, HLCAssumption DEF Init
<1>4. ticks \in 0 .. MaxTime /\ ticks <= now
  BY <1>3, HLCAssumption DEF Init
<1> QED BY <1>1, <1>2, <1>4, HLCAssumption DEF Init, TInv, TypeOK, Booted

LEMMA StepTInv == TInv /\ [Next]_vars => TInv'
<1> SUFFICES ASSUME TInv, [Next]_vars PROVE TInv'
  OBVIOUS
<1>1. /\ now \in 0 .. MaxTime
      /\ boot \in [Node -> 0 .. MaxTime]
      /\ life \in [Node -> 0 .. MaxLife]
      /\ clock \in [Node -> Clocks]
      /\ issued \subseteq Issues
      /\ latest \in [Node -> Stamps]
      /\ \A n \in Node : boot[n] <= now
      /\ ticks \in 0 .. MaxTime /\ ticks <= now
      /\ MaxTime \in Nat /\ MaxLife \in Nat
  BY HLCAssumption DEF TInv, TypeOK, Booted
<1>2. \A n \in Node : Raw(n) \in Nat
  BY <1>1, RawType
<1>3. CASE Tick
  <2>1. ticks' \in {ticks, ticks + 1} /\ now' = now + 1 /\ now < MaxTime
    BY <1>3 DEF Tick
  <2>2. ticks' \in 0 .. MaxTime /\ ticks' <= now'
    BY <1>1, <2>1
  <2> QED BY <1>1, <1>3, <2>2 DEF Tick, TInv, TypeOK, Booted
<1>4. ASSUME NEW n \in Node, Issue(n) PROVE TInv'
  <2> DEFINE c == GetTimestamp(clock[n], Raw(n))
  <2>1. c \in Clocks /\ c.local \in Stamps
    BY <1>1, <1>2, GetTimestampFacts
  <2>2. LaterOf(latest[n], c.local) \in Stamps
    BY <1>1, <2>1, StampOrder
  <2>3. [node |-> n, stamp |-> c.local] \in Issues
    BY <2>1 DEF Issues
  <2>4. /\ clock' = [clock EXCEPT ![n] = c]
        /\ issued' = issued \cup {[node |-> n, stamp |-> c.local]}
        /\ latest' = [latest EXCEPT ![n] = LaterOf(latest[n], c.local)]
        /\ UNCHANGED <<now, boot, life, ticks>>
    BY <1>4 DEF Issue
  <2> HIDE DEF c
  <2> QED BY <1>1, <2>1, <2>2, <2>3, <2>4 DEF TInv, TypeOK, Booted
<1>5. ASSUME NEW n \in Node, Adopt(n) PROVE TInv'
  <2>1. PICK r \in issued :
          /\ clock' = [clock EXCEPT ![n] = UpdateWithRemote(clock[n], Raw(n), r.stamp)]
          /\ latest' = [latest EXCEPT ![n] = LaterOf(latest[n], r.stamp)]
          /\ UNCHANGED <<now, boot, life, issued, ticks>>
    BY <1>5 DEF Adopt
  <2>2. r.stamp \in Stamps
    BY <1>1 DEF Issues
  <2>3. UpdateWithRemote(clock[n], Raw(n), r.stamp) \in Clocks
    BY <1>1, <1>2, <2>2, UpdateFacts
  <2>4. LaterOf(latest[n], r.stamp) \in Stamps
    BY <1>1, <2>2, StampOrder
  <2> QED BY <1>1, <2>1, <2>3, <2>4 DEF TInv, TypeOK, Booted
<1>6. ASSUME NEW n \in Node, Restart(n) PROVE TInv'
  <2>1. Stamp(0, 0) \in Stamps
    BY StampFacts, PhysModAssumption
  <2>2. ClockInit \in Clocks
    BY <2>1, PhysModAssumption DEF ClockInit, Clocks
  <2>3. life[n] + 1 \in 0 .. MaxLife
    BY <1>1, <1>6 DEF Restart
  <2> QED BY <1>1, <1>6, <2>1, <2>2, <2>3 DEF Restart, TInv, TypeOK, Booted
<1>7. CASE UNCHANGED vars
  BY <1>1, <1>7 DEF vars, TInv, TypeOK, Booted
<1> QED BY <1>3, <1>4, <1>5, <1>6, <1>7 DEF Next

(* Every clock of every node stays in the width of its type, and every     *)
(* stamp handed out or adopted is a stamp.                                 *)
THEOREM TypeCorrect == Spec => []TypeOK
<1>1. Spec => []TInv
  BY InitTInv, StepTInv, PTL DEF Spec
<1>2. TInv => TypeOK
  BY DEF TInv
<1> QED BY <1>1, <1>2, PTL
-----------------------------------------------------------------------------
(* Happens-before. *)

(* A clock is never behind what its node has issued or adopted. *)
ClockCovers == \A n \in Node : NotAfter(latest[n], clock[n].local)

CInv == TInv /\ ClockCovers

LEMMA InitCInv == Init => CInv
<1> SUFFICES ASSUME Init PROVE ClockCovers
  BY InitTInv DEF CInv
<1> QED BY DEF Init, ClockCovers, ClockInit, NotAfter

LEMMA TFacts ==
  ASSUME TInv
  PROVE  /\ \A n \in Node : /\ clock[n] \in Clocks
                            /\ clock[n].local \in Stamps
                            /\ latest[n] \in Stamps
                            /\ Raw(n) \in Nat
                            /\ Raw(n) <= now
                            /\ boot[n] \in Nat /\ boot[n] <= now
         /\ \A r \in issued : r.node \in Node /\ r.stamp \in Stamps
         /\ now \in 0 .. MaxTime /\ now \in Nat
         /\ ticks \in Nat /\ ticks <= now
         /\ clock = [n \in Node |-> clock[n]]
         /\ latest = [n \in Node |-> latest[n]]
<1>1. /\ \A n \in Node : /\ clock[n] \in Clocks
                         /\ latest[n] \in Stamps
                         /\ boot[n] \in Nat /\ boot[n] <= now
      /\ \A r \in issued : r.node \in Node /\ r.stamp \in Stamps
      /\ now \in 0 .. MaxTime /\ now \in Nat
      /\ ticks \in Nat /\ ticks <= now
      /\ clock = [n \in Node |-> clock[n]]
      /\ latest = [n \in Node |-> latest[n]]
  BY HLCAssumption DEF TInv, TypeOK, Booted, Issues
<1>2. \A n \in Node : clock[n].local \in Stamps
  BY <1>1 DEF Clocks
<1>3. \A n \in Node : Raw(n) \in Nat /\ Raw(n) <= now
  BY <1>1, RawType
<1> QED BY <1>1, <1>2, <1>3

LEMMA StepCInv == CInv /\ [Next]_vars => CInv'
<1> SUFFICES ASSUME CInv, [Next]_vars PROVE ClockCovers'
  BY StepTInv DEF CInv
<1> USE TFacts DEF CInv
<1>1. ASSUME NEW n \in Node, Issue(n) PROVE ClockCovers'
  <2> DEFINE c == GetTimestamp(clock[n], Raw(n))
  <2>1. c.local \in Stamps /\ Before(clock[n].local, c.local)
    BY GetTimestampFacts
  <2>2. NotAfter(latest[n], c.local)
    BY <2>1, StampOrder DEF ClockCovers, NotAfter
  <2>3. NotAfter(LaterOf(latest[n], c.local), c.local)
    BY <2>1, <2>2, StampOrder DEF NotAfter
  <2>4. /\ clock' = [clock EXCEPT ![n] = c]
        /\ latest' = [latest EXCEPT ![n] = LaterOf(latest[n], c.local)]
    BY <1>1 DEF Issue
  <2> HIDE DEF c
  <2> QED BY <2>3, <2>4 DEF ClockCovers
<1>2. ASSUME NEW n \in Node, Adopt(n) PROVE ClockCovers'
  <2>1. PICK r \in issued :
          /\ clock' = [clock EXCEPT ![n] = UpdateWithRemote(clock[n], Raw(n), r.stamp)]
          /\ latest' = [latest EXCEPT ![n] = LaterOf(latest[n], r.stamp)]
    BY <1>2 DEF Adopt
  <2> DEFINE c == UpdateWithRemote(clock[n], Raw(n), r.stamp)
  <2>2. /\ c \in Clocks
        /\ Before(clock[n].local, c.local)
        /\ Before(r.stamp, c.local)
    BY UpdateFacts
  <2>3. c.local \in Stamps
    BY <2>2 DEF Clocks
  <2> HIDE DEF c
  <2>4. NotAfter(latest[n], c.local)
    BY <2>2, <2>3, StampOrder DEF ClockCovers, NotAfter
  <2>5. NotAfter(LaterOf(latest[n], r.stamp), c.local)
    BY <2>2, <2>3, <2>4, StampOrder DEF NotAfter
  <2> QED BY <2>1, <2>5 DEF ClockCovers, c
<1>3. ASSUME NEW n \in Node, Restart(n) PROVE ClockCovers'
  BY <1>3 DEF Restart, ClockCovers, ClockInit, NotAfter
<1>4. CASE Tick
  BY <1>4 DEF Tick, ClockCovers
<1>5. CASE UNCHANGED vars
  BY <1>5 DEF vars, ClockCovers
<1> QED BY <1>1, <1>2, <1>3, <1>4, <1>5 DEF Next

(* Every new stamp is later than all its writer has issued or adopted.     *)
THEOREM CausalStamps == Spec => CausalIssue
<1> DEFINE Later == \A r \in issued' \ issued : Before(latest[r.node], r.stamp)
<1>1. CInv /\ [Next]_vars => [Later]_vars
  <2> SUFFICES ASSUME CInv, Next PROVE Later
    OBVIOUS
  <2> USE TFacts DEF CInv
  <2>1. ASSUME NEW n \in Node, Issue(n) PROVE Later
    <3> DEFINE c == GetTimestamp(clock[n], Raw(n))
    <3>1. c.local \in Stamps /\ Before(clock[n].local, c.local)
      BY GetTimestampFacts
    <3>2. Before(latest[n], c.local)
      BY <3>1, StampOrder DEF ClockCovers, NotAfter
    <3>3. issued' = issued \cup {[node |-> n, stamp |-> c.local]}
      BY <2>1 DEF Issue
    <3> HIDE DEF c
    <3> QED BY <3>2, <3>3
  <2>2. ASSUME NEW n \in Node, Adopt(n) \/ Restart(n) PROVE Later
    BY <2>2 DEF Adopt, Restart
  <2>3. CASE Tick
    BY <2>3 DEF Tick
  <2> QED BY <2>1, <2>2, <2>3 DEF Next
<1>2. Spec => []CInv /\ [][Next]_vars
  BY InitCInv, StepCInv, PTL DEF Spec
<1> QED BY <1>1, <1>2, PTL DEF CausalIssue
-----------------------------------------------------------------------------
(* No invented second. *)

(* What NoInventedSecond needs to be inductive: a positive offset was set  *)
(* by a stamp of a still later second, so the case offset := -1 cannot     *)
(* meet a stopwatch that reads 0.                                          *)
OffsetBehindLocal ==
  \A n \in Node : SignedOffset(clock[n]) >= 1
                    => clock[n].local.physical > SignedOffset(clock[n])

DInv == TInv /\ NoInventedSecond /\ OffsetBehindLocal

LEMMA SignedFacts ==
  ASSUME NEW c \in Clocks
  PROVE  /\ SignedOffset(c) \in Int
         /\ SignedOffset(c) = c.offset \/ SignedOffset(c) = c.offset - PhysMod
BY PhysModAssumption DEF Clocks, SignedOffset

(* A date below the modulus survives the wrapping addition. *)
LEMMA AdjustedIsDate ==
  ASSUME NEW c \in Clocks, NEW raw \in Nat,
         raw + SignedOffset(c) \in 0 .. PhysMod - 1
  PROVE  Adjusted(c, raw) = raw + SignedOffset(c)
<1>1. PhysMod \in Nat \ {0} /\ c.offset \in Int
  BY PhysModAssumption DEF Clocks
<1>2. CASE SignedOffset(c) = c.offset
  BY <1>1, <1>2, ModSmall DEF Adjusted
<1>3. CASE SignedOffset(c) = c.offset - PhysMod
  <2>1. raw + c.offset = (raw + SignedOffset(c)) + PhysMod
    BY <1>1, <1>3
  <2> QED BY <1>1, <2>1, ModSmall DEF Adjusted
<1> QED BY <1>2, <1>3, SignedFacts

(* A difference of -1 or of a small date survives the wrapping subtraction. *)
LEMMA SignedOfMod ==
  ASSUME NEW c \in Clocks, NEW d \in -1 .. PhysMod \div 2,
         c.offset = d % PhysMod
  PROVE  SignedOffset(c) = d
<1>1. PhysMod \in Nat \ {0} /\ PhysMod > 2
  BY PhysModAssumption
<1>2. CASE d = -1
  <2>1. d + PhysMod \in 0 .. PhysMod - 1
    BY <1>1, <1>2
  <2>2. d = (d + PhysMod) - PhysMod
    BY <1>1
  <2>3. c.offset = PhysMod - 1
    BY <1>1, <1>2, <2>1, <2>2, ModSmall
  <2> QED BY <1>1, <1>2, <2>3 DEF SignedOffset
<1>3. CASE d # -1
  <2>1. d \in 0 .. PhysMod - 1
    BY <1>1, <1>3
  <2>2. c.offset = d
    BY <1>1, <2>1, ModSmall
  <2> QED BY <1>1, <2>2 DEF SignedOffset
<1> QED BY <1>2, <1>3

LEMMA DFacts ==
  ASSUME DInv, NEW n \in Node
  PROVE  /\ SignedOffset(clock[n]) \in Int
         /\ SignedOffset(clock[n]) >= -1
         /\ Adjusted(clock[n], Raw(n)) = Raw(n) + SignedOffset(clock[n])
         /\ Adjusted(clock[n], Raw(n)) \in 0 .. ticks
         /\ clock[n].local.physical \in 0 .. ticks
         /\ SignedOffset(clock[n]) >= 1
              => clock[n].local.physical > SignedOffset(clock[n])
         /\ ticks < PhysMod \div 2 /\ ticks < PhysMod /\ ticks \in Nat
<1>1. /\ clock[n] \in Clocks /\ Raw(n) \in Nat /\ now \in 0 .. MaxTime
      /\ ticks \in Nat /\ ticks <= now
      /\ clock[n].local \in Stamps
  BY TFacts DEF DInv
<1>2. ticks < PhysMod \div 2 /\ ticks < PhysMod /\ ticks \in Nat
  BY <1>1, HLCAssumption, PhysModAssumption
<1>3. /\ SignedOffset(clock[n]) \in Int
      /\ SignedOffset(clock[n]) >= -1
      /\ Raw(n) + SignedOffset(clock[n]) \in 0 .. ticks
      /\ clock[n].local.physical \in 0 .. ticks
  BY <1>1, SignedFacts DEF DInv, NoInventedSecond, Stamps
<1>4. Adjusted(clock[n], Raw(n)) = Raw(n) + SignedOffset(clock[n])
  BY <1>1, <1>2, <1>3, AdjustedIsDate, PhysModAssumption
<1> QED BY <1>2, <1>3, <1>4 DEF DInv, OffsetBehindLocal

LEMMA InitDInv == Init => DInv
<1> SUFFICES ASSUME Init PROVE NoInventedSecond /\ OffsetBehindLocal
  BY InitTInv DEF DInv
<1>1. TInv
  BY InitTInv
<1>2. \A n \in Node : SignedOffset(clock[n]) = 0 /\ clock[n].local.physical = 0
  BY PhysModAssumption DEF Init, ClockInit, Stamp, SignedOffset
<1>3. \A n \in Node : Raw(n) \in Nat /\ Raw(n) <= ticks /\ ticks \in Nat
  <2> SUFFICES ASSUME NEW n \in Node
               PROVE  Raw(n) \in Nat /\ Raw(n) <= ticks /\ ticks \in Nat
    OBVIOUS
  <2>1. /\ boot[n] \in Nat /\ boot[n] <= now /\ Raw(n) \in Nat /\ ticks \in Nat
        /\ now = Spread /\ ticks = Spread \div Sub /\ Spread \in Nat
    BY <1>1, TFacts, HLCAssumption DEF Init
  <2>2. Spread - boot[n] \in Nat /\ Spread - boot[n] <= Spread
    BY <2>1
  <2>3. (Spread - boot[n]) \div Sub <= Spread \div Sub
    BY <2>1, <2>2, DivMonotone, HLCAssumption
  <2> QED BY <2>1, <2>3 DEF Raw
<1> QED BY <1>2, <1>3 DEF NoInventedSecond, OffsetBehindLocal, Init

(* What one node's clock needs for DInv, after a step of that node. *)
LEMMA OneClock ==
  ASSUME DInv, NEW n \in Node, NEW c \in Clocks,
         clock' = [clock EXCEPT ![n] = c],
         UNCHANGED <<now, boot, ticks>>,
         SignedOffset(c) >= -1,
         Raw(n) + SignedOffset(c) \in 0 .. ticks,
         c.local.physical <= ticks,
         SignedOffset(c) >= 1 => c.local.physical > SignedOffset(c),
         \A r \in issued' : r.stamp.physical <= ticks
  PROVE  NoInventedSecond' /\ OffsetBehindLocal'
<1>1. /\ clock'[n] = c
      /\ \A m \in Node : m # n => clock'[m] = clock[m]
      /\ \A m \in Node : Raw(m)' = Raw(m)
      /\ ticks' = ticks
  BY TFacts DEF DInv, Raw
<1> QED BY <1>1, SignedFacts, TFacts DEF DInv, NoInventedSecond, OffsetBehindLocal

LEMMA StepDInv == DInv /\ [Next]_vars => DInv'
<1> SUFFICES ASSUME DInv, [Next]_vars PROVE NoInventedSecond' /\ OffsetBehindLocal'
  BY StepTInv DEF DInv
<1>t. TInv
  BY DEF DInv
<1>i. \A r \in issued : r.stamp.physical <= ticks
  BY DEF DInv, NoInventedSecond
<1>1. ASSUME NEW n \in Node, Issue(n) PROVE NoInventedSecond' /\ OffsetBehindLocal'
  <2> DEFINE c == GetTimestamp(clock[n], Raw(n))
  <2>1. /\ c \in Clocks
        /\ c.local \in Stamps
        /\ c.offset = clock[n].offset
        /\ c.local.physical \in {clock[n].local.physical, Adjusted(clock[n], Raw(n))}
        /\ c.local.physical >= clock[n].local.physical
    BY <1>t, TFacts, GetTimestampFacts
  <2>2. /\ clock' = [clock EXCEPT ![n] = c]
        /\ issued' = issued \cup {[node |-> n, stamp |-> c.local]}
        /\ UNCHANGED <<now, boot, ticks>>
    BY <1>1 DEF Issue
  <2> HIDE DEF c
  <2>3. SignedOffset(c) = SignedOffset(clock[n])
    BY <2>1 DEF SignedOffset
  <2>4. c.local.physical \in 0 .. ticks /\ c.local.physical <= ticks
    BY <2>1, DFacts
  <2>5. SignedOffset(c) >= 1 => c.local.physical > SignedOffset(c)
    BY <2>1, <2>3, <2>4, DFacts
  <2>6. \A r \in issued' : r.stamp.physical <= ticks
    BY <1>i, <2>2, <2>4
  <2>7. SignedOffset(c) >= -1 /\ Raw(n) + SignedOffset(c) \in 0 .. ticks
    BY <2>3, DFacts
  <2> QED BY <2>1, <2>2, <2>4, <2>5, <2>6, <2>7, OneClock
<1>2. ASSUME NEW n \in Node, Adopt(n) PROVE NoInventedSecond' /\ OffsetBehindLocal'
  <2>1. PICK r \in issued :
          /\ clock' = [clock EXCEPT ![n] = UpdateWithRemote(clock[n], Raw(n), r.stamp)]
          /\ UNCHANGED <<now, boot, issued, ticks>>
    BY <1>2 DEF Adopt
  <2> DEFINE c == UpdateWithRemote(clock[n], Raw(n), r.stamp)
             p == Adjusted(clock[n], Raw(n))
             q == r.stamp.physical
             s == SignedOffset(clock[n])
  <2>2. /\ clock[n] \in Clocks /\ Raw(n) \in Nat /\ r.stamp \in Stamps
        /\ q \in 0 .. ticks /\ ticks \in Nat
    BY <1>t, <1>i, TFacts DEF Stamps
  <2>3. /\ c \in Clocks
        /\ c.local.physical >= clock[n].local.physical
        /\ \/ /\ c.offset = clock[n].offset
              /\ c.local.physical \in {clock[n].local.physical, p}
           \/ /\ clock[n].local.physical < q
              /\ p <= q
              /\ c.local.physical = q
              /\ c.offset = (q - p - 1) % PhysMod
    BY <2>2, UpdateFacts
  <2>4. /\ s \in Int /\ s >= -1
        /\ p = Raw(n) + s /\ p \in 0 .. ticks
        /\ clock[n].local.physical \in 0 .. ticks
        /\ s >= 1 => clock[n].local.physical > s
        /\ ticks < PhysMod \div 2
    BY DFacts
  <2>5. \A x \in issued' : x.stamp.physical <= ticks
    BY <1>i, <2>1
  <2>6. clock' = [clock EXCEPT ![n] = c] /\ UNCHANGED <<now, boot, ticks>>
    BY <2>1
  <2> HIDE DEF c, p, q, s
  <2>7. CASE /\ c.offset = clock[n].offset
             /\ c.local.physical \in {clock[n].local.physical, p}
    <3>1. SignedOffset(c) = s
      BY <2>7 DEF SignedOffset, s
    <3>2. /\ SignedOffset(c) >= -1
          /\ Raw(n) + SignedOffset(c) \in 0 .. ticks
          /\ c.local.physical <= ticks
          /\ SignedOffset(c) >= 1 => c.local.physical > SignedOffset(c)
      BY <3>1, <2>2, <2>3, <2>4, <2>7
    <3> QED BY <3>2, <2>3, <2>5, <2>6, OneClock
  <2>8. CASE /\ clock[n].local.physical < q
             /\ p <= q
             /\ c.local.physical = q
             /\ c.offset = (q - p - 1) % PhysMod
    <3>1. q - p - 1 \in -1 .. PhysMod \div 2
      BY <2>2, <2>4, <2>8, PhysModAssumption
    <3>2. SignedOffset(c) = q - p - 1
      BY <2>3, <2>8, <3>1, SignedOfMod
    <3>3. Raw(n) + SignedOffset(c) = q - 1 - s
      BY <2>2, <2>4, <3>2
    <3>4. Raw(n) + SignedOffset(c) \in 0 .. ticks
      <4>1. Raw(n) + SignedOffset(c) <= ticks
        BY <2>2, <2>4, <3>3
      <4>2. q - 1 - s >= 0
        BY <2>2, <2>4, <2>8
      <4> QED BY <4>1, <4>2, <3>3, <2>2, <2>4
    <3>5. /\ SignedOffset(c) >= -1
          /\ c.local.physical <= ticks
          /\ SignedOffset(c) >= 1 => c.local.physical > SignedOffset(c)
      BY <3>1, <3>2, <2>2, <2>4, <2>8
    <3> QED BY <3>4, <3>5, <2>3, <2>5, <2>6, OneClock
  <2> QED BY <2>3, <2>7, <2>8
<1>3. ASSUME NEW n \in Node, Restart(n) PROVE NoInventedSecond' /\ OffsetBehindLocal'
  <2>1. /\ clock'[n] = ClockInit /\ boot'[n] = now
        /\ now' = now /\ ticks' = ticks /\ issued' = issued
        /\ \A m \in Node : m # n => clock'[m] = clock[m] /\ Raw(m)' = Raw(m)
    BY <1>3, <1>t DEF Restart, TInv, TypeOK, Raw
  <2>2. Raw(n)' = 0
    BY <2>1, <1>t, TFacts, HLCAssumption DEF Raw
  <2>3. SignedOffset(ClockInit) = 0 /\ ClockInit.local.physical = 0
    BY PhysModAssumption DEF ClockInit, Stamp, SignedOffset
  <2>4. ticks \in Nat
    BY <1>t, TFacts
  <2> QED BY <2>1, <2>2, <2>3, <2>4, SignedFacts, TFacts
          DEF DInv, NoInventedSecond, OffsetBehindLocal
<1>4. CASE Tick
  <2>1. now' = now + 1 /\ clock' = clock /\ issued' = issued /\ boot' = boot
    BY <1>4 DEF Tick
  <2>2. \A n \in Node : Raw(n)' \in {Raw(n), Raw(n) + 1} /\ Raw(n) \in Nat
    <3> SUFFICES ASSUME NEW n \in Node
                 PROVE  Raw(n)' \in {Raw(n), Raw(n) + 1} /\ Raw(n) \in Nat
      OBVIOUS
    <3>1. boot[n] \in Nat /\ boot[n] <= now /\ now \in Nat /\ Raw(n) \in Nat
      BY <1>t, TFacts
    <3>2. now' - boot'[n] = (now - boot[n]) + 1 /\ now - boot[n] \in Nat
      BY <2>1, <3>1
    <3> QED BY <3>1, <3>2, DivStep, HLCAssumption DEF Raw
  <2>3. /\ ticks \in Nat /\ ticks' \in {ticks, ticks + 1}
        /\ \A n \in Node : Raw(n)' # Raw(n) => ticks' = ticks + 1
    BY <1>4, <1>t, TFacts DEF Tick
  <2>4. \A r \in issued' : r.stamp.physical <= ticks'
    BY <2>1, <2>3, <1>t, <1>i, TFacts DEF Stamps
  <2>5. ASSUME NEW n \in Node
        PROVE  /\ SignedOffset(clock'[n]) >= -1
               /\ 0 <= Raw(n)' + SignedOffset(clock'[n])
               /\ Raw(n)' + SignedOffset(clock'[n]) <= ticks'
               /\ clock'[n].local.physical <= ticks'
               /\ SignedOffset(clock'[n]) >= 1
                    => clock'[n].local.physical > SignedOffset(clock'[n])
    BY <2>1, <2>2, <2>3, DFacts
  <2> QED BY <2>4, <2>5 DEF NoInventedSecond, OffsetBehindLocal
<1>5. CASE UNCHANGED vars
  BY <1>5 DEF vars, DInv, NoInventedSecond, OffsetBehindLocal, Raw
<1> QED BY <1>1, <1>2, <1>3, <1>4, <1>5 DEF Next

(* The wrapping arithmetic never produces a second that no stopwatch has   *)
(* counted: the latest date of the network goes on with a stopwatch only.  *)
THEOREM SecondsAreCounted == Spec => []NoInventedSecond
<1>1. Spec => []DInv
  BY InitDInv, StepDInv, PTL DEF Spec
<1>2. DInv => NoInventedSecond
  BY DEF DInv
<1> QED BY <1>1, <1>2, PTL
=============================================================================
