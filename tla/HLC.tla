-------------------------------- MODULE HLC --------------------------------
(***************************************************************************)
(* Nodes with hybrid logical clocks that stamp records and adopt the       *)
(* stamps of the records they receive.  Physical time is true time in      *)
(* units of 1/Sub second; each node's stopwatch (hlc_ztimer.c) counts      *)
(* whole seconds since that node was powered on, so two stopwatches differ *)
(* by an offset and by a phase.  A stamp that was issued may be delivered  *)
(* to any other node, at any later time, any number of times, or never:    *)
(* records are re-broadcast from the stores of other nodes.                *)
(***************************************************************************)
EXTENDS HlcClock

CONSTANTS Node,        \* the senseGates and senseMates
          Sub,         \* units of true time per second of the stopwatch
          Spread,      \* latest initial power-on time
          MaxTime,     \* bound: true time stops here
          LogicalCap,  \* bound: no event with a stamp whose logical part is here
          MaxLife      \* bound: power cycles per node

ASSUME HLCAssumption ==
  /\ Sub \in Nat \ {0}
  /\ Spread \in Nat /\ MaxTime \in Nat /\ LogicalCap \in Nat /\ MaxLife \in Nat
  /\ Spread <= MaxTime
  /\ MaxTime < PhysMod \div 2

VARIABLES now,     \* true time
          boot,    \* boot[n]: true time of n's last power-on
          life,    \* life[n]: number of power cycles of n
          clock,   \* clock[n]: hlc_ctx_t of n, lost at a power cycle
          issued,  \* history: every stamp handed out, and by whom
          latest,  \* history: latest stamp n has issued or adopted in this life
          ticks    \* history: the instants at which some stopwatch went on to
                   \* its next second, and the seconds it showed at first

vars == <<now, boot, life, clock, issued, latest, ticks>>

Issues == [node : Node, stamp : Stamps]

(* hlc_ztimer_get_time *)
Raw(n) == (now - boot[n]) \div Sub

Init ==
  /\ now = Spread
  /\ boot \in [Node -> 0 .. Spread]
  /\ life = [n \in Node |-> 0]
  /\ clock = [n \in Node |-> ClockInit]
  /\ issued = {}
  /\ latest = [n \in Node |-> Stamp(0, 0)]
  /\ ticks = Spread \div Sub

Tick ==
  /\ now < MaxTime
  /\ now' = now + 1
  /\ UNCHANGED <<boot, life, clock, issued, latest>>
  /\ ticks' = IF \E n \in Node : Raw(n)' # Raw(n) THEN ticks + 1 ELSE ticks

(* hlc_get_current_timestamp on behalf of a new record. *)
Issue(n) ==
  /\ clock[n].local.logical < LogicalCap
  /\ LET c == GetTimestamp(clock[n], Raw(n))
     IN  /\ clock' = [clock EXCEPT ![n] = c]
         /\ issued' = issued \cup {[node |-> n, stamp |-> c.local]}
         /\ latest' = [latest EXCEPT ![n] = LaterOf(@, c.local)]
  /\ UNCHANGED <<now, boot, life, ticks>>

(* hlc_update_with_remote_timestamp with the stamp of a record of another  *)
(* node (a node drops the records it finds it wrote itself).               *)
Adopt(n) ==
  \E r \in issued :
    /\ r.node # n
    /\ clock[n].local.logical < LogicalCap
    /\ r.stamp.logical < LogicalCap
    /\ clock' = [clock EXCEPT ![n] = UpdateWithRemote(@, Raw(n), r.stamp)]
    /\ latest' = [latest EXCEPT ![n] = LaterOf(@, r.stamp)]
    /\ UNCHANGED <<now, boot, life, issued, ticks>>

(* A power cycle: hlc_ztimer_init and hlc_init, with nothing restored. *)
Restart(n) ==
  /\ life[n] < MaxLife
  /\ life' = [life EXCEPT ![n] = @ + 1]
  /\ boot' = [boot EXCEPT ![n] = now]
  /\ clock' = [clock EXCEPT ![n] = ClockInit]
  /\ latest' = [latest EXCEPT ![n] = Stamp(0, 0)]
  /\ UNCHANGED <<now, issued, ticks>>

Next == \/ Tick
        \/ \E n \in Node : Issue(n) \/ Adopt(n) \/ Restart(n)

Spec == Init /\ [][Next]_vars
-----------------------------------------------------------------------------
TypeOK ==
  /\ now \in 0 .. MaxTime
  /\ boot \in [Node -> 0 .. MaxTime]
  /\ life \in [Node -> 0 .. MaxLife]
  /\ clock \in [Node -> Clocks]
  /\ issued \subseteq Issues
  /\ latest \in [Node -> Stamps]
  /\ ticks \in 0 .. MaxTime

(* Happens-before (tables.c stamps a new record with                       *)
(* hlc_get_current_timestamp after merging others): the stamp of a new     *)
(* record is later than every stamp its writer has issued or adopted since *)
(* it was powered on, however often the offset was rewritten in between.   *)
CausalIssue ==
  [][\A r \in issued' \ issued : Before(latest[r.node], r.stamp)]_vars

(* The unsigned arithmetic of hybrid_logical_clock.c:67,94,127 never wraps *)
(* into a false date, and adopting stamps never makes a second of its own: *)
(* read as a signed number the offset is at least -1, stopwatch plus       *)
(* offset is at least 0, and the latest second that any clock, date or     *)
(* record carries goes on only when a stopwatch somewhere does, by one.    *)
(* Stopwatches that are out of phase may each add a second within one      *)
(* second of true time; that is the drift of NeverAhead below, and all of  *)
(* it.  A single stamp near 2^32 would be adopted by every node.           *)
NoInventedSecond ==
  /\ \A n \in Node :
       LET date == Raw(n) + SignedOffset(clock[n])
       IN  /\ SignedOffset(clock[n]) >= -1
           /\ 0 <= date /\ date <= ticks
           /\ clock[n].local.physical <= ticks
  /\ \A r \in issued : r.stamp.physical <= ticks

(* The comment at hybrid_logical_clock.c:92 on the "- 1" of line 94: "to   *)
(* ensure we never leap ahead the remote which could cause network wide    *)
(* drift".  No node's adjusted clock shows a later second than the         *)
(* stopwatch of a node that has been on since time 0; adopting a second    *)
(* minus one from clocks that comply leaves a clock that complies.         *)
NeverAhead ==
  \A n \in Node : Adjusted(clock[n], Raw(n)) <= now \div Sub
=============================================================================
