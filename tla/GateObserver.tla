---------------------------- MODULE GateObserver ----------------------------
(***************************************************************************)
(* How a senseGate turns its sensors into the report other nodes see       *)
(* (gate_observer.c, senseGate/main.c).  Two threads run _update_state on  *)
(* one gate_observer_t without a lock: main, periodically, and the         *)
(* observer thread, on the interrupts of the limit switches, muted for a   *)
(* debounce time after each one it handles.  The observer thread has the   *)
(* higher priority: main only runs while it waits, either for an event or  *)
(* in its callback, for room in the message queue of a radio thread.       *)
(*                                                                         *)
(* Here the table is one register, the gate's own report (each put wins);  *)
(* sequence numbers, failing puts and the copies of other nodes are in     *)
(* Tables.  The sensors are sampled in one step: one limit switch is       *)
(* fitted.                                                                 *)
(***************************************************************************)
EXTENDS Integers, Sequences, FiniteSets, SequencesExt

CONSTANTS Switch,     \* the limit switches, with interrupts on both edges
          Distance,   \* the distance sensors (none: senseGate/Makefile)
          main, observer

Sensor == Switch \cup Distance

ASSUME SensorAssumption ==
  /\ IsFiniteSet(Sensor)
  /\ Switch \cap Distance = {}
  /\ main # observer

Thread == {main, observer}
States == {"open", "closed"}

VARIABLES shut,       \* the sensors that now indicate a closed gate
          concluded,  \* observer->state.concluded_state
          muted,      \* observer->ls_event_muted
          timer,      \* the debounce timeout is running
          queue,      \* the observer thread's event queue
          phase,      \* of main: "init", "first" (initial report), "running"
          pc,         \* pc[t]: where thread t is
          seen,       \* seen[t]: the sensors t found closed
          prev,       \* prev[t]: prev_state of t
          arg,        \* arg[t]: the state t is about to report
          report,     \* the state in the gate's own record
          asked,      \* a query for the gate's record waits for the BLE thread
          air         \* the state broadcast last

local == <<seen, prev, arg>>
vars == <<shut, concluded, muted, timer, queue, phase, pc, local, report, asked, air>>

Init ==
  /\ shut \in SUBSET Sensor
  /\ concluded = "invalid"
  /\ muted = FALSE /\ timer = FALSE
  /\ queue = <<>>
  /\ phase = "init"
  /\ pc = [t \in Thread |-> IF t = main THEN "sample" ELSE "wait"]
  /\ seen = [t \in Thread |-> {}]
  /\ prev = [t \in Thread |-> "invalid"]
  /\ arg = [t \in Thread |-> "invalid"]
  /\ report = "none" /\ asked = FALSE /\ air = "none"

(* event_post: an event that is queued already is not queued again. *)
Posted(e) == IF Contains(queue, e) THEN queue ELSE Append(queue, e)

Scheduled(t) ==
  t = main => \/ pc[observer] = "wait" /\ queue = <<>>
              \/ pc[observer] = "notify"

(* t is scheduled, is at a, and goes on to b. *)
Goto(t, a, b) == Scheduled(t) /\ pc[t] = a /\ pc' = [pc EXCEPT ![t] = b]
-----------------------------------------------------------------------------
(* The gate moves; limit_switch_cb posts its event in the interrupt. *)
Move(s) ==
  /\ shut' = IF s \in shut THEN shut \ {s} ELSE shut \cup {s}
  /\ queue' = IF s \in Switch THEN Posted("switch") ELSE queue
  /\ UNCHANGED <<concluded, muted, timer, phase, pc, local, report, asked, air>>

DebounceOver ==
  /\ timer
  /\ timer' = FALSE
  /\ queue' = Posted("reactivate")
  /\ UNCHANGED <<shut, concluded, muted, phase, pc, local, report, asked, air>>

(* event_loop: limit_switch_event_handler up to its call of _update_state, *)
(* nothing at all while muted; limit_switch_reactivate_handler.            *)
HandleEvent ==
  /\ pc[observer] = "wait"
  /\ queue # <<>>
  /\ queue' = Tail(queue)
  /\ muted' = (muted /\ Head(queue) # "reactivate")
  /\ pc' = [pc EXCEPT ![observer] =
              IF Head(queue) = "switch" /\ ~muted THEN "sample" ELSE "wait"]
  /\ UNCHANGED <<shut, concluded, timer, phase, local, report, asked, air>>

(* Mutant: the timeout is not set. *)
NoTimeoutMutant ==
  /\ Goto(observer, "mute", "wait")
  /\ muted' = TRUE
  /\ UNCHANGED <<shut, concluded, timer, queue, phase, local, report, asked, air>>

(* The end of limit_switch_event_handler. *)
Mute ==
  /\ Goto(observer, "mute", "wait")
  /\ muted' = TRUE /\ timer' = TRUE
  /\ UNCHANGED <<shut, concluded, queue, phase, local, report, asked, air>>
-----------------------------------------------------------------------------
(* _update_state: the sensors, the previous state, the new state, and the  *)
(* callback if they differ.  The state is a plain field that the other     *)
(* thread may write at any point: what is compared and passed on is the    *)
(* value just written or the one now in memory.                            *)
Sample(t) ==
  /\ Goto(t, "sample", "load")
  /\ seen' = [seen EXCEPT ![t] = shut]
  /\ UNCHANGED <<shut, concluded, muted, timer, queue, phase, prev, arg, report, asked, air>>

LoadPrevious(t) ==
  /\ Goto(t, "load", "conclude")
  /\ prev' = [prev EXCEPT ![t] = concluded]
  /\ UNCHANGED <<shut, concluded, muted, timer, queue, phase, seen, arg, report, asked, air>>

(* The number of sensors that indicate "closed" is compared with twice the *)
(* number of distance sensors.                                             *)
ConcludedState(S) ==
  IF Cardinality(S) = Cardinality(Distance) + Cardinality(Distance) THEN "closed" ELSE "open"

Conclude(t) ==
  /\ Goto(t, "conclude", "compare")
  /\ concluded' = ConcludedState(seen[t])
  /\ UNCHANGED <<shut, muted, timer, queue, phase, local, report, asked, air>>

Visible(t) == {ConcludedState(seen[t]), concluded}

(* Where t goes on after _update_state. *)
AfterUpdate(t) ==
  CASE t = observer -> "mute"
    [] t = main /\ phase = "init" -> "sample"
    [] OTHER -> "return"

PhaseAfterUpdate(t) == IF t = main /\ phase = "init" THEN "first" ELSE phase

Unchanged(t) ==
  /\ Goto(t, "compare", AfterUpdate(t))
  /\ prev[t] \in Visible(t)
  /\ phase' = PhaseAfterUpdate(t)
  /\ UNCHANGED <<shut, concluded, muted, timer, queue, local, report, asked, air>>

Changed(t) ==
  /\ Goto(t, "compare", "callback")
  /\ Visible(t) # {prev[t]}
  /\ \E s \in Visible(t) : arg' = [arg EXCEPT ![t] = s]
  /\ UNCHANGED <<shut, concluded, muted, timer, queue, phase, seen, prev, report, asked, air>>

(* Mutant: the previous state is passed to the callback. *)
PreviousMutant(t) ==
  /\ Goto(t, "callback", "notify")
  /\ report' = prev[t]
  /\ UNCHANGED <<shut, concluded, muted, timer, queue, phase, local, asked, air>>

(* gate_observer_state_change_cb: the put, then a message to the BLE       *)
(* thread, if there is one and memory for the message.  A sender waits     *)
(* while the queue of the receiver is full.                                *)
CallbackPut(t) ==
  /\ Goto(t, "callback", "notify")
  /\ report' = arg[t]
  /\ UNCHANGED <<shut, concluded, muted, timer, queue, phase, local, asked, air>>

Notify(t) ==
  /\ Goto(t, "notify", AfterUpdate(t))
  /\ asked' \in {asked, asked \/ phase = "running"}
  /\ phase' = PhaseAfterUpdate(t)
  /\ UNCHANGED <<shut, concluded, muted, timer, queue, local, report, air>>
-----------------------------------------------------------------------------
(* Mutant: gate_observer_get_state does not sample the sensors. *)
CachedMutant ==
  /\ Goto(main, "sleep", "return")
  /\ UNCHANGED <<shut, concluded, muted, timer, queue, phase, local, report, asked, air>>

(* main: every 30 s gate_observer_get_state, then a new report. *)
Wake ==
  /\ Goto(main, "sleep", "sample")
  /\ UNCHANGED <<shut, concluded, muted, timer, queue, phase, local, report, asked, air>>

ReturnState ==
  /\ Goto(main, "return", "put")
  /\ \E s \in Visible(main) : arg' = [arg EXCEPT ![main] = s]
  /\ UNCHANGED <<shut, concluded, muted, timer, queue, phase, seen, prev, report, asked, air>>

(* tables_put_gate_report; after the first one the radios are started. *)
PutReport ==
  /\ Goto(main, "put", "sleep")
  /\ report' = arg[main]
  /\ phase' = "running"
  /\ UNCHANGED <<shut, concluded, muted, timer, queue, local, asked, air>>

(* ble_tx_thread: what is in the table is sent on request and every 10 s. *)
Transmit ==
  /\ phase = "running"
  /\ air' = report
  /\ asked' = FALSE
  /\ UNCHANGED <<shut, concluded, muted, timer, queue, phase, pc, local, report>>

UpdateStep(t) ==
  \/ Sample(t) \/ LoadPrevious(t) \/ Conclude(t)
  \/ Unchanged(t) \/ Changed(t) \/ CallbackPut(t) \/ Notify(t)

MainStep == UpdateStep(main) \/ Wake \/ ReturnState \/ PutReport
ObserverStep == UpdateStep(observer) \/ HandleEvent \/ Mute

Next ==
  \/ \E s \in Sensor : Move(s)
  \/ DebounceOver
  \/ MainStep
  \/ ObserverStep
  \/ Transmit

Spec == Init /\ [][Next]_vars

(* The scheduler runs the observer thread whenever it can run, and main    *)
(* when the observer waits; timers expire; full queues are drained.        *)
Fairness ==
  /\ WF_vars(MainStep)
  /\ WF_vars(ObserverStep)
  /\ WF_vars(DebounceOver)
  /\ WF_vars(Transmit)

FairSpec == Spec /\ Fairness
-----------------------------------------------------------------------------
TypeOK ==
  /\ shut \subseteq Sensor
  /\ concluded \in States \cup {"invalid"}
  /\ muted \in BOOLEAN /\ timer \in BOOLEAN
  /\ queue \in Seq({"switch", "reactivate"})
  /\ phase \in {"init", "first", "running"}
  /\ pc[main] \in {"sample", "load", "conclude", "compare", "callback", "notify",
                   "return", "put", "sleep"}
  /\ pc[observer] \in {"wait", "sample", "load", "conclude", "compare", "callback",
                       "notify", "mute"}
  /\ seen \in [Thread -> SUBSET Sensor]
  /\ prev \in [Thread -> States \cup {"invalid"}]
  /\ arg \in [Thread -> States \cup {"invalid"}]
  /\ report \in States \cup {"none"} /\ air \in States \cup {"none"}
  /\ asked \in BOOLEAN

(* limit_switch_event_handler drops events while ls_event_muted is set:    *)
(* the flag is only ever set while something is under way that clears it,  *)
(* and no debounce runs on into an unmuted phase, where it would cut the   *)
(* next one short.                                                         *)
MuteEnds == muted <=> timer \/ Contains(queue, "reactivate")

(* Edges during the debounce are lost, main's stale sample may overwrite a *)
(* newer conclusion, and its late put a newer report.  None of it lasts:   *)
(* once the gate rests, its report and what it broadcasts settle on what   *)
(* its sensors show (main.c:216-234 samples and puts unconditionally).     *)
Settles ==
  \A v \in States :
    <>[](ConcludedState(shut) = v) => <>[](concluded = v /\ report = v /\ air = v)
=============================================================================
