------------------------ MODULE GateObserver_proofs ------------------------
(***************************************************************************)
(* Proofs about GateObserver for any number of limit switches and distance *)
(* sensors: type correctness, which says among others that the state       *)
(* "invalid" of a new observer is never reported, and that the debounce of *)
(* the limit switches always ends.                                         *)
(***************************************************************************)
EXTENDS GateObserver, TLAPS

MainPcs == {"sample", "load", "conclude", "compare", "callback", "notify",
            "return", "put", "sleep"}
ObserverPcs == {"wait", "sample", "load", "conclude", "compare", "callback",
                "notify", "mute"}
Events == {"switch", "reactivate"}

-----------------------------------------------------------------------------
(* The inductive invariants. *)

(* Nothing has been concluded only as long as no thread has come past the  *)
(* conclusion of its first update.                                         *)
FirstUpdate ==
  concluded = "invalid" =>
    /\ pc[main] \in {"sample", "load", "conclude"}
    /\ pc[observer] \in {"wait", "sample", "load", "conclude"}

(* A state is about to be reported. *)
ArgValid ==
  /\ \A t \in Thread : pc[t] = "callback" => arg[t] \in States
  /\ pc[main] = "put" => arg[main] \in States

Typed == TypeOK /\ pc \in [Thread -> MainPcs \cup ObserverPcs] /\ FirstUpdate /\ ArgValid

(* The debounce: at most one of the timer and its event is under way, the  *)
(* event at most once, and none before the observer mutes again.           *)
Reactivating == Contains(queue, "reactivate")
MuteInv ==
  /\ MuteEnds
  /\ ~(timer /\ Reactivating)
  /\ \A i, j \in 1 .. Len(queue) :
       queue[i] = "reactivate" /\ queue[j] = "reactivate" => i = j
  /\ pc[observer] # "wait" => ~muted

-----------------------------------------------------------------------------
LEMMA ThreadFacts ==
  /\ main \in Thread /\ observer \in Thread /\ main # observer
  /\ \A t \in Thread : t = main \/ t = observer
BY SensorAssumption DEF Thread

(* What a thread does after _update_state. *)
LEMMA AfterUpdateFacts ==
  /\ AfterUpdate(observer) = "mute"
  /\ AfterUpdate(main) \in {"sample", "return"}
  /\ \A t : PhaseAfterUpdate(t) \in {phase, "first"}
BY ThreadFacts DEF AfterUpdate, PhaseAfterUpdate

LEMMA ConcludedStateFacts == \A S : ConcludedState(S) \in States
BY DEF ConcludedState, States

(* The sequence of events. *)
LEMMA PostedFacts ==
  ASSUME queue \in Seq(Events), NEW e \in Events
  PROVE  /\ Posted(e) \in Seq(Events)
         /\ \A f \in Events : Contains(Posted(e), f) <=> (Contains(queue, f) \/ f = e)
BY DEF Posted, Contains

LEMMA TailFacts ==
  ASSUME queue \in Seq(Events), queue # <<>>
  PROVE  /\ Head(queue) \in Events /\ Tail(queue) \in Seq(Events)
         /\ Len(queue) \in Nat \ {0} /\ Len(Tail(queue)) = Len(queue) - 1
         /\ Head(queue) = queue[1]
         /\ \A i \in 1 .. Len(Tail(queue)) : Tail(queue)[i] = queue[i + 1]
OBVIOUS

(* A step of a thread moves that thread only. *)
LEMMA GotoFacts ==
  ASSUME Typed, NEW t \in Thread, NEW a, NEW b \in MainPcs \cup ObserverPcs,
         Goto(t, a, b)
  PROVE  /\ pc[t] = a /\ pc'[t] = b
         /\ \A s \in Thread : s # t => pc'[s] = pc[s]
         /\ pc' \in [Thread -> MainPcs \cup ObserverPcs]
BY DEF Typed, Goto

LEMMA InitTyped == Init => Typed
<1> SUFFICES ASSUME Init PROVE Typed
  OBVIOUS
<1>1. /\ pc \in [Thread -> MainPcs \cup ObserverPcs]
      /\ pc[main] = "sample" /\ pc[observer] = "wait"
  BY ThreadFacts DEF Init, Thread, MainPcs, ObserverPcs
<1>2. queue \in Seq({"switch", "reactivate"})
  BY DEF Init
<1> QED BY <1>1, <1>2, ThreadFacts DEF Init, Typed, TypeOK, FirstUpdate, ArgValid, States

LEMMA TypeFacts ==
  ASSUME Typed
  PROVE  /\ pc[main] \in MainPcs /\ pc[observer] \in ObserverPcs
         /\ \A t \in Thread : /\ seen[t] \subseteq Sensor
                              /\ prev[t] \in States \cup {"invalid"}
                              /\ arg[t] \in States \cup {"invalid"}
BY ThreadFacts DEF Typed, TypeOK, MainPcs, ObserverPcs

(* Once a thread compares, there is a conclusion, and it is what it sees.  *)
LEMMA VisibleFacts ==
  ASSUME Typed, NEW t \in Thread, pc[t] \in {"compare", "return"}
  PROVE  /\ concluded \in States
         /\ Visible(t) \subseteq States
<1>1. concluded # "invalid"
  BY ThreadFacts DEF Typed, FirstUpdate
<1> QED BY <1>1, ConcludedStateFacts DEF Typed, TypeOK, Visible

(* A step that only moves a thread and changes its local variables. *)
LEMMA LocalTyped ==
  ASSUME Typed, NEW t \in Thread, NEW a, NEW b \in MainPcs \cup ObserverPcs,
         Goto(t, a, b),
         t = main => b \in MainPcs, t = observer => b \in ObserverPcs,
         a \in {"sample", "load", "conclude", "wait"} =>
           b \in {"sample", "load", "conclude", "wait"} \/ concluded' # "invalid",
         seen' \in [Thread -> SUBSET Sensor],
         prev' \in [Thread -> States \cup {"invalid"}],
         arg' \in [Thread -> States \cup {"invalid"}],
         b \in {"callback", "put"} => arg'[t] \in States,
         \A s \in Thread : s # t => arg'[s] = arg[s],
         concluded' = concluded \/ concluded' \in States,
         phase' \in {phase, "first", "running"},
         report' \in States \cup {"none"}, air' \in States \cup {"none"},
         asked' \in BOOLEAN, muted' \in BOOLEAN, timer' \in BOOLEAN,
         UNCHANGED <<shut, queue>>
  PROVE  Typed'
<1> USE ThreadFacts
<1>1. /\ pc[t] = a /\ pc'[t] = b
      /\ \A s \in Thread : s # t => pc'[s] = pc[s]
      /\ pc' \in [Thread -> MainPcs \cup ObserverPcs]
  BY GotoFacts
<1>2. pc'[main] \in MainPcs /\ pc'[observer] \in ObserverPcs
  BY <1>1, TypeFacts
<1>3. TypeOK'
  BY <1>2 DEF Typed, TypeOK, MainPcs, ObserverPcs
<1>4. FirstUpdate'
  <2> SUFFICES ASSUME concluded' = "invalid"
               PROVE  /\ pc'[main] \in {"sample", "load", "conclude"}
                      /\ pc'[observer] \in {"wait", "sample", "load", "conclude"}
    BY DEF FirstUpdate
  <2>1. concluded = "invalid"
    BY DEF States
  <2>2. a \in {"sample", "load", "conclude", "wait"}
    BY <1>1, <2>1 DEF Typed, FirstUpdate
  <2>3. b \in {"sample", "load", "conclude", "wait"}
    BY <2>2
  <2> QED BY <1>1, <1>2, <2>1, <2>3 DEF Typed, FirstUpdate, MainPcs, ObserverPcs
<1>5. ArgValid'
  BY <1>1 DEF Typed, ArgValid
<1> QED BY <1>1, <1>3, <1>4, <1>5 DEF Typed

LEMMA StepTyped == Typed /\ [Next]_vars => Typed'
<1> SUFFICES ASSUME Typed, [Next]_vars PROVE Typed'
  OBVIOUS
<1> USE ThreadFacts, TypeFacts DEF vars, local
<1>0. /\ muted \in BOOLEAN /\ timer \in BOOLEAN /\ asked \in BOOLEAN
      /\ report \in States \cup {"none"} /\ air \in States \cup {"none"}
      /\ queue \in Seq(Events)
      /\ seen \in [Thread -> SUBSET Sensor]
      /\ prev \in [Thread -> States \cup {"invalid"}]
      /\ arg \in [Thread -> States \cup {"invalid"}]
      /\ shut \subseteq Sensor
      /\ concluded \in States \cup {"invalid"}
  BY DEF Typed, TypeOK, Events
<1>1. ASSUME NEW s \in Sensor, Move(s) PROVE Typed'
  <2>1. queue' \in Seq(Events) /\ shut' \subseteq Sensor
    BY <1>0, <1>1, PostedFacts DEF Move, Events
  <2> QED BY <1>1, <2>1 DEF Move, Typed, TypeOK, FirstUpdate, ArgValid, Events
<1>2. CASE DebounceOver
  <2>1. queue' \in Seq(Events)
    BY <1>0, <1>2, PostedFacts DEF DebounceOver, Events
  <2>2. /\ timer' \in BOOLEAN
        /\ UNCHANGED <<shut, concluded, muted, phase, pc, seen, prev, arg, report, asked, air>>
    BY <1>2 DEF DebounceOver
  <2> QED BY <1>0, <2>1, <2>2 DEF Typed, TypeOK, FirstUpdate, ArgValid, Events
<1>3. CASE HandleEvent
  <2>1. queue' \in Seq(Events)
    BY <1>0, <1>3, TailFacts DEF HandleEvent
  <2>2. /\ pc' \in [Thread -> MainPcs \cup ObserverPcs]
        /\ pc'[main] = pc[main] /\ pc'[observer] \in {"sample", "wait"}
    BY <1>3 DEF HandleEvent, Typed, ObserverPcs
  <2> QED BY <1>0, <1>3, <2>1, <2>2 DEF HandleEvent, Typed, TypeOK, FirstUpdate, ArgValid, Events
<1>4. CASE Mute
  BY <1>0, <1>4, LocalTyped DEF Mute, ObserverPcs
<1>5. ASSUME NEW t \in Thread, UpdateStep(t) PROVE Typed'
  <2>1. CASE Sample(t)
    BY <1>0, <2>1, LocalTyped DEF Sample, MainPcs, ObserverPcs
  <2>2. CASE LoadPrevious(t)
    BY <1>0, <2>2, LocalTyped DEF LoadPrevious, MainPcs, ObserverPcs
  <2>3. CASE Conclude(t)
    BY <1>0, <2>3, LocalTyped, ConcludedStateFacts DEF Conclude, MainPcs, ObserverPcs, States
  <2>4. CASE Unchanged(t)
    BY <1>0, <2>4, LocalTyped, AfterUpdateFacts DEF Unchanged, MainPcs, ObserverPcs
  <2>5. CASE Changed(t)
    <3>1. PICK s \in Visible(t) : arg' = [arg EXCEPT ![t] = s]
      BY <2>5 DEF Changed
    <3>2. s \in States
      BY <2>5, <3>1, GotoFacts, VisibleFacts DEF Changed, Goto
    <3> QED BY <1>0, <2>5, <3>1, <3>2, LocalTyped DEF Changed, MainPcs, ObserverPcs
  <2>6. CASE CallbackPut(t)
    <3>1. arg[t] \in States
      BY <2>6 DEF CallbackPut, Goto, Typed, ArgValid
    <3> QED BY <1>0, <2>6, <3>1, LocalTyped DEF CallbackPut, MainPcs, ObserverPcs
  <2>7. CASE Notify(t)
    BY ZenonT(40), <1>0, <2>7, LocalTyped, AfterUpdateFacts DEF Notify, MainPcs, ObserverPcs
  <2> QED BY <1>5, <2>1, <2>2, <2>3, <2>4, <2>5, <2>6, <2>7 DEF UpdateStep
<1>6. CASE Wake
  BY <1>0, <1>6, LocalTyped DEF Wake, MainPcs
<1>7. CASE ReturnState
  <2>1. PICK s \in Visible(main) : arg' = [arg EXCEPT ![main] = s]
    BY <1>7 DEF ReturnState
  <2>2. s \in States
    BY <1>7, <2>1, VisibleFacts DEF ReturnState, Goto
  <2> QED BY <1>0, <1>7, <2>1, <2>2, LocalTyped DEF ReturnState, MainPcs
<1>8. CASE PutReport
  <2>1. arg[main] \in States
    BY <1>8 DEF PutReport, Goto, Typed, ArgValid
  <2> QED BY <1>0, <1>8, <2>1, LocalTyped DEF PutReport, MainPcs
<1>9. CASE Transmit
  BY ZenonT(40), <1>0, <1>9 DEF Transmit, Typed, TypeOK, FirstUpdate, ArgValid
<1>10. CASE UNCHANGED vars
  BY <1>10 DEF Typed, TypeOK, FirstUpdate, ArgValid
<1> QED
  BY <1>1, <1>2, <1>3, <1>4, <1>5, <1>6, <1>7, <1>8, <1>9, <1>10
  DEF Next, MainStep, ObserverStep

(* However the two threads interleave, every variable holds what it may    *)
(* hold; in particular no report ever carries the state "invalid" that a   *)
(* new observer has (gate_observer.c, senseGate/main.c:216-234).           *)
THEOREM TypeCorrect == Spec => []TypeOK
<1>1. Init => Typed
  BY InitTyped
<1>2. Typed /\ [Next]_vars => Typed'
  BY StepTyped
<1>3. Typed => TypeOK
  BY DEF Typed
<1> QED BY <1>1, <1>2, <1>3, PTL DEF Spec
-----------------------------------------------------------------------------
(* The debounce ends. *)

LEMMA InitMute == Init => MuteInv
BY ThreadFacts DEF Init, MuteInv, MuteEnds, Reactivating, Contains

(* Steps that touch neither the debounce nor the queue. *)
LEMMA MuteKept ==
  ASSUME MuteInv, UNCHANGED <<muted, timer, queue>>,
         pc'[observer] = "wait" \/ ~muted
  PROVE  MuteInv'
BY DEF MuteInv, MuteEnds, Reactivating, Contains

LEMMA StepMute == Typed /\ MuteInv /\ [Next]_vars => MuteInv'
<1> SUFFICES ASSUME Typed, MuteInv, [Next]_vars PROVE MuteInv'
  OBVIOUS
<1> USE ThreadFacts
<1>0. queue \in Seq(Events) /\ muted \in BOOLEAN /\ timer \in BOOLEAN
  BY DEF Typed, TypeOK, Events
<1>1. ASSUME NEW s \in Sensor, Move(s) PROVE MuteInv'
  <2>1. CASE queue' = queue
    BY <1>1, <2>1, MuteKept DEF Move, MuteInv
  <2>2. CASE queue' = Append(queue, "switch")
    <3>1. Reactivating' <=> Reactivating
      BY <1>0, <2>2 DEF Reactivating, Contains
    <3>2. \A i, j \in 1 .. Len(queue') :
            queue'[i] = "reactivate" /\ queue'[j] = "reactivate" => i = j
      BY <1>0, <2>2 DEF MuteInv
    <3>3. UNCHANGED <<muted, timer, pc>>
      BY <1>1 DEF Move
    <3> QED BY <3>1, <3>2, <3>3 DEF MuteInv, MuteEnds, Reactivating
  <2> QED BY <1>1, <2>1, <2>2 DEF Move, Posted
<1>2. CASE DebounceOver
  <2>1. timer /\ ~Reactivating /\ timer' = FALSE /\ UNCHANGED <<muted, pc>>
    BY <1>2 DEF DebounceOver, MuteInv
  <2>2. queue' = Append(queue, "reactivate")
    BY <1>2, <2>1 DEF DebounceOver, Posted, Reactivating
  <2>3. Reactivating'
    BY <1>0, <2>2 DEF Reactivating, Contains
  <2>4. \A i, j \in 1 .. Len(queue') :
          queue'[i] = "reactivate" /\ queue'[j] = "reactivate" => i = j
    BY <1>0, <2>1, <2>2 DEF Reactivating, Contains
  <2>5. muted
    BY <2>1 DEF MuteInv, MuteEnds
  <2>6. pc[observer] = "wait"
    BY <2>5 DEF MuteInv
  <2> QED BY <2>1, <2>3, <2>4, <2>5, <2>6 DEF MuteInv, MuteEnds, Reactivating
<1>3. CASE HandleEvent
  <2>1. /\ Head(queue) \in Events /\ Len(queue) \in Nat \ {0}
        /\ Len(Tail(queue)) = Len(queue) - 1 /\ Head(queue) = queue[1]
        /\ \A i \in 1 .. Len(Tail(queue)) : Tail(queue)[i] = queue[i + 1]
        /\ queue' = Tail(queue) /\ timer' = timer
    BY <1>0, <1>3, TailFacts DEF HandleEvent
  <2>2. \A i, j \in 1 .. Len(queue') :
          queue'[i] = "reactivate" /\ queue'[j] = "reactivate" => i = j
    <3> SUFFICES ASSUME NEW i \in 1 .. Len(queue'), NEW j \in 1 .. Len(queue'),
                        queue'[i] = "reactivate", queue'[j] = "reactivate"
                 PROVE  i = j
      OBVIOUS
    <3>1. i + 1 \in 1 .. Len(queue) /\ j + 1 \in 1 .. Len(queue)
      BY <2>1
    <3>2. queue[i + 1] = "reactivate" /\ queue[j + 1] = "reactivate"
      BY <2>1
    <3>3. i + 1 = j + 1
      BY <3>1, <3>2 DEF MuteInv
    <3> QED BY <2>1, <3>3
  <2>3. CASE Head(queue) = "reactivate"
    <3>1. muted' = FALSE /\ pc'[observer] = "wait"
      BY <1>3, <2>3 DEF HandleEvent, Typed
    <3>2. Reactivating
      BY <2>1, <2>3 DEF Reactivating, Contains
    <3>3. ~timer
      BY <3>2 DEF MuteInv
    <3>4. ~Reactivating'
      <4> SUFFICES ASSUME NEW i \in 1 .. Len(queue'), queue'[i] = "reactivate"
                   PROVE  FALSE
        BY DEF Reactivating, Contains
      <4>1. i + 1 \in 1 .. Len(queue) /\ 1 \in 1 .. Len(queue)
            /\ queue[i + 1] = "reactivate" /\ queue[1] = "reactivate"
        BY <2>1, <2>3
      <4>2. i + 1 = 1
        BY <4>1 DEF MuteInv
      <4> QED BY <2>1, <4>2
    <3> QED BY <2>1, <2>2, <3>1, <3>3, <3>4 DEF MuteInv, MuteEnds, Reactivating
  <2>4. CASE Head(queue) = "switch"
    <3>1. muted' = muted
      BY <1>0, <1>3, <2>4 DEF HandleEvent
    <3>2. ~muted \/ pc'[observer] = "wait"
      BY <1>3, <2>4 DEF HandleEvent, Typed
    <3>3. Reactivating' <=> Reactivating
      <4>1. ASSUME NEW i \in 1 .. Len(queue), queue[i] = "reactivate"
            PROVE  \E j \in 1 .. Len(queue') : queue'[j] = "reactivate"
        <5>1. i # 1
          BY <2>1, <2>4, <4>1
        <5>2. i - 1 \in 1 .. Len(queue') /\ queue'[i - 1] = queue[i]
          BY <2>1, <5>1
        <5> QED BY <4>1, <5>2
      <4>2. ASSUME NEW i \in 1 .. Len(queue'), queue'[i] = "reactivate"
            PROVE  \E j \in 1 .. Len(queue) : queue[j] = "reactivate"
        <5>1. i + 1 \in 1 .. Len(queue) /\ queue[i + 1] = "reactivate"
          BY <2>1, <4>2
        <5> QED BY <5>1
      <4> QED BY <4>1, <4>2 DEF Reactivating, Contains
    <3> QED BY <2>1, <2>2, <3>1, <3>2, <3>3 DEF MuteInv, MuteEnds, Reactivating
  <2> QED BY <2>1, <2>3, <2>4 DEF Events
<1>4. CASE Mute
  <2>1. pc[observer] = "mute" /\ pc'[observer] = "wait" /\ muted' = TRUE /\ timer' = TRUE
        /\ queue' = queue
    BY <1>4 DEF Mute, Goto, Typed
  <2>2. ~Reactivating
    BY <2>1 DEF MuteInv, MuteEnds, Reactivating
  <2> QED BY <2>1, <2>2 DEF MuteInv, MuteEnds, Reactivating, Contains
<1>5. ASSUME NEW t \in Thread, UpdateStep(t) PROVE MuteInv'
  <2>1. UNCHANGED <<muted, timer, queue>>
    BY <1>5 DEF UpdateStep, Sample, LoadPrevious, Conclude, Unchanged, Changed, CallbackPut, Notify
  <2>2. pc[t] # "wait" /\ \A s \in Thread : s # t => pc'[s] = pc[s]
    BY <1>5 DEF UpdateStep, Sample, LoadPrevious, Conclude, Unchanged, Changed, CallbackPut,
                Notify, Goto, Typed
  <2> QED BY <2>1, <2>2, MuteKept DEF MuteInv
<1>6. CASE Wake \/ ReturnState \/ PutReport
  <2>1. UNCHANGED <<muted, timer, queue>> /\ pc'[observer] = pc[observer]
    BY <1>6 DEF Wake, ReturnState, PutReport, Goto, Typed
  <2> QED BY <2>1, MuteKept DEF MuteInv
<1>7. CASE Transmit \/ UNCHANGED vars
  <2>1. UNCHANGED <<muted, timer, queue, pc>>
    BY <1>7 DEF Transmit, vars
  <2> QED BY <2>1, MuteKept DEF MuteInv
<1> QED
  BY <1>1, <1>2, <1>3, <1>4, <1>5, <1>6, <1>7 DEF Next, MainStep, ObserverStep

(* The observer ignores the limit switches only while a timeout or its     *)
(* event is under way that ends this, and no timeout of an earlier         *)
(* debounce is left over when it listens (gate_observer.c).                *)
THEOREM DebounceEnds == Spec => []MuteEnds
<1>1. Init => Typed /\ MuteInv
  BY InitTyped, InitMute
<1>2. Typed /\ MuteInv /\ [Next]_vars => (Typed /\ MuteInv)'
  BY StepTyped, StepMute
<1>3. MuteInv => MuteEnds
  BY DEF MuteInv
<1> QED BY <1>1, <1>2, <1>3, PTL DEF Spec
=============================================================================
