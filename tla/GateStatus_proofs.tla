-------------------------- MODULE GateStatus_proofs --------------------------
(***************************************************************************)
(* Proofs about GateStatus for any number of workers and HTTP threads, and *)
(* every bound: type correctness, what "Confirmed by 2+ workers" stands    *)
(* for, and that a confirmation belongs to the status shown as long as no  *)
(* request has been made.                                                  *)
(***************************************************************************)
EXTENDS GateStatus, FiniteSetTheorems, TLAPS

-----------------------------------------------------------------------------
(* The inductive invariant. *)

Messages == [status : Status, time : Times]
Verdicts == [to : {"CONFLICT", "UNCONFIRMED", "SINGLE", "MULTI"}, saves : Int]

(* What the MQTT thread and an HTTP thread can be doing. *)
MqttSessions ==
    [at : {"idle", "evaluate"}, read : {NoRow}]
        \cup [at : {"create"}, read : {NoRow}, message : Messages]
        \cup [at : {"unconfirm", "status"}, read : Rows \cup {NoRow}, message : Messages]
        \cup [at : {"verdict"}, read : Rows \cup {NoRow}, verdict : Verdicts]

HttpSessions ==
    {HttpIdle}
        \cup {s \in [at : {"save"}, read : Rows \cup {NoRow}, job : Jobs] :
                s.job.kind # "add" => s.read # NoRow}
        \cup [at : {"activity"}, read : Rows]
        \cup [at : {"verdict"}, read : Rows, verdict : Verdicts]

Typed ==
    /\ history \in Seq(Status) /\ Len(history) \in 1 .. MaxTime
    /\ late \subseteq 1 .. Len(history) - 1
    /\ row \in Rows \cup {NoRow}
    /\ reports \subseteq Reports /\ IsFiniteSet(reports)
    /\ mqtt \in MqttSessions
    /\ http \in [Requests -> HttpSessions]
    /\ requests \in 0 .. MaxRequests

(* Two workers have reported the same status. *)
TwoAgree == \E a, b \in reports : a.worker # b.worker /\ a.status = b.status

(* Where a confirmation may be on its way into the row. *)
ShownOrComing(c) ==
    \/ row # NoRow /\ row.confirmation = c
    \/ mqtt.read # NoRow /\ mqtt.read.confirmation = c
    \/ mqtt.at = "verdict" /\ mqtt.verdict.to = c
    \/ \E r \in Requests :
          \/ http[r].read # NoRow /\ http[r].read.confirmation = c
          \/ http[r].at = "verdict" /\ http[r].verdict.to = c

MultiBacked == ShownOrComing("MULTI") => TwoAgree

(* What a confirmation says of the reports, for a gate that shows status. *)
Seen(confirmation, status) ==
    /\ confirmation \in {"SINGLE", "MULTI"} => \E a \in reports : a.status = status
    /\ confirmation = "CONFLICT" => \E a \in reports : a.status # status

(* While no request has been made, the MQTT thread is the only writer of the
   row: what it has read is what is stored, and it stores a new status only
   over a confirmation it has taken back. *)
OnlyMqttWrites ==
    requests = 0 =>
        /\ \A r \in Requests : http[r] = HttpIdle
        /\ row # NoRow => Seen(row.confirmation, row.status)
        /\ mqtt.read # NoRow => mqtt.read = row
        /\ mqtt.at = "create" => row = NoRow
        /\ mqtt.at \in {"unconfirm", "status", "verdict"} => row # NoRow
        /\ mqtt.at = "status" =>
              row.status = mqtt.message.status \/ row.confirmation = "UNCONFIRMED"
        /\ mqtt.at = "verdict" => Seen(mqtt.verdict.to, row.status)

IInv == Typed /\ MultiBacked /\ OnlyMqttWrites
-----------------------------------------------------------------------------
(* The values of the sessions. *)

LEMMA MqttFacts ==
    ASSUME NEW m \in MqttSessions
    PROVE  /\ m.at \in {"idle", "create", "unconfirm", "status", "evaluate", "verdict"}
           /\ m.read \in Rows \cup {NoRow}
           /\ m.at \in {"idle", "create", "evaluate"} => m.read = NoRow
           /\ m.at \in {"create", "unconfirm", "status"} => m.message \in Messages
           /\ m.at = "verdict" => m.verdict \in Verdicts
BY DEF MqttSessions

(* The read of a row, and what follows a save. *)
LEMMA MqttMoves ==
    ASSUME NEW m \in MqttSessions
    PROVE  /\ MqttIdle \in MqttSessions
           /\ \A r \in Rows : m.at \in {"unconfirm", "status", "verdict"} =>
                                  [m EXCEPT !.read = r] \in MqttSessions
           /\ m.at \in {"unconfirm", "status"} /\ m.read = NoRow =>
                  [m EXCEPT !.at = "create"] \in MqttSessions
           /\ m.at = "unconfirm" => [m EXCEPT !.at = "status", !.read = NoRow] \in MqttSessions
<1>1. MqttIdle \in MqttSessions
  BY DEF MqttIdle, MqttSessions
<1>2. CASE m \in [at : {"idle", "evaluate"}, read : {NoRow}]
  BY <1>1, <1>2
<1>3. CASE m \in [at : {"create"}, read : {NoRow}, message : Messages]
  BY <1>1, <1>3
<1>4. CASE m \in [at : {"unconfirm", "status"}, read : Rows \cup {NoRow}, message : Messages]
  BY <1>1, <1>4 DEF MqttSessions
<1>5. CASE m \in [at : {"verdict"}, read : Rows \cup {NoRow}, verdict : Verdicts]
  BY <1>1, <1>5 DEF MqttSessions
<1> QED BY <1>2, <1>3, <1>4, <1>5 DEF MqttSessions

LEMMA AfterSaveFacts ==
    ASSUME NEW m \in MqttSessions, m.at = "verdict"
    PROVE  /\ AfterSave(m) \in MqttSessions
           /\ AfterSave(m).read = NoRow /\ AfterSave(m).at \in {"idle", "verdict"}
           /\ AfterSave(m).at = "verdict" => AfterSave(m).verdict.to = m.verdict.to
<1>1. m \in [at : {"verdict"}, read : Rows \cup {NoRow}, verdict : Verdicts]
  BY DEF MqttSessions
<1>2. PICK v \in Verdicts : v = [m.verdict EXCEPT !.saves = @ - 1] /\ v.to = m.verdict.to
  <2>1. m.verdict \in Verdicts
    BY <1>1
  <2>2. [m.verdict EXCEPT !.saves = @ - 1] \in Verdicts
    BY <2>1 DEF Verdicts
  <2>3. [m.verdict EXCEPT !.saves = @ - 1].to = m.verdict.to
    BY <2>1 DEF Verdicts
  <2> QED BY <2>2, <2>3
<1>3. AfterSave(m) = IF m.verdict.saves = 1 THEN MqttIdle
                     ELSE [m EXCEPT !.read = NoRow, !.verdict = v]
  BY <1>2 DEF AfterSave
<1>4. /\ [m EXCEPT !.read = NoRow, !.verdict = v] \in MqttSessions
      /\ [m EXCEPT !.read = NoRow, !.verdict = v].read = NoRow
      /\ [m EXCEPT !.read = NoRow, !.verdict = v].at = "verdict"
      /\ [m EXCEPT !.read = NoRow, !.verdict = v].verdict = v
  BY <1>1 DEF MqttSessions
<1>5. MqttIdle \in MqttSessions /\ MqttIdle.read = NoRow /\ MqttIdle.at = "idle"
  BY DEF MqttIdle, MqttSessions
<1> QED BY <1>2, <1>3, <1>4, <1>5

LEMMA HttpFacts ==
    ASSUME NEW s \in HttpSessions
    PROVE  /\ s.at \in {"idle", "save", "activity", "verdict"}
           /\ s.read \in Rows \cup {NoRow}
           /\ s.at \in {"activity", "verdict"} => s.read \in Rows
           /\ s.at = "save" => s.job \in Jobs /\ (s.job.kind # "add" => s.read \in Rows)
           /\ s.at = "verdict" => s.verdict \in Verdicts
BY DEF HttpSessions, HttpIdle

(* The changes the services make to a row leave a row. *)
LEMMA RowFacts ==
    ASSUME NEW r \in Rows
    PROVE  /\ r.status \in Status /\ r.confirmation \in Confirmations
           /\ r.transition \in Times \cup {NoTime} /\ r # NoRow
           /\ \A c \in Confirmations : [r EXCEPT !.confirmation = c] \in Rows
           /\ \A t \in {"OPEN", "CLOSE", "NONE"} :
                  RequestedIn(r, t) \in Rows /\ RequestedIn(r, t).confirmation = r.confirmation
           /\ \A s \in Status :
                  SetManually(r, s) \in Rows /\ SetManually(r, s).confirmation = r.confirmation
<1>1. /\ r.status \in Status /\ r.confirmation \in Confirmations
      /\ r.transition \in Times \cup {NoTime} /\ r # NoRow
      /\ \A c \in Confirmations : [r EXCEPT !.confirmation = c] \in Rows
  BY NoRowAssumption DEF Rows
<1>3. ASSUME NEW t \in {"OPEN", "CLOSE", "NONE"}
      PROVE  RequestedIn(r, t) \in Rows /\ RequestedIn(r, t).confirmation = r.confirmation
  BY DEF RequestedIn, Rows
<1>4. ASSUME NEW s \in Status
      PROVE  SetManually(r, s) \in Rows /\ SetManually(r, s).confirmation = r.confirmation
  BY DEF SetManually, Rows
<1> QED BY <1>1, <1>3, <1>4

LEMMA WithStatusFacts ==
    ASSUME NEW r \in Rows, NEW s \in Status, NEW t \in Times, NEW w \in WithStatus(r, s, t)
    PROVE  w \in Rows /\ w.status = s /\ w.confirmation = r.confirmation
BY DEF WithStatus, Rows

(* Times are numbers, and 0, which a new gate gets, is one of them. *)
LEMMA TimeFacts ==
    /\ Times \subseteq Int
    /\ 0 \in Times
    /\ \A t \in 0 .. MaxTime : Timestamp(t) \in Times
<1> DEFINE L == IntLimit
<1>1. L \in Nat /\ L > 0 /\ MaxTime \in Nat
  BY GateStatusAssumption
<1>2. \A t \in 0 .. MaxTime : Timestamp(t) \in Int
  BY <1>1 DEF Timestamp
<1>3. (0 + L) % (2 * L) = L
  BY <1>1
<1>4. Timestamp(0) = 0
  BY <1>1, <1>3 DEF Timestamp
<1> QED BY <1>1, <1>2, <1>4 DEF Times

LEMMA NewGateFacts ==
    ASSUME NEW s \in Status
    PROVE  /\ NewGate(s) \in Rows
           /\ NewGate(s).confirmation = "UNCONFIRMED" /\ NewGate(s).status = s
           /\ [NewGate(s) EXCEPT !.confirmation = "null", !.transition = NoTime] \in Rows
BY TimeFacts DEF NewGate, Rows, Status, Confirmations
-----------------------------------------------------------------------------
(* What addGateActivity concludes. *)

(* The latest reports are among the reports, and of each worker there is one
   for each status. *)
LEMMA LatestFacts ==
    ASSUME reports \subseteq Reports
    PROVE  /\ Latest \subseteq reports
           /\ \A a, b \in Latest : a.worker = b.worker /\ a.status = b.status => a = b
<1>1. \A w \in Workers : LatestOf(w) \subseteq reports
  BY DEF LatestOf
<1>2. \A w \in Workers : \A a \in LatestOf(w) : a.worker = w
  BY DEF LatestOf
<1>3. ASSUME NEW w \in Workers, NEW a \in LatestOf(w), NEW b \in LatestOf(w),
             a.status = b.status
      PROVE  a = b
  <2>1. a \in Reports /\ b \in Reports /\ a.worker = w /\ b.worker = w
    BY <1>1, <1>2
  <2>2. a.time <= b.time /\ b.time <= a.time
    BY <2>1 DEF LatestOf
  <2>3. a.time \in Int /\ b.time \in Int
    BY <2>1, TimeFacts DEF Reports
  <2> QED BY <1>3, <2>1, <2>2, <2>3 DEF Reports
<1> QED BY <1>1, <1>2, <1>3 DEF Latest

(* Two workers are needed for MULTI; whatever is concluded has been seen. *)
LEMMA VerdictFacts ==
    ASSUME reports \subseteq Reports, IsFiniteSet(reports), NEW r \in Rows
    PROVE  /\ Verdict(r) \in Verdicts
           /\ Verdict(r).to = "MULTI" => TwoAgree
           /\ Seen(Verdict(r).to, r.status)
<1> DEFINE relevant  == {a \in Latest : a.time >= r.transition}
           conflicts == {a \in relevant : a.status # r.status}
           agreed    == Cardinality(relevant)
<1>1. relevant \subseteq reports /\ conflicts \subseteq reports
  BY LatestFacts
<1>2. IsFiniteSet(relevant) /\ IsFiniteSet(conflicts)
  BY <1>1, FS_Subset
<1>3. agreed \in Nat /\ Cardinality(conflicts) \in Nat
  BY <1>2, FS_CardinalityType
<1>4. Verdict(r) = IF conflicts # {} THEN [to |-> "CONFLICT", saves |-> Cardinality(conflicts)]
                   ELSE [to |-> IF agreed = 0 THEN "UNCONFIRMED"
                                ELSE IF agreed = 1 THEN "SINGLE" ELSE "MULTI",
                         saves |-> 1]
  BY DEF Verdict
<1>5. agreed # 0 => \E a \in relevant : TRUE
  BY <1>2, FS_EmptySet
<1>6. ASSUME agreed # 0, agreed # 1
      PROVE  \E a, b \in relevant : a # b
  <2>1. PICK a \in relevant : TRUE
    BY <1>5, <1>6
  <2>2. relevant # {a}
    BY <1>6, FS_Singleton
  <2> QED BY <2>1, <2>2
<1> HIDE DEF agreed
<1>7. Verdict(r) \in Verdicts
  BY <1>3, <1>4 DEF Verdicts
<1>8. Verdict(r).to = "MULTI" => TwoAgree
  <2> SUFFICES ASSUME Verdict(r).to = "MULTI" PROVE TwoAgree
    OBVIOUS
  <2>1. conflicts = {} /\ agreed # 0 /\ agreed # 1
    BY <1>4
  <2>2. PICK a, b \in relevant : a # b
    BY <1>6, <2>1
  <2>3. a.status = b.status
    BY <2>1
  <2>4. a.worker # b.worker
    BY <2>2, <2>3, LatestFacts
  <2> QED BY <1>1, <2>3, <2>4 DEF TwoAgree
<1>9. Seen(Verdict(r).to, r.status)
  <2>1. CASE conflicts # {}
    BY <1>1, <1>4, <2>1 DEF Seen
  <2>2. CASE conflicts = {} /\ agreed = 0
    BY <1>4, <2>2 DEF Seen
  <2>3. CASE conflicts = {} /\ agreed # 0
    BY <1>1, <1>4, <1>5, <2>3 DEF Seen
  <2> QED BY <2>1, <2>2, <2>3
<1> QED BY <1>7, <1>8, <1>9
-----------------------------------------------------------------------------
(* Type correctness. *)

LEMMA InitTyped == Init => Typed
<1> SUFFICES ASSUME Init PROVE Typed
  OBVIOUS
<1>1. PICK s \in Status : history = <<s>> /\ late = {}
  BY DEF Init
<1>2. history \in Seq(Status) /\ Len(history) = 1 /\ late = {}
  BY <1>1
<1>3. reports \subseteq Reports /\ IsFiniteSet(reports)
  BY FS_EmptySet DEF Init
<1>4. MqttIdle \in MqttSessions /\ HttpIdle \in HttpSessions
  BY DEF MqttIdle, MqttSessions, HttpSessions
<1> QED BY <1>2, <1>3, <1>4, GateStatusAssumption DEF Init, Typed

LEMMA TypeFacts ==
    ASSUME Typed
    PROVE  /\ Len(history) \in 1 .. MaxTime
           /\ \A t \in late \cup {Len(history)} :
                 history[t] \in Status /\ Timestamp(t) \in Times
           /\ row \in Rows \cup {NoRow}
           /\ reports \subseteq Reports /\ IsFiniteSet(reports)
           /\ mqtt \in MqttSessions
           /\ \A r \in Requests : http[r] \in HttpSessions
           /\ requests \in Nat
<1>1. MaxTime \in Nat /\ MaxRequests \in Nat
  BY GateStatusAssumption
<1>2. \A t \in late \cup {Len(history)} : t \in 1 .. Len(history) /\ t \in 0 .. MaxTime
  BY <1>1 DEF Typed
<1>3. \A t \in late \cup {Len(history)} : history[t] \in Status
  BY <1>2 DEF Typed
<1>4. \A t \in late \cup {Len(history)} : Timestamp(t) \in Times
  BY <1>2, TimeFacts
<1> QED BY <1>1, <1>3, <1>4 DEF Typed

LEMMA SensorTyped == Typed /\ SensorChanges => Typed'
<1> SUFFICES ASSUME Typed, SensorChanges PROVE Typed'
  OBVIOUS
<1>1. PICK s \in Status : history' = Append(history, s)
  BY DEF SensorChanges
<1>2. /\ history' \in Seq(Status) /\ Len(history') = Len(history) + 1
      /\ Len(history') \in 1 .. MaxTime
  BY <1>1, GateStatusAssumption DEF Typed, SensorChanges
<1>3. late' \subseteq 1 .. Len(history') - 1
  <2>1. /\ late \subseteq 1 .. Len(history) - 1 /\ Len(history) \in Nat \ {0}
        /\ late' = late \cup {Len(history)}
    BY DEF Typed, SensorChanges
  <2> DEFINE n == Len(history)
  <2>2. Len(history') - 1 = n
    BY <1>2, <2>1
  <2>3. \A t \in late' : t \in 1 .. n
    <3> HIDE DEF n
    <3>1. late \subseteq 1 .. n - 1 /\ n \in Nat \ {0} /\ late' = late \cup {n}
      BY <2>1 DEF n
    <3> QED BY <3>1
  <2> HIDE DEF n
  <2> QED BY <2>2, <2>3
<1> QED BY <1>2, <1>3 DEF Typed, SensorChanges

LEMMA MqttTyped ==
    ASSUME Typed, IstState \/ SeenTableState \/ MqttStep
    PROVE  Typed'
<1> USE TypeFacts
<1>1. CASE IstState
  <2>0. PICK t \in late \cup {Len(history)} :
          LET message == [status |-> history[t], time |-> Timestamp(t)]
          IN /\ IF row = NoRow
                THEN mqtt' = [at |-> "create", read |-> NoRow, message |-> message]
                ELSE KnownGate(message)
             /\ late' = late \ {t}
    BY <1>1 DEF IstState
  <2> DEFINE message == [status |-> history[t], time |-> Timestamp(t)]
  <2>1. message \in Messages
    BY DEF Messages
  <2>2. mqtt' \in MqttSessions
    <3>1. mqtt' = [at |-> mqtt'.at, read |-> NoRow, message |-> message]
      BY <2>0 DEF KnownGate
    <3>2. mqtt'.at \in {"create", "unconfirm", "status"}
      BY <2>0 DEF KnownGate
    <3> HIDE DEF message
    <3> QED BY <2>1, <3>1, <3>2 DEF MqttSessions
  <2> QED BY <1>1, <2>0, <2>2 DEF IstState, Typed
<1>2. CASE SeenTableState
  <2>1. PICK w \in Workers, s \in Status, t \in 1 .. MaxTime :
          reports' = reports \cup {[worker |-> w, status |-> s, time |-> Timestamp(t)]}
    BY <1>2 DEF SeenTableState
  <2>2. Timestamp(t) \in Times
    BY TimeFacts
  <2>3. reports' \subseteq Reports
    BY <2>1, <2>2 DEF Reports
  <2>4. IsFiniteSet(reports')
    BY <2>1, FS_AddElement
  <2>5. mqtt' \in MqttSessions
    BY <1>2 DEF SeenTableState, MqttSessions
  <2> QED BY <1>2, <2>3, <2>4, <2>5 DEF SeenTableState, Typed
<1>3. CASE AddGate
  <2>1. NewGate(mqtt.message.status) \in Rows
    BY <1>3, MqttFacts, NewGateFacts DEF AddGate, Messages
  <2> QED BY <1>3, <2>1, MqttMoves DEF AddGate, Typed
<1>4. CASE MqttRead
  <2>1. mqtt' \in MqttSessions
    BY <1>4, MqttMoves DEF MqttRead
  <2> QED BY <1>4, <2>1 DEF MqttRead, Typed
<1>5. CASE SaveUnconfirmed
  <2>1. [mqtt.read EXCEPT !.confirmation = "UNCONFIRMED"] \in Rows
    BY <1>5, MqttFacts, RowFacts DEF SaveUnconfirmed, Confirmations
  <2> QED BY <1>5, <2>1, MqttMoves DEF SaveUnconfirmed, Typed
<1>6. CASE SaveStatus
  <2>1. row' \in Rows
    BY <1>6, MqttFacts, WithStatusFacts DEF SaveStatus, Messages
  <2> QED BY <1>6, <2>1, MqttMoves DEF SaveStatus, Typed
<1>7. CASE Evaluate
  <2>1. mqtt' \in MqttSessions
    BY <1>7, VerdictFacts, MqttMoves DEF Evaluate, MqttSessions
  <2> QED BY <1>7, <2>1 DEF Evaluate, Typed
<1>8. CASE SaveVerdict
  <2>1. [mqtt.read EXCEPT !.confirmation = mqtt.verdict.to] \in Rows
    BY <1>8, MqttFacts, RowFacts DEF SaveVerdict, Verdicts, Confirmations
  <2>2. mqtt' \in MqttSessions
    BY <1>8, AfterSaveFacts DEF SaveVerdict
  <2> QED BY <1>8, <2>1, <2>2 DEF SaveVerdict, Typed
<1> QED BY <1>1, <1>2, <1>3, <1>4, <1>5, <1>6, <1>7, <1>8 DEF MqttStep

(* What a job saves. *)
LEMMA SavedFacts ==
    ASSUME NEW job \in Jobs, job.kind # "add", NEW r \in Rows
    PROVE  /\ SavedBy(job, r) \in Rows \cup {NoRow}
           /\ job.kind # "delete" => /\ SavedBy(job, r) \in Rows
                                     /\ SavedBy(job, r).confirmation = r.confirmation
<1>1. CASE job.kind = "request"
  BY <1>1, RowFacts DEF SavedBy, Jobs
<1>2. CASE job.kind = "set"
  BY <1>2, RowFacts DEF SavedBy, Jobs
<1>3. CASE job.kind \in {"touch", "delete"}
  BY <1>3 DEF SavedBy
<1> QED BY <1>1, <1>2, <1>3 DEF Jobs

LEMMA HttpTyped ==
    ASSUME Typed, NEW r \in Requests, HttpRead(r) \/ HttpStep(r)
    PROVE  Typed'
<1> USE TypeFacts
<1>0. HttpIdle \in HttpSessions
  BY DEF HttpSessions
<1>1. CASE HttpRead(r)
  <2>1. PICK job \in Jobs :
          /\ (job.kind = "add") <=> (row = NoRow)
          /\ http' = [http EXCEPT ![r] = [at |-> "save", read |-> row, job |-> job]]
    BY <1>1 DEF HttpRead
  <2>2. [at |-> "save", read |-> row, job |-> job] \in HttpSessions
    BY <2>1 DEF HttpSessions
  <2>3. requests' \in 0 .. MaxRequests
    BY <1>1, GateStatusAssumption DEF HttpRead
  <2> QED BY <1>1, <2>1, <2>2, <2>3 DEF HttpRead, Typed
<1>2. CASE HttpSave(r)
  <2> DEFINE saved == SavedBy(http[r].job, http[r].read)
  <2>1. /\ saved \in Rows \cup {NoRow}
        /\ http[r].job.kind \in {"request", "set"} => saved \in Rows
    BY <1>2, HttpFacts, SavedFacts DEF HttpSave
  <2>2. http[r].job.kind \in {"request", "set"} =>
          [at |-> "activity", read |-> saved] \in HttpSessions
    BY <2>1 DEF HttpSessions
  <2> HIDE DEF saved
  <2>3. CASE row = NoRow
    BY <1>0, <1>2, <2>3 DEF HttpSave, Typed
  <2>4. CASE row # NoRow
    <3>1. /\ row' = saved
          /\ http' = [http EXCEPT ![r] =
               IF http[r].job.kind \in {"request", "set"}
               THEN [at |-> "activity", read |-> saved] ELSE HttpIdle]
      BY <1>2, <2>4 DEF HttpSave, saved
    <3> QED BY <1>0, <1>2, <2>1, <2>2, <3>1 DEF HttpSave, Typed
  <2> QED BY <2>3, <2>4
<1>3. CASE HttpAdd(r)
  <2>1. row' \in Rows
    BY ZenonT(40), <1>3, NewGateFacts DEF HttpAdd
  <2> QED BY <1>0, <1>3, <2>1 DEF HttpAdd, Typed
<1>4. CASE HttpActivity(r)
  <2> DEFINE read == http[r].read
             next == [at |-> "verdict", verdict |-> Verdict(read),
                      read |-> [read EXCEPT !.confirmation = Verdict(read).to]]
  <2>1. read \in Rows
    BY <1>4, HttpFacts DEF HttpActivity
  <2>2. Verdict(read) \in Verdicts
    BY <2>1, VerdictFacts
  <2>3. [read EXCEPT !.confirmation = Verdict(read).to] \in Rows
    BY <2>1, <2>2, RowFacts DEF Verdicts, Confirmations
  <2>4. next \in HttpSessions
    BY <2>2, <2>3 DEF HttpSessions
  <2>5. http' = [http EXCEPT ![r] = IF Fails(read) THEN HttpIdle ELSE next]
    BY <1>4 DEF HttpActivity
  <2> HIDE DEF next, read
  <2> QED BY <1>0, <1>4, <2>4, <2>5 DEF HttpActivity, Typed
<1>5. CASE HttpVerdict(r)
  <2> DEFINE s == http[r]
  <2>1. s \in [at : {"verdict"}, read : Rows, verdict : Verdicts]
    BY <1>5 DEF HttpVerdict, HttpSessions, HttpIdle
  <2>2. [s.verdict EXCEPT !.saves = @ - 1] \in Verdicts
    BY <2>1 DEF Verdicts
  <2>3. [s EXCEPT !.verdict.saves = @ - 1] \in HttpSessions
    BY <2>1, <2>2 DEF HttpSessions
  <2>4. row' \in Rows \cup {NoRow}
    BY <1>5, <2>1 DEF HttpVerdict
  <2>5. http' = [http EXCEPT ![r] = IF row = NoRow \/ s.verdict.saves = 1 THEN HttpIdle
                                    ELSE [s EXCEPT !.verdict.saves = @ - 1]]
    BY <1>5 DEF HttpVerdict
  <2> HIDE DEF s
  <2> QED BY <1>0, <1>5, <2>3, <2>4, <2>5 DEF HttpVerdict, Typed
<1> QED BY <1>1, <1>2, <1>3, <1>4, <1>5 DEF HttpStep

LEMMA StepTyped == Typed /\ [Next]_vars => Typed'
<1> SUFFICES ASSUME Typed, [Next]_vars PROVE Typed'
  OBVIOUS
<1>1. CASE SensorChanges
  BY <1>1, SensorTyped
<1>2. CASE IstState \/ SeenTableState \/ MqttStep
  BY <1>2, MqttTyped
<1>3. ASSUME NEW r \in Requests, HttpRead(r) \/ HttpStep(r)
      PROVE  Typed'
  BY <1>3, HttpTyped
<1>4. CASE UNCHANGED vars
  BY <1>4 DEF vars, Typed
<1> QED BY <1>1, <1>2, <1>3, <1>4 DEF Next

LEMMA TypedIsTypeOK == Typed => TypeOK
BY MqttFacts, HttpFacts, NoRowAssumption DEF Typed, TypeOK

(* The row, the reports and the sessions of the threads hold what they may
   hold, however the threads interleave (GateService.java,
   GateActivityService.java, MqttMessageHandler.java). *)
THEOREM TypeCorrect == Spec => []TypeOK
<1>1. Init => Typed
  BY InitTyped
<1>2. Typed /\ [Next]_vars => Typed'
  BY StepTyped
<1>3. Typed => TypeOK
  BY TypedIsTypeOK
<1> QED BY <1>1, <1>2, <1>3, PTL DEF Spec
-----------------------------------------------------------------------------
(* MULTI is only ever concluded from two reports that agree, and every other
   way into the row copies a confirmation that is on its way already. *)

LEMMA InitBacked == Init => MultiBacked
BY DEF Init, MultiBacked, ShownOrComing, MqttIdle, HttpIdle

LEMMA AgreementLasts == TwoAgree /\ reports \subseteq reports' => TwoAgree'
BY DEF TwoAgree

LEMMA ReportsLast == [Next]_vars => reports \subseteq reports'
<1> SUFFICES ASSUME [Next]_vars PROVE reports \subseteq reports'
  OBVIOUS
<1>1. CASE SeenTableState
  BY <1>1 DEF SeenTableState
<1>2. CASE SensorChanges \/ IstState \/ MqttStep
  BY <1>2 DEF SensorChanges, IstState, MqttStep, AddGate, MqttRead, SaveUnconfirmed,
              SaveStatus, Evaluate, SaveVerdict
<1>3. ASSUME NEW r \in Requests, HttpRead(r) \/ HttpStep(r)
      PROVE  reports' = reports
  BY <1>3 DEF HttpRead, HttpStep, HttpSave, HttpAdd, HttpActivity, HttpVerdict
<1>4. CASE UNCHANGED vars
  BY <1>4 DEF vars
<1> QED BY <1>1, <1>2, <1>3, <1>4 DEF Next

(* The confirmations of the MQTT thread after a step of it. *)
LEMMA MqttBacked ==
    ASSUME Typed, MultiBacked, IstState \/ SeenTableState \/ MqttStep, ~TwoAgree
    PROVE  ~ \/ row' # NoRow /\ row'.confirmation = "MULTI"
             \/ mqtt'.read # NoRow /\ mqtt'.read.confirmation = "MULTI"
             \/ mqtt'.at = "verdict" /\ mqtt'.verdict.to = "MULTI"
<1> USE TypeFacts, NoRowAssumption
<1>0. /\ row # NoRow => row.confirmation # "MULTI"
      /\ mqtt.read # NoRow => mqtt.read.confirmation # "MULTI"
      /\ mqtt.at = "verdict" => mqtt.verdict.to # "MULTI"
  BY DEF MultiBacked, ShownOrComing
<1>1. CASE IstState
  BY <1>0, <1>1 DEF IstState, KnownGate
<1>2. CASE SeenTableState
  BY <1>0, <1>2 DEF SeenTableState
<1>3. CASE AddGate
  BY <1>0, <1>3 DEF AddGate, NewGate, MqttIdle
<1>4. CASE MqttRead
  BY <1>0, <1>4, MqttFacts DEF MqttRead, MqttIdle
<1>5. CASE SaveUnconfirmed
  <2>1. row' = [mqtt.read EXCEPT !.confirmation = "UNCONFIRMED"] /\ mqtt.read \in Rows
    BY <1>5, MqttFacts DEF SaveUnconfirmed
  <2>2. row'.confirmation = "UNCONFIRMED"
    BY <2>1 DEF Rows
  <2> QED BY <1>0, <1>5, <2>2 DEF SaveUnconfirmed
<1>6. CASE SaveStatus
  <2>1. mqtt.read \in Rows /\ mqtt.message.status \in Status /\ mqtt.message.time \in Times
    BY <1>6, MqttFacts DEF SaveStatus, Messages
  <2>2. row'.confirmation = mqtt.read.confirmation
    BY <1>6, <2>1, WithStatusFacts DEF SaveStatus
  <2> QED BY <1>0, <1>6, <2>2 DEF SaveStatus, MqttIdle
<1>7. CASE Evaluate
  BY <1>0, <1>7, VerdictFacts DEF Evaluate, MqttIdle
<1>8. CASE SaveVerdict
  <2>1. row' = [mqtt.read EXCEPT !.confirmation = mqtt.verdict.to] /\ mqtt.read \in Rows
    BY <1>8, MqttFacts DEF SaveVerdict
  <2>2. row'.confirmation = mqtt.verdict.to
    BY <2>1 DEF Rows
  <2>3. mqtt'.read = NoRow /\ (mqtt'.at = "verdict" => mqtt'.verdict.to = mqtt.verdict.to)
    BY <1>8, AfterSaveFacts DEF SaveVerdict
  <2> QED BY <1>0, <1>8, <2>2, <2>3 DEF SaveVerdict
<1> QED BY <1>1, <1>2, <1>3, <1>4, <1>5, <1>6, <1>7, <1>8 DEF MqttStep

(* The row and the session of a request after a step of it. *)
LEMMA HttpBacked ==
    ASSUME Typed, MultiBacked, NEW r \in Requests, HttpRead(r) \/ HttpStep(r), ~TwoAgree
    PROVE  /\ ~ \/ row' # NoRow /\ row'.confirmation = "MULTI"
                \/ http'[r].read # NoRow /\ http'[r].read.confirmation = "MULTI"
                \/ http'[r].at = "verdict" /\ http'[r].verdict.to = "MULTI"
           /\ \A q \in Requests \ {r} : http'[q] = http[q]
           /\ mqtt' = mqtt
<1> USE TypeFacts, NoRowAssumption DEF Typed
<1>0. /\ row # NoRow => row.confirmation # "MULTI"
      /\ http[r].read # NoRow => http[r].read.confirmation # "MULTI"
      /\ http[r].at = "verdict" => http[r].verdict.to # "MULTI"
  BY DEF MultiBacked, ShownOrComing
<1>1. CASE HttpRead(r)
  BY <1>0, <1>1 DEF HttpRead
<1>2. CASE HttpSave(r)
  <2> DEFINE saved == SavedBy(http[r].job, http[r].read)
  <2>1. /\ saved # NoRow => saved.confirmation # "MULTI"
    BY ZenonT(40), <1>0, <1>2, HttpFacts, SavedFacts DEF HttpSave, SavedBy
  <2> HIDE DEF saved
  <2>2. /\ http'[r] = HttpIdle \/ http'[r] = [at |-> "activity", read |-> saved]
        /\ row' = row \/ row' = saved
        /\ \A q \in Requests \ {r} : http'[q] = http[q]
    BY <1>2 DEF HttpSave, saved
  <2> QED BY <1>0, <1>2, <2>1, <2>2 DEF HttpSave, HttpIdle
<1>3. CASE HttpAdd(r)
  BY <1>0, <1>3 DEF HttpAdd, HttpIdle, NewGate
<1>4. CASE HttpActivity(r)
  <2> DEFINE read == http[r].read
             next == [at |-> "verdict", verdict |-> Verdict(read),
                      read |-> [read EXCEPT !.confirmation = Verdict(read).to]]
  <2>1. read \in Rows
    BY <1>4, HttpFacts DEF HttpActivity
  <2>2. Verdict(read).to # "MULTI"
    BY <2>1, VerdictFacts
  <2>3. next.read.confirmation # "MULTI" /\ next.verdict.to # "MULTI"
    BY <2>1, <2>2 DEF Rows
  <2>4. http' = [http EXCEPT ![r] = IF Fails(read) THEN HttpIdle ELSE next]
    BY <1>4 DEF HttpActivity
  <2> HIDE DEF next, read
  <2> QED BY <1>0, <1>4, <2>3, <2>4 DEF HttpActivity, HttpIdle
<1>5. CASE HttpVerdict(r)
  <2>1. http[r] \in [at : {"verdict"}, read : Rows, verdict : Verdicts]
    BY <1>5 DEF HttpVerdict, HttpSessions, HttpIdle
  <2>2. /\ [http[r] EXCEPT !.verdict.saves = @ - 1].read = http[r].read
        /\ [http[r] EXCEPT !.verdict.saves = @ - 1].verdict.to = http[r].verdict.to
    BY <2>1 DEF Verdicts
  <2>3. http'[r] \in {HttpIdle, [http[r] EXCEPT !.verdict.saves = @ - 1]}
    BY <1>5 DEF HttpVerdict
  <2> QED BY <1>0, <1>5, <2>1, <2>2, <2>3 DEF HttpVerdict, HttpIdle
<1> QED BY <1>1, <1>2, <1>3, <1>4, <1>5 DEF HttpStep

LEMMA StepBacked == Typed /\ MultiBacked /\ [Next]_vars => MultiBacked'
<1> SUFFICES ASSUME Typed, MultiBacked, [Next]_vars, ~TwoAgree
             PROVE  ~ShownOrComing("MULTI")'
  BY AgreementLasts, ReportsLast DEF MultiBacked
<1>0. ~ShownOrComing("MULTI")
  BY DEF MultiBacked
<1>1. CASE SensorChanges \/ UNCHANGED vars
  BY <1>0, <1>1 DEF SensorChanges, vars, ShownOrComing
<1>2. CASE IstState \/ SeenTableState \/ MqttStep
  <2>1. http' = http
    BY <1>2 DEF IstState, SeenTableState, MqttStep, AddGate, MqttRead, SaveUnconfirmed,
                SaveStatus, Evaluate, SaveVerdict
  <2> QED BY <1>0, <1>2, <2>1, MqttBacked DEF ShownOrComing
<1>3. ASSUME NEW r \in Requests, HttpRead(r) \/ HttpStep(r)
      PROVE  ~ShownOrComing("MULTI")'
  BY <1>0, <1>3, HttpBacked DEF ShownOrComing
<1> QED BY <1>1, <1>2, <1>3 DEF Next

(* Whatever is lost between the threads and however often a stale row is saved
   back, a gate is shown as confirmed by two workers only if two of them have
   reported the same status of it (GateActivityService.java:70-87). *)
THEOREM MultiIsBacked == Spec => []MultiNeedsTwo
<1>1. Init => Typed /\ MultiBacked
  BY InitTyped, InitBacked
<1>2. Typed /\ MultiBacked /\ [Next]_vars => (Typed /\ MultiBacked)'
  BY StepTyped, StepBacked
<1>3. Typed /\ MultiBacked => MultiNeedsTwo
  BY DEF MultiBacked, ShownOrComing, MultiNeedsTwo, TwoAgree
<1> QED BY <1>1, <1>2, <1>3, PTL DEF Spec
-----------------------------------------------------------------------------
(* While no request has been made. *)

LEMMA InitOnlyMqtt == Init => OnlyMqttWrites
BY DEF Init, OnlyMqttWrites, MqttIdle

LEMMA MqttOnly ==
    ASSUME Typed, OnlyMqttWrites, IstState \/ SeenTableState \/ MqttStep,
           requests = 0, reports \subseteq reports'
    PROVE  OnlyMqttWrites'
<1> USE TypeFacts, NoRowAssumption
<1>0. /\ \A r \in Requests : http[r] = HttpIdle
      /\ row # NoRow => Seen(row.confirmation, row.status)
      /\ mqtt.read # NoRow => mqtt.read = row
      /\ mqtt.at = "create" => row = NoRow
      /\ mqtt.at \in {"unconfirm", "status", "verdict"} => row # NoRow
      /\ mqtt.at = "status" =>
            row.status = mqtt.message.status \/ row.confirmation = "UNCONFIRMED"
      /\ mqtt.at = "verdict" => Seen(mqtt.verdict.to, row.status)
  BY DEF OnlyMqttWrites
<1>1. CASE IstState
  <2>1. UNCHANGED <<row, reports, http, requests>> /\ mqtt'.read = NoRow
    BY <1>1 DEF IstState, KnownGate
  <2>2. CASE row = NoRow
    BY <1>0, <1>1, <2>1, <2>2 DEF IstState, OnlyMqttWrites, Seen
  <2>3. CASE row # NoRow
    <3>1. /\ mqtt'.at \in {"status", "unconfirm"}
          /\ mqtt'.at = "status" => row.status = mqtt'.message.status
      BY <1>1, <2>3 DEF IstState, KnownGate
    <3> QED BY <1>0, <2>1, <2>3, <3>1 DEF OnlyMqttWrites, Seen
  <2> QED BY <2>2, <2>3
<1>2. CASE SeenTableState
  BY <1>0, <1>2 DEF SeenTableState, OnlyMqttWrites, Seen
<1>3. CASE AddGate
  <2>1. NewGate(mqtt.message.status) \in Rows
    BY <1>3, MqttFacts, NewGateFacts DEF AddGate, Messages
  <2> QED BY <1>0, <1>3, <2>1 DEF AddGate, NewGate, MqttIdle, OnlyMqttWrites, Seen
<1>4. CASE MqttRead
  <2>1. row # NoRow /\ mqtt' = [mqtt EXCEPT !.read = row]
    BY <1>0, <1>4 DEF MqttRead
  <2>2. /\ mqtt'.at = mqtt.at /\ mqtt'.read = row
        /\ mqtt.at = "status" => mqtt'.message = mqtt.message
        /\ mqtt.at = "verdict" => mqtt'.verdict = mqtt.verdict
    BY <1>4, <2>1 DEF MqttRead, MqttSessions
  <2> QED BY <1>0, <1>4, <2>1, <2>2 DEF MqttRead, OnlyMqttWrites, Seen
<1>5. CASE SaveUnconfirmed
  <2>1. mqtt.read \in Rows /\ row = mqtt.read
    BY <1>0, <1>5 DEF SaveUnconfirmed
  <2>2. row'.confirmation = "UNCONFIRMED" /\ row' # NoRow
    BY <1>5, <2>1, RowFacts DEF SaveUnconfirmed, Rows, Confirmations
  <2>3. mqtt'.at = "status" /\ mqtt'.read = NoRow
    BY <1>5 DEF SaveUnconfirmed, MqttSessions
  <2> QED BY <1>0, <1>5, <2>2, <2>3 DEF SaveUnconfirmed, OnlyMqttWrites, Seen
<1>6. CASE SaveStatus
  <2>1. mqtt.read \in Rows /\ row = mqtt.read
        /\ mqtt.message.status \in Status /\ mqtt.message.time \in Times
    BY <1>0, <1>6, MqttFacts DEF SaveStatus, Messages
  <2>2. /\ row'.confirmation = row.confirmation
        /\ row'.status = mqtt.message.status
    BY <1>6, <2>1, WithStatusFacts DEF SaveStatus
  <2>3. row.status = mqtt.message.status \/ row.confirmation = "UNCONFIRMED"
    BY <1>0, <1>6 DEF SaveStatus
  <2>4. Seen(row'.confirmation, row'.status)
    BY <1>0, <2>1, <2>2, <2>3 DEF Seen
  <2> QED BY <1>0, <1>6, <2>4 DEF SaveStatus, MqttIdle, OnlyMqttWrites, Seen
<1>7. CASE Evaluate
  <2>1. CASE mqtt' = MqttIdle
    BY <1>0, <1>7, <2>1 DEF Evaluate, MqttIdle, OnlyMqttWrites, Seen
  <2>2. CASE mqtt' # MqttIdle
    <3>1. /\ row \in Rows
          /\ mqtt' = [at |-> "verdict", read |-> NoRow, verdict |-> Verdict(row)]
      BY <1>7, <2>2 DEF Evaluate
    <3>2. Seen(Verdict(row).to, row.status)
      BY <3>1, VerdictFacts
    <3> QED BY <1>0, <1>7, <3>1, <3>2 DEF Evaluate, OnlyMqttWrites, Seen
  <2> QED BY <2>1, <2>2
<1>8. CASE SaveVerdict
  <2>1. mqtt.read \in Rows /\ row = mqtt.read /\ mqtt.verdict \in Verdicts
    BY <1>0, <1>8, MqttFacts DEF SaveVerdict
  <2>2. /\ row'.confirmation = mqtt.verdict.to /\ row'.status = row.status
        /\ row' # NoRow
    <3>1. row' = [mqtt.read EXCEPT !.confirmation = mqtt.verdict.to]
      BY <1>8 DEF SaveVerdict
    <3>2. mqtt.verdict.to \in Confirmations
      BY <2>1 DEF Verdicts, Confirmations
    <3>3. row' \in Rows
      BY <2>1, <3>1, <3>2, RowFacts
    <3> QED BY <2>1, <3>1, <3>3 DEF Rows
  <2>3. Seen(mqtt.verdict.to, row.status)
    BY <1>0, <1>8 DEF SaveVerdict
  <2>4. /\ mqtt'.read = NoRow /\ mqtt'.at \in {"idle", "verdict"}
        /\ mqtt'.at = "verdict" => mqtt'.verdict.to = mqtt.verdict.to
    BY <1>8, AfterSaveFacts DEF SaveVerdict
  <2> QED BY <1>0, <1>8, <2>2, <2>3, <2>4 DEF SaveVerdict, MqttIdle, OnlyMqttWrites, Seen
<1> QED BY <1>1, <1>2, <1>3, <1>4, <1>5, <1>6, <1>7, <1>8 DEF MqttStep

LEMMA StepOnlyMqtt == Typed /\ OnlyMqttWrites /\ [Next]_vars => OnlyMqttWrites'
<1> SUFFICES ASSUME Typed, OnlyMqttWrites, [Next]_vars PROVE OnlyMqttWrites'
  OBVIOUS
<1>0. reports \subseteq reports' /\ requests \in Nat
  BY ReportsLast, TypeFacts
<1>1. CASE SensorChanges \/ UNCHANGED vars
  BY <1>1 DEF SensorChanges, vars, OnlyMqttWrites, Seen
<1>2. CASE IstState \/ SeenTableState \/ MqttStep
  <2>1. requests' = requests
    BY <1>2 DEF IstState, SeenTableState, MqttStep, AddGate, MqttRead, SaveUnconfirmed,
                SaveStatus, Evaluate, SaveVerdict
  <2>2. CASE requests = 0
    BY <1>0, <1>2, <2>2, MqttOnly
  <2>3. CASE requests # 0
    BY <2>1, <2>3 DEF OnlyMqttWrites
  <2> QED BY <2>2, <2>3
<1>3. ASSUME NEW r \in Requests, HttpRead(r)
      PROVE  OnlyMqttWrites'
  BY <1>0, <1>3 DEF HttpRead, OnlyMqttWrites
<1>4. ASSUME NEW r \in Requests, HttpStep(r)
      PROVE  OnlyMqttWrites'
  <2>1. http[r].at # "idle" /\ requests' = requests
    <3>1. CASE HttpSave(r)
      BY <3>1 DEF HttpSave
    <3>2. CASE HttpAdd(r) \/ HttpActivity(r) \/ HttpVerdict(r)
      BY <3>2 DEF HttpAdd, HttpActivity, HttpVerdict
    <3> QED BY <1>4, <3>1, <3>2 DEF HttpStep
  <2> QED BY <2>1 DEF OnlyMqttWrites, HttpIdle
<1> QED BY <1>1, <1>2, <1>3, <1>4 DEF Next

(* Until a request has been made, a gate's confirmation belongs to its status
   also between the two saves of an uplink (MqttMessageHandler.java:102). *)
THEOREM ConfirmationIsSeen == Spec => []ConfirmedIsSeen
<1>1. Init => Typed /\ OnlyMqttWrites
  BY InitTyped, InitOnlyMqtt
<1>2. Typed /\ OnlyMqttWrites /\ [Next]_vars => (Typed /\ OnlyMqttWrites)'
  BY StepTyped, StepOnlyMqtt
<1>3. OnlyMqttWrites => ConfirmedIsSeen
  BY DEF OnlyMqttWrites, ConfirmedIsSeen, Seen
<1> QED BY <1>1, <1>2, <1>3, PTL DEF Spec
=============================================================================
