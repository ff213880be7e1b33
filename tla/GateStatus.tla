----------------------------- MODULE GateStatus -----------------------------
(***************************************************************************)
(* One gate in the backend's database: its row in "gates", what workers    *)
(* have reported of it, and the threads that change them.                  *)
(*                                                                         *)
(*   MqttMessageHandler   the MQTT callback, one thread, takes the gate's  *)
(*                        own uplinks and the reports of senseMates        *)
(*   GateController       HTTP requests, one session each                  *)
(*   GateService, GateActivityService                                      *)
(*                        read a row, change it, and save it               *)
(*                                                                         *)
(* No method is @Transactional and no entity has a version, so a read and  *)
(* the save after it are two transactions, and a save writes every column. *)
(* In the MQTT thread every read is fresh and the save of a row that was   *)
(* deleted meanwhile inserts it again.  An HTTP request keeps its session  *)
(* open: it sees the row it read first until it ends, and its save of a    *)
(* deleted row fails.                                                      *)
(*                                                                         *)
(* Not kept: the activities that are not worker reports, which nothing     *)
(* here reads, the confidence (the quality it yields is any), priority,    *)
(* height and location, and what is sent to the dashboards.                *)
(***************************************************************************)
EXTENDS Integers, Sequences, FiniteSets

CONSTANTS Workers,      \* senseMates, by the id of their worker
          Requests,     \* threads that serve HTTP requests
          NoRow,        \* no such gate, or nothing read yet
          NoTime,       \* the null of a row without a time of transition
          MaxTime,      \* bound on the reports of the gate that differ
          MaxRequests,  \* bound on HTTP requests
          IntLimit      \* 2^31 in the source

ASSUME GateStatusAssumption ==
    /\ MaxTime \in Nat \ {0}
    /\ MaxRequests \in Nat
    /\ IntLimit \in Nat \ {0}

VARIABLES
    history,   \* the states the gate's sensor has shown, by the time of each
    late,      \* times of outdated states of which an uplink is still under way
    row,       \* the row of the gate
    reports,   \* activities of type SENSEMATE_WORKER_REPORT
    mqtt,      \* the MQTT thread: what it does and the row it has read
    http,      \* the request in each HTTP thread and its session's row
    requests   \* requests made so far

vars == <<history, late, row, reports, mqtt, http, requests>>

Status == {"OPEN", "CLOSED"}
Confirmations == {"null", "CONFLICT", "UNCONFIRMED", "SINGLE", "MULTI"}

(* phy * 1000 + log is computed in an int. *)
Timestamp(t) == ((t + IntLimit) % (2 * IntLimit)) - IntLimit

Times == {Timestamp(t) : t \in 0 .. MaxTime}
Reports == [worker : Workers, status : Status, time : Times]

Rows == [status : Status, confirmation : Confirmations,
         transition : Times \cup {NoTime}, requested : {"OPEN", "CLOSE", "NONE", "null"},
         pending : {"OPEN", "CLOSE", "NONE"}, manual : BOOLEAN]

ASSUME NoRowAssumption == NoRow \notin Rows

Jobs == [kind : {"request"}, target : {"OPEN", "CLOSE", "NONE"}]
            \cup [kind : {"set"}, target : Status]
            \cup [kind : {"touch", "delete", "add"}, target : {"NONE"}]

MqttIdle == [at |-> "idle", read |-> NoRow]
HttpIdle == [at |-> "idle", read |-> NoRow]

(* The row an uplink of an unknown gate creates. *)
NewGate(status) ==
    [status |-> status, confirmation |-> "UNCONFIRMED", transition |-> 0,
     requested |-> "NONE", pending |-> "NONE", manual |-> FALSE]

Init ==
    /\ \E s \in Status : history = <<s>> /\ late = {}
    /\ row = NoRow
    /\ reports = {}
    /\ mqtt = MqttIdle
    /\ http = [r \in Requests |-> HttpIdle]
    /\ requests = 0

-----------------------------------------------------------------------------
(* Rows as the services change them. *)

(* changeConfidence: with high quality a closed gate ends the job to close it;
   the job to open one waits for a status that no uplink sets. *)
WithStatus(r, status, time) ==
    {[r EXCEPT !.status = status, !.transition = time, !.pending = p] :
        p \in {r.pending}
                \cup (IF status = "CLOSED" /\ r.pending = "CLOSE" THEN {"NONE"} ELSE {})}

Goal(target) == IF target = "CLOSE" THEN "CLOSED" ELSE target

(* Mutant: the job is named by the state it leads to. *)
PendingGoalMutant(r, target) == [r EXCEPT !.pending = Goal(target), !.requested = target]

(* requestGateStatusChange: a request for the state the row shows leaves an
   earlier request in place. *)
RequestedIn(r, target) ==
    [r EXCEPT !.pending = target,
              !.requested = IF r.status = Goal(target) THEN @
                            ELSE IF target = "NONE" THEN "null" ELSE target]

(* setGateStatusManually.  Nothing takes the mark of the override away. *)
SetManually(r, status) ==
    [r EXCEPT !.status = status, !.manual = TRUE,
              !.requested = "null", !.pending = "NONE"]

(* Mutant: every report of a worker counts. *)
EveryMutant(w) == {a \in reports : a.worker = w}

(* A worker's latest report. *)
LatestOf(w) ==
    {a \in reports : a.worker = w /\ \A b \in reports : b.worker = w => b.time <= a.time}

Latest == UNION {LatestOf(w) : w \in Workers}

(* What addGateActivity concludes for the row r it has read: the confirmation
   and how often it is saved.  Without the time of a transition the comparison
   throws. *)
Fails(r) == r.transition = NoTime /\ Latest # {}

Verdict(r) ==
    LET relevant  == {a \in Latest : a.time >= r.transition}
        conflicts == {a \in relevant : a.status # r.status}
        agreed    == Cardinality(relevant)
    IN IF conflicts # {} THEN [to |-> "CONFLICT", saves |-> Cardinality(conflicts)]
       ELSE [to |-> IF agreed = 0 THEN "UNCONFIRMED"
                    ELSE IF agreed = 1 THEN "SINGLE" ELSE "MULTI",
             saves |-> 1]

-----------------------------------------------------------------------------
(* The gate changes; the time of its reports follows.  An uplink of the old
   state may come later than those of the new one. *)
SensorChanges ==
    /\ Len(history) < MaxTime
    /\ \E s \in Status \ {history[Len(history)]} : history' = Append(history, s)
    /\ late' = late \cup {Len(history)}
    /\ UNCHANGED <<row, reports, mqtt, http, requests>>

(* Mutant: the change is not marked. *)
NotMarkedMutant(message) ==
    mqtt' = [at |-> "status", read |-> NoRow, message |-> message]

(* A known gate shows another state: mark it as unconfirmed, then store it. *)
KnownGate(message) ==
    mqtt' = [at |-> IF row.status = message.status THEN "status" ELSE "unconfirm",
             read |-> NoRow, message |-> message]

(* An uplink of the gate: the latest state, a repetition of it, or one that
   comes late.  Its age is not looked at. *)
IstState ==
    /\ mqtt.at = "idle"
    /\ \E t \in late \cup {Len(history)} :
          LET message == [status |-> history[t], time |-> Timestamp(t)]
          IN /\ IF row = NoRow
                THEN mqtt' = [at |-> "create", read |-> NoRow, message |-> message]
                ELSE KnownGate(message)
             /\ late' = late \ {t}
    /\ UNCHANGED <<history, row, reports, http, requests>>

(* Mutant: an unknown gate is not added. *)
NotAddedMutant ==
    /\ mqtt.at = "create"
    /\ mqtt' = MqttIdle
    /\ UNCHANGED <<history, late, row, reports, http, requests>>

(* GateNotFoundException: the gate is added, over one added meanwhile. *)
AddGate ==
    /\ mqtt.at = "create"
    /\ row' = NewGate(mqtt.message.status)
    /\ mqtt' = MqttIdle
    /\ UNCHANGED <<history, late, reports, http, requests>>

(* The first half of changeGateStateConfirmation and changeGateStatus. *)
MqttRead ==
    /\ mqtt.at \in {"unconfirm", "status", "verdict"}
    /\ mqtt.read = NoRow
    /\ mqtt' = CASE row # NoRow -> [mqtt EXCEPT !.read = row]
                 [] row = NoRow /\ mqtt.at = "verdict" -> MqttIdle
                 [] OTHER -> [mqtt EXCEPT !.at = "create"]
    /\ UNCHANGED <<history, late, row, reports, http, requests>>

SaveUnconfirmed ==
    /\ mqtt.at = "unconfirm" /\ mqtt.read # NoRow
    /\ row' = [mqtt.read EXCEPT !.confirmation = "UNCONFIRMED"]
    /\ mqtt' = [mqtt EXCEPT !.at = "status", !.read = NoRow]
    /\ UNCHANGED <<history, late, reports, http, requests>>

SaveStatus ==
    /\ mqtt.at = "status" /\ mqtt.read # NoRow
    /\ row' \in WithStatus(mqtt.read, mqtt.message.status, mqtt.message.time)
    /\ mqtt' = MqttIdle
    /\ UNCHANGED <<history, late, reports, http, requests>>

(* Has this report been recorded already?  Only its time is compared. *)
AlreadyExists(a) == \E b \in reports : b.time = a.time

(* A senseMate's report of what its worker saw, stamped by the worker's own
   clock. *)
SeenTableState ==
    /\ mqtt.at = "idle"
    /\ \E w \in Workers, s \in Status, t \in 1 .. MaxTime :
          LET a == [worker |-> w, status |-> s, time |-> Timestamp(t)]
          IN /\ ~AlreadyExists(a)
             /\ reports' = reports \cup {a}
    /\ mqtt' = [at |-> "evaluate", read |-> NoRow]
    /\ UNCHANGED <<history, late, row, http, requests>>

Evaluate ==
    /\ mqtt.at = "evaluate"
    /\ mqtt' = IF row = NoRow \/ Fails(row) THEN MqttIdle
               ELSE [at |-> "verdict", read |-> NoRow, verdict |-> Verdict(row)]
    /\ UNCHANGED <<history, late, row, reports, http, requests>>

(* The same confirmation is saved once for each conflict. *)
AfterSave(session) ==
    IF session.verdict.saves = 1 THEN MqttIdle
    ELSE [session EXCEPT !.read = NoRow,
                         !.verdict = [session.verdict EXCEPT !.saves = @ - 1]]

SaveVerdict ==
    /\ mqtt.at = "verdict" /\ mqtt.read # NoRow
    /\ row' = [mqtt.read EXCEPT !.confirmation = mqtt.verdict.to]
    /\ mqtt' = AfterSave(mqtt)
    /\ UNCHANGED <<history, late, reports, http, requests>>

-----------------------------------------------------------------------------
(* A request arrives and reads the row.  A gate is only added under a number
   that is free when it is chosen. *)
HttpRead(r) ==
    /\ http[r].at = "idle"
    /\ requests < MaxRequests
    /\ requests' = requests + 1
    /\ \E job \in Jobs :
          /\ (job.kind = "add") <=> (row = NoRow)
          /\ http' = [http EXCEPT ![r] = [at |-> "save", read |-> row, job |-> job]]
    /\ UNCHANGED <<history, late, row, reports, mqtt>>

(* The row the job saves. *)
SavedBy(job, r) ==
    CASE job.kind = "request" -> RequestedIn(r, job.target)
      [] job.kind = "set"     -> SetManually(r, job.target)
      [] job.kind = "touch"   -> r
      [] job.kind = "delete"  -> NoRow

(* The session's save fails when the row is gone. *)
HttpSave(r) ==
    /\ http[r].at = "save" /\ http[r].job.kind # "add"
    /\ LET saved == SavedBy(http[r].job, http[r].read)
       IN IF row = NoRow THEN http' = [http EXCEPT ![r] = HttpIdle] /\ UNCHANGED row
          ELSE /\ row' = saved
               /\ http' = [http EXCEPT ![r] =
                     IF http[r].job.kind \in {"request", "set"}
                     THEN [at |-> "activity", read |-> saved] ELSE HttpIdle]
    /\ UNCHANGED <<history, late, reports, mqtt, requests>>

(* add-gate-ui: the client's status, neither a confirmation nor the time of a
   transition. *)
HttpAdd(r) ==
    /\ http[r].at = "save" /\ http[r].job.kind = "add"
    /\ \E s \in Status :
          row' = [NewGate(s) EXCEPT !.confirmation = "null", !.transition = NoTime]
    /\ http' = [http EXCEPT ![r] = HttpIdle]
    /\ UNCHANGED <<history, late, reports, mqtt, requests>>

(* The activity of the request names a worker, so the reports are weighed
   again, against the session's row. *)
HttpActivity(r) ==
    /\ http[r].at = "activity"
    /\ http' = [http EXCEPT ![r] =
          IF Fails(@.read) THEN HttpIdle
          ELSE [at |-> "verdict", verdict |-> Verdict(@.read),
                read |-> [@.read EXCEPT !.confirmation = Verdict(http[r].read).to]]]
    /\ UNCHANGED <<history, late, row, reports, mqtt, requests>>

HttpVerdict(r) ==
    /\ http[r].at = "verdict"
    /\ row' = IF row = NoRow THEN NoRow ELSE http[r].read
    /\ http' = [http EXCEPT ![r] =
          IF row = NoRow \/ http[r].verdict.saves = 1 THEN HttpIdle
          ELSE [http[r] EXCEPT !.verdict.saves = @ - 1]]
    /\ UNCHANGED <<history, late, reports, mqtt, requests>>

-----------------------------------------------------------------------------
MqttStep == AddGate \/ MqttRead \/ SaveUnconfirmed \/ SaveStatus \/ Evaluate \/ SaveVerdict
HttpStep(r) == HttpSave(r) \/ HttpAdd(r) \/ HttpActivity(r) \/ HttpVerdict(r)

Next ==
    \/ SensorChanges
    \/ IstState
    \/ SeenTableState
    \/ MqttStep
    \/ \E r \in Requests : HttpRead(r) \/ HttpStep(r)

Spec == Init /\ [][Next]_vars

(* The gate keeps sending its state, the MQTT thread takes what arrives, and a
   request that has begun is served. *)
FairSpec ==
    /\ Spec
    /\ WF_vars(IstState)
    /\ WF_vars(MqttStep)
    /\ \A r \in Requests : WF_vars(HttpStep(r))

-----------------------------------------------------------------------------

(* The row, the reports and both kinds of sessions hold what they may hold. *)
TypeOK ==
    /\ history \in Seq(Status) /\ Len(history) \in 1 .. MaxTime
    /\ late \subseteq 1 .. Len(history) - 1
    /\ row \in Rows \cup {NoRow}
    /\ reports \subseteq Reports
    /\ mqtt.at \in {"idle", "create", "unconfirm", "status", "evaluate", "verdict"}
    /\ mqtt.read \in Rows \cup {NoRow}
    /\ mqtt.at \in {"idle", "create", "evaluate"} => mqtt.read = NoRow
    /\ \A r \in Requests :
          /\ http[r].at \in {"idle", "save", "activity", "verdict"}
          /\ http[r].read \in Rows \cup {NoRow}
          /\ http[r].at \in {"activity", "verdict"} => http[r].read # NoRow
    /\ requests \in 0 .. MaxRequests

(* Whatever is lost between the threads, a gate is shown as confirmed by two
   workers only if two of them have reported the same status of it
   (GateActivityService.java:70-87, StatusTables.jsx "Confirmed by 2+ workers"). *)
MultiNeedsTwo ==
    (row # NoRow /\ row.confirmation = "MULTI") =>
        \E a, b \in reports : a.worker # b.worker /\ a.status = b.status

(* While only the MQTT thread has written, a gate's confirmation belongs to its
   status also between the two saves of an uplink ("on changes mark the new
   state as unconfirmed", MqttMessageHandler.java:102): one that is confirmed
   has been reported in that state, one in conflict in the other.  A request
   whose row was read before the change breaks this, by saving the confirmation
   of the old status back between the two saves. *)
ConfirmedIsSeen ==
    (requests = 0 /\ row # NoRow) =>
        /\ row.confirmation \in {"SINGLE", "MULTI"} =>
              \E a \in reports : a.status = row.status
        /\ row.confirmation = "CONFLICT" =>
              \E a \in reports : a.status # row.status

(* However requests and uplinks overwrite each other, though an uplink may come
   late and a gate may be deleted under the thread that handles one: once the
   gate rests and no request is being served, the row comes to exist and to show
   the gate's state for good (MqttMessageHandler.java:91-122). *)
Repaired ==
    <>[](row # NoRow /\ row.status = history[Len(history)])

=============================================================================
