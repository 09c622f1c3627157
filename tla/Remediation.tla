---------------------------- MODULE Remediation ----------------------------
(***************************************************************************)
(* The remediation engine for one device and one row of one rule           *)
(* (server/src/modules/remediation).  AlertEngine hands it the alerts of   *)
(* the rule, RemoteActions tells what becomes of the actions it sends; of  *)
(* both only what the engine sees is here.                                 *)
(*                                                                         *)
(* handleAlertRemediation is started and not waited for, an approval is a  *)
(* request of its own, and the completion of an action is processed after  *)
(* the agent has had its answer: all of them overlap, and each access to   *)
(* the database that another can get in front of is a step.                *)
(***************************************************************************)
EXTENDS Integers, FiniteSets

CONSTANTS
  Alert,          \* alerts of the rule
  NoAlert,        \* no alert
  Task,           \* remediations and approvals that may be under way at once
  MaxAttempts,    \* failures of the rule that open the circuit breaker
  MaxExecutions,  \* bound: rows of the table of executions
  MaxApprovals,   \* bound: approvals
  MaxIncidents    \* bound: changes of the rule, restarts, dispatches that fail

ASSUME AlertAssumption == NoAlert \notin Alert
ASSUME TaskAssumption == IsFiniteSet(Task)
ASSUME LimitsAssumption ==
  /\ MaxAttempts \in Nat \ {0} /\ MaxExecutions \in Nat /\ MaxApprovals \in Nat
  /\ MaxIncidents \in Nat

\* A row of the table of executions; row 0 does not exist.
Execution == 1..MaxExecutions

\* A remote action is named by the execution it is for and by the task that
\* sent it: an approval that is given twice sends two.
RemoteAction == Execution \X Task
None == <<>>

Mode       == {"none", "MONITOR_ONLY", "MANUAL_APPROVAL", "AUTO_REMEDIATE"}
InProgress == {"PENDING_APPROVAL", "QUEUED", "EXECUTING"}

VARIABLES
  rule,        \* the row: whether it exists and is enabled, its mode
  executions,  \* the table of executions
  actions,     \* status of the remote actions sent
  tasks,       \* remediations and approvals under way
  completing,  \* reports of actions still to be processed
  closing,     \* actions given up whose executions are still to be closed
  early,       \* history: actions whose report found no execution
  approvals,   \* history: requests to approve an execution that were granted
  overlapped,  \* history: alerts with two remediations about to create an execution
  configs, faults

followVars == <<completing, closing>>
ghostVars  == <<early, approvals, overlapped>>
vars == <<rule, executions, actions, tasks, followVars, ghostVars, configs, faults>>

NoExecution == [status |-> "ABSENT", alert |-> NoAlert, auto |-> FALSE,
                action |-> None, age |-> "old"]
NoTask == [phase |-> "idle", alert |-> NoAlert, auto |-> FALSE, execution |-> 0]

\* A rule of any mode; a customer's new row has none.
Init ==
  /\ rule \in [exists : {TRUE}, enabled : {TRUE}, mode : Mode]
  /\ executions = [e \in Execution |-> NoExecution]
  /\ actions = [x \in RemoteAction |-> "absent"]
  /\ tasks = [t \in Task |-> NoTask]
  /\ completing = {} /\ closing = {} /\ early = {}
  /\ approvals = {} /\ overlapped = {}
  /\ configs = 0 /\ faults = 0

-----------------------------------------------------------------------------
(* The rule                                                                 *)

Incident == configs + faults < MaxIncidents

Configure(new) ==
  /\ rule.exists /\ Incident
  /\ configs' = configs + 1
  /\ rule' = new
  /\ UNCHANGED <<executions, actions, tasks, followVars, ghostVars, faults>>

Toggle == Configure([rule EXCEPT !.enabled = ~@])

\* configureRuleRemediation: a row without an action can only be observed.
ConfigureRemediation ==
  \E m \in Mode \ {"none"} :
    /\ rule.mode = "none" => m # "MONITOR_ONLY"
    /\ Configure([rule EXCEPT !.mode = m])

\* A customer's row is deleted.
DeleteRule == Configure([rule EXCEPT !.exists = FALSE, !.enabled = FALSE])

\* ensureDefaultAlertRules gives a row without remediation the predefined one.
Seed ==
  /\ rule.exists /\ rule.mode = "none"
  /\ rule' = [rule EXCEPT !.mode = "MANUAL_APPROVAL"]
  /\ UNCHANGED <<executions, actions, tasks, followVars, ghostVars, configs, faults>>

-----------------------------------------------------------------------------
(* handleAlertRemediation                                                   *)

Remediates == rule.exists /\ rule.enabled /\ rule.mode \notin {"none", "MONITOR_ONLY"}

Counted(status) == {e \in Execution : executions[e].age # "old" /\ executions[e].status = status}
BreakerOpen == Cardinality(Counted("FAILED")) >= MaxAttempts

TaskAt(t, phase) == tasks' = [tasks EXCEPT ![t].phase = phase]
TaskEnds(t) == tasks' = [tasks EXCEPT ![t] = NoTask]

FreshExecution ==
  LET free == {e \in Execution : executions[e].status = "ABSENT"}
  IN  {e \in free : \A f \in free : e <= f}

\* An evaluation hands over an alert, new or recurring (AlertEngine!EvalTriggered),
\* while the bound leaves a row.
HandOver(t, a) ==
  /\ tasks[t] = NoTask /\ Remediates /\ FreshExecution # {}
  /\ tasks' = [tasks EXCEPT ![t] = [NoTask EXCEPT !.phase = "check", !.alert = a,
                                                 !.auto = rule.mode = "AUTO_REMEDIATE"]]
  /\ UNCHANGED <<rule, executions, actions, followVars, ghostVars, configs, faults>>

\* The failures of the rule in the last two hours.
TaskCheck(t) ==
  /\ tasks[t].phase = "check"
  /\ \/ ~BreakerOpen /\ TaskAt(t, "cool")
     \/ BreakerOpen /\ Counted("CIRCUIT_BROKEN") = {} /\ TaskAt(t, "break")
     \/ BreakerOpen /\ Counted("CIRCUIT_BROKEN") # {} /\ TaskEnds(t)
  /\ UNCHANGED <<rule, executions, actions, followVars, ghostVars, configs, faults>>

Recent(e) == executions[e].age = "new"

\* A new execution, unless the row it refers to was deleted meanwhile.
NewExecution(t, status) ==
  \/ /\ rule.exists
     /\ \E e \in FreshExecution :
          /\ executions' = [executions EXCEPT ![e] =
               [status |-> status, alert |-> tasks[t].alert, auto |-> tasks[t].auto,
                action |-> None, age |-> "new"]]
          /\ tasks' = [tasks EXCEPT ![t] = IF status = "QUEUED"
               THEN [@ EXCEPT !.phase = "dispatch", !.execution = e] ELSE NoTask]
  \/ ~(rule.exists /\ FreshExecution # {}) /\ TaskEnds(t) /\ UNCHANGED executions

TaskBreak(t) ==
  /\ tasks[t].phase = "break"
  /\ NewExecution(t, "CIRCUIT_BROKEN")
  /\ UNCHANGED <<rule, actions, followVars, ghostVars, configs, faults>>

\* Mutant: an execution that waits for its approval is not in progress.
CoolingWhileSent(a) ==
  LET current == {e \in Execution : executions[e].alert = a
                                    /\ executions[e].status \in {"QUEUED", "EXECUTING"}}
  IN  \E e \in current : Recent(e) /\ \A f \in current : f <= e

\* Of the executions of the alert in progress, the newest one decides.
Cooling(a) ==
  LET current == {e \in Execution : executions[e].alert = a /\ executions[e].status \in InProgress}
  IN  \E e \in current : Recent(e) /\ \A f \in current : f <= e

TaskCool(t) ==
  /\ tasks[t].phase = "cool"
  /\ \/ Cooling(tasks[t].alert) /\ TaskEnds(t)
     \/ ~Cooling(tasks[t].alert) /\ TaskAt(t, "create")
  /\ overlapped' = overlapped \cup {tasks[u].alert : u \in {s \in Task \ {t} :
       tasks[s].phase = "create" /\ tasks[s].alert = tasks[t].alert /\ tasks'[t].phase = "create"}}
  /\ UNCHANGED <<rule, executions, actions, followVars, early, approvals, configs, faults>>

\* Mutant: an execution that waits for its approval is dispatched all the same.
CreateAndDispatch(t) ==
  /\ tasks[t].phase = "create"
  /\ NewExecution(t, "QUEUED")
  /\ UNCHANGED <<rule, actions, followVars, ghostVars, configs, faults>>

TaskCreate(t) ==
  /\ tasks[t].phase = "create"
  /\ NewExecution(t, IF tasks[t].auto THEN "QUEUED" ELSE "PENDING_APPROVAL")
  /\ UNCHANGED <<rule, actions, followVars, ghostVars, configs, faults>>

-----------------------------------------------------------------------------
(* approveRemediation and dispatchRemediationAction                         *)

\* The status is read in one step and written in another.
ApproveRead(t, e) ==
  /\ tasks[t] = NoTask /\ executions[e].status = "PENDING_APPROVAL"
  /\ tasks' = [tasks EXCEPT ![t] = [NoTask EXCEPT !.phase = "approve", !.execution = e]]
  /\ Cardinality(approvals) < MaxApprovals /\ approvals' = approvals \cup {<<e, t>>}
  /\ UNCHANGED <<rule, executions, actions, followVars, early, overlapped, configs, faults>>

ApproveWrite(t) ==
  LET e == tasks[t].execution IN
  /\ tasks[t].phase = "approve"
  /\ executions' = [executions EXCEPT ![e].status = "QUEUED"]
  /\ TaskAt(t, "dispatch")
  /\ UNCHANGED <<rule, actions, followVars, ghostVars, configs, faults>>

\* ActionsService.createAction: the agent may have it before it is linked.
Dispatch(t) ==
  /\ tasks[t].phase = "dispatch"
  /\ actions' = [actions EXCEPT ![<<tasks[t].execution, t>>] = "open"]
  /\ TaskAt(t, "link")
  /\ UNCHANGED <<rule, executions, followVars, ghostVars, configs, faults>>

DispatchFails(t) ==
  /\ tasks[t].phase = "dispatch" /\ Incident
  /\ faults' = faults + 1
  /\ executions' = [executions EXCEPT ![tasks[t].execution].status = "FAILED"]
  /\ TaskEnds(t)
  /\ UNCHANGED <<rule, actions, followVars, ghostVars, configs>>

Link(t) ==
  LET e == tasks[t].execution IN
  /\ tasks[t].phase = "link"
  /\ executions' = [executions EXCEPT ![e].status = "EXECUTING", ![e].action = <<e, t>>]
  /\ TaskEnds(t)
  /\ UNCHANGED <<rule, actions, followVars, ghostVars, configs, faults>>

TaskStep(t) ==
  \/ TaskCheck(t) \/ TaskBreak(t) \/ TaskCool(t) \/ TaskCreate(t)
  \/ ApproveWrite(t) \/ Dispatch(t) \/ Link(t)

-----------------------------------------------------------------------------
(* What becomes of an action, and the follow-ups                            *)

Linking(x) == tasks[x[2]].phase = "link" /\ tasks[x[2]].execution = x[1]
Linked(x)  == {e \in Execution : executions[e].action = x}

\* The agent reports: "good" is SUCCESS with exit code 0 and no failed result.
\* A report about an action that was given up is accepted, once.
ActionReports(x) ==
  /\ actions[x] \in {"open", "abandoned"}
  /\ \E o \in {"good", "bad"} : actions' = [actions EXCEPT ![x] = o]
  /\ completing' = completing \cup {x}
  /\ UNCHANGED <<rule, executions, tasks, closing, ghostVars, configs, faults>>

\* Cancelled or expired: reconcileNeverExecutedAction leaves executions alone.
ActionWithdrawn(x) ==
  /\ actions[x] = "open"
  /\ actions' = [actions EXCEPT ![x] = "withdrawn"]
  /\ UNCHANGED <<rule, executions, tasks, followVars, ghostVars, configs, faults>>

\* The execution lease ends after hours; linking does not take that long.
ActionAbandoned(x) ==
  /\ actions[x] = "open" /\ ~Linking(x)
  /\ actions' = [actions EXCEPT ![x] = "abandoned"]
  /\ closing' = closing \cup {x}
  /\ UNCHANGED <<rule, executions, tasks, completing, ghostVars, configs, faults>>

\* Mutant: an execution is closed whatever the agent reported meanwhile.
CloseAnyStatus(x) ==
  /\ x \in closing
  /\ closing' = closing \ {x}
  /\ executions' = [e \in Execution |->
       IF e \in Linked(x) THEN [executions[e] EXCEPT !.status = "FAILED"] ELSE executions[e]]
  /\ UNCHANGED <<rule, actions, tasks, completing, ghostVars, configs, faults>>

\* expirePendingActions: the executions of an action given up fail.
CloseAbandoned(x) ==
  /\ x \in closing
  /\ closing' = closing \ {x}
  /\ executions' = [e \in Execution |->
       IF e \in Linked(x) /\ executions[e].status \in {"QUEUED", "EXECUTING"}
       THEN [executions[e] EXCEPT !.status = "FAILED"] ELSE executions[e]]
  /\ UNCHANGED <<rule, actions, tasks, completing, ghostVars, configs, faults>>

\* handleRemoteActionCompletion: the execution linked to the action, if any.
\* A success then resolves the alert (AlertEngine!Remediated).
Complete(x) ==
  /\ x \in completing
  /\ completing' = completing \ {x}
  /\ executions' = [e \in Execution |-> IF e \in Linked(x)
       THEN [executions[e] EXCEPT !.status = IF actions[x] = "good" THEN "SUCCESS" ELSE "FAILED"]
       ELSE executions[e]]
  /\ early' = IF Linked(x) = {} THEN early \cup {x} ELSE early
  /\ UNCHANGED <<rule, actions, tasks, closing, approvals, overlapped, configs, faults>>

-----------------------------------------------------------------------------
(* Time and restarts                                                        *)

\* An execution leaves the cooldown of the rule, then the two hours in which a
\* failure counts; the older execution leaves first.
Ages(e) ==
  /\ executions[e].age # "old" /\ \A f \in Execution : f < e => executions[f].age # executions[e].age
  /\ executions' = [executions EXCEPT ![e].age = IF @ = "new" THEN "cooled" ELSE "old"]
  /\ UNCHANGED <<rule, actions, tasks, followVars, ghostVars, configs, faults>>

\* What the process had in memory is gone.
ServerRestart ==
  /\ Incident
  /\ faults' = faults + 1
  /\ tasks' = [t \in Task |-> NoTask]
  /\ completing' = {} /\ closing' = {}
  /\ UNCHANGED <<rule, executions, actions, ghostVars, configs>>

ActionStep(x) ==
  \/ ActionReports(x) \/ ActionWithdrawn(x) \/ ActionAbandoned(x)
  \/ CloseAbandoned(x) \/ Complete(x)

Next ==
  \/ Toggle \/ ConfigureRemediation \/ DeleteRule \/ Seed
  \/ \E t \in Task : \/ TaskStep(t) \/ DispatchFails(t)
                     \/ \E a \in Alert : HandOver(t, a)
                     \/ \E e \in Execution : ApproveRead(t, e)
  \/ \E x \in RemoteAction : ActionStep(x)
  \/ \E e \in Execution : Ages(e)
  \/ ServerRestart

Spec == Init /\ [][Next]_vars

-----------------------------------------------------------------------------
(* Properties                                                               *)

Approvals(e) == Cardinality({t \in Task : <<e, t>> \in approvals})

ExecutionRow ==
  [status : InProgress \cup {"ABSENT", "SUCCESS", "FAILED", "CIRCUIT_BROKEN"},
   alert : Alert \cup {NoAlert}, auto : BOOLEAN, action : RemoteAction \cup {None},
   age : {"new", "cooled", "old"}]
TaskState ==
  [phase : {"idle", "check", "break", "cool", "create", "approve", "dispatch", "link"},
   alert : Alert \cup {NoAlert}, auto : BOOLEAN, execution : Execution \cup {0}]

\* The values the code can put in each row and in each task.
TypeOK ==
  /\ rule \in [exists : BOOLEAN, enabled : BOOLEAN, mode : Mode]
  /\ executions \in [Execution -> ExecutionRow] /\ tasks \in [Task -> TaskState]
  /\ actions \in [RemoteAction -> {"absent", "open", "good", "bad", "withdrawn", "abandoned"}]
  /\ completing \subseteq RemoteAction /\ closing \subseteq RemoteAction
  /\ early \subseteq RemoteAction
  /\ approvals \subseteq Execution \X Task /\ overlapped \subseteq Alert
  /\ configs \in 0..MaxIncidents /\ faults \in 0..MaxIncidents

\* An execution of which no action has been sent.
Unsent == {"ABSENT", "CIRCUIT_BROKEN", "PENDING_APPROVAL"}
At(t, phases) == tasks[t].phase \in phases

\* Executions, actions, tasks and follow-ups refer to each other as the code
\* assumes: an action belongs to an execution that exists and is linked to no
\* other, a report that is processed has been recorded, what is sent is stored,
\* and nothing is sent twice by one task or before it may be.
LinksOK ==
  /\ \A e \in Execution :
       /\ executions[e].status = "ABSENT" => executions[e] = NoExecution
       /\ executions[e].action # None =>
            executions[e].action[1] = e /\ actions[executions[e].action] # "absent"
  /\ \A x \in RemoteAction :
       /\ actions[x] # "absent" => executions[x[1]].status \notin Unsent
       /\ x \in completing => actions[x] \in {"good", "bad"}
       /\ x \in closing => actions[x] \in {"abandoned", "good", "bad"}
       /\ Linking(x) => actions[x] # "absent"
  /\ \A t \in Task :
       /\ tasks[t].phase = "idle" => tasks[t] = NoTask
       /\ tasks[t].phase \in {"check", "break", "cool", "create"} => tasks[t].alert # NoAlert
       /\ At(t, {"approve", "dispatch", "link"}) =>
            tasks[t].execution # 0
              /\ executions[tasks[t].execution].status \notin {"ABSENT", "CIRCUIT_BROKEN"}
       /\ At(t, {"dispatch", "link"}) => executions[tasks[t].execution].status \notin Unsent
       /\ At(t, {"approve", "dispatch"}) => actions[<<tasks[t].execution, t>>] = "absent"

IInv == TypeOK /\ LinksOK

\* No action goes to a device for an execution that needs an approval before
\* an operator gave one, and an execution that needs none sends one action.
EveryActionAuthorised ==
  \A e \in Execution :
    Cardinality({t \in Task : actions[<<e, t>>] # "absent"})
      <= IF executions[e].auto THEN 1 ELSE Approvals(e)

\* An execution is shown SUCCESS only if an action sent for it succeeded, whatever accidents
\* befell it; and, as soon as the reports are processed, an operator who looks at an execution
\* sees what became of its action.  The exceptions are the accidents this design has: an action
\* that was withdrawn before it ran (nothing closes its execution, which stays EXECUTING), a
\* report that came before the link, an execution that was approved twice, and a fault, which
\* may cost a follow-up.
OutcomeShown ==
  \A e \in Execution :
    LET x == executions[e].action
        status == executions[e].status IN
    /\ status = "SUCCESS" => \E t \in Task : actions[<<e, t>>] = "good"
    /\ /\ x # None /\ x \notin completing \cup closing
       /\ actions[x] # "withdrawn" /\ x \notin early /\ Approvals(e) <= 1 /\ faults = 0
       => status = CASE actions[x] = "good" -> "SUCCESS"
                     [] actions[x] \in {"bad", "abandoned"} -> "FAILED"
                     [] OTHER -> "EXECUTING"

\* Within the cooldown no second attempt of an alert is started while the first
\* is under way, unless two remediations of it overlapped between the check and
\* the creation, or an approval given twice brought an attempt back.  What refers to an
\* execution refers to one that is there.
OneAttempt ==
  /\ IInv
  /\ \A a \in Alert \ overlapped :
       Cardinality({e \in Execution : executions[e].alert = a /\ Recent(e) /\ Approvals(e) <= 1
                                      /\ executions[e].status \in InProgress}) <= 1

\* Two attempts for one alert are separated by the cooldown of its rule.
\* Refuted: the check looks at executions in progress only, so a failed attempt
\* is repeated by the next evaluation.
CooldownBetweenAttempts ==
  [][\A e \in Execution :
       executions[e].status = "ABSENT" /\ executions'[e].status \in InProgress =>
         ~\E f \in Execution : executions[f].alert = executions'[e].alert
                               /\ executions[f].status \in InProgress \cup {"FAILED"}
                               /\ Recent(f)]_vars

=============================================================================
