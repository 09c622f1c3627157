-------------------------- MODULE Remediation_proofs --------------------------
(***************************************************************************)
(* What is proved of the remediation engine, for any number of alerts,     *)
(* tasks, executions, incidents and approvals: what the rows, the actions  *)
(* and the tasks say of each other, that no action goes out that nobody    *)
(* authorised, that an execution shows what became of its action, and that *)
(* attempts of one alert do not run beside each other.                     *)
(***************************************************************************)
EXTENDS Remediation, TLAPS, FiniteSetTheorems, WellFoundedInduction

-----------------------------------------------------------------------------
(* IInv, by rows, actions and tasks                                         *)

RowLinks(e) ==
  /\ executions[e].status = "ABSENT" => executions[e] = NoExecution
  /\ executions[e].action # None =>
       executions[e].action[1] = e /\ actions[executions[e].action] # "absent"

ActionLinks(x) ==
  /\ actions[x] # "absent" => executions[x[1]].status \notin Unsent
  /\ x \in completing => actions[x] \in {"good", "bad"}
  /\ x \in closing => actions[x] \in {"abandoned", "good", "bad"}
  /\ Linking(x) => actions[x] # "absent"

TaskLinks(t) ==
  /\ tasks[t].phase = "idle" => tasks[t] = NoTask
  /\ tasks[t].phase \in {"check", "break", "cool", "create"} => tasks[t].alert # NoAlert
  /\ At(t, {"approve", "dispatch", "link"}) =>
       tasks[t].execution # 0
         /\ executions[tasks[t].execution].status \notin {"ABSENT", "CIRCUIT_BROKEN"}
  /\ At(t, {"dispatch", "link"}) => executions[tasks[t].execution].status \notin Unsent
  /\ At(t, {"approve", "dispatch"}) => actions[<<tasks[t].execution, t>>] = "absent"

LEMMA Parts ==
  /\ IInv <=> /\ TypeOK /\ (\A e \in Execution : RowLinks(e))
              /\ (\A x \in RemoteAction : ActionLinks(x)) /\ \A t \in Task : TaskLinks(t)
  /\ IInv' <=> /\ TypeOK' /\ (\A e \in Execution : RowLinks(e)')
               /\ (\A x \in RemoteAction : ActionLinks(x)') /\ \A t \in Task : TaskLinks(t)'
BY DEF IInv, LinksOK, RowLinks, ActionLinks, TaskLinks

\* A remote action is a pair, and never the absence of one.
LEMMA ActionIsSome ==
  /\ \A x \in RemoteAction : x # None /\ x[1] \in Execution /\ x[2] \in Task
                             /\ x = <<x[1], x[2]>>
  /\ \A e \in Execution, t \in Task : <<e, t>> \in RemoteAction
                                      /\ <<e, t>>[1] = e /\ <<e, t>>[2] = t
BY DEF RemoteAction, None

\* The execution a task works on is in the table.
LEMMA ExecutionOfTask ==
  ASSUME IInv, NEW t \in Task, At(t, {"approve", "dispatch", "link"})
  PROVE  /\ tasks[t].execution \in Execution /\ <<tasks[t].execution, t>> \in RemoteAction
         /\ executions[tasks[t].execution].status \notin {"ABSENT", "CIRCUIT_BROKEN"}
BY ActionIsSome DEF IInv, LinksOK, TypeOK, TaskState

\* The alert a remediation is for is an alert.
LEMMA AlertOfTask ==
  ASSUME IInv, NEW t \in Task, tasks[t].phase \in {"check", "break", "cool", "create"}
  PROVE  tasks[t].alert \in Alert
BY DEF IInv, LinksOK, TypeOK, TaskState

-----------------------------------------------------------------------------
(* What the steps write                                                     *)

Phase == {"idle", "check", "break", "cool", "create", "approve", "dispatch", "link"}
RowStatus == InProgress \cup {"ABSENT", "SUCCESS", "FAILED", "CIRCUIT_BROKEN"}

\* The task t becomes new, the others are as they were.
Becomes(t, new) ==
  /\ tasks' \in [Task -> TaskState]
  /\ tasks'[t] = new
  /\ \A u \in Task : u # t => tasks'[u] = tasks[u]

\* The task t is in another phase of the same work.
Moved(t, phase) ==
  /\ tasks' \in [Task -> TaskState]
  /\ tasks'[t].phase = phase
  /\ tasks'[t].execution = tasks[t].execution
  /\ tasks'[t].alert = tasks[t].alert /\ tasks'[t].auto = tasks[t].auto
  /\ \A u \in Task : u # t => tasks'[u] = tasks[u]

\* The row e has another status and nothing else is written.
Rewritten(e, status) ==
  /\ executions' \in [Execution -> ExecutionRow]
  /\ executions'[e].status = status
  /\ executions'[e].alert = executions[e].alert /\ executions'[e].auto = executions[e].auto
  /\ executions'[e].action = executions[e].action /\ executions'[e].age = executions[e].age
  /\ \A f \in Execution : f # e => executions'[f] = executions[f]

\* Some of these rows come to their end.
RowsEnd(rows) ==
  /\ executions' \in [Execution -> ExecutionRow]
  /\ \A f \in Execution :
       /\ executions'[f].alert = executions[f].alert /\ executions'[f].auto = executions[f].auto
       /\ executions'[f].action = executions[f].action /\ executions'[f].age = executions[f].age
       /\ \/ executions'[f] = executions[f]
          \/ f \in rows /\ executions'[f].status \in {"SUCCESS", "FAILED"}

LEMMA TaskAtIs ==
  ASSUME TypeOK, NEW t \in Task, NEW phase \in Phase, TaskAt(t, phase)
  PROVE  Moved(t, phase)
<1>1. tasks[t] \in TaskState BY DEF TypeOK
<1>2. [tasks[t] EXCEPT !.phase = phase] \in TaskState BY <1>1 DEF TaskState, Phase
<1>3. tasks' = [tasks EXCEPT ![t] = [tasks[t] EXCEPT !.phase = phase]] BY DEF TaskAt
<1> QED BY <1>1, <1>2, <1>3 DEF TypeOK, TaskState, Moved

LEMMA TaskBecomes ==
  ASSUME TypeOK, NEW t \in Task, NEW new \in TaskState, tasks' = [tasks EXCEPT ![t] = new]
  PROVE  Becomes(t, new)
BY DEF TypeOK, Becomes

LEMMA NoTaskType == NoTask \in TaskState /\ NoTask.phase = "idle"
BY DEF NoTask, TaskState

LEMMA TaskEndsIs ==
  ASSUME TypeOK, NEW t \in Task, TaskEnds(t)
  PROVE  Becomes(t, NoTask)
BY NoTaskType, TaskBecomes DEF TaskEnds

LEMMA StatusWritten ==
  ASSUME TypeOK, NEW e \in Execution, NEW status \in RowStatus,
         executions' = [executions EXCEPT ![e].status = status]
  PROVE  Rewritten(e, status)
<1>1. executions[e] \in ExecutionRow BY DEF TypeOK
<1>2. [executions[e] EXCEPT !.status = status] \in ExecutionRow
  BY <1>1 DEF ExecutionRow, RowStatus
<1>3. executions' = [executions EXCEPT ![e] = [executions[e] EXCEPT !.status = status]] OBVIOUS
<1> QED BY <1>1, <1>2, <1>3 DEF TypeOK, ExecutionRow, Rewritten

\* A new row takes the place of one that was not there.
NewRow(t, status, e) ==
  /\ executions[e].status = "ABSENT"
  /\ executions' \in [Execution -> ExecutionRow]
  /\ executions'[e].status = status /\ executions'[e].alert = tasks[t].alert
  /\ executions'[e].auto = tasks[t].auto /\ executions'[e].action = None
  /\ executions'[e].age = "new"
  /\ \A f \in Execution : f # e => executions'[f] = executions[f]
  /\ \A f \in Execution : f < e => executions[f].status # "ABSENT"

LEMMA NewExecutionIs ==
  ASSUME IInv, NEW t \in Task, NEW status \in {"QUEUED", "PENDING_APPROVAL", "CIRCUIT_BROKEN"},
         NewExecution(t, status)
  PROVE  \/ \E e \in Execution :
              /\ NewRow(t, status, e)
              /\ \/ /\ status = "QUEUED" /\ tasks' \in [Task -> TaskState]
                    /\ tasks'[t].phase = "dispatch" /\ tasks'[t].execution = e
                    /\ \A u \in Task : u # t => tasks'[u] = tasks[u]
                 \/ status # "QUEUED" /\ Becomes(t, NoTask)
         \/ UNCHANGED executions /\ Becomes(t, NoTask)
<1>1. CASE ~(rule.exists /\ FreshExecution # {}) /\ TaskEnds(t) /\ UNCHANGED executions
  BY <1>1, TaskEndsIs DEF IInv
<1>2. CASE ~(~(rule.exists /\ FreshExecution # {}) /\ TaskEnds(t) /\ UNCHANGED executions)
  <2> DEFINE row == [status |-> status, alert |-> tasks[t].alert, auto |-> tasks[t].auto,
                     action |-> None, age |-> "new"]
  <2>1. PICK e \in FreshExecution :
          /\ executions' = [executions EXCEPT ![e] = row]
          /\ tasks' = [tasks EXCEPT ![t] = IF status = "QUEUED"
               THEN [@ EXCEPT !.phase = "dispatch", !.execution = e] ELSE NoTask]
    BY <1>2 DEF NewExecution
  <2>2. e \in Execution /\ executions[e].status = "ABSENT"
        /\ \A f \in Execution : f < e => executions[f].status # "ABSENT"
    BY <2>1 DEF FreshExecution, Execution
  <2>3. tasks[t] \in TaskState BY DEF IInv, TypeOK
  <2>4. row \in ExecutionRow BY <2>3 DEF ExecutionRow, TaskState, InProgress
  <2>5. NewRow(t, status, e)
    BY <2>1, <2>2, <2>4 DEF NewRow, IInv, TypeOK
  <2>6. CASE status = "QUEUED"
    <3> DEFINE new == [tasks[t] EXCEPT !.phase = "dispatch", !.execution = e]
    <3>1. new \in TaskState /\ new.phase = "dispatch" /\ new.execution = e
      BY <2>2, <2>3 DEF TaskState
    <3>2. Becomes(t, new) BY <2>1, <2>6, <3>1, TaskBecomes DEF IInv
    <3> QED BY <2>2, <2>5, <2>6, <3>1, <3>2 DEF Becomes
  <2>7. CASE status # "QUEUED"
    <3>1. Becomes(t, NoTask) BY <2>1, <2>7, TaskBecomes, NoTaskType DEF IInv
    <3> QED BY <2>2, <2>5, <2>7, <3>1
  <2> QED BY <2>6, <2>7
<1> QED BY <1>1, <1>2 DEF NewExecution

\* The execution e is linked to the action that the task t sent for it.
LinkedTo(t, e) ==
  /\ executions' \in [Execution -> ExecutionRow]
  /\ executions'[e].status = "EXECUTING" /\ executions'[e].action = <<e, t>>
  /\ executions'[e].alert = executions[e].alert /\ executions'[e].auto = executions[e].auto
  /\ executions'[e].age = executions[e].age
  /\ \A f \in Execution : f # e => executions'[f] = executions[f]

LEMMA LinkIs ==
  ASSUME IInv, NEW t \in Task, Link(t), tasks[t].execution \in Execution
  PROVE  LinkedTo(t, tasks[t].execution)
<1> DEFINE e == tasks[t].execution
           new == [executions[e] EXCEPT !.status = "EXECUTING", !.action = <<e, t>>]
<1>1. executions' = [executions EXCEPT ![e] = new] BY DEF Link
<1>2. executions[e] \in ExecutionRow BY DEF IInv, TypeOK
<1>3. new \in ExecutionRow BY <1>2, ActionIsSome DEF ExecutionRow, InProgress
<1>4. new.status = "EXECUTING" /\ new.action = <<e, t>> /\ new.alert = executions[e].alert
      /\ new.auto = executions[e].auto /\ new.age = executions[e].age
  BY <1>2 DEF ExecutionRow
<1> QED BY <1>1, <1>3, <1>4 DEF IInv, TypeOK, LinkedTo

-----------------------------------------------------------------------------
(* IInv is inductive                                                        *)

LEMMA InitIInv == Init => IInv
<1> SUFFICES ASSUME Init PROVE IInv
  OBVIOUS
<1>1. TypeOK
  <2>1. NoExecution \in ExecutionRow BY DEF NoExecution, ExecutionRow
  <2>2. executions \in [Execution -> ExecutionRow] /\ tasks \in [Task -> TaskState]
    BY <2>1, NoTaskType DEF Init
  <2>3. rule \in [exists : BOOLEAN, enabled : BOOLEAN, mode : Mode]
    <3>1. PICK m \in Mode : rule = [exists |-> TRUE, enabled |-> TRUE, mode |-> m] BY DEF Init
    <3> QED BY <3>1
  <2> QED BY LimitsAssumption, <2>2, <2>3 DEF Init, TypeOK
<1>2. \A e \in Execution : RowLinks(e) BY DEF Init, RowLinks, NoExecution
<1>3. \A x \in RemoteAction : ActionLinks(x) BY ActionIsSome DEF Init, ActionLinks, Linking, NoTask
<1>4. \A t \in Task : TaskLinks(t) BY DEF Init, TaskLinks, NoTask, At
<1> QED BY <1>1, <1>2, <1>3, <1>4, Parts

LEMMA Configured ==
  ASSUME IInv, NEW new \in [exists : BOOLEAN, enabled : BOOLEAN, mode : Mode], Configure(new)
  PROVE  IInv'
<1> USE DEF followVars, ghostVars
<1>1. TypeOK'
  BY LimitsAssumption
  DEF IInv, LinksOK, TypeOK, ExecutionRow, TaskState, InProgress, Mode, Configure, Incident
<1>2. \A f \in Execution : RowLinks(f)'
  BY ActionIsSome
  DEF IInv, LinksOK, TypeOK, ExecutionRow, RowLinks, Unsent, InProgress, Configure, Incident
<1>3. \A y \in RemoteAction : ActionLinks(y)'
  BY ActionIsSome
  DEF IInv, LinksOK, TypeOK, ActionLinks, Linking, Unsent, At, InProgress, Configure, Incident
<1>4. \A u \in Task : TaskLinks(u)'
  BY ExecutionOfTask, AlertAssumption
  DEF IInv, LinksOK, TypeOK, TaskLinks, Unsent, At, InProgress, Configure, Incident
<1> QED BY <1>1, <1>2, <1>3, <1>4, Parts

LEMMA Seeded ==
  ASSUME IInv, Seed
  PROVE  IInv'
<1> USE DEF followVars, ghostVars
<1>1. TypeOK'
  BY LimitsAssumption
  DEF IInv, LinksOK, TypeOK, ExecutionRow, TaskState, InProgress, Mode, Seed
<1>2. \A f \in Execution : RowLinks(f)'
  BY ActionIsSome
  DEF IInv, LinksOK, TypeOK, ExecutionRow, RowLinks, Unsent, InProgress, Seed
<1>3. \A y \in RemoteAction : ActionLinks(y)'
  BY ActionIsSome
  DEF IInv, LinksOK, TypeOK, ActionLinks, Linking, Unsent, At, InProgress, Seed
<1>4. \A u \in Task : TaskLinks(u)'
  BY ExecutionOfTask, AlertAssumption
  DEF IInv, LinksOK, TypeOK, TaskLinks, Unsent, At, InProgress, Seed
<1> QED BY <1>1, <1>2, <1>3, <1>4, Parts

LEMMA HandedOver ==
  ASSUME IInv, NEW t \in Task, NEW a \in Alert, HandOver(t, a)
  PROVE  IInv'
<1> USE DEF followVars, ghostVars
<1>1. TypeOK'
  BY LimitsAssumption
  DEF IInv, LinksOK, TypeOK, ExecutionRow, TaskState, InProgress, Mode, HandOver, NoTask
<1>2. \A f \in Execution : RowLinks(f)'
  BY ActionIsSome
  DEF IInv, LinksOK, TypeOK, ExecutionRow, RowLinks, Unsent, InProgress, HandOver, NoTask
<1>3. \A y \in RemoteAction : ActionLinks(y)'
  BY ActionIsSome
  DEF IInv, LinksOK, TypeOK, ActionLinks, Linking, Unsent, At, InProgress, HandOver, NoTask
<1>4. \A u \in Task : TaskLinks(u)'
  BY ExecutionOfTask, AlertAssumption
  DEF IInv, LinksOK, TypeOK, TaskLinks, Unsent, At, InProgress, HandOver, NoTask
<1> QED BY <1>1, <1>2, <1>3, <1>4, Parts

LEMMA Checked ==
  ASSUME IInv, NEW t \in Task, TaskCheck(t)
  PROVE  IInv'
<1> USE DEF followVars, ghostVars
<1>a. TaskAt(t, "cool") => Moved(t, "cool") BY TaskAtIs DEF IInv, Phase
<1>b. TaskAt(t, "break") => Moved(t, "break") BY TaskAtIs DEF IInv, Phase
<1>e. TaskEnds(t) => Becomes(t, NoTask) BY TaskEndsIs DEF IInv
<1>1. TypeOK'
  BY <1>a, <1>b, <1>e, NoTaskType, LimitsAssumption
  DEF IInv, LinksOK, TypeOK, ExecutionRow, TaskState, InProgress, Mode, TaskCheck, Moved,
      Becomes
<1>2. \A f \in Execution : RowLinks(f)'
  BY <1>a, <1>b, <1>e, NoTaskType, ActionIsSome
  DEF IInv, LinksOK, TypeOK, ExecutionRow, RowLinks, Unsent, InProgress, TaskCheck, Moved,
      Becomes
<1>3. \A y \in RemoteAction : ActionLinks(y)'
  BY <1>a, <1>b, <1>e, NoTaskType, ActionIsSome
  DEF IInv, LinksOK, TypeOK, ActionLinks, Linking, Unsent, At, InProgress, TaskCheck, Moved,
      Becomes
<1>4. \A u \in Task : TaskLinks(u)'
  BY <1>a, <1>b, <1>e, NoTaskType, ExecutionOfTask, AlertAssumption
  DEF IInv, LinksOK, TypeOK, TaskLinks, Unsent, At, InProgress, TaskCheck, Moved, Becomes
<1> QED BY <1>1, <1>2, <1>3, <1>4, Parts

LEMMA Cooled ==
  ASSUME IInv, NEW t \in Task, TaskCool(t)
  PROVE  IInv'
<1> USE DEF followVars, ghostVars
<1>a. TaskAt(t, "create") => Moved(t, "create") BY TaskAtIs DEF IInv, Phase
<1>e. TaskEnds(t) => Becomes(t, NoTask) BY TaskEndsIs DEF IInv
<1>1. TypeOK'
  <2>1. \A u \in Task : tasks[u].phase = "create" => tasks[u].alert \in Alert BY AlertOfTask
  <2>2. overlapped' \subseteq Alert BY <2>1 DEF TaskCool, IInv, TypeOK
  <2> QED BY <1>a, <1>e, <2>2 DEF IInv, TypeOK, TaskCool, Moved, Becomes, followVars
<1>2. \A f \in Execution : RowLinks(f)'
  BY <1>a, <1>e, NoTaskType, ActionIsSome
  DEF IInv, LinksOK, TypeOK, ExecutionRow, RowLinks, Unsent, InProgress, TaskCool, Moved,
      Becomes
<1>3. \A y \in RemoteAction : ActionLinks(y)'
  BY <1>a, <1>e, NoTaskType, ActionIsSome
  DEF IInv, LinksOK, TypeOK, ActionLinks, Linking, Unsent, At, InProgress, TaskCool, Moved,
      Becomes
<1>4. \A u \in Task : TaskLinks(u)'
  BY <1>a, <1>e, NoTaskType, ExecutionOfTask, AlertAssumption
  DEF IInv, LinksOK, TypeOK, TaskLinks, Unsent, At, InProgress, TaskCool, Moved, Becomes
<1> QED BY <1>1, <1>2, <1>3, <1>4, Parts

LEMMA NewExecuted ==
  ASSUME IInv, NEW t \in Task, NEW status \in {"QUEUED", "PENDING_APPROVAL", "CIRCUIT_BROKEN"},
         NewExecution(t, status),
         UNCHANGED <<rule, actions, followVars, ghostVars, configs, faults>>
  PROVE  IInv'
<1> USE DEF followVars, ghostVars
<1>0. CASE UNCHANGED executions /\ Becomes(t, NoTask)
  <2>1. TypeOK' BY <1>0 DEF IInv, TypeOK, Becomes
  <2>2. \A f \in Execution : RowLinks(f)' BY <1>0 DEF IInv, LinksOK, RowLinks
  <2>3. \A y \in RemoteAction : ActionLinks(y)'
    BY <1>0, ActionIsSome, NoTaskType DEF IInv, LinksOK, ActionLinks, Linking, Becomes
  <2>4. \A u \in Task : TaskLinks(u)'
    BY <1>0, NoTaskType DEF IInv, LinksOK, TaskLinks, At, Becomes
  <2> QED BY <2>1, <2>2, <2>3, <2>4, Parts
<1>1. ASSUME NEW e \in Execution, NewRow(t, status, e),
             \/ /\ status = "QUEUED" /\ tasks' \in [Task -> TaskState]
                /\ tasks'[t].phase = "dispatch" /\ tasks'[t].execution = e
                /\ \A u \in Task : u # t => tasks'[u] = tasks[u]
             \/ status # "QUEUED" /\ Becomes(t, NoTask)
      PROVE  IInv'
  <2>1. TypeOK' BY <1>1 DEF IInv, TypeOK, Becomes, NewRow
  <2>2. \A f \in Execution : RowLinks(f)' BY <1>1 DEF IInv, LinksOK, RowLinks, NewRow
  <2>0. \A u \in Task : actions[<<e, u>>] = "absent"
    BY <1>1, ActionIsSome DEF IInv, LinksOK, NewRow, Unsent
  <2>3. \A y \in RemoteAction : ActionLinks(y)'
    BY <1>1, <2>0, ActionIsSome, NoTaskType
    DEF IInv, LinksOK, ActionLinks, Linking, Becomes, NewRow, Unsent
  <2>4. \A u \in Task : TaskLinks(u)'
    BY <1>1, <2>0, NoTaskType, ExecutionOfTask
    DEF IInv, LinksOK, TaskLinks, At, Unsent, Becomes, NewRow, Execution
  <2> QED BY <2>1, <2>2, <2>3, <2>4, Parts
<1> QED BY <1>0, <1>1, NewExecutionIs

LEMMA ApprovalRead ==
  ASSUME IInv, NEW t \in Task, NEW e \in Execution, ApproveRead(t, e)
  PROVE  IInv'
<1> USE DEF followVars, ghostVars
<1>0. PICK new \in TaskState : new.phase = "approve" /\ new.execution = e /\ Becomes(t, new)
  <2>1. [NoTask EXCEPT !.phase = "approve", !.execution = e] \in TaskState BY DEF NoTask, TaskState
  <2> QED BY <2>1, TaskBecomes DEF ApproveRead, IInv, NoTask
<1>1. TypeOK'
  BY <1>0, LimitsAssumption
  DEF IInv, LinksOK, TypeOK, ExecutionRow, TaskState, InProgress, Mode, ApproveRead, Becomes
<1>2. \A f \in Execution : RowLinks(f)'
  BY <1>0, ActionIsSome
  DEF IInv, LinksOK, TypeOK, ExecutionRow, RowLinks, Unsent, InProgress, ApproveRead, Becomes
<1>3. \A y \in RemoteAction : ActionLinks(y)'
  BY <1>0, ActionIsSome
  DEF IInv, LinksOK, TypeOK, ActionLinks, Linking, Unsent, At, InProgress, ApproveRead, Becomes
<1>4. \A u \in Task : TaskLinks(u)'
  <2>1. e # 0 BY DEF Execution
  <2> QED BY <1>0, <2>1, ActionIsSome DEF IInv, LinksOK, TaskLinks, At, Unsent, ApproveRead, Becomes
<1> QED BY <1>1, <1>2, <1>3, <1>4, Parts

LEMMA ApprovalWritten ==
  ASSUME IInv, NEW t \in Task, ApproveWrite(t)
  PROVE  IInv'
<1> USE DEF followVars, ghostVars
<1>a. TaskAt(t, "dispatch") => Moved(t, "dispatch") BY TaskAtIs DEF IInv, Phase
<1>x. tasks[t].execution \in Execution BY ExecutionOfTask DEF ApproveWrite, At
<1>r. Rewritten(tasks[t].execution, "QUEUED")
  BY <1>x, StatusWritten DEF IInv, ApproveWrite, RowStatus, InProgress
<1>1. TypeOK'
  BY <1>a, <1>x, <1>r, LimitsAssumption
  DEF IInv, LinksOK, TypeOK, ExecutionRow, TaskState, InProgress, Mode, ApproveWrite, Moved,
      Rewritten
<1>2. \A f \in Execution : RowLinks(f)'
  BY <1>a, <1>x, <1>r, ActionIsSome
  DEF IInv, LinksOK, TypeOK, ExecutionRow, RowLinks, Unsent, InProgress, ApproveWrite, Moved,
      Rewritten
<1>3. \A y \in RemoteAction : ActionLinks(y)'
  BY <1>a, <1>x, <1>r, ActionIsSome
  DEF IInv, LinksOK, TypeOK, ActionLinks, Linking, Unsent, At, InProgress, ApproveWrite, Moved,
      Rewritten
<1>4. \A u \in Task : TaskLinks(u)'
  BY <1>a, <1>x, <1>r, ExecutionOfTask, AlertAssumption
  DEF IInv, LinksOK, TypeOK, TaskLinks, Unsent, At, InProgress, ApproveWrite, Moved, Rewritten
<1> QED BY <1>1, <1>2, <1>3, <1>4, Parts

LEMMA Dispatched ==
  ASSUME IInv, NEW t \in Task, Dispatch(t)
  PROVE  IInv'
<1> USE DEF followVars, ghostVars
<1>a. TaskAt(t, "link") => Moved(t, "link") BY TaskAtIs DEF IInv, Phase
<1>x. tasks[t].execution \in Execution BY ExecutionOfTask DEF Dispatch, At
<1>1. TypeOK'
  BY <1>a, <1>x, LimitsAssumption
  DEF IInv, LinksOK, TypeOK, ExecutionRow, TaskState, InProgress, Mode, Dispatch, Moved
<1>2. \A f \in Execution : RowLinks(f)'
  BY <1>a, <1>x, ActionIsSome
  DEF IInv, LinksOK, TypeOK, ExecutionRow, RowLinks, Unsent, InProgress, Dispatch, Moved
<1>3. \A y \in RemoteAction : ActionLinks(y)'
  <2> SUFFICES ASSUME NEW y \in RemoteAction PROVE ActionLinks(y)'
    OBVIOUS
  <2>1. CASE y = <<tasks[t].execution, t>>
    <3>1. actions[y] \notin {"good", "bad", "abandoned"} => y \notin completing \cup closing
      BY DEF IInv, LinksOK
    <3> QED BY <1>a, <1>x, <2>1, <3>1, ActionIsSome, ExecutionOfTask
        DEF IInv, LinksOK, TypeOK, ActionLinks, Linking, At, Unsent, Dispatch, Moved, followVars
  <2>2. CASE y # <<tasks[t].execution, t>>
    <3>1. actions'[y] = actions[y] BY <2>2 DEF IInv, TypeOK, Dispatch
    <3>2. Linking(y)' => Linking(y)
      BY <1>a, <2>2, ActionIsSome DEF Dispatch, Moved, Linking
    <3> QED BY <2>2, <3>1, <3>2 DEF IInv, LinksOK, ActionLinks, Dispatch, followVars
  <2> QED BY <2>1, <2>2
<1>4. \A u \in Task : TaskLinks(u)'
  BY <1>a, <1>x, ExecutionOfTask, AlertAssumption
  DEF IInv, LinksOK, TypeOK, TaskLinks, Unsent, At, InProgress, Dispatch, Moved
<1> QED BY <1>1, <1>2, <1>3, <1>4, Parts

LEMMA DispatchFailed ==
  ASSUME IInv, NEW t \in Task, DispatchFails(t)
  PROVE  IInv'
<1> USE DEF followVars, ghostVars
<1>e. TaskEnds(t) => Becomes(t, NoTask) BY TaskEndsIs DEF IInv
<1>x. tasks[t].execution \in Execution BY ExecutionOfTask DEF DispatchFails, At
<1>r. Rewritten(tasks[t].execution, "FAILED")
  BY <1>x, StatusWritten DEF IInv, DispatchFails, RowStatus, InProgress
<1>1. TypeOK'
  BY <1>e, <1>x, <1>r, NoTaskType, LimitsAssumption
  DEF IInv, LinksOK, TypeOK, ExecutionRow, TaskState, InProgress, Mode, DispatchFails, Incident,
      Becomes, Rewritten
<1>2. \A f \in Execution : RowLinks(f)'
  BY <1>e, <1>x, <1>r, NoTaskType, ActionIsSome
  DEF IInv, LinksOK, TypeOK, ExecutionRow, RowLinks, Unsent, InProgress, DispatchFails,
      Incident, Becomes, Rewritten
<1>3. \A y \in RemoteAction : ActionLinks(y)'
  BY <1>e, <1>x, <1>r, NoTaskType, ActionIsSome
  DEF IInv, LinksOK, TypeOK, ActionLinks, Linking, Unsent, At, InProgress, DispatchFails,
      Incident, Becomes, Rewritten
<1>4. \A u \in Task : TaskLinks(u)'
  BY <1>e, <1>x, <1>r, NoTaskType, ExecutionOfTask, AlertAssumption
  DEF IInv, LinksOK, TypeOK, TaskLinks, Unsent, At, InProgress, DispatchFails, Incident,
      Becomes, Rewritten
<1> QED BY <1>1, <1>2, <1>3, <1>4, Parts

LEMMA LinkWritten ==
  ASSUME IInv, NEW t \in Task, Link(t)
  PROVE  IInv'
<1> USE DEF followVars, ghostVars
<1>e. TaskEnds(t) => Becomes(t, NoTask) BY TaskEndsIs DEF IInv
<1>x. tasks[t].execution \in Execution BY ExecutionOfTask DEF Link, At
<1>r. LinkedTo(t, tasks[t].execution) BY <1>x, LinkIs
<1>1. TypeOK'
  BY <1>e, <1>x, <1>r, NoTaskType, LimitsAssumption
  DEF IInv, LinksOK, TypeOK, ExecutionRow, TaskState, InProgress, Mode, LinkedTo, Link, Becomes
<1>2. \A f \in Execution : RowLinks(f)'
  <2> SUFFICES ASSUME NEW f \in Execution PROVE RowLinks(f)'
    OBVIOUS
  <2>1. CASE f = tasks[t].execution
    <3>1. actions[<<f, t>>] # "absent" BY <1>x, <2>1, ActionIsSome DEF IInv, LinksOK, Linking, Link
    <3> QED BY <1>r, <2>1, <3>1, ActionIsSome DEF RowLinks, Link, LinkedTo
  <2>2. CASE f # tasks[t].execution
    BY <1>r, <2>2 DEF IInv, LinksOK, RowLinks, Link, LinkedTo
  <2> QED BY <2>1, <2>2
<1>3. \A y \in RemoteAction : ActionLinks(y)'
  BY <1>e, <1>x, <1>r, NoTaskType, ActionIsSome
  DEF IInv, LinksOK, TypeOK, ActionLinks, Linking, Unsent, At, InProgress, LinkedTo, Link,
      Becomes
<1>4. \A u \in Task : TaskLinks(u)'
  <2> SUFFICES ASSUME NEW u \in Task PROVE TaskLinks(u)'
    OBVIOUS
  <2>1. CASE u = t BY <1>e, <2>1 DEF Link, Becomes, TaskLinks, At, NoTask
  <2>2. CASE u # t
    <3>1. tasks'[u] = tasks[u] BY <1>e, <2>2 DEF Link, Becomes
    <3>2. At(u, {"approve", "dispatch", "link"}) => tasks[u].execution \in Execution
      BY ExecutionOfTask
    <3> QED BY <1>r, <1>x, <3>1, <3>2 DEF IInv, LinksOK, TaskLinks, At, Unsent, Link, LinkedTo
  <2> QED BY <2>1, <2>2
<1> QED BY <1>1, <1>2, <1>3, <1>4, Parts

LEMMA Reported ==
  ASSUME IInv, NEW x \in RemoteAction, ActionReports(x)
  PROVE  IInv'
<1> USE DEF followVars, ghostVars
<1>1. TypeOK'
  BY LimitsAssumption
  DEF IInv, LinksOK, TypeOK, ExecutionRow, TaskState, InProgress, Mode, ActionReports
<1>2. \A f \in Execution : RowLinks(f)'
  BY ActionIsSome
  DEF IInv, LinksOK, TypeOK, ExecutionRow, RowLinks, Unsent, InProgress, ActionReports
<1>3. \A y \in RemoteAction : ActionLinks(y)'
  BY ActionIsSome
  DEF IInv, LinksOK, TypeOK, ActionLinks, Linking, Unsent, At, InProgress, ActionReports
<1>4. \A u \in Task : TaskLinks(u)'
  BY ExecutionOfTask, AlertAssumption
  DEF IInv, LinksOK, TypeOK, TaskLinks, Unsent, At, InProgress, ActionReports
<1> QED BY <1>1, <1>2, <1>3, <1>4, Parts

LEMMA Withdrawn ==
  ASSUME IInv, NEW x \in RemoteAction, ActionWithdrawn(x)
  PROVE  IInv'
<1> USE DEF followVars, ghostVars
<1>1. TypeOK'
  BY LimitsAssumption
  DEF IInv, LinksOK, TypeOK, ExecutionRow, TaskState, InProgress, Mode, ActionWithdrawn
<1>2. \A f \in Execution : RowLinks(f)'
  BY ActionIsSome
  DEF IInv, LinksOK, TypeOK, ExecutionRow, RowLinks, Unsent, InProgress, ActionWithdrawn
<1>3. \A y \in RemoteAction : ActionLinks(y)'
  BY ActionIsSome
  DEF IInv, LinksOK, TypeOK, ActionLinks, Linking, Unsent, At, InProgress, ActionWithdrawn
<1>4. \A u \in Task : TaskLinks(u)'
  BY ExecutionOfTask, AlertAssumption
  DEF IInv, LinksOK, TypeOK, TaskLinks, Unsent, At, InProgress, ActionWithdrawn
<1> QED BY <1>1, <1>2, <1>3, <1>4, Parts

LEMMA Abandoned ==
  ASSUME IInv, NEW x \in RemoteAction, ActionAbandoned(x)
  PROVE  IInv'
<1> USE DEF followVars, ghostVars
<1>1. TypeOK'
  BY LimitsAssumption
  DEF IInv, LinksOK, TypeOK, ExecutionRow, TaskState, InProgress, Mode, ActionAbandoned
<1>2. \A f \in Execution : RowLinks(f)'
  BY ActionIsSome
  DEF IInv, LinksOK, TypeOK, ExecutionRow, RowLinks, Unsent, InProgress, ActionAbandoned
<1>3. \A y \in RemoteAction : ActionLinks(y)'
  BY ActionIsSome
  DEF IInv, LinksOK, TypeOK, ActionLinks, Linking, Unsent, At, InProgress, ActionAbandoned
<1>4. \A u \in Task : TaskLinks(u)'
  BY ExecutionOfTask, AlertAssumption
  DEF IInv, LinksOK, TypeOK, TaskLinks, Unsent, At, InProgress, ActionAbandoned
<1> QED BY <1>1, <1>2, <1>3, <1>4, Parts

LEMMA Closed ==
  ASSUME IInv, NEW x \in RemoteAction, CloseAbandoned(x)
  PROVE  IInv'
<1> USE DEF followVars, ghostVars
<1>r. RowsEnd(Linked(x)) BY DEF RowsEnd, IInv, TypeOK, ExecutionRow, CloseAbandoned
<1>1. TypeOK'
  BY <1>r, LimitsAssumption
  DEF IInv, LinksOK, TypeOK, ExecutionRow, TaskState, InProgress, Mode, CloseAbandoned, RowsEnd
<1>2. \A f \in Execution : RowLinks(f)'
  BY <1>r, ActionIsSome
  DEF IInv, LinksOK, TypeOK, ExecutionRow, RowLinks, Unsent, InProgress, CloseAbandoned, RowsEnd
<1>3. \A y \in RemoteAction : ActionLinks(y)'
  BY <1>r, ActionIsSome
  DEF IInv, LinksOK, TypeOK, ActionLinks, Linking, Unsent, At, InProgress, CloseAbandoned,
      RowsEnd
<1>4. \A u \in Task : TaskLinks(u)'
  BY <1>r, ExecutionOfTask DEF RowsEnd, IInv, LinksOK, TaskLinks, At, Unsent, CloseAbandoned
<1> QED BY <1>1, <1>2, <1>3, <1>4, Parts

LEMMA Completed ==
  ASSUME IInv, NEW x \in RemoteAction, Complete(x)
  PROVE  IInv'
<1> USE DEF followVars, ghostVars
<1>r. RowsEnd(Linked(x)) BY DEF RowsEnd, IInv, TypeOK, ExecutionRow, Complete
<1>1. TypeOK'
  BY <1>r, LimitsAssumption
  DEF IInv, LinksOK, TypeOK, ExecutionRow, TaskState, InProgress, Mode, Complete, RowsEnd
<1>2. \A f \in Execution : RowLinks(f)'
  BY <1>r, ActionIsSome
  DEF IInv, LinksOK, TypeOK, ExecutionRow, RowLinks, Unsent, InProgress, Complete, RowsEnd
<1>3. \A y \in RemoteAction : ActionLinks(y)'
  BY <1>r, ActionIsSome
  DEF IInv, LinksOK, TypeOK, ActionLinks, Linking, Unsent, At, InProgress, Complete, RowsEnd
<1>4. \A u \in Task : TaskLinks(u)'
  BY <1>r, ExecutionOfTask DEF RowsEnd, IInv, LinksOK, TaskLinks, At, Unsent, Complete
<1> QED BY <1>1, <1>2, <1>3, <1>4, Parts

LEMMA Aged ==
  ASSUME IInv, NEW e \in Execution, Ages(e)
  PROVE  IInv'
<1> USE DEF followVars, ghostVars
<1>r. /\ executions' \in [Execution -> ExecutionRow]
      /\ executions'[e].status = executions[e].status
      /\ executions'[e].action = executions[e].action
      /\ executions[e].status # "ABSENT"
      /\ \A f \in Execution : f # e => executions'[f] = executions[f]
  <2>1. executions[e] \in ExecutionRow BY DEF IInv, TypeOK
  <2>2. executions[e].status # "ABSENT" BY DEF IInv, LinksOK, Ages, NoExecution
  <2> QED BY <2>1, <2>2 DEF IInv, TypeOK, Ages, ExecutionRow
<1>1. TypeOK'
  BY <1>r, LimitsAssumption
  DEF IInv, LinksOK, TypeOK, ExecutionRow, TaskState, InProgress, Mode, Ages
<1>2. \A f \in Execution : RowLinks(f)'
  BY <1>r, ActionIsSome
  DEF IInv, LinksOK, TypeOK, ExecutionRow, RowLinks, Unsent, InProgress, Ages
<1>3. \A y \in RemoteAction : ActionLinks(y)'
  BY <1>r, ActionIsSome
  DEF IInv, LinksOK, TypeOK, ActionLinks, Linking, Unsent, At, InProgress, Ages
<1>4. \A u \in Task : TaskLinks(u)'
  BY <1>r, ExecutionOfTask, AlertAssumption
  DEF IInv, LinksOK, TypeOK, TaskLinks, Unsent, At, InProgress, Ages
<1> QED BY <1>1, <1>2, <1>3, <1>4, Parts

LEMMA Restarted ==
  ASSUME IInv, ServerRestart
  PROVE  IInv'
<1> USE DEF followVars, ghostVars
<1>1. TypeOK'
  BY LimitsAssumption
  DEF IInv, LinksOK, TypeOK, ExecutionRow, TaskState, InProgress, Mode, ServerRestart, Incident,
      NoTask
<1>2. \A f \in Execution : RowLinks(f)'
  BY ActionIsSome
  DEF IInv, LinksOK, TypeOK, ExecutionRow, RowLinks, Unsent, InProgress, ServerRestart,
      Incident, NoTask
<1>3. \A y \in RemoteAction : ActionLinks(y)'
  BY ActionIsSome
  DEF IInv, LinksOK, TypeOK, ActionLinks, Linking, Unsent, At, InProgress, ServerRestart,
      Incident, NoTask
<1>4. \A u \in Task : TaskLinks(u)'
  BY ExecutionOfTask, AlertAssumption
  DEF IInv, LinksOK, TypeOK, TaskLinks, Unsent, At, InProgress, ServerRestart, Incident, NoTask
<1> QED BY <1>1, <1>2, <1>3, <1>4, Parts

LEMMA NextIInv ==
  ASSUME IInv, [Next]_vars
  PROVE  IInv'
<1>1. CASE UNCHANGED vars
  BY <1>1 DEF vars, followVars, ghostVars, IInv, TypeOK, LinksOK, Linking, At
<1>2. CASE Toggle \/ ConfigureRemediation \/ DeleteRule
  <2>1. rule \in [exists : BOOLEAN, enabled : BOOLEAN, mode : Mode] BY DEF IInv, TypeOK
  <2> QED BY <1>2, <2>1, Configured DEF Toggle, ConfigureRemediation, DeleteRule
<1>3. CASE Seed BY <1>3, Seeded
<1>4. ASSUME NEW t \in Task, TaskStep(t) PROVE IInv'
  <2>1. CASE TaskBreak(t) BY <2>1, NewExecuted DEF TaskBreak
  <2>2. CASE TaskCreate(t) BY <2>2, NewExecuted DEF TaskCreate
  <2> QED BY <1>4, <2>1, <2>2, Checked, Cooled, ApprovalWritten, Dispatched, LinkWritten
          DEF TaskStep
<1>5. ASSUME NEW t \in Task, DispatchFails(t) PROVE IInv' BY <1>5, DispatchFailed
<1>6. ASSUME NEW t \in Task, NEW a \in Alert, HandOver(t, a) PROVE IInv' BY <1>6, HandedOver
<1>7. ASSUME NEW t \in Task, NEW e \in Execution, ApproveRead(t, e) PROVE IInv'
  BY <1>7, ApprovalRead
<1>8. ASSUME NEW x \in RemoteAction, ActionStep(x) PROVE IInv'
  BY <1>8, Reported, Withdrawn, Abandoned, Closed, Completed DEF ActionStep
<1>9. ASSUME NEW e \in Execution, Ages(e) PROVE IInv' BY <1>9, Aged
<1>10. CASE ServerRestart BY <1>10, Restarted
<1> QED BY <1>1, <1>2, <1>3, <1>4, <1>5, <1>6, <1>7, <1>8, <1>9, <1>10 DEF Next

\* Whatever overlaps, restarts and fails: rows, actions, tasks and follow-ups are what the code
\* assumes of each other, and no task sends an action twice or before it may be sent.
THEOREM TablesConsistent == Spec => []IInv
BY InitIInv, NextIInv, PTL DEF Spec

-----------------------------------------------------------------------------
(* Every action is authorised                                               *)

Serving == {"approve", "dispatch", "link"}

\* The tasks that have sent an action for e, or are on their way to.
Engaged(e) == {t \in Task : \/ actions[<<e, t>>] # "absent"
                            \/ At(t, Serving) /\ tasks[t].execution = e}

Authorised(e) ==
  IF executions[e].auto
  THEN executions[e].status # "PENDING_APPROVAL" /\ \A t, u \in Engaged(e) : t = u
  ELSE \A t \in Engaged(e) : <<e, t>> \in approvals

AInv == IInv /\ \A e \in Execution : Authorised(e)

\* A step that engages no task with e and leaves its kind alone.
Calm(e) ==
  /\ executions'[e].auto = executions[e].auto
  /\ executions'[e].status = "PENDING_APPROVAL" => executions[e].status = "PENDING_APPROVAL"
  /\ \A t \in Engaged(e)' : t \in Engaged(e)

LEMMA AuthorisedKept ==
  ASSUME NEW e \in Execution, Authorised(e), Calm(e), approvals \subseteq approvals'
  PROVE  Authorised(e)'
BY DEF Authorised, Calm

\* Steps that touch neither what was sent nor the tasks that serve an execution.
LEMMA CalmIfUntouched ==
  ASSUME NEW e \in Execution, UNCHANGED <<executions, actions>>,
         \A t \in Task : At(t, Serving)' => At(t, Serving) /\ tasks'[t] = tasks[t]
  PROVE  Calm(e)
BY DEF Calm, Engaged, At

LEMMA CalmSteps ==
  ASSUME IInv, NEW e \in Execution,
         \/ Toggle \/ ConfigureRemediation \/ DeleteRule \/ Seed \/ ServerRestart
         \/ UNCHANGED vars
         \/ \E t \in Task : \/ TaskCheck(t) \/ TaskCool(t) \/ ApproveWrite(t) \/ Dispatch(t)
                            \/ Link(t) \/ DispatchFails(t) \/ \E a \in Alert : HandOver(t, a)
         \/ \E x \in RemoteAction : ActionStep(x)
         \/ \E f \in Execution : Ages(f)
  PROVE  Calm(e) /\ UNCHANGED approvals
<1> USE DEF followVars, ghostVars
<1>1. CASE Toggle \/ ConfigureRemediation \/ DeleteRule \/ Seed \/ UNCHANGED vars
  BY <1>1 DEF Toggle, ConfigureRemediation, DeleteRule, Seed, Configure, vars, Calm, Engaged, At
<1>2. CASE ServerRestart
  BY <1>2, CalmIfUntouched, NoTaskType DEF ServerRestart, At, Serving
<1>3. ASSUME NEW t \in Task, TaskCheck(t) PROVE Calm(e) /\ UNCHANGED approvals
  <2>1. TaskAt(t, "cool") => Moved(t, "cool") BY TaskAtIs DEF IInv, Phase
  <2>2. TaskAt(t, "break") => Moved(t, "break") BY TaskAtIs DEF IInv, Phase
  <2>3. TaskEnds(t) => Becomes(t, NoTask) BY TaskEndsIs DEF IInv
  <2> QED BY <1>3, <2>1, <2>2, <2>3, CalmIfUntouched, NoTaskType
          DEF TaskCheck, Moved, Becomes, At, Serving
<1>4. ASSUME NEW t \in Task, TaskCool(t) PROVE Calm(e) /\ UNCHANGED approvals
  <2>1. TaskAt(t, "create") => Moved(t, "create") BY TaskAtIs DEF IInv, Phase
  <2>3. TaskEnds(t) => Becomes(t, NoTask) BY TaskEndsIs DEF IInv
  <2> QED BY <1>4, <2>1, <2>3, CalmIfUntouched, NoTaskType
          DEF TaskCool, Moved, Becomes, At, Serving
<1>5. ASSUME NEW t \in Task, ApproveWrite(t) PROVE Calm(e) /\ UNCHANGED approvals
  <2>1. Moved(t, "dispatch") BY <1>5, TaskAtIs DEF IInv, Phase, ApproveWrite
  <2>2. tasks[t].execution \in Execution BY <1>5, ExecutionOfTask DEF ApproveWrite, At
  <2>3. Rewritten(tasks[t].execution, "QUEUED")
    BY <1>5, <2>2, StatusWritten DEF IInv, ApproveWrite, RowStatus, InProgress
  <2> QED BY <1>5, <2>1, <2>3 DEF ApproveWrite, Moved, Rewritten, Calm, Engaged, At, Serving
<1>6. ASSUME NEW t \in Task, Dispatch(t) PROVE Calm(e) /\ UNCHANGED approvals
  <2>1. Moved(t, "link") BY <1>6, TaskAtIs DEF IInv, Phase, Dispatch
  <2>2. \A u \in Task : <<e, u>> # <<tasks[t].execution, t>> => actions'[<<e, u>>] = actions[<<e, u>>]
    BY <1>6, ActionIsSome DEF Dispatch, IInv, TypeOK
  <2>3. \A u \in Task : u \in Engaged(e)' => u \in Engaged(e)
    <3> SUFFICES ASSUME NEW u \in Task, u \in Engaged(e)' PROVE u \in Engaged(e)
      OBVIOUS
    <3>1. CASE u = t
      BY <1>6, <2>1, <2>2, <3>1, ActionIsSome DEF Moved, Engaged, At, Serving, Dispatch
    <3>2. CASE u # t
      BY <2>1, <2>2, <3>2, ActionIsSome DEF Moved, Engaged, At, Serving
    <3> QED BY <3>1, <3>2
  <2> QED BY <1>6, <2>3 DEF Dispatch, Calm, Engaged
<1>7. ASSUME NEW t \in Task, Link(t) PROVE Calm(e) /\ UNCHANGED approvals
  <2>1. Becomes(t, NoTask) BY <1>7, TaskEndsIs DEF IInv, Link
  <2>2. tasks[t].execution \in Execution BY <1>7, ExecutionOfTask DEF Link, At
  <2>3. LinkedTo(t, tasks[t].execution) BY <1>7, <2>2, LinkIs
  <2> QED BY <1>7, <2>1, <2>3, NoTaskType DEF Link, Becomes, LinkedTo, Calm, Engaged, At, Serving
<1>8. ASSUME NEW t \in Task, DispatchFails(t) PROVE Calm(e) /\ UNCHANGED approvals
  <2>1. Becomes(t, NoTask) BY <1>8, TaskEndsIs DEF IInv, DispatchFails
  <2>2. tasks[t].execution \in Execution BY <1>8, ExecutionOfTask DEF DispatchFails, At
  <2>3. Rewritten(tasks[t].execution, "FAILED")
    BY <1>8, <2>2, StatusWritten DEF IInv, DispatchFails, RowStatus, InProgress
  <2> QED BY <1>8, <2>1, <2>3, NoTaskType
          DEF DispatchFails, Becomes, Rewritten, Calm, Engaged, At, Serving
<1>9. ASSUME NEW t \in Task, NEW a \in Alert, HandOver(t, a) PROVE Calm(e) /\ UNCHANGED approvals
  BY <1>9, CalmIfUntouched DEF HandOver, IInv, TypeOK, NoTask, At, Serving
<1>10. ASSUME NEW x \in RemoteAction, ActionStep(x) PROVE Calm(e) /\ UNCHANGED approvals
  <2>1. CASE ActionReports(x) \/ ActionWithdrawn(x) \/ ActionAbandoned(x)
    <3>1. \A y \in RemoteAction : actions'[y] # "absent" => actions[y] # "absent"
      BY <2>1 DEF ActionReports, ActionWithdrawn, ActionAbandoned, IInv, TypeOK
    <3> QED BY <2>1, <3>1, ActionIsSome
            DEF ActionReports, ActionWithdrawn, ActionAbandoned, Calm, Engaged, At
  <2>2. CASE CloseAbandoned(x) \/ Complete(x)
    <3>1. RowsEnd(Linked(x))
      BY <2>2 DEF RowsEnd, IInv, TypeOK, ExecutionRow, CloseAbandoned, Complete
    <3> QED BY <2>2, <3>1 DEF CloseAbandoned, Complete, RowsEnd, Calm, Engaged, At
  <2> QED BY <1>10, <2>1, <2>2 DEF ActionStep
<1>11. ASSUME NEW f \in Execution, Ages(f) PROVE Calm(e) /\ UNCHANGED approvals
  BY <1>11 DEF Ages, IInv, TypeOK, ExecutionRow, Calm, Engaged, At
<1> QED BY <1>1, <1>2, <1>3, <1>4, <1>5, <1>6, <1>7, <1>8, <1>9, <1>10, <1>11

\* A new execution engages at most the task that created it, and only if it needs no approval.
LEMMA AuthorisedCreation ==
  ASSUME AInv, NEW t \in Task, TaskCreate(t) \/ TaskBreak(t), NEW e \in Execution
  PROVE  Authorised(e)'
<1> USE DEF followVars, ghostVars
<1>0. PICK status \in {"QUEUED", "PENDING_APPROVAL", "CIRCUIT_BROKEN"} :
        /\ NewExecution(t, status)
        /\ status = "PENDING_APPROVAL" => ~tasks[t].auto
        /\ status = "QUEUED" => tasks[t].auto
        /\ tasks[t].phase \in {"create", "break"}
        /\ UNCHANGED <<actions, approvals>>
  BY DEF TaskCreate, TaskBreak
<1>1. CASE UNCHANGED executions /\ Becomes(t, NoTask)
  <2>1. Calm(e)
    BY <1>0, <1>1, CalmIfUntouched, NoTaskType DEF Becomes, At, Serving
  <2> QED BY <1>0, <2>1, AuthorisedKept DEF AInv
<1>2. ASSUME NEW f \in Execution, NewRow(t, status, f),
             \/ /\ status = "QUEUED" /\ tasks' \in [Task -> TaskState]
                /\ tasks'[t].phase = "dispatch" /\ tasks'[t].execution = f
                /\ \A u \in Task : u # t => tasks'[u] = tasks[u]
             \/ status # "QUEUED" /\ Becomes(t, NoTask)
      PROVE  Authorised(e)'
  <2>1. CASE e = f
    <3>1. \A u \in Task : actions[<<f, u>>] = "absent"
      BY <1>2, ActionIsSome DEF AInv, IInv, LinksOK, NewRow, Unsent
    <3>2. \A u \in Task : ~(At(u, Serving) /\ tasks[u].execution = f)
      BY <1>2, ExecutionOfTask DEF AInv, NewRow, Serving
    <3>3. Engaged(f)' \subseteq {t} /\ (status # "QUEUED" => Engaged(f)' = {})
      BY <1>0, <1>2, <3>1, <3>2, NoTaskType DEF Engaged, At, Serving, Becomes
    <3>4. executions'[f].auto = tasks[t].auto /\ executions'[f].status = status
      BY <1>2 DEF NewRow
    <3>5. tasks[t].auto \in BOOLEAN BY DEF AInv, IInv, TypeOK, TaskState
    <3> QED BY <1>0, <2>1, <3>3, <3>4, <3>5 DEF Authorised
  <2>2. CASE e # f
    <3>1. Calm(e)
      BY <1>0, <1>2, <2>2, NoTaskType DEF NewRow, Calm, Engaged, At, Serving, Becomes
    <3> QED BY <1>0, <3>1, AuthorisedKept DEF AInv
  <2> QED BY <2>1, <2>2
<1>3. IInv BY DEF AInv
<1> QED BY <1>0, <1>1, <1>2, <1>3, NewExecutionIs

\* An approval engages its task with an execution that needed it.
LEMMA AuthorisedApproval ==
  ASSUME AInv, NEW t \in Task, NEW f \in Execution, ApproveRead(t, f), NEW e \in Execution
  PROVE  Authorised(e)'
<1>1. tasks'[t].execution = f /\ tasks'[t].phase = "approve"
      /\ \A u \in Task : u # t => tasks'[u] = tasks[u]
  BY DEF AInv, IInv, TypeOK, ApproveRead, NoTask
<1>2. UNCHANGED <<executions, actions>> /\ approvals' = approvals \cup {<<f, t>>}
  BY DEF ApproveRead
<1>3. CASE e = f
  <2>1. ~executions[f].auto /\ ~executions'[f].auto
    BY <1>2 DEF AInv, Authorised, ApproveRead
  <2>2. \A u \in Engaged(f)' : u \in Engaged(f) \/ u = t
    BY <1>1, <1>2 DEF Engaged, At
  <2> QED BY <1>2, <1>3, <2>1, <2>2 DEF AInv, Authorised
<1>4. CASE e # f
  <2>1. Calm(e) BY <1>1, <1>2, <1>4, NoTaskType DEF Calm, Engaged, At, Serving, ApproveRead
  <2> QED BY <1>2, <2>1, AuthorisedKept DEF AInv
<1> QED BY <1>3, <1>4

LEMMA InitAInv == Init => AInv
<1> SUFFICES ASSUME Init, NEW e \in Execution PROVE Authorised(e)
  BY InitIInv DEF AInv
<1>1. Engaged(e) = {} BY ActionIsSome DEF Init, Engaged, At, Serving, NoTask
<1> QED BY <1>1 DEF Init, Authorised, NoExecution

LEMMA NextAInv ==
  ASSUME AInv, [Next]_vars
  PROVE  AInv'
<1>0. IInv /\ IInv' BY NextIInv DEF AInv
<1> SUFFICES ASSUME NEW e \in Execution PROVE Authorised(e)'
  BY <1>0 DEF AInv
<1>1. CASE \E t \in Task : TaskCreate(t) \/ TaskBreak(t) BY <1>1, AuthorisedCreation
<1>2. CASE \E t \in Task : \E f \in Execution : ApproveRead(t, f) BY <1>2, AuthorisedApproval
<1>3. CASE ~(\E t \in Task : \/ TaskCreate(t) \/ TaskBreak(t)
                            \/ \E f \in Execution : ApproveRead(t, f))
  <2>1. Calm(e) /\ UNCHANGED approvals
    BY <1>0, <1>3, CalmSteps DEF Next, TaskStep
  <2> QED BY <2>1, AuthorisedKept DEF AInv
<1> QED BY <1>1, <1>2, <1>3

\* A set whose elements are all the same has one at most.
LEMMA AtMostOne ==
  ASSUME NEW S, IsFiniteSet(S), \A x, y \in S : x = y
  PROVE  Cardinality(S) <= 1
<1>1. CASE S = {} BY <1>1, FS_EmptySet
<1>2. CASE S # {}
  <2>1. PICK x \in S : TRUE BY <1>2
  <2>2. S = {x} BY <2>1
  <2> QED BY <2>2, FS_Singleton
<1> QED BY <1>1, <1>2

\* However remediations, approvals given twice, restarts and completions overlap: no action goes
\* to a device for an execution that needs an approval before an operator gave one, and an
\* execution that needs none sends one action.
THEOREM ActionsAuthorised == Spec => []EveryActionAuthorised
<1>1. AInv => EveryActionAuthorised
  <2> SUFFICES ASSUME AInv, NEW e \in Execution
               PROVE  Cardinality({t \in Task : actions[<<e, t>>] # "absent"})
                        <= IF executions[e].auto THEN 1 ELSE Approvals(e)
    BY DEF EveryActionAuthorised
  <2> DEFINE S == {t \in Task : actions[<<e, t>>] # "absent"}
             A == {t \in Task : <<e, t>> \in approvals}
  <2>1. S \subseteq Engaged(e) BY DEF Engaged
  <2>2. IsFiniteSet(S) /\ IsFiniteSet(A) BY TaskAssumption, FS_Subset
  <2>3. CASE executions[e].auto
    <3>1. \A t, u \in S : t = u BY <2>1, <2>3 DEF AInv, Authorised
    <3> QED BY <2>2, <2>3, <3>1, AtMostOne
  <2>4. CASE ~executions[e].auto
    <3>1. S \subseteq A BY <2>1, <2>4 DEF AInv, Authorised
    <3> QED BY <2>2, <2>4, <3>1, FS_Subset DEF Approvals
  <2> QED BY <2>3, <2>4
<1> QED BY InitAInv, NextAInv, <1>1, PTL DEF Spec

-----------------------------------------------------------------------------
(* The outcome is shown                                                     *)

Sole(e) == Approvals(e) <= 1

\* While a task serves an execution that is approved once at most, the row waits for it; a row
\* that is linked shows what became of its action, or a follow-up that will write it is due.
Attempt(e) ==
  /\ \A t \in Task : tasks[t].execution = e =>
       /\ tasks[t].phase = "approve" => executions[e].status = "PENDING_APPROVAL"
       /\ tasks[t].phase = "dispatch" =>
            executions[e].status = "QUEUED" /\ executions[e].action = None
       /\ tasks[t].phase = "link" =>
            /\ executions[e].status = "QUEUED" /\ executions[e].action = None
            /\ actions[<<e, t>>] # "abandoned"
            /\ actions[<<e, t>>] \in {"good", "bad"} => <<e, t>> \in completing \cup early
  /\ LET x == executions[e].action IN
     x # None /\ faults = 0 /\ x \notin early =>
       /\ actions[x] = "good" => executions[e].status = "SUCCESS" \/ x \in completing
       /\ actions[x] = "bad" => executions[e].status = "FAILED" \/ x \in completing
       /\ actions[x] = "abandoned" => \/ executions[e].status = "FAILED"
                                      \/ executions[e].status = "EXECUTING" /\ x \in closing
       /\ actions[x] = "open" => executions[e].status = "EXECUTING"

OInv == AInv /\ \A e \in Execution : Sole(e) => Attempt(e)

LEMMA SoleBefore ==
  ASSUME NEW e \in Execution, approvals \subseteq approvals', Sole(e)'
  PROVE  Sole(e)
<1> DEFINE A == {t \in Task : <<e, t>> \in approvals}
           B == {t \in Task : <<e, t>> \in approvals'}
<1>1. IsFiniteSet(B) /\ A \subseteq B BY TaskAssumption, FS_Subset
<1>2. IsFiniteSet(A) /\ Cardinality(A) <= Cardinality(B) BY <1>1, FS_Subset
<1>3. Cardinality(A) \in Nat /\ Cardinality(B) \in Nat BY <1>1, <1>2, FS_CardinalityType
<1>4. Cardinality(B) <= 1 BY DEF Sole, Approvals
<1> QED BY <1>2, <1>3, <1>4 DEF Sole, Approvals

LEMMA Alone ==
  ASSUME NEW S, IsFiniteSet(S), Cardinality(S) <= 1
  PROVE  \A x, y \in S : x = y
<1> SUFFICES ASSUME NEW x \in S, NEW y \in S, x # y PROVE FALSE
  OBVIOUS
<1>1. IsFiniteSet({x}) /\ Cardinality({x}) = 1 BY FS_Singleton
<1>2. Cardinality({x} \cup {y}) = 2 /\ IsFiniteSet({x} \cup {y}) BY <1>1, FS_AddElement
<1>3. Cardinality({x} \cup {y}) <= Cardinality(S) BY FS_Subset, {x} \cup {y} \in SUBSET S
<1>4. Cardinality(S) \in Nat BY FS_CardinalityType
<1> QED BY <1>2, <1>3, <1>4

\* Only one task has to do with an execution that is approved once at most.
LEMMA SoleTask ==
  ASSUME AInv, NEW e \in Execution, Sole(e)
  PROVE  \A t, u \in Engaged(e) : t = u
<1> DEFINE A == {t \in Task : <<e, t>> \in approvals}
<1>1. CASE executions[e].auto BY <1>1 DEF AInv, Authorised
<1>2. CASE ~executions[e].auto
  <2>1. Engaged(e) \subseteq A BY <1>2 DEF AInv, Authorised, Engaged
  <2>2. IsFiniteSet(A) BY TaskAssumption, FS_Subset
  <2>3. \A t, u \in A : t = u BY <2>2, Alone DEF Sole, Approvals
  <2> QED BY <2>1, <2>3
<1> QED BY <1>1, <1>2

\* An execution that is linked to an action is linked to one of its own.
LEMMA LinkOfRow ==
  ASSUME IInv, NEW e \in Execution, executions[e].action # None
  PROVE  /\ executions[e].action \in RemoteAction /\ executions[e].action[1] = e
         /\ executions[e].action[2] \in Task
         /\ executions[e].action = <<e, executions[e].action[2]>>
         /\ executions[e].status \notin Unsent
<1>1. executions[e].action \in RemoteAction BY DEF IInv, TypeOK, ExecutionRow
<1> QED BY <1>1, ActionIsSome DEF IInv, LinksOK

\* Nothing of what the attempt e depends on is touched.
Apart(e) ==
  /\ executions'[e].status = executions[e].status /\ executions'[e].action = executions[e].action
  /\ \A t \in Task :
       /\ actions'[<<e, t>>] = actions[<<e, t>>]
       /\ <<e, t>> \in completing' <=> <<e, t>> \in completing
       /\ <<e, t>> \in closing' <=> <<e, t>> \in closing
       /\ At(t, Serving)' /\ tasks'[t].execution = e => tasks'[t] = tasks[t]
  /\ early \subseteq early' /\ (faults' = 0 => faults = 0)

LEMMA AttemptKept ==
  ASSUME IInv, NEW e \in Execution, Attempt(e), Apart(e)
  PROVE  Attempt(e)'
<1>1. executions[e].action # None => executions[e].action = <<e, executions[e].action[2]>>
                                     /\ executions[e].action[2] \in Task
  BY LinkOfRow
<1> QED BY <1>1 DEF Attempt, Apart, At, Serving

\* Steps of the rule, of the remediations that have no execution yet, and of time.
LEMMA ApartSteps ==
  ASSUME IInv, NEW e \in Execution,
         \/ Toggle \/ ConfigureRemediation \/ DeleteRule \/ Seed \/ UNCHANGED vars
         \/ \E t \in Task : TaskCheck(t) \/ TaskCool(t) \/ \E a \in Alert : HandOver(t, a)
         \/ \E f \in Execution : Ages(f)
  PROVE  Apart(e)
<1> USE DEF followVars, ghostVars
<1>1. CASE Toggle \/ ConfigureRemediation \/ DeleteRule \/ Seed \/ UNCHANGED vars
  BY <1>1 DEF Toggle, ConfigureRemediation, DeleteRule, Seed, Configure, vars, Apart
<1>2. ASSUME NEW t \in Task, TaskCheck(t) PROVE Apart(e)
  <2>1. TaskAt(t, "cool") => Moved(t, "cool") BY TaskAtIs DEF IInv, Phase
  <2>2. TaskAt(t, "break") => Moved(t, "break") BY TaskAtIs DEF IInv, Phase
  <2>3. TaskEnds(t) => Becomes(t, NoTask) BY TaskEndsIs DEF IInv
  <2> QED BY <1>2, <2>1, <2>2, <2>3, NoTaskType
          DEF TaskCheck, Moved, Becomes, At, Serving, Apart
<1>3. ASSUME NEW t \in Task, TaskCool(t) PROVE Apart(e)
  <2>1. TaskAt(t, "create") => Moved(t, "create") BY TaskAtIs DEF IInv, Phase
  <2>2. TaskEnds(t) => Becomes(t, NoTask) BY TaskEndsIs DEF IInv
  <2> QED BY <1>3, <2>1, <2>2, NoTaskType DEF TaskCool, Moved, Becomes, At, Serving, Apart
<1>4. ASSUME NEW t \in Task, NEW a \in Alert, HandOver(t, a) PROVE Apart(e)
  <2>1. ~At(t, Serving)' /\ \A u \in Task : u # t => tasks'[u] = tasks[u]
    BY <1>4 DEF HandOver, IInv, TypeOK, NoTask, At, Serving
  <2> QED BY <1>4, <2>1 DEF HandOver, Apart
<1>5. ASSUME NEW f \in Execution, Ages(f) PROVE Apart(e)
  BY <1>5 DEF Ages, IInv, TypeOK, ExecutionRow, Apart
<1> QED BY <1>1, <1>2, <1>3, <1>4, <1>5

\* What a fault leaves behind: the tasks that go on wait where they waited.
LEMMA AttemptOfFault ==
  ASSUME IInv, NEW e \in Execution, Attempt(e), AInv, Sole(e),
         ServerRestart \/ \E t \in Task : DispatchFails(t)
  PROVE  Attempt(e)'
<1>0. faults' # 0
  <2>1. faults \in 0..MaxIncidents BY DEF IInv, TypeOK
  <2>2. faults' = faults + 1 BY DEF ServerRestart, DispatchFails
  <2> QED BY <2>1, <2>2, LimitsAssumption
<1>1. CASE ServerRestart
  <2>1. \A u \in Task : tasks'[u].phase = "idle" BY <1>1, NoTaskType DEF ServerRestart
  <2> QED BY <1>0, <2>1 DEF Attempt
<1>2. ASSUME NEW t \in Task, DispatchFails(t) PROVE Attempt(e)'
  <2>1. Becomes(t, NoTask) BY <1>2, TaskEndsIs DEF IInv, DispatchFails
  <2>2. tasks[t].execution \in Execution BY <1>2, ExecutionOfTask DEF DispatchFails, At
  <2>3. Rewritten(tasks[t].execution, "FAILED")
    BY <1>2, <2>2, StatusWritten DEF IInv, DispatchFails, RowStatus, InProgress
  <2>4. \A u \in Task : At(u, Serving)' /\ tasks'[u].execution = e =>
          /\ u # t /\ tasks'[u] = tasks[u] /\ u \in Engaged(e)
    BY <2>1, NoTaskType DEF Becomes, At, Serving, Engaged
  <2>5. CASE tasks[t].execution = e
    <3>1. t \in Engaged(e) BY <1>2, <2>5 DEF DispatchFails, Engaged, At, Serving
    <3>2. \A u \in Task : ~(At(u, Serving)' /\ tasks'[u].execution = e)
      BY <2>4, <3>1, SoleTask
    <3> QED BY <1>0, <3>2 DEF Attempt, At, Serving
  <2>6. CASE tasks[t].execution # e
    BY <1>0, <1>2, <2>3, <2>4, <2>6 DEF Attempt, At, Serving, Rewritten, DispatchFails, followVars, ghostVars
  <2> QED BY <2>5, <2>6
<1> QED BY <1>1, <1>2

LEMMA AttemptOfCreation ==
  ASSUME AInv, NEW e \in Execution, Attempt(e), NEW t \in Task, TaskCreate(t) \/ TaskBreak(t)
  PROVE  Attempt(e)'
<1> USE DEF followVars, ghostVars
<1>i. IInv BY DEF AInv
<1>0. PICK status \in {"QUEUED", "PENDING_APPROVAL", "CIRCUIT_BROKEN"} :
        /\ NewExecution(t, status)
        /\ UNCHANGED <<actions, approvals, completing, closing, early, faults>>
  BY DEF TaskCreate, TaskBreak
<1>1. CASE UNCHANGED executions /\ Becomes(t, NoTask)
  <2>1. Apart(e) BY <1>0, <1>1, NoTaskType DEF Becomes, At, Serving, Apart
  <2> QED BY <1>i, <2>1, AttemptKept
<1>2. ASSUME NEW f \in Execution, NewRow(t, status, f),
             \/ /\ status = "QUEUED" /\ tasks' \in [Task -> TaskState]
                /\ tasks'[t].phase = "dispatch" /\ tasks'[t].execution = f
                /\ \A u \in Task : u # t => tasks'[u] = tasks[u]
             \/ status # "QUEUED" /\ Becomes(t, NoTask)
      PROVE  Attempt(e)'
  <2>1. CASE e = f
    <3>1. \A u \in Task : ~(At(u, Serving) /\ tasks[u].execution = f)
      BY <1>2, <1>i, ExecutionOfTask DEF NewRow, Serving
    <3>2. \A u \in Task : At(u, Serving)' /\ tasks'[u].execution = f =>
            u = t /\ status = "QUEUED" /\ tasks'[u].phase = "dispatch"
      BY <1>2, <3>1, NoTaskType DEF Becomes, At, Serving
    <3>3. executions'[f].status = status /\ executions'[f].action = None BY <1>2 DEF NewRow
    <3> QED BY <2>1, <3>2, <3>3 DEF Attempt, At, Serving
  <2>2. CASE e # f
    <3>1. Apart(e) BY <1>0, <1>2, <2>2, NoTaskType DEF NewRow, Becomes, At, Serving, Apart
    <3> QED BY <1>i, <3>1, AttemptKept
  <2> QED BY <2>1, <2>2
<1> QED BY <1>0, <1>1, <1>2, <1>i, NewExecutionIs

\* Serving an approval: the task is the only one, so the row is as it left it.
LEMMA AttemptOfService ==
  ASSUME AInv, NEW e \in Execution, Sole(e), Attempt(e), NEW t \in Task,
         ApproveWrite(t) \/ Dispatch(t) \/ Link(t)
  PROVE  Attempt(e)'
<1> USE DEF followVars, ghostVars
<1>i. IInv BY DEF AInv
<1>e. tasks[t].execution \in Execution
  BY <1>i, ExecutionOfTask DEF ApproveWrite, Dispatch, Link, At
<1>s. tasks[t].execution = e => \A u \in Task : At(u, Serving) /\ tasks[u].execution = e => u = t
  BY SoleTask DEF ApproveWrite, Dispatch, Link, Engaged, At, Serving
<1>1. CASE ApproveWrite(t)
  <2>1. Moved(t, "dispatch") BY <1>1, <1>i, TaskAtIs DEF IInv, Phase, ApproveWrite
  <2>2. Rewritten(tasks[t].execution, "QUEUED")
    BY <1>1, <1>i, <1>e, StatusWritten DEF IInv, ApproveWrite, RowStatus, InProgress
  <2>3. CASE tasks[t].execution = e
    <3>1. executions[e].status = "PENDING_APPROVAL" BY <1>1, <2>3 DEF Attempt, ApproveWrite
    <3>2. executions[e].action = None BY <1>i, <3>1, LinkOfRow DEF Unsent
    <3>3. executions'[e].status = "QUEUED" /\ executions'[e].action = None
      BY <2>2, <2>3, <3>2 DEF Rewritten
    <3>4. \A u \in Task : At(u, Serving)' /\ tasks'[u].execution = e =>
            tasks'[u].phase = "dispatch"
      BY <1>s, <2>1, <2>3 DEF Moved, At, Serving
    <3> QED BY <3>3, <3>4 DEF Attempt, At, Serving
  <2>4. CASE tasks[t].execution # e
    <3>1. Apart(e) BY <1>1, <2>1, <2>2, <2>4 DEF ApproveWrite, Moved, Rewritten, Apart, At, Serving
    <3> QED BY <1>i, <3>1, AttemptKept
  <2> QED BY <2>3, <2>4
<1>2. CASE Dispatch(t)
  <2>1. Moved(t, "link") BY <1>2, <1>i, TaskAtIs DEF IInv, Phase, Dispatch
  <2>2. \A x \in RemoteAction :
          actions'[x] = IF x = <<tasks[t].execution, t>> THEN "open" ELSE actions[x]
    BY <1>2, <1>i DEF Dispatch, IInv, TypeOK
  <2>3. CASE tasks[t].execution = e
    <3>1. executions[e].status = "QUEUED" /\ executions[e].action = None
      BY <1>2, <2>3 DEF Attempt, Dispatch
    <3>2. actions'[<<e, t>>] = "open" BY <2>2, <2>3, ActionIsSome
    <3>3. \A u \in Task : At(u, Serving)' /\ tasks'[u].execution = e =>
            u = t /\ tasks'[u].phase = "link"
      BY <1>s, <2>1, <2>3 DEF Moved, At, Serving
    <3>4. UNCHANGED executions BY <1>2 DEF Dispatch
    <3> QED BY <3>1, <3>2, <3>3, <3>4 DEF Attempt, At, Serving
  <2>4. CASE tasks[t].execution # e
    <3>1. Apart(e)
      BY <1>2, <2>1, <2>2, <2>4, ActionIsSome DEF Dispatch, Moved, Apart, At, Serving
    <3> QED BY <1>i, <3>1, AttemptKept
  <2> QED BY <2>3, <2>4
<1>3. CASE Link(t)
  <2>1. Becomes(t, NoTask) BY <1>3, <1>i, TaskEndsIs DEF IInv, Link
  <2>2. LinkedTo(t, tasks[t].execution) BY <1>3, <1>i, <1>e, LinkIs
  <2>3. CASE tasks[t].execution = e
    <3>1. \A u \in Task : ~(At(u, Serving)' /\ tasks'[u].execution = e)
      BY <1>s, <2>1, <2>3, NoTaskType DEF Becomes, At, Serving
    <3>2. executions'[e].status = "EXECUTING" /\ executions'[e].action = <<e, t>>
      BY <2>2, <2>3 DEF LinkedTo
    <3>3. /\ actions[<<e, t>>] # "abandoned"
          /\ actions[<<e, t>>] \in {"good", "bad"} => <<e, t>> \in completing \cup early
      BY <1>3, <2>3 DEF Attempt, Link
    <3>4. UNCHANGED <<actions, completing, closing, early, faults>> BY <1>3 DEF Link
    <3> QED BY <3>1, <3>2, <3>3, <3>4 DEF Attempt, At, Serving
  <2>4. CASE tasks[t].execution # e
    <3>1. Apart(e)
      BY <1>3, <2>1, <2>2, <2>4, NoTaskType DEF Link, Becomes, LinkedTo, Apart, At, Serving
    <3> QED BY <1>i, <3>1, AttemptKept
  <2> QED BY <2>3, <2>4
<1> QED BY <1>1, <1>2, <1>3

\* An approval that is read is of a row nothing was sent for.
LEMMA AttemptOfApproval ==
  ASSUME AInv, NEW e \in Execution, Sole(e)', Attempt(e), NEW t \in Task, NEW f \in Execution,
         ApproveRead(t, f)
  PROVE  Attempt(e)'
<1> USE DEF followVars, ghostVars
<1>i. IInv BY DEF AInv
<1>1. tasks'[t].execution = f /\ tasks'[t].phase = "approve"
      /\ \A u \in Task : u # t => tasks'[u] = tasks[u]
  BY <1>i DEF IInv, TypeOK, ApproveRead, NoTask
<1>2. UNCHANGED <<executions, actions, completing, closing, early, faults>>
  BY DEF ApproveRead
<1>3. CASE e = f
  <2>1. executions[e].status = "PENDING_APPROVAL" BY <1>3 DEF ApproveRead
  <2> QED BY <1>1, <1>2, <2>1, <1>3 DEF Attempt
<1>4. CASE e # f
  <2>1. Apart(e) BY <1>1, <1>2, <1>4 DEF Apart, At, Serving
  <2> QED BY <1>i, <2>1, AttemptKept
<1> QED BY <1>3, <1>4

\* Reports and ends of actions: a follow-up that is due writes what the row will show.
LEMMA AttemptOfReport ==
  ASSUME IInv, NEW e \in Execution, Attempt(e), NEW x \in RemoteAction,
         ActionReports(x) \/ ActionWithdrawn(x) \/ ActionAbandoned(x)
  PROVE  Attempt(e)'
<1> USE DEF followVars, ghostVars
<1>1. UNCHANGED <<executions, tasks, early, faults>>
  BY DEF ActionReports, ActionWithdrawn, ActionAbandoned
<1>2. executions[e].action # None => executions[e].action \in RemoteAction
  BY LinkOfRow
<1>3. \A t \in Task : <<e, t>> \in RemoteAction BY ActionIsSome
<1>4. CASE ActionReports(x)
  <2>1. PICK o \in {"good", "bad"} : \A y \in RemoteAction :
          actions'[y] = IF y = x THEN o ELSE actions[y]
    BY <1>4 DEF ActionReports, IInv, TypeOK
  <2>2. completing' = completing \cup {x} /\ closing' = closing /\ actions[x] \in {"open", "abandoned"}
    BY <1>4 DEF ActionReports
  <2> QED BY <1>1, <1>2, <1>3, <2>1, <2>2 DEF Attempt
<1>5. CASE ActionWithdrawn(x)
  <2>1. \A y \in RemoteAction : actions'[y] = IF y = x THEN "withdrawn" ELSE actions[y]
    BY <1>5 DEF ActionWithdrawn, IInv, TypeOK
  <2>2. UNCHANGED <<completing, closing>> /\ actions[x] = "open"
    BY <1>5 DEF ActionWithdrawn
  <2> QED BY <1>1, <1>2, <1>3, <2>1, <2>2 DEF Attempt
<1>6. CASE ActionAbandoned(x)
  <2>1. \A y \in RemoteAction : actions'[y] = IF y = x THEN "abandoned" ELSE actions[y]
    BY <1>6 DEF ActionAbandoned, IInv, TypeOK
  <2>2. completing' = completing /\ closing' = closing \cup {x} /\ actions[x] = "open"
    BY <1>6 DEF ActionAbandoned
  <2>3. \A t \in Task : tasks[t].phase = "link" /\ tasks[t].execution = e => <<e, t>> # x
    BY <1>3, <1>6, ActionIsSome DEF ActionAbandoned, Linking
  <2> QED BY <1>1, <1>2, <1>3, <2>1, <2>2, <2>3 DEF Attempt
<1> QED BY <1>4, <1>5, <1>6

\* A follow-up writes the rows that are linked to its action, and an execution that is being
\* dispatched or waits for its link is not one of them.
LEMMA AttemptOfFollowUp ==
  ASSUME IInv, NEW e \in Execution, Attempt(e), NEW x \in RemoteAction,
         CloseAbandoned(x) \/ Complete(x)
  PROVE  Attempt(e)'
<1> USE DEF followVars, ghostVars
<1>1. UNCHANGED <<actions, tasks, faults>> /\ early \subseteq early'
  BY DEF CloseAbandoned, Complete
<1>2. RowsEnd(Linked(x))
  BY DEF RowsEnd, IInv, TypeOK, ExecutionRow, CloseAbandoned, Complete
<1>3. \A t \in Task : <<e, t>> \in RemoteAction BY ActionIsSome
<1>4. executions'[e].action = executions[e].action BY <1>2 DEF RowsEnd
<1>5. executions[e].action # None => executions[e].action \in RemoteAction
                                     /\ executions[e].status \notin Unsent
  BY LinkOfRow
<1>6. CASE executions[e].action = None
  <2>1. executions'[e] = executions[e] BY <1>2, <1>6, ActionIsSome DEF RowsEnd, Linked
  <2>2. \A t \in Task : tasks[t].phase = "link" /\ tasks[t].execution = e
                        /\ actions[<<e, t>>] \in {"good", "bad"} =>
          <<e, t>> \in completing' \cup early'
    <3> SUFFICES ASSUME NEW t \in Task, tasks[t].phase = "link", tasks[t].execution = e,
                        actions[<<e, t>>] \in {"good", "bad"}, Complete(x), <<e, t>> = x
                 PROVE  x \in early'
      BY <1>1 DEF CloseAbandoned, Complete, Attempt
    <3>1. Linked(x) = {}
      <4> SUFFICES ASSUME NEW f \in Linked(x) PROVE FALSE
        OBVIOUS
      <4>1. f \in Execution /\ executions[f].action = x BY DEF Linked
      <4>2. executions[f].action[1] = f BY <4>1, ActionIsSome, LinkOfRow
      <4>3. f = e BY <4>1, <4>2, ActionIsSome
      <4> QED BY <1>6, <4>1, <4>3, ActionIsSome
    <3> QED BY <3>1 DEF Complete
  <2> QED BY <1>1, <1>6, <2>1, <2>2 DEF Attempt
<1>7. CASE executions[e].action # None
  <2>1. \A t \in Task : ~(tasks[t].phase \in {"approve", "dispatch", "link"} /\ tasks[t].execution = e)
    BY <1>5, <1>7 DEF Attempt, Unsent
  <2>2. CASE executions[e].action # x
    <3>1. executions'[e] = executions[e] BY <1>2, <2>2 DEF RowsEnd, Linked
    <3>2. executions[e].action \in completing' <=> executions[e].action \in completing
      BY <2>2 DEF CloseAbandoned, Complete
    <3>3. executions[e].action \in closing' <=> executions[e].action \in closing
      BY <2>2 DEF CloseAbandoned, Complete
    <3> QED BY <1>1, <1>4, <2>1, <3>1, <3>2, <3>3 DEF Attempt
  <2>3. CASE executions[e].action = x /\ Complete(x)
    <3>1. executions'[e].status = IF actions[x] = "good" THEN "SUCCESS" ELSE "FAILED"
      BY <2>3 DEF Complete, Linked, IInv, TypeOK, ExecutionRow
    <3>2. actions[x] \in {"good", "bad"} BY <2>3 DEF Complete, IInv, LinksOK
    <3> QED BY <1>1, <1>4, <2>1, <2>3, <3>1, <3>2 DEF Attempt
  <2>4. CASE executions[e].action = x /\ CloseAbandoned(x)
    <3>1. executions'[e].status = IF executions[e].status \in {"QUEUED", "EXECUTING"}
                                  THEN "FAILED" ELSE executions[e].status
      BY <2>4 DEF CloseAbandoned, Linked, IInv, TypeOK, ExecutionRow
    <3>2. actions[x] \in {"abandoned", "good", "bad"} /\ UNCHANGED <<completing, early>>
      BY <2>4 DEF CloseAbandoned, IInv, LinksOK
    <3> QED BY <1>1, <1>4, <2>1, <2>4, <3>1, <3>2 DEF Attempt
  <2> QED BY <2>2, <2>3, <2>4
<1> QED BY <1>6, <1>7

LEMMA InitOInv == Init => OInv
<1> SUFFICES ASSUME Init, NEW e \in Execution PROVE Attempt(e)
  BY InitAInv DEF OInv
<1>1. \A t \in Task : tasks[t].phase = "idle" BY NoTaskType DEF Init
<1>2. executions[e].action = None BY DEF Init, NoExecution
<1> QED BY <1>1, <1>2 DEF Attempt

LEMMA ApprovalsStay == [Next]_vars => approvals \subseteq approvals'
BY DEF Next, vars, ghostVars, Toggle, ConfigureRemediation, DeleteRule, Seed, Configure, TaskStep,
       TaskCheck, TaskBreak, TaskCool, TaskCreate, ApproveWrite, Dispatch, Link, DispatchFails,
       HandOver, ApproveRead, ActionStep, ActionReports, ActionWithdrawn, ActionAbandoned,
       CloseAbandoned, Complete, Ages, ServerRestart

LEMMA NextOInv ==
  ASSUME OInv, [Next]_vars
  PROVE  OInv'
<1>0. AInv /\ AInv' /\ IInv BY NextAInv DEF OInv, AInv
<1> SUFFICES ASSUME NEW e \in Execution, Sole(e)' PROVE Attempt(e)'
  BY <1>0 DEF OInv
<1>1. Sole(e) /\ Attempt(e) BY ApprovalsStay, SoleBefore DEF OInv
<1>2. CASE \/ Toggle \/ ConfigureRemediation \/ DeleteRule \/ Seed \/ UNCHANGED vars
           \/ \E t \in Task : TaskCheck(t) \/ TaskCool(t) \/ \E a \in Alert : HandOver(t, a)
           \/ \E f \in Execution : Ages(f)
  BY <1>0, <1>1, <1>2, ApartSteps, AttemptKept
<1>3. CASE ServerRestart \/ \E t \in Task : DispatchFails(t)
  BY <1>0, <1>1, <1>3, AttemptOfFault
<1>4. CASE \E t \in Task : TaskCreate(t) \/ TaskBreak(t) BY <1>0, <1>1, <1>4, AttemptOfCreation
<1>5. CASE \E t \in Task : ApproveWrite(t) \/ Dispatch(t) \/ Link(t)
  BY <1>0, <1>1, <1>5, AttemptOfService
<1>6. CASE \E t \in Task : \E f \in Execution : ApproveRead(t, f)
  BY <1>0, <1>1, <1>6, AttemptOfApproval
<1>7. CASE \E x \in RemoteAction : ActionStep(x)
  BY <1>0, <1>1, <1>7, AttemptOfReport, AttemptOfFollowUp DEF ActionStep
<1> QED BY <1>2, <1>3, <1>4, <1>5, <1>6, <1>7 DEF Next, TaskStep

\* An execution is a success only by an action of its own that succeeded.
Earned ==
  \A e \in Execution : executions[e].status = "SUCCESS" =>
                         \E t \in Task : actions[<<e, t>>] = "good"

LEMMA EarnedNext ==
  ASSUME IInv, Earned, [Next]_vars
  PROVE  Earned'
<1> USE DEF followVars, ghostVars
<1> SUFFICES ASSUME NEW e \in Execution, executions'[e].status = "SUCCESS"
             PROVE  \E t \in Task : actions'[<<e, t>>] = "good"
  BY DEF Earned
<1>1. \A t \in Task : <<e, t>> \in RemoteAction BY ActionIsSome
<1>2. \A t \in Task : actions[<<e, t>>] = "good" => actions'[<<e, t>>] = "good"
  <2>1. CASE UNCHANGED actions BY <2>1
  <2>2. ASSUME NEW t \in Task, Dispatch(t)
        PROVE  \A u \in Task : actions[<<e, u>>] = "good" => actions'[<<e, u>>] = "good"
    <3>1. actions[<<tasks[t].execution, t>>] = "absent"
      BY <2>2 DEF Dispatch, IInv, LinksOK, At
    <3> QED BY <1>1, <2>2, <3>1 DEF Dispatch, IInv, TypeOK
  <2>3. ASSUME NEW x \in RemoteAction, ActionReports(x) \/ ActionWithdrawn(x) \/ ActionAbandoned(x)
        PROVE  \A u \in Task : actions[<<e, u>>] = "good" => actions'[<<e, u>>] = "good"
    BY <1>1, <2>3 DEF ActionReports, ActionWithdrawn, ActionAbandoned, IInv, TypeOK
  <2> QED BY <2>1, <2>2, <2>3 DEF Next, vars, Toggle, ConfigureRemediation, DeleteRule, Seed,
        Configure, TaskStep, TaskCheck, TaskBreak, TaskCool, TaskCreate, ApproveWrite, Link,
        DispatchFails, HandOver, ApproveRead, ActionStep, CloseAbandoned, Complete, Ages,
        ServerRestart
<1>3. CASE executions[e].status = "SUCCESS" BY <1>2, <1>3 DEF Earned
<1>4. CASE executions[e].status # "SUCCESS"
  <2>1. PICK x \in RemoteAction : Complete(x) /\ actions[x] = "good" /\ executions[e].action = x
    <3>1. CASE UNCHANGED executions BY <1>4, <3>1
    <3>2. ASSUME NEW t \in Task, NEW status \in {"CIRCUIT_BROKEN", "QUEUED", "PENDING_APPROVAL"},
                 NewExecution(t, status)
          PROVE  FALSE
      <4>1. CASE UNCHANGED executions BY <1>4, <4>1
      <4>2. ASSUME NEW f \in Execution,
                   executions' = [executions EXCEPT ![f] =
                     [status |-> status, alert |-> tasks[t].alert, auto |-> tasks[t].auto,
                      action |-> None, age |-> "new"]]
            PROVE  FALSE
        BY <1>4, <4>2 DEF IInv, TypeOK
      <4> QED BY <3>2, <4>1, <4>2 DEF NewExecution, FreshExecution
    <3>3. ASSUME NEW t \in Task, TaskBreak(t) \/ TaskCreate(t) PROVE FALSE
      BY <3>2, <3>3 DEF TaskBreak, TaskCreate
    <3>4. ASSUME NEW t \in Task, ApproveWrite(t) \/ Link(t) \/ DispatchFails(t) PROVE FALSE
      BY <1>4, <3>4 DEF ApproveWrite, Link, DispatchFails, IInv, TypeOK, ExecutionRow
    <3>5. ASSUME NEW f \in Execution, Ages(f) PROVE FALSE
      BY <1>4, <3>5 DEF Ages, IInv, TypeOK, ExecutionRow
    <3>6. ASSUME NEW x \in RemoteAction, CloseAbandoned(x) PROVE FALSE
      BY <1>4, <3>6 DEF CloseAbandoned, IInv, TypeOK, ExecutionRow
    <3>7. ASSUME NEW x \in RemoteAction, Complete(x)
          PROVE  actions[x] = "good" /\ executions[e].action = x
      BY <1>4, <3>7 DEF Complete, Linked, IInv, TypeOK, ExecutionRow
    <3> QED BY <3>1, <3>3, <3>4, <3>5, <3>6, <3>7 DEF Next, vars, Toggle, ConfigureRemediation,
          DeleteRule, Seed, Configure, TaskStep, TaskCheck, TaskCool, Dispatch, HandOver,
          ApproveRead, ActionStep, ActionReports, ActionWithdrawn, ActionAbandoned, ServerRestart
  <2>2. x = <<e, x[2]>> /\ x[2] \in Task BY <2>1, LinkOfRow, ActionIsSome
  <2>3. actions[<<e, x[2]>>] = "good" BY <2>1, <2>2
  <2> QED BY <1>2, <2>2, <2>3
<1> QED BY <1>3, <1>4

\* In every interleaving of approvals, dispatches, reports and follow-ups an execution is shown
\* SUCCESS only if an action of it succeeded, and once the reports are processed it shows what
\* became of its action, unless that was withdrawn before it ran, its report came before the
\* link, the execution was approved twice or a fault cost a follow-up.
THEOREM OutcomesShown == Spec => []OutcomeShown
<1>1. OInv /\ Earned => OutcomeShown
  <2>1. ASSUME Earned, NEW e \in Execution, executions[e].status = "SUCCESS"
        PROVE  \E t \in Task : actions[<<e, t>>] = "good"
    BY <2>1 DEF Earned
  <2>2. ASSUME OInv, NEW e \in Execution, executions[e].action # None, faults = 0,
               executions[e].action \notin early, Approvals(e) <= 1,
               actions[executions[e].action] # "withdrawn",
               executions[e].action \notin completing \cup closing
        PROVE  executions[e].status =
                 CASE actions[executions[e].action] = "good" -> "SUCCESS"
                   [] actions[executions[e].action] \in {"bad", "abandoned"} -> "FAILED"
                   [] OTHER -> "EXECUTING"
    <3>1. Attempt(e) /\ IInv BY <2>2 DEF OInv, AInv, Sole
    <3>2. actions[executions[e].action] \in {"open", "good", "bad", "withdrawn", "abandoned"}
      BY <2>2, <3>1, LinkOfRow DEF IInv, LinksOK, TypeOK
    <3> QED BY <2>2, <3>1, <3>2 DEF Attempt
  <2> QED BY <2>1, <2>2 DEF OutcomeShown
<1>2. Init => Earned BY DEF Init, NoExecution, Earned
<1>3. OInv /\ Earned /\ [Next]_vars => OInv' /\ Earned'
  BY NextOInv, EarnedNext DEF OInv, AInv
<1> QED BY InitOInv, <1>1, <1>2, <1>3, PTL DEF Spec

-----------------------------------------------------------------------------
(* One attempt at a time                                                    *)

\* Rows are filled in order, and the older row leaves the cooldown first.
AgesOrdered ==
  \A e, f \in Execution :
    f < e /\ executions[e].status # "ABSENT" =>
      /\ executions[f].status # "ABSENT"
      /\ executions[f].age = "new" => executions[e].age = "new"
      /\ executions[e].age = "old" => executions[f].age = "old"

\* The attempts of an alert within its cooldown, and the remediations that will create one.
Attempts(a) == {e \in Execution : /\ executions[e].alert = a /\ Recent(e) /\ Sole(e)
                                  /\ executions[e].status \in InProgress}
Creating(a) == {t \in Task : At(t, {"create"}) /\ tasks[t].alert = a}

\* There is one attempt at most, and none while another is about to be created.
NoRival(a) ==
  /\ \A t, u \in Creating(a) : t = u
  /\ \A e, f \in Attempts(a) : e = f
  /\ Creating(a) = {} \/ Attempts(a) = {}

MInv == OInv /\ AgesOrdered /\ \A a \in Alert \ overlapped : NoRival(a)

\* The newest of some executions.
LEMMA Newest ==
  ASSUME NEW S, S \subseteq Execution, S # {}
  PROVE  \E m \in S : \A e \in S : e <= m
<1> DEFINE T == {n \in Nat : \E e \in S : n = MaxExecutions - e}
           R == OpToRel(<, Nat)
<1>0. \A e \in S : e \in Nat /\ MaxExecutions - e \in Nat BY LimitsAssumption DEF Execution
<1>1. T \subseteq Nat /\ T # {} BY <1>0
<1>2. IsWellFoundedOn(R, Nat) BY NatLessThanWellFounded
<1>3. PICK n \in T : \A k \in T : ~(<<k, n>> \in R) BY <1>1, <1>2, WFMin, Zenon
<1>4. \A k \in T : n <= k
  <2>1. \A k \in T : k < n => <<k, n>> \in R BY <1>1 DEF OpToRel
  <2>2. \A k \in T : ~(k < n) BY <1>3, <2>1, Zenon
  <2> HIDE DEF T, R
  <2> QED BY <1>1, <2>2
<1>5. PICK m \in S : n = MaxExecutions - m OBVIOUS
<1>6. \A e \in S : e <= m BY <1>0, <1>4, <1>5, LimitsAssumption
<1> QED BY <1>6

\* The table keeps its rows: no row appears, disappears, or changes its age.
SameRows ==
  \A e \in Execution : /\ executions'[e].status = "ABSENT" <=> executions[e].status = "ABSENT"
                       /\ executions'[e].age = executions[e].age

\* No attempt of an execution that is approved once at most starts again.
NoneStarts ==
  \A e \in Execution :
    Sole(e) /\ executions'[e].status \in InProgress /\ executions'[e].age = "new" =>
      executions[e].status \in InProgress /\ executions[e].age = "new"
      /\ executions'[e].alert = executions[e].alert

LEMMA RowsOfSteps ==
  ASSUME OInv, [Next]_vars,
         ~\E t \in Task : TaskCreate(t) \/ TaskBreak(t)
  PROVE  NoneStarts /\ (SameRows \/ \E e \in Execution : Ages(e))
<1> USE DEF followVars, ghostVars
<1>i. IInv /\ AInv BY DEF OInv, AInv
<1>1. CASE UNCHANGED executions BY <1>1 DEF NoneStarts, SameRows
<1>2. ASSUME NEW e \in Execution, Ages(e) PROVE NoneStarts
  <2>1. /\ executions'[e].age \in {"cooled", "old"}
        /\ \A f \in Execution : f # e => executions'[f] = executions[f]
    BY <1>2, <1>i DEF Ages, IInv, TypeOK, ExecutionRow
  <2> QED BY <2>1 DEF NoneStarts
<1>3. ASSUME NEW x \in RemoteAction, CloseAbandoned(x) \/ Complete(x)
      PROVE  NoneStarts /\ SameRows
  <2>1. RowsEnd(Linked(x))
    BY <1>3, <1>i DEF RowsEnd, IInv, TypeOK, ExecutionRow, CloseAbandoned, Complete
  <2>2. \A f \in Linked(x) : executions[f].status # "ABSENT"
    BY <1>3, <1>i, LinkOfRow, ActionIsSome DEF Linked, Unsent
  <2> QED BY <2>1, <2>2 DEF RowsEnd, NoneStarts, SameRows, InProgress
<1>4. ASSUME NEW t \in Task, ApproveWrite(t) \/ Link(t) \/ DispatchFails(t)
      PROVE  NoneStarts /\ SameRows
  <2> DEFINE e == tasks[t].execution
  <2>1. e \in Execution /\ executions[e].status # "ABSENT"
    BY <1>4, <1>i, ExecutionOfTask DEF ApproveWrite, Link, DispatchFails, At
  <2>2. CASE ApproveWrite(t)
    <3>1. Rewritten(e, "QUEUED")
      BY <2>1, <2>2, <1>i, StatusWritten DEF IInv, ApproveWrite, RowStatus, InProgress
    <3>2. Sole(e) => executions[e].status = "PENDING_APPROVAL"
      BY <2>1, <2>2 DEF OInv, Attempt, ApproveWrite
    <3> QED BY <2>1, <3>1, <3>2 DEF Rewritten, NoneStarts, SameRows, InProgress
  <2>3. CASE Link(t)
    <3>1. LinkedTo(t, e) BY <2>1, <2>3, <1>i, LinkIs
    <3>2. Sole(e) => executions[e].status = "QUEUED"
      BY <2>1, <2>3 DEF OInv, Attempt, Link
    <3> QED BY <2>1, <3>1, <3>2 DEF LinkedTo, NoneStarts, SameRows, InProgress
  <2>4. CASE DispatchFails(t)
    <3>1. Rewritten(e, "FAILED")
      BY <2>1, <2>4, <1>i, StatusWritten DEF IInv, DispatchFails, RowStatus, InProgress
    <3> QED BY <2>1, <3>1 DEF Rewritten, NoneStarts, SameRows, InProgress
  <2> QED BY <1>4, <2>2, <2>3, <2>4
<1>5. \/ UNCHANGED executions
      \/ \E e \in Execution : Ages(e)
      \/ \E x \in RemoteAction : CloseAbandoned(x) \/ Complete(x)
      \/ \E t \in Task : ApproveWrite(t) \/ Link(t) \/ DispatchFails(t)
  BY DEF Next, vars, Toggle, ConfigureRemediation, DeleteRule, Seed, Configure, TaskStep,
         TaskCheck, TaskCool, Dispatch, HandOver, ApproveRead, ActionStep, ActionReports,
         ActionWithdrawn, ActionAbandoned, ServerRestart
<1> QED BY <1>1, <1>2, <1>3, <1>4, <1>5

LEMMA AgesKept ==
  ASSUME OInv, AgesOrdered, [Next]_vars
  PROVE  AgesOrdered'
<1>i. IInv BY DEF OInv, AInv
<1>1. CASE SameRows BY <1>1 DEF SameRows, AgesOrdered
<1>2. ASSUME NEW e \in Execution, Ages(e) PROVE AgesOrdered'
  <2>1. /\ \A f \in Execution : executions'[f].status = executions[f].status
        /\ \A f \in Execution : f # e => executions'[f].age = executions[f].age
        /\ executions'[e].age = IF executions[e].age = "new" THEN "cooled" ELSE "old"
    BY <1>2, <1>i DEF Ages, IInv, TypeOK, ExecutionRow
  <2>2. /\ executions[e].age \in {"new", "cooled"}
        /\ \A f \in Execution : f < e => executions[f].age # executions[e].age
    BY <1>2, <1>i DEF Ages, IInv, TypeOK, ExecutionRow
  <2>3. \A f \in Execution : executions[f].age \in {"new", "cooled", "old"}
    BY <1>i DEF IInv, TypeOK, ExecutionRow
  <2>4. executions[e].status # "ABSENT"
    BY <1>i, <2>2 DEF IInv, LinksOK, NoExecution
  <2> SUFFICES ASSUME NEW g \in Execution, NEW f \in Execution, f < g,
                      executions'[g].status # "ABSENT"
               PROVE  /\ executions'[f].status # "ABSENT"
                      /\ executions'[f].age = "new" => executions'[g].age = "new"
                      /\ executions'[g].age = "old" => executions'[f].age = "old"
    BY DEF AgesOrdered
  <2>5. /\ executions[f].status # "ABSENT"
        /\ executions[f].age = "new" => executions[g].age = "new"
        /\ executions[g].age = "old" => executions[f].age = "old"
    BY <2>1 DEF AgesOrdered
  <2>6. f # g BY DEF Execution
  <2> QED BY <2>1, <2>2, <2>3, <2>5, <2>6
<1>3. ASSUME NEW t \in Task, TaskCreate(t) \/ TaskBreak(t) PROVE AgesOrdered'
  <2>1. PICK status \in {"QUEUED", "PENDING_APPROVAL", "CIRCUIT_BROKEN"} : NewExecution(t, status)
    BY <1>3 DEF TaskCreate, TaskBreak
  <2>2. CASE UNCHANGED executions BY <2>2 DEF AgesOrdered
  <2>3. ASSUME NEW e \in Execution, NewRow(t, status, e) PROVE AgesOrdered'
    <3>1. \A g \in Execution : e < g => executions[g].status = "ABSENT"
      BY <2>3 DEF AgesOrdered, NewRow
    <3>2. \A f, g \in Execution : f < g => f # g BY DEF Execution
    <3>3. \A f, g \in Execution : f # g => f < g \/ g < f BY DEF Execution
    <3> QED BY <2>3, <3>1, <3>2, <3>3 DEF AgesOrdered, NewRow
  <2> QED BY <1>i, <2>1, <2>2, <2>3, NewExecutionIs
<1> QED BY <1>1, <1>2, <1>3, RowsOfSteps

LEMMA RivalsKept ==
  ASSUME NEW a, NoRival(a), Attempts(a)' \subseteq Attempts(a), Creating(a)' \subseteq Creating(a)
  PROVE  NoRival(a)'
BY DEF NoRival

LEMMA AttemptsKept ==
  ASSUME IInv, NEW a, NoneStarts, approvals \subseteq approvals'
  PROVE  Attempts(a)' \subseteq Attempts(a)
BY SoleBefore DEF NoneStarts, Attempts, Recent

\* Only the check of the cooldown brings a remediation to the creation.
LEMMA CreatorsKept ==
  ASSUME IInv, [Next]_vars, NEW a, NEW t \in Creating(a)', t \notin Creating(a)
  PROVE  TaskCool(t)
<1> USE DEF followVars, ghostVars
<1>0. t \in Task /\ tasks'[t].phase = "create" /\ ~(tasks[t].phase = "create" /\ tasks[t].alert = a)
      /\ tasks'[t] # tasks[t] /\ tasks'[t].alert = a
  BY DEF Creating, At
<1>1. CASE ServerRestart BY <1>0, <1>1, NoTaskType DEF ServerRestart
<1>2. ASSUME NEW u \in Task, NEW b \in Alert, HandOver(u, b) PROVE FALSE
  <2>1. tasks'[u].phase = "check" /\ \A v \in Task : v # u => tasks'[v] = tasks[v]
    BY <1>2 DEF HandOver, IInv, TypeOK, NoTask
  <2> QED BY <1>0, <2>1
<1>3. ASSUME NEW u \in Task, NEW e \in Execution, ApproveRead(u, e) PROVE FALSE
  <2>1. tasks'[u].phase = "approve" /\ \A v \in Task : v # u => tasks'[v] = tasks[v]
    BY <1>3 DEF ApproveRead, IInv, TypeOK, NoTask
  <2> QED BY <1>0, <2>1
<1>4. ASSUME NEW u \in Task, NEW phase \in Phase \ {"create"}, TaskAt(u, phase) PROVE FALSE
  <2>1. Moved(u, phase) BY <1>4, TaskAtIs DEF IInv
  <2> QED BY <1>0, <2>1 DEF Moved
<1>5. ASSUME NEW u \in Task, TaskEnds(u) PROVE FALSE
  <2>1. Becomes(u, NoTask) BY <1>5, TaskEndsIs DEF IInv
  <2> QED BY <1>0, <2>1, NoTaskType DEF Becomes
<1>6. ASSUME NEW u \in Task, TaskCreate(u) \/ TaskBreak(u) PROVE FALSE
  <2>1. PICK status \in {"QUEUED", "PENDING_APPROVAL", "CIRCUIT_BROKEN"} : NewExecution(u, status)
    BY <1>6 DEF TaskCreate, TaskBreak
  <2>2. tasks'[u].phase \in {"dispatch", "idle"} /\ \A v \in Task : v # u => tasks'[v] = tasks[v]
    BY <2>1, NewExecutionIs, NoTaskType DEF Becomes
  <2> QED BY <1>0, <2>2
<1>7. ASSUME NEW u \in Task, TaskCool(u), u # t PROVE FALSE
  <2>1. TaskAt(u, "create") => Moved(u, "create") BY TaskAtIs DEF IInv, Phase
  <2>2. TaskEnds(u) => Becomes(u, NoTask) BY TaskEndsIs DEF IInv
  <2> QED BY <1>0, <1>7, <2>1, <2>2 DEF TaskCool, Moved, Becomes
<1>8. \/ UNCHANGED tasks \/ ServerRestart
      \/ \E u \in Task : \/ \E b \in Alert : HandOver(u, b)
                         \/ \E e \in Execution : ApproveRead(u, e)
                         \/ TaskCool(u) \/ TaskCreate(u) \/ TaskBreak(u)
                         \/ \E phase \in {"cool", "break", "dispatch", "link"} : TaskAt(u, phase)
                         \/ TaskEnds(u)
  BY DEF Next, vars, Toggle, ConfigureRemediation, DeleteRule, Seed, Configure, TaskStep,
         TaskCheck, ApproveWrite, Dispatch, Link, DispatchFails, ActionStep, ActionReports,
         ActionWithdrawn, ActionAbandoned, CloseAbandoned, Complete, Ages
<1> QED BY <1>0, <1>1, <1>2, <1>3, <1>4, <1>5, <1>6, <1>7, <1>8 DEF Phase

\* An attempt within the cooldown keeps another from being created.
LEMMA CoolingWhileAttempted ==
  ASSUME OInv, AgesOrdered, NEW a, Attempts(a) # {}
  PROVE  Cooling(a)
<1>i. IInv BY DEF OInv, AInv
<1> DEFINE current == {e \in Execution : executions[e].alert = a
                                         /\ executions[e].status \in InProgress}
<1>1. PICK e \in current : executions[e].age = "new" BY DEF Attempts, Recent
<1>2. PICK m \in current : \A f \in current : f <= m BY <1>1, Newest
<1>3. e \in Execution /\ m \in Execution /\ e <= m /\ executions[m].status # "ABSENT"
  BY <1>1, <1>2 DEF InProgress
<1>4. executions[m].age = "new"
  <2>1. e < m \/ e = m BY <1>3 DEF Execution
  <2> QED BY <1>1, <1>3, <2>1 DEF AgesOrdered
<1> QED BY <1>2, <1>4 DEF Cooling, Recent

LEMMA RivalsOfCool ==
  ASSUME MInv, [Next]_vars, NEW t \in Task, TaskCool(t), NEW a \in Alert \ overlapped', NoRival(a)
  PROVE  NoRival(a)'
<1>i. OInv /\ AInv /\ IInv /\ AgesOrdered BY DEF MInv, OInv, AInv
<1>1. UNCHANGED <<executions, approvals>> BY DEF TaskCool
<1>2. Attempts(a)' = Attempts(a) BY <1>1 DEF Attempts, Recent, Sole, Approvals
<1>3. CASE Creating(a)' \subseteq Creating(a) BY <1>2, <1>3, RivalsKept
<1>4. CASE ~(Creating(a)' \subseteq Creating(a))
  <2>1. PICK u \in Creating(a)' : u \notin Creating(a) BY <1>4
  <2>2. TaskCool(u) BY <1>i, <2>1, CreatorsKept
  <2>3. u \in Task /\ tasks[u].phase = "cool" /\ tasks'[u].phase = "create" /\ tasks'[u].alert = a
    BY <2>1, <2>2 DEF Creating, At, TaskCool
  <2>4. ~Cooling(tasks[u].alert) /\ TaskAt(u, "create")
    BY <1>i, <2>2, <2>3, TaskEndsIs, NoTaskType DEF TaskCool, Becomes, IInv
  <2>5. Moved(u, "create") BY <1>i, <2>3, <2>4, TaskAtIs DEF IInv, Phase
  <2>6. tasks[u].alert = a BY <2>3, <2>5 DEF Moved
  <2>7. Attempts(a) = {} BY <1>i, <2>4, <2>6, CoolingWhileAttempted
  <2>8. Creating(a) = {}
    <3> SUFFICES ASSUME NEW v \in Creating(a) PROVE FALSE
      OBVIOUS
    <3>1. v \in Task \ {u} /\ tasks[v].phase = "create" /\ tasks[v].alert = a
      BY <2>1 DEF Creating, At
    <3>2. a \in overlapped' BY <2>2, <2>3, <2>6, <3>1 DEF TaskCool
    <3> QED BY <3>2
  <2>9. \A v \in Creating(a)' : v = u
    BY <2>5, <2>8 DEF Moved, Creating, At
  <2> QED BY <1>2, <2>7, <2>9 DEF NoRival
<1> QED BY <1>3, <1>4

LEMMA RivalsOfCreation ==
  ASSUME MInv, [Next]_vars, NEW t \in Task, TaskCreate(t) \/ TaskBreak(t),
         NEW a \in Alert \ overlapped', NoRival(a)
  PROVE  NoRival(a)'
<1>i. IInv BY DEF MInv, OInv, AInv
<1>0. PICK status \in {"QUEUED", "PENDING_APPROVAL", "CIRCUIT_BROKEN"} :
        /\ NewExecution(t, status) /\ UNCHANGED approvals
        /\ tasks[t].phase = "create" \/ status = "CIRCUIT_BROKEN"
  BY DEF TaskCreate, TaskBreak, ghostVars
<1>1. Creating(a)' \subseteq Creating(a)
  <2>1. tasks'[t].phase \in {"dispatch", "idle"} /\ \A u \in Task : u # t => tasks'[u] = tasks[u]
    BY <1>0, <1>i, NewExecutionIs, NoTaskType DEF Becomes
  <2> QED BY <2>1 DEF Creating, At
<1>2. CASE UNCHANGED executions
  <2>1. Attempts(a)' = Attempts(a) BY <1>0, <1>2 DEF Attempts, Recent, Sole, Approvals
  <2> QED BY <1>1, <2>1, RivalsKept
<1>3. ASSUME NEW e \in Execution, NewRow(t, status, e), tasks'[t].phase # "create"
      PROVE  NoRival(a)'
  <2>1. \A f \in Execution : f # e => (f \in Attempts(a)' <=> f \in Attempts(a))
    BY <1>0, <1>3 DEF Attempts, Recent, Sole, Approvals, NewRow
  <2>2. e \notin Attempts(a) BY <1>3 DEF NewRow, Attempts, InProgress
  <2>3. CASE e \notin Attempts(a)'
    <3>1. Attempts(a)' \subseteq Attempts(a) BY <2>1, <2>3 DEF Attempts
    <3> QED BY <1>1, <3>1, RivalsKept
  <2>4. CASE e \in Attempts(a)'
    <3>1. tasks[t].alert = a /\ status # "CIRCUIT_BROKEN"
      BY <1>3, <2>4 DEF NewRow, Attempts, InProgress
    <3>2. t \in Creating(a) /\ t \notin Creating(a)'
      BY <1>0, <1>3, <3>1 DEF Creating, At
    <3>3. Attempts(a) = {} BY <3>2 DEF NoRival
    <3>4. Creating(a)' = {}
      <4>1. \A u \in Creating(a) : u = t BY <3>2 DEF NoRival
      <4> QED BY <1>1, <3>2, <4>1
    <3>5. \A f \in Attempts(a)' : f = e BY <2>1, <3>3 DEF Attempts
    <3> QED BY <3>4, <3>5 DEF NoRival
  <2> QED BY <2>3, <2>4
<1> QED BY <1>0, <1>2, <1>3, <1>i, NewExecutionIs, NoTaskType DEF Becomes

LEMMA InitMInv == Init => MInv
<1> SUFFICES ASSUME Init PROVE MInv
  OBVIOUS
<1>1. OInv BY InitOInv
<1>2. \A e \in Execution : executions[e].status = "ABSENT" BY DEF Init, NoExecution
<1>3. \A t \in Task : tasks[t].phase = "idle" BY NoTaskType DEF Init
<1> QED BY <1>1, <1>2, <1>3
        DEF MInv, AgesOrdered, NoRival, Attempts, Creating, At, InProgress

LEMMA NextMInv ==
  ASSUME MInv, [Next]_vars
  PROVE  MInv'
<1>i. OInv /\ IInv /\ AgesOrdered BY DEF MInv, OInv, AInv
<1>1. OInv' /\ AgesOrdered' BY <1>i, NextOInv, AgesKept
<1> SUFFICES ASSUME NEW a \in Alert \ overlapped' PROVE NoRival(a)'
  BY <1>1 DEF MInv
<1>2. overlapped \subseteq overlapped' /\ approvals \subseteq approvals'
  <2>1. overlapped \subseteq overlapped'
    BY DEF Next, vars, ghostVars, Toggle, ConfigureRemediation, DeleteRule, Seed, Configure,
           TaskStep, TaskCheck, TaskBreak, TaskCool, TaskCreate, ApproveWrite, Dispatch, Link,
           DispatchFails, HandOver, ApproveRead, ActionStep, ActionReports, ActionWithdrawn,
           ActionAbandoned, CloseAbandoned, Complete, Ages, ServerRestart
  <2> QED BY <2>1, ApprovalsStay
<1>3. NoRival(a) BY <1>2 DEF MInv
<1>4. CASE \E t \in Task : TaskCool(t) BY <1>3, <1>4, RivalsOfCool
<1>5. CASE \E t \in Task : TaskCreate(t) \/ TaskBreak(t) BY <1>3, <1>5, RivalsOfCreation
<1>6. CASE ~\E t \in Task : TaskCool(t) \/ TaskCreate(t) \/ TaskBreak(t)
  <2>1. Creating(a)' \subseteq Creating(a)
    BY <1>6, <1>i, CreatorsKept DEF Creating
  <2>2. Attempts(a)' \subseteq Attempts(a)
    BY <1>2, <1>6, <1>i, RowsOfSteps, AttemptsKept
  <2> QED BY <1>3, <2>1, <2>2, RivalsKept
<1> QED BY <1>4, <1>5, <1>6

\* However remediations, approvals and completions of an alert overlap: within the cooldown no
\* second attempt is started while the first is under way, unless two remediations overlapped
\* between the check and the creation, or an approval was given twice.
THEOREM OneAttemptAtATime == Spec => []OneAttempt
<1>1. MInv => OneAttempt
  <2> SUFFICES ASSUME MInv, NEW a \in Alert \ overlapped
               PROVE  Cardinality({e \in Execution : executions[e].alert = a /\ Recent(e)
                          /\ Approvals(e) <= 1 /\ executions[e].status \in InProgress}) <= 1
    BY DEF OneAttempt, MInv, OInv, AInv
  <2>1. Attempts(a) = {e \in Execution : executions[e].alert = a /\ Recent(e)
                          /\ Approvals(e) <= 1 /\ executions[e].status \in InProgress}
    BY DEF Attempts, Sole
  <2>2. IsFiniteSet(Attempts(a))
    <3>1. IsFiniteSet(Execution) BY LimitsAssumption, FS_Interval DEF Execution
    <3> QED BY <3>1, FS_Subset DEF Attempts
  <2>3. \A e, f \in Attempts(a) : e = f BY DEF MInv, NoRival
  <2> QED BY <2>1, <2>2, <2>3, AtMostOne
<1> QED BY InitMInv, NextMInv, <1>1, PTL DEF Spec
=============================================================================
