---------------------------- MODULE RemoteActions ----------------------------
(***************************************************************************)
(* Remote actions of one device: the rows of the server's remoteAction     *)
(* table (server/src/modules/actions), the requests the server is handling, *)
(* and the poller of the Windows agent (agent/internal/actions/poller.go).  *)
(*                                                                         *)
(* The handlers of the server run between awaits: each access to the       *)
(* database is a step of its own wherever another handler can change what   *)
(* was read.  The agent has one request outstanding; a request it stopped   *)
(* waiting for goes on at the server.  Clocks are abstracted to the three   *)
(* comparisons the code makes: past expiresAt, past the delivery lease of   *)
(* 60 s, past the execution lease of 2 h.                                   *)
(***************************************************************************)
EXTENDS Integers, FiniteSets

CONSTANTS
  NumActions,   \* actions an operator may create, in the order of createdAt
  Slot,         \* requests of the agent the server may be handling at once
  NoCall,       \* the agent is not waiting for a response
  ClockSkew,    \* may the clock of the agent disagree with the server's?
  MaxLate,      \* bound: requests given up by the agent while still alive
  MaxCrashes,   \* bound: crashes of the agent
  MaxServerFaults \* bound: restarts and failed follow-ups of the server

ASSUME NumActionsAssumption == NumActions \in Nat \ {0}
ASSUME SlotAssumption == NoCall \notin Slot
ASSUME ClockSkewAssumption == ClockSkew \in BOOLEAN
ASSUME BoundsAssumption ==
  MaxLate \in Nat /\ MaxCrashes \in Nat /\ MaxServerFaults \in Nat

Action   == 1..NumActions
NoAction == 0

Waiting  == {"PENDING", "DELIVERED"}             \* cancellable, may expire
Final    == {"SUCCESS", "FAILED"}                \* what the agent reports
Terminal == Final \cup {"EXPIRED", "CANCELLED"}
Status   == {"ABSENT", "RUNNING"} \cup Waiting \cup Terminal
Report   == {"RUNNING"} \cup Final

VARIABLES
  \* rows of the table remoteAction
  status, leaseExpired,
  \* what the clock says of each row
  overdue, redeliverable, stale,
  \* server process: requests in progress, events and follow-ups not yet done
  req, emitting, owed,
  \* agent process: phase, action in hand, outstanding request
  pc, cur, call,
  \* agent disk: the pending final report
  disk,
  \* what really happened, and how often the server followed up on it
  runs, outcome, acked, settled, reconciled,
  \* faults so far, for the bounds
  faults

rowVars    == <<status, leaseExpired>>
clockVars  == <<overdue, redeliverable, stale>>
serverVars == <<req, emitting, owed>>
agentVars  == <<pc, cur, call>>
ghostVars  == <<runs, outcome, acked, settled, reconciled>>
vars == <<rowVars, clockVars, serverVars, agentVars, disk, ghostVars, faults>>

Idle == [phase |-> "idle", act |-> NoAction, rep |-> "RUNNING", read |-> "ABSENT"]
NoReport == [act |-> NoAction, rep |-> "FAILED"]

Request == [phase : {"idle", "poll", "found", "none", "listen", "woken",
                     "report", "write", "settle"},
            act   : Action \cup {NoAction},
            rep   : Report,
            read  : Status]

Phase == {"loop", "polling", "got", "announcing", "retry", "execute",
          "executing", "finished", "flushing"}

Init ==
  /\ status        = [a \in Action |-> "ABSENT"]
  /\ leaseExpired  = [a \in Action |-> FALSE]
  /\ overdue       = [a \in Action |-> FALSE]
  /\ redeliverable = [a \in Action |-> FALSE]
  /\ stale         = [a \in Action |-> FALSE]
  /\ req           = [s \in Slot |-> Idle]
  /\ emitting = {} /\ owed = {}
  /\ pc = "loop" /\ cur = NoAction /\ call = NoCall
  /\ disk = NoReport
  /\ runs       = [a \in Action |-> 0]
  /\ outcome    = [a \in Action |-> "NONE"]
  /\ acked      = {}
  /\ settled    = [a \in Action |-> 0]
  /\ reconciled = [a \in Action |-> 0]
  /\ faults     = [late |-> 0, crashes |-> 0, server |-> 0]

-----------------------------------------------------------------------------
(* Operators and the dashboard                                              *)

\* createAction: the row is inserted; the event follows after the audit entry.
CreateAction(a) ==
  /\ status[a] = "ABSENT"
  /\ \A b \in Action : b < a => status[b] # "ABSENT"
  /\ status' = [status EXCEPT ![a] = "PENDING"]
  /\ emitting' = emitting \cup {a}
  /\ UNCHANGED <<leaseExpired, clockVars, req, owed, agentVars, disk, ghostVars, faults>>

\* The event wakes every long poll that listens for this device.
EmitAction(a) ==
  /\ a \in emitting
  /\ emitting' = emitting \ {a}
  /\ req' = [s \in Slot |-> IF req[s].phase = "listen"
                            THEN [req[s] EXCEPT !.phase = "woken", !.act = a]
                            ELSE req[s]]
  /\ UNCHANGED <<rowVars, clockVars, owed, agentVars, disk, ghostVars, faults>>

\* Mutant: an action that is being executed can be cancelled too.
CancelRunningToo(a) ==
  /\ status[a] \in Waiting \cup {"RUNNING"}
  /\ status' = [status EXCEPT ![a] = "CANCELLED"]
  /\ owed' = owed \cup {a}
  /\ UNCHANGED <<leaseExpired, clockVars, req, emitting, agentVars, disk, ghostVars, faults>>

\* cancelAction: the write is conditional on the statuses the read checked, so
\* the two are one step; what the cancelled action left open is reconciled later.
CancelAction(a) ==
  /\ status[a] \in Waiting
  /\ status' = [status EXCEPT ![a] = "CANCELLED"]
  /\ owed' = owed \cup {a}
  /\ UNCHANGED <<leaseExpired, clockVars, req, emitting, agentVars, disk, ghostVars, faults>>

(* expirePendingActions, run by every poll and every listing of the actions *)

\* Mutant: the update of an overdue row is not conditional on its status.
ExpirableAgain(a) == status[a] \in Waiting \cup {"EXPIRED"} /\ overdue[a]

Expirable(a) == status[a] \in Waiting /\ overdue[a]
ExpireAction(a) ==
  /\ Expirable(a)
  /\ status' = [status EXCEPT ![a] = "EXPIRED"]
  /\ owed' = owed \cup {a}
  /\ UNCHANGED <<leaseExpired, clockVars, req, emitting, agentVars, disk, ghostVars, faults>>

\* Mutants: no execution lease; a lease that leaves no mark on the row.
NeverClosable(a) == FALSE
CloseUnmarked(a) ==
  /\ status[a] = "RUNNING" /\ stale[a]
  /\ status' = [status EXCEPT ![a] = "FAILED"]
  /\ owed' = owed \cup {a}
  /\ UNCHANGED <<leaseExpired, clockVars, req, emitting, agentVars, disk, ghostVars, faults>>

Closable(a) == status[a] = "RUNNING" /\ stale[a]
CloseStaleAction(a) ==
  /\ Closable(a)
  /\ status' = [status EXCEPT ![a] = "FAILED"]
  /\ leaseExpired' = [leaseExpired EXCEPT ![a] = TRUE]
  /\ owed' = owed \cup {a}
  /\ UNCHANGED <<clockVars, req, emitting, agentVars, disk, ghostVars, faults>>

\* reconcileNeverExecutedAction and, for a stale action, its remediation.
ReconcileAction(a) ==
  /\ a \in owed
  /\ owed' = owed \ {a}
  /\ reconciled' = [reconciled EXCEPT ![a] = @ + 1]
  /\ UNCHANGED <<rowVars, clockVars, req, emitting, agentVars, disk,
                 runs, outcome, acked, settled, faults>>

Sweep == \E a \in Action : ExpireAction(a) \/ CloseStaleAction(a)

-----------------------------------------------------------------------------
(* Time                                                                     *)

ExpiryPasses(a) ==
  /\ status[a] \in Waiting \/ cur = a
  /\ ~overdue[a]
  /\ overdue' = [overdue EXCEPT ![a] = TRUE]
  /\ UNCHANGED <<rowVars, redeliverable, stale, serverVars, agentVars, disk, ghostVars, faults>>

DeliveryLeasePasses(a) ==
  /\ status[a] = "DELIVERED" /\ ~redeliverable[a]
  /\ redeliverable' = [redeliverable EXCEPT ![a] = TRUE]
  /\ UNCHANGED <<rowVars, overdue, stale, serverVars, agentVars, disk, ghostVars, faults>>

ExecutionLeasePasses(a) ==
  /\ status[a] = "RUNNING" /\ ~stale[a]
  /\ stale' = [stale EXCEPT ![a] = TRUE]
  /\ UNCHANGED <<rowVars, overdue, redeliverable, serverVars, agentVars, disk, ghostVars, faults>>

TimePasses(a) == ExpiryPasses(a) \/ DeliveryLeasePasses(a) \/ ExecutionLeasePasses(a)

-----------------------------------------------------------------------------
(* Requests.  Send puts one in a free slot; Answer ends it, and the agent   *)
(* hears of it only when it is still waiting for it.                        *)

Send(r, p) ==
  \E s \in Slot :
    /\ req[s] = Idle
    /\ req' = [req EXCEPT ![s] = r]
    /\ call' = s
    /\ pc' = p

Answer(s, p, a) ==
  /\ req' = [req EXCEPT ![s] = Idle]
  /\ IF call = s THEN pc' = p /\ cur' = a /\ call' = NoCall
                 ELSE UNCHANGED agentVars

(* pollActionsForAgent                                                      *)

\* Mutant: the delivery lease also covers what is already being executed.
ClaimableRunning(a) ==
  /\ ~overdue[a]
  /\ status[a] = "PENDING" \/ (status[a] \in {"DELIVERED", "RUNNING"} /\ redeliverable[a])

Claimable(a) ==
  /\ ~overdue[a]
  /\ status[a] = "PENDING" \/ (status[a] = "DELIVERED" /\ redeliverable[a])

Deliver(a) ==
  /\ status' = [status EXCEPT ![a] = "DELIVERED"]
  /\ redeliverable' = [redeliverable EXCEPT ![a] = FALSE]

\* After the sweep of the overdue rows: the oldest available action, or none.
PollFind(s) ==
  LET available == {a \in Action : Claimable(a)} IN
  /\ req[s].phase = "poll"
  /\ \A a \in Action : ~Expirable(a) /\ ~Closable(a)
  /\ \/ /\ available = {}
        /\ req' = [req EXCEPT ![s].phase = "none"]
     \/ \E a \in available :
          /\ \A b \in available : a <= b
          /\ req' = [req EXCEPT ![s].phase = "found", ![s].act = a]
  /\ UNCHANGED <<rowVars, clockVars, emitting, owed, agentVars, disk, ghostVars, faults>>

\* The claim is conditional; a lost race answers with an empty list.
ClaimOrEmpty(s, possible) ==
  LET a == req[s].act IN
  /\ \/ possible /\ Deliver(a) /\ Answer(s, "got", a)
     \/ /\ ~possible /\ Answer(s, "loop", NoAction)
        /\ UNCHANGED <<status, redeliverable>>
  /\ UNCHANGED <<leaseExpired, overdue, stale, emitting, owed, disk, ghostVars, faults>>

PollClaim(s) == req[s].phase = "found" /\ ClaimOrEmpty(s, Claimable(req[s].act))

\* Nothing was found: the listener is registered, after the read.
PollListen(s) ==
  /\ req[s].phase = "none"
  /\ req' = [req EXCEPT ![s].phase = "listen"]
  /\ UNCHANGED <<rowVars, clockVars, emitting, owed, agentVars, disk, ghostVars, faults>>

ListenerTimeout(s) ==
  /\ req[s].phase = "listen"
  /\ Answer(s, "loop", NoAction)
  /\ UNCHANGED <<rowVars, clockVars, emitting, owed, disk, ghostVars, faults>>

ListenerClaim(s) ==
  /\ req[s].phase = "woken"
  /\ LET a == req[s].act
     IN  ClaimOrEmpty(s, status[a] = "PENDING" /\ ~overdue[a])

(* updateActionStatus                                                       *)

\* Mutant: the server's own verdict is as terminal as any other.
NoRecovery(a, r) == FALSE

\* A row the server closed by itself accepts the late final report.
Recovering(a, r) == status[a] = "FAILED" /\ leaseExpired[a] /\ r \in Final

Duplicate(a, r) ==
  /\ status[a] \in Terminal /\ ~Recovering(a, r)
  /\ status[a] = r \/ (status[a] = "EXPIRED" /\ r = "FAILED")

Acceptable(a, r) ==
  \/ Recovering(a, r)
  \/ r = "RUNNING" /\ status[a] \in {"PENDING", "DELIVERED", "RUNNING"}
  \/ r \in Final /\ status[a] \in {"DELIVERED", "RUNNING"}

\* 200: the agent starts the action, or deletes the report it was flushing.
Acknowledge(s) ==
  LET r == req[s] IN
  /\ IF r.rep = "RUNNING" THEN Answer(s, "execute", r.act)
                          ELSE Answer(s, "loop", NoAction)
  /\ IF call = s /\ r.rep \in Final
       THEN disk' = NoReport /\ acked' = acked \cup {r.act}
       ELSE UNCHANGED <<disk, acked>>

\* 404: RUNNING may be tried again; a final report stays on disk.
Refuse(s) ==
  LET r == req[s] IN
  /\ IF r.rep = "RUNNING" THEN Answer(s, "retry", r.act)
                          ELSE Answer(s, "loop", NoAction)
  /\ UNCHANGED <<disk, acked>>

ReportRead(s) ==
  LET r == req[s] IN
  /\ r.phase = "report"
  /\ \/ /\ Acceptable(r.act, r.rep)
        /\ req' = [req EXCEPT ![s].phase = "write", ![s].read = status[r.act]]
        /\ UNCHANGED <<agentVars, disk, acked>>
     \/ Duplicate(r.act, r.rep) /\ Acknowledge(s)
     \/ ~Acceptable(r.act, r.rep) /\ ~Duplicate(r.act, r.rep) /\ Refuse(s)
  /\ UNCHANGED <<rowVars, clockVars, emitting, owed, runs, outcome, settled, reconciled, faults>>

\* Mutant: the write is unconditional.
NeverRaced(s) == FALSE

\* The write is conditional on the status that was read.
Raced(s) == status[req[s].act] # req[s].read

ReportWrite(s) ==
  LET r == req[s] IN
  /\ r.phase = "write" /\ ~Raced(s)
  /\ status' = [status EXCEPT ![r.act] = r.rep]
  /\ leaseExpired' = [leaseExpired EXCEPT ![r.act] = @ /\ r.read # "FAILED"]
  /\ \/ /\ r.rep = "RUNNING"
        /\ \/ stale' = [stale EXCEPT ![r.act] = FALSE]
           \/ r.read = "RUNNING" /\ stale' = stale     \* the same startedAt again
        /\ Acknowledge(s)
     \/ /\ r.rep \in Final
        /\ req' = [req EXCEPT ![s].phase = "settle"]
        /\ UNCHANGED <<stale, agentVars, disk, acked>>
  /\ UNCHANGED <<overdue, redeliverable, emitting, owed, runs, outcome, settled, reconciled, faults>>

\* Mutant: whoever lost a race is told that all is well.
RacedIsAcknowledged(s) ==
  /\ req[s].phase = "write" /\ Raced(s)
  /\ Acknowledge(s)
  /\ UNCHANGED <<rowVars, clockVars, emitting, owed, runs, outcome, settled, reconciled, faults>>

\* A lost race: a duplicate of the same report is acknowledged, others refused.
ReportRaced(s) ==
  LET r == req[s] IN
  /\ r.phase = "write" /\ Raced(s)
  /\ \/ status[r.act] = r.rep /\ Acknowledge(s)
     \/ status[r.act] # r.rep /\ Refuse(s)
  /\ UNCHANGED <<rowVars, clockVars, emitting, owed, runs, outcome, settled, reconciled, faults>>

\* The outcome is applied to patches and to the remediation, then answered.
ReportSettle(s) ==
  LET r == req[s] IN
  /\ r.phase = "settle"
  /\ settled' = [settled EXCEPT ![r.act] = @ + 1]
  /\ Acknowledge(s)
  /\ UNCHANGED <<rowVars, clockVars, emitting, owed, runs, outcome, reconciled, faults>>

\* A follow-up throws after the status was written: 404, nothing more is done.
SettleFails(s) ==
  /\ req[s].phase = "settle" /\ faults.server < MaxServerFaults
  /\ faults' = [faults EXCEPT !.server = @ + 1]
  /\ Refuse(s)
  /\ UNCHANGED <<rowVars, clockVars, emitting, owed, runs, outcome, settled, reconciled>>

\* Everything the process had in memory is gone; the table remains, and so do
\* the requests it had not started on.
ServerRestart ==
  /\ faults.server < MaxServerFaults
  /\ faults' = [faults EXCEPT !.server = @ + 1]
  /\ req' = [s \in Slot |-> IF req[s].phase \in {"poll", "report"} THEN req[s] ELSE Idle]
  /\ emitting' = {} /\ owed' = {}
  /\ UNCHANGED <<rowVars, clockVars, agentVars, disk, ghostVars>>

ServerStep(s) ==
  \/ PollFind(s) \/ PollClaim(s) \/ PollListen(s)
  \/ ListenerTimeout(s) \/ ListenerClaim(s)
  \/ ReportRead(s) \/ ReportWrite(s) \/ ReportRaced(s) \/ ReportSettle(s)

-----------------------------------------------------------------------------
(* The poller of the agent                                                  *)

\* Top of Run: a report left on disk goes first, and is flushed by Run as by
\* processAction; no new work is accepted before it is acknowledged.
AgentFlush ==
  /\ pc = "loop" /\ disk # NoReport
  /\ Send([Idle EXCEPT !.phase = "report", !.act = disk.act, !.rep = disk.rep], "flushing")
  /\ UNCHANGED <<rowVars, clockVars, emitting, owed, cur, disk, ghostVars, faults>>

AgentPoll ==
  /\ pc = "loop" /\ disk = NoReport
  /\ Send([Idle EXCEPT !.phase = "poll"], "polling")
  /\ UNCHANGED <<rowVars, clockVars, emitting, owed, cur, disk, ghostVars, faults>>

\* IsActionExpired: the agent compares expiresAt with its own clock.
AgentDiscard ==
  /\ pc = "got" /\ (overdue[cur] \/ ClockSkew)
  /\ disk' = [act |-> cur, rep |-> "FAILED"]
  /\ pc' = "loop" /\ cur' = NoAction
  /\ UNCHANGED <<rowVars, clockVars, serverVars, call, ghostVars, faults>>

AgentAnnounce ==
  /\ \/ pc = "got" /\ (~overdue[cur] \/ ClockSkew)
     \/ pc = "retry"
  /\ Send([Idle EXCEPT !.phase = "report", !.act = cur], "announcing")
  /\ UNCHANGED <<rowVars, clockVars, emitting, owed, cur, disk, ghostVars, faults>>

\* The retries of RUNNING are exhausted: the action is not executed.  They are
\* not counted, an outage makes all of them fail.
AgentGiveUp ==
  /\ pc = "retry"
  /\ pc' = "loop" /\ cur' = NoAction
  /\ UNCHANGED <<rowVars, clockVars, serverVars, call, disk, ghostVars, faults>>

AgentExecute ==
  /\ pc = "execute"
  /\ pc' = "executing"
  /\ runs' = [runs EXCEPT ![cur] = @ + 1]
  /\ UNCHANGED <<rowVars, clockVars, serverVars, cur, call, disk,
                 outcome, acked, settled, reconciled, faults>>

AgentFinish ==
  /\ pc = "executing"
  /\ pc' = "finished"
  /\ \E o \in Final : outcome' = [outcome EXCEPT ![cur] = o]
  /\ UNCHANGED <<rowVars, clockVars, serverVars, cur, call, disk,
                 runs, acked, settled, reconciled, faults>>

\* persistFinalReport, which may fail; processAction then returns without it.
AgentPersist ==
  /\ pc = "finished"
  /\ disk' = [act |-> cur, rep |-> outcome[cur]]
  /\ pc' = "loop" /\ cur' = NoAction
  /\ UNCHANGED <<rowVars, clockVars, serverVars, call, ghostVars, faults>>

AgentPersistFails ==
  /\ pc = "finished" \/ (pc = "got" /\ (overdue[cur] \/ ClockSkew))
  /\ faults.crashes < MaxCrashes
  /\ faults' = [faults EXCEPT !.crashes = @ + 1]
  /\ pc' = "loop" /\ cur' = NoAction
  /\ UNCHANGED <<rowVars, clockVars, serverVars, call, disk, ghostVars>>

\* The agent stops waiting.  The request may still be processed.
AgentTimeout ==
  /\ call # NoCall
  /\ \/ req[call] = Idle /\ UNCHANGED faults
     \/ /\ req[call] # Idle /\ faults.late < MaxLate
        /\ faults' = [faults EXCEPT !.late = @ + 1]
  /\ call' = NoCall
  /\ pc' = IF pc = "announcing" THEN "retry" ELSE "loop"
  /\ UNCHANGED <<rowVars, clockVars, serverVars, cur, disk, ghostVars>>

\* A request is lost before the server sees it.
RequestLost(s) ==
  /\ req[s].phase \in {"poll", "report"} /\ faults.late < MaxLate
  /\ faults' = [faults EXCEPT !.late = @ + 1]
  /\ req' = [req EXCEPT ![s] = Idle]
  /\ UNCHANGED <<rowVars, clockVars, emitting, owed, agentVars, disk, ghostVars>>

AgentCrash ==
  /\ faults.crashes < MaxCrashes
  /\ faults' = [faults EXCEPT !.crashes = @ + 1]
  /\ pc' = "loop" /\ cur' = NoAction /\ call' = NoCall
  /\ UNCHANGED <<rowVars, clockVars, serverVars, disk, ghostVars>>

AgentStep ==
  \/ AgentFlush \/ AgentPoll \/ AgentDiscard \/ AgentAnnounce \/ AgentGiveUp
  \/ AgentExecute \/ AgentFinish \/ AgentPersist \/ AgentTimeout

Next ==
  \/ \E a \in Action : \/ CreateAction(a) \/ EmitAction(a) \/ CancelAction(a)
                       \/ ReconcileAction(a) \/ TimePasses(a)
  \/ Sweep
  \/ \E s \in Slot : ServerStep(s) \/ SettleFails(s) \/ RequestLost(s)
  \/ AgentStep \/ AgentPersistFails \/ AgentCrash \/ ServerRestart

Spec == Init /\ [][Next]_vars

(***************************************************************************)
(* Fairness: the poller is a loop that runs as long as the service does    *)
(* and tries RUNNING four times at most; the server finishes what it       *)
(* starts; clocks advance.  Nobody has to create, cancel or list anything: *)
(* the sweep is fair only while a poll is waiting for it.                  *)
(***************************************************************************)
PollSweep == (\E s \in Slot : req[s].phase = "poll") /\ Sweep

Fairness ==
  /\ WF_vars(AgentStep) /\ SF_vars(AgentGiveUp)
  /\ \A s \in Slot : WF_vars(ServerStep(s))
  /\ WF_vars(PollSweep)
  /\ \A a \in Action : /\ WF_vars(EmitAction(a)) /\ WF_vars(ReconcileAction(a))
                       /\ WF_vars(ExpiryPasses(a)) /\ WF_vars(DeliveryLeasePasses(a))
                       /\ WF_vars(ExecutionLeasePasses(a))

FairSpec == Spec /\ Fairness

-----------------------------------------------------------------------------
(* Properties                                                               *)

\* The values the code can put in each row, request and file.
TypeOK ==
  /\ status        \in [Action -> Status]
  /\ leaseExpired  \in [Action -> BOOLEAN]
  /\ overdue       \in [Action -> BOOLEAN]
  /\ redeliverable \in [Action -> BOOLEAN]
  /\ stale         \in [Action -> BOOLEAN]
  /\ req           \in [Slot -> Request]
  /\ emitting \subseteq Action /\ owed \subseteq Action
  /\ pc \in Phase /\ cur \in Action \cup {NoAction} /\ call \in Slot \cup {NoCall}
  /\ disk \in [act : Action \cup {NoAction}, rep : Final]
  /\ runs       \in [Action -> Nat]
  /\ outcome    \in [Action -> Final \cup {"NONE"}]
  /\ acked \subseteq Action
  /\ settled    \in [Action -> Nat]
  /\ reconciled \in [Action -> Nat]
  /\ faults \in [late : Nat, crashes : Nat, server : Nat]

\* Redelivery, retries and late requests never make the agent run an action
\* twice: RUNNING is acknowledged before the side effect, and only DELIVERED
\* rows are delivered again.
AtMostOnce == \A a \in Action : runs[a] <= 1

\* An action the dashboard shows as cancelled, expired or not yet started has
\* not been executed, whatever requests are still on their way.
NeverRunUnlessStarted ==
  \A a \in Action :
    status[a] \in {"ABSENT", "PENDING", "DELIVERED", "CANCELLED", "EXPIRED"} => runs[a] = 0

\* A final status that did not come from the expiry of the execution lease is
\* what happened at the agent: SUCCESS means it ran and succeeded, FAILED that
\* it failed or was discarded without being run.
HonestOutcome ==
  \A a \in Action :
    /\ status[a] = "SUCCESS" => outcome[a] = "SUCCESS"
    /\ status[a] = "FAILED" /\ ~leaseExpired[a] =>
         outcome[a] = "FAILED" \/ (runs[a] = 0 /\ outcome[a] = "NONE")

\* The server would accept, or take for a duplicate, the report of an executed
\* action that waits on the agent's disk: the result can always be handed over.
ExecutedReportIsAcceptable ==
  \A a \in Action :
    disk.act = a /\ runs[a] > 0 => Acceptable(a, disk.rep) \/ Duplicate(a, disk.rep)

\* Once the agent deleted the report of an executed action, the row shows that
\* outcome and always will.
AckedOutcomeIsRecorded ==
  \A a \in acked : outcome[a] # "NONE" => status[a] = outcome[a]

\* The success of an action is applied to patches and remediation once, however
\* many reports of it arrive and interleave; the follow-up of a cancelled, expired
\* or abandoned action is done at most once by all the polls, listings and
\* cancellations that compete for it.
FollowUpsOnce ==
  \A a \in Action :
    /\ outcome[a] = "SUCCESS" => settled[a] <= 1
    /\ reconciled[a] + (IF a \in owed THEN 1 ELSE 0) <= 1

\* The rows and the executions follow the documented state machine, whatever
\* happens to requests, agent and server.
Lifecycle == INSTANCE ActionLifecycle
ImplementsLifecycle == Lifecycle!Spec

\* The report the agent cannot get rid of: the server refuses it for ever, and
\* the poller accepts no work before it is acknowledged.
Blocked == \E a \in Action :
  disk.act = a /\ ~Acceptable(a, disk.rep) /\ ~Duplicate(a, disk.rep)

\* The result of an executed action that reached the disk reaches the server.
ResultReachesServer ==
  \A a \in Action : (disk.act = a /\ runs[a] > 0) ~> (status[a] = outcome[a] /\ disk.act # a)

\* A pending report delays new actions, it does not end them: the server takes
\* every report the agent can hold.  Refuted: the report that discards an
\* expired action is refused when an operator cancelled the action meanwhile.
NeverBlocked == ~Blocked

\* Every action ends: it is executed, cancelled, expired or closed by the
\* execution lease, unless the poller is blocked.
ActionsEnd ==
  \A a \in Action : status[a] # "ABSENT" ~> (status[a] \in Terminal \/ Blocked)

\* Both, under the fairness of FairSpec.
ActionsSettle == ResultReachesServer /\ ActionsEnd

-----------------------------------------------------------------------------
(***************************************************************************)
(* The inductive invariant: what holds between the row, the requests, the  *)
(* disk and the agent in every reachable state.                            *)
(***************************************************************************)

PollPhase   == {"poll", "found", "none", "listen", "woken"}
ReportPhase == {"report", "write", "settle"}
BeforeRun   == {"got", "announcing", "retry", "execute"}

\* The row still accepts the final report of the agent.
Unresolved(a) == status[a] = "RUNNING" \/ (status[a] = "FAILED" /\ leaseExpired[a])

\* The row against what happened.
RowInv == \A a \in Action :
  /\ runs[a] \in {0, 1}
  /\ outcome[a] # "NONE" => runs[a] = 1
  /\ leaseExpired[a] => status[a] = "FAILED"
  /\ runs[a] = 1 => Unresolved(a) \/ (outcome[a] # "NONE" /\ status[a] = outcome[a])
  /\ status[a] \in Final /\ ~leaseExpired[a] =>
       status[a] = outcome[a] \/ (status[a] = "FAILED" /\ runs[a] = 0)
  /\ a \in acked => /\ status[a] \in Final \cup {"EXPIRED"}
                    /\ outcome[a] # "NONE" => status[a] = outcome[a]

\* The agent: what it holds, and what its phase says about it.
AgentInv ==
  /\ cur # NoAction <=> pc \in BeforeRun \cup {"executing", "finished"}
  /\ call # NoCall <=> pc \in {"polling", "announcing", "flushing"}
  /\ disk # NoReport => pc \in {"loop", "flushing"}
  /\ pc = "flushing" => disk # NoReport
  /\ cur \notin acked
  /\ pc \in BeforeRun => runs[cur] = 0
  /\ pc = "execute" => Unresolved(cur)
  /\ pc \in {"executing", "finished"} => runs[cur] = 1
  /\ pc = "executing" => outcome[cur] = "NONE"
  /\ pc = "finished" => outcome[cur] # "NONE"

\* The report on disk is the outcome, or discards an action that never ran.
DiskInv ==
  /\ disk.act = NoAction => disk = NoReport
  /\ disk.act # NoAction =>
       \/ outcome[disk.act] = disk.rep
       \/ runs[disk.act] = 0 /\ disk.rep = "FAILED"

\* Requests, abandoned ones included: where their contents came from.
RequestOK(s) ==
  /\ req[s].phase = "idle" => req[s] = Idle
  /\ req[s].phase \in {"found", "woken"} \cup ReportPhase => req[s].act \in Action
  /\ req[s].phase \in ReportPhase /\ req[s].rep \in Final =>
       \/ outcome[req[s].act] = req[s].rep
       \/ /\ runs[req[s].act] = 0 /\ req[s].rep = "FAILED"
          /\ disk.act = req[s].act \/ req[s].act \in acked
  /\ req[s].phase = "write" =>
       \/ req[s].rep = "RUNNING" /\ req[s].read \in {"PENDING", "DELIVERED", "RUNNING"}
       \/ req[s].rep \in Final /\ req[s].read \in {"DELIVERED", "RUNNING", "FAILED"}
  /\ req[s].phase = "settle" =>
       /\ req[s].rep \in Final
       /\ status[req[s].act] = req[s].rep /\ ~leaseExpired[req[s].act]

ReqInv == \A s \in Slot : RequestOK(s)

\* The request the agent waits for is the one it sent.
CallInv == call # NoCall /\ req[call] # Idle =>
  /\ pc = "polling" => req[call].phase \in PollPhase
  /\ pc = "announcing" => /\ req[call].phase \in ReportPhase
                          /\ req[call].rep = "RUNNING" /\ req[call].act = cur
  /\ pc = "flushing" => /\ req[call].phase \in ReportPhase
                        /\ req[call].rep = disk.rep /\ req[call].act = disk.act

IInv == TypeOK /\ RowInv /\ AgentInv /\ DiskInv /\ ReqInv /\ CallInv

=============================================================================
