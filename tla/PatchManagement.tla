-------------------------- MODULE PatchManagement --------------------------
(***************************************************************************)
(* The Windows updates of one device as the server keeps them              *)
(* (server/src/modules/patches): the rows of the updates, the reboot state *)
(* of the device and the history of what was asked for.  Three parties     *)
(* write them without a common lock: operators who ask for a download, an  *)
(* installation or a reboot, the agent's scan reports, and the follow-ups  *)
(* of the remote actions (RemoteActions: only their outcome is here).      *)
(***************************************************************************)
EXTENDS Integers, FiniteSets

CONSTANTS
  KB,           \* updates
  Found,        \* what a scan says of an update that is pending
  Handler,      \* scan reports the server can be handling at once
  Delay,        \* moments between the request of a reboot and the reboot
  MaxRequests,  \* bound: requests of operators
  MaxTime,      \* bound: scans
  MaxFaults     \* bound: restarts and failed calls to createAction

ASSUME FoundAssumption == Found \subseteq {"PENDING_DOWNLOAD", "DOWNLOADED"}
ASSUME LimitsAssumption ==
  /\ Delay \in Nat /\ MaxRequests \in Nat /\ MaxTime \in Nat /\ MaxFaults \in Nat

\* An action is named by the request it is for.
Request == 1..MaxRequests

VARIABLES
  patch,        \* DevicePatch rows
  reboot,       \* rebootState, rebootScheduledAt
  watermark,    \* patchLastScanAt
  history,      \* PatchHistory rows of each request
  requests,     \* requests, from the check of the rows to the answer
  actions,      \* status of the remote action of each request
  settling,     \* final reports whose outcome is still to be applied
  reconciling,  \* actions withdrawn or given up, still to be reconciled
  scans,        \* scans the agent has not sent yet
  handling,     \* reports the server is handling
  verified,     \* history: updates the agent confirmed as installed
  now, faults

agentVars == <<scans, now>>
rowVars   == <<patch, reboot, history, verified>>
vars == <<rowVars, watermark, requests, actions, settling, reconciling,
          handling, agentVars, faults>>

Pending     == {"MISSING", "PENDING_DOWNLOAD", "DOWNLOADED", "FAILED"}
Kind        == {"DOWNLOAD", "INSTALL", "REBOOT"}
Unscheduled == -1

Nothing == <<>>  \* of no update

NoRequest == [phase |-> "new", kind |-> "INSTALL", targets |-> {}, before |-> Nothing,
              at |-> Unscheduled]
NoOutcome == [due |-> FALSE, good |-> FALSE, of |-> Nothing, rebootRequired |-> FALSE]
NoReport  == [phase |-> "idle", found |-> Nothing, pending |-> FALSE, at |-> 0,
              seen |-> [state |-> "NONE", at |-> Unscheduled], installing |-> {}]

\* After an earlier scan of the device.
Init ==
  /\ patch \in [KB -> {"ABSENT"} \cup Found]
  /\ reboot \in [state : {"NONE", "REBOOT_REQUIRED"}, at : {Unscheduled}]
  /\ watermark = 0
  /\ history = [r \in Request |-> [kb \in KB |-> "none"]]
  /\ requests = [r \in Request |-> NoRequest]
  /\ actions = [r \in Request |-> "absent"]
  /\ settling = [r \in Request |-> NoOutcome] /\ reconciling = {} /\ scans = {}
  /\ handling = [h \in Handler |-> NoReport]
  /\ verified = {} /\ now = 0 /\ faults = 0

\* The updates a request is for; what it read of them lasts until its answer.
Targets(r) == requests[r].targets
Answered(r) == [requests EXCEPT ![r] = [@ EXCEPT !.phase = "ended", !.before = Nothing,
                                               !.at = Unscheduled]]

Open(kinds) == {r \in Request : actions[r] = "open" /\ requests[r].kind \in kinds}

-----------------------------------------------------------------------------
(* Requests                                                                 *)

\* What may be downloaded, and what may be installed: the modes of an installation
\* (selected, critical, security, approved by the policy) pick from it.
Eligible(kind) ==
  {kb \in KB : patch[kb] \in IF kind = "DOWNLOAD" THEN Pending \ {"DOWNLOADED"} ELSE Pending}

\* Requests are numbered in the order in which they come.
Fresh(r) == requests[r] = NoRequest /\ \A s \in Request : s < r => requests[s] # NoRequest

\* The rows are read; a selection without updates is answered at once.
RequestPatches(r, kind) ==
  /\ Fresh(r)
  /\ \E targets \in (SUBSET Eligible(kind)) \ {{}} :
       requests' = [requests EXCEPT ![r] =
         [NoRequest EXCEPT !.phase = "prepare", !.kind = kind,
                           !.targets = targets, !.before = [kb \in targets |-> patch[kb]]]]
  /\ UNCHANGED <<rowVars, watermark, actions, settling, reconciling, handling,
                 agentVars, faults>>

\* The same order given as a bare remote action prepares no row.
RequestBareAction(r, kind, targets) ==
  /\ Fresh(r)
  /\ requests' = [requests EXCEPT ![r] =
       [NoRequest EXCEPT !.phase = "ended", !.kind = kind, !.targets = targets]]
  /\ actions' = [actions EXCEPT ![r] = "open"]
  /\ UNCHANGED <<rowVars, watermark, settling, reconciling, handling, agentVars, faults>>

Prepared(kind) == IF kind = "DOWNLOAD" THEN "PENDING_DOWNLOAD" ELSE "INSTALLING"

\* One transaction: each row that still has the status read, or none.
Prepare(r) ==
  LET q == requests[r] IN
  /\ q.phase = "prepare" /\ q.kind # "REBOOT"
  /\ \/ /\ \A kb \in Targets(r) : patch[kb] = q.before[kb]
        /\ patch' = [kb \in KB |-> IF kb \in Targets(r) THEN Prepared(q.kind) ELSE patch[kb]]
        /\ history' = [history EXCEPT ![r] =
             [kb \in KB |-> IF kb \in Targets(r) THEN "IN_PROGRESS" ELSE "none"]]
        /\ requests' = [requests EXCEPT ![r].phase = "create"]
     \/ /\ \E kb \in Targets(r) : patch[kb] # q.before[kb]
        /\ requests' = Answered(r)
        /\ UNCHANGED <<patch, history>>
  /\ UNCHANGED <<reboot, verified, watermark, actions, settling, reconciling, handling,
                 agentVars, faults>>

\* scheduleReboot: two checks, then the state, then the action.
RequestReboot(r) ==
  /\ Fresh(r)
  /\ reboot.state = "REBOOT_REQUIRED" /\ Open({"REBOOT"}) = {}
  /\ requests' = [requests EXCEPT ![r] = [NoRequest EXCEPT !.phase = "prepare", !.kind = "REBOOT"]]
  /\ UNCHANGED <<rowVars, watermark, actions, settling, reconciling, handling,
                 agentVars, faults>>

ScheduleReboot(r) ==
  /\ requests[r].phase = "prepare" /\ requests[r].kind = "REBOOT"
  /\ reboot' = [state |-> "REBOOT_SCHEDULED", at |-> now + Delay]
  /\ requests' = [requests EXCEPT ![r].phase = "create", ![r].at = now + Delay]
  /\ UNCHANGED <<patch, history, verified, watermark, actions, settling, reconciling,
                 handling, agentVars, faults>>

CreateAction(r) ==
  /\ requests[r].phase = "create"
  /\ requests' = Answered(r)
  /\ actions' = [actions EXCEPT ![r] = "open"]
  /\ UNCHANGED <<rowVars, watermark, settling, reconciling, handling, agentVars, faults>>

Fault == faults < MaxFaults /\ faults' = faults + 1

\* The rows get back what they had where they still have what the request gave
\* them, and the history rows are deleted.
CreateActionFails(r) ==
  LET q == requests[r] IN
  /\ q.phase = "create" /\ Fault
  /\ requests' = Answered(r)
  /\ patch' = [kb \in KB |->
       IF kb \in Targets(r) /\ patch[kb] = Prepared(q.kind) THEN q.before[kb] ELSE patch[kb]]
  /\ history' = [history EXCEPT ![r] = [kb \in KB |-> "none"]]
  /\ reboot' = IF q.kind = "REBOOT" /\ reboot = [state |-> "REBOOT_SCHEDULED", at |-> q.at]
               THEN [state |-> "REBOOT_REQUIRED", at |-> Unscheduled] ELSE reboot
  /\ UNCHANGED <<verified, watermark, actions, settling, reconciling, handling, agentVars>>

-----------------------------------------------------------------------------
(* What becomes of the actions                                              *)

\* The agent reports what it verified of each update; it may say nothing of one.
ActionReports(r) ==
  /\ actions[r] \in {"open", "abandoned"}
  /\ \E of \in [Targets(r) -> {"installed", "downloaded", "failed", "silent"}],
        good \in BOOLEAN, rebootRequired \in BOOLEAN :
       /\ requests[r].kind # "INSTALL" =>
            ~rebootRequired /\ \A kb \in Targets(r) : of[kb] # "installed"
       /\ requests[r].kind # "REBOOT" => good = \A kb \in Targets(r) : of[kb] # "failed"
       /\ settling' = [settling EXCEPT ![r] =
            [due |-> TRUE, good |-> good, of |-> of, rebootRequired |-> rebootRequired]]
       /\ actions' = [actions EXCEPT ![r] = IF good THEN "SUCCESS" ELSE "FAILED"]
  /\ UNCHANGED <<rowVars, watermark, requests, reconciling, handling, agentVars, faults>>

\* Cancelled or expired ("withdrawn"), or its execution lease ended ("abandoned").
ActionEnds(r) ==
  /\ actions[r] = "open"
  /\ \E status \in {"withdrawn", "abandoned"} : actions' = [actions EXCEPT ![r] = status]
  /\ reconciling' = reconciling \cup {r}
  /\ UNCHANGED <<rowVars, watermark, requests, settling, handling, agentVars, faults>>

\* The history rows in progress that the outcome of an action closes: a download
\* closes those of downloads, an installation those of any request.
Closes(r, s, kb) ==
  /\ kb \in Targets(r) /\ history[s][kb] = "IN_PROGRESS"
  /\ requests[r].kind = "INSTALL" \/ requests[s].kind = "DOWNLOAD"

RequiresReboot == [state |-> "REBOOT_REQUIRED", at |-> Unscheduled]

\* reconcileNeverExecutedAction
Reconcile(r) ==
  /\ r \in reconciling
  /\ reconciling' = reconciling \ {r}
  /\ patch' = [kb \in KB |->
       IF kb \in Targets(r) /\ patch[kb] = Prepared(requests[r].kind) THEN "MISSING" ELSE patch[kb]]
  /\ history' = [s \in Request |-> [kb \in KB |->
       IF Closes(r, s, kb) THEN "FAILED" ELSE history[s][kb]]]
  /\ reboot' = IF requests[r].kind = "REBOOT" /\ reboot.state = "REBOOT_SCHEDULED"
               THEN RequiresReboot ELSE reboot
  /\ UNCHANGED <<verified, watermark, requests, actions, settling, handling,
                 agentVars, faults>>

\* Mutant: the rows of updates without an outcome of their own are left alone.
SettledIfVerified(r, kb) ==
  CASE settling[r].of[kb] = "installed"  -> "INSTALLED"
    [] settling[r].of[kb] = "downloaded" -> "DOWNLOADED"
    [] settling[r].of[kb] = "failed"     -> "FAILED"
    [] OTHER -> patch[kb]

\* The status an outcome gives the row of an update that has one: whatever the
\* row shows by then, if the agent speaks of the update.
Settled(r, kb) ==
  CASE settling[r].of[kb] = "installed"  -> "INSTALLED"
    [] settling[r].of[kb] = "downloaded" -> "DOWNLOADED"
    [] settling[r].of[kb] = "failed"     -> "FAILED"
    [] OTHER -> IF patch[kb] = Prepared(requests[r].kind) THEN "FAILED" ELSE patch[kb]

Confirmed(r) == IF requests[r].kind = "DOWNLOAD" THEN "downloaded" ELSE "installed"

\* Mutant: an installation that succeeded as a whole stands for its updates.
ConfirmedByStatus(r, kb) ==
  \/ settling[r].of[kb] = Confirmed(r)
  \/ settling[r].of[kb] = "silent" /\ settling[r].good

ConfirmedFor(r, kb) == settling[r].of[kb] = Confirmed(r)

\* The outcome handling of updateActionStatus.
Settle(r) ==
  LET kind == requests[r].kind IN
  /\ settling[r].due
  /\ settling' = [settling EXCEPT ![r] = NoOutcome]
  /\ patch' = [kb \in KB |-> IF kb \in Targets(r) /\ patch[kb] # "ABSENT"
                             THEN Settled(r, kb) ELSE patch[kb]]
  /\ history' = [s \in Request |-> [kb \in KB |->
       IF Closes(r, s, kb) THEN IF ConfirmedFor(r, kb) THEN "SUCCESS" ELSE "FAILED"
       ELSE history[s][kb]]]
  /\ verified' = verified \cup {kb \in Targets(r) : settling[r].of[kb] = "installed"}
  /\ reboot' = CASE kind = "INSTALL" /\ settling[r].rebootRequired ->
                      [reboot EXCEPT !.state = "REBOOT_REQUIRED"]
                 [] kind = "REBOOT" /\ ~settling[r].good -> RequiresReboot
                 [] OTHER -> reboot
  /\ UNCHANGED <<watermark, requests, actions, reconciling, handling, agentVars, faults>>

-----------------------------------------------------------------------------
(* Scans                                                                    *)

\* The agent scans; a report that is not accepted waits in its buffer.
Scan ==
  /\ now < MaxTime
  /\ now' = now + 1
  /\ \E found \in [KB -> Found \cup {"ABSENT"}], pending \in BOOLEAN :
       scans' = scans \cup {[found |-> found, pending |-> pending, at |-> now + 1]}
  /\ UNCHANGED <<rowVars, watermark, requests, actions, settling, reconciling,
                 handling, faults>>

\* reportDevicePatches: the device and the open installations are read.  An old
\* scan is acknowledged and dropped.
ReportArrives(h, s) ==
  /\ handling[h] = NoReport
  /\ scans' = scans \ {s}
  /\ \/ s.at <= watermark /\ UNCHANGED handling
     \/ /\ s.at > watermark
        /\ handling' = [handling EXCEPT ![h] =
             [phase |-> "apply", found |-> s.found, pending |-> s.pending, at |-> s.at,
              seen |-> reboot, installing |-> UNION {Targets(r) : r \in Open({"INSTALL"})}]]
  /\ UNCHANGED <<rowVars, watermark, requests, actions, settling, reconciling,
                 now, faults>>

Superseded(g, kb) ==
  /\ g.found[kb] = "ABSENT"
  /\ \/ patch[kb] \in Pending
     \/ patch[kb] = "INSTALLING" /\ kb \notin g.installing

\* The reboot state a report leaves, by what the device showed when it was read.
RebootAfter(g) ==
  CASE g.pending /\ g.seen.state # "REBOOT_SCHEDULED" -> [reboot EXCEPT !.state = "REBOOT_REQUIRED"]
    [] ~g.pending /\ g.seen.state = "REBOOT_SCHEDULED"
         /\ (g.seen.at = Unscheduled \/ g.at >= g.seen.at) -> [state |-> "NONE", at |-> Unscheduled]
    [] ~g.pending /\ g.seen.state = "REBOOT_REQUIRED" -> [state |-> "NONE", at |-> Unscheduled]
    [] OTHER -> reboot

WritesReboot(g) ==
  IF g.pending THEN g.seen.state # "REBOOT_SCHEDULED"
  ELSE \/ g.seen.state = "REBOOT_REQUIRED"
       \/ g.seen.state = "REBOOT_SCHEDULED" /\ (g.seen.at = Unscheduled \/ g.at >= g.seen.at)

\* The transaction; a write of the reboot state carries the watermark with it.
ApplyReport(h) ==
  LET g == handling[h] IN
  /\ g.phase = "apply"
  /\ patch' = [kb \in KB |-> IF Superseded(g, kb) THEN "SUPERSEDED"
                             ELSE IF g.found[kb] # "ABSENT" THEN g.found[kb] ELSE patch[kb]]
  /\ reboot' = RebootAfter(g)
  /\ watermark' = IF WritesReboot(g) THEN g.at ELSE watermark
  /\ handling' = [handling EXCEPT ![h] = [g EXCEPT !.phase = "mark", !.seen = NoReport.seen,
                                             !.installing = {}]]
  /\ UNCHANGED <<history, verified, requests, actions, settling, reconciling,
                 agentVars, faults>>

MarkReport(h) ==
  /\ handling[h].phase = "mark"
  /\ watermark' = handling[h].at
  /\ handling' = [handling EXCEPT ![h] = NoReport]
  /\ UNCHANGED <<rowVars, requests, actions, settling, reconciling, agentVars, faults>>

\* What the process was doing is lost; the agent sends a report again whose
\* handling did not end.
ServerRestart ==
  /\ Fault
  /\ requests' = [r \in Request |-> IF requests[r].phase \in {"prepare", "create"}
                                    THEN Answered(r)[r] ELSE requests[r]]
  /\ settling' = [r \in Request |-> NoOutcome] /\ reconciling' = {}
  /\ handling' = [h \in Handler |-> NoReport]
  /\ scans' = scans \cup {[found |-> handling[h].found, pending |-> handling[h].pending,
                           at |-> handling[h].at] : h \in {g \in Handler : handling[g] # NoReport}}
  /\ UNCHANGED <<rowVars, watermark, actions, now>>

Next ==
  \/ Scan \/ ServerRestart
  \/ \E r \in Request :
       \/ \E kind \in Kind \ {"REBOOT"} :
            \/ RequestPatches(r, kind)
            \/ \E kb \in KB : RequestBareAction(r, kind, {kb})
       \/ RequestBareAction(r, "REBOOT", {})
       \/ Prepare(r) \/ RequestReboot(r) \/ ScheduleReboot(r)
       \/ CreateAction(r) \/ CreateActionFails(r)
       \/ ActionReports(r) \/ ActionEnds(r) \/ Reconcile(r) \/ Settle(r)
  \/ \E h \in Handler : \/ \E s \in scans : ReportArrives(h, s)
                        \/ ApplyReport(h) \/ MarkReport(h)

Spec == Init /\ [][Next]_vars

-----------------------------------------------------------------------------
(* Properties                                                               *)

Status      == Pending \cup {"ABSENT", "INSTALLING", "INSTALLED", "SUPERSEDED"}
RebootState == [state : {"NONE", "REBOOT_REQUIRED", "REBOOT_SCHEDULED"},
                at : {Unscheduled} \cup 0..(MaxTime + Delay)]
Scanned     == [KB -> Found \cup {"ABSENT"}]
OfSome(S)   == {Nothing} \cup UNION {[targets -> S] : targets \in SUBSET KB}

RequestRow == [phase : {"new", "prepare", "create", "ended"}, kind : Kind, targets : SUBSET KB,
               before : OfSome(Pending), at : {Unscheduled} \cup 0..(MaxTime + Delay)]
Outcome == [due : BOOLEAN, good : BOOLEAN, rebootRequired : BOOLEAN,
            of : OfSome({"installed", "downloaded", "failed", "silent"})]
Report  == [phase : {"idle", "apply", "mark"}, found : {Nothing} \cup Scanned, pending : BOOLEAN,
            at : 0..MaxTime, seen : RebootState, installing : SUBSET KB]

\* The values the code can put in each row, each request and each report.
TypeOK ==
  /\ patch \in [KB -> Status] /\ reboot \in RebootState
  /\ history \in [Request -> [KB -> {"none", "IN_PROGRESS", "SUCCESS", "FAILED"}]]
  /\ requests \in [Request -> RequestRow] /\ settling \in [Request -> Outcome]
  /\ actions \in [Request -> {"absent", "open", "withdrawn", "abandoned", "SUCCESS", "FAILED"}]
  /\ handling \in [Handler -> Report]
  /\ scans \subseteq [found : Scanned, pending : BOOLEAN, at : 0..MaxTime]
  /\ reconciling \subseteq Request /\ verified \subseteq KB
  /\ watermark \in 0..MaxTime /\ now \in 0..MaxTime /\ faults \in 0..MaxFaults

\* Requests, actions, outcomes and history refer to each other as the code assumes:
\* what is about to be prepared or created was read as pending, an action belongs to
\* a request that is answered, and an outcome speaks of the updates of its action.
LinksOK ==
  /\ \A r \in Request :
       /\ requests[r].kind = "REBOOT" => Targets(r) = {}
       /\ requests[r].phase = "new" => requests[r] = NoRequest
       /\ requests[r].phase \in {"prepare", "create"} /\ requests[r].kind # "REBOOT" =>
            requests[r].before \in [Targets(r) -> Pending]
       /\ requests[r].phase # "ended" => actions[r] = "absent"
       /\ settling[r].due =>
            /\ settling[r].of \in [Targets(r) -> {"installed", "downloaded", "failed", "silent"}]
            /\ requests[r].kind # "INSTALL" => \A kb \in Targets(r) : settling[r].of[kb] # "installed"
            /\ actions[r] = IF settling[r].good THEN "SUCCESS" ELSE "FAILED"
       /\ \A kb \in KB : history[r][kb] # "none" => kb \in Targets(r)
  /\ \A h \in Handler : handling[h].phase \in {"apply", "mark"} => handling[h].found \in Scanned
  /\ \A h \in Handler : handling[h].phase = "idle" => handling[h] = NoReport

\* The request, or what follows from its action, is not over.
Pursued(r) ==
  \/ requests[r].phase = "create" \/ actions[r] = "open"
  \/ settling[r].due \/ r \in reconciling

\* An update that shows as being installed is being installed: as long as no call
\* failed and the server did not restart, an installation of it is still pursued.
InstallingIsPursued ==
  faults = 0 => \A kb \in KB : patch[kb] = "INSTALLING" =>
    \E r \in Request : requests[r].kind = "INSTALL" /\ kb \in Targets(r) /\ Pursued(r)

\* No history row stays in progress when its request is over, unless the server
\* restarted: a call to createAction that fails takes its rows with it.
HistoryIsPursued ==
  \A r \in Request, kb \in KB :
    history[r][kb] = "IN_PROGRESS" => Pursued(r) \/ faults > 0

\* A reboot shows as scheduled only while its action is pursued or has succeeded.
ScheduledIsPursued ==
  reboot.state = "REBOOT_SCHEDULED" /\ faults = 0 =>
    \E r \in Request : /\ requests[r].kind = "REBOOT"
                       /\ Pursued(r) \/ actions[r] = "SUCCESS"

\* Nothing shows as in progress for ever: the screen, the history and the reboot
\* agree with the requests that are still pursued.
NothingIsStranded ==
  TypeOK /\ LinksOK /\ InstallingIsPursued /\ HistoryIsPursued /\ ScheduledIsPursued

\* An update shows as installed, and its history as a success, only if the agent
\* confirmed that very update: the success of an action as a whole is not enough.
SuccessIsVerified ==
  \A kb \in KB :
    /\ patch[kb] = "INSTALLED" => kb \in verified
    /\ \A r \in Request : requests[r].kind = "INSTALL" /\ history[r][kb] = "SUCCESS" =>
                           kb \in verified

=============================================================================
