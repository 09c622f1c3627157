------------------------ MODULE PatchManagement_proofs ------------------------
(***************************************************************************)
(* What is proved of patch management, for any number of updates, requests,*)
(* reports handled at once, scans and faults: rows, requests, actions,     *)
(* outcomes and history agree, nothing shows as in progress after what it  *)
(* waits for is over, and nothing shows as installed that the agent did    *)
(* not confirm.                                                            *)
(***************************************************************************)
EXTENDS PatchManagement, TLAPS

-----------------------------------------------------------------------------
(* The parts of the invariant, by requests and reports                      *)

Phases   == {"new", "prepare", "create", "ended"}
Outcomes == {"installed", "downloaded", "failed", "silent"}
IInv     == TypeOK /\ LinksOK

RequestLinks(r) ==
  /\ requests[r].kind = "REBOOT" => Targets(r) = {}
  /\ requests[r].phase = "new" => requests[r] = NoRequest
  /\ requests[r].phase \in {"prepare", "create"} /\ requests[r].kind # "REBOOT" =>
       requests[r].before \in [Targets(r) -> Pending]
  /\ requests[r].phase # "ended" => actions[r] = "absent"
OutcomeLinks(r) ==
  settling[r].due =>
    /\ settling[r].of \in [Targets(r) -> Outcomes]
    /\ requests[r].kind # "INSTALL" => \A kb \in Targets(r) : settling[r].of[kb] # "installed"
    /\ actions[r] = IF settling[r].good THEN "SUCCESS" ELSE "FAILED"
HistoryLinks(r) == \A kb \in KB : history[r][kb] # "none" => kb \in Targets(r)
ReportLinks(h) ==
  /\ handling[h].phase \in {"apply", "mark"} => handling[h].found \in Scanned
  /\ handling[h].phase = "idle" => handling[h] = NoReport

LEMMA Parts ==
  /\ LinksOK <=> /\ \A r \in Request : RequestLinks(r) /\ OutcomeLinks(r) /\ HistoryLinks(r)
                 /\ \A h \in Handler : ReportLinks(h)
  /\ LinksOK' <=> /\ \A r \in Request : RequestLinks(r)' /\ OutcomeLinks(r)' /\ HistoryLinks(r)'
                  /\ \A h \in Handler : ReportLinks(h)'
BY DEF LinksOK, RequestLinks, OutcomeLinks, HistoryLinks, ReportLinks, Outcomes

-----------------------------------------------------------------------------
(* What the steps write                                                     *)

LEMMA NothingTypes ==
  /\ NoRequest \in RequestRow /\ NoRequest.phase = "new" /\ NoRequest.kind = "INSTALL"
  /\ NoRequest.targets = {}
  /\ NoOutcome \in Outcome /\ NoOutcome.due = FALSE
  /\ NoReport \in Report /\ NoReport.phase = "idle" /\ NoReport.seen \in RebootState
<1>1. NoRequest \in RequestRow /\ NoRequest.phase = "new" /\ NoRequest.kind = "INSTALL"
      /\ NoRequest.targets = {}
  BY DEF NoRequest, RequestRow, OfSome, Kind
<1>2. NoOutcome \in Outcome /\ NoOutcome.due = FALSE
  BY DEF NoOutcome, Outcome, OfSome
<1>3. NoReport \in Report /\ NoReport.phase = "idle" /\ NoReport.seen \in RebootState
  BY LimitsAssumption DEF NoReport, Report, RebootState
<1> QED BY <1>1, <1>2, <1>3

\* Rows of some updates are rows of some updates.
LEMMA RowsOfSome ==
  ASSUME NEW S, NEW targets \in SUBSET KB, NEW f \in [targets -> S]
  PROVE  f \in OfSome(S)
BY DEF OfSome

\* The request r becomes new, the others are as they were.
Becomes(r, new) ==
  /\ requests' \in [Request -> RequestRow]
  /\ requests'[r] = new
  /\ \A s \in Request : s # r => requests'[s] = requests[s]

\* The request r goes on, for what it was for.
GoesOn(r, phase) ==
  /\ requests' \in [Request -> RequestRow]
  /\ requests'[r].phase = phase /\ requests'[r].kind = requests[r].kind
  /\ requests'[r].targets = requests[r].targets
  /\ phase # "ended" => requests'[r].before = requests[r].before
  /\ \A s \in Request : s # r => requests'[s] = requests[s]

LEMMA RequestBecomes ==
  ASSUME TypeOK, NEW r \in Request, NEW new \in RequestRow, requests' = [requests EXCEPT ![r] = new]
  PROVE  Becomes(r, new)
BY DEF TypeOK, Becomes

LEMMA AnsweredIs ==
  ASSUME TypeOK, NEW r \in Request
  PROVE  LET q == [requests[r] EXCEPT !.phase = "ended", !.before = Nothing, !.at = Unscheduled] IN
         /\ q \in RequestRow /\ q.phase = "ended" /\ q.kind = requests[r].kind
         /\ q.targets = requests[r].targets
         /\ Answered(r) = [requests EXCEPT ![r] = q]
<1>1. requests[r] \in RequestRow BY DEF TypeOK
<1> QED BY <1>1 DEF TypeOK, Answered, RequestRow, OfSome

LEMMA AnswerGoesOn ==
  ASSUME TypeOK, NEW r \in Request, requests' = Answered(r)
  PROVE  GoesOn(r, "ended")
BY AnsweredIs, RequestBecomes DEF Becomes, GoesOn

LEMMA PhaseGoesOn ==
  ASSUME TypeOK, NEW r \in Request, NEW phase \in Phases,
         requests' = [requests EXCEPT ![r].phase = phase]
  PROVE  GoesOn(r, phase)
<1> DEFINE q == [requests[r] EXCEPT !.phase = phase]
<1>1. requests[r] \in RequestRow BY DEF TypeOK
<1>2. q \in RequestRow /\ q.phase = phase /\ q.kind = requests[r].kind
      /\ q.targets = requests[r].targets /\ q.before = requests[r].before
  BY <1>1 DEF RequestRow, Phases
<1>3. requests' = [requests EXCEPT ![r] = q] OBVIOUS
<1> QED BY <1>2, <1>3, RequestBecomes DEF Becomes, GoesOn

-----------------------------------------------------------------------------
(* IInv is inductive                                                        *)

LEMMA InitIInv == Init => IInv
<1> SUFFICES ASSUME Init PROVE IInv
  OBVIOUS
<1>1. TypeOK
  <2>1. patch \in [KB -> Status] BY FoundAssumption DEF Init, Status, Pending
  <2>2. reboot \in RebootState
    <3>1. PICK state \in {"NONE", "REBOOT_REQUIRED"} : reboot = [state |-> state, at |-> Unscheduled]
      BY DEF Init
    <3> QED BY <3>1 DEF RebootState
  <2> QED BY <2>1, <2>2, NothingTypes, LimitsAssumption DEF Init, TypeOK
<1>2. \A r \in Request : RequestLinks(r) /\ OutcomeLinks(r) /\ HistoryLinks(r)
  BY NothingTypes DEF Init, RequestLinks, OutcomeLinks, HistoryLinks, Targets
<1>3. \A h \in Handler : ReportLinks(h) BY NothingTypes DEF Init, ReportLinks
<1> QED BY <1>1, <1>2, <1>3, Parts DEF IInv

\* What a number that no request had yet brings with it: nothing.
LEMMA FreshIsNew ==
  ASSUME IInv, NEW r \in Request, Fresh(r)
  PROVE  /\ requests[r].phase = "new" /\ requests[r].kind = "INSTALL" /\ Targets(r) = {}
         /\ actions[r] = "absent" /\ ~settling[r].due
         /\ \A kb \in KB : history[r][kb] = "none"
<1>1. requests[r] = NoRequest BY DEF Fresh
<1>2. RequestLinks(r) /\ OutcomeLinks(r) /\ HistoryLinks(r) BY Parts DEF IInv
<1>3. history[r] \in [KB -> {"none", "IN_PROGRESS", "SUCCESS", "FAILED"}] BY DEF IInv, TypeOK
<1> QED BY <1>1, <1>2, <1>3, NothingTypes
        DEF RequestLinks, OutcomeLinks, HistoryLinks, Targets

\* A request begins; the tables are left alone, but for the action of a bare one.
LEMMA RequestBegins ==
  ASSUME IInv, NEW r \in Request, Fresh(r), NEW q \in RequestRow, Becomes(r, q),
         UNCHANGED <<rowVars, watermark, settling, reconciling, handling, agentVars, faults>>,
         q.kind = "REBOOT" => q.targets = {},
         \/ /\ q.phase = "prepare" /\ UNCHANGED actions
            /\ q.kind # "REBOOT" => q.before \in [q.targets -> Pending]
         \/ q.phase = "ended" /\ actions' = [actions EXCEPT ![r] = "open"]
  PROVE  IInv'
<1> USE DEF rowVars, agentVars
<1>0. /\ actions' \in [Request -> {"absent", "open", "withdrawn", "abandoned", "SUCCESS", "FAILED"}]
      /\ q.phase # "ended" => actions'[r] = "absent"
      /\ \A s \in Request : s # r => actions'[s] = actions[s]
  BY FreshIsNew DEF IInv, TypeOK
<1>1. TypeOK' BY <1>0 DEF IInv, TypeOK, Becomes
<1>2. ~settling[r].due /\ \A kb \in KB : history[r][kb] = "none" BY FreshIsNew
<1>3. \A s \in Request : RequestLinks(s)' /\ OutcomeLinks(s)' /\ HistoryLinks(s)'
  <2> SUFFICES ASSUME NEW s \in Request
               PROVE  RequestLinks(s)' /\ OutcomeLinks(s)' /\ HistoryLinks(s)'
    OBVIOUS
  <2>1. RequestLinks(s) /\ OutcomeLinks(s) /\ HistoryLinks(s) BY Parts DEF IInv
  <2>2. CASE s = r
    BY <1>0, <1>2, <2>2 DEF Becomes, RequestLinks, OutcomeLinks, HistoryLinks, Targets
  <2>3. CASE s # r
    BY <1>0, <2>1, <2>3 DEF Becomes, RequestLinks, OutcomeLinks, HistoryLinks, Targets
  <2> QED BY <2>2, <2>3
<1>4. \A h \in Handler : ReportLinks(h)' BY Parts DEF IInv, ReportLinks
<1> QED BY <1>1, <1>3, <1>4, Parts DEF IInv

LEMMA RequestedPatches ==
  ASSUME IInv, NEW r \in Request, NEW kind \in Kind \ {"REBOOT"}, RequestPatches(r, kind)
  PROVE  IInv'
<1>1. PICK targets \in (SUBSET Eligible(kind)) \ {{}} :
        requests' = [requests EXCEPT ![r] =
          [NoRequest EXCEPT !.phase = "prepare", !.kind = kind,
                            !.targets = targets, !.before = [kb \in targets |-> patch[kb]]]]
  BY DEF RequestPatches
<1> DEFINE before == [kb \in targets |-> patch[kb]]
           q == [NoRequest EXCEPT !.phase = "prepare", !.kind = kind,
                                  !.targets = targets, !.before = before]
<1>2. targets \in SUBSET KB /\ before \in [targets -> Pending]
  BY DEF Eligible
<1>3. before \in OfSome(Pending) BY <1>2, RowsOfSome
<1>4. q \in RequestRow /\ q.phase = "prepare" /\ q.kind = kind /\ q.targets = targets
      /\ q.before = before
  <2> HIDE DEF before
  <2> QED BY <1>2, <1>3, NothingTypes DEF RequestRow, NoRequest
<1>5. Becomes(r, q) BY <1>1, <1>4, RequestBecomes DEF IInv
<1> HIDE DEF q, before
<1> QED BY <1>2, <1>4, <1>5, RequestBegins DEF RequestPatches

LEMMA RequestedBareAction ==
  ASSUME IInv, NEW r \in Request, NEW kind \in Kind, NEW targets \in SUBSET KB,
         kind = "REBOOT" => targets = {}, RequestBareAction(r, kind, targets)
  PROVE  IInv'
<1> DEFINE q == [NoRequest EXCEPT !.phase = "ended", !.kind = kind, !.targets = targets]
<1>1. q \in RequestRow /\ q.phase = "ended" /\ q.kind = kind /\ q.targets = targets
  BY NothingTypes DEF RequestRow, NoRequest
<1>2. requests' = [requests EXCEPT ![r] = q] BY DEF RequestBareAction
<1>3. Becomes(r, q) BY <1>1, <1>2, RequestBecomes DEF IInv
<1> HIDE DEF q
<1> QED BY <1>1, <1>3, RequestBegins DEF RequestBareAction

LEMMA RequestedReboot ==
  ASSUME IInv, NEW r \in Request, RequestReboot(r)
  PROVE  IInv'
<1> DEFINE q == [NoRequest EXCEPT !.phase = "prepare", !.kind = "REBOOT"]
<1>1. q \in RequestRow /\ q.phase = "prepare" /\ q.kind = "REBOOT" /\ q.targets = {}
  BY NothingTypes DEF RequestRow, NoRequest, Kind
<1>2. requests' = [requests EXCEPT ![r] = q] BY DEF RequestReboot
<1>3. Becomes(r, q) BY <1>1, <1>2, RequestBecomes DEF IInv
<1> HIDE DEF q
<1> QED BY <1>1, <1>3, RequestBegins DEF RequestReboot

\* What is written of actions and of history is of the request r.
ActionOf(r)  == \A s \in Request : s # r => actions'[s] = actions[s]
HistoryOf(r) == \A s \in Request, kb \in KB : history'[s][kb] # "none" =>
                  history[s][kb] # "none" \/ (s = r /\ kb \in Targets(r))

\* A request goes on: what it is for stays what it was for.
LEMMA RequestMoves ==
  ASSUME IInv, NEW r \in Request, requests[r].phase \in {"prepare", "create"},
         \/ GoesOn(r, "create") /\ UNCHANGED actions
         \/ GoesOn(r, "ended") /\ ActionOf(r),
         settling' = settling, handling' = handling, HistoryOf(r)
  PROVE  LinksOK'
<1> USE DEF ActionOf, HistoryOf
<1>1. ASSUME NEW s \in Request PROVE RequestLinks(s)' /\ OutcomeLinks(s)' /\ HistoryLinks(s)'
  <2>1. RequestLinks(s) /\ OutcomeLinks(s) /\ HistoryLinks(s) /\ requests[s] \in RequestRow
    BY Parts DEF IInv, TypeOK
  <2>2. CASE s = r
    <3>1. RequestLinks(s)' BY <2>1, <2>2 DEF GoesOn, RequestLinks, Targets
    <3>2. ~settling[r].due BY <2>1, <2>2 DEF RequestLinks, OutcomeLinks
    <3>3. HistoryLinks(s)' BY <2>1, <2>2 DEF GoesOn, HistoryLinks, Targets
    <3> QED BY <2>2, <3>1, <3>2, <3>3 DEF OutcomeLinks
  <2>3. CASE s # r
    BY <2>1, <2>3 DEF GoesOn, RequestLinks, OutcomeLinks, HistoryLinks, Targets
  <2> QED BY <2>2, <2>3
<1>2. \A h \in Handler : ReportLinks(h)' BY Parts DEF IInv, ReportLinks
<1> QED BY <1>1, <1>2, Parts

LEMMA Prepares ==
  ASSUME IInv, NEW r \in Request, Prepare(r)
  PROVE  /\ IInv' /\ UNCHANGED <<reboot, actions>>
         /\ \/ /\ GoesOn(r, "create")
               /\ \A kb \in KB : patch'[kb] = IF kb \in Targets(r) THEN Prepared(requests[r].kind)
                                              ELSE patch[kb]
               /\ \A s \in Request, kb \in KB :
                    history'[s][kb] = IF s # r THEN history[s][kb]
                                      ELSE IF kb \in Targets(r) THEN "IN_PROGRESS" ELSE "none"
            \/ GoesOn(r, "ended") /\ UNCHANGED <<patch, history>>
<1>1. CASE requests' = Answered(r) /\ UNCHANGED <<patch, history>>
  <2>1. GoesOn(r, "ended") BY <1>1, AnswerGoesOn DEF IInv
  <2>2. ActionOf(r) /\ HistoryOf(r) BY <1>1 DEF Prepare, ActionOf, HistoryOf
  <2>3. LinksOK' BY <2>1, <2>2, RequestMoves DEF Prepare
  <2>4. TypeOK' BY <1>1, <2>1 DEF Prepare, IInv, TypeOK, GoesOn, agentVars
  <2> QED BY <1>1, <2>1, <2>3, <2>4 DEF IInv, Prepare
<1>2. CASE ~(requests' = Answered(r) /\ UNCHANGED <<patch, history>>)
  <2>1. /\ requests' = [requests EXCEPT ![r].phase = "create"]
        /\ patch' = [kb \in KB |-> IF kb \in Targets(r) THEN Prepared(requests[r].kind) ELSE patch[kb]]
        /\ history' = [history EXCEPT ![r] =
             [kb \in KB |-> IF kb \in Targets(r) THEN "IN_PROGRESS" ELSE "none"]]
    BY <1>2 DEF Prepare
  <2>2. GoesOn(r, "create") BY <2>1, PhaseGoesOn DEF IInv, Phases
  <2>3. patch' \in [KB -> Status] BY <2>1 DEF IInv, TypeOK, Prepared, Status, Pending
  <2>4. /\ history' \in [Request -> [KB -> {"none", "IN_PROGRESS", "SUCCESS", "FAILED"}]]
        /\ \A s \in Request, kb \in KB :
             history'[s][kb] = IF s # r THEN history[s][kb]
                               ELSE IF kb \in Targets(r) THEN "IN_PROGRESS" ELSE "none"
    BY <2>1 DEF IInv, TypeOK
  <2>5. TypeOK' BY <2>2, <2>3, <2>4 DEF Prepare, IInv, TypeOK, GoesOn, agentVars
  <2>6. LinksOK'
    <3>1. HistoryOf(r) BY <2>4 DEF HistoryOf
    <3> QED BY <2>2, <3>1, RequestMoves DEF Prepare
  <2>7. \A kb \in KB : patch'[kb] = IF kb \in Targets(r) THEN Prepared(requests[r].kind)
                                    ELSE patch[kb]
    BY <2>1
  <2> QED BY <2>2, <2>4, <2>5, <2>6, <2>7 DEF IInv, Prepare
<1> QED BY <1>1, <1>2

LEMMA SchedulesReboot ==
  ASSUME IInv, NEW r \in Request, ScheduleReboot(r)
  PROVE  IInv' /\ GoesOn(r, "create")
<1> DEFINE q == [requests[r] EXCEPT !.phase = "create", !.at = now + Delay]
<1>0. requests[r] \in RequestRow /\ now + Delay \in 0..(MaxTime + Delay)
  BY LimitsAssumption DEF IInv, TypeOK
<1>1. q \in RequestRow /\ q.phase = "create" /\ q.kind = requests[r].kind
      /\ q.targets = requests[r].targets /\ q.before = requests[r].before
  BY <1>0 DEF RequestRow
<1>2. requests' = [requests EXCEPT ![r] = q] BY DEF ScheduleReboot
<1>3. GoesOn(r, "create")
  <2>1. Becomes(r, q) BY <1>1, <1>2, RequestBecomes DEF IInv
  <2> QED BY <1>1, <2>1 DEF Becomes, GoesOn
<1>4. reboot' \in RebootState BY <1>0 DEF ScheduleReboot, RebootState
<1>5. TypeOK' BY <1>3, <1>4 DEF ScheduleReboot, IInv, TypeOK, GoesOn, agentVars
<1>6. LinksOK'
  <2>1. HistoryOf(r) BY DEF HistoryOf, ScheduleReboot
  <2> QED BY <1>3, <2>1, RequestMoves DEF ScheduleReboot
<1> QED BY <1>3, <1>5, <1>6 DEF IInv

LEMMA CreatesAction ==
  ASSUME IInv, NEW r \in Request, CreateAction(r)
  PROVE  IInv' /\ GoesOn(r, "ended") /\ actions'[r] = "open"
<1>1. GoesOn(r, "ended") BY AnswerGoesOn DEF IInv, CreateAction
<1>2. /\ actions' \in [Request -> {"absent", "open", "withdrawn", "abandoned", "SUCCESS", "FAILED"}]
      /\ actions'[r] = "open" /\ \A s \in Request : s # r => actions'[s] = actions[s]
  BY DEF IInv, TypeOK, CreateAction
<1>3. TypeOK' BY <1>1, <1>2 DEF CreateAction, IInv, TypeOK, GoesOn, agentVars, rowVars
<1>4. LinksOK'
  <2>1. ActionOf(r) /\ HistoryOf(r) BY <1>2 DEF ActionOf, HistoryOf, CreateAction, rowVars
  <2> QED BY <1>1, <2>1, RequestMoves DEF CreateAction
<1> QED BY <1>1, <1>2, <1>3, <1>4 DEF IInv

LEMMA FailsToCreate ==
  ASSUME IInv, NEW r \in Request, CreateActionFails(r)
  PROVE  /\ IInv' /\ GoesOn(r, "ended") /\ faults' > 0
         /\ \A kb \in KB : patch'[kb] = patch[kb] \/ patch'[kb] \in Pending
         /\ \A s \in Request, kb \in KB :
              history'[s][kb] = history[s][kb] \/ history'[s][kb] = "none"
<1>1. GoesOn(r, "ended") BY AnswerGoesOn DEF IInv, CreateActionFails
<1>2. faults' \in 0..MaxFaults /\ faults' > 0
  BY LimitsAssumption DEF IInv, TypeOK, CreateActionFails, Fault
<1>3. \A kb \in KB : patch'[kb] = patch[kb] \/ patch'[kb] \in Pending
  <2>1. requests[r].kind # "REBOOT" => requests[r].before \in [Targets(r) -> Pending]
    BY Parts DEF CreateActionFails, IInv, RequestLinks
  <2>2. requests[r].kind = "REBOOT" => Targets(r) = {} BY Parts DEF IInv, RequestLinks
  <2> QED BY <2>1, <2>2 DEF CreateActionFails
<1>4. patch' \in [KB -> Status] BY <1>3 DEF CreateActionFails, IInv, TypeOK, Status
<1>5. /\ history' \in [Request -> [KB -> {"none", "IN_PROGRESS", "SUCCESS", "FAILED"}]]
      /\ \A s \in Request, kb \in KB : history'[s][kb] = history[s][kb] \/ history'[s][kb] = "none"
  BY DEF CreateActionFails, IInv, TypeOK
<1>6. reboot' \in RebootState BY DEF CreateActionFails, IInv, TypeOK, RebootState
<1>7. TypeOK'
  BY <1>1, <1>2, <1>4, <1>5, <1>6 DEF CreateActionFails, IInv, TypeOK, GoesOn, agentVars
<1>8. LinksOK'
  <2>1. ActionOf(r) /\ HistoryOf(r) BY <1>5 DEF ActionOf, HistoryOf, CreateActionFails
  <2> QED BY <1>1, <2>1, RequestMoves DEF CreateActionFails
<1> QED BY <1>1, <1>2, <1>3, <1>5, <1>7, <1>8 DEF IInv

LEMMA Reported ==
  ASSUME IInv, NEW r \in Request, ActionReports(r)
  PROVE  IInv' /\ settling'[r].due /\ \A s \in Request : s # r => settling'[s] = settling[s]
<1>1. PICK of \in [Targets(r) -> Outcomes], good \in BOOLEAN, rebootRequired \in BOOLEAN :
        /\ requests[r].kind # "INSTALL" => \A kb \in Targets(r) : of[kb] # "installed"
        /\ settling' = [settling EXCEPT ![r] =
             [due |-> TRUE, good |-> good, of |-> of, rebootRequired |-> rebootRequired]]
        /\ actions' = [actions EXCEPT ![r] = IF good THEN "SUCCESS" ELSE "FAILED"]
  BY DEF ActionReports, Outcomes
<1> DEFINE new == [due |-> TRUE, good |-> good, of |-> of, rebootRequired |-> rebootRequired]
<1>2. requests[r].phase = "ended"
  BY Parts DEF ActionReports, IInv, RequestLinks, TypeOK, RequestRow
<1>3. Targets(r) \in SUBSET KB BY DEF IInv, TypeOK, RequestRow, Targets
<1>4. of \in OfSome(Outcomes) BY <1>3, RowsOfSome
<1>5. new \in Outcome /\ new.due = TRUE /\ new.good = good /\ new.of = of
  BY <1>4 DEF Outcome, Outcomes
<1>6. /\ settling' \in [Request -> Outcome] /\ settling'[r] = new
      /\ \A s \in Request : s # r => settling'[s] = settling[s]
  <2> HIDE DEF new
  <2> QED BY <1>1, <1>5 DEF IInv, TypeOK, new
<1>7. /\ actions' \in [Request -> {"absent", "open", "withdrawn", "abandoned", "SUCCESS", "FAILED"}]
      /\ actions'[r] = IF good THEN "SUCCESS" ELSE "FAILED"
      /\ \A s \in Request : s # r => actions'[s] = actions[s]
  BY <1>1 DEF IInv, TypeOK
<1> HIDE DEF new
<1>8. TypeOK' BY <1>6, <1>7 DEF ActionReports, IInv, TypeOK, rowVars, agentVars
<1>9. ASSUME NEW s \in Request PROVE RequestLinks(s)' /\ OutcomeLinks(s)' /\ HistoryLinks(s)'
  <2>1. RequestLinks(s) /\ OutcomeLinks(s) /\ HistoryLinks(s) BY Parts DEF IInv
  <2>2. UNCHANGED <<requests, history>> BY DEF ActionReports, rowVars
  <2>3. RequestLinks(s)' /\ HistoryLinks(s)'
    BY <1>2, <1>7, <2>1, <2>2 DEF RequestLinks, HistoryLinks, Targets
  <2>4. OutcomeLinks(s)'
    <3>1. CASE s = r
      BY <1>1, <1>5, <1>6, <1>7, <2>2, <3>1 DEF OutcomeLinks, Targets
    <3>2. CASE s # r BY <1>6, <1>7, <2>1, <2>2, <3>2 DEF OutcomeLinks, Targets
    <3> QED BY <3>1, <3>2
  <2> QED BY <2>3, <2>4
<1>10. \A h \in Handler : ReportLinks(h)' BY Parts DEF IInv, ReportLinks, ActionReports
<1> QED BY <1>5, <1>6, <1>8, <1>9, <1>10, Parts DEF IInv

LEMMA Ended ==
  ASSUME IInv, NEW r \in Request, ActionEnds(r)
  PROVE  IInv' /\ r \in reconciling' /\ \A s \in Request : s # r => actions'[s] = actions[s]
<1>1. PICK status \in {"withdrawn", "abandoned"} : actions' = [actions EXCEPT ![r] = status]
  BY DEF ActionEnds
<1>2. requests[r].phase = "ended"
  BY Parts DEF ActionEnds, IInv, RequestLinks, TypeOK, RequestRow
<1>3. /\ actions' \in [Request -> {"absent", "open", "withdrawn", "abandoned", "SUCCESS", "FAILED"}]
      /\ \A s \in Request : s # r => actions'[s] = actions[s]
  BY <1>1 DEF IInv, TypeOK
<1>4. TypeOK' BY <1>3 DEF ActionEnds, IInv, TypeOK, rowVars, agentVars
<1>5. ASSUME NEW s \in Request PROVE RequestLinks(s)' /\ OutcomeLinks(s)' /\ HistoryLinks(s)'
  <2>1. RequestLinks(s) /\ OutcomeLinks(s) /\ HistoryLinks(s) BY Parts DEF IInv
  <2>2. UNCHANGED <<requests, history, settling>> BY DEF ActionEnds, rowVars
  <2>3. ~settling[r].due
    <3>1. actions[r] = "open" /\ OutcomeLinks(r) BY Parts DEF ActionEnds, IInv
    <3> QED BY <3>1 DEF OutcomeLinks
  <2> QED BY <1>2, <1>3, <2>1, <2>2, <2>3 DEF RequestLinks, OutcomeLinks, HistoryLinks, Targets
<1>6. \A h \in Handler : ReportLinks(h)' BY Parts DEF IInv, ReportLinks, ActionEnds
<1> QED BY <1>3, <1>4, <1>5, <1>6, Parts DEF IInv, ActionEnds

\* The follow-ups of an action leave the requests, and write history that is there.
LEMMA FollowUpLinks ==
  ASSUME IInv, UNCHANGED <<requests, actions, handling>>,
         \A s \in Request : settling'[s] = settling[s] \/ ~settling'[s].due,
         \A s \in Request, kb \in KB : history'[s][kb] # "none" => history[s][kb] # "none"
  PROVE  LinksOK'
<1>1. ASSUME NEW s \in Request PROVE RequestLinks(s)' /\ OutcomeLinks(s)' /\ HistoryLinks(s)'
  BY Parts DEF IInv, RequestLinks, OutcomeLinks, HistoryLinks, Targets
<1>2. \A h \in Handler : ReportLinks(h)' BY Parts DEF IInv, ReportLinks
<1> QED BY <1>1, <1>2, Parts

LEMMA Reconciled ==
  ASSUME IInv, NEW r \in Request, Reconcile(r)
  PROVE  IInv'
<1>1. /\ history' \in [Request -> [KB -> {"none", "IN_PROGRESS", "SUCCESS", "FAILED"}]]
      /\ \A s \in Request, kb \in KB : history'[s][kb] # "none" => history[s][kb] # "none"
  BY DEF Reconcile, IInv, TypeOK, Closes
<1>2. patch' \in [KB -> Status] BY DEF Reconcile, IInv, TypeOK, Status, Pending
<1>3. reboot' \in RebootState BY DEF Reconcile, IInv, TypeOK, RequiresReboot, RebootState
<1>4. TypeOK' BY <1>1, <1>2, <1>3 DEF Reconcile, IInv, TypeOK, agentVars
<1>5. LinksOK' BY <1>1, FollowUpLinks DEF Reconcile
<1> QED BY <1>4, <1>5 DEF IInv

LEMMA SettledIsStatus ==
  ASSUME IInv, NEW r \in Request, NEW kb \in KB
  PROVE  Settled(r, kb) \in Status
BY DEF IInv, TypeOK, Settled, Status, Pending

LEMMA IsSettled ==
  ASSUME IInv, NEW r \in Request, Settle(r)
  PROVE  IInv' /\ ~settling'[r].due /\ \A s \in Request : s # r => settling'[s] = settling[s]
<1>1. /\ history' \in [Request -> [KB -> {"none", "IN_PROGRESS", "SUCCESS", "FAILED"}]]
      /\ \A s \in Request, kb \in KB : history'[s][kb] # "none" => history[s][kb] # "none"
  BY DEF Settle, IInv, TypeOK, Closes
<1>2. patch' \in [KB -> Status] BY SettledIsStatus DEF Settle, IInv, TypeOK
<1>3. /\ settling' \in [Request -> Outcome] /\ ~settling'[r].due
      /\ \A s \in Request : s # r => settling'[s] = settling[s]
  BY NothingTypes DEF Settle, IInv, TypeOK
<1>4. reboot' \in RebootState
  <2>1. reboot \in RebootState BY DEF IInv, TypeOK
  <2>2. [reboot EXCEPT !.state = "REBOOT_REQUIRED"] \in RebootState BY <2>1 DEF RebootState
  <2>3. RequiresReboot \in RebootState BY DEF RequiresReboot, RebootState
  <2>4. reboot' \in {[reboot EXCEPT !.state = "REBOOT_REQUIRED"], RequiresReboot, reboot}
    BY DEF Settle
  <2> QED BY <2>1, <2>2, <2>3, <2>4
<1>5. verified' \subseteq KB BY DEF Settle, IInv, TypeOK, Targets, RequestRow
<1>6. TypeOK' BY <1>1, <1>2, <1>3, <1>4, <1>5 DEF Settle, IInv, TypeOK, agentVars
<1>7. LinksOK' BY <1>1, <1>3, FollowUpLinks DEF Settle
<1> QED BY <1>3, <1>6, <1>7 DEF IInv

LEMMA Scanning ==
  ASSUME IInv, Scan
  PROVE  IInv'
<1>1. now' \in 0..MaxTime BY LimitsAssumption DEF Scan, IInv, TypeOK
<1>2. PICK found \in Scanned, pending \in BOOLEAN :
        scans' = scans \cup {[found |-> found, pending |-> pending, at |-> now']}
  BY DEF Scan, Scanned
<1>3. scans' \subseteq [found : Scanned, pending : BOOLEAN, at : 0..MaxTime]
  BY <1>1, <1>2 DEF IInv, TypeOK
<1>4. TypeOK' BY <1>1, <1>3 DEF Scan, IInv, TypeOK, rowVars
<1>5. LinksOK' BY DEF IInv, LinksOK, Scan, rowVars, Targets
<1> QED BY <1>4, <1>5 DEF IInv

\* Only the report h goes on.
ReportBecomes(h, new) ==
  /\ handling' \in [Handler -> Report]
  /\ handling'[h] = new
  /\ \A g \in Handler : g # h => handling'[g] = handling[g]

LEMMA HandlingBecomes ==
  ASSUME TypeOK, NEW h \in Handler, NEW new \in Report, handling' = [handling EXCEPT ![h] = new]
  PROVE  ReportBecomes(h, new)
BY DEF TypeOK, ReportBecomes

LEMMA ReportSteps ==
  ASSUME IInv, NEW h \in Handler, NEW new \in Report, ReportBecomes(h, new),
         new.phase \in {"apply", "mark"} => new.found \in Scanned,
         new.phase = "idle" => new = NoReport,
         UNCHANGED <<history, requests, actions, settling>>
  PROVE  LinksOK'
<1>1. ASSUME NEW s \in Request PROVE RequestLinks(s)' /\ OutcomeLinks(s)' /\ HistoryLinks(s)'
  BY Parts DEF IInv, RequestLinks, OutcomeLinks, HistoryLinks, Targets
<1>2. \A g \in Handler : ReportLinks(g)' BY Parts DEF IInv, ReportLinks, ReportBecomes
<1> QED BY <1>1, <1>2, Parts

LEMMA Arrived ==
  ASSUME IInv, NEW h \in Handler, NEW s \in scans, ReportArrives(h, s)
  PROVE  IInv'
<1>1. s \in [found : Scanned, pending : BOOLEAN, at : 0..MaxTime]
      /\ scans' \subseteq [found : Scanned, pending : BOOLEAN, at : 0..MaxTime]
  BY DEF ReportArrives, IInv, TypeOK
<1>2. CASE UNCHANGED handling
  <2>1. TypeOK' BY <1>1, <1>2 DEF ReportArrives, IInv, TypeOK, rowVars
  <2>2. LinksOK' BY <1>2 DEF IInv, LinksOK, ReportArrives, rowVars, Targets
  <2> QED BY <2>1, <2>2 DEF IInv
<1>3. CASE ~UNCHANGED handling
  <2> DEFINE installing == UNION {Targets(r) : r \in Open({"INSTALL"})}
             new == [phase |-> "apply", found |-> s.found, pending |-> s.pending, at |-> s.at,
                     seen |-> reboot, installing |-> installing]
  <2>1. handling' = [handling EXCEPT ![h] = new] BY <1>3 DEF ReportArrives
  <2>2. installing \subseteq KB BY DEF Open, Targets, IInv, TypeOK, RequestRow
  <2>3. new \in Report /\ new.phase = "apply" /\ new.found \in Scanned
    <3> HIDE DEF installing
    <3> QED BY <1>1, <2>2 DEF Report, IInv, TypeOK
  <2>4. ReportBecomes(h, new)
    <3> HIDE DEF new
    <3> QED BY <2>1, <2>3, HandlingBecomes DEF IInv
  <2> HIDE DEF new
  <2>5. TypeOK' BY <1>1, <2>4 DEF ReportArrives, IInv, TypeOK, ReportBecomes, rowVars
  <2>6. LinksOK' BY <2>3, <2>4, ReportSteps DEF ReportArrives, rowVars
  <2> QED BY <2>5, <2>6 DEF IInv
<1> QED BY <1>2, <1>3

\* What a report writes: no update is shown as installed or as being installed by it.
LEMMA Applied ==
  ASSUME IInv, NEW h \in Handler, ApplyReport(h)
  PROVE  /\ IInv'
         /\ \A kb \in KB : patch'[kb] = patch[kb] \/ patch'[kb] \notin {"INSTALLED", "INSTALLING"}
         /\ reboot'.state = reboot.state \/ reboot'.state # "REBOOT_SCHEDULED"
<1> DEFINE g == handling[h]
<1>0. g \in Report /\ g.phase = "apply" /\ g.found \in Scanned /\ reboot \in RebootState
  BY Parts DEF ApplyReport, IInv, TypeOK, ReportLinks
<1>1. \A kb \in KB : g.found[kb] \in {"PENDING_DOWNLOAD", "DOWNLOADED", "ABSENT"}
  BY <1>0, FoundAssumption DEF Scanned
<1>2. /\ patch' \in [KB -> Status]
      /\ \A kb \in KB : patch'[kb] = patch[kb] \/ patch'[kb] \notin {"INSTALLED", "INSTALLING"}
  BY <1>1 DEF ApplyReport, IInv, TypeOK, Status, Pending
<1>3. /\ reboot' \in RebootState
      /\ reboot'.state = reboot.state \/ reboot'.state # "REBOOT_SCHEDULED"
  <2> DEFINE due == [reboot EXCEPT !.state = "REBOOT_REQUIRED"]
             over == [state |-> "NONE", at |-> Unscheduled]
  <2>1. due \in RebootState /\ due.state = "REBOOT_REQUIRED" BY <1>0 DEF RebootState
  <2>2. over \in RebootState /\ over.state = "NONE" BY DEF RebootState
  <2>3. reboot' \in {due, over, reboot} BY DEF ApplyReport, RebootAfter
  <2> HIDE DEF due, over
  <2> QED BY <1>0, <2>1, <2>2, <2>3
<1>4. watermark' \in 0..MaxTime BY <1>0 DEF ApplyReport, IInv, TypeOK, Report
<1> DEFINE new == [g EXCEPT !.phase = "mark", !.seen = NoReport.seen, !.installing = {}]
<1>5. new \in Report /\ new.phase = "mark" /\ new.found = g.found
  BY <1>0, NothingTypes DEF Report
<1>6. handling' = [handling EXCEPT ![h] = new] BY DEF ApplyReport
<1>7. ReportBecomes(h, new)
  <2> HIDE DEF new
  <2> QED BY <1>5, <1>6, HandlingBecomes DEF IInv
<1> HIDE DEF new
<1>8. TypeOK' BY <1>2, <1>3, <1>4, <1>7 DEF ApplyReport, IInv, TypeOK, ReportBecomes, agentVars
<1>9. LinksOK' BY <1>0, <1>5, <1>7, ReportSteps DEF ApplyReport
<1> QED BY <1>2, <1>3, <1>8, <1>9 DEF IInv

LEMMA Marked ==
  ASSUME IInv, NEW h \in Handler, MarkReport(h)
  PROVE  IInv'
<1>1. ReportBecomes(h, NoReport) BY NothingTypes, HandlingBecomes DEF MarkReport, IInv
<1>2. watermark' \in 0..MaxTime BY DEF MarkReport, IInv, TypeOK, Report
<1>3. TypeOK' BY <1>1, <1>2 DEF MarkReport, IInv, TypeOK, ReportBecomes, rowVars, agentVars
<1>4. LinksOK' BY <1>1, NothingTypes, ReportSteps DEF MarkReport, rowVars
<1> QED BY <1>3, <1>4 DEF IInv

\* A restart ends the requests that wait, and keeps what they were for.
LEMMA Restarted ==
  ASSUME IInv, ServerRestart
  PROVE  /\ IInv' /\ faults' > 0
         /\ \A r \in Request : requests'[r].kind = requests[r].kind
                               /\ requests'[r].targets = requests[r].targets
<1>1. /\ requests' \in [Request -> RequestRow]
      /\ \A r \in Request :
           /\ requests'[r].kind = requests[r].kind /\ requests'[r].targets = requests[r].targets
           /\ \/ requests'[r] = requests[r] /\ requests[r].phase \notin {"prepare", "create"}
              \/ requests'[r].phase = "ended"
  <2>1. \A r \in Request :
          /\ Answered(r)[r] \in RequestRow /\ Answered(r)[r].phase = "ended"
          /\ Answered(r)[r].kind = requests[r].kind /\ Answered(r)[r].targets = requests[r].targets
    BY AnsweredIs DEF IInv, TypeOK
  <2>2. requests \in [Request -> RequestRow] BY DEF IInv, TypeOK
  <2> QED BY <2>1, <2>2 DEF ServerRestart
<1>2. faults' \in 0..MaxFaults /\ faults' > 0
  BY LimitsAssumption DEF IInv, TypeOK, ServerRestart, Fault
<1>3. scans' \subseteq [found : Scanned, pending : BOOLEAN, at : 0..MaxTime]
  <2>1. \A h \in Handler : handling[h] # NoReport =>
          [found |-> handling[h].found, pending |-> handling[h].pending, at |-> handling[h].at]
            \in [found : Scanned, pending : BOOLEAN, at : 0..MaxTime]
    BY Parts DEF IInv, TypeOK, ReportLinks, Report
  <2> QED BY <2>1 DEF ServerRestart, IInv, TypeOK
<1>4. settling' \in [Request -> Outcome] /\ \A r \in Request : ~settling'[r].due
  BY NothingTypes DEF ServerRestart
<1>5. handling' \in [Handler -> Report] /\ \A h \in Handler : ReportLinks(h)'
  BY NothingTypes DEF ServerRestart, ReportLinks
<1>6. TypeOK' BY <1>1, <1>2, <1>3, <1>4, <1>5 DEF ServerRestart, IInv, TypeOK, rowVars
<1>7. ASSUME NEW r \in Request PROVE RequestLinks(r)' /\ OutcomeLinks(r)' /\ HistoryLinks(r)'
  <2>1. RequestLinks(r) /\ HistoryLinks(r) BY Parts DEF IInv
  <2> QED BY <1>1, <1>4, <2>1
          DEF ServerRestart, RequestLinks, OutcomeLinks, HistoryLinks, Targets, rowVars
<1> QED BY <1>1, <1>2, <1>5, <1>6, <1>7, Parts DEF IInv

LEMMA NextIInv ==
  ASSUME IInv, [Next]_vars
  PROVE  IInv'
<1>1. CASE UNCHANGED vars
  BY <1>1 DEF vars, rowVars, agentVars, IInv, TypeOK, LinksOK, Targets
<1>2. ASSUME NEW r \in Request, NEW kind \in Kind \ {"REBOOT"},
             RequestPatches(r, kind) \/ \E kb \in KB : RequestBareAction(r, kind, {kb})
      PROVE  IInv'
  BY <1>2, RequestedPatches, RequestedBareAction
<1>3. ASSUME NEW r \in Request, RequestBareAction(r, "REBOOT", {}) PROVE IInv'
  BY <1>3, RequestedBareAction DEF Kind
<1>4. ASSUME NEW r \in Request,
             \/ Prepare(r) \/ RequestReboot(r) \/ ScheduleReboot(r)
             \/ CreateAction(r) \/ CreateActionFails(r)
      PROVE  IInv'
  BY <1>4, Prepares, RequestedReboot, SchedulesReboot, CreatesAction, FailsToCreate
<1>5. ASSUME NEW r \in Request,
             ActionReports(r) \/ ActionEnds(r) \/ Reconcile(r) \/ Settle(r)
      PROVE  IInv'
  BY <1>5, Reported, Ended, Reconciled, IsSettled
<1>6. ASSUME NEW h \in Handler,
             (\E s \in scans : ReportArrives(h, s)) \/ ApplyReport(h) \/ MarkReport(h)
      PROVE  IInv'
  BY <1>6, Arrived, Applied, Marked
<1> QED BY <1>1, <1>2, <1>3, <1>4, <1>5, <1>6, Scanning, Restarted DEF Next

-----------------------------------------------------------------------------
(* What is in progress is pursued                                           *)

\* A request that began keeps its kind and its updates.
LEMMA PurposeKept ==
  ASSUME IInv, [Next]_vars, NEW r \in Request, requests[r].phase # "new"
  PROVE  requests'[r].kind = requests[r].kind /\ Targets(r)' = Targets(r)
<1> SUFFICES requests'[r].kind = requests[r].kind /\ requests'[r].targets = requests[r].targets
  BY DEF Targets
<1>1. CASE UNCHANGED requests BY <1>1
<1>2. CASE ServerRestart BY <1>2, Restarted
<1>3. ASSUME NEW s \in Request, Fresh(s), NEW q, requests' = [requests EXCEPT ![s] = q]
      PROVE  requests'[r] = requests[r]
  BY <1>3, FreshIsNew DEF IInv, TypeOK
<1>4. ASSUME NEW s \in Request, GoesOn(s, "create") \/ GoesOn(s, "ended")
      PROVE  requests'[r].kind = requests[r].kind /\ requests'[r].targets = requests[r].targets
  BY <1>4 DEF GoesOn
<1>5. \/ UNCHANGED requests \/ ServerRestart
      \/ \E s \in Request : \/ Fresh(s) /\ \E q : requests' = [requests EXCEPT ![s] = q]
                            \/ Prepare(s) \/ ScheduleReboot(s)
                            \/ CreateAction(s) \/ CreateActionFails(s)
  BY DEF Next, vars, Scan, RequestPatches, RequestBareAction, RequestReboot, ActionReports,
         ActionEnds, Reconcile, Settle, ReportArrives, ApplyReport, MarkReport
<1> QED BY <1>1, <1>2, <1>3, <1>4, <1>5, Prepares, SchedulesReboot, CreatesAction, FailsToCreate

\* What a request pursues is pursued until its follow-up, a fault apart.
LEMMA PursuitKept ==
  ASSUME IInv, [Next]_vars, NEW r \in Request, Pursued(r), ~Settle(r), ~Reconcile(r)
  PROVE  Pursued(r)' \/ faults' > 0
<1> USE DEF rowVars, agentVars
<1>1. CASE UNCHANGED <<requests, actions, settling, reconciling>> BY <1>1 DEF Pursued
<1>2. CASE ServerRestart BY <1>2, Restarted
<1>3. ASSUME NEW s \in Request, Fresh(s), NEW q, requests' = [requests EXCEPT ![s] = q],
             UNCHANGED <<settling, reconciling>>,
             UNCHANGED actions \/ actions' = [actions EXCEPT ![s] = "open"]
      PROVE  Pursued(r)'
  BY <1>3, FreshIsNew DEF IInv, TypeOK, Pursued
<1>4. ASSUME NEW s \in Request, GoesOn(s, "create") \/ GoesOn(s, "ended"),
             UNCHANGED <<settling, reconciling>>,
             \/ UNCHANGED actions /\ (requests[s].phase = "prepare" \/ faults' > 0)
             \/ actions' = [actions EXCEPT ![s] = "open"]
      PROVE  Pursued(r)' \/ faults' > 0
  BY <1>4 DEF GoesOn, Pursued, IInv, TypeOK
<1>5. ASSUME NEW s \in Request, ActionReports(s) PROVE Pursued(r)'
  <2>1. /\ settling'[s].due /\ \A u \in Request : u # s => settling'[u] = settling[u]
        /\ \A u \in Request : u # s => actions'[u] = actions[u]
        /\ UNCHANGED <<requests, reconciling>>
    BY <1>5, Reported DEF ActionReports, IInv, TypeOK
  <2> QED BY <2>1 DEF Pursued
<1>6. ASSUME NEW s \in Request, ActionEnds(s) PROVE Pursued(r)'
  <2>1. /\ s \in reconciling' /\ \A u \in Request : u # s => actions'[u] = actions[u]
        /\ UNCHANGED <<requests, settling>> /\ reconciling \subseteq reconciling'
    BY <1>6, Ended DEF ActionEnds
  <2> QED BY <2>1 DEF Pursued
<1>7. ASSUME NEW s \in Request, s # r, Reconcile(s) \/ Settle(s) PROVE Pursued(r)'
  <2>1. /\ settling'[r] = settling[r] /\ (r \in reconciling => r \in reconciling')
        /\ UNCHANGED <<requests, actions>>
    BY <1>7, IsSettled DEF Reconcile, Settle
  <2> QED BY <2>1 DEF Pursued
<1>8. \/ UNCHANGED <<requests, actions, settling, reconciling>> \/ ServerRestart
      \/ \E s \in Request :
           \/ /\ Fresh(s) /\ \E q : requests' = [requests EXCEPT ![s] = q]
              /\ UNCHANGED <<settling, reconciling>>
              /\ UNCHANGED actions \/ actions' = [actions EXCEPT ![s] = "open"]
           \/ Prepare(s) \/ ScheduleReboot(s) \/ CreateAction(s) \/ CreateActionFails(s)
           \/ ActionReports(s) \/ ActionEnds(s) \/ Reconcile(s) \/ Settle(s)
  BY DEF Next, vars, Scan, RequestPatches, RequestBareAction, RequestReboot, ReportArrives,
         ApplyReport, MarkReport
<1>9. ASSUME NEW s \in Request,
             Prepare(s) \/ ScheduleReboot(s) \/ CreateAction(s) \/ CreateActionFails(s)
      PROVE  Pursued(r)' \/ faults' > 0
  <2>1. CASE Prepare(s) BY <1>4, <2>1, Prepares DEF Prepare
  <2>2. CASE ScheduleReboot(s) BY <1>4, <2>2, SchedulesReboot DEF ScheduleReboot
  <2>3. CASE CreateAction(s) BY <1>4, <2>3, CreatesAction DEF CreateAction
  <2>4. CASE CreateActionFails(s) BY <2>4, FailsToCreate
  <2> QED BY <1>9, <2>1, <2>2, <2>3, <2>4
<1> QED BY <1>1, <1>2, <1>3, <1>5, <1>6, <1>7, <1>8, <1>9

\* What has a kind and updates of its own has begun.
LEMMA BegunIfFor ==
  ASSUME IInv, NEW r \in Request, requests[r].kind = "REBOOT" \/ Targets(r) # {}
  PROVE  requests[r].phase # "new"
BY Parts, NothingTypes DEF IInv, RequestLinks, Targets

\* Only a request for an installation shows an update as being installed.
LEMMA InstallingBegins ==
  ASSUME IInv, [Next]_vars, NEW kb \in KB, patch'[kb] = "INSTALLING", patch[kb] # "INSTALLING"
  PROVE  \E r \in Request : /\ requests'[r].kind = "INSTALL" /\ kb \in Targets(r)'
                            /\ requests'[r].phase = "create"
<1> USE DEF rowVars
<1>1. ~UNCHANGED patch OBVIOUS
<1>2. \/ \E r \in Request : Prepare(r) \/ CreateActionFails(r) \/ Reconcile(r) \/ Settle(r)
      \/ \E h \in Handler : ApplyReport(h)
  BY <1>1 DEF Next, vars, Scan, RequestPatches, RequestBareAction, RequestReboot, ScheduleReboot,
         CreateAction, ActionReports, ActionEnds, ReportArrives, MarkReport, ServerRestart
<1>3. ASSUME NEW r \in Request, Prepare(r)
      PROVE  requests'[r].kind = "INSTALL" /\ kb \in Targets(r)' /\ requests'[r].phase = "create"
  <2>1. /\ GoesOn(r, "create")
        /\ patch'[kb] = IF kb \in Targets(r) THEN Prepared(requests[r].kind) ELSE patch[kb]
    BY <1>3, Prepares
  <2>2. requests[r].kind \in Kind \ {"REBOOT"} BY <1>3 DEF Prepare, IInv, TypeOK, RequestRow
  <2> QED BY <2>1, <2>2 DEF Prepared, Kind, GoesOn, Targets
<1>4. ASSUME NEW r \in Request, CreateActionFails(r) PROVE FALSE
  <2>1. patch'[kb] = patch[kb] \/ patch'[kb] \in Pending BY <1>4, FailsToCreate
  <2> QED BY <2>1 DEF Pending
<1>5. ASSUME NEW r \in Request, Reconcile(r) \/ Settle(r) PROVE FALSE
  <2>1. CASE Reconcile(r) BY <2>1 DEF Reconcile
  <2>2. CASE Settle(r) BY <2>2 DEF Settle, Settled
  <2> QED BY <1>5, <2>1, <2>2
<1>6. ASSUME NEW h \in Handler, ApplyReport(h) PROVE FALSE BY <1>6, Applied
<1> QED BY <1>2, <1>3, <1>4, <1>5, <1>6

LEMMA FaultsStay == [Next]_vars /\ IInv => faults \in Nat /\ (faults' = faults \/ faults' > 0)
<1> SUFFICES ASSUME [Next]_vars, IInv PROVE faults \in Nat /\ (faults' = faults \/ faults' > 0)
  OBVIOUS
<1>1. faults \in Nat BY LimitsAssumption DEF IInv, TypeOK
<1>2. faults' = faults \/ faults' = faults + 1
  BY DEF Next, vars, Scan, RequestPatches, RequestBareAction, Prepare, RequestReboot,
         ScheduleReboot, CreateAction, CreateActionFails, Fault, ActionReports, ActionEnds,
         Reconcile, Settle, ReportArrives, ApplyReport, MarkReport, ServerRestart
<1> QED BY <1>1, <1>2

LEMMA InstallingKept ==
  ASSUME IInv, InstallingIsPursued, [Next]_vars
  PROVE  InstallingIsPursued'
<1> SUFFICES ASSUME faults' = 0, NEW kb \in KB, patch'[kb] = "INSTALLING"
             PROVE  \E r \in Request : requests'[r].kind = "INSTALL" /\ kb \in Targets(r)'
                                       /\ Pursued(r)'
  BY DEF InstallingIsPursued
<1>1. CASE patch[kb] # "INSTALLING" BY <1>1, InstallingBegins DEF Pursued
<1>2. CASE patch[kb] = "INSTALLING"
  <2>1. faults = 0 BY FaultsStay
  <2>2. PICK r \in Request : requests[r].kind = "INSTALL" /\ kb \in Targets(r) /\ Pursued(r)
    BY <1>2, <2>1 DEF InstallingIsPursued
  <2>3. requests'[r].kind = "INSTALL" /\ kb \in Targets(r)' BY <2>2, BegunIfFor, PurposeKept
  <2>4. ~Reconcile(r) BY <1>2, <2>2 DEF Reconcile, Prepared
  <2>5. ~Settle(r)
    <3> SUFFICES ASSUME Settle(r) PROVE FALSE
      OBVIOUS
    <3>1. patch'[kb] = Settled(r, kb) BY <1>2, <2>2 DEF Settle
    <3> QED BY <1>2, <2>2, <3>1 DEF Settled, Prepared
  <2>6. Pursued(r)' BY <2>2, <2>4, <2>5, PursuitKept, faults' = 0, ~(faults' > 0)
  <2> QED BY <2>3, <2>6
<1> QED BY <1>1, <1>2

\* Only the preparation of the rows of a request puts its history in progress.
LEMMA HistoryBegins ==
  ASSUME IInv, [Next]_vars, NEW r \in Request, NEW kb \in KB,
         history'[r][kb] = "IN_PROGRESS", history[r][kb] # "IN_PROGRESS"
  PROVE  requests'[r].phase = "create"
<1> USE DEF rowVars
<1>1. ~UNCHANGED history OBVIOUS
<1>2. \E s \in Request : Prepare(s) \/ CreateActionFails(s) \/ Reconcile(s) \/ Settle(s)
  BY <1>1 DEF Next, vars, Scan, RequestPatches, RequestBareAction, RequestReboot, ScheduleReboot,
         CreateAction, ActionReports, ActionEnds, ReportArrives, MarkReport, ServerRestart,
         ApplyReport
<1>3. ASSUME NEW s \in Request, Prepare(s) PROVE requests'[r].phase = "create"
  <2>1. /\ GoesOn(s, "create")
        /\ history'[r][kb] = IF r # s THEN history[r][kb]
                             ELSE IF kb \in Targets(s) THEN "IN_PROGRESS" ELSE "none"
    BY <1>3, Prepares
  <2> QED BY <2>1 DEF GoesOn
<1>4. ASSUME NEW s \in Request, CreateActionFails(s) PROVE FALSE
  <2>1. history'[r][kb] = history[r][kb] \/ history'[r][kb] = "none" BY <1>4, FailsToCreate
  <2> QED BY <2>1
<1>5. ASSUME NEW s \in Request, Reconcile(s) \/ Settle(s) PROVE FALSE
  BY <1>5 DEF Reconcile, Settle
<1> QED BY <1>2, <1>3, <1>4, <1>5

LEMMA HistoryKept ==
  ASSUME IInv, HistoryIsPursued, [Next]_vars
  PROVE  HistoryIsPursued'
<1> SUFFICES ASSUME NEW r \in Request, NEW kb \in KB, history'[r][kb] = "IN_PROGRESS"
             PROVE  Pursued(r)' \/ faults' > 0
  BY DEF HistoryIsPursued
<1>1. CASE history[r][kb] # "IN_PROGRESS" BY <1>1, HistoryBegins DEF Pursued
<1>2. CASE history[r][kb] = "IN_PROGRESS"
  <2>1. Pursued(r) \/ faults > 0 BY <1>2 DEF HistoryIsPursued
  <2>2. CASE faults > 0 BY <2>2, FaultsStay
  <2>3. CASE Pursued(r)
    <3>1. kb \in Targets(r) /\ requests[r].kind \in {"INSTALL", "DOWNLOAD"}
      BY <1>2, Parts DEF IInv, HistoryLinks, RequestLinks, TypeOK, RequestRow, Kind
    <3>2. Closes(r, r, kb) BY <1>2, <3>1 DEF Closes
    <3>3. ~Reconcile(r) BY <3>2 DEF Reconcile
    <3>4. ~Settle(r) BY <3>2 DEF Settle
    <3> QED BY <2>3, <3>3, <3>4, PursuitKept
  <2> QED BY <2>1, <2>2, <2>3
<1> QED BY <1>1, <1>2

LEMMA ScheduledBegins ==
  ASSUME IInv, [Next]_vars, reboot'.state = "REBOOT_SCHEDULED", reboot.state # "REBOOT_SCHEDULED"
  PROVE  \E r \in Request : requests'[r].kind = "REBOOT" /\ requests'[r].phase = "create"
<1> USE DEF rowVars
<1>0. reboot \in RebootState BY DEF IInv, TypeOK
<1>1. ~UNCHANGED reboot OBVIOUS
<1>2. \/ \E r \in Request : \/ ScheduleReboot(r) \/ CreateActionFails(r) \/ Reconcile(r)
                            \/ Settle(r)
      \/ \E h \in Handler : ApplyReport(h)
  BY <1>1 DEF Next, vars, Scan, RequestPatches, RequestBareAction, RequestReboot, Prepare,
         CreateAction, ActionReports, ActionEnds, ReportArrives, MarkReport, ServerRestart
<1>3. ASSUME NEW r \in Request, ScheduleReboot(r)
      PROVE  requests'[r].kind = "REBOOT" /\ requests'[r].phase = "create"
  BY <1>3, SchedulesReboot DEF ScheduleReboot, GoesOn
<1>4. ASSUME NEW r \in Request, CreateActionFails(r) \/ Reconcile(r) PROVE FALSE
  BY <1>4 DEF CreateActionFails, Reconcile, RequiresReboot
<1>5. ASSUME NEW r \in Request, Settle(r) PROVE FALSE
  <2>1. [reboot EXCEPT !.state = "REBOOT_REQUIRED"].state = "REBOOT_REQUIRED"
    BY <1>0 DEF RebootState
  <2>2. RequiresReboot.state = "REBOOT_REQUIRED" BY DEF RequiresReboot
  <2>3. reboot' \in {[reboot EXCEPT !.state = "REBOOT_REQUIRED"], RequiresReboot, reboot}
    BY <1>5 DEF Settle
  <2> QED BY <2>1, <2>2, <2>3
<1>6. ASSUME NEW h \in Handler, ApplyReport(h) PROVE FALSE BY <1>6, Applied
<1> QED BY <1>2, <1>3, <1>4, <1>5, <1>6

\* An action that succeeded has no other outcome later.
LEMMA SuccessStays ==
  ASSUME IInv, [Next]_vars, NEW r \in Request, actions[r] = "SUCCESS"
  PROVE  actions'[r] = "SUCCESS"
<1> USE DEF rowVars
<1>1. requests[r].phase = "ended"
  BY Parts DEF IInv, TypeOK, RequestRow, RequestLinks
<1>2. \/ UNCHANGED actions
      \/ \E s \in Request : \/ CreateAction(s) \/ ActionReports(s) \/ ActionEnds(s)
                            \/ Fresh(s) /\ actions' = [actions EXCEPT ![s] = "open"]
  BY DEF Next, vars, Scan, RequestPatches, RequestBareAction, RequestReboot, Prepare,
         ScheduleReboot, CreateActionFails, Reconcile, Settle, ApplyReport, ReportArrives,
         MarkReport, ServerRestart
<1>3. ASSUME NEW s \in Request,
             \/ CreateAction(s) \/ ActionReports(s) \/ ActionEnds(s)
             \/ Fresh(s) /\ actions' = [actions EXCEPT ![s] = "open"]
      PROVE  s # r
  BY <1>1, <1>3, FreshIsNew DEF CreateAction, ActionReports, ActionEnds
<1> QED BY <1>2, <1>3 DEF CreateAction, ActionReports, ActionEnds, IInv, TypeOK

LEMMA ScheduledKept ==
  ASSUME IInv, ScheduledIsPursued, [Next]_vars
  PROVE  ScheduledIsPursued'
<1> SUFFICES ASSUME faults' = 0, reboot'.state = "REBOOT_SCHEDULED"
             PROVE  \E r \in Request : /\ requests'[r].kind = "REBOOT"
                                       /\ Pursued(r)' \/ actions'[r] = "SUCCESS"
  BY DEF ScheduledIsPursued
<1>1. CASE reboot.state # "REBOOT_SCHEDULED" BY <1>1, ScheduledBegins DEF Pursued
<1>2. CASE reboot.state = "REBOOT_SCHEDULED"
  <2>1. faults = 0 /\ ~(faults' > 0) BY FaultsStay
  <2>2. PICK r \in Request : requests[r].kind = "REBOOT" /\ (Pursued(r) \/ actions[r] = "SUCCESS")
    BY <1>2, <2>1 DEF ScheduledIsPursued
  <2>3. requests'[r].kind = "REBOOT" BY <2>2, BegunIfFor, PurposeKept
  <2>4. CASE actions[r] = "SUCCESS" BY <2>3, <2>4, SuccessStays
  <2>5. CASE Settle(r)
    <3>1. settling[r].good
      BY <2>2, <2>5 DEF Settle, RequiresReboot
    <3>2. actions[r] = "SUCCESS"
      BY <2>5, <3>1, Parts DEF Settle, IInv, OutcomeLinks
    <3> QED BY <2>3, <3>2, SuccessStays
  <2>6. ~Reconcile(r) BY <1>2, <2>2 DEF Reconcile, RequiresReboot
  <2>7. CASE Pursued(r) /\ ~Settle(r) BY <2>1, <2>3, <2>6, <2>7, PursuitKept
  <2> QED BY <2>2, <2>4, <2>5, <2>7
<1> QED BY <1>1, <1>2

\* Rows, requests, actions, outcomes and reports are what the code assumes of each other, in every
\* interleaving of operators, scans and follow-ups, and across restarts and failed calls.
THEOREM RequestsConsistent == Spec => [](TypeOK /\ LinksOK)
BY InitIInv, NextIInv, PTL DEF Spec, IInv

\* Nothing shows as in progress for ever: as long as no fault cost a follow-up, an update that
\* shows as being installed, a history row in progress and a scheduled reboot belong to a request
\* that is still pursued.
THEOREM NothingStranded == Spec => []NothingIsStranded
<1> DEFINE PInv == IInv /\ InstallingIsPursued /\ HistoryIsPursued /\ ScheduledIsPursued
<1>1. Init => PInv
  <2> SUFFICES ASSUME Init PROVE InstallingIsPursued /\ HistoryIsPursued /\ ScheduledIsPursued
    BY InitIInv
  <2>1. \A kb \in KB : patch[kb] # "INSTALLING" BY FoundAssumption DEF Init
  <2>2. reboot.state # "REBOOT_SCHEDULED" BY DEF Init
  <2> QED BY <2>1, <2>2 DEF Init, InstallingIsPursued, HistoryIsPursued, ScheduledIsPursued
<1>2. PInv /\ [Next]_vars => PInv' BY NextIInv, InstallingKept, HistoryKept, ScheduledKept
<1>3. PInv => NothingIsStranded BY DEF IInv, NothingIsStranded
<1> QED BY <1>1, <1>2, <1>3, PTL DEF Spec

-----------------------------------------------------------------------------
(* Success is verified                                                      *)

\* Only an outcome in which the agent confirmed the update shows it as installed.
LEMMA InstalledBegins ==
  ASSUME IInv, [Next]_vars, NEW kb \in KB, patch'[kb] = "INSTALLED", patch[kb] # "INSTALLED"
  PROVE  kb \in verified'
<1> USE DEF rowVars
<1>1. ~UNCHANGED patch OBVIOUS
<1>2. \/ \E r \in Request : Prepare(r) \/ CreateActionFails(r) \/ Reconcile(r) \/ Settle(r)
      \/ \E h \in Handler : ApplyReport(h)
  BY <1>1 DEF Next, vars, Scan, RequestPatches, RequestBareAction, RequestReboot, ScheduleReboot,
         CreateAction, ActionReports, ActionEnds, ReportArrives, MarkReport, ServerRestart
<1>3. ASSUME NEW r \in Request, Prepare(r) PROVE FALSE
  <2>1. patch'[kb] = patch[kb] \/ patch'[kb] = Prepared(requests[r].kind) BY <1>3, Prepares
  <2> QED BY <2>1 DEF Prepared
<1>4. ASSUME NEW r \in Request, CreateActionFails(r) PROVE FALSE
  <2>1. patch'[kb] = patch[kb] \/ patch'[kb] \in Pending BY <1>4, FailsToCreate
  <2> QED BY <2>1 DEF Pending
<1>5. ASSUME NEW r \in Request, Reconcile(r) PROVE FALSE BY <1>5 DEF Reconcile
<1>6. ASSUME NEW r \in Request, Settle(r) PROVE kb \in verified'
  <2>1. kb \in Targets(r) /\ Settled(r, kb) = "INSTALLED" BY <1>6 DEF Settle
  <2>2. settling[r].of[kb] = "installed" BY <2>1 DEF Settled
  <2> QED BY <1>6, <2>1, <2>2 DEF Settle
<1>7. ASSUME NEW h \in Handler, ApplyReport(h) PROVE FALSE BY <1>7, Applied
<1> QED BY <1>2, <1>3, <1>4, <1>5, <1>6, <1>7

\* The history of an installation shows a success only by such an outcome.
LEMMA SuccessBegins ==
  ASSUME IInv, [Next]_vars, NEW r \in Request, NEW kb \in KB, requests[r].kind = "INSTALL",
         history'[r][kb] = "SUCCESS", history[r][kb] # "SUCCESS"
  PROVE  kb \in verified'
<1> USE DEF rowVars
<1>1. ~UNCHANGED history OBVIOUS
<1>2. \E s \in Request : Prepare(s) \/ CreateActionFails(s) \/ Reconcile(s) \/ Settle(s)
  BY <1>1 DEF Next, vars, Scan, RequestPatches, RequestBareAction, RequestReboot, ScheduleReboot,
         CreateAction, ActionReports, ActionEnds, ReportArrives, MarkReport, ServerRestart,
         ApplyReport
<1>3. ASSUME NEW s \in Request, Prepare(s) PROVE FALSE
  <2>1. history'[r][kb] \in {history[r][kb], "IN_PROGRESS", "none"} BY <1>3, Prepares
  <2> QED BY <2>1
<1>4. ASSUME NEW s \in Request, CreateActionFails(s) PROVE FALSE
  <2>1. history'[r][kb] = history[r][kb] \/ history'[r][kb] = "none" BY <1>4, FailsToCreate
  <2> QED BY <2>1
<1>5. ASSUME NEW s \in Request, Reconcile(s) PROVE FALSE BY <1>5 DEF Reconcile
<1>6. ASSUME NEW s \in Request, Settle(s) PROVE kb \in verified'
  <2>1. Closes(s, r, kb) /\ ConfirmedFor(s, kb) BY <1>6 DEF Settle
  <2>2. requests[s].kind = "INSTALL" /\ kb \in Targets(s) BY <2>1 DEF Closes
  <2> QED BY <1>6, <2>1, <2>2 DEF Settle, ConfirmedFor, Confirmed
<1> QED BY <1>2, <1>3, <1>4, <1>5, <1>6

LEMMA VerifiedStays == [Next]_vars => verified \subseteq verified'
BY DEF Next, vars, rowVars, Scan, RequestPatches, RequestBareAction, Prepare, RequestReboot,
       ScheduleReboot, CreateAction, CreateActionFails, ActionReports, ActionEnds, Reconcile,
       Settle, ReportArrives, ApplyReport, MarkReport, ServerRestart

\* A row of the history that is there belongs to a request that has begun, and a request that
\* begins has no history.
LEMMA NoHistoryOfNew ==
  ASSUME IInv, [Next]_vars, NEW r \in Request, NEW kb \in KB, history'[r][kb] = "SUCCESS"
  PROVE  requests[r].phase # "new" /\ requests'[r].kind = requests[r].kind
<1> SUFFICES requests[r].phase # "new" BY PurposeKept
<1>1. CASE history[r][kb] = "SUCCESS"
  BY <1>1, Parts, BegunIfFor DEF IInv, HistoryLinks
<1>2. CASE history[r][kb] # "SUCCESS"
  <2>1. IInv' BY NextIInv
  <2>2. kb \in Targets(r)' BY <2>1, Parts DEF IInv, HistoryLinks
  <2> SUFFICES ASSUME requests[r].phase = "new" PROVE FALSE
    OBVIOUS
  <2>3. Targets(r) = {} /\ history[r][kb] = "none"
    <3>1. requests[r] = NoRequest /\ HistoryLinks(r) BY Parts DEF IInv, RequestLinks
    <3>2. history[r][kb] \in {"none", "IN_PROGRESS", "SUCCESS", "FAILED"} BY DEF IInv, TypeOK
    <3> QED BY <3>1, <3>2, NothingTypes DEF HistoryLinks, Targets
  <2>4. ~UNCHANGED history BY <1>2
  <2>5. \E s \in Request : Prepare(s) \/ CreateActionFails(s) \/ Reconcile(s) \/ Settle(s)
    BY <2>4 DEF Next, vars, rowVars, Scan, RequestPatches, RequestBareAction, RequestReboot,
           ScheduleReboot, CreateAction, ActionReports, ActionEnds, ReportArrives, MarkReport,
           ServerRestart, ApplyReport
  <2>6. ASSUME NEW s \in Request, Prepare(s) PROVE FALSE
    <3>1. history'[r][kb] \in {history[r][kb], "IN_PROGRESS", "none"} BY <2>6, Prepares
    <3> QED BY <1>2, <3>1
  <2>7. ASSUME NEW s \in Request, CreateActionFails(s) PROVE FALSE
    <3>1. history'[r][kb] \in {history[r][kb], "none"} BY <2>7, FailsToCreate
    <3> QED BY <1>2, <3>1
  <2>8. ASSUME NEW s \in Request, Reconcile(s) \/ Settle(s) PROVE FALSE
    BY <2>3, <2>8 DEF Reconcile, Settle, Closes
  <2> QED BY <2>5, <2>6, <2>7, <2>8
<1> QED BY <1>1, <1>2

\* An update shows as installed, and its history as a success, only if the agent confirmed that
\* very update, whatever scans, requests, withdrawals and faults come between.
THEOREM SuccessVerified == Spec => []SuccessIsVerified
<1> DEFINE VInv == IInv /\ SuccessIsVerified
<1>1. Init => VInv
  <2> SUFFICES ASSUME Init PROVE SuccessIsVerified
    BY InitIInv
  <2>1. \A kb \in KB : patch[kb] # "INSTALLED" BY FoundAssumption DEF Init
  <2> QED BY <2>1 DEF Init, SuccessIsVerified
<1>2. VInv /\ [Next]_vars => VInv'
  <2> SUFFICES ASSUME VInv, [Next]_vars, NEW kb \in KB
               PROVE  /\ patch'[kb] = "INSTALLED" => kb \in verified'
                      /\ \A r \in Request : requests'[r].kind = "INSTALL"
                                            /\ history'[r][kb] = "SUCCESS" => kb \in verified'
    BY NextIInv DEF SuccessIsVerified
  <2>1. verified \subseteq verified' BY VerifiedStays
  <2>2. patch'[kb] = "INSTALLED" => kb \in verified'
    BY <2>1, InstalledBegins DEF SuccessIsVerified
  <2>3. ASSUME NEW r \in Request, requests'[r].kind = "INSTALL", history'[r][kb] = "SUCCESS"
        PROVE  kb \in verified'
    <3>1. requests[r].kind = "INSTALL" BY <2>3, NoHistoryOfNew
    <3> QED BY <2>1, <2>3, <3>1, SuccessBegins DEF SuccessIsVerified
  <2> QED BY <2>2, <2>3
<1> QED BY <1>1, <1>2, PTL DEF Spec
=============================================================================
