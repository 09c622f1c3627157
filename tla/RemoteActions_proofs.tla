------------------------ MODULE RemoteActions_proofs ------------------------
(***************************************************************************)
(* Proofs about RemoteActions, for any number of actions and requests.     *)
(***************************************************************************)
EXTENDS RemoteActions, TLAPS

USE DEF Waiting, Final, Terminal, Status, Report

\* The initial state satisfies the inductive invariant.
LEMMA InitIInv == Init => IInv
<1> SUFFICES ASSUME Init PROVE IInv  OBVIOUS
<1> USE SlotAssumption DEF Init, Idle, NoReport
<1>1. TypeOK   BY DEF TypeOK, Request, Phase
<1>2. RowInv   BY DEF RowInv, Unresolved
<1>3. AgentInv BY DEF AgentInv, BeforeRun
<1>4. DiskInv  BY DEF DiskInv
<1>5. ReqInv   BY DEF ReqInv, RequestOK, ReportPhase
<1>6. CallInv  BY DEF CallInv
<1> QED BY <1>1, <1>2, <1>3, <1>4, <1>5, <1>6 DEF IInv

-----------------------------------------------------------------------------
(* Type correctness *)

\* Answering a request keeps the types of the request and of the agent.
LEMMA AnswerType ==
  ASSUME TypeOK, NEW s \in Slot, NEW p \in Phase, NEW a \in Action \cup {NoAction},
         Answer(s, p, a)
  PROVE  /\ req' \in [Slot -> Request]
         /\ pc' \in Phase /\ cur' \in Action \cup {NoAction} /\ call' \in Slot \cup {NoCall}
BY DEF TypeOK, Answer, Idle, Request, agentVars

\* So does sending one.
LEMMA SendType ==
  ASSUME TypeOK, NEW r \in Request, NEW p \in Phase, Send(r, p)
  PROVE  /\ req' \in [Slot -> Request] /\ pc' \in Phase /\ call' \in Slot \cup {NoCall}
BY DEF TypeOK, Send

\* Acknowledging or refusing a report changes the agent and its disk only.
LEMMA ReplyType ==
  ASSUME TypeOK, NEW s \in Slot, req[s].act \in Action, Acknowledge(s) \/ Refuse(s)
  PROVE  /\ req' \in [Slot -> Request]
         /\ pc' \in Phase /\ cur' \in Action \cup {NoAction} /\ call' \in Slot \cup {NoCall}
         /\ disk' \in [act : Action \cup {NoAction}, rep : Final] /\ acked' \subseteq Action
<1>1. /\ req' \in [Slot -> Request]
      /\ pc' \in Phase /\ cur' \in Action \cup {NoAction} /\ call' \in Slot \cup {NoCall}
  BY AnswerType DEF Acknowledge, Refuse, Phase
<1>2. disk' \in [act : Action \cup {NoAction}, rep : Final] /\ acked' \subseteq Action
  BY DEF Acknowledge, Refuse, TypeOK, NoReport
<1> QED BY <1>1, <1>2

\* A woken listener is a request.
LEMMA WokenType ==
  ASSUME NEW r \in Request, NEW a \in Action
  PROVE  [r EXCEPT !.phase = "woken", !.act = a] \in Request
BY DEF Request

\* Every step keeps the types.
LEMMA TypeStep == IInv /\ [Next]_vars => TypeOK'
<1> SUFFICES ASSUME IInv, [Next]_vars PROVE TypeOK'  OBVIOUS
<1> USE DEF IInv, TypeOK, rowVars, clockVars, serverVars, agentVars, ghostVars
<1>1. ASSUME NEW a \in Action,
             CreateAction(a) \/ EmitAction(a) \/ CancelAction(a) \/ ReconcileAction(a)
      PROVE  TypeOK'
  <2>1. CASE CreateAction(a) BY <2>1 DEF CreateAction
  <2>2. CASE EmitAction(a)
    <3>1. ASSUME NEW s \in Slot
          PROVE  [req[s] EXCEPT !.phase = "woken", !.act = a] \in Request
      BY WokenType
    <3>2. req' \in [Slot -> Request] BY <2>2, <3>1 DEF EmitAction
    <3> QED BY <2>2, <3>2 DEF EmitAction
  <2>3. CASE CancelAction(a) BY <2>3 DEF CancelAction
  <2>4. CASE ReconcileAction(a) BY <2>4 DEF ReconcileAction
  <2> QED BY <1>1, <2>1, <2>2, <2>3, <2>4
<1>2. ASSUME NEW a \in Action, TimePasses(a) PROVE TypeOK'
  BY <1>2 DEF TimePasses, ExpiryPasses, DeliveryLeasePasses, ExecutionLeasePasses
<1>3. ASSUME Sweep PROVE TypeOK'
  BY <1>3 DEF Sweep, ExpireAction, CloseStaleAction
<1>4. ASSUME NEW s \in Slot, ServerStep(s) \/ SettleFails(s) \/ RequestLost(s)
      PROVE  TypeOK'
  <2>0. req[s].phase \in {"found", "woken", "report", "write", "settle"} => req[s].act \in Action
    BY DEF ReqInv, RequestOK, ReportPhase
  <2>1. CASE PollFind(s) BY <2>1 DEF PollFind, Request
  <2>2. ASSUME NEW P, req[s].act \in Action, ClaimOrEmpty(s, P) PROVE TypeOK'
    BY <2>2, AnswerType DEF ClaimOrEmpty, Deliver, Phase
  <2>3. CASE PollClaim(s) BY <2>0, <2>2, <2>3 DEF PollClaim
  <2>4. CASE PollListen(s) BY <2>4 DEF PollListen, Request
  <2>5. CASE ListenerTimeout(s) BY <2>5, AnswerType DEF ListenerTimeout, Phase
  <2>6. CASE ListenerClaim(s) BY <2>0, <2>2, <2>6 DEF ListenerClaim
  <2>7. CASE ReportRead(s) BY <2>7, <2>0, ReplyType DEF ReportRead, Request
  <2>8. CASE ReportWrite(s)
    <3>1. req[s].act \in Action /\ req[s].rep \in Report
      BY <2>8, <2>0 DEF ReportWrite, Request
    <3>2. /\ status' \in [Action -> Status] /\ leaseExpired' \in [Action -> BOOLEAN]
          /\ stale' \in [Action -> BOOLEAN]
      BY <2>8, <3>1 DEF ReportWrite
    <3>3. CASE Acknowledge(s) BY <2>8, <3>1, <3>2, <3>3, ReplyType DEF ReportWrite
    <3>4. CASE req' = [req EXCEPT ![s].phase = "settle"] /\ UNCHANGED <<agentVars, disk, acked>>
      BY <2>8, <3>2, <3>4 DEF ReportWrite, Request
    <3> QED BY <2>8, <3>3, <3>4 DEF ReportWrite
  <2>9. CASE ReportRaced(s) BY <2>9, <2>0, ReplyType DEF ReportRaced
  <2>10. CASE ReportSettle(s) BY <2>10, <2>0, ReplyType DEF ReportSettle
  <2>11. CASE SettleFails(s) BY <2>11, <2>0, ReplyType DEF SettleFails
  <2>12. CASE RequestLost(s) BY <2>12 DEF RequestLost, Idle, Request
  <2> QED BY <1>4, <2>1, <2>3, <2>4, <2>5, <2>6, <2>7, <2>8, <2>9, <2>10, <2>11, <2>12
          DEF ServerStep
<1>5. ASSUME AgentStep PROVE TypeOK'
  <2>1. CASE AgentFlush BY <2>1, SendType DEF AgentFlush, Idle, Request, Phase
  <2>2. CASE AgentPoll BY <2>2, SendType DEF AgentPoll, Idle, Request, Phase
  <2>3. CASE AgentDiscard BY <2>3 DEF AgentDiscard, Phase
  <2>4. CASE AgentAnnounce BY <2>4, SendType DEF AgentAnnounce, Idle, Request, Phase
  <2>5. CASE AgentGiveUp BY <2>5 DEF AgentGiveUp, Phase
  <2>6. CASE AgentExecute
    <3>1. cur \in Action BY <2>6 DEF AgentExecute, AgentInv, BeforeRun
    <3> QED BY <2>6, <3>1 DEF AgentExecute, Phase
  <2>7. CASE AgentFinish
    <3>1. cur \in Action BY <2>7 DEF AgentFinish, AgentInv
    <3> QED BY <2>7, <3>1 DEF AgentFinish, Phase
  <2>8. CASE AgentPersist
    <3>1. cur \in Action /\ outcome[cur] \in Final
      BY <2>8 DEF AgentPersist, AgentInv
    <3> QED BY <2>8, <3>1 DEF AgentPersist, Phase
  <2>9. CASE AgentTimeout BY <2>9 DEF AgentTimeout, Phase
  <2> QED BY <1>5, <2>1, <2>2, <2>3, <2>4, <2>5, <2>6, <2>7, <2>8, <2>9 DEF AgentStep
<1>6. ASSUME AgentPersistFails \/ AgentCrash \/ ServerRestart PROVE TypeOK'
  BY <1>6 DEF AgentPersistFails, AgentCrash, ServerRestart, Phase, Idle, Request
<1>7. ASSUME UNCHANGED vars PROVE TypeOK'
  BY <1>7 DEF vars
<1> QED BY <1>1, <1>2, <1>3, <1>4, <1>5, <1>6, <1>7 DEF Next

-----------------------------------------------------------------------------
(* Facts about the state that several steps need *)

\* The null action is no action of the table.
LEMMA NoActionFact == NoAction \notin Action
BY DEF NoAction, Action

\* An action in hand is an action; before and during its run the disk is free.
LEMMA InHand ==
  ASSUME IInv, pc \in BeforeRun \cup {"executing", "finished"}
  PROVE  cur \in Action /\ disk = NoReport
BY DEF IInv, TypeOK, AgentInv, BeforeRun

\* A request that names an action names one of the table.
LEMMA ReqAct ==
  ASSUME IInv, NEW s \in Slot, req[s].phase \in {"found", "woken", "report", "write", "settle"}
  PROVE  req[s].act \in Action
BY DEF IInv, ReqInv, RequestOK, ReportPhase

\* When the agent has not run an action and holds no report of it, no final
\* report of it is on its way.
LEMMA NoFinalReport ==
  ASSUME IInv, NEW s \in Slot, req[s].phase \in ReportPhase, req[s].rep \in Final,
         runs[req[s].act] = 0
  PROVE  req[s].rep = "FAILED" /\ (disk.act = req[s].act \/ req[s].act \in acked)
<1>1. req[s].act \in Action BY ReqAct DEF ReportPhase
<1>2. outcome[req[s].act] = "NONE" BY <1>1 DEF IInv, RowInv
<1> QED BY <1>2 DEF IInv, ReqInv, RequestOK

\* What a step leaves alone, for the steps that leave the rows alone.
LEMMA RowFrame ==
  ASSUME RowInv, UNCHANGED <<status, leaseExpired, runs, outcome, acked>>
  PROVE  RowInv'
BY DEF RowInv, Unresolved

\* The answer to a report adds to acked only the action of a final report.
LEMMA ReplyAcked ==
  ASSUME NEW s \in Slot, Acknowledge(s) \/ Refuse(s)
  PROVE  acked' = acked \/ (req[s].rep \in Final /\ acked' = acked \cup {req[s].act})
BY DEF Acknowledge, Refuse

\* A report may be acknowledged when the row shows what it says.
LEMMA AckRow ==
  ASSUME IInv, NEW s \in Slot, req[s].phase \in ReportPhase, Acknowledge(s) \/ Refuse(s),
         UNCHANGED <<status, leaseExpired, runs, outcome>>,
         Acknowledge(s) /\ req[s].rep \in Final =>
           \/ status[req[s].act] = req[s].rep
           \/ status[req[s].act] = "EXPIRED" /\ req[s].rep = "FAILED"
  PROVE  RowInv'
<1> DEFINE a == req[s].act
<1>0. a \in Action BY ReqAct DEF ReportPhase
<1>1. CASE acked' = acked BY <1>1, RowFrame DEF IInv
<1>2. CASE req[s].rep \in Final /\ acked' = acked \cup {a} /\ acked' # acked
  <2>1. Acknowledge(s) BY <1>2 DEF Refuse
  <2>2. status[a] \in Final \cup {"EXPIRED"} BY <1>2, <2>1
  <2>3. ASSUME outcome[a] # "NONE" PROVE status[a] = outcome[a]
    <3>1. runs[a] = 1 BY <1>0, <2>3 DEF IInv, RowInv
    <3>2. outcome[a] = req[s].rep BY <1>2, <3>1 DEF IInv, ReqInv, RequestOK
    <3>3. status[a] # "EXPIRED" BY <1>0, <3>1 DEF IInv, RowInv, Unresolved, TypeOK
    <3> QED BY <1>2, <2>1, <3>2, <3>3
  <2> QED BY <1>2, <2>2, <2>3 DEF IInv, RowInv, Unresolved
<1> QED BY <1>1, <1>2, ReplyAcked

-----------------------------------------------------------------------------
(* The rows *)

\* Every step keeps the rows consistent with what was executed.
LEMMA RowStep == IInv /\ [Next]_vars => RowInv'
<1> SUFFICES ASSUME IInv, [Next]_vars PROVE RowInv'  OBVIOUS
<1>0. RowInv BY DEF IInv
<1> USE DEF rowVars, clockVars, serverVars, agentVars, ghostVars
<1>1. ASSUME NEW a \in Action,
             \/ CreateAction(a) \/ CancelAction(a) \/ ExpireAction(a) \/ CloseStaleAction(a)
      PROVE  RowInv'
  BY <1>1 DEF CreateAction, CancelAction, ExpireAction, Expirable, CloseStaleAction, Closable,
              IInv, TypeOK, RowInv, Unresolved
<1>2. ASSUME NEW a \in Action, EmitAction(a) \/ ReconcileAction(a) \/ TimePasses(a)
      PROVE  RowInv'
  BY <1>0, <1>2, RowFrame DEF EmitAction, ReconcileAction, TimePasses, ExpiryPasses,
                              DeliveryLeasePasses, ExecutionLeasePasses
<1>3. ASSUME NEW s \in Slot, PollFind(s) \/ PollListen(s) \/ ListenerTimeout(s) \/ RequestLost(s)
      PROVE  RowInv'
  BY <1>0, <1>3, RowFrame DEF PollFind, PollListen, ListenerTimeout, RequestLost
<1>4. ASSUME NEW s \in Slot, PollClaim(s) \/ ListenerClaim(s)
      PROVE  RowInv'
  <2>1. req[s].act \in Action BY <1>4, ReqAct DEF PollClaim, ListenerClaim
  <2>2. CASE UNCHANGED status
    BY <1>0, <1>4, <2>2, RowFrame DEF PollClaim, ListenerClaim, ClaimOrEmpty
  <2>3. CASE status[req[s].act] \in Waiting /\ status' = [status EXCEPT ![req[s].act] = "DELIVERED"]
    BY <1>4, <2>1, <2>3 DEF PollClaim, ListenerClaim, ClaimOrEmpty, IInv, TypeOK, RowInv, Unresolved
  <2> QED BY <1>4, <2>2, <2>3 DEF PollClaim, ListenerClaim, ClaimOrEmpty, Claimable, Deliver
<1>5. ASSUME NEW s \in Slot, ReportRead(s) PROVE RowInv'
  <2>1. CASE acked' = acked BY <1>0, <1>5, <2>1, RowFrame DEF ReportRead
  <2>2. CASE Duplicate(req[s].act, req[s].rep) /\ Acknowledge(s)
    BY <1>5, <2>2, AckRow DEF ReportRead, Duplicate, ReportPhase
  <2> QED BY <1>5, <2>1, <2>2 DEF ReportRead, Refuse
<1>6. ASSUME NEW s \in Slot, ReportWrite(s) PROVE RowInv'
  <2> DEFINE a == req[s].act
  <2>1. a \in Action /\ req[s].phase = "write" /\ status[a] = req[s].read
    BY <1>6, ReqAct DEF ReportWrite, Raced
  <2>2. CASE req[s].rep = "RUNNING"
    <3>1. status[a] \in {"PENDING", "DELIVERED", "RUNNING"} BY <2>1, <2>2 DEF IInv, ReqInv, RequestOK
    <3>2. acked' = acked BY <1>6, <2>2 DEF ReportWrite, Acknowledge
    <3> QED BY <1>6, <2>1, <2>2, <3>1, <3>2 DEF ReportWrite, IInv, TypeOK, RowInv, Unresolved
  <2>3. CASE req[s].rep \in Final
    <3>1. status[a] \in {"DELIVERED", "RUNNING", "FAILED"} BY <2>1, <2>3 DEF IInv, ReqInv, RequestOK
    <3>2. /\ status' = [status EXCEPT ![a] = req[s].rep]
          /\ leaseExpired' = [leaseExpired EXCEPT ![a] = @ /\ req[s].read # "FAILED"]
          /\ UNCHANGED <<runs, outcome, acked>>
      BY <1>6, <2>3 DEF ReportWrite
    <3>4. ~leaseExpired'[a] BY <2>1, <3>2 DEF IInv, TypeOK, RowInv
    <3>3. \/ outcome[a] = req[s].rep
          \/ runs[a] = 0 /\ req[s].rep = "FAILED"
      BY <2>1, <2>3 DEF IInv, ReqInv, RequestOK, ReportPhase
    <3> QED BY <2>1, <2>3, <3>1, <3>2, <3>3, <3>4 DEF IInv, TypeOK, RowInv, Unresolved
  <2> QED BY <1>6, <2>2, <2>3 DEF ReportWrite
<1>7. ASSUME NEW s \in Slot, ReportRaced(s) \/ ReportSettle(s) \/ SettleFails(s) PROVE RowInv'
  <2>1. CASE ReportRaced(s)
    <3>1. CASE status[req[s].act] = req[s].rep /\ Acknowledge(s)
      BY <2>1, <3>1, AckRow DEF ReportRaced, ReportPhase
    <3>2. CASE Refuse(s) BY <1>0, <2>1, <3>2, RowFrame DEF ReportRaced, Refuse
    <3> QED BY <2>1, <3>1, <3>2 DEF ReportRaced
  <2>2. CASE ReportSettle(s)
    <3>1. status[req[s].act] = req[s].rep BY <2>2 DEF ReportSettle, IInv, ReqInv, RequestOK
    <3> QED BY <2>2, <3>1, AckRow DEF ReportSettle, ReportPhase
  <2>3. CASE SettleFails(s) BY <1>0, <2>3, RowFrame DEF SettleFails, Refuse
  <2> QED BY <1>7, <2>1, <2>2, <2>3
<1>8. ASSUME AgentStep PROVE RowInv'
  <2>1. CASE AgentExecute
    <3>1. cur \in Action /\ runs[cur] = 0 /\ cur \notin acked /\ Unresolved(cur)
      BY <2>1, InHand DEF AgentExecute, IInv, AgentInv, BeforeRun
    <3> QED BY <2>1, <3>1 DEF AgentExecute, IInv, TypeOK, RowInv, Unresolved
  <2>2. CASE AgentFinish
    <3>1. cur \in Action /\ runs[cur] = 1 /\ outcome[cur] = "NONE"
      BY <2>2, InHand DEF AgentFinish, IInv, AgentInv
    <3>2. cur \notin acked /\ Unresolved(cur)
      BY <2>2, <3>1 DEF AgentFinish, IInv, AgentInv, RowInv
    <3> QED BY <2>2, <3>1, <3>2 DEF AgentFinish, IInv, TypeOK, RowInv, Unresolved
  <2>3. CASE ~AgentExecute /\ ~AgentFinish
    BY <1>0, <1>8, <2>3, RowFrame DEF AgentStep, AgentFlush, AgentPoll, AgentDiscard,
       AgentAnnounce, AgentGiveUp, AgentPersist, AgentTimeout
  <2> QED BY <2>1, <2>2, <2>3
<1>9. ASSUME AgentPersistFails \/ AgentCrash \/ ServerRestart \/ UNCHANGED vars PROVE RowInv'
  BY <1>0, <1>9, RowFrame DEF AgentPersistFails, AgentCrash, ServerRestart, vars
<1> QED BY <1>1, <1>2, <1>3, <1>4, <1>5, <1>6, <1>7, <1>8, <1>9 DEF Next, Sweep, ServerStep

-----------------------------------------------------------------------------
(* The agent *)

\* After the step, the row still accepts the final report of the agent.
StaysUnresolved(a) == status'[a] = "RUNNING" \/ (status'[a] = "FAILED" /\ leaseExpired'[a])

\* What the agent is doing while a request it waits for is in progress.
LEMMA LivePoll ==
  ASSUME IInv, NEW s \in Slot, call = s, req[s].phase \in PollPhase
  PROVE  pc = "polling" /\ cur = NoAction /\ disk = NoReport
<1>1. req[s] # Idle BY DEF Idle, PollPhase
<1>2. call # NoCall BY SlotAssumption
<1>3. pc \in {"polling", "announcing", "flushing"} BY <1>2 DEF IInv, AgentInv
<1>4. pc = "polling" BY <1>1, <1>2, <1>3 DEF IInv, CallInv, PollPhase, ReportPhase
<1> QED BY <1>4 DEF IInv, AgentInv, BeforeRun

\* What the agent is doing while a report it waits for is in progress: it
\* announces the action in hand, or flushes the report on its disk.
LEMMA LiveReport ==
  ASSUME IInv, NEW s \in Slot, call = s, req[s].phase \in ReportPhase
  PROVE  \/ /\ pc = "announcing" /\ req[s].rep = "RUNNING"
            /\ req[s].act = cur /\ disk = NoReport
         \/ /\ pc = "flushing" /\ cur = NoAction
            /\ req[s].rep \in Final /\ req[s].rep = disk.rep /\ req[s].act = disk.act
<1>1. req[s] # Idle BY DEF Idle, ReportPhase
<1>2. call # NoCall BY SlotAssumption
<1>3. pc \in {"polling", "announcing", "flushing"} BY <1>2 DEF IInv, AgentInv
<1>4. pc # "polling" BY <1>1, <1>2 DEF IInv, CallInv, PollPhase, ReportPhase
<1>5. CASE pc = "announcing"
  BY <1>1, <1>2, <1>5 DEF IInv, CallInv, AgentInv
<1>6. CASE pc = "flushing"
  <2>1. disk.rep \in Final BY DEF IInv, TypeOK
  <2> QED BY <1>1, <1>2, <1>6, <2>1 DEF IInv, CallInv, AgentInv, BeforeRun
<1> QED BY <1>3, <1>4, <1>5, <1>6

\* Steps that leave the agent, its disk and the rows alone.
LEMMA AgentFrame ==
  ASSUME AgentInv, UNCHANGED <<agentVars, disk, runs, outcome, acked, status, leaseExpired>>
  PROVE  AgentInv'
BY DEF AgentInv, agentVars, Unresolved, StaysUnresolved

\* A change of a row disturbs the agent only through an action it is about to run.
LEMMA AgentRowChange ==
  ASSUME AgentInv, UNCHANGED <<agentVars, disk, runs, outcome, acked>>,
         pc = "execute" => StaysUnresolved(cur)
  PROVE  AgentInv'
BY DEF AgentInv, agentVars, BeforeRun, Unresolved, StaysUnresolved

\* The answer to a poll: nothing, or an action that was not run.
LEMMA AgentPolled ==
  ASSUME IInv, NEW s \in Slot, req[s].phase \in PollPhase,
         NEW p, NEW a, Answer(s, p, a),
         (p = "loop" /\ a = NoAction) \/ (p = "got" /\ a \in Action /\ runs[a] = 0 /\ a \notin acked),
         pc = "execute" => StaysUnresolved(cur),
         UNCHANGED <<disk, runs, outcome, acked>>
  PROVE  AgentInv'
<1>1. CASE call = s
  <2>1. pc = "polling" /\ cur = NoAction /\ disk = NoReport BY <1>1, LivePoll
  <2>2. pc' = p /\ cur' = a /\ call' = NoCall BY <1>1 DEF Answer
  <2>3. NoAction \notin acked BY NoActionFact DEF IInv, TypeOK
  <2> QED BY <2>1, <2>2, <2>3, NoActionFact DEF AgentInv, BeforeRun
<1>2. CASE call # s
  BY <1>2, AgentRowChange DEF Answer, IInv
<1> QED BY <1>1, <1>2

\* The answer to a report.
LEMMA AgentAnswered ==
  ASSUME IInv, NEW s \in Slot, req[s].phase \in ReportPhase, Acknowledge(s) \/ Refuse(s),
         Acknowledge(s) /\ req[s].rep = "RUNNING" => StaysUnresolved(req[s].act),
         pc = "execute" => StaysUnresolved(cur),
         UNCHANGED <<runs, outcome>>
  PROVE  AgentInv'
<1>0. req[s].act \in Action BY ReqAct DEF ReportPhase
<1>1. CASE call = s
  <2>1. CASE pc = "announcing" /\ req[s].rep = "RUNNING" /\ req[s].act = cur /\ disk = NoReport
    <3>1. /\ cur' = cur /\ call' = NoCall /\ UNCHANGED <<disk, acked>>
          /\ \/ pc' = "execute" /\ Acknowledge(s)
             \/ pc' = "retry"
      BY <1>1, <2>1 DEF Acknowledge, Refuse, Answer
    <3> QED BY <1>0, <2>1, <3>1, NoActionFact DEF IInv, AgentInv, BeforeRun, Unresolved, StaysUnresolved
  <2>2. CASE pc = "flushing" /\ cur = NoAction /\ req[s].rep \in Final
    <3>1. /\ pc' = "loop" /\ cur' = NoAction /\ call' = NoCall
          /\ disk' \in {disk, NoReport} /\ acked' \subseteq acked \cup {req[s].act}
      BY <1>1, <2>2 DEF Acknowledge, Refuse, Answer
    <3>2. NoAction \notin acked' BY <1>0, <3>1, NoActionFact DEF IInv, TypeOK
    <3> QED BY <3>1, <3>2 DEF AgentInv, BeforeRun
  <2> QED BY <1>1, <2>1, <2>2, LiveReport
<1>2. CASE call # s
  BY <1>2, AgentRowChange DEF Acknowledge, Refuse, Answer, IInv
<1> QED BY <1>1, <1>2

\* Every step keeps the phase of the agent consistent with what it holds.
LEMMA AgentStepInv == IInv /\ [Next]_vars => AgentInv'
<1> SUFFICES ASSUME IInv, [Next]_vars PROVE AgentInv'  OBVIOUS
<1>0. AgentInv BY DEF IInv
<1> USE DEF rowVars, clockVars, serverVars, agentVars, ghostVars
<1>1. ASSUME NEW a \in Action,
             \/ CreateAction(a) \/ CancelAction(a) \/ ExpireAction(a) \/ CloseStaleAction(a)
      PROVE  AgentInv'
  <2>1. ASSUME pc = "execute" PROVE StaysUnresolved(cur)
    <3>1. Unresolved(cur) /\ cur \in Action BY <2>1, InHand DEF IInv, AgentInv, BeforeRun
    <3> QED BY <1>1, <3>1 DEF CreateAction, CancelAction, ExpireAction, Expirable,
                 CloseStaleAction, Closable, Unresolved, StaysUnresolved, IInv, TypeOK
  <2> QED BY <1>0, <1>1, <2>1, AgentRowChange
          DEF CreateAction, CancelAction, ExpireAction, CloseStaleAction
<1>2. ASSUME NEW a \in Action, EmitAction(a) \/ ReconcileAction(a) \/ TimePasses(a)
      PROVE  AgentInv'
  BY <1>0, <1>2, AgentFrame DEF EmitAction, ReconcileAction, TimePasses, ExpiryPasses,
                                DeliveryLeasePasses, ExecutionLeasePasses
<1>3. ASSUME NEW s \in Slot, PollFind(s) \/ PollListen(s) \/ RequestLost(s) PROVE AgentInv'
  BY <1>0, <1>3, AgentFrame DEF PollFind, PollListen, RequestLost
<1>4. ASSUME NEW s \in Slot, ListenerTimeout(s) PROVE AgentInv'
  <2>1. pc = "execute" => StaysUnresolved(cur)
    BY <1>4 DEF ListenerTimeout, IInv, AgentInv, Unresolved, StaysUnresolved
  <2> QED BY <1>4, <2>1, AgentPolled DEF ListenerTimeout, PollPhase
<1>5. ASSUME NEW s \in Slot, PollClaim(s) \/ ListenerClaim(s) PROVE AgentInv'
  <2> DEFINE a == req[s].act
  <2>1. a \in Action /\ req[s].phase \in PollPhase
    BY <1>5, ReqAct DEF PollClaim, ListenerClaim, PollPhase
  <2>2. CASE Answer(s, "loop", NoAction) /\ UNCHANGED <<status, redeliverable>>
    <3>1. pc = "execute" => StaysUnresolved(cur)
      BY <1>5, <2>2 DEF PollClaim, ListenerClaim, ClaimOrEmpty, IInv, AgentInv, Unresolved, StaysUnresolved
    <3> QED BY <1>5, <2>1, <2>2, <3>1, AgentPolled DEF PollClaim, ListenerClaim, ClaimOrEmpty
  <2>3. CASE status[a] \in Waiting /\ Answer(s, "got", a) /\ Deliver(a)
    <3>1. runs[a] = 0 /\ a \notin acked
      BY <2>1, <2>3 DEF IInv, RowInv, TypeOK, Unresolved, StaysUnresolved
    <3>2. ASSUME pc = "execute" PROVE StaysUnresolved(cur)
      <4>1. Unresolved(cur) /\ cur \in Action BY <3>2, InHand DEF IInv, AgentInv, BeforeRun
      <4> QED BY <1>5, <2>1, <2>3, <4>1 DEF PollClaim, ListenerClaim, ClaimOrEmpty, Deliver,
                   Unresolved, StaysUnresolved, IInv, TypeOK
    <3> QED BY <1>5, <2>1, <2>3, <3>1, <3>2, AgentPolled DEF PollClaim, ListenerClaim, ClaimOrEmpty
  <2> QED BY <1>5, <2>2, <2>3 DEF PollClaim, ListenerClaim, ClaimOrEmpty, Claimable
<1>6. ASSUME NEW s \in Slot, ReportRead(s) \/ ReportRaced(s) \/ ReportSettle(s) \/ SettleFails(s)
      PROVE  AgentInv'
  <2>1. pc = "execute" => StaysUnresolved(cur)
    BY <1>6 DEF ReportRead, ReportRaced, ReportSettle, SettleFails, IInv, AgentInv, Unresolved, StaysUnresolved
  <2>2. req[s].phase \in ReportPhase /\ UNCHANGED <<status, leaseExpired, runs, outcome>>
    BY <1>6 DEF ReportRead, ReportRaced, ReportSettle, SettleFails, ReportPhase
  <2>3. CASE ReportRead(s)
    <3>1. CASE UNCHANGED <<agentVars, disk, acked>>
      BY <1>0, <2>2, <3>1, AgentFrame
    <3>2. CASE Duplicate(req[s].act, req[s].rep) /\ Acknowledge(s)
      <4>1. req[s].rep # "RUNNING" BY <3>2 DEF Duplicate
      <4> QED BY <2>1, <2>2, <3>2, <4>1, AgentAnswered
    <3>3. CASE ~Acceptable(req[s].act, req[s].rep) /\ ~Duplicate(req[s].act, req[s].rep) /\ Refuse(s)
      <4>1. CASE call = s
        <5>1. req[s].rep = "RUNNING" => pc' = "retry"
          BY <3>3, <4>1 DEF Refuse, Answer
        <5>2. ~(req[s].rep = "RUNNING" /\ Acknowledge(s))
          BY <4>1, <5>1 DEF Acknowledge, Answer
        <5> QED BY <2>1, <2>2, <3>3, <5>2, AgentAnswered
      <4>2. CASE call # s
        BY <1>0, <2>2, <3>3, <4>2, AgentFrame DEF Refuse, Answer
      <4> QED BY <4>1, <4>2
    <3> QED BY <2>3, <3>1, <3>2, <3>3 DEF ReportRead
  <2>4. CASE ReportRaced(s)
    <3>1. CASE status[req[s].act] = req[s].rep
      BY <2>1, <2>2, <2>4, <3>1, AgentAnswered DEF ReportRaced, Unresolved, StaysUnresolved
    <3>2. CASE Refuse(s) /\ ~Acknowledge(s)
      BY <2>1, <2>2, <3>2, AgentAnswered
    <3>3. CASE Refuse(s) /\ call # s
      BY <1>0, <2>2, <3>3, AgentFrame DEF Refuse, Answer
    <3>4. CASE Refuse(s) /\ call = s /\ req[s].rep \in Final
      BY <2>1, <2>2, <3>4, AgentAnswered
    <3>5. CASE Refuse(s) /\ call = s /\ req[s].rep = "RUNNING"
      <4>1. ~Acknowledge(s) BY <3>5 DEF Acknowledge, Refuse, Answer
      <4> QED BY <3>2, <3>5, <4>1
    <3>6. req[s].rep \in Report BY DEF IInv, TypeOK, Request
    <3> QED BY <2>4, <3>1, <3>3, <3>4, <3>5, <3>6 DEF ReportRaced
  <2>5. CASE ReportSettle(s) \/ SettleFails(s)
    <3>1. req[s].rep \in Final BY <2>5 DEF ReportSettle, SettleFails, IInv, ReqInv, RequestOK
    <3> QED BY <2>1, <2>2, <2>5, <3>1, AgentAnswered DEF ReportSettle, SettleFails
  <2> QED BY <1>6, <2>3, <2>4, <2>5
<1>7. ASSUME NEW s \in Slot, ReportWrite(s) PROVE AgentInv'
  <2> DEFINE a == req[s].act
  <2>1. a \in Action /\ req[s].phase = "write" /\ UNCHANGED <<runs, outcome>>
    BY <1>7, ReqAct DEF ReportWrite
  <2>2. ASSUME pc = "execute" PROVE StaysUnresolved(cur)
    <3>1. Unresolved(cur) /\ cur \in Action /\ disk = NoReport /\ runs[cur] = 0 /\ cur \notin acked
      BY <2>2, InHand DEF IInv, AgentInv, BeforeRun
    <3>2. req[s].rep \in Final => a # cur
      BY <2>1, <3>1, NoFinalReport, NoActionFact DEF ReportPhase, NoReport
    <3>3. req[s].rep \in Report BY DEF IInv, TypeOK, Request
    <3> QED BY <1>7, <2>1, <3>1, <3>2, <3>3 DEF ReportWrite, Unresolved, StaysUnresolved, IInv, TypeOK
  <2>3. CASE req[s].rep = "RUNNING"
    <3>1. StaysUnresolved(a) BY <1>7, <2>1, <2>3 DEF ReportWrite, Unresolved, StaysUnresolved, IInv, TypeOK
    <3> QED BY <1>7, <2>1, <2>2, <2>3, <3>1, AgentAnswered DEF ReportWrite, ReportPhase
  <2>4. CASE req[s].rep \in Final
    BY <1>0, <1>7, <2>1, <2>2, <2>4, AgentRowChange DEF ReportWrite
  <2> QED BY <1>7, <2>3, <2>4 DEF ReportWrite
<1>8. ASSUME AgentStep PROVE AgentInv'
  <2> USE DEF AgentInv, BeforeRun, Unresolved, StaysUnresolved
  <2>0. NoReport.act = NoAction /\ NoAction \notin acked
    BY NoActionFact DEF NoReport, IInv, TypeOK
  <2>1. CASE AgentFlush BY <1>0, <2>1, SlotAssumption DEF AgentFlush, Send
  <2>2. CASE AgentPoll BY <1>0, <2>2, SlotAssumption DEF AgentPoll, Send
  <2>3. CASE AgentDiscard BY <1>0, <2>0, <2>3 DEF AgentDiscard
  <2>4. CASE AgentAnnounce BY <1>0, <2>4, SlotAssumption DEF AgentAnnounce, Send
  <2>5. CASE AgentGiveUp BY <1>0, <2>0, <2>5 DEF AgentGiveUp
  <2>6. CASE AgentExecute
    <3>1. cur \in Action BY <2>6, InHand DEF AgentExecute
    <3>2. outcome[cur] = "NONE" BY <1>0, <2>6, <3>1 DEF AgentExecute, IInv, RowInv
    <3> QED BY <1>0, <2>6, <3>1, <3>2 DEF AgentExecute, IInv, TypeOK
  <2>7. CASE AgentFinish
    <3>1. cur \in Action BY <2>7, InHand DEF AgentFinish
    <3> QED BY <1>0, <2>7, <3>1 DEF AgentFinish, IInv, TypeOK
  <2>8. CASE AgentPersist BY <1>0, <2>0, <2>8 DEF AgentPersist
  <2>9. CASE AgentTimeout BY <1>0, <2>0, <2>9 DEF AgentTimeout
  <2> QED BY <1>8, <2>1, <2>2, <2>3, <2>4, <2>5, <2>6, <2>7, <2>8, <2>9 DEF AgentStep
<1>9. ASSUME AgentPersistFails \/ AgentCrash PROVE AgentInv'
  <2>1. NoAction \notin acked BY NoActionFact DEF IInv, TypeOK
  <2> QED BY <1>0, <1>9, <2>1 DEF AgentPersistFails, AgentCrash, AgentInv, BeforeRun, Unresolved, StaysUnresolved
<1>10. ASSUME ServerRestart \/ UNCHANGED vars PROVE AgentInv'
  BY <1>0, <1>10, AgentFrame DEF ServerRestart, vars
<1> QED BY <1>1, <1>2, <1>3, <1>4, <1>5, <1>6, <1>7, <1>8, <1>9, <1>10
        DEF Next, Sweep, ServerStep

-----------------------------------------------------------------------------
(* The disk *)

\* Steps that leave the disk and the executions alone.
LEMMA DiskFrame == ASSUME DiskInv, UNCHANGED <<disk, runs, outcome>> PROVE DiskInv'
BY DEF DiskInv

\* An answered report leaves the disk as it was, or empty.
LEMMA DiskReply ==
  ASSUME IInv, NEW s \in Slot, Acknowledge(s) \/ Refuse(s), UNCHANGED <<runs, outcome>>
  PROVE  DiskInv'
<1>1. disk' = disk \/ disk' = NoReport BY DEF Acknowledge, Refuse
<1>2. CASE disk' = disk BY <1>2, DiskFrame DEF IInv
<1>3. CASE disk' = NoReport BY <1>3 DEF DiskInv, NoReport
<1> QED BY <1>1, <1>2, <1>3

\* Every step keeps the report on disk truthful.
LEMMA DiskStep == IInv /\ [Next]_vars => DiskInv'
<1> SUFFICES ASSUME IInv, [Next]_vars PROVE DiskInv'  OBVIOUS
<1>0. DiskInv BY DEF IInv
<1> USE DEF rowVars, clockVars, serverVars, agentVars, ghostVars
<1>1. ASSUME NEW a \in Action,
             \/ CreateAction(a) \/ CancelAction(a) \/ ExpireAction(a) \/ CloseStaleAction(a)
             \/ EmitAction(a) \/ ReconcileAction(a) \/ TimePasses(a)
      PROVE  DiskInv'
  BY <1>0, <1>1, DiskFrame
     DEF CreateAction, CancelAction, ExpireAction, CloseStaleAction, EmitAction, ReconcileAction,
         TimePasses, ExpiryPasses, DeliveryLeasePasses, ExecutionLeasePasses
<1>2. ASSUME NEW s \in Slot, \/ PollFind(s) \/ PollListen(s) \/ ListenerTimeout(s)
                             \/ PollClaim(s) \/ ListenerClaim(s) \/ RequestLost(s)
      PROVE  DiskInv'
  BY <1>0, <1>2, DiskFrame
     DEF PollFind, PollListen, ListenerTimeout, PollClaim, ListenerClaim, ClaimOrEmpty, RequestLost
<1>3. ASSUME NEW s \in Slot, \/ ReportRead(s) \/ ReportWrite(s) \/ ReportRaced(s)
                             \/ ReportSettle(s) \/ SettleFails(s)
      PROVE  DiskInv'
  <2>1. CASE UNCHANGED disk
    BY <1>0, <1>3, <2>1, DiskFrame
       DEF ReportRead, ReportWrite, ReportRaced, ReportSettle, SettleFails
  <2>2. CASE Acknowledge(s) \/ Refuse(s)
    BY <1>3, <2>2, DiskReply
       DEF ReportRead, ReportWrite, ReportRaced, ReportSettle, SettleFails
  <2> QED BY <1>3, <2>1, <2>2
          DEF ReportRead, ReportWrite, ReportRaced, ReportSettle, SettleFails
<1>4. ASSUME AgentStep PROVE DiskInv'
  <2>1. CASE AgentDiscard \/ AgentPersist \/ AgentExecute \/ AgentFinish
    <3>1. cur \in Action /\ disk = NoReport
      BY <2>1, InHand DEF AgentDiscard, AgentPersist, AgentExecute, AgentFinish, BeforeRun
    <3>2. CASE AgentDiscard
      BY <3>2, <3>1, NoActionFact DEF AgentDiscard, DiskInv, IInv, AgentInv, BeforeRun
    <3>3. CASE AgentPersist BY <3>3, <3>1, NoActionFact DEF AgentPersist, DiskInv
    <3>4. CASE AgentExecute \/ AgentFinish
      BY <3>1, <3>4 DEF AgentExecute, AgentFinish, DiskInv, NoReport
    <3> QED BY <2>1, <3>2, <3>3, <3>4
  <2>2. CASE AgentFlush \/ AgentPoll \/ AgentAnnounce \/ AgentGiveUp \/ AgentTimeout
    BY <1>0, <2>2, DiskFrame DEF AgentFlush, AgentPoll, AgentAnnounce, AgentGiveUp, AgentTimeout
  <2> QED BY <1>4, <2>1, <2>2 DEF AgentStep
<1>5. ASSUME AgentPersistFails \/ AgentCrash \/ ServerRestart \/ UNCHANGED vars PROVE DiskInv'
  BY <1>0, <1>5, DiskFrame DEF AgentPersistFails, AgentCrash, ServerRestart, vars
<1> QED BY <1>1, <1>2, <1>3, <1>4, <1>5 DEF Next, Sweep, ServerStep

-----------------------------------------------------------------------------
(* The requests *)

\* What no step undoes: an outcome, a discarded action, a reported final row.
HistoryKept == \A a \in Action :
  /\ outcome[a] # "NONE" => outcome'[a] = outcome[a]
  /\ runs[a] = 0 /\ (disk.act = a \/ a \in acked) =>
       runs'[a] = 0 /\ (disk'.act = a \/ a \in acked')
  /\ status[a] \in Final /\ ~leaseExpired[a] => status'[a] = status[a] /\ ~leaseExpired'[a]

\* Steps that leave the rows, the executions and the disk alone.
LEMMA HistoryFrame ==
  ASSUME UNCHANGED <<outcome, runs, disk, acked, status, leaseExpired>>
  PROVE  HistoryKept
BY DEF HistoryKept

\* The answer to a report: a deleted report was acknowledged.
LEMMA HistoryReply ==
  ASSUME IInv, NEW s \in Slot, req[s].phase \in ReportPhase, Acknowledge(s) \/ Refuse(s),
         UNCHANGED <<outcome, runs, status, leaseExpired>>
  PROVE  HistoryKept
<1>1. CASE UNCHANGED <<disk, acked>> BY <1>1, HistoryFrame
<1>2. CASE call = s /\ req[s].rep \in Final /\ disk' = NoReport /\ acked' = acked \cup {req[s].act}
  <2>1. req[s].act = disk.act BY <1>2, LiveReport
  <2> QED BY <1>2, <2>1 DEF HistoryKept
<1> QED BY <1>1, <1>2 DEF Acknowledge, Refuse

\* No step takes back what requests in progress rely on.
LEMMA HistoryStep == IInv /\ [Next]_vars => HistoryKept
<1> SUFFICES ASSUME IInv, [Next]_vars PROVE HistoryKept  OBVIOUS
<1> USE DEF rowVars, clockVars, serverVars, agentVars, ghostVars
<1>1. ASSUME NEW a \in Action,
             \/ CreateAction(a) \/ CancelAction(a) \/ ExpireAction(a) \/ CloseStaleAction(a)
      PROVE  HistoryKept
  BY <1>1 DEF CreateAction, CancelAction, ExpireAction, Expirable, CloseStaleAction, Closable,
              HistoryKept, IInv, TypeOK
<1>2. ASSUME NEW a \in Action, EmitAction(a) \/ ReconcileAction(a) \/ TimePasses(a)
      PROVE  HistoryKept
  BY <1>2, HistoryFrame DEF EmitAction, ReconcileAction, TimePasses, ExpiryPasses,
                            DeliveryLeasePasses, ExecutionLeasePasses
<1>3. ASSUME NEW s \in Slot, \/ PollFind(s) \/ PollListen(s) \/ ListenerTimeout(s)
                             \/ PollClaim(s) \/ ListenerClaim(s) \/ RequestLost(s)
      PROVE  HistoryKept
  <2>1. CASE UNCHANGED status
    BY <1>3, <2>1, HistoryFrame
       DEF PollFind, PollListen, ListenerTimeout, PollClaim, ListenerClaim, ClaimOrEmpty, RequestLost
  <2>2. CASE /\ PollClaim(s) \/ ListenerClaim(s)
             /\ status[req[s].act] \in Waiting /\ Deliver(req[s].act)
    <3>1. req[s].act \in Action BY <2>2, ReqAct DEF PollClaim, ListenerClaim
    <3> QED BY <2>2, <3>1 DEF PollClaim, ListenerClaim, ClaimOrEmpty, Deliver, HistoryKept, IInv, TypeOK
  <2> QED BY <1>3, <2>1, <2>2 DEF PollFind, PollListen, ListenerTimeout, PollClaim,
             ListenerClaim, ClaimOrEmpty, RequestLost, Claimable
<1>4. ASSUME NEW s \in Slot, ReportRead(s) \/ ReportRaced(s) \/ ReportSettle(s) \/ SettleFails(s)
      PROVE  HistoryKept
  BY <1>4, HistoryFrame, HistoryReply
     DEF ReportRead, ReportRaced, ReportSettle, SettleFails, ReportPhase
<1>5. ASSUME NEW s \in Slot, ReportWrite(s) PROVE HistoryKept
  <2> DEFINE b == req[s].act
  <2>1. b \in Action /\ req[s].phase = "write" /\ status[b] = req[s].read
    BY <1>5, ReqAct DEF ReportWrite, Raced
  <2>2. /\ status' = [status EXCEPT ![b] = req[s].rep]
        /\ leaseExpired' = [leaseExpired EXCEPT ![b] = @ /\ req[s].read # "FAILED"]
        /\ UNCHANGED <<runs, outcome>>
    BY <1>5 DEF ReportWrite
  <2>3. UNCHANGED <<disk, acked>> BY <1>5 DEF ReportWrite, Acknowledge
  <2>4. ASSUME status[b] \in Final, ~leaseExpired[b]
        PROVE  req[s].rep = status[b] /\ ~leaseExpired'[b]
    <3>1. req[s].rep \in Final /\ status[b] = "FAILED"
      BY <2>1, <2>4 DEF IInv, ReqInv, RequestOK
    <3>2. outcome[b] = "FAILED" \/ runs[b] = 0 BY <2>1, <2>4, <3>1 DEF IInv, RowInv
    <3>3. req[s].rep = "FAILED"
      BY <2>1, <3>1, <3>2, NoFinalReport DEF IInv, ReqInv, RequestOK, RowInv, ReportPhase
    <3> QED BY <2>1, <2>2, <2>4, <3>1, <3>3 DEF IInv, TypeOK
  <2> QED BY <2>1, <2>2, <2>3, <2>4 DEF HistoryKept, IInv, TypeOK
<1>6. ASSUME AgentStep PROVE HistoryKept
  <2>1. CASE AgentDiscard \/ AgentPersist \/ AgentExecute \/ AgentFinish
    <3>1. cur \in Action /\ disk = NoReport /\ cur \notin acked
      BY <2>1, InHand DEF AgentDiscard, AgentPersist, AgentExecute, AgentFinish, BeforeRun,
                          IInv, AgentInv
    <3>2. disk.act \notin Action BY <3>1, NoActionFact DEF NoReport
    <3>3. CASE AgentDiscard \/ AgentPersist
      BY <3>2, <3>3 DEF AgentDiscard, AgentPersist, HistoryKept
    <3>4. CASE AgentExecute
      BY <3>1, <3>2, <3>4 DEF AgentExecute, HistoryKept, IInv, TypeOK
    <3>5. CASE AgentFinish
      BY <3>1, <3>2, <3>5 DEF AgentFinish, HistoryKept, IInv, TypeOK, AgentInv
    <3> QED BY <2>1, <3>3, <3>4, <3>5
  <2>2. CASE AgentFlush \/ AgentPoll \/ AgentAnnounce \/ AgentGiveUp \/ AgentTimeout
    BY <2>2, HistoryFrame DEF AgentFlush, AgentPoll, AgentAnnounce, AgentGiveUp, AgentTimeout
  <2> QED BY <1>6, <2>1, <2>2 DEF AgentStep
<1>7. ASSUME AgentPersistFails \/ AgentCrash \/ ServerRestart \/ UNCHANGED vars PROVE HistoryKept
  BY <1>7, HistoryFrame DEF AgentPersistFails, AgentCrash, ServerRestart, vars
<1> QED BY <1>1, <1>2, <1>3, <1>4, <1>5, <1>6, <1>7 DEF Next, Sweep, ServerStep

\* A request nobody touches stays consistent with the rows and the agent.
LEMMA RequestKept ==
  ASSUME IInv, HistoryKept, NEW t \in Slot, req'[t] = req[t]
  PROVE  RequestOK(t)'
<1>1. RequestOK(t) BY DEF IInv, ReqInv
<1>2. req[t].phase \in ReportPhase => req[t].act \in Action BY <1>1 DEF RequestOK
<1>3. req[t].rep \in Report BY DEF IInv, TypeOK, Request
<1>4. req[t].phase \in ReportPhase /\ req[t].rep \in Final =>
        \/ outcome'[req[t].act] = req[t].rep
        \/ /\ runs'[req[t].act] = 0 /\ req[t].rep = "FAILED"
           /\ disk'.act = req[t].act \/ req[t].act \in acked'
  BY <1>1, <1>2 DEF RequestOK, HistoryKept
<1>5. req[t].phase = "settle" =>
        status'[req[t].act] = req[t].rep /\ ~leaseExpired'[req[t].act]
  BY <1>1, <1>2 DEF RequestOK, HistoryKept, ReportPhase
<1> QED BY <1>1, <1>4, <1>5 DEF RequestOK

\* A freed slot is consistent.
LEMMA RequestFreed ==
  ASSUME NEW t \in Slot, req'[t] = Idle
  PROVE  RequestOK(t)'
BY DEF RequestOK, Idle, ReportPhase

\* Answering one request leaves the others consistent.
LEMMA AnswerOK ==
  ASSUME IInv, HistoryKept, NEW s \in Slot, NEW p, NEW a, Answer(s, p, a)
  PROVE  ReqInv'
<1> SUFFICES ASSUME NEW t \in Slot PROVE RequestOK(t)'  BY DEF ReqInv
<1>1. req'[t] = req[t] \/ req'[t] = Idle BY DEF Answer, IInv, TypeOK
<1> QED BY <1>1, RequestKept, RequestFreed

\* So does the answer to a report.
LEMMA ReplyOK ==
  ASSUME IInv, HistoryKept, NEW s \in Slot, Acknowledge(s) \/ Refuse(s)
  PROVE  ReqInv'
BY AnswerOK DEF Acknowledge, Refuse

\* A step that changes one request.
LEMMA RequestChanged ==
  ASSUME IInv, HistoryKept, NEW s \in Slot, NEW r, req' = [req EXCEPT ![s] = r],
         RequestOK(s)'
  PROVE  ReqInv'
<1> SUFFICES ASSUME NEW t \in Slot PROVE RequestOK(t)'  BY DEF ReqInv
<1>1. CASE t = s BY <1>1
<1>2. CASE t # s
  <2>1. req'[t] = req[t] BY <1>2 DEF IInv, TypeOK
  <2> QED BY <2>1, RequestKept
<1> QED BY <1>1, <1>2

\* Steps that touch no request.
LEMMA ReqFrame ==
  ASSUME IInv, HistoryKept, UNCHANGED req
  PROVE  ReqInv'
BY RequestKept DEF ReqInv

\* Every step keeps the requests, abandoned ones included, consistent.
LEMMA ReqStep == IInv /\ [Next]_vars => ReqInv'
<1> SUFFICES ASSUME IInv, [Next]_vars PROVE ReqInv'  OBVIOUS
<1>0. HistoryKept BY HistoryStep
<1> USE DEF rowVars, clockVars, serverVars, agentVars, ghostVars
<1>1. ASSUME NEW a \in Action,
             \/ CreateAction(a) \/ CancelAction(a) \/ ExpireAction(a) \/ CloseStaleAction(a)
             \/ ReconcileAction(a) \/ TimePasses(a)
      PROVE  ReqInv'
  BY <1>0, <1>1, ReqFrame
     DEF CreateAction, CancelAction, ExpireAction, CloseStaleAction, ReconcileAction,
         TimePasses, ExpiryPasses, DeliveryLeasePasses, ExecutionLeasePasses
<1>2. ASSUME NEW a \in Action, EmitAction(a) PROVE ReqInv'
  <2> SUFFICES ASSUME NEW t \in Slot PROVE RequestOK(t)'  BY DEF ReqInv
  <2>1. CASE req[t].phase = "listen"
    <3>1. req'[t] = [req[t] EXCEPT !.phase = "woken", !.act = a] BY <1>2, <2>1 DEF EmitAction
    <3>2. req'[t].phase = "woken" /\ req'[t].act = a
      BY <3>1 DEF IInv, TypeOK, Request
    <3> QED BY <3>2 DEF RequestOK, ReportPhase
  <2>2. CASE req[t].phase # "listen"
    BY <1>0, <1>2, <2>2, RequestKept DEF EmitAction
  <2> QED BY <2>1, <2>2
<1>3. ASSUME NEW s \in Slot, PollFind(s) PROVE ReqInv'
  <2>1. req[s] \in Request BY DEF IInv, TypeOK
  <2>2. CASE req' = [req EXCEPT ![s].phase = "none"]
    <3>1. req'[s].phase = "none" BY <2>1, <2>2 DEF IInv, TypeOK, Request
    <3>2. RequestOK(s)' BY <3>1 DEF RequestOK, ReportPhase
    <3> QED BY <1>0, <2>2, <3>2, RequestChanged
  <2>3. ASSUME NEW a \in Action, req' = [req EXCEPT ![s].phase = "found", ![s].act = a]
        PROVE  ReqInv'
    <3>1. req' = [req EXCEPT ![s] = [@ EXCEPT !.phase = "found", !.act = a]]
      BY <2>3 DEF IInv, TypeOK
    <3>2. req'[s].phase = "found" /\ req'[s].act = a
      BY <2>1, <3>1 DEF IInv, TypeOK, Request
    <3>3. RequestOK(s)' BY <3>2 DEF RequestOK, ReportPhase
    <3> QED BY <1>0, <3>1, <3>3, RequestChanged
  <2> QED BY <1>3, <2>2, <2>3 DEF PollFind
<1>4. ASSUME NEW s \in Slot, PollListen(s) PROVE ReqInv'
  <2>1. req' = [req EXCEPT ![s].phase = "listen"] BY <1>4 DEF PollListen
  <2>2. req'[s].phase = "listen" BY <2>1 DEF IInv, TypeOK, Request
  <2>3. RequestOK(s)' BY <2>2 DEF RequestOK, ReportPhase
  <2> QED BY <1>0, <2>1, <2>3, RequestChanged
<1>5. ASSUME NEW s \in Slot, ListenerTimeout(s) \/ PollClaim(s) \/ ListenerClaim(s) PROVE ReqInv'
  BY <1>0, <1>5, AnswerOK DEF ListenerTimeout, PollClaim, ListenerClaim, ClaimOrEmpty
<1>6. ASSUME NEW s \in Slot, RequestLost(s) PROVE ReqInv'
  <2>1. req' = [req EXCEPT ![s] = Idle] BY <1>6 DEF RequestLost
  <2>2. req'[s] = Idle BY <2>1 DEF IInv, TypeOK
  <2> QED BY <1>0, <2>1, <2>2, RequestFreed, RequestChanged
<1>7. ASSUME NEW s \in Slot, ReportRead(s) PROVE ReqInv'
  <2>1. CASE Acknowledge(s) \/ Refuse(s) BY <1>0, <2>1, ReplyOK
  <2>2. CASE /\ Acceptable(req[s].act, req[s].rep) /\ UNCHANGED <<agentVars, disk, acked>>
             /\ req' = [req EXCEPT ![s].phase = "write", ![s].read = status[req[s].act]]
    <3>1. req[s] \in Request /\ req[s].act \in Action /\ req[s].phase = "report"
      BY <1>7, ReqAct DEF ReportRead, IInv, TypeOK
    <3>2. req' = [req EXCEPT ![s] = [@ EXCEPT !.phase = "write", !.read = status[req[s].act]]]
      BY <2>2 DEF IInv, TypeOK
    <3>3. /\ req'[s].phase = "write" /\ req'[s].read = status[req[s].act]
          /\ req'[s].act = req[s].act /\ req'[s].rep = req[s].rep
      BY <3>1, <3>2 DEF IInv, TypeOK, Request
    <3>4. \/ req[s].rep = "RUNNING" /\ status[req[s].act] \in {"PENDING", "DELIVERED", "RUNNING"}
          \/ req[s].rep \in Final /\ status[req[s].act] \in {"DELIVERED", "RUNNING", "FAILED"}
      BY <2>2 DEF Acceptable, Recovering
    <3>5. UNCHANGED <<disk, acked, runs, outcome>> BY <1>7, <2>2 DEF ReportRead
    <3>6. RequestOK(s) BY DEF IInv, ReqInv
    <3>7. RequestOK(s)' BY <3>1, <3>3, <3>4, <3>5, <3>6 DEF RequestOK, ReportPhase
    <3> QED BY <1>0, <3>2, <3>7, RequestChanged
  <2> QED BY <1>7, <2>1, <2>2 DEF ReportRead
<1>8. ASSUME NEW s \in Slot, ReportWrite(s) PROVE ReqInv'
  <2>1. CASE Acknowledge(s) BY <1>0, <2>1, ReplyOK
  <2>2. CASE req[s].rep \in Final /\ req' = [req EXCEPT ![s].phase = "settle"]
    <3> DEFINE b == req[s].act
    <3>1. req[s] \in Request /\ b \in Action /\ req[s].phase = "write" /\ status[b] = req[s].read
      BY <1>8, ReqAct DEF ReportWrite, Raced, IInv, TypeOK
    <3>2. /\ req'[s].phase = "settle"
          /\ req'[s].act = b /\ req'[s].rep = req[s].rep
      BY <2>2, <3>1 DEF IInv, TypeOK, Request
    <3>3. status'[b] = req[s].rep BY <1>8, <3>1 DEF ReportWrite, IInv, TypeOK
    <3>4. ~leaseExpired'[b]
      <4>1. leaseExpired[b] => status[b] = "FAILED" BY <3>1 DEF IInv, RowInv
      <4> QED BY <1>8, <3>1, <4>1 DEF ReportWrite, IInv, TypeOK
    <3>5. UNCHANGED <<disk, acked, runs, outcome>> BY <1>8, <2>2 DEF ReportWrite
    <3>6. RequestOK(s) BY DEF IInv, ReqInv
    <3>7. RequestOK(s)' BY <2>2, <3>1, <3>2, <3>3, <3>4, <3>5, <3>6 DEF RequestOK, ReportPhase
    <3> QED BY <1>0, <2>2, <3>7, RequestChanged
  <2> QED BY <1>8, <2>1, <2>2 DEF ReportWrite
<1>9. ASSUME NEW s \in Slot, ReportRaced(s) \/ ReportSettle(s) \/ SettleFails(s) PROVE ReqInv'
  BY <1>0, <1>9, ReplyOK DEF ReportRaced, ReportSettle, SettleFails
<1>10. ASSUME AgentFlush \/ AgentPoll \/ AgentAnnounce PROVE ReqInv'
  <2>1. CASE AgentFlush
    <3>1. /\ disk.act \in Action /\ disk.rep \in Final /\ UNCHANGED <<disk, runs, outcome>>
      BY <2>1 DEF AgentFlush, IInv, DiskInv, TypeOK
    <3>2. PICK s \in Slot :
            req' = [req EXCEPT ![s] = [Idle EXCEPT !.phase = "report", !.act = disk.act, !.rep = disk.rep]]
      BY <2>1 DEF AgentFlush, Send
    <3>3. req'[s].phase = "report" /\ req'[s].act = disk.act /\ req'[s].rep = disk.rep
      BY <3>2 DEF IInv, TypeOK, Idle
    <3>4. outcome[disk.act] = disk.rep \/ (runs[disk.act] = 0 /\ disk.rep = "FAILED")
      BY <3>1, NoActionFact DEF IInv, DiskInv
    <3>5. RequestOK(s)' BY <3>1, <3>3, <3>4 DEF RequestOK, ReportPhase
    <3> QED BY <1>0, <3>2, <3>5, RequestChanged
  <2>2. CASE AgentPoll
    <3>1. PICK s \in Slot : req' = [req EXCEPT ![s] = [Idle EXCEPT !.phase = "poll"]]
      BY <2>2 DEF AgentPoll, Send
    <3>2. req'[s].phase = "poll" BY <3>1 DEF IInv, TypeOK, Idle
    <3>3. RequestOK(s)' BY <3>2 DEF RequestOK, ReportPhase
    <3> QED BY <1>0, <3>1, <3>3, RequestChanged
  <2>3. CASE AgentAnnounce
    <3>1. cur \in Action BY <2>3, InHand DEF AgentAnnounce, BeforeRun
    <3>2. PICK s \in Slot : req' = [req EXCEPT ![s] = [Idle EXCEPT !.phase = "report", !.act = cur]]
      BY <2>3 DEF AgentAnnounce, Send
    <3>3. req'[s].phase = "report" /\ req'[s].act = cur /\ req'[s].rep = "RUNNING"
      BY <3>2 DEF IInv, TypeOK, Idle
    <3>4. RequestOK(s)' BY <3>1, <3>3 DEF RequestOK, ReportPhase
    <3> QED BY <1>0, <3>2, <3>4, RequestChanged
  <2> QED BY <1>10, <2>1, <2>2, <2>3
<1>11. ASSUME \/ AgentDiscard \/ AgentGiveUp \/ AgentExecute \/ AgentFinish \/ AgentPersist
              \/ AgentTimeout \/ AgentPersistFails \/ AgentCrash \/ UNCHANGED vars
       PROVE  ReqInv'
  BY <1>0, <1>11, ReqFrame
     DEF AgentDiscard, AgentGiveUp, AgentExecute, AgentFinish, AgentPersist, AgentTimeout,
         AgentPersistFails, AgentCrash, vars
<1>12. ASSUME ServerRestart PROVE ReqInv'
  BY <1>0, <1>12, RequestKept, RequestFreed DEF ServerRestart, ReqInv
<1> QED BY <1>1, <1>2, <1>3, <1>4, <1>5, <1>6, <1>7, <1>8, <1>9, <1>10, <1>11, <1>12
        DEF Next, Sweep, ServerStep, AgentStep

-----------------------------------------------------------------------------
(* The outstanding request *)

\* The request the agent waits for is untouched, dead, or goes on.
GoesOn(t) ==
  \/ req'[t] = req[t] \/ req'[t] = Idle
  \/ req[t].phase \in PollPhase /\ req'[t].phase \in PollPhase
  \/ /\ req[t].phase \in ReportPhase /\ req'[t].phase \in ReportPhase
     /\ req'[t].rep = req[t].rep /\ req'[t].act = req[t].act

\* The request the agent waits for goes on.
LEMMA CallKept ==
  ASSUME IInv, UNCHANGED <<agentVars, disk>>, call # NoCall => GoesOn(call)
  PROVE  CallInv'
<1>1. ASSUME call # NoCall, req'[call] # Idle PROVE req[call] # Idle
  <2>1. GoesOn(call) BY <1>1
  <2> QED BY <1>1, <2>1 DEF GoesOn, Idle, PollPhase, ReportPhase
<1>2. PollPhase \cap ReportPhase = {} BY DEF PollPhase, ReportPhase
<1> QED BY <1>1, <1>2 DEF GoesOn, CallInv, IInv, agentVars

\* The agent waits for nothing.
LEMMA CallOver == ASSUME call' = NoCall PROVE CallInv'
BY DEF CallInv

\* A request is answered, the one the agent waits for or another.
LEMMA CallAnswered ==
  ASSUME IInv, NEW s \in Slot, NEW p, NEW a, Answer(s, p, a), call # s => UNCHANGED disk
  PROVE  CallInv'
<1>1. CASE call = s BY <1>1, CallOver DEF Answer
<1>2. CASE call # s
  <2>1. UNCHANGED <<agentVars, disk>> BY <1>2 DEF Answer
  <2>2. call \in Slot => req'[call] = req[call] BY <1>2 DEF Answer, IInv, TypeOK
  <2>3. call # NoCall => call \in Slot BY DEF IInv, TypeOK
  <2> QED BY <2>1, <2>2, <2>3, CallKept DEF GoesOn
<1> QED BY <1>1, <1>2

\* So it is when the answer is to a report.
LEMMA CallReplied ==
  ASSUME IInv, NEW s \in Slot, Acknowledge(s) \/ Refuse(s)
  PROVE  CallInv'
BY CallAnswered DEF Acknowledge, Refuse

\* A request advances without being answered.
LEMMA CallRequest ==
  ASSUME IInv, NEW s \in Slot, NEW r, req' = [req EXCEPT ![s] = r],
         UNCHANGED <<agentVars, disk>>, GoesOn(s)
  PROVE  CallInv'
<1>1. ASSUME call # NoCall PROVE GoesOn(call)
  <2>1. call \in Slot BY <1>1 DEF IInv, TypeOK
  <2>2. CASE call = s BY <2>2
  <2>3. CASE call # s BY <2>1, <2>3 DEF GoesOn, IInv, TypeOK
  <2> QED BY <2>2, <2>3
<1> QED BY <1>1, CallKept

\* Every step keeps the request the agent waits for the one it sent.
LEMMA CallStep == IInv /\ [Next]_vars => CallInv'
<1> SUFFICES ASSUME IInv, [Next]_vars PROVE CallInv'  OBVIOUS
<1> USE DEF rowVars, clockVars, serverVars, ghostVars
<1>1. ASSUME NEW a \in Action,
             \/ CreateAction(a) \/ CancelAction(a) \/ ExpireAction(a) \/ CloseStaleAction(a)
             \/ ReconcileAction(a) \/ TimePasses(a)
      PROVE  CallInv'
  BY <1>1, CallKept
     DEF CreateAction, CancelAction, ExpireAction, CloseStaleAction, ReconcileAction,
         TimePasses, ExpiryPasses, DeliveryLeasePasses, ExecutionLeasePasses, GoesOn
<1>2. ASSUME NEW a \in Action, EmitAction(a) PROVE CallInv'
  <2>1. ASSUME call # NoCall PROVE GoesOn(call)
    <3>1. call \in Slot BY <2>1 DEF IInv, TypeOK
    <3>2. CASE req[call].phase = "listen"
      <4>1. req'[call] = [req[call] EXCEPT !.phase = "woken", !.act = a]
        BY <1>2, <3>1, <3>2 DEF EmitAction
      <4>2. req'[call].phase = "woken" BY <3>1, <4>1 DEF IInv, TypeOK, Request
      <4> QED BY <3>2, <4>2 DEF GoesOn, PollPhase
    <3>3. CASE req[call].phase # "listen" BY <1>2, <3>1, <3>3 DEF EmitAction, GoesOn
    <3> QED BY <3>2, <3>3
  <2> QED BY <1>2, <2>1, CallKept DEF EmitAction
<1>3. ASSUME NEW s \in Slot, PollFind(s) PROVE CallInv'
  <2>1. req[s] \in Request /\ UNCHANGED <<agentVars, disk>> /\ req[s].phase = "poll"
    BY <1>3 DEF PollFind, IInv, TypeOK
  <2>2. CASE req' = [req EXCEPT ![s].phase = "none"]
    <3>1. req'[s].phase = "none" BY <2>1, <2>2 DEF IInv, TypeOK, Request
    <3> QED BY <2>1, <2>2, <3>1, CallRequest DEF GoesOn, PollPhase
  <2>3. ASSUME NEW a \in Action, req' = [req EXCEPT ![s].phase = "found", ![s].act = a]
        PROVE  CallInv'
    <3>1. req' = [req EXCEPT ![s] = [@ EXCEPT !.phase = "found", !.act = a]]
      BY <2>3 DEF IInv, TypeOK
    <3>2. req'[s].phase = "found" BY <2>1, <3>1 DEF IInv, TypeOK, Request
    <3> QED BY <2>1, <3>1, <3>2, CallRequest DEF GoesOn, PollPhase
  <2> QED BY <1>3, <2>2, <2>3 DEF PollFind
<1>4. ASSUME NEW s \in Slot, PollListen(s) PROVE CallInv'
  <2>1. req'[s].phase = "listen" BY <1>4 DEF PollListen, IInv, TypeOK, Request
  <2> QED BY <1>4, <2>1, CallRequest DEF PollListen, GoesOn, PollPhase
<1>5. ASSUME NEW s \in Slot, ListenerTimeout(s) \/ PollClaim(s) \/ ListenerClaim(s) PROVE CallInv'
  BY <1>5, CallAnswered DEF ListenerTimeout, PollClaim, ListenerClaim, ClaimOrEmpty
<1>6. ASSUME NEW s \in Slot, RequestLost(s) PROVE CallInv'
  <2>1. req' = [req EXCEPT ![s] = Idle] /\ req'[s] = Idle BY <1>6 DEF RequestLost, IInv, TypeOK
  <2> QED BY <1>6, <2>1, CallRequest DEF RequestLost, GoesOn
<1>7. ASSUME NEW s \in Slot, ReportRead(s) PROVE CallInv'
  <2>1. CASE Acknowledge(s) \/ Refuse(s) BY <2>1, CallReplied
  <2>2. CASE /\ UNCHANGED <<agentVars, disk, acked>>
             /\ req' = [req EXCEPT ![s].phase = "write", ![s].read = status[req[s].act]]
    <3>1. req[s] \in Request /\ req[s].phase = "report" BY <1>7 DEF ReportRead, IInv, TypeOK
    <3>2. req' = [req EXCEPT ![s] = [@ EXCEPT !.phase = "write", !.read = status[req[s].act]]]
      BY <2>2 DEF IInv, TypeOK
    <3>3. req'[s].phase = "write" /\ req'[s].act = req[s].act /\ req'[s].rep = req[s].rep
      BY <3>1, <3>2 DEF IInv, TypeOK, Request
    <3> QED BY <2>2, <3>1, <3>2, <3>3, CallRequest DEF GoesOn, ReportPhase
  <2> QED BY <1>7, <2>1, <2>2 DEF ReportRead
<1>8. ASSUME NEW s \in Slot, ReportWrite(s) PROVE CallInv'
  <2>1. CASE Acknowledge(s) BY <2>1, CallReplied
  <2>2. CASE UNCHANGED <<agentVars, disk>> /\ req' = [req EXCEPT ![s].phase = "settle"]
    <3>1. req[s] \in Request /\ req[s].phase = "write" BY <1>8 DEF ReportWrite, IInv, TypeOK
    <3>2. req'[s].phase = "settle" /\ req'[s].act = req[s].act /\ req'[s].rep = req[s].rep
      BY <2>2, <3>1 DEF IInv, TypeOK, Request
    <3> QED BY <2>2, <3>1, <3>2, CallRequest DEF GoesOn, ReportPhase
  <2> QED BY <1>8, <2>1, <2>2 DEF ReportWrite
<1>9. ASSUME NEW s \in Slot, ReportRaced(s) \/ ReportSettle(s) \/ SettleFails(s) PROVE CallInv'
  BY <1>9, CallReplied DEF ReportRaced, ReportSettle, SettleFails
<1>10. ASSUME AgentFlush \/ AgentPoll \/ AgentAnnounce PROVE CallInv'
  <2>1. CASE AgentFlush
    <3>1. PICK s \in Slot :
            /\ req' = [req EXCEPT ![s] = [Idle EXCEPT !.phase = "report", !.act = disk.act, !.rep = disk.rep]]
            /\ call' = s /\ pc' = "flushing" /\ UNCHANGED disk
      BY <2>1 DEF AgentFlush, Send
    <3>2. req'[s].phase = "report" /\ req'[s].act = disk.act /\ req'[s].rep = disk.rep
      BY <3>1 DEF IInv, TypeOK, Idle
    <3> QED BY <3>1, <3>2 DEF CallInv, ReportPhase
  <2>2. CASE AgentPoll
    <3>1. PICK s \in Slot : /\ req' = [req EXCEPT ![s] = [Idle EXCEPT !.phase = "poll"]]
                            /\ call' = s /\ pc' = "polling"
      BY <2>2 DEF AgentPoll, Send
    <3>2. req'[s].phase = "poll" BY <3>1 DEF IInv, TypeOK, Idle
    <3> QED BY <3>1, <3>2 DEF CallInv, PollPhase
  <2>3. CASE AgentAnnounce
    <3>1. PICK s \in Slot : /\ req' = [req EXCEPT ![s] = [Idle EXCEPT !.phase = "report", !.act = cur]]
                            /\ call' = s /\ pc' = "announcing" /\ cur' = cur
      BY <2>3 DEF AgentAnnounce, Send
    <3>2. req'[s].phase = "report" /\ req'[s].act = cur /\ req'[s].rep = "RUNNING"
      BY <3>1 DEF IInv, TypeOK, Idle
    <3> QED BY <3>1, <3>2 DEF CallInv, ReportPhase
  <2> QED BY <1>10, <2>1, <2>2, <2>3
<1>11. ASSUME AgentDiscard \/ AgentGiveUp \/ AgentExecute \/ AgentFinish \/ AgentPersist \/ AgentPersistFails
       PROVE  CallInv'
  <2>1. call = NoCall
    BY <1>11 DEF AgentDiscard, AgentGiveUp, AgentExecute, AgentFinish, AgentPersist,
                 AgentPersistFails, IInv, AgentInv
  <2>2. call' = call
    BY <1>11 DEF AgentDiscard, AgentGiveUp, AgentExecute, AgentFinish, AgentPersist, AgentPersistFails
  <2> QED BY <2>1, <2>2, CallOver
<1>12. ASSUME AgentTimeout \/ AgentCrash PROVE CallInv'
  BY <1>12, CallOver DEF AgentTimeout, AgentCrash
<1>13. ASSUME ServerRestart PROVE CallInv'
  <2>1. call # NoCall => GoesOn(call) BY <1>13 DEF ServerRestart, GoesOn, IInv, TypeOK
  <2> QED BY <1>13, <2>1, CallKept DEF ServerRestart
<1>14. ASSUME UNCHANGED vars PROVE CallInv'
  BY <1>14, CallKept DEF vars, GoesOn
<1> QED BY <1>1, <1>2, <1>3, <1>4, <1>5, <1>6, <1>7, <1>8, <1>9, <1>10, <1>11, <1>12, <1>13, <1>14
        DEF Next, Sweep, ServerStep, AgentStep

-----------------------------------------------------------------------------
(* The theorems *)

LEMMA NextIInv == IInv /\ [Next]_vars => IInv'
BY TypeStep, RowStep, AgentStepInv, DiskStep, ReqStep, CallStep DEF IInv

\* The inductive invariant holds in every reachable state.
THEOREM Invariance == Spec => []IInv
BY InitIInv, NextIInv, PTL DEF Spec

\* Rows, requests, disk and agent keep their types.
THEOREM TypeCorrect == Spec => []TypeOK
<1>1. IInv => TypeOK BY DEF IInv
<1> QED BY <1>1, Invariance, PTL

\* No action is executed twice.
THEOREM ExecutedAtMostOnce == Spec => []AtMostOnce
<1>1. IInv => AtMostOnce BY DEF IInv, RowInv, AtMostOnce
<1> QED BY <1>1, Invariance, PTL

\* An action shown as cancelled, expired or not started was not executed.
THEOREM NeverRunCorrect == Spec => []NeverRunUnlessStarted
<1>1. IInv => NeverRunUnlessStarted
  BY DEF IInv, TypeOK, RowInv, Unresolved, NeverRunUnlessStarted
<1> QED BY <1>1, Invariance, PTL

\* A final status the server did not decide by itself is what happened.
THEOREM OutcomeCorrect == Spec => []HonestOutcome
<1>1. IInv => HonestOutcome
  BY DEF IInv, TypeOK, RowInv, HonestOutcome
<1> QED BY <1>1, Invariance, PTL

\* The result of an executed action is never refused.
THEOREM ReportAcceptable == Spec => []ExecutedReportIsAcceptable
<1>1. IInv => ExecutedReportIsAcceptable
  <2> SUFFICES ASSUME IInv, NEW a \in Action, disk.act = a, runs[a] > 0
               PROVE  Acceptable(a, disk.rep) \/ Duplicate(a, disk.rep)
    BY DEF ExecutedReportIsAcceptable
  <2>1. runs[a] = 1 /\ disk.rep \in Final BY DEF IInv, TypeOK, RowInv
  <2>2. outcome[a] = disk.rep BY <2>1, NoActionFact DEF IInv, DiskInv
  <2>3. Unresolved(a) \/ status[a] = disk.rep BY <2>1, <2>2 DEF IInv, RowInv
  <2> QED BY <2>1, <2>3 DEF Unresolved, Acceptable, Recovering, Duplicate
<1> QED BY <1>1, Invariance, PTL

\* What the agent was told is recorded stays recorded.
THEOREM AckedOutcomeCorrect == Spec => []AckedOutcomeIsRecorded
<1>1. IInv => AckedOutcomeIsRecorded
  BY DEF IInv, TypeOK, RowInv, AckedOutcomeIsRecorded
<1> QED BY <1>1, Invariance, PTL

-----------------------------------------------------------------------------
(* Follow-ups are done once                                                 *)

\* Only a row that ended has follow-ups; its end is undone by no late report but that of an
\* action the execution lease closed, for which no outcome was applied.
Settling(a) == {s \in Slot : req[s].phase = "settle" /\ req[s].act = a}

Reconciled(a) ==
  /\ status[a] \notin Terminal => reconciled[a] = 0 /\ a \notin owed
  /\ reconciled[a] = 0 \/ (reconciled[a] = 1 /\ a \notin owed)
Applied(a) ==
  /\ settled[a] > 0 => status[a] \in Final /\ ~leaseExpired[a]
  /\ status[a] = "SUCCESS" => /\ settled[a] = 0 \/ (settled[a] = 1 /\ Settling(a) = {})
                              /\ \A s, t \in Settling(a) : s = t

FInv == IInv /\ \A a \in Action : Reconciled(a) /\ Applied(a)

\* A row that ended, other than by the execution lease, keeps its status; one that did not has
\* no outcome applied or about to be.
LEMMA AppliedFinal ==
  ASSUME FInv, NEW a \in Action, settled[a] > 0 \/ Settling(a) # {}
  PROVE  status[a] \in Final /\ ~leaseExpired[a]
<1>1. CASE settled[a] > 0 BY <1>1 DEF FInv, Applied
<1>2. ASSUME NEW s \in Settling(a) PROVE status[a] \in Final /\ ~leaseExpired[a]
  BY <1>2 DEF Settling, FInv, IInv, ReqInv, RequestOK
<1> QED BY <1>1, <1>2

LEMMA AppliedKept ==
  ASSUME FInv, HistoryKept, NEW a \in Action, settled'[a] = settled[a],
         Settling(a)' \subseteq Settling(a)
  PROVE  Applied(a)'
<1>1. settled[a] \in Nat BY DEF FInv, IInv, TypeOK
<1>2. CASE settled[a] > 0 \/ Settling(a) # {}
  <2>1. status[a] \in Final /\ ~leaseExpired[a] BY <1>2, AppliedFinal
  <2>2. status'[a] = status[a] /\ ~leaseExpired'[a] BY <2>1 DEF HistoryKept
  <2> QED BY <2>1, <2>2 DEF FInv, Applied
<1>3. CASE settled[a] = 0 /\ Settling(a) = {} BY <1>3 DEF Applied
<1> QED BY <1>1, <1>2, <1>3

\* A request that is dropped, or goes on to anything but its follow-up, settles nothing.
LEMMA SettlingKept ==
  ASSUME NEW a \in Action, \A s \in Slot : req'[s] = req[s] \/ req'[s].phase # "settle"
  PROVE  Settling(a)' \subseteq Settling(a)
BY DEF Settling

\* Only the write of a final report leaves a follow-up to be done.
LEMMA NoneSettles ==
  ASSUME IInv, [Next]_vars, NEW s \in Slot, req'[s] # req[s], req'[s].phase = "settle"
  PROVE  ReportWrite(s) /\ req[s].rep \in Final
<1> USE DEF rowVars, clockVars, serverVars, agentVars, ghostVars
<1>1. req \in [Slot -> Request] /\ req[s] \in Request BY DEF IInv, TypeOK
<1>2. ASSUME NEW t \in Slot, req' = [req EXCEPT ![t] = Idle] PROVE FALSE
  BY <1>1, <1>2 DEF Idle
<1>3. ASSUME NEW a \in Action, EmitAction(a) PROVE FALSE
  <2>1. req'[s] = [req[s] EXCEPT !.phase = "woken", !.act = a] BY <1>3 DEF EmitAction
  <2> QED BY <1>1, <2>1 DEF Request
<1>4. ASSUME NEW t \in Slot, PollFind(t) \/ PollListen(t) PROVE FALSE
  <2>1. t = s BY <1>1, <1>4 DEF PollFind, PollListen
  <2>2. \/ req'[s] = [req[s] EXCEPT !.phase = "none"] \/ req'[s] = [req[s] EXCEPT !.phase = "listen"]
        \/ \E a : req'[s] = [req[s] EXCEPT !.phase = "found", !.act = a]
    BY <1>1, <1>4, <2>1 DEF PollFind, PollListen
  <2> QED BY <1>1, <2>2 DEF Request
<1>5. ASSUME NEW t \in Slot, \/ PollClaim(t) \/ ListenerTimeout(t) \/ ListenerClaim(t)
                             \/ ReportRaced(t) \/ ReportSettle(t) \/ SettleFails(t) \/ RequestLost(t)
      PROVE  FALSE
  BY <1>2, <1>5 DEF PollClaim, ListenerTimeout, ListenerClaim, ClaimOrEmpty, ReportRaced,
                    ReportSettle, SettleFails, RequestLost, Acknowledge, Refuse, Answer
<1>6. ASSUME NEW t \in Slot, ReportRead(t) PROVE FALSE
  <2>1. CASE Acknowledge(t) \/ Refuse(t) BY <1>2, <2>1 DEF Acknowledge, Refuse, Answer
  <2>2. CASE req' = [req EXCEPT ![t].phase = "write", ![t].read = status[req[t].act]]
    <3>1. t = s BY <1>1, <2>2
    <3>2. req'[s] = [req[s] EXCEPT !.phase = "write", !.read = status[req[t].act]]
      BY <1>1, <2>2, <3>1
    <3> QED BY <1>1, <3>2 DEF Request
  <2> QED BY <1>6, <2>1, <2>2 DEF ReportRead
<1>7. ASSUME NEW t \in Slot, ReportWrite(t) PROVE ReportWrite(s) /\ req[s].rep \in Final
  <2>1. CASE Acknowledge(t) BY <1>2, <2>1 DEF Acknowledge, Answer
  <2>2. CASE req[t].rep \in Final /\ req' = [req EXCEPT ![t].phase = "settle"]
    <3>1. t = s BY <1>1, <2>2
    <3> QED BY <1>7, <2>2, <3>1
  <2> QED BY <1>7, <2>1, <2>2 DEF ReportWrite
<1>8. ASSUME NEW r, NEW p, Send(r, p), r.phase # "settle" PROVE FALSE
  BY <1>1, <1>8 DEF Send
<1>9. CASE AgentFlush \/ AgentPoll \/ AgentAnnounce
  BY <1>8, <1>9 DEF AgentFlush, AgentPoll, AgentAnnounce, Idle
<1>10. CASE ServerRestart
  BY <1>10 DEF ServerRestart, Idle
<1> QED BY <1>3, <1>4, <1>5, <1>6, <1>7, <1>9, <1>10
   DEF Next, vars, Sweep, ServerStep, AgentStep, CreateAction, CancelAction,
       ExpireAction, CloseStaleAction, ReconcileAction, TimePasses, ExpiryPasses,
       DeliveryLeasePasses, ExecutionLeasePasses, AgentDiscard, AgentGiveUp,
       AgentExecute, AgentFinish, AgentPersist, AgentPersistFails, AgentTimeout, AgentCrash

LEMMA AppliedStep == ASSUME FInv, [Next]_vars, NEW a \in Action PROVE Applied(a)'
<1>0. IInv /\ HistoryKept BY HistoryStep DEF FInv
<1> USE DEF rowVars, clockVars, serverVars, agentVars, ghostVars
<1>1. CASE \E s \in Slot : ReportWrite(s) /\ req[s].rep \in Final
  <2>1. PICK s \in Slot : ReportWrite(s) /\ req[s].rep \in Final BY <1>1
  <2> DEFINE b == req[s].act
  <2>2. /\ b \in Action /\ req[s].phase = "write" /\ status[b] = req[s].read
        /\ req' = [req EXCEPT ![s].phase = "settle"] /\ UNCHANGED settled
        /\ status'[b] = req[s].rep
    BY <1>0, <2>1, ReqAct DEF ReportWrite, Raced, IInv, TypeOK
  <2>3. req[s] \in Request BY <1>0 DEF IInv, TypeOK
  <2>4. /\ req'[s].phase = "settle" /\ req'[s].act = b
        /\ \A t \in Slot \ {s} : req'[t] = req[t]
    BY <1>0, <2>2, <2>3 DEF IInv, TypeOK, Request
  <2>5. CASE a # b
    <3>1. Settling(a)' \subseteq Settling(a) BY <2>4, <2>5 DEF Settling
    <3> QED BY <1>0, <2>2, <3>1, AppliedKept
  <2>6. CASE a = b
    <3>1. status[b] \in {"DELIVERED", "RUNNING", "FAILED"}
      BY <1>0, <2>1, <2>2 DEF IInv, ReqInv, RequestOK
    <3>2. CASE status[b] \in Final /\ ~leaseExpired[b]
      <4>1. status'[b] = "FAILED" /\ ~leaseExpired'[b] BY <1>0, <2>2, <3>1, <3>2 DEF HistoryKept
      <4> QED BY <2>6, <4>1 DEF Applied
    <3>3. CASE ~(status[b] \in Final /\ ~leaseExpired[b])
      <4>1. ~(settled[a] > 0) /\ Settling(a) = {} BY <2>6, <3>3, AppliedFinal
      <4>2. settled'[a] = 0 BY <1>0, <2>2, <4>1 DEF IInv, TypeOK
      <4>3. Settling(a)' \subseteq {s} BY <2>4, <4>1 DEF Settling
      <4> QED BY <4>2, <4>3 DEF Applied
    <3> QED BY <3>2, <3>3
  <2> QED BY <2>5, <2>6
<1>2. CASE \E s \in Slot : ReportSettle(s)
  <2>1. PICK s \in Slot : ReportSettle(s) BY <1>2
  <2> DEFINE b == req[s].act
  <2>2. /\ b \in Action /\ s \in Settling(b)
        /\ settled' = [settled EXCEPT ![b] = @ + 1] /\ UNCHANGED rowVars
    BY <1>0, <2>1, ReqAct DEF ReportSettle, Settling
  <2>3. req'[s] = Idle /\ \A t \in Slot \ {s} : req'[t] = req[t]
    BY <1>0, <2>1 DEF ReportSettle, Acknowledge, Answer, IInv, TypeOK
  <2>4. Settling(a)' = Settling(a) \ {s} BY <2>3 DEF Settling, Idle
  <2>5. CASE a # b
    <3>1. settled'[a] = settled[a] BY <1>0, <2>2, <2>5 DEF IInv, TypeOK
    <3> QED BY <1>0, <2>4, <3>1, AppliedKept
  <2>6. CASE a = b
    <3>1. status[b] \in Final /\ ~leaseExpired[b] BY <2>2, AppliedFinal
    <3>2. settled[b] \in Nat /\ settled'[b] = settled[b] + 1 BY <1>0, <2>2 DEF IInv, TypeOK
    <3>3. status[b] = "SUCCESS" => settled[b] = 0 /\ Settling(b) = {s}
      BY <2>2 DEF FInv, Applied
    <3>4. status'[b] = status[b] /\ ~leaseExpired'[b] BY <2>2, <3>1
    <3> QED BY <2>4, <2>6, <3>1, <3>2, <3>3, <3>4 DEF Applied
  <2> QED BY <2>5, <2>6
<1>3. CASE ~(\E s \in Slot : ReportSettle(s) \/ (ReportWrite(s) /\ req[s].rep \in Final))
  <2>1. UNCHANGED settled
    BY <1>3 DEF Next, vars, Sweep, ServerStep, AgentStep, CreateAction, EmitAction, CancelAction,
       ExpireAction, CloseStaleAction, ReconcileAction, TimePasses, ExpiryPasses,
       DeliveryLeasePasses, ExecutionLeasePasses, PollFind, PollClaim, PollListen,
       ListenerTimeout, ListenerClaim, ClaimOrEmpty, ReportRead, ReportWrite, ReportRaced,
       SettleFails, RequestLost, AgentFlush, AgentPoll, AgentDiscard, AgentAnnounce, AgentGiveUp,
       AgentExecute, AgentFinish, AgentPersist, AgentPersistFails, AgentTimeout, AgentCrash,
       ServerRestart
  <2>2. \A s \in Slot : req'[s] = req[s] \/ req'[s].phase # "settle" BY <1>0, <1>3, NoneSettles
  <2>3. Settling(a)' \subseteq Settling(a) BY <2>2, SettlingKept
  <2> QED BY <1>0, <2>1, <2>3, AppliedKept
<1> QED BY <1>1, <1>2, <1>3

\* A row for which a follow-up was due has ended, and stays so.
LEMMA ReconciledStep == ASSUME FInv, [Next]_vars, NEW a \in Action PROVE Reconciled(a)'
<1>0. /\ IInv /\ Reconciled(a) /\ status \in [Action -> Status] /\ owed \subseteq Action
      /\ reconciled \in [Action -> Nat]
  BY DEF FInv, IInv, TypeOK
<1> USE DEF rowVars, clockVars, serverVars, agentVars, ghostVars
<1>1. ASSUME NEW b \in Action, CancelAction(b) \/ ExpireAction(b) \/ CloseStaleAction(b)
      PROVE  Reconciled(a)'
  <2>1. /\ status[b] \notin Terminal /\ owed' = owed \cup {b} /\ reconciled' = reconciled
        /\ \E st \in Terminal : status' = [status EXCEPT ![b] = st]
    BY <1>1 DEF CancelAction, ExpireAction, Expirable, CloseStaleAction, Closable
  <2> QED BY <1>0, <2>1 DEF Reconciled
<1>2. ASSUME NEW b \in Action, ReconcileAction(b) PROVE Reconciled(a)'
  BY <1>0, <1>2 DEF ReconcileAction, Reconciled
<1>3. ASSUME NEW s \in Slot, ReportWrite(s) PROVE Reconciled(a)'
  <2> DEFINE b == req[s].act
  <2>1. /\ b \in Action /\ req[s].phase = "write" /\ status[b] = req[s].read
        /\ status' = [status EXCEPT ![b] = req[s].rep] /\ UNCHANGED <<owed, reconciled>>
    BY <1>0, <1>3, ReqAct DEF ReportWrite, Raced
  <2>2. status[b] \in Terminal => req[s].rep \in Final
    BY <1>0, <2>1 DEF IInv, ReqInv, RequestOK
  <2> QED BY <1>0, <2>1, <2>2 DEF Reconciled
<1>4. ASSUME NEW s \in Slot, PollClaim(s) \/ ListenerClaim(s) PROVE Reconciled(a)'
  <2>1. req[s].act \in Action BY <1>0, <1>4, ReqAct DEF PollClaim, ListenerClaim
  <2>2. UNCHANGED <<owed, reconciled>> BY <1>4 DEF PollClaim, ListenerClaim, ClaimOrEmpty
  <2>3. \/ UNCHANGED status
        \/ status[req[s].act] \in Waiting /\ status' = [status EXCEPT ![req[s].act] = "DELIVERED"]
    BY <1>4 DEF PollClaim, ListenerClaim, ClaimOrEmpty, Claimable, Deliver
  <2> QED BY <1>0, <2>1, <2>2, <2>3 DEF Reconciled
<1>5. ASSUME NEW b \in Action, CreateAction(b) PROVE Reconciled(a)'
  BY <1>0, <1>5 DEF CreateAction, Reconciled
<1>6. CASE ServerRestart BY <1>0, <1>6 DEF ServerRestart, Reconciled
<1>7. CASE UNCHANGED <<status, owed, reconciled>> BY <1>0, <1>7 DEF Reconciled
<1> QED BY <1>1, <1>2, <1>3, <1>4, <1>5, <1>6, <1>7
   DEF Next, vars, Sweep, ServerStep, AgentStep, EmitAction, TimePasses, ExpiryPasses,
       DeliveryLeasePasses, ExecutionLeasePasses, PollFind, PollListen, ListenerTimeout,
       ReportRead, ReportRaced, ReportSettle, SettleFails, RequestLost, AgentFlush, AgentPoll,
       AgentDiscard, AgentAnnounce, AgentGiveUp, AgentExecute, AgentFinish, AgentPersist,
       AgentPersistFails, AgentTimeout, AgentCrash

\* A success is applied once, and a row that ended without one is reconciled at most once.
THEOREM FollowUpsDoneOnce == Spec => []FollowUpsOnce
<1>1. Init => FInv
  <2> SUFFICES ASSUME Init PROVE \A a \in Action : Reconciled(a) /\ Applied(a)
    BY InitIInv DEF FInv
  <2> QED BY DEF Init, Reconciled, Applied
<1>2. FInv /\ [Next]_vars => FInv' BY NextIInv, ReconciledStep, AppliedStep DEF FInv
<1>3. FInv => FollowUpsOnce
  <2> SUFFICES ASSUME FInv, NEW a \in Action
               PROVE  /\ outcome[a] = "SUCCESS" => settled[a] <= 1
                      /\ reconciled[a] + (IF a \in owed THEN 1 ELSE 0) <= 1
    BY DEF FollowUpsOnce
  <2>1. settled[a] \in Nat /\ reconciled[a] \in Nat BY DEF FInv, IInv, TypeOK
  <2>2. ASSUME outcome[a] = "SUCCESS", settled[a] > 0 PROVE settled[a] <= 1
    <3>1. status[a] \in Final /\ ~leaseExpired[a] BY <2>2, AppliedFinal
    <3>2. status[a] = "SUCCESS"
      BY <2>2, <3>1 DEF FInv, IInv, RowInv, Unresolved
    <3> QED BY <3>2 DEF FInv, Applied
  <2>3. reconciled[a] + (IF a \in owed THEN 1 ELSE 0) <= 1 BY DEF FInv, Reconciled
  <2> QED BY <2>1, <2>2, <2>3
<1> QED BY <1>1, <1>2, <1>3, PTL DEF Spec

-----------------------------------------------------------------------------
(* The state machine of the actions                                         *)

\* What the agent holds, has on disk or reports was delivered to it.
Handed == {a \in Action : status[a] \notin {"ABSENT", "PENDING"}}
HandedInv ==
  /\ {cur, disk.act} \subseteq Handed \cup {NoAction}
  /\ \A s \in Slot : req[s].phase \in ReportPhase => req[s].act \in Handed

LInv == IInv /\ HandedInv

\* A row that was delivered is not taken back.
LEMMA HandedKept ==
  ASSUME IInv, [Next]_vars, NEW a \in Handed
  PROVE  a \in Handed'
<1>0. a \in Action /\ status \in [Action -> Status] BY DEF Handed, IInv, TypeOK
<1>1. ASSUME NEW s \in Slot, ReportWrite(s) PROVE status'[a] = status[a] \/ status'[a] \in Report
  <2>1. req[s].rep \in Report BY DEF IInv, TypeOK, Request
  <2>2. status' = [status EXCEPT ![req[s].act] = req[s].rep] BY <1>1 DEF ReportWrite
  <2> QED BY <1>0, <2>1, <2>2
<1>2. ASSUME NEW s \in Slot, PollClaim(s) \/ ListenerClaim(s)
      PROVE  status'[a] = status[a] \/ status'[a] = "DELIVERED"
  BY <1>0, <1>2, ReqAct DEF PollClaim, ListenerClaim, ClaimOrEmpty, Deliver
<1>3. ASSUME NEW b \in Action, \/ CreateAction(b) \/ CancelAction(b) \/ ExpireAction(b)
                               \/ CloseStaleAction(b)
      PROVE  status'[a] = status[a] \/ status'[a] \in Terminal
  BY <1>0, <1>3 DEF CreateAction, CancelAction, ExpireAction, CloseStaleAction, Handed
<1>4. \/ UNCHANGED status
      \/ \E s \in Slot : ReportWrite(s) \/ PollClaim(s) \/ ListenerClaim(s)
      \/ \E b \in Action : \/ CreateAction(b) \/ CancelAction(b) \/ ExpireAction(b)
                           \/ CloseStaleAction(b)
  BY DEF rowVars, clockVars, serverVars, agentVars, ghostVars, Next, vars, Sweep, ServerStep,
       AgentStep, EmitAction, ReconcileAction, TimePasses, ExpiryPasses,
       DeliveryLeasePasses, ExecutionLeasePasses, PollFind, PollListen, ListenerTimeout,
       ReportRead, ReportRaced, ReportSettle, SettleFails, RequestLost, AgentFlush, AgentPoll,
       AgentDiscard, AgentAnnounce, AgentGiveUp, AgentExecute, AgentFinish, AgentPersist,
       AgentPersistFails, AgentTimeout, AgentCrash, ServerRestart
<1> QED BY <1>1, <1>2, <1>3, <1>4 DEF Handed

\* What the agent is told of comes from a report of its own, or from a claim.
LEMMA HandedReply ==
  ASSUME LInv, NEW s \in Slot, req[s].phase \in ReportPhase, Acknowledge(s) \/ Refuse(s)
  PROVE  /\ {cur', disk'.act} \subseteq Handed \cup {NoAction}
         /\ \A t \in Slot : req'[t] \in {req[t], Idle}
<1>1. req[s].act \in Handed BY DEF LInv, HandedInv
<1>2. cur' \in {cur, NoAction, req[s].act} BY DEF Acknowledge, Refuse, Answer, agentVars
<1>3. disk' \in {disk, NoReport} BY DEF Acknowledge, Refuse
<1>4. \A t \in Slot : req'[t] \in {req[t], Idle}
  BY DEF Acknowledge, Refuse, Answer, LInv, IInv, TypeOK
<1> QED BY <1>1, <1>2, <1>3, <1>4 DEF NoReport, LInv, HandedInv

\* A request is new, gone, or about the action it was about.
LEMMA HandedFrame ==
  ASSUME LInv, [Next]_vars, {cur', disk'.act} \subseteq Handed \cup {NoAction},
         \A t \in Slot : \/ req'[t].phase \notin ReportPhase
                         \/ req'[t].act \in Handed
                         \/ req'[t] = req[t]
  PROVE  HandedInv'
<1>1. Handed \subseteq Handed' BY HandedKept DEF LInv
<1> QED BY <1>1 DEF LInv, HandedInv

LEMMA HandedStep == ASSUME LInv, [Next]_vars PROVE HandedInv'
<1>0. /\ req \in [Slot -> Request] /\ {cur, disk.act} \subseteq Handed \cup {NoAction}
      /\ IInv /\ \A s \in Slot : req[s].phase \in ReportPhase => req[s].act \in Handed
  BY DEF LInv, HandedInv, IInv, TypeOK
<1> USE DEF rowVars, clockVars, serverVars, agentVars, ghostVars
<1>1. ASSUME NEW s \in Slot, PollClaim(s) \/ ListenerClaim(s) PROVE HandedInv'
  <2>1. /\ req' = [req EXCEPT ![s] = Idle] /\ disk' = disk
        /\ cur' \in {cur, NoAction} \/ (cur' = req[s].act /\ Deliver(req[s].act))
    BY <1>1 DEF PollClaim, ListenerClaim, ClaimOrEmpty, Answer
  <2>2. \A t \in Slot : req'[t].phase \notin ReportPhase \/ req'[t] = req[t]
    BY <1>0, <2>1 DEF Idle, ReportPhase
  <2>3. CASE cur' \in {cur, NoAction} BY <1>0, <2>1, <2>2, <2>3, HandedFrame
  <2>4. CASE cur' = req[s].act /\ Deliver(req[s].act)
    <3>1. cur' \in Action BY <1>0, <1>1, <2>4, ReqAct DEF PollClaim, ListenerClaim
    <3>2. cur' \in Handed' BY <1>0, <2>4, <3>1 DEF Deliver, Handed, IInv, TypeOK
    <3>3. Handed \subseteq Handed' BY <1>0, HandedKept
    <3> QED BY <1>0, <2>1, <2>2, <3>2, <3>3 DEF HandedInv
  <2> QED BY <2>1, <2>3, <2>4
<1>2. ASSUME NEW s \in Slot, \/ ReportRead(s) \/ ReportWrite(s) \/ ReportRaced(s)
                             \/ ReportSettle(s) \/ SettleFails(s)
      PROVE  HandedInv'
  <2>1. req[s].phase \in ReportPhase /\ req[s].act \in Handed
    BY <1>0, <1>2 DEF ReportRead, ReportWrite, ReportRaced, ReportSettle, SettleFails, ReportPhase
  <2>2. CASE Acknowledge(s) \/ Refuse(s)
    <3>1. /\ {cur', disk'.act} \subseteq Handed \cup {NoAction}
          /\ \A t \in Slot : req'[t] \in {req[t], Idle}
      BY <2>1, <2>2, HandedReply
    <3>2. Idle.phase \notin ReportPhase BY DEF Idle, ReportPhase
    <3> QED BY <3>1, <3>2, HandedFrame
  <2>3. CASE /\ UNCHANGED <<cur, disk>>
             /\ \/ req' = [req EXCEPT ![s].phase = "write", ![s].read = status[req[s].act]]
                \/ req' = [req EXCEPT ![s].phase = "settle"]
    <3>1. \A t \in Slot : t # s => req'[t] = req[t] BY <1>0, <2>3
    <3>2. req'[s].act = req[s].act BY <1>0, <2>3 DEF Request
    <3> QED BY <1>0, <2>1, <2>3, <3>1, <3>2, HandedFrame
  <2> QED BY <1>2, <2>2, <2>3
     DEF ReportRead, ReportWrite, ReportRaced, ReportSettle, SettleFails
<1>3. ASSUME NEW s \in Slot, PollFind(s) \/ PollListen(s) \/ ListenerTimeout(s) \/ RequestLost(s)
      PROVE  HandedInv'
  <2>1. cur' \in {cur, NoAction} /\ disk' = disk
    BY <1>3 DEF PollFind, PollListen, ListenerTimeout, RequestLost, Answer
  <2>2. \A t \in Slot : t # s => req'[t] = req[t]
    BY <1>0, <1>3 DEF PollFind, PollListen, ListenerTimeout, RequestLost, Answer
  <2>3. req'[s].phase \in {"idle", "none", "listen", "found"}
    BY <1>0, <1>3 DEF PollFind, PollListen, ListenerTimeout, RequestLost, Answer, Idle, Request
  <2> QED BY <1>0, <2>1, <2>2, <2>3, HandedFrame DEF ReportPhase
<1>4. ASSUME NEW a \in Action, EmitAction(a) PROVE HandedInv'
  <2>1. \A t \in Slot : req'[t] = req[t] \/ req'[t] = [req[t] EXCEPT !.phase = "woken", !.act = a]
    BY <1>4 DEF EmitAction
  <2>2. \A t \in Slot : req'[t] = req[t] \/ req'[t].phase = "woken" BY <1>0, <2>1 DEF Request
  <2> QED BY <1>0, <1>4, <2>2, HandedFrame DEF EmitAction, ReportPhase
<1>5. CASE ServerRestart
  <2>1. \A t \in Slot : req'[t] = req[t] \/ req'[t] = Idle BY <1>5 DEF ServerRestart
  <2> QED BY <1>0, <1>5, <2>1, HandedFrame DEF ServerRestart, ReportPhase, Idle
<1>6. ASSUME NEW r, NEW p, Send(r, p), UNCHANGED <<cur, disk>>,
             r.phase \in ReportPhase => r.act \in Handed
      PROVE  HandedInv'
  <2>1. \A t \in Slot : req'[t] = req[t] \/ req'[t] = r BY <1>0, <1>6 DEF Send
  <2> QED BY <1>0, <1>6, <2>1, HandedFrame
<1>7. CASE AgentFlush \/ AgentPoll \/ AgentAnnounce
  <2>1. AgentFlush => disk.act \in Handed
    BY <1>0 DEF AgentFlush, IInv, DiskInv
  <2>2. AgentAnnounce => cur \in Handed
    BY <1>0, InHand, NoActionFact DEF AgentAnnounce, BeforeRun
  <2> QED BY <1>6, <1>7, <2>1, <2>2 DEF AgentFlush, AgentPoll, AgentAnnounce, Idle, ReportPhase
<1>8. CASE UNCHANGED req /\ {cur', disk'.act} \subseteq {cur, disk.act, NoAction}
  BY <1>0, <1>8, HandedFrame
<1>9. \/ \E s \in Slot : \/ ServerStep(s) \/ SettleFails(s) \/ RequestLost(s)
      \/ \E a \in Action : EmitAction(a)
      \/ ServerRestart \/ AgentFlush \/ AgentPoll \/ AgentAnnounce
      \/ UNCHANGED req /\ {cur', disk'.act} \subseteq {cur, disk.act, NoAction}
  BY DEF Next, vars, Sweep, AgentStep, CreateAction, CancelAction, ExpireAction, CloseStaleAction,
       ReconcileAction, TimePasses, ExpiryPasses, DeliveryLeasePasses, ExecutionLeasePasses,
       AgentDiscard, AgentGiveUp, AgentExecute, AgentFinish, AgentPersist, AgentPersistFails,
       AgentTimeout, AgentCrash
<1> QED BY <1>1, <1>2, <1>3, <1>4, <1>5, <1>7, <1>8, <1>9 DEF ServerStep

-----------------------------------------------------------------------------
(* Steps of the state machine *)

\* A write of the row as a step of the state machine.
LEMMA Becomes ==
  ASSUME IInv, NEW a \in Action, NEW st, NEW lease, status' = [status EXCEPT ![a] = st],
         \/ leaseExpired' = [leaseExpired EXCEPT ![a] = lease]
         \/ leaseExpired' = leaseExpired /\ leaseExpired[a] = lease,
         UNCHANGED <<runs, outcome>>
  PROVE  Lifecycle!Become(a, st, lease)
<1>1. leaseExpired \in [Action -> BOOLEAN] BY DEF IInv, TypeOK
<1>2. leaseExpired' = [leaseExpired EXCEPT ![a] = lease] BY <1>1
<1> QED BY <1>2 DEF Lifecycle!Become

\* The report of the agent: it starts the action, repeats itself, concludes or discards it.
LEMMA WriteStep ==
  ASSUME LInv, NEW s \in Slot, ReportWrite(s)
  PROVE  [Lifecycle!Next]_(Lifecycle!vars)
<1> DEFINE a == req[s].act
<1> USE DEF rowVars, clockVars, serverVars, agentVars, ghostVars
<1>0. IInv /\ leaseExpired \in [Action -> BOOLEAN] /\ status \in [Action -> Status]
  BY DEF LInv, IInv, TypeOK
<1>1. /\ a \in Handed /\ a \in Action /\ req[s].phase = "write" /\ status[a] = req[s].read
      /\ status' = [status EXCEPT ![a] = req[s].rep]
      /\ leaseExpired' = [leaseExpired EXCEPT ![a] = @ /\ req[s].read # "FAILED"]
      /\ UNCHANGED <<runs, outcome>>
  BY DEF ReportWrite, Raced, LInv, HandedInv, ReportPhase, Handed
<1>2. leaseExpired[a] => status[a] = "FAILED" BY <1>0, <1>1 DEF IInv, RowInv
<1>3. leaseExpired' = [leaseExpired EXCEPT ![a] = FALSE] BY <1>0, <1>1, <1>2
<1>4. Lifecycle!Become(a, req[s].rep, FALSE) BY <1>0, <1>1, <1>3, Becomes
<1>5. CASE req[s].rep = "RUNNING"
  <2>1. status[a] \in {"DELIVERED", "RUNNING"}
    BY <1>0, <1>1, <1>5 DEF Handed, IInv, ReqInv, RequestOK
  <2>2. CASE status[a] = "DELIVERED"
    BY <1>1, <1>4, <1>5, <2>2 DEF Lifecycle!Next, Lifecycle!Start
  <2>3. CASE status[a] = "RUNNING"
    <3>1. UNCHANGED <<status, leaseExpired>> BY <1>0, <1>1, <1>2, <1>3, <1>5, <2>3
    <3> QED BY <1>1, <3>1 DEF Lifecycle!vars
  <2> QED BY <2>1, <2>2, <2>3
<1>6. CASE req[s].rep \in Final
  <2>1. status[a] \in {"DELIVERED", "RUNNING", "FAILED"}
    BY <1>0, <1>1, <1>6 DEF IInv, ReqInv, RequestOK
  <2>2. \/ outcome[a] = req[s].rep
        \/ runs[a] = 0 /\ req[s].rep = "FAILED"
    BY <1>0, <1>1, <1>6 DEF IInv, ReqInv, RequestOK, ReportPhase
  <2>3. CASE status[a] = "FAILED" /\ ~leaseExpired[a]
    <3>1. req[s].rep = "FAILED" BY <1>0, <1>1, <1>6, <2>2, <2>3 DEF IInv, RowInv
    <3>2. UNCHANGED <<status, leaseExpired>> BY <1>0, <1>1, <1>3, <2>3, <3>1
    <3> QED BY <1>1, <3>2 DEF Lifecycle!vars
  <2>4. CASE outcome[a] = req[s].rep /\ ~(status[a] = "FAILED" /\ ~leaseExpired[a])
    <3>1. runs[a] = 1 /\ (Unresolved(a) \/ status[a] = outcome[a])
      BY <1>0, <1>1, <1>6, <2>4 DEF IInv, RowInv
    <3>2. Lifecycle!Open(a) BY <1>6, <2>1, <2>4, <3>1 DEF Lifecycle!Open, Unresolved
    <3> QED BY <1>1, <1>4, <1>6, <2>4, <3>2 DEF Lifecycle!Next, Lifecycle!Conclude
  <2>5. CASE runs[a] = 0 /\ req[s].rep = "FAILED" /\ ~(status[a] = "FAILED" /\ ~leaseExpired[a])
    BY <1>1, <1>4, <2>1, <2>5 DEF Lifecycle!Next, Lifecycle!Discard, Lifecycle!Open
  <2> QED BY <2>2, <2>3, <2>4, <2>5
<1> QED BY <1>5, <1>6 DEF ReportWrite

\* Every step of the server, the agent and the clocks is one of the state machine, or none.
LEMMA LifecycleStep ==
  ASSUME LInv, [Next]_vars
  PROVE  [Lifecycle!Next]_(Lifecycle!vars)
<1>0. /\ IInv /\ RowInv /\ leaseExpired \in [Action -> BOOLEAN] /\ status \in [Action -> Status]
      /\ runs \in [Action -> Nat] /\ outcome \in [Action -> Final \cup {"NONE"}]
  BY DEF LInv, IInv, TypeOK
<1> USE DEF rowVars, clockVars, serverVars, agentVars, ghostVars
<1>1. ASSUME NEW a \in Action, CreateAction(a) PROVE Lifecycle!Next
  <2>1. status[a] = "ABSENT" /\ leaseExpired[a] = FALSE BY <1>0, <1>1 DEF CreateAction, RowInv
  <2>2. Lifecycle!Become(a, "PENDING", FALSE) BY <1>0, <1>1, <2>1, Becomes DEF CreateAction
  <2> QED BY <2>1, <2>2 DEF Lifecycle!Next, Lifecycle!Create
<1>2. ASSUME NEW a \in Action, CancelAction(a) \/ ExpireAction(a) PROVE Lifecycle!Next
  <2>1. status[a] \in Waiting BY <1>2 DEF CancelAction, ExpireAction, Expirable
  <2>2. leaseExpired[a] = FALSE /\ runs[a] = 0 BY <1>0, <2>1 DEF RowInv, Unresolved
  <2>3. \E st \in {"CANCELLED", "EXPIRED"} : Lifecycle!Become(a, st, FALSE)
    BY <1>0, <1>2, <2>2, Becomes DEF CancelAction, ExpireAction
  <2> QED BY <2>1, <2>2, <2>3 DEF Lifecycle!Next, Lifecycle!Withdraw, Lifecycle!Waiting
<1>3. ASSUME NEW a \in Action, CloseStaleAction(a) PROVE Lifecycle!Next
  <2>1. status[a] = "RUNNING" /\ Lifecycle!Become(a, "FAILED", TRUE)
    BY <1>0, <1>3, Becomes DEF CloseStaleAction, Closable
  <2> QED BY <2>1 DEF Lifecycle!Next, Lifecycle!Abandon
<1>4. ASSUME NEW s \in Slot, PollClaim(s) \/ ListenerClaim(s)
      PROVE  Lifecycle!Next \/ UNCHANGED <<status, leaseExpired, runs, outcome>>
  <2> DEFINE a == req[s].act
  <2>1. a \in Action BY <1>0, <1>4, ReqAct DEF PollClaim, ListenerClaim
  <2>2. UNCHANGED <<leaseExpired, runs, outcome>>
    BY <1>4 DEF PollClaim, ListenerClaim, ClaimOrEmpty
  <2>3. CASE status[a] \in Waiting /\ status' = [status EXCEPT ![a] = "DELIVERED"]
    <3>1. leaseExpired[a] = FALSE BY <1>0, <2>1, <2>3 DEF RowInv
    <3>2. Lifecycle!Become(a, "DELIVERED", FALSE) BY <1>0, <2>1, <2>2, <2>3, <3>1, Becomes
    <3> QED BY <2>1, <2>3, <3>2 DEF Lifecycle!Next, Lifecycle!Deliver, Lifecycle!Waiting
  <2>4. CASE UNCHANGED status BY <2>2, <2>4
  <2> QED BY <1>4, <2>3, <2>4
     DEF PollClaim, ListenerClaim, ClaimOrEmpty, Claimable, Deliver
<1>5. ASSUME NEW s \in Slot, ReportWrite(s) PROVE [Lifecycle!Next]_(Lifecycle!vars)
  BY <1>5, WriteStep
<1>6. CASE AgentExecute
  <2>1. cur \in Action /\ runs[cur] = 0 /\ Unresolved(cur)
    BY <1>0, <1>6, InHand DEF AgentExecute, IInv, AgentInv, BeforeRun
  <2>2. runs' = [runs EXCEPT ![cur] = 1] /\ UNCHANGED <<status, leaseExpired, outcome>>
    BY <1>0, <1>6, <2>1 DEF AgentExecute
  <2> QED BY <2>1, <2>2 DEF Lifecycle!Next, Lifecycle!Execute, Unresolved
<1>7. CASE AgentFinish
  <2>1. cur \in Action /\ runs[cur] = 1 /\ outcome[cur] = "NONE"
    BY <1>0, <1>7, InHand DEF AgentFinish, IInv, AgentInv
  <2>2. /\ \E o \in Final : outcome' = [outcome EXCEPT ![cur] = o]
        /\ UNCHANGED <<status, leaseExpired, runs>>
    BY <1>7 DEF AgentFinish
  <2> QED BY <2>1, <2>2 DEF Lifecycle!Next, Lifecycle!Finish, Lifecycle!Final
<1>8. \/ UNCHANGED <<status, leaseExpired, runs, outcome>>
      \/ \E a \in Action : \/ CreateAction(a) \/ CancelAction(a) \/ ExpireAction(a)
                           \/ CloseStaleAction(a)
      \/ \E s \in Slot : PollClaim(s) \/ ListenerClaim(s) \/ ReportWrite(s)
      \/ AgentExecute \/ AgentFinish
  BY DEF Next, vars, Sweep, ServerStep, AgentStep, EmitAction, ReconcileAction, TimePasses,
       ExpiryPasses, DeliveryLeasePasses, ExecutionLeasePasses, PollFind, PollListen,
       ListenerTimeout, ReportRead, ReportRaced, ReportSettle, SettleFails, RequestLost,
       AgentFlush, AgentPoll, AgentDiscard, AgentAnnounce, AgentGiveUp, AgentPersist,
       AgentPersistFails, AgentTimeout, AgentCrash, ServerRestart
<1> QED BY <1>1, <1>2, <1>3, <1>4, <1>5, <1>6, <1>7, <1>8 DEF Lifecycle!vars

\* The rows, and what the device really did, go through the documented state machine, whatever
\* requests are lost, late or raced, and whatever becomes of agent and server.
THEOREM LifecycleImplemented == Spec => ImplementsLifecycle
<1>1. Init => LInv
  <2> SUFFICES ASSUME Init PROVE HandedInv BY InitIInv DEF LInv
  <2> QED BY DEF Init, HandedInv, NoReport, Idle, ReportPhase
<1>2. LInv /\ [Next]_vars => LInv' BY NextIInv, HandedStep DEF LInv
<1>3. Init => Lifecycle!Init BY DEF Init, Lifecycle!Init
<1>4. LInv /\ [Next]_vars => [Lifecycle!Next]_(Lifecycle!vars) BY LifecycleStep
<1> QED BY <1>1, <1>2, <1>3, <1>4, PTL DEF Spec, ImplementsLifecycle, Lifecycle!Spec

=============================================================================
