------------------------------ MODULE Inventory ------------------------------
(***************************************************************************)
(* What the server knows of the inside of a device (agent.routes.ts,       *)
(* server/src/modules/inventory): snapshots of hardware, disks' health and *)
(* security posture, merged from partial reports; the record of hardware   *)
(* changes; the list of software and the alerts for forbidden software.    *)
(*                                                                         *)
(* A section of a snapshot is represented by the time it was collected at  *)
(* (0: never); "machine" and "software" remember what was there to collect.*)
(* The posture has a part for the antivirus and one for the firewall, of   *)
(* which one profile stands for the others.  A heartbeat reports both, and *)
(* an event each part that changed since the agent's previous reading.     *)
(* Reports are handled at the same time, a step for each await, and the    *)
(* answer does not wait for the comparisons a report starts.               *)
(***************************************************************************)
EXTENDS Integers, Sequences, FiniteSets, SequencesExt

CONSTANTS
  Focus,       \* sets of kinds of reports, or "rules", that are studied together
  Machine,     \* machines: records of ram (units of 512 MB) and cpu
  App,         \* applications
  Rule,        \* blacklist rules
  DefaultRule, \* rules the server seeds when it starts
  Forbids,     \* Forbids[r]: applications whose names match the rule
  Slot,        \* requests the server handles at the same time
  MaxTime,     \* bound: clock readings, for each focus
  MaxFaults,   \* bound: timeouts, failed sends and restarts
  MaxEdits     \* bound: edits of rules and alerts by an operator

Component == {"antivirus", "firewall"}
Kind == {"general", "smart", "heartbeat", "software"} \cup Component

ASSUME FocusAssumption == \A f \in Focus : f \subseteq Kind \cup {"rules"}
ASSUME MachineAssumption == Machine # {} /\ Machine \subseteq [ram : Nat \ {0}, cpu : STRING]
ASSUME RuleAssumption == DefaultRule \subseteq Rule /\ Forbids \in [Rule -> SUBSET App]
ASSUME BoundAssumption == MaxTime \in [Focus -> Nat] /\ MaxFaults \in Nat /\ MaxEdits \in Nat

Time   == UNION {0..MaxTime[f] : f \in Focus}
Row    == [at : Time, hardware : Time, smart : Time, antivirus : Time, firewall : Time]
Change == [field : {"ram", "cpu"}, from : Machine, to : Machine]
\* known: the list of software the agent believed in when it collected.
Report == [kind : Kind, at : Time, known : Time]

VARIABLES
  focus,     \* kinds of reports of this behaviour
  now,       \* the last clock reading
  machine,   \* machine[t]: the machine that was collected at t
  software,  \* software[t]: the applications that were collected at t
  outbox,    \* reports the agent has not delivered
  live,      \* those whose collector is waiting; the others are buffered
  last,      \* list of software the agent believes the server has
  watched,   \* the agent has a posture to compare the next one with
  request,   \* requests under way
  followup,  \* comparisons that requests have started
  rows,      \* DeviceInventory rows in the order of creation
  lists,     \* SoftwareInventory rows
  trail,     \* SoftwareChange rows
  changes,   \* HardwareChange rows
  ramAlerts, \* alerts of missing RAM
  rules,     \* SoftwareBlacklistRule rows
  open,      \* open alerts of each application
  due,       \* history: the newest accepted report of each section
  behind,    \* history: sections that a race or a late report may have set back
  lapsed,    \* history: a comparison was lost, or raced with another snapshot
  unsure,    \* history: last time of a list that was accepted unnoticed
  detour,    \* history: a list did not go straight to the server
  examined,  \* history: lists that were evaluated, with the rules at that time
  alerted,   \* history: applications with an alert
  crowded,   \* history: two evaluations of software overlapped
  faults,    \* history: faults
  edits      \* history: edits

agentVars    == <<machine, software, outbox, live, last, watched>>
snapshotVars == <<rows, changes, ramAlerts, due, behind, lapsed>>
softwareVars == <<lists, trail, unsure, detour, rules, open, examined, alerted, crowded>>
vars == <<focus, now, agentVars, request, followup, snapshotVars, softwareVars, faults, edits>>

Section == {"hardware", "smart"} \cup Component
SectionOf(kind) == IF kind = "general" THEN "hardware" ELSE "smart"
PostureOf(kind) == IF kind = "heartbeat" THEN Component ELSE {kind}

NoRow  == [at |-> 0, hardware |-> 0, smart |-> 0, antivirus |-> 0, firewall |-> 0]
NoReport == [kind |-> "general", at |-> 0, known |-> 0]
NoRequest == [phase |-> "idle", report |-> NoReport, heard |-> FALSE,
              index |-> 0, base |-> NoRow, count |-> 0]
NoFollowup == [phase |-> "idle", at |-> 0, count |-> 0, found |-> {},
               todo |-> {}, next |-> {}]

Greatest(S) == IF S = {} THEN 0 ELSE CHOOSE t \in S : \A u \in S : u <= t

\* orderBy: { collectedAt: 'desc' } over the rows of the indices I: any of the first.
FirstOf(I) == {i \in I : \A j \in I : rows[j].at <= rows[i].at}

\* ensureDefaultBlacklistRules
Seeded == IF "rules" \in focus THEN DefaultRule ELSE {}

Init ==
  /\ focus \in Focus /\ now = 0
  /\ machine = [t \in Time |-> CHOOSE m \in Machine : TRUE]
  /\ software = [t \in Time |-> {}]
  /\ outbox = {} /\ live = {} /\ last = 0 /\ watched = FALSE
  /\ request = [s \in Slot |-> NoRequest] /\ followup = [s \in Slot |-> NoFollowup]
  /\ rows = <<>> /\ lists = {} /\ trail = {} /\ changes = <<>> /\ ramAlerts = 0
  /\ rules = Seeded /\ open = [a \in App |-> 0]
  /\ due = [k \in Section |-> 0] /\ behind = {} /\ lapsed = FALSE
  /\ unsure = 0 /\ detour = FALSE /\ examined = {} /\ alerted = {} /\ crowded = FALSE
  /\ faults = 0 /\ edits = 0

-----------------------------------------------------------------------------
(* The agent                                                                *)

Reading == now < MaxTime[focus] /\ now' = now + 1

\* DetectSecurityChanges: the first posture is what the next ones are compared with.
Transitions(kind) == IF kind = "heartbeat" /\ watched THEN Component \cap focus ELSE {}

\* CollectInventory, CollectSmart, ...HeartbeatAndSecurityConfirmed.
CollectSnapshot(kind) ==
  /\ kind \in focus \cap {"general", "smart", "heartbeat"} /\ Reading
  /\ \E m \in Machine :
       /\ kind # "general" => m = machine[now']
       /\ machine' = [machine EXCEPT ![now'] = m]
  /\ \E changed \in SUBSET Transitions(kind) :
       LET new == {[kind |-> k, at |-> now', known |-> 0] : k \in changed \cup {kind}} IN
       outbox' = outbox \cup new /\ live' = live \cup new
  /\ watched' = (watched \/ kind = "heartbeat")
  /\ UNCHANGED <<focus, software, last, request, followup, snapshotVars, softwareVars, faults, edits>>

\* Mutant: the list counts as known before the server confirms it.
BelievedAtOnce == now + 1

Believed == last

\* collectAndSendSoftwareConfirmed: nothing is sent when the list is the known one.
CollectSoftware ==
  /\ "software" \in focus /\ Reading
  /\ \E list \in SUBSET App :
       LET same == last # 0 /\ list # {} /\ list = software[last]
           sent == IF same THEN {}
                   ELSE {[kind |-> "software", at |-> now', known |-> last]} IN
       /\ software' = [software EXCEPT ![now'] = list]
       /\ outbox' = outbox \cup sent /\ live' = live \cup sent
       /\ last' = IF same THEN last ELSE Believed
       /\ IF sent # {} /\ \E r \in live : r.kind = "software"
          THEN unsure' = now' /\ detour' = TRUE
          ELSE UNCHANGED <<unsure, detour>>
  /\ UNCHANGED <<focus, machine, watched, request, followup, snapshotVars, lists, trail,
                 rules, open, examined, alerted, crowded, faults, edits>>

Awaited(r) == \E s \in Slot : request[s].heard /\ request[s].report = r

\* Of one reading, the agent sends the events one after the other, then the heartbeat.
SentAfter == [antivirus |-> {}, firewall |-> {"antivirus"}, heartbeat |-> Component]
Waits(r) == /\ r \in live /\ r.kind \in DOMAIN SentAfter
            /\ \E e \in live : e.at = r.at /\ e.kind \in SentAfter[r.kind]

\* A first attempt, a retry, or an attempt to flush the buffer.
Deliver(s, r) ==
  /\ r \in outbox /\ ~Awaited(r) /\ ~Waits(r)
  /\ request[s].phase = "idle" /\ followup[s].phase = "idle"
  /\ request' = [request EXCEPT ![s] = [NoRequest EXCEPT !.phase = "find", !.report = r,
                                                         !.heard = TRUE]]
  /\ UNCHANGED <<focus, now, agentVars, followup, snapshotVars, softwareVars, faults, edits>>

Fault == faults < MaxFaults /\ faults' = faults + 1

\* The agent stops waiting; the server does not notice.
TimeOut(s) ==
  /\ request[s].heard /\ Fault
  /\ request' = [request EXCEPT ![s].heard = FALSE]
  /\ detour' = TRUE
  /\ UNCHANGED <<focus, now, agentVars, followup, snapshotVars, lists, trail, unsure, rules,
                 open, examined, alerted, crowded, edits>>

\* SendWithRetry fails: the report goes to the buffer.
Enqueue(r) ==
  /\ r \in live /\ ~Awaited(r) /\ ~Waits(r) /\ Fault
  /\ live' = live \ {r}
  /\ detour' = TRUE
  /\ unsure' = IF r.kind = "software" /\ r.at \in lists THEN Greatest({unsure, r.at}) ELSE unsure
  /\ UNCHANGED <<focus, now, machine, software, outbox, last, watched, request, followup,
                 snapshotVars, lists, trail, rules, open, examined, alerted, crowded, edits>>

\* What a collector waits to send is lost, and so is what the agent believed and compared with.
AgentRestart ==
  /\ Fault
  /\ outbox' = outbox \ live /\ live' = {} /\ last' = 0 /\ watched' = FALSE
  /\ request' = [s \in Slot |-> [request[s] EXCEPT !.heard = FALSE]]
  /\ detour' = TRUE
  /\ UNCHANGED <<focus, now, machine, software, followup, snapshotVars, lists, trail, unsure,
                 rules, open, examined, alerted, crowded, edits>>

-----------------------------------------------------------------------------
(* The server: POST /agent/inventory, /agent/heartbeat, /agent/events and   *)
(* /agent/software                                                          *)

Latest == IF rows = <<>> THEN {0} ELSE FirstOf(DOMAIN rows)

\* Mutant: nothing is too old.
NeverStale(r, i) == FALSE

Stale(r, i) ==
  CASE r.kind = "software"            -> r.at <= Greatest(lists)
    [] r.kind \in {"general", "smart"} -> i # 0 /\ r.at <= rows[i].at
    [] OTHER                          -> FALSE

\* An event changes a posture that is there.
Unfounded(r, i) == r.kind \in Component /\ (i = 0 \/ \A c \in Component : rows[i][c] = 0)

\* The latest row is read; a report that is not newer is acknowledged, and ignored.
Find(s) ==
  LET r == request[s].report IN
  /\ request[s].phase = "find"
  /\ \E i \in Latest :
       request' = [request EXCEPT ![s].phase = IF Stale(r, i) \/ Unfounded(r, i)
                                             THEN "answer" ELSE "create",
                                  ![s].index = i, ![s].count = Len(rows),
                                  ![s].base = IF i = 0 THEN NoRow ELSE rows[i]]
  /\ UNCHANGED <<focus, now, agentVars, followup, snapshotVars, softwareVars, faults, edits>>

Merged(base, r) == [base EXCEPT !.at = r.at, ![SectionOf(r.kind)] = r.at]

\* No row was created or changed since this request read the latest.
Undisturbed(s) ==
  /\ Len(rows) = request[s].count
  /\ request[s].index # 0 => rows[request[s].index] = request[s].base

CreateSnapshot(s) ==
  LET r == request[s].report
      k == SectionOf(r.kind) IN
  /\ request[s].phase = "create" /\ r.kind \in {"general", "smart"}
  /\ rows' = Append(rows, Merged(request[s].base, r))
  /\ request' = [request EXCEPT ![s].phase = "answer"]
  /\ followup' = IF r.kind = "smart" THEN followup
                 ELSE [followup EXCEPT ![s] = [NoFollowup EXCEPT !.phase = "compare", !.at = r.at,
                                                                 !.count = Len(rows) + 1]]
  /\ due' = [due EXCEPT ![k] = Greatest({due[k], r.at})]
  /\ behind' = IF Undisturbed(s) THEN behind \ {k} ELSE Section
  /\ lapsed' = (lapsed \/ ~Undisturbed(s))
  /\ UNCHANGED <<focus, now, agentVars, changes, ramAlerts, softwareVars, faults, edits>>

\* The posture of the row that was read, with what the report says put in: what an event says
\* nothing of is written back as it was then.  A write to a row that is no longer the only
\* latest, or by a report that is not the newest, does not show the newest.
Posture(s, c) ==
  LET r == request[s].report IN IF c \in PostureOf(r.kind) THEN r.at ELSE request[s].base[c]

PutPosture(s) ==
  LET r       == request[s].report
      i       == request[s].index
      current == {c \in PostureOf(r.kind) : r.at >= due[c] /\ FirstOf(DOMAIN rows) = {i}}
      undone  == {c \in Component : rows[i][c] # Posture(s, c)} IN
  /\ rows' = [rows EXCEPT ![i].antivirus = Posture(s, "antivirus"),
                          ![i].firewall = Posture(s, "firewall")]
  /\ behind' = (behind \cup PostureOf(r.kind) \cup undone) \ current
  /\ UNCHANGED <<now, lapsed>>

Told(s) ==
  LET r == request[s].report IN
  /\ due' = [k \in Section |-> IF k \in PostureOf(r.kind) THEN Greatest({due[k], r.at}) ELSE due[k]]
  /\ request' = [request EXCEPT ![s].phase = "answer"]
  /\ UNCHANGED <<focus, agentVars, followup, changes, ramAlerts, softwareVars, faults, edits>>

\* The posture in a heartbeat goes to the row that was the latest, in place.
StorePosture(s) ==
  /\ request[s].phase = "create" /\ request[s].report.kind = "heartbeat"
  /\ IF request[s].index # 0
     THEN PutPosture(s)
     ELSE /\ Reading
          /\ rows' = Append(rows, [NoRow EXCEPT !.at = now', !.antivirus = Posture(s, "antivirus"),
                                                !.firewall = Posture(s, "firewall")])
          /\ behind' = IF rows = <<>> THEN behind \ Component ELSE Section
          /\ lapsed' = (lapsed \/ rows # <<>>)
  /\ Told(s)

\* So does what an event says, late or not.
StoreTransition(s) ==
  /\ request[s].phase = "create" /\ request[s].report.kind \in Component
  /\ request[s].index # 0 /\ PutPosture(s) /\ Told(s)

UpdatePosture(s) == StorePosture(s) \/ StoreTransition(s)

\* ComputeSoftwareDelta, as the report carries it.
Delta(r) ==
  LET before == IF r.known = 0 THEN {} ELSE software[r.known] IN
  {[app |-> a, at |-> r.at, action |-> "INSTALLED"] : a \in software[r.at] \ before}
    \cup {[app |-> a, at |-> r.at, action |-> "REMOVED"] : a \in before \ software[r.at]}

CreateSoftware(s) ==
  LET r == request[s].report IN
  /\ request[s].phase = "create" /\ r.kind = "software"
  /\ lists' = lists \cup {r.at} /\ trail' = trail \cup Delta(r)
  /\ request' = [request EXCEPT ![s].phase = "answer"]
  /\ followup' = [followup EXCEPT ![s] = [NoFollowup EXCEPT !.phase = "rules", !.at = r.at]]
  /\ unsure' = IF r \in live THEN unsure ELSE Greatest({unsure, r.at})
  /\ UNCHANGED <<focus, now, agentVars, snapshotVars, detour, rules, open, examined, alerted,
                 crowded, faults, edits>>

\* The answer is 200, whether the report was accepted or ignored.
Answer(s) ==
  LET r == request[s].report IN
  /\ request[s].phase = "answer"
  /\ IF request[s].heard
     THEN /\ outbox' = outbox \ {r} /\ live' = live \ {r}
          /\ last' = IF r.kind = "software" /\ r \in live THEN r.at ELSE last
     ELSE UNCHANGED <<outbox, live, last>>
  /\ request' = [request EXCEPT ![s] = NoRequest]
  /\ UNCHANGED <<focus, now, machine, software, watched, followup, snapshotVars, softwareVars,
                 faults, edits>>

\* Requests and comparisons end with the process; the default rules are seeded again.
ServerRestart ==
  /\ Fault
  /\ request' = [s \in Slot |-> NoRequest] /\ followup' = [s \in Slot |-> NoFollowup]
  /\ rules' = rules \cup Seeded
  /\ lapsed' = (lapsed \/ \E s \in Slot : followup[s].phase \in {"compare", "record", "alarm"})
  /\ detour' = TRUE
  /\ UNCHANGED <<focus, now, agentVars, rows, changes, ramAlerts, due, behind, lists, trail,
                 unsure, open, examined, alerted, crowded, edits>>

-----------------------------------------------------------------------------
(* HardwareDiffer.  Of what it compares only memory and processor ever come *)
(* with a report: it looks for storage.disks, network.adapters and os, the  *)
(* agent sends hardware.disks, network.interfaces and a flat identity.      *)

\* Mutant: only more than 512 MB count.
DifferencesAbove(a, b) ==
  LET ram == [field |-> "ram", from |-> a, to |-> b]
      cpu == [field |-> "cpu", from |-> a, to |-> b] IN
    (IF a.ram - b.ram > 1 \/ b.ram - a.ram > 1 THEN {ram} ELSE {})
      \cup (IF a.cpu # b.cpu THEN {cpu} ELSE {})

Differences(a, b) ==
  LET ram == [field |-> "ram", from |-> a, to |-> b]
      cpu == [field |-> "cpu", from |-> a, to |-> b] IN
    (IF a.ram - b.ram >= 1 \/ b.ram - a.ram >= 1 THEN {ram} ELSE {})
      \cup (IF a.cpu # b.cpu THEN {cpu} ELSE {})

\* The rows that skip: 1 can return.
Previous == UNION {FirstOf(DOMAIN rows \ {i}) : i \in FirstOf(DOMAIN rows)}

Goto(s, phase) == followup' = [followup EXCEPT ![s] = [@ EXCEPT !.phase = phase]]
Finish(s) == followup' = [followup EXCEPT ![s] = NoFollowup]

Compare(s) ==
  /\ followup[s].phase = "compare"
  /\ \E i \in IF Len(rows) = 1 THEN {0} ELSE Previous :
       LET found == IF i = 0 \/ rows[i].hardware = 0 THEN {}
                    ELSE Differences(machine[rows[i].hardware], machine[followup[s].at]) IN
       followup' = [followup EXCEPT
         ![s] = IF found = {} THEN NoFollowup
                ELSE [@ EXCEPT !.phase = "record", !.found = found]]
  /\ lapsed' = (lapsed \/ Len(rows) # followup[s].count)
  /\ UNCHANGED <<focus, now, agentVars, request, rows, changes, ramAlerts, due, behind,
                 softwareVars, faults, edits>>

LostRam(found) == {c \in found : c.field = "ram" /\ c.to.ram < c.from.ram}

RecordChanges(s) ==
  LET found == followup[s].found IN
  /\ followup[s].phase = "record"
  /\ changes' = changes \o SetToSeq(found)
  /\ IF LostRam(found) # {} THEN Goto(s, "alarm") ELSE Finish(s)
  /\ UNCHANGED <<focus, now, agentVars, request, rows, ramAlerts, due, behind, lapsed,
                 softwareVars, faults, edits>>

RaiseRamAlert(s) ==
  /\ followup[s].phase = "alarm"
  /\ ramAlerts' = ramAlerts + 1
  /\ Finish(s)
  /\ UNCHANGED <<focus, now, agentVars, request, rows, changes, due, behind, lapsed,
                 softwareVars, faults, edits>>

-----------------------------------------------------------------------------
(* SoftwareComplianceService                                                *)

\* Mutant: one application is reported for each rule.
FirstMatches(list) == {CHOOSE a \in list \cap Forbids[r] : TRUE :
                         r \in {q \in rules : list \cap Forbids[q] # {}}}

Matches(list) == {a \in list : \E r \in rules : a \in Forbids[r]}

Evaluating(s) == followup[s].phase \in {"rules", "look", "raise"}

\* What is left of an evaluation once these applications are left.
Proceed(s, left) ==
  IF left = {}
  THEN Finish(s) /\ examined' = examined \cup {<<followup[s].at, followup[s].found>>}
  ELSE /\ followup' = [followup EXCEPT ![s].phase = "look", ![s].todo = left, ![s].next = {}]
       /\ UNCHANGED examined

ReadRules(s) ==
  LET matches == Matches(software[followup[s].at]) IN
  /\ followup[s].phase = "rules"
  /\ followup' = [followup EXCEPT
       ![s] = IF matches = {} THEN NoFollowup
              ELSE [@ EXCEPT !.phase = "look", !.found = rules, !.todo = matches]]
  /\ crowded' = (crowded \/ \E u \in Slot \ {s} : Evaluating(u))
  /\ UNCHANGED <<focus, now, agentVars, request, snapshotVars, lists, trail, unsure, detour,
                 rules, open, examined, alerted, faults, edits>>

AlreadyOpen(a) == open[a] > 0

\* An open alert of the application stands for this one.
LookForAlert(s) ==
  /\ followup[s].phase = "look"
  /\ \E a \in followup[s].todo :
       IF AlreadyOpen(a)
       THEN Proceed(s, followup[s].todo \ {a})
       ELSE /\ followup' = [followup EXCEPT ![s].phase = "raise", ![s].next = {a}]
            /\ UNCHANGED examined
  /\ UNCHANGED <<focus, now, agentVars, request, snapshotVars, lists, trail, unsure, detour,
                 rules, open, alerted, crowded, faults, edits>>

RaiseAlert(s) ==
  LET apps == followup[s].next IN
  /\ followup[s].phase = "raise"
  /\ open' = [a \in App |-> IF a \in apps THEN open[a] + 1 ELSE open[a]]
  /\ alerted' = alerted \cup apps
  /\ Proceed(s, followup[s].todo \ apps)
  /\ UNCHANGED <<focus, now, agentVars, request, snapshotVars, lists, trail, unsure, detour,
                 rules, crowded, faults, edits>>

Edit == "rules" \in focus /\ edits < MaxEdits /\ edits' = edits + 1

CreateRule(r) ==
  /\ r \notin rules /\ Edit /\ rules' = rules \cup {r}
  /\ UNCHANGED <<focus, now, agentVars, request, followup, snapshotVars, lists, trail, unsure,
                 detour, open, examined, alerted, crowded, faults>>

DeleteRule(r) ==
  /\ r \in rules /\ Edit /\ rules' = rules \ {r}
  /\ UNCHANGED <<focus, now, agentVars, request, followup, snapshotVars, lists, trail, unsure,
                 detour, open, examined, alerted, crowded, faults>>

ResolveAlert(a) ==
  /\ open[a] > 0 /\ Edit /\ open' = [open EXCEPT ![a] = @ - 1]
  /\ UNCHANGED <<focus, now, agentVars, request, followup, snapshotVars, lists, trail, unsure,
                 detour, rules, examined, alerted, crowded, faults>>

-----------------------------------------------------------------------------

Next ==
  \/ \E kind \in Kind : CollectSnapshot(kind)
  \/ CollectSoftware
  \/ \E s \in Slot : \E r \in outbox : Deliver(s, r)
  \/ \E r \in outbox : Enqueue(r)
  \/ AgentRestart \/ ServerRestart
  \/ \E s \in Slot :
       \/ TimeOut(s) \/ Find(s) \/ CreateSnapshot(s) \/ UpdatePosture(s)
       \/ CreateSoftware(s) \/ Answer(s)
       \/ Compare(s) \/ RecordChanges(s) \/ RaiseRamAlert(s)
       \/ ReadRules(s) \/ LookForAlert(s) \/ RaiseAlert(s)
  \/ \E r \in Rule : CreateRule(r) \/ DeleteRule(r)
  \/ \E a \in App : ResolveAlert(a)

Spec == Init /\ [][Next]_vars

-----------------------------------------------------------------------------
(* Properties                                                               *)

TypeOK ==
  /\ focus \in Focus /\ now \in Time
  /\ machine \in [Time -> Machine] /\ software \in [Time -> SUBSET App]
  /\ outbox \subseteq Report /\ live \subseteq outbox /\ last \in Time /\ watched \in BOOLEAN
  /\ \A s \in Slot :
       /\ request[s].phase \in {"idle", "find", "create", "answer"}
       /\ request[s].report \in Report /\ request[s].heard \in BOOLEAN
       /\ request[s].index \in 0..Len(rows) /\ request[s].base \in Row
       /\ followup[s].phase \in {"idle", "compare", "record", "alarm", "rules", "look", "raise"}
       /\ followup[s].found \subseteq (IF Evaluating(s) THEN Rule ELSE Change)
       /\ followup[s].todo \subseteq App /\ followup[s].next \subseteq followup[s].todo
  /\ rows \in Seq(Row) /\ lists \subseteq Time /\ changes \in Seq(Change)
  /\ trail \subseteq [app : App, at : Time, action : {"INSTALLED", "REMOVED"}]
  /\ ramAlerts \in Nat /\ rules \subseteq Rule /\ open \in [App -> Nat]
  /\ due \in [Section -> Time] /\ behind \subseteq Section /\ unsure \in Time
  /\ lapsed \in BOOLEAN /\ detour \in BOOLEAN /\ crowded \in BOOLEAN
  /\ examined \subseteq Time \X SUBSET Rule /\ alerted \subseteq App
  /\ faults \in 0..MaxFaults /\ edits \in 0..MaxEdits

\* Whoever opens a device sees, in each section of its latest snapshot, what the
\* newest accepted report of that section said, whatever partial reports, late
\* deliveries, retries and events came after it.  The exceptions are the two
\* accidents the code allows: a request with an outdated reading of the latest
\* snapshot may set a section back, and a heartbeat or an event that is delivered
\* late sets back the part of the posture it reports, since neither is compared
\* with what is stored; both last until a report of that section that is not older is
\* accepted (agent.routes.ts:91-351, 558-584).
AcceptedIsShown ==
  /\ TypeOK
  /\ \A k \in Section \ behind :
       due[k] # 0 => \A i \in FirstOf(DOMAIN rows) : rows[i][k] = due[k]

Compared == \A s \in Slot : followup[s].phase \notin {"compare", "record", "alarm"}

CountOf(field, end, v) ==
  Cardinality({i \in DOMAIN changes : changes[i].field = field /\ changes[i][end][field] = v})

\* Recorded changes lead from the machine of the first snapshot to the machine of
\* the latest: none is missed, recorded twice or made up by partial reports, and
\* each loss of memory has its alert - unless a comparison was lost in a restart
\* or met another snapshot (hardware-differ.ts:24-265).
ChangesAddUp ==
  LET known == {i \in DOMAIN rows : rows[i].hardware # 0} IN
  (Compared /\ ~lapsed /\ known # {}) =>
    LET first  == machine[rows[CHOOSE i \in known : \A j \in known : i <= j].hardware]
        latest == machine[rows[CHOOSE i \in FirstOf(known) : TRUE].hardware] IN
    /\ \A field \in {"ram", "cpu"} : \A v \in {m[field] : m \in Machine} :
         CountOf(field, "to", v) - CountOf(field, "from", v)
           = (IF latest[field] = v THEN 1 ELSE 0) - (IF first[field] = v THEN 1 ELSE 0)
    /\ ramAlerts = Cardinality({i \in DOMAIN changes : LostRam({changes[i]}) # {}})

\* The list the agent believes the server to have, and for which it stops sending,
\* is the one the server shows once no collector waits for an answer, unless a list
\* collected since was accepted without the agent's knowing (a late delivery from
\* the buffer, an answer that was not heard) or two collections overlapped; and the trail of
\* installations leads to it if every list went straight to the server
\* (scheduler.go:617-667, agent.routes.ts:413-478).
KnownSoftware ==
  (last > unsure /\ \A r \in live : r.kind # "software") =>
    /\ software[Greatest(lists)] = software[last]
    /\ ~detour => \A a \in App :
         LET entries == {e \in trail : e.app = a} IN
         a \in software[last] <=>
           \E e \in entries : e.action = "INSTALLED" /\ \A f \in entries : f.at <= e.at

\* Every application that a rule in force forbade when a list was evaluated has had
\* its alert, also when two rules forbid it or a rule forbids several, and there is
\* never a second alert while one is open unless two evaluations overlapped
\* (software-compliance.service.ts:89-175).
ForbiddenIsAlertedOnce ==
  /\ \A e \in examined : software[e[1]] \cap UNION {Forbids[r] : r \in e[2]} \subseteq alerted
  /\ ~crowded => \A a \in App : open[a] <= 1
=============================================================================
