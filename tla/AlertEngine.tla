---------------------------- MODULE AlertEngine ----------------------------
(***************************************************************************)
(* The alerts of one device for one rule: the evaluation of the rule       *)
(* (server/src/modules/alerts/alert-evaluator.ts) and what operators and   *)
(* administrators do to alerts and rules (alerts.routes.ts).               *)
(*                                                                         *)
(* The rule may be of any kind.  Rules are evaluated one after the other   *)
(* and no rule reads what another one wrote, so one rule stands for all.   *)
(* A rule is the general row and the rows that override it for the         *)
(* device's customer: one at most, unless two requests created one each.   *)
(* Evaluations are started by heartbeats, metrics, events, the dashboard   *)
(* and a job every two minutes, and overlap with each other and with the   *)
(* requests: each write, and each read that a write of another can         *)
(* precede, is a step.  The evaluation of each row that applies is taken   *)
(* for an evaluation of its own, so that those of one device overlap too.  *)
(* What the remediation of an alert does to it comes from Remediation.     *)
(***************************************************************************)
EXTENDS Integers, FiniteSets

CONSTANTS
  Focus,          \* what an instance may study
  Signature,      \* crash signatures (application, module, exception)
  NoSignature,    \* the subject of every alert that is not of a crash
  Evaluator,      \* evaluations that may be running at once
  MaxOverrides,   \* bound: rows that override the rule, deleted ones included
  Request,        \* bound: requests that write an override
  MaxAlerts       \* bound: rows of the table of alerts

ASSUME SubjectAssumption == NoSignature \notin Signature
ASSUME EvaluatorAssumption == IsFiniteSet(Evaluator) /\ Evaluator # {}
ASSUME LimitsAssumption == MaxAlerts \in Nat /\ MaxOverrides \in Nat

(* Kinds of conditions                                                      *)

\* A value against a threshold, or the silence of the device.
Metered == {"STORAGE", "CPU", "THERMAL", "RAM", "OFFLINE"}

\* A protection that is off, and has been so for some minutes.
Protection == {"DEFENDER", "FIREWALL"}

\* A finding that only a technician can clear.
Finding == {"SMART", "KERNEL_EVENT", "DISK_EVENT"}

Kind == Metered \cup Protection \cup Finding \cup {"APP_CRASH"}

\* Of which kinds the rule may be, how many overrides there are at first, whether the general
\* row is enabled, what goes on, and how many interventions and restarts there are (a bound).
ASSUME FocusAssumption == Focus \subseteq
  [kinds : SUBSET Kind, rows : 0..2, general : BOOLEAN, on : SUBSET {"alerts", "rules"}, ops : Nat]

\* The rows of the rule: the general one, and those that override it as they are created.
General     == 0
OverrideRow == 1..MaxOverrides
RuleRow     == {General} \cup OverrideRow
NoRule      == -1
Subject == Signature \cup {NoSignature}
Alert   == 1..MaxAlerts
Level   == {"clear", "fresh", "band", "beyond"}
Active  == {"OPEN", "ACKNOWLEDGED"}
Closed  == {"RESOLVED", "IGNORED"}

VARIABLES
  focus,
  kind, reading,      \* the rule's kind; what telemetry says of each subject
  general, overrides, \* the rows of the rule: enabled or not, not yet there, deleted
  requests,           \* requests that write an override
  alerts,             \* the table of alerts
  evals,              \* evaluations in progress
  reopened,           \* history: alerts acknowledged after they were closed
  doubled,            \* history: two requests were each about to create an override
  ops                 \* interventions and restarts so far

rowVars  == <<general, overrides>>
ruleVars == <<rowVars, requests, doubled>>
vars == <<focus, kind, reading, ruleVars, alerts, evals, reopened, ops>>

NoAlert == [status |-> "ABSENT", rule |-> General, subject |-> NoSignature]
Unread  == [s \in Subject |-> "clear"]
NoEval  == [phase |-> "idle", rule |-> General, seen |-> Unread,
            active |-> {}, matched |-> {}]

NoRequest == [phase |-> "idle", kind |-> "keep", row |-> NoRule, value |-> FALSE]

Subjects == IF kind = "APP_CRASH" THEN Signature ELSE {NoSignature}

\* An older version may have left a crash alert that names no signature, and two
\* requests two overrides.
Init ==
  /\ focus \in Focus /\ kind \in focus.kinds
  /\ reading = Unread
  /\ general = focus.general /\ requests = [q \in Request |-> NoRequest]
  /\ overrides = [o \in OverrideRow |-> IF o <= focus.rows THEN "on" ELSE "new"]
  /\ doubled = (focus.rows = 2)
  /\ alerts \in {[a \in Alert |-> IF a \in L THEN [NoAlert EXCEPT !.status = "OPEN"] ELSE NoAlert]
                   : L \in {{}} \cup (IF kind = "APP_CRASH" THEN {{1} \cap Alert} ELSE {})}
  /\ evals = [v \in Evaluator |-> NoEval]
  /\ reopened = {} /\ ops = 0

-----------------------------------------------------------------------------
(* Rules                                                                    *)

Overrides == {o \in OverrideRow : overrides[o] \in {"on", "off"}}
Enabled(r) == IF r = General THEN general ELSE overrides[r] = "on"

\* Both maps of the customer's rows keep the last one that findMany returns, which orders them
\* as it likes; where there is none the general row stands.
Last == IF Overrides = {} THEN {General} ELSE Overrides

\* The rows the evaluator applies: the last one, if it is enabled, to a general rule that is
\* enabled; each one that is enabled where the general rule is not.
EffectiveRule(last) ==
  LET generalRules == {r \in {General} : general}
      applied      == {r \in {last} : generalRules # {} /\ Enabled(r)}
      own          == {o \in Overrides : generalRules = {} /\ Enabled(o)}
  IN  applied \cup own

\* The rows that apply whatever the order.
Certain == {r \in RuleRow : \A last \in Last : r \in EffectiveRule(last)}

\* GET /alerts/rules?customerId: what the dashboard shows as enabled.
ShownEnabled(last) == Enabled(last)

\* An alert can be created while its rule row still exists.
RuleExists(r) == r = General \/ r \in Overrides

-----------------------------------------------------------------------------
(* Telemetry                                                                *)

\* A value can be in the "band" between the threshold and the value that clears
\* it; a protection that is off is "fresh" before it is "beyond".  The branches
\* without data leave isTriggered as it is for "clear".
Readings ==
  {"clear", "beyond"} \cup {l \in {"band"} : kind \in Metered \ {"OFFLINE"}}
                      \cup {l \in {"fresh"} : kind \in Protection}

Measure(s) ==
  /\ "alerts" \in focus.on /\ s \in Subjects
  /\ \E m \in Readings \ {reading[s]} : reading' = [reading EXCEPT ![s] = m]
  /\ UNCHANGED <<focus, kind, ruleVars, alerts, evals, reopened, ops>>

\* The conditions; isTriggered is FALSE for whatever they do not mention.
MeteredTriggers(m) == kind \in Metered /\ m = "beyond"
ProtectionTriggers(m, active) ==
  kind \in Protection /\ (m = "beyond" \/ (m = "fresh" /\ active))
FindingTriggers(m) == kind \in Finding /\ m = "beyond"
CrashTriggers(m) == kind = "APP_CRASH" /\ m = "beyond"

Triggers(m, active) ==
  \/ MeteredTriggers(m) \/ ProtectionTriggers(m, active)
  \/ FindingTriggers(m) \/ CrashTriggers(m)

\* Mutant: no condition heals by itself.
NeverHeals == FALSE

CanAutoHeal == kind \in Metered \cup Protection

-----------------------------------------------------------------------------
(* evaluateDeviceAlerts                                                     *)

IsActive(a) == alerts[a].status \in Active
ActiveAlerts == {a \in Alert : IsActive(a)}

\* The next row of the table, if the bound leaves one.
FreshAlert ==
  LET free == {a \in Alert : alerts[a].status = "ABSENT"}
  IN  {a \in free : \A b \in free : a <= b}

Resolve(S) ==
  [a \in Alert |-> IF a \in S THEN [alerts[a] EXCEPT !.status = "RESOLVED"] ELSE alerts[a]]

EvalEnds(v) == evals' = [evals EXCEPT ![v] = NoEval]

\* The rules, then the telemetry.
EvalRead(v) ==
  /\ "alerts" \in focus.on /\ evals[v] = NoEval
  /\ \E last \in Last : \E r \in EffectiveRule(last) :
       evals' = [evals EXCEPT ![v] = [NoEval EXCEPT !.phase = "lookup", !.rule = r,
                                                    !.seen = reading]]
  /\ UNCHANGED <<focus, kind, reading, ruleVars, alerts, reopened, ops>>

\* Mutant: an acknowledged alert is no longer taken for active.
LookupOpenOnly(v) ==
  /\ evals[v].phase = "lookup"
  /\ evals' = [evals EXCEPT ![v].phase = "act",
       ![v].active = {[id |-> a, rule |-> alerts[a].rule, subject |-> alerts[a].subject]
                        : a \in {b \in Alert : alerts[b].status = "OPEN"}}]
  /\ UNCHANGED <<focus, kind, reading, ruleVars, alerts, reopened, ops>>

\* The active alerts as they are now; what follows works on this copy.
EvalLookup(v) ==
  /\ evals[v].phase = "lookup"
  /\ evals' = [evals EXCEPT ![v].phase = "act",
       ![v].active = {[id |-> a, rule |-> alerts[a].rule, subject |-> alerts[a].subject]
                        : a \in ActiveAlerts}]
  /\ UNCHANGED <<focus, kind, reading, ruleVars, alerts, reopened, ops>>

\* activeAlertMap: by rule, then by name; of several alerts the newest.
Existing(v) ==
  LET byRule == {c \in evals[v].active : c.rule = evals[v].rule}
      found  == IF byRule # {} THEN byRule ELSE evals[v].active
  IN  {c \in found : \A d \in found : d.id <= c.id}

CanCreate(r) == RuleExists(r) /\ FreshAlert # {}

Opened(r, s) == [status |-> "OPEN", rule |-> r, subject |-> s]

\* The condition holds: the alert is updated or created (while the bound leaves
\* a row), and handed to the remediation engine, which is not waited for.
EvalTriggered(v) ==
  LET existing == Existing(v)
      r        == evals[v].rule
  IN
  /\ evals[v].phase = "act" /\ kind # "APP_CRASH"
  /\ Triggers(evals[v].seen[NoSignature], existing # {})
  /\ \/ existing # {} /\ UNCHANGED alerts
     \/ /\ existing = {} /\ RuleExists(r)
        /\ \E a \in FreshAlert : alerts' = [alerts EXCEPT ![a] = Opened(r, NoSignature)]
     \/ existing = {} /\ ~CanCreate(r) /\ UNCHANGED alerts
  /\ EvalEnds(v)
  /\ UNCHANGED <<focus, kind, reading, ruleVars, reopened, ops>>

\* It does not hold: what was found is resolved, whatever its status is now.
EvalNormal(v) ==
  LET existing == Existing(v) IN
  /\ evals[v].phase = "act" /\ kind # "APP_CRASH"
  /\ ~Triggers(evals[v].seen[NoSignature], existing # {})
  /\ alerts' = IF CanAutoHeal THEN Resolve({c.id : c \in existing}) ELSE alerts
  /\ EvalEnds(v)
  /\ UNCHANGED <<focus, kind, reading, ruleVars, reopened, ops>>

Mine(v) == {c \in evals[v].active : c.rule = evals[v].rule}
CrashGroups(v) == {s \in Signature : Triggers(evals[v].seen[s], FALSE)}
OwnAlerts(v, s) == {c.id : c \in {d \in Mine(v) : d.subject = s}}
LegacyAlerts(v) == OwnAlerts(v, NoSignature)

\* The alert of a signature: its own, else the alert that has none, once.
CrashAlertOf(v, s) ==
  IF OwnAlerts(v, s) # {} THEN OwnAlerts(v, s) ELSE LegacyAlerts(v) \ evals[v].matched

\* One signature that reaches the threshold: its alert is updated or created.
EvalCrash(v) ==
  /\ evals[v].phase = "act" /\ kind = "APP_CRASH"
  /\ \E s \in CrashGroups(v) :
       LET found == CrashAlertOf(v, s)
           r     == evals[v].rule
           handled(a) == evals' = [evals EXCEPT ![v].seen[s] = "clear",
                                               ![v].matched = @ \cup {a}]
       IN  \/ \E a \in found : alerts' = [alerts EXCEPT ![a].subject = s] /\ handled(a)
           \/ /\ found = {} /\ RuleExists(r)
              /\ \E a \in FreshAlert : alerts' = [alerts EXCEPT ![a] = Opened(r, s)] /\ handled(a)
           \/ found = {} /\ ~CanCreate(r) /\ EvalEnds(v) /\ UNCHANGED alerts
  /\ UNCHANGED <<focus, kind, reading, ruleVars, reopened, ops>>

\* The rule's other alerts are stale.
EvalStale(v) ==
  /\ evals[v].phase = "act" /\ kind = "APP_CRASH" /\ CrashGroups(v) = {}
  /\ alerts' = Resolve({c.id : c \in Mine(v)} \ evals[v].matched)
  /\ EvalEnds(v)
  /\ UNCHANGED <<focus, kind, reading, ruleVars, reopened, ops>>

EvalStep(v) ==
  \/ EvalRead(v) \/ EvalLookup(v) \/ EvalTriggered(v) \/ EvalNormal(v)
  \/ EvalCrash(v) \/ EvalStale(v)

-----------------------------------------------------------------------------
(* Operators, administrators, the remediation engine, the server            *)

Intervene == ops < focus.ops /\ ops' = ops + 1

\* Toggle of the general rule.  Two toggles may have read the same value.
SetGeneral ==
  /\ Intervene
  /\ general' \in BOOLEAN
  /\ UNCHANGED <<focus, kind, reading, overrides, requests, doubled, alerts, evals, reopened>>

\* A request has read the row that it names: what it makes of a row it finds, and the value
\* of one it creates.
Begin(q, kindOf, value) ==
  /\ "rules" \in focus.on /\ requests[q] = NoRequest
  /\ requests' = [requests EXCEPT ![q] = [phase |-> "find", kind |-> kindOf, row |-> NoRule,
                                          value |-> value]]
  /\ UNCHANGED <<focus, kind, reading, rowVars, doubled, alerts, evals, reopened, ops>>

\* Toggle for a customer: the dashboard names the row it shows.
ToggleOverride(q) == \E r \in {General} \cup Overrides : Begin(q, "toggle", ~Enabled(r))

\* POST of the customer's row: it may keep the state and change the limit.
PostOverride(q) == Begin(q, "keep", general) \/ \E value \in BOOLEAN : Begin(q, "set", value)

Creating(q) == requests[q].phase = "write" /\ requests[q].row = NoRule

\* What a request makes of a row it found, and of the one it creates where it found none.
Outcome(q, row) ==
  CASE row = NoRule \/ requests[q].kind = "set" -> requests[q].value
    [] row # NoRule /\ requests[q].kind = "toggle" -> ~Enabled(row)
    [] OTHER -> Enabled(row)

FindIn(q, rows) ==
  /\ requests[q].phase = "find"
  /\ \E row \in IF rows = {} THEN {NoRule} ELSE rows :
       /\ requests' = [requests EXCEPT ![q] = [@ EXCEPT !.phase = "write", !.row = row,
                                                       !.value = Outcome(q, row)]]
       /\ doubled' = (doubled \/ (row = NoRule /\ \E p \in Request \ {q} : Creating(p)))
  /\ UNCHANGED <<focus, kind, reading, rowVars, alerts, evals, reopened, ops>>

\* Mutant: the lookup misses a row that is disabled.
FindEnabled(q) == FindIn(q, {o \in Overrides : Enabled(o)})

\* The customer's row, any of them if there are two.
FindOverride(q) == FindIn(q, Overrides)

FreshOverride ==
  LET free == {o \in OverrideRow : overrides[o] = "new"}
  IN  {o \in free : \A p \in free : o <= p}

\* It is updated, unless it has been deleted, or created, while the bound leaves a row.
WriteOverride(q) ==
  LET row == requests[q].row
      written == IF row = NoRule THEN FreshOverride ELSE {row} \cap Overrides IN
  /\ requests[q].phase = "write"
  /\ \/ \E o \in written :
          overrides' = [overrides EXCEPT ![o] = IF requests[q].value THEN "on" ELSE "off"]
     \/ written = {} /\ UNCHANGED overrides
  /\ requests' = [requests EXCEPT ![q] = [NoRequest EXCEPT !.phase = "done"]]
  /\ UNCHANGED <<focus, kind, reading, general, doubled, alerts, evals, reopened, ops>>

\* DELETE: the alerts of the row stay, without a rule.
DeleteOverride(o) ==
  /\ Intervene /\ o \in Overrides
  /\ overrides' = [overrides EXCEPT ![o] = "gone"]
  /\ alerts' = [a \in Alert |-> IF alerts[a].rule = o
                               THEN [alerts[a] EXCEPT !.rule = NoRule] ELSE alerts[a]]
  /\ UNCHANGED <<focus, kind, reading, general, requests, doubled, evals, reopened>>

\* PATCH ack, resolve, ignore: none of them looks at the status.
SetStatus(a, status) ==
  /\ Intervene /\ alerts[a].status # "ABSENT"
  /\ alerts' = [alerts EXCEPT ![a].status = status]
  /\ UNCHANGED <<focus, kind, reading, ruleVars, evals>>

Acknowledge(a) ==
  /\ SetStatus(a, "ACKNOWLEDGED")
  /\ reopened' = IF IsActive(a) THEN reopened ELSE reopened \cup {a}

CloseAlert(a) == (\E status \in Closed : SetStatus(a, status)) /\ UNCHANGED reopened

Administration ==
  \/ SetGeneral \/ \E o \in OverrideRow : DeleteOverride(o)
  \/ \E q \in Request : ToggleOverride(q) \/ PostOverride(q) \/ FindOverride(q) \/ WriteOverride(q)
  \/ \E a \in Alert : Acknowledge(a) \/ CloseAlert(a)

\* A remediation of the alert succeeded (Remediation!Heal).  Every alert but
\* those of crashes is handed over when it is created, and may be again.
Remediated(a) ==
  /\ kind # "APP_CRASH" /\ alerts[a].status # "ABSENT"
  /\ alerts' = Resolve({a})
  /\ UNCHANGED <<focus, kind, reading, ruleVars, evals, reopened, ops>>

ServerRestart ==
  /\ Intervene
  /\ evals' = [v \in Evaluator |-> NoEval]
  /\ requests' = [q \in Request |-> IF requests[q].phase \in {"find", "write"}
                                    THEN [NoRequest EXCEPT !.phase = "done"] ELSE requests[q]]
  /\ UNCHANGED <<focus, kind, reading, rowVars, doubled, alerts, reopened>>

Next ==
  \/ \E s \in Subject : Measure(s)
  \/ \E v \in Evaluator : EvalStep(v)
  \/ \E a \in Alert : Remediated(a)
  \/ Administration \/ ServerRestart

Spec == Init /\ [][Next]_vars

(***************************************************************************)
(* Fairness: the job evaluates every device every two minutes, and an      *)
(* evaluation runs to its end and takes every row that applies whatever    *)
(* the order, of which there can be two overrides.  Nobody has to          *)
(* intervene.                                                              *)
(***************************************************************************)
EvalCertain(r) == r \in Certain /\ \E v \in Evaluator : EvalRead(v) /\ evals'[v].rule = r

Fairness ==
  /\ \A v \in Evaluator : WF_vars(EvalStep(v))
  /\ \A o \in OverrideRow : SF_vars(EvalCertain(o))
FairSpec == Spec /\ Fairness

-----------------------------------------------------------------------------
(* Properties                                                               *)

AlertRow == [status : Active \cup Closed \cup {"ABSENT"}, rule : RuleRow \cup {NoRule},
             subject : Subject]
Copy == [id : Alert, rule : RuleRow \cup {NoRule}, subject : Subject]
EvalRow == [phase : {"idle", "lookup", "act"}, rule : RuleRow, seen : [Subject -> Level],
            active : SUBSET Copy, matched : SUBSET Alert]
RequestRow == [phase : {"idle", "find", "write", "done"}, kind : {"toggle", "set", "keep"},
               row : OverrideRow \cup {NoRule}, value : BOOLEAN]

\* The values the code can put in each row and in each evaluation.
TypeOK ==
  /\ focus \in Focus /\ kind \in focus.kinds /\ reading \in [Subject -> Level]
  /\ general \in BOOLEAN /\ overrides \in [OverrideRow -> {"new", "on", "off", "gone"}]
  /\ requests \in [Request -> RequestRow] /\ doubled \in BOOLEAN
  /\ alerts \in [Alert -> AlertRow] /\ evals \in [Evaluator -> EvalRow]
  /\ reopened \subseteq Alert /\ ops \in 0..focus.ops

\* What an evaluation works on exists: no alert names a rule row that is gone,
\* and no evaluation holds an alert that was never created.
LinksOK ==
  /\ \A a \in Alert : alerts[a].rule = NoRule \/ RuleExists(alerts[a].rule)
  /\ \A v \in Evaluator : \A a \in evals[v].matched \cup {c.id : c \in evals[v].active} :
       alerts[a].status # "ABSENT"
  /\ \A a \in reopened : alerts[a].status # "ABSENT"
  /\ \A v \in Evaluator : evals[v].phase = "idle" => evals[v] = NoEval
  /\ kind # "APP_CRASH" => \A a \in Alert : alerts[a].subject = NoSignature

IInv == TypeOK /\ LinksOK

\* Evaluations that overlap can each create an alert of the same condition, but
\* no more of them are active than evaluations overlap, except for alerts an
\* operator acknowledged after they had been closed.  What refers to a rule or to an alert
\* refers to one that is there.
DuplicatesBounded ==
  /\ IInv
  /\ \A s \in Subject, r \in RuleRow :
       Cardinality({a \in ActiveAlerts \ reopened : alerts[a].subject = s /\ alerts[a].rule = r})
         <= Cardinality(Evaluator)

\* A customer has one row of a rule at most, and the dashboard shows the rule as enabled for
\* the customer exactly when the evaluator applies it to the customer's devices, whatever
\* order either gets the rows in.  The exception is the accident this design has: two requests
\* that each find no row create one each, and rows that disagree part what is shown from what
\* is applied until one of them is deleted or changed.
ShownIsApplied ==
  /\ doubled \/ Cardinality(Overrides) <= 1
  /\ (\A o, p \in Overrides : Enabled(o) = Enabled(p)) =>
       \A shown, last \in Last : ShownEnabled(shown) <=> EffectiveRule(last) # {}

\* Alerts follow the condition: while it lasts and the rule applies there is
\* an active alert again and again, and once it is over for good the alerts
\* that heal are all resolved, duplicates included.
Heals(a) == \/ kind \in Metered \cup Protection
            \/ kind = "APP_CRASH" /\ alerts[a].rule \in Certain

AlertsFollowCondition ==
  /\ <>[](Certain # {} /\ \A s \in Subjects : reading[s] = "beyond")
       => []<>(ActiveAlerts # {} \/ FreshAlert = {})
  /\ <>[](Certain # {} /\ \A s \in Subjects : reading[s] = "clear")
       => <>[](\A a \in ActiveAlerts : ~Heals(a))

=============================================================================
