--------------------------- MODULE ServerJobs_proofs ---------------------------
(***************************************************************************)
(* What is proved of the two jobs of the server whose runs may overlap.    *)
(*                                                                         *)
(* The evaluation of alerts, for any number of evaluations, alerts, crash  *)
(* signatures and interventions: what evaluations work on is there, the    *)
(* dashboard shows as enabled what is applied, and overlapping evaluations *)
(* multiply an alert no further than their number.                         *)
(*                                                                         *)
(* The rollup of metrics, for any samples, runs, retention and length of a *)
(* day: what was stored in time is in the rollups that are about it.       *)
(***************************************************************************)
EXTENDS AlertEngine, MetricRollup, TLAPS, FiniteSetTheorems, WellFoundedInduction

-----------------------------------------------------------------------------
(* What the steps write                                                     *)

Known(a) == alerts[a].status # "ABSENT"
RowState == {"new", "on", "off", "gone"}

AlertLinks(a) ==
  /\ alerts[a].rule = NoRule \/ RuleExists(alerts[a].rule)
  /\ kind # "APP_CRASH" => alerts[a].subject = NoSignature
  /\ a \in reopened => Known(a)
EvalLinks(v) ==
  /\ \A a \in evals[v].matched : Known(a)
  /\ \A c \in evals[v].active : Known(c.id)
  /\ evals[v].phase = "idle" => evals[v] = NoEval

LEMMA Parts ==
  /\ IInv <=> /\ TypeOK /\ (\A a \in Alert : AlertLinks(a))
              /\ \A v \in Evaluator : EvalLinks(v)
  /\ IInv' <=> /\ TypeOK' /\ (\A a \in Alert : AlertLinks(a)')
               /\ \A v \in Evaluator : EvalLinks(v)'
<1>1. IInv <=> /\ TypeOK /\ (\A a \in Alert : AlertLinks(a))
               /\ \A v \in Evaluator : EvalLinks(v)
  BY DEF IInv, LinksOK, AlertLinks, EvalLinks, Known, TypeOK
<1>2. IInv' <=> /\ TypeOK' /\ (\A a \in Alert : AlertLinks(a)')
                /\ \A v \in Evaluator : EvalLinks(v)'
  BY DEF IInv, LinksOK, AlertLinks, EvalLinks, Known, TypeOK
<1> QED BY <1>1, <1>2

LEMMA EmptyTypes ==
  /\ NoAlert \in AlertRow /\ NoAlert.status = "ABSENT" /\ NoAlert.rule = General
  /\ NoAlert.subject = NoSignature
  /\ NoEval \in EvalRow /\ NoEval.phase = "idle" /\ NoEval.active = {} /\ NoEval.matched = {}
<1>1. Unread \in [Subject -> Level] BY DEF Unread, Level
<1>2. NoEval \in EvalRow /\ NoEval.phase = "idle" /\ NoEval.active = {} /\ NoEval.matched = {}
  BY <1>1 DEF NoEval, EvalRow, RuleRow
<1>3. /\ NoAlert \in AlertRow /\ NoAlert.status = "ABSENT" /\ NoAlert.rule = General
      /\ NoAlert.subject = NoSignature
  BY DEF NoAlert, AlertRow, RuleRow, Subject
<1> QED BY <1>2, <1>3

\* The evaluation v becomes new, the others are as they were.
EvalBecomes(v, new) ==
  /\ evals' \in [Evaluator -> EvalRow]
  /\ evals'[v] = new
  /\ \A u \in Evaluator : u # v => evals'[u] = evals[u]

LEMMA EvalWritten ==
  ASSUME TypeOK, NEW v \in Evaluator, NEW new \in EvalRow, evals' = [evals EXCEPT ![v] = new]
  PROVE  EvalBecomes(v, new)
BY DEF TypeOK, EvalBecomes

LEMMA EvalEnded ==
  ASSUME TypeOK, NEW v \in Evaluator, EvalEnds(v)
  PROVE  EvalBecomes(v, NoEval)
BY EmptyTypes, EvalWritten DEF EvalEnds

\* Some rows have another status, and no row appears or disappears.
StatusesWritten(S) ==
  /\ alerts' \in [Alert -> AlertRow]
  /\ \A a \in Alert :
       /\ alerts'[a].rule = alerts[a].rule /\ alerts'[a].subject = alerts[a].subject
       /\ \/ alerts'[a].status = alerts[a].status
          \/ a \in S /\ Known(a) /\ alerts'[a].status # "ABSENT"

LEMMA ResolveWrites ==
  ASSUME TypeOK, NEW S, \A a \in S : Known(a), alerts' = Resolve(S)
  PROVE  /\ StatusesWritten(S)
         /\ \A a \in Alert : alerts'[a].status \in Active => alerts[a].status \in Active
<1>1. \A a \in Alert : alerts[a] \in AlertRow BY DEF TypeOK
<1>2. \A a \in Alert : /\ [alerts[a] EXCEPT !.status = "RESOLVED"] \in AlertRow
                       /\ [alerts[a] EXCEPT !.status = "RESOLVED"].status = "RESOLVED"
                       /\ [alerts[a] EXCEPT !.status = "RESOLVED"].rule = alerts[a].rule
                       /\ [alerts[a] EXCEPT !.status = "RESOLVED"].subject = alerts[a].subject
  BY <1>1 DEF AlertRow, Closed
<1>3. \A a \in Alert : alerts'[a] = IF a \in S THEN [alerts[a] EXCEPT !.status = "RESOLVED"]
                                    ELSE alerts[a]
  BY DEF Resolve
<1>4. alerts' \in [Alert -> AlertRow] BY <1>1, <1>2 DEF Resolve
<1>5. \A a \in Alert :
        /\ alerts'[a].rule = alerts[a].rule /\ alerts'[a].subject = alerts[a].subject
        /\ \/ alerts'[a].status = alerts[a].status
           \/ a \in S /\ Known(a) /\ alerts'[a].status # "ABSENT"
  <2> SUFFICES ASSUME NEW a \in Alert
               PROVE  /\ alerts'[a].rule = alerts[a].rule
                      /\ alerts'[a].subject = alerts[a].subject
                      /\ \/ alerts'[a].status = alerts[a].status
                         \/ a \in S /\ Known(a) /\ alerts'[a].status # "ABSENT"
    OBVIOUS
  <2>1. CASE a \in S BY <1>2, <1>3, <2>1
  <2>2. CASE a \notin S BY <1>3, <2>2
  <2> QED BY <2>1, <2>2
<1>6. ASSUME NEW a \in Alert, alerts'[a].status \in Active
      PROVE  alerts[a].status \in Active
  <2>1. CASE a \in S BY <1>2, <1>3, <1>6, <2>1 DEF Active
  <2>2. CASE a \notin S BY <1>3, <1>6, <2>2
  <2> QED BY <2>1, <2>2
<1>7. StatusesWritten(S) BY <1>4, <1>5 DEF StatusesWritten
<1> QED BY <1>6, <1>7

-----------------------------------------------------------------------------
(* What refers to an alert or to a rule refers to one that is there         *)

StaysKnown == \A a \in Alert : Known(a) => Known(a)'

\* What an evaluation holds exists.
Holds(e) ==
  /\ \A a \in e.matched : Known(a)
  /\ \A c \in e.active : Known(c.id)
  /\ e.phase = "idle" => e = NoEval

LEMMA HeldIsAlert ==
  ASSUME TypeOK, NEW v \in Evaluator
  PROVE  /\ evals[v] \in EvalRow
         /\ \A a \in evals[v].matched : a \in Alert
         /\ \A c \in evals[v].active : c \in Copy /\ c.id \in Alert
<1>1. evals[v] \in EvalRow BY DEF TypeOK
<1>2. evals[v].matched \in SUBSET Alert /\ evals[v].active \in SUBSET Copy
  BY <1>1 DEF EvalRow
<1>3. \A c \in evals[v].active : c \in Copy /\ c.id \in Alert BY <1>2 DEF Copy
<1> QED BY <1>1, <1>2, <1>3

LEMMA EvalStays ==
  ASSUME IInv, StaysKnown, NEW v \in Evaluator, evals'[v] = evals[v]
  PROVE  EvalLinks(v)'
<1>1. EvalLinks(v) /\ TypeOK BY Parts
<1>2. /\ \A a \in evals[v].matched : a \in Alert
      /\ \A c \in evals[v].active : c.id \in Alert
  BY <1>1, HeldIsAlert
<1>3. \A a \in evals[v].matched : Known(a)' BY <1>1, <1>2 DEF EvalLinks, StaysKnown
<1>4. \A c \in evals[v].active : Known(c.id)' BY <1>1, <1>2 DEF EvalLinks, StaysKnown
<1>5. (evals[v].phase = "idle") => evals[v] = NoEval BY <1>1 DEF EvalLinks
<1>6. NoEval' = NoEval BY DEF NoEval, Unread
<1> QED BY <1>3, <1>4, <1>5, <1>6 DEF EvalLinks, Known

LEMMA EvalsStay ==
  ASSUME IInv, StaysKnown, evals' = evals
  PROVE  \A v \in Evaluator : EvalLinks(v)'
BY EvalStays

LEMMA EvalsMove ==
  ASSUME IInv, StaysKnown, NEW v \in Evaluator, NEW new \in EvalRow,
         EvalBecomes(v, new), EvalLinks(v)'
  PROVE  \A u \in Evaluator : EvalLinks(u)'
<1> SUFFICES ASSUME NEW u \in Evaluator PROVE EvalLinks(u)' OBVIOUS
<1>1. CASE u = v BY <1>1
<1>2. CASE u # v
  <2>1. evals'[u] = evals[u] BY <1>2 DEF EvalBecomes
  <2> QED BY <2>1, EvalStays
<1> QED BY <1>1, <1>2

LEMMA EvalsEnd ==
  ASSUME IInv, StaysKnown, NEW v \in Evaluator, EvalEnds(v)
  PROVE  /\ evals' \in [Evaluator -> EvalRow]
         /\ \A u \in Evaluator : EvalLinks(u)'
<1>1. EvalBecomes(v, NoEval) BY EvalEnded, Parts
<1>2. NoEval' = NoEval BY DEF NoEval, Unread
<1>3. EvalLinks(v)'
  <2>1. evals'[v] = NoEval BY <1>1 DEF EvalBecomes
  <2> QED BY <1>2, <2>1, EmptyTypes DEF EvalLinks
<1>4. \A u \in Evaluator : EvalLinks(u)' BY <1>1, <1>3, EvalsMove, EmptyTypes
<1> QED BY <1>1, <1>4 DEF EvalBecomes

LEMMA AlertsStay ==
  ASSUME IInv, alerts' = alerts, UNCHANGED <<kind, overrides, reopened>>
  PROVE  /\ alerts' \in [Alert -> AlertRow] /\ StaysKnown
         /\ \A a \in Alert : AlertLinks(a)'
<1>1. /\ \A a \in Alert : AlertLinks(a)
      /\ TypeOK
  BY Parts
<1>2. \A a \in Alert : AlertLinks(a)' BY <1>1 DEF AlertLinks, RuleExists, Overrides, Known
<1>3. StaysKnown BY DEF StaysKnown, Known
<1> QED BY <1>1, <1>2, <1>3 DEF TypeOK

LEMMA AlertsChangeStatus ==
  ASSUME IInv, NEW S, StatusesWritten(S), UNCHANGED <<kind, overrides>>,
         \A a \in reopened' : a \in reopened \/ Known(a)
  PROVE  /\ alerts' \in [Alert -> AlertRow] /\ StaysKnown
         /\ \A a \in Alert : AlertLinks(a)'
<1>1. TypeOK /\ \A a \in Alert : AlertLinks(a) BY Parts
<1>2. StaysKnown BY DEF StaysKnown, StatusesWritten, Known
<1>3. \A a \in Alert : AlertLinks(a)'
  <2> SUFFICES ASSUME NEW a \in Alert PROVE AlertLinks(a)' OBVIOUS
  <2>1. alerts'[a].rule = alerts[a].rule /\ alerts'[a].subject = alerts[a].subject
    BY DEF StatusesWritten
  <2>2. (a \in reopened') => Known(a)' BY <1>1, <1>2 DEF AlertLinks, StaysKnown
  <2> QED BY <1>1, <2>1, <2>2 DEF AlertLinks, RuleExists, Overrides
<1> QED BY <1>2, <1>3 DEF StatusesWritten

\* One row is written, with a rule that is there.
AlertBecomes(a, new) ==
  /\ alerts' \in [Alert -> AlertRow]
  /\ alerts'[a] = new
  /\ \A b \in Alert : b # a => alerts'[b] = alerts[b]

LEMMA AlertWritten ==
  ASSUME TypeOK, NEW a \in Alert, NEW new \in AlertRow, alerts' = [alerts EXCEPT ![a] = new]
  PROVE  AlertBecomes(a, new)
BY DEF TypeOK, AlertBecomes

LEMMA AlertsMove ==
  ASSUME IInv, NEW a \in Alert, NEW new \in AlertRow, AlertBecomes(a, new),
         new.status # "ABSENT", new.rule = NoRule \/ RuleExists(new.rule),
         kind # "APP_CRASH" => new.subject = NoSignature,
         UNCHANGED <<kind, overrides, reopened>>
  PROVE  /\ alerts' \in [Alert -> AlertRow] /\ StaysKnown
         /\ \A b \in Alert : AlertLinks(b)'
<1>1. TypeOK /\ \A b \in Alert : AlertLinks(b) BY Parts
<1>2. StaysKnown BY DEF StaysKnown, AlertBecomes, Known
<1>3. \A b \in Alert : AlertLinks(b)'
  <2> SUFFICES ASSUME NEW b \in Alert PROVE AlertLinks(b)' OBVIOUS
  <2>1. CASE b = a BY <2>1 DEF AlertBecomes, AlertLinks, Known, RuleExists, Overrides
  <2>2. CASE b # a BY <1>1, <2>2 DEF AlertBecomes, AlertLinks, Known, RuleExists, Overrides
  <2> QED BY <2>1, <2>2
<1> QED BY <1>2, <1>3 DEF AlertBecomes

\* What is left of the invariant once the rows and the evaluations are done.
LEMMA Together ==
  ASSUME IInv, focus' = focus, kind' = kind, reading' \in [Subject -> Level],
         general' \in BOOLEAN, overrides' \in [OverrideRow -> RowState],
         requests' \in [Request -> RequestRow], doubled' \in BOOLEAN,
         alerts' \in [Alert -> AlertRow], evals' \in [Evaluator -> EvalRow],
         reopened' \subseteq Alert, ops' \in 0..focus.ops,
         \A a \in Alert : AlertLinks(a)', \A v \in Evaluator : EvalLinks(v)'
  PROVE  IInv'
<1>1. focus' \in Focus /\ kind' \in focus'.kinds BY Parts DEF TypeOK
<1>2. TypeOK' BY <1>1 DEF TypeOK, RowState
<1> QED BY <1>2, Parts

-----------------------------------------------------------------------------
(* Every step keeps the invariant                                           *)

LEMMA TypesNow ==
  ASSUME IInv
  PROVE  /\ TypeOK /\ focus \in Focus /\ kind \in focus.kinds /\ reading \in [Subject -> Level]
         /\ general \in BOOLEAN /\ overrides \in [OverrideRow -> RowState]
         /\ requests \in [Request -> RequestRow] /\ doubled \in BOOLEAN
         /\ alerts \in [Alert -> AlertRow] /\ evals \in [Evaluator -> EvalRow]
         /\ reopened \subseteq Alert /\ ops \in 0..focus.ops
BY DEF IInv, TypeOK, RowState

LEMMA InitIInv == ASSUME Init PROVE IInv
<1>1. TypeOK
  <2>1. \A a \in Alert : alerts[a] \in {NoAlert, [NoAlert EXCEPT !.status = "OPEN"]}
    BY DEF Init
  <2>2. [NoAlert EXCEPT !.status = "OPEN"] \in AlertRow
    BY EmptyTypes DEF AlertRow, Active
  <2>3. alerts \in [Alert -> AlertRow]
    <3>1. PICK L : alerts = [a \in Alert |-> IF a \in L
                       THEN [NoAlert EXCEPT !.status = "OPEN"] ELSE NoAlert]
      BY DEF Init
    <3> QED BY <3>1, <2>2, EmptyTypes
  <2>4. evals \in [Evaluator -> EvalRow] BY EmptyTypes DEF Init
  <2>5. ops \in 0..focus.ops BY FocusAssumption DEF Init
  <2>6. general \in BOOLEAN /\ doubled \in BOOLEAN BY FocusAssumption DEF Init
  <2>7. overrides \in [OverrideRow -> RowState] BY DEF Init, RowState
  <2>8. requests \in [Request -> RequestRow] BY DEF Init, NoRequest, RequestRow
  <2> QED BY <2>3, <2>4, <2>5, <2>6, <2>7, <2>8 DEF TypeOK, Init, Unread, Level, RowState
<1>2. ASSUME NEW a \in Alert PROVE AlertLinks(a)
  <2>1. PICK L : alerts = [b \in Alert |-> IF b \in L
                     THEN [NoAlert EXCEPT !.status = "OPEN"] ELSE NoAlert]
    BY DEF Init
  <2>2. alerts[a] = IF a \in L THEN [NoAlert EXCEPT !.status = "OPEN"] ELSE NoAlert
    BY <2>1
  <2>3. alerts[a].rule = General /\ alerts[a].subject = NoSignature
    BY <2>2, EmptyTypes DEF AlertRow
  <2> QED BY <2>3 DEF AlertLinks, RuleExists, Init
<1>3. ASSUME NEW v \in Evaluator PROVE EvalLinks(v)
  <2>1. evals[v] = NoEval BY DEF Init
  <2> QED BY <2>1, EmptyTypes DEF EvalLinks
<1> QED BY <1>1, <1>2, <1>3, Parts

LEMMA MeasureIInv == ASSUME IInv, NEW s \in Subject, Measure(s) PROVE IInv'
<1>1. UNCHANGED <<focus, kind, general, overrides, requests, doubled, alerts, evals, reopened, ops>> BY DEF Measure, ruleVars, rowVars
<1>2. PICK m \in Readings : reading' = [reading EXCEPT ![s] = m] BY DEF Measure
<1>3. m \in Level BY <1>2 DEF Readings, Level
<1>4. reading' \in [Subject -> Level] BY <1>2, <1>3, TypesNow
<1>5. StaysKnown /\ \A a \in Alert : AlertLinks(a)' BY <1>1, AlertsStay
<1>6. \A v \in Evaluator : EvalLinks(v)' BY <1>1, <1>5, EvalsStay
<1> QED BY <1>1, <1>4, <1>5, <1>6, Together, TypesNow

\* A row as the evaluation copies it.
CopyOf(a) == [id |-> a, rule |-> alerts[a].rule, subject |-> alerts[a].subject]

LEMMA EvalReadIInv == ASSUME IInv, NEW v \in Evaluator, EvalRead(v) PROVE IInv'
<1>1. UNCHANGED <<focus, kind, reading, general, overrides, requests, doubled, alerts, reopened, ops>>
  BY DEF EvalRead, ruleVars, rowVars
<1>2. PICK r \in UNION {EffectiveRule(last) : last \in Last} :
        evals' = [evals EXCEPT ![v] = [NoEval EXCEPT !.phase = "lookup", !.rule = r,
                                                     !.seen = reading]]
  BY DEF EvalRead
<1> DEFINE new == [NoEval EXCEPT !.phase = "lookup", !.rule = r, !.seen = reading]
<1>3. r \in RuleRow BY <1>2 DEF EffectiveRule, RuleRow, Last, Overrides
<1>4. /\ new \in EvalRow /\ new.phase = "lookup" /\ new.active = {} /\ new.matched = {}
  BY <1>3, EmptyTypes, TypesNow DEF EvalRow
<1>5. EvalBecomes(v, new) BY <1>2, <1>4, EvalWritten, TypesNow
<1> HIDE DEF new
<1>6. StaysKnown /\ \A a \in Alert : AlertLinks(a)' BY <1>1, AlertsStay
<1>7. EvalLinks(v)' BY <1>4, <1>5 DEF EvalLinks, EvalBecomes
<1>8. \A u \in Evaluator : EvalLinks(u)' BY <1>4, <1>5, <1>6, <1>7, EvalsMove
<1>9. evals' \in [Evaluator -> EvalRow] BY <1>5 DEF EvalBecomes
<1> QED BY <1>1, <1>6, <1>8, <1>9, Together, TypesNow

\* What a lookup makes of the evaluation.
LEMMA LookedUp ==
  ASSUME IInv, NEW v \in Evaluator, EvalLookup(v)
  PROVE  \E new \in EvalRow :
           /\ EvalBecomes(v, new)
           /\ new.phase = "act" /\ new.rule = evals[v].rule /\ new.seen = evals[v].seen
           /\ new.matched = evals[v].matched
           /\ new.active = {CopyOf(a) : a \in ActiveAlerts}
<1>1. TypeOK /\ evals[v] \in EvalRow BY TypesNow
<1> DEFINE found == {CopyOf(a) : a \in ActiveAlerts}
           new == [[evals[v] EXCEPT !.phase = "act"] EXCEPT !.active = found]
<1>2. \A a \in Alert : alerts[a] \in AlertRow BY <1>1 DEF TypeOK
<1>3. found \in SUBSET Copy BY <1>2 DEF ActiveAlerts, CopyOf, Copy, AlertRow
<1>4. evals' = [evals EXCEPT ![v].phase = "act", ![v].active = found]
  BY DEF EvalLookup, CopyOf
<1> HIDE DEF found
<1>5. evals' = [evals EXCEPT ![v] = new] BY <1>1, <1>4 DEF TypeOK
<1>6. /\ new \in EvalRow /\ new.phase = "act" /\ new.rule = evals[v].rule
      /\ new.seen = evals[v].seen /\ new.matched = evals[v].matched /\ new.active = found
  BY <1>1, <1>3 DEF EvalRow
<1> HIDE DEF new
<1>7. EvalBecomes(v, new) BY <1>1, <1>5, <1>6, EvalWritten
<1> QED BY <1>6, <1>7 DEF found

LEMMA EvalLookupIInv == ASSUME IInv, NEW v \in Evaluator, EvalLookup(v) PROVE IInv'
<1>1. UNCHANGED <<focus, kind, reading, general, overrides, requests, doubled, alerts, reopened, ops>>
  BY DEF EvalLookup, ruleVars, rowVars
<1>2. PICK new \in EvalRow :
        /\ EvalBecomes(v, new)
        /\ new.phase = "act" /\ new.rule = evals[v].rule /\ new.seen = evals[v].seen
        /\ new.matched = evals[v].matched
        /\ new.active = {CopyOf(a) : a \in ActiveAlerts}
  BY LookedUp
<1>3. StaysKnown /\ \A a \in Alert : AlertLinks(a)' BY <1>1, AlertsStay
<1>4. \A c \in new.active : Known(c.id)' BY <1>1, <1>2 DEF CopyOf, Known, ActiveAlerts, IsActive, Active
<1>5. \A a \in new.matched : Known(a)'
  <2>1. EvalLinks(v) BY Parts
  <2> QED BY <1>1, <1>2, <2>1 DEF EvalLinks, Known
<1>6. EvalLinks(v)' BY <1>2, <1>4, <1>5 DEF EvalLinks, EvalBecomes, Known
<1>7. \A u \in Evaluator : EvalLinks(u)' BY <1>2, <1>3, <1>6, EvalsMove
<1>8. evals' \in [Evaluator -> EvalRow] BY <1>2 DEF EvalBecomes
<1> QED BY <1>1, <1>3, <1>7, <1>8, Together, TypesNow

\* A new alert.
LEMMA AlertOpened ==
  ASSUME IInv, NEW a \in FreshAlert, NEW r \in RuleRow, NEW s \in Subject,
         alerts' = [alerts EXCEPT ![a] = Opened(r, s)]
  PROVE  /\ a \in Alert /\ ~Known(a) /\ Opened(r, s) \in AlertRow
         /\ AlertBecomes(a, Opened(r, s))
         /\ Opened(r, s).status = "OPEN" /\ Opened(r, s).rule = r /\ Opened(r, s).subject = s
<1>1. a \in Alert /\ ~Known(a) BY DEF FreshAlert, Known
<1>2. Opened(r, s) \in AlertRow
      /\ Opened(r, s).status = "OPEN" /\ Opened(r, s).rule = r /\ Opened(r, s).subject = s
  BY DEF Opened, AlertRow, Active
<1>3. AlertBecomes(a, Opened(r, s)) BY <1>1, <1>2, AlertWritten, TypesNow
<1> QED BY <1>1, <1>2, <1>3

LEMMA OpeningLinks ==
  ASSUME IInv, NEW a \in FreshAlert, NEW r \in RuleRow, NEW s \in Subject,
         RuleExists(r), kind # "APP_CRASH" => s = NoSignature,
         alerts' = [alerts EXCEPT ![a] = Opened(r, s)],
         UNCHANGED <<kind, overrides, reopened>>
  PROVE  /\ alerts' \in [Alert -> AlertRow] /\ StaysKnown
         /\ \A b \in Alert : AlertLinks(b)'
<1> DEFINE new == Opened(r, s)
<1>1. /\ a \in Alert /\ ~Known(a) /\ new \in AlertRow
      /\ AlertBecomes(a, new)
      /\ new.status = "OPEN" /\ new.rule = r /\ new.subject = s
  <2> HIDE DEF new
  <2>1. new = Opened(r, s) /\ alerts' = [alerts EXCEPT ![a] = new] BY DEF new
  <2>2. a \in Alert /\ ~Known(a) BY DEF FreshAlert, Known
  <2>3. new \in AlertRow /\ new.status = "OPEN" /\ new.rule = r /\ new.subject = s
    BY <2>1 DEF Opened, AlertRow, Active
  <2> QED BY <2>1, <2>2, <2>3, AlertWritten, TypesNow
<1>2. new.rule = NoRule \/ RuleExists(new.rule) BY <1>1
<1>3. new.status # "ABSENT" /\ (kind # "APP_CRASH" => new.subject = NoSignature) BY <1>1
<1> HIDE DEF new
<1> QED BY <1>1, <1>2, <1>3, AlertsMove

LEMMA EvalTriggeredIInv == ASSUME IInv, NEW v \in Evaluator, EvalTriggered(v) PROVE IInv'
<1>1. UNCHANGED <<focus, kind, reading, general, overrides, requests, doubled, reopened, ops>> /\ EvalEnds(v)
  BY DEF EvalTriggered, ruleVars, rowVars
<1>2. \/ UNCHANGED alerts
      \/ /\ RuleExists(evals[v].rule)
         /\ \E a \in FreshAlert : alerts' = [alerts EXCEPT ![a] = Opened(evals[v].rule, NoSignature)]
  BY DEF EvalTriggered
<1>3. evals[v].rule \in RuleRow BY TypesNow DEF EvalRow
<1>4. NoSignature \in Subject BY DEF Subject
<1>5. /\ alerts' \in [Alert -> AlertRow] /\ StaysKnown
      /\ \A a \in Alert : AlertLinks(a)'
  <2>1. CASE UNCHANGED alerts BY <1>1, <2>1, AlertsStay
  <2>2. CASE ~UNCHANGED alerts
    <3>1. PICK a \in FreshAlert : alerts' = [alerts EXCEPT ![a] = Opened(evals[v].rule, NoSignature)]
      BY <1>2, <2>2
    <3>2. RuleExists(evals[v].rule) BY <1>2, <2>2
    <3> QED BY <1>1, <1>3, <1>4, <3>1, <3>2, OpeningLinks
  <2> QED BY <2>1, <2>2
<1>6. evals' \in [Evaluator -> EvalRow] /\ \A u \in Evaluator : EvalLinks(u)'
  BY <1>1, <1>5, EvalsEnd
<1> QED BY <1>1, <1>5, <1>6, Together, TypesNow

\* Resolving what an evaluation found, whatever became of it.
LEMMA ResolvingIInv ==
  ASSUME IInv, NEW v \in Evaluator, NEW S, \A a \in S : Known(a), alerts' = Resolve(S),
         EvalEnds(v), UNCHANGED <<focus, kind, reading, general, overrides, requests, doubled, reopened, ops>>
  PROVE  IInv'
<1>1. StatusesWritten(S) BY ResolveWrites, TypesNow
<1>2. /\ alerts' \in [Alert -> AlertRow] /\ StaysKnown
      /\ \A a \in Alert : AlertLinks(a)'
  BY <1>1, AlertsChangeStatus
<1>3. evals' \in [Evaluator -> EvalRow] /\ \A u \in Evaluator : EvalLinks(u)'
  BY <1>2, EvalsEnd
<1> QED BY <1>2, <1>3, Together, TypesNow

LEMMA EvalNormalIInv == ASSUME IInv, NEW v \in Evaluator, EvalNormal(v) PROVE IInv'
<1>1. UNCHANGED <<focus, kind, reading, general, overrides, requests, doubled, reopened, ops>> /\ EvalEnds(v)
  BY DEF EvalNormal, ruleVars, rowVars
<1>2. CASE CanAutoHeal
  <2> DEFINE S == {c.id : c \in Existing(v)}
  <2>1. alerts' = Resolve(S) BY <1>2 DEF EvalNormal
  <2>2. \A a \in S : Known(a)
    <3>1. EvalLinks(v) BY Parts
    <3>2. Existing(v) \subseteq evals[v].active BY DEF Existing
    <3> QED BY <3>1, <3>2 DEF EvalLinks
  <2> HIDE DEF S
  <2> QED BY <1>1, <2>1, <2>2, ResolvingIInv
<1>3. CASE ~CanAutoHeal
  <2>1. alerts' = alerts BY <1>3 DEF EvalNormal
  <2>2. /\ alerts' \in [Alert -> AlertRow] /\ StaysKnown
        /\ \A a \in Alert : AlertLinks(a)'
    BY <1>1, <2>1, AlertsStay
  <2>3. evals' \in [Evaluator -> EvalRow] /\ \A u \in Evaluator : EvalLinks(u)'
    BY <1>1, <2>2, EvalsEnd
  <2> QED BY <1>1, <2>2, <2>3, Together, TypesNow
<1> QED BY <1>2, <1>3

LEMMA EvalStaleIInv == ASSUME IInv, NEW v \in Evaluator, EvalStale(v) PROVE IInv'
<1>1. UNCHANGED <<focus, kind, reading, general, overrides, requests, doubled, reopened, ops>> /\ EvalEnds(v)
  BY DEF EvalStale, ruleVars, rowVars
<1> DEFINE S == {c.id : c \in Mine(v)} \ evals[v].matched
<1>2. alerts' = Resolve(S) BY DEF EvalStale
<1>3. \A a \in S : Known(a)
  <2>1. EvalLinks(v) BY Parts
  <2> QED BY <2>1 DEF EvalLinks, Mine
<1> HIDE DEF S
<1> QED BY <1>1, <1>2, <1>3, ResolvingIInv

\* What a signature's turn makes of the evaluation.
Handled(v, s, a) ==
  [[evals[v] EXCEPT !.seen = [@ EXCEPT ![s] = "clear"]] EXCEPT !.matched = @ \cup {a}]

LEMMA HandledWrites ==
  ASSUME IInv, NEW v \in Evaluator, NEW s \in Signature, NEW a \in Alert,
         evals' = [evals EXCEPT ![v].seen[s] = "clear", ![v].matched = @ \cup {a}]
  PROVE  /\ Handled(v, s, a) \in EvalRow /\ EvalBecomes(v, Handled(v, s, a))
         /\ Handled(v, s, a).phase = evals[v].phase /\ Handled(v, s, a).rule = evals[v].rule
         /\ Handled(v, s, a).active = evals[v].active
         /\ Handled(v, s, a).matched = evals[v].matched \cup {a}
         /\ Handled(v, s, a).seen = [evals[v].seen EXCEPT ![s] = "clear"]
<1>1. evals[v] \in EvalRow /\ evals \in [Evaluator -> EvalRow] BY TypesNow
<1>2. evals' = [evals EXCEPT ![v] = Handled(v, s, a)] BY <1>1 DEF Handled
<1>3. [evals[v].seen EXCEPT ![s] = "clear"] \in [Subject -> Level]
  BY <1>1 DEF EvalRow, Level, Subject
<1>4. /\ Handled(v, s, a) \in EvalRow
      /\ Handled(v, s, a).phase = evals[v].phase /\ Handled(v, s, a).rule = evals[v].rule
      /\ Handled(v, s, a).active = evals[v].active
      /\ Handled(v, s, a).matched = evals[v].matched \cup {a}
      /\ Handled(v, s, a).seen = [evals[v].seen EXCEPT ![s] = "clear"]
  BY <1>1, <1>3 DEF Handled, EvalRow
<1> QED BY <1>2, <1>4, EvalWritten, TypesNow

\* The three ways a turn of EvalCrash can go.
CrashClaims(v, s, a) ==
  /\ a \in CrashAlertOf(v, s) /\ alerts' = [alerts EXCEPT ![a].subject = s]
  /\ evals' = [evals EXCEPT ![v].seen[s] = "clear", ![v].matched = @ \cup {a}]
CrashOpens(v, s, a) ==
  /\ CrashAlertOf(v, s) = {} /\ RuleExists(evals[v].rule) /\ a \in FreshAlert
  /\ alerts' = [alerts EXCEPT ![a] = Opened(evals[v].rule, s)]
  /\ evals' = [evals EXCEPT ![v].seen[s] = "clear", ![v].matched = @ \cup {a}]

LEMMA CrashCases ==
  ASSUME IInv, NEW v \in Evaluator, EvalCrash(v)
  PROVE  /\ UNCHANGED <<focus, kind, reading, general, overrides, requests, doubled, reopened, ops>>
         /\ evals[v].phase = "act" /\ kind = "APP_CRASH"
         /\ \E s \in Signature :
              /\ s \in CrashGroups(v)
              /\ \/ \E a \in Alert : CrashClaims(v, s, a)
                 \/ \E a \in Alert : CrashOpens(v, s, a)
                 \/ EvalEnds(v) /\ UNCHANGED alerts
<1>1. PICK s \in CrashGroups(v) :
        \/ \E a \in CrashAlertOf(v, s) : CrashClaims(v, s, a)
        \/ \E a \in FreshAlert : CrashOpens(v, s, a)
        \/ EvalEnds(v) /\ UNCHANGED alerts
  BY DEF EvalCrash, CrashClaims, CrashOpens
<1>2. s \in Signature BY DEF CrashGroups
<1>3. FreshAlert \subseteq Alert BY DEF FreshAlert
<1>4. CrashAlertOf(v, s) \subseteq Alert
  BY HeldIsAlert, TypesNow DEF CrashAlertOf, LegacyAlerts, OwnAlerts, Mine
<1>5. \/ \E a \in Alert : CrashClaims(v, s, a)
      \/ \E a \in Alert : CrashOpens(v, s, a)
      \/ EvalEnds(v) /\ UNCHANGED alerts
  BY <1>1, <1>3, <1>4
<1> QED BY <1>1, <1>2, <1>5 DEF EvalCrash, ruleVars, rowVars

\* The alert it handles is there, and so is what the evaluation held.
LEMMA HandledLinks ==
  ASSUME IInv, NEW v \in Evaluator, NEW s \in Signature, NEW a \in Alert,
         evals[v].phase = "act", StaysKnown, Known(a)',
         evals' = [evals EXCEPT ![v].seen[s] = "clear", ![v].matched = @ \cup {a}]
  PROVE  /\ evals' \in [Evaluator -> EvalRow]
         /\ \A u \in Evaluator : EvalLinks(u)'
<1>1. /\ Handled(v, s, a) \in EvalRow /\ EvalBecomes(v, Handled(v, s, a))
      /\ Handled(v, s, a).phase = "act"
      /\ Handled(v, s, a).active = evals[v].active
      /\ Handled(v, s, a).matched = evals[v].matched \cup {a}
  BY HandledWrites
<1>2. evals'[v] = Handled(v, s, a) BY <1>1 DEF EvalBecomes
<1>3. EvalLinks(v) BY Parts
<1>4. /\ \A b \in evals[v].matched : b \in Alert
      /\ \A c \in evals[v].active : c.id \in Alert
  BY HeldIsAlert, TypesNow
<1>5. \A b \in evals[v].matched \cup {a} : Known(b)' BY <1>3, <1>4 DEF EvalLinks, StaysKnown
<1>6. \A c \in evals[v].active : Known(c.id)' BY <1>3, <1>4 DEF EvalLinks, StaysKnown
<1>7. EvalLinks(v)' BY <1>1, <1>2, <1>5, <1>6 DEF EvalLinks, Known
<1>8. \A u \in Evaluator : EvalLinks(u)' BY <1>1, <1>7, EvalsMove
<1> QED BY <1>1, <1>8 DEF EvalBecomes

\* The alert that is claimed is one the evaluation holds.
LEMMA ClaimWrites ==
  ASSUME IInv, NEW v \in Evaluator, NEW s \in Signature, NEW a \in Alert, CrashClaims(v, s, a)
  PROVE  /\ Known(a) /\ [alerts[a] EXCEPT !.subject = s] \in AlertRow
         /\ AlertBecomes(a, [alerts[a] EXCEPT !.subject = s])
         /\ [alerts[a] EXCEPT !.subject = s].status = alerts[a].status
         /\ [alerts[a] EXCEPT !.subject = s].rule = alerts[a].rule
         /\ [alerts[a] EXCEPT !.subject = s].subject = s
<1>1. \E c \in evals[v].active : c.id = a
  BY DEF CrashClaims, CrashAlertOf, LegacyAlerts, OwnAlerts, Mine
<1>2. Known(a) BY <1>1, Parts DEF EvalLinks
<1>3. alerts \in [Alert -> AlertRow] /\ alerts[a] \in AlertRow BY TypesNow
<1>4. /\ [alerts[a] EXCEPT !.subject = s] \in AlertRow
      /\ [alerts[a] EXCEPT !.subject = s].status = alerts[a].status
      /\ [alerts[a] EXCEPT !.subject = s].rule = alerts[a].rule
      /\ [alerts[a] EXCEPT !.subject = s].subject = s
  BY <1>3 DEF AlertRow, Subject
<1>5. alerts' = [alerts EXCEPT ![a] = [alerts[a] EXCEPT !.subject = s]]
  BY <1>3 DEF CrashClaims
<1>6. AlertBecomes(a, [alerts[a] EXCEPT !.subject = s])
  BY <1>4, <1>5, AlertWritten, TypesNow
<1> QED BY <1>2, <1>4, <1>6

LEMMA ClaimLinks ==
  ASSUME IInv, kind = "APP_CRASH", NEW v \in Evaluator, NEW s \in Signature, NEW a \in Alert,
         CrashClaims(v, s, a), UNCHANGED <<kind, overrides, reopened>>
  PROVE  /\ alerts' \in [Alert -> AlertRow] /\ StaysKnown /\ Known(a)'
         /\ \A b \in Alert : AlertLinks(b)'
<1> DEFINE new == [alerts[a] EXCEPT !.subject = s]
<1>1. /\ Known(a) /\ new \in AlertRow /\ AlertBecomes(a, new)
      /\ new.status = alerts[a].status /\ new.rule = alerts[a].rule
  BY ClaimWrites
<1> HIDE DEF new
<1>2. new.status # "ABSENT" BY <1>1 DEF Known
<1>3. new.rule = NoRule \/ RuleExists(new.rule) BY <1>1, Parts DEF AlertLinks
<1>4. /\ alerts' \in [Alert -> AlertRow] /\ StaysKnown
      /\ \A b \in Alert : AlertLinks(b)'
  BY <1>1, <1>2, <1>3, AlertsMove
<1> QED BY <1>1, <1>4 DEF StaysKnown

LEMMA EvalCrashIInv == ASSUME IInv, NEW v \in Evaluator, EvalCrash(v) PROVE IInv'
<1>1. /\ UNCHANGED <<focus, kind, reading, general, overrides, requests, doubled, reopened, ops>>
      /\ evals[v].phase = "act" /\ kind = "APP_CRASH"
  BY CrashCases
<1>2. PICK s \in Signature :
        \/ \E a \in Alert : CrashClaims(v, s, a)
        \/ \E a \in Alert : CrashOpens(v, s, a)
        \/ EvalEnds(v) /\ UNCHANGED alerts
  BY CrashCases
<1>3. ASSUME NEW a \in Alert, CrashClaims(v, s, a) PROVE IInv'
  <2>1. /\ alerts' \in [Alert -> AlertRow] /\ StaysKnown /\ Known(a)'
        /\ \A b \in Alert : AlertLinks(b)'
    BY <1>1, <1>3, ClaimLinks
  <2>2. evals' \in [Evaluator -> EvalRow] /\ \A u \in Evaluator : EvalLinks(u)'
    BY <1>1, <1>3, <2>1, HandledLinks DEF CrashClaims
  <2> QED BY <1>1, <2>1, <2>2, Together, TypesNow
<1>4. ASSUME NEW a \in Alert, CrashOpens(v, s, a) PROVE IInv'
  <2>1. evals[v].rule \in RuleRow /\ s \in Subject BY TypesNow DEF EvalRow, Subject
  <2>2. /\ a \in FreshAlert /\ RuleExists(evals[v].rule)
        /\ alerts' = [alerts EXCEPT ![a] = Opened(evals[v].rule, s)]
    BY <1>4 DEF CrashOpens
  <2>3. /\ alerts' \in [Alert -> AlertRow] /\ StaysKnown
        /\ \A b \in Alert : AlertLinks(b)'
    BY <1>1, <2>1, <2>2, OpeningLinks
  <2>4. Known(a)'
    <3>1. AlertBecomes(a, Opened(evals[v].rule, s)) /\ Opened(evals[v].rule, s).status = "OPEN"
      BY <2>1, <2>2, AlertOpened
    <3> QED BY <3>1 DEF AlertBecomes, Known
  <2>5. evals' \in [Evaluator -> EvalRow] /\ \A u \in Evaluator : EvalLinks(u)'
    BY <1>1, <1>4, <2>3, <2>4, HandledLinks DEF CrashOpens
  <2> QED BY <1>1, <2>3, <2>5, Together, TypesNow
<1>5. CASE EvalEnds(v) /\ UNCHANGED alerts
  <2>1. /\ alerts' \in [Alert -> AlertRow] /\ StaysKnown
        /\ \A b \in Alert : AlertLinks(b)'
    BY <1>1, <1>5, AlertsStay
  <2>2. evals' \in [Evaluator -> EvalRow] /\ \A u \in Evaluator : EvalLinks(u)'
    BY <1>5, <2>1, EvalsEnd
  <2> QED BY <1>1, <2>1, <2>2, Together, TypesNow
<1> QED BY <1>2, <1>3, <1>4, <1>5

LEMMA Intervened == ASSUME IInv, Intervene PROVE ops' \in 0..focus.ops
BY TypesNow, FocusAssumption DEF Intervene

LEMMA SetGeneralIInv == ASSUME IInv, SetGeneral PROVE IInv'
<1>1. UNCHANGED <<focus, kind, reading, overrides, requests, doubled, alerts, evals, reopened>>
      /\ general' \in BOOLEAN
  BY DEF SetGeneral
<1>2. ops' \in 0..focus.ops BY Intervened DEF SetGeneral
<1>3. StaysKnown /\ \A a \in Alert : AlertLinks(a)' BY <1>1, AlertsStay
<1>4. \A v \in Evaluator : EvalLinks(v)' BY <1>1, <1>3, EvalsStay
<1> QED BY <1>1, <1>2, <1>3, <1>4, Together, TypesNow

\* Requests leave alerts and evaluations alone, and no row disappears by them.
LEMMA RowsAppear ==
  ASSUME IInv, UNCHANGED <<focus, kind, reading, general, alerts, evals, reopened, ops>>,
         overrides' \in [OverrideRow -> RowState], Overrides \subseteq Overrides',
         requests' \in [Request -> RequestRow], doubled' \in BOOLEAN
  PROVE  IInv'
<1>1. StaysKnown BY DEF StaysKnown, Known
<1>2. ASSUME NEW a \in Alert PROVE AlertLinks(a)'
  <2>1. AlertLinks(a) BY Parts
  <2>2. alerts[a].rule = NoRule \/ RuleExists(alerts[a].rule)' BY <2>1 DEF AlertLinks, RuleExists
  <2> QED BY <2>1, <2>2 DEF AlertLinks, RuleExists, Known
<1>3. \A v \in Evaluator : EvalLinks(v)' BY <1>1, EvalsStay
<1> QED BY <1>2, <1>3, Together, TypesNow

LEMMA BeginIInv ==
  ASSUME IInv, NEW q \in Request, NEW k \in {"toggle", "set", "keep"}, NEW value \in BOOLEAN,
         Begin(q, k, value)
  PROVE  IInv'
<1>1. requests' \in [Request -> RequestRow] BY TypesNow DEF Begin, RequestRow
<1>2. UNCHANGED <<focus, kind, reading, general, overrides, doubled, alerts, evals, reopened, ops>>
  BY DEF Begin, rowVars
<1>3. Overrides' = Overrides BY <1>2 DEF Overrides
<1> QED BY <1>1, <1>2, <1>3, RowsAppear, TypesNow

LEMMA EnabledType == ASSUME IInv, NEW r \in RuleRow PROVE Enabled(r) \in BOOLEAN
BY TypesNow DEF Enabled

LEMMA StartIInv ==
  ASSUME IInv, NEW q \in Request, ToggleOverride(q) \/ PostOverride(q)
  PROVE  IInv'
<1>1. CASE ToggleOverride(q)
  <2>1. PICK r \in RuleRow : Begin(q, "toggle", ~Enabled(r))
    BY <1>1 DEF ToggleOverride, Overrides, RuleRow
  <2>2. PICK value \in BOOLEAN : value = ~Enabled(r) BY EnabledType
  <2> QED BY <2>1, <2>2, BeginIInv
<1>2. CASE PostOverride(q)
  <2>1. PICK k \in {"set", "keep"} : \E value \in BOOLEAN : Begin(q, k, value)
    BY <1>2, TypesNow DEF PostOverride
  <2> QED BY <2>1, BeginIInv
<1> QED BY <1>1, <1>2

\* What a lookup makes of its request.
LEMMA FindWrites ==
  ASSUME IInv, NEW q \in Request, FindOverride(q)
  PROVE  /\ UNCHANGED <<focus, kind, reading, general, overrides, alerts, evals, reopened, ops>>
         /\ \E new \in RequestRow :
              /\ requests' = [requests EXCEPT ![q] = new] /\ new.phase = "write"
              /\ new.row = NoRule <=> Overrides = {}
              /\ doubled' = (doubled \/ (new.row = NoRule /\ \E p \in Request \ {q} : Creating(p)))
<1>1. PICK row \in IF Overrides = {} THEN {NoRule} ELSE Overrides :
        /\ requests' = [requests EXCEPT ![q] = [@ EXCEPT !.phase = "write", !.row = row,
                                                        !.value = Outcome(q, row)]]
        /\ doubled' = (doubled \/ (row = NoRule /\ \E p \in Request \ {q} : Creating(p)))
  BY DEF FindOverride, FindIn
<1>2. requests[q] \in RequestRow /\ requests \in [Request -> RequestRow] BY TypesNow
<1>3. row \in OverrideRow \cup {NoRule} /\ (row = NoRule <=> Overrides = {})
  BY <1>1 DEF Overrides, OverrideRow, NoRule
<1>4. row # NoRule => Enabled(row) \in BOOLEAN BY <1>3, EnabledType DEF RuleRow
<1>5. requests[q].value \in BOOLEAN BY <1>2 DEF RequestRow
<1>6. Outcome(q, row) \in BOOLEAN BY <1>4, <1>5 DEF Outcome
<1>7. PICK old \in RequestRow : old = requests[q] BY <1>2
<1>8. PICK value \in BOOLEAN : value = Outcome(q, row) BY <1>6
<1>9. PICK new : new = [old EXCEPT !.phase = "write", !.row = row, !.value = value] OBVIOUS
<1>10. new \in RequestRow /\ new.phase = "write" /\ new.row = row BY <1>3, <1>9 DEF RequestRow
<1>11. requests' = [requests EXCEPT ![q] = new] BY <1>1, <1>2, <1>7, <1>8, <1>9
<1> QED BY <1>1, <1>3, <1>10, <1>11 DEF FindOverride, FindIn, rowVars

LEMMA FindIInv == ASSUME IInv, NEW q \in Request, FindOverride(q) PROVE IInv'
<1>1. UNCHANGED <<focus, kind, reading, general, overrides, alerts, evals, reopened, ops>>
  BY FindWrites
<1>2. requests' \in [Request -> RequestRow] /\ doubled' \in BOOLEAN BY FindWrites, TypesNow
<1>3. Overrides' = Overrides BY <1>1 DEF Overrides
<1> QED BY <1>1, <1>2, <1>3, RowsAppear, TypesNow

\* What a write makes of the rows: none disappears, and one appears at most, if the request
\* was about to create it.
LEMMA WriteWrites ==
  ASSUME IInv, NEW q \in Request, WriteOverride(q)
  PROVE  /\ UNCHANGED <<focus, kind, reading, general, doubled, alerts, evals, reopened, ops>>
         /\ overrides' \in [OverrideRow -> RowState]
         /\ requests' = [requests EXCEPT ![q] = [NoRequest EXCEPT !.phase = "done"]]
         /\ Overrides \subseteq Overrides'
         /\ \/ Overrides' = Overrides
            \/ Creating(q) /\ \E o \in OverrideRow : Overrides' = Overrides \cup {o}
<1>1. /\ UNCHANGED <<focus, kind, reading, general, doubled, alerts, evals, reopened, ops>>
      /\ requests' = [requests EXCEPT ![q] = [NoRequest EXCEPT !.phase = "done"]]
      /\ requests[q].phase = "write"
  BY DEF WriteOverride
<1>2. CASE overrides' = overrides BY <1>1, <1>2, TypesNow DEF Overrides
<1>3. CASE overrides' # overrides
  <2>1. PICK o \in OverrideRow, state \in {"on", "off"} :
          /\ overrides' = [overrides EXCEPT ![o] = state]
          /\ requests[q].row = NoRule \/ o \in Overrides
    BY <1>3 DEF WriteOverride, FreshOverride, Overrides
  <2>2. Overrides' = Overrides \cup {o} BY <2>1, TypesNow DEF Overrides
  <2>3. overrides' \in [OverrideRow -> RowState] BY <2>1, TypesNow DEF RowState
  <2> QED BY <1>1, <2>1, <2>2, <2>3 DEF Creating
<1> QED BY <1>2, <1>3

LEMMA WriteIInv == ASSUME IInv, NEW q \in Request, WriteOverride(q) PROVE IInv'
<1>1. [NoRequest EXCEPT !.phase = "done"] \in RequestRow BY DEF NoRequest, RequestRow
<1>2. requests' \in [Request -> RequestRow] BY <1>1, WriteWrites, TypesNow
<1> QED BY <1>2, WriteWrites, RowsAppear, TypesNow

\* Deleting the customer's row takes the rule from its alerts and nothing else.
RulesForgotten(o) ==
  /\ alerts' \in [Alert -> AlertRow]
  /\ \A a \in Alert : /\ alerts'[a].status = alerts[a].status
                      /\ alerts'[a].subject = alerts[a].subject
                      /\ alerts'[a].rule = IF alerts[a].rule = o THEN NoRule
                                           ELSE alerts[a].rule

LEMMA DeleteWrites ==
  ASSUME IInv, NEW o \in OverrideRow, DeleteOverride(o)
  PROVE  RulesForgotten(o)
<1>1. \A a \in Alert : alerts[a] \in AlertRow BY TypesNow
<1>2. \A a \in Alert : /\ [alerts[a] EXCEPT !.rule = NoRule] \in AlertRow
                       /\ [alerts[a] EXCEPT !.rule = NoRule].status = alerts[a].status
                       /\ [alerts[a] EXCEPT !.rule = NoRule].subject = alerts[a].subject
                       /\ [alerts[a] EXCEPT !.rule = NoRule].rule = NoRule
  BY <1>1 DEF AlertRow
<1>3. alerts' = [a \in Alert |-> IF alerts[a].rule = o
                                 THEN [alerts[a] EXCEPT !.rule = NoRule] ELSE alerts[a]]
  BY DEF DeleteOverride
<1>4. alerts' \in [Alert -> AlertRow] BY <1>1, <1>2, <1>3
<1>5. ASSUME NEW a \in Alert
      PROVE  /\ alerts'[a].status = alerts[a].status
             /\ alerts'[a].subject = alerts[a].subject
             /\ alerts'[a].rule = IF alerts[a].rule = o THEN NoRule ELSE alerts[a].rule
  <2>1. CASE alerts[a].rule = o BY <1>2, <1>3, <2>1
  <2>2. CASE alerts[a].rule # o BY <1>3, <2>2
  <2> QED BY <2>1, <2>2
<1> QED BY <1>4, <1>5 DEF RulesForgotten

\* The row itself is gone.
LEMMA DeletedRow ==
  ASSUME IInv, NEW o \in OverrideRow, DeleteOverride(o)
  PROVE  /\ UNCHANGED <<focus, kind, reading, general, requests, doubled, evals, reopened>>
         /\ overrides' \in [OverrideRow -> RowState] /\ ops' \in 0..focus.ops
         /\ Overrides' = Overrides \ {o}
<1>1. overrides' = [overrides EXCEPT ![o] = "gone"] BY DEF DeleteOverride
<1>2. Overrides' = Overrides \ {o} BY <1>1, TypesNow DEF Overrides
<1>3. overrides' \in [OverrideRow -> RowState] BY <1>1, TypesNow DEF RowState
<1> QED BY <1>2, <1>3, Intervened DEF DeleteOverride

LEMMA DeleteOverrideIInv == ASSUME IInv, NEW o \in OverrideRow, DeleteOverride(o) PROVE IInv'
<1>1. /\ UNCHANGED <<focus, kind, reading, general, requests, doubled, evals, reopened>>
      /\ overrides' \in [OverrideRow -> RowState] /\ ops' \in 0..focus.ops
      /\ Overrides' = Overrides \ {o}
  BY DeletedRow
<1>3. RulesForgotten(o) BY DeleteWrites
<1>4. StaysKnown BY <1>3 DEF StaysKnown, Known, RulesForgotten
<1>5. ASSUME NEW a \in Alert PROVE AlertLinks(a)'
  <2>1. AlertLinks(a) BY Parts
  <2>2. alerts'[a].rule \in {NoRule, General} \/ alerts'[a].rule \in Overrides'
    BY <1>1, <1>3, <2>1 DEF AlertLinks, RuleExists, RulesForgotten
  <2>3. kind' # "APP_CRASH" => alerts'[a].subject = NoSignature
    BY <1>1, <1>3, <2>1 DEF AlertLinks, RulesForgotten
  <2>4. (a \in reopened') => Known(a)' BY <1>1, <1>4, <2>1 DEF AlertLinks, StaysKnown
  <2> QED BY <2>2, <2>3, <2>4 DEF AlertLinks, RuleExists
<1>6. \A v \in Evaluator : EvalLinks(v)' BY <1>1, <1>4, EvalsStay
<1>7. alerts' \in [Alert -> AlertRow] BY <1>3 DEF RulesForgotten
<1> QED BY <1>1, <1>5, <1>6, <1>7, Together, TypesNow

LEMMA SetStatusWrites ==
  ASSUME IInv, NEW a \in Alert, NEW status \in Active \cup Closed, SetStatus(a, status)
  PROVE  /\ StatusesWritten({a}) /\ alerts'[a].status = status /\ Known(a)
         /\ UNCHANGED <<focus, kind, reading, general, overrides, requests, doubled, evals>> /\ ops' \in 0..focus.ops
<1> DEFINE new == [alerts[a] EXCEPT !.status = status]
<1>1. alerts[a] \in AlertRow /\ alerts \in [Alert -> AlertRow] BY TypesNow
<1>2. new \in AlertRow /\ new.status = status /\ new.rule = alerts[a].rule
      /\ new.subject = alerts[a].subject
  BY <1>1 DEF AlertRow
<1>3. alerts' = [alerts EXCEPT ![a] = new] BY <1>1 DEF SetStatus
<1> HIDE DEF new
<1>4. AlertBecomes(a, new) BY <1>2, <1>3, AlertWritten, TypesNow
<1>5. Known(a) /\ status # "ABSENT" BY DEF SetStatus, Known, Active, Closed
<1>6. StatusesWritten({a})
  <2>1. ASSUME NEW b \in Alert
        PROVE  /\ alerts'[b].rule = alerts[b].rule /\ alerts'[b].subject = alerts[b].subject
               /\ \/ alerts'[b].status = alerts[b].status
                  \/ b \in {a} /\ Known(b) /\ alerts'[b].status # "ABSENT"
    <3>1. CASE b = a BY <1>2, <1>4, <1>5, <3>1 DEF AlertBecomes
    <3>2. CASE b # a BY <1>4, <3>2 DEF AlertBecomes
    <3> QED BY <3>1, <3>2
  <2> QED BY <1>4, <2>1 DEF StatusesWritten, AlertBecomes
<1>7. alerts'[a].status = status BY <1>2, <1>4 DEF AlertBecomes
<1> QED BY <1>5, <1>6, <1>7, Intervened DEF SetStatus, ruleVars, rowVars

LEMMA StatusIInv ==
  ASSUME IInv, NEW a \in Alert, NEW status \in Active \cup Closed, SetStatus(a, status),
         reopened' \subseteq reopened \cup {a}
  PROVE  IInv'
<1>1. /\ StatusesWritten({a}) /\ Known(a)
      /\ UNCHANGED <<focus, kind, reading, general, overrides, requests, doubled, evals>> /\ ops' \in 0..focus.ops
  BY SetStatusWrites
<1>2. /\ alerts' \in [Alert -> AlertRow] /\ StaysKnown
      /\ \A b \in Alert : AlertLinks(b)'
  BY <1>1, AlertsChangeStatus
<1>3. \A v \in Evaluator : EvalLinks(v)' BY <1>1, <1>2, EvalsStay
<1>4. reopened' \subseteq Alert BY TypesNow
<1> QED BY <1>1, <1>2, <1>3, <1>4, Together, TypesNow

LEMMA AcknowledgeIInv == ASSUME IInv, NEW a \in Alert, Acknowledge(a) PROVE IInv'
<1>1. reopened' \subseteq reopened \cup {a} /\ "ACKNOWLEDGED" \in Active \cup Closed
  BY DEF Acknowledge, Active
<1> QED BY <1>1, StatusIInv DEF Acknowledge

LEMMA CloseAlertIInv == ASSUME IInv, NEW a \in Alert, CloseAlert(a) PROVE IInv'
<1>1. PICK status \in Closed : SetStatus(a, status) BY DEF CloseAlert
<1>2. status \in Active \cup Closed OBVIOUS
<1>3. reopened' \subseteq reopened \cup {a} BY DEF CloseAlert
<1> QED BY <1>1, <1>2, <1>3, StatusIInv

LEMMA RemediatedIInv == ASSUME IInv, NEW a \in Alert, Remediated(a) PROVE IInv'
<1>1. UNCHANGED <<focus, kind, reading, general, overrides, requests, doubled, evals, reopened, ops>>
  BY DEF Remediated, ruleVars, rowVars
<1>2. alerts' = Resolve({a}) /\ \A b \in {a} : Known(b) BY DEF Remediated, Known
<1>3. StatusesWritten({a}) BY <1>2, ResolveWrites, TypesNow
<1>4. /\ alerts' \in [Alert -> AlertRow] /\ StaysKnown
      /\ \A b \in Alert : AlertLinks(b)'
  BY <1>1, <1>3, AlertsChangeStatus
<1>5. \A v \in Evaluator : EvalLinks(v)' BY <1>1, <1>4, EvalsStay
<1> QED BY <1>1, <1>4, <1>5, Together, TypesNow

LEMMA ServerRestartIInv == ASSUME IInv, ServerRestart PROVE IInv'
<1>1. UNCHANGED <<focus, kind, reading, general, overrides, doubled, alerts, reopened>>
      /\ evals' = [v \in Evaluator |-> NoEval]
  BY DEF ServerRestart, rowVars
<1>6. requests' \in [Request -> RequestRow]
  <2>1. [NoRequest EXCEPT !.phase = "done"] \in RequestRow BY DEF NoRequest, RequestRow
  <2> QED BY <2>1, TypesNow DEF ServerRestart
<1>2. ops' \in 0..focus.ops BY Intervened DEF ServerRestart
<1>3. StaysKnown /\ \A a \in Alert : AlertLinks(a)' BY <1>1, AlertsStay
<1>4. evals' \in [Evaluator -> EvalRow] BY <1>1, EmptyTypes
<1>5. \A v \in Evaluator : EvalLinks(v)'
  <2>1. NoEval' = NoEval BY DEF NoEval, Unread
  <2> QED BY <1>1, <2>1, EmptyTypes DEF EvalLinks
<1> QED BY <1>1, <1>2, <1>3, <1>4, <1>5, <1>6, Together, TypesNow

LEMMA StutterIInv == ASSUME IInv, UNCHANGED vars PROVE IInv'
<1>1. UNCHANGED <<focus, kind, reading, general, overrides, requests, doubled, alerts, evals, reopened, ops>>
  BY DEF vars, ruleVars, rowVars
<1>2. StaysKnown /\ \A a \in Alert : AlertLinks(a)' BY <1>1, AlertsStay
<1>3. \A v \in Evaluator : EvalLinks(v)' BY <1>1, <1>2, EvalsStay
<1> QED BY <1>1, <1>2, <1>3, Together, TypesNow

LEMMA NextIInv == ASSUME IInv, [Next]_vars PROVE IInv'
<1>1. CASE \E s \in Subject : Measure(s) BY <1>1, MeasureIInv
<1>2. ASSUME NEW v \in Evaluator, EvalStep(v) PROVE IInv'
  BY <1>2, EvalReadIInv, EvalLookupIInv, EvalTriggeredIInv, EvalNormalIInv, EvalCrashIInv,
     EvalStaleIInv DEF EvalStep
<1>3. CASE \E a \in Alert : Remediated(a) BY <1>3, RemediatedIInv
<1>4. CASE Administration
  BY <1>4, SetGeneralIInv, StartIInv, FindIInv, WriteIInv, DeleteOverrideIInv, AcknowledgeIInv,
     CloseAlertIInv DEF Administration
<1>5. CASE ServerRestart BY <1>5, ServerRestartIInv
<1>6. CASE UNCHANGED vars BY <1>6, StutterIInv
<1> QED BY <1>1, <1>2, <1>3, <1>4, <1>5, <1>6 DEF Next

\* In every state of every behaviour the types hold, no alert names a rule row
\* that was deleted, and an evaluation works on alerts that were created.
THEOREM AlertsConsistent == Spec => []IInv
<1>1. Init => IInv BY InitIInv
<1>2. IInv /\ [Next]_vars => IInv' BY NextIInv
<1> QED BY <1>1, <1>2, PTL DEF Spec

\* A customer has one row at most, or a request that is about to create it, as long as no two
\* requests were about to create one each.
Single ==
  doubled \/ /\ \A o, p \in Overrides : o = p
             /\ \A q, p \in Request : Creating(q) /\ Creating(p) => q = p
             /\ \A q \in Request : Creating(q) => Overrides = {}

LEMMA SingleInit == ASSUME Init PROVE Single
<1>1. \A q \in Request : ~Creating(q) BY DEF Init, Creating, NoRequest
<1>2. ASSUME ~doubled PROVE \A o, p \in Overrides : o = p
  <2>1. focus.rows \in 0..1
    <3>1. focus \in Focus /\ doubled = (focus.rows = 2) BY DEF Init
    <3>2. focus.rows \in 0..2 BY <3>1, FocusAssumption
    <3>3. focus.rows # 2 BY <1>2, <3>1, Zenon
    <3> QED BY <3>2, <3>3
  <2>2. Overrides \subseteq {1} BY <2>1 DEF Init, Overrides, OverrideRow
  <2> QED BY <2>2
<1> QED BY <1>1, <1>2 DEF Single

LEMMA SingleStay ==
  ASSUME Single, doubled' = doubled, Overrides' \subseteq Overrides,
         \A q \in Request : Creating(q)' => Creating(q)
  PROVE  Single'
BY DEF Single

LEMMA SingleNext == ASSUME IInv, Single, [Next]_vars PROVE Single'
<1>1. CASE \E q \in Request : FindOverride(q)
  <2>1. PICK q \in Request : FindOverride(q) BY <1>1
  <2>2. PICK new \in RequestRow :
          /\ requests' = [requests EXCEPT ![q] = new]
          /\ new.row = NoRule <=> Overrides = {}
          /\ doubled' = (doubled \/ (new.row = NoRule /\ \E p \in Request \ {q} : Creating(p)))
    BY <2>1, FindWrites
  <2>3. overrides' = overrides BY <2>1, FindWrites
  <2>4. Overrides' = Overrides BY <2>3 DEF Overrides
  <2>5. \A p \in Request \ {q} : Creating(p)' <=> Creating(p)
    BY <2>2, TypesNow DEF Creating
  <2>6. Creating(q)' => Overrides = {} BY <2>2, TypesNow DEF Creating
  <2>7. Creating(q)' => new.row = NoRule BY <2>2, TypesNow DEF Creating
  <2> QED BY <2>2, <2>4, <2>5, <2>6, <2>7 DEF Single
<1>2. CASE \E q \in Request : WriteOverride(q)
  <2>1. PICK q \in Request : WriteOverride(q) BY <1>2
  <2>2. /\ doubled' = doubled /\ ~Creating(q)'
        /\ \A p \in Request \ {q} : Creating(p)' <=> Creating(p)
    BY <2>1, WriteWrites, TypesNow DEF Creating, NoRequest
  <2>3. CASE Overrides' = Overrides BY <2>2, <2>3, SingleStay
  <2>4. CASE Creating(q) /\ \E o \in OverrideRow : Overrides' = Overrides \cup {o}
    BY <2>2, <2>4 DEF Single
  <2> QED BY <2>1, <2>3, <2>4, WriteWrites
<1>3. CASE \E q \in Request : ToggleOverride(q) \/ PostOverride(q)
  <2>1. PICK q \in Request : \E k \in {"toggle", "keep", "set"} : \E value : Begin(q, k, value)
    BY <1>3 DEF ToggleOverride, PostOverride
  <2>2. UNCHANGED <<overrides, doubled>> BY <2>1 DEF Begin, rowVars
  <2>3. \A p \in Request : Creating(p)' => Creating(p) BY <2>1, TypesNow DEF Begin, Creating
  <2>4. Overrides' = Overrides BY <2>2 DEF Overrides
  <2> QED BY <2>2, <2>3, <2>4, SingleStay
<1>4. CASE \E o \in OverrideRow : DeleteOverride(o)
  <2>1. PICK o \in OverrideRow : DeleteOverride(o) BY <1>4
  <2>2. UNCHANGED <<requests, doubled>> /\ Overrides' \subseteq Overrides BY <2>1, DeletedRow
  <2>3. \A p \in Request : Creating(p)' => Creating(p) BY <2>2 DEF Creating
  <2> QED BY <2>2, <2>3, SingleStay
<1>5. CASE ServerRestart
  <2>1. UNCHANGED <<overrides, doubled>> BY <1>5 DEF ServerRestart, rowVars
  <2>2. \A p \in Request : Creating(p)' => Creating(p)
    BY <1>5 DEF ServerRestart, Creating, NoRequest
  <2>3. Overrides' = Overrides BY <2>1 DEF Overrides
  <2> QED BY <2>1, <2>2, <2>3, SingleStay
<1>6. CASE UNCHANGED <<overrides, requests, doubled>>
  <2>1. Overrides' = Overrides BY <1>6 DEF Overrides
  <2>2. \A p \in Request : Creating(p)' => Creating(p) BY <1>6 DEF Creating
  <2> QED BY <1>6, <2>1, <2>2, SingleStay
<1> QED BY <1>1, <1>2, <1>3, <1>4, <1>5, <1>6 DEF Next, vars, ruleVars, rowVars, Measure, EvalStep,
      EvalRead, EvalLookup, EvalTriggered, EvalNormal, EvalCrash, EvalStale, Remediated,
      Administration, SetGeneral, Acknowledge, CloseAlert, SetStatus

\* As long as no two requests each found no row and created one, the customer has one row of the
\* rule at most, however requests, deletions and restarts interleave; and unless the customer's
\* rows disagree, the dashboard shows the rule as enabled exactly when the evaluator applies it:
\* the two derive it from the rows by different code.
THEOREM RuleShownIsApplied == Spec => []ShownIsApplied
<1>1. IInv /\ Single => ShownIsApplied
  <2> SUFFICES ASSUME IInv, Single PROVE ShownIsApplied OBVIOUS
  <2>1. ASSUME ~doubled PROVE Cardinality(Overrides) <= 1
    <3>1. \A o, p \in Overrides : o = p BY <2>1 DEF Single
    <3>2. CASE Overrides = {}
      <4>1. Cardinality({}) = 0 BY FS_EmptySet
      <4> QED BY <3>2, <4>1
    <3>3. CASE Overrides # {}
      <4>1. PICK o \in Overrides : Overrides = {o} BY <3>1, <3>3
      <4>2. Cardinality({o}) = 1 BY FS_Singleton
      <4> QED BY <4>1, <4>2
    <3> QED BY <3>2, <3>3
  <2>2. ASSUME \A o, p \in Overrides : Enabled(o) = Enabled(p), NEW shown \in Last, NEW last \in Last
        PROVE  ShownEnabled(shown) <=> EffectiveRule(last) # {}
    <3>1. \A o \in Overrides : o # General BY DEF Overrides, OverrideRow, General
    <3>2. general \in BOOLEAN /\ \A o \in Overrides : Enabled(o) = (overrides[o] = "on")
      BY <3>1, TypesNow DEF Enabled
    <3>3. CASE Overrides = {}
      <4>1. shown = General /\ last = General BY <3>3 DEF Last
      <4>2. Enabled(General) = general BY DEF Enabled
      <4> QED BY <3>2, <3>3, <4>1, <4>2 DEF ShownEnabled, EffectiveRule
    <3>4. CASE Overrides # {}
      <4>1. shown \in Overrides /\ last \in Overrides BY <3>4 DEF Last
      <4>2. Enabled(shown) = Enabled(last) /\ \A o \in Overrides : Enabled(o) = Enabled(last)
        BY <2>2, <4>1
      <4>3. Enabled(last) \in BOOLEAN BY <3>2, <4>1
      <4>4. general => EffectiveRule(last) = {r \in {last} : Enabled(r)} BY DEF EffectiveRule
      <4>5. ~general => EffectiveRule(last) = {o \in Overrides : Enabled(o)} BY DEF EffectiveRule
      <4> QED BY <3>2, <4>1, <4>2, <4>3, <4>4, <4>5 DEF ShownEnabled
    <3> QED BY <3>3, <3>4
  <2> QED BY <2>1, <2>2 DEF ShownIsApplied
<1>2. Init => IInv /\ Single BY InitIInv, SingleInit
<1>3. IInv /\ Single /\ [Next]_vars => IInv' /\ Single' BY NextIInv, SingleNext
<1> QED BY <1>1, <1>2, <1>3, PTL DEF Spec

-----------------------------------------------------------------------------
(* No more duplicates than evaluations that overlap                         *)
(*                                                                         *)
(* The evaluations that are about to create an alert of a row and a         *)
(* subject, because they looked when there was none, are counted with the   *)
(* alerts that are there.  A lookup is counted only when it found nothing,  *)
(* so that the alerts there were are gone; what it creates later takes its  *)
(* place in the sum.  The alert without a signature needs a place of its    *)
(* own: an evaluation that has seen it with one writes that one back.       *)

Acts(v, r, s) ==
  /\ evals[v].phase = "act" /\ evals[v].rule = r
  /\ kind = "APP_CRASH" => evals[v].seen[s] = "beyond"
Nothing(v, s) == IF kind = "APP_CRASH" THEN OwnAlerts(v, s) = {} ELSE evals[v].active = {}
Without(r, s) == {v \in Evaluator : Acts(v, r, s) /\ Nothing(v, s)}

Counted(a, r, s) == IsActive(a) /\ alerts[a].subject = s /\ alerts[a].rule = r
Held(r, s) ==
  kind = "APP_CRASH" /\ \E v \in Evaluator : Acts(v, r, s) /\ 1 \in OwnAlerts(v, s)
Claims(r, s) == {a \in Alert \ reopened : Counted(a, r, s) \/ (a = 1 /\ Held(r, s))}

Quota(r, s) == Cardinality(Claims(r, s)) + Cardinality(Without(r, s)) <= Cardinality(Evaluator)
QuotasOK == \A r \in RuleRow, s \in Subjects : Quota(r, s)

\* A copy names the row the alert still has, unless that row was deleted; only
\* the alert without a signature can be given another subject.
CopyTrue(c) ==
  /\ alerts[c.id].rule \in {c.rule, NoRule}
  /\ (kind = "APP_CRASH" /\ c.id # 1) => c.subject = alerts[c.id].subject
CopiesTrue == \A v \in Evaluator : \A c \in evals[v].active : CopyTrue(c)
OneLegacy ==
  kind = "APP_CRASH" =>
    \A a \in Alert : (Known(a) /\ alerts[a].subject = NoSignature) => a = 1

BInv == IInv /\ CopiesTrue /\ OneLegacy /\ QuotasOK

\* What a step does to the rows: none loses its rule but by its deletion.
RowsKept ==
  /\ kind' = kind
  /\ \A a \in Alert : Known(a) =>
       /\ alerts'[a].rule \in {alerts[a].rule, NoRule}
       /\ (kind = "APP_CRASH" /\ a # 1) => alerts'[a].subject = alerts[a].subject
  /\ \A a \in Alert : (~Known(a) /\ Known(a)' /\ kind = "APP_CRASH")
                          => alerts'[a].subject # NoSignature

\* What a step does to the evaluations, apart from a lookup.
EvalsNarrow ==
  \A v \in Evaluator :
    /\ evals'[v].active \subseteq evals[v].active
    /\ (evals'[v].phase = "act") =>
         /\ evals[v].phase = "act" /\ evals'[v].rule = evals[v].rule
         /\ evals'[v].active = evals[v].active
         /\ \A s \in Subject : (evals'[v].seen[s] = "beyond") => evals[v].seen[s] = "beyond"

LEMMA LegacyKept == ASSUME OneLegacy, RowsKept PROVE OneLegacy'
BY DEF OneLegacy, RowsKept

LEMMA CopiesKept == ASSUME BInv, RowsKept, EvalsNarrow PROVE CopiesTrue'
<1> SUFFICES ASSUME NEW v \in Evaluator, NEW c \in evals'[v].active PROVE CopyTrue(c)'
  BY DEF CopiesTrue
<1>1. c \in evals[v].active BY DEF EvalsNarrow
<1>2. c.id \in Alert /\ c \in Copy BY <1>1, HeldIsAlert, TypesNow DEF BInv
<1>3. Known(c.id) BY <1>1, Parts DEF EvalLinks, BInv
<1>4. CopyTrue(c) BY <1>1 DEF BInv, CopiesTrue
<1> QED BY <1>2, <1>3, <1>4 DEF CopyTrue, RowsKept

LEMMA ActsBefore ==
  ASSUME kind' = kind, EvalsNarrow, NEW v \in Evaluator, NEW r, NEW s \in Subject, Acts(v, r, s)'
  PROVE  /\ Acts(v, r, s) /\ evals'[v].active = evals[v].active
         /\ OwnAlerts(v, s)' = OwnAlerts(v, s) /\ (Nothing(v, s)' <=> Nothing(v, s))
<1>1. /\ evals'[v].phase = "act" /\ evals'[v].rule = r
      /\ kind = "APP_CRASH" => evals'[v].seen[s] = "beyond"
  BY DEF Acts
<1>2. /\ evals[v].phase = "act" /\ evals'[v].rule = evals[v].rule
      /\ evals'[v].active = evals[v].active
      /\ (evals'[v].seen[s] = "beyond") => evals[v].seen[s] = "beyond"
  BY <1>1 DEF EvalsNarrow
<1>3. OwnAlerts(v, s)' = OwnAlerts(v, s) BY <1>2 DEF OwnAlerts, Mine
<1>4. Acts(v, r, s) BY <1>1, <1>2 DEF Acts
<1> QED BY <1>2, <1>3, <1>4 DEF Nothing

LEMMA WithoutNarrows ==
  ASSUME kind' = kind, EvalsNarrow, NEW r, NEW s \in Subject
  PROVE  Without(r, s)' \subseteq Without(r, s) /\ (Held(r, s)' => Held(r, s))
<1>1. ASSUME NEW v \in Without(r, s)' PROVE v \in Without(r, s)
  <2>1. v \in Evaluator /\ Acts(v, r, s)' /\ Nothing(v, s)' BY <1>1 DEF Without
  <2>2. Acts(v, r, s) /\ Nothing(v, s) BY <2>1, ActsBefore
  <2> QED BY <2>1, <2>2 DEF Without
<1>2. ASSUME Held(r, s)' PROVE Held(r, s)
  <2>1. PICK v \in Evaluator : Acts(v, r, s)' /\ 1 \in OwnAlerts(v, s)' BY <1>2 DEF Held
  <2>2. Acts(v, r, s) /\ 1 \in OwnAlerts(v, s) BY <2>1, ActsBefore
  <2> QED BY <1>2, <2>2 DEF Held
<1> QED BY <1>1, <1>2

LEMMA Finite ==
  ASSUME NEW r, NEW s
  PROVE  /\ IsFiniteSet(Claims(r, s)) /\ IsFiniteSet(Without(r, s))
         /\ IsFiniteSet(Claims(r, s)') /\ IsFiniteSet(Without(r, s)')
         /\ IsFiniteSet(Evaluator)
<1>1. IsFiniteSet(Alert) /\ IsFiniteSet(Evaluator)
  BY FS_Interval, EvaluatorAssumption, LimitsAssumption DEF Alert
<1>2. /\ Claims(r, s) \subseteq Alert /\ Claims(r, s)' \subseteq Alert
      /\ Without(r, s) \subseteq Evaluator /\ Without(r, s)' \subseteq Evaluator
  BY DEF Claims, Without
<1> QED BY <1>1, <1>2, FS_Subset

LEMMA Shrinks ==
  ASSUME NEW r, NEW s, Quota(r, s),
         Claims(r, s)' \subseteq Claims(r, s), Without(r, s)' \subseteq Without(r, s)
  PROVE  Quota(r, s)'
<1>1. /\ Cardinality(Claims(r, s)') <= Cardinality(Claims(r, s))
      /\ Cardinality(Without(r, s)') <= Cardinality(Without(r, s))
  BY Finite, FS_Subset
<1>2. /\ Cardinality(Claims(r, s)') \in Nat /\ Cardinality(Claims(r, s)) \in Nat
      /\ Cardinality(Without(r, s)') \in Nat /\ Cardinality(Without(r, s)) \in Nat
      /\ Cardinality(Evaluator) \in Nat
  BY Finite, FS_CardinalityType
<1>3. Cardinality(Claims(r, s)') + Cardinality(Without(r, s)') <= Cardinality(Evaluator)
  BY <1>1, <1>2 DEF Quota
<1> QED BY <1>3 DEF Quota

LEMMA Trades ==
  ASSUME NEW r, NEW s, Quota(r, s), NEW a, NEW v \in Without(r, s),
         Claims(r, s)' \subseteq Claims(r, s) \cup {a},
         Without(r, s)' \subseteq Without(r, s) \ {v}
  PROVE  Quota(r, s)'
<1>1. /\ IsFiniteSet(Claims(r, s) \cup {a})
      /\ Cardinality(Claims(r, s) \cup {a}) <= Cardinality(Claims(r, s)) + 1
  <2>1. /\ IsFiniteSet(Claims(r, s) \cup {a})
        /\ Cardinality(Claims(r, s) \cup {a}) =
             IF a \in Claims(r, s) THEN Cardinality(Claims(r, s)) ELSE Cardinality(Claims(r, s)) + 1
    BY Finite, FS_AddElement
  <2>2. Cardinality(Claims(r, s)) \in Nat BY Finite, FS_CardinalityType
  <2> QED BY <2>1, <2>2
<1>2. /\ IsFiniteSet(Without(r, s) \ {v})
      /\ Cardinality(Without(r, s) \ {v}) = Cardinality(Without(r, s)) - 1
  BY Finite, FS_RemoveElement
<1>3. /\ Cardinality(Claims(r, s)') <= Cardinality(Claims(r, s) \cup {a})
      /\ Cardinality(Without(r, s)') <= Cardinality(Without(r, s) \ {v})
  BY <1>1, <1>2, Finite, FS_Subset
<1>4. /\ Cardinality(Claims(r, s)') \in Nat /\ Cardinality(Claims(r, s)) \in Nat
      /\ Cardinality(Without(r, s)') \in Nat /\ Cardinality(Without(r, s)) \in Nat
      /\ Cardinality(Claims(r, s) \cup {a}) \in Nat
      /\ Cardinality(Without(r, s) \ {v}) \in Nat /\ Cardinality(Evaluator) \in Nat
  BY <1>1, <1>2, Finite, FS_CardinalityType
<1>5. Cardinality(Claims(r, s)') + Cardinality(Without(r, s)') <= Cardinality(Evaluator)
  BY <1>1, <1>2, <1>3, <1>4 DEF Quota
<1> QED BY <1>5 DEF Quota

\* A step by which no alert of this row and subject becomes active.
AlertsNarrow(r, s) ==
  /\ reopened \subseteq reopened'
  /\ \A a \in Alert : (Counted(a, r, s)' /\ a \notin reopened')
                        => (Counted(a, r, s) \/ (a = 1 /\ Held(r, s)))

LEMMA Narrowing ==
  ASSUME kind' = kind, EvalsNarrow, NEW r, NEW s \in Subject, AlertsNarrow(r, s), Quota(r, s)
  PROVE  Quota(r, s)'
<1>1. Without(r, s)' \subseteq Without(r, s) /\ (Held(r, s)' => Held(r, s)) BY WithoutNarrows
<1>2. Claims(r, s)' \subseteq Claims(r, s)
  <2> SUFFICES ASSUME NEW a \in Claims(r, s)' PROVE a \in Claims(r, s) OBVIOUS
  <2>1. a \in Alert /\ a \notin reopened' /\ (Counted(a, r, s)' \/ (a = 1 /\ Held(r, s)'))
    BY DEF Claims
  <2>2. a \notin reopened BY <2>1 DEF AlertsNarrow
  <2>3. Counted(a, r, s) \/ (a = 1 /\ Held(r, s)) BY <1>1, <2>1 DEF AlertsNarrow
  <2> QED BY <2>1, <2>2, <2>3 DEF Claims
<1> QED BY <1>1, <1>2, Shrinks

\* A step by which one evaluation that has found none activates one.
LEMMA Trading ==
  ASSUME kind' = kind, EvalsNarrow, NEW r, NEW s \in Subject, Quota(r, s), NEW a,
         NEW v \in Without(r, s), v \notin Without(r, s)', reopened \subseteq reopened',
         \A b \in Alert : (Counted(b, r, s)' /\ b # a) => Counted(b, r, s)
  PROVE  Quota(r, s)'
<1>1. Without(r, s)' \subseteq Without(r, s) /\ (Held(r, s)' => Held(r, s)) BY WithoutNarrows
<1>2. Claims(r, s)' \subseteq Claims(r, s) \cup {a}
  <2> SUFFICES ASSUME NEW b \in Claims(r, s)', b # a PROVE b \in Claims(r, s) OBVIOUS
  <2>1. b \in Alert /\ b \notin reopened' /\ (Counted(b, r, s)' \/ (b = 1 /\ Held(r, s)'))
    BY DEF Claims
  <2> QED BY <1>1, <2>1 DEF Claims
<1>3. Without(r, s)' \subseteq Without(r, s) \ {v} BY <1>1
<1> QED BY <1>2, <1>3, Trades

LEMMA BTogether ==
  ASSUME BInv, IInv', RowsKept, EvalsNarrow, \A r \in RuleRow, s \in Subjects : Quota(r, s)'
  PROVE  BInv'
<1>1. OneLegacy' BY LegacyKept DEF BInv
<1>2. CopiesTrue' BY CopiesKept
<1>3. Subjects' = Subjects BY DEF Subjects, RowsKept
<1>4. QuotasOK' BY <1>3 DEF QuotasOK
<1> QED BY <1>1, <1>2, <1>4 DEF BInv

LEMMA SubjectsTyped == Subjects \subseteq Subject BY DEF Subjects, Subject

\* Steps after which no alert is active that was not.
LEMMA NarrowStep ==
  ASSUME BInv, IInv', RowsKept, EvalsNarrow,
         \A r \in RuleRow, s \in Subject : AlertsNarrow(r, s)
  PROVE  BInv'
<1>1. kind' = kind BY DEF RowsKept
<1>2. ASSUME NEW r \in RuleRow, NEW s \in Subjects PROVE Quota(r, s)'
  <2>1. Quota(r, s) /\ s \in Subject BY SubjectsTyped DEF BInv, QuotasOK
  <2>2. AlertsNarrow(r, s) BY <2>1
  <2> QED BY <1>1, <2>1, <2>2, Narrowing
<1> QED BY <1>2, BTogether

LEMMA EvalsSame == ASSUME evals' = evals PROVE EvalsNarrow
BY DEF EvalsNarrow

\* An evaluation that ends, or begins.
LEMMA EvalsOut ==
  ASSUME IInv, NEW v \in Evaluator, NEW new, EvalBecomes(v, new), new.phase # "act", new.active = {}
  PROVE  EvalsNarrow
<1> SUFFICES ASSUME NEW u \in Evaluator
             PROVE  /\ evals'[u].active \subseteq evals[u].active
                    /\ (evals'[u].phase = "act") =>
                         /\ evals[u].phase = "act" /\ evals'[u].rule = evals[u].rule
                         /\ evals'[u].active = evals[u].active
                         /\ \A s \in Subject : (evals'[u].seen[s] = "beyond")
                                                 => evals[u].seen[s] = "beyond"
  BY DEF EvalsNarrow
<1>1. CASE u = v BY <1>1 DEF EvalBecomes
<1>2. CASE u # v
  <2>1. evals'[u] = evals[u] BY <1>2 DEF EvalBecomes
  <2> QED BY <2>1
<1> QED BY <1>1, <1>2

LEMMA EvalsEndNarrow == ASSUME IInv, NEW v \in Evaluator, EvalEnds(v) PROVE EvalsNarrow
BY EvalEnded, EvalsOut, EmptyTypes, TypesNow

LEMMA RowsSame ==
  ASSUME UNCHANGED <<kind, alerts, reopened>>
  PROVE  /\ RowsKept
         /\ \A r \in RuleRow, s \in Subject : AlertsNarrow(r, s)
<1>1. RowsKept BY DEF RowsKept, Known
<1>2. \A r \in RuleRow, s \in Subject : AlertsNarrow(r, s)
  BY DEF AlertsNarrow, Counted, IsActive
<1> QED BY <1>1, <1>2

\* Statuses are written; what becomes active again is acknowledged after its end.
LEMMA RowsStatus ==
  ASSUME NEW S, StatusesWritten(S), kind' = kind, reopened \subseteq reopened',
         \A a \in Alert : (IsActive(a)' /\ a \notin reopened') => IsActive(a)
  PROVE  /\ RowsKept
         /\ \A r \in RuleRow, s \in Subject : AlertsNarrow(r, s)
<1>1. RowsKept
  <2>1. \A a \in Alert : alerts'[a].rule = alerts[a].rule /\ alerts'[a].subject = alerts[a].subject
    BY DEF StatusesWritten
  <2>2. \A a \in Alert : Known(a)' => Known(a) BY DEF StatusesWritten, Known
  <2> QED BY <2>1, <2>2 DEF RowsKept
<1>2. ASSUME NEW r \in RuleRow, NEW s \in Subject PROVE AlertsNarrow(r, s)
  <2> SUFFICES ASSUME NEW a \in Alert, Counted(a, r, s)', a \notin reopened'
               PROVE  Counted(a, r, s)
    BY DEF AlertsNarrow
  <2>1. IsActive(a)' /\ alerts'[a].subject = s /\ alerts'[a].rule = r BY DEF Counted
  <2>2. IsActive(a) BY <2>1
  <2>3. alerts'[a].rule = alerts[a].rule /\ alerts'[a].subject = alerts[a].subject
    BY DEF StatusesWritten
  <2> QED BY <2>1, <2>2, <2>3 DEF Counted
<1> QED BY <1>1, <1>2

LEMMA MeasureBInv == ASSUME BInv, IInv', NEW s \in Subject, Measure(s) PROVE BInv'
BY RowsSame, EvalsSame, NarrowStep DEF Measure

LEMMA EvalReadBInv == ASSUME BInv, IInv', NEW v \in Evaluator, EvalRead(v) PROVE BInv'
<1>1. PICK r \in UNION {EffectiveRule(last) : last \in Last} :
        evals' = [evals EXCEPT ![v] = [NoEval EXCEPT !.phase = "lookup", !.rule = r,
                                                     !.seen = reading]]
  BY DEF EvalRead
<1> DEFINE new == [NoEval EXCEPT !.phase = "lookup", !.rule = r, !.seen = reading]
<1>2. IInv /\ TypeOK BY TypesNow DEF BInv
<1>3. r \in RuleRow BY <1>1 DEF EffectiveRule, RuleRow, Last, Overrides
<1>4. new \in EvalRow /\ new.phase = "lookup" /\ new.active = {}
  BY <1>2, <1>3, EmptyTypes, TypesNow DEF EvalRow
<1>5. EvalBecomes(v, new) BY <1>1, <1>2, <1>4, EvalWritten
<1> HIDE DEF new
<1>6. EvalsNarrow BY <1>2, <1>4, <1>5, EvalsOut
<1> QED BY <1>6, RowsSame, NarrowStep DEF EvalRead

\* Resolving, whatever was found.
LEMMA ResolvingBInv ==
  ASSUME BInv, IInv', NEW S, \A a \in S : Known(a), alerts' = Resolve(S), EvalsNarrow,
         UNCHANGED <<kind, reopened>>
  PROVE  BInv'
<1>1. /\ StatusesWritten(S)
      /\ \A a \in Alert : alerts'[a].status \in Active => alerts[a].status \in Active
  BY ResolveWrites, TypesNow DEF BInv
<1>2. \A a \in Alert : IsActive(a)' => IsActive(a) BY <1>1 DEF IsActive
<1> QED BY <1>1, <1>2, RowsStatus, NarrowStep

LEMMA EvalNormalBInv == ASSUME BInv, IInv', NEW v \in Evaluator, EvalNormal(v) PROVE BInv'
<1>1. UNCHANGED <<kind, reopened>> /\ EvalEnds(v) BY DEF EvalNormal
<1>2. IInv BY DEF BInv
<1>3. EvalsNarrow BY <1>1, <1>2, EvalsEndNarrow
<1>4. CASE CanAutoHeal
  <2> DEFINE S == {c.id : c \in Existing(v)}
  <2>1. alerts' = Resolve(S) BY <1>4 DEF EvalNormal
  <2>2. \A a \in S : Known(a)
    <3>1. EvalLinks(v) BY <1>2, Parts
    <3>2. Existing(v) \subseteq evals[v].active BY DEF Existing
    <3> QED BY <3>1, <3>2 DEF EvalLinks
  <2> HIDE DEF S
  <2> QED BY <1>1, <1>3, <2>1, <2>2, ResolvingBInv
<1>5. CASE ~CanAutoHeal
  <2>1. alerts' = alerts BY <1>5 DEF EvalNormal
  <2> QED BY <1>1, <1>3, <2>1, RowsSame, NarrowStep
<1> QED BY <1>4, <1>5

LEMMA EvalStaleBInv == ASSUME BInv, IInv', NEW v \in Evaluator, EvalStale(v) PROVE BInv'
<1>1. UNCHANGED <<kind, reopened>> /\ EvalEnds(v) BY DEF EvalStale
<1>2. IInv BY DEF BInv
<1>3. EvalsNarrow BY <1>1, <1>2, EvalsEndNarrow
<1> DEFINE S == {c.id : c \in Mine(v)} \ evals[v].matched
<1>4. alerts' = Resolve(S) BY DEF EvalStale
<1>5. \A a \in S : Known(a)
  <2>1. EvalLinks(v) BY <1>2, Parts
  <2> QED BY <2>1 DEF EvalLinks, Mine
<1> HIDE DEF S
<1> QED BY <1>1, <1>3, <1>4, <1>5, ResolvingBInv

LEMMA RemediatedBInv == ASSUME BInv, IInv', NEW a \in Alert, Remediated(a) PROVE BInv'
<1>1. UNCHANGED <<kind, reopened>> /\ evals' = evals BY DEF Remediated
<1>2. alerts' = Resolve({a}) /\ \A b \in {a} : Known(b) BY DEF Remediated, Known
<1> QED BY <1>1, <1>2, EvalsSame, ResolvingBInv

LEMMA AcknowledgeBInv == ASSUME BInv, IInv', NEW a \in Alert, Acknowledge(a) PROVE BInv'
<1>1. /\ StatusesWritten({a}) /\ UNCHANGED <<kind, evals>>
  BY SetStatusWrites DEF Acknowledge, BInv, Active
<1>2. reopened' = IF IsActive(a) THEN reopened ELSE reopened \cup {a} BY DEF Acknowledge
<1>3. \A b \in Alert : b # a => alerts'[b].status = alerts[b].status
  BY <1>1 DEF StatusesWritten
<1>4. \A b \in Alert : (IsActive(b)' /\ b \notin reopened') => IsActive(b)
  BY <1>2, <1>3 DEF IsActive
<1> QED BY <1>1, <1>2, <1>4, RowsStatus, EvalsSame, NarrowStep

LEMMA CloseAlertBInv == ASSUME BInv, IInv', NEW a \in Alert, CloseAlert(a) PROVE BInv'
<1>1. PICK status \in Closed : SetStatus(a, status) BY DEF CloseAlert
<1>2. status \in Active \cup Closed /\ status \notin Active BY DEF Closed, Active
<1>3. StatusesWritten({a}) /\ UNCHANGED <<kind, evals>> /\ alerts'[a].status = status
  BY <1>1, <1>2, SetStatusWrites DEF BInv
<1>4. reopened' = reopened BY DEF CloseAlert
<1>5. \A b \in Alert : b # a => alerts'[b].status = alerts[b].status
  BY <1>3 DEF StatusesWritten
<1>6. \A b \in Alert : IsActive(b)' => IsActive(b) BY <1>2, <1>3, <1>5 DEF IsActive
<1> QED BY <1>3, <1>4, <1>6, RowsStatus, EvalsSame, NarrowStep

LEMMA DeleteOverrideBInv ==
  ASSUME BInv, IInv', NEW o \in OverrideRow, DeleteOverride(o) PROVE BInv'
<1>1. RulesForgotten(o) BY DeleteWrites DEF BInv
<1>2. UNCHANGED <<kind, evals, reopened>> BY DEF DeleteOverride
<1>3. RowsKept
  <2>1. \A a \in Alert : Known(a)' => Known(a) BY <1>1 DEF RulesForgotten, Known
  <2> QED BY <1>1, <1>2, <2>1 DEF RowsKept, RulesForgotten
<1>4. ASSUME NEW r \in RuleRow, NEW s \in Subject PROVE AlertsNarrow(r, s)
  <2> SUFFICES ASSUME NEW a \in Alert, Counted(a, r, s)' PROVE Counted(a, r, s)
    BY <1>2 DEF AlertsNarrow
  <2>1. alerts'[a].status \in Active /\ alerts'[a].subject = s /\ alerts'[a].rule = r
    BY DEF Counted, IsActive
  <2>2. r # NoRule BY DEF RuleRow, NoRule, General, OverrideRow
  <2>3. alerts[a].rule = r BY <1>1, <2>1, <2>2 DEF RulesForgotten
  <2> QED BY <1>1, <2>1, <2>3 DEF RulesForgotten, Counted, IsActive
<1> QED BY <1>2, <1>3, <1>4, EvalsSame, NarrowStep

LEMMA ServerRestartBInv == ASSUME BInv, IInv', ServerRestart PROVE BInv'
<1>1. evals' = [v \in Evaluator |-> NoEval] BY DEF ServerRestart
<1>2. EvalsNarrow BY <1>1, EmptyTypes DEF EvalsNarrow
<1> QED BY <1>2, RowsSame, NarrowStep DEF ServerRestart

LEMMA RulesBInv ==
  ASSUME BInv, IInv', UNCHANGED <<kind, alerts, evals, reopened>>
  PROVE  BInv'
BY RowsSame, EvalsSame, NarrowStep

\* Of the alerts that are found one is the newest.
LEMMA NewestFound ==
  ASSUME NEW S \in SUBSET Copy, S # {}
  PROVE  \E c \in S : \A d \in S : d.id <= c.id
<1> DEFINE T == {n \in Nat : \E c \in S : n = MaxAlerts - c.id}
           R == OpToRel(<, Nat)
<1>1. \A c \in S : c.id \in Nat /\ MaxAlerts - c.id \in Nat
  BY LimitsAssumption DEF Copy, Alert
<1>2. T \subseteq Nat /\ T # {} BY <1>1
<1>3. IsWellFoundedOn(R, Nat) BY NatLessThanWellFounded
<1>4. PICK n \in T : \A k \in T : ~(<<k, n>> \in R) BY <1>2, <1>3, WFMin, Zenon
<1>5. \A k \in T : n <= k
  <2>1. \A k \in T : k < n => <<k, n>> \in R BY <1>2 DEF OpToRel
  <2>2. \A k \in T : ~(k < n) BY <1>4, <2>1, Zenon
  <2> HIDE DEF T, R
  <2> QED BY <1>2, <2>2
<1>6. PICK c \in S : n = MaxAlerts - c.id OBVIOUS
<1>7. \A d \in S : d.id <= c.id BY <1>1, <1>5, <1>6, LimitsAssumption
<1> QED BY <1>7

LEMMA NothingFound ==
  ASSUME TypeOK, NEW v \in Evaluator, Existing(v) = {}
  PROVE  evals[v].active = {}
<1> SUFFICES ASSUME evals[v].active # {} PROVE FALSE OBVIOUS
<1> DEFINE byRule == {c \in evals[v].active : c.rule = evals[v].rule}
           found == IF byRule # {} THEN byRule ELSE evals[v].active
<1>1. evals[v].active \in SUBSET Copy
  <2>1. evals[v] \in EvalRow BY DEF TypeOK
  <2> QED BY <2>1 DEF EvalRow
<1>2. found \in SUBSET Copy /\ found # {} BY <1>1
<1>3. PICK c \in found : \A d \in found : d.id <= c.id
  <2> HIDE DEF found
  <2> QED BY <1>2, NewestFound
<1>4. CASE byRule # {}
  <2>1. c \in byRule /\ \A d \in byRule : d.id <= c.id BY <1>3, <1>4
  <2>2. c \in Existing(v) BY <1>4, <2>1 DEF Existing
  <2> QED BY <2>2
<1>5. CASE byRule = {}
  <2>1. c \in evals[v].active /\ \A d \in evals[v].active : d.id <= c.id BY <1>3, <1>5
  <2>2. c \in Existing(v) BY <1>5, <2>1 DEF Existing
  <2> QED BY <2>2
<1> QED BY <1>4, <1>5

\* A lookup that finds none leaves room for whoever found none; one that finds
\* some copies what is counted already.
LEMMA LookupQuota ==
  ASSUME BInv, NEW v \in Evaluator, EvalLookup(v), NEW r \in RuleRow, NEW s \in Subject,
         Quota(r, s), kind # "APP_CRASH" => s = NoSignature
  PROVE  Quota(r, s)'
<1>1. IInv BY DEF BInv
<1>2. UNCHANGED <<kind, alerts, reopened>> BY DEF EvalLookup
<1>3. PICK new \in EvalRow :
        /\ EvalBecomes(v, new) /\ new.phase = "act"
        /\ new.active = {CopyOf(a) : a \in ActiveAlerts}
  BY <1>1, LookedUp
<1>4. \A a \in Alert : Counted(a, r, s)' <=> Counted(a, r, s)
  BY <1>2 DEF Counted, IsActive
<1>5. \A u \in Evaluator : u # v => evals'[u] = evals[u] BY <1>3 DEF EvalBecomes
<1>6. ASSUME NEW u \in Evaluator, u # v
      PROVE  /\ Acts(u, r, s)' <=> Acts(u, r, s)
             /\ OwnAlerts(u, s)' = OwnAlerts(u, s) /\ (Nothing(u, s)' <=> Nothing(u, s))
  BY <1>2, <1>5, <1>6 DEF Acts, OwnAlerts, Mine, Nothing
<1>7. evals'[v].active = {CopyOf(a) : a \in ActiveAlerts} BY <1>3 DEF EvalBecomes
<1>8. ASSUME Acts(v, r, s)'
      PROVE  \A a \in Alert : Counted(a, r, s) <=> a \in OwnAlerts(v, s)'
  <2>1. evals'[v].rule = r BY <1>8 DEF Acts
  <2>2. OwnAlerts(v, s)' = {c.id : c \in {d \in {e \in evals'[v].active : e.rule = r} : d.subject = s}}
    BY <2>1 DEF OwnAlerts, Mine
  <2>3. ASSUME NEW a \in Alert, Counted(a, r, s) PROVE a \in OwnAlerts(v, s)'
    <3>1. a \in ActiveAlerts /\ alerts[a].subject = s /\ alerts[a].rule = r
      BY <2>3 DEF Counted, ActiveAlerts
    <3>2. /\ CopyOf(a) \in evals'[v].active /\ CopyOf(a).rule = r /\ CopyOf(a).subject = s
          /\ CopyOf(a).id = a
      BY <1>7, <3>1 DEF CopyOf
    <3> QED BY <2>2, <3>2
  <2>4. ASSUME NEW a \in Alert, a \in OwnAlerts(v, s)' PROVE Counted(a, r, s)
    <3>1. PICK c \in evals'[v].active : c.rule = r /\ c.subject = s /\ c.id = a
      BY <2>2, <2>4
    <3>2. PICK b \in ActiveAlerts : c = CopyOf(b) BY <1>7
    <3>3. b = a /\ alerts[b].rule = r /\ alerts[b].subject = s BY <3>1, <3>2 DEF CopyOf
    <3> QED BY <3>2, <3>3 DEF Counted, ActiveAlerts
  <2> QED BY <2>3, <2>4
<1>9. CASE v \in Without(r, s)'
  <2>1. Acts(v, r, s)' /\ Nothing(v, s)' BY <1>9 DEF Without
  <2>2. \A a \in Alert : ~Counted(a, r, s)
    <3>1. CASE kind = "APP_CRASH"
      <4>1. OwnAlerts(v, s)' = {} BY <1>2, <2>1, <3>1 DEF Nothing
      <4> QED BY <1>8, <2>1, <4>1
    <3>2. CASE kind # "APP_CRASH"
      <4>1. evals'[v].active = {} BY <1>2, <2>1, <3>2 DEF Nothing
      <4>2. ActiveAlerts = {} BY <1>7, <4>1
      <4> QED BY <4>2 DEF Counted, ActiveAlerts
    <3> QED BY <3>1, <3>2
  <2>3. CASE Held(r, s)'
    <3>1. PICK u \in Evaluator : 1 \in OwnAlerts(u, s)' BY <2>3 DEF Held
    <3>2. kind' = "APP_CRASH" BY <2>3 DEF Held
    <3>3. u \notin Without(r, s)' BY <3>1, <3>2 DEF Without, Nothing
    <3>4. Claims(r, s)' \subseteq {1} BY <1>4, <2>2 DEF Claims
    <3>5. Without(r, s)' \subseteq Evaluator \ {u} BY <3>3 DEF Without
    <3>6. /\ IsFiniteSet(Evaluator \ {u})
          /\ Cardinality(Evaluator \ {u}) = Cardinality(Evaluator) - 1
      BY Finite, FS_RemoveElement
    <3>7. IsFiniteSet({1}) /\ Cardinality({1}) = 1 BY FS_Singleton
    <3>8. /\ Cardinality(Claims(r, s)') <= 1
          /\ Cardinality(Without(r, s)') <= Cardinality(Evaluator \ {u})
      BY <3>4, <3>5, <3>6, <3>7, FS_Subset
    <3>9. /\ Cardinality(Claims(r, s)') \in Nat /\ Cardinality(Without(r, s)') \in Nat
          /\ Cardinality(Evaluator) \in Nat
      BY Finite, FS_CardinalityType
    <3>10. Cardinality(Claims(r, s)') + Cardinality(Without(r, s)') <= Cardinality(Evaluator)
      BY <3>6, <3>8, <3>9
    <3> QED BY <3>10 DEF Quota
  <2>4. CASE ~Held(r, s)'
    <3>1. Claims(r, s)' = {} BY <1>4, <2>2, <2>4 DEF Claims
    <3>2. Cardinality(Claims(r, s)') = 0 BY <3>1, FS_EmptySet
    <3>3. Without(r, s)' \subseteq Evaluator BY DEF Without
    <3>4. Cardinality(Without(r, s)') <= Cardinality(Evaluator) BY <3>3, Finite, FS_Subset
    <3>5. Cardinality(Without(r, s)') \in Nat /\ Cardinality(Evaluator) \in Nat
      BY Finite, FS_CardinalityType
    <3>6. Cardinality(Claims(r, s)') + Cardinality(Without(r, s)') <= Cardinality(Evaluator)
      BY <3>2, <3>4, <3>5
    <3> QED BY <3>6 DEF Quota
  <2> QED BY <2>3, <2>4
<1>10. CASE v \notin Without(r, s)'
  <2>1. Without(r, s)' \subseteq Without(r, s) BY <1>6, <1>10 DEF Without
  <2>2. ASSUME Held(r, s)', NEW a \in Alert, a = 1 PROVE Counted(a, r, s) \/ Held(r, s)
    <3>1. PICK u \in Evaluator : Acts(u, r, s)' /\ 1 \in OwnAlerts(u, s)'
      BY <2>2 DEF Held
    <3>2. CASE u = v BY <1>8, <2>2, <3>1, <3>2
    <3>3. CASE u # v
      <4>1. Acts(u, r, s) /\ 1 \in OwnAlerts(u, s) BY <1>6, <3>1, <3>3
      <4> QED BY <1>2, <2>2, <4>1 DEF Held
    <3> QED BY <3>2, <3>3
  <2>3. Claims(r, s)' \subseteq Claims(r, s)
    <3> SUFFICES ASSUME NEW a \in Claims(r, s)' PROVE a \in Claims(r, s) OBVIOUS
    <3>1. a \in Alert /\ a \notin reopened' /\ (Counted(a, r, s)' \/ (a = 1 /\ Held(r, s)'))
      BY DEF Claims
    <3> QED BY <1>2, <1>4, <2>2, <3>1 DEF Claims
  <2> QED BY <2>1, <2>3, Shrinks
<1> QED BY <1>9, <1>10

LEMMA EvalLookupBInv == ASSUME BInv, IInv', NEW v \in Evaluator, EvalLookup(v) PROVE BInv'
<1>1. IInv BY DEF BInv
<1>2. UNCHANGED <<kind, alerts, reopened>> BY DEF EvalLookup
<1>3. PICK new \in EvalRow :
        EvalBecomes(v, new) /\ new.active = {CopyOf(a) : a \in ActiveAlerts}
  BY <1>1, LookedUp
<1>4. OneLegacy' BY <1>2, LegacyKept, RowsSame DEF BInv
<1>5. ASSUME NEW u \in Evaluator, NEW c \in evals'[u].active PROVE CopyTrue(c)'
  <2>1. CASE u = v
    <3>1. PICK a \in ActiveAlerts : c = CopyOf(a) BY <1>3, <1>5, <2>1 DEF EvalBecomes
    <3>2. c.id = a /\ c.rule = alerts[a].rule /\ c.subject = alerts[a].subject
      BY <3>1 DEF CopyOf
    <3> QED BY <1>2, <3>2 DEF CopyTrue
  <2>2. CASE u # v
    <3>1. c \in evals[u].active BY <1>3, <1>5, <2>2 DEF EvalBecomes
    <3>2. CopyTrue(c) BY <3>1 DEF BInv, CopiesTrue
    <3> QED BY <1>2, <3>2 DEF CopyTrue
  <2> QED BY <2>1, <2>2
<1>6. CopiesTrue' BY <1>5 DEF CopiesTrue
<1>7. ASSUME NEW r \in RuleRow, NEW s \in Subjects PROVE Quota(r, s)'
  <2>1. Quota(r, s) /\ s \in Subject BY SubjectsTyped DEF BInv, QuotasOK
  <2>2. kind # "APP_CRASH" => s = NoSignature BY DEF Subjects
  <2> QED BY <2>1, <2>2, LookupQuota
<1>8. QuotasOK' BY <1>2, <1>7 DEF QuotasOK, Subjects
<1> QED BY <1>4, <1>6, <1>8 DEF BInv

\* A row that appears is not of the alert without a signature.
LEMMA OpeningRows ==
  ASSUME IInv, NEW a \in FreshAlert, NEW r \in RuleRow, NEW s \in Subject,
         kind = "APP_CRASH" => s # NoSignature,
         alerts' = [alerts EXCEPT ![a] = Opened(r, s)], UNCHANGED <<kind, reopened>>
  PROVE  /\ RowsKept
         /\ \A b \in Alert : \A q, t : (Counted(b, q, t)' /\ ~(b = a /\ q = r /\ t = s))
                                     => Counted(b, q, t)
<1>1. /\ a \in Alert /\ ~Known(a) /\ AlertBecomes(a, Opened(r, s))
      /\ Opened(r, s).rule = r /\ Opened(r, s).subject = s
  <2> DEFINE new == Opened(r, s)
  <2>1. a \in Alert /\ ~Known(a) BY DEF FreshAlert, Known
  <2>2. new \in AlertRow /\ new.rule = r /\ new.subject = s
    BY DEF Opened, AlertRow, Active
  <2>3. alerts' = [alerts EXCEPT ![a] = new] OBVIOUS
  <2> HIDE DEF new
  <2>4. AlertBecomes(a, new) BY <2>1, <2>2, <2>3, AlertWritten, TypesNow
  <2> QED BY <2>1, <2>2, <2>4 DEF new
<1>2. \A b \in Alert : b # a => alerts'[b] = alerts[b] BY <1>1 DEF AlertBecomes
<1>3. alerts'[a].rule = r /\ alerts'[a].subject = s BY <1>1 DEF AlertBecomes
<1>4. RowsKept
  <2>1. ASSUME NEW b \in Alert, Known(b)
        PROVE  /\ alerts'[b].rule \in {alerts[b].rule, NoRule}
               /\ alerts'[b].subject = alerts[b].subject
    BY <1>1, <1>2, <2>1
  <2>2. ASSUME NEW b \in Alert, ~Known(b), Known(b)', kind = "APP_CRASH"
        PROVE  alerts'[b].subject # NoSignature
    <3>1. b = a BY <1>2, <2>2 DEF Known
    <3> QED BY <1>3, <2>2, <3>1
  <2>3. kind' = kind OBVIOUS
  <2> QED BY <2>1, <2>2, <2>3 DEF RowsKept
<1>5. ASSUME NEW b \in Alert, NEW q, NEW t, Counted(b, q, t)', ~(b = a /\ q = r /\ t = s)
      PROVE  Counted(b, q, t)
  <2>1. b # a BY <1>3, <1>5 DEF Counted
  <2> QED BY <1>2, <1>5, <2>1 DEF Counted, IsActive
<1> QED BY <1>4, <1>5

\* One row and subject gets an alert from an evaluation that found none.
LEMMA TradeStep ==
  ASSUME BInv, IInv', RowsKept, EvalsNarrow, reopened' = reopened,
         NEW a, NEW v \in Evaluator, NEW r, NEW s,
         v \in Without(r, s), v \notin Without(r, s)',
         \A b \in Alert, q \in RuleRow, t \in Subject :
           (Counted(b, q, t)' /\ ~(b = a /\ q = r /\ t = s)) => Counted(b, q, t)
  PROVE  BInv'
<1>1. kind' = kind BY DEF RowsKept
<1>2. ASSUME NEW q \in RuleRow, NEW t \in Subjects PROVE Quota(q, t)'
  <2>1. Quota(q, t) /\ t \in Subject BY SubjectsTyped DEF BInv, QuotasOK
  <2>2. CASE q = r /\ t = s BY <1>1, <2>1, <2>2, Trading
  <2>3. CASE ~(q = r /\ t = s)
    <3>1. AlertsNarrow(q, t) BY <2>1, <2>3 DEF AlertsNarrow
    <3> QED BY <1>1, <2>1, <3>1, Narrowing
  <2> QED BY <2>2, <2>3
<1> QED BY <1>2, BTogether

LEMMA EvalTriggeredBInv == ASSUME BInv, IInv', NEW v \in Evaluator, EvalTriggered(v) PROVE BInv'
<1>1. UNCHANGED <<kind, reopened>> /\ EvalEnds(v) /\ evals[v].phase = "act" /\ kind # "APP_CRASH"
  BY DEF EvalTriggered
<1>2. IInv /\ TypeOK BY TypesNow DEF BInv
<1>3. EvalsNarrow BY <1>1, <1>2, EvalsEndNarrow
<1>4. CASE UNCHANGED alerts BY <1>1, <1>3, <1>4, RowsSame, NarrowStep
<1>5. CASE ~UNCHANGED alerts
  <2>1. /\ Existing(v) = {}
        /\ \E a \in FreshAlert : alerts' = [alerts EXCEPT ![a] = Opened(evals[v].rule, NoSignature)]
    BY <1>5 DEF EvalTriggered
  <2>2. PICK r \in RuleRow : r = evals[v].rule BY <1>2, TypesNow DEF EvalRow
  <2>3. PICK a \in FreshAlert : alerts' = [alerts EXCEPT ![a] = Opened(r, NoSignature)]
    BY <2>1, <2>2
  <2>4. evals[v].active = {} BY <1>2, <2>1, NothingFound
  <2>5. v \in Without(r, NoSignature) BY <1>1, <2>2, <2>4 DEF Without, Acts, Nothing
  <2>6. v \notin Without(r, NoSignature)'
    <3>1. evals'[v] = NoEval BY <1>1, <1>2, EvalEnded DEF EvalBecomes
    <3>2. evals'[v].phase # "act" BY <3>1, EmptyTypes
    <3> QED BY <3>2 DEF Without, Acts
  <2>7. /\ RowsKept
        /\ \A b \in Alert : \A q, t : (Counted(b, q, t)' /\ ~(b = a /\ q = r /\ t = NoSignature))
                                    => Counted(b, q, t)
    BY <1>1, <1>2, <2>3, OpeningRows DEF Subject
  <2>8. \A b \in Alert, q \in RuleRow, t \in Subject :
          (Counted(b, q, t)' /\ ~(b = a /\ q = r /\ t = NoSignature)) => Counted(b, q, t)
    BY <2>7
  <2> QED BY <1>1, <1>3, <2>5, <2>6, <2>7, <2>8, TradeStep
<1> QED BY <1>4, <1>5

\* An alert that is claimed gets another subject only if it is the first.
LEMMA ClaimRows ==
  ASSUME BInv, kind = "APP_CRASH", NEW v \in Evaluator, NEW s \in Signature, NEW a \in Alert,
         CrashClaims(v, s, a), kind' = kind
  PROVE  /\ RowsKept
         /\ \A b \in Alert, q \in RuleRow, t \in Subject :
              (Counted(b, q, t)' /\ ~(b = a /\ q = evals[v].rule /\ t = s)) => Counted(b, q, t)
         /\ \A q \in RuleRow, t \in Subject : Counted(a, q, t)' => Counted(a, q, t) \/ a = 1
         /\ OwnAlerts(v, s) = {} => a = 1
<1> DEFINE new == [alerts[a] EXCEPT !.subject = s]
<1>1. IInv BY DEF BInv
<1>2. /\ Known(a) /\ AlertBecomes(a, new) /\ new.status = alerts[a].status
      /\ new.rule = alerts[a].rule /\ new.subject = s
  BY <1>1, ClaimWrites
<1>3. /\ alerts'[a].status = alerts[a].status /\ alerts'[a].rule = alerts[a].rule
      /\ alerts'[a].subject = s
      /\ \A b \in Alert : b # a => alerts'[b] = alerts[b]
  BY <1>2 DEF AlertBecomes
<1> HIDE DEF new
<1>4. a \in CrashAlertOf(v, s) BY DEF CrashClaims
<1>5. PICK c \in evals[v].active :
        /\ c.id = a /\ c.rule = evals[v].rule
        /\ c.subject = IF OwnAlerts(v, s) # {} THEN s ELSE NoSignature
  <2>1. CASE OwnAlerts(v, s) # {}
    <3>1. a \in OwnAlerts(v, s) BY <1>4, <2>1 DEF CrashAlertOf
    <3> QED BY <2>1, <3>1 DEF OwnAlerts, Mine
  <2>2. CASE OwnAlerts(v, s) = {}
    <3>1. a \in OwnAlerts(v, NoSignature) BY <1>4, <2>2 DEF CrashAlertOf, LegacyAlerts
    <3> QED BY <2>2, <3>1 DEF OwnAlerts, Mine
  <2> QED BY <2>1, <2>2
<1>6. alerts[a].rule \in {evals[v].rule, NoRule} /\ (a # 1 => c.subject = alerts[a].subject)
  BY <1>5 DEF BInv, CopiesTrue, CopyTrue
<1>7. a # 1 => alerts[a].subject # NoSignature BY <1>2 DEF BInv, OneLegacy
<1>8. OwnAlerts(v, s) = {} => a = 1 BY <1>5, <1>6, <1>7
<1>9. a # 1 => alerts[a].subject = s BY <1>5, <1>6, <1>8
<1>10. RowsKept
  <2>1. \A b \in Alert : Known(b)' => Known(b) BY <1>2, <1>3 DEF Known
  <2>2. ASSUME NEW b \in Alert
        PROVE  /\ alerts'[b].rule \in {alerts[b].rule, NoRule}
               /\ b # 1 => alerts'[b].subject = alerts[b].subject
    BY <1>3, <1>9
  <2> QED BY <2>1, <2>2 DEF RowsKept
<1>11. ASSUME NEW b \in Alert, NEW q \in RuleRow, NEW t \in Subject, Counted(b, q, t)',
              ~(b = a /\ q = evals[v].rule /\ t = s)
       PROVE  Counted(b, q, t)
  <2>1. alerts'[b].status \in Active /\ alerts'[b].subject = t /\ alerts'[b].rule = q
    BY <1>11 DEF Counted, IsActive
  <2>2. q # NoRule BY DEF RuleRow, NoRule, General, OverrideRow
  <2>3. b # a BY <1>3, <1>6, <1>11, <2>1, <2>2
  <2> QED BY <1>3, <2>1, <2>3 DEF Counted, IsActive
<1>12. ASSUME NEW q \in RuleRow, NEW t \in Subject, Counted(a, q, t)', a # 1
       PROVE  Counted(a, q, t)
  BY <1>3, <1>9, <1>12 DEF Counted, IsActive
<1> QED BY <1>8, <1>10, <1>11, <1>12

LEMMA HandledNarrow ==
  ASSUME IInv, NEW v \in Evaluator, NEW s \in Signature, NEW a \in Alert,
         evals[v].phase = "act",
         evals' = [evals EXCEPT ![v].seen[s] = "clear", ![v].matched = @ \cup {a}]
  PROVE  EvalsNarrow /\ evals'[v].seen[s] # "beyond"
<1>1. /\ EvalBecomes(v, Handled(v, s, a)) /\ Handled(v, s, a).phase = evals[v].phase
      /\ Handled(v, s, a).rule = evals[v].rule /\ Handled(v, s, a).active = evals[v].active
      /\ Handled(v, s, a).seen = [evals[v].seen EXCEPT ![s] = "clear"]
  BY HandledWrites
<1>2. evals[v].seen \in [Subject -> Level] /\ s \in Subject BY TypesNow DEF EvalRow, Subject
<1>3. evals'[v] = Handled(v, s, a) BY <1>1 DEF EvalBecomes
<1>4. /\ evals'[v].phase = evals[v].phase /\ evals'[v].rule = evals[v].rule
      /\ evals'[v].active = evals[v].active
      /\ evals'[v].seen = [evals[v].seen EXCEPT ![s] = "clear"]
  BY <1>1, <1>3
<1>5. /\ evals'[v].seen[s] = "clear"
      /\ \A t \in Subject : (evals'[v].seen[t] = "beyond") => evals[v].seen[t] = "beyond"
  <2> DEFINE before == evals[v].seen
             after  == evals'[v].seen
  <2>1. before \in [Subject -> Level] /\ after = [before EXCEPT ![s] = "clear"] BY <1>2, <1>4
  <2> HIDE DEF before, after
  <2>2. \A t \in Subject : after[t] = IF t = s THEN "clear" ELSE before[t] BY <2>1
  <2>3. /\ after[s] = "clear"
        /\ \A t \in Subject : (after[t] = "beyond") => before[t] = "beyond"
    BY <1>2, <2>2
  <2> QED BY <2>3 DEF before, after
<1>6. \A u \in Evaluator : u # v => evals'[u] = evals[u] BY <1>1 DEF EvalBecomes
<1>7. ASSUME NEW u \in Evaluator
      PROVE  /\ evals'[u].active \subseteq evals[u].active
             /\ (evals'[u].phase = "act") =>
                  /\ evals[u].phase = "act" /\ evals'[u].rule = evals[u].rule
                  /\ evals'[u].active = evals[u].active
                  /\ \A t \in Subject : (evals'[u].seen[t] = "beyond")
                                          => evals[u].seen[t] = "beyond"
  <2>1. CASE u = v BY <1>4, <1>5, <2>1
  <2>2. CASE u # v BY <1>6, <2>2
  <2> QED BY <2>1, <2>2
<1>8. EvalsNarrow BY <1>7 DEF EvalsNarrow
<1> QED BY <1>5, <1>8

LEMMA EvalCrashBInv == ASSUME BInv, IInv', NEW v \in Evaluator, EvalCrash(v) PROVE BInv'
<1>1. IInv BY DEF BInv
<1>2. UNCHANGED <<kind, reopened>> /\ evals[v].phase = "act" /\ kind = "APP_CRASH"
  BY <1>1, CrashCases
<1>3. PICK s \in Signature :
        /\ s \in CrashGroups(v)
        /\ \/ \E a \in Alert : CrashClaims(v, s, a)
           \/ \E a \in Alert : CrashOpens(v, s, a)
           \/ EvalEnds(v) /\ UNCHANGED alerts
  BY <1>1, CrashCases
<1>4. s \in Subject /\ s # NoSignature BY SubjectAssumption DEF Subject
<1>5. PICK r \in RuleRow : r = evals[v].rule BY <1>1, TypesNow DEF EvalRow
<1>6. evals[v].seen[s] = "beyond"
  BY <1>2, <1>3 DEF CrashGroups, Triggers, MeteredTriggers, ProtectionTriggers,
                    FindingTriggers, CrashTriggers, Metered, Protection, Finding
<1>7. Acts(v, r, s) BY <1>2, <1>5, <1>6 DEF Acts
<1>8. (OwnAlerts(v, s) = {}) => v \in Without(r, s) BY <1>2, <1>7 DEF Without, Nothing
<1>9. (evals'[v].seen[s] # "beyond") => v \notin Without(r, s)'
  BY <1>2 DEF Without, Acts
<1>10. ASSUME NEW a \in Alert, CrashClaims(v, s, a) PROVE BInv'
  <2>1. EvalsNarrow /\ evals'[v].seen[s] # "beyond"
    BY <1>1, <1>2, <1>10, HandledNarrow DEF CrashClaims
  <2>2. /\ RowsKept
        /\ \A b \in Alert, q \in RuleRow, t \in Subject :
             (Counted(b, q, t)' /\ ~(b = a /\ q = r /\ t = s)) => Counted(b, q, t)
        /\ \A q \in RuleRow, t \in Subject : Counted(a, q, t)' => Counted(a, q, t) \/ a = 1
        /\ OwnAlerts(v, s) = {} => a = 1
    BY <1>2, <1>5, <1>10, ClaimRows
  <2>3. CASE OwnAlerts(v, s) = {}
    BY <1>2, <1>8, <1>9, <2>1, <2>2, <2>3, TradeStep
  <2>4. CASE OwnAlerts(v, s) # {}
    <3>1. a \in OwnAlerts(v, s) BY <1>10, <2>4 DEF CrashClaims, CrashAlertOf
    <3>2. a = 1 => Held(r, s) BY <1>2, <1>7, <3>1 DEF Held
    <3>3. ASSUME NEW q \in RuleRow, NEW t \in Subject PROVE AlertsNarrow(q, t)
      <4>1. ASSUME NEW b \in Alert, Counted(b, q, t)'
            PROVE  Counted(b, q, t) \/ (b = 1 /\ Held(q, t))
        <5>1. CASE b = a /\ q = r /\ t = s BY <2>2, <3>2, <4>1, <5>1
        <5>2. CASE ~(b = a /\ q = r /\ t = s) BY <2>2, <4>1, <5>2
        <5> QED BY <5>1, <5>2
      <4> QED BY <1>2, <4>1 DEF AlertsNarrow
    <3> QED BY <2>1, <2>2, <3>3, NarrowStep
  <2> QED BY <2>3, <2>4
<1>11. ASSUME NEW a \in Alert, CrashOpens(v, s, a) PROVE BInv'
  <2>1. EvalsNarrow /\ evals'[v].seen[s] # "beyond"
    BY <1>1, <1>2, <1>11, HandledNarrow DEF CrashOpens
  <2>2. /\ CrashAlertOf(v, s) = {} /\ a \in FreshAlert
        /\ alerts' = [alerts EXCEPT ![a] = Opened(r, s)]
    BY <1>5, <1>11 DEF CrashOpens
  <2>3. OwnAlerts(v, s) = {} BY <2>2 DEF CrashAlertOf
  <2>4. /\ RowsKept
        /\ \A b \in Alert : \A q, t : (Counted(b, q, t)' /\ ~(b = a /\ q = r /\ t = s))
                                    => Counted(b, q, t)
    BY <1>1, <1>2, <1>4, <2>2, OpeningRows
  <2>5. \A b \in Alert, q \in RuleRow, t \in Subject :
          (Counted(b, q, t)' /\ ~(b = a /\ q = r /\ t = s)) => Counted(b, q, t)
    BY <2>4
  <2> QED BY <1>2, <1>8, <1>9, <2>1, <2>3, <2>4, <2>5, TradeStep
<1>12. CASE EvalEnds(v) /\ UNCHANGED alerts
  BY <1>1, <1>2, <1>12, EvalsEndNarrow, RowsSame, NarrowStep
<1> QED BY <1>3, <1>10, <1>11, <1>12

LEMMA NextBInv == ASSUME BInv, [Next]_vars PROVE BInv'
<1>1. IInv' BY NextIInv DEF BInv
<1>2. CASE \E s \in Subject : Measure(s) BY <1>1, <1>2, MeasureBInv
<1>3. ASSUME NEW v \in Evaluator, EvalStep(v) PROVE BInv'
  BY <1>1, <1>3, EvalReadBInv, EvalLookupBInv, EvalTriggeredBInv, EvalNormalBInv,
     EvalCrashBInv, EvalStaleBInv DEF EvalStep
<1>4. CASE \E a \in Alert : Remediated(a) BY <1>1, <1>4, RemediatedBInv
<1>5. CASE \/ SetGeneral
           \/ \E q \in Request : \/ ToggleOverride(q) \/ PostOverride(q)
                                \/ FindOverride(q) \/ WriteOverride(q)
  <2>1. UNCHANGED <<kind, alerts, evals, reopened>>
    BY <1>5 DEF SetGeneral, ToggleOverride, PostOverride, Begin, FindOverride, FindIn, WriteOverride
  <2> QED BY <1>1, <2>1, RulesBInv
<1>6. CASE \E o \in OverrideRow : DeleteOverride(o) BY <1>1, <1>6, DeleteOverrideBInv
<1>7. CASE \E a \in Alert : Acknowledge(a) \/ CloseAlert(a)
  BY <1>1, <1>7, AcknowledgeBInv, CloseAlertBInv
<1>8. CASE ServerRestart BY <1>1, <1>8, ServerRestartBInv
<1>9. CASE UNCHANGED vars BY <1>1, <1>9, RulesBInv DEF vars
<1> QED BY <1>2, <1>3, <1>4, <1>5, <1>6, <1>7, <1>8, <1>9 DEF Next, Administration

LEMMA InitBInv == ASSUME Init PROVE BInv
<1>1. IInv BY InitIInv
<1>2. \A v \in Evaluator : evals[v].phase = "idle" /\ evals[v].active = {}
  BY EmptyTypes DEF Init
<1>3. PICK L \in {{}} \cup (IF kind = "APP_CRASH" THEN {{1} \cap Alert} ELSE {}) :
        alerts = [a \in Alert |-> IF a \in L THEN [NoAlert EXCEPT !.status = "OPEN"] ELSE NoAlert]
  BY DEF Init
<1>4. L \subseteq {1} /\ (kind # "APP_CRASH" => L = {}) BY <1>3
<1>5. /\ [NoAlert EXCEPT !.status = "OPEN"].subject = NoSignature
      /\ NoAlert.subject = NoSignature /\ NoAlert.status = "ABSENT"
  BY EmptyTypes DEF AlertRow
<1>6. \A a \in Alert : alerts[a].subject = NoSignature /\ (a \notin L => ~Known(a))
  BY <1>3, <1>5 DEF Known
<1>7. CopiesTrue /\ OneLegacy BY <1>2, <1>4, <1>6 DEF CopiesTrue, OneLegacy
<1>8. ASSUME NEW r \in RuleRow, NEW s \in Subjects PROVE Quota(r, s)
  <2>1. Without(r, s) = {} /\ ~Held(r, s) BY <1>2 DEF Without, Held, Acts
  <2>2. \A a \in Alert : ~Counted(a, r, s)
    <3>1. CASE kind = "APP_CRASH"
      <4>1. s # NoSignature BY <3>1, SubjectAssumption DEF Subjects
      <4> QED BY <1>6, <4>1 DEF Counted
    <3>2. CASE kind # "APP_CRASH"
      BY <1>4, <1>6, <3>2 DEF Counted, IsActive, Active, Known
    <3> QED BY <3>1, <3>2
  <2>3. Claims(r, s) = {} BY <2>1, <2>2 DEF Claims
  <2>4. Cardinality(Claims(r, s)) = 0 /\ Cardinality(Without(r, s)) = 0
    BY <2>1, <2>3, FS_EmptySet
  <2>5. Cardinality(Evaluator) \in Nat BY Finite, FS_CardinalityType
  <2> QED BY <2>4, <2>5 DEF Quota
<1> QED BY <1>1, <1>7, <1>8 DEF BInv, QuotasOK

\* In every state no more alerts of one rule and one subject are active than
\* evaluations overlap, apart from those an operator acknowledged after they
\* had been closed; and what refers to a rule or to an alert refers to one that
\* is there.
THEOREM DuplicatesAreBounded == Spec => []DuplicatesBounded
<1>1. Init => BInv BY InitBInv
<1>2. BInv /\ [Next]_vars => BInv' BY NextBInv
<1>3. BInv => DuplicatesBounded
  <2> SUFFICES ASSUME BInv, NEW s \in Subject, NEW r \in RuleRow
               PROVE  Cardinality({a \in ActiveAlerts \ reopened :
                                     alerts[a].subject = s /\ alerts[a].rule = r})
                        <= Cardinality(Evaluator)
    BY DEF DuplicatesBounded, BInv
  <2> DEFINE D == {a \in ActiveAlerts \ reopened : alerts[a].subject = s /\ alerts[a].rule = r}
  <2>1. Cardinality(Evaluator) \in Nat /\ Cardinality(Evaluator) > 0
    BY EvaluatorAssumption, FS_CardinalityType, FS_EmptySet
  <2>2. CASE s \in Subjects
    <3>1. D \subseteq Claims(r, s) BY DEF Claims, Counted, ActiveAlerts
    <3>2. Cardinality(D) <= Cardinality(Claims(r, s)) /\ IsFiniteSet(D)
      BY <3>1, Finite, FS_Subset
    <3>3. Quota(r, s) BY <2>2 DEF BInv, QuotasOK
    <3>4. /\ Cardinality(D) \in Nat /\ Cardinality(Claims(r, s)) \in Nat
          /\ Cardinality(Without(r, s)) \in Nat
      BY <3>2, Finite, FS_CardinalityType
    <3> HIDE DEF D
    <3>5. Cardinality(D) <= Cardinality(Evaluator) BY <2>1, <3>2, <3>3, <3>4 DEF Quota
    <3> QED BY <3>5 DEF D
  <2>3. CASE s \notin Subjects
    <3>1. D \subseteq {1}
      <4> SUFFICES ASSUME NEW a \in D PROVE a = 1 OBVIOUS
      <4>1. a \in Alert /\ Known(a) /\ alerts[a].subject = s
        BY DEF ActiveAlerts, IsActive, Active, Known
      <4>2. CASE kind = "APP_CRASH"
        <5>1. s = NoSignature BY <2>3, <4>2 DEF Subjects, Subject
        <5> QED BY <4>1, <4>2, <5>1 DEF BInv, OneLegacy
      <4>3. CASE kind # "APP_CRASH"
        <5>1. AlertLinks(a) BY <4>1, Parts DEF BInv
        <5>2. s = NoSignature BY <4>1, <4>3, <5>1 DEF AlertLinks
        <5> QED BY <2>3, <4>3, <5>2 DEF Subjects
      <4> QED BY <4>2, <4>3
    <3>2. IsFiniteSet({1}) /\ Cardinality({1}) = 1 BY FS_Singleton
    <3>3. Cardinality(D) <= 1 /\ IsFiniteSet(D) BY <3>1, <3>2, FS_Subset
    <3>4. Cardinality(D) \in Nat BY <3>3, FS_CardinalityType
    <3> HIDE DEF D
    <3>5. Cardinality(D) <= Cardinality(Evaluator) BY <2>1, <3>3, <3>4
    <3> QED BY <3>5 DEF D
  <2> QED BY <2>2, <2>3
<1> QED BY <1>1, <1>2, <1>3, PTL DEF Spec

-----------------------------------------------------------------------------
(* Rollups                                                                  *)

AtHour(r) == taken[r[1]]
AtDay(r)  == DayOf(AtHour(r))

\* Nothing is from the future, and what was stored was taken.
Dated ==
  /\ \A s \in Sample : taken[s] <= now
  /\ \A s \in unsent : taken[s] >= 0
  /\ \A r \in raw \cup timely : AtHour(r) >= 0
  /\ \A d \in Day : \A r \in daily[d] : AtHour(r) >= 0
  /\ outages \subseteq 0..now

\* A run that has read is about the past, and one that began in this hour about the last hour
\* or about yesterday.
Running ==
  /\ \A j \in HourlyJob \cup DailyJob : runs[j].phase \in {"idle", "write"}
  /\ \A j \in CleanupJob : runs[j].phase \in {"idle", "hourly", "daily"} /\ runs[j].bucket <= now
  /\ \A j \in HourlyJob : runs[j].phase = "write" =>
       /\ runs[j].bucket < now /\ (runs[j].fresh => runs[j].bucket = now - 1)
       /\ \A r \in runs[j].rows : AtHour(r) = runs[j].bucket
  /\ \A j \in DailyJob : runs[j].phase = "write" =>
       /\ runs[j].bucket < DayOf(now) /\ (runs[j].fresh => runs[j].bucket = DayOf(now) - 1)
       /\ \A r \in runs[j].rows : AtHour(r) >= 0 /\ AtDay(r) = runs[j].bucket

\* The raw rows that are not old are there, and all that was counted of them.
Kept ==
  /\ \A r \in timely : AtHour(r) >= now - RawKept => r \in raw
  /\ \A h \in Hour : h >= now - RawKept => hourly[h] \subseteq raw
  /\ \A j \in HourlyJob : runs[j].phase = "write" /\ runs[j].bucket >= now - RawKept =>
       runs[j].rows \subseteq raw

\* A run for an hour begins when the hour is over and its rows are still there.
Complete ==
  \A j \in HourlyJob : runs[j].phase = "write" =>
    \A r \in timely : AtHour(r) = runs[j].bucket => r \in runs[j].rows

\* A run that no other overtook counts what is counted.
Growing ==
  \A j \in HourlyJob \ raced : runs[j].phase = "write" =>
    hourly[runs[j].bucket] \subseteq runs[j].rows

\* An hourly aggregation that began in the hour after h has ended.
HourOver(h) == IF now = h + 1 THEN "hourly" \in ran ELSE now >= h + 2 /\ h + 1 \notin outages

HourCounted ==
  \A r \in timely :
    HourOver(AtHour(r)) /\ AtHour(r) >= now - HourlyKept => r \in hourly[AtHour(r)]

\* A daily aggregation that began in the last hour after day d has ended.
End(d) == (d + 2) * HoursPerDay
DayOver(d) == IF now + 1 = End(d) THEN "daily" \in ran ELSE now >= End(d)
Quiet(r) == (AtHour(r) + 1)..(End(AtDay(r)) - 1) \cap outages = {}

LastRun ==
  \A j \in DailyJob : runs[j].phase = "write" /\ runs[j].fresh /\ now + 1 = End(runs[j].bucket) =>
    \A r \in timely : AtDay(r) = runs[j].bucket /\ Quiet(r) => r \in runs[j].rows

LaterRun ==
  \A j \in DailyJob \ raced : runs[j].phase = "write" /\ DayOver(runs[j].bucket) =>
    \A r \in timely : AtDay(r) = runs[j].bucket /\ Quiet(r) => r \in runs[j].rows

DayCounted ==
  \A r \in timely :
    LET d == AtDay(r) IN
    DayOver(d) /\ Quiet(r) /\ d * HoursPerDay >= now - DailyKept /\ d \notin outdated
      => r \in daily[d]

RollupInv ==
  /\ RollupTypeOK /\ Dated /\ Running /\ Kept /\ Complete /\ Growing /\ HourCounted
  /\ LastRun /\ LaterRun /\ DayCounted

-----------------------------------------------------------------------------
(* Hours and days                                                           *)

LEMMA Constants ==
  /\ HoursPerDay \in Nat /\ HoursPerDay >= 2 /\ MaxHour \in Nat
  /\ RawKept \in Nat /\ HourlyKept \in Nat /\ DailyKept \in Nat
  /\ RawKept >= 2 /\ RawKept <= HourlyKept /\ 2 * HoursPerDay <= HourlyKept
BY RetentionAssumption, BoundAssumption

LEMMA Times ==
  ASSUME NEW a \in Int, NEW b \in Int, a <= b
  PROVE  a * HoursPerDay <= b * HoursPerDay
<1>1. PICK c \in Nat : b = a + c BY b - a \in Nat
<1>2. c * HoursPerDay \in Nat BY Constants
<1>3. b * HoursPerDay = a * HoursPerDay + c * HoursPerDay BY <1>1, Constants
<1> QED BY <1>2, <1>3, Constants

LEMMA DayIs ==
  ASSUME NEW h \in Nat
  PROVE  /\ DayOf(h) \in Nat /\ DayOf(h) * HoursPerDay \in Nat
         /\ DayOf(h) * HoursPerDay <= h /\ h < DayOf(h) * HoursPerDay + HoursPerDay
         /\ End(DayOf(h)) = DayOf(h) * HoursPerDay + 2 * HoursPerDay
BY Constants DEF DayOf, End

LEMMA DayIsOnly ==
  ASSUME NEW h \in Nat, NEW d \in Nat,
         d * HoursPerDay <= h, h < d * HoursPerDay + HoursPerDay
  PROVE  DayOf(h) = d
<1>1. ASSUME DayOf(h) + 1 <= d PROVE FALSE
  <2>1. (DayOf(h) + 1) * HoursPerDay <= d * HoursPerDay BY <1>1, DayIs, Times
  <2>2. (DayOf(h) + 1) * HoursPerDay = DayOf(h) * HoursPerDay + HoursPerDay BY DayIs, Constants
  <2> QED BY <2>1, <2>2, DayIs, Constants
<1>2. ASSUME d + 1 <= DayOf(h) PROVE FALSE
  <2>1. (d + 1) * HoursPerDay <= DayOf(h) * HoursPerDay BY <1>2, DayIs, Times
  <2>2. (d + 1) * HoursPerDay = d * HoursPerDay + HoursPerDay BY Constants
  <2> QED BY <2>1, <2>2, DayIs, Constants
<1> QED BY <1>1, <1>2, DayIs

LEMMA DayAtMost ==
  ASSUME NEW h \in Nat
  PROVE  DayOf(h) \in Nat /\ DayOf(h) <= h
<1>1. DayOf(h) \in Nat /\ DayOf(h) * HoursPerDay <= h BY DayIs
<1>2. PICK c \in Nat : HoursPerDay = c + 1 
  <2>1. HoursPerDay - 1 \in Nat /\ HoursPerDay = (HoursPerDay - 1) + 1 BY Constants
  <2> QED BY <2>1
<1>3. DayOf(h) * HoursPerDay = DayOf(h) * c + DayOf(h) /\ DayOf(h) * c \in Nat BY <1>1, <1>2
<1> QED BY <1>1, <1>3

\* Days do not go back.
LEMMA DayGrows ==
  ASSUME NEW g \in Nat, NEW h \in Nat, g <= h
  PROVE  DayOf(g) <= DayOf(h)
<1> SUFFICES ASSUME DayOf(h) + 1 <= DayOf(g) PROVE FALSE BY DayIs
<1>1. (DayOf(h) + 1) * HoursPerDay <= DayOf(g) * HoursPerDay BY DayIs, Times
<1>2. (DayOf(h) + 1) * HoursPerDay = DayOf(h) * HoursPerDay + HoursPerDay BY DayIs, Constants
<1> QED BY <1>1, <1>2, DayIs, Constants

\* What the last hour in which a day is yesterday is.
LEMMA LastHour ==
  ASSUME NEW d \in Nat, NEW h \in Nat, h + 1 = End(d)
  PROVE  DayOf(h) = d + 1
<1>1. d * HoursPerDay \in Nat /\ (d + 1) * HoursPerDay = d * HoursPerDay + HoursPerDay
      /\ (d + 2) * HoursPerDay = d * HoursPerDay + 2 * HoursPerDay
  BY Constants
<1> QED BY <1>1, Constants, DayIsOnly DEF End

LEMMA Multiples ==
  ASSUME NEW d \in Int
  PROVE  /\ d * HoursPerDay \in Int /\ (d + 1) * HoursPerDay = d * HoursPerDay + HoursPerDay
         /\ End(d) = d * HoursPerDay + 2 * HoursPerDay /\ End(d) \in Int
BY Constants DEF End

\* A day is over long after its hours.
LEMMA EndIs ==
  ASSUME NEW h \in Nat
  PROVE  End(DayOf(h)) \in Nat /\ h + 2 < End(DayOf(h))
<1>1. DayOf(h) \in Int BY DayIs
<1>2. End(DayOf(h)) = DayOf(h) * HoursPerDay + 2 * HoursPerDay BY DayIs
<1>3. DayOf(h) * HoursPerDay \in Nat /\ h < DayOf(h) * HoursPerDay + HoursPerDay BY DayIs
<1> QED BY <1>2, <1>3, Constants

Run == [phase : {"idle", "write", "hourly", "daily"}, bucket : Hour, rows : SUBSET Row, fresh : BOOLEAN]

LEMMA TypesAre ==
  ASSUME RollupTypeOK
  PROVE  /\ now \in Nat /\ Hour \subseteq Nat /\ now \in Hour /\ now - 1 \in Int
         /\ runs \in [Job -> Run] /\ raw \subseteq Row /\ timely \subseteq Row
         /\ taken \in [Sample -> {-1} \cup Hour]
         /\ \A r \in Row : r[1] \in Sample /\ AtHour(r) \in Int
         /\ \A r \in Row : AtHour(r) >= 0 => AtHour(r) \in Hour /\ AtHour(r) \in Nat
         /\ NoRun \in Run
<1>1. now \in Hour /\ Hour \subseteq Nat BY Constants DEF RollupTypeOK, Hour
<1>2. runs \in [Job -> Run] /\ raw \subseteq Row /\ timely \subseteq Row
      /\ taken \in [Sample -> {-1} \cup Hour]
  BY DEF RollupTypeOK, Run
<1>3. \A r \in Row : r[1] \in Sample BY DEF Row
<1>4. \A r \in Row : AtHour(r) \in {-1} \cup Hour BY <1>2, <1>3 DEF AtHour
<1>5. NoRun \in Run BY Constants DEF NoRun, Run, Hour
<1>6. \A x \in {-1} \cup Hour : x \in Int /\ (x >= 0 => x \in Hour /\ x \in Nat) BY <1>1
<1>7. now - 1 \in Int BY <1>1
<1> QED BY <1>1, <1>2, <1>3, <1>4, <1>5, <1>6, <1>7

LEMMA TakeSampleKeeps ==
  ASSUME RollupInv, NEW s \in Sample, TakeSample(s)
  PROVE  RollupInv'
<1> USE TypesAre DEF RollupInv
<1>1. /\ taken[s] = -1 /\ taken' = [taken EXCEPT ![s] = now] /\ unsent' = unsent \cup {s}
      /\ UNCHANGED <<study, raw, hourly, daily, runs, now, up, ran, timely, raced, outdated, outages>>
  BY DEF TakeSample, ghostVars
<1>2. taken' \in [Sample -> {-1} \cup Hour] BY <1>1
<1>3. \A r \in Row : AtHour(r) >= 0 => AtHour(r)' = AtHour(r) /\ AtDay(r)' = AtDay(r)
  BY <1>1 DEF AtHour, AtDay
<1>4. \A h \in Hour : \A r \in hourly[h] : r \in Row /\ AtHour(r) = h /\ AtHour(r) >= 0
  BY DEF RollupTypeOK, AtHour
<1>5. \A d \in Day : \A r \in daily[d] : r \in Row /\ AtHour(r) >= 0 /\ AtDay(r) = d
  BY DEF RollupTypeOK, Dated, AtHour, AtDay
<1>6. \A r \in raw \cup timely : r \in Row /\ AtHour(r) >= 0 BY DEF Dated
<1>7. RollupTypeOK'
  <2>1. \A h \in Hour : \A r \in hourly'[h] : taken'[r[1]] = h BY <1>1, <1>3, <1>4 DEF AtHour
  <2>2. \A d \in Day : \A r \in daily'[d] : DayOf(taken'[r[1]]) = d
    BY <1>1, <1>3, <1>5 DEF AtDay, AtHour
  <2> QED BY <1>1, <1>2, <2>1, <2>2 DEF RollupTypeOK
<1>8. Dated'
  <2>1. \A q \in Sample : taken'[q] <= now' BY <1>1 DEF Dated
  <2>2. \A q \in unsent' : taken'[q] >= 0
    BY <1>1 DEF Dated, RollupTypeOK
  <2>3. \A r \in raw' \cup timely' : AtHour(r)' >= 0 BY <1>1, <1>3, <1>6
  <2>4. \A d \in Day : \A r \in daily'[d] : AtHour(r)' >= 0 BY <1>1, <1>3, <1>5
  <2> QED BY <1>1, <2>1, <2>2, <2>3, <2>4 DEF Dated
<1>9. Running'
  <2>1. \A j \in HourlyJob : runs[j].phase = "write" =>
          \A r \in runs[j].rows : r \in Row /\ AtHour(r) >= 0
    BY DEF Running, Run, Job
  <2>2. \A j \in DailyJob : runs[j].phase = "write" =>
          \A r \in runs[j].rows : r \in Row /\ AtHour(r) >= 0
    BY DEF Running, Run, Job
  <2> QED BY <1>1, <1>3, <2>1, <2>2 DEF Running
<1>10. Kept' BY <1>1, <1>3, <1>6 DEF Kept
<1>11. Complete' /\ Growing' BY <1>1, <1>3, <1>6 DEF Complete, Growing
<1>12. HourCounted' BY <1>1, <1>3, <1>6 DEF HourCounted, HourOver
<1>13. \A r \in timely : Quiet(r)' = Quiet(r) BY <1>1, <1>3, <1>6 DEF Quiet
<1>14. LastRun' /\ LaterRun' BY <1>1, <1>3, <1>6, <1>13 DEF LastRun, LaterRun, DayOver
<1>15. DayCounted' BY <1>1, <1>3, <1>6, <1>13 DEF DayCounted, DayOver
<1> QED BY <1>7, <1>8, <1>9, <1>10, <1>11, <1>12, <1>14, <1>15

LEMMA StoreSampleKeeps ==
  ASSUME RollupInv, NEW s \in Sample, StoreSample(s)
  PROVE  RollupInv'
<1> USE TypesAre DEF RollupInv
<1>1. /\ s \in unsent /\ unsent' \subseteq unsent
      /\ UNCHANGED <<study, taken, hourly, daily, runs, now, up, ran, raced, outdated, outages>>
  BY DEF StoreSample
<1>2. PICK n \in 1..study.copies :
        /\ raw' = raw \cup {<<s, n>>}
        /\ timely' = timely \cup (IF taken[s] = now THEN {<<s, n>>} ELSE {})
  BY DEF StoreSample
<1>3. n \in {1, 2} BY BoundAssumption DEF RollupTypeOK
<1> DEFINE new == <<s, n>>
<1>4. new \in Row /\ AtHour(new) = taken[s] /\ taken[s] >= 0
  BY <1>1, <1>3 DEF Row, AtHour, Dated
<1>5. \A r \in timely' : r \in timely \/ (r = new /\ AtHour(new) = now) BY <1>2, <1>4
<1>6. new \in raw' /\ raw \subseteq raw' /\ raw' \subseteq raw \cup {new} BY <1>2
<1> HIDE DEF new
<1>7. \A r : AtHour(r)' = AtHour(r) /\ AtDay(r)' = AtDay(r) /\ Quiet(r)' = Quiet(r)
  BY <1>1 DEF AtHour, AtDay, Quiet
<1>8. RollupTypeOK'
  BY <1>1, <1>4, <1>5, <1>6 DEF RollupTypeOK
<1>9. Dated' BY <1>1, <1>4, <1>5, <1>6, <1>7 DEF Dated
<1>10. Running' BY <1>1, <1>7 DEF Running
<1>11. Kept' BY <1>1, <1>5, <1>6, <1>7 DEF Kept
<1>12. Complete' BY <1>1, <1>5, <1>7, Constants DEF Complete, Running, Run, Job, Hour
<1>13. Growing' BY <1>1 DEF Growing
<1>14. ~HourOver(now) BY DEF HourOver
<1>15. HourCounted' BY <1>1, <1>5, <1>7, <1>14 DEF HourCounted, HourOver
<1>16. \A j \in DailyJob : runs[j].phase = "write" => runs[j].bucket # DayOf(now)
  BY DayIs, Constants DEF Running, Run, Job, Hour
<1>17. AtHour(new) = now => AtDay(new) = DayOf(now) BY DEF AtDay
<1>18. LastRun' BY <1>1, <1>5, <1>7, <1>16, <1>17 DEF LastRun
<1>19. LaterRun' BY <1>1, <1>5, <1>7, <1>16, <1>17 DEF LaterRun, DayOver
<1>20. ~DayOver(DayOf(now))
  <2>1. End(DayOf(now)) \in Nat /\ End(DayOf(now)) > now + 1
    <3>1. now \in Nat OBVIOUS
    <3>2. End(DayOf(now)) \in Nat /\ now + 2 < End(DayOf(now)) BY <3>1, EndIs
    <3> QED BY <3>1, <3>2
  <2> QED BY <2>1 DEF DayOver
<1>21. DayCounted' BY <1>1, <1>5, <1>7, <1>17, <1>20 DEF DayCounted, DayOver
<1> QED BY <1>8, <1>9, <1>10, <1>11, <1>12, <1>13, <1>15, <1>18, <1>19, <1>21

\* A job other than j is where it was.
LEMMA RunsAre ==
  ASSUME RollupTypeOK, NEW j \in Job, NEW run \in Run, runs' = [runs EXCEPT ![j] = run]
  PROVE  /\ runs' \in [Job -> Run] /\ runs'[j] = run
         /\ \A i \in Job : i # j => runs'[i] = runs[i]
BY TypesAre

LEMMA JobsAre ==
  /\ HourlyJob \subseteq Job /\ DailyJob \subseteq Job /\ CleanupJob \subseteq Job
  /\ \A j \in HourlyJob : j \notin DailyJob /\ j \notin CleanupJob
  /\ \A j \in DailyJob : j \notin HourlyJob /\ j \notin CleanupJob
  /\ \A j \in CleanupJob : j \notin HourlyJob /\ j \notin DailyJob
BY JobAssumption DEF Job

LEMMA HourlyReadKeeps ==
  ASSUME RollupInv, NEW j \in HourlyJob, HourlyRead(j)
  PROVE  RollupInv'
<1> USE TypesAre, JobsAre DEF RollupInv
<1> DEFINE run == [phase |-> "write", bucket |-> TargetHour, rows |-> RowsOf(TargetHour), fresh |-> TRUE]
<1>1. /\ runs' = [runs EXCEPT ![j] = run] /\ TargetHour >= 0 /\ TargetHour = now - 1
      /\ UNCHANGED <<study, taken, unsent, raw, hourly, daily, now, up, ran, timely, raced, outdated, outages>>
  BY DEF HourlyRead, agentVars, ghostVars, TargetHour
<1>2. RowsOf(TargetHour) = {r \in raw : AtHour(r) = TargetHour} BY DEF RowsOf, AtHour
<1>3. run \in Run /\ TargetHour \in Hour
  <2>1. TargetHour \in Hour BY <1>1, Constants DEF Hour
  <2>2. RowsOf(TargetHour) \in SUBSET Row BY <1>2
  <2> QED BY <2>1, <2>2 DEF Run
<1>4. /\ runs' \in [Job -> Run] /\ runs'[j].phase = "write" /\ runs'[j].bucket = TargetHour
      /\ runs'[j].rows = RowsOf(TargetHour) /\ runs'[j].fresh
      /\ \A i \in Job : i # j => runs'[i] = runs[i]
  BY <1>1, <1>3, RunsAre
<1> HIDE DEF run
<1>5. \A r : AtHour(r)' = AtHour(r) /\ AtDay(r)' = AtDay(r) /\ Quiet(r)' = Quiet(r)
  BY <1>1 DEF AtHour, AtDay, Quiet
<1>6. RollupTypeOK' BY <1>1, <1>4 DEF RollupTypeOK, Run
<1>7. Dated' BY <1>1, <1>5 DEF Dated
<1>8. Running' BY <1>1, <1>2, <1>4, <1>5 DEF Running
<1>9. Kept' BY <1>1, <1>2, <1>4, <1>5 DEF Kept
<1>10. Complete' BY <1>1, <1>2, <1>4, <1>5, Constants DEF Complete, Kept
<1>11. hourly[TargetHour] \subseteq RowsOf(TargetHour)
  BY <1>1, <1>2, <1>3, Constants DEF Kept, RollupTypeOK, AtHour
<1>12. Growing' BY <1>1, <1>4, <1>11 DEF Growing
<1>13. HourCounted' BY <1>1, <1>5 DEF HourCounted, HourOver
<1>14. LastRun' /\ LaterRun' BY <1>1, <1>4, <1>5 DEF LastRun, LaterRun, DayOver
<1>15. DayCounted' BY <1>1, <1>5 DEF DayCounted, DayOver
<1> QED BY <1>6, <1>7, <1>8, <1>9, <1>10, <1>12, <1>13, <1>14, <1>15

LEMMA HourlyWriteKeeps ==
  ASSUME RollupInv, NEW j \in HourlyJob, HourlyWrite(j)
  PROVE  RollupInv'
<1> USE TypesAre, JobsAre DEF RollupInv
<1> DEFINE h == runs[j].bucket
           S == runs[j].rows
<1>1. /\ runs[j].phase = "write" /\ runs' = [runs EXCEPT ![j] = NoRun]
      /\ hourly' = IF S = {} THEN hourly ELSE [hourly EXCEPT ![h] = S]
      /\ ran' = IF runs[j].fresh THEN ran \cup {"hourly"} ELSE ran
      /\ raced' = (raced \ {j}) \cup Overtaken(j, HourlyJob)
      /\ UNCHANGED <<study, taken, unsent, raw, daily, now, up, timely, outdated, outages>>
  BY DEF HourlyWrite, Ended, agentVars
<1>2. /\ runs' \in [Job -> Run] /\ runs'[j].phase = "idle" /\ \A i \in Job : i # j => runs'[i] = runs[i]
  BY <1>1, RunsAre DEF NoRun
<1>3. h \in Hour /\ S \subseteq Row /\ h < now /\ (runs[j].fresh => h = now - 1)
      /\ \A r \in S : AtHour(r) = h
  BY <1>1 DEF Running, Run
<1>4. /\ hourly' \in [Hour -> SUBSET Row]
      /\ \A k \in Hour : hourly'[k] = hourly[k] \/ (k = h /\ hourly'[k] = S)
      /\ S # {} => hourly'[h] = S
  BY <1>1, <1>3 DEF RollupTypeOK
<1>5. \A r \in timely : AtHour(r) = h => r \in S BY <1>1 DEF Complete
<1> HIDE DEF h, S
<1>6. \A r : AtHour(r)' = AtHour(r) /\ AtDay(r)' = AtDay(r) /\ Quiet(r)' = Quiet(r)
  BY <1>1 DEF AtHour, AtDay, Quiet
<1>7. RollupTypeOK'
  <2>1. \A k \in Hour : \A r \in hourly'[k] : taken'[r[1]] = k
    BY <1>1, <1>3, <1>4 DEF RollupTypeOK, AtHour
  <2>2. raced' \subseteq HourlyJob \cup DailyJob BY <1>1 DEF RollupTypeOK, Overtaken
  <2> QED BY <1>1, <1>2, <1>4, <2>1, <2>2 DEF RollupTypeOK, Run
<1>8. Dated' BY <1>1, <1>6 DEF Dated
<1>9. Running' BY <1>1, <1>2, <1>6 DEF Running
<1>10. Kept'
  <2>1. h >= now - RawKept => S \subseteq raw BY <1>1 DEF Kept, h, S
  <2> QED BY <1>1, <1>2, <1>4, <1>6, <2>1 DEF Kept
<1>11. Complete' BY <1>1, <1>2, <1>6 DEF Complete
<1>12. Growing'
  <2> SUFFICES ASSUME NEW i \in HourlyJob, i \notin raced', runs'[i].phase = "write"
               PROVE  hourly'[runs'[i].bucket] \subseteq runs'[i].rows
    BY DEF Growing
  <2>1. i # j /\ runs'[i] = runs[i] BY <1>2
  <2>2. (runs[i].bucket # h \/ S = {}) /\ i \notin raced BY <1>1, <2>1 DEF Overtaken, h, S
  <2>3. runs[i].bucket \in Hour BY DEF Run
  <2> QED BY <1>1, <1>4, <2>1, <2>2, <2>3 DEF Growing
<1>13. HourCounted'
  <2> SUFFICES ASSUME NEW r \in timely, HourOver(AtHour(r))', AtHour(r) >= now - HourlyKept
               PROVE  r \in hourly'[AtHour(r)]
    BY <1>1, <1>6 DEF HourCounted
  <2>1. AtHour(r) \in Hour BY DEF Dated
  <2>2. CASE AtHour(r) = h
    BY <1>4, <1>5, <2>2
  <2>3. CASE AtHour(r) # h
    <3>1. HourOver(AtHour(r)) BY <1>1, <1>3, <2>1, <2>3, <1>6 DEF HourOver
    <3> QED BY <1>4, <2>1, <2>3, <3>1 DEF HourCounted
  <2> QED BY <2>2, <2>3
<1>14. \A d : DayOver(d)' = DayOver(d) BY <1>1 DEF DayOver
<1>15. LastRun' BY <1>1, <1>2, <1>6 DEF LastRun
<1>16. LaterRun' BY <1>1, <1>2, <1>6, <1>14 DEF LaterRun
<1>17. DayCounted' BY <1>1, <1>6, <1>14 DEF DayCounted
<1> QED BY <1>7, <1>8, <1>9, <1>10, <1>11, <1>12, <1>13, <1>15, <1>16, <1>17

\* A day's hours are counted by its last hour as yesterday.
LEMMA LastHourCounts ==
  ASSUME RollupInv, NEW d \in Nat, now + 1 = End(d), NEW r \in timely, AtDay(r) = d, Quiet(r)
  PROVE  AtHour(r) \in Hour /\ DayOf(AtHour(r)) = d /\ r \in hourly[AtHour(r)]
<1> USE TypesAre DEF RollupInv
<1> DEFINE h == AtHour(r)
<1>1. h \in Hour /\ h \in Nat /\ DayOf(h) = d BY DEF Dated, AtDay
<1>2. d * HoursPerDay \in Nat /\ d * HoursPerDay <= h /\ h < d * HoursPerDay + HoursPerDay
      /\ End(d) = d * HoursPerDay + 2 * HoursPerDay
  BY <1>1, DayIs
<1>3. now >= h + 2 /\ h >= now - HourlyKept BY <1>1, <1>2, Constants
<1>4. h + 1 \in (h + 1)..(End(d) - 1) BY <1>1, <1>2, Constants
<1>5. h + 1 \notin outages BY <1>4 DEF Quiet
<1>6. HourOver(h) BY <1>1, <1>3, <1>5 DEF HourOver
<1>7. r \in hourly[h] BY <1>3, <1>6 DEF HourCounted
<1> QED BY <1>1, <1>7

LEMMA DailyReadKeeps ==
  ASSUME RollupInv, NEW j \in DailyJob, DailyRead(j)
  PROVE  RollupInv'
<1> USE TypesAre, JobsAre DEF RollupInv
<1> DEFINE S == UNION {hourly[h] : h \in {k \in Hour : DayOf(k) = TargetDay}}
           run == [phase |-> "write", bucket |-> TargetDay, rows |-> S, fresh |-> TRUE]
<1>1. /\ runs' = [runs EXCEPT ![j] = run] /\ TargetDay >= 0 /\ TargetDay = DayOf(now) - 1
      /\ UNCHANGED <<study, taken, unsent, raw, hourly, daily, now, up, ran, timely, raced, outdated, outages>>
  BY DEF DailyRead, agentVars, ghostVars, TargetDay
<1>2. \A r \in S : r \in Row /\ AtHour(r) \in Nat /\ AtDay(r) = TargetDay
  BY DEF RollupTypeOK, AtHour, AtDay
<1>3. \A h \in Hour : DayOf(h) = TargetDay => hourly[h] \subseteq S OBVIOUS
<1>4. TargetDay \in Hour /\ TargetDay \in Nat
  <2>1. DayOf(now) \in Nat /\ DayOf(now) <= now
    BY DayAtMost
  <2> QED BY <1>1, <2>1, Constants DEF Hour
<1> HIDE DEF S
<1>5. run \in Run BY <1>2, <1>4 DEF Run
<1>6. /\ runs' \in [Job -> Run] /\ runs'[j].phase = "write" /\ runs'[j].bucket = TargetDay
      /\ runs'[j].rows = S /\ runs'[j].fresh
      /\ \A i \in Job : i # j => runs'[i] = runs[i]
  BY <1>1, <1>5, RunsAre
<1> HIDE DEF run
<1>7. \A r : AtHour(r)' = AtHour(r) /\ AtDay(r)' = AtDay(r) /\ Quiet(r)' = Quiet(r)
  BY <1>1 DEF AtHour, AtDay, Quiet
<1>8. RollupTypeOK' BY <1>1, <1>6 DEF RollupTypeOK, Run
<1>9. Dated' BY <1>1, <1>7 DEF Dated
<1>10. Running'
  <2>1. DayOf(now) \in Nat BY DayIs
  <2>2. TargetDay < DayOf(now) /\ \A r \in S : AtHour(r) >= 0 /\ AtDay(r) = TargetDay
    BY <1>1, <1>2, <2>1
  <2> QED BY <1>1, <1>6, <1>7, <2>2 DEF Running
<1>11. Kept' /\ Complete' /\ Growing' BY <1>1, <1>6, <1>7 DEF Kept, Complete, Growing
<1>12. HourCounted' BY <1>1, <1>7 DEF HourCounted, HourOver
<1>13. ASSUME now + 1 = End(TargetDay), NEW r \in timely, AtDay(r) = TargetDay, Quiet(r)
       PROVE  r \in S
  BY <1>3, <1>4, <1>13, LastHourCounts
<1>14. LastRun' BY <1>1, <1>6, <1>7, <1>13 DEF LastRun
<1>15. now + 1 <= End(TargetDay)
  <2>1. DayOf(now) \in Nat /\ TargetDay \in Int BY <1>4, DayIs
  <2>2. DayOf(now) = TargetDay + 1 BY <1>1, <2>1
  <2>3. /\ DayOf(now) * HoursPerDay = TargetDay * HoursPerDay + HoursPerDay
        /\ TargetDay * HoursPerDay \in Int
        /\ End(TargetDay) = TargetDay * HoursPerDay + 2 * HoursPerDay
    BY <2>1, <2>2, Multiples
  <2>4. now < DayOf(now) * HoursPerDay + HoursPerDay BY DayIs
  <2> QED BY <2>3, <2>4, Constants
<1>16. DayOver(TargetDay) => now + 1 = End(TargetDay)
  <2>1. End(TargetDay) \in Int BY <1>4, Multiples
  <2> QED BY <1>15, <2>1 DEF DayOver
<1>17. LaterRun'
  <2> SUFFICES ASSUME NEW i \in DailyJob, i \notin raced, runs'[i].phase = "write",
                      DayOver(runs'[i].bucket), NEW r \in timely,
                      AtDay(r) = runs'[i].bucket, Quiet(r)
               PROVE  r \in runs'[i].rows
    BY <1>1, <1>7 DEF LaterRun, DayOver
  <2>1. CASE i = j BY <1>6, <1>13, <1>16, <2>1
  <2>2. CASE i # j BY <1>6, <2>2 DEF LaterRun
  <2> QED BY <2>1, <2>2
<1>18. DayCounted' BY <1>1, <1>7 DEF DayCounted, DayOver
<1> QED BY <1>8, <1>9, <1>10, <1>11, <1>12, <1>14, <1>17, <1>18

LEMMA DailyWriteKeeps ==
  ASSUME RollupInv, NEW j \in DailyJob, DailyWrite(j)
  PROVE  RollupInv'
<1> USE TypesAre, JobsAre DEF RollupInv
<1> DEFINE b == runs[j].bucket
           S == runs[j].rows
<1>1. /\ runs[j].phase = "write" /\ runs' = [runs EXCEPT ![j] = NoRun]
      /\ daily' = IF S = {} THEN daily ELSE [daily EXCEPT ![b] = S]
      /\ ran' = IF runs[j].fresh THEN ran \cup {"daily"} ELSE ran
      /\ raced' = (raced \ {j}) \cup Overtaken(j, DailyJob)
      /\ S = {} => outdated' = outdated
      /\ S # {} /\ j \in raced => outdated' = outdated \cup {b}
      /\ S # {} /\ j \notin raced => outdated' = outdated \ {b}
      /\ UNCHANGED <<study, taken, unsent, raw, hourly, now, up, timely, outages>>
  BY DEF DailyWrite, Ended, agentVars
<1>2. /\ runs' \in [Job -> Run] /\ runs'[j].phase = "idle" /\ \A i \in Job : i # j => runs'[i] = runs[i]
  BY <1>1, RunsAre DEF NoRun
<1>3. /\ b \in Nat /\ S \subseteq Row /\ b < DayOf(now) /\ (runs[j].fresh => b = DayOf(now) - 1)
      /\ \A r \in S : AtHour(r) >= 0 /\ AtDay(r) = b
  BY <1>1 DEF Running, Run
<1>4. b \in Day
  <2>1. now \in Nat /\ MaxHour \in Nat /\ now <= MaxHour BY Constants DEF Hour
  <2>2. DayOf(now) <= DayOf(MaxHour) /\ DayOf(now) \in Nat /\ DayOf(MaxHour) \in Nat
    BY <2>1, DayGrows, DayIs
  <2> QED BY <1>3, <2>2 DEF Day
<1>5. /\ daily' \in [Day -> SUBSET Row]
      /\ \A d \in Day : daily'[d] = daily[d] \/ (d = b /\ daily'[d] = S)
      /\ S # {} => daily'[b] = S
  BY <1>1, <1>3, <1>4 DEF RollupTypeOK
<1>6. /\ \A i \in DailyJob : runs[j].fresh /\ now + 1 = End(b) =>
           \A r \in timely : AtDay(r) = b /\ Quiet(r) => r \in S
      /\ j \notin raced /\ DayOver(b) =>
           \A r \in timely : AtDay(r) = b /\ Quiet(r) => r \in S
  BY <1>1 DEF LastRun, LaterRun
<1> HIDE DEF b, S
<1>7. \A r : AtHour(r)' = AtHour(r) /\ AtDay(r)' = AtDay(r) /\ Quiet(r)' = Quiet(r)
  BY <1>1 DEF AtHour, AtDay, Quiet
<1>8. RollupTypeOK'
  <2>1. \A d \in Day : \A r \in daily'[d] : DayOf(taken'[r[1]]) = d
    BY <1>1, <1>3, <1>5 DEF RollupTypeOK, AtHour, AtDay
  <2>2. raced' \subseteq HourlyJob \cup DailyJob BY <1>1 DEF RollupTypeOK, Overtaken
  <2>3. outdated' \subseteq Day BY <1>1, <1>4 DEF RollupTypeOK
  <2>4. ran' \subseteq {"hourly", "daily"} BY <1>1 DEF RollupTypeOK
  <2> QED BY <1>1, <1>2, <1>5, <2>1, <2>2, <2>3, <2>4 DEF RollupTypeOK, Run
<1>9. Dated'
  <2>1. \A d \in Day : \A r \in daily'[d] : AtHour(r) >= 0 BY <1>3, <1>5 DEF Dated
  <2> QED BY <1>1, <1>7, <2>1 DEF Dated
<1>10. Running' BY <1>1, <1>2, <1>7 DEF Running
<1>11. Kept' /\ Complete' BY <1>1, <1>2, <1>7 DEF Kept, Complete
<1>12. Growing' BY <1>1, <1>2 DEF Growing
<1>13. HourCounted' BY <1>1, <1>7 DEF HourCounted, HourOver
<1>14. LastRun' BY <1>1, <1>2, <1>7 DEF LastRun
<1> DEFINE Over(d) == IF now + 1 = End(d) THEN "daily" \in ran' ELSE now >= End(d)
<1>15. ASSUME NEW d \in Nat, Over(d), ~DayOver(d) PROVE d = b /\ runs[j].fresh /\ now + 1 = End(b)
  <2>1. now + 1 = End(d) /\ runs[j].fresh BY <1>1, <1>15 DEF DayOver
  <2>2. DayOf(now) = d + 1 BY <2>1, LastHour
  <2> QED BY <1>3, <2>1, <2>2
<1>16. LaterRun'
  <2> SUFFICES ASSUME NEW i \in DailyJob, i \notin raced', runs'[i].phase = "write",
                      Over(runs'[i].bucket), NEW r \in timely,
                      AtDay(r) = runs'[i].bucket, Quiet(r)
               PROVE  r \in runs'[i].rows
    BY <1>1, <1>7 DEF LaterRun, DayOver, End
  <2>1. i # j /\ runs'[i] = runs[i] BY <1>2
  <2>2. (runs[i].bucket # b \/ S = {}) /\ i \notin raced BY <1>1, <2>1 DEF Overtaken, b, S
  <2>3. runs[i].bucket \in Nat BY DEF Run
  <2>4. DayOver(runs[i].bucket)
    <3> SUFFICES ASSUME ~DayOver(runs[i].bucket) PROVE FALSE OBVIOUS
    <3>1. runs[i].bucket = b /\ runs[j].fresh /\ now + 1 = End(b) BY <1>15, <2>1, <2>3
    <3> QED BY <1>6, <2>1, <2>2, <3>1
  <2> QED BY <2>1, <2>2, <2>4 DEF LaterRun
<1>17. DayCounted'
  <2> SUFFICES ASSUME NEW r \in timely, Over(AtDay(r)), Quiet(r), AtDay(r) \notin outdated',
                      AtDay(r) * HoursPerDay >= now - DailyKept
               PROVE  r \in daily'[AtDay(r)]
    BY <1>1, <1>7 DEF DayCounted, DayOver, End
  <2>1. AtDay(r) \in Nat /\ AtDay(r) \in Day
    <3>1. AtHour(r) \in Nat /\ AtHour(r) <= MaxHour BY Constants DEF Dated, Hour
    <3>2. DayOf(AtHour(r)) <= DayOf(MaxHour) BY <3>1, Constants, DayGrows
    <3> QED BY <3>1, <3>2, DayIs, Constants DEF AtDay, Day
  <2>2. CASE AtDay(r) # b
    <3>1. DayOver(AtDay(r)) BY <1>15, <2>1, <2>2
    <3>2. AtDay(r) \notin outdated BY <1>1, <2>2
    <3> QED BY <1>5, <2>1, <2>2, <3>1, <3>2 DEF DayCounted
  <2>3. CASE AtDay(r) = b /\ S = {}
    <3>1. DayOver(b) BY <1>3, <1>6, <1>15, <2>3
    <3> QED BY <1>1, <2>3, <3>1 DEF DayCounted
  <2>4. CASE AtDay(r) = b /\ S # {}
    <3>1. j \notin raced BY <1>1, <2>4
    <3>2. r \in S BY <1>3, <1>6, <1>15, <2>4, <3>1
    <3> QED BY <1>5, <2>4, <3>2
  <2> QED BY <2>2, <2>3, <2>4
<1> QED BY <1>8, <1>9, <1>10, <1>11, <1>12, <1>13, <1>14, <1>16, <1>17

LEMMA CleanupRawKeeps ==
  ASSUME RollupInv, NEW j \in CleanupJob, CleanupRaw(j)
  PROVE  RollupInv'
<1> USE TypesAre, JobsAre DEF RollupInv
<1> DEFINE run == [NoRun EXCEPT !.phase = "hourly", !.bucket = now]
<1>1. /\ runs' = [runs EXCEPT ![j] = run] /\ raw' = raw \ OldRaw
      /\ UNCHANGED <<study, taken, unsent, hourly, daily, now, up, ran, timely, raced, outdated, outages>>
  BY DEF CleanupRaw, agentVars, ghostVars
<1>2. run \in Run BY DEF Run, NoRun
<1>3. /\ runs' \in [Job -> Run] /\ runs'[j].phase = "hourly" /\ runs'[j].bucket = now
      /\ \A i \in Job : i # j => runs'[i] = runs[i]
  BY <1>1, <1>2, RunsAre DEF NoRun
<1> HIDE DEF run
<1>4. raw' \subseteq raw /\ \A r \in raw : AtHour(r) >= now - RawKept => r \in raw'
  BY <1>1, Constants DEF OldRaw, AtHour
<1>5. \A r : AtHour(r)' = AtHour(r) /\ AtDay(r)' = AtDay(r) /\ Quiet(r)' = Quiet(r)
  BY <1>1 DEF AtHour, AtDay, Quiet
<1>6. RollupTypeOK' BY <1>1, <1>3, <1>4 DEF RollupTypeOK, Run
<1>7. Dated' BY <1>1, <1>4, <1>5 DEF Dated
<1>8. Running' BY <1>1, <1>3, <1>5 DEF Running
<1>9. Kept'
  <2>1. \A h \in Hour : h >= now - RawKept => hourly[h] \subseteq raw'
    BY <1>4 DEF Kept, RollupTypeOK, AtHour
  <2>2. \A i \in HourlyJob : runs[i].phase = "write" /\ runs[i].bucket >= now - RawKept =>
          runs[i].rows \subseteq raw'
    BY <1>4 DEF Kept, Running
  <2>3. \A r \in timely : AtHour(r) >= now - RawKept => r \in raw' BY <1>4 DEF Kept
  <2> QED BY <1>1, <1>3, <1>5, <2>1, <2>2, <2>3 DEF Kept
<1>10. Complete' /\ Growing' BY <1>1, <1>3, <1>5 DEF Complete, Growing
<1>11. HourCounted' BY <1>1, <1>5 DEF HourCounted, HourOver
<1>12. LastRun' /\ LaterRun' BY <1>1, <1>3, <1>5 DEF LastRun, LaterRun, DayOver
<1>13. DayCounted' BY <1>1, <1>5 DEF DayCounted, DayOver
<1> QED BY <1>6, <1>7, <1>8, <1>9, <1>10, <1>11, <1>12, <1>13

LEMMA CleanupHourlyKeeps ==
  ASSUME RollupInv, NEW j \in CleanupJob, CleanupHourly(j)
  PROVE  RollupInv'
<1> USE TypesAre, JobsAre DEF RollupInv
<1> DEFINE run == [runs[j] EXCEPT !.phase = "daily"]
<1>1. /\ runs' = [runs EXCEPT ![j] = run] /\ runs[j].bucket <= now /\ runs[j].bucket \in Nat
      /\ hourly' = [h \in Hour |-> IF h < runs[j].bucket - HourlyKept THEN {} ELSE hourly[h]]
      /\ UNCHANGED <<study, taken, unsent, raw, daily, now, up, ran, timely, raced, outdated, outages>>
  BY DEF CleanupHourly, agentVars, ghostVars, Running, Run
<1>2. run \in Run BY DEF Run
<1>3. /\ runs' \in [Job -> Run] /\ runs'[j].phase = "daily" /\ runs'[j].bucket = runs[j].bucket
      /\ \A i \in Job : i # j => runs'[i] = runs[i]
  BY <1>1, <1>2, RunsAre DEF Run
<1> HIDE DEF run
<1>4. /\ hourly' \in [Hour -> SUBSET Row]
      /\ \A h \in Hour : hourly'[h] \subseteq hourly[h]
      /\ \A h \in Hour : h >= now - HourlyKept => hourly'[h] = hourly[h]
  BY <1>1, Constants DEF RollupTypeOK
<1>5. \A r : AtHour(r)' = AtHour(r) /\ AtDay(r)' = AtDay(r) /\ Quiet(r)' = Quiet(r)
  BY <1>1 DEF AtHour, AtDay, Quiet
<1>6. RollupTypeOK'
  <2>1. \A h \in Hour : \A r \in hourly'[h] : taken'[r[1]] = h BY <1>1, <1>4 DEF RollupTypeOK
  <2> QED BY <1>1, <1>3, <1>4, <2>1 DEF RollupTypeOK, Run
<1>7. Dated' BY <1>1, <1>5 DEF Dated
<1>8. Running' BY <1>1, <1>3, <1>5 DEF Running
<1>9. Kept' BY <1>1, <1>3, <1>4, <1>5 DEF Kept
<1>10. Complete' BY <1>1, <1>3, <1>5 DEF Complete
<1>11. Growing'
  <2>1. \A i \in HourlyJob : runs'[i] = runs[i] /\ runs[i].bucket \in Hour BY <1>3 DEF Run
  <2> QED BY <1>1, <1>4, <2>1 DEF Growing
<1>12. HourCounted'
  <2>1. \A r \in timely : AtHour(r) \in Hour BY DEF Dated
  <2> QED BY <1>1, <1>4, <1>5, <2>1 DEF HourCounted, HourOver
<1>13. LastRun' /\ LaterRun' BY <1>1, <1>3, <1>5 DEF LastRun, LaterRun, DayOver
<1>14. DayCounted' BY <1>1, <1>5 DEF DayCounted, DayOver
<1> QED BY <1>6, <1>7, <1>8, <1>9, <1>10, <1>11, <1>12, <1>13, <1>14

LEMMA CleanupDailyKeeps ==
  ASSUME RollupInv, NEW j \in CleanupJob, CleanupDaily(j)
  PROVE  RollupInv'
<1> USE TypesAre, JobsAre DEF RollupInv
<1>1. /\ runs' = [runs EXCEPT ![j] = NoRun] /\ runs[j].bucket <= now /\ runs[j].bucket \in Nat
      /\ daily' = [d \in Day |-> IF d * HoursPerDay < runs[j].bucket - DailyKept THEN {} ELSE daily[d]]
      /\ UNCHANGED <<study, taken, unsent, raw, hourly, now, up, ran, timely, raced, outdated, outages>>
  BY DEF CleanupDaily, agentVars, ghostVars, Running, Run
<1>2. /\ runs' \in [Job -> Run] /\ runs'[j].phase = "idle"
      /\ \A i \in Job : i # j => runs'[i] = runs[i]
  BY <1>1, RunsAre DEF NoRun
<1>3. \A d \in Day : d * HoursPerDay \in Int BY Constants DEF Day
<1>4. /\ daily' \in [Day -> SUBSET Row]
      /\ \A d \in Day : daily'[d] \subseteq daily[d]
      /\ \A d \in Day : d * HoursPerDay >= now - DailyKept => daily'[d] = daily[d]
  BY <1>1, <1>3, Constants DEF RollupTypeOK
<1>5. \A r : AtHour(r)' = AtHour(r) /\ AtDay(r)' = AtDay(r) /\ Quiet(r)' = Quiet(r)
  BY <1>1 DEF AtHour, AtDay, Quiet
<1>6. RollupTypeOK'
  <2>1. \A d \in Day : \A r \in daily'[d] : DayOf(taken'[r[1]]) = d BY <1>1, <1>4 DEF RollupTypeOK
  <2> QED BY <1>1, <1>2, <1>4, <2>1 DEF RollupTypeOK, Run
<1>7. Dated' BY <1>1, <1>4, <1>5 DEF Dated
<1>8. Running' BY <1>1, <1>2, <1>5 DEF Running, NoRun
<1>9. Kept' /\ Complete' /\ Growing' BY <1>1, <1>2, <1>5 DEF Kept, Complete, Growing
<1>10. HourCounted' BY <1>1, <1>5 DEF HourCounted, HourOver
<1>11. LastRun' /\ LaterRun' BY <1>1, <1>2, <1>5 DEF LastRun, LaterRun, DayOver
<1>12. DayCounted'
  <2>1. \A r \in timely : AtDay(r) \in Day
    <3> SUFFICES ASSUME NEW r \in timely PROVE AtDay(r) \in Day OBVIOUS
    <3>1. AtHour(r) \in Nat /\ AtHour(r) <= MaxHour BY Constants DEF Dated, Hour
    <3>2. DayOf(AtHour(r)) <= DayOf(MaxHour) BY <3>1, Constants, DayGrows
    <3> QED BY <3>1, <3>2, DayIs, Constants DEF AtDay, Day
  <2> QED BY <1>1, <1>4, <1>5, <2>1 DEF DayCounted, DayOver
<1> QED BY <1>6, <1>7, <1>8, <1>9, <1>10, <1>11, <1>12

LEMMA HourPassesKeeps ==
  ASSUME RollupInv, HourPasses
  PROVE  RollupInv'
<1> USE TypesAre, JobsAre DEF RollupInv
<1>1. /\ now < study.hours /\ now' = now + 1 /\ ran' = {}
      /\ runs' = [j \in Job |-> [runs[j] EXCEPT !.fresh = FALSE]]
      /\ Required \subseteq ran \/ now \in outages
      /\ outages \subseteq outages' /\ outages' \subseteq outages \cup {now + 1}
      /\ UNCHANGED <<study, taken, unsent, raw, hourly, daily, up, timely, raced, outdated>>
  BY DEF HourPasses, agentVars
<1>2. now + 1 \in Hour
  <2>1. study.hours \in 0..MaxHour BY BoundAssumption DEF RollupTypeOK
  <2> QED BY <1>1, <2>1, Constants DEF Hour
<1>3. \A j \in Job : /\ runs'[j] \in Run /\ ~runs'[j].fresh /\ runs'[j].phase = runs[j].phase
                     /\ runs'[j].bucket = runs[j].bucket /\ runs'[j].rows = runs[j].rows
  BY <1>1 DEF Run
<1>4. runs' \in [Job -> Run] BY <1>1, <1>3
<1>5. \A r : AtHour(r)' = AtHour(r) /\ AtDay(r)' = AtDay(r) /\ (Quiet(r)' => Quiet(r))
  BY <1>1 DEF AtHour, AtDay, Quiet
<1>6. \A j \in Job : runs[j].bucket \in Nat BY DEF Run
<1>7. RollupTypeOK' BY <1>1, <1>2, <1>4 DEF RollupTypeOK, Run
<1>8. Dated'
  <2>1. \A s \in Sample : taken[s] <= now + 1 BY Constants DEF Dated, Hour
  <2>2. outages' \subseteq 0..(now + 1) BY <1>1 DEF Dated
  <2> QED BY <1>1, <1>5, <2>1, <2>2 DEF Dated
<1>9. Running'
  <2>1. DayOf(now) <= DayOf(now + 1) /\ DayOf(now) \in Nat /\ DayOf(now + 1) \in Nat
    BY DayGrows, DayIs
  <2>2. DayOf(now)' = DayOf(now + 1) BY <1>1 DEF DayOf
  <2>3. \A j \in HourlyJob : runs'[j].phase = "write" => runs'[j].bucket < now' BY <1>1, <1>3, <1>6 DEF Running
  <2>4. \A j \in DailyJob : runs'[j].phase = "write" => runs'[j].bucket < DayOf(now)'
    BY <1>3, <1>6, <2>1, <2>2 DEF Running
  <2>5. \A j \in CleanupJob : runs'[j].bucket <= now' BY <1>1, <1>3, <1>6 DEF Running
  <2> QED BY <1>1, <1>3, <1>5, <2>3, <2>4, <2>5 DEF Running
<1>10. Kept' BY <1>1, <1>3, <1>5, <1>6, Constants DEF Kept, Dated
<1>11. Complete' /\ Growing' BY <1>1, <1>3, <1>5 DEF Complete, Growing
<1>12. HourCounted'
  <2> SUFFICES ASSUME NEW r \in timely, HourOver(AtHour(r))', AtHour(r) >= now' - HourlyKept
               PROVE  r \in hourly[AtHour(r)]
    BY <1>1, <1>5 DEF HourCounted
  <2> DEFINE h == AtHour(r)
  <2>1. h \in Nat BY DEF Dated
  <2>2. now >= h + 1 /\ h + 1 \notin outages BY <1>1, <1>5, <2>1 DEF HourOver
  <2>3. HourOver(h)
    <3>1. CASE now = h + 1
      <4>1. TargetHour >= 0 BY <2>1, <3>1 DEF TargetHour
      <4> QED BY <1>1, <2>2, <3>1, <4>1 DEF HourOver, Required
    <3>2. CASE now # h + 1 BY <2>1, <2>2, <3>2 DEF HourOver
    <3> QED BY <3>1, <3>2
  <2> QED BY <1>1, <2>1, <2>3, Constants DEF HourCounted
<1>13. LastRun' BY <1>3 DEF LastRun
<1>14. ASSUME NEW r \in timely, DayOver(AtDay(r))', Quiet(r)' PROVE DayOver(AtDay(r)) /\ Quiet(r)
  <2> DEFINE h == AtHour(r)
             d == AtDay(r)
  <2>1. h \in Nat /\ d = DayOf(h) BY DEF Dated, AtDay
  <2>2. d \in Nat /\ End(d) \in Nat /\ h + 1 <= End(d) - 1
    <3>1. d \in Nat BY <2>1, DayIs
    <3>2. End(d) \in Nat /\ h + 2 < End(d) BY <2>1, EndIs
    <3> QED BY <2>1, <3>1, <3>2
  <2>3. now + 1 >= End(d) BY <1>1, <1>5, <1>14, <2>2 DEF DayOver, End
  <2>4. CASE now + 1 = End(d)
    <3>1. now \in (h + 1)..(End(d) - 1) BY <2>1, <2>2, <2>4
    <3>2. Quiet(r) BY <1>5, <1>14
    <3>3. now \notin outages BY <3>1, <3>2 DEF Quiet
    <3>4. DayOf(now) = d + 1 BY <2>2, <2>4, LastHour
    <3>5. TargetDay >= 0 BY <2>2, <3>4 DEF TargetDay
    <3>6. "daily" \in ran BY <1>1, <3>3, <3>5 DEF Required
    <3> QED BY <2>4, <3>2, <3>6 DEF DayOver
  <2>5. CASE now + 1 # End(d)
    <3>1. now >= End(d) BY <2>2, <2>3, <2>5
    <3> QED BY <1>5, <1>14, <2>5, <3>1 DEF DayOver
  <2> QED BY <2>4, <2>5
<1>15. LaterRun' BY <1>1, <1>3, <1>5, <1>14 DEF LaterRun
<1>16. DayCounted'
  <2>1. \A r \in timely : AtDay(r) * HoursPerDay \in Nat BY DayIs DEF Dated, AtDay
  <2> QED BY <1>1, <1>5, <1>14, <2>1, Constants DEF DayCounted
<1> QED BY <1>7, <1>8, <1>9, <1>10, <1>11, <1>12, <1>13, <1>15, <1>16

LEMMA ServerStopsKeeps ==
  ASSUME RollupInv, ServerStops
  PROVE  RollupInv'
<1> USE TypesAre, JobsAre DEF RollupInv
<1>1. /\ up' = FALSE /\ outages' = outages \cup {now} /\ runs' = [j \in Job |-> NoRun] /\ raced' = {}
      /\ UNCHANGED <<study, taken, unsent, raw, hourly, daily, now, ran, timely, outdated>>
  BY DEF ServerStops, agentVars
<1>2. \A r : AtHour(r)' = AtHour(r) /\ AtDay(r)' = AtDay(r) /\ (Quiet(r)' => Quiet(r))
  BY <1>1 DEF AtHour, AtDay, Quiet
<1>3. runs' \in [Job -> Run] /\ \A j \in Job : runs'[j].phase = "idle" /\ runs'[j].bucket = 0
  BY <1>1 DEF NoRun
<1>4. RollupTypeOK' BY <1>1, <1>3 DEF RollupTypeOK, Run
<1>5. Dated'
  <2>1. now \in 0..now BY Constants DEF Hour
  <2>2. outages' \subseteq 0..now BY <1>1, <2>1 DEF Dated
  <2> QED BY <1>1, <1>2, <2>2 DEF Dated
<1>6. Running' BY <1>1, <1>3 DEF Running
<1>7. Kept' /\ Complete' /\ Growing' /\ LastRun' /\ LaterRun'
  BY <1>1, <1>2, <1>3 DEF Kept, Complete, Growing, LastRun, LaterRun
<1>8. HourCounted' BY <1>1, <1>2 DEF HourCounted, HourOver
<1>9. DayCounted' BY <1>1, <1>2 DEF DayCounted, DayOver
<1> QED BY <1>4, <1>5, <1>6, <1>7, <1>8, <1>9

LEMMA RollupStartsRight ==
  ASSUME RollupInit
  PROVE  RollupInv
<1>1. \A j \in Job : runs[j].phase = "idle" /\ runs[j].bucket = 0 BY DEF RollupInit, NoRun
<1>2. RollupTypeOK BY Constants, DayIs DEF RollupInit, RollupTypeOK, NoRun, Hour, Day
<1> QED BY <1>1, <1>2, JobsAre
        DEF RollupInit, RollupInv, Dated, Running, Kept, Complete, Growing, HourCounted,
            LastRun, LaterRun, DayCounted, Hour, Day

LEMMA RollupUnchanged ==
  ASSUME RollupInv, UNCHANGED <<study, taken, unsent, raw, hourly, daily, runs, now, ran, timely,
                                raced, outdated, outages>>,
         up' \in BOOLEAN
  PROVE  RollupInv'
<1>1. \A r : AtHour(r)' = AtHour(r) /\ AtDay(r)' = AtDay(r) /\ Quiet(r)' = Quiet(r)
  BY DEF AtHour, AtDay, Quiet
<1>2. RollupTypeOK' /\ Dated' /\ Running' BY <1>1 DEF RollupInv, RollupTypeOK, Dated, Running
<1>3. Kept' /\ Complete' /\ Growing' BY <1>1 DEF RollupInv, Kept, Complete, Growing
<1>4. HourCounted' /\ LastRun' /\ LaterRun' /\ DayCounted'
  BY <1>1 DEF RollupInv, HourCounted, HourOver, LastRun, LaterRun, DayCounted, DayOver
<1> QED BY <1>2, <1>3, <1>4 DEF RollupInv

LEMMA RollupKept ==
  ASSUME RollupInv, [RollupNext]_rollupVars
  PROVE  RollupInv'
<1>1. ASSUME NEW s \in Sample, TakeSample(s) \/ StoreSample(s) PROVE RollupInv'
  BY <1>1, TakeSampleKeeps, StoreSampleKeeps
<1>2. ASSUME NEW j \in HourlyJob, HourlyRead(j) \/ HourlyWrite(j) PROVE RollupInv'
  BY <1>2, HourlyReadKeeps, HourlyWriteKeeps
<1>3. ASSUME NEW j \in DailyJob, DailyRead(j) \/ DailyWrite(j) PROVE RollupInv'
  BY <1>3, DailyReadKeeps, DailyWriteKeeps
<1>4. ASSUME NEW j \in CleanupJob, CleanupRaw(j) \/ CleanupHourly(j) \/ CleanupDaily(j) PROVE RollupInv'
  BY <1>4, CleanupRawKeeps, CleanupHourlyKeeps, CleanupDailyKeeps
<1>5. CASE HourPasses BY <1>5, HourPassesKeeps
<1>6. CASE ServerStops BY <1>6, ServerStopsKeeps
<1>7. CASE ServerStarts BY <1>7, RollupUnchanged DEF ServerStarts, agentVars, ghostVars
<1>8. CASE UNCHANGED rollupVars
  <2>1. up' \in BOOLEAN BY <1>8 DEF rollupVars, RollupInv, RollupTypeOK
  <2> QED BY <1>8, <2>1, RollupUnchanged DEF rollupVars, agentVars, ghostVars
<1> QED BY <1>1, <1>2, <1>3, <1>4, <1>5, <1>6, <1>7, <1>8 DEF RollupNext

\* From the first hour on, what a run has read and what the clean-up has left are enough
\* for what the rollups have to count.
THEOREM RollupInvariant == RollupSpec => []RollupInv
BY RollupStartsRight, RollupKept, PTL DEF RollupSpec

LEMMA CompleteIfInv ==
  ASSUME RollupInv
  PROVE  RollupsAreComplete
<1> USE TypesAre DEF RollupInv
<1>1. HourlyIsComplete
  <2> SUFFICES ASSUME NEW r \in timely, now >= AtHour(r) + 2, AtHour(r) + 1 \notin outages,
                      AtHour(r) >= now - HourlyKept
               PROVE  r \in hourly[AtHour(r)]
    BY DEF HourlyIsComplete, AtHour
  <2>1. AtHour(r) \in Nat BY DEF Dated
  <2>2. HourOver(AtHour(r)) BY <2>1 DEF HourOver
  <2> QED BY <2>2 DEF HourCounted
<1>2. DailyIsComplete
  <2> SUFFICES ASSUME NEW r \in timely, now >= End(AtDay(r)), Quiet(r),
                      AtDay(r) * HoursPerDay >= now - DailyKept, AtDay(r) \notin outdated
               PROVE  r \in daily[AtDay(r)]
    BY DEF DailyIsComplete, AtHour, AtDay, Quiet, End
  <2>1. AtHour(r) \in Nat BY DEF Dated
  <2>2. End(AtDay(r)) \in Nat BY <2>1, EndIs DEF AtDay
  <2>3. DayOver(AtDay(r)) BY <2>2 DEF DayOver
  <2> QED BY <2>3 DEF DayCounted
<1> QED BY <1>1, <1>2 DEF RollupsAreComplete

\* Metrics stored in time are in the rollups of their hour and of their day, however the
\* runs of the jobs overlap and whatever the clean-up forgets.
THEOREM RollupsStayComplete == RollupSpec => []RollupsAreComplete
<1>1. RollupInv => RollupsAreComplete BY CompleteIfInv
<1> QED BY <1>1, RollupInvariant, PTL

LEMMA GrowsInAStep ==
  ASSUME RollupInv, [RollupNext]_rollupVars
  PROVE  \A h \in Hour :
           \/ hourly[h] \subseteq hourly'[h]
           \/ h < now - HourlyKept
           \/ \E j \in raced \cap HourlyJob : runs[j].bucket = h /\ runs'[j] = NoRun
<1> USE TypesAre, JobsAre DEF RollupInv
<1>1. CASE UNCHANGED hourly BY <1>1
<1>2. ASSUME NEW j \in HourlyJob, HourlyWrite(j)
      PROVE  \A h \in Hour : hourly[h] \subseteq hourly'[h]
               \/ (j \in raced /\ runs[j].bucket = h /\ runs'[j] = NoRun)
  <2>1. /\ runs[j].phase = "write" /\ runs' = [runs EXCEPT ![j] = NoRun]
        /\ hourly' = IF runs[j].rows = {} THEN hourly
                     ELSE [hourly EXCEPT ![runs[j].bucket] = runs[j].rows]
    BY <1>2 DEF HourlyWrite, Ended
  <2>2. j \notin raced => hourly[runs[j].bucket] \subseteq runs[j].rows BY <2>1 DEF Growing
  <2>3. runs'[j] = NoRun BY <2>1
  <2>4. \A h \in Hour : h # runs[j].bucket => hourly'[h] = hourly[h] BY <2>1 DEF RollupTypeOK
  <2>5. runs[j].bucket \in Hour /\ (runs[j].rows # {} => hourly'[runs[j].bucket] = runs[j].rows)
    BY <2>1 DEF RollupTypeOK
  <2> QED BY <2>1, <2>2, <2>3, <2>4, <2>5
<1>3. ASSUME NEW j \in CleanupJob, CleanupHourly(j)
      PROVE  \A h \in Hour : hourly[h] \subseteq hourly'[h] \/ h < now - HourlyKept
  <2>1. runs[j].bucket <= now /\ runs[j].bucket \in Nat BY DEF Running, Run
  <2>2. hourly' = [h \in Hour |-> IF h < runs[j].bucket - HourlyKept THEN {} ELSE hourly[h]]
    BY <1>3 DEF CleanupHourly
  <2> QED BY <2>1, <2>2, Constants
<1>4. ASSUME NEW s \in Sample, TakeSample(s) \/ StoreSample(s) PROVE UNCHANGED hourly
  BY <1>4 DEF TakeSample, StoreSample
<1>5. ASSUME NEW j, HourlyRead(j) \/ DailyRead(j) \/ DailyWrite(j) \/ CleanupRaw(j) \/ CleanupDaily(j)
      PROVE  UNCHANGED hourly
  BY <1>5 DEF HourlyRead, DailyRead, DailyWrite, CleanupRaw, CleanupDaily
<1>6. CASE HourPasses \/ ServerStops \/ ServerStarts \/ UNCHANGED rollupVars
  BY <1>1, <1>6 DEF HourPasses, ServerStops, ServerStarts, rollupVars
<1>7. CASE \E s \in Sample : TakeSample(s) \/ StoreSample(s) BY <1>1, <1>4, <1>7
<1>8. CASE \E j \in HourlyJob : HourlyRead(j) \/ HourlyWrite(j) BY <1>1, <1>2, <1>5, <1>8
<1>9. CASE \E j \in DailyJob : DailyRead(j) \/ DailyWrite(j) BY <1>1, <1>5, <1>9
<1>10. CASE \E j \in CleanupJob : CleanupRaw(j) \/ CleanupHourly(j) \/ CleanupDaily(j)
  BY <1>1, <1>3, <1>5, <1>10
<1> QED BY <1>6, <1>7, <1>8, <1>9, <1>10 DEF RollupNext

\* A rollup of an hour loses what it counted only to the clean-up, or to a run that
\* another one overtook.
THEOREM RollupsGrowInEveryBehaviour == RollupSpec => RollupsGrow
<1>1. RollupInv /\ [RollupNext]_rollupVars =>
      [\A h \in Hour :
         hourly[h] \subseteq hourly'[h] \/ h < now - HourlyKept
         \/ \E j \in raced \cap HourlyJob : runs[j].bucket = h /\ runs'[j] = NoRun]_rollupVars
  BY GrowsInAStep
<1> QED BY <1>1, RollupInvariant, PTL DEF RollupSpec, RollupsGrow

=============================================================================
