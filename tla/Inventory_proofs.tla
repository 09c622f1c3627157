--------------------------- MODULE Inventory_proofs ---------------------------
(***************************************************************************)
(* What is proved of the inventory, for any machines, applications, rules, *)
(* requests at a time, and any number of reports, faults and edits: that a *)
(* snapshot shows what was accepted, that the record of changes adds up,   *)
(* that the list the agent believes in is the one the server has, and that *)
(* a forbidden application has its alert, and one.                         *)
(***************************************************************************)
EXTENDS Inventory, TLAPS, FiniteSetTheorems, SequenceTheorems, WellFoundedInduction

-----------------------------------------------------------------------------
(* The inductive invariant, part by part                                    *)

RequestPhase  == {"idle", "find", "create", "answer"}
FollowupPhase == {"idle", "compare", "record", "alarm", "rules", "look", "raise"}

RequestState ==
  [phase : RequestPhase, report : Report, heard : BOOLEAN, index : Nat, base : Row, count : Nat]
FollowupState ==
  [phase : FollowupPhase, at : Time, count : Nat, found : SUBSET (Change \cup Rule),
   todo : SUBSET App, next : SUBSET App]

Typed ==
  /\ TypeOK
  /\ request \in [Slot -> RequestState] /\ followup \in [Slot -> FollowupState]

\* Nothing is from the future, and a comparison starts when its request is answered.
Ages ==
  /\ \A r \in outbox : r.at # 0 /\ r.at <= now
  /\ \A s \in Slot :
       /\ request[s].report.at <= now /\ request[s].base.hardware <= now
       /\ followup[s].at <= now
       /\ request[s].phase # "idle" => request[s].report.at # 0
       /\ request[s].phase \in {"find", "create"} => followup[s].phase = "idle"
       /\ followup[s].phase = "rules" => followup[s].next = {}
  /\ last <= now /\ unsure <= now /\ \A t \in lists : t # 0 /\ t <= now
  /\ \A e \in examined : e[1] <= now
  /\ \A i \in DOMAIN rows : rows[i].hardware <= now

Forbidden(t, found) == software[t] \cap UNION {Forbids[r] : r \in found}

Examining ==
  /\ \A a \in App : open[a] > 0 => a \in alerted
  /\ \A e \in examined : Forbidden(e[1], e[2]) \subseteq alerted
  /\ \A s \in Slot : followup[s].phase \in {"look", "raise"} =>
       Forbidden(followup[s].at, followup[s].found) \subseteq alerted \cup followup[s].todo

\* While no two evaluations overlapped there is one at most, and nothing it raises is open.
Alone ==
  ~crowded =>
    /\ \A a \in App : open[a] <= 1
    /\ \A s, u \in Slot : followup[s].phase \in {"look", "raise"}
                            /\ followup[u].phase \in {"look", "raise"} => s = u
    /\ \A s \in Slot : followup[s].phase = "raise" => \A a \in followup[s].next : open[a] = 0

Snapshot == {"general", "smart"}

Shown ==
  /\ \A k \in Section \ behind :
       due[k] # 0 => \A i \in FirstOf(DOMAIN rows) : rows[i][k] = due[k]
  /\ \A k \in Section : rows = <<>> => due[k] = 0
  /\ \A k \in {"hardware", "smart"} : due[k] # 0 => \E i \in DOMAIN rows : due[k] <= rows[i].at

\* What a request knows of the latest row, as long as no row was added.
Read ==
  \A s \in Slot : request[s].phase = "create" =>
    /\ request[s].count <= Len(rows)
    /\ request[s].index = 0 => request[s].count = 0 /\ request[s].base = NoRow
    /\ request[s].index # 0 => request[s].count # 0
    /\ Len(rows) = request[s].count /\ request[s].index # 0 /\ request[s].report.kind \in Snapshot =>
         /\ rows[request[s].index].at < request[s].report.at
         /\ \A j \in DOMAIN rows : rows[j].at <= rows[request[s].index].at

IsList(r) == r.kind = "software"

Believing ==
  /\ \A q, r \in live : IsList(q) /\ IsList(r) /\ q # r => r.at <= unsure
  /\ \A r \in live : IsList(r) /\ r.at > unsure => \A t \in lists : t <= r.at
  /\ last > unsure => /\ last \in lists
                      /\ \A t \in lists : t <= last \/ \E r \in live : IsList(r) /\ r.at = t
  /\ \A s \in Slot : request[s].phase = "answer" /\ IsList(request[s].report) =>
       \E t \in lists : request[s].report.at <= t

\* The trail of installations leads to the list of time t.
Leads(t) ==
  /\ \A e \in trail : e.at <= t
  /\ \A a \in App :
       a \in software[t] <=>
         \E e \in trail : e.app = a /\ e.action = "INSTALLED"
                            /\ \A f \in trail : f.app = a => f.at <= e.at

Straight ==
  /\ software[0] = {}
  /\ ~detour =>
       /\ unsure = 0 /\ live = outbox
       /\ \A s \in Slot : request[s].phase # "idle" =>
            request[s].heard /\ request[s].report \in outbox
       /\ \A s, u \in Slot : request[s].phase # "idle" /\ request[u].phase # "idle"
            /\ request[s].report = request[u].report => s = u
       /\ \A r \in live : IsList(r) => r.known = last /\ last < r.at
       /\ \A t \in lists : t <= last \/ \E r \in live : IsList(r) /\ r.at = t
       /\ \A s \in Slot : request[s].phase \in {"find", "create"} /\ IsList(request[s].report) =>
            request[s].report.at \notin lists
       /\ \A r \in live : IsList(r) /\ r.at \in lists =>
            Leads(r.at) /\ \E s \in Slot : request[s].phase = "answer" /\ request[s].report = r
       /\ (\A r \in live : IsList(r) => r.at \notin lists) => Leads(last)

InPhase(phase) == {s \in Slot : followup[s].phase = phase}

Ordered ==
  /\ IsFiniteSet(InPhase("record")) /\ IsFiniteSet(InPhase("alarm"))
  /\ \A s \in InPhase("record") : \E a, b \in Machine : followup[s].found = Differences(a, b)
  /\ ~lapsed =>
       /\ \A i, j \in DOMAIN rows : i < j =>
            rows[i].at < rows[j].at /\ (rows[i].hardware # 0 => rows[j].hardware # 0)
       /\ \A s \in InPhase("compare") :
            /\ followup[s].count \in DOMAIN rows /\ followup[s].at # 0
            /\ rows[followup[s].count].hardware = followup[s].at
       /\ \A s, u \in InPhase("compare") : followup[s].count = followup[u].count => s = u

\* Changes that were found and are not in the table yet.
Recording(field, end, v) ==
  {s \in InPhase("record") : \E c \in followup[s].found : c.field = field /\ c[end][field] = v}

Written(field, end, v) == {i \in DOMAIN changes : changes[i].field = field
                                                    /\ changes[i][end][field] = v}

Balance(field, v) ==
  (Cardinality(Written(field, "to", v)) + Cardinality(Recording(field, "to", v)))
    - (Cardinality(Written(field, "from", v)) + Cardinality(Recording(field, "from", v)))

\* The last row that was compared.
Seen == IF InPhase("compare") = {} THEN Len(rows) ELSE Len(rows) - 1

Known == {i \in DOMAIN rows : rows[i].hardware # 0}

Has(i, field, v) == IF machine[rows[i].hardware][field] = v THEN 1 ELSE 0

Current == \A s \in InPhase("compare") : followup[s].count = Len(rows)

Balanced ==
  ~lapsed =>
    /\ ramAlerts + Cardinality(InPhase("alarm"))
         = Cardinality({i \in DOMAIN changes : LostRam({changes[i]}) # {}})
    /\ Current => \A field \in {"ram", "cpu"} : \A v \in {m[field] : m \in Machine} :
         /\ Seen \notin Known => Balance(field, v) = 0
         /\ \A i \in Known : (\A j \in Known : i <= j) /\ Seen \in Known =>
              Balance(field, v) = Has(Seen, field, v) - Has(i, field, v)

IInv ==
  /\ Typed /\ Ages /\ Examining /\ Alone /\ Shown /\ Read
  /\ Believing /\ Straight /\ Ordered /\ Balanced

-----------------------------------------------------------------------------
(* What the steps write                                                     *)

LEMMA TimeIs ==
  /\ Time \subseteq Nat
  /\ focus \in Focus => 0 \in Time /\ MaxTime[focus] \in Nat /\ 0..MaxTime[focus] \subseteq Time
BY BoundAssumption DEF Time

LEMMA Idle ==
  ASSUME focus \in Focus
  PROVE  /\ NoRow \in Row /\ NoReport \in Report
         /\ NoRequest \in RequestState /\ NoFollowup \in FollowupState
         /\ NoFollowup.phase = "idle" /\ NoFollowup.found = {} /\ NoRequest.phase = "idle"
         /\ NoRequest.heard = FALSE /\ NoRequest.report.at = 0 /\ NoFollowup.at = 0
         /\ NoFollowup.count = 0 /\ NoFollowup.todo = {} /\ NoFollowup.next = {}
         /\ NoRequest.index = 0 /\ NoRequest.base = NoRow
         /\ NoRow.at = 0 /\ NoRow.hardware = 0 /\ NoRow.smart = 0
         /\ NoRow.antivirus = 0 /\ NoRow.firewall = 0
<1>1. 0 \in Time BY TimeIs
<1>2. NoRow \in Row /\ NoReport \in Report BY <1>1 DEF NoRow, NoReport, Row, Report, Kind
<1>3. NoRequest \in RequestState
  BY <1>2 DEF NoRequest, RequestState, RequestPhase
<1>4. NoFollowup \in FollowupState
  BY <1>1 DEF NoFollowup, FollowupState, FollowupPhase
<1> QED BY <1>2, <1>3, <1>4 DEF NoRequest, NoFollowup, NoReport, NoRow

\* The request of s becomes new, the others are as they were.
Requests(s, new) ==
  /\ request' \in [Slot -> RequestState] /\ request'[s] = new
  /\ \A u \in Slot : u # s => request'[u] = request[u]

Follows(s, new) ==
  /\ followup' \in [Slot -> FollowupState] /\ followup'[s] = new
  /\ \A u \in Slot : u # s => followup'[u] = followup[u]

LEMMA RequestsIs ==
  ASSUME Typed, NEW s \in Slot, NEW new \in RequestState,
         request' = [request EXCEPT ![s] = new]
  PROVE  Requests(s, new)
BY DEF Typed, Requests

LEMMA FollowsIs ==
  ASSUME Typed, NEW s \in Slot, NEW new \in FollowupState,
         followup' = [followup EXCEPT ![s] = new]
  PROVE  Follows(s, new)
BY DEF Typed, Follows

\* A request in another phase.
LEMMA PhaseIs ==
  ASSUME Typed, NEW s \in Slot, NEW phase \in RequestPhase,
         request' = [request EXCEPT ![s].phase = phase]
  PROVE  Requests(s, [request[s] EXCEPT !.phase = phase])
<1>1. request[s] \in RequestState BY DEF Typed
<1>2. [request[s] EXCEPT !.phase = phase] \in RequestState BY <1>1 DEF RequestState
<1>3. request' = [request EXCEPT ![s] = [request[s] EXCEPT !.phase = phase]] OBVIOUS
<1> QED BY <1>2, <1>3, RequestsIs

LEMMA DeliverIs ==
  ASSUME Typed, NEW s \in Slot, NEW r \in outbox, Deliver(s, r)
  PROVE  /\ Requests(s, [NoRequest EXCEPT !.phase = "find", !.report = r, !.heard = TRUE])
         /\ request'[s].phase = "find" /\ request'[s].report = r /\ request'[s].heard
         /\ request'[s].index = 0 /\ request'[s].base = NoRow
<1> DEFINE new == [NoRequest EXCEPT !.phase = "find", !.report = r, !.heard = TRUE]
<1>1. r \in Report BY DEF Typed, TypeOK
<1>2. NoRequest \in RequestState /\ NoRequest.index = 0 /\ NoRequest.base = NoRow
  BY Idle DEF Typed, TypeOK
<1>3. /\ new \in RequestState /\ new.phase = "find" /\ new.report = r /\ new.heard
      /\ new.index = 0 /\ new.base = NoRow
  BY <1>1, <1>2 DEF RequestState, RequestPhase
<1>4. request' = [request EXCEPT ![s] = new] BY DEF Deliver
<1> HIDE DEF new
<1>5. Requests(s, new) BY <1>3, <1>4, RequestsIs
<1>6. request'[s] = new BY <1>5 DEF Requests
<1> QED BY <1>3, <1>5, <1>6 DEF new

LEMMA TimeOutIs ==
  ASSUME Typed, NEW s \in Slot, TimeOut(s)
  PROVE  Requests(s, [request[s] EXCEPT !.heard = FALSE])
<1>1. request[s] \in RequestState BY DEF Typed
<1>2. [request[s] EXCEPT !.heard = FALSE] \in RequestState BY <1>1 DEF RequestState
<1>3. request' = [request EXCEPT ![s] = [request[s] EXCEPT !.heard = FALSE]] BY DEF TimeOut
<1> QED BY <1>2, <1>3, RequestsIs

LEMMA LatestIs ==
  ASSUME Typed, NEW i \in Latest
  PROVE  /\ i \in 0..Len(rows)
         /\ i = 0 => rows = <<>>
         /\ rows = <<>> => i = 0
         /\ i # 0 => i \in DOMAIN rows /\ i \in FirstOf(DOMAIN rows) /\ rows[i] \in Row
<1>1. rows \in Seq(Row) BY DEF Typed, TypeOK
<1>2. CASE rows = <<>> BY <1>2 DEF Latest
<1>3. CASE rows # <<>>
  <2>1. i \in FirstOf(DOMAIN rows) /\ i \in DOMAIN rows BY <1>3 DEF Latest, FirstOf
  <2>2. i \in 1..Len(rows) /\ Len(rows) \in Nat BY <1>1, <2>1
  <2> QED BY <1>1, <1>3, <2>1, <2>2
<1> QED BY <1>2, <1>3

\* What a request found, and what it decided.
Found(s, i) ==
  /\ Requests(s, request'[s])
  /\ request'[s].phase = IF Stale(request[s].report, i) \/ Unfounded(request[s].report, i)
                        THEN "answer" ELSE "create"
  /\ request'[s].report = request[s].report /\ request'[s].heard = request[s].heard
  /\ request'[s].index = i /\ request'[s].count = Len(rows)
  /\ request'[s].base = IF i = 0 THEN NoRow ELSE rows[i]

LEMMA FindIs ==
  ASSUME Typed, NEW s \in Slot, Find(s)
  PROVE  \E i \in Latest : Found(s, i)
<1>1. PICK i \in Latest :
        request' = [request EXCEPT
          ![s].phase = IF Stale(request[s].report, i) \/ Unfounded(request[s].report, i)
                       THEN "answer" ELSE "create",
          ![s].index = i, ![s].count = Len(rows), ![s].base = IF i = 0 THEN NoRow ELSE rows[i]]
  BY DEF Find
<1> DEFINE phase == IF Stale(request[s].report, i) \/ Unfounded(request[s].report, i)
                    THEN "answer" ELSE "create"
           base  == IF i = 0 THEN NoRow ELSE rows[i]
           new   == [request[s] EXCEPT !.phase = phase, !.index = i, !.count = Len(rows),
                                       !.base = base]
<1>2. request[s] \in RequestState /\ rows \in Seq(Row) /\ focus \in Focus BY DEF Typed, TypeOK
<1>3. i \in Nat /\ Len(rows) \in Nat /\ base \in Row BY <1>2, LatestIs, Idle
<1>4. phase \in {"answer", "create"} OBVIOUS
<1>5. request' = [request EXCEPT ![s] = new] BY <1>1
<1> HIDE DEF phase, base
<1>6. new \in RequestState BY <1>2, <1>3, <1>4 DEF RequestState, RequestPhase
<1>7. Requests(s, new) BY <1>5, <1>6, RequestsIs
<1>8. request'[s] = new BY <1>7 DEF Requests
<1>9. /\ new.phase = phase /\ new.report = request[s].report /\ new.heard = request[s].heard
      /\ new.index = i /\ new.count = Len(rows) /\ new.base = base
  BY <1>2 DEF RequestState
<1> QED BY <1>7, <1>8, <1>9 DEF Found, phase, base

\* The comparison of s in another phase.
LEMMA GotoIs ==
  ASSUME Typed, NEW s \in Slot, NEW phase \in FollowupPhase, Goto(s, phase)
  PROVE  /\ Follows(s, followup'[s])
         /\ followup'[s].phase = phase /\ followup'[s].at = followup[s].at
         /\ followup'[s].found = followup[s].found /\ followup'[s].todo = followup[s].todo
         /\ followup'[s].next = followup[s].next
<1> DEFINE new == [followup[s] EXCEPT !.phase = phase]
<1>1. followup[s] \in FollowupState BY DEF Typed
<1>2. new \in FollowupState BY <1>1 DEF FollowupState
<1>3. followup' = [followup EXCEPT ![s] = new] BY DEF Goto
<1>4. Follows(s, new) BY <1>2, <1>3, FollowsIs
<1>5. followup'[s] = new BY <1>4 DEF Follows
<1> QED BY <1>1, <1>4, <1>5 DEF FollowupState

LEMMA FinishIs ==
  ASSUME Typed, NEW s \in Slot, Finish(s)
  PROVE  Follows(s, NoFollowup) /\ followup'[s] = NoFollowup
BY Idle, FollowsIs DEF Finish, Typed, TypeOK, Follows

LEMMA SectionIs ==
  ASSUME NEW r \in Report
  PROVE  /\ SectionOf(r.kind) \in Section /\ SectionOf(r.kind) \in {"hardware", "smart"}
         /\ r.kind = "general" => SectionOf(r.kind) = "hardware"
         /\ r.kind = "smart" => SectionOf(r.kind) = "smart"
         /\ \A base \in Row :
              /\ Merged(base, r) \in Row /\ Merged(base, r).at = r.at
              /\ Merged(base, r)[SectionOf(r.kind)] = r.at
              /\ \A k \in Section : k # SectionOf(r.kind) => Merged(base, r)[k] = base[k]
BY DEF Report, Kind, Component, SectionOf, Section, Merged, Row

\* The new row, and the comparison that a general report starts.
LEMMA CreateSnapshotIs ==
  ASSUME Typed, NEW s \in Slot, CreateSnapshot(s)
  PROVE  /\ request[s].report \in Report /\ request[s].base \in Row
         /\ Requests(s, request'[s]) /\ request'[s].phase = "answer"
         /\ request'[s].report = request[s].report
         /\ request'[s].index = request[s].index /\ request'[s].base = request[s].base
         /\ request'[s].heard = request[s].heard
         /\ rows' = Append(rows, Merged(request[s].base, request[s].report))
         /\ rows' \in Seq(Row) /\ Len(rows') = Len(rows) + 1
         /\ \A i \in DOMAIN rows : i \in DOMAIN rows' /\ rows'[i] = rows[i]
         /\ rows'[Len(rows')] = Merged(request[s].base, request[s].report)
         /\ \/ request[s].report.kind = "smart" /\ UNCHANGED followup
            \/ /\ request[s].report.kind = "general"
               /\ Follows(s, followup'[s]) /\ followup'[s].phase = "compare"
               /\ followup'[s].at = request[s].report.at /\ followup'[s].count = Len(rows')
               /\ followup'[s].found = {} /\ followup'[s].todo = {} /\ followup'[s].next = {}
<1> DEFINE r == request[s].report
           row == Merged(request[s].base, r)
           new == [NoFollowup EXCEPT !.phase = "compare", !.at = r.at, !.count = Len(rows) + 1]
<1>1. /\ request[s] \in RequestState /\ r \in Report /\ request[s].base \in Row
      /\ rows \in Seq(Row) /\ focus \in Focus
  BY DEF Typed, TypeOK, RequestState
<1>2. row \in Row BY <1>1, SectionIs
<1>3. Requests(s, [request[s] EXCEPT !.phase = "answer"])
  BY PhaseIs DEF CreateSnapshot, RequestPhase
<1>4. request'[s] = [request[s] EXCEPT !.phase = "answer"] BY <1>3 DEF Requests
<1>5. /\ request'[s].phase = "answer" /\ request'[s].report = r
      /\ request'[s].index = request[s].index /\ request'[s].base = request[s].base
      /\ request'[s].heard = request[s].heard
  BY <1>1, <1>4 DEF RequestState
<1>6. rows' = Append(rows, row) BY DEF CreateSnapshot
<1> HIDE DEF row
<1>7. /\ rows' \in Seq(Row) /\ Len(rows') = Len(rows) + 1 /\ Len(rows) \in Nat
      /\ \A i \in DOMAIN rows : i \in DOMAIN rows' /\ rows'[i] = rows[i]
      /\ rows'[Len(rows')] = row
  BY <1>1, <1>2, <1>6
<1>8. CASE r.kind = "smart" BY <1>1, <1>3, <1>4, <1>5, <1>6, <1>7, <1>8 DEF CreateSnapshot, row
<1>9. CASE r.kind = "general"
  <2>0. /\ Len(rows) + 1 \in Nat /\ r.at \in Time /\ NoFollowup \in FollowupState
        /\ NoFollowup.found = {} /\ NoFollowup.todo = {} /\ NoFollowup.next = {}
    BY <1>1, <1>7, Idle DEF Report
  <2>1. /\ new \in FollowupState /\ new.phase = "compare" /\ new.at = r.at
        /\ new.count = Len(rows) + 1 /\ new.found = {} /\ new.todo = {} /\ new.next = {}
    BY <2>0 DEF FollowupState, FollowupPhase
  <2>2. followup' = [followup EXCEPT ![s] = new] BY <1>9 DEF CreateSnapshot
  <2> HIDE DEF new
  <2>3. Follows(s, new) /\ followup'[s] = new BY <2>1, <2>2, FollowsIs DEF Follows
  <2> QED BY <1>1, <1>3, <1>4, <1>5, <1>6, <1>7, <1>9, <2>1, <2>3 DEF row
<1> QED BY <1>8, <1>9 DEF CreateSnapshot

\* A heartbeat or an event, whichever row it is written to.
LEMMA PostureFrame ==
  ASSUME NEW s \in Slot, UpdatePosture(s)
  PROVE  /\ request[s].phase = "create" /\ request[s].report.kind \in Component \cup {"heartbeat"}
         /\ PostureOf(request[s].report.kind) \subseteq Component
         /\ request' = [request EXCEPT ![s].phase = "answer"]
         /\ due' = [k \in Section |-> IF k \in PostureOf(request[s].report.kind)
                                     THEN Greatest({due[k], request[s].report.at}) ELSE due[k]]
         /\ UNCHANGED <<focus, agentVars, followup, changes, ramAlerts, softwareVars, faults, edits>>
BY DEF UpdatePosture, StorePosture, StoreTransition, Told, PostureOf, Component

LEMMA UpdatePostureIs ==
  ASSUME Typed, NEW s \in Slot, UpdatePosture(s)
  PROVE  /\ request[s].report \in Report
         /\ Requests(s, request'[s]) /\ request'[s].phase = "answer"
         /\ request'[s].report = request[s].report
         /\ request'[s].index = request[s].index /\ request'[s].base = request[s].base
         /\ request'[s].heard = request[s].heard
         /\ rows' \in Seq(Row)
         /\ \/ /\ request[s].index \in DOMAIN rows /\ PutPosture(s) /\ UNCHANGED <<now, lapsed>>
               /\ Len(rows') = Len(rows)
               /\ \A i \in DOMAIN rows :
                    /\ i \in DOMAIN rows' /\ rows'[i].at = rows[i].at
                    /\ rows'[i].hardware = rows[i].hardware /\ rows'[i].smart = rows[i].smart
                    /\ i # request[s].index => rows'[i] = rows[i]
               /\ \A c \in Component : rows'[request[s].index][c] = Posture(s, c)
            \/ /\ request[s].index = 0 /\ now' = now + 1 /\ now < MaxTime[focus]
               /\ PostureOf(request[s].report.kind) = Component
               /\ lapsed' = (lapsed \/ rows # <<>>)
               /\ behind' = IF rows = <<>> THEN behind \ Component ELSE Section
               /\ Len(rows') = Len(rows) + 1
               /\ \A i \in DOMAIN rows : i \in DOMAIN rows' /\ rows'[i] = rows[i]
               /\ rows'[Len(rows')].at = now' /\ rows'[Len(rows')].hardware = 0
               /\ rows'[Len(rows')].smart = 0
               /\ \A c \in Component : rows'[Len(rows')][c] = request[s].report.at
<1> DEFINE r == request[s].report
           i == request[s].index
           av == Posture(s, "antivirus")
           fw == Posture(s, "firewall")
           row == [NoRow EXCEPT !.at = now', !.antivirus = av, !.firewall = fw]
<1>1. /\ request[s] \in RequestState /\ r \in Report /\ i \in 0..Len(rows)
      /\ rows \in Seq(Row) /\ focus \in Focus /\ now \in Time
  BY DEF Typed, TypeOK, RequestState
<1>2. Requests(s, [request[s] EXCEPT !.phase = "answer"])
  BY PhaseIs, PostureFrame DEF RequestPhase
<1>3. request'[s] = [request[s] EXCEPT !.phase = "answer"] BY <1>2 DEF Requests
<1>4. /\ request'[s].phase = "answer" /\ request'[s].report = r /\ request'[s].index = i
      /\ request'[s].base = request[s].base /\ request'[s].heard = request[s].heard
  BY <1>1, <1>3 DEF RequestState
<1>5. av \in Time /\ fw \in Time
  <2>1. request[s].base \in Row /\ r.at \in Time BY <1>1 DEF RequestState, Report
  <2> QED BY <2>1 DEF Posture, Row
<1>6. CASE i # 0
  <2>1. PutPosture(s) BY <1>6 DEF UpdatePosture, StorePosture, StoreTransition
  <2>2. /\ rows' = [rows EXCEPT ![i].antivirus = av, ![i].firewall = fw]
        /\ UNCHANGED <<now, lapsed>>
    BY <2>1 DEF PutPosture
  <2>3. i \in DOMAIN rows /\ DOMAIN rows = 1..Len(rows) /\ Len(rows) \in Nat BY <1>1, <1>6
  <2>4. rows[i] \in Row BY <1>1, <2>3
  <2> DEFINE new == [rows[i] EXCEPT !.antivirus = av, !.firewall = fw]
  <2> HIDE DEF av, fw
  <2>5. /\ new \in Row /\ new.at = rows[i].at /\ new.hardware = rows[i].hardware
        /\ new.smart = rows[i].smart /\ new.antivirus = av /\ new.firewall = fw
    BY <1>5, <2>4 DEF Row
  <2>6. rows' = [rows EXCEPT ![i] = new] BY <2>2, <2>3
  <2> HIDE DEF new
  <2>7. rows' \in Seq(Row) /\ Len(rows') = Len(rows) /\ DOMAIN rows' = DOMAIN rows
    BY <1>1, <2>3, <2>5, <2>6
  <2>8. rows'[i] = new /\ \A j \in DOMAIN rows : j # i => rows'[j] = rows[j]
    BY <2>3, <2>6
  <2>9. \A j \in DOMAIN rows :
          /\ j \in DOMAIN rows' /\ rows'[j].at = rows[j].at
          /\ rows'[j].hardware = rows[j].hardware /\ rows'[j].smart = rows[j].smart
          /\ j # i => rows'[j] = rows[j]
    BY <2>5, <2>7, <2>8
  <2>10. \A c \in Component : rows'[i][c] = Posture(s, c) BY <2>5, <2>8 DEF Component, av, fw
  <2> QED BY <1>1, <1>2, <1>3, <1>4, <2>1, <2>2, <2>3, <2>7, <2>9, <2>10
<1>7. CASE i = 0
  <2>1. /\ rows' = Append(rows, row) /\ now < MaxTime[focus] /\ now' = now + 1
        /\ lapsed' = (lapsed \/ rows # <<>>) /\ r.kind = "heartbeat"
        /\ behind' = IF rows = <<>> THEN behind \ Component ELSE Section
    BY <1>7 DEF UpdatePosture, StorePosture, StoreTransition, Reading
  <2>2. now' \in Time
    <3>1. now \in Nat /\ MaxTime[focus] \in Nat /\ 0..MaxTime[focus] \subseteq Time
      BY <1>1, TimeIs
    <3>2. now + 1 \in 0..MaxTime[focus] BY <2>1, <3>1
    <3> QED BY <2>1, <3>1, <3>2
  <2>3. PostureOf(r.kind) = Component BY <2>1 DEF PostureOf
  <2>4. \A c \in Component : Posture(s, c) = r.at BY <2>3 DEF Posture
  <2>5. av = r.at /\ fw = r.at BY <2>4 DEF Component
  <2> HIDE DEF av, fw
  <2>6. /\ row \in Row /\ row.at = now' /\ row.hardware = 0 /\ row.smart = 0
        /\ row.antivirus = av /\ row.firewall = fw
    BY <1>1, <1>5, <2>2, TimeIs DEF NoRow, Row
  <2> HIDE DEF row
  <2>7. /\ rows' \in Seq(Row) /\ Len(rows') = Len(rows) + 1 /\ Len(rows) \in Nat
        /\ \A j \in DOMAIN rows : j \in DOMAIN rows' /\ rows'[j] = rows[j]
        /\ rows'[Len(rows')] = row
    BY <1>1, <2>1, <2>6
  <2>8. \A c \in Component : rows'[Len(rows')][c] = r.at BY <2>5, <2>6, <2>7 DEF Component
  <2> QED BY <1>1, <1>2, <1>3, <1>4, <1>7, <2>1, <2>3, <2>6, <2>7, <2>8
<1> QED BY <1>6, <1>7

LEMMA CreateSoftwareIs ==
  ASSUME Typed, NEW s \in Slot, CreateSoftware(s)
  PROVE  /\ request[s].report \in Report
         /\ Requests(s, request'[s]) /\ request'[s].phase = "answer"
         /\ request'[s].report = request[s].report /\ request'[s].index = request[s].index
         /\ request'[s].base = request[s].base /\ request'[s].heard = request[s].heard
         /\ Follows(s, followup'[s]) /\ followup'[s].phase = "rules"
         /\ followup'[s].at = request[s].report.at
         /\ followup'[s].found = {} /\ followup'[s].todo = {} /\ followup'[s].next = {}
<1> DEFINE r == request[s].report
           new == [NoFollowup EXCEPT !.phase = "rules", !.at = r.at]
<1>1. request[s] \in RequestState /\ r \in Report /\ focus \in Focus
  BY DEF Typed, TypeOK, RequestState
<1>2. Requests(s, [request[s] EXCEPT !.phase = "answer"])
  BY PhaseIs DEF CreateSoftware, RequestPhase
<1>3. request'[s] = [request[s] EXCEPT !.phase = "answer"] BY <1>2 DEF Requests
<1>4. /\ request'[s].phase = "answer" /\ request'[s].report = r
      /\ request'[s].index = request[s].index /\ request'[s].heard = request[s].heard
      /\ request'[s].base = request[s].base
  BY <1>1, <1>3 DEF RequestState
<1>5. /\ new \in FollowupState /\ new.phase = "rules" /\ new.at = r.at
      /\ new.found = {} /\ new.todo = {} /\ new.next = {}
  BY <1>1, Idle DEF FollowupState, FollowupPhase, Report
<1>6. followup' = [followup EXCEPT ![s] = new] BY DEF CreateSoftware
<1> HIDE DEF new
<1>7. Follows(s, new) /\ followup'[s] = new BY <1>5, <1>6, FollowsIs DEF Follows
<1> QED BY <1>1, <1>2, <1>3, <1>4, <1>5, <1>7

LEMMA AnswerIs ==
  ASSUME Typed, NEW s \in Slot, Answer(s)
  PROVE  Requests(s, NoRequest) /\ request'[s] = NoRequest
BY Idle, RequestsIs DEF Answer, Typed, TypeOK, Requests

-----------------------------------------------------------------------------
(* What the comparisons write                                               *)

\* Each difference leads from the one machine to the other.
LEMMA DifferencesAre ==
  ASSUME NEW a \in Machine, NEW b \in Machine
  PROVE  /\ Differences(a, b) \subseteq Change /\ IsFiniteSet(Differences(a, b))
         /\ \A c \in Differences(a, b) : c.from = a /\ c.to = b
         /\ \A field \in {"ram", "cpu"} :
              \/ \E c \in Differences(a, b) : c.field = field
              \/ a[field] = b[field]
         /\ \A c, d \in Differences(a, b) : c.field = d.field => c = d
<1> DEFINE ram == [field |-> "ram", from |-> a, to |-> b]
           cpu == [field |-> "cpu", from |-> a, to |-> b]
<1>1. a.ram \in Nat /\ b.ram \in Nat BY MachineAssumption
<1>2. /\ Differences(a, b) \subseteq {ram, cpu}
      /\ a.ram # b.ram => ram \in Differences(a, b)
      /\ a.cpu # b.cpu => cpu \in Differences(a, b)
  BY <1>1 DEF Differences
<1>3. ram \in Change /\ cpu \in Change BY DEF Change
<1>4. IsFiniteSet({ram, cpu})
  <2>1. IsFiniteSet({ram}) BY FS_Singleton, Zenon
  <2>2. IsFiniteSet({ram} \cup {cpu}) BY <2>1, FS_AddElement
  <2>3. {ram} \cup {cpu} = {ram, cpu} OBVIOUS
  <2> QED BY <2>2, <2>3
<1>5. IsFiniteSet(Differences(a, b)) BY <1>2, <1>4, FS_Subset
<1>6. /\ ram.field = "ram" /\ ram.from = a /\ ram.to = b
      /\ cpu.field = "cpu" /\ cpu.from = a /\ cpu.to = b
  OBVIOUS
<1> HIDE DEF ram, cpu
<1>7. \A c, d \in {ram, cpu} : c.field = d.field => c = d BY <1>6
<1> QED BY <1>2, <1>3, <1>5, <1>6, <1>7

\* A finite set as a sequence has each of its elements once.
LEMMA SeqOfSet ==
  ASSUME NEW S, IsFiniteSet(S)
  PROVE  /\ SetToSeq(S) \in Seq(S) /\ Cardinality(S) \in Nat
         /\ Len(SetToSeq(S)) = Cardinality(S)
         /\ \A i, j \in 1..Cardinality(S) : SetToSeq(S)[i] = SetToSeq(S)[j] => i = j
         /\ \A x \in S : \E i \in 1..Cardinality(S) : SetToSeq(S)[i] = x
<1> DEFINE n == Cardinality(S)
           q == SetToSeq(S)
<1>1. n \in Nat /\ ExistsBijection(1..n, S) BY FS_CardinalityType
<1>2. \E f \in [1..n -> S] : IsInjective(f) BY <1>1 DEF ExistsBijection, Bijection, Injection
<1>3. q \in [1..n -> S] /\ IsInjective(q) BY <1>2 DEF SetToSeq
<1>4. q \in Injection(1..n, S) BY <1>3 DEF Injection
<1>5. IsFiniteSet(1..n) /\ Cardinality(1..n) = n BY <1>1, FS_Interval
<1>6. q \in Surjection(1..n, S) BY <1>4, <1>5, FS_Injection
<1>7. \A x \in S : \E i \in 1..n : q[i] = x BY <1>6 DEF Surjection
<1>8. q \in Seq(S) /\ Len(q) = n BY <1>1, <1>3
<1>9. \A i, j \in 1..n : q[i] = q[j] => i = j BY <1>3 DEF IsInjective
<1> QED BY <1>1, <1>7, <1>8, <1>9

LEMMA PreviousIs ==
  ASSUME Typed
  PROVE  Previous \subseteq DOMAIN rows
BY DEF Previous, FirstOf

\* A comparison finds nothing, or what is to be recorded.
LEMMA CompareIs ==
  ASSUME Typed, NEW s \in Slot, Compare(s)
  PROVE  \E i \in IF Len(rows) = 1 THEN {0} ELSE Previous :
           LET found == IF i = 0 \/ rows[i].hardware = 0 THEN {}
                        ELSE Differences(machine[rows[i].hardware], machine[followup[s].at])
           IN /\ Follows(s, followup'[s]) /\ followup'[s].found = found
              /\ followup'[s].todo \subseteq App /\ followup'[s].next \subseteq followup'[s].todo
              /\ found \subseteq Change /\ IsFiniteSet(found)
              /\ i # 0 => i \in DOMAIN rows
              /\ found # {} => \E a, b \in Machine : found = Differences(a, b)
              /\ followup'[s].at \in {followup[s].at, 0}
              /\ followup'[s].phase = IF found = {} THEN "idle" ELSE "record"
<1>1. PICK i \in IF Len(rows) = 1 THEN {0} ELSE Previous :
        LET found == IF i = 0 \/ rows[i].hardware = 0 THEN {}
                     ELSE Differences(machine[rows[i].hardware], machine[followup[s].at])
        IN followup' = [followup EXCEPT
             ![s] = IF found = {} THEN NoFollowup
                    ELSE [@ EXCEPT !.phase = "record", !.found = found]]
  BY DEF Compare
<1> DEFINE found == IF i = 0 \/ rows[i].hardware = 0 THEN {}
                    ELSE Differences(machine[rows[i].hardware], machine[followup[s].at])
           new == IF found = {} THEN NoFollowup
                  ELSE [followup[s] EXCEPT !.phase = "record", !.found = found]
<1>2. /\ followup[s] \in FollowupState /\ rows \in Seq(Row) /\ focus \in Focus
      /\ machine \in [Time -> Machine]
      /\ followup[s].todo \subseteq App /\ followup[s].next \subseteq followup[s].todo
  BY DEF Typed, TypeOK
<1>3. i # 0 => i \in DOMAIN rows /\ rows[i] \in Row BY <1>2, PreviousIs
<1>4. found # {} => \E a, b \in Machine : found = Differences(a, b)
  BY <1>2, <1>3 DEF Row, FollowupState
<1>5. found \subseteq Change /\ IsFiniteSet(found) BY <1>4, DifferencesAre, FS_EmptySet, Zenon
<1>6. followup' = [followup EXCEPT ![s] = new] BY <1>1
<1> HIDE DEF found
<1>7. new \in FollowupState
  BY <1>2, <1>5, Idle DEF FollowupState, FollowupPhase
<1>8. /\ new.found = found /\ new.todo \subseteq App /\ new.next \subseteq new.todo
      /\ new.phase = IF found = {} THEN "idle" ELSE "record"
      /\ new.at \in {followup[s].at, 0}
  BY <1>2, Idle DEF FollowupState
<1> HIDE DEF new
<1>9. Follows(s, new) /\ followup'[s] = new BY <1>6, <1>7, FollowsIs DEF Follows
<1> QED BY <1>3, <1>4, <1>5, <1>8, <1>9 DEF found

LEMMA RecordChangesIs ==
  ASSUME Typed, NEW s \in Slot, RecordChanges(s), IsFiniteSet(followup[s].found)
  PROVE  /\ changes' \in Seq(Change)
         /\ Follows(s, followup'[s]) /\ followup'[s].found \subseteq Change
         /\ followup'[s].todo \subseteq App /\ followup'[s].next \subseteq followup'[s].todo
         /\ followup'[s].at \in {followup[s].at, 0}
         /\ followup'[s].phase = IF LostRam(followup[s].found) # {} THEN "alarm" ELSE "idle"
<1>1. /\ followup[s] \in FollowupState /\ changes \in Seq(Change) /\ followup[s].found \subseteq Change
      /\ followup[s].todo \subseteq App /\ followup[s].next \subseteq followup[s].todo
  BY DEF Typed, TypeOK, RecordChanges, Evaluating
<1>2. SetToSeq(followup[s].found) \in Seq(Change)
  <2>1. SetToSeq(followup[s].found) \in Seq(followup[s].found) BY SeqOfSet
  <2> QED BY <1>1, <2>1
<1>3. changes' \in Seq(Change) BY <1>1, <1>2 DEF RecordChanges
<1>4. CASE LostRam(followup[s].found) # {}
  <2>1. Goto(s, "alarm") BY <1>4 DEF RecordChanges
  <2> QED BY <1>1, <1>3, <1>4, <2>1, GotoIs DEF FollowupPhase
<1>5. CASE LostRam(followup[s].found) = {}
  <2>1. Finish(s) BY <1>5 DEF RecordChanges
  <2> QED BY <1>1, <1>3, <1>5, <2>1, FinishIs, Idle DEF Typed, TypeOK
<1> QED BY <1>4, <1>5

\* The rules are read, and the applications they forbid are what there is to do.
LEMMA ReadRulesIs ==
  ASSUME Typed, NEW s \in Slot, ReadRules(s), followup[s].next = {}
  PROVE  /\ Follows(s, followup'[s])
         /\ \/ followup'[s] = NoFollowup
            \/ /\ followup'[s].phase = "look" /\ followup'[s].at = followup[s].at
               /\ followup'[s].found = rules /\ followup'[s].next = {}
               /\ followup'[s].todo = Matches(software[followup[s].at])
<1> DEFINE matches == Matches(software[followup[s].at])
           new == IF matches = {} THEN NoFollowup
                  ELSE [followup[s] EXCEPT !.phase = "look", !.found = rules, !.todo = matches]
<1>1. followup' = [followup EXCEPT ![s] = new] BY DEF ReadRules
<1>2. /\ followup[s] \in FollowupState /\ rules \subseteq Rule /\ software \in [Time -> SUBSET App]
      /\ focus \in Focus
  BY DEF Typed, TypeOK
<1>3. matches \subseteq App
  <2>1. software[followup[s].at] \subseteq App BY <1>2 DEF FollowupState
  <2> QED BY <2>1 DEF Matches
<1> HIDE DEF matches
<1>4. new \in FollowupState BY <1>2, <1>3, Idle DEF FollowupState, FollowupPhase
<1>5. \/ new = NoFollowup
      \/ /\ new.phase = "look" /\ new.at = followup[s].at /\ new.found = rules
         /\ new.next = {} /\ new.todo = matches
  BY <1>2 DEF FollowupState
<1> HIDE DEF new
<1>6. Follows(s, new) /\ followup'[s] = new BY <1>1, <1>4, FollowsIs DEF Follows
<1> QED BY <1>5, <1>6 DEF matches

LEMMA ProceedIs ==
  ASSUME Typed, NEW s \in Slot, NEW left \in SUBSET App, Proceed(s, left)
  PROVE  /\ Follows(s, followup'[s])
         /\ \/ /\ left = {} /\ followup'[s] = NoFollowup
               /\ examined' = examined \cup {<<followup[s].at, followup[s].found>>}
            \/ /\ followup'[s].phase = "look" /\ followup'[s].at = followup[s].at
               /\ followup'[s].found = followup[s].found /\ followup'[s].next = {}
               /\ followup'[s].todo = left /\ UNCHANGED examined
<1>1. CASE left = {} BY <1>1, FinishIs DEF Proceed
<1>2. CASE left # {}
  <2> DEFINE new == [followup[s] EXCEPT !.phase = "look", !.todo = left, !.next = {}]
  <2>1. followup' = [followup EXCEPT ![s] = new] /\ UNCHANGED examined BY <1>2 DEF Proceed
  <2>2. followup[s] \in FollowupState BY DEF Typed
  <2>3. /\ new \in FollowupState /\ new.phase = "look" /\ new.at = followup[s].at
        /\ new.found = followup[s].found /\ new.next = {} /\ new.todo = left
    BY <2>2 DEF FollowupState, FollowupPhase
  <2> HIDE DEF new
  <2>4. Follows(s, new) /\ followup'[s] = new BY <2>1, <2>3, FollowsIs DEF Follows
  <2> QED BY <2>1, <2>3, <2>4
<1> QED BY <1>1, <1>2

\* An application is looked up: it is open and dropped, or it is raised next.
LEMMA LookForAlertIs ==
  ASSUME Typed, NEW s \in Slot, LookForAlert(s)
  PROVE  \E a \in followup[s].todo :
           /\ a \in App /\ Follows(s, followup'[s])
           /\ \/ open[a] > 0 /\ Proceed(s, followup[s].todo \ {a})
              \/ /\ ~(open[a] > 0) /\ UNCHANGED examined
                 /\ followup'[s].phase = "raise" /\ followup'[s].at = followup[s].at
                 /\ followup'[s].found = followup[s].found /\ followup'[s].next = {a}
                 /\ followup'[s].todo = followup[s].todo
<1>1. PICK a \in followup[s].todo :
        IF AlreadyOpen(a)
        THEN Proceed(s, followup[s].todo \ {a})
        ELSE /\ followup' = [followup EXCEPT ![s].phase = "raise", ![s].next = {a}]
             /\ UNCHANGED examined
  BY DEF LookForAlert
<1>2. followup[s] \in FollowupState /\ followup[s].todo \subseteq App BY DEF Typed, TypeOK
<1>3. CASE open[a] > 0
  <2>1. Proceed(s, followup[s].todo \ {a}) BY <1>1, <1>3 DEF AlreadyOpen
  <2> QED BY <1>2, <1>3, <2>1, ProceedIs
<1>4. CASE ~(open[a] > 0)
  <2> DEFINE new == [followup[s] EXCEPT !.phase = "raise", !.next = {a}]
  <2>1. followup' = [followup EXCEPT ![s] = new] /\ UNCHANGED examined
    BY <1>1, <1>4 DEF AlreadyOpen
  <2>2. /\ new \in FollowupState /\ new.phase = "raise" /\ new.at = followup[s].at
        /\ new.found = followup[s].found /\ new.next = {a} /\ new.todo = followup[s].todo
    BY <1>2 DEF FollowupState, FollowupPhase
  <2> HIDE DEF new
  <2>3. Follows(s, new) /\ followup'[s] = new BY <2>1, <2>2, FollowsIs DEF Follows
  <2> QED BY <1>2, <1>4, <2>1, <2>2, <2>3
<1> QED BY <1>3, <1>4

-----------------------------------------------------------------------------
(* Every step keeps the types, and the times before the clock               *)

AgentTyped ==
  /\ focus \in Focus /\ now \in Time
  /\ machine \in [Time -> Machine] /\ software \in [Time -> SUBSET App]
  /\ outbox \subseteq Report /\ live \subseteq outbox /\ last \in Time /\ watched \in BOOLEAN

ServerTyped ==
  /\ rows \in Seq(Row) /\ lists \subseteq Time /\ changes \in Seq(Change)
  /\ trail \subseteq [app : App, at : Time, action : {"INSTALLED", "REMOVED"}]
  /\ ramAlerts \in Nat /\ rules \subseteq Rule /\ open \in [App -> Nat]

HistoryTyped ==
  /\ due \in [Section -> Time] /\ behind \subseteq Section /\ unsure \in Time
  /\ lapsed \in BOOLEAN /\ detour \in BOOLEAN /\ crowded \in BOOLEAN
  /\ examined \subseteq Time \X SUBSET Rule /\ alerted \subseteq App
  /\ faults \in 0..MaxFaults /\ edits \in 0..MaxEdits

RequestTyped(s) == request[s].index \in 0..Len(rows)

FollowupTyped(s) ==
  /\ followup[s].found \subseteq (IF Evaluating(s) THEN Rule ELSE Change)
  /\ followup[s].next \subseteq followup[s].todo

LEMMA TypeParts ==
  /\ Typed <=> /\ AgentTyped /\ ServerTyped /\ HistoryTyped
               /\ request \in [Slot -> RequestState] /\ \A s \in Slot : RequestTyped(s)
               /\ followup \in [Slot -> FollowupState] /\ \A s \in Slot : FollowupTyped(s)
  /\ Typed' <=> /\ AgentTyped' /\ ServerTyped' /\ HistoryTyped'
                /\ request' \in [Slot -> RequestState] /\ \A s \in Slot : RequestTyped(s)'
                /\ followup' \in [Slot -> FollowupState] /\ \A s \in Slot : FollowupTyped(s)'
<1>1. ASSUME request \in [Slot -> RequestState], followup \in [Slot -> FollowupState],
             NEW s \in Slot
      PROVE  /\ request[s].phase \in {"idle", "find", "create", "answer"}
             /\ request[s].report \in Report /\ request[s].heard \in BOOLEAN
             /\ request[s].base \in Row
             /\ followup[s].phase \in {"idle", "compare", "record", "alarm", "rules", "look", "raise"}
             /\ followup[s].todo \subseteq App
  BY <1>1 DEF RequestState, FollowupState, RequestPhase, FollowupPhase
<1>2. ASSUME request' \in [Slot -> RequestState], followup' \in [Slot -> FollowupState],
             NEW s \in Slot
      PROVE  /\ request'[s].phase \in {"idle", "find", "create", "answer"}
             /\ request'[s].report \in Report /\ request'[s].heard \in BOOLEAN
             /\ request'[s].base \in Row
             /\ followup'[s].phase \in {"idle", "compare", "record", "alarm", "rules", "look", "raise"}
             /\ followup'[s].todo \subseteq App
  BY <1>2 DEF RequestState, FollowupState, RequestPhase, FollowupPhase
<1> QED
  BY <1>1, <1>2
  DEF Typed, TypeOK, AgentTyped, ServerTyped, HistoryTyped, RequestTyped, FollowupTyped, Evaluating

ReportsAged == \A r \in outbox : r.at # 0 /\ r.at <= now

RequestAged(s) ==
  /\ request[s].report.at <= now /\ request[s].base.hardware <= now
  /\ request[s].phase # "idle" => request[s].report.at # 0
  /\ request[s].phase \in {"find", "create"} => followup[s].phase = "idle"

FollowupAged(s) ==
  /\ followup[s].at <= now
  /\ followup[s].phase = "rules" => followup[s].next = {}

StoredAged ==
  /\ last <= now /\ unsure <= now /\ \A t \in lists : t # 0 /\ t <= now
  /\ \A e \in examined : e[1] <= now
  /\ \A i \in DOMAIN rows : rows[i].hardware <= now

LEMMA AgeParts ==
  /\ Ages <=> /\ ReportsAged /\ StoredAged
              /\ \A s \in Slot : RequestAged(s) /\ FollowupAged(s)
  /\ Ages' <=> /\ ReportsAged' /\ StoredAged'
               /\ \A s \in Slot : RequestAged(s)' /\ FollowupAged(s)'
BY DEF Ages, ReportsAged, StoredAged, RequestAged, FollowupAged

\* Times are numbers.
LEMMA Numbers ==
  ASSUME Typed
  PROVE  /\ now \in Nat /\ now \in Time /\ last \in Nat /\ unsure \in Nat /\ 0 \in Time
         /\ now < MaxTime[focus] => now + 1 \in Time
         /\ lists \subseteq Nat /\ \A k \in Section : due[k] \in Nat
         /\ \A r \in outbox : r \in Report /\ r.at \in Nat /\ r.at \in Time /\ r.known \in Time
         /\ \A s \in Slot : /\ request[s].report \in Report
                            /\ request[s].report.at \in Nat /\ request[s].report.at \in Time
                            /\ request[s].base.hardware \in Nat
                            /\ followup[s].at \in Nat /\ followup[s].at \in Time
         /\ \A e \in examined : e[1] \in Nat
         /\ \A i \in DOMAIN rows : /\ rows[i] \in Row /\ rows[i].at \in Nat
                                   /\ rows[i].hardware \in Nat /\ rows[i].hardware \in Time
         /\ \A e \in trail : e.at \in Nat
<1>1. Time \subseteq Nat /\ focus \in Focus /\ now \in Time BY TimeIs DEF Typed, TypeOK
<1>2. 0 \in Time /\ (now < MaxTime[focus] => now + 1 \in Time) BY <1>1, TimeIs
<1>3. \A r \in outbox : r \in Report /\ r.at \in Time /\ r.known \in Time
  BY DEF Typed, TypeOK, Report
<1>4. \A s \in Slot : /\ request[s].report \in Report /\ request[s].report.at \in Time
                      /\ request[s].base.hardware \in Time /\ followup[s].at \in Time
  BY DEF Typed, TypeOK, FollowupState, Report, Row
<1>5. \A i \in DOMAIN rows : rows[i] \in Row /\ rows[i].at \in Time /\ rows[i].hardware \in Time
  <2>1. rows \in Seq(Row) BY DEF Typed, TypeOK
  <2>2. \A i \in DOMAIN rows : rows[i] \in Row BY <2>1
  <2> QED BY <2>2 DEF Row
<1>6. \A e \in examined : e[1] \in Time BY DEF Typed, TypeOK
<1>7. \A e \in trail : e.at \in Time BY DEF Typed, TypeOK
<1>8. last \in Time /\ unsure \in Time /\ lists \subseteq Time /\ due \in [Section -> Time]
  BY DEF Typed, TypeOK
<1> QED BY <1>1, <1>2, <1>3, <1>4, <1>5, <1>6, <1>7, <1>8

LEMMA FrameTyped ==
  ASSUME Typed, Ages
  PROVE  /\ UNCHANGED followup => /\ followup' \in [Slot -> FollowupState]
                                  /\ \A s \in Slot : FollowupTyped(s)'
         /\ (UNCHANGED request /\ (UNCHANGED rows \/ (Len(rows') \in Nat /\ Len(rows) <= Len(rows'))))
              => request' \in [Slot -> RequestState] /\ \A s \in Slot : RequestTyped(s)'
         /\ UNCHANGED <<outbox, now>> => ReportsAged'
         /\ UNCHANGED <<request, now, followup>> => \A s \in Slot : RequestAged(s)'
         /\ UNCHANGED <<now, followup>> => \A s \in Slot : FollowupAged(s)'
         /\ UNCHANGED <<last, unsure, lists, examined, rows, now>> => StoredAged'
<1>1. rows \in Seq(Row) /\ Len(rows) \in Nat BY DEF Typed, TypeOK
<1>2. \A s \in Slot : RequestTyped(s) /\ FollowupTyped(s) BY TypeParts
<1>3. ReportsAged /\ StoredAged /\ \A s \in Slot : RequestAged(s) /\ FollowupAged(s) BY AgeParts
<1>4. UNCHANGED followup => \A s \in Slot : FollowupTyped(s)'
  BY <1>2 DEF FollowupTyped, Evaluating
<1>5. (UNCHANGED request /\ (UNCHANGED rows \/ (Len(rows') \in Nat /\ Len(rows) <= Len(rows'))))
              => \A s \in Slot : RequestTyped(s)'
  BY <1>1, <1>2 DEF RequestTyped
<1>6. request \in [Slot -> RequestState] /\ followup \in [Slot -> FollowupState] BY DEF Typed
<1>7. UNCHANGED <<outbox, now>> => ReportsAged' BY <1>3 DEF ReportsAged
<1>8. UNCHANGED <<request, now, followup>> => \A s \in Slot : RequestAged(s)'
  BY <1>3 DEF RequestAged
<1>9. UNCHANGED <<now, followup>> => \A s \in Slot : FollowupAged(s)' BY <1>3 DEF FollowupAged
<1>10. UNCHANGED <<last, unsure, lists, examined, rows, now>> => StoredAged'
  BY <1>3 DEF StoredAged
<1> QED BY <1>4, <1>5, <1>6, <1>7, <1>8, <1>9, <1>10

LEMMA CollectSnapshotTyped ==
  ASSUME Typed, Ages, NEW kind \in Kind, CollectSnapshot(kind)
  PROVE  Typed' /\ Ages'
<1>1. now < MaxTime[focus] /\ now' = now + 1 /\ now \in Nat /\ now' \in Time /\ 0 \in Time
  BY Numbers DEF CollectSnapshot, Reading
<1>2. PICK m \in Machine : machine' = [machine EXCEPT ![now'] = m] BY DEF CollectSnapshot
<1>3. PICK changed \in SUBSET Transitions(kind) :
        LET new == {[kind |-> k, at |-> now', known |-> 0] : k \in changed \cup {kind}} IN
        outbox' = outbox \cup new /\ live' = live \cup new
  BY DEF CollectSnapshot
<1> DEFINE new == {[kind |-> k, at |-> now', known |-> 0] : k \in changed \cup {kind}}
<1>4. /\ outbox' = outbox \cup new /\ live' = live \cup new
      /\ new \subseteq Report /\ \A r \in new : r.at = now'
  <2>1. changed \cup {kind} \subseteq Kind BY DEF Transitions, Kind, Component
  <2> QED BY <1>1, <1>3, <2>1 DEF Report
<1> HIDE DEF new
<1>5. AgentTyped'
  BY <1>1, <1>2, <1>4, TypeParts DEF CollectSnapshot, AgentTyped
<1>6. ServerTyped' /\ HistoryTyped'
  BY TypeParts DEF CollectSnapshot, ServerTyped, HistoryTyped, snapshotVars, softwareVars
<1>7. Typed'
  BY <1>5, <1>6, FrameTyped, TypeParts DEF CollectSnapshot, snapshotVars
<1>8. ReportsAged' BY <1>1, <1>4, Numbers, AgeParts DEF ReportsAged
<1>9. StoredAged'
  BY <1>1, Numbers, AgeParts DEF CollectSnapshot, snapshotVars, softwareVars, StoredAged
<1>10. \A s \in Slot : RequestAged(s)' /\ FollowupAged(s)'
  BY <1>1, Numbers, AgeParts DEF CollectSnapshot, RequestAged, FollowupAged
<1> QED BY <1>7, <1>8, <1>9, <1>10, AgeParts

LEMMA CollectSoftwareTyped ==
  ASSUME Typed, Ages, CollectSoftware
  PROVE  Typed' /\ Ages'
<1>1. now < MaxTime[focus] /\ now' = now + 1 /\ now \in Nat /\ now' \in Time /\ 0 \in Time
      /\ last \in Time
  BY Numbers DEF CollectSoftware, Reading, Typed, TypeOK
<1>2. PICK list \in SUBSET App :
        LET same == last # 0 /\ list # {} /\ list = software[last]
            sent == IF same THEN {}
                    ELSE {[kind |-> "software", at |-> now', known |-> last]} IN
        /\ software' = [software EXCEPT ![now'] = list]
        /\ outbox' = outbox \cup sent /\ live' = live \cup sent
        /\ last' = IF same THEN last ELSE Believed
        /\ IF sent # {} /\ \E r \in live : r.kind = "software"
           THEN unsure' = now' /\ detour' = TRUE
           ELSE UNCHANGED <<unsure, detour>>
  BY DEF CollectSoftware
<1> DEFINE r == [kind |-> "software", at |-> now', known |-> last]
<1>3. r \in Report /\ r.at = now' BY <1>1 DEF Report, Kind
<1>4. \E sent \in SUBSET {r} : outbox' = outbox \cup sent /\ live' = live \cup sent
  BY <1>2
<1>5. last' = last /\ (unsure' = now' \/ unsure' = unsure) /\ (detour' = TRUE \/ detour' = detour)
      /\ software' \in [Time -> SUBSET App]
  BY <1>1, <1>2 DEF Believed, Typed, TypeOK
<1> HIDE DEF r
<1>6. AgentTyped'
  BY <1>1, <1>3, <1>4, <1>5, TypeParts DEF CollectSoftware, AgentTyped
<1>7. ServerTyped' BY TypeParts DEF CollectSoftware, ServerTyped, snapshotVars
<1>8. HistoryTyped' BY <1>1, <1>5, TypeParts DEF CollectSoftware, HistoryTyped, snapshotVars
<1>9. Typed'
  BY <1>6, <1>7, <1>8, FrameTyped, TypeParts DEF CollectSoftware, snapshotVars
<1>10. ReportsAged' BY <1>1, <1>3, <1>4, Numbers, AgeParts DEF ReportsAged
<1>11. StoredAged'
  BY <1>1, <1>5, Numbers, AgeParts DEF CollectSoftware, snapshotVars, StoredAged
<1>12. \A s \in Slot : RequestAged(s)' /\ FollowupAged(s)'
  BY <1>1, Numbers, AgeParts DEF CollectSoftware, RequestAged, FollowupAged
<1> QED BY <1>9, <1>10, <1>11, <1>12, AgeParts

\* When only the request of s changed, only that of s has to be looked at.
LEMMA OneRequest ==
  ASSUME Typed, Ages, NEW s \in Slot, Requests(s, request'[s]),
         now' \in Nat, now <= now', Len(rows') \in Nat, Len(rows) <= Len(rows')
  PROVE  /\ request' \in [Slot -> RequestState]
         /\ request'[s].index \in 0..Len(rows') => \A u \in Slot : RequestTyped(u)'
         /\ (/\ request'[s].report.at <= now' /\ request'[s].base.hardware <= now'
             /\ request'[s].phase # "idle" => request'[s].report.at # 0
             /\ request'[s].phase \in {"find", "create"} => followup'[s].phase = "idle"
             /\ (\A u \in Slot \ {s} : followup'[u] = followup[u]))
              => \A v \in Slot : RequestAged(v)'
<1>1. \A u \in Slot : RequestTyped(u) /\ RequestAged(u) BY TypeParts, AgeParts
<1>2. request' \in [Slot -> RequestState] /\ \A u \in Slot : u # s => request'[u] = request[u]
  BY DEF Requests
<1>3. now \in Nat /\ rows \in Seq(Row) /\ Len(rows) \in Nat BY Numbers DEF Typed, TypeOK
<1>4. \A u \in Slot : u # s => RequestTyped(u)' BY <1>1, <1>2, <1>3 DEF RequestTyped
<1>5. \A u \in Slot : request[u].report.at \in Nat /\ request[u].base.hardware \in Nat BY Numbers
<1>6. ASSUME \A u \in Slot \ {s} : followup'[u] = followup[u], NEW u \in Slot, u # s
      PROVE  RequestAged(u)'
  <2>1. followup'[u] = followup[u] /\ request'[u] = request[u] BY <1>2, <1>6
  <2> QED BY <1>1, <1>3, <1>5, <2>1 DEF RequestAged
<1> QED BY <1>2, <1>4, <1>6 DEF RequestTyped, RequestAged

LEMMA OneFollowup ==
  ASSUME Typed, Ages, NEW s \in Slot, Follows(s, followup'[s]), now' \in Nat, now <= now',
         followup'[s].found \subseteq
           (IF followup'[s].phase \in {"rules", "look", "raise"} THEN Rule ELSE Change),
         followup'[s].next \subseteq followup'[s].todo,
         followup'[s].at <= now', followup'[s].phase = "rules" => followup'[s].next = {}
  PROVE  /\ followup' \in [Slot -> FollowupState]
         /\ \A u \in Slot : FollowupTyped(u)' /\ FollowupAged(u)'
<1>1. \A u \in Slot : FollowupTyped(u) /\ FollowupAged(u) BY TypeParts, AgeParts
<1>2. followup' \in [Slot -> FollowupState] /\ \A u \in Slot : u # s => followup'[u] = followup[u]
  BY DEF Follows
<1>3. now \in Nat /\ \A u \in Slot : followup[u].at \in Nat BY Numbers
<1>4. \A u \in Slot : u # s => FollowupTyped(u)' BY <1>1, <1>2 DEF FollowupTyped, Evaluating
<1>5. \A u \in Slot : u # s => FollowupAged(u)' BY <1>1, <1>2, <1>3 DEF FollowupAged
<1> QED BY <1>2, <1>4, <1>5 DEF FollowupTyped, FollowupAged, Evaluating

LEMMA DeliverTyped ==
  ASSUME Typed, Ages, NEW s \in Slot, NEW r \in outbox, Deliver(s, r)
  PROVE  Typed' /\ Ages'
<1>1. /\ Requests(s, request'[s]) /\ request'[s].report = r /\ request'[s].index = 0
      /\ followup[s].phase = "idle" /\ request'[s].base.hardware = 0
  BY DeliverIs, Idle DEF Deliver, Requests, Typed, TypeOK
<1>2. now' = now /\ now \in Nat /\ rows' = rows /\ Len(rows) \in Nat /\ followup' = followup
      /\ r.at <= now /\ r.at # 0
  BY Numbers, AgeParts DEF Deliver, snapshotVars, Typed, TypeOK, ReportsAged
<1>3. request' \in [Slot -> RequestState] /\ \A u \in Slot : RequestTyped(u)' /\ RequestAged(u)'
  BY <1>1, <1>2, OneRequest
<1>4. AgentTyped' /\ ServerTyped' /\ HistoryTyped'
  BY TypeParts DEF Deliver, AgentTyped, ServerTyped, HistoryTyped, agentVars, snapshotVars,
                   softwareVars
<1>5. Typed' BY <1>2, <1>3, <1>4, FrameTyped, TypeParts
<1>6. ReportsAged' /\ StoredAged' /\ \A u \in Slot : FollowupAged(u)'
  BY FrameTyped DEF Deliver, agentVars, snapshotVars, softwareVars
<1> QED BY <1>3, <1>5, <1>6, AgeParts

LEMMA TimeOutTyped ==
  ASSUME Typed, Ages, NEW s \in Slot, TimeOut(s)
  PROVE  Typed' /\ Ages'
<1>1. /\ Requests(s, request'[s]) /\ request'[s].report = request[s].report
      /\ request'[s].index = request[s].index /\ request'[s].phase = request[s].phase
      /\ request'[s].base = request[s].base
  <2>1. Requests(s, [request[s] EXCEPT !.heard = FALSE]) BY TimeOutIs
  <2>2. request[s] \in RequestState BY DEF Typed
  <2> QED BY <2>1, <2>2 DEF Requests, RequestState
<1>2. now' = now /\ now \in Nat /\ rows' = rows /\ Len(rows) \in Nat /\ followup' = followup
  BY Numbers DEF TimeOut, snapshotVars, Typed, TypeOK
<1>3. RequestTyped(s) /\ RequestAged(s) BY TypeParts, AgeParts
<1>4. request' \in [Slot -> RequestState] /\ \A u \in Slot : RequestTyped(u)' /\ RequestAged(u)'
  BY <1>1, <1>2, <1>3, OneRequest DEF RequestTyped, RequestAged
<1>5. AgentTyped' /\ ServerTyped'
  BY TypeParts DEF TimeOut, AgentTyped, ServerTyped, agentVars, snapshotVars
<1>6. HistoryTyped'
  BY TypeParts, BoundAssumption DEF TimeOut, Fault, HistoryTyped, snapshotVars
<1>7. Typed' BY <1>2, <1>4, <1>5, <1>6, FrameTyped, TypeParts
<1>8. ReportsAged' /\ StoredAged' /\ \A u \in Slot : FollowupAged(u)'
  BY FrameTyped DEF TimeOut, agentVars, snapshotVars
<1> QED BY <1>4, <1>7, <1>8, AgeParts

LEMMA EnqueueTyped ==
  ASSUME Typed, Ages, NEW r \in outbox, Enqueue(r)
  PROVE  Typed' /\ Ages'
<1>1. r.at \in Time /\ r.at \in Nat /\ r.at <= now /\ now \in Nat
      /\ unsure \in Time /\ unsure \in Nat /\ unsure <= now
  BY Numbers, AgeParts DEF ReportsAged, StoredAged, Typed, TypeOK
<1>2. Greatest({unsure, r.at}) \in {unsure, r.at}
  <2>1. \E t \in {unsure, r.at} : \A u \in {unsure, r.at} : u <= t BY <1>1
  <2> QED BY <2>1 DEF Greatest
<1>3. unsure' \in {unsure, r.at} BY <1>2 DEF Enqueue
<1>4. AgentTyped' /\ ServerTyped'
  BY TypeParts DEF Enqueue, AgentTyped, ServerTyped, snapshotVars
<1>5. HistoryTyped'
  BY <1>1, <1>3, TypeParts, BoundAssumption DEF Enqueue, Fault, HistoryTyped, snapshotVars
<1>6. Typed' BY <1>4, <1>5, FrameTyped, TypeParts DEF Enqueue, snapshotVars
<1>7. ReportsAged' /\ \A u \in Slot : RequestAged(u)' /\ FollowupAged(u)'
  BY FrameTyped DEF Enqueue
<1>8. StoredAged' BY <1>1, <1>3, AgeParts DEF Enqueue, StoredAged, snapshotVars
<1> QED BY <1>6, <1>7, <1>8, AgeParts

LEMMA AgentRestartTyped ==
  ASSUME Typed, Ages, AgentRestart
  PROVE  Typed' /\ Ages'
<1>1. \A s \in Slot : request'[s] = [request[s] EXCEPT !.heard = FALSE]
      BY DEF AgentRestart
<1>2. request' \in [Slot -> RequestState]
      /\ \A s \in Slot : /\ request'[s].phase = request[s].phase
                         /\ request'[s].report = request[s].report
                         /\ request'[s].index = request[s].index /\ request'[s].base = request[s].base
                         /\ request'[s].base = request[s].base
  <2>1. \A s \in Slot : request[s] \in RequestState BY DEF Typed
  <2>2. \A s \in Slot : /\ [request[s] EXCEPT !.heard = FALSE] \in RequestState
                        /\ request'[s].phase = request[s].phase
                        /\ request'[s].report = request[s].report
                        /\ request'[s].index = request[s].index /\ request'[s].base = request[s].base
                        /\ request'[s].base = request[s].base
    BY <1>1, <2>1 DEF RequestState
  <2>3. request' = [s \in Slot |-> [request[s] EXCEPT !.heard = FALSE]] BY DEF AgentRestart
  <2> QED BY <2>2, <2>3
<1>3. /\ now' = now /\ rows' = rows /\ followup' = followup /\ outbox' \subseteq outbox /\ live' = {}
      /\ last' = 0 /\ 0 \in Time /\ now \in Nat
  BY Numbers DEF AgentRestart, snapshotVars
<1>4. AgentTyped' /\ ServerTyped'
  BY <1>3, TypeParts DEF AgentRestart, AgentTyped, ServerTyped, snapshotVars
<1>5. HistoryTyped'
  BY TypeParts, BoundAssumption DEF AgentRestart, Fault, HistoryTyped, snapshotVars
<1>6. \A s \in Slot : RequestTyped(s)' /\ RequestAged(s)'
  BY <1>2, <1>3, TypeParts, AgeParts DEF RequestTyped, RequestAged
<1>7. Typed' BY <1>2, <1>3, <1>4, <1>5, <1>6, FrameTyped, TypeParts
<1>8. \A u \in Slot : FollowupAged(u)' BY <1>3, FrameTyped
<1>9. ReportsAged' BY <1>3, AgeParts DEF ReportsAged
<1>10. StoredAged' BY <1>3, AgeParts DEF AgentRestart, StoredAged, snapshotVars
<1> QED BY <1>6, <1>7, <1>8, <1>9, <1>10, AgeParts

LEMMA ServerRestartTyped ==
  ASSUME Typed, Ages, ServerRestart
  PROVE  Typed' /\ Ages'
<1>1. /\ focus \in Focus /\ now' = now /\ now \in Nat /\ rows' = rows /\ Len(rows) \in Nat
  BY Numbers DEF ServerRestart, Typed, TypeOK
<1>2. request' = [s \in Slot |-> NoRequest] /\ followup' = [s \in Slot |-> NoFollowup]
  BY DEF ServerRestart
<1>3. request' \in [Slot -> RequestState] /\ followup' \in [Slot -> FollowupState]
  BY <1>1, <1>2, Idle
<1>4. \A s \in Slot : RequestTyped(s)' /\ FollowupTyped(s)' /\ RequestAged(s)' /\ FollowupAged(s)'
  BY <1>1, <1>2, Idle DEF RequestTyped, FollowupTyped, Evaluating, RequestAged, FollowupAged
<1>5. AgentTyped' BY TypeParts DEF ServerRestart, AgentTyped, agentVars
<1>6. ServerTyped'
  BY TypeParts, RuleAssumption DEF ServerRestart, ServerTyped, Seeded
<1>7. HistoryTyped'
  <2>1. lapsed' \in BOOLEAN BY DEF ServerRestart
  <2>2. faults' \in 0..MaxFaults BY BoundAssumption, TypeParts DEF ServerRestart, Fault, HistoryTyped
  <2> QED BY <2>1, <2>2, TypeParts DEF ServerRestart, HistoryTyped
<1>8. ReportsAged' /\ StoredAged' BY FrameTyped DEF ServerRestart, agentVars
<1> QED BY <1>3, <1>4, <1>5, <1>6, <1>7, <1>8, TypeParts, AgeParts

LEMMA FindTyped ==
  ASSUME Typed, Ages, NEW s \in Slot, Find(s)
  PROVE  Typed' /\ Ages'
<1>1. PICK i \in Latest : Found(s, i) BY FindIs
<1>2. /\ now' = now /\ now \in Nat /\ rows' = rows /\ Len(rows) \in Nat /\ followup' = followup
      /\ request[s].phase = "find"
  BY Numbers DEF Find, snapshotVars, Typed, TypeOK
<1>3. i \in 0..Len(rows) /\ request'[s].base.hardware <= now
  <2>1. i \in 0..Len(rows) /\ (i # 0 => i \in DOMAIN rows) BY LatestIs
  <2>2. i # 0 => rows[i].hardware <= now BY <2>1, AgeParts DEF StoredAged
  <2>3. NoRow.hardware = 0 BY DEF NoRow
  <2> QED BY <1>1, <1>2, <2>1, <2>2, <2>3 DEF Found
<1>4. RequestTyped(s) /\ RequestAged(s) BY TypeParts, AgeParts
<1>5. request' \in [Slot -> RequestState] /\ \A u \in Slot : RequestTyped(u)' /\ RequestAged(u)'
  BY <1>1, <1>2, <1>3, <1>4, OneRequest DEF RequestAged, Found
<1>6. AgentTyped' /\ ServerTyped' /\ HistoryTyped'
  BY TypeParts DEF Find, AgentTyped, ServerTyped, HistoryTyped, agentVars, snapshotVars,
                   softwareVars
<1>7. Typed' BY <1>2, <1>5, <1>6, FrameTyped, TypeParts
<1>8. ReportsAged' /\ StoredAged' /\ \A u \in Slot : FollowupAged(u)'
  BY FrameTyped DEF Find, agentVars, snapshotVars, softwareVars
<1> QED BY <1>5, <1>7, <1>8, AgeParts

LEMMA CreateSnapshotTyped ==
  ASSUME Typed, Ages, NEW s \in Slot, CreateSnapshot(s)
  PROVE  Typed' /\ Ages'
<1> DEFINE r == request[s].report
           k == SectionOf(r.kind)
<1>1. /\ now' = now /\ now \in Nat /\ rows \in Seq(Row) /\ Len(rows) \in Nat
      /\ r.at \in Time /\ r.at \in Nat
  BY Numbers DEF CreateSnapshot, Typed, TypeOK
<1>2. /\ rows' \in Seq(Row) /\ Len(rows') = Len(rows) + 1 /\ Requests(s, request'[s])
      /\ request'[s].phase = "answer" /\ request'[s].report = r
      /\ request'[s].index = request[s].index /\ request'[s].base = request[s].base
  BY CreateSnapshotIs
<1>3. r.at <= now /\ r.at # 0 /\ request[s].base.hardware <= now
  BY AgeParts DEF RequestAged, CreateSnapshot
<1>4. \A u \in Slot \ {s} : followup'[u] = followup[u]
  BY CreateSnapshotIs DEF Follows
<1>5. request[s].index \in 0..Len(rows') BY <1>1, <1>2, TypeParts DEF RequestTyped
<1>6. request' \in [Slot -> RequestState] /\ \A u \in Slot : RequestTyped(u)' /\ RequestAged(u)'
  BY <1>1, <1>2, <1>3, <1>4, <1>5, OneRequest
<1>7. followup' \in [Slot -> FollowupState] /\ \A u \in Slot : FollowupTyped(u)' /\ FollowupAged(u)'
  <2>1. CASE UNCHANGED followup BY <1>1, <2>1, FrameTyped
  <2>2. CASE Follows(s, followup'[s]) /\ followup'[s].phase = "compare"
             /\ followup'[s].at = request[s].report.at
             /\ followup'[s].found = {} /\ followup'[s].next = {}
    <3>1. /\ followup'[s].found \subseteq
               (IF followup'[s].phase \in {"rules", "look", "raise"} THEN Rule ELSE Change)
          /\ followup'[s].next \subseteq followup'[s].todo
          /\ followup'[s].at <= now' /\ (followup'[s].phase = "rules" => followup'[s].next = {})
      BY <1>1, <1>3, <2>2
    <3> QED BY <1>1, <2>2, <3>1, OneFollowup
  <2> QED BY <2>1, <2>2, CreateSnapshotIs
<1>8. AgentTyped' BY TypeParts DEF CreateSnapshot, AgentTyped, agentVars
<1>9. ServerTyped' BY <1>2, TypeParts DEF CreateSnapshot, ServerTyped, softwareVars
<1>10. HistoryTyped'
  <2>1. k \in Section /\ due[k] \in Time /\ due[k] \in Nat
    BY CreateSnapshotIs, SectionIs, Numbers DEF Typed, TypeOK
  <2>2. Greatest({due[k], r.at}) \in {due[k], r.at}
    <3>1. \E t \in {due[k], r.at} : \A u \in {due[k], r.at} : u <= t BY <1>1, <2>1
    <3> QED BY <3>1 DEF Greatest
  <2>3. due' \in [Section -> Time]
    BY <1>1, <2>1, <2>2, TypeParts DEF CreateSnapshot, HistoryTyped
  <2>4. behind' \subseteq Section /\ lapsed' \in BOOLEAN
    BY TypeParts DEF CreateSnapshot, HistoryTyped
  <2> QED BY <2>3, <2>4, TypeParts DEF CreateSnapshot, HistoryTyped, softwareVars
<1>11. Typed' BY <1>6, <1>7, <1>8, <1>9, <1>10, TypeParts
<1>12. ReportsAged' BY FrameTyped DEF CreateSnapshot, agentVars
<1>13. StoredAged'
  <2>1. Merged(request[s].base, r).hardware \in {r.at, request[s].base.hardware}
    <3>1. request[s].base \in Row /\ r \in Report BY CreateSnapshotIs
    <3> QED BY <3>1 DEF Row, Report, Kind, Merged, SectionOf
  <2>2. rows'[Len(rows')].hardware <= now BY <1>1, <1>3, <2>1, CreateSnapshotIs
  <2>3. \A i \in DOMAIN rows' : i # Len(rows') => i \in DOMAIN rows /\ rows'[i] = rows[i]
    BY <1>1, <1>2, CreateSnapshotIs
  <2> QED BY <1>1, <2>2, <2>3, AgeParts DEF CreateSnapshot, StoredAged, agentVars, softwareVars
<1> QED BY <1>6, <1>7, <1>11, <1>12, <1>13, AgeParts

LEMMA UpdatePostureTyped ==
  ASSUME Typed, Ages, NEW s \in Slot, UpdatePosture(s)
  PROVE  Typed' /\ Ages'
<1> DEFINE r == request[s].report
<1>1. /\ now \in Nat /\ rows \in Seq(Row) /\ Len(rows) \in Nat /\ r.at \in Time /\ r.at \in Nat
      /\ now \in Time /\ (now < MaxTime[focus] => now + 1 \in Time)
  BY Numbers DEF Typed, TypeOK
<1>2. /\ rows' \in Seq(Row) /\ Len(rows') \in Nat /\ Len(rows) <= Len(rows')
      /\ Requests(s, request'[s])
      /\ request'[s].phase = "answer" /\ request'[s].report = r
      /\ request'[s].index = request[s].index /\ request'[s].base = request[s].base
      /\ now' \in Nat /\ now <= now' /\ now' \in Time /\ lapsed' \in BOOLEAN
      /\ \A i \in DOMAIN rows' : \/ i \in DOMAIN rows /\ rows'[i].hardware = rows[i].hardware
                                 \/ rows'[i].hardware = 0
  <2>1. CASE UNCHANGED <<now, lapsed>> /\ Len(rows') = Len(rows)
             /\ \A i \in DOMAIN rows : rows'[i].hardware = rows[i].hardware
    BY <1>1, <2>1, UpdatePostureIs, TypeParts DEF HistoryTyped
  <2>2. CASE /\ now' = now + 1 /\ now < MaxTime[focus] /\ lapsed' = (lapsed \/ rows # <<>>)
             /\ Len(rows') = Len(rows) + 1
             /\ \A i \in DOMAIN rows : i \in DOMAIN rows' /\ rows'[i] = rows[i]
             /\ rows'[Len(rows')].hardware = 0
    <3>1. rows' \in Seq(Row) BY UpdatePostureIs
    <3>2. \A i \in DOMAIN rows' : i \in DOMAIN rows \/ i = Len(rows') BY <1>1, <2>2, <3>1
    <3> QED BY <1>1, <2>2, <3>1, <3>2, UpdatePostureIs
  <2> QED BY <2>1, <2>2, UpdatePostureIs
<1>3. r.at <= now /\ r.at # 0 /\ request[s].base.hardware <= now /\ request[s].base.hardware \in Nat
  BY AgeParts, Numbers, PostureFrame DEF RequestAged
<1>4. followup' = followup BY PostureFrame
<1>5. request[s].index \in 0..Len(rows') BY <1>1, <1>2, TypeParts DEF RequestTyped
<1>6. request' \in [Slot -> RequestState] /\ \A u \in Slot : RequestTyped(u)' /\ RequestAged(u)'
  <2>1. r.at <= now' /\ request[s].base.hardware <= now' BY <1>1, <1>2, <1>3
  <2> QED BY <1>1, <1>2, <1>3, <1>4, <1>5, <2>1, OneRequest
<1>7. followup' \in [Slot -> FollowupState] /\ \A u \in Slot : FollowupTyped(u)'
  BY <1>4, FrameTyped
<1>8. AgentTyped' BY <1>2, TypeParts, PostureFrame DEF AgentTyped, agentVars
<1>9. ServerTyped' BY <1>2, TypeParts, PostureFrame DEF ServerTyped, softwareVars
<1>10. HistoryTyped'
  <2>1. due' \in [Section -> Time]
    <3>1. \A q \in Section : due[q] \in Time /\ due[q] \in Nat BY Numbers DEF Typed, TypeOK
    <3>2. \A q \in Section : Greatest({due[q], r.at}) \in Time
      <4> SUFFICES ASSUME NEW q \in Section PROVE Greatest({due[q], r.at}) \in Time
        OBVIOUS
      <4>1. \E t \in {due[q], r.at} : \A u \in {due[q], r.at} : u <= t BY <1>1, <3>1
      <4>2. Greatest({due[q], r.at}) \in {due[q], r.at} BY <4>1 DEF Greatest
      <4> QED BY <1>1, <3>1, <4>2
    <3> QED BY <3>1, <3>2, PostureFrame
  <2>2. behind' \subseteq Section
    <3>1. behind \subseteq Section /\ PostureOf(r.kind) \subseteq Section
      BY PostureFrame DEF Typed, TypeOK, Section
    <3>2. CASE PutPosture(s) BY <3>1, <3>2 DEF PutPosture, Section
    <3> QED BY <3>1, <3>2, UpdatePostureIs
  <2> QED BY <1>2, <2>1, <2>2, TypeParts, PostureFrame DEF HistoryTyped, softwareVars
<1>11. Typed' BY <1>6, <1>7, <1>8, <1>9, <1>10, TypeParts
<1>12. ReportsAged' BY <1>1, <1>2, AgeParts, Numbers, PostureFrame DEF agentVars, ReportsAged
<1>13. \A u \in Slot : FollowupAged(u)'
  BY <1>1, <1>2, <1>4, AgeParts, Numbers DEF FollowupAged
<1>14. StoredAged'
  <2>1. last' <= now' /\ unsure' <= now'
    BY <1>1, <1>2, AgeParts, Numbers, PostureFrame DEF StoredAged, agentVars, softwareVars
  <2>2. \A t \in lists' : t # 0 /\ t <= now'
    BY <1>1, <1>2, AgeParts, Numbers, PostureFrame DEF StoredAged, softwareVars
  <2>3. \A e \in examined' : e[1] <= now'
    BY <1>1, <1>2, AgeParts, Numbers, PostureFrame DEF StoredAged, softwareVars
  <2>4. \A i \in DOMAIN rows' : rows'[i].hardware <= now'
    <3>1. \A i \in DOMAIN rows : rows[i].hardware \in Nat /\ rows[i].hardware <= now
      BY AgeParts, Numbers DEF StoredAged
    <3> QED BY <1>1, <1>2, <3>1
  <2> QED BY <2>1, <2>2, <2>3, <2>4 DEF StoredAged
<1> QED BY <1>6, <1>11, <1>12, <1>13, <1>14, AgeParts

LEMMA CreateSoftwareTyped ==
  ASSUME Typed, Ages, NEW s \in Slot, CreateSoftware(s)
  PROVE  Typed' /\ Ages'
<1> DEFINE r == request[s].report
<1>1. /\ now \in Nat /\ now' = now /\ rows' = rows /\ Len(rows) \in Nat
      /\ r \in Report /\ r.at \in Time /\ r.at \in Nat /\ r.known \in Time
      /\ unsure \in Nat /\ unsure \in Time
  BY Numbers DEF CreateSoftware, snapshotVars, Typed, TypeOK, Report
<1>2. r.at <= now /\ r.at # 0 /\ request[s].base.hardware <= now
  BY AgeParts DEF RequestAged, CreateSoftware
<1>3. request[s].index \in 0..Len(rows) BY TypeParts DEF RequestTyped
<1>4. \A u \in Slot \ {s} : followup'[u] = followup[u] BY CreateSoftwareIs DEF Follows
<1>5. /\ Requests(s, request'[s]) /\ request'[s].phase = "answer" /\ request'[s].report = r
      /\ request'[s].index = request[s].index /\ request'[s].base = request[s].base
  BY CreateSoftwareIs
<1>6. request' \in [Slot -> RequestState] /\ \A u \in Slot : RequestTyped(u)' /\ RequestAged(u)'
  BY <1>1, <1>2, <1>3, <1>4, <1>5, OneRequest
<1>7. followup' \in [Slot -> FollowupState] /\ \A u \in Slot : FollowupTyped(u)' /\ FollowupAged(u)'
  <2>1. /\ Follows(s, followup'[s]) /\ followup'[s].found = {} /\ followup'[s].next = {}
        /\ followup'[s].at <= now'
    BY <1>1, <1>2, CreateSoftwareIs
  <2> QED BY <1>1, <2>1, OneFollowup
<1>8. unsure' \in {unsure, r.at}
  <2>1. \E t \in {unsure, r.at} : \A u \in {unsure, r.at} : u <= t BY <1>1
  <2>2. Greatest({unsure, r.at}) \in {unsure, r.at} BY <2>1 DEF Greatest
  <2> QED BY <2>2 DEF CreateSoftware
<1>9. AgentTyped' BY TypeParts DEF CreateSoftware, AgentTyped, agentVars
<1>10. trail' \subseteq [app : App, at : Time, action : {"INSTALLED", "REMOVED"}]
  <2>1. software \in [Time -> SUBSET App]
        /\ trail \subseteq [app : App, at : Time, action : {"INSTALLED", "REMOVED"}]
    BY DEF Typed, TypeOK
  <2>2. software[r.at] \subseteq App /\ software[r.known] \subseteq App BY <1>1, <2>1
  <2>3. Delta(r) \subseteq [app : App, at : Time, action : {"INSTALLED", "REMOVED"}]
    BY <1>1, <2>2 DEF Delta
  <2> QED BY <2>1, <2>3 DEF CreateSoftware
<1>11. ServerTyped'
  BY <1>1, <1>10, TypeParts DEF CreateSoftware, ServerTyped, snapshotVars
<1>12. HistoryTyped' BY <1>1, <1>8, TypeParts DEF CreateSoftware, HistoryTyped, snapshotVars
<1>13. Typed' BY <1>6, <1>7, <1>9, <1>11, <1>12, TypeParts
<1>14. ReportsAged' BY FrameTyped DEF CreateSoftware, agentVars
<1>15. StoredAged'
  BY <1>1, <1>2, <1>8, AgeParts DEF CreateSoftware, StoredAged, agentVars, snapshotVars
<1> QED BY <1>6, <1>7, <1>13, <1>14, <1>15, AgeParts

LEMMA AnswerTyped ==
  ASSUME Typed, Ages, NEW s \in Slot, Answer(s)
  PROVE  Typed' /\ Ages'
<1> DEFINE r == request[s].report
<1>1. /\ now \in Nat /\ now' = now /\ rows' = rows /\ Len(rows) \in Nat /\ followup' = followup
      /\ r.at \in Time /\ r.at \in Nat /\ focus \in Focus
  BY Numbers DEF Answer, snapshotVars, Typed, TypeOK
<1>2. r.at <= now BY AgeParts DEF RequestAged
<1>3. Requests(s, request'[s]) /\ request'[s] = NoRequest BY AnswerIs
<1>4. /\ request'[s].phase = "idle" /\ request'[s].report.at = 0 /\ request'[s].index = 0
      /\ request'[s].base.hardware = 0
  BY <1>1, <1>3, Idle
<1>5. request' \in [Slot -> RequestState] /\ \A u \in Slot : RequestTyped(u)' /\ RequestAged(u)'
  BY <1>1, <1>3, <1>4, OneRequest
<1>6. /\ \/ outbox' = outbox \ {r} /\ live' = live \ {r}
         \/ outbox' = outbox /\ live' = live
      /\ last' = last \/ last' = r.at
  BY DEF Answer
<1>7. AgentTyped' BY <1>1, <1>6, TypeParts DEF Answer, AgentTyped
<1>8. ServerTyped' /\ HistoryTyped'
  BY TypeParts DEF Answer, ServerTyped, HistoryTyped, snapshotVars, softwareVars
<1>9. Typed' BY <1>1, <1>5, <1>7, <1>8, FrameTyped, TypeParts
<1>10. ReportsAged' BY <1>1, <1>6, AgeParts DEF ReportsAged
<1>11. StoredAged'
  BY <1>1, <1>2, <1>6, AgeParts DEF Answer, StoredAged, snapshotVars, softwareVars
<1>12. \A u \in Slot : FollowupAged(u)' BY <1>1, FrameTyped
<1> QED BY <1>5, <1>9, <1>10, <1>11, <1>12, AgeParts

\* A comparison or an evaluation writes nothing of the requests and the snapshots.
LEMMA FollowupStep ==
  ASSUME Typed, Ages, NEW s \in Slot, Follows(s, followup'[s]), followup[s].phase # "idle",
         UNCHANGED <<focus, now, agentVars, request, rows, lists, unsure>>
  PROVE  /\ AgentTyped' /\ ReportsAged' /\ request' \in [Slot -> RequestState]
         /\ \A u \in Slot : RequestTyped(u)' /\ RequestAged(u)'
<1>1. AgentTyped' /\ ReportsAged' /\ request' \in [Slot -> RequestState]
  BY TypeParts, AgeParts DEF AgentTyped, ReportsAged, agentVars
<1>2. \A u \in Slot : RequestTyped(u)' BY TypeParts DEF RequestTyped
<1>3. \A u \in Slot : RequestAged(u)'
  <2> SUFFICES ASSUME NEW u \in Slot PROVE RequestAged(u)'
    OBVIOUS
  <2>1. RequestAged(u) /\ RequestAged(s) BY AgeParts
  <2>2. u # s => followup'[u] = followup[u] BY DEF Follows
  <2>3. u = s => request[u].phase \notin {"find", "create"} BY <2>1 DEF RequestAged
  <2> QED BY <2>1, <2>2, <2>3 DEF RequestAged
<1> QED BY <1>1, <1>2, <1>3

LEMMA CompareTyped ==
  ASSUME Typed, Ages, NEW s \in Slot, Compare(s)
  PROVE  Typed' /\ Ages'
<1>1. /\ now' = now /\ now \in Nat /\ followup[s].phase = "compare" /\ followup[s].at \in Nat
      /\ followup[s].at <= now
  BY Numbers, AgeParts DEF Compare, FollowupAged
<1>2. /\ Follows(s, followup'[s]) /\ followup'[s].found \subseteq Change
      /\ followup'[s].next \subseteq followup'[s].todo
      /\ followup'[s].at \in {followup[s].at, 0} /\ followup'[s].phase \in {"idle", "record"}
  BY CompareIs
<1>3. followup' \in [Slot -> FollowupState] /\ \A u \in Slot : FollowupTyped(u)' /\ FollowupAged(u)'
  BY <1>1, <1>2, OneFollowup
<1>4. /\ AgentTyped' /\ ReportsAged' /\ request' \in [Slot -> RequestState]
      /\ \A u \in Slot : RequestTyped(u)' /\ RequestAged(u)'
  BY <1>1, <1>2, FollowupStep DEF Compare, softwareVars
<1>5. ServerTyped' BY TypeParts DEF Compare, ServerTyped, softwareVars
<1>6. HistoryTyped'
  <2>1. lapsed' \in BOOLEAN BY DEF Compare
  <2> QED BY <2>1, TypeParts DEF Compare, HistoryTyped, softwareVars
<1>7. StoredAged' BY FrameTyped DEF Compare, agentVars, softwareVars
<1> QED BY <1>3, <1>4, <1>5, <1>6, <1>7, TypeParts, AgeParts

LEMMA FoundIsFinite ==
  ASSUME Typed, Ordered, NEW s \in Slot, followup[s].phase = "record"
  PROVE  /\ IsFiniteSet(followup[s].found)
         /\ \E a, b \in Machine : followup[s].found = Differences(a, b)
<1>1. PICK a \in Machine, b \in Machine : followup[s].found = Differences(a, b)
  BY DEF Ordered, InPhase
<1> QED BY <1>1, DifferencesAre

LEMMA RecordChangesTyped ==
  ASSUME Typed, Ages, Ordered, NEW s \in Slot, RecordChanges(s)
  PROVE  Typed' /\ Ages'
<1>1. /\ now' = now /\ now \in Nat /\ followup[s].phase = "record" /\ followup[s].at \in Nat
      /\ followup[s].at <= now
  BY Numbers, AgeParts DEF RecordChanges, FollowupAged
<1>2. /\ Follows(s, followup'[s]) /\ followup'[s].found \subseteq Change
      /\ followup'[s].next \subseteq followup'[s].todo /\ changes' \in Seq(Change)
      /\ followup'[s].at \in {followup[s].at, 0} /\ followup'[s].phase \in {"idle", "alarm"}
  BY <1>1, FoundIsFinite, RecordChangesIs
<1>3. followup' \in [Slot -> FollowupState] /\ \A u \in Slot : FollowupTyped(u)' /\ FollowupAged(u)'
  BY <1>1, <1>2, OneFollowup
<1>4. /\ AgentTyped' /\ ReportsAged' /\ request' \in [Slot -> RequestState]
      /\ \A u \in Slot : RequestTyped(u)' /\ RequestAged(u)'
  BY <1>1, <1>2, FollowupStep DEF RecordChanges, softwareVars
<1>5. ServerTyped' BY <1>2, TypeParts DEF RecordChanges, ServerTyped, softwareVars
<1>6. HistoryTyped' BY TypeParts DEF RecordChanges, HistoryTyped, softwareVars
<1>7. StoredAged' BY FrameTyped DEF RecordChanges, agentVars, softwareVars
<1> QED BY <1>3, <1>4, <1>5, <1>6, <1>7, TypeParts, AgeParts

LEMMA RaiseRamAlertTyped ==
  ASSUME Typed, Ages, NEW s \in Slot, RaiseRamAlert(s)
  PROVE  Typed' /\ Ages'
<1>1. now' = now /\ now \in Nat /\ followup[s].phase = "alarm"
  BY Numbers DEF RaiseRamAlert
<1>2. /\ Follows(s, followup'[s]) /\ followup'[s].found = {} /\ followup'[s].next = {}
      /\ followup'[s].at = 0 /\ followup'[s].phase = "idle"
  BY FinishIs, Idle DEF RaiseRamAlert, Typed, TypeOK
<1>3. followup' \in [Slot -> FollowupState] /\ \A u \in Slot : FollowupTyped(u)' /\ FollowupAged(u)'
  BY <1>1, <1>2, OneFollowup
<1>4. /\ AgentTyped' /\ ReportsAged' /\ request' \in [Slot -> RequestState]
      /\ \A u \in Slot : RequestTyped(u)' /\ RequestAged(u)'
  BY <1>1, <1>2, FollowupStep DEF RaiseRamAlert, softwareVars
<1>5. ServerTyped' BY TypeParts DEF RaiseRamAlert, ServerTyped, softwareVars
<1>6. HistoryTyped' BY TypeParts DEF RaiseRamAlert, HistoryTyped, softwareVars
<1>7. StoredAged' BY FrameTyped DEF RaiseRamAlert, agentVars, softwareVars
<1> QED BY <1>3, <1>4, <1>5, <1>6, <1>7, TypeParts, AgeParts

LEMMA ReadRulesTyped ==
  ASSUME Typed, Ages, NEW s \in Slot, ReadRules(s)
  PROVE  Typed' /\ Ages'
<1>1. /\ now' = now /\ now \in Nat /\ followup[s].phase = "rules" /\ followup[s].at \in Nat
      /\ followup[s].at <= now /\ followup[s].next = {} /\ rules \subseteq Rule /\ focus \in Focus
  BY Numbers, AgeParts DEF ReadRules, FollowupAged, Typed, TypeOK
<1>2. /\ Follows(s, followup'[s])
      /\ \/ followup'[s] = NoFollowup
         \/ /\ followup'[s].phase = "look" /\ followup'[s].at = followup[s].at
            /\ followup'[s].found = rules /\ followup'[s].next = {}
  BY <1>1, ReadRulesIs
<1>3. followup' \in [Slot -> FollowupState] /\ \A u \in Slot : FollowupTyped(u)' /\ FollowupAged(u)'
  <2>1. /\ followup'[s].found \subseteq
             (IF followup'[s].phase \in {"rules", "look", "raise"} THEN Rule ELSE Change)
        /\ followup'[s].next = {} /\ followup'[s].at <= now'
    BY <1>1, <1>2, Idle
  <2> QED BY <1>1, <1>2, <2>1, OneFollowup
<1>4. /\ AgentTyped' /\ ReportsAged' /\ request' \in [Slot -> RequestState]
      /\ \A u \in Slot : RequestTyped(u)' /\ RequestAged(u)'
  BY <1>1, <1>2, FollowupStep DEF ReadRules, snapshotVars
<1>5. ServerTyped' BY TypeParts DEF ReadRules, ServerTyped, snapshotVars
<1>6. HistoryTyped'
  <2>1. crowded' \in BOOLEAN BY DEF ReadRules
  <2> QED BY <2>1, TypeParts DEF ReadRules, HistoryTyped, snapshotVars
<1>7. StoredAged' BY FrameTyped DEF ReadRules, agentVars, snapshotVars
<1> QED BY <1>3, <1>4, <1>5, <1>6, <1>7, TypeParts, AgeParts

\* An evaluation in progress, after a look or a raise.
LEMMA ProceedTyped ==
  ASSUME Typed, Ages, NEW s \in Slot, NEW left \in SUBSET App, Proceed(s, left),
         Evaluating(s), now' = now
  PROVE  /\ Follows(s, followup'[s]) /\ followup' \in [Slot -> FollowupState]
         /\ \A u \in Slot : FollowupTyped(u)' /\ FollowupAged(u)'
         /\ examined' \subseteq Time \X SUBSET Rule /\ \A e \in examined' : e[1] <= now
<1>1. /\ now \in Nat /\ followup[s].at \in Nat /\ followup[s].at \in Time /\ followup[s].at <= now
      /\ followup[s].found \subseteq Rule /\ focus \in Focus
  BY Numbers, TypeParts, AgeParts DEF FollowupAged, FollowupTyped, Typed, TypeOK
<1>2. /\ Follows(s, followup'[s])
      /\ followup'[s] = NoFollowup \/ (/\ followup'[s].phase = "look"
                                       /\ followup'[s].at = followup[s].at
                                       /\ followup'[s].found = followup[s].found
                                       /\ followup'[s].next = {})
      /\ examined' \subseteq examined \cup {<<followup[s].at, followup[s].found>>}
  BY ProceedIs
<1>3. followup' \in [Slot -> FollowupState] /\ \A u \in Slot : FollowupTyped(u)' /\ FollowupAged(u)'
  <2>1. /\ followup'[s].found \subseteq
             (IF followup'[s].phase \in {"rules", "look", "raise"} THEN Rule ELSE Change)
        /\ followup'[s].next = {} /\ followup'[s].at <= now'
    BY <1>1, <1>2, Idle
  <2> QED BY <1>1, <1>2, <2>1, OneFollowup
<1>4. examined \subseteq Time \X SUBSET Rule /\ \A e \in examined : e[1] <= now
  BY TypeParts, AgeParts DEF HistoryTyped, StoredAged
<1> QED BY <1>1, <1>2, <1>3, <1>4

LEMMA LookForAlertTyped ==
  ASSUME Typed, Ages, NEW s \in Slot, LookForAlert(s)
  PROVE  Typed' /\ Ages'
<1>1. /\ now' = now /\ now \in Nat /\ followup[s].phase = "look" /\ followup[s].at \in Nat
      /\ followup[s].at <= now /\ followup[s].todo \subseteq App /\ followup[s].found \subseteq Rule
      /\ examined \subseteq Time \X SUBSET Rule /\ \A e \in examined : e[1] <= now
  BY Numbers, AgeParts, TypeParts
  DEF LookForAlert, FollowupAged, Typed, TypeOK, Evaluating, StoredAged, HistoryTyped
<1>2. /\ Follows(s, followup'[s]) /\ followup' \in [Slot -> FollowupState]
      /\ \A u \in Slot : FollowupTyped(u)' /\ FollowupAged(u)'
      /\ examined' \subseteq Time \X SUBSET Rule /\ \A e \in examined' : e[1] <= now
  <2>1. PICK a \in followup[s].todo :
          /\ a \in App /\ Follows(s, followup'[s])
          /\ \/ open[a] > 0 /\ Proceed(s, followup[s].todo \ {a})
             \/ /\ ~(open[a] > 0) /\ UNCHANGED examined
                /\ followup'[s].phase = "raise" /\ followup'[s].at = followup[s].at
                /\ followup'[s].found = followup[s].found /\ followup'[s].next = {a}
                /\ followup'[s].todo = followup[s].todo
    BY LookForAlertIs
  <2>2. CASE Proceed(s, followup[s].todo \ {a})
    BY <1>1, <2>2, ProceedTyped DEF Evaluating
  <2>3. CASE /\ UNCHANGED examined
             /\ followup'[s].phase = "raise" /\ followup'[s].at = followup[s].at
             /\ followup'[s].found = followup[s].found /\ followup'[s].next = {a}
             /\ followup'[s].todo = followup[s].todo
    <3>1. /\ followup'[s].found \subseteq
               (IF followup'[s].phase \in {"rules", "look", "raise"} THEN Rule ELSE Change)
          /\ followup'[s].next \subseteq followup'[s].todo /\ followup'[s].at <= now'
          /\ followup'[s].phase # "rules"
      BY <1>1, <2>1, <2>3
    <3> QED BY <1>1, <2>1, <2>3, <3>1, OneFollowup
  <2> QED BY <2>1, <2>2, <2>3
<1>3. /\ AgentTyped' /\ ReportsAged' /\ request' \in [Slot -> RequestState]
      /\ \A u \in Slot : RequestTyped(u)' /\ RequestAged(u)'
  BY <1>1, <1>2, FollowupStep DEF LookForAlert, snapshotVars
<1>4. ServerTyped' BY TypeParts DEF LookForAlert, ServerTyped, snapshotVars
<1>5. HistoryTyped' BY <1>2, TypeParts DEF LookForAlert, HistoryTyped, snapshotVars
<1>6. StoredAged' BY <1>1, <1>2, AgeParts DEF LookForAlert, agentVars, snapshotVars, StoredAged
<1> QED BY <1>2, <1>3, <1>4, <1>5, <1>6, TypeParts, AgeParts

LEMMA RaiseAlertTyped ==
  ASSUME Typed, Ages, NEW s \in Slot, RaiseAlert(s)
  PROVE  Typed' /\ Ages'
<1> DEFINE left == followup[s].todo \ followup[s].next
<1>1. /\ now' = now /\ now \in Nat /\ followup[s].phase = "raise"
      /\ left \in SUBSET App /\ followup[s].next \subseteq App
  BY Numbers DEF RaiseAlert, Typed, TypeOK
<1>2. Proceed(s, left) BY DEF RaiseAlert
<1>3. /\ Follows(s, followup'[s]) /\ followup' \in [Slot -> FollowupState]
      /\ \A u \in Slot : FollowupTyped(u)' /\ FollowupAged(u)'
      /\ examined' \subseteq Time \X SUBSET Rule /\ \A e \in examined' : e[1] <= now
  BY <1>1, <1>2, ProceedTyped DEF Evaluating
<1>4. /\ AgentTyped' /\ ReportsAged' /\ request' \in [Slot -> RequestState]
      /\ \A u \in Slot : RequestTyped(u)' /\ RequestAged(u)'
  BY <1>1, <1>3, FollowupStep DEF RaiseAlert, snapshotVars
<1>5. ServerTyped'
  <2>1. open' \in [App -> Nat] BY TypeParts DEF RaiseAlert, ServerTyped
  <2> QED BY <2>1, TypeParts DEF RaiseAlert, ServerTyped, snapshotVars
<1>6. HistoryTyped' BY <1>1, <1>3, TypeParts DEF RaiseAlert, HistoryTyped, snapshotVars
<1>7. StoredAged' BY <1>1, <1>3, AgeParts DEF RaiseAlert, agentVars, snapshotVars, StoredAged
<1> QED BY <1>3, <1>4, <1>5, <1>6, <1>7, TypeParts, AgeParts

LEMMA EditTyped ==
  ASSUME Typed, Ages,
         \/ \E r \in Rule : CreateRule(r) \/ DeleteRule(r)
         \/ \E a \in App : ResolveAlert(a)
  PROVE  Typed' /\ Ages'
<1>1. /\ UNCHANGED <<focus, now, agentVars, request, followup, snapshotVars, lists, trail, unsure,
                     detour, examined, alerted, crowded, faults>>
      /\ edits < MaxEdits /\ edits' = edits + 1
      /\ rules' \subseteq Rule /\ open' \in [App -> Nat]
  <2>1. rules \subseteq Rule /\ open \in [App -> Nat] BY DEF Typed, TypeOK
  <2>2. ASSUME NEW a \in App, ResolveAlert(a) PROVE open' \in [App -> Nat]
    BY <2>1, <2>2 DEF ResolveAlert
  <2>3. CASE \E r \in Rule : CreateRule(r) BY <2>1, <2>3 DEF CreateRule, Edit
  <2>4. CASE \E r \in Rule : DeleteRule(r) BY <2>1, <2>4 DEF DeleteRule, Edit
  <2>5. CASE \E a \in App : ResolveAlert(a) BY <2>1, <2>2, <2>5 DEF ResolveAlert, Edit
  <2> QED BY <2>3, <2>4, <2>5
<1>2. AgentTyped' BY <1>1, TypeParts DEF AgentTyped, agentVars
<1>3. ServerTyped' BY <1>1, TypeParts DEF ServerTyped, snapshotVars
<1>4. HistoryTyped' BY <1>1, TypeParts, BoundAssumption DEF HistoryTyped, snapshotVars
<1>5. UNCHANGED <<followup, request, rows, outbox, now, last, unsure, lists, examined>>
  BY <1>1 DEF agentVars, snapshotVars
<1> QED BY <1>2, <1>3, <1>4, <1>5, FrameTyped, TypeParts, AgeParts

LEMMA NextTyped ==
  ASSUME Typed, Ages, Ordered, [Next]_vars
  PROVE  Typed' /\ Ages'
<1>1. CASE UNCHANGED vars
  <2>1. AgentTyped' /\ ServerTyped' /\ HistoryTyped'
    BY <1>1, TypeParts
    DEF vars, agentVars, snapshotVars, softwareVars, AgentTyped, ServerTyped, HistoryTyped
  <2>2. UNCHANGED <<followup, request, rows, outbox, now, last, unsure, lists, examined>>
    BY <1>1 DEF vars, agentVars, snapshotVars, softwareVars
  <2> QED BY <2>1, <2>2, FrameTyped, TypeParts, AgeParts
<1>2. ASSUME NEW kind \in Kind, CollectSnapshot(kind) PROVE Typed' /\ Ages'
  BY <1>2, CollectSnapshotTyped
<1>3. CASE CollectSoftware BY <1>3, CollectSoftwareTyped
<1>4. ASSUME NEW s \in Slot, NEW r \in outbox, Deliver(s, r) PROVE Typed' /\ Ages'
  BY <1>4, DeliverTyped
<1>5. ASSUME NEW r \in outbox, Enqueue(r) PROVE Typed' /\ Ages' BY <1>5, EnqueueTyped
<1>6. CASE AgentRestart BY <1>6, AgentRestartTyped
<1>7. CASE ServerRestart BY <1>7, ServerRestartTyped
<1>8. ASSUME NEW s \in Slot,
             \/ TimeOut(s) \/ Find(s) \/ CreateSnapshot(s) \/ UpdatePosture(s)
             \/ CreateSoftware(s) \/ Answer(s)
      PROVE  Typed' /\ Ages'
  BY <1>8, TimeOutTyped, FindTyped, CreateSnapshotTyped, UpdatePostureTyped, CreateSoftwareTyped,
     AnswerTyped
<1>9. ASSUME NEW s \in Slot,
             \/ Compare(s) \/ RecordChanges(s) \/ RaiseRamAlert(s)
             \/ ReadRules(s) \/ LookForAlert(s) \/ RaiseAlert(s)
      PROVE  Typed' /\ Ages'
  BY <1>9, CompareTyped, RecordChangesTyped, RaiseRamAlertTyped, ReadRulesTyped,
     LookForAlertTyped, RaiseAlertTyped
<1>10. CASE \/ \E r \in Rule : CreateRule(r) \/ DeleteRule(r)
            \/ \E a \in App : ResolveAlert(a)
  BY <1>10, EditTyped
<1> QED BY <1>1, <1>2, <1>3, <1>4, <1>5, <1>6, <1>7, <1>8, <1>9, <1>10 DEF Next

-----------------------------------------------------------------------------
(* Forbidden applications                                                   *)

\* Collecting, delivering and storing leave the evaluations as they were.
LEMMA ForbiddenFrame ==
  ASSUME Typed, Ages, Examining, Alone,
         UNCHANGED <<open, examined, alerted, crowded>>,
         \A t \in Time : t <= now => software'[t] = software[t],
         \A s \in Slot : followup'[s] = followup[s]
                           \/ followup'[s].phase \notin {"look", "raise"}
  PROVE  Examining' /\ Alone'
<1>1. \A t \in Time : \A found : t <= now => Forbidden(t, found)' = Forbidden(t, found)
  BY DEF Forbidden
<1>2. \A e \in examined : e[1] \in Time /\ e[1] <= now
  BY TypeParts, AgeParts DEF HistoryTyped, StoredAged
<1>3. \A s \in Slot : followup[s].at \in Time /\ followup[s].at <= now
  BY Numbers, AgeParts DEF FollowupAged
<1>4. \A e \in examined' : Forbidden(e[1], e[2])' \subseteq alerted'
  BY <1>1, <1>2 DEF Examining
<1>5. ASSUME NEW s \in Slot, followup'[s].phase \in {"look", "raise"}
      PROVE  Forbidden(followup[s].at, followup[s].found)' \subseteq alerted' \cup followup'[s].todo
  <2>1. followup'[s] = followup[s] BY <1>5
  <2>2. Forbidden(followup[s].at, followup[s].found) \subseteq alerted \cup followup[s].todo
    BY <1>5, <2>1 DEF Examining
  <2> QED BY <1>3, <2>1, <2>2 DEF Forbidden
<1>6. Examining' BY <1>4, <1>5 DEF Examining
<1>7. Alone' BY DEF Alone
<1> QED BY <1>6, <1>7

\* What the rules forbid of a list is what an evaluation has to do.
LEMMA MatchesAreForbidden ==
  ASSUME NEW t \in Time
  PROVE  Forbidden(t, rules) = Matches(software[t])
BY DEF Forbidden, Matches

LEMMA ReadRulesExamining ==
  ASSUME Typed, Ages, Examining, Alone, NEW s \in Slot, ReadRules(s)
  PROVE  Examining' /\ Alone'
<1>1. /\ software' = software /\ open' = open /\ examined' = examined /\ alerted' = alerted
      /\ rules' = rules /\ followup[s].next = {} /\ followup[s].at \in Time /\ focus \in Focus
      /\ followup[s].phase = "rules"
  BY AgeParts, Numbers DEF ReadRules, agentVars, FollowupAged, Typed, TypeOK
<1>2. /\ Follows(s, followup'[s])
      /\ \/ followup'[s].phase = "idle"
         \/ /\ followup'[s].phase = "look" /\ followup'[s].at = followup[s].at
            /\ followup'[s].found = rules
            /\ followup'[s].todo = Matches(software[followup[s].at])
  BY <1>1, ReadRulesIs, Idle
<1>3. ASSUME NEW u \in Slot, followup'[u].phase \in {"look", "raise"}
      PROVE  Forbidden(followup[u].at, followup[u].found)' \subseteq alerted' \cup followup'[u].todo
  <2>1. CASE u = s
    BY <1>1, <1>2, <1>3, <2>1, MatchesAreForbidden DEF Forbidden
  <2>2. CASE u # s
    BY <1>1, <1>2, <1>3, <2>2 DEF Follows, Forbidden, Examining
  <2> QED BY <2>1, <2>2
<1>4. Examining' BY <1>1, <1>3 DEF Examining, Forbidden
<1>5. ASSUME ~crowded' PROVE ~crowded /\ \A u \in Slot \ {s} : ~Evaluating(u)
  BY <1>5 DEF ReadRules
<1>6. Alone'
  BY <1>1, <1>2, <1>5 DEF Alone, Follows, Evaluating
<1> QED BY <1>4, <1>6

\* An application is settled, by its alert, and nothing else changes in what there is to do.
LEMMA EvaluationStep ==
  ASSUME Typed, Examining, NEW s \in Slot, followup[s].phase \in {"look", "raise"},
         Follows(s, followup'[s]), software' = software, alerted \subseteq alerted',
         \/ /\ followup'[s].phase = "idle"
            /\ examined' = examined \cup {<<followup[s].at, followup[s].found>>}
            /\ followup[s].todo \subseteq alerted'
         \/ /\ followup'[s].phase \in {"look", "raise"} /\ followup'[s].at = followup[s].at
            /\ followup'[s].found = followup[s].found /\ examined' = examined
            /\ followup[s].todo \subseteq alerted' \cup followup'[s].todo
  PROVE  /\ \A e \in examined' : Forbidden(e[1], e[2])' \subseteq alerted'
         /\ \A u \in Slot : followup'[u].phase \in {"look", "raise"} =>
              Forbidden(followup[u].at, followup[u].found)' \subseteq alerted' \cup followup'[u].todo
<1>1. \A t, found : Forbidden(t, found)' = Forbidden(t, found) BY DEF Forbidden
<1>2. Forbidden(followup[s].at, followup[s].found) \subseteq alerted \cup followup[s].todo
  BY DEF Examining
<1>3. ASSUME NEW e \in examined' PROVE Forbidden(e[1], e[2])' \subseteq alerted'
  <2>1. CASE e \in examined BY <1>1, <2>1 DEF Examining
  <2>2. CASE e = <<followup[s].at, followup[s].found>> /\ followup[s].todo \subseteq alerted'
    BY <1>1, <1>2, <2>2
  <2> QED BY <1>3, <2>1, <2>2
<1>4. ASSUME NEW u \in Slot, followup'[u].phase \in {"look", "raise"}
      PROVE  Forbidden(followup[u].at, followup[u].found)' \subseteq alerted' \cup followup'[u].todo
  <2>1. CASE u = s BY <1>2, <1>4, <2>1 DEF Forbidden
  <2>2. CASE u # s
    <3>1. followup'[u] = followup[u] BY <2>2 DEF Follows
    <3>2. Forbidden(followup[u].at, followup[u].found) \subseteq alerted \cup followup[u].todo
      BY <1>4, <3>1 DEF Examining
    <3> QED BY <3>1, <3>2 DEF Forbidden
  <2> QED BY <2>1, <2>2
<1> QED BY <1>3, <1>4

LEMMA LookForAlertExamining ==
  ASSUME Typed, Ages, Examining, Alone, NEW s \in Slot, LookForAlert(s)
  PROVE  Examining' /\ Alone'
<1>1. /\ software' = software /\ open' = open /\ alerted' = alerted /\ crowded' = crowded
      /\ followup[s].phase = "look" /\ open \in [App -> Nat] /\ focus \in Focus
      /\ followup[s].todo \subseteq App
  BY DEF LookForAlert, agentVars, Typed, TypeOK
<1>2. PICK a \in followup[s].todo :
        /\ a \in App /\ Follows(s, followup'[s])
        /\ \/ open[a] > 0 /\ Proceed(s, followup[s].todo \ {a})
           \/ /\ ~(open[a] > 0) /\ UNCHANGED examined
              /\ followup'[s].phase = "raise" /\ followup'[s].at = followup[s].at
              /\ followup'[s].found = followup[s].found /\ followup'[s].next = {a}
              /\ followup'[s].todo = followup[s].todo
  BY LookForAlertIs
<1>3. /\ \/ /\ followup'[s].phase = "idle"
            /\ examined' = examined \cup {<<followup[s].at, followup[s].found>>}
            /\ followup[s].todo \subseteq alerted'
         \/ /\ followup'[s].phase \in {"look", "raise"} /\ followup'[s].at = followup[s].at
            /\ followup'[s].found = followup[s].found /\ examined' = examined
            /\ followup[s].todo \subseteq alerted' \cup followup'[s].todo
      /\ followup'[s].phase = "raise" => open[a] = 0 /\ followup'[s].next = {a}
  <2>1. CASE open[a] > 0 /\ Proceed(s, followup[s].todo \ {a})
    <3>1. a \in alerted BY <1>2, <2>1 DEF Examining
    <3>2. \/ /\ followup[s].todo \ {a} = {} /\ followup'[s] = NoFollowup
             /\ examined' = examined \cup {<<followup[s].at, followup[s].found>>}
          \/ /\ followup'[s].phase = "look" /\ followup'[s].at = followup[s].at
             /\ followup'[s].found = followup[s].found
             /\ followup'[s].todo = followup[s].todo \ {a} /\ UNCHANGED examined
      BY <1>1, <2>1, ProceedIs
    <3> QED BY <1>1, <3>1, <3>2, Idle
  <2>2. CASE /\ ~(open[a] > 0) /\ UNCHANGED examined
             /\ followup'[s].phase = "raise" /\ followup'[s].at = followup[s].at
             /\ followup'[s].found = followup[s].found /\ followup'[s].next = {a}
             /\ followup'[s].todo = followup[s].todo
    BY <1>1, <1>2, <2>2
  <2> QED BY <1>2, <2>1, <2>2
<1>4. /\ \A e \in examined' : Forbidden(e[1], e[2])' \subseteq alerted'
      /\ \A u \in Slot : followup'[u].phase \in {"look", "raise"} =>
           Forbidden(followup[u].at, followup[u].found)' \subseteq alerted' \cup followup'[u].todo
  BY <1>1, <1>2, <1>3, EvaluationStep
<1>5. Examining' BY <1>1, <1>4 DEF Examining
<1>6. \A u \in Slot : u # s => followup'[u] = followup[u] BY <1>2 DEF Follows
<1>7. Alone' BY <1>1, <1>3, <1>6 DEF Alone
<1> QED BY <1>5, <1>7

LEMMA RaiseAlertExamining ==
  ASSUME Typed, Ages, Examining, Alone, NEW s \in Slot, RaiseAlert(s)
  PROVE  Examining' /\ Alone'
<1> DEFINE apps == followup[s].next
           left == followup[s].todo \ apps
<1>1. /\ software' = software /\ crowded' = crowded /\ followup[s].phase = "raise"
      /\ open \in [App -> Nat] /\ focus \in Focus /\ left \in SUBSET App /\ apps \subseteq App
      /\ followup[s].todo \subseteq left \cup apps
      /\ open' = [a \in App |-> IF a \in apps THEN open[a] + 1 ELSE open[a]]
      /\ alerted' = alerted \cup apps /\ Proceed(s, left)
  BY DEF RaiseAlert, agentVars, Typed, TypeOK
<1>2. /\ Follows(s, followup'[s])
      /\ \/ /\ left = {} /\ followup'[s].phase = "idle"
            /\ examined' = examined \cup {<<followup[s].at, followup[s].found>>}
         \/ /\ followup'[s].phase = "look" /\ followup'[s].at = followup[s].at
            /\ followup'[s].found = followup[s].found
            /\ followup'[s].todo = left /\ examined' = examined
  BY <1>1, ProceedIs, Idle
<1> HIDE DEF left, apps
<1>3. /\ \A e \in examined' : Forbidden(e[1], e[2])' \subseteq alerted'
      /\ \A u \in Slot : followup'[u].phase \in {"look", "raise"} =>
           Forbidden(followup[u].at, followup[u].found)' \subseteq alerted' \cup followup'[u].todo
  <2>1. CASE left = {} BY <1>1, <1>2, <2>1, EvaluationStep
  <2>2. CASE followup'[s].todo = left /\ followup'[s].phase = "look"
    BY <1>1, <1>2, <2>2, EvaluationStep
  <2> QED BY <1>2, <2>1, <2>2
<1>4. \A a \in App : open'[a] > 0 => a \in alerted'
  BY <1>1 DEF Examining
<1>5. Examining' BY <1>3, <1>4 DEF Examining
<1>6. \A u \in Slot : u # s => followup'[u] = followup[u] BY <1>2 DEF Follows
<1>7. ASSUME ~crowded'
      PROVE  /\ \A a \in App : open'[a] <= 1
             /\ \A u \in Slot \ {s} : followup'[u].phase \notin {"look", "raise"}
  <2>1. \A a \in apps : open[a] = 0 BY <1>1, <1>7 DEF Alone, apps
  <2>2. \A a \in App : open[a] <= 1 BY <1>1, <1>7 DEF Alone
  <2>3. \A u \in Slot \ {s} : followup[u].phase \notin {"look", "raise"}
    BY <1>1, <1>7 DEF Alone
  <2> QED BY <1>1, <1>6, <2>1, <2>2, <2>3
<1>8. Alone' BY <1>2, <1>7 DEF Alone
<1> QED BY <1>5, <1>8

LEMMA ResolveAlertExamining ==
  ASSUME Typed, Ages, Examining, Alone, NEW a \in App, ResolveAlert(a)
  PROVE  Examining' /\ Alone'
<1>1. /\ software' = software /\ followup' = followup /\ examined' = examined
      /\ alerted' = alerted /\ crowded' = crowded /\ open \in [App -> Nat]
      /\ open[a] > 0 /\ open' = [open EXCEPT ![a] = @ - 1]
  BY DEF ResolveAlert, agentVars, Typed, TypeOK
<1>2. \A b \in App : open'[b] <= open[b] /\ open'[b] \in Nat BY <1>1
<1>3. Examining' BY <1>1, <1>2 DEF Examining, Forbidden
<1>4. \A s \in Slot : followup[s].next \subseteq App BY DEF Typed, TypeOK
<1>5. \A b \in App : open[b] \in Nat BY <1>1
<1>6. Alone' BY <1>1, <1>2, <1>4, <1>5 DEF Alone
<1> QED BY <1>3, <1>6

LEMMA NextExamining ==
  ASSUME Typed, Ages, Ordered, Examining, Alone, [Next]_vars
  PROVE  Examining' /\ Alone'
<1>0. focus \in Focus /\ now \in Nat BY Numbers DEF Typed, TypeOK
<1>1. CASE \/ UNCHANGED vars
           \/ \E kind \in Kind : CollectSnapshot(kind)
           \/ \E s \in Slot : \E r \in outbox : Deliver(s, r)
           \/ \E r \in outbox : Enqueue(r)
           \/ AgentRestart
           \/ \E s \in Slot : TimeOut(s) \/ Find(s) \/ UpdatePosture(s) \/ Answer(s)
           \/ \E r \in Rule : CreateRule(r) \/ DeleteRule(r)
  <2>1. UNCHANGED <<open, examined, alerted, crowded, software, followup>>
    <3>1. CASE UNCHANGED vars BY <3>1 DEF vars, agentVars, softwareVars
    <3>2. CASE \E kind \in Kind : CollectSnapshot(kind)
      BY <3>2 DEF CollectSnapshot, agentVars, softwareVars
    <3>3. CASE \E s \in Slot : \E r \in outbox : Deliver(s, r)
      BY <3>3 DEF Deliver, agentVars, softwareVars
    <3>4. CASE \E r \in outbox : Enqueue(r) BY <3>4 DEF Enqueue
    <3>5. CASE AgentRestart BY <3>5 DEF AgentRestart
    <3>6. CASE \E s \in Slot : TimeOut(s) BY <3>6 DEF TimeOut, agentVars
    <3>7. CASE \E s \in Slot : Find(s) BY <3>7 DEF Find, agentVars, softwareVars
    <3>8. CASE \E s \in Slot : UpdatePosture(s) BY <3>8, PostureFrame DEF agentVars, softwareVars
    <3>9. CASE \E s \in Slot : Answer(s) BY <3>9 DEF Answer, softwareVars
    <3>10. CASE \E r \in Rule : CreateRule(r) BY <3>10 DEF CreateRule, agentVars
    <3>11. CASE \E r \in Rule : DeleteRule(r) BY <3>11 DEF DeleteRule, agentVars
    <3> QED BY <1>1, <3>1, <3>2, <3>3, <3>4, <3>5, <3>6, <3>7, <3>8, <3>9, <3>10, <3>11
  <2> QED BY <2>1, ForbiddenFrame
<1>2. CASE CollectSoftware
  <2>1. UNCHANGED <<open, examined, alerted, crowded, followup>>
    BY <1>2 DEF CollectSoftware
  <2>2. \A t \in Time : t <= now => software'[t] = software[t]
    <3>1. now' = now + 1 BY <1>2 DEF CollectSoftware, Reading
    <3>2. software \in [Time -> SUBSET App] BY DEF Typed, TypeOK
    <3>3. \E list \in SUBSET App : software' = [software EXCEPT ![now'] = list]
      BY <1>2 DEF CollectSoftware
    <3>4. \A t \in Time : t <= now => t # now' BY <1>0, <3>1, TimeIs
    <3> QED BY <3>2, <3>3, <3>4
  <2> QED BY <2>1, <2>2, ForbiddenFrame
<1>3. ASSUME NEW s \in Slot, UNCHANGED <<open, examined, alerted, crowded, software>>,
             Follows(s, followup'[s]) \/ UNCHANGED followup,
             followup'[s] = followup[s] \/ followup'[s].phase \notin {"look", "raise"}
      PROVE  Examining' /\ Alone'
  <2>1. \A u \in Slot : followup'[u] = followup[u] \/ followup'[u].phase \notin {"look", "raise"}
    BY <1>3 DEF Follows
  <2> QED BY <1>3, <2>1, ForbiddenFrame
<1>4. ASSUME NEW s \in Slot, CreateSnapshot(s) PROVE Examining' /\ Alone'
  BY <1>3, <1>4, CreateSnapshotIs DEF CreateSnapshot, agentVars, softwareVars
<1>5. ASSUME NEW s \in Slot, CreateSoftware(s) PROVE Examining' /\ Alone'
  BY <1>3, <1>5, CreateSoftwareIs DEF CreateSoftware, agentVars
<1>6. ASSUME NEW s \in Slot, Compare(s) PROVE Examining' /\ Alone'
  <2>1. Follows(s, followup'[s]) /\ followup'[s].phase \notin {"look", "raise"}
    BY <1>6, CompareIs
  <2> QED BY <1>3, <1>6, <2>1 DEF Compare, agentVars, softwareVars
<1>7. ASSUME NEW s \in Slot, RecordChanges(s) PROVE Examining' /\ Alone'
  <2>1. Follows(s, followup'[s]) /\ followup'[s].phase \notin {"look", "raise"}
    BY <1>7, FoundIsFinite, RecordChangesIs DEF RecordChanges
  <2> QED BY <1>3, <1>7, <2>1 DEF RecordChanges, agentVars, softwareVars
<1>8. ASSUME NEW s \in Slot, RaiseRamAlert(s) PROVE Examining' /\ Alone'
  <2>1. Follows(s, followup'[s]) /\ followup'[s].phase \notin {"look", "raise"}
    BY <1>0, <1>8, FinishIs, Idle DEF RaiseRamAlert
  <2> QED BY <1>3, <1>8, <2>1 DEF RaiseRamAlert, agentVars, softwareVars
<1>9. CASE ServerRestart
  <2>1. \A s \in Slot : followup'[s].phase \notin {"look", "raise"}
    BY <1>0, <1>9, Idle DEF ServerRestart
  <2> QED BY <1>9, <2>1, ForbiddenFrame DEF ServerRestart, agentVars
<1>10. CASE \E s \in Slot : ReadRules(s) \/ LookForAlert(s) \/ RaiseAlert(s)
  BY <1>10, ReadRulesExamining, LookForAlertExamining, RaiseAlertExamining
<1>11. CASE \E a \in App : ResolveAlert(a) BY <1>11, ResolveAlertExamining
<1> QED BY <1>1, <1>2, <1>4, <1>5, <1>6, <1>7, <1>8, <1>9, <1>10, <1>11 DEF Next

-----------------------------------------------------------------------------
(* Snapshots show what was accepted                                         *)

\* The request knows what it knew.
SameRequest(s) ==
  /\ request'[s].phase = request[s].phase /\ request'[s].report = request[s].report
  /\ request'[s].index = request[s].index /\ request'[s].base = request[s].base
  /\ request'[s].count = request[s].count

\* A request's reading of the latest row is unaffected by what other requests do.
LEMMA ReadFrame ==
  ASSUME Typed, Read, NEW s \in Slot,
         SameRequest(s) \/ request'[s].phase # "create",
         rows' \in Seq(Row), Len(rows) <= Len(rows'),
         \A i \in DOMAIN rows : rows'[i].at = rows[i].at
  PROVE  request'[s].phase = "create" =>
           /\ request'[s].count <= Len(rows')
           /\ request'[s].index = 0 => request'[s].count = 0 /\ request'[s].base = NoRow
           /\ request'[s].index # 0 => request'[s].count # 0
           /\ Len(rows') = request'[s].count /\ request'[s].index # 0
                /\ request'[s].report.kind \in Snapshot =>
                /\ rows'[request'[s].index].at < request'[s].report.at
                /\ \A j \in DOMAIN rows' : rows'[j].at <= rows'[request'[s].index].at
<1> SUFFICES ASSUME request'[s].phase = "create"
             PROVE  /\ request'[s].count <= Len(rows')
                    /\ request'[s].index = 0 => request'[s].count = 0 /\ request'[s].base = NoRow
                    /\ request'[s].index # 0 => request'[s].count # 0
                    /\ Len(rows') = request'[s].count /\ request'[s].index # 0
                         /\ request'[s].report.kind \in Snapshot =>
                         /\ rows'[request'[s].index].at < request'[s].report.at
                         /\ \A j \in DOMAIN rows' : rows'[j].at <= rows'[request'[s].index].at
  OBVIOUS
<1>1. SameRequest(s) /\ request[s].phase = "create" BY DEF SameRequest
<1>2. /\ request[s].count \in Nat /\ request[s].index \in 0..Len(rows) /\ rows \in Seq(Row)
      /\ Len(rows) \in Nat /\ Len(rows') \in Nat
  BY DEF Typed, TypeOK, RequestState
<1>3. /\ request[s].count <= Len(rows)
      /\ request[s].index = 0 => request[s].count = 0 /\ request[s].base = NoRow
      /\ request[s].index # 0 => request[s].count # 0
      /\ Len(rows) = request[s].count /\ request[s].index # 0 /\ request[s].report.kind \in Snapshot =>
           /\ rows[request[s].index].at < request[s].report.at
           /\ \A j \in DOMAIN rows : rows[j].at <= rows[request[s].index].at
  BY <1>1 DEF Read
<1>4. ASSUME Len(rows') = request[s].count, request[s].index # 0,
             request[s].report.kind \in Snapshot
      PROVE  /\ rows'[request[s].index].at < request[s].report.at
             /\ \A j \in DOMAIN rows' : rows'[j].at <= rows'[request[s].index].at
  <2>1. Len(rows) = Len(rows') /\ DOMAIN rows = DOMAIN rows' /\ request[s].index \in DOMAIN rows
    BY <1>2, <1>3, <1>4
  <2> QED BY <1>3, <1>4, <2>1
<1> QED BY <1>1, <1>2, <1>3, <1>4 DEF SameRequest

\* Who changes the rows, and what was accepted of them.
LEMMA RowSteps ==
  ASSUME [Next]_vars
  PROVE  \/ UNCHANGED <<due, behind, rows>>
         \/ \E s \in Slot : CreateSnapshot(s) \/ UpdatePosture(s)
<1>1. CASE UNCHANGED vars BY <1>1 DEF vars, snapshotVars
<1>2. CASE \/ \E kind \in Kind : CollectSnapshot(kind)
           \/ CollectSoftware
  BY <1>2 DEF CollectSnapshot, CollectSoftware, snapshotVars
<1>3. CASE \/ \E s \in Slot : \E r \in outbox : Deliver(s, r)
           \/ \E r \in outbox : Enqueue(r)
  BY <1>3 DEF Deliver, Enqueue, snapshotVars
<1>4. CASE AgentRestart \/ ServerRestart BY <1>4 DEF AgentRestart, ServerRestart, snapshotVars
<1>5. CASE \E s \in Slot : TimeOut(s) \/ Find(s) BY <1>5 DEF TimeOut, Find, snapshotVars
<1>6. CASE \E s \in Slot : CreateSoftware(s) \/ Answer(s)
  BY <1>6 DEF CreateSoftware, Answer, snapshotVars
<1>7. CASE \E s \in Slot : Compare(s) \/ RecordChanges(s) \/ RaiseRamAlert(s)
  BY <1>7 DEF Compare, RecordChanges, RaiseRamAlert, snapshotVars
<1>8. CASE \E s \in Slot : ReadRules(s) \/ LookForAlert(s) \/ RaiseAlert(s)
  BY <1>8 DEF ReadRules, LookForAlert, RaiseAlert, snapshotVars
<1>9. CASE \/ \E r \in Rule : CreateRule(r) \/ DeleteRule(r)
           \/ \E a \in App : ResolveAlert(a)
  BY <1>9 DEF CreateRule, DeleteRule, ResolveAlert, snapshotVars
<1> QED BY <1>1, <1>2, <1>3, <1>4, <1>5, <1>6, <1>7, <1>8, <1>9 DEF Next

\* Who changes the requests.
LEMMA RequestMoves ==
  ASSUME [Next]_vars
  PROVE  \/ UNCHANGED request
         \/ \E s \in Slot : \E r \in outbox : Deliver(s, r)
         \/ \E s \in Slot : TimeOut(s) \/ Find(s)
         \/ \E s \in Slot : CreateSnapshot(s) \/ UpdatePosture(s) \/ CreateSoftware(s) \/ Answer(s)
         \/ AgentRestart \/ ServerRestart
<1>1. CASE UNCHANGED vars BY <1>1 DEF vars
<1>2. CASE \/ \E kind \in Kind : CollectSnapshot(kind)
           \/ CollectSoftware
           \/ \E r \in outbox : Enqueue(r)
  BY <1>2 DEF CollectSnapshot, CollectSoftware, Enqueue
<1>3. CASE \E s \in Slot : Compare(s) \/ RecordChanges(s) \/ RaiseRamAlert(s)
  BY <1>3 DEF Compare, RecordChanges, RaiseRamAlert
<1>4. CASE \E s \in Slot : ReadRules(s) \/ LookForAlert(s) \/ RaiseAlert(s)
  BY <1>4 DEF ReadRules, LookForAlert, RaiseAlert
<1>5. CASE \/ \E r \in Rule : CreateRule(r) \/ DeleteRule(r)
           \/ \E a \in App : ResolveAlert(a)
  BY <1>5 DEF CreateRule, DeleteRule, ResolveAlert
<1> QED BY <1>1, <1>2, <1>3, <1>4, <1>5 DEF Next

\* Rows grow, and keep their times.
LEMMA RowsGrow ==
  ASSUME Typed, [Next]_vars
  PROVE  /\ Len(rows) \in Nat /\ Len(rows') \in Nat /\ Len(rows) <= Len(rows')
         /\ \A i \in DOMAIN rows : i \in DOMAIN rows' /\ rows'[i].at = rows[i].at
                                   /\ rows'[i].hardware = rows[i].hardware
<1>1. rows \in Seq(Row) /\ Len(rows) \in Nat BY DEF Typed, TypeOK
<1>2. ASSUME NEW s \in Slot, CreateSnapshot(s)
      PROVE  /\ Len(rows') \in Nat /\ Len(rows) <= Len(rows')
             /\ \A i \in DOMAIN rows : i \in DOMAIN rows' /\ rows'[i].at = rows[i].at
                                       /\ rows'[i].hardware = rows[i].hardware
  BY <1>1, <1>2, CreateSnapshotIs
<1>3. ASSUME NEW s \in Slot, UpdatePosture(s)
      PROVE  /\ Len(rows') \in Nat /\ Len(rows) <= Len(rows')
             /\ \A i \in DOMAIN rows : i \in DOMAIN rows' /\ rows'[i].at = rows[i].at
                                       /\ rows'[i].hardware = rows[i].hardware
  BY <1>1, <1>3, UpdatePostureIs
<1>4. \/ UNCHANGED rows
      \/ \E s \in Slot : CreateSnapshot(s) \/ UpdatePosture(s)
  BY RowSteps
<1> QED BY <1>1, <1>2, <1>3, <1>4

\* A step finds for one request, and leaves what the others know.
LEMMA RequestSteps ==
  ASSUME Typed, [Next]_vars
  PROVE  \A u \in Slot : \/ SameRequest(u) \/ request'[u].phase # "create"
                         \/ Find(u) /\ UNCHANGED rows
<1>0. focus \in Focus BY DEF Typed, TypeOK
<1>1. ASSUME UNCHANGED request, NEW u \in Slot PROVE SameRequest(u)
  BY <1>1 DEF SameRequest
<1>2. ASSUME NEW s \in Slot, Requests(s, request'[s]), request'[s].phase # "create",
             NEW u \in Slot
      PROVE  SameRequest(u) \/ request'[u].phase # "create"
  BY <1>2 DEF SameRequest, Requests
<1>3. ASSUME NEW s \in Slot, NEW r \in outbox, Deliver(s, r), NEW u \in Slot
      PROVE  SameRequest(u) \/ request'[u].phase # "create"
  <2>1. Requests(s, request'[s]) /\ request'[s].phase = "find"
    BY <1>3, DeliverIs DEF Requests
  <2> QED BY <1>2, <2>1
<1>4. ASSUME NEW s \in Slot, TimeOut(s), NEW u \in Slot PROVE SameRequest(u)
  <2>1. Requests(s, [request[s] EXCEPT !.heard = FALSE]) BY <1>4, TimeOutIs
  <2>2. request[s] \in RequestState BY DEF Typed
  <2>3. CASE u = s BY <2>1, <2>2, <2>3 DEF Requests, RequestState, SameRequest
  <2>4. CASE u # s BY <2>1, <2>4 DEF Requests, SameRequest
  <2> QED BY <2>3, <2>4
<1>5. ASSUME AgentRestart, NEW u \in Slot PROVE SameRequest(u)
  <2>1. request'[u] = [request[u] EXCEPT !.heard = FALSE] BY <1>5 DEF AgentRestart
  <2>2. request[u] \in RequestState BY DEF Typed
  <2> QED BY <2>1, <2>2 DEF RequestState, SameRequest
<1>6. ASSUME ServerRestart, NEW u \in Slot PROVE request'[u].phase # "create"
  BY <1>0, <1>6, Idle DEF ServerRestart
<1>7. ASSUME NEW s \in Slot, Find(s), NEW u \in Slot
      PROVE  SameRequest(u) \/ (Find(u) /\ UNCHANGED rows)
  <2>1. Requests(s, request'[s]) BY <1>7, FindIs DEF Found
  <2>2. UNCHANGED rows BY <1>7 DEF Find, snapshotVars
  <2> QED BY <1>7, <2>1, <2>2 DEF Requests, SameRequest
<1>8. ASSUME NEW s \in Slot, CreateSnapshot(s) \/ UpdatePosture(s) \/ CreateSoftware(s) \/ Answer(s),
             NEW u \in Slot
      PROVE  SameRequest(u) \/ request'[u].phase # "create"
  <2>1. Requests(s, request'[s]) /\ request'[s].phase # "create"
    <3>1. CASE CreateSnapshot(s) BY <3>1, CreateSnapshotIs
    <3>2. CASE UpdatePosture(s) BY <3>2, UpdatePostureIs
    <3>3. CASE CreateSoftware(s) BY <3>3, CreateSoftwareIs
    <3>4. CASE Answer(s) BY <1>0, <3>4, AnswerIs, Idle
    <3> QED BY <1>8, <3>1, <3>2, <3>3, <3>4
  <2> QED BY <1>2, <2>1
<1>9. \/ UNCHANGED request
      \/ \E s \in Slot : \E r \in outbox : Deliver(s, r)
      \/ \E s \in Slot : TimeOut(s) \/ Find(s)
      \/ \E s \in Slot : CreateSnapshot(s) \/ UpdatePosture(s) \/ CreateSoftware(s) \/ Answer(s)
      \/ AgentRestart \/ ServerRestart
  BY RequestMoves
<1> QED BY <1>1, <1>3, <1>4, <1>5, <1>6, <1>7, <1>8, <1>9

LEMMA NextRead ==
  ASSUME Typed, Typed', Read, [Next]_vars
  PROVE  Read'
<1>1. /\ rows' \in Seq(Row) /\ Len(rows) <= Len(rows') /\ rows \in Seq(Row) /\ Len(rows) \in Nat
      /\ \A i \in DOMAIN rows : rows'[i].at = rows[i].at
  BY RowsGrow DEF Typed, TypeOK
<1>2. ASSUME NEW s \in Slot, Find(s), UNCHANGED rows, request'[s].phase = "create"
      PROVE  /\ request'[s].count <= Len(rows')
             /\ request'[s].index = 0 => request'[s].count = 0 /\ request'[s].base = NoRow
             /\ request'[s].index # 0 => request'[s].count # 0
             /\ request'[s].index # 0 /\ request'[s].report.kind \in Snapshot =>
                  /\ rows'[request'[s].index].at < request'[s].report.at
                  /\ \A j \in DOMAIN rows' : rows'[j].at <= rows'[request'[s].index].at
  <2>1. PICK i \in Latest : Found(s, i) BY <1>2, FindIs
  <2>2. /\ i \in 0..Len(rows) /\ (i = 0 => rows = <<>>)
        /\ i # 0 => i \in DOMAIN rows /\ i \in FirstOf(DOMAIN rows)
    BY LatestIs
  <2>3. ~Stale(request[s].report, i) BY <1>2, <2>1 DEF Found
  <2>4. /\ request'[s].index = i /\ request'[s].count = Len(rows)
        /\ request'[s].report = request[s].report
        /\ request'[s].base = IF i = 0 THEN NoRow ELSE rows[i]
    BY <2>1 DEF Found
  <2>5. ASSUME i # 0, request[s].report.kind \in Snapshot
        PROVE  /\ rows[i].at < request[s].report.at
               /\ \A j \in DOMAIN rows : rows[j].at <= rows[i].at
    <3>1. request[s].report.at \in Nat /\ rows[i].at \in Nat BY <2>2, <2>5, Numbers
    <3>2. ~(request[s].report.at <= rows[i].at)
      BY <2>3, <2>5 DEF Stale, Snapshot
    <3> QED BY <2>2, <2>5, <3>1, <3>2 DEF FirstOf
  <2> QED BY <1>1, <1>2, <2>2, <2>4, <2>5
<1>3. ASSUME NEW s \in Slot, SameRequest(s) \/ request'[s].phase # "create",
             request'[s].phase = "create"
      PROVE  /\ request'[s].count <= Len(rows')
             /\ request'[s].index = 0 => request'[s].count = 0 /\ request'[s].base = NoRow
             /\ request'[s].index # 0 => request'[s].count # 0
             /\ Len(rows') = request'[s].count /\ request'[s].index # 0
                  /\ request'[s].report.kind \in Snapshot =>
                  /\ rows'[request'[s].index].at < request'[s].report.at
                  /\ \A j \in DOMAIN rows' : rows'[j].at <= rows'[request'[s].index].at
  BY <1>1, <1>3, ReadFrame
<1> QED BY <1>2, <1>3, RequestSteps DEF Read

\* What is shown does not change with anything but the rows.
LEMMA ShownFrame ==
  ASSUME Shown, UNCHANGED <<due, behind, rows>>
  PROVE  Shown'
BY DEF Shown, FirstOf

\* A row created from the latest one, when nothing came between, is the latest,
\* and takes over the sections that it does not replace.
LEMMA CreateSnapshotShown ==
  ASSUME Typed, Shown, Read, NEW s \in Slot, CreateSnapshot(s)
  PROVE  Shown'
<1> DEFINE r == request[s].report
           base == request[s].base
           i == request[s].index
           k == SectionOf(r.kind)
           n == Len(rows')
<1>1. /\ r \in Report /\ base \in Row /\ rows' \in Seq(Row) /\ n = Len(rows) + 1
      /\ \A j \in DOMAIN rows : j \in DOMAIN rows' /\ rows'[j] = rows[j]
      /\ rows'[n] = Merged(base, r)
  BY CreateSnapshotIs
<1>2. /\ rows \in Seq(Row) /\ Len(rows) \in Nat /\ r.at \in Nat /\ i \in 0..Len(rows)
      /\ \A j \in DOMAIN rows : rows[j].at \in Nat
      /\ due \in [Section -> Time] /\ \A q \in Section : due[q] \in Nat
  BY Numbers DEF Typed, TypeOK
<1>3. /\ k \in {"hardware", "smart"} /\ r.kind \in Snapshot /\ request[s].phase = "create"
      /\ due' = [due EXCEPT ![k] = Greatest({due[k], r.at})]
      /\ behind' = IF Undisturbed(s) THEN behind \ {k} ELSE Section
  BY <1>1, SectionIs DEF CreateSnapshot, Snapshot
<1>4. /\ k \in Section /\ rows'[n] \in Row /\ rows'[n].at = r.at /\ rows'[n][k] = r.at
      /\ \A q \in Section : q # k => rows'[n][q] = base[q]
  BY <1>1, SectionIs
<1> HIDE DEF k
<1>5. /\ due[k] <= r.at => due'[k] = r.at
      /\ due'[k] \in {due[k], r.at} /\ due'[k] >= r.at
      /\ \A q \in Section : q # k => due'[q] = due[q]
  <2>1. \E t \in {due[k], r.at} : \A u \in {due[k], r.at} : u <= t BY <1>2, <1>4
  <2>2. /\ Greatest({due[k], r.at}) \in {due[k], r.at}
        /\ \A u \in {due[k], r.at} : u <= Greatest({due[k], r.at})
    BY <2>1 DEF Greatest
  <2> QED BY <1>2, <1>3, <1>4, <2>2
<1>6. DOMAIN rows' = DOMAIN rows \cup {n} /\ n \in DOMAIN rows' /\ rows' # <<>>
  BY <1>1, <1>2
<1>7. \A q \in {"hardware", "smart"} : due'[q] # 0 => \E j \in DOMAIN rows' : due'[q] <= rows'[j].at
  <2> SUFFICES ASSUME NEW q \in {"hardware", "smart"}, due'[q] # 0
               PROVE  \E j \in DOMAIN rows' : due'[q] <= rows'[j].at
    OBVIOUS
  <2>1. q \in Section BY DEF Section
  <2>2. CASE due'[q] = due[q]
    <3>1. PICK j \in DOMAIN rows : due[q] <= rows[j].at BY <2>2 DEF Shown
    <3> QED BY <1>1, <2>2, <3>1
  <2>3. CASE q = k /\ due'[q] = r.at
    <3>1. due'[q] <= rows'[n].at BY <1>2, <1>4, <2>3
    <3> HIDE DEF n
    <3> QED BY <1>6, <3>1
  <2> QED BY <1>5, <2>1, <2>2, <2>3
<1>8. ASSUME Undisturbed(s)
      PROVE  /\ \A j \in DOMAIN rows : rows[j].at < r.at
             /\ \A q \in Section \ behind : due[q] # 0 => base[q] = due[q]
             /\ due[k] <= r.at
  <2>1. Len(rows) = request[s].count /\ (i # 0 => rows[i] = base) BY <1>8 DEF Undisturbed
  <2>2. CASE i = 0
    <3>1. Len(rows) = 0 /\ base = NoRow BY <1>3, <2>1, <2>2 DEF Read
    <3>2. rows = <<>> /\ DOMAIN rows = {} BY <1>2, <3>1
    <3>3. \A q \in Section : due[q] = 0 BY <3>2 DEF Shown
    <3> QED BY <1>2, <1>4, <3>1, <3>2, <3>3 DEF NoRow, Section
  <2>3. CASE i # 0
    <3>1. i \in DOMAIN rows BY <1>2, <2>3
    <3>2. rows[i].at < r.at /\ \A j \in DOMAIN rows : rows[j].at <= rows[i].at
      BY <1>3, <2>1, <2>3 DEF Read
    <3>3. i \in FirstOf(DOMAIN rows) BY <3>1, <3>2 DEF FirstOf
    <3>4. \A j \in DOMAIN rows : rows[j].at < r.at BY <1>2, <3>1, <3>2
    <3>5. \A q \in Section \ behind : due[q] # 0 => base[q] = due[q]
      BY <2>1, <2>3, <3>3 DEF Shown
    <3>6. due[k] <= r.at
      <4>1. CASE due[k] = 0 BY <1>2, <4>1
      <4>2. CASE due[k] # 0
        <5>1. PICK j \in DOMAIN rows : due[k] <= rows[j].at BY <1>3, <4>2 DEF Shown
        <5> QED BY <1>2, <1>4, <3>4, <5>1
      <4> QED BY <4>1, <4>2
    <3> QED BY <3>4, <3>5, <3>6
  <2> QED BY <2>2, <2>3
<1>9. ASSUME NEW q \in Section \ behind', due'[q] # 0
      PROVE  \A j \in FirstOf(DOMAIN rows)' : rows'[j][q] = due'[q]
  <2>1. Undisturbed(s) /\ (q = k \/ q \in Section \ behind) BY <1>3, <1>9
  <2>2. FirstOf(DOMAIN rows)' \subseteq {n}
    <3> SUFFICES ASSUME NEW j \in DOMAIN rows', j # n, rows'[n].at <= rows'[j].at PROVE FALSE
      BY <1>6 DEF FirstOf
    <3>1. j \in DOMAIN rows /\ rows'[j] = rows[j] BY <1>1, <1>6
    <3> QED BY <1>2, <1>4, <1>8, <2>1, <3>1
  <2>3. rows'[n][q] = due'[q]
    <3>1. CASE q = k BY <1>4, <1>5, <1>8, <2>1, <3>1
    <3>2. CASE q # k
      <4>1. due'[q] = due[q] /\ rows'[n][q] = base[q] BY <1>4, <1>5, <1>9, <3>2
      <4> QED BY <1>8, <1>9, <2>1, <3>2, <4>1
    <3> QED BY <3>1, <3>2
  <2> QED BY <2>2, <2>3
<1> QED BY <1>6, <1>7, <1>9 DEF Shown

\* A heartbeat or an event, in the row that was read or in a row of its own.
LEMMA UpdatePostureShown ==
  ASSUME Typed, Shown, NEW s \in Slot, UpdatePosture(s)
  PROVE  Shown'
<1> DEFINE r == request[s].report
           i == request[s].index
           n == Len(rows')
           about == PostureOf(r.kind)
<1>1. /\ r \in Report /\ r.at \in Nat /\ rows \in Seq(Row) /\ Len(rows) \in Nat
      /\ rows' \in Seq(Row) /\ \A q \in Section : due[q] \in Nat
      /\ \A j \in DOMAIN rows : rows[j].at \in Nat
  BY Numbers, UpdatePostureIs DEF Typed, TypeOK
<1>2. /\ about \subseteq Component
      /\ \A q \in about : due'[q] = Greatest({due[q], r.at})
      /\ \A q \in Section : q \notin about => due'[q] = due[q]
  BY PostureFrame DEF Section
<1>3. \A q \in Component : r.at >= due[q] => Greatest({due[q], r.at}) = r.at
  <2> SUFFICES ASSUME NEW q \in Component, r.at >= due[q] PROVE Greatest({due[q], r.at}) = r.at
    OBVIOUS
  <2>1. q \in Section BY DEF Section
  <2>2. \E t \in {due[q], r.at} : \A u \in {due[q], r.at} : u <= t BY <1>1, <2>1
  <2>3. /\ Greatest({due[q], r.at}) \in {due[q], r.at}
        /\ \A u \in {due[q], r.at} : u <= Greatest({due[q], r.at})
    BY <2>2 DEF Greatest
  <2> QED BY <1>1, <2>1, <2>3
<1> HIDE DEF about
<1>4. ASSUME NEW q \in {"hardware", "smart"}
      PROVE  q \in Section /\ q \notin Component /\ due'[q] = due[q]
  BY <1>2 DEF Section, Component
<1>5. CASE i \in DOMAIN rows /\ PutPosture(s)
  <2>1. /\ Len(rows') = Len(rows)
        /\ \A j \in DOMAIN rows :
             /\ j \in DOMAIN rows' /\ rows'[j].at = rows[j].at
             /\ rows'[j].hardware = rows[j].hardware /\ rows'[j].smart = rows[j].smart
             /\ j # i => rows'[j] = rows[j]
        /\ \A c \in Component : rows'[i][c] = Posture(s, c)
    BY <1>1, <1>5, UpdatePostureIs
  <2> DEFINE current == {c \in about : r.at >= due[c] /\ FirstOf(DOMAIN rows) = {i}}
             undone  == {c \in Component : rows[i][c] # Posture(s, c)}
  <2>2. behind' = (behind \cup about \cup undone) \ current
    BY <1>5 DEF PutPosture, about
  <2>3. DOMAIN rows' = DOMAIN rows BY <1>1, <2>1
  <2>4. FirstOf(DOMAIN rows)' = FirstOf(DOMAIN rows) BY <2>1, <2>3 DEF FirstOf
  <2>5. ASSUME NEW q \in Section \ behind', due'[q] # 0, NEW j \in FirstOf(DOMAIN rows)'
        PROVE  rows'[j][q] = due'[q]
    <3>1. CASE q \in current
      <4>1. j = i /\ q \in about /\ q \in Component /\ r.at >= due[q]
        BY <1>2, <2>4, <2>5, <3>1
      <4>2. rows'[i][q] = r.at BY <2>1, <4>1 DEF Posture, about
      <4> QED BY <1>2, <1>3, <4>1, <4>2
    <3>2. CASE q \notin current
      <4>1. q \in Section \ behind /\ q \notin about /\ q \notin undone BY <2>2, <2>5, <3>2
      <4>2. due'[q] = due[q] BY <1>2, <4>1
      <4>3. j \in DOMAIN rows /\ rows[j][q] = due[q]
        BY <2>4, <2>5, <4>1, <4>2 DEF Shown, FirstOf
      <4>4. rows'[j][q] = rows[j][q]
        <5>1. CASE j # i BY <2>1, <4>3, <5>1
        <5>2. CASE j = i /\ q \in Component BY <2>1, <4>1, <5>2
        <5>3. CASE j = i /\ q \notin Component
          <6>1. q \in {"hardware", "smart"} BY <4>1, <5>3 DEF Section
          <6> QED BY <2>1, <4>3, <6>1
        <5> QED BY <5>1, <5>2, <5>3
      <4> QED BY <4>2, <4>3, <4>4
    <3> QED BY <3>1, <3>2
  <2>6. \A q \in {"hardware", "smart"} : due'[q] # 0 => \E j \in DOMAIN rows' : due'[q] <= rows'[j].at
    BY <1>4, <2>1, <2>3 DEF Shown
  <2>7. rows' # <<>> BY <1>1, <1>5, <2>1
  <2> QED BY <2>5, <2>6, <2>7 DEF Shown
<1>6. CASE i = 0 /\ about = Component
           /\ behind' = (IF rows = <<>> THEN behind \ Component ELSE Section)
           /\ Len(rows') = Len(rows) + 1
           /\ (\A j \in DOMAIN rows : j \in DOMAIN rows' /\ rows'[j] = rows[j])
           /\ \A c \in Component : rows'[Len(rows')][c] = r.at
  <2>1. DOMAIN rows' = DOMAIN rows \cup {n} /\ rows' # <<>> BY <1>1, <1>6
  <2>2. ASSUME NEW q \in Section \ behind', due'[q] # 0, NEW j \in FirstOf(DOMAIN rows)'
        PROVE  rows'[j][q] = due'[q]
    <3>1. rows = <<>> BY <1>6, <2>2
    <3>2. \A k \in Section : due[k] = 0 BY <3>1 DEF Shown
    <3>3. q \in Component BY <1>2, <1>6, <2>2, <3>2
    <3>4. r.at >= due[q] BY <1>1, <2>2, <3>2
    <3>5. due'[q] = r.at
      <4>1. due'[q] = Greatest({due[q], r.at}) BY <1>2, <1>6, <3>3
      <4>2. Greatest({due[q], r.at}) = r.at BY <1>3, <3>3, <3>4
      <4> QED BY <4>1, <4>2
    <3>6. j = n BY <2>1, <2>2, <3>1 DEF FirstOf
    <3> QED BY <1>6, <3>3, <3>5, <3>6
  <2>3. \A q \in {"hardware", "smart"} : due'[q] # 0 => \E j \in DOMAIN rows' : due'[q] <= rows'[j].at
    BY <1>4, <1>6 DEF Shown
  <2> QED BY <2>1, <2>2, <2>3 DEF Shown
<1> QED BY <1>5, <1>6, UpdatePostureIs DEF about

LEMMA NextShown ==
  ASSUME Typed, Shown, Read, [Next]_vars
  PROVE  Shown'
<1> QED BY RowSteps, ShownFrame, CreateSnapshotShown, UpdatePostureShown

-----------------------------------------------------------------------------
(* The list the agent believes in                                           *)

\* The time of the newest list.
LEMMA NewestList ==
  ASSUME Typed, Ages
  PROVE  /\ lists = {} => Greatest(lists) = 0
         /\ lists # {} => /\ Greatest(lists) \in lists
                          /\ \A t \in lists : t <= Greatest(lists)
         /\ \A m \in lists : (\A t \in lists : t <= m) => Greatest(lists) = m
<1>1. now \in Nat /\ lists \subseteq Nat /\ \A t \in lists : t \in Nat /\ t <= now
  BY Numbers, AgeParts DEF StoredAged
<1>2. CASE lists = {} BY <1>2 DEF Greatest
<1>3. CASE lists # {}
  <2> DEFINE T == {k \in Nat : \E t \in lists : k = now - t}
             R == OpToRel(<, Nat)
  <2>1. \A t \in lists : now - t \in Nat BY <1>1
  <2>2. T \subseteq Nat /\ T # {} BY <1>3, <2>1
  <2>3. IsWellFoundedOn(R, Nat) BY NatLessThanWellFounded
  <2>4. PICK k \in T : \A j \in T : ~(<<j, k>> \in R) BY <2>2, <2>3, WFMin, Zenon
  <2>5. \A j \in T : k <= j
    <3>1. \A j \in T : j < k => <<j, k>> \in R BY <2>2 DEF OpToRel
    <3>2. \A j \in T : ~(j < k) BY <2>4, <3>1, Zenon
    <3> HIDE DEF T, R
    <3> QED BY <2>2, <3>2
  <2>6. PICK m \in lists : k = now - m OBVIOUS
  <2>7. \A t \in lists : t <= m BY <1>1, <2>1, <2>5, <2>6
  <2>8. Greatest(lists) \in lists /\ \A t \in lists : t <= Greatest(lists)
    BY <1>3, <2>7 DEF Greatest
  <2>9. ASSUME NEW p \in lists, \A t \in lists : t <= p PROVE Greatest(lists) = p
    <3>1. p \in Nat /\ Greatest(lists) \in Nat BY <1>1, <2>8
    <3>2. p <= Greatest(lists) /\ Greatest(lists) <= p BY <2>8, <2>9
    <3> QED BY <3>1, <3>2
  <2> QED BY <1>3, <2>8, <2>9
<1> QED BY <1>2, <1>3

Overlap == \A q, r \in live : IsList(q) /\ IsList(r) /\ q # r => r.at <= unsure

Newer == \A r \in live : IsList(r) /\ r.at > unsure => \A t \in lists : t <= r.at

Held ==
  last > unsure => /\ last \in lists
                   /\ \A t \in lists : t <= last \/ \E r \in live : IsList(r) /\ r.at = t

Answered ==
  \A s \in Slot : request[s].phase = "answer" /\ IsList(request[s].report) =>
    \E t \in lists : request[s].report.at <= t

LEMMA BelievingParts ==
  /\ Believing <=> Overlap /\ Newer /\ Held /\ Answered
  /\ Believing' <=> Overlap' /\ Newer' /\ Held' /\ Answered'
BY DEF Believing, Overlap, Newer, Held, Answered

LEMMA LiveReports ==
  ASSUME Typed, Ages
  PROVE  \A r \in live : /\ r \in outbox /\ r \in Report /\ r.at \in Nat /\ r.known \in Time
                         /\ r.at # 0 /\ r.at <= now
BY Numbers, AgeParts DEF Typed, TypeOK, ReportsAged

LEMMA CollectSoftwareIs ==
  ASSUME Typed, CollectSoftware
  PROVE  /\ now' = now + 1 /\ last' = last /\ software' \in [Time -> SUBSET App]
         /\ \A t \in Time : t <= now => software'[t] = software[t]
         /\ \/ UNCHANGED <<outbox, live, unsure, detour>>
            \/ \E r \in Report :
                 /\ IsList(r) /\ r.at = now' /\ r.known = last
                 /\ outbox' = outbox \cup {r} /\ live' = live \cup {r}
                 /\ IF \E q \in live : IsList(q) THEN unsure' = now' /\ detour' = TRUE
                    ELSE UNCHANGED <<unsure, detour>>
<1>1. now < MaxTime[focus] /\ now' = now + 1 /\ now \in Nat /\ now' \in Time /\ last \in Time
      /\ software \in [Time -> SUBSET App] /\ Time \subseteq Nat
  BY Numbers, TimeIs DEF CollectSoftware, Reading, Typed, TypeOK
<1> DEFINE r == [kind |-> "software", at |-> now', known |-> last]
<1>2. PICK list \in SUBSET App :
        LET same == last # 0 /\ list # {} /\ list = software[last]
            sent == IF same THEN {} ELSE {r} IN
        /\ software' = [software EXCEPT ![now'] = list]
        /\ outbox' = outbox \cup sent /\ live' = live \cup sent
        /\ last' = IF same THEN last ELSE Believed
        /\ IF sent # {} /\ \E q \in live : q.kind = "software"
           THEN unsure' = now' /\ detour' = TRUE
           ELSE UNCHANGED <<unsure, detour>>
  BY DEF CollectSoftware
<1>3. r \in Report /\ r.at = now' /\ r.known = last /\ IsList(r)
  BY <1>1 DEF Report, Kind, IsList
<1> HIDE DEF r
<1>4. software' \in [Time -> SUBSET App] /\ \A t \in Time : t <= now => software'[t] = software[t]
  BY <1>1, <1>2
<1>5. last' = last BY <1>2 DEF Believed
<1>6. CASE last # 0 /\ list # {} /\ list = software[last]
  BY <1>1, <1>2, <1>4, <1>5, <1>6
<1>7. CASE ~(last # 0 /\ list # {} /\ list = software[last])
  <2>1. /\ outbox' = outbox \cup {r} /\ live' = live \cup {r}
        /\ IF \E q \in live : IsList(q) THEN unsure' = now' /\ detour' = TRUE
           ELSE UNCHANGED <<unsure, detour>>
    BY <1>2, <1>7 DEF IsList
  <2> QED BY <1>1, <1>3, <1>4, <1>5, <2>1
<1> QED BY <1>6, <1>7

\* The belief, when lists are collected, given up, accepted and confirmed.
\* What a reading adds to the reports is no list.
LEMMA CollectedReports ==
  ASSUME NEW kind \in Kind, CollectSnapshot(kind)
  PROVE  /\ \E new : /\ outbox' = outbox \cup new /\ live' = live \cup new
                    /\ \A r \in new : ~IsList(r)
         /\ UNCHANGED <<unsure, lists, last, trail, software, request>>
<1>1. PICK changed \in SUBSET Transitions(kind) :
        LET new == {[kind |-> k, at |-> now', known |-> 0] : k \in changed \cup {kind}} IN
        outbox' = outbox \cup new /\ live' = live \cup new
  BY DEF CollectSnapshot
<1>2. "software" \notin changed \cup {kind} BY DEF CollectSnapshot, Transitions, Component
<1> DEFINE new == {[kind |-> k, at |-> now', known |-> 0] : k \in changed \cup {kind}}
<1>3. \A r \in new : ~IsList(r) BY <1>2 DEF IsList
<1>4. outbox' = outbox \cup new /\ live' = live \cup new BY <1>1
<1> HIDE DEF new
<1> QED BY <1>3, <1>4 DEF CollectSnapshot, softwareVars

LEMMA BeliefFrame ==
  ASSUME Overlap, Newer, Held, UNCHANGED <<unsure, lists, last>>,
         \A r \in live' : IsList(r) => r \in live, \A r \in live : IsList(r) => r \in live'
  PROVE  Overlap' /\ Newer' /\ Held'
BY DEF Overlap, Newer, Held

LEMMA CollectSoftwareBelieving ==
  ASSUME Typed, Ages, Overlap, Newer, Held, CollectSoftware
  PROVE  Overlap' /\ Newer' /\ Held'
<1>1. now \in Nat /\ last \in Nat /\ last <= now /\ unsure \in Nat /\ lists' = lists
      /\ \A t \in lists : t \in Nat /\ t <= now
  BY Numbers, AgeParts DEF StoredAged, CollectSoftware
<1>2. now' = now + 1 /\ last' = last BY CollectSoftwareIs
<1>3. CASE UNCHANGED <<outbox, live, unsure, detour>> BY <1>1, <1>2, <1>3, BeliefFrame
<1>4. ASSUME NEW r \in Report, IsList(r), r.at = now', live' = live \cup {r},
             IF \E q \in live : IsList(q) THEN unsure' = now' /\ detour' = TRUE
             ELSE UNCHANGED <<unsure, detour>>
      PROVE  Overlap' /\ Newer' /\ Held'
  <2>1. \A q \in live : q.at \in Nat /\ q.at <= now BY LiveReports
  <2>2. CASE \E q \in live : IsList(q)
    <3>1. unsure' = now' /\ \A q \in live' : q.at \in Nat /\ q.at <= unsure'
      BY <1>1, <1>2, <1>4, <2>1, <2>2
    <3>2. ~(last' > unsure') BY <1>1, <1>2, <3>1
    <3> QED BY <1>1, <1>2, <3>1, <3>2 DEF Overlap, Newer, Held
  <2>3. CASE ~\E q \in live : IsList(q)
    <3>1. unsure' = unsure /\ \A q \in live' : IsList(q) => q = r BY <1>4, <2>3
    <3>2. Overlap' BY <3>1 DEF Overlap
    <3>3. Newer' BY <1>1, <1>2, <1>4, <3>1 DEF Newer
    <3>4. Held' BY <1>1, <1>2, <1>4, <3>1 DEF Held
    <3> QED BY <3>2, <3>3, <3>4
  <2> QED BY <2>2, <2>3
<1> QED BY <1>3, <1>4, CollectSoftwareIs

LEMMA GreatestOfTwo ==
  ASSUME NEW a \in Nat, NEW b \in Nat
  PROVE  /\ Greatest({a, b}) \in {a, b} /\ a <= Greatest({a, b}) /\ b <= Greatest({a, b})
<1>1. \E t \in {a, b} : \A u \in {a, b} : u <= t OBVIOUS
<1> QED BY <1>1 DEF Greatest

LEMMA EnqueueBelieving ==
  ASSUME Typed, Ages, Overlap, Newer, Held, NEW r \in outbox, Enqueue(r)
  PROVE  Overlap' /\ Newer' /\ Held'
<1>1. /\ r \in live /\ live' = live \ {r} /\ lists' = lists /\ last' = last
      /\ unsure' = IF IsList(r) /\ r.at \in lists THEN Greatest({unsure, r.at}) ELSE unsure
  BY DEF Enqueue, IsList
<1>2. /\ last \in Nat /\ unsure \in Nat /\ r.at \in Nat /\ \A t \in lists : t \in Nat
      /\ \A q \in live : q.at \in Nat
  BY Numbers, LiveReports
<1>3. unsure' \in Nat /\ unsure <= unsure' /\ (IsList(r) /\ r.at \in lists => r.at <= unsure')
  BY <1>1, <1>2, GreatestOfTwo
<1>4. Overlap' BY <1>1, <1>2, <1>3 DEF Overlap
<1>5. Newer' BY <1>1, <1>2, <1>3 DEF Newer
<1>6. Held'
  <2> SUFFICES ASSUME last > unsure'
               PROVE  /\ last \in lists
                      /\ \A t \in lists : t <= last \/ \E q \in live' : IsList(q) /\ q.at = t
    BY <1>1 DEF Held
  <2>1. last > unsure BY <1>2, <1>3
  <2>2. ASSUME NEW t \in lists, ~(t <= last) PROVE \E q \in live' : IsList(q) /\ q.at = t
    <3>1. PICK q \in live : IsList(q) /\ q.at = t BY <2>1, <2>2 DEF Held
    <3>2. q # r BY <1>2, <1>3, <2>2, <3>1
    <3> QED BY <1>1, <3>1, <3>2
  <2> QED BY <2>1, <2>2 DEF Held
<1> QED BY <1>4, <1>5, <1>6

LEMMA CreateSoftwareBelieving ==
  ASSUME Typed, Ages, Overlap, Newer, Held, NEW s \in Slot, CreateSoftware(s)
  PROVE  Overlap' /\ Newer' /\ Held'
<1> DEFINE r == request[s].report
<1>1. /\ live' = live /\ lists' = lists \cup {r.at} /\ last' = last /\ IsList(r)
      /\ unsure' = IF r \in live THEN unsure ELSE Greatest({unsure, r.at})
  BY DEF CreateSoftware, IsList, agentVars
<1>2. /\ last \in Nat /\ unsure \in Nat /\ r.at \in Nat /\ \A t \in lists : t \in Nat
      /\ \A q \in live : q.at \in Nat
  BY Numbers, LiveReports
<1> HIDE DEF r
<1>3. unsure' \in Nat /\ unsure <= unsure' /\ (r \notin live => r.at <= unsure')
  BY <1>1, <1>2, GreatestOfTwo
<1>4. Overlap' BY <1>1, <1>2, <1>3 DEF Overlap
<1>5. Newer'
  <2> SUFFICES ASSUME NEW q \in live, IsList(q), q.at > unsure', NEW t \in lists \cup {r.at}
               PROVE  t <= q.at
    BY <1>1 DEF Newer
  <2>1. CASE t \in lists BY <1>2, <1>3, <2>1 DEF Newer
  <2>2. CASE t = r.at
    <3>1. CASE r \in live
      <4>1. q.at > unsure /\ ~(q.at <= unsure) BY <1>2, <1>3
      <4>2. q = r BY <1>1, <3>1, <4>1 DEF Overlap
      <4> QED BY <1>2, <2>2, <4>2
    <3>2. CASE r \notin live BY <1>2, <1>3, <2>2, <3>2
    <3> QED BY <3>1, <3>2
  <2> QED BY <2>1, <2>2
<1>6. Held'
  <2> SUFFICES ASSUME last > unsure'
               PROVE  /\ last \in lists'
                      /\ \A t \in lists' : t <= last \/ \E q \in live : IsList(q) /\ q.at = t
    BY <1>1 DEF Held
  <2>1. last > unsure BY <1>2, <1>3
  <2>2. r.at <= last \/ \E q \in live : IsList(q) /\ q.at = r.at
    <3>1. CASE r \in live BY <1>1, <3>1
    <3>2. CASE r \notin live BY <1>2, <1>3, <3>2
    <3> QED BY <3>1, <3>2
  <2> QED BY <1>1, <2>1, <2>2 DEF Held
<1> QED BY <1>4, <1>5, <1>6

LEMMA AnswerBelieving ==
  ASSUME Typed, Ages, Overlap, Newer, Held, Answered, NEW s \in Slot, Answer(s)
  PROVE  Overlap' /\ Newer' /\ Held'
<1> DEFINE r == request[s].report
<1>1. /\ lists' = lists /\ unsure' = unsure /\ request[s].phase = "answer"
      /\ \/ live' = live \ {r} /\ last' = (IF IsList(r) /\ r \in live THEN r.at ELSE last)
         \/ live' = live /\ last' = last
  BY DEF Answer, IsList, softwareVars
<1>2. /\ last \in Nat /\ unsure \in Nat /\ r.at \in Nat /\ \A t \in lists : t \in Nat
      /\ \A q \in live : q.at \in Nat
  BY Numbers, LiveReports
<1>3. CASE live' = live \ {r} /\ IsList(r) /\ r \in live /\ last' = r.at
  <2>1. Overlap' /\ Newer' BY <1>1, <1>3 DEF Overlap, Newer
  <2>2. ASSUME r.at > unsure PROVE r.at \in lists /\ \A t \in lists : t <= r.at
    <3>1. \A t \in lists : t <= r.at BY <1>3, <2>2 DEF Newer
    <3>2. PICK t \in lists : r.at <= t BY <1>1, <1>3 DEF Answered
    <3> QED BY <1>2, <3>1, <3>2
  <2>3. Held' BY <1>1, <1>3, <2>2 DEF Held
  <2> QED BY <2>1, <2>3
<1>4. CASE live' = live \ {r} /\ ~(IsList(r) /\ r \in live) /\ last' = last
  BY <1>1, <1>4, BeliefFrame
<1>5. CASE live' = live /\ last' = last BY <1>1, <1>5, BeliefFrame
<1> QED BY <1>1, <1>3, <1>4, <1>5

\* How a request comes to its answer.
LEMMA AnswerSteps ==
  ASSUME Typed, [Next]_vars
  PROVE  \A u \in Slot : \/ SameRequest(u) \/ request'[u].phase # "answer"
                         \/ Find(u) \/ CreateSnapshot(u) \/ UpdatePosture(u) \/ CreateSoftware(u)
<1>0. focus \in Focus BY DEF Typed, TypeOK
<1>1. ASSUME UNCHANGED request, NEW u \in Slot PROVE SameRequest(u)
  BY <1>1 DEF SameRequest
<1>2. ASSUME NEW s \in Slot, Requests(s, request'[s]), NEW u \in Slot, u # s
      PROVE  SameRequest(u)
  BY <1>2 DEF SameRequest, Requests
<1>3. ASSUME NEW s \in Slot, NEW r \in outbox, Deliver(s, r), NEW u \in Slot
      PROVE  SameRequest(u) \/ request'[u].phase # "answer"
  <2>1. Requests(s, request'[s]) /\ request'[s].phase = "find"
    BY <1>3, DeliverIs DEF Requests
  <2> QED BY <1>2, <2>1
<1>4. ASSUME NEW s \in Slot, TimeOut(s), NEW u \in Slot PROVE SameRequest(u)
  <2>1. Requests(s, [request[s] EXCEPT !.heard = FALSE]) BY <1>4, TimeOutIs
  <2>2. request[s] \in RequestState BY DEF Typed
  <2>3. CASE u = s BY <2>1, <2>2, <2>3 DEF Requests, RequestState, SameRequest
  <2>4. CASE u # s BY <2>1, <2>4 DEF Requests, SameRequest
  <2> QED BY <2>3, <2>4
<1>5. ASSUME AgentRestart, NEW u \in Slot PROVE SameRequest(u)
  <2>1. request'[u] = [request[u] EXCEPT !.heard = FALSE] BY <1>5 DEF AgentRestart
  <2>2. request[u] \in RequestState BY DEF Typed
  <2> QED BY <2>1, <2>2 DEF RequestState, SameRequest
<1>6. ASSUME ServerRestart, NEW u \in Slot PROVE request'[u].phase # "answer"
  BY <1>0, <1>6, Idle DEF ServerRestart
<1>7. ASSUME NEW s \in Slot, Find(s), NEW u \in Slot PROVE SameRequest(u) \/ Find(u)
  <2>1. Requests(s, request'[s]) BY <1>7, FindIs DEF Found
  <2> QED BY <1>2, <1>7, <2>1
<1>8. ASSUME NEW s \in Slot, CreateSnapshot(s) \/ UpdatePosture(s) \/ CreateSoftware(s),
             NEW u \in Slot
      PROVE  SameRequest(u) \/ CreateSnapshot(u) \/ UpdatePosture(u) \/ CreateSoftware(u)
  <2>1. Requests(s, request'[s])
    <3>1. CASE CreateSnapshot(s) BY <3>1, CreateSnapshotIs
    <3>2. CASE UpdatePosture(s) BY <3>2, UpdatePostureIs
    <3>3. CASE CreateSoftware(s) BY <3>3, CreateSoftwareIs
    <3> QED BY <1>8, <3>1, <3>2, <3>3
  <2> QED BY <1>2, <1>8, <2>1
<1>9. ASSUME NEW s \in Slot, Answer(s), NEW u \in Slot
      PROVE  SameRequest(u) \/ request'[u].phase # "answer"
  <2>1. Requests(s, request'[s]) /\ request'[s].phase = "idle" BY <1>0, <1>9, AnswerIs, Idle
  <2> QED BY <1>2, <2>1
<1>10. \/ UNCHANGED request
       \/ \E s \in Slot : \E r \in outbox : Deliver(s, r)
       \/ \E s \in Slot : TimeOut(s) \/ Find(s)
       \/ \E s \in Slot : CreateSnapshot(s) \/ UpdatePosture(s) \/ CreateSoftware(s)
       \/ \E s \in Slot : Answer(s)
       \/ AgentRestart \/ ServerRestart
  BY RequestMoves
<1> QED BY <1>1, <1>3, <1>4, <1>5, <1>6, <1>7, <1>8, <1>9, <1>10

LEMMA ListsGrow ==
  ASSUME [Next]_vars
  PROVE  lists \subseteq lists'
<1>1. CASE UNCHANGED vars BY <1>1 DEF vars, softwareVars
<1>2. CASE \/ \E kind \in Kind : CollectSnapshot(kind)
           \/ CollectSoftware
           \/ \E r \in outbox : Enqueue(r)
  BY <1>2 DEF CollectSnapshot, CollectSoftware, Enqueue, softwareVars
<1>3. CASE \E s \in Slot : \E r \in outbox : Deliver(s, r)
  BY <1>3 DEF Deliver, softwareVars
<1>4. CASE \/ AgentRestart \/ ServerRestart
           \/ \E s \in Slot : TimeOut(s)
  BY <1>4 DEF AgentRestart, ServerRestart, TimeOut, softwareVars
<1>5. CASE \E s \in Slot : Find(s) \/ CreateSnapshot(s) \/ UpdatePosture(s)
  BY <1>5, PostureFrame DEF Find, CreateSnapshot, softwareVars
<1>6. CASE \E s \in Slot : CreateSoftware(s) \/ Answer(s)
  BY <1>6 DEF CreateSoftware, Answer, softwareVars
<1>7. CASE \E s \in Slot : Compare(s) \/ RecordChanges(s) \/ RaiseRamAlert(s)
  BY <1>7 DEF Compare, RecordChanges, RaiseRamAlert, softwareVars
<1>8. CASE \E s \in Slot : ReadRules(s) \/ LookForAlert(s) \/ RaiseAlert(s)
  BY <1>8 DEF ReadRules, LookForAlert, RaiseAlert
<1>9. CASE \/ \E r \in Rule : CreateRule(r) \/ DeleteRule(r)
           \/ \E a \in App : ResolveAlert(a)
  BY <1>9 DEF CreateRule, DeleteRule, ResolveAlert
<1> QED BY <1>1, <1>2, <1>3, <1>4, <1>5, <1>6, <1>7, <1>8, <1>9 DEF Next

LEMMA NextAnswered ==
  ASSUME Typed, Ages, Answered, [Next]_vars
  PROVE  Answered'
<1> SUFFICES ASSUME NEW s \in Slot, request'[s].phase = "answer", IsList(request'[s].report)
             PROVE  \E t \in lists' : request'[s].report.at <= t
  BY DEF Answered, IsList
<1>0. lists \subseteq lists' BY ListsGrow
<1>1. CASE SameRequest(s)
  <2>1. PICK t \in lists : request[s].report.at <= t BY <1>1 DEF SameRequest, Answered
  <2> QED BY <1>0, <1>1, <2>1 DEF SameRequest
<1>2. CASE Find(s)
  <2>1. PICK i \in Latest : Found(s, i) BY <1>2, FindIs
  <2>2. Stale(request[s].report, i) /\ request'[s].report = request[s].report
    BY <2>1 DEF Found, Unfounded, IsList, Component
  <2>3. request[s].report.at <= Greatest(lists) BY <2>2 DEF Stale, IsList
  <2>4. request[s].report.at # 0 /\ request[s].report.at \in Nat
    BY <1>2, AgeParts, Numbers DEF Find, RequestAged
  <2>5. Greatest(lists) \in lists BY <2>3, <2>4, NewestList
  <2> QED BY <1>0, <2>2, <2>3, <2>5
<1>3. CASE CreateSnapshot(s) \/ UpdatePosture(s)
  <2>1. request'[s].report = request[s].report BY <1>3, CreateSnapshotIs, UpdatePostureIs
  <2>2. ~IsList(request[s].report)
    <3>1. CASE CreateSnapshot(s) BY <3>1 DEF CreateSnapshot, IsList
    <3>2. CASE UpdatePosture(s) BY <3>2, PostureFrame DEF IsList, Component
    <3> QED BY <1>3, <3>1, <3>2
  <2> QED BY <2>1, <2>2
<1>4. CASE CreateSoftware(s)
  <2>1. request'[s].report = request[s].report /\ request[s].report.at \in Nat
    BY <1>4, CreateSoftwareIs, Numbers
  <2>2. request[s].report.at \in lists' BY <1>4 DEF CreateSoftware
  <2> QED BY <2>1, <2>2
<1> QED BY <1>1, <1>2, <1>3, <1>4, AnswerSteps

LEMMA NextBelieving ==
  ASSUME Typed, Ages, Believing, [Next]_vars
  PROVE  Believing'
<1>1. Overlap /\ Newer /\ Held /\ Answered BY BelievingParts
<1>2. Overlap' /\ Newer' /\ Held'
  <2>1. CASE \E kind \in Kind : CollectSnapshot(kind)
    <3>1. PICK kind \in Kind : CollectSnapshot(kind) BY <2>1
    <3>2. PICK new : live' = live \cup new /\ \A r \in new : ~IsList(r)
      BY <3>1, CollectedReports
    <3>3. UNCHANGED <<unsure, lists, last>> BY <3>1, CollectedReports
    <3> QED BY <1>1, <3>2, <3>3, BeliefFrame
  <2>2. CASE CollectSoftware BY <1>1, <2>2, CollectSoftwareBelieving
  <2>3. CASE \E r \in outbox : Enqueue(r) BY <1>1, <2>3, EnqueueBelieving
  <2>4. CASE AgentRestart
    <3>1. live' = {} /\ last' = 0 /\ unsure' = unsure /\ unsure \in Nat
      BY <2>4, Numbers DEF AgentRestart
    <3>2. ~(last' > unsure') BY <3>1
    <3> QED BY <3>1, <3>2 DEF Overlap, Newer, Held
  <2>5. CASE \E s \in Slot : CreateSoftware(s) BY <1>1, <2>5, CreateSoftwareBelieving
  <2>6. CASE \E s \in Slot : Answer(s) BY <1>1, <2>6, AnswerBelieving
  <2>7. CASE UNCHANGED <<live, unsure, lists, last>> BY <1>1, <2>7, BeliefFrame
  <2>8. \/ \E kind \in Kind : CollectSnapshot(kind)
        \/ CollectSoftware
        \/ \E r \in outbox : Enqueue(r)
        \/ AgentRestart
        \/ \E s \in Slot : CreateSoftware(s)
        \/ \E s \in Slot : Answer(s)
        \/ UNCHANGED <<live, unsure, lists, last>>
    <3>1. CASE UNCHANGED vars BY <3>1 DEF vars, agentVars, softwareVars
    <3>2. CASE ServerRestart \/ \E s \in Slot : \E r \in outbox : Deliver(s, r)
      BY <3>2 DEF ServerRestart, Deliver, agentVars, softwareVars
    <3>3. CASE \E s \in Slot : TimeOut(s) \/ Find(s) \/ CreateSnapshot(s) \/ UpdatePosture(s)
      BY <3>3, PostureFrame DEF TimeOut, Find, CreateSnapshot, agentVars, softwareVars
    <3>4. CASE \E s \in Slot : Compare(s) \/ RecordChanges(s) \/ RaiseRamAlert(s)
      BY <3>4 DEF Compare, RecordChanges, RaiseRamAlert, agentVars, softwareVars
    <3>5. CASE \E s \in Slot : ReadRules(s) \/ LookForAlert(s) \/ RaiseAlert(s)
      BY <3>5 DEF ReadRules, LookForAlert, RaiseAlert, agentVars
    <3>6. CASE \/ \E r \in Rule : CreateRule(r) \/ DeleteRule(r)
               \/ \E a \in App : ResolveAlert(a)
      BY <3>6 DEF CreateRule, DeleteRule, ResolveAlert, agentVars
    <3> QED BY <3>1, <3>2, <3>3, <3>4, <3>5, <3>6 DEF Next
  <2> QED BY <2>1, <2>2, <2>3, <2>4, <2>5, <2>6, <2>7, <2>8
<1>3. Answered' BY <1>1, NextAnswered
<1> QED BY <1>2, <1>3, BelievingParts

-----------------------------------------------------------------------------
(* The trail of installations, while every list goes straight to the server *)

\* What the lists and the trail say of each other.
Listed ==
  /\ unsure = 0 /\ live = outbox
  /\ \A r \in live : IsList(r) => r.known = last /\ last < r.at
  /\ \A t \in lists : t <= last \/ \E r \in live : IsList(r) /\ r.at = t
  /\ \A r \in live : IsList(r) /\ r.at \in lists => Leads(r.at)
  /\ (\A r \in live : IsList(r) => r.at \notin lists) => Leads(last)

\* What the requests and the lists say of each other.
Asked ==
  /\ \A s \in Slot : request[s].phase # "idle" =>
       request[s].heard /\ request[s].report \in outbox
  /\ \A s, u \in Slot : request[s].phase # "idle" /\ request[u].phase # "idle"
       /\ request[s].report = request[u].report => s = u
  /\ \A s \in Slot : request[s].phase \in {"find", "create"} /\ IsList(request[s].report) =>
       request[s].report.at \notin lists
  /\ \A r \in live : IsList(r) /\ r.at \in lists =>
       \E s \in Slot : request[s].phase = "answer" /\ request[s].report = r

LEMMA StraightParts ==
  /\ Straight <=> software[0] = {} /\ (~detour => Listed /\ Asked)
  /\ Straight' <=> software'[0] = {} /\ (~detour' => Listed' /\ Asked')
BY DEF Straight, Listed, Asked

\* While nothing goes wrong there is one list under way.
LEMMA OneList ==
  ASSUME Typed, Ages, Overlap, unsure = 0
  PROVE  \A q, r \in live : IsList(q) /\ IsList(r) => q = r
<1>1. \A r \in live : r.at \in Nat /\ r.at # 0 BY LiveReports
<1> QED BY <1>1 DEF Overlap

\* The difference that a report carries leads from the list before it to its own.
LEMMA DeltaLeads ==
  ASSUME Typed, Leads(last), software[0] = {}, NEW r \in Report, r.known = last, last < r.at,
         software' = software, trail' = trail \cup Delta(r)
  PROVE  Leads(r.at)'
<1> DEFINE new == software[r.at]
           old == software[last]
<1>1. /\ r.at \in Nat /\ last \in Nat /\ \A e \in trail : e.at \in Nat /\ e.at <= last
      /\ \A e \in trail : e.at < r.at
  <2>1. r.at \in Nat /\ last \in Nat /\ \A e \in trail : e.at \in Nat
    BY Numbers, TimeIs DEF Report
  <2>2. \A e \in trail : e.at <= last BY DEF Leads
  <2> QED BY <2>1, <2>2
<1>2. Delta(r) = {[app |-> a, at |-> r.at, action |-> "INSTALLED"] : a \in new \ old}
                   \cup {[app |-> a, at |-> r.at, action |-> "REMOVED"] : a \in old \ new}
  BY DEF Delta
<1>3. /\ \A e \in Delta(r) : /\ e.at = r.at
                             /\ e.action = "INSTALLED" => e.app \in new \ old
                             /\ e.action # "INSTALLED" => e.app \in old \ new
      /\ \A a \in new \ old : \E e \in Delta(r) : e.app = a /\ e.action = "INSTALLED"
      /\ \A a \in old \ new : \E e \in Delta(r) : e.app = a /\ e.action # "INSTALLED"
  <2>1. \A a \in new \ old : /\ [app |-> a, at |-> r.at, action |-> "INSTALLED"] \in Delta(r)
                             /\ [app |-> a, at |-> r.at, action |-> "INSTALLED"].app = a
                             /\ [app |-> a, at |-> r.at, action |-> "INSTALLED"].action = "INSTALLED"
    BY <1>2
  <2>2. \A a \in old \ new : /\ [app |-> a, at |-> r.at, action |-> "REMOVED"] \in Delta(r)
                             /\ [app |-> a, at |-> r.at, action |-> "REMOVED"].app = a
                             /\ [app |-> a, at |-> r.at, action |-> "REMOVED"].action # "INSTALLED"
    BY <1>2
  <2>3. \A e \in Delta(r) : /\ e.at = r.at
                            /\ e.action = "INSTALLED" => e.app \in new \ old
                            /\ e.action # "INSTALLED" => e.app \in old \ new
    BY <1>2
  <2> QED BY <2>1, <2>2, <2>3
<1> DEFINE Top(e, T) == \A f \in T : f.app = e.app => f.at <= e.at
<1>4. \A a \in App : a \in old <=> \E e \in trail : e.app = a /\ e.action = "INSTALLED"
                                     /\ \A f \in trail : f.app = a => f.at <= e.at
  BY DEF Leads
<1> HIDE DEF new, old
<1>5. ASSUME NEW a \in App
      PROVE  a \in new <=> \E e \in trail' : e.app = a /\ e.action = "INSTALLED"
                             /\ \A f \in trail' : f.app = a => f.at <= e.at
  <2>1. CASE a \in new \ old
    <3>1. PICK e \in Delta(r) : e.app = a /\ e.action = "INSTALLED" BY <1>3, <2>1
    <3>2. \A f \in trail' : f.at <= e.at BY <1>1, <1>3
    <3> QED BY <2>1, <3>1, <3>2
  <2>2. CASE a \in old \ new
    <3>1. PICK d \in Delta(r) : d.app = a /\ d.action # "INSTALLED" BY <1>3, <2>2
    <3>2. ASSUME NEW e \in trail', e.app = a, e.action = "INSTALLED",
                 \A f \in trail' : f.app = a => f.at <= e.at
          PROVE  FALSE
      <4>1. d.at <= e.at /\ d.at = r.at BY <1>3, <3>1, <3>2
      <4>2. e \in Delta(r) BY <1>1, <3>2, <4>1
      <4>3. a \in new BY <1>3, <3>2, <4>2
      <4> QED BY <2>2, <4>3
    <3> QED BY <2>2, <3>2
  <2>3. CASE a \notin new \ old /\ a \notin old \ new
    <3>1. \A e \in Delta(r) : e.app # a BY <1>3, <2>3
    <3>2. \A e \in trail' : e.app = a <=> e \in trail /\ e.app = a BY <3>1
    <3>3. a \in new <=> a \in old BY <2>3
    <3>4. (\E e \in trail' : e.app = a /\ e.action = "INSTALLED"
                               /\ \A f \in trail' : f.app = a => f.at <= e.at)
            <=> \E e \in trail : e.app = a /\ e.action = "INSTALLED"
                                   /\ \A f \in trail : f.app = a => f.at <= e.at
      BY <3>1
    <3> QED BY <1>4, <3>3, <3>4
  <2> QED BY <2>1, <2>2, <2>3
<1>6. \A e \in trail' : e.at <= r.at BY <1>1, <1>3
<1> QED BY <1>5, <1>6 DEF Leads, new

\* What the lists say stays true when nothing but software changes, after the last list.
LEMMA ListedFrame ==
  ASSUME Typed, Ages, Listed, UNCHANGED <<unsure, lists, last, trail>>, live' = outbox',
         \A t \in Time : t <= now => software'[t] = software[t],
         \A r \in live' : IsList(r) => r \in live, \A r \in live : IsList(r) => r \in live'
  PROVE  Listed'
<1>1. Leads(last)' <=> Leads(last)
  <2>1. software'[last] = software[last] BY AgeParts DEF Typed, TypeOK, StoredAged
  <2> QED BY <2>1 DEF Leads
<1>2. ASSUME NEW r \in live PROVE Leads(r.at)' <=> Leads(r.at)
  <2>1. software'[r.at] = software[r.at] BY LiveReports DEF Report
  <2> QED BY <2>1 DEF Leads
<1>3. (\A r \in live' : IsList(r) => r.at \notin lists) => Leads(last)'
  BY <1>1 DEF Listed
<1>4. \A r \in live' : IsList(r) /\ r.at \in lists => Leads(r.at)'
  BY <1>2 DEF Listed
<1>5. \A r \in live' : IsList(r) => r.known = last /\ last < r.at BY DEF Listed
<1>6. \A t \in lists : t <= last \/ \E r \in live' : IsList(r) /\ r.at = t BY DEF Listed
<1>7. unsure' = 0 BY DEF Listed
<1> HIDE DEF Leads
<1> QED BY <1>3, <1>4, <1>5, <1>6, <1>7 DEF Listed

LEMMA CollectSoftwareListed ==
  ASSUME Typed, Ages, Listed, Asked, CollectSoftware, ~detour'
  PROVE  Listed' /\ Asked'
<1>1. /\ lists' = lists /\ request' = request /\ trail' = trail /\ now \in Nat
      /\ last \in Nat /\ last \in Time /\ last <= now /\ \A t \in lists : t \in Nat /\ t <= now
  BY Numbers, AgeParts DEF CollectSoftware, StoredAged, Typed, TypeOK
<1>2. now' = now + 1 /\ last' = last /\ \A t \in Time : t <= now => software'[t] = software[t]
  BY CollectSoftwareIs
<1>3. CASE UNCHANGED <<outbox, live, unsure, detour>>
  <2>1. Listed' BY <1>1, <1>2, <1>3, ListedFrame DEF Listed
  <2>2. Asked' BY <1>1, <1>3 DEF Asked
  <2> QED BY <2>1, <2>2
<1>4. ASSUME NEW r \in Report, IsList(r), r.at = now', r.known = last,
             outbox' = outbox \cup {r}, live' = live \cup {r},
             IF \E q \in live : IsList(q) THEN unsure' = now' /\ detour' = TRUE
             ELSE UNCHANGED <<unsure, detour>>
      PROVE  Listed' /\ Asked'
  <2>1. unsure' = unsure /\ \A q \in live : ~IsList(q) BY <1>4
  <2>2. \A q \in live' : IsList(q) => q = r BY <1>4, <2>1
  <2>3. r.at \notin lists /\ last < r.at BY <1>1, <1>2, <1>4
  <2>4. Leads(last)'
    <3>1. Leads(last) BY <2>1 DEF Listed
    <3>2. software'[last] = software[last] BY <1>1, <1>2
    <3> QED BY <1>1, <1>2, <3>1, <3>2 DEF Leads
  <2>5. \A t \in lists : t <= last BY <2>1 DEF Listed
  <2>6. Listed'
    BY <1>1, <1>2, <1>4, <2>1, <2>2, <2>3, <2>4, <2>5 DEF Listed
  <2>7. Asked' BY <1>1, <1>4, <2>2, <2>3 DEF Asked
  <2> QED BY <2>6, <2>7
<1> QED BY <1>3, <1>4, CollectSoftwareIs

\* A request that goes on with its report, or ends in its answer.
LEMMA AskedOn ==
  ASSUME Typed, Ages, Overlap, Listed, Asked, NEW s \in Slot, Requests(s, request'[s]),
         request[s].phase \in {"find", "create"}, request'[s].phase \in {"create", "answer"},
         request'[s].report = request[s].report, request'[s].heard = request[s].heard,
         UNCHANGED <<outbox, live>>,
         \/ lists' = lists
         \/ /\ lists' = lists \cup {request[s].report.at} /\ IsList(request[s].report)
            /\ request'[s].phase = "answer"
  PROVE  Asked'
<1> DEFINE r == request[s].report
<1>1. \A u \in Slot : u # s => request'[u] = request[u] BY DEF Requests
<1>2. r \in outbox /\ r \in live /\ request[s].heard BY DEF Asked, Listed
<1>3. \A q, p \in live : IsList(q) /\ IsList(p) => q = p BY OneList DEF Listed
<1>4. \A u \in Slot : request'[u].phase # "idle" =>
        request'[u].heard /\ request'[u].report \in outbox'
  BY <1>1, <1>2 DEF Asked
<1>5. \A u, v \in Slot : request'[u].phase # "idle" /\ request'[v].phase # "idle"
        /\ request'[u].report = request'[v].report => u = v
  <2>1. \A u \in Slot : /\ request'[u].report = request[u].report
                        /\ request'[u].phase # "idle" => request[u].phase # "idle"
    BY <1>1
  <2> QED BY <2>1 DEF Asked
<1>6. ASSUME NEW u \in Slot, request'[u].phase \in {"find", "create"}, IsList(request'[u].report)
      PROVE  request'[u].report.at \notin lists'
  <2>1. CASE u = s
    <3>1. lists' = lists BY <1>6, <2>1
    <3> QED BY <1>6, <2>1, <3>1 DEF Asked
  <2>2. CASE u # s
    <3>1. request'[u] = request[u] /\ request[u].report.at \notin lists
      BY <1>1, <1>6, <2>2 DEF Asked
    <3>2. request[u].report \in live BY <1>6, <3>1 DEF Asked, Listed
    <3>3. request[u].report # r BY <1>6, <2>2, <3>1 DEF Asked
    <3>4. ~IsList(r) BY <1>2, <1>3, <1>6, <3>1, <3>2, <3>3
    <3> QED BY <3>1, <3>4
  <2> QED BY <2>1, <2>2
<1>7. ASSUME NEW q \in live', IsList(q), q.at \in lists'
      PROVE  \E u \in Slot : request'[u].phase = "answer" /\ request'[u].report = q
  <2>1. CASE q.at \in lists
    <3>1. PICK u \in Slot : request[u].phase = "answer" /\ request[u].report = q
      BY <1>7, <2>1 DEF Asked
    <3>2. u # s BY <3>1
    <3> QED BY <1>1, <3>1, <3>2
  <2>2. CASE q.at \notin lists
    <3>1. IsList(r) /\ request'[s].phase = "answer" BY <1>7, <2>2
    <3>2. q = r BY <1>2, <1>3, <1>7, <3>1
    <3> QED BY <3>1, <3>2
  <2> QED BY <2>1, <2>2
<1> QED BY <1>4, <1>5, <1>6, <1>7 DEF Asked

LEMMA DeliverAsked ==
  ASSUME Typed, Ages, Listed, Asked, NEW s \in Slot, NEW r \in outbox, Deliver(s, r)
  PROVE  Asked'
<1>1. /\ Requests(s, request'[s]) /\ request'[s].phase = "find" /\ request'[s].report = r
      /\ request'[s].heard
  BY DeliverIs DEF Requests
<1>2. /\ request[s].phase = "idle" /\ ~Awaited(r) /\ UNCHANGED <<outbox, live, lists>>
  BY DEF Deliver, agentVars, softwareVars
<1>3. \A u \in Slot : u # s => request'[u] = request[u] BY <1>1 DEF Requests
<1>4. \A u \in Slot : request[u].phase # "idle" => request[u].report # r
  BY <1>2 DEF Asked, Awaited
<1>5. IsList(r) => r.at \notin lists
  BY <1>4 DEF Asked, Listed
<1>6. \A u \in Slot : request'[u].phase # "idle" =>
        request'[u].heard /\ request'[u].report \in outbox'
  BY <1>1, <1>2, <1>3 DEF Asked
<1>7. \A u, v \in Slot : request'[u].phase # "idle" /\ request'[v].phase # "idle"
        /\ request'[u].report = request'[v].report => u = v
  BY <1>1, <1>3, <1>4 DEF Asked
<1>8. \A u \in Slot : request'[u].phase \in {"find", "create"} /\ IsList(request'[u].report) =>
        request'[u].report.at \notin lists'
  BY <1>1, <1>2, <1>3, <1>5 DEF Asked
<1>9. ASSUME NEW q \in live', IsList(q), q.at \in lists'
      PROVE  \E u \in Slot : request'[u].phase = "answer" /\ request'[u].report = q
  <2>1. PICK u \in Slot : request[u].phase = "answer" /\ request[u].report = q
    BY <1>2, <1>9 DEF Asked
  <2> QED BY <1>2, <1>3, <2>1
<1> QED BY <1>6, <1>7, <1>8, <1>9 DEF Asked

LEMMA CreateSoftwareStraight ==
  ASSUME Typed, Ages, Overlap, Listed, Asked, software[0] = {}, NEW s \in Slot, CreateSoftware(s)
  PROVE  Listed' /\ Asked'
<1>0. PICK r \in Report : request[s].report = r BY CreateSoftwareIs
<1>1. /\ lists' = lists \cup {r.at} /\ trail' = trail \cup Delta(r) /\ IsList(r)
      /\ request[s].phase = "create" /\ UNCHANGED <<outbox, live, last, software>>
      /\ unsure' = IF r \in live THEN unsure ELSE Greatest({unsure, r.at})
  BY <1>0 DEF CreateSoftware, IsList, agentVars
<1>2. Requests(s, request'[s]) /\ request'[s].phase = "answer" /\ request'[s].report = r
      /\ request'[s].heard = request[s].heard
  BY <1>0, CreateSoftwareIs
<1>3. Asked' BY <1>0, <1>1, <1>2, AskedOn
<1>4. r \in outbox /\ r \in live /\ r.at \notin lists BY <1>0, <1>1 DEF Asked, Listed
<1>5. r.known = last /\ last < r.at BY <1>1, <1>4 DEF Listed
<1>6. \A q \in live : IsList(q) => q = r BY <1>1, <1>4, OneList DEF Listed
<1>7. Leads(last) BY <1>4, <1>6 DEF Listed
<1>8. Leads(r.at)' BY <1>1, <1>5, <1>7, DeltaLeads
<1>9. unsure' = 0 BY <1>1, <1>4 DEF Listed
<1>10. \A t \in lists' : t <= last' \/ \E q \in live' : IsList(q) /\ q.at = t
  BY <1>1, <1>4 DEF Listed
<1>11. r.at \in lists' BY <1>1
<1>12. \A q \in live' : IsList(q) /\ q.at \in lists' => Leads(q.at)'
  <2> SUFFICES ASSUME NEW q \in live', IsList(q) PROVE Leads(q.at)' OBVIOUS
  <2>1. q = r BY <1>1, <1>6
  <2> QED BY <1>8, <2>1
<1>13. \E q \in live' : IsList(q) /\ q.at \in lists' BY <1>1, <1>4, <1>11
<1> QED BY <1>1, <1>3, <1>5, <1>6, <1>9, <1>10, <1>12, <1>13 DEF Listed

LEMMA AnswerStraight ==
  ASSUME Typed, Ages, Overlap, Newer, Answered, Listed, Asked, NEW s \in Slot, Answer(s)
  PROVE  Listed' /\ Asked'
<1> DEFINE r == request[s].report
<1>1. /\ request[s].phase = "answer" /\ request[s].heard /\ r \in outbox /\ r \in live
  BY DEF Answer, Asked, Listed
<1>2. /\ outbox' = outbox \ {r} /\ live' = live \ {r}
      /\ last' = IF IsList(r) THEN r.at ELSE last
      /\ UNCHANGED <<now, software, unsure, lists, trail>>
  BY <1>1 DEF Answer, IsList, softwareVars
<1>3. request'[s] = NoRequest /\ \A u \in Slot : u # s => request'[u] = request[u]
  BY AnswerIs DEF Requests
<1>4. request'[s].phase = "idle" BY <1>3, Idle DEF Typed, TypeOK
<1>5. \A u \in Slot : u # s /\ request[u].phase # "idle" => request[u].report # r
  BY <1>1 DEF Asked
<1>6. Asked'
  <2>1. \A u \in Slot : request'[u].phase # "idle" =>
          u # s /\ request'[u] = request[u] /\ request[u].report # r
    BY <1>3, <1>4, <1>5
  <2>2. \A u \in Slot : request'[u].phase # "idle" =>
          request'[u].heard /\ request'[u].report \in outbox'
    BY <1>2, <2>1 DEF Asked
  <2>3. \A u, v \in Slot : request'[u].phase # "idle" /\ request'[v].phase # "idle"
          /\ request'[u].report = request'[v].report => u = v
    BY <2>1 DEF Asked
  <2>4. \A u \in Slot : request'[u].phase \in {"find", "create"} /\ IsList(request'[u].report) =>
          request'[u].report.at \notin lists'
    BY <1>2, <2>1 DEF Asked
  <2>5. ASSUME NEW q \in live', IsList(q), q.at \in lists'
        PROVE  \E u \in Slot : request'[u].phase = "answer" /\ request'[u].report = q
    <3>1. q \in live /\ q # r BY <1>2, <2>5
    <3>2. PICK u \in Slot : request[u].phase = "answer" /\ request[u].report = q
      BY <1>2, <2>5, <3>1 DEF Asked
    <3>3. u # s BY <3>1, <3>2
    <3> QED BY <1>3, <3>2, <3>3
  <2> QED BY <2>2, <2>3, <2>4, <2>5 DEF Asked
<1>7. \A q, p \in live : IsList(q) /\ IsList(p) => q = p BY OneList DEF Listed
<1>8. CASE ~IsList(r)
  <2>1. live' = outbox' BY <1>2 DEF Listed
  <2>2. \A q \in live' : IsList(q) => q \in live BY <1>2
  <2>3. \A q \in live : IsList(q) => q \in live' BY <1>2, <1>8
  <2>4. last' = last BY <1>2, <1>8
  <2>5. \A t \in Time : t <= now => software'[t] = software[t] BY <1>2
  <2>6. Listed' BY <1>2, <2>1, <2>2, <2>3, <2>4, <2>5, ListedFrame
  <2> QED BY <1>6, <2>6
<1>9. CASE IsList(r)
  <2>1. \A q \in live' : ~IsList(q) BY <1>1, <1>2, <1>7, <1>9
  <2>2. r.at \in Nat /\ r.at # 0 /\ unsure = 0 /\ \A t \in lists : t \in Nat
    BY <1>1, LiveReports, Numbers DEF Listed
  <2>3. \A t \in lists : t <= r.at BY <1>1, <1>9, <2>2 DEF Newer
  <2>4. PICK t \in lists : r.at <= t BY <1>1, <1>9 DEF Answered
  <2>5. r.at \in lists BY <2>2, <2>3, <2>4
  <2>6. Leads(r.at) BY <1>1, <1>9, <2>5 DEF Listed
  <2>7. last' = r.at BY <1>2, <1>9
  <2>8. Leads(last)' BY <1>2, <2>6, <2>7 DEF Leads
  <2>9. live' = outbox' /\ unsure' = 0 BY <1>2 DEF Listed
  <2>10. \A u \in lists' : u <= last' BY <1>2, <2>3, <2>7
  <2>11. Listed' BY <2>1, <2>8, <2>9, <2>10 DEF Listed
  <2> QED BY <1>6, <2>11
<1> QED BY <1>8, <1>9

\* The steps that do not touch software, but the reports and the requests.
LEMMA ListedOn ==
  ASSUME Typed, Ages, Listed, UNCHANGED <<unsure, lists, last, trail, software, live, outbox>>
  PROVE  Listed'
<1>1. live' = outbox' BY DEF Listed
<1> QED BY <1>1, ListedFrame

LEMMA CollectSnapshotStraight ==
  ASSUME Typed, Ages, Listed, Asked, NEW kind \in Kind, CollectSnapshot(kind)
  PROVE  Listed' /\ Asked'
<1>1. PICK new : /\ outbox' = outbox \cup new /\ live' = live \cup new
                 /\ \A r \in new : ~IsList(r)
  BY CollectedReports
<1>2. UNCHANGED <<unsure, lists, last, trail, software, request>> BY CollectedReports
<1>3. live' = outbox' BY <1>1 DEF Listed
<1>4. Listed' BY <1>1, <1>2, <1>3, ListedFrame
<1>5. Asked' BY <1>1, <1>2 DEF Asked
<1> QED BY <1>4, <1>5

LEMMA NextListed ==
  ASSUME Typed, Ages, Believing, Listed, Asked, software[0] = {}, [Next]_vars, ~detour'
  PROVE  Listed' /\ Asked'
<1>0. Overlap /\ Newer /\ Held /\ Answered BY BelievingParts
<1>1. CASE \E kind \in Kind : CollectSnapshot(kind) BY <1>1, CollectSnapshotStraight
<1>2. CASE CollectSoftware BY <1>2, CollectSoftwareListed
<1>3. CASE \E s \in Slot : \E r \in outbox : Deliver(s, r)
  <2>1. UNCHANGED <<unsure, lists, last, trail, software, live, outbox>>
    BY <1>3 DEF Deliver, agentVars, softwareVars
  <2> QED BY <1>3, <2>1, ListedOn, DeliverAsked
<1>4. ASSUME NEW s \in Slot, Find(s) \/ CreateSnapshot(s) \/ UpdatePosture(s)
      PROVE  Listed' /\ Asked'
  <2>1. /\ UNCHANGED <<unsure, lists, last, trail, software, live, outbox>>
        /\ request[s].phase \in {"find", "create"}
    BY <1>4, PostureFrame DEF Find, CreateSnapshot, agentVars, softwareVars
  <2>2. /\ Requests(s, request'[s]) /\ request'[s].report = request[s].report
        /\ request'[s].heard = request[s].heard /\ request'[s].phase \in {"create", "answer"}
    <3>1. CASE Find(s) BY <3>1, FindIs DEF Found
    <3>2. CASE CreateSnapshot(s) BY <3>2, CreateSnapshotIs
    <3>3. CASE UpdatePosture(s) BY <3>3, UpdatePostureIs
    <3> QED BY <1>4, <3>1, <3>2, <3>3
  <2> QED BY <1>0, <2>1, <2>2, ListedOn, AskedOn
<1>5. CASE \E s \in Slot : CreateSoftware(s) BY <1>0, <1>5, CreateSoftwareStraight
<1>6. CASE \E s \in Slot : Answer(s) BY <1>0, <1>6, AnswerStraight
<1>7. CASE UNCHANGED <<unsure, lists, last, trail, software, live, outbox, request>>
  <2>1. Listed' BY <1>7, ListedOn
  <2>2. Asked' BY <1>7 DEF Asked
  <2> QED BY <2>1, <2>2
<1>8. \/ \E kind \in Kind : CollectSnapshot(kind)
      \/ CollectSoftware
      \/ \E s \in Slot : \E r \in outbox : Deliver(s, r)
      \/ \E s \in Slot : Find(s) \/ CreateSnapshot(s) \/ UpdatePosture(s)
      \/ \E s \in Slot : CreateSoftware(s)
      \/ \E s \in Slot : Answer(s)
      \/ UNCHANGED <<unsure, lists, last, trail, software, live, outbox, request>>
  <2>1. CASE UNCHANGED vars BY <2>1 DEF vars, agentVars, softwareVars
  <2>2. CASE ServerRestart \/ AgentRestart \/ \E s \in Slot : TimeOut(s)
    BY <2>2 DEF ServerRestart, AgentRestart, TimeOut
  <2>3. CASE \E r \in outbox : Enqueue(r) BY <2>3 DEF Enqueue
  <2>4. CASE \E s \in Slot : Compare(s) \/ RecordChanges(s) \/ RaiseRamAlert(s)
    BY <2>4 DEF Compare, RecordChanges, RaiseRamAlert, agentVars, softwareVars
  <2>5. CASE \E s \in Slot : ReadRules(s) \/ LookForAlert(s) \/ RaiseAlert(s)
    BY <2>5 DEF ReadRules, LookForAlert, RaiseAlert, agentVars
  <2>6. CASE \/ \E r \in Rule : CreateRule(r) \/ DeleteRule(r)
             \/ \E a \in App : ResolveAlert(a)
    BY <2>6 DEF CreateRule, DeleteRule, ResolveAlert, agentVars
  <2> QED BY <2>1, <2>2, <2>3, <2>4, <2>5, <2>6 DEF Next
<1> QED BY <1>1, <1>2, <1>3, <1>4, <1>5, <1>6, <1>7, <1>8

\* Software and machines that were collected do not change; what went wrong stays wrong.
LEMMA Collected ==
  ASSUME Typed, [Next]_vars
  PROVE  /\ \A t \in Time : t <= now => software'[t] = software[t] /\ machine'[t] = machine[t]
         /\ detour => detour'
<1>0. now \in Nat /\ Time \subseteq Nat BY Numbers, TimeIs
<1>1. CASE \E kind \in Kind : CollectSnapshot(kind)
  <2>1. PICK m \in Machine : machine' = [machine EXCEPT ![now'] = m]
    BY <1>1 DEF CollectSnapshot
  <2>2. now' = now + 1 /\ UNCHANGED <<software, detour>>
    BY <1>1 DEF CollectSnapshot, Reading, softwareVars
  <2>3. machine \in [Time -> Machine] BY DEF Typed, TypeOK
  <2>4. \A t \in Time : t # now' => machine'[t] = machine[t] BY <2>1, <2>3
  <2> QED BY <1>0, <2>2, <2>4
<1>2. CASE CollectSoftware
  <2>1. UNCHANGED machine /\ (detour => detour') BY <1>2 DEF CollectSoftware
  <2> QED BY <1>2, <2>1, CollectSoftwareIs
<1>3. CASE UNCHANGED <<software, machine>> /\ (detour => detour') BY <1>3
<1>4. \/ \E kind \in Kind : CollectSnapshot(kind)
      \/ CollectSoftware
      \/ UNCHANGED <<software, machine>> /\ (detour => detour')
  <2>1. CASE UNCHANGED vars BY <2>1 DEF vars, agentVars, softwareVars
  <2>2. CASE ServerRestart \/ AgentRestart \/ \E s \in Slot : TimeOut(s)
    BY <2>2 DEF ServerRestart, AgentRestart, TimeOut, agentVars
  <2>3. CASE \E r \in outbox : Enqueue(r) \/ \E s \in Slot : Deliver(s, r)
    BY <2>3 DEF Enqueue, Deliver, agentVars, softwareVars
  <2>4. CASE \E s \in Slot : Compare(s) \/ RecordChanges(s) \/ RaiseRamAlert(s)
    BY <2>4 DEF Compare, RecordChanges, RaiseRamAlert, agentVars, softwareVars
  <2>5. CASE \E s \in Slot : ReadRules(s) \/ LookForAlert(s) \/ RaiseAlert(s)
    BY <2>5 DEF ReadRules, LookForAlert, RaiseAlert, agentVars
  <2>6. CASE \/ \E r \in Rule : CreateRule(r) \/ DeleteRule(r)
             \/ \E a \in App : ResolveAlert(a)
    BY <2>6 DEF CreateRule, DeleteRule, ResolveAlert, agentVars
  <2>7. CASE \E s \in Slot : Find(s) \/ CreateSnapshot(s) \/ UpdatePosture(s)
    BY <2>7, PostureFrame DEF Find, CreateSnapshot, agentVars, softwareVars
  <2>8. CASE \E s \in Slot : CreateSoftware(s) \/ Answer(s)
    BY <2>8 DEF CreateSoftware, Answer, agentVars, softwareVars
  <2> QED BY <2>1, <2>2, <2>3, <2>4, <2>5, <2>6, <2>7, <2>8 DEF Next
<1> QED BY <1>1, <1>2, <1>3, <1>4

LEMMA NextStraight ==
  ASSUME Typed, Ages, Believing, Straight, [Next]_vars
  PROVE  Straight'
<1>1. software[0] = {} /\ (~detour => Listed /\ Asked) BY StraightParts
<1>2. software'[0] = {}
  <2>1. 0 \in Time /\ 0 <= now BY Numbers
  <2> QED BY <1>1, <2>1, Collected
<1>3. ASSUME ~detour' PROVE Listed' /\ Asked'
  <2>1. ~detour BY <1>3, Collected
  <2> QED BY <1>1, <1>3, <2>1, NextListed
<1> QED BY <1>2, <1>3, StraightParts

-----------------------------------------------------------------------------
(* The rows in their order, and the comparisons under way                   *)

Comparisons == {"compare", "record", "alarm"}

SameComparisons ==
  \A u \in Slot : \/ followup'[u] = followup[u]
                  \/ followup[u].phase \notin Comparisons /\ followup'[u].phase \notin Comparisons

LEMMA ComparisonSteps ==
  ASSUME Typed, Ages, [Next]_vars
  PROVE  \/ SameComparisons /\ UNCHANGED <<rows, changes, ramAlerts, lapsed>>
         \/ \E s \in Slot : CreateSnapshot(s) \/ UpdatePosture(s)
         \/ \E s \in Slot : Compare(s) \/ RecordChanges(s) \/ RaiseRamAlert(s)
         \/ ServerRestart
<1>1. ASSUME UNCHANGED followup PROVE SameComparisons BY <1>1 DEF SameComparisons
<1>2. ASSUME NEW s \in Slot, Follows(s, followup'[s]), followup[s].phase \notin Comparisons,
             followup'[s].phase \notin Comparisons
      PROVE  SameComparisons
  BY <1>2 DEF SameComparisons, Follows
<1>3. CASE UNCHANGED vars BY <1>1, <1>3 DEF vars, snapshotVars
<1>4. CASE \/ CollectSoftware \/ AgentRestart
           \/ \E kind \in Kind : CollectSnapshot(kind)
           \/ \E r \in outbox : Enqueue(r) \/ \E s \in Slot : Deliver(s, r)
  BY <1>1, <1>4
  DEF CollectSoftware, AgentRestart, CollectSnapshot, Enqueue, Deliver, snapshotVars
<1>5. CASE \E s \in Slot : TimeOut(s) \/ Find(s) \/ Answer(s)
  BY <1>1, <1>5 DEF TimeOut, Find, Answer, snapshotVars
<1>6. CASE \/ \E r \in Rule : CreateRule(r) \/ DeleteRule(r)
           \/ \E a \in App : ResolveAlert(a)
  BY <1>1, <1>6 DEF CreateRule, DeleteRule, ResolveAlert, snapshotVars
<1>7. ASSUME NEW s \in Slot, CreateSoftware(s)
      PROVE  SameComparisons /\ UNCHANGED <<rows, changes, ramAlerts, lapsed>>
  <2>1. followup[s].phase = "idle" BY <1>7, AgeParts DEF CreateSoftware, RequestAged
  <2>2. Follows(s, followup'[s]) /\ followup'[s].phase = "rules" BY <1>7, CreateSoftwareIs
  <2>3. SameComparisons BY <1>2, <2>1, <2>2 DEF Comparisons
  <2> QED BY <1>7, <2>3 DEF CreateSoftware, snapshotVars
<1>8. ASSUME NEW s \in Slot, ReadRules(s) \/ LookForAlert(s) \/ RaiseAlert(s)
      PROVE  SameComparisons /\ UNCHANGED <<rows, changes, ramAlerts, lapsed>>
  <2>0. NoFollowup.phase = "idle" BY Idle DEF Typed, TypeOK
  <2>1. /\ UNCHANGED <<rows, changes, ramAlerts, lapsed>>
        /\ followup[s].phase \in {"rules", "look", "raise"}
    BY <1>8 DEF ReadRules, LookForAlert, RaiseAlert, snapshotVars
  <2>2. Follows(s, followup'[s]) /\ followup'[s].phase \in {"idle", "look", "raise"}
    <3>1. CASE ReadRules(s)
      <4>1. followup[s].next = {} BY <3>1, AgeParts DEF ReadRules, FollowupAged
      <4> QED BY <2>0, <3>1, <4>1, ReadRulesIs
    <3>2. CASE LookForAlert(s)
      <4>1. PICK a \in followup[s].todo :
              /\ Follows(s, followup'[s])
              /\ Proceed(s, followup[s].todo \ {a}) \/ followup'[s].phase = "raise"
        BY <3>2, LookForAlertIs
      <4>2. followup[s].todo \ {a} \in SUBSET App BY DEF Typed, TypeOK
      <4> QED BY <2>0, <4>1, <4>2, ProceedIs
    <3>3. CASE RaiseAlert(s)
      <4>1. followup[s].todo \ followup[s].next \in SUBSET App BY DEF Typed, TypeOK
      <4> QED BY <2>0, <3>3, <4>1, ProceedIs DEF RaiseAlert
    <3> QED BY <1>8, <3>1, <3>2, <3>3
  <2>3. SameComparisons BY <1>2, <2>1, <2>2 DEF Comparisons
  <2> QED BY <2>1, <2>3
<1> QED BY <1>3, <1>4, <1>5, <1>6, <1>7, <1>8 DEF Next

\* The slots of a phase, when the comparison of one slot, or none, goes on.
LEMMA OnePhase ==
  ASSUME NEW s \in Slot, Follows(s, followup'[s])
  PROVE  \A p \in Comparisons :
           InPhase(p)' = IF followup'[s].phase = p THEN InPhase(p) \cup {s} ELSE InPhase(p) \ {s}
BY DEF Follows, InPhase

LEMMA SamePhases ==
  ASSUME SameComparisons
  PROVE  /\ \A p \in Comparisons : InPhase(p)' = InPhase(p)
         /\ \A p \in Comparisons : \A s \in InPhase(p) : followup'[s] = followup[s]
BY DEF SameComparisons, InPhase

\* The parts of the order, each about its own variables.
Finite == IsFiniteSet(InPhase("record")) /\ IsFiniteSet(InPhase("alarm"))

Differing == \A s \in InPhase("record") : \E a, b \in Machine : followup[s].found = Differences(a, b)

Rising ==
  \A i, j \in DOMAIN rows : i < j =>
    rows[i].at < rows[j].at /\ (rows[i].hardware # 0 => rows[j].hardware # 0)

Comparing ==
  /\ \A s \in InPhase("compare") :
       /\ followup[s].count \in DOMAIN rows /\ followup[s].at # 0
       /\ rows[followup[s].count].hardware = followup[s].at
  /\ \A s, u \in InPhase("compare") : followup[s].count = followup[u].count => s = u

LEMMA OrderedParts ==
  /\ Ordered <=> Finite /\ Differing /\ (~lapsed => Rising /\ Comparing)
  /\ Ordered' <=> Finite' /\ Differing' /\ (~lapsed' => Rising' /\ Comparing')
BY DEF Ordered, Finite, Differing, Rising, Comparing

\* What is not lapsed was created on the latest of the rows, and is later.
LEMMA NewestRow ==
  ASSUME Typed, Ages, Read, Ordered, NEW s \in Slot, CreateSnapshot(s), ~lapsed'
  PROVE  /\ ~lapsed /\ Rising /\ Comparing
         /\ \/ rows = <<>> /\ request[s].base = NoRow
            \/ /\ Len(rows) \in DOMAIN rows /\ request[s].base = rows[Len(rows)]
               /\ rows[Len(rows)].at < request[s].report.at
<1> DEFINE i == request[s].index
<1>1. ~lapsed /\ Undisturbed(s) BY DEF CreateSnapshot, HistoryTyped
<1>2. Rising /\ Comparing BY <1>1, OrderedParts
<1>3. request[s].phase = "create" /\ request[s].report.kind \in Snapshot
  BY DEF CreateSnapshot, Snapshot
<1>4. rows \in Seq(Row) /\ i \in 0..Len(rows) /\ Len(rows) \in Nat BY DEF Typed, TypeOK
<1>5. CASE i = 0
  <2>1. Len(rows) = 0 /\ request[s].base = NoRow BY <1>1, <1>3, <1>5 DEF Read, Undisturbed
  <2>2. rows = <<>> BY <1>4, <2>1
  <2> QED BY <1>1, <1>2, <2>1, <2>2
<1>6. CASE i # 0
  <2>1. /\ rows[i] = request[s].base /\ rows[i].at < request[s].report.at
        /\ \A j \in DOMAIN rows : rows[j].at <= rows[i].at
    BY <1>1, <1>3, <1>6 DEF Read, Undisturbed
  <2>2. i \in DOMAIN rows /\ Len(rows) \in DOMAIN rows BY <1>4, <1>6
  <2>3. rows[i].at \in Nat /\ rows[Len(rows)].at \in Nat BY <2>2, Numbers
  <2>4. ~(i < Len(rows)) BY <1>2, <2>1, <2>2, <2>3 DEF Rising
  <2>5. i = Len(rows) BY <1>4, <2>4
  <2> QED BY <1>1, <1>2, <2>1, <2>2, <2>5
<1> QED BY <1>5, <1>6

LEMMA CreateSnapshotOrdered ==
  ASSUME Typed, Ages, Read, Ordered, NEW s \in Slot, CreateSnapshot(s)
  PROVE  Ordered'
<1> DEFINE r == request[s].report
           row == Merged(request[s].base, r)
<1>1. /\ rows' = Append(rows, row) /\ Len(rows') = Len(rows) + 1 /\ r \in Report
      /\ request[s].base \in Row /\ rows' \in Seq(Row)
      /\ \A i \in DOMAIN rows : i \in DOMAIN rows' /\ rows'[i] = rows[i]
      /\ rows'[Len(rows')] = row
  BY CreateSnapshotIs
<1>2. rows \in Seq(Row) /\ Len(rows) \in Nat /\ DOMAIN rows = 1..Len(rows)
      /\ DOMAIN rows' = 1..(Len(rows) + 1)
  BY <1>1 DEF Typed, TypeOK
<1>3. \/ r.kind = "smart" /\ UNCHANGED followup
      \/ /\ r.kind = "general" /\ Follows(s, followup'[s]) /\ followup'[s].phase = "compare"
         /\ followup'[s].at = r.at /\ followup'[s].count = Len(rows')
  BY CreateSnapshotIs
<1>4. r.at \in Nat /\ r.at # 0 BY Numbers, AgeParts DEF RequestAged, CreateSnapshot
<1>5. /\ InPhase("record")' \subseteq InPhase("record")
      /\ InPhase("alarm")' \subseteq InPhase("alarm")
      /\ \A u \in InPhase("record")' : followup'[u] = followup[u]
  BY <1>3 DEF InPhase, Follows
<1>6. Finite' BY <1>5, FS_Subset, OrderedParts DEF Finite
<1>7. Differing' BY <1>5, OrderedParts DEF Differing
<1>8. ASSUME ~lapsed' PROVE Rising' /\ Comparing'
  <2>1. /\ Rising /\ Comparing
        /\ \/ rows = <<>> /\ request[s].base = NoRow
           \/ /\ Len(rows) \in DOMAIN rows /\ request[s].base = rows[Len(rows)]
              /\ rows[Len(rows)].at < r.at
    BY <1>8, NewestRow
  <2>2. row.at = r.at /\ (r.kind = "general" => row.hardware = r.at)
        /\ (r.kind = "smart" => row.hardware = request[s].base.hardware)
    BY <1>1, SectionIs DEF Section
  <2> HIDE DEF r, row
  <2>3. ASSUME NEW i \in DOMAIN rows
        PROVE  rows[i].at < row.at /\ (rows[i].hardware # 0 => row.hardware # 0)
    <3>1. rows[i].at \in Nat /\ Len(rows) \in DOMAIN rows /\ rows[Len(rows)].at \in Nat
      BY <1>2, Numbers
    <3>2. request[s].base = rows[Len(rows)] /\ rows[Len(rows)].at < r.at BY <1>2, <2>1
    <3>3. i = Len(rows) \/ i < Len(rows) BY <1>2
    <3>4. rows[i].at <= rows[Len(rows)].at
          /\ (rows[i].hardware # 0 => rows[Len(rows)].hardware # 0)
      BY <2>1, <3>1, <3>3 DEF Rising
    <3> QED BY <1>3, <1>4, <2>2, <3>1, <3>2, <3>4
  <2>4. Rising'
    <3> SUFFICES ASSUME NEW i \in DOMAIN rows', NEW j \in DOMAIN rows', i < j
                 PROVE  rows'[i].at < rows'[j].at
                        /\ (rows'[i].hardware # 0 => rows'[j].hardware # 0)
      BY DEF Rising
    <3>1. CASE j \in DOMAIN rows
      <4>1. i \in DOMAIN rows BY <1>2, <3>1
      <4> QED BY <1>1, <2>1, <3>1, <4>1 DEF Rising
    <3>2. CASE j \notin DOMAIN rows
      <4>1. j = Len(rows') /\ i \in DOMAIN rows BY <1>1, <1>2, <3>2
      <4> QED BY <1>1, <2>3, <4>1
    <3> QED BY <3>1, <3>2
  <2>5. CASE r.kind = "smart"
    <3>1. UNCHANGED followup BY <1>3, <2>5
    <3> QED BY <1>1, <2>1, <2>4, <3>1 DEF Comparing, InPhase
  <2>6. CASE r.kind = "general"
    <3>1. /\ \A u \in InPhase("compare")' : u # s => u \in InPhase("compare")
                                                     /\ followup'[u] = followup[u]
          /\ followup'[s].count = Len(rows') /\ followup'[s].at = r.at
      BY <1>3, <2>6 DEF Follows, InPhase
    <3>2. ASSUME NEW u \in InPhase("compare")'
          PROVE  /\ followup'[u].count \in DOMAIN rows' /\ followup'[u].at # 0
                 /\ rows'[followup'[u].count].hardware = followup'[u].at
                 /\ u # s => followup'[u].count # Len(rows')
      <4>1. CASE u = s BY <1>1, <1>2, <1>4, <2>2, <2>6, <3>1, <4>1
      <4>2. CASE u # s
        <5>1. u \in InPhase("compare") /\ followup'[u] = followup[u] BY <3>1, <4>2
        <5>2. followup[u].count \in DOMAIN rows BY <2>1, <5>1 DEF Comparing
        <5> QED BY <1>1, <1>2, <2>1, <5>1, <5>2 DEF Comparing
      <4> QED BY <4>1, <4>2
    <3>3. ASSUME NEW u \in InPhase("compare")', NEW v \in InPhase("compare")',
                 followup'[u].count = followup'[v].count
          PROVE  u = v
      <4>1. CASE u = s \/ v = s BY <3>1, <3>2, <3>3, <4>1
      <4>2. CASE u # s /\ v # s BY <2>1, <3>1, <3>3, <4>2 DEF Comparing
      <4> QED BY <4>1, <4>2
    <3> QED BY <2>4, <3>2, <3>3 DEF Comparing
  <2> QED BY <1>3, <2>5, <2>6
<1> QED BY <1>6, <1>7, <1>8, OrderedParts

LEMMA UpdatePostureOrdered ==
  ASSUME Typed, Ages, Ordered, NEW s \in Slot, UpdatePosture(s)
  PROVE  Ordered'
<1>1. UNCHANGED followup BY PostureFrame
<1>2. Finite' /\ Differing' BY <1>1, OrderedParts DEF Finite, Differing, InPhase
<1>3. rows \in Seq(Row) /\ rows' \in Seq(Row) BY UpdatePostureIs DEF Typed, TypeOK
<1>4. ASSUME ~lapsed' PROVE Rising' /\ Comparing'
  <2>1. CASE /\ UNCHANGED lapsed /\ Len(rows') = Len(rows)
             /\ \A i \in DOMAIN rows : /\ i \in DOMAIN rows' /\ rows'[i].at = rows[i].at
                                       /\ rows'[i].hardware = rows[i].hardware
    <3>1. Rising /\ Comparing BY <1>4, <2>1, OrderedParts
    <3>2. DOMAIN rows' = DOMAIN rows BY <1>3, <2>1
    <3>3. Rising' BY <2>1, <3>1, <3>2 DEF Rising
    <3>4. Comparing' BY <1>1, <2>1, <3>1, <3>2 DEF Comparing, InPhase
    <3> QED BY <3>3, <3>4
  <2>2. CASE lapsed' = (lapsed \/ rows # <<>>) /\ Len(rows') = Len(rows) + 1
    <3>1. rows = <<>> /\ ~lapsed BY <1>4, <2>2
    <3>2. DOMAIN rows = {} /\ DOMAIN rows' = 1..1 BY <1>3, <2>2, <3>1
    <3>3. Comparing BY <3>1, OrderedParts
    <3>4. InPhase("compare") = {} BY <3>2, <3>3 DEF Comparing
    <3>5. Comparing' BY <1>1, <3>4 DEF Comparing, InPhase
    <3>6. Rising' BY <3>2 DEF Rising
    <3> QED BY <3>5, <3>6
  <2> QED BY <2>1, <2>2, UpdatePostureIs
<1> QED BY <1>2, <1>4, OrderedParts

LEMMA NextOrdered ==
  ASSUME Typed, Ages, Read, Ordered, [Next]_vars
  PROVE  Ordered'
<1>0. Finite /\ Differing /\ (~lapsed => Rising /\ Comparing) BY OrderedParts
<1>1. CASE SameComparisons /\ UNCHANGED <<rows, lapsed>>
  <2>1. /\ \A p \in Comparisons : InPhase(p)' = InPhase(p)
        /\ \A p \in Comparisons : \A u \in InPhase(p) : followup'[u] = followup[u]
    BY <1>1, SamePhases
  <2>2. Finite' /\ Differing' BY <1>0, <2>1 DEF Finite, Differing, Comparisons
  <2>3. ASSUME Rising, Comparing PROVE Rising' /\ Comparing'
    BY <1>1, <2>1, <2>3 DEF Rising, Comparing, Comparisons
  <2> QED BY <1>0, <1>1, <2>2, <2>3, OrderedParts
<1>2. CASE \E s \in Slot : CreateSnapshot(s) \/ UpdatePosture(s)
  BY <1>2, CreateSnapshotOrdered, UpdatePostureOrdered
<1>3. ASSUME NEW s \in Slot, Compare(s) \/ RecordChanges(s) \/ RaiseRamAlert(s) PROVE Ordered'
  <2>1. /\ Follows(s, followup'[s]) /\ followup'[s].phase \in {"idle", "record", "alarm"}
        /\ followup'[s].phase = "record" =>
             \E a, b \in Machine : followup'[s].found = Differences(a, b)
    <3>0. NoFollowup.phase = "idle" BY Idle DEF Typed, TypeOK
    <3>1. CASE Compare(s) BY <3>1, CompareIs
    <3>2. CASE RecordChanges(s)
      <4>1. IsFiniteSet(followup[s].found)
        BY <3>2, <1>0, DifferencesAre DEF RecordChanges, Differing, InPhase
      <4> QED BY <3>2, <4>1, RecordChangesIs
    <3>3. CASE RaiseRamAlert(s) BY <3>0, <3>3, FinishIs DEF RaiseRamAlert
    <3> QED BY <1>3, <3>1, <3>2, <3>3
  <2>2. UNCHANGED rows /\ (lapsed => lapsed')
    <3>1. CASE Compare(s) BY <3>1 DEF Compare
    <3>2. CASE RecordChanges(s) BY <3>2 DEF RecordChanges
    <3>3. CASE RaiseRamAlert(s) BY <3>3 DEF RaiseRamAlert
    <3> QED BY <1>3, <3>1, <3>2, <3>3
  <2>3. /\ \A p \in Comparisons : InPhase(p)' \subseteq InPhase(p) \cup {s}
        /\ InPhase("compare")' \subseteq InPhase("compare") \ {s}
        /\ \A u \in Slot : u # s => followup'[u] = followup[u]
    BY <2>1, OnePhase DEF Comparisons, Follows
  <2>4. Finite'
    <3>1. IsFiniteSet(InPhase("record") \cup {s}) /\ IsFiniteSet(InPhase("alarm") \cup {s})
      BY <1>0, FS_AddElement DEF Finite
    <3> QED BY <2>3, <3>1, FS_Subset DEF Finite, Comparisons
  <2>5. Differing'
    <3> SUFFICES ASSUME NEW u \in Slot, followup'[u].phase = "record"
                 PROVE  \E a, b \in Machine : followup'[u].found = Differences(a, b)
      BY DEF Differing, InPhase
    <3>1. CASE u = s BY <2>1, <3>1
    <3>2. CASE u # s BY <1>0, <2>3, <3>2 DEF Differing, InPhase
    <3> QED BY <3>1, <3>2
  <2>6. ASSUME Rising, Comparing PROVE Rising' /\ Comparing'
    <3>1. Rising' BY <2>2, <2>6 DEF Rising
    <3>2. \A u \in InPhase("compare")' : u \in InPhase("compare") /\ followup'[u] = followup[u]
      BY <2>3 DEF InPhase
    <3>3. Comparing' BY <2>2, <2>6, <3>2 DEF Comparing
    <3> QED BY <3>1, <3>3
  <2>7. lapsed \in BOOLEAN /\ (~lapsed' => ~lapsed) BY <2>2 DEF Typed, TypeOK
  <2> QED BY <1>0, <2>4, <2>5, <2>6, <2>7, OrderedParts
<1>4. CASE ServerRestart
  <2>1. \A u \in Slot : followup'[u].phase = "idle"
    BY <1>4, Idle DEF ServerRestart, Typed, TypeOK
  <2>2. \A p \in Comparisons : InPhase(p)' = {} BY <2>1 DEF InPhase, Comparisons
  <2>3. Finite' BY <2>2, FS_EmptySet DEF Finite, Comparisons
  <2>4. Differing' BY <2>2 DEF Differing, Comparisons
  <2>5. Comparing' BY <2>2 DEF Comparing, Comparisons
  <2>6. UNCHANGED rows /\ (lapsed => lapsed') BY <1>4 DEF ServerRestart
  <2>7. Rising => Rising' BY <2>6 DEF Rising
  <2> QED BY <1>0, <2>3, <2>4, <2>5, <2>6, <2>7, OrderedParts
<1> QED BY <1>1, <1>2, <1>3, <1>4, ComparisonSteps

-----------------------------------------------------------------------------
(* What was recorded adds up to what was compared                           *)

\* The parts of the balance.
Adds(field, v) ==
  /\ Seen \notin Known => Balance(field, v) = 0
  /\ \A i \in Known : (\A j \in Known : i <= j) /\ Seen \in Known =>
       Balance(field, v) = Has(Seen, field, v) - Has(i, field, v)

AddUp == Current => \A field \in {"ram", "cpu"} : \A v \in {m[field] : m \in Machine} : Adds(field, v)

Lost == {i \in DOMAIN changes : LostRam({changes[i]}) # {}}

AlarmsAddUp == ramAlerts + Cardinality(InPhase("alarm")) = Cardinality(Lost)

LEMMA BalancedParts ==
  /\ Balanced <=> (~lapsed => AlarmsAddUp /\ AddUp)
  /\ Balanced' <=> (~lapsed' => AlarmsAddUp' /\ AddUp')
BY DEF Balanced, AlarmsAddUp, AddUp, Adds, Lost

LEMMA CountsAre ==
  ASSUME Typed, Finite, NEW field, NEW end, NEW v
  PROVE  /\ IsFiniteSet(Written(field, end, v)) /\ Cardinality(Written(field, end, v)) \in Nat
         /\ IsFiniteSet(Recording(field, end, v)) /\ Cardinality(Recording(field, end, v)) \in Nat
<1>1. changes \in Seq(Change) /\ Len(changes) \in Nat BY DEF Typed, TypeOK
<1>2. IsFiniteSet(1..Len(changes)) BY <1>1, FS_Interval
<1>3. IsFiniteSet(Written(field, end, v)) BY <1>1, <1>2, FS_Subset DEF Written
<1>4. IsFiniteSet(Recording(field, end, v)) BY FS_Subset DEF Finite, Recording
<1> QED BY <1>3, <1>4, FS_CardinalityType

Positions(q, P) == {i \in DOMAIN q : q[i] \in P}

\* A finite set of which at most one element is in P adds at most one such change.
LEMMA AppendedOnce ==
  ASSUME NEW a \in Seq(Change), NEW S \in SUBSET Change, IsFiniteSet(S), NEW P,
         \A c, d \in S : c \in P /\ d \in P => c = d
  PROVE  LET old == Positions(a, P)
             new == Positions(a \o SetToSeq(S), P) IN
         /\ IsFiniteSet(old) /\ Cardinality(old) \in Nat
         /\ (\A c \in S : c \notin P) => Cardinality(new) = Cardinality(old)
         /\ (\E c \in S : c \in P) => Cardinality(new) = Cardinality(old) + 1
<1> DEFINE q   == SetToSeq(S)
           n   == Cardinality(S)
           b   == a \o q
           old == {i \in DOMAIN a : a[i] \in P}
           new == {i \in DOMAIN b : b[i] \in P}
<1>1. /\ q \in Seq(S) /\ n \in Nat /\ Len(q) = n
      /\ \A i, j \in 1..n : q[i] = q[j] => i = j
      /\ \A x \in S : \E i \in 1..n : q[i] = x
  BY SeqOfSet
<1>2. \A i \in 1..n : q[i] \in S BY <1>1
<1>3. Len(a) \in Nat /\ DOMAIN a = 1..Len(a) OBVIOUS
<1>4. q \in Seq(Change) BY <1>1
<1> HIDE DEF q, n
<1>5. /\ DOMAIN b = 1..(Len(a) + n)
      /\ \A i \in 1..Len(a) : b[i] = a[i]
      /\ \A i \in 1..n : b[Len(a) + i] = q[i]
  BY <1>1, <1>3, <1>4
<1> HIDE DEF b
<1>6. IsFiniteSet(old) /\ Cardinality(old) \in Nat
  <2>1. IsFiniteSet(1..Len(a)) BY <1>3, FS_Interval
  <2>2. old \in SUBSET (1..Len(a)) BY <1>3
  <2>3. IsFiniteSet(old) BY <2>1, <2>2, FS_Subset
  <2> QED BY <2>3, FS_CardinalityType
<1>7. \A i \in DOMAIN b : i \in 1..Len(a) \/ \E k \in 1..n : i = Len(a) + k
  <2> SUFFICES ASSUME NEW i \in DOMAIN b, i \notin 1..Len(a)
               PROVE  \E k \in 1..n : i = Len(a) + k
    OBVIOUS
  <2>1. i - Len(a) \in 1..n /\ i = Len(a) + (i - Len(a)) BY <1>1, <1>3, <1>5
  <2> QED BY <2>1
<1>8. ASSUME \A c \in S : c \notin P PROVE Cardinality(new) = Cardinality(old)
  <2>1. \A k \in 1..n : b[Len(a) + k] \notin P BY <1>2, <1>5, <1>8
  <2>2. \A i \in DOMAIN a : i \in DOMAIN b /\ b[i] = a[i] BY <1>1, <1>3, <1>5
  <2>3. new = old BY <1>3, <1>7, <2>1, <2>2
  <2> QED BY <2>3
<1>9. ASSUME NEW c \in S, c \in P PROVE Cardinality(new) = Cardinality(old) + 1
  <2>1. PICK k \in 1..n : q[k] = c BY <1>1
  <2>2. \A i \in DOMAIN a : i \in DOMAIN b /\ b[i] = a[i] BY <1>1, <1>3, <1>5
  <2>3. Len(a) + k \in DOMAIN b /\ b[Len(a) + k] = c /\ Len(a) + k \notin DOMAIN a
    BY <1>1, <1>3, <1>5, <2>1
  <2>4. ASSUME NEW j \in 1..n, b[Len(a) + j] \in P PROVE j = k
    <3>1. q[j] \in S /\ q[j] \in P BY <1>2, <1>5, <2>4
    <3>2. q[j] = q[k] BY <1>9, <2>1, <3>1
    <3> QED BY <1>1, <3>2
  <2>5. new = old \cup {Len(a) + k} BY <1>3, <1>7, <1>9, <2>2, <2>3, <2>4
  <2>6. Len(a) + k \notin old BY <2>3
  <2> QED BY <1>6, <2>5, <2>6, FS_AddElement
<1> QED BY <1>6, <1>8, <1>9 DEF b, q, Positions

LEMMA SameBalance ==
  ASSUME UNCHANGED changes, InPhase("record")' = InPhase("record"),
         \A s \in InPhase("record") : followup'[s].found = followup[s].found,
         NEW field, NEW v
  PROVE  Balance(field, v)' = Balance(field, v) /\ Lost' = Lost
<1>1. /\ Recording(field, "to", v)' = Recording(field, "to", v)
      /\ Recording(field, "from", v)' = Recording(field, "from", v)
  BY DEF Recording
<1>2. /\ Written(field, "to", v)' = Written(field, "to", v)
      /\ Written(field, "from", v)' = Written(field, "from", v)
  BY DEF Written
<1>3. Lost' = Lost BY DEF Lost
<1> QED BY <1>1, <1>2, <1>3 DEF Balance

\* The rows that are known, and what they have, stay when rows are not added.
LEMMA AddUpKept ==
  ASSUME Typed, Ages, AddUp,
         \A field \in {"ram", "cpu"} : \A v : Balance(field, v)' = Balance(field, v),
         InPhase("compare")' = InPhase("compare"),
         \A s \in InPhase("compare") : followup'[s].count = followup[s].count,
         Len(rows') = Len(rows), DOMAIN rows' = DOMAIN rows,
         \A i \in DOMAIN rows : rows'[i].hardware = rows[i].hardware,
         \A t \in Time : t <= now => machine'[t] = machine[t]
  PROVE  AddUp'
<1>1. Seen' = Seen /\ (Current' <=> Current) BY DEF Seen, Current
<1>2. Known' = Known /\ Known \subseteq DOMAIN rows BY DEF Known
<1>3. ASSUME NEW i \in DOMAIN rows, NEW field, NEW v PROVE Has(i, field, v)' = Has(i, field, v)
  <2>1. rows[i].hardware \in Time /\ rows[i].hardware <= now BY Numbers, AgeParts DEF StoredAged
  <2>2. machine'[rows'[i].hardware] = machine[rows[i].hardware] BY <2>1
  <2> QED BY <2>2 DEF Has
<1>5. ASSUME NEW field \in {"ram", "cpu"}, NEW v, Adds(field, v) PROVE Adds(field, v)'
  <2>1. Seen' \notin Known' => Balance(field, v)' = 0 BY <1>1, <1>2, <1>5 DEF Adds
  <2>2. ASSUME NEW i \in Known', \A j \in Known' : i <= j, Seen' \in Known'
        PROVE  Balance(field, v)' = Has(Seen, field, v)' - Has(i, field, v)'
    <3>1. i \in Known /\ Seen \in Known /\ \A j \in Known : i <= j BY <1>1, <1>2, <2>2
    <3>2. Balance(field, v) = Has(Seen, field, v) - Has(i, field, v) BY <1>5, <3>1 DEF Adds
    <3>3. Has(i, field, v)' = Has(i, field, v) BY <1>2, <1>3, <3>1
    <3>4. PICK k \in DOMAIN rows : k = Seen BY <1>2, <3>1
    <3>5. Has(k, field, v)' = Has(k, field, v) BY <1>3
    <3>6. Has(Seen, field, v)' = Has(Seen, field, v) BY <1>1, <3>4, <3>5 DEF Has
    <3> QED BY <3>2, <3>3, <3>6
  <2> QED BY <2>1, <2>2 DEF Adds
<1> QED BY <1>1, <1>5 DEF AddUp

LEMMA CreateSnapshotBalanced ==
  ASSUME Typed, Ages, Read, Ordered, Balanced, NEW s \in Slot, CreateSnapshot(s)
  PROVE  Balanced'
<1> SUFFICES ASSUME ~lapsed' PROVE AlarmsAddUp' /\ AddUp' BY BalancedParts
<1> DEFINE r == request[s].report
           row == Merged(request[s].base, r)
           n == Len(rows)
<1>1. /\ Len(rows') = n + 1 /\ r \in Report /\ request[s].base \in Row /\ rows' \in Seq(Row)
      /\ \A i \in DOMAIN rows : i \in DOMAIN rows' /\ rows'[i] = rows[i]
      /\ rows'[n + 1] = row
      /\ \/ r.kind = "smart" /\ UNCHANGED followup
         \/ /\ r.kind = "general" /\ Follows(s, followup'[s]) /\ followup'[s].phase = "compare"
            /\ followup'[s].count = n + 1
  BY CreateSnapshotIs
<1>2. n \in Nat /\ DOMAIN rows = 1..n /\ DOMAIN rows' = 1..(n + 1)
  BY <1>1 DEF Typed, TypeOK
<1>3. /\ ~lapsed /\ Comparing
      /\ \/ rows = <<>> /\ request[s].base = NoRow
         \/ n \in DOMAIN rows /\ request[s].base = rows[n]
  BY NewestRow
<1>4. followup[s].phase = "idle" /\ UNCHANGED <<changes, ramAlerts, machine>>
  BY AgeParts DEF CreateSnapshot, RequestAged, agentVars
<1>5. AlarmsAddUp /\ AddUp BY <1>3, BalancedParts
<1>6. \A u \in Slot : u # s => followup'[u] = followup[u] BY <1>1 DEF Follows
<1>7. /\ InPhase("record")' = InPhase("record") /\ InPhase("alarm")' = InPhase("alarm")
      /\ \A u \in InPhase("record") : followup'[u].found = followup[u].found
      /\ InPhase("compare")' = IF r.kind = "smart" THEN InPhase("compare")
                               ELSE InPhase("compare") \cup {s}
  BY <1>1, <1>4, <1>6 DEF InPhase
<1>8. \A field, v : Balance(field, v)' = Balance(field, v) /\ Lost' = Lost
  BY <1>4, <1>7, SameBalance
<1>9. AlarmsAddUp' BY <1>4, <1>5, <1>7, <1>8 DEF AlarmsAddUp
<1>10. ASSUME Current', NEW field \in {"ram", "cpu"}, NEW v \in {m[field] : m \in Machine}
       PROVE  Adds(field, v)'
  <2>1. InPhase("compare") = {}
    <3> SUFFICES ASSUME NEW u \in InPhase("compare") PROVE FALSE OBVIOUS
    <3>1. u # s /\ u \in Slot BY <1>4 DEF InPhase
    <3>2. followup'[u] = followup[u] /\ u \in InPhase("compare")' BY <1>6, <1>7, <3>1
    <3>3. followup[u].count = n + 1 BY <1>1, <1>10, <3>2 DEF Current
    <3>4. followup[u].count \in 1..n BY <1>2, <1>3 DEF Comparing
    <3> QED BY <1>2, <3>3, <3>4
  <2>2. Current /\ Seen = n BY <2>1 DEF Current, Seen
  <2>3. Adds(field, v) BY <1>5, <1>10, <2>2 DEF AddUp
  <2>4. Seen' = IF r.kind = "smart" THEN n + 1 ELSE n
    BY <1>1, <1>2, <1>7, <2>1 DEF Seen
  <2> DEFINE hw == row.hardware
  <2>5. r.kind = "smart" => hw = request[s].base.hardware BY <1>1, SectionIs DEF Section
  <2>6. NoRow.hardware = 0 BY Idle DEF Typed, TypeOK
  <2> HIDE DEF r, n, hw
  <2>7. \A i \in 1..n : i \in Known' <=> i \in Known BY <1>1, <1>2 DEF Known
  <2>8. n + 1 \in Known' <=> hw # 0 BY <1>1, <1>2 DEF Known, hw
  <2>9. Seen' \in Known' <=> n \in Known
    <3>1. CASE rows = <<>>
      <4>1. n = 0 /\ n \notin Known BY <1>2, <3>1 DEF Known, n
      <4>2. 0 \notin Known' BY <1>2 DEF Known
      <4> QED BY <1>3, <2>4, <2>5, <2>6, <2>8, <3>1, <4>1, <4>2 DEF Known
    <3>2. CASE rows # <<>>
      <4>1. n \in 1..n /\ request[s].base = rows[n] BY <1>2, <1>3, <3>2
      <4>2. n \in Known <=> rows[n].hardware # 0 BY <1>2, <4>1 DEF Known
      <4> QED BY <2>4, <2>5, <2>7, <2>8, <4>1, <4>2
    <3> QED BY <3>1, <3>2
  <2>10. ASSUME n \in Known PROVE Has(Seen, field, v)' = Has(n, field, v)
    <3>1. n \in 1..n /\ rows # <<>> BY <1>2, <2>10 DEF Known
    <3>2. request[s].base = rows[n] BY <1>3, <3>1
    <3>3. rows'[Seen'].hardware = rows[n].hardware
      BY <1>1, <2>4, <2>5, <3>1, <3>2, <1>2 DEF hw
    <3> QED BY <1>4, <3>3 DEF Has
  <2>11. Seen' \notin Known' => Balance(field, v)' = 0 BY <1>8, <2>2, <2>3, <2>9 DEF Adds
  <2>12. ASSUME NEW i \in Known', \A j \in Known' : i <= j, Seen' \in Known'
         PROVE  Balance(field, v)' = Has(Seen, field, v)' - Has(i, field, v)'
    <3>1. n \in Known /\ n \in 1..n BY <1>2, <2>9, <2>12 DEF Known
    <3>2. i <= n /\ i \in 1..(n + 1) BY <1>2, <2>7, <2>12, <3>1 DEF Known
    <3>3. i \in 1..n /\ i \in Known BY <1>2, <2>7, <2>12, <3>2
    <3>4. \A j \in Known : i <= j BY <1>2, <2>7, <2>12 DEF Known
    <3>5. Balance(field, v) = Has(n, field, v) - Has(i, field, v)
      BY <2>2, <2>3, <3>1, <3>3, <3>4 DEF Adds
    <3>6. Has(i, field, v)' = Has(i, field, v) BY <1>1, <1>2, <1>4, <3>3 DEF Has
    <3> QED BY <1>8, <2>10, <3>1, <3>5, <3>6
  <2> QED BY <2>11, <2>12 DEF Adds
<1> QED BY <1>9, <1>10 DEF AddUp

LEMMA UpdatePostureBalanced ==
  ASSUME Typed, Ages, Ordered, Balanced, NEW s \in Slot, UpdatePosture(s)
  PROVE  Balanced'
<1> SUFFICES ASSUME ~lapsed' PROVE AlarmsAddUp' /\ AddUp' BY BalancedParts
<1>1. UNCHANGED <<followup, changes, ramAlerts, machine>> BY PostureFrame DEF agentVars
<1>2. \A p : InPhase(p)' = InPhase(p) BY <1>1 DEF InPhase
<1>3. \A field, v : Balance(field, v)' = Balance(field, v) /\ Lost' = Lost
  BY <1>1, <1>2, SameBalance
<1>4. rows \in Seq(Row) /\ rows' \in Seq(Row) BY UpdatePostureIs DEF Typed, TypeOK
<1>5. ASSUME AlarmsAddUp PROVE AlarmsAddUp' BY <1>1, <1>2, <1>3, <1>5 DEF AlarmsAddUp
<1>6. CASE /\ UNCHANGED lapsed /\ Len(rows') = Len(rows)
           /\ \A i \in DOMAIN rows : /\ i \in DOMAIN rows'
                                     /\ rows'[i].hardware = rows[i].hardware
  <2>1. AlarmsAddUp /\ AddUp BY <1>6, BalancedParts
  <2>2. DOMAIN rows' = DOMAIN rows BY <1>4, <1>6
  <2>3. AddUp' BY <1>1, <1>2, <1>3, <1>6, <2>1, <2>2, AddUpKept
  <2> QED BY <1>5, <2>1, <2>3
<1>7. CASE /\ lapsed' = (lapsed \/ rows # <<>>) /\ Len(rows') = Len(rows) + 1
           /\ rows'[Len(rows')].hardware = 0
  <2>1. rows = <<>> /\ ~lapsed BY <1>7
  <2>2. AlarmsAddUp /\ AddUp /\ Comparing BY <2>1, BalancedParts, OrderedParts
  <2>3. DOMAIN rows = {} /\ DOMAIN rows' = 1..1 /\ rows'[1].hardware = 0 BY <1>4, <1>7, <2>1
  <2>4. InPhase("compare") = {} BY <2>2, <2>3 DEF Comparing
  <2>5. Current /\ Known = {} /\ Known' = {} BY <2>3, <2>4 DEF Current, Known
  <2>6. AddUp' BY <1>3, <2>2, <2>5 DEF AddUp, Adds
  <2> QED BY <1>5, <2>2, <2>6
<1> QED BY <1>6, <1>7, UpdatePostureIs

\* A comparison that is not lapsed is between the latest row and the one before it.
LEMMA ComparedWith ==
  ASSUME Typed, Rising, NEW i \in (IF Len(rows) = 1 THEN {0} ELSE Previous), rows # <<>>
  PROVE  i = Len(rows) - 1
<1>1. rows \in Seq(Row) /\ Len(rows) \in Nat /\ DOMAIN rows = 1..Len(rows) /\ Len(rows) # 0
  BY DEF Typed, TypeOK
<1>2. CASE Len(rows) = 1 BY <1>2
<1>3. CASE Len(rows) # 1
  <2>1. PICK k \in FirstOf(DOMAIN rows) : i \in FirstOf(DOMAIN rows \ {k}) BY <1>3 DEF Previous
  <2>2. /\ k \in DOMAIN rows /\ \A j \in DOMAIN rows : rows[j].at <= rows[k].at
        /\ i \in DOMAIN rows \ {k} /\ \A j \in DOMAIN rows \ {k} : rows[j].at <= rows[i].at
    BY <2>1 DEF FirstOf
  <2>3. \A j \in DOMAIN rows : rows[j].at \in Nat BY Numbers
  <2>4. k = Len(rows)
    <3>1. ~(k < Len(rows)) BY <1>1, <2>2, <2>3 DEF Rising
    <3> QED BY <1>1, <2>2, <3>1
  <2>5. Len(rows) - 1 \in DOMAIN rows \ {k}
    <3> DEFINE n == Len(rows)
    <3>1. n \in Nat /\ n # 0 /\ n # 1 /\ k = n BY <1>1, <1>3, <2>4
    <3> HIDE DEF n
    <3>2. n - 1 \in 1..n /\ n - 1 # k BY <3>1
    <3> QED BY <1>1, <3>2 DEF n
  <2>6. ~(i < Len(rows) - 1) BY <2>2, <2>3, <2>5 DEF Rising
  <2> QED BY <1>1, <2>2, <2>4, <2>6
<1> QED BY <1>2, <1>3

LEMMA CompareBalanced ==
  ASSUME Typed, Ages, Ordered, Balanced, NEW s \in Slot, Compare(s)
  PROVE  Balanced'
<1> SUFFICES ASSUME ~lapsed' PROVE AlarmsAddUp' /\ AddUp' BY BalancedParts
<1> DEFINE n == Len(rows)
<1>1. /\ ~lapsed /\ n = followup[s].count /\ followup[s].phase = "compare"
      /\ UNCHANGED <<rows, changes, ramAlerts, machine>>
  BY DEF Compare, agentVars
<1>2. Finite /\ Rising /\ Comparing /\ AlarmsAddUp /\ AddUp BY <1>1, OrderedParts, BalancedParts
<1>3. /\ s \in InPhase("compare") /\ n \in DOMAIN rows /\ rows[n].hardware = followup[s].at
      /\ n \in Known
  BY <1>1, <1>2 DEF InPhase, Comparing, Known
<1>4. n \in Nat /\ DOMAIN rows = 1..n /\ rows # <<>> BY <1>3 DEF Typed, TypeOK
<1>5. PICK i \in IF Len(rows) = 1 THEN {0} ELSE Previous :
        LET found == IF i = 0 \/ rows[i].hardware = 0 THEN {}
                     ELSE Differences(machine[rows[i].hardware], machine[followup[s].at])
        IN /\ Follows(s, followup'[s]) /\ followup'[s].found = found
           /\ followup'[s].phase = IF found = {} THEN "idle" ELSE "record"
  BY CompareIs
<1>6. i = n - 1 BY <1>2, <1>4, ComparedWith
<1> DEFINE a == machine[rows[n - 1].hardware]
           b == machine[rows[n].hardware]
           found == IF n - 1 \in Known THEN Differences(a, b) ELSE {}
<1>7. n - 1 \in Known <=> ~(i = 0 \/ rows[i].hardware = 0) BY <1>4, <1>6 DEF Known
<1>8. /\ Follows(s, followup'[s]) /\ followup'[s].found = found
      /\ followup'[s].phase = IF found = {} THEN "idle" ELSE "record"
  BY <1>3, <1>5, <1>6, <1>7
<1>9. n - 1 \in Known => a \in Machine /\ b \in Machine
  <2> SUFFICES ASSUME n - 1 \in Known PROVE a \in Machine /\ b \in Machine OBVIOUS
  <2>1. n - 1 \in DOMAIN rows BY DEF Known
  <2>2. rows[n].hardware \in Time /\ rows[n - 1].hardware \in Time BY <1>3, <2>1, Numbers
  <2> QED BY <2>2 DEF Typed, TypeOK
<1> HIDE DEF n, found
<1>10. /\ InPhase("alarm")' = InPhase("alarm")
       /\ InPhase("compare")' = InPhase("compare") \ {s}
       /\ \A u \in Slot : u # s => followup'[u] = followup[u]
  BY <1>1, <1>8 DEF InPhase, Follows
<1>11. Lost' = Lost BY <1>1 DEF Lost
<1>12. AlarmsAddUp' BY <1>1, <1>2, <1>10, <1>11 DEF AlarmsAddUp
<1>13. ASSUME NEW field, NEW end, NEW v
       PROVE  /\ Written(field, end, v)' = Written(field, end, v)
              /\ Cardinality(Recording(field, end, v)')
                   = Cardinality(Recording(field, end, v))
                       + (IF \E c \in found : c.field = field /\ c[end][field] = v THEN 1 ELSE 0)
              /\ Cardinality(Recording(field, end, v)) \in Nat
              /\ Cardinality(Written(field, end, v)) \in Nat
  <2>1. /\ IsFiniteSet(Recording(field, end, v)) /\ Cardinality(Recording(field, end, v)) \in Nat
        /\ Cardinality(Written(field, end, v)) \in Nat
    BY <1>2, CountsAre
  <2>2. Written(field, end, v)' = Written(field, end, v) BY <1>1 DEF Written
  <2>3. s \notin Recording(field, end, v) BY <1>1 DEF Recording, InPhase
  <2>4. CASE \E c \in found : c.field = field /\ c[end][field] = v
    <3>1. followup'[s].phase = "record" BY <1>8, <2>4
    <3>2. Recording(field, end, v)' = Recording(field, end, v) \cup {s}
      BY <1>8, <1>10, <2>4, <3>1 DEF Recording, InPhase
    <3>3. Cardinality(Recording(field, end, v) \cup {s}) = Cardinality(Recording(field, end, v)) + 1
      BY <2>1, <2>3, FS_AddElement
    <3> QED BY <2>1, <2>2, <2>4, <3>2, <3>3
  <2>5. CASE ~\E c \in found : c.field = field /\ c[end][field] = v
    <3>1. Recording(field, end, v)' = Recording(field, end, v)
      BY <1>1, <1>8, <1>10, <2>5 DEF Recording, InPhase
    <3> QED BY <2>1, <2>2, <2>5, <3>1
  <2> QED BY <2>4, <2>5
<1>14. ASSUME Current', NEW field \in {"ram", "cpu"}, NEW v \in {m[field] : m \in Machine}
       PROVE  Adds(field, v)'
  <2>1. InPhase("compare") = {s}
    <3> SUFFICES ASSUME NEW u \in InPhase("compare"), u # s PROVE FALSE BY <1>3
    <3>1. followup'[u] = followup[u] /\ u \in InPhase("compare")' BY <1>10 DEF InPhase
    <3>2. followup[u].count = n BY <1>1, <1>14, <3>1 DEF Current, n
    <3> QED BY <1>1, <1>2, <1>3, <3>2 DEF Comparing
  <2>2. Current /\ Seen = n - 1 /\ Seen' = n BY <1>1, <1>10, <2>1 DEF Current, Seen, n
  <2>3. Adds(field, v) BY <1>2, <1>14, <2>2 DEF AddUp
  <2>4. Known' = Known /\ \A k : Has(k, field, v)' = Has(k, field, v) BY <1>1 DEF Known, Has
  <2> DEFINE one(end) == IF \E c \in found : c.field = field /\ c[end][field] = v THEN 1 ELSE 0
  <2>5. Balance(field, v)' = Balance(field, v) + (one("to") - one("from"))
    <3> DEFINE to == one("to")
               from == one("from")
    <3>1. /\ Cardinality(Recording(field, "to", v)') = Cardinality(Recording(field, "to", v)) + to
          /\ Cardinality(Recording(field, "from", v)')
               = Cardinality(Recording(field, "from", v)) + from
          /\ Written(field, "to", v)' = Written(field, "to", v)
          /\ Written(field, "from", v)' = Written(field, "from", v)
          /\ Cardinality(Recording(field, "to", v)) \in Nat
          /\ Cardinality(Written(field, "to", v)) \in Nat
          /\ Cardinality(Recording(field, "from", v)) \in Nat
          /\ Cardinality(Written(field, "from", v)) \in Nat
      BY <1>13
    <3>2. to \in Nat /\ from \in Nat OBVIOUS
    <3> HIDE DEF to, from
    <3>3. Balance(field, v)' = Balance(field, v) + (to - from) BY <3>1, <3>2 DEF Balance
    <3> QED BY <3>3 DEF to, from
  <2>6. ASSUME NEW j \in Known, \A k \in Known : j <= k
        PROVE  Balance(field, v)' = Has(n, field, v) - Has(j, field, v)
    <3>1. CASE n - 1 \in Known
      <4>1. Balance(field, v) = Has(n - 1, field, v) - Has(j, field, v)
        BY <2>2, <2>3, <2>6, <3>1 DEF Adds
      <4>2. found = Differences(a, b) /\ a \in Machine /\ b \in Machine BY <1>9, <3>1 DEF found
      <4>3. Has(n, field, v) = (IF b[field] = v THEN 1 ELSE 0)
            /\ Has(n - 1, field, v) = (IF a[field] = v THEN 1 ELSE 0)
        BY DEF Has
      <4> HIDE DEF a, b
      <4>4. one("to") - one("from") = Has(n, field, v) - Has(n - 1, field, v)
        <5>1. /\ \A c \in found : c.from = a /\ c.to = b
              /\ (\E c \in found : c.field = field) \/ a[field] = b[field]
          BY <1>14, <4>2, DifferencesAre
        <5>2. CASE \E c \in found : c.field = field
          <6>1. (\E c \in found : c.field = field /\ c["to"][field] = v) <=> b[field] = v
            BY <5>1, <5>2
          <6>2. (\E c \in found : c.field = field /\ c["from"][field] = v) <=> a[field] = v
            BY <5>1, <5>2
          <6> QED BY <4>3, <6>1, <6>2
        <5>3. CASE ~\E c \in found : c.field = field
          BY <4>3, <5>1, <5>3
        <5> QED BY <5>2, <5>3
      <4>5. /\ Has(n, field, v) \in Int /\ Has(n - 1, field, v) \in Int /\ Has(j, field, v) \in Int
            /\ one("to") \in Int /\ one("from") \in Int
        BY DEF Has
      <4> HIDE DEF one
      <4> QED BY <2>5, <4>1, <4>4, <4>5
    <3>2. CASE n - 1 \notin Known
      <4>1. Balance(field, v) = 0 BY <2>2, <2>3, <3>2 DEF Adds
      <4>2. one("to") = 0 /\ one("from") = 0 BY <3>2 DEF found
      <4>3. j = n
        <5>1. j \in 1..n /\ j \in DOMAIN rows /\ rows[j].hardware # 0
          BY <1>3, <1>4, <2>6 DEF Known
        <5>2. ~(j < n - 1)
          <6> SUFFICES ASSUME j < n - 1 PROVE FALSE OBVIOUS
          <6>1. n - 1 \in DOMAIN rows BY <1>4, <5>1
          <6>2. rows[n - 1].hardware # 0 BY <1>2, <5>1, <6>1 DEF Rising
          <6> QED BY <3>2, <6>1, <6>2 DEF Known
        <5>3. j # n - 1 BY <2>6, <3>2
        <5> QED BY <1>4, <5>1, <5>2, <5>3
      <4>4. Has(n, field, v) \in Int BY DEF Has
      <4> HIDE DEF one
      <4> QED BY <2>5, <4>1, <4>2, <4>3, <4>4
    <3> QED BY <3>1, <3>2
  <2>7. Has(Seen, field, v)' = Has(n, field, v)
    <3>1. Has(n, field, v) = IF machine[rows[n].hardware][field] = v THEN 1 ELSE 0 BY DEF Has
    <3> QED BY <1>1, <2>2, <3>1 DEF Has
  <2>8. Seen' \in Known' BY <1>3, <2>2, <2>4
  <2>9. ASSUME NEW j \in Known', \A k \in Known' : j <= k
        PROVE  Balance(field, v)' = Has(Seen, field, v)' - Has(j, field, v)'
    BY <2>4, <2>6, <2>7, <2>9
  <2> QED BY <2>8, <2>9 DEF Adds
<1> QED BY <1>12, <1>14 DEF AddUp

\* What is written is no longer to be recorded.
LEMMA RecordedOnce ==
  ASSUME Typed, Finite, Differing, NEW s \in Slot, RecordChanges(s),
         NEW field \in {"ram", "cpu"}, NEW end \in {"from", "to"}, NEW v
  PROVE  /\ Cardinality(Written(field, end, v)') + Cardinality(Recording(field, end, v)')
              = Cardinality(Written(field, end, v)) + Cardinality(Recording(field, end, v))
<1> DEFINE S == followup[s].found
           P == {c \in Change : c.field = field /\ c[end][field] = v}
<1>1. PICK a \in Machine, b \in Machine : S = Differences(a, b)
  BY DEF RecordChanges, Differing, InPhase
<1>2. /\ S \in SUBSET Change /\ IsFiniteSet(S)
      /\ \A c, d \in S : c.field = d.field => c = d
  BY <1>1, DifferencesAre
<1>3. /\ changes \in Seq(Change) /\ changes' = changes \o SetToSeq(S) /\ changes' \in Seq(Change)
      /\ Follows(s, followup'[s]) /\ followup'[s].phase \in {"alarm", "idle"}
  BY <1>2, RecordChangesIs DEF RecordChanges, Typed, TypeOK
<1>4. s \in InPhase("record") /\ InPhase("record")' = InPhase("record") \ {s}
      /\ \A u \in Slot : u # s => followup'[u] = followup[u]
  BY <1>3 DEF RecordChanges, InPhase, Follows
<1>5. Written(field, end, v) = Positions(changes, P)
      /\ Written(field, end, v)' = Positions(changes \o SetToSeq(S), P)
  <2>1. \A i \in DOMAIN changes : changes[i] \in Change BY <1>3
  <2>2. \A i \in DOMAIN changes' : changes'[i] \in Change BY <1>3
  <2> QED BY <1>3, <2>1, <2>2 DEF Written, Positions
<1>6. \A c, d \in S : c \in P /\ d \in P => c = d BY <1>2
<1>7. /\ IsFiniteSet(Recording(field, end, v)) /\ Cardinality(Recording(field, end, v)) \in Nat
      /\ Cardinality(Written(field, end, v)) \in Nat
  BY CountsAre
<1>8. s \in Recording(field, end, v) <=> \E c \in S : c \in P
  BY <1>2, <1>4 DEF Recording
<1>9. Recording(field, end, v)' = Recording(field, end, v) \ {s}
  BY <1>4 DEF Recording, InPhase
<1>10. Cardinality(Recording(field, end, v) \ {s})
         = Cardinality(Recording(field, end, v)) - (IF \E c \in S : c \in P THEN 1 ELSE 0)
  BY <1>7, <1>8, FS_RemoveElement
<1> HIDE DEF P, S
<1>11. Cardinality(Written(field, end, v)')
         = Cardinality(Written(field, end, v)) + (IF \E c \in S : c \in P THEN 1 ELSE 0)
  <2>1. /\ (\A c \in S : c \notin P) =>
             Cardinality(Written(field, end, v)') = Cardinality(Written(field, end, v))
        /\ (\E c \in S : c \in P) =>
             Cardinality(Written(field, end, v)') = Cardinality(Written(field, end, v)) + 1
    BY <1>2, <1>3, <1>5, <1>6, AppendedOnce
  <2>2. CASE \E c \in S : c \in P BY <1>5, <1>7, <2>1, <2>2
  <2>3. CASE ~\E c \in S : c \in P BY <1>5, <1>7, <2>1, <2>3
  <2> QED BY <2>2, <2>3
<1> QED BY <1>7, <1>9, <1>10, <1>11

\* A loss of memory is written once, and its alarm is what is left of the comparison.
LEMMA RecordedLoss ==
  ASSUME Typed, Finite, Differing, AlarmsAddUp, NEW s \in Slot, RecordChanges(s)
  PROVE  AlarmsAddUp'
<1> DEFINE S == followup[s].found
           P == {c \in Change : LostRam({c}) # {}}
<1>1. PICK a \in Machine, b \in Machine : S = Differences(a, b)
  BY DEF RecordChanges, Differing, InPhase
<1>2. /\ S \in SUBSET Change /\ IsFiniteSet(S)
      /\ \A c, d \in S : c.field = d.field => c = d
  BY <1>1, DifferencesAre
<1>3. /\ changes \in Seq(Change) /\ changes' = changes \o SetToSeq(S) /\ changes' \in Seq(Change)
      /\ Follows(s, followup'[s]) /\ ramAlerts' = ramAlerts
      /\ followup'[s].phase = IF LostRam(S) # {} THEN "alarm" ELSE "idle"
  BY <1>2, RecordChangesIs DEF RecordChanges, Typed, TypeOK
<1>4. \A c : LostRam({c}) # {} <=> c.field = "ram" /\ c.to.ram < c.from.ram BY DEF LostRam
<1>5. \A c, d \in S : c \in P /\ d \in P => c = d BY <1>2, <1>4
<1>6. LostRam(S) # {} <=> \E c \in S : c \in P BY <1>2, <1>4 DEF LostRam
<1>7. Lost = Positions(changes, P) /\ Lost' = Positions(changes \o SetToSeq(S), P)
  <2>1. \A i \in DOMAIN changes : changes[i] \in Change BY <1>3
  <2>2. \A i \in DOMAIN changes' : changes'[i] \in Change BY <1>3
  <2> QED BY <1>3, <2>1, <2>2 DEF Lost, LostRam, Positions
<1>8. followup[s].phase = "record" /\ \A u \in Slot : u # s => followup'[u] = followup[u]
  BY <1>3 DEF RecordChanges, Follows
<1>9. IsFiniteSet(InPhase("alarm")) /\ Cardinality(InPhase("alarm")) \in Nat
  BY FS_CardinalityType DEF Finite
<1> HIDE DEF P, S
<1>10. /\ IsFiniteSet(Lost) /\ Cardinality(Lost) \in Nat
       /\ (\A c \in S : c \notin P) => Cardinality(Lost') = Cardinality(Lost)
       /\ (\E c \in S : c \in P) => Cardinality(Lost') = Cardinality(Lost) + 1
  BY <1>2, <1>3, <1>5, <1>7, AppendedOnce
<1>11. ramAlerts \in Nat /\ ramAlerts + Cardinality(InPhase("alarm")) = Cardinality(Lost)
  BY DEF AlarmsAddUp, Typed, TypeOK
<1>12. CASE \E c \in S : c \in P
  <2>1. Cardinality(Lost') = Cardinality(Lost) + 1 BY <1>10, <1>12
  <2>2. InPhase("alarm")' = InPhase("alarm") \cup {s} /\ s \notin InPhase("alarm")
    BY <1>3, <1>6, <1>8, <1>12 DEF InPhase
  <2>3. Cardinality(InPhase("alarm") \cup {s}) = Cardinality(InPhase("alarm")) + 1
    BY <1>9, <2>2, FS_AddElement
  <2>4. Cardinality(InPhase("alarm")') = Cardinality(InPhase("alarm")) + 1 BY <2>2, <2>3
  <2> QED BY <1>3, <1>9, <1>10, <1>11, <2>1, <2>4 DEF AlarmsAddUp
<1>13. CASE ~\E c \in S : c \in P
  <2>1. Cardinality(Lost') = Cardinality(Lost) BY <1>10, <1>13
  <2>2. InPhase("alarm")' = InPhase("alarm") BY <1>3, <1>6, <1>8, <1>13 DEF InPhase
  <2> QED BY <1>3, <1>11, <2>1, <2>2 DEF AlarmsAddUp
<1> QED BY <1>12, <1>13

LEMMA RecordChangesBalanced ==
  ASSUME Typed, Ages, Ordered, Balanced, NEW s \in Slot, RecordChanges(s)
  PROVE  Balanced'
<1> SUFFICES ASSUME ~lapsed' PROVE AlarmsAddUp' /\ AddUp' BY BalancedParts
<1>1. ~lapsed /\ UNCHANGED <<rows, machine>> /\ followup[s].phase = "record"
  BY DEF RecordChanges, agentVars
<1>2. Finite /\ Differing /\ AlarmsAddUp /\ AddUp BY <1>1, OrderedParts, BalancedParts
<1>3. IsFiniteSet(followup[s].found) BY <1>1, <1>2, DifferencesAre DEF Differing, InPhase
<1>4. /\ Follows(s, followup'[s]) /\ followup'[s].phase \in {"alarm", "idle"}
  BY <1>3, RecordChangesIs
<1>5. /\ InPhase("compare")' = InPhase("compare")
      /\ \A u \in InPhase("compare") : followup'[u].count = followup[u].count
  BY <1>1, <1>4 DEF Follows, InPhase
<1>6. ASSUME NEW field \in {"ram", "cpu"}, NEW v PROVE Balance(field, v)' = Balance(field, v)
  BY <1>2, RecordedOnce DEF Balance
<1>7. AddUp' BY <1>1, <1>2, <1>5, <1>6, AddUpKept
<1>8. AlarmsAddUp' BY <1>2, RecordedLoss
<1> QED BY <1>7, <1>8

LEMMA RaiseRamAlertBalanced ==
  ASSUME Typed, Ages, Ordered, Balanced, NEW s \in Slot, RaiseRamAlert(s)
  PROVE  Balanced'
<1> SUFFICES ASSUME ~lapsed' PROVE AlarmsAddUp' /\ AddUp' BY BalancedParts
<1>1. /\ ~lapsed /\ UNCHANGED <<rows, changes, machine>> /\ followup[s].phase = "alarm"
      /\ ramAlerts' = ramAlerts + 1 /\ ramAlerts \in Nat
  BY DEF RaiseRamAlert, agentVars, Typed, TypeOK
<1>2. Finite /\ AlarmsAddUp /\ AddUp BY <1>1, OrderedParts, BalancedParts
<1>3. Follows(s, followup'[s]) /\ followup'[s].phase = "idle"
  BY FinishIs, Idle DEF RaiseRamAlert, Typed, TypeOK
<1>4. /\ InPhase("compare")' = InPhase("compare") /\ InPhase("record")' = InPhase("record")
      /\ InPhase("alarm")' = InPhase("alarm") \ {s} /\ s \in InPhase("alarm")
      /\ \A u \in InPhase("compare") : followup'[u].count = followup[u].count
      /\ \A u \in InPhase("record") : followup'[u].found = followup[u].found
  BY <1>1, <1>3 DEF Follows, InPhase
<1>5. \A field, v : Balance(field, v)' = Balance(field, v) /\ Lost' = Lost
  BY <1>1, <1>4, SameBalance
<1>6. AddUp' BY <1>1, <1>2, <1>4, <1>5, AddUpKept
<1>7. Cardinality(InPhase("alarm") \ {s}) = Cardinality(InPhase("alarm")) - 1
      /\ Cardinality(InPhase("alarm")) \in Nat
  BY <1>2, <1>4, FS_RemoveElement, FS_CardinalityType DEF Finite
<1>8. AlarmsAddUp' BY <1>1, <1>2, <1>4, <1>5, <1>7 DEF AlarmsAddUp
<1> QED BY <1>6, <1>8

LEMMA NextBalanced ==
  ASSUME Typed, Ages, Read, Ordered, Balanced, [Next]_vars
  PROVE  Balanced'
<1>1. CASE SameComparisons /\ UNCHANGED <<rows, changes, ramAlerts, lapsed>>
  <2> SUFFICES ASSUME ~lapsed' PROVE AlarmsAddUp' /\ AddUp' BY BalancedParts
  <2>1. AlarmsAddUp /\ AddUp BY <1>1, BalancedParts
  <2>2. /\ \A p \in Comparisons : InPhase(p)' = InPhase(p)
        /\ \A p \in Comparisons : \A u \in InPhase(p) : followup'[u] = followup[u]
    BY <1>1, SamePhases
  <2>3. \A field, v : Balance(field, v)' = Balance(field, v) /\ Lost' = Lost
    BY <1>1, <2>2, SameBalance DEF Comparisons
  <2>4. AlarmsAddUp' BY <1>1, <2>1, <2>2, <2>3 DEF AlarmsAddUp, Comparisons
  <2>5. \A t \in Time : t <= now => machine'[t] = machine[t] BY Collected
  <2>6. AddUp' BY <1>1, <2>1, <2>2, <2>3, <2>5, AddUpKept DEF Comparisons
  <2> QED BY <2>4, <2>6
<1>2. CASE \E s \in Slot : CreateSnapshot(s) \/ UpdatePosture(s)
  BY <1>2, CreateSnapshotBalanced, UpdatePostureBalanced
<1>3. CASE \E s \in Slot : Compare(s) \/ RecordChanges(s) \/ RaiseRamAlert(s)
  BY <1>3, CompareBalanced, RecordChangesBalanced, RaiseRamAlertBalanced
<1>4. CASE ServerRestart
  <2> SUFFICES ASSUME ~lapsed' PROVE AlarmsAddUp' /\ AddUp' BY BalancedParts
  <2>1. /\ ~lapsed /\ \A s \in Slot : followup[s].phase \notin Comparisons
        /\ UNCHANGED <<rows, changes, ramAlerts, machine>>
    BY <1>4 DEF ServerRestart, Comparisons, agentVars
  <2>2. AlarmsAddUp /\ AddUp BY <2>1, BalancedParts
  <2>3. \A s \in Slot : followup'[s].phase = "idle"
    BY <1>4, Idle DEF ServerRestart, Typed, TypeOK
  <2>4. \A p \in Comparisons : InPhase(p) = {} /\ InPhase(p)' = {}
    BY <2>1, <2>3 DEF InPhase, Comparisons
  <2>5. \A field, v : Balance(field, v)' = Balance(field, v) /\ Lost' = Lost
    BY <2>1, <2>4, SameBalance DEF Comparisons
  <2>6. AlarmsAddUp' BY <2>1, <2>2, <2>4, <2>5 DEF AlarmsAddUp, Comparisons
  <2>7. AddUp' BY <2>1, <2>2, <2>4, <2>5, AddUpKept DEF Comparisons
  <2> QED BY <2>6, <2>7
<1> QED BY <1>1, <1>2, <1>3, <1>4, ComparisonSteps

-----------------------------------------------------------------------------
(* The invariant holds                                                      *)

LEMMA InitIInv == Init => IInv
<1> SUFFICES ASSUME Init PROVE IInv OBVIOUS
<1>1. focus \in Focus /\ now = 0 /\ 0 \in Time BY TimeIs DEF Init
<1>2. /\ \A s \in Slot : request[s] = NoRequest /\ followup[s] = NoFollowup
      /\ request \in [Slot -> RequestState] /\ followup \in [Slot -> FollowupState]
  BY <1>1, Idle DEF Init
<1>3. /\ rows = <<>> /\ DOMAIN rows = {} /\ Len(rows) = 0 /\ rows \in Seq(Row)
      /\ changes = <<>> /\ DOMAIN changes = {} /\ changes \in Seq(Change)
  BY DEF Init
<1>4. /\ \A s \in Slot : /\ request[s].phase = "idle" /\ ~request[s].heard
                         /\ request[s].report.at = 0 /\ request[s].index = 0
                         /\ request[s].base = NoRow
                         /\ followup[s].phase = "idle" /\ followup[s].at = 0
                         /\ followup[s].found = {} /\ followup[s].todo = {}
                         /\ followup[s].next = {}
      /\ NoRow.hardware = 0
  BY <1>1, <1>2, Idle
<1>5. AgentTyped
  <2>1. (CHOOSE m \in Machine : TRUE) \in Machine BY MachineAssumption
  <2> QED BY <1>1, <2>1 DEF Init, AgentTyped
<1>6. ServerTyped
  <2>1. rules \subseteq Rule BY RuleAssumption DEF Init, Seeded
  <2> QED BY <1>3, <2>1 DEF Init, ServerTyped
<1>7. HistoryTyped
  <2>1. due \in [Section -> Time] BY <1>1 DEF Init
  <2>2. faults \in 0..MaxFaults /\ edits \in 0..MaxEdits BY BoundAssumption DEF Init
  <2> QED BY <1>1, <2>1, <2>2 DEF Init, HistoryTyped
<1>8. \A s \in Slot : RequestTyped(s) /\ FollowupTyped(s)
  BY <1>3, <1>4 DEF RequestTyped, FollowupTyped
<1>9. Typed BY <1>2, <1>5, <1>6, <1>7, <1>8, TypeParts
<1>10. Ages BY <1>1, <1>3, <1>4 DEF Init, Ages
<1>11. Examining /\ Alone BY <1>4 DEF Init, Examining, Alone
<1>12. Shown
  <2>1. \A k \in Section : due[k] = 0 BY DEF Init
  <2> QED BY <2>1 DEF Shown, Section
<1>13. Read BY <1>4 DEF Read
<1>14. Believing BY <1>4 DEF Init, Believing
<1>15. Straight
  <2>1. software[0] = {} /\ trail = {} BY <1>1 DEF Init
  <2>2. Leads(last) BY <1>1, <2>1 DEF Init, Leads
  <2>3. Listed BY <2>2 DEF Init, Listed
  <2>4. Asked BY <1>4 DEF Init, Asked
  <2> QED BY <2>1, <2>3, <2>4, StraightParts
<1>16. \A p \in Comparisons : InPhase(p) = {} BY <1>4 DEF InPhase, Comparisons
<1>17. Ordered
  <2>1. Finite BY <1>16, FS_EmptySet DEF Finite, Comparisons
  <2>2. Differing /\ Comparing BY <1>16 DEF Differing, Comparing, Comparisons
  <2>3. Rising BY <1>3 DEF Rising
  <2> QED BY <2>1, <2>2, <2>3, OrderedParts
<1>18. Balanced
  <2>1. Lost = {} /\ Known = {} BY <1>3 DEF Lost, Known
  <2>2. ramAlerts = 0 /\ InPhase("alarm") = {} BY <1>16 DEF Init, Comparisons
  <2>3. \A field, end, v : Written(field, end, v) = {} /\ Recording(field, end, v) = {}
    BY <1>3, <1>16 DEF Written, Recording, Comparisons
  <2>4. \A field, v : Balance(field, v) = 0 BY <2>3, FS_EmptySet DEF Balance
  <2>5. AddUp BY <2>1, <2>4 DEF AddUp, Adds
  <2>6. AlarmsAddUp BY <2>1, <2>2, FS_EmptySet DEF AlarmsAddUp
  <2> QED BY <2>5, <2>6, BalancedParts
<1> QED BY <1>9, <1>10, <1>11, <1>12, <1>13, <1>14, <1>15, <1>17, <1>18 DEF IInv

LEMMA NextIInv == IInv /\ [Next]_vars => IInv'
<1> SUFFICES ASSUME IInv, [Next]_vars PROVE IInv' OBVIOUS
<1>1. /\ Typed /\ Ages /\ Examining /\ Alone /\ Shown /\ Read
      /\ Believing /\ Straight /\ Ordered /\ Balanced
  BY DEF IInv
<1>2. Typed' /\ Ages' BY <1>1, NextTyped
<1>3. Examining' /\ Alone' BY <1>1, NextExamining
<1>4. Shown' BY <1>1, NextShown
<1>5. Read' BY <1>1, <1>2, NextRead
<1>6. Believing' BY <1>1, NextBelieving
<1>7. Straight' BY <1>1, NextStraight
<1>8. Ordered' BY <1>1, NextOrdered
<1>9. Balanced' BY <1>1, NextBalanced
<1> QED BY <1>2, <1>3, <1>4, <1>5, <1>6, <1>7, <1>8, <1>9 DEF IInv

\* Whatever reports overlap, are retried, buffered or lost, and whatever restarts: nothing is from
\* the future, snapshots, lists, rules and alerts are what requests and comparisons under way assume
\* of them, and what is recorded is what was compared.
THEOREM InventoryConsistent == Spec => []IInv
BY InitIInv, NextIInv, PTL DEF Spec

\* For any machines and any reports at the same time, out of order or retried: a section of the
\* latest snapshot shows the newest report of it that was accepted, unless a request with an
\* outdated reading of the latest snapshot, or a heartbeat or an event delivered late, may have set
\* it back.
THEOREM AcceptedShown == Spec => []AcceptedIsShown
<1>1. IInv => AcceptedIsShown BY DEF IInv, Typed, Shown, AcceptedIsShown
<1> QED BY InitIInv, NextIInv, <1>1, PTL DEF Spec

\* For any rules, lists and requests at a time: an application forbidden by a rule in force when its
\* list was evaluated has had its alert, and one at a time while no two evaluations overlap.
THEOREM ForbiddenAlerted == Spec => []ForbiddenIsAlertedOnce
<1>1. IInv => ForbiddenIsAlertedOnce
  BY DEF IInv, Examining, Alone, Forbidden, ForbiddenIsAlertedOnce
<1> QED BY InitIInv, NextIInv, <1>1, PTL DEF Spec

\* For any applications, retries, late deliveries and restarts: the list the agent believes in is
\* the one the server shows, and the trail of installations leads to it if no list went astray.
THEOREM SoftwareKnown == Spec => []KnownSoftware
<1>1. IInv => KnownSoftware
  <2> SUFFICES ASSUME IInv, last > unsure, \A r \in live : r.kind # "software"
               PROVE  /\ software[Greatest(lists)] = software[last]
                      /\ ~detour => \A a \in App :
                           LET entries == {e \in trail : e.app = a} IN
                           a \in software[last] <=>
                             \E e \in entries : e.action = "INSTALLED"
                                                  /\ \A f \in entries : f.at <= e.at
    BY DEF KnownSoftware
  <2>1. Typed /\ Ages /\ Held /\ (~detour => Listed) BY BelievingParts, StraightParts DEF IInv
  <2>2. \A r \in live : ~IsList(r) BY DEF IsList
  <2>3. last \in lists /\ \A t \in lists : t <= last BY <2>1, <2>2 DEF Held
  <2>4. Greatest(lists) = last BY <2>1, <2>3, NewestList
  <2>5. ASSUME ~detour, NEW a \in App
        PROVE  LET entries == {e \in trail : e.app = a} IN
               a \in software[last] <=>
                 \E e \in entries : e.action = "INSTALLED" /\ \A f \in entries : f.at <= e.at
    <3>1. Leads(last) BY <2>1, <2>2, <2>5 DEF Listed
    <3>2. a \in software[last] <=>
            \E e \in trail : e.app = a /\ e.action = "INSTALLED"
                               /\ \A f \in trail : f.app = a => f.at <= e.at
      BY <3>1 DEF Leads
    <3> QED BY <3>2
  <2> QED BY <2>4, <2>5
<1> QED BY InitIInv, NextIInv, <1>1, PTL DEF Spec

\* A set of numbers has a least element.
LEMMA LeastOf ==
  ASSUME NEW S \in SUBSET Nat, S # {}
  PROVE  \E i \in S : \A j \in S : i <= j
<1> DEFINE R == OpToRel(<, Nat)
<1>1. IsWellFoundedOn(R, Nat) BY NatLessThanWellFounded
<1>2. PICK i \in S : \A j \in S : ~(<<j, i>> \in R) BY <1>1, WFMin, Zenon
<1>3. \A j \in S : j < i => <<j, i>> \in R BY DEF OpToRel
<1>4. \A j \in S : ~(j < i) BY <1>2, <1>3, Zenon
<1> HIDE DEF R
<1> QED BY <1>4

\* For any machines and any partial reports, retries and requests at a time: the recorded changes
\* lead from the first machine to the latest and each loss of memory has its alert, unless a
\* comparison was lost or met another snapshot.
THEOREM ChangesComplete == Spec => []ChangesAddUp
<1>1. IInv => ChangesAddUp
  <2> DEFINE known == {i \in DOMAIN rows : rows[i].hardware # 0}
             one   == CHOOSE i \in known : \A j \in known : i <= j
             top   == CHOOSE i \in FirstOf(known) : TRUE
             n     == Len(rows)
  <2> SUFFICES ASSUME IInv, Compared, ~lapsed, known # {}
               PROVE  /\ \A field \in {"ram", "cpu"} : \A v \in {m[field] : m \in Machine} :
                           CountOf(field, "to", v) - CountOf(field, "from", v)
                             = (IF machine[rows[top].hardware][field] = v THEN 1 ELSE 0)
                                 - (IF machine[rows[one].hardware][field] = v THEN 1 ELSE 0)
                      /\ ramAlerts = Cardinality({i \in DOMAIN changes : LostRam({changes[i]}) # {}})
    BY DEF ChangesAddUp
  <2>1. Typed /\ Finite /\ Rising /\ AlarmsAddUp /\ AddUp BY OrderedParts, BalancedParts DEF IInv
  <2>2. \A p \in Comparisons : InPhase(p) = {} BY DEF Compared, Comparisons, InPhase
  <2>3. n \in Nat /\ DOMAIN rows = 1..n BY <2>1 DEF Typed, TypeOK
  <2>4. Current /\ Seen = n BY <2>2 DEF Current, Seen, Comparisons
  <2>5. known = Known /\ known \in SUBSET Nat BY <2>3 DEF Known
  <2>6. one \in known /\ \A j \in known : one <= j
    <3>1. \E i \in known : \A j \in known : i <= j BY <2>5, LeastOf
    <3> QED BY <3>1
  <2>7. n \in known
    <3>1. PICK i \in known : TRUE OBVIOUS
    <3>2. i \in 1..n /\ n \in DOMAIN rows BY <2>3, <3>1
    <3>3. rows[n].hardware # 0
      <4>1. CASE i = n BY <3>1, <4>1
      <4>2. CASE i # n
        <5>1. i < n BY <2>3, <3>2, <4>2
        <5> QED BY <2>1, <3>1, <3>2, <5>1 DEF Rising
      <4> QED BY <4>1, <4>2
    <3> QED BY <3>2, <3>3
  <2>8. top = n
    <3>1. \A i \in DOMAIN rows : rows[i].at \in Nat BY <2>1, Numbers
    <3>2. n \in FirstOf(known)
      <4> SUFFICES ASSUME NEW j \in known PROVE rows[j].at <= rows[n].at BY <2>7 DEF FirstOf
      <4>1. j = n \/ j < n BY <2>3
      <4> QED BY <2>1, <2>7, <3>1, <4>1 DEF Rising
    <3>3. ASSUME NEW i \in FirstOf(known) PROVE i = n
      <4>1. i \in known /\ rows[n].at <= rows[i].at BY <2>7, <3>3 DEF FirstOf
      <4>2. ~(i < n) BY <2>1, <2>7, <3>1, <4>1 DEF Rising
      <4> QED BY <2>3, <4>1, <4>2
    <3>4. top \in FirstOf(known) BY <3>2
    <3> QED BY <3>3, <3>4
  <2>9. ASSUME NEW field \in {"ram", "cpu"}, NEW v \in {m[field] : m \in Machine}
        PROVE  CountOf(field, "to", v) - CountOf(field, "from", v)
                 = (IF machine[rows[top].hardware][field] = v THEN 1 ELSE 0)
                     - (IF machine[rows[one].hardware][field] = v THEN 1 ELSE 0)
    <3>1. Adds(field, v) BY <2>1, <2>4, <2>9 DEF AddUp
    <3>2. \A end : Recording(field, end, v) = {} BY <2>2 DEF Recording, Comparisons
    <3>3. \A end : CountOf(field, end, v) = Cardinality(Written(field, end, v))
      BY DEF CountOf, Written
    <3>4. \A end : Cardinality(Written(field, end, v)) \in Nat BY <2>1, CountsAre
    <3>5. Balance(field, v) = CountOf(field, "to", v) - CountOf(field, "from", v)
      <4>1. \A end : Cardinality(Recording(field, end, v)) = 0 BY <3>2, FS_EmptySet
      <4> QED BY <3>3, <3>4, <4>1 DEF Balance
    <3>6. Balance(field, v) = Has(n, field, v) - Has(one, field, v)
      BY <2>4, <2>5, <2>6, <2>7, <3>1 DEF Adds
    <3> QED BY <2>8, <3>5, <3>6 DEF Has
  <2>10. ramAlerts = Cardinality({i \in DOMAIN changes : LostRam({changes[i]}) # {}})
    <3>1. ramAlerts \in Nat /\ Cardinality(InPhase("alarm")) = 0
      BY <2>1, <2>2, FS_EmptySet DEF Comparisons, Typed, TypeOK
    <3> QED BY <2>1, <3>1 DEF AlarmsAddUp, Lost
  <2> QED BY <2>9, <2>10
<1> QED BY InitIInv, NextIInv, <1>1, PTL DEF Spec
==============================================================================
