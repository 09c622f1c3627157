--------------------------- MODULE DeviceRegistry ---------------------------
(***************************************************************************)
(* The Device rows of the server and all that writes them: registration    *)
(* with a token, heartbeats, the check for silent devices, the operators'  *)
(* edits of devices and sites, the key of the tamper protection.           *)
(*                                                                         *)
(* A registration is one serializable transaction: it reads in one step    *)
(* and commits in another, and must give up if a row it writes, or what    *)
(* another registration read or created, has changed in between.  All      *)
(* other handlers read and write without a transaction.                    *)
(***************************************************************************)
EXTENDS Integers, FiniteSets, HealthScore

CONSTANTS
  Focus,       \* bound: the activities studied together, the machines that register, and
               \*   how many registrations and edits there are
  Machine,     \* computers with an agent
  Identity,    \* Identity[m]: what a machine may report, depending on what it can find out
  Customer, Site,
  Token,       \* enrollment tokens
  Quota,       \* maxDevices of the tenant
  Threshold,   \* minutes without a heartbeat after which a device is offline
  Request,     \* registrations that may overlap
  Editor,      \* edits that may overlap
  Beat,        \* heartbeats that may overlap
  None,        \* nothing is given, or the column is null
  Clear,       \* an edit sets the column to null
  Attempts,    \* how often a registration's transaction is tried
  MaxRows      \* bound: rows ever created

Activity == {"enroll", "assign", "tamper", "presence", "health"}

ASSUME FocusAssumption == Focus \subseteq
  [on : SUBSET Activity, machines : SUBSET Machine, registrations : Nat, edits : Nat]
ASSUME ThresholdAssumption == Threshold \in Nat /\ Quota \in Nat \ {0}
ASSUME PopulationAssumption == Machine # {} /\ Customer # {}
ASSUME IdentityAssumption ==
  /\ DOMAIN Identity = Machine
  /\ \A m \in Machine : \A id \in Identity[m] : id.hw \in {m, None}
ASSUME BoundAssumption == MaxRows \in Nat \ {0} /\ Attempts \in Nat \ {0}

Row    == 1..MaxRows
Minute == 0..(Threshold + 1)  \* minutes since something; more than Threshold are one
Status == {"ONLINE", "OFFLINE", "MAINTENANCE"}  \* WARNING and CRITICAL are as MAINTENANCE

VARIABLES
  focus,
  devices,   \* Device rows, with the secret of their Agent row
  tokens,    \* EnrollmentToken rows
  siteOf,    \* the customer of each site
  agent,     \* what each machine's agent has in its configuration
  request,   \* registrations under way
  edit,      \* edits under way
  beat,      \* heartbeats under way
  secrets,   \* secrets issued so far
  keys,      \* tamper keys generated so far
  created,   \* rows created so far
  edits,     \* edits so far
  score,     \* the HealthScore row, and what it was made from
  moved,     \* history: rows that were moved to another customer
  dirty,     \* history: rows whose customer or site was written on stale facts
  forced,    \* history: rows whose status was written by other than a whole heartbeat
  agreed     \* history: machines whose tamper key was current when it was sent, and
             \*   that no operator has changed since

historyVars == <<moved, dirty, forced, agreed>>
serverVars  == <<devices, tokens, siteOf, score, secrets, keys, created>>
vars == <<focus, serverVars, agent, request, edit, beat, edits, historyVars>>

NoDevice  == [customer |-> None, site |-> None, hw |-> None, serial |-> None, host |-> None,
              secret |-> 0, status |-> "OFFLINE", key |-> 0, age |-> Threshold + 1]
NoAgent   == [device |-> 0, secret |-> 0, key |-> 0]
NoRequest == [phase |-> "idle", machine |-> None, token |-> None, hw |-> None, serial |-> None,
              attempt |-> 0, found |-> 0, row |-> NoDevice, read |-> None, doomed |-> FALSE,
              secret |-> 0, abandoned |-> FALSE]
NoEdit    == [phase |-> "idle", kind |-> "device", target |-> 0, customer |-> None,
              site |-> None, status |-> None, max |-> 0, read |-> None, attached |-> {}]
NoBeat    == [phase |-> "idle", machine |-> None, device |-> 0, key |-> 0, candidate |-> 0,
              current |-> TRUE]
NoToken   == [customer |-> None, site |-> None, max |-> 0, used |-> 0, expired |-> FALSE]
NoScore   == [facts |-> None, status |-> "OFFLINE", result |-> None]

Exists(i) == i \in Row /\ devices[i] # NoDevice
Enrolled  == {i \in Row : Exists(i)}

On(activity) == activity \in focus.on

Init ==
  /\ focus \in Focus
  /\ siteOf = [s \in Site |-> CHOOSE c \in Customer : TRUE]
  /\ tokens = [t \in Token |-> NoToken]
  /\ \* Heartbeats and scores are studied with a device that is there; one of an old release
     \* has no key.
     LET m == CHOOSE n \in Machine : TRUE
         key == IF On("tamper") THEN 0 ELSE 1
         old == focus.on \cap {"tamper", "presence", "health"} # {} IN
     /\ \E status \in IF On("health") THEN Status ELSE {"OFFLINE"} :
          devices = [i \in Row |-> IF i = 1 /\ old
            THEN [NoDevice EXCEPT !.customer = CHOOSE c \in Customer : TRUE, !.hw = m, !.host = m,
                                  !.secret = 1, !.key = key, !.status = status]
            ELSE NoDevice]
     /\ agent = [n \in Machine |-> IF n = m /\ old
          THEN [device |-> 1, secret |-> 1, key |-> 0] ELSE NoAgent]
     /\ secrets = IF old THEN 1 ELSE 0
     /\ created = IF old THEN 1 ELSE 0
     /\ keys = IF old THEN key ELSE 0
  /\ edits = 0 /\ score = NoScore
  /\ request = [r \in Request |-> NoRequest]
  /\ edit = [e \in Editor |-> NoEdit]
  /\ beat = [b \in Beat |-> NoBeat]
  /\ moved = {} /\ dirty = {} /\ forced = {} /\ agreed = {}

-----------------------------------------------------------------------------
(* Registration                                                             *)

\* The agent asks with what it could find out about its machine.  It asks again when it
\* has no answer: the answer to its first request finds nobody then.
Register(r, m, t) ==
  /\ On("enroll") /\ request[r].phase = "idle" /\ tokens[t] # NoToken /\ m \in focus.machines
  /\ secrets + Cardinality({q \in Request : request[q].phase \in {"begin", "commit"}})
       < focus.registrations
  /\ \E id \in Identity[m] :
       request' = [q \in Request |->
         IF q = r THEN [NoRequest EXCEPT !.phase = "begin", !.machine = m, !.token = t,
                                         !.hw = id.hw, !.serial = id.serial]
         ELSE [request[q] EXCEPT !.abandoned = @ \/ request[q].machine = m]]
  /\ UNCHANGED <<focus, serverVars, agent, edit, beat, edits, historyVars>>

\* The rows that findFirst can return: by hardware id, else by serial number, and by
\* host name only if the machine told neither.
Identified(q, customer) ==
  LET mine == {i \in Enrolled : devices[i].customer = customer}
      byHw     == {i \in mine : q.hw # None /\ devices[i].hw = q.hw}
      bySerial == {i \in mine : q.serial # None /\ devices[i].serial = q.serial}
      byHost   == {i \in mine : q.hw = None /\ q.serial = None /\ devices[i].host = q.machine} IN
  IF byHw # {} THEN byHw ELSE IF bySerial # {} THEN bySerial ELSE byHost

Refused(t, found) ==
  \/ t.expired \/ t.used >= t.max
  \/ t.site # None /\ siteOf[t.site] # t.customer
  \/ found = 0 /\ Cardinality(Enrolled) >= Quota

\* What the transaction reads.
Begin(r) ==
  LET q == request[r]
      t == tokens[q.token]
      rows == Identified(q, t.customer) IN
  /\ q.phase = "begin"
  /\ \E i \in IF rows = {} THEN {0} ELSE rows :
       request' = [request EXCEPT ![r] =
         IF Refused(t, i) THEN NoRequest
         ELSE [q EXCEPT !.phase = "commit", !.found = i, !.read = t, !.doomed = FALSE,
                        !.row = IF i = 0 THEN NoDevice ELSE devices[i]]]
  /\ UNCHANGED <<focus, serverVars, agent, edit, beat, edits, historyVars>>

\* Another registration read what r writes: the same token, the number of devices, the
\* same row, or the absence of a row with the same identity.
Conflicts(r) == {q \in Request \ {r} :
  LET a == request[q]  b == request[r] IN
  /\ a.phase = "commit"
  /\ \/ a.token = b.token
     \/ a.found = b.found
     \/ /\ a.read.customer = b.read.customer
        /\ a.machine = b.machine \/ (a.serial = b.serial /\ a.serial # None)}

\* Mutant: the transaction runs without serializable isolation.
AlwaysSerializable(r) == TRUE

\* No registration that conflicts, and no write to the rows it updates, came between.
Serializable(r) ==
  LET q == request[r] IN
  /\ ~q.doomed
  /\ tokens[q.token] = q.read
  /\ q.found # 0 => [devices[q.found] EXCEPT !.age = q.row.age] = q.row

Kept(new, old) == IF new = None THEN old ELSE new

\* The row that a registration writes; only a new one takes the customer of the token.
Registered(q, old) ==
  [old EXCEPT !.customer = Kept(@, q.read.customer), !.site = Kept(q.read.site, @),
              !.hw = Kept(q.hw, @), !.serial = Kept(q.serial, @), !.host = q.machine,
              !.key = IF @ = 0 THEN keys + 1 ELSE @,
              !.secret = secrets + 1, !.status = "OFFLINE"]

Commit(r) ==
  LET q == request[r]
      i == IF q.found = 0 THEN created + 1 ELSE q.found
      moving == q.read.site # None /\ siteOf[q.read.site] # q.read.customer IN
  /\ q.phase = "commit" /\ Serializable(r) /\ i \in Row
  /\ devices' = [devices EXCEPT ![i] = Registered(q, devices[i])]
  /\ created' = IF q.found = 0 THEN created + 1 ELSE created
  /\ keys' = IF devices[i].key = 0 THEN keys + 1 ELSE keys
  /\ secrets' = secrets + 1
  /\ tokens' = [tokens EXCEPT ![q.token].used = @ + 1]
  /\ request' = [p \in Request |->
       IF p = r THEN [q EXCEPT !.phase = "reply", !.found = i, !.secret = secrets + 1]
       ELSE IF p \in Conflicts(r) THEN [request[p] EXCEPT !.doomed = TRUE] ELSE request[p]]
  /\ \* The site was checked by Begin, and has moved since.
     dirty' = IF moving THEN dirty \cup {i} ELSE IF q.read.site # None THEN dirty \ {i} ELSE dirty
  /\ forced' = forced \cup {i}
  /\ UNCHANGED <<focus, siteOf, score, agent, edit, beat, edits, moved, agreed>>

\* P2034: the transaction is tried again, the last time the error is answered.  (One that the
\* database gives up without need leaves the same rows as one that comes later.)
Abort(r) ==
  /\ request[r].phase = "commit" /\ ~Serializable(r)
  /\ request' = [request EXCEPT ![r] =
       IF request[r].attempt + 1 = Attempts THEN NoRequest
       ELSE [request[r] EXCEPT !.phase = "begin", !.attempt = @ + 1, !.doomed = FALSE]]
  /\ UNCHANGED <<focus, serverVars, agent, edit, beat, edits, historyVars>>

\* Only this answer tells the agent its secret.
Answered(r) ==
  LET q == request[r] IN
  /\ q.phase = "reply"
  /\ \/ /\ ~q.abandoned
        /\ agent' = [agent EXCEPT ![q.machine].device = q.found, ![q.machine].secret = q.secret]
        /\ agreed' = agreed \ {q.machine}
     \/ UNCHANGED <<agent, agreed>>  \* lost
  /\ request' = [request EXCEPT ![r] = NoRequest]
  /\ UNCHANGED <<focus, serverVars, edit, beat, edits, moved, dirty, forced>>

-----------------------------------------------------------------------------
(* Operators: tokens, devices and sites.  A handler reads, checks and       *)
(* writes in steps of its own, without a transaction.                       *)

Start(e, p) ==
  /\ edit[e].phase = "idle" /\ edits < focus.edits
  /\ edits' = edits + 1
  /\ edit' = [edit EXCEPT ![e] = p]

Goto(e, phase)  == edit' = [edit EXCEPT ![e].phase = phase]
Finish(e)       == edit' = [edit EXCEPT ![e] = NoEdit]
At(e, kind, phase) == edit[e].kind = kind /\ edit[e].phase = phase

\* The site must be one of the customer's when the request is checked.
RequestToken(e, t) ==
  /\ On("enroll") /\ tokens[t] = NoToken
  /\ \A f \in Editor : edit[f].kind = "token" => edit[f].target # t
  /\ \E customer \in Customer, max \in 1..focus.registrations,
        site \in IF On("assign") THEN Site \cup {None} ELSE {None} :
       /\ site # None => siteOf[site] = customer
       /\ Start(e, [NoEdit EXCEPT !.kind = "token", !.phase = "write", !.target = t,
                                  !.customer = customer, !.site = site, !.max = max])
  /\ UNCHANGED <<focus, serverVars, agent, request, beat, historyVars>>

CreateToken(e) ==
  LET p == edit[e] IN
  /\ At(e, "token", "write")
  /\ tokens' = [tokens EXCEPT ![p.target] =
       [NoToken EXCEPT !.customer = p.customer, !.site = p.site, !.max = p.max]]
  /\ Finish(e)
  /\ UNCHANGED <<focus, devices, siteOf, score, secrets, keys, created, agent, request, beat,
                 edits, historyVars>>

\* The token of the customers page: for one device, of no site.
CreateCompatibilityToken(t) ==
  /\ On("enroll") /\ tokens[t] = NoToken /\ edits < focus.edits
  /\ \A f \in Editor : edit[f].kind = "token" => edit[f].target # t
  /\ \E customer \in Customer :
       tokens' = [tokens EXCEPT ![t] = [NoToken EXCEPT !.customer = customer, !.max = 1]]
  /\ edits' = edits + 1
  /\ UNCHANGED <<focus, devices, siteOf, score, secrets, keys, created, agent, request, edit,
                 beat, historyVars>>

\* Revoking a token sets its end; time does the same.
RevokeToken(t) ==
  /\ tokens[t] # NoToken /\ ~tokens[t].expired /\ edits < focus.edits
  /\ tokens' = [tokens EXCEPT ![t].expired = TRUE]
  /\ edits' = edits + 1
  /\ UNCHANGED <<focus, devices, siteOf, score, secrets, keys, created, agent, request, edit,
                 beat, historyVars>>

Assignment(i) == [customer |-> devices[i].customer, site |-> devices[i].site]

\* PATCH of a device: it is read, a site is checked against the customer that the device
\* will have, and the fields that were given are written.
ReadDevice(e, i) ==
  /\ On("assign") \/ On("presence")
  /\ Exists(i)
  /\ \E customer \in IF On("assign") THEN Customer \cup {None} ELSE {None},
        site     \in IF On("assign") THEN Site \cup {None, Clear} ELSE {None},
        status   \in IF On("presence") THEN Status ELSE {None} :
       Start(e, [NoEdit EXCEPT !.phase = IF site \in Site THEN "check" ELSE "write",
                               !.kind = "device", !.target = i, !.customer = customer,
                               !.read = Assignment(i), !.site = site, !.status = status])
  /\ UNCHANGED <<focus, serverVars, agent, request, beat, historyVars>>

TargetCustomer(p) == Kept(p.customer, p.read.customer)

CheckSite(e) ==
  LET p == edit[e] IN
  /\ At(e, "device", "check")
  /\ IF siteOf[p.site] = TargetCustomer(p) THEN Goto(e, "write") ELSE Finish(e)
  /\ UNCHANGED <<focus, serverVars, agent, request, beat, edits, historyVars>>

\* Mutant: a device that moves keeps its site.
KeepsSite(p, old) == IF p.site = Clear THEN None ELSE Kept(p.site, old)

\* A device that moves to another customer without a site leaves its own.
NewSite(p, old) ==
  IF p.site = Clear THEN None
  ELSE IF p.site = None /\ p.customer # None /\ p.customer # p.read.customer THEN None
  ELSE Kept(p.site, old)

WriteDevice(e) ==
  LET p == edit[e]
      i == p.target
      old == devices[i]
      stale == \/ old.customer # p.read.customer \/ old.site # p.read.site
               \/ p.site \in Site /\ siteOf[p.site] # TargetCustomer(p) IN
  /\ At(e, "device", "write")
  /\ \/ /\ Exists(i)
        /\ devices' = [devices EXCEPT
             ![i].customer = Kept(p.customer, @), ![i].site = NewSite(p, @),
             ![i].status = Kept(p.status, @)]
        /\ moved'  = IF devices'[i].customer # old.customer THEN moved \cup {i} ELSE moved
        /\ dirty'  = IF stale THEN dirty \cup {i}
                     ELSE IF p.site # None \/ TargetCustomer(p) # old.customer THEN dirty \ {i}
                     ELSE dirty
        /\ forced' = IF p.status # None THEN forced \cup {i} ELSE forced
     \/ ~Exists(i) /\ UNCHANGED <<devices, moved, dirty, forced>>
  /\ Finish(e)
  /\ UNCHANGED <<focus, tokens, siteOf, score, secrets, keys, created, agent, request, beat,
                 edits, agreed>>

DeleteDevice(i) ==
  /\ On("assign") \/ On("tamper")
  /\ Exists(i) /\ edits < focus.edits
  /\ devices' = [devices EXCEPT ![i] = NoDevice]
  /\ edits' = edits + 1
  /\ moved' = moved \ {i} /\ dirty' = dirty \ {i} /\ forced' = forced \ {i}
  /\ agreed' = {m \in agreed : agent[m].device # i}
  /\ UNCHANGED <<focus, tokens, siteOf, score, secrets, keys, created, agent, request, edit,
                 beat>>

Attached(s) == {i \in Enrolled : devices[i].site = s}

\* PATCH of a site: a customer other than the one it was read with is given only to a site
\* that no device is attached to when they are counted.
ReadSite(e, s) ==
  /\ On("assign")
  /\ \E customer \in Customer :
       Start(e, [NoEdit EXCEPT !.phase = IF siteOf[s] = customer THEN "write" ELSE "count",
                               !.kind = "site", !.target = s, !.read = siteOf[s],
                               !.customer = customer, !.attached = Attached(s)])
  /\ UNCHANGED <<focus, serverVars, agent, request, beat, historyVars>>

CountDevices(e) ==
  LET p == edit[e] IN
  /\ At(e, "site", "count")
  /\ IF Attached(p.target) = {}
     THEN edit' = [edit EXCEPT ![e].phase = "write", ![e].attached = {}]
     ELSE Finish(e)
  /\ UNCHANGED <<focus, serverVars, agent, request, beat, edits, historyVars>>

WriteSite(e) ==
  LET p == edit[e]
      s == p.target
      late == IF siteOf[s] # p.read THEN Attached(s) ELSE Attached(s) \ p.attached IN
  /\ At(e, "site", "write")
  /\ siteOf' = [siteOf EXCEPT ![s] = p.customer]
  /\ dirty' = IF p.customer = siteOf[s] THEN dirty ELSE dirty \cup late
  /\ Finish(e)
  /\ UNCHANGED <<focus, devices, tokens, score, secrets, keys, created, agent, request, beat,
                 edits, moved, forced, agreed>>

-----------------------------------------------------------------------------
(* Heartbeats and the key of the tamper protection                          *)

Younger(a, b) == IF a < b THEN a ELSE b

\* A request carries a signature made with the secret of the agent.
Authentic(m) == Exists(agent[m].device) /\ devices[agent[m].device].secret = agent[m].secret

\* The heartbeat is stored with the time it was made: one from the buffer is old.
Heartbeat(b, m) ==
  LET i == agent[m].device IN
  /\ On("tamper") \/ On("presence")
  /\ beat[b].phase = "idle" /\ Authentic(m)
  /\ \E age \in IF On("presence") THEN Minute ELSE {0} :
       devices' = [devices EXCEPT ![i].age = Younger(age, @)]
  /\ beat' = [beat EXCEPT ![b] = [NoBeat EXCEPT !.phase = "update", !.machine = m, !.device = i]]
  /\ UNCHANGED <<focus, tokens, siteOf, score, secrets, keys, created, agent, request, edit,
                 edits, historyVars>>

\* The device is shown ONLINE, whatever it was, and its key is read.
UpdateDevice(b) ==
  LET i == beat[b].device IN
  /\ beat[b].phase = "update"
  /\ \/ /\ Exists(i)
        /\ devices' = [devices EXCEPT ![i].status = "ONLINE"]
        /\ beat' = [beat EXCEPT ![b].key = devices[i].key, ![b].current = TRUE,
                                ![b].phase = IF devices[i].key = 0 THEN "provision" ELSE "answer"]
        /\ forced' = forced \ {i}
     \/ ~Exists(i) /\ beat' = [beat EXCEPT ![b] = NoBeat] /\ UNCHANGED <<devices, forced>>
  /\ UNCHANGED <<focus, tokens, siteOf, score, secrets, keys, created, agent, request, edit,
                 edits, moved, dirty, agreed>>

\* A device without a key is given one, unless it has one by now.
ProvisionKey(b) ==
  LET i == beat[b].device IN
  /\ beat[b].phase = "provision"
  /\ keys' = keys + 1
  /\ devices' = IF Exists(i) /\ devices[i].key = 0
                THEN [devices EXCEPT ![i].key = keys + 1] ELSE devices
  /\ beat' = [beat EXCEPT ![b].phase = "reread", ![b].candidate = keys + 1]
  /\ UNCHANGED <<focus, tokens, siteOf, score, secrets, created, agent, request, edit, edits,
                 historyVars>>

\* Mutant: the answer carries the key that this heartbeat generated.
OwnCandidate(b) == beat[b].candidate

AuthoritativeKey(b) == devices[beat[b].device].key

RereadKey(b) ==
  /\ beat[b].phase = "reread"
  /\ beat' = [beat EXCEPT ![b].phase = "answer", ![b].key = AuthoritativeKey(b),
                          ![b].current = TRUE]
  /\ UNCHANGED <<focus, serverVars, agent, request, edit, edits, historyVars>>

\* The agent keeps the key of the answer if there is one.
AnswerHeartbeat(b) ==
  LET m == beat[b].machine
      arrives == agent[m].device = beat[b].device /\ beat[b].key # 0 IN
  /\ beat[b].phase = "answer"
  /\ agent' = [agent EXCEPT ![m].key = IF arrives THEN beat[b].key ELSE @]
  /\ agreed' = IF ~arrives THEN agreed
               ELSE IF beat[b].current /\ Exists(beat[b].device) THEN agreed \cup {m}
               ELSE agreed \ {m}
  /\ beat' = [beat EXCEPT ![b] = NoBeat]
  /\ UNCHANGED <<focus, serverVars, request, edit, edits, moved, dirty, forced>>

\* A handler that fails on its way, or whose answer is lost.
FailHeartbeat(b) ==
  /\ beat[b].phase # "idle"
  /\ beat' = [beat EXCEPT ![b] = NoBeat]
  /\ forced' = IF beat[b].phase = "update" THEN forced \cup {beat[b].device} ELSE forced
  /\ UNCHANGED <<focus, serverVars, agent, request, edit, edits, moved, dirty, agreed>>

\* An operator's write makes every key that was sent out or is on its way an old one.
SetKey(i) ==
  /\ devices' = [devices EXCEPT ![i].key = keys + 1]
  /\ keys' = keys + 1
  /\ agreed' = {m \in agreed : agent[m].device # i}
  /\ beat' = [b \in Beat |-> [beat[b] EXCEPT !.current = @ /\ beat[b].device # i]]

\* An operator who asks for the key of a device without one makes one.
ReadKey(e, i) ==
  /\ On("tamper") /\ Exists(i) /\ devices[i].key = 0
  /\ Start(e, [NoEdit EXCEPT !.kind = "key", !.phase = "write", !.target = i])
  /\ UNCHANGED <<focus, serverVars, agent, request, beat, historyVars>>

RevealKey(e) ==
  /\ At(e, "key", "write")
  /\ \/ Exists(edit[e].target) /\ SetKey(edit[e].target)
     \/ ~Exists(edit[e].target) /\ UNCHANGED <<devices, keys, agreed, beat>>
  /\ Finish(e)
  /\ UNCHANGED <<focus, tokens, siteOf, score, secrets, created, agent, request, edits, moved, dirty, forced>>

RegenerateKey(i) ==
  /\ On("tamper") /\ Exists(i) /\ edits < focus.edits
  /\ SetKey(i)
  /\ edits' = edits + 1
  /\ UNCHANGED <<focus, tokens, siteOf, score, secrets, created, agent, request, edit, moved, dirty, forced>>

-----------------------------------------------------------------------------
(* Jobs                                                                     *)

TimePasses ==
  /\ On("presence")
  /\ devices' = [i \in Row |-> [devices[i] EXCEPT !.age = Younger(@ + 1, Threshold + 1)]]
  /\ UNCHANGED <<focus, tokens, siteOf, score, secrets, keys, created, agent, request, edit,
                 beat, edits, historyVars>>

\* Mutant: a heartbeat exactly at the threshold is too old.
SilentAtThreshold(i) == devices[i].status = "ONLINE" /\ devices[i].age >= Threshold

Silent(i) == devices[i].status = "ONLINE" /\ devices[i].age > Threshold

StatusCheck ==
  /\ \E i \in Enrolled : Silent(i)
  /\ devices' = [i \in Row |-> IF Exists(i) /\ Silent(i)
                               THEN [devices[i] EXCEPT !.status = "OFFLINE"] ELSE devices[i]]
  /\ UNCHANGED <<focus, tokens, siteOf, score, secrets, keys, created, agent, request, edit,
                 beat, edits, historyVars>>

\* Bound: one score.
ScoreDevice(i) ==
  /\ On("health") /\ Exists(i) /\ score = NoScore
  /\ \E f \in Facts :
       score' = [facts |-> f, status |-> devices[i].status,
                 result |-> Score(f, devices[i].status)]
  /\ UNCHANGED <<focus, devices, tokens, siteOf, secrets, keys, created, agent, request, edit,
                 beat, edits, historyVars>>

\* A user opens a device that has no score yet, or asks for a new one.
RequestHealth(i) == ScoreDevice(i)

Registration ==
  \/ \E r \in Request, m \in Machine, t \in Token : Register(r, m, t)
  \/ \E r \in Request : Begin(r) \/ Commit(r) \/ Abort(r) \/ Answered(r)

Operator ==
  \/ \E e \in Editor, t \in Token : RequestToken(e, t)
  \/ \E t \in Token : CreateCompatibilityToken(t) \/ RevokeToken(t)
  \/ \E e \in Editor, i \in Row : ReadDevice(e, i) \/ ReadKey(e, i)
  \/ \E e \in Editor, s \in Site : ReadSite(e, s)
  \/ \E e \in Editor : CreateToken(e) \/ CheckSite(e) \/ WriteDevice(e) \/ CountDevices(e)
                       \/ WriteSite(e) \/ RevealKey(e)
  \/ \E i \in Row : DeleteDevice(i) \/ RegenerateKey(i) \/ RequestHealth(i)

Telemetry ==
  \/ \E b \in Beat, m \in Machine : Heartbeat(b, m)
  \/ \E b \in Beat : UpdateDevice(b) \/ ProvisionKey(b) \/ RereadKey(b) \/ AnswerHeartbeat(b)
                     \/ FailHeartbeat(b)

Job == TimePasses \/ StatusCheck \/ \E i \in Row : ScoreDevice(i)

Next == Registration \/ Operator \/ Telemetry \/ Job

\* The check runs every two minutes (jobs/scheduler.ts).
Spec == Init /\ [][Next]_vars /\ WF_vars(StatusCheck)

-----------------------------------------------------------------------------
(* Properties                                                               *)

TypeOK ==
  /\ focus \in Focus
  /\ \A i \in Row : /\ devices[i].customer \in Customer \cup {None}
                    /\ devices[i].site \in Site \cup {None}
                    /\ devices[i].status \in Status /\ devices[i].age \in Minute
                    /\ devices[i].secret \in 0..secrets /\ devices[i].key \in 0..keys
  /\ siteOf \in [Site -> Customer]
  /\ \A r \in Request : /\ request[r].phase \in {"idle", "begin", "commit", "reply"}
                        /\ request[r].found \in Row \cup {0}
  /\ \A e \in Editor : edit[e].kind \in {"device", "site", "token", "key"}
  /\ \A b \in Beat : beat[b].phase \in {"idle", "update", "provision", "reread", "answer"}

\* However registrations overlap and are retried: a token is used no more often than it
\* allows, the tenant has no more devices than its quota, and no two rows of one customer
\* carry one hardware id, unless an operator moved one of them there.  A machine that could
\* not read its ids and later can has two rows: only one of them carries an id.
EnrolledOnce ==
  /\ TypeOK
  /\ \A t \in Token : tokens[t].used <= tokens[t].max
  /\ Cardinality(Enrolled) <= Quota
  /\ \A i, j \in Enrolled \ moved :
       devices[i].hw # None /\ devices[i].hw = devices[j].hw
         /\ devices[i].customer = devices[j].customer => i = j

\* The site of a device is one of its customer's, whatever sequence of registrations and of
\* edits of devices, tokens and sites led there, as long as none of them wrote on facts that
\* another had changed under it.
SiteOfCustomer ==
  \A i \in Enrolled \ dirty :
    devices[i].site # None => siteOf[devices[i].site] = devices[i].customer

\* The key that an agent took from a heartbeat is the one the operators are shown, however
\* many heartbeats ran at once; only an operator who set a key after it was read, or made one
\* where there was none, parts them until the next heartbeat.
TamperKeyAgrees ==
  \A m \in agreed : Exists(agent[m].device) /\ agent[m].key = devices[agent[m].device].key

\* A device that is stored as OFFLINE though its last heartbeat is recent has a heartbeat
\* between its two writes.
OfflineIsSilent(i) ==
  devices[i].status = "OFFLINE" /\ devices[i].age <= Threshold
    => \E b \in Beat : beat[b].phase = "update" /\ beat[b].device = i

\* The presence that operators see follows the heartbeats: a device is not stored as OFFLINE
\* while its last heartbeat is recent, unless that heartbeat is between its two writes or
\* failed there, or the status was set by a registration or an operator; and one that has
\* fallen silent does not stay ONLINE.
PresenceFollowsHeartbeats ==
  /\ [](\A i \in Enrolled \ forced : OfflineIsSilent(i))
  /\ []<>(\A i \in Row : ~Silent(i))

\* A score is between 0 and 100, and is 100 if and only if nothing was found.  It never falls
\* by more than the points it is explained with, no finding raises it, a device that is not
\* ONLINE is CRITICAL, and one without antivirus or with a failing disk is never OPTIMAL.
ScoreExplained ==
  score # NoScore =>
    LET s == score.result  f == score.facts IN
    /\ s.overall \in 0..100
    /\ s.overall = 100 <=> s.penalties = {}
    /\ 100 - s.overall <= PointsOf(s.penalties)
    /\ \A p \in s.penalties : Overall(s.penalties \ {p}) >= s.overall
    /\ score.status # "ONLINE" => s.status = "CRITICAL"
    /\ s.status = "OPTIMAL" => f.antivirus /\ ~f.smart
=============================================================================
