------------------------------- MODULE Console -------------------------------
(***************************************************************************)
(* The dashboard in the operator's browser: one page of global variables,  *)
(* a polling timer, the page of a device with its list of remote actions   *)
(* and its tamper key, and requests whose answers arrive in any order,     *)
(* late, after the operator has gone elsewhere, or not at all.             *)
(***************************************************************************)
EXTENDS Integers, FiniteSets, Sequences, SequencesExt

CONSTANTS
  Computer,     \* the devices of the tenant
  Nobody,       \* no device
  Studies       \* bound: which kinds of calls are studied together, how many are under way at
                \*   once, how many logins and remote actions there are

Kind == {"live", "deep", "actions", "command", "key", "regenerate", "move", "evaluate"}

ASSUME StudiesAssumption ==
  Studies \subseteq [kinds : SUBSET Kind, atOnce : Nat, logins : Nat, commands : Nat]

VARIABLES
  study,
  currentActiveView, subTab,
  selectedDeviceId,   \* the device that commands are sent to
  selectedDevice,     \* the device whose name is in the confirmations
  currentDevices,
  cachedDeviceActions,
  refreshTimer,       \* actionsAutoRefreshTimer is armed
  tamperKey,          \* whose key currentDeviceTamperKey is, and isTamperKeyRevealed
  session,            \* the login whose token is in the browser, or 0
  polling,            \* pollingTimer runs
  calls,              \* the calls under way, in the order they were sent
  remote,             \* on the server: what became of the last remote action of each device
  expired, logins, commands,
  missing,            \* history: the last device opened was not in the list
  late,               \* history: devices whose key was on its way when this page was opened
  disturbed           \* history: since the actions tab was entered a list or a command was
                      \*   lost, or a list arrived after one asked for later

pageVars   == <<currentActiveView, subTab, selectedDeviceId, missing, late>>
deviceVars == <<pageVars, selectedDevice, currentDevices, tamperKey>>
listVars   == <<cachedDeviceActions, refreshTimer, disturbed>>
serverSide == <<remote, expired>>
consoleVars == <<study, deviceVars, listVars, session, polling, calls, serverSide, logins,
                 commands>>

Progress == {"none", "queued", "running", "done"}
Hidden == [of |-> Nobody, revealed |-> FALSE]

Call(kind, device, next) == [kind |-> kind, device |-> device, next |-> next, as |-> session,
                             answer |-> "", old |-> FALSE]
\* A call that is not studied is lost at once.
Sent(c) == IF c.kind \in study.kinds THEN <<c>> ELSE <<>>

\* Polls, logins and the end of sessions are studied together.
Online == "live" \in study.kinds
SubTab == IF "actions" \in study.kinds THEN {"other", "acciones"} ELSE {"other"}

ConsoleInit ==
  /\ study \in Studies
  /\ currentActiveView = "elsewhere" /\ subTab = "other"
  /\ selectedDeviceId = Nobody /\ selectedDevice = Nobody
  /\ cachedDeviceActions = [of |-> Nobody, state |-> "none"] /\ refreshTimer = FALSE
  /\ tamperKey = Hidden
  /\ remote = [d \in Computer |-> "none"]
  /\ expired = {} /\ commands = 0 /\ missing = FALSE /\ late = {} /\ disturbed = FALSE
  \* With a token left from an earlier visit the page fetches its data and starts to poll; what
  \* follows the first poll is studied from there.
  /\ \E s \in IF Online THEN {0, 1} ELSE {1} : session = s /\ logins = s
  /\ polling = ~Online
  /\ currentDevices = IF Online THEN {} ELSE Computer
  /\ calls = IF session = 0 THEN <<>> ELSE Sent(Call("live", Nobody, "poll"))

-----------------------------------------------------------------------------
(* The pages                                                                *)

Room == Len(calls') <= study.atOnce

\* Loading the actions of the device with this id: nothing is sent without a token.
LoadActions(id) == IF session = 0 THEN <<>> ELSE Sent(Call("actions", id, ""))

KeyKinds == {"key", "regenerate"}
OnTheirWay(under) == {c.device : c \in {x \in Range(under) : x.kind \in KeyKinds}}

\* openDeviceWorkspace(d), then switchDeviceSubTab(tab) where the link does that: devices is
\* the list it finds, chosen what selectedDevice is if it does not find d, under the calls
\* under way, and allowed says whether there is a token.
Open(d, tab, devices, chosen, under, allowed) ==
  LET found == d \in devices
      deep == IF found /\ allowed THEN Sent(Call("deep", d, "")) ELSE <<>>
      load == IF tab = "acciones" THEN LoadActions(d) ELSE <<>> IN
  /\ selectedDeviceId' = d
  /\ tamperKey' = Hidden
  /\ late' = OnTheirWay(under)
  /\ missing' = ~found
  /\ selectedDevice' = IF found THEN d ELSE chosen
  /\ currentActiveView' = IF found THEN "device-detail" ELSE currentActiveView
  /\ subTab' = IF found \/ tab = "acciones" THEN tab ELSE subTab
  /\ refreshTimer' = (refreshTimer /\ ~found)
  /\ calls' = under \o deep \o load
  /\ disturbed' = IF tab = "acciones" THEN load = <<>> ELSE disturbed

\* A link to a device: from a list, the search, an alert, or a table with the actions.
OpenDevice(d, tab) ==
  /\ Open(d, tab, currentDevices, selectedDevice, calls, session # 0)
  /\ Room
  /\ UNCHANGED <<study, currentDevices, cachedDeviceActions, session, polling, serverSide,
                 logins, commands>>

SwitchSubTab(tab) ==
  /\ currentActiveView = "device-detail"
  /\ subTab' = tab
  /\ LET load == IF tab = "acciones" THEN LoadActions(selectedDeviceId) ELSE <<>> IN
     /\ calls' = calls \o load /\ Room
     /\ disturbed' = IF tab = "acciones" THEN load = <<>> ELSE disturbed
  /\ refreshTimer' = (refreshTimer /\ tab = "acciones")
  /\ UNCHANGED <<study, currentActiveView, selectedDeviceId, missing, late, selectedDevice,
                 currentDevices, tamperKey, cachedDeviceActions, session, polling, serverSide,
                 logins, commands>>

\* Another view: what belongs to the device stays as it is, the timer of its list included.
Leave ==
  /\ currentActiveView = "device-detail"
  /\ currentActiveView' = "elsewhere"
  /\ UNCHANGED <<study, subTab, selectedDeviceId, missing, late, selectedDevice, currentDevices,
                 tamperKey, listVars, session, polling, calls, serverSide, logins, commands>>

RefreshActions ==
  /\ refreshTimer
  /\ refreshTimer' = FALSE
  /\ LET load == LoadActions(selectedDeviceId) IN
     /\ calls' = calls \o load /\ Room
     /\ disturbed' = (disturbed \/ load = <<>>)
  /\ UNCHANGED <<study, deviceVars, cachedDeviceActions, session, polling, serverSide, logins,
                 commands>>

-----------------------------------------------------------------------------
(* What the operator orders on the page of a device                         *)

OnPage == currentActiveView = "device-detail" /\ selectedDevice # Nobody

Ask(kind, device) ==
  /\ OnPage /\ session # 0 /\ kind \in study.kinds
  /\ calls' = Append(calls, Call(kind, device, "")) /\ Room

\* The confirmation names selectedDevice, the command goes to selectedDeviceId.
Command ==
  /\ commands < study.commands /\ Ask("command", selectedDeviceId)
  /\ commands' = commands + 1
  /\ UNCHANGED <<study, deviceVars, listVars, session, polling, serverSide, logins>>

\* Showing the key fetches it if there is none yet.
ShowKey ==
  /\ IF ~tamperKey.revealed /\ tamperKey.of = Nobody
     THEN Ask("key", selectedDevice) /\ UNCHANGED tamperKey
     ELSE OnPage /\ "key" \in study.kinds /\ tamperKey' = [tamperKey EXCEPT !.revealed = ~@]
                 /\ UNCHANGED calls
  /\ UNCHANGED <<study, pageVars, selectedDevice, currentDevices, listVars, session, polling,
                 serverSide, logins, commands>>

Order(kind) ==
  /\ Ask(kind, selectedDevice)
  /\ UNCHANGED <<study, deviceVars, listVars, session, polling, serverSide, logins, commands>>

RegenerateTamperKey == Order("regenerate")
Move == Order("move")
Evaluate == Order("evaluate")

-----------------------------------------------------------------------------
(* The session and the polling                                              *)

Login ==
  /\ Online /\ session = 0 /\ logins < study.logins
  /\ logins' = logins + 1
  /\ session' = logins + 1
  /\ calls' = Append(calls, [Call("live", Nobody, "poll") EXCEPT !.as = logins + 1]) /\ Room
  /\ UNCHANGED <<study, deviceVars, listVars, polling, serverSide, commands>>

Logout ==
  /\ Online /\ session # 0
  /\ session' = 0 /\ polling' = FALSE
  /\ UNCHANGED <<study, deviceVars, listVars, calls, serverSide, logins, commands>>

Tick ==
  /\ Online /\ polling
  /\ IF session = 0 THEN polling' = FALSE /\ UNCHANGED calls
     ELSE calls' = Append(calls, Call("live", Nobody, "")) /\ Room /\ UNCHANGED polling
  /\ UNCHANGED <<study, deviceVars, listVars, session, serverSide, logins, commands>>

\* The choice of another interval starts the timer, whether it ran or not.
ChangeInterval ==
  /\ Online /\ currentActiveView = "elsewhere"
  /\ polling' = TRUE
  /\ UNCHANGED <<study, deviceVars, listVars, session, calls, serverSide, logins, commands>>

-----------------------------------------------------------------------------
(* The server                                                               *)

ReplyWith(i, with) == calls' = [calls EXCEPT ![i].answer = with]

\* authenticateUser: the token of this login is accepted no more.
Unauthenticated(c) == c.as \in expired

\* The list of devices is empty when the database fails: the endpoint answers as if all was
\* well.
Serve(i) ==
  LET c == calls[i] IN
  /\ c.answer = ""
  /\ IF Unauthenticated(c)
     THEN /\ ReplyWith(i, IF c.kind = "live" THEN "unauthorized" ELSE "error")
          /\ UNCHANGED remote
     ELSE \/ /\ c.kind = "live"
             /\ \E list \in {"all", "empty"} : ReplyWith(i, list)
             /\ UNCHANGED remote
          \/ /\ c.kind = "actions"
             /\ ReplyWith(i, remote[c.device])
             /\ UNCHANGED remote
          \/ /\ c.kind = "command"
             /\ ReplyWith(i, "ok")
             /\ remote' = [remote EXCEPT ![c.device] = "queued"]
          \/ /\ c.kind \notin {"live", "actions", "command"}
             /\ ReplyWith(i, "ok")
             /\ UNCHANGED remote
  /\ UNCHANGED <<study, deviceVars, listVars, session, polling, expired, logins, commands>>

\* The agent of a device takes its action, and ends it.
Progresses(d) ==
  /\ remote[d] \in {"queued", "running"}
  /\ remote' = [remote EXCEPT ![d] = IF @ = "queued" THEN "running" ELSE "done"]
  /\ UNCHANGED <<study, deviceVars, listVars, session, polling, calls, expired, logins, commands>>

ExpireSession ==
  /\ Online /\ session # 0 /\ session \notin expired
  /\ expired' = expired \cup {session}
  /\ UNCHANGED <<study, deviceVars, listVars, session, polling, calls, remote, logins, commands>>

-----------------------------------------------------------------------------
(* Answers                                                                  *)

\* The call at i ends with o: with what the server answered, or with an error, be it that the
\* server refused it or that the call or its answer was lost.
Ends(i, kind, o) ==
  /\ calls[i].kind = kind
  /\ o = "error" \/ (calls[i].answer # "" /\ o = calls[i].answer)

Others(i) == RemoveAt(calls, i)

StartsPolling(c, o) == c.next = "poll"

\* handleMoveDevice opens selectedDevice again, triggerDeviceAlertEvaluation selectedDeviceId.
Reopened(c, shown) == IF c.next = "move" THEN shown ELSE selectedDeviceId

\* The continuation of whoever awaited the fetch runs whatever the answer was.
LiveAnswered(i, o) ==
  LET c == calls[i]
      devices == CASE o = "all" -> Computer [] o = "empty" -> {} [] OTHER -> currentDevices
      shown == IF o \in {"all", "empty"} /\ currentActiveView = "device-detail"
                    /\ selectedDeviceId \in devices
               THEN selectedDeviceId ELSE selectedDevice IN
  /\ Ends(i, "live", o)
  /\ currentDevices' = devices
  /\ session' = IF o = "unauthorized" THEN 0 ELSE session
  /\ polling' = (StartsPolling(c, o) \/ (polling /\ o # "unauthorized"))
  /\ IF c.next \in {"move", "evaluate"}
     THEN Open(Reopened(c, shown), "other", devices, shown, Others(i),
               session # 0 /\ o # "unauthorized")
     ELSE /\ selectedDevice' = shown
          /\ calls' = Others(i)
          /\ UNCHANGED <<pageVars, tamperKey, refreshTimer, disturbed>>
  /\ UNCHANGED <<study, cachedDeviceActions, serverSide, logins, commands>>

\* Mutant: the answer is taken for the device on the page.
AnyDevice(c) == TRUE
SameDevice(c) == selectedDeviceId = c.device

DeepAnswered(i, o) ==
  /\ Ends(i, "deep", o)
  /\ selectedDevice' = IF o = "ok" /\ SameDevice(calls[i]) THEN calls[i].device ELSE selectedDevice
  /\ calls' = Others(i)
  /\ UNCHANGED <<study, pageVars, currentDevices, tamperKey, listVars, session, polling,
                 serverSide, logins, commands>>

\* Mutant: an action that runs is not waited for.
HasWaiting(state) == state = "queued"
HasActive(state) == state \in {"queued", "running"}

\* Lists that were asked for before this one are old from now on.
Outdated(i) == [j \in DOMAIN Others(i) |-> IF j < i THEN [calls[j] EXCEPT !.old = TRUE]
                                           ELSE Others(i)[j]]

\* The list is shown whatever device is selected by now.
ActionsAnswered(i, o) ==
  /\ Ends(i, "actions", o)
  /\ IF o = "error"
     THEN disturbed' = TRUE /\ calls' = Others(i) /\ UNCHANGED <<cachedDeviceActions, refreshTimer>>
     ELSE /\ cachedDeviceActions' = [of |-> calls[i].device, state |-> o]
          /\ refreshTimer' = HasActive(o)
          /\ disturbed' = (disturbed \/ calls[i].old)
          /\ calls' = Outdated(i)
  /\ UNCHANGED <<study, deviceVars, session, polling, serverSide, logins, commands>>

CommandAnswered(i, o) ==
  /\ Ends(i, "command", o)
  /\ LET load == IF o = "ok" THEN LoadActions(selectedDeviceId) ELSE <<>> IN
     /\ calls' = Others(i) \o load
     /\ disturbed' = (disturbed \/ load = <<>>)
  /\ UNCHANGED <<study, deviceVars, cachedDeviceActions, refreshTimer, session, polling,
                 serverSide, logins, commands>>

\* The key is kept and shown whatever device is selected by now.  One that was fetched to be
\* copied replaces the key that is kept, and is shown if that one was.
KeyAnswered(i, o) ==
  /\ \E kind \in KeyKinds : Ends(i, kind, o)
  /\ IF o = "error" THEN UNCHANGED tamperKey
     ELSE \E shown \in IF calls[i].kind = "key" THEN {TRUE, tamperKey.revealed} ELSE {TRUE} :
            tamperKey' = [of |-> calls[i].device, revealed |-> shown]
  /\ calls' = Others(i)
  /\ UNCHANGED <<study, pageVars, selectedDevice, currentDevices, listVars, session, polling,
                 serverSide, logins, commands>>

\* After a move or an evaluation the data are fetched, and then the page of the device that is
\* selected by then is opened again: at once if the token is gone.
OrderAnswered(i, o) ==
  /\ \E kind \in {"move", "evaluate"} : Ends(i, kind, o)
  /\ LET c == [Call("live", Nobody, "") EXCEPT !.next = calls[i].kind] IN
     IF o = "ok" /\ session = 0
     THEN /\ polling' = FALSE
          /\ Open(Reopened(c, selectedDevice), "other", currentDevices, selectedDevice, Others(i),
                  FALSE)
          /\ UNCHANGED <<currentDevices, cachedDeviceActions>>
     ELSE /\ calls' = IF o = "ok" THEN Append(Others(i), c) ELSE Others(i)
          /\ UNCHANGED <<deviceVars, listVars, polling>>
  /\ UNCHANGED <<study, session, serverSide, logins, commands>>

Deliver(i, o) ==
  \/ LiveAnswered(i, o) \/ DeepAnswered(i, o) \/ ActionsAnswered(i, o)
  \/ CommandAnswered(i, o) \/ KeyAnswered(i, o) \/ OrderAnswered(i, o)

Answers == {"all", "empty", "unauthorized", "ok", "error"} \cup Progress

ConsoleNext ==
  \/ \E d \in Computer : \/ \E tab \in SubTab : OpenDevice(d, tab)
                         \/ Progresses(d)
  \/ \E tab \in SubTab : SwitchSubTab(tab)
  \/ Leave \/ RefreshActions
  \/ Command \/ ShowKey \/ RegenerateTamperKey \/ Move \/ Evaluate
  \/ Login \/ Logout \/ Tick \/ ChangeInterval \/ ExpireSession
  \/ \E i \in DOMAIN calls : Serve(i) \/ \E o \in Answers : Deliver(i, o)

\* A browser ends every call, its timers fire, and agents end what they are sent.
ConsoleFairness ==
  /\ \A kind \in {"actions", "command"} :
       WF_consoleVars(\E i \in DOMAIN calls : calls[i].kind = kind /\ \E o \in Answers : Deliver(i, o))
  /\ WF_consoleVars(RefreshActions)
  /\ \A d \in Computer : WF_consoleVars(Progresses(d))

ConsoleSpec == ConsoleInit /\ [][ConsoleNext]_consoleVars /\ ConsoleFairness

-----------------------------------------------------------------------------
(* Properties                                                               *)

ConsoleTypeOK ==
  /\ study \in Studies
  /\ {selectedDeviceId, selectedDevice, tamperKey.of} \subseteq Computer \cup {Nobody}
  /\ currentDevices \subseteq Computer
  /\ cachedDeviceActions.state \in Progress /\ remote \in [Computer -> Progress]
  /\ session \in 0..logins
  /\ \A i \in DOMAIN calls : calls[i].kind \in Kind /\ calls[i].answer \in Answers \cup {""}

\* However late and in whatever order answers come: on the page of a device, the device that a
\* confirmation names is the one the command is sent to, and the key on it is that device's own.
\* Only two things break this: the last link led to a device that was missing from the list, and
\* a key that was still on its way when the page was opened.
PageOfOneDevice ==
  /\ ConsoleTypeOK
  /\ currentActiveView = "device-detail" /\ ~missing =>
       /\ selectedDevice = selectedDeviceId
       /\ tamperKey.of \in {Nobody, selectedDeviceId} \cup late

OnActionsOf(d) ==
  /\ currentActiveView = "device-detail" /\ subTab = "acciones" /\ selectedDeviceId = d
  /\ session # 0

\* A console that is logged in polls, or will when its first data are there.  An operator who
\* stays on the actions of a device sees that its action has ended, unless a list or a command
\* was lost or a list came after one asked for later: then the list stands still for good.
ConsoleCatchesUp ==
  /\ [](session # 0 => polling \/ \E c \in Range(calls) : c.kind = "live" /\ c.next = "poll")
  /\ \A d \in Computer :
       (OnActionsOf(d) /\ remote[d] = "done")
         ~> (\/ ~OnActionsOf(d) \/ disturbed
             \/ cachedDeviceActions = [of |-> d, state |-> "done"])
=============================================================================
