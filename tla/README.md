# NanoMonitor in TLA+

NanoMonitor is a monitoring product for Windows machines: a Go agent that runs
as a Windows service, a Fastify/TypeScript server with a PostgreSQL database,
and a dashboard in the browser. This directory models the parts of these
programs whose behaviour depends on interleavings, failures and restarts,
checks them with TLC on small instances, and proves the most important
safety properties with TLAPS for every size.

## The system

| part | state it keeps | operations | talks to | module |
|---|---|---|---|---|
| Remote actions (`server/src/modules/actions`) | rows of `remote_actions`; listeners of long polls in memory | create, cancel, list, poll (find, claim, listen), status report, sweep of overdue and stale rows | agent poller, patches, remediation | `RemoteActions` |
| Action poller (`agent/internal/actions/poller.go`) | action in hand; `pending_action_report.json` | poll, announce RUNNING, execute, persist the result, flush it | remote actions, executor | `RemoteActions` |
| Offline buffer (`agent/internal/buffer`) | queue in memory, `buffer` file and `.bak` | Enqueue with eviction, PeekSorted, Remove, load at start | scheduler | `PriorityBuffer` |
| Telemetry scheduler (`agent/internal/scheduler`) | event watermark file, last states, timers | eight loops that collect and send, flush of the buffer, triggers from actions | buffer, ingestion | `EventPipeline`, `Inventory`, `MetricRollup`, `PatchManagement` |
| Ingestion (`server/src/modules/agent`) | heartbeats, metrics, inventories, software, events | five POST handlers | alerts, inventory | `EventPipeline`, `Inventory`, `DeviceRegistry`, `MetricRollup` |
| Alerts (`server/src/modules/alerts`) | alert rules and alerts | evaluation of a device or of all, acknowledge, resolve, rules and overrides | remediation | `AlertEngine` |
| Auto-remediation (`server/src/modules/remediation`) | executions, the rule's mode | hand-over of alerts, propose, approve, dispatch, completion, breaker | alerts, remote actions | `Remediation` |
| Patch management (`server/src/modules/patches`, `agent/internal/patch`) | device patches, history, reboot state | report, download, install, schedule a reboot | remote actions | `PatchManagement` |
| Inventory (`server/src/modules/inventory`) | snapshots, hardware changes, lists of software, blacklist | merge of partial reports, comparison, compliance | ingestion, alerts | `Inventory` |
| Enrollment and agent authentication (`server/src/modules/enrollment`, `middleware/agent-auth.ts`) | tokens with a number of uses, agents and their secrets | create, use and revoke a token, register, verify a request | every agent request | `DeviceRegistry` |
| Devices, sites, presence (`server/src/modules/devices`, `sites`, `jobs/device-status-checker.ts`) | customer, site, status and tamper key of a device | edit, move, delete, heartbeat, status check, keys | all others | `DeviceRegistry` |
| Health score (`server/src/modules/health`) | scores | a pure function of inventory, metrics, events, status | jobs, dashboard | `HealthScore` |
| Jobs (`server/src/jobs`) | hourly and daily aggregates, retention | timers of one process | all tables | `MetricRollup`, `DeviceRegistry`, `AlertEngine` |
| Dashboard (`server/src/views/scripts/client-runtime.ts`) | global variables of one page, timers | polling, page of a device, commands, keys | all of the API | `Console` |
| Sessions of operators (`server/src/modules/auth`) | refresh tokens, a cookie | login, refresh, logout | dashboard | `Sessions` |
| Tenants, roles, installer, tray, collectors | – | administration, calls of the operating system | – | not modelled |

What is hard in it:

* the server's handlers are interleaved at every `await`; the database is
  shared and most writes are conditional on a status that was read before;
* the agent's loops are goroutines that share one client and one buffer; each
  request can be lost, answered late, or processed after the agent stopped
  waiting for it, and is then retried;
* the agent keeps three small files (pending report, buffer, watermark) written
  by remove-and-rename, and can end between any two of these operations;
* the server can restart between a write and what must follow it, and starts
  work it does not wait for (evaluations, comparisons, remediations);
* jobs run on timers that do not wait for the run before;
* answers reach the dashboard in any order, after the operator has moved on;
* leases and expiry compare clocks of two machines.

`PROJECT.json` lists these hazards, each at its line, with the properties that
would catch it going wrong.

## Modules

| module | what it is |
|---|---|
| `RemoteActions` | the server's action handlers and the agent's poller, composed: rows, requests in progress, the poller's phase and file |
| `ActionLifecycle` | what they promise together: the state machine of `docs/remote-actions.md` with the executions on the device |
| `PriorityBuffer`, `MCPriorityBuffer` | the offline buffer in memory and on disk; for TLC, with the eviction loop written step by step as a reference |
| `DurableQueue` | what the buffer promises to the rest of the agent: acknowledged changes survive the end of the process |
| `EventPipeline`, `MCEventPipeline` | the way of a Windows event: event loop, watermark file, a `DurableQueue` drained by two loops, handler of `POST /agent/events` |
| `AlertEngine`, `MCAlertEngine` | the evaluation of a rule of any kind by several evaluators, beside operators, and the requests of administrators for rows that override it |
| `Remediation`, `MCRemediation` | what happens to the alerts of a rule that remediates |
| `PatchManagement` | updates of a device between operators, scans and outcomes of actions |
| `MetricRollup`, `MCMetricRollup` | samples, hourly and daily rollups, retention |
| `Inventory`, `MCInventory` | snapshots, hardware changes, software and its compliance |
| `DeviceRegistry` | the rows of devices and all that writes them: registration, heartbeats, edits, keys, jobs |
| `HealthScore` | the score of a device as a pure function |
| `Console` | one page of the dashboard, its calls and their answers |
| `Sessions` | refresh tokens and the tabs that rotate them |
| `ControlCenter`, `MCControlCenter` | registry, console and sessions in one specification |
| `RemoteActions_proofs`, `PriorityBuffer_proofs`, `EventPipeline_proofs`, `Remediation_proofs`, `PatchManagement_proofs`, `Inventory_proofs` | inductive invariants and theorems about these modules |
| `ServerJobs_proofs` | the same about `AlertEngine` and `MetricRollup`, the jobs whose runs may overlap |
| `ControlCenter_proofs` | the same about `ControlCenter`, with `DeviceRegistry`, `HealthScore`, `Console` and `Sessions` |

How they compose. `EventPipeline` uses the actions of `DurableQueue` (`Put`,
`Take`, `Crash`, `Start`) for its buffer, and `PriorityBuffer` is shown to
implement `DurableQueue`: the pipeline is checked against what the buffer
promises, and the buffer against its files, without either carrying the other's
state. `RemoteActions` is shown to implement `ActionLifecycle`; `Remediation`
and `PatchManagement` see of an action what that life cycle allows (sent, ended
well or badly, withdrawn, given up), in any order with their own steps.
`Remediation` in turn does to an alert what `AlertEngine` calls `Remediated`.
`DeviceRegistry` computes scores with `HealthScore`.

Two conventions. A variable or definition marked *history* records what really
happened: no action's guard reads it, it only lets a property name an accident.
A CONSTANT marked *bound* limits how often something happens and stands for
nothing in the code. Definitions marked *Mutant* are plausible errors; nothing
uses them, they document which change of the code each property would notice.

### RemoteActions

One device. `status` and `leaseExpired` are the columns of the row that decide
something; `overdue`, `redeliverable` and `stale` are the three comparisons the
code makes with its clock (past `expiresAt`, past the delivery lease of 60 s,
past the execution lease of 2 h), each of which becomes true by a step of time.
QUEUED is a status no code ever writes and is left out.

A request lives in a slot. `req[s].phase` is the place in the handler where it
waits: `poll` (not started), `found` (row read, not claimed), `none` and
`listen` (long poll), `woken` (event received), `report` (not started), `write`
(row read and checked), `settle` (row written, outcome not applied). Each
access to the database that another handler can get in front of is a step of
its own; steps nothing can disturb are merged. `emitting` and `owed` are the
events and follow-ups the process still has to do, and are lost in a restart.

The poller is a sequence of phases (`pc`) with at most one request it waits
for (`call`). A request it gave up stays in its slot and may be processed
later, which is how late and duplicated messages arise. `disk` is
`pending_action_report.json`; it is the only thing that survives `AgentCrash`.

`runs`, `outcome`, `acked`, `settled` and `reconciled` record what really
happened. No action reads them except `AgentPersist`, which reports `outcome`.

Reduced or left out: the contents of parameters and results; the effects of
the follow-ups on patches and remediations (here one step each, `ReportSettle`
and `ReconcileAction`; `PatchManagement` and `Remediation` open them);
authentication; the
check of the contract hash, which ends a poll without an action; retries are
not counted, so that giving up is possible after any failed attempt.

### PriorityBuffer

The mutex makes every operation one step in memory. On disk, a save is three
operations (remove the backup, rename the file to the backup, rename the
temporary file to the file); `Saved` is all of them, `Unsaved` the places where
the end of the process can stop them, `SaveFails` where an error can, with the
rollback the code attempts. Loading prefers the file, falls back on the backup
and then rewrites the file in place, which can itself be interrupted (`Torn`)
or fail (`RecoverFails`).

The queue is a set ordered by id: ids are handed out in the order of
`CreatedAt` and nothing reorders the slice. `Kept` says in one line what the
eviction loop leaves; `MCPriorityBuffer` writes the loop out and the run
compares the two on every queue that arises (`KeptIsTheLoop`, a part of
`EvictedByWorth`).

Not modelled: power failures that lose synced data, and errors of reading.

`DurableQueue` is what remains when files, priorities and sizes are hidden:
`live` is the queue in memory, `stored` what the next start would load
(`OnDisk`). An error of a save, an interrupted recovery, the choice of file are
all stutters or one of its few steps. `lost` is `faults.double`: after a fault
that strikes a repair, the queue promises nothing. `Drop` is a metric that was
not accepted after others were evicted for it: they are gone from memory and
come back from disk if the process ends before the next save.

### EventPipeline

One device and one channel of the Windows log. The log is the numbers `1..tail`
of the events the agent reports (`classifyEvent` not nil); the others only move
the cursor with their neighbours. `cursor` is `lastEventRecordIDs` and exists
only while the agent runs; `wm` is `event_watermark.json`, 0 standing for a
file that is missing or holds no id, which the code treats alike.

The event loop is in one of the phases `idle`, `send`, `store`, `save`, `peek`,
`flush`; `others` stands for the heartbeat, metrics, SMART, update and
inventory loops and the staggered startup, of which the model keeps what they
have in common, the flush at the end of every round. Each loop has its own copy
of the buffer (`drain`, the result of `PeekSorted`) and waits for at most one
request (`call`). As in `RemoteActions`, a request given up stays in its slot
and the server may go on with it. A request holds the events `at..to` still to
be handled; `Find` and `Write` are the two database statements of one event,
with everything else free to happen in between.

`counted[e]` is what the database says of event e: rows for a crash, whose
`dedupKey` is its own, and occurrences for any other event. Ordinary events
share one key, the harder case: what `found` says does not matter for them,
since a new row and an increment count alike. `aged` is the window of 24 hours
in which a key is looked up.

A fault is an answer that does not arrive, a refusal, a file that cannot be
written or removed, an eviction, a day that passes, the end of the process, a
query of the log that fails; two faults (`Faults(2)`) are a rename that fails
and cannot be taken back. `first`, `rebased`, `evicted` and `refused` are
history; only `Baseline` reads `first`, to write history.

Left out: what other loops put into the buffer (its effect on events is an
eviction, which any step of `Store` may be); the security events of
`sendEventImmediate` and the branch of the handler for them, which `Inventory`
models; the number of retries, so that giving up is possible after any failure;
errors of the database in the middle of a request, which end like a request cut
short.

### AlertEngine

One device and one rule, of any kind; rules do not read each other's alerts,
so one stands for all. What telemetry says of a subject is a level: `clear`,
`fresh` (too high, but not for long enough), `band` (within the hysteresis) and
`beyond`. An evaluation reads its rule and facts, looks up active alerts
(`EvalLookup`), and acts; each is a step, and `Evaluator` many overlap (the
job, an ingestion, a click). A crash rule keeps an alert per signature and may
meet an older one without. Operators' changes of an alert look at no status,
so an acknowledged alert may have been closed before (`reopened`). `Remediated`
is a remediation that succeeded.

The rule is a general row (`general`) and the rows that override it for the
customer (`overrides`): a toggle and a POST each read the row they name
(`ToggleOverride`, `PostOverride`), look for the customer's row
(`FindOverride`), and then update it or create one (`WriteOverride`), in three
steps without a transaction; no constraint of the table keeps two of them from
each creating one (`doubled`). Dashboard and evaluator take the last row that
the database returns, in no order (`Last`), and where the general rule is
disabled the evaluator applies every row that is enabled (`EffectiveRule`). An
evaluation of several rows is one of each, which may be anywhere when the others
are; rows that apply whatever the order are `Certain`.

Left out: which query supplies a level, occurrence counts, texts, the limit of
an override.

### Remediation

One row of one rule and its alerts. `tasks` are the remediations
(`handleAlertRemediation`) and approvals under way, with a phase for each
await; an action is named by the execution and the task that sent it, so that
an approval given twice can send two. `completing` and `closing` are reports
and withdrawals still to be processed. `age` abstracts the two windows the code
measures: `new` is within the cooldown, `cooled` past it and counted by the
breaker, `old` past both. Configuration and deletion of the row, seeding at a
restart, and calls of `createAction` that fail are actions.

### PatchManagement

One device. A request (`RequestPatches`, `RequestBareAction`, `RequestReboot`)
reads the rows, prepares them, calls `createAction`, and restores them if that
fails; the outcome of the action (`Settle`) or its end without one
(`Reconcile`) is applied later. Scans of the agent are delivered in any order
and handled in two steps, `ApplyReport` and `MarkReport`. Time is the number of
scans. Policies only filter what is eligible and are covered by choosing any
eligible set of updates.

### MetricRollup

A rollup is represented by the raw rows counted in it, since its averages and
maxima are functions of them. A row is stored late, twice, or not at all. The
jobs read in one step and write in another; a timer fires whether its last run
ended or not; the server can stop and start within an hour or stay down for
several. Days have `HoursPerDay` hours. The clean-up works by the hour in which
it started and goes through the three tables one by one. Two histories name
accidents: `raced`, the runs that will write what they read before another run
of the same job and bucket wrote, and `outdated`, the days that such a run wrote
last. Left out: rows of other devices, and the sums within a rollup.

### Inventory

A section of a snapshot is represented by the time it was collected, and
`machine`, `software` remember what was there at that time. `live` are the
reports a collector waits to send, `outbox` also those in the buffer; any of
them may be delivered next, for the buffer orders only by priority and the
collectors are independent. `last` is `lastSoftwareChecksum`.
Four kinds of reports merge into one row: inventories and disk reports copy
the latest row (`Find`, `CreateSnapshot`), heartbeats overwrite the posture in
place (`StorePosture`), and an event of the security detector puts its part into
the posture that its request has read and writes back all of it
(`StoreTransition`). Neither of the last two is compared with what is stored.
The posture has two parts, the antivirus and one profile of the firewall, which
stands for the three: an event names one, and leaves the others. The agent
sends the events of a reading one by one before its heartbeat (`SentAfter`),
and has none for its first reading (`watched`). `followup` is what the handler starts and does not wait
for: the hardware comparison with its alert, and the evaluation of forbidden
software.

What the code does here and the documents do not say: of all it can compare,
`hardware-differ.ts` meets only memory and processor in what the agent sends
(the agent sends `hardware.disks`, `network.interfaces` and a flat identity,
the comparison reads `storage.disks`, `network.adapters`, `os`), so the other
branches are not modelled; more memory is recorded as ADDED; 512 MB exactly
count as a change. Entries UPDATED, for a new version of an application, are
not modelled: an application is one name. Agent and server share one clock.

### DeviceRegistry and HealthScore

The row of a device and everything that writes it. A registration is one
serializable transaction, modelled as a step that reads (`Begin`) and one that
commits unless a conflict is due (`Serializable`, with the conflicts of
`Conflicts`), tried `Attempts` times (two instead of the code's three, which
changes nothing but how often the same can happen). A spurious abort leaves the
rows as they were and is not modelled. All other handlers read and write
without transaction: `edit` holds a PATCH of a device (read, check of the site,
write), of a site (read, count of its devices, write), a new token, or a
revealed key; `beat` a heartbeat (stored, device updated, key provisioned, read
again, answered). `StatusCheck` is one `updateMany`, hence one step.

`age` is the time since the last heartbeat, in minutes, up to one past the
threshold. WARNING and CRITICAL, which nothing but an operator writes, are as
MAINTENANCE; `tamperProtectionEnabled` is always true, as no code clears it;
`lastSeenAt` is not modelled, since no decision depends on it.

`HealthScore` is the scoring function, with a fact for each case the code
tells apart: 10 368 combinations, each scored in the run for each status.

### Console

One tab of the dashboard: its global variables, timers, and the calls under
way with their answers, which arrive in any order or not at all. `Open` is
`openDeviceWorkspace`, whatever link led there. The server's part is a stub:
one aggregate state of the last action of each device (`remote`), which
`RemoteActions` models in full, and for the list of devices "all" or "empty",
the latter because `/public/live` answers 200 with an empty list when the
database fails. `Studies` says which kinds of calls are studied together; a
call of another kind is lost at once, which is one of its outcomes anyway.
`missing`, `late` and `disturbed` are the accidents the properties name.

Left out: the page of updates, cancelling of actions, the button that
recalculates a score (calls of the same pattern as those modelled), lists,
forms, charts, texts. A login is one step of the page.

### Sessions

The rows of refresh tokens, the cookie the tabs of a browser share, and the
requests to `/auth` under way. The rotation is a transaction whose
`updateMany` is a compare-and-set (`Claimed`). The deactivation of a user
between the read and the claim is not modelled. The dashboard as it is never
calls refresh or logout: this is the API's side alone.

### ControlCenter

Registry, console and sessions belong to one process and share none of the
state that is modelled, so that their product would only multiply the states.
A behaviour of `ControlSpec` studies one of the three while the others rest;
`MCControlCenter` lists the studies. Within the registry and the console the
studies combine the activities that can disturb each other.

## Runs

| run | instance | shows |
|---|---|---|
| `actions` | 1 action, 2 slots, 1 late request, 1 agent crash, 1 server fault, clocks may disagree; fairness | an action is executed at most once, its row tells the truth, follow-ups happen at most once, results arrive, actions end |
| `actions_lifecycle` | 2 actions, 1 slot, 1 crash, 1 server fault | the protocol implements `ActionLifecycle` |
| `actions_blocked` | no faults at all | violation: the poller can be blocked for ever |
| `buffer` | 4 items of priorities 1, 5, 6 and sizes 1, 2, capacity 3, 2 crashes, 1 error | durability, capacity and eviction order, and that the buffer is a `DurableQueue` |
| `pipeline` | 3 events, 1 of them history, 1 crash, 1 critical; batches of 2, 2 slots, 4 items, 2 faults; fairness | no event is forgotten, every event arrives, each is counted once without faults |
| `alerts` | 2 evaluators, 3 alerts; a rule of each class (a protection, a finding, crashes) with an override and 1 intervention; crashes under two overrides; 2 requests for overrides with 2 interventions; fairness | duplicates are bounded, a customer has one row unless two requests found none, the switch shown is applied while rows agree, alerts follow the condition |
| `remediation` | 1 alert, 2 tasks, 2 executions, 2 approvals, 1 incident | every action is authorised, executions show outcomes, one attempt at a time |
| `remediation_cooldown` | 1 alert, 1 task, no incident | violation: no cooldown after a failure |
| `patches` | 1 update, 2 requests, 1 scan report handled, 1 moment, 1 fault | nothing is stranded in progress, success is verified |
| `rollup` | 2 hourly runs, 2 daily, 1 clean-up, 2 at a time, days of 2 hours; a sample in 2 copies with an hour of outage, 6 hours; 2 samples without, 5 hours | rollups are complete and only grow |
| `inventory` | kinds of reports that write the same rows, two or three together, 2 slots, 2 machines, 2 applications, 3 collections, 1 fault | the latest snapshot shows what was accepted, changes add up, the agent's belief about software holds, forbidden software is alerted once |
| `control_center` | the studies of `MCControlCenter` | see below |

Why these bounds. Actions: one action is enough for properties of one row,
since rows only meet in the poller, which holds one at a time; two slots let an
abandoned request run beside the live one. The run with two actions covers the
order in which rows are found and the report of one pending while another is
delivered. Buffer: four items in a capacity of three force evictions across
importance and size; two crashes interrupt a save and then the recovery.
Pipeline: two events after the baseline make a batch of which one can be
handled or stored and the other not; two faults let one strike what follows
another. The proofs remove the bounds for the properties they cover. Alerts:
three rows leave room for one duplicate of each evaluator and one more; two
override rows are what two requests can create, and an intervention can delete one.
Remediation: two tasks overlap in every pair of phases. Patches: two requests
on one update meet in every order, also with a fault between them; a report may
be collected before and handled after. Rollup: six hours are three days, so
that the retention of raw rows and of hours ends within the run, and a day is
complete two hours before its end; two runs at a time overlap in every pair of
jobs. Inventory: two slots let a report
overtake another between its read and its write; three collections are a value,
another, and the first again; for the posture, a first reading, one with an event
of each part, and one after it. Control center: up to three registrations of two
machines that report the same placeholder serial number, against a quota of two
and tokens of one to three uses; a registration against three edits of tokens, devices
and sites; two heartbeats against two operators' writes; two calls of the
console in every pair of kinds that touch the same variables; two requests on
three refresh tokens.

The properties, in short:

* Actions: executed at most once (`AtMostOnce`); what the dashboard shows as
  not started was not run (`NeverRunUnlessStarted`); a final status that did
  not come from the execution lease is what happened (`HonestOutcome`); the
  report of an executed action is always acceptable
  (`ExecutedReportIsAcceptable`) and once acknowledged is what the row shows for
  ever (`AckedOutcomeIsRecorded`); a success, and a follow-up, is applied once
  (`FollowUpsOnce`); results on disk arrive and actions end (`ActionsSettle`).
* Buffer: what was accepted is on disk until removed or evicted (`Durable`; it
  excludes by name, `faults.double`, an error that strikes the repair of an
  earlier fault, for which the code promises best effort), the capacity holds
  (`WithinCapacity`), evictions are those of the code's loop and never a
  critical event before a metric (`EvictedByWorth`).
* Pipeline: an event between the first baseline and the cursor or the watermark
  is on the server, in the buffer on disk, or was given up or refused
  (`NothingForgotten`; the comment at `scheduler.go:719` asks for this);
  without faults it is counted exactly once (`ExactWithoutFaults`); in the end
  it arrives, and the buffer is emptied again and again (`EventArrives`). The
  exception is a second baseline (`rebased`).
* Alerts: no more active alerts of a subject than evaluators
  (`DuplicatesBounded`); one override of a customer at most, and the switch shown
  is the rule applied (`ShownIsApplied`), with two racing requests as the
  exception; alerts open and heal (`AlertsFollowCondition`).
* Remediation: `EveryActionAuthorised`; an execution is SUCCESS only if an action
  of it succeeded, and otherwise shows what its action did (`OutcomeShown`, whose
  exceptions are an action withdrawn before it ran, a report before the link, two
  approvals and faults); `OneAttempt`, with the overlaps it names.
* Patches: `NothingIsStranded`, `SuccessIsVerified`.
* Rollups: what was stored in its own hour is in the rollup of that hour once the
  next hour is over, and in that of its day once the next day is over, until the
  rollup is forgotten (`RollupsAreComplete`); a rollup of an hour loses rows only
  to the clean-up or to a run that was overtaken (`RollupsGrow`). The exceptions
  are outages and `outdated` days.
* Inventory: each section of the latest snapshot is that of the newest report
  accepted (`AcceptedIsShown`; exceptions: a request with an outdated reading, a
  heartbeat or event delivered late, each until a report of that section that is
  not older is accepted), `ChangesAddUp`, `KnownSoftware`, `ForbiddenIsAlertedOnce`.
* Registry: tokens, quota and no two rows of a customer with one hardware id
  under overlapping registrations (`EnrolledOnce`); a device's site is its customer's
  (`SiteOfCustomer`); agent and operators have the same tamper key
  (`TamperKeyAgrees`); the stored status follows the heartbeats
  (`PresenceFollowsHeartbeats`); scores fit their explanation
  (`ScoreExplained`).
* Console: the device confirmed is the device commanded, and the key shown is
  its key (`PageOfOneDevice`); the console polls while it is logged in, and the
  end of an action gets to the screen (`ConsoleCatchesUp`).
* Sessions: a login has at most one valid refresh token, and none after a logout
  that revoked it (`OneDescendant`).

### What the models show besides

The exceptions that properties name stand for behaviours of the code. The most
important, with what else turned up:

* **The poller can be blocked** (`actions_blocked`), and a remediation that
  failed is repeated without cooldown (`remediation_cooldown`).
* An action the agent gives up may be closed by its lease instead of being
  delivered again, and a server restart between a row's terminal write and its
  follow-up loses the follow-up.
* Two requests with the same crash, one of them given up, can record two rows
  (`agent.routes.ts:506`), and a process that ends while the watermark file is
  renamed takes a new baseline.
* An execution that is approved twice sends two actions; a report that comes
  before the link leaves its execution in EXECUTING, and so does an action that
  is cancelled or expires before it ran (`remediation.service.ts:288`): no step of
  the code closes that execution.
* Two toggles, or a toggle and a POST, of a rule that has no override for the
  customer leave two rows (`alerts.routes.ts:327`, `:406`). As long as they
  disagree, dashboard and evaluator may take different ones, and with the general
  rule disabled the evaluator applies the one that is enabled while the dashboard
  may show the other.
* A machine that could not read its hardware id and serial number when it first
  registered, and later can, gets a second row (`enrollment.routes.ts:263`).
* Edits of devices and sites that overlap can part a device from its site's
  customer (`dirty`), and an operator who asks for the tamper key of a device
  without one can overwrite the key that a heartbeat just provisioned.
* The first heartbeat of a device makes a row with the server's time, so that
  an inventory collected shortly before is acknowledged and ignored; a
  heartbeat or a security event from the buffer puts an old posture over a newer
  one, and an event that runs beside another report writes back the parts it does
  not name as they were when it read them (`agent.routes.ts:558`); a list of
  software that was buffered stays on the server if the software was changed
  back meanwhile.
* A device opened from a list that has just become empty, as it does when a
  query fails (`app.ts:210`), is not shown, but commands go to it, under a
  confirmation that names the device still on the page
  (`client-runtime.ts:1814`). A tamper key that was on its way when another
  device was opened is shown there (`:3133`). The list of actions is refreshed
  by a timer that only an answer arms, so one lost answer, or an old one that
  comes last, freezes it (`:2110`).
* A daily aggregation that is overtaken by a later run of itself writes an older
  rollup over a newer one (`daily-aggregator.ts` reads the hours and upserts the
  day in separate statements, and the timer does not wait); the day stays so
  when that was the last run for it. The hours cannot suffer that for good: every
  run for an hour begins when the hour is over, so that it has all that was
  stored in time.
* A logout that loses the race against a refresh revokes nothing: the token's
  successor stays valid (`auth.routes.ts:237`).

### Fairness

`FairSpec` of the actions assumes that the poller keeps looping (`Run` is a
loop that ends only with the service) and that its attempts to announce RUNNING
are finite (strong fairness of giving up, the code tries four times); that each
request the server started makes progress; that emitted events and follow-ups
are done; that the sweep runs while a poll waits for it, since every poll begins
with it; and that clocks advance. Nothing is assumed of operators, of
`getDeviceActions`, or of faults, which are bounded.

`FairSpec` of the pipeline assumes weak fairness of each request's handler, of
the event loop, of each flush (both are tickers that only end with the
service), and of the start of the service, which Windows starts automatically
and restarts when it fails (`service/service.go:116`, `:133`). No step of
the log, the clock or a fault is fair. `EventArrives` therefore says that after
the last fault, of which there may be any finite number, the event gets there.

`FairSpec` of the alerts assumes that evaluations begin and end, since the job
starts one for every device every two minutes (`jobs/scheduler.ts`), and that
each override row that applies whatever the order is evaluated again and again
(strong fairness, because all evaluators may be busy with another row at times):
one evaluation of the code goes through all rows that apply.

`ControlSpec` assumes that the status check runs (a timer of two minutes); that
a browser ends each call for a list or a command, with an answer or an error,
and that an armed timer fires; and that agents end what they are sent, which is
what `ActionsSettle` shows. Nothing is assumed of operators, of polling, or of
the other calls.

Liveness of remediations, patches, rollups and inventories is not stated: each
waits for an agent or an operator who may never come, or is lost in a restart,
which the safety properties account for.

## Proofs

`RemoteActions_proofs` proves, for every number of actions, slots and faults,
that `IInv` is inductive, and from it `TypeOK`, `AtMostOnce`,
`NeverRunUnlessStarted`, `HonestOutcome`, `ExecutedReportIsAcceptable` and
`AckedOutcomeIsRecorded`. None of these is inductive alone: that an action runs
at most once depends on which requests may still announce it, what the agent
holds and what lies on its disk. `IInv` therefore has a part for each:
`RowInv` (the row against what happened), `AgentInv` (phase, action in hand,
disk), `DiskInv`, `ReqInv` (what a request in a slot can carry, abandoned ones
included) and `CallInv` (the request waited for is the one that was sent). The
proof has a lemma per action that says which variables it changes and how, and
one lemma per part of the invariant over those summaries. Two theorems need more
than `IInv`. `FollowUpsDoneOnce` adds `FInv`: only a row that ended has
follow-ups, and a row that ended other than by the execution lease never changes
its status, so that a second final report is a duplicate. `LifecycleImplemented`
shows that every step of server, agent and clocks is a step of `ActionLifecycle`
or none; it adds `HandedInv`, that what the agent holds, has on disk or reports
was delivered, since else a late RUNNING could start a row that is PENDING.

`PriorityBuffer_proofs` proves, for every capacity and every number of items
and faults, that its `IInv` is inductive, and from it `TypeOK`, `Durable` and
`RemovedStaysRemoved`, and that every step of it is a step of `DurableQueue` or
leaves it alone (`BufferImplementsQueue`, by cases on the action and on what is
in the two files). The invariant says of both the queue and what the next
start would load that they are sound (nothing removed, one item per id) and
complete (everything owed), and which of the two files may be torn or missing
when. The facts on sound and complete sets are lemmas with the history as
parameters, so that they apply before and after a step.

`EventPipeline_proofs` proves, for every log, history, batch size, number of
slots and faults, that its `IInv` is inductive, and from it `TypeOK` and
`NothingForgotten`. The latter is not inductive: it is lost in the step that
moves the cursor unless one knows what the loop did before. `IInv` adds, for
each loop, that the request it waits for is its own (`CallInv`), that the
events of its batch before `at`, or before `put`, are on the server or accounted
for (`BatchInv`), that the request of a flush is for the item at its head
(`DrainInv`); for each request, that it is done only past its last event and
believes a crash recorded only if it is (`ReqInv`); and that nothing in memory
outlives the process (`DownInv`, `LogInv`). The proof first shows that the
accounts only grow (`Grows`), so that a loop that does not move keeps its
part (`BystanderInv`), and then goes through the actions. `PipelineExact` proves
`ExactWithoutFaults` from `XInv`: as long as nothing fails the buffer is empty,
the only request is the one the event loop waits for, and the events counted,
once each, are those between the baseline and the place that request has got to.

`Remediation_proofs` proves, for every number of alerts, tasks, executions,
approvals, incidents and follow-ups, that rows, actions and tasks refer to what
is there (`IInv`), and from it the three properties of the run, each with an
invariant of its own. `AInv`, for `EveryActionAuthorised`, counts the tasks that
have sent an action for an execution or are on their way to: one at most if it
is automatic, and otherwise each with an approval. `OInv`, for `OutcomeShown`,
speaks of the executions that are approved once at most: the row waits for the
task that serves it, and once it is linked it shows what became of its action,
or the follow-up that will write it is due. `MInv`, for `OneAttempt`, says that
rows are filled in order of age, and that an alert no two remediations of which
overlapped has one attempt at most within the cooldown, and none while another
is about to be created.

`PatchManagement_proofs` proves `LinksOK`, and with it that each part of
`NothingIsStranded` (`InstallingIsPursued`, `HistoryIsPursued`,
`ScheduledIsPursued`) is inductive. `SuccessIsVerified` rests on two lemmas: only
an outcome in which the agent confirmed an update shows it as installed, or its
history as a success; and a row of the history belongs to a request that has
begun, the kind of which no longer changes.

`ServerJobs_proofs` proves of the alerts `IInv`, `ShownIsApplied` and
`DuplicatesBounded`. `ShownIsApplied` rests on `Single`: unless `doubled`, a
customer has one row at most, none while a request is about to create one, and
one such request at most. The bound is a statement on cardinalities: for each rule row and subject, the
active alerts that were not reopened, and the evaluations about to create one
because they found none, are together no more than the evaluators (`QuotasOK`).
A lookup joins the sum only when it found nothing, so that the alerts there were
are gone. The alert without a signature needs a place of its own while an
evaluation holds a copy of it with one; `CopiesTrue` and `OneLegacy` say that
it is the only alert that can change its subject. This needs finitely many
evaluators, and one at least (`EvaluatorAssumption`).

Of the rollups it proves `RollupInv`, for any samples, overlapping runs, outages,
retention and length of a day, and from it `RollupsAreComplete` and
`RollupsGrow`. `Dated` and `Running` say that nothing is from the future and what
a run under way may be about. For the hours, `Kept` is what retention must not
break: as long as an hour is younger than `RawKept`, its raw rows and all that
was counted of them are there; hence a run for an hour has read everything that
was stored in time (`Complete`), and, unless it was overtaken, all that is counted
(`Growing`). `HourCounted` is the property with the state between the end of a
run and the end of its hour (`HourOver`). For the days, the run that counts is
one that begins in the last hour before the day is due: by then every hour of
the day is over and counted (`LastRun`), and no hour was forgotten, for which
`HourlyKept` must be two days at least (`RetentionAssumption`). Every later run
that was not overtaken reads as much (`LaterRun`), so that what is written last is
complete or the day is `outdated` (`DayCounted`).

`PriorityBuffer_proofs` also proves `WithinCapacity`. The code keeps a running
total of bytes; the model takes the sum over the queue, so that the proof needs
that the sum of a finite set is that of the set without an element, plus the
element. The community modules define sums by recursion over the set
(`MapThenSumSet`). That such a function exists is shown for each finite set by
taking a smallest part for which it would not (`SmallestPart`, from the library's
`WFMin`, which no prover has to instantiate with an operator); from it the sums of
one element more (`SumStep`) and of a part (`SumPart`). An accepted item fits by
the guard, an eviction only makes the sum smaller, and what the buffer finds at
its start is what it had saved.

`ControlCenter_proofs` has four parts, for a specification in which one of the
registry, the console and the sessions moves at a time. *Sessions*: `SInv` adds
to `OneDescendant` that a valid token is the only one of its login and its login
was not ended. *Console*: `PInv` says of each call under way whose device it is
for, and that what is on the screen came from a call for the device that was
open. *Registry*: `RegistryOK` types the rows and relates a registration that
has read to what it read (`RequestRow`), an edit past its check to what it
checked (`DeviceEdit`, `SiteEdit`), and every reference to the number of rows
created, so that a number of a deleted row is never that of another device. On
it rest three invariants. `OneEach` gives `EnrolledOnce`: a registration that
may still commit found room, and found the row with its machine's hardware id or
that there is none (`Good`); a commit keeps this for every registration that it does not doom,
which is what the conflicts of the serializable transaction are for.
`SitesAgree` gives `SiteOfCustomer`; its cases are the writers of devices and
sites. `KeysAgree` gives `TamperKeyAgrees`: a key in an answer on its way is
the device's, unless an operator set another after it was read. `HeardIsShown`
is the first half of `PresenceFollowsHeartbeats`: that `OfflineIsSilent` holds of
every device is inductive with `RegistryOK`; `Settled` says for one row what a step may do to it without a
device becoming OFFLINE while it is heard of. *Score*: `ScoresExplained` rests on
what one finding does to the costs and the points (`CostStep`, `PointsStep`).
The score is 100 less the costs weighted by category, cut off at 100 in each and
rounded. A finding's weighted cost is at most its points, but for
`UPDATES_STALE`, whose 35 of 15 percent are a quarter point more than its 5; the
rounding absorbs that quarter, because the finding occurs once (`LossBound`,
`PointsExplain`). A finding more raises no category (`OneLess`), and a failing
disk or a missing antivirus costs enough for a score below 90 (`Noted`). The
lemmas on sums stand in this module and in that of the buffer, since neither
extends the other.

`Inventory_proofs` proves `IInv` for any machines, applications, rules, reports
and number of requests at a time. `Typed` and `Ages` say that nothing is from the
future and which phases of a request and of its comparison go together; the rest
serves one property each. *`AcceptedIsShown`*: `Shown` is the property with the
cases in which there is no row, `Read` what a request about to write knows of
the latest row as long as none was added; a write of the posture by a heartbeat or
an event is one lemma, whatever parts it names and whatever it sets back. *`ForbiddenIsAlertedOnce`*: an
evaluation under way still owes the alerts of what it found and has not raised
(`Examining`), and while no two overlapped, what it is about to raise is not open
(`Alone`). *`KnownSoftware`*: `Believing` says that the list the agent believes
in has arrived and that only a list still on its way may be newer; `Straight`
that, while no list went astray, at most one is on its way, and the trail of
installations leads (`Leads`) to the one before it, or to it once it is stored.
*`ChangesAddUp`*: rows are in order of age, and no two comparisons are about the
same row (`Ordered`); `Balanced` counts, for each value of a field, the changes
to it less the changes from it, those written and those found and about to be.
The sum is one if the last machine has the value and the first has not, minus
one the other way round, and nothing otherwise. It is a statement on
cardinalities, as in `AlertEngine`: two machines differ in finitely many fields
(`DifferencesAre`), and finitely many comparisons are under way at any time.

The assumptions are those the modules name (`NumActionsAssumption`,
`SlotAssumption`, ..., `SizeAssumption`, `BufferBoundsAssumption`,
`TaskAssumption`, `EvaluatorAssumption`, `ThresholdAssumption`,
`PopulationAssumption`, `IdentityAssumption`, `MachineAssumption`, ...). Those on the registry say that there is a
machine and a customer, that a tenant may have one device at least
(`maxDevices` is positive in `schemas/management.schema.ts`), and that a machine
reports its own hardware id or none. TLC evaluates each, and checked the
inductive invariants on the instances of the runs before they were proved.

Only model-checked, and why: the liveness properties and the temporal property
`PresenceFollowsHeartbeats`, whose second half is one (the prover does not
handle fairness; the first half is `HeardIsShown`), and `EvictedByWorth`, which
compares evictions with a recursive operator (`Loop` of `MCPriorityBuffer`), about
which the provers cannot reason. Every invariant of a passing run is proved.
Sums over finite sets are the only induction over data that is needed, and that
is done as described above; nothing else is claimed of recursive definitions.

## Not modelled

* Nonces and the window of accepted timestamps of signed requests
  (`agent-auth.ts`, `lib/redis.ts`): a genuine request carries a nonce of its
  own, retries included, and one that is refused because the agent's clock is
  wrong is a refusal like any other.
* Partitions of the metrics tables (`jobs/partition-creator.ts`): the table
  they belong to is not part of the schema the code uses. `getISOWeekRange`
  mixes local time and UTC, so that its bounds depend on the server's zone.
* Tenants, users, roles, customers' names and contacts: edits of one row by one
  handler. `tenant-isolation.ts` is a filter on every query; one tenant is
  modelled throughout.
* The action executor, collectors, tray, installer, thermal helper and the
  service wrapper: calls of the operating system. Their outcomes are choices in
  the models, and the end of the process is a step of each.
* Layout, styles, lists and forms of the dashboard.

## Plan

The modelling planned at the start is done, `Posture` as `Inventory`,
`Enrollment` and presence as `DeviceRegistry`, and jobs as `MetricRollup`;
`Console` and `Sessions` were added. Of the proofs planned none is left; what
remains model-checked only is named above with its reason. Further modelling
would begin with the nonces of signed requests and with partitions, once the
schema has them.
