---------------------------- MODULE EventPipeline ----------------------------
(***************************************************************************)
(* How an event of the Windows log reaches the server: the event loop of   *)
(* the agent with its watermark file (agent/internal/scheduler), the       *)
(* offline buffer drained by two of the agent's loops, and the handler of  *)
(* POST /agent/events (server/src/modules/agent/agent.routes.ts).          *)
(*                                                                         *)
(* Events that the agent reports are numbered by record id; the log grows  *)
(* whether the agent runs or not.  One channel, one device.                *)
(***************************************************************************)
EXTENDS Integers, FiniteSets, FiniteSetsExt

CONSTANTS
  MaxEvents,   \* bound: events of the log
  History,     \* events already in the log when the agent is installed
  Crashes,     \* events of category AppCrash: each has a dedupKey of its own
  Critical,    \* events of severity CRITICAL: the first out of the buffer
  MaxBatch,    \* events per query of the log
  Slot,        \* requests that can be in progress at once
  NoSlot,      \* the loop waits for no request
  MaxItems,    \* bound: items ever stored in the buffer
  MaxFaults    \* bound: faults

ASSUME LogAssumption == /\ MaxEvents \in Nat /\ History \in 0..MaxEvents
                        /\ Crashes \subseteq 1..MaxEvents /\ Critical \subseteq 1..MaxEvents
ASSUME SlotAssumption == NoSlot \notin Slot
ASSUME BatchAssumption == MaxBatch \in Nat \ {0}
ASSUME BoundsAssumption == MaxItems \in Nat /\ MaxFaults \in Nat

Event == 1..MaxEvents
Item  == [id : 1..MaxItems, ev : Event]
Loop  == {"events", "others"}
None  == -1

\* A request: events at..to are still to be handled, at has been looked up.
Handling(p, a, b) == [phase |-> p, at |-> a, to |-> b, found |-> FALSE]
Free    == Handling("free", 1, 0)
Request == [phase : {"free", "new", "find", "write", "done"},
            at : 1..(MaxEvents + 1), to : 0..MaxEvents, found : BOOLEAN]

VARIABLES
  tail,            \* record id of the last event of the log
  aged,            \* events up to this one are older than 24 hours
  up,              \* the agent is running
  cursor, upto,    \* lastEventRecordIDs; end of the batch in hand
  wm,              \* event_watermark.json, 0 when missing or empty
  live, stored,    \* the buffer, see DurableQueue
  next, put,       \* id of the next item; event of the batch to store next
  ph,              \* where each loop is
  drain,           \* items each loop has still to send
  call,            \* request each loop waits for
  req,             \* requests in progress, the abandoned ones included
  counted,         \* rows of a crash, occurrences of any other event
  first,           \* cursor of the first run of all
  rebased,         \* a later run took a new baseline
  evicted, refused,\* events given up by the buffer, or refused by the server
  faults

queue == <<up, live, stored>>
agent == <<cursor, upto, put, ph, drain>>
ghost == <<first, rebased, evicted, refused>>
vars  == <<tail, aged, queue, cursor, upto, wm, next, put, ph, drain, call, req, counted,
           ghost, faults>>

Queue == INSTANCE DurableQueue WITH lost <- FALSE

Faults(n) == faults + n <= MaxFaults /\ faults' = faults + n
NoFault   == faults' = faults

Init ==
  /\ tail = History /\ aged = 0
  /\ up = FALSE /\ live = {} /\ stored = {}
  /\ cursor = 0 /\ upto = 0 /\ wm = 0 /\ next = 1 /\ put = 1
  /\ ph = [l \in Loop |-> "idle"]
  /\ drain = [l \in Loop |-> {}]
  /\ call = [l \in Loop |-> NoSlot]
  /\ req = [s \in Slot |-> Free]
  /\ counted = [e \in Event |-> 0]
  /\ first = None /\ rebased = FALSE /\ evicted = {} /\ refused = {}
  /\ faults = 0

-----------------------------------------------------------------------------
(* The Windows log and the clock                                            *)

Occur ==
  /\ tail < MaxEvents
  /\ tail' = tail + 1
  /\ UNCHANGED <<aged, queue, agent, wm, next, call, req, counted, ghost, faults>>

DayPasses ==
  /\ aged < tail
  /\ Faults(1)
  /\ aged' = tail
  /\ UNCHANGED <<tail, queue, agent, wm, next, call, req, counted, ghost>>

-----------------------------------------------------------------------------
(* POST /agent/events: the events of a request one by one, each looked up   *)
(* and then written.                                                       *)

\* effectiveEventDedupKey: crashes apart, the events of the model share a key.
Key(e) == IF e \in Crashes THEN e ELSE 0

Existing(e) == \E f \in Event : Key(f) = Key(e) /\ counted[f] > 0 /\ f > aged

Find(s) ==
  /\ req[s].phase \in {"new", "find"}
  /\ req' = [req EXCEPT ![s].phase = "write", ![s].found = Existing(req[s].at)]
  /\ UNCHANGED <<tail, aged, queue, agent, wm, next, call, counted, ghost, faults>>

\* The next event of the request, or its answer if a loop waits for it.
After(r, awaited) ==
  IF r.at < r.to THEN Handling("find", r.at + 1, r.to)
  ELSE IF awaited THEN Handling("done", r.at + 1, r.to) ELSE Free

\* A known crash is only refreshed; anything else is a row or an occurrence more.
Write(s) ==
  LET r == req[s] IN
  /\ r.phase = "write"
  /\ counted' = IF r.at \in Crashes /\ r.found THEN counted
                ELSE [counted EXCEPT ![r.at] = @ + 1]
  /\ req' = [req EXCEPT ![s] = After(r, \E l \in Loop : call[l] = s)]
  /\ UNCHANGED <<tail, aged, queue, agent, wm, next, call, ghost, faults>>

-----------------------------------------------------------------------------
(* Requests of the agent                                                    *)

Post(l, a, b) ==
  \E s \in Slot :
    /\ call[l] = NoSlot /\ req[s] = Free
    /\ req' = [req EXCEPT ![s] = Handling("new", a, b)]
    /\ call' = [call EXCEPT ![l] = s]

\* The loop learns the answer and the request is over.
Close(l) ==
  /\ req' = [req EXCEPT ![call[l]] = Free]
  /\ call' = [call EXCEPT ![l] = NoSlot]

Answered(l) == call[l] \in Slot /\ req[call[l]].phase = "done" /\ Close(l)

\* 4xx: the request is rejected before any of its events is handled.
Rejected(l) == call[l] \in Slot /\ req[call[l]].phase = "new" /\ Close(l)

\* An error, a 5xx or a 429: the request was lost, was cut short by the server,
\* or goes on without the agent.
Failed(l) ==
  /\ call[l] \in Slot
  /\ \/ Close(l)
     \/ /\ req[call[l]].phase # "done"
        /\ call' = [call EXCEPT ![l] = NoSlot]
        /\ UNCHANGED req

-----------------------------------------------------------------------------
(* collectAndSendEvents                                                     *)

At(l, p) == up /\ ph[l] = p
Go(l, p) == ph' = [ph EXCEPT ![l] = p]

\* CollectRecentEvents: the oldest events past the cursor; none when the query fails.
Scan ==
  /\ At("events", "idle")
  /\ \/ upto' = Min({cursor + MaxBatch, tail}) /\ NoFault
     \/ upto' = cursor /\ Faults(1)
  /\ Go("events", IF upto' = cursor THEN "save" ELSE "send")
  /\ UNCHANGED <<tail, aged, queue, cursor, wm, next, put, drain, call, req, counted, ghost>>

SendBatch ==
  /\ At("events", "send")
  /\ Post("events", cursor + 1, upto)
  /\ UNCHANGED <<tail, aged, queue, agent, wm, next, counted, ghost, faults>>

\* Mutant: the cursor does not move.
BatchDeliveredStays ==
  /\ At("events", "send") /\ Answered("events")
  /\ Go("events", "save")
  /\ UNCHANGED <<tail, aged, queue, cursor, upto, wm, next, put, drain, counted, ghost, faults>>

BatchDelivered ==
  /\ At("events", "send") /\ Answered("events")
  /\ cursor' = upto
  /\ Go("events", "save")
  /\ UNCHANGED <<tail, aged, queue, upto, wm, next, put, drain, counted, ghost, faults>>

\* Mutant: the cursor moves past a batch that the server refused.
BatchRefusedSkipped ==
  /\ At("events", "send") /\ Rejected("events") /\ Faults(1)
  /\ cursor' = upto
  /\ Go("events", "save")
  /\ UNCHANGED <<tail, aged, queue, upto, wm, next, put, drain, counted, ghost>>

\* "events rejected": nothing moves, the next scan reads them again.
BatchRefused ==
  /\ At("events", "send") /\ Rejected("events") /\ Faults(1)
  /\ Go("events", "peek")
  /\ UNCHANGED <<tail, aged, queue, cursor, upto, wm, next, put, drain, counted, ghost>>

\* SendWithRetry tries again, or the events go to the buffer.
BatchFails ==
  /\ At("events", "send") /\ Failed("events") /\ Faults(1)
  /\ \/ UNCHANGED <<ph, put>>
     \/ Go("events", "store") /\ put' = cursor + 1
  /\ UNCHANGED <<tail, aged, queue, cursor, upto, wm, next, drain, counted, ghost>>

\* Enqueue of the next event of the batch, which may evict others.
Store ==
  /\ At("events", "store") /\ next <= MaxItems
  /\ \E E \in SUBSET live :
       /\ Queue!Put([id |-> next, ev |-> put], E)
       /\ Faults(IF E = {} THEN 0 ELSE 1)
       /\ evicted' = evicted \cup {x.ev : x \in E}
  /\ next' = next + 1
  /\ IF put < upto
     THEN put' = put + 1 /\ UNCHANGED <<cursor, ph>>
     ELSE cursor' = upto /\ Go("events", "save") /\ UNCHANGED put
  /\ UNCHANGED <<tail, aged, upto, wm, drain, call, req, counted, first, rebased, refused>>

\* Mutant: the result of Enqueue is ignored.
StoreFailsIgnored ==
  /\ At("events", "store") /\ Faults(1)
  /\ cursor' = upto /\ Go("events", "save")
  /\ UNCHANGED <<tail, aged, queue, upto, wm, next, put, drain, call, req, counted, ghost>>

\* Enqueue returns an error: the rest of the batch is not stored, the cursor stays.
StoreFails ==
  /\ At("events", "store") /\ Faults(1)
  /\ Go("events", "peek")
  /\ UNCHANGED <<tail, aged, queue, cursor, upto, wm, next, put, drain, call, req, counted, ghost>>

-----------------------------------------------------------------------------
(* saveEventWatermark                                                       *)

SaveWatermark ==
  /\ At("events", "save")
  /\ wm' = cursor
  /\ Go("events", "peek")
  /\ UNCHANGED <<tail, aged, queue, cursor, upto, next, put, drain, call, req, counted, ghost, faults>>

\* The file is kept, or lost when its rename cannot be taken back.
SaveFails ==
  /\ At("events", "save")
  /\ \/ Faults(1) /\ UNCHANGED wm
     \/ Faults(2) /\ wm' = 0
  /\ Go("events", "peek")
  /\ UNCHANGED <<tail, aged, queue, cursor, upto, next, put, drain, call, req, counted, ghost>>

-----------------------------------------------------------------------------
(* flushOfflineBuffer, at the end of every round of every loop              *)

\* PeekSorted: priority first, then age.
Before(x, y) ==
  \/ x.ev \in Critical /\ y.ev \notin Critical
  \/ (x.ev \in Critical <=> y.ev \in Critical) /\ x.id < y.id
Head(S) == {x \in S : \A y \in S \ {x} : Before(x, y)}

Flush(l) ==
  /\ At(l, IF l = "events" THEN "peek" ELSE "idle")
  /\ Go(l, IF live = {} THEN "idle" ELSE "flush")
  /\ drain' = [drain EXCEPT ![l] = live]
  /\ UNCHANGED <<tail, aged, queue, cursor, upto, wm, next, put, call, req, counted, ghost, faults>>

SendItem(l) ==
  /\ At(l, "flush")
  /\ \E x \in Head(drain[l]) : Post(l, x.ev, x.ev)
  /\ UNCHANGED <<tail, aged, queue, agent, wm, next, counted, ghost, faults>>

\* Remove, whose error the loop ignores: n faults, and one more if it fails.
Removed(x, n) ==
  \/ x \in live /\ Queue!Take(x) /\ Faults(n)
  \/ x \notin live /\ UNCHANGED queue /\ Faults(n)
  \/ x \in live /\ UNCHANGED queue /\ Faults(n + 1)

Advance(l, x) ==
  /\ drain' = [drain EXCEPT ![l] = @ \ {x}]
  /\ Go(l, IF drain[l] = {x} THEN "idle" ELSE "flush")

ItemDelivered(l) ==
  /\ At(l, "flush") /\ Answered(l)
  /\ \E x \in Head(drain[l]) : Removed(x, 0) /\ Advance(l, x)
  /\ UNCHANGED <<tail, aged, cursor, upto, wm, next, put, counted, ghost>>

ItemRefused(l) ==
  /\ At(l, "flush") /\ Rejected(l)
  /\ \E x \in Head(drain[l]) :
       /\ Removed(x, 1) /\ Advance(l, x)
       /\ refused' = refused \cup {x.ev}
  /\ UNCHANGED <<tail, aged, cursor, upto, wm, next, put, counted, first, rebased, evicted>>

\* Mutant: the item is removed whatever the answer.
ItemFailsRemoved(l) ==
  /\ At(l, "flush") /\ Failed(l)
  /\ \E x \in Head(drain[l]) : Removed(x, 1) /\ Advance(l, x)
  /\ UNCHANGED <<tail, aged, cursor, upto, wm, next, put, counted, ghost>>

\* "pausing drain until next tick"
ItemFails(l) ==
  /\ At(l, "flush") /\ Failed(l) /\ Faults(1)
  /\ drain' = [drain EXCEPT ![l] = {}]
  /\ Go(l, "idle")
  /\ UNCHANGED <<tail, aged, queue, cursor, upto, wm, next, put, counted, ghost>>

-----------------------------------------------------------------------------
(* The life of the agent                                                    *)

\* The process ends and leaves w as the watermark; its requests go on.
Stop(w) ==
  /\ Faults(1)
  /\ Queue!Crash(stored)
  /\ wm' = w
  /\ cursor' = 0 /\ upto' = 0 /\ put' = 1
  /\ ph' = [l \in Loop |-> "idle"]
  /\ drain' = [l \in Loop |-> {}]
  /\ call' = [l \in Loop |-> NoSlot]
  /\ req' = [s \in Slot |-> IF req[s].phase = "done" THEN Free ELSE req[s]]
  /\ UNCHANGED <<tail, aged, next, counted, ghost>>

AgentStops == Stop(wm)

\* Between the two renames of saveEventWatermark: the backup is never read.
StopsWhileSaving == At("events", "save") /\ Stop(0)

\* Run: resume after the watermark.
Resume ==
  /\ wm > 0
  /\ Queue!Start
  /\ cursor' = wm /\ upto' = wm
  /\ UNCHANGED <<tail, aged, wm, next, put, ph, drain, call, req, counted, ghost, faults>>

\* Run without a watermark: the end of the log is the baseline, unless the query
\* fails, and is saved, unless that fails.
Baseline ==
  /\ wm = 0
  /\ Queue!Start
  /\ \/ NoFault /\ cursor' = tail /\ wm' = tail
     \/ Faults(1) /\ cursor' = 0 /\ wm' = 0
     \/ Faults(1) /\ cursor' = tail /\ wm' = 0
  /\ upto' = cursor'
  /\ first' = IF first = None THEN cursor' ELSE first
  /\ rebased' = (rebased \/ first # None)
  /\ UNCHANGED <<tail, aged, next, put, ph, drain, call, req, counted, evicted, refused>>

Server == \E s \in Slot : Find(s) \/ Write(s)
Collect == Scan \/ SendBatch \/ BatchDelivered \/ BatchRefused \/ BatchFails
             \/ Store \/ StoreFails \/ SaveWatermark \/ SaveFails
Drain(l) == Flush(l) \/ SendItem(l) \/ ItemDelivered(l) \/ ItemRefused(l) \/ ItemFails(l)
Life == AgentStops \/ StopsWhileSaving \/ Resume \/ Baseline

Next == Occur \/ DayPasses \/ Server \/ Collect \/ (\E l \in Loop : Drain(l)) \/ Life

Spec == Init /\ [][Next]_vars

\* The handlers finish, the loops go round, the service is started again, and
\* a request that was sent and fails is a fault, of which there are few.
FairSpec ==
  /\ Spec
  /\ \A s \in Slot : WF_vars(Find(s) \/ Write(s))
  /\ WF_vars(Collect)
  /\ \A l \in Loop : WF_vars(Drain(l))
  /\ WF_vars(Resume \/ Baseline)

-----------------------------------------------------------------------------
(* Properties                                                               *)

\* The values of the variables.
TypeOK ==
  /\ tail \in 0..MaxEvents /\ aged \in 0..MaxEvents
  /\ up \in BOOLEAN /\ live \subseteq Item /\ stored \subseteq Item
  /\ cursor \in 0..MaxEvents /\ upto \in 0..MaxEvents /\ wm \in 0..MaxEvents
  /\ next \in 1..(MaxItems + 1) /\ put \in 1..(MaxEvents + 1)
  /\ ph \in [Loop -> {"idle", "send", "store", "save", "peek", "flush"}]
  /\ drain \in [Loop -> SUBSET Item]
  /\ call \in [Loop -> Slot \cup {NoSlot}]
  /\ req \in [Slot -> Request]
  /\ counted \in [Event -> Nat]
  /\ first \in Nat \cup {None} /\ rebased \in BOOLEAN
  /\ evicted \subseteq Event /\ refused \subseteq Event
  /\ faults \in Nat

Since(b) == {e \in Event : first # None /\ first < e /\ e <= b}
Accounted == {e \in Event : counted[e] > 0} \cup {x.ev : x \in stored} \cup evicted \cup refused

\* Every event after the first baseline that the cursor or the watermark has
\* passed is on the server, in the buffer on disk, or was given up by the buffer
\* or refused by the server: whatever request, write or process ends half-way.
\* The exception is a second baseline: a process that ends between the renames
\* of the watermark file starts without one.
NothingForgotten == rebased \/ Since(cursor) \cup Since(wm) \subseteq Accounted

\* Without faults each event after the baseline is counted exactly once by the
\* time the cursor has passed it, and no event of the history ever is.
ExactWithoutFaults ==
  faults = 0 => \A e \in Event :
    /\ counted[e] <= IF e \in Since(tail) THEN 1 ELSE 0
    /\ e \in Since(cursor) => counted[e] = 1

\* An event of the log reaches the server in the end, through restarts, lost
\* answers and the buffer, unless it is given up, refused or jumped over; and the buffer is
\* drained again and again: no item is stuck in it.
EventArrives ==
  /\ \A e \in Event :
       e \in Since(tail) ~> counted[e] > 0 \/ e \in evicted \cup refused \/ rebased
  /\ []<>(live = {} /\ stored = {})

-----------------------------------------------------------------------------
(***************************************************************************)
(* The inductive invariant: what each loop holds between two steps.        *)
(***************************************************************************)

\* While the agent is down nothing is left but its files.
DownInv ==
  IF up THEN live = stored /\ first # None
  ELSE /\ live = {}
       /\ \A l \in Loop : ph[l] = "idle" /\ call[l] = NoSlot

LogInv == /\ cursor <= tail /\ upto <= tail /\ wm <= tail
          /\ wm > 0 => first # None

\* A request has an event in hand until it is done, and knows a crash as
\* recorded only if it is.
ReqInv ==
  \A s \in Slot :
    /\ req[s].phase \in {"new", "find", "write"} => req[s].at <= req[s].to
    /\ req[s].phase = "done" => req[s].at > req[s].to
    /\ req[s].found /\ req[s].at \in Crashes => counted[req[s].at] > 0

\* The request a loop waits for is its own.
CallInv(l) ==
  call[l] # NoSlot =>
    /\ ph[l] \in {"send", "flush"}
    /\ req[call[l]].phase # "free"
    /\ \A m \in Loop : call[m] = call[l] => m = l

\* Of the batch in hand, what the server handled or the buffer took is safe.
BatchInv(l) ==
  /\ l = "others" => ph[l] \in {"idle", "flush"}
  /\ ph[l] = "send" =>
       /\ cursor < upto
       /\ call[l] # NoSlot =>
            /\ req[call[l]].to = upto
            /\ \A e \in Event : cursor < e /\ e < req[call[l]].at => counted[e] > 0
  /\ ph[l] = "store" =>
       /\ cursor < put /\ put <= upto
       /\ \A e \in Event : cursor < e /\ e < put => e \in Accounted

\* Likewise of the item the loop has sent.
DrainInv(l) ==
  ph[l] = "flush" /\ call[l] # NoSlot =>
    \A x \in Head(drain[l]) :
      /\ req[call[l]].to = x.ev
      /\ req[call[l]].at > x.ev => counted[x.ev] > 0

LoopInv(l) == CallInv(l) /\ BatchInv(l) /\ DrainInv(l)

IInv == /\ TypeOK /\ NothingForgotten /\ DownInv /\ LogInv /\ ReqInv
        /\ \A l \in Loop : LoopInv(l)
=============================================================================
