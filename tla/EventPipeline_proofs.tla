------------------------- MODULE EventPipeline_proofs --------------------------
(***************************************************************************)
(* What is proved of the way of an event, for every log, every batch size, *)
(* any number of requests in progress and any number of faults: nothing    *)
(* between the first baseline and the watermark is forgotten.              *)
(***************************************************************************)
EXTENDS EventPipeline, TLAPS

-----------------------------------------------------------------------------
(* Facts about the operators                                                *)

\* There is one first item at most.
LEMMA HeadUnique ==
  ASSUME NEW S \in SUBSET Item, NEW x \in Head(S), NEW y \in Head(S)
  PROVE  x = y
<1>1. x.id \in Int /\ y.id \in Int BY DEF Head, Item
<1> QED BY <1>1 DEF Head, Before

\* A first item is an item of the set.
LEMMA HeadType ==
  ASSUME NEW S \in SUBSET Item, NEW x \in Head(S)
  PROVE  x \in S /\ x \in Item /\ x.ev \in Event
BY DEF Head, Item

\* A crash has a key of its own: it exists only if it was recorded.
LEMMA ExistingCrash ==
  ASSUME TypeOK, NEW e \in Crashes, Existing(e)
  PROVE  counted[e] > 0
BY LogAssumption DEF Existing, Key, Event

-----------------------------------------------------------------------------
(* What a step does to what is accounted for, and to a loop that did not    *)
(* take it                                                                 *)

Grows ==
  /\ \A e \in Event : counted[e] > 0 => counted'[e] > 0
  /\ Accounted \subseteq Accounted'

LEMMA AccountedGrows ==
  ASSUME stored \subseteq Item,
         \A e \in Event : counted[e] > 0 => counted'[e] > 0,
         evicted \subseteq evicted', refused \subseteq refused',
         \A x \in stored : \/ x \in stored' \/ counted'[x.ev] > 0
                           \/ x.ev \in evicted' \/ x.ev \in refused'
  PROVE  Grows
BY DEF Grows, Accounted, Item

\* Nothing changes for the accounts.
LEMMA AccountsKept ==
  ASSUME TypeOK, UNCHANGED <<counted, stored, evicted, refused>>
  PROVE  Grows
BY AccountedGrows DEF TypeOK

\* The loop m, its item and its request are as they were.
Bystander(m) ==
  /\ ph'[m] = ph[m] /\ drain'[m] = drain[m] /\ call'[m] = call[m]
  /\ call[m] # NoSlot => /\ req'[call[m]] = req[call[m]]
                         /\ \A l \in Loop : call'[l] = call[m] => l = m
  /\ m = "others" \/ UNCHANGED <<cursor, upto, put>>

LEMMA BystanderInv ==
  ASSUME TypeOK, Grows, NEW m \in Loop, LoopInv(m), Bystander(m)
  PROVE  LoopInv(m)'
<1>1. CallInv(m)' BY DEF LoopInv, CallInv, Bystander
<1>2. BatchInv(m)'
  <2>1. CASE m = "others" BY <2>1 DEF LoopInv, BatchInv, Bystander
  <2>2. CASE m = "events"
    BY <2>2 DEF LoopInv, BatchInv, Bystander, Grows
  <2> QED BY <2>1, <2>2 DEF Loop
<1>3. DrainInv(m)'
  <2> SUFFICES ASSUME ph[m] = "flush", call[m] # NoSlot, NEW x \in Head(drain[m])
               PROVE  /\ req[call[m]].to = x.ev
                      /\ req[call[m]].at > x.ev => counted'[x.ev] > 0
    BY DEF DrainInv, Bystander, Head, Before
  <2>1. x.ev \in Event BY HeadType DEF TypeOK
  <2> QED BY <2>1 DEF LoopInv, DrainInv, Grows
<1> QED BY <1>1, <1>2, <1>3 DEF LoopInv

-----------------------------------------------------------------------------
(* Requests                                                                 *)

\* A loop l starts a request.
LEMMA PostStep ==
  ASSUME IInv, NEW l \in Loop, NEW a \in Event, NEW b \in Event, a <= b,
         Post(l, a, b), UNCHANGED counted
  PROVE  /\ call' \in [Loop -> Slot \cup {NoSlot}] /\ req' \in [Slot -> Request]
         /\ ReqInv'
         /\ call[l] = NoSlot /\ call'[l] \in Slot
         /\ req'[call'[l]] = Handling("new", a, b)
         /\ \A m \in Loop \ {l} :
              /\ call'[m] = call[m] /\ call[m] # call'[l]
              /\ call[m] # NoSlot => req'[call[m]] = req[call[m]]
<1>0. PICK s \in Slot :
        /\ call[l] = NoSlot /\ req[s] = Free
        /\ req' = [req EXCEPT ![s] = Handling("new", a, b)]
        /\ call' = [call EXCEPT ![l] = s]
  BY DEF Post
<1>1. call \in [Loop -> Slot \cup {NoSlot}] /\ req \in [Slot -> Request] BY DEF IInv, TypeOK
<1>2. Handling("new", a, b) \in Request
  BY LogAssumption DEF Request, Event, Handling
<1>3. call'[l] = s /\ req'[s] = Handling("new", a, b)
  BY <1>0, <1>1
<1>4. call' \in [Loop -> Slot \cup {NoSlot}] /\ req' \in [Slot -> Request]
  BY <1>0, <1>1, <1>2
<1>5. \A t \in Slot : t # s => req'[t] = req[t] BY <1>0, <1>1
<1>6. ReqInv' BY <1>3, <1>5 DEF IInv, ReqInv, Handling
<1>7. ASSUME NEW m \in Loop \ {l}
      PROVE  /\ call'[m] = call[m] /\ call[m] # s
             /\ call[m] # NoSlot => req'[call[m]] = req[call[m]]
  <2>1. call'[m] = call[m] BY <1>0, <1>1
  <2>2. call[m] # s BY <1>0, SlotAssumption DEF IInv, LoopInv, CallInv, Free, Handling
  <2>3. call[m] # NoSlot => call[m] \in Slot BY <1>1
  <2> QED BY <1>5, <2>1, <2>2, <2>3
<1> QED BY <1>0, <1>3, <1>4, <1>6, <1>7

\* What the end of a request leaves, for the loop l and for the others.
Ended(l) ==
  /\ call' \in [Loop -> Slot \cup {NoSlot}] /\ req' \in [Slot -> Request]
  /\ ReqInv'
  /\ call'[l] = NoSlot
  /\ \A m \in Loop \ {l} :
       /\ call'[m] = call[m]
       /\ call[m] # NoSlot => req'[call[m]] = req[call[m]]

\* The request of l is over: answered, rejected or failed.
LEMMA EndStep ==
  ASSUME IInv, NEW l \in Loop, Answered(l) \/ Rejected(l) \/ Failed(l), UNCHANGED counted
  PROVE  Ended(l)
<1>1. call \in [Loop -> Slot \cup {NoSlot}] /\ req \in [Slot -> Request] /\ call[l] \in Slot
  BY DEF IInv, TypeOK, Answered, Rejected, Failed
<1>2. call[l] # NoSlot BY <1>1, SlotAssumption
<1>3. call' = [call EXCEPT ![l] = NoSlot] BY DEF Answered, Rejected, Failed, Close
<1>4. /\ call' \in [Loop -> Slot \cup {NoSlot}] /\ call'[l] = NoSlot
      /\ \A m \in Loop \ {l} : call'[m] = call[m]
  BY <1>1, <1>3
<1>5. req' = req \/ req' = [req EXCEPT ![call[l]] = Free]
  BY DEF Answered, Rejected, Failed, Close
<1>6. Free \in Request BY LogAssumption DEF Free, Handling, Request
<1>7. /\ req' \in [Slot -> Request]
      /\ \A s \in Slot : req'[s] = Free \/ req'[s] = req[s]
      /\ \A s \in Slot : s # call[l] => req'[s] = req[s]
  BY <1>1, <1>5, <1>6
<1>8. ReqInv' BY <1>7 DEF IInv, ReqInv, Free, Handling
<1>9. ASSUME NEW m \in Loop \ {l}, call[m] # NoSlot PROVE req'[call[m]] = req[call[m]]
  <2>1. call[m] # call[l] BY <1>2, <1>9 DEF IInv, LoopInv, CallInv
  <2>2. call[m] \in Slot BY <1>1, <1>9
  <2> QED BY <1>7, <2>1, <2>2
<1> QED BY <1>4, <1>7, <1>8, <1>9 DEF Ended

-----------------------------------------------------------------------------
(* Steps                                                                    *)

\* Whatever cursor and watermark now pass was passed before or is accounted for.
LEMMA ForgottenStep ==
  ASSUME NothingForgotten, Grows, UNCHANGED <<first, rebased>>,
         \A e \in Event : first # None /\ first < e /\ (e <= cursor' \/ e <= wm') =>
           e <= cursor \/ e <= wm \/ e \in Accounted'
  PROVE  NothingForgotten'
BY DEF NothingForgotten, Since, Grows

\* The log grows, a day passes.
LEMMA LogStep ==
  ASSUME IInv, Occur \/ DayPasses
  PROVE  IInv'
<1>1. /\ UNCHANGED <<up, live, stored, cursor, upto, wm, next, put, ph, drain, call, req,
                     counted, first, rebased, evicted, refused>>
      /\ tail <= tail'
  BY DEF Occur, DayPasses, queue, agent, ghost, IInv, TypeOK
<1>2. TypeOK'
  <2>1. tail' \in 0..MaxEvents /\ aged' \in 0..MaxEvents /\ faults' \in Nat
    BY LogAssumption DEF Occur, DayPasses, Faults, IInv, TypeOK
  <2> QED BY <1>1, <2>1 DEF IInv, TypeOK
<1>3. TypeOK /\ Grows BY <1>1, AccountsKept DEF IInv
<1>4. NothingForgotten' BY <1>1, <1>3, ForgottenStep DEF IInv
<1>5. DownInv' BY <1>1 DEF IInv, DownInv
<1>6. LogInv' BY <1>1, <1>2 DEF IInv, LogInv, TypeOK
<1>7. ReqInv' BY <1>1 DEF IInv, ReqInv
<1>8. ASSUME NEW l \in Loop PROVE LoopInv(l)'
  BY <1>1, <1>3, BystanderInv DEF IInv, Bystander, LoopInv, CallInv
<1> QED BY <1>2, <1>4, <1>5, <1>6, <1>7, <1>8 DEF IInv

\* The server moved the request s on by at most one event, now recorded.
LEMMA ServerLoop ==
  ASSUME IInv, Grows, NEW s \in Slot,
         UNCHANGED <<ph, drain, call, cursor, upto, put>>,
         \A t \in Slot : t # s => req'[t] = req[t],
         (\E l \in Loop : call[l] = s) =>
           /\ req'[s].phase # "free" /\ req'[s].to = req[s].to
           /\ \/ req'[s].at = req[s].at
              \/ /\ req'[s].at = req[s].at + 1 /\ req[s].at <= req[s].to
                 /\ counted'[req[s].at] > 0,
         NEW m \in Loop
  PROVE  LoopInv(m)'
<1>0. /\ TypeOK /\ LoopInv(m) /\ call[m] \in Slot \cup {NoSlot}
      /\ req[s].at \in Nat /\ req[s].to \in Nat
  BY LogAssumption DEF IInv, TypeOK, Request
<1>1. CASE call[m] # s
  BY <1>0, <1>1, BystanderInv DEF LoopInv, CallInv, Bystander
<1>2. CASE call[m] = s
  <2>1. CallInv(m)' BY <1>0, <1>2 DEF LoopInv, CallInv
  <2>2. BatchInv(m)'
    <3>1. ASSUME NEW e \in Event, cursor < e, e < req'[s].at, ph[m] = "send"
          PROVE  counted'[e] > 0
      <4>1. e < req[s].at \/ e = req[s].at BY <1>0, <1>2, <3>1 DEF Event
      <4>2. CASE e < req[s].at
        BY <1>0, <1>2, <3>1, <4>2, SlotAssumption DEF LoopInv, BatchInv, Grows
      <4>3. CASE e = req[s].at BY <1>0, <1>2, <3>1, <4>3
      <4> QED BY <4>1, <4>2, <4>3
    <3> QED BY <1>0, <1>2, <3>1, SlotAssumption DEF LoopInv, BatchInv, Grows
  <2>3. DrainInv(m)'
    <3> SUFFICES ASSUME ph[m] = "flush", NEW x \in Head(drain[m])
                 PROVE  /\ req'[s].to = x.ev
                        /\ req'[s].at > x.ev => counted'[x.ev] > 0
      BY <1>2 DEF DrainInv, Head, Before
    <3>1. x.ev \in Event /\ x.ev \in Nat BY <1>0, HeadType DEF TypeOK, Event
    <3>2. req[s].to = x.ev /\ (req[s].at > x.ev => counted[x.ev] > 0)
      BY <1>0, <1>2, SlotAssumption DEF LoopInv, DrainInv
    <3> QED BY <1>0, <1>2, <3>1, <3>2 DEF Grows
  <2> QED BY <2>1, <2>2, <2>3 DEF LoopInv
<1> QED BY <1>1, <1>2

\* The server looks an event up.
LEMMA FindStep ==
  ASSUME IInv, NEW s \in Slot, Find(s)
  PROVE  IInv'
<1>1. UNCHANGED <<tail, aged, up, live, stored, cursor, upto, wm, next, put, ph, drain, call,
                  counted, first, rebased, evicted, refused, faults>>
  BY DEF Find, queue, agent, ghost
<1>2. /\ TypeOK /\ req \in [Slot -> Request] /\ req[s].phase \in {"new", "find"}
      /\ Existing(req[s].at) \in BOOLEAN
  BY DEF IInv, TypeOK, Find, Existing
<1>3. /\ req'[s] = [req[s] EXCEPT !.phase = "write", !.found = Existing(req[s].at)]
      /\ \A t \in Slot : t # s => req'[t] = req[t]
      /\ req' \in [Slot -> Request]
  BY <1>2 DEF Find, Request
<1>4. TypeOK' BY <1>1, <1>2, <1>3 DEF TypeOK
<1>5. Grows BY <1>1, <1>2, AccountsKept
<1>6. NothingForgotten' BY <1>1, <1>5, ForgottenStep DEF IInv
<1>7. DownInv' /\ LogInv' BY <1>1 DEF IInv, DownInv, LogInv
<1>8. ReqInv'
  <2>1. req[s].at \in Crashes /\ Existing(req[s].at) => counted[req[s].at] > 0
    BY <1>2, ExistingCrash
  <2>2. req'[s].phase = "write" /\ req'[s].at = req[s].at /\ req'[s].to = req[s].to
        /\ req'[s].found = Existing(req[s].at)
    BY <1>2, <1>3 DEF Request
  <2>3. req[s].at <= req[s].to BY <1>2 DEF IInv, ReqInv
  <2> QED BY <1>1, <1>3, <2>1, <2>2, <2>3 DEF IInv, ReqInv
<1>9. ASSUME NEW l \in Loop PROVE LoopInv(l)'
  BY <1>1, <1>2, <1>3, <1>5, ServerLoop DEF Request
<1> QED BY <1>4, <1>6, <1>7, <1>8, <1>9 DEF IInv

\* The server writes it.
LEMMA WriteStep ==
  ASSUME IInv, NEW s \in Slot, Write(s)
  PROVE  IInv'
<1>1. UNCHANGED <<tail, aged, up, live, stored, cursor, upto, wm, next, put, ph, drain, call,
                  first, rebased, evicted, refused, faults>>
  BY DEF Write, queue, agent, ghost
<1> DEFINE r == req[s]
<1>2. /\ TypeOK /\ req \in [Slot -> Request] /\ counted \in [Event -> Nat]
      /\ r \in Request /\ r.phase = "write" /\ r.at <= r.to
  BY DEF IInv, TypeOK, ReqInv, Write
<1>3. r.at \in Event /\ r.at \in Nat /\ r.to \in 0..MaxEvents
  BY <1>2, LogAssumption DEF Request, Event
<1>4. /\ counted' \in [Event -> Nat]
      /\ \A e \in Event : counted[e] > 0 => counted'[e] > 0
      /\ counted'[r.at] > 0
  <2>1. CASE r.at \in Crashes /\ r.found
    BY <1>2, <1>3, <2>1 DEF Write, IInv, ReqInv
  <2>2. CASE ~(r.at \in Crashes /\ r.found)
    <3>1. counted' = [counted EXCEPT ![r.at] = @ + 1] BY <2>2 DEF Write
    <3> QED BY <1>2, <1>3, <3>1
  <2> QED BY <2>1, <2>2
<1> HIDE DEF r
<1>5. PICK v \in Request :
        /\ req' = [req EXCEPT ![s] = v]
        /\ \/ r.at < r.to /\ v = Handling("find", r.at + 1, r.to)
           \/ r.at = r.to /\ v = Handling("done", r.at + 1, r.to)
           \/ v = Free /\ ~\E l \in Loop : call[l] = s
  <2> DEFINE v == After(r, \E l \in Loop : call[l] = s)
  <2>1. req' = [req EXCEPT ![s] = v] BY DEF Write, r
  <2>2. \/ r.at < r.to /\ v = Handling("find", r.at + 1, r.to)
        \/ r.at = r.to /\ v = Handling("done", r.at + 1, r.to)
        \/ v = Free /\ ~\E l \in Loop : call[l] = s
    BY <1>2, <1>3 DEF After
  <2> HIDE DEF v
  <2>3. /\ Free \in Request
        /\ r.at < r.to => Handling("find", r.at + 1, r.to) \in Request
        /\ r.at = r.to => Handling("done", r.at + 1, r.to) \in Request
    BY <1>3, LogAssumption DEF Request, Event, Handling, Free
  <2>4. v \in Request BY <2>2, <2>3
  <2> QED BY <2>1, <2>2, <2>4
<1>51. /\ req' \in [Slot -> Request] /\ req'[s] = v
       /\ \A t \in Slot : t # s => req'[t] = req[t]
  BY <1>2, <1>5
<1>6. TypeOK' BY <1>1, <1>2, <1>4, <1>51 DEF TypeOK
<1>7. Grows BY <1>1, <1>2, <1>4, AccountedGrows DEF TypeOK
<1>8. NothingForgotten' BY <1>1, <1>7, ForgottenStep DEF IInv
<1>9. DownInv' /\ LogInv' BY <1>1 DEF IInv, DownInv, LogInv
<1>10. ReqInv'
  <2>1. ASSUME NEW t \in Slot, t # s
        PROVE  req'[t].found /\ req'[t].at \in Crashes => counted'[req'[t].at] > 0
    BY <1>4, <1>51, <2>1, LogAssumption DEF IInv, ReqInv, Event
  <2>2. /\ req'[s].phase \in {"new", "find", "write"} => req'[s].at <= req'[s].to
        /\ req'[s].phase = "done" => req'[s].at > req'[s].to
        /\ ~req'[s].found
    BY <1>3, <1>5, <1>51 DEF Free, Handling
  <2> QED BY <1>51, <2>1, <2>2 DEF IInv, ReqInv
<1>11. ASSUME NEW l \in Loop PROVE LoopInv(l)'
  <2>1. (\E m \in Loop : call[m] = s) =>
          /\ req'[s].phase # "free" /\ req'[s].to = r.to /\ req'[s].at = r.at + 1
    BY <1>5, <1>51 DEF Handling
  <2> QED BY <1>1, <1>2, <1>4, <1>51, <1>7, <2>1, ServerLoop DEF r
<1> QED BY <1>6, <1>8, <1>9, <1>10, <1>11 DEF IInv

-----------------------------------------------------------------------------
(* collectAndSendEvents                                                     *)

\* The smaller of two numbers.
LEMMA MinOfTwo ==
  ASSUME NEW a \in Int, NEW b \in Int
  PROVE  Min({a, b}) \in {a, b} /\ Min({a, b}) <= a /\ Min({a, b}) <= b
<1>1. \E x \in {a, b} : \A y \in {a, b} : x <= y BY a <= b \/ b <= a
<1> QED BY <1>1 DEF Min

\* What the event loop leaves alone.
LEMMA OthersInv ==
  ASSUME IInv, Grows, ph'["others"] = ph["others"], drain'["others"] = drain["others"],
         call'["others"] = call["others"],
         call["others"] # NoSlot => /\ req'[call["others"]] = req[call["others"]]
                                    /\ call'["events"] # call["others"]
  PROVE  LoopInv("others")'
<1>1. "others" \in Loop /\ TypeOK /\ LoopInv("others") BY DEF Loop, IInv
<1>2. Bystander("others") BY DEF Bystander, Loop
<1> QED BY <1>1, <1>2, BystanderInv

\* The loop is in one phase, and waits for a request only while it sends.
LEMMA EventsLoop ==
  ASSUME IInv
  PROVE  /\ "events" \in Loop /\ "others" \in Loop /\ Loop = {"events", "others"}
         /\ TypeOK /\ LoopInv("events") /\ LoopInv("others")
         /\ ph \in [Loop -> {"idle", "send", "store", "save", "peek", "flush"}]
         /\ ph["events"] \notin {"send", "flush"} => call["events"] = NoSlot
         /\ \A l \in Loop : call[l] # NoSlot => call[l] \in Slot
         /\ call["others"] # NoSlot => call["events"] # call["others"]
BY DEF IInv, TypeOK, Loop, LoopInv, CallInv

\* A step of the event loop that ends or starts no request and moves neither
\* the buffer nor the accounts.
LEMMA QuietStep ==
  ASSUME IInv, up, NEW p \in {"send", "store", "save", "peek"},
         ph["events"] \notin {"send", "flush"}, Go("events", p),
         UNCHANGED <<tail, aged, queue, next, put, drain, call, req, counted, ghost>>,
         cursor' \in 0..MaxEvents, upto' \in 0..MaxEvents, wm' \in 0..MaxEvents, faults' \in Nat,
         LogInv', NothingForgotten', BatchInv("events")'
  PROVE  IInv'
<1>1. /\ UNCHANGED <<up, live, stored, first, rebased, evicted, refused>> /\ TypeOK /\ Grows
      /\ "events" \in Loop /\ "others" \in Loop /\ Loop = {"events", "others"}
  BY EventsLoop, AccountsKept DEF queue, ghost
<1>2. /\ ph' \in [Loop -> {"idle", "send", "store", "save", "peek", "flush"}]
      /\ ph'["events"] = p /\ ph'["others"] = ph["others"]
  BY <1>1, EventsLoop DEF Go
<1>3. TypeOK' BY <1>1, <1>2 DEF TypeOK
<1>4. DownInv' BY <1>1 DEF IInv, DownInv
<1>5. ReqInv' BY DEF IInv, ReqInv
<1>6. LoopInv("others")' BY <1>1, <1>2, EventsLoop, OthersInv
<1>7. LoopInv("events")' BY <1>2, EventsLoop DEF LoopInv, CallInv, DrainInv
<1> QED BY <1>1, <1>3, <1>4, <1>5, <1>6, <1>7 DEF IInv

\* A step that ends the request of the event loop and stores nothing.
LEMMA AnswerStep ==
  ASSUME IInv, up, NEW p \in {"send", "store", "save", "peek"},
         Answered("events") \/ Rejected("events") \/ Failed("events"), Go("events", p),
         UNCHANGED <<tail, aged, queue, upto, wm, next, drain, counted, ghost>>,
         cursor' \in 0..MaxEvents, put' \in 1..(MaxEvents + 1), faults' \in Nat,
         LogInv', NothingForgotten', BatchInv("events")'
  PROVE  IInv'
<1>1. /\ UNCHANGED <<up, live, stored, first, rebased, evicted, refused>> /\ TypeOK /\ Grows
      /\ "events" \in Loop /\ "others" \in Loop /\ Loop = {"events", "others"}
  BY EventsLoop, AccountsKept DEF queue, ghost
<1>2. /\ ph' \in [Loop -> {"idle", "send", "store", "save", "peek", "flush"}]
      /\ ph'["events"] = p /\ ph'["others"] = ph["others"]
  BY <1>1, EventsLoop DEF Go
<1>3. Ended("events") BY <1>1, EndStep
<1>4. TypeOK' BY <1>1, <1>2, <1>3 DEF TypeOK, Ended
<1>5. DownInv' BY <1>1 DEF IInv, DownInv
<1>6. ReqInv' BY <1>3 DEF Ended
<1>7. LoopInv("others")' BY <1>1, <1>2, <1>3, EventsLoop, OthersInv DEF Ended
<1>8. LoopInv("events")' BY <1>2, <1>3 DEF Ended, LoopInv, CallInv, DrainInv
<1> QED BY <1>1, <1>4, <1>5, <1>6, <1>7, <1>8 DEF IInv

\* The loop reads the log.
LEMMA ScanStep == ASSUME IInv, Scan PROVE IInv'
<1>1. /\ up /\ ph["events"] = "idle"
      /\ UNCHANGED <<tail, aged, queue, cursor, wm, next, put, drain, call, req, counted, ghost>>
      /\ Go("events", IF upto' = cursor THEN "save" ELSE "send")
  BY DEF Scan, At
<1>2. /\ cursor \in Nat /\ tail \in 0..MaxEvents /\ cursor \in 0..MaxEvents
      /\ wm \in 0..MaxEvents /\ cursor <= tail /\ wm <= tail /\ faults \in Nat
  BY LogAssumption DEF IInv, TypeOK, LogInv
<1>3. upto' \in Int /\ cursor <= upto' /\ upto' <= tail
  <2>1. CASE upto' = Min({cursor + MaxBatch, tail})
    <3>1. cursor + MaxBatch \in Int /\ tail \in Int /\ cursor < cursor + MaxBatch
      BY <1>2, BatchAssumption, LogAssumption
    <3>2. /\ upto' = cursor + MaxBatch \/ upto' = tail
          /\ upto' <= cursor + MaxBatch /\ upto' <= tail
      BY <2>1, <3>1, MinOfTwo
    <3> QED BY <1>2, <3>1, <3>2
  <2>2. CASE upto' = cursor BY <1>2, <2>2, LogAssumption
  <2> QED BY <2>1, <2>2 DEF Scan
<1>4. upto' \in 0..MaxEvents BY <1>2, <1>3, LogAssumption
<1>5. faults' \in Nat BY <1>2, BoundsAssumption DEF Scan, Faults, NoFault
<1>6. LogInv' BY <1>1, <1>2, <1>3 DEF IInv, LogInv, ghost
<1>7. Grows BY <1>1, AccountsKept DEF IInv, queue, ghost
<1>8. NothingForgotten' BY <1>1, <1>7, ForgottenStep DEF IInv, ghost
<1>9. BatchInv("events")'
  <2>1. ph'["events"] = IF upto' = cursor THEN "save" ELSE "send"
    BY <1>1, EventsLoop DEF Go
  <2>2. call'["events"] = NoSlot BY <1>1, EventsLoop
  <2> QED BY <1>1, <1>2, <1>3, <2>1, <2>2 DEF BatchInv
<1>10. (IF upto' = cursor THEN "save" ELSE "send") \in {"send", "store", "save", "peek"} OBVIOUS
<1> QED BY <1>1, <1>2, <1>4, <1>5, <1>6, <1>8, <1>9, <1>10, QuietStep

\* It sends the batch.
LEMMA SendBatchStep == ASSUME IInv, SendBatch PROVE IInv'
<1>1. /\ up /\ ph["events"] = "send" /\ Post("events", cursor + 1, upto)
      /\ UNCHANGED <<tail, aged, up, live, stored, cursor, upto, put, ph, drain, wm, next,
                     counted, first, rebased, evicted, refused, faults>>
  BY DEF SendBatch, At, queue, agent, ghost
<1>2. cursor + 1 \in Event /\ upto \in Event /\ cursor + 1 <= upto /\ cursor \in Nat
  BY <1>1, EventsLoop, LogAssumption DEF LoopInv, BatchInv, TypeOK, Event
<1>3. "events" \in Loop /\ "others" \in Loop /\ Loop = {"events", "others"} /\ TypeOK
  BY EventsLoop
<1>4. /\ call' \in [Loop -> Slot \cup {NoSlot}] /\ req' \in [Slot -> Request]
      /\ ReqInv'
      /\ call["events"] = NoSlot /\ call'["events"] \in Slot
      /\ req'[call'["events"]] = Handling("new", cursor + 1, upto)
      /\ call'["others"] = call["others"] /\ call["others"] # call'["events"]
      /\ call["others"] # NoSlot => req'[call["others"]] = req[call["others"]]
  BY <1>1, <1>2, <1>3, PostStep
<1>5. TypeOK' BY <1>1, <1>3, <1>4 DEF TypeOK
<1>6. Grows BY <1>1, <1>3, AccountsKept
<1>7. NothingForgotten' BY <1>1, <1>6, ForgottenStep DEF IInv
<1>8. DownInv' /\ LogInv' BY <1>1 DEF IInv, DownInv, LogInv
<1>9. LoopInv("others")' BY <1>1, <1>4, <1>6, OthersInv
<1>10. LoopInv("events")'
  <2>1. CallInv("events")' BY <1>1, <1>3, <1>4 DEF CallInv, Handling
  <2>2. BatchInv("events")' BY <1>1, <1>2, <1>4 DEF BatchInv, Handling, Event
  <2>3. DrainInv("events")' BY <1>1 DEF DrainInv
  <2> QED BY <2>1, <2>2, <2>3 DEF LoopInv
<1> QED BY <1>3, <1>4, <1>5, <1>7, <1>8, <1>9, <1>10 DEF IInv

\* The answer: the batch is on the server, was refused, or is to be stored.
LEMMA BatchStep == ASSUME IInv, BatchDelivered \/ BatchRefused \/ BatchFails PROVE IInv'
<1>1. /\ up /\ ph["events"] = "send"
      /\ UNCHANGED <<tail, aged, queue, upto, wm, next, drain, counted, ghost>>
  BY DEF BatchDelivered, BatchRefused, BatchFails, At
<1>2. /\ "events" \in Loop /\ cursor < upto
      /\ ph \in [Loop -> {"idle", "send", "store", "save", "peek", "flush"}]
      /\ cursor \in 0..MaxEvents /\ upto \in 0..MaxEvents /\ put \in 1..(MaxEvents + 1)
      /\ faults \in Nat /\ cursor \in Nat /\ upto \in Nat /\ MaxEvents \in Nat
  BY <1>1, EventsLoop, LogAssumption DEF LoopInv, BatchInv, TypeOK
<1>3. Grows BY <1>1, AccountsKept DEF IInv, queue, ghost
<1>4. CASE BatchDelivered
  <2>1. /\ Answered("events") /\ cursor' = upto /\ put' = put /\ faults' = faults
        /\ Go("events", "save")
    BY <1>4 DEF BatchDelivered
  <2>2. LogInv' BY <1>1, <2>1 DEF IInv, LogInv, ghost
  <2>3. ASSUME NEW e \in Event, cursor < e, e <= upto PROVE e \in Accounted'
    <3>1. /\ call["events"] \in Slot /\ call["events"] # NoSlot
          /\ req[call["events"]].phase = "done"
      BY <2>1, SlotAssumption DEF Answered
    <3>2. req[call["events"]].to = upto /\ req[call["events"]].at > upto
          /\ \A f \in Event : cursor < f /\ f < req[call["events"]].at => counted[f] > 0
      BY <1>1, <3>1, EventsLoop DEF IInv, LoopInv, BatchInv, ReqInv
    <3>3. req[call["events"]].at \in Nat BY <3>1 DEF IInv, TypeOK, Request
    <3>4. counted[e] > 0 BY <1>2, <2>3, <3>2, <3>3 DEF Event
    <3> QED BY <1>1, <3>4 DEF Accounted
  <2>4. NothingForgotten'
    <3>1. \A e \in Event : first # None /\ first < e /\ (e <= cursor' \/ e <= wm') =>
             e <= cursor \/ e <= wm \/ e \in Accounted'
      BY <1>1, <1>2, <2>1, <2>3 DEF Event
    <3> QED BY <1>1, <1>3, <3>1, ForgottenStep DEF IInv, ghost
  <2>5. BatchInv("events")' BY <1>2, <2>1 DEF BatchInv, Go
  <2> QED BY <1>1, <1>2, <2>1, <2>2, <2>4, <2>5, AnswerStep
<1>5. CASE BatchRefused
  <2>1. /\ Rejected("events") /\ UNCHANGED <<cursor, put>> /\ faults' \in Nat /\ Go("events", "peek")
    BY <1>2, <1>5, BoundsAssumption DEF BatchRefused, Faults
  <2>2. LogInv' BY <1>1, <2>1 DEF IInv, LogInv, ghost
  <2>3. NothingForgotten' BY <1>1, <1>3, <2>1, ForgottenStep DEF IInv, ghost
  <2>4. BatchInv("events")' BY <1>2, <2>1 DEF BatchInv, Go
  <2> QED BY <1>1, <1>2, <2>1, <2>2, <2>3, <2>4, AnswerStep
<1>6. CASE BatchFails
  <2>1. /\ Failed("events") /\ UNCHANGED cursor /\ faults' \in Nat
        /\ \/ UNCHANGED <<ph, put>>
           \/ Go("events", "store") /\ put' = cursor + 1
    BY <1>2, <1>6, BoundsAssumption DEF BatchFails, Faults
  <2>2. LogInv' BY <1>1, <2>1 DEF IInv, LogInv, ghost
  <2>3. NothingForgotten' BY <1>1, <1>3, <2>1, ForgottenStep DEF IInv, ghost
  <2>4. put' \in 1..(MaxEvents + 1) BY <1>2, <2>1
  <2>5. call'["events"] = NoSlot BY <1>1, <1>2, <2>1, EndStep DEF Ended
  <2>6. CASE UNCHANGED <<ph, put>>
    <3>1. Go("events", "send") BY <1>1, <1>2, <2>6 DEF Go
    <3>2. BatchInv("events")' BY <1>1, <1>2, <2>1, <2>5, <2>6 DEF BatchInv
    <3> QED BY <1>1, <1>2, <2>1, <2>2, <2>3, <2>4, <3>1, <3>2, AnswerStep
  <2>7. CASE Go("events", "store") /\ put' = cursor + 1
    <3>1. BatchInv("events")' BY <1>1, <1>2, <2>1, <2>7 DEF BatchInv, Go, Event
    <3> QED BY <1>1, <1>2, <2>1, <2>2, <2>3, <2>4, <2>7, <3>1, AnswerStep
  <2> QED BY <2>1, <2>6, <2>7
<1> QED BY <1>4, <1>5, <1>6

\* The loop stores an event, or cannot.
LEMMA StoreStep == ASSUME IInv, Store PROVE IInv'
<1> DEFINE x == [id |-> next, ev |-> put]
<1>0. PICK E \in SUBSET live :
        /\ Queue!Put(x, E)
        /\ Faults(IF E = {} THEN 0 ELSE 1)
        /\ evicted' = evicted \cup {y.ev : y \in E}
  BY DEF Store
<1>1. /\ up /\ ph["events"] = "store" /\ next <= MaxItems /\ next' = next + 1
      /\ up' = up /\ live' = (live \ E) \cup {x} /\ stored' = live'
      /\ UNCHANGED <<tail, aged, upto, wm, drain, call, req, counted, first, rebased, refused>>
      /\ \/ put < upto /\ put' = put + 1 /\ UNCHANGED <<cursor, ph>>
         \/ ~(put < upto) /\ cursor' = upto /\ Go("events", "save") /\ UNCHANGED put
  BY <1>0 DEF Store, At, Queue!Put
<1>2. /\ "events" \in Loop /\ "others" \in Loop /\ Loop = {"events", "others"} /\ TypeOK
      /\ ph \in [Loop -> {"idle", "send", "store", "save", "peek", "flush"}]
      /\ cursor < put /\ put <= upto /\ cursor \in 0..MaxEvents /\ upto \in 0..MaxEvents
      /\ put \in 1..(MaxEvents + 1) /\ next \in 1..(MaxItems + 1) /\ faults \in Nat
      /\ MaxEvents \in Nat /\ MaxItems \in Nat
      /\ \A e \in Event : cursor < e /\ e < put => e \in Accounted
      /\ call["events"] = NoSlot
  BY <1>1, EventsLoop, LogAssumption, BoundsAssumption DEF LoopInv, BatchInv, TypeOK
<1>3. x \in Item /\ put \in Event /\ x.ev = put BY <1>1, <1>2 DEF Item, Event
<1> HIDE DEF x
<1>4. /\ live \subseteq Item /\ stored = live /\ evicted \subseteq Event
      /\ \A y \in E : y.ev \in Event
  BY <1>0, <1>1 DEF IInv, TypeOK, DownInv, Item
<1>5. /\ ph' \in [Loop -> {"idle", "send", "store", "save", "peek", "flush"}]
      /\ ph'["others"] = ph["others"]
      /\ ph'["events"] = IF put < upto THEN "store" ELSE "save"
  BY <1>1, <1>2 DEF Go
<1>6. TypeOK'
  <2>1. live' \subseteq Item /\ stored' \subseteq Item BY <1>1, <1>3, <1>4
  <2>2. next' \in 1..(MaxItems + 1) BY <1>1, <1>2
  <2>3. put' \in 1..(MaxEvents + 1) /\ cursor' \in 0..MaxEvents BY <1>1, <1>2
  <2>4. evicted' \subseteq Event BY <1>0, <1>4
  <2>5. faults' \in Nat BY <1>0, <1>2 DEF Faults
  <2> QED BY <1>1, <1>2, <1>5, <2>1, <2>2, <2>3, <2>4, <2>5 DEF TypeOK
<1>7. Grows
  <2>1. \A y \in stored : y \in stored' \/ y.ev \in evicted' BY <1>0, <1>1, <1>4
  <2> QED BY <1>0, <1>1, <1>4, <2>1, AccountedGrows
<1>8. put \in Accounted' BY <1>1, <1>3 DEF Accounted
<1>9. NothingForgotten'
  <2>1. \A e \in Event : first # None /\ first < e /\ (e <= cursor' \/ e <= wm') =>
          e <= cursor \/ e <= wm \/ e \in Accounted'
    BY <1>1, <1>2, <1>7, <1>8 DEF Event, Grows
  <2> QED BY <1>1, <1>7, <2>1, ForgottenStep DEF IInv
<1>10. DownInv' /\ LogInv' /\ ReqInv' BY <1>1 DEF IInv, DownInv, LogInv, ReqInv
<1>11. LoopInv("others")' BY <1>1, <1>5, <1>7, EventsLoop, OthersInv
<1>12. LoopInv("events")'
  <2>1. BatchInv("events")'
    BY <1>1, <1>2, <1>5, <1>7, <1>8 DEF BatchInv, Event, Grows
  <2> QED BY <1>1, <1>2, <1>5, <2>1 DEF LoopInv, CallInv, DrainInv
<1> QED BY <1>2, <1>6, <1>9, <1>10, <1>11, <1>12 DEF IInv

\* Enqueue or the watermark file fails, or the watermark is written.
LEMMA SaveStep == ASSUME IInv, StoreFails \/ SaveWatermark \/ SaveFails PROVE IInv'
<1>1. /\ up /\ ph["events"] \in {"store", "save"} /\ Go("events", "peek")
      /\ UNCHANGED <<tail, aged, queue, cursor, upto, next, put, drain, call, req, counted, ghost>>
      /\ wm' \in {wm, cursor, 0}
  BY DEF StoreFails, SaveWatermark, SaveFails, At
<1>2. /\ cursor \in 0..MaxEvents /\ wm \in 0..MaxEvents /\ upto \in 0..MaxEvents
      /\ tail \in 0..MaxEvents /\ faults \in Nat /\ MaxEvents \in Nat
  BY LogAssumption DEF IInv, TypeOK
<1>3. wm' \in 0..MaxEvents /\ LogInv' BY <1>1, <1>2 DEF IInv, LogInv, DownInv, ghost
<1>4. faults' \in Nat BY <1>2 DEF StoreFails, SaveWatermark, SaveFails, Faults
<1>5. Grows BY <1>1, AccountsKept DEF IInv, queue, ghost
<1>6. NothingForgotten'
  <2>1. \A e \in Event : e <= cursor' \/ e <= wm' => e <= cursor \/ e <= wm
    BY <1>1, <1>2 DEF Event
  <2> QED BY <1>1, <1>5, <2>1, ForgottenStep DEF IInv, ghost
<1>7. BatchInv("events")' BY <1>1, EventsLoop DEF BatchInv, Go
<1> QED BY <1>1, <1>2, <1>3, <1>4, <1>6, <1>7, QuietStep

-----------------------------------------------------------------------------
(* flushOfflineBuffer                                                       *)

\* A step of one loop around the buffer leaves the other loop alone.
LEMMA OtherLoopInv ==
  ASSUME IInv, Grows, NEW l \in Loop, NEW m \in Loop \ {l},
         UNCHANGED <<cursor, upto, put>>,
         ph'[m] = ph[m], drain'[m] = drain[m], call'[m] = call[m],
         call[m] # NoSlot => req'[call[m]] = req[call[m]] /\ call'[l] # call[m]
  PROVE  LoopInv(m)'
<1>1. TypeOK /\ LoopInv(m) BY DEF IInv
<1>2. \A k \in Loop : k = l \/ k = m BY DEF Loop
<1>3. Bystander(m) BY <1>2 DEF Bystander
<1> QED BY <1>1, <1>3, BystanderInv

\* The loop l takes a copy of the buffer.
LEMMA FlushStep == ASSUME IInv, NEW l \in Loop, Flush(l) PROVE IInv'
<1>1. /\ up /\ ph[l] \in {"peek", "idle"} /\ (l = "others" => ph[l] = "idle")
      /\ UNCHANGED <<tail, aged, up, live, stored, cursor, upto, wm, next, put, call, req,
                     counted, first, rebased, evicted, refused, faults>>
      /\ drain' = [drain EXCEPT ![l] = live]
      /\ Go(l, IF live = {} THEN "idle" ELSE "flush")
  BY DEF Flush, At, queue, ghost, Loop
<1>2. /\ TypeOK /\ drain \in [Loop -> SUBSET Item] /\ live \in SUBSET Item
      /\ ph \in [Loop -> {"idle", "send", "store", "save", "peek", "flush"}]
      /\ call[l] = NoSlot
  BY <1>1 DEF IInv, TypeOK, LoopInv, CallInv
<1>3. /\ ph' \in [Loop -> {"idle", "send", "store", "save", "peek", "flush"}]
      /\ ph'[l] \in {"idle", "flush"}
      /\ drain' \in [Loop -> SUBSET Item]
      /\ \A m \in Loop \ {l} : ph'[m] = ph[m] /\ drain'[m] = drain[m]
  BY <1>1, <1>2 DEF Go
<1>4. TypeOK' BY <1>1, <1>2, <1>3 DEF TypeOK
<1>5. Grows BY <1>1, <1>2, AccountsKept
<1>6. NothingForgotten' BY <1>1, <1>5, ForgottenStep DEF IInv
<1>7. DownInv' /\ LogInv' /\ ReqInv' BY <1>1 DEF IInv, DownInv, LogInv, ReqInv
<1>8. LoopInv(l)' BY <1>1, <1>2, <1>3 DEF LoopInv, CallInv, BatchInv, DrainInv
<1>9. ASSUME NEW m \in Loop \ {l} PROVE LoopInv(m)'
  BY <1>1, <1>2, <1>3, <1>5, OtherLoopInv
<1> QED BY <1>4, <1>6, <1>7, <1>8, <1>9 DEF IInv

\* It sends the first item.
LEMMA SendItemStep == ASSUME IInv, NEW l \in Loop, SendItem(l) PROVE IInv'
<1>0. PICK x \in Head(drain[l]) : Post(l, x.ev, x.ev) BY DEF SendItem
<1>1. /\ up /\ ph[l] = "flush"
      /\ UNCHANGED <<tail, aged, up, live, stored, cursor, upto, put, ph, drain, wm, next,
                     counted, first, rebased, evicted, refused, faults>>
  BY DEF SendItem, At, queue, agent, ghost
<1>2. TypeOK /\ drain[l] \in SUBSET Item BY DEF IInv, TypeOK
<1>3. x.ev \in Event /\ x.ev <= x.ev BY <1>2, HeadType DEF Event
<1>4. /\ call' \in [Loop -> Slot \cup {NoSlot}] /\ req' \in [Slot -> Request]
      /\ ReqInv'
      /\ call[l] = NoSlot /\ call'[l] \in Slot
      /\ req'[call'[l]] = Handling("new", x.ev, x.ev)
      /\ \A m \in Loop \ {l} :
           /\ call'[m] = call[m] /\ call[m] # call'[l]
           /\ call[m] # NoSlot => req'[call[m]] = req[call[m]]
  BY <1>0, <1>1, <1>3, PostStep
<1>5. TypeOK' BY <1>1, <1>2, <1>4 DEF TypeOK
<1>6. Grows BY <1>1, <1>2, AccountsKept
<1>7. NothingForgotten' BY <1>1, <1>6, ForgottenStep DEF IInv
<1>8. DownInv' /\ LogInv' BY <1>1 DEF IInv, DownInv, LogInv
<1>9. ASSUME NEW m \in Loop \ {l} PROVE LoopInv(m)'
  BY <1>1, <1>4, <1>6, OtherLoopInv
<1>10. LoopInv(l)'
  <2>1. CallInv(l)' BY <1>1, <1>4 DEF CallInv, Handling
  <2>2. BatchInv(l)' BY <1>1 DEF IInv, LoopInv, BatchInv
  <2>3. DrainInv(l)'
    <3>1. \A y \in Head(drain[l]) : y = x BY <1>2, HeadUnique
    <3>2. req'[call'[l]].to = x.ev /\ req'[call'[l]].at = x.ev BY <1>4 DEF Handling
    <3>3. Head(drain[l])' = Head(drain[l]) BY <1>1 DEF Head, Before
    <3> QED BY <1>3, <3>1, <3>2, <3>3 DEF DrainInv, Event
  <2> QED BY <2>1, <2>2, <2>3 DEF LoopInv
<1> QED BY <1>4, <1>5, <1>7, <1>8, <1>9, <1>10 DEF IInv

\* The request of a flush is over: what remains is to see that what leaves the
\* buffer is on the server or refused.
LEMMA ItemStep ==
  ASSUME IInv, NEW l \in Loop, up, ph[l] = "flush",
         Answered(l) \/ Rejected(l) \/ Failed(l),
         UNCHANGED <<tail, aged, up, cursor, upto, wm, next, put, counted, first, rebased, evicted>>,
         refused \subseteq refused', refused' \subseteq Event, faults' \in Nat,
         NEW p \in {"idle", "flush"}, Go(l, p),
         NEW D \in SUBSET drain[l], drain' = [drain EXCEPT ![l] = D],
         live' \subseteq live, stored' = stored \/ stored' = live', up => live' = stored',
         \A x \in live \ live' : counted[x.ev] > 0 \/ x.ev \in refused'
  PROVE  IInv'
<1>1. /\ TypeOK /\ live \subseteq Item /\ stored = live /\ Ended(l)
      /\ ph \in [Loop -> {"idle", "send", "store", "save", "peek", "flush"}]
      /\ drain \in [Loop -> SUBSET Item]
  BY EndStep DEF IInv, TypeOK, DownInv
<1>2. /\ ph' \in [Loop -> {"idle", "send", "store", "save", "peek", "flush"}] /\ ph'[l] = p
      /\ drain' \in [Loop -> SUBSET Item]
      /\ \A m \in Loop \ {l} : ph'[m] = ph[m] /\ drain'[m] = drain[m]
  BY <1>1 DEF Go
<1>3. TypeOK'
  <2>1. live' \subseteq Item /\ stored' \subseteq Item BY <1>1
  <2> QED BY <1>1, <1>2, <2>1 DEF TypeOK, Ended
<1>4. Grows BY <1>1, AccountedGrows
<1>5. NothingForgotten' BY <1>4, ForgottenStep DEF IInv
<1>6. DownInv' /\ LogInv' BY DEF IInv, DownInv, LogInv
<1>7. ReqInv' BY <1>1 DEF Ended
<1>8. LoopInv(l)' BY <1>1, <1>2 DEF Ended, LoopInv, CallInv, BatchInv, DrainInv
<1>9. ASSUME NEW m \in Loop \ {l} PROVE LoopInv(m)'
  BY <1>1, <1>2, <1>4, OtherLoopInv DEF Ended
<1> QED BY <1>3, <1>5, <1>6, <1>7, <1>8, <1>9 DEF IInv

\* Removing the item x takes nothing else.
LEMMA RemovedStep ==
  ASSUME IInv, up, NEW x, NEW n \in Nat, Removed(x, n)
  PROVE  /\ up' = up /\ live' \subseteq live /\ live \ live' \subseteq {x}
         /\ stored' = stored \/ stored' = live'
         /\ live' = stored' /\ faults' \in Nat
<1>1. faults \in Nat /\ live = stored BY DEF IInv, TypeOK, DownInv
<1>2. CASE x \in live /\ Queue!Take(x) /\ Faults(n) BY <1>1, <1>2 DEF Queue!Take, Faults
<1>3. CASE UNCHANGED queue /\ (Faults(n) \/ Faults(n + 1)) BY <1>1, <1>3 DEF queue, Faults
<1> QED BY <1>2, <1>3 DEF Removed

\* The item is on the server, is refused, or stays.
LEMMA ItemAnswered ==
  ASSUME IInv, NEW l \in Loop, ItemDelivered(l) \/ ItemRefused(l) \/ ItemFails(l)
  PROVE  IInv'
<1>1. /\ up /\ ph[l] = "flush" /\ faults \in Nat /\ refused \subseteq Event
      /\ drain \in [Loop -> SUBSET Item] /\ drain[l] \in SUBSET Item
      /\ UNCHANGED <<tail, aged, cursor, upto, wm, next, put, counted, first, rebased, evicted>>
  BY DEF ItemDelivered, ItemRefused, ItemFails, At, IInv, TypeOK, ghost
<1>2. CASE ItemFails(l)
  <2>1. /\ Failed(l) /\ Go(l, "idle") /\ drain' = [drain EXCEPT ![l] = {}]
        /\ UNCHANGED <<up, live, stored, refused>> /\ faults' \in Nat
    BY <1>1, <1>2 DEF ItemFails, Faults, queue, ghost
  <2>2. live' = stored' BY <1>1, <2>1 DEF IInv, DownInv
  <2> QED BY <1>1, <2>1, <2>2, ItemStep
<1>3. ASSUME NEW x \in Head(drain[l]), NEW n \in {0, 1}, Removed(x, n), Advance(l, x),
             Answered(l) \/ Rejected(l),
             refused \subseteq refused', refused' \subseteq Event,
             counted[x.ev] > 0 \/ x.ev \in refused'
      PROVE  IInv'
  <2>1. /\ up' = up /\ live' \subseteq live /\ live \ live' \subseteq {x}
        /\ stored' = stored \/ stored' = live'
        /\ live' = stored' /\ faults' \in Nat
    BY <1>1, <1>3, RemovedStep
  <2>2. PICK p \in {"idle", "flush"} : Go(l, p) BY <1>3 DEF Advance
  <2>3. drain' = [drain EXCEPT ![l] = drain[l] \ {x}] /\ drain[l] \ {x} \in SUBSET drain[l]
    BY <1>3 DEF Advance
  <2> QED BY <1>1, <1>3, <2>1, <2>2, <2>3, ItemStep
<1>4. CASE ItemDelivered(l)
  <2>1. PICK x \in Head(drain[l]) : Removed(x, 0) /\ Advance(l, x) BY <1>4 DEF ItemDelivered
  <2>2. Answered(l) /\ UNCHANGED refused BY <1>4 DEF ItemDelivered, ghost
  <2>3. call[l] \in Slot /\ call[l] # NoSlot /\ req[call[l]].phase = "done"
    BY <2>2, SlotAssumption DEF Answered
  <2>4. req[call[l]].at > req[call[l]].to BY <2>3 DEF IInv, ReqInv
  <2>5. /\ req[call[l]].to = x.ev
        /\ req[call[l]].at > x.ev => counted[x.ev] > 0
    BY <1>1, <2>1, <2>3 DEF IInv, LoopInv, DrainInv
  <2> QED BY <1>1, <1>3, <2>1, <2>2, <2>4, <2>5
<1>5. CASE ItemRefused(l)
  <2>1. PICK x \in Head(drain[l]) :
          Removed(x, 1) /\ Advance(l, x) /\ refused' = refused \cup {x.ev}
    BY <1>5 DEF ItemRefused
  <2>2. Rejected(l) /\ x.ev \in Event BY <1>1, <1>5, HeadType DEF ItemRefused
  <2> QED BY <1>1, <1>3, <2>1, <2>2
<1> QED BY <1>2, <1>4, <1>5

-----------------------------------------------------------------------------
(* The life of the agent                                                    *)

\* The process ends.
LEMMA StopStep == ASSUME IInv, NEW w \in {wm, 0}, Stop(w) PROVE IInv'
<1>1. /\ up' = FALSE /\ live' = {} /\ stored' = stored
      /\ wm' = w /\ cursor' = 0 /\ upto' = 0 /\ put' = 1
      /\ ph' = [l \in Loop |-> "idle"] /\ drain' = [l \in Loop |-> {}]
      /\ call' = [l \in Loop |-> NoSlot]
      /\ req' = [s \in Slot |-> IF req[s].phase = "done" THEN Free ELSE req[s]]
      /\ UNCHANGED <<tail, aged, next, counted, first, rebased, evicted, refused>>
  BY DEF Stop, Queue!Crash, ghost
<1>2. /\ TypeOK /\ MaxEvents \in Nat /\ wm \in 0..MaxEvents /\ tail \in 0..MaxEvents
      /\ faults \in Nat /\ req \in [Slot -> Request]
  BY LogAssumption DEF IInv, TypeOK
<1>3. Free \in Request BY <1>2 DEF Free, Handling, Request
<1>4. TypeOK'
  <2>1. faults' \in Nat BY <1>2 DEF Stop, Faults
  <2>2. req' \in [Slot -> Request] BY <1>1, <1>2, <1>3
  <2>3. /\ ph' \in [Loop -> {"idle", "send", "store", "save", "peek", "flush"}]
        /\ drain' \in [Loop -> SUBSET Item] /\ call' \in [Loop -> Slot \cup {NoSlot}]
    BY <1>1
  <2>4. /\ wm' \in 0..MaxEvents /\ cursor' \in 0..MaxEvents /\ upto' \in 0..MaxEvents
        /\ put' \in 1..(MaxEvents + 1)
    BY <1>1, <1>2
  <2> QED BY <1>1, <1>2, <2>1, <2>2, <2>3, <2>4 DEF TypeOK
<1>5. Grows BY <1>1, <1>2, AccountsKept
<1>6. NothingForgotten'
  <2>1. \A e \in Event : e <= cursor' \/ e <= wm' => e <= cursor \/ e <= wm
    BY <1>1, <1>2 DEF Event
  <2> QED BY <1>1, <1>5, <2>1, ForgottenStep DEF IInv
<1>7. DownInv' BY <1>1 DEF DownInv
<1>8. LogInv' BY <1>1, <1>2 DEF IInv, LogInv
<1>9. ReqInv'
  <2>1. \A s \in Slot : req'[s] = Free \/ req'[s] = req[s] BY <1>1
  <2> QED BY <1>1, <2>1 DEF IInv, ReqInv, Free, Handling
<1>10. ASSUME NEW l \in Loop PROVE LoopInv(l)'
  BY <1>1 DEF LoopInv, CallInv, BatchInv, DrainInv
<1> QED BY <1>4, <1>6, <1>7, <1>8, <1>9, <1>10 DEF IInv

\* The process starts, after its watermark or at a new baseline.
LEMMA StartStep == ASSUME IInv, Resume \/ Baseline PROVE IInv'
<1>1. /\ ~up /\ up' = TRUE /\ live' = stored /\ stored' = stored
      /\ UNCHANGED <<tail, aged, next, put, ph, drain, call, req, counted, evicted, refused>>
      /\ upto' = cursor'
  BY DEF Resume, Baseline, Queue!Start, ghost
<1>2. /\ TypeOK /\ MaxEvents \in Nat /\ wm \in 0..MaxEvents /\ tail \in 0..MaxEvents
      /\ faults \in Nat /\ wm <= tail /\ first \in Nat \cup {None} /\ rebased \in BOOLEAN
      /\ cursor \in 0..MaxEvents
  BY LogAssumption DEF IInv, TypeOK, LogInv
<1>3. /\ cursor' \in {wm, tail, 0} /\ wm' \in {wm, tail, 0} /\ wm' <= cursor'
      /\ first' \in Nat /\ rebased' \in BOOLEAN
  <2>1. CASE Resume
    <3>1. UNCHANGED <<first, rebased, wm>> /\ cursor' = wm /\ wm > 0 BY <2>1 DEF Resume, ghost
    <3>2. first # None BY <3>1 DEF IInv, LogInv
    <3> QED BY <1>2, <3>1, <3>2
  <2>2. CASE Baseline BY <1>2, <2>2 DEF Baseline, None
  <2> QED BY <2>1, <2>2
<1>4. TypeOK'
  <2>1. faults' \in Nat BY <1>2 DEF Resume, Baseline, Faults, NoFault
  <2> QED BY <1>1, <1>2, <1>3, <2>1 DEF TypeOK
<1>5. Grows BY <1>1, <1>2, AccountsKept
<1>6. NothingForgotten'
  <2>1. CASE Resume
    <3>1. UNCHANGED <<first, rebased, wm>> /\ cursor' = wm BY <2>1 DEF Resume, ghost
    <3> QED BY <1>5, <3>1, ForgottenStep DEF IInv
  <2>2. CASE Baseline
    <3>1. first' = (IF first = None THEN cursor' ELSE first) /\ rebased' = (rebased \/ first # None)
      BY <2>2 DEF Baseline
    <3>2. cursor' \in Nat /\ wm' \in Nat BY <1>2, <1>3
    <3>3. CASE first = None
      <4>1. first' = cursor' BY <3>1, <3>3
      <4>2. ~\E e \in Event : first' < e /\ (e <= cursor' \/ e <= wm')
        BY <1>3, <3>2, <4>1 DEF Event
      <4>3. Since(cursor)' = {} /\ Since(wm)' = {} BY <4>2 DEF Since
      <4> QED BY <4>3 DEF NothingForgotten
    <3>4. CASE first # None BY <3>1, <3>4 DEF NothingForgotten
    <3> QED BY <3>3, <3>4
  <2> QED BY <2>1, <2>2
<1>7. DownInv' BY <1>1, <1>3 DEF DownInv, None
<1>8. LogInv' BY <1>1, <1>2, <1>3 DEF LogInv, None
<1>9. ReqInv' BY <1>1 DEF IInv, ReqInv
<1>10. ASSUME NEW l \in Loop PROVE LoopInv(l)'
  BY <1>1 DEF IInv, DownInv, LoopInv, CallInv, BatchInv, DrainInv
<1> QED BY <1>4, <1>6, <1>7, <1>8, <1>9, <1>10 DEF IInv

-----------------------------------------------------------------------------
(* The theorems                                                             *)

LEMMA InitIInv == Init => IInv
<1> SUFFICES ASSUME Init PROVE IInv OBVIOUS
<1>1. TypeOK
  <2>1. Free \in Request BY LogAssumption DEF Free, Handling, Request
  <2>2. /\ ph \in [Loop -> {"idle", "send", "store", "save", "peek", "flush"}]
        /\ drain \in [Loop -> SUBSET Item] /\ call \in [Loop -> Slot \cup {NoSlot}]
        /\ req \in [Slot -> Request] /\ counted \in [Event -> Nat]
    BY <2>1 DEF Init
  <2>3. /\ tail \in 0..MaxEvents /\ aged \in 0..MaxEvents /\ cursor \in 0..MaxEvents
        /\ upto \in 0..MaxEvents /\ wm \in 0..MaxEvents /\ next \in 1..(MaxItems + 1)
        /\ put \in 1..(MaxEvents + 1) /\ first \in Nat \cup {None}
    BY LogAssumption, BoundsAssumption DEF Init
  <2> QED BY <2>2, <2>3 DEF Init, TypeOK
<1>2. NothingForgotten BY DEF Init, NothingForgotten, Since
<1>3. DownInv BY DEF Init, DownInv
<1>4. LogInv BY LogAssumption DEF Init, LogInv
<1>5. ReqInv BY DEF Init, ReqInv, Free, Handling
<1>6. ASSUME NEW l \in Loop PROVE LoopInv(l)
  BY DEF Init, LoopInv, CallInv, BatchInv, DrainInv
<1> QED BY <1>1, <1>2, <1>3, <1>4, <1>5, <1>6 DEF IInv

LEMMA NextIInv == IInv /\ [Next]_vars => IInv'
<1> SUFFICES ASSUME IInv, [Next]_vars PROVE IInv' OBVIOUS
<1>1. CASE UNCHANGED vars
  <2>1. UNCHANGED <<tail, aged, up, live, stored, cursor, upto, wm, next, put, ph, drain,
                    call, req, counted, first, rebased, evicted, refused, faults>>
    BY <1>1 DEF vars, queue, ghost
  <2>2. TypeOK' /\ TypeOK BY <2>1 DEF IInv, TypeOK
  <2>3. Grows BY <2>1, <2>2, AccountsKept
  <2>4. NothingForgotten' BY <2>1, <2>3, ForgottenStep DEF IInv
  <2>5. DownInv' /\ LogInv' /\ ReqInv' BY <2>1 DEF IInv, DownInv, LogInv, ReqInv
  <2>6. ASSUME NEW l \in Loop PROVE LoopInv(l)'
    BY <2>1, <2>3, <2>2, BystanderInv DEF IInv, Bystander, LoopInv, CallInv
  <2> QED BY <2>2, <2>4, <2>5, <2>6 DEF IInv
<1>2. CASE Server BY <1>2, FindStep, WriteStep DEF Server
<1>3. CASE Collect
  BY <1>3, ScanStep, SendBatchStep, BatchStep, StoreStep, SaveStep DEF Collect
<1>4. CASE \E l \in Loop : Drain(l)
  BY <1>4, FlushStep, SendItemStep, ItemAnswered DEF Drain
<1>5. CASE Life
  <2>1. CASE AgentStops BY <2>1, StopStep DEF AgentStops
  <2>2. CASE StopsWhileSaving BY <2>2, StopStep DEF StopsWhileSaving
  <2> QED BY <1>5, <2>1, <2>2, StartStep DEF Life
<1> QED BY <1>1, <1>2, <1>3, <1>4, <1>5, LogStep DEF Next

\* The inductive invariant holds in every reachable state.
THEOREM PipelineInvariance == Spec => []IInv
BY InitIInv, NextIInv, PTL DEF Spec

\* The variables keep their types.
THEOREM PipelineTypes == Spec => []TypeOK
<1>1. IInv => TypeOK BY DEF IInv
<1> QED BY <1>1, PipelineInvariance, PTL

\* Nothing between the first baseline and the watermark is forgotten.
THEOREM PipelineForgetsNothing == Spec => []NothingForgotten
<1>1. IInv => NothingForgotten BY DEF IInv
<1> QED BY <1>1, PipelineInvariance, PTL

-----------------------------------------------------------------------------
(* Without faults                                                           *)

\* As long as nothing fails the buffer stays empty, one request at most is in progress, and each
\* event that was handled since the baseline is counted once.
Handled == IF call["events"] = NoSlot THEN cursor ELSE req[call["events"]].at - 1
Counted == {e \in Event : first # None /\ first < e /\ e <= Handled}

Calm ==
  /\ live = {} /\ stored = {}
  /\ ph["events"] \in {"idle", "send", "save", "peek"} /\ ph["others"] = "idle"
  /\ IF first = None THEN ~up ELSE up /\ first <= cursor
  /\ \A s \in Slot : req[s] = Free \/ s = call["events"]
  /\ call["events"] # NoSlot =>
       /\ cursor <= Handled /\ Handled <= upto
       /\ req[call["events"]].phase = "done" => Handled = upto
  /\ \A e \in Event : counted[e] = IF e \in Counted THEN 1 ELSE 0

XInv == IInv /\ (faults = 0 => Calm)

\* What no step of a calm agent changes keeps it calm.
LEMMA CalmKept ==
  ASSUME IInv, Calm,
         UNCHANGED <<live, stored, up, cursor, call, req, counted, first>>,
         upto' = upto \/ call["events"] = NoSlot,
         ph'["events"] \in {"idle", "send", "save", "peek"}, ph'["others"] = "idle"
  PROVE  Calm'
<1>1. Handled' = Handled /\ Counted' = Counted BY DEF Handled, Counted
<1> QED BY <1>1 DEF Calm

\* The request of a calm agent.
LEMMA CalmCall ==
  ASSUME IInv, Calm, NEW s \in Slot, req[s] # Free
  PROVE  /\ call["events"] = s /\ s # NoSlot /\ ph["events"] = "send"
         /\ req[s].to = upto /\ Handled = req[s].at - 1 /\ first # None
         /\ req[s].at \in Nat /\ req[s].to \in Nat /\ req[s].to <= MaxEvents
<1>1. call["events"] = s BY DEF Calm
<1>2. s # NoSlot BY SlotAssumption
<1>3. ph["events"] = "send" BY <1>1, <1>2 DEF Calm, IInv, LoopInv, CallInv, Loop
<1>4. req[s].to = upto BY <1>1, <1>2, <1>3 DEF IInv, LoopInv, BatchInv, Loop
<1>5. first # None BY <1>3 DEF Calm, IInv, DownInv, Loop
<1>6. req[s].at \in Nat /\ req[s].to \in 0..MaxEvents
  BY LogAssumption DEF IInv, TypeOK, Request
<1> QED BY <1>1, <1>2, <1>3, <1>4, <1>5, <1>6, LogAssumption DEF Handled

\* The server handles the next event of the batch: it is not counted yet.
LEMMA CalmServer ==
  ASSUME IInv, Calm, NEW s \in Slot, Find(s) \/ Write(s)
  PROVE  Calm'
<1>1. UNCHANGED <<up, live, stored, cursor, upto, ph, call, first>>
  BY DEF Find, Write, queue, agent, ghost
<1>2. req[s].phase \in {"new", "find", "write"} BY DEF Find, Write
<1>3. req[s] # Free BY <1>2 DEF Free, Handling
<1>4. /\ call["events"] = s /\ s # NoSlot /\ req[s].to = upto
      /\ Handled = req[s].at - 1 /\ first # None
      /\ req[s].at \in Nat /\ req[s].to \in Nat /\ req[s].to <= MaxEvents
  BY <1>3, CalmCall
<1>5. req \in [Slot -> Request] /\ req[s].at <= req[s].to /\ req[s].at \in Event
  <2>1. req \in [Slot -> Request] /\ req[s].at <= req[s].to
    BY <1>2 DEF IInv, TypeOK, ReqInv
  <2>2. req[s].at \in 1..(MaxEvents + 1) BY <2>1 DEF Request
  <2> QED BY <1>4, <2>1, <2>2, LogAssumption DEF Event
<1>6. cursor \in Nat /\ cursor <= Handled BY <1>4 DEF Calm, IInv, TypeOK
<1>7. CASE Find(s)
  <2>1. /\ req'[s] = [req[s] EXCEPT !.phase = "write", !.found = Existing(req[s].at)]
        /\ \A t \in Slot : t # s => req'[t] = req[t]
    BY <1>5, <1>7 DEF Find
  <2>2. req'[s].at = req[s].at /\ req'[s].phase = "write" BY <1>5, <2>1 DEF Request
  <2>3. Handled' = Handled /\ Counted' = Counted /\ counted' = counted
    BY <1>1, <1>4, <1>7, <2>2 DEF Handled, Counted, Find
  <2> QED BY <1>1, <1>4, <2>1, <2>2, <2>3 DEF Calm
<1>8. CASE Write(s)
  <2> DEFINE e == req[s].at
  <2>1. counted[e] = 0 BY <1>4, <1>5 DEF Calm, Counted, Event
  <2>2. ~(e \in Crashes /\ req[s].found) BY <2>1 DEF IInv, ReqInv
  <2>3. counted' = [counted EXCEPT ![e] = @ + 1] BY <1>8, <2>2 DEF Write
  <2>4. \E l \in Loop : call[l] = s BY <1>4 DEF Loop
  <2>5. /\ req' = [req EXCEPT ![s] = After(req[s], TRUE)]
        /\ After(req[s], TRUE) \in {Handling("find", e + 1, upto), Handling("done", e + 1, upto)}
        /\ After(req[s], TRUE).phase = "done" => ~(e < upto)
    BY <1>4, <1>8, <2>4 DEF Write, After, Handling
  <2>6. /\ req'[s].at = e + 1
        /\ req'[s].phase = "done" => ~(e < upto)
        /\ \A t \in Slot : t # s => req'[t] = req[t]
    <3>1. req'[s] = After(req[s], TRUE) /\ \A t \in Slot : t # s => req'[t] = req[t]
      BY <1>5, <2>5
    <3>2. \A p : Handling(p, e + 1, upto).at = e + 1 BY DEF Handling
    <3>3. After(req[s], TRUE).at = e + 1
      <4>1. CASE After(req[s], TRUE) = Handling("find", e + 1, upto) BY <3>2, <4>1
      <4>2. CASE After(req[s], TRUE) = Handling("done", e + 1, upto) BY <3>2, <4>2
      <4> QED BY <2>5, <4>1, <4>2
    <3> QED BY <2>5, <3>1, <3>3
  <2>7. Handled' = e BY <1>1, <1>4, <2>6 DEF Handled
  <2>8. first \in Nat BY <1>4 DEF IInv, TypeOK
  <2>9. first <= cursor BY <1>4 DEF Calm
  <2>10. e \in Counted' /\ \A f \in Event : f # e => (f \in Counted' <=> f \in Counted)
    BY <1>1, <1>4, <1>5, <1>6, <2>7, <2>8, <2>9 DEF Counted, Event
  <2>11. \A f \in Event : counted'[f] = IF f \in Counted' THEN 1 ELSE 0
    <3>1. counted \in [Event -> Nat] BY DEF IInv, TypeOK
    <3> QED BY <1>5, <2>1, <2>3, <2>10, <3>1 DEF Calm
  <2>12. cursor <= e /\ e <= upto /\ (req'[s].phase = "done" => e = upto)
    BY <1>4, <1>5, <1>6, <2>6
  <2> QED BY <1>1, <1>4, <2>6, <2>7, <2>11, <2>12 DEF Calm
<1> QED BY <1>7, <1>8

\* Nothing that fails is taken for a step of a calm agent.
LEMMA NoFaults ==
  ASSUME IInv, [Next]_vars, faults' = 0
  PROVE  faults = 0 /\ \A n \in Nat : Faults(n) => n = 0
<1>1. faults \in Nat BY DEF IInv, TypeOK
<1>2. \A n \in Nat : Faults(n) => n = 0 /\ faults = 0 BY <1>1 DEF Faults
<1> DEFINE Known == faults' = faults \/ \E n \in Nat : Faults(n)
<1>3. ASSUME Store PROVE Known
  <2>1. PICK E \in SUBSET live : Faults(IF E = {} THEN 0 ELSE 1) BY <1>3 DEF Store
  <2>2. (IF E = {} THEN 0 ELSE 1) \in Nat OBVIOUS
  <2> QED BY <2>1, <2>2
<1>4. ASSUME Scan \/ SaveFails \/ Baseline PROVE Known
  BY <1>4 DEF Scan, NoFault, SaveFails, Baseline
<1>5. ASSUME NEW l \in Loop, Drain(l) PROVE Known
  <2>1. ASSUME NEW x, Removed(x, 0) \/ Removed(x, 1) PROVE Known BY <2>1 DEF Removed
  <2> QED BY <1>5, <2>1 DEF Drain, Flush, SendItem, ItemDelivered, ItemRefused, ItemFails
<1>6. ASSUME \/ AgentStops \/ StopsWhileSaving \/ DayPasses
             \/ BatchRefused \/ BatchFails \/ StoreFails
      PROVE  Known
  BY <1>6 DEF AgentStops, StopsWhileSaving, Stop, DayPasses, BatchRefused, BatchFails, StoreFails
<1>7. ASSUME \/ Occur \/ Server \/ SendBatch \/ BatchDelivered
             \/ SaveWatermark \/ Resume \/ UNCHANGED vars
      PROVE  Known
  BY <1>7 DEF Occur, Server, Find, Write, SendBatch, BatchDelivered, SaveWatermark, Resume, vars
<1> QED BY <1>2, <1>3, <1>4, <1>5, <1>6, <1>7 DEF Next, Collect, Life

\* The rounds of the loops of a calm agent: nothing fails, so that nothing is ever buffered.
LEMMA CalmCollect ==
  ASSUME IInv, Calm, Collect, \A n \in Nat : Faults(n) => n = 0
  PROVE  Calm'
<1> USE DEF queue, agent, ghost, At, Go
<1>0. /\ ph \in [Loop -> {"idle", "send", "store", "save", "peek", "flush"}]
      /\ call \in [Loop -> Slot \cup {NoSlot}] /\ req \in [Slot -> Request]
      /\ "events" \in Loop /\ "others" \in Loop
      /\ ph["events"] \in {"idle", "send", "save", "peek"} /\ ph["others"] = "idle"
      /\ ~Faults(1) /\ ~Faults(2)
      /\ cursor \in Nat /\ upto \in Nat
  BY DEF IInv, TypeOK, Calm, Loop
<1>1. CASE Scan
  <2>1. call["events"] = NoSlot BY <1>0, <1>1 DEF Scan, IInv, LoopInv, CallInv
  <2>2. /\ UNCHANGED <<live, stored, up, cursor, call, req, counted, first>>
        /\ ph'["events"] \in {"save", "send"} /\ ph'["others"] = "idle"
    BY <1>0, <1>1 DEF Scan
  <2> QED BY <2>1, <2>2, CalmKept
<1>2. CASE SendBatch
  <2>1. PICK s \in Slot :
          /\ call["events"] = NoSlot /\ req[s] = Free
          /\ req' = [req EXCEPT ![s] = Handling("new", cursor + 1, upto)]
          /\ call' = [call EXCEPT !["events"] = s]
    BY <1>2 DEF SendBatch, Post
  <2>2. UNCHANGED <<live, stored, up, cursor, upto, ph, counted, first>> BY <1>2 DEF SendBatch
  <2>3. call'["events"] = s /\ s # NoSlot BY <1>0, <2>1, SlotAssumption
  <2>4. /\ req'[s].at = cursor + 1 /\ req'[s].phase = "new"
        /\ \A t \in Slot : t # s => req'[t] = req[t]
    BY <1>0, <2>1 DEF Handling
  <2>5. Handled' = cursor /\ Handled = cursor BY <1>0, <2>1, <2>3, <2>4 DEF Handled
  <2>6. Counted' = Counted BY <2>2, <2>5 DEF Counted
  <2>7. cursor < upto BY <1>0, <1>2 DEF SendBatch, IInv, LoopInv, BatchInv
  <2>8. \A t \in Slot : req'[t] = Free \/ t = s
    BY <2>1, <2>4, SlotAssumption DEF Calm
  <2> QED BY <1>0, <2>2, <2>3, <2>4, <2>5, <2>6, <2>7, <2>8 DEF Calm
<1>3. CASE BatchDelivered
  <2>1. /\ call["events"] \in Slot /\ req[call["events"]].phase = "done" /\ cursor' = upto
        /\ req' = [req EXCEPT ![call["events"]] = Free]
        /\ call' = [call EXCEPT !["events"] = NoSlot]
        /\ UNCHANGED <<live, stored, up, upto, counted, first>>
        /\ ph'["events"] = "save" /\ ph'["others"] = "idle"
    BY <1>0, <1>3 DEF BatchDelivered, Answered, Close
  <2>2. Handled = upto /\ cursor <= upto BY <1>0, <2>1, SlotAssumption DEF Calm
  <2>3. call'["events"] = NoSlot /\ \A t \in Slot : req'[t] = Free
    BY <1>0, <2>1 DEF Calm
  <2>4. Handled' = upto /\ Counted' = Counted BY <2>1, <2>2, <2>3 DEF Handled, Counted
  <2>5. first # None => first \in Nat /\ first <= upto
    BY <1>0, <2>2 DEF Calm, IInv, TypeOK
  <2> QED BY <2>1, <2>3, <2>4, <2>5 DEF Calm
<1>4. CASE SaveWatermark
  <2>1. /\ UNCHANGED <<live, stored, up, cursor, upto, call, req, counted, first>>
        /\ ph'["events"] = "peek" /\ ph'["others"] = "idle"
    BY <1>0, <1>4 DEF SaveWatermark
  <2> QED BY <2>1, CalmKept
<1>5. ~(BatchRefused \/ BatchFails \/ Store \/ StoreFails \/ SaveFails)
  BY <1>0 DEF BatchRefused, BatchFails, Store, StoreFails, SaveFails
<1> QED BY <1>1, <1>2, <1>3, <1>4, <1>5 DEF Collect

LEMMA CalmDrain ==
  ASSUME IInv, Calm, NEW l \in Loop, Drain(l)
  PROVE  Calm'
<1> USE DEF queue, agent, ghost, At, Go
<1>1. ph \in [Loop -> {"idle", "send", "store", "save", "peek", "flush"}] /\ ph[l] # "flush"
  BY DEF IInv, TypeOK, Calm, Loop
<1>2. Flush(l) BY <1>1 DEF Drain, SendItem, ItemDelivered, ItemRefused, ItemFails
<1>3. live = {} BY DEF Calm
<1>4. ph' = [ph EXCEPT ![l] = "idle"] BY <1>2, <1>3 DEF Flush
<1>5. ph'["events"] \in {"idle", "send", "save", "peek"} /\ ph'["others"] = "idle"
  BY <1>1, <1>4 DEF Calm, Loop
<1>6. UNCHANGED <<live, stored, up, cursor, upto, call, req, counted, first>>
  BY <1>2 DEF Flush
<1> QED BY <1>5, <1>6, CalmKept

\* The agent starts once, and takes the end of the log for its baseline.
LEMMA CalmStart ==
  ASSUME IInv, Calm, Life, \A n \in Nat : Faults(n) => n = 0
  PROVE  Calm'
<1> USE DEF queue, agent, ghost
<1>0. ~Faults(1) OBVIOUS
<1>1. ~(AgentStops \/ StopsWhileSaving) BY <1>0 DEF AgentStops, StopsWhileSaving, Stop
<1>2. ~up /\ first = None
  BY <1>1 DEF Life, Resume, Baseline, Queue!Start, Calm
<1>3. ~Resume BY <1>2 DEF Resume, IInv, LogInv
<1>4. /\ cursor' = tail /\ first' = tail /\ upto' = tail /\ up' = TRUE /\ live' = {} /\ stored' = {}
      /\ UNCHANGED <<ph, call, req, counted>>
  BY <1>0, <1>1, <1>2, <1>3 DEF Life, Baseline, Queue!Start, Calm
<1>5. call["events"] = NoSlot BY <1>2 DEF IInv, DownInv, Loop
<1>6. tail \in Nat /\ tail # None BY LogAssumption DEF IInv, TypeOK, None
<1>7. Counted' = {} /\ Counted = {}
  BY <1>2, <1>4, <1>5, <1>6 DEF Counted, Handled, Event
<1> QED BY <1>4, <1>5, <1>6, <1>7 DEF Calm

\* Without faults every event after the baseline is counted once.
THEOREM PipelineExact == Spec => []ExactWithoutFaults
<1>1. Init => XInv
  <2> SUFFICES ASSUME Init PROVE Calm BY InitIInv DEF XInv
  <2> QED BY DEF Init, Calm, Counted, Loop
<1>2. XInv /\ [Next]_vars => XInv'
  <2> SUFFICES ASSUME XInv, [Next]_vars, faults' = 0 PROVE Calm' BY NextIInv DEF XInv
  <2>1. IInv /\ Calm /\ \A n \in Nat : Faults(n) => n = 0 BY NoFaults DEF XInv
  <2>2. CASE Occur \/ UNCHANGED vars
    <3>1. UNCHANGED <<live, stored, up, cursor, upto, ph, call, req, counted, first>>
      BY <2>2 DEF Occur, vars, queue, agent, ghost
    <3>2. ph'["events"] \in {"idle", "send", "save", "peek"} /\ ph'["others"] = "idle"
      BY <2>1, <3>1 DEF Calm
    <3> QED BY <2>1, <3>1, <3>2, CalmKept
  <2>3. CASE DayPasses BY <2>1, <2>3 DEF DayPasses
  <2>4. CASE Server BY <2>1, <2>4, CalmServer DEF Server
  <2> QED BY <2>1, <2>2, <2>3, <2>4, CalmCollect, CalmDrain, CalmStart DEF Next
<1>3. XInv => ExactWithoutFaults
  <2> SUFFICES ASSUME IInv, Calm, NEW e \in Event
               PROVE  /\ counted[e] <= IF e \in Since(tail) THEN 1 ELSE 0
                      /\ e \in Since(cursor) => counted[e] = 1
    BY DEF XInv, ExactWithoutFaults
  <2>1. /\ cursor \in Nat /\ upto \in Nat /\ tail \in Nat /\ e \in Nat
        /\ cursor <= tail /\ upto <= tail
    BY LogAssumption DEF IInv, TypeOK, LogInv, Event
  <2>2. cursor <= Handled /\ Handled <= tail /\ Handled \in Int
    <3>1. CASE call["events"] = NoSlot BY <2>1, <3>1 DEF Handled
    <3>2. CASE call["events"] # NoSlot
      <4>1. req[call["events"]] \in Request BY <3>2 DEF IInv, TypeOK, Loop
      <4> QED BY <2>1, <3>2, <4>1, LogAssumption DEF Calm, Handled, Request
    <3> QED BY <3>1, <3>2
  <2>3. counted[e] = IF e \in Counted THEN 1 ELSE 0 BY DEF Calm
  <2> QED BY <2>1, <2>2, <2>3 DEF Counted, Since
<1> QED BY <1>1, <1>2, <1>3, PTL DEF Spec

=============================================================================
