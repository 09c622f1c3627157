----------------------------- MODULE DurableQueue -----------------------------
(***************************************************************************)
(* What the offline buffer promises to the rest of the agent: a set of     *)
(* items that survives the end of the process.  Every change that is        *)
(* acknowledged is also on disk; a change that fails leaves no trace; one   *)
(* that the end of the process interrupts happened or did not.             *)
(* PriorityBuffer implements it, EventPipeline is built on it.             *)
(***************************************************************************)
CONSTANT Item

VARIABLES
  up,       \* the agent is running
  live,     \* the queue in memory
  stored,   \* the queue that the next start would load
  lost      \* a repair failed: the promise of durability is void

queueVars == <<up, live, stored, lost>>

Init ==
  /\ up \in BOOLEAN
  /\ live = {} /\ stored = {}
  /\ lost = FALSE

\* Enqueue of x, giving up the items E for it.
Put(x, E) ==
  /\ up /\ E \subseteq live /\ x \notin live
  /\ live' = (live \ E) \cup {x}
  /\ stored' = live'
  /\ UNCHANGED up /\ lost' = lost

\* Enqueue that gives up the items E and then the new one: E is on disk still.
Drop(E) ==
  /\ up /\ E \subseteq live
  /\ live' = live \ E
  /\ UNCHANGED <<up, stored>> /\ lost' = lost

Take(x) ==
  /\ up /\ x \in live
  /\ live' = live \ {x}
  /\ stored' = live'
  /\ UNCHANGED up /\ lost' = lost

\* The process ends, leaving S on disk: its last save, or the one in progress.
Crash(S) ==
  /\ up /\ up' = FALSE
  /\ live' = {}
  /\ stored' = S
  /\ lost' = lost

Start ==
  /\ ~up
  /\ up' = TRUE /\ live' = stored
  /\ UNCHANGED stored /\ lost' = lost

\* A second fault strikes the repair of a first: from then on a fault can lose
\* what is in memory or what is on disk.
Lose ==
  /\ lost' = TRUE
  /\ stored' \in {stored, {}}
  /\ live' \in {live, {}}
  /\ up' \in BOOLEAN

Next ==
  \/ \E x \in Item, E \in SUBSET live :
       Put(x, E) \/ Drop(E) \/ Crash((live \ E) \cup {x})
  \/ \E x \in live : Take(x) \/ Crash(live \ {x})
  \/ Crash(stored) \/ Start \/ Lose

Spec == Init /\ [][Next]_queueVars
=============================================================================
