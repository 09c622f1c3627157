--------------------------- MODULE ActionLifecycle ---------------------------
(***************************************************************************)
(* What the subsystem of remote actions promises, without requests, leases *)
(* or an agent that polls: the state machine of docs/remote-actions.md,    *)
(* with what the device really did (runs, outcome) and the server's own    *)
(* verdict on an execution it lost sight of (leaseExpired).                *)
(***************************************************************************)
EXTENDS Integers

CONSTANT Action

VARIABLES status, leaseExpired, runs, outcome

vars == <<status, leaseExpired, runs, outcome>>

Waiting == {"PENDING", "DELIVERED"}
Final   == {"SUCCESS", "FAILED"}

Init ==
  /\ status       = [a \in Action |-> "ABSENT"]
  /\ leaseExpired = [a \in Action |-> FALSE]
  /\ runs         = [a \in Action |-> 0]
  /\ outcome      = [a \in Action |-> "NONE"]

Become(a, st, lease) ==
  /\ status' = [status EXCEPT ![a] = st]
  /\ leaseExpired' = [leaseExpired EXCEPT ![a] = lease]
  /\ UNCHANGED <<runs, outcome>>

Create(a)  == status[a] = "ABSENT" /\ Become(a, "PENDING", FALSE)
Deliver(a) == status[a] \in Waiting /\ Become(a, "DELIVERED", FALSE)

\* Ended before anything was executed.
Withdraw(a) ==
  /\ status[a] \in Waiting /\ runs[a] = 0
  /\ \E st \in {"CANCELLED", "EXPIRED"} : Become(a, st, FALSE)

Start(a) == status[a] = "DELIVERED" /\ Become(a, "RUNNING", FALSE)

\* The device executes once, after RUNNING was recorded; the server may have
\* given the execution up in the meantime, but has no final report of it.
Execute(a) ==
  /\ status[a] = "RUNNING" \/ (status[a] = "FAILED" /\ leaseExpired[a])
  /\ runs[a] = 0
  /\ runs' = [runs EXCEPT ![a] = 1]
  /\ UNCHANGED <<status, leaseExpired, outcome>>

Finish(a) ==
  /\ runs[a] = 1 /\ outcome[a] = "NONE"
  /\ \E o \in Final : outcome' = [outcome EXCEPT ![a] = o]
  /\ UNCHANGED <<status, leaseExpired, runs>>

\* The execution lease ends: FAILED, provisionally.
Abandon(a) == status[a] = "RUNNING" /\ Become(a, "FAILED", TRUE)

\* The report of the device replaces RUNNING or the provisional verdict.
Open(a) == status[a] = "RUNNING" \/ (status[a] = "FAILED" /\ leaseExpired[a])
Conclude(a) == Open(a) /\ outcome[a] # "NONE" /\ Become(a, outcome[a], FALSE)

\* The device refuses to execute an action it holds for expired.
Discard(a) ==
  /\ status[a] = "DELIVERED" \/ Open(a)
  /\ runs[a] = 0
  /\ Become(a, "FAILED", FALSE)

Next == \E a \in Action :
  \/ Create(a) \/ Deliver(a) \/ Withdraw(a) \/ Start(a) \/ Execute(a)
  \/ Finish(a) \/ Abandon(a) \/ Conclude(a) \/ Discard(a)

Spec == Init /\ [][Next]_vars
=============================================================================
