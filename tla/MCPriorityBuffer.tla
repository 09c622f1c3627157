--------------------------- MODULE MCPriorityBuffer ---------------------------
(***************************************************************************)
(* PriorityBuffer for TLC, with the eviction loop of Enqueue written step  *)
(* by step as a reference for Kept.                                        *)
(***************************************************************************)
EXTENDS PriorityBuffer

\* evictOneLowerPriority: the first item of the lowest importance below that of x.
First(S) == CHOOSE y \in S : \A z \in S : z.pri < y.pri \/ (z.pri = y.pri /\ y.id <= z.id)

RECURSIVE Loop(_, _)
Loop(S, x) ==
  IF Total(S) + x.size <= MaxBytes \/ S = {} THEN S
  ELSE LET lower == {y \in S : y.pri > x.pri} IN
       IF lower # {} THEN Loop(S \ {First(lower)}, x)
       ELSE IF x.pri >= PriorityMetrics THEN S
       ELSE Loop(S \ {First(S)}, x)

\* What Enqueue keeps of any queue that can arise is what its loop leaves, for
\* every item that may be offered to it.
KeptIsTheLoop ==
  up /\ next \in Id =>
    \A p \in Priority, z \in Size :
      Kept(items, Offered(p, z)) = {Loop(items, Offered(p, z))}

\* The items that Enqueue gives up are those its loop reaches first, and no critical event is
\* among them while metrics or inventories stay.
EvictedByWorth == [][KeptIsTheLoop /\ SparesCritical]_vars
=============================================================================
