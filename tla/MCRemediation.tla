--------------------------- MODULE MCRemediation ---------------------------
(***************************************************************************)
(* Remediation for TLC: alerts and tasks are interchangeable.              *)
(***************************************************************************)
EXTENDS Remediation, TLC

Symmetric == Permutations(Alert) \cup Permutations(Task)
=============================================================================
