--------------------------- MODULE MCEventPipeline ----------------------------
(***************************************************************************)
(* EventPipeline for TLC.                                                  *)
(***************************************************************************)
EXTENDS EventPipeline, TLC

\* Requests in progress are interchangeable (runs without liveness only).
SlotSymmetry == Permutations(Slot)
=============================================================================
