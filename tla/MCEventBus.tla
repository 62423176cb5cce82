----------------------------- MODULE MCEventBus -----------------------------
(***************************************************************************)
(* EventBus on small instances.  The calls are interchangeable, so safety  *)
(* runs use their permutations as symmetry; liveness runs do not.          *)
(***************************************************************************)
EXTENDS EventBus, TLC

StreamSymmetry == Permutations(Streams)
=============================================================================
