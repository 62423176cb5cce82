---------------------------- MODULE MCLifecycle ----------------------------
(***************************************************************************)
(* Lifecycle on small instances: two daemon processes at a time, one or    *)
(* two terminals, one ordinary call and one event stream.  Processes are   *)
(* interchangeable, and so are terminals.                                  *)
(***************************************************************************)
EXTENDS Lifecycle, TLC

ProcessSymmetry == Permutations(Daemons) \cup Permutations(Commands)
=============================================================================
