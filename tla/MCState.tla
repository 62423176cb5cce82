------------------------------ MODULE MCState ------------------------------
(***************************************************************************)
(* State on a small instance: two daemon processes with two handlers each. *)
(* Neither the processes nor the handlers are told apart.                  *)
(***************************************************************************)
EXTENDS State, TLC

ProcessSymmetry == Permutations(Daemons) \cup Permutations(Handlers)
=============================================================================
