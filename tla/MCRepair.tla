------------------------------ MODULE MCRepair ------------------------------
(***************************************************************************)
(* Repair on small instances: one user, whose handlers may overlap.        *)
(***************************************************************************)
EXTENDS Repair, TLC
=============================================================================
