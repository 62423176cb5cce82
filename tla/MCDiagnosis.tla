---------------------------- MODULE MCDiagnosis ----------------------------
(***************************************************************************)
(* Diagnosis with the budgets of Registry and the deadlines of the CLI, in *)
(* seconds, and with commands that answer at once or take a while.         *)
(***************************************************************************)
EXTENDS Diagnosis

RegistryBudget == <<0, 3, 3, 8, 3, 1, 8>>
CliPatience    == [status |-> 15, doctor |-> 20, repair |-> 8]
=============================================================================
