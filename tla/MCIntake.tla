------------------------------ MODULE MCIntake ------------------------------
(***************************************************************************)
(* One intake, three turns, three requests at once.                        *)
(***************************************************************************)
EXTENDS Intake, TLC

\* Requests differ in nothing but their names.
Symmetry == Permutations(Requests)
=============================================================================
