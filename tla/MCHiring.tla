------------------------------ MODULE MCHiring ------------------------------
(***************************************************************************)
(* One label besides the empty and the omitted one, three secrets, two     *)
(* requests at once.                                                       *)
(***************************************************************************)
EXTENDS Hiring
=============================================================================
