------------------------------ MODULE MCThread ------------------------------
(***************************************************************************)
(* One task of any origin, a drafting and an interviewing agent, two       *)
(* overlapping requests.                                                   *)
(***************************************************************************)
EXTENDS Thread
=============================================================================
