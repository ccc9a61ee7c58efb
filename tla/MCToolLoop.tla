----------------------------- MODULE MCToolLoop -----------------------------
(***************************************************************************)
(* The turns of every agent over the rosters that make a difference.       *)
(***************************************************************************)
EXTENDS ToolLoop

MCRosters == {{}, Workers}
=============================================================================
