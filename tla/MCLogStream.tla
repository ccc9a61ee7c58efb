---------------------------- MODULE MCLogStream ----------------------------
(***************************************************************************)
(* Three lines, two appends at once, two connections and a fault.        *)
(***************************************************************************)
EXTENDS LogStream
=============================================================================
