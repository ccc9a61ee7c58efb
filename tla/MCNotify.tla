------------------------------ MODULE MCNotify ------------------------------
(***************************************************************************)
(* A task whose user wants its mail and that waits twice, and another, of  *)
(* one of two kinds, that may hold it up; ticks that take up one task; and *)
(* a user who has silenced waiting tasks, and in one request turns on the  *)
(* mail about done ones, or about waiting ones again.                      *)
(***************************************************************************)
EXTENDS Notify

CONSTANTS t1, t2

TwoTasks == {t1, t2}
Wishful == {[creator |-> "user", notify |-> "own"]}
Others == {[creator |-> "orphan", notify |-> "own"],
           [creator |-> "user", notify |-> "unset"]}
AnyOther == [t \in TwoTasks |-> IF t = t1 THEN Wishful ELSE Others]
TwiceAndOnce == [t \in TwoTasks |-> IF t = t1 THEN 2 ELSE 1]
Silent == {[done |-> "unset", waiting |-> "off"]}
EitherOn == {[done |-> "on", waiting |-> "unset"], [done |-> "unset", waiting |-> "on"]}
=============================================================================
