--------------------------- MODULE MCSubscription ---------------------------
(***************************************************************************)
(* The kinds of the items for a small instance: turn 1 is a message and    *)
(* then a task, turn 2 a task and then a message, turn 3 only tasks.       *)
(***************************************************************************)
EXTENDS Subscription

MCKind(t, i) == IF t = i THEN "message" ELSE "task"
=============================================================================
