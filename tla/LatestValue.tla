---------------------------- MODULE LatestValue -----------------------------
(***************************************************************************)
(* What a replicated view promises: it shows values that were written, it   *)
(* never goes back to an older one, and it catches up with every write      *)
(* although it may skip some.  Values are numbered in the order they were   *)
(* written; a view that shows nothing yet shows 0.                          *)
(***************************************************************************)
EXTENDS Integers

CONSTANT MaxVersion     \* bound: the newest value written in a behaviour

VARIABLES
    written,            \* the newest value
    shown               \* the value in view

vars == <<written, shown>>

Init == written \in Nat /\ shown = 0

\* A newer value replaces the old one at the source.
Write ==
    /\ written' \in Nat
    /\ written' > written
    /\ UNCHANGED shown

\* The view moves to a newer value, though not always to the newest.
Show ==
    /\ shown' \in shown + 1 .. written
    /\ UNCHANGED written

Next == Write \/ Show

\* Every value is shown in the end, or a newer one is.
CatchesUp == \A v \in 1 .. MaxVersion : (written >= v) ~> (shown >= v)

Safety == Init /\ [][Next]_vars
Spec == Safety /\ CatchesUp
=============================================================================
