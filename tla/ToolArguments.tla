--------------------------- MODULE ToolArguments ---------------------------
(***************************************************************************)
(* What the arguments of the tools of the scheduler's and the broker's     *)
(* specialists have in common.  An optional argument is a set of at most   *)
(* one value.                                                              *)
(***************************************************************************)
EXTENDS Integers, FiniteSets

Maybe(S) == {x \in SUBSET S : \A v, w \in x : v = w}
OneOf(x, default) == IF x = {} THEN default ELSE CHOOSE v \in x : TRUE
NotPositive(x) == \E n \in x : n <= 0

Sides == {"BUY", "SELL"}
OrderTypes == {"MARKET", "LIMIT", "STOP", "STOP_LIMIT"}

=============================================================================
