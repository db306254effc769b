---------------------------- MODULE MCRetention -----------------------------
(* Retention on a calendar of two-day weeks and three-day months, so that  *)
(* every other week lies in two months.                                    *)
EXTENDS Retention

NoWindows == [daily |-> 0, weekly |-> 0, monthly |-> FALSE]
Ladder(d, w, m) == [daily |-> d, weekly |-> w, monthly |-> m]

MCPolicies ==
  {[tier |-> "basic", keepLastN |-> 2, windows |-> NoWindows, cap |-> 3],
   [tier |-> "two_tier", keepLastN |-> 0, windows |-> Ladder(0, 2, FALSE), cap |-> 3],
   [tier |-> "three_tier", keepLastN |-> 0, windows |-> Ladder(0, 1, TRUE), cap |-> 3]}
MCCustomDefault == Ladder(0, 1, TRUE)
=============================================================================
