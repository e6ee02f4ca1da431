----------------------------- MODULE PlanArith -----------------------------
(* The arithmetic the tiling planners share.                               *)
EXTENDS Integers

CeilDiv(a, b) == (a + b - 1) \div b
RoundUp(a, b) == CeilDiv(a, b) * b
Least(a, b) == IF a < b THEN a ELSE b
=============================================================================
