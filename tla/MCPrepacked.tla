---------------------------- MODULE MCPrepacked ----------------------------
\* A planner whose K tile shrinks as the input tile grows, up to the tile cap.
EXTENDS Prepacked
MCKtAt == [mt \in 1 .. MaxTile |-> [n \in 1 .. 4 |-> IF mt = 1 THEN 2 ELSE 1]]
MCShape(m, n, split) == [m |-> m, n |-> n, split |-> split]
\* Below, at and above the tile cap; one more for the M split.
MCKeyCap == {MCShape(1, 2, FALSE), MCShape(2, 2, FALSE), MCShape(3, 2, FALSE), MCShape(3, 2, TRUE)}
\* For two workers: below and above the tile cap, and an M split with one
\* slice shorter than the other.
MCKeyWorkers == {MCShape(1, 2, FALSE), MCShape(3, 2, FALSE), MCShape(3, 1, TRUE)}
=============================================================================
