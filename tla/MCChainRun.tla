----------------------------- MODULE MCChainRun -----------------------------
EXTENDS ChainRun
\* Four layers: the last reads past the pool, as a shortcut does.  Every layer
\* is asked, and any of the programs may die.
Block == [n |-> 4, feed |-> <<0, 1, 2, 1>>, shared |-> {2}, pool |-> {3},
          lagPool |-> {3}, lastCubeOut |-> TRUE, sentinel |-> TRUE,
          perKick |-> FALSE, programsDie |-> TRUE]
\* Three in a row; only the last is asked, of a part that retires whole kicks.
PerKickRun == [n |-> 3, feed |-> <<0, 1, 2>>, shared |-> {}, pool |-> {2},
               lagPool |-> {2}, lastCubeOut |-> FALSE, sentinel |-> TRUE,
               perKick |-> TRUE, programsDie |-> FALSE]
\* The sentinel off: only completion is scored.
Unchecked == [PerKickRun EXCEPT !.lastCubeOut = TRUE, !.sentinel = FALSE]
\* Convolutions only, the last one delivering rows.
Convs == [n |-> 3, feed |-> <<0, 1, 2>>, shared |-> {}, pool |-> {},
          lagPool |-> {}, lastCubeOut |-> FALSE, sentinel |-> TRUE,
          perKick |-> FALSE, programsDie |-> FALSE]
AllRuns == {Block, PerKickRun, Unchecked, Convs}
ConvsOnly == {Convs}
=============================================================================
