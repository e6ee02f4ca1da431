---------------------------- MODULE MCMatmulExec ----------------------------
EXTENDS MatmulExec, TLC
MCShape(m, n, k, sm, sn, sk) ==
    [nM |-> m, nN |-> n, nK |-> k, shortM |-> sm, shortN |-> sn, shortK |-> sk]
\* More tiles than slots with every remainder; a tall and a wide shape; one
\* whose K steps are few enough for the adaptive chain.
MCShapes == {MCShape(3, 2, 3, TRUE, TRUE, TRUE), MCShape(3, 1, 2, TRUE, FALSE, FALSE),
             MCShape(1, 2, 2, FALSE, TRUE, TRUE), MCShape(2, 2, 1, FALSE, FALSE, FALSE)}
MCModes == [mode : {"serial", "reuse", "pipe", "kacc", "cube"}, chained : BOOLEAN,
            oneJob : BOOLEAN, streams : BOOLEAN, chain : 0 .. 2, policy : 0 .. 3]
\* A switch a program does not read is left alone.
MCReads(c) ==
    /\ c.mode \in {"reuse", "pipe"} => ~c.chained
    /\ c.mode \in {"serial", "pipe"} => c.policy = 0 /\ c.oneJob /\ ~c.streams
    /\ c.mode = "reuse" => c.policy \in {1, 2}
    /\ c.mode = "cube" => c.policy = 2 /\ ~c.streams
    /\ c.mode # "kacc" => c.chain = 0
    /\ c.chain = 1 => ~c.chained
MCConf == {c \in {s @@ m : s \in MCShapes, m \in {x \in MCModes : MCReads(x)}} : IsConf(c)}
=============================================================================
