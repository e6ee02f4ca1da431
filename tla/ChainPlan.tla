----------------------------- MODULE ChainPlan -----------------------------
(***************************************************************************)
(* Which layers of a graph go out as one kick: the run finder              *)
(* rocket_chain_plan_rk3576 and the tests the constructor                  *)
(* rocket_chain_new_rk3576 makes of what it is handed                      *)
(* (rocket_conv2d_rk3576.c).  The finder walks the node array once and     *)
(* grows a run as far as the surfaces link and the programs fit; the two   *)
(* state the same rules twice, over different windows.                     *)
(*                                                                         *)
(* A node is abstracted to what those rules read.  A surface is named by   *)
(* the node that writes it, so a feed of 0 is an input that no node of the *)
(* array writes (a host scatter, or a buffer from outside).                *)
(***************************************************************************)
EXTENDS Naturals, Sequences

CONSTANTS Nodes,       \* length of the node arrays looked at on their own
          MaxProg,     \* most programs a convolution's row plan has
          ProgramCap   \* ROCKET_RK3576_CHAIN_MAX_TASKS

ASSUME PlanAssumption == Nodes \in Nat /\ Nodes >= 2 /\ MaxProg \in Nat \ {0} /\ ProgramCap \in Nat \ {0}

\* A conv either can be chained or counts as "unset"; a pool is refused
\* outright when its divisor can lag or it does not read and leave a cube.
Node(k) ==
    [kind : {"conv"}, feed : 0 .. k - 1, out : BOOLEAN, prog : 1 .. MaxProg]
    \cup [kind : {"pool"}, feed : 1 .. k - 1, out : {TRUE}, prog : {1}]
    \cup [kind : {"badpool"}, feed : {0}, out : {TRUE}, prog : {0}]
    \cup [kind : {"place", "unset"}, feed : {0}, out : {FALSE}, prog : {0}]

\* The arrays with a j-th node.
WithNode(arrays, j) == {Append(s, x) : s \in arrays, x \in Node(j)}
Arrays ==
    LET upTo[j \in 0 .. Nodes] == IF j = 0 THEN {<<>>} ELSE WithNode(upTo[j - 1], j)
    IN  upTo[Nodes]

VARIABLES nd,      \* nd[j]: the caller's node array
          here,    \* the node the finder looks at
          start,   \* first node of the run being grown
          count, programs, carriers,   \* its nodes, programs and program carriers
          runs,    \* the runs reported so far
          stage

finderVars == <<nd, here, start, count, programs, carriers, runs, stage>>

IsPool(j) == nd[j].kind \in {"pool", "badpool"}
IsPlace(j) == nd[j].kind = "place"
CubeOut(j) == nd[j].kind \in {"conv", "pool"} /\ nd[j].out

\* r76_node_why_not is NULL: a pool or a placement layer may only be interior.
Chainable(j, interior) ==
    \/ nd[j].kind = "conv"
    \/ nd[j].kind \in {"pool", "place"} /\ interior

\* r76_run_fed: j reads a cube that a node from f on wrote before it.
RunFed(f, j) == \/ IsPlace(j)
                \/ \E k \in f .. j - 1 : CubeOut(k) /\ nd[j].feed = k

FinderInit ==
    /\ nd \in Arrays
    /\ here = 1 /\ start = 1
    /\ count = 0 /\ programs = 0 /\ carriers = 0
    /\ runs = <<>>
    /\ stage = "open"

\* Open a run here, or step over a node that cannot start one.
OpenRun ==
    /\ stage = "open" /\ here < Len(nd)
    /\ start' = here
    /\ count' = 0 /\ programs' = 0 /\ carriers' = 0
    /\ IF IsPool(here) \/ IsPlace(here)
       THEN here' = here + 1 /\ UNCHANGED stage
       ELSE stage' = "grow" /\ UNCHANGED here
    /\ UNCHANGED <<nd, runs>>

OverCap(j) == count > 0 /\ programs + nd[j].prog > ProgramCap

Takes(j) == /\ Chainable(j, j > start)
            /\ nd[j].prog > 0 \/ IsPlace(j)
            /\ ~OverCap(j)

\* Take this node, and go on only if the next one can follow it.
Grow ==
    /\ stage = "grow" /\ here <= Len(nd) /\ Takes(here)
    /\ count' = count + 1
    /\ programs' = programs + nd[here].prog
    /\ carriers' = carriers + (IF IsPlace(here) THEN 0 ELSE 1)
    /\ here' = here + 1
    /\ stage' = IF /\ here < Len(nd)
                   /\ IsPlace(here) \/ CubeOut(here)
                   /\ RunFed(start, here + 1)
                THEN "grow" ELSE "trim"
    /\ UNCHANGED <<nd, start, runs>>

GrowStop ==
    /\ stage = "grow" /\ (here > Len(nd) \/ ~Takes(here))
    /\ stage' = "trim"
    /\ UNCHANGED <<nd, here, start, count, programs, carriers, runs>>

\* A trailing pool or placement layer goes back to the caller.
\* (Seeded fault: only pools do.)
OnlyPoolEnds(j) == IsPool(j)
CannotEnd(j) == IsPool(j) \/ IsPlace(j)

MustTrim == IF count = 0 THEN FALSE ELSE CannotEnd(start + count - 1)

Trim ==
    /\ stage = "trim" /\ MustTrim
    /\ LET l == start + count - 1
       IN  /\ count' = count - 1
           /\ carriers' = carriers - (IF IsPlace(l) THEN 0 ELSE 1)
           /\ programs' = programs - nd[l].prog
    /\ UNCHANGED <<nd, here, start, runs, stage>>

\* Two program carriers make a run; a node that started none is stepped over.
\* (Seeded fault: the next run is looked for past one node too many.)
NextSkips == here + 1
NextStart == IF here = start THEN here + 1 ELSE here

Report ==
    /\ stage = "trim" /\ ~MustTrim
    /\ runs' = IF carriers < 2 THEN runs
               ELSE Append(runs, [first |-> start, count |-> count, programs |-> programs])
    /\ here' = NextStart
    /\ stage' = "open"
    /\ UNCHANGED <<nd, start, count, programs, carriers>>

FinderDone == stage = "open" /\ here >= Len(nd) /\ UNCHANGED finderVars

FinderNext == OpenRun \/ Grow \/ GrowStop \/ Trim \/ Report \/ FinderDone

FinderSpec == FinderInit /\ [][FinderNext]_finderVars

(***************************************************************************)
(* What rocket_chain_new_rk3576 tests of the nodes a .. b                  *)
(***************************************************************************)
Programs(a, b) ==
    LET sum[j \in 0 .. Len(nd)] == IF j < a THEN 0 ELSE sum[j - 1] + nd[j].prog
    IN  sum[b]
Carriers(a, b) == {j \in a .. b : ~IsPlace(j)}

NewAccepts(a, b) ==
    /\ a < b
    /\ \A j \in a .. b : Chainable(j, a < j /\ j < b)
    /\ \A j \in a .. b - 1 : IsPlace(j) \/ CubeOut(j)
    /\ \A j \in a + 1 .. b : RunFed(a, j)
    /\ \E j, k \in Carriers(a, b) : j # k
    /\ Programs(a, b) <= ProgramCap

-----------------------------------------------------------------------------
Last(r) == r.first + r.count - 1

Finished == stage = "open" /\ here >= Len(nd)

\* Every run the finder reports is one the constructor accepts, with the
\* number of programs it reported: a caller that builds what was planned is
\* never refused.
PlannedIsBuildable ==
    \A r \in {runs[k] : k \in DOMAIN runs} :
        NewAccepts(r.first, Last(r)) /\ r.programs = Programs(r.first, Last(r))

\* The runs are in order and share no node, so no layer is computed twice.
RunsDisjoint ==
    \A k \in DOMAIN runs : k > 1 => Last(runs[k - 1]) < runs[k].first

\* A run is maximal: the constructor accepts no longer one that starts there.
RunsMaximal ==
    \A r \in {runs[k] : k \in DOMAIN runs} :
        \A b \in Last(r) + 1 .. Len(nd) : ~NewAccepts(r.first, b)

\* Nothing chainable is left to the per-layer path: every window the
\* constructor would accept shares a node with a reported run.
NothingMissed ==
    Finished =>
        \A a, b \in 1 .. Len(nd) :
            NewAccepts(a, b) =>
                \E r \in {runs[k] : k \in DOMAIN runs} : r.first <= b /\ a <= Last(r)

\* What rocket_chain_plan_rk3576 promises the graph builder: its runs are
\* in order, disjoint and maximal, and together they leave out no window that
\* could have been chained.
RunsAreGreedy == RunsDisjoint /\ RunsMaximal /\ NothingMissed
=============================================================================
