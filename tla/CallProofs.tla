---------------------------- MODULE CallProofs ----------------------------
(***************************************************************************)
(* Calls that need nothing of the other components: the layers of a graph  *)
(* that go out as one kick (ChainPlan), the wait for a job (FenceWait) and *)
(* the call of an operator (OpMachine).                                    *)
(*                                                                         *)
(* The run finder and the constructor agree, for arrays of any length,     *)
(* any row plans and any cap on the programs of a chain.  What the finder  *)
(* has grown is a window the constructor would accept but for its end, and *)
(* every longer window that starts there is refused: by the node it        *)
(* stopped before, or because the nodes it gave back cannot end a chain.   *)
(* A window that starts inside what was grown shares a node with the run   *)
(* it became; if it became none, there is no second program carrier in it  *)
(* to start a window.                                                      *)
(*                                                                         *)
(* What a wait reports, and what the counters it is noted in show, for any *)
(* number of waiting threads and any timeouts.  The deadline a blocking    *)
(* wait is armed with lies at least the timeout behind its start, or is    *)
(* the last one there is, which the clock never reaches.  Each counter     *)
(* counts the waiters that are past the step that raises it, wherever the  *)
(* others are; the maximum is one of their times (or 0) and at least every *)
(* one, because what a waiter remembers of it was never more than it is.   *)
(*                                                                         *)
(* A call of any operator whose list of steps has a sound outline leaks    *)
(* nothing, frees nothing twice, reports its failures, keeps the CPU and   *)
(* the part apart and leaves nothing behind, whichever steps fail and      *)
(* however often its loops go round: every step stays within the outline,  *)
(* and the outline's conditions cover every way to end.                    *)
(***************************************************************************)
EXTENDS ChainPlan, FenceWait, OpOutline, WellOrder

-----------------------------------------------------------------------------
(* The run finder.                                                         *)

\* The types of a node, of a reported run and of the finder's variables.
NodeRec == [kind : {"conv", "pool", "badpool", "place", "unset"}, feed : Nat, out : BOOLEAN,
            prog : Nat]

\* A node array.
NdOK == nd \in Seq(NodeRec) /\ \A j \in 1 .. Len(nd) : nd[j] \in Node(j)

\* A node of an array is a node; only a convolution and a sound pool have
\* programs, and a pool leaves a cube.
LEMMA NodeType ==
    ASSUME NEW k \in Nat \ {0}, NEW x \in Node(k)
    PROVE  /\ x \in NodeRec
           /\ x.kind \in {"conv", "pool"} => x.prog > 0
           /\ x.kind = "place" => x.prog = 0
<1>1. 1 .. MaxProg \subseteq Nat /\ 0 .. k - 1 \subseteq Nat /\ 1 .. k - 1 \subseteq Nat
  BY PlanAssumption
<1>2. CASE x \in [kind : {"conv"}, feed : 0 .. k - 1, out : BOOLEAN, prog : 1 .. MaxProg]
  <2>1. /\ x = [kind |-> x.kind, feed |-> x.feed, out |-> x.out, prog |-> x.prog]
        /\ x.kind = "conv" /\ x.prog \in 1 .. MaxProg /\ x.feed \in 0 .. k - 1
    BY <1>2
  <2>2. x.out \in BOOLEAN
    BY <1>2
  <2> QED BY <1>1, <2>1, <2>2 DEF NodeRec
<1>3. CASE x \in [kind : {"pool"}, feed : 1 .. k - 1, out : {TRUE}, prog : {1}]
  <2>1. /\ x = [kind |-> x.kind, feed |-> x.feed, out |-> x.out, prog |-> x.prog]
        /\ x.kind = "pool" /\ x.prog = 1 /\ x.feed \in 1 .. k - 1
    BY <1>3
  <2>2. x.out \in BOOLEAN
    BY <1>3
  <2> QED BY <1>1, <2>1, <2>2 DEF NodeRec
<1>4. CASE x \in [kind : {"badpool"}, feed : {0}, out : {TRUE}, prog : {0}]
  <2>1. /\ x = [kind |-> x.kind, feed |-> x.feed, out |-> x.out, prog |-> x.prog]
        /\ x.kind = "badpool" /\ x.prog = 0 /\ x.feed = 0
    BY <1>4
  <2>2. x.out \in BOOLEAN
    BY <1>4
  <2> QED BY <1>1, <2>1, <2>2 DEF NodeRec
<1>5. CASE x \in [kind : {"place", "unset"}, feed : {0}, out : {FALSE}, prog : {0}]
  <2>1. /\ x = [kind |-> x.kind, feed |-> x.feed, out |-> x.out, prog |-> x.prog]
        /\ x.kind \in {"place", "unset"} /\ x.prog = 0 /\ x.feed = 0
    BY <1>5
  <2>2. x.out \in BOOLEAN
    BY <1>5
  <2> QED BY <1>1, <2>1, <2>2 DEF NodeRec
<1> QED BY <1>2, <1>3, <1>4, <1>5 DEF Node

\* What is known of the nodes of an array.
LEMMA NodeFields ==
    ASSUME NdOK
    PROVE  /\ Len(nd) \in Nat
           /\ \A j \in 1 .. Len(nd) :
                 /\ nd[j].prog \in Nat
                 /\ nd[j].kind \in {"conv", "pool"} => nd[j].prog > 0
                 /\ nd[j].kind = "place" => nd[j].prog = 0
<1>1. Len(nd) \in Nat
  BY DEF NdOK
<1>2. ASSUME NEW j \in 1 .. Len(nd)
      PROVE  /\ nd[j].prog \in Nat
             /\ nd[j].kind \in {"conv", "pool"} => nd[j].prog > 0
             /\ nd[j].kind = "place" => nd[j].prog = 0
  <2>1. nd[j] \in Node(j) /\ j \in Nat \ {0}
    BY <1>1 DEF NdOK
  <2>2. nd[j] \in NodeRec
    BY <2>1, NodeType
  <2> QED BY <2>1, <2>2, NodeType DEF NodeRec
<1> QED BY <1>1, <1>2

\* Arrays are node arrays, of the length asked for.
LEMMA ArraysType == ASSUME nd \in Arrays PROVE NdOK /\ Len(nd) = Nodes
<1> DEFINE S == SUBSET Seq(NodeRec)
           step == [j \in 1 .. Nodes |-> [T \in S |-> WithNode(T, j)]]
           base == {<<>>}
<1>n. Nodes \in Nat
  BY PlanAssumption
<1>1. IsStep(Nodes, S, step)
  <2> SUFFICES ASSUME NEW j \in 1 .. Nodes, NEW T \in S, NEW s \in T, NEW x \in Node(j)
               PROVE  Append(s, x) \in Seq(NodeRec)
    BY DEF IsStep, WithNode
  <2>1. x \in NodeRec
    BY NodeType, PlanAssumption
  <2> QED BY <2>1
<1>2. base \in S
  OBVIOUS
<1>b. PICK f : Computes(f, Nodes, S, base, step)
  <2> HIDE DEF S, step, base
  <2> QED BY <1>1, <1>2, <1>n, StepByStep
<1>3. /\ f \in [0 .. Nodes -> S]
      /\ f[0] = base /\ \A j \in 1 .. Nodes : f[j] = step[j][f[j - 1]]
  <2> HIDE DEF S, step, base
  <2> QED BY <1>b DEF Computes
<1>4. f = [j \in 0 .. Nodes |-> IF j = 0 THEN {<<>>} ELSE WithNode(f[j - 1], j)]
  <2> HIDE DEF S
  <2>1. ASSUME NEW j \in 1 .. Nodes PROVE f[j] = WithNode(f[j - 1], j)
    <3>1. j - 1 \in 0 .. Nodes
      BY <1>n
    <3>2. f[j - 1] \in S
      BY <3>1, <1>3
    <3> QED BY <3>2, <1>3
  <2>2. \A j \in 0 .. Nodes : j # 0 => j \in 1 .. Nodes
    BY <1>n
  <2> QED BY <2>1, <2>2, <1>3
<1>6. PICK g : /\ g = [j \in 0 .. Nodes |-> IF j = 0 THEN {<<>>} ELSE WithNode(g[j - 1], j)]
               /\ Arrays = g[Nodes]
  BY <1>4 DEF Arrays
<1> DEFINE Built(k) == \A s \in g[k] : /\ s \in Seq(NodeRec) /\ Len(s) = k
                                       /\ \A j \in 1 .. k : s[j] \in Node(j)
           P == {k \in 0 .. Nodes : Built(k)}
<1>7. 0 \in P
  <2>1. g[0] = {<<>>} /\ 0 \in 0 .. Nodes
    <3> QED BY <1>6, <1>n
  <2>2. Built(0)
    BY <2>1
  <2> HIDE DEF Built
  <2> QED BY <2>1, <2>2
<1>8. ASSUME NEW k \in 0 .. Nodes - 1, k \in P PROVE k + 1 \in P
  <2>1. k + 1 \in 0 .. Nodes /\ k + 1 # 0 /\ (k + 1) - 1 = k /\ k \in Nat
    BY PlanAssumption
  <2>2. g[k + 1] = WithNode(g[k], k + 1)
    <3> QED BY <1>6, <2>1
  <2>3. ASSUME NEW s \in g[k], NEW x \in Node(k + 1)
        PROVE  /\ Append(s, x) \in Seq(NodeRec) /\ Len(Append(s, x)) = k + 1
               /\ \A j \in 1 .. k + 1 : Append(s, x)[j] \in Node(j)
    <3>1. /\ s \in Seq(NodeRec) /\ Len(s) = k /\ \A j \in 1 .. k : s[j] \in Node(j)
      BY <1>8
    <3>2. x \in NodeRec
      BY NodeType, <2>1
    <3>3. \A j \in 1 .. k + 1 : Append(s, x)[j] = IF j = k + 1 THEN x ELSE s[j]
      BY <3>1, <3>2
    <3> HIDE DEF Built
    <3> QED BY <3>1, <3>2, <3>3, <2>1
  <2>4. Built(k + 1)
    BY <2>2, <2>3 DEF WithNode
  <2> QED BY <2>1, <2>4
<1>9. Nodes \in P
  <2> HIDE DEF P
  <2>1. Nodes \in 0 .. Nodes /\ Nodes \in Nat
    BY PlanAssumption
  <2> QED BY <1>7, <1>8, <2>1, UpTo
<1> QED BY <1>6, <1>9 DEF NdOK

-----------------------------------------------------------------------------
(* The sum of the programs of a window.                                    *)

\* Programs is that sum: it grows by a node's programs.
LEMMA ProgramsStep ==
    ASSUME NdOK, NEW a \in 1 .. Len(nd)
    PROVE  /\ \A b \in 0 .. Len(nd) : Programs(a, b) \in Nat /\ (b < a => Programs(a, b) = 0)
           /\ \A b \in a .. Len(nd) : Programs(a, b) = Programs(a, b - 1) + nd[b].prog
<1>l. Len(nd) \in Nat /\ 0 \in Nat /\ \A j \in 1 .. Len(nd) : nd[j].prog \in Nat
  BY NodeFields
<1> DEFINE step == [j \in 1 .. Len(nd) |-> [v \in Nat |->
                       IF j < a THEN 0 ELSE v + nd[j].prog]]
           Sum(f, j) == IF j < a THEN 0 ELSE f[j - 1] + nd[j].prog
<1>1. IsStep(Len(nd), Nat, step)
  BY <1>l DEF IsStep
<1>2. \E f : Computes(f, Len(nd), Nat, 0, step)
  <2> HIDE DEF step
  <2> QED BY <1>1, <1>l, StepByStep
<1>3. PICK f \in [0 .. Len(nd) -> Nat] : \A j \in 0 .. Len(nd) : f[j] = Sum(f, j)
  <2>1. PICK f : Computes(f, Len(nd), Nat, 0, step)
    BY <1>2
  <2>2. ASSUME NEW j \in 1 .. Len(nd) PROVE f[j] = Sum(f, j)
    <3>0. j - 1 \in 0 .. Len(nd)
      BY <1>l
    <3>1. f[j - 1] \in Nat
      BY <3>0, <2>1 DEF Computes
    <3> QED BY <2>1, <3>1 DEF Computes
  <2> QED BY <2>1, <2>2, <1>l DEF Computes
<1>4. f = [j \in 0 .. Len(nd) |-> Sum(f, j)]
  BY <1>3
<1>5. PICK g : g = [j \in 0 .. Len(nd) |-> Sum(g, j)] /\ \A b : Programs(a, b) = g[b]
  BY <1>4 DEF Programs
<1>6. \A j \in 0 .. Len(nd) : g[j] = Sum(g, j)
  BY <1>5
<1> DEFINE P == {k \in 0 .. Len(nd) : g[k] \in Nat}
<1>7. 0 \in P
  BY <1>6, <1>l
<1>8. ASSUME NEW k \in 0 .. Len(nd) - 1, k \in P PROVE k + 1 \in P
  <2>1. k + 1 \in 0 .. Len(nd) /\ k + 1 \in 1 .. Len(nd) /\ (k + 1) - 1 = k
    BY <1>l
  <2> QED BY <2>1, <1>6, <1>l, <1>8
<1>9. \A k \in 0 .. Len(nd) : k \in P
  <2> HIDE DEF P
  <2> QED BY <1>7, <1>8, <1>l, UpTo
<1>10. \A b \in a .. Len(nd) : g[b] = g[b - 1] + nd[b].prog
  BY <1>6, <1>l
<1> QED BY <1>5, <1>6, <1>9, <1>10

\* A longer window has no fewer programs.
LEMMA ProgramsGrow ==
    ASSUME NdOK, NEW a \in 1 .. Len(nd), NEW c \in 0 .. Len(nd), NEW b \in 0 .. Len(nd), c <= b
    PROVE  Programs(a, c) <= Programs(a, b)
<1>l. Len(nd) \in Nat /\ 0 \in Nat /\ \A j \in 1 .. Len(nd) : nd[j].prog \in Nat
  BY NodeFields
<1> DEFINE f == [j \in 0 .. Len(nd) |-> Programs(a, j)]
<1>1. \A j \in 0 .. Len(nd) : f[j] \in Int
  BY ProgramsStep
<1>2. ASSUME NEW j \in 1 .. Len(nd) PROVE f[j - 1] <= f[j]
  <2>1. j \in 0 .. Len(nd) /\ j - 1 \in 0 .. Len(nd)
    BY <1>l
  <2>2. CASE j < a
    <3>1. Programs(a, j - 1) = 0 /\ Programs(a, j) = 0
      BY <2>1, <2>2, ProgramsStep, <1>l
    <3> QED BY <2>1, <3>1
  <2>3. CASE j >= a
    <3>1. j \in a .. Len(nd)
      BY <2>3, <1>l
    <3>2. Programs(a, j) = Programs(a, j - 1) + nd[j].prog /\ Programs(a, j - 1) \in Nat
      BY <2>1, <3>1, ProgramsStep
    <3> QED BY <2>1, <3>2, <1>l
  <2> QED BY <2>2, <2>3
<1>3. f[c] <= f[b]
  <2> HIDE DEF f
  <2> QED BY <1>1, <1>2, <1>l, NeverFalls
<1> QED BY <1>3

-----------------------------------------------------------------------------
(* The finder's variables.                                                 *)

RunRec == [first : Nat, count : Nat, programs : Nat]

FinderTypeOK ==
    /\ NdOK
    /\ here \in 1 .. Len(nd) + 1 /\ start \in 1 .. Len(nd)
    /\ count \in Nat /\ programs \in Nat /\ carriers \in Nat
    /\ stage \in {"open", "grow", "trim"}
    /\ runs \in Seq(RunRec)

\* A window is being grown, or trimmed to where it can end.
Growing == stage \in {"grow", "trim"}

\* What was grown: nodes that may stand where they do, each linked to the next
\* and fed by the run, with the sums the finder keeps.
Window(s, c) ==
    /\ \A j \in s .. s + c - 1 : Chainable(j, j > s)
    /\ \A j \in s .. s + c - 2 : IsPlace(j) \/ CubeOut(j)
    /\ \A j \in s + 1 .. s + c - 1 : RunFed(s, j)

\* The finder's sums are those of its window, within the cap.
Sums(s, c, p, n) ==
    /\ p = Programs(s, s + c - 1) /\ (c >= 2 => p <= ProgramCap)
    /\ n = Cardinality(Carriers(s, s + c - 1))

\* The window grown so far, and what lies between it and the node looked at.
GrownOK ==
    Growing =>
        /\ start + count <= here
        /\ ~IsPool(start) /\ ~IsPlace(start)
        /\ Window(start, count) /\ Sums(start, count, programs, carriers)
        /\ \A j \in start + count .. here - 1 : CannotEnd(j)

\* While it grows the next node is linked; when it stops none that follows can
\* be the end of a window.
NextLinked ==
    stage = "grow" =>
        /\ start + count = here
        /\ count > 0 => /\ here <= Len(nd)
                        /\ IsPlace(here - 1) \/ CubeOut(here - 1)
                        /\ RunFed(start, here)
NoLonger == stage = "trim" => \A b \in start + count .. Len(nd) : ~NewAccepts(start, b)

\* The node before which every window has been looked at.
Front == IF stage = "open" THEN here ELSE start

\* A reported run is acceptable, and no longer one that starts there is.
RunGood(r) ==
    /\ NewAccepts(r.first, Last(r)) /\ r.programs = Programs(r.first, Last(r))
    /\ \A b \in Last(r) + 1 .. Len(nd) : ~NewAccepts(r.first, b)

\* The runs so far.
ReportedOK ==
    /\ \A k \in 1 .. Len(runs) : RunGood(runs[k]) /\ Last(runs[k]) < Front
    /\ \A k \in 2 .. Len(runs) : Last(runs[k - 1]) < runs[k].first

\* No window before the front was missed.
SharesRun(a, b) == \E k \in 1 .. Len(runs) : runs[k].first <= b /\ a <= Last(runs[k])
\* Every acceptable window that starts before the front shares a node with a run.
NoneMissed ==
    \A a, b \in 1 .. Len(nd) : a < Front /\ NewAccepts(a, b) => SharesRun(a, b)

\* The finder's inductive invariant.
FinderInv ==
    FinderTypeOK /\ GrownOK /\ NextLinked /\ NoLonger /\ ReportedOK /\ NoneMissed

\* The finder begins with nothing grown and nothing reported.
LEMMA FinderInitOK == FinderInit => FinderInv
<1> SUFFICES ASSUME FinderInit PROVE FinderInv
  OBVIOUS
<1>1. NdOK /\ Len(nd) = Nodes /\ Nodes \in Nat /\ Nodes >= 2
  BY ArraysType, PlanAssumption DEF FinderInit
<1>2. runs \in Seq(RunRec) /\ Len(runs) = 0
  BY DEF FinderInit
<1>3. /\ here = 1 /\ start = 1 /\ count = 0 /\ programs = 0 /\ carriers = 0 /\ stage = "open"
  BY DEF FinderInit
<1>4. FinderTypeOK
  BY <1>1, <1>2, <1>3 DEF FinderTypeOK
<1>5. 1 .. Len(runs) = {} /\ 2 .. Len(runs) = {}
  BY <1>2
<1>6. Front = 1
  BY <1>3 DEF Front
<1>7. ReportedOK /\ NoneMissed
  BY <1>1, <1>5, <1>6 DEF ReportedOK, NoneMissed
<1> QED BY <1>3, <1>4, <1>7 DEF FinderInv, GrownOK, Growing, NextLinked, NoLonger

\* The array is not changed.
LEMMA NdConstant == [FinderNext]_finderVars => nd' = nd
BY DEF FinderNext, finderVars, OpenRun, Grow, GrowStop, Trim, Report, FinderDone

\* Nor what depends on it alone.
LEMMA NdKept ==
    ASSUME nd' = nd, NEW a, NEW b
    PROVE  Programs(a, b)' = Programs(a, b) /\ NewAccepts(a, b)' = NewAccepts(a, b)
<1>1. Programs(a, b)' = Programs(a, b)
  BY DEF Programs
<1> QED BY <1>1 DEF NewAccepts, Chainable, RunFed, IsPlace, CubeOut, Carriers

\* Carriers are finitely many, and one more node is one more of them unless it
\* is a placement layer.
LEMMA CarriersGrow ==
    ASSUME NEW a \in Nat, NEW b \in Int, a <= b
    PROVE  /\ IsFiniteSet(Carriers(a, b)) /\ IsFiniteSet(Carriers(a, b - 1))
           /\ Cardinality(Carriers(a, b)) =
                 Cardinality(Carriers(a, b - 1)) + (IF IsPlace(b) THEN 0 ELSE 1)
<1>1. IsFiniteSet(a .. b) /\ IsFiniteSet(a .. b - 1)
  BY FS_Interval
<1>2. IsFiniteSet(Carriers(a, b)) /\ IsFiniteSet(Carriers(a, b - 1))
  BY <1>1, FS_Subset DEF Carriers
<1>3. CASE IsPlace(b)
  <2>1. Carriers(a, b) = Carriers(a, b - 1)
    BY <1>3 DEF Carriers
  <2>2. Cardinality(Carriers(a, b)) \in Nat
    BY <1>2, FS_CardinalityType
  <2> QED BY <1>2, <1>3, <2>1, <2>2
<1>4. CASE ~IsPlace(b)
  <2>1. Carriers(a, b) = Carriers(a, b - 1) \cup {b} /\ b \notin Carriers(a, b - 1)
    BY <1>4 DEF Carriers
  <2>2. Cardinality(Carriers(a, b - 1) \cup {b}) = Cardinality(Carriers(a, b - 1)) + 1
    BY <1>2, <2>1, FS_AddElement
  <2> QED BY <1>2, <1>4, <2>1, <2>2
<1> QED BY <1>3, <1>4

\* No window starts or ends at a pool or a placement layer.
LEMMA EndsAreConvs ==
    ASSUME NEW a, NEW b, a \in Nat, b \in Nat, NewAccepts(a, b)
    PROVE  ~CannotEnd(a) /\ ~CannotEnd(b) /\ a < b /\ ~IsPlace(a) /\ ~IsPlace(b)
<1>1. a < b /\ a \in a .. b /\ b \in a .. b
  BY DEF NewAccepts
<1>2. Chainable(a, a < a /\ a < b) /\ Chainable(b, a < b /\ b < b)
  BY <1>1 DEF NewAccepts
<1>3. nd[a].kind = "conv" /\ nd[b].kind = "conv"
  BY <1>2 DEF Chainable
<1> QED BY <1>1, <1>3 DEF CannotEnd, IsPool, IsPlace

-----------------------------------------------------------------------------
(* Each step of the finder.                                                *)

\* A node the finder does not take can be in no window that starts with the run.
LEMMA NotTaken ==
    ASSUME FinderInv, stage = "grow", here <= Len(nd), ~Takes(here),
           NEW b \in here .. Len(nd)
    PROVE  ~NewAccepts(start, b)
<1> SUFFICES ASSUME NewAccepts(start, b) PROVE FALSE
  OBVIOUS
<1>t. /\ NdOK /\ start \in 1 .. Len(nd) /\ here \in 1 .. Len(nd) /\ count \in Nat
      /\ programs \in Nat /\ start + count = here /\ Sums(start, count, programs, carriers)
  BY NodeFields DEF FinderInv, FinderTypeOK, GrownOK, Growing, NextLinked
<1>l. Len(nd) \in Nat /\ start <= here /\ here \in start .. b /\ b \in 0 .. Len(nd)
  BY <1>t, NodeFields
<1>1. Chainable(here, start < here /\ here < b)
  BY <1>l DEF NewAccepts
<1>2. Chainable(here, here > start)
  BY <1>1, <1>t, <1>l DEF Chainable
<1>3. nd[here].prog > 0 \/ IsPlace(here)
  BY <1>2, <1>t, NodeFields DEF Chainable, IsPlace
<1>4. count > 0 /\ programs + nd[here].prog > ProgramCap
  BY <1>2, <1>3 DEF Takes, OverCap
<1>5. programs = Programs(start, here - 1)
  <2>1. start + count - 1 = here - 1
    BY <1>t
  <2> QED BY <1>t, <2>1 DEF Sums
<1>6. Programs(start, here) = programs + nd[here].prog
  <2>1. here \in start .. Len(nd)
    BY <1>t, <1>l
  <2> QED BY <1>t, <1>5, <2>1, ProgramsStep
<1>7. Programs(start, here) <= Programs(start, b)
  BY <1>t, <1>l, ProgramsGrow
<1>8. Programs(start, b) <= ProgramCap /\ Programs(start, b) \in Nat
      /\ Programs(start, here) \in Nat
  BY <1>t, <1>l, ProgramsStep DEF NewAccepts
<1> QED BY <1>4, <1>6, <1>7, <1>8, PlanAssumption

\* A window that starts with the run goes on only past a linked node.
LEMMA NotLinked ==
    ASSUME FinderInv, stage = "grow", here <= Len(nd), NEW b \in here + 1 .. Len(nd),
           NewAccepts(start, b)
    PROVE  (IsPlace(here) \/ CubeOut(here)) /\ RunFed(start, here + 1)
<1>1. /\ start \in Nat /\ here \in Nat /\ start <= here /\ b \in Nat
  BY NodeFields DEF FinderInv, FinderTypeOK, GrownOK, Growing
<1>2. here \in start .. b - 1 /\ here + 1 \in start + 1 .. b
  BY <1>1
<1> QED BY <1>2 DEF NewAccepts

\* Steps that report nothing and do not move the front.
LEMMA SameReports ==
    ASSUME FinderInv, nd' = nd, runs' = runs, Front' = Front
    PROVE  ReportedOK' /\ NoneMissed'
<1>1. \A r : RunGood(r)' = RunGood(r) /\ Last(r)' = Last(r)
  BY NdKept DEF RunGood, Last
<1>2. \A a, b : SharesRun(a, b)' = SharesRun(a, b)
  BY DEF SharesRun, Last
<1>3. \A a, b : NewAccepts(a, b)' = NewAccepts(a, b)
  BY NdKept
<1>4. ReportedOK'
  BY <1>1 DEF FinderInv, ReportedOK, Last
<1>5. NoneMissed'
  BY <1>2, <1>3 DEF FinderInv, NoneMissed
<1> QED BY <1>4, <1>5

\* What is known of a reported run.
LEMMA RunFields ==
    ASSUME FinderInv
    PROVE  /\ Len(runs) \in Nat
           /\ \A k \in 1 .. Len(runs) : /\ runs[k].first \in Nat /\ runs[k].count \in Nat
                                        /\ Last(runs[k]) \in Int
<1>1. runs \in Seq(RunRec) /\ Len(runs) \in Nat
  BY DEF FinderInv, FinderTypeOK
<1>2. ASSUME NEW k \in 1 .. Len(runs)
      PROVE  runs[k].first \in Nat /\ runs[k].count \in Nat /\ Last(runs[k]) \in Int
  <2>1. runs[k] \in RunRec
    BY <1>1
  <2>2. runs[k].first \in Nat /\ runs[k].count \in Nat
    BY <2>1 DEF RunRec
  <2> QED BY <2>2 DEF Last
<1> QED BY <1>1, <1>2

\* A run is opened at a node that may start one; any other starts no window.
LEMMA OpenStep == ASSUME FinderInv, OpenRun PROVE FinderInv'
<1>n. nd' = nd /\ runs' = runs /\ stage = "open" /\ here < Len(nd) /\ start' = here
      /\ count' = 0 /\ programs' = 0 /\ carriers' = 0
  BY DEF OpenRun
<1>t. here \in 1 .. Len(nd) /\ Len(nd) \in Nat /\ NdOK
  BY <1>n, NodeFields DEF FinderInv, FinderTypeOK
<1>T. FinderTypeOK'
  <2>1. here' \in 1 .. Len(nd) + 1 /\ stage' \in {"open", "grow", "trim"}
    BY <1>n, <1>t DEF OpenRun
  <2>2. NdOK'
    BY <1>n, <1>t DEF NdOK
  <2> QED BY <1>n, <1>t, <2>1, <2>2 DEF FinderInv, FinderTypeOK
<1>1. CASE IsPool(here) \/ IsPlace(here)
  <2>1. here' = here + 1 /\ stage' = "open"
    BY <1>1, <1>n DEF OpenRun
  <2>2. ReportedOK'
    <3>1. Front = here /\ Front' = here + 1
      BY <1>n, <2>1 DEF Front
    <3>2. \A r : RunGood(r)' = RunGood(r) /\ Last(r)' = Last(r)
      BY <1>n, NdKept DEF RunGood, Last
    <3>3. \A k \in 1 .. Len(runs) : Last(runs[k]) \in Int
      BY RunFields
    <3> QED BY <1>n, <1>t, <3>1, <3>2, <3>3 DEF FinderInv, ReportedOK, Last
  <2>3. NoneMissed'
    <3> SUFFICES ASSUME NEW a \in 1 .. Len(nd), NEW b \in 1 .. Len(nd), a < here + 1,
                        NewAccepts(a, b)
                 PROVE  SharesRun(a, b)
      BY <1>n, <2>1, NdKept DEF NoneMissed, Front, SharesRun, Last
    <3>1. a # here
      BY <1>1, <1>t, EndsAreConvs DEF CannotEnd
    <3> QED BY <3>1, <1>n, <1>t DEF FinderInv, NoneMissed, Front
  <2> QED BY <1>T, <2>1, <2>2, <2>3 DEF FinderInv, GrownOK, Growing, NextLinked, NoLonger
<1>2. CASE ~(IsPool(here) \/ IsPlace(here))
  <2>1. here' = here /\ stage' = "grow"
    BY <1>2 DEF OpenRun
  <2>2. Front' = Front
    BY <1>n, <2>1 DEF Front
  <2>3. here .. here + 0 - 1 = {} /\ here .. here + 0 - 2 = {} /\ here + 1 .. here + 0 - 1 = {}
        /\ here + 0 .. here - 1 = {} /\ here + 0 = here /\ here + 0 - 1 = here - 1
        /\ here .. here - 1 = {}
    BY <1>t
  <2>4. Programs(here, here - 1) = 0 /\ Carriers(here, here - 1) = {}
    <3>1. here - 1 \in 0 .. Len(nd) /\ here - 1 < here
      BY <1>t
    <3> QED BY <1>t, <2>3, <3>1, ProgramsStep DEF Carriers
  <2>5. Window(here, 0) /\ Sums(here, 0, 0, 0)
    BY <2>3, <2>4, FS_EmptySet DEF Window, Sums
  <2>6. GrownOK'
    <3>1. Window(here, 0)' /\ Sums(here, 0, 0, 0)'
      BY <1>n, <2>1, <2>5, NdKept DEF Window, Sums, Chainable, RunFed, IsPlace, CubeOut, Carriers
    <3>2. ~IsPool(here)' /\ ~IsPlace(here)'
      BY <1>n, <1>2, <2>1 DEF IsPool, IsPlace
    <3> QED BY <1>n, <1>t, <2>1, <2>3, <3>1, <3>2 DEF GrownOK
  <2>7. NextLinked' /\ NoLonger'
    BY <1>n, <1>t, <2>1 DEF NextLinked, NoLonger
  <2> QED BY <1>T, <1>n, <2>2, <2>6, <2>7, SameReports DEF FinderInv
<1> QED BY <1>1, <1>2

\* The node taken extends the window and the sums.
LEMMA GrowStep == ASSUME FinderInv, Grow PROVE FinderInv'
<1>n. /\ nd' = nd /\ runs' = runs /\ start' = start /\ stage = "grow" /\ here <= Len(nd)
      /\ Takes(here) /\ here' = here + 1 /\ count' = count + 1
      /\ programs' = programs + nd[here].prog
      /\ carriers' = carriers + (IF IsPlace(here) THEN 0 ELSE 1)
      /\ stage' = IF here < Len(nd) /\ (IsPlace(here) \/ CubeOut(here)) /\ RunFed(start, here + 1)
                  THEN "grow" ELSE "trim"
  BY DEF Grow
<1>t. /\ here \in 1 .. Len(nd) /\ Len(nd) \in Nat /\ NdOK /\ start \in 1 .. Len(nd)
      /\ count \in Nat /\ start + count = here /\ programs \in Nat /\ carriers \in Nat
      /\ nd[here].prog \in Nat
  BY <1>n, NodeFields DEF FinderInv, FinderTypeOK, NextLinked
<1>w. Window(start, count) /\ Sums(start, count, programs, carriers)
  BY <1>n DEF FinderInv, GrownOK, Growing
<1>T. FinderTypeOK'
  <2>1. here' \in 1 .. Len(nd) + 1 /\ stage' \in {"open", "grow", "trim"}
    BY <1>n, <1>t
  <2>2. NdOK' /\ carriers' \in Nat /\ programs' \in Nat
    BY <1>n, <1>t DEF NdOK
  <2> QED BY <1>n, <1>t, <2>1, <2>2 DEF FinderInv, FinderTypeOK
<1>F. ReportedOK' /\ NoneMissed'
  <2>1. Front' = Front
    BY <1>n DEF Front
  <2> QED BY <1>n, <2>1, SameReports
<1>1. /\ start + (count + 1) = here + 1 /\ start + (count + 1) - 1 = here
      /\ start + (count + 1) - 2 = here - 1 /\ start + count - 1 = here - 1
      /\ start + count - 2 = here - 2
  BY <1>t
<1>2. Window(start, count + 1)
  <2>1. ASSUME NEW j \in start .. here PROVE Chainable(j, j > start)
    <3>1. j = here \/ j \in start .. here - 1
      BY <1>t
    <3> QED BY <3>1, <1>n, <1>1, <1>w DEF Window, Takes
  <2>2. ASSUME NEW j \in start .. here - 1 PROVE IsPlace(j) \/ CubeOut(j)
    <3>1. j \in start .. here - 2 \/ (j = here - 1 /\ count > 0)
      BY <1>t
    <3> QED BY <3>1, <1>n, <1>1, <1>w DEF Window, FinderInv, NextLinked
  <2>3. ASSUME NEW j \in start + 1 .. here PROVE RunFed(start, j)
    <3>1. j \in start + 1 .. here - 1 \/ (j = here /\ count > 0)
      BY <1>t
    <3> QED BY <3>1, <1>n, <1>1, <1>w DEF Window, FinderInv, NextLinked
  <2> QED BY <2>1, <2>2, <2>3, <1>1 DEF Window
<1>3. Sums(start, count + 1, programs', carriers')
  <2>1. here \in start .. Len(nd) /\ start <= here
    BY <1>t
  <2>2. programs' = Programs(start, here)
    BY <1>n, <1>t, <1>1, <1>w, <2>1, ProgramsStep DEF Sums
  <2>3. carriers' = Cardinality(Carriers(start, here))
    <3>0. start \in Nat /\ here \in Int /\ start <= here
      BY <1>t, <2>1
    <3>1. Cardinality(Carriers(start, here)) =
             Cardinality(Carriers(start, here - 1)) + (IF IsPlace(here) THEN 0 ELSE 1)
      BY <3>0, CarriersGrow
    <3>2. carriers = Cardinality(Carriers(start, here - 1))
      BY <1>1, <1>w DEF Sums
    <3> QED BY <1>n, <3>1, <3>2
  <2>4. count + 1 >= 2 => programs' <= ProgramCap
    BY <1>n, <1>t, PlanAssumption DEF Takes, OverCap
  <2> QED BY <2>2, <2>3, <2>4, <1>1 DEF Sums
<1>4. GrownOK'
  <2>1. \A j \in start + (count + 1) .. (here + 1) - 1 : CannotEnd(j)
    BY <1>t
  <2>2. ~IsPool(start) /\ ~IsPlace(start) /\ start + (count + 1) <= here + 1
    BY <1>n, <1>t DEF FinderInv, GrownOK, Growing
  <2> QED BY <1>n, <1>2, <1>3, <2>1, <2>2, NdKept
      DEF GrownOK, Window, Sums, Chainable, RunFed, IsPlace, IsPool, CannotEnd, CubeOut, Carriers
<1>5. NextLinked'
  <2> SUFFICES ASSUME stage' = "grow" PROVE NextLinked'
    BY DEF NextLinked
  <2>1. here < Len(nd) /\ (IsPlace(here) \/ CubeOut(here)) /\ RunFed(start, here + 1)
    BY <1>n
  <2>2. here + 1 <= Len(nd) /\ (here + 1) - 1 = here
    BY <1>t, <2>1
  <2> QED BY <1>n, <1>1, <2>1, <2>2 DEF NextLinked, IsPlace, CubeOut, RunFed
<1>6. NoLonger'
  <2> SUFFICES ASSUME stage' = "trim", NEW b \in here + 1 .. Len(nd), NewAccepts(start, b)
               PROVE  FALSE
    BY <1>n, <1>1, NdKept DEF NoLonger
  <2>1. (IsPlace(here) \/ CubeOut(here)) /\ RunFed(start, here + 1)
    BY <1>n, NotLinked
  <2>2. here < Len(nd)
    BY <1>t
  <2> QED BY <1>n, <2>1, <2>2
<1> QED BY <1>T, <1>F, <1>4, <1>5, <1>6 DEF FinderInv

\* Growth ends before a node that cannot be taken.
LEMMA GrowStopStep == ASSUME FinderInv, GrowStop PROVE FinderInv'
<1>n. /\ UNCHANGED <<nd, here, start, count, programs, carriers, runs>>
      /\ stage = "grow" /\ stage' = "trim" /\ (here > Len(nd) \/ ~Takes(here))
  BY DEF GrowStop
<1>t. here \in Nat /\ Len(nd) \in Nat /\ start + count = here
  BY <1>n, NodeFields DEF FinderInv, FinderTypeOK, NextLinked
<1>1. FinderTypeOK'
  BY <1>n DEF FinderInv, FinderTypeOK, NdOK
<1>2. Front' = Front
  BY <1>n DEF Front
<1>3. GrownOK'
  BY <1>n, NdKept DEF FinderInv, GrownOK, Growing, Window, Sums, Chainable, RunFed, IsPlace, IsPool,
                      CannotEnd, CubeOut, Carriers
<1>4. NextLinked'
  BY <1>n DEF NextLinked
<1>5. NoLonger'
  <2> SUFFICES ASSUME NEW b \in here .. Len(nd) PROVE ~NewAccepts(start, b)
    BY <1>n, <1>t, NdKept DEF NoLonger
  <2>1. here <= Len(nd)
    BY <1>t
  <2>2. ~Takes(here)
    BY <1>n, <1>t, <2>1
  <2> QED BY <1>n, <2>1, <2>2, NotTaken
<1> QED BY <1>1, <1>2, <1>3, <1>4, <1>5, <1>n, SameReports DEF FinderInv

\* What is given back cannot end a chain.
LEMMA TrimStep == ASSUME FinderInv, Trim PROVE FinderInv'
<1> DEFINE l == start + count - 1
<1>n. /\ nd' = nd /\ here' = here /\ start' = start /\ runs' = runs
      /\ stage = "trim" /\ stage' = "trim"
      /\ count # 0 /\ CannotEnd(l)
      /\ count' = count - 1 /\ programs' = programs - nd[l].prog
      /\ carriers' = carriers - (IF IsPlace(l) THEN 0 ELSE 1)
  BY DEF Trim, MustTrim
<1>t. /\ here \in 1 .. Len(nd) + 1 /\ Len(nd) \in Nat /\ NdOK /\ start \in 1 .. Len(nd)
      /\ count \in Nat \ {0} /\ start + count <= here /\ programs \in Nat /\ carriers \in Nat
      /\ l \in start .. Len(nd) /\ l < here
  BY <1>n, NodeFields DEF FinderInv, FinderTypeOK, GrownOK, Growing
<1>p. nd[l].prog \in Nat
  BY <1>t, NodeFields
<1>w. Window(start, count) /\ Sums(start, count, programs, carriers)
  BY <1>n DEF FinderInv, GrownOK, Growing
<1>1. start + (count - 1) = l /\ start + (count - 1) - 1 = l - 1 /\ start + count = l + 1
      /\ start + (count - 1) - 2 = l - 2 /\ start + count - 2 = l - 1
  BY <1>t
<1>2. Sums(start, count - 1, programs', carriers')
  <2>1. Programs(start, l) = Programs(start, l - 1) + nd[l].prog /\ Programs(start, l - 1) \in Nat
    <3>1. l - 1 \in 0 .. Len(nd)
      BY <1>t
    <3> QED BY <1>t, <3>1, ProgramsStep
  <2>2. programs = Programs(start, l) /\ carriers = Cardinality(Carriers(start, l))
    BY <1>w DEF Sums
  <2>3. programs' = Programs(start, l - 1)
    BY <1>n, <1>p, <2>1, <2>2
  <2>4. carriers' = Cardinality(Carriers(start, l - 1))
    <3>0. start \in Nat /\ l \in Int /\ start <= l
      BY <1>t
    <3>1. IsFiniteSet(Carriers(start, l - 1)) /\ Cardinality(Carriers(start, l - 1)) \in Nat
      BY <3>0, CarriersGrow, FS_CardinalityType
    <3>2. Cardinality(Carriers(start, l)) =
             Cardinality(Carriers(start, l - 1)) + (IF IsPlace(l) THEN 0 ELSE 1)
      BY <3>0, CarriersGrow
    <3> QED BY <1>n, <2>2, <3>1, <3>2
  <2>5. count - 1 >= 2 => programs' <= ProgramCap
    <3>1. count >= 2 => programs <= ProgramCap
      BY <1>w DEF Sums
    <3> DEFINE p == nd[l].prog
    <3>2. programs' = programs - p /\ p \in Nat /\ programs \in Nat
      BY <1>n, <1>t, <1>p
    <3>3. ProgramCap \in Nat /\ count \in Nat
      BY <1>t, PlanAssumption
    <3> HIDE DEF p
    <3> QED BY <3>1, <3>2, <3>3
  <2> QED BY <1>1, <2>3, <2>4, <2>5 DEF Sums
<1>3. Window(start, count - 1)
  <2>1. l - 1 <= l /\ l - 2 <= l - 1 /\ l \in Int /\ start \in Int
    BY <1>t
  <2> QED BY <1>1, <1>w, <2>1 DEF Window
<1>4. FinderTypeOK'
  <2>1. programs' \in Nat /\ carriers' \in Nat
    <3>1. l - 1 \in 0 .. Len(nd)
      BY <1>t
    <3>2. IsFiniteSet(Carriers(start, l - 1))
      <4>1. start \in Nat /\ l \in Int /\ start <= l
        BY <1>t
      <4> QED BY <4>1, CarriersGrow
    <3> QED BY <1>1, <1>2, <1>t, <3>1, <3>2, ProgramsStep, FS_CardinalityType DEF Sums
  <2> QED BY <1>n, <1>t, <2>1 DEF FinderInv, FinderTypeOK, NdOK
<1>5. GrownOK'
  <2>1. \A j \in l .. here - 1 : CannotEnd(j)
    <3> SUFFICES ASSUME NEW j \in l .. here - 1, j # l PROVE CannotEnd(j)
      BY <1>n
    <3>1. j \in start + count .. here - 1
      BY <1>t
    <3> QED BY <3>1, <1>n DEF FinderInv, GrownOK, Growing
  <2>2. ~IsPool(start) /\ ~IsPlace(start) /\ start + (count - 1) <= here
    BY <1>n, <1>t DEF FinderInv, GrownOK, Growing
  <2> QED BY <1>n, <1>1, <1>2, <1>3, <2>1, <2>2, NdKept
      DEF GrownOK, Window, Sums, Chainable, RunFed, IsPlace, IsPool, CannotEnd, CubeOut, Carriers
<1>6. NextLinked'
  BY <1>n DEF NextLinked
<1>7. NoLonger'
  <2> SUFFICES ASSUME NEW b \in l .. Len(nd) PROVE ~NewAccepts(start, b)
    BY <1>n, <1>1, NdKept DEF NoLonger
  <2>1. b = l => ~NewAccepts(start, b)
    BY <1>n, <1>t, EndsAreConvs
  <2>2. b # l => b \in start + count .. Len(nd)
    BY <1>t
  <2> QED BY <1>n, <2>1, <2>2 DEF FinderInv, NoLonger
<1>8. Front' = Front
  BY <1>n DEF Front
<1> QED BY <1>4, <1>5, <1>6, <1>7, <1>8, <1>n, SameReports DEF FinderInv

\* Two program carriers in what was grown, and a convolution at its end, make
\* a window the constructor accepts.
LEMMA GrownIsBuildable ==
    ASSUME FinderInv, stage = "trim", ~MustTrim, carriers >= 2
    PROVE  NewAccepts(start, start + count - 1)
<1> DEFINE e == start + count - 1
<1>t. /\ start \in Nat /\ count \in Nat /\ e \in Int
      /\ Window(start, count) /\ Sums(start, count, programs, carriers)
      /\ ~IsPool(start) /\ ~IsPlace(start)
  BY NodeFields DEF FinderInv, FinderTypeOK, GrownOK, Growing
<1>1. IsFiniteSet(Carriers(start, e))
  <2>1. IsFiniteSet(start .. e)
    BY <1>t, FS_Interval
  <2> QED BY <2>1, FS_Subset DEF Carriers
<1>2. \E j, k \in Carriers(start, e) : j # k
  <2>1. Cardinality(Carriers(start, e)) >= 2
    BY <1>t DEF Sums
  <2> QED BY <1>1, <2>1, TwoMembers
<1>3. start < e /\ count >= 2 /\ count # 0
  <2>1. PICK j \in start .. e, k \in start .. e : j # k
    BY <1>2 DEF Carriers
  <2> QED BY <2>1, <1>t
<1>4. ~CannotEnd(e)
  BY <1>3 DEF MustTrim
<1>5. ASSUME NEW j \in start .. e PROVE Chainable(j, start < j /\ j < e)
  <2>1. Chainable(j, j > start)
    BY <1>t DEF Window
  <2>2. CASE j = e
    BY <2>1, <2>2, <1>4 DEF Chainable, CannotEnd, IsPool, IsPlace
  <2>3. CASE j # e
    <3>1. j < e /\ (j > start <=> start < j)
      BY <2>3, <1>t
    <3> QED BY <2>1, <3>1 DEF Chainable
  <2> QED BY <2>2, <2>3
<1>6. \A j \in start .. e - 1 : IsPlace(j) \/ CubeOut(j)
  <2>1. e - 1 = start + count - 2
    BY <1>t
  <2> QED BY <1>t, <2>1 DEF Window
<1>7. \A j \in start + 1 .. e : RunFed(start, j)
  BY <1>t DEF Window
<1>8. Programs(start, e) <= ProgramCap
  BY <1>t, <1>3 DEF Sums
<1> QED BY <1>2, <1>3, <1>5, <1>6, <1>7, <1>8 DEF NewAccepts

\* Every window that starts at a node of what was grown meets the run it
\* became; if it became none, there is no such window.
LEMMA GrownNotMissed ==
    ASSUME FinderInv, stage = "trim", ~MustTrim,
           NEW a \in 1 .. Len(nd), NEW b \in 1 .. Len(nd), NewAccepts(a, b),
           start <= a, a < NextStart
    PROVE  carriers >= 2 /\ start <= b /\ a <= start + count - 1
<1> DEFINE e == start + count - 1
<1>t. /\ start \in 1 .. Len(nd) /\ count \in Nat /\ e \in Int /\ here \in Nat /\ Len(nd) \in Nat
      /\ start + count <= here /\ Sums(start, count, programs, carriers)
      /\ ~IsPlace(start) /\ \A j \in start + count .. here - 1 : CannotEnd(j)
      /\ \A c \in start + count .. Len(nd) : ~NewAccepts(start, c)
  BY NodeFields DEF FinderInv, FinderTypeOK, GrownOK, Growing, NoLonger
<1>c. a < b /\ ~CannotEnd(a) /\ ~CannotEnd(b) /\ ~IsPlace(a) /\ ~IsPlace(b)
  BY <1>t, EndsAreConvs
<1>1. a <= e
  <2> SUFFICES ASSUME a > e PROVE FALSE
    BY <1>t
  <2>1. CASE here = start
    <3>1. a = start /\ b \in start + count .. Len(nd)
      BY <2>1, <1>t, <1>c DEF NextStart
    <3> QED BY <3>1, <1>t
  <2>2. CASE here # start
    <3>1. a \in start + count .. here - 1
      BY <2>2, <1>t DEF NextStart
    <3> QED BY <3>1, <1>t, <1>c
  <2> QED BY <2>1, <2>2
<1>2. \E c \in start .. e : c # start /\ ~IsPlace(c)
  <2>1. CASE a # start
    BY <2>1, <1>1, <1>t, <1>c
  <2>2. CASE a = start
    <3>1. b <= e
      <4> SUFFICES ASSUME b > e PROVE FALSE
        BY <1>t
      <4>1. b \in start + count .. Len(nd)
        BY <1>t
      <4> QED BY <4>1, <2>2, <1>t
    <3> QED BY <3>1, <2>2, <1>t, <1>c
  <2> QED BY <2>1, <2>2
<1>3. carriers >= 2
  <2>1. PICK c \in start .. e : c # start /\ ~IsPlace(c)
    BY <1>2
  <2>2. start \in Carriers(start, e) /\ c \in Carriers(start, e)
    BY <2>1, <1>t DEF Carriers
  <2>3. IsFiniteSet(Carriers(start, e))
    <3>1. IsFiniteSet(start .. e)
      BY <1>t, FS_Interval
    <3> QED BY <3>1, FS_Subset DEF Carriers
  <2>4. Cardinality(Carriers(start, e)) >= 2
    BY <2>1, <2>2, <2>3, TwoMembers
  <2> QED BY <2>4, <1>t DEF Sums
<1> QED BY <1>1, <1>3, <1>c, <1>t

\* What was grown is reported, or dropped, and the next run is looked for
\* behind it.
LEMMA ReportStep == ASSUME FinderInv, Report PROVE FinderInv'
<1> DEFINE r == [first |-> start, count |-> count, programs |-> programs]
           more == Len(runs) + 1
<1>n. /\ UNCHANGED <<nd, start, count, programs, carriers>>
      /\ stage = "trim" /\ ~MustTrim /\ stage' = "open" /\ here' = NextStart
      /\ runs' = IF carriers < 2 THEN runs ELSE Append(runs, r)
  BY DEF Report
<1>t. /\ start \in 1 .. Len(nd) /\ count \in Nat /\ here \in 1 .. Len(nd) + 1 /\ Len(nd) \in Nat
      /\ programs \in Nat /\ carriers \in Nat /\ start + count <= here
      /\ Sums(start, count, programs, carriers) /\ runs \in Seq(RunRec) /\ Len(runs) \in Nat
  BY <1>n, NodeFields DEF FinderInv, FinderTypeOK, GrownOK, Growing
<1>h. NextStart \in 1 .. Len(nd) + 1 /\ start + count <= NextStart /\ start < NextStart
  BY <1>t DEF NextStart
<1>f. Front = start /\ Front' = NextStart
  BY <1>n DEF Front
<1>r. r \in RunRec /\ Last(r) = start + count - 1
  BY <1>t DEF RunRec, Last
<1>T. FinderTypeOK'
  <2>1. runs' \in Seq(RunRec)
    BY <1>n, <1>t, <1>r
  <2> QED BY <1>n, <1>t, <1>h, <2>1 DEF FinderInv, FinderTypeOK, NdOK
<1>a. carriers >= 2 => /\ Len(runs') = more /\ runs'[more] = r
                       /\ \A k \in 1 .. Len(runs) : runs'[k] = runs[k]
  BY <1>n, <1>t, <1>r
<1>b. carriers < 2 => runs' = runs
  BY <1>n
<1>k. ASSUME NEW q PROVE RunGood(q)' = RunGood(q) /\ Last(q)' = Last(q)
  BY <1>n, NdKept DEF RunGood, Last
<1>1. carriers >= 2 => RunGood(r) /\ Last(r) < NextStart
  <2> SUFFICES ASSUME carriers >= 2 PROVE RunGood(r) /\ Last(r) < NextStart
    OBVIOUS
  <2>1. NewAccepts(start, start + count - 1)
    BY <1>n, GrownIsBuildable
  <2>2. programs = Programs(start, start + count - 1)
    BY <1>t DEF Sums
  <2>3. \A b \in start + count .. Len(nd) : ~NewAccepts(start, b)
    BY <1>n DEF FinderInv, NoLonger
  <2>4. (start + count - 1) + 1 = start + count
    BY <1>t
  <2> QED BY <2>1, <2>2, <2>3, <2>4, <1>r, <1>h, <1>t DEF RunGood
<1>2. \A k \in 1 .. Len(runs) : /\ RunGood(runs[k]) /\ Last(runs[k]) < start
                                /\ Last(runs[k]) < NextStart
  BY <1>f, <1>h, <1>t, RunFields DEF FinderInv, ReportedOK
<1>3. ReportedOK'
  <2>1. CASE carriers < 2
    BY <2>1, <1>b, <1>2, <1>k, <1>f DEF FinderInv, ReportedOK, Last
  <2>2. CASE carriers >= 2
    <3>1. ASSUME NEW k \in 1 .. more PROVE RunGood(runs'[k]) /\ Last(runs'[k]) < NextStart
      <4>1. k = more \/ k \in 1 .. Len(runs)
        BY <1>t
      <4> QED BY <4>1, <2>2, <1>a, <1>1, <1>2
    <3>2. ASSUME NEW k \in 2 .. more PROVE Last(runs'[k - 1]) < runs'[k].first
      <4>1. CASE k = more
        <5>1. k - 1 \in 1 .. Len(runs)
          BY <4>1, <1>t
        <5> QED BY <4>1, <5>1, <2>2, <1>a, <1>2
      <4>2. CASE k # more
        <5>1. k \in 2 .. Len(runs) /\ k \in 1 .. Len(runs) /\ k - 1 \in 1 .. Len(runs)
          BY <4>2, <1>t
        <5> QED BY <5>1, <2>2, <1>a DEF FinderInv, ReportedOK
      <4> QED BY <4>1, <4>2
    <3> QED BY <2>2, <3>1, <3>2, <1>a, <1>k, <1>f DEF ReportedOK, Last
  <2> QED BY <2>1, <2>2, <1>t
<1>4. NoneMissed'
  <2> SUFFICES ASSUME NEW a \in 1 .. Len(nd), NEW b \in 1 .. Len(nd), a < NextStart,
                      NewAccepts(a, b)
               PROVE  SharesRun(a, b)'
    BY <1>n, <1>f, NdKept DEF NoneMissed
  <2>1. CASE a < start
    <3>1. PICK k \in 1 .. Len(runs) : runs[k].first <= b /\ a <= Last(runs[k])
      BY <2>1, <1>f DEF FinderInv, NoneMissed, SharesRun
    <3>2. k \in 1 .. Len(runs') /\ runs'[k] = runs[k]
      BY <1>a, <1>b, <1>t
    <3> QED BY <3>1, <3>2 DEF SharesRun, Last
  <2>2. CASE start <= a
    <3>1. carriers >= 2 /\ start <= b /\ a <= start + count - 1
      BY <1>n, <2>2, GrownNotMissed
    <3>2. more \in 1 .. Len(runs') /\ runs'[more] = r
      BY <3>1, <1>a, <1>t
    <3> QED BY <3>1, <3>2, <1>r DEF SharesRun, Last
  <2> QED BY <2>1, <2>2, <1>t
<1>5. GrownOK' /\ NextLinked' /\ NoLonger'
  BY <1>n DEF GrownOK, Growing, NextLinked, NoLonger
<1> QED BY <1>T, <1>3, <1>4, <1>5 DEF FinderInv

\* Every step keeps the invariant.
LEMMA FinderNextOK == FinderInv /\ [FinderNext]_finderVars => FinderInv'
<1> SUFFICES ASSUME FinderInv, [FinderNext]_finderVars PROVE FinderInv'
  OBVIOUS
<1>1. CASE UNCHANGED finderVars \/ FinderDone
  <2>1. UNCHANGED finderVars
    BY <1>1 DEF FinderDone
  <2>2. UNCHANGED <<nd, here, start, count, programs, carriers, runs, stage>>
    BY <2>1 DEF finderVars
  <2>3. Front' = Front
    BY <2>2 DEF Front
  <2>4. FinderTypeOK'
    BY <2>2 DEF FinderInv, FinderTypeOK, NdOK
  <2>5. GrownOK' /\ NextLinked' /\ NoLonger'
    BY <2>2, NdKept DEF FinderInv, GrownOK, NextLinked, NoLonger, Growing, Window, Sums, Chainable,
                        RunFed, IsPlace, IsPool, CannotEnd, CubeOut, Carriers
  <2> QED BY <2>2, <2>3, <2>4, <2>5, SameReports DEF FinderInv
<1> QED BY <1>1, OpenStep, GrowStep, GrowStopStep, TrimStep, ReportStep DEF FinderNext

\* PlannedIsBuildable of every run of the finder: rocket_chain_new_rk3576 takes
\* whatever rocket_chain_plan_rk3576 reported.
THEOREM BuildableCorrect == FinderSpec => []PlannedIsBuildable
<1>1. FinderInv => PlannedIsBuildable
  <2> SUFFICES ASSUME FinderInv, NEW k \in DOMAIN runs
               PROVE  /\ NewAccepts(runs[k].first, Last(runs[k]))
                      /\ runs[k].programs = Programs(runs[k].first, Last(runs[k]))
    BY DEF PlannedIsBuildable
  <2>1. k \in 1 .. Len(runs)
    BY DEF FinderInv, FinderTypeOK
  <2> QED BY <2>1 DEF FinderInv, ReportedOK, RunGood
<1> QED BY <1>1, FinderInitOK, FinderNextOK, PTL DEF FinderSpec

\* RunsAreGreedy of every run of the finder: in order, disjoint, maximal, and
\* nothing that could be chained left out.
THEOREM GreedyCorrect == FinderSpec => []RunsAreGreedy
<1>1. FinderInv => RunsAreGreedy
  <2> SUFFICES ASSUME FinderInv PROVE RunsDisjoint /\ RunsMaximal /\ NothingMissed
    BY DEF RunsAreGreedy
  <2>1. DOMAIN runs = 1 .. Len(runs) /\ Len(runs) \in Nat /\ Len(nd) \in Nat /\ here \in Nat
    BY RunFields, NodeFields DEF FinderInv, FinderTypeOK
  <2>2. RunsDisjoint
    <3> SUFFICES ASSUME NEW k \in DOMAIN runs, k > 1 PROVE Last(runs[k - 1]) < runs[k].first
      BY DEF RunsDisjoint
    <3>1. k \in 2 .. Len(runs)
      BY <2>1
    <3> QED BY <3>1 DEF FinderInv, ReportedOK
  <2>3. RunsMaximal
    BY <2>1 DEF FinderInv, ReportedOK, RunGood, RunsMaximal
  <2>4. NothingMissed
    <3> SUFFICES ASSUME Finished, NEW a \in 1 .. Len(nd), NEW b \in 1 .. Len(nd), NewAccepts(a, b)
                 PROVE  \E q \in {runs[k] : k \in DOMAIN runs} : q.first <= b /\ a <= Last(q)
      BY DEF NothingMissed
    <3>1. a < b
      BY DEF NewAccepts
    <3>2. a < Front
      BY <2>1, <3>1 DEF Finished, Front
    <3>3. SharesRun(a, b)
      BY <3>2 DEF FinderInv, NoneMissed
    <3> QED BY <3>3, <2>1 DEF SharesRun
  <2> QED BY <2>2, <2>3, <2>4
<1> QED BY <1>1, FinderInitOK, FinderNextOK, PTL DEF FinderSpec

-----------------------------------------------------------------------------
(* The wait for a job.                                                     *)

\* The types of the variables.
Places == {"out", "test", "resolve", "read", "poll", "spin", "arm", "wait", "again",
           "note", "load", "raise", "mark", "back"}

WaitTypeOK ==
    /\ clock \in 0 .. MaxNow /\ fenced \in BOOLEAN /\ budget \in Int
    /\ at \in [Waiters -> Places]
    /\ timeout \in [Waiters -> Nat]
    /\ began \in [Waiters -> Nat] /\ \A w \in Waiters : began[w] <= clock
    /\ limit \in [Waiters -> Int]
    /\ answer \in [Waiters -> {"none", "done", "busy", "error"}]
    /\ took \in [Waiters -> Nat] /\ seen \in [Waiters -> Nat]
    /\ waits \in Nat /\ slow \in Nat /\ longest \in Nat

\* Max of two is one of them.
LEMMA AtLeastZeroType == ASSUME NEW v \in Int PROVE AtLeastZero(v) \in Int
<1>1. \E x \in {v, 0} : \A y \in {v, 0} : x >= y
  OBVIOUS
<1> QED BY <1>1 DEF AtLeastZero, Max

\* No wait has begun.
LEMMA WaitTypeInit == WaitInit => WaitTypeOK
<1> SUFFICES ASSUME WaitInit PROVE WaitTypeOK
  OBVIOUS
<1>1. timeout \in [Waiters -> Nat]
  BY WaitersAssumption DEF WaitInit
<1>2. /\ at \in [Waiters -> Places] /\ answer \in [Waiters -> {"none", "done", "busy", "error"}]
      /\ began \in [Waiters -> Nat] /\ limit \in [Waiters -> Int]
      /\ took \in [Waiters -> Nat] /\ seen \in [Waiters -> Nat]
  BY DEF WaitInit, Places
<1>3. clock \in 0 .. MaxNow /\ \A w \in Waiters : began[w] <= clock
  BY ClockAssumption DEF WaitInit
<1>4. fenced \in BOOLEAN
  BY DEF WaitInit
<1>5. budget \in Int /\ waits \in Nat /\ slow \in Nat /\ longest \in Nat
  BY DEF WaitInit
<1> QED BY <1>1, <1>2, <1>3, <1>4, <1>5 DEF WaitTypeOK

\* The steps that only move a waiter and touch its own times.
Moves(w) ==
    \/ Begin(w) \/ TestBudget(w) \/ ResolveBudget(w) \/ ReadBudget(w)
    \/ PollBusy(w) \/ Spin(w) \/ Arm(w) \/ Interrupted(w) \/ Again(w)

\* The steps that end its wait, with an answer.
Answers(w) ==
    \E from \in {"poll", "wait"}, a \in {"done", "busy", "error"} :
        /\ Answer(w, from, a)
        /\ a = "done" => fenced
        /\ a = "busy" => from = "wait" /\ clock >= limit[w]

\* The steps that note a wait's time.
Notes(w) == CountWait(w) \/ LoadLongest(w) \/ Raise(w) \/ Mark(w)

\* Every step of a waiter is of one of the three kinds.
LEMMA StepKinds ==
    ASSUME NEW w \in Waiters, WaiterStep(w)
    PROVE  Moves(w) \/ Answers(w) \/ Notes(w)
BY DEF WaiterStep, Moves, Answers, Notes, Fenced, TimedOut, Failed

\* Every step keeps the types, and no wait began in the future.
LEMMA WaitTypeNext == WaitTypeOK /\ [WaitNext]_waitVars => WaitTypeOK'
<1> SUFFICES ASSUME WaitTypeOK, [WaitNext]_waitVars PROVE WaitTypeOK'
  OBVIOUS
<1> USE DEF waiterVars, counterVars
<1>1. CASE UNCHANGED waitVars
  BY <1>1 DEF waitVars, WaitTypeOK
<1>2. CASE Tick
  <2>1. clock' \in 0 .. MaxNow /\ clock' = clock + 1
    BY <1>2, ClockAssumption DEF Tick, WaitTypeOK
  <2>2. \A w \in Waiters : began[w] <= clock + 1
    BY ClockAssumption DEF WaitTypeOK
  <2> QED BY <1>2, <2>1, <2>2 DEF Tick, WaitTypeOK
<1>6. CASE Signal
  BY <1>6 DEF Signal, WaitTypeOK
<1>3. CASE SetBudget
  BY <1>3, SettingsAssumption, AtLeastZeroType DEF SetBudget, WaitTypeOK
<1>4. ASSUME NEW w \in Waiters, Moves(w) PROVE WaitTypeOK'
  <2> USE DEF WaitTypeOK, Go, Places
  <2>1. CASE Begin(w)
    BY <2>1, ClockAssumption DEF Begin
  <2>2. CASE ResolveBudget(w)
    BY <2>2, SettingsAssumption, AtLeastZeroType DEF ResolveBudget
  <2>3. CASE ReadBudget(w)
    <3>1. clock + budget \in Int
      BY ClockAssumption
    <3> QED BY <2>3, <3>1 DEF ReadBudget
  <2>4. CASE Arm(w)
    <3>1. Deadline(clock, timeout[w]) \in Int
      BY ClockAssumption DEF Deadline
    <3> QED BY <2>4, <3>1 DEF Arm
  <2>5. CASE TestBudget(w) \/ PollBusy(w) \/ Spin(w) \/ Interrupted(w) \/ Again(w)
    BY <2>5 DEF TestBudget, PollBusy, Spin, Interrupted, Again
  <2> QED BY <1>4, <2>1, <2>2, <2>3, <2>4, <2>5 DEF Moves
<1>5. ASSUME NEW w \in Waiters, Answers(w) PROVE WaitTypeOK'
  <2>1. clock - began[w] \in Nat
    BY ClockAssumption DEF WaitTypeOK
  <2> QED BY <1>5, <2>1 DEF Answers, Answer, Go, Places, WaitTypeOK
<1>7. ASSUME NEW w \in Waiters, Notes(w) PROVE WaitTypeOK'
  BY <1>7 DEF Notes, CountWait, LoadLongest, Raise, Mark, Go, Places, WaitTypeOK
<1> QED BY <1>1, <1>2, <1>3, <1>4, <1>5, <1>6, <1>7, StepKinds DEF WaitNext

-----------------------------------------------------------------------------
\* The deadline of a timed wait lies at least its timeout behind its start,
\* or is the last there is.
Armed(w) ==
    timeout[w] > 0 /\ at[w] \in {"wait", "again"} =>
        limit[w] >= began[w] + timeout[w] \/ limit[w] = MaxInt

\* The inductive invariant of the answers.
HonestInv == WaitTypeOK /\ (\A w \in Waiters : Armed(w)) /\ WaitHonest

\* A deadline is the timeout behind now, saturated.
LEMMA DeadlineFar ==
    ASSUME NEW now \in Nat, NEW t \in Nat
    PROVE  Deadline(now, t) = MaxInt \/ Deadline(now, t) = now + t
BY DEF Deadline

\* Every step keeps the deadlines and the answers honest.
LEMMA HonestNext == HonestInv /\ [WaitNext]_waitVars => HonestInv'
<1> SUFFICES ASSUME HonestInv, [WaitNext]_waitVars PROVE HonestInv'
  OBVIOUS
<1> USE DEF waiterVars, counterVars
<1>t. WaitTypeOK /\ WaitTypeOK'
  BY WaitTypeNext DEF HonestInv
<1>u. ASSUME UNCHANGED <<at, timeout, began, limit, answer, took>>, fenced => fenced'
      PROVE  (\A w \in Waiters : Armed(w))' /\ WaitHonest'
  BY <1>u DEF HonestInv, Armed, WaitHonest
<1>1. CASE UNCHANGED waitVars \/ Tick \/ Signal \/ SetBudget
  BY <1>1, <1>u, <1>t DEF waitVars, Tick, Signal, SetBudget, HonestInv
<1>2. ASSUME NEW w \in Waiters, Moves(w)
      PROVE  (\A v \in Waiters : Armed(v))' /\ WaitHonest'
  <2>1. UNCHANGED <<fenced, timeout, answer, took>>
    BY <1>2 DEF Moves, Begin, TestBudget, ResolveBudget, ReadBudget, PollBusy, Spin, Arm,
                Interrupted, Again
  <2>2. WaitHonest'
    BY <2>1 DEF WaitHonest, HonestInv
  <2>3. ASSUME NEW v \in Waiters, v # w PROVE Armed(v)'
    <3>1. at'[v] = at[v] /\ began'[v] = began[v] /\ limit'[v] = limit[v]
      BY <1>2, <1>t, <2>3 DEF Moves, Begin, TestBudget, ResolveBudget, ReadBudget, PollBusy,
                Spin, Arm, Interrupted, Again, Go, WaitTypeOK
    <3> QED BY <3>1, <2>1 DEF HonestInv, Armed
  <2>4. Armed(w)'
    <3>1. CASE Begin(w) \/ TestBudget(w) \/ ResolveBudget(w) \/ ReadBudget(w) \/ PollBusy(w)
               \/ Spin(w)
      <4>1. timeout[w] > 0 => at'[w] \notin {"wait", "again"}
        BY <3>1, <1>t DEF Begin, TestBudget, ResolveBudget, ReadBudget, PollBusy, Spin, Go,
                          WaitTypeOK
      <4> QED BY <4>1, <2>1 DEF Armed
    <3>2. CASE Interrupted(w) \/ Again(w)
      BY <3>2, <2>1, <1>t DEF Interrupted, Again, Go, Armed, HonestInv, WaitTypeOK
    <3>3. CASE Arm(w)
      <4>1. limit'[w] = Deadline(clock, timeout[w]) /\ began'[w] = began[w]
        BY <3>3, <1>t DEF Arm, WaitTypeOK
      <4>2. clock \in Nat /\ timeout[w] \in Nat /\ began[w] \in Nat /\ began[w] <= clock
        BY <1>t, ClockAssumption DEF WaitTypeOK
      <4>3. limit'[w] >= began[w] + timeout[w] \/ limit'[w] = MaxInt
        BY <4>1, <4>2, DeadlineFar
      <4> QED BY <4>1, <4>3, <2>1 DEF Armed
    <3> QED BY <1>2, <3>1, <3>2, <3>3 DEF Moves
  <2> QED BY <2>2, <2>3, <2>4
<1>3. ASSUME NEW w \in Waiters, Answers(w)
      PROVE  (\A v \in Waiters : Armed(v))' /\ WaitHonest'
  <2>1. PICK from \in {"poll", "wait"}, a \in {"done", "busy", "error"} :
           Answer(w, from, a) /\ (a = "done" => fenced)
           /\ (a = "busy" => from = "wait" /\ clock >= limit[w])
    BY <1>3 DEF Answers
  <2>2. /\ UNCHANGED <<timeout, fenced>> /\ at[w] = from
        /\ answer'[w] = a /\ took'[w] = clock - began[w] /\ at'[w] \in {"back", "note"}
        /\ \A v \in Waiters \ {w} : /\ answer'[v] = answer[v] /\ took'[v] = took[v]
                                    /\ at'[v] = at[v] /\ began'[v] = began[v]
                                    /\ limit'[v] = limit[v]
    BY <2>1, <1>t DEF Answer, Go, WaitTypeOK
  <2>3. a = "busy" => took'[w] >= timeout[w]
    <3> SUFFICES ASSUME a = "busy" PROVE clock - began[w] >= timeout[w]
      BY <2>2
    <3>1. /\ clock \in Nat /\ clock <= MaxNow /\ began[w] \in Nat /\ timeout[w] \in Nat
          /\ limit[w] \in Int /\ began[w] <= clock
      BY <1>t, ClockAssumption DEF WaitTypeOK
    <3>2. clock >= limit[w] /\ at[w] = "wait"
      BY <2>1, <2>2
    <3>3. timeout[w] > 0 => limit[w] >= began[w] + timeout[w]
      BY <3>1, <3>2, ClockAssumption DEF HonestInv, Armed
    <3> QED BY <3>1, <3>2, <3>3
  <2>4. ASSUME NEW v \in Waiters PROVE Armed(v)'
    BY <2>2 DEF HonestInv, Armed
  <2>5. WaitHonest'
    BY <2>1, <2>2, <2>3 DEF HonestInv, WaitHonest
  <2> QED BY <2>4, <2>5
<1>4. ASSUME NEW w \in Waiters, Notes(w)
      PROVE  (\A v \in Waiters : Armed(v))' /\ WaitHonest'
  <2>1. UNCHANGED <<fenced, timeout, began, limit, answer, took>>
    BY <1>4 DEF Notes, CountWait, LoadLongest, Raise, Mark
  <2>2. \A v \in Waiters : at'[v] = at[v] \/ at'[v] \notin {"wait", "again"}
    BY <1>4, <1>t DEF Notes, CountWait, LoadLongest, Raise, Mark, Go, WaitTypeOK
  <2> QED BY <2>1, <2>2 DEF HonestInv, Armed, WaitHonest
<1> QED BY <1>1, <1>2, <1>3, <1>4, <1>t, StepKinds DEF WaitNext, HonestInv

\* WaitHonest of every run, whatever the timeouts, the budget and the signals:
\* what rocket_bo_prep returns (rocket_npu.c) is true of the job it waited for.
THEOREM HonestCorrect == WaitSpec => []WaitHonest
<1>1. WaitInit => HonestInv
  BY WaitTypeInit DEF WaitInit, HonestInv, Armed, WaitHonest
<1>2. HonestInv => WaitHonest
  BY DEF HonestInv
<1> QED BY <1>1, <1>2, HonestNext, PTL DEF WaitSpec

-----------------------------------------------------------------------------
\* The timed waiters past each step that raises a counter.
Counted == {w \in Waiters : timeout[w] > 0 /\ at[w] \in {"load", "raise", "mark", "back"}}
Raised == {w \in Waiters : timeout[w] > 0 /\ at[w] \in {"mark", "back"}}
Slow == {w \in Noted : took[w] >= SlowMark}

\* The maximum is one of the times it was raised to, and none is beyond it.
LongestOfRaised ==
    /\ longest = 0 \/ \E w \in Raised : longest = took[w]
    /\ \A w \in Raised : took[w] <= longest
    /\ \A w \in Waiters : at[w] = "raise" => seen[w] <= longest

\* Only a wait with a timeout is noted.
OnlyTimed == \A w \in Waiters : Noting(w) => timeout[w] > 0

\* The inductive invariant of the counters.
CountInv ==
    /\ WaitTypeOK /\ OnlyTimed
    /\ waits = Cardinality(Counted) /\ slow = Cardinality(Slow)
    /\ LongestOfRaised

\* One waiter more is one more to count.
LEMMA OneMore ==
    ASSUME NEW S \in SUBSET Waiters, NEW w \in Waiters, w \notin S
    PROVE  Cardinality(S \cup {w}) = Cardinality(S) + 1
BY WaitersAssumption, FS_Subset, FS_AddElement

\* What a step that is not one of the notes leaves as it was, it leaves so
\* for the counters.
LEMMA UncountedStep ==
    ASSUME CountInv, UNCHANGED <<timeout, counterVars>>, NEW W \in SUBSET Waiters,
           \A v \in Waiters \ W : at'[v] = at[v] /\ took'[v] = took[v] /\ seen'[v] = seen[v],
           \A w \in W : /\ at[w] \notin {"note", "load", "raise", "mark", "back"}
                        /\ at'[w] \notin {"load", "raise", "mark"}
                        /\ at'[w] = "note" => timeout[w] > 0
                        /\ at'[w] = "back" => timeout[w] = 0
    PROVE  /\ OnlyTimed' /\ LongestOfRaised'
           /\ waits' = Cardinality(Counted)' /\ slow' = Cardinality(Slow)'
<1> USE DEF counterVars
<1>1. Counted' = Counted /\ Raised' = Raised /\ Noted' = Noted
  BY DEF Counted, Raised, Noted, CountInv, WaitTypeOK
<1>2. Slow' = Slow
  BY <1>1 DEF Slow, Noted
<1>3. LongestOfRaised'
  BY <1>1 DEF LongestOfRaised, CountInv, Raised
<1>4. OnlyTimed'
  BY DEF OnlyTimed, Noting, CountInv
<1> QED BY <1>1, <1>2, <1>3, <1>4 DEF CountInv

\* Every step keeps the counters at what they count.
LEMMA CountNext == CountInv /\ [WaitNext]_waitVars => CountInv'
<1> SUFFICES ASSUME CountInv, [WaitNext]_waitVars PROVE CountInv'
  OBVIOUS
<1> USE DEF waiterVars, counterVars
<1>t. WaitTypeOK /\ WaitTypeOK'
  BY WaitTypeNext DEF CountInv
<1>1. CASE UNCHANGED waitVars \/ Tick \/ Signal \/ SetBudget
  <2>1. UNCHANGED <<timeout, at, took, seen, counterVars>>
    BY <1>1 DEF waitVars, Tick, Signal, SetBudget
  <2>2. \E W \in SUBSET Waiters : W = {}
    OBVIOUS
  <2> QED BY <1>t, <2>1, <2>2, UncountedStep DEF CountInv
<1>2. ASSUME NEW w \in Waiters, Moves(w) PROVE CountInv'
  <2>1. UNCHANGED <<timeout, took, seen, counterVars>>
    BY <1>2 DEF Moves, Begin, TestBudget, ResolveBudget, ReadBudget, PollBusy, Spin, Arm,
                Interrupted, Again
  <2>2. /\ \A v \in Waiters \ {w} : at'[v] = at[v]
        /\ at[w] \notin {"note", "load", "raise", "mark", "back"}
        /\ at'[w] \notin {"note", "load", "raise", "mark", "back"}
    BY <1>2, <1>t DEF Moves, Begin, TestBudget, ResolveBudget, ReadBudget, PollBusy, Spin, Arm,
                Interrupted, Again, Go, WaitTypeOK
  <2>3. {w} \in SUBSET Waiters
    OBVIOUS
  <2> QED BY <1>t, <2>1, <2>2, <2>3, UncountedStep DEF CountInv
<1>3. ASSUME NEW w \in Waiters, Answers(w) PROVE CountInv'
  <2>1. PICK from \in {"poll", "wait"}, a \in {"done", "busy", "error"} : Answer(w, from, a)
    BY <1>3 DEF Answers
  <2>2. UNCHANGED <<timeout, seen, counterVars>>
    BY <2>1, <1>3 DEF Answer, Answers, Fenced, TimedOut, Failed
  <2>3. /\ \A v \in Waiters \ {w} : at'[v] = at[v] /\ took'[v] = took[v]
        /\ at[w] \in {"poll", "wait"}
        /\ at'[w] = IF timeout[w] = 0 THEN "back" ELSE "note"
        /\ timeout[w] \in Nat
    BY <2>1, <1>t DEF Answer, Go, WaitTypeOK
  <2>4. {w} \in SUBSET Waiters
    OBVIOUS
  <2>5. /\ at[w] \notin {"note", "load", "raise", "mark", "back"}
        /\ at'[w] \notin {"load", "raise", "mark"}
        /\ at'[w] = "note" => timeout[w] > 0
        /\ at'[w] = "back" => timeout[w] = 0
    BY <2>3
  <2>6. \A v \in Waiters \ {w} : at'[v] = at[v] /\ took'[v] = took[v] /\ seen'[v] = seen[v]
    BY <2>2, <2>3
  <2>7. UNCHANGED <<timeout, counterVars>>
    BY <2>2
  <2>8. /\ OnlyTimed' /\ LongestOfRaised'
        /\ waits' = Cardinality(Counted)' /\ slow' = Cardinality(Slow)'
    BY <2>4, <2>5, <2>6, <2>7, UncountedStep
  <2> QED BY <1>t, <2>8 DEF CountInv
<1>4. ASSUME NEW w \in Waiters, Notes(w) PROVE CountInv'
  <2>1. /\ UNCHANGED <<timeout, took>> /\ timeout[w] > 0
        /\ \A v \in Waiters \ {w} : at'[v] = at[v] /\ seen'[v] = seen[v]
    BY <1>4, <1>t DEF Notes, CountWait, LoadLongest, Raise, Mark, Go, WaitTypeOK, CountInv,
                      OnlyTimed, Noting
  <2>2. OnlyTimed'
    BY <2>1 DEF OnlyTimed, CountInv, Noting
  <2>3. waits' = Cardinality(Counted)'
    <3>1. CASE CountWait(w)
      <4>1. Counted' = Counted \cup {w} /\ w \notin Counted /\ waits' = waits + 1
        BY <3>1, <1>t, <2>1 DEF CountWait, Go, Counted, WaitTypeOK
      <4> QED BY <4>1, OneMore DEF CountInv, Counted
    <3>2. CASE LoadLongest(w) \/ Raise(w) \/ Mark(w)
      <4>1. Counted' = Counted /\ waits' = waits
        BY <3>2, <1>t, <2>1 DEF LoadLongest, Raise, Mark, Go, Counted, WaitTypeOK
      <4> QED BY <4>1 DEF CountInv
    <3> QED BY <1>4, <3>1, <3>2 DEF Notes
  <2>4. slow' = Cardinality(Slow)'
    <3>1. CASE Mark(w)
      <4>1. Slow' = (IF took[w] >= SlowMark THEN Slow \cup {w} ELSE Slow) /\ w \notin Slow
        BY <3>1, <1>t, <2>1 DEF Mark, Go, Slow, Noted, WaitTypeOK
      <4>2. slow' = slow + (IF took[w] >= SlowMark THEN 1 ELSE 0) /\ slow \in Nat
        BY <3>1, <1>t DEF Mark, WaitTypeOK
      <4>3. Slow \in SUBSET Waiters
        BY DEF Slow, Noted
      <4>4. Cardinality(Slow \cup {w}) = Cardinality(Slow) + 1
        BY <4>1, <4>3, OneMore
      <4>5. slow = Cardinality(Slow)
        BY DEF CountInv
      <4> HIDE DEF Slow
      <4> QED BY <4>1, <4>2, <4>4, <4>5
    <3>2. CASE LoadLongest(w) \/ Raise(w) \/ CountWait(w)
      <4>1. Slow' = Slow /\ slow' = slow
        BY <3>2, <1>t, <2>1 DEF LoadLongest, Raise, CountWait, Go, Slow, Noted, WaitTypeOK
      <4> QED BY <4>1 DEF CountInv
    <3> QED BY <1>4, <3>1, <3>2 DEF Notes
  <2>5. LongestOfRaised'
    <3>1. CASE Raise(w) /\ longest' # longest
      <4>1. /\ longest' = took[w] /\ longest < took[w] /\ at'[w] = "mark"
        BY <3>1, <1>t DEF Raise, Exchanged, Go, WaitTypeOK
      <4>2. Raised' = Raised \cup {w}
        BY <3>1, <1>t, <2>1, <4>1 DEF Raised, Raise, Go, WaitTypeOK
      <4>3. \A v \in Raised : took[v] <= longest /\ took[v] \in Nat /\ longest \in Nat
        BY <1>t DEF CountInv, LongestOfRaised, WaitTypeOK, Raised
      <4>4. \A v \in Waiters : at'[v] = "raise" => seen'[v] <= longest'
        BY <4>1, <2>1, <1>t DEF CountInv, LongestOfRaised, WaitTypeOK
      <4>5. \A v \in Raised' : took'[v] <= longest'
        BY <4>1, <4>2, <4>3, <2>1, <1>t DEF WaitTypeOK
      <4> QED BY <4>1, <4>2, <4>4, <4>5, <2>1 DEF LongestOfRaised
    <3>2. CASE Raise(w) /\ longest' = longest
      <4>1. Raised' = Raised \/ (Raised' = Raised \cup {w} /\ took[w] <= seen[w])
        BY <3>2, <1>t, <2>1 DEF Raised, Raise, Exchanged, Go, WaitTypeOK
      <4>2. at[w] = "raise" /\ seen[w] <= longest /\ took[w] \in Nat /\ seen[w] \in Nat
        BY <3>2, <1>t DEF Raise, Go, CountInv, LongestOfRaised, WaitTypeOK
      <4>3. \A v \in Raised' : took'[v] <= longest'
        BY <4>1, <4>2, <3>2, <2>1, <1>t DEF CountInv, LongestOfRaised, WaitTypeOK
      <4>4. \A v \in Waiters : at'[v] = "raise" => seen'[v] <= longest'
        BY <4>2, <3>2, <2>1, <1>t DEF CountInv, LongestOfRaised, WaitTypeOK, Raise, Go
      <4> QED BY <4>1, <4>3, <4>4, <3>2, <2>1 DEF LongestOfRaised, CountInv
    <3>3. CASE CountWait(w) \/ LoadLongest(w) \/ Mark(w)
      <4>1. Raised' = Raised /\ longest' = longest
        BY <3>3, <1>t, <2>1 DEF Raised, CountWait, LoadLongest, Mark, Go, WaitTypeOK
      <4>2. at'[w] = "raise" => seen'[w] <= longest'
        BY <3>3, <1>t DEF CountWait, LoadLongest, Mark, Go, WaitTypeOK
      <4> QED BY <4>1, <4>2, <2>1 DEF LongestOfRaised, CountInv
    <3> QED BY <1>4, <3>1, <3>2, <3>3 DEF Notes
  <2> QED BY <1>t, <2>2, <2>3, <2>4, <2>5 DEF CountInv
<1> QED BY <1>1, <1>2, <1>3, <1>4, StepKinds DEF WaitNext

\* CountersExact of every run, for any number of waiters: the unlocked counters
\* of rkt_fence_wait_note (rocket_fence_watch.c) lose nothing.
THEOREM CountersCorrect == WaitSpec => []CountersExact
<1>1. WaitInit => CountInv
  <2> SUFFICES ASSUME WaitInit PROVE CountInv
    OBVIOUS
  <2>1. \A w \in Waiters : at[w] = "out"
    BY DEF WaitInit
  <2>2. Counted = {} /\ Slow = {} /\ Raised = {}
    BY <2>1 DEF Counted, Slow, Noted, Raised
  <2>3. waits = 0 /\ slow = 0 /\ longest = 0
    BY DEF WaitInit
  <2>4. OnlyTimed /\ LongestOfRaised
    BY <2>1, <2>2, <2>3 DEF OnlyTimed, Noting, LongestOfRaised
  <2> QED BY <2>2, <2>3, <2>4, WaitTypeInit, FS_EmptySet DEF CountInv
<1>2. CountInv => CountersExact
  <2> SUFFICES ASSUME CountInv, \A w \in Waiters : ~Noting(w)
               PROVE  /\ waits = Cardinality(Noted) /\ slow = Cardinality(Slow)
                      /\ longest = Max({0} \cup {took[w] : w \in Noted})
    BY DEF CountersExact, Slow
  <2>1. Counted = Noted /\ Raised = Noted
    BY DEF Noting, Counted, Raised, Noted
  <2>2. longest = Max({0} \cup {took[w] : w \in Noted})
    <3> DEFINE T == {0} \cup {took[w] : w \in Noted}
    <3>1. T \subseteq Nat /\ longest \in Nat
      BY DEF CountInv, WaitTypeOK, Noted
    <3>2. longest \in T /\ \A y \in T : longest >= y
      BY <2>1, <3>1 DEF CountInv, LongestOfRaised
    <3>3. \A x \in T : (\A y \in T : x >= y) => x = longest
      BY <3>1, <3>2
    <3> HIDE DEF T
    <3>4. Max(T) = longest
      BY <3>2, <3>3 DEF Max
    <3> QED BY <3>4 DEF T
  <2> QED BY <2>1, <2>2 DEF CountInv
<1> QED BY <1>1, <1>2, CountNext, PTL DEF WaitSpec

-----------------------------------------------------------------------------
(* A call of an operator and its outline.                                  *)

\* Where a call is, it is as its outline claims; where one has ended, it has
\* ended well.
EndedWell ==
    /\ NothingLeaked /\ ErrorsReported /\ CallSettled
    /\ Ended => \A n \in op.ctx : mem[n] # "dangling"
OpInv == TypeOK /\ AsClaimed /\ EndedWell

\* What a step makes of a name is a state.
LEMMA StatesType ==
    ASSUME NEW s, NEW n, NEW x \in MemStates
    PROVE  Becomes(s, n, x) \subseteq MemStates /\ Left(s, n, x) \subseteq MemStates
<1>1. {"raw", "old", "host", "synced", "done", "owed", "result", "stale", "dirty",
       "dangling", "none", x} \subseteq MemStates
  BY DEF MemStates, Live
<1>2. Becomes(s, n, x) \subseteq
        {"raw", "old", "host", "synced", "done", "owed", "result", "stale", "dirty",
         "dangling", "none", x}
  BY DEF Becomes
<1>3. Left(s, n, x) \subseteq {"raw", "host", "none", x}
  BY DEF Left
<1> QED BY <1>1, <1>2, <1>3

\* What the outline of the operator says.
LEMMA OutlineFacts ==
    ASSUME OpInv
    PROVE  /\ WellFormed(op) /\ Closed(op, Outlines[op])
           /\ \A i \in DOMAIN op.steps : SafeStep(op, op.steps[i], Outlines[op][i])
           /\ SafeExit(op, Outlines[op][Exit(op)])
           /\ DOMAIN op.steps = 1 .. Len(op.steps) /\ Len(op.steps) \in Nat
           /\ 0 \notin DOMAIN op.steps /\ Exit(op) # 0
<1>1. Sound(op, Outlines[op])
  BY DEF OpInv, AsClaimed, SoundOutline, SoundOps
<1>2. op.steps \in Seq(Names(op.steps))
  BY <1>1 DEF Sound, WellFormed
<1>3. DOMAIN op.steps = 1 .. Len(op.steps) /\ Len(op.steps) \in Nat
  BY <1>2
<1> QED BY <1>1, <1>3 DEF Sound, Exit

\* The step a running call takes.
LEMMA StepFacts ==
    ASSUME OpInv, Running
    PROVE  /\ pc \in 1 .. Len(op.steps) /\ pc # 0 /\ Len(op.steps) \in Nat
           /\ Now.kind \in Kinds
           /\ Now.kind \in Turns => ~Now.zero
           /\ Now.names \in Seq(NamesOf(op)) /\ Now.reads \subseteq NamesOf(op)
           /\ Now.kind \in OnOne => Len(Now.names) = 1
           /\ Following(op, pc) \subseteq 1 .. Exit(op)
           /\ SafeStep(op, Now, Outlines[op][pc])
           /\ \A k \in Following(op, pc) :
                 Implies(op, Behind(op, Now, Outlines[op][pc]), Outlines[op][k])
           /\ \A n \in NamesOf(op) : mem[n] \in Outlines[op][pc].mem[n] /\ mem[n] \in MemStates
           /\ rc \in Outlines[op][pc].rc /\ rc \in {0, Bad} /\ jobs \subseteq Outlines[op][pc].jobs
           /\ ~failed /\ DOMAIN mem = NamesOf(op)
<1>1. pc \in DOMAIN op.steps
  BY DEF Running
<1>2. pc # 0 /\ pc \in 1 .. Len(op.steps) /\ Len(op.steps) \in Nat
  BY <1>1, OutlineFacts
<1>3. SafeStep(op, Now, Outlines[op][pc])
  BY <1>1, OutlineFacts DEF Now
<1>4. \A k \in Following(op, pc) :
         Implies(op, Behind(op, Now, Outlines[op][pc]), Outlines[op][k])
  BY <1>1, OutlineFacts DEF Closed, Now
<1>5. /\ Now.kind \in Kinds
      /\ Now.kind \in Turns => ~Now.zero
      /\ Now.names \in Seq(NamesOf(op)) /\ Now.reads \subseteq NamesOf(op)
      /\ Now.kind \in OnOne => Len(Now.names) = 1
      /\ Following(op, pc) \subseteq 1 .. Exit(op)
  BY <1>1, OutlineFacts DEF WellFormed, Now
<1>6. /\ \A n \in NamesOf(op) : mem[n] \in Outlines[op][pc].mem[n]
      /\ rc \in Outlines[op][pc].rc /\ jobs \subseteq Outlines[op][pc].jobs /\ ~failed
  BY <1>2 DEF OpInv, AsClaimed
<1>7. /\ \A n \in NamesOf(op) : mem[n] \in MemStates
      /\ rc \in {0, Bad} /\ DOMAIN mem = NamesOf(op)
  BY DEF OpInv, TypeOK
<1> QED BY <1>2, <1>3, <1>4, <1>5, <1>6, <1>7

\* The jobs behind step s.
Queue(s, queued) ==
    CASE s.kind = "submit" -> queued \cup {[reads |-> s.reads, writes |-> Names(s.names)]}
      [] s.kind = "wait" -> {j \in queued : s.names[1] \notin j.writes}
      [] OTHER -> queued

\* A step that goes on to a step the outline knows, and does to each name what
\* the outline says.
LEMMA GoesOn ==
    ASSUME OpInv, Running, op' = op, failed' = failed, laps' \in 0 .. MaxLaps,
           pc' \in Following(op, pc), rc' = IF Now.zero THEN 0 ELSE rc,
           jobs' = Queue(Now, jobs), DOMAIN mem' = NamesOf(op),
           mem' = [n \in DOMAIN mem' |-> mem'[n]],
           \A n \in NamesOf(op) : mem'[n] \in Becomes(Now, n, mem[n])
    PROVE  OpInv'
<1> DEFINE a == Outlines[op][pc]
           b == Outlines[op][pc']
<1>1. Implies(op, Behind(op, Now, a), b)
  BY StepFacts
<1>2. ASSUME NEW n \in NamesOf(op) PROVE mem'[n] \in b.mem[n] /\ mem'[n] \in MemStates
  <2>1. mem[n] \in a.mem[n] /\ mem[n] \in MemStates
    BY StepFacts
  <2>2. mem'[n] \in Behind(op, Now, a).mem[n]
    BY <2>1 DEF Behind
  <2>3. Becomes(Now, n, mem[n]) \subseteq MemStates
    BY <2>1, StatesType
  <2> QED BY <1>1, <2>2, <2>3 DEF Implies
<1>3. rc' \in b.rc /\ rc' \in {0, Bad}
  <2>1. rc \in a.rc /\ rc \in {0, Bad}
    BY StepFacts
  <2>2. rc' \in Behind(op, Now, a).rc
    BY <2>1 DEF Behind
  <2> QED BY <1>1, <2>1, <2>2 DEF Implies
<1>4. jobs' \subseteq b.jobs
  <2>1. jobs \subseteq a.jobs
    BY StepFacts
  <2>2. jobs' \subseteq Behind(op, Now, a).jobs
    BY <2>1 DEF Behind, Queue
  <2> QED BY <1>1, <2>2 DEF Implies
<1>5. jobs' \subseteq [reads : SUBSET NamesOf(op), writes : SUBSET NamesOf(op)]
  <2>1. Now.reads \subseteq NamesOf(op) /\ Names(Now.names) \subseteq NamesOf(op)
    BY StepFacts DEF Names
  <2>2. jobs \subseteq [reads : SUBSET NamesOf(op), writes : SUBSET NamesOf(op)]
    BY DEF OpInv, TypeOK
  <2> QED BY <2>1, <2>2 DEF Queue
<1>6. pc' \in 1 .. Exit(op) /\ pc' # 0 /\ ~failed'
  BY StepFacts, OutlineFacts DEF Exit
<1>7. AsClaimed'
  BY <1>2, <1>3, <1>4, <1>6 DEF OpInv, AsClaimed, SoundOutline
<1>8. TypeOK'
  <2>1. mem' \in [NamesOf(op) -> MemStates]
    BY <1>2
  <2>2. failed' \in BOOLEAN /\ pc' \in 0 .. Len(op.steps) + 1
    BY <1>6, OutlineFacts DEF OpInv, TypeOK, Exit
  <2> QED BY <1>3, <1>5, <2>1, <2>2 DEF TypeOK
<1>9. EndedWell'
  BY <1>6 DEF EndedWell, NothingLeaked, ErrorsReported, CallSettled, Ended
<1> QED BY <1>7, <1>8, <1>9 DEF OpInv

\* A call that ends in the states the outline foresaw has ended well.
LEMMA Ends ==
    ASSUME OpInv, op' = op, laps' = laps, jobs' = jobs, pc' = 0,
           NEW queued, jobs \subseteq queued,
           NEW left, NEW gone, NEW status, EndsWell(op, left, gone, status, queued),
           NEW m \in [NamesOf(op) -> MemStates], \A n \in NamesOf(op) : m[n] \in left[n],
           mem' = [n \in DOMAIN m |-> IF n \in gone THEN "none" ELSE m[n]],
           rc' \in status, rc' \in {0, Bad}, failed' \in BOOLEAN,
           op.name \notin Silent => (rc' = 0 <=> ~failed')
    PROVE  OpInv'
<1>1. op.ctx \cup op.keeps \subseteq NamesOf(op)
  BY DEF NamesOf
<1>2. /\ DOMAIN mem' = NamesOf(op)
      /\ \A n \in NamesOf(op) : mem'[n] = IF n \in gone THEN "none" ELSE m[n]
  OBVIOUS
<1>3. "none" \in MemStates /\ "none" \notin Live /\ "none" \notin Open
  BY DEF MemStates, Live, Open
<1>4. ASSUME NEW n \in NamesOf(op)
      PROVE  /\ mem'[n] \in MemStates
             /\ mem'[n] \in Live => \/ n \in op.ctx
                                    \/ n \in op.keeps /\ rc' = 0
                                    \/ n \in Abandoned(op) /\ rc' # 0
             /\ n \in op.ctx => mem'[n] \notin {"dangling", "dirty"}
             /\ rc' = 0 /\ n \in (op.ctx \cup op.keeps) \ op.lent => mem'[n] \notin Open
  <2>1. CASE n \in gone
    BY <1>2, <1>3, <2>1
  <2>2. CASE n \notin gone
    <3>1. mem'[n] = m[n] /\ m[n] \in left[n] /\ m[n] \in MemStates
      BY <1>2, <2>2
    <3>2. /\ m[n] \in Live => \/ n \in op.ctx
                              \/ n \in op.keeps /\ status \subseteq {0}
                              \/ n \in Abandoned(op) /\ 0 \notin status
          /\ n \in op.ctx => m[n] \notin {"dangling", "dirty"}
          /\ 0 \in status /\ n \in (op.ctx \cup op.keeps) \ op.lent => m[n] \notin Open
      BY <2>2, <3>1 DEF EndsWell
    <3> QED BY <3>1, <3>2
  <2> QED BY <2>1, <2>2
<1>5. rc' = 0 => Touched' \cap (op.ctx \cup op.keeps) = {}
  <2>1. ASSUME rc' = 0 PROVE \A j \in jobs : (j.reads \cup j.writes) \cap (op.ctx \cup op.keeps) = {}
    BY <2>1 DEF EndsWell
  <2> QED BY <2>1 DEF Touched
<1>6. TypeOK'
  <2>1. mem' \in [NamesOf(op) -> MemStates]
    BY <1>2, <1>4
  <2>2. /\ laps' \in 0 .. MaxLaps
        /\ jobs' \subseteq [reads : SUBSET NamesOf(op), writes : SUBSET NamesOf(op)]
    BY DEF OpInv, TypeOK
  <2>3. pc' \in 0 .. Len(op.steps) + 1
    BY OutlineFacts
  <2> QED BY <2>1, <2>2, <2>3 DEF TypeOK
<1>7. NothingLeaked'
  BY <1>2, <1>4 DEF NothingLeaked
<1>8. ErrorsReported'
  BY DEF ErrorsReported
<1>9. CallSettled'
  BY <1>1, <1>4, <1>5 DEF CallSettled
<1>10. \A n \in op'.ctx : mem'[n] # "dangling"
  BY <1>1, <1>4
<1>11. AsClaimed'
  BY DEF AsClaimed, OpInv, SoundOutline
<1> QED BY <1>6, <1>7, <1>8, <1>9, <1>10, <1>11 DEF OpInv, EndedWell

\* A step that fails, having done to each name no more than the outline says.
LEMMA FailsWell ==
    ASSUME OpInv, Running, NEW m \in [NamesOf(op) -> MemStates],
           \A n \in NamesOf(op) : m[n] \in Left(Now, n, mem[n]), FailWith(m)
    PROVE  OpInv'
<1> DEFINE a == Outlines[op][pc]
           left == [n \in NamesOf(op) |-> UNION {Left(Now, n, x) : x \in a.mem[n]}]
<1>1. PICK st \in FailStatus :
         Return(m, Released(Now.undo), st) /\ failed' = (Now.on # "instead" \/ st = Bad)
  BY DEF FailWith
<1>2. Now.on # "never"
  BY <1>1 DEF FailStatus
<1>3. /\ EndsWell(op, left, Gone(op, Now), Status(Now, a), a.jobs)
      /\ op.name \notin Silent /\ Now.on = "goto" => a.rc \subseteq {Bad}
  BY <1>2, StepFacts DEF SafeStep
<1>4. Released(Now.undo) = Gone(op, Now)
  BY DEF Released, Gone
<1>5. st \in Status(Now, a) /\ st \in {0, Bad}
  BY <1>1, StepFacts DEF FailStatus, Status
<1>6. op.name \notin Silent => (st = 0 <=> ~failed')
  <2>1. CASE Now.on = "instead"
    <3>1. st \in {0, Bad} /\ failed' = (st = Bad)
      BY <1>1, <2>1 DEF FailStatus
    <3>2. CASE st = Bad
      <4>1. st # 0
        BY <3>2 DEF Bad
      <4> QED BY <3>1, <3>2, <4>1, Zenon
    <3>3. CASE st # Bad
      <4>1. st = 0
        BY <3>1, <3>3
      <4> QED BY <3>1, <3>3, <4>1, Zenon
    <3> QED BY <3>2, <3>3
  <2>2. CASE Now.on # "instead"
    <3>1. failed' = TRUE
      BY <1>1, <2>2
    <3>2. Now.on \in {"error", "goto"}
      BY <1>1, <2>2 DEF FailStatus
    <3>3. op.name \notin Silent => st = Bad
      BY <1>1, <1>3, <3>2, StepFacts DEF FailStatus
    <3>4. 0 # Bad
      BY DEF Bad
    <3> QED BY <3>1, <3>3, <3>4, Zenon
  <2> QED BY <2>1, <2>2
<1>7. \A n \in NamesOf(op) : m[n] \in left[n]
  BY StepFacts
<1>8. /\ op' = op /\ laps' = laps /\ jobs' = jobs /\ pc' = 0 /\ rc' = st
      /\ mem' = [n \in DOMAIN m |-> IF n \in Gone(op, Now) THEN "none" ELSE m[n]]
      /\ failed' \in BOOLEAN
  BY <1>1, <1>4 DEF Return
<1>9. jobs \subseteq a.jobs
  BY StepFacts
<1> HIDE DEF left, a
<1> QED BY <1>3, <1>5, <1>6, <1>7, <1>8, <1>9, Ends

\* A step that goes well, having done to each name what the outline says.
LEMMA SucceedsWell ==
    ASSUME OpInv, Running, Now.kind # "jump",
           NEW m \in [NamesOf(op) -> MemStates],
           \A n \in NamesOf(op) : m[n] \in Becomes(Now, n, mem[n]),
           Succeed(m), jobs' = Queue(Now, jobs)
    PROVE  OpInv'
<1>1. /\ op' = op /\ failed' = failed /\ laps' = laps /\ pc' = pc + 1 /\ mem' = m
      /\ rc' = IF Now.zero THEN 0 ELSE rc
  BY DEF Succeed
<1>2. pc + 1 \in Following(op, pc)
  BY DEF Following, Now
<1>3. laps \in 0 .. MaxLaps
  BY DEF OpInv, TypeOK
<1>4. DOMAIN mem' = NamesOf(op) /\ mem' = [n \in DOMAIN mem' |-> mem'[n]]
  BY <1>1
<1> QED BY <1>1, <1>2, <1>3, <1>4, GoesOn

\* What Set makes of the memory.
LEMMA SetType ==
    ASSUME OpInv, NEW names, NEW to \in MemStates
    PROVE  /\ Set(names, to) \in [NamesOf(op) -> MemStates]
           /\ \A n \in NamesOf(op) : Set(names, to)[n] = IF n \in names THEN to ELSE mem[n]
<1>1. mem \in [NamesOf(op) -> MemStates]
  BY DEF OpInv, TypeOK
<1> QED BY <1>1 DEF Set

\* The memory as it is.
LEMMA MemType ==
    ASSUME OpInv
    PROVE  mem \in [NamesOf(op) -> MemStates]
BY DEF OpInv, TypeOK

-----------------------------------------------------------------------------
(* One lemma per kind of step.                                             *)

\* Allocations one by one: those before a failure stay.
LEMMA AllocKept == ASSUME OpInv, Running, AllocStep PROVE OpInv'
<1>0. Now.kind = "alloc" /\ "raw" \in MemStates
  BY DEF AllocStep, MemStates, Live
<1>1. CASE Succeed(Set(Names(Now.names), "raw")) /\ UNCHANGED jobs
  <2> DEFINE m == Set(Names(Now.names), "raw")
  <2>1. m \in [NamesOf(op) -> MemStates]
    BY <1>0, SetType
  <2>2. \A n \in NamesOf(op) : m[n] \in Becomes(Now, n, mem[n])
    BY <1>0, SetType DEF Becomes
  <2>3. jobs' = Queue(Now, jobs)
    BY <1>0, <1>1 DEF Queue
  <2>4. Succeed(m)
    BY <1>1
  <2> HIDE DEF m
  <2> QED BY <1>0, <2>1, <2>2, <2>3, <2>4, SucceedsWell
<1>2. ASSUME NEW i \in 0 .. Len(Now.names) - 1,
             FailWith(Set({Now.names[j] : j \in 1 .. i}, "raw"))
      PROVE  OpInv'
  <2> DEFINE m == Set({Now.names[j] : j \in 1 .. i}, "raw")
  <2>1. m \in [NamesOf(op) -> MemStates]
    BY <1>0, SetType
  <2>2. ASSUME NEW n \in NamesOf(op) PROVE m[n] \in Left(Now, n, mem[n])
    <3>1. Len(Now.names) \in Nat
      BY StepFacts
    <3>2. m[n] = IF n \in {Now.names[j] : j \in 1 .. i} THEN "raw" ELSE mem[n]
      BY <1>0, SetType
    <3>3. n \in {Now.names[j] : j \in 1 .. i} => \E j \in 1 .. Len(Now.names) - 1 : Now.names[j] = n
      BY <3>1
    <3> QED BY <1>0, <3>2, <3>3 DEF Left
  <2>3. FailWith(m)
    BY <1>2
  <2> HIDE DEF m
  <2> QED BY <2>1, <2>2, <2>3, FailsWell
<1> QED BY <1>1, <1>2 DEF AllocStep

\* rocket_bo_ensure32 of several names, tested together.
LEMMA EnsureKept == ASSUME OpInv, Running, EnsureStep PROVE OpInv'
<1>0. Now.kind = "ensure" /\ {"raw", "none"} \subseteq MemStates
  BY DEF EnsureStep, MemStates, Live
<1>1. PICK fresh \in SUBSET Names(Now.names), lost \in SUBSET Names(Now.names) :
         /\ \A n \in Names(Now.names) \ (fresh \cup lost) : mem[n] # "none"
         /\ fresh \cap lost = {}
         /\ IF lost = {} THEN Succeed(Ensured(fresh, lost)) /\ UNCHANGED jobs
            ELSE FailWith(Ensured(fresh, lost))
  BY DEF EnsureStep
<1> DEFINE m == Ensured(fresh, lost)
<1>2. m \in [NamesOf(op) -> MemStates]
  BY <1>0, MemType DEF Ensured
<1>3. \A n \in NamesOf(op) : m[n] = IF n \in lost THEN "none" ELSE IF n \in fresh THEN "raw" ELSE mem[n]
  BY MemType DEF Ensured
<1>4. CASE lost = {}
  <2>1. \A n \in NamesOf(op) : m[n] \in Becomes(Now, n, mem[n])
    BY <1>0, <1>1, <1>3, <1>4 DEF Becomes
  <2>2. jobs' = Queue(Now, jobs)
    BY <1>0, <1>1, <1>4 DEF Queue
  <2>3. Succeed(m)
    BY <1>1, <1>4
  <2> HIDE DEF m
  <2> QED BY <1>0, <1>2, <2>1, <2>2, <2>3, SucceedsWell
<1>5. CASE lost # {}
  <2>1. ASSUME NEW n \in NamesOf(op) PROVE m[n] \in Left(Now, n, mem[n])
    <3>1. CASE n \notin Names(Now.names)
      BY <1>0, <1>3, <3>1 DEF Left
    <3>2. CASE Names(Now.names) = {n}
      BY <1>0, <1>3, <1>5, <3>2 DEF Left
    <3>3. CASE n \in Names(Now.names) /\ Names(Now.names) # {n}
      BY <1>0, <1>3, <3>3 DEF Left
    <3> QED BY <3>1, <3>2, <3>3
  <2>2. FailWith(m)
    BY <1>1, <1>5
  <2> HIDE DEF m
  <2> QED BY <1>2, <2>1, <2>2, FailsWell
<1> QED BY <1>4, <1>5

\* Allocations tested together: any of them may be missing.
LEMMA HostKept == ASSUME OpInv, Running, HostStep PROVE OpInv'
<1> DEFINE fresh == IF Now.kind = "host" THEN "host" ELSE "raw"
<1>0. Now.kind \in {"host", "allocall"} /\ fresh \in MemStates
  BY DEF HostStep, MemStates, Live
<1>1. CASE Succeed(Set(Names(Now.names), fresh)) /\ UNCHANGED jobs
  <2> DEFINE m == Set(Names(Now.names), fresh)
  <2>1. m \in [NamesOf(op) -> MemStates]
    BY <1>0, SetType
  <2>2. \A n \in NamesOf(op) : m[n] \in Becomes(Now, n, mem[n])
    BY <1>0, SetType DEF Becomes
  <2>3. jobs' = Queue(Now, jobs)
    BY <1>0, <1>1 DEF Queue
  <2>4. Succeed(m)
    BY <1>1
  <2> HIDE DEF m
  <2> QED BY <1>0, <2>1, <2>2, <2>3, <2>4, SucceedsWell
<1>2. ASSUME NEW got \in SUBSET Names(Now.names), got # Names(Now.names),
             FailWith(Set(got, fresh))
      PROVE  OpInv'
  <2> DEFINE m == Set(got, fresh)
  <2>1. m \in [NamesOf(op) -> MemStates]
    BY <1>0, SetType
  <2>2. \A n \in NamesOf(op) : m[n] \in Left(Now, n, mem[n])
    <3>1. \A n \in NamesOf(op) : m[n] = IF n \in got THEN fresh ELSE mem[n]
      BY <1>0, SetType
    <3>2. \A n \in got : n \in Names(Now.names) /\ Names(Now.names) # {n}
      BY <1>2
    <3> QED BY <1>0, <3>1, <3>2 DEF Left
  <2>3. FailWith(m)
    BY <1>2
  <2> HIDE DEF m
  <2> QED BY <2>1, <2>2, <2>3, FailsWell
<1> QED BY <1>1, <1>2 DEF HostStep

\* A step on one BO names that BO.
LEMMA OneName ==
    ASSUME OpInv, Running, Now.kind \in OnOne
    PROVE  Names(Now.names) = {Name} /\ Name \in NamesOf(op)
<1>1. Now.names \in Seq(NamesOf(op)) /\ Len(Now.names) = 1
  BY StepFacts
<1> QED BY <1>1 DEF Names, Name

\* A step that fails and has done nothing.
LEMMA FailsAsIs ==
    ASSUME OpInv, Running, Now.kind # "ensure", FailWith(mem)
    PROVE  OpInv'
<1>1. \A n \in NamesOf(op) : mem[n] \in Left(Now, n, mem[n])
  BY DEF Left
<1> QED BY <1>1, MemType, FailsWell

\* One that succeeds and does nothing to the memory.
LEMMA SucceedsAsIs ==
    ASSUME OpInv, Running, Now.kind \in {"check", "take", "reread", "again", "leave"},
           Succeed(mem), UNCHANGED jobs
    PROVE  OpInv'
<1>1. \A n \in NamesOf(op) : mem[n] \in Becomes(Now, n, mem[n])
  BY DEF Becomes
<1>2. jobs' = Queue(Now, jobs)
  BY DEF Queue
<1> QED BY <1>1, <1>2, MemType, SucceedsWell

\* A test.
LEMMA CheckKept == ASSUME OpInv, Running, CheckStep PROVE OpInv'
BY SucceedsAsIs, FailsAsIs DEF CheckStep

\* A bracket, or the end of one.
LEMMA PutKept == ASSUME OpInv, Running, PutStep PROVE OpInv'
<1> DEFINE to == CASE Now.kind = "fini" /\ mem[Name] = "result" -> "done"
                   [] Now.kind \in {"patch", "bracket"} /\ mem[Name] = "dirty" -> "old"
                   [] OTHER -> "synced"
           m == Set({Name}, to)
<1>0. Now.kind \in {"put", "patch", "fini", "bracket"} /\ to \in MemStates
  BY DEF PutStep, MemStates, Live
<1>1. (Succeed(m) /\ UNCHANGED jobs) \/ FailWith(mem)
  BY DEF PutStep
<1>2. CASE Succeed(m) /\ UNCHANGED jobs
  <2>1. m \in [NamesOf(op) -> MemStates]
    BY <1>0, SetType
  <2>2. \A n \in NamesOf(op) : m[n] \in Becomes(Now, n, mem[n])
    <3>1. \A n \in NamesOf(op) : m[n] = IF n \in {Name} THEN to ELSE mem[n]
      BY <1>0, SetType
    <3>2. Names(Now.names) = {Name}
      BY <1>0, OneName DEF OnOne
    <3> QED BY <1>0, <3>1, <3>2 DEF Becomes
  <2>3. jobs' = Queue(Now, jobs)
    BY <1>0, <1>2 DEF Queue
  <2> HIDE DEF m
  <2> QED BY <1>0, <1>2, <2>1, <2>2, <2>3, SucceedsWell
<1> QED BY <1>0, <1>1, <1>2, FailsAsIs

\* A job enters the queue.
LEMMA SubmitKept == ASSUME OpInv, Running, SubmitStep PROVE OpInv'
<1> DEFINE m == Set(Names(Now.names), "owed")
<1>0. Now.kind = "submit" /\ "owed" \in MemStates
  BY DEF SubmitStep, MemStates, Live
<1>1. CASE /\ Succeed(m)
           /\ jobs' = jobs \cup {[reads |-> Now.reads, writes |-> Names(Now.names)]}
  <2>1. m \in [NamesOf(op) -> MemStates]
    BY <1>0, SetType
  <2>2. \A n \in NamesOf(op) : m[n] \in Becomes(Now, n, mem[n])
    BY <1>0, SetType DEF Becomes
  <2>3. jobs' = Queue(Now, jobs)
    BY <1>0, <1>1 DEF Queue
  <2> HIDE DEF m
  <2> QED BY <1>0, <1>1, <2>1, <2>2, <2>3, SucceedsWell
<1> QED BY <1>0, <1>1, FailsAsIs DEF SubmitStep

\* A wait takes out the jobs that write its BO.
LEMMA WaitKept == ASSUME OpInv, Running, WaitStep PROVE OpInv'
<1> DEFINE to == IF mem[Name] \in {"owed", "done"} THEN "result" ELSE "stale"
           m == Set({Name}, to)
<1>0. Now.kind = "wait" /\ to \in MemStates
  BY DEF WaitStep, MemStates, Live
<1>1. (Succeed(m) /\ jobs' = {j \in jobs : Name \notin j.writes}) \/ FailWith(mem)
  BY DEF WaitStep
<1>2. CASE Succeed(m) /\ jobs' = {j \in jobs : Name \notin j.writes}
  <2>1. m \in [NamesOf(op) -> MemStates]
    BY <1>0, SetType
  <2>2. \A n \in NamesOf(op) : m[n] \in Becomes(Now, n, mem[n])
    <3>1. \A n \in NamesOf(op) : m[n] = IF n \in {Name} THEN to ELSE mem[n]
      BY <1>0, SetType
    <3>2. Names(Now.names) = {Name}
      BY <1>0, OneName DEF OnOne
    <3> QED BY <1>0, <3>1, <3>2 DEF Becomes
  <2>3. jobs' = Queue(Now, jobs)
    BY <1>0, <1>2 DEF Queue, Name
  <2> HIDE DEF m
  <2> QED BY <1>0, <1>2, <2>1, <2>2, <2>3, SucceedsWell
<1> QED BY <1>0, <1>1, <1>2, FailsAsIs

\* A read.
LEMMA TakeKept == ASSUME OpInv, Running, TakeStep PROVE OpInv'
BY SucceedsAsIs DEF TakeStep

\* A write into an open bracket.
LEMMA WriteKept == ASSUME OpInv, Running, WriteStep PROVE OpInv'
<1> DEFINE m == Set({Name}, "dirty")
<1>0. Now.kind = "write" /\ "dirty" \in MemStates /\ Succeed(m) /\ jobs' = jobs
  BY DEF WriteStep, MemStates, Live
<1>1. m \in [NamesOf(op) -> MemStates]
  BY <1>0, SetType
<1>2. \A n \in NamesOf(op) : m[n] \in Becomes(Now, n, mem[n])
  <2>1. Names(Now.names) = {Name}
    BY <1>0, OneName DEF OnOne
  <2> QED BY <1>0, <2>1, SetType DEF Becomes
<1>3. jobs' = Queue(Now, jobs)
  BY <1>0 DEF Queue
<1> HIDE DEF m
<1> QED BY <1>0, <1>1, <1>2, <1>3, SucceedsWell

\* A release.
LEMMA FreeKept == ASSUME OpInv, Running, FreeStep PROVE OpInv'
<1> DEFINE to == IF Now.kind = "free" THEN "dangling" ELSE "none"
           m == Set(Names(Now.names), to)
<1>0. Now.kind \in {"free", "drop"} /\ to \in MemStates /\ Succeed(m) /\ jobs' = jobs
  BY DEF FreeStep, MemStates, Live
<1>1. m \in [NamesOf(op) -> MemStates]
  BY <1>0, SetType
<1>2. \A n \in NamesOf(op) : m[n] \in Becomes(Now, n, mem[n])
  BY <1>0, SetType DEF Becomes
<1>3. jobs' = Queue(Now, jobs)
  BY <1>0 DEF Queue
<1> HIDE DEF m
<1> QED BY <1>0, <1>1, <1>2, <1>3, SucceedsWell

\* The steps that only lead elsewhere.
LEMMA TurnKept ==
    ASSUME OpInv, Running, Now.kind \in Turns, pc' \in Following(op, pc),
           laps' \in 0 .. MaxLaps, UNCHANGED <<op, rc, mem, jobs, failed>>
    PROVE  OpInv'
<1>1. ~Now.zero
  BY StepFacts
<1>2. \A n \in NamesOf(op) : mem'[n] \in Becomes(Now, n, mem[n])
  BY DEF Becomes, Turns
<1>3. jobs' = Queue(Now, jobs)
  BY DEF Queue, Turns
<1>4. DOMAIN mem' = NamesOf(op) /\ mem' = [n \in DOMAIN mem' |-> mem'[n]]
  BY MemType
<1>5. rc' = IF Now.zero THEN 0 ELSE rc
  BY <1>1
<1>6. op' = op /\ failed' = failed
  OBVIOUS
<1> QED BY <1>2, <1>3, <1>4, <1>5, <1>6, GoesOn

\* A branch.
LEMMA JumpKept == ASSUME OpInv, Running, JumpStep PROVE OpInv'
<1>1. Now.kind \in Turns /\ pc' \in Following(op, pc)
  BY DEF JumpStep, Turns, Following, Now
<1>2. laps' \in 0 .. MaxLaps /\ UNCHANGED <<op, rc, mem, jobs, failed>>
  BY DEF JumpStep, OpInv, TypeOK
<1> QED BY <1>1, <1>2, TurnKept

\* Another round of a loop.
LEMMA AgainKept == ASSUME OpInv, Running, AgainStep PROVE OpInv'
<1>1. Now.kind \in Turns /\ pc' \in Following(op, pc)
  BY DEF AgainStep, Turns, Following, Now
<1>2. laps' \in 0 .. MaxLaps /\ UNCHANGED <<op, rc, mem, jobs, failed>>
  BY LapsAssumption DEF AgainStep, OpInv, TypeOK
<1> QED BY <1>1, <1>2, TurnKept

\* The end of a loop.
LEMMA LoopKept == ASSUME OpInv, Running, LoopEnds PROVE OpInv'
BY SucceedsAsIs DEF LoopEnds

\* A return in mid-function.
LEMMA LeaveKept == ASSUME OpInv, Running, LeaveStep PROVE OpInv'
<1> DEFINE a == Outlines[op][pc]
<1>0. Now.kind = "leave"
  BY DEF LeaveStep
<1>1. CASE Return(mem, Released(Now.undo), 0) /\ UNCHANGED failed
  <2>1. EndsWell(op, a.mem, Gone(op, Now), {0}, a.jobs)
    BY <1>0, StepFacts DEF SafeStep
  <2>2. Released(Now.undo) = Gone(op, Now)
    BY DEF Released, Gone
  <2>3. /\ op' = op /\ laps' = laps /\ jobs' = jobs /\ pc' = 0 /\ rc' = 0
        /\ mem' = [n \in DOMAIN mem |-> IF n \in Gone(op, Now) THEN "none" ELSE mem[n]]
    BY <1>1, <2>2 DEF Return
  <2>4. ~failed /\ failed' = failed /\ failed \in BOOLEAN
    BY <1>1, StepFacts DEF OpInv, TypeOK
  <2>5. op.name \notin Silent => (rc' = 0 <=> ~failed')
    BY <2>3, <2>4
  <2>6. jobs \subseteq a.jobs /\ (\A n \in NamesOf(op) : mem[n] \in a.mem[n]) /\ failed' \in BOOLEAN
    BY <2>4, StepFacts
  <2>7. rc' \in {0} /\ rc' \in {0, Bad}
    BY <2>3
  <2> HIDE DEF a
  <2> QED BY <2>1, <2>3, <2>5, <2>6, <2>7, MemType, Ends
<1> QED BY <1>0, <1>1, SucceedsAsIs DEF LeaveStep

\* The exit label.
LEMMA ExitKept == ASSUME OpInv, ExitStep PROVE OpInv'
<1> DEFINE a == Outlines[op][Exit(op)]
           gone == op.exit \ op.keeps
<1>1. pc = Exit(op) /\ pc # 0
  BY OutlineFacts DEF ExitStep, Exit
<1>2. EndsWell(op, a.mem, gone, a.rc, a.jobs) /\ (op.name \notin Silent => a.rc \subseteq {0})
  BY OutlineFacts DEF SafeExit
<1>3. /\ \A n \in NamesOf(op) : mem[n] \in a.mem[n]
      /\ rc \in a.rc /\ jobs \subseteq a.jobs /\ ~failed
  BY <1>1 DEF OpInv, AsClaimed
<1>4. rc \in {0, Bad} /\ failed \in BOOLEAN
  BY DEF OpInv, TypeOK
<1>5. /\ op' = op /\ laps' = laps /\ jobs' = jobs /\ pc' = 0 /\ rc' = rc /\ failed' = failed
      /\ mem' = [n \in DOMAIN mem |-> IF n \in gone THEN "none" ELSE mem[n]]
  BY DEF ExitStep, Return
<1>6. op.name \notin Silent => (rc' = 0 <=> ~failed')
  <2>1. op.name \notin Silent => rc' = 0
    BY <1>2, <1>3, <1>5
  <2> QED BY <1>3, <1>5, <2>1
<1>7. rc' \in a.rc /\ rc' \in {0, Bad} /\ failed' \in BOOLEAN
  BY <1>3, <1>4, <1>5
<1> HIDE DEF a, gone
<1> QED BY <1>2, <1>3, <1>5, <1>6, <1>7, MemType, Ends

\* A call begins as its outline claims,
LEMMA OpInvInit == Init /\ SoundOutline => OpInv
<1> SUFFICES ASSUME Init, SoundOutline PROVE OpInv
  OBVIOUS
<1>1. op \in Names(Ops) /\ pc = 1 /\ rc = (IF op.rc THEN Bad ELSE 0) /\ jobs = {} /\ laps = 0
      /\ failed = FALSE
  BY DEF Init
<1>2. PICK s \in {"none", "raw", "old"} :
         mem = [n \in NamesOf(op) |->
                  IF n \in op.warm THEN "old"
                  ELSE IF n \in op.ctx \cup op.given THEN s ELSE "none"]
  BY DEF Init
<1>3. Sound(op, Outlines[op])
  BY DEF SoundOutline, SoundOps
<1>4. Implies(op, AtStart(op), Outlines[op][1]) /\ op.steps \in Seq(Names(op.steps))
  BY <1>3 DEF Sound, Closed, WellFormed
<1>5. Len(op.steps) \in Nat
  BY <1>4
<1>6. AsClaimed
  <2>1. ASSUME NEW n \in NamesOf(op) PROVE mem[n] \in Outlines[op][1].mem[n]
    <3>1. mem[n] \in AtStart(op).mem[n]
      BY <1>2 DEF AtStart
    <3> QED BY <1>4, <3>1 DEF Implies
  <2>2. rc \in AtStart(op).rc
    BY <1>1 DEF AtStart
  <2>3. rc \in Outlines[op][1].rc
    BY <1>4, <2>2 DEF Implies
  <2> QED BY <1>1, <2>1, <2>3 DEF AsClaimed
<1>7. TypeOK
  <2>1. mem \in [NamesOf(op) -> MemStates]
    BY <1>2 DEF MemStates, Live
  <2>2. pc \in 0 .. Len(op.steps) + 1 /\ laps \in 0 .. MaxLaps
    BY <1>1, <1>5, LapsAssumption
  <2>3. rc \in {0, Bad} /\ failed \in BOOLEAN
    BY <1>1
  <2> QED BY <1>1, <2>1, <2>2, <2>3 DEF TypeOK
<1>8. EndedWell
  BY <1>1 DEF EndedWell, NothingLeaked, ErrorsReported, CallSettled, Ended
<1> QED BY <1>1, <1>6, <1>7, <1>8 DEF OpInv

\* stays so,
LEMMA OpInvNext == OpInv /\ [Next]_vars => OpInv'
<1> SUFFICES ASSUME OpInv, [Next]_vars PROVE OpInv'
  OBVIOUS
<1>1. CASE UNCHANGED vars
  BY <1>1 DEF vars, OpInv, TypeOK, AsClaimed, SoundOutline, EndedWell, NothingLeaked, ErrorsReported,
     CallSettled, Touched, Ended
<1>2. CASE Next
  BY <1>2, AllocKept, EnsureKept, HostKept, CheckKept, PutKept, SubmitKept, WaitKept, TakeKept,
     WriteKept, FreeKept, JumpKept, AgainKept, LoopKept, LeaveKept, ExitKept DEF Next
<1> QED BY <1>1, <1>2

\* and always is.
LEMMA OpInvariant == Spec /\ SoundOutline => []OpInv
BY OpInvInit, OpInvNext, PTL DEF Spec

-----------------------------------------------------------------------------
(* What follows for a call of any operator with a sound outline.           *)

\* Type correctness of every call.
THEOREM OpTypes == Spec /\ SoundOutline => []TypeOK
<1>1. OpInv => TypeOK
  BY DEF OpInv
<1> QED BY <1>1, OpInvariant, PTL

\* A call is always as the outline of its operator claims, however often its
\* loops go round.
THEOREM OutlineCorrect == Spec /\ SoundOutline => []AsClaimed
<1>1. OpInv => AsClaimed
  BY DEF OpInv
<1> QED BY <1>1, OpInvariant, PTL

\* Whatever step failed, a call that has returned holds only its caller's BOs,
\* but for the scratch a failed fa_mt_worker abandons (Abandoned names it).
THEOREM LeakCorrect == Spec /\ SoundOutline => []NothingLeaked
<1>1. OpInv => NothingLeaked
  BY DEF OpInv, EndedWell
<1> QED BY <1>1, OpInvariant, PTL

\* A call reports an error exactly when one of its steps failed.
THEOREM ReportCorrect == Spec /\ SoundOutline => []ErrorsReported
<1>1. OpInv => ErrorsReported
  BY DEF OpInv, EndedWell
<1> QED BY <1>1, OpInvariant, PTL

\* A call that ended leaves no job on what outlives it and no line to evict.
THEOREM SettledCorrect == Spec /\ SoundOutline => []CallSettled
<1>1. OpInv => CallSettled
  BY DEF OpInv, EndedWell
<1> QED BY <1>1, OpInvariant, PTL

\* Nothing is freed twice, used after it was freed or before it exists.
THEOREM DanglesCorrect == Spec /\ SoundOutline => []NothingDangles
<1>1. OpInv => NothingDangles
  <2> SUFFICES ASSUME OpInv PROVE NothingDangles
    OBVIOUS
  <2> DEFINE a == Outlines[op][pc]
  <2>1. ASSUME NEW n \in Freeing PROVE mem[n] # "dangling"
    <3>1. CASE pc = Len(op.steps) + 1
      <4>1. pc = Exit(op) /\ pc # 0
        BY <3>1, OutlineFacts DEF Exit
      <4>2. n \in op.exit \ op.keeps
        BY <2>1, <3>1 DEF Freeing
      <4>3. n \in NamesOf(op) /\ "dangling" \notin a.mem[n]
        BY <4>1, <4>2, OutlineFacts DEF SafeExit, Frees
      <4>4. mem[n] \in a.mem[n]
        BY <4>1, <4>3 DEF OpInv, AsClaimed
      <4> QED BY <4>3, <4>4
    <3>2. CASE pc # Len(op.steps) + 1
      <4>1. Running
        BY <2>1, <3>2 DEF Freeing
      <4>2. \/ n \in Released(Now.undo) /\ (Now.on # "never" \/ Now.kind = "leave")
            \/ n \in Names(Now.names) /\ Now.kind \in {"free", "drop"}
        BY <2>1, <3>2 DEF Freeing
      <4>3. n \in NamesOf(op) /\ "dangling" \notin a.mem[n]
        BY <4>1, <4>2, StepFacts DEF SafeStep, Frees, Released, Gone
      <4>4. mem[n] \in a.mem[n]
        BY <4>1, <4>3, StepFacts
      <4> QED BY <4>3, <4>4
    <3> QED BY <3>1, <3>2
  <2>2. Ended => \A n \in op.ctx : mem[n] # "dangling"
    BY DEF OpInv, EndedWell
  <2>3. ASSUME Running, Now.kind \in OnOne \cup {"submit"},
               NEW n \in Names(Now.names) \cup Now.reads
        PROVE  mem[n] \in Live \ {"host"}
    <3>1. a.mem[n] \subseteq Live \ {"host"}
      BY <2>3, StepFacts DEF SafeStep, Uses
    <3>2. Names(Now.names) \cup Now.reads \subseteq NamesOf(op)
      BY <2>3, StepFacts DEF Names
    <3>3. mem[n] \in a.mem[n]
      BY <2>3, <3>2, StepFacts
    <3> QED BY <3>1, <3>3
  <2> QED BY <2>1, <2>2, <2>3 DEF NothingDangles, OnOne
<1> QED BY <1>1, OpInvariant, PTL

\* The CPU and the part never use a BO at once, neither reads one before it is
\* written, and no bracket opens over lines not yet handed over, but at the
\* steps Unprepared names: the 1x1 extrema pool's read of its input, and the
\* fused feed-forward blocks' second PREP_BO of a cube and the job behind it.
THEOREM ApartCorrect == Spec /\ SoundOutline => []CoresAndCpuApart
<1>1. OpInv => CoresAndCpuApart
  <2> SUFFICES ASSUME OpInv, Running PROVE CoresAndCpuApart
    BY DEF CoresAndCpuApart
  <2> DEFINE a == Outlines[op][pc]
  <2>1. Apart(op, Now, a)
    BY StepFacts DEF SafeStep
  <2>2. \A n \in NamesOf(op) : mem[n] \in a.mem[n]
    BY StepFacts
  <2>3. CASE Now.kind = "submit"
    <3>1. Now.reads \subseteq NamesOf(op)
      BY StepFacts
    <3>2. \A n \in Now.reads : \A x \in a.mem[n] :
             \/ x \in {"synced", "owed", "result", "done"}
             \/ x = "old" /\ (n \in op.warm \/ Excepted(n))
      BY <2>1, <2>3 DEF Apart, Excepted
    <3> QED BY <2>2, <2>3, <3>1, <3>2 DEF CoresAndCpuApart
  <2>4. CASE Now.kind \in OnOne
    <3>1. Name \in NamesOf(op)
      BY <2>4, OneName
    <3>2. mem[Name] \in a.mem[Name]
      BY <2>2, <3>1
    <3>3. Touched \subseteq UNION {j.reads \cup j.writes : j \in a.jobs}
      <4>1. jobs \subseteq a.jobs
        BY StepFacts
      <4> HIDE DEF a
      <4> QED BY <4>1 DEF Touched
    <3>4. CASE Now.kind \in {"put", "patch"}
      <4>1. Name \notin UNION {j.reads \cup j.writes : j \in a.jobs}
        BY <2>1, <3>4 DEF Apart, Name
      <4>2. Now.kind = "patch" => a.mem[Name] \cap {"raw", "dirty"} = {}
        BY <2>1, <3>4 DEF Apart, Name
      <4>3. Name \notin Touched
        BY <3>3, <4>1
      <4> QED BY <3>2, <3>4, <4>2, <4>3 DEF CoresAndCpuApart
    <3>5. CASE Now.kind = "take"
      <4>1. a.mem[Name] \subseteq {"result"}
        BY <2>1, <3>5 DEF Apart, Name
      <4> QED BY <3>2, <3>5, <4>1 DEF CoresAndCpuApart
    <3>6. CASE Now.kind = "write"
      <4>1. a.mem[Name] \subseteq Open
        BY <2>1, <3>6 DEF Apart, Name
      <4> QED BY <3>2, <3>6, <4>1 DEF CoresAndCpuApart
    <3>7. CASE Now.kind = "reread"
      <4>1. a.mem[Name] \subseteq Open \/ Excepted(Name)
        BY <2>1, <3>7 DEF Apart, Name, Excepted
      <4> QED BY <3>2, <3>7, <4>1 DEF CoresAndCpuApart
    <3>8. CASE Now.kind \in {"bracket", "wait"}
      <4>1. "dirty" \notin a.mem[Name] \/ Excepted(Name)
        BY <2>1, <3>8 DEF Apart, Name, Excepted
      <4> QED BY <3>2, <3>8, <4>1 DEF CoresAndCpuApart
    <3>9. CASE Now.kind = "fini"
      BY <3>9 DEF CoresAndCpuApart
    <3> QED BY <2>4, <3>4, <3>5, <3>6, <3>7, <3>8, <3>9 DEF OnOne
  <2>5. CASE Now.kind \notin OnOne \cup {"submit"}
    BY <2>5 DEF CoresAndCpuApart, OnOne
  <2> QED BY <2>3, <2>4, <2>5
<1> QED BY <1>1, OpInvariant, PTL
=============================================================================
