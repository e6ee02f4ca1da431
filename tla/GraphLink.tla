----------------------------- MODULE GraphLink -----------------------------
(***************************************************************************)
(* The RK3576 graph planner (graph/rocket_graph_rk3576.c): which tensors   *)
(* of a network stay on the part as a feature cube, in a surface of their  *)
(* producer or in a slice of a shared buffer, and which runs of layers go  *)
(* out as one kick.  Five passes link layers, each over the whole network  *)
(* and in a fixed order; the run finder (ChainPlan) then looks at what     *)
(* they left.  A pass points producers and readers at cubes by calls that  *)
(* may refuse, and takes a refused wiring apart again.                     *)
(*                                                                         *)
(* Channels come in groups of 16; a direct program writes and reads them   *)
(* 32 at a time.  Planes all have one size.                                *)
(***************************************************************************)
EXTENDS ChainPlan, PlanArith, FiniteSetsExt

CONSTANT Graphs     \* the networks: sequences of layers in execution order

\* A layer has a kind, the layers it reads, a channel count and traits:
\*   "no handle"   it has no resident handle
\*   "host input"  the caller prepares its input on the host
\*   "row major"   something outside the network reads this concatenation
\*   "asymmetric"  its weight zero point is not 0
\*   "other zero"  its output zero point is not its readers'
\*   "image"       it reads a packed image, never a cube
\*   "tiled"       its output is several surfaces
\*   "stride"      its surface is wider than its plane
\*   "lags"        a pool whose divisor can lag
ASSUME GraphAssumption ==
    \A net \in Graphs : \A i \in DOMAIN net :
        \A k \in DOMAIN net[i].src : net[i].src[k] \in 1 .. i - 1

VARIABLES
    g,          \* the network
    pass,       \* the pass, "linked" behind the last one, "kicks" behind the finder
    visit,      \* the layer it looks at
    cubeIn, cubeOut, placed, shared,    \* the arrays of the plan, as sets
    feat,       \* the cube each handle reads, as the library has it
    surf,       \* where each handle writes
    leaves      \* the handles that leave a cube and no row-major tensor

graphVars == <<g, pass, visit, cubeIn, cubeOut, placed, shared, feat, surf, leaves>>
linkVars == <<graphVars, finderVars>>

-----------------------------------------------------------------------------
Is(i, trait) == trait \in g[i].traits
Kind(i) == g[i].kind
Srcs(i) == {g[i].src[k] : k \in DOMAIN g[i].src}

GroupsOf(c) == RoundUp(c, 16) \div 16
GroupsWide(c) == RoundUp(c, 32) \div 16

\* rocket_graph_add_boff: the channel operand B of an add starts at.
Boff(j) == RoundUp(g[j].oc, 16)
\* The channels a layer reads.
InChannels(j) == IF Kind(j) = "add" THEN Boff(j) + g[j].oc ELSE g[g[j].src[1]].oc

HasHandle(i) == Kind(i) \in {"conv", "dwconv", "pool", "add"} /\ ~Is(i, "no handle")
CubeConsumerOk(j) ==
    /\ HasHandle(j) /\ Kind(j) # "add"
    /\ Kind(j) # "pool" => ~Is(j, "host input")

\* consumers_of.  A host layer's read is not one.
Readers(i) == {j \in DOMAIN g : Kind(j) # "host" /\ i \in Srcs(j)}
MaxReaders == 4
Wired(i) == Kind(i) = "concat" /\ i \in cubeOut
Skip(i) == \E j \in Readers(i) : j # i + 1
NextLayer(i) ==
    LET later == {j \in DOMAIN g : j > i /\ Kind(j) # "host"}
    IN IF later = {} THEN 0 ELSE Min(later)

-----------------------------------------------------------------------------
(* The library's side of a link.                                           *)

Own(i) == [of |-> "own", layer |-> i, group |-> 0]
InBuffer(j, group) == [of |-> "buf", layer |-> j, group |-> group]
Cube(at, c, groups, tail) == [at |-> at, c |-> c, groups |-> groups, tail |-> tail]
NoCube == Cube(Own(0), 0, 0, FALSE)

\* The groups a program writes: round-32 on the direct path.
Written(i) ==
    IF Kind(i) \in {"conv", "add"} THEN GroupsWide(g[i].oc) ELSE GroupsOf(g[i].oc)
\* r76_surf_bytes: a depthwise surface of its own has its tail filled at pack time.
TailFilled(i, at) == Kind(i) = "dwconv" /\ at = Own(i) /\ g[i].oc % 32 = 16

\* cube_of: the surface of a handle, and whether it can say what its tail holds.
CanDescribe(i) == ~Is(i, "tiled") /\ (Kind(i) = "pool" => g[i].oc % 16 = 0)
CubeOf(i, at) ==
    LET groups == IF TailFilled(i, at) THEN GroupsWide(g[i].oc) ELSE Written(i)
    IN Cube(at, g[i].oc, groups,
            \/ Kind(i) \in {"conv", "add"} \/ TailFilled(i, at)
            \/ (Kind(i) = "dwconv" /\ groups * 16 = g[i].oc))

\* cube_in.  A reader whose channels are not a multiple of 32 sums the rest of
\* the last group too, which counts where its weights are asymmetric.
PaysForTail(j) == Kind(j) # "pool" /\ InChannels(j) % 32 # 0 /\ Is(j, "asymmetric")
TakesCube(j, c) ==
    /\ c.c = InChannels(j)
    /\ IF Kind(j) = "pool" THEN c.c % 16 = 0
       ELSE ~Is(j, "image") /\ (PaysForTail(j) => c.tail) /\ c.groups >= GroupsWide(c.c)

\* cube_out and cube_out_at, into a slice of `groups' groups.
CanLeave(i) == CanDescribe(i)
CanPlace(i, groups) ==
    CanDescribe(i) /\ ~(Kind(i) # "pool" /\ Is(i, "stride")) /\ groups >= Written(i)

-----------------------------------------------------------------------------
(* The plan.  Wire: producers `out' leave cubes at `where', readers `in'    *)
(* take the cubes `what'.  Unwire: producers own a surface again, readers  *)
(* take row-major tensors again.                                           *)

LinkInit ==
    /\ g \in Graphs
    /\ pass = "adds" /\ visit = 1
    /\ cubeIn = {} /\ cubeOut = {} /\ placed = {} /\ shared = {} /\ leaves = {}
    /\ feat = [j \in DOMAIN g |-> NoCube]
    /\ surf = [i \in DOMAIN g |-> Own(i)]

Wire(out, where, in, what) ==
    /\ surf' = [i \in DOMAIN g |-> IF i \in out THEN where[i] ELSE surf[i]]
    /\ leaves' = leaves \cup out
    /\ feat' = [j \in DOMAIN g |-> IF j \in in THEN what[j] ELSE feat[j]]
    /\ cubeIn' = cubeIn \cup in

Unwire(out, in) ==
    /\ surf' = [i \in DOMAIN g |-> IF i \in out THEN Own(i) ELSE surf[i]]
    /\ leaves' = leaves \ out
    /\ feat' = [j \in DOMAIN g |-> IF j \in in THEN NoCube ELSE feat[j]]
    /\ UNCHANGED <<cubeIn, cubeOut, placed, shared>>

NotWired == UNCHANGED <<cubeIn, cubeOut, placed, shared, feat, surf, leaves>>

AfterPass ==
    [adds |-> "concats", concats |-> "tails", tails |-> "shares", shares |-> "pairs",
     pairs |-> "linked"]

\* The loop of pass p has dealt with this layer.
Visited(p) ==
    /\ pass = p
    /\ IF visit = Len(g) THEN pass' = AfterPass[p] /\ visit' = 1
       ELSE visit' = visit + 1 /\ UNCHANGED pass
    /\ UNCHANGED <<g, finderVars>>

\* The readers of layers P but for j take their producer's cube.
Others(P, j) == (UNION {Readers(p) : p \in P}) \ {j}
\* Every other reader of p could take a cube in p's place.
OthersCan(P, j) ==
    /\ \A p \in P : Cardinality(Readers(p)) <= MaxReaders
    /\ \A r \in Others(P, j) : CubeConsumerOk(r)

-----------------------------------------------------------------------------
(* cat_link: the two operands of an add become slices of one buffer.       *)

AddCan(j) ==
    /\ Kind(j) = "add" /\ HasHandle(j)
    /\ j - 1 \in Srcs(j)
    /\ \A p \in Srcs(j) : HasHandle(p) /\ ~Is(p, "host input")
    /\ OthersCan(Srcs(j), j)

AddSlices(j) ==
    [p \in Srcs(j) |-> InBuffer(j, IF p = g[j].src[1] THEN 0 ELSE Boff(j) \div 16)]
AddCubes(j) ==
    LET c == Boff(j) + g[j].oc
    IN [r \in Others(Srcs(j), j) \cup {j} |->
          IF r = j THEN Cube(InBuffer(j, 0), c, GroupsOf(c), FALSE)
          ELSE CubeOf(g[r].src[1], AddSlices(j)[g[r].src[1]])]
AddTaken(j) ==
    /\ \A p \in Srcs(j) : CanPlace(p, GroupsOf(g[j].oc))
    /\ \A r \in DOMAIN AddCubes(j) : TakesCube(r, AddCubes(j)[r])

LinkAdd ==
    /\ Visited("adds") /\ AddCan(visit)
    /\ LET j == visit
       IN IF AddTaken(j)
          THEN /\ Wire(Srcs(j), AddSlices(j), DOMAIN AddCubes(j), AddCubes(j))
               /\ cubeOut' = cubeOut \cup Srcs(j) /\ placed' = placed \cup Srcs(j)
               /\ UNCHANGED shared
          ELSE Unwire(Srcs(j), {j} \cup Others(Srcs(j), j))

-----------------------------------------------------------------------------
(* concat_link: all operands of a concatenation become slices of one       *)
(* buffer, and every reader reads that buffer.                             *)

\* The channel operand k starts at.
ChannelAt(j, k) ==
    LET upTo[n \in 0 .. Len(g[j].src)] ==
          IF n = 0 THEN 0 ELSE upTo[n - 1] + g[g[j].src[n]].oc
    IN upTo[k - 1]

\* A program writes past its channels into the slice behind, whose own program
\* puts that right if it runs later.  The ends of the slices rise by
\* themselves.
\* (Seeded fault: any order will do.)
AnyOrder(j) == TRUE
InProgramOrder(j) ==
    \A k \in DOMAIN g[j].src : k > 1 => g[j].src[k - 1] < g[j].src[k]

ConcatCan(j) ==
    /\ Kind(j) = "concat" /\ ~Is(j, "row major")
    /\ InProgramOrder(j)
    /\ \A k \in DOMAIN g[j].src : ChannelAt(j, k) % 16 = 0
    /\ \A p \in Srcs(j) :
          /\ HasHandle(p) /\ ~Is(p, "host input")
          /\ Is(p, "other zero") = Is(j, "other zero")
          /\ p \notin cubeOut \cup placed \cup shared
    /\ OthersCan(Srcs(j), j)
    /\ Others(Srcs(j), j) \cap cubeIn = {}
    /\ Cardinality(Readers(j)) \in 1 .. MaxReaders
    /\ \A r \in Readers(j) : CubeConsumerOk(r) /\ r \notin cubeIn

ConcatSlices(j) ==
    [p \in Srcs(j) |->
       InBuffer(j, ChannelAt(j, CHOOSE k \in DOMAIN g[j].src : g[j].src[k] = p) \div 16)]
ConcatGroups(j) ==
    Max({GroupsWide(g[j].oc)} \cup {ConcatSlices(j)[p].group + GroupsWide(g[p].oc) : p \in Srcs(j)})
ConcatCubes(j) ==
    [r \in Others(Srcs(j), j) \cup Readers(j) |->
       IF r \in Readers(j)
       THEN Cube(InBuffer(j, 0), g[j].oc, ConcatGroups(j), g[j].oc < ConcatGroups(j) * 16)
       ELSE CubeOf(g[r].src[1], ConcatSlices(j)[g[r].src[1]])]
ConcatTaken(j) ==
    /\ \A p \in Srcs(j) : CanPlace(p, GroupsWide(g[p].oc))
    /\ \A r \in DOMAIN ConcatCubes(j) : TakesCube(r, ConcatCubes(j)[r])

LinkConcat ==
    /\ Visited("concats") /\ ConcatCan(visit)
    /\ LET j == visit
       IN IF ConcatTaken(j)
          THEN /\ Wire(Srcs(j), ConcatSlices(j), DOMAIN ConcatCubes(j), ConcatCubes(j))
               /\ cubeOut' = cubeOut \cup Srcs(j) \cup {j} /\ placed' = placed \cup Srcs(j)
               /\ UNCHANGED shared
          ELSE Unwire(Srcs(j), DOMAIN ConcatCubes(j))

-----------------------------------------------------------------------------
(* tail_link: a producer that cannot say what its tail holds gets a buffer *)
(* whose tail does.                                                        *)

TailCan(i) ==
    /\ HasHandle(i) /\ i \notin cubeOut \cup placed
    /\ g[i].oc % 32 = 16
    /\ Cardinality(Readers(i)) \in 1 .. MaxReaders
    /\ \A r \in Readers(i) : CubeConsumerOk(r) /\ r \notin cubeIn /\ PaysForTail(r)
    /\ CanDescribe(i) /\ ~CubeOf(i, surf[i]).tail /\ ~Is(i, "stride")

TailCube(i) == Cube(InBuffer(i, 0), g[i].oc, GroupsWide(g[i].oc), TRUE)
TailTaken(i) ==
    CanPlace(i, GroupsWide(g[i].oc)) /\ \A r \in Readers(i) : TakesCube(r, TailCube(i))

LinkTail ==
    /\ Visited("tails") /\ TailCan(visit)
    /\ LET i == visit
       IN IF TailTaken(i)
          THEN /\ Wire({i}, [p \in {i} |-> InBuffer(i, 0)],
                       Readers(i), [r \in Readers(i) |-> TailCube(i)])
               /\ cubeOut' = cubeOut \cup {i} /\ placed' = placed \cup {i}
               /\ UNCHANGED shared
          ELSE Unwire({i}, Readers(i))

-----------------------------------------------------------------------------
(* multi_link: a surface several layers read stays a cube if all of them   *)
(* can take it.                                                            *)

ShareCan(i) ==
    /\ Skip(i) /\ i \notin placed \cup cubeOut
    /\ HasHandle(i) /\ CanDescribe(i)
    /\ Cardinality(Readers(i)) \in 1 .. MaxReaders
    /\ \A r \in Readers(i) : CubeConsumerOk(r) /\ r \notin cubeIn

ShareTaken(i) == \A r \in Readers(i) : TakesCube(r, CubeOf(i, surf[i]))

LinkShared ==
    /\ Visited("shares") /\ ShareCan(visit)
    /\ LET i == visit
       IN IF ShareTaken(i) /\ CanLeave(i)
          THEN /\ Wire({i}, surf, Readers(i), [r \in Readers(i) |-> CubeOf(i, surf[i])])
               /\ cubeOut' = cubeOut \cup {i} /\ shared' = shared \cup {i}
               /\ UNCHANGED placed
          ELSE Unwire({}, Readers(i))

-----------------------------------------------------------------------------
(* cube_link's own loop: each remaining pair of neighbours.                *)

\* A producer that another layer reads too must leave a row-major tensor.
\* (Seeded fault: it need not.)
NeverMaterialises(i) == FALSE
MustMaterialise(i) == Skip(i) /\ i \notin placed \cup shared

PairCan(i, j) ==
    /\ j # 0 /\ i \in Srcs(j)
    /\ HasHandle(i) /\ CubeConsumerOk(j)
    /\ ~MustMaterialise(i)
    /\ i \notin cubeOut /\ j \notin cubeIn
    /\ CanDescribe(i) /\ TakesCube(j, CubeOf(i, surf[i])) /\ CanLeave(i)

LinkPair ==
    /\ Visited("pairs") /\ PairCan(visit, NextLayer(visit))
    /\ LET j == NextLayer(visit)
       IN Wire({visit}, surf, {j}, [r \in {j} |-> CubeOf(visit, surf[visit])])
    /\ cubeOut' = cubeOut \cup {visit}
    /\ UNCHANGED <<placed, shared>>

\* No wiring here, or none because the buffer could not be had.
PassOver ==
    /\ \/ Visited("adds")
       \/ Visited("concats")
       \/ Visited("tails")
       \/ (Visited("shares") /\ ~ShareCan(visit))
       \/ (Visited("pairs") /\ ~PairCan(visit, NextLayer(visit)))
    /\ NotWired

-----------------------------------------------------------------------------
(* kick_build offers every layer to the run finder.                        *)

Feed(j) ==
    LET at == {k \in 1 .. j - 1 : k \in leaves /\ surf[k] = feat[j].at}
    IN IF j \in cubeIn /\ at # {} THEN Max(at) ELSE 0
Unset == [kind |-> "unset", feed |-> 0, out |-> FALSE, prog |-> 0]

\* A layer the caller prepares, or one that leaves work for the host, is unset.
Offered(i) ==
    /\ HasHandle(i) /\ ~Is(i, "host input")
    /\ Kind(i) = "add" => i \in cubeIn
    /\ ~MustMaterialise(i)
    /\ Kind(i) # "pool" => ~Is(i, "tiled")
LinkedPool(i) == ~Is(i, "lags") /\ feat[i] # NoCube /\ i \in leaves

Candidate(i) ==
    IF Wired(i) /\ ~Is(i, "host input") THEN [Unset EXCEPT !.kind = "place"]
    ELSE IF ~Offered(i) THEN Unset
    ELSE IF Kind(i) = "pool" /\ ~LinkedPool(i) THEN [Unset EXCEPT !.kind = "badpool", !.out = TRUE]
    ELSE [kind |-> IF Kind(i) = "pool" THEN "pool" ELSE "conv",
          feed |-> Feed(i), out |-> i \in leaves, prog |-> 1]

OfferKicks ==
    /\ pass = "linked" /\ pass' = "kicks"
    /\ nd' = [i \in DOMAIN g |-> Candidate(i)]
    /\ UNCHANGED <<g, visit, cubeIn, cubeOut, placed, shared, feat, surf, leaves,
                   here, start, count, programs, carriers, runs, stage>>

FindKicks == pass = "kicks" /\ FinderNext /\ UNCHANGED graphVars

LinkNext ==
    \/ LinkAdd \/ LinkConcat \/ LinkTail \/ LinkShared \/ LinkPair \/ PassOver
    \/ OfferKicks \/ FindKicks

-----------------------------------------------------------------------------
(* What the network then computes, layer after layer and kick after kick.  *)

InRun(r, i) == r.first <= i /\ i <= Last(r)

\* r76_layer_restamp_ok: the surfaces a kick puts the sentinel on while it
\* verifies them.
\* (Seeded fault: shared surfaces too.)
RestampsShared(r, i) ==
    /\ InRun(r, i) /\ i # Last(r)
    /\ Kind(i) \in {"conv", "dwconv", "add"} /\ surf[i] = Own(i)
Restamps(r, i) ==
    /\ InRun(r, i) /\ i # Last(r)
    /\ Kind(i) \in {"conv", "dwconv", "add"} /\ surf[i] = Own(i)
    /\ i \notin shared

GroupAt(at, n) == [at EXCEPT !.group = at.group + n]
Writes(i) == {GroupAt(surf[i], n) : n \in 0 .. Written(i) - 1}
Writers(at, j) == {i \in leaves : i < j /\ at \in Writes(i)}

\* The n-th group of layer i is what its readers find when layer j runs.
Holds(at, j, i, n) ==
    /\ Writers(at, j) # {}
    /\ Max(Writers(at, j)) = i /\ GroupAt(surf[i], n) = at
    /\ \A k \in DOMAIN runs : Restamps(runs[k], i) => InRun(runs[k], j)

\* The group was filled with the zero point and no program reaches it, or a
\* direct program wrote it behind its channels.
HoldsZeroPoint(at, j) ==
    IF Writers(at, j) = {}
    THEN \/ TailFilled(at.layer, Own(at.layer)) /\ at.of = "own"
         \/ Kind(at.layer) # "add" /\ at.of = "buf" /\ at.group >= GroupsOf(g[at.layer].oc)
    ELSE \E i \in Writers(at, j), n \in 1 .. Max({Written(k) : k \in DOMAIN g}) :
            /\ n >= GroupsOf(g[i].oc) /\ Holds(at, j, i, n)
            /\ Is(i, "other zero") = Is(g[j].src[1], "other zero")

\* The layers whose channels layer j reads, and the group each starts at.
Piece(p, channel) == [of |-> p, group |-> channel \div 16]
Pieces(j) ==
    LET s == g[j].src[1]
    IN IF Kind(j) = "add" THEN {Piece(s, 0), Piece(g[j].src[2], Boff(j))}
       ELSE IF Kind(s) = "concat"
            THEN {Piece(g[s].src[k], ChannelAt(s, k)) : k \in DOMAIN g[s].src}
            ELSE {Piece(s, 0)}

\* Behind the channels layer j reads, its program walks to a multiple of 32.
TailGroups(j) ==
    {GroupAt(feat[j].at, n) : n \in GroupsOf(InChannels(j)) .. GroupsWide(InChannels(j)) - 1}
TailZero(j) ==
    /\ InChannels(j) % 16 # 0 => \A p \in Srcs(j) : Kind(p) \in {"conv", "add"}
    /\ \A at \in TailGroups(j) : HoldsZeroPoint(at, j)
\* A concatenation put this operand's tail under the next operand's channels.
Overlapped(j) ==
    LET s == g[j].src[1]
    IN /\ s \in placed /\ surf[s].of = "buf" /\ Kind(surf[s].layer) = "concat"
       /\ g[surf[s].layer].src[Len(g[surf[s].layer].src)] # s

Planned == pass = "linked" \/ (pass = "kicks" /\ Finished)

LeavesRows(i) == i \notin cubeOut

\* The plan's arrays say what the handles do.
FlagsAgree ==
    /\ cubeIn = {j \in DOMAIN g : feat[j] # NoCube}
    /\ cubeOut = leaves \cup {j \in DOMAIN g : Wired(j)}

\* A layer without a cube, a host layer and a reader outside find rows.
RowsFound ==
    /\ \A j \in DOMAIN g : Is(j, "host input") => feat[j] = NoCube
    /\ \A j \in DOMAIN g : feat[j] = NoCube /\ ~Wired(j) => \A s \in Srcs(j) : LeavesRows(s)
    /\ \A i \in DOMAIN g : Readers(i) = {} \/ Is(i, "row major") => LeavesRows(i)

\* Every channel group of a cube was written last, before its reader runs, by
\* the layer the network names, and no kick put the sentinel over it since.
CubesFound ==
    \A j \in cubeIn : \A piece \in Pieces(j) : \A n \in 0 .. GroupsOf(g[piece.of].oc) - 1 :
        Holds(GroupAt(feat[j].at, piece.group + n), j, piece.of, n)

\* Whatever the passes wired and took apart again, every layer finds its
\* operands when the network runs, in the form it reads them, and the zero
\* point behind them where its weights would make anything else count; but
\* for the tail of a slice that lies under the next operand's channels.
EveryLayerReadsItsOperands ==
    Planned =>
        /\ FlagsAgree /\ RowsFound /\ CubesFound
        /\ \A j \in cubeIn : PaysForTail(j) /\ ~Overlapped(j) => TailZero(j)

\* A cube that declares a constant tail holds that constant when it is read
\* (rocket_conv2d_int8_cube_in_rk3576 lets an asymmetric reader rely on it).
TailsHoldZeroPoint == Planned => \A j \in cubeIn : PaysForTail(j) => TailZero(j)
=============================================================================
