------------------------------ MODULE MCCalls ------------------------------
(***************************************************************************)
(* What needs nothing of the other components: the lifecycle of every      *)
(* operator (OpMachine), the cut of an RK3576 layer (R76Plan) and of an    *)
(* RK3588 matmul (MatmulPlan), the layers that go out as one kick          *)
(* (ChainPlan), also behind the graph planner that links them (GraphLink), *)
(* the words of a job of several programs (ChainLayout) and the wait for a *)
(* job (FenceWait).  One run explores the machines side by side, each      *)
(* behaviour in one of them while the others are idle.                     *)
(***************************************************************************)
EXTENDS OpOutline, LibraryOps, R76Plan, MatmulPlan, MCGraphLink, ChainLayout, FenceWait

\* Square kernels, padded to keep the plane ("same") before the stride.
Layer(kind, iw, ih, ic, oc, k, s) ==
    LET pad == (k - 1) \div 2
    IN [kind |-> kind, iw |-> iw, ih |-> ih, ic |-> ic, oc |-> oc, kh |-> k, kw |-> k, s |-> s,
        pt |-> pad, oh |-> (ih + 2 * pad - k) \div s + 1]
LayerShapes ==
    {Layer("direct", iw, ih, ic, oc, k, s) :
        iw \in {14, 48, 112}, ih \in {14, 90, 120}, ic \in {32, 96, 480}, oc \in {32, 96, 160, 320},
        k \in {1, 3, 5, 7}, s \in {1, 2}}
    \cup {Layer("depthwise", iw, ih, c, c, k, s) :
        iw \in {16, 112}, ih \in {14, 112, 160}, c \in {32, 48, 576, 3624}, k \in {3, 5}, s \in {1, 2}}
    \cup {Layer("packed", iw, ih, 3, oc, k, 2) :
        iw \in {32, 224, 640}, ih \in {32, 224}, oc \in {32, 96}, k \in {3, 7}}
    \cup {Layer("slice", iw, ih, 16, oc, k, 1) :
        iw \in {16, 32, 64, 176}, ih \in {16, 64, 96}, oc \in {16, 32, 80}, k \in {1, 3, 7, 9, 11, 13}}
    \cup {Layer("matmul", 1, m, k, n, 1, 1) :
        m \in {1, 64, 192, 512}, k \in {64, 1024, 2080, 2240, 2432, 2560, 4096, 4128, 4480, 4608, 6176},
        n \in {32, 160, 672, 1536}}

\* The settings a plan reads are free where its datatype looks at them.
Asked(entry, M, K, N, group, stream, kacc) ==
    [entry : entry, M : M, K : K, N : N, group : group, stream : stream, kacc : kacc]
MatmulCalls ==
    Asked({"fp16", "canonical"}, {1, 2, 4, 64, 200, 256, 300, 512}, {32, 384, 1024, 2240, 4096, 14336},
          {16, 576, 1024, 8192}, {0}, BOOLEAN, BOOLEAN)
    \cup Asked({"int8", "resident_int8"}, {1, 64, 200, 256, 512}, {32, 1120, 1376, 4096, 14336},
          {32, 576, 8192}, {0}, BOOLEAN, {FALSE})
    \cup Asked({"int8_gw"}, {64, 256, 512}, {384, 2880}, {32, 576, 2880}, {0, 32, 64, 384, 2880},
          {FALSE}, {FALSE})
    \cup Asked({"int4", "int4_ex"}, {1, 64, 256, 512}, {64, 480, 4096, 20480}, {32, 64, 576, 2880},
          {0}, {FALSE}, {FALSE})
    \cup Asked({"int4_gw"}, {64, 256, 510}, {640, 4096}, {64, 2880}, {0, 128, 640}, {FALSE}, {FALSE})
    \cup Asked({"int16", "bf16", "tf32"}, {4, 256, 512}, {48, 64, 1024, 14336}, {16, 576, 1040},
          {0}, {FALSE}, {FALSE})
    \cup Asked({"pin_nt", "pin_kt"}, {4, 64, 512}, {64, 1024, 14336}, {128, 576, 4096},
          {0}, {FALSE}, {FALSE})

\* Batches of one length, chained; of several, gapped or at explicit offsets,
\* where one claim about the next length may be wrong.
Packed(how, lens, claims, verifies) ==
    [how |-> how, lens |-> lens, claims |-> claims, verifies |-> verifies]
MixedLengths == {<<5>>, <<6, 8>>, <<8, 5>>, <<6, 8, 5>>, <<7, 5, 6>>}
Claims(lens) == {lens} \cup {[lens EXCEPT ![k] = c] : k \in DOMAIN lens, c \in {5, 6, 8}}
PackedBatches ==
    {Packed("chained", [k \in 1 .. n |-> len], <<>>, v) :
        n \in 1 .. 3, len \in {5, 6, 8, 9}, v \in BOOLEAN}
    \cup {Packed("gapped", lens, <<>>, FALSE) : lens \in MixedLengths}
    \cup UNION {{Packed("at", lens, c, TRUE) : c \in Claims(lens)} : lens \in MixedLengths}
\* Room for two or three programs; up to the last address, one word past it,
\* across it and behind it.
RegcmdBuffers ==
    {[dma |-> 0, size |-> 16]} \cup {[dma |-> d, size |-> 24] : d \in {40, 41, 56, 70}}

-----------------------------------------------------------------------------
NoOp ==
    /\ op = Ops[1] /\ pc = 0 /\ rc = 0 /\ jobs = {} /\ laps = 0 /\ failed = FALSE
    /\ mem = [n \in NamesOf(op) |-> "none"]
NoPlan ==
    /\ shape = [kind |-> "none"] /\ tile = 0 /\ rowCap = 0 /\ oc0 = 0
    /\ tasks = << >> /\ right = << >> /\ status = "idle"
NoMm ==
    /\ call = [entry |-> "none"] /\ mmTile = [Mt |-> 0, Kt |-> 0, Nt |-> 0]
    /\ task = [height |-> 0] /\ mmStatus = "idle"
NoGraph ==
    /\ g = << >> /\ pass = "idle" /\ visit = 1
    /\ cubeIn = {} /\ cubeOut = {} /\ placed = {} /\ shared = {} /\ leaves = {}
    /\ feat = << >> /\ surf = << >>
NoLayout ==
    /\ bo = [dma |-> 0, size |-> 0] /\ image = << >> /\ td = << >>
    /\ batch = [how |-> "none"] /\ built = MaxBuilds /\ layout = "idle"
NoWait ==
    /\ clock = MaxNow /\ fenced = TRUE /\ budget = 0 /\ setTo = 0
    /\ at = [w \in Waiters |-> "back"] /\ answer = [w \in Waiters |-> "none"]
    /\ timeout = [w \in Waiters |-> 0] /\ began = timeout /\ limit = timeout
    /\ took = timeout /\ seen = timeout
    /\ waits = 0 /\ slow = 0 /\ longest = 0

CallsInit ==
    \/ Init /\ NoPlan /\ NoMm /\ NoFinder /\ NoGraph /\ NoLayout /\ NoWait
    \/ PlanInit /\ NoOp /\ NoMm /\ NoFinder /\ NoGraph /\ NoLayout /\ NoWait
    \/ MmInit /\ NoOp /\ NoPlan /\ NoFinder /\ NoGraph /\ NoLayout /\ NoWait
    \/ FinderInit /\ NoOp /\ NoPlan /\ NoMm /\ NoGraph /\ NoLayout /\ NoWait
    \/ LinkInit /\ NoOp /\ NoPlan /\ NoMm /\ NoFinder /\ NoLayout /\ NoWait
    \/ LayoutInit /\ NoOp /\ NoPlan /\ NoMm /\ NoFinder /\ NoGraph /\ NoWait
    \/ WaitInit /\ NoOp /\ NoPlan /\ NoMm /\ NoFinder /\ NoGraph /\ NoLayout

CallsNext ==
    \/ Next /\ UNCHANGED <<planVars, mmVars, linkVars, layoutVars, waitVars>>
    \/ PlanNext /\ UNCHANGED <<vars, mmVars, linkVars, layoutVars, waitVars>>
    \/ MmNext /\ UNCHANGED <<vars, planVars, linkVars, layoutVars, waitVars>>
    \/ FinderNext /\ UNCHANGED <<vars, planVars, mmVars, graphVars, layoutVars, waitVars>>
    \/ LinkNext /\ UNCHANGED <<vars, planVars, mmVars, layoutVars, waitVars>>
    \/ LayoutNext /\ UNCHANGED <<vars, planVars, mmVars, linkVars, waitVars>>
    \/ WaitNext /\ UNCHANGED <<vars, planVars, mmVars, linkVars, layoutVars>>

CallsSpec ==
    CallsInit /\ [][CallsNext]_<<vars, planVars, mmVars, linkVars, layoutVars, waitVars>>
=============================================================================
