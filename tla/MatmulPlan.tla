----------------------------- MODULE MatmulPlan -----------------------------
(***************************************************************************)
(* How an RK3588 matmul is cut into tasks (rocket_matmul.c) and what the   *)
(* generator of its datatype makes of each task (npu_regcmd.c).  The two   *)
(* agree on the banks of the buffer (CBUF) only by convention: most        *)
(* generators do not look whether a task's weights fit the banks they are  *)
(* given, and the ones that look refuse the task in the middle of a call.  *)
(* Machine parameters are the RK3588 profile's; the ROCKET_MM_MT/NT/KT and *)
(* ROCKET_MM_ASYM overrides are not set.                                   *)
(*                                                                         *)
(* A call is a record: its entry, M, K, N, the quantization group (0: none)*)
(* and two settings read once, whether plans stream (stream) and whether   *)
(* the part accumulates K (kacc).                                          *)
(***************************************************************************)
EXTENDS PlanArith, FiniteSets, FiniteSetsExt, TLC

CONSTANT MmCalls

VARIABLES call,      \* the matmul asked for
          mmTile,    \* the tile its plan chose, [Mt, Kt, Nt]
          task,      \* the registers of the task emitted last
          mmStatus   \* "plan", "planned", "emitted", "rejected" or "refused"

mmVars == <<call, mmTile, task, mmStatus>>

Multiples(a, n) == {i * a : i \in 1 .. (n \div a)}

-----------------------------------------------------------------------------
(* The profile and the geometries.  half: half bytes an element occupies.  *)
Banks == 12
BankSize == 32768
MaxTile == 256
StreamNtMax == 4096
StreamXm == 128
StreamHostW == 8

Geom ==
    [fp16 |-> [half |-> 4, na |-> 16, ka |-> 32, ktCeil |-> 16384, slack |-> 0, out |-> 2, spare |-> 0],
     int8 |-> [half |-> 2, na |-> 32, ka |-> 32, ktCeil |-> 16384, slack |-> 1, out |-> 4, spare |-> 1],
     int4 |-> [half |-> 1, na |-> 64, ka |-> 32, ktCeil |-> 16384, slack |-> 0, out |-> 4, spare |-> 0],
     int16 |-> [half |-> 4, na |-> 16, ka |-> 32, ktCeil |-> 16384, slack |-> 0, out |-> 4, spare |-> 0],
     tf32 |-> [half |-> 8, na |-> 16, ka |-> 16, ktCeil |-> 8192, slack |-> 0, out |-> 4, spare |-> 0]]

GeomOf(c) ==
    CASE c.entry \in {"fp16", "canonical", "pin_nt", "pin_kt"} -> Geom.fp16
      [] c.entry \in {"int8", "int8_gw", "resident_int8"} -> Geom.int8
      [] c.entry \in {"int4", "int4_ex", "int4_gw"} -> Geom.int4
      [] c.entry \in {"int16", "bf16"} -> Geom.int16
      [] c.entry = "tf32" -> Geom.tf32

Budget(g) == Banks - g.slack
MmBanks(g, rows, Kt) == CeilDiv((rows * Kt * g.half) \div 2, BankSize)
MmFits(g, Mt, Nt, Kt) == MmBanks(g, Mt, Kt) + MmBanks(g, Nt, Kt) <= Budget(g)

\* The largest Kt that fits beside (Mt, Nt); the K granule if none does.
MmMaxKt(g, Mt, Nt, K) ==
    Max({g.ka} \cup {k \in Multiples(g.ka, Least(K, g.ktCeil)) : MmFits(g, Mt, Nt, k)})

\* The smallest N tile that still reaches the fewest tiles `cap' allows.
MmPickNt(N, cap, na) ==
    LET Nt == RoundUp(CeilDiv(N, CeilDiv(N, cap)), na)
    IN IF Nt > cap THEN (cap \div na) * na ELSE Nt

-----------------------------------------------------------------------------
(* The streamed plan: the input tile stays resident, the weights pass      *)
(* through the banks it leaves.                                            *)

\* Banks a streamed weight cube needs at least: an atom of 32 kernels.
StreamWeightBanks(bytesPerKernel) ==
    Max({2, CeilDiv(bytesPerKernel * 32, BankSize)})

KernelBytes(g, Kt) == (Kt * g.half) \div 2
Atom(g, Kt) == StreamWeightBanks(KernelBytes(g, Kt)) + g.spare

\* Rows of the slice the input banks hold beside the atom, in fours.
StreamMt(g, Kt, Ms) ==
    LET rows == ((Budget(g) - Atom(g, Kt)) * BankSize) \div KernelBytes(g, Kt)
    IN (Least(rows, Ms) \div 4) * 4

\* (Seeded fault: every row is costed, so the tiling depends on M past the cap.)
CostedWhole(M) == M
\* Rows of M whose cost decides the plan.
CostedRows(M) == Least(M, MaxTile)

\* The cost of a candidate over one slice, in sixteenths of a DRAM byte.
StreamCost(c, g, K, N, Ms, Mt, Kt) ==
    LET nN == CeilDiv(N, MmPickNt(N, StreamNtMax, g.na))
        passes == CeilDiv(K, Kt)
        exposed(m) == Max({m, StreamXm}) \div 4
        reads == (Ms \div Mt) * exposed(Mt) + (IF Ms % Mt > 0 THEN exposed(Ms % Mt) ELSE 0)
        partials == IF g = Geom.fp16 /\ c.kacc THEN 2 * passes - 1 ELSE StreamHostW * passes
    IN (reads * (N \div 16) * (K \div 32) * g.half) \div 2
         + ((Ms \div 4) * (K \div 4) * g.half * nN) \div 2
         + (Ms \div 4) * (N \div 4) * g.out * partials

\* mm_plan_stream: the cheapest candidate, the deepest of equals; the search
\* ends at the first that holds the whole slice.  Empty when none fits.
Candidates(g, K, Ms) ==
    {[Mt |-> StreamMt(g, k, Ms), Kt |-> k] :
        k \in {d \in {RoundUp(CeilDiv(K, n), g.ka) : n \in 1 .. K \div g.ka} :
                 d <= g.ktCeil /\ Atom(g, d) < Budget(g) /\ StreamMt(g, d, Ms) >= 4}}
Tried(fit, Ms) ==
    LET whole == {p.Kt : p \in {q \in fit : q.Mt = (Ms \div 4) * 4}}
    IN {p \in fit : \A k \in whole : p.Kt >= k}
Cheapest(costed) ==
    LET least == Min({p.cost : p \in costed})
        deepest == Max({p.Kt : p \in {q \in costed : q.cost = least}})
    IN {p \in costed : p.Kt = deepest}
MmPlanStream(c, g, M, K, N) ==
    LET Ms == CostedRows(M)
        costed == {p @@ [cost |-> StreamCost(c, g, K, N, Ms, p.Mt, p.Kt)] : p \in Tried(Candidates(g, K, Ms), Ms)}
    IN {[Mt |-> p.Mt, Kt |-> p.Kt, Nt |-> MmPickNt(N, StreamNtMax, g.na)] : p \in Cheapest(costed)}

-----------------------------------------------------------------------------
(* The whole-tile plan.                                                    *)

\* The N and then the M tile shrink until the pair of tiles fits.
Shrunk(g, Mt, Nt, Kt) ==
    LET n == Max({g.na} \cup {x \in Multiples(g.na, Nt) : MmFits(g, Mt, x, Kt)})
        m == Max({4} \cup {x \in Multiples(4, Mt) : MmFits(g, x, n, Kt)})
    IN [Mt |-> m, Kt |-> Kt, Nt |-> n]

\* Where N and K both tile, half the N tile leaves more of the banks to K (fp16).
AsymNt(g, Mt, Nt, K, N) ==
    IF g = Geom.fp16 /\ N > MaxTile /\ MmMaxKt(g, Mt, Nt, K) < K THEN MaxTile \div 2 ELSE Nt
Fitted(g, Mt, Nt, K) == Shrunk(g, Mt, Nt, MmMaxKt(g, Mt, Nt, K))
MmPlanWhole(g, M, K, N) ==
    LET Mt == Least(M, MaxTile)
    IN Fitted(g, Mt, AsymNt(g, Mt, (Least(N, MaxTile) \div g.na) * g.na, K, N), K)

\* A K tile lies inside one quantization group: the largest divisor that fits.
MmPlanGrouped(g, M, N, group) ==
    LET Mt == Least(M, MaxTile)
        Nt == MmPickNt(N, MaxTile, g.na)
        divisors == {d \in Multiples(g.ka, group) : group % d = 0}
    IN [Mt |-> Mt, Kt |-> Max({d \in divisors : MmFits(g, Mt, Nt, d)}), Nt |-> Nt]

OrWhole(streamed, g, M, K, N) == IF streamed # {} THEN streamed ELSE {MmPlanWhole(g, M, K, N)}

\* mm_plan_geom: the plans of one shape, none when it is refused.
MmPlanGeom(c, g, M, K, N, group) ==
    LET grouped == c.entry = "int8_gw"
        streams == c.stream /\ ~grouped /\ g \in {Geom.fp16, Geom.int8}
    IN IF \/ K % g.ka # 0 \/ N % g.na # 0 \/ M % 4 # 0
          \/ grouped /\ (group < g.ka \/ group % g.ka # 0 \/ K % group # 0)
       THEN {}
       ELSE IF grouped THEN {MmPlanGrouped(g, M, N, group)}
       ELSE OrWhole(IF streams THEN MmPlanStream(c, g, M, K, N) ELSE {}, g, M, K, N)

\* matmul_plan_pin: one dimension is the neighbour's (fp16, never streamed).
PinShrunk(M, Nt, Kt, pinNt) ==
    LET g == Geom.fp16
        n == IF pinNt > 0 THEN Nt ELSE Shrunk(g, Least(M, MaxTile), Nt, Kt).Nt
    IN [Shrunk(g, Least(M, MaxTile), n, Kt) EXCEPT !.Nt = n]
MatmulPlanPin(M, K, N, pinNt, pinKt) ==
    LET g == Geom.fp16
        Nt == IF pinNt > 0 THEN pinNt ELSE Least(N, MaxTile)
        Kt == IF pinKt > 0 THEN pinKt ELSE MmMaxKt(g, Least(M, MaxTile), Nt, K)
    IN IF \/ K % 32 # 0 \/ N % 16 # 0 \/ M % 4 # 0
          \/ pinNt % 32 # 0 \/ pinNt > N \/ pinKt % 32 # 0 \/ pinKt > K
       THEN {}
       ELSE {pl \in {PinShrunk(M, Nt, Kt, pinNt)} : MmFits(g, pl.Mt, pl.Nt, pl.Kt)}

-----------------------------------------------------------------------------
(* The entry points: the rows they plan and what they make of the plan.    *)
FfnTile == 256
Int4Cap == 480
ResidentRows == MaxTile

\* One-shot entries pad a single row to four before they plan.
Padded(c) == c.M = 1 /\ c.entry \in {"fp16", "int8", "int4", "int4_ex", "bf16", "tf32"}
Rows(c) == IF Padded(c) THEN 4 ELSE c.M

\* The rows an entry has planned.  A resident fp16 weight in a context with the
\* canonical tiling takes over the plan of MaxTile rows below that cap; resident
\* int8 weights plan MaxTile rows whatever the call's.
PlannedRows(c) ==
    CASE c.entry = "canonical" /\ c.M < MaxTile /\ c.M % 4 = 0 -> MaxTile
      [] c.entry = "resident_int8" -> ResidentRows
      [] OTHER -> Rows(c)

\* What an entry checks of a shape before it plans.
Accepted(c) ==
    /\ c.entry = "resident_int8" => c.M % 4 = 0
    /\ c.entry = "int4_gw" =>
         c.group >= 32 /\ c.group % 32 = 0 /\ c.K % c.group = 0 /\ c.M % 4 = 0 /\ 49 * c.group < 32767

\* What it makes of the plan: int4_ex caps the K tile, but a single row leaves
\* through the entry that has no cap; group-wise int4 takes the group for the K
\* tile, whatever was planned; fewer rows are a smaller input tile.
Adapted(c, pl) ==
    CASE c.entry = "int4_ex" /\ ~Padded(c) -> [pl EXCEPT !.Kt = Least(@, (Int4Cap \div 32) * 32)]
      [] c.entry = "int4_gw" -> [pl EXCEPT !.Kt = c.group]
      [] c.entry = "canonical" /\ c.M < MaxTile -> [pl EXCEPT !.Mt = Least(c.M, @)]
      [] OTHER -> pl

Plans(c) ==
    CASE ~Accepted(c) -> {}
      [] c.entry = "pin_nt" -> MatmulPlanPin(c.M, c.K, c.N, FfnTile, 0)
      [] c.entry = "pin_kt" -> MatmulPlanPin(c.M, c.K, c.N, 0, FfnTile)
      [] OTHER -> {Adapted(c, pl) :
                     pl \in MmPlanGeom(c, GeomOf(c), PlannedRows(c), c.K, c.N,
                                       IF c.entry = "int8_gw" THEN c.group ELSE 0)}

\* The task sizes of a tiled walk: whole tiles, and the tail where one is left.
Sizes(n, t) == (IF n >= t THEN {t} ELSE {}) \cup ({n % t} \ {0})

-----------------------------------------------------------------------------
(* The generators.  Each splits the banks between input and weights; extra *)
(* is the bank it adds to the input, floor the banks over an atom it asks  *)
(* of a streamed cube, and a generator that does not look has no floor.    *)
GenFp16 == [half |-> 4, extra |-> 0, looks |-> TRUE, floor |-> 0, perEntry |-> 32]
GenInt8 == [half |-> 2, extra |-> 1, looks |-> TRUE, floor |-> 1, perEntry |-> 64]
GenInt4 == [half |-> 1, extra |-> 0, looks |-> FALSE, floor |-> 0, perEntry |-> 128]
GenInt16 == [half |-> 4, extra |-> 0, looks |-> FALSE, floor |-> 0, perEntry |-> 32]
GenBf16 == [half |-> 4, extra |-> 0, looks |-> FALSE, floor |-> 0, perEntry |-> 32]
GenTf32 == [half |-> 8, extra |-> 0, looks |-> FALSE, floor |-> 0, perEntry |-> 16]

GenOf(c) ==
    CASE c.entry \in {"fp16", "canonical", "pin_nt", "pin_kt"} -> GenFp16
      [] c.entry \in {"int8", "int8_gw", "resident_int8"} -> GenInt8
      [] c.entry \in {"int4", "int4_ex", "int4_gw"} -> GenInt4
      [] c.entry = "int16" -> GenInt16
      [] c.entry = "bf16" -> GenBf16
      [] c.entry = "tf32" -> GenTf32

\* What a generator puts in the registers the split is made of.
Registers(gen, m, k, n) ==
    LET input == CeilDiv((m * k * gen.half) \div 2, BankSize) + gen.extra
        perKernel == (k * gen.half) \div 2
    IN [height |-> m, grains |-> m + 1, channel |-> k, kernels |-> n, perKernel |-> perKernel,
        weightBytes |-> perKernel * n, dataBank |-> input, weightBank |-> Banks - input,
        entries |-> CeilDiv(k, gen.perEntry)]

Streams(r) == r.weightBytes > r.weightBank * BankSize

\* reuse_mode_plan: whether a task may read the weights where the task before it
\* left them.  Streamed weights are never whole in the buffer.
WeightReuse(c, pl) ==
    /\ GeomOf(c) = Geom.fp16 /\ c.kacc
    /\ CeilDiv(Rows(c), pl.Mt) > CeilDiv(c.N, pl.Nt)
    /\ ~Streams(Registers(GenFp16, pl.Mt, pl.Kt, pl.Nt))

\* The fields the emitter measures before it writes them.
GeometryFits(r) == r.height <= 2047 /\ r.kernels - 1 <= 8191 /\ r.grains <= 1023

\* Whether the generator emits the task (its return value is 0).
Emits(gen, r) ==
    /\ r.dataBank <= Banks - 1
    /\ r.perKernel <= BankSize
    /\ gen.looks /\ Streams(r) =>
         r.weightBank >= StreamWeightBanks(r.perKernel) + gen.floor /\ ~r.reuse
    /\ GeometryFits(r)

-----------------------------------------------------------------------------
MmInit ==
    /\ call \in MmCalls
    /\ mmTile = [Mt |-> 0, Kt |-> 0, Nt |-> 0]
    /\ task = [height |-> 0]
    /\ mmStatus = "plan"

\* The plan, or a refusal.
PlanCall ==
    /\ mmStatus = "plan"
    /\ \E plans \in {Plans(call)} :
          \/ plans = {} /\ mmStatus' = "refused" /\ UNCHANGED mmTile
          \/ mmTile' \in plans /\ mmStatus' = "planned"
    /\ UNCHANGED <<call, task>>

\* A task of the walk; the generators keep nothing from one to the next.  Only
\* a task of the rows of the one before it reuses that one's weights.
EmitTask ==
    /\ mmStatus = "planned"
    /\ \E m \in Sizes(Rows(call), mmTile.Mt), k \in Sizes(call.K, mmTile.Kt), n \in Sizes(call.N, mmTile.Nt),
          reuse \in BOOLEAN :
          /\ reuse => WeightReuse(call, mmTile) /\ m = mmTile.Mt
          /\ task' = Registers(GenOf(call), m, k, n) @@ [reuse |-> reuse]
          /\ mmStatus' = IF Emits(GenOf(call), task') THEN "emitted" ELSE "rejected"
    /\ UNCHANGED <<call, mmTile>>

MmNext == PlanCall \/ EmitTask

MmSpec == MmInit /\ [][MmNext]_mmVars

-----------------------------------------------------------------------------
(* The parts of PlansHold.                                                 *)

\* What the entry points document: granules of K and N, rows in fours or one.
Legal(c) ==
    /\ c.K % GeomOf(c).ka = 0 /\ c.N % GeomOf(c).na = 0
    /\ c.M % 4 = 0 \/ Padded(c)
    /\ c.entry \in {"int8_gw", "int4_gw"} => c.group > 0 /\ c.K % c.group = 0 /\ c.group <= 640
    /\ c.entry = "pin_nt" => c.N >= FfnTile
    /\ c.entry = "pin_kt" => c.K >= FfnTile

\* A streamed task completes on the part: only the fp16 and int8 datapaths were
\* found to stream, in two banks and one whole atom of 32 kernels at least, int8
\* with a bank to spare.  Short of that it runs to the watchdog.
Completes(c, r) ==
    LET banks == r.weightBank - (IF GenOf(c) = GenInt8 THEN 1 ELSE 0)
    IN GenOf(c) \in {GenFp16, GenInt8} /\ banks >= 2 /\ banks * BankSize >= 32 * r.perKernel

\* The weights of an emitted task have their banks, or stream through enough of
\* them, beside an input that has its own; and no register field wraps.
TaskServed(c, r) ==
    /\ r.dataBank + r.weightBank <= Banks
    /\ c.entry \in {"int8", "int8_gw", "resident_int8"} =>
         r.dataBank * BankSize >= r.height * r.perKernel + BankSize
    /\ Streams(r) => Completes(c, r)
    /\ r.entries <= 8191 /\ r.perKernel <= 524287 /\ r.kernels <= 16383 /\ r.channel <= 65535

\* A weight packed for one row count is laid out as every other it serves reads
\* it: the (Kt, Nt) of a resident weight are those of MaxTile rows.
LayoutKept(c, pl) ==
    c.entry \in {"canonical", "resident_int8"} \/ (c.entry = "fp16" /\ c.M >= MaxTile) =>
        \E at \in MmPlanGeom(c, GeomOf(c), MaxTile, c.K, c.N, 0) : pl.Kt = at.Kt /\ pl.Nt = at.Nt

\* A K tile whose partial leaves as int16 cannot saturate it, where the entry
\* promises so.  A single row does not keep the promise of int4_ex.
Unsaturated(c, pl) ==
    /\ c.entry = "int4_ex" /\ ~Padded(c) => 64 * pl.Kt <= 32767
    /\ c.entry = "int4_gw" => pl.Kt = c.group /\ 49 * pl.Kt < 32767
    /\ c.entry = "int8_gw" => c.group % pl.Kt = 0

\* A matmul its entry's documentation allows is planned, and everything the
\* plan promised holds of every task of it: its generator takes it, its
\* operands have their banks, resident weights are where a call of other rows
\* looks for them, and no partial sum saturates.
PlansHold ==
    /\ mmStatus = "refused" => ~Legal(call)
    /\ mmStatus # "rejected"
    /\ mmStatus = "emitted" => TaskServed(call, task)
    /\ mmStatus = "planned" => LayoutKept(call, mmTile) /\ Unsaturated(call, mmTile)
=============================================================================
