------------------------------ MODULE R76Plan ------------------------------
(***************************************************************************)
(* How an RK3576 convolution or matmul is cut to what the part's buffer    *)
(* (CBUF) holds: output-channel tiles (rocket_conv2d_rk3576.c,             *)
(* rocket_matmul_rk3576.c), row windows and the feature allowance of each  *)
(* task (npu_regcmd_rk3576.c).  The planners are written as operators; the *)
(* machine runs the tiles of one shape on a part that obeys the measured   *)
(* laws the source records.  A task past one of them raises no error: its  *)
(* surface is whole and wrong, or its last channel groups are missing.     *)
(*                                                                         *)
(* A shape is a record: kind, the plane iw x ih, the channel counts as the *)
(* registers see them (ic, oc), kernel kh x kw, row stride s, padding rows *)
(* pt above, and oh output rows.  Kinds: "direct" and "depthwise" int8,    *)
(* "packed" (an image of at most four channels), "slice" (fp16, sixteen    *)
(* input channels at a time) and "matmul" (int8, K = ic, N = oc, 1x1).     *)
(***************************************************************************)
EXTENDS PlanArith, Sequences, FiniteSets, FiniteSetsExt, TLC

CONSTANT Shapes

VARIABLES shape,    \* what the call computes
          tile,     \* its output-channel tile
          rowCap,   \* rows a task may take, 0 for the planner's own
          oc0,      \* first channel of the tile being computed
          tasks,    \* its row tasks that have not run
          right,    \* right[y]: channel groups of output row y that are right
          status    \* "plan", "tile", "run", "ok" or "refused"

planVars == <<shape, tile, rowCap, oc0, tasks, right, status>>

KiB == 1024

-----------------------------------------------------------------------------
(* The CBUF, in granules of 64 bytes.                                      *)
Granule == 64
Base == 4096            \* the data side at allowance 0
MaxData == 6144
Pool == 7168            \* data and weights
Rungs == {0, 256, 512, 1024, 2048}
RungWeightMax == 16
MaxOc == 2944
MaxCube == 6 * 1024 * KiB
MaxField == 65535       \* a 16-bit register half
Every == 65536          \* weight_phase_groups: no group ever stalls

Dw(c) == c.kind = "depthwise"
GroupSize(c) == IF c.kind = "slice" THEN 16 ELSE 32
ChannelGroups(oc) == CeilDiv(oc, 32)

\* The depthwise feature granule: sixteens, and never three in the last 64.
DwCf(ch) ==
    LET g == CeilDiv(ch, 16) IN 16 * (IF g % 4 = 3 THEN g + 1 ELSE g)

\* Granules of a feature row.
Entries(c) ==
    CASE c.kind = "packed" -> (c.iw * 4) \div Granule + 1
      [] c.kind = "slice" -> CeilDiv(c.iw * 16 * 2, Granule)
      [] OTHER -> CeilDiv(c.iw * c.ic, Granule)

\* Bytes of weights that must be resident: one group's slice, or a whole cube.
WeightBytes(c, oc) ==
    CASE c.kind = "depthwise" -> DwCf(oc) * c.kh * c.kw * 2
      [] c.kind = "packed" -> oc * c.kh * 16 * CeilDiv(4 * c.kw, 16)
      [] c.kind = "slice" -> 32 * 16 * c.kh * c.kw
      [] OTHER -> 32 * c.ic * c.kh * c.kw
WeightGranules(c, oc) == CeilDiv(WeightBytes(c, oc), Granule)
ResidentGranules(c, oc) ==
    IF Dw(c) THEN WeightGranules(c, oc) ELSE ChannelGroups(oc) * WeightGranules(c, oc)

RungLive(f, resident, dw) ==
    f \in {256, 512} => ~dw /\ resident \in 1 .. RungWeightMax

\* The largest slice at which every group computes, less what f takes away.
SliceHeld(oc, bytes, f) ==
    bytes + f * Granule <=
        CASE ChannelGroups(oc) >= 4 -> 144 * KiB
          [] ChannelGroups(oc) = 3 -> 148 * KiB
          [] ChannelGroups(oc) = 2 -> 156 * KiB
          [] OTHER -> bytes + f * Granule

\* Groups a task can drive when slices of `bytes' are staged at their 64 KiB
\* phase in the area that allowance f leaves the weights.
PhaseUnit(bytes) == Max({2 ^ e : e \in {x \in 0 .. 16 : bytes % (2 ^ x) = 0}})
PhaseStalls(bytes, area) ==
    {g \in 1 .. (64 * KiB) \div PhaseUnit(bytes) : ((g * bytes) % (64 * KiB)) + bytes > area}
WeightPhaseGroups(bytes, f) ==
    LET area == ((Pool - Base - f) \div 1024) * 64 * KiB
    IN IF bytes > area THEN 0 ELSE Min({Every} \cup PhaseStalls(bytes, area))

WeightsHeld(c, oc, f) ==
    /\ SliceHeld(oc, WeightBytes(c, oc), f)
    /\ oc <= MaxOc
    /\ ChannelGroups(oc) * WeightBytes(c, oc) <= MaxCube

\* r76_plan_cbuf: the allowances one task of n rows may be programmed with,
\* the lowest live rung that covers it, or none.
CbufF(c, oc, n) ==
    LET covering == {r \in Rungs : RungLive(r, ResidentGranules(c, oc), Dw(c)) /\ Base + r >= Entries(c) * n}
    IN {f \in {Min({2048} \cup covering)} :
            /\ Entries(c) * n <= Base + f
            /\ ~Dw(c) => WeightsHeld(c, oc, f)
            /\ Base + f + WeightGranules(c, oc) <= Pool}

\* (Seeded fault: the weight slices' phase is not looked at.)
RungTakenByPool(c, oc, f, charged) ==
    /\ Base + f <= MaxData
    /\ Base + f + charged <= Pool
    /\ RungLive(f, ResidentGranules(c, oc), Dw(c))
    /\ Dw(c) \/ SliceHeld(oc, WeightBytes(c, oc), f)
\* What rules a rung out for a window: the weights it must leave room for.
RungTaken(c, oc, f, charged) ==
    /\ Base + f <= MaxData
    /\ Base + f + charged <= Pool
    /\ RungLive(f, ResidentGranules(c, oc), Dw(c))
    /\ Dw(c) \/ SliceHeld(oc, WeightBytes(c, oc), f)
    /\ f > 0 /\ c.kind \in {"direct", "matmul"} =>
         WeightPhaseGroups(WeightBytes(c, oc), f) >= ChannelGroups(oc)

\* Input rows one task may take; 0 when not even one row's weights fit.
Charged(c, oc, slice) ==
    IF ~Dw(c) /\ Base + ChannelGroups(oc) * slice <= Pool THEN ChannelGroups(oc) * slice ELSE slice
MaxTaskRows(c, oc) ==
    IF Base + WeightGranules(c, oc) > Pool \/ (~Dw(c) /\ ~WeightsHeld(c, oc, 0)) THEN 0
    ELSE LET charged == Charged(c, oc, WeightGranules(c, oc))
         IN (Base + Max({0} \cup {r \in Rungs : RungTaken(c, oc, r, charged)})) \div Entries(c)

-----------------------------------------------------------------------------
(* The row window.                                                         *)

\* The input rows that n output rows from y on read, clipped to the plane,
\* and the padding rows above them.
RowWindow(c, y, n) ==
    LET first == y * c.s - c.pt
        last == (y + n - 1) * c.s - c.pt + c.kh - 1
        lo == IF first < 0 THEN 0 ELSE first
        hi == Least(IF last < 0 THEN 0 ELSE last, c.ih - 1)
    IN [iy0 |-> lo, ih |-> IF hi >= lo THEN hi - lo + 1 ELSE 1,
        pad |-> IF first < 0 THEN -first ELSE 0]

\* Output rows of the task that starts at row y: as many as the cap affords, at
\* most `want' (0: no bound), fewer until the clipped window fits.
Room(c, extent) == IF extent >= c.kh THEN (extent - c.kh) \div c.s + 1 ELSE 0
TaskRows(c, cap, want, y) ==
    LET room == Room(c, RowWindow(c, y, 1).pad + cap)
    IN Max({1} \cup {n \in 1 .. Least(room, c.oh - y) :
                        (want > 0 => n <= want) /\ RowWindow(c, y, n).ih <= cap})

Within(laid, cap) == IF \E i \in DOMAIN laid : laid[i].ih > cap THEN << >> ELSE laid

\* r76_lay_rows; empty when one output row already overflows.
LayRows(c, cap, want) ==
    LET from[y \in 0 .. c.oh] ==
          IF y >= c.oh THEN << >>
          ELSE LET n == TaskRows(c, cap, want, y)
               IN <<[oy0 |-> y, oh |-> n] @@ RowWindow(c, y, n)>> \o from[y + n]
    IN Within(from[0], cap)

\* r76_plan_rows: greedy, then spread evenly over as many tasks.  Empty when the
\* plan is refused.
TaskCap(c, oc, limit) ==
    Min({MaxTaskRows(c, oc), MaxField \div Entries(c)} \cup ({limit} \ {0}))
Fewer(even, greedy) == IF even = << >> \/ Len(even) > Len(greedy) THEN greedy ELSE even
Evened(c, cap, greedy) ==
    IF greedy = << >> THEN << >>
    ELSE Fewer(LayRows(c, cap, CeilDiv(c.oh, Len(greedy))), greedy)
Covered(c, oc, plan) == IF \E i \in DOMAIN plan : CbufF(c, oc, plan[i].ih) = {} THEN << >> ELSE plan
RowsUnder(c, oc, cap) ==
    IF cap = 0 THEN << >> ELSE Covered(c, oc, Evened(c, cap, LayRows(c, cap, 0)))
PlanRows(c, oc, limit) == RowsUnder(c, oc, TaskCap(c, oc, limit))

-----------------------------------------------------------------------------
(* The output-channel tile.                                                *)

\* r76_conv_oc_tile.
HeldTile(bytes) ==
    CASE bytes <= 144 * KiB -> MaxField
      [] bytes <= 148 * KiB -> 96
      [] bytes <= 156 * KiB -> 64
      [] OTHER -> 32
PhasedTile(held, phase) == IF phase > 0 THEN Least(held, 32 * phase) ELSE held
ConvOcTile(c) ==
    LET bytes == 32 * c.ic * c.kh * c.kw
    IN PhasedTile(Least(HeldTile(bytes), c.oc), WeightPhaseGroups(bytes, 0))

\* r76_fp16_oc_tile: one allowance for the whole plane.
Fp16OcTile(c) ==
    LET t == Least(c.oc, 32)
        phases == {WeightPhaseGroups(16 * 16 * c.kh * c.kw * 2, f) : f \in CbufF(c, t, c.ih)}
    IN Min({t} \cup {16 * g : g \in phases \ {0}})

\* The plane a matmul's M rows (given as ih) are laid out as: the widest divisor
\* of M inside the data side whose rows are whole granules.
Laid(c) ==
    LET widths == {w \in 1 .. Least(c.ih, Max({1, (8 * 32 * KiB) \div c.ic})) :
                     c.ih % w = 0 /\ (w * c.ic) % 64 = 0}
        w == Max({1} \cup widths)
    IN IF c.kind # "matmul" THEN c ELSE [c EXCEPT !.iw = w, !.ih = c.ih \div w, !.oh = c.ih \div w]

\* The widest tile with a plan at all, halved from the profile's; 0 if none.
MmFitNt(c) ==
    LET fit[n \in 0 .. 2048] ==
          IF MaxTaskRows(c, n) > 0 THEN n
          ELSE IF n <= 32 THEN 0
          ELSE fit[Max({32, (n \div 64) * 32})]
    IN fit[Max({32, (Least(2048, c.oc) \div 32) * 32})]

\* Groups the widest task of an even spread under a cap of n rows completes.
MmRowsHold(c, nt, n) ==
    LET spread == CeilDiv(c.ih, CeilDiv(c.ih, n))
    IN Max({0} \cup {WeightPhaseGroups(32 * c.ic, f) : f \in CbufF(c, nt, spread)})

\* The tallest window short of n rows that completes every group of the tile.
MmFullRows(c, nt, n) ==
    Max({0} \cup {r \in 1 .. n - 1 : MmRowsHold(c, nt, r) >= ChannelGroups(nt)})

\* A tile of nt that completes g groups under n rows, or all of them under
\* `full': the next tile, its row cap, and whether to look again.
MmNarrow(c, nt, n, g, full) ==
    LET jobs(t, r) == CeilDiv(c.oc, t) * CeilDiv(c.ih, r)
        narrower == g > 0 /\ 32 * g < nt
    IN CASE n = 0 \/ g >= ChannelGroups(nt) -> [nt |-> nt, rows |-> 0, again |-> FALSE]
         [] full > 0 /\ (narrower => jobs(nt, full) <= jobs(32 * g, n)) ->
              [nt |-> nt, rows |-> full, again |-> FALSE]
         [] OTHER -> [nt |-> IF narrower THEN 32 * g ELSE nt, rows |-> 0, again |-> narrower]
MmTry(c, nt, n) == MmNarrow(c, nt, n, MmRowsHold(c, nt, n), MmFullRows(c, nt, n))

\* r76_mm_phase: a shorter window or a narrower tile, whichever takes fewer
\* jobs, until every group of the tile completes (eight tries).
MmPhase(c, nt0) ==
    LET try[i \in 0 .. 8] ==
          IF i = 0 THEN [nt |-> nt0, rows |-> 0, again |-> TRUE]
          ELSE LET last == try[i - 1]
               IN IF last.again THEN MmTry(c, last.nt, Least(MaxTaskRows(c, last.nt), c.ih)) ELSE last
    IN <<try[8].nt, try[8].rows>>

\* The tile and the row cap, by the rules of each kind; tile 0 is a refusal.
Cut(c) ==
    CASE c.kind = "direct" -> <<ConvOcTile(c), 0>>
      [] c.kind = "depthwise" -> <<c.oc, 0>>
      [] c.kind = "packed" -> <<Least(c.oc, 64), 0>>
      [] c.kind = "slice" -> IF CbufF(c, c.oc, c.ih) = {} THEN <<0, 0>> ELSE <<Fp16OcTile(c), 0>>
      [] OTHER -> LET nt == MmFitNt(c) IN IF nt = 0 THEN <<0, 0>> ELSE MmPhase(c, nt)

\* The row tasks of a tile of n channels; an fp16 slice takes the whole plane.
Tasks(c, n, cap) ==
    IF c.kind # "slice" THEN PlanRows(c, n, cap)
    ELSE IF CbufF(c, n, c.ih) = {} THEN <<>>
    ELSE <<[oy0 |-> 0, oh |-> c.oh] @@ RowWindow(c, 0, c.oh)>>

-----------------------------------------------------------------------------
(* The part.                                                               *)

\* Rows of the window that a task programmed with allowance f has in the CBUF: a
\* low rung delivers nothing beside more weights than it was measured with.
RowsHeld(c, f) ==
    (Base + (IF f \notin {256, 512} \/ (~Dw(c) /\ WeightGranules(c, 32) <= RungWeightMax)
             THEN f ELSE 0)) \div Entries(c)

\* The input row (or "pad") behind tap k of output row y: in the convolution,
\* and as task t reads it, padding whatever lies outside its window.
Tap(c, y, k) ==
    LET r == y * c.s - c.pt + k IN IF r \in 0 .. c.ih - 1 THEN r ELSE -1
TaskTap(c, t, y, k) ==
    LET r == (y - t.oy0) * c.s - t.pad + k IN IF r \in 0 .. t.ih - 1 THEN t.iy0 + r ELSE -1

RowRight(c, f, t, y) ==
    /\ y \in t.oy0 .. t.oy0 + t.oh - 1
    /\ \A k \in 0 .. c.kh - 1 :
         /\ TaskTap(c, t, y, k) = Tap(c, y, k)
         /\ Tap(c, y, k) < t.iy0 + RowsHeld(c, f)

\* Channel groups a task with allowance f writes, of a tile with n channels.
GroupsWritten(c, f, n) ==
    LET bytes == 2 * GroupSize(c) * 16 * c.kh * c.kw
        all == CeilDiv(n, GroupSize(c))
    IN CASE c.kind = "slice" -> Min({all, 2, WeightPhaseGroups(bytes, f)})
         [] c.kind \in {"direct", "matmul"} -> Least(all, WeightPhaseGroups(32 * c.ic * c.kh * c.kw, f))
         [] OTHER -> all

-----------------------------------------------------------------------------
PlanInit ==
    /\ shape \in {Laid(c) : c \in Shapes}
    /\ tile = 0 /\ rowCap = 0 /\ oc0 = 0
    /\ tasks = << >>
    /\ right = [y \in 0 .. shape.oh - 1 |-> 0]
    /\ status = "plan"

CutTiles ==
    /\ status = "plan"
    /\ \E cut \in {Cut(shape)} :
          /\ tile' = cut[1]
          /\ rowCap' = cut[2]
          /\ status' = IF cut[1] = 0 THEN "refused" ELSE "tile"
    /\ UNCHANGED <<shape, oc0, tasks, right>>

\* The channels the registers see in the tile at oc0.
TileOc == Least(tile, shape.oc - oc0)

PlanTile ==
    /\ status = "tile"
    /\ oc0 < shape.oc
    /\ tasks' = Tasks(shape, TileOc, rowCap)
    /\ status' = IF tasks' = << >> THEN "refused" ELSE "run"
    /\ UNCHANGED <<shape, tile, rowCap, oc0, right>>

\* The next row task: its program carries the allowance the emitter finds.
RunTask ==
    /\ status = "run"
    /\ tasks # << >>
    /\ \E f \in CbufF(shape, TileOc, Head(tasks).ih) :
          right' = [y \in DOMAIN right |->
                      IF RowRight(shape, f, Head(tasks), y)
                      THEN right[y] + GroupsWritten(shape, f, TileOc) ELSE right[y]]
    /\ tasks' = Tail(tasks)
    /\ UNCHANGED <<shape, tile, rowCap, oc0, status>>

TileDone ==
    /\ status = "run"
    /\ tasks = << >>
    /\ oc0' = oc0 + tile
    /\ status' = "tile"
    /\ UNCHANGED <<shape, tile, rowCap, tasks, right>>

CallDone ==
    /\ status = "tile"
    /\ oc0 >= shape.oc
    /\ status' = "ok"
    /\ UNCHANGED <<shape, tile, rowCap, oc0, tasks, right>>

PlanNext == CutTiles \/ PlanTile \/ RunTask \/ TileDone \/ CallDone

PlanSpec == PlanInit /\ [][PlanNext]_planVars

-----------------------------------------------------------------------------
\* A call that is not refused leaves a whole surface.  Every output row is
\* computed once in every channel tile, each tap from the input row or the
\* padding the convolution reads: no window is short of a row or longer than
\* the allowance its task ends up programmed with.  And no task stalls: that
\* allowance leaves the weights of every group of its tile their place.
SurfaceWhole ==
    status = "ok" => \A y \in DOMAIN right : right[y] = CeilDiv(shape.oc, GroupSize(shape))
=============================================================================
