----------------------------- MODULE OpsMatmul -----------------------------
(* The one-call matmuls of src/src/rocket_matmul.c and the BOs and batch    *)
(* contexts they run on, as operators of OpMachine.                         *)
EXTENDS OpSteps

\* One row: pad to four, run, slice.
PadM1 ==
    Op("MM_PAD_M1", FALSE, {"Ap_", "Cp_"},
       <<OrReturn(Host(<<"Ap_", "Cp_">>), {"Ap_", "Cp_"}), OrError(Call)>>)

-----------------------------------------------------------------------------
(* The BOs of a plan.                                                       *)

TileHost == <<"tasks", "bm0", "bn0", "bMtile", "bNtile", "bmi", "bni", "boff", "submit_dt">>
PipeHost == <<"tasks2", "pm0", "pn0", "pMtile", "pNtile", "poff">>
MmBos == {"guard", "regcmd", "in_all", "wt_all", "out_all", "okacc0", "pong", "regcmd2", "out2"}
         \cup Names(TileHost \o PipeHost)

MmOutAllEnsure ==
    Keeping(Op("mm_out_all_ensure", FALSE, {},
       <<OrReturn(Alloc(<<"out_all">>), {"out_all"}), OrReturn(Check, {"out_all"})>>), {"out_all"})

\* Two BOs and an address check, tested with ||.
PairOf(a, b) == <<OrReturn(Alloc(<<a>>), {"*"}), OrReturn(Alloc(<<b>>), {"*"}),
                  OrReturn(Check, {"*"})>>

\* kacc: the partials live in a pair of BOs, and out_all waits until it is
\* asked for; pipe: a second program and output.
MmBosAlloc(kacc, pipe) ==
    LET first == <<"guard", "regcmd", "in_all", "wt_all">>
        names == IF kacc THEN first ELSE Append(first, "out_all")
    IN [Keeping(Op("mm_bos_alloc", FALSE, {},
          <<OrReturn(AllocAll(names), MmBos), OrReturn(Check, MmBos)>>
          \o (IF kacc THEN PairOf("okacc0", "pong") ELSE << >>)
          \o (IF pipe THEN PairOf("regcmd2", "out2") ELSE << >>)
          \o <<OrReturn(Put("in_all"), MmBos), OrReturn(Put("wt_all"), MmBos),
               OrReturn(Host(TileHost), MmBos)>>
          \o (IF pipe THEN <<OrReturn(Host(PipeHost), MmBos)>> ELSE << >>)), MmBos)
        EXCEPT !.exit = MmBos]
MmBosFree ==
    Consuming(Op("mm_bos_free", FALSE, {}, <<Drop(<<"guard", "regcmd", "in_all", "wt_all",
       "out_all", "okacc0", "pong", "regcmd2", "out2">>), Drop(TileHost), Drop(PipeHost)>>), MmBos)

\* The fp16 matmul: both operands are packed before either result is looked
\* at; the accumulating form may hand over to the plain one.
RocketMatmulFp16 ==
    Op("rocket_matmul_fp16", FALSE, {"b"},
       Refusals(2) \o <<OrInstead(Check, {})>> \o Refusals(1)
       \o <<OrReturn(Host(<<"b">>), {}), OrReturn(Check, {"b"})>>
       \o Either(<<OrInstead(Check, {"*"}), OrError(Call)>>, <<OrError(Call)>>))

-----------------------------------------------------------------------------
(* The contraction left as a cube on the part: nK tiles of K, each adding   *)
(* to what the one before wrote into the other of two buffers.              *)
CubeAt(ki, nK) == IF (nK - ki) % 2 = 0 THEN "cube" ELSE "pong"
KaccTile(ki, nK) ==
    LET dst == CubeAt(ki, nK)
        ins == {"in_all", "wt_all", "regcmd"}
               \cup (IF ki > 1 THEN {CubeAt(ki - 1, nK)} ELSE {})
    IN <<Put("regcmd"), OrError(Check), OrSet(Check), OrSet(Check), Bracket(dst),
         OrError(Submit(ins, <<dst>>)), OrError(Wait(dst)), Fini(dst)>>
MmComputeKaccCube(nK) ==
    Lending(Warm(Op("mm_compute_kacc_cube", FALSE, {"pong"},
        <<OrReturn(Check, {}), OrReturn(Check, {})>>
        \o (IF nK > 1 THEN <<OrReturn(Alloc(<<"pong">>), {}), OrReturn(Check, {"pong"})>>
            ELSE << >>)
        \o <<OrSet(Check)>>
        \o KaccTile(1, nK) \o (IF nK > 1 THEN KaccTile(2, nK) ELSE << >>)
        \o (IF nK > 2 THEN KaccTile(3, nK) ELSE << >>)
        \o <<Wait("cube")>>), {"in_all", "wt_all", "regcmd", "cube"}), {"cube"})

-----------------------------------------------------------------------------
(* Batches of one shape on a context.                                       *)

BatchHost == <<"bit_", "bm0", "bn0", "bMtile", "bNtile", "boff", "tasks", "submit_dt">>
MmBatchCreate ==
    LET all == {"b", "guard", "regcmd"} \cup Names(BatchHost)
    IN [Keeping(Op("rocket_mm_batch_create", FALSE, {},
          <<OrReturn(Host(<<"b">>), {})>> \o PairOf("guard", "regcmd")
          \o <<OrReturn(Host(BatchHost), {"*"})>>), all) EXCEPT !.exit = all]
MmBatchFree ==
    LET bos == <<"fence", "out_all", "wt_all", "in_all", "regcmd", "guard">>
    IN Consuming(Op("rocket_mm_batch_free", FALSE, {},
         <<Drop(bos), Drop(BatchHost), Drop(<<"acc", "b">>)>>),
         Names(bos) \cup Names(BatchHost) \cup {"acc", "b"})

\* rowsA: A is read from a BO of the caller's; rowsC: C is written to one,
\* which the call leaves open to the CPU, and a fence BO stands for its job.
BatchPrologue(rowsA, rowsC) ==
    LET in == IF rowsA THEN << >> ELSE <<"in_all">>
        out == IF rowsC THEN "fence" ELSE "out_all"
    IN Refusals(2) \o (IF rowsA \/ rowsC THEN << >> ELSE <<OrInstead(Check, {})>>)
       \o Refusals(4) \o <<OrReturn(EnsureEach(in \o <<"wt_all", out>>), {})>>
       \o (IF rowsC THEN << >> ELSE Maybe(<<OrReturn(Host(<<"acc">>), {})>>))
       \o (IF rowsA THEN << >> ELSE <<OrSet(Put("in_all"))>>) \o <<OrSet(Put("wt_all"))>>
BatchJobs(rowsA, rowsC) ==
    LET ins == {IF rowsA THEN "A" ELSE "in_all", "wt_all", "regcmd"}
        program == <<Put("regcmd"), OrError(Check), OrSet(Check), OrSet(Check)>>
    IN IF rowsC
       THEN Loop(program \o <<OrError(Submit(ins, <<"C", "fence">>)), OrError(Wait("fence")),
                              Fini("fence")>>)
            \o <<OrSet(Wait("C"))>>
       ELSE Loop(program \o <<Bracket("out_all"), OrError(Submit(ins, <<"out_all">>)),
                              OrError(Wait("out_all")), Take("out_all"), Fini("out_all")>>)
MmBatchRunOf(rowsA, rowsC) ==
    LET bos == {"in_all", "wt_all", "out_all", "fence", "acc"}
        o == Op("mm_batch_run", FALSE, {}, BatchPrologue(rowsA, rowsC) \o BatchJobs(rowsA, rowsC))
    IN Lending(Warm(Resident(o, bos), {"regcmd"} \cup (IF rowsA THEN {"A"} ELSE {})
                                       \cup (IF rowsC THEN {"C"} ELSE {})), {"C"})
MmBatchRunRows(rowsA, rowsC) ==
    LET o == MmBatchRunOf(rowsA, rowsC) IN [o EXCEPT !.steps = Refusals(1) \o @]

MatmulFp16Batch ==
    Op("rocket_matmul_fp16_batch", FALSE, {"b"},
       Refusals(1) \o <<OrInstead(Check, {}), OrReturn(Host(<<"b">>), {}), OrError(Call)>>)

-----------------------------------------------------------------------------
(* The tiled matmuls of the other datatypes: both operands packed once,     *)
(* tiles run in batches of one job, their partials summed on the host.      *)

TileBos == <<"guard", "regcmd", "in_all", "wt_all", "out_all">>
TileBatch ==
    <<Put("regcmd"), OrError(Check), OrSet(Check), Bracket("out_all"),
      OrError(Submit({"in_all", "wt_all", "regcmd"}, <<"out_all">>)), OrError(Wait("out_all")),
      Take("out_all"), Fini("out_all")>>
Tiled(name, refusals, host) ==
    Op(name, FALSE, Names(TileBos) \cup Names(host),
       refusals \o <<OrSet(AllocAll(TileBos)), OrSet(Check), OrSet(Put("wt_all")),
                     OrSet(Put("in_all")), OrSet(Host(host))>> \o Loop(TileBatch))

\* A test of the device, one row handed to the padded form, a plan.
Checked == Refusals(1) \o <<OrInstead(Check, {})>> \o Refusals(1)
Sums == <<"tasks", "acc", "bm0", "bn0", "bMtile", "bNtile", "boff">>

MatmulInt8Groupwise ==
    Tiled("rocket_matmul_int8_groupwise", Refusals(2),
          <<"tasks", "bm0", "bn0", "bMtile", "bNtile", "bg", "boff">>)
\* The task list is tested before the rest is allocated.
MatmulInt8 ==
    LET rest == <<"acc", "bm0", "bn0", "bMtile", "bNtile", "boff">>
        packed == <<OrSet(AllocAll(TileBos)), OrSet(Check), OrSet(Put("wt_all")), OrSet(Put("in_all"))>>
    IN Op("rocket_matmul_int8", FALSE, Names(TileBos) \cup Names(Sums),
          Refusals(1) \o Checked \o packed \o <<OrSet(Host(<<"tasks">>)), OrSet(Host(rest))>>
          \o Loop(TileBatch))
MatmulInt4Ex == Tiled("rocket_matmul_int4_ex", Checked, Sums)
MatmulInt4Groupwise ==
    Tiled("rocket_matmul_int4_groupwise", Refusals(3),
          <<"tasks", "bm0", "bn0", "bMtile", "bNtile", "bki", "boff">>)
MatmulBf16 == Tiled("rocket_matmul_bf16", Checked, Sums)
MatmulFp16F32out == Tiled("rocket_matmul_fp16_f32out", Checked, Sums)
MatmulTf32 == Tiled("rocket_matmul_tf32", Checked, Sums)

\* Four int8 products of the halves, all run before any result is looked at.
MatmulInt16Exact ==
    LET own == <<"Ah", "Al", "Bh", "Bl", "HH", "HL", "LH", "LL">>
    IN Op("rocket_matmul_int16_exact", TRUE, Names(own),
          Checked \o <<OrGoto(Host(own)), Done, OrSet(Check)>>)

MatmulOps ==
    <<PadM1, MmOutAllEnsure, MmBosAlloc(FALSE, FALSE), MmBosAlloc(TRUE, TRUE), MmBosFree,
      RocketMatmulFp16, MmComputeKaccCube(1), MmComputeKaccCube(2), MmComputeKaccCube(3),
      MmBatchCreate, MmBatchFree, MmBatchRunOf(FALSE, FALSE), MmBatchRunRows(TRUE, FALSE),
      MmBatchRunRows(FALSE, TRUE), MmBatchRunRows(TRUE, TRUE), MatmulFp16Batch, MatmulInt8Groupwise,
      MatmulInt8, MatmulInt4Ex, MatmulInt4Groupwise, MatmulBf16, MatmulFp16F32out, MatmulTf32,
      MatmulInt16Exact>>
=============================================================================
