------------------------------- MODULE OpsR76 -------------------------------
(* Convolution, matmul and pooling on the RK3576                            *)
(* (src/src/rocket_conv2d_rk3576.c, rocket_matmul_rk3576.c,                 *)
(* rocket_pool_rk3576.c), as operators of OpMachine.                        *)
EXTENDS OpSteps

\* r76_submit_ops and the loops like it: write the program, submit, wait for
\* the surface and look at the stamp, as often as the attempts allow.
R76Job(ins, out) ==
    Loop(<<Put("rc"), OrSet(Submit(ins \cup {"rc"}, <<out>>)), OrSet(Wait(out)), Fini(out)>>)
    \o <<OrSet(Check)>>
\* A drained surface is opened again, read and closed.
ReadBack(out) == <<Wait(out), Take(out), Fini(out)>>
Stamped(out) == Maybe(<<Put(out)>>)

-----------------------------------------------------------------------------
(* The int8 convolution: everything hangs off one handle.                   *)

TileBo == <<"w", "coeff", "out">>
HandleHost == <<"ops", "ext", "plan", "sum_w", "bias", "sum_abs_w", "w_scale_oc", "perm">>
HandleAll == Names(TileBo) \cup Names(HandleHost)
             \cup {"h", "tile", "lut_le", "lut_lo", "lut_bo", "rc", "in"}
WTileDrop == <<Drop(TileBo)>>
WFree ==
    Consuming(Op("r76_w_free", FALSE, {},
        WTileDrop \o <<Drop(<<"tile", "lut_bo", "rc", "in">>), Drop(HandleHost),
                       Drop(<<"lut_le", "lut_lo", "h">>)>>), HandleAll)

\* lut: the layer ends in a table.
WPrepareHost == <<OrReturn(Host(HandleHost), {"*"})>>
WPrepare(lut) ==
    Refusals(3) \o <<OrReturn(Host(<<"h">>), {}), OrReturn(Check, {"*"})>>
    \o (IF lut THEN <<OrReturn(Check, {"*"}), OrReturn(Host(<<"lut_le", "lut_lo">>), {"*"})>>
        ELSE << >>)
    \o WPrepareHost
WTiles == <<OrSet(Host(<<"tile">>))>>

WTileCoeff ==
    LET undo == HandleAll \cup {"A", "B", "Cmul"}
    IN <<OrReturn(Host(<<"A", "B", "Cmul">>), undo), OrReturn(Check, undo),
         OrReturn(Put("coeff"), undo), Drop(<<"A", "B", "Cmul">>)>>
\* argb: the weights of a first layer go through a slice of host memory.
WTilePack(argb) ==
    <<OrSet(Alloc(<<"w", "coeff">>)), OrSet(Alloc(<<"out">>))>> \o Maybe(<<Put("out")>>)
    \o (IF argb THEN <<OrSet(Host(<<"slice">>)), OrReturn(Put("w"), HandleAll \cup {"slice"}),
                       Drop(<<"slice">>)>>
        ELSE <<Put("w")>>)
    \o WTileCoeff

\* The border is written once, the planes every call.
FeaturePack == <<OrSet(Alloc(<<"in">>)), Put("in"), Patch("in")>>
LoadTable ==
    <<OrSet(Host(<<"lops">>)), OrReturn(Alloc(<<"lut_bo">>), HandleAll \cup {"lops"}),
      OrReturn(Check, HandleAll \cup {"lops"}), Put("lut_bo"), Drop(<<"lops">>)>>

\* One output-channel tile: plan, stamp, generate, submit.
TileRun(feature, lut) ==
    <<OrSet(Check)>> \o Stamped("out") \o <<OrSet(Check)>>
    \o R76Job({feature, "w", "coeff"} \cup (IF lut THEN {"lut_bo"} ELSE {}), "out")

ConvInt8Run(argb, lut) ==
    Op("r76_conv_int8_run", FALSE, HandleAll,
       WPrepare(lut) \o <<OrReturn(Check, {"*"}), OrSet(Check)>> \o WTiles
       \o FeaturePack \o <<OrSet(Alloc(<<"rc">>))>> \o (IF lut THEN LoadTable ELSE << >>)
       \o Loop(WTilePack(argb) \o TileRun("in", lut) \o ReadBack("out") \o WTileDrop))
ConvInt8Pack ==
    Keeping(Op("rocket_conv2d_int8_pack_rk3576", FALSE, HandleAll,
        Refusals(1) \o WPrepare(FALSE) \o <<OrSet(Check)>> \o WTiles \o WTilePack(FALSE)),
        HandleAll)

\* A packed handle; its input its own or a producer's cube, its output read
\* back (and stamped for the next call in the same bracket) or left as a cube.
ConvInt8Prepacked(fromCube, toCube) ==
    LET feature == IF fromCube THEN "src" ELSE "in"
        fill == IF fromCube THEN << >>
                ELSE Either(<<OrSet(Alloc(<<"in">>)), Put("in")>>, <<OrSet(Ensure("in")), Put("in")>>)
        read == IF toCube THEN << >>
                ELSE <<Wait("out"), Take("out")>> \o Maybe(<<Write("out")>>) \o <<Fini("out")>>
    IN Warm(Resident(Op("rocket_conv2d_int8_prepacked_rk3576", FALSE, {},
            Refusals(2) \o fill \o <<OrSet(Ensure("rc"))>> \o Loop(TileRun(feature, FALSE) \o read)),
            {"in", "rc"}), {"w", "coeff", "src", "out"})

\* The planners that say what a pack would do.
PerchannelPlan ==
    Op("rocket_conv2d_int8_perchannel_plan_rk3576", TRUE, {"sum_w", "sum_abs_w", "perm"},
       Refusals(2) \o <<OrSet(Host(<<"sum_w", "sum_abs_w", "perm">>)), Done, OrSet(Check)>>)
Int8Plan ==
    Op("rocket_conv2d_int8_plan_rk3576", FALSE, {"plan"},
       Refusals(2) \o <<OrReturn(Host(<<"plan">>), {}), OrSet(Check)>>)
PlanPerchannelBs ==
    Op("rocket_rk3576_plan_perchannel_bs", TRUE, {"tgt"},
       <<OrReturn(Host(<<"tgt">>), {}), OrSet(Check), OrSet(Check), Done>>)
PcErrAtBs ==
    Op("r76_pc_err_at_bs", FALSE, {"A", "C"}, <<OrReturn(Host(<<"A", "C">>), {"A", "C"})>>)
CubeAlloc ==
    Keeping(Op("rocket_rk3576_cube_alloc", FALSE, {},
        Refusals(1) \o <<OrReturn(Alloc(<<"cube">>), {}), Put("cube")>>), {"cube"})

\* A chain: its own lists, one BO for every program, and the border of the
\* head's input, which stays with the head's handle.
ChainBlocks == {"c", "layer", "open", "td", "ext", "in_h", "out_h", "rc"}
ChainFree ==
    Consuming(Op("rocket_conv2d_int8_chain_free_rk3576", FALSE, {},
        <<Drop(<<"rc", "layer", "td", "ext", "in_h", "out_h", "open", "c">>)>>), ChainBlocks)
ChainLists == {"off", "cnt", "all"} \cup ChainBlocks
\* Every layer planned, then counted against the caps.
ChainLayers ==
    LET chain == {"c", "layer", "open"}
    IN <<OrReturn(Host(<<"layer", "open">>), chain), OrReturn(Check, chain),
         OrReturn(Check, chain), OrReturn(Check, chain)>>
ChainPrograms ==
    <<OrReturn(Host(<<"td", "off", "cnt", "all", "ext", "in_h", "out_h">>), ChainLists),
      OrReturn(Check, ChainLists)>>
\* Packed and verified in one bracket.
ChainBuffer == <<OrReturn(Alloc(<<"rc">>), ChainLists), OrReturn(Put("rc"), ChainLists)>>
ChainNew ==
    Resident(Keeping(Op("rocket_chain_new_rk3576", FALSE, {},
        Refusals(5) \o Maybe(<<OrReturn(Ensure("in"), {}), Put("in")>>)
        \o <<OrReturn(Host(<<"c">>), {})>> \o ChainLayers \o ChainPrograms \o ChainBuffer
        \o <<Drop(<<"off", "cnt", "all">>)>>), ChainBlocks), {"in"})
ChainNewOfConvs ==
    Op("rocket_conv2d_int8_chain_new_rk3576", FALSE, {"nd"},
       Refusals(1) \o <<OrReturn(Host(<<"nd">>), {}), OrSet(Call)>>)

-----------------------------------------------------------------------------
(* The fp16 convolution: accumulated on the host over slices of channels.   *)

ConvBos == <<"in", "w", "coeff", "out", "rc">>
\* A first layer: one slice, the tiles of its outputs into one surface.
ConvFp16ArgbTiles ==
    Loop(<<OrSet(Put("w"))>> \o Loop(<<OrSet(Check)>> \o R76Job({"in", "w", "coeff"}, "out")))
    \o ReadBack("out")
ConvFp16Argb ==
    LET own == <<"ops", "acc", "wtile", "rows">>
    IN Op("r76_conv_fp16_argb", FALSE, Names(own) \cup Names(ConvBos),
          Refusals(1) \o <<OrSet(Host(own)), OrSet(Check), OrSet(Alloc(ConvBos)), Put("in"),
                           OrSet(Put("coeff"))>>
          \o Stamped("out") \o ConvFp16ArgbTiles \o <<OrSet(Check), Done>>)
\* Every slice rewrites the surface, which is added up on the host.
ConvFp16Slices ==
    Loop(Stamped("out")
         \o Loop(<<OrSet(Put("w")), OrSet(Check)>> \o R76Job({"in", "w", "coeff"}, "out"))
         \o ReadBack("out") \o <<OrSet(Check)>>)
ConvFp16 ==
    LET own == <<"ops", "slices", "acc">>
    IN Op("rocket_conv2d_fp16_rk3576", FALSE, Names(own) \cup Names(ConvBos),
          Refusals(5) \o <<OrInstead(Check, {}), OrSet(Host(own)), OrSet(Check),
                           OrSet(Alloc(ConvBos)), Put("in"), OrSet(Put("coeff"))>>
          \o ConvFp16Slices \o <<Done>>)

-----------------------------------------------------------------------------
(* Matmul.                                                                  *)

MmTile == <<"w", "coeff", "out">>
R76MmHost == <<OrSet(Host(<<"ops", "plan">>))>> \o Maybe(<<OrSet(Host(<<"sum_abs_own">>))>>)
R76MmFeature == <<OrSet(Alloc(<<"in">>)), Put("in"), OrSet(Alloc(<<"rc">>))>>
\* Each tile gives the BOs of the one before back to the pool.
R76MmTileBos(bos) ==
    <<Drop(bos), OrSet(Alloc(bos))>> \o (IF bos = MmTile THEN <<Put("w")>> ELSE << >>)
R76MmTileCoeff ==
    <<Drop(<<"tile_bias">>), OrSet(Host(<<"tile_bias">>))>>
    \o Maybe(<<Drop(<<"cmul">>), OrSet(Host(<<"cmul">>)), OrSet(Check)>>)
    \o <<OrSet(Put("coeff")), OrSet(Check)>>
\* A tile that stalls is left and redone narrower, without a read.
R76MmTileJobs ==
    Stamped("out") \o Loop(<<OrSet(Check)>> \o R76Job({"in", "w", "coeff"}, "out"))
    \o Maybe(ReadBack("out"))
\* wbo: the weights are resident.
R76MmInt8(wbo) ==
    LET own == <<"ops", "plan", "tile_bias", "cmul", "sum_abs_own">>
        bos == IF wbo THEN <<"coeff", "out">> ELSE MmTile
        o == Op("r76_mm_int8", TRUE, Names(own) \cup Names(bos) \cup {"in", "rc"},
          Refusals(5) \o R76MmHost \o R76MmFeature
          \o Loop(R76MmTileBos(bos) \o R76MmTileCoeff \o R76MmTileJobs) \o <<Done>>)
    IN IF wbo THEN Warm(o, {"w"}) ELSE o
\* A contraction no job holds, summed on the host from wide partials.
R76MmKsplit ==
    Op("r76_mm_int8", FALSE, {"acc"}, Refusals(2) \o <<OrReturn(Host(<<"acc">>), {}), OrSet(Call)>>)

\* The wide writers: K slices by N tiles.  Past the last surface byte lie guard
\* bytes nobody may have written.
I32Loops(attempts) ==
    Loop(<<OrSet(Check), Drop(MmTile), OrSet(Alloc(MmTile)), Put("w"), Put("coeff")>>
         \o Loop(Stamped("out")
                 \o Loop(<<OrSet(Check)>> \o R76Job({"in", "w", "coeff"}, "out")) \o attempts)
         \o <<Wait("out"), OrSet(Check), Take("out"), Fini("out")>>)
DenseLoops == I32Loops(<< >>)
R76I32Dense ==
    LET own == <<"ops", "plan", "task_off">>
    IN Op("r76_i32_dense", TRUE, Names(own) \cup Names(MmTile) \cup {"in", "rc"},
          <<OrSet(Check), OrSet(Host(own)), OrSet(Alloc(<<"rc", "in">>)), Put("in")>>
          \o DenseLoops \o <<Done>>)
MatmulInt8I32 ==
    LET own == <<"ops", "plan", "wplan", "task_off", "stage">>
        scanned == ReadBack("out")
    IN Op("rocket_matmul_int8_rk3576_i32", TRUE, Names(own) \cup Names(MmTile) \cup {"in", "rc"},
          Refusals(2) \o <<OrInstead(Check, {}), OrSet(Check), OrSet(Host(own)),
                           OrSet(Alloc(<<"rc", "in">>)), Put("in")>>
          \o I32Loops(scanned) \o <<Done>>)

WboCreate ==
    Keeping(Op("rocket_rk3576_wbo_create", FALSE, {},
        Refusals(2) \o <<OrReturn(Host(<<"h">>), {}), OrReturn(Alloc(<<"w">>), {"h"}), Put("w")>>),
        {"h", "w"})
WboFree == Consuming(Op("rocket_rk3576_wbo_free", FALSE, {}, <<Drop(<<"w", "h">>)>>), {"h", "w"})
WboFp16Create ==
    LET all == {"h", "w", "coef"}
    IN Keeping(Op("rocket_rk3576_wbo_fp16_create", FALSE, {},
         Refusals(3) \o <<OrReturn(Host(<<"h">>), {}), OrReturn(Alloc(<<"w", "coef">>), all),
                          OrReturn(Put("w"), all), OrReturn(Put("coef"), all)>>), all)
\* The stamp is looked at as the surface is copied out, one bracket per attempt.
MmFp16Attempts ==
    Loop(Stamped("out") \o <<OrSet(Submit({"in", "w", "coef", "rc"}, <<"out">>)),
                             OrSet(Wait("out")), Take("out"), Fini("out")>>)
    \o <<OrSet(Check)>>
R76MmFp16(wbo) ==
    LET own == IF wbo THEN {} ELSE {"w", "coef"}
        pack == <<OrSet(Alloc(<<"w", "coef">>)), OrSet(Put("w")), OrSet(Put("coef"))>>
        o == Op("r76_mm_fp16", TRUE, {"in", "out", "rc"} \cup own,
          Refusals(4) \o <<OrSet(Alloc(<<"in", "out", "rc">>))>> \o (IF wbo THEN << >> ELSE pack)
          \o <<Put("in"), OrSet(Put("rc"))>> \o MmFp16Attempts \o <<Done>>)
    IN IF wbo THEN Warm(o, {"w", "coef"}) ELSE o

-----------------------------------------------------------------------------
(* Pooling.                                                                 *)

PoolBos == <<"in", "out", "rc">>
PoolPack ==
    LET all == {"h"} \cup Names(PoolBos)
    IN Keeping(Op("rocket_pool_int8_pack_rk3576", FALSE, {},
         Refusals(3) \o <<OrReturn(Host(<<"h">>), {}), OrReturn(Alloc(PoolBos), all), Put("in"),
                          OrReturn(Put("rc"), all)>>), all)
\* A plane too wide for one task: a parent of column slices.
PoolPackSliced ==
    LET all == {"par", "slice1", "slice2"}
    IN Keeping(Op("rocket_pool_int8_pack_rk3576", FALSE, {},
         Refusals(4) \o <<OrReturn(Host(<<"par">>), {}), OrReturn(Host(<<"slice1">>), all),
                          OrReturn(Host(<<"slice2">>), all)>>), all)
PoolFree ==
    Consuming(Op("rocket_pool_int8_free_rk3576", FALSE, {}, <<Drop(<<"rc", "out", "in", "h">>)>>),
              {"h"} \cup Names(PoolBos))
\* (Seeded fault: the bracket of the read is left open.)
PoolPrepackedLeftOpen(fromCube) ==
    Warm(Op("rocket_pool_int8_prepacked_rk3576", TRUE, {},
         Refusals(2) \o Stamped("out")
         \o <<OrSet(Submit({"in", "rc"}, <<"out">>)), OrSet(Wait("out")), Take("out"), Done>>),
         {"in", "rc", "src", "out"})
\* The attempt that is kept leaves its bracket open for the de-scatter; the
\* divisor is looked for in a producer's cube inside a bracket of its own.
PoolAttempts(fromCube) ==
    LET src == IF fromCube THEN "src" ELSE "in"
        attempt == Stamped("out") \o <<OrSet(Submit({src, "rc"}, <<"out">>)), OrSet(Wait("out"))>>
                   \o (IF fromCube THEN Maybe(<<Bracket("src")>>) ELSE << >>)
    IN attempt \o Maybe(Loop(<<Fini("out")>> \o attempt))
PoolDescatter == <<Drop(<<"lagpos">>), OrSet(Check)>> \o Maybe(<<Take("out")>>) \o <<Fini("out")>>
PoolPrepacked(fromCube) ==
    LET fill == IF fromCube THEN << >> ELSE <<Patch("in")>>
    IN Warm(Resident(Op("rocket_pool_int8_prepacked_rk3576", TRUE, {"lagpos"},
         Refusals(2) \o fill \o Maybe(<<Host(<<"lagpos">>)>>)
         \o PoolAttempts(fromCube) \o PoolDescatter \o <<Done>>), {}), {"in", "rc", "src", "out"})
PoolInt8 ==
    Op("rocket_pool_int8_rk3576", FALSE, {"h"},
       Refusals(2) \o <<OrReturn(Host(<<"h">>), {}), OrSet(Call)>>)

R76Ops ==
    <<WFree, ConvInt8Run(FALSE, FALSE), ConvInt8Run(TRUE, FALSE), ConvInt8Run(FALSE, TRUE),
      ConvInt8Pack, ConvInt8Prepacked(FALSE, FALSE), ConvInt8Prepacked(TRUE, TRUE), PerchannelPlan,
      Int8Plan, PlanPerchannelBs, PcErrAtBs, CubeAlloc, ChainFree, ChainNew, ChainNewOfConvs,
      ConvFp16Argb, ConvFp16, R76MmInt8(FALSE), R76MmInt8(TRUE), R76MmKsplit, R76I32Dense,
      MatmulInt8I32, WboCreate, WboFree, WboFp16Create, R76MmFp16(FALSE), R76MmFp16(TRUE),
      PoolPack, PoolPackSliced, PoolFree, PoolPrepacked(FALSE), PoolPrepacked(TRUE), PoolInt8>>
=============================================================================
