---------------------------- MODULE OpsPrepacked ----------------------------
(* The multi-worker matmuls on resident scratch: the integer weights packed *)
(* once (src/src/rocket_prepacked_int8.c, rocket_prepacked_int4.c), the     *)
(* streamed bf16 weights (rocket_bf16_stream.c) and the fp16 and bf16       *)
(* fan-outs that open a device per worker, as operators of OpMachine.       *)
EXTENDS OpSteps

\* A context: one descriptor per worker, closed again if a later one fails.
CtxCreate(name) ==
    Keeping(Op(name, FALSE, {},
       <<OrReturn(Host(<<"ctx">>), {})>> \o Loop(<<OrReturn(Host(<<"fd">>), {"ctx", "fd"})>>)),
       {"ctx", "fd"})
I8CtxCreate == CtxCreate("rocket_i8_ctx_create")
I4CtxCreate == CtxCreate("rocket_i4_ctx_create")
Bf16StreamCreate == CtxCreate("rocket_bf16_stream_create")

\* The cached scratches go before the descriptors their BOs live on.
CtxFree(name) ==
    Consuming(Op(name, FALSE, {},
       Loop(<<Drop(<<"scratch">>)>>) \o <<Drop(<<"fd">>), Drop(<<"ctx">>)>>),
       {"scratch", "fd", "ctx"})
I8CtxFree == CtxFree("rocket_i8_ctx_free")
I4CtxFree == CtxFree("rocket_i4_ctx_free")
Bf16StreamFree == CtxFree("rocket_bf16_stream_free")

-----------------------------------------------------------------------------
(* One worker's scratch.                                                    *)

WorkerBos == <<"guard", "regcmd", "in_all", "out_all">>
WorkerHost == <<"tasks", "submit_dt", "sums", "bm0", "bn0", "bMtile", "bNtile", "boff">>
WorkerAlloc(name, bos, more) ==
    LET all == Names(bos) \cup Names(WorkerHost)
    IN [Keeping(Op(name, FALSE, {},
          <<OrReturn(Check, {}), OrReturn(AllocAll(bos), all), OrReturn(Check, all)>>
          \o more \o <<OrReturn(Host(WorkerHost), all)>>), all) EXCEPT !.exit = all]
RkiWorkerAlloc == WorkerAlloc("rki_worker_alloc", WorkerBos, << >>)
Rk4WorkerAlloc == WorkerAlloc("rk4_worker_alloc", WorkerBos, << >>)
\* The streamed form zeroes both operands once; packing writes live lanes only.
BfsBosAlloc ==
    WorkerAlloc("bfs_bos_alloc", Append(WorkerBos, "wt_all"),
       <<OrReturn(Put("in_all"), {"*"}), OrReturn(Put("wt_all"), {"*"})>>)

\* A scratch is a block and the workers' BOs; the worker that failed has
\* released its own, those before it are released here.
ScratchAlloc(name, plan) ==
    Keeping(Op(name, FALSE, {},
       <<OrReturn(Host(<<"sc">>), {})>>
       \o Loop(plan \o <<OrReturn(Host(<<"worker">>), {"sc", "worker"})>>)), {"sc", "worker"})
RkiScratchAlloc == ScratchAlloc("rki_scratch_alloc", << >>)
Rk4ScratchAlloc == ScratchAlloc("rk4_scratch_alloc", << >>)
BfsScratchAlloc == ScratchAlloc("bfs_scratch_alloc", <<OrReturn(Check, {"sc", "worker"})>>)

-----------------------------------------------------------------------------
(* Resident integer weights.                                                *)

\* One worker's slice, laid out for the tiling of that worker.
RkiScatterOne ==
    Keeping(Op("rki_scatter_one", FALSE, {},
       <<OrReturn(Alloc(<<"wt">>), {}), OrReturn(Check, {"wt"}), OrReturn(Put("wt"), {"wt"})>>),
       {"wt"})

\* Every slice is attempted by a thread of its own, or one after another up
\* to the first failure; the slices that were packed go back either way.
RkiScatterWeights ==
    LET threads == <<OrReturn(Host(<<"wt1", "wt2">>), {"wt1", "wt2"})>>
        inline == <<OrReturn(Host(<<"wt1">>), {"wt1", "wt2"}),
                    OrReturn(Host(<<"wt2">>), {"wt1", "wt2"})>>
    IN Keeping(Op("rki_scatter_weights", FALSE, {}, Either(threads, inline)), {"wt1", "wt2"})
Rk4ScatterWeights ==
    Keeping(Op("rk4_scatter_weights", FALSE, {"wt"},
       <<OrReturn(Alloc(<<"wt">>), {"*"}), OrReturn(Check, {"*"}), OrReturn(Put("wt"), {"*"})>>),
       {"wt"})

WeightsPack(name, checks) ==
    Keeping(Op(name, FALSE, {},
       checks \o <<OrReturn(Check, {}), OrReturn(Host(<<"w">>), {}), OrReturn(Host(<<"wt">>), {"w"})>>),
       {"w", "wt"})
I8WeightsPack == WeightsPack("rocket_i8_weights_pack", Refusals(2))
I8WeightsPackGw == WeightsPack("rocket_i8_weights_pack_gw", Refusals(3))
I4WeightsPack == WeightsPack("rocket_i4_weights_pack", Refusals(2))
I4WeightsPackGw == WeightsPack("rocket_i4_weights_pack_gw", Refusals(3))
WeightsFree(name) ==
    Consuming(Op(name, FALSE, {}, <<Drop(<<"wt">>), Drop(<<"w">>)>>), {"wt", "w"})
I8WeightsFree == WeightsFree("rocket_i8_weights_free")
I4WeightsFree == WeightsFree("rocket_i4_weights_free")

-----------------------------------------------------------------------------
(* A worker's share of a call.  Every bracket is checked, because an        *)
(* unchecked one would run the part on what the cache still holds.          *)

OrStop(s) == OrReturn(s, {})
Steps(stop) == [i \in 1 .. Len(stop) |-> OrStop(stop[i])]
Share(weights) ==
    <<Put("regcmd"), Check, Check, Check, Bracket("out_all"),
      Submit({"in_all", weights, "regcmd"}, <<"out_all">>), Wait("out_all")>>
Collect == <<Take("out_all"), OrStop(Fini("out_all"))>>
WorkerCall(name) ==
    Warm(Op(name, FALSE, {}, <<OrStop(Put("in_all"))>> \o Loop(Steps(Share("wt")) \o Collect)),
         Names(WorkerBos) \cup {"wt"})
RkiThread == WorkerCall("rki_thread")
Rk4Thread == WorkerCall("rk4_thread")
Rk4ThreadGw == WorkerCall("rk4_thread_gw")

\* The streamed form packs B again for every call; only the submit and the
\* wait are checked.
BfsPack(name, b) == Warm(Op(name, FALSE, {}, <<OrStop(Put(b))>>), {b})
BfsLoadA == BfsPack("bfs_load_A", "in_all")
BfsPackA == BfsPack("bfs_pack_A", "in_all")
BfsPackB == BfsPack("bfs_pack_B", "wt_all")
BfsBatch ==
    <<Put("regcmd"), OrStop(Check), OrStop(Check), Bracket("out_all"),
      OrStop(Submit({"in_all", "wt_all", "regcmd"}, <<"out_all">>)), OrStop(Wait("out_all")),
      Take("out_all"), Fini("out_all")>>
BfsCompute ==
    Warm(Op("bfs_compute", FALSE, {}, Loop(BfsBatch)), {"in_all", "wt_all", "regcmd", "out_all"})
BfsRunWorker ==
    Warm(Op("bfs_run_worker", FALSE, {"Csub"},
       <<OrReturn(Host(<<"Csub">>), {}), OrReturn(Put("wt_all"), {"Csub"}),
         OrReturn(Put("in_all"), {"Csub"}), OrError(Call)>>), {"in_all", "wt_all"})

\* Scratch, fit, fan out; the workers' results are looked at once all have
\* been joined.
Fanned(name, n) == Op(name, FALSE, {}, Refusals(n) \o <<OrSet(Check)>>)
RkiResolve == Op("rki_resolve", FALSE, {}, Refusals(4))
RkiRun == Fanned("rki_run", 0)
MatmulInt8Prepacked == Fanned("rocket_matmul_int8_prepacked", 3)
MatmulInt8PrepackedGw == Fanned("rocket_matmul_int8_prepacked_gw", 3)
MatmulInt4Prepacked == Fanned("rocket_matmul_int4_prepacked", 5)
MatmulInt4PrepackedGw == Fanned("rocket_matmul_int4_prepacked_gw", 5)
\* The shared copy of A is kept with the scratch, and done without if there
\* is no room for it.
MatmulBf16Stream ==
    Resident(Op("rocket_matmul_bf16_stream", FALSE, {},
       Refusals(2) \o Maybe(<<Host(<<"a_buf">>)>>) \o <<OrSet(Check)>>), {"a_buf"})
MatmulBf16Mt == Fanned("rocket_matmul_bf16_mt", 0)
MatmulFp16Mt == Fanned("rocket_matmul_fp16_mt", 0)

\* A worker with a device of its own.
OwnDevice(name) ==
    Op(name, FALSE, {"fd", "Csub"},
       <<OrReturn(Host(<<"fd">>), {}), OrReturn(Host(<<"Csub">>), {"fd"}), OrError(Call)>>)
MtWorker == OwnDevice("mt_worker")
BfsMtWorker == OwnDevice("bfs_mt_worker")

PrepackedOps ==
    <<I8CtxCreate, I4CtxCreate, Bf16StreamCreate, I8CtxFree, I4CtxFree, Bf16StreamFree,
      RkiWorkerAlloc, Rk4WorkerAlloc, BfsBosAlloc, RkiScratchAlloc, Rk4ScratchAlloc,
      BfsScratchAlloc, RkiScatterOne, RkiScatterWeights, Rk4ScatterWeights, I8WeightsPack,
      I8WeightsPackGw, I4WeightsPack, I4WeightsPackGw, I8WeightsFree, I4WeightsFree, RkiThread,
      Rk4Thread, Rk4ThreadGw, BfsLoadA, BfsPackA, BfsPackB, BfsCompute, BfsRunWorker, RkiResolve,
      RkiRun, MatmulInt8Prepacked, MatmulInt8PrepackedGw, MatmulInt4Prepacked,
      MatmulInt4PrepackedGw, MatmulBf16Stream, MatmulBf16Mt, MatmulFp16Mt, MtWorker, BfsMtWorker>>
=============================================================================
