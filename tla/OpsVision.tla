----------------------------- MODULE OpsVision -----------------------------
(* Pooling, global reductions, resizing, transposed and resident            *)
(* convolutions (src/src/rocket_pool.c, rocket_reduce.c, rocket_resize.c,   *)
(* rocket_conv_transpose.c, rocket_conv_resident.c), as operators of        *)
(* OpMachine.                                                               *)
EXTENDS OpSteps

PoolInt8Core ==
    Op("rocket_pool_int8_core", FALSE, {"fi", "fo"},
       <<OrReturn(Check, {}), OrReturn(Host(<<"fi", "fo">>), {"fi", "fo"}),
         OrReturn(Call, {"fi", "fo"})>>)

\* (Seeded fault: the return variable starts as a success.)
PoolFp16FromZero ==
    Op("rocket_pool_fp16", FALSE, {"guard", "in", "rc", "out"},
       <<OrReturn(Check, {}), OrGoto(Alloc(<<"guard", "in", "rc", "out">>)), OrGoto(Check),
         Put("in"), Put("out")>>
       \o SubmitOne({"in"}, "out") \o <<Take("out"), Fini("out"), Done>>)
PoolFp16 ==
    Op("rocket_pool_fp16", TRUE, {"guard", "in", "rc", "out"},
       <<OrReturn(Check, {}), Leave({}), OrGoto(Alloc(<<"guard", "in", "rc", "out">>)),
         OrGoto(Check), Put("in"), OrGoto(Check), OrGoto(Check), Put("out")>>
       \o SubmitOne({"in"}, "out") \o <<Take("out"), Fini("out"), Done>>)

\* (Seeded fault: the next pass is submitted before this one is done.)
ReducePassUnwaited(src, dst) ==
    <<OrGoto(Check), OrGoto(Check), Put("rc"), OrGoto(Submit({src, "rc"}, <<dst>>))>>
\* One pass of a telescoping reduction.  Its wait leaves dst open to the CPU:
\* nothing writes it before the next pass reads it.
ReducePass(src, dst) ==
    <<OrGoto(Check), OrGoto(Check), Put("rc"),
      OrGoto(Submit({src, "rc"}, <<dst>>)), OrGoto(Wait(dst))>>

\* Passes ping-pong between A and B; the result is in B after an odd number.
ReducePasses ==
    Either(Loop(ReducePass("A", "B") \o ReducePass("B", "A")) \o <<Take("A")>>,
           ReducePass("A", "B") \o Maybe(Loop(ReducePass("B", "A") \o ReducePass("A", "B")))
           \o <<Take("B")>>)
ReduceAlloc ==
    <<OrGoto(Alloc(<<"guard", "A", "B", "rc">>)), OrGoto(Check), Put("A")>>

\* A 1x1 map takes no pass: the input BO is waited for and read back.
GlobalAvgpool ==
    Op("rocket_global_avgpool_fp16", TRUE, {"guard", "A", "B", "rc"},
       <<Leave({})>> \o ReduceAlloc
       \o Either(<<OrGoto(Wait("A")), Reread("A")>>, ReducePasses) \o <<Done>>)

\* The extrema have no such wait for the 1x1 map, where no pass runs.
GlobalExtremaPool ==
    Op("run_global_extrema_pool", TRUE, {"guard", "A", "B", "rc"},
       ReduceAlloc \o Either(<<Reread("A")>>, ReducePasses) \o <<Done>>)

\* A matmul against ones (or a triangle of ones), the operand padded if need be.
ReduceFeature ==
    Op("rocket_reduce_feature_fp16", FALSE, {"Apad", "ones", "C"},
       <<OrReturn(Check, {}), Leave({}), OrReturn(Host(<<"ones", "C">>), {"ones", "C"})>>
       \o Maybe(<<OrReturn(Host(<<"Apad">>), {"ones", "C"})>>) \o <<OrError(Call)>>)
Cumsum ==
    Op("rocket_cumsum_fp16", FALSE, {"Apad", "L", "C"},
       <<OrReturn(Check, {}), Leave({}), OrReturn(Host(<<"L", "C">>), {"L", "C"})>>
       \o Maybe(<<OrReturn(Host(<<"Apad">>), {"L", "C"})>>) \o <<OrError(Call)>>)

-----------------------------------------------------------------------------
BuildKernel ==
    Op("build_kernel", FALSE, {"ty", "tx"}, <<OrReturn(Host(<<"ty", "tx">>), {"ty", "tx"})>>)
UpsampleRun ==
    Op("upsample_run", FALSE, {"W"},
       <<OrReturn(Check, {}), OrReturn(Host(<<"W">>), {}), OrReturn(Call, {"W"}), OrError(Call)>>)

\* The dilated input is built for the lowered route only.
TransposeRun ==
    Op("transpose_run", FALSE, {"xd", "wf"},
       <<OrReturn(Check, {})>>
       \o Either(<<OrReturn(Host(<<"wf">>), {"wf"}), OrError(Call)>>,
                 <<OrReturn(Host(<<"xd", "wf">>), {"xd", "wf"}), OrError(Call)>>))

\* A resident weight: the handle and what hangs off it are the caller's on
\* success and all released otherwise.
TransposeWeightsPack ==
    LET handle == {"h", "ct", "acc", "bias"}
    IN Keeping(Op("rocket_conv_transpose2d_weights_pack", FALSE, handle \cup {"w"},
         <<OrReturn(Check, {}), OrReturn(Host(<<"h">>), {}),
           OrReturn(Host(<<"B", "ct", "acc", "bias">>), handle \cup {"B"}),
           OrReturn(Host(<<"w">>), handle \cup {"B"}), Drop(<<"B">>)>>), handle \cup {"w"})
ConvWeightsPack ==
    LET handle == {"h", "at", "rows", "xcol", "ct", "bias"}
    IN Keeping(Op("rocket_conv2d_weights_pack", FALSE, handle \cup {"w"},
         <<OrReturn(Check, {}), OrReturn(Host(<<"h">>), {}),
           OrReturn(Host(<<"B", "at", "rows", "xcol", "ct", "bias">>), handle \cup {"B"}),
           OrReturn(Host(<<"w">>), handle \cup {"B"}), Drop(<<"B">>)>>), handle \cup {"w"})

VisionOps ==
    <<PoolInt8Core, PoolFp16, GlobalAvgpool, GlobalExtremaPool, ReduceFeature, Cumsum,
      BuildKernel, UpsampleRun, TransposeRun, TransposeWeightsPack, ConvWeightsPack>>
=============================================================================
