------------------------------ MODULE OpsConv ------------------------------
(* The convolutions of src/src/rocket_conv.c, as operators of OpMachine.    *)
EXTENDS OpSteps

JobBos == {"guard", "in", "wt", "rc", "out", "bias"}

\* A job whose operands are packed: generate, write the program, clear the
\* surface, submit, wait and read.
JobRun(ins) ==
    <<OrGoto(Check), OrGoto(Check), Put("rc"), Put("out"),
      OrGoto(Submit(ins \cup {"rc"}, <<"out">>)), OrGoto(Wait("out")),
      Take("out"), Fini("out"), Done>>

\* One direct or depthwise fp16 job; `kept' says that a context lends the BOs.
Conv2dOneJob(kept) ==
    Borrowed(Op("conv2d_one_job", TRUE, {},
        <<Leave({})>> \o EnsureAll(<<"guard", "in", "wt", "rc", "out">>)
        \o <<Put("in"), Put("wt")>> \o JobRun({"in", "wt"})), kept, JobBos \ {"bias"})

\* Tiles of a deconvolution over output channels, padded to 16 of them.
Conv2dFp16Deconv ==
    Op("rocket_conv2d_fp16_deconv", FALSE, {"Wpad", "opad"},
       <<OrReturn(Check, {})>>
       \o Maybe(<<OrReturn(Host(<<"Wpad", "opad">>), {"Wpad", "opad"})>>)
       \o Loop(<<OrError(Call)>>))

\* A channel chunk in row and column bands, staged in an arena.
DwSpatial ==
    Op("dw_spatial", FALSE, {"arena"},
       <<OrReturn(Check, {}), OrReturn(Host(<<"arena">>), {}), OrReturn(Check, {"arena"})>>
       \o Loop(<<OrError(Call)>>))

\* Output channels that are not whole groups: pad, run again, slice.
Conv2dRunPadded ==
    Op("conv2d_run", FALSE, {"Wp", "op"},
       <<OrReturn(Check, {}), OrReturn(Host(<<"Wp", "op">>), {"Wp", "op"}), OrError(Call)>>)
Conv2dRunDw ==
    Op("conv2d_run", FALSE, {}, <<OrReturn(Check, {})>> \o Loop(<<OrError(Call)>>))
Conv2dRunDirect ==
    Op("conv2d_run", FALSE, {"arena", "Wpad"},
       <<OrReturn(Check, {})>>
       \o Either(<<OrReturn(Host(<<"Wpad">>), {})>>, <<OrReturn(Call, {}), Leave({})>>)
       \o <<OrSet(Check), OrSet(Check), OrSet(Host(<<"arena">>)), OrSet(Check)>>
       \o Loop(<<OrError(Call)>>))

Conv2dActRun ==
    Op("conv2d_act_run", FALSE, {},
       <<OrReturn(Check, {}), OrReturn(Check, {}), OrReturn(Check, {}), OrError(Call)>>)

\* One int8 job: q adds the folded bias, which the job reads as a fourth BO.
Int8JobRun(q) == JobRun({"in", "wt"} \cup (IF q THEN {"bias"} ELSE {}))
Conv2dInt8OneJob(kept, q) ==
    LET bias == IF q THEN <<"bias">> ELSE << >>
    IN Borrowed(Op("conv2d_int8_one_job", TRUE, {},
         <<Leave({})>> \o EnsureAll(<<"guard", "in", "wt", "rc">> \o bias \o <<"out">>)
         \o <<Put("in"), Put("wt")>> \o (IF q THEN <<Put("bias")>> ELSE << >>)
         \o Int8JobRun(q)), kept, JobBos)

Conv2dInt8OneTile == Op("conv2d_int8_one_tile", FALSE, {}, <<OrReturn(Call, {})>>)

\* A program per tile, all of them in one job.
Int8BatchRun ==
    <<OrGoto(Check), OrSet(Check), OrSet(Check), Put("rc"), Put("out"),
      OrGoto(Submit({"in", "wt", "rc", "bias"}, <<"out">>)), OrGoto(Wait("out")),
      Take("out"), Fini("out"), Done>>
\* All tiles of a run in one job, on a context's BOs.
Conv2dInt8BatchTiles ==
    LET offsets == {"off_in", "off_wt", "off_out", "off_bs", "tasks"}
    IN Resident(Op("conv2d_int8_batch_tiles", TRUE, offsets \cup {"sub_in", "scratch"},
         <<OrSet(Host(<<"off_in", "off_wt", "off_out", "off_bs", "tasks">>)),
           OrSet(Host(<<"sub_in">>))>>
         \o EnsureAll(<<"guard", "in", "wt", "rc", "bias", "out">>)
         \o <<OrGoto(Host(<<"scratch">>)), Put("in"), Put("wt"), Put("bias")>>
         \o Int8BatchRun), JobBos)

\* A worker's tiles on its own context.
I8Worker ==
    Op("i8_worker", FALSE, {"sub_in", "sub_out"},
       Either(<<OrReturn(Call, {}), Leave({})>>, <<OrSet(Host(<<"sub_in", "sub_out">>))>>)
       \o Loop(<<OrError(Call)>>))

\* The tile list across a pool's workers, as one batched job on a transient
\* context, or one tile at a time.
Conv2dInt8Dispatch ==
    LET transient == <<Host(<<"local">>), OrReturn(Call, {"local"}), Drop(<<"local">>)>>
        one == <<OrReturn(Host(<<"sub_in", "sub_out">>), {"sub_in", "sub_out"})>>
               \o Loop(<<OrError(Call)>>)
    IN Op("conv2d_int8_dispatch", FALSE, {"sub_in", "sub_out"},
          Either(<<OrError(Call)>>, Either(Either(<<OrError(Call)>>, transient), one)))

Conv2dInt8RunPadded ==
    Op("conv2d_int8_run", FALSE, {"Wp", "op", "Ap", "Cp"},
       <<OrReturn(Check, {}),
         OrReturn(Host(<<"Wp", "op", "Ap", "Cp">>), {"Wp", "op", "Ap", "Cp"}), OrError(Call)>>)
\* (Seeded fault: the padded weights are lost when the bands do not fit.)
Conv2dInt8RunWpadLost ==
    Op("conv2d_int8_run", FALSE, {"tiles", "Wpad"},
       <<OrReturn(Check, {})>> \o Maybe(<<OrReturn(Host(<<"Wpad">>), {})>>)
       \o <<OrReturn(Host(<<"rband", "cband">>), {"rband", "cband"})>>
       \o <<Free(<<"rband", "cband">>), OrError(Call)>>)
\* (Seeded fault: the bands are freed again at the end.)
Conv2dInt8RunBandsTwice ==
    Op("conv2d_int8_run", FALSE, {"tiles", "Wpad", "rband", "cband"},
       <<OrReturn(Check, {}), OrReturn(Host(<<"rband", "cband">>), {"rband", "cband"}),
         Free(<<"rband", "cband">>), OrError(Call)>>)
Conv2dInt8Run ==
    Op("conv2d_int8_run", FALSE, {"tiles", "Wpad"},
       <<OrReturn(Check, {})>> \o Maybe(<<OrReturn(Call, {}), Leave({})>>)
       \o Maybe(<<OrReturn(Host(<<"Wpad">>), {})>>)
       \o <<OrReturn(Host(<<"rband", "cband">>), {"rband", "cband", "Wpad"}),
            OrReturn(Host(<<"tiles">>), {"rband", "cband", "Wpad"}),
            Free(<<"rband", "cband">>), OrError(Call)>>)

Conv2dInt8QEntry ==
    Op("conv2d_int8_q_entry", FALSE, {"A"},
       <<OrReturn(Check, {}), OrReturn(Check, {}), OrReturn(Host(<<"A">>), {})>>
       \o Loop(<<OrReturn(Check, {"A"})>>) \o <<OrError(Call)>>)

-----------------------------------------------------------------------------
(* The int8 depthwise program, per tensor and per channel.                  *)

DwInt8JobRun == JobRun({"in", "wt", "bias"})
Conv2dDwInt8OneJob(kept) ==
    Borrowed(Op("conv2d_dw_int8_one_job", TRUE, {},
        Maybe(<<OrReturn(Check, {}), Leave({})>>)
        \o EnsureAll(<<"guard", "in", "wt", "rc", "bias", "out">>)
        \o <<Put("in"), Put("wt"), Put("bias")>> \o DwInt8JobRun), kept, JobBos)

DwInt8Spatial ==
    Op("dw_int8_spatial", FALSE, {"arena"},
       <<OrReturn(Host(<<"arena">>), {}), OrReturn(Check, {"arena"})>>
       \o Loop(<<OrError(Call)>>))

Conv2dDwInt8Run ==
    Op("conv2d_dw_int8_run", FALSE, {},
       <<OrReturn(Check, {}), OrReturn(Check, {})>> \o Loop(<<OrError(Call)>>))

\* Sort the channels by scale, cut them into jobs and plan each.
PercPlanLayer ==
    Op("perc_plan_layer", FALSE, {"M", "bound", "cj"},
       <<OrSet(Host(<<"M", "bound", "cj">>))>> \o Loop(<<OrSet(Check)>>))

DwPercPlanChannels ==
    Op("rocket_conv2d_dw_int8_perc_plan_channels", FALSE, {"order"},
       <<OrReturn(Check, {}), OrReturn(Host(<<"order">>), {}), OrError(Call)>>)

\* The jobs' scales are freed after the loop, before its result is looked at.
DwPercHost == {"order", "host", "shift", "cmul", "cj", "cvt", "wj", "bj"}
Conv2dDwInt8PercRun ==
    Op("conv2d_dw_int8_perc_run", FALSE, DwPercHost,
       <<OrReturn(Check, {}), OrReturn(Check, {}),
         OrSet(Host(<<"order", "host", "shift", "cmul", "cj", "cvt", "wj", "bj">>)),
         OrError(Call)>>
       \o Maybe(<<OrSet(Host(<<"Mo">>))>>
                \o Loop(<<OrReturn(Call, DwPercHost \cup {"Mo"})>>) \o <<Drop(<<"Mo">>)>>))

\* Several jobs, through a copy of the operands sorted by scale.
PercSeveral ==
    <<OrSet(Check), OrSet(Host(<<"Wp", "Ap", "Cp", "qs", "tmp">>))>>
    \o Loop(<<OrSet(Check), OrSet(Check)>>)
    \o <<OrSet(Host(<<"rband", "cband", "tiles">>)), OrError(Call)>>
\* All channels in one job keep their order.
Conv2dInt8QPercRun ==
    LET always == <<"order", "jb", "jn", "host", "shift", "cmul", "cvt", "Mo">>
        one == <<OrSet(Host(<<"Ap">>))>> \o Loop(<<OrSet(Check)>>)
               \o <<OrSet(Check), OrError(Call)>>
    IN Op("conv2d_int8_q_perc_run", FALSE,
          {"order", "jb", "jn", "host", "shift", "cmul", "cvt", "Mo", "Wp", "Ap", "Cp",
           "qs", "tmp", "tiles", "rband", "cband"},
          <<OrReturn(Check, {}), OrReturn(Check, {}), OrReturn(Check, {}),
            OrSet(Host(always)), OrError(Call)>> \o Maybe(Either(one, PercSeveral)))

QPercPlanChannels ==
    Op("rocket_conv2d_int8_q_perc_plan_channels", FALSE, {"order"},
       <<OrReturn(Check, {}), OrReturn(Host(<<"order">>), {}), OrError(Call)>>)

ConvOps ==
    <<Conv2dOneJob(TRUE), Conv2dOneJob(FALSE), Conv2dFp16Deconv, DwSpatial,
      Conv2dRunPadded, Conv2dRunDw, Conv2dRunDirect, Conv2dActRun,
      Conv2dInt8OneJob(TRUE, TRUE), Conv2dInt8OneJob(FALSE, TRUE),
      Conv2dInt8OneJob(TRUE, FALSE), Conv2dInt8OneJob(FALSE, FALSE),
      Conv2dInt8OneTile, Conv2dInt8BatchTiles, I8Worker, Conv2dInt8Dispatch,
      Conv2dInt8RunPadded, Conv2dInt8Run, Conv2dInt8QEntry,
      Conv2dDwInt8OneJob(TRUE), Conv2dDwInt8OneJob(FALSE), DwInt8Spatial,
      Conv2dDwInt8Run, PercPlanLayer, DwPercPlanChannels, Conv2dDwInt8PercRun,
      Conv2dInt8QPercRun, QPercPlanChannels>>
=============================================================================
