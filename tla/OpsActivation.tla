--------------------------- MODULE OpsActivation ---------------------------
(* The activations and elementwise operators of src/src/rocket_activation.c *)
(* as operators of OpMachine.                                               *)
EXTENDS OpSteps

\* A vector through the lookup table of the DPU, a chunk at a time over one
\* set of BOs.
RunDpuLut ==
    Op("run_dpu_lut", TRUE, {"guard", "in", "out", "rc"},
       <<OrGoto(Alloc(<<"guard", "in", "out", "rc">>)), OrGoto(Check)>>
       \o Loop(<<Put("in"), OrGoto(Check), Put("out")>> \o SubmitOne({"in"}, "out")
               \o <<Take("out"), Fini("out")>>)
       \o <<Done>>)

\* x * gate(x): the gate runs as an activation, the product on either side.
ActivationGated ==
    Op("rocket_activation_fp16", FALSE, {"g"},
       <<OrReturn(Check, {}), OrReturn(Host(<<"g">>), {}), OrError(Call)>>
       \o Maybe(<<OrError(Call)>>))
ActivationPlain ==
    Op("rocket_activation_fp16", FALSE, {},
       <<OrReturn(Check, {}), OrReturn(Check, {}), OrReturn(Check, {}), OrReturn(Call, {})>>)
LeakyRelu ==
    Op("rocket_leaky_relu_fp16", FALSE, {},
       <<OrReturn(Check, {}), OrReturn(Check, {}), OrReturn(Call, {})>>)
EluRun ==
    Op("elu_run", FALSE, {}, <<OrReturn(Check, {}), OrReturn(Check, {}), OrReturn(Call, {})>>)

\* An identity matmul feeds `a' to the elementwise unit, which meets `b' there.
EwBinary ==
    Op("ew_binary_fp16", TRUE, {"wt", "in", "operand", "out", "rc"},
       <<OrReturn(Check, {}), OrGoto(Alloc(<<"wt", "in", "operand", "out", "rc">>)),
         OrGoto(Check), Put("wt")>>
       \o Loop(<<Put("in"), Put("operand"), Put("out"), OrGoto(Check)>>
               \o SubmitOne({"in", "wt", "operand"}, "out") \o <<Take("out"), Fini("out")>>)
       \o <<Done>>)

Clip ==
    Op("rocket_clip_fp16", FALSE, {"cst"},
       <<OrReturn(Check, {}), Leave({}), OrReturn(Host(<<"cst">>), {}), OrError(Call),
         OrError(Call)>>)

\* Two passes when every slope lies in [0, 1], four otherwise.
Prelu ==
    Op("rocket_prelu_fp16", FALSE, {"ab", "s", "z"},
       <<OrReturn(Check, {}), Leave({}), OrReturn(Host(<<"ab", "s">>), {"ab", "s"})>>
       \o Either(<<OrError(Call), OrError(Call)>>,
                 <<OrReturn(Host(<<"z">>), {"ab", "s"}), OrError(Call), OrError(Call),
                   OrError(Call), OrError(Call)>>))

EwDiv ==
    Op("rocket_ew_div_fp16", FALSE, {"recip"},
       <<OrReturn(Check, {}), Leave({}), OrReturn(Host(<<"recip">>), {}), OrError(Call),
         OrError(Call)>>)

ActivationOps ==
    <<RunDpuLut, ActivationGated, ActivationPlain, LeakyRelu, EluRun, EwBinary, Clip, Prelu,
      EwDiv>>
=============================================================================
