------------------------------ MODULE OpsNorm ------------------------------
(* Norms, softmax and the feed-forward blocks (src/src/rocket_norm.c,       *)
(* rocket_normvision.c, rocket_softmax.c, rocket_ffn.c), as operators of    *)
(* OpMachine.  The host reference of fd < 0 is the Leave step.              *)
EXTENDS OpSteps

\* All of these: refuse the shape, run on the host, allocate every block and
\* test them together, then n calls, each only after the one before.
Staged(name, checks, blocks, n) ==
    Op(name, TRUE, Names(blocks),
       <<OrReturn(Check, {}), Leave({})>> \o checks \o <<OrGoto(Host(blocks))>> \o Calls(n))

Bounded == <<OrReturn(Check, {})>>      \* `> INT_MAX'

\* The squares of large inputs are taken of a scaled copy.
Prescaled(o) ==
    [o EXCEPT !.exit = @ \cup {"xs_buf"},
              !.steps = SubSeq(@, 1, 2) \o Maybe(<<OrGoto(Host(<<"xs_buf">>))>>)
                        \o SubSeq(@, 3, Len(@))]

ScaleRows ==
    Op("rocket_scale_rows_fp16", FALSE, {"rb"},
       <<OrReturn(Check, {}), Leave({}), OrReturn(Check, {}), OrReturn(Host(<<"rb">>), {}),
         OrError(Call)>>)

RmsNorm ==
    LET o == Staged("rocket_rmsnorm_fp16", << >>, <<"sq", "ms", "rrow", "s">>, 3)
    IN [Prescaled(o) EXCEPT !.steps = SubSeq(@, 1, 2) \o Bounded \o SubSeq(@, 3, Len(@))]
LayerNorm ==
    LET o == Staged("rocket_layernorm_fp16", << >>,
                    <<"sq", "stack", "csum", "mean", "rrow", "A", "B", "tmp">>, 4)
    IN [Prescaled(o) EXCEPT !.steps = SubSeq(@, 1, 2) \o Bounded \o SubSeq(@, 3, Len(@))]
BatchNorm == Staged("rocket_batchnorm_fp16", << >>, <<"A", "B", "tmp">>, 2)
GroupNorm ==
    Prescaled(Staged("rocket_groupnorm_fp16", << >>,
                     <<"sq", "stack", "csum", "meanv", "rinv", "A", "B", "tmp">>, 4))
L2Norm == Prescaled(Staged("rocket_l2norm_fp16", << >>, <<"sq", "ss", "r">>, 3))

Softmax == Staged("rocket_softmax_fp16", Bounded, <<"xs", "e", "s", "inv">>, 3)
LogSoftmax == Staged("rocket_logsoftmax_fp16", Bounded, <<"xs", "e", "lsb", "s">>, 3)
CrossEntropy ==
    LET o == Staged("rocket_cross_entropy_fp16", Bounded, <<"xs", "e", "s", "rmx">>, 2)
    IN [o EXCEPT !.steps = @ \o <<Done>>]

-----------------------------------------------------------------------------
(* Feed-forward: act(x Wg) * (x Wu), times Wd.                              *)

Geglu ==
    Op("rocket_geglu_fp16", FALSE, {"act_g"},
       <<OrReturn(Check, {}), Leave({}), OrReturn(Host(<<"act_g">>), {})>> \o Calls(2))

Ffn ==
    Op("rocket_ffn_fp16", TRUE, {"gate", "up", "prod"},
       <<OrReturn(Check, {}), OrReturn(Check, {}), Leave({}),
         OrGoto(Host(<<"gate", "up", "prod">>))>> \o Calls(4))

\* A matmul into a cube that stays on the device (mm_compute_kacc_cube): submit,
\* wait, close the bracket, and open it again, and leave it open, for the CPU.
IntoCube(set, cube) ==
    <<Bracket(cube), OrInstead(Submit({set}, <<cube>>), {"*"}),
      OrInstead(Wait(cube), {"*"}), Fini(cube), Wait(cube)>>

\* An operator of the library over the cube's own memory, read and written
\* through the CPU mapping.
InPlace(look, cube) == <<look, OrError(Call), Write(cube)>>

\* The cube is prepared once more over what the CPU wrote, handed over, and
\* read by the next matmul in place of its own input.
FromCube(cube, set) ==
    <<Bracket(cube), Put(set), OrError(Submit({set, cube}, <<set>>)), OrError(Wait(set)),
      Take(set), Fini(set)>>

FfnFused ==
    LET own == {"bg", "bu", "bd", "cube_g", "cube_u"}
    IN Op("rocket_ffn_fp16_fused", TRUE, own,
          <<OrReturn(Check, {}), OrReturn(Check, {}), Leave({}), OrInstead(Check, {}),
            OrInstead(Check, {}), OrInstead(Alloc(<<"bg">>), {"*"}),
            OrInstead(Alloc(<<"bu">>), {"*"}), OrInstead(Alloc(<<"bd">>), {"*"}),
            OrInstead(Alloc(<<"cube_g">>), {"*"}), OrInstead(Alloc(<<"cube_u">>), {"*"})>>
          \o <<Put("bg"), Put("bu")>> \o IntoCube("bg", "cube_g") \o IntoCube("bu", "cube_u")
          \o InPlace(Take("cube_g"), "cube_g")
          \o <<Take("cube_u")>> \o InPlace(Reread("cube_g"), "cube_g")
          \o FromCube("cube_g", "bd"))

MlpHandoff ==
    Op("mlp_host_handoff", TRUE, {"f1", "act"},
       <<OrReturn(Host(<<"f1", "act">>), {"f1", "act"}), Leave({"*"})>> \o Calls(3))

MlpFused ==
    Op("rocket_mlp_fp16_fused", TRUE, {"b1m", "b2m", "cube", "bias_cube"},
       <<OrReturn(Check, {}), OrReturn(Check, {}), OrInstead(Check, {}), OrInstead(Check, {}),
         OrInstead(Alloc(<<"b1m">>), {"*"}), OrInstead(Alloc(<<"b2m">>), {"*"}),
         OrInstead(Alloc(<<"cube">>), {"*"})>>
       \o <<Put("b1m")>> \o IntoCube("b1m", "cube")
       \o Maybe(<<OrInstead(Host(<<"bias_cube">>), {"*"})>> \o InPlace(Take("cube"), "cube"))
       \o InPlace(Reread("cube"), "cube") \o FromCube("cube", "b2m"))

FusedOps == <<FfnFused, MlpFused>>
NormOps ==
    <<ScaleRows, RmsNorm, LayerNorm, BatchNorm, GroupNorm, L2Norm, Softmax, LogSoftmax,
      CrossEntropy, Geglu, Ffn, MlpHandoff>> \o FusedOps
=============================================================================
