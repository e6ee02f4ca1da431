---------------------------- MODULE OpsEncoder ----------------------------
(* The transformer block and the encoders of SAM, SigLIP and ModernBERT     *)
(* (src/src/rocket_encoder.c, rocket_sam_encoder.c,                         *)
(* rocket_siglip_encoder.c, rocket_modernbert_encoder.c), as operators of   *)
(* OpMachine.                                                               *)
EXTENDS OpSteps

EncoderBlock ==
    LET own == <<"ln", "attn", "xa", "hp", "f1", "act", "f2">>
    IN Op("rocket_encoder_block_fp16", TRUE, Names(own),
          <<OrReturn(Check, {}), Leave({}), OrReturn(Check, {}), OrGoto(Host(own))>>
          \o Calls(4) \o Either(Calls(1), Calls(4))
          \o <<OrSet(Host(<<"f2c">>)), OrReturn(Call, Names(own) \cup {"f2c"}), Drop(<<"f2c">>),
               Done>>)

-----------------------------------------------------------------------------
(* SAM.                                                                     *)
Scratch == <<"hw", "qkv", "ctxf", "ip", "jp">>
HeadScratch ==
    <<"qh", "kh", "vh", "khp", "vtp", "sc", "outh", "relh", "relw", "qcol", "blk">>

SamNeck ==
    Op("sam_neck", TRUE, {"y1", "ncw", "ln", "c2"},
       <<OrGoto(Host(<<"y1", "ncw", "ln", "c2">>)), OrGoto(Call), OrGoto(Call), Done>>)

\* One layer.  A windowed layer gathers its heads in a buffer of its own, a
\* global one in the scratch's; attend is the loop over windows and heads.
LayerAround(name, attend) ==
    LET ln == {"ln", "y"}
    IN Op(name, TRUE, ln,
          <<OrReturn(Host(<<"ln", "y">>), ln), OrGoto(Call)>> \o attend
          \o <<OrGoto(Call), OrGoto(Call), OrGoto(Call), Done>>)

SamAttend(windowed) ==
    LET cc == IF windowed THEN <<"cc">> ELSE << >>
        failing(s, names) == [OrGoto(s) EXCEPT !.undo = {"ln", "y"} \cup Names(names)]
    IN <<failing(Host(HeadScratch), HeadScratch)>>
       \o (IF windowed THEN <<failing(Host(cc), HeadScratch)>> ELSE << >>)
       \o Loop(<<failing(Call, cc \o HeadScratch)>>)
       \o <<Drop(HeadScratch)>> \o (IF windowed THEN <<Drop(cc)>> ELSE << >>)
SamLayer(windowed) == LayerAround("sam_layer", SamAttend(windowed))

SamEncode ==
    Op("rocket_sam_encode", TRUE, {"patches", "x"} \cup Names(Scratch),
       <<OrReturn(Check, {}), OrReturn(Host(Scratch), Names(Scratch)),
         OrGoto(Host(<<"patches", "x">>)), OrGoto(Call)>>
       \o Loop(<<OrError(Call)>>) \o <<OrError(Call)>>)

\* The resident encoder: everything it made so far goes with rocket_sam_ctx_free.
SamCtxCreate ==
    LET streams == <<"strm">> \o HeadScratch
        layer == <<"wqkv", "wo", "wf1", "wf2">>
        all == {"c", "cw", "aux_fd", "w_patch", "w_neck_c1"} \cup Names(streams \o layer)
        orFail(s) == OrReturn(s, {"*"})
    IN Keeping(Op("rocket_sam_ctx_create", FALSE, all,
         <<OrReturn(Check, {}), OrReturn(Host(<<"c">>), {}), orFail(Host(<<"cw", "aux_fd">>))>>
         \o Loop(<<orFail(Host(<<"strm">>)), orFail(Host(HeadScratch))>>)
         \o <<orFail(Host(<<"w_patch", "w_neck_c1">>))>>
         \o Loop(<<orFail(Host(layer))>>)), all)

\* A worker's share of the heads; the caller looks at a->rc after the join.
SamAttnWorker == Op("sam_attn_worker", FALSE, {}, Loop(<<OrSet(Call)>>))

\* The workers' results are looked at together.
CtxAttend(windowed) ==
    IF windowed
    THEN <<OrGoto(Host(<<"cc">>)), [OrGoto(Call) EXCEPT !.undo = {"ln", "y", "cc"}],
           Drop(<<"cc">>)>>
    ELSE <<OrGoto(Call)>>
CtxLayer(windowed) == LayerAround("ctx_layer", CtxAttend(windowed))

\* The resident run; the neck is part of it.
SamEncodeCtx ==
    LET own == <<"patches", "x", "y1", "ncw", "nln", "c2">>
    IN Op("rocket_sam_encode_ctx", TRUE, Names(own \o Scratch),
          <<OrReturn(Check, {}), OrReturn(Host(Scratch), Names(Scratch)), OrGoto(Host(own)),
            OrGoto(Call)>>
          \o Loop(<<OrError(Call)>>) \o <<OrGoto(Call), OrGoto(Call), Done>>)

-----------------------------------------------------------------------------
(* SigLIP and CLIP towers.                                                  *)

SiglipEncode ==
    LET own == <<"patches", "xa", "xb">>
    IN Op("rocket_siglip_encode", TRUE, Names(own),
          <<OrReturn(Check, {}), OrReturn(Check, {}), OrGoto(Host(own))>>
          \o Maybe(<<OrError(Call)>>) \o Loop(<<OrError(Call)>>) \o <<OrError(Call)>>)

\* Streamed if the context can, one-shot on a second device otherwise.
Cmatmul == Op("cmatmul", FALSE, {}, <<OrInstead(Call, {})>>)

\* The resident tower; rocket_siglip_ctx_free undoes any prefix of this.
SiglipCtxCreate ==
    LET handles == <<"mm", "strm", "aux_fd", "wq", "wk", "wv", "wo", "wf1", "wf2">>
        layer == <<"wq_l", "wk_l", "wv_l", "wo_l", "wf1_l", "wf2_l">>
        rows == <<"patches", "xp", "x", "ln", "q", "k", "v", "cc", "y">>
        flash == <<"Qh", "Kh", "Vh", "Oh">>
        plain == <<"qh", "khh", "vhT", "sc">>
        all == {"c", "w_patch", "fa"} \cup Names(handles \o layer \o rows \o flash \o plain)
        orFail(s) == OrReturn(s, {"*"})
    IN Keeping(Op("rocket_siglip_ctx_create", FALSE, all,
         <<OrReturn(Check, {}), OrReturn(Host(<<"c">>), {}), orFail(Check),
           orFail(Host(handles)), orFail(Host(<<"w_patch">>))>>
         \o Loop(<<orFail(Host(layer))>>)
         \o Either(<<Host(<<"fa">>), orFail(Host(rows)), orFail(Host(flash))>>,
                   <<orFail(Host(rows)), orFail(Host(plain))>>)), all)

\* Attention of a layer: one flash pass, or scores and products head by head.
SiglipAttend ==
    Either(<<OrError(Call)>>, Loop(<<OrError(Call)>>) \o Loop(<<OrError(Call)>>))
\* Output projection and MLP of a layer.
SiglipMlp == Calls(3)
SiglipEncodeCtx ==
    Op("rocket_siglip_encode_ctx", TRUE, {},
       <<OrReturn(Check, {}), OrError(Call)>>
       \o Loop(Calls(3) \o SiglipAttend \o SiglipMlp) \o <<Done>>)

-----------------------------------------------------------------------------
(* ModernBERT.  The working buffers hang off the context and only grow.     *)

\* `free' each of the context's blocks and allocate it larger.
Regrow(names) == Maybe(<<Drop(names), OrReturn(Host(names), {})>>)

Gemm == Op("gemm", FALSE, {}, Either(<<OrReturn(Call, {})>>, Maybe(<<OrReturn(Check, {})>>)))

\* The window's tiles as items of one flash-attention call.
BandCall ==
    Resident(Op("band_call", FALSE, {},
       Regrow(<<"bQ", "bK", "bV", "bO">>) \o Regrow(<<"bmask">>) \o <<OrReturn(Call, {})>>),
       {"bQ", "bK", "bV", "bO", "bmask"})
\* The first tile, the whole tiles together, the rest.
BandAttend ==
    Op("band_attend", FALSE, {},
       <<OrReturn(Call, {})>> \o Maybe(<<OrReturn(Call, {})>>) \o Maybe(<<OrError(Call)>>))
MbAttend ==
    Op("attend", FALSE, {},
       Maybe(<<OrReturn(Call, {})>>) \o <<Leave({})>>
       \o Maybe(<<OrReturn(Call, {}), Leave({})>>) \o <<OrReturn(Call, {})>>)

\* A host context is complete at once; the other packs the weights of every
\* layer.
MbCtxCreate ==
    LET layer == <<"qkv", "o", "up", "down">>
        all == {"c", "w", "mm", "fa"} \cup Names(layer)
        orFail(s) == OrReturn(s, {"*"})
    IN Keeping(Op("rocket_modernbert_ctx_create", FALSE, all,
         <<OrReturn(Check, {}), OrReturn(Host(<<"c">>), {}), Leave({}),
           orFail(Host(<<"w", "mm", "fa">>))>>
         \o Loop(<<orFail(Host(layer))>>) \o Loop(<<orFail(Host(layer))>>)), all)

MbGrow ==
    LET rows == <<"x", "p", "a16", "c16", "cc">>
        heads == <<"Qh", "Kh", "Vh", "Oh", "Qf", "Kf", "Vf", "mask">>
    IN Resident(Op("grow", FALSE, {}, Regrow(rows) \o Regrow(heads)), Names(rows \o heads))

\* A result that is not finite is tried again at a smaller scale, and given up
\* after so many times.
DownProj ==
    Op("down_proj", FALSE, {},
       <<OrReturn(Call, {}), Leave({}), [Step("again", << >>) EXCEPT !.jump = {2}],
         OrSet(Check)>>)

\* The layers of the model and those behind it take the same calls: attention
\* row by row, its output checked for finiteness, and the MLP.
MbBody == Loop(<<OrError(Call)>>) \o Calls(1) \o <<OrSet(Check)>> \o Calls(2)
MbLayer == Calls(1) \o MbBody
MbPostLayer == Calls(1) \o MbBody
MbEncode ==
    Op("rocket_modernbert_encode", FALSE, {"off"},
       <<OrReturn(Check, {}), OrReturn(Host(<<"off">>), {}), OrReturn(Check, {"off"}),
         OrReturn(Call, {"off"})>>
       \o Loop(MbLayer) \o Maybe(Loop(MbPostLayer)) \o <<Done>>)

SamOps ==
    <<EncoderBlock, SamNeck, SamLayer(TRUE), SamLayer(FALSE), SamEncode, SamEncodeCtx,
      SamCtxCreate, SamAttnWorker, CtxLayer(TRUE), CtxLayer(FALSE)>>
SiglipOps == <<SiglipEncode, Cmatmul, SiglipCtxCreate, SiglipEncodeCtx>>
ModernbertOps ==
    <<Gemm, BandCall, BandAttend, MbAttend, MbCtxCreate, MbGrow, DownProj, MbEncode>>
=============================================================================
