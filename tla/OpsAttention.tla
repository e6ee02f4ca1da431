--------------------------- MODULE OpsAttention ---------------------------
(* Attention (src/src/rocket_attn.c), as operators of OpMachine: the        *)
(* self-attention block and the flash attention, which runs ranges of heads *)
(* on the scratch of a call or of a context.                                *)
EXTENDS OpSteps

MhaSelf ==
    LET own == <<"xp", "q", "k", "v", "ctx", "qh", "kh", "vhT", "sc", "P">>
        head == <<OrError(Call)>> \o Maybe(<<OrError(Call)>>) \o <<OrError(Call)>>
    IN Op("rocket_mha_self_fp16", TRUE, Names(own),
          <<OrReturn(Check, {}), Leave({}), OrGoto(Host(own))>> \o Calls(3)
          \o Loop(head) \o <<OrError(Call), Done>>)

-----------------------------------------------------------------------------
(* Flash attention.                                                         *)

\* `fa_grow(a) || fa_grow(b) || ...': the ones before a failure have grown.
Grown(names, undo) == [i \in 1 .. Len(names) |-> OrReturn(Host(<<names[i]>>), undo)]
Tiles == <<"qh", "kh", "vh", "sc", "P", "ctx", "fm", "fl", "facc">>
Groups == <<"bqh", "bkh", "bsc", "bP", "bvh", "bcx">>
Pointers == <<"pA", "pB", "pC">>

\* Whatever has grown stays with the scratch, failure or not.
FaScratchEnsure == Resident(Op("fa_scratch_ensure", FALSE, {}, Grown(Tiles, {})), Names(Tiles))
\* The score blocks are skipped when a BO holds them.
FaBatchEnsure ==
    Resident(Op("fa_batch_ensure", FALSE, {},
       Grown(<<"bqh", "bkh">>, {}) \o Maybe(Grown(<<"bsc", "bP">>, {}))
       \o Grown(<<"bvh", "bcx">>, {}) \o Maybe(<<OrReturn(Host(Pointers), {})>>)),
       Names(Groups \o Pointers))

\* A BO of rows enters its first run with no dirty line, or not at all.
FaRowsGrow ==
    Resident(Op("fa_rows_grow", FALSE, {},
       <<OrReturn(Ensure("rows"), {}), OrReturn(Bracket("rows"), {"rows"})>>), {"rows"})

\* Groups of heads: scores by one batched job, softmax on the CPU or the part,
\* products by another.
FaHeadsBatched ==
    Op("fa_heads_range_batched", FALSE, {},
       <<OrReturn(Call, {})>>
       \o Loop(<<OrError(Call)>> \o Maybe(<<OrError(Call)>>) \o <<OrSet(Check), OrError(Call)>>))

\* The same with the scores in a BO that the softmax overwrites in place; the
\* path above if there is none.  The CPU's lines go back on every exit, before
\* a refusal is acted on.
FaHeadsBatchedRows ==
    Resident(Op("fa_heads_range_batched", FALSE, {},
       <<OrInstead(Ensure("rows"), {}), OrReturn(Call, {})>>
       \o Loop(<<OrError(Submit({}, <<"rows">>)), OrError(Wait("rows")), Take("rows"),
                 Write("rows"), Fini("rows"), OrSet(Check),
                 OrError(Ensure("products")), OrError(Submit({"rows"}, <<"products">>)), OrError(Wait("products")),
                 Take("products"), Fini("products")>>)), {"rows", "products"})

\* The online softmax over tiles of keys, for contexts too long for one tile.
FaHeadsTiled ==
    Op("fa_heads_range_tiled", FALSE, {},
       Loop(<<OrReturn(Call, {}), OrReturn(Check, {}), OrReturn(Call, {})>>))

\* Tiled; or batched, at half the group again while memory is short; or head
\* by head.
FaHeadsRange ==
    Op("fa_heads_range", FALSE, {},
       Maybe(<<OrReturn(Call, {}), Leave({}), OrSet(Check)>>)
       \o Maybe(Loop(<<OrReturn(Call, {}), Leave({})>>))
       \o Loop(<<OrReturn(Call, {})>> \o Maybe(<<OrReturn(Call, {})>>)
               \o <<OrReturn(Check, {}), OrReturn(Call, {})>>))

FlashAttn ==
    Op("rocket_flash_attn_fp16", FALSE, Names(Tiles),
       <<OrReturn(Check, {}), OrReturn(Check, {}), Leave({})>> \o Grown(Tiles, {"*"})
       \o <<OrError(Call)>>)

\* A worker of the stateless path has a device and a scratch of its own, and
\* what a failed fa_scratch_ensure has grown is not released.
FaMtWorker ==
    Op("fa_mt_worker", FALSE, {"fd"} \cup Names(Tiles),
       Maybe(<<OrReturn(Host(<<"fd">>), {})>> \o Grown(Tiles, {"fd"})) \o <<OrError(Call)>>)

\* Workers' results are looked at when all have been joined.
FaFanHeads == Op("fa_fan_heads", FALSE, {}, Loop(<<Call>>) \o <<OrSet(Check)>>)
FlashAttnMt ==
    Op("rocket_flash_attn_fp16_mt", FALSE, Names(Tiles),
       <<OrReturn(Check, {}), OrReturn(Check, {}), Leave({})>>
       \o Maybe(Grown(Tiles, {"*"})) \o <<OrError(Call)>>)

FaCtxCreate ==
    Keeping(Op("rocket_fa_ctx_create", FALSE, {"c", "fd"},
       <<OrReturn(Host(<<"c">>), {})>> \o Loop(<<OrReturn(Host(<<"fd">>), {"*"})>>)), {"c", "fd"})
FaCtxFree ==
    Consuming(Op("rocket_fa_ctx_free", FALSE, {"c"}, Loop(<<Drop(<<"scratch">>), Drop(<<"fd">>)>>)),
       {"c", "fd", "scratch"})
FlashAttnCtx ==
    Resident(Op("rocket_flash_attn_fp16_ctx", FALSE, {},
       <<OrReturn(Check, {}), OrReturn(Check, {}), OrReturn(Check, {})>>
       \o Loop(Grown(Tiles, {})) \o <<OrError(Call)>>), Names(Tiles))

AttentionOps ==
    <<MhaSelf, FaScratchEnsure, FaBatchEnsure, FaRowsGrow, FaHeadsBatched, FaHeadsBatchedRows,
      FaHeadsTiled, FaHeadsRange, FlashAttn, FaMtWorker, FaFanHeads, FlashAttnMt, FaCtxCreate,
      FaCtxFree, FlashAttnCtx>>
=============================================================================
