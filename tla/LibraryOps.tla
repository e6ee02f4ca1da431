----------------------------- MODULE LibraryOps -----------------------------
(* The operators, contexts and handles of the library, one list of steps   *)
(* per C function.                                                         *)
EXTENDS OpsConv, OpsVision, OpsActivation, OpsNorm, OpsEncoder,
        OpsAttention, OpsMatmul, OpsPrepacked, OpsR76

AllOps ==
    ConvOps \o VisionOps \o ActivationOps \o NormOps \o SamOps \o SiglipOps
        \o ModernbertOps \o AttentionOps \o MatmulOps \o PrepackedOps \o R76Ops
=============================================================================
