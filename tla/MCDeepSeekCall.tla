--------------------------- MODULE MCDeepSeekCall ---------------------------
(* DeepSeekCall for TLC.                                                   *)
EXTENDS DeepSeekCall
=============================================================================
