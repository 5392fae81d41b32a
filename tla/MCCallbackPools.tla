-------------------------- MODULE MCCallbackPools --------------------------
(* Small instances of CallbackPools for TLC.                                *)
EXTENDS CallbackPools

CONSTANTS i1, i2, h1, h2, w1, w2, t1
=============================================================================
