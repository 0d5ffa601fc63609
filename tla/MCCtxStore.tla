----------------------------- MODULE MCCtxStore -----------------------------
(* Instance of CtxStore for TLC: two keys, two values, two trackers.        *)
EXTENDS CtxStore
=============================================================================
