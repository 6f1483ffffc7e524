----------------------------- MODULE MCRetryEvents -----------------------------
(***************************************************************************)
(* Small instances of RetryEvents. Workers are interchangeable.            *)
(***************************************************************************)
EXTENDS RetryEvents, TLC

CONSTANTS a, b, c, w1, w2

OneRequest  == {{a, b}}
TwoRequests == {{a, b}, {c}}

WorkerSymmetry == Permutations({w1, w2})
================================================================================
