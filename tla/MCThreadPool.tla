---------------------------- MODULE MCThreadPool ----------------------------
(* Small instances of ThreadPool. *)
EXTENDS ThreadPool, TLC

CONSTANTS p1, p2, w1, w2, w3
=============================================================================
