----------------------------- MODULE MCMessager -----------------------------
(***************************************************************************)
(* Small instances of Messager: connections with room for a line and a half.  *)
(***************************************************************************)
EXTENDS Messager, TLC

CONSTANTS alice, bob, carol

TwoTalkers == (alice :> 2) @@ (bob :> 1) @@ (carol :> 0)
OneEach == (alice :> 3) @@ (bob :> 1)
=============================================================================
