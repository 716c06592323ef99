----------------------------- MODULE MCServing -----------------------------
(***************************************************************************)
(* Small instances of MultimodalCore: up to three clients of which the     *)
(* third is not compatible with the first two and fills a batch by itself, *)
(* and batches of two.                                                     *)
(***************************************************************************)
EXTENDS MultimodalCore, TLC

CONSTANTS c1, c2, c3

MCKey         == c1 :> "a" @@ c2 :> "a" @@ c3 :> "b"
MCTextTokens  == c1 :> 1   @@ c2 :> 1   @@ c3 :> 2
MCImageTokens == c1 :> 1   @@ c2 :> 1   @@ c3 :> 1
MCImages      == c1 :> 1   @@ c2 :> 1   @@ c3 :> 1
=============================================================================
