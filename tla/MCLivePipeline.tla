--------------------------- MODULE MCLivePipeline ---------------------------
(* Block 3 creates and cancels the same order, block 2 cancels an older one. *)
EXTENDS LivePipeline, TLC

MCCancels == 1 :> 0 @@ 2 :> 1 @@ 3 :> 3
=============================================================================
