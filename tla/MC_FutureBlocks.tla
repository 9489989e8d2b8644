---------------------------- MODULE MC_FutureBlocks ----------------------------
(* Batches of up to 3 blocks, timestamps and clock readings 0 .. 5 s. *)
EXTENDS FutureBlocks

MCTolerance == 3
MCMaxClock == 5
MCMaxBlocks == 3
=============================================================================
