---------------------------- MODULE MC_FrozenPeriod ----------------------------
(* FrozenPeriod with 7-bit words: every int64 value, MaxInt64 included. *)
EXTENDS FrozenPeriod

MCWidth == 7
=============================================================================
