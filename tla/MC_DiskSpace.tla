----------------------------- MODULE MC_DiskSpace -----------------------------
(***************************************************************************)
(* CheckDiskSpaceWin with 5-bit words: int64 spans -16 .. 15.  The       *)
(* reserve is 3, so requests near the top of the range wrap the sum.      *)
(***************************************************************************)
EXTENDS DiskSpace

MCWidth == 5
MCMinDiskSpace == 3

\* The requests a caller can make without overflowing the signed sum.
MCSafeRequests == 0 .. (2 ^ (MCWidth - 1) - 1) - MCMinDiskSpace

\* Every uint64 request.
MCAllRequests == 0 .. 2 ^ MCWidth - 1
=============================================================================
