------------------------- MODULE MC_PunishmentStore -------------------------
(***************************************************************************)
(* A small instance of PunishmentStore for TLC: two fault keys of a valid *)
(* length and one of an invalid length, blocks at heights 1 and 2 with up *)
(* to two punishments each, so that a key can be banned twice, appear     *)
(* twice in one area, and fail after an earlier key was already written.  *)
(***************************************************************************)
EXTENDS PunishmentStore

CONSTANTS k1, k2, kBad

MCPubKeys == {k1, k2, kBad}
MCValidKeys == {k1, k2}
=============================================================================
