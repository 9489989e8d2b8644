---------------------------- MODULE MC_ChainConfig ----------------------------
(***************************************************************************)
(* Instances of ChainConfig for TLC.  Networks are numbered; the standard *)
(* ones have their own HD key magics and lower-case hrps, as ChainParams  *)
(* has ("ms", xprv/xpub).                                                 *)
(***************************************************************************)
EXTENDS ChainConfig

MCAddrIDs == {0, 5}
MCHDKeyIDs == 1 .. 8
MCShortKeyIDs == {100}
MCWords == {"ms", "t"}
MCDefaultBody == "genesis"
MCNoChainID == "zero"

\* Standard networks: net i has HD private magic i and public magic 9 - i.
MCNet(i, pkh, word, upper, hdPriv) ==
    [pkh |-> pkh, sh |-> 5 - pkh, hdPriv |-> hdPriv, hdPub |-> 9 - i,
     hrp |-> [word |-> word, upper |-> upper]]

MCNets == {MCNet(i, (i % 2) * 5, IF i < 4 THEN "ms" ELSE "t", FALSE, i) : i \in 1 .. 8}
MCMainNet == MCNet(1, 5, "ms", FALSE, 1)

\* The standard networks satisfy the hypothesis of the registry theorems.
ASSUME MCStandardNets == StandardNets(MCNets)

\* A mock chain with a genesis block of its own.
MCMockBodies == {"genesis", "mock"}
=============================================================================
