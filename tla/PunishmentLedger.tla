--------------------------- MODULE PunishmentLedger ---------------------------
(***************************************************************************)
(* What the punishment tables of the chain database promise, with every   *)
(* operation atomic.  Three tables are kept:                              *)
(*   PUNISH  the fault public keys waiting to be included in a block      *)
(*           (pending),                                                   *)
(*   BANPK   the height at which each fault key was banned (banned),      *)
(*   BANHGT  for each height, the list of keys banned by its block        *)
(*           (banIndex, defined only at heights that banned some key).    *)
(* A block at height tip+1 bans every key of its punishment area at once  *)
(* or, when any part of the write fails, changes nothing.  PunishmentStore *)
(* refines this specification.                                            *)
(***************************************************************************)
EXTENDS Naturals, Sequences, Functions

CONSTANTS
    PubKeys,     \* fault public keys
    ValidKeys,   \* the keys whose compressed form has a length the table accepts
    MaxHeight,   \* the last height a block may be connected at
    MaxArea,     \* the most fault keys one block's punishment area holds
    NoHeight     \* BANPK has no entry for the key

\* What the theorems assume of the constants (PunishmentStore's instance
\* gives them from StoreAssumption).
LedgerAssumption ==
    /\ ValidKeys \subseteq PubKeys
    /\ MaxHeight \in Nat
    /\ MaxArea \in Nat
    /\ NoHeight \notin Nat

Heights == 1 .. MaxHeight

\* The punishment areas a block may carry.
Areas == UNION {[1 .. n -> PubKeys] : n \in 0 .. MaxArea}

VARIABLES pending, banned, banIndex, tip

ledgerVars == <<pending, banned, banIndex, tip>>

LedgerTypeOK ==
    /\ pending \subseteq ValidKeys
    /\ banned \in [PubKeys -> Heights \cup {NoHeight}]
    /\ DOMAIN banIndex \subseteq Heights
    /\ \A h \in DOMAIN banIndex : banIndex[h] \in Seq(PubKeys)
    /\ tip \in 0 .. MaxHeight

LedgerInit ==
    /\ pending = {}
    /\ banned = [k \in PubKeys |-> NoHeight]
    /\ banIndex = [h \in {} |-> <<>>]
    /\ tip = 0

\* A single key, or a list of keys, joins or leaves the pending table.
AddPending(keys) ==
    /\ keys \subseteq ValidKeys
    /\ pending' = pending \cup keys
    /\ UNCHANGED <<banned, banIndex, tip>>

DropPending(keys) ==
    /\ keys \subseteq ValidKeys
    /\ pending' = pending \ keys
    /\ UNCHANGED <<banned, banIndex, tip>>

\* The block at height tip+1 bans every key of its punishment area.
BanBlock(area) ==
    LET h == tip + 1 IN
    /\ tip < MaxHeight
    /\ Range(area) \subseteq ValidKeys
    /\ banned' = [k \in PubKeys |-> IF k \in Range(area) THEN h ELSE banned[k]]
    /\ pending' = pending \ Range(area)
    /\ banIndex' = IF area = <<>> THEN banIndex
                   ELSE [x \in DOMAIN banIndex \cup {h} |->
                           IF x = h THEN area ELSE banIndex[x]]
    /\ tip' = h

LedgerNext ==
    \/ \E keys \in SUBSET PubKeys : AddPending(keys) \/ DropPending(keys)
    \/ \E area \in Areas : BanBlock(area)

LedgerSpec == LedgerInit /\ [][LedgerNext]_ledgerVars

(***************************************************************************)
(* The BANPK and BANHGT tables agree: a banned key is listed under the    *)
(* height BANPK gives for it, and a key listed under a height was banned  *)
(* there or later (a later block may ban it again).                      *)
(***************************************************************************)
LedgerConsistent ==
    /\ \A k \in PubKeys : banned[k] # NoHeight =>
           /\ banned[k] \in DOMAIN banIndex
           /\ k \in Range(banIndex[banned[k]])
    /\ \A h \in DOMAIN banIndex :
           /\ h <= tip
           /\ \A k \in Range(banIndex[h]) : banned[k] \in Nat /\ h <= banned[k]
=============================================================================
