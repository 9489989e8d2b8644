------------------------ MODULE PunishmentLedger_proofs ------------------------
(***************************************************************************)
(* Proofs about the abstract punishment ledger: its type, and that BANPK  *)
(* and BANHGT agree (LedgerConsistent) in every reachable state.  The     *)
(* consistency is inductive once it is conjoined with the type: a new     *)
(* block's height tip+1 lies above every existing BANHGT entry, so        *)
(* rebanning a key at it breaks no older entry.                           *)
(***************************************************************************)
EXTENDS PunishmentLedger, TLAPS

LedgerInv == LedgerTypeOK /\ LedgerConsistent

\* A punishment area is a sequence of keys.
LEMMA AreaType ==
    ASSUME LedgerAssumption, NEW area \in Areas
    PROVE  /\ area \in Seq(PubKeys)
           /\ Range(area) \subseteq PubKeys
<1>1. PICK n \in 0 .. MaxArea : area \in [1 .. n -> PubKeys]
  BY DEF Areas
<1>2. area \in Seq(PubKeys)
  BY <1>1 DEF LedgerAssumption
<1>. QED
  BY <1>1, <1>2 DEF Range

LEMMA LedgerInitInv ==
    ASSUME LedgerAssumption
    PROVE  LedgerInit => LedgerInv
BY DEF LedgerAssumption, LedgerInit, LedgerInv, LedgerTypeOK, LedgerConsistent, Heights

LEMMA PendingInv ==
    ASSUME LedgerInv, NEW keys \in SUBSET PubKeys,
           AddPending(keys) \/ DropPending(keys)
    PROVE  LedgerInv'
BY DEF LedgerInv, LedgerTypeOK, LedgerConsistent, AddPending, DropPending

LEMMA BanBlockInv ==
    ASSUME LedgerAssumption, LedgerInv, NEW area \in Areas, BanBlock(area)
    PROVE  LedgerInv'
<1> DEFINE h == tip + 1
<1>1. /\ h \in Heights
      /\ \A x \in DOMAIN banIndex : x < h
      /\ \A k \in PubKeys : banned[k] # NoHeight => banned[k] < h
  BY DEF LedgerAssumption, LedgerInv, LedgerTypeOK, LedgerConsistent, BanBlock, Heights
<1>2. /\ area \in Seq(PubKeys)
      /\ Range(area) \subseteq PubKeys
  BY AreaType
<1>3. banned' = [k \in PubKeys |-> IF k \in Range(area) THEN h ELSE banned[k]]
  BY DEF BanBlock
<1>4. CASE area = <<>>
  <2>1. Range(area) = {}
    BY <1>4 DEF Range
  <2>2. banned' = banned /\ banIndex' = banIndex /\ tip' = h /\ pending' \subseteq pending
    BY <1>3, <1>4, <2>1 DEF BanBlock, LedgerInv, LedgerTypeOK
  <2>. QED
    BY <1>1, <2>2 DEF LedgerInv, LedgerTypeOK, LedgerConsistent, Heights
<1>5. CASE area # <<>>
  <2>1. banIndex' = [x \in DOMAIN banIndex \cup {h} |->
                       IF x = h THEN area ELSE banIndex[x]]
    BY <1>5 DEF BanBlock
  <2>2. LedgerTypeOK'
    BY <1>1, <1>2, <1>3, <2>1 DEF BanBlock, LedgerInv, LedgerTypeOK, Heights
  <2>3. ASSUME NEW k \in PubKeys, banned'[k] # NoHeight
        PROVE  banned'[k] \in DOMAIN banIndex' /\ k \in Range(banIndex'[banned'[k]])
    <3>1. CASE k \in Range(area)
      BY <1>3, <2>1, <3>1
    <3>2. CASE k \notin Range(area)
      <4>1. banned'[k] = banned[k] /\ banned[k] # NoHeight
        BY <1>3, <3>2, <2>3
      <4>2. banned[k] \in DOMAIN banIndex /\ k \in Range(banIndex[banned[k]])
        BY <4>1 DEF LedgerInv, LedgerConsistent
      <4>3. banned[k] # h
        BY <1>1, <4>1 DEF LedgerInv, LedgerTypeOK, Heights
      <4>. QED
        BY <2>1, <4>1, <4>2, <4>3
    <3>. QED
      BY <3>1, <3>2
  <2>4. ASSUME NEW x \in DOMAIN banIndex', NEW k \in Range(banIndex'[x])
        PROVE  banned'[k] \in Nat /\ x <= banned'[k]
    <3>1. k \in PubKeys
      <4>1. banIndex'[x] \in Seq(PubKeys)
        BY <2>2 DEF LedgerTypeOK
      <4>. QED
        BY <4>1 DEF Range
    <3>2. CASE x = h
      <4>1. k \in Range(area)
        BY <2>1, <3>2
      <4>. QED
        BY <1>1, <1>3, <3>1, <3>2, <4>1 DEF Heights
    <3>3. CASE x # h
      <4>1. x \in DOMAIN banIndex /\ k \in Range(banIndex[x])
        BY <2>1, <3>3
      <4>2. banned[k] \in Nat /\ x <= banned[k]
        BY <4>1 DEF LedgerInv, LedgerConsistent
      <4>3. x < h /\ x \in Nat
        BY <1>1, <4>1 DEF LedgerInv, LedgerTypeOK, Heights
      <4>. QED
        BY <1>1, <1>3, <3>1, <4>2, <4>3 DEF Heights
    <3>. QED
      BY <3>2, <3>3
  <2>5. \A x \in DOMAIN banIndex' : x <= tip'
    BY <1>1, <2>1 DEF BanBlock, LedgerInv, LedgerTypeOK, Heights
  <2>. QED
    BY <2>2, <2>3, <2>4, <2>5 DEF LedgerInv, LedgerConsistent
<1>. QED
  BY <1>4, <1>5

LEMMA LedgerNextInv ==
    ASSUME LedgerAssumption
    PROVE  LedgerInv /\ [LedgerNext]_ledgerVars => LedgerInv'
<1> SUFFICES ASSUME LedgerInv, [LedgerNext]_ledgerVars PROVE LedgerInv'
  OBVIOUS
<1>1. CASE \E keys \in SUBSET PubKeys : AddPending(keys) \/ DropPending(keys)
  BY <1>1, PendingInv
<1>2. CASE \E area \in Areas : BanBlock(area)
  BY <1>2, BanBlockInv
<1>3. CASE UNCHANGED ledgerVars
  BY <1>3 DEF LedgerInv, LedgerTypeOK, LedgerConsistent, ledgerVars
<1>. QED
  BY <1>1, <1>2, <1>3 DEF LedgerNext

(***************************************************************************)
(* In every state of the ledger the BANPK and BANHGT tables agree, for    *)
(* every set of keys, height bound and area size that LedgerAssumption    *)
(* admits.                                                                *)
(***************************************************************************)
THEOREM LedgerConsistency ==
    ASSUME LedgerAssumption
    PROVE  LedgerSpec => []LedgerConsistent
<1>1. LedgerSpec => []LedgerInv
  BY LedgerInitInv, LedgerNextInv, PTL DEF LedgerSpec
<1>. QED
  BY <1>1, PTL DEF LedgerInv
=============================================================================
