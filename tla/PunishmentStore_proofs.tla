------------------------ MODULE PunishmentStore_proofs ------------------------
(***************************************************************************)
(* The batched punishment store implements the atomic ledger:            *)
(* Spec => Ledger!LedgerSpec.  Building and dropping a batch leave the    *)
(* tables alone and map to stuttering steps; a committed batch maps to    *)
(* one ledger operation.  That needs BatchOK: a batch whose helper        *)
(* returned nil holds exactly the writes of that operation (every key of  *)
(* the area banned at tip+1, deleted from PUNISH and listed in BANHGT),   *)
(* and nothing of a helper that failed half way can reach the tables.     *)
(***************************************************************************)
EXTENDS PunishmentStore, TLAPS

\* What a batch holds once its helper returned nil.
BatchOK ==
    /\ batch.kind = "block" /\ batch.err = NoErr =>
           /\ tip < MaxHeight /\ batch.h = tip + 1
           /\ Range(batch.area) \subseteq ValidKeys
           /\ batch.bans = Range(batch.area) /\ batch.dels = Range(batch.area)
           /\ batch.puts = {} /\ batch.hgtPut = (batch.area # <<>>)
    /\ batch.kind = "insert" /\ batch.err = NoErr =>
           /\ batch.puts \subseteq ValidKeys
           /\ batch.dels = {} /\ batch.bans = {} /\ ~batch.hgtPut
    /\ batch.kind = "drop" /\ batch.err = NoErr =>
           /\ batch.dels \subseteq ValidKeys
           /\ batch.puts = {} /\ batch.bans = {} /\ ~batch.hgtPut

SInv == TypeOK /\ BatchOK

LEMMA AreaFacts ==
    ASSUME NEW area \in Areas
    PROVE  /\ area \in Seq(PubKeys)
           /\ Range(area) \subseteq PubKeys
<1>1. PICK n \in 0 .. MaxArea : area \in [1 .. n -> PubKeys]
  BY DEF Areas
<1>. QED
  BY <1>1, StoreAssumption DEF Range

\* What insertBlockPunishments leaves in the batch r for area at height h.
BlockOK(r, h, area) ==
    /\ r \in Batches
    /\ r.kind = "block" /\ r.h = h /\ r.area = area
    /\ r.err = NoErr =>
           /\ Range(area) \subseteq ValidKeys
           /\ r.bans = Range(area) /\ r.dels = Range(area)
           /\ r.puts = {} /\ r.hgtPut = (area # <<>>)

LEMMA BlockBatchOK ==
    ASSUME NEW h \in 1 .. MaxHeight, NEW area \in Areas,
           NEW broken \in SUBSET PubKeys, NEW pf \in BOOLEAN
    PROVE  BlockOK(InsertBlockPunishments(h, area, broken, pf), h, area)
<1> DEFINE bad == broken \cup InvalidKeys
<1> DEFINE r == InsertBlockPunishments(h, area, broken, pf)
<1>1. area \in Seq(PubKeys) /\ Range(area) \subseteq PubKeys
  BY AreaFacts
<1>2. Done(area, bad) \subseteq PubKeys /\ {area[i] : i \in StopAt(area, bad)} \subseteq PubKeys
  BY <1>1 DEF Done, StopAt
<1>3. r \in Batches /\ r.kind = "block" /\ r.h = h /\ r.area = area
  BY <1>2, StoreAssumption DEF r, InsertBlockPunishments, Batches, Errors, NoErr
<1>4. ASSUME r.err = NoErr
      PROVE  /\ Range(area) \subseteq ValidKeys
             /\ r.bans = Range(area) /\ r.dels = Range(area)
             /\ r.puts = {} /\ r.hgtPut = (area # <<>>)
  <2>1. Clean(area, bad) /\ ~(Len(area) > 0 /\ pf)
    BY <1>4 DEF r, InsertBlockPunishments, NoErr
  <2>2. Range(area) \subseteq ValidKeys
    BY <1>1, <2>1 DEF Clean, bad, Range, InvalidKeys, PunishmentKeyOk
  <2>3. Done(area, bad) = Range(area) /\ StopAt(area, bad) = {}
    BY <1>1, <2>1 DEF Done, StopAt, Clean, bad, Range
  <2>4. (area # <<>>) = (Len(area) > 0)
    BY <1>1
  <2>. QED
    BY <2>1, <2>2, <2>3, <2>4 DEF r, InsertBlockPunishments
<1>. QED
  BY <1>3, <1>4 DEF r, BlockOK

LEMMA InsertBatchOK ==
    ASSUME NEW list \in Areas, NEW broken \in SUBSET PubKeys
    PROVE  LET r == InsertPunishments(list, broken) IN
           /\ r \in Batches /\ r.kind = "insert"
           /\ r.puts \subseteq ValidKeys
           /\ r.dels = {} /\ r.bans = {} /\ ~r.hgtPut
<1>1. list \in Seq(PubKeys)
  BY AreaFacts
<1>2. /\ Done(list, InvalidKeys \cup broken) \subseteq ValidKeys
      /\ Done(list, InvalidKeys \cup broken) \subseteq PubKeys
  BY <1>1, StoreAssumption DEF Done, InvalidKeys, PunishmentKeyOk
<1>3. <<>> \in Areas /\ MaxHeight \in Nat
  BY StoreAssumption DEF Areas
<1>4. InsertErr(list, InvalidKeys \cup broken) \in Errors
  BY DEF InsertErr, Errors, NoErr
<1>. QED
  BY <1>2, <1>3, <1>4 DEF InsertPunishments, Batches, InvalidKeys, PunishmentKeyOk

LEMMA DropBatchOK ==
    ASSUME NEW list \in Areas
    PROVE  LET r == DropPunishments(list) IN
           /\ r \in Batches /\ r.kind = "drop"
           /\ r.dels \subseteq ValidKeys
           /\ r.puts = {} /\ r.bans = {} /\ ~r.hgtPut
<1>1. list \in Seq(PubKeys)
  BY AreaFacts
<1>2. Done(list, InvalidKeys) \subseteq ValidKeys
  BY <1>1 DEF Done, InvalidKeys, PunishmentKeyOk
<1>3. <<>> \in Areas
  BY StoreAssumption DEF Areas
<1>. QED
  BY <1>2, <1>3, StoreAssumption DEF DropPunishments, Batches, Errors, NoErr

LEMMA InitSInv == Init => SInv
BY StoreAssumption DEF Init, SInv, TypeOK, BatchOK, Batches, NoBatch, Errors, NoErr, Areas, Heights

LEMMA NoBatchOK == NoBatch \in Batches
BY StoreAssumption DEF NoBatch, Batches, Errors, NoErr, Areas

\* What a commit writes, for each kind of batch.
LEMMA CommitCases ==
    ASSUME SInv, Commit
    PROVE  /\ batch' = NoBatch
           /\ \/ /\ batch.kind = "block"
                 /\ tip < MaxHeight /\ batch.h = tip + 1 /\ batch.h \in Heights
                 /\ batch.area \in Areas /\ Range(batch.area) \subseteq ValidKeys
                 /\ punish' = punish \ Range(batch.area)
                 /\ banpk' = [k \in PubKeys |->
                                 IF k \in Range(batch.area) THEN batch.h ELSE banpk[k]]
                 /\ banhgt' = IF batch.area # <<>>
                              THEN [x \in DOMAIN banhgt \cup {batch.h} |->
                                      IF x = batch.h
                                      THEN [count |-> Len(batch.area) % CountModulus,
                                            shas |-> batch.area]
                                      ELSE banhgt[x]]
                              ELSE banhgt
                 /\ tip' = batch.h
              \/ /\ batch.kind = "insert"
                 /\ batch.puts \subseteq ValidKeys
                 /\ punish' = punish \cup batch.puts
                 /\ banpk' = banpk /\ banhgt' = banhgt /\ tip' = tip
              \/ /\ batch.kind = "drop"
                 /\ batch.dels \subseteq ValidKeys
                 /\ punish' = punish \ batch.dels
                 /\ banpk' = banpk /\ banhgt' = banhgt /\ tip' = tip
<1>1. batch \in Batches /\ batch.kind \in {"block", "insert", "drop"} /\ batch.err = NoErr
  BY DEF Commit, SInv, TypeOK, Batches
<1>2. batch' = NoBatch
  BY DEF Commit
<1>3. banpk \in [PubKeys -> Heights \cup {NoHeight}] /\ tip \in 0 .. MaxHeight
  BY DEF SInv, TypeOK
<1>4. CASE batch.kind = "block"
  <2>1. /\ tip < MaxHeight /\ batch.h = tip + 1
        /\ Range(batch.area) \subseteq ValidKeys
        /\ batch.bans = Range(batch.area) /\ batch.dels = Range(batch.area)
        /\ batch.puts = {} /\ batch.hgtPut = (batch.area # <<>>)
    BY <1>1, <1>4 DEF SInv, BatchOK
  <2>2. batch.h \in Heights /\ batch.area \in Areas
    BY <1>1, <1>3, <2>1 DEF Batches, Heights
  <2>. QED
    BY <1>2, <1>4, <2>1, <2>2 DEF Commit
<1>5. CASE batch.kind = "insert"
  <2>1. batch.puts \subseteq ValidKeys /\ batch.dels = {} /\ batch.bans = {} /\ ~batch.hgtPut
    BY <1>1, <1>5 DEF SInv, BatchOK
  <2>. QED
    BY <1>2, <1>3, <1>5, <2>1 DEF Commit
<1>6. CASE batch.kind = "drop"
  <2>1. batch.dels \subseteq ValidKeys /\ batch.puts = {} /\ batch.bans = {} /\ ~batch.hgtPut
    BY <1>1, <1>6 DEF SInv, BatchOK
  <2>. QED
    BY <1>2, <1>3, <1>6, <2>1 DEF Commit
<1>. QED
  BY <1>1, <1>4, <1>5, <1>6

LEMMA ModRange ==
    ASSUME NEW n \in Nat, NEW m \in Nat \ {0}
    PROVE  n % m \in 0 .. m - 1
OBVIOUS

LEMMA CountType ==
    ASSUME NEW area \in Areas
    PROVE  Len(area) % CountModulus \in 0 .. CountModulus - 1
<1>1. Len(area) \in Nat
  BY AreaFacts
<1>2. CountModulus \in Nat \ {0}
  BY DEF CountModulus
<1>. QED
  BY <1>1, <1>2, ModRange

LEMMA CommitSInv ==
    ASSUME SInv, Commit
    PROVE  SInv'
<1>0. batch' = NoBatch
  BY CommitCases
<1>1. BatchOK' /\ batch' \in Batches
  BY <1>0, NoBatchOK DEF BatchOK, NoBatch
<1>2. CASE batch.kind = "block"
  <2>1. batch.area \in Areas /\ batch.h \in Heights
    BY <1>2, CommitCases
  <2>2. Len(batch.area) % CountModulus \in 0 .. CountModulus - 1
    BY <2>1, CountType
  <2>3. Range(batch.area) \subseteq PubKeys
    BY <2>1, AreaFacts
  <2>. QED
    BY <1>1, <1>2, <2>1, <2>2, <2>3, CommitCases DEF SInv, TypeOK, Heights
<1>3. CASE batch.kind # "block"
  BY <1>1, <1>3, CommitCases DEF SInv, TypeOK
<1>. QED
  BY <1>2, <1>3

LEMMA NextSInv == SInv /\ [Next]_vars => SInv'
<1> SUFFICES ASSUME SInv, [Next]_vars PROVE SInv'
  OBVIOUS
<1>1. ASSUME NEW pk \in PubKeys, InsertPunishment(pk) PROVE SInv'
  BY <1>1 DEF InsertPunishment, PunishmentKeyOk, SInv, TypeOK, BatchOK
<1>2. ASSUME NEW area \in Areas, NEW broken \in SUBSET PubKeys, NEW pf \in BOOLEAN,
             BuildBlockBatch(area, broken, pf)
      PROVE SInv'
  <2>1. tip < MaxHeight /\ batch.kind = "none"
    BY <1>2 DEF BuildBlockBatch
  <2>2. tip + 1 \in 1 .. MaxHeight
    <3>1. tip \in 0 .. MaxHeight
      BY DEF SInv, TypeOK
    <3>. QED
      BY <2>1, <3>1, StoreAssumption
  <2>3. BlockOK(InsertBlockPunishments(tip + 1, area, broken, pf), tip + 1, area)
    BY <2>2, BlockBatchOK
  <2>4. UNCHANGED <<punish, banpk, banhgt, tip>>
        /\ batch' = InsertBlockPunishments(tip + 1, area, broken, pf)
    BY <1>2 DEF BuildBlockBatch
  <2>. QED
    BY <2>1, <2>3, <2>4 DEF SInv, TypeOK, BatchOK, BlockOK
<1>3. ASSUME NEW list \in Areas, NEW broken \in SUBSET PubKeys,
             BuildInsertBatch(list, broken)
      PROVE SInv'
  BY <1>3, InsertBatchOK DEF BuildInsertBatch, SInv, TypeOK, BatchOK
<1>4. ASSUME NEW list \in Areas, BuildDropBatch(list) PROVE SInv'
  BY <1>4, DropBatchOK DEF BuildDropBatch, SInv, TypeOK, BatchOK
<1>5. CASE Commit
  BY <1>5, CommitSInv
<1>6. CASE Discard
  BY <1>6, NoBatchOK DEF Discard, SInv, TypeOK, BatchOK, NoBatch
<1>7. CASE UNCHANGED vars
  BY <1>7 DEF vars, SInv, TypeOK, BatchOK
<1>. QED
  BY <1>1, <1>2, <1>3, <1>4, <1>5, <1>6, <1>7 DEF Next

LEMMA SpecSInv == Spec => []SInv
BY InitSInv, NextSInv, PTL DEF Spec

LEMMA InitRefines == Init => Ledger!LedgerInit
BY DEF Init, Ledger!LedgerInit, FetchAllPunishment

\* A step that leaves the tables alone is a ledger stutter.
LEMMA TablesUnchanged ==
    ASSUME UNCHANGED <<punish, banpk, banhgt, tip>>
    PROVE  UNCHANGED Ledger!ledgerVars
BY DEF Ledger!ledgerVars, FetchAllPunishment

LEMMA CommitRefines ==
    ASSUME SInv, Commit
    PROVE  Ledger!LedgerNext
<1>1. TypeOK /\ TypeOK'
  BY CommitSInv DEF SInv
<1>2. FetchAllPunishment = punish /\ FetchAllPunishment' = punish'
  BY <1>1, StoreAssumption DEF TypeOK, FetchAllPunishment
<1>3. CASE batch.kind = "block"
  <2>1. /\ tip < MaxHeight /\ batch.h = tip + 1
        /\ batch.area \in Areas /\ Range(batch.area) \subseteq ValidKeys
        /\ punish' = punish \ Range(batch.area)
        /\ banpk' = [k \in PubKeys |->
                        IF k \in Range(batch.area) THEN batch.h ELSE banpk[k]]
        /\ banhgt' = IF batch.area # <<>>
                     THEN [x \in DOMAIN banhgt \cup {batch.h} |->
                             IF x = batch.h
                             THEN [count |-> Len(batch.area) % CountModulus,
                                   shas |-> batch.area]
                             ELSE banhgt[x]]
                     ELSE banhgt
        /\ tip' = batch.h
    BY <1>3, CommitCases
  <2>2. [x \in DOMAIN banhgt' |-> banhgt'[x].shas] =
          IF batch.area = <<>> THEN [x \in DOMAIN banhgt |-> banhgt[x].shas]
          ELSE [x \in DOMAIN [y \in DOMAIN banhgt |-> banhgt[y].shas] \cup {tip + 1} |->
                  IF x = tip + 1 THEN batch.area
                  ELSE [y \in DOMAIN banhgt |-> banhgt[y].shas][x]]
    BY <2>1
  <2>3. /\ tip < MaxHeight /\ Range(batch.area) \subseteq ValidKeys /\ tip' = tip + 1
        /\ banpk' = [k \in PubKeys |-> IF k \in Range(batch.area) THEN tip + 1 ELSE banpk[k]]
        /\ FetchAllPunishment' = FetchAllPunishment \ Range(batch.area)
    BY <1>2, <2>1
  <2>4. batch.area \in Ledger!Areas
    BY <2>1 DEF Areas, Ledger!Areas
  <2>. QED
    BY <2>2, <2>3, <2>4 DEF Ledger!LedgerNext, Ledger!BanBlock, Ledger!Range, Range
<1>4. CASE batch.kind = "insert"
  <2>1. /\ batch.puts \subseteq ValidKeys /\ punish' = punish \cup batch.puts
        /\ banpk' = banpk /\ banhgt' = banhgt /\ tip' = tip
    BY <1>4, CommitCases
  <2>2. batch.puts \in SUBSET PubKeys
    BY <2>1, StoreAssumption
  <2>3. Ledger!AddPending(batch.puts)
    BY <1>2, <2>1 DEF Ledger!AddPending
  <2>. QED
    BY <2>2, <2>3 DEF Ledger!LedgerNext
<1>5. CASE batch.kind = "drop"
  <2>1. /\ batch.dels \subseteq ValidKeys /\ punish' = punish \ batch.dels
        /\ banpk' = banpk /\ banhgt' = banhgt /\ tip' = tip
    BY <1>5, CommitCases
  <2>2. batch.dels \in SUBSET PubKeys
    BY <2>1, StoreAssumption
  <2>3. Ledger!DropPending(batch.dels)
    BY <1>2, <2>1 DEF Ledger!DropPending
  <2>. QED
    BY <2>2, <2>3 DEF Ledger!LedgerNext
<1>. QED
  BY <1>3, <1>4, <1>5, CommitCases

LEMMA NextRefines ==
    ASSUME SInv, [Next]_vars
    PROVE  [Ledger!LedgerNext]_Ledger!ledgerVars
<1>1. ASSUME NEW pk \in PubKeys, InsertPunishment(pk)
      PROVE  Ledger!LedgerNext
  <2>1. TypeOK /\ TypeOK'
    BY <1>1, NextSInv DEF SInv, Next
  <2>2. FetchAllPunishment = punish /\ FetchAllPunishment' = punish'
    BY <2>1, StoreAssumption DEF TypeOK, FetchAllPunishment
  <2>3. Ledger!AddPending({pk})
    BY <1>1, <2>2 DEF InsertPunishment, PunishmentKeyOk, Ledger!AddPending
  <2>. QED
    BY <2>3 DEF Ledger!LedgerNext
<1>2. ASSUME \/ \E area \in Areas, broken \in SUBSET PubKeys, pf \in BOOLEAN :
                   BuildBlockBatch(area, broken, pf)
             \/ \E list \in Areas, broken \in SUBSET PubKeys : BuildInsertBatch(list, broken)
             \/ \E list \in Areas : BuildDropBatch(list)
             \/ Discard \/ UNCHANGED vars
      PROVE  UNCHANGED Ledger!ledgerVars
  <2>1. UNCHANGED <<punish, banpk, banhgt, tip>>
    BY <1>2 DEF BuildBlockBatch, BuildInsertBatch, BuildDropBatch, Discard, vars
  <2>. QED
    BY <2>1, TablesUnchanged
<1>3. CASE Commit
  BY <1>3, CommitRefines
<1>. QED
  BY <1>1, <1>2, <1>3 DEF Next

(***************************************************************************)
(* The batched store implements the atomic ledger: whatever interleaving  *)
(* of direct puts, batch building, failed helpers, commits and discards   *)
(* the caller performs, the committed tables move by whole ledger         *)
(* operations (RefinesLedger).                                            *)
(***************************************************************************)
THEOREM Refinement == Spec => RefinesLedger
<1>1. Spec => []SInv
  BY SpecSInv
<1>2. SInv /\ [Next]_vars => [Ledger!LedgerNext]_Ledger!ledgerVars
  BY NextRefines
<1>. QED
  BY <1>1, <1>2, InitRefines, PTL DEF Spec, RefinesLedger, Ledger!LedgerSpec

(***************************************************************************)
(* TypeOK holds in every reachable state: PUNISH only ever holds keys of  *)
(* a valid length, whatever InsertPunishment and the batches put in it.   *)
(***************************************************************************)
THEOREM TypeCorrect == Spec => []TypeOK
BY SpecSInv, PTL DEF SInv
=============================================================================
