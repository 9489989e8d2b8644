--------------------------- MODULE PunishmentStore ---------------------------
(***************************************************************************)
(* The punishment tables of the chain database (package ldb) as the code  *)
(* writes them: InsertPunishment puts into the store directly, while      *)
(* insertPunishments, dropPunishments and insertBlockPunishments only add *)
(* Put and Delete operations to a write batch.  These helpers return on   *)
(* the first error with the earlier operations already in the batch; the  *)
(* caller writes the batch only when the helper returned nil and drops it *)
(* otherwise, or when the write itself fails.  One batch is open at a     *)
(* time, and direct puts interleave with it.                              *)
(*                                                                        *)
(* A key's value in PUNISH (the fault key encoded by fpk.Bytes) and the   *)
(* hashes in BANHGT are abstracted to the key itself: DoubleHashH is      *)
(* taken to be collision free.  insertFaultPk, which writes BANPK, and    *)
(* fpk.Bytes are not in this repository: either may fail, for the keys of *)
(* the input set broken.                                                  *)
(***************************************************************************)
EXTENDS Naturals, Sequences, Functions

CONSTANTS PubKeys, ValidKeys, MaxHeight, MaxArea, NoHeight

ASSUME StoreAssumption ==
    /\ ValidKeys \subseteq PubKeys
    /\ MaxHeight \in Nat
    /\ MaxArea \in Nat
    /\ NoHeight \notin Nat

Heights == 1 .. MaxHeight
Areas == UNION {[1 .. n -> PubKeys] : n \in 0 .. MaxArea}

\* Errors a helper may return; NoErr is nil.
NoErr == "nil"
Errors == {NoErr, "invalid pk length", "encode", "insertFaultPk", "batch put"}

\* The binary.LittleEndian.PutUint16 count that heads a BANHGT entry.
CountModulus == 65536

\* A write batch: the keys it puts into and deletes from PUNISH, the keys
\* insertFaultPk banned at height h, and the BANHGT entry it puts, if any.
Batches == [kind : {"none", "block", "insert", "drop"}, err : Errors,
            puts : SUBSET PubKeys, dels : SUBSET PubKeys, bans : SUBSET PubKeys,
            h : 0 .. MaxHeight, area : Areas, hgtPut : BOOLEAN]
NoBatch == [kind |-> "none", err |-> NoErr, puts |-> {}, dels |-> {}, bans |-> {},
            h |-> 0, area |-> <<>>, hgtPut |-> FALSE]

VARIABLES
    punish,   \* PUNISH: the pending fault keys
    banpk,    \* BANPK: the height each key was banned at
    banhgt,   \* BANHGT: height |-> [count, shas]
    tip,      \* the height of the last connected block
    batch     \* the caller's open write batch

vars == <<punish, banpk, banhgt, tip, batch>>

\* punishmentPubKeyToKey: only the two public key lengths give a key.
PunishmentKeyOk(pk) == pk \in ValidKeys

\* The keys punishmentPubKeyToKey refuses.
InvalidKeys == {k \in PubKeys : ~PunishmentKeyOk(k)}

\* A loop over list that returns at the first key in stop: the keys it got
\* through, the indices it stopped at (none or one), and whether it ran to
\* the end.
Done(list, stop) ==
    {list[j] : j \in {i \in 1 .. Len(list) : \A m \in 1 .. i : list[m] \notin stop}}
StopAt(list, stop) ==
    {i \in 1 .. Len(list) : list[i] \in stop /\ \A m \in 1 .. i - 1 : list[m] \notin stop}
Clean(list, stop) == \A i \in 1 .. Len(list) : list[i] \notin stop

\* The error insertPunishments returns: the first key's failure, if any.
InsertErr(fpks, bad) ==
    IF Clean(fpks, bad) THEN NoErr
    ELSE IF \E i \in StopAt(fpks, bad) : fpks[i] \in InvalidKeys
    THEN "invalid pk length" ELSE "encode"

\* insertPunishments: key, then fpk.Bytes, then Put, for each key in turn.
InsertPunishments(fpks, broken) ==
    [kind |-> "insert", puts |-> Done(fpks, InvalidKeys \cup broken),
     dels |-> {}, bans |-> {}, h |-> 0, area |-> <<>>, hgtPut |-> FALSE,
     err |-> InsertErr(fpks, InvalidKeys \cup broken)]

\* dropPunishments: key, then Delete, for each key in turn.
DropPunishments(pks) ==
    LET bad == InvalidKeys
    IN  [kind |-> "drop", puts |-> {}, dels |-> Done(pks, bad), bans |-> {},
         h |-> 0, area |-> <<>>, hgtPut |-> FALSE,
         err |-> IF Clean(pks, bad) THEN NoErr ELSE "invalid pk length"]

\* Mutant of insertBlockPunishments: the PUNISH Delete left out.
InsertBlockPunishmentsNoDelete(h, faultPks, broken, putFails) ==
    LET bad == broken \cup InvalidKeys
    IN  [kind |-> "block", h |-> h, area |-> faultPks, puts |-> {}, dels |-> {},
         bans |-> Done(faultPks, bad),
         hgtPut |-> Clean(faultPks, bad) /\ Len(faultPks) > 0 /\ ~putFails,
         err |-> IF Clean(faultPks, bad) /\ ~(Len(faultPks) > 0 /\ putFails)
                 THEN NoErr ELSE "batch put"]

(***************************************************************************)
(* insertBlockPunishments: for each fault key, insertFaultPk puts its     *)
(* BANPK entry, then the key is checked and deleted from PUNISH; the      *)
(* first failure returns with what came before in the batch (and the     *)
(* BANPK entry of a key whose length is invalid).  After the loop a       *)
(* nonempty area puts its BANHGT entry, which may itself fail.            *)
(***************************************************************************)
InsertBlockPunishments(h, faultPks, broken, putFails) ==
    LET bad     == broken \cup InvalidKeys
        done    == Done(faultPks, bad)
        stopKey == {faultPks[i] : i \in StopAt(faultPks, bad)}
    IN  [kind   |-> "block",
         h      |-> h,
         area   |-> faultPks,
         puts   |-> {},
         bans   |-> done \cup (stopKey \ broken),
         dels   |-> done,
         hgtPut |-> Clean(faultPks, bad) /\ Len(faultPks) > 0 /\ ~putFails,
         err    |-> IF ~Clean(faultPks, bad)
                    THEN IF stopKey \cap broken # {} THEN "insertFaultPk"
                         ELSE "invalid pk length"
                    ELSE IF Len(faultPks) > 0 /\ putFails THEN "batch put"
                    ELSE NoErr]

\* ExistsPunishment and FetchAllPunishment read PUNISH (a stored value
\* always decodes, since only fpk.Bytes wrote it).
ExistsPunishment(pk) == PunishmentKeyOk(pk) /\ pk \in punish
FetchAllPunishment == {k \in PubKeys : k \in punish}

Init ==
    /\ punish = {}
    /\ banpk = [k \in PubKeys |-> NoHeight]
    /\ banhgt = [x \in {} |-> [count |-> 0, shas |-> <<>>]]
    /\ tip = 0
    /\ batch = NoBatch

\* Mutant of InsertPunishment: the key length is not checked.
InsertPunishmentNoKeyCheck(pk) ==
    /\ punish' = punish \cup {pk}
    /\ UNCHANGED <<banpk, banhgt, tip, batch>>

\* InsertPunishment writes to the store at once, batch or no batch.
InsertPunishment(pk) ==
    /\ PunishmentKeyOk(pk)
    /\ punish' = punish \cup {pk}
    /\ UNCHANGED <<banpk, banhgt, tip, batch>>

\* The caller opens a batch and fills it with one of the helpers; a block's
\* punishments go in at the next height.
BuildBlockBatch(area, broken, putFails) ==
    /\ batch.kind = "none"
    /\ tip < MaxHeight
    /\ batch' = InsertBlockPunishments(tip + 1, area, broken, putFails)
    /\ UNCHANGED <<punish, banpk, banhgt, tip>>

BuildInsertBatch(list, broken) ==
    /\ batch.kind = "none"
    /\ batch' = InsertPunishments(list, broken)
    /\ UNCHANGED <<punish, banpk, banhgt, tip>>

BuildDropBatch(list) ==
    /\ batch.kind = "none"
    /\ batch' = DropPunishments(list)
    /\ UNCHANGED <<punish, banpk, banhgt, tip>>

\* The storage applies a batch atomically, Puts before Deletes of PUNISH
\* never meeting in one batch.
Commit ==
    /\ batch.kind # "none"
    /\ batch.err = NoErr
    /\ punish' = (punish \cup batch.puts) \ batch.dels
    /\ banpk' = [k \in PubKeys |-> IF k \in batch.bans THEN batch.h ELSE banpk[k]]
    /\ banhgt' = IF batch.hgtPut
                 THEN [x \in DOMAIN banhgt \cup {batch.h} |->
                         IF x = batch.h
                         THEN [count |-> Len(batch.area) % CountModulus,
                               shas |-> batch.area]
                         ELSE banhgt[x]]
                 ELSE banhgt
    /\ tip' = IF batch.kind = "block" THEN batch.h ELSE tip
    /\ batch' = NoBatch

\* A helper's error, or a failed write, drops the whole batch.
Discard ==
    /\ batch.kind # "none"
    /\ batch' = NoBatch
    /\ UNCHANGED <<punish, banpk, banhgt, tip>>

Next ==
    \/ \E pk \in PubKeys : InsertPunishment(pk)
    \/ \E area \in Areas, broken \in SUBSET PubKeys, putFails \in BOOLEAN :
           BuildBlockBatch(area, broken, putFails)
    \/ \E list \in Areas, broken \in SUBSET PubKeys : BuildInsertBatch(list, broken)
    \/ \E list \in Areas : BuildDropBatch(list)
    \/ Commit
    \/ Discard

Spec == Init /\ [][Next]_vars

-----------------------------------------------------------------------------
\* Only keys with a valid length are ever in PUNISH, and the batch and the
\* tables keep their shapes.
TypeOK ==
    /\ punish \subseteq ValidKeys
    /\ banpk \in [PubKeys -> Heights \cup {NoHeight}]
    /\ DOMAIN banhgt \subseteq Heights
    /\ \A x \in DOMAIN banhgt :
           banhgt[x] \in [count : 0 .. CountModulus - 1, shas : Areas]
    /\ tip \in 0 .. MaxHeight
    /\ batch \in Batches

\* The tables as the ledger sees them: BANHGT read without its count.
Ledger == INSTANCE PunishmentLedger
    WITH pending <- FetchAllPunishment,
         banned <- banpk,
         banIndex <- [x \in DOMAIN banhgt |-> banhgt[x].shas],
         tip <- tip

(***************************************************************************)
(* Every write of the batch helpers and of InsertPunishment, seen on the  *)
(* committed tables, is one atomic ledger operation: a block bans all its *)
(* fault keys, removes them from PUNISH and lists them in BANHGT, or does *)
(* nothing, whatever step of insertBlockPunishments failed.               *)
(***************************************************************************)
RefinesLedger == Ledger!LedgerSpec
=============================================================================
