------------------------- MODULE FutureBlocks_proofs -------------------------
(***************************************************************************)
(* FilterExact for every tolerance, clock range and batch length.  While  *)
(* the loop runs, readAt holds one reading per block already passed, and  *)
(* each of those blocks was within Tolerance of its own reading; the loop *)
(* ends either past the last block or at the first block from the future, *)
(* with that block's reading last in readAt (FInv).                       *)
(***************************************************************************)
EXTENDS FutureBlocks, SequenceTheorems, TLAPS

\* The first n blocks of bs each passed the check against their reading in rs.
Checked(rs, bs, n) == \A k \in 1 .. n : ~FromFuture(rs[k], bs[k])

FInv ==
    /\ clock \in Times
    /\ blocks \in Seq(Times)
    /\ readAt \in Seq(Times)
    /\ i \in 1 .. Len(blocks) + 1
    /\ result \in {Running, NoErr, ErrPeerMisbehave}
    /\ result = Running => Len(readAt) = i - 1 /\ Checked(readAt, blocks, i - 1)
    /\ result = NoErr =>
           /\ i = Len(blocks) + 1 /\ Len(readAt) = Len(blocks)
           /\ Checked(readAt, blocks, Len(blocks))
    /\ result = ErrPeerMisbehave =>
           /\ i \in 1 .. Len(blocks) /\ Len(readAt) = i
           /\ FromFuture(readAt[i], blocks[i]) /\ Checked(readAt, blocks, i - 1)

LEMMA InitFInv == Init => FInv
<1> SUFFICES ASSUME Init PROVE FInv
  OBVIOUS
<1>1. PICK n \in 0 .. MaxBlocks : blocks \in [1 .. n -> Times]
  BY DEF Init
<1>2. blocks \in Seq(Times) /\ Len(blocks) = n
  BY <1>1, FutureAssumption
<1>3. readAt \in Seq(Times) /\ Len(readAt) = 0
  BY EmptySeq DEF Init
<1>. QED
  BY <1>2, <1>3, FutureAssumption DEF Init, FInv, Checked, Running, NoErr, ErrPeerMisbehave

\* One iteration appends the clock reading for block i and either ends the
\* loop on it or moves past it.
LEMMA CheckBlockFInv ==
    ASSUME FInv, CheckBlock PROVE FInv'
<1>1. /\ result = Running /\ i \in 1 .. Len(blocks) /\ Len(readAt) = i - 1
      /\ Checked(readAt, blocks, i - 1)
  BY DEF CheckBlock, FInv, Running, NoErr, ErrPeerMisbehave
<1>2. /\ readAt' \in Seq(Times)
      /\ Len(readAt') = i
      /\ \A k \in 1 .. i - 1 : readAt'[k] = readAt[k]
      /\ readAt'[i] = clock
  BY <1>1, AppendProperties DEF CheckBlock, FInv
<1>3. Checked(readAt', blocks', i - 1)
  BY <1>1, <1>2 DEF Checked, CheckBlock
<1>4. CASE FromFuture(clock, blocks[i])
  BY <1>1, <1>2, <1>3, <1>4
     DEF CheckBlock, FInv, Running, NoErr, ErrPeerMisbehave
<1>5. CASE ~FromFuture(clock, blocks[i])
  <2>1. Checked(readAt', blocks', i)
    BY <1>1, <1>2, <1>3, <1>5 DEF Checked, CheckBlock
  <2>. QED
    BY <1>1, <1>2, <1>5, <2>1
       DEF CheckBlock, FInv, Running, NoErr, ErrPeerMisbehave
<1>. QED
  BY <1>4, <1>5

LEMMA NextFInv == FInv /\ [Next]_vars => FInv'
<1> SUFFICES ASSUME FInv, [Next]_vars PROVE FInv'
  OBVIOUS
<1>1. ASSUME NEW t \in Times, SetClock(t) PROVE FInv'
  BY <1>1 DEF SetClock, FInv, Checked
<1>2. CASE CheckBlock
  BY <1>2, CheckBlockFInv
<1>3. CASE Finish
  <2>1. result = Running /\ i = Len(blocks) + 1
    BY <1>3 DEF Finish, FInv
  <2>. QED
    BY <1>3, <2>1 DEF Finish, FInv, Checked, Running, NoErr, ErrPeerMisbehave
<1>4. CASE UNCHANGED vars
  BY <1>4 DEF vars, FInv, Checked
<1>. QED
  BY <1>1, <1>2, <1>3, <1>4 DEF Next

LEMMA FInvFilterExact == FInv => FilterExact
<1> SUFFICES ASSUME FInv, result # Running
             PROVE  /\ (result = NoErr) <=>
                           /\ Len(readAt) = Len(blocks)
                           /\ \A k \in 1 .. Len(readAt) : ~FromFuture(readAt[k], blocks[k])
                    /\ result = ErrPeerMisbehave =>
                           /\ Len(readAt) \in 1 .. Len(blocks)
                           /\ FromFuture(readAt[Len(readAt)], blocks[Len(readAt)])
                           /\ \A k \in 1 .. Len(readAt) - 1 :
                                  ~FromFuture(readAt[k], blocks[k])
  BY DEF FilterExact
<1>1. CASE result = NoErr
  BY <1>1 DEF FInv, Checked, NoErr, ErrPeerMisbehave
<1>2. CASE result = ErrPeerMisbehave
  <2>1. /\ i \in 1 .. Len(blocks) /\ Len(readAt) = i
        /\ FromFuture(readAt[i], blocks[i]) /\ Checked(readAt, blocks, i - 1)
    BY <1>2 DEF FInv
  <2>2. ~\A k \in 1 .. Len(readAt) : ~FromFuture(readAt[k], blocks[k])
    BY <2>1
  <2>. QED
    BY <1>2, <2>1, <2>2 DEF Checked, NoErr, ErrPeerMisbehave
<1>. QED
  BY <1>1, <1>2 DEF FInv, Running

(***************************************************************************)
(* For every tolerance, clock range and batch length, and however the     *)
(* wall clock is set between the reads, preventBlocksFromFuture returns   *)
(* nil exactly when every block was within Tolerance of the reading taken *)
(* for it, and errPeerMisbehave at the first block that was not           *)
(* (FilterExact).                                                         *)
(***************************************************************************)
THEOREM FilterCorrect == Spec => []FilterExact
<1>1. Spec => []FInv
  BY InitFInv, NextFInv, PTL DEF Spec
<1>. QED
  BY <1>1, FInvFilterExact, PTL
=============================================================================
