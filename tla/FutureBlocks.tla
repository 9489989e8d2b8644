----------------------------- MODULE FutureBlocks -----------------------------
(***************************************************************************)
(* preventBlocksFromFuture (package netsync): a batch of blocks from a    *)
(* peer is refused with errPeerMisbehave as soon as one block's timestamp *)
(* is after time.Now() + 3s; preventBlockFromFuture reads the clock again *)
(* for every block.  time.Now() is compared with a header timestamp, so   *)
(* the wall clock is used, and the wall clock may be set back or forward  *)
(* while the loop runs.                                                   *)
(*                                                                        *)
(* Times are whole seconds in 0 .. MaxClock.                              *)
(***************************************************************************)
EXTENDS Naturals, Sequences

CONSTANTS
    Tolerance,  \* the 3 seconds of the check
    MaxClock,   \* the latest wall-clock reading
    MaxBlocks   \* the longest batch

ASSUME FutureAssumption ==
    /\ Tolerance \in Nat
    /\ MaxClock \in Nat
    /\ MaxBlocks \in Nat

Times == 0 .. MaxClock
Running == "running"
NoErr == "nil"
ErrPeerMisbehave == "errPeerMisbehave"

VARIABLES
    clock,   \* the wall clock
    blocks,  \* the batch's timestamps, in order
    i,       \* the block the loop is at
    readAt,  \* the clock reading taken for each block checked
    result   \* Running, or what preventBlocksFromFuture returned

vars == <<clock, blocks, i, readAt, result>>

\* time.Now().Add(3 * time.Second).Before(timestamp).
FromFuture(now, ts) == now + Tolerance < ts

Init ==
    /\ clock \in Times
    /\ blocks \in UNION {[1 .. n -> Times] : n \in 0 .. MaxBlocks}
    /\ i = 1
    /\ readAt = <<>>
    /\ result = Running

\* The wall clock is set to any time, earlier or later.
SetClock(t) ==
    /\ clock' = t
    /\ UNCHANGED <<blocks, i, readAt, result>>

\* One iteration: preventBlockFromFuture(blocks[i]) reads the clock, and a
\* block from the future ends the loop with errPeerMisbehave.
CheckBlock ==
    /\ result = Running
    /\ i <= Len(blocks)
    /\ readAt' = Append(readAt, clock)
    /\ IF FromFuture(clock, blocks[i])
       THEN result' = ErrPeerMisbehave /\ i' = i
       ELSE result' = Running /\ i' = i + 1
    /\ UNCHANGED <<clock, blocks>>

\* Mutant: the loop stops one block short of the end.
FinishEarly ==
    /\ result = Running
    /\ i + 1 > Len(blocks)
    /\ result' = NoErr
    /\ UNCHANGED <<clock, blocks, i, readAt>>

\* Every block passed: the loop ends and nil is returned.
Finish ==
    /\ result = Running
    /\ i > Len(blocks)
    /\ result' = NoErr
    /\ UNCHANGED <<clock, blocks, i, readAt>>

Next ==
    \/ \E t \in Times : SetClock(t)
    \/ CheckBlock
    \/ Finish

Spec == Init /\ [][Next]_vars

-----------------------------------------------------------------------------
(***************************************************************************)
(* When preventBlocksFromFuture has returned, it returned nil iff it      *)
(* checked every block of the batch and each timestamp was within         *)
(* Tolerance of the clock reading taken for that block; on error the last *)
(* block checked is the first one from the future.                       *)
(***************************************************************************)
FilterExact ==
    result # Running =>
        /\ (result = NoErr) <=>
               /\ Len(readAt) = Len(blocks)
               /\ \A k \in 1 .. Len(readAt) : ~FromFuture(readAt[k], blocks[k])
        /\ result = ErrPeerMisbehave =>
               /\ Len(readAt) \in 1 .. Len(blocks)
               /\ FromFuture(readAt[Len(readAt)], blocks[Len(readAt)])
               /\ \A k \in 1 .. Len(readAt) - 1 : ~FromFuture(readAt[k], blocks[k])

=============================================================================
