---------------------------- MODULE NextChallenge ----------------------------
(***************************************************************************)
(* calcNextChallenge (package blockchain): the next block's challenge is  *)
(* computed from the headers of the last MaxReferredBlocks blocks of the  *)
(* best chain, newest first, fewer near genesis.  The count is a uint64:  *)
(* size = MaxReferredBlocks, lowered to lastNode.Height+1 when that is    *)
(* smaller, and the loop follows Parent pointers size times.  Reading     *)
(* the header of a nil node panics.                                       *)
(*                                                                        *)
(* The block tree grows by connecting blocks to any node and the best     *)
(* node moves among its nodes; nodes are numbered in the order they were  *)
(* added.  Heights are Width-bit words.  The function takes no lock, so   *)
(* blocks may be connected and the best node may move between two         *)
(* iterations of its loop; one call is modelled, its locals as variables. *)
(***************************************************************************)
EXTENDS Naturals, Sequences

CONSTANTS
    Width,              \* bits of a height (64 in the build)
    MaxReferredBlocks,  \* challenge.MaxReferredBlocks
    MaxNodes,           \* the most nodes the tree grows to
    MaxHeight           \* the highest height a block is connected at

Modulus == 2 ^ Width

ASSUME NextChallengeAssumption ==
    /\ Width \in Nat \ {0}
    /\ Modulus \in Nat \ {0}
    /\ MaxReferredBlocks \in Nat \ {0}
    /\ MaxNodes \in Nat \ {0}
    /\ MaxHeight \in 0 .. Modulus - 1

\* No block is connected at the largest height, where Height+1 wraps to 0.
HeightsBelowTop == MaxHeight < Modulus - 1

Nil == MaxNodes          \* not a node: nodes are 0 .. MaxNodes - 1

VARIABLES
    count,     \* the nodes 0 .. count-1 are in the tree
    parent,    \* BlockNode.Parent (Nil for genesis)
    height,    \* BlockNode.Height
    best,      \* blockTree.bestBlockNode()
    lastNode,  \* the node the call started from (Nil before any call)
    size,      \* its window size
    refNode,   \* the node its loop is at
    headers,   \* the headers collected so far; Nil where it read a nil node
    pc         \* "idle" between calls, "walk" inside the loop

vars == <<count, parent, height, best, lastNode, size, refNode, headers, pc>>

tree == <<count, parent, height, best>>

Nodes == 0 .. count - 1

\* Mutant: size one too large near genesis.
ReferredSizeOffByOne(h) ==
    LET next == (h + 2) % Modulus
    IN  IF next < MaxReferredBlocks THEN next ELSE MaxReferredBlocks

\* size: MaxReferredBlocks, or lastNode.Height+1 (uint64) when smaller.
ReferredSize(h) ==
    LET next == (h + 1) % Modulus
    IN  IF next < MaxReferredBlocks THEN next ELSE MaxReferredBlocks

Init ==
    /\ count = 1
    /\ parent = [n \in {0} |-> Nil]
    /\ height = [n \in {0} |-> 0]
    /\ best = 0
    /\ lastNode = Nil
    /\ size = 0
    /\ refNode = Nil
    /\ headers = <<>>
    /\ pc = "idle"

\* A block is connected on top of node p.
ConnectBlock(p) ==
    /\ count < MaxNodes
    /\ height[p] < MaxHeight
    /\ count' = count + 1
    /\ parent' = [n \in Nodes \cup {count} |-> IF n = count THEN p ELSE parent[n]]
    /\ height' = [n \in Nodes \cup {count} |-> IF n = count THEN height[p] + 1 ELSE height[n]]
    /\ UNCHANGED <<best, lastNode, size, refNode, headers, pc>>

\* The best chain moves to end at node n.
SetBest(n) ==
    /\ best' = n
    /\ UNCHANGED <<count, parent, height, lastNode, size, refNode, headers, pc>>

\* CalcNextChallenge: calcNextChallenge(chain.blockTree.bestBlockNode())
\* computes size, allocates headers and starts at refNode := lastNode.
CalcNextChallenge ==
    /\ pc = "idle"
    /\ lastNode' = best
    /\ size' = ReferredSize(height[best])
    /\ refNode' = best
    /\ headers' = <<>>
    /\ pc' = "walk"
    /\ UNCHANGED tree

\* One iteration: headers[i] = refNode.BlockHeader(); refNode = refNode.Parent.
\* nil.BlockHeader() panics, which ends the call with a Nil entry.
CollectHeader ==
    /\ pc = "walk"
    /\ Len(headers) < size
    /\ IF refNode = Nil
       THEN /\ headers' = Append(headers, Nil)
            /\ pc' = "idle"
            /\ UNCHANGED refNode
       ELSE /\ headers' = Append(headers, refNode)
            /\ refNode' = parent[refNode]
            /\ UNCHANGED pc
    /\ UNCHANGED <<count, parent, height, best, lastNode, size>>

\* The loop has run size times: the headers go to challenge.CalcNextChallenge.
HandOver ==
    /\ pc = "walk"
    /\ Len(headers) >= size
    /\ pc' = "idle"
    /\ UNCHANGED <<count, parent, height, best, lastNode, size, refNode, headers>>

Next ==
    \/ \E p \in Nodes : ConnectBlock(p)
    \/ \E n \in Nodes : SetBest(n)
    \/ CalcNextChallenge
    \/ CollectHeader
    \/ HandOver

Spec == Init /\ [][Next]_vars

-----------------------------------------------------------------------------
TypeOK ==
    /\ count \in 1 .. MaxNodes
    /\ parent \in [Nodes -> Nodes \cup {Nil}]
    /\ height \in [Nodes -> 0 .. MaxHeight]
    /\ best \in Nodes
    /\ lastNode \in Nodes \cup {Nil}
    /\ size \in 0 .. MaxReferredBlocks
    /\ refNode \in Nodes \cup {Nil}
    /\ headers \in Seq(Nodes \cup {Nil})
    /\ pc \in {"idle", "walk"}

(***************************************************************************)
(* Once a call has left its loop, calcNextChallenge has handed the        *)
(* challenge calculation the newest                                       *)
(* min(MaxReferredBlocks, Height+1) blocks of the chain ending at         *)
(* lastNode, newest first: it never reads a nil node, never stops short   *)
(* of genesis when the chain is shorter than the window, and each header  *)
(* is the parent of the one before, one height lower.                     *)
(***************************************************************************)
ChallengeWindow ==
    pc = "idle" /\ lastNode # Nil =>
        LET h == height[lastNode]
            k == IF h + 1 < MaxReferredBlocks THEN h + 1 ELSE MaxReferredBlocks
        IN  /\ Len(headers) = k
            /\ \A i \in 1 .. k : headers[i] # Nil
            /\ headers[1] = lastNode
            /\ \A i \in 1 .. k : height[headers[i]] = h - (i - 1)
            /\ \A i \in 1 .. k - 1 : headers[i + 1] = parent[headers[i]]
=============================================================================
