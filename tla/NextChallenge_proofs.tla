------------------------ MODULE NextChallenge_proofs ------------------------
(***************************************************************************)
(* ChallengeWindow for every word width, window size and tree bound, as   *)
(* long as no block sits at the largest height (HeightsBelowTop).  The    *)
(* argument: every node's height is its parent's plus one, and genesis,   *)
(* the only node without a parent, is at height 0 (TreeOK); while the     *)
(* loop runs, the headers collected so far are the newest blocks of the   *)
(* chain ending at lastNode and refNode is the parent of the last one     *)
(* (WalkOK).  So the loop reaches genesis only after height+1 headers,    *)
(* and never reads a nil node before size headers are collected.          *)
(***************************************************************************)
EXTENDS NextChallenge, SequenceTheorems, TLAPS

\* The window calcNextChallenge should collect below a block of height h.
Window(h) == IF h + 1 < MaxReferredBlocks THEN h + 1 ELSE MaxReferredBlocks

\* Every block is one above its parent; a block without a parent is genesis.
TreeOK ==
    \A n \in Nodes :
        \/ parent[n] = Nil /\ height[n] = 0
        \/ parent[n] \in Nodes /\ height[n] = height[parent[n]] + 1

\* The headers of the current call are the newest blocks of the chain
\* ending at lastNode, at most size of them, and refNode is the next one.
WalkOK ==
    lastNode # Nil =>
        /\ size = Window(height[lastNode])
        /\ Len(headers) <= size
        /\ \A i \in 1 .. Len(headers) :
               headers[i] \in Nodes /\ height[headers[i]] = height[lastNode] - (i - 1)
        /\ Len(headers) >= 1 => headers[1] = lastNode
        /\ \A i \in 1 .. Len(headers) - 1 : headers[i + 1] = parent[headers[i]]
        /\ pc = "walk" =>
               refNode = IF headers = <<>> THEN lastNode
                         ELSE parent[headers[Len(headers)]]
        /\ pc = "idle" => Len(headers) = size

CInv ==
    /\ TypeOK
    /\ TreeOK
    /\ WalkOK
    /\ pc = "walk" => lastNode # Nil

\* Below the top word, the uint64 Height+1 does not wrap and the size the
\* code computes is the window.
LEMMA SizeIsWindow ==
    ASSUME HeightsBelowTop, NEW h \in 0 .. MaxHeight
    PROVE  /\ ReferredSize(h) = Window(h)
           /\ Window(h) \in 1 .. MaxReferredBlocks
<1>1. Modulus \in Nat \ {0} /\ h + 1 \in 0 .. Modulus - 1
  BY NextChallengeAssumption DEF HeightsBelowTop
<1>2. (h + 1) % Modulus = h + 1
  BY <1>1
<1>. QED  BY <1>2, NextChallengeAssumption DEF ReferredSize, Window

\* Nil is never a node.
LEMMA NilNotNode == TypeOK => Nil \notin Nodes
BY NextChallengeAssumption DEF TypeOK, Nodes, Nil

LEMMA InitCInv == Init => CInv
<1> SUFFICES ASSUME Init PROVE CInv
  OBVIOUS
<1>1. Nodes = {0} /\ Nil \notin Nodes
  BY NextChallengeAssumption DEF Init, Nodes, Nil
<1>2. TypeOK
  BY <1>1, NextChallengeAssumption DEF Init, TypeOK, Nodes, Nil
<1>3. TreeOK
  BY <1>1 DEF Init, TreeOK
<1>. QED  BY <1>2, <1>3 DEF Init, CInv, WalkOK

\* A connected block changes nothing the walk has read, and is one above
\* its parent.
LEMMA ConnectBlockCInv ==
    ASSUME CInv, NEW p \in Nodes, ConnectBlock(p)
    PROVE  CInv'
<1>1. /\ count \in 1 .. MaxNodes - 1 /\ count' = count + 1
      /\ p \in Nodes /\ height[p] \in 0 .. MaxHeight - 1
  BY NextChallengeAssumption DEF ConnectBlock, CInv, TypeOK, Nodes
<1>2. /\ Nodes' = Nodes \cup {count}
      /\ count \notin Nodes /\ count # Nil /\ Nil \notin Nodes'
  BY <1>1, NextChallengeAssumption DEF Nodes, Nil
<1>3. /\ DOMAIN parent' = Nodes' /\ DOMAIN height' = Nodes'
      /\ \A n \in Nodes : parent'[n] = parent[n] /\ height'[n] = height[n]
      /\ parent'[count] = p /\ height'[count] = height[p] + 1
  BY <1>2 DEF ConnectBlock
<1>4. TypeOK'
  <2>1. parent' \in [Nodes' -> Nodes' \cup {Nil}]
    <3>1. \A n \in Nodes' : parent'[n] \in Nodes' \cup {Nil}
      BY <1>2, <1>3 DEF CInv, TypeOK
    <3>. QED  BY <1>3, <3>1 DEF ConnectBlock
  <2>2. height' \in [Nodes' -> 0 .. MaxHeight]
    <3>1. \A n \in Nodes' : height'[n] \in 0 .. MaxHeight
      <4> SUFFICES ASSUME NEW n \in Nodes' PROVE height'[n] \in 0 .. MaxHeight
        OBVIOUS
      <4>1. CASE n \in Nodes
        BY <1>3, <4>1 DEF CInv, TypeOK
      <4>2. CASE n = count
        BY <1>1, <1>3, <4>2, NextChallengeAssumption
      <4>. QED  BY <1>2, <4>1, <4>2
    <3>. QED  BY <1>3, <3>1 DEF ConnectBlock
  <2>3. /\ best' \in Nodes' /\ lastNode' \in Nodes' \cup {Nil}
        /\ refNode' \in Nodes' \cup {Nil} /\ headers' \in Seq(Nodes' \cup {Nil})
    <3>1. headers \in Seq(Nodes \cup {Nil}) /\ Nodes \cup {Nil} \subseteq Nodes' \cup {Nil}
      BY <1>2 DEF CInv, TypeOK
    <3>2. headers \in Seq(Nodes' \cup {Nil})
      BY <3>1, SeqMonotonic
    <3>. QED  BY <1>2, <3>2 DEF ConnectBlock, CInv, TypeOK
  <2>4. size' \in 0 .. MaxReferredBlocks /\ pc' \in {"idle", "walk"}
    BY DEF ConnectBlock, CInv, TypeOK
  <2>5. count' \in 1 .. MaxNodes
    BY <1>1, NextChallengeAssumption
  <2>. QED  BY <2>1, <2>2, <2>3, <2>4, <2>5, Zenon DEF TypeOK
<1>5. TreeOK'
  BY <1>2, <1>3 DEF CInv, TreeOK
<1>6. WalkOK'
  <2> SUFFICES ASSUME lastNode # Nil
               PROVE  WalkOK'
    BY DEF ConnectBlock, WalkOK
  <2>1. lastNode \in Nodes /\ \A i \in 1 .. Len(headers) : headers[i] \in Nodes
    BY DEF CInv, TypeOK, WalkOK
  <2>2. /\ height'[lastNode] = height[lastNode]
        /\ \A i \in 1 .. Len(headers) :
               height'[headers[i]] = height[headers[i]]
               /\ parent'[headers[i]] = parent[headers[i]]
    BY <1>3, <2>1
  <2>3. UNCHANGED <<lastNode, size, refNode, headers, pc>>
    BY DEF ConnectBlock
  <2>4. headers # <<>> => Len(headers) \in 1 .. Len(headers)
    BY DEF CInv, TypeOK
  <2>5. pc = "walk" =>
           refNode = IF headers = <<>> THEN lastNode
                     ELSE parent'[headers[Len(headers)]]
    BY <2>2, <2>4 DEF CInv, WalkOK
  <2>6. \A i \in 1 .. Len(headers) - 1 : headers[i + 1] = parent'[headers[i]]
    BY <2>2 DEF CInv, WalkOK
  <2>7. \A i \in 1 .. Len(headers) :
           headers[i] \in Nodes' /\ height'[headers[i]] = height'[lastNode] - (i - 1)
    BY <1>2, <2>1, <2>2 DEF CInv, WalkOK
  <2>8. size = Window(height'[lastNode])
    BY <2>2 DEF CInv, WalkOK
  <2>. QED  BY <2>3, <2>5, <2>6, <2>7, <2>8 DEF CInv, WalkOK
<1>. QED  BY <1>4, <1>5, <1>6 DEF ConnectBlock, CInv

\* The call starts from the best node with the window below it.
LEMMA CalcCInv ==
    ASSUME HeightsBelowTop, CInv, CalcNextChallenge
    PROVE  CInv'
<1>1. best \in Nodes /\ best # Nil /\ height[best] \in 0 .. MaxHeight
  BY NilNotNode DEF CInv, TypeOK
<1>2. size' = Window(height[best]) /\ Window(height[best]) \in 1 .. MaxReferredBlocks
  BY <1>1, SizeIsWindow DEF CalcNextChallenge
<1>3. /\ count' = count /\ parent' = parent /\ height' = height /\ best' = best
      /\ lastNode' = best /\ refNode' = best /\ headers' = <<>> /\ pc' = "walk"
  BY DEF CalcNextChallenge, tree
<1>4. TypeOK'
  BY <1>1, <1>2, <1>3 DEF CInv, TypeOK, Nodes
<1>5. TreeOK'
  BY <1>3 DEF CInv, TreeOK, Nodes
<1>6. WalkOK'
  BY <1>1, <1>2, <1>3 DEF WalkOK
<1>. QED  BY <1>1, <1>3, <1>4, <1>5, <1>6 DEF CInv

\* One iteration reads a real node: the chain below lastNode reaches
\* genesis only after height+1 headers, and size is at most that.
LEMMA CollectCInv ==
    ASSUME CInv, CollectHeader
    PROVE  CInv'
<1>0. /\ pc = "walk" /\ lastNode \in Nodes
      /\ headers \in Seq(Nodes \cup {Nil})
      /\ height[lastNode] \in Nat /\ size = Window(height[lastNode])
      /\ Len(headers) < size
  <2>1. lastNode \in Nodes /\ height[lastNode] \in Nat
    BY NilNotNode DEF CollectHeader, CInv, TypeOK
  <2>. QED  BY <2>1 DEF CollectHeader, CInv, TypeOK, WalkOK
<1>1. PICK h \in Nat : h = height[lastNode]
  BY <1>0
<1>2. PICK n \in Nat : n = Len(headers)
  BY <1>0
<1>3. /\ size \in Nat /\ n < size /\ size <= h + 1
      /\ (headers = <<>>) <=> (n = 0)
  <2>1. size \in Nat
    BY DEF CInv, TypeOK
  <2>2. n < size /\ size <= h + 1
    BY <1>0, <1>1, <1>2, <2>1, NextChallengeAssumption DEF Window
  <2>3. (headers = <<>>) <=> (n = 0)
    BY <1>0, <1>2, EmptySeq
  <2>. QED  BY <2>1, <2>2, <2>3
<1>4. /\ \A i \in 1 .. n : headers[i] \in Nodes /\ height[headers[i]] = h - (i - 1)
      /\ n >= 1 => headers[1] = lastNode
      /\ \A i \in 1 .. n - 1 : headers[i + 1] = parent[headers[i]]
      /\ refNode = IF headers = <<>> THEN lastNode ELSE parent[headers[n]]
  BY <1>0, <1>1, <1>2 DEF CollectHeader, CInv, WalkOK
<1>5. refNode \in Nodes /\ height[refNode] = h - n
  <2>1. CASE n = 0
    BY <1>0, <1>1, <1>3, <1>4, <2>1
  <2>2. CASE n # 0
    <3>1. n \in 1 .. n /\ headers # <<>>
      BY <1>3, <2>2
    <3>2. headers[n] \in Nodes /\ height[headers[n]] = h - (n - 1)
      BY <1>4, <3>1
    <3>3. \/ parent[headers[n]] = Nil /\ height[headers[n]] = 0
          \/ parent[headers[n]] \in Nodes
             /\ height[headers[n]] = height[parent[headers[n]]] + 1
      BY <3>2 DEF CInv, TreeOK
    <3>4. h - (n - 1) # 0
      BY <1>3, <2>2
    <3>5. refNode = parent[headers[n]]
      BY <1>4, <3>1
    <3>6. parent[headers[n]] \in Nodes
          /\ height[headers[n]] = height[parent[headers[n]]] + 1
      BY <3>2, <3>3, <3>4
    <3>7. height[parent[headers[n]]] \in Nat
      BY <3>6 DEF CInv, TypeOK
    <3>. QED  BY <3>2, <3>5, <3>6, <3>7
  <2>. QED  BY <2>1, <2>2
<1>6. /\ refNode # Nil
      /\ headers' = Append(headers, refNode) /\ refNode' = parent[refNode]
      /\ UNCHANGED <<count, parent, height, best, lastNode, size, pc>>
  BY <1>5, NilNotNode DEF CollectHeader, CInv
<1>7. /\ headers' \in Seq(Nodes \cup {Nil})
      /\ Len(headers') = n + 1
      /\ \A i \in 1 .. n : headers'[i] = headers[i]
      /\ headers'[n + 1] = refNode
      /\ headers' # <<>>
  BY <1>0, <1>2, <1>5, <1>6, AppendProperties
<1>8. TypeOK'
  <2>1. parent[refNode] \in Nodes \cup {Nil}
    BY <1>5 DEF CInv, TypeOK
  <2>. QED  BY <1>6, <1>7, <2>1 DEF CInv, TypeOK, Nodes
<1>9. TreeOK'
  BY <1>6 DEF CInv, TreeOK, Nodes
<1>10. WalkOK'
  <2>0. /\ lastNode' = lastNode /\ lastNode # Nil /\ height' = height
        /\ size' = size /\ pc' = "walk" /\ parent' = parent
        /\ size = Window(h) /\ headers' # <<>> /\ h = height'[lastNode']
        /\ Nodes' = Nodes
    BY <1>0, <1>1, <1>6, <1>7, NilNotNode DEF CInv, Nodes
  <2> SUFFICES /\ Len(headers') <= size'
               /\ \A i \in 1 .. Len(headers') :
                      /\ headers'[i] \in Nodes
                      /\ height'[headers'[i]] = height'[lastNode'] - (i - 1)
               /\ Len(headers') >= 1 => headers'[1] = lastNode'
               /\ \A i \in 1 .. Len(headers') - 1 : headers'[i + 1] = parent'[headers'[i]]
               /\ refNode' = parent'[headers'[Len(headers')]]
    <3>1. size' = Window(height'[lastNode'])
      BY <2>0
    <3>2. pc' = "walk" =>
               refNode' = IF headers' = <<>> THEN lastNode'
                          ELSE parent'[headers'[Len(headers')]]
      BY <2>0
    <3>3. pc' = "idle" => Len(headers') = size'
      BY <2>0
    <3>4. lastNode' # Nil
      BY <2>0
    <3>. QED  BY <2>0, <3>1, <3>2, <3>3, <3>4 DEF WalkOK
  <2>1. Len(headers') <= size
    BY <1>3, <1>7
  <2>2. ASSUME NEW i \in 1 .. n + 1
        PROVE  headers'[i] \in Nodes /\ height[headers'[i]] = h - (i - 1)
    <3>1. CASE i <= n
      BY <1>4, <1>7, <3>1
    <3>2. CASE i = n + 1
      BY <1>5, <1>7, <3>2
    <3>. QED  BY <3>1, <3>2
  <2>3. headers'[1] = lastNode
    <3>1. CASE n = 0
      BY <1>3, <1>4, <1>7, <3>1
    <3>2. CASE n # 0
      BY <1>4, <1>7, <3>2
    <3>. QED  BY <3>1, <3>2
  <2>4. ASSUME NEW i \in 1 .. n PROVE headers'[i + 1] = parent[headers'[i]]
    <3>1. CASE i < n
      BY <1>4, <1>7, <3>1
    <3>2. CASE i = n
      BY <1>3, <1>4, <1>7, <3>2
    <3>. QED  BY <3>1, <3>2
  <2>5. refNode' = parent[headers'[n + 1]]
    BY <1>6, <1>7
  <2>6. (n + 1) - 1 = n
    OBVIOUS
  <2>. QED  BY <1>7, <2>0, <2>1, <2>2, <2>3, <2>4, <2>5, <2>6
<1>. QED  BY <1>6, <1>8, <1>9, <1>10 DEF CInv

\* The loop ends after exactly size headers.
LEMMA HandOverCInv ==
    ASSUME CInv, HandOver
    PROVE  CInv'
<1>1. lastNode # Nil /\ Len(headers) = size
  <2>1. lastNode # Nil /\ Len(headers) <= size /\ Len(headers) >= size /\ size \in Nat
    BY DEF HandOver, CInv, WalkOK, TypeOK
  <2>2. PICK n \in Nat : n = Len(headers)
    BY DEF CInv, TypeOK
  <2>. QED  BY <2>1, <2>2
<1>. QED  BY <1>1 DEF HandOver, CInv, TypeOK, TreeOK, WalkOK, Nodes

LEMMA NextCInv ==
    ASSUME HeightsBelowTop
    PROVE  CInv /\ [Next]_vars => CInv'
<1> SUFFICES ASSUME CInv, [Next]_vars PROVE CInv'
  OBVIOUS
<1>1. ASSUME NEW p \in Nodes, ConnectBlock(p) PROVE CInv'
  BY <1>1, ConnectBlockCInv
<1>2. ASSUME NEW n \in Nodes, SetBest(n) PROVE CInv'
  BY <1>2 DEF SetBest, CInv, TypeOK, TreeOK, WalkOK, Nodes
<1>3. CASE CalcNextChallenge
  BY <1>3, CalcCInv
<1>4. CASE CollectHeader
  BY <1>4, CollectCInv
<1>5. CASE HandOver
  BY <1>5, HandOverCInv
<1>6. CASE UNCHANGED vars
  BY <1>6 DEF vars, CInv, TypeOK, TreeOK, WalkOK, Nodes
<1>. QED  BY <1>1, <1>2, <1>3, <1>4, <1>5, <1>6 DEF Next

LEMMA CInvWindow == CInv => ChallengeWindow
<1> SUFFICES ASSUME CInv, pc = "idle", lastNode # Nil
             PROVE  LET h == height[lastNode]
                        k == IF h + 1 < MaxReferredBlocks THEN h + 1 ELSE MaxReferredBlocks
                    IN  /\ Len(headers) = k
                        /\ \A i \in 1 .. k : headers[i] # Nil
                        /\ headers[1] = lastNode
                        /\ \A i \in 1 .. k : height[headers[i]] = height[lastNode] - (i - 1)
                        /\ \A i \in 1 .. k - 1 : headers[i + 1] = parent[headers[i]]
  BY DEF ChallengeWindow
<1>1. Len(headers) = Window(height[lastNode]) /\ Len(headers) >= 1
  BY NextChallengeAssumption DEF CInv, WalkOK, Window, TypeOK, Nodes
<1>2. \A i \in 1 .. Len(headers) : headers[i] # Nil
  BY NilNotNode DEF CInv, WalkOK
<1>. QED  BY <1>1, <1>2 DEF CInv, WalkOK, Window

(***************************************************************************)
(* For every word width, window and tree bound, if no block is connected  *)
(* at the largest height, every call of calcNextChallenge that leaves its *)
(* loop has collected the newest min(MaxReferredBlocks, Height+1) blocks  *)
(* of the chain ending at the best node it started from, newest first,   *)
(* without reading a nil Parent, however blocks are connected and the     *)
(* best node moves while it runs (ChallengeWindow).                       *)
(***************************************************************************)
THEOREM ChallengeWindowCorrect ==
    ASSUME HeightsBelowTop PROVE Spec => []ChallengeWindow
<1>1. Spec => []CInv
  BY InitCInv, NextCInv, PTL DEF Spec
<1>. QED  BY <1>1, CInvWindow, PTL

=============================================================================
