--------------------------- MODULE DiskSpace_proofs ---------------------------
(***************************************************************************)
(* CheckDiskSpaceWin answers exactly for every word width, provided the   *)
(* reserve is positive and no request reaches MaxInt64 - MinDiskSpace:    *)
(* then the uint64 sum does not wrap, int64(...) keeps it positive, and a *)
(* failed GetDiskFreeSpaceExW (0 bytes) is below it.  The run            *)
(* disk_space_wrap shows the answer wrong for larger requests.            *)
(***************************************************************************)
EXTENDS DiskSpace, TLAPS

\* A request within the signed range, and a positive reserve below it.
SafeRequests ==
    /\ MinDiskSpace \in 1 .. MaxInt
    /\ Requests \subseteq 0 .. MaxInt - MinDiskSpace

IInv ==
    /\ TypeOK
    /\ called => additional \in Requests
    /\ CheckExact

LEMMA WidthFacts == Half \in Nat \ {0} /\ Modulus = 2 * Half /\ MaxInt = Half - 1
BY DiskAssumption DEF Modulus, MaxInt

LEMMA ModSmall ==
    ASSUME NEW x \in Nat, NEW m \in Nat, x < m
    PROVE  x % m = x
OBVIOUS

LEMMA ToInt64Small ==
    ASSUME NEW u \in 0 .. MaxInt
    PROVE  ToInt64(u) = u
BY WidthFacts DEF ToInt64

\* Within the safe range the code computes the exact comparison.
LEMMA CheckArith ==
    ASSUME SafeRequests, NEW free \in 0 .. MaxInt, NEW ok \in BOOLEAN,
           NEW add \in Requests
    PROVE  CheckDiskSpaceWin(free, ok, add) <=> ok /\ free >= add + MinDiskSpace
<1>1. add \in 0 .. MaxInt - MinDiskSpace /\ MinDiskSpace \in 1 .. MaxInt
  BY DEF SafeRequests
<1>2. add + MinDiskSpace \in 1 .. MaxInt
  BY <1>1, WidthFacts
<1>3. add + MinDiskSpace < Modulus
  BY <1>2, WidthFacts
<1>4. AddU(add, MinDiskSpace) = add + MinDiskSpace
  BY <1>2, <1>3, WidthFacts, ModSmall DEF AddU
<1>5. ToInt64(AddU(add, MinDiskSpace)) = add + MinDiskSpace
  BY <1>2, <1>4, ToInt64Small
<1>6. CASE ok
  BY <1>5, <1>6 DEF CheckDiskSpaceWin
<1>7. CASE ~ok
  BY <1>2, <1>5, <1>7 DEF CheckDiskSpaceWin
<1>. QED
  BY <1>6, <1>7

LEMMA InitIInv == Init => IInv
<1> SUFFICES ASSUME Init PROVE IInv
  OBVIOUS
<1>1. 0 \in UInts /\ 0 \in 0 .. MaxInt
  BY WidthFacts DEF UInts
<1>. QED
  BY <1>1 DEF Init, IInv, TypeOK, CheckExact

LEMMA NextIInv ==
    ASSUME SafeRequests
    PROVE  IInv /\ [Next]_vars => IInv'
<1> SUFFICES ASSUME IInv, [Next]_vars PROVE IInv'
  OBVIOUS
<1>1. ASSUME NEW add \in Requests, NEW ok \in BOOLEAN, Check(add, ok) PROVE IInv'
  <2>1. avail \in 0 .. MaxInt
    BY DEF IInv, TypeOK
  <2>2. result' <=> ok /\ avail >= add + MinDiskSpace
    BY <1>1, <2>1, CheckArith DEF Check
  <2>3. add \in UInts
    BY DiskAssumption DEF UInts
  <2>4. TypeOK'
    BY <1>1, <2>1, <2>3 DEF Check, IInv, TypeOK, CheckDiskSpaceWin
  <2>5. CheckExact'
    BY <1>1, <2>2 DEF Check, CheckExact
  <2>. QED
    BY <1>1, <2>4, <2>5 DEF Check, IInv
<1>2. ASSUME NEW free \in 0 .. MaxInt, SpaceChanges(free) PROVE IInv'
  BY <1>2 DEF SpaceChanges, IInv, TypeOK, CheckExact
<1>3. CASE UNCHANGED vars
  BY <1>3 DEF vars, IInv, TypeOK, CheckExact
<1>. QED
  BY <1>1, <1>2, <1>3 DEF Next

(***************************************************************************)
(* For every width, reserve MinDiskSpace > 0 and set of requests below    *)
(* MaxInt64 - MinDiskSpace, every answer of CheckDiskSpaceWin is exact    *)
(* (CheckExact), however the volume's free space changes between calls.   *)
(***************************************************************************)
THEOREM SafeCheckExact ==
    ASSUME SafeRequests
    PROVE  Spec => []CheckExact
<1>1. Spec => []IInv
  BY InitIInv, NextIInv, PTL DEF Spec
<1>. QED
  BY <1>1, PTL DEF IInv
=============================================================================
