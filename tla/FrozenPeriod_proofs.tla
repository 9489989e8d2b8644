------------------------- MODULE FrozenPeriod_proofs -------------------------
(***************************************************************************)
(* The staking lock is frozenPeriod + 1 for every word width.  The guard  *)
(* refuses exactly the negative periods and MaxInt64, the one period      *)
(* whose successor wraps; below it AddI and ToUint64 are the identity.   *)
(***************************************************************************)
EXTENDS FrozenPeriod, TLAPS

IInv == TypeOK /\ LockIsNextPeriod

LEMMA WidthFacts ==
    /\ Half \in Nat \ {0}
    /\ Modulus = 2 * Half
    /\ MaxInt = Half - 1
    /\ MinInt = -Half
BY FrozenAssumption DEF Modulus, MaxInt, MinInt

LEMMA ModSmall ==
    ASSUME NEW x \in Nat, NEW m \in Nat, x < m
    PROVE  x % m = x
OBVIOUS

LEMMA ModRange ==
    ASSUME NEW n \in Int, NEW m \in Nat \ {0}
    PROVE  n % m \in 0 .. m - 1
OBVIOUS

\* The successor of an int64 under wrapping addition.
LEMMA AddOne ==
    ASSUME NEW fp \in Int64s
    PROVE  /\ fp \in MinInt .. MaxInt - 1 => AddI(fp, 1) = fp + 1
           /\ fp = MaxInt => AddI(fp, 1) = MinInt
<1>1. fp \in -Half .. Half - 1
  BY WidthFacts DEF Int64s
<1>2. ASSUME fp \in MinInt .. MaxInt - 1 PROVE AddI(fp, 1) = fp + 1
  <2>1. fp + 1 + Half \in 0 .. Modulus - 1
    BY <1>2, WidthFacts
  <2>2. (fp + 1 + Half) % Modulus = fp + 1 + Half
    BY <2>1, WidthFacts, ModSmall
  <2>. QED
    BY <1>1, <2>2, WidthFacts DEF AddI
<1>3. ASSUME fp = MaxInt PROVE AddI(fp, 1) = MinInt
  <2>1. fp + 1 + Half = Modulus
    BY <1>3, WidthFacts
  <2>2. Modulus % Modulus = 0
    BY WidthFacts
  <2>. QED
    BY <2>1, <2>2, WidthFacts DEF AddI
<1>. QED
  BY <1>2, <1>3

\* What the staking branch returns for a decoded period.
LEMMA StakingLockDecoded ==
    ASSUME NEW fp \in Int64s
    PROVE  /\ StakingLock(TRUE, fp).err = NoErr <=> fp \in 0 .. MaxInt - 1
           /\ fp \in 0 .. MaxInt - 1 => StakingLock(TRUE, fp).lock = fp + 1
<1>1. fp \in MinInt .. MaxInt
  BY DEF Int64s
<1>2. CASE fp \in 0 .. MaxInt - 1
  <2>1. AddI(fp, 1) = fp + 1 /\ fp + 1 \in 1 .. MaxInt
    BY <1>2, AddOne, WidthFacts
  <2>2. ToUint64(fp + 1) = fp + 1
    BY <2>1, WidthFacts, ModSmall DEF ToUint64
  <2>. QED
    BY <1>2, <2>1, <2>2 DEF StakingLock, NoErr, ErrDecode, ErrInvalidFrozenPeriod
<1>3. CASE fp < 0
  BY <1>3 DEF StakingLock, NoErr, ErrInvalidFrozenPeriod
<1>4. CASE fp = MaxInt
  <2>1. AddI(fp, 1) < 0
    BY <1>4, AddOne, WidthFacts
  <2>. QED
    BY <1>4, <2>1, WidthFacts DEF StakingLock, NoErr, ErrInvalidFrozenPeriod
<1>5. fp < 0 \/ fp \in 0 .. MaxInt - 1 \/ fp = MaxInt
  BY <1>1, WidthFacts
<1>. QED
  BY <1>2, <1>3, <1>4, <1>5

LEMMA InitIInv == Init => IInv
<1>1. 0 \in Int64s
  BY WidthFacts DEF Int64s
<1>. QED
  BY <1>1 DEF Init, IInv, TypeOK, LockIsNextPeriod

LEMMA NextIInv == IInv /\ [Next]_vars => IInv'
<1> SUFFICES ASSUME IInv, [Next]_vars PROVE IInv'
  OBVIOUS
<1>1. ASSUME NEW ok \in BOOLEAN, NEW fp \in Int64s, VerifyStaking(ok, fp)
      PROVE  IInv'
  <2>1. CASE ~ok
    BY <1>1, <2>1 DEF VerifyStaking, StakingLock, IInv, TypeOK, LockIsNextPeriod
  <2>2. CASE ok
    <3>1. StakingLock(TRUE, fp).err \in {NoErr, ErrInvalidFrozenPeriod}
      BY DEF StakingLock
    <3>2. StakingLock(TRUE, fp).lock \in {NoLock} \cup (0 .. Modulus - 1)
      <4>1. ToUint64(AddI(fp, 1)) \in 0 .. Modulus - 1
        <5>1. AddI(fp, 1) \in Int
          BY WidthFacts, ModRange DEF AddI, Int64s
        <5>. QED
          BY <5>1, WidthFacts, ModRange DEF ToUint64
      <4>. QED
        BY <4>1 DEF StakingLock
    <3>3. TypeOK'
      BY <1>1, <2>2, <3>1, <3>2 DEF VerifyStaking, TypeOK, ErrDecode
    <3>4. LockIsNextPeriod'
      <4>1. fp \in 0 .. MaxInt - 1 => fp + 1 \in 1 .. MaxInt
        BY WidthFacts
      <4>. QED
        BY <1>1, <2>2, <4>1, StakingLockDecoded DEF VerifyStaking, LockIsNextPeriod
    <3>. QED
      BY <3>3, <3>4 DEF IInv
  <2>. QED
    BY <2>1, <2>2
<1>2. CASE UNCHANGED vars
  BY <1>2 DEF vars, IInv, TypeOK, LockIsNextPeriod
<1>. QED
  BY <1>1, <1>2 DEF Next

(***************************************************************************)
(* For every word width, whatever frozen periods the staking inputs carry,*)
(* a decoded period is accepted exactly when it is in 0 .. MaxInt64 - 1,  *)
(* and the lock written for it is then frozenPeriod + 1 (LockIsNextPeriod).*)
(***************************************************************************)
THEOREM StakingLockCorrect == Spec => []LockIsNextPeriod
<1>1. Spec => []IInv
  BY InitIInv, NextIInv, PTL DEF Spec
<1>. QED
  BY <1>1, PTL DEF IInv
=============================================================================
