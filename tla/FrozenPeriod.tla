----------------------------- MODULE FrozenPeriod -----------------------------
(***************************************************************************)
(* The staking branch of verifyWitnessProgram (package txscript): the     *)
(* witness extension program of a staking output holds a script number,   *)
(* its frozen period.  The period is decoded into an int64, refused when  *)
(* it is negative or when frozenPeriod+1 is (int64 addition wraps in Go), *)
(* incremented, and written with PutUint64 as the lock of the script      *)
(* <lock> OP_CHECKSEQUENCEVERIFY OP_DROP that runs next.                  *)
(*                                                                        *)
(* Words have Width bits (64 in the build).  Decoding is makeScriptNum,   *)
(* which is not part of this repository: it either fails or yields an     *)
(* int64, and the model takes every int64 as possible.                    *)
(***************************************************************************)
EXTENDS Integers

CONSTANT Width    \* bits of int64 and uint64

Half == 2 ^ (Width - 1)           \* 2^63
Modulus == 2 * Half               \* 2^64
MinInt == -Half                   \* math.MinInt64
MaxInt == Half - 1                \* math.MaxInt64
Int64s == MinInt .. MaxInt

ASSUME FrozenAssumption ==
    /\ Width \in Nat \ {0}
    /\ Half \in Nat \ {0}

NoErr == "nil"
ErrDecode == "makeScriptNum"
ErrInvalidFrozenPeriod == "invalid frozen period"
NoLock == -1                      \* no lock script was built

\* int64 addition, which wraps, and the uint64 conversion of an int64.
AddI(a, b) == ((a + b + Half) % Modulus) - Half
ToUint64(x) == x % Modulus

VARIABLES
    called,        \* verifyWitnessProgram has reached the staking branch
    decoded,       \* whether makeScriptNum succeeded
    frozenPeriod,  \* the int64 it returned
    err,           \* the error the branch returned
    lock           \* the uint64 written into the lock script

vars == <<called, decoded, frozenPeriod, err, lock>>

\* Mutant: only the sign of frozenPeriod is checked.
StakingLockNoOverflowGuard(ok, fp) ==
    IF ~ok THEN [err |-> ErrDecode, lock |-> NoLock]
    ELSE IF fp < 0
    THEN [err |-> ErrInvalidFrozenPeriod, lock |-> NoLock]
    ELSE [err |-> NoErr, lock |-> ToUint64(AddI(fp, 1))]

\* The error and the lock of the staking branch, for a decode that
\* succeeded iff ok with the value fp.
StakingLock(ok, fp) ==
    IF ~ok THEN [err |-> ErrDecode, lock |-> NoLock]
    ELSE IF fp < 0 \/ AddI(fp, 1) < 0
    THEN [err |-> ErrInvalidFrozenPeriod, lock |-> NoLock]
    ELSE [err |-> NoErr, lock |-> ToUint64(AddI(fp, 1))]

Init ==
    /\ called = FALSE
    /\ decoded = FALSE
    /\ frozenPeriod = 0
    /\ err = NoErr
    /\ lock = NoLock

\* One staking input is verified.
VerifyStaking(ok, fp) ==
    /\ called' = TRUE
    /\ decoded' = ok
    /\ frozenPeriod' = fp
    /\ err' = StakingLock(ok, fp).err
    /\ lock' = StakingLock(ok, fp).lock

Next == \E ok \in BOOLEAN, fp \in Int64s : VerifyStaking(ok, fp)

Spec == Init /\ [][Next]_vars

-----------------------------------------------------------------------------
TypeOK ==
    /\ called \in BOOLEAN
    /\ decoded \in BOOLEAN
    /\ frozenPeriod \in Int64s
    /\ err \in {NoErr, ErrDecode, ErrInvalidFrozenPeriod}
    /\ lock \in {NoLock} \cup (0 .. Modulus - 1)

(***************************************************************************)
(* A decoded frozen period is accepted iff frozenPeriod+1 is a positive   *)
(* int64, and then the lock OP_CHECKSEQUENCEVERIFY sees is exactly        *)
(* frozenPeriod + 1, below 2^63: the int64 wrap of the guard and the      *)
(* uint64 conversion never let a wrapped or sign-flipped lock through.    *)
(***************************************************************************)
LockIsNextPeriod ==
    called /\ decoded =>
        /\ (err = NoErr) <=> frozenPeriod \in 0 .. MaxInt - 1
        /\ err = NoErr => lock = frozenPeriod + 1 /\ lock \in 1 .. MaxInt
=============================================================================
