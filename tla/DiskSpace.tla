------------------------------ MODULE DiskSpace ------------------------------
(***************************************************************************)
(* CheckDiskSpaceWin (package disk, Windows build): asks the kernel for   *)
(* the bytes available to the caller on the volume of path, and answers   *)
(* whether they cover additional bytes on top of the MinDiskSpace         *)
(* reserve.  The available bytes are read into an int64 that starts at   *)
(* 0 and stays 0 when GetDiskFreeSpaceExW fails (ret == 0: the failure    *)
(* is only logged).  The sum additional+MinDiskSpace is a uint64 that     *)
(* wraps, and int64(...) reinterprets its top bit as the sign.            *)
(*                                                                        *)
(* Words have Width bits (64 in the build).  The volume's free space      *)
(* changes between calls; each call reads it once.                        *)
(***************************************************************************)
EXTENDS Naturals, Integers

CONSTANTS
    Width,         \* bits of uint64 and int64
    MinDiskSpace,  \* the reserve the check adds to every request
    Requests       \* the values of additional the callers pass

Half == 2 ^ (Width - 1)           \* 2^63: the weight of the sign bit
Modulus == 2 * Half               \* 2^64
MaxInt == Half - 1                \* math.MaxInt64 at this width
UInts == 0 .. Modulus - 1

ASSUME DiskAssumption ==
    /\ Width \in Nat \ {0}
    /\ Half \in Nat \ {0}
    /\ MinDiskSpace \in UInts
    /\ Requests \subseteq UInts

VARIABLES
    avail,      \* the free bytes available to the caller on the volume
    called,     \* a call has returned
    additional, \* the last call's request
    sysOk,      \* whether its GetDiskFreeSpaceExW succeeded (ret # 0)
    result,     \* what it returned
    reported    \* the free bytes the volume had at that call

vars == <<avail, called, additional, sysOk, result, reported>>

\* uint64 addition, and the int64 conversion of a uint64.
AddU(a, b) == (a + b) % Modulus
ToInt64(u) == IF u > MaxInt THEN u - Modulus ELSE u

\* Mutant: the reserve left out of the sum.
CheckDiskSpaceWinNoReserve(free, ok, add) ==
    LET lpFreeBytesAvailable == IF ok THEN free ELSE 0
    IN  lpFreeBytesAvailable >= ToInt64(add)

\* The value CheckDiskSpaceWin returns when the volume has free bytes
\* available and the call's GetDiskFreeSpaceExW succeeded iff ok.
CheckDiskSpaceWin(free, ok, add) ==
    LET lpFreeBytesAvailable == IF ok THEN free ELSE 0
    IN  lpFreeBytesAvailable >= ToInt64(AddU(add, MinDiskSpace))

Init ==
    /\ avail \in 0 .. MaxInt
    /\ called = FALSE
    /\ additional = 0
    /\ sysOk = TRUE
    /\ result = FALSE
    /\ reported = 0

\* One call of CheckDiskSpaceWin(path, add).
Check(add, ok) ==
    /\ called' = TRUE
    /\ additional' = add
    /\ sysOk' = ok
    /\ result' = CheckDiskSpaceWin(avail, ok, add)
    /\ reported' = avail
    /\ UNCHANGED avail

\* Other writers fill or free the volume between calls.
SpaceChanges(free) ==
    /\ avail' = free
    /\ UNCHANGED <<called, additional, sysOk, result, reported>>

Next ==
    \/ \E add \in Requests, ok \in BOOLEAN : Check(add, ok)
    \/ \E free \in 0 .. MaxInt : SpaceChanges(free)

Spec == Init /\ [][Next]_vars

-----------------------------------------------------------------------------
TypeOK ==
    /\ avail \in 0 .. MaxInt
    /\ called \in BOOLEAN
    /\ additional \in UInts
    /\ sysOk \in BOOLEAN
    /\ result \in BOOLEAN
    /\ reported \in 0 .. MaxInt

(***************************************************************************)
(* The answer of the last CheckDiskSpaceWin call is exact: it said there  *)
(* is room iff the kernel reported at least additional + MinDiskSpace     *)
(* free bytes, counted without wrap-around; a failed GetDiskFreeSpaceExW  *)
(* never reports room.                                                    *)
(***************************************************************************)
CheckExact ==
    called => (result <=> sysOk /\ reported >= additional + MinDiskSpace)
=============================================================================
