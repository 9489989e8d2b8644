---------------------------- MODULE ScriptEngine ----------------------------
(***************************************************************************)
(* The txscript script engine of src/txscript/engine.go: NewEngine, the    *)
(* Execute loop of Step calls, the hand-over from the witness program to   *)
(* the witness scripts (verifyWitnessProgram) and the final                *)
(* CheckErrorCondition.                                                    *)
(*                                                                         *)
(* Data is abstracted to what the engine's control depends on: a parsed    *)
(* opcode is one of the kinds in OpKinds, a stack element is the boolean   *)
(* it is read as, a script's bytes are classified as empty, well formed,   *)
(* too big or malformed, and the two cryptographic facts the engine uses   *)
(* (the witness script hashes to the witness program, the spending input's *)
(* sequence satisfies the lock) are booleans of the input.                 *)
(* Indices scriptIdx and scriptOff are 0-based as in the code.             *)
(***************************************************************************)
EXTENDS Integers, Sequences

CONSTANTS
    MaxOpsPerScript,   \* MaxOpsPerScript: counted opcodes allowed per script
    MaxStackSize,      \* maxStackSize: data plus alt stack elements
    PkScripts,         \* public key scripts NewEngine may be called with
    TxInputs,          \* spending inputs: witness, hash and lock outcomes
    FlagSets           \* ScriptFlags values NewEngine may be called with

(* Parsed opcodes, by what the engine does with them.  OP_TRUE/OP_FALSE    *)
(* push a true/false element, OP_BIGPUSH pushes more than                  *)
(* MaxScriptElementSize bytes, OP_DISABLED is a disabled opcode (OP_CAT),  *)
(* OP_VERIF an always-illegal one.                                         *)
OpKinds == {"OP_TRUE", "OP_FALSE", "OP_BIGPUSH", "OP_NOP", "OP_DROP",
            "OP_TOALTSTACK", "OP_FROMALTSTACK", "OP_IF", "OP_ELSE",
            "OP_ENDIF", "OP_CHECKSEQUENCEVERIFY", "OP_DISABLED", "OP_VERIF"}

(* Opcodes whose value is at most OP_16 (data pushes) are not counted.     *)
PushOps == {"OP_TRUE", "OP_FALSE", "OP_BIGPUSH"}

Conditionals == {"OP_IF", "OP_ELSE", "OP_ENDIF", "OP_VERIF"}

CondValues == {"OpCondTrue", "OpCondFalse", "OpCondSkip"}

ScriptBytes == {"empty", "ok", "large", "tooBig", "malformed"}

ExtProgs == {"none", "staking", "binding", "unknown", "invalid"}

Phases == {"new", "running", "check", "accepted", "rejected"}

NoErr == "none"

(* The errors NewEngine and Execute return; fmt.Errorf ones by their text. *)
ErrorCodes ==
    {"ErrDiscourageUpgradableWitnessProgram", "ErrInvalidFrozenPeriod",
     "ErrMalformedPush", "ErrPastInputScripts", "ErrScriptTooBig",
     "ErrStackCleanStack", "ErrStackElementTooBig", "ErrStackMissingEndif",
     "ErrStackNoIf", "ErrStackOpDisabled", "ErrStackOverflow",
     "ErrStackReservedOpcode", "ErrStackScriptFailed",
     "ErrStackScriptUnfinished", "ErrStackTooManyOperations",
     "ErrStackUnderflow", "ErrUnsatisfiedLockTime",
     "ErrWitnessExtProgUnknown", "ErrWitnessLength", "ErrWitnessProgramFormat",
     "ErrWitnessProgramMismatch", "ErrWitnessUnexpected"}

(* A parsed script and how its bytes classify; a witness element is one.  *)
WitnessElems == [ops : Seq(OpKinds), bytes : ScriptBytes]

(* A pkScript: its opcodes, and what txscript.ExtractWitnessProgramInfo    *)
(* finds in it (a witness program, its version and extension program, and  *)
(* whether a staking frozen period is in range).                           *)
PkScriptRecs == [ops : Seq(OpKinds), bytes : ScriptBytes, witProg : BOOLEAN,
                 version : Nat, ext : ExtProgs, frozenOK : BOOLEAN]

(* A spending input: its witness, whether the last witness element hashes  *)
(* to the witness program, whether its sequence satisfies a lock.          *)
TxInputRecs == [witness : Seq(WitnessElems), hashOK : BOOLEAN, lockOK : BOOLEAN]

(* parseScript: bytes that are not empty and parse without error yield at *)
(* least one opcode.                                                       *)
ParsedNonEmpty(rec) == rec.bytes \in {"ok", "large"} => rec.ops # <<>>

ASSUME EngineAssumption ==
    /\ MaxOpsPerScript \in Nat
    /\ MaxStackSize \in Nat
    /\ PkScripts \subseteq PkScriptRecs
    /\ TxInputs \subseteq TxInputRecs
    /\ FlagSets \subseteq SUBSET {"MASSip2"}
    /\ \A p \in PkScripts : ParsedNonEmpty(p)
    /\ \A t \in TxInputs : \A j \in 1 .. Len(t.witness) : ParsedNonEmpty(t.witness[j])

VARIABLES
    pkScript,    \* the pkScript argument of NewEngine
    tx,          \* vm.tx, the spending input vm.tx.TxIn[vm.txIdx]
    flags,       \* vm.flags
    scripts,     \* vm.scripts
    scriptIdx,   \* vm.scriptIdx
    scriptOff,   \* vm.scriptOff
    dstack,      \* vm.dstack, bottom first
    astack,      \* vm.astack, bottom first
    condStack,   \* vm.condStack
    numOps,      \* vm.numOps
    phase,       \* where the caller is: before NewEngine, in Execute's loop,
                 \* at its final CheckErrorCondition, or returned
    err          \* the error returned by NewEngine or Execute

vars == <<pkScript, tx, flags, scripts, scriptIdx, scriptOff, dstack, astack,
          condStack, numOps, phase, err>>

engineVars == <<scripts, scriptIdx, scriptOff, dstack, astack, condStack, numOps>>

Top(s) == s[Len(s)]
Pop(s) == SubSeq(s, 1, Len(s) - 1)

(* The witness fields NewEngine extracts from the pkScript.               *)
WitnessProgramSet == pkScript.witProg
IsWitnessVersionActive(v) == pkScript.witProg /\ pkScript.version = v

(* The script OP_CHECKSEQUENCEVERIFY script verifyWitnessProgram appends   *)
(* for staking and binding outputs: <lock> OP_CHECKSEQUENCEVERIFY OP_DROP. *)
(* The lock is frozenPeriod + 1 (or the binding period), never 0: true.    *)
LockScript == <<"OP_TRUE", "OP_CHECKSEQUENCEVERIFY", "OP_DROP">>

Fail(e) == [err |-> e, d |-> dstack, a |-> astack, c |-> condStack]
Ok(d, a, c) == [err |-> NoErr, d |-> d, a |-> a, c |-> c]

IsBranchExecuting(c) == c = <<>> \/ Top(c) = "OpCondTrue"

(* The opfunc of each opcode kind on the current stacks.                   *)
OpFunc(op) ==
    CASE op \in {"OP_TRUE", "OP_FALSE"} ->
            Ok(Append(dstack, op = "OP_TRUE"), astack, condStack)
      [] op = "OP_NOP" -> Ok(dstack, astack, condStack)
      [] op \in {"OP_DROP", "OP_TOALTSTACK", "OP_CHECKSEQUENCEVERIFY"}
                /\ dstack = <<>> -> Fail("ErrStackUnderflow")
      [] op = "OP_DROP" /\ dstack # <<>> -> Ok(Pop(dstack), astack, condStack)
      [] op = "OP_TOALTSTACK" /\ dstack # <<>> ->
            Ok(Pop(dstack), Append(astack, Top(dstack)), condStack)
      [] op = "OP_FROMALTSTACK" /\ astack = <<>> -> Fail("ErrStackUnderflow")
      [] op = "OP_FROMALTSTACK" /\ astack # <<>> ->
            Ok(Append(dstack, Top(astack)), Pop(astack), condStack)
      [] op = "OP_CHECKSEQUENCEVERIFY" /\ dstack # <<>> /\ ~tx.lockOK ->
            Fail("ErrUnsatisfiedLockTime")
      [] op = "OP_CHECKSEQUENCEVERIFY" /\ dstack # <<>> /\ tx.lockOK ->
            Ok(dstack, astack, condStack)
      [] op = "OP_IF" /\ ~IsBranchExecuting(condStack) ->
            Ok(dstack, astack, Append(condStack, "OpCondSkip"))
      [] op = "OP_IF" /\ IsBranchExecuting(condStack) /\ dstack = <<>> ->
            Fail("ErrStackUnderflow")
      [] op = "OP_IF" /\ IsBranchExecuting(condStack) /\ dstack # <<>> ->
            Ok(Pop(dstack), astack,
               Append(condStack, IF Top(dstack) THEN "OpCondTrue" ELSE "OpCondFalse"))
      [] op \in {"OP_ELSE", "OP_ENDIF"} /\ condStack = <<>> -> Fail("ErrStackNoIf")
      [] op = "OP_ELSE" /\ condStack # <<>> ->
            Ok(dstack, astack,
               [condStack EXCEPT ![Len(condStack)] =
                    CASE @ = "OpCondTrue" -> "OpCondFalse"
                      [] @ = "OpCondFalse" -> "OpCondTrue"
                      [] @ = "OpCondSkip" -> @])
      [] op = "OP_ENDIF" /\ condStack # <<>> -> Ok(dstack, astack, Pop(condStack))

(* Mutant: the operation limit is checked one operation late.           *)
ExecuteOpcodeOffByOne(op) ==
    LET n == IF op \in PushOps THEN numOps ELSE numOps + 1
        r == IF op = "OP_DISABLED" THEN Fail("ErrStackOpDisabled")
             ELSE IF op = "OP_VERIF" THEN Fail("ErrStackReservedOpcode")
             ELSE IF op \notin PushOps /\ n - 1 > MaxOpsPerScript THEN Fail("ErrStackTooManyOperations")
             ELSE IF op = "OP_BIGPUSH" THEN Fail("ErrStackElementTooBig")
             ELSE IF ~IsBranchExecuting(condStack) /\ op \notin Conditionals
             THEN Ok(dstack, astack, condStack)
             ELSE OpFunc(op)
    IN  [err |-> r.err, d |-> r.d, a |-> r.a, c |-> r.c, n |-> n]

(* executeOpcode: the checks made before the opfunc runs, and the opfunc.  *)
(* The result carries the new stacks and the new numOps.                   *)
ExecuteOpcode(op) ==
    LET n == IF op \in PushOps THEN numOps ELSE numOps + 1
        r == IF op = "OP_DISABLED" THEN Fail("ErrStackOpDisabled")
             ELSE IF op = "OP_VERIF" THEN Fail("ErrStackReservedOpcode")
             ELSE IF op \notin PushOps /\ n > MaxOpsPerScript THEN Fail("ErrStackTooManyOperations")
             ELSE IF op = "OP_BIGPUSH" THEN Fail("ErrStackElementTooBig")
             ELSE IF ~IsBranchExecuting(condStack) /\ op \notin Conditionals
             THEN Ok(dstack, astack, condStack)
             ELSE OpFunc(op)
    IN  [err |-> r.err, d |-> r.d, a |-> r.a, c |-> r.c, n |-> n]

ValidPC ==
    /\ scriptIdx < Len(scripts)
    /\ scriptOff < Len(scripts[scriptIdx + 1])

(* Mutant: the witness script is not checked against the program.        *)
VerifyWitnessProgramNoHashCheck ==
    LET w   == tx.witness
        ext == pkScript.ext
        bad == {i \in 1..Len(w) : w[i].bytes \in {"tooBig", "malformed"}}
        firstBad == IF 1 \in bad THEN 1 ELSE 2
        lock == IF \/ ext = "staking"
                   \/ ext = "binding" /\ "MASSip2" \in flags
                THEN <<LockScript>> ELSE <<>>
        WFail(e) == [err |-> e, extra |-> <<>>]
    IN  IF ~IsWitnessVersionActive(0) THEN WFail("ErrDiscourageUpgradableWitnessProgram")
        ELSE IF Len(w) # 2 THEN WFail("ErrWitnessLength")
        ELSE IF w[1].bytes = "empty" \/ w[2].bytes = "empty" THEN WFail("ErrWitnessLength")
        ELSE IF ext = "staking" /\ ~pkScript.frozenOK THEN WFail("ErrInvalidFrozenPeriod")
        ELSE IF ext \notin {"none", "staking", "binding"} THEN WFail("ErrWitnessExtProgUnknown")
        ELSE IF bad # {} /\ w[firstBad].bytes = "tooBig" THEN WFail("ErrScriptTooBig")
        ELSE IF bad # {} THEN WFail("ErrMalformedPush")
        ELSE [err |-> NoErr, extra |-> lock \o <<w[1].ops, w[2].ops>>]

(* Mutant: the staking lock is only enforced under MASSip2.              *)
VerifyWitnessProgramLockUnderFlag ==
    LET w   == tx.witness
        ext == pkScript.ext
        bad == {i \in 1..Len(w) : w[i].bytes \in {"tooBig", "malformed"}}
        firstBad == IF 1 \in bad THEN 1 ELSE 2
        lock == IF \/ ext = "staking" /\ "MASSip2" \in flags
                   \/ ext = "binding" /\ "MASSip2" \in flags
                THEN <<LockScript>> ELSE <<>>
        WFail(e) == [err |-> e, extra |-> <<>>]
    IN  IF ~IsWitnessVersionActive(0) THEN WFail("ErrDiscourageUpgradableWitnessProgram")
        ELSE IF Len(w) # 2 THEN WFail("ErrWitnessLength")
        ELSE IF w[1].bytes = "empty" \/ w[2].bytes = "empty" THEN WFail("ErrWitnessLength")
        ELSE IF ~tx.hashOK THEN WFail("ErrWitnessProgramMismatch")
        ELSE IF ext = "staking" /\ ~pkScript.frozenOK THEN WFail("ErrInvalidFrozenPeriod")
        ELSE IF ext \notin {"none", "staking", "binding"} THEN WFail("ErrWitnessExtProgUnknown")
        ELSE IF bad # {} /\ w[firstBad].bytes = "tooBig" THEN WFail("ErrScriptTooBig")
        ELSE IF bad # {} THEN WFail("ErrMalformedPush")
        ELSE [err |-> NoErr, extra |-> lock \o <<w[1].ops, w[2].ops>>]

(* Mutant: empty witness elements are let through.                       *)
VerifyWitnessProgramEmptyAllowed ==
    LET w   == tx.witness
        ext == pkScript.ext
        bad == {i \in 1..Len(w) : w[i].bytes \in {"tooBig", "malformed"}}
        firstBad == IF 1 \in bad THEN 1 ELSE 2
        lock == IF \/ ext = "staking"
                   \/ ext = "binding" /\ "MASSip2" \in flags
                THEN <<LockScript>> ELSE <<>>
        WFail(e) == [err |-> e, extra |-> <<>>]
    IN  IF ~IsWitnessVersionActive(0) THEN WFail("ErrDiscourageUpgradableWitnessProgram")
        ELSE IF Len(w) # 2 THEN WFail("ErrWitnessLength")
        ELSE IF ~tx.hashOK THEN WFail("ErrWitnessProgramMismatch")
        ELSE IF ext = "staking" /\ ~pkScript.frozenOK THEN WFail("ErrInvalidFrozenPeriod")
        ELSE IF ext \notin {"none", "staking", "binding"} THEN WFail("ErrWitnessExtProgUnknown")
        ELSE IF bad # {} /\ w[firstBad].bytes = "tooBig" THEN WFail("ErrScriptTooBig")
        ELSE IF bad # {} THEN WFail("ErrMalformedPush")
        ELSE [err |-> NoErr, extra |-> lock \o <<w[1].ops, w[2].ops>>]

(* verifyWitnessProgram(witness): the scripts it appends, or its error.    *)
(* The final check of the stack elements against MaxScriptElementSize      *)
(* reads the data stack, which Step has just emptied: it never fails.      *)
VerifyWitnessProgram ==
    LET w   == tx.witness
        ext == pkScript.ext
        bad == {i \in 1..Len(w) : w[i].bytes \in {"tooBig", "malformed"}}
        firstBad == IF 1 \in bad THEN 1 ELSE 2
        lock == IF \/ ext = "staking"
                   \/ ext = "binding" /\ "MASSip2" \in flags
                THEN <<LockScript>> ELSE <<>>
        WFail(e) == [err |-> e, extra |-> <<>>]
    IN  IF ~IsWitnessVersionActive(0) THEN WFail("ErrDiscourageUpgradableWitnessProgram")
        ELSE IF Len(w) # 2 THEN WFail("ErrWitnessLength")
        ELSE IF w[1].bytes = "empty" \/ w[2].bytes = "empty" THEN WFail("ErrWitnessLength")
        ELSE IF ~tx.hashOK THEN WFail("ErrWitnessProgramMismatch")
        ELSE IF ext = "staking" /\ ~pkScript.frozenOK THEN WFail("ErrInvalidFrozenPeriod")
        ELSE IF ext \notin {"none", "staking", "binding"} THEN WFail("ErrWitnessExtProgUnknown")
        ELSE IF bad # {} /\ w[firstBad].bytes = "tooBig" THEN WFail("ErrScriptTooBig")
        ELSE IF bad # {} THEN WFail("ErrMalformedPush")
        ELSE [err |-> NoErr, extra |-> lock \o <<w[1].ops, w[2].ops>>]

-----------------------------------------------------------------------------

Init ==
    /\ pkScript \in PkScripts
    /\ tx \in TxInputs
    /\ flags \in FlagSets
    /\ scripts = <<>>
    /\ scriptIdx = 0
    /\ scriptOff = 0
    /\ dstack = <<>>
    /\ astack = <<>>
    /\ condStack = <<>>
    /\ numOps = 0
    /\ phase = "new"
    /\ err = NoErr

Reject(e) ==
    /\ phase' = "rejected"
    /\ err' = e
    /\ UNCHANGED <<pkScript, tx, flags>>
    /\ UNCHANGED engineVars

(* NewEngine(pkScript, tx, txIdx, flags, ...).  txIdx is a valid index.   *)
(* A pkScript that extracts to a witness program always yields a non-nil   *)
(* program, so the "witnessProgram == nil" test never rejects, and a       *)
(* pkScript that is no witness program is not checked against the witness. *)
NewEngine ==
    /\ phase = "new"
    /\ IF pkScript.bytes = "empty" THEN Reject("ErrWitnessUnexpected")
       ELSE IF pkScript.bytes = "tooBig" THEN Reject("ErrScriptTooBig")
       ELSE IF pkScript.bytes = "malformed" THEN Reject("ErrMalformedPush")
       ELSE IF pkScript.witProg /\ pkScript.ext = "invalid"
       THEN Reject("ErrWitnessProgramFormat")
       ELSE /\ scripts' = <<pkScript.ops>>
            /\ phase' = "running"
            /\ UNCHANGED <<pkScript, tx, flags, scriptIdx, scriptOff, dstack,
                           astack, condStack, numOps, err>>

(* Step, for an opcode that is not the last of its script.                *)
StepInScript(r) ==
    /\ scriptOff + 1 < Len(scripts[scriptIdx + 1])
    /\ scriptOff' = scriptOff + 1
    /\ dstack' = r.d
    /\ astack' = r.a
    /\ condStack' = r.c
    /\ numOps' = r.n
    /\ UNCHANGED <<pkScript, tx, flags, scripts, scriptIdx, phase, err>>

(* Step, past the end of a script: the alt stack and numOps are reset, the *)
(* witness scripts are appended after the witness program, a zero-length   *)
(* script is skipped, and Execute's loop ends past the last script.        *)
(* Mutant: the alt stack survives into the next script.                  *)
EndScriptKeepsAltStack(r, d, newScripts, idx) ==
    LET next == IF idx < Len(newScripts) /\ Len(newScripts[idx + 1]) = 0
                THEN idx + 1 ELSE idx
    IN  /\ scripts' = newScripts
        /\ scriptIdx' = next
        /\ scriptOff' = 0
        /\ dstack' = d
        /\ astack' = r.a
        /\ condStack' = r.c
        /\ numOps' = 0
        /\ phase' = IF next >= Len(newScripts) THEN "check" ELSE "running"
        /\ UNCHANGED <<pkScript, tx, flags, err>>

EndScript(r, d, newScripts, idx) ==
    LET next == IF idx < Len(newScripts) /\ Len(newScripts[idx + 1]) = 0
                THEN idx + 1 ELSE idx
    IN  /\ scripts' = newScripts
        /\ scriptIdx' = next
        /\ scriptOff' = 0
        /\ dstack' = d
        /\ astack' = <<>>
        /\ condStack' = r.c
        /\ numOps' = 0
        /\ phase' = IF next >= Len(newScripts) THEN "check" ELSE "running"
        /\ UNCHANGED <<pkScript, tx, flags, err>>

(* Mutant: a finished script is run again instead of the next one.      *)
StepEndScriptNoAdvance(r) ==
    /\ scriptOff + 1 >= Len(scripts[scriptIdx + 1])
    /\ IF r.c # <<>>
       THEN Reject("ErrStackMissingEndif")
       ELSE \/ /\ ~(scriptIdx = 0 /\ WitnessProgramSet)
               /\ EndScript(r, r.d, scripts, scriptIdx)
            \/ /\ scriptIdx = 0 /\ WitnessProgramSet
               /\ Len(r.d) \notin {2, 3}
               /\ Reject("ErrStackUnderflow")
            \/ /\ scriptIdx = 0 /\ WitnessProgramSet
               /\ Len(r.d) \in {2, 3}
               /\ VerifyWitnessProgram.err # NoErr
               /\ Reject(VerifyWitnessProgram.err)
            \/ /\ scriptIdx = 0 /\ WitnessProgramSet
               /\ Len(r.d) \in {2, 3}
               /\ VerifyWitnessProgram.err = NoErr
               /\ EndScript(r, <<>>, scripts \o VerifyWitnessProgram.extra, 1)

StepEndScript(r) ==
    /\ scriptOff + 1 >= Len(scripts[scriptIdx + 1])
    /\ IF r.c # <<>>
       THEN Reject("ErrStackMissingEndif")
       ELSE \/ /\ ~(scriptIdx = 0 /\ WitnessProgramSet)
               /\ EndScript(r, r.d, scripts, scriptIdx + 1)
            \/ /\ scriptIdx = 0 /\ WitnessProgramSet
               /\ Len(r.d) \notin {2, 3}
               /\ Reject("ErrStackUnderflow")
            \/ /\ scriptIdx = 0 /\ WitnessProgramSet
               /\ Len(r.d) \in {2, 3}
               /\ VerifyWitnessProgram.err # NoErr
               /\ Reject(VerifyWitnessProgram.err)
            \/ /\ scriptIdx = 0 /\ WitnessProgramSet
               /\ Len(r.d) \in {2, 3}
               /\ VerifyWitnessProgram.err = NoErr
               /\ EndScript(r, <<>>, scripts \o VerifyWitnessProgram.extra, 1)

(* The data and alt stacks together stay within maxStackSize.             *)
StackFits(r) == Len(r.d) + Len(r.a) <= MaxStackSize

(* Step: one opcode of Execute's loop.                                    *)
Step ==
    /\ phase = "running"
    /\ IF ~ValidPC
       THEN Reject("ErrPastInputScripts")
       ELSE LET r == ExecuteOpcode(scripts[scriptIdx + 1][scriptOff + 1]) IN
            \/ /\ r.err # NoErr
               /\ Reject(r.err)
            \/ /\ r.err = NoErr
               /\ ~StackFits(r)
               /\ Reject("ErrStackOverflow")
            \/ /\ r.err = NoErr
               /\ StackFits(r)
               /\ StepInScript(r) \/ StepEndScript(r)

(* CheckErrorCondition(true), the last call of Execute.                   *)
CheckErrorCondition ==
    /\ phase = "check"
    /\ IF scriptIdx < Len(scripts)
       THEN Reject("ErrStackScriptUnfinished")
       ELSE \/ /\ Len(dstack) # 1
               /\ Reject("ErrStackCleanStack")
            \/ /\ Len(dstack) = 1
               /\ ~Top(dstack)
               /\ Reject("ErrStackScriptFailed")
            \/ /\ Len(dstack) = 1
               /\ Top(dstack)
               /\ dstack' = <<>>
               /\ phase' = "accepted"
               /\ UNCHANGED <<pkScript, tx, flags, scripts, scriptIdx, scriptOff,
                              astack, condStack, numOps, err>>

Next == NewEngine \/ Step \/ CheckErrorCondition

Spec == Init /\ [][Next]_vars

(* Execute is a sequential loop: each of its steps is taken once enabled. *)
FairSpec == Spec /\ WF_vars(Next)

-----------------------------------------------------------------------------

TypeOK ==
    /\ pkScript \in PkScriptRecs
    /\ tx \in TxInputRecs
    /\ flags \in SUBSET {"MASSip2"}
    /\ scripts \in Seq(Seq(OpKinds))
    /\ scriptIdx \in Nat
    /\ scriptOff \in Nat
    /\ dstack \in Seq(BOOLEAN)
    /\ astack \in Seq(BOOLEAN)
    /\ condStack \in Seq(CondValues)
    /\ numOps \in 0..MaxOpsPerScript
    /\ phase \in Phases
    /\ err \in ErrorCodes \cup {NoErr}

(* Every script starts from a clean slate: whenever Execute is about to    *)
(* run the first opcode of a script, no OP_IF of an earlier script is      *)
(* still open, the alt stack of the earlier script is gone and the         *)
(* operation count starts again (Step's end-of-script handling).           *)
ScriptBoundaryClean ==
    phase = "running" /\ scriptOff = 0 =>
        /\ condStack = <<>>
        /\ astack = <<>>
        /\ numOps = 0

(* The engine accepts a witness program only through its witness: the     *)
(* witness has exactly two elements, the second hashes to the program, the *)
(* version is 0, and both were appended and run as the last two scripts.   *)
WitnessEnforced ==
    phase = "accepted" /\ WitnessProgramSet =>
        /\ pkScript.version = 0
        /\ Len(tx.witness) = 2
        /\ tx.hashOK
        /\ Len(scripts) >= 3
        /\ SubSeq(scripts, Len(scripts) - 1, Len(scripts))
              = <<tx.witness[1].ops, tx.witness[2].ops>>

(* A staking output, and a binding output under MASSip2, is spent only by  *)
(* an input whose sequence satisfies its lock: the OP_CHECKSEQUENCEVERIFY  *)
(* script verifyWitnessProgram appends is run before the engine accepts.   *)
LockEnforced ==
    /\ phase = "accepted"
    /\ WitnessProgramSet
    /\ \/ pkScript.ext = "staking"
       \/ pkScript.ext = "binding" /\ "MASSip2" \in flags
    => tx.lockOK

(* Execute never steps past the scripts: a script is never found empty     *)
(* where Step expects an opcode (validPC never fails), because the         *)
(* pkScript and both witness elements are checked to be non-empty and a    *)
(* single zero-length script is skipped.                                   *)
PCStaysValid == err # "ErrPastInputScripts"

(* Execute returns: every run of the loop ends in acceptance or an error.  *)
ExecuteTerminates == <>(phase \in {"accepted", "rejected"})

(* BIP141, and the check NewEngine once made (the comment kept in          *)
(* NewEngine): when the pkScript is no witness program there MUST NOT be   *)
(* any witness data associated with the input.                             *)
NoUnexpectedWitness ==
    phase = "accepted" /\ ~WitnessProgramSet => tx.witness = <<>>

=============================================================================
