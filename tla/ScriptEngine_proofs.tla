------------------------- MODULE ScriptEngine_proofs -------------------------
(***************************************************************************)
(* Proofs about ScriptEngine, for every value of the constants that        *)
(* EngineAssumption allows: the type invariant, that every script of       *)
(* Execute starts with no open OP_IF, an empty alt stack and numOps = 0,   *)
(* that Step only reads opcodes that exist (PCValid), and that a witness   *)
(* program is accepted only through its witness and, for staking and       *)
(* binding outputs, only when the lock holds (WitnessEnforcedThm,          *)
(* LockEnforcedThm).                                                       *)
(***************************************************************************)
EXTENDS ScriptEngine, SequenceTheorems, TLAPS

(* What an opfunc returns: an error and the new stacks.                   *)
OpResults == [err : ErrorCodes \cup {NoErr}, d : Seq(BOOLEAN), a : Seq(BOOLEAN),
              c : Seq(CondValues)]

StacksOK ==
    /\ dstack \in Seq(BOOLEAN)
    /\ astack \in Seq(BOOLEAN)
    /\ condStack \in Seq(CondValues)

(* Taking the top element off a non-empty stack leaves a stack.           *)
LEMMA PopTopType ==
    ASSUME NEW S, NEW s \in Seq(S), s # <<>>
    PROVE  Pop(s) \in Seq(S) /\ Top(s) \in S
BY DEF Pop, Top

(* Overwriting the top of a stack with an element leaves a stack.         *)
LEMMA ExceptType ==
    ASSUME NEW S, NEW s \in Seq(S), s # <<>>, NEW v \in S
    PROVE  [s EXCEPT ![Len(s)] = v] \in Seq(S)
OBVIOUS

(* Each of two naturals is bounded by a bound of their sum.               *)
LEMMA SumBound ==
    ASSUME NEW a \in Nat, NEW b \in Nat, NEW m \in Nat, a + b <= m
    PROVE  a <= m /\ b <= m
OBVIOUS

(* A failing opfunc leaves the stacks as they are.                        *)
LEMMA FailType ==
    ASSUME StacksOK, NEW e \in ErrorCodes
    PROVE  Fail(e) \in OpResults
BY DEF StacksOK, Fail, OpResults

(* A succeeding opfunc returns the stacks it is given.                    *)
LEMMA OkType ==
    ASSUME NEW d \in Seq(BOOLEAN), NEW a \in Seq(BOOLEAN), NEW c \in Seq(CondValues)
    PROVE  Ok(d, a, c) \in OpResults
BY DEF Ok, OpResults, NoErr, ErrorCodes

(* Every opfunc the engine can reach returns stacks of the right types.   *)
LEMMA OpFuncType ==
    ASSUME StacksOK,
           NEW op \in OpKinds \ {"OP_BIGPUSH", "OP_DISABLED", "OP_VERIF"}
    PROVE  OpFunc(op) \in OpResults
<1> USE DEF StacksOK
<1>1. CASE op \in {"OP_TRUE", "OP_FALSE"}
  <2>1. OpFunc(op) = Ok(Append(dstack, op = "OP_TRUE"), astack, condStack)
    BY <1>1 DEF OpFunc
  <2>2. Append(dstack, op = "OP_TRUE") \in Seq(BOOLEAN)
    OBVIOUS
  <2>. QED  BY <2>1, <2>2, OkType
<1>2. CASE op = "OP_NOP"
  <2>1. OpFunc(op) = Ok(dstack, astack, condStack)
    BY <1>2 DEF OpFunc
  <2>. QED  BY <2>1, OkType
<1>3. CASE op \in {"OP_DROP", "OP_TOALTSTACK", "OP_CHECKSEQUENCEVERIFY"} /\ dstack = <<>>
  <2>1. OpFunc(op) = Fail("ErrStackUnderflow")
    BY <1>3 DEF OpFunc
  <2>. QED  BY <2>1, FailType DEF ErrorCodes
<1>4. CASE op = "OP_DROP" /\ dstack # <<>>
  <2>1. OpFunc(op) = Ok(Pop(dstack), astack, condStack)
    BY <1>4 DEF OpFunc
  <2>. QED  BY <1>4, <2>1, OkType, PopTopType
<1>5. CASE op = "OP_TOALTSTACK" /\ dstack # <<>>
  <2>1. OpFunc(op) = Ok(Pop(dstack), Append(astack, Top(dstack)), condStack)
    BY <1>5 DEF OpFunc
  <2>2. Pop(dstack) \in Seq(BOOLEAN) /\ Top(dstack) \in BOOLEAN
    BY <1>5, PopTopType
  <2>3. Append(astack, Top(dstack)) \in Seq(BOOLEAN)
    BY <2>2
  <2>. QED  BY <2>1, <2>2, <2>3, OkType
<1>6. CASE op = "OP_CHECKSEQUENCEVERIFY" /\ dstack # <<>>
  <2>1. OpFunc(op) \in {Fail("ErrUnsatisfiedLockTime"), Ok(dstack, astack, condStack)}
    BY <1>6 DEF OpFunc
  <2>. QED  BY <2>1, OkType, FailType DEF ErrorCodes
<1>7. CASE op = "OP_FROMALTSTACK" /\ astack = <<>>
  <2>1. OpFunc(op) = Fail("ErrStackUnderflow")
    BY <1>7 DEF OpFunc
  <2>. QED  BY <2>1, FailType DEF ErrorCodes
<1>8. CASE op = "OP_FROMALTSTACK" /\ astack # <<>>
  <2>1. OpFunc(op) = Ok(Append(dstack, Top(astack)), Pop(astack), condStack)
    BY <1>8 DEF OpFunc
  <2>2. Pop(astack) \in Seq(BOOLEAN) /\ Top(astack) \in BOOLEAN
    BY <1>8, PopTopType
  <2>3. Append(dstack, Top(astack)) \in Seq(BOOLEAN)
    BY <2>2
  <2>. QED  BY <2>1, <2>2, <2>3, OkType
<1>9. CASE op = "OP_IF" /\ ~IsBranchExecuting(condStack)
  <2>1. OpFunc(op) = Ok(dstack, astack, Append(condStack, "OpCondSkip"))
    BY <1>9 DEF OpFunc
  <2>2. Append(condStack, "OpCondSkip") \in Seq(CondValues)
    BY DEF CondValues
  <2>. QED  BY <2>1, <2>2, OkType
<1>10. CASE op = "OP_IF" /\ IsBranchExecuting(condStack) /\ dstack = <<>>
  <2>1. OpFunc(op) = Fail("ErrStackUnderflow")
    BY <1>10 DEF OpFunc
  <2>. QED  BY <2>1, FailType DEF ErrorCodes
<1>11. CASE op = "OP_IF" /\ IsBranchExecuting(condStack) /\ dstack # <<>>
  <2> DEFINE v == IF Top(dstack) THEN "OpCondTrue" ELSE "OpCondFalse"
  <2>1. OpFunc(op) = Ok(Pop(dstack), astack, Append(condStack, v))
    BY <1>11 DEF OpFunc
  <2>2. v \in CondValues
    BY DEF CondValues
  <2>3. Pop(dstack) \in Seq(BOOLEAN)
    BY <1>11, PopTopType
  <2>4. Append(condStack, v) \in Seq(CondValues)
    BY <2>2
  <2>. QED  BY <2>1, <2>3, <2>4, OkType
<1>12. CASE op \in {"OP_ELSE", "OP_ENDIF"} /\ condStack = <<>>
  <2>1. OpFunc(op) = Fail("ErrStackNoIf")
    BY <1>12 DEF OpFunc
  <2>. QED  BY <2>1, FailType DEF ErrorCodes
<1>13. CASE op = "OP_ELSE" /\ condStack # <<>>
  <2> DEFINE flip(x) == CASE x = "OpCondTrue" -> "OpCondFalse"
                          [] x = "OpCondFalse" -> "OpCondTrue"
                          [] x = "OpCondSkip" -> x
             c2 == [condStack EXCEPT ![Len(condStack)] = flip(@)]
  <2>1. OpFunc(op) = Ok(dstack, astack, c2)
    BY <1>13 DEF OpFunc
  <2>2. ASSUME NEW x \in CondValues PROVE flip(x) \in CondValues
    BY Zenon DEF CondValues
  <2>3. condStack[Len(condStack)] \in CondValues
    BY <1>13
  <2>4. flip(condStack[Len(condStack)]) \in CondValues
    BY <2>2, <2>3
  <2>5. c2 \in Seq(CondValues)
    BY <1>13, <2>4, ExceptType DEF c2
  <2>. QED  BY <2>1, <2>5, OkType
<1>14. CASE op = "OP_ENDIF" /\ condStack # <<>>
  <2>1. OpFunc(op) = Ok(dstack, astack, Pop(condStack))
    BY <1>14 DEF OpFunc
  <2>. QED  BY <1>14, <2>1, OkType, PopTopType
<1>. QED  BY <1>1, <1>2, <1>3, <1>4, <1>5, <1>6, <1>7, <1>8, <1>9, <1>10,
             <1>11, <1>12, <1>13, <1>14 DEF OpKinds

(* What executeOpcode returns for an opcode: the stacks it leaves, typed, *)
(* and, when it succeeds, an operation count within MaxOpsPerScript.      *)
ExecResultOK(r) ==
    /\ r.err \in ErrorCodes \cup {NoErr}
    /\ r.d \in Seq(BOOLEAN)
    /\ r.a \in Seq(BOOLEAN)
    /\ r.c \in Seq(CondValues)
    /\ r.err = NoErr => r.n \in 0..MaxOpsPerScript

(* executeOpcode never lets a script count more than MaxOpsPerScript      *)
(* operations: the limit is checked before the opfunc runs.               *)
LEMMA ExecuteOpcodeType ==
    ASSUME StacksOK, numOps \in 0..MaxOpsPerScript, NEW op \in OpKinds
    PROVE  ExecResultOK(ExecuteOpcode(op))
<1> DEFINE n == IF op \in PushOps THEN numOps ELSE numOps + 1
           R == IF op = "OP_DISABLED" THEN Fail("ErrStackOpDisabled")
                ELSE IF op = "OP_VERIF" THEN Fail("ErrStackReservedOpcode")
                ELSE IF op \notin PushOps /\ n > MaxOpsPerScript
                     THEN Fail("ErrStackTooManyOperations")
                ELSE IF op = "OP_BIGPUSH" THEN Fail("ErrStackElementTooBig")
                ELSE IF ~IsBranchExecuting(condStack) /\ op \notin Conditionals
                THEN Ok(dstack, astack, condStack)
                ELSE OpFunc(op)
<1>1. ExecuteOpcode(op) = [err |-> R.err, d |-> R.d, a |-> R.a, c |-> R.c, n |-> n]
  BY DEF ExecuteOpcode
<1>2. R \in OpResults
  <2>1. CASE op \in {"OP_DISABLED", "OP_VERIF", "OP_BIGPUSH"}
        \/ (op \notin PushOps /\ n > MaxOpsPerScript)
    BY <2>1, FailType DEF ErrorCodes, PushOps
  <2>2. CASE ~(op \in {"OP_DISABLED", "OP_VERIF", "OP_BIGPUSH"}
               \/ (op \notin PushOps /\ n > MaxOpsPerScript))
    <3>1. R \in {Ok(dstack, astack, condStack), OpFunc(op)}
      BY <2>2
    <3>. QED  BY <2>2, <3>1, OkType, OpFuncType DEF StacksOK
  <2>. QED  BY <2>1, <2>2
<1>3. R.err = NoErr => op \in PushOps \/ n <= MaxOpsPerScript
  BY EngineAssumption DEF Fail, NoErr, PushOps
<1>4. n \in Nat
  BY DEF PushOps
<1>. QED  BY <1>1, <1>2, <1>3, <1>4, EngineAssumption DEF ExecResultOK, OpResults

(* verifyWitnessProgram either fails with one of the engine's errors or   *)
(* returns scripts to append.                                             *)
LEMMA VerifyWitnessProgramType ==
    ASSUME tx \in TxInputRecs
    PROVE  /\ VerifyWitnessProgram.err \in ErrorCodes \cup {NoErr}
           /\ VerifyWitnessProgram.extra \in Seq(Seq(OpKinds))
<1> DEFINE w == tx.witness
<1>1. w \in Seq(WitnessElems)
  BY DEF TxInputRecs
<1>2. <<LockScript>> \in Seq(Seq(OpKinds))
  BY DEF LockScript, OpKinds
<1>3. Len(w) = 2 => <<w[1].ops, w[2].ops>> \in Seq(Seq(OpKinds))
  <2>1. HAVE Len(w) = 2
  <2>2. w[1] \in WitnessElems /\ w[2] \in WitnessElems
    BY <1>1, <2>1
  <2>3. w[1].ops \in Seq(OpKinds) /\ w[2].ops \in Seq(OpKinds)
    BY <2>2 DEF WitnessElems
  <2>. QED  BY <2>3
<1>4. <<>> \in Seq(Seq(OpKinds))
  OBVIOUS
<1>. QED  BY <1>2, <1>3, <1>4 DEF VerifyWitnessProgram, ErrorCodes, NoErr

-----------------------------------------------------------------------------
(* ScriptBoundaryClean is not inductive on its own: NewEngine starts the  *)
(* first script from whatever stacks the engine holds, so the invariant   *)
(* also records that the engine is untouched before NewEngine runs.       *)
FreshEngine ==
    phase = "new" =>
        /\ scripts = <<>> /\ scriptIdx = 0 /\ scriptOff = 0
        /\ dstack = <<>> /\ astack = <<>> /\ condStack = <<>> /\ numOps = 0

(* Step's overflow check keeps the data and alt stacks within            *)
(* maxStackSize together once an opcode has run; the invariant carries it *)
(* so that CheckErrorCondition's alt stack stays bounded.                  *)
StackBounded ==
    phase \in {"running", "check", "accepted"} =>
        Len(dstack) + Len(astack) <= MaxStackSize

Inv == TypeOK /\ FreshEngine /\ ScriptBoundaryClean /\ StackBounded

(* A returned error ends the run and keeps the invariant.                 *)
LEMMA RejectInv ==
    ASSUME Inv, NEW e \in ErrorCodes, Reject(e)
    PROVE  Inv'
BY DEF Inv, TypeOK, FreshEngine, ScriptBoundaryClean, StackBounded, Reject,
       engineVars, Phases

(* Moving to the next script, with every OP_IF closed, keeps the          *)
(* invariant: the alt stack and the operation count start again.          *)
LEMMA EndScriptInv ==
    ASSUME Inv, NEW r, ExecResultOK(r), r.err = NoErr, r.c = <<>>,
           NEW d \in Seq(BOOLEAN), Len(d) <= MaxStackSize,
           NEW ns \in Seq(Seq(OpKinds)), NEW idx \in Nat,
           EndScript(r, d, ns, idx)
    PROVE  Inv'
<1>1. TypeOK'
  BY EngineAssumption DEF Inv, TypeOK, EndScript, Phases, CondValues
<1>2. FreshEngine' /\ ScriptBoundaryClean' /\ StackBounded'
  BY DEF EndScript, FreshEngine, ScriptBoundaryClean, StackBounded
<1>. QED  BY <1>1, <1>2 DEF Inv

LEMMA InitInv == Init => Inv
BY EngineAssumption DEF Init, Inv, TypeOK, FreshEngine, ScriptBoundaryClean,
                        StackBounded, Phases, NoErr

LEMMA NewEngineInv ==
    ASSUME Inv, NewEngine
    PROVE  Inv'
<1>1. CASE pkScript.bytes \in {"empty", "tooBig", "malformed"}
           \/ (pkScript.witProg /\ pkScript.ext = "invalid")
  <2>1. \E e \in ErrorCodes : Reject(e)
    BY <1>1 DEF NewEngine, ErrorCodes
  <2>. QED  BY <2>1, RejectInv
<1>2. CASE ~(pkScript.bytes \in {"empty", "tooBig", "malformed"}
             \/ (pkScript.witProg /\ pkScript.ext = "invalid"))
  <2>1. /\ scripts' = <<pkScript.ops>> /\ phase' = "running"
        /\ UNCHANGED <<pkScript, tx, flags, scriptIdx, scriptOff, dstack,
                       astack, condStack, numOps, err>>
        /\ phase = "new"
    BY <1>2 DEF NewEngine
  <2>. QED  BY <2>1, EngineAssumption
            DEF Inv, TypeOK, FreshEngine, ScriptBoundaryClean, StackBounded,
                Phases, PkScriptRecs
<1>. QED  BY <1>1, <1>2

LEMMA CheckErrorConditionInv ==
    ASSUME Inv, CheckErrorCondition
    PROVE  Inv'
<1>1. CASE \E e \in ErrorCodes : Reject(e)
  BY <1>1, RejectInv
<1>2. CASE ~\E e \in ErrorCodes : Reject(e)
  <2>1. /\ dstack' = <<>> /\ phase' = "accepted"
        /\ UNCHANGED <<pkScript, tx, flags, scripts, scriptIdx, scriptOff,
                       astack, condStack, numOps, err>>
    BY <1>2 DEF CheckErrorCondition, ErrorCodes
  <2>2. TypeOK'
    BY <2>1 DEF Inv, TypeOK, Phases
  <2>3. FreshEngine' /\ ScriptBoundaryClean'
    BY <2>1 DEF FreshEngine, ScriptBoundaryClean
  <2>4. StackBounded'
    <3>1. phase = "check"
      BY DEF CheckErrorCondition
    <3>2. Len(dstack) + Len(astack) <= MaxStackSize
      BY <3>1 DEF Inv, StackBounded
    <3>3. Len(astack) <= MaxStackSize
      BY <3>2, EngineAssumption DEF Inv, TypeOK
    <3>. QED  BY <2>1, <3>3 DEF StackBounded
  <2>. QED  BY <2>2, <2>3, <2>4 DEF Inv
<1>. QED  BY <1>1, <1>2

(* One step of Execute's loop, for whatever executeOpcode returned.       *)
LEMMA StepBodyInv ==
    ASSUME Inv, phase = "running", NEW r, ExecResultOK(r),
           \/ r.err # NoErr /\ Reject(r.err)
           \/ r.err = NoErr /\ Reject("ErrStackOverflow")
           \/ r.err = NoErr /\ StackFits(r) /\ StepInScript(r)
           \/ r.err = NoErr /\ StackFits(r) /\ StepEndScript(r)
    PROVE  Inv'
<1> USE DEF Inv
<1>1. CASE r.err # NoErr /\ Reject(r.err)
  BY <1>1, RejectInv DEF ExecResultOK
<1>2. CASE r.err = NoErr /\ Reject("ErrStackOverflow")
  BY <1>2, RejectInv DEF ErrorCodes
<1>3. CASE r.err = NoErr /\ StackFits(r) /\ StepInScript(r)
  <2>1. phase = "running"
    OBVIOUS
  <2>2. /\ scriptOff' = scriptOff + 1
        /\ dstack' = r.d /\ astack' = r.a /\ condStack' = r.c /\ numOps' = r.n
        /\ UNCHANGED <<pkScript, tx, flags, scripts, scriptIdx, phase, err>>
    BY <1>3 DEF StepInScript
  <2>3. TypeOK'
    BY <1>3, <2>2 DEF ExecResultOK, TypeOK
  <2>4. FreshEngine' /\ ScriptBoundaryClean'
    BY <2>1, <2>2 DEF FreshEngine, ScriptBoundaryClean, TypeOK
  <2>5. StackBounded'
    BY <1>3, <2>2 DEF StackBounded, StackFits
  <2>. QED  BY <2>3, <2>4, <2>5
<1>4. CASE r.err = NoErr /\ StackFits(r) /\ StepEndScript(r)
  <2>1. CASE r.c # <<>>
    BY <1>4, <2>1, RejectInv DEF StepEndScript, ErrorCodes
  <2>2. CASE r.c = <<>>
    <3>1. VerifyWitnessProgram.err \in ErrorCodes \cup {NoErr}
          /\ VerifyWitnessProgram.extra \in Seq(Seq(OpKinds))
      BY VerifyWitnessProgramType DEF TypeOK
    <3>2. /\ r.d \in Seq(BOOLEAN) /\ r.a \in Seq(BOOLEAN)
          /\ scriptIdx + 1 \in Nat
          /\ <<>> \in Seq(BOOLEAN) /\ Len(<<>>) <= MaxStackSize
      BY EngineAssumption DEF ExecResultOK, TypeOK
    <3>3. Len(r.d) + Len(r.a) <= MaxStackSize
      BY <1>4 DEF StackFits
    <3>4. Len(r.d) <= MaxStackSize
      <4>1. Len(r.d) \in Nat /\ Len(r.a) \in Nat
        BY <3>2
      <4>. QED  BY <3>3, <4>1, EngineAssumption, SumBound
    <3>5. scripts \o VerifyWitnessProgram.extra \in Seq(Seq(OpKinds))
      BY <3>1 DEF TypeOK
    <3>6. \/ EndScript(r, r.d, scripts, scriptIdx + 1)
          \/ Reject("ErrStackUnderflow")
          \/ VerifyWitnessProgram.err # NoErr /\ Reject(VerifyWitnessProgram.err)
          \/ EndScript(r, <<>>, scripts \o VerifyWitnessProgram.extra, 1)
      BY <1>4, <2>2 DEF StepEndScript
    <3>7. CASE EndScript(r, r.d, scripts, scriptIdx + 1)
      BY <1>4, <2>2, <3>2, <3>7, <3>4, EndScriptInv DEF TypeOK
    <3>8. CASE Reject("ErrStackUnderflow")
      BY <3>8, RejectInv DEF ErrorCodes
    <3>9. CASE VerifyWitnessProgram.err # NoErr /\ Reject(VerifyWitnessProgram.err)
      BY <3>1, <3>9, RejectInv
    <3>10. CASE EndScript(r, <<>>, scripts \o VerifyWitnessProgram.extra, 1)
      BY <1>4, <2>2, <3>2, <3>10, <3>5, EndScriptInv
    <3>. QED  BY <3>6, <3>7, <3>8, <3>9, <3>10
  <2>. QED  BY <2>1, <2>2
<1>. QED  BY <1>1, <1>2, <1>3, <1>4

LEMMA StepInv ==
    ASSUME Inv, Step
    PROVE  Inv'
<1>1. CASE ~ValidPC
  BY <1>1, RejectInv DEF Step, ErrorCodes
<1>2. CASE ValidPC
  <2> DEFINE op == scripts[scriptIdx + 1][scriptOff + 1]
  <2>1. op \in OpKinds
    BY <1>2 DEF ValidPC, Inv, TypeOK
  <2>2. ExecResultOK(ExecuteOpcode(op))
    BY <2>1, ExecuteOpcodeType DEF Inv, TypeOK, StacksOK
  <2>3. LET r == ExecuteOpcode(op) IN
        \/ r.err # NoErr /\ Reject(r.err)
        \/ r.err = NoErr /\ Reject("ErrStackOverflow")
        \/ r.err = NoErr /\ StackFits(r) /\ StepInScript(r)
        \/ r.err = NoErr /\ StackFits(r) /\ StepEndScript(r)
    BY <1>2 DEF Step
  <2>4. phase = "running"
    BY DEF Step
  <2>. QED  BY <2>2, <2>3, <2>4, StepBodyInv
<1>. QED  BY <1>1, <1>2

(* The engine's state always has the types TypeOK gives it, and whenever  *)
(* Execute starts a script no OP_IF is open, the alt stack is empty and   *)
(* numOps is 0 (Step's end-of-script handling, engine.go 237-289).        *)
THEOREM InvInductive == Spec => []Inv
<1>1. Init => Inv
  BY InitInv
<1>2. Inv /\ [Next]_vars => Inv'
  <2> SUFFICES ASSUME Inv, [Next]_vars PROVE Inv'
    OBVIOUS
  <2>1. CASE NewEngine
    BY <2>1, NewEngineInv
  <2>2. CASE Step
    BY <2>2, StepInv
  <2>3. CASE CheckErrorCondition
    BY <2>3, CheckErrorConditionInv
  <2>4. CASE UNCHANGED vars
    BY <2>4 DEF vars, Inv, TypeOK, FreshEngine, ScriptBoundaryClean, StackBounded
  <2>. QED  BY <2>1, <2>2, <2>3, <2>4 DEF Next
<1>. QED  BY <1>1, <1>2, PTL DEF Spec

(* Type correctness of the engine: stacks hold booleans, condStack holds  *)
(* OpCond values, numOps never exceeds MaxOpsPerScript (executeOpcode's   *)
(* limit is checked before the count is kept), every error is one the     *)
(* engine defines.                                                        *)
THEOREM TypeCorrect == Spec => []TypeOK
BY InvInductive, PTL DEF Inv

(* Every script of Execute starts with no open OP_IF, an empty alt stack  *)
(* and numOps = 0, for every MaxOpsPerScript, MaxStackSize and input.     *)
THEOREM BoundaryClean == Spec => []ScriptBoundaryClean
BY InvInductive, PTL DEF Inv

-----------------------------------------------------------------------------
(* PCStaysValid.  Every script Execute can reach has an opcode: the        *)
(* pkScript and the witness elements are checked to be non-empty and      *)
(* well formed, and the lock script has three.  So EndScript never skips a *)
(* script and never leaves Step at an offset past its script.              *)
AllNonEmpty(ss) == \A j \in 1 .. Len(ss) : ss[j] # <<>>

PCInv ==
    /\ pkScript \in PkScripts
    /\ tx \in TxInputs
    /\ AllNonEmpty(scripts)
    /\ phase = "running" => ValidPC
    /\ err # "ErrPastInputScripts"

(* No opfunc reports ErrPastInputScripts.                                 *)
LEMMA OpFuncErr ==
    ASSUME NEW op \in OpKinds \ {"OP_BIGPUSH", "OP_DISABLED", "OP_VERIF"}
    PROVE  OpFunc(op).err # "ErrPastInputScripts"
BY DEF OpFunc, Fail, Ok, NoErr, OpKinds

LEMMA ExecuteOpcodeErr ==
    ASSUME NEW op \in OpKinds
    PROVE  ExecuteOpcode(op).err # "ErrPastInputScripts"
<1> DEFINE n == IF op \in PushOps THEN numOps ELSE numOps + 1
           R == IF op = "OP_DISABLED" THEN Fail("ErrStackOpDisabled")
                ELSE IF op = "OP_VERIF" THEN Fail("ErrStackReservedOpcode")
                ELSE IF op \notin PushOps /\ n > MaxOpsPerScript
                     THEN Fail("ErrStackTooManyOperations")
                ELSE IF op = "OP_BIGPUSH" THEN Fail("ErrStackElementTooBig")
                ELSE IF ~IsBranchExecuting(condStack) /\ op \notin Conditionals
                THEN Ok(dstack, astack, condStack)
                ELSE OpFunc(op)
<1>1. ExecuteOpcode(op).err = R.err
  BY DEF ExecuteOpcode
<1>2. CASE op \in {"OP_DISABLED", "OP_VERIF", "OP_BIGPUSH"}
           \/ (op \notin PushOps /\ n > MaxOpsPerScript)
  BY <1>1, <1>2 DEF Fail
<1>3. CASE ~(op \in {"OP_DISABLED", "OP_VERIF", "OP_BIGPUSH"}
             \/ (op \notin PushOps /\ n > MaxOpsPerScript))
  <2>1. R \in {Ok(dstack, astack, condStack), OpFunc(op)}
    BY <1>3
  <2>. QED  BY <1>1, <1>3, <2>1, OpFuncErr DEF Ok, NoErr
<1>. QED  BY <1>2, <1>3

(* verifyWitnessProgram never reports ErrPastInputScripts, and the        *)
(* scripts it appends are non-empty: the lock script, and two witness     *)
(* elements it has checked are neither empty nor malformed.               *)
LEMMA VerifyWitnessProgramScripts ==
    ASSUME tx \in TxInputs
    PROVE  /\ VerifyWitnessProgram.err # "ErrPastInputScripts"
           /\ VerifyWitnessProgram.err = NoErr =>
                  /\ Len(VerifyWitnessProgram.extra) >= 2
                  /\ VerifyWitnessProgram.extra \in Seq(Seq(OpKinds))
                  /\ AllNonEmpty(VerifyWitnessProgram.extra)
<1> DEFINE w == tx.witness
           ext == pkScript.ext
           bad == {i \in 1..Len(w) : w[i].bytes \in {"tooBig", "malformed"}}
           lock == IF \/ ext = "staking"
                      \/ ext = "binding" /\ "MASSip2" \in flags
                   THEN <<LockScript>> ELSE <<>>
<1>1. tx \in TxInputRecs /\ w \in Seq(WitnessElems)
      /\ \A j \in 1 .. Len(w) : ParsedNonEmpty(w[j])
  BY EngineAssumption DEF TxInputRecs
<1>2. VerifyWitnessProgram.err # "ErrPastInputScripts"
  BY DEF VerifyWitnessProgram, NoErr
<1>3. ASSUME VerifyWitnessProgram.err = NoErr
      PROVE  /\ Len(w) = 2
             /\ w[1].bytes \notin {"empty", "tooBig", "malformed"}
             /\ w[2].bytes \notin {"empty", "tooBig", "malformed"}
             /\ VerifyWitnessProgram.extra = lock \o <<w[1].ops, w[2].ops>>
  <2>1. Len(w) = 2 /\ w[1].bytes # "empty" /\ w[2].bytes # "empty" /\ bad = {}
    BY <1>3 DEF VerifyWitnessProgram, NoErr
  <2>2. VerifyWitnessProgram.extra = lock \o <<w[1].ops, w[2].ops>>
    BY <1>3, <2>1 DEF VerifyWitnessProgram, NoErr
  <2>. QED  BY <2>1, <2>2
<1>4. ASSUME VerifyWitnessProgram.err = NoErr
      PROVE  /\ Len(VerifyWitnessProgram.extra) >= 2
             /\ VerifyWitnessProgram.extra \in Seq(Seq(OpKinds))
             /\ AllNonEmpty(VerifyWitnessProgram.extra)
  <2>1. w[1] \in WitnessElems /\ w[2] \in WitnessElems
    BY <1>1, <1>3, <1>4
  <2>2. w[1].bytes \in {"ok", "large"} /\ w[2].bytes \in {"ok", "large"}
    BY <1>3, <1>4, <2>1 DEF WitnessElems, ScriptBytes
  <2>3. w[1].ops \in Seq(OpKinds) \ {<<>>} /\ w[2].ops \in Seq(OpKinds) \ {<<>>}
    BY <1>1, <1>3, <1>4, <2>1, <2>2 DEF ParsedNonEmpty, WitnessElems
  <2>4. LockScript \in Seq(OpKinds) \ {<<>>}
    BY DEF LockScript, OpKinds
  <2>5. lock \in {<<LockScript>>, <<>>}
    OBVIOUS
  <2>6. CASE lock = <<LockScript>>
    <3>1. VerifyWitnessProgram.extra = <<LockScript, w[1].ops, w[2].ops>>
      BY <1>3, <1>4, <2>6
    <3>. QED  BY <2>3, <2>4, <3>1 DEF AllNonEmpty
  <2>7. CASE lock = <<>>
    BY <1>3, <1>4, <2>3, <2>7 DEF AllNonEmpty
  <2>. QED  BY <2>5, <2>6, <2>7
<1>. QED  BY <1>2, <1>4

(* Appending non-empty scripts to non-empty scripts.                      *)
LEMMA ConcatNonEmpty ==
    ASSUME NEW a \in Seq(Seq(OpKinds)), NEW b \in Seq(Seq(OpKinds)),
           AllNonEmpty(a), AllNonEmpty(b)
    PROVE  AllNonEmpty(a \o b)
<1>1. /\ Len(a \o b) = Len(a) + Len(b)
      /\ \A i \in 1 .. Len(a) + Len(b) :
             (a \o b)[i] = IF i <= Len(a) THEN a[i] ELSE b[i - Len(a)]
  BY ConcatProperties
<1>2. SUFFICES ASSUME NEW j \in 1 .. Len(a) + Len(b) PROVE (a \o b)[j] # <<>>
  BY <1>1 DEF AllNonEmpty
<1>3. CASE j <= Len(a)
  <2>1. j \in 1 .. Len(a) /\ (a \o b)[j] = a[j]
    BY <1>1, <1>3
  <2>. QED  BY <2>1 DEF AllNonEmpty
<1>4. CASE ~(j <= Len(a))
  <2>1. j - Len(a) \in 1 .. Len(b) /\ (a \o b)[j] = b[j - Len(a)]
    BY <1>1, <1>4
  <2>. QED  BY <2>1 DEF AllNonEmpty
<1>. QED  BY <1>3, <1>4

LEMMA RejectPC ==
    ASSUME PCInv, NEW e, e # "ErrPastInputScripts", Reject(e)
    PROVE  PCInv'
BY DEF PCInv, Reject, engineVars

(* Moving on to a script of a list of non-empty scripts leaves the PC on  *)
(* an opcode, or ends the loop past the last one.                         *)
LEMMA EndScriptPC ==
    ASSUME PCInv, NEW r, NEW d, NEW ns \in Seq(Seq(OpKinds)), AllNonEmpty(ns),
           NEW idx \in Nat, EndScript(r, d, ns, idx)
    PROVE  PCInv'
<1>1. idx < Len(ns) => Len(ns[idx + 1]) # 0
  BY DEF AllNonEmpty
<1>2. /\ scripts' = ns /\ scriptIdx' = idx /\ scriptOff' = 0
      /\ phase' = IF idx >= Len(ns) THEN "check" ELSE "running"
      /\ UNCHANGED <<pkScript, tx, err>>
  BY <1>1 DEF EndScript
<1>3. phase' = "running" => ValidPC'
  BY <1>1, <1>2 DEF ValidPC
<1>. QED  BY <1>2, <1>3 DEF PCInv

LEMMA NewEnginePC ==
    ASSUME Inv, PCInv, NewEngine
    PROVE  PCInv'
<1>1. CASE pkScript.bytes \in {"empty", "tooBig", "malformed"}
           \/ (pkScript.witProg /\ pkScript.ext = "invalid")
  <2>1. \E e \in ErrorCodes \ {"ErrPastInputScripts"} : Reject(e)
    BY <1>1 DEF NewEngine, ErrorCodes
  <2>. QED  BY <2>1, RejectPC
<1>2. CASE ~(pkScript.bytes \in {"empty", "tooBig", "malformed"}
             \/ (pkScript.witProg /\ pkScript.ext = "invalid"))
  <2>1. /\ scripts' = <<pkScript.ops>> /\ phase' = "running"
        /\ UNCHANGED <<pkScript, tx, scriptIdx, scriptOff, err>>
        /\ scriptIdx = 0 /\ scriptOff = 0
    BY <1>2 DEF NewEngine, Inv, FreshEngine
  <2>2. pkScript.bytes \in {"ok", "large"}
    BY <1>2 DEF PCInv, Inv, TypeOK, PkScriptRecs, ScriptBytes
  <2>3. pkScript.ops \in Seq(OpKinds) /\ pkScript.ops # <<>>
    BY <2>2, EngineAssumption DEF PCInv, ParsedNonEmpty, Inv, TypeOK, PkScriptRecs
  <2>. QED  BY <2>1, <2>3 DEF PCInv, AllNonEmpty, ValidPC
<1>. QED  BY <1>1, <1>2

LEMMA CheckErrorConditionPC ==
    ASSUME PCInv, CheckErrorCondition
    PROVE  PCInv'
<1>1. CASE \E e \in ErrorCodes \ {"ErrPastInputScripts"} : Reject(e)
  BY <1>1, RejectPC
<1>2. CASE ~\E e \in ErrorCodes \ {"ErrPastInputScripts"} : Reject(e)
  <2>1. phase' = "accepted" /\ UNCHANGED <<pkScript, tx, scripts, err>>
    BY <1>2 DEF CheckErrorCondition, ErrorCodes
  <2>. QED  BY <2>1 DEF PCInv
<1>. QED  BY <1>1, <1>2

LEMMA StepPC ==
    ASSUME Inv, PCInv, Step
    PROVE  PCInv'
<1>1. phase = "running" /\ ValidPC
  BY DEF Step, PCInv
<1> DEFINE op == scripts[scriptIdx + 1][scriptOff + 1]
           r == ExecuteOpcode(op)
<1>2. op \in OpKinds
  BY <1>1 DEF ValidPC, Inv, TypeOK
<1>3. \/ r.err # NoErr /\ Reject(r.err)
      \/ r.err = NoErr /\ Reject("ErrStackOverflow")
      \/ r.err = NoErr /\ StepInScript(r)
      \/ r.err = NoErr /\ StepEndScript(r)
  BY <1>1 DEF Step
<1>4. CASE r.err # NoErr /\ Reject(r.err)
  BY <1>2, <1>4, ExecuteOpcodeErr, RejectPC
<1>5. CASE r.err = NoErr /\ Reject("ErrStackOverflow")
  BY <1>5, RejectPC
<1>6. CASE r.err = NoErr /\ StepInScript(r)
  BY <1>1, <1>6 DEF StepInScript, PCInv, ValidPC
<1>7. CASE r.err = NoErr /\ StepEndScript(r)
  <2>1. CASE r.c # <<>>
    BY <1>7, <2>1, RejectPC DEF StepEndScript
  <2>2. CASE r.c = <<>>
    <3>1. /\ scripts \in Seq(Seq(OpKinds)) /\ scriptIdx + 1 \in Nat
          /\ AllNonEmpty(scripts) /\ tx \in TxInputs
      BY DEF Inv, TypeOK, PCInv
    <3>2. \/ EndScript(r, r.d, scripts, scriptIdx + 1)
          \/ Reject("ErrStackUnderflow")
          \/ VerifyWitnessProgram.err # NoErr /\ Reject(VerifyWitnessProgram.err)
          \/ /\ VerifyWitnessProgram.err = NoErr
             /\ EndScript(r, <<>>, scripts \o VerifyWitnessProgram.extra, 1)
      BY <1>7, <2>2 DEF StepEndScript
    <3>3. CASE EndScript(r, r.d, scripts, scriptIdx + 1)
      BY <3>1, <3>3, EndScriptPC
    <3>4. CASE Reject("ErrStackUnderflow")
      BY <3>4, RejectPC
    <3>5. CASE VerifyWitnessProgram.err # NoErr /\ Reject(VerifyWitnessProgram.err)
      BY <3>1, <3>5, RejectPC, VerifyWitnessProgramScripts
    <3>6. CASE /\ VerifyWitnessProgram.err = NoErr
               /\ EndScript(r, <<>>, scripts \o VerifyWitnessProgram.extra, 1)
      <4>1. /\ VerifyWitnessProgram.extra \in Seq(Seq(OpKinds))
            /\ AllNonEmpty(VerifyWitnessProgram.extra)
        BY <3>1, <3>6, VerifyWitnessProgramScripts
      <4>2. /\ scripts \o VerifyWitnessProgram.extra \in Seq(Seq(OpKinds))
            /\ AllNonEmpty(scripts \o VerifyWitnessProgram.extra)
        BY <3>1, <4>1, ConcatNonEmpty
      <4>. QED  BY <3>6, <4>2, EndScriptPC
    <3>. QED  BY <3>2, <3>3, <3>4, <3>5, <3>6
  <2>. QED  BY <2>1, <2>2
<1>. QED  BY <1>3, <1>4, <1>5, <1>6, <1>7

LEMMA NextPC == Inv /\ PCInv /\ [Next]_vars => PCInv'
<1> SUFFICES ASSUME Inv, PCInv, [Next]_vars PROVE PCInv'
  OBVIOUS
<1>1. CASE NewEngine
  BY <1>1, NewEnginePC
<1>2. CASE Step
  BY <1>2, StepPC
<1>3. CASE CheckErrorCondition
  BY <1>3, CheckErrorConditionPC
<1>4. CASE UNCHANGED vars
  BY <1>4 DEF vars, PCInv, AllNonEmpty, ValidPC
<1>. QED  BY <1>1, <1>2, <1>3, <1>4 DEF Next

(* Execute never steps past its scripts (PCStaysValid): for every input   *)
(* whose scripts parse, Step's validPC check never fails, because each    *)
(* script the engine runs has an opcode and EndScript moves only onto     *)
(* such a script or out of the loop.                                      *)
THEOREM PCValid == Spec => []PCStaysValid
<1>1. Init => PCInv
  BY DEF Init, PCInv, AllNonEmpty, NoErr
<1>2. Spec => []PCInv
  BY <1>1, InvInductive, NextPC, PTL DEF Spec
<1>. QED  BY <1>2, PTL DEF PCInv, PCStaysValid

-----------------------------------------------------------------------------
(* WitnessEnforced and LockEnforced.  Once verifyWitnessProgram has        *)
(* succeeded, the scripts are the pkScript followed by what it returned    *)
(* (WInv), and before that the engine runs only the pkScript.  When the    *)
(* lock is required and not satisfied, the engine never gets past the      *)
(* OP_CHECKSEQUENCEVERIFY of the lock script (LInv).                       *)
CurOp == scripts[scriptIdx + 1][scriptOff + 1]
CurResult == ExecuteOpcode(CurOp)

\* The lock script verifyWitnessProgram puts in front of the witness.
WitnessLock ==
    IF \/ pkScript.ext = "staking"
       \/ pkScript.ext = "binding" /\ "MASSip2" \in flags
    THEN <<LockScript>> ELSE <<>>

LockRequired ==
    /\ WitnessProgramSet
    /\ \/ pkScript.ext = "staking"
       \/ pkScript.ext = "binding" /\ "MASSip2" \in flags

WInv ==
    /\ \/ scripts \in {<<>>, <<pkScript.ops>>}
       \/ /\ WitnessProgramSet /\ VerifyWitnessProgram.err = NoErr
          /\ scripts = <<pkScript.ops>> \o VerifyWitnessProgram.extra
    /\ phase \in {"running", "check", "accepted"} => scripts # <<>>
    /\ WitnessProgramSet /\ phase \in {"check", "accepted"} => Len(scripts) >= 2
    /\ phase = "running" /\ scriptIdx = 0 => scripts = <<pkScript.ops>>

LInv ==
    LockRequired /\ ~tx.lockOK /\ Len(scripts) >= 2 =>
        /\ phase \in {"running", "rejected"}
        /\ phase = "running" =>
               /\ scriptIdx = 1 /\ scriptOff \in {0, 1} /\ condStack = <<>>
               /\ scriptOff = 1 => dstack # <<>>

(* What one Step does: return an error, move within the script, move to   *)
(* the next script, or hand over to the witness scripts.                  *)
LEMMA StepCases ==
    ASSUME Step
    PROVE  \/ \E e : Reject(e)
           \/ /\ ValidPC /\ CurResult.err = NoErr
              /\ StepInScript(CurResult)
           \/ /\ ValidPC /\ CurResult.err = NoErr /\ CurResult.c = <<>>
              /\ scriptOff + 1 >= Len(scripts[scriptIdx + 1])
              /\ ~(scriptIdx = 0 /\ WitnessProgramSet)
              /\ EndScript(CurResult, CurResult.d, scripts, scriptIdx + 1)
           \/ /\ ValidPC /\ CurResult.err = NoErr /\ CurResult.c = <<>>
              /\ scriptOff + 1 >= Len(scripts[scriptIdx + 1])
              /\ scriptIdx = 0 /\ WitnessProgramSet
              /\ VerifyWitnessProgram.err = NoErr
              /\ EndScript(CurResult, <<>>, scripts \o VerifyWitnessProgram.extra, 1)
BY DEF Step, StepEndScript, CurResult, CurOp

(* A successful verifyWitnessProgram has checked the version, the number   *)
(* of witness elements and the hash, and returns the lock script (if any)  *)
(* and the two witness scripts.                                           *)
LEMMA VerifyWitnessProgramOk ==
    ASSUME VerifyWitnessProgram.err = NoErr
    PROVE  /\ pkScript.witProg /\ pkScript.version = 0
           /\ Len(tx.witness) = 2 /\ tx.hashOK
           /\ VerifyWitnessProgram.extra =
                  WitnessLock \o <<tx.witness[1].ops, tx.witness[2].ops>>
BY DEF VerifyWitnessProgram, IsWitnessVersionActive, WitnessLock, NoErr

LEMMA RejectW ==
    ASSUME WInv, NEW e, Reject(e)
    PROVE  WInv'
BY DEF Reject, engineVars, WInv, WitnessProgramSet,
       VerifyWitnessProgram, IsWitnessVersionActive

\* A returned error ends the run, wherever it was.
LEMMA RejectL ==
    ASSUME NEW e, Reject(e)
    PROVE  LInv'
BY DEF Reject, LInv

\* The inputs, and so what verifyWitnessProgram returns, never change.
LEMMA InputsFixed ==
    ASSUME UNCHANGED <<pkScript, tx, flags>>
    PROVE  /\ VerifyWitnessProgram' = VerifyWitnessProgram
           /\ WitnessProgramSet' = WitnessProgramSet
           /\ WitnessLock' = WitnessLock
           /\ LockRequired' = LockRequired
BY DEF VerifyWitnessProgram, IsWitnessVersionActive, WitnessProgramSet,
       WitnessLock, LockRequired

LEMMA StepWInv ==
    ASSUME Inv, PCInv, WInv, Step
    PROVE  WInv'
<1>1. phase = "running" /\ ValidPC /\ scripts # <<>> /\ scriptIdx \in Nat
  BY DEF Step, PCInv, WInv, Inv, TypeOK
<1>2. CASE \E e : Reject(e)
  <2>1. PICK e : Reject(e)
    BY <1>2
  <2>. QED  BY <2>1, RejectW
<1>3. CASE StepInScript(CurResult)
  <2>1. UNCHANGED <<pkScript, tx, flags, scripts, scriptIdx, phase>>
    BY <1>3 DEF StepInScript
  <2>. QED  BY <2>1, InputsFixed DEF WInv
<1>4. CASE /\ ~(scriptIdx = 0 /\ WitnessProgramSet)
           /\ EndScript(CurResult, CurResult.d, scripts, scriptIdx + 1)
  <2>1. /\ scripts' = scripts /\ scriptIdx' \in {scriptIdx + 1, scriptIdx + 2}
        /\ phase' \in {"check", "running"}
        /\ UNCHANGED <<pkScript, tx, flags>>
    BY <1>1, <1>4 DEF EndScript
  <2>2. WitnessProgramSet => Len(scripts) >= 2
    <3>1. scripts = <<pkScript.ops>> => scriptIdx = 0
      BY <1>1 DEF ValidPC
    <3>. QED  BY <1>1, <1>4, <3>1 DEF WInv
  <2>. QED  BY <1>1, <2>1, <2>2, InputsFixed DEF WInv
<1>5. CASE /\ scriptIdx = 0 /\ WitnessProgramSet
           /\ VerifyWitnessProgram.err = NoErr
           /\ EndScript(CurResult, <<>>, scripts \o VerifyWitnessProgram.extra, 1)
  <2>1. scripts = <<pkScript.ops>>
    BY <1>1, <1>5 DEF WInv
  <2>2. /\ scripts' = <<pkScript.ops>> \o VerifyWitnessProgram.extra
        /\ scriptIdx' \in {1, 2}
        /\ UNCHANGED <<pkScript, tx, flags>>
    BY <1>5, <2>1 DEF EndScript
  <2>3. Len(VerifyWitnessProgram.extra) >= 2
        /\ VerifyWitnessProgram.extra \in Seq(Seq(OpKinds))
    BY <1>5, VerifyWitnessProgramScripts DEF PCInv
  <2>4. pkScript.ops \in Seq(OpKinds)
    BY DEF Inv, TypeOK, PkScriptRecs
  <2>5. Len(scripts') >= 2 /\ scripts' # <<>>
    BY <2>2, <2>3, <2>4
  <2>. QED  BY <1>5, <2>2, <2>5, InputsFixed DEF WInv
<1>. QED  BY <1>2, <1>3, <1>4, <1>5, StepCases

LEMMA NextWInv == Inv /\ PCInv /\ WInv /\ [Next]_vars => WInv'
<1> SUFFICES ASSUME Inv, PCInv, WInv, [Next]_vars PROVE WInv'
  OBVIOUS
<1>1. CASE NewEngine
  <2>1. CASE \E e : Reject(e)
    <3>1. PICK e : Reject(e)
      BY <2>1
    <3>. QED  BY <3>1, RejectW
  <2>2. CASE scripts' = <<pkScript.ops>> /\ phase' = "running"
             /\ UNCHANGED <<pkScript, tx, flags>>
    BY <2>2, InputsFixed DEF WInv
  <2>. QED  BY <1>1, <2>1, <2>2 DEF NewEngine
<1>2. CASE Step
  BY <1>2, StepWInv
<1>3. CASE CheckErrorCondition
  <2>1. CASE \E e : Reject(e)
    <3>1. PICK e : Reject(e)
      BY <2>1
    <3>. QED  BY <3>1, RejectW
  <2>2. CASE /\ phase = "check" /\ phase' = "accepted"
             /\ UNCHANGED <<pkScript, tx, flags, scripts, scriptIdx>>
    BY <2>2, InputsFixed DEF WInv
  <2>. QED  BY <1>3, <2>1, <2>2 DEF CheckErrorCondition
<1>4. CASE UNCHANGED vars
  BY <1>4, InputsFixed DEF vars, WInv
<1>. QED  BY <1>1, <1>2, <1>3, <1>4 DEF Next

(* OP_TRUE with no OP_IF open pushes an element and succeeds.             *)
LEMMA ExecPushTrue ==
    ASSUME condStack = <<>>
    PROVE  /\ ExecuteOpcode("OP_TRUE").err = NoErr
           /\ ExecuteOpcode("OP_TRUE").d = Append(dstack, TRUE)
           /\ ExecuteOpcode("OP_TRUE").c = <<>>
BY DEF ExecuteOpcode, OpFunc, Ok, Fail, IsBranchExecuting, PushOps, Conditionals,
       NoErr

(* OP_CHECKSEQUENCEVERIFY with no OP_IF open and an element to read fails *)
(* for an input whose sequence does not satisfy the lock, if the          *)
(* operation limit has not failed it first.                               *)
LEMMA ExecCSVFails ==
    ASSUME condStack = <<>>, dstack # <<>>, ~tx.lockOK
    PROVE  ExecuteOpcode("OP_CHECKSEQUENCEVERIFY").err # NoErr
BY DEF ExecuteOpcode, OpFunc, Ok, Fail, IsBranchExecuting, PushOps, Conditionals,
       NoErr

(* What a successful verifyWitnessProgram returns: the lock script, if    *)
(* the output requires one, then the two witness scripts.                 *)
LEMMA ExtraScripts ==
    ASSUME tx \in TxInputRecs, VerifyWitnessProgram.err = NoErr
    PROVE  LET x == VerifyWitnessProgram.extra IN
           /\ x \in Seq(Seq(OpKinds))
           /\ Len(x) = Len(WitnessLock) + 2
           /\ x[Len(WitnessLock) + 1] = tx.witness[1].ops
           /\ x[Len(WitnessLock) + 2] = tx.witness[2].ops
           /\ LockRequired => x[1] = LockScript /\ Len(WitnessLock) = 1
<1> DEFINE w == tx.witness
           T == <<w[1].ops, w[2].ops>>
<1>1. /\ pkScript.witProg /\ Len(w) = 2
      /\ VerifyWitnessProgram.extra = WitnessLock \o T
  BY VerifyWitnessProgramOk
<1>2. T \in Seq(Seq(OpKinds)) /\ Len(T) = 2
  <2>1. w \in Seq(WitnessElems)
    BY DEF TxInputRecs
  <2>2. w[1] \in WitnessElems /\ w[2] \in WitnessElems
    BY <1>1, <2>1
  <2>. QED  BY <2>2 DEF WitnessElems
<1>3. WitnessLock \in Seq(Seq(OpKinds)) /\ Len(WitnessLock) \in {0, 1}
      /\ (LockRequired => WitnessLock = <<LockScript>>)
  <2>1. LockScript \in Seq(OpKinds)
    BY DEF LockScript, OpKinds
  <2>. QED  BY <1>1, <2>1 DEF WitnessLock, LockRequired, WitnessProgramSet
<1>4. /\ WitnessLock \o T \in Seq(Seq(OpKinds))
      /\ Len(WitnessLock \o T) = Len(WitnessLock) + 2
      /\ \A i \in 1 .. Len(WitnessLock) + 2 :
             (WitnessLock \o T)[i] = IF i <= Len(WitnessLock) THEN WitnessLock[i]
                                     ELSE T[i - Len(WitnessLock)]
  BY <1>2, <1>3, ConcatProperties
<1>5. Len(WitnessLock) \in Nat /\ Len(WitnessLock) + 1 > Len(WitnessLock)
  BY <1>3
<1>6. /\ (WitnessLock \o T)[Len(WitnessLock) + 1] = w[1].ops
      /\ (WitnessLock \o T)[Len(WitnessLock) + 2] = w[2].ops
  BY <1>4, <1>5
<1>7. LockRequired => (WitnessLock \o T)[1] = LockScript /\ Len(WitnessLock) = 1
  <2> SUFFICES ASSUME LockRequired
               PROVE  (WitnessLock \o T)[1] = LockScript /\ Len(WitnessLock) = 1
    OBVIOUS
  <2>1. WitnessLock = <<LockScript>> /\ Len(WitnessLock) = 1
    BY <1>3
  <2>2. 1 \in 1 .. Len(WitnessLock) + 2 /\ 1 <= Len(WitnessLock)
    BY <2>1
  <2>. QED  BY <1>4, <2>1, <2>2
<1>. QED  BY <1>1, <1>4, <1>6, <1>7

(* After the hand-over, the scripts are the pkScript followed by what      *)
(* verifyWitnessProgram returned.                                         *)
LEMMA HandedOver ==
    ASSUME Inv, WInv, Len(scripts) >= 2
    PROVE  /\ VerifyWitnessProgram.err = NoErr /\ WitnessProgramSet
           /\ Len(scripts) = Len(WitnessLock) + 3
           /\ scripts[Len(scripts) - 1] = tx.witness[1].ops
           /\ scripts[Len(scripts)] = tx.witness[2].ops
           /\ LockRequired => scripts[2] = LockScript /\ Len(scripts) = 4
<1> DEFINE x == VerifyWitnessProgram.extra
<1>1. scripts # <<>> /\ scripts # <<pkScript.ops>>
  <2>1. PICK n \in Nat : n = Len(scripts) /\ n >= 2
    BY DEF Inv, TypeOK
  <2>2. scripts = <<>> => n = 0
    BY <2>1
  <2>3. scripts = <<pkScript.ops>> => n = 1
    BY <2>1
  <2>. QED  BY <2>1, <2>2, <2>3
<1>2. /\ VerifyWitnessProgram.err = NoErr /\ WitnessProgramSet
      /\ scripts = <<pkScript.ops>> \o x
  BY <1>1 DEF WInv
<1>3. tx \in TxInputRecs /\ <<pkScript.ops>> \in Seq(Seq(OpKinds))
  BY DEF Inv, TypeOK, PkScriptRecs
<1>4. /\ x \in Seq(Seq(OpKinds))
      /\ Len(x) = Len(WitnessLock) + 2
      /\ x[Len(WitnessLock) + 1] = tx.witness[1].ops
      /\ x[Len(WitnessLock) + 2] = tx.witness[2].ops
      /\ LockRequired => x[1] = LockScript /\ Len(WitnessLock) = 1
  BY <1>2, <1>3, ExtraScripts
<1>5. /\ Len(<<pkScript.ops>> \o x) = 1 + Len(x)
      /\ \A i \in 1 .. 1 + Len(x) :
             (<<pkScript.ops>> \o x)[i] = IF i <= 1 THEN pkScript.ops ELSE x[i - 1]
  BY <1>3, <1>4, ConcatProperties
<1>6. PICK m \in Nat : m = Len(WitnessLock) /\ Len(x) = m + 2
  <2>1. Len(WitnessLock) \in {0, 1}
    BY DEF WitnessLock
  <2>. QED  BY <1>4, <2>1
<1>7. Len(scripts) = m + 3
  BY <1>2, <1>5, <1>6
<1>8. /\ scripts[m + 2] = x[m + 1]
      /\ scripts[m + 3] = x[m + 2]
      /\ scripts[2] = x[1]
  BY <1>2, <1>5, <1>6
<1>9. LockRequired => m = 1
  BY <1>4, <1>6
<1>10. /\ scripts[Len(scripts) - 1] = tx.witness[1].ops
       /\ scripts[Len(scripts)] = tx.witness[2].ops
  <2>1. Len(scripts) - 1 = m + 2
    BY <1>7
  <2>. QED  BY <1>4, <1>6, <1>7, <1>8, <2>1
<1>11. LockRequired => scripts[2] = LockScript /\ Len(scripts) = 4
  BY <1>4, <1>7, <1>8, <1>9
<1>. QED  BY <1>2, <1>6, <1>7, <1>10, <1>11

LEMMA StepLInv ==
    ASSUME Inv, PCInv, WInv, LInv, Step
    PROVE  LInv'
<1>1. /\ phase = "running" /\ ValidPC /\ scripts # <<>>
      /\ scripts \in Seq(Seq(OpKinds)) /\ scriptIdx \in Nat /\ scriptOff \in Nat
      /\ Len(scripts[scriptIdx + 1]) \in Nat /\ Len(scripts) \in Nat \ {0}
      /\ dstack \in Seq(BOOLEAN)
  <2>1. /\ phase = "running" /\ ValidPC /\ scripts # <<>>
        /\ scripts \in Seq(Seq(OpKinds)) /\ scriptIdx \in Nat /\ scriptOff \in Nat
        /\ Len(scripts[scriptIdx + 1]) \in Nat /\ dstack \in Seq(BOOLEAN)
    BY DEF Step, PCInv, WInv, Inv, TypeOK, ValidPC
  <2>. QED  BY <2>1, EmptySeq
<1>0. Len(scripts) \in Nat \ {0}
  BY <1>1
<1>2. CASE \E e : Reject(e)
  <2>1. PICK e : Reject(e)
    BY <1>2
  <2>. QED  BY <2>1, RejectL
<1>3. CASE ~\E e : Reject(e)
  <2>1. /\ CurResult.err = NoErr
        /\ UNCHANGED <<pkScript, tx, flags>>
        /\ \/ StepInScript(CurResult)
           \/ /\ scriptOff + 1 >= Len(scripts[scriptIdx + 1])
              /\ ~(scriptIdx = 0 /\ WitnessProgramSet)
              /\ EndScript(CurResult, CurResult.d, scripts, scriptIdx + 1)
           \/ /\ CurResult.c = <<>>
              /\ scriptOff + 1 >= Len(scripts[scriptIdx + 1])
              /\ scriptIdx = 0 /\ WitnessProgramSet
              /\ VerifyWitnessProgram.err = NoErr
              /\ EndScript(CurResult, <<>>, scripts \o VerifyWitnessProgram.extra, 1)
    BY <1>3, StepCases DEF StepInScript, EndScript
  <2>2. LockRequired' = LockRequired /\ tx' = tx
    BY <2>1, InputsFixed
  <2>3. CASE ~(LockRequired /\ ~tx.lockOK)
    BY <2>2, <2>3 DEF LInv
  <2>4. CASE LockRequired /\ ~tx.lockOK /\ Len(scripts) >= 2
    <3>1. /\ scriptIdx = 1 /\ scriptOff \in {0, 1} /\ condStack = <<>>
          /\ scriptOff = 1 => dstack # <<>>
      BY <1>1, <2>4 DEF LInv
    <3>2. scripts[2] = LockScript
      BY <2>4, HandedOver
    <3>3. CASE scriptOff = 0
      <4>1. CurOp = "OP_TRUE" /\ scriptOff + 1 < Len(scripts[scriptIdx + 1])
        BY <3>1, <3>2, <3>3 DEF CurOp, LockScript
      <4>2. CurResult.d = Append(dstack, TRUE) /\ CurResult.c = <<>>
        BY <3>1, <4>1, ExecPushTrue DEF CurResult
      <4>3. StepInScript(CurResult)
        <5>1. ~(scriptOff + 1 >= Len(scripts[scriptIdx + 1]))
          BY <1>1, <4>1
        <5>. QED  BY <2>1, <5>1, Zenon
      <4>4. /\ scriptOff' = 1 /\ dstack' = Append(dstack, TRUE) /\ condStack' = <<>>
            /\ UNCHANGED <<scripts, scriptIdx, phase>>
        BY <3>3, <4>2, <4>3 DEF StepInScript
      <4>5. dstack' # <<>>
        <5>1. dstack \in Seq(BOOLEAN) /\ dstack' = Append(dstack, TRUE)
          BY <1>1, <4>4, Zenon
        <5>. QED  BY <5>1, AppendProperties
      <4>. QED  BY <1>1, <2>2, <3>1, <4>4, <4>5 DEF LInv
    <3>4. CASE scriptOff = 1
      <4>1. CurOp = "OP_CHECKSEQUENCEVERIFY"
        BY <3>1, <3>2, <3>4 DEF CurOp, LockScript
      <4>2. CurResult.err # NoErr
        BY <2>4, <3>1, <3>4, <4>1, ExecCSVFails DEF CurResult
      <4>. QED  BY <2>1, <4>2
    <3>. QED  BY <3>1, <3>3, <3>4
  <2>5. CASE LockRequired /\ ~tx.lockOK /\ Len(scripts) < 2
    <3>1. scripts = <<pkScript.ops>> /\ scriptIdx = 0
      <4>1. Len(scripts) = 1
        <5>1. PICK n \in Nat : n = Len(scripts) /\ n # 0 /\ n < 2
          BY <1>0, <2>5
        <5>. QED  BY <5>1
      <4>2. scriptIdx = 0
        BY <1>1, <4>1 DEF ValidPC
      <4>. QED  BY <1>1, <4>2 DEF WInv
    <3>2. CASE StepInScript(CurResult) \/ EndScript(CurResult, CurResult.d, scripts, scriptIdx + 1)
      <4>1. scripts' = scripts
        BY <3>2 DEF StepInScript, EndScript
      <4>. QED  BY <2>2, <2>5, <4>1 DEF LInv
    <3>3. CASE /\ CurResult.c = <<>>
               /\ VerifyWitnessProgram.err = NoErr
               /\ EndScript(CurResult, <<>>, scripts \o VerifyWitnessProgram.extra, 1)
      <4> DEFINE x == VerifyWitnessProgram.extra
                 ns == scripts \o x
      <4>1. /\ x \in Seq(Seq(OpKinds)) /\ Len(x) >= 2 /\ x[1] = LockScript
        <5>1. tx \in TxInputRecs
          BY DEF Inv, TypeOK
        <5>. QED  BY <2>5, <3>3, <5>1, ExtraScripts
      <4>2. Len(ns) = 1 + Len(x) /\ ns[2] = LockScript
        BY <1>1, <3>1, <4>1, ConcatProperties
      <4>3. Len(ns[2]) # 0 /\ 1 < Len(ns)
        BY <4>1, <4>2 DEF LockScript
      <4>4. /\ scriptIdx' = 1 /\ scriptOff' = 0 /\ phase' = "running"
            /\ condStack' = <<>>
        BY <3>3, <4>3 DEF EndScript
      <4>. QED  BY <2>2, <4>4 DEF LInv
    <3>. QED  BY <2>1, <3>2, <3>3
  <2>. QED  BY <1>1, <2>3, <2>4, <2>5
<1>. QED  BY <1>2, <1>3

LEMMA NextLInv == Inv /\ PCInv /\ WInv /\ LInv /\ [Next]_vars => LInv'
<1> SUFFICES ASSUME Inv, PCInv, WInv, LInv, [Next]_vars PROVE LInv'
  OBVIOUS
<1>1. CASE NewEngine
  <2>1. CASE \E e : Reject(e)
    <3>1. PICK e : Reject(e)
      BY <2>1
    <3>. QED  BY <3>1, RejectL
  <2>2. CASE scripts' = <<pkScript.ops>> /\ UNCHANGED <<pkScript, tx, flags>>
    <3>1. ~(Len(scripts') >= 2)
      BY <2>2
    <3>. QED  BY <3>1 DEF LInv
  <2>. QED  BY <1>1, <2>1, <2>2 DEF NewEngine
<1>2. CASE Step
  BY <1>2, StepLInv
<1>3. CASE CheckErrorCondition
  <2>1. CASE \E e : Reject(e)
    <3>1. PICK e : Reject(e)
      BY <2>1
    <3>. QED  BY <3>1, RejectL
  \* The engine reaches the check only when the lock did not stop it.
  <2>2. CASE /\ phase = "check"
             /\ UNCHANGED <<pkScript, tx, flags, scripts>>
    <3>1. ~(LockRequired /\ ~tx.lockOK /\ Len(scripts) >= 2)
      BY <2>2 DEF LInv
    <3>2. LockRequired' = LockRequired
      BY <2>2, InputsFixed
    <3>. QED  BY <2>2, <3>1, <3>2 DEF LInv
  <2>. QED  BY <1>3, <2>1, <2>2 DEF CheckErrorCondition
<1>4. CASE UNCHANGED vars
  BY <1>4, InputsFixed DEF vars, LInv
<1>. QED  BY <1>1, <1>2, <1>3, <1>4 DEF Next

\* The last two elements of a sequence, as a pair.
LEMMA LastTwo ==
    ASSUME NEW S, NEW s \in Seq(S), Len(s) >= 2
    PROVE  SubSeq(s, Len(s) - 1, Len(s)) = <<s[Len(s) - 1], s[Len(s)]>>
<1>1. PICK n \in Nat : n = Len(s) /\ n >= 2
  OBVIOUS
<1>2. s[n - 1] \in S /\ s[n] \in S
  BY <1>1
<1>3. /\ SubSeq(s, n - 1, n) \in Seq(S)
      /\ Len(SubSeq(s, n - 1, n)) = 2
      /\ \A i \in 1 .. 2 : SubSeq(s, n - 1, n)[i] = s[n - 1 + i - 1]
  <2>1. \A i \in n - 1 .. n : s[i] \in S
    BY <1>1
  <2>. QED  BY <1>1, <2>1, SubSeqProperties
<1>4. <<s[n - 1], s[n]>> \in Seq(S) /\ Len(<<s[n - 1], s[n]>>) = 2
  BY <1>2
<1>5. \A i \in 1 .. 2 : SubSeq(s, n - 1, n)[i] = <<s[n - 1], s[n]>>[i]
  <2>1. SubSeq(s, n - 1, n)[1] = s[n - 1] /\ SubSeq(s, n - 1, n)[2] = s[n]
    BY <1>1, <1>3
  <2>2. <<s[n - 1], s[n]>>[1] = s[n - 1] /\ <<s[n - 1], s[n]>>[2] = s[n]
    OBVIOUS
  <2>3. \A i \in 1 .. 2 : i = 1 \/ i = 2
    OBVIOUS
  <2>. QED  BY <2>1, <2>2, <2>3, Zenon
<1>6. SubSeq(s, n - 1, n) = <<s[n - 1], s[n]>>
  BY <1>3, <1>4, <1>5, SeqEqual
<1>. QED  BY <1>1, <1>6

\* Together the invariants hold in every reachable state.
LEMMA SpecAll == Spec => [](Inv /\ PCInv /\ WInv /\ LInv)
<1>1. Init => PCInv /\ WInv /\ LInv
  BY DEF Init, PCInv, AllNonEmpty, WInv, LInv, NoErr
<1>2. Inv /\ PCInv /\ WInv /\ LInv /\ [Next]_vars => (PCInv /\ WInv /\ LInv)'
  BY NextPC, NextWInv, NextLInv
<1>. QED  BY <1>1, <1>2, InvInductive, PTL DEF Spec

LEMMA InvWitnessEnforced == Inv /\ WInv => WitnessEnforced
<1> SUFFICES ASSUME Inv, WInv, phase = "accepted", WitnessProgramSet
             PROVE  /\ pkScript.version = 0
                    /\ Len(tx.witness) = 2
                    /\ tx.hashOK
                    /\ Len(scripts) >= 3
                    /\ SubSeq(scripts, Len(scripts) - 1, Len(scripts))
                          = <<tx.witness[1].ops, tx.witness[2].ops>>
  BY DEF WitnessEnforced
<1>1. Len(scripts) >= 2
  BY DEF WInv
<1>2. /\ VerifyWitnessProgram.err = NoErr
      /\ Len(scripts) = Len(WitnessLock) + 3
      /\ scripts[Len(scripts) - 1] = tx.witness[1].ops
      /\ scripts[Len(scripts)] = tx.witness[2].ops
  BY <1>1, HandedOver
<1>3. pkScript.version = 0 /\ Len(tx.witness) = 2 /\ tx.hashOK
  BY <1>2, VerifyWitnessProgramOk
<1>4. Len(scripts) >= 3
  <2>1. Len(WitnessLock) \in {0, 1}
    BY DEF WitnessLock
  <2>. QED  BY <1>2, <2>1
<1>5. SubSeq(scripts, Len(scripts) - 1, Len(scripts))
         = <<scripts[Len(scripts) - 1], scripts[Len(scripts)]>>
  <2>1. scripts \in Seq(Seq(OpKinds))
    BY DEF Inv, TypeOK
  <2>. QED  BY <1>1, <2>1, LastTwo
<1>. QED  BY <1>2, <1>3, <1>4, <1>5

LEMMA InvLockEnforced == WInv /\ LInv => LockEnforced
<1> SUFFICES ASSUME WInv, LInv, phase = "accepted", WitnessProgramSet,
                    \/ pkScript.ext = "staking"
                    \/ pkScript.ext = "binding" /\ "MASSip2" \in flags
             PROVE  tx.lockOK
  BY DEF LockEnforced
<1>1. LockRequired /\ Len(scripts) >= 2
  BY DEF LockRequired, WInv
<1>. QED  BY <1>1 DEF LInv

(***************************************************************************)
(* For every pkScript, witness and flag set the engine may be given, when *)
(* Execute accepts a witness program, the program is of version 0, the    *)
(* witness has two elements, the second hashes to the program, and the    *)
(* two witness scripts were the last scripts run (WitnessEnforced):        *)
(* verifyWitnessProgram's checks and its hand-over to the witness          *)
(* (engine.go Step, verifyWitnessProgram) cannot be bypassed.              *)
(***************************************************************************)
THEOREM WitnessEnforcedThm == Spec => []WitnessEnforced
BY SpecAll, InvWitnessEnforced, PTL

(***************************************************************************)
(* For every input, a staking output, and a binding output under MASSip2, *)
(* is accepted only when the input's sequence satisfies the lock           *)
(* (LockEnforced): the lock script that verifyWitnessProgram places before *)
(* the witness runs OP_CHECKSEQUENCEVERIFY before anything else.           *)
(***************************************************************************)
THEOREM LockEnforcedThm == Spec => []LockEnforced
BY SpecAll, InvLockEnforced, PTL

=============================================================================
