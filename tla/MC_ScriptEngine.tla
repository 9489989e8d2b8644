-------------------------- MODULE MC_ScriptEngine --------------------------
(***************************************************************************)
(* Small instances of ScriptEngine for TLC.                                *)
(***************************************************************************)
EXTENDS ScriptEngine

(* Scripts of one opcode of any kind, and of two opcodes of the kinds that *)
(* move data between the stacks and open and close conditionals.           *)
MCScripts ==
    {<<o>> : o \in OpKinds \ {"OP_CHECKSEQUENCEVERIFY"}}
    \cup {<<o1, o2>> : o1, o2 \in {"OP_TRUE", "OP_FALSE", "OP_IF",
                                    "OP_ENDIF", "OP_TOALTSTACK"}}

(* Second witness elements (the redeem script): what reads or closes what  *)
(* the first one left behind.                                              *)
MCRedeemScripts ==
    {<<o>> : o \in {"OP_TRUE", "OP_FALSE", "OP_NOP", "OP_DROP", "OP_TOALTSTACK",
                   "OP_FROMALTSTACK", "OP_IF", "OP_ELSE", "OP_ENDIF"}}
    \cup {<<"OP_TRUE", "OP_TRUE">>, <<"OP_TRUE", "OP_NOP", "OP_NOP">>,
          <<"OP_NOP", "OP_NOP", "OP_NOP", "OP_TRUE">>}

OkElem(s) == [ops |-> s, bytes |-> "ok"]
BadElems == {[ops |-> <<>>, bytes |-> b] : b \in {"empty", "tooBig", "malformed"}}

(* A witness program pkScript: OP_0 <32-byte program> [<extension>].       *)
WitPk(v, ops, ext, frozenOK) ==
    [ops |-> ops, bytes |-> "ok", witProg |-> TRUE, version |-> v,
     ext |-> ext, frozenOK |-> frozenOK]

MCWitnessPkScripts ==
    {WitPk(0, <<"OP_FALSE", "OP_TRUE">>, "none", TRUE),
     WitPk(0, <<"OP_FALSE", "OP_TRUE", "OP_TRUE">>, "staking", TRUE),
     WitPk(0, <<"OP_FALSE", "OP_TRUE", "OP_TRUE">>, "staking", FALSE),
     WitPk(0, <<"OP_FALSE", "OP_TRUE", "OP_TRUE">>, "binding", TRUE),
     WitPk(0, <<"OP_FALSE", "OP_TRUE", "OP_TRUE">>, "unknown", TRUE),
     WitPk(0, <<"OP_FALSE", "OP_TRUE", "OP_TRUE">>, "invalid", TRUE),
     WitPk(0, <<"OP_FALSE">>, "none", TRUE),
     WitPk(1, <<"OP_TRUE", "OP_TRUE">>, "none", TRUE)}

(* The witness of a spend of a witness program: two elements, one of them  *)
(* possibly empty, too big or malformed, or a wrong number of elements.    *)
MCWitnessInputs ==
    [witness : {<<OkElem(s1), OkElem(s2)>> : s1 \in MCScripts, s2 \in MCRedeemScripts}
               \cup {<<e, OkElem(<<"OP_TRUE">>)>> : e \in BadElems}
               \cup {<<OkElem(<<"OP_TRUE">>), e>> : e \in BadElems}
               \cup {<<e1, e2>> : e1, e2 \in BadElems}
               \cup {<<>>, <<OkElem(<<"OP_TRUE">>)>>},
     hashOK : BOOLEAN, lockOK : BOOLEAN]

(* Plain pkScripts: no witness program, any script of MCScripts, one that *)
(* counts two operations, and the byte strings NewEngine refuses.         *)
MCPlainPkScripts ==
    {[ops |-> s, bytes |-> "ok", witProg |-> FALSE, version |-> 0,
      ext |-> "none", frozenOK |-> TRUE]
        : s \in MCScripts \cup {<<"OP_TRUE", "OP_IF", "OP_ENDIF", "OP_NOP">>}}
    \cup {[ops |-> <<>>, bytes |-> b, witProg |-> FALSE, version |-> 0,
           ext |-> "none", frozenOK |-> TRUE] : b \in {"empty", "tooBig", "malformed"}}

MCPlainInputs ==
    [witness : {<<>>, <<OkElem(<<"OP_TRUE">>)>>}, hashOK : {TRUE}, lockOK : {TRUE}]

MCFlagSets == {{}, {"MASSip2"}}

=============================================================================
