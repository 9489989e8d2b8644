CONSTANTS
    MaxOpsPerScript = 1
    MaxStackSize = 1
    PkScripts <- MCPlainPkScripts
    TxInputs <- MCPlainInputs
    FlagSets <- MCFlagSets

SPECIFICATION Spec
INVARIANT NoUnexpectedWitness
CHECK_DEADLOCK FALSE
