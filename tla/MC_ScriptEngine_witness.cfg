CONSTANTS
    MaxOpsPerScript = 2
    MaxStackSize = 3
    PkScripts <- MCWitnessPkScripts
    TxInputs <- MCWitnessInputs
    FlagSets <- MCFlagSets

SPECIFICATION FairSpec
INVARIANT TypeOK
INVARIANT ScriptBoundaryClean
INVARIANT WitnessEnforced
INVARIANT LockEnforced
INVARIANT PCStaysValid
PROPERTY ExecuteTerminates
CHECK_DEADLOCK FALSE
