CONSTANTS
    MaxOpsPerScript = 1
    MaxStackSize = 1
    PkScripts <- MCPlainPkScripts
    TxInputs <- MCPlainInputs
    FlagSets <- MCFlagSets

SPECIFICATION FairSpec
INVARIANT TypeOK
PROPERTY ExecuteTerminates
CHECK_DEADLOCK FALSE
