CONSTANT Width <- MCWidth
SPECIFICATION Spec
INVARIANT LockIsNextPeriod
