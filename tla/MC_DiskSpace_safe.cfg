CONSTANTS
    Width <- MCWidth
    MinDiskSpace <- MCMinDiskSpace
    Requests <- MCSafeRequests
SPECIFICATION Spec

INVARIANT CheckExact
