CONSTANTS
    Width <- MCWidth
    MinDiskSpace <- MCMinDiskSpace
    Requests <- MCAllRequests
SPECIFICATION Spec
INVARIANT CheckExact
