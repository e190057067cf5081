\* A failed os.RemoveAll of the temporary directory.
CONSTANTS
    NumDeltas <- MCNumDeltas
SPECIFICATION Spec
INVARIANT
    CleanupFailureReported
