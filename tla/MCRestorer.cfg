\* Every failing call, with and without a base path, deltas and a member.
CONSTANTS
    NumDeltas <- MCNumDeltas
SPECIFICATION Spec
INVARIANTS
    TypeOK
    NoEtcdLeak
    SuccessMeansRestored
