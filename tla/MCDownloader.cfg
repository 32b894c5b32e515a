\* Three pieces, two workers, one restart: the safety properties and the contract,
\* with worker slots interchangeable (the contract does not mention them).
CONSTANTS
    Worker = {w1, w2}
    N = 3
    MaxPieceFailures = 1
    MaxAttempts = 2
    MaxRuns = 2
SPECIFICATION Spec
SYMMETRY WorkerSymmetry
INVARIANTS
    TypeOK
    CountedPiecesAreOnDisk
    EveryPieceInOnePlace
    ActiveIsExact
    ChannelsOpen
    ConnectionsReleased
    ProgressAddsUp
PROPERTY
    ImplementsContract
\* A download that returned and is not started again has nothing left to do.
CHECK_DEADLOCK FALSE
