\* A peer that keeps to the protocol, over several pieces and chokes.
SPECIFICATION HonestSpec
CONSTANTS
    Piece = {0, 1}
    Blocks <- MCBlocks
    PipelineDepth = 2
    BlocksCap = 1
    WireCap = 2
    MaxTurns = 4
INVARIANTS TypeOK NoLostWakeup NoBlockLost HonestNotRejected
PROPERTY PieceArrives
\* The goroutines of the client end.
CHECK_DEADLOCK FALSE
