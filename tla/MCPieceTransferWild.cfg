\* Any peer: a piece longer than the window, one shorter, a channel of one block.
SPECIFICATION FairWildSpec
CONSTANTS
    Piece = {0, 1}
    Blocks <- MCBlocks
    PipelineDepth = 2
    BlocksCap = 1
    WireCap = 2
    MaxTurns = 2
INVARIANT PipelineIsFull
PROPERTIES GetPieceEnds ReaderEnds
\* The goroutines of the client end.
CHECK_DEADLOCK FALSE
