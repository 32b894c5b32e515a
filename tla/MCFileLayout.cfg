\* Files of up to two bytes, pieces of up to three, one interruption.
SPECIFICATION FairSpec
CONSTANTS
    Component = {"a", "b", "c", "t", ".."}
    Unsafe = {".."}
    Path <- MCPath
    Torrents <- MCTorrents
    Prior <- MCPrior
    HashSize = 2
    MaxPieceLength = 3
    MaxFileCount = 3
    MaxInt = 5
    MaxRuns = 2
INVARIANTS TypeOK LayoutTiles PendingIsExact
PROPERTIES RightBytesStay CallsEnd
\* A torrent that is rejected or done is at its end.
CHECK_DEADLOCK FALSE
