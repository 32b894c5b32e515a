\* Every download and every stop ends; only the first needs peers that answer.
CONSTANTS
    Worker = {w1, w2}
    N = 2
    MaxPieceFailures = 1
    MaxAttempts = 2
    MaxRuns = 2
SPECIFICATION FairSpec
PROPERTIES
    DownloadTerminates
    WorkersExit
    StopEndsDownload
\* A download that returned and is not started again has nothing left to do.
CHECK_DEADLOCK FALSE
