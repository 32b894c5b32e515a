\* Time in units of five seconds, as in the code but for the number of retries.
SPECIFICATION FairSpec
CONSTANTS
    u1 = u1
    u2 = u2
    u3 = u3
    u4 = u4
    Url = {u1, u2, u3, u4}
    NoUrl = NoUrl
    Scheme <- MCScheme
    Torrents <- MCTorrents
    Live = {u2}
    Callers = {"first", "reconnect", "notify"}
    AnnounceTimeout = 18
    NotifyTimeout = 2
    HttpTimeout = 3
    DialTimeout = 1
    BaseTimeout = 3
    UdpMaxRetries = 1
    MaxPeers = 1000
    PeerLoads = {6, 6006, 6516}
    ErrorLoads = {11}
    Delay = {0, 2}
    MaxCopies = 1
INVARIANTS TypeOK SuccessIsRegistered TierOrder InTime LateRepliesLeaveAnAttempt FallsBackInTime
PROPERTY AnnounceReturns
CHECK_DEADLOCK FALSE
