\* Does a tracker that is down leave time for the next one?  The numbers of the code.
SPECIFICATION Spec
CONSTANTS
    u1 = u1
    u2 = u2
    u3 = u3
    u4 = u4
    Url = {u1, u2, u3, u4}
    NoUrl = NoUrl
    Scheme <- MCScheme
    Torrents <- MCTorrents
    Live = {u2}
    Callers = {"reconnect"}
    AnnounceTimeout = 18
    NotifyTimeout = 2
    HttpTimeout = 3
    DialTimeout = 1
    BaseTimeout = 3
    UdpMaxRetries = 3
    MaxPeers = 1000
    PeerLoads = {6}
    ErrorLoads = {11}
    Delay = {0}
    MaxCopies = 0
INVARIANT FallsBack
CHECK_DEADLOCK FALSE
