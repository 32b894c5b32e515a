\* Documents of up to six tokens nested to depth two, torrents of up to 41 tokens,
\* one or three pieces in bytes of two bits, bitfields of up to two bytes.
SPECIFICATION Spec
CONSTANTS
    String <- MCString
    Number <- MCNumber
    Malformed = {"?"}
    Hashes <- MCHashes
    File <- MCFile
    PeerHash <- MCPeerHash
    Nil = Nil
    MaxParseDepth = 2
    MaxFileSize = 41
    B = 2
    MaxMessageLength = 3
    MaxBitfield = 3
    MaxHave = 4
INVARIANTS DecodesExactly HashCoversInfo HasPieceIsAnnounced
\* A session ends where its file is refused or its connection closed.
CHECK_DEADLOCK FALSE
