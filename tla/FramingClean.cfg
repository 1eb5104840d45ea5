SPECIFICATION PathSpec
CONSTANTS
    None = None
    Failed = Failed
    Unread = Unread
    FreshId = FreshId
    Packets <- CleanPackets
    Bodies <- MCBodies
    Signatures <- MCSignatures
    Zlib <- MCZlib
INVARIANTS
    FramesFitLink
    ChunksCover
    RoundTrip
    ParsedAsSent
    MessageRoundTrip
