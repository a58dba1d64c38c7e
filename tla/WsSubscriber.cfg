\* One event type in two guilds; a channel of one event, a queue of depth 0.
CONSTANTS
    Names = {chunk_uploaded}
    Guilds = {g1, g2}
    SessionIds = {s1}
    AnyId = AnyId
    Capacity = 1
    QueueDepth = 0
    BurstLimit = 0
    PingPeriod = 2
    PongGrace = 1
    MaxBus = 2
    MaxFrames = 2
SPECIFICATION FairSpec
INVARIANTS
    TypeOK
    QueueNeverOverflows
PROPERTIES
    ImplementsEventFeed
    SentMatchesSubscriptions
    LoopCatchesUp
    SilentPeerDropped
