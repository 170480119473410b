SPECIFICATION PartSpec
CONSTANTS
    c1 = c1
    c2 = c2
    c3 = c3
    f1 = f1
    r1 = r1
    r2 = r2
    sse = sse
    socket = socket
    None = None
    Nil = Nil
    Clients <- ThreeClients
    Feeds <- OneFeed
    SlotOf <- TwoCommits
    MaxFaults = 2
    MaxActive = 1
    Replicas = {r1, r2}
    Topics <- ThreeTopics
    Readers = {sse, socket}
    Sockets = {socket}
    Oversized = {3}
    Interval = 1
    Lifetime = 2
    QueueCap = 1
    SseCap = 1
    MaxNow = 2
    MaxCaptures = 3
    MaxFailures = 1
INVARIANTS
    NothingMissed
    NoFalseHealth
    InOrder
    NoOrphans
PROPERTIES
    CommitReachesFeeds
    FreshFrames
    Delivered
\* A process may rest with every feed closed and every commit made, and a hub
\* with every topic stopped.
CHECK_DEADLOCK FALSE
