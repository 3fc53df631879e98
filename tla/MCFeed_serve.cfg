SPECIFICATION FairFeedSpec
CONSTANTS
    s1 = s1
    s2 = s2
    tasks = tasks
    metrics = metrics
    Wildcard = Wildcard
    Closed = Closed
    Subs <- MCSubs
    Topics <- MCTopics
    TopicOf <- MCTopicOf
    MaxQueue = 2
    MaxMessages = 3
    Wrap = 2
INVARIANTS
    InOrder
    LossCounted
    SentinelWaits
    SnapshotPrimed
    WattsAreTrue
PROPERTY
    ClosedEnds
    SamplingGoesOn
\* All subscriptions may have ended with everything published.
CHECK_DEADLOCK FALSE
