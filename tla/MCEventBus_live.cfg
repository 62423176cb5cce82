SPECIFICATION FairSpec
CONSTANTS
    Streams = {s1, s2}
    BufMax = 2
    ChanCap = 1
    MaxSeq = 2
PROPERTIES
    LeaversUnsubscribe
    QueuedIsSent
    EveryEventIsPublished
CHECK_DEADLOCK FALSE
