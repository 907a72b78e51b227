CONSTANTS
    Formats = {"vp8", "vp9"}
    Default = "vp9"
    Bad = {"vp8"}
    VIDEO_QUEUE_SIZE = 2
    MaxKeys = 1
    MaxSender = 1
    MaxOverflows = 1
    MaxTouches = 1
SPECIFICATION ClientFairSpec
INVARIANT ClientTypeOK
INVARIANT Clean
PROPERTY MarkedRightly
PROPERTY Recovers
