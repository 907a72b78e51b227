\* Two connections of one service id, which is removed and made again.
SPECIFICATION FairSpec
CONSTANTS
    Conns = {c1, c2}
    Ids = {i1}
    Tids = {t1}
    Free = Free
    MAX_SERVICES = 1
    CHANNEL_BUFFER_SIZE = 1
    MaxServices = 2
    MaxShells = 2
INVARIANTS TypeOK OutputFirst
PROPERTIES Served
CHECK_DEADLOCK FALSE
