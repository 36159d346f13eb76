SPECIFICATION FairSpec
CONSTANTS
    t1 = t1  t2 = t2  t3 = t3
    Wanted = t1
    Torrents = {t1, t2, t3}
    Size <- MCSize
    PieceLength = 7
    MaxBlock = 2
    MaxBacklog = 2
    ClientDht = TRUE
    ServerDht = TRUE
    DeadlinesExpire = TRUE
    Notices = {"choke", "unchoke", "keepalive", "have", "stray"}
    MaxNotices = 2
INVARIANTS TypeOK PipelineMatches NothingLeftOver CountsBytes ResultIntact NoPanic AlignedOnDial HonestAccepted
PROPERTIES AttemptEnds
\* A session stops when the connection is closed or nothing is left to fetch.
CHECK_DEADLOCK FALSE
