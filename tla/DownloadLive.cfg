SPECIFICATION FairSpec
CONSTANTS
    s1 = s1  s2 = s2
    c1 = c1  c2 = c2  c3 = c3
    None = None
    N = 2
    Conn = {c1, c2}
    Sup = {s1, s2}
    Known = {s1, s2}
    Bitfields = {{0, 1}}
    Contents = {"good"}
    MaxFails = 3
    MaxRefused = 0
    MaxExtra = 0
PROPERTIES DownloadReturns QueuedIsTaken
\* The program stops when Download has returned or log.Fatal ended it.
CHECK_DEADLOCK FALSE
