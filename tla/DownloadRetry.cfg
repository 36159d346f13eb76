SPECIFICATION FairSpec
CONSTANTS
    s1 = s1  s2 = s2
    c1 = c1  c2 = c2  c3 = c3
    None = None
    N = 1
    Conn = {c1, c2}
    Sup = {s1}
    Known = {s1}
    Bitfields = {{0}}
    Contents = {"good"}
    MaxFails = 2
    MaxRefused = 0
    MaxExtra = 1
PROPERTIES QueuedIsTaken
\* The program stops when Download has returned or log.Fatal ended it.
CHECK_DEADLOCK FALSE
