SPECIFICATION FairSpec
CONSTANTS
    s1 = s1  s2 = s2
    c1 = c1  c2 = c2  c3 = c3
    None = None
    Session = {s1, s2}
    Conn = {c1, c2}
    Csv = TRUE
    MaxReports = 2
    MaxErrors = 1
INVARIANTS TypeOK LockHeld OneHeader OneHandlerAlone
PROPERTIES ReportedIsServed LeecherRemoved
\* The server has nothing left to do when all leechers have gone.
CHECK_DEADLOCK FALSE
