SPECIFICATION Spec
CONSTANTS
    p1 = p1  p2 = p2  p3 = p3
    Peers = {p1, p2, p3}
    Available <- MCAvailable
    MaxErrors = 1
    MaxWithdrawn = 1
INVARIANTS TypeOK StoreEnforced PanicOnlyIfWithdrawn StoreIsLive OwnDisjoint
PROPERTIES RefinesStore HalfKept
\* The server has nothing left to do when all leechers have gone.
CHECK_DEADLOCK FALSE
