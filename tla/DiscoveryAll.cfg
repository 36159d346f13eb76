SPECIFICATION FairSpec
CONSTANTS
    a = a  b = b  z = z
    None = None
    Peer = {a, b, z}
    FlagPeer = {a}
    Portless = {}
    SameHost = {z}
    MaxAnnounces = 2
    MaxReceived = 2
    MaxFailures = 1
INVARIANTS TypeOK NoneForgotten OncePerSource NotStuck OneTraversal
PROPERTIES PeerTried AnnouncedAgain
\* The program ends when the download is complete.
CHECK_DEADLOCK FALSE
