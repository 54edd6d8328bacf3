\* A peer that may drop the connection: a claimed message is eventually
\* let go of.  One site object, so no orphaned site is involved.
CONSTANTS
    Msgs = {m1}
    Dispatchers = {d1}
    NoMsg = NoMsg
    MaxSites = 1
    MaxReady = 1
    ConnectionLimit = 32
    MaxAddrs = 1
    EnableTls = "Opportunistic"
    SendOutcomes <- DroppingPeer
    SpoolCanFail = FALSE
SPECIFICATION Spec
PROPERTY ClaimedEventuallyReleased
CHECK_DEADLOCK FALSE
