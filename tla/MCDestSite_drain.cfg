\* Liveness of the registered site against a peer that always answers:
\* three messages through a two-slot ring.  One site object at a time.
CONSTANTS
    Msgs = {m1, m2, m3}
    Dispatchers = {d1, d2}
    NoMsg = NoMsg
    MaxSites = 1
    MaxReady = 2
    ConnectionLimit = 32
    MaxAddrs = 1
    EnableTls = "Required"
    SendOutcomes <- AnsweringPeer
    SpoolCanFail = TRUE
SPECIFICATION Spec
INVARIANT TypeOK
 
\* Stranded messages in an unregistered site stop the system for good.
CHECK_DEADLOCK FALSE
