\* A message inserted into a site object is eventually claimed by one of
\* its dispatchers.  Two site objects may exist, so the reaper can
\* unregister a site while a queue task still holds its handle.
CONSTANTS
    Msgs = {m1, m2}
    Dispatchers = {d1, d2, d3, d4}
    NoMsg = NoMsg
    MaxSites = 2
    MaxReady = 2
    ConnectionLimit = 32
    MaxAddrs = 1
    EnableTls = "Opportunistic"
    SendOutcomes <- AnsweringPeer
    SpoolCanFail = FALSE
SPECIFICATION Spec
PROPERTY ReadyEventuallyClaimed
CHECK_DEADLOCK FALSE
