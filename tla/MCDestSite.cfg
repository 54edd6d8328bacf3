\* The site layer against a peer that may also drop the connection:
\* ownership of messages and the connection gauge, two site objects, two
\* messages, a two-slot ring and enough dispatcher ids for both sites.
CONSTANTS
    Msgs = {m1, m2}
    Dispatchers = {d1, d2, d3, d4}
    NoMsg = NoMsg
    MaxSites = 2
    MaxReady = 2
    ConnectionLimit = 32
    MaxAddrs = 1
    EnableTls = "Required"
    SendOutcomes <- DroppingPeer
    SpoolCanFail = TRUE
SPECIFICATION Spec
INVARIANT ExactlyOneOwner
INVARIANT GaugeTracksConnections
PROPERTY ImplementsSiteHandoff
SYMMETRY Symmetry
\* The system can really stop: messages inserted into a site object the
\* reaper already unregistered stay in its ring with no task left to take
\* them (run dest_site_orphan_strands).  Deadlock is therefore not checked.
CHECK_DEADLOCK FALSE
