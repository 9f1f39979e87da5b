\* The host and one viewer fit, a second viewer waits in line; three browsers:
\* every order of takeover, rotation, logout, expiry and CLI call.  Rows of
\* expired sessions name Stale, a room id is used again once no row names it.
CONSTANTS
    Viewers = {v1, v2}
    Host = host
    Sessions = {s1, s2, s3}
    Stale = stale
    Rooms = {r1}
    MaxMembers = 2
    MaxVerifying = 1
    MaxSockets = 1
    None = None
SPECIFICATION SocketSpec
SYMMETRY Symmetry
INVARIANTS SeatsWithinCapacity QueueRowsAreCurrent HostKeepsSeat LeaseFollowsSeat RemovedMemberIsOff
PROPERTIES SocketsKeepTheirOwner KickedStaysOut NoOvertaking
