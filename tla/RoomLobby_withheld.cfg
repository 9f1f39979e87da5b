\* One viewer fits beside the host, two are in line; two browsers are enough for
\* one of them to go away.
CONSTANTS
    Viewers = {v1, v2}
    Host = host
    Sessions = {s1, s2}
    Stale = stale
    Rooms = {r1}
    MaxMembers = 2
    MaxVerifying = 1
    None = None
SPECIFICATION LobbySpec
PROPERTIES SeatIsOffered
