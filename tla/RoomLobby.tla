------------------------------ MODULE RoomLobby ------------------------------
(***************************************************************************)
(* RoomSeats with the browsers that wait: the lobby streams that           *)
(* apps/web/src/pages/HomePage.tsx opens while it shows the waiting page   *)
(* and that app.ts serves with one getAccountRoomState every two seconds.  *)
(* The server writes queue rows, only the pages turn them into seats.      *)
(***************************************************************************)
EXTENDS RoomSeats

VARIABLE lobby    \* the sessions with an open /lobby/events stream

lobbyVars == <<vars, lobby>>

LobbyInit == Init /\ lobby = {}

\* GET /lobby/events emits at once ...
OpenLobby(s) ==
    /\ s \notin lobby
    /\ PollRoom(s)
    /\ lobby' = lobby \cup {s}

\* ... and again every two seconds while it is open.
LobbyTick(s) ==
    /\ s \in lobby
    /\ PollRoom(s)
    /\ UNCHANGED lobby

\* The page is closed or moves on: the server only clears the timer.
CloseLobby(s) ==
    /\ s \in lobby
    /\ lobby' = lobby \ {s}
    /\ UNCHANGED vars

\* Any other request; a stream ends with the session it was opened by.
Request ==
    /\ Next
    /\ lobby' = {s \in lobby : owner'[s] = owner[s]}

LobbyNext ==
    \/ \E s \in Sessions : OpenLobby(s) \/ LobbyTick(s) \/ CloseLobby(s)
    \/ Request

\* A page that is open polls: the timer of app.ts and the EventSource of the
\* waiting page.  Nothing makes a user come back, leave or log in.
Polling(v) == \E s \in lobby : owner[s] = v
PollingFairness ==
    \A v \in Viewers : WF_lobbyVars(\E s \in Sessions : owner[s] = v /\ LobbyTick(s))

LobbySpec == LobbyInit /\ [][LobbyNext]_lobbyVars /\ PollingFairness

\* What the waiting page says: a seat that is free is given to who waits.  It does
\* not stay free for ever while the room is active and a viewer in line keeps
\* the waiting page open (getAccountRoomState, enterAccountRoom).
SeatIsOffered ==
    \A v \in Viewers :
        []<>~(room # None /\ HasFreeSeat /\ v \in Waiting /\ Polling(v))
=============================================================================
