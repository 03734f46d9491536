\* Two handshakes of one account that race for the last place in the room, two
\* messages for one broadcast place, recipients that stall, leave or are evicted.
SPECIFICATION FairSpec
CONSTANTS
    Actors = {a1}
    Instances = {i1}
    Tickets = {t1}
    Sockets = {s1, s2}
    Messages = {m1, m2}
    Window = 2
    MaxPending = 1
    ActorCap = 2
    RoomCap = 1
    Nobody = Nobody
    NoMessage = NoMessage
INVARIANT PendingConserved
PROPERTY BroadcastsEnd
CHECK_DEADLOCK FALSE
