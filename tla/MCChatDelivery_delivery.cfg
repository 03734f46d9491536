\* One instance, two actors of whom any may be revoked, two messages on both routes.
SPECIFICATION Spec
CONSTANTS
    Actors = {a1, a2}
    Instances = {i1}
    Tickets = {t1}
    Sockets = {s1}
    Messages = {m1, m2}
    Window = 1
    MaxPending = 2
    ActorCap = 1
    RoomCap = 2
    Nobody = Nobody
    NoMessage = NoMessage
SYMMETRY Symmetry
INVARIANTS
    RevokedReceiveNothing
    SentOnce
CHECK_DEADLOCK FALSE
