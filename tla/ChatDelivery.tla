----------------------------- MODULE ChatDelivery -----------------------------
(***************************************************************************)
(* Live chat in one room: tickets and the WebSocket handshake, the         *)
(* registry of each API instance (ConnectionManager), messages committed   *)
(* over REST or WebSocket, and their broadcast, by the instance that       *)
(* stored them and by every instance that hears the notification.          *)
(*                                                                         *)
(* An instance runs these coroutines on one event loop: a step is what     *)
(* runs between two awaits.  Transactions of Postgres are atomic steps.    *)
(***************************************************************************)
EXTENDS FiniteSets, Integers, Sequences, Functions

CONSTANTS
    Actors, Instances,
    Tickets,        \* bound: unused WebSocket tickets at one time
    Sockets,        \* bound: handshakes ever attempted
    Messages,       \* bound: messages ever stored
    Window,         \* RECENT_DELIVERY_IDS
    MaxPending,     \* MAX_PENDING_BROADCASTS
    ActorCap,       \* MAX_WS_CONNECTIONS_PER_ACTOR
    RoomCap,        \* MAX_CONNECTIONS_PER_ROOM
    Nobody, NoMessage

ASSUME ChatAssumption ==
    /\ Nobody \notin Actors /\ NoMessage \notin Messages /\ IsFiniteSet(Messages)
    /\ Window \in Nat \ {0} /\ MaxPending \in Nat \ {0} /\ ActorCap \in Nat \ {0}
    /\ RoomCap \in Nat \ {0}

VARIABLES
    access,        \* "none", "granted", or "revoked" once the account is deleting
    owner,         \* chat_ws_tickets: the actor of an unused ticket, else Nobody
    pc,            \* the handler of a socket
    who, at,       \* its actor, and the instance it runs on
    rooms,         \* ConnectionManager._rooms of all instances: registered sockets
    sending,       \* the message being sent under a connection's lock
    posted,        \* chat_messages, with their authors
    barred,        \* actors revoked when a message was committed
    listening,     \* instances whose fanout listener is connected
    notices,       \* notifications an instance has received and not handled
    local,         \* messages whose request has yet to call broadcast_once
    recent,        \* _recent_ids of each instance
    forgotten,     \* messages that left it
    task,          \* the broadcasts in progress
    pending,       \* _pending_broadcasts
    copies         \* how often a socket was sent a message

accessVars == <<access, owner>>
socketVars == <<pc, who, at>>
storeVars == <<posted, barred>>
fanoutVars == <<listening, notices, local>>
dedupVars == <<recent, forgotten>>
sendVars == <<sending, copies>>
vars == <<accessVars, socketVars, rooms, storeVars, fanoutVars, dedupVars,
          task, pending, sendVars>>

Tasks == [step : {"idle", "verify", "send"}, to : SUBSET Sockets,
          allowed : SUBSET Actors]

Idle == [step |-> "idle", to |-> {}, allowed |-> {}]

TypeOK ==
    /\ access \in [Actors -> {"none", "granted", "revoked"}]
    /\ owner \in [Tickets -> Actors \cup {Nobody}]
    /\ pc \in [Sockets -> {"new", "claimed", "accepting", "open", "shut", "gone"}]
    /\ who \in [Sockets -> Actors \cup {Nobody}]
    /\ at \in [Sockets -> Instances]
    /\ rooms \in SUBSET Sockets
    /\ sending \in [Sockets -> Messages \cup {NoMessage}]
    /\ posted \in [Messages -> Actors \cup {Nobody}]
    /\ barred \in [Messages -> SUBSET Actors]
    /\ listening \in SUBSET Instances
    /\ notices \in [Instances -> SUBSET Messages]
    /\ local \in [Instances -> SUBSET Messages]
    /\ recent \in [Instances -> Seq(Messages)]
    /\ \A i \in Instances : Len(recent[i]) <= Window
    /\ forgotten \in [Instances -> SUBSET Messages]
    /\ task \in [Instances -> [Messages -> Tasks]]
    /\ pending \in [Instances -> Int]
    /\ copies \in [Sockets -> [Messages -> Nat]]

\* A public room admits every active account, a private one its members.
Init ==
    /\ access \in [Actors -> {"none", "granted"}]
    /\ owner = [t \in Tickets |-> Nobody]
    /\ pc = [s \in Sockets |-> "new"]
    /\ who = [s \in Sockets |-> Nobody]
    /\ at \in [Sockets -> Instances]
    /\ rooms = {}
    /\ sending = [s \in Sockets |-> NoMessage]
    /\ posted = [m \in Messages |-> Nobody]
    /\ barred = [m \in Messages |-> {}]
    /\ listening = {}
    /\ notices = [i \in Instances |-> {}]
    /\ local = [i \in Instances |-> {}]
    /\ recent = [i \in Instances |-> <<>>]
    /\ forgotten = [i \in Instances |-> {}]
    /\ task = [i \in Instances |-> [m \in Messages |-> Idle]]
    /\ pending = [i \in Instances |-> 0]
    /\ copies = [s \in Sockets |-> [m \in Messages |-> 0]]

-------------------------------------------------------------------------------
(* Access: _ACTIVE_ACTOR_SQL together with _ROOM_ACCESS_SQL *)

\* add_room_member.
AddRoomMember(a) ==
    /\ access[a] = "none"
    /\ access' = [access EXCEPT ![a] = "granted"]
    /\ UNCHANGED <<owner, socketVars, rooms, storeVars, fanoutVars,
                   dedupVars, task, pending, sendVars>>

\* mark_user_deleting: the account will never be active again.
Revoke(a) ==
    /\ access[a] # "revoked"
    /\ access' = [access EXCEPT ![a] = "revoked"]
    /\ UNCHANGED <<owner, socketVars, rooms, storeVars, fanoutVars,
                   dedupVars, task, pending, sendVars>>

-------------------------------------------------------------------------------
(* Tickets and the handshake *)

\* The room was checked in a transaction before the one that stores the ticket,
\* which checks again that the account is active.
IssueWsTicket(t, a) ==
    /\ owner[t] = Nobody
    /\ access[a] = "granted"
    /\ owner' = [owner EXCEPT ![t] = a]
    /\ UNCHANGED <<access, socketVars, rooms, storeVars, fanoutVars,
                   dedupVars, task, pending, sendVars>>

\* claim_ws_ticket: one UPDATE sets used_at.  The ticket is used up even if it was
\* issued for another room, its actor has lost access, or no answer arrives.
ClaimWsTicket(s, t) ==
    /\ pc[s] = "new"
    /\ owner[t] # Nobody
    /\ owner' = [owner EXCEPT ![t] = Nobody]
    /\ \/ /\ access[owner[t]] = "granted"
          /\ pc' = [pc EXCEPT ![s] = "claimed"]
          /\ who' = [who EXCEPT ![s] = owner[t]]
       \/ /\ pc' = [pc EXCEPT ![s] = "gone"]
          /\ UNCHANGED who
    /\ UNCHANGED <<access, at, rooms, storeVars, fanoutVars, dedupVars, task,
                   pending, sendVars>>

Connections(i) == {s \in rooms : at[s] = i}
SocketsOf(a, i) == {s \in Connections(i) : who[s] = a}

\* The caps of this instance are looked at, then accept() is awaited.
CheckCaps(s) ==
    /\ pc[s] = "claimed"
    /\ pc' = [pc EXCEPT ![s] =
                 IF \/ Cardinality(SocketsOf(who[s], at[s])) >= ActorCap
                    \/ Cardinality(Connections(at[s])) >= RoomCap
                 THEN "gone" ELSE "accepting"]
    /\ UNCHANGED <<accessVars, who, at, rooms, storeVars, fanoutVars, dedupVars,
                   task, pending, sendVars>>

\* connect, behind accept().  If the fanout bridge cannot be started the handler
\* dies outside its try block and the registration stays.
Connect(s) ==
    /\ pc[s] = "accepting"
    /\ rooms' = rooms \cup {s}
    /\ \E end \in {"open", "gone"} : pc' = [pc EXCEPT ![s] = end]
    /\ UNCHANGED <<accessVars, who, at, storeVars, fanoutVars, dedupVars, task,
                   pending, sendVars>>

\* The client is gone, or was never there to be accepted.
ClientLeaves(s) ==
    /\ \/ pc[s] = "accepting" /\ pc' = [pc EXCEPT ![s] = "gone"]
       \/ pc[s] = "open" /\ pc' = [pc EXCEPT ![s] = "shut"]
    /\ UNCHANGED <<accessVars, who, at, rooms, storeVars, fanoutVars, dedupVars,
                   task, pending, sendVars>>

\* The receive loop ends: closed, or idle for too long.
HandlerEnds(s) ==
    /\ pc[s] \in {"open", "shut"}
    /\ pc' = [pc EXCEPT ![s] = "gone"]
    /\ rooms' = rooms \ {s}
    /\ UNCHANGED <<accessVars, who, at, storeVars, fanoutVars, dedupVars, task,
                   pending, sendVars>>

-------------------------------------------------------------------------------
(* Messages and notifications *)

\* pg_notify fires with the commit, for those listening at that moment.
Notify(m) ==
    notices' = [i \in Instances |->
                   IF i \in listening THEN notices[i] \cup {m} ELSE notices[i]]

\* lock_active_actor and the guarded insert of create_message.
MayPost(a) == access[a] = "granted"

\* The request goes on to its own broadcast, unless it dies first.
CreateMessage(i, a, m) ==
    /\ posted[m] = Nobody
    /\ MayPost(a)
    /\ posted' = [posted EXCEPT ![m] = a]
    /\ barred' = [barred EXCEPT ![m] = {b \in Actors : access[b] = "revoked"}]
    /\ Notify(m)
    /\ \/ local' = [local EXCEPT ![i] = @ \cup {m}]
       \/ UNCHANGED local
    /\ UNCHANGED <<accessVars, socketVars, rooms, listening, dedupVars, task,
                   pending, sendVars>>

\* The same idempotency key again: the stored message is answered and
\* broadcast once more, without a notification.  Bound: not after some socket
\* was sent the message twice.
ReplayMessage(i, m) ==
    /\ posted[m] # Nobody /\ MayPost(posted[m])
    /\ m \notin local[i] /\ \A s \in Sockets : copies[s][m] <= 1
    /\ local' = [local EXCEPT ![i] = @ \cup {m}]
    /\ UNCHANGED <<accessVars, socketVars, rooms, storeVars, listening, notices,
                   dedupVars, task, pending, sendVars>>

ListenerUp(i) ==
    /\ i \notin listening
    /\ listening' = listening \cup {i}
    /\ UNCHANGED <<accessVars, socketVars, rooms, storeVars, notices, local,
                   dedupVars, task, pending, sendVars>>

\* What a broken connection had received and not handed over is lost.
ListenerDown(i) ==
    /\ i \in listening
    /\ listening' = listening \ {i}
    /\ notices' = [notices EXCEPT ![i] = {}]
    /\ UNCHANGED <<accessVars, socketVars, rooms, storeVars, local, dedupVars,
                   task, pending, sendVars>>

-------------------------------------------------------------------------------
(* Broadcast *)

Remembered(i) == Range(recent[i])

\* Mutant: the id is looked up and not added.
RememberNothing(i, m) == UNCHANGED dedupVars

\* _claim_delivery of an id that is not in the window.
Remember(i, m) ==
    IF Len(recent[i]) >= Window
    THEN /\ recent' = [recent EXCEPT ![i] = Append(Tail(@), m)]
         /\ forgotten' = [forgotten EXCEPT ![i] = @ \cup {Head(recent[i])}]
    ELSE /\ recent' = [recent EXCEPT ![i] = Append(@, m)]
         /\ UNCHANGED forgotten

\* Mutant: a broadcast is counted before the limit may refuse it.
BeginBroadcastCounted(i, m) ==
    LET targets == Connections(i) IN
    IF targets = {} THEN UNCHANGED <<task, pending>>
    ELSE /\ task' = IF pending[i] >= MaxPending THEN task
                    ELSE [task EXCEPT ![i][m] =
                             [step |-> "verify", to |-> targets, allowed |-> {}]]
         /\ pending' = [pending EXCEPT ![i] = @ + 1]

\* broadcast up to its first await: targets are those registered now.
BeginBroadcast(i, m) ==
    LET targets == Connections(i) IN
    IF targets = {} \/ pending[i] >= MaxPending
    THEN UNCHANGED <<task, pending>>
    ELSE /\ task' = [task EXCEPT ![i][m] =
                        [step |-> "verify", to |-> targets, allowed |-> {}]]
         /\ pending' = [pending EXCEPT ![i] = @ + 1]

\* broadcast_once.  Bound: a forgotten message is not broadcast again before its
\* first broadcast has ended.
BroadcastOnce(i, m) ==
    /\ \/ /\ m \in Remembered(i)
          /\ UNCHANGED <<dedupVars, task, pending>>
       \/ /\ m \notin Remembered(i) /\ task[i][m] = Idle
          /\ Remember(i, m) /\ BeginBroadcast(i, m)
    /\ UNCHANGED <<accessVars, socketVars, rooms, storeVars, listening, sendVars>>

LocalBroadcast(i, m) ==
    /\ m \in local[i]
    /\ BroadcastOnce(i, m)
    /\ local' = [local EXCEPT ![i] = @ \ {m}]
    /\ UNCHANGED notices

\* The bridge fetched the message and its delivery got its turn.
FanoutBroadcast(i, m) ==
    /\ m \in notices[i]
    /\ BroadcastOnce(i, m)
    /\ notices' = [notices EXCEPT ![i] = @ \ {m}]
    /\ UNCHANGED local

\* The fetch failed or the bridge had no slot free.
DropNotice(i, m) ==
    /\ m \in notices[i]
    /\ notices' = [notices EXCEPT ![i] = @ \ {m}]
    /\ UNCHANGED <<accessVars, socketVars, rooms, storeVars, listening, local,
                   dedupVars, task, pending, sendVars>>

\* Mutant: the access a socket had when it was admitted is enough.
AdmittedActors(to) == {who[s] : s \in to}

\* authorized_actors, in one query.
AuthorizedActors(to) == {who[s] : s \in to} \cap {a \in Actors : access[a] = "granted"}

VerifyAccess(i, m) ==
    /\ task[i][m].step = "verify"
    /\ task' = [task EXCEPT ![i][m] =
                    [step |-> "send", to |-> @.to, allowed |-> AuthorizedActors(@.to)]]
    /\ UNCHANGED <<accessVars, socketVars, rooms, storeVars, fanoutVars, dedupVars,
                   pending, sendVars>>

EndBroadcast(i, m) ==
    /\ task' = [task EXCEPT ![i][m] = Idle]
    /\ pending' = [pending EXCEPT ![i] = @ - 1]

\* The query fails, or no worker is free for it: nothing is delivered.
VerifyFails(i, m) ==
    /\ task[i][m].step = "verify"
    /\ EndBroadcast(i, m)
    /\ UNCHANGED <<accessVars, socketVars, rooms, storeVars, fanoutVars, dedupVars,
                   sendVars>>

\* A server-side close, which may time out and leave the socket open.
Evict(s) ==
    /\ rooms' = rooms \ {s}
    /\ \/ pc' = [pc EXCEPT ![s] = IF @ = "open" THEN "shut" ELSE @]
       \/ UNCHANGED pc

Handled(i, m, s) ==
    task' = [task EXCEPT ![i][m] =
                [step |-> @.step, to |-> @.to \ {s}, allowed |-> @.allowed]]

\* deliver(connection): a slow or a denied recipient is evicted, else the send
\* begins under the connection's lock.
SendTo(i, m, s) ==
    /\ task[i][m].step = "send" /\ s \in task[i][m].to
    /\ Handled(i, m, s)
    /\ IF sending[s] # NoMessage \/ who[s] \notin task[i][m].allowed
         THEN Evict(s) /\ UNCHANGED sending
         ELSE sending' = [sending EXCEPT ![s] = m] /\ UNCHANGED <<pc, rooms>>
    /\ UNCHANGED <<accessVars, who, at, storeVars, fanoutVars, dedupVars, pending,
                   copies>>

SendArrives(s) ==
    /\ sending[s] # NoMessage /\ pc[s] = "open"
    /\ copies' = [copies EXCEPT ![s][sending[s]] = @ + 1]
    /\ sending' = [sending EXCEPT ![s] = NoMessage]
    /\ UNCHANGED <<accessVars, socketVars, rooms, storeVars, fanoutVars, dedupVars,
                   task, pending>>

\* Mutant: a send waits for its client as long as the socket stays open.
SendFailsIfClosed(s) ==
    /\ sending[s] # NoMessage /\ pc[s] # "open"
    /\ sending' = [sending EXCEPT ![s] = NoMessage]
    /\ Evict(s)
    /\ UNCHANGED <<accessVars, who, at, storeVars, fanoutVars, dedupVars, task,
                   pending, copies>>

\* Two seconds have passed, or the socket is closed.
SendFails(s) ==
    /\ sending[s] # NoMessage
    /\ sending' = [sending EXCEPT ![s] = NoMessage]
    /\ Evict(s)
    /\ UNCHANGED <<accessVars, who, at, storeVars, fanoutVars, dedupVars, task,
                   pending, copies>>

\* All of gather() has returned.
BroadcastEnds(i, m) ==
    /\ task[i][m].step = "send" /\ task[i][m].to = {}
    /\ \A s \in Sockets : at[s] = i => sending[s] # m
    /\ EndBroadcast(i, m)
    /\ UNCHANGED <<accessVars, socketVars, rooms, storeVars, fanoutVars, dedupVars,
                   sendVars>>

-------------------------------------------------------------------------------
BroadcastStep(i, m) ==
    \/ VerifyAccess(i, m) \/ VerifyFails(i, m) \/ BroadcastEnds(i, m)
    \/ \E s \in Sockets : SendTo(i, m, s)

SocketStep(s) == CheckCaps(s) \/ Connect(s) \/ HandlerEnds(s)

Next ==
    \/ \E a \in Actors : AddRoomMember(a) \/ Revoke(a)
    \/ \E t \in Tickets : \/ \E a \in Actors : IssueWsTicket(t, a)
                          \/ \E s \in Sockets : ClaimWsTicket(s, t)
    \/ \E s \in Sockets : \/ SocketStep(s) \/ ClientLeaves(s)
                          \/ SendArrives(s) \/ SendFails(s)
    \/ \E i \in Instances : ListenerUp(i) \/ ListenerDown(i)
    \/ \E i \in Instances, m \in Messages :
          \/ \E a \in Actors : CreateMessage(i, a, m)
          \/ ReplayMessage(i, m) \/ LocalBroadcast(i, m) \/ FanoutBroadcast(i, m)
          \/ DropNotice(i, m) \/ BroadcastStep(i, m)

Spec == Init /\ [][Next]_vars

\* The event loop runs what is ready, a query answers or times out, and a send
\* that has not succeeded after SEND_TIMEOUT_SECONDS fails.  Nothing is assumed
\* of clients.
Fairness ==
    /\ \A i \in Instances, m \in Messages : WF_vars(BroadcastStep(i, m))
    /\ \A s \in Sockets : WF_vars(SendFails(s))

FairSpec == Spec /\ Fairness

-------------------------------------------------------------------------------
(* Properties *)

\* A socket is never sent a message that was committed after its account lost
\* its chat authority, however long ago the socket was admitted and whichever
\* route the message takes.
RevokedReceiveNothing ==
    \A s \in Sockets, m \in Messages : copies[s][m] > 0 => who[s] \notin barred[m]

\* A socket is sent a message twice only if the instance has forgotten it since:
\* the local and the fanout copy, and replays, meet in one window.
SentOnce ==
    \A s \in Sockets, m \in Messages : copies[s][m] > 1 => m \in forgotten[at[s]]

Broadcasts(i) == {m \in Messages : task[i][m] # Idle}

\* _pending_broadcasts counts the broadcasts in progress, whichever way they
\* end or are refused, and keeps them within their limit.
PendingConserved ==
    \A i \in Instances :
        pending[i] = Cardinality(Broadcasts(i)) /\ pending[i] <= MaxPending

\* Every broadcast ends, whatever its recipients do, and gives its place back.
BroadcastsEnd ==
    \A i \in Instances, m \in Messages : task[i][m] # Idle ~> task[i][m] = Idle

\* What makes RevokedReceiveNothing inductive: those barred from a message stay
\* revoked, and nobody barred is among its verified recipients.
BarredStayOut ==
    \A m \in Messages :
        /\ \A a \in barred[m] : access[a] = "revoked"
        /\ \A s \in Sockets :
              copies[s][m] > 0 \/ sending[s] = m => who[s] \notin barred[m]
        /\ \A i \in Instances :
              task[i][m].step = "send" => task[i][m].allowed \cap barred[m] = {}

\* Only stored messages travel.
OnlyPostedTravel ==
    \A m \in Messages : posted[m] = Nobody =>
        /\ \A s \in Sockets : copies[s][m] = 0 /\ sending[s] # m
        /\ \A i \in Instances : task[i][m] = Idle /\ m \notin local[i] \cup notices[i]

\* A socket takes part only after its handshake has given it an actor.
NewSocketsIdle ==
    \A s \in Sockets : pc[s] = "new" =>
        /\ s \notin rooms /\ sending[s] = NoMessage
        /\ \A m \in Messages : copies[s][m] = 0
        /\ \A i \in Instances, m \in Messages : s \notin task[i][m].to

\* A broadcast addresses sockets of its own instance.
TargetsAreLocal ==
    \A i \in Instances, m \in Messages : \A s \in task[i][m].to : at[s] = i

\* What an instance has neither in its window nor forgotten, it has not begun to
\* broadcast.
NotYetBroadcast ==
    \A i \in Instances, m \in Messages : m \notin Remembered(i) \cup forgotten[i] =>
        /\ task[i][m] = Idle
        /\ \A s \in Sockets : at[s] = i => sending[s] # m /\ copies[s][m] = 0

\* What makes SentOnce inductive: as long as its instance remembers a message, a
\* socket is a target of its broadcast, is being sent it, or has been sent it once,
\* and only one of these.
HandedOnce ==
    \A s \in Sockets, m \in Messages : m \notin forgotten[at[s]] =>
        /\ copies[s][m] <= 1
        /\ sending[s] = m => copies[s][m] = 0
        /\ s \in task[at[s]][m].to => sending[s] # m /\ copies[s][m] = 0

DedupInv == TargetsAreLocal /\ NotYetBroadcast /\ HandedOnce

IInv == /\ TypeOK /\ BarredStayOut /\ OnlyPostedTravel /\ NewSocketsIdle
        /\ PendingConserved /\ DedupInv
===============================================================================
