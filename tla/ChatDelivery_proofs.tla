------------------------- MODULE ChatDelivery_proofs -------------------------
(***************************************************************************)
(* Proofs about ChatDelivery for any number of actors, instances, tickets, *)
(* sockets and messages: what a revoked account is never sent, that the    *)
(* count of broadcasts in progress is right, and that a message leaves the *)
(* window of recent ids before an instance sends it again.                 *)
(***************************************************************************)
EXTENDS ChatDelivery, FiniteSetTheorems, TLAPS

\* The invariant without the count of broadcasts.
Inv == TypeOK /\ BarredStayOut /\ OnlyPostedTravel /\ NewSocketsIdle

\* The initial state satisfies it.
LEMMA InitInv == Init => Inv
<1> SUFFICES ASSUME Init PROVE Inv
  OBVIOUS
<1>1. TypeOK
  BY ChatAssumption DEF Init, TypeOK, Tasks, Idle
<1>2. BarredStayOut /\ OnlyPostedTravel /\ NewSocketsIdle
  BY ChatAssumption DEF Init, BarredStayOut, OnlyPostedTravel, NewSocketsIdle, Idle
<1> QED
  BY <1>1, <1>2 DEF Inv

\* Joining a private room touches no message.
LEMMA AddRoomMemberInv ==
    ASSUME Inv, NEW a \in Actors, AddRoomMember(a)
    PROVE  Inv'
<1> USE ChatAssumption DEF AddRoomMember, accessVars, socketVars, storeVars, fanoutVars,
        dedupVars, sendVars, Idle
<1>1. TypeOK'
  BY DEF Inv, TypeOK, Tasks
<1>2. BarredStayOut'
  BY DEF Inv, TypeOK, BarredStayOut, OnlyPostedTravel, NewSocketsIdle
<1>3. OnlyPostedTravel'
  BY DEF Inv, TypeOK, OnlyPostedTravel
<1>4. NewSocketsIdle'
  BY DEF Inv, TypeOK, NewSocketsIdle
<1> QED
  BY <1>1, <1>2, <1>3, <1>4 DEF Inv

\* Revoking an account bars it from nothing committed earlier.
LEMMA RevokeInv == ASSUME Inv, NEW a \in Actors, Revoke(a) PROVE Inv'
<1> USE ChatAssumption DEF Revoke, accessVars, socketVars, storeVars, fanoutVars,
        dedupVars, sendVars, Idle
<1>1. TypeOK'
  BY DEF Inv, TypeOK, Tasks
<1>2. BarredStayOut'
  BY DEF Inv, TypeOK, BarredStayOut, OnlyPostedTravel, NewSocketsIdle
<1>3. OnlyPostedTravel'
  BY DEF Inv, TypeOK, OnlyPostedTravel
<1>4. NewSocketsIdle'
  BY DEF Inv, TypeOK, NewSocketsIdle
<1> QED
  BY <1>1, <1>2, <1>3, <1>4 DEF Inv

\* Issuing a ticket touches no socket.
LEMMA IssueWsTicketInv ==
    ASSUME Inv, NEW t \in Tickets, NEW a \in Actors, IssueWsTicket(t, a)
    PROVE  Inv'
<1> USE ChatAssumption DEF IssueWsTicket, accessVars, socketVars, storeVars, fanoutVars,
        dedupVars, sendVars, Idle
<1>1. TypeOK'
  BY DEF Inv, TypeOK, Tasks
<1>2. BarredStayOut'
  BY DEF Inv, TypeOK, BarredStayOut, OnlyPostedTravel, NewSocketsIdle
<1>3. OnlyPostedTravel'
  BY DEF Inv, TypeOK, OnlyPostedTravel
<1>4. NewSocketsIdle'
  BY DEF Inv, TypeOK, NewSocketsIdle
<1> QED
  BY <1>1, <1>2, <1>3, <1>4 DEF Inv

\* A handshake gives an actor only to a socket nothing was ever sent to.
LEMMA ClaimWsTicketInv ==
    ASSUME Inv, NEW s \in Sockets, NEW t \in Tickets, ClaimWsTicket(s, t)
    PROVE  Inv'
<1> USE ChatAssumption DEF ClaimWsTicket, accessVars, socketVars, storeVars, fanoutVars,
        dedupVars, sendVars, Idle
<1>1. TypeOK'
  BY DEF Inv, TypeOK, Tasks
<1>2. BarredStayOut'
  <2>1. \A u \in Sockets, m \in Messages :
           copies[u][m] > 0 \/ sending[u] = m => pc[u] # "new"
    BY DEF Inv, TypeOK, NewSocketsIdle
  <2>2. \A u \in Sockets : pc[u] # "new" => who'[u] = who[u]
    BY DEF Inv, TypeOK
  <2>3. UNCHANGED <<access, barred, copies, sending, task>>
    OBVIOUS
  <2> QED
    BY <2>1, <2>2, <2>3 DEF Inv, BarredStayOut
<1>3. OnlyPostedTravel'
  BY DEF Inv, TypeOK, OnlyPostedTravel
<1>4. NewSocketsIdle'
  BY DEF Inv, TypeOK, NewSocketsIdle
<1> QED
  BY <1>1, <1>2, <1>3, <1>4 DEF Inv

\* Looking at the caps moves one handshake on or ends it.
LEMMA CheckCapsInv == ASSUME Inv, NEW s \in Sockets, CheckCaps(s) PROVE Inv'
<1> USE ChatAssumption DEF CheckCaps, accessVars, socketVars, storeVars, fanoutVars,
        dedupVars, sendVars, Idle
<1>1. TypeOK'
  BY DEF Inv, TypeOK, Tasks
<1>2. BarredStayOut'
  BY DEF Inv, TypeOK, BarredStayOut, OnlyPostedTravel, NewSocketsIdle
<1>3. OnlyPostedTravel'
  BY DEF Inv, TypeOK, OnlyPostedTravel
<1>4. NewSocketsIdle'
  BY DEF Inv, TypeOK, NewSocketsIdle
<1> QED
  BY <1>1, <1>2, <1>3, <1>4 DEF Inv

\* The socket that is registered has its actor already.
LEMMA ConnectInv == ASSUME Inv, NEW s \in Sockets, Connect(s) PROVE Inv'
<1> USE ChatAssumption DEF Connect, accessVars, socketVars, storeVars, fanoutVars,
        dedupVars, sendVars, Idle
<1>1. TypeOK'
  BY DEF Inv, TypeOK, Tasks
<1>2. BarredStayOut'
  BY DEF Inv, TypeOK, BarredStayOut, OnlyPostedTravel, NewSocketsIdle
<1>3. OnlyPostedTravel'
  BY DEF Inv, TypeOK, OnlyPostedTravel
<1>4. NewSocketsIdle'
  BY DEF Inv, TypeOK, NewSocketsIdle
<1> QED
  BY <1>1, <1>2, <1>3, <1>4 DEF Inv

\* A client that leaves changes no registration.
LEMMA ClientLeavesInv ==
    ASSUME Inv, NEW s \in Sockets, ClientLeaves(s)
    PROVE  Inv'
<1> USE ChatAssumption DEF ClientLeaves, accessVars, socketVars, storeVars, fanoutVars,
        dedupVars, sendVars, Idle
<1>1. TypeOK'
  BY DEF Inv, TypeOK, Tasks
<1>2. BarredStayOut'
  BY DEF Inv, TypeOK, BarredStayOut, OnlyPostedTravel, NewSocketsIdle
<1>3. OnlyPostedTravel'
  BY DEF Inv, TypeOK, OnlyPostedTravel
<1>4. NewSocketsIdle'
  BY DEF Inv, TypeOK, NewSocketsIdle
<1> QED
  BY <1>1, <1>2, <1>3, <1>4 DEF Inv

\* A handler that ends takes its socket out of the registry.
LEMMA HandlerEndsInv == ASSUME Inv, NEW s \in Sockets, HandlerEnds(s) PROVE Inv'
<1> USE ChatAssumption DEF HandlerEnds, accessVars, socketVars, storeVars, fanoutVars,
        dedupVars, sendVars, Idle
<1>1. TypeOK'
  BY DEF Inv, TypeOK, Tasks
<1>2. BarredStayOut'
  BY DEF Inv, TypeOK, BarredStayOut, OnlyPostedTravel, NewSocketsIdle
<1>3. OnlyPostedTravel'
  BY DEF Inv, TypeOK, OnlyPostedTravel
<1>4. NewSocketsIdle'
  BY DEF Inv, TypeOK, NewSocketsIdle
<1> QED
  BY <1>1, <1>2, <1>3, <1>4 DEF Inv

\* A message is committed before anything carries it, and bars those revoked by then.
LEMMA CreateMessageInv ==
    ASSUME Inv, NEW i \in Instances, NEW a \in Actors, NEW n \in Messages, CreateMessage(i, a, n)
    PROVE  Inv'
<1> USE ChatAssumption DEF CreateMessage, Notify, MayPost, accessVars, socketVars, storeVars, fanoutVars,
        dedupVars, sendVars, Idle
<1>1. TypeOK'
  <2>1. notices' \in [Instances -> SUBSET Messages]
    BY DEF Inv, TypeOK
  <2>a. local' \in [Instances -> SUBSET Messages]
    <3>1. local \in [Instances -> SUBSET Messages]
      BY DEF Inv, TypeOK
    <3>2. CASE local' = [local EXCEPT ![i] = @ \cup {n}]
      BY <3>1, <3>2
    <3>3. CASE UNCHANGED local
      BY <3>1, <3>3
    <3> QED
      BY <3>2, <3>3
  <2>2. posted' \in [Messages -> Actors \cup {Nobody}] /\ barred' \in [Messages -> SUBSET Actors]
    BY DEF Inv, TypeOK
  <2> QED
    BY <2>1, <2>a, <2>2 DEF Inv, TypeOK
<1>2. BarredStayOut'
  BY DEF Inv, TypeOK, BarredStayOut, OnlyPostedTravel, NewSocketsIdle
<1>3. OnlyPostedTravel'
  <2>1. \A m \in Messages : posted'[m] = Nobody => m # n /\ posted[m] = Nobody
    BY DEF Inv, TypeOK
  <2>2. \A m \in Messages, j \in Instances :
           m # n /\ m \notin notices[j] => m \notin notices'[j]
    BY DEF Inv, TypeOK
  <2>a. \A m \in Messages, j \in Instances : m # n /\ m \notin local[j] => m \notin local'[j]
    <3>1. local \in [Instances -> SUBSET Messages]
      BY DEF Inv, TypeOK
    <3>2. CASE local' = [local EXCEPT ![i] = @ \cup {n}]
      BY <3>1, <3>2
    <3>3. CASE UNCHANGED local
      BY <3>1, <3>3
    <3> QED
      BY <3>2, <3>3
  <2>3. UNCHANGED <<copies, sending, task>>
    OBVIOUS
  <2> QED
    BY <2>1, <2>2, <2>a, <2>3 DEF Inv, OnlyPostedTravel
<1>4. NewSocketsIdle'
  BY DEF Inv, TypeOK, NewSocketsIdle
<1> QED
  BY <1>1, <1>2, <1>3, <1>4 DEF Inv

\* A replay carries a message that is stored.
LEMMA ReplayMessageInv ==
    ASSUME Inv, NEW i \in Instances, NEW n \in Messages, ReplayMessage(i, n)
    PROVE  Inv'
<1> USE ChatAssumption DEF ReplayMessage, accessVars, socketVars, storeVars, fanoutVars,
        dedupVars, sendVars, Idle
<1>1. TypeOK'
  BY DEF Inv, TypeOK, Tasks
<1>2. BarredStayOut'
  BY DEF Inv, TypeOK, BarredStayOut, OnlyPostedTravel, NewSocketsIdle
<1>3. OnlyPostedTravel'
  BY DEF Inv, TypeOK, OnlyPostedTravel
<1>4. NewSocketsIdle'
  BY DEF Inv, TypeOK, NewSocketsIdle
<1> QED
  BY <1>1, <1>2, <1>3, <1>4 DEF Inv

\* A listener that connects has received nothing yet.
LEMMA ListenerUpInv == ASSUME Inv, NEW i \in Instances, ListenerUp(i) PROVE Inv'
<1> USE ChatAssumption DEF ListenerUp, accessVars, socketVars, storeVars, fanoutVars,
        dedupVars, sendVars, Idle
<1>1. TypeOK'
  BY DEF Inv, TypeOK, Tasks
<1>2. BarredStayOut'
  BY DEF Inv, TypeOK, BarredStayOut, OnlyPostedTravel, NewSocketsIdle
<1>3. OnlyPostedTravel'
  BY DEF Inv, TypeOK, OnlyPostedTravel
<1>4. NewSocketsIdle'
  BY DEF Inv, TypeOK, NewSocketsIdle
<1> QED
  BY <1>1, <1>2, <1>3, <1>4 DEF Inv

\* A listener that breaks only loses notifications.
LEMMA ListenerDownInv ==
    ASSUME Inv, NEW i \in Instances, ListenerDown(i)
    PROVE  Inv'
<1> USE ChatAssumption DEF ListenerDown, accessVars, socketVars, storeVars, fanoutVars,
        dedupVars, sendVars, Idle
<1>1. TypeOK'
  BY DEF Inv, TypeOK, Tasks
<1>2. BarredStayOut'
  BY DEF Inv, TypeOK, BarredStayOut, OnlyPostedTravel, NewSocketsIdle
<1>3. OnlyPostedTravel'
  BY DEF Inv, TypeOK, OnlyPostedTravel
<1>4. NewSocketsIdle'
  BY DEF Inv, TypeOK, NewSocketsIdle
<1> QED
  BY <1>1, <1>2, <1>3, <1>4 DEF Inv

\* A notification that is dropped leaves no trace.
LEMMA DropNoticeInv ==
    ASSUME Inv, NEW i \in Instances, NEW n \in Messages, DropNotice(i, n)
    PROVE  Inv'
<1> USE ChatAssumption DEF DropNotice, accessVars, socketVars, storeVars, fanoutVars,
        dedupVars, sendVars, Idle
<1>1. TypeOK'
  BY DEF Inv, TypeOK, Tasks
<1>2. BarredStayOut'
  BY DEF Inv, TypeOK, BarredStayOut, OnlyPostedTravel, NewSocketsIdle
<1>3. OnlyPostedTravel'
  BY DEF Inv, TypeOK, OnlyPostedTravel
<1>4. NewSocketsIdle'
  BY DEF Inv, TypeOK, NewSocketsIdle
<1> QED
  BY <1>1, <1>2, <1>3, <1>4 DEF Inv

\* The recipients verified for a message are active, so none is barred from it.
LEMMA VerifyAccessInv ==
    ASSUME Inv, NEW i \in Instances, NEW n \in Messages, VerifyAccess(i, n)
    PROVE  Inv'
<1> USE ChatAssumption DEF VerifyAccess, AuthorizedActors, accessVars, socketVars, storeVars, fanoutVars,
        dedupVars, sendVars, Idle
<1>1. TypeOK'
  <2>1. /\ task[i][n].to \in SUBSET Sockets
        /\ AuthorizedActors(task[i][n].to) \in SUBSET Actors
    BY DEF Inv, TypeOK, Tasks
  <2>a. [step |-> "send", to |-> task[i][n].to,
         allowed |-> AuthorizedActors(task[i][n].to)] \in Tasks
    BY <2>1 DEF Tasks
  <2>2. task' \in [Instances -> [Messages -> Tasks]]
    BY <2>a DEF Inv, TypeOK
  <2> QED
    BY <2>2 DEF Inv, TypeOK
<1>2. BarredStayOut'
  BY DEF Inv, TypeOK, BarredStayOut, OnlyPostedTravel, NewSocketsIdle
<1>3. OnlyPostedTravel'
  BY DEF Inv, TypeOK, OnlyPostedTravel
<1>4. NewSocketsIdle'
  BY DEF Inv, TypeOK, NewSocketsIdle
<1> QED
  BY <1>1, <1>2, <1>3, <1>4 DEF Inv

\* A broadcast that cannot be verified ends.
LEMMA VerifyFailsInv ==
    ASSUME Inv, NEW i \in Instances, NEW n \in Messages, VerifyFails(i, n)
    PROVE  Inv'
<1> USE ChatAssumption DEF VerifyFails, EndBroadcast, accessVars, socketVars, storeVars, fanoutVars,
        dedupVars, sendVars, Idle
<1>1. TypeOK'
  BY DEF Inv, TypeOK, Tasks
<1>2. BarredStayOut'
  BY DEF Inv, TypeOK, BarredStayOut, OnlyPostedTravel, NewSocketsIdle
<1>3. OnlyPostedTravel'
  BY DEF Inv, TypeOK, OnlyPostedTravel
<1>4. NewSocketsIdle'
  BY DEF Inv, TypeOK, NewSocketsIdle
<1> QED
  BY <1>1, <1>2, <1>3, <1>4 DEF Inv

\* A send begins only to a verified recipient, whatever eviction does to the registry.
LEMMA SendToInv ==
    ASSUME Inv, NEW i \in Instances, NEW n \in Messages, NEW s \in Sockets, SendTo(i, n, s)
    PROVE  Inv'
<1> USE ChatAssumption DEF SendTo, Handled, Evict, accessVars, socketVars, storeVars, fanoutVars,
        dedupVars, sendVars, Idle
<1>1. TypeOK'
  <2>1. [step |-> task[i][n].step, to |-> task[i][n].to \ {s},
         allowed |-> task[i][n].allowed] \in Tasks
    BY DEF Inv, TypeOK, Tasks
  <2>2. task' \in [Instances -> [Messages -> Tasks]]
    BY <2>1 DEF Inv, TypeOK
  <2>3. pc' \in [Sockets -> {"new", "claimed", "accepting", "open", "shut", "gone"}]
    <3>1. pc \in [Sockets -> {"new", "claimed", "accepting", "open", "shut", "gone"}]
      BY DEF Inv, TypeOK
    <3>2. UNCHANGED pc \/ pc' = [pc EXCEPT ![s] = IF @ = "open" THEN "shut" ELSE @]
      OBVIOUS
    <3>3. CASE UNCHANGED pc
      BY <3>1, <3>3
    <3>4. CASE pc' = [pc EXCEPT ![s] = IF @ = "open" THEN "shut" ELSE @]
      BY <3>1, <3>4
    <3> QED
      BY <3>2, <3>3, <3>4
  <2>4. sending' \in [Sockets -> Messages \cup {NoMessage}]
    <3>1. sending \in [Sockets -> Messages \cup {NoMessage}]
      BY DEF Inv, TypeOK
    <3>2. CASE sending' = [sending EXCEPT ![s] = n]
      BY <3>1, <3>2
    <3>3. CASE UNCHANGED sending
      BY <3>1, <3>3
    <3> QED
      BY <3>2, <3>3
  <2>5. rooms' \in SUBSET Sockets
    BY DEF Inv, TypeOK
  <2> QED
    BY <2>2, <2>3, <2>4, <2>5 DEF Inv, TypeOK
<1>2. BarredStayOut'
  BY DEF Inv, TypeOK, BarredStayOut, OnlyPostedTravel, NewSocketsIdle
<1>3. OnlyPostedTravel'
  BY DEF Inv, TypeOK, OnlyPostedTravel
<1>4. NewSocketsIdle'
  <2>1. pc[s] # "new"
    BY DEF Inv, NewSocketsIdle
  <2>2. \A u \in Sockets : pc'[u] = "new" => pc[u] = "new" /\ u # s
    BY <2>1 DEF Inv, TypeOK
  <2>3. \A u \in Sockets : u # s => sending'[u] = sending[u]
    BY DEF Inv, TypeOK
  <2>4. \A j \in Instances, m \in Messages, u \in Sockets :
           u \in task'[j][m].to => u \in task[j][m].to
    BY DEF Inv, TypeOK
  <2>5. rooms' \subseteq rooms /\ UNCHANGED copies
    OBVIOUS
  <2> QED
    BY <2>2, <2>3, <2>4, <2>5 DEF Inv, NewSocketsIdle
<1> QED
  BY <1>1, <1>2, <1>3, <1>4 DEF Inv

\* What arrives is what was being sent.
LEMMA SendArrivesInv == ASSUME Inv, NEW s \in Sockets, SendArrives(s) PROVE Inv'
<1> USE ChatAssumption DEF SendArrives, accessVars, socketVars, storeVars, fanoutVars,
        dedupVars, sendVars, Idle
<1>1. TypeOK'
  BY DEF Inv, TypeOK, Tasks
<1>2. BarredStayOut'
  BY DEF Inv, TypeOK, BarredStayOut, OnlyPostedTravel, NewSocketsIdle
<1>3. OnlyPostedTravel'
  BY DEF Inv, TypeOK, OnlyPostedTravel
<1>4. NewSocketsIdle'
  BY DEF Inv, TypeOK, NewSocketsIdle
<1> QED
  BY <1>1, <1>2, <1>3, <1>4 DEF Inv

\* A send that fails evicts its socket and sends nothing.
LEMMA SendFailsInv == ASSUME Inv, NEW s \in Sockets, SendFails(s) PROVE Inv'
<1> USE ChatAssumption DEF SendFails, Evict, accessVars, socketVars, storeVars, fanoutVars,
        dedupVars, sendVars, Idle
<1>1. TypeOK'
  BY DEF Inv, TypeOK, Tasks
<1>2. BarredStayOut'
  BY DEF Inv, TypeOK, BarredStayOut, OnlyPostedTravel, NewSocketsIdle
<1>3. OnlyPostedTravel'
  BY DEF Inv, TypeOK, OnlyPostedTravel
<1>4. NewSocketsIdle'
  BY DEF Inv, TypeOK, NewSocketsIdle
<1> QED
  BY <1>1, <1>2, <1>3, <1>4 DEF Inv

\* A broadcast that ends leaves nothing behind.
LEMMA BroadcastEndsInv ==
    ASSUME Inv, NEW i \in Instances, NEW n \in Messages, BroadcastEnds(i, n)
    PROVE  Inv'
<1> USE ChatAssumption DEF BroadcastEnds, EndBroadcast, accessVars, socketVars, storeVars, fanoutVars,
        dedupVars, sendVars, Idle
<1>1. TypeOK'
  BY DEF Inv, TypeOK, Tasks
<1>2. BarredStayOut'
  BY DEF Inv, TypeOK, BarredStayOut, OnlyPostedTravel, NewSocketsIdle
<1>3. OnlyPostedTravel'
  BY DEF Inv, TypeOK, OnlyPostedTravel
<1>4. NewSocketsIdle'
  BY DEF Inv, TypeOK, NewSocketsIdle
<1> QED
  BY <1>1, <1>2, <1>3, <1>4 DEF Inv

\* A broadcast begins unverified, for registered sockets and a stored message,
\* whichever of the two routes brings it.
LEMMA BroadcastOnceInv ==
    ASSUME Inv, NEW i \in Instances, NEW n \in Messages,
           LocalBroadcast(i, n) \/ FanoutBroadcast(i, n)
    PROVE  Inv'
<1>1. /\ BroadcastOnce(i, n)
      /\ posted[n] # Nobody
      /\ local' \in [Instances -> SUBSET Messages]
      /\ notices' \in [Instances -> SUBSET Messages]
      /\ \A j \in Instances : local'[j] \subseteq local[j] /\ notices'[j] \subseteq notices[j]
  <2>1. /\ local \in [Instances -> SUBSET Messages]
        /\ notices \in [Instances -> SUBSET Messages]
        /\ n \in local[i] \cup notices[i] => posted[n] # Nobody
    BY DEF Inv, TypeOK, OnlyPostedTravel
  <2>2. CASE LocalBroadcast(i, n)
    BY <2>1, <2>2 DEF LocalBroadcast
  <2>3. CASE FanoutBroadcast(i, n)
    BY <2>1, <2>3 DEF FanoutBroadcast
  <2> QED
    BY <2>2, <2>3
<1>2. UNCHANGED <<access, owner, pc, who, at, rooms, posted, barred,
                  listening, sending, copies>>
  BY <1>1 DEF BroadcastOnce, accessVars, socketVars, storeVars, sendVars
<1>3. /\ recent' \in [Instances -> Seq(Messages)]
      /\ \A j \in Instances : Len(recent'[j]) <= Window
      /\ forgotten' \in [Instances -> SUBSET Messages]
  <2>1. CASE UNCHANGED dedupVars
    BY <2>1 DEF dedupVars, Inv, TypeOK
  <2>2. CASE Remember(i, n)
    <3>1. recent[i] \in Seq(Messages) /\ Len(recent[i]) <= Window
      BY DEF Inv, TypeOK
    <3>2. CASE Len(recent[i]) >= Window
      <4>1. /\ recent[i] # <<>> /\ Head(recent[i]) \in Messages
            /\ Append(Tail(recent[i]), n) \in Seq(Messages)
            /\ Len(Append(Tail(recent[i]), n)) = Len(recent[i])
        BY <3>1, <3>2, ChatAssumption
      <4>2. /\ recent' = [recent EXCEPT ![i] = Append(Tail(recent[i]), n)]
            /\ forgotten' = [forgotten EXCEPT ![i] = @ \cup {Head(recent[i])}]
        BY <2>2, <3>2 DEF Remember
      <4>3. forgotten' \in [Instances -> SUBSET Messages]
        BY <4>1, <4>2 DEF Inv, TypeOK
      <4> QED
        BY <3>1, <4>1, <4>2, <4>3 DEF Inv, TypeOK
    <3>3. CASE ~(Len(recent[i]) >= Window)
      <4>1. /\ Append(recent[i], n) \in Seq(Messages)
            /\ Len(Append(recent[i], n)) <= Window
        BY <3>1, <3>3, ChatAssumption
      <4> QED
        BY <2>2, <3>3, <4>1 DEF Remember, Inv, TypeOK
    <3> QED
      BY <3>2, <3>3
  <2> QED
    BY <1>1, <2>1, <2>2 DEF BroadcastOnce
<1>4. /\ task' \in [Instances -> [Messages -> Tasks]]
      /\ pending' \in [Instances -> Int]
      /\ \A j \in Instances, m \in Messages :
            \/ task'[j][m] = task[j][m]
            \/ m = n /\ task'[j][m].step = "verify" /\ task'[j][m].to \subseteq rooms
  <2>1. CASE UNCHANGED <<task, pending>>
    BY <2>1 DEF Inv, TypeOK
  <2>2. CASE BeginBroadcast(i, n) /\ ~UNCHANGED <<task, pending>>
    <3> DEFINE targets == {s \in rooms : at[s] = i}
               begun == [step |-> "verify", to |-> targets, allowed |-> {}]
    <3>1. begun \in Tasks
      BY DEF Inv, TypeOK, Tasks
    <3>2. task' = [task EXCEPT ![i][n] = begun] /\ pending' = [pending EXCEPT ![i] = @ + 1]
      BY <2>2 DEF BeginBroadcast, Connections
    <3> HIDE DEF begun
    <3>3. task' \in [Instances -> [Messages -> Tasks]] /\ pending' \in [Instances -> Int]
      BY <3>1, <3>2 DEF Inv, TypeOK
    <3>4. \A j \in Instances, m \in Messages :
             task'[j][m] = task[j][m] \/ (m = n /\ task'[j][m] = begun)
      BY <3>2 DEF Inv, TypeOK
    <3>5. begun.step = "verify" /\ begun.to \subseteq rooms
      BY DEF begun
    <3> QED
      BY <3>3, <3>4, <3>5
  <2> QED
    BY <1>1, <2>1, <2>2 DEF BroadcastOnce
<1>5. TypeOK'
  BY <1>1, <1>2, <1>3, <1>4 DEF Inv, TypeOK
<1>6. BarredStayOut'
  BY <1>2, <1>4 DEF Inv, BarredStayOut
<1>7. OnlyPostedTravel'
  BY <1>1, <1>2, <1>4 DEF Inv, OnlyPostedTravel
<1>8. NewSocketsIdle'
  BY <1>2, <1>4 DEF Inv, NewSocketsIdle
<1> QED
  BY <1>5, <1>6, <1>7, <1>8 DEF Inv

\* Every step of Next preserves the invariant.
LEMMA StepInv == Inv /\ [Next]_vars => Inv'
<1> SUFFICES ASSUME Inv, [Next]_vars PROVE Inv'
  OBVIOUS
<1>1. CASE UNCHANGED vars
  BY <1>1 DEF vars, accessVars, socketVars, storeVars, fanoutVars, dedupVars, sendVars,
     Inv, TypeOK, BarredStayOut, OnlyPostedTravel, NewSocketsIdle
<1>2. CASE Next
  BY <1>2, AddRoomMemberInv, RevokeInv, IssueWsTicketInv, ClaimWsTicketInv, CheckCapsInv,
     ConnectInv, ClientLeavesInv, HandlerEndsInv, CreateMessageInv, ReplayMessageInv,
     ListenerUpInv, ListenerDownInv, DropNoticeInv, VerifyAccessInv, VerifyFailsInv,
     SendToInv, SendArrivesInv, SendFailsInv, BroadcastEndsInv, BroadcastOnceInv
  DEF Next, SocketStep, BroadcastStep
<1> QED
  BY <1>1, <1>2

\* The invariant holds in every reachable state: those barred from a message are
\* neither being sent it nor among the recipients verified for it.
THEOREM Invariant == Spec => []Inv
<1>1. Init => Inv
  BY InitInv
<1>2. Inv /\ [Next]_vars => Inv'
  BY StepInv
<1> QED
  BY <1>1, <1>2, PTL DEF Spec

\* The state is always well typed; the deduplication window stays within Window.
THEOREM TypeCorrect == Spec => []TypeOK
<1>1. Inv => TypeOK
  BY DEF Inv
<1> QED
  BY <1>1, Invariant, PTL

\* No account is sent a message committed after it was revoked.
THEOREM Revocation == Spec => []RevokedReceiveNothing
<1>1. Inv => RevokedReceiveNothing
  BY DEF Inv, BarredStayOut, RevokedReceiveNothing
<1> QED
  BY <1>1, Invariant, PTL

\* Messages are finitely many, so the broadcasts in progress can be counted.
LEMMA BroadcastsFinite ==
    ASSUME NEW i \in Instances
    PROVE  IsFiniteSet(Broadcasts(i)) /\ Cardinality(Broadcasts(i)) \in Nat
BY ChatAssumption, FS_Subset, FS_CardinalityType DEF Broadcasts

\* A step that begins and ends no broadcast preserves the count.
LEMMA SameBroadcasts ==
    ASSUME PendingConserved, UNCHANGED pending,
           \A i \in Instances, m \in Messages : task'[i][m] = Idle <=> task[i][m] = Idle
    PROVE  PendingConserved'
<1>1. \A i \in Instances : Broadcasts(i)' = Broadcasts(i)
  BY DEF Broadcasts
<1> QED
  BY <1>1 DEF PendingConserved

\* broadcast counts itself in, or is not admitted at all.
LEMMA BroadcastBegun ==
    ASSUME Inv, PendingConserved, NEW i \in Instances, NEW n \in Messages,
           task[i][n] = Idle, BeginBroadcast(i, n)
    PROVE  PendingConserved'
<1>1. CASE UNCHANGED <<task, pending>>
  BY <1>1 DEF PendingConserved, Broadcasts
<1>2. CASE ~UNCHANGED <<task, pending>>
  <2> DEFINE begun == [step |-> "verify", to |-> {s \in rooms : at[s] = i}, allowed |-> {}]
  <2>1. /\ task' = [task EXCEPT ![i][n] = begun]
        /\ pending' = [pending EXCEPT ![i] = @ + 1]
        /\ ~(pending[i] >= MaxPending)
    BY <1>2 DEF BeginBroadcast, Connections
  <2>2. begun # Idle
    BY DEF Idle
  <2> HIDE DEF begun
  <2>3. Broadcasts(i)' = Broadcasts(i) \cup {n} /\ n \notin Broadcasts(i)
    BY <2>1, <2>2 DEF Inv, TypeOK, Broadcasts
  <2>4. Cardinality(Broadcasts(i)') = Cardinality(Broadcasts(i)) + 1
    BY <2>3, BroadcastsFinite, FS_AddElement
  <2>5. \A j \in Instances : j # i => Broadcasts(j)' = Broadcasts(j)
    BY <2>1 DEF Inv, TypeOK, Broadcasts
  <2>6. \A j \in Instances : pending'[j] = IF j = i THEN pending[i] + 1 ELSE pending[j]
    BY <2>1 DEF Inv, TypeOK
  <2>7. pending[i] \in Int /\ MaxPending \in Nat
    BY ChatAssumption DEF Inv, TypeOK
  <2> QED
    BY <2>1, <2>4, <2>5, <2>6, <2>7 DEF PendingConserved
<1> QED
  BY <1>1, <1>2

\* A broadcast that ends counts itself out, once.
LEMMA BroadcastEnded ==
    ASSUME Inv, PendingConserved, NEW i \in Instances, NEW n \in Messages,
           task[i][n] # Idle, EndBroadcast(i, n)
    PROVE  PendingConserved'
<1>1. Broadcasts(i)' = Broadcasts(i) \ {n} /\ n \in Broadcasts(i)
  BY DEF EndBroadcast, Inv, TypeOK, Broadcasts
<1>2. Cardinality(Broadcasts(i)') = Cardinality(Broadcasts(i)) - 1
  BY <1>1, BroadcastsFinite, FS_RemoveElement
<1>3. \A j \in Instances : j # i => Broadcasts(j)' = Broadcasts(j)
  BY DEF EndBroadcast, Inv, TypeOK, Broadcasts
<1>4. \A j \in Instances : pending'[j] = IF j = i THEN pending[i] - 1 ELSE pending[j]
  BY DEF EndBroadcast, Inv, TypeOK
<1>5. pending[i] \in Int /\ MaxPending \in Nat
  BY ChatAssumption DEF Inv, TypeOK
<1> QED
  BY <1>2, <1>3, <1>4, <1>5 DEF PendingConserved

\* Every other action leaves both the count and the broadcasts in progress alone.
LEMMA CountStep == Inv /\ PendingConserved /\ [Next]_vars => PendingConserved'
<1> SUFFICES ASSUME Inv, PendingConserved, [Next]_vars PROVE PendingConserved'
  OBVIOUS
<1>1. CASE UNCHANGED <<task, pending>>
  BY <1>1, SameBroadcasts
<1>2. ASSUME NEW i \in Instances, NEW n \in Messages,
             LocalBroadcast(i, n) \/ FanoutBroadcast(i, n)
      PROVE  PendingConserved'
  <2>1. UNCHANGED <<task, pending>> \/ (task[i][n] = Idle /\ BeginBroadcast(i, n))
    BY <1>2 DEF LocalBroadcast, FanoutBroadcast, BroadcastOnce
  <2> QED
    BY <1>1, <2>1, BroadcastBegun
<1>3. ASSUME NEW i \in Instances, NEW n \in Messages,
             VerifyFails(i, n) \/ BroadcastEnds(i, n)
      PROVE  PendingConserved'
  <2>1. EndBroadcast(i, n) /\ task[i][n] # Idle
    BY <1>3 DEF VerifyFails, BroadcastEnds, Idle
  <2> QED
    BY <2>1, BroadcastEnded
<1>4. ASSUME NEW i \in Instances, NEW n \in Messages,
             VerifyAccess(i, n) \/ \E s \in Sockets : SendTo(i, n, s)
      PROVE  PendingConserved'
  <2>1. /\ UNCHANGED pending
        /\ task[i][n].step = "send" \/ task[i][n].step = "verify"
        /\ task'[i][n].step = "send"
        /\ \A j \in Instances, m \in Messages :
              j # i \/ m # n => task'[j][m] = task[j][m]
    <3>1. CASE VerifyAccess(i, n)
      BY <3>1 DEF VerifyAccess, Inv, TypeOK
    <3>2. CASE \E s \in Sockets : SendTo(i, n, s)
      BY <3>2 DEF SendTo, Handled, Inv, TypeOK
    <3> QED
      BY <1>4, <3>1, <3>2
  <2>2. task[i][n] # Idle /\ task'[i][n] # Idle
    BY <2>1 DEF Idle
  <2> QED
    BY <2>1, <2>2, SameBroadcasts
<1>5. ASSUME NEW i \in Instances, NEW n \in Messages,
             \/ \E a \in Actors : CreateMessage(i, a, n)
             \/ ReplayMessage(i, n) \/ DropNotice(i, n)
      PROVE  UNCHANGED <<task, pending>>
  BY <1>5 DEF CreateMessage, ReplayMessage, DropNotice
<1>6. ASSUME NEW s \in Sockets,
             SocketStep(s) \/ ClientLeaves(s) \/ SendArrives(s) \/ SendFails(s)
      PROVE  UNCHANGED <<task, pending>>
  BY <1>6 DEF SocketStep, CheckCaps, Connect, HandlerEnds, ClientLeaves, SendArrives, SendFails
<1>7. ASSUME \/ \E a \in Actors : AddRoomMember(a) \/ Revoke(a)
             \/ \E t \in Tickets : \/ \E a \in Actors : IssueWsTicket(t, a)
                                   \/ \E s \in Sockets : ClaimWsTicket(s, t)
             \/ \E i \in Instances : ListenerUp(i) \/ ListenerDown(i)
      PROVE  UNCHANGED <<task, pending>>
  BY <1>7 DEF AddRoomMember, Revoke, IssueWsTicket, ClaimWsTicket, ListenerUp, ListenerDown
<1> QED
  BY <1>1, <1>2, <1>3, <1>4, <1>5, <1>6, <1>7 DEF Next, BroadcastStep, vars

\* The count of broadcasts in progress is exact, and never above its limit,
\* whichever way broadcasts end.
THEOREM PendingCount == Spec => []PendingConserved
<1>1. Init => PendingConserved
  <2> SUFFICES ASSUME Init, NEW i \in Instances
               PROVE  pending[i] = Cardinality(Broadcasts(i)) /\ pending[i] <= MaxPending
    BY DEF PendingConserved
  <2>1. Broadcasts(i) = {} /\ pending[i] = 0
    BY DEF Init, Broadcasts
  <2> QED
    BY <2>1, FS_EmptySet, ChatAssumption
<1>2. Inv /\ PendingConserved /\ [Next]_vars => PendingConserved'
  BY CountStep
<1> QED
  BY <1>1, <1>2, Invariant, PTL DEF Spec

\* An initial state has begun nothing.
LEMMA DedupInit == Init => DedupInv
BY ChatAssumption DEF Init, DedupInv, TargetsAreLocal, NotYetBroadcast, HandedOnce, Idle

\* What leaves the window of an instance is forgotten, and what is forgotten stays so.
LEMMA RememberKeeps ==
    ASSUME TypeOK, NEW i \in Instances, NEW n \in Messages, Remember(i, n)
    PROVE  /\ n \in Remembered(i)'
           /\ \A j \in Instances :
                 /\ Remembered(j) \cup forgotten[j] \subseteq (Remembered(j) \cup forgotten[j])'
                 /\ forgotten[j] \subseteq forgotten'[j]
<1>1. recent[i] \in Seq(Messages)
  BY DEF TypeOK
<1>2. CASE Len(recent[i]) >= Window
  <2> DEFINE old == recent[i]
             new == Append(Tail(old), n)
  <2>1. /\ recent' = [recent EXCEPT ![i] = new]
        /\ forgotten' = [forgotten EXCEPT ![i] = @ \cup {Head(old)}]
    BY <1>2 DEF Remember
  <2>2. old # <<>> /\ Len(old) \in Nat \ {0} /\ Len(new) = Len(old) /\ new \in Seq(Messages)
    BY <1>1, <1>2, ChatAssumption
  <2>3. /\ new[Len(old)] = n
        /\ \A k \in 1 .. Len(old) - 1 : new[k] = old[k + 1]
    BY <1>1, <2>2
  <2>4. n \in Range(new)
    BY <2>2, <2>3 DEF Range
  <2>5. Range(old) \subseteq Range(new) \cup {Head(old)}
    <3> SUFFICES ASSUME NEW k \in 1 .. Len(old) PROVE old[k] \in Range(new) \cup {Head(old)}
      BY <1>1 DEF Range
    <3>1. CASE k = 1
      BY <2>2, <3>1
    <3>2. CASE k # 1
      <4>1. k - 1 \in 1 .. Len(old) - 1 /\ k - 1 \in DOMAIN new
        BY <2>2, <3>2
      <4>2. new[k - 1] = old[k]
        BY <2>3, <4>1
      <4> QED
        BY <4>1, <4>2 DEF Range
    <3> QED
      BY <3>1, <3>2
  <2> HIDE DEF new
  <2>6. recent'[i] = new /\ forgotten'[i] = forgotten[i] \cup {Head(old)}
    BY <2>1 DEF TypeOK
  <2>7. \A j \in Instances : j # i => recent'[j] = recent[j] /\ forgotten'[j] = forgotten[j]
    BY <2>1 DEF TypeOK
  <2> QED
    BY <2>4, <2>5, <2>6, <2>7 DEF Remembered
<1>3. CASE ~(Len(recent[i]) >= Window)
  <2> DEFINE old == recent[i]
             new == Append(old, n)
  <2>1. recent' = [recent EXCEPT ![i] = new] /\ UNCHANGED forgotten
    BY <1>3 DEF Remember
  <2>2. /\ new \in Seq(Messages) /\ Len(new) = Len(old) + 1 /\ Len(old) \in Nat
        /\ new[Len(old) + 1] = n
        /\ \A k \in 1 .. Len(old) : new[k] = old[k]
    BY <1>1
  <2>3. n \in Range(new) /\ Range(old) \subseteq Range(new)
    BY <1>1, <2>2 DEF Range
  <2> HIDE DEF new
  <2>4. recent'[i] = new /\ \A j \in Instances : j # i => recent'[j] = recent[j]
    BY <2>1 DEF TypeOK
  <2> QED
    BY <2>1, <2>3, <2>4 DEF Remembered
<1> QED
  BY <1>2, <1>3

\* A step that adds no target, begins no send and counts nothing sent.
LEMMA DedupShrinks ==
    ASSUME DedupInv, UNCHANGED <<at, recent, forgotten, copies>>,
           \A i \in Instances, m \in Messages :
              /\ task[i][m] = Idle => task'[i][m] = Idle
              /\ task'[i][m].to \subseteq task[i][m].to,
           \A s \in Sockets : sending'[s] \in {sending[s], NoMessage},
           \A s \in Sockets : at[s] \in Instances
    PROVE  DedupInv'
<1>1. \A s \in Sockets, m \in Messages : sending'[s] = m => sending[s] = m
  BY ChatAssumption
<1>2. UNCHANGED <<forgotten, at, copies>> /\ \A i \in Instances : Remembered(i)' = Remembered(i)
  BY DEF Remembered
<1>3. TargetsAreLocal'
  BY <1>2 DEF DedupInv, TargetsAreLocal
<1>4. NotYetBroadcast'
  BY <1>1, <1>2 DEF DedupInv, NotYetBroadcast
<1>5. HandedOnce'
  BY <1>1, <1>2 DEF DedupInv, HandedOnce
<1> QED
  BY <1>3, <1>4, <1>5 DEF DedupInv

\* A broadcast that begins addresses sockets that were not sent the message since
\* the instance last forgot it.
LEMMA DedupBroadcast ==
    ASSUME Inv, DedupInv, NEW i \in Instances, NEW n \in Messages, BroadcastOnce(i, n)
    PROVE  DedupInv'
<1>1. UNCHANGED <<at, sending, copies>>
  BY DEF BroadcastOnce, socketVars, sendVars
<1>2. CASE UNCHANGED <<dedupVars, task>>
  BY <1>1, <1>2, DedupShrinks DEF dedupVars, Inv, TypeOK
<1>3. CASE n \notin Remembered(i) /\ Remember(i, n) /\ BeginBroadcast(i, n)
  <2>1. /\ n \in Remembered(i)'
        /\ \A j \in Instances :
              /\ Remembered(j) \cup forgotten[j] \subseteq (Remembered(j) \cup forgotten[j])'
              /\ forgotten[j] \subseteq forgotten'[j]
    BY <1>3, RememberKeeps DEF Inv
  <2>2. \A j \in Instances, m \in Messages :
           \/ task'[j][m] = task[j][m]
           \/ j = i /\ m = n /\ \A s \in task'[j][m].to : at[s] = i
    <3>1. CASE UNCHANGED task
      BY <3>1
    <3>2. CASE ~UNCHANGED task
      <4> DEFINE begun == [step |-> "verify", to |-> {s \in rooms : at[s] = i}, allowed |-> {}]
      <4>1. task' = [task EXCEPT ![i][n] = begun]
        BY <1>3, <3>2 DEF BeginBroadcast, Connections
      <4>2. \A s \in begun.to : at[s] = i
        OBVIOUS
      <4> HIDE DEF begun
      <4> QED
        BY <4>1, <4>2 DEF Inv, TypeOK
    <3> QED
      BY <3>1, <3>2
  <2>3. TargetsAreLocal'
    BY <1>1, <2>2 DEF DedupInv, TargetsAreLocal
  <2>4. NotYetBroadcast'
    BY <1>1, <2>1, <2>2 DEF DedupInv, NotYetBroadcast
  <2>5. HandedOnce'
    <3> SUFFICES ASSUME NEW s \in Sockets, NEW m \in Messages, m \notin forgotten'[at[s]]
                 PROVE  /\ copies[s][m] <= 1
                        /\ sending[s] = m => copies[s][m] = 0
                        /\ s \in task'[at[s]][m].to => sending[s] # m /\ copies[s][m] = 0
      BY <1>1 DEF HandedOnce
    <3>1. at[s] \in Instances
      BY DEF Inv, TypeOK
    <3>2. m \notin forgotten[at[s]]
      BY <2>1, <3>1
    <3>3. CASE task'[at[s]][m] = task[at[s]][m]
      BY <3>2, <3>3 DEF DedupInv, HandedOnce
    <3>4. CASE at[s] = i /\ m = n
      <4>1. sending[s] # m /\ copies[s][m] = 0
        BY <1>3, <3>2, <3>4 DEF DedupInv, NotYetBroadcast
      <4> QED
        BY <4>1
    <3> QED
      BY <2>2, <3>1, <3>3, <3>4
  <2> QED
    BY <2>3, <2>4, <2>5 DEF DedupInv
<1> QED
  BY <1>2, <1>3 DEF BroadcastOnce

\* A target that is handled is no target any more, so its send is the only one.
LEMMA DedupSendTo ==
    ASSUME Inv, DedupInv, NEW i \in Instances, NEW n \in Messages, NEW s \in Sockets,
           SendTo(i, n, s)
    PROVE  DedupInv'
<1> DEFINE rest == [step |-> task[i][n].step, to |-> task[i][n].to \ {s},
                    allowed |-> task[i][n].allowed]
<1>1. /\ s \in task[i][n].to
      /\ task' = [task EXCEPT ![i][n] = rest]
      /\ UNCHANGED <<at, recent, forgotten, copies>>
  BY DEF SendTo, Handled, dedupVars
<1>2. rest # Idle \/ task[i][n] # Idle
  BY <1>1 DEF Idle
<1>3. rest.to = task[i][n].to \ {s}
  OBVIOUS
<1> HIDE DEF rest
<1>4. \A j \in Instances, m \in Messages :
         task'[j][m] = IF j = i /\ m = n THEN rest ELSE task[j][m]
  BY <1>1 DEF Inv, TypeOK
<1>5. at[s] = i /\ task[i][n] # Idle
  BY <1>1 DEF DedupInv, TargetsAreLocal, Idle
<1>6. CASE UNCHANGED sending
  <2>1. \A j \in Instances, m \in Messages :
           /\ task[j][m] = Idle => task'[j][m] = Idle
           /\ task'[j][m].to \subseteq task[j][m].to
    BY <1>3, <1>4, <1>5
  <2>2. \A u \in Sockets : sending'[u] \in {sending[u], NoMessage} /\ at[u] \in Instances
    BY <1>6 DEF Inv, TypeOK
  <2> QED
    BY <1>1, <2>1, <2>2, DedupShrinks
<1>7. CASE sending[s] = NoMessage /\ sending' = [sending EXCEPT ![s] = n]
  <2>1. \A u \in Sockets : sending'[u] = IF u = s THEN n ELSE sending[u]
    BY <1>7 DEF Inv, TypeOK
  <2>2. \A j \in Instances : Remembered(j)' = Remembered(j)
    BY <1>1 DEF Remembered
  <2>3. TargetsAreLocal'
    BY <1>1, <1>3, <1>4 DEF DedupInv, TargetsAreLocal
  <2>4. n \in Remembered(i) \cup forgotten[i]
    BY <1>5 DEF DedupInv, NotYetBroadcast
  <2>5. NotYetBroadcast'
    BY <1>1, <1>4, <1>5, <2>1, <2>2, <2>4 DEF DedupInv, NotYetBroadcast
  <2>6. HandedOnce'
    <3> SUFFICES ASSUME NEW u \in Sockets, NEW m \in Messages, m \notin forgotten[at[u]]
                 PROVE  /\ copies[u][m] <= 1
                        /\ sending'[u] = m => copies[u][m] = 0
                        /\ u \in task'[at[u]][m].to => sending'[u] # m /\ copies[u][m] = 0
      BY <1>1 DEF HandedOnce
    <3>1. at[u] \in Instances
      BY DEF Inv, TypeOK
    <3>2. /\ copies[u][m] <= 1
          /\ sending[u] = m => copies[u][m] = 0
          /\ u \in task[at[u]][m].to => sending[u] # m /\ copies[u][m] = 0
      BY DEF DedupInv, HandedOnce
    <3>3. u \in task'[at[u]][m].to => u \in task[at[u]][m].to /\ ~(u = s /\ m = n)
      BY <1>3, <1>4, <1>5, <3>1
    <3>4. CASE u = s /\ m = n
      BY <1>1, <1>5, <2>1, <3>2, <3>3, <3>4
    <3>5. CASE u # s \/ m # n
      BY <2>1, <3>2, <3>3, <3>5
    <3> QED
      BY <3>4, <3>5
  <2> QED
    BY <2>3, <2>5, <2>6 DEF DedupInv
<1> QED
  BY <1>6, <1>7 DEF SendTo, Evict

\* What arrives was the only copy under way, and is counted once.
LEMMA DedupSendArrives ==
    ASSUME Inv, DedupInv, NEW s \in Sockets, SendArrives(s)
    PROVE  DedupInv'
<1> DEFINE n == sending[s]
<1>1. /\ n \in Messages
      /\ UNCHANGED <<at, recent, forgotten, task>>
      /\ \A j \in Instances : Remembered(j)' = Remembered(j)
  BY DEF SendArrives, socketVars, dedupVars, Inv, TypeOK, Remembered
<1>2. \A u \in Sockets, m \in Messages :
         copies'[u][m] = IF u = s /\ m = n THEN copies[u][m] + 1 ELSE copies[u][m]
  BY <1>1 DEF SendArrives, Inv, TypeOK
<1>3. \A u \in Sockets : sending'[u] = IF u = s THEN NoMessage ELSE sending[u]
  BY DEF SendArrives, Inv, TypeOK
<1>4. \A m \in Messages : m # NoMessage
  BY ChatAssumption
<1>5. \A u \in Sockets, m \in Messages : at[u] \in Instances /\ copies[u][m] \in Nat
  BY DEF Inv, TypeOK
<1>6. TargetsAreLocal'
  BY <1>1 DEF DedupInv, TargetsAreLocal
<1>7. NotYetBroadcast'
  <2>1. n \in Remembered(at[s]) \cup forgotten[at[s]]
    BY <1>1, <1>5 DEF DedupInv, NotYetBroadcast
  <2> QED
    BY <1>1, <1>2, <1>3, <1>4, <2>1 DEF DedupInv, NotYetBroadcast
<1>8. HandedOnce'
  BY <1>1, <1>2, <1>3, <1>4, <1>5 DEF DedupInv, HandedOnce
<1> QED
  BY <1>6, <1>7, <1>8 DEF DedupInv

\* Every step keeps a message from being handed to a socket twice while its instance
\* remembers it.
LEMMA DedupStep == Inv /\ DedupInv /\ [Next]_vars => DedupInv'
<1> SUFFICES ASSUME Inv, DedupInv, [Next]_vars PROVE DedupInv'
  OBVIOUS
<1>1. CASE UNCHANGED <<at, recent, forgotten, task, sending, copies>>
  BY <1>1, DedupShrinks DEF Inv, TypeOK
<1>2. ASSUME NEW i \in Instances, NEW n \in Messages,
             LocalBroadcast(i, n) \/ FanoutBroadcast(i, n)
      PROVE  DedupInv'
  BY <1>2, DedupBroadcast DEF LocalBroadcast, FanoutBroadcast
<1>3. ASSUME NEW i \in Instances, NEW n \in Messages,
             VerifyAccess(i, n) \/ VerifyFails(i, n) \/ BroadcastEnds(i, n)
      PROVE  DedupInv'
  <2>1. UNCHANGED <<at, recent, forgotten, copies, sending>>
    BY <1>3 DEF VerifyAccess, VerifyFails, BroadcastEnds, socketVars, dedupVars, sendVars
  <2>2. \A j \in Instances, m \in Messages :
           /\ task[j][m] = Idle => task'[j][m] = Idle
           /\ task'[j][m].to \subseteq task[j][m].to
    <3>1. task[i][n] # Idle
      BY <1>3 DEF VerifyAccess, VerifyFails, BroadcastEnds, Idle
    <3>2. /\ task'[i][n].to \subseteq task[i][n].to
          /\ \A j \in Instances, m \in Messages : j # i \/ m # n => task'[j][m] = task[j][m]
      <4>1. CASE VerifyAccess(i, n)
        BY <4>1 DEF VerifyAccess, Inv, TypeOK
      <4>2. CASE VerifyFails(i, n) \/ BroadcastEnds(i, n)
        <5>1. task' = [task EXCEPT ![i][n] = Idle]
          BY <4>2 DEF VerifyFails, BroadcastEnds, EndBroadcast
        <5> QED
          BY <5>1 DEF Inv, TypeOK, Idle
      <4> QED
        BY <1>3, <4>1, <4>2
    <3> QED
      BY <3>1, <3>2
  <2> QED
    BY <2>1, <2>2, DedupShrinks DEF Inv, TypeOK
<1>4. ASSUME NEW s \in Sockets, SendFails(s) PROVE DedupInv'
  <2>1. UNCHANGED <<at, recent, forgotten, copies, task>>
    BY <1>4 DEF SendFails, dedupVars
  <2>2. \A u \in Sockets : sending'[u] \in {sending[u], NoMessage} /\ at[u] \in Instances
    BY <1>4 DEF SendFails, Inv, TypeOK
  <2> QED
    BY <2>1, <2>2, DedupShrinks
<1>5. ASSUME NEW i \in Instances, NEW n \in Messages,
             \/ \E a \in Actors : CreateMessage(i, a, n)
             \/ ReplayMessage(i, n) \/ DropNotice(i, n)
      PROVE  UNCHANGED <<at, recent, forgotten, task, sending, copies>>
  BY <1>5 DEF CreateMessage, ReplayMessage, DropNotice, socketVars, dedupVars, sendVars
<1>6. ASSUME NEW s \in Sockets, SocketStep(s) \/ ClientLeaves(s)
      PROVE  UNCHANGED <<at, recent, forgotten, task, sending, copies>>
  BY <1>6 DEF SocketStep, CheckCaps, Connect, HandlerEnds, ClientLeaves, dedupVars, sendVars
<1>7. ASSUME \/ \E a \in Actors : AddRoomMember(a) \/ Revoke(a)
             \/ \E t \in Tickets : \/ \E a \in Actors : IssueWsTicket(t, a)
                                   \/ \E s \in Sockets : ClaimWsTicket(s, t)
             \/ \E i \in Instances : ListenerUp(i) \/ ListenerDown(i)
      PROVE  UNCHANGED <<at, recent, forgotten, task, sending, copies>>
  BY <1>7 DEF AddRoomMember, Revoke, IssueWsTicket, ClaimWsTicket, ListenerUp, ListenerDown,
     socketVars, dedupVars, sendVars
<1>8. CASE UNCHANGED vars
  BY <1>1, <1>8 DEF vars, socketVars, dedupVars, sendVars
<1> QED
  BY <1>1, <1>2, <1>3, <1>4, <1>5, <1>6, <1>7, <1>8, DedupSendTo, DedupSendArrives
  DEF Next, BroadcastStep

\* A socket is sent a message a second time only once its instance has forgotten the
\* first: whichever of the local request, the notification and a replay comes when,
\* and however broadcasts overlap.
THEOREM Deduplication == Spec => []SentOnce
<1>1. Init => DedupInv
  BY DedupInit
<1>2. Inv /\ DedupInv /\ [Next]_vars => DedupInv'
  BY DedupStep
<1>3. Inv /\ DedupInv => SentOnce
  BY DEF DedupInv, HandedOnce, SentOnce, Inv, TypeOK
<1> QED
  BY <1>1, <1>2, <1>3, Invariant, PTL DEF Spec
==============================================================================
