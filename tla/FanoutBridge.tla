----------------------------- MODULE FanoutBridge -----------------------------
(***************************************************************************)
(* ChatFanoutBridge: the thread that listens for Postgres notifications    *)
(* and hands each one to the event loop that serves the WebSockets.  A     *)
(* bridge has a current listener generation; start replaces a generation   *)
(* whose thread is gone, stop asks the current one to leave and forgets it *)
(* once it confirmed.                                                      *)
(*                                                                         *)
(* What start does, and each of the two blocks of stop, runs under the     *)
(* lifecycle lock and is one action.  The listener thread takes no lock:   *)
(* every read or write it makes of shared state is a step of its own.      *)
(***************************************************************************)
EXTENDS FiniteSets, Integers

CONSTANTS
    Generations,   \* identities of generations, used again when nobody holds one
    Stoppers,      \* threads calling stop
    Slots,         \* _MAX_PENDING_DELIVERIES
    BatchLimit,    \* bound: notifications one poll can bring
    NoGeneration

ASSUME BridgeAssumption ==
    /\ NoGeneration \notin Generations
    /\ Slots \in Nat \ {0}
    /\ BatchLimit \in Nat \ {0}

VARIABLES
    generation,    \* ChatFanoutBridge._generation
    stop,          \* the stop event of each generation
    pc,            \* where the thread of each generation is
    connected,     \* generations whose thread has an open connection
    backlog,       \* notifications polled and not handled yet
    free,          \* the value of _delivery_slots
    queued,        \* deliveries scheduled on the event loop and not done
    stopper,       \* what a caller of stop does next
    held,          \* the generation it took from the bridge
    late           \* history: deliveries a thread scheduled since it was told to stop

threadVars == <<pc, connected, backlog>>
slotVars == <<free, queued>>
stopperVars == <<stopper, held>>
vars == <<generation, stop, threadVars, slotVars, stopperVars, late>>

\* Places of a thread between thread.start() and terminated.set().
Loop == {"check", "connect", "drain", "handle", "admit", "reserve", "schedule",
         "close", "backoff", "exit"}

Listening(g) == pc[g] \in Loop
Terminated(g) == pc[g] \in {"terminated", "dead"}
Alive(g) == Listening(g) \/ pc[g] = "terminated"

TypeOK ==
    /\ generation \in Generations \cup {NoGeneration}
    /\ stop \in [Generations -> BOOLEAN]
    /\ pc \in [Generations -> Loop \cup {"unstarted", "terminated", "dead"}]
    /\ connected \in SUBSET Generations
    /\ backlog \in [Generations -> 0 .. BatchLimit]
    /\ free \in Nat
    /\ queued \in [Generations -> Nat]
    /\ stopper \in [Stoppers -> {"idle", "signal", "wait"}]
    /\ held \in [Stoppers -> Generations \cup {NoGeneration}]
    /\ late \in [Generations -> Nat]

Init ==
    /\ generation = NoGeneration
    /\ stop = [g \in Generations |-> FALSE]
    /\ pc = [g \in Generations |-> "unstarted"]
    /\ connected = {}
    /\ backlog = [g \in Generations |-> 0]
    /\ free = Slots
    /\ queued = [g \in Generations |-> 0]
    /\ stopper = [c \in Stoppers |-> "idle"]
    /\ held = [c \in Stoppers |-> NoGeneration]
    /\ late = [g \in Generations |-> 0]

-------------------------------------------------------------------------------
(* start *)

\* An identity nobody refers to stands for a newly built object.
Fresh(g) ==
    /\ ~Alive(g) /\ g # generation /\ queued[g] = 0
    /\ \A c \in Stoppers : held[c] # g

\* Mutant: only stop makes room for a new generation.
NothingRegistered == generation = NoGeneration

\* start goes on only when the registered thread is not alive.
NoLiveGeneration == \A g \in Generations : Alive(g) => g # generation

\* The new generation is registered before its thread is started, which may
\* fail and leave it registered.
Register(g, place) ==
    /\ NoLiveGeneration
    /\ Fresh(g)
    /\ generation' = g
    /\ stop' = [stop EXCEPT ![g] = FALSE]
    /\ pc' = [pc EXCEPT ![g] = place]
    /\ backlog' = [backlog EXCEPT ![g] = 0]
    /\ UNCHANGED <<connected, slotVars, stopperVars, late>>

Start(g) == Register(g, "check")
StartFails(g) == Register(g, "unstarted")

-------------------------------------------------------------------------------
(* stop *)

StopBegin(c) ==
    /\ stopper[c] = "idle"
    /\ generation # NoGeneration
    /\ stopper' = [stopper EXCEPT ![c] = "signal"]
    /\ held' = [held EXCEPT ![c] = generation]
    /\ UNCHANGED <<generation, stop, threadVars, slotVars, late>>

\* The advisory cancel() only makes a failure of the connection more likely.
StopSignal(c) ==
    /\ stopper[c] = "signal"
    /\ stop' = [stop EXCEPT ![held[c]] = TRUE]
    /\ stopper' = [stopper EXCEPT ![c] = "wait"]
    /\ UNCHANGED <<generation, threadVars, slotVars, held, late>>

Return(c) ==
    /\ stopper' = [stopper EXCEPT ![c] = "idle"]
    /\ held' = [held EXCEPT ![c] = NoGeneration]

\* Mutant: the bridge forgets whatever generation it has by now.
StopConfirmsAny(c) ==
    /\ stopper[c] = "wait" /\ Terminated(held[c])
    /\ generation' = NoGeneration
    /\ Return(c)
    /\ UNCHANGED <<stop, threadVars, slotVars, late>>

\* The generation is forgotten if it is still the registered one.
StopConfirms(c) ==
    /\ stopper[c] = "wait" /\ Terminated(held[c])
    /\ generation' = IF generation = held[c] THEN NoGeneration ELSE generation
    /\ Return(c)
    /\ UNCHANGED <<stop, threadVars, slotVars, late>>

StopTimesOut(c) ==
    /\ stopper[c] = "wait" /\ ~Terminated(held[c])
    /\ Return(c)
    /\ UNCHANGED <<generation, stop, threadVars, slotVars, late>>

-------------------------------------------------------------------------------
(* _listen_loop and _drain_notifications *)

Go(g, place) == pc' = [pc EXCEPT ![g] = place]

\* A step of g's thread that moves it from one place to another.
Moves(g, from, to) ==
    /\ pc[g] = from
    /\ Go(g, to)
    /\ UNCHANGED <<generation, stop, connected, backlog, slotVars, stopperVars, late>>

LoopTest(g) == Moves(g, "check", IF stop[g] THEN "exit" ELSE "connect")

OpenListenerConnection(g) ==
    /\ pc[g] = "connect"
    /\ connected' = connected \cup {g}
    /\ Go(g, "drain")
    /\ UNCHANGED <<generation, stop, backlog, slotVars, stopperVars, late>>

\* No connection, or it breaks in select or poll.
ConnectionFails(g) ==
    \/ Moves(g, "connect", "close")
    \/ Moves(g, "drain", "close")

\* The drain loop sees the stop event between two polls only.
LeaveDrain(g) == stop[g] /\ Moves(g, "drain", "close")

\* Mutant: the drain loop does not look at the stop event.
PollUnchecked(g) ==
    /\ pc[g] = "drain"
    /\ \E n \in 1 .. BatchLimit : backlog' = [backlog EXCEPT ![g] = n]
    /\ Go(g, "handle")
    /\ UNCHANGED <<generation, stop, connected, slotVars, stopperVars, late>>

Poll(g) ==
    /\ pc[g] = "drain" /\ ~stop[g]
    /\ \E n \in 1 .. BatchLimit : backlog' = [backlog EXCEPT ![g] = n]
    /\ Go(g, "handle")
    /\ UNCHANGED <<generation, stop, connected, slotVars, stopperVars, late>>

BatchDone(g) == backlog[g] = 0 /\ Moves(g, "handle", "drain")

\* Mutant: only a thread that goes on closes its connection.
CloseUnlessStopped(g) ==
    /\ pc[g] = "close"
    /\ connected' = IF stop[g] THEN connected ELSE connected \ {g}
    /\ Go(g, IF stop[g] THEN "exit" ELSE "backoff")
    /\ UNCHANGED <<generation, stop, backlog, slotVars, stopperVars, late>>

\* Mutant: a lost connection ends the thread.
CloseAndExit(g) ==
    /\ pc[g] = "close"
    /\ connected' = connected \ {g}
    /\ Go(g, "exit")
    /\ UNCHANGED <<generation, stop, backlog, slotVars, stopperVars, late>>

\* The finally block of a pass, and the test of the stop event behind it.
CloseConnection(g) ==
    /\ pc[g] = "close"
    /\ connected' = connected \ {g}
    /\ Go(g, IF stop[g] THEN "exit" ELSE "backoff")
    /\ UNCHANGED <<generation, stop, backlog, slotVars, stopperVars, late>>

\* Ends by the delay or by the stop event.
Backoff(g) == Moves(g, "backoff", "check")

\* terminated.set() is not yet the end of the thread.
SetTerminated(g) ==
    /\ pc[g] = "exit"
    /\ Go(g, "terminated")
    /\ late' = [late EXCEPT ![g] = 0]
    /\ UNCHANGED <<generation, stop, connected, backlog, slotVars, stopperVars>>

ThreadEnds(g) == Moves(g, "terminated", "dead")

-------------------------------------------------------------------------------
(* handle_notification and _schedule_deliver *)

\* Malformed, or from a replaced generation: skipped; else the fetch begins.
HandleNotification(g) ==
    /\ pc[g] = "handle" /\ backlog[g] > 0
    /\ backlog' = [backlog EXCEPT ![g] = @ - 1]
    /\ \/ generation = g /\ Go(g, "admit")
       \/ Go(g, "handle")
    /\ UNCHANGED <<generation, stop, connected, slotVars, stopperVars, late>>

\* The fetch failed, found no readable message, or took so long that the
\* generation is no longer current.
Skip(g) == Moves(g, "admit", "handle")

\* Mutant: the generation is not checked again after the fetch.
AdmitUnchecked(g) == Moves(g, "admit", "reserve")

\* The check at schedule time.  The event loop is that of the server and stays
\* open as long as the bridge is used.
Admit(g) == generation = g /\ ~stop[g] /\ Moves(g, "admit", "reserve")

\* No slot free: the delivery is dropped, history remains.
DropDelivery(g) == free = 0 /\ Moves(g, "reserve", "handle")

ReserveSlot(g) ==
    /\ pc[g] = "reserve" /\ free > 0
    /\ free' = free - 1
    /\ Go(g, "schedule")
    /\ UNCHANGED <<generation, stop, connected, backlog, queued, stopperVars, late>>

ScheduleDelivery(g) ==
    /\ pc[g] = "schedule"
    /\ queued' = [queued EXCEPT ![g] = @ + 1]
    /\ late' = [late EXCEPT ![g] = IF stop[g] THEN @ + 1 ELSE @]
    /\ Go(g, "handle")
    /\ UNCHANGED <<generation, stop, connected, backlog, free, stopperVars>>

\* Mutant: the slot of a delivery that could not be scheduled is not returned.
ScheduleFailsKeepingSlot(g) == Moves(g, "schedule", "handle")

\* The coroutine cannot be made, or the event loop refuses it.
ScheduleFails(g) ==
    /\ pc[g] = "schedule"
    /\ free' = free + 1
    /\ Go(g, "handle")
    /\ UNCHANGED <<generation, stop, connected, backlog, queued, stopperVars, late>>

\* The event loop has run a delivery (sent, failed or cancelled); completed()
\* returns its slot.
DeliveryDone(g) ==
    /\ queued[g] > 0
    /\ queued' = [queued EXCEPT ![g] = @ - 1]
    /\ free' = free + 1
    /\ UNCHANGED <<generation, stop, threadVars, stopperVars, late>>

-------------------------------------------------------------------------------
ListenerStep(g) ==
    \/ LoopTest(g) \/ OpenListenerConnection(g) \/ ConnectionFails(g)
    \/ LeaveDrain(g) \/ Poll(g) \/ BatchDone(g) \/ CloseConnection(g)
    \/ Backoff(g) \/ SetTerminated(g) \/ ThreadEnds(g)
    \/ HandleNotification(g) \/ Skip(g) \/ Admit(g) \/ DropDelivery(g)
    \/ ReserveSlot(g) \/ ScheduleDelivery(g) \/ ScheduleFails(g)

StopperStep(c) ==
    StopBegin(c) \/ StopSignal(c) \/ StopConfirms(c) \/ StopTimesOut(c)

Next ==
    \/ \E g \in Generations :
          Start(g) \/ StartFails(g) \/ ListenerStep(g) \/ DeliveryDone(g)
    \/ \E c \in Stoppers : StopperStep(c)

Spec == Init /\ [][Next]_vars

\* Threads run: a listener blocks for bounded times only (connect, select,
\* fetch, backoff).  The event loop runs what it was given, and WebSockets keep
\* connecting, each calling start.
Fairness ==
    /\ \A g \in Generations : WF_vars(ListenerStep(g))
    /\ WF_vars(\E g \in Generations : DeliveryDone(g))
    /\ WF_vars(\E g \in Generations : Start(g))

FairSpec == Spec /\ Fairness

-------------------------------------------------------------------------------
(* Properties *)

\* There is at most one listener thread per bridge, and it belongs to the
\* registered generation: nothing listens that a stop could no longer reach,
\* whatever start and stop calls overlapped.
OneListener ==
    /\ \A g, h \in Generations : Listening(g) /\ Listening(h) => g = h
    /\ \A g \in Generations : Listening(g) => g = generation

\* A connection is open only while its own thread uses it.
ConnectionOwned ==
    \A g \in connected : pc[g] \in Loop \ {"check", "connect", "backoff", "exit"}

\* A listener thread never ends unless it was told to: no failure of the
\* database or of a fetch silences a bridge that reports it is running.
NoSilentDeath ==
    \A g \in Generations : pc[g] = "exit" \/ Terminated(g) => stop[g]

\* The deliveries scheduled and not done, numbered within their generation.
Deliveries == UNION {{g} \X (1 .. queued[g]) : g \in Generations}

\* The threads that reserved a slot and have not scheduled its delivery.
Reserving == {g \in Generations : pc[g] = "schedule"}

\* Slots of the delivery semaphore are taken exactly by deliveries scheduled
\* or about to be: none leaks, none is returned twice.
SlotsConserved == free = Slots - Cardinality(Deliveries) - Cardinality(Reserving)

\* However many notifications a thread still has in hand when it is told to
\* stop, and however long their fetches take, it schedules at most one more: the
\* delivery whose check at schedule time came before the stop event was set.
StoppedSchedulesOnce == \A g \in Generations : late[g] <= 1

\* What the class comment says of a stale generation: it cannot deliver after
\* being replaced.
ReplacedNeverDelivers ==
    [][\A g \in Generations :
          queued'[g] < queued[g] => generation \in {g, NoGeneration}]_vars

\* A thread told to stop leaves, also in the middle of a batch.  (There is one
\* listener at a time: OneListener.)
StopTakesEffect ==
    LET stopped == \E g \in Generations : stop[g] /\ Listening(g) IN stopped ~> ~stopped

\* The registered generation listens and nobody has told it to stop.
Serving == \E g \in Generations : generation = g /\ Listening(g) /\ ~stop[g]

\* Once stops cease, the bridge serves for good: overlapping stops that gave up
\* waiting, threads that could not be started and lost connections leave nothing
\* behind that keeps start from replacing the generation.
ServesAgain == <>[](\A c \in Stoppers : stopper[c] = "idle") => <>[]Serving

\* What makes them inductive: a caller of stop has a generation in hand.
StoppersHold ==
    \A c \in Stoppers : stopper[c] # "idle" => held[c] \in Generations

\* A generation that scheduled one delivery since its stop is past no check.
LateSpent ==
    \A g \in Generations :
        \/ late[g] = 0
        \/ late[g] = 1 /\ stop[g] /\ pc[g] \in Loop \ {"reserve", "schedule"}

IInv ==
    /\ TypeOK /\ OneListener /\ ConnectionOwned /\ NoSilentDeath /\ StoppersHold
    /\ LateSpent
===============================================================================
