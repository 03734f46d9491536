------------------------- MODULE FanoutBridge_proofs -------------------------
(***************************************************************************)
(* Proofs about FanoutBridge for any number of generations and of callers  *)
(* of stop, and any number of delivery slots: one listener, no silent      *)
(* death, at most one delivery scheduled after a stop, and a count of the  *)
(* slots in use that is the number of deliveries that hold one.            *)
(***************************************************************************)
EXTENDS FanoutBridge, FiniteSetTheorems, TLAPS

\* The initial state satisfies the inductive invariant.
LEMMA InitInv == Init => IInv
<1> SUFFICES ASSUME Init PROVE IInv
  OBVIOUS
<1>1. TypeOK
  BY BridgeAssumption DEF Init, TypeOK
<1>2. OneListener /\ ConnectionOwned /\ NoSilentDeath /\ StoppersHold /\ LateSpent
  BY DEF Init, OneListener, ConnectionOwned, NoSilentDeath, StoppersHold, LateSpent,
         Listening, Terminated, Loop
<1> QED
  BY <1>1, <1>2 DEF IInv

\* A move of a listener thread inside its loop, to a place other than the
\* closing ones, keeps the invariant: the common case of its steps.
LEMMA MoveInv ==
    ASSUME IInv, NEW g \in Generations, NEW from \in Loop, NEW to,
           to \in Loop \ {"exit"} \/ (to = "exit" /\ stop[g]),
           to = "schedule" => from = "reserve",
           to = "reserve" => ~stop[g],
           Moves(g, from, to),
           g \in connected => to \in Loop \ {"check", "connect", "backoff", "exit"}
    PROVE  IInv'
<1> USE DEF IInv, Moves, Go, slotVars, stopperVars
<1>1. TypeOK'
  BY DEF TypeOK, Loop
<1>2. OneListener'
  BY DEF TypeOK, OneListener, Listening, Loop
<1>3. ConnectionOwned'
  BY DEF TypeOK, ConnectionOwned
<1>4. NoSilentDeath'
  BY DEF TypeOK, NoSilentDeath, Terminated, Loop
<1>5. StoppersHold'
  BY DEF StoppersHold
<1>6. LateSpent'
  BY DEF TypeOK, LateSpent, Loop
<1> QED
  BY <1>1, <1>2, <1>3, <1>4, <1>5, <1>6

\* The registration of a fresh generation keeps it: no thread is alive then.
LEMMA RegisterInv ==
    ASSUME IInv, NEW g \in Generations, NEW place \in {"check", "unstarted"},
           Register(g, place)
    PROVE  IInv'
<1> USE DEF IInv, Register
<1>1. TypeOK'
  BY BridgeAssumption DEF TypeOK, Loop, slotVars, stopperVars
<1>2. \A h \in Generations : ~Listening(h)
  BY DEF NoLiveGeneration, Alive, OneListener
<1>3. OneListener'
  BY <1>2 DEF TypeOK, OneListener, Listening, Loop
<1>4. g \notin connected
  BY <1>2 DEF ConnectionOwned, Listening
<1>5. ConnectionOwned'
  BY <1>4 DEF TypeOK, ConnectionOwned
<1>6. NoSilentDeath'
  BY DEF TypeOK, NoSilentDeath, Terminated
<1>7. StoppersHold'
  BY DEF StoppersHold, stopperVars
<1>8. LateSpent'
  BY DEF TypeOK, LateSpent, NoLiveGeneration, Fresh, Alive, Listening, Loop
<1> QED
  BY <1>1, <1>3, <1>5, <1>6, <1>7, <1>8

\* The steps of a caller of stop keep it: a generation is only forgotten when
\* its thread has confirmed.
LEMMA StopperInv ==
    ASSUME IInv, NEW c \in Stoppers, StopperStep(c)
    PROVE  IInv'
<1> USE DEF IInv
<1>1. CASE StopBegin(c)
  BY <1>1 DEF StopBegin, TypeOK, OneListener, ConnectionOwned, NoSilentDeath,
              StoppersHold, LateSpent, Listening, Terminated, threadVars, slotVars
<1>2. CASE StopSignal(c)
  <2>1. held[c] \in Generations
    BY <1>2 DEF StopSignal, StoppersHold, TypeOK
  <2> QED
    BY <1>2, <2>1 DEF StopSignal, TypeOK, OneListener, ConnectionOwned,
              NoSilentDeath, StoppersHold, LateSpent, Listening, Terminated, threadVars, slotVars
<1>3. CASE StopConfirms(c)
  <2>1. held[c] \in Generations /\ ~Listening(held[c])
    BY <1>3 DEF StopConfirms, StoppersHold, TypeOK, Listening, Terminated, Loop
  <2> QED
    BY <1>3, <2>1 DEF StopConfirms, Return, TypeOK, OneListener, ConnectionOwned,
              NoSilentDeath, StoppersHold, LateSpent, Listening, Terminated, threadVars, slotVars
<1>4. CASE StopTimesOut(c)
  BY <1>4 DEF StopTimesOut, Return, TypeOK, OneListener, ConnectionOwned,
              NoSilentDeath, StoppersHold, LateSpent, Listening, Terminated, threadVars, slotVars
<1> QED
  BY <1>1, <1>2, <1>3, <1>4 DEF StopperStep

\* The steps of a listener thread keep it.
LEMMA ListenerInv ==
    ASSUME IInv, NEW g \in Generations, ListenerStep(g)
    PROVE  IInv'
<1>1. CASE LoopTest(g)
  BY <1>1, MoveInv DEF LoopTest, Moves, IInv, TypeOK, ConnectionOwned, Loop
<1>2. CASE OpenListenerConnection(g)
  BY <1>2 DEF OpenListenerConnection, Go, IInv, TypeOK, OneListener, ConnectionOwned,
              NoSilentDeath, StoppersHold, LateSpent, Listening, Terminated, Loop, slotVars, stopperVars
<1>3. CASE ConnectionFails(g)
  BY <1>3, MoveInv DEF ConnectionFails, Loop
<1>4. CASE LeaveDrain(g) \/ BatchDone(g)
  BY <1>4, MoveInv DEF LeaveDrain, BatchDone, Loop
<1>5. CASE Poll(g)
  BY <1>5, BridgeAssumption DEF Poll, Go, IInv, TypeOK, OneListener, ConnectionOwned,
              NoSilentDeath, StoppersHold, LateSpent, Listening, Terminated, Loop, slotVars, stopperVars
<1>6. CASE CloseConnection(g)
  BY <1>6 DEF CloseConnection, Go, IInv, TypeOK, OneListener, ConnectionOwned,
              NoSilentDeath, StoppersHold, LateSpent, Listening, Terminated, Loop, slotVars, stopperVars
<1>7. CASE Backoff(g)
  BY <1>7, MoveInv DEF Backoff, Moves, IInv, ConnectionOwned, Loop
<1>8. CASE SetTerminated(g)
  BY <1>8 DEF SetTerminated, Go, IInv, TypeOK, OneListener, ConnectionOwned, NoSilentDeath,
              StoppersHold, LateSpent, Listening, Terminated, Loop, slotVars, stopperVars
<1>9. CASE ThreadEnds(g)
  BY <1>9 DEF ThreadEnds, Moves, Go, IInv, TypeOK, OneListener, ConnectionOwned,
              NoSilentDeath, StoppersHold, LateSpent, Listening, Terminated, Loop, slotVars, stopperVars
<1>10. CASE HandleNotification(g)
  BY <1>10, BridgeAssumption DEF HandleNotification, Go, IInv, TypeOK, OneListener,
              ConnectionOwned, NoSilentDeath, StoppersHold, LateSpent, Listening, Terminated, Loop,
              slotVars, stopperVars
<1>11. CASE Skip(g) \/ Admit(g) \/ DropDelivery(g)
  BY <1>11, MoveInv DEF Skip, Admit, DropDelivery, Loop
<1>12. CASE ReserveSlot(g)
  BY <1>12, BridgeAssumption DEF ReserveSlot, Go, IInv, TypeOK, OneListener,
              ConnectionOwned, NoSilentDeath, StoppersHold, LateSpent, Listening, Terminated, Loop,
              stopperVars
<1>13. CASE ScheduleDelivery(g)
  BY <1>13 DEF ScheduleDelivery, Go, IInv, TypeOK, OneListener,
              ConnectionOwned, NoSilentDeath, StoppersHold, LateSpent, Listening, Terminated, Loop,
              stopperVars
<1>14. CASE ScheduleFails(g)
  BY <1>14 DEF ScheduleFails, Go, IInv, TypeOK, OneListener,
              ConnectionOwned, NoSilentDeath, StoppersHold, LateSpent, Listening, Terminated, Loop,
              stopperVars
<1> QED
  BY <1>1, <1>2, <1>3, <1>4, <1>5, <1>6, <1>7, <1>8, <1>9, <1>10, <1>11, <1>12,
     <1>13, <1>14
  DEF ListenerStep

\* Every step of the bridge keeps the invariant.
LEMMA StepInv == IInv /\ [Next]_vars => IInv'
<1> SUFFICES ASSUME IInv, [Next]_vars PROVE IInv'
  OBVIOUS
<1>1. ASSUME NEW g \in Generations, Start(g) \/ StartFails(g) PROVE IInv'
  BY <1>1, RegisterInv DEF Start, StartFails
<1>2. ASSUME NEW g \in Generations, ListenerStep(g) PROVE IInv'
  BY <1>2, ListenerInv
<1>3. ASSUME NEW g \in Generations, DeliveryDone(g) PROVE IInv'
  BY <1>3 DEF DeliveryDone, IInv, TypeOK, OneListener, ConnectionOwned,
              NoSilentDeath, StoppersHold, LateSpent, Listening, Terminated, threadVars, stopperVars
<1>4. ASSUME NEW c \in Stoppers, StopperStep(c) PROVE IInv'
  BY <1>4, StopperInv
<1>5. CASE UNCHANGED vars
  BY <1>5 DEF vars, threadVars, slotVars, stopperVars, IInv, TypeOK, OneListener,
              ConnectionOwned, NoSilentDeath, StoppersHold, LateSpent, Listening, Terminated
<1> QED
  BY <1>1, <1>2, <1>3, <1>4, <1>5 DEF Next

\* The invariant holds in every behaviour.
THEOREM Invariant == Spec => []IInv
<1>1. Init => IInv
  BY InitInv
<1>2. IInv /\ [Next]_vars => IInv'
  BY StepInv
<1> QED
  BY <1>1, <1>2, PTL DEF Spec

\* The bridge never has two listener threads, and the one it has is registered.
THEOREM SingleListener == Spec => []OneListener
<1>1. IInv => OneListener
  BY DEF IInv
<1> QED
  BY <1>1, Invariant, PTL

\* A connection is open in the thread that owns it only.
THEOREM OwnedConnections == Spec => []ConnectionOwned
<1>1. IInv => ConnectionOwned
  BY DEF IInv
<1> QED
  BY <1>1, Invariant, PTL

\* No listener thread ends by itself.
THEOREM ListenersPersist == Spec => []NoSilentDeath
<1>1. IInv => NoSilentDeath
  BY DEF IInv
<1> QED
  BY <1>1, Invariant, PTL

\* A thread that was told to stop schedules at most one delivery more: the one it
\* had checked before, and the check at schedule time stops every later one.
THEOREM StoppedThreads == Spec => []StoppedSchedulesOnce
<1>1. IInv => StoppedSchedulesOnce
  BY DEF IInv, LateSpent, StoppedSchedulesOnce
<1> QED
  BY <1>1, Invariant, PTL

\* The slots taken are finitely many, and add up.
SlotInv == IsFiniteSet(Deliveries) /\ IsFiniteSet(Reserving) /\ SlotsConserved

\* A delivery is a generation and one of its numbers.
LEMMA DeliveryPairs ==
    \A d : d \in Deliveries <=>
        \E g \in Generations : \E k \in 1 .. queued[g] : d = <<g, k>>
BY DEF Deliveries

\* A step that touches neither the slots nor a thread that reserved one.
LEMMA SameSlots ==
    ASSUME SlotInv, UNCHANGED slotVars,
           \A g \in Generations : pc'[g] = "schedule" <=> pc[g] = "schedule"
    PROVE  SlotInv'
<1>1. Deliveries' = Deliveries /\ Reserving' = Reserving /\ UNCHANGED free
  BY DEF slotVars, Deliveries, Reserving
<1> QED
  BY <1>1 DEF SlotInv, SlotsConserved

\* A generation schedules one delivery more.
LEMMA OneDeliveryMore ==
    ASSUME TypeOK, IsFiniteSet(Deliveries), NEW g \in Generations,
           queued' = [queued EXCEPT ![g] = @ + 1]
    PROVE  IsFiniteSet(Deliveries') /\ Cardinality(Deliveries') = Cardinality(Deliveries) + 1
<1> DEFINE new == <<g, queued[g] + 1>>
<1>1. \A h \in Generations : /\ queued[h] \in Nat
                             /\ queued'[h] = IF h = g THEN queued[g] + 1 ELSE queued[h]
  BY DEF TypeOK
<1>2. new \notin Deliveries
  BY <1>1, DeliveryPairs
<1>3. Deliveries' = Deliveries \cup {new}
  <2>1. \A d : d \in Deliveries' <=>
           \E h \in Generations : \E k \in 1 .. queued'[h] : d = <<h, k>>
    BY DEF Deliveries
  <2>2. \A h \in Generations : \A k :
           k \in 1 .. queued'[h] <=> k \in 1 .. queued[h] \/ (h = g /\ k = queued[g] + 1)
    BY <1>1
  <2>3. ASSUME NEW d \in Deliveries' PROVE d \in Deliveries \cup {new}
    <3>1. PICK h \in Generations : \E k \in 1 .. queued'[h] : d = <<h, k>>
      BY <2>1, <2>3
    <3> QED
      BY <2>2, <3>1, DeliveryPairs
  <2>4. ASSUME NEW d \in Deliveries PROVE d \in Deliveries'
    BY <2>1, <2>2, <2>4, DeliveryPairs
  <2>5. new \in Deliveries'
    BY <2>1, <2>2
  <2> QED
    BY <2>3, <2>4, <2>5
<1> HIDE DEF new
<1> QED
  BY <1>2, <1>3, FS_AddElement

\* A generation has one delivery less.
LEMMA OneDeliveryLess ==
    ASSUME TypeOK, IsFiniteSet(Deliveries), NEW g \in Generations, queued[g] > 0,
           queued' = [queued EXCEPT ![g] = @ - 1]
    PROVE  IsFiniteSet(Deliveries') /\ Cardinality(Deliveries') = Cardinality(Deliveries) - 1
<1> DEFINE old == <<g, queued[g]>>
<1>1. \A h \in Generations : /\ queued[h] \in Nat
                             /\ queued'[h] = IF h = g THEN queued[g] - 1 ELSE queued[h]
  BY DEF TypeOK
<1>2. old \in Deliveries
  BY <1>1, DeliveryPairs
<1>3. Deliveries' = Deliveries \ {old}
  <2>1. \A d : d \in Deliveries' <=>
           \E h \in Generations : \E k \in 1 .. queued'[h] : d = <<h, k>>
    BY DEF Deliveries
  <2>2. \A h \in Generations : \A k :
           k \in 1 .. queued'[h] <=> k \in 1 .. queued[h] /\ ~(h = g /\ k = queued[g])
    BY <1>1
  <2>3. ASSUME NEW d \in Deliveries' PROVE d \in Deliveries \ {old}
    <3>1. PICK h \in Generations : \E k \in 1 .. queued'[h] : d = <<h, k>>
      BY <2>1, <2>3
    <3> QED
      BY <2>2, <3>1, DeliveryPairs
  <2>4. ASSUME NEW d \in Deliveries, d # old PROVE d \in Deliveries'
    <3>1. PICK h \in Generations : \E k \in 1 .. queued[h] : d = <<h, k>>
      BY <2>4, DeliveryPairs
    <3> QED
      BY <2>1, <2>2, <2>4, <3>1
  <2> QED
    BY <2>3, <2>4
<1> HIDE DEF old
<1> QED
  BY <1>2, <1>3, FS_RemoveElement

\* A thread reserves a slot it takes from the semaphore.
LEMMA ReserveSlots ==
    ASSUME TypeOK, SlotInv, NEW g \in Generations, ReserveSlot(g)
    PROVE  SlotInv'
<1>1. Deliveries' = Deliveries /\ free' = free - 1
  BY DEF ReserveSlot, Deliveries
<1>2. Reserving' = Reserving \cup {g} /\ g \notin Reserving
  BY DEF ReserveSlot, Go, TypeOK, Reserving
<1>3. IsFiniteSet(Reserving') /\ Cardinality(Reserving') = Cardinality(Reserving) + 1
  BY <1>2, FS_AddElement DEF SlotInv
<1>4. Cardinality(Reserving) \in Nat /\ Cardinality(Deliveries) \in Nat /\ Slots \in Nat
  BY FS_CardinalityType, BridgeAssumption DEF SlotInv
<1> QED
  BY <1>1, <1>3, <1>4 DEF SlotInv, SlotsConserved

\* A thread that leaves "schedule" has handed its slot to a delivery or given it back.
LEMMA ScheduleSlots ==
    ASSUME TypeOK, SlotInv, NEW g \in Generations, ScheduleDelivery(g) \/ ScheduleFails(g)
    PROVE  SlotInv'
<1>1. Reserving' = Reserving \ {g} /\ g \in Reserving
  BY DEF ScheduleDelivery, ScheduleFails, Go, TypeOK, Reserving
<1>2. IsFiniteSet(Reserving') /\ Cardinality(Reserving') = Cardinality(Reserving) - 1
  BY <1>1, FS_RemoveElement DEF SlotInv
<1>3. Cardinality(Reserving) \in Nat /\ Cardinality(Deliveries) \in Nat /\ Slots \in Nat
  BY FS_CardinalityType, BridgeAssumption DEF SlotInv
<1>4. CASE ScheduleDelivery(g)
  <2>1. /\ IsFiniteSet(Deliveries') /\ Cardinality(Deliveries') = Cardinality(Deliveries) + 1
        /\ UNCHANGED free
    BY <1>4, OneDeliveryMore DEF ScheduleDelivery, SlotInv
  <2> QED
    BY <1>2, <1>3, <2>1 DEF SlotInv, SlotsConserved
<1>5. CASE ScheduleFails(g)
  <2>1. Deliveries' = Deliveries /\ free' = free + 1
    BY <1>5 DEF ScheduleFails, Deliveries
  <2> QED
    BY <1>2, <1>3, <2>1 DEF SlotInv, SlotsConserved
<1> QED
  BY <1>4, <1>5

\* A delivery that is done returns its slot.
LEMMA DoneSlots ==
    ASSUME TypeOK, SlotInv, NEW g \in Generations, DeliveryDone(g)
    PROVE  SlotInv'
<1>1. /\ IsFiniteSet(Deliveries') /\ Cardinality(Deliveries') = Cardinality(Deliveries) - 1
      /\ free' = free + 1
  BY OneDeliveryLess DEF DeliveryDone, SlotInv
<1>2. Reserving' = Reserving
  BY DEF DeliveryDone, threadVars, Reserving
<1>3. Cardinality(Reserving) \in Nat /\ Cardinality(Deliveries) \in Nat /\ Slots \in Nat
  BY FS_CardinalityType, BridgeAssumption DEF SlotInv
<1> QED
  BY <1>1, <1>2, <1>3 DEF SlotInv, SlotsConserved

\* No other step touches the slots or a thread that reserved one.
LEMMA SlotStep == TypeOK /\ SlotInv /\ [Next]_vars => SlotInv'
<1> SUFFICES ASSUME TypeOK, SlotInv, [Next]_vars PROVE SlotInv'
  OBVIOUS
<1>1. ASSUME NEW g \in Generations, Start(g) \/ StartFails(g) PROVE SlotInv'
  BY <1>1, SameSlots DEF Start, StartFails, Register, Fresh, Alive, Listening, Loop, TypeOK
<1>2. ASSUME NEW g \in Generations, ListenerStep(g),
             ~(ReserveSlot(g) \/ ScheduleDelivery(g) \/ ScheduleFails(g))
      PROVE  SlotInv'
  <2>1. UNCHANGED slotVars
    BY <1>2 DEF ListenerStep, LoopTest, OpenListenerConnection, ConnectionFails, LeaveDrain,
       Poll, BatchDone, CloseConnection, Backoff, SetTerminated, ThreadEnds,
       HandleNotification, Skip, Admit, DropDelivery, Moves
  <2>2. PICK to : pc[g] # "schedule" /\ to # "schedule" /\ pc' = [pc EXCEPT ![g] = to]
    BY <1>2 DEF ListenerStep, LoopTest, OpenListenerConnection, ConnectionFails, LeaveDrain,
       Poll, BatchDone, CloseConnection, Backoff, SetTerminated, ThreadEnds,
       HandleNotification, Skip, Admit, DropDelivery, Moves, Go
  <2> QED
    BY <2>1, <2>2, SameSlots DEF TypeOK
<1>3. ASSUME NEW c \in Stoppers, StopperStep(c) PROVE SlotInv'
  BY <1>3, SameSlots DEF StopperStep, StopBegin, StopSignal, StopConfirms, StopTimesOut,
     threadVars
<1>4. CASE UNCHANGED vars
  BY <1>4, SameSlots DEF vars, threadVars
<1> QED
  BY <1>1, <1>2, <1>3, <1>4, ReserveSlots, ScheduleSlots, DoneSlots DEF Next, ListenerStep

\* A slot is taken as long as a delivery needs it and not a step longer: none leaks
\* when scheduling fails, a generation is replaced or a bridge is stopped, and none is
\* returned twice.
THEOREM SlotsAccounted == Spec => []SlotsConserved
<1>1. Init => SlotInv
  <2> SUFFICES ASSUME Init PROVE SlotInv
    OBVIOUS
  <2>1. Deliveries = {} /\ Reserving = {} /\ free = Slots /\ Slots \in Nat
    BY BridgeAssumption DEF Init, Deliveries, Reserving
  <2> QED
    BY <2>1, FS_EmptySet DEF SlotInv, SlotsConserved
<1>2. TypeOK /\ SlotInv /\ [Next]_vars => SlotInv'
  BY SlotStep
<1>3. (IInv => TypeOK) /\ (SlotInv => SlotsConserved)
  BY DEF IInv, SlotInv
<1> QED
  BY <1>1, <1>2, <1>3, Invariant, PTL DEF Spec
==============================================================================
