------------------------ MODULE PaidGeneration_proofs ------------------------
(***************************************************************************)
(* Proofs about PaidGeneration for any number of callers, processes, keys, *)
(* actors and sessions, and any positive limits.                           *)
(***************************************************************************)
EXTENDS PaidGeneration, FiniteSetTheorems, TLAPS

\* The steps at which a caller has a session and is past the lock.
Held == {"prepare", "generate", "store", "drop", "release"}

\* The initial state satisfies the inductive invariant.
LEMMA InitInv == Init => IInv
<1> SUFFICES ASSUME Init PROVE IInv
  OBVIOUS
<1>1. TypeOK
  BY PaidAssumption DEF Init, TypeOK, Steps, NothingSpent, Budgets
<1>2. SessionsOwned
  BY DEF Init, SessionsOwned
<1>3. LocksOwned /\ PooledClean
  BY PaidAssumption DEF Init, LocksOwned, PooledClean, Works
<1>4. LeaseFenced
  BY DEF Init, LeaseFenced, Owns
<1>5. LeasedBound
  <2>1. Leased = {}
    BY DEF Init, Leased
  <2> QED
    BY <2>1, FS_EmptySet, PaidAssumption DEF LeasedBound
<1> QED
  BY <1>1, <1>2, <1>3, <1>4, <1>5 DEF IInv

\* Fewer leased rows keep the bound.
LEMMA FewerLeased == ASSUME LeasedBound, Leased' \subseteq Leased PROVE LeasedBound'
<1>1. IsFiniteSet(Leased)
  BY PaidAssumption, FS_Subset DEF Leased
<1>2. Cardinality(Leased') <= Cardinality(Leased) /\ IsFiniteSet(Leased')
  BY <1>1, FS_Subset
<1>3. Cardinality(Leased) \in Nat /\ Cardinality(Leased') \in Nat /\ Concurrency \in Nat
  BY <1>1, <1>2, FS_CardinalityType, PaidAssumption
<1> QED
  BY <1>2, <1>3 DEF LeasedBound

\* Unchanged rows keep it.
LEMMA SameRows == ASSUME LeasedBound, UNCHANGED row PROVE LeasedBound'
<1>1. Leased' \subseteq Leased
  BY DEF Leased
<1> QED
  BY <1>1, FewerLeased

\* A caller that only moves on, keeping session and key, keeps the invariant.
LEMMA MoveInv ==
    ASSUME IInv, NEW c \in Callers, NEW step \in Held, pc[c] \in Held, Goto(c, step),
           step \in {"generate", "store", "drop"} => pc[c] \in {"generate", "store"},
           UNCHANGED <<home, want, poolVars, broken, holder, tableVars>>
    PROVE  IInv'
<1> USE DEF IInv, Goto, Held, poolVars, tableVars
<1>1. TypeOK'
  BY DEF TypeOK, Steps
<1>2. SessionsOwned'
  BY DEF TypeOK, SessionsOwned
<1>3. LocksOwned' /\ PooledClean'
  BY DEF TypeOK, LocksOwned, PooledClean, Works
<1>4. LeaseFenced'
  BY DEF TypeOK, LeaseFenced, Owns, Works
<1>5. LeasedBound'
  BY SameRows
<1> QED
  BY <1>1, <1>2, <1>3, <1>4, <1>5

\* A call, or one that ends before it has a session.
LEMMA IdleInv ==
    ASSUME IInv, NEW c \in Callers, (\E k \in Keys : Call(c, k)) \/ BorrowFails(c)
    PROVE  IInv'
<1> USE DEF IInv, Call, BorrowFails, Finish, Goto, poolVars, tableVars
<1>1. TypeOK'
  BY DEF TypeOK, Steps
<1>2. SessionsOwned'
  BY DEF TypeOK, SessionsOwned
<1>3. lease[c] = NoSession /\ lease[c] \notin Sessions
  BY PaidAssumption DEF SessionsOwned
<1>4. LocksOwned' /\ PooledClean'
  BY <1>3 DEF TypeOK, LocksOwned, PooledClean, Works
<1>5. LeaseFenced'
  BY <1>3 DEF TypeOK, LeaseFenced, Owns, Works
<1>6. LeasedBound'
  BY SameRows
<1> QED
  BY <1>1, <1>2, <1>4, <1>5, <1>6

\* A borrowed session was nobody's, and holds no lock.
LEMMA BorrowInv == ASSUME IInv, NEW c \in Callers, Borrow(c) PROVE IInv'
<1> USE DEF IInv, tableVars
<1> DEFINE i == home[c]
<1>1. PICK s \in Sessions :
         /\ IF pooled[i] = NoSession THEN Unused(s) ELSE s = pooled[i]
         /\ lease' = [lease EXCEPT ![c] = s]
  BY DEF Borrow
<1>2. /\ pc' = [pc EXCEPT ![c] = "lock"]
      /\ pooled' = [pooled EXCEPT ![i] = NoSession]
      /\ UNCHANGED <<home, want, broken, holder, row, expired, spent>>
      /\ pc[c] = "borrow"
      /\ i \in Instances
  BY DEF Borrow, Goto, TypeOK
<1>3. s # NoSession
  BY PaidAssumption
<1>4. /\ \A d \in Callers : lease[d] # s
      /\ \A k \in Keys : holder[k] # s
      /\ \A j \in Instances : pooled'[j] # s
  BY <1>1, <1>2, <1>3 DEF Unused, InUse, SessionsOwned, PooledClean, TypeOK
<1>5. TypeOK'
  BY <1>1, <1>2 DEF Borrow, TypeOK, Steps
<1>6. SessionsOwned'
  BY <1>1, <1>2, <1>3, <1>4 DEF TypeOK, SessionsOwned
<1>7. LocksOwned' /\ PooledClean'
  BY <1>1, <1>2, <1>4 DEF TypeOK, LocksOwned, PooledClean, Works
<1>8. LeaseFenced'
  BY <1>1, <1>2 DEF TypeOK, LeaseFenced, Owns, Works
<1>9. LeasedBound'
  BY <1>2, SameRows
<1> QED
  BY <1>5, <1>6, <1>7, <1>8, <1>9

\* A lock is taken only when it is free, by a session that holds no other.
LEMMA TryLockInv == ASSUME IInv, NEW c \in Callers, TryLock(c) PROVE IInv'
<1> USE DEF IInv, TryLock, Goto, poolVars, tableVars
<1>1. lease[c] \in Sessions /\ lease[c] # NoSession /\ want[c] \in Keys
  BY PaidAssumption DEF Works, SessionsOwned
<1>2. TypeOK'
  BY <1>1 DEF TypeOK, Steps
<1>3. SessionsOwned'
  BY <1>1 DEF TypeOK, SessionsOwned
<1>4. \A d \in Callers : d # c => lease[d] # lease[c]
  BY <1>1 DEF SessionsOwned
<1>5. holder[want[c]] = NoSession
  BY <1>1 DEF LockFree, LocksOwned
<1>6. LocksOwned'
  BY <1>1, <1>4, <1>5, PaidAssumption DEF TypeOK, LocksOwned, Works, SessionsOwned
<1>7. PooledClean'
  BY <1>1 DEF TypeOK, PooledClean, SessionsOwned
<1>8. LeaseFenced'
  BY DEF TypeOK, LeaseFenced, Owns, Works
<1>9. LeasedBound'
  BY SameRows
<1> QED
  BY <1>2, <1>3, <1>6, <1>7, <1>8, <1>9

\* A caller that parts with its session: the pool keeps it only if it holds no
\* lock any more; otherwise the session may keep the lock until the server
\* ends it.
LEMMA PartInv ==
    ASSUME IInv, NEW c \in Callers, NEW step \in {"idle", "borrow"},
           lease[c] # NoSession,
           Goto(c, step),
           want' \in [Callers -> Keys \cup {NoKey}],
           \A d \in Callers : d # c => want'[d] = want[d],
           step = "borrow" => want'[c] = want[c],
           holder' \in [Keys -> Sessions \cup {NoSession}],
           \A k \in Keys : \A s \in Sessions \ {lease[c]} : holder'[k] = s <=> holder[k] = s,
           Discard(c) \/ (GiveBack(c) /\ \A k \in Keys : holder'[k] # lease[c]),
           UNCHANGED <<home, tableVars>>
    PROVE  IInv'
<1> USE DEF IInv, tableVars
<1> DEFINE i == home[c]
<1>1. /\ lease[c] \in Sessions
      /\ i \in Instances
      /\ want[c] \in Keys
  BY DEF TypeOK, SessionsOwned
<1>2. /\ pc' = [pc EXCEPT ![c] = step]
      /\ lease' = [lease EXCEPT ![c] = NoSession]
      /\ free' = [free EXCEPT ![i] = @ + 1]
      /\ broken' \subseteq broken
      /\ \A d \in Callers : d # c => (lease[d] \in broken' <=> lease[d] \in broken)
      /\ UNCHANGED <<home, row, expired, spent>>
  BY <1>1 DEF Goto, GiveBack, Discard, SessionsOwned
<1>3. \/ pooled' = pooled
      \/ /\ pooled' = [pooled EXCEPT ![i] = lease[c]]
         /\ \A k \in Keys : holder'[k] # lease[c]
  BY DEF GiveBack, Discard
<1>4. TypeOK'
  <2>1. pooled' \in [Instances -> Sessions \cup {NoSession}]
    BY <1>1, <1>3 DEF TypeOK
  <2>2. pc' \in [Callers -> Steps] /\ lease' \in [Callers -> Sessions \cup {NoSession}]
    BY <1>2 DEF TypeOK, Steps
  <2>3. free' \in [Instances -> Nat] /\ broken' \in SUBSET Sessions
    BY <1>2 DEF TypeOK
  <2> QED
    BY <1>2, <2>1, <2>2, <2>3 DEF TypeOK
<1>5. SessionsOwned'
  BY <1>1, <1>2, <1>3 DEF TypeOK, SessionsOwned
<1>6. LocksOwned'
  <2> SUFFICES ASSUME NEW d \in Callers
               PROVE  /\ (Works(d) /\ pc[d] # "lock" => holder[want[d]] = lease[d])'
                      /\ \A k \in Keys : (lease[d] # NoSession /\ holder[k] = lease[d]
                                            => pc[d] # "lock" /\ want[d] = k)'
    BY DEF LocksOwned
  <2>1. CASE d = c
    BY <2>1, <1>2, PaidAssumption DEF TypeOK, Works
  <2>2. CASE d # c
    <3>1. /\ lease'[d] = lease[d] /\ pc'[d] = pc[d] /\ want'[d] = want[d]
          /\ Works(d)' <=> Works(d)
      BY <2>2, <1>2 DEF TypeOK, Works
    <3>2. lease[d] # NoSession => lease[d] \in Sessions \ {lease[c]} /\ want[d] \in Keys
      BY <2>2 DEF SessionsOwned, TypeOK
    <3> QED
      BY <3>1, <3>2, PaidAssumption DEF LocksOwned, Works
  <2> QED
    BY <2>1, <2>2
<1>7. PooledClean'
  <2> SUFFICES ASSUME NEW j \in Instances, NEW k \in Keys, pooled'[j] # NoSession
               PROVE  holder'[k] # pooled'[j]
    BY DEF PooledClean
  <2>1. CASE pooled'[j] = lease[c]
    <3>1. pooled[j] # lease[c]
      BY <1>1, PaidAssumption DEF SessionsOwned
    <3> QED
      BY <2>1, <3>1, <1>3
  <2>2. CASE pooled'[j] # lease[c]
    <3>1. pooled'[j] = pooled[j] /\ pooled[j] \in Sessions \ {lease[c]}
      BY <2>2, <1>3, <1>4 DEF TypeOK
    <3> QED
      BY <3>1 DEF PooledClean
  <2> QED
    BY <2>1, <2>2
<1>8. LeaseFenced'
  <2> SUFFICES ASSUME NEW k \in Keys, NEW d \in Callers, Owns(d, k)' PROVE row'[k] = "leased"
    BY DEF LeaseFenced
  <2>1. d # c
    BY <1>2, PaidAssumption DEF Owns, Works, TypeOK
  <2>2. Owns(d, k)
    BY <2>1, <1>2 DEF Owns, Works, TypeOK
  <2> QED
    BY <2>2, <1>2 DEF LeaseFenced
<1>9. LeasedBound'
  BY <1>2, SameRows
<1> QED
  BY <1>4, <1>5, <1>6, <1>7, <1>8, <1>9

\* What a step keeps that lets no session change hands: nobody gets a lock or a
\* working session by it, whether a caller moves on, a session ends, or both.
LEMMA LocksKept ==
    ASSUME IInv, NEW c \in Callers,
           UNCHANGED pc \/ (pc[c] \in Held /\ \E step \in Held : Goto(c, step)),
           UNCHANGED <<home, want, poolVars>>,
           UNCHANGED <<broken, holder>> \/ \E s \in Sessions : EndSession(s)
    PROVE  /\ SessionsOwned' /\ LocksOwned' /\ PooledClean'
           /\ pc' \in [Callers -> Steps]
           /\ broken' \in SUBSET Sessions
           /\ holder' \in [Keys -> Sessions \cup {NoSession}]
           /\ \A d \in Callers : Works(d)' => Works(d)
           /\ \A d \in Callers : d # c => pc'[d] = pc[d]
<1> USE DEF IInv, poolVars
<1>1. /\ pc' \in [Callers -> Steps]
      /\ \A d \in Callers : pc'[d] = pc[d] \/ (d = c /\ pc[d] \in Held /\ pc'[d] \in Held)
  BY DEF TypeOK, Goto, Steps, Held
<1>2. SessionsOwned'
  BY <1>1 DEF TypeOK, SessionsOwned, Held
<1>3. /\ broken' \in SUBSET Sessions
      /\ broken \subseteq broken'
      /\ holder' \in [Keys -> Sessions \cup {NoSession}]
      /\ \A k \in Keys : holder'[k] = holder[k] \/ holder'[k] = NoSession
  BY DEF TypeOK, EndSession
<1>4. \A k \in Keys : holder'[k] = holder[k] \/ holder[k] \notin Sessions
                    \/ (holder[k] \in broken' \/ ~InUse(holder[k]))
  BY DEF TypeOK, EndSession
<1>5. \A d \in Callers : Works(d)' => Works(d) /\ InUse(lease[d])
  BY <1>3 DEF Works, InUse
<1>6. LocksOwned'
  <2> SUFFICES ASSUME NEW d \in Callers
               PROVE  /\ (Works(d) /\ pc[d] # "lock" => holder[want[d]] = lease[d])'
                      /\ \A k \in Keys : (lease[d] # NoSession /\ holder[k] = lease[d]
                                            => pc[d] # "lock" /\ want[d] = k)'
    BY DEF LocksOwned
  <2>1. pc'[d] = "lock" <=> pc[d] = "lock"
    BY <1>1 DEF Held
  <2>2. ASSUME Works(d)', pc'[d] # "lock" PROVE holder'[want'[d]] = lease'[d]
    <3>1. holder[want[d]] = lease[d] /\ lease[d] \in Sessions \ broken'
      BY <2>1, <2>2, <1>5 DEF LocksOwned, Works
    <3>2. want[d] \in Keys
      BY <3>1, PaidAssumption DEF SessionsOwned
    <3> QED
      BY <3>1, <3>2, <1>4, <1>5, <2>2
  <2>3. ASSUME NEW k \in Keys, lease'[d] # NoSession, holder'[k] = lease'[d]
        PROVE  pc'[d] # "lock" /\ want'[d] = k
    BY <2>1, <2>3, <1>3 DEF LocksOwned
  <2> QED
    BY <2>2, <2>3
<1>7. PooledClean'
  BY <1>3 DEF PooledClean, TypeOK
<1>8. \A d \in Callers : d # c => pc'[d] = pc[d]
  BY <1>1
<1> QED
  BY <1>1, <1>2, <1>3, <1>5, <1>6, <1>7, <1>8

\* A session that ends takes its locks along, and its user stops counting as
\* an owner.
LEMMA EndInv == ASSUME IInv, NEW s \in Sessions, SessionEnds(s) PROVE IInv'
<1> USE DEF IInv, SessionEnds, tableVars
<1>1. CASE Callers = {}
  <2>1. TypeOK' /\ SessionsOwned' /\ LocksOwned' /\ LeaseFenced'
    BY <1>1 DEF TypeOK, SessionsOwned, LocksOwned, LeaseFenced, EndSession, poolVars
  <2>2. PooledClean'
    BY DEF TypeOK, PooledClean, EndSession, poolVars
  <2>3. LeasedBound'
    BY SameRows
  <2> QED
    BY <2>1, <2>2, <2>3
<1>2. ASSUME NEW c \in Callers PROVE IInv'
  <2>1. /\ SessionsOwned' /\ LocksOwned' /\ PooledClean'
        /\ pc' \in [Callers -> Steps]
        /\ broken' \in SUBSET Sessions
        /\ holder' \in [Keys -> Sessions \cup {NoSession}]
        /\ \A d \in Callers : Works(d)' => Works(d)
    BY <1>2, LocksKept
  <2>2. TypeOK'
    BY <2>1 DEF TypeOK, poolVars
  <2>3. LeaseFenced'
    BY <2>1 DEF LeaseFenced, Owns
  <2>4. LeasedBound'
    BY SameRows
  <2> QED
    BY <2>1, <2>2, <2>3, <2>4
<1> QED
  BY <1>1, <1>2

\* No other caller owns the key of a caller that works and is past the lock.
LEMMA SoleOwner ==
    ASSUME IInv, NEW c \in Callers, NEW d \in Callers, c # d,
           Works(c), pc[c] \in Held, Owns(d, want[c])
    PROVE  FALSE
<1>1. holder[want[c]] = lease[c] /\ holder[want[c]] = lease[d]
  BY DEF IInv, LocksOwned, Owns, Held
<1>2. lease[c] # NoSession
  BY PaidAssumption DEF Works
<1> QED
  BY <1>1, <1>2 DEF IInv, SessionsOwned

\* Charging and leasing, acknowledged or not: the cleanup touches no owner's
\* row, and the count under the global lock keeps the bound.
LEMMA ChargeInv ==
    ASSUME IInv, NEW c \in Callers, NEW a \in Actors, NEW units \in Costs,
           Charge(c, a, units) \/ ChargeUnacknowledged(c, a, units)
    PROVE  IInv'
<1> USE DEF IInv
<1>1. /\ ChargeAndLease(c, a, units)
      /\ Works(c) /\ pc[c] = "prepare"
      /\ UNCHANGED <<home, want, poolVars>>
      /\ \/ Goto(c, "generate") /\ UNCHANGED <<broken, holder>>
         \/ Goto(c, "release") /\ EndSession(lease[c])
  BY DEF Charge, ChargeUnacknowledged, ChargeAndLease, Admitted
<1>2. lease[c] \in Sessions /\ want[c] \in Keys /\ lease[c] # NoSession
  BY <1>1, PaidAssumption DEF Works, SessionsOwned
<1>3. /\ SessionsOwned' /\ LocksOwned' /\ PooledClean'
      /\ pc' \in [Callers -> Steps]
      /\ broken' \in SUBSET Sessions
      /\ holder' \in [Keys -> Sessions \cup {NoSession}]
      /\ \A d \in Callers : Works(d)' => Works(d)
      /\ \A d \in Callers : d # c => pc'[d] = pc[d]
  <2>1. \E step \in Held : Goto(c, step)
    BY <1>1 DEF Held
  <2>2. pc[c] \in Held
    BY <1>1 DEF Held
  <2>3. UNCHANGED <<broken, holder>> \/ \E s \in Sessions : EndSession(s)
    BY <1>1, <1>2
  <2> QED
    BY <2>1, <2>2, <2>3, <1>1, LocksKept
<1>4. row' = [k \in Keys |-> IF k = want[c] THEN "leased"
                             ELSE IF k \in Removable(c) THEN "none" ELSE row[k]]
  BY <1>1 DEF ChargeAndLease
<1>5. spent' \in [Actors -> Budgets]
  <2>1. /\ spent' = [spent EXCEPT ![a] = [requests |-> @.requests + 1,
                                          units |-> @.units + units]]
        /\ Affordable(a, units)
    BY <1>1 DEF ChargeAndLease
  <2>2. units \in Nat /\ RequestLimit \in Nat /\ UnitLimit \in Nat /\ RequestLimit > 0
    BY PaidAssumption
  <2>3. /\ spent[a].requests \in 0..RequestLimit /\ spent[a].units \in 0..UnitLimit
        /\ spent[a].requests = 0 => spent[a].units = 0
    BY DEF TypeOK, Budgets
  <2>4. /\ spent[a].requests + 1 \in 1..RequestLimit
        /\ spent[a].units + units \in 0..UnitLimit
    BY <2>1, <2>2, <2>3 DEF Affordable
  <2>5. [requests |-> spent[a].requests + 1, units |-> spent[a].units + units] \in Budgets
    BY <2>2, <2>4 DEF Budgets
  <2> QED
    BY <2>1, <2>5 DEF TypeOK
<1>6. TypeOK'
  <2>1. row' \in [Keys -> {"none", "leased", "answered"}] /\ expired' \in SUBSET Keys
    BY <1>1, <1>4 DEF TypeOK, ChargeAndLease
  <2> QED
    BY <1>1, <1>3, <1>5, <2>1 DEF TypeOK, poolVars
<1>7. LeaseFenced'
  <2> SUFFICES ASSUME NEW k \in Keys, NEW d \in Callers, Owns(d, k)' PROVE row'[k] = "leased"
    BY DEF LeaseFenced
  <2>1. CASE d = c
    BY <2>1, <1>1, <1>4 DEF Owns
  <2>2. CASE d # c
    <3>1. Owns(d, k)
      BY <2>2, <1>1, <1>3 DEF Owns
    <3>2. row[k] = "leased" /\ holder[k] = lease[d] /\ lease[d] # lease[c] /\ lease[d] # NoSession
      BY <2>2, <3>1, <1>2, PaidAssumption
         DEF LeaseFenced, LocksOwned, SessionsOwned, Owns, Works
    <3>3. k \notin Removable(c)
      BY <3>2 DEF Removable
    <3> QED
      BY <3>2, <3>3, <1>4
  <2> QED
    BY <2>1, <2>2
<1>8. LeasedBound'
  <2>1. Cardinality(Counted(c)) < Concurrency
    BY <1>1 DEF ChargeAndLease, Admitted
  <2>2. IsFiniteSet(Counted(c)) /\ Cardinality(Counted(c)) \in Nat
    <3>1. IsFiniteSet(Counted(c))
      BY PaidAssumption, FS_Subset DEF Counted
    <3> QED
      BY <3>1, FS_CardinalityType
  <2>3. /\ IsFiniteSet(Counted(c) \cup {want[c]})
        /\ Cardinality(Counted(c) \cup {want[c]}) <= Cardinality(Counted(c)) + 1
    <3>1. CASE want[c] \in Counted(c)
      <4>1. Counted(c) \cup {want[c]} = Counted(c)
        BY <3>1
      <4>2. /\ IsFiniteSet(Counted(c) \cup {want[c]})
            /\ Cardinality(Counted(c) \cup {want[c]}) = Cardinality(Counted(c))
        BY <4>1, <2>2, Zenon
      <4> QED
        BY <4>2, <2>2
    <3>2. CASE want[c] \notin Counted(c)
      <4>1. Cardinality(Counted(c) \cup {want[c]}) = Cardinality(Counted(c)) + 1
        BY <3>2, <2>2, FS_AddElement
      <4>2. IsFiniteSet(Counted(c) \cup {want[c]})
        BY <2>2, FS_AddElement
      <4> QED
        BY <4>1, <4>2, <2>2
    <3> QED
      BY <3>1, <3>2
  <2>4. Leased' \subseteq Counted(c) \cup {want[c]}
    BY <1>4 DEF Leased, Counted
  <2>5. IsFiniteSet(Leased') /\ Cardinality(Leased') <= Cardinality(Counted(c) \cup {want[c]})
    BY <2>3, <2>4, FS_Subset
  <2>6. /\ Cardinality(Counted(c)) \in Nat /\ Cardinality(Leased') \in Nat
        /\ Cardinality(Counted(c) \cup {want[c]}) \in Nat
    BY <2>2, <2>3, <2>5, FS_CardinalityType
  <2>7. Cardinality(Leased') <= Concurrency
    BY <2>1, <2>3, <2>5, <2>6, PaidAssumption
  <2> QED
    BY <2>7 DEF LeasedBound
<1> QED
  BY <1>3, <1>6, <1>7, <1>8

\* The owner of a key answers or drops its row, and owns it no longer.
LEMMA OutcomeInv == ASSUME IInv, NEW c \in Callers, Store(c) \/ Drop(c) PROVE IInv'
<1> USE DEF IInv
<1>1. /\ Works(c) /\ pc[c] \in {"store", "drop"}
      /\ UNCHANGED <<home, want, poolVars, spent>>
      /\ expired' = expired \ {want[c]}
      /\ \E outcome \in {"none", "answered"} : row' = [row EXCEPT ![want[c]] = outcome]
      /\ \/ Goto(c, "release") /\ UNCHANGED <<broken, holder>>
         \/ Goto(c, "drop") /\ EndSession(lease[c])
  BY DEF Store, Drop
<1>2. lease[c] \in Sessions /\ want[c] \in Keys
  BY <1>1, PaidAssumption DEF Works, SessionsOwned
<1>3. /\ SessionsOwned' /\ LocksOwned' /\ PooledClean'
      /\ pc' \in [Callers -> Steps]
      /\ broken' \in SUBSET Sessions
      /\ holder' \in [Keys -> Sessions \cup {NoSession}]
      /\ \A d \in Callers : Works(d)' => Works(d)
      /\ \A d \in Callers : d # c => pc'[d] = pc[d]
  <2>1. pc[c] \in Held /\ \E step \in Held : Goto(c, step)
    BY <1>1 DEF Held
  <2>2. UNCHANGED <<broken, holder>> \/ \E s \in Sessions : EndSession(s)
    BY <1>1, <1>2
  <2> QED
    BY <2>1, <2>2, <1>1, LocksKept
<1>4. PICK outcome \in {"none", "answered"} : row' = [row EXCEPT ![want[c]] = outcome]
  BY <1>1
<1>5. TypeOK'
  BY <1>1, <1>3, <1>4 DEF TypeOK, poolVars
<1>6. LeaseFenced'
  <2> SUFFICES ASSUME NEW k \in Keys, NEW d \in Callers, Owns(d, k)' PROVE row'[k] = "leased"
    BY DEF LeaseFenced
  <2>1. d # c
    <3>1. CASE Goto(c, "release")
      BY <3>1 DEF TypeOK, Goto, Owns
    <3>2. CASE EndSession(lease[c])
      <4>1. lease[c] \in broken' /\ lease'[c] = lease[c]
        BY <3>2, <1>1 DEF EndSession, InUse, poolVars
      <4> QED
        BY <4>1 DEF Owns, Works
    <3> QED
      BY <3>1, <3>2, <1>1
  <2>2. Owns(d, k)
    BY <2>1, <1>1, <1>3 DEF Owns
  <2>3. k # want[c]
    BY <2>1, <2>2, <1>1, SoleOwner DEF Held
  <2> QED
    BY <2>2, <2>3, <1>4 DEF LeaseFenced, TypeOK
<1>7. Leased' \subseteq Leased
  BY <1>2, <1>4 DEF Leased, TypeOK
<1> QED
  BY <1>3, <1>5, <1>6, <1>7, FewerLeased

\* Clocks: an expired lease is fenced by its lock, a new day empties budgets.
LEMMA ClockInv == ASSUME IInv, NewDay \/ \E k \in Keys : Expire(k) PROVE IInv'
<1> USE DEF IInv, NewDay, Expire, poolVars
<1>1. UNCHANGED <<home, pc, want, lease, free, pooled, broken, holder, row>>
  OBVIOUS
<1>2. spent' \in [Actors -> Budgets]
  BY PaidAssumption DEF TypeOK, NothingSpent, Budgets
<1>3. TypeOK'
  BY <1>1, <1>2 DEF TypeOK
<1>4. SessionsOwned' /\ LocksOwned' /\ PooledClean'
  BY <1>1 DEF SessionsOwned, LocksOwned, PooledClean, Works
<1>5. LeaseFenced'
  BY <1>1 DEF LeaseFenced, Owns, Works
<1>6. LeasedBound'
  BY <1>1, SameRows
<1> QED
  BY <1>3, <1>4, <1>5, <1>6

\* A dead process leaves locks and leases behind, but no owners.
LEMMA CrashInv == ASSUME IInv, NEW i \in Instances, Crash(i) PROVE IInv'
<1> USE DEF IInv, tableVars
<1>1. \A c \in Callers :
         IF home[c] = i
         THEN pc'[c] = "idle" /\ want'[c] = NoKey /\ lease'[c] = NoSession
         ELSE pc'[c] = pc[c] /\ want'[c] = want[c] /\ lease'[c] = lease[c]
  BY DEF Crash
<1>2. /\ UNCHANGED <<home, holder, row, expired, spent>>
      /\ pooled' = [pooled EXCEPT ![i] = NoSession]
      /\ broken' = broken \ ({lease[c] : c \in {d \in Callers : home[d] = i}} \cup {pooled[i]})
  BY DEF Crash
<1>3. TypeOK'
  <2>1. /\ pc' \in [Callers -> Steps] /\ want' \in [Callers -> Keys \cup {NoKey}]
        /\ lease' \in [Callers -> Sessions \cup {NoSession}]
    BY DEF Crash, TypeOK, Steps
  <2>2. free' \in [Instances -> Nat] /\ pooled' \in [Instances -> Sessions \cup {NoSession}]
    BY PaidAssumption DEF Crash, TypeOK
  <2> QED
    BY <1>2, <2>1, <2>2 DEF TypeOK
<1>4. SessionsOwned'
  BY <1>1, <1>2 DEF TypeOK, SessionsOwned
<1>5. \A c \in Callers : home[c] # i => (Works(c)' <=> Works(c))
  <2> SUFFICES ASSUME NEW c \in Callers, home[c] # i PROVE Works(c)' <=> Works(c)
    OBVIOUS
  <2>1. CASE lease[c] = NoSession
    BY <2>1, <1>1, PaidAssumption DEF Works
  <2>2. CASE lease[c] # NoSession
    <3>1. /\ lease[c] # pooled[i]
          /\ \A d \in Callers : home[d] = i => lease[d] # lease[c]
      BY <2>2 DEF SessionsOwned
    <3> QED
      BY <3>1, <1>1, <1>2 DEF Works
  <2> QED
    BY <2>1, <2>2
<1>6. \A c \in Callers : home[c] = i => ~Works(c)'
  BY <1>1, PaidAssumption DEF Works
<1>7. LocksOwned'
  BY <1>1, <1>2, <1>5, <1>6 DEF LocksOwned
<1>8. PooledClean'
  BY <1>2 DEF PooledClean, TypeOK
<1>9. LeaseFenced'
  BY <1>1, <1>2, <1>5, <1>6 DEF LeaseFenced, Owns
<1>10. LeasedBound'
  BY <1>2, SameRows
<1> QED
  BY <1>3, <1>4, <1>7, <1>8, <1>9, <1>10

\* The steps that part with a session, as instances of PartInv.
LEMMA PartingInv ==
    ASSUME IInv, NEW c \in Callers,
           LockTaken(c) \/ AcquireInterrupted(c) \/ Release(c) \/ ReleaseFails(c)
    PROVE  IInv'
<1> USE DEF IInv
<1>1. lease[c] # NoSession /\ lease[c] \in Sessions /\ want[c] \in Keys
  BY DEF LockTaken, AcquireInterrupted, Release, ReleaseFails, SessionsOwned, TypeOK
<1>2. \A k \in Keys : holder[k] = lease[c] => pc[c] # "lock" /\ want[c] = k
  BY <1>1 DEF LocksOwned
<1>3. CASE LockTaken(c)
  <2>1. PICK step \in {"idle", "borrow"} :
           /\ Goto(c, step)
           /\ IF step = "borrow" THEN UNCHANGED want ELSE want' = [want EXCEPT ![c] = NoKey]
    BY <1>3 DEF LockTaken, Finish
  <2>2. GiveBack(c) /\ UNCHANGED <<home, holder, tableVars>> /\ pc[c] = "lock"
    BY <1>3 DEF LockTaken
  <2>3. /\ want' \in [Callers -> Keys \cup {NoKey}]
        /\ \A d \in Callers : d # c => want'[d] = want[d]
        /\ step = "borrow" => want'[c] = want[c]
    BY <2>1 DEF TypeOK
  <2>4. /\ holder' \in [Keys -> Sessions \cup {NoSession}]
        /\ \A k \in Keys : \A s \in Sessions \ {lease[c]} : holder'[k] = s <=> holder[k] = s
        /\ \A k \in Keys : holder'[k] # lease[c]
    BY <2>2, <1>2 DEF TypeOK
  <2> QED
    BY <1>1, <2>1, <2>2, <2>3, <2>4, PartInv
<1>4. CASE AcquireInterrupted(c) \/ Release(c) \/ ReleaseFails(c)
  <2>1. /\ Goto(c, "idle") /\ want' = [want EXCEPT ![c] = NoKey]
        /\ UNCHANGED <<home, tableVars>>
    BY <1>4 DEF AcquireInterrupted, Release, ReleaseFails, Finish
  <2>2. /\ want' \in [Callers -> Keys \cup {NoKey}]
        /\ \A d \in Callers : d # c => want'[d] = want[d]
    BY <2>1 DEF TypeOK
  <2>3. CASE AcquireInterrupted(c)
    <3>1. /\ Discard(c)
          /\ \/ UNCHANGED holder
             \/ LockFree(c) /\ holder' = [holder EXCEPT ![want[c]] = lease[c]]
      BY <2>3 DEF AcquireInterrupted
    <3>2. /\ holder' \in [Keys -> Sessions \cup {NoSession}]
          /\ \A k \in Keys : \A s \in Sessions \ {lease[c]} : holder'[k] = s <=> holder[k] = s
      BY <3>1, <1>1, PaidAssumption DEF TypeOK, LockFree
    <3> QED
      BY <1>1, <2>1, <2>2, <3>1, <3>2, PartInv
  <2>4. CASE Release(c)
    <3>1. /\ GiveBack(c)
          /\ holder' = [holder EXCEPT ![want[c]] = IF @ = lease[c] THEN NoSession ELSE @]
      BY <2>4 DEF Release
    <3>2. /\ holder' \in [Keys -> Sessions \cup {NoSession}]
          /\ \A k \in Keys : \A s \in Sessions \ {lease[c]} : holder'[k] = s <=> holder[k] = s
          /\ \A k \in Keys : holder'[k] # lease[c]
      BY <3>1, <1>1, <1>2, PaidAssumption DEF TypeOK
    <3> QED
      BY <1>1, <2>1, <2>2, <3>1, <3>2, PartInv
  <2>5. CASE ReleaseFails(c)
    <3>1. Discard(c) /\ UNCHANGED holder
      BY <2>5 DEF ReleaseFails
    <3> QED
      BY <1>1, <2>1, <2>2, <3>1, PartInv DEF TypeOK
  <2> QED
    BY <1>4, <2>3, <2>4, <2>5
<1> QED
  BY <1>3, <1>4

\* Every step keeps the inductive invariant.
LEMMA NextInv == IInv /\ [Next]_vars => IInv'
<1> SUFFICES ASSUME IInv, [Next]_vars PROVE IInv'
  OBVIOUS
<1>1. CASE UNCHANGED vars
  <2>1. LeasedBound'
    BY <1>1, SameRows DEF IInv, vars, tableVars
  <2> QED
    BY <1>1, <2>1 DEF IInv, vars, poolVars, tableVars, TypeOK, SessionsOwned, LocksOwned,
                      PooledClean, LeaseFenced, Owns, Works
<1>2. ASSUME NEW c \in Callers, CallerStep(c) PROVE IInv'
  <2>1. CASE (\E k \in Keys : Call(c, k)) \/ BorrowFails(c)
    BY <2>1, IdleInv
  <2>2. CASE Borrow(c)
    BY <2>2, BorrowInv
  <2>3. CASE TryLock(c)
    BY <2>3, TryLockInv
  <2>4. CASE LockTaken(c) \/ AcquireInterrupted(c) \/ Release(c) \/ ReleaseFails(c)
    BY <2>4, PartingInv
  <2>5. CASE CachedAnswer(c) \/ PrepareRefused(c) \/ Generated(c) \/ GenerateFails(c) \/ DropFails(c)
    <3>1. PICK step \in Held :
             /\ Goto(c, step)
             /\ pc[c] \in Held
             /\ step \in {"generate", "store", "drop"} => pc[c] \in {"generate", "store"}
      BY <2>5 DEF CachedAnswer, PrepareRefused, Generated, GenerateFails, DropFails, Held
    <3>2. UNCHANGED <<home, want, poolVars, broken, holder, tableVars>>
      BY <2>5 DEF CachedAnswer, PrepareRefused, Generated, GenerateFails, DropFails
    <3> QED
      BY <3>1, <3>2, MoveInv
  <2>6. CASE \E a \in Actors, units \in Costs :
                Charge(c, a, units) \/ ChargeUnacknowledged(c, a, units)
    BY <2>6, ChargeInv
  <2>7. CASE Store(c) \/ Drop(c)
    BY <2>7, OutcomeInv
  <2> QED
    BY <1>2, <2>1, <2>2, <2>3, <2>4, <2>5, <2>6, <2>7 DEF CallerStep
<1>3. CASE \E s \in Sessions : SessionEnds(s)
  BY <1>3, EndInv
<1>4. CASE NewDay \/ \E k \in Keys : Expire(k)
  BY <1>4, ClockInv
<1>5. CASE \E i \in Instances : Crash(i)
  BY <1>5, CrashInv
<1> QED
  BY <1>1, <1>2, <1>3, <1>4, <1>5 DEF Next

\* The invariant holds in every reachable state.
LEMMA Invariant == Spec => []IInv
<1>1. Init => IInv
  BY InitInv
<1>2. IInv /\ [Next]_vars => IInv'
  BY NextInv
<1> QED
  BY <1>1, <1>2, PTL DEF Spec

\* The state is well typed; in particular no budget exceeds its limits.
THEOREM TypeCorrect == Spec => []TypeOK
<1>1. IInv => TypeOK
  BY DEF IInv
<1> QED
  BY <1>1, Invariant, PTL

\* Never two owners of a key, whatever session, process or lease was lost before.
THEOREM OneGeneration == Spec => []SingleFlight
<1>1. IInv => SingleFlight
  <2> SUFFICES ASSUME IInv, NEW k \in Keys, NEW c \in Callers, NEW d \in Callers,
                      Owns(c, k), Owns(d, k)
               PROVE  c = d
    BY DEF SingleFlight
  <2>1. Works(c) /\ pc[c] \in Held /\ want[c] = k
    BY DEF Owns, Held
  <2> QED
    BY <2>1, SoleOwner
<1> QED
  BY <1>1, Invariant, PTL

\* An owner's lease is its own until it stores or drops.
THEOREM LeasesFenced == Spec => []LeaseFenced
<1>1. IInv => LeaseFenced
  BY DEF IInv
<1> QED
  BY <1>1, Invariant, PTL

\* The bound on concurrent provider calls: each of their keys is leased.
THEOREM BoundedGenerations == Spec => []ConcurrencyBound
<1>1. IInv => ConcurrencyBound
  <2> SUFFICES ASSUME IInv PROVE ConcurrencyBound
    OBVIOUS
  <2>1. Generating \subseteq Leased
    BY DEF Generating, Leased, IInv, LeaseFenced
  <2>2. IsFiniteSet(Leased)
    BY PaidAssumption, FS_Subset DEF Leased
  <2>3. IsFiniteSet(Generating) /\ Cardinality(Generating) <= Cardinality(Leased)
    BY <2>1, <2>2, FS_Subset
  <2>4. Cardinality(Generating) \in Nat /\ Cardinality(Leased) \in Nat
    BY <2>2, <2>3, FS_CardinalityType
  <2> QED
    BY <2>3, <2>4, PaidAssumption DEF IInv, LeasedBound, ConcurrencyBound
<1> QED
  BY <1>1, Invariant, PTL

\* A fresh answer stays: only the owner of its key writes the row, and owners
\* have leased rows; who charges has looked again.
LEMMA FreshStep ==
    ASSUME IInv, [Next]_vars, NEW k \in Keys, row[k] = "answered", k \notin expired
    PROVE  row'[k] = "answered"
<1>1. CASE UNCHANGED row
  BY <1>1
<1>2. ASSUME NEW c \in Callers, NEW a \in Actors, NEW units \in Costs,
             Charge(c, a, units) \/ ChargeUnacknowledged(c, a, units)
      PROVE  row'[k] = "answered"
  <2>1. ChargeAndLease(c, a, units)
    BY <1>2 DEF Charge, ChargeUnacknowledged
  <2>2. k # want[c] /\ k \notin Removable(c)
    BY <2>1 DEF ChargeAndLease, Admitted, Fresh, Removable
  <2> QED
    BY <2>1, <2>2 DEF ChargeAndLease
<1>3. ASSUME NEW c \in Callers, Store(c) \/ Drop(c) PROVE row'[k] = "answered"
  <2>1. Works(c) /\ pc[c] \in {"store", "drop"}
    BY <1>3 DEF Store, Drop
  <2>2. k # want[c]
    BY <2>1 DEF IInv, LeaseFenced, Owns
  <2> QED
    BY <1>3, <2>2 DEF Store, Drop, IInv, TypeOK
<1> QED
  <2>1. CASE UNCHANGED vars
    BY <2>1, <1>1 DEF vars, tableVars
  <2>2. CASE (\E i \in Instances : Crash(i)) \/ NewDay
             \/ (\E s \in Sessions : SessionEnds(s)) \/ (\E j \in Keys : Expire(j))
    BY <2>2, <1>1 DEF Crash, NewDay, SessionEnds, Expire, tableVars
  <2>3. ASSUME NEW c \in Callers, CallerStep(c) PROVE row'[k] = "answered"
    <3>1. \/ UNCHANGED row
          \/ \E a \in Actors, units \in Costs :
                Charge(c, a, units) \/ ChargeUnacknowledged(c, a, units)
          \/ Store(c) \/ Drop(c)
      BY <2>3 DEF CallerStep, Call, Borrow, BorrowFails, TryLock, LockTaken,
                  AcquireInterrupted, CachedAnswer, PrepareRefused, Generated,
                  GenerateFails, DropFails, Release, ReleaseFails, tableVars
    <3> QED
      BY <3>1, <1>1, <1>2, <1>3
  <2> QED
    BY <2>1, <2>2, <2>3 DEF Next

\* No answer is generated twice while it is fresh.
THEOREM AnswersKept == Spec => FreshAnswersKept
<1>1. IInv /\ [Next]_vars =>
        [\A k \in Keys : row[k] = "answered" /\ k \notin expired => row'[k] = "answered"]_vars
  BY FreshStep
<1> QED
  BY <1>1, Invariant, PTL DEF Spec, FreshAnswersKept

\* Slots: one caller more borrows, or one fewer.
LEMMA OneBorrowerMore ==
    ASSUME IInv, PoolIntact, NEW c \in Callers, Borrow(c), NEW i \in Instances
    PROVE  free'[i] + Cardinality(Borrowers(i))' = PoolSize
<1>1. /\ lease' \in [Callers -> Sessions \cup {NoSession}]
      /\ lease[c] = NoSession /\ lease'[c] # NoSession
      /\ \A d \in Callers : d # c => lease'[d] = lease[d]
      /\ free' = [free EXCEPT ![home[c]] = @ - 1]
      /\ UNCHANGED home
  BY PaidAssumption DEF Borrow, IInv, TypeOK, SessionsOwned
<1>2. IsFiniteSet(Borrowers(i)) /\ Cardinality(Borrowers(i)) \in Nat
  <2>1. IsFiniteSet(Borrowers(i))
    BY PaidAssumption, FS_Subset DEF Borrowers
  <2> QED
    BY <2>1, FS_CardinalityType
<1>3. free[i] \in Nat /\ free[i] + Cardinality(Borrowers(i)) = PoolSize
  BY DEF PoolIntact, IInv, TypeOK
<1>4. CASE i = home[c]
  <2>1. Borrowers(i)' = Borrowers(i) \cup {c} /\ c \notin Borrowers(i)
    BY <1>1, <1>4 DEF Borrowers
  <2>2. Cardinality(Borrowers(i) \cup {c}) = Cardinality(Borrowers(i)) + 1
    BY <1>2, <2>1, FS_AddElement
  <2>3. free'[i] = free[i] - 1
    BY <1>1, <1>4 DEF IInv, TypeOK
  <2> QED
    BY <2>1, <2>2, <2>3, <1>2, <1>3
<1>5. CASE i # home[c]
  <2>1. Borrowers(i)' = Borrowers(i)
    BY <1>1, <1>5 DEF Borrowers
  <2>2. free'[i] = free[i]
    BY <1>1, <1>5 DEF IInv, TypeOK
  <2> QED
    BY <2>1, <2>2, <1>3
<1> QED
  BY <1>4, <1>5

\* A session given back or discarded frees one slot of its process.
LEMMA OneBorrowerLess ==
    ASSUME IInv, PoolIntact, NEW c \in Callers, lease[c] # NoSession,
           GiveBack(c) \/ Discard(c), UNCHANGED home, NEW i \in Instances
    PROVE  free'[i] + Cardinality(Borrowers(i))' = PoolSize
<1>1. /\ lease' = [lease EXCEPT ![c] = NoSession]
      /\ free' = [free EXCEPT ![home[c]] = @ + 1]
  BY DEF GiveBack, Discard
<1>2. IsFiniteSet(Borrowers(i)) /\ Cardinality(Borrowers(i)) \in Nat
  <2>1. IsFiniteSet(Borrowers(i))
    BY PaidAssumption, FS_Subset DEF Borrowers
  <2> QED
    BY <2>1, FS_CardinalityType
<1>3. free[i] \in Nat /\ free[i] + Cardinality(Borrowers(i)) = PoolSize
  BY DEF PoolIntact, IInv, TypeOK
<1>4. CASE i = home[c]
  <2>1. Borrowers(i)' = Borrowers(i) \ {c} /\ c \in Borrowers(i)
    BY <1>1, <1>4 DEF Borrowers, IInv, TypeOK
  <2>2. Cardinality(Borrowers(i) \ {c}) = Cardinality(Borrowers(i)) - 1
    BY <1>2, <2>1, FS_RemoveElement
  <2>3. free'[i] = free[i] + 1
    BY <1>1, <1>4 DEF IInv, TypeOK
  <2> QED
    BY <2>1, <2>2, <2>3, <1>2, <1>3
<1>5. CASE i # home[c]
  <2>1. Borrowers(i)' = Borrowers(i)
    BY <1>1, <1>5 DEF Borrowers, IInv, TypeOK
  <2>2. free'[i] = free[i]
    BY <1>1, <1>5 DEF IInv, TypeOK
  <2> QED
    BY <2>1, <2>2, <1>3
<1> QED
  BY <1>4, <1>5

\* The pool's slots are conserved and its idle sessions clean, step by step.
LEMMA PoolStep == IInv /\ IInv' /\ PoolIntact /\ [Next]_vars => PoolIntact'
<1> SUFFICES ASSUME IInv, IInv', PoolIntact, [Next]_vars PROVE PoolIntact'
  OBVIOUS
<1>1. \A i \in Instances : pooled'[i] # NoSession =>
         /\ \A k \in Keys : holder'[k] # pooled'[i]
         /\ \A c \in Callers : lease'[c] # pooled'[i]
  BY DEF IInv, PooledClean, SessionsOwned
<1> SUFFICES ASSUME NEW i \in Instances
             PROVE  free'[i] + Cardinality(Borrowers(i))' = PoolSize
  BY <1>1 DEF PoolIntact
<1>2. CASE UNCHANGED <<home, lease, free>>
  <2>1. Borrowers(i)' = Borrowers(i)
    BY <1>2 DEF Borrowers
  <2> QED
    BY <1>2, <2>1 DEF PoolIntact
<1>3. ASSUME NEW c \in Callers, CallerStep(c)
      PROVE  free'[i] + Cardinality(Borrowers(i))' = PoolSize
  <2>1. CASE Borrow(c)
    BY <2>1, OneBorrowerMore
  <2>2. CASE LockTaken(c) \/ AcquireInterrupted(c) \/ Release(c) \/ ReleaseFails(c)
    <3>1. /\ lease[c] # NoSession /\ UNCHANGED home
          /\ GiveBack(c) \/ Discard(c)
      BY <2>2 DEF LockTaken, AcquireInterrupted, Release, ReleaseFails, IInv, SessionsOwned
    <3> QED
      BY <3>1, OneBorrowerLess
  <2>3. CASE ~(Borrow(c) \/ LockTaken(c) \/ AcquireInterrupted(c) \/ Release(c) \/ ReleaseFails(c))
    <3>1. UNCHANGED <<home, lease, free>>
      BY <1>3, <2>3 DEF CallerStep, Call, BorrowFails, TryLock, CachedAnswer,
                        PrepareRefused, Charge, ChargeUnacknowledged, Generated,
                        GenerateFails, Store, Drop, DropFails, poolVars
    <3> QED
      BY <3>1, <1>2
  <2> QED
    BY <2>1, <2>2, <2>3
<1>4. ASSUME NEW j \in Instances, Crash(j)
      PROVE  free'[i] + Cardinality(Borrowers(i))' = PoolSize
  <2>1. /\ \A c \in Callers : lease'[c] = IF home[c] = j THEN NoSession ELSE lease[c]
        /\ free' = [free EXCEPT ![j] = PoolSize]
        /\ UNCHANGED home
    BY <1>4 DEF Crash
  <2>2. CASE i = j
    <3>1. Borrowers(i)' = {}
      BY <2>1, <2>2 DEF Borrowers
    <3>2. free'[i] = PoolSize
      BY <2>1, <2>2 DEF IInv, TypeOK
    <3> QED
      BY <3>1, <3>2, FS_EmptySet, PaidAssumption
  <2>3. CASE i # j
    <3>1. Borrowers(i)' = Borrowers(i)
      BY <2>1, <2>3 DEF Borrowers
    <3>2. free'[i] = free[i]
      BY <2>1, <2>3 DEF IInv, TypeOK
    <3> QED
      BY <3>1, <3>2 DEF PoolIntact
  <2> QED
    BY <2>2, <2>3
<1>5. CASE NewDay \/ (\E s \in Sessions : SessionEnds(s)) \/ (\E k \in Keys : Expire(k))
  BY <1>5, <1>2 DEF NewDay, SessionEnds, Expire, poolVars
<1>6. CASE UNCHANGED vars
  BY <1>6, <1>2 DEF vars, poolVars
<1> QED
  BY <1>3, <1>4, <1>5, <1>6 DEF Next

\* No slot is lost or doubled and no lock leaks to the next borrower.
THEOREM PoolKept == Spec => []PoolIntact
<1>1. Init => PoolIntact
  <2> SUFFICES ASSUME Init, NEW i \in Instances
               PROVE  free[i] + Cardinality(Borrowers(i)) = PoolSize /\ pooled[i] = NoSession
    BY DEF PoolIntact
  <2>1. Borrowers(i) = {}
    BY DEF Init, Borrowers
  <2> QED
    BY <2>1, FS_EmptySet, PaidAssumption DEF Init
<1>2. IInv /\ IInv' /\ PoolIntact /\ [Next]_vars => PoolIntact'
  BY PoolStep
<1> QED
  BY <1>1, <1>2, Invariant, PTL DEF Spec
==============================================================================
