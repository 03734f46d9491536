---------------------------- MODULE PaidGeneration ----------------------------
(***************************************************************************)
(* Paid provider calls shared by all API processes: run_paid_generation    *)
(* with a database (_run_db), and the bounded connection pool it borrows   *)
(* from (core/database.py).                                                *)
(*                                                                         *)
(* A caller borrows a database session, takes the session-level advisory   *)
(* lock of its key, charges the actor's budget and leases the key in one   *)
(* transaction, calls the provider with no transaction open, stores the    *)
(* answer or drops the lease, unlocks and gives the session back.  Each    *)
(* transaction and each pool operation is one action.  The server may end  *)
(* a session at any time, a process may die, and every statement may fail. *)
(***************************************************************************)
EXTENDS FiniteSets, Integers

CONSTANTS
    Callers,       \* threads in run_paid_generation
    Instances,     \* API processes, one connection pool each
    Keys, Actors,
    Sessions,      \* PostgreSQL sessions
    PoolSize,      \* LALA_DB_POOL_SIZE
    Concurrency,   \* paid_global_concurrency
    RequestLimit,  \* paid_daily_request_limit
    UnitLimit,     \* paid_daily_unit_limit
    Costs,         \* cost units of a call
    NoKey, NoSession

ASSUME PaidAssumption ==
    /\ IsFiniteSet(Keys)
    /\ IsFiniteSet(Callers)
    /\ NoKey \notin Keys
    /\ NoSession \notin Sessions
    /\ {PoolSize, Concurrency, RequestLimit, UnitLimit} \cup Costs \subseteq Nat \ {0}

VARIABLES
    home,      \* the process a caller runs in
    pc,        \* the next step of a caller
    want,      \* the key it asks for
    lease,     \* the session it has borrowed (_Lease)
    free,      \* slots of each pool's semaphore
    pooled,    \* the idle session of each pool
    broken,    \* sessions the server has ended while a client still uses them
    holder,    \* the session that holds the advisory lock of a key
    row,       \* ops.api_paid_generations: no row, response NULL, or an answer
    expired,   \* keys whose row's expires_at has passed
    spent      \* ops.api_paid_budgets of today

poolVars == <<lease, free, pooled>>
tableVars == <<row, expired, spent>>
vars == <<home, pc, want, poolVars, broken, holder, tableVars>>

Steps == {"idle", "borrow", "lock", "prepare", "generate", "store", "drop", "release"}

Budgets == {b \in [requests : 0..RequestLimit, units : 0..UnitLimit] :
               b.requests = 0 => b.units = 0}

TypeOK ==
    /\ home \in [Callers -> Instances]
    /\ pc \in [Callers -> Steps]
    /\ want \in [Callers -> Keys \cup {NoKey}]
    /\ lease \in [Callers -> Sessions \cup {NoSession}]
    /\ free \in [Instances -> Nat]
    /\ pooled \in [Instances -> Sessions \cup {NoSession}]
    /\ broken \in SUBSET Sessions
    /\ holder \in [Keys -> Sessions \cup {NoSession}]
    /\ row \in [Keys -> {"none", "leased", "answered"}]
    /\ expired \in SUBSET Keys
    /\ spent \in [Actors -> Budgets]

NothingSpent == [a \in Actors |-> [requests |-> 0, units |-> 0]]

Init ==
    /\ home \in [Callers -> Instances]
    /\ pc = [c \in Callers |-> "idle"]
    /\ want = [c \in Callers |-> NoKey]
    /\ lease = [c \in Callers |-> NoSession]
    /\ free = [i \in Instances |-> PoolSize]
    /\ pooled = [i \in Instances |-> NoSession]
    /\ broken = {}
    /\ holder = [k \in Keys |-> NoSession]
    /\ row = [k \in Keys |-> "none"]
    /\ expired = {}
    /\ spent = NothingSpent

-------------------------------------------------------------------------------
(* The connection pool *)

InUse(s) == (\E c \in Callers : lease[c] = s) \/ (\E i \in Instances : pooled[i] = s)

\* A session of a dead client lives on, with its locks, until the server ends it.
Unused(s) == ~InUse(s) /\ \A k \in Keys : holder[k] # s

Works(c) == lease[c] \in Sessions \ broken

Goto(c, step) == pc' = [pc EXCEPT ![c] = step]

Finish(c) ==
    /\ Goto(c, "idle")
    /\ want' = [want EXCEPT ![c] = NoKey]

\* _Pool.borrow: a slot first, then the idle session or a new one.
Borrow(c) ==
    LET i == home[c] IN
    /\ pc[c] = "borrow"
    /\ free[i] > 0
    /\ \E s \in Sessions :
          /\ IF pooled[i] = NoSession THEN Unused(s) ELSE s = pooled[i]
          /\ lease' = [lease EXCEPT ![c] = s]
    /\ free' = [free EXCEPT ![i] = @ - 1]
    /\ pooled' = [pooled EXCEPT ![i] = NoSession]
    /\ Goto(c, "lock")
    /\ UNCHANGED <<home, want, broken, holder, tableVars>>

\* No slot in time (DatabaseBusyError), or the connection attempt fails and
\* the slot is released.
BorrowFails(c) ==
    /\ pc[c] = "borrow"
    /\ free[home[c]] = 0 \/ pooled[home[c]] = NoSession
    /\ Finish(c)
    /\ UNCHANGED <<home, poolVars, broken, holder, tableVars>>

\* _Lease.close: the session goes back; the pool keeps one idle session.
GiveBack(c) ==
    LET i == home[c] IN
    /\ lease' = [lease EXCEPT ![c] = NoSession]
    /\ free' = [free EXCEPT ![i] = @ + 1]
    /\ pooled' = IF pooled[i] = NoSession
                 THEN [pooled EXCEPT ![i] = lease[c]] ELSE pooled
    /\ broken' = broken \ (IF pooled[i] = NoSession THEN {} ELSE {lease[c]})

DiscardByClosing(c) == GiveBack(c)    \* mutant: the failed session is reused

\* _Lease.discard: closed whatever its state.
Discard(c) ==
    /\ lease' = [lease EXCEPT ![c] = NoSession]
    /\ free' = [free EXCEPT ![home[c]] = @ + 1]
    /\ broken' = broken \ {lease[c]}
    /\ UNCHANGED pooled

-------------------------------------------------------------------------------
(* The lock of a key *)

\* run_paid_generation is called.
Call(c, k) ==
    /\ pc[c] = "idle"
    /\ want' = [want EXCEPT ![c] = k]
    /\ Goto(c, "borrow")
    /\ UNCHANGED <<home, poolVars, broken, holder, tableVars>>

LockFree(c) == holder[want[c]] \in {NoSession, lease[c]}

TryLockForTransaction(c) ==    \* mutant: a transaction-level lock, gone at commit
    /\ pc[c] = "lock"
    /\ Works(c)
    /\ LockFree(c)
    /\ Goto(c, "prepare")
    /\ UNCHANGED <<home, want, poolVars, broken, holder, tableVars>>

\* pg_try_advisory_lock returns true; the lock outlives the transaction.
TryLock(c) ==
    /\ pc[c] = "lock"
    /\ Works(c)
    /\ LockFree(c)
    /\ holder' = [holder EXCEPT ![want[c]] = lease[c]]
    /\ Goto(c, "prepare")
    /\ UNCHANGED <<home, want, poolVars, broken, tableVars>>

\* It returns false: another session has it, or another caller's cleanup tries
\* it for an expired row.  The session is given back before the wait; at the
\* deadline the caller gives up.
LockTaken(c) ==
    /\ pc[c] = "lock"
    /\ Works(c)
    /\ ~LockFree(c) \/ want[c] \in expired
    /\ GiveBack(c)
    /\ \/ Goto(c, "borrow") /\ UNCHANGED want
       \/ Finish(c)
    /\ UNCHANGED <<home, holder, tableVars>>

\* The statement fails or its answer is lost; the lock may have been taken.
AcquireInterrupted(c) ==
    /\ pc[c] = "lock"
    /\ Discard(c)
    /\ \/ UNCHANGED holder
       \/ Works(c) /\ LockFree(c) /\ holder' = [holder EXCEPT ![want[c]] = lease[c]]
    /\ Finish(c)
    /\ UNCHANGED <<home, tableVars>>

\* The finally clause: unlock, then close.
Release(c) ==
    /\ pc[c] = "release"
    /\ Works(c)
    /\ holder' = [holder EXCEPT ![want[c]] = IF @ = lease[c] THEN NoSession ELSE @]
    /\ GiveBack(c)
    /\ Finish(c)
    /\ UNCHANGED <<home, tableVars>>

\* Rollback or unlock fails: the session must not reach another borrower.
ReleaseFails(c) ==
    /\ pc[c] = "release"
    /\ Discard(c)
    /\ Finish(c)
    /\ UNCHANGED <<home, holder, tableVars>>

-------------------------------------------------------------------------------
(* The transaction that charges and leases, under the global lock *)

NeverFresh(k) == k \notin Keys    \* mutant: no second look at the cache

Fresh(k) == row[k] = "answered" /\ k \notin expired

CachedAnswer(c) ==
    /\ pc[c] = "prepare"
    /\ Works(c)
    /\ Fresh(want[c])
    /\ Goto(c, "release")
    /\ UNCHANGED <<home, want, poolVars, broken, holder, tableVars>>

\* Expired rows the cleanup deletes: answers, and leases nobody else's session locks.
RemovableUnlocked(c) == expired    \* mutant: locks ignored

Removable(c) ==
    {k \in expired : row[k] = "answered" \/ holder[k] \in {NoSession, lease[c]}}

\* SELECT count(*) ... WHERE response IS NULL, after the cleanup.
CountedUnexpired(c) == {k \in Keys \ expired : row[k] = "leased"}    \* mutant: expired leases not counted

Counted(c) == {k \in Keys \ Removable(c) : row[k] = "leased"}

Admitted(c) ==
    /\ pc[c] = "prepare"
    /\ Works(c)
    /\ ~Fresh(want[c])
    /\ Cardinality(Counted(c)) < Concurrency

\* The upsert's WHERE only guards the update; the first charge of a day is
\* guarded by the test of units alone.
AffordableByUpsert(a, units) ==    \* mutant: units > unit_limit not tested
    \/ spent[a].requests = 0
    \/ spent[a].requests < RequestLimit /\ spent[a].units + units <= UnitLimit

Affordable(a, units) ==
    /\ units <= UnitLimit
    /\ \/ spent[a].requests = 0
       \/ spent[a].requests < RequestLimit /\ spent[a].units + units <= UnitLimit

\* What the transaction commits: cleanup, charge, lease.
ChargeAndLease(c, a, units) ==
    /\ Admitted(c)
    /\ Affordable(a, units)
    /\ spent' = [spent EXCEPT ![a] = [requests |-> @.requests + 1,
                                      units |-> @.units + units]]
    /\ row' = [k \in Keys |-> IF k = want[c] THEN "leased"
                              ELSE IF k \in Removable(c) THEN "none" ELSE row[k]]
    /\ expired' = expired \ (Removable(c) \cup {want[c]})

Charge(c, a, units) ==
    /\ ChargeAndLease(c, a, units)
    /\ Goto(c, "generate")
    /\ UNCHANGED <<home, want, poolVars, broken, holder>>

\* The server ends session s: its locks go, its client finds out later.
EndSession(s) ==
    /\ holder' = [k \in Keys |-> IF holder[k] = s THEN NoSession ELSE holder[k]]
    /\ broken' = IF InUse(s) THEN broken \cup {s} ELSE broken

\* Committed, but the connection breaks before the answer arrives.
ChargeUnacknowledged(c, a, units) ==
    /\ ChargeAndLease(c, a, units)
    /\ EndSession(lease[c])
    /\ Goto(c, "release")
    /\ UNCHANGED <<home, want, poolVars>>

\* PAID_CONCURRENCY_LIMITED or PAID_DAILY_LIMITED, both rolling the cleanup
\* back, or any statement of the transaction fails.
PrepareRefused(c) ==
    /\ pc[c] = "prepare"
    /\ Goto(c, "release")
    /\ UNCHANGED <<home, want, poolVars, broken, holder, tableVars>>

-------------------------------------------------------------------------------
(* The provider call and its outcome *)

\* generate() and _encode return.
Generated(c) ==
    /\ pc[c] = "generate"
    /\ Goto(c, "store")
    /\ UNCHANGED <<home, want, poolVars, broken, holder, tableVars>>

\* One of them raises, or the answer cannot be stored.
GenerateFails(c) ==
    /\ pc[c] \in {"generate", "store"}
    /\ Goto(c, "drop")
    /\ UNCHANGED <<home, want, poolVars, broken, holder, tableVars>>

Store(c) ==
    /\ pc[c] = "store"
    /\ Works(c)
    /\ row' = [row EXCEPT ![want[c]] = IF @ = "none" THEN @ ELSE "answered"]
    /\ expired' = expired \ {want[c]}
    /\ UNCHANGED <<home, want, poolVars, spent>>
    /\ \/ Goto(c, "release") /\ UNCHANGED <<broken, holder>>
       \/ Goto(c, "drop") /\ EndSession(lease[c])    \* answer of the commit lost

\* The except clause deletes the row; the exception goes on.
Drop(c) ==
    /\ pc[c] = "drop"
    /\ Works(c)
    /\ row' = [row EXCEPT ![want[c]] = "none"]
    /\ expired' = expired \ {want[c]}
    /\ Goto(c, "release")
    /\ UNCHANGED <<home, want, poolVars, broken, holder, spent>>

DropFails(c) ==
    /\ pc[c] = "drop"
    /\ Goto(c, "release")
    /\ UNCHANGED <<home, want, poolVars, broken, holder, tableVars>>

-------------------------------------------------------------------------------
(* Server, clock and process failures *)

SessionEnds(s) ==
    /\ s \notin broken
    /\ ~Unused(s)
    /\ EndSession(s)
    /\ UNCHANGED <<home, pc, want, poolVars, tableVars>>

\* A row's lease (120 s) or time to live passes.
Expire(k) ==
    /\ row[k] # "none"
    /\ expired' = expired \cup {k}
    /\ UNCHANGED <<home, pc, want, poolVars, broken, holder, row, spent>>

NewDay ==
    /\ spent' = NothingSpent
    /\ UNCHANGED <<home, pc, want, poolVars, broken, holder, row, expired>>

Crash(i) ==
    LET gone == {c \in Callers : home[c] = i} IN
    /\ pc' = [c \in Callers |-> IF c \in gone THEN "idle" ELSE pc[c]]
    /\ want' = [c \in Callers |-> IF c \in gone THEN NoKey ELSE want[c]]
    /\ lease' = [c \in Callers |-> IF c \in gone THEN NoSession ELSE lease[c]]
    /\ free' = [free EXCEPT ![i] = PoolSize]
    /\ pooled' = [pooled EXCEPT ![i] = NoSession]
    /\ broken' = broken \ ({lease[c] : c \in gone} \cup {pooled[i]})
    /\ UNCHANGED <<home, holder, tableVars>>

CallerStep(c) ==
    \/ \E k \in Keys : Call(c, k)
    \/ Borrow(c) \/ BorrowFails(c)
    \/ TryLock(c) \/ LockTaken(c) \/ AcquireInterrupted(c)
    \/ CachedAnswer(c) \/ PrepareRefused(c)
    \/ \E a \in Actors, units \in Costs :
          Charge(c, a, units) \/ ChargeUnacknowledged(c, a, units)
    \/ Generated(c) \/ GenerateFails(c)
    \/ Store(c) \/ Drop(c) \/ DropFails(c)
    \/ Release(c) \/ ReleaseFails(c)

Next ==
    \/ \E c \in Callers : CallerStep(c)
    \/ \E s \in Sessions : SessionEnds(s)
    \/ \E k \in Keys : Expire(k)
    \/ NewDay
    \/ \E i \in Instances : Crash(i)

Spec == Init /\ [][Next]_vars

-------------------------------------------------------------------------------
(* Properties *)

\* A caller whose session works and that has leased its key.
Owns(c, k) == Works(c) /\ want[c] = k /\ pc[c] \in {"generate", "store", "drop"}

\* One generation at a time: two callers, in one process or in two, never own
\* the same key, whatever expired or died before.
SingleFlight ==
    \A k \in Keys : \A c, d \in Callers : Owns(c, k) /\ Owns(d, k) => c = d

\* The owner of a key still has its row leased until it stores the answer or
\* drops the lease itself, however long the provider took: nobody cleaned the
\* row up, answered it or dropped it meanwhile.
LeaseFenced ==
    \A k \in Keys : \A c \in Callers : Owns(c, k) => row[k] = "leased"

\* The provider is called for at most Concurrency keys by callers whose
\* sessions work, over all processes.
Generating == {k \in Keys : \E c \in Callers : Owns(c, k) /\ pc[c] = "generate"}

ConcurrencyBound == Cardinality(Generating) <= Concurrency

\* The pool gets back what it lent, and only clean sessions: an idle session
\* holds no lock and nobody else uses it, and slots are neither lost nor doubled.
Borrowers(i) == {c \in Callers : home[c] = i /\ lease[c] # NoSession}

PoolIntact ==
    \A i \in Instances :
        /\ free[i] + Cardinality(Borrowers(i)) = PoolSize
        /\ pooled[i] # NoSession =>
              /\ \A k \in Keys : holder[k] # pooled[i]
              /\ \A c \in Callers : lease[c] # pooled[i]

\* What makes the properties above inductive: a session has one user; past the
\* lock step a working session holds the lock of its caller's key, and a
\* borrowed session never holds another; leases stay within the bound.
SessionsOwned ==
    /\ \A c \in Callers :
          /\ pc[c] # "idle" => want[c] \in Keys
          /\ pc[c] \in {"idle", "borrow"} <=> lease[c] = NoSession
          /\ \A d \in Callers : lease[c] # NoSession /\ lease[c] = lease[d] => c = d
          /\ \A i \in Instances : lease[c] # NoSession => lease[c] # pooled[i]
    /\ \A i, j \in Instances : pooled[i] # NoSession /\ pooled[i] = pooled[j] => i = j

LocksOwned ==
    \A c \in Callers :
        /\ Works(c) /\ pc[c] # "lock" => holder[want[c]] = lease[c]
        /\ \A k \in Keys :
              lease[c] # NoSession /\ holder[k] = lease[c] => pc[c] # "lock" /\ want[c] = k

PooledClean ==
    \A i \in Instances : \A k \in Keys : pooled[i] # NoSession => holder[k] # pooled[i]

Leased == {k \in Keys : row[k] = "leased"}

LeasedBound == Cardinality(Leased) <= Concurrency

IInv ==
    /\ TypeOK
    /\ SessionsOwned
    /\ LocksOwned
    /\ PooledClean
    /\ LeaseFenced
    /\ LeasedBound

\* A fresh answer is never generated again nor lost, only expires: who waited
\* for the lock finds the answer of the one who had it.
FreshAnswersKept ==
    [][\A k \in Keys : row[k] = "answered" /\ k \notin expired => row'[k] = "answered"]_vars
===============================================================================
