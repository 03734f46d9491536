---------------------------- MODULE AccountDeletion ----------------------------
(***************************************************************************)
(* The lifecycle of a LALA account: provisioning, writes fenced by         *)
(* lock_active_actor, DELETE /me, the deletion job and its reconciler, and *)
(* the Logto account that must be gone before local data is erased.        *)
(*                                                                         *)
(* Every statement block that runs in one database transaction under the   *)
(* identity's advisory lock is one action, guarded by the lock being free; *)
(* a writer's transaction is open from BeginWrite to CommitWrite, so it    *)
(* holds that lock in between.  A deletion worker (a request thread or a   *)
(* reconciler process) takes one step per provider call or transaction and *)
(* may stop, or lose an answer, between any two of them.                   *)
(***************************************************************************)
EXTENDS FiniteSets, Integers

CONSTANTS
    Actors,        \* identities, i.e. (issuer, subject) pairs
    Requests,      \* threads serving DELETE /me
    Reconcilers,   \* processes running reconcile_deletions
    Writers,       \* connections running a user's write transaction
    Limit,         \* the LIMIT of pending_deletions
    NoActor

ASSUME DeletionAssumption ==
    /\ Requests \cap Reconcilers = {}
    /\ NoActor \notin Actors
    /\ IsFiniteSet(Actors)
    /\ Limit \in Nat \ {0}

Workers == Requests \cup Reconcilers

VARIABLES
    user,         \* identity.users: "none" (no row), "active", "deleting"
    job,          \* identity.deletion_jobs: "none" (no row) or its phase
    due,          \* jobs whose next_attempt_at has passed
    tombstones,   \* identity.deleted_users
    owned,        \* actors with a row they wrote, removed with the user row
    referenced,   \* actors named by a row another actor wrote
    logto,        \* actors whose account the provider still has
    txnActor,     \* the actor a writer's open transaction is fenced for
    txnRefs,      \* the user rows it holds FOR KEY SHARE through a foreign key
    pc, target,   \* the next step of a worker, and the identity it deletes
    batch,        \* jobs a reconciler listed and has not resumed yet
    acked,        \* actors whose deletion a worker reported as done
    calm          \* no more failures from now on (used for liveness only)

dbVars == <<user, job, due, tombstones, owned, referenced>>
txnVars == <<txnActor, txnRefs>>
workerVars == <<pc, target, batch, acked>>
vars == <<dbVars, logto, txnVars, workerVars, calm>>

JobPhases == {"pending_external", "external_deleted"}
Steps == {"phase", "provider", "mark_external", "finalize"}

TypeOK ==
    /\ user \in [Actors -> {"none", "active", "deleting"}]
    /\ job \in [Actors -> {"none"} \cup JobPhases]
    /\ due \in SUBSET Actors
    /\ tombstones \in SUBSET Actors
    /\ owned \in SUBSET Actors
    /\ referenced \in SUBSET Actors
    /\ logto \in SUBSET Actors
    /\ txnActor \in [Writers -> Actors \cup {NoActor}]
    /\ txnRefs \in [Writers -> SUBSET Actors]
    /\ pc \in [Workers -> {"idle", "failed"} \cup Steps]
    /\ target \in [Workers -> Actors \cup {NoActor}]
    /\ batch \in [Workers -> SUBSET Actors]
    /\ acked \in SUBSET Actors
    /\ calm \in BOOLEAN

Init ==
    /\ user = [a \in Actors |-> "none"]
    /\ job = [a \in Actors |-> "none"]
    /\ due = {}
    /\ tombstones = {}
    /\ owned = {}
    /\ referenced = {}
    /\ logto = Actors
    /\ txnActor = [t \in Writers |-> NoActor]
    /\ txnRefs = [t \in Writers |-> {}]
    /\ pc = [w \in Workers |-> "idle"]
    /\ target = [w \in Workers |-> NoActor]
    /\ batch = [w \in Workers |-> {}]
    /\ acked = {}
    /\ calm = FALSE

-------------------------------------------------------------------------------
(* Locks *)

\* pg_advisory_xact_lock on the digest: held by the transaction that began a
\* fenced write and has not ended.
LockNotTaken(a) == a \in Actors    \* mutant: the workflow takes no lock

IdentityLockFree(a) == \A t \in Writers : txnActor[t] # a

\* DELETE of a users row waits for every transaction that inserted a row with
\* a foreign key to it.
UserRowUnreferenced(a) == \A t \in Writers : a \notin txnRefs[t]

\* The checks provision_user and lock_active_actor make under the lock.
AdmittedUnlessPending(a) == job[a] = "none" /\ user[a] # "deleting"    \* mutant: tombstones unread

Admitted(a) == a \notin tombstones /\ job[a] = "none" /\ user[a] # "deleting"

-------------------------------------------------------------------------------
(* Authenticated users *)

\* provision_user: the first authenticated call of an identity adds its row.
ProvisionUser(a) ==
    /\ IdentityLockFree(a)
    /\ Admitted(a)
    /\ user[a] = "none"
    /\ user' = [user EXCEPT ![a] = "active"]
    /\ UNCHANGED <<job, due, tombstones, owned, referenced, logto, txnVars,
                   workerVars, calm>>

\* lock_active_actor at the head of a write transaction.  A users row it
\* inserts is seen by others at commit only.
BeginWrite(t, a) ==
    /\ txnActor[t] = NoActor
    /\ IdentityLockFree(a)
    /\ Admitted(a)
    /\ txnActor' = [txnActor EXCEPT ![t] = a]
    /\ UNCHANGED <<dbVars, logto, txnRefs, workerVars, calm>>

\* The transaction inserts a row naming another user (a follow, a room
\* membership): the foreign key needs that user's row and locks it.
ReferenceUser(t, b) ==
    /\ txnActor[t] \notin {NoActor, b}
    /\ user[b] # "none"
    /\ txnRefs' = [txnRefs EXCEPT ![t] = @ \cup {b}]
    /\ UNCHANGED <<dbVars, logto, txnActor, workerVars, calm>>

EndWrite(t) ==
    /\ txnActor' = [txnActor EXCEPT ![t] = NoActor]
    /\ txnRefs' = [txnRefs EXCEPT ![t] = {}]

CommitWrite(t) ==
    /\ txnActor[t] # NoActor
    /\ user' = [user EXCEPT ![txnActor[t]] = "active"]
    /\ owned' = owned \cup {txnActor[t]}
    /\ referenced' = referenced \cup txnRefs[t]
    /\ EndWrite(t)
    /\ UNCHANGED <<job, due, tombstones, logto, workerVars, calm>>

\* A refused write, a timeout or a lost connection.
RollbackWrite(t) ==
    /\ txnActor[t] # NoActor
    /\ EndWrite(t)
    /\ UNCHANGED <<dbVars, logto, workerVars, calm>>

-------------------------------------------------------------------------------
(* Deletion workers *)

\* The worker goes on to its next step, or sees this step fail although its
\* effect was applied (an answer lost after the commit or the provider call).
ProceedTo(w, step) ==
    /\ \/ pc' = [pc EXCEPT ![w] = step]
       \/ ~calm /\ pc' = [pc EXCEPT ![w] = "failed"]
    /\ UNCHANGED <<target, batch, acked>>

Leave(w) ==
    /\ pc' = [pc EXCEPT ![w] = "idle"]
    /\ target' = [target EXCEPT ![w] = NoActor]
    /\ UNCHANGED batch

\* delete_account: mark_user_deleting, before the guarded part.  A commit whose
\* answer is lost ends the request with 503 and leaves the job to reconcilers.
RequestDeletion(q, a) ==
    /\ pc[q] = "idle"
    /\ IdentityLockFree(a)
    /\ IF a \notin tombstones /\ job[a] = "none"
         THEN /\ job' = [job EXCEPT ![a] = "pending_external"]
              /\ due' = due \cup {a}
         ELSE UNCHANGED <<job, due>>
    /\ user' = [user EXCEPT ![a] = IF @ = "none" THEN "none" ELSE "deleting"]
    /\ \/ /\ pc' = [pc EXCEPT ![q] = "phase"]
          /\ target' = [target EXCEPT ![q] = a]
       \/ ~calm /\ UNCHANGED <<pc, target>>
    /\ UNCHANGED <<tombstones, owned, referenced, logto, txnVars, batch, acked, calm>>

\* Mutant: only jobs whose provider account still has to be deleted are listed.
ListUnstartedJobs(r) ==
    /\ pc[r] = "idle" /\ batch[r] = {}
    /\ \E a \in due : job[a] = "pending_external" /\ batch' = [batch EXCEPT ![r] = {a}]
    /\ UNCHANGED <<dbVars, logto, txnVars, pc, target, acked, calm>>

\* pending_deletions: at most Limit due jobs; phases are read again later.
ListJobs(r) ==
    /\ pc[r] = "idle" /\ batch[r] = {}
    /\ \E jobs \in SUBSET due :
          /\ jobs # {}
          /\ Cardinality(jobs) <= Limit
          /\ Cardinality(jobs) < Limit => jobs = due
          /\ batch' = [batch EXCEPT ![r] = jobs]
    /\ UNCHANGED <<dbVars, logto, txnVars, pc, target, acked, calm>>

\* The loop body of reconcile_deletions enters _resume_deletion.
ResumeJob(r, a) ==
    /\ pc[r] = "idle" /\ a \in batch[r]
    /\ pc' = [pc EXCEPT ![r] = "phase"]
    /\ target' = [target EXCEPT ![r] = a]
    /\ batch' = [batch EXCEPT ![r] = @ \ {a}]
    /\ UNCHANGED <<dbVars, logto, txnVars, acked, calm>>

\* Mutant: a job past its provider step counts as done.
ReadPhaseDoneEarly(w) ==
    /\ pc[w] = "phase"
    /\ \/ /\ job[target[w]] # "pending_external"
          /\ Leave(w)
          /\ acked' = acked \cup {target[w]}
       \/ job[target[w]] = "pending_external" /\ ProceedTo(w, "provider")
    /\ UNCHANGED <<dbVars, logto, txnVars, calm>>

\* deletion_phase: no job means somebody finalized it, which is success.
ReadPhase(w) ==
    /\ pc[w] = "phase"
    /\ \/ /\ job[target[w]] = "none"
          /\ Leave(w)
          /\ acked' = acked \cup {target[w]}
       \/ job[target[w]] = "external_deleted" /\ ProceedTo(w, "finalize")
       \/ job[target[w]] = "pending_external" /\ ProceedTo(w, "provider")
    /\ UNCHANGED <<dbVars, logto, txnVars, calm>>

\* Mutant: a refusal of the provider is taken for success.
DeleteProviderAccountUnchecked(w) ==
    /\ pc[w] = "provider"
    /\ logto' \in {logto, logto \ {target[w]}}
    /\ ProceedTo(w, "mark_external")
    /\ UNCHANGED <<dbVars, txnVars, calm>>

\* LogtoManagementClient.delete_user: token, grants, sessions, then the account;
\* an account already gone (404) counts as deleted.  Only the last request
\* changes what the other steps depend on, so a failure of any request is
\* StepFails, or the lost answer of this step.
DeleteProviderAccount(w) ==
    /\ pc[w] = "provider"
    /\ logto' = logto \ {target[w]}
    /\ ProceedTo(w, "mark_external")
    /\ UNCHANGED <<dbVars, txnVars, calm>>

\* Mutant: the job is dropped as soon as the provider account is gone.
MarkExternalByDroppingJob(w) ==
    /\ pc[w] = "mark_external"
    /\ job' = [job EXCEPT ![target[w]] = "none"]
    /\ due' = due \ {target[w]}
    /\ ProceedTo(w, "finalize")
    /\ UNCHANGED <<user, tombstones, owned, referenced, logto, txnVars, calm>>

\* mark_external_deleted takes no advisory lock; the job may be gone by now.
MarkExternalDeleted(w) ==
    /\ pc[w] = "mark_external"
    /\ IF job[target[w]] # "none"
         THEN /\ job' = [job EXCEPT ![target[w]] = "external_deleted"]
              /\ due' = due \cup {target[w]}
         ELSE UNCHANGED <<job, due>>
    /\ ProceedTo(w, "finalize")
    /\ UNCHANGED <<user, tombstones, owned, referenced, logto, txnVars, calm>>

\* Mutant: no tombstone is written.
EraseWithoutTombstone(a) ==
    /\ user' = [user EXCEPT ![a] = "none"]
    /\ owned' = owned \ {a} /\ referenced' = referenced \ {a}
    /\ job' = [job EXCEPT ![a] = "none"]
    /\ due' = due \ {a}
    /\ UNCHANGED tombstones

\* The statements of finalize_user_deletion: the user row with every row that
\* cascades from it, the job, and the tombstone.
EraseIdentity(a) ==
    /\ user' = [user EXCEPT ![a] = "none"]
    /\ owned' = owned \ {a} /\ referenced' = referenced \ {a}
    /\ job' = [job EXCEPT ![a] = "none"]
    /\ due' = due \ {a}
    /\ tombstones' = tombstones \cup {a}

FinalizeUserDeletion(w) ==
    /\ pc[w] = "finalize"
    /\ IdentityLockFree(target[w]) /\ UserRowUnreferenced(target[w])
    /\ EraseIdentity(target[w])
    /\ \/ Leave(w) /\ acked' = acked \cup {target[w]}
       \/ /\ ~calm
          /\ pc' = [pc EXCEPT ![w] = "failed"]
          /\ UNCHANGED <<target, batch, acked>>
    /\ UNCHANGED <<logto, txnVars, calm>>

\* A step fails without effect: provider unavailable or refusing, no pooled
\* connection, lock or statement timeout.
StepFails(w) ==
    /\ ~calm
    /\ pc[w] \in Steps
    /\ pc' = [pc EXCEPT ![w] = "failed"]
    /\ UNCHANGED <<dbVars, logto, txnVars, target, batch, acked, calm>>

\* record_deletion_failure postpones the job by a minute; if it fails too, its
\* failure is suppressed and the job stays due.
RecordDeletionFailure(w) ==
    /\ pc[w] = "failed"
    /\ \/ due' = due \ {target[w]}
       \/ ~calm /\ UNCHANGED due
    /\ Leave(w)
    /\ UNCHANGED <<user, job, tombstones, owned, referenced, logto, txnVars, acked, calm>>

\* The process of a worker dies; what it had not committed is lost.
Crash(w) ==
    /\ ~calm
    /\ pc[w] # "idle" \/ batch[w] # {}
    /\ pc' = [pc EXCEPT ![w] = "idle"]
    /\ target' = [target EXCEPT ![w] = NoActor]
    /\ batch' = [batch EXCEPT ![w] = {}]
    /\ UNCHANGED <<dbVars, logto, txnVars, acked, calm>>

\* The postponed next_attempt_at of a job passes.
JobBecomesDue(a) ==
    /\ job[a] # "none" /\ a \notin due
    /\ due' = due \cup {a}
    /\ UNCHANGED <<user, job, tombstones, owned, referenced, logto, txnVars,
                   workerVars, calm>>

\* The failures end.
CalmDown ==
    /\ ~calm
    /\ calm' = TRUE
    /\ UNCHANGED <<dbVars, logto, txnVars, workerVars>>

-------------------------------------------------------------------------------
WorkerStep(w) ==
    \/ ReadPhase(w) \/ DeleteProviderAccount(w)
    \/ MarkExternalDeleted(w) \/ FinalizeUserDeletion(w)
    \/ RecordDeletionFailure(w)

WriterStep(t) ==
    \/ \E a \in Actors : BeginWrite(t, a) \/ ReferenceUser(t, a)
    \/ CommitWrite(t) \/ RollbackWrite(t)

Next ==
    \/ \E a \in Actors : ProvisionUser(a) \/ JobBecomesDue(a)
    \/ \E t \in Writers : WriterStep(t)
    \/ \E q \in Requests, a \in Actors : RequestDeletion(q, a)
    \/ \E r \in Reconcilers : ListJobs(r) \/ \E a \in Actors : ResumeJob(r, a)
    \/ \E w \in Workers : WorkerStep(w) \/ StepFails(w) \/ Crash(w)
    \/ CalmDown

Spec == Init /\ [][Next]_vars

\* A scheduler keeps starting reconcilers, a started worker goes on, an open
\* transaction ends (statement and idle-in-transaction timeouts) and time
\* passes.  finalize_user_deletion waits for row locks other transactions may
\* take again and again, hence strong fairness for it.
Fairness ==
    /\ WF_vars(CalmDown)
    /\ \A t \in Writers : WF_vars(CommitWrite(t) \/ RollbackWrite(t))
    /\ \A a \in Actors : WF_vars(JobBecomesDue(a))
    /\ \A r \in Reconcilers :
          WF_vars(ListJobs(r) \/ (\E a \in Actors : ResumeJob(r, a)))
    /\ \A w \in Workers : WF_vars(WorkerStep(w)) /\ SF_vars(FinalizeUserDeletion(w))

FairSpec == Spec /\ Fairness

-------------------------------------------------------------------------------
(* Properties *)

\* A tombstone is final (deleted_users): behind it there is no user row, no
\* job, and no row that the identity owns or that names it, whatever writer
\* or worker was in flight when finalize_user_deletion committed.
TombstoneSealed ==
    \A a \in tombstones :
        user[a] = "none" /\ job[a] = "none" /\ a \notin owned \cup referenced

\* Local erasure never precedes the provider's: once a job says
\* external_deleted, a worker is about to finalize, or a tombstone exists, the
\* Logto account is gone (the order _resume_deletion must keep).
ProviderErasedFirst ==
    \A a \in Actors :
        \/ a \in tombstones
        \/ job[a] = "external_deleted"
        \/ \E w \in Workers : target[w] = a /\ pc[w] = "finalize"
        => a \notin logto

\* Success of DELETE /me, or a job counted as completed, means the account is
\* deleted for good, also when the worker only found the job missing.
AckMeansDeleted == acked \subseteq tombstones

\* While a write transaction fenced by lock_active_actor is open, no deletion
\* of its actor has been requested: the check made at its start still holds at
\* its commit.
FenceHolds ==
    \A t \in Writers :
        txnActor[t] # NoActor => Admitted(txnActor[t])

\* A user row in status deleting always has a job that can be resumed without
\* the user's token, and a job is never accompanied by an active user row.
DeletionRecoverable ==
    \A a \in Actors : user[a] # "none" => (user[a] = "deleting" <=> job[a] # "none")

\* What makes the properties above inductive: a worker or a reconciler's list
\* only names identities whose deletion was requested; from mark_external on the
\* provider account is gone; rows keep the user rows they point to.
WorkersServeRequests ==
    \A w \in Workers :
        /\ pc[w] # "idle" => target[w] \in Actors
        /\ \A a \in batch[w] \cup {target[w]} :
              a \in Actors => job[a] # "none" \/ a \in tombstones
        /\ pc[w] \in {"mark_external", "finalize"} => target[w] \notin logto

RowsHaveUsers ==
    /\ \A a \in owned \cup referenced : user[a] # "none"
    /\ \A t \in Writers : \A b \in txnRefs[t] : user[b] # "none"

ErasedAtProvider ==
    \A a \in Actors : job[a] = "external_deleted" \/ a \in tombstones => a \notin logto

DueJobs == \A a \in due : job[a] # "none"

IInv ==
    /\ TypeOK
    /\ TombstoneSealed
    /\ ErasedAtProvider
    /\ AckMeansDeleted
    /\ FenceHolds
    /\ DeletionRecoverable
    /\ WorkersServeRequests
    /\ RowsHaveUsers
    /\ DueJobs

\* The accounts as their users see them (see AccountLifecycle).
accountStatus ==
    [a \in Actors |-> IF a \in tombstones THEN "deleted"
                      ELSE IF job[a] # "none" THEN "deleting" ELSE "open"]

Lifecycle == INSTANCE AccountLifecycle
    WITH status <- accountStatus, content <- owned \cup referenced, answered <- acked

\* Every behaviour of jobs, locks, workers and failures is one of the abstract
\* account lifecycle.
ImplementsLifecycle == Lifecycle!Spec

\* Once failures end, a requested deletion is carried through by the
\* reconcilers even if the request that started it died.
DeletionCompletes == \A a \in Actors : job[a] # "none" ~> a \in tombstones
===============================================================================
