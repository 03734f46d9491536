------------------------ MODULE AccountDeletion_proofs ------------------------
(***************************************************************************)
(* Proofs about AccountDeletion for any number of accounts, request        *)
(* threads, reconcilers and writers: its inductive invariant, the safety   *)
(* properties that follow from it, and that it implements AccountLifecycle. *)
(***************************************************************************)
EXTENDS AccountDeletion, TLAPS

\* The initial state satisfies the inductive invariant.
LEMMA InitInv == Init => IInv
<1> SUFFICES ASSUME Init PROVE IInv
  OBVIOUS
<1>1. TypeOK
  BY DEF Init, TypeOK, Steps, JobPhases
<1>2. TombstoneSealed /\ ErasedAtProvider /\ AckMeansDeleted /\ DueJobs
  BY DEF Init, TombstoneSealed, ErasedAtProvider, AckMeansDeleted, DueJobs
<1>3. FenceHolds /\ RowsHaveUsers /\ DeletionRecoverable
  BY DEF Init, FenceHolds, RowsHaveUsers, DeletionRecoverable
<1>4. WorkersServeRequests
  BY DeletionAssumption DEF Init, WorkersServeRequests
<1> QED
  BY <1>1, <1>2, <1>3, <1>4 DEF IInv

\* Every action preserves it.
LEMMA StepInv == IInv /\ [Next]_vars => IInv'
<1> SUFFICES ASSUME IInv, [Next]_vars PROVE IInv'
  OBVIOUS
<1> USE DeletionAssumption DEF IInv, TypeOK, TombstoneSealed, ErasedAtProvider,
        AckMeansDeleted, FenceHolds, DeletionRecoverable, WorkersServeRequests,
        RowsHaveUsers, DueJobs, JobPhases, Steps, Admitted,
        dbVars, txnVars, workerVars
<1>1. ASSUME NEW a \in Actors, ProvisionUser(a) PROVE IInv'
  BY <1>1 DEF ProvisionUser, IdentityLockFree
<1>2. ASSUME NEW a \in Actors, JobBecomesDue(a) PROVE IInv'
  BY <1>2 DEF JobBecomesDue
<1>3. ASSUME NEW t \in Writers, NEW a \in Actors, BeginWrite(t, a) PROVE IInv'
  BY <1>3 DEF BeginWrite
<1>4. ASSUME NEW t \in Writers, NEW b \in Actors, ReferenceUser(t, b) PROVE IInv'
  BY <1>4 DEF ReferenceUser
<1>5. ASSUME NEW t \in Writers, CommitWrite(t) PROVE IInv'
  BY <1>5 DEF CommitWrite, EndWrite
<1>6. ASSUME NEW t \in Writers, RollbackWrite(t) PROVE IInv'
  BY <1>6 DEF RollbackWrite, EndWrite
<1>7. ASSUME NEW q \in Requests, NEW a \in Actors, RequestDeletion(q, a) PROVE IInv'
  BY <1>7 DEF RequestDeletion, IdentityLockFree, Workers
<1>8. ASSUME NEW r \in Reconcilers, ListJobs(r) PROVE IInv'
  BY <1>8 DEF ListJobs, Workers
<1>9. ASSUME NEW r \in Reconcilers, NEW a \in Actors, ResumeJob(r, a) PROVE IInv'
  BY <1>9 DEF ResumeJob, Workers
<1>10. ASSUME NEW w \in Workers, ReadPhase(w) PROVE IInv'
  BY <1>10 DEF ReadPhase, ProceedTo, Leave
<1>11. ASSUME NEW w \in Workers, DeleteProviderAccount(w) PROVE IInv'
  BY <1>11 DEF DeleteProviderAccount, ProceedTo
<1>12. ASSUME NEW w \in Workers, MarkExternalDeleted(w) PROVE IInv'
  BY <1>12 DEF MarkExternalDeleted, ProceedTo
<1>13. ASSUME NEW w \in Workers, FinalizeUserDeletion(w) PROVE IInv'
  BY <1>13 DEF FinalizeUserDeletion, EraseIdentity, Leave, IdentityLockFree, UserRowUnreferenced
<1>14. ASSUME NEW w \in Workers, StepFails(w) PROVE IInv'
  BY <1>14 DEF StepFails
<1>15. ASSUME NEW w \in Workers, RecordDeletionFailure(w) PROVE IInv'
  BY <1>15 DEF RecordDeletionFailure, Leave
<1>16. ASSUME NEW w \in Workers, Crash(w) PROVE IInv'
  BY <1>16 DEF Crash
<1>17. CASE CalmDown
  BY <1>17 DEF CalmDown
<1>18. CASE UNCHANGED vars
  BY <1>18 DEF vars
<1> QED
  BY <1>1, <1>2, <1>3, <1>4, <1>5, <1>6, <1>7, <1>8, <1>9, <1>10, <1>11, <1>12,
     <1>13, <1>14, <1>15, <1>16, <1>17, <1>18 DEF Next, WriterStep, WorkerStep

\* Type correctness and the inductive invariant in every reachable state.
THEOREM TypeCorrect == Spec => [](TypeOK /\ IInv)
<1>1. IInv => TypeOK /\ IInv
  BY DEF IInv
<1> QED
  BY InitInv, StepInv, <1>1, PTL DEF Spec

-------------------------------------------------------------------------------
(* The safety properties *)

\* A tombstone is final: no user row, job or row naming the identity can exist
\* behind it, whatever finalize_user_deletion raced with.
THEOREM Tombstones == Spec => []TombstoneSealed
<1>1. IInv => TombstoneSealed
  BY DEF IInv
<1> QED
  BY TypeCorrect, <1>1, PTL

\* Local data is erased only after the provider's account is gone.
THEOREM ProviderFirst == Spec => []ProviderErasedFirst
<1>1. IInv => ProviderErasedFirst
  BY DEF IInv, ProviderErasedFirst, ErasedAtProvider, WorkersServeRequests
<1> QED
  BY TypeCorrect, <1>1, PTL

\* DELETE /me answers 204, and a reconciler counts a job completed, only for an
\* account that is deleted for good.
THEOREM Acknowledgement == Spec => []AckMeansDeleted
<1>1. IInv => AckMeansDeleted
  BY DEF IInv
<1> QED
  BY TypeCorrect, <1>1, PTL

\* What lock_active_actor checked stays true until the transaction ends.
THEOREM WriteFence == Spec => []FenceHolds
<1>1. IInv => FenceHolds
  BY DEF IInv
<1> QED
  BY TypeCorrect, <1>1, PTL

\* A deleting user row always has its resumable job, and no other row has one.
THEOREM Recoverable == Spec => []DeletionRecoverable
<1>1. IInv => DeletionRecoverable
  BY DEF IInv
<1> QED
  BY TypeCorrect, <1>1, PTL

-------------------------------------------------------------------------------
(* Refinement *)

\* A transaction that commits stores rows of an open account which name only
\* accounts that are not deleted yet.
LEMMA CommitIsWrite ==
    ASSUME IInv, NEW t \in Writers, CommitWrite(t)
    PROVE  Lifecycle!Write(txnActor[t])
<1> DEFINE a == txnActor[t]
<1>1. a \in Actors /\ accountStatus[a] = "open"
  BY DEF IInv, TypeOK, FenceHolds, Admitted, CommitWrite, accountStatus
<1>2. accountStatus' = accountStatus /\ acked' = acked
  BY DEF CommitWrite, accountStatus, workerVars
<1>3. txnRefs[t] \in SUBSET Lifecycle!LiveActors
  <2> SUFFICES ASSUME NEW b \in txnRefs[t] PROVE b \in Actors /\ accountStatus[b] # "deleted"
    BY DEF Lifecycle!LiveActors
  <2>1. b \in Actors /\ user[b] # "none"
    BY DEF IInv, TypeOK, RowsHaveUsers
  <2> QED
    BY <2>1 DEF IInv, TombstoneSealed, accountStatus
<1>4. (owned \cup referenced)' = (owned \cup referenced) \cup {a} \cup txnRefs[t]
  BY DEF CommitWrite
<1> QED
  BY <1>1, <1>2, <1>3, <1>4 DEF Lifecycle!Write

\* finalize_user_deletion completes a requested deletion, or repeats one that
\* somebody else completed.
LEMMA FinalizeIsCompletion ==
    ASSUME IInv, NEW w \in Workers, FinalizeUserDeletion(w)
    PROVE  \/ Lifecycle!CompleteDeletion(target[w])
           \/ Lifecycle!Answer(target[w])
           \/ UNCHANGED Lifecycle!vars
<1> DEFINE a == target[w]
<1>1. a \in Actors /\ (job[a] # "none" \/ a \in tombstones)
  BY DEF IInv, WorkersServeRequests, FinalizeUserDeletion
<1>2. acked' \in {acked, acked \cup {a}}
  BY DEF FinalizeUserDeletion, Leave
<1>3. (owned \cup referenced)' = (owned \cup referenced) \ {a}
  BY DEF FinalizeUserDeletion, EraseIdentity
<1>4. accountStatus' = [accountStatus EXCEPT ![a] = "deleted"]
  BY <1>1 DEF FinalizeUserDeletion, EraseIdentity, accountStatus, IInv, TypeOK
<1>5. CASE a \in tombstones
  <2>1. accountStatus[a] = "deleted" /\ accountStatus' = accountStatus
    BY <1>1, <1>4, <1>5 DEF accountStatus
  <2>2. (owned \cup referenced)' = owned \cup referenced
    BY <1>3, <1>5 DEF IInv, TombstoneSealed
  <2> QED
    BY <1>1, <1>2, <2>1, <2>2 DEF Lifecycle!Answer, Lifecycle!vars
<1>6. CASE a \notin tombstones
  <2>1. accountStatus[a] = "deleting"
    BY <1>1, <1>6 DEF accountStatus
  <2> QED
    BY <1>2, <1>3, <1>4, <2>1 DEF Lifecycle!CompleteDeletion
<1> QED
  BY <1>5, <1>6

\* Every step of the workers, writers and users is an abstract step or none.
LEMMA StepRefines == IInv /\ [Next]_vars => [Lifecycle!Next]_(Lifecycle!vars)
<1> SUFFICES ASSUME IInv, [Next]_vars
             PROVE  Lifecycle!Next \/ UNCHANGED Lifecycle!vars
  OBVIOUS
<1>1. ASSUME NEW t \in Writers, CommitWrite(t) PROVE Lifecycle!Next
  <2>1. txnActor[t] \in Actors
    BY <1>1 DEF CommitWrite, IInv, TypeOK
  <2> QED
    BY <1>1, <2>1, CommitIsWrite DEF Lifecycle!Next
<1>2. ASSUME NEW w \in Workers, FinalizeUserDeletion(w)
      PROVE Lifecycle!Next \/ UNCHANGED Lifecycle!vars
  <2>1. target[w] \in Actors
    BY <1>2 DEF IInv, WorkersServeRequests, FinalizeUserDeletion
  <2> QED
    BY <1>2, <2>1, FinalizeIsCompletion DEF Lifecycle!Next
<1>3. ASSUME NEW q \in Requests, NEW a \in Actors, RequestDeletion(q, a)
      PROVE Lifecycle!Next \/ UNCHANGED Lifecycle!vars
  <2>1. UNCHANGED <<owned \cup referenced, acked, tombstones>>
    BY <1>3 DEF RequestDeletion
  <2>2. CASE a \notin tombstones /\ job[a] = "none"
    <3>1. job' = [job EXCEPT ![a] = "pending_external"]
      BY <1>3, <2>2 DEF RequestDeletion
    <3>2. accountStatus[a] = "open" /\ accountStatus' = [accountStatus EXCEPT ![a] = "deleting"]
      BY <2>1, <2>2, <3>1 DEF accountStatus, IInv, TypeOK
    <3>3. Lifecycle!RequestDeletion(a)
      BY <2>1, <3>2 DEF Lifecycle!RequestDeletion
    <3> QED
      BY <3>3 DEF Lifecycle!Next
  <2>3. CASE ~(a \notin tombstones /\ job[a] = "none")
    BY <1>3, <2>1, <2>3 DEF RequestDeletion, accountStatus, Lifecycle!vars
  <2> QED
    BY <2>2, <2>3
<1>4. ASSUME NEW w \in Workers, ReadPhase(w)
      PROVE Lifecycle!Next \/ UNCHANGED Lifecycle!vars
  <2>1. UNCHANGED <<accountStatus, owned \cup referenced>>
    BY <1>4 DEF ReadPhase, accountStatus, dbVars
  <2>2. CASE job[target[w]] = "none"
    <3>1. target[w] \in tombstones /\ target[w] \in Actors
      BY <1>4, <2>2 DEF ReadPhase, IInv, WorkersServeRequests
    <3>2. Lifecycle!Answer(target[w])
      BY <1>4, <2>1, <2>2, <3>1 DEF ReadPhase, Lifecycle!Answer, accountStatus
    <3> QED
      BY <3>1, <3>2 DEF Lifecycle!Next
  <2>3. CASE job[target[w]] # "none"
    BY <1>4, <2>1, <2>3 DEF ReadPhase, ProceedTo, Lifecycle!vars
  <2> QED
    BY <2>2, <2>3
<1>5. ASSUME NEW w \in Workers, MarkExternalDeleted(w)
      PROVE UNCHANGED Lifecycle!vars
  BY <1>5 DEF MarkExternalDeleted, ProceedTo, IInv, TypeOK, Lifecycle!vars, accountStatus
<1>6. ASSUME NEW w \in Workers,
             DeleteProviderAccount(w) \/ RecordDeletionFailure(w) \/ StepFails(w) \/ Crash(w)
      PROVE UNCHANGED Lifecycle!vars
  BY <1>6 DEF DeleteProviderAccount, ProceedTo, RecordDeletionFailure, StepFails, Crash,
              dbVars, Lifecycle!vars, accountStatus
<1>7. ASSUME NEW a \in Actors, ProvisionUser(a) \/ JobBecomesDue(a)
      PROVE UNCHANGED Lifecycle!vars
  BY <1>7 DEF ProvisionUser, JobBecomesDue, workerVars, Lifecycle!vars, accountStatus
<1>8. ASSUME NEW t \in Writers,
             RollbackWrite(t) \/ (\E a \in Actors : BeginWrite(t, a) \/ ReferenceUser(t, a))
      PROVE UNCHANGED Lifecycle!vars
  BY <1>8 DEF BeginWrite, ReferenceUser, RollbackWrite, dbVars, workerVars,
              Lifecycle!vars, accountStatus
<1>9. ASSUME NEW r \in Reconcilers, ListJobs(r) \/ (\E a \in Actors : ResumeJob(r, a))
      PROVE UNCHANGED Lifecycle!vars
  BY <1>9 DEF ListJobs, ResumeJob, dbVars, Lifecycle!vars, accountStatus
<1>10. CASE CalmDown \/ UNCHANGED vars
  BY <1>10 DEF CalmDown, vars, dbVars, workerVars, Lifecycle!vars, accountStatus
<1> QED
  BY <1>1, <1>2, <1>3, <1>4, <1>5, <1>6, <1>7, <1>8, <1>9, <1>10
  DEF Next, WriterStep, WorkerStep

\* Jobs, locks, workers, failures and crashes implement the abstract lifecycle:
\* accounts only go from open to deleting to deleted, owners write only while
\* open, completion erases, and only completion is answered as success.
THEOREM Refinement == Spec => ImplementsLifecycle
<1>1. Init => Lifecycle!Init
  BY DEF Init, Lifecycle!Init, accountStatus
<1> QED
  BY TypeCorrect, <1>1, StepRefines, PTL DEF Spec, ImplementsLifecycle, Lifecycle!Spec
===============================================================================
