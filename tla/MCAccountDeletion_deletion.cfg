\* Two accounts, a request and a reconciler that race on them, two write transactions;
\* failures may happen at any step until CalmDown, then jobs complete.
SPECIFICATION FairSpec
CONSTANTS
    Actors = {a1, a2}
    Requests = {q1}
    Reconcilers = {r1}
    Writers = {t1, t2}
    Limit = 1
    NoActor = NoActor
INVARIANTS
    TombstoneSealed
    ProviderErasedFirst
    AckMeansDeleted
    FenceHolds
    DeletionRecoverable
PROPERTIES
    ImplementsLifecycle
    DeletionCompletes
CHECK_DEADLOCK FALSE
