# LALA: TLA+ models and proofs

This directory holds TLA+ models of the LALA backend (`src/apps/api`), the TLC
configurations that check them on small instances, and proofs, checked by TLAPS,
of the properties that matter most for every instance. Paths below are relative
to `src/`; "core" abbreviates `apps/api/app`.

## 1. The system

LALA is a travel application: a FastAPI backend on PostgreSQL, a Flutter client,
and batch jobs that collect public data. Several API processes run at once and
share nothing but the database, so whatever must hold across requests is kept by
rows, unique constraints, row locks and advisory locks. The processes hear of
each other's chat messages through `LISTEN`/`NOTIFY`.

### Components

| Component | State it keeps | Operations | Talks to |
|---|---|---|---|
| Account lifecycle and deletion (`core/services/identity_*.py`, `logto_management.py`) | `identity.users`, `deletion_jobs`, `deleted_users`; the Logto account | `provision_user`, `lock_active_actor`, `DELETE /me`, `reconcile_deletions` | every write transaction of the community calls `lock_active_actor`; Logto's management API |
| Chat delivery (`core/services/community_chat_realtime.py`, `core/routers/community_chat.py`, `core/services/community_chat_service.py`) | rooms, memberships, messages, tickets (database); sockets, locks, recent ids, pending broadcasts (memory, per process) | issue and claim a ticket, handshake, post over REST or WebSocket, replay by idempotency key, broadcast | account lifecycle (access is checked per message); fanout bridge |
| Chat fanout bridge (`core/services/community_chat_fanout.py`) | the current listener generation, its thread, stop event and connection; delivery slots | `start`, `stop`, the listen loop, `handle_notification` | PostgreSQL notifications; hands deliveries to chat delivery's event loop |
| Paid generation control (`core/services/paid_cost_control.py`) | `ops.api_paid_budgets`, `api_paid_generations`; session advisory locks | `run_paid_generation`, `enforce_db_window` | docent, planner and speech services call it around each provider call; database pool |
| Database pool (`core/core/database.py`) | a semaphore and the idle connections of each process | `connect_db`, `close`, `discard` | everything that queries |
| Review collection and governance (`core/tools/run_naver_review_collect.py`, `core/services/review_ingest_governance.py`, `review_mention_ingest.py`, `naver_search_service.py`) | the registration of the source, receipts, quarantine, weekly counts per place (database) | register a source; a job: gate and window, searches, one governed write transaction, a printed result | collector checkpoints (plans in, results out) |
| Collector checkpoints (`core/services/collector_checkpoint.py`) | one local state file with an entry per region, and its lock file | bridge a printed result into an entry, chain pages, merge under the lock, plan the next job | review collection |
| Local signals and community posts (`core/services/local_signals_service.py`, `community_service.py`, `community_idempotency.py`) | signals with a status, comments, reports, posts, idempotency keys | draft, edit, submit, delete, comment, report, post, each under a key | account fence; moderators (no code here) |
| Travel preferences (Flutter `features/preferences/`, `core/services/travel_preferences_repository.py`) | a document on the device, one per account with a revision | load, edit, clear, connect, adopt, choose a side of a conflict, upload | sign-in of the app; API |
| Plans and trips (`core/services/planning_repository.py`) | plans, overrides with a revision, visits | single statements | account fence |
| Retrieval index (`core/services/rag_index.py`, `core/tools/run_rag_index.py`) | `rag.knowledge_chunks`: a text, its digest, its embedding and a generation per chunk | `--apply` reads, embeds and upserts; `--reindex --apply` embeds again in bounded batches | source tables; searches read it |
| Flutter app (session, live chat, docent player, trip library) | client state machines | UI events, API answers | API |
| Authentication, API shell, secrets, places, planner, search, weather, ingest, tools, generated clients, deployment | configuration, or nothing between two calls | read-only or sequential | |

`PROJECT.json` lists all of them with their files and what is done about each.

### What is hard here

* **Deletion is a saga.** Marking the account, deleting it at Logto, recording
  that, and erasing local rows are four transactions or calls. Any may fail, or
  succeed with its answer lost. Reconcilers resume jobs without the user's token
  while request threads work on the same ones, while the user still writes, and
  while other users' transactions insert rows that name the account.
* **Chat authority is checked at a moment and used later.** A socket is admitted
  once and lives long. Each broadcast verifies all its recipients in one query
  and then awaits every send. The same message arrives locally, by notification
  and by replay, in any order.
* **A thread outlives its registration.** `stop` gives up waiting, the thread
  exits later, `start` is called by every connecting client.
* **Advisory locks live in sessions, sessions live in a pool, leases live in rows
  with a clock.** A paid call may outlast its lease, its session or its process.
* **Client and server edit one document apart.** The preference store answers at
  once and works later: storage calls in a queue, remote calls answered after the
  account, the document or the user's mind has changed.
* **A printed result is a file.** The collector's plan is read from a local state
  file, run by hand later, and its result is exported later still: late, twice,
  out of order, by two processes, or never. A chain of such results is turned
  into the claim that a whole region was collected.
* **Jobs overlap because nothing keeps them apart.** A reindex selects texts in one
  transaction and writes their embeddings in another, while an upsert, another
  reindex or a deployment with new settings changes what it selected.
* **A retry must be told what happened.** A write whose reply was lost is sent
  again when its key may be claimed by a running handler, expired, or taken by
  another request, and when the row it changed has moved on.

The full list, line by line, is under `hazards` in `PROJECT.json`.

### What makes each component correct

* Deletion: a tombstone is final; the provider goes first; success is answered
  only for deleted accounts; a requested deletion is eventually completed.
* Chat: nobody receives a message committed after they lost access; no copy twice
  within the deduplication window; broadcasts are counted right, end, and give their
  places back.
* Bridge: one listener; no silent death; no connection without its thread; slots
  neither leak nor double; a stop takes effect, also on messages whose fetch is under
  way, and the bridge can serve again.
* Paid calls: one owner per key, leases of working owners untouched, concurrency
  and budgets bounded, fresh answers not paid for again, no lock leaks through
  the pool.
* Collection: a receipt resolves to the licence its post was acquired under;
  receipts and counts stay together, however jobs overlap, fail and run again.
* Checkpoints: a region is only called complete when every place of it was
  collected cleanly within the time the entry claims; no export takes evidence
  back; a replay changes nothing.
* Keyed writes: one effect per living key; replies are true; nothing the content
  policy rejects is stored.
* Retrieval index: a chunk that counts as fresh has the embedding of its own text by
  the serving settings; a reindex that reports completion is complete; repeated
  reindexes finish.
* Preferences: the newest edit stays on the device; the store is paired with its
  own account; no document is replaced by a device that had not seen it; the
  store does not get stuck.

## 2. Modules

| Module | Models | Used by |
|---|---|---|
| `AccountLifecycle` | what deletion promises a user: open, deleting, deleted, and no way back | instantiated by `AccountDeletion` |
| `AccountDeletion` | provisioning, fenced write transactions, `DELETE /me`, jobs, reconcilers, Logto | `MCAccountDeletion`, `AccountDeletion_proofs` |
| `FanoutBridge` | listener generations, `start`/`stop`, the listen loop, delivery slots | `MCFanoutBridge`, `FanoutBridge_proofs` |
| `ChatDelivery` | tickets, handshake, registry, messages, notifications, broadcasts | `MCChatDelivery`, `ChatDelivery_proofs` |
| `PaidGeneration` | session locks, leases, budgets, answers, the connection pool | `MCPaidGeneration`, `PaidGeneration_proofs` |
| `RegionCatalog` | regions, places, cursors, and the window a query selects | `ReviewIngest`, `CollectorCheckpoint` |
| `ReviewIngest` | registration, the three phases of a collection job, receipts, weekly counts | `CollectorSweep`, `MCReviewIngest` |
| `CollectorCheckpoint` | bridging, lineage, locked merge and publication of the state file, the planner | `CollectorSweep` |
| `CollectorSweep` | composition: plan, job, printed result, export, next plan | `MCCollectorSweep`, `CollectorSweep_proofs` |
| `AtomicWrites` | what keyed writes promise: a request takes effect or is refused at one moment | instantiated by `CommunityWrites` |
| `CommunityWrites` | the keyed writes of local signals and posts | `MCCommunityWrites`, `CommunityWrites_proofs` |
| `PreferenceSync` | the preference store, its storage queue, its account calls, the server | `MCPreferenceSync`, `PreferenceSync_proofs` |
| `RagIndex` | the retrieval index, upserting and reindexing runs | `MCRagIndex`, `RagIndex_proofs` |

`MC*` modules only add symmetry and values of function constants; the `.cfg` files give the constants. Definitions
marked "mutant" in a comment are wrong variants of the definition that follows
them: with the variant in its place the named property fails, which shows that
the property depends on that piece of code.

### AccountDeletion

State and code. `user`, `job`, `due`, `tombstones` are the three identity tables
(`due`: `next_attempt_at` has passed). `owned` and `referenced` abstract every
other table: whether some row belongs to an account, or was written by another
account and names it. `logto` is the provider. A writer's transaction is the pair
`txnActor` (the advisory lock `lock_active_actor` holds to the end of the
transaction) and `txnRefs` (users rows it locks `FOR KEY SHARE` through foreign
keys). A worker (`Requests`: threads of `DELETE /me`; `Reconcilers`) goes through
`_resume_deletion`: `ReadPhase`, `DeleteProviderAccount`, `MarkExternalDeleted`,
`FinalizeUserDeletion`, each a transaction or call of its own. `ProceedTo` lets
each succeed with its answer lost, `StepFails` lets it fail without effect,
`RecordDeletionFailure` may itself fail and be suppressed, `Crash` stops a worker
anywhere.

Decisions. Short transactions under the advisory lock are one step, guarded by
the lock being free; only writers hold it across steps. The four requests of
`delete_user` are one step, because only the last one changes anything another
step depends on. `RollbackWrite` stands for refusals, timeouts and lost
connections.

`ImplementsLifecycle` is the refinement: status "deleted" is a tombstone,
"deleting" a job, content is `owned \cup referenced`.

### FanoutBridge

State and code. `generation` is `_generation`; for each generation `stop` is its
event, `pc` the place of its thread between `thread.start()` and death ("exit":
left the loop, "terminated": event set, "dead": `is_alive()` is false). `start`
and the two locked blocks of `stop` are single steps, as `_lifecycle_lock` makes
them; the wait of `stop` between them may time out at any time. The thread takes
no lock, so each of its reads of shared state is a step. `free` and `queued` are
the semaphore and the coroutines on the event loop. `late` is history: the deliveries
a generation scheduled since its stop event was set. The check at schedule time
(`Admit`), the slot and the scheduling are steps of their own, so one delivery admitted
before the stop may still be scheduled; `StoppedSchedulesOnce` says that no second
one is, whatever the thread had in hand.

Decisions. An identity in `Generations` is used again once nothing refers to it,
so three of them stand for any sequence of starts. The event loop of the server
is open as long as the bridge is used. `cancel()` on the connection only makes
`ConnectionFails` more likely, which may happen anyway.

### ChatDelivery

State and code. One room. `access` joins account status and room access (the two
SQL conditions every query of the service repeats). `rooms`, `recent`, `task`,
`pending` are `ConnectionManager`'s `_rooms`, `_recent_ids`, the running
`broadcast` coroutines and `_pending_broadcasts`; `sending` is the per-connection
lock. `barred`, `forgotten` and `copies` are history used by the
properties only (`copies` also bounds `ReplayMessage`). `CheckCaps` looks at the
caps of an account and of the room, on the process of the socket.

Decisions. A step is what runs between two awaits of one process; database
transactions are atomic. `accept()` is treated as an await that may suspend, so
caps may be overshot by concurrent handshakes (the ASGI server may or may not
suspend there). An evicting close may time out and leave the socket open; the
model lets a denied recipient's close run without the connection's lock, which
allows more behaviours than the code. `Connect` to "gone" is the handler dying
in `ensure_fanout_bridge` with its socket registered. The bridge appears as
`ListenerUp`, `ListenerDown`, `FanoutBroadcast` and `DropNotice`: any
notification may be lost while it is down or out of slots, which is all
`FanoutBridge` promises.

Bounds named in the module: `Tickets` are the tickets not yet used at one time (the
identity of a used one names the next); `Sockets` and `Messages` are used once each;
a message is not replayed after a socket got it twice; a forgotten message is not
broadcast again before its first broadcast has ended.

### PaidGeneration

State and code. `holder` is the session-level advisory lock of a key, `row` and
`expired` are `ops.api_paid_generations`, `spent` the budgets of today. A caller
goes through `_generation_connection` and `_run_db`: `Borrow`, `TryLock` or
`LockTaken`, the transaction at "prepare" (`CachedAnswer`, `Charge`,
`PrepareRefused`), the provider call, `Store` or `Drop`, `Release`. `lease`,
`free` and `pooled` are the pool; psycopg2 is opened with a minimum of one
connection and keeps at most that many idle, so `pooled` holds at most one.

Decisions. The transaction at "prepare" is one step: it runs under the global
advisory lock, so two of them never overlap; what another owner's `Store` or
`Drop` does in between can only lower its count. The lock that its cleanup tries
on expired keys makes other callers fail to lock, which `LockTaken` allows for
every expired key. A session that its client gave up (discarded, or left by a
dead process) keeps its locks until `SessionEnds`; a session that ends under its
client (`broken`) makes every later statement of that client fail. An answer lost
after the commit ends the session (`ChargeUnacknowledged`, `Store`). A caller
whose session broke still runs its provider call and is not counted as an owner:
it cannot write any more, and two provider calls for one key are then possible,
as the code accepts. The actor and the cost of a call matter in one step only and
are chosen there.

### RegionCatalog, ReviewIngest

State and code. `source` is the licence class in the row of `ingest.review_sources`
(it stands for the whole identity that `_identity_mismatch` compares), `run` is the
licence in the week's row of `community.ingest_runs`, which
`_create_or_resume_ingest_run` writes once and never updates, `receipts` is
`ingest.review_ingest_receipts`, `weekly` is `community.place_mentions_weekly`. A job
goes through the phases of `_run_apply`: `Acquire` (gate and window on a connection
that is closed, then the searches), `Recheck` (the gate again, and
`classify_review_records`), `Commit` (the run row, the receipts, the counts). A
receipt's own columns hold no licence: it refers to its run row. Its fields `licence`
(what its post was acquired under) and `before` (the posts receipted before it), and
`relicensed` (a licence was changed that the run row, or a job in its write
transaction, had read), are history.

Decisions. A place is a positive integer, in the order of `place_id`; the region
predicate is the function `RegionOf`. The searches of a window touch nothing
shared, so gate, window and searches are one step that chooses each place's
outcome: both searches answered, one failed, both failed, refused at once, refused
after an answer. The budget is chosen per job, as the count of places it reaches.
The gate of the write transaction takes no lock, so `Register` may come between
`Recheck` and `Commit`; the upsert of the weekly run row right after it makes jobs
of one week commit one after the other, so the rest is one step. All posts are of
one week. `GiveUp` is a refused gate, a rolled back transaction or a dead process; it
may come at any time, which covers a source that is paused.

### CollectorCheckpoint, CollectorSweep

State and code. `file` is the state file, an entry per region; `results` are the
printed payloads of committed jobs; `lock` is the O_EXCL lock file; a writer holds
the document it will publish. `Bridged` is `build_region_checkpoint`, `Chained`
is `_apply_sweep_lineage`, `Accepted` and `Merged` are the merge of
`update_checkpoint_state`, `Loadable` what `load_checkpoint_snapshot` demands
before a document is renamed into place. `Plannable` is the planner, for one
region. `evidence` is history: the observation times at which a place was
collected cleanly.

Decisions. Times are numbers given out when a job commits; the clock of the code
is assumed not to go back and to differ between commits (the code rejects
conflicting results of one time). Reading the state and merging into it is one
step, because the lock file is there before and no cooperating process reads
without it; the rename is a second one, removing the lock a third, and a process
may die before each. A stale lock is removed by an operator only
(`RemoveStaleLock`). `--schedule` plans regions one at a time here. Requests used,
empty-scope wording and file permissions are data the merge carries. The reset of
a recorded stop is an operator's edit of the file and is not modelled. One run of
`CollectorSweep` starts from a state file of the older contract.

### CommunityWrites

State and code. `signals` is `community.local_signals`, `keys` is
`community.idempotency_keys` (`expired`: its 24 hours have passed), a handler's
`claimed` and `seen` are what its open transaction found: whether the claim
inserted its key row, and the signal it authorizes and validates against.
`effects` is history: the requests performed under a key since it last expired.

Decisions. `lock_active_actor` holds the account's lock to the end of the
transaction, so one account has one open transaction, while other accounts and
the moderator run between its start and its end. `Begin` reads the row at the
start; `Matches` is the WHERE clause evaluated at the write. A purge that is
rolled back is undone in the database; it is kept here, because every reader of a
key purges first and no property depends on an expired row. Of the content policy
the comparison of title and disclosure is kept, which is the one that an update
sending only one of the two fields can slip through. A request is repeated by
sending it again; a key is reused by another request with the same slot.

`ImplementsAtomicWrites` is the refinement. `AtomicWrites` knows neither
transactions nor claims nor what was read when: its `Perform` demands
authorization, validity and an unused key in the rows as they are at the moment of
the effect, and its `Reject` a reason as things are at the moment of the refusal.
What a request does and when it may are constant operators there, given by
`Slot`, `Authorized`, `Permitted`, `Written` and `Moderated` here. The mapping
answers a handler "rejected" as soon as its open transaction has read a reason to
refuse (`Doomed`): that is the moment at which the refusal is true.

### PreferenceSync

State and code. `local` holds `_value`, `_hasLocalDocument`,
`_localDocumentUserOwned` and `_loaded`; `link` holds `_remote`, `_serverDocument`,
`_syncStatus` and `_syncEpoch`; `gen` holds `_localWriteGeneration` and
`_clearGeneration`; `queue` is `_storageTail`, a section per mutation with the
values its fences compare; `calls` are the gets and puts not yet answered;
`stored` is the document in SharedPreferences; `server` is
`profile.user_travel_preferences`.

Decisions. A step is what runs between two awaits. A section that passes its fence
is suspended once in the platform call, during which anything else may happen;
`Torn` is what the platform may hold after a call that was not acknowledged or a
kill of the app. The load's section reads and applies without suspending. Two gates
of the application are part of the model because the store relies on them: an
account is connected only when none is (`_onAuthStateChanged`), and the pages run
one account action at a time (`PageFree`). In the code the busy flag belongs to an
instance of a page, and the conflict page has one of its own; the model has one gate
for all of them. `Lose` is a lost request, a lost answer
or the client's timeout, before or after the server acted. `edit` is history: the
user's newest edit, until a choice of the account's document, a clear, a failed
write or a kill in mid-write takes it back.

### RagIndex

State and code. A text is a version number of what a source row says; `index` has
for each chunk its text and digest, the text its embedding was made of, the
settings it was made by, and `embedding_generation`. An upserting run reads its
sources one query after another (`FetchChunk`), embeds everything, and writes it in
one transaction (`UpsertChunks`) that leaves `embedding_generation` as it is, 0 for a
new chunk. A reindexing run goes round `SelectStale` (a transaction),
`ReembedBatch` (another), until a batch is short or the run's cap is used up, and then
looks whether something is left (`Probe`). Runs of both kinds may fail or die at any
step. `fallen` and `overlapped` are history.

Decisions. A generation stands for all settings of its time, so a run started with
the old ones keeps them. Of chunks with equal generations any may be selected (the
code goes on by age and key). `embedding IS NULL` never holds, since both writers
set it. A digest is the version it was computed of. Rows are never deleted by these
jobs.

## 3. Runs

| Run | Bounds | Shows |
|---|---|---|
| `deletion` | 2 accounts, 1 request, 1 reconciler, 2 writers, LIMIT 1 | the safety properties and the refinement, with every failure and crash; a requested deletion completes once failures end |
| `bridge_safety` | 3 generations, 2 stoppers, 2 slots, batches of 2 | one listener, connections owned, no silent death, slots conserved, at most one delivery scheduled after a stop; a stop takes effect, and the bridge serves again once stops cease |
| `bridge_stale` (violated) | 2 generations | finding 1 |
| `chat_delivery` | 1 process, 2 actors, 1 socket, 2 messages, window 1 | revocation, deduplication |
| `chat_ends` | 1 process, 1 actor, 2 sockets for 1 place in the room, 2 messages for 1 place for broadcasts | broadcasts counted right, also when one is refused; broadcasts end |
| `paid_safety` | 2 callers on any of 2 processes, 2 keys, 4 sessions, 1 place, pools of 2 | single flight, fencing, bound, budget, pool |
| `collector_sweep` | a region of 3 places (one skipped for its name) and an empty one, windows of 2, 2 jobs, 2 exporting processes, 3 committed results, 2 posts of one place, 2 licences | credit is earned, evidence kept, replays are no-ops, licences resolve, receipts and counts stay together |
| `collector_names` (violated) | 2 places of one name, 1 job at a time | finding 2 |
| `writes_keys` | an author (6 requests, 2 keys) and a reader (2 requests), 2 handlers, 1 signal, 1 expiry | one effect per key, true replies, the policy, and the refinement |
| `preference_sync` | 2 contents, 2 accounts, 2 calls in flight, 3 acts of the user, other devices write revision 1 | own account, newest edit, no blind upload; checking ends |
| `rag_index` | 2 chunks, one of them edited once, 1 upserting and 2 reindexing runs at a time, batches of 2, a run with cap 1 and one with cap 3, 1 change of settings | serial runs keep the index sound, completion means done, reindexing converges |
| `rag_stale` (violated) | 1 chunk, 1 run of each kind | finding 3 |

Why these are enough. Each hazard needs few actors: one account that is deleted
and another that names it; a request and a reconciler on the same job; the stale,
the current and the next generation; a message and the one that pushes it out of
the window; the owner of a lease and the one who would clean it up, plus two
sessions that dead clients left behind. Limits are set to their smallest value
(1, or 2 where two holders must meet), so that they are reached all the time:
LIMIT 1 makes a reconciler leave due jobs behind, Window 1 makes every second
message forget one, Concurrency 1 makes every abandoned lease block. In the sweep
a region needs two windows, so credit takes a chain of two pages, and the third
result is the retry, the late page or the stop that disturbs it; `MaxPages` is not
reached within three results (its error path is covered by the proofs only). In
`writes_keys` two handlers are two devices of the author or the author and the
reader; one expiry lets one key be used a second time. Reports are not among its
requests, to keep the run short: they need a row that is not deleted, where
comments need a published one, and the proofs cover them. In `preference_sync` three
acts are an edit, a switch of account and one more; `Calls` bounds calls in
flight, so a call that would be a third one waits. In `rag_index` one run has a cap
below the batch size, so it is capped while two chunks are stale; the other's is
above it, so it goes on after a full batch and ends at a short or an empty one; and
two runs of different generations can undo each other's work. The chat runs have one
process, since processes share only the database and notifications; the theorems
hold for any number. In `chat_ends` the second message comes while the only place is
taken, and the second handshake while the only place in the room is. Runs may be
started again without bound. The proofs remove the bounds for
most safety properties.

`CHECK_DEADLOCK FALSE` is set where the system may come to rest: all accounts
deleted, all sockets and messages used, a bridge with no identity to reuse, a
sweep at its last result, a traveller whose acts are used up. In `CommunityWrites`,
`PaidGeneration` and `RagIndex` something can always happen and deadlock is checked.

## 4. Fairness

* `AccountDeletion`: reconcilers are started again and again (a scheduled command,
  `docs/operations/backend-api-production-readiness-audit-20260915.md:388`; its
  registration is left to the deployment, so this is the operator's obligation),
  a running worker goes on, open transactions end (statement and
  idle-in-transaction timeouts), time passes, and failures end at some point
  (`CalmDown`): without that no retry can be shown to succeed. Finalizing waits
  for row locks that other transactions may take again and again, so it gets
  strong fairness; PostgreSQL queues lock requests.
* `FanoutBridge`: a listener thread blocks for bounded times only (connect
  timeout, `select` timeout, backoff), the event loop runs scheduled deliveries,
  and clients keep connecting, each calling `start`. Callers of `stop` need not
  finish; that they cease is a premise of `ServesAgain` itself, because stops that
  never cease do keep the bridge down.
* `ChatDelivery`: the event loop runs ready tasks, a query answers or fails, and
  a send that takes longer than `SEND_TIMEOUT_SECONDS` fails. Nothing is assumed
  of clients: `SendArrives` and `HandlerEnds` have no fairness.
* `PreferenceSync`: the platform's storage calls come back, acknowledged or not,
  and every remote call is answered or times out; the event loop then runs what
  waited for it. Nothing is assumed of the user or of other devices.
* `RagIndex`: operators start a reindex again and again (its exit status and `capped`
  tell them to), and selecting, embedding and probing do not fail for ever: strong
  fairness for the first two, since a failed run begins anew. It is assumed of the
  runs together, not of any single one, and nothing is assumed of upserts.

## 5. Proofs

All theorems hold for every value of the constants that satisfies the named
assumption of the module (limits are positive, sets that are counted are finite,
and values like `NoActor` are not members). They are collected in
`*_proofs.tla`, one lemma per group of actions, and rest on one inductive
invariant each.

* `AccountDeletion`. `IInv` adds to the properties that workers and listed jobs
  only name accounts with a job or a tombstone (`WorkersServeRequests`), that
  stored rows have their users row (`RowsHaveUsers`), that the provider account
  is gone from "external_deleted" on (`ErasedAtProvider`) and that due jobs exist.
  `ErasedAtProvider` is what lets a worker that only read the phase finalize.
  Theorems: type correctness, `Tombstones`,
  `ProviderFirst`, `Acknowledgement`, `WriteFence`, `Recoverable`, and
  `Refinement`, that every step is a step or a stutter of `AccountLifecycle`.
* `FanoutBridge`. `IInv` is `OneListener`, `ConnectionOwned` and `NoSilentDeath`,
  which support each other, with `StoppersHold` and `LateSpent`. `NoSilentDeath` carries
  the argument that only a stopped generation reaches "exit", which makes forgetting
  it safe. `LateSpent`: a thread that has scheduled a delivery since its stop is
  behind no check that it passed before the stop, and passes none any more
  (`StoppedThreads`). `SlotsConserved` counts the set `Deliveries`, a pair for each
  delivery of a generation on the event loop, and the threads about to schedule one
  (`Reserving`); each step changes one of the two by one element, which the
  library's cardinality theorems account for. Theorems: `SingleListener`,
  `OwnedConnections`, `ListenersPersist`, `SlotsAccounted`, `StoppedThreads`.
* `ChatDelivery`. For revocation: those barred from a message stay revoked and
  are never among its verified recipients (`BarredStayOut`); only stored messages
  travel; a socket takes part only once it has an actor. The count of pending
  broadcasts is proved on top with the library's cardinality theorems. For
  deduplication: while an instance remembers a message, a socket is a target of its
  broadcast, or is being sent it, or was sent it once, and only one of these
  (`HandedOnce`); broadcasts address sockets of their own instance, and what was
  neither remembered nor forgotten was never begun (`DedupInv`). That the window
  holds no id twice is part of the type invariant. Theorems: `TypeCorrect` (the window
  is bounded), `Revocation`, `PendingCount`, `Deduplication`.
* `PaidGeneration`. `IInv` says that a session has one user (`SessionsOwned`),
  that a working session past the lock step holds its caller's lock and no other
  (`LocksOwned`), that idle sessions hold none (`PooledClean`), and that leased
  rows stay within the bound (`LeasedBound`). Single flight follows from the
  first two; fencing from the lock making an expired lease not removable; the
  bound from fencing, since every key in the provider is leased. Budgets need
  one more fact, found while proving: a row without requests has no units.
  Theorems: `TypeCorrect`, `OneGeneration`, `LeasesFenced`, `BoundedGenerations`,
  `AnswersKept`, `PoolKept`.
* `CollectorSweep`. `IInv` has a part for the jobs (`IngestInv`) and one for the
  state file (`CheckpointInv`). Three facts carry `CreditSound`: a job's page
  settles every place of its window that it moves its cursor over (`JobsEarned`,
  from the lemmas about `Window` and `Advanced`), so a committed result has
  evidence for the places between its two cursors (`ResultsEarned`), so an entry
  with a clean chain has evidence for all places up to its cursor, dated within the
  chain (`FilesEarned`), and a terminal page closes the region. Every qualified
  entry is a result as bridged, up to the chain's fields (`EntryBacked`) and
  results have different times (`ResultsDated`), which gives `ReplaysAreNoOps`.
  `EvidenceIsKept` needs that a document being published supersedes the file as it
  is now (`DocsSupersede`), which holds because only the holder of the lock has one
  (`LockHeld`). For licences: as long as none was changed under them, the run row and
  every job that writes agree with the registration (`LicencesAgree`), and what a job
  has left to write was acquired under the licence it is bound to (`JobsBound`). For
  counts: a receipt names only earlier receipts as before it (`ReceiptsOrdered`), so
  the posts a commit receipts for a place are the newest of that place, and the
  upsert of a name that one place has counts exactly those. Theorems: `TypeCorrect`,
  `CreditIsSound`, `EvidenceIsKept`, `ReplaysAreNoOps`, `LicencesResolve`,
  `CountsStayNewest`.
* `CommunityWrites`. One open transaction per account (`Alone`), and an owner's
  signal is only changed by its owner, or by a moderator once it is no longer a
  draft: what a handler saw of a draft it owns is still there when it writes
  (`Steady`, `Owned`). With that `PolicyHeld` and `OneEffectPerKey` are inductive.
  For the refinement each action is shown to be one abstract action or a stutter:
  opening a transaction rejects a request that is refused for what it read; applying
  the effect performs it, since what was authorized and valid when read still is in
  the row that is written (`CheckedStill`, from `Steady`); an update whose WHERE clause
  misses is rejected in the row of that moment.
  Theorems: `TypeCorrect`, `PolicyAlwaysHeld`, `KeyedOnce`, `RepliesAlwaysTruthful`,
  `Atomicity`.
* `PreferenceSync`. The document a store or a call knows is not newer than the
  account's, and is the account's if their revisions agree (`Linked`, for the link
  and for every call whose epoch is current). For the newest edit (`EditInv`): either it
  has landed and no section left in the queue will replace it (`Landed`), or some
  section saves it, will pass its fence, and has only loads and adoptions behind it
  (`Deciding`). This needs that no queued section carries a generation from the
  future and only the head is under way (`QueueFenced`), and that an answered
  synchronization of the present epoch comes after the load (`SyncAfterLoad`).
  Theorems: `TypeCorrect`, `PairingCorrect`, `UploadsNeverBlind`, `EditsSurvive`.
* `RagIndex`. `RunsInOrder`: a run in progress has some of its cap left, takes no
  more than that, and a short batch is all there is beside what has fallen; so a
  short batch, an empty one or an empty probe ends the work (`CompletionMeansDone`,
  under any overlap). `RunsAlone` and `IndexSound`: as long as nothing overlapped, the
  run is the only one, has the serving settings and finds its batch unchanged
  (`SerialSound`).

Every invariant, action property and refinement that a passing run checks is
stated by a theorem. Only model-checked: the liveness properties
(`DeletionCompletes`, `StopTakesEffect`, `ServesAgain`, `BroadcastsEnd`, `CheckingEnds`,
`ReindexConverges`), which need ENABLED and fairness that the prover does not handle.

## 6. Findings

1. `bridge_stale`. The comment at `core/services/community_chat_fanout.py:62` says a stale
   generation cannot deliver after being replaced. The generation is checked when
   a delivery is scheduled; the event loop may run it after `stop` and `start`.
   It delivers a committed message that the registry deduplicates, so no harm
   follows; the comment promises more than the code.
2. `collector_names`. `core/services/naver_search_service.py:161` (and
   `docs/planning/naver-acquisition-lane-contract.md:66`) says that a post found
   for two places gets independent receipts and aggregates. Receipts are; the
   weekly row is keyed by week, name, provider and category
   (`sql/canonical/030_community_core_tables.sql:56`), so two places of one name
   overwrite each other's count, and the receipts keep the lost count from ever
   being made again. The same upsert replaces the count of an earlier run of the
   week by that of the posts that were new to the later run.
3. `rag_stale`. `reindex_stale_chunks` (`core/services/rag_index.py:644`) updates by key
   what it selected in an earlier transaction. An upsert that commits in between
   keeps its text but is given the embedding and digest of the former text and the
   serving generation, and nothing embeds it again until the source changes or the
   generation does. The comment at line 506 says that a changed text is embedded
   again by the upsert, "which stamps the serving generation" (its statement does
   not name that column), and the plan
   (`docs/planning/cleanroom-rag-docent-reimplementation-plan.md:292`) counts a changed
   digest as stale, which `is_chunk_stale` does not. An UPDATE that also
   compares the digest selected would close the gap. Two runs of different
   settings that overlap break it in the same way.

Three known limits are not findings but the exact statement of a property.

* `SentOnce`: the chat's window of recent ids drops the second copy of a message only
  while the id is in the window; `docs/devlogs/2026-09-05-p7-durable-chat-controls.md:112` says "never"
  without that condition.
* `LicenceResolves` holds until a licence is changed that a write of the week had
  read. After that it does not: `_create_or_resume_ingest_run`
  (`core/services/review_ingest_governance.py:1127`) resumes the week's run row and
  updates only `received_count`, so posts acquired and receipted under the new licence
  refer to a row with the former one until the next week begins. It is not a
  finding because no doc, comment or test speaks of a registration that changes
  within a week. Writing the licence into the run key, or into the receipt, would
  make the property hold without its premise.
* `StoppedSchedulesOnce` allows one delivery, since the stop event may be set between
  the check of `_schedule_deliver` and its scheduling.

`CountsNewest` is what the weekly upsert does keep of the atomicity that
`docs/planning/naver-acquisition-lane-contract.md:156` demands (a failure between
receipts and counts leaves neither, a run without failure both); that it is a count
of the newest posts and not of the week's is the last sentence of finding 2.

## 7. Not modelled

Inside the modelled components: room creation, listing and history paging; frame
validation and rate limiting of the chat socket; `_run_memory`, the one-process
variant used without a database; `enforce_db_window`, one guarded upsert; the
registry of pools by DSN and `close_database_pools`; a delivery queue whose event
loop is closed under it. In the collector: the text rules that classify one post,
the quarantine's rows, the attribute batch, the AI classifier, the retrieval
hand-off, an operator's reset of a recorded stop, and clocks that go back. Of local
signals and posts: reactions, saves, likes and follows (single statements without
a key, so a toggle sent again after a lost reply flips back), listings,
translations and aggregates; a PATCH without a key header, whose key is derived
from path and body (`core/routers/local_signals.py:77`), so that an edit back to an
earlier text within 24 hours replays the earlier reply. Of preferences: the
fields of a document (a content is a value), and a put whose token is resolved after
the account was switched.

Of the retrieval index: how texts and embeddings are made, blank bodies, sources that
are removed (their chunks stay), and an explicit `--embedding-method` or
`--embedding-generation`.

Plans and trips: the override of a plan is the same compare-and-set on a revision
as preferences; the rest are single upserts.

Other components, for lack of state or reach: scoring and planning formulas over
floating-point numbers; prompts, searches of the index and weather mapping; token validation;
configuration, secrets, generated clients, deployment; widgets. Sequential batch
ingest fails as a whole and is run again. The remaining stateful ones are in the
plan.

## 8. Plan

Done, in order of importance: deletion with its abstract lifecycle, the bridge,
chat delivery, paid calls with the pool, the collector's jobs and checkpoints with
their composition, keyed writes, preference synchronisation, the retrieval
index. Open:

1. Compositions: `FanoutBridge` and `ChatDelivery` joined through the notification
   channel, to show that the abstraction of the bridge in `ChatDelivery` is what
   the bridge implements; `AccountDeletion` as the source of `Revoke` and of the
   refusals in `CommunityWrites`.
2. Abstract specifications with a refinement proof, as `AccountLifecycle` and
   `AtomicWrites` have: a cache with single flight that `PaidGeneration` implements,
   a register with one writer at a time that `PreferenceSync` implements, a chat
   room whose members receive what was posted while they were members.
3. Flutter: the store of the trip library, the live chat's reconnection, the docent
   player's commands against late provider answers.
4. `review_attribute_batch.py`: batches resumed by content hash against rows that
   the collector rewrites meanwhile.

Bounds for new runs: two actors of each kind, two items, limits of one or two, one
failure of each kind, as above.
