--------------------------- MODULE CommunityWrites ---------------------------
(***************************************************************************)
(* The keyed writes of services/local_signals_service.py (drafts, their    *)
(* submission and deletion, comments and reports) and the keyed creation   *)
(* of a post in services/community_service.py.  Each runs in ONE database  *)
(* transaction that takes the account's lock, purges expired idempotency   *)
(* keys, claims the request's key, authorizes, and then either replays the *)
(* stored reply or performs the effect and stores its reply.               *)
(*                                                                         *)
(* A client that lost a reply, or whose handler died, may send the request *)
(* again; it may also reuse a key for another request.  Moderation has no  *)
(* code in the repository: it is an environment that moves a submitted     *)
(* signal on.  Of a signal's text only what the content policy compares is *)
(* kept: whether its title promotes something, and the disclosure.         *)
(* Comments, reports and posts are rows nothing here reads again; that one *)
(* was written is recorded in "effects".  AtomicWrites states what this    *)
(* promises to clients; the refinement is at the end.                      *)
(***************************************************************************)
EXTENDS Naturals, Sequences, Functions

CONSTANTS Actors,      \* accounts
          Signals,     \* identifiers a created signal may take
          Keys,        \* idempotency keys clients send
          Requests,    \* the requests clients may send, repeatedly
          Handlers,    \* request handlers that may run at once
          MaxExpiries  \* bound: how many stored keys outlive their 24 hours

Titles == {"plain", "promo"}
Disclosures == {"none", "declared"}
Operations == {"create_draft", "update_draft", "submit", "delete", "comment", "report", "post"}

AllRequests ==
  [actor : Actors, op : Operations, signal : Signals, key : Keys,
   title : Titles \cup {"keep"}, disclosure : Disclosures \cup {"keep"}]

ASSUME WritesAssumption ==
  /\ Requests \subseteq AllRequests
  /\ \A r \in Requests : r.op = "create_draft" => r.title # "keep" /\ r.disclosure # "keep"
  /\ MaxExpiries \in Nat

VARIABLES signals,   \* community.local_signals
          keys,      \* community.idempotency_keys
          effects,   \* history: what was done under a key since it last expired
          work,      \* the handlers and their open transactions
          expiries   \* how many keys expired so far (bounded)

vars == <<signals, keys, effects, work, expiries>>

\* The columns a key row is unique by: the scope and the operation are part of it.
Slot(r) == <<r.actor, r.op, r.signal, r.key>>
Slots == {Slot(r) : r \in Requests}
Scope(op) == IF op = "post" THEN "posts" ELSE "local_signals"

Statuses == {"absent", "draft", "submitted", "published", "withdrawn", "deleted"}
Absent == [status |-> "absent", owner |-> {}, title |-> "plain", disclosure |-> "none"]
Row == [status : Statuses, owner : SUBSET Actors, title : Titles, disclosure : Disclosures]
Free == [request |-> {}, expired |-> FALSE]
Entry == [request : {{r} : r \in Requests} \cup {{}}, expired : BOOLEAN]
Held(e) == e.request # {}
Idle == [pc |-> "idle", request |-> {}, claimed |-> FALSE, seen |-> Absent]
Replies == {"ok", "rejected", "unavailable"}
Job == [pc : {"idle", "sent", "open"} \cup Replies,
        request : {{r} : r \in Requests} \cup {{}}, claimed : BOOLEAN, seen : Row]

RequestOf(h) == CHOOSE r \in work[h].request : TRUE

-----------------------------------------------------------------------------
\* validate_local_signal_policy, for the pair of fields it compares.
Allowed(title, disclosure) == title = "promo" => disclosure # "none"

Merged(old, new) == IF new = "keep" THEN old ELSE new

\* Mutant: the submission's state is checked before the stored reply is looked up.
AuthorizedIfDraft(r, row) ==
  CASE r.op \in {"update_draft", "submit"} -> row.owner = {r.actor} /\ row.status = "draft"
    [] r.op = "delete" -> row.owner = {r.actor}
    [] r.op = "comment" -> row.status = "published"
    [] OTHER -> TRUE

\* The authorize callbacks: _owned_signal, _require_public_signal, or none.
Authorized(r, row) ==
  CASE r.op \in {"update_draft", "submit", "delete"} -> row.owner = {r.actor}
    [] r.op = "comment" -> row.status = "published"
    [] OTHER -> TRUE

\* What the service checks on the row it read in the transaction.
Valid(r, seen) ==
  CASE r.op = "create_draft" -> Allowed(r.title, r.disclosure)
    [] r.op = "update_draft" ->
         /\ seen.status = "draft"
         /\ Allowed(Merged(seen.title, r.title), Merged(seen.disclosure, r.disclosure))
    [] r.op = "submit" -> seen.status = "draft" /\ Allowed(seen.title, seen.disclosure)
    [] OTHER -> TRUE

\* Mutant: the statements name the row and do not look at its status again.
MatchesById(r, row) == row.status # "absent" \/ r.op \in {"create_draft", "post"}

\* The WHERE clause of the statement that writes.
Matches(r, row) ==
  CASE r.op \in {"update_draft", "submit"} -> row.status = "draft"
    [] r.op = "delete" -> row.status # "deleted"
    [] r.op = "comment" -> row.status = "published"
    [] r.op = "report" -> row.status \notin {"absent", "deleted"}
    [] OTHER -> TRUE

\* A creation under a second key, or after its key expired, makes another row,
\* which is not followed.
Written(r, row) ==
  CASE r.op = "create_draft" /\ row.status = "absent" ->
         [status |-> "draft", owner |-> {r.actor}, title |-> r.title, disclosure |-> r.disclosure]
    [] r.op = "update_draft" ->
         [row EXCEPT !.title = Merged(@, r.title), !.disclosure = Merged(@, r.disclosure)]
    [] r.op = "submit" -> [row EXCEPT !.status = "submitted"]
    [] r.op = "delete" -> [row EXCEPT !.status = "deleted"]
    [] OTHER -> row

\* Mutant: the purge takes every key of the scope, whatever its age.
PurgedAll(op) == [s \in Slots |-> IF Scope(s[2]) = Scope(op) THEN Free ELSE keys[s]]

\* DELETE ... WHERE scope = ... AND expires_at <= now()
Purged(op) ==
  [s \in Slots |-> IF keys[s].expired /\ Scope(s[2]) = Scope(op) THEN Free ELSE keys[s]]

-----------------------------------------------------------------------------
Init ==
  /\ signals = [s \in Signals |-> Absent]
  /\ keys = [s \in Slots |-> Free]
  /\ effects = [s \in Slots |-> << >>]
  /\ work = [h \in Handlers |-> Idle]
  /\ expiries = 0

\* A client sends a request, for the first time or again.
Send(h, r) ==
  /\ work[h].pc = "idle"
  /\ work' = [work EXCEPT ![h] = [Idle EXCEPT !.pc = "sent", !.request = {r}]]
  /\ UNCHANGED <<signals, keys, effects, expiries>>

Open(actor) == \E g \in Handlers : work[g].pc = "open" /\ RequestOf(g).actor = actor

Opened(h, r, purged) ==
  [work EXCEPT ![h].pc = "open",
               ![h].claimed = ~Held(purged[Slot(r)]),
               ![h].seen = signals[r.signal]]

\* Mutant: the transaction starts without the account's lock.
BeginUnlocked(h) ==
  /\ work[h].pc = "sent"
  /\ keys' = Purged(RequestOf(h).op)
  /\ work' = Opened(h, RequestOf(h), keys')
  /\ UNCHANGED <<signals, effects, expiries>>

\* lock_active_actor, the purge, the claim, and the row the authorization and
\* the service read.  The purge shows at once: its rows are expired, and every
\* reader of a key purges first, so a rollback that restores them changes nothing.
Begin(h) ==
  /\ work[h].pc = "sent"
  /\ ~Open(RequestOf(h).actor)
  /\ keys' = Purged(RequestOf(h).op)
  /\ work' = Opened(h, RequestOf(h), keys')
  /\ UNCHANGED <<signals, effects, expiries>>

Reply(h, how) == work' = [work EXCEPT ![h].pc = how, ![h].claimed = FALSE, ![h].seen = Absent]

\* The claim was ours: perform the effect, store the reply, commit.
Apply(h) ==
  /\ work[h].pc = "open" /\ work[h].claimed
  /\ LET r == RequestOf(h) IN
       /\ Authorized(r, work[h].seen)
       /\ Valid(r, work[h].seen)
       /\ Matches(r, signals[r.signal])
       /\ signals' = [signals EXCEPT ![r.signal] = Written(r, @)]
       /\ keys' = [keys EXCEPT ![Slot(r)] = [request |-> {r}, expired |-> FALSE]]
       /\ effects' = [effects EXCEPT ![Slot(r)] = Append(@, r)]
  /\ Reply(h, "ok")
  /\ UNCHANGED expiries

\* A refusal of the authorization, the service or the statement rolls back.
Refuse(h) ==
  /\ work[h].pc = "open"
  /\ LET r == RequestOf(h) IN
       \/ ~Authorized(r, work[h].seen)
       \/ work[h].claimed /\ ~(Valid(r, work[h].seen) /\ Matches(r, signals[r.signal]))
  /\ Reply(h, "rejected")
  /\ UNCHANGED <<signals, keys, effects, expiries>>

\* The key was taken: the stored reply, a conflict, or a key purged meanwhile.
Replay(h) ==
  /\ work[h].pc = "open" /\ ~work[h].claimed
  /\ LET r == RequestOf(h)
         stored == keys[Slot(r)].request IN
       /\ Authorized(r, work[h].seen)
       /\ Reply(h, IF stored = {r} THEN "ok"
                   ELSE IF stored = {} THEN "unavailable" ELSE "rejected")
  /\ UNCHANGED <<signals, keys, effects, expiries>>

\* The handler dies, loses its connection, or is refused by the account's state.
Abort(h) ==
  /\ work[h].pc \in {"sent", "open"}
  /\ work' = [work EXCEPT ![h] = Idle]
  /\ UNCHANGED <<signals, keys, effects, expiries>>

\* The reply reaches the client, or is lost on its way.
Done(h) ==
  /\ work[h].pc \in Replies
  /\ work' = [work EXCEPT ![h] = Idle]
  /\ UNCHANGED <<signals, keys, effects, expiries>>

\* 24 hours pass over a stored key.
Expire(s) ==
  /\ expiries < MaxExpiries
  /\ Held(keys[s]) /\ ~keys[s].expired
  /\ keys' = [keys EXCEPT ![s].expired = TRUE]
  /\ effects' = [effects EXCEPT ![s] = << >>]
  /\ expiries' = expiries + 1
  /\ UNCHANGED <<signals, work>>

\* External: a moderator publishes a submitted signal, or withdraws a public one.
Moderated(row) ==
  CASE row.status = "submitted" -> {[row EXCEPT !.status = "published"]}
    [] row.status = "published" -> {[row EXCEPT !.status = "withdrawn"]}
    [] OTHER -> {}

Moderate(s) ==
  /\ \E row \in Moderated(signals[s]) : signals' = [signals EXCEPT ![s] = row]
  /\ UNCHANGED <<keys, effects, work, expiries>>

Next ==
  \/ \E h \in Handlers :
       \/ \E r \in Requests : Send(h, r)
       \/ Begin(h) \/ Apply(h) \/ Refuse(h) \/ Replay(h) \/ Abort(h) \/ Done(h)
  \/ \E s \in Slots : Expire(s)
  \/ \E s \in Signals : Moderate(s)

Spec == Init /\ [][Next]_vars

-----------------------------------------------------------------------------
\* Every variable holds a value of the shape the code gives it, and a handler has
\* a request exactly while it is not idle.
TypeOK ==
  /\ signals \in [Signals -> Row]
  /\ keys \in [Slots -> Entry]
  /\ effects \in [Slots -> Seq(Requests)]
  /\ work \in [Handlers -> Job]
  /\ \A h \in Handlers : work[h].pc = "idle" <=> work[h].request = {}
  /\ expiries \in 0 .. MaxExpiries

\* validate_local_signal_policy: no stored signal combines fields the policy
\* rejects.  An update sends only some fields and is validated against the others
\* as it read them, so this rests on updates of one account not overlapping.
PolicyHeld == \A s \in Signals : Allowed(signals[s].title, signals[s].disclosure)

\* run_idempotent and create_post_idempotent: while a key lives, what was done under
\* it is exactly the one request its row names, however often, from however many
\* handlers and after whichever crash the request was sent.
OneEffectPerKey ==
  \A s \in Slots :
    IF Held(keys[s]) /\ ~keys[s].expired
      THEN \A r \in keys[s].request : effects[s] = <<r>>
      ELSE effects[s] = << >>

\* run_idempotent: a success is only told of the request that was performed under the
\* key, and a rejection is never told of a request whose effect a living key records.
\* Comments are left out of the second part: their retry is answered "not found" once
\* the signal they were made on is no longer public.
RepliesTruthful ==
  [][\A h \in Handlers :
       work[h].pc = "open" /\ work'[h].pc \in Replies =>
         LET r == RequestOf(h) IN
           /\ work'[h].pc = "ok" => keys'[Slot(r)].request = {r}
           /\ work'[h].pc = "rejected" /\ r.op # "comment" => r \notin Range(effects'[Slot(r)])]_vars

\* The request is authorized, valid and matched, all of it in one row.
Permitted(r, row) == Authorized(r, row) /\ Valid(r, row) /\ Matches(r, row)

\* The requests as their senders see them (see AtomicWrites): what a transaction read
\* when it opened may have decided already that it will refuse.
Doomed(job) ==
  \E r \in job.request :
    ~Authorized(r, job.seen) \/ (job.claimed /\ ~Valid(r, job.seen))

AnswerOf(job) ==
  CASE job.pc = "idle" -> "none"
    [] job.pc = "sent" -> "pending"
    [] job.pc = "open" -> IF Doomed(job) THEN "rejected" ELSE "pending"
    [] OTHER -> job.pc

Atomic == INSTANCE AtomicWrites
  WITH rows <- signals,
       done <- [s \in Slots |-> keys[s].request],
       aged <- {s \in Slots : keys[s].expired},
       request <- [h \in Handlers |-> work[h].request],
       answer <- [h \in Handlers |-> AnswerOf(work[h])]

\* run_idempotent, the account's lock and the two-step read and write of the service:
\* although a handler checks a row it read earlier, and others act in between, every
\* request takes effect or is refused as if all of it happened at one moment.
ImplementsAtomicWrites == Atomic!Spec
=============================================================================
