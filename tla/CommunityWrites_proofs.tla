----------------------- MODULE CommunityWrites_proofs ------------------------
(***************************************************************************)
(* Proofs about CommunityWrites for any accounts, signals, keys, requests  *)
(* and handlers.  Everything rests on one fact: of the handlers of one     *)
(* account at most one has a transaction open, so what it read of the      *)
(* account's signals and keys still stands when it writes.  So a request   *)
(* takes effect or is refused as if at one moment: every step is a step of *)
(* AtomicWrites or a stutter.                                              *)
(***************************************************************************)
EXTENDS CommunityWrites, TLAPS

\* Requests and the handlers' records have the parts the code reads.
LEMMA RequestShapes ==
  ASSUME NEW r \in Requests
  PROVE  /\ r \in AllRequests /\ Slot(r) \in Slots
         /\ r.actor \in Actors /\ r.signal \in Signals /\ r.op \in Operations
         /\ r.title \in Titles \cup {"keep"} /\ r.disclosure \in Disclosures \cup {"keep"}
         /\ r.op = "create_draft" => r.title \in Titles /\ r.disclosure \in Disclosures
<1>1. r \in AllRequests
  BY WritesAssumption
<1>2. /\ r.actor \in Actors /\ r.signal \in Signals /\ r.op \in Operations
      /\ r.title \in Titles \cup {"keep"} /\ r.disclosure \in Disclosures \cup {"keep"}
  BY <1>1 DEF AllRequests
<1>3. Slot(r) \in Slots
  BY DEF Slots
<1> QED
  BY <1>1, <1>2, <1>3, WritesAssumption DEF Titles, Disclosures

\* Slots are told apart by account: a slot names the account of its requests.
LEMMA SlotOfActor ==
  ASSUME NEW q \in Requests, NEW r \in Requests, Slot(q) = Slot(r)
  PROVE  q.actor = r.actor /\ q.op = r.op /\ q.signal = r.signal
BY DEF Slot

\* A handler that is not idle has one request.
LEMMA HandlerShapes ==
  ASSUME TypeOK, NEW h \in Handlers, work[h].pc # "idle"
  PROVE  work[h].request = {RequestOf(h)} /\ RequestOf(h) \in Requests
<1>1. work[h] \in Job /\ work[h].request # {}
  BY DEF TypeOK
<1>2. PICK r \in Requests : work[h].request = {r}
  BY <1>1 DEF Job
<1> QED
  BY <1>2 DEF RequestOf

-------------------------------------------------------------------------------
(* Types *)

\* What is written into a signal, and what a purge leaves, have their shapes.
LEMMA WrittenShapes ==
  ASSUME NEW r \in Requests, NEW row \in Row
  PROVE  Written(r, row) \in Row
BY RequestShapes DEF Written, Row, Merged, Statuses

\* A purge only frees entries.
LEMMA PurgedShapes ==
  ASSUME TypeOK, NEW op
  PROVE  /\ Purged(op) \in [Slots -> Entry]
         /\ \A s \in Slots : \/ Purged(op)[s] = keys[s]
                             \/ keys[s].expired /\ Purged(op)[s] = Free
<1>1. Free \in Entry
  BY DEF Free, Entry
<1> QED
  BY <1>1 DEF TypeOK, Purged

\* Handlers that move on keep the shape of the handlers' records.
LEMMA JobShapes ==
  ASSUME TypeOK, NEW h \in Handlers, NEW j \in Job, j.pc = "idle" <=> j.request = {},
         work' = [work EXCEPT ![h] = j]
  PROVE  work' \in [Handlers -> Job] /\ \A g \in Handlers : work'[g].pc = "idle" <=> work'[g].request = {}
BY DEF TypeOK

\* Every action keeps the types.
LEMMA StepTyped == TypeOK /\ [Next]_vars => TypeOK'
<1> SUFFICES ASSUME TypeOK, [Next]_vars PROVE TypeOK'
  OBVIOUS
<1>1. Absent \in Row /\ Free \in Entry /\ Idle \in Job
  BY DEF Absent, Row, Statuses, Titles, Disclosures, Free, Entry, Idle, Job
<1>2. ASSUME NEW h \in Handlers, NEW r \in Requests, Send(h, r) PROVE TypeOK'
  <2>1. [Idle EXCEPT !.pc = "sent", !.request = {r}] \in Job
    BY <1>1 DEF Job, Idle
  <2> QED
    BY <1>2, <2>1, JobShapes DEF Send, TypeOK, Idle
<1>3. ASSUME NEW h \in Handlers, Begin(h) PROVE TypeOK'
  <2>1. work[h] \in Job /\ RequestOf(h) \in Requests
    BY <1>3, HandlerShapes DEF Begin, TypeOK
  <2>2. signals[RequestOf(h).signal] \in Row
    BY <2>1, RequestShapes DEF TypeOK
  <2> DEFINE j == [work[h] EXCEPT !.pc = "open", !.claimed = ~Held(keys'[Slot(RequestOf(h))]),
                                  !.seen = signals[RequestOf(h).signal]]
  <2>3. j \in Job /\ j.pc # "idle" /\ j.request # {}
    BY <1>3, <2>1, <2>2 DEF Job, Begin, TypeOK
  <2>4. work' = [work EXCEPT ![h] = j]
    BY <1>3 DEF Begin, Opened, TypeOK
  <2>5. keys' \in [Slots -> Entry]
    BY <1>3, PurgedShapes DEF Begin
  <2> HIDE DEF j
  <2> QED
    BY <1>3, <2>3, <2>4, <2>5, JobShapes DEF Begin, TypeOK
<1>4. ASSUME NEW h \in Handlers, NEW how \in Replies, work[h].pc = "open", Reply(h, how)
      PROVE  work' \in [Handlers -> Job] /\ \A g \in Handlers : work'[g].pc = "idle" <=> work'[g].request = {}
  <2> DEFINE j == [work[h] EXCEPT !.pc = how, !.claimed = FALSE, !.seen = Absent]
  <2>1. work[h] \in Job /\ work[h].request # {}
    BY <1>4 DEF TypeOK
  <2>2. j \in Job /\ j.pc # "idle" /\ j.request # {}
    BY <1>1, <1>4, <2>1 DEF Job, Replies
  <2>3. work' = [work EXCEPT ![h] = j]
    BY <1>4 DEF Reply, TypeOK
  <2> HIDE DEF j
  <2> QED
    BY <2>2, <2>3, JobShapes
<1>5. ASSUME NEW h \in Handlers, Apply(h) PROVE TypeOK'
  <2>1. RequestOf(h) \in Requests /\ Slot(RequestOf(h)) \in Slots /\ RequestOf(h).signal \in Signals
    BY <1>5, HandlerShapes, RequestShapes DEF Apply
  <2>2. signals' \in [Signals -> Row]
    BY <1>5, <2>1, WrittenShapes DEF Apply, TypeOK
  <2>3. [request |-> {RequestOf(h)}, expired |-> FALSE] \in Entry
    BY <2>1 DEF Entry
  <2>4. keys' \in [Slots -> Entry] /\ effects' \in [Slots -> Seq(Requests)]
    BY <1>5, <2>1, <2>3 DEF Apply, TypeOK
  <2> QED
    BY <1>4, <1>5, <2>2, <2>4 DEF Apply, TypeOK, Replies
<1>6. ASSUME NEW h \in Handlers, Refuse(h) \/ Replay(h) PROVE TypeOK'
  BY <1>4, <1>6 DEF Refuse, Replay, TypeOK, Replies
<1>7. ASSUME NEW h \in Handlers, Abort(h) \/ Done(h) PROVE TypeOK'
  BY <1>1, <1>7, JobShapes DEF Abort, Done, TypeOK, Idle
<1>8. ASSUME NEW s \in Slots, Expire(s) PROVE TypeOK'
  <2>1. [keys[s] EXCEPT !.expired = TRUE] \in Entry
    BY DEF TypeOK, Entry
  <2>2. keys' \in [Slots -> Entry]
    BY <1>8, <2>1 DEF Expire, TypeOK
  <2>3. effects' \in [Slots -> Seq(Requests)]
    BY <1>8 DEF Expire, TypeOK
  <2>4. expiries' \in 0 .. MaxExpiries
    BY <1>8, WritesAssumption DEF Expire, TypeOK
  <2> QED
    BY <1>8, <2>2, <2>3, <2>4 DEF Expire, TypeOK
<1>9. ASSUME NEW s \in Signals, Moderate(s) PROVE TypeOK'
  <2>1. Moderated(signals[s]) \subseteq Row
    BY DEF Moderated, TypeOK, Row, Statuses
  <2> QED
    BY <1>9, <2>1 DEF Moderate, TypeOK
<1>10. CASE UNCHANGED vars
  BY <1>10 DEF vars, TypeOK
<1> QED
  BY <1>2, <1>3, <1>5, <1>6, <1>7, <1>8, <1>9, <1>10 DEF Next

\* The tables and the handlers keep their types.
THEOREM TypeCorrect == Spec => []TypeOK
<1>1. Init => TypeOK
  BY WritesAssumption DEF Init, TypeOK, Absent, Row, Statuses, Titles, Disclosures, Free, Entry, Idle, Job
<1> QED
  BY <1>1, StepTyped, PTL DEF Spec

-------------------------------------------------------------------------------
(* The inductive invariant *)

IsOpen(h) == work[h].pc = "open"

\* The account's lock: one open transaction for each account.
Alone ==
  \A g, h \in Handlers :
    IsOpen(g) /\ IsOpen(h) /\ RequestOf(g).actor = RequestOf(h).actor => g = h

\* What an open transaction read of its own account's signal and key still stands.
SteadyFor(h) ==
  LET r == RequestOf(h)
      row == signals[r.signal] IN
  /\ work[h].seen.owner = {r.actor} <=> row.owner = {r.actor}
  /\ row.owner = {r.actor} =>
       work[h].seen.title = row.title /\ work[h].seen.disclosure = row.disclosure
  /\ work[h].claimed => ~Held(keys[Slot(r)])

Steady == \A h \in Handlers : IsOpen(h) => SteadyFor(h)

\* A signal nobody created has no owner.
Ownerless == \A s \in Signals : signals[s].status = "absent" => signals[s].owner = {}

\* An effect that only an owner may have was one of the owner.
Owned ==
  \A s \in Slots : \A r \in Requests :
    r \in Range(effects[s]) /\ r.op \in {"update_draft", "submit", "delete"} =>
      signals[r.signal].owner = {r.actor}

IInv == TypeOK /\ Alone /\ Steady /\ Ownerless /\ Owned /\ PolicyHeld /\ OneEffectPerKey

\* A handler keeps its request while it is at work.
LEMMA RequestKept ==
  ASSUME NEW h, work'[h].request = work[h].request
  PROVE  RequestOf(h)' = RequestOf(h)
BY DEF RequestOf

\* A handler that takes a request, ends or answers without touching a table.
LEMMA LeaveInv ==
  ASSUME IInv, TypeOK', NEW h \in Handlers,
         \A g \in Handlers \ {h} : work'[g] = work[g],
         work'[h].pc # "open", UNCHANGED <<signals, keys, effects>>
  PROVE  IInv'
<1>1. \A g \in Handlers : IsOpen(g)' => g # h /\ IsOpen(g) /\ work'[g] = work[g]
  BY DEF IsOpen
<1>2. \A g \in Handlers : IsOpen(g)' => RequestOf(g)' = RequestOf(g)
  BY <1>1, RequestKept
<1>3. Alone'
  BY <1>1, <1>2 DEF IInv, Alone
<1>4. Steady'
  BY <1>1, <1>2 DEF IInv, Steady, SteadyFor, Held
<1>5. (Ownerless /\ Owned /\ PolicyHeld /\ OneEffectPerKey)'
  BY DEF IInv, Ownerless, Owned, PolicyHeld, OneEffectPerKey, Held
<1> QED
  BY <1>3, <1>4, <1>5 DEF IInv

\* A transaction opens: no other of its account is open, and what it reads is current.
LEMMA BeginInv ==
  ASSUME IInv, TypeOK', NEW h \in Handlers, Begin(h)
  PROVE  IInv'
<1> DEFINE r == RequestOf(h)
<1>1. TypeOK /\ r \in Requests
  BY HandlerShapes DEF IInv, Begin
<1>2. /\ \A g \in Handlers \ {h} : work'[g] = work[g]
      /\ work'[h].request = work[h].request /\ work'[h].pc = "open"
      /\ work'[h].claimed = ~Held(keys'[Slot(r)]) /\ work'[h].seen = signals[r.signal]
  <2>1. work[h] \in Job
    BY <1>1 DEF TypeOK
  <2> QED
    BY <1>1, <2>1 DEF Begin, Opened, TypeOK, Job
<1>3. \A g \in Handlers : RequestOf(g)' = RequestOf(g)
  BY <1>2, RequestKept
<1>4. \A g \in Handlers \ {h} : IsOpen(g)' => IsOpen(g) /\ RequestOf(g).actor # r.actor
  BY <1>2 DEF IsOpen, Begin, Open
<1>5. Alone'
  BY <1>3, <1>4 DEF IInv, Alone
<1>6. \A s \in Slots : keys'[s] = keys[s] \/ (keys[s].expired /\ keys'[s] = Free)
  BY <1>1, PurgedShapes DEF Begin
<1>7. Steady'
  <2>1. SteadyFor(h)'
    BY <1>2, <1>3 DEF SteadyFor, Begin
  <2>2. ASSUME NEW g \in Handlers \ {h}, IsOpen(g)' PROVE SteadyFor(g)'
    <3>1. SteadyFor(g) /\ work'[g] = work[g] /\ RequestOf(g)' = RequestOf(g)
      BY <1>2, <1>3, <1>4, <2>2 DEF IInv, Steady
    <3>2. RequestOf(g) \in Requests /\ Slot(RequestOf(g)) \in Slots
      BY <1>1, <1>4, <2>2, HandlerShapes, RequestShapes DEF IsOpen
    <3>3. ~Held(keys[Slot(RequestOf(g))]) => ~Held(keys'[Slot(RequestOf(g))])
      BY <1>6, <3>2 DEF Held, Free
    <3> QED
      BY <3>1, <3>3 DEF SteadyFor, Begin
  <2> QED
    BY <2>1, <2>2 DEF Steady
<1>8. OneEffectPerKey'
  BY <1>6 DEF IInv, OneEffectPerKey, Held, Free, Begin
<1>9. (Ownerless /\ Owned /\ PolicyHeld)'
  BY DEF IInv, Ownerless, Owned, PolicyHeld, Begin
<1> QED
  BY <1>5, <1>7, <1>8, <1>9 DEF IInv

\* The effect of a request, when its transaction writes.
LEMMA ApplyInv ==
  ASSUME IInv, TypeOK', NEW h \in Handlers, Apply(h)
  PROVE  IInv'
<1> DEFINE r == RequestOf(h)
           row == signals[r.signal]
<1>1. /\ TypeOK /\ r \in Requests /\ Slot(r) \in Slots /\ r.signal \in Signals
      /\ row \in Row /\ r.op \in Operations
  BY HandlerShapes, RequestShapes DEF IInv, Apply, TypeOK
<1>2. /\ Authorized(r, work[h].seen) /\ Valid(r, work[h].seen) /\ Matches(r, row)
      /\ signals' = [signals EXCEPT ![r.signal] = Written(r, @)]
      /\ keys' = [keys EXCEPT ![Slot(r)] = [request |-> {r}, expired |-> FALSE]]
      /\ effects' = [effects EXCEPT ![Slot(r)] = Append(@, r)]
      /\ IsOpen(h) /\ work[h].claimed
  BY DEF Apply, IsOpen
<1>3. SteadyFor(h) /\ ~Held(keys[Slot(r)])
  BY <1>2 DEF IInv, Steady, SteadyFor
<1>4. effects[Slot(r)] = << >> /\ effects'[Slot(r)] = <<r>>
  <2>1. effects[Slot(r)] = << >>
    BY <1>1, <1>3 DEF IInv, OneEffectPerKey
  <2> QED
    BY <1>1, <1>2, <2>1 DEF TypeOK
<1>5. /\ \A g \in Handlers \ {h} : work'[g] = work[g]
      /\ work'[h].pc # "open"
  <2>1. work[h] \in Job
    BY <1>1 DEF TypeOK
  <2> QED
    BY <2>1 DEF Apply, Reply, TypeOK, Job
<1>6. \A g \in Handlers : IsOpen(g)' => /\ g # h /\ IsOpen(g) /\ work'[g] = work[g]
                                        /\ RequestOf(g)' = RequestOf(g)
                                        /\ RequestOf(g).actor # r.actor
  BY <1>2, <1>5, RequestKept DEF IInv, Alone, IsOpen
<1>7. Alone'
  BY <1>6 DEF IInv, Alone
<1>8. r.op \in {"update_draft", "submit", "delete"} => row.owner = {r.actor}
  BY <1>1, <1>2, <1>3 DEF Authorized, SteadyFor
<1>9. \A s \in Signals : s # r.signal => signals'[s] = signals[s]
  BY <1>1, <1>2 DEF TypeOK
<1>10. signals'[r.signal] = Written(r, row)
  BY <1>1, <1>2 DEF TypeOK
<1>11. \/ row.owner = {} /\ Written(r, row).owner = {r.actor} /\ row.status = "absent"
       \/ Written(r, row).owner = row.owner
  BY <1>1 DEF Written, Row, IInv, Ownerless
<1>12. Steady'
  <2> SUFFICES ASSUME NEW g \in Handlers, IsOpen(g)' PROVE SteadyFor(g)'
    BY DEF Steady
  <2>1. /\ SteadyFor(g) /\ work'[g] = work[g] /\ RequestOf(g)' = RequestOf(g)
        /\ RequestOf(g).actor # r.actor /\ RequestOf(g) \in Requests
        /\ RequestOf(g).signal \in Signals /\ Slot(RequestOf(g)) \in Slots
    BY <1>1, <1>6, HandlerShapes, RequestShapes DEF IInv, Steady, IsOpen
  <2>2. keys'[Slot(RequestOf(g))] = keys[Slot(RequestOf(g))]
    BY <1>1, <1>2, <2>1, SlotOfActor DEF TypeOK
  <2>3. CASE RequestOf(g).signal # r.signal
    BY <1>9, <2>1, <2>2, <2>3 DEF SteadyFor
  <2>4. CASE RequestOf(g).signal = r.signal
    <3>1. row.owner = {RequestOf(g).actor} <=> Written(r, row).owner = {RequestOf(g).actor}
      BY <1>11, <2>1
    <3>2. row.owner = {RequestOf(g).actor} =>
            Written(r, row).title = row.title /\ Written(r, row).disclosure = row.disclosure
      BY <1>1, <1>8, <1>11, <2>1 DEF Written, Row
    <3> QED
      BY <1>10, <2>1, <2>2, <2>4, <3>1, <3>2 DEF SteadyFor
  <2> QED
    BY <2>3, <2>4
<1>13. Ownerless'
  <2>1. Written(r, row).status = "absent" => row.status = "absent" /\ Written(r, row) = row
    BY <1>1, <1>2 DEF Written, Row, Matches
  <2> QED
    BY <1>9, <1>10, <2>1 DEF IInv, Ownerless
<1>14. Owned'
  <2> SUFFICES ASSUME NEW s \in Slots, NEW q \in Requests, q \in Range(effects'[s]),
                      q.op \in {"update_draft", "submit", "delete"}
               PROVE  signals'[q.signal].owner = {q.actor}
    BY DEF Owned
  <2>1. q.signal \in Signals
    BY RequestShapes
  <2>2. signals[q.signal].owner = {q.actor}
    <3>1. CASE s = Slot(r)
      <4>1. q = r
        BY <1>4, <3>1 DEF Range
      <4> QED
        BY <1>8, <4>1
    <3>2. CASE s # Slot(r)
      <4>1. effects'[s] = effects[s]
        BY <1>1, <1>2, <3>2 DEF TypeOK
      <4> QED
        BY <4>1 DEF IInv, Owned
    <3> QED
      BY <3>1, <3>2
  <2>3. CASE q.signal # r.signal
    BY <1>9, <2>1, <2>2, <2>3
  <2>4. CASE q.signal = r.signal
    BY <1>10, <1>11, <2>2, <2>4
  <2> QED
    BY <2>3, <2>4
<1>15. PolicyHeld'
  <2>1. Allowed(row.title, row.disclosure)
    BY <1>1 DEF IInv, PolicyHeld
  <2>2. Allowed(Written(r, row).title, Written(r, row).disclosure)
    <3>1. CASE r.op = "create_draft" /\ row.status = "absent"
      BY <1>2, <3>1 DEF Valid, Written
    <3>2. CASE r.op = "update_draft"
      <4>1. work[h].seen.title = row.title /\ work[h].seen.disclosure = row.disclosure
        BY <1>3, <1>8, <3>2 DEF SteadyFor
      <4>2. /\ Written(r, row).title = Merged(row.title, r.title)
            /\ Written(r, row).disclosure = Merged(row.disclosure, r.disclosure)
        BY <1>1, <3>2 DEF Written, Row
      <4> QED
        BY <1>2, <3>2, <4>1, <4>2 DEF Valid
    <3>3. CASE ~(r.op = "create_draft" /\ row.status = "absent") /\ r.op # "update_draft"
      <4>1. /\ Written(r, row).title = row.title
            /\ Written(r, row).disclosure = row.disclosure
        BY <1>1, <3>3 DEF Written, Row
      <4> QED
        BY <2>1, <4>1
    <3> QED
      BY <3>1, <3>2, <3>3
  <2> QED
    BY <1>9, <1>10, <2>2 DEF IInv, PolicyHeld
<1>16. OneEffectPerKey'
  <2>1. keys'[Slot(r)] = [request |-> {r}, expired |-> FALSE]
    BY <1>1, <1>2 DEF TypeOK
  <2>2. \A s \in Slots : s # Slot(r) => keys'[s] = keys[s] /\ effects'[s] = effects[s]
    BY <1>1, <1>2 DEF TypeOK
  <2> QED
    BY <1>4, <2>1, <2>2 DEF IInv, OneEffectPerKey, Held
<1> QED
  BY <1>7, <1>12, <1>13, <1>14, <1>15, <1>16 DEF IInv

\* A key expires: its effect is forgotten with it.
LEMMA ExpireInv ==
  ASSUME IInv, TypeOK', NEW s \in Slots, Expire(s)
  PROVE  IInv'
<1>1. /\ keys' = [keys EXCEPT ![s].expired = TRUE] /\ effects' = [effects EXCEPT ![s] = << >>]
      /\ UNCHANGED <<signals, work>> /\ TypeOK
  BY DEF Expire, IInv
<1>2. \A q \in Slots : Held(keys'[q]) <=> Held(keys[q])
  BY <1>1 DEF TypeOK, Entry, Held
<1>3. \A h \in Handlers : RequestOf(h)' = RequestOf(h) /\ (IsOpen(h)' <=> IsOpen(h))
  BY <1>1 DEF RequestOf, IsOpen
<1>4. Alone' /\ Ownerless' /\ PolicyHeld'
  BY <1>1, <1>3 DEF IInv, Alone, Ownerless, PolicyHeld
<1>5. Steady'
  <2>1. \A h \in Handlers : IsOpen(h) => Slot(RequestOf(h)) \in Slots
    BY <1>1, HandlerShapes, RequestShapes DEF IsOpen
  <2> QED
    BY <1>1, <1>2, <1>3, <2>1 DEF IInv, Steady, SteadyFor
<1>6. Owned'
  <2>1. \A q \in Slots : effects'[q] = effects[q] \/ effects'[q] = << >>
    BY <1>1 DEF TypeOK
  <2>2. \A r : r \notin Range(<< >>)
    BY DEF Range
  <2> QED
    BY <1>1, <2>1, <2>2 DEF IInv, Owned
<1>7. OneEffectPerKey'
  <2>1. keys'[s].expired /\ effects'[s] = << >>
    BY <1>1 DEF TypeOK, Entry
  <2>2. \A q \in Slots : q # s => keys'[q] = keys[q] /\ effects'[q] = effects[q]
    BY <1>1 DEF TypeOK
  <2> QED
    BY <2>1, <2>2 DEF IInv, OneEffectPerKey, Held
<1> QED
  BY <1>4, <1>5, <1>6, <1>7 DEF IInv

\* A moderator moves a signal on: its owner and its text stay.
LEMMA ModerateInv ==
  ASSUME IInv, TypeOK', NEW s \in Signals, Moderate(s)
  PROVE  IInv'
<1>1. /\ UNCHANGED <<keys, effects, work>> /\ TypeOK
      /\ \A q \in Signals : /\ signals'[q].owner = signals[q].owner
                            /\ signals'[q].title = signals[q].title
                            /\ signals'[q].disclosure = signals[q].disclosure
                            /\ signals'[q].status = "absent" => signals[q].status = "absent"
  <2>1. signals \in [Signals -> Row] /\ signals[s] \in Row /\ TypeOK
    BY DEF IInv, TypeOK
  <2>2. PICK status \in {"published", "withdrawn"} :
          signals' = [signals EXCEPT ![s] = [signals[s] EXCEPT !.status = status]]
    <3>1. PICK row \in Moderated(signals[s]) : signals' = [signals EXCEPT ![s] = row]
      BY DEF Moderate
    <3>2. \E status \in {"published", "withdrawn"} : row = [signals[s] EXCEPT !.status = status]
      BY DEF Moderated
    <3> QED
      BY <3>1, <3>2
  <2>3. \A q \in Signals : q # s => signals'[q] = signals[q]
    BY <2>1, <2>2
  <2>4. signals'[s] = [signals[s] EXCEPT !.status = status]
    BY <2>1, <2>2
  <2>5. /\ signals'[s].owner = signals[s].owner /\ signals'[s].title = signals[s].title
        /\ signals'[s].disclosure = signals[s].disclosure /\ signals'[s].status = status
    BY <2>1, <2>4 DEF Row
  <2>6. UNCHANGED <<keys, effects, work>>
    BY DEF Moderate
  <2> QED
    BY <2>1, <2>3, <2>5, <2>6
<1>2. \A h \in Handlers : RequestOf(h)' = RequestOf(h) /\ (IsOpen(h)' <=> IsOpen(h))
  BY <1>1 DEF RequestOf, IsOpen
<1>3. Alone' /\ Ownerless' /\ PolicyHeld' /\ OneEffectPerKey'
  BY <1>1, <1>2 DEF IInv, Alone, Ownerless, PolicyHeld, OneEffectPerKey, Held
<1>4. Steady'
  <2>1. \A h \in Handlers : IsOpen(h) => RequestOf(h).signal \in Signals
    BY <1>1, HandlerShapes, RequestShapes DEF IsOpen
  <2> QED
    BY <1>1, <1>2, <2>1 DEF IInv, Steady, SteadyFor, Held
<1>5. Owned'
  BY <1>1, RequestShapes DEF IInv, Owned
<1> QED
  BY <1>3, <1>4, <1>5 DEF IInv

\* The invariant holds at first, and every step keeps it.
LEMMA AlwaysInv == Spec => []IInv
<1>1. Init => IInv
  <2> SUFFICES ASSUME Init PROVE IInv
    OBVIOUS
  <2>1. TypeOK
    BY WritesAssumption DEF Init, TypeOK, Absent, Row, Statuses, Titles, Disclosures, Free, Entry,
                            Idle, Job
  <2>2. Alone /\ Steady
    BY DEF Init, Alone, Steady, IsOpen, Idle
  <2>3. Ownerless /\ PolicyHeld /\ OneEffectPerKey
    BY DEF Init, Ownerless, PolicyHeld, OneEffectPerKey, Absent, Allowed, Held, Free
  <2>4. Owned
    BY DEF Init, Owned, Range
  <2> QED
    BY <2>1, <2>2, <2>3, <2>4 DEF IInv
<1>2. IInv /\ [Next]_vars => IInv'
  <2> SUFFICES ASSUME IInv, [Next]_vars PROVE IInv'
    OBVIOUS
  <2>1. TypeOK /\ TypeOK'
    BY StepTyped DEF IInv
  <2>2. ASSUME NEW h \in Handlers,
               \/ \E r \in Requests : Send(h, r)
               \/ Refuse(h) \/ Replay(h) \/ Abort(h) \/ Done(h)
        PROVE  IInv'
    <3>1. work[h] \in Job
      BY <2>1 DEF TypeOK
    <3>2. /\ \A g \in Handlers \ {h} : work'[g] = work[g]
          /\ work'[h].pc # "open" /\ UNCHANGED <<signals, keys, effects>>
      <4>1. ASSUME NEW j \in {"sent", "idle"} \cup Replies, NEW k, k.pc = j,
                   work' = [work EXCEPT ![h] = k]
            PROVE  (\A g \in Handlers \ {h} : work'[g] = work[g]) /\ work'[h].pc # "open"
        BY <2>1, <4>1 DEF TypeOK, Replies
      <4>2. CASE \E r \in Requests : Send(h, r)
        BY <4>1, <4>2 DEF Send, Idle
      <4>3. CASE Abort(h) \/ Done(h)
        BY <4>1, <4>3 DEF Abort, Done, Idle
      <4>4. CASE Refuse(h) \/ Replay(h)
        <5>1. PICK how \in Replies : Reply(h, how)
          BY <4>4 DEF Refuse, Replay, Replies
        <5>2. work' = [work EXCEPT ![h] = [work[h] EXCEPT !.pc = how, !.claimed = FALSE,
                                                          !.seen = Absent]]
          BY <2>1, <5>1 DEF Reply, TypeOK
        <5>3. [work[h] EXCEPT !.pc = how, !.claimed = FALSE, !.seen = Absent].pc = how
          BY <3>1 DEF Job
        <5> QED
          BY <4>1, <4>4, <5>2, <5>3 DEF Refuse, Replay
      <4> QED
        BY <2>2, <4>2, <4>3, <4>4
    <3> QED
      BY <2>1, <3>2, LeaveInv
  <2>3. CASE UNCHANGED vars
    <3>1. \A h : RequestOf(h)' = RequestOf(h) /\ (IsOpen(h)' <=> IsOpen(h))
      BY <2>3 DEF vars, RequestOf, IsOpen
    <3>2. Alone' /\ Ownerless' /\ PolicyHeld' /\ OneEffectPerKey' /\ Owned'
      BY <2>3, <3>1 DEF vars, IInv, Alone, Ownerless, PolicyHeld, OneEffectPerKey, Owned, Held
    <3>3. Steady'
      BY <2>3, <3>1 DEF vars, IInv, Steady, SteadyFor, Held
    <3> QED
      BY <2>1, <3>2, <3>3 DEF IInv
  <2> QED
    BY <2>1, <2>2, <2>3, BeginInv, ApplyInv, ExpireInv, ModerateInv DEF Next
<1> QED
  BY <1>1, <1>2, PTL DEF Spec

-------------------------------------------------------------------------------
(* Theorems *)

\* No stored signal combines a promoting title with an undeclared interest,
\* whichever devices edited it at once.
THEOREM PolicyAlwaysHeld == Spec => []PolicyHeld
BY AlwaysInv, PTL DEF IInv

\* Under a living key exactly one request was performed, and it is the one its row names.
THEOREM KeyedOnce == Spec => []OneEffectPerKey
BY AlwaysInv, PTL DEF IInv

\* A success is told of the request that was performed under the key only, and no
\* rejection hides an effect that a living key records.
THEOREM RepliesAlwaysTruthful == Spec => RepliesTruthful
<1>1. IInv /\ [Next]_vars =>
        [\A h \in Handlers :
           work[h].pc = "open" /\ work'[h].pc \in Replies =>
             LET r == RequestOf(h) IN
               /\ work'[h].pc = "ok" => keys'[Slot(r)].request = {r}
               /\ work'[h].pc = "rejected" /\ r.op # "comment" =>
                    r \notin Range(effects'[Slot(r)])]_vars
  <2> SUFFICES ASSUME IInv, Next, NEW h \in Handlers, IsOpen(h), work'[h].pc \in Replies
               PROVE  LET r == RequestOf(h) IN
                        /\ work'[h].pc = "ok" => keys'[Slot(r)].request = {r}
                        /\ work'[h].pc = "rejected" /\ r.op # "comment" =>
                             r \notin Range(effects'[Slot(r)])
    BY DEF IsOpen
  <2> DEFINE r == RequestOf(h)
  <2>1. /\ TypeOK /\ r \in Requests /\ Slot(r) \in Slots /\ SteadyFor(h) /\ work[h] \in Job
    BY HandlerShapes, RequestShapes DEF IInv, IsOpen, Steady, TypeOK
  <2>2. Apply(h) \/ Refuse(h) \/ Replay(h)
    <3>1. \A g \in Handlers : g # h => /\ ~(\E q \in Requests : Send(g, q)) /\ ~Begin(g) /\ ~Apply(g)
                                       /\ ~Refuse(g) /\ ~Replay(g) /\ ~Abort(g) /\ ~Done(g)
      BY <2>1 DEF IsOpen, Replies, TypeOK, Send, Begin, Opened, Apply, Refuse, Replay, Abort, Done, Reply
    <3>2. ~(\E q \in Requests : Send(h, q)) /\ ~Begin(h) /\ ~Abort(h) /\ ~Done(h)
      BY <2>1 DEF IsOpen, Replies, TypeOK, Send, Begin, Abort, Done, Idle
    <3>3. \A s \in Slots : ~Expire(s)
      BY DEF IsOpen, Replies, Expire
    <3>4. \A s \in Signals : ~Moderate(s)
      BY DEF IsOpen, Replies, Moderate
    <3> QED
      BY <3>1, <3>2, <3>3, <3>4 DEF Next
  <2>3. CASE Apply(h)
    <3>1. keys'[Slot(r)].request = {r} /\ work'[h].pc = "ok"
      BY <2>1, <2>3 DEF Apply, Reply, TypeOK, Job
    <3> QED
      BY <3>1
  <2>4. /\ Held(keys[Slot(r)]) /\ ~keys[Slot(r)].expired =>
             \A q \in keys[Slot(r)].request : effects[Slot(r)] = <<q>>
        /\ ~(Held(keys[Slot(r)]) /\ ~keys[Slot(r)].expired) => effects[Slot(r)] = << >>
    BY <2>1 DEF IInv, OneEffectPerKey
  <2>5. CASE Refuse(h)
    <3>1. work'[h].pc = "rejected" /\ UNCHANGED effects
      BY <2>1, <2>5 DEF Refuse, Reply, TypeOK, Job
    <3>2. CASE ~Authorized(r, work[h].seen) /\ r.op # "comment"
      <4>1. r.op \in {"update_draft", "submit", "delete"} /\ work[h].seen.owner # {r.actor}
        BY <2>1, <3>2, RequestShapes DEF Authorized, Operations
      <4>2. signals[r.signal].owner # {r.actor}
        BY <2>1, <4>1 DEF SteadyFor
      <4>3. r \notin Range(effects[Slot(r)])
        BY <2>1, <4>1, <4>2 DEF IInv, Owned
      <4> QED
        BY <3>1, <4>3
    <3>3. CASE work[h].claimed
      <4>1. effects[Slot(r)] = << >>
        BY <2>1, <2>4, <3>3 DEF SteadyFor
      <4> QED
        BY <3>1, <4>1 DEF Range
    <3> QED
      BY <2>5, <3>1, <3>2, <3>3 DEF Refuse
  <2>6. CASE Replay(h)
    <3>1. /\ UNCHANGED <<keys, effects>>
          /\ work'[h].pc = (IF keys[Slot(r)].request = {r} THEN "ok"
                            ELSE IF keys[Slot(r)].request = {} THEN "unavailable" ELSE "rejected")
      BY <2>1, <2>6 DEF Replay, Reply, TypeOK, Job
    <3>2. PICK q : keys[Slot(r)].request = {q} \/ keys[Slot(r)].request = {}
      BY <2>1 DEF TypeOK, Entry
    <3>3. work'[h].pc = "rejected" => \/ effects[Slot(r)] = << >>
                                      \/ effects[Slot(r)] = <<q>> /\ q # r
      BY <2>4, <3>1, <3>2
    <3> QED
      BY <3>1, <3>3 DEF Range
  <2> QED
    BY <2>2, <2>3, <2>5, <2>6
<1> QED
  BY <1>1, AlwaysInv, PTL DEF Spec, RepliesTruthful
-------------------------------------------------------------------------------
(* Refinement: every step is one of AtomicWrites, or changes nothing its clients see *)

\* One handler moves on: the answer of its sender may turn.
LEMMA Turned ==
  ASSUME TypeOK, NEW h \in Handlers, \A g \in Handlers \ {h} : work'[g] = work[g]
  PROVE  Atomic!Turn(h, AnswerOf(work[h]), AnswerOf(work'[h]))
BY DEF Atomic!Turn

\* No handler changes the request it was given.
LEMMA SameRequests ==
  ASSUME NEW h \in Handlers, \A g \in Handlers \ {h} : work'[g] = work[g],
         work'[h].request = work[h].request
  PROVE  UNCHANGED [g \in Handlers |-> work[g].request]
OBVIOUS

\* The parts of a handler's record that a step replaces.
LEMMA Replied ==
  ASSUME TypeOK, NEW h \in Handlers, NEW how \in Replies, Reply(h, how)
  PROVE  /\ \A g \in Handlers \ {h} : work'[g] = work[g]
         /\ work'[h].request = work[h].request /\ work'[h].pc = how
         /\ AnswerOf(work'[h]) = how
<1>1. work[h] \in Job
  BY DEF TypeOK
<1>2. work' = [work EXCEPT ![h] = [work[h] EXCEPT !.pc = how, !.claimed = FALSE, !.seen = Absent]]
  BY DEF Reply, TypeOK
<1>3. work'[h] = [work[h] EXCEPT !.pc = how, !.claimed = FALSE, !.seen = Absent]
  BY <1>2 DEF TypeOK
<1>4. work'[h].request = work[h].request /\ work'[h].pc = how
  BY <1>1, <1>3 DEF Job
<1>5. AnswerOf(work'[h]) = how
  BY <1>4 DEF AnswerOf, Replies
<1> QED
  BY <1>2, <1>4, <1>5 DEF TypeOK

\* A request arrives.
LEMMA SendIsAsk ==
  ASSUME TypeOK, NEW h \in Handlers, NEW r \in Requests, Send(h, r)
  PROVE  Atomic!Ask(h)
<1>1. work'[h] = [Idle EXCEPT !.pc = "sent", !.request = {r}] /\ work[h].request = {}
  BY DEF Send, TypeOK
<1>2. work'[h].pc = "sent" /\ work'[h].request = {r}
  BY <1>1 DEF Idle
<1>3. \A g \in Handlers \ {h} : work'[g] = work[g]
  BY DEF Send, TypeOK
<1>4. AnswerOf(work[h]) = "none" /\ AnswerOf(work'[h]) = "pending"
  BY <1>2 DEF AnswerOf, Send
<1>5. Atomic!Turn(h, "none", "pending")
  BY <1>3, <1>4, Turned
<1>6. [g \in Handlers |-> work[g].request]' =
        [[g \in Handlers |-> work[g].request] EXCEPT ![h] = {r}]
  BY <1>2, <1>3
<1> QED
  BY <1>5, <1>6 DEF Atomic!Ask, Send

\* A purge cleans aged records.
LEMMA PurgeIsClean ==
  ASSUME TypeOK, NEW op, keys' = Purged(op)
  PROVE  Atomic!Clean
<1> DEFINE old == {s \in Slots : keys[s].expired /\ Scope(s[2]) = Scope(op)}
<1>1. \A s \in Slots : keys'[s] = IF s \in old THEN Free ELSE keys[s]
  BY DEF Purged
<1>2. old \in SUBSET {s \in Slots : keys[s].expired}
  OBVIOUS
<1>3. [s \in Slots |-> keys'[s].request] =
        [s \in Slots |-> IF s \in old THEN {} ELSE [q \in Slots |-> keys[q].request][s]]
  BY <1>1 DEF Free
<1>4. {s \in Slots : keys'[s].expired} = {s \in Slots : keys[s].expired} \ old
  BY <1>1 DEF Free
<1> HIDE DEF old
<1> QED
  BY <1>2, <1>3, <1>4 DEF Atomic!Clean

\* A transaction opens: what it reads is of this moment, so a refusal that follows from
\* it is decided here.
LEMMA BeginIsReject ==
  ASSUME TypeOK, NEW h \in Handlers, Begin(h)
  PROVE  Atomic!Reject(h) \/ Atomic!Forget
<1> DEFINE r == RequestOf(h)
<1>1. r \in Requests /\ work[h].request = {r} /\ Slot(r) \in Slots /\ r.signal \in Signals
  BY HandlerShapes, RequestShapes DEF Begin
<1>2. /\ \A g \in Handlers \ {h} : work'[g] = work[g]
      /\ work'[h].request = work[h].request /\ work'[h].pc = "open"
      /\ work'[h].claimed = ~Held(keys'[Slot(r)]) /\ work'[h].seen = signals[r.signal]
  <2>1. work[h] \in Job
    BY DEF TypeOK
  <2> QED
    BY <1>1, <2>1 DEF Begin, Opened, TypeOK, Job
<1>4. Atomic!Clean /\ UNCHANGED signals
  BY PurgeIsClean DEF Begin
<1>5. AnswerOf(work[h]) = "pending"
  BY DEF AnswerOf, Begin
<1>6. UNCHANGED [g \in Handlers |-> work[g].request]
  BY <1>2, SameRequests
<1>7. CASE Doomed(work'[h])
  <2>1. AnswerOf(work'[h]) = "rejected"
    BY <1>2, <1>7 DEF AnswerOf
  <2>2. Atomic!Turn(h, "pending", "rejected")
    BY <1>2, <1>5, <2>1, Turned
  <2>3. \/ ~Authorized(r, signals[r.signal])
        \/ keys'[Slot(r)].request = {} /\ ~Permitted(r, signals[r.signal])
    BY <1>1, <1>2, <1>7 DEF Doomed, Held, Permitted
  <2>4. Atomic!Reject(h)
    BY <1>1, <1>4, <1>6, <2>2, <2>3 DEF Atomic!Reject
  <2> QED
    BY <2>4
<1>8. CASE ~Doomed(work'[h])
  <2>1. AnswerOf(work'[h]) = "pending"
    BY <1>2, <1>8 DEF AnswerOf
  <2>2. UNCHANGED [g \in Handlers |-> AnswerOf(work[g])]
    BY <1>2, <1>5, <2>1
  <2>3. Atomic!Forget
    BY <1>4, <1>6, <2>2 DEF Atomic!Forget
  <2> QED
    BY <2>3
<1> QED
  BY <1>7, <1>8

\* What a transaction that writes checked is true of the rows it writes to: its own
\* signals stand as it read them, and the statement checks the status of any other.
LEMMA CheckedStill ==
  ASSUME IInv, NEW h \in Handlers, Apply(h)
  PROVE  Permitted(RequestOf(h), signals[RequestOf(h).signal])
<1> DEFINE r == RequestOf(h)
           row == signals[r.signal]
<1>1. /\ Authorized(r, work[h].seen) /\ Valid(r, work[h].seen) /\ Matches(r, row)
      /\ SteadyFor(h)
  BY DEF Apply, IInv, Steady, IsOpen
<1>2. /\ work[h].seen.owner = {r.actor} => row.owner = {r.actor}
      /\ row.owner = {r.actor} =>
           work[h].seen.title = row.title /\ work[h].seen.disclosure = row.disclosure
  BY <1>1 DEF SteadyFor
<1>3. Authorized(r, row)
  BY <1>1, <1>2 DEF Authorized, Matches
<1>4. Valid(r, row)
  <2>1. CASE r.op \in {"update_draft", "submit"}
    <3>1. row.status = "draft" /\ row.owner = {r.actor}
      BY <1>1, <1>2, <2>1 DEF Authorized, Matches
    <3> QED
      BY <1>1, <1>2, <2>1, <3>1 DEF Valid
  <2>2. CASE r.op \notin {"update_draft", "submit"}
    BY <1>1, <2>2 DEF Valid
  <2> QED
    BY <2>1, <2>2
<1> QED
  BY <1>1, <1>3, <1>4 DEF Permitted

\* The effect, its record and its answer are one step.
LEMMA ApplyIsPerform ==
  ASSUME IInv, NEW h \in Handlers, Apply(h)
  PROVE  Atomic!Perform(h)
<1> DEFINE r == RequestOf(h)
<1>1. TypeOK /\ r \in Requests /\ work[h].request = {r} /\ Slot(r) \in Slots
  BY HandlerShapes, RequestShapes DEF IInv, Apply
<1>2. Reply(h, "ok") /\ UNCHANGED expiries
  BY DEF Apply
<1>3. /\ \A g \in Handlers \ {h} : work'[g] = work[g]
      /\ work'[h].request = work[h].request /\ AnswerOf(work'[h]) = "ok"
  BY <1>1, <1>2, Replied DEF Replies
<1>4. AnswerOf(work[h]) = "pending"
  <2>1. ~Doomed(work[h])
    BY <1>1 DEF Doomed, Apply
  <2> QED
    BY <2>1 DEF AnswerOf, Apply
<1>5. Atomic!Turn(h, "pending", "ok")
  BY <1>1, <1>3, <1>4, Turned
<1>6. keys' = [keys EXCEPT ![Slot(r)] = [request |-> {r}, expired |-> FALSE]]
  BY DEF Apply
<1>7. keys[Slot(r)].request = {}
  BY DEF IInv, Steady, SteadyFor, IsOpen, Apply, Held
<1>8. [s \in Slots |-> keys'[s].request] =
        [[s \in Slots |-> keys[s].request] EXCEPT ![Slot(r)] = {r}]
  BY <1>1, <1>6 DEF TypeOK
<1>9. {s \in Slots : keys'[s].expired} = {s \in Slots : keys[s].expired} \ {Slot(r)}
  BY <1>1, <1>6 DEF TypeOK
<1>10. UNCHANGED [g \in Handlers |-> work[g].request]
  BY <1>3, SameRequests
<1>11. signals' = [signals EXCEPT ![r.signal] = Written(r, @)]
  BY DEF Apply
<1> QED
  BY <1>1, <1>5, <1>7, <1>8, <1>9, <1>10, <1>11, CheckedStill DEF Atomic!Perform

\* A table that does not change is clean.
LEMMA NothingToClean ==
  ASSUME UNCHANGED keys
  PROVE  Atomic!Clean
<1>1. {} \in SUBSET {s \in Slots : keys[s].expired}
  OBVIOUS
<1>2. [s \in Slots |-> keys'[s].request] =
        [s \in Slots |-> IF s \in {} THEN {} ELSE [q \in Slots |-> keys[q].request][s]]
  OBVIOUS
<1>3. {s \in Slots : keys'[s].expired} = {s \in Slots : keys[s].expired} \ {}
  OBVIOUS
<1> QED
  BY <1>1, <1>2, <1>3 DEF Atomic!Clean

\* A refusal that nothing decided before is decided by the statement that finds no row.
LEMMA RefuseIsReject ==
  ASSUME IInv, NEW h \in Handlers, Refuse(h)
  PROVE  Atomic!Reject(h) \/ UNCHANGED Atomic!vars
<1> DEFINE r == RequestOf(h)
<1>1. TypeOK /\ r \in Requests /\ work[h].request = {r} /\ Slot(r) \in Slots
  BY HandlerShapes, RequestShapes DEF IInv, Refuse
<1>2. Reply(h, "rejected") /\ UNCHANGED <<signals, keys>>
  BY DEF Refuse
<1>3. /\ \A g \in Handlers \ {h} : work'[g] = work[g]
      /\ work'[h].request = work[h].request /\ AnswerOf(work'[h]) = "rejected"
  BY <1>1, <1>2, Replied DEF Replies
<1>4. UNCHANGED [g \in Handlers |-> work[g].request]
  BY <1>3, SameRequests
<1>5. CASE Doomed(work[h])
  <2>1. AnswerOf(work[h]) = "rejected"
    BY <1>5 DEF AnswerOf, Refuse
  <2>2. UNCHANGED [g \in Handlers |-> AnswerOf(work[g])]
    BY <1>3, <2>1
  <2> QED
    BY <1>2, <1>4, <2>2 DEF Atomic!vars
<1>6. CASE ~Doomed(work[h])
  <2>1. AnswerOf(work[h]) = "pending"
    BY <1>6 DEF AnswerOf, Refuse
  <2>2. Atomic!Turn(h, "pending", "rejected")
    BY <1>1, <1>3, <2>1, Turned
  <2>3. work[h].claimed /\ ~Matches(r, signals[r.signal])
    BY <1>1, <1>6 DEF Doomed, Refuse
  <2>4. keys'[Slot(r)].request = {} /\ ~Permitted(r, signals[r.signal])
    BY <1>2, <2>3 DEF IInv, Steady, SteadyFor, IsOpen, Refuse, Held, Permitted
  <2>5. Atomic!Clean
    BY <1>2, NothingToClean
  <2> QED
    BY <1>1, <1>2, <1>4, <2>2, <2>4, <2>5 DEF Atomic!Reject
<1> QED
  BY <1>5, <1>6

\* The stored reply, a conflict, or no answer: as the table of keys stands.
LEMMA ReplayIsAnswer ==
  ASSUME IInv, NEW h \in Handlers, Replay(h)
  PROVE  Atomic!Recall(h) \/ Atomic!Reject(h) \/ Atomic!Evade(h)
<1> DEFINE r == RequestOf(h)
           stored == keys[Slot(r)].request
<1>1. TypeOK /\ r \in Requests /\ work[h].request = {r} /\ Slot(r) \in Slots
  BY HandlerShapes, RequestShapes DEF IInv, Replay
<1>2. UNCHANGED <<signals, keys>>
  BY DEF Replay
<1>3. AnswerOf(work[h]) = "pending"
  <2>1. ~Doomed(work[h])
    BY <1>1 DEF Doomed, Replay
  <2> QED
    BY <2>1 DEF AnswerOf, Replay
<1>4. ASSUME NEW how \in Replies, Reply(h, how)
      PROVE  /\ Atomic!Turn(h, "pending", how)
             /\ UNCHANGED [g \in Handlers |-> work[g].request]
  BY <1>1, <1>3, <1>4, Replied, Turned, SameRequests
<1>5. CASE stored = {r}
  <2>1. Reply(h, "ok")
    BY <1>5 DEF Replay
  <2>2. Atomic!Recall(h)
    BY <1>1, <1>2, <1>4, <1>5, <2>1 DEF Atomic!Recall, Replies
  <2> QED
    BY <2>2
<1>6. CASE stored = {}
  <2>1. Reply(h, "unavailable")
    BY <1>6 DEF Replay
  <2>2. Atomic!Evade(h)
    BY <1>2, <1>4, <2>1 DEF Atomic!Evade, Replies
  <2> QED
    BY <2>2
<1>7. CASE stored \notin {{}, {r}}
  <2>1. Reply(h, "rejected")
    BY <1>7 DEF Replay
  <2>2. Atomic!Clean
    BY <1>2, NothingToClean
  <2>3. keys'[Slot(r)].request \notin {{}, {r}}
    BY <1>2, <1>7
  <2>4. Atomic!Reject(h)
    BY <1>1, <1>2, <1>4, <2>1, <2>2, <2>3 DEF Atomic!Reject, Replies
  <2> QED
    BY <2>4
<1> QED
  BY <1>5, <1>6, <1>7

\* The handler is gone, with or without an answer.
LEMMA EndIsLeave ==
  ASSUME TypeOK, NEW h \in Handlers, Abort(h) \/ Done(h)
  PROVE  Atomic!Leave(h)
<1>1. work' = [work EXCEPT ![h] = Idle] /\ UNCHANGED <<signals, keys>>
  BY DEF Abort, Done
<1>2. /\ \A g \in Handlers \ {h} : work'[g] = work[g]
      /\ work'[h].pc = "idle" /\ work'[h].request = {}
  BY <1>1 DEF TypeOK, Idle
<1>3. AnswerOf(work'[h]) = "none"
  BY <1>2 DEF AnswerOf
<1>4. AnswerOf(work[h]) # "none"
  BY DEF AnswerOf, Abort, Done, Replies
<1>5. Atomic!Turn(h, AnswerOf(work[h]), "none")
  BY <1>2, <1>3, Turned
<1>6. [g \in Handlers |-> work[g].request]' =
        [[g \in Handlers |-> work[g].request] EXCEPT ![h] = {}]
  BY <1>2
<1> QED
  BY <1>1, <1>4, <1>5, <1>6 DEF Atomic!Leave

\* A stored key outlives its day: its record may be forgotten from now on.
LEMMA ExpireIsAge ==
  ASSUME TypeOK, NEW s \in Slots, Expire(s)
  PROVE  Atomic!Age(s)
<1>1. keys' = [keys EXCEPT ![s].expired = TRUE] /\ UNCHANGED <<signals, work>>
  BY DEF Expire
<1>2. \A q \in Slots : keys[q] \in Entry
  BY DEF TypeOK
<1>3. keys'[s].request = keys[s].request /\ keys'[s].expired
  BY <1>1, <1>2 DEF TypeOK, Entry
<1>4. \A q \in Slots : q # s => keys'[q] = keys[q]
  BY <1>1 DEF TypeOK
<1>5. UNCHANGED [q \in Slots |-> keys[q].request]
  BY <1>3, <1>4
<1>6. {q \in Slots : keys'[q].expired} = {q \in Slots : keys[q].expired} \cup {s}
  BY <1>3, <1>4
<1>7. UNCHANGED <<[h \in Handlers |-> work[h].request], [h \in Handlers |-> AnswerOf(work[h])]>>
  BY <1>1
<1>8. keys[s].request # {}
  BY DEF Expire, Held
<1> QED
  BY <1>1, <1>5, <1>6, <1>7, <1>8 DEF Atomic!Age

\* Every step is an abstract step or leaves what the clients see alone.
LEMMA StepRefines == IInv /\ [Next]_vars => [Atomic!Next]_(Atomic!vars)
<1> SUFFICES ASSUME IInv, [Next]_vars PROVE Atomic!Next \/ UNCHANGED Atomic!vars
  OBVIOUS
<1>1. TypeOK
  BY DEF IInv
<1>2. ASSUME NEW h \in Handlers,
             \/ Atomic!Ask(h) \/ Atomic!Perform(h) \/ Atomic!Recall(h) \/ Atomic!Reject(h)
             \/ Atomic!Evade(h) \/ Atomic!Leave(h)
      PROVE  Atomic!Next
  BY <1>2 DEF Atomic!Next
<1>3. ASSUME NEW h \in Handlers,
             \/ \E r \in Requests : Send(h, r)
             \/ Begin(h) \/ Apply(h) \/ Refuse(h) \/ Replay(h) \/ Abort(h) \/ Done(h)
      PROVE  Atomic!Next \/ UNCHANGED Atomic!vars
  <2>1. Atomic!Forget => Atomic!Next
    BY DEF Atomic!Next
  <2> QED
    BY <1>1, <1>2, <1>3, <2>1, SendIsAsk, BeginIsReject, ApplyIsPerform, RefuseIsReject,
       ReplayIsAnswer, EndIsLeave
<1>4. ASSUME NEW s \in Slots, Expire(s) PROVE Atomic!Next
  BY <1>1, <1>4, ExpireIsAge DEF Atomic!Next
<1>5. ASSUME NEW s \in Signals, Moderate(s) PROVE Atomic!Next
  <2>1. UNCHANGED <<[q \in Slots |-> keys[q].request], {q \in Slots : keys[q].expired},
                    [h \in Handlers |-> work[h].request],
                    [h \in Handlers |-> AnswerOf(work[h])]>>
    BY <1>5 DEF Moderate
  <2>2. Atomic!Moderate(s)
    BY <1>5, <2>1 DEF Moderate, Atomic!Moderate
  <2> QED
    BY <2>2 DEF Atomic!Next
<1>6. CASE UNCHANGED vars
  BY <1>6 DEF vars, Atomic!vars
<1> QED
  BY <1>3, <1>4, <1>5, <1>6 DEF Next

\* The keyed writes are atomic: although a handler checks rows it read earlier, while
\* other handlers write, keys expire and moderators act, every request takes effect, or
\* is refused, as if all of it happened at one moment.
THEOREM Atomicity == Spec => ImplementsAtomicWrites
<1>1. Init => Atomic!Init
  BY DEF Init, Atomic!Init, Free, Idle, AnswerOf
<1> QED
  BY <1>1, StepRefines, AlwaysInv, PTL DEF Spec, ImplementsAtomicWrites, Atomic!Spec
===============================================================================
