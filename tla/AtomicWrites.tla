----------------------------- MODULE AtomicWrites -----------------------------
(***************************************************************************)
(* What the keyed writes promise, without transactions, locks or claims: a *)
(* request takes effect at one moment between its arrival and its answer,  *)
(* authorized and valid in the rows of that moment, and only while nothing *)
(* is recorded under its key; success is told of what is recorded, and a   *)
(* rejection of what was refused at such a moment.  What requests do, and  *)
(* when they may, are parameters.  CommunityWrites implements this.        *)
(***************************************************************************)
CONSTANTS Handlers, Requests, Signals, Slots,
          Absent,            \* the row of a signal nobody created
          Slot(_),           \* the key of a request, within its scope
          Authorized(_, _),  \* may this request see and touch this row?
          Permitted(_, _),   \* may it take effect on this row?
          Written(_, _),     \* the row it leaves
          Moderated(_)       \* the rows a moderator may make of one

VARIABLES rows,     \* the signals
          done,     \* done[s]: what is recorded under s, at most one request
          aged,     \* the slots whose record may be forgotten
          request,  \* what each handler was asked, if anything
          answer    \* and its answer so far

vars == <<rows, done, aged, request, answer>>

Init ==
  /\ rows = [s \in Signals |-> Absent]
  /\ done = [s \in Slots |-> {}]
  /\ aged = {}
  /\ request = [h \in Handlers |-> {}]
  /\ answer = [h \in Handlers |-> "none"]

\* The answer of h is replaced.
Turn(h, from, to) == answer[h] = from /\ answer' = [answer EXCEPT ![h] = to]

Ask(h) ==
  /\ Turn(h, "none", "pending")
  /\ \E r \in Requests : request' = [request EXCEPT ![h] = {r}]
  /\ UNCHANGED <<rows, done, aged>>

\* The request takes effect, and is recorded and answered with it.
Perform(h) ==
  /\ Turn(h, "pending", "ok")
  /\ \E r \in request[h] :
       /\ done[Slot(r)] = {}
       /\ Permitted(r, rows[r.signal])
       /\ rows' = [rows EXCEPT ![r.signal] = Written(r, @)]
       /\ done' = [done EXCEPT ![Slot(r)] = {r}]
       /\ aged' = aged \ {Slot(r)}
  /\ UNCHANGED request

\* It is recorded already.
Recall(h) ==
  /\ Turn(h, "pending", "ok")
  /\ \E r \in request[h] : done[Slot(r)] = {r}
  /\ UNCHANGED <<rows, done, aged, request>>

\* Aged records are forgotten, any number of them at once.
Clean ==
  \E forgotten \in SUBSET aged :
    /\ done' = [s \in Slots |-> IF s \in forgotten THEN {} ELSE done[s]]
    /\ aged' = aged \ forgotten

\* Refused as things are now, with the aged records that are cleaned on the occasion.
Reject(h) ==
  /\ Turn(h, "pending", "rejected")
  /\ Clean
  /\ \E r \in request[h] :
       \/ ~Authorized(r, rows[r.signal])
       \/ done'[Slot(r)] = {} /\ ~Permitted(r, rows[r.signal])
       \/ done'[Slot(r)] \notin {{}, {r}}
  /\ UNCHANGED <<rows, request>>

\* The service cannot tell.
Evade(h) ==
  /\ Turn(h, "pending", "unavailable")
  /\ UNCHANGED <<rows, done, aged, request>>

\* The answer is taken, or the client never hears of the request again.
Leave(h) ==
  /\ answer[h] # "none" /\ Turn(h, answer[h], "none")
  /\ request' = [request EXCEPT ![h] = {}]
  /\ UNCHANGED <<rows, done, aged>>

Forget == Clean /\ UNCHANGED <<rows, request, answer>>

Age(s) ==
  /\ done[s] # {}
  /\ aged' = aged \cup {s}
  /\ UNCHANGED <<rows, done, request, answer>>

Moderate(s) ==
  /\ \E row \in Moderated(rows[s]) : rows' = [rows EXCEPT ![s] = row]
  /\ UNCHANGED <<done, aged, request, answer>>

Next ==
  \/ \E h \in Handlers :
       Ask(h) \/ Perform(h) \/ Recall(h) \/ Reject(h) \/ Evade(h) \/ Leave(h)
  \/ Forget
  \/ \E s \in Slots : Age(s)
  \/ \E s \in Signals : Moderate(s)

Spec == Init /\ [][Next]_vars
===============================================================================
