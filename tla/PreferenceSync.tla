--------------------------- MODULE PreferenceSync ----------------------------
(***************************************************************************)
(* A traveller's preferences: one document on the device and one per       *)
(* account (features/preferences/data/travel_preferences_store.dart over   *)
(* services/travel_preferences_repository.py).                             *)
(*                                                                         *)
(* The store answers at once and works in the background.  Its storage     *)
(* mutations pass through one queue of sections, each a platform call with *)
(* a suspension inside; its remote calls are answered late, or not at all. *)
(* Epochs and generations fence what was overtaken meanwhile: the account  *)
(* was switched, a newer edit landed, or the document was cleared.  The    *)
(* server accepts a document only over the revision its sender names, and  *)
(* other devices write to the same accounts.                               *)
(***************************************************************************)
EXTENDS Naturals, Sequences, FiniteSets

CONSTANTS Prefs,        \* contents a preference document may have
          Default,      \* the content of a fresh TravelPreferences()
          Accounts,
          Calls,        \* bound: remote calls in flight together
          MaxActs,      \* bound: acts of the user and restarts of the app
          MaxRevision   \* bound: revision up to which other devices write

ASSUME SyncAssumption == Default \in Prefs /\ MaxActs \in Nat /\ MaxRevision \in Nat

VARIABLES server,   \* profile.user_travel_preferences
          stored,   \* the document in SharedPreferences, if any
          local,    \* the device copy in memory: _value, _hasLocalDocument, ...
          link,     \* the account side of the store: _remote, _serverDocument, ...
          gen,      \* _localWriteGeneration and _clearGeneration
          queue,    \* _storageTail: the sections not yet completed
          calls,    \* remote calls not yet answered
          edit,     \* history: the user's newest edit, while nothing revoked it
          acts      \* acts so far (bounded)

vars == <<server, stored, local, link, gen, queue, calls, edit, acts>>

NoDoc == [revision |-> 0, pref |-> Default]
NoCall == [kind |-> "none", account |-> {}, epoch |-> 0, known |-> NoDoc, pref |-> Default,
           answer |-> "pending", doc |-> NoDoc]
Fresh == [value |-> Default, has |-> FALSE, owned |-> FALSE, loaded |-> FALSE]
Unlinked(epoch) == [account |-> {}, doc |-> NoDoc, status |-> "localOnly", epoch |-> epoch]

\* What the two documents allow the store to claim.
Pairing(doc, value) ==
  IF doc.revision = 0 THEN "serverEmpty" ELSE IF value = doc.pref THEN "synced" ELSE "conflict"

\* _statusAfterLocalReset
AfterReset(value) == IF link.account = {} THEN "localOnly" ELSE Pairing(link.doc, value)

\* _reconcileAfterOutOfBandLocalWrite
Reconciled(value) ==
  IF link.account # {} /\ link.doc.revision > 0 /\ link.status = "synced" /\ value # link.doc.pref
    THEN [link EXCEPT !.status = "conflict"] ELSE link

Section(kind, pref) ==
  [kind |-> kind, pref |-> pref, epoch |-> link.epoch, writes |-> gen.writes,
   clears |-> gen.clears, writing |-> FALSE]

Enqueue(kind, pref) == queue' = Append(queue, Section(kind, pref))
Head1 == queue[1]
Queued(kind) == \E i \in 1 .. Len(queue) : queue[i].kind = kind

\* A remote call starts: the account and the document are those of this moment.
Call(c, kind, pref, lnk) ==
  /\ calls[c] = NoCall
  /\ calls' = [calls EXCEPT ![c] = [NoCall EXCEPT !.kind = kind, !.account = lnk.account,
                 !.epoch = lnk.epoch, !.known = lnk.doc, !.pref = pref]]

Act == acts < MaxActs /\ acts' = acts + 1

-----------------------------------------------------------------------------
Init ==
  /\ server = [a \in Accounts |-> NoDoc]
  /\ stored \in {{}} \cup {{p} : p \in Prefs}
  /\ local = Fresh
  /\ link = Unlinked(0)
  /\ gen = [writes |-> 0, clears |-> 0]
  /\ queue = << >>
  /\ calls = [c \in Calls |-> NoCall]
  /\ edit = {}
  /\ acts = 0

\* ensureLoaded: the first page to ask starts the load.
Load ==
  /\ ~local.loaded /\ ~Queued("load")
  /\ Enqueue("load", Default)
  /\ UNCHANGED <<server, stored, local, link, gen, calls, edit, acts>>

\* save
Save(p) ==
  /\ Act
  /\ Enqueue("save", p)
  /\ edit' = {p}
  /\ UNCHANGED <<server, stored, local, link, gen, calls>>

\* The pages run one account action at a time, and show its button by status.
PageFree ==
  /\ ~Queued("use") /\ ~Queued("adopt")
  /\ \A c \in Calls : calls[c].kind # "none" => calls[c].epoch # link.epoch

\* useAccountPreferences
UseAccount ==
  /\ link.status = "conflict" /\ link.doc.revision > 0 /\ PageFree
  /\ Act
  /\ Enqueue("use", link.doc.pref)
  /\ edit' = {}
  /\ UNCHANGED <<server, stored, local, link, gen, calls>>

\* _saveToAccount, up to the put
Put(c, pref) ==
  /\ Call(c, "put", pref, link)
  /\ link' = [link EXCEPT !.status = "checking"]

\* saveDevicePreferencesToAccount
SaveDevice(c) ==
  /\ link.account # {} /\ link.status \in {"conflict", "serverEmpty"} /\ PageFree
  /\ Act
  /\ Put(c, local.value)
  /\ UNCHANGED <<server, stored, local, gen, queue, edit>>

\* connectAccount and _synchronizeAccount, up to the get
Synchronize(c, lnk) ==
  /\ link' = [lnk EXCEPT !.epoch = @ + 1, !.status = "checking"]
  /\ Call(c, "sync", Default, link')
  /\ IF local.loaded \/ Queued("load") THEN UNCHANGED queue ELSE Enqueue("load", Default)

\* Sign-in: the application connects an account only when none is connected.
Connect(c, a) ==
  /\ link.account = {}
  /\ Act
  /\ Synchronize(c, [link EXCEPT !.account = {a}])
  /\ UNCHANGED <<server, stored, local, gen, edit>>

\* retryAccountSync
Retry(c) ==
  /\ link.account # {} /\ link.status = "error" /\ PageFree
  /\ Act
  /\ Synchronize(c, link)
  /\ UNCHANGED <<server, stored, local, gen, edit>>

\* disconnectAccount
Disconnect ==
  /\ link.account # {}
  /\ Act
  /\ link' = Unlinked(link.epoch + 1)
  /\ UNCHANGED <<server, stored, local, gen, queue, calls, edit>>

\* clear, up to the queue: what is pending is fenced at once.
Clear ==
  /\ Act
  /\ link' = [link EXCEPT !.epoch = @ + 1]
  /\ gen' = [writes |-> gen.writes + 1, clears |-> gen.clears + 1]
  /\ queue' = Append(queue, [Section("clear", Default) EXCEPT !.epoch = link.epoch + 1])
  /\ edit' = {}
  /\ UNCHANGED <<server, stored, local, calls>>

\* What the platform may hold after a call it did not finish.
Torn == IF queue = << >> \/ ~Head1.writing THEN {stored}
        ELSE {stored, IF Head1.kind = "clear" THEN {} ELSE {Head1.pref}}

\* The app is killed and started again: only the stored document survives.
Restart ==
  /\ Act
  /\ stored' \in Torn
  /\ local' = Fresh
  /\ link' = Unlinked(link.epoch + 1)
  /\ queue' = << >>
  /\ edit' = IF queue = << >> THEN edit ELSE {}
  /\ UNCHANGED <<server, gen, calls>>

-----------------------------------------------------------------------------
\* Mutant: an account's document is adopted whatever landed meanwhile.
PassesUnowned(s) ==
  CASE s.kind = "save" -> s.clears = gen.clears
    [] s.kind \in {"use", "load"} -> s.writes = gen.writes
    [] s.kind = "adopt" -> s.epoch = link.epoch
    [] OTHER -> TRUE

\* The fences of _saveLocal and _load.
Passes(s) ==
  CASE s.kind = "save" -> s.clears = gen.clears
    [] s.kind \in {"use", "load"} -> s.writes = gen.writes
    [] s.kind = "adopt" -> s.epoch = link.epoch /\ ~(local.has /\ local.owned)
    [] OTHER -> TRUE

\* A section starts: it passes its fence, and then suspends in the platform call.
Start ==
  /\ queue # << >> /\ ~Head1.writing /\ Head1.kind # "load" /\ Passes(Head1)
  /\ queue' = [queue EXCEPT ![1].writing = TRUE]
  /\ UNCHANGED <<server, stored, local, link, gen, calls, edit, acts>>

\* _synchronizeAccount after its adoption landed, failed its fence, or was not needed.
Paired(s, value) ==
  IF s.epoch = link.epoch THEN [link EXCEPT !.status = Pairing(link.doc, value)] ELSE link

\* Fenced off: the caller goes on without the write.
Discard ==
  /\ queue # << >> /\ ~Head1.writing /\ Head1.kind # "load" /\ ~Passes(Head1)
  /\ queue' = Tail(queue)
  /\ link' = IF Head1.kind = "adopt" THEN Paired(Head1, local.value) ELSE Reconciled(local.value)
  /\ UNCHANGED <<server, stored, local, gen, calls, edit, acts>>

\* The load's section reads and applies without suspending; a document it
\* cannot decode leaves the defaults.
LoadSection ==
  /\ queue # << >> /\ Head1.kind = "load"
  /\ queue' = Tail(queue)
  /\ \/ /\ stored # {} /\ Passes(Head1)
        /\ local' = [value |-> CHOOSE p \in stored : TRUE, has |-> TRUE, owned |-> TRUE,
                     loaded |-> TRUE]
        /\ gen' = [gen EXCEPT !.writes = @ + 1]
        /\ UNCHANGED edit
     \/ /\ stored = {} \/ ~Passes(Head1)
        /\ local' = [local EXCEPT !.loaded = TRUE]
        /\ UNCHANGED <<gen, edit>>
     \/ /\ stored # {} /\ Passes(Head1)
        /\ local' = [Fresh EXCEPT !.loaded = TRUE, !.owned = local.owned]
        /\ edit' = {}
        /\ UNCHANGED gen
  /\ UNCHANGED <<server, stored, link, calls, acts>>

Land(pref, owned) ==
  /\ stored' = {pref}
  /\ local' = [value |-> pref, has |-> TRUE, owned |-> owned, loaded |-> TRUE]
  /\ gen' = [gen EXCEPT !.writes = @ + 1]
  /\ queue' = Tail(queue)
  /\ UNCHANGED <<server, edit, acts>>

Writing(kind) == queue # << >> /\ Head1.kind = kind /\ Head1.writing

\* save: upload what landed, if the pairing it was made under still stands.
LandSave ==
  /\ Writing("save")
  /\ Land(Head1.pref, TRUE)
  /\ IF Head1.epoch = link.epoch /\ link.status = "synced" /\ link.account # {}
       THEN \E c \in Calls : Put(c, Head1.pref)
       ELSE /\ link' = IF Head1.epoch = link.epoch THEN link ELSE Reconciled(Head1.pref)
            /\ UNCHANGED calls

LandAdopt ==
  /\ Writing("adopt")
  /\ Land(Head1.pref, FALSE)
  /\ link' = Paired(Head1, Head1.pref)
  /\ UNCHANGED calls

LandUse ==
  /\ Writing("use")
  /\ Land(Head1.pref, TRUE)
  /\ link' = IF Head1.epoch = link.epoch THEN [link EXCEPT !.status = "synced"]
             ELSE Reconciled(Head1.pref)
  /\ UNCHANGED calls

LandClear ==
  /\ Writing("clear")
  /\ stored' = {}
  /\ local' = [Fresh EXCEPT !.loaded = TRUE]
  /\ link' = [link EXCEPT !.status = AfterReset(Default)]
  /\ queue' = Tail(queue)
  /\ UNCHANGED <<server, gen, calls, edit, acts>>

\* Mutant: a failed clear leaves the status as it found it.
FailClearUnrepaired ==
  /\ Writing("clear")
  /\ queue' = Tail(queue)
  /\ stored' \in Torn
  /\ UNCHANGED <<server, local, link, gen, calls, edit, acts>>

\* The platform does not acknowledge: the first of the two keys may be gone.
FailClear ==
  /\ Writing("clear")
  /\ queue' = Tail(queue)
  /\ stored' \in Torn
  /\ link' = IF Head1.epoch = link.epoch /\ link.status = "checking"
               THEN [link EXCEPT !.status = AfterReset(local.value)] ELSE link
  /\ UNCHANGED <<server, local, gen, calls, edit, acts>>

\* The platform does not acknowledge: the document may be written all the same.
FailWrite ==
  /\ queue # << >> /\ Head1.writing /\ Head1.kind # "clear"
  /\ queue' = Tail(queue)
  /\ stored' \in Torn
  /\ link' = IF Head1.kind = "adopt" /\ Head1.epoch = link.epoch
               THEN [link EXCEPT !.status = "error"] ELSE link
  /\ edit' = {}
  /\ UNCHANGED <<server, local, gen, calls, acts>>

-----------------------------------------------------------------------------
\* Mutant: the server writes over whatever revision it finds.
AcceptsAny(a, call) == TRUE

\* put: the expected revision is the stored one, none counting as 0.
Accepts(a, call) == server[a].revision = call.known.revision

\* The server answers: a read, or a write over the revision the caller knew.
Serve(c) ==
  /\ calls[c].kind # "none" /\ calls[c].answer = "pending"
  /\ calls[c].kind = "sync" => local.loaded /\ ~Queued("load")
  /\ \E a \in calls[c].account :
       LET written == [revision |-> server[a].revision + 1, pref |-> calls[c].pref] IN
       IF calls[c].kind = "put"
         THEN IF Accepts(a, calls[c])
           THEN /\ server' = [server EXCEPT ![a] = written]
                /\ calls' = [calls EXCEPT ![c].answer = "ok", ![c].doc = written]
           ELSE /\ calls' = [calls EXCEPT ![c].answer = "failed"]
                /\ UNCHANGED server
         ELSE /\ calls' = [calls EXCEPT ![c].answer = "ok", ![c].doc = server[a]]
              /\ UNCHANGED server
  /\ UNCHANGED <<stored, local, link, gen, queue, edit, acts>>

\* The request or its answer is lost: the client times out.
Lose(c) ==
  /\ calls[c].kind # "none" /\ calls[c].answer # "failed"
  /\ calls[c].kind = "sync" => local.loaded /\ ~Queued("load")
  /\ calls' = [calls EXCEPT ![c].answer = "failed"]
  /\ UNCHANGED <<server, stored, local, link, gen, queue, edit, acts>>

Stale(c) == calls[c].epoch # link.epoch
HangUp(c) == calls' = [calls EXCEPT ![c] = NoCall]

\* The epoch moved: the answer is dropped.
AnswerStale(c) ==
  /\ calls[c].answer # "pending" /\ Stale(c)
  /\ HangUp(c)
  /\ UNCHANGED <<server, stored, local, link, gen, queue, edit, acts>>

\* _synchronizeAccount after the get: adopt, or compare.
AnswerSync(c) ==
  /\ calls[c].kind = "sync" /\ calls[c].answer # "pending" /\ ~Stale(c)
  /\ IF calls[c].answer = "failed"
       THEN link' = [link EXCEPT !.status = "error"] /\ UNCHANGED queue
       ELSE IF calls[c].doc.revision > 0 /\ ~local.has
         THEN /\ link' = [link EXCEPT !.doc = calls[c].doc]
              /\ Enqueue("adopt", calls[c].doc.pref)
         ELSE /\ link' = [link EXCEPT !.doc = calls[c].doc,
                                      !.status = Pairing(calls[c].doc, local.value)]
              /\ UNCHANGED queue
  /\ HangUp(c)
  /\ UNCHANGED <<server, stored, local, gen, edit, acts>>

\* Mutant: the answer of a put is taken whatever scope it was asked in.
AnswerPutUnfenced(c) ==
  /\ calls[c].kind = "put" /\ calls[c].answer # "pending"
  /\ IF calls[c].answer = "ok"
       THEN /\ link' = [link EXCEPT !.doc = calls[c].doc,
                                    !.status = Pairing(calls[c].doc, local.value)]
            /\ HangUp(c)
       ELSE /\ calls' = [calls EXCEPT ![c] = [@ EXCEPT !.kind = "refetch", !.answer = "pending"]]
            /\ UNCHANGED link
  /\ UNCHANGED <<server, stored, local, gen, queue, edit, acts>>

\* _saveToAccount after the put: compare with the device copy of now, or refetch.
AnswerPut(c) ==
  /\ calls[c].kind = "put" /\ calls[c].answer # "pending" /\ ~Stale(c)
  /\ IF calls[c].answer = "ok"
       THEN /\ link' = [link EXCEPT !.doc = calls[c].doc,
                                    !.status = Pairing(calls[c].doc, local.value)]
            /\ HangUp(c)
       ELSE /\ calls' = [calls EXCEPT ![c] = [@ EXCEPT !.kind = "refetch", !.answer = "pending"]]
            /\ UNCHANGED link
  /\ UNCHANGED <<server, stored, local, gen, queue, edit, acts>>

\* _saveToAccount after the refetch
AnswerRefetch(c) ==
  /\ calls[c].kind = "refetch" /\ calls[c].answer # "pending" /\ ~Stale(c)
  /\ link' = IF calls[c].answer = "failed" THEN [link EXCEPT !.status = "error"]
             ELSE [link EXCEPT !.doc = calls[c].doc,
                     !.status = IF calls[c].doc.revision = 0 THEN "error" ELSE "conflict"]
  /\ HangUp(c)
  /\ UNCHANGED <<server, stored, local, gen, queue, edit, acts>>

\* Another device of the account writes.
OtherDevice(a, p) ==
  /\ server[a].revision < MaxRevision
  /\ server' = [server EXCEPT ![a] = [revision |-> @.revision + 1, pref |-> p]]
  /\ UNCHANGED <<stored, local, link, gen, queue, calls, edit, acts>>

StorageSteps ==
  \/ Start \/ Discard \/ LoadSection \/ LandSave \/ LandAdopt \/ LandUse \/ LandClear
  \/ FailClear \/ FailWrite

Answer(c) == AnswerStale(c) \/ AnswerSync(c) \/ AnswerPut(c) \/ AnswerRefetch(c)

Next ==
  \/ Load \/ UseAccount \/ Disconnect \/ Clear \/ Restart
  \/ \E p \in Prefs : Save(p)
  \/ \E c \in Calls : SaveDevice(c) \/ Retry(c) \/ \E a \in Accounts : Connect(c, a)
  \/ StorageSteps
  \/ \E c \in Calls : Serve(c) \/ Lose(c) \/ Answer(c)
  \/ \E a \in Accounts, p \in Prefs : OtherDevice(a, p)

Spec == Init /\ [][Next]_vars

\* The platform completes its calls, the client's timeouts bound every request.
FairSpec ==
  /\ Spec
  /\ WF_vars(StorageSteps)
  /\ \A c \in Calls : WF_vars(Serve(c) \/ Lose(c)) /\ WF_vars(Answer(c))

-----------------------------------------------------------------------------
Account == {{}} \cup {{a} : a \in Accounts}
Doc == [revision : Nat, pref : Prefs]
Status == {"localOnly", "checking", "serverEmpty", "synced", "conflict", "error"}

\* Every variable holds a value of the shape the code gives it.
TypeOK ==
  /\ server \in [Accounts -> Doc]
  /\ stored \in {{}} \cup {{p} : p \in Prefs}
  /\ local \in [value : Prefs, has : BOOLEAN, owned : BOOLEAN, loaded : BOOLEAN]
  /\ link \in [account : Account, doc : Doc, status : Status, epoch : Nat]
  /\ gen \in [writes : Nat, clears : Nat]
  /\ queue \in Seq([kind : {"load", "save", "use", "adopt", "clear"}, pref : Prefs, epoch : Nat,
                    writes : Nat, clears : Nat, writing : BOOLEAN])
  /\ calls \in [Calls -> [kind : {"none", "sync", "put", "refetch"}, account : Account,
                          epoch : Nat, known : Doc, pref : Prefs,
                          answer : {"pending", "ok", "failed"}, doc : Doc]]
  /\ edit \in {{}} \cup {{p} : p \in Prefs}
  /\ acts \in 0 .. MaxActs

\* The document the store pairs the device with is one of the account it is connected
\* to, never a newer revision than the account has and never another account's: an
\* answer that an account switch overtook is dropped (the epochs of _synchronizeAccount
\* and _saveToAccount, disconnectAccount).
PairedWithOwnAccount ==
  link.doc.revision > 0 =>
    \E a \in link.account :
      /\ link.doc.revision <= server[a].revision
      /\ link.doc.revision = server[a].revision => link.doc = server[a]

\* The user's newest edit is what the device holds once its storage is idle: no load,
\* adoption or earlier choice that was under way replaces it (the fences of _saveLocal).
EditKept == edit # {} /\ queue = << >> /\ local.loaded => edit = {local.value}

\* A section passes no fence of a later generation, and only the head is under way.
QueueFenced ==
  /\ \A j \in 1 .. Len(queue) : queue[j].writes <= gen.writes
  /\ \A j \in 2 .. Len(queue) : ~queue[j].writing

\* A synchronization of the present epoch is answered after the load.
SyncAfterLoad ==
  \A c \in Calls :
    calls[c].kind = "sync" /\ calls[c].answer # "pending" /\ ~Stale(c) => local.loaded

\* The k-th section saves the newest edit: it will pass its fence, and nothing behind
\* it was chosen by the user.
Deciding(k) ==
  /\ queue[k].kind = "save" /\ edit = {queue[k].pref} /\ queue[k].clears = gen.clears
  /\ \A j \in k + 1 .. Len(queue) : queue[j].kind \in {"load", "adopt"}

\* The newest edit has landed: the sections left will fail their fences, or read it.
Landed ==
  /\ stored = edit
  /\ \A j \in 1 .. Len(queue) : ~queue[j].writing
  /\ \/ /\ local.loaded /\ local.has /\ local.owned /\ edit = {local.value}
        /\ \A j \in 1 .. Len(queue) :
             \/ queue[j].kind = "adopt"
             \/ queue[j].kind = "load" /\ queue[j].writes < gen.writes
     \/ /\ ~local.loaded
        /\ \A j \in 1 .. Len(queue) : queue[j].kind = "load" /\ queue[j].writes = gen.writes

\* What makes EditKept inductive: the newest edit has landed, or will.
EditDecided == edit # {} => Landed \/ \E k \in 1 .. Len(queue) : Deciding(k)

EditInv == QueueFenced /\ SyncAfterLoad /\ EditDecided

\* An account's document is only ever replaced by a device that knew exactly that
\* document (put, with the document the store pairs its saves with).
NoBlindUpload ==
  [][\A c \in Calls, a \in Accounts :
       calls[c].answer = "pending" /\ calls'[c].answer = "ok" /\ server'[a] # server[a] =>
         calls[c].known = server[a]]_vars

\* The store never stays in "checking", where it refuses to save to the account and
\* to retry, whichever call failed, was lost or was fenced off.
CheckingEnds == link.status = "checking" ~> link.status # "checking"
=============================================================================
