------------------------ MODULE PreferenceSync_proofs ------------------------
(***************************************************************************)
(* Proofs about PreferenceSync for any accounts, any documents, any number *)
(* of remote calls in flight and any bounds: which account a document of   *)
(* the store belongs to, what an accepted upload replaces, and that the    *)
(* section of the storage queue that decides what is stored holds the      *)
(* user's newest edit.                                                     *)
(***************************************************************************)
EXTENDS PreferenceSync, TLAPS

SectionRec ==
  [kind : {"load", "save", "use", "adopt", "clear"}, pref : Prefs, epoch : Nat,
   writes : Nat, clears : Nat, writing : BOOLEAN]
CallRec ==
  [kind : {"none", "sync", "put", "refetch"}, account : Account, epoch : Nat, known : Doc,
   pref : Prefs, answer : {"pending", "ok", "failed"}, doc : Doc]
LinkRec == [account : Account, doc : Doc, status : Status, epoch : Nat]
LocalRec == [value : Prefs, has : BOOLEAN, owned : BOOLEAN, loaded : BOOLEAN]

\* The constant records are of the declared shapes.
LEMMA Shapes == /\ NoDoc \in Doc /\ NoCall \in CallRec /\ Fresh \in LocalRec
                /\ \A e \in Nat : Unlinked(e) \in LinkRec
BY SyncAssumption DEF NoDoc, Doc, NoCall, CallRec, Account, Fresh, LocalRec, Unlinked, LinkRec, Status

\* A queue stays a queue when a section is appended, or its head taken or changed.
LEMMA QueueShapes ==
  ASSUME TypeOK
  PROVE  /\ \A s \in SectionRec : Append(queue, s) \in Seq(SectionRec)
         /\ queue # << >> => /\ Head1 \in SectionRec
                             /\ Tail(queue) \in Seq(SectionRec)
                             /\ [queue EXCEPT ![1].writing = TRUE] \in Seq(SectionRec)
<1>1. queue \in Seq(SectionRec)
  BY DEF TypeOK, SectionRec
<1>2. \A s \in SectionRec : Append(queue, s) \in Seq(SectionRec)
  BY <1>1
<1>3. ASSUME queue # << >>
      PROVE  /\ Head1 \in SectionRec
             /\ Tail(queue) \in Seq(SectionRec)
             /\ [queue EXCEPT ![1].writing = TRUE] \in Seq(SectionRec)
  <2>1. Len(queue) \in Nat /\ Len(queue) # 0 /\ 1 \in 1 .. Len(queue)
    BY <1>1, <1>3
  <2>2. Head1 \in SectionRec /\ Tail(queue) \in Seq(SectionRec)
    BY <1>1, <1>3, <2>1 DEF Head1
  <2>3. [queue[1] EXCEPT !.writing = TRUE] \in SectionRec
    BY <2>2 DEF Head1, SectionRec
  <2>4. [queue EXCEPT ![1].writing = TRUE] \in Seq(SectionRec)
    BY <1>1, <2>1, <2>3
  <2> QED
    BY <2>2, <2>4
<1> QED
  BY <1>2, <1>3

\* The parts of the type invariant, under the names used here.
LEMMA Typed ==
  ASSUME TypeOK
  PROVE  /\ server \in [Accounts -> Doc]
         /\ stored \in {{}} \cup {{p} : p \in Prefs}
         /\ local \in LocalRec
         /\ link \in LinkRec
         /\ gen \in [writes : Nat, clears : Nat]
         /\ queue \in Seq(SectionRec)
         /\ calls \in [Calls -> CallRec]
         /\ edit \in {{}} \cup {{p} : p \in Prefs}
         /\ acts \in 0 .. MaxActs
BY DEF TypeOK, LocalRec, LinkRec, SectionRec, CallRec

\* Its converse, for the state after a step.
LEMMA Retyped ==
  ASSUME (server \in [Accounts -> Doc])',
         (stored \in {{}} \cup {{p} : p \in Prefs})',
         (local \in LocalRec)', (link \in LinkRec)',
         (gen \in [writes : Nat, clears : Nat])',
         (queue \in Seq(SectionRec))', (calls \in [Calls -> CallRec])',
         (edit \in {{}} \cup {{p} : p \in Prefs})', (acts \in 0 .. MaxActs)'
  PROVE  TypeOK'
BY DEF TypeOK, LocalRec, LinkRec, SectionRec, CallRec, Doc, Account, Status

\* What the store enqueues, asks and claims has the declared shapes.
LEMMA MadeShapes ==
  ASSUME TypeOK
  PROVE  /\ \A kind \in {"load", "save", "use", "adopt", "clear"}, p \in Prefs :
              Section(kind, p) \in SectionRec
         /\ \A d \in Doc, p \in Prefs : Pairing(d, p) \in Status
         /\ \A p \in Prefs : AfterReset(p) \in Status /\ Reconciled(p) \in LinkRec
         /\ \A s \in SectionRec, p \in Prefs : Paired(s, p) \in LinkRec
BY Typed DEF Section, SectionRec, LinkRec, Pairing, Status, AfterReset, Reconciled, Paired

\* A call that starts has the declared shape.
LEMMA CallShapes ==
  ASSUME TypeOK, NEW c \in Calls, NEW kind \in {"sync", "put"}, NEW p \in Prefs,
         NEW lnk \in LinkRec, Call(c, kind, p, lnk)
  PROVE  calls' \in [Calls -> CallRec]
<1>1. [NoCall EXCEPT !.kind = kind, !.account = lnk.account, !.epoch = lnk.epoch,
                     !.known = lnk.doc, !.pref = p] \in CallRec
  BY Shapes DEF LinkRec, CallRec, NoCall
<1> QED
  BY <1>1, Typed DEF Call

\* Asking the store for something keeps the types.
LEMMA RequestsTyped ==
  ASSUME TypeOK,
         \/ Load \/ UseAccount \/ Disconnect \/ Clear \/ Restart
         \/ \E p \in Prefs : Save(p)
         \/ \E c \in Calls : SaveDevice(c) \/ Retry(c) \/ \E a \in Accounts : Connect(c, a)
  PROVE  TypeOK'
<1> USE Typed, Retyped, Shapes, QueueShapes, MadeShapes, SyncAssumption
<1>1. Default \in Prefs /\ link.doc.pref \in Prefs /\ link.doc \in Doc /\ link.epoch + 1 \in Nat
  BY DEF LinkRec, Doc
<1>2. ASSUME Act PROVE (acts \in 0 .. MaxActs)'
  BY <1>2 DEF Act
<1>3. CASE Load
  BY <1>1, <1>3 DEF Load, Enqueue
<1>4. CASE UseAccount
  BY <1>1, <1>2, <1>4 DEF UseAccount, Enqueue
<1>5. CASE Disconnect
  BY <1>1, <1>2, <1>5 DEF Disconnect
<1>6. CASE Clear
  <2>1. [Section("clear", Default) EXCEPT !.epoch = link.epoch + 1] \in SectionRec
    BY <1>1 DEF SectionRec
  <2>2. [link EXCEPT !.epoch = @ + 1] \in LinkRec
    BY <1>1 DEF LinkRec
  <2> QED
    BY <1>2, <1>6, <2>1, <2>2 DEF Clear
<1>7. CASE Restart
  <2>1. stored' \in {{}} \cup {{p} : p \in Prefs}
    BY <1>7 DEF Restart, Torn, SectionRec
  <2>2. << >> \in Seq(SectionRec)
    OBVIOUS
  <2> QED
    BY <1>1, <1>2, <1>7, <2>1, <2>2 DEF Restart
<1>8. CASE \E p \in Prefs : Save(p)
  BY <1>2, <1>8 DEF Save, Enqueue
<1>9. ASSUME NEW c \in Calls, SaveDevice(c) PROVE TypeOK'
  <2>1. local.value \in Prefs
    BY DEF LocalRec
  <2>2. calls' \in [Calls -> CallRec]
    BY <1>9, <2>1, CallShapes DEF SaveDevice, Put
  <2>3. link' \in LinkRec
    BY <1>9 DEF SaveDevice, Put, LinkRec, Status
  <2> QED
    BY <1>2, <1>9, <2>2, <2>3 DEF SaveDevice
<1>10. ASSUME NEW c \in Calls, NEW lnk \in LinkRec, Synchronize(c, lnk)
       PROVE  /\ (link \in LinkRec)' /\ (calls \in [Calls -> CallRec])'
              /\ (queue \in Seq(SectionRec))'
  <2>1. link' \in LinkRec
    <3>1. link' = [lnk EXCEPT !.epoch = @ + 1, !.status = "checking"]
      BY <1>10 DEF Synchronize
    <3> QED
      <4>1. lnk.epoch \in Nat /\ lnk.account \in Account /\ lnk.doc \in Doc
        BY ONLY lnk \in LinkRec DEF LinkRec
      <4>2. lnk.epoch + 1 \in Nat /\ "checking" \in Status
        BY <4>1 DEF Status
      <4>3. [lnk EXCEPT !.epoch = lnk.epoch + 1, !.status = "checking"] \in LinkRec
        BY <4>1, <4>2 DEF LinkRec
      <4> QED
        BY <3>1, <4>3
  <2>2. calls' \in [Calls -> CallRec]
    BY <1>1, <1>10, <2>1, CallShapes DEF Synchronize
  <2>3. queue' \in Seq(SectionRec)
    BY <1>1, <1>10 DEF Synchronize, Enqueue
  <2> QED
    BY <2>1, <2>2, <2>3
<1>11. ASSUME NEW c \in Calls, Retry(c) PROVE TypeOK'
  <2>1. Synchronize(c, link) /\ link \in LinkRec
    BY <1>11 DEF Retry
  <2>2. /\ (link \in LinkRec)' /\ (calls \in [Calls -> CallRec])' /\ (queue \in Seq(SectionRec))'
    BY <2>1, <1>10
  <2> QED
    BY <1>2, <1>11, <2>2 DEF Retry
<1>12. ASSUME NEW c \in Calls, NEW a \in Accounts, Connect(c, a) PROVE TypeOK'
  <2>1. [link EXCEPT !.account = {a}] \in LinkRec
    BY DEF LinkRec, Account
  <2>2. Synchronize(c, [link EXCEPT !.account = {a}])
    BY <1>12 DEF Connect
  <2>3. /\ (link \in LinkRec)' /\ (calls \in [Calls -> CallRec])' /\ (queue \in Seq(SectionRec))'
    BY <2>1, <2>2, <1>10
  <2> QED
    BY <1>2, <1>12, <2>3 DEF Connect
<1> QED
  BY <1>3, <1>4, <1>5, <1>6, <1>7, <1>8, <1>9, <1>11, <1>12

\* The sections of the storage queue keep the types.
LEMMA StorageTyped ==
  ASSUME TypeOK, StorageSteps
  PROVE  TypeOK'
<1> USE Typed, Retyped, Shapes, QueueShapes, MadeShapes, SyncAssumption
<1>1. Default \in Prefs /\ local.value \in Prefs /\ gen.writes + 1 \in Nat
  BY DEF LocalRec
<1>2. ASSUME NEW s \in SectionRec PROVE s.pref \in Prefs /\ s.epoch \in Nat
  BY DEF SectionRec
<1>3. \A s \in Status : [link EXCEPT !.status = s] \in LinkRec
  BY DEF LinkRec
<1>4. {"synced", "error"} \subseteq Status
  BY DEF Status
<1>5. CASE Start
  BY <1>5 DEF Start
<1>6. CASE Discard
  BY <1>1, <1>6 DEF Discard
<1>7. CASE LoadSection
  <2>1. stored # {} => (CHOOSE p \in stored : TRUE) \in Prefs
    OBVIOUS
  <2>2. (local \in LocalRec)'
    <3>1. [local EXCEPT !.loaded = TRUE] \in LocalRec
      BY DEF LocalRec
    <3>2. [Fresh EXCEPT !.loaded = TRUE, !.owned = local.owned] \in LocalRec
      BY <1>1 DEF LocalRec, Fresh
    <3>3. \A p \in Prefs : [value |-> p, has |-> TRUE, owned |-> TRUE, loaded |-> TRUE] \in LocalRec
      BY DEF LocalRec
    <3> QED
      BY <1>7, <2>1, <3>1, <3>2, <3>3 DEF LoadSection
  <2>3. (gen \in [writes : Nat, clears : Nat])' /\ (edit \in {{}} \cup {{p} : p \in Prefs})'
    BY <1>7 DEF LoadSection
  <2> QED
    BY <1>7, <2>2, <2>3 DEF LoadSection
<1>8. ASSUME NEW p \in Prefs, NEW o \in BOOLEAN, Land(p, o), queue # << >>
      PROVE  /\ (server \in [Accounts -> Doc])' /\ (stored \in {{}} \cup {{q} : q \in Prefs})'
             /\ (local \in LocalRec)' /\ (gen \in [writes : Nat, clears : Nat])'
             /\ (queue \in Seq(SectionRec))' /\ (edit \in {{}} \cup {{q} : q \in Prefs})'
             /\ (acts \in 0 .. MaxActs)'
  BY <1>8 DEF Land, LocalRec
<1>9. CASE LandSave
  <2>1. Head1 \in SectionRec /\ Head1.pref \in Prefs
    BY <1>2, <1>9 DEF LandSave, Writing
  <2>2. (link \in LinkRec)' /\ (calls \in [Calls -> CallRec])'
    <3>1. ASSUME NEW c \in Calls, Put(c, Head1.pref)
          PROVE  (link \in LinkRec)' /\ (calls \in [Calls -> CallRec])'
      <4>1. calls' \in [Calls -> CallRec]
        BY <2>1, <3>1, CallShapes DEF Put
      <4>2. link' \in LinkRec
        BY <3>1 DEF Put, LinkRec, Status
      <4> QED
        BY <4>1, <4>2
    <3> QED
      BY <1>9, <2>1, <3>1 DEF LandSave
  <2> QED
    BY <1>8, <1>9, <2>1, <2>2 DEF LandSave, Writing
<1>10. CASE LandAdopt
  <2>1. Head1 \in SectionRec /\ Head1.pref \in Prefs
    BY <1>2, <1>10 DEF LandAdopt, Writing
  <2> QED
    BY <1>8, <1>10, <2>1 DEF LandAdopt, Writing
<1>11. CASE LandUse
  <2>1. Head1 \in SectionRec /\ Head1.pref \in Prefs
    BY <1>2, <1>11 DEF LandUse, Writing
  <2>2. link' \in LinkRec
    BY <1>3, <1>4, <1>11, <2>1 DEF LandUse
  <2> QED
    BY <1>8, <1>11, <2>1, <2>2 DEF LandUse, Writing
<1>12. CASE LandClear
  <2>1. [Fresh EXCEPT !.loaded = TRUE] \in LocalRec
    BY DEF LocalRec
  <2> QED
    BY <1>1, <1>3, <1>12, <2>1 DEF LandClear, Writing
<1>13. queue # << >> => Torn \subseteq {{}} \cup {{p} : p \in Prefs}
  BY <1>2 DEF Torn
<1>14. CASE FailClear
  BY <1>1, <1>3, <1>13, <1>14 DEF FailClear, Writing
<1>15. CASE FailWrite
  BY <1>3, <1>4, <1>13, <1>15 DEF FailWrite
<1> QED
  BY <1>5, <1>6, <1>7, <1>9, <1>10, <1>11, <1>12, <1>14, <1>15 DEF StorageSteps

\* A call that is answered, or goes on to its second request, keeps its shape.
LEMMA AnswerShapes ==
  ASSUME TypeOK, NEW c \in Calls, NEW x \in {"pending", "ok", "failed"}
  PROVE  /\ [calls EXCEPT ![c].answer = x] \in [Calls -> CallRec]
         /\ \A d \in Doc : [calls EXCEPT ![c].answer = x, ![c].doc = d] \in [Calls -> CallRec]
         /\ [calls EXCEPT ![c] = [@ EXCEPT !.kind = "refetch", !.answer = x]] \in [Calls -> CallRec]
<1>1. calls \in [Calls -> CallRec] /\ calls[c] \in CallRec
  BY Typed
<1>2. /\ [calls[c] EXCEPT !.answer = x] \in CallRec
      /\ \A d \in Doc : [calls[c] EXCEPT !.answer = x, !.doc = d] \in CallRec
      /\ [calls[c] EXCEPT !.kind = "refetch", !.answer = x] \in CallRec
  BY <1>1 DEF CallRec
<1>3. \A r \in CallRec : [calls EXCEPT ![c] = r] \in [Calls -> CallRec]
  BY <1>1
<1>4. [calls EXCEPT ![c].answer = x] = [calls EXCEPT ![c] = [calls[c] EXCEPT !.answer = x]]
  BY <1>1
<1>5. \A d \in Doc : [calls EXCEPT ![c].answer = x, ![c].doc = d]
                       = [calls EXCEPT ![c] = [calls[c] EXCEPT !.answer = x, !.doc = d]]
  BY <1>1
<1> QED
  BY <1>2, <1>3, <1>4, <1>5

\* The server, the network, the answers and the other devices keep the types.
LEMMA RemoteTyped ==
  ASSUME TypeOK,
         \/ \E c \in Calls : Serve(c) \/ Lose(c) \/ Answer(c)
         \/ \E a \in Accounts, p \in Prefs : OtherDevice(a, p)
  PROVE  TypeOK'
<1>0. /\ server \in [Accounts -> Doc] /\ link \in LinkRec /\ local \in LocalRec
      /\ calls \in [Calls -> CallRec] /\ queue \in Seq(SectionRec)
  BY Typed
<1>1. ASSUME NEW c \in Calls
      PROVE  calls[c].doc \in Doc /\ calls[c].pref \in Prefs /\ calls[c].doc.pref \in Prefs
  BY <1>0 DEF CallRec, Doc
<1>2. ASSUME NEW c \in Calls, HangUp(c) PROVE (calls \in [Calls -> CallRec])'
  BY <1>0, <1>2, Shapes DEF HangUp
<1>3. \A d \in Doc, s \in Status : /\ [link EXCEPT !.status = s] \in LinkRec
                                   /\ [link EXCEPT !.doc = d] \in LinkRec
                                   /\ [link EXCEPT !.doc = d, !.status = s] \in LinkRec
  BY <1>0 DEF LinkRec
<1>4. {"conflict", "error"} \subseteq Status /\ local.value \in Prefs
  BY <1>0 DEF Status, LocalRec
<1>5. ASSUME NEW c \in Calls, Serve(c) PROVE TypeOK'
  <2>1. PICK a \in calls[c].account :
          LET written == [revision |-> server[a].revision + 1, pref |-> calls[c].pref] IN
          IF calls[c].kind = "put"
            THEN IF Accepts(a, calls[c])
              THEN /\ server' = [server EXCEPT ![a] = written]
                   /\ calls' = [calls EXCEPT ![c].answer = "ok", ![c].doc = written]
              ELSE /\ calls' = [calls EXCEPT ![c].answer = "failed"]
                   /\ UNCHANGED server
            ELSE /\ calls' = [calls EXCEPT ![c].answer = "ok", ![c].doc = server[a]]
                 /\ UNCHANGED server
    BY <1>5 DEF Serve
  <2>2. a \in Accounts
    BY <1>0 DEF CallRec, Account
  <2>5. \A d \in Doc : [calls EXCEPT ![c].answer = "ok", ![c].doc = d] \in [Calls -> CallRec]
    BY AnswerShapes
  <2> DEFINE written == [revision |-> server[a].revision + 1, pref |-> calls[c].pref]
  <2>3. written \in Doc /\ server[a] \in Doc
    <3>1. server[a] \in Doc /\ server[a].revision \in Nat
      BY <1>0, <2>2 DEF Doc
    <3> QED
      <4>1. server[a].revision + 1 \in Nat
        BY <3>1
      <4> QED
        BY <1>1, <3>1, <4>1 DEF Doc
  <2>4. (server \in [Accounts -> Doc])' /\ (calls \in [Calls -> CallRec])'
    <3> HIDE DEF written
    <3>1. CASE calls[c].kind = "put" /\ Accepts(a, calls[c])
      BY <1>0, <2>1, <2>2, <2>3, <2>5, <3>1 DEF written
    <3>2. CASE calls[c].kind = "put" /\ ~Accepts(a, calls[c])
      BY <1>0, <2>1, <3>2, AnswerShapes
    <3>3. CASE calls[c].kind # "put"
      BY <1>0, <2>1, <2>3, <2>5, <3>3
    <3> QED
      BY <3>1, <3>2, <3>3
  <2> QED
    BY <1>5, <2>4, Typed, Retyped DEF Serve
<1>6. ASSUME NEW c \in Calls, Lose(c) PROVE TypeOK'
  BY <1>6, Typed, Retyped, AnswerShapes DEF Lose
<1>7. ASSUME NEW c \in Calls, AnswerStale(c) PROVE TypeOK'
  BY <1>2, <1>7, Typed, Retyped DEF AnswerStale
<1>8. ASSUME NEW c \in Calls, AnswerSync(c) PROVE TypeOK'
  <2>1. (calls \in [Calls -> CallRec])'
    BY <1>2, <1>8 DEF AnswerSync
  <2>2. Pairing(calls[c].doc, local.value) \in Status
    BY <1>1, <1>4, MadeShapes
  <2>3. (link \in LinkRec)'
    <3>1. /\ [link EXCEPT !.status = "error"] \in LinkRec
          /\ [link EXCEPT !.doc = calls[c].doc] \in LinkRec
          /\ [link EXCEPT !.doc = calls[c].doc, !.status = Pairing(calls[c].doc, local.value)]
               \in LinkRec
      BY <1>1, <1>3, <1>4, <2>2
    <3> QED
      BY <1>8, <3>1 DEF AnswerSync
  <2>4. (queue \in Seq(SectionRec))'
    BY <1>0, <1>1, <1>8, MadeShapes, QueueShapes DEF AnswerSync, Enqueue
  <2> QED
    BY <1>8, <2>1, <2>3, <2>4, Typed, Retyped DEF AnswerSync
<1>9. ASSUME NEW c \in Calls, AnswerPut(c) PROVE TypeOK'
  <2>1. [calls EXCEPT ![c] = [@ EXCEPT !.kind = "refetch", !.answer = "pending"]]
          \in [Calls -> CallRec]
    BY AnswerShapes
  <2>2. (calls \in [Calls -> CallRec])'
    BY <1>2, <1>9, <2>1 DEF AnswerPut
  <2>3. Pairing(calls[c].doc, local.value) \in Status
    BY <1>1, <1>4, MadeShapes
  <2>4. (link \in LinkRec)'
    <3>1. [link EXCEPT !.doc = calls[c].doc, !.status = Pairing(calls[c].doc, local.value)]
            \in LinkRec
      BY <1>1, <1>3, <2>3
    <3> QED
      BY <1>0, <1>9, <3>1 DEF AnswerPut
  <2> QED
    BY <1>9, <2>2, <2>4, Typed, Retyped DEF AnswerPut
<1>10. ASSUME NEW c \in Calls, AnswerRefetch(c) PROVE TypeOK'
  BY <1>1, <1>2, <1>3, <1>4, <1>10, Typed, Retyped DEF AnswerRefetch
<1>11. ASSUME NEW a \in Accounts, NEW p \in Prefs, OtherDevice(a, p) PROVE TypeOK'
  BY <1>11, Typed, Retyped DEF OtherDevice, Doc
<1> QED
  BY <1>5, <1>6, <1>7, <1>8, <1>9, <1>10, <1>11 DEF Answer

\* Every variable keeps its shape.
THEOREM TypeCorrect == Spec => []TypeOK
<1>1. Init => TypeOK
  BY Shapes, SyncAssumption, Retyped DEF Init, TypeOK, Account, Doc, Fresh, Unlinked, NoDoc, NoCall, Status
<1>2. TypeOK /\ [Next]_vars => TypeOK'
  <2> SUFFICES ASSUME TypeOK, [Next]_vars PROVE TypeOK'
    OBVIOUS
  <2>1. CASE UNCHANGED vars
    BY <2>1 DEF vars, TypeOK
  <2> QED
    BY <2>1, RequestsTyped, StorageTyped, RemoteTyped DEF Next
<1> QED
  BY <1>1, <1>2, PTL DEF Spec

-------------------------------------------------------------------------------
\* A document an account had: not newer than its present one, and the same if
\* it has the same revision.
OfAccount(a, d) ==
  d.revision <= server[a].revision /\ (d.revision = server[a].revision => d = server[a])

\* What the store and its calls hold are documents their accounts had, and a call that
\* is not stale is one of the connected account.
Linked ==
  /\ \A a \in Accounts : OfAccount(a, NoDoc)
  /\ link.account = {} => link.doc = NoDoc
  /\ \A a \in link.account : OfAccount(a, link.doc)
  /\ \A c \in Calls : \A a \in calls[c].account :
       OfAccount(a, calls[c].known) /\ OfAccount(a, calls[c].doc)
  /\ \A c \in Calls : calls[c].kind # "none" =>
       /\ calls[c].account # {} /\ calls[c].epoch <= link.epoch
       /\ calls[c].epoch = link.epoch => calls[c].account = link.account

\* The account of the link, and of a call, is one account or none.
LEMMA AccountsTyped ==
  ASSUME TypeOK
  PROVE  /\ \A a \in link.account : a \in Accounts /\ link.account = {a}
         /\ \A c \in Calls : \A a \in calls[c].account : a \in Accounts /\ calls[c].account = {a}
<1>1. link.account \in Account /\ \A c \in Calls : calls[c].account \in Account
  BY DEF TypeOK
<1> QED
  BY <1>1 DEF Account

\* Steps of the pages and the storage that start no call keep the link's document.
LEMMA KeptLinked ==
  ASSUME TypeOK, TypeOK', Linked, UNCHANGED server, UNCHANGED calls,
         link'.account = link.account, link'.doc = link.doc, link'.epoch >= link.epoch
  PROVE  Linked'
<1>1. \A a : \A d : OfAccount(a, d) => OfAccount(a, d)'
  BY DEF OfAccount
<1>2. \A c \in Calls : calls[c].epoch \in Nat
  BY DEF TypeOK
<1>3. link.epoch \in Nat /\ link'.epoch \in Nat
  BY DEF TypeOK
<1>4. (\A c \in Calls : calls[c].kind # "none" =>
         /\ calls[c].account # {} /\ calls[c].epoch <= link.epoch
         /\ calls[c].epoch = link.epoch => calls[c].account = link.account)'
  BY <1>2, <1>3 DEF Linked
<1> QED
  BY <1>1, <1>4 DEF Linked, OfAccount

\* A call that starts knows the account and the document of that moment.
LEMMA CallLinked ==
  ASSUME TypeOK, TypeOK', Linked, UNCHANGED server,
         NEW c \in Calls, NEW kind \in {"sync", "put"}, NEW p \in Prefs,
         calls' = [calls EXCEPT ![c] = [NoCall EXCEPT !.kind = kind, !.account = link'.account,
                     !.epoch = link'.epoch, !.known = link'.doc, !.pref = p]],
         link'.doc = link.doc,
         link'.account # {},
         \/ link'.account = link.account /\ link'.epoch >= link.epoch
         \/ link.account = {} /\ link'.epoch > link.epoch
  PROVE  Linked'
<1>1. \A a : \A d : OfAccount(a, d) => OfAccount(a, d)'
  BY DEF OfAccount
<1>2. \A a \in link'.account : a \in Accounts
  <2>1. link'.account \in Account
    BY DEF TypeOK
  <2> QED
    BY <2>1 DEF Account
<1>3. (\A a \in link.account : OfAccount(a, link.doc) /\ OfAccount(a, NoDoc))'
  <2>1. \A a \in link'.account : OfAccount(a, link.doc) /\ OfAccount(a, NoDoc)
    BY <1>2 DEF Linked
  <2> QED
    BY <2>1 DEF OfAccount
<1>4. (link.account = {} => link.doc = NoDoc)'
  BY DEF Linked
<1>5. /\ calls'[c].account = link'.account /\ calls'[c].known = link'.doc
      /\ calls'[c].doc = NoDoc /\ calls'[c].epoch = link'.epoch
  BY DEF TypeOK, NoCall
<1>6. \A e \in Calls \ {c} : calls'[e] = calls[e]
  BY DEF TypeOK
<1>7. (\A e \in Calls : \A a \in calls[e].account :
         OfAccount(a, calls[e].known) /\ OfAccount(a, calls[e].doc))'
  <2>1. ASSUME NEW a \in calls'[c].account
        PROVE  OfAccount(a, calls[c].known)' /\ OfAccount(a, calls[c].doc)'
    BY <1>3, <1>5 DEF OfAccount
  <2>2. ASSUME NEW e \in Calls \ {c}, NEW a \in calls'[e].account
        PROVE  OfAccount(a, calls[e].known)' /\ OfAccount(a, calls[e].doc)'
    BY <1>6 DEF Linked, OfAccount
  <2> QED
    BY <2>1, <2>2
<1>8. \A e \in Calls : calls'[e].kind # "none" =>
        /\ calls'[e].account # {} /\ calls'[e].epoch <= link'.epoch
        /\ calls'[e].epoch = link'.epoch => calls'[e].account = link'.account
  <2>1. \A e \in Calls : calls[e].epoch \in Nat
    BY DEF TypeOK
  <2>2. link.epoch \in Nat /\ link'.epoch \in Nat
    BY DEF TypeOK
  <2> QED
    BY <1>5, <1>6, <2>1, <2>2 DEF Linked
<1>9. \A a \in Accounts : OfAccount(a, NoDoc)'
  BY <1>1 DEF Linked
<1> QED
  BY <1>3, <1>4, <1>7, <1>8, <1>9 DEF Linked

\* Signing out, and a restart, leave no document behind; no call stays current.
LEMMA LeaveLinked ==
  ASSUME TypeOK, TypeOK', Linked, UNCHANGED server, UNCHANGED calls,
         link' = Unlinked(link.epoch + 1)
  PROVE  Linked'
<1>1. \A a : \A d : OfAccount(a, d) => OfAccount(a, d)'
  BY DEF OfAccount
<1>2. link'.account = {} /\ link'.doc = NoDoc /\ link'.epoch = link.epoch + 1
  BY DEF Unlinked
<1>3. \A c \in Calls : calls[c].epoch \in Nat
  BY DEF TypeOK
<1>4. link.epoch \in Nat
  BY DEF TypeOK
<1>5. \A c \in Calls : calls'[c].kind # "none" =>
        calls'[c].account # {} /\ calls'[c].epoch < link'.epoch
  BY <1>2, <1>3, <1>4 DEF Linked
<1>6. \A c \in Calls : calls'[c].kind # "none" =>
        /\ calls'[c].account # {} /\ calls'[c].epoch <= link'.epoch
        /\ calls'[c].epoch = link'.epoch => calls'[c].account = link'.account
  BY <1>2, <1>3, <1>4, <1>5
<1> QED
  BY <1>1, <1>2, <1>6 DEF Linked, OfAccount

\* When an account's document moves to its next revision, everything known of it
\* before stays a document it had.
LEMMA GrownOfAccount ==
  ASSUME TypeOK, NEW b \in Accounts, NEW p \in Prefs,
         server' = [server EXCEPT ![b] = [revision |-> server[b].revision + 1, pref |-> p]]
  PROVE  \A a \in Accounts : \A d \in Doc : OfAccount(a, d) => OfAccount(a, d)'
BY DEF TypeOK, Doc, OfAccount

\* Another device's write only makes what the store knows older.
LEMMA OtherLinked ==
  ASSUME TypeOK, Linked, NEW b \in Accounts, NEW p \in Prefs, OtherDevice(b, p)
  PROVE  Linked'
<1>1. \A a \in Accounts : \A d \in Doc : OfAccount(a, d) => OfAccount(a, d)'
  BY GrownOfAccount DEF OtherDevice
<1>2. NoDoc \in Doc /\ link.doc \in Doc /\ link.account \subseteq Accounts
  BY Shapes, AccountsTyped DEF TypeOK
<1>3. \A c \in Calls : /\ calls[c].known \in Doc /\ calls[c].doc \in Doc
                       /\ calls[c].account \subseteq Accounts
  BY AccountsTyped DEF TypeOK
<1> QED
  BY <1>1, <1>2, <1>3 DEF Linked, OfAccount, OtherDevice

\* What the server does when it answers call c about account a.
LEMMA Served ==
  ASSUME TypeOK, NEW c \in Calls, Serve(c)
  PROVE  \E a \in calls[c].account :
           /\ a \in Accounts /\ calls[c].account = {a}
           /\ UNCHANGED link
           /\ \A e \in Calls \ {c} : calls'[e] = calls[e]
           /\ /\ calls'[c].kind = calls[c].kind /\ calls'[c].account = calls[c].account
              /\ calls'[c].epoch = calls[c].epoch /\ calls'[c].known = calls[c].known
           /\ \/ /\ server' = [server EXCEPT ![a] =
                                 [revision |-> server[a].revision + 1, pref |-> calls[c].pref]]
                 /\ server[a].revision = calls[c].known.revision
                 /\ calls'[c].doc = server'[a]
              \/ UNCHANGED server /\ calls'[c].doc \in {calls[c].doc, server[a]}
<1>1. PICK a \in calls[c].account :
        LET written == [revision |-> server[a].revision + 1, pref |-> calls[c].pref] IN
        IF calls[c].kind = "put"
          THEN IF Accepts(a, calls[c])
            THEN /\ server' = [server EXCEPT ![a] = written]
                 /\ calls' = [calls EXCEPT ![c].answer = "ok", ![c].doc = written]
            ELSE /\ calls' = [calls EXCEPT ![c].answer = "failed"]
                 /\ UNCHANGED server
          ELSE /\ calls' = [calls EXCEPT ![c].answer = "ok", ![c].doc = server[a]]
               /\ UNCHANGED server
  BY DEF Serve
<1>2. a \in Accounts /\ calls[c].account = {a}
  BY AccountsTyped
<1>3. calls \in [Calls -> CallRec] /\ server \in [Accounts -> Doc]
  BY Typed
<1>4. CASE calls[c].kind = "put" /\ Accepts(a, calls[c])
  BY <1>1, <1>2, <1>3, <1>4 DEF Accepts, CallRec, Serve
<1>5. CASE calls[c].kind = "put" /\ ~Accepts(a, calls[c])
  BY <1>1, <1>2, <1>3, <1>5 DEF CallRec, Serve
<1>6. CASE calls[c].kind # "put"
  BY <1>1, <1>2, <1>3, <1>6 DEF CallRec, Serve
<1> QED
  BY <1>4, <1>5, <1>6

\* The server's answer is a document of the account, and its write makes the others older.
LEMMA ServeLinked ==
  ASSUME TypeOK, Linked, NEW c \in Calls, Serve(c)
  PROVE  Linked'
<1>1. PICK a \in calls[c].account :
        /\ a \in Accounts /\ calls[c].account = {a}
        /\ UNCHANGED link
        /\ \A e \in Calls \ {c} : calls'[e] = calls[e]
        /\ /\ calls'[c].kind = calls[c].kind /\ calls'[c].account = calls[c].account
           /\ calls'[c].epoch = calls[c].epoch /\ calls'[c].known = calls[c].known
        /\ \/ /\ server' = [server EXCEPT ![a] =
                              [revision |-> server[a].revision + 1, pref |-> calls[c].pref]]
              /\ server[a].revision = calls[c].known.revision
              /\ calls'[c].doc = server'[a]
           \/ UNCHANGED server /\ calls'[c].doc \in {calls[c].doc, server[a]}
  BY Served
<1>2. calls[c].pref \in Prefs /\ server \in [Accounts -> Doc]
  BY DEF TypeOK
<1>3. \A b \in Accounts : \A d \in Doc : OfAccount(b, d) => OfAccount(b, d)'
  <2>1. CASE UNCHANGED server
    BY <2>1 DEF OfAccount
  <2>2. CASE server' = [server EXCEPT ![a] =
                          [revision |-> server[a].revision + 1, pref |-> calls[c].pref]]
    BY <1>1, <1>2, <2>2, GrownOfAccount
  <2> QED
    BY <1>1, <2>1, <2>2
<1>4. NoDoc \in Doc /\ link.doc \in Doc /\ link.account \subseteq Accounts
  BY Shapes, AccountsTyped DEF TypeOK
<1>5. \A e \in Calls : /\ calls[e].known \in Doc /\ calls[e].doc \in Doc
                       /\ calls[e].account \subseteq Accounts
  BY AccountsTyped DEF TypeOK
<1>6. server[a].revision \in Nat /\ (OfAccount(a, server[a]))
  BY <1>1, <1>2 DEF OfAccount, Doc
<1>7. OfAccount(a, calls[c].known)' /\ OfAccount(a, calls[c].doc)'
  <2>1. OfAccount(a, calls[c].known)'
    BY <1>1, <1>3, <1>5 DEF Linked, OfAccount
  <2>2. OfAccount(a, calls[c].doc)'
    <3>1. CASE calls'[c].doc = server'[a]
      BY <1>1, <1>2, <3>1 DEF OfAccount, Doc
    <3>2. CASE UNCHANGED server /\ calls'[c].doc \in {calls[c].doc, server[a]}
      BY <1>1, <1>6, <3>2 DEF Linked, OfAccount
    <3> QED
      BY <1>1, <3>1, <3>2
  <2> QED
    BY <2>1, <2>2
<1>8. (\A e \in Calls : \A b \in calls[e].account :
         OfAccount(b, calls[e].known) /\ OfAccount(b, calls[e].doc))'
  <2>1. ASSUME NEW e \in Calls \ {c}, NEW b \in calls'[e].account
        PROVE  OfAccount(b, calls[e].known)' /\ OfAccount(b, calls[e].doc)'
    BY <1>1, <1>3, <1>5, <2>1 DEF Linked, OfAccount
  <2> QED
    BY <1>1, <1>7, <2>1
<1>9. (\A e \in Calls : calls[e].kind # "none" =>
         /\ calls[e].account # {} /\ calls[e].epoch <= link.epoch
         /\ calls[e].epoch = link.epoch => calls[e].account = link.account)'
  BY <1>1 DEF Linked
<1>10. (/\ \A b \in Accounts : OfAccount(b, NoDoc)
        /\ link.account = {} => link.doc = NoDoc
        /\ \A b \in link.account : OfAccount(b, link.doc))'
  BY <1>1, <1>3, <1>4 DEF Linked, OfAccount
<1> QED
  BY <1>8, <1>9, <1>10 DEF Linked

\* An answer that is not stale carries a document of the connected account; a stale
\* or a lost one changes nothing of the link.
LEMMA AnswerLinked ==
  ASSUME TypeOK, Linked, NEW c \in Calls, Lose(c) \/ Answer(c)
  PROVE  Linked'
<1>1. UNCHANGED server
  BY DEF Lose, Answer, AnswerStale, AnswerSync, AnswerPut, AnswerRefetch
<1>2. \A a : \A d : OfAccount(a, d) => OfAccount(a, d)'
  BY <1>1 DEF OfAccount
<1>3. calls \in [Calls -> CallRec] /\ link \in LinkRec
  BY Typed
<1>4. /\ \A e \in Calls \ {c} : calls'[e] = calls[e]
      /\ \/ calls'[c] = NoCall
         \/ /\ calls[c].kind # "none" /\ calls'[c].epoch = calls[c].epoch
            /\ calls'[c].account = calls[c].account /\ calls'[c].known = calls[c].known
            /\ calls'[c].doc = calls[c].doc
  <2>1. CASE HangUp(c)
    BY <1>3, <2>1 DEF HangUp
  <2>2. CASE calls[c].kind # "none" /\ calls' = [calls EXCEPT ![c].answer = "failed"]
    BY <1>3, <2>2 DEF CallRec
  <2>3. CASE /\ calls[c].kind # "none"
             /\ calls' = [calls EXCEPT ![c] = [@ EXCEPT !.kind = "refetch", !.answer = "pending"]]
    BY <1>3, <2>3 DEF CallRec
  <2> QED
    BY <2>1, <2>2, <2>3 DEF Lose, Answer, AnswerStale, AnswerSync, AnswerPut, AnswerRefetch
<1>5. /\ link'.account = link.account /\ link'.epoch = link.epoch
      /\ \/ link'.doc = link.doc
         \/ /\ calls[c].kind # "none" /\ calls[c].epoch = link.epoch
            /\ link'.doc = calls[c].doc
  BY <1>3 DEF Lose, Answer, AnswerStale, AnswerSync, AnswerPut, AnswerRefetch, Stale, LinkRec
<1>6. (\A a \in link.account : OfAccount(a, link.doc))'
  BY <1>1, <1>5 DEF Linked, OfAccount
<1>7. (\A e \in Calls : \A a \in calls[e].account :
         OfAccount(a, calls[e].known) /\ OfAccount(a, calls[e].doc))'
  BY <1>1, <1>4 DEF Linked, OfAccount, NoCall
<1>8. (\A e \in Calls : calls[e].kind # "none" =>
         /\ calls[e].account # {} /\ calls[e].epoch <= link.epoch
         /\ calls[e].epoch = link.epoch => calls[e].account = link.account)'
  BY <1>4, <1>5 DEF Linked, NoCall
<1>9. (link.account = {} => link.doc = NoDoc)'
  BY <1>5 DEF Linked
<1> QED
  BY <1>1, <1>6, <1>7, <1>8, <1>9 DEF Linked, OfAccount

\* What the storage does with the store's status leaves its account, document and epoch.
LEMMA StorageLink ==
  ASSUME TypeOK, StorageSteps
  PROVE  link'.account = link.account /\ link'.doc = link.doc /\ link'.epoch = link.epoch
<1>1. link \in LinkRec
  BY Typed
<1>2. \A p, s : /\ Reconciled(p).account = link.account /\ Paired(s, p).account = link.account
                /\ Reconciled(p).doc = link.doc /\ Paired(s, p).doc = link.doc
                /\ Reconciled(p).epoch = link.epoch /\ Paired(s, p).epoch = link.epoch
  BY <1>1 DEF Reconciled, Paired, LinkRec
<1>3. CASE Start \/ Discard \/ LoadSection \/ LandAdopt \/ LandUse \/ LandClear
           \/ FailClear \/ FailWrite
  BY <1>1, <1>2, <1>3 DEF Start, Discard, LoadSection, LandAdopt, LandUse, LandClear,
     FailClear, FailWrite, LinkRec
<1>4. CASE LandSave
  <2>1. CASE \E c \in Calls : Put(c, Head1.pref)
    BY <1>1, <2>1 DEF Put, LinkRec
  <2>2. CASE link' = link \/ link' = Reconciled(Head1.pref)
    BY <1>2, <2>2
  <2> QED
    BY <1>4, <2>1, <2>2 DEF LandSave
<1> QED
  BY <1>3, <1>4 DEF StorageSteps

\* What the pages and the storage do: nothing is answered, the link's document stays,
\* or it is left with its account; a call that starts is one of the present account.
LEMMA RestLinked ==
  ASSUME TypeOK, TypeOK', Linked,
         \/ Load \/ UseAccount \/ Disconnect \/ Clear \/ Restart
         \/ \E p \in Prefs : Save(p)
         \/ \E c \in Calls : SaveDevice(c) \/ Retry(c) \/ \E a \in Accounts : Connect(c, a)
         \/ StorageSteps
  PROVE  Linked'
<1>1. link \in LinkRec /\ link.epoch \in Nat /\ link.epoch + 1 > link.epoch
  BY Typed DEF LinkRec
<1>2. CASE Load \/ UseAccount \/ \E p \in Prefs : Save(p)
  BY <1>1, <1>2, KeptLinked DEF Load, UseAccount, Save
<1>3. CASE Clear
  <2>1. link'.account = link.account /\ link'.doc = link.doc /\ link'.epoch = link.epoch + 1
    BY <1>1, <1>3 DEF Clear, LinkRec
  <2> QED
    BY <1>1, <1>3, <2>1, KeptLinked DEF Clear
<1>4. CASE Disconnect \/ Restart
  BY <1>4, LeaveLinked DEF Disconnect, Restart
<1>5. ASSUME NEW c \in Calls, NEW p \in Prefs, Put(c, p), link.account # {}, UNCHANGED server
      PROVE  Linked'
  <2>1. link'.account = link.account /\ link'.doc = link.doc /\ link'.epoch = link.epoch
    BY <1>1, <1>5 DEF Put, LinkRec
  <2>2. calls' = [calls EXCEPT ![c] = [NoCall EXCEPT !.kind = "put", !.account = link'.account,
                    !.epoch = link'.epoch, !.known = link'.doc, !.pref = p]]
    BY <1>5, <2>1 DEF Put, Call
  <2>3. link'.epoch >= link.epoch /\ UNCHANGED server /\ link'.account # {}
    BY <1>1, <1>5, <2>1
  <2> QED
    BY <2>1, <2>2, <2>3, CallLinked
<1>6. ASSUME NEW c \in Calls, SaveDevice(c) PROVE Linked'
  <2>1. local.value \in Prefs
    BY DEF TypeOK
  <2> QED
    BY <1>5, <1>6, <2>1 DEF SaveDevice
<1>7. ASSUME NEW c \in Calls, Retry(c) PROVE Linked'
  <2>1. /\ link'.account = link.account /\ link'.doc = link.doc
        /\ link'.epoch = link.epoch + 1 /\ link.account # {}
    BY <1>1, <1>7 DEF Retry, Synchronize, LinkRec
  <2>2. calls' = [calls EXCEPT ![c] = [NoCall EXCEPT !.kind = "sync", !.account = link'.account,
                    !.epoch = link'.epoch, !.known = link'.doc, !.pref = Default]]
    BY <1>7 DEF Retry, Synchronize, Call
  <2>3. link'.epoch >= link.epoch /\ UNCHANGED server /\ link'.account # {} /\ Default \in Prefs
    BY <1>1, <1>7, <2>1, SyncAssumption DEF Retry
  <2> QED
    BY <2>1, <2>2, <2>3, CallLinked
<1>8. ASSUME NEW c \in Calls, NEW a \in Accounts, Connect(c, a) PROVE Linked'
  <2>1. /\ link'.account = {a} /\ link'.doc = link.doc
        /\ link'.epoch = link.epoch + 1 /\ link.account = {}
    BY <1>1, <1>8 DEF Connect, Synchronize, LinkRec
  <2>2. calls' = [calls EXCEPT ![c] = [NoCall EXCEPT !.kind = "sync", !.account = link'.account,
                    !.epoch = link'.epoch, !.known = link'.doc, !.pref = Default]]
    BY <1>8 DEF Connect, Synchronize, Call
  <2> QED
    BY <1>1, <1>8, <2>1, <2>2, CallLinked, SyncAssumption DEF Connect
<1>9. CASE StorageSteps
  <2>1. CASE Start \/ Discard \/ LoadSection \/ LandAdopt \/ LandUse \/ LandClear
             \/ FailClear \/ FailWrite
    <3>1. UNCHANGED server /\ UNCHANGED calls
      BY <2>1 DEF Start, Discard, LoadSection, LandAdopt, LandUse, LandClear, FailClear,
                  FailWrite, Land
    <3>2. link'.account = link.account /\ link'.doc = link.doc /\ link'.epoch = link.epoch
      BY <1>9, StorageLink
    <3> QED
      BY <1>1, <3>1, <3>2, KeptLinked
  <2>2. CASE LandSave
    <3>1. Head1.pref \in Prefs /\ UNCHANGED server
      BY <2>2, QueueShapes DEF LandSave, Writing, SectionRec, Land
    <3>2. CASE Head1.epoch = link.epoch /\ link.status = "synced" /\ link.account # {}
      BY <1>5, <2>2, <3>1, <3>2 DEF LandSave
    <3>3. CASE ~(Head1.epoch = link.epoch /\ link.status = "synced" /\ link.account # {})
      <4>1. UNCHANGED calls /\ link'.account = link.account /\ link'.doc = link.doc
              /\ link'.epoch = link.epoch
        BY <1>9, <2>2, <3>3, StorageLink DEF LandSave
      <4> QED
        BY <1>1, <3>1, <4>1, KeptLinked
    <3> QED
      BY <3>2, <3>3
  <2> QED
    BY <1>9, <2>1, <2>2 DEF StorageSteps
<1> QED
  BY <1>2, <1>3, <1>4, <1>6, <1>7, <1>8, <1>9

\* The documents in flight are documents their accounts had, in every reachable state.
LEMMA AlwaysLinked == Spec => [](TypeOK /\ Linked)
<1>1. Init => TypeOK /\ Linked
  <2> SUFFICES ASSUME Init PROVE TypeOK /\ Linked
    OBVIOUS
  <2>1. TypeOK
    BY Shapes, SyncAssumption DEF Init, TypeOK, Account, Doc, Fresh, Unlinked, NoDoc, NoCall, Status
  <2>2. Linked
    BY DEF Init, Linked, OfAccount, Unlinked, NoCall, NoDoc
  <2> QED
    BY <2>1, <2>2
<1>2. TypeOK /\ Linked /\ [Next]_vars => (TypeOK /\ Linked)'
  <2> SUFFICES ASSUME TypeOK, Linked, [Next]_vars PROVE (TypeOK /\ Linked)'
    OBVIOUS
  <2>1. CASE UNCHANGED vars
    BY <2>1 DEF vars, TypeOK, Linked, OfAccount
  <2>2. CASE Next
    <3>1. TypeOK'
      BY <2>2, RequestsTyped, StorageTyped, RemoteTyped DEF Next
    <3>2. Linked'
      BY <2>2, <3>1, RestLinked, ServeLinked, AnswerLinked, OtherLinked DEF Next
    <3> QED
      BY <3>1, <3>2
  <2> QED
    BY <2>1, <2>2
<1> QED
  BY <1>1, <1>2, PTL DEF Spec

\* The store is never paired with a document of another account, or with one its
\* account never had.
THEOREM PairingCorrect == Spec => []PairedWithOwnAccount
<1>1. TypeOK /\ Linked => PairedWithOwnAccount
  <2> SUFFICES ASSUME TypeOK, Linked, link.doc.revision > 0
               PROVE  \E a \in link.account :
                        /\ link.doc.revision <= server[a].revision
                        /\ link.doc.revision = server[a].revision => link.doc = server[a]
    BY DEF PairedWithOwnAccount
  <2>1. link.account # {}
    BY DEF Linked, NoDoc
  <2> QED
    BY <2>1 DEF Linked, OfAccount
<1> QED
  BY <1>1, AlwaysLinked, PTL

\* An accepted upload replaces exactly the document its sender knew, whatever other
\* devices wrote, and whichever calls were lost, repeated or late.
THEOREM UploadsNeverBlind == Spec => NoBlindUpload
<1>1. TypeOK /\ Linked /\ [Next]_vars =>
        [\A c \in Calls, a \in Accounts :
           calls[c].answer = "pending" /\ calls'[c].answer = "ok" /\ server'[a] # server[a] =>
             calls[c].known = server[a]]_vars
  <2> SUFFICES ASSUME TypeOK, Linked, Next, NEW c \in Calls, NEW a \in Accounts,
                      calls[c].answer = "pending", calls'[c].answer = "ok",
                      server'[a] # server[a]
               PROVE  calls[c].known = server[a]
    OBVIOUS
  <2>1. ASSUME NEW d \in Calls, Serve(d) PROVE calls[c].known = server[a]
    <3>1. PICK b \in calls[d].account :
            /\ b \in Accounts
            /\ \A e \in Calls \ {d} : calls'[e] = calls[e]
            /\ \/ /\ server' = [server EXCEPT ![b] =
                                  [revision |-> server[b].revision + 1, pref |-> calls[d].pref]]
                  /\ server[b].revision = calls[d].known.revision
               \/ UNCHANGED server
      BY <2>1, Served
    <3>2. c = d
      BY <3>1
    <3>3. a = b /\ server[b].revision = calls[d].known.revision
      BY <3>1 DEF TypeOK
    <3> QED
      BY <3>1, <3>2, <3>3 DEF Linked, OfAccount
  <2>2. ASSUME NEW b \in Accounts, NEW p \in Prefs, OtherDevice(b, p) PROVE FALSE
    BY <2>2 DEF OtherDevice
  <2>3. (\E d \in Calls : Serve(d)) \/ (\E b \in Accounts, p \in Prefs : OtherDevice(b, p))
    <3>1. ASSUME Load \/ UseAccount \/ Disconnect \/ Clear \/ Restart
                 \/ \E p \in Prefs : Save(p)
          PROVE  FALSE
      BY <3>1 DEF Load, UseAccount, Disconnect, Clear, Restart, Save
    <3>2. ASSUME NEW d \in Calls,
                 SaveDevice(d) \/ Retry(d) \/ \E b \in Accounts : Connect(d, b)
          PROVE  FALSE
      BY <3>2 DEF SaveDevice, Retry, Connect
    <3>3. ASSUME StorageSteps PROVE FALSE
      BY <3>3 DEF StorageSteps, Start, Discard, LoadSection, LandSave, LandAdopt, LandUse,
                  LandClear, FailClear, FailWrite, Land
    <3>4. ASSUME NEW d \in Calls, Lose(d) \/ Answer(d) PROVE FALSE
      BY <3>4 DEF Lose, Answer, AnswerStale, AnswerSync, AnswerPut, AnswerRefetch
    <3> QED
      BY <3>1, <3>2, <3>3, <3>4 DEF Next
  <2> QED
    BY <2>1, <2>2, <2>3
<1> QED
  BY <1>1, AlwaysLinked, PTL DEF Spec, NoBlindUpload

-------------------------------------------------------------------------------
\* A section enqueued is behind all others.
LEMMA Appended ==
  ASSUME TypeOK, NEW s, s \in SectionRec, queue' = Append(queue, s)
  PROVE  /\ Len(queue) \in Nat /\ Len(queue') = Len(queue) + 1
         /\ \A j \in 1 .. Len(queue) : queue'[j] = queue[j]
         /\ queue'[Len(queue) + 1] = s
<1>1. queue \in Seq(SectionRec)
  BY Typed
<1> QED
  BY <1>1

\* The head completed: every other section moves up.
LEMMA Dropped ==
  ASSUME TypeOK, queue # << >>, queue' = Tail(queue)
  PROVE  /\ Len(queue) \in Nat \ {0} /\ Len(queue') = Len(queue) - 1
         /\ \A j \in 1 .. Len(queue') : queue'[j] = queue[j + 1]
<1>1. queue \in Seq(SectionRec)
  BY Typed
<1> QED
  BY <1>1

\* The head is under way: nothing else about the queue changes.
LEMMA Begun ==
  ASSUME TypeOK, queue # << >>, queue' = [queue EXCEPT ![1].writing = TRUE]
  PROVE  /\ Len(queue) \in Nat \ {0} /\ Len(queue') = Len(queue)
         /\ \A j \in 1 .. Len(queue) :
              /\ queue'[j].kind = queue[j].kind /\ queue'[j].pref = queue[j].pref
              /\ queue'[j].writes = queue[j].writes /\ queue'[j].clears = queue[j].clears
              /\ j # 1 => queue'[j] = queue[j]
<1>1. queue \in Seq(SectionRec)
  BY Typed
<1>2. Len(queue) \in Nat \ {0} /\ DOMAIN queue = 1 .. Len(queue)
  BY <1>1
<1>3. Len(queue') = Len(queue)
  BY <1>1, <1>2
<1>4. \A j \in 1 .. Len(queue) : queue[j] \in SectionRec /\ (j # 1 => queue'[j] = queue[j])
  BY <1>1, <1>2
<1>5. queue'[1] = [queue[1] EXCEPT !.writing = TRUE] /\ queue[1] \in SectionRec
  <2>1. 1 \in 1 .. Len(queue) /\ 1 \in DOMAIN queue
    BY <1>2
  <2>2. queue[1] \in SectionRec
    BY <1>4, <2>1
  <2>3. queue'[1] = [queue[1] EXCEPT !.writing = TRUE]
    BY <2>1
  <2> QED
    BY <2>2, <2>3
<1>6. /\ queue'[1].kind = queue[1].kind /\ queue'[1].pref = queue[1].pref
      /\ queue'[1].writes = queue[1].writes /\ queue'[1].clears = queue[1].clears
  BY <1>5 DEF SectionRec
<1>7. ASSUME NEW j \in 1 .. Len(queue)
      PROVE  /\ queue'[j].kind = queue[j].kind /\ queue'[j].pref = queue[j].pref
             /\ queue'[j].writes = queue[j].writes /\ queue'[j].clears = queue[j].clears
             /\ j # 1 => queue'[j] = queue[j]
  <2>1. CASE j = 1
    BY <1>6, <2>1
  <2>2. CASE j # 1
    <3>1. queue'[j] = queue[j]
      BY <1>4, <2>2
    <3> QED
      BY <2>2, <3>1
  <2> QED
    BY <2>1, <2>2
<1> QED
  BY <1>2, <1>3, <1>7

\* A step may append a section that carries the present generation.
Enqueues ==
  \/ \E kind \in {"load", "save", "use", "adopt"}, p \in Prefs :
       queue' = Append(queue, Section(kind, p))
  \/ queue' = Append(queue, [Section("clear", Default) EXCEPT !.epoch = link.epoch + 1])

\* It may start the head of the queue.
Starts == queue # << >> /\ queue' = [queue EXCEPT ![1].writing = TRUE]

\* It may drop the head, or the app may be restarted.
Drops == queue' = << >> \/ (queue # << >> /\ queue' = Tail(queue))

\* Every step leaves the queue as it is or does one of these; generations only grow,
\* and a clear is counted when it is enqueued.
LEMMA QueueSteps ==
  ASSUME TypeOK, Next
  PROVE  /\ gen'.writes >= gen.writes
         /\ edit' # {} => gen'.clears = gen.clears
         /\ queue' = queue \/ Enqueues \/ Starts \/ Drops
<1>1. gen \in [writes : Nat, clears : Nat] /\ Default \in Prefs
  BY Typed, SyncAssumption
<1>2. link.doc.pref \in Prefs /\ \A c \in Calls : calls[c].doc.pref \in Prefs
  BY DEF TypeOK, Doc
<1>3. UNCHANGED gen => gen'.writes >= gen.writes /\ gen'.clears = gen.clears
  BY <1>1
<1>4. CASE Load \/ UseAccount \/ \E p \in Prefs : Save(p)
  <2>1. UNCHANGED gen /\ Enqueues
    BY <1>1, <1>2, <1>4 DEF Load, UseAccount, Save, Enqueue, Enqueues
  <2> QED
    BY <1>3, <2>1
<1>5. CASE Disconnect \/ Restart \/ \E a \in Accounts, p \in Prefs : OtherDevice(a, p)
  <2>1. UNCHANGED gen /\ (queue' = queue \/ Drops)
    BY <1>5 DEF Disconnect, Restart, OtherDevice, Drops
  <2> QED
    BY <1>3, <2>1
<1>6. CASE Clear
  <2>1. Enqueues /\ edit' = {} /\ gen'.writes = gen.writes + 1
    BY <1>6 DEF Clear, Enqueues
  <2> QED
    BY <1>1, <2>1
<1>7. ASSUME NEW c \in Calls,
             \/ SaveDevice(c) \/ Retry(c) \/ \E a \in Accounts : Connect(c, a)
             \/ Serve(c) \/ Lose(c) \/ Answer(c)
      PROVE  UNCHANGED gen /\ (queue' = queue \/ Enqueues)
  <2>1. CASE SaveDevice(c) \/ Serve(c) \/ Lose(c)
    BY <2>1 DEF SaveDevice, Serve, Lose
  <2>2. CASE Retry(c) \/ \E a \in Accounts : Connect(c, a)
    <3>1. UNCHANGED gen /\ (UNCHANGED queue \/ Enqueue("load", Default))
      BY <2>2 DEF Retry, Connect, Synchronize
    <3> QED
      BY <1>1, <3>1 DEF Enqueue, Enqueues
  <2>3. CASE Answer(c)
    <3>1. UNCHANGED gen /\ (UNCHANGED queue \/ Enqueue("adopt", calls[c].doc.pref))
      BY <2>3 DEF Answer, AnswerStale, AnswerSync, AnswerPut, AnswerRefetch
    <3> QED
      BY <1>2, <3>1 DEF Enqueue, Enqueues
  <2> QED
    BY <1>7, <2>1, <2>2, <2>3
<1>8. CASE StorageSteps
  <2>1. CASE Start
    BY <1>3, <2>1 DEF Start, Starts
  <2>2. CASE ~Start
    <3>1. Drops /\ (UNCHANGED gen \/ gen' = [gen EXCEPT !.writes = @ + 1])
      BY <1>8, <2>2 DEF StorageSteps, Discard, LoadSection, LandSave, LandAdopt, LandUse,
         LandClear, FailClear, FailWrite, Land, Writing, Drops
    <3>2. gen'.writes >= gen.writes /\ gen'.clears = gen.clears
      BY <1>1, <3>1
    <3> QED
      BY <3>1, <3>2
  <2> QED
    BY <2>1, <2>2
<1> QED
  BY <1>3, <1>4, <1>5, <1>6, <1>7, <1>8 DEF Next

\* So no section is ever ahead of the generation, and only the head is under way.
LEMMA FencedStep == TypeOK /\ TypeOK' /\ QueueFenced /\ Next => QueueFenced'
<1> SUFFICES ASSUME TypeOK, TypeOK', QueueFenced, Next PROVE QueueFenced'
  OBVIOUS
<1>1. /\ gen.writes \in Nat /\ gen'.writes \in Nat /\ gen'.writes >= gen.writes
      /\ Len(queue) \in Nat /\ \A j \in 1 .. Len(queue) : queue[j].writes \in Nat
  <2>1. gen \in [writes : Nat, clears : Nat] /\ gen' \in [writes : Nat, clears : Nat]
    BY DEF TypeOK
  <2>2. queue \in Seq(SectionRec)
    BY Typed
  <2>3. Len(queue) \in Nat /\ \A j \in 1 .. Len(queue) : queue[j] \in SectionRec
    BY <2>2
  <2> QED
    BY <2>1, <2>3, QueueSteps DEF SectionRec
<1>2. CASE queue' = queue
  BY <1>1, <1>2 DEF QueueFenced
<1>3. CASE Drops
  <2>1. CASE queue' = << >>
    BY <2>1 DEF QueueFenced
  <2>2. CASE queue # << >> /\ queue' = Tail(queue)
    BY <1>1, <2>2, Dropped DEF QueueFenced
  <2> QED
    BY <1>3, <2>1, <2>2 DEF Drops
<1>4. ASSUME NEW s \in SectionRec, queue' = Append(queue, s), s.writes = gen.writes, ~s.writing
      PROVE  QueueFenced'
  BY <1>1, <1>4, Appended DEF QueueFenced
<1>5. \A kind \in {"load", "save", "use", "adopt"}, p \in Prefs :
        /\ Section(kind, p) \in SectionRec
        /\ Section(kind, p).writes = gen.writes /\ ~Section(kind, p).writing
  BY MadeShapes DEF Section
<1>6. LET s == [Section("clear", Default) EXCEPT !.epoch = link.epoch + 1] IN
        s \in SectionRec /\ s.writes = gen.writes /\ ~s.writing
  <2>1. link.epoch + 1 \in Nat /\ Section("clear", Default) \in SectionRec
    BY MadeShapes, SyncAssumption DEF TypeOK
  <2> QED
    BY <2>1 DEF Section, SectionRec
<1>7. CASE Enqueues
  BY <1>4, <1>5, <1>6, <1>7 DEF Enqueues
<1>8. CASE Starts
  BY <1>1, <1>8, Begun DEF QueueFenced, Starts
<1> QED
  BY <1>2, <1>3, <1>7, <1>8, QueueSteps

\* A restart of the app, the only thing that unloads the store, outdates its calls.
LEMMA SyncKept ==
  ASSUME TypeOK, TypeOK', Linked, SyncAfterLoad,
         \A c \in Calls : calls'[c].kind = "sync" /\ calls'[c].answer # "pending" =>
           local'.loaded \/ calls'[c] = calls[c],
         link'.epoch > link.epoch \/ (link'.epoch = link.epoch /\ (local.loaded => local'.loaded))
  PROVE  SyncAfterLoad'
<1> SUFFICES ASSUME NEW c \in Calls, calls'[c].kind = "sync", calls'[c].answer # "pending",
                    calls'[c].epoch = link'.epoch, ~local'.loaded
             PROVE  FALSE
  BY DEF SyncAfterLoad, Stale
<1>1. calls'[c] = calls[c]
  OBVIOUS
<1>2. calls[c].epoch <= link.epoch
  BY <1>1 DEF Linked
<1>3. link.epoch \in Nat /\ link'.epoch \in Nat /\ calls[c].epoch \in Nat
  BY DEF TypeOK
<1>4. calls[c].epoch = link.epoch /\ ~local.loaded
  BY <1>1, <1>2, <1>3
<1> QED
  BY <1>1, <1>4 DEF SyncAfterLoad, Stale

\* Every step keeps the answers of synchronizations behind the load.
LEMMA SyncStep == TypeOK /\ TypeOK' /\ Linked /\ SyncAfterLoad /\ Next => SyncAfterLoad'
<1> SUFFICES ASSUME TypeOK, TypeOK', Linked, SyncAfterLoad, Next PROVE SyncAfterLoad'
  OBVIOUS
<1>1. link \in LinkRec /\ link.epoch \in Nat /\ link.epoch + 1 > link.epoch
  BY Typed DEF LinkRec
<1>2. calls \in [Calls -> CallRec]
  BY Typed
<1>3. CASE Load \/ UseAccount \/ \E p \in Prefs : Save(p)
  BY <1>3, SyncKept DEF Load, UseAccount, Save
<1>4. CASE Disconnect \/ Clear \/ Restart
  <2>1. UNCHANGED calls /\ link'.epoch = link.epoch + 1
    BY <1>1, <1>4 DEF Disconnect, Clear, Restart, Unlinked, LinkRec
  <2> QED
    BY <1>1, <2>1, SyncKept
<1>5. ASSUME NEW c \in Calls, NEW kind, NEW p, NEW lnk, Call(c, kind, p, lnk)
      PROVE  \A d \in Calls : calls'[d].kind = "sync" /\ calls'[d].answer # "pending" =>
               calls'[d] = calls[d]
  <2>1. calls'[c].answer = "pending" /\ \A d \in Calls \ {c} : calls'[d] = calls[d]
    BY <1>2, <1>5 DEF Call, NoCall
  <2> QED
    BY <2>1
<1>6. ASSUME NEW c \in Calls, SaveDevice(c) PROVE SyncAfterLoad'
  <2>1. link'.epoch = link.epoch /\ UNCHANGED local
    BY <1>1, <1>6 DEF SaveDevice, Put, LinkRec
  <2> QED
    BY <1>5, <1>6, <2>1, SyncKept DEF SaveDevice, Put
<1>7. ASSUME NEW c \in Calls, Retry(c) \/ \E a \in Accounts : Connect(c, a)
      PROVE  SyncAfterLoad'
  <2>1. link'.epoch = link.epoch + 1
    BY <1>1, <1>7 DEF Retry, Connect, Synchronize, LinkRec
  <2> QED
    BY <1>1, <1>5, <1>7, <2>1, SyncKept DEF Retry, Connect, Synchronize
<1>8. CASE StorageSteps
  <2>1. link'.epoch = link.epoch
    BY <1>8, StorageLink
  <2>2. local.loaded => local'.loaded
    <3>1. /\ [local EXCEPT !.loaded = TRUE].loaded /\ [Fresh EXCEPT !.loaded = TRUE].loaded
          /\ [Fresh EXCEPT !.loaded = TRUE, !.owned = local.owned].loaded
      <4>1. local \in LocalRec /\ Fresh \in LocalRec
        BY Typed, Shapes
      <4>2. \A r \in LocalRec : /\ [r EXCEPT !.loaded = TRUE].loaded
                                /\ \A o : [r EXCEPT !.loaded = TRUE, !.owned = o].loaded
        BY Zenon DEF LocalRec
      <4> QED
        BY <4>1, <4>2
    <3>2. CASE Start \/ Discard \/ FailClear \/ FailWrite
      BY <3>2 DEF Start, Discard, FailClear, FailWrite
    <3>3. CASE LoadSection
      <4>1. \/ local' = [value |-> CHOOSE p \in stored : TRUE, has |-> TRUE, owned |-> TRUE,
                         loaded |-> TRUE]
            \/ local' = [local EXCEPT !.loaded = TRUE]
            \/ local' = [Fresh EXCEPT !.loaded = TRUE, !.owned = local.owned]
        BY <3>3, Zenon DEF LoadSection
      <4>2. \A v : [value |-> v, has |-> TRUE, owned |-> TRUE, loaded |-> TRUE].loaded
        OBVIOUS
      <4>3. local'.loaded
        BY <3>1, <4>1, <4>2, Zenon
      <4> QED
        BY <4>3
    <3>4. CASE LandSave \/ LandAdopt \/ LandUse
      BY <3>4 DEF LandSave, LandAdopt, LandUse, Land
    <3>5. CASE LandClear
      BY <3>1, <3>5 DEF LandClear
    <3> QED
      BY <1>8, <3>2, <3>3, <3>4, <3>5 DEF StorageSteps
  <2>3. UNCHANGED calls \/ \E c \in Calls : Put(c, Head1.pref)
    BY <1>8 DEF StorageSteps, Start, Discard, LoadSection, LandSave, LandAdopt,
       LandUse, LandClear, FailClear, FailWrite
  <2> QED
    BY <1>5, <2>1, <2>2, <2>3, SyncKept DEF Put
<1>9. ASSUME NEW c \in Calls, Serve(c) \/ Lose(c) PROVE SyncAfterLoad'
  <2>1. UNCHANGED link /\ UNCHANGED local /\ (calls[c].kind = "sync" => local.loaded)
    BY <1>9 DEF Serve, Lose
  <2>2. calls'[c].kind = calls[c].kind /\ \A d \in Calls \ {c} : calls'[d] = calls[d]
    BY <1>2, <1>9 DEF Serve, Lose, CallRec
  <2> QED
    BY <2>1, <2>2, SyncKept
<1>10. ASSUME NEW c \in Calls, Answer(c) PROVE SyncAfterLoad'
  <2>1. link'.epoch = link.epoch /\ UNCHANGED local
    BY <1>1, <1>10 DEF Answer, AnswerStale, AnswerSync, AnswerPut, AnswerRefetch, LinkRec
  <2>2. calls'[c].kind # "sync" /\ \A d \in Calls \ {c} : calls'[d] = calls[d]
    <3>1. CASE HangUp(c)
      BY <1>2, <3>1 DEF HangUp, NoCall
    <3>2. CASE calls' = [calls EXCEPT ![c] = [@ EXCEPT !.kind = "refetch", !.answer = "pending"]]
      BY <1>2, <3>2 DEF CallRec
    <3> QED
      BY <1>10, <3>1, <3>2 DEF Answer, AnswerStale, AnswerSync, AnswerPut, AnswerRefetch
  <2> QED
    BY <2>1, <2>2, SyncKept
<1>11. CASE \E a \in Accounts, p \in Prefs : OtherDevice(a, p)
  BY <1>11, SyncKept DEF OtherDevice
<1> QED
  BY <1>3, <1>4, <1>6, <1>7, <1>8, <1>9, <1>10, <1>11 DEF Next

\* A step that touches neither the device copy nor the queue.
LEMMA EditRests ==
  ASSUME EditDecided, UNCHANGED <<stored, local, gen, queue, edit>>
  PROVE  EditDecided'
BY DEF EditDecided, Landed, Deciding

\* What is enqueued behind the deciding save, and was not chosen by the user, leaves
\* the decision to it.
LEMMA StillDeciding ==
  ASSUME TypeOK, NEW k \in 1 .. Len(queue), Deciding(k), UNCHANGED <<gen, edit>>,
         NEW kind \in {"load", "adopt"}, NEW p \in Prefs, Enqueue(kind, p)
  PROVE  EditDecided'
<1> DEFINE s == Section(kind, p)
<1>1. s \in SectionRec /\ s.kind = kind
  BY MadeShapes DEF Section
<1>2. /\ Len(queue) \in Nat /\ Len(queue') = Len(queue) + 1
      /\ \A j \in 1 .. Len(queue) : queue'[j] = queue[j]
      /\ queue'[Len(queue) + 1] = s
  BY <1>1, Appended DEF Enqueue
<1> HIDE DEF s
<1>3. k \in 1 .. Len(queue') /\ Deciding(k)'
  BY <1>1, <1>2 DEF Deciding
<1> QED
  BY <1>3 DEF EditDecided

\* The head of the queue is dropped ahead of the deciding save.
LEMMA DecidingMovesUp ==
  ASSUME TypeOK, NEW k \in 1 .. Len(queue), Deciding(k), k # 1, queue' = Tail(queue),
         UNCHANGED edit, gen'.clears = gen.clears
  PROVE  EditDecided'
<1>1. /\ Len(queue) \in Nat \ {0} /\ Len(queue') = Len(queue) - 1
      /\ \A j \in 1 .. Len(queue') : queue'[j] = queue[j + 1]
  <2>1. queue # << >>
    <3>1. queue \in Seq(SectionRec)
      BY Typed
    <3> QED
      BY <3>1
  <2> QED
    BY <2>1, Dropped
<1>2. k - 1 \in 1 .. Len(queue') /\ (k - 1) + 1 = k
  BY <1>1
<1>3. queue'[k - 1] = queue[k]
  BY <1>1, <1>2
<1>4. \A j \in k .. Len(queue') : queue'[j].kind \in {"load", "adopt"}
  BY <1>1 DEF Deciding
<1>5. Deciding(k - 1)'
  BY <1>2, <1>3, <1>4 DEF Deciding
<1> QED
  BY <1>2, <1>5 DEF EditDecided
\* A load enqueued by an unloaded store leaves the newest edit decided.
LEMMA LoadBehind ==
  ASSUME TypeOK, EditDecided, ~local.loaded, UNCHANGED <<stored, local, gen, edit>>,
         Enqueue("load", Default)
  PROVE  EditDecided'
<1>1. ASSUME NEW k \in 1 .. Len(queue), Deciding(k) PROVE EditDecided'
  BY <1>1, StillDeciding, SyncAssumption
<1>2. ASSUME Landed PROVE Landed'
  <2> DEFINE s == Section("load", Default)
  <2>1. s \in SectionRec /\ s.kind = "load" /\ s.writes = gen.writes /\ ~s.writing
    BY MadeShapes, SyncAssumption DEF Section
  <2>2. /\ Len(queue) \in Nat /\ Len(queue') = Len(queue) + 1
        /\ \A j \in 1 .. Len(queue) : queue'[j] = queue[j]
        /\ queue'[Len(queue) + 1] = s
    BY <2>1, Appended DEF Enqueue
  <2> HIDE DEF s
  <2>3. \A j \in 1 .. Len(queue') :
          ~queue'[j].writing /\ queue'[j].kind = "load" /\ queue'[j].writes = gen.writes
    BY <1>2, <2>1, <2>2 DEF Landed
  <2>4. stored = edit
    BY <1>2 DEF Landed
  <2> QED
    BY <2>3, <2>4 DEF Landed
<1> QED
  BY <1>1, <1>2 DEF EditDecided

\* A save of the user is decided by its own section.
LEMMA EditSaved ==
  ASSUME TypeOK, NEW p \in Prefs, Save(p)
  PROVE  EditDecided'
<1> DEFINE s == Section("save", p)
<1>1. /\ s \in SectionRec /\ s.kind = "save" /\ s.pref = p /\ s.clears = gen.clears
  BY MadeShapes DEF Section
<1>2. /\ Len(queue) \in Nat /\ Len(queue') = Len(queue) + 1
      /\ queue'[Len(queue) + 1] = s
  BY <1>1, Appended DEF Save, Enqueue
<1> HIDE DEF s
<1>3. edit' = {p} /\ UNCHANGED gen
  BY DEF Save
<1>4. PICK k : k = Len(queue) + 1
  OBVIOUS
<1>5. k \in 1 .. Len(queue') /\ Deciding(k)'
  BY <1>1, <1>2, <1>3, <1>4 DEF Deciding
<1> QED
  BY <1>5 DEF EditDecided

\* An account's document that is still to be adopted leaves it decided: no adoption is
\* asked for once the edit is in memory, and none is before the load.
LEMMA AdoptBehind ==
  ASSUME TypeOK, EditDecided, NEW p \in Prefs, local.loaded, ~local.has,
         UNCHANGED <<gen, edit>>, Enqueue("adopt", p)
  PROVE  EditDecided'
<1>1. ~Landed
  BY DEF Landed
<1> QED
  BY <1>1, StillDeciding DEF EditDecided

\* The edit survives a restart only when no section was left, so it is the document stored.
LEMMA EditRestarts ==
  ASSUME TypeOK, EditDecided, Restart
  PROVE  EditDecided'
<1> SUFFICES ASSUME edit' # {} PROVE Landed'
  BY DEF EditDecided
<1>1. queue = << >> /\ queue' = << >> /\ edit' = edit /\ UNCHANGED gen
  BY DEF Restart
<1>2. stored' = stored /\ ~local'.loaded
  BY <1>1 DEF Restart, Torn, Fresh
<1>3. Len(queue) = 0 /\ Len(queue') = 0
  BY <1>1
<1>4. stored = edit
  BY <1>1, <1>3 DEF EditDecided, Landed
<1> QED
  BY <1>1, <1>2, <1>3, <1>4 DEF Landed

\* What the user and the network do leaves the newest edit decided.
LEMMA EditRequests ==
  ASSUME TypeOK, Linked, SyncAfterLoad, EditDecided,
         \/ Load \/ UseAccount \/ Disconnect \/ Clear \/ Restart
         \/ \E p \in Prefs : Save(p)
         \/ \E c \in Calls : SaveDevice(c) \/ Retry(c) \/ \E a \in Accounts : Connect(c, a)
         \/ \E c \in Calls : Serve(c) \/ Lose(c) \/ Answer(c)
         \/ \E a \in Accounts, p \in Prefs : OtherDevice(a, p)
  PROVE  EditDecided'
<1>1. CASE Load
  BY <1>1, LoadBehind DEF Load
<1>2. CASE UseAccount \/ Clear
  BY <1>2 DEF UseAccount, Clear, EditDecided
<1>3. CASE Disconnect \/ \E a \in Accounts, p \in Prefs : OtherDevice(a, p)
  BY <1>3, EditRests DEF Disconnect, OtherDevice
<1>4. ASSUME NEW c \in Calls, SaveDevice(c) \/ Serve(c) \/ Lose(c) PROVE EditDecided'
  BY <1>4, EditRests DEF SaveDevice, Serve, Lose
<1>5. ASSUME NEW c \in Calls, Retry(c) \/ \E a \in Accounts : Connect(c, a)
      PROVE  EditDecided'
  <2>1. /\ UNCHANGED <<stored, local, gen, edit>>
        /\ UNCHANGED queue \/ (~local.loaded /\ Enqueue("load", Default))
    BY <1>5 DEF Retry, Connect, Synchronize
  <2> QED
    BY <2>1, EditRests, LoadBehind
<1>6. ASSUME NEW c \in Calls, Answer(c) PROVE EditDecided'
  <2>1. CASE UNCHANGED queue
    BY <1>6, <2>1, EditRests DEF Answer, AnswerStale, AnswerSync, AnswerPut, AnswerRefetch
  <2>2. CASE ~UNCHANGED queue
    <3>1. AnswerSync(c)
      BY <1>6, <2>2 DEF Answer, AnswerStale, AnswerPut, AnswerRefetch
    <3>2. /\ UNCHANGED <<gen, edit>> /\ ~local.has /\ Enqueue("adopt", calls[c].doc.pref)
          /\ calls[c].kind = "sync" /\ calls[c].answer # "pending" /\ ~Stale(c)
      BY <2>2, <3>1 DEF AnswerSync
    <3>3. local.loaded /\ calls[c].doc.pref \in Prefs
      BY <3>2 DEF SyncAfterLoad, TypeOK, Doc
    <3> QED
      BY <3>2, <3>3, AdoptBehind
  <2> QED
    BY <2>1, <2>2
<1> QED
  BY <1>1, <1>2, <1>3, <1>4, <1>5, <1>6, EditSaved, EditRestarts
\* Once the newest edit has landed no section starts: an adoption finds the device's own
\* document, and a load is not a write.
LEMMA NothingStarts ==
  ASSUME TypeOK, Landed, queue # << >>
  PROVE  ~Head1.writing /\ (Head1.kind # "load" => Head1.kind = "adopt" /\ ~Passes(Head1))
<1>1. 1 \in 1 .. Len(queue)
  BY Typed
<1>2. ~queue[1].writing /\ (queue[1].kind # "load" => queue[1].kind = "adopt")
  BY <1>1 DEF Landed
<1>3. queue[1].kind # "load" => local.has /\ local.owned
  BY <1>1 DEF Landed
<1> QED
  BY <1>2, <1>3 DEF Head1, Passes

\* The landed edit stays landed, whatever section completes.
LEMMA LandedStorage ==
  ASSUME TypeOK, TypeOK', Landed, edit # {}, StorageSteps, edit' # {}
  PROVE  Landed'
<1>1. queue # << >> /\ queue' = Tail(queue) /\ (Discard \/ LoadSection)
  BY NothingStarts DEF StorageSteps, Start, Discard, LoadSection, LandSave, LandAdopt, LandUse,
     LandClear, FailClear, FailWrite, Writing
<1>2. /\ Len(queue) \in Nat \ {0} /\ Len(queue') = Len(queue) - 1
      /\ \A j \in 1 .. Len(queue') : queue'[j] = queue[j + 1] /\ j + 1 \in 1 .. Len(queue)
  BY <1>1, Dropped
<1>3. \A j \in 1 .. Len(queue') : ~queue'[j].writing
  BY <1>2 DEF Landed
<1>4. UNCHANGED <<stored, edit>> /\ stored = edit
  BY <1>1 DEF Landed, Discard, LoadSection
<1>5. CASE Discard
  <2>1. Head1.kind # "load" /\ UNCHANGED <<local, gen>>
    BY <1>5 DEF Discard
  <2>2. 1 \in 1 .. Len(queue) /\ queue[1].kind # "load"
    BY <1>2, <2>1 DEF Head1
  <2>3. /\ local.loaded /\ local.has /\ local.owned /\ edit = {local.value}
        /\ \A j \in 1 .. Len(queue) :
             queue[j].kind = "adopt" \/ (queue[j].kind = "load" /\ queue[j].writes < gen.writes)
    BY <2>2 DEF Landed
  <2> QED
    BY <1>2, <1>3, <1>4, <2>1, <2>3 DEF Landed
<1>6. CASE LoadSection /\ local.loaded
  <2>1. Head1.kind = "load" /\ Head1 = queue[1] /\ 1 \in 1 .. Len(queue)
    BY <1>2, <1>6 DEF LoadSection, Head1
  <2>2. /\ local.has /\ local.owned /\ edit = {local.value}
        /\ \A j \in 1 .. Len(queue) :
             queue[j].kind = "adopt" \/ (queue[j].kind = "load" /\ queue[j].writes < gen.writes)
    BY <1>6 DEF Landed
  <2>3. Head1.writes < gen.writes /\ Head1.writes \in Nat /\ gen.writes \in Nat
    <3>1. Head1 \in SectionRec /\ gen \in [writes : Nat, clears : Nat]
      BY <1>1, QueueShapes, Typed
    <3> QED
      BY <2>1, <2>2, <3>1 DEF SectionRec
  <2>4. ~Passes(Head1)
    BY <2>1, <2>3 DEF Passes
  <2>5. local' = [local EXCEPT !.loaded = TRUE] /\ UNCHANGED gen
    BY <1>6, <2>4 DEF LoadSection
  <2>6. local' = local
    <3>1. local \in LocalRec /\ local.loaded = TRUE
      BY <1>6, Typed DEF LocalRec
    <3> QED
      BY <2>5, <3>1 DEF LocalRec
  <2> QED
    BY <1>2, <1>3, <1>4, <1>6, <2>2, <2>5, <2>6 DEF Landed
<1>7. CASE LoadSection /\ ~local.loaded
  <2>1. \A j \in 1 .. Len(queue) : queue[j].kind = "load" /\ queue[j].writes = gen.writes
    BY <1>7 DEF Landed
  <2>2. Passes(Head1)
    BY <1>2, <2>1 DEF Passes, Head1
  <2>3. /\ local' = [value |-> CHOOSE p \in stored : TRUE, has |-> TRUE, owned |-> TRUE,
                     loaded |-> TRUE]
        /\ gen' = [gen EXCEPT !.writes = @ + 1]
    <3>1. stored # {}
      BY <1>4
    <3> QED
      BY <1>7, <2>2, <3>1 DEF LoadSection
  <2>4. /\ local'.loaded /\ local'.has /\ local'.owned
        /\ local'.value = CHOOSE p \in stored : TRUE
    BY <2>3
  <2>5. edit' = {local'.value}
    <3>1. PICK p \in Prefs : stored = {p}
      BY <1>4, Typed
    <3> QED
      BY <1>4, <2>4, <3>1
  <2>6. gen'.writes = gen.writes + 1 /\ gen.writes \in Nat
    <3>1. gen \in [writes : Nat, clears : Nat]
      BY Typed
    <3> QED
      BY <2>3, <3>1
  <2>7. \A j \in 1 .. Len(queue') : queue'[j].kind = "load" /\ queue'[j].writes < gen'.writes
    <3>1. ASSUME NEW j \in 1 .. Len(queue')
          PROVE  queue'[j].kind = "load" /\ queue'[j].writes = gen.writes
      BY <1>2, <2>1
    <3>2. gen.writes < gen'.writes
      BY <2>6
    <3> QED
      BY <3>1, <3>2
  <2> QED
    BY <1>3, <1>4, <2>4, <2>5, <2>7 DEF Landed
<1> QED
  BY <1>1, <1>5, <1>6, <1>7

\* The deciding save lands, unless the platform fails it.
LEMMA SaveLands ==
  ASSUME TypeOK, QueueFenced, 1 \in 1 .. Len(queue), Deciding(1), LandSave
  PROVE  Landed'
<1>1. queue # << >> /\ Land(queue[1].pref, TRUE)
  BY DEF LandSave, Writing, Head1
<1>2. /\ queue' = Tail(queue) /\ UNCHANGED edit /\ stored' = {queue[1].pref}
      /\ gen' = [gen EXCEPT !.writes = @ + 1]
      /\ local' = [value |-> queue[1].pref, has |-> TRUE, owned |-> TRUE, loaded |-> TRUE]
  BY <1>1 DEF Land
<1>3. /\ Len(queue) \in Nat \ {0} /\ Len(queue') = Len(queue) - 1
      /\ \A j \in 1 .. Len(queue') : queue'[j] = queue[j + 1] /\ j + 1 \in 2 .. Len(queue)
  BY <1>1, <1>2, Dropped
<1>4. gen'.writes = gen.writes + 1 /\ gen.writes \in Nat
  <2>1. gen \in [writes : Nat, clears : Nat]
    BY Typed
  <2> QED
    BY <1>2, <2>1
<1>5. \A j \in 2 .. Len(queue) : queue[j].writes \in Nat /\ queue[j].writes < gen.writes + 1
  <2>1. queue \in Seq(SectionRec)
    BY Typed
  <2>2. \A j \in 1 .. Len(queue) : queue[j] \in SectionRec
    BY <2>1
  <2>3. \A j \in 1 .. Len(queue) : queue[j].writes \in Nat
    BY <2>2 DEF SectionRec
  <2> QED
    BY <1>3, <1>4, <2>3 DEF QueueFenced
<1>6. \A j \in 1 .. Len(queue') :
        /\ ~queue'[j].writing /\ queue'[j].kind \in {"load", "adopt"}
        /\ queue'[j].writes < gen'.writes
  <2>1. \A j \in 2 .. Len(queue) : ~queue[j].writing /\ queue[j].kind \in {"load", "adopt"}
    BY DEF QueueFenced, Deciding
  <2> QED
    BY <1>3, <1>4, <1>5, <2>1
<1>7. /\ local'.loaded /\ local'.has /\ local'.owned /\ local'.value = queue[1].pref
  BY <1>2
<1>8. edit' = {queue[1].pref}
  BY <1>2 DEF Deciding
<1> QED
  BY <1>2, <1>6, <1>7, <1>8 DEF Landed

\* The deciding save keeps its place, moves up, or lands.
LEMMA DecidedStorage ==
  ASSUME TypeOK, QueueFenced, NEW k \in 1 .. Len(queue), Deciding(k), StorageSteps, edit' # {}
  PROVE  EditDecided'
<1>1. Next
  BY DEF Next
<1>2. gen'.clears = gen.clears
  BY <1>1, QueueSteps
<1>3. CASE Start
  <2>1. queue # << >> /\ queue' = [queue EXCEPT ![1].writing = TRUE] /\ UNCHANGED <<gen, edit>>
    BY <1>3 DEF Start
  <2>2. k \in 1 .. Len(queue') /\ Deciding(k)'
    BY <2>1, Begun DEF Deciding
  <2> QED
    BY <2>2 DEF EditDecided
<1>4. ASSUME ~Start PROVE queue # << >> /\ queue' = Tail(queue) /\ UNCHANGED edit
  BY <1>4 DEF StorageSteps, Discard, LoadSection, LandSave, LandAdopt, LandUse, LandClear,
     FailClear, FailWrite, Writing, Land
<1>5. CASE ~Start /\ k # 1
  BY <1>2, <1>4, <1>5, DecidingMovesUp
<1>6. CASE ~Start /\ k = 1
  <2>1. Head1.kind = "save" /\ Passes(Head1)
    BY <1>6 DEF Deciding, Head1, Passes
  <2>2. LandSave
    BY <1>6, <2>1 DEF StorageSteps, Discard, LoadSection, LandAdopt, LandUse, LandClear,
       FailClear, FailWrite, Writing
  <2> QED
    BY <1>6, <2>2, SaveLands DEF EditDecided
<1> QED
  BY <1>3, <1>5, <1>6

LEMMA EditStep == TypeOK /\ TypeOK' /\ Linked /\ EditInv /\ Next => EditInv'
<1> SUFFICES ASSUME TypeOK, TypeOK', Linked, EditInv, Next PROVE EditInv'
  OBVIOUS
<1>1. QueueFenced /\ SyncAfterLoad /\ EditDecided
  BY DEF EditInv
<1>2. EditDecided'
  <2>1. CASE StorageSteps
    <3> SUFFICES ASSUME edit' # {} PROVE EditDecided'
      BY DEF EditDecided
    <3>1. edit # {}
      BY <2>1 DEF StorageSteps, Start, Discard, LoadSection, LandSave, LandAdopt, LandUse,
         LandClear, FailClear, FailWrite, Land
    <3> QED
      BY <1>1, <2>1, <3>1, LandedStorage, DecidedStorage DEF EditDecided
  <2>2. CASE ~StorageSteps
    BY <1>1, <2>2, EditRequests DEF Next
  <2> QED
    BY <2>1, <2>2
<1> QED
  BY <1>1, <1>2, FencedStep, SyncStep DEF EditInv

\* The newest edit has landed, or is still to land, in every state.
LEMMA AlwaysEdit == Spec => [](TypeOK /\ EditInv)
<1>1. Init => EditInv
  <2> SUFFICES ASSUME Init PROVE EditInv
    OBVIOUS
  <2>1. edit = {} /\ Len(queue) = 0 /\ \A c \in Calls : calls[c].kind = "none"
    BY DEF Init, NoCall
  <2> QED
    BY <2>1 DEF EditInv, QueueFenced, SyncAfterLoad, EditDecided
<1>2. TypeOK /\ TypeOK' /\ Linked /\ EditInv /\ [Next]_vars => EditInv'
  <2> SUFFICES ASSUME TypeOK, TypeOK', Linked, EditInv, UNCHANGED vars PROVE EditInv'
    BY EditStep
  <2> QED
    BY DEF vars, EditInv, QueueFenced, SyncAfterLoad, Stale, EditDecided, Landed, Deciding
<1> QED
  BY <1>1, <1>2, TypeCorrect, AlwaysLinked, PTL DEF Spec

\* The user's newest edit is what the device holds whenever its storage is idle, whatever
\* loads, adoptions and answers were under way when it was made.
THEOREM EditsSurvive == Spec => []EditKept
<1>1. TypeOK /\ EditInv => EditKept
  <2> SUFFICES ASSUME TypeOK, EditInv, edit # {}, queue = << >>, local.loaded
               PROVE  edit = {local.value}
    BY DEF EditKept
  <2>1. Len(queue) = 0
    OBVIOUS
  <2> QED
    BY <2>1 DEF EditInv, EditDecided, Landed
<1> QED
  BY <1>1, AlwaysEdit, PTL
==============================================================================
