------------------------ MODULE CollectorSweep_proofs ------------------------
(* Theorems about CollectorSweep, for any catalogue, jobs and writers.      *)
EXTENDS CollectorSweep, FiniteSetTheorems, WellFoundedInduction, TLAPS

-----------------------------------------------------------------------------
(* Sets of numbers and the window of a region *)

(* A set of natural numbers that has a member has a least one. *)
LEMMA LeastNat ==
    ASSUME NEW T, T \subseteq Nat, T # {}
    PROVE  \E n \in T : \A m \in T : n <= m
<1> DEFINE R == {ss \in Nat \X Nat : ss[1] < ss[2]}
<1>1. IsWellFoundedOn(R, Nat)
  BY NatLessThanWellFounded DEF OpToRel
<1>2. PICK n \in T : \A m \in T : <<m, n>> \notin R
  BY <1>1, WFMin
<1>3. \A m \in T : ~(m < n)
  <2> SUFFICES ASSUME NEW m \in T, m < n PROVE FALSE
    OBVIOUS
  <2>1. <<m, n>> \in R
    OBVIOUS
  <2> QED BY <2>1, <1>2
<1> QED BY <1>3

(* A finite, nonempty set of natural numbers has a greatest member. *)
LEMMA GreatestNat ==
    ASSUME NEW S, S \subseteq Nat, IsFiniteSet(S), S # {}
    PROVE  \E p \in S : \A q \in S : q <= p
<1> DEFINE Above(p) == {q \in S : q > p}
           Sizes == {Cardinality(Above(p)) : p \in S}
<1>1. \A p \in S : IsFiniteSet(Above(p)) /\ Cardinality(Above(p)) \in Nat
  BY FS_Subset, FS_CardinalityType
<1>2. PICK n \in Sizes : \A m \in Sizes : n <= m
  <2>1. Sizes \subseteq Nat /\ Sizes # {}
    BY <1>1
  <2> HIDE DEF Sizes
  <2> QED BY <2>1, LeastNat
<1>3. PICK p \in S : n = Cardinality(Above(p))
  OBVIOUS
<1>4. ASSUME NEW q \in S, q > p PROVE FALSE
  <2>1. Above(q) \subseteq Above(p)
    <3> SUFFICES ASSUME NEW x \in S, x > q PROVE x > p
      OBVIOUS
    <3> QED BY <1>4, p \in Nat, q \in Nat, x \in Nat
  <2>2. q \in Above(p) /\ q \notin Above(q)
    BY <1>4, p \in Nat, q \in Nat
  <2>3. Cardinality(Above(q)) <= Cardinality(Above(p))
        /\ (Cardinality(Above(p)) = Cardinality(Above(q)) => Above(p) = Above(q))
    BY <2>1, <1>1, FS_Subset
  <2>4. Cardinality(Above(p)) <= Cardinality(Above(q))
    <3>1. Cardinality(Above(q)) \in Sizes
      OBVIOUS
    <3> QED BY <3>1, <1>2, <1>3
  <2>5. Cardinality(Above(p)) \in Nat /\ Cardinality(Above(q)) \in Nat
    BY <1>1
  <2>6. Above(p) = Above(q)
    BY <2>3, <2>4, <2>5
  <2> QED BY <2>2, <2>6
<1>5. \A q \in S : q <= p
  <2> SUFFICES ASSUME NEW q \in S, ~(q <= p) PROVE FALSE
    OBVIOUS
  <2>1. q > p
    BY p \in Nat, q \in Nat
  <2> QED BY <2>1, <1>4
<1> QED BY <1>5

(* What PlacesOf returns. *)
LEMMA PlacesNumbered ==
    ASSUME NEW r
    PROVE  PlacesOf(r) \subseteq Places /\ PlacesOf(r) \subseteq Nat /\ IsFiniteSet(PlacesOf(r))
BY CatalogAssumption, FS_Subset DEF PlacesOf

(* The window has no holes. *)
LEMMA WindowClosed ==
    ASSUME NEW r, NEW c \in Cursors, NEW p \in Window(r, c),
           NEW q \in PlacesOf(r), c < q, q <= p
    PROVE  q \in Window(r, c)
<1> DEFINE UpTo(x) == {y \in PlacesOf(r) : c < y /\ y <= x}
<1>1. p \in Nat /\ q \in Nat /\ PlacesOf(r) \subseteq Nat /\ Limit \in Nat
  BY PlacesNumbered, CatalogAssumption DEF Window
<1>2. UpTo(q) \subseteq UpTo(p)
  BY <1>1
<1>3. \A x : IsFiniteSet(UpTo(x)) /\ Cardinality(UpTo(x)) \in Nat
  BY PlacesNumbered, FS_Subset, FS_CardinalityType
<1>4. Cardinality(UpTo(q)) <= Cardinality(UpTo(p))
  BY <1>2, <1>3, FS_Subset
<1>5. Cardinality(UpTo(p)) <= Limit
  BY DEF Window
<1>6. Cardinality(UpTo(q)) <= Limit
  BY <1>1, <1>3, <1>4, <1>5
<1> QED BY <1>6 DEF Window

(* A window that is not full holds every place behind the cursor. *)
LEMMA WindowWhole ==
    ASSUME NEW r, NEW c \in Cursors, Cardinality(Window(r, c)) < Limit,
           NEW p \in PlacesOf(r), c < p
    PROVE  p \in Window(r, c)
<1> DEFINE Missing == {q \in PlacesOf(r) : c < q /\ q \notin Window(r, c)}
           UpTo(x) == {y \in PlacesOf(r) : c < y /\ y <= x}
<1> SUFFICES ASSUME p \notin Window(r, c) PROVE FALSE
  OBVIOUS
<1>1. PlacesOf(r) \subseteq Nat /\ Limit \in Nat
  BY PlacesNumbered, CatalogAssumption
<1>2. PICK n \in Missing : \A m \in Missing : n <= m
  <2>1. Missing \subseteq Nat /\ p \in Missing
    BY <1>1
  <2> HIDE DEF Missing
  <2> QED BY <2>1, LeastNat
<1>3. UpTo(n) \subseteq Window(r, c) \cup {n}
  <2> SUFFICES ASSUME NEW y \in PlacesOf(r), c < y, y <= n, y \notin Window(r, c)
               PROVE  y = n
    OBVIOUS
  <2>1. y \in Missing
    OBVIOUS
  <2>2. n <= y /\ n \in Nat /\ y \in Nat
    BY <2>1, <1>1, <1>2
  <2> QED BY <2>2
<1>4. IsFiniteSet(Window(r, c)) /\ Cardinality(Window(r, c)) \in Nat
  BY PlacesNumbered, FS_Subset, FS_CardinalityType DEF Window
<1>5. IsFiniteSet(Window(r, c) \cup {n})
      /\ Cardinality(Window(r, c) \cup {n}) = Cardinality(Window(r, c)) + 1
  BY <1>4, FS_AddElement
<1>6. Cardinality(UpTo(n)) <= Cardinality(Window(r, c) \cup {n})
      /\ IsFiniteSet(UpTo(n)) /\ Cardinality(UpTo(n)) \in Nat
  BY <1>3, <1>5, FS_Subset, FS_CardinalityType
<1>7. Cardinality(UpTo(n)) <= Limit
  BY <1>1, <1>4, <1>5, <1>6
<1> QED BY <1>7 DEF Window

(* The cursor stays, or moves to the end of a settled prefix of the window. *)
LEMMA AdvancesOverSettled ==
    ASSUME NEW W \in SUBSET Places, NEW settled, NEW c \in Cursors
    PROVE  LET next == Advanced(W, settled, c)
           IN  /\ next \in Cursors
               /\ next = c \/ (next \in W /\ \A q \in W : q <= next => q \in settled)
<1> DEFINE prefix == {p \in W : \A q \in W : q <= p => q \in settled}
           next == Advanced(W, settled, c)
<1>1. CASE prefix = {}
  BY <1>1 DEF Advanced
<1>2. CASE prefix # {}
  <2>1. \E p \in prefix : \A q \in prefix : q <= p
    <3>1. prefix \subseteq Nat /\ IsFiniteSet(prefix)
      BY CatalogAssumption, FS_Subset
    <3> HIDE DEF prefix
    <3> QED BY <3>1, <1>2, GreatestNat
  <2>2. next \in prefix
    BY <2>1, <1>2 DEF Advanced
  <2> QED BY <2>2 DEF Cursors
<1> QED BY <1>1, <1>2

(* What a page claims: every place it passed over, or every place behind   *)
(* its cursor when it is exhausted, settled.                               *)
PageEarned(r, c, page) ==
    \A p \in PlacesOf(r) : c < p /\ (p <= page.next \/ page.exhausted) => p \in page.settled

(* A collected page is well formed and claims no more than it settled. *)
LEMMA PagesEarned ==
    ASSUME NEW r \in Regions, NEW c \in Cursors, NEW out, NEW cap
    PROVE  /\ PageOf(Window(r, c), out, cap, c) \in Page
           /\ PageEarned(r, c, PageOf(Window(r, c), out, cap, c))
<1> DEFINE W == Window(r, c)
           settled == Settled(W, out, cap)
           page == PageOf(W, out, cap, c)
<1>1. W \subseteq Places
  BY PlacesNumbered DEF Window
<1>2. settled \subseteq Places
  BY <1>1 DEF Settled, Started
<1>3. /\ page.next = Advanced(W, settled, c)
      /\ page.exhausted = (Cardinality(W) < Limit /\ settled = W)
      /\ page.settled = settled
  BY DEF PageOf, Exhausted
<1>4. /\ page.next \in Cursors
      /\ page.next = c \/ (page.next \in W /\ \A q \in W : q <= page.next => q \in settled)
  BY <1>1, <1>3, AdvancesOverSettled
<1>5. page \in Page
  <2>1. Tally(W, out, cap) \in Tallies
    BY DEF Tally, Tallies
  <2> QED BY <1>2, <1>3, <1>4, <2>1 DEF Page, PageOf, Exhausted
<1>6. ASSUME NEW p \in PlacesOf(r), c < p, p <= page.next PROVE p \in settled
  <2>1. p \in Nat /\ c \in Nat
    BY PlacesNumbered, CatalogAssumption DEF Cursors
  <2>2. page.next # c
    BY <2>1, <1>6
  <2>3. p \in W
    BY <1>4, <1>6, <2>2, WindowClosed
  <2> QED BY <1>4, <1>6, <2>2, <2>3
<1>7. ASSUME NEW p \in PlacesOf(r), c < p, page.exhausted PROVE p \in settled
  BY <1>3, <1>7, WindowWhole
<1> QED BY <1>3, <1>5, <1>6, <1>7 DEF PageEarned

-----------------------------------------------------------------------------
(* Types *)

(* The bridge makes an entry of a printed result. *)
LEMMA BridgedTyped ==
    ASSUME NEW q \in Result
    PROVE  Bridged(q) \in Entry
<1>1. PageKind(q) \in Kinds
  BY DEF PageKind, Kinds
<1>2. q.input \in Cursors /\ q.next \in Cursors /\ q.exhausted \in BOOLEAN /\ q.time \in Nat
  BY DEF Result, Times
<1>3. 0 \in 0 .. MaxPages
  BY PageCapAssumption
<1> QED BY <1>1, <1>2, <1>3 DEF Bridged, Entry, Times

(* The lineage step returns the page, or the page with a chain that fits. *)
LEMMA ChainedShape ==
    ASSUME NEW s, NEW e
    PROVE  \/ /\ ~(e.input = 0 /\ e.kind \in {"clean_prefix", "terminal_clean"})
              /\ Chained(s, e) = e
           \/ /\ e.input = 0 /\ e.kind \in {"clean_prefix", "terminal_clean"}
              /\ Chained(s, e) = Proven(e, 1, e.time, TRUE, e.whole)
           \/ /\ e.input # 0 /\ LiveHead(s) /\ e.time = s.time /\ SamePage(s, e)
              /\ Chained(s, e) = Proven(e, s.pages, s.chain, s.clean, s.whole)
           \/ /\ e.input # 0 /\ LiveHead(s) /\ e.time # s.time /\ ~(e.time < s.time)
              /\ e.blocked \/ (Extends(s, e) /\ ~Advances(s, e))
              /\ Chained(s, e) = Proven(e, s.pages, s.chain, s.clean, FALSE)
           \/ /\ e.input # 0 /\ Advances(s, e)
              /\ Chained(s, e) = Proven(e, s.pages + 1, s.chain,
                     s.clean /\ e.kind \in {"clean_prefix", "terminal_clean"},
                     s.clean /\ e.kind = "terminal_clean")
BY DEF Chained, Advances

(* What a chain adds to a page leaves the facts of the page alone. *)
LEMMA ProvenFields ==
    ASSUME NEW e \in Entry, NEW pages \in 0 .. MaxPages, NEW chain \in Times,
           NEW clean \in BOOLEAN, NEW whole \in BOOLEAN
    PROVE  LET n == Proven(e, pages, chain, clean, whole)
           IN  /\ n \in Entry
               /\ n.input = e.input /\ n.next = e.next /\ n.exhausted = e.exhausted
               /\ n.kind = e.kind /\ n.blocked = e.blocked /\ n.time = e.time
               /\ n.qualified = e.qualified
               /\ n.pages = pages /\ n.chain = chain /\ n.clean = clean /\ n.whole = whole
BY DEF Proven, Entry

(* The lineage step makes an entry, with the facts of the page it was given. *)
LEMMA ChainedTyped ==
    ASSUME NEW s \in Entry \cup {NoEntry}, NEW e \in Entry, ~LineageError(s, e)
    PROVE  LET n == Chained(s, e)
           IN  /\ n \in Entry
               /\ n.input = e.input /\ n.next = e.next /\ n.exhausted = e.exhausted
               /\ n.kind = e.kind /\ n.blocked = e.blocked /\ n.time = e.time
               /\ n.qualified = e.qualified
<1>1. CASE Chained(s, e) = e
  BY <1>1
<1>2. CASE Chained(s, e) = Proven(e, 1, e.time, TRUE, e.whole)
  <2>1. 1 \in 0 .. MaxPages /\ e.time \in Times /\ e.whole \in BOOLEAN
    BY PageCapAssumption DEF Entry
  <2> QED BY <1>2, <2>1 DEF Proven, Entry
<1>3. ASSUME LiveHead(s)
      PROVE  /\ s \in Entry
             /\ s.pages \in 0 .. MaxPages /\ s.chain \in Times /\ s.clean \in BOOLEAN
             /\ s.whole \in BOOLEAN
  BY <1>3 DEF LiveHead, Trusted, Entry
<1>4. CASE LiveHead(s) /\ Chained(s, e) = Proven(e, s.pages, s.chain, s.clean, s.whole)
  BY <1>3, <1>4, ProvenFields
<1>5. CASE LiveHead(s) /\ Chained(s, e) = Proven(e, s.pages, s.chain, s.clean, FALSE)
  BY <1>3, <1>5 DEF Proven, Entry
<1>6. CASE Advances(s, e) /\ Chained(s, e) = Proven(e, s.pages + 1, s.chain,
                     s.clean /\ e.kind \in {"clean_prefix", "terminal_clean"},
                     s.clean /\ e.kind = "terminal_clean")
  <2>1. LiveHead(s)
    BY <1>6 DEF Advances, Extends
  <2>2. s.pages + 1 \in 0 .. MaxPages
    BY <1>3, <1>6, <2>1, PageCapAssumption DEF LineageError
  <2> DEFINE clean == s.clean /\ e.kind \in {"clean_prefix", "terminal_clean"}
             whole == s.clean /\ e.kind = "terminal_clean"
  <2>3. clean \in BOOLEAN /\ whole \in BOOLEAN
    OBVIOUS
  <2>4. Chained(s, e) = Proven(e, s.pages + 1, s.chain, clean, whole)
    BY <1>6
  <2> HIDE DEF clean, whole
  <2> QED BY <1>3, <2>1, <2>2, <2>3, <2>4 DEF Proven, Entry
<1> QED BY <1>1, <1>2, <1>4, <1>5, <1>6, ChainedShape

(* The initial state is well typed. *)
LEMMA InitTyped ==
    Init => TypeOK
<1> SUFFICES ASSUME Init PROVE TypeOK
  OBVIOUS
<1> USE DEF Init
<1>1. IngestTypeOK
  <2>1. NoPage \in Page
    BY DEF NoPage, Page, Cursors, Tallies
  <2>2. NoJob \in Job
    BY <2>1, CatalogAssumption DEF NoJob, Job, JobPhases, Cursors
  <2>3. NoRow \in Row
    BY DEF NoRow, Row, Cursors
  <2> QED BY <2>2, <2>3 DEF IngestInit, IngestTypeOK
<1>2. CheckpointTypeOK
  <2>1. IdleWriter \in [pc : {"idle", "merged", "replaced"}, doc : File]
    BY DEF IdleWriter, NoDoc, File
  <2> QED BY <2>1, InitialFilesAssumption DEF CheckpointInit, CheckpointTypeOK, Times
<1>3. evidence \in [Places -> SUBSET (Times \ {0})]
  OBVIOUS
<1> QED BY <1>1, <1>2, <1>3 DEF TypeOK

(* A job's step writes a job of the right shape. *)
LEMMA JobTyped ==
    ASSUME NEW job0 \in [Jobs -> Job], NEW j \in Jobs, NEW x \in Job
    PROVE  [job0 EXCEPT ![j] = x] \in [Jobs -> Job]
OBVIOUS

(* Counting posts gives a number, and more posts never give a smaller one. *)
LEMMA CountsGrow ==
    ASSUME NEW posts \in SUBSET Posts, NEW more \in SUBSET Posts, posts \subseteq more, NEW p
    PROVE  /\ CountOf(p, posts) \in Nat /\ CountOf(p, more) \in Nat
           /\ CountOf(p, posts) <= CountOf(p, more)
<1> DEFINE S == {x \in posts : PlaceOf[x] = p}
           T == {x \in more : PlaceOf[x] = p}
<1>1. S \subseteq T /\ T \subseteq Posts
  OBVIOUS
<1>2. IsFiniteSet(T)
  BY <1>1, PostsAssumption, FS_Subset
<1>3. IsFiniteSet(S) /\ Cardinality(S) <= Cardinality(T)
  BY <1>1, <1>2, FS_Subset
<1>4. Cardinality(S) \in Nat /\ Cardinality(T) \in Nat
  BY <1>2, <1>3, FS_CardinalityType
<1> QED BY <1>3, <1>4 DEF CountOf

(* The upserts write rows, each as it was or counting the posts given. *)
LEMMA UpsertedRows ==
    ASSUME NEW posts \in SUBSET Posts, weekly \in [Names -> Row]
    PROVE  /\ Upserted(posts) \in [Names -> Row]
           /\ \A n \in Names :
                 \/ Upserted(posts)[n] = weekly[n]
                 \/ Upserted(posts)[n].count = CountOf(Upserted(posts)[n].place, posts)
<1> SUFFICES ASSUME NEW n \in Names
             PROVE  /\ Upserted(posts)[n] \in Row
                    /\ \/ Upserted(posts)[n] = weekly[n]
                       \/ Upserted(posts)[n].count = CountOf(Upserted(posts)[n].place, posts)
  BY DEF Upserted
<1> DEFINE new == {p \in Places : NameOf[p] = n /\ CountOf(p, posts) > 0}
           last == CHOOSE p \in new : \A q \in new : q <= p
<1>1. Upserted(posts)[n] = IF new = {} THEN weekly[n]
                           ELSE [place |-> last, count |-> CountOf(last, posts)]
  BY DEF Upserted
<1>2. CASE new = {}
  BY <1>1, <1>2
<1>3. CASE new # {}
  <2>1. new \subseteq Nat /\ IsFiniteSet(new)
    BY CatalogAssumption, FS_Subset
  <2>2. \E p \in new : \A q \in new : q <= p
    <3> HIDE DEF new
    <3> QED BY <2>1, <1>3, GreatestNat
  <2>3. last \in new
    <3> HIDE DEF new
    <3> QED BY <2>2
  <2>4. last \in Cursors /\ CountOf(last, posts) \in Nat
    BY <2>3, CountsGrow DEF Cursors
  <2> HIDE DEF new, last
  <2> QED BY <1>1, <1>3, <2>4 DEF Row
<1> QED BY <1>2, <1>3

(* Acquiring leaves the job with a page that is earned and with records. *)
LEMMA AcquireFound ==
    ASSUME IngestTypeOK, NEW j \in Jobs, Acquire(j)
    PROVE  \E page \in Page, records \in SUBSET Posts, licence \in Licences \cup {NoLicence} :
              /\ PageEarned(job[j].region, job[j].input, page)
              /\ job' = [job EXCEPT ![j] = [job[j] EXCEPT !.pc = "acquired", !.page = page,
                                                 !.records = records, !.licence = licence]]
<1> DEFINE W == Window(job[j].region, job[j].input)
<1>1. job[j].region \in Regions /\ job[j].input \in Cursors
  BY DEF IngestTypeOK, Job
<1>2. PICK out \in [W \ ShortNamed -> Outcomes], cap \in 1 .. MaxPairs :
         \E found \in SUBSET {x \in Posts : /\ PlaceOf[x] \in Started(W, out, cap)
                                          /\ out[PlaceOf[x]] \notin {"bad", "stop"}} :
            job' = [job EXCEPT ![j].pc = "acquired", ![j].page = PageOf(W, out, cap, job[j].input),
                               ![j].records = found,
                               ![j].licence = IF found = {} THEN NoLicence ELSE source]
  BY Zenon DEF Acquire
<1>3. PICK found \in SUBSET Posts :
         job' = [job EXCEPT ![j].pc = "acquired", ![j].page = PageOf(W, out, cap, job[j].input),
                            ![j].records = found,
                            ![j].licence = IF found = {} THEN NoLicence ELSE source]
  BY <1>2
<1> DEFINE page == PageOf(W, out, cap, job[j].input)
           licence == IF found = {} THEN NoLicence ELSE source
<1>4. page \in Page /\ PageEarned(job[j].region, job[j].input, page)
  BY <1>1, PagesEarned
<1>5. licence \in Licences \cup {NoLicence}
  BY DEF IngestTypeOK
<1>6. job' = [job EXCEPT ![j] = [job[j] EXCEPT !.pc = "acquired", !.page = page,
                                              !.records = found, !.licence = licence]]
  BY <1>3
<1> HIDE DEF page, licence
<1> QED BY <1>4, <1>5, <1>6

(* The steps of the jobs keep the types of the jobs' side. *)
LEMMA JobStepsTyped ==
    ASSUME IngestTypeOK, NEW j \in Jobs, Unfinished(j) \/ \E r \in Regions, c \in Cursors : Launch(j, r, c)
    PROVE  IngestTypeOK'
<1> USE DEF IngestTypeOK
<1>0. job[j] \in Job
  OBVIOUS
<1>1. CASE \E r \in Regions, c \in Cursors : Launch(j, r, c)
  <2>1. PICK r \in Regions, c \in Cursors : Launch(j, r, c)
    BY <1>1
  <2> DEFINE x == [job[j] EXCEPT !.pc = "planned", !.region = r, !.input = c]
  <2>2. x \in Job
    BY <1>0 DEF Job, JobPhases
  <2>3. job' = [job EXCEPT ![j] = x]
    BY <2>1 DEF Launch
  <2> HIDE DEF x
  <2>4. job' \in [Jobs -> Job]
    BY <2>2, <2>3
  <2> QED BY <2>1, <2>4 DEF Launch
<1>2. CASE Acquire(j)
  <2>1. PICK page \in Page, records \in SUBSET Posts, licence \in Licences \cup {NoLicence} :
          /\ PageEarned(job[j].region, job[j].input, page)
          /\ job' = [job EXCEPT ![j] = [job[j] EXCEPT !.pc = "acquired", !.page = page,
                                             !.records = records, !.licence = licence]]
    BY <1>2, AcquireFound
  <2> DEFINE x == [job[j] EXCEPT !.pc = "acquired", !.page = page, !.records = records,
                                 !.licence = licence]
  <2>2. x \in Job
    BY <1>0 DEF Job, JobPhases
  <2>3. job' = [job EXCEPT ![j] = x]
    BY <2>1
  <2> HIDE DEF x
  <2>4. job' \in [Jobs -> Job]
    BY <2>2, <2>3
  <2> QED BY <1>2, <2>4 DEF Acquire
<1>3. CASE Recheck(j)
  <2> DEFINE quarantined == job[j].records # Valid(j)
             licence == IF Valid(j) = {} THEN NoLicence ELSE job[j].licence
  <2>1. Valid(j) \subseteq Posts
    BY <1>0 DEF Valid, Job
  <2>2. quarantined \in BOOLEAN /\ licence \in Licences \cup {NoLicence}
    BY <1>0 DEF Job
  <2> DEFINE x == [job[j] EXCEPT !.pc = "writing", !.records = Valid(j), !.licence = licence,
                                 !.bound = source, !.quarantined = quarantined]
  <2>3. job' = [job EXCEPT ![j] = x]
    BY <1>3 DEF Recheck
  <2> HIDE DEF quarantined, licence
  <2>4. x \in Job
    BY <1>0, <2>1, <2>2 DEF Job, JobPhases
  <2> HIDE DEF x
  <2>5. job' \in [Jobs -> Job]
    BY <2>3, <2>4
  <2> QED BY <1>3, <2>5 DEF Recheck
<1>4. CASE GiveUp(j)
  <2>1. NoJob \in Job
    BY CatalogAssumption DEF NoJob, Job, JobPhases, NoPage, Page, Cursors, Tallies
  <2> QED BY <1>4, <2>1, JobTyped DEF GiveUp
<1> QED BY <1>1, <1>2, <1>3, <1>4 DEF Unfinished

(* A job's new posts are posts of the week, and so are those receipted. *)
LEMMA FreshTyped ==
    ASSUME IngestTypeOK, NEW j \in Jobs
    PROVE  Fresh(j) \subseteq Posts /\ Receipted \subseteq Posts
<1>1. job[j].records \subseteq Posts /\ receipts \subseteq Receipts
  BY DEF IngestTypeOK, Job
<1> QED BY <1>1 DEF Fresh, Receipted, Receipts

(* The commit keeps the types of the jobs' side. *)
LEMMA CommitTyped ==
    ASSUME IngestTypeOK, NEW j \in Jobs, Commit(j)
    PROVE  IngestTypeOK'
<1>1. NoJob \in Job
  BY CatalogAssumption DEF NoJob, Job, JobPhases, NoPage, Page, Cursors, Tallies
<1>2. weekly' \in [Names -> Row]
  BY FreshTyped, UpsertedRows DEF Commit, IngestTypeOK
<1>3. job' \in [Jobs -> Job]
  BY <1>1, JobTyped DEF Commit, IngestTypeOK
<1>4. receipts' \subseteq Receipts
  <2>1. /\ job[j].licence \in Licences \cup {NoLicence}
        /\ Fresh(j) \subseteq Posts /\ Receipted \in SUBSET Posts
    BY FreshTyped DEF IngestTypeOK, Job
  <2>2. {[post |-> x, licence |-> job[j].licence, before |-> Receipted] : x \in Fresh(j)}
          \subseteq Receipts
    BY <2>1 DEF Receipts
  <2> QED BY <2>2 DEF Commit, WriteReceipts, IngestTypeOK
<1>5. run' \in Licences \cup {NoLicence}
  BY DEF Commit, ResumeRun, IngestTypeOK, Job
<1> QED BY <1>2, <1>3, <1>4, <1>5 DEF Commit, IngestTypeOK

(* Merging an accepted page makes a file. *)
LEMMA MergedTyped ==
    ASSUME CheckpointTypeOK, NEW q \in results, Accepted(file, q.region, Bridged(q))
    PROVE  /\ Merged(file, q.region, Bridged(q)) \in File
           /\ q.region \in Regions
           /\ Chained(file[q.region], Bridged(q)) \in Entry
<1>1. q \in Result /\ file \in File
  BY DEF CheckpointTypeOK
<1>2. q.region \in Regions
  BY <1>1 DEF Result
<1>3. file[q.region] \in Entry \cup {NoEntry} /\ Bridged(q) \in Entry
  BY <1>1, <1>2, BridgedTyped DEF File
<1>4. Chained(file[q.region], Bridged(q)) \in Entry
  BY <1>3, ChainedTyped DEF Accepted
<1> QED BY <1>1, <1>2, <1>4 DEF Merged, File

(* The steps of an export keep the types of the checkpoint's side. *)
LEMMA ExportTyped ==
    ASSUME CheckpointTypeOK, RemoveStaleLock \/ \E w \in Writers : ExportSteps(w)
    PROVE  CheckpointTypeOK'
<1> DEFINE Held == [pc : {"idle", "merged", "replaced"}, doc : File]
<1>1. CASE RemoveStaleLock
  BY <1>1 DEF RemoveStaleLock, CheckpointTypeOK
<1>2. ASSUME NEW w \in Writers, ExportSteps(w) PROVE CheckpointTypeOK'
  <2>0. IdleWriter \in Held
    BY DEF IdleWriter, NoDoc, File
  <2>1. CASE Begin(w)
    <3>1. PICK q \in results :
            /\ Accepted(file, q.region, Bridged(q))
            /\ writer' = [writer EXCEPT
                  ![w] = [pc |-> "merged", doc |-> Merged(file, q.region, Bridged(q))]]
      BY <2>1 DEF Begin
    <3>2. [pc |-> "merged", doc |-> Merged(file, q.region, Bridged(q))] \in Held
      BY <3>1, MergedTyped
    <3>3. writer' \in [Writers -> Held]
      BY <3>1, <3>2 DEF CheckpointTypeOK
    <3> QED BY <2>1, <3>3 DEF Begin, CheckpointTypeOK
  <2>2. CASE Replace(w)
    <3>1. writer[w].doc \in File
      BY DEF CheckpointTypeOK
    <3>2. writer' \in [Writers -> Held]
      BY <2>2 DEF Replace, CheckpointTypeOK
    <3> QED BY <2>2, <3>1, <3>2 DEF Replace, CheckpointTypeOK
  <2>3. CASE Release(w)
    BY <2>0, <2>3 DEF Release, CheckpointTypeOK
  <2>4. CASE Die(w)
    BY <2>0, <2>4 DEF Die, CheckpointTypeOK
  <2> QED BY <1>2, <2>1, <2>2, <2>3, <2>4 DEF ExportSteps
<1> QED BY <1>1, <1>2

(* What CommitAndPrint adds to the results. *)
Printed(j) ==
    [region |-> job[j].region, input |-> job[j].input, next |-> job[j].page.next,
     exhausted |-> job[j].page.exhausted, status |-> StatusOf(j),
     tally |-> job[j].page.tally, time |-> clock + 1]

(* A printed result is a result, of a moment nobody saw yet. *)
LEMMA PrintedTyped ==
    ASSUME TypeOK, NEW j \in Jobs
    PROVE  Printed(j) \in Result
<1>1. job[j] \in Job /\ clock \in Nat
  BY DEF TypeOK, IngestTypeOK, CheckpointTypeOK, Times
<1>2. job[j].page \in Page
  BY <1>1 DEF Job
<1>3. StatusOf(j) \in {"succeeded", "degraded", "failed"}
  BY DEF StatusOf
<1> QED BY <1>1, <1>2, <1>3 DEF Printed, Result, Job, Page, Times, Tallies

(* Printing keeps every type. *)
LEMMA CommitAndPrintTyped ==
    ASSUME TypeOK, NEW j \in Jobs, CommitAndPrint(j)
    PROVE  TypeOK'
<1>1. IngestTypeOK'
  BY CommitTyped DEF TypeOK, CommitAndPrint
<1>2. clock \in Nat /\ clock + 1 \in Times \ {0}
  BY DEF TypeOK, CheckpointTypeOK, Times
<1>3. CheckpointTypeOK'
  <2>1. results' = results \cup {Printed(j)}
    BY DEF CommitAndPrint, Printed
  <2>2. results' \subseteq Result
    BY <2>1, PrintedTyped DEF TypeOK, CheckpointTypeOK
  <2> QED BY <1>2, <2>2 DEF CommitAndPrint, TypeOK, CheckpointTypeOK
<1>4. evidence' \in [Places -> SUBSET (Times \ {0})]
  BY <1>2 DEF CommitAndPrint, TypeOK
<1> QED BY <1>1, <1>3, <1>4 DEF TypeOK

(* Every step keeps every type. *)
LEMMA StepTyped ==
    ASSUME TypeOK, [Next]_vars
    PROVE  TypeOK'
<1>1. CASE Register /\ UNCHANGED <<checkpointVars, evidence>>
  BY <1>1 DEF Register, TypeOK, IngestTypeOK, CheckpointTypeOK, checkpointVars
<1>2. ASSUME NEW j \in Jobs, Plan(j) PROVE TypeOK'
  <2>1. IngestTypeOK'
    BY <1>2, JobStepsTyped DEF Plan, TypeOK
  <2> QED BY <1>2, <2>1 DEF Plan, TypeOK, CheckpointTypeOK, checkpointVars
<1>3. ASSUME NEW j \in Jobs, Unfinished(j), UNCHANGED <<checkpointVars, evidence>> PROVE TypeOK'
  <2>1. IngestTypeOK'
    BY <1>3, JobStepsTyped DEF TypeOK
  <2> QED BY <1>3, <2>1 DEF TypeOK, CheckpointTypeOK, checkpointVars
<1>4. ASSUME NEW j \in Jobs, CommitAndPrint(j) PROVE TypeOK'
  BY <1>4, CommitAndPrintTyped
<1>5. CASE /\ RemoveStaleLock \/ \E w \in Writers : ExportSteps(w)
           /\ UNCHANGED <<ingestVars, evidence>>
  <2>1. CheckpointTypeOK'
    BY <1>5, ExportTyped DEF TypeOK
  <2> QED BY <1>5, <2>1 DEF TypeOK, IngestTypeOK, ingestVars
<1>6. CASE UNCHANGED vars
  BY <1>6 DEF vars, ingestVars, checkpointVars, TypeOK, IngestTypeOK, CheckpointTypeOK
<1> QED BY <1>1, <1>2, <1>3, <1>4, <1>5, <1>6 DEF Next

(* Jobs, rows, entries, results, processes and evidence keep their shapes. *)
THEOREM TypeCorrect == Spec => []TypeOK
BY InitTyped, StepTyped, PTL DEF Spec

-----------------------------------------------------------------------------
(* The inductive invariant *)

CleanKinds == {"clean_prefix", "terminal_clean"}

(* A searched job's page claims no more than it settled. *)
JobsEarned ==
    \A j \in Jobs : job[j].pc \in {"acquired", "writing"} =>
        PageEarned(job[j].region, job[j].input, job[j].page)

(* A job that writes is bound to a licence, and the records it has left     *)
(* were acquired under that one.                                           *)
JobsBound ==
    \A j \in Jobs :
        /\ (job[j].bound # NoLicence) = (job[j].pc = "writing")
        /\ (job[j].pc = "writing" /\ job[j].records # {}) => job[j].licence = job[j].bound

(* Until a licence changes under them, the run row and the writing jobs     *)
(* agree with the registration; and receipts belong to a run row.          *)
LicencesAgree ==
    /\ ~relicensed => /\ run # NoLicence => run = source
                     /\ \A j \in Jobs : job[j].bound # NoLicence => job[j].bound = source
    /\ receipts # {} => run # NoLicence

(* A receipt came after posts that have receipts, its own not among them.   *)
ReceiptsOrdered ==
    \A x \in receipts : x.before \subseteq Receipted /\ x.post \notin x.before

(* Results have times of their own, none of them to come. *)
ResultsDated ==
    /\ \A q \in results : q.time <= clock
    /\ \A p, q \in results : p.time = q.time => p = q

(* A clean result has evidence for every place it claims. *)
ResultEarned(q, ev) ==
    PageKind(q) \in CleanKinds =>
        \A p \in PlacesOf(q.region) :
            q.input < p /\ (p <= q.next \/ q.exhausted) => q.time \in ev[p]

ResultsEarned == \A q \in results : ResultEarned(q, evidence)

Covered(e, p, ev) == \E t \in ev[p] : e.chain <= t /\ t <= e.time

(* A live, clean chain covers every place up to its cursor, or all of them  *)
(* when it ended; and credit is only given to such a chain.                 *)
EntryEarned(r, e, ev) ==
    /\ e.pages > 0 => e.chain <= e.time
    /\ e.pages > 0 /\ e.clean /\ ~e.blocked =>
          \A p \in PlacesOf(r) : (p <= e.next \/ e.kind = "terminal_clean") => Covered(e, p, ev)
    /\ e.whole => e.pages > 0 /\ e.clean /\ ~e.blocked /\ e.kind = "terminal_clean"

(* The entry is the page of this result, with a chain. *)
Backs(q, e) ==
    LET b == Bridged(q) IN
    \/ /\ b.input = 0
       /\ e = IF b.kind \in CleanKinds THEN Proven(b, 1, b.time, TRUE, b.whole) ELSE b
    \/ /\ b.input # 0
       /\ e = IF e.pages = 0 THEN b ELSE Proven(b, e.pages, e.chain, e.clean, e.whole)

EntryBacked(r, e, res) == \E q \in res : q.region = r /\ Backs(q, e)

FileEarned(f, ev, res) ==
    \A r \in Regions : f[r] # NoEntry =>
        /\ f[r].qualified => EntryEarned(r, f[r], ev) /\ EntryBacked(r, f[r], res)
        /\ ~f[r].qualified => f[r].time = 0

FilesEarned ==
    /\ FileEarned(file, evidence, results)
    /\ \A w \in Writers : writer[w].pc # "idle" => FileEarned(writer[w].doc, evidence, results)

(* Whoever exports holds the lock. *)
LockHeld == \A w \in Writers : writer[w].pc # "idle" => lock = w

Supersedes(g, f) ==
    \A r \in Regions :
        /\ Stopped(f, r) => Stopped(g, r)
        /\ g[r].time >= f[r].time \/ Stopped(g, r)

(* A merged document takes nothing back from the file it will replace. *)
DocsSupersede ==
    \A w \in Writers : writer[w].pc = "merged" => Supersedes(writer[w].doc, file)

-----------------------------------------------------------------------------
(* The checkpoint's arithmetic *)

(* A cursor is a number. *)
LEMMA CursorsAreNumbers == Cursors \subseteq Nat
BY CatalogAssumption DEF Cursors

(* What the bridge says of a page. *)
LEMMA BridgedFacts ==
    ASSUME NEW q \in Result
    PROVE  LET b == Bridged(q)
           IN  /\ b.input = q.input /\ b.time = q.time /\ b.qualified /\ b.pages = 0
               /\ b.kind = PageKind(q)
               /\ b.whole <=> q.input = 0 /\ b.kind = "terminal_clean"
               /\ b.kind \in CleanKinds => b.next = q.next /\ ~b.blocked
               /\ b.kind = "terminal_clean" => q.exhausted
               /\ b.kind = "failed_page" => b.next = b.input
BY DEF Bridged, PageKind, CleanKinds, Result

(* A page that starts or extends a chain leaves a chain that is earned. *)
LEMMA ChainedEarned ==
    ASSUME TypeOK, NEW q \in Result, ResultEarned(q, evidence), NEW s \in Entry \cup {NoEntry},
           ~LineageError(s, Bridged(q)),
           Trusted(s) => EntryEarned(q.region, s, evidence),
           Trusted(s) /\ s.blocked => Bridged(q).blocked
    PROVE  EntryEarned(q.region, Chained(s, Bridged(q)), evidence)
<1> DEFINE b == Bridged(q)
           r == q.region
           n == Chained(s, b)
<1>1. /\ b.input = q.input /\ b.time = q.time /\ b.qualified /\ b.pages = 0
      /\ b.kind = PageKind(q)
      /\ b.whole <=> q.input = 0 /\ b.kind = "terminal_clean"
      /\ b.kind \in CleanKinds => b.next = q.next /\ ~b.blocked
      /\ b.kind = "terminal_clean" => q.exhausted
      /\ b.kind = "failed_page" => b.next = b.input
  BY BridgedFacts
<1>2. b \in Entry /\ n \in Entry
  BY BridgedTyped, ChainedTyped
<1>3. /\ n.next = b.next /\ n.kind = b.kind /\ n.blocked = b.blocked /\ n.time = b.time
      /\ n.input = b.input
  BY <1>2, ChainedTyped
<1>4. \A p \in PlacesOf(r) : p \in Nat /\ 0 < p /\ evidence[p] \subseteq Nat
  BY CatalogAssumption DEF PlacesOf, TypeOK, Times
<1>b. Trusted(s) /\ s.blocked => b.blocked
  OBVIOUS
<1>s. SUFFICES EntryEarned(r, n, evidence)
  OBVIOUS
<1>t. \/ /\ ~(b.input = 0 /\ b.kind \in {"clean_prefix", "terminal_clean"})
         /\ n = b
      \/ /\ b.input = 0 /\ b.kind \in {"clean_prefix", "terminal_clean"}
         /\ n = Proven(b, 1, b.time, TRUE, b.whole)
      \/ /\ b.input # 0 /\ LiveHead(s) /\ b.time = s.time /\ SamePage(s, b)
         /\ n = Proven(b, s.pages, s.chain, s.clean, s.whole)
      \/ /\ b.input # 0 /\ LiveHead(s) /\ b.time # s.time /\ ~(b.time < s.time)
         /\ b.blocked \/ (Extends(s, b) /\ ~Advances(s, b))
         /\ n = Proven(b, s.pages, s.chain, s.clean, FALSE)
      \/ /\ b.input # 0 /\ Advances(s, b)
         /\ n = Proven(b, s.pages + 1, s.chain,
                       s.clean /\ b.kind \in {"clean_prefix", "terminal_clean"},
                       s.clean /\ b.kind = "terminal_clean")
  BY ChainedShape
<1> HIDE DEF b, n
<1>5. q.input \in Nat /\ b.next \in Nat /\ b.time \in Nat
  BY <1>2, CursorsAreNumbers DEF Entry, Result, Times
<1>6. ASSUME LiveHead(s)
      PROVE  /\ s \in Entry /\ s.pages \in Nat /\ 0 < s.pages
             /\ s.chain \in Nat /\ s.time \in Nat /\ s.next \in Nat
             /\ s.chain <= s.time
             /\ s.clean \in BOOLEAN /\ s.blocked \in BOOLEAN
             /\ EntryEarned(r, s, evidence)
             /\ s.blocked => b.blocked
  <2>1. s \in Entry /\ Trusted(s) /\ 0 < s.pages
    BY <1>6, PageCapAssumption DEF LiveHead, Trusted, Entry
  <2>2. EntryEarned(r, s, evidence)
    BY <2>1
  <2>3. s.pages \in Nat /\ s.chain \in Nat /\ s.time \in Nat /\ s.next \in Nat
        /\ s.clean \in BOOLEAN /\ s.blocked \in BOOLEAN
    <3>1. /\ s.pages \in 0 .. MaxPages /\ s.chain \in Times /\ s.time \in Times
          /\ s.next \in Cursors /\ s.clean \in BOOLEAN /\ s.blocked \in BOOLEAN
      BY <2>1 DEF Entry
    <3>2. s.pages \in Nat
      BY <3>1, PageCapAssumption
    <3>3. s.next \in Nat
      BY <3>1, CursorsAreNumbers
    <3> QED BY <3>1, <3>2, <3>3 DEF Times
  <2>4. s.chain <= s.time
    BY <2>1, <2>2, <2>3 DEF EntryEarned
  <2> QED BY <2>1, <2>2, <2>3, <2>4, <1>b
<1>a. /\ b.blocked \in BOOLEAN /\ b.kind \in Kinds /\ b.whole \in BOOLEAN
      /\ n.blocked \in BOOLEAN /\ n.whole \in BOOLEAN /\ n.clean \in BOOLEAN
  BY <1>2 DEF Entry
<1>7. CASE /\ ~(b.input = 0 /\ b.kind \in {"clean_prefix", "terminal_clean"})
           /\ n = b
  BY <1>1, <1>7 DEF EntryEarned
<1>8. CASE /\ b.input = 0 /\ b.kind \in {"clean_prefix", "terminal_clean"}
           /\ n = Proven(b, 1, b.time, TRUE, b.whole)
  <2>1. n.pages = 1 /\ n.chain = b.time /\ n.clean /\ n.whole = b.whole
    BY <1>2, <1>8 DEF Proven, Entry
  <2>2. ASSUME NEW p \in PlacesOf(r), p <= n.next \/ n.kind = "terminal_clean"
        PROVE  Covered(n, p, evidence)
    <3>1. q.time \in evidence[p]
      BY <1>1, <1>3, <1>4, <1>8, <2>2 DEF ResultEarned, CleanKinds
    <3> QED BY <3>1, <2>1, <1>1, <1>3, <1>5 DEF Covered
  <2>3. n.chain <= n.time /\ n.pages > 0
    BY <1>3, <1>5, <2>1
  <2>4. ~n.blocked
    BY <1>1, <1>3, <1>8, <1>a DEF CleanKinds
  <2>5. n.whole => n.kind = "terminal_clean"
    BY <1>1, <1>3, <2>1
  <2> QED BY <2>1, <2>2, <2>3, <2>4, <2>5 DEF EntryEarned
<1>9. CASE /\ b.input # 0 /\ LiveHead(s) /\ b.time = s.time /\ SamePage(s, b)
           /\ n = Proven(b, s.pages, s.chain, s.clean, s.whole)
  <2>1. n.pages = s.pages /\ n.chain = s.chain /\ n.clean = s.clean /\ n.whole = s.whole
    BY <1>2, <1>9 DEF Proven, Entry
  <2>2. n.next = s.next /\ n.kind = s.kind /\ n.blocked = s.blocked /\ n.time = s.time
    BY <1>3, <1>9 DEF SamePage
  <2> QED BY <2>1, <2>2, <1>6, <1>9 DEF EntryEarned, Covered
<1>10. CASE /\ b.input # 0 /\ LiveHead(s) /\ b.time # s.time /\ ~(b.time < s.time)
            /\ b.blocked \/ (Extends(s, b) /\ ~Advances(s, b))
            /\ n = Proven(b, s.pages, s.chain, s.clean, FALSE)
  <2>1. n.pages = s.pages /\ n.chain = s.chain /\ n.clean = s.clean /\ ~n.whole
    BY <1>2, <1>10 DEF Proven, Entry
  <2>2. n.chain <= n.time /\ s.time <= n.time
    BY <2>1, <1>3, <1>5, <1>6, <1>10
  <2>3. CASE b.blocked
    BY <2>1, <2>2, <2>3, <1>3 DEF EntryEarned
  <2>4. CASE ~b.blocked
    <3>1. b.kind = "failed_page" /\ b.next = s.next
      BY <1>1, <1>10, <2>4 DEF Extends, Advances
    <3>2. ASSUME NEW p \in PlacesOf(r), p <= n.next \/ n.kind = "terminal_clean", n.clean
          PROVE  Covered(n, p, evidence)
      <4>1. PICK t \in evidence[p] : s.chain <= t /\ t <= s.time
        BY <3>1, <3>2, <2>1, <2>4, <1>3, <1>6, <1>10 DEF EntryEarned, Covered
      <4>2. t \in Nat
        BY <1>4
      <4> QED BY <4>1, <4>2, <2>1, <2>2, <1>3, <1>5, <1>6, <1>10 DEF Covered
    <3> QED BY <3>2, <2>1, <2>2 DEF EntryEarned
  <2> QED BY <2>3, <2>4
<1>11. CASE /\ b.input # 0 /\ Advances(s, b)
            /\ n = Proven(b, s.pages + 1, s.chain,
                          s.clean /\ b.kind \in {"clean_prefix", "terminal_clean"},
                          s.clean /\ b.kind = "terminal_clean")
  <2>0. LiveHead(s) /\ b.input = s.next /\ s.time < b.time /\ ~b.blocked
    BY <1>11 DEF Advances, Extends
  <2>1. /\ n.pages = s.pages + 1 /\ n.chain = s.chain
        /\ n.clean = (s.clean /\ b.kind \in {"clean_prefix", "terminal_clean"})
        /\ n.whole = (s.clean /\ b.kind = "terminal_clean")
    BY <1>2, <1>11 DEF Proven, Entry
  <2>2. n.chain <= n.time /\ s.time <= n.time
    BY <2>0, <2>1, <1>3, <1>5, <1>6
  <2>3. ASSUME NEW p \in PlacesOf(r), p <= n.next \/ n.kind = "terminal_clean", n.clean
        PROVE  Covered(n, p, evidence)
    <3>1. CASE p <= b.input
      <4>1. PICK t \in evidence[p] : s.chain <= t /\ t <= s.time
        BY <3>1, <2>0, <2>1, <2>3, <1>6 DEF EntryEarned, Covered
      <4>2. t \in Nat
        BY <1>4
      <4> QED BY <4>1, <4>2, <2>0, <2>1, <2>2, <1>3, <1>5, <1>6 DEF Covered
    <3>2. CASE ~(p <= b.input)
      <4>1. q.input < p
        BY <3>2, <1>1, <1>4, <1>5
      <4>2. q.time \in evidence[p]
        BY <4>1, <1>1, <1>3, <2>1, <2>3 DEF ResultEarned, CleanKinds
      <4> QED BY <4>2, <2>0, <2>1, <2>2, <1>1, <1>3, <1>5, <1>6 DEF Covered
    <3> QED BY <3>1, <3>2
  <2>4. n.pages > 0
    BY <2>0, <2>1, <1>6
  <2> QED BY <2>0, <2>1, <2>2, <2>3, <2>4, <1>3 DEF EntryEarned
<1> QED BY <1>t, <1>7, <1>8, <1>9, <1>10, <1>11

(* A chained page is backed by the result the page came from. *)
LEMMA ChainedBacked ==
    ASSUME NEW q \in Result, NEW s \in Entry \cup {NoEntry}, ~LineageError(s, Bridged(q))
    PROVE  Backs(q, Chained(s, Bridged(q)))
<1> DEFINE b == Bridged(q)
           n == Chained(s, b)
<1>1. b \in Entry /\ b.pages = 0
  BY BridgedTyped, BridgedFacts
<1>2. \/ /\ ~(b.input = 0 /\ b.kind \in {"clean_prefix", "terminal_clean"})
         /\ n = b
      \/ /\ b.input = 0 /\ b.kind \in {"clean_prefix", "terminal_clean"}
         /\ n = Proven(b, 1, b.time, TRUE, b.whole)
      \/ /\ b.input # 0 /\ LiveHead(s)
         /\ \/ n = Proven(b, s.pages, s.chain, s.clean, s.whole)
            \/ n = Proven(b, s.pages, s.chain, s.clean, FALSE)
            \/ n = Proven(b, s.pages + 1, s.chain,
                          s.clean /\ b.kind \in {"clean_prefix", "terminal_clean"},
                          s.clean /\ b.kind = "terminal_clean")
  BY ChainedShape DEF Advances, Extends
<1>3. ASSUME LiveHead(s) PROVE s.pages \in Nat /\ s.pages # 0 /\ s.pages + 1 # 0
  <2>1. s.pages \in 0 .. MaxPages /\ s.pages > 0
    BY <1>3 DEF LiveHead, Trusted, Entry
  <2> QED BY <2>1, PageCapAssumption
<1> SUFFICES Backs(q, n)
  OBVIOUS
<1>4. ASSUME NEW pages, NEW chain, NEW clean, NEW whole, pages # 0, b.input # 0,
             n = Proven(b, pages, chain, clean, whole)
      PROVE  Backs(q, n)
  <2>1. n.pages = pages /\ n.chain = chain /\ n.clean = clean /\ n.whole = whole
    <3> HIDE DEF b, n
    <3> QED BY <1>1, <1>4 DEF Proven, Entry
  <2> QED BY <1>4, <2>1 DEF Backs
<1>5. CASE ~(b.input = 0 /\ b.kind \in {"clean_prefix", "terminal_clean"}) /\ n = b
  BY <1>1, <1>5 DEF Backs, CleanKinds
<1>6. CASE b.input = 0 /\ b.kind \in {"clean_prefix", "terminal_clean"}
           /\ n = Proven(b, 1, b.time, TRUE, b.whole)
  BY <1>6 DEF Backs, CleanKinds
<1> HIDE DEF b, n
<1> QED BY <1>2, <1>3, <1>4, <1>5, <1>6

(* What holds of a page holds with more results and more evidence. *)
LEMMA EarnedLater ==
    ASSUME NEW f, NEW ev, NEW ev2, NEW res, NEW res2,
           \A p \in Places : ev[p] \subseteq ev2[p], res \subseteq res2,
           FileEarned(f, ev, res)
    PROVE  FileEarned(f, ev2, res2)
<1>1. \A r : PlacesOf(r) \subseteq Places
  BY DEF PlacesOf
<1>2. ASSUME NEW r, NEW e, EntryEarned(r, e, ev) PROVE EntryEarned(r, e, ev2)
  BY <1>1, <1>2 DEF EntryEarned, Covered
<1>3. ASSUME NEW r, NEW e, EntryBacked(r, e, res) PROVE EntryBacked(r, e, res2)
  BY <1>3 DEF EntryBacked
<1> QED BY <1>2, <1>3 DEF FileEarned

(* Merging an accepted page keeps a file earned and takes nothing back. *)
LEMMA MergeKeeps ==
    ASSUME TypeOK, ResultsEarned, FileEarned(file, evidence, results), NEW q \in results,
           Accepted(file, q.region, Bridged(q))
    PROVE  /\ FileEarned(Merged(file, q.region, Bridged(q)), evidence, results)
           /\ Supersedes(Merged(file, q.region, Bridged(q)), file)
<1> DEFINE r0 == q.region
           b == Bridged(q)
           s == file[r0]
           n == Chained(s, b)
           g == Merged(file, r0, b)
<1>1. q \in Result /\ r0 \in Regions /\ file \in File /\ s \in Entry \cup {NoEntry}
  BY DEF TypeOK, CheckpointTypeOK, Result, File
<1>2. b \in Entry /\ ~LineageError(s, b)
  BY <1>1, BridgedTyped DEF Accepted
<1>3. n \in Entry /\ n.blocked = b.blocked /\ n.time = b.time /\ n.qualified
  BY <1>1, <1>2, ChainedTyped, BridgedFacts
<1>4. g[r0] = n /\ \A r \in Regions : r # r0 => g[r] = file[r]
  BY <1>1 DEF Merged, File
<1>5. EntryBacked(r0, n, results)
  BY <1>1, <1>2, ChainedBacked DEF EntryBacked
<1>6. EntryEarned(r0, n, evidence)
  <2>1. Trusted(s) => EntryEarned(r0, s, evidence)
    BY <1>1 DEF Trusted, FileEarned
  <2>2. Trusted(s) /\ s.blocked => b.blocked
    BY <1>1 DEF Trusted, Accepted, StopRecorded, Stopped
  <2>3. ResultEarned(q, evidence)
    BY DEF ResultsEarned
  <2> QED BY <1>1, <1>2, <2>1, <2>2, <2>3, ChainedEarned
<1>7. Stopped(file, r0) => b.blocked
  BY <1>1 DEF Accepted, StopRecorded
<1>8. b.time >= s.time \/ b.blocked
  <2>1. CASE s = NoEntry
    <3>1. s.time = -1 /\ b.time \in Nat
      BY <1>2, <2>1 DEF NoEntry, Entry, Times
    <3> QED BY <3>1
  <2>2. CASE s # NoEntry
    BY <2>2 DEF Accepted
  <2> QED BY <2>1, <2>2
<1>9. n # NoEntry
  BY <1>3 DEF NoEntry, Entry, Times
<1> HIDE DEF g, n, b, s
<1>10. FileEarned(g, evidence, results)
  BY <1>3, <1>4, <1>5, <1>6 DEF FileEarned
<1>11. Supersedes(g, file)
  <2> SUFFICES ASSUME NEW r \in Regions
               PROVE  /\ Stopped(file, r) => Stopped(g, r)
                      /\ g[r].time >= file[r].time \/ Stopped(g, r)
    BY DEF Supersedes
  <2>1. CASE r = r0
    BY <2>1, <1>3, <1>4, <1>7, <1>8, <1>9 DEF Stopped, s
  <2>2. CASE r # r0
    <3>1. file[r].time \in Int
      BY <1>1 DEF File, Entry, NoEntry, Times
    <3> QED BY <2>2, <3>1, <1>4 DEF Stopped
  <2> QED BY <2>1, <2>2
<1> QED BY <1>10, <1>11 DEF g, b

-----------------------------------------------------------------------------
(* Every step keeps the invariant *)

(* The part of the invariant about the checkpoint. *)
CheckpointInv == ResultsDated /\ ResultsEarned /\ FilesEarned /\ LockHeld /\ DocsSupersede

(* The part about the jobs and the rows they write. *)
IngestInv ==
    /\ JobsEarned
    /\ JobsBound
    /\ LicencesAgree
    /\ LicenceResolves
    /\ ReceiptsOrdered
    /\ CountsNewest

IInv == TypeOK /\ IngestInv /\ CheckpointInv

(* The initial state satisfies the invariant. *)
LEMMA InitInv ==
    Init => IInv
<1> SUFFICES ASSUME Init PROVE IInv
  OBVIOUS
<1>1. TypeOK
  BY InitTyped
<1>2. IngestInv
  <2>1. JobsEarned /\ JobsBound
    BY DEF Init, IngestInit, NoJob, JobsEarned, JobsBound
  <2>2. LicencesAgree /\ LicenceResolves /\ ReceiptsOrdered
    BY DEF Init, IngestInit, NoJob, LicencesAgree, LicenceResolves, ReceiptsOrdered
  <2>3. CountsNewest
    BY DEF Init, IngestInit, CountsNewest, ReceiptsOf, Names
  <2> QED BY <2>1, <2>2, <2>3 DEF IngestInv
<1>3. CheckpointInv
  <2>1. FileEarned(file, evidence, results)
    BY InitialFilesAssumption DEF Init, CheckpointInit, FileEarned
  <2>2. \A w \in Writers : writer[w].pc = "idle"
    BY DEF Init, CheckpointInit, IdleWriter
  <2> QED BY <2>1, <2>2 DEF Init, CheckpointInit, CheckpointInv, ResultsDated, ResultsEarned,
             FilesEarned, LockHeld, DocsSupersede
<1> QED BY <1>1, <1>2, <1>3 DEF IInv

(* Where the checkpoint and the evidence rest, their invariant does. *)
LEMMA CheckpointRests ==
    ASSUME CheckpointInv, UNCHANGED <<checkpointVars, evidence>>
    PROVE  CheckpointInv'
BY DEF CheckpointInv, checkpointVars, ResultsDated, ResultsEarned, ResultEarned, FilesEarned,
       FileEarned, EntryEarned, EntryBacked, Covered, LockHeld, DocsSupersede, Supersedes, Stopped

(* Where the receipts and the counts rest, they still fit together. *)
LEMMA RowsRest ==
    ASSUME UNCHANGED <<receipts, weekly>>, ReceiptsOrdered, CountsNewest
    PROVE  ReceiptsOrdered' /\ CountsNewest'
<1>1. \A p : ReceiptsOf(p)' = ReceiptsOf(p) /\ Newest(p)' = Newest(p)
  BY DEF ReceiptsOf, Newest
<1>2. Receipted' = Receipted
  BY DEF Receipted
<1> QED BY <1>1, <1>2 DEF ReceiptsOrdered, CountsNewest

(* Where the jobs and the rows rest, their invariant does. *)
LEMMA IngestRests ==
    ASSUME IngestInv, UNCHANGED ingestVars
    PROVE  IngestInv'
BY RowsRest DEF IngestInv, ingestVars, JobsEarned, JobsBound, LicencesAgree, LicenceResolves

(* The steps of a job up to its commit keep the jobs' invariant. *)
LEMMA JobStepsKeep ==
    ASSUME TypeOK, IngestInv, NEW j \in Jobs,
           Unfinished(j) \/ \E r \in Regions, c \in Cursors : Launch(j, r, c)
    PROVE  IngestInv'
<1>0. /\ job \in [Jobs -> Job] /\ job[j] \in Job /\ source \in Licences
      /\ UNCHANGED <<source, run, receipts, weekly, relicensed>>
  BY DEF TypeOK, IngestTypeOK, Unfinished, Launch, Acquire, Recheck, GiveUp
<1>1. ReceiptsOrdered' /\ CountsNewest' /\ LicenceResolves'
  BY <1>0, RowsRest DEF IngestInv, LicenceResolves
<1>2. \A i \in Jobs \ {j} : job'[i] = job[i]
  BY <1>0 DEF Unfinished, Launch, Acquire, Recheck, GiveUp
<1>3. /\ job'[j].pc \in {"acquired", "writing"} =>
             PageEarned(job'[j].region, job'[j].input, job'[j].page)
      /\ \/ job'[j].pc # "writing" /\ job'[j].bound = NoLicence
         \/ /\ job'[j].pc = "writing" /\ job'[j].bound = source
            /\ job'[j].records # {} => job'[j].licence = source
  <2>1. CASE \E r \in Regions, c \in Cursors : Launch(j, r, c)
    <3>1. job[j].pc = "idle" /\ job'[j].pc = "planned" /\ job'[j].bound = job[j].bound
      <4>1. PICK r \in Regions, c \in Cursors : Launch(j, r, c)
        BY <2>1
      <4> DEFINE x == [job[j] EXCEPT !.pc = "planned", !.region = r, !.input = c]
      <4>2. x.pc = "planned" /\ x.bound = job[j].bound
        BY <1>0 DEF Job
      <4>3. job[j].pc = "idle" /\ job' = [job EXCEPT ![j] = x]
        BY <4>1 DEF Launch
      <4> HIDE DEF x
      <4> QED BY <4>2, <4>3, <1>0
    <3> QED BY <3>1 DEF IngestInv, JobsBound
  <2>2. CASE Acquire(j)
    <3>1. PICK page \in Page, records \in SUBSET Posts, licence \in Licences \cup {NoLicence} :
            /\ PageEarned(job[j].region, job[j].input, page)
            /\ job' = [job EXCEPT ![j] = [job[j] EXCEPT !.pc = "acquired", !.page = page,
                                               !.records = records, !.licence = licence]]
      BY <2>2, AcquireFound DEF TypeOK
    <3>2. /\ job'[j].pc = "acquired" /\ job'[j].page = page
          /\ job'[j].region = job[j].region /\ job'[j].input = job[j].input
          /\ job'[j].bound = job[j].bound
      BY <3>1, <1>0 DEF Job
    <3>3. job[j].pc = "planned"
      BY <2>2 DEF Acquire
    <3> QED BY <3>1, <3>2, <3>3 DEF IngestInv, JobsBound
  <2>3. CASE Recheck(j)
    <3>1. /\ job[j].pc = "acquired" /\ job'[j].pc = "writing" /\ job'[j].page = job[j].page
          /\ job'[j].region = job[j].region /\ job'[j].input = job[j].input
          /\ job'[j].records = Valid(j) /\ job'[j].bound = source
          /\ job'[j].licence = IF Valid(j) = {} THEN NoLicence ELSE job[j].licence
      BY <2>3, <1>0 DEF Recheck, Job
    <3>2. Valid(j) # {} => job[j].licence = source
      BY DEF Valid
    <3> QED BY <3>1, <3>2 DEF IngestInv, JobsEarned
  <2>4. CASE GiveUp(j)
    <3>1. job'[j].pc = "idle" /\ job'[j].bound = NoLicence
      BY <2>4, <1>0 DEF GiveUp, NoJob
    <3> QED BY <3>1
  <2> QED BY <2>1, <2>2, <2>3, <2>4 DEF Unfinished
<1>4. JobsEarned'
  BY <1>2, <1>3 DEF IngestInv, JobsEarned, PageEarned
<1>5. JobsBound'
  BY <1>0, <1>2, <1>3, PostsAssumption DEF IngestInv, JobsBound
<1>6. LicencesAgree'
  BY <1>0, <1>2, <1>3 DEF IngestInv, LicencesAgree
<1> QED BY <1>1, <1>4, <1>5, <1>6 DEF IngestInv

(* The write of a job agrees with the run row it makes or resumes. *)
LEMMA CommitAgrees ==
    ASSUME IngestTypeOK, IngestInv, NEW j \in Jobs, Commit(j)
    PROVE  LicencesAgree' /\ LicenceResolves'
<1>0. /\ job \in [Jobs -> Job] /\ job[j].pc = "writing"
      /\ source' = source /\ relicensed' = relicensed
      /\ run' = IF run = NoLicence THEN job[j].bound ELSE run
      /\ receipts' = receipts \cup
            {[post |-> x, licence |-> job[j].licence, before |-> Receipted] : x \in Fresh(j)}
      /\ job' = [job EXCEPT ![j] = NoJob]
  BY DEF IngestTypeOK, Commit, ResumeRun, WriteReceipts
<1>1. job[j].bound # NoLicence /\ run' # NoLicence
  BY <1>0 DEF IngestInv, JobsBound
<1>2. ASSUME ~relicensed PROVE run' = source /\ job[j].bound = source
  BY <1>0, <1>1, <1>2 DEF IngestInv, LicencesAgree
<1>3. \A i \in Jobs : job'[i].bound # NoLicence => job'[i].bound = job[i].bound
  BY <1>0 DEF NoJob
<1>4. LicencesAgree'
  BY <1>0, <1>1, <1>2, <1>3 DEF IngestInv, LicencesAgree
<1>5. ASSUME ~relicensed, NEW x \in receipts' PROVE x.licence = run'
  <2>1. CASE x \in receipts
    <3>1. x.licence = run /\ run # NoLicence
      BY <1>5, <2>1 DEF IngestInv, LicenceResolves, LicencesAgree
    <3> QED BY <3>1, <1>0
  <2>2. CASE x \notin receipts
    <3>1. Fresh(j) # {} /\ x.licence = job[j].licence
      BY <1>0, <1>5, <2>2
    <3>2. job[j].licence = job[j].bound
      BY <3>1, <1>0 DEF Fresh, IngestInv, JobsBound
    <3> QED BY <3>1, <3>2, <1>2, <1>5
  <2> QED BY <2>1, <2>2
<1> QED BY <1>0, <1>4, <1>5 DEF LicenceResolves

(* The rows of a place whose name no other place has: its own count when it *)
(* has new posts, untouched when it has none.                              *)
LEMMA UpsertedSole ==
    ASSUME NEW posts \in SUBSET Posts, NEW p \in Places, SoleOfName(p)
    PROVE  Upserted(posts)[NameOf[p]] =
             IF {x \in posts : PlaceOf[x] = p} = {} THEN weekly[NameOf[p]]
             ELSE [place |-> p, count |-> Cardinality({x \in posts : PlaceOf[x] = p})]
<1> DEFINE n == NameOf[p]
           new == {q \in Places : NameOf[q] = n /\ CountOf(q, posts) > 0}
           last == CHOOSE q \in new : \A r \in new : r <= q
           own == {x \in posts : PlaceOf[x] = p}
<1>1. n \in Names /\ new \subseteq {p} /\ p \in Nat
  BY CatalogAssumption DEF Names, SoleOfName
<1>2. Upserted(posts)[n] = IF new = {} THEN weekly[n]
                           ELSE [place |-> last, count |-> CountOf(last, posts)]
  BY <1>1 DEF Upserted
<1>3. IsFiniteSet(own) /\ Cardinality(own) \in Nat /\ (Cardinality(own) = 0 <=> own = {})
  BY PostsAssumption, FS_Subset, FS_CardinalityType, FS_EmptySet
<1>4. CountOf(p, posts) = Cardinality(own)
  BY DEF CountOf
<1>5. CASE own = {}
  <2>1. new = {}
    <3>1. ~(CountOf(p, posts) > 0)
      BY <1>3, <1>4, <1>5
    <3> QED BY <3>1, <1>1
  <2> QED BY <2>1, <1>2, <1>5
<1>6. CASE own # {}
  <2>1. new = {p}
    <3>1. CountOf(p, posts) > 0
      BY <1>3, <1>4, <1>6
    <3> QED BY <3>1, <1>1
  <2>2. last = p
    <3> HIDE DEF new
    <3> QED BY <2>1, <1>1
  <2> HIDE DEF new, last, own
  <2> QED BY <2>1, <2>2, <1>2, <1>4, <1>6 DEF own
<1> QED BY <1>5, <1>6

(* The posts of a place that a job receipts are the newest of that place.   *)
LEMMA CommitNewest ==
    ASSUME IngestTypeOK, ReceiptsOrdered, NEW j \in Jobs, Commit(j), NEW p \in Places
    PROVE  LET own == {x \in Fresh(j) : PlaceOf[x] = p}
           IN  /\ own = {} => ReceiptsOf(p)' = ReceiptsOf(p) /\ Newest(p)' = Newest(p)
               /\ own # {} => ReceiptsOf(p)' # {} /\ Newest(p)' = own
<1> DEFINE own == {x \in Fresh(j) : PlaceOf[x] = p}
           rec(x) == [post |-> x, licence |-> job[j].licence, before |-> Receipted]
<1>1. receipts' = receipts \cup {rec(x) : x \in Fresh(j)}
  BY DEF Commit, WriteReceipts
<1>2. ReceiptsOf(p)' = ReceiptsOf(p) \cup {rec(x) : x \in own}
  BY <1>1 DEF ReceiptsOf
<1>3. ASSUME own = {} PROVE ReceiptsOf(p)' = ReceiptsOf(p) /\ Newest(p)' = Newest(p)
  BY <1>2, <1>3 DEF Newest
<1>4. ASSUME own # {} PROVE ReceiptsOf(p)' # {} /\ Newest(p)' = own
  <2>1. \A y \in ReceiptsOf(p) : y.before \subseteq Receipted /\ y.post \in Receipted
                                 /\ y.post \notin y.before
    BY DEF ReceiptsOf, ReceiptsOrdered, Receipted
  <2>2. \A x \in own : rec(x).before = Receipted /\ rec(x).post = x
    OBVIOUS
  <2>3. \A y \in ReceiptsOf(p)' : y.before \subseteq Receipted
    BY <1>2, <2>1, <2>2
  <2>4. \A y \in ReceiptsOf(p) : ~(Receipted \subseteq y.before)
    BY <2>1
  <2>5. {y \in ReceiptsOf(p)' : \A z \in ReceiptsOf(p)' : z.before \subseteq y.before}
          = {rec(x) : x \in own}
    <3> DEFINE R == ReceiptsOf(p)'
               top == {y \in R : \A z \in R : z.before \subseteq y.before}
    <3>1. \A x \in own : rec(x) \in R
      BY <1>2
    <3>2. \A x \in own : rec(x) \in top
      BY <3>1, <2>2, <2>3
    <3>3. \A y \in top : y \notin ReceiptsOf(p)
      <4>1. PICK x \in own : TRUE
        BY <1>4
      <4>2. \A y \in top : rec(x).before \subseteq y.before
        BY <4>1, <3>1
      <4> QED BY <4>1, <4>2, <2>2, <2>4
    <3>4. \A y \in top : y \in {rec(x) : x \in own}
      BY <1>2, <3>3
    <3> HIDE DEF rec, own
    <3>5. top = {rec(x) : x \in own}
      BY <3>2, <3>4
    <3> QED BY <3>5
  <2>6. Newest(p)' = {y.post : y \in {rec(x) : x \in own}}
    BY <2>5 DEF Newest
  <2>7. ReceiptsOf(p)' # {}
    BY <1>2, <1>4
  <2>8. {y.post : y \in {rec(x) : x \in own}} = own
    <3> HIDE DEF rec, own
    <3>1. \A x \in own : rec(x) \in {rec(z) : z \in own} /\ rec(x).post = x
      BY <2>2
    <3> QED BY <3>1
  <2> HIDE DEF rec, own
  <2> QED BY <2>6, <2>7, <2>8
<1> QED BY <1>3, <1>4

(* The commit keeps the jobs' invariant. *)
LEMMA CommitKeeps ==
    ASSUME TypeOK, IngestInv, NEW j \in Jobs, Commit(j)
    PROVE  IngestInv'
<1>0. IngestTypeOK /\ job \in [Jobs -> Job] /\ ReceiptsOrdered
  BY DEF TypeOK, IngestTypeOK, IngestInv
<1>1. JobsEarned' /\ JobsBound'
  BY <1>0 DEF IngestInv, JobsEarned, JobsBound, PageEarned, Commit, NoJob
<1>2. LicencesAgree' /\ LicenceResolves'
  BY <1>0, CommitAgrees
<1>3. ReceiptsOrdered'
  <2>1. receipts' = receipts \cup
            {[post |-> x, licence |-> job[j].licence, before |-> Receipted] : x \in Fresh(j)}
    BY DEF Commit, WriteReceipts
  <2>2. Receipted \subseteq Receipted'
    BY <2>1 DEF Receipted
  <2>3. \A x \in Fresh(j) : x \notin Receipted
    BY DEF Fresh
  <2> QED BY <1>0, <2>1, <2>2, <2>3 DEF ReceiptsOrdered
<1>4. CountsNewest'
  <2> SUFFICES ASSUME NEW p \in Places, SoleOfName(p)
               PROVE  weekly'[NameOf[p]] =
                        IF ReceiptsOf(p)' = {} THEN NoRow
                        ELSE [place |-> p, count |-> Cardinality(Newest(p)')]
    BY DEF CountsNewest, SoleOfName
  <2> DEFINE own == {x \in Fresh(j) : PlaceOf[x] = p}
  <2>1. weekly'[NameOf[p]] = IF own = {} THEN weekly[NameOf[p]]
                             ELSE [place |-> p, count |-> Cardinality(own)]
    BY <1>0, FreshTyped, UpsertedSole DEF Commit
  <2>2. /\ own = {} => ReceiptsOf(p)' = ReceiptsOf(p) /\ Newest(p)' = Newest(p)
        /\ own # {} => ReceiptsOf(p)' # {} /\ Newest(p)' = own
    BY <1>0, CommitNewest
  <2>3. weekly[NameOf[p]] = IF ReceiptsOf(p) = {} THEN NoRow
                            ELSE [place |-> p, count |-> Cardinality(Newest(p))]
    BY DEF IngestInv, CountsNewest
  <2> HIDE DEF own
  <2> QED BY <2>1, <2>2, <2>3
<1> QED BY <1>1, <1>2, <1>3, <1>4 DEF IngestInv

(* A printed result is new, and has evidence for what it claims. *)
LEMMA PrintKeeps ==
    ASSUME IInv, NEW j \in Jobs, CommitAndPrint(j)
    PROVE  CheckpointInv'
<1> DEFINE q == Printed(j)
<1>1. /\ results' = results \cup {q} /\ clock' = clock + 1 /\ clock \in Nat
      /\ file' = file /\ lock' = lock /\ writer' = writer
      /\ q.time = clock + 1 /\ q.region = job[j].region /\ q.input = job[j].input
      /\ q.next = job[j].page.next /\ q.exhausted = job[j].page.exhausted
      /\ q.status = StatusOf(j)
  BY DEF CommitAndPrint, Printed, IInv, TypeOK, CheckpointTypeOK, Times
<1>2. \A p \in results : p.time \in Nat /\ p.time <= clock
  BY DEF IInv, TypeOK, CheckpointTypeOK, Result, Times, CheckpointInv, ResultsDated
<1>3. \A p \in Places : evidence[p] \subseteq evidence'[p]
  BY DEF CommitAndPrint
<1>4. ResultsDated'
  <2>1. \A p \in results' : p.time <= clock'
    BY <1>1, <1>2
  <2>2. \A p1, p2 \in results' : p1.time = p2.time => p1 = p2
    BY <1>1, <1>2 DEF IInv, CheckpointInv, ResultsDated
  <2> QED BY <2>1, <2>2 DEF ResultsDated
<1>5. ResultEarned(q, evidence')
  <2> SUFFICES ASSUME PageKind(q) \in CleanKinds, NEW p \in PlacesOf(q.region),
                      q.input < p, p <= q.next \/ q.exhausted
               PROVE  q.time \in evidence'[p]
    BY DEF ResultEarned
  <2>1. job[j].pc = "writing"
    BY DEF CommitAndPrint, Commit
  <2>2. p \in job[j].page.settled
    BY <2>1, <1>1 DEF IInv, IngestInv, JobsEarned, PageEarned
  <2>3. StatusOf(j) \notin {"failed", "degraded"}
    BY <1>1 DEF PageKind, CleanKinds
  <2>4. ~job[j].quarantined
    BY <2>3 DEF StatusOf
  <2>5. p \in Places
    BY DEF PlacesOf
  <2> QED BY <2>2, <2>4, <2>5, <1>1 DEF CommitAndPrint
<1>6. ResultsEarned'
  <2>1. ASSUME NEW x \in results PROVE ResultEarned(x, evidence')
    <3>1. ResultEarned(x, evidence)
      BY DEF IInv, CheckpointInv, ResultsEarned
    <3> QED BY <3>1, <1>3 DEF ResultEarned, PlacesOf
  <2> HIDE DEF q
  <2> QED BY <2>1, <1>1, <1>5 DEF ResultsEarned, ResultEarned
<1>7. FilesEarned'
  <2>1. results \subseteq results'
    BY <1>1
  <2>2. FileEarned(file, evidence', results')
    BY <1>3, <2>1, EarnedLater DEF IInv, CheckpointInv, FilesEarned
  <2>3. \A w \in Writers : writer[w].pc # "idle" => FileEarned(writer[w].doc, evidence', results')
    BY <1>3, <2>1, EarnedLater DEF IInv, CheckpointInv, FilesEarned
  <2> QED BY <2>2, <2>3, <1>1 DEF FilesEarned, FileEarned, EntryEarned, EntryBacked, Covered
<1>8. LockHeld' /\ DocsSupersede'
  BY <1>1 DEF IInv, CheckpointInv, LockHeld, DocsSupersede, Supersedes, Stopped
<1> QED BY <1>4, <1>6, <1>7, <1>8 DEF CheckpointInv

(* An export keeps the checkpoint's invariant. *)
LEMMA ExportKeeps ==
    ASSUME IInv, RemoveStaleLock \/ \E w \in Writers : ExportSteps(w), UNCHANGED evidence
    PROVE  CheckpointInv'
<1>0. /\ TypeOK /\ ResultsDated /\ ResultsEarned /\ FilesEarned /\ LockHeld /\ DocsSupersede
      /\ writer \in [Writers -> [pc : {"idle", "merged", "replaced"}, doc : File]]
  BY DEF IInv, CheckpointInv, TypeOK, CheckpointTypeOK
<1>1. results' = results /\ clock' = clock /\ evidence' = evidence
  BY DEF ExportSteps, RemoveStaleLock, Begin, Replace, Release, Die
<1>2. ResultsDated' /\ ResultsEarned'
  BY <1>0, <1>1 DEF ResultsDated, ResultsEarned, ResultEarned
<1>3. ASSUME FileEarned(file', evidence, results),
             \A w \in Writers : writer'[w].pc # "idle" => FileEarned(writer'[w].doc, evidence, results)
      PROVE  FilesEarned'
  BY <1>1, <1>3 DEF FilesEarned, FileEarned, EntryEarned, EntryBacked, Covered
<1>4. ASSUME \A w \in Writers : writer'[w].pc = "merged" => Supersedes(writer'[w].doc, file')
      PROVE  DocsSupersede'
  BY <1>4 DEF DocsSupersede, Supersedes, Stopped
<1>5. CASE RemoveStaleLock
  <2>1. \A w \in Writers : writer[w].pc = "idle"
    BY <1>0, <1>5, WritersAssumption DEF RemoveStaleLock, LockHeld
  <2>2. writer' = writer /\ file' = file
    BY <1>5 DEF RemoveStaleLock
  <2> QED BY <2>1, <2>2, <1>0, <1>2, <1>3, <1>4 DEF CheckpointInv, FilesEarned, LockHeld
<1>6. ASSUME NEW w \in Writers, ExportSteps(w) PROVE CheckpointInv'
  <2>1. CASE Begin(w)
    <3>1. PICK q \in results :
            /\ Accepted(file, q.region, Bridged(q))
            /\ writer' = [writer EXCEPT
                  ![w] = [pc |-> "merged", doc |-> Merged(file, q.region, Bridged(q))]]
      BY <2>1 DEF Begin
    <3> DEFINE g == Merged(file, q.region, Bridged(q))
    <3>2. FileEarned(file, evidence, results)
      BY <1>0 DEF FilesEarned
    <3>3. FileEarned(g, evidence, results) /\ Supersedes(g, file)
      BY <1>0, <3>1, <3>2, MergeKeeps
    <3> HIDE DEF g
    <3>4. writer' = [writer EXCEPT ![w] = [pc |-> "merged", doc |-> g]]
      BY <3>1 DEF g
    <3>5. \A v \in Writers : v # w => writer'[v] = writer[v] /\ writer[v].pc = "idle"
      BY <1>0, <2>1, <3>4, WritersAssumption DEF Begin, LockHeld
    <3>6. writer'[w].pc = "merged" /\ writer'[w].doc = g
      BY <1>0, <3>4
    <3>7. lock' = w /\ file' = file
      BY <2>1 DEF Begin
    <3>8. LockHeld'
      BY <3>5, <3>6, <3>7 DEF LockHeld
    <3>9. FilesEarned'
      BY <3>2, <3>3, <3>5, <3>6, <3>7, <1>3
    <3>10. DocsSupersede'
      BY <3>3, <3>5, <3>6, <3>7, <1>4
    <3> QED BY <3>8, <3>9, <3>10, <1>2 DEF CheckpointInv
  <2>2. CASE Replace(w)
    <3>1. /\ writer[w].pc = "merged" /\ file' = writer[w].doc /\ lock' = lock
          /\ writer' = [writer EXCEPT ![w].pc = "replaced"]
      BY <2>2 DEF Replace
    <3>2. \A v \in Writers : v # w => writer'[v] = writer[v] /\ writer[v].pc = "idle"
      BY <1>0, <3>1 DEF LockHeld
    <3>3. writer'[w].pc = "replaced" /\ writer'[w].doc = writer[w].doc
      BY <1>0, <3>1
    <3>4. FileEarned(writer[w].doc, evidence, results)
      BY <1>0, <3>1 DEF FilesEarned
    <3>5. FilesEarned'
      BY <3>1, <3>2, <3>3, <3>4, <1>3
    <3>6. DocsSupersede'
      BY <3>2, <3>3, <1>4
    <3>7. LockHeld'
      BY <1>0, <3>1, <3>2, <3>3 DEF LockHeld
    <3> QED BY <3>5, <3>6, <3>7, <1>2 DEF CheckpointInv
  <2>3. CASE Release(w) \/ Die(w)
    <3>1. /\ writer[w].pc # "idle" /\ file' = file
          /\ writer' = [writer EXCEPT ![w] = IdleWriter]
      BY <2>3 DEF Release, Die
    <3>2. \A v \in Writers : v # w => writer'[v] = writer[v] /\ writer[v].pc = "idle"
      BY <1>0, <3>1 DEF LockHeld
    <3>3. writer'[w].pc = "idle"
      BY <1>0, <3>1 DEF IdleWriter
    <3>4. FilesEarned' /\ DocsSupersede' /\ LockHeld'
      BY <1>0, <3>1, <3>2, <3>3, <1>3, <1>4 DEF FilesEarned, LockHeld
    <3> QED BY <3>4, <1>2 DEF CheckpointInv
  <2> QED BY <1>6, <2>1, <2>2, <2>3 DEF ExportSteps
<1> QED BY <1>5, <1>6

(* Every step keeps the invariant. *)
LEMMA StepInv ==
    ASSUME IInv, [Next]_vars
    PROVE  IInv'
<1>0. TypeOK /\ IngestInv /\ CheckpointInv /\ TypeOK'
  BY StepTyped DEF IInv
<1>1. CASE Register /\ UNCHANGED <<checkpointVars, evidence>>
  <2>1. IngestInv'
    <3>1. ReceiptsOrdered' /\ CountsNewest' /\ LicenceResolves'
      BY <1>0, <1>1, RowsRest DEF Register, IngestInv, LicenceResolves
    <3>2. JobsEarned' /\ JobsBound'
      BY <1>0, <1>1 DEF Register, IngestInv, JobsEarned, JobsBound
    <3>3. LicencesAgree'
      BY <1>0, <1>1 DEF Register, IngestInv, LicencesAgree
    <3> QED BY <3>1, <3>2, <3>3 DEF IngestInv
  <2> QED BY <1>0, <1>1, <2>1, CheckpointRests DEF IInv
<1>2. ASSUME NEW j \in Jobs, Plan(j) PROVE IInv'
  <2>1. IngestInv'
    BY <1>0, <1>2, JobStepsKeep DEF Plan
  <2> QED BY <1>0, <1>2, <2>1, CheckpointRests DEF IInv, Plan
<1>3. ASSUME NEW j \in Jobs, Unfinished(j), UNCHANGED <<checkpointVars, evidence>> PROVE IInv'
  <2>1. IngestInv'
    BY <1>0, <1>3, JobStepsKeep
  <2> QED BY <1>0, <1>3, <2>1, CheckpointRests DEF IInv
<1>4. ASSUME NEW j \in Jobs, CommitAndPrint(j) PROVE IInv'
  <2>1. IngestInv'
    BY <1>0, <1>4, CommitKeeps DEF CommitAndPrint
  <2>2. CheckpointInv'
    BY <1>4, PrintKeeps
  <2> QED BY <1>0, <2>1, <2>2 DEF IInv
<1>5. CASE /\ RemoveStaleLock \/ \E w \in Writers : ExportSteps(w)
           /\ UNCHANGED <<ingestVars, evidence>>
  <2>1. CheckpointInv'
    BY <1>5, ExportKeeps
  <2> QED BY <1>0, <1>5, <2>1, IngestRests DEF IInv
<1>6. CASE UNCHANGED vars
  <2>1. UNCHANGED ingestVars /\ UNCHANGED <<checkpointVars, evidence>>
    BY <1>6 DEF vars
  <2> QED BY <1>0, <2>1, IngestRests, CheckpointRests DEF IInv
<1> QED BY <1>1, <1>2, <1>3, <1>4, <1>5, <1>6 DEF Next

(* The invariant holds throughout. *)
THEOREM Invariant == Spec => []IInv
BY InitInv, StepInv, PTL DEF Spec

-----------------------------------------------------------------------------
(* What follows *)

(* Every receipt resolves, by its run row, to the licence its post was     *)
(* acquired under, for any jobs and licences, until a licence changes that *)
(* a write of the week had read (classify_review_records,                  *)
(* _create_or_resume_ingest_run).                                          *)
THEOREM LicencesResolve == Spec => []LicenceResolves
<1>1. IInv => LicenceResolves
  BY DEF IInv, IngestInv
<1> QED BY <1>1, Invariant, PTL

(* The weekly row of a place alone under its name counts exactly the posts *)
(* that the last job with new ones for it receipted, for any jobs and      *)
(* posts (_record_review_receipts,                                         *)
(* insert_review_mention_aggregates_on_cursor).                            *)
THEOREM CountsStayNewest == Spec => []CountsNewest
<1>1. IInv => CountsNewest
  BY DEF IInv, IngestInv
<1> QED BY <1>1, Invariant, PTL

(* Whole-region credit is earned, for any order of jobs and exports        *)
(* (build_region_checkpoint, _apply_sweep_lineage, _acquire_and_classify). *)
THEOREM CreditIsSound == Spec => []CreditSound
<1>1. ASSUME IInv PROVE CreditSound
  <2> SUFFICES ASSUME NEW r \in Regions, Trusted(file[r]), file[r].whole, NEW p \in PlacesOf(r)
               PROVE  \E t \in evidence[p] : file[r].chain <= t /\ t <= file[r].time
    BY DEF CreditSound
  <2>1. EntryEarned(r, file[r], evidence)
    BY <1>1 DEF IInv, CheckpointInv, FilesEarned, FileEarned, Trusted
  <2> QED BY <2>1 DEF EntryEarned, Covered
<1> QED BY <1>1, Invariant, PTL

(* Exporting a stored result again changes nothing (_apply_sweep_lineage). *)
THEOREM ReplaysAreNoOps == Spec => []ReplayIsNoOp
<1>1. ASSUME IInv PROVE ReplayIsNoOp
  <2> SUFFICES ASSUME NEW q \in results, file[q.region].time = q.time, ~StopRecorded(file)
               PROVE  /\ Accepted(file, q.region, Bridged(q))
                      /\ Merged(file, q.region, Bridged(q)) = file
    BY DEF ReplayIsNoOp
  <2> DEFINE b == Bridged(q)
             s == file[q.region]
  <2>1. q \in Result /\ q.region \in Regions /\ file \in File /\ q.time \in Nat /\ q.time # 0
    BY <1>1 DEF IInv, TypeOK, CheckpointTypeOK, Result, Times
  <2>2. s # NoEntry /\ s \in Entry
    BY <2>1 DEF File, NoEntry
  <2>3. s.qualified
    BY <1>1, <2>1, <2>2 DEF IInv, CheckpointInv, FilesEarned, FileEarned
  <2>4. b \in Entry /\ b.time = q.time /\ b.pages = 0 /\ b.qualified /\ b.input = q.input
    BY <2>1, BridgedTyped, BridgedFacts
  <2>5. Backs(q, s)
    <3>1. PICK p \in results : p.region = q.region /\ Backs(p, s)
      BY <1>1, <2>1, <2>2, <2>3 DEF IInv, CheckpointInv, FilesEarned, FileEarned, EntryBacked
    <3>2. p \in Result
      BY <1>1 DEF IInv, TypeOK, CheckpointTypeOK
    <3>3. Bridged(p).time = p.time /\ Bridged(p) \in Entry
      BY <3>2, BridgedTyped, BridgedFacts
    <3>4. s.time = p.time
      BY <3>1, <3>3 DEF Backs, Proven, Entry
    <3>5. p = q
      BY <1>1, <3>4 DEF IInv, CheckpointInv, ResultsDated
    <3> QED BY <3>1, <3>5
  <2>6. Chained(s, b) = s
    <3> HIDE DEF b, s
    <3>1. CASE b.input = 0
      BY <3>1, <2>5 DEF Backs, Chained, CleanKinds, b
    <3>2. CASE b.input # 0 /\ s.pages = 0
      <4>1. s = b
        BY <3>2, <2>5 DEF Backs, b
      <4>2. ~LiveHead(s)
        BY <3>2 DEF LiveHead
      <4>3. Chained(s, b) = b
        BY <3>2, <4>2 DEF Chained
      <4> QED BY <4>1, <4>3
    <3>3. CASE b.input # 0 /\ s.pages # 0
      <4>1. s = Proven(b, s.pages, s.chain, s.clean, s.whole)
        BY <3>3, <2>5 DEF Backs, b
      <4>2. SamePage(s, b) /\ s.time = b.time
        BY <4>1, <2>4 DEF SamePage, Proven, Entry
      <4>3. LiveHead(s)
        <5>1. s.pages \in 0 .. MaxPages
          BY <2>2 DEF Entry
        <5> QED BY <5>1, <3>3, <2>2, <2>3, PageCapAssumption DEF LiveHead, Trusted
      <4>4. ~(b.time < s.time)
        BY <4>2, <2>1, <2>4
      <4>5. Chained(s, b) = Proven(b, s.pages, s.chain, s.clean, s.whole)
        BY <3>3, <4>2, <4>3, <4>4 DEF Chained
      <4> QED BY <4>1, <4>5
    <3> QED BY <3>1, <3>2, <3>3
  <2>7. ~LineageError(s, b)
    BY <2>1, <2>4 DEF LineageError, Advances, Extends
  <2>8. Accepted(file, q.region, b)
    BY <2>1, <2>4, <2>6, <2>7 DEF Accepted
  <2>9. Merged(file, q.region, b) = file
    BY <2>1, <2>6 DEF Merged, File
  <2> QED BY <2>8, <2>9
<1> QED BY <1>1, Invariant, PTL

(* No export takes a region back (update_checkpoint_state). *)
THEOREM EvidenceIsKept == Spec => EvidenceKept
<1>1. ASSUME IInv, [Next]_vars
      PROVE  [\A r \in Regions :
                /\ Stopped(file, r) => Stopped(file', r)
                /\ file'[r].time >= file[r].time \/ Stopped(file', r)]_vars
  <2>0. file \in File
    BY <1>1 DEF IInv, TypeOK, CheckpointTypeOK
  <2>1. CASE file' = file
    <3>1. \A r \in Regions : file[r].time \in Int
      BY <2>0 DEF File, Entry, NoEntry, Times
    <3> QED BY <2>1, <3>1 DEF Stopped
  <2>2. CASE file' # file
    <3>1. PICK w \in Writers : Replace(w)
      BY <1>1, <2>2 DEF Next, Plan, CommitAndPrint, checkpointVars, vars, RemoveStaleLock,
                       ExportSteps, Begin, Release, Die
    <3>2. Supersedes(writer[w].doc, file) /\ file' = writer[w].doc
      BY <1>1, <3>1 DEF IInv, CheckpointInv, DocsSupersede, Replace
    <3> QED BY <3>2 DEF Supersedes, Stopped
  <2> QED BY <2>1, <2>2
<1> QED BY <1>1, Invariant, PTL DEF Spec, EvidenceKept

=============================================================================
