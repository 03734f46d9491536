---------------------------- MODULE ReviewIngest ----------------------------
(***************************************************************************)
(* The three phases of one collection job of run_naver_review_collect.py,  *)
(* and the PostgreSQL rows its governed transaction writes.                *)
(*                                                                         *)
(*   preflight  the source gate and the place window, on a connection that *)
(*              is closed before the first search request;                 *)
(*   acquire    two searches for each place, with no connection open;      *)
(*   write      one transaction: the gate again, the weekly run row (whose *)
(*              upsert holds its row lock until the commit, so jobs of one *)
(*              week commit one after the other), the receipts, and the    *)
(*              weekly counts built from the newly receipted posts.        *)
(*                                                                         *)
(* The posts are those of one week.                                        *)
(***************************************************************************)
EXTENDS RegionCatalog

CONSTANTS
    Jobs,         \* collector processes
    NameOf,       \* the name_ko of a place
    ShortNamed,   \* places whose name is too short to be searched for
    Posts,        \* organic posts the searches of a place can return
    PlaceOf,      \* the place a post is found for
    Licences,     \* allowed license_class values of the source
    NoLicence,    \* of a run row that was not written, of a job without records
    Outcomes,     \* bound: what the two searches of a place may come to
    MaxPairs      \* --max-requests is at most twice this: places a budget reaches

ASSUME PostsAssumption ==
    /\ ShortNamed \subseteq Places
    /\ PlaceOf \in [Posts -> Places] /\ IsFiniteSet(Posts)
    /\ NoLicence \notin Licences
    /\ MaxPairs \in Nat \ {0}

VARIABLES
    source,     \* license_class of the registration row
    run,        \* license_class of the ingest_runs row of the week
    receipts,   \* review_ingest_receipts, which refer to that run row
    weekly,     \* place_mentions_weekly: the row of each place name
    job,        \* what each process holds
    relicensed  \* history: the licence changed once a write had read the old one

(* A receipt.  The licence its post was acquired under and the posts that  *)
(* had a receipt before it are history: no column keeps them.              *)
Receipts ==
    [post : Posts, licence : Licences \cup {NoLicence}, before : SUBSET Posts]

ingestVars == <<source, run, receipts, weekly, job, relicensed>>

Names == {NameOf[p] : p \in Places}
(* What the two searches of a place came to: both answered; one failed;    *)
(* both failed; refused (credentials, quota) at once; refused after an     *)
(* answer.                                                                 *)
ASSUME OutcomesAssumption ==
    Outcomes \subseteq {"clean", "partial", "bad", "stop", "stopLate"}
Fatal == {"stop", "stopLate"}

Tallies == {"clean", "failing", "stopped"}
Statuses == {"succeeded", "degraded", "failed"}

NoPage == [next |-> 0, exhausted |-> FALSE, tally |-> "clean",
           allFailed |-> FALSE, settled |-> {}]

Page == [next : Cursors, exhausted : BOOLEAN, tally : Tallies,
         allFailed : BOOLEAN, settled : SUBSET Places]

JobPhases == {"idle", "planned", "acquired", "writing"}

(* The records a job holds, all of them acquired under the licence of the  *)
(* registration its preflight read, and the licence its write binds to.    *)
Job == [pc : JobPhases, region : Regions, input : Cursors, page : Page,
        records : SUBSET Posts, licence : Licences \cup {NoLicence},
        bound : Licences \cup {NoLicence}, quarantined : BOOLEAN]

(* A row's place_id and mention_count.  The key (week_start, place_name_ko,*)
(* provider, category) is the name: one week, provider and category.       *)
Row == [place : Cursors, count : Nat]
NoRow == [place |-> 0, count |-> 0]

(* A type invariant: the rows and the processes' states have their shapes. *)
IngestTypeOK ==
    /\ source \in Licences
    /\ run \in Licences \cup {NoLicence}
    /\ receipts \subseteq Receipts
    /\ weekly \in [Names -> Row]
    /\ job \in [Jobs -> Job]
    /\ relicensed \in BOOLEAN

NoJob == [pc |-> "idle", region |-> CHOOSE r \in Regions : TRUE, input |-> 0,
          page |-> NoPage, records |-> {}, licence |-> NoLicence,
          bound |-> NoLicence, quarantined |-> FALSE]

IngestInit ==
    /\ source \in Licences
    /\ run = NoLicence
    /\ receipts = {}
    /\ weekly = [n \in Names |-> NoRow]
    /\ job = [j \in Jobs |-> NoJob]
    /\ relicensed = FALSE

-----------------------------------------------------------------------------
(* The operator *)

(* register_review_source, with another licence: an upsert in a            *)
(* transaction of its own.  (A source that is paused only makes jobs give  *)
(* up, which they may at any time.)                                        *)
Register ==
    /\ source' \in Licences \ {source}
    /\ relicensed' = (\/ relicensed
                      \/ run = source
                      \/ \E j \in Jobs : job[j].bound = source)
    /\ UNCHANGED <<run, receipts, weekly, job>>

(* The planned arguments are approved and the collector is started later. *)
Launch(j, r, c) ==
    /\ job[j].pc = "idle"
    /\ job' = [job EXCEPT ![j].pc = "planned", ![j].region = r, ![j].input = c]
    /\ UNCHANGED <<source, run, receipts, weekly, relicensed>>

-----------------------------------------------------------------------------
(* Phase 1 and phase 2 *)

(* The places whose searches are made: the budget reserves both searches   *)
(* of a place, and the run ends at the first refusal.                      *)
Started(W, out, cap) ==
    {p \in W \ ShortNamed :
        LET before == {q \in W \ ShortNamed : q < p}
        IN  Cardinality(before) < cap /\ \A q \in before : out[q] \notin Fatal}

(* The places that settled: searched without a failure, or skipped for     *)
(* their name before the run was stopped.                                  *)
Settled(W, out, cap) ==
    {p \in Started(W, out, cap) : out[p] = "clean"}
        \cup {p \in W \cap ShortNamed :
                 \A q \in Started(W, out, cap) : q < p => out[q] \notin Fatal}

(* The cursor moves over consecutively settled places only. *)
Advanced(W, settled, c) ==
    LET prefix == {p \in W : \A q \in W : q <= p => q \in settled}
    IN  IF prefix = {} THEN c ELSE CHOOSE p \in prefix : \A q \in prefix : q <= p

Tally(W, out, cap) ==
    IF \E p \in Started(W, out, cap) : out[p] \in Fatal THEN "stopped"
    ELSE IF \E p \in Started(W, out, cap) : out[p] # "clean" THEN "failing"
    ELSE "clean"

(* Mutant: a full window is taken for the last one. *)
ExhaustedIfFull(W, settled) == Cardinality(W) <= Limit /\ settled = W

(* _window_exhausted: the window was not full, and settled throughout. *)
Exhausted(W, settled) == Cardinality(W) < Limit /\ settled = W

PageOf(W, out, cap, c) ==
    LET settled == Settled(W, out, cap)
        started == Started(W, out, cap)
    IN  [next      |-> Advanced(W, settled, c),
         exhausted |-> Exhausted(W, settled),
         tally     |-> Tally(W, out, cap),
         allFailed |-> started # {} /\ \A p \in started : out[p] \in {"bad", "stop"},
         settled   |-> settled]

(* load_active_review_source and the window are read first; the searches   *)
(* that follow touch nothing any other process can see.  A refused gate    *)
(* ends the job: GiveUp.                                                   *)
Acquire(j) ==
    /\ job[j].pc = "planned"
    /\ LET W == Window(job[j].region, job[j].input)
       IN  \E out \in [W \ ShortNamed -> Outcomes], cap \in 1 .. MaxPairs :
           \E found \in SUBSET {x \in Posts :
                  PlaceOf[x] \in Started(W, out, cap) /\ out[PlaceOf[x]] \notin {"bad", "stop"}} :
              job' = [job EXCEPT ![j].pc = "acquired",
                                 ![j].page = PageOf(W, out, cap, job[j].input),
                                 ![j].records = found,
                                 ![j].licence = IF found = {} THEN NoLicence ELSE source]
    /\ UNCHANGED <<source, run, receipts, weekly, relicensed>>

-----------------------------------------------------------------------------
(* Phase 3 *)

(* Mutant: records are bound without comparing their identity. *)
ValidUnchecked(j) == job[j].records

(* classify_review_records: records whose identity is not that of the      *)
(* registration just loaded are quarantined, all of a job's or none.       *)
Valid(j) == IF job[j].licence = source THEN job[j].records ELSE {}

(* The gate is read again in the write transaction, without a lock. *)
Recheck(j) ==
    /\ job[j].pc = "acquired"
    /\ job' = [job EXCEPT ![j].pc = "writing", ![j].records = Valid(j),
                 ![j].licence = IF Valid(j) = {} THEN NoLicence ELSE job[j].licence,
                 ![j].bound = source,
                 ![j].quarantined = job[j].records # Valid(j)]
    /\ UNCHANGED <<source, run, receipts, weekly, relicensed>>

Receipted == {x.post : x \in receipts}

(* _record_review_receipts: a post that has a receipt is a replay. *)
Fresh(j) == job[j].records \ Receipted

(* _create_or_resume_ingest_run: the first write of the week makes the run *)
(* row; the next ones resume it and leave its licence.                     *)
ResumeRun(j) == run' = IF run = NoLicence THEN job[j].bound ELSE run

WriteReceipts(j) ==
    receipts' = receipts \cup
        {[post |-> x, licence |-> job[j].licence, before |-> Receipted] : x \in Fresh(j)}

CountOf(p, posts) == Cardinality({x \in posts : PlaceOf[x] = p})

(* insert_review_mention_aggregates_on_cursor: one upsert for each place   *)
(* that has a new post, in the order of the places; a conflict on the key  *)
(* sets the row's place and its count.                                     *)
Upserted(posts) ==
    [n \in Names |->
        LET new == {p \in Places : NameOf[p] = n /\ CountOf(p, posts) > 0}
            last == CHOOSE p \in new : \A q \in new : q <= p
        IN  IF new = {} THEN weekly[n]
            ELSE [place |-> last, count |-> CountOf(last, posts)]]

StatusOf(j) ==
    IF job[j].page.allFailed THEN "failed"
    ELSE IF job[j].page.tally # "clean" \/ job[j].quarantined THEN "degraded"
    ELSE "succeeded"

(* Mutant: the counts have a transaction of their own, which may fail. *)
CommitTwice(j) ==
    /\ job[j].pc = "writing"
    /\ ResumeRun(j)
    /\ WriteReceipts(j)
    /\ weekly' \in {weekly, Upserted(Fresh(j))}
    /\ job' = [job EXCEPT ![j] = NoJob]
    /\ UNCHANGED <<source, relicensed>>

(* Once the weekly run row is locked nothing another job commits comes     *)
(* between the receipts, the quarantine, the run's counters, the counts    *)
(* and the commit.                                                         *)
Commit(j) ==
    /\ job[j].pc = "writing"
    /\ ResumeRun(j)
    /\ WriteReceipts(j)
    /\ weekly' = Upserted(Fresh(j))
    /\ job' = [job EXCEPT ![j] = NoJob]
    /\ UNCHANGED <<source, relicensed>>

(* A gate that refuses a source that is not active, a failed transaction   *)
(* (rolled back whole) or the death of the process: no result is printed.  *)
GiveUp(j) ==
    /\ job[j].pc # "idle"
    /\ job' = [job EXCEPT ![j] = NoJob]
    /\ UNCHANGED <<source, run, receipts, weekly, relicensed>>

Unfinished(j) == Acquire(j) \/ Recheck(j) \/ GiveUp(j)

(* The jobs alone, started with any arguments. *)
IngestNext ==
    \/ Register
    \/ \E j \in Jobs :
          \/ \E r \in Regions, c \in Cursors : Launch(j, r, c)
          \/ Unfinished(j)
          \/ Commit(j)

IngestSpec == IngestInit /\ [][IngestNext]_ingestVars

-----------------------------------------------------------------------------
(* Every receipt resolves, by its run row, to the licence its post was     *)
(* acquired under - with searches that began before the source was given   *)
(* another licence, and jobs that resume a row another one made - unless   *)
(* the licence changed once a write of the week had read the old one: the  *)
(* row is never updated (classify_review_records,                          *)
(* _create_or_resume_ingest_run).                                          *)
LicenceResolves == ~relicensed => \A x \in receipts : x.licence = run

ReceiptsOf(p) == {x \in receipts : PlaceOf[x.post] = p}

(* The posts of a place that the last job with new ones for it receipted. *)
Newest(p) ==
    {x.post : x \in {y \in ReceiptsOf(p) :
                        \A z \in ReceiptsOf(p) : z.before \subseteq y.before}}

SoleOfName(p) == \A q \in Places : NameOf[q] = NameOf[p] => q = p

(* However jobs overlap, fail and find posts again, receipts and counts    *)
(* stay together: the weekly row of a place counts exactly the posts that  *)
(* the last job with new ones for it receipted - no receipt without its    *)
(* count, and a post found again is not in a later count (as long as no    *)
(* other place has its name: EachPlaceCounted).                            *)
CountsNewest ==
    \A p \in Places : SoleOfName(p) =>
        weekly[NameOf[p]] = IF ReceiptsOf(p) = {} THEN NoRow
                            ELSE [place |-> p, count |-> Cardinality(Newest(p))]

(* Two places each get their own receipts and their own aggregate: a place *)
(* with receipted posts has a weekly row that counts them                  *)
(* (naver-acquisition-lane-contract.md, item 4).                           *)
EachPlaceCounted ==
    \A p \in Places : CountOf(p, Receipted) > 0 =>
        \E n \in Names : weekly[n] = [place |-> p, count |-> CountOf(p, Receipted)]
=============================================================================
