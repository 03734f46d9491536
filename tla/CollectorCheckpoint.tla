------------------------- MODULE CollectorCheckpoint -------------------------
(***************************************************************************)
(* The checkpoint file of the regional collector (collector_checkpoint.py):*)
(* results printed by collection jobs are bridged into entries, merged     *)
(* into one local state file under an O_EXCL lock file, and read back by   *)
(* the planner that decides which region is collected next and from which  *)
(* cursor.  A printed result is a file: it can be exported late, in any    *)
(* order, more than once, by several processes, or never.                  *)
(***************************************************************************)
EXTENDS RegionCatalog

CONSTANTS
    Writers,      \* processes running --export-checkpoint
    MaxPages,     \* SWEEP_MAX_PAGES
    Refresh,      \* refresh interval, in ticks of the clock
    MaxClock,     \* bound: the last observation time
    InitialFiles  \* bound: state files a sweep may start from

ASSUME PageCapAssumption == MaxPages \in Nat \ {0} /\ Refresh \in Nat /\ MaxClock \in Nat

Free == "free"
Stale == "stale"   \* left by a process that died

ASSUME WritersAssumption == Free \notin Writers /\ Stale \notin Writers

VARIABLES
    clock,    \* the last observation time given out
    results,  \* committed apply results, as printed
    file,     \* the state file: the entry of each region
    lock,     \* who made the lock file
    writer    \* what each exporting process holds

checkpointVars == <<clock, results, file, lock, writer>>

Times == Nat

Kinds == {"failed_page", "degraded_page", "terminal_clean", "clean_prefix", "none"}

(* sweep_pages, sweep_chain_started_at and sweep_clean are pages, chain    *)
(* and clean; pages = 0 stands for an entry without them.                  *)
Entry == [input : Cursors, next : Cursors, exhausted : BOOLEAN, whole : BOOLEAN,
          kind : Kinds, blocked : BOOLEAN, time : Times, qualified : BOOLEAN,
          pages : 0 .. MaxPages, chain : Times, clean : BOOLEAN]

NoEntry == [time |-> -1]

File == [Regions -> Entry \cup {NoEntry}]

(* An old file may hold entries written under the alias-only contract.    *)
ASSUME InitialFilesAssumption ==
    \A f \in InitialFiles :
        /\ f \in File
        /\ \A r \in Regions :
              f[r] # NoEntry => ~f[r].qualified /\ f[r].time = 0 /\ f[r].pages = 0

Result == [region : Regions, input : Cursors, next : Cursors, exhausted : BOOLEAN,
           status : {"succeeded", "degraded", "failed"},
           tally : {"clean", "failing", "stopped"}, time : Times \ {0}]

(* A type invariant: the stored entries, the results and the processes'    *)
(* documents have their shapes.                                            *)
CheckpointTypeOK ==
    /\ clock \in Times
    /\ results \subseteq Result
    /\ file \in File
    /\ lock \in Writers \cup {Free, Stale}
    /\ writer \in [Writers -> [pc : {"idle", "merged", "replaced"}, doc : File]]

-----------------------------------------------------------------------------
(* build_region_checkpoint *)

PageKind(p) ==
    IF p.status = "failed" THEN "failed_page"
    ELSE IF p.status = "degraded" \/ p.tally # "clean" THEN "degraded_page"
    ELSE IF p.exhausted THEN "terminal_clean"
    ELSE "clean_prefix"

Bridged(p) ==
    [input |-> p.input, next |-> IF p.status = "failed" THEN p.input ELSE p.next,
     exhausted |-> p.exhausted,
     whole |-> p.input = 0 /\ PageKind(p) = "terminal_clean",
     kind |-> PageKind(p), blocked |-> p.tally = "stopped", time |-> p.time,
     qualified |-> TRUE, pages |-> 0, chain |-> 0, clean |-> FALSE]

-----------------------------------------------------------------------------
(* _apply_sweep_lineage *)

Proven(e, pages, chain, clean, whole) ==
    [e EXCEPT !.pages = pages, !.chain = chain, !.clean = clean, !.whole = whole]

(* Mutant: the credit the chain derived is compared as a fact of the page. *)
SamePageWhole(s, e) ==
    \A f \in {"input", "next", "exhausted", "kind", "blocked", "time", "qualified", "whole"} :
        s[f] = e[f]

(* Equal up to what the chain adds: an exact replay of the stored page. *)
SamePage(s, e) ==
    \A f \in {"input", "next", "exhausted", "kind", "blocked", "time", "qualified"} :
        s[f] = e[f]

Trusted(e) == e # NoEntry /\ e.qualified

LiveHead(s) == Trusted(s) /\ s.pages > 0

(* A newer page that starts at the cursor the live head committed. *)
Extends(s, e) ==
    LiveHead(s) /\ e.input # 0 /\ e.time > s.time /\ ~e.blocked /\ e.input = s.next

Advances(s, e) == Extends(s, e) /\ e.kind # "failed_page"

(* The two errors of the lineage step: a page that makes no progress, and  *)
(* a chain past its page cap.                                              *)
LineageError(s, e) ==
    Advances(s, e) /\ (\/ e.next = e.input /\ ~e.exhausted
                       \/ s.pages + 1 > MaxPages)

Chained(s, e) ==
    IF e.input = 0
    THEN IF e.kind \in {"clean_prefix", "terminal_clean"}
         THEN Proven(e, 1, e.time, TRUE, e.whole) ELSE e
    ELSE IF ~LiveHead(s) \/ e.time < s.time THEN e
    ELSE IF e.time = s.time
         THEN IF SamePage(s, e) THEN Proven(e, s.pages, s.chain, s.clean, s.whole) ELSE e
    ELSE IF e.blocked THEN Proven(e, s.pages, s.chain, s.clean, FALSE)
    ELSE IF ~Extends(s, e) THEN e
    ELSE IF ~Advances(s, e) THEN Proven(e, s.pages, s.chain, s.clean, FALSE)
    ELSE Proven(e, s.pages + 1, s.chain,
                s.clean /\ e.kind \in {"clean_prefix", "terminal_clean"},
                s.clean /\ e.kind = "terminal_clean")

-----------------------------------------------------------------------------
(* update_checkpoint_state *)

Stopped(f, r) == f[r] # NoEntry /\ f[r].blocked
StopRecorded(f) == \E r \in Regions : Stopped(f, r)

(* The merge policy: a recorded stop refuses every other update, evidence  *)
(* of the same time must be the same evidence, and older evidence is       *)
(* refused unless it is a stop.                                            *)
Accepted(f, r, e) ==
    /\ e.blocked \/ ~StopRecorded(f)
    /\ ~LineageError(f[r], e)
    /\ f[r] # NoEntry =>
          /\ e.time = f[r].time => Chained(f[r], e) = f[r]
          /\ e.blocked \/ e.time >= f[r].time

Merged(f, r, e) == [f EXCEPT ![r] = Chained(f[r], e)]

(* What load_checkpoint_snapshot demands of one entry. *)
Loadable(e) ==
    /\ e.pages > 0 =>
          /\ e.qualified
          /\ e.kind # "none"
          /\ e.whole => e.clean /\ e.kind = "terminal_clean"
          /\ e.pages <= MaxPages
          /\ e.chain <= e.time
    /\ e.whole => e.exhausted /\ ~e.blocked
    /\ e.whole /\ e.input # 0 => e.pages > 0

(* Mutant: an update does not respect the lock file of another one. *)
BeginUnlocked(w) ==
    /\ writer[w].pc = "idle"
    /\ \E p \in results :
          /\ Accepted(file, p.region, Bridged(p))
          /\ writer' = [writer EXCEPT
                ![w] = [pc |-> "merged", doc |-> Merged(file, p.region, Bridged(p))]]
    /\ lock' = w
    /\ UNCHANGED <<clock, results, file>>

(* The lock file is created before the state is read; an update that is    *)
(* refused releases it and changes nothing.                                *)
Begin(w) ==
    /\ writer[w].pc = "idle"
    /\ lock = Free
    /\ \E p \in results :
          /\ Accepted(file, p.region, Bridged(p))
          /\ writer' = [writer EXCEPT
                ![w] = [pc |-> "merged", doc |-> Merged(file, p.region, Bridged(p))]]
    /\ lock' = w
    /\ UNCHANGED <<clock, results, file>>

(* The written document is validated by the loader and renamed into place. *)
Replace(w) ==
    /\ writer[w].pc = "merged"
    /\ \A r \in Regions : writer[w].doc[r] # NoEntry => Loadable(writer[w].doc[r])
    /\ file' = writer[w].doc
    /\ writer' = [writer EXCEPT ![w].pc = "replaced"]
    /\ UNCHANGED <<clock, results, lock>>

NoDoc == [r \in Regions |-> NoEntry]
IdleWriter == [pc |-> "idle", doc |-> NoDoc]

(* The finally block: also after a write that failed. *)
Release(w) ==
    /\ writer[w].pc \in {"merged", "replaced"}
    /\ writer' = [writer EXCEPT ![w] = IdleWriter]
    /\ lock' = Free
    /\ UNCHANGED <<clock, results, file>>

(* A process that dies leaves its lock file. *)
Die(w) ==
    /\ writer[w].pc \in {"merged", "replaced"}
    /\ writer' = [writer EXCEPT ![w] = IdleWriter]
    /\ lock' = Stale
    /\ UNCHANGED <<clock, results, file>>

(* No code removes a stale lock: an operator does. *)
RemoveStaleLock ==
    /\ lock = Stale
    /\ lock' = Free
    /\ UNCHANGED <<clock, results, file, writer>>

-----------------------------------------------------------------------------
(* classify_region and plan_regional_collection, for one region *)

NeedsWork(e) ==
    (Trusted(e) /\ e.whole) =>
        clock - (IF e.pages > 0 THEN e.chain ELSE e.time) > Refresh

(* A partial window resumes; a tail that could not be proven complete, a   *)
(* region that is due and one never seen start over.                       *)
PlannedCursor(e) ==
    IF Trusted(e) /\ ~e.whole /\ ~(e.exhausted /\ e.input # 0)
    THEN e.next ELSE 0

Plannable(r, c) ==
    /\ ~StopRecorded(file)
    /\ NeedsWork(file[r])
    /\ c = PlannedCursor(file[r])

-----------------------------------------------------------------------------
CheckpointInit ==
    /\ clock = 0
    /\ results = {}
    /\ file \in InitialFiles
    /\ lock = Free
    /\ writer = [w \in Writers |-> IdleWriter]

ExportSteps(w) == Begin(w) \/ Replace(w) \/ Release(w) \/ Die(w)
=============================================================================
