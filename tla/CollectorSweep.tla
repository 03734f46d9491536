---------------------------- MODULE CollectorSweep ----------------------------
(***************************************************************************)
(* The regional sweep: planner, collection jobs, database and checkpoint   *)
(* file together.  A plan is read from the state file, its arguments are   *)
(* approved and run later, the committed job prints a result, and the      *)
(* result is exported into the state file the next plan is read from.      *)
(***************************************************************************)
EXTENDS ReviewIngest, CollectorCheckpoint

VARIABLE evidence  \* the observation times at which a place was collected cleanly

vars == <<ingestVars, checkpointVars, evidence>>

(* A type invariant of the composition. *)
TypeOK ==
    /\ IngestTypeOK
    /\ CheckpointTypeOK
    /\ evidence \in [Places -> SUBSET (Times \ {0})]

Init ==
    /\ IngestInit
    /\ CheckpointInit
    /\ evidence = [p \in Places |-> {}]

(* Bound: jobs in flight and results printed together. *)
Running == {j \in Jobs : job[j].pc # "idle"}

(* --schedule reads the state file; its arguments start a job later. *)
Plan(j) ==
    /\ clock + Cardinality(Running) < MaxClock
    /\ \E r \in Regions, c \in Cursors : Plannable(r, c) /\ Launch(j, r, c)
    /\ UNCHANGED <<checkpointVars, evidence>>

(* A committed job prints its result, with its observation time.  A result *)
(* lost with the process is one that is never exported.                    *)
CommitAndPrint(j) ==
    /\ Commit(j)
    /\ clock' = clock + 1
    /\ results' = results \cup
          {[region |-> job[j].region, input |-> job[j].input, next |-> job[j].page.next,
            exhausted |-> job[j].page.exhausted, status |-> StatusOf(j),
            tally |-> job[j].page.tally, time |-> clock + 1]}
    /\ evidence' = [p \in Places |->
          IF p \in job[j].page.settled /\ ~job[j].quarantined
          THEN evidence[p] \cup {clock + 1} ELSE evidence[p]]
    /\ UNCHANGED <<file, lock, writer>>

Next ==
    \/ Register /\ UNCHANGED <<checkpointVars, evidence>>
    \/ \E j \in Jobs :
          \/ Plan(j)
          \/ Unfinished(j) /\ UNCHANGED <<checkpointVars, evidence>>
          \/ CommitAndPrint(j)
    \/ /\ RemoveStaleLock \/ \E w \in Writers : ExportSteps(w)
       /\ UNCHANGED <<ingestVars, evidence>>

Spec == Init /\ [][Next]_vars

-----------------------------------------------------------------------------
(* Whole-region credit is earned: when the state file says that a region   *)
(* was collected completely, every place of it was collected cleanly, and  *)
(* committed, within the span the entry claims - whatever the order in     *)
(* which plans were run and results exported (build_region_checkpoint,     *)
(* _apply_sweep_lineage, _acquire_and_classify).                           *)
CreditSound ==
    \A r \in Regions :
        (Trusted(file[r]) /\ file[r].whole) =>
            \A p \in PlacesOf(r) : \E t \in evidence[p] :
                file[r].chain <= t /\ t <= file[r].time

(* No export takes a region back: a recorded stop stays recorded, and an   *)
(* entry gives way only to newer evidence or to a stop - with late, old,   *)
(* repeated and concurrent exports, and processes dying between the lock   *)
(* and the rename (update_checkpoint_state).                               *)
EvidenceKept ==
    [][\A r \in Regions :
          /\ Stopped(file, r) => Stopped(file', r)
          /\ file'[r].time >= file[r].time \/ Stopped(file', r)]_vars

(* Exporting again the result a stored entry came from changes nothing and *)
(* is not an error, unless a stop was recorded since (the same-time replay *)
(* rule of _apply_sweep_lineage).                                          *)
ReplayIsNoOp ==
    \A p \in results :
        (file[p.region].time = p.time /\ ~StopRecorded(file)) =>
            /\ Accepted(file, p.region, Bridged(p))
            /\ Merged(file, p.region, Bridged(p)) = file

=============================================================================
