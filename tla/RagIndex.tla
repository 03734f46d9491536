------------------------------- MODULE RagIndex -------------------------------
(***************************************************************************)
(* The retrieval index rag.knowledge_chunks and the two jobs that write    *)
(* it: run_rag_index --apply reads source rows, embeds them and upserts    *)
(* the chunks; --reindex --apply embeds again, in bounded batches, what    *)
(* the serving generation has not reached.  Runs of both kinds may fail    *)
(* anywhere and be started again; nothing keeps them from overlapping.     *)
(*                                                                         *)
(* A text is a version number of what a source row says, from 1; 0 is no   *)
(* text.  A generation stands for the settings of its time, the embedding  *)
(* method and model among them: both change together, and a run keeps the  *)
(* settings it was started with.                                           *)
(***************************************************************************)
EXTENDS FiniteSets, Integers

CONSTANTS
    Chunks, Upserters, Reindexers,
    BatchSize,       \* rag_reindex_batch_size
    ChunkCap,        \* --chunk-cap of each run (rag_reindex_chunk_cap unless given)
    Edited,          \* bound: chunks whose source rows change
    MaxText,         \* bound: versions of a source row
    MaxGeneration    \* bound: changes of the settings

ASSUME RagAssumption ==
    /\ IsFiniteSet(Chunks) /\ Edited \subseteq Chunks
    /\ BatchSize \in Nat \ {0} /\ ChunkCap \in [Reindexers -> Nat \ {0}]
    /\ MaxText \in Nat \ {0} /\ MaxGeneration \in Nat \ {0}

VARIABLES
    source,      \* what the source rows say now
    serving,     \* rag_embedding_generation of the settings in force
    index,       \* rag.knowledge_chunks
    upserter,    \* the runs of --apply
    reindexer,   \* the runs of --reindex --apply
    fallen,      \* chunks that came in, or lost generations, since a reindex began (history)
    overlapped   \* two runs, or a run and a change of settings, have overlapped (history)

vars == <<source, serving, index, upserter, reindexer, fallen, overlapped>>

\* text with its digest; the text the embedding was made of and the settings it
\* was made with; embedding_generation.  A chunk that is not there has text 0.
Row == [text : Nat, sha : Nat, embedded : Nat, by : Nat, generation : Nat]

Absent == [text |-> 0, sha |-> 0, embedded |-> 0, by |-> 0, generation |-> 0]

\* The texts read so far.
Upsert == [on : BOOLEAN, generation : Nat, read : [Chunks -> Nat]]

\* What of chunk_cap is left, and the texts and digests of the batch selected.
Reindex == [pc : {"idle", "select", "embed", "probe", "done"}, generation : Nat,
            left : Nat, batch : [Chunks -> [text : Nat, sha : Nat]], capped : BOOLEAN]

NoBatch == [c \in Chunks |-> [text |-> 0, sha |-> 0]]

NoUpsert == [on |-> FALSE, generation |-> 0, read |-> [c \in Chunks |-> 0]]
NoReindex == [pc |-> "idle", generation |-> 0, left |-> 0, batch |-> NoBatch, capped |-> FALSE]

TypeOK ==
    /\ source \in [Chunks -> Nat \ {0}]
    /\ serving \in Nat
    /\ index \in [Chunks -> Row]
    /\ upserter \in [Upserters -> Upsert]
    /\ reindexer \in [Reindexers -> Reindex]
    /\ fallen \in [Reindexers -> SUBSET Chunks]
    /\ overlapped \in BOOLEAN

Init ==
    /\ source = [c \in Chunks |-> 1]
    /\ serving = 1
    /\ index = [c \in Chunks |-> Absent]
    /\ upserter = [u \in Upserters |-> NoUpsert]
    /\ reindexer = [r \in Reindexers |-> NoReindex]
    /\ fallen = [r \in Reindexers |-> {}]
    /\ overlapped = FALSE

Upserting == {u \in Upserters : upserter[u].on}
Reindexing == {r \in Reindexers : reindexer[r].pc \in {"select", "embed", "probe"}}

SomeRun == Upserting # {} \/ Reindexing # {}

-------------------------------------------------------------------------------
(* The surroundings *)

\* A collector or an editor changes a source row.
SourceChanges(c) ==
    /\ c \in Edited /\ source[c] < MaxText
    /\ source' = [source EXCEPT ![c] = @ + 1]
    /\ UNCHANGED <<serving, index, upserter, reindexer, fallen, overlapped>>

\* An operator deploys another embedding model or method with its generation.
BumpGeneration ==
    /\ serving < MaxGeneration
    /\ serving' = serving + 1
    /\ overlapped' = (overlapped \/ SomeRun)
    /\ UNCHANGED <<source, index, upserter, reindexer, fallen>>

-------------------------------------------------------------------------------
(* --apply *)

StartUpsert(u) ==
    /\ ~upserter[u].on
    /\ upserter' = [upserter EXCEPT ![u] =
                       [NoUpsert EXCEPT !.on = TRUE, !.generation = serving]]
    /\ overlapped' = (overlapped \/ SomeRun)
    /\ UNCHANGED <<source, serving, index, reindexer, fallen>>

\* The sources are read one query after another, up to a limit.
FetchChunk(u, c) ==
    /\ upserter[u].on /\ upserter[u].read[c] = 0
    /\ upserter' = [upserter EXCEPT ![u].read[c] = source[c]]
    /\ UNCHANGED <<source, serving, index, reindexer, fallen, overlapped>>

\* Mutant: a chunk that has an embedding keeps it.
EmbeddedOnce(u, c) ==
    [index[c] EXCEPT !.text = upserter[u].read[c], !.sha = upserter[u].read[c],
                     !.embedded = IF @ = 0 THEN upserter[u].read[c] ELSE @,
                     !.by = IF @ = 0 THEN upserter[u].generation ELSE @]

\* INSERT ... ON CONFLICT DO UPDATE names every column but embedding_generation:
\* a new chunk has its default, 0, and an old one keeps what it had.
Upserted(u, c) ==
    [index[c] EXCEPT !.text = upserter[u].read[c], !.sha = upserter[u].read[c],
                     !.embedded = upserter[u].read[c], !.by = upserter[u].generation]

\* History: a chunk falls when it comes in or gets a lower generation.
NoteFallen ==
    LET fell == {c \in Chunks : \/ index[c].text = 0 /\ index'[c].text # 0
                                \/ index'[c].generation < index[c].generation} IN
    fallen' = [r \in Reindexers |->
                  IF reindexer[r].pc = "idle" \/ reindexer[r].capped THEN {} ELSE fallen[r] \cup fell]

\* All texts were embedded before the one transaction that writes them.
UpsertChunks(u) ==
    /\ upserter[u].on
    /\ index' = [c \in Chunks |->
                    IF upserter[u].read[c] # 0 THEN Upserted(u, c) ELSE index[c]]
    /\ upserter' = [upserter EXCEPT ![u] = NoUpsert]
    /\ NoteFallen
    /\ UNCHANGED <<source, serving, reindexer, overlapped>>

\* An embedding fails, the database does, or the process dies.
UpsertFails(u) ==
    /\ upserter[u].on
    /\ upserter' = [upserter EXCEPT ![u] = NoUpsert]
    /\ UNCHANGED <<source, serving, index, reindexer, fallen, overlapped>>

-------------------------------------------------------------------------------
(* --reindex --apply *)

Indexed == {c \in Chunks : index[c].text # 0}

\* Every chunk the jobs write has an embedding, so only the generation tells.
Stale(g) == {c \in Indexed : index[c].generation < g}

StartReindex(r) ==
    /\ r \notin Reindexing
    /\ reindexer' = [reindexer EXCEPT ![r] =
                        [NoReindex EXCEPT !.pc = "select", !.generation = serving,
                                          !.left = ChunkCap[r]]]
    /\ fallen' = [fallen EXCEPT ![r] = {}]
    /\ overlapped' = (overlapped \/ SomeRun)
    /\ UNCHANGED <<source, serving, index, upserter>>

\* How many chunks the next batch may have.
Take(r) == IF BatchSize < reindexer[r].left THEN BatchSize ELSE reindexer[r].left

\* The oldest generations first, as many as may be taken.
Batches(r) ==
    LET stale == Stale(reindexer[r].generation) IN
    {S \in SUBSET stale :
        /\ Cardinality(S) <= Take(r)
        /\ Cardinality(S) < Take(r) => S = stale
        /\ \A c \in S, d \in stale \ S : index[c].generation <= index[d].generation}

\* select_stale_chunks, in a transaction of its own.
SelectStale(r) ==
    /\ reindexer[r].pc = "select"
    /\ \E S \in Batches(r) :
          reindexer' = [reindexer EXCEPT
              ![r].pc = IF S = {} THEN "done" ELSE "embed",
              ![r].batch = [c \in Chunks |->
                  IF c \in S THEN [text |-> index[c].text, sha |-> index[c].sha]
                             ELSE [text |-> 0, sha |-> 0]]]
    /\ UNCHANGED <<source, serving, index, upserter, fallen, overlapped>>

Batch(r) == {c \in Chunks : reindexer[r].batch[c].text # 0}

\* Mutant: the size of a batch is compared with the batch size.
AfterBatchBySize(r, n) ==
    IF n < BatchSize THEN "done"
    ELSE IF n = reindexer[r].left THEN "probe" ELSE "select"

\* A short batch was the last one; a used-up cap is followed by a probe.
AfterBatch(r, n) ==
    IF n < Take(r) THEN "done"
    ELSE IF n = reindexer[r].left THEN "probe" ELSE "select"

\* Mutant: the generation is not written.
Unstamped(r, c) ==
    [index[c] EXCEPT !.sha = reindexer[r].batch[c].sha,
                     !.embedded = reindexer[r].batch[c].text,
                     !.by = reindexer[r].generation]

\* The UPDATE writes what was selected, wherever the chunk has got to since.
Stamped(r, c) ==
    [index[c] EXCEPT !.sha = reindexer[r].batch[c].sha,
                     !.embedded = reindexer[r].batch[c].text,
                     !.by = reindexer[r].generation,
                     !.generation = reindexer[r].generation]

ReembedBatch(r) ==
    /\ reindexer[r].pc = "embed"
    /\ index' = [c \in Chunks |-> IF c \in Batch(r) THEN Stamped(r, c) ELSE index[c]]
    /\ reindexer' = [reindexer EXCEPT
           ![r].pc = AfterBatch(r, Cardinality(Batch(r))),
           ![r].left = @ - Cardinality(Batch(r)),
           ![r].batch = NoBatch]
    /\ NoteFallen
    /\ UNCHANGED <<source, serving, upserter, overlapped>>

\* capped: more stale chunks remain for the next run.
Probe(r) ==
    /\ reindexer[r].pc = "probe"
    /\ reindexer' = [reindexer EXCEPT
           ![r].pc = "done", ![r].capped = (Stale(reindexer[r].generation) # {})]
    /\ fallen' = [fallen EXCEPT ![r] = IF reindexer'[r].capped THEN {} ELSE @]
    /\ UNCHANGED <<source, serving, index, upserter, overlapped>>

\* The batch that was being embedded is rolled back; those before it stay.
ReindexFails(r) ==
    /\ r \in Reindexing
    /\ reindexer' = [reindexer EXCEPT ![r] = NoReindex]
    /\ fallen' = [fallen EXCEPT ![r] = {}]
    /\ UNCHANGED <<source, serving, index, upserter, overlapped>>

-------------------------------------------------------------------------------
Next ==
    \/ \E c \in Chunks : SourceChanges(c)
    \/ BumpGeneration
    \/ \E u \in Upserters : \/ StartUpsert(u) \/ UpsertChunks(u) \/ UpsertFails(u)
                            \/ \E c \in Chunks : FetchChunk(u, c)
    \/ \E r \in Reindexers : \/ StartReindex(r) \/ SelectStale(r) \/ ReembedBatch(r)
                             \/ Probe(r) \/ ReindexFails(r)

Spec == Init /\ [][Next]_vars

\* Operators start a reindex again and again, and no step of the runs fails for
\* ever.  Nothing is assumed of a single run, nor of the upserts.
Fairness ==
    /\ WF_vars(\E r \in Reindexers : StartReindex(r))
    /\ SF_vars(\E r \in Reindexers : SelectStale(r))
    /\ SF_vars(\E r \in Reindexers : ReembedBatch(r))
    /\ WF_vars(\E r \in Reindexers : Probe(r))

FairSpec == Spec /\ Fairness

-------------------------------------------------------------------------------
(* Properties *)

\* The embedding and the digest are those of the text, by the serving settings.
Current(c) ==
    index[c].embedded = index[c].text /\ index[c].sha = index[c].text /\ index[c].by = serving

\* What the comments on the reindex lifecycle and its plan promise: a chunk that
\* does not count as stale has the embedding of its own text by the serving
\* settings, since an upsert stamps the generation it embedded with.
FreshMeansCurrent == \A c \in Indexed \ Stale(serving) : Current(c)

\* The same, as long as runs and changes of settings have not overlapped: with
\* failing, capped and repeated runs, and upserts between them.
SerialRunsSound == ~overlapped => FreshMeansCurrent

\* A run that reports that nothing remains has left nothing behind: whatever
\* overlapped it, every chunk has its generation but those that came in, or were
\* set back by a run of an older generation, since it began.
CompleteMeansDone ==
    \A r \in Reindexers : reindexer[r].pc = "done" /\ ~reindexer[r].capped =>
        \A c \in Indexed \ fallen[r] : index[c].generation >= reindexer[r].generation

\* Capped and failed runs add up: started again and again, the reindex leaves
\* nothing stale, with upserts going on.
ReindexConverges == <>[](Stale(serving) = {})

\* What makes CompleteMeansDone inductive: a run in progress has something left
\* of its cap and takes no more than that, and a short batch is all there is.
RunsInOrder ==
    \A r \in Reindexers :
        /\ reindexer[r].capped => reindexer[r].pc = "done"
        /\ reindexer[r].pc \in {"select", "embed"} => reindexer[r].left > 0
        /\ reindexer[r].pc = "embed" =>
              /\ Cardinality(Batch(r)) <= Take(r)
              /\ Cardinality(Batch(r)) < Take(r) =>
                    \A c \in Indexed \ fallen[r] :
                        \/ index[c].generation >= reindexer[r].generation
                        \/ c \in Batch(r)

\* What makes SerialRunsSound inductive: a run that nothing has overlapped is the
\* only one, has the settings in force, and finds its batch as it selected it.
RunsAlone ==
    /\ \A u, v \in Upserting : u = v
    /\ \A r, s \in Reindexing : r = s
    /\ Upserting = {} \/ Reindexing = {}
    /\ \A u \in Upserting : upserter[u].generation = serving
    /\ \A r \in Reindexing : reindexer[r].generation = serving
    /\ \A r \in Reindexing : \A c \in Batch(r) :
          reindexer[r].batch[c] = [text |-> index[c].text, sha |-> index[c].sha]

\* And an embedding is that of its text, made by the settings of its generation
\* at the earliest.
IndexSound ==
    \A c \in Chunks :
        /\ index[c].embedded = index[c].text /\ index[c].sha = index[c].text
        /\ index[c].generation <= serving
        /\ index[c].text # 0 /\ index[c].generation = serving => index[c].by = serving

IInv == /\ TypeOK /\ RunsInOrder /\ CompleteMeansDone
        /\ ~overlapped => RunsAlone /\ IndexSound
===============================================================================
