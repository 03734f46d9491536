--------------------------- MODULE RagIndex_proofs ---------------------------
(***************************************************************************)
(* Proofs about RagIndex for any chunks, any numbers of runs and any bounds: *)
(* what a reindex that reports completion has left behind, and what runs   *)
(* that do not overlap make of the index.                                  *)
(***************************************************************************)
EXTENDS RagIndex, FiniteSetTheorems, TLAPS

\* The constant records are of the declared shapes.
LEMMA Shapes == /\ Absent \in Row /\ NoUpsert \in Upsert /\ NoReindex \in Reindex
                /\ NoBatch \in [Chunks -> [text : Nat, sha : Nat]]
BY DEF Absent, Row, NoUpsert, Upsert, NoReindex, Reindex, NoBatch

\* A batch is finite, and a run takes at least one chunk and never more than
\* what is left of its cap.
LEMMA BatchFinite ==
  ASSUME NEW r
  PROVE  IsFiniteSet(Batch(r)) /\ Cardinality(Batch(r)) \in Nat
BY RagAssumption, FS_Subset, FS_CardinalityType DEF Batch

LEMMA TakeBounds ==
  ASSUME TypeOK, NEW r \in Reindexers
  PROVE  /\ Take(r) \in Nat /\ Take(r) <= reindexer[r].left
         /\ reindexer[r].left > 0 => Take(r) > 0
<1>1. reindexer[r].left \in Nat
  BY DEF TypeOK, Reindex
<1> QED
  BY <1>1, RagAssumption DEF Take

\* What is written into the index is a row.
LEMMA RowShapes ==
  ASSUME TypeOK
  PROVE  /\ \A u \in Upserters, c \in Chunks : Upserted(u, c) \in Row
         /\ \A r \in Reindexers, c \in Chunks : Stamped(r, c) \in Row
<1>1. ASSUME NEW u \in Upserters, NEW c \in Chunks PROVE Upserted(u, c) \in Row
  <2>1. index[c] \in Row /\ upserter[u].read[c] \in Nat /\ upserter[u].generation \in Nat
    BY DEF TypeOK, Upsert
  <2> QED
    BY <2>1 DEF Upserted, Row
<1>2. ASSUME NEW r \in Reindexers, NEW c \in Chunks PROVE Stamped(r, c) \in Row
  <2>1. /\ index[c] \in Row /\ reindexer[r].generation \in Nat
        /\ reindexer[r].batch[c].sha \in Nat /\ reindexer[r].batch[c].text \in Nat
    BY DEF TypeOK, Reindex
  <2> QED
    BY <2>1 DEF Stamped, Row
<1> QED
  BY <1>1, <1>2

\* The type invariant is inductive by itself, but for the cap: a run never embeds
\* more than what was left of it.
LEMMA TypeStep ==
  ASSUME TypeOK, RunsInOrder, [Next]_vars
  PROVE  TypeOK'
<1> USE DEF TypeOK
<1>1. ASSUME NEW c \in Chunks, SourceChanges(c) PROVE TypeOK'
  <2>1. source' \in [Chunks -> Nat \ {0}]
    BY <1>1 DEF SourceChanges
  <2> QED
    BY <1>1, <2>1 DEF SourceChanges
<1>2. CASE BumpGeneration
  BY <1>2 DEF BumpGeneration
<1>3. ASSUME NEW u \in Upserters, StartUpsert(u) PROVE TypeOK'
  <2>1. [NoUpsert EXCEPT !.on = TRUE, !.generation = serving] \in Upsert
    BY DEF NoUpsert, Upsert
  <2> QED
    BY <1>3, <2>1 DEF StartUpsert
<1>4. ASSUME NEW u \in Upserters, NEW c \in Chunks, FetchChunk(u, c) PROVE TypeOK'
  <2>1. [upserter[u] EXCEPT !.read[c] = source[c]] \in Upsert
    BY DEF Upsert
  <2> QED
    BY <1>4, <2>1 DEF FetchChunk
<1>5. ASSUME NoteFallen PROVE fallen' \in [Reindexers -> SUBSET Chunks]
  BY <1>5 DEF NoteFallen
<1>6. ASSUME NEW u \in Upserters, UpsertChunks(u) PROVE TypeOK'
  <2>1. index' \in [Chunks -> Row]
    BY <1>6, RowShapes DEF UpsertChunks
  <2> QED
    BY <1>5, <1>6, <2>1, Shapes DEF UpsertChunks
<1>7. ASSUME NEW u \in Upserters, UpsertFails(u) PROVE TypeOK'
  BY <1>7, Shapes DEF UpsertFails
<1>8. ASSUME NEW r \in Reindexers, StartReindex(r) PROVE TypeOK'
  <2>1. [NoReindex EXCEPT !.pc = "select", !.generation = serving, !.left = ChunkCap[r]]
          \in Reindex
    BY RagAssumption, Shapes DEF NoReindex, Reindex
  <2> QED
    BY <1>8, <2>1 DEF StartReindex
<1>9. ASSUME NEW r \in Reindexers, SelectStale(r) PROVE TypeOK'
  <2>1. PICK S \in Batches(r) :
          reindexer' = [reindexer EXCEPT
              ![r].pc = IF S = {} THEN "done" ELSE "embed",
              ![r].batch = [c \in Chunks |->
                  IF c \in S THEN [text |-> index[c].text, sha |-> index[c].sha]
                             ELSE [text |-> 0, sha |-> 0]]]
    BY <1>9 DEF SelectStale
  <2>2. \A c \in Chunks : index[c].text \in Nat /\ index[c].sha \in Nat
    BY DEF Row
  <2>3. reindexer'[r] \in Reindex
    BY <2>1, <2>2 DEF Reindex
  <2>4. reindexer' \in [Reindexers -> Reindex]
    BY <2>1, <2>3
  <2> QED
    BY <1>9, <2>4 DEF SelectStale
<1>10. ASSUME NEW r \in Reindexers, ReembedBatch(r) PROVE TypeOK'
  <2>1. index' \in [Chunks -> Row]
    BY <1>10, RowShapes DEF ReembedBatch
  <2>2. reindexer[r].left - Cardinality(Batch(r)) \in Nat
    <3>1. Cardinality(Batch(r)) <= Take(r)
      BY <1>10 DEF ReembedBatch, RunsInOrder
    <3>2. reindexer[r].left \in Nat
      BY DEF Reindex
    <3> QED
      BY <3>1, <3>2, TakeBounds, BatchFinite
  <2>3. reindexer'[r] \in Reindex
    BY <1>10, <2>2, Shapes DEF ReembedBatch, AfterBatch, Reindex
  <2>4. reindexer' \in [Reindexers -> Reindex]
    BY <1>10, <2>3 DEF ReembedBatch
  <2> QED
    BY <1>5, <1>10, <2>1, <2>4 DEF ReembedBatch
<1>11. ASSUME NEW r \in Reindexers, Probe(r) PROVE TypeOK'
  <2>1. reindexer' \in [Reindexers -> Reindex]
    BY <1>11 DEF Probe, Reindex
  <2> QED
    BY <1>11, <2>1 DEF Probe
<1>12. ASSUME NEW r \in Reindexers, ReindexFails(r) PROVE TypeOK'
  BY <1>12, Shapes DEF ReindexFails
<1>13. CASE UNCHANGED vars
  BY <1>13 DEF vars
<1> QED
  BY <1>1, <1>2, <1>3, <1>4, <1>6, <1>7, <1>8, <1>9, <1>10, <1>11, <1>12, <1>13 DEF Next

-------------------------------------------------------------------------------
(* A run that reports completion *)

\* A run and what it has left behind, in a state and in the next.
Orderly(r) ==
    /\ reindexer[r].capped => reindexer[r].pc = "done"
    /\ reindexer[r].pc \in {"select", "embed"} => reindexer[r].left > 0
    /\ reindexer[r].pc = "embed" =>
          /\ Cardinality(Batch(r)) <= Take(r)
          /\ Cardinality(Batch(r)) < Take(r) =>
                \A c \in Indexed \ fallen[r] :
                    \/ index[c].generation >= reindexer[r].generation
                    \/ c \in Batch(r)
    /\ reindexer[r].pc = "done" /\ ~reindexer[r].capped =>
          \A c \in Indexed \ fallen[r] : index[c].generation >= reindexer[r].generation

LEMMA OrderlyRuns == (\A r \in Reindexers : Orderly(r)) <=> RunsInOrder /\ CompleteMeansDone
BY DEF Orderly, RunsInOrder, CompleteMeansDone

\* What has not fallen was there before and has not lost its generation.
LEMMA NotFallen ==
  ASSUME TypeOK, TypeOK', NoteFallen, NEW r \in Reindexers,
         reindexer[r].pc # "idle", ~reindexer[r].capped,
         NEW c \in (Indexed \ fallen[r])'
  PROVE  /\ c \in Indexed \ fallen[r]
         /\ index'[c].generation >= index[c].generation
<1>1. fallen'[r] = fallen[r] \cup {d \in Chunks :
              \/ index[d].text = 0 /\ index'[d].text # 0
              \/ index'[d].generation < index[d].generation}
  BY DEF NoteFallen
<1>2. c \in Chunks /\ index'[c].text # 0
  BY DEF Indexed
<1>3. index[c].generation \in Nat /\ index'[c].generation \in Nat
  BY <1>2 DEF TypeOK, Row
<1> QED
  BY <1>1, <1>2, <1>3 DEF Indexed

\* A run that does not move stays orderly when the index and what has fallen
\* change together.
LEMMA OrderlyBesides ==
  ASSUME TypeOK, TypeOK', NoteFallen, NEW r \in Reindexers, Orderly(r),
         reindexer'[r] = reindexer[r]
  PROVE  Orderly(r)'
<1>1. Batch(r)' = Batch(r) /\ Take(r)' = Take(r)
  BY DEF Batch, Take
<1>2. reindexer[r].generation \in Nat
  BY DEF TypeOK, Reindex
<1>3. ASSUME reindexer[r].pc # "idle", ~reindexer[r].capped,
             NEW c \in (Indexed \ fallen[r])'
      PROVE  /\ c \in Indexed \ fallen[r]
             /\ index[c].generation >= reindexer[r].generation
                  => index'[c].generation >= reindexer[r].generation
  <2>1. c \in Indexed \ fallen[r] /\ index'[c].generation >= index[c].generation
    BY <1>3, NotFallen
  <2>2. index[c].generation \in Nat /\ index'[c].generation \in Nat
    BY <2>1 DEF TypeOK, Row, Indexed
  <2> QED
    BY <1>2, <2>1, <2>2
<1>4. ~reindexer[r].capped \/ reindexer[r].pc = "done"
  BY DEF Orderly
<1> QED
  BY <1>1, <1>3, <1>4 DEF Orderly

\* So it does when neither changes.
LEMMA OrderlyUnchanged ==
  ASSUME NEW r \in Reindexers, Orderly(r), reindexer'[r] = reindexer[r],
         fallen'[r] = fallen[r], UNCHANGED index
  PROVE  Orderly(r)'
BY DEF Orderly, Batch, Take, Indexed

LEMMA OrderStep ==
  ASSUME TypeOK, TypeOK', RunsInOrder, CompleteMeansDone, [Next]_vars
  PROVE  RunsInOrder' /\ CompleteMeansDone'
<1> SUFFICES ASSUME NEW r \in Reindexers PROVE Orderly(r)'
  BY OrderlyRuns DEF Orderly, RunsInOrder, CompleteMeansDone
<1>0. Orderly(r)
  BY OrderlyRuns
<1>1. ASSUME UNCHANGED <<index, reindexer, fallen>> PROVE Orderly(r)'
  BY <1>0, <1>1, OrderlyUnchanged
<1>2. CASE \/ BumpGeneration \/ UNCHANGED vars
           \/ \E c \in Chunks : SourceChanges(c)
           \/ \E u \in Upserters : \/ StartUpsert(u) \/ UpsertFails(u)
                                   \/ \E c \in Chunks : FetchChunk(u, c)
  BY <1>1, <1>2 DEF BumpGeneration, SourceChanges, StartUpsert, UpsertFails, FetchChunk, vars
<1>3. ASSUME NEW u \in Upserters, UpsertChunks(u) PROVE Orderly(r)'
  BY <1>0, <1>3, OrderlyBesides DEF UpsertChunks
<1>4. ASSUME NEW s \in Reindexers, StartReindex(s) PROVE Orderly(r)'
  <2>1. CASE r = s
    <3>1. /\ reindexer'[r].pc = "select" /\ reindexer'[r].left = ChunkCap[r]
          /\ ~reindexer'[r].capped
      BY <1>4, <2>1 DEF StartReindex, NoReindex, TypeOK
    <3> QED
      BY <3>1, RagAssumption DEF Orderly
  <2>2. CASE r # s
    BY <1>0, <1>4, <2>2, OrderlyUnchanged DEF StartReindex, TypeOK
  <2> QED
    BY <2>1, <2>2
<1>5. ASSUME NEW s \in Reindexers, SelectStale(s) PROVE Orderly(r)'
  <2>1. PICK S \in Batches(s) :
          reindexer' = [reindexer EXCEPT
              ![s].pc = IF S = {} THEN "done" ELSE "embed",
              ![s].batch = [c \in Chunks |->
                  IF c \in S THEN [text |-> index[c].text, sha |-> index[c].sha]
                             ELSE [text |-> 0, sha |-> 0]]]
    BY <1>5 DEF SelectStale
  <2>2. CASE r = s
    <3>1. /\ reindexer'[r].pc = IF S = {} THEN "done" ELSE "embed"
          /\ reindexer'[r].left = reindexer[r].left
          /\ reindexer'[r].capped = reindexer[r].capped
          /\ reindexer'[r].generation = reindexer[r].generation
          /\ reindexer'[r].batch = [c \in Chunks |->
                  IF c \in S THEN [text |-> index[c].text, sha |-> index[c].sha]
                             ELSE [text |-> 0, sha |-> 0]]
      BY <2>1, <2>2 DEF TypeOK, Reindex
    <3>2. /\ S \subseteq Indexed /\ Cardinality(S) <= Take(r)
          /\ Cardinality(S) < Take(r) => S = Stale(reindexer[r].generation)
      BY <2>2 DEF Batches, Stale
    <3>3. Batch(r)' = S
      BY <3>1, <3>2 DEF Batch, Indexed
    <3>4. UNCHANGED <<index, fallen>> /\ reindexer[r].pc = "select"
      BY <1>5, <2>2 DEF SelectStale
    <3>5. Take(r)' = Take(r) /\ Indexed' = Indexed
      BY <3>1, <3>4 DEF Take, Indexed
    <3>6. reindexer[r].left > 0 /\ ~reindexer[r].capped
      BY <1>0, <3>4 DEF Orderly
    <3>7. S = Stale(reindexer[r].generation) =>
            \A c \in Indexed : index[c].generation >= reindexer[r].generation \/ c \in S
      <4>1. \A c \in Indexed : index[c].generation \in Nat
        BY DEF TypeOK, Row, Indexed
      <4>2. reindexer[r].generation \in Nat
        BY DEF TypeOK, Reindex
      <4> QED
        BY <4>1, <4>2 DEF Stale
    <3>8. CASE S = {}
      <4>1. Cardinality(S) = 0 /\ Take(r) > 0
        BY <3>6, <3>8, FS_EmptySet, TakeBounds
      <4>2. S = Stale(reindexer[r].generation)
        BY <3>2, <4>1
      <4> QED
        BY <3>1, <3>4, <3>5, <3>7, <3>8, <4>2 DEF Orderly
    <3>9. CASE S # {}
      BY <3>1, <3>2, <3>3, <3>4, <3>5, <3>6, <3>7, <3>9 DEF Orderly
    <3> QED
      BY <3>8, <3>9
  <2>3. CASE r # s
    <3>1. reindexer'[r] = reindexer[r]
      BY <2>1, <2>3 DEF TypeOK
    <3> QED
      BY <1>0, <1>5, <3>1, OrderlyUnchanged DEF SelectStale
  <2> QED
    BY <2>2, <2>3
<1>6. ASSUME NEW s \in Reindexers, ReembedBatch(s) PROVE Orderly(r)'
  <2>1. CASE r = s
    <3> DEFINE n == Cardinality(Batch(r))
    <3>1. /\ reindexer'[r].pc = AfterBatch(r, n)
          /\ reindexer'[r].left = reindexer[r].left - n
          /\ reindexer'[r].capped = reindexer[r].capped
          /\ reindexer'[r].generation = reindexer[r].generation
      BY <1>6, <2>1 DEF ReembedBatch, TypeOK, Reindex
    <3>2. reindexer[r].pc = "embed" /\ ~reindexer[r].capped /\ n <= Take(r)
      BY <1>0, <1>6, <2>1 DEF ReembedBatch, Orderly
    <3>3. n \in Nat /\ reindexer[r].left \in Nat /\ reindexer[r].generation \in Nat
          /\ Take(r) \in Nat /\ Take(r) <= reindexer[r].left
      BY BatchFinite, TakeBounds DEF TypeOK, Reindex
    <3>4. CASE n < Take(r)
      <4>1. reindexer'[r].pc = "done"
        BY <3>1, <3>4 DEF AfterBatch
      <4>2. ASSUME NEW c \in (Indexed \ fallen[r])'
            PROVE  index'[c].generation >= reindexer'[r].generation
        <5>1. c \in Indexed \ fallen[r] /\ index'[c].generation >= index[c].generation
          BY <1>6, <3>2, NotFallen DEF ReembedBatch
        <5>2. c \in Chunks /\ index[c].generation \in Nat /\ index'[c].generation \in Nat
          BY <5>1 DEF TypeOK, Row, Indexed
        <5>3. CASE index[c].generation >= reindexer[r].generation
          BY <3>1, <3>3, <5>1, <5>2, <5>3
        <5>4. CASE c \in Batch(r)
          <6>1. index'[c] = Stamped(r, c)
            BY <1>6, <2>1, <5>2, <5>4 DEF ReembedBatch
          <6>2. index'[c].generation = reindexer[r].generation
            BY <5>2, <6>1 DEF Stamped, TypeOK, Row
          <6> QED
            BY <3>1, <3>3, <6>2
        <5> QED
          BY <1>0, <3>2, <3>4, <5>1, <5>3, <5>4 DEF Orderly
      <4> QED
        BY <3>1, <3>2, <4>1, <4>2 DEF Orderly
    <3>5. CASE ~(n < Take(r))
      <4>1. CASE n = reindexer[r].left
        <5>1. reindexer'[r].pc = "probe"
          BY <3>1, <3>5, <4>1 DEF AfterBatch
        <5> QED
          BY <3>1, <3>2, <5>1 DEF Orderly
      <4>2. CASE n # reindexer[r].left
        <5>1. reindexer'[r].pc = "select"
          BY <3>1, <3>5, <4>2 DEF AfterBatch
        <5>2. reindexer[r].left - n > 0
          BY <3>2, <3>3, <4>2
        <5> QED
          BY <3>1, <3>2, <5>1, <5>2 DEF Orderly
      <4> QED
        BY <4>1, <4>2
    <3> QED
      BY <3>4, <3>5
  <2>2. CASE r # s
    <3>1. reindexer'[r] = reindexer[r]
      BY <1>6, <2>2 DEF ReembedBatch, TypeOK
    <3> QED
      BY <1>0, <1>6, <3>1, OrderlyBesides DEF ReembedBatch
  <2> QED
    BY <2>1, <2>2
<1>7. ASSUME NEW s \in Reindexers, Probe(s) PROVE Orderly(r)'
  <2>1. CASE r = s
    <3> DEFINE more == Stale(reindexer[r].generation) # {}
    <3>0. PICK b \in BOOLEAN : /\ b <=> more
                               /\ reindexer' = [reindexer EXCEPT ![r].pc = "done",
                                                                 ![r].capped = b]
      <4>1. reindexer' = [reindexer EXCEPT ![r].pc = "done", ![r].capped = more]
        BY <1>7, <2>1 DEF Probe
      <4> QED
        BY <4>1, Zenon
    <3>1. /\ reindexer'[r].pc = "done" /\ reindexer'[r].capped = b
          /\ reindexer'[r].generation = reindexer[r].generation
      BY <3>0 DEF TypeOK, Reindex
    <3>2. reindexer[r].generation \in Nat /\ \A c \in Indexed : index[c].generation \in Nat
      BY DEF TypeOK, Reindex, Row, Indexed
    <3>3. UNCHANGED index
      BY <1>7 DEF Probe
    <3>4. Stale(reindexer[r].generation) = {} =>
            \A c \in Indexed : index[c].generation >= reindexer[r].generation
      BY <3>2 DEF Stale
    <3>5. ~reindexer'[r].capped => Stale(reindexer[r].generation) = {}
      BY <3>0, <3>1, Zenon
    <3>6. Indexed' = Indexed
      BY <3>3 DEF Indexed
    <3> QED
      BY <3>1, <3>3, <3>4, <3>5, <3>6 DEF Orderly
  <2>2. CASE r # s
    <3>1. reindexer'[r] = reindexer[r] /\ fallen'[r] = fallen[r] /\ UNCHANGED index
      BY <1>7, <2>2 DEF Probe, TypeOK
    <3> QED
      BY <1>0, <3>1, OrderlyUnchanged
  <2> QED
    BY <2>1, <2>2
<1>8. ASSUME NEW s \in Reindexers, ReindexFails(s) PROVE Orderly(r)'
  <2>1. CASE r = s
    <3>1. reindexer'[r] = NoReindex
      BY <1>8, <2>1 DEF ReindexFails, TypeOK
    <3> QED
      BY <3>1 DEF Orderly, NoReindex
  <2>2. CASE r # s
    BY <1>0, <1>8, <2>2, OrderlyUnchanged DEF ReindexFails, TypeOK
  <2> QED
    BY <2>1, <2>2
<1> QED
  BY <1>2, <1>3, <1>4, <1>5, <1>6, <1>7, <1>8 DEF Next

-------------------------------------------------------------------------------
(* Runs that do not overlap *)

\* Nothing of what RunsAlone and IndexSound speak of has changed.
LEMMA AloneUnchanged ==
  ASSUME RunsAlone, IndexSound,
         UNCHANGED <<serving, index, reindexer>>,
         \A u \in Upserting' : u \in Upserting /\ upserter'[u].generation = upserter[u].generation
  PROVE  RunsAlone' /\ IndexSound'
<1>1. Reindexing' = Reindexing /\ \A r : Batch(r)' = Batch(r)
  BY DEF Reindexing, Batch
<1>2. RunsAlone'
  BY <1>1 DEF RunsAlone
<1>3. IndexSound'
  BY DEF IndexSound
<1> QED
  BY <1>2, <1>3

\* A run starts when no other is under way, and then it is alone.
LEMMA AloneFromNothing ==
  ASSUME Upserting = {}, Reindexing = {}, IndexSound, UNCHANGED <<serving, index>>,
         \/ \E u \in Upserters : /\ Upserting' = {u} /\ Reindexing' = {}
                                 /\ upserter'[u].generation = serving
         \/ \E r \in Reindexers : /\ Reindexing' = {r} /\ Upserting' = {}
                                  /\ reindexer'[r].generation = serving
                                  /\ Batch(r)' = {}
  PROVE  RunsAlone' /\ IndexSound'
BY DEF RunsAlone, IndexSound

LEMMA AloneStep ==
  ASSUME TypeOK, RunsInOrder, ~overlapped => RunsAlone /\ IndexSound, [Next]_vars,
         ~overlapped'
  PROVE  RunsAlone' /\ IndexSound'
<1>0. ~overlapped
  BY DEF Next, vars, SourceChanges, BumpGeneration, StartUpsert, FetchChunk, UpsertChunks,
         UpsertFails, StartReindex, SelectStale, ReembedBatch, Probe, ReindexFails
<1>a. RunsAlone /\ IndexSound
  BY <1>0
<1>1. CASE \/ UNCHANGED vars \/ \E c \in Chunks : SourceChanges(c)
  BY <1>a, <1>1, AloneUnchanged DEF vars, SourceChanges, Upserting
<1>2. CASE BumpGeneration
  <2>1. Upserting' = {} /\ Reindexing' = {}
    BY <1>0, <1>2 DEF BumpGeneration, SomeRun, Upserting, Reindexing, TypeOK
  <2>2. RunsAlone'
    BY <2>1 DEF RunsAlone
  <2>3. \A c \in Chunks : index[c].generation \in Nat
    BY DEF TypeOK, Row
  <2>4. serving \in Nat /\ serving' = serving + 1 /\ UNCHANGED index
    BY <1>2 DEF BumpGeneration, TypeOK
  <2>5. IndexSound'
    BY <1>a, <2>3, <2>4 DEF IndexSound
  <2> QED
    BY <2>2, <2>5
<1>3. ASSUME NEW u \in Upserters, StartUpsert(u) PROVE RunsAlone' /\ IndexSound'
  <2>1. Upserting = {} /\ Reindexing = {}
    BY <1>0, <1>3 DEF StartUpsert, SomeRun, TypeOK
  <2>2. upserter'[u].on /\ upserter'[u].generation = serving
        /\ \A v \in Upserters : v # u => upserter'[v] = upserter[v]
    BY <1>3 DEF StartUpsert, NoUpsert, TypeOK
  <2>3. Upserting' = {u}
    BY <2>1, <2>2 DEF Upserting
  <2>4. Reindexing' = {} /\ UNCHANGED <<serving, index>>
    BY <1>3, <2>1 DEF StartUpsert, Reindexing
  <2> QED
    BY <1>a, <2>1, <2>2, <2>3, <2>4, AloneFromNothing
<1>4. ASSUME NEW u \in Upserters, NEW c \in Chunks, FetchChunk(u, c)
      PROVE  RunsAlone' /\ IndexSound'
  <2>1. \A v \in Upserters : /\ upserter'[v].on = upserter[v].on
                             /\ upserter'[v].generation = upserter[v].generation
    BY <1>4 DEF FetchChunk, TypeOK, Upsert
  <2> QED
    BY <1>a, <1>4, <2>1, AloneUnchanged DEF FetchChunk, Upserting
<1>5. ASSUME NEW u \in Upserters, UpsertFails(u) PROVE RunsAlone' /\ IndexSound'
  <2>1. \A v \in Upserting' : v \in Upserting /\ upserter'[v] = upserter[v]
    BY <1>5 DEF UpsertFails, Upserting, NoUpsert, TypeOK
  <2> QED
    BY <1>a, <1>5, <2>1, AloneUnchanged DEF UpsertFails
<1>6. ASSUME NEW u \in Upserters, UpsertChunks(u) PROVE RunsAlone' /\ IndexSound'
  <2>1. u \in Upserting
    BY <1>6 DEF UpsertChunks, Upserting
  <2>2. Upserting' = {}
    BY <1>a, <1>6, <2>1 DEF UpsertChunks, Upserting, NoUpsert, RunsAlone, TypeOK
  <2>3. Reindexing' = {}
    BY <1>a, <1>6, <2>1 DEF UpsertChunks, Reindexing, RunsAlone
  <2>4. RunsAlone'
    BY <2>2, <2>3 DEF RunsAlone
  <2>5. ASSUME NEW c \in Chunks, upserter[u].read[c] # 0
        PROVE  /\ index'[c].embedded = index'[c].text /\ index'[c].sha = index'[c].text
               /\ index'[c].generation = index[c].generation
               /\ index'[c].by = serving
    <3>1. index'[c] = Upserted(u, c) /\ index[c] \in Row
      BY <1>6, <2>5 DEF UpsertChunks, TypeOK
    <3>2. upserter[u].generation = serving
      BY <1>a, <2>1 DEF RunsAlone
    <3> QED
      BY <3>1, <3>2 DEF Upserted, Row
  <2>6. ASSUME NEW c \in Chunks, upserter[u].read[c] = 0 PROVE index'[c] = index[c]
    BY <1>6, <2>6 DEF UpsertChunks
  <2>7. UNCHANGED serving
    BY <1>6 DEF UpsertChunks
  <2>8. IndexSound'
    BY <1>a, <2>5, <2>6, <2>7 DEF IndexSound
  <2> QED
    BY <2>4, <2>8
<1>7. ASSUME NEW r \in Reindexers, StartReindex(r) PROVE RunsAlone' /\ IndexSound'
  <2>1. Upserting = {} /\ Reindexing = {}
    BY <1>0, <1>7 DEF StartReindex, SomeRun, TypeOK
  <2>2. /\ reindexer'[r].pc = "select" /\ reindexer'[r].generation = serving
        /\ reindexer'[r].batch = NoBatch
        /\ \A s \in Reindexers : s # r => reindexer'[s] = reindexer[s]
    BY <1>7 DEF StartReindex, NoReindex, TypeOK
  <2>3. Reindexing' = {r} /\ Batch(r)' = {}
    BY <2>1, <2>2 DEF Reindexing, Batch, NoBatch
  <2>4. Upserting' = {} /\ UNCHANGED <<serving, index>>
    BY <1>7, <2>1 DEF StartReindex, Upserting
  <2> QED
    BY <1>a, <2>1, <2>2, <2>3, <2>4, AloneFromNothing
\* A step of the only run, up to its batch.
<1>b. ASSUME NEW r \in Reindexing, UNCHANGED <<serving, upserter>>,
             \A s \in Reindexers : s # r => reindexer'[s] = reindexer[s],
             reindexer'[r].generation = reindexer[r].generation,
             \A c \in Batch(r)' :
                reindexer'[r].batch[c] = [text |-> index'[c].text, sha |-> index'[c].sha]
      PROVE  RunsAlone'
  <2>1. Reindexing = {r} /\ Upserting = {} /\ reindexer[r].generation = serving
    BY <1>a, <1>b DEF RunsAlone
  <2>2. Reindexing' \subseteq {r} /\ Upserting' = {}
    BY <1>b, <2>1 DEF Reindexing, Upserting
  <2> QED
    BY <1>b, <2>1, <2>2 DEF RunsAlone
<1>8. ASSUME NEW r \in Reindexers, SelectStale(r) PROVE RunsAlone' /\ IndexSound'
  <2>1. PICK S \in Batches(r) :
          reindexer' = [reindexer EXCEPT
              ![r].pc = IF S = {} THEN "done" ELSE "embed",
              ![r].batch = [c \in Chunks |->
                  IF c \in S THEN [text |-> index[c].text, sha |-> index[c].sha]
                             ELSE [text |-> 0, sha |-> 0]]]
    BY <1>8 DEF SelectStale
  <2>2. /\ reindexer'[r].generation = reindexer[r].generation
        /\ reindexer'[r].batch = [c \in Chunks |->
                  IF c \in S THEN [text |-> index[c].text, sha |-> index[c].sha]
                             ELSE [text |-> 0, sha |-> 0]]
        /\ \A s \in Reindexers : s # r => reindexer'[s] = reindexer[s]
    BY <2>1 DEF TypeOK, Reindex
  <2>3. r \in Reindexing /\ UNCHANGED <<serving, upserter, index>>
    BY <1>8 DEF SelectStale, Reindexing
  <2>4. \A c \in Batch(r)' :
           reindexer'[r].batch[c] = [text |-> index'[c].text, sha |-> index'[c].sha]
    BY <2>2, <2>3 DEF Batch
  <2>5. IndexSound'
    BY <1>a, <2>3 DEF IndexSound
  <2> QED
    BY <1>b, <2>2, <2>3, <2>4, <2>5
<1>9. ASSUME NEW r \in Reindexers, ReembedBatch(r) PROVE RunsAlone' /\ IndexSound'
  <2>1. r \in Reindexing /\ UNCHANGED <<serving, upserter>>
    BY <1>9 DEF ReembedBatch, Reindexing
  <2>2. /\ reindexer'[r].generation = reindexer[r].generation
        /\ reindexer'[r].batch = NoBatch
        /\ \A s \in Reindexers : s # r => reindexer'[s] = reindexer[s]
    BY <1>9 DEF ReembedBatch, TypeOK, Reindex
  <2>3. Batch(r)' = {}
    BY <2>2 DEF Batch, NoBatch
  <2>4. RunsAlone'
    BY <1>b, <2>1, <2>2, <2>3
  <2>5. ASSUME NEW c \in Batch(r)
        PROVE  /\ index'[c].text = index[c].text
               /\ index'[c].embedded = index[c].text /\ index'[c].sha = index[c].sha
               /\ index'[c].by = serving /\ index'[c].generation = serving
    <3>1. c \in Chunks
      BY DEF Batch
    <3>2. index'[c] = Stamped(r, c) /\ index[c] \in Row
      BY <1>9, <3>1 DEF ReembedBatch, TypeOK
    <3>3. /\ reindexer[r].batch[c] = [text |-> index[c].text, sha |-> index[c].sha]
          /\ reindexer[r].generation = serving
      BY <1>a, <2>1 DEF RunsAlone
    <3> QED
      BY <3>2, <3>3 DEF Stamped, Row
  <2>6. ASSUME NEW c \in Chunks, c \notin Batch(r) PROVE index'[c] = index[c]
    BY <1>9, <2>6 DEF ReembedBatch
  <2>7. serving \in Nat
    BY DEF TypeOK
  <2>8. IndexSound'
    BY <1>a, <2>1, <2>5, <2>6, <2>7 DEF IndexSound
  <2> QED
    BY <2>4, <2>8
<1>10. ASSUME NEW r \in Reindexers, Probe(r) PROVE RunsAlone' /\ IndexSound'
  <2>1. r \in Reindexing /\ UNCHANGED <<serving, upserter, index>>
    BY <1>10 DEF Probe, Reindexing
  <2>2. /\ reindexer'[r].generation = reindexer[r].generation
        /\ reindexer'[r].batch = reindexer[r].batch
        /\ \A s \in Reindexers : s # r => reindexer'[s] = reindexer[s]
    BY <1>10 DEF Probe, TypeOK, Reindex
  <2>3. \A c \in Batch(r)' :
           reindexer'[r].batch[c] = [text |-> index'[c].text, sha |-> index'[c].sha]
    BY <1>a, <2>1, <2>2 DEF Batch, RunsAlone
  <2>4. IndexSound'
    BY <1>a, <2>1 DEF IndexSound
  <2> QED
    BY <1>b, <2>1, <2>2, <2>3, <2>4
<1>11. ASSUME NEW r \in Reindexers, ReindexFails(r) PROVE RunsAlone' /\ IndexSound'
  <2>1. r \in Reindexing /\ UNCHANGED <<serving, upserter, index>>
    BY <1>11 DEF ReindexFails
  <2>2. Upserting' = {} /\ Reindexing' = {}
    BY <1>a, <1>11, <2>1 DEF ReindexFails, RunsAlone, Upserting, Reindexing, NoReindex, TypeOK
  <2>3. IndexSound'
    BY <1>a, <2>1 DEF IndexSound
  <2> QED
    BY <2>2, <2>3 DEF RunsAlone
<1> QED
  BY <1>1, <1>2, <1>3, <1>4, <1>5, <1>6, <1>7, <1>8, <1>9, <1>10, <1>11 DEF Next

-------------------------------------------------------------------------------
LEMMA InitInv == Init => IInv
<1> SUFFICES ASSUME Init PROVE IInv
  OBVIOUS
<1> USE DEF Init
<1>1. TypeOK
  <2>1. index \in [Chunks -> Row] /\ upserter \in [Upserters -> Upsert]
    BY Shapes
  <2>2. reindexer \in [Reindexers -> Reindex] /\ fallen \in [Reindexers -> SUBSET Chunks]
    BY Shapes
  <2>3. source \in [Chunks -> Nat \ {0}] /\ serving \in Nat
    BY SMT
  <2>4. overlapped \in BOOLEAN
    BY Zenon
  <2> HIDE DEF Init
  <2> QED
    BY <2>1, <2>2, <2>3, <2>4 DEF TypeOK
<1>2. RunsInOrder /\ CompleteMeansDone
  BY DEF RunsInOrder, CompleteMeansDone, NoReindex
<1>3. RunsAlone
  BY DEF RunsAlone, Upserting, Reindexing, NoUpsert, NoReindex
<1>4. IndexSound
  BY DEF IndexSound, Absent
<1> QED
  BY <1>1, <1>2, <1>3, <1>4 DEF IInv

\* The inductive invariant holds always.
THEOREM Invariant == Spec => []IInv
<1>1. Init => IInv
  BY InitInv
<1>2. IInv /\ [Next]_vars => IInv'
  <2> SUFFICES ASSUME IInv, [Next]_vars PROVE IInv'
    OBVIOUS
  <2>1. TypeOK'
    BY TypeStep DEF IInv
  <2>2. RunsInOrder' /\ CompleteMeansDone'
    BY <2>1, OrderStep DEF IInv
  <2>3. ASSUME ~overlapped' PROVE RunsAlone' /\ IndexSound'
    BY <2>3, AloneStep DEF IInv
  <2> QED
    BY <2>1, <2>2, <2>3 DEF IInv
<1> QED
  BY <1>1, <1>2, PTL DEF Spec

\* run_rag_index: the state of the index and of its jobs is well typed.
THEOREM TypeCorrect == Spec => []TypeOK
<1>1. IInv => TypeOK
  BY DEF IInv
<1> QED
  BY <1>1, Invariant, PTL

\* reindex_stale_chunks: a run that ends without being capped has brought every
\* chunk to its generation, but for those that came in or fell back meanwhile.
THEOREM CompletionMeansDone == Spec => []CompleteMeansDone
<1>1. IInv => CompleteMeansDone
  BY DEF IInv
<1> QED
  BY <1>1, Invariant, PTL

\* upsert_knowledge_chunks and reindex_stale_chunks, with no overlap: whatever
\* failed or was capped, a chunk at the serving generation has the embedding of
\* its own text by the serving settings.
THEOREM SerialSound == Spec => []SerialRunsSound
<1>1. IInv => SerialRunsSound
  <2> SUFFICES ASSUME IInv, ~overlapped, NEW c \in Indexed \ Stale(serving)
               PROVE  Current(c)
    BY DEF SerialRunsSound, FreshMeansCurrent
  <2>1. IndexSound /\ TypeOK
    BY DEF IInv
  <2>2. c \in Chunks /\ index[c].text # 0 /\ ~(index[c].generation < serving)
    BY DEF Indexed, Stale
  <2>3. index[c].generation \in Nat /\ serving \in Nat
    BY <2>1, <2>2 DEF TypeOK, Row
  <2>4. index[c].generation = serving
    BY <2>1, <2>2, <2>3 DEF IndexSound
  <2> QED
    BY <2>1, <2>2, <2>4 DEF IndexSound, Current
<1> QED
  BY <1>1, Invariant, PTL
==============================================================================
