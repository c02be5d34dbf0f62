------------------------------- MODULE Index -------------------------------
(***************************************************************************)
(* The incremental index of a workspace.  Saves and deletions reach it     *)
(* through the I/O coalescer (core/io_coalescer.py), which collects them    *)
(* for a debounce window and dispatches them one after the other through   *)
(* the single-flight coordinator to the reactive indexer (core/indexer.py), *)
(* which writes the dependency edges, the indexed_files row (core/db.py),   *)
(* the file's vector and its chunk vectors (core/memory/semantic_memory.py), *)
(* one await apart.  Beside it run the bulk crawl, the chunk backfill, the  *)
(* graph analytics and the janitor.  The line index and the symbol          *)
(* catalogue, written between the row and the vector and allowed to fail,   *)
(* are left out.                                                           *)
(*                                                                         *)
(* The events of client_ide_telemetry and client_file_delete carry no       *)
(* body.  Those of client_file_update do, and a critical one would bypass   *)
(* the window, but their handler fails before it submits them (FileUpdate   *)
(* in Endpoint).  So the flush is the only caller of the coordinator: no    *)
(* key is asked for while it is held, and no trailing re-run is due.        *)
(*                                                                         *)
(* A content is an abstract value: Size says whether it is below the        *)
(* embedding gate, embedded, or embedded and chunked; Imports whether the   *)
(* parser finds an import in it.                                           *)
(***************************************************************************)
EXTENDS Naturals, Sequences, FiniteSets, FiniteSetsExt, Queues

CONSTANTS
    Paths,          \* the paths of the workspace
    Revisions,      \* the revisions a file can have, none of them a sentinel
    Size,           \* Revisions -> {"small", "plain", "large"}
    Imports,        \* Revisions -> BOOLEAN
    Crawlers,       \* the tasks of the bulk crawl
    FailThreshold,  \* _FAIL_THRESHOLD
    MassThreshold,  \* _MASS_THRESHOLD
    WarmupMinFiles, \* _WARMUP_MIN_FILES
    MaxHappenings,  \* bound on the saves and deletions of a behaviour, and on what
                    \* disturbs them: faults, lost events, crawls, backfills,
                    \* janitor passes
    MaxEvents       \* bound on the saves and deletions alone

ASSUME IndexAssumption ==
    /\ "none" \notin Paths
    /\ {"none", "unlink", "reread", "norow", "unhashed"} \cap Revisions = {}
    /\ Size \in [Revisions -> {"small", "plain", "large"}]
    /\ Imports \in [Revisions -> BOOLEAN]
    /\ {FailThreshold, MassThreshold, WarmupMinFiles, MaxHappenings, MaxEvents}
           \subseteq Nat

VARIABLES
    disk,      \* file -> its freshest bytes (RAM buffer or disk), or Nothing
    window,    \* IOCoalescer._pending, in insertion order
    timer,     \* IOCoalescer._timer: "none", "sleep" or "dispatch"
    batch,     \* what the dispatching flush has still to do
    flight,    \* the index or purge the flush is running, its key taken meanwhile
    fileBreaker, \* file -> [failures, open] of _ReactiveBreaker
    crawl,     \* crawler -> where its _run is
    latch,     \* LazyIndexer's _is_running and _is_complete
    backfill,  \* the file backfill_chunks has parsed and not yet written
    analytics, \* the debounced graph pass: "off", "sleep" or what it read
    row,       \* indexed_files: file -> the hash of its row
    depEdges,  \* dependency_graph: file -> the revision its edges come from
    vector,    \* workspace_embeddings: likewise
    chunks,    \* symbol_chunk_embeddings: likewise
    scores,    \* ppr_scores: the files that have one
    stray,     \* vector writes left in a worker thread by a cancelled flight
    spoiled,   \* files whose last pass was cut off, failed or was interfered with
    unseen,    \* files whose last change no event told of
    spent      \* how often each bounded kind of event has happened

indexStores == <<row, depEdges, vector, chunks, scores>>
indexVars == <<disk, window, timer, batch, flight, fileBreaker, crawl, latch, backfill,
               analytics, indexStores, stray, spoiled, unseen, spent>>

Absent == "none"
Unlink == "unlink"      \* _UNLINK_SENTINEL
Reread == "reread"      \* an event without a body: the file is read when indexed
NoRow == "norow"
Unhashed == "unhashed"  \* a row the crawl wrote, with a NULL content_hash
NoFlight == [step |-> "idle", file |-> Absent, text |-> Absent]
Off == [step |-> "off", todo |-> {}, file |-> Absent, text |-> Absent]

Happenings == spent.event + spent.fault + spent.crawl + spent.upkeep
Happens(kind) == Happenings < MaxHappenings /\ spent' = [spent EXCEPT ![kind] = @ + 1]
Fault == Happens("fault")
MayEdit == spent.event < MaxEvents /\ Happenings < MaxHappenings

-----------------------------------------------------------------------------
(* Which files the index answers for: the history variable spoiled.        *)

Spoil(files) == spoiled' = spoiled \cup files

\* A write to the file's stores is under way outside the flush.
Interfered(f) ==
    \/ \E k \in Crawlers : crawl[k].step \in {"row", "deps", "vector", "chunks"} /\ crawl[k].file = f
    \/ backfill.file = f
    \/ \E s \in stray : s.file = f

\* A pass that starts to write a file anew makes up for what was spoiled.
Afresh(f) == spoiled' = IF Interfered(f) THEN spoiled ELSE spoiled \ {f}
-----------------------------------------------------------------------------
(* The circuit breaker over files that keep failing.                       *)

Allow(f) == fileBreaker[f].failures < FailThreshold \/ ~fileBreaker[f].open

RecordFailure(f) ==
    LET n == Min({fileBreaker[f].failures + 1, FailThreshold})
    IN  fileBreaker' = [fileBreaker EXCEPT ![f] = [failures |-> n, open |-> n = FailThreshold]]

Clear(f) == fileBreaker' = [fileBreaker EXCEPT ![f] = [failures |-> 0, open |-> FALSE]]

\* The cooldown of an open breaker elapses: the next attempt is the trial.
CoolDown(f) ==
    /\ fileBreaker[f].open
    /\ fileBreaker' = [fileBreaker EXCEPT ![f].open = FALSE]
    /\ UNCHANGED <<disk, window, timer, batch, flight, crawl, latch, backfill, analytics,
                   indexStores, stray, spoiled, unseen, spent>>
-----------------------------------------------------------------------------
(* The coalescer.                                                          *)

Event(f, what) == [file |-> f, what |-> what]

Holds(events, f) == \E i \in DOMAIN events : events[i].file = f

\* The first event of a window is kept.
PutIfNew(events, f, what) ==
    IF Holds(events, f) THEN events ELSE Append(events, Event(f, what))

\* The dict keeps the place of a key it already holds and takes the new value.
Put(events, f, what) ==
    IF Holds(events, f)
    THEN [i \in DOMAIN events |-> IF events[i].file = f THEN Event(f, what) ELSE events[i]]
    ELSE Append(events, Event(f, what))

\* Every submit cancels the timer task, asleep or already dispatching: the
\* CancelledError ends the flush at its await, with what is left of its batch
\* and the flight it was in.  A write handed to a worker thread still happens.
Rearm ==
    /\ timer' = "sleep"
    /\ batch' = <<>>
    /\ flight' = NoFlight
    /\ stray' = IF flight.step \in {"vector", "chunks", "unlink vectors"}
                THEN stray \cup {flight} ELSE stray
    /\ Spoil({f \in Paths : Holds(batch, f) \/ flight.file = f})
    /\ spent' = [spent EXCEPT !.event = @ + 1]

\* The files named are in the window, as the disk now has them.
Submit(events, named) ==
    /\ MayEdit
    /\ window' = events
    /\ Rearm
    /\ unseen' = unseen \ named
    /\ UNCHANGED <<fileBreaker, crawl, latch, backfill, analytics, indexStores>>

\* client_ide_telemetry: a file was saved or created.
Save(f, c) ==
    /\ disk' = [disk EXCEPT ![f] = c]
    /\ Submit(Put(window, f, Reread), {f})

\* client_file_delete.
Delete(f) ==
    /\ disk[f] # Absent
    /\ disk' = [disk EXCEPT ![f] = Absent]
    /\ Submit(Put(window, f, Unlink), {f})

\* file_renamed: the old path is purged, the new one submitted.
Rename(f, g) ==
    /\ disk[f] # Absent /\ disk[g] = Absent
    /\ disk' = [disk EXCEPT ![f] = Absent, ![g] = disk[f]]
    /\ Submit(Put(Put(window, f, Unlink), g, Reread), {f, g})

\* A change whose event the flood guard sheds, or that no editor saw.
LoseEvent(f, c) ==
    /\ disk[f] # c
    /\ Fault
    /\ disk' = [disk EXCEPT ![f] = c]
    /\ unseen' = unseen \cup {f}
    /\ UNCHANGED <<window, timer, batch, flight, fileBreaker, crawl, latch, backfill,
                   analytics, indexStores, stray, spoiled>>

\* The window closes: deletions first, then the updates, or the crawl when
\* there are more of them than the mass threshold.
Close ==
    LET gone == {e \in Elements(window) : e.what = Unlink}
        unlinks == Without(window, Elements(window) \ gone)
        updates == Without(window, gone)
        mass == Len(updates) > MassThreshold
    IN  /\ timer = "sleep"
        /\ timer' = "dispatch"
        /\ batch' = unlinks \o IF mass THEN <<Event(Absent, "mass")>> ELSE updates
        /\ window' = <<>>
        /\ Spoil({f \in Paths : mass /\ Holds(updates, f)})
        /\ UNCHANGED <<disk, flight, fileBreaker, crawl, latch, backfill, analytics,
                       indexStores, stray, unseen, spent>>

\* _reindex_one, under the coordinator's key: a purge or an index.
Fly(f, what) ==
    flight' = [step |-> IF what = Unlink THEN "unlink" ELSE "gate", file |-> f, text |-> what]

Land == flight' = NoFlight

Continue(step) == flight' = [flight EXCEPT !.step = step]

Dispatch ==
    /\ timer = "dispatch" /\ flight = NoFlight
    /\ batch # <<>> /\ Head(batch).what # "mass"
    /\ batch' = Tail(batch)
    /\ Fly(Head(batch).file, Head(batch).what)
    /\ UNCHANGED <<disk, window, timer, fileBreaker, crawl, latch, backfill, analytics,
                   indexStores, stray, spoiled, unseen, spent>>

Drained ==
    /\ timer = "dispatch" /\ flight = NoFlight /\ batch = <<>>
    /\ timer' = "none"
    /\ UNCHANGED <<disk, window, batch, flight, fileBreaker, crawl, latch, backfill,
                   analytics, indexStores, stray, spoiled, unseen, spent>>
-----------------------------------------------------------------------------
(* The writes to the stores, shared by the reactive indexer and the crawl. *)

\* upsert_dependencies replaces the edges; neither caller calls it for a file
\* without imports.
UpsertDependencies(f, c) == depEdges' = IF Imports[c] THEN [depEdges EXCEPT ![f] = c] ELSE depEdges

UpsertIndexedFile(f, hash) == row' = [row EXCEPT ![f] = hash]

\* semantic_upsert: below the token gate nothing is written, or removed.
WriteRecord(f, c) ==
    vector' = IF Size[c] = "small" THEN vector ELSE [vector EXCEPT ![f] = c]

HasChunks(c) == Size[c] = "large"

WriteChunkRecords(f, c) == chunks' = [chunks EXCEPT ![f] = c]

\* The row, the edges and the score go in one transaction.
PurgeFileNodes(f) ==
    /\ row' = [row EXCEPT ![f] = NoRow]
    /\ depEdges' = [depEdges EXCEPT ![f] = Absent]
    /\ scores' = scores \ {f}

\* Both tables, for a set of files.
DeleteRecords(gone) ==
    /\ vector' = [f \in Paths |-> IF f \in gone THEN Absent ELSE vector[f]]
    /\ chunks' = [f \in Paths |-> IF f \in gone THEN Absent ELSE chunks[f]]
-----------------------------------------------------------------------------
(* The reactive indexer: one action per await.                             *)

At(step) == flight.step = step

UnchangedByFlights ==
    UNCHANGED <<disk, window, timer, batch, crawl, latch, backfill, stray, unseen>>

\* The breaker, the bytes, the hash of the last indexed revision.
GateFlight ==
    LET f == flight.file
    IN  /\ At("gate")
        /\ IF Allow(f) /\ disk[f] # Absent /\ disk[f] # row[f]
           THEN /\ flight' = [flight EXCEPT !.step = "deps", !.text = disk[f]]
                /\ Afresh(f)
           ELSE Land /\ UNCHANGED spoiled
        /\ UnchangedByFlights
        /\ UNCHANGED <<fileBreaker, analytics, indexStores, spent>>

\* The pool has parsed the file; upsert_dependencies, only when the parser found
\* an import.
WriteDeps ==
    LET f == flight.file  c == flight.text
    IN  /\ At("deps")
        /\ UpsertDependencies(f, c)
        /\ analytics' = IF Imports[c] THEN [step |-> "sleep", seen |-> {}] ELSE analytics
        /\ Continue("row")
        /\ UnchangedByFlights
        /\ UNCHANGED <<fileBreaker, row, vector, chunks, scores, spoiled, spent>>

\* upsert_indexed_file: from here on the same bytes are not indexed again.
WriteRow ==
    /\ At("row")
    /\ UpsertIndexedFile(flight.file, flight.text)
    /\ Continue("vector")
    /\ UnchangedByFlights
    /\ UNCHANGED <<fileBreaker, analytics, depEdges, vector, chunks, scores, spoiled, spent>>

\* semantic_upsert of the file.
WriteVector ==
    LET f == flight.file  c == flight.text
    IN  /\ At("vector")
        /\ WriteRecord(f, c)
        /\ IF HasChunks(c)
           THEN Continue("chunks") /\ UNCHANGED fileBreaker
           ELSE Land /\ Clear(f)
        /\ UnchangedByFlights
        /\ UNCHANGED <<analytics, row, depEdges, chunks, scores, spoiled, spent>>

\* The chunks of a large file; a failure keeps the old ones and is a success.
WriteChunks ==
    LET f == flight.file  c == flight.text
    IN  /\ At("chunks")
        /\ \/ WriteChunkRecords(f, c) /\ UNCHANGED <<spoiled, spent>>
           \/ Fault /\ Spoil({f}) /\ UNCHANGED chunks
        /\ Land
        /\ Clear(f)
        /\ UnchangedByFlights
        /\ UNCHANGED <<analytics, row, depEdges, vector, scores>>

\* A failed parse, database write, embedding or vector write.
Fail ==
    /\ flight.step \in {"deps", "row", "vector"}
    /\ Fault
    /\ Spoil({flight.file})
    /\ RecordFailure(flight.file)
    /\ Land
    /\ UnchangedByFlights
    /\ UNCHANGED <<analytics, indexStores>>

\* purge: the graph and the row in one transaction, then the vectors, whose
\* deletion may fail unnoticed.
PurgeGraph ==
    LET f == flight.file
    IN  /\ At("unlink")
        /\ PurgeFileNodes(f)
        /\ Afresh(f)
        /\ Continue("unlink vectors")
        /\ UnchangedByFlights
        /\ UNCHANGED <<fileBreaker, analytics, vector, chunks, spent>>

PurgeVectors ==
    LET f == flight.file
    IN  /\ At("unlink vectors")
        /\ \/ DeleteRecords({f}) /\ UNCHANGED <<spoiled, spent>>
           \/ Fault /\ Spoil({f}) /\ UNCHANGED <<vector, chunks>>
        /\ Clear(f)
        /\ Land
        /\ UnchangedByFlights
        /\ UNCHANGED <<analytics, row, depEdges, scores>>

\* A thread the flight no longer waits for ends its write.
StrayWrite(s) ==
    /\ s \in stray
    /\ stray' = stray \ {s}
    /\ \/ s.step = "vector" /\ WriteRecord(s.file, s.text) /\ UNCHANGED chunks
       \/ s.step = "chunks" /\ WriteChunkRecords(s.file, s.text) /\ UNCHANGED vector
       \/ s.step = "unlink vectors" /\ DeleteRecords({s.file})
    /\ UNCHANGED <<disk, window, timer, batch, flight, fileBreaker, crawl, latch, backfill,
                   analytics, row, depEdges, scores, spoiled, unseen, spent>>
-----------------------------------------------------------------------------
(* The bulk crawl.                                                         *)

UnchangedByCrawl ==
    UNCHANGED <<disk, window, timer, flight, fileBreaker, backfill, analytics, stray, unseen>>

\* start(), at client_workspace_init or when a new embedding preset retries:
\* a no-op while a crawl runs or after one has completed.
StartCrawl(k) ==
    /\ ~latch.running /\ ~latch.complete
    /\ Happens("crawl")
    /\ crawl[k] = Off
    /\ crawl' = [crawl EXCEPT ![k].step = "preflight"]
    /\ latch' = [latch EXCEPT !.running = TRUE]
    /\ UNCHANGED batch
    /\ UnchangedByCrawl
    /\ UNCHANGED <<indexStores, spoiled>>

\* _handle_mass_change: completion is forgotten and the crawl started.
MassChange(k) ==
    /\ timer = "dispatch" /\ flight = NoFlight
    /\ batch # <<>> /\ Head(batch).what = "mass"
    /\ batch' = Tail(batch)
    /\ IF latch.running
       THEN latch' = [latch EXCEPT !.complete = FALSE] /\ UNCHANGED <<crawl, spent>>
       ELSE /\ crawl[k] = Off
            /\ crawl' = [crawl EXCEPT ![k].step = "preflight"]
            /\ latch' = [running |-> TRUE, complete |-> FALSE]
            /\ UNCHANGED spent
    /\ UnchangedByCrawl
    /\ UNCHANGED <<indexStores, spoiled>>

CrawlEnds(k, complete) ==
    /\ crawl' = [crawl EXCEPT ![k] = Off]
    /\ latch' = [running |-> FALSE, complete |-> latch.complete \/ complete]

\* The embedding backend does not answer: the latch is released before the
\* error is broadcast, and once more when _run ends.
PreflightFails(k) ==
    /\ \/ /\ crawl[k].step = "preflight"
          /\ Fault
          /\ crawl' = [crawl EXCEPT ![k].step = "erring"]
          /\ latch' = [latch EXCEPT !.running = FALSE]
       \/ /\ crawl[k].step = "erring"
          /\ CrawlEnds(k, FALSE)
          /\ UNCHANGED spent
    /\ UNCHANGED batch
    /\ UnchangedByCrawl
    /\ UNCHANGED <<indexStores, spoiled>>

\* Nothing to index, too little, enough indexed already, or the walk begins.
Collect(k) ==
    LET eligible == {f \in Paths : disk[f] # Absent}
        already == Cardinality({f \in Paths : row[f] # NoRow})
    IN  /\ crawl[k].step = "preflight"
        /\ IF eligible = {} THEN CrawlEnds(k, TRUE)
           ELSE IF Cardinality(eligible) < WarmupMinFiles THEN CrawlEnds(k, FALSE)
           ELSE IF already >= Cardinality(eligible) THEN CrawlEnds(k, TRUE)
           ELSE /\ crawl' = [crawl EXCEPT ![k] = [Off EXCEPT !.step = "next", !.todo = eligible]]
                /\ UNCHANGED latch
        /\ UNCHANGED batch
        /\ UnchangedByCrawl
        /\ UNCHANGED <<indexStores, spoiled, spent>>

\* The next file is read; a file that cannot be read is skipped.
Visit(k, f) ==
    /\ crawl[k].step = "next" /\ f \in crawl[k].todo
    /\ crawl' = [crawl EXCEPT ![k] =
                    [step |-> IF disk[f] = Absent THEN "next" ELSE "row",
                     todo |-> @.todo \ {f}, file |-> f, text |-> disk[f]]]
    /\ Spoil(IF disk[f] = Absent THEN {} ELSE {f})
    /\ UNCHANGED <<latch, batch>>
    /\ UnchangedByCrawl
    /\ UNCHANGED <<indexStores, spent>>

\* The stores, in the crawl's order: the row without a hash, edges, vectors.
CrawlWrite(k) ==
    LET f == crawl[k].file  c == crawl[k].text
        Goto(step) == crawl' = [crawl EXCEPT ![k].step = step]
    IN  /\ \/ /\ crawl[k].step = "row"
              /\ UpsertIndexedFile(f, Unhashed)
              /\ Goto("deps") /\ UNCHANGED <<depEdges, vector, chunks>>
           \/ /\ crawl[k].step = "deps"
              /\ UpsertDependencies(f, c)
              /\ Goto("vector") /\ UNCHANGED <<row, vector, chunks>>
           \/ /\ crawl[k].step = "vector"
              /\ WriteRecord(f, c)
              /\ Goto(IF HasChunks(c) THEN "chunks" ELSE "next")
              /\ UNCHANGED <<row, depEdges, chunks>>
           \/ /\ crawl[k].step = "chunks"
              /\ WriteChunkRecords(f, c)
              /\ Goto("next") /\ UNCHANGED <<row, depEdges, vector>>
        /\ UNCHANGED <<latch, batch, scores, spoiled, spent>>
        /\ UnchangedByCrawl

\* A file whose parse, write or embedding fails is left as it is.
CrawlSkips(k) ==
    /\ crawl[k].step \in {"row", "deps", "vector", "chunks"}
    /\ Fault
    /\ crawl' = [crawl EXCEPT ![k].step = "next"]
    /\ UNCHANGED <<latch, batch>>
    /\ UnchangedByCrawl
    /\ UNCHANGED <<indexStores, spoiled>>

CrawlDone(k) ==
    /\ crawl[k].step = "next" /\ crawl[k].todo = {}
    /\ CrawlEnds(k, TRUE)
    /\ UNCHANGED batch
    /\ UnchangedByCrawl
    /\ UNCHANGED <<indexStores, spoiled, spent>>
-----------------------------------------------------------------------------
(* The graph pass, the chunk backfill and the janitor.                     *)

UnchangedBeside == UNCHANGED <<disk, window, timer, batch, flight, fileBreaker, crawl, latch,
                               stray, row, depEdges, unseen>>

\* _run_ppr_for_project: read the edges, compute in the pool, write the scores.
Analyse ==
    /\ \/ /\ analytics.step = "sleep"
          /\ LET seen == {f \in Paths : depEdges[f] # Absent}
             IN  analytics' = IF seen = {} THEN [step |-> "off", seen |-> {}]
                              ELSE [step |-> "compute", seen |-> seen]
          /\ UNCHANGED scores
       \/ /\ analytics.step = "compute"
          /\ scores' = scores \cup analytics.seen
          /\ analytics' = [step |-> "off", seen |-> {}]
    /\ UNCHANGED <<backfill, vector, chunks, spoiled, spent>>
    /\ UnchangedBeside

\* backfill_chunks: an embedded large file without chunks is read and parsed,
\* then its chunks are written.
Backfill ==
    /\ \/ \E f \in Paths :
            /\ backfill = NoFlight
            /\ Happens("upkeep")
            /\ vector[f] # Absent /\ chunks[f] = Absent /\ disk[f] # Absent
            /\ HasChunks(vector[f])
            /\ backfill' = [step |-> "chunks", file |-> f, text |-> disk[f]]
            /\ Spoil({f})
            /\ UNCHANGED chunks
       \/ /\ backfill # NoFlight
          /\ WriteChunkRecords(backfill.file, backfill.text)
          /\ backfill' = NoFlight /\ UNCHANGED <<spoiled, spent>>
    /\ UNCHANGED <<analytics, vector, scores>>
    /\ UnchangedBeside

\* run_vector_gc: the vectors and chunks of files that are gone.
Janitor ==
    LET gone == {f \in Paths : disk[f] = Absent /\ (vector[f] # Absent \/ chunks[f] # Absent)}
    IN  /\ gone # {} /\ Happens("upkeep")
        /\ DeleteRecords(gone)
        /\ Spoil(gone)
        /\ UNCHANGED <<backfill, analytics, scores>>
        /\ UnchangedBeside
-----------------------------------------------------------------------------
IndexInit ==
    /\ disk = [f \in Paths |-> Absent]
    /\ window = <<>> /\ timer = "none" /\ batch = <<>>
    /\ flight = NoFlight
    /\ fileBreaker = [f \in Paths |-> [failures |-> 0, open |-> FALSE]]
    /\ crawl = [k \in Crawlers |-> Off]
    /\ latch = [running |-> FALSE, complete |-> FALSE]
    /\ backfill = NoFlight
    /\ analytics = [step |-> "off", seen |-> {}]
    /\ row = [f \in Paths |-> NoRow]
    /\ depEdges = [f \in Paths |-> Absent]
    /\ vector = depEdges /\ chunks = depEdges
    /\ scores = {} /\ stray = {}
    /\ spoiled = {} /\ unseen = {}
    /\ spent = [event |-> 0, fault |-> 0, crawl |-> 0, upkeep |-> 0]

\* One await of the flight.
FlightStep ==
    \/ GateFlight \/ WriteDeps \/ WriteRow \/ WriteVector
    \/ WriteChunks \/ Fail \/ PurgeGraph \/ PurgeVectors

\* One await of a crawl.
Walk(k) ==
    \/ PreflightFails(k) \/ Collect(k) \/ CrawlWrite(k) \/ CrawlSkips(k) \/ CrawlDone(k)
    \/ \E f \in Paths : Visit(k, f)

\* The flush task, which a submit may cancel at any of its awaits.
FlushStep == Close \/ Dispatch \/ Drained \/ FlightStep \/ \E k \in Crawlers : MassChange(k)

IndexNext ==
    \/ FlushStep
    \/ \E f \in Paths, c \in Revisions : Save(f, c)
    \/ \E f \in Paths, c \in Revisions \cup {Absent} : LoseEvent(f, c)
    \/ \E f \in Paths : Delete(f) \/ CoolDown(f) \/ \E g \in Paths : Rename(f, g)
    \/ \E k \in Crawlers : StartCrawl(k) \/ Walk(k)
    \/ \E s \in stray : StrayWrite(s)
    \/ Analyse \/ Backfill \/ Janitor

IndexSpec == IndexInit /\ [][IndexNext]_indexVars
-----------------------------------------------------------------------------

\* No event waits, no flush runs, no graph pass is due.
Quiet == timer = "none" /\ analytics.step = "off"

\* What every store says of a file is what its bytes say, as far as they say
\* something: a revision without imports, or below the embedding gate, is
\* written over nothing.
AgreesWithDisk(f) ==
    LET c == disk[f]
    IN  IF c = Absent
        THEN row[f] = NoRow /\ depEdges[f] = Absent /\ vector[f] = Absent /\ chunks[f] = Absent
        ELSE /\ row[f] = c
             /\ Imports[c] => depEdges[f] = c /\ f \in scores
             /\ Size[c] # "small" => vector[f] = c
             /\ Size[c] = "large" => chunks[f] = c

(* When the coalescer and the graph pass are at rest, every file whose last *)
(* change an event told of, and whose last pass was neither cut off by a    *)
(* later submit, nor failed, nor left to the crawl by a mass change, nor    *)
(* interfered with by a crawl, a backfill, the janitor or a stray write,    *)
(* agrees with the disk: its row has the hash of its bytes, and what the    *)
(* hash then keeps from being indexed again was written from those bytes:   *)
(* the edges and the score if there is an import, the vector above the      *)
(* embedding gate, the chunks of a large file.  Nothing is said of the      *)
(* edges that a file keeps when its last import goes (indexer.py:538 writes *)
(* only if there is one), of the vector and the chunks it keeps when it      *)
(* falls below the gate, or of the score a pass under way gives back to a   *)
(* purged file.  However often a file was spoiled, one later pass that      *)
(* writes it undisturbed makes up for it (io_coalescer.py, indexer.py).     *)
IndexIsExact == Quiet => \A f \in Paths \ (spoiled \cup unseen) : AgreesWithDisk(f)

=============================================================================
