# Verification of cellin

cellin keeps an agent's memories in a memory store, a graph store and a vector
index, and "dreams" over them: it merges duplicates, repairs contradictions,
writes summaries, archives what has decayed, and can roll every such run back.
This directory holds TLA+ models of that code, the TLC runs that check them on
small instances and TLAPS proofs for every value of the constants.

Run them from this directory: `tlc -config dream_merge.cfg MCDreaming`,
`tlapm Dreaming_proofs.tla`. `PROJECT.json` lists the runs, the source lines
behind every definition, the hazards, and the faulty variants with which each
property was tried out. Definitions headed "Fault:" are such variants; no
specification uses them.

## Inventory

| Part (under `src/src/cellin/`) | State | Operations | Interacts with | Module |
|---|---|---|---|---|
| `dreaming/strategies.py` | none of its own | four strategies: list active memories, change records and edges pair by pair | memory and graph store | `Dreaming` |
| `dreaming/service.py`, `models.py` | diffs (in the caller's memory or a JSON file) | `run_strategy`, `run_pending`, `rollback` | strategies, scheduler, all three stores | `Dreaming`, `DreamService` |
| `dreaming/scheduler.py` | `last_run_at` per strategy | `plan`, `record_run` | stores (reads) | `DreamService` |
| `stores/in_memory.py`, `sqlite.py`, `_store_utils.py` | records, edges | put, get, list, upsert; an edge is removed by marking it archived | - | `Dreaming` |
| `stores/redis.py`, `sql_backends.py`, `graph_backends.py`, `mongodb.py` | the same, remote | the same, as one to three commands | databases | `Stores` |
| `ingest/` | none | normalise artifacts, persist memories, index, persist edges | all stores | `Library` |
| `retrieval/`, `ranking/` | none | collect seeds and graph neighbours, score, fit to budget, write accesses back | all stores | `Library`, `Dreaming` |
| `stores/*vector*.py`, `milvus.py`, `qdrant.py`, `pinecone.py`, `weaviate.py` | cache and tombstones beside a remote collection, or a table | connect, upsert, delete, search | vector services | `RemoteVectors` |
| `mcp/` | bundles per subject, cached backends, `subjects.json` | tools, subject provisioning and deletion | everything above | `Subjects` |
| `runtime/storage.py`, `cli/config.py` | backend providers of a process | register, load entry points, list, set up, build a bundle | distributions, workspace file | `StorageBackends` |
| `runtime/registry.py` | the plugins of a process | register, load entry points, shut down | plugins | `Plugins` |
| `features/`, `scripts/` for features | flag registry and release lock, in the repository | add, edit, lock, resolve, report | CLI | `Features`, `Startup` |
| `cli/app.py` | config and trace files | one process per command | everything above | `Dreaming` (dream run, rollback), `Startup` |
| `evals/` | fixed seed data | benchmarks | everything above | - |

What is hard here. Nothing is transactional above a single record: a merge is
four writes, a summary one per member and one more, a rollback as many as its
run, an ingestion one per record, index entry and edge, an edge up to three. The
strategies read a list once and go on using it while they change the store.
Rollback puts whole records back, retrieval writes whole records back that it
read earlier, perhaps from the graph store's copy. Several processes may share a
database, a vector collection or a data directory, each with caches of its own.
Registries are filled by whoever touches them first. What makes each part correct:

- dreaming: merged memories are archived and point to a survivor; one pass is
  enough; trust is what the live contradictions cost; edges join stored
  memories; all of it also after a crash;
- rollback: the active memories and live edges are what they were;
- scheduling: a call runs what it planned and returns, within the cadence;
- ingestion: what a call was given is stored, indexed and linked when it
  returns; a call that died leaves nothing that refers to a memory nobody stored;
- retrieval: an access is counted once and overwrites nothing; the best matches
  are not displaced; nothing archived is returned;
- graph stores: reading by memory and reading everything agree;
- remote vectors: an id that was indexed last is found, one that was deleted
  last is not, whichever process did it, as far as the backend can tell;
- subjects: a subject's memories are its own, none is forgotten while its data is
  there, and a deleted one can be made again;
- startup: the built-in backends are there, a workspace's stores open, plugins
  that were started are stopped, a feature is in the state its sources give it.

## Modules

| Module | What it is |
|---|---|
| `DreamMemory` | the data (`Memory`, `Edges`, `Changes`, `Writes`) and the pure functions of the strategies |
| `Dreaming` | one process: ingest, retrieve, the four strategies, rollback, crash and restart |
| `DreamService` EXTENDS `Dreaming` | the scheduler and `run_pending`: actions of `Dreaming` under a plan |
| `VectorIndex` | what the vector contract promises: one index, searches of the best |
| `RemoteVectors` | the eight vector backends, Weaviate in two ways, and the processes that use them; refines `VectorIndex` |
| `Stores` | the remote memory and graph stores, command by command |
| `Library` EXTENDS `Stores` | ingestion and retrieval over them |
| `Subjects` | MCP servers on one data directory |
| `StorageBackends`, `Plugins`, `Features` | the registries of a process, and the feature resolver as pure operators |
| `Startup` EXTENDS these three | one specification over them |
| `MCDreaming`, `MCDreamService`, `MCRemoteVectors`, `MCLibrary`, `MCSubjects`, `MCStartup` | the instances TLC checks |
| `Dreaming_proofs` | theorems about `Dreaming`: types, what is stored when, records and their copies, `superseded_by` |
| `Merging_proofs` EXTENDS it | merges, accesses, graph copies, passes |
| `Rollback_proofs` EXTENDS it | what a run records and its rollback brings back |
| `DreamService_proofs` EXTENDS it | theorems about `DreamService` |
| `Library_proofs` | theorems about `Library`: what ingestion leaves, what the graph says, what retrieval returns |
| `Subjects_proofs` | theorems about `Subjects`: whose data, and where |
| `RemoteVectors_proofs` | theorems about `RemoteVectors`, with the refinement of `VectorIndex` |
| `Startup_proofs` | theorems about `Startup` and its three parts |

### How `Dreaming` corresponds to the code

A call (`DreamRunner.run_strategy`, `rollback`, `WeightedRetriever.retrieve`)
begins with an action that takes the snapshot the code takes, and ends with
`FinishRun` or `FinishCall`. In between, the actions that examine a pair or a
topic compute what the code computes and queue its writes in `todo`;
`ApplyWrite` applies one write, that is one transaction, at a time, and `Crash`
may fall between any two. Where the graph store keeps copies of its own, the code
puts a memory and then upserts it there (`strategies.py:157-159`, `581-582`,
`651-652`, `service.py:103-104`, `117-118`, `pipeline.py:94-111`): `ApplyWrite` (or
`Ingest`) leaves its id in `copying`, and `CopyWrite` makes the copy before anything
else can be done but dying. A call reads the stores again only when its queue is
empty, as the code does. Calls do not overlap: a process is sequential.

| Variable | In the code |
|---|---|
| `mem` | the memory store's records |
| `gmem` | the copies of a graph store that does not share the backend (`shares_memory_store`) |
| `copying` | the memory that has been put and not yet upserted in such a graph store |
| `edges` | what `list_edges` returns: edges not marked archived |
| `vec` | keys of the in-memory vector index |
| `log` | diffs that can be rolled back |
| `snap` | `memory_index`, or the member lists a strategy iterates over |
| `known` | `existing_edges` of a contradiction repair |
| `work` | the rest of the nested loops |
| `changes`, `links` | `memory_changes` and `edge_changes` of the outcome |
| `base` | nothing: history, for `RollbackRestores` only |

Abstractions. Texts are two symmetric relations, `Similar` and `Conflict`;
scores are integers in hundredths; time is a small counter of days; an edge id
spells out its kind and ends and stands for the edge; an ingested artifact is a
batch of one with a fresh id, and edges of ingestion (`supports`, `about`,
`caused_by`) are left to `Library`. Ranking is any choice of at most `TopK`
memories that are active, a neighbour by the copy the graph store has of it
(`Selectable`). The constant `CommandLine` makes the process the CLI: it has no
vector store in its runner and rolls back from JSON files, whose round trip is
`FromSnapshot`. `AnyOrder` allows rollbacks of diffs other than the newest; the
code does not forbid them, and nothing about them is promised, so the runs set
it to FALSE. Which theorems need that is said under "Proofs".

Summaries. The id of a summary is its topic and the second it was made in
(`strategies.py:565`). A summary that has been merged and is made again in that
second overwrites the merged record while its `same_as` edge stays; a rollback may
then unlink a `summarizes` edge that an earlier run had linked too, and it indexes
a summary it revives though summaries are not indexed when they are made
(`service.py:106-110`). `MergedAreArchived`, `MergeChainsEnd`, `MergeRecordsAgree`
and `IndexMatchesActive` therefore speak of the merges of atoms (ingested
memories), into atoms or summaries. `RollbackRestores` speaks of everything and
holds in the instances that are run, where no summary resembles another memory.

### How `DreamService` corresponds to the code

`BeginPending` is the call of `plan` at the head of `run_pending`, `RunPlanned`
and `PassPlanned` the iterations of its loop: the strategy either has something
to examine and runs as in `Dreaming`, or returns None at once. `FinishRecorded`
adds `record_run` to `FinishRun`; a strategy that returned None is not recorded.
`Signalled` is what `plan` reads from the stores, strategy by strategy. The plan
is a set, run in `PlanOrder`, for no strategy is planned twice.

| Variable | In the code |
|---|---|
| `lastRun` | `last_run_at` |
| `pending`, `plan` | the loop of `run_pending`, and what is left of its plan |
| `began` | nothing: history, for `PendingMerges` and `RepairsFollowRepairs` only |

The constant `KeepRunner` says whether callers keep a `DreamRunner`: the CLI
(`cmd_dream_run`) and the MCP tools (`_bundle_dream_runner`) do not, so their
scheduler never knows of an earlier run. Retrieval is left out of `DreamService`:
it adds nothing that the scheduler reads.

### How `RemoteVectors` corresponds to the code

Every backend has its own actions for connecting and searching, and for writing
where it differs; `kind` is the backend of a behaviour. A vector is the text it
was made from, and two texts are similar when they are the same, which is enough
to tell a stale vector and a wrong order apart.

| Variable | In the code |
|---|---|
| `stage` | how far a constructor has come; the check for the collection and its creation are two requests |
| `collection`, `rows` | the service: the collection, and the rows it keeps of an id |
| `vectors`, `tombstones` | `_vectors` and `_tombstones` of a process |
| `faulty`, `appends` | the service: whether it may refuse a write, and whether Milvus' and Weaviate's insert leaves an id's earlier row in place |
| `written`, `answer` | nothing: the last successful write of an id, the last search |

`complete` in an answer is FALSE when the service could not be asked, or a client
that does not take the filter on archived rows has had them cut into its limit.
A write that is refused leaves cache and tombstones changed, as the code does,
which changes them before the request.

Weaviate is two backends in the model. With a client that has `collections` it is
inserted into and queried; with one that has not (`Unqueried`, as in the tests with
`include_collections=False`) the schema is looked up and vectors go out by
`data_object.create`, if the client has that, but `_query_collection` and
`_query_fallback` return nothing (`weaviate.py:99-103`, `156-157`, `175-181`): a
search sees what its process has cached. Such a process finds what it wrote until it
ends, and no longer, so `OwnWritesAreFound` asks no more of it and `IsOneIndex`
leaves it out; `HitsAreVouchedFor` holds of it as of the others.

`IsOneIndex` names the configurations in
which the backend is one index: the two SQL tables always, a service when one
process uses it, no write is refused, insert replaces and searches reach it. In these `RefinesIndex`
maps the newest rows to the abstract index and every complete search to a best
answer; in the others the mapping is constant and the two invariants say what is
left.

### How `Stores` and `Library` correspond to the code

`Stores` keeps tables and gives the commands that change them atomically:
a transaction of PostgreSQL over a whole batch, a row of MySQL or DuckDB (whose
`executemany` commits each outside a transaction), a MongoDB document, one Redis command, one Cypher query, one
ArangoDB insert. `Library` turns a call into its sequence of commands (`todo`);
`Put`, `UpsertNode`, `InsertPlaceholder`, `Index`, `UpsertEdges`, `SetRedisEdge`
and `AddRedisLink` execute one each, and `Crash` may fall between any two.

| Variable | In the code |
|---|---|
| `memories`, `nodes` | the memory store's records; those of a graph store with records of its own, `Placeholder` where an edge came before its end |
| `edges`, `links` | edge rows with the ends the database keeps beside the payload; Redis' two sets per memory |
| `indexes` | the vector store and the representation store |
| `asked` | the locals of `collect`: the memories listed, the seeds, the edges still to follow, the neighbors found |
| `reply` | a retrieval whose accesses are being written back |
| `batch`, `returned`, `cut`, `stale`, `touched` | nothing: the ingestion under way and the last that returned, edges that a crash cut short, ids whose text a write-back replaced, ids written since the retrieval under way began |

A writer ingests and archives (`DreamRunner._archive_memory`, `_archive_edge`);
a retriever in another process sends one request after the other, interleaved with
the writer's commands: the list of memories (`ListMemories`), the vector search
(`SearchVectors`), the edges of each seed (`ExpandSeed`), the memory at the other end
of each edge that leads to no candidate yet (`FetchNeighbor`). `Answer` chooses from
what was read, and `WriteBackAccess` writes one record at a time. A request is one
step also where a backend needs several commands for it: Redis reads a set and then
the values of its keys, and a neighbor that the graph store has not is asked of the
memory store next. Ranking is any order of the candidates, and the vector index may return any indexed ids: what the
properties promise does not depend on the score. The adapters are a set of
modalities; tokens are model values. The in-process and SQLite stores are those
of `Dreaming`, whose calls `Library` does not repeat.

Ids are integers, ordered as the stores list them (`IdsAreOrdered`), since the sort by
lexical overlap is stable and falls back on that order. The loops that carry a value
from one element to the next (an edge batch, what of a list is kept, the budget) are
recursive functions: `WithEdges`, `Among`, `Spent`, `FitToBudget`.

### How `Subjects` corresponds to the code

Each server handles one tool call at a time, as a list of steps (`todo`); steps of
servers interleave, and `Stop` may fall between any two. `GetOrCreate` is the
synchronous start of every tool: bundle, cached backends, known ids. Writing
`subjects.json` is `Truncate` and `Write`. Deletion goes file by file, then
`Forget`, then the file is written. A call that finds its file without tables
raises (`Raise`), for SQLite creates an empty file on connecting. Retrieval writes
back some of what it read; dreaming does too (`Rewrite`), and then copies it to a
graph store that does not share the memory store's backend (`UpsertMemory`). That
dreaming deletes vectors is left out.

| Variable | In the code |
|---|---|
| `deployment` | the backend of each role |
| `index` | `subjects.json`; `Torn` while it is empty |
| `known`, `bundles` | `_known_subject_ids`, `_bundles` of a server |
| `opened` | `_BACKENDS`: files with a cached backend |
| `tables`, `content` | of a file, whether it has tables; of any place, the memories in it |
| `task` | the call a server is in, and what it has read or made (`held`) |
| `owner`, `doomed` | nothing: the subject a memory was ingested for, the memories of deleted subjects |

A place (`RouteBackend`) is a file, a part of a remote service or a process's own
memory. What the code does with several servers is modelled as it is and excepted
by name in the properties: the last server to write `subjects.json` wins, so of
several servers `DataIsIndexed` promises only that one knows the subject until the
first stop; a server that stops between emptying the file and writing it leaves it
torn for good, and no server starts on it; a second server whose file is
deleted gets "no such table". PostgreSQL, MySQL, Redis, Neo4j and pgvector are left as they
are by `_route_backend`, so their subjects share one store although
`subjects.py:49` speaks of isolated bundles: `SubjectsAreIsolated` excepts
these, and a graph store to which dreaming copies the memories it read in one of
them. Deleting a subject with local and remote backends deletes the local
files; what is remote stays, so `DeletionIsClean` is about the host, and excepts what
a dream copies from there to a graph store on the host once the subject is made
again.

### How `Startup` corresponds to the code

The registries of a process start empty and are filled by calls; a process may
end (`StorageExit`, `PluginExit`) and the next finds another installation. The
three parts share nothing, so a behaviour has one `part`, and the state space is
the sum of theirs.

- `StorageBackends`: `installed` are the entry points, `backends` is
  `_BACKEND_REGISTRY`; `entered`, `listed` and `prepared` record how the process
  first touched the registry and what the last call gave. `CoerceStorage` is
  what `cli/config.py` makes of a storage section. The loops of the code are written
  as what they come to: `RegisterAll` registers the providers before the first whose
  name another one has (`Clashes`), `LoadEntryPoints` passes those over and stops at
  the first entry point that cannot be loaded, `OpenInOrder` opens the roles
  before the first that raises.
- `Plugins`: `discovered`, `registered`; `running` is the plugins' own state.
  Whether a plugin's start or stop raises is chosen at the start. `LoadPlugins`
  starts the plugins before the first that is refused (`Refusal`).
- `Features`: operators for validation, lock, resolution and the codes of new
  flags; `Startup` edits the registry through `add_feature_flag.py` or by hand
  (checked by `check_feature_registry.py`), and resolves one process's context.
  `NotesAgree` compares the report's own computation with the resolver's. They agree
  for a release and for a development build (`ReleaseNotesAreTrue`); those of a rolling build
  do not (`RollingNotesAreTrue`, run `rolling_notes`): the report offers every preview
  feature for opting in, the resolver has turned it on.

`StorageList` drops the TypeErrors and ValueErrors of entry points, as
`cmd_storage_list` does; a distribution that cannot be loaded may also raise
something else, an ImportError, which ends the command (`app.py:350-353`).

## Runs

| Run | Instance | Shows |
|---|---|---|
| `dream_merge` | 3 memories, the middle one similar to both others; 2 runs, retrievals; shared store | merge chains end, the three records of a merge agree, the index holds the active atoms, one pass of deduplication is enough, only rollback revives, an access is counted once, rollback restores |
| `service_crash` | 3 memories similar to each other, the last conflicting with both, trust 0.45, observed in reverse order of ids; 3 runs, by name or scheduled, a new runner for every call; 1 crash | what is linked is stored and archived, trust never falls behind the contradictions, supersession runs forward in time, at every instant and after a crash; a schedule starts no repair where nobody has repaired before |
| `dream_graph_copy` | 2 memories, similar and in conflict, graph store with its own copies, half-life of one, 2 days, retrieval, rollbacks; 1 crash | the graph store's copies differ in accesses at most until the crash, and only the copy that was being made parts by it |
| `service_kept` | 3 memories, the first two similar, the first and the last conflicting, the last with a half-life; 2 days, cadence of one, a kept runner, runs by name and rollbacks in between | every call returns, the cadence holds, a scheduled deduplication is complete |
| `vector_index` | 8 backends and a Weaviate client that is never asked, 2 ids, 2 texts, limits 1 and 3, 1 or 2 processes, 3 writes, 1 restart; refusing and appending services | a hit is vouched for; a process finds what it wrote itself; where one index is promised, every step is one of `VectorIndex` |
| `library` | 3 ids, 4 batches, 5 deployments, 2 ingestions, 1 archival, 1 retrieval, 1 crash | an ingestion that returned is stored, indexed and linked; reads of the graph agree; no trace leads nowhere; retrieval is sound |
| `subjects` | 2 servers, 2 subjects, 8 mixes of backends, 2 memories, 4 calls, 1 stop | subjects are isolated, a lone server knows the subjects of its data, deletion is clean |
| `startup` | 5 installations, 2 applications, 5 workspaces; 2 plugins of 4 behaviours; 2 feature names, 3 codes | the built-ins are complete, workspaces build, plugins are stopped, features are as stated |
| `rolling_notes` | the instance of `startup` | **fails**: the report of a rolling build lists a preview feature as one to opt into (`generate_feature_report.py:59-69`), though `docs/features.md:20-21` and the resolver have all flags enabled |
| `graph_copy_access` | 2 memories, graph store with its own copies | **fails**: a stale graph copy is written back and accesses are lost |
| `cli_rollback` | 2 memories, diff file | **fails**: a rollback from a file replaces provenance and half-life |
| `storage_list` | the instance of `startup` | **fails**: with a third-party memory provider installed, `cellin storage list` shows no built-in backend, though README.md:134 says it does: `cmd_storage_list` loads entry points first (`app.py:349`), and `_register_builtin_backends` then takes the registry to be filled (`storage.py:545`) |

Bounds of the dreaming runs. Three memories are the least with a chain of similarity, a pair
examined after one side changed, and two penalties for one memory. Two runs are
the least with a rollback of the later and then of the earlier, and with a
strategy working on the results of another. Trust 0.45 reaches the floor 0.1
with the second penalty (0.45, 0.20, 0.10), salience and accesses are far from
theirs. Three runs let a schedule run a repair and then another strategy after the
run that wrote the first contradiction. One crash is enough because everything a
crash leaves behind is in the stores, from which the next process starts. Accesses
are bounded by `MaxAccess`, time by `MaxTime`, diffs kept by `MaxRuns`.

In `service_crash` the properties marked `AtRest` (between calls, no crash so far)
promise nothing after a crash: nothing in the code resumes a run that died.

In `service_kept` a call is let begin only if the diffs it can add fit into
`MaxRuns`, so that the bound never stops a call in its middle. `MinimumCount` is
3, all the atoms there are: deduplication is due exactly at the threshold.

Bounds of the others. `vector_index`: three writes are index, delete and index
again by either process, with a restart anywhere; a limit of 1 cuts and one of 3
leaves room for the row that an appending service keeps. `library`: the batches
have two edges between the same memories, a memory named twice in one batch, a
memory whose text and edges change when ingested again, and an edge to a memory
that may never come; two ingestions are the least with one on top of what a crash
or an archival left; the deployments have every kind of transaction, graph stores
that share the memory store's backend and graph stores with copies of their own. `subjects`: four calls are ingest, delete, ingest and a call of
the other server; 2 memories are one for each subject or one before and one
after a deletion; the mixes are what `CELLIN_BACKEND` sets up with sqlite,
in-memory, neo4j and postgresql stores, and four that only a library caller
makes, two of them with a graph store on the host beside a remote memory store. `startup`: the installations have a third-party name of its own, one that
clashes with a built-in, and one that cannot be loaded; three codes are one more
than the names, so that a name is used again after its flag is done.

The deadlock check is off in runs whose processes may have nothing left to do
once the bounds are used up, or that never come up again.

Fairness. `ServiceSpec` assumes weak fairness of
`ProcessStep`, the steps of a call already begun: a process that is in a loop over
a finite list goes on with it. Nothing obliges anyone to call: the code starts no
dream by itself, so nothing is promised that needs a call to come. The other
specifications assume no fairness and state safety only: every call in them is a
finite list of commands with no loop, wait or retry in the code.

`RepairsFollowRepairs` shows a limit of the scheduler, not a virtue: `plan` asks
for a `contradicts` edge (`scheduler.py:36`), which only a repair writes, so callers
that only ever call `run_pending` never get a contradiction repaired.

Assumed of the services: a database does what one command asks, atomically; a
vector service returns rows that score best, ties in any order. Two things were
tried and are not runs. With `CommandLine` and a crash,
`MergedAreArchived` fails: a run that died before its diff was written cannot be
rolled back, and rolling back an older file revives a memory that run merged.
With `AnyOrder`, records of later runs are overwritten. The code promises
neither.

## Proofs

From the assumptions named in the modules only (`ConstantsAssumption`,
`BoundsAssumption`, `ServiceAssumption`; `DeploymentsAreRoutable`,
`NobodyIsNoSubject`, `ServersAreFinite`, `BoundsAreNatural`; `IdsAreNaturals`,
`AbsentIsNoText`, `LimitsAreNaturals`, `KindsAreKnown`, `ProcessesAreFinite`;
`ProvidersAreThirdParty`, `RolesAreChosen`, `AbsentIsNoName`, `PluginsAreFinite`,
`MaxCodeIsNatural`, `FailedIsNoResult`; `DeploymentsAreKnown`, `IdsAreOrdered`,
`TextsAreFinite`, `MarksAreNoMemories`, `BatchesAreLists`);
TLC evaluates them in the runs. The theorems hold for any memories, relations,
numbers of runs and crashes, and either kind of store; for any servers, subjects
and mixes of backends; for any processes, ids and texts; for any batches, queries,
limits and deployments of stores; for any installations,
plugins, workspaces and features. The bounds are
parameters: a theorem holds for each value of them.

Hypotheses on constants appear where the property is false without them:

- `NewestOnly`: only the newest diff is rolled back (`~AnyOrder`); a process that
  dies loses its diffs, as one does that keeps them in memory (`CommandLine =>
  MaxCrashes = 0`); and the graph store shares the backend, or the process does not
  die (`SharedStore \/ MaxCrashes = 0`). A rollback of an older diff puts back
  records that later runs have changed; a CLI run that died before its diff was
  written leaves the older file as the newest there is; and a crash between a
  memory and its graph copy leaves a copy that a retrieval may write back, so that
  a merged memory is active again. For `MergedStayArchived`, `MergesLeaveASurvivor`.
- `Tame`, in `Rollback_proofs` and for `SchedulingKeepsBooks`: the same, and not
  the CLI at all (`~CommandLine`), so the diff is the one the run made, not what
  `FromSnapshot` reads back from a file (run `cli_rollback`), and there is an
  index in the runner.
- `SharedStore` for `AccessesAreCounted` (run `graph_copy_access` shows why).

`CopiesStayAlike`, `CopiesPartByCrashes` and `OnlyRollbacksRevive` say in the property
itself what a crash may do to a graph store with copies of its own.

The rest needs none, so covers rollbacks in any order and the CLI.

In `Dreaming_proofs`:

- `TypeCorrect`: `TypeOK`. It is not inductive by itself: a repair reads the
  older memory again and would fail on one that is gone, so the step needs
  `ReadAreStored`, that whatever a call has read stays stored (`StoredForever`:
  no action removes a record).
- `StoredInvariant`: `StoredInv`, the inductive invariant. Its part
  `LinksFollowMemories` says of every queued edge that each end is stored or is
  written by an earlier element of the queue. Merges and repairs link memories
  they have read; a summary is queued before its edges; a rollback queues no
  edge at all (`NoLinks`); `ApplyWrite` takes the first element and shifts the
  rest.
- `EdgesNeverDangle`: `NoDanglingEdges`.
- `RecordsStayFaithful`: `RecordsFaithful`; and from it
  `SupersessionRunsForward`: `SupersessionForward`. What a store holds at an
  instant says too little: a retrieval may write back a copy read long ago, a
  rollback a record of any age. The inductive invariant `RecordsFaithful` (also
  checked by TLC)
  therefore speaks of every copy of a record, in the stores, in
  what a call has read or queued, in the diff being built and in all diffs kept:
  each carries the `observed` its memory was born with (`ObservedOf`, which no
  strategy changes) and names as superseding only a stored memory that is
  `Forward` of it. Such copies stay faithful as more memories are stored
  (`FaithfulGrows`), every function of the strategies keeps them so
  (`FaithfulUpdates`), and `BeginRepair` pairs older with newer. That ids of
  summaries spell their time is needed for the summaries alone
  (`ObservedOfSummary`).

In `Merging_proofs`, with three inductive invariants:

- `RecordInv`, of every process: what a call has read is still so when it writes.
  `CopiesAgree` says that the two copies of a memory are alike, but the one that is
  being made (`copying`), in a process that has not crashed; `WritesAreWhole` that all
  writes of runs and rollbacks go to both stores, and keeps the exception, retrieval, to
  accesses of memories that stay active. What a step does to one memory's copies is shown
  whatever crashes did before (`CopyStep`); `DeduplicationIsCurrent` follows a merge through its four writes,
  `RepairIsCurrent` and `WritesOfOthers` say what the other calls may queue. It gives
  `CopiesStayAlike`: `GraphCopyAgrees`, `CopiesPartByCrashes`: `OnlyCrashesPartCopies`,
  `AccessesAreCounted`: `RetrievalCounts`, and `OnlyRollbacksRevive`: `OnlyRollbackRevives`.
- `MergeInv`, under `NewestOnly`, for `MergedStayArchived` (`MergedAreArchived`)
  and `MergesLeaveASurvivor` (`MergeChainsEnd`). A rollback may revive
  an atom only where it removes the edge too, and that it does follows from
  the diffs being a stack: each run found the edges its predecessor left
  (`DiffsAreStacked`) and changed no atom merged before it (`SparesMerged`); what
  it linked is in its diff (`EdgesAreAccountedFor`); no write queued reaches a merged
  atom before its edge is gone (`WritesSpareMerged`). Chains end because what is
  merged is archived and a merge joins two active memories.
- `PassInv`, of every process: a pass has read what is active
  (`ReadWhatIsActive`), and a pair that could still be merged, or conflicts and is not
  linked, has still to be examined (`MergesAreExamined`, `ConflictsAreExamined`).
  It gives `DeduplicationIsComplete`: `DeduplicationComplete`, whose loop skips
  pairs because of merges made meanwhile, and `RepairIsComplete`: `RepairComplete`.

In `Rollback_proofs`, under `Tame`. What a call is about to do is stated about
where its queue leads: `Outcomes`, the records that result once `todo`
is applied, and `DueEdges`.

- `RecordedInv`: a run comes to what its list of changes makes of the stores it
  found (`Made`), every diff to what the next one found, and a rollback to what the
  run undone had found (`Kept`; `RunsAreRecorded`, `DiffsAreRecorded`). Several
  changes of one memory in one run are undone in reverse, so only its first
  `before` counts (`FirstChange`). The vector index follows (`IndexFollows`):
  `IndexIsActive`, of `IndexMatchesActive`.
- `BooksInv`: edges of contradictions and of merges of atoms are linked by one
  run only (`LinksAreNew`); every state that is due, or that a call or a diff
  found, is in the books (`LedgersHold`): records of merges agree, and trust is
  what the contradictions leave, exactly if there was no crash (`Sound`), at most
  if there was (`Ledger`). `RepairTrust` is why the second penalty of a memory in
  one repair is taken from the trust that the first has left. Between two writes
  the bound holds because trust is written before the edge and put back after it
  (`QueueIsBounded`, `ChangesAreModest`, `TrustIsBounded`). It gives
  `MergeRecordsStayTogether`: `MergeRecordsAgree`, and `TrustIsAccountedFor`:
  `TrustLedger`.
- `RollbacksUndoRuns`: a rollback that returns has left each atom as the run
  undone had found it, but for accesses and ingestions since, and the edges of
  contradictions and merges of atoms as they were: the part of
  `RollbackRestores` that holds whatever happens to summaries.

In `DreamService_proofs`:

- That a runner with a scheduler is a process of `Dreaming` holds by the way
  `DreamService` is written, and is a lemma here (`RunnerIsAProcess`).
  `SchedulingIsSafe` carries `NoDanglingEdges` and
  `SupersessionForward` over to scheduled dreaming, `SchedulingKeepsBooks` those
  of `Merging_proofs` and `Rollback_proofs` about merges, trust and the index.
- `ServiceTypeCorrect`: `ServiceTypeOK`.
- `ScheduleStartsNoRepair`: `RepairsFollowRepairs`, from `RepairNeverPlanned`: in a
  call that found no `contradicts` edge no plan lists a repair and none is live or
  queued. It needs `RecordInv`, for the types of what is queued and for nothing being
  queued when a call begins.
- `CadenceIsKept`: `CadenceHolds`. The plan is made before the runs it lists and
  not asked again; `PlanIsDue` says that what is left of it stays due, since a call
  records only what it runs, takes that off its plan, and nothing else records
  meanwhile.
- `PendingCallsMerge`: `PendingMerges`. A call that began with deduplication
  due has it planned, is at it, or has left nothing to merge
  (`MergesAreSeenTo`): when it ends, by `DeduplicationIsComplete`; when
  it was passed over, because nothing could be examined; and what the plan
  runs behind it makes no atom active (`NothingNewToMerge`).

In `Subjects_proofs`:

- `SubjectsStayIsolated`: `SubjectsAreIsolated`. What a place holds is not
  inductive, for a call may write what it has read before. `HeldIsOwned` adds that
  what a call holds is its subject's, or was read from a store that is everyone's
  and is going back there (`op # "ingest"`); and `TypeInv` that the steps a call
  has left are those of its kind, so that nothing read by a rewriting call is
  indexed by an ingesting one. A memory is given its subject in the step that
  makes it; that no store held it before follows because every place that is not
  everyone's names a subject (`PlacesNameSubjects`), and `Nobody` is none. All
  steps but three add nothing to a place or to what is held (`NothingAdded`).

Also in `Subjects_proofs`, from `RegistryInv`, which is `DataInv` and what the file is
while it is rewritten: whoever empties it writes it next (`WritesFollow`), so a lone
server's file is torn only while that server is about to write it (`TornBriefly`):

- `RegistryIsTyped`: `TypeOK`, with `BundlesAreKnown`.
- `DataStaysIndexed`: `DataIsIndexed`. A file with data is kept track of
  (`FilesAreKept`) by a server that knows its subject and whose deletion, if it is
  in one, has not come past that file; `InDeletion` ties the steps left of a deletion
  to its progress. With one server a known subject is listed or about to be, or the
  file is torn (`KnownAreListed`).
- `DeletionStaysClean`: `DeletionIsClean`. No place of the host, and no
  ingestion, holds what was deleted (`DeletedAreGone`), but for the graph stores that
  a dream fills again from a remote memory store (`Revives`); and the files of a bundle
  stay open and have their tables until it is deleted (`BundlesAreOpen`).

In `RemoteVectors_proofs`, from `VectorInv`:

- `IndexIsTyped`: `TypeOK`; `HitsStayVouchedFor`: `HitsAreVouchedFor`;
  `OwnWritesStayFound`: `OwnWritesAreFound`. The invariant says what a process was
  the last to write it, or the service, still has (`WritesAreKept`); the two
  properties are about the step that searches, and follow from what each way of
  searching does to its matches: sort, cut, merge with the cache, drop tombstones.
  `OwnWritesAreFound` asks for a limit with room for every match
  (`answer.limit >= Cardinality(Matching(...))`): in a service that keeps an id's
  earlier row, there are more of those than ids.
- `VectorsRefineIndex`: `Spec => RefinesIndex`, the refinement of `VectorIndex`.
  With one owner, no refused write and searches that reach the service, rows, cache and tombstones agree
  (`ServicesAgree`), so a write is a write of the abstract index, and the sorted
  matches, cut, are best (`Mirrors`, `Covers`, `IsRanking`): ordering by `Before`
  is shown to be a total order whose places can be counted, for the sort in the
  model is by rank.

In `Startup_proofs`, from `StartupInv`, one invariant for each part of a process; a
step of one part leaves the others:

- `StartupIsTyped`: `TypeOK`. One provider has a role and a name because a provider
  that `Clashes` with one that is there, or with one before it in the same call, is
  not registered (`RegisterAllGrows`, `EntryPointsGrow`).
- `BuiltinsStayComplete`: `BuiltinsAreComplete`. `IsComplete` says that all of
  cellin's providers are registered, or none, or that another provider has the name of
  one. It survives an application or an installation because what those register is
  never cellin's own (`ProvidersAreThirdParty`), and cellin's table because
  the table does not clash with itself: a refusal names a third party. In a
  process that starts with `initialize_storage_backends` the registry is empty
  then, so all of the table goes in.
- `SoundWorkspacesBuild`: `WorkspacesBuild`, by the four shapes of a section:
  no storage at all, no section, a section without a name, a name
  (`SoundSectionsOpen`). The first three come to a backend of cellin's, so the proof
  needs `BuiltinsStayComplete`; the last one needs the name to be registered, for
  sqlite as for any other.
- `PluginsStayReachable`: `PluginsAreStopped`, from `PluginInv`, which adds that the
  trace sink never raises: `plugin list` registers it before the third parties', so
  only one of those can make the command leave plugins running.
- `FeaturesStayAsStated`: `FeaturesAreAsStated`, from `FeatureInv`: the registry
  committed is valid and what a process resolved it resolved from that. `MergedNames`
  says that overrides of two sources that are each sound merge into sound
  ones, `NextCodeIsNew` that a new flag has a code no other has, `FlagIsOfItsCode`
  that a code finds its flag.

In `Library_proofs`, from `LibraryInv`:

- `LibraryInvHolds`: the invariant is inductive, with `ReadInv` for retrieval. Its parts are the types of the
  tables (`TablesInv`), of the calls (`CallsInv`) and of the queue (`TodoInv`), and
  the three parts below, each about the tables and what is left of the queue at
  once. What an ingestion queues for a batch is found by going through
  `PersistMemories`, `IndexMemories` and `PersistEdges` (`BatchIsWritten`); that a
  command taken off the queue leaves the rest as the invariant says is shown once for
  all commands (`NamesCarryOver`, `LinksCarryOver`, `DeliveryCarriesOver`), so that
  an action has to show only what its own command does.
- `LibraryIsTyped`: `TypeOK`.
- `TracesStayFounded`: `TracesLeadToMemories`, from `TracesInv`: the puts come first
  in the queue (`PutsFirst`), and a node, an index entry or an edge is queued only of
  a memory that is stored or still to be put (`SpeaksOfNamed`). So the queue can be
  cut anywhere.
- `GraphReadsStayAgreed`: `GraphReadsAgree`, from `TablesInv`, in which a row says of
  its edge what the edge says because an id spells out the ends, and `LinksInv`: in
  Redis the three commands of an edge follow each other (`Follows`), and an edge is
  linked at both ends, or cut, or the one whose links are being written.
- `ReturnedStaysStored`: `ReturnedIsStored`, from `DeliveryInv`: each record and edge
  of the batch is in the tables, and no command left would replace it, or the last
  command left for it writes it (`Arrives`, `Due`, `Past`). An id that a batch has
  twice is why "last" is needed; a memory that a retrieval wrote back meanwhile is
  excepted, as in the property.
- `RetrievalStaysSound`: `RetrievalIsSound`, an action property, from `ReadInv`: what
  a retrieval has read was active when it was read, and of a memory that the writer
  wrote nothing of since it is what the stores hold now. That needs no look at what is
  read later: each command of the writer spares what it does not speak of (`Spares`),
  the edges too, since a row is found under the ends its id spells out
  (`EdgesSpareOthers`). The order by overlap and place is total, so each memory listed
  has one place (`RankedIsSorted`); a list cut short loses its end only, so a memory left
  out comes after all that are in (`AssembledKeepsTheBest`); seeds were listed
  (`SeedsAreListed`) and what is near is the other end of an edge of a seed; and the
  loop over the budget keeps each of its values within it (`FitKeepsToBudget`).
  Nothing is assumed of what the vector store finds or how the weights rank.

The provers know nothing of a recursive function but its definition by `CHOOSE`;
`Recursion` constructs a function that satisfies it and stays in a given set, by the
least number where a construction up to n would fail (`UpTo`).

Model-checked only:

- `CallsReturn`: liveness, out of the provers' reach.
- `RollbackRestores`: it has no invariant, since it fails for a summary made again
  in its own second; its part about atoms is `RollbacksUndoRuns`.

## Not modelled

- Evaluation suites: they compute scores over fixed seed data, call the
  components above in order and keep nothing that outlives a case.
- Release and coverage scripts: one pass over text files.
- Of the CLI: argument parsing, output, trace files, and the type checks of
  `cellin.json`; of the adapters: what they extract from a payload; of ranking:
  the weighted formula; of every backend: connection strings, payload and row
  formats. They are pure functions of text and numbers.
- Two dream runs at the same time on one store: nothing in the code guards
  against them and no document promises anything about them. A retrieval beside
  a writer is in `Library`.
- The second boost of a chain of contradictions (`strategies.py:464`) and the
  graph distance that a retrieval leaves in a record for the next query
  (`candidate_generation.py:24`): the models have both effects, but no document
  says what would be right.

## What is left

Every safety property that a passing run checks is a theorem, but `RollbackRestores`.
Of that one the part about summaries is open: it would need ids of summaries that no
second run can repeat, which the code does not give, or a property that says what a
rollback owes a summary made twice in its second. Beyond the present scope are two
dream runs at once on one store, and the evaluation suites.
