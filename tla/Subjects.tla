------------------------------ MODULE Subjects ------------------------------
(***************************************************************************)
(* The MCP servers of one data directory (cellin.mcp): each keeps a        *)
(* SubjectRegistry that routes a subject to stores of its own and          *)
(* remembers the subjects in subjects.json.  A server handles one tool     *)
(* call at a time; servers on one directory interleave, and one may stop   *)
(* between any two steps and be started again.                             *)
(*                                                                         *)
(* A role's store is a place: a file of the subject, a part of a remote    *)
(* service, or the memory of a server.  Of a place only the memories it    *)
(* holds are kept; what the calls compute from them is the subject of the  *)
(* other modules.  A representation store is routed like the vector store. *)
(***************************************************************************)
EXTENDS Integers, Sequences, FiniteSets

CONSTANTS Subjects, Servers, Nobody,
          Deployments,  \* the backends of memory, graph and vector under study
          MaxMemories,  \* bound: memories ingested
          MaxCalls,     \* bound: tool calls
          MaxStops      \* bound: servers stopped

Roles == {"memory", "graph", "vector"}
Files == {"sqlite", "sqlite_vec", "duckdb"}
Ephemeral == {"in_memory", "in_memory_vector_index"}
PerSubject == {"mongodb", "pinecone", "milvus", "qdrant", "redis_vector", "weaviate"}
Shared == {"postgresql", "mysql", "redis", "neo4j", "pgvector"}

ASSUME DeploymentsAreRoutable ==
    Deployments \subseteq [Roles -> Files \cup Ephemeral \cup PerSubject \cup Shared]
ASSUME NobodyIsNoSubject == Nobody \notin Subjects
ASSUME ServersAreFinite == IsFiniteSet(Servers)
ASSUME BoundsAreNatural == MaxCalls \in Nat /\ MaxStops \in Nat

VARIABLES deployment, live,
          index,    \* subjects.json: the subjects listed, or {Nobody} while torn
          up,       \* the servers that run
          known,    \* of a server: _known_subject_ids
          bundles,  \* of a server: the subjects that have a bundle
          opened,   \* of a server: the files with a cached backend (_BACKENDS)
          tables,   \* of a file: "none", "blank" (no tables) or "ready"
          content,  \* of a place: the memories in it
          task,     \* of a server: the call it is in
          owner,    \* of a memory: its subject, or Nobody before it is made
          doomed,   \* memories of subjects that were deleted
          calls, stops

vars == <<deployment, live, index, up, known, bundles, opened, tables, content, task,
          owner, doomed, calls, stops>>
config == <<deployment, live>>
registry == <<known, bundles, opened>>
storage == <<tables, content>>
bounds == <<calls, stops>>

Torn == {Nobody}
Memories == 1..MaxMemories
Idle == [op |-> "none", subject |-> Nobody, todo |-> <<>>, held |-> {}]

Backends(memory, graph, vector) ==
    [role \in Roles |-> CASE role = "memory" -> memory [] role = "graph" -> graph
                          [] OTHER -> vector]

\* storage_config_from_env, for every backend CELLIN_BACKEND may name
StorageConfigFromEnv(backend) ==
    LET relational == IF backend = "neo4j" THEN "sqlite" ELSE backend
    IN Backends(relational, backend, "in_memory_vector_index")

-----------------------------------------------------------------------------
\* Fault: a service is not told which subject it serves.
RouteBackendUnscoped(role, v, s) ==
    LET backend == deployment[role]
    IN CASE backend \in Files ->
              <<"file", IF backend = "duckdb" THEN "duckdb" ELSE "db", s>>
         [] backend \in Ephemeral -> <<"process", role, s, v>>
         [] OTHER -> <<"remote", backend, Nobody>>

\* _route_backend, and what a store is then connected to.
RouteBackend(role, v, s) ==
    LET backend == deployment[role]
    IN CASE backend \in Files ->
              <<"file", IF backend = "duckdb" THEN "duckdb" ELSE "db", s>>
         [] backend \in Ephemeral -> <<"process", role, s, v>>
         [] backend \in PerSubject -> <<"remote", backend, s>>
         [] OTHER -> <<"remote", backend, Nobody>>

PlacesOf(v, s) == {RouteBackend(role, v, s) : role \in Roles}
Places == UNION {PlacesOf(v, s) : v \in Servers, s \in Subjects}
IsFile(place) == place[1] = "file"
AllFiles == {f \in Places : IsFile(f)}

\* _subject_local_paths, sorted: the .db before the .duckdb
LocalPaths(s) ==
    LET Used(f) == IF f \in Places THEN <<f>> ELSE <<>>
    IN Used(<<"file", "db", s>>) \o Used(<<"file", "duckdb", s>>)

UsesOnlyEphemeral == \A role \in Roles : deployment[role] \in Ephemeral

\* shares_memory_store: one cached backend behind both stores
GraphSharesMemory == RouteBackend("graph", Nobody, Nobody) = RouteBackend("memory", Nobody, Nobody)

\* The graph stores that are kept beside the memory store.
GraphCopies ==
    IF GraphSharesMemory THEN {}
    ELSE {RouteBackend("graph", v, s) : v \in Servers, s \in Subjects}

-----------------------------------------------------------------------------
\* _persist_known_subject_ids: write_text opens subjects.json for writing, which
\* empties it, and writes.
Persist == <<"truncate", "write">>

\* The steps of a call after its bundle is there.
Steps(op, s) ==
    CASE op = "ingest" -> IF GraphSharesMemory THEN <<"memory", "vector">>
                          ELSE <<"memory", "graph", "vector">>
      [] op = "list" -> <<"read">>
      [] op = "rewrite" -> <<"read", "rewrite">>
      [] op = "dream" -> IF GraphSharesMemory THEN <<"read", "rewrite">>
                         ELSE <<"read", "rewrite", "copy">>
      [] op = "delete" -> [i \in 1..Len(LocalPaths(s)) |-> "unlink"] \o <<"forget">> \o Persist

Goto(v, todo) == task' = [task EXCEPT ![v].todo = todo]
Proceed(v) == IF Len(task[v].todo) = 1 THEN task' = [task EXCEPT ![v] = Idle]
              ELSE Goto(v, Tail(task[v].todo))
At(v, step) == v \in up /\ task[v].todo # <<>> /\ Head(task[v].todo) = step

Begins(v) ==
    /\ v \in up
    /\ task[v] = Idle
    /\ calls < MaxCalls
    /\ calls' = calls + 1

\* build_storage_bundle: a backend that is not cached creates its tables, an
\* in-memory store is a new one.
BuildBundle(v, s) ==
    LET new == {f \in PlacesOf(v, s) : IsFile(f)} \ opened[v]
    IN  /\ bundles' = [bundles EXCEPT ![v] = @ \cup {s}]
        /\ opened' = [opened EXCEPT ![v] = @ \cup new]
        /\ tables' = [f \in AllFiles |-> IF f \in new THEN "ready" ELSE tables[f]]
        /\ content' = [p \in Places |-> IF p \in PlacesOf(v, s) /\ p[1] = "process"
                                         THEN {} ELSE content[p]]

\* Fault: a new subject is written down after the call's own work.
WithNewSubjectLast(v, op, s) == Steps(op, s) \o (IF s \in known[v] THEN <<>> ELSE Persist)
\* A subject that is new to the server is written down first.
WithNewSubject(v, op, s) == (IF s \in known[v] THEN <<>> ELSE Persist) \o Steps(op, s)

\* get_or_create, which every tool starts with.
GetOrCreate(v, op, s) ==
    /\ Begins(v)
    /\ IF s \in bundles[v] THEN UNCHANGED <<bundles, opened, storage>>
       ELSE BuildBundle(v, s)
    /\ known' = [known EXCEPT ![v] = @ \cup {s}]
    /\ task' = [task EXCEPT ![v] =
                  [op |-> op, subject |-> s, held |-> {},
                   todo |-> WithNewSubject(v, op, s)]]
    /\ UNCHANGED <<config, index, up, owner, doomed, stops>>

\* Fault: a deleted subject's bundle is used again.
KeepBundle(v, s) == UNCHANGED <<bundles, content>>

\* A bundle's in-memory stores go with it.
PopBundle(v, s) ==
    /\ bundles' = [bundles EXCEPT ![v] = @ \ {s}]
    /\ content' = [p \in Places |-> IF p \in PlacesOf(v, s) /\ p[1] = "process"
                                     THEN {} ELSE content[p]]

\* delete_subject: nothing for an unknown subject but the loss of its bundle;
\* refused, with nothing changed, if no local file and no memory is to go.
DeleteSubject(v, s) ==
    /\ Begins(v)
    /\ IF s \notin known[v]
       THEN PopBundle(v, s) /\ UNCHANGED task
       ELSE /\ UNCHANGED <<bundles, content>>
            /\ IF LocalPaths(s) = <<>> /\ ~UsesOnlyEphemeral THEN UNCHANGED task
               ELSE task' = [task EXCEPT ![v] = [op |-> "delete", subject |-> s,
                                                  held |-> {}, todo |-> Steps("delete", s)]]
    /\ UNCHANGED <<config, index, up, known, opened, tables, owner, doomed, stops>>

-----------------------------------------------------------------------------
Truncate(v) ==
    /\ At(v, "truncate")
    /\ index' = Torn
    /\ Proceed(v)
    /\ UNCHANGED <<config, up, registry, storage, owner, doomed, bounds>>

Write(v) ==
    /\ At(v, "write")
    /\ index' = known[v]
    /\ Proceed(v)
    /\ UNCHANGED <<config, up, registry, storage, owner, doomed, bounds>>

\* A connection to a file that is gone creates it, without the tables: the
\* statement fails and the call raises.
Fails(place) == IsFile(place) /\ tables[place] # "ready"

Raise(v, place) ==
    /\ tables' = [tables EXCEPT ![place] = "blank"]
    /\ task' = [task EXCEPT ![v] = Idle]
    /\ UNCHANGED content

Put(v, place, memories) ==
    IF Fails(place) THEN Raise(v, place)
    ELSE /\ content' = [content EXCEPT ![place] = @ \cup memories]
         /\ Proceed(v)
         /\ UNCHANGED tables

\* ingest_memory, store after store; the memory's id is a new one.
IngestMemory(v) ==
    LET s == task[v].subject
        place == RouteBackend("memory", v, s)
    IN  /\ At(v, "memory")
        /\ \E m \in Memories :
              /\ owner[m] = Nobody
              /\ \A k \in Memories : k < m => owner[k] # Nobody
              /\ owner' = [owner EXCEPT ![m] = s]
              /\ IF Fails(place) THEN Raise(v, place)
                 ELSE /\ content' = [content EXCEPT ![place] = @ \cup {m}]
                      /\ task' = [task EXCEPT ![v].todo = Tail(@), ![v].held = {m}]
                      /\ UNCHANGED tables
        /\ UNCHANGED <<config, index, up, registry, doomed, bounds>>

IngestCopy(v, role) ==
    /\ At(v, role)
    /\ role # "memory"
    /\ Put(v, RouteBackend(role, v, task[v].subject), task[v].held)
    /\ UNCHANGED <<config, index, up, registry, owner, doomed, bounds>>

\* Retrieval and dreaming read memories, and write some of what they read back,
\* whole, with a later access or another trust; listing (one subject, or each
\* known subject in turn, list_subjects) and inspecting only read.
ReadMemories(v) ==
    LET place == RouteBackend("memory", v, task[v].subject)
    IN  /\ At(v, "read")
        /\ IF Fails(place) THEN Raise(v, place)
           ELSE /\ \E some \in SUBSET content[place] :
                      task' = IF some = {} \/ Len(task[v].todo) = 1
                              THEN [task EXCEPT ![v] = Idle]
                              ELSE [task EXCEPT ![v].todo = Tail(@), ![v].held = some]
                /\ UNCHANGED storage
        /\ UNCHANGED <<config, index, up, registry, owner, doomed, bounds>>

Rewrite(v) ==
    /\ At(v, "rewrite")
    /\ Put(v, RouteBackend("memory", v, task[v].subject), task[v].held)
    /\ UNCHANGED <<config, index, up, registry, owner, doomed, bounds>>

\* A graph store of its own gets what dreaming changed as well.  Of the vectors
\* dreaming only deletes, which is left out, and the summaries it makes are
\* memories like those that are ingested.
UpsertMemory(v) ==
    /\ At(v, "copy")
    /\ Put(v, RouteBackend("graph", v, task[v].subject), task[v].held)
    /\ UNCHANGED <<config, index, up, registry, owner, doomed, bounds>>

\* delete_subject, file after file, its cached backend first ...
ClearLocalBackendCaches(v, f) == opened' = [opened EXCEPT ![v] = @ \ {f}]

Unlink(v) ==
    LET s == task[v].subject
        paths == LocalPaths(s)
        f == paths[Len(paths) + 4 - Len(task[v].todo)]
    IN  /\ At(v, "unlink")
        /\ ClearLocalBackendCaches(v, f)
        /\ tables' = [tables EXCEPT ![f] = "none"]
        /\ content' = [content EXCEPT ![f] = {}]
        /\ Proceed(v)
        /\ UNCHANGED <<config, index, up, known, bundles, owner, doomed, bounds>>

\* ... and the bundle and the subject's name after them.
Forget(v) ==
    LET s == task[v].subject
    IN  /\ At(v, "forget")
        /\ PopBundle(v, s)
        /\ known' = [known EXCEPT ![v] = @ \ {s}]
        /\ doomed' = doomed \cup {m \in Memories : owner[m] = s}
        /\ Proceed(v)
        /\ UNCHANGED <<config, index, up, opened, tables, owner, bounds>>

-----------------------------------------------------------------------------
Stop(v) ==
    /\ v \in up
    /\ stops < MaxStops
    /\ stops' = stops + 1
    /\ up' = up \ {v}
    /\ known' = [known EXCEPT ![v] = {}]
    /\ bundles' = [bundles EXCEPT ![v] = {}]
    /\ opened' = [opened EXCEPT ![v] = {}]
    /\ content' = [p \in Places |-> IF p[1] = "process" /\ p[4] = v THEN {}
                                     ELSE content[p]]
    /\ task' = [task EXCEPT ![v] = Idle]
    /\ UNCHANGED <<config, index, tables, owner, doomed, calls>>

\* _load_known_subject_ids raises, and the server does not start, on a torn file.
Start(v) ==
    /\ v \in live \ up
    /\ index # Torn
    /\ up' = up \cup {v}
    /\ known' = [known EXCEPT ![v] = index]
    /\ UNCHANGED <<config, index, bundles, opened, storage, task, owner, doomed, bounds>>

Init ==
    /\ deployment \in Deployments
    /\ live \in (SUBSET Servers) \ {{}}
    /\ index = {}
    /\ up = live
    /\ known = [v \in Servers |-> {}]
    /\ bundles = [v \in Servers |-> {}]
    /\ opened = [v \in Servers |-> {}]
    /\ tables = [f \in AllFiles |-> "none"]
    /\ content = [p \in Places |-> {}]
    /\ task = [v \in Servers |-> Idle]
    /\ owner = [m \in Memories |-> Nobody]
    /\ doomed = {}
    /\ calls = 0
    /\ stops = 0

Next ==
    \E v \in Servers :
        \/ \E s \in Subjects : \/ GetOrCreate(v, "ingest", s)
                               \/ GetOrCreate(v, "rewrite", s)
                               \/ GetOrCreate(v, "dream", s)
                               \/ GetOrCreate(v, "list", s)
                               \/ DeleteSubject(v, s)
        \/ Truncate(v) \/ Write(v)
        \/ IngestMemory(v) \/ IngestCopy(v, "graph") \/ IngestCopy(v, "vector")
        \/ ReadMemories(v) \/ Rewrite(v) \/ UpsertMemory(v)
        \/ Unlink(v) \/ Forget(v)
        \/ Stop(v) \/ Start(v)

Spec == Init /\ [][Next]_vars

-----------------------------------------------------------------------------
TypeOK ==
    /\ deployment \in Deployments /\ up \subseteq live /\ live \subseteq Servers
    /\ index \in (SUBSET Subjects) \cup {Torn}
    /\ known \in [Servers -> SUBSET Subjects]
    /\ \A v \in Servers : bundles[v] \subseteq known[v]
    /\ opened \in [Servers -> SUBSET AllFiles]
    /\ tables \in [AllFiles -> {"none", "blank", "ready"}]
    /\ content \in [Places -> SUBSET Memories]
    /\ owner \in [Memories -> Subjects \cup {Nobody}]
    /\ \A v \in Servers : task[v] # Idle => v \in up /\ task[v].todo # <<>>
    /\ doomed \subseteq Memories
    /\ calls \in 0..MaxCalls /\ stops \in 0..MaxStops

\* A subject's stores hold only its memories, and only ones that were ingested
\* for it: whatever servers come and go, delete the subject and make it again.
\* The exception is a service _route_backend leaves as it is: its memories are
\* everyone's, and dreaming copies everyone's to a graph store beside it.
SubjectsAreIsolated ==
    \A v \in Servers, s \in Subjects : \A place \in PlacesOf(v, s) :
        \A m \in content[place] :
            \/ owner[m] = s
            \/ place[2] \in Shared
            \/ deployment["memory"] \in Shared /\ place \in GraphCopies

OnlyServer == Cardinality(live) = 1

\* Whether a subject's data is on this host.
HasData(s) == \E f \in AllFiles : f[3] = s /\ content[f] # {}

\* Data on disk can be found again.  A server that is alone on its directory knows
\* every subject that has any, after crashes and deletions that were cut short, and
\* subjects.json lists it but for the moment in which the file is rewritten.  (A
\* server stopped in this moment leaves a torn file for good: none starts on it.)
\* Of several servers the last to write the file wins, so that all that is promised
\* is that one of them knows the subject until any stops.
DataIsIndexed ==
    \A s \in Subjects : HasData(s) =>
        /\ OnlyServer =>
              /\ \A v \in up : s \in known[v]
              /\ s \in index \/ (index = Torn /\ \A v \in up : At(v, "write"))
        /\ stops = 0 => \E v \in up : s \in known[v]

\* After delete_subject no memory of the subject is left on the host: not in a
\* file, not in a bundle that is used again.  What is left is remote, and what a
\* dream copies from a remote memory store to a graph store on the host, when the
\* subject is made again.
DeletionIsLocal ==
    OnlyServer =>
        \A place \in Places : \A m \in content[place] \cap doomed :
            \/ place[1] = "remote"
            \/ deployment["memory"] \in PerSubject \cup Shared /\ place \in GraphCopies

\* No call of the only server meets a file that has lost its tables: a backend
\* cached before the file was deleted is never used after.
FilesHaveTables ==
    OnlyServer => \A f \in AllFiles : tables[f] # "blank"

\* With one server, a subject can be deleted and made again as if it had never been.
DeletionIsClean == DeletionIsLocal /\ FilesHaveTables
=============================================================================
