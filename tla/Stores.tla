------------------------------- MODULE Stores -------------------------------
(***************************************************************************)
(* The memory and graph stores of cellin.stores that are not in-process:   *)
(* what each backend keeps and the single commands by which it is changed. *)
(* A command is what the backend makes atomic: a transaction of            *)
(* PostgreSQL, a row of MySQL (autocommit) or of DuckDB (executemany), a   *)
(* document of MongoDB, one Redis command, one Cypher query, one ArangoDB  *)
(* insert.                                                                 *)
(*                                                                         *)
(* The databases are external and assumed to do what they are asked.       *)
(***************************************************************************)
EXTENDS Integers, Sequences, FiniteSets

CONSTANTS
    Ids,           \* memory ids, ordered as the stores list them
    Texts,         \* texts, each the set of its tokens
    Absent,        \* Python's None
    Placeholder,   \* a graph node that no memory was written to
    Deployments    \* the configurations of stores under study

VARIABLES
    deployment,    \* the stores in use
    memories,      \* the records of the memory store
    nodes,         \* the records of a graph store that keeps its own
    edges,         \* rows, documents or relationships of edges
    links,         \* Redis: the sets edge-by-src and edge-by-tgt
    indexes        \* of the vector and the representation store: their texts

stores == <<memories, nodes, edges, links, indexes>>

Transactional == {"postgres"}
Relational == Transactional \cup {"duckdb", "mysql"}
MemoryKinds == Relational \cup {"mongodb", "redis"}
GraphKinds == MemoryKinds \cup {"cypher", "arangodb"}
IndexNames == <<"vector", "representation">>

DeploymentType ==
    [memory : MemoryKinds, graph : GraphKinds, represents : BOOLEAN, writesBack : BOOLEAN]

ASSUME DeploymentsAreKnown == Deployments \subseteq DeploymentType
ASSUME IdsAreOrdered == Ids \subseteq Int /\ IsFiniteSet(Ids)
ASSUME TextsAreFinite == \A t \in Texts : IsFiniteSet(t)

\* A memory: what ingestion sets, what dreaming and retrieval change, and the
\* graph_distance that retrieval leaves in its metadata.
Memory ==
    [id : Ids, text : Texts, archived : BOOLEAN, access : Nat, distance : {Absent, 0, 1}]

ASSUME MarksAreNoMemories == {Absent, Placeholder} \cap Memory = {}

EdgeKinds == {"supports", "about", "caused_by"}

\* Fault: of two edges out of one memory the ids may be the same.
EdgeIdOfSource(kind, source, target) == <<kind, source, source>>

\* _collision_free_edge_id
EdgeId(kind, source, target) == <<kind, source, target>>

EdgeIds == EdgeKinds \X Ids \X Ids

Edge(kind, source, target) ==
    [kind |-> kind, source |-> source, target |-> target, archived |-> FALSE]
EdgeType == [kind : EdgeKinds, source : Ids, target : Ids, archived : BOOLEAN]
IdOf(e) == EdgeId(e.kind, e.source, e.target)

\* A stored edge: its id, the ends the database knows of it, and its payload.
StoredEdge(e) == [id |-> IdOf(e), from |-> e.source, to |-> e.target, payload |-> e]

-----------------------------------------------------------------------------
(***************************************************************************)
(* Reading.                                                                *)
(***************************************************************************)
\* shares_memory_store: the two stores are one backend, which only the stores of
\* _store_utils can be.
SharesMemoryStore == deployment.graph = deployment.memory

GetMemory(m) == memories[m]

\* A placeholder has no payload.
LoadOptionalPayload(node) == IF node = Placeholder THEN Absent ELSE node

\* GraphStore.get_memory
GraphGetMemory(m) ==
    IF SharesMemoryStore THEN memories[m] ELSE LoadOptionalPayload(nodes[m])

IsActive(rec) == rec # Absent /\ ~rec.archived

\* list_edges
ListEdges == {row.payload : row \in {r \in edges : ~r.payload.archived}}

\* Redis looks an edge up under the ids its two sets hold, the others by the ends
\* they keep beside the payload.
IsNeighborRow(row, m) ==
    IF deployment.graph = "redis"
    THEN \E end \in {"source", "target"} : <<end, m, row.id>> \in links
    ELSE m \in {row.from, row.to}

Neighbors(m) ==
    {row.payload : row \in {r \in edges : IsNeighborRow(r, m) /\ ~r.payload.archived}}

-----------------------------------------------------------------------------
(***************************************************************************)
(* Commands.  Each is a record of the queue a call works off.              *)
(***************************************************************************)
PutMemories(recs)     == [op |-> "put", recs |-> recs]
UpsertNodes(recs)     == [op |-> "node", recs |-> recs]
EnsurePlaceholder(m)  == [op |-> "placeholder", id |-> m]
UpsertIndex(x, rec)   == [op |-> "index", index |-> x, id |-> rec.id, text |-> rec.text]
UpsertRows(es)        == [op |-> "edges", edges |-> es]
SetEdge(e)            == [op |-> "set", edge |-> e]
AddLink(end, e)       == [op |-> "link", end |-> end, edge |-> e]

\* The parts of a sequence of writes that the backend makes atomic: all of it for a
\* transaction, one by one where every row commits by itself.
Transactions(kind, items) ==
    IF kind \in Transactional /\ items # <<>> THEN <<items>>
    ELSE [i \in DOMAIN items |-> <<items[i]>>]

\* _ensure_memory_placeholder; MERGE of a node
WithPlaceholder(table, m) == [table EXCEPT ![m] = IF @ = Absent THEN Placeholder ELSE @]

\* Fault: the last payload of a batch is stored under every id of it.
WithLastRecord(table, recs) ==
    [m \in Ids |-> IF \E i \in DOMAIN recs : recs[i].id = m THEN recs[Len(recs)]
                   ELSE table[m]]

\* The table after recs were written to it in their order.
WithRecords(table, recs) ==
    [m \in Ids |->
        LET at == {i \in DOMAIN recs : recs[i].id = m}
        IN IF at = {} THEN table[m]
           ELSE recs[CHOOSE i \in at : \A j \in at : j <= i]]

\* The row of an edge that is there already: SQL changes its payload only, a Cypher
\* relationship is the same only between the same ends, the others replace it.
IsSameRow(row, e) ==
    /\ row.id = IdOf(e)
    /\ deployment.graph = "cypher" => row.from = e.source /\ row.to = e.target

Replacement(row, e) ==
    IF deployment.graph \in Relational THEN [row EXCEPT !.payload = e]
    ELSE StoredEdge(e)

WithEdge(rows, e) ==
    LET same == {r \in rows : IsSameRow(r, e)}
    IN (rows \ same) \cup
       (IF same = {} THEN {StoredEdge(e)} ELSE {Replacement(r, e) : r \in same})

\* The rows after es were written to them in their order.
WithEdges(rows, es) ==
    LET after[n \in 0..Len(es)] == IF n = 0 THEN rows ELSE WithEdge(after[n - 1], es[n])
    IN after[Len(es)]

\* The end of e that a set of Redis is kept for.
EndOf(end, e) == IF end = "source" THEN e.source ELSE e.target

\* SADD
Link(end, e) == <<end, EndOf(end, e), IdOf(e)>>

-----------------------------------------------------------------------------
StoresTypeOK ==
    /\ deployment \in Deployments
    /\ \A m \in Ids : memories[m] # Absent => memories[m] \in Memory /\ memories[m].id = m
    /\ \A m \in Ids : nodes[m] \notin {Absent, Placeholder} =>
                          nodes[m] \in Memory /\ nodes[m].id = m
    /\ \A row \in edges : row.id \in EdgeIds /\ {row.from, row.to} \subseteq Ids
                          /\ row.payload \in EdgeType
    /\ links \subseteq {"source", "target"} \X Ids \X EdgeIds
    /\ \A x \in DOMAIN indexes, m \in Ids : indexes[x][m] \in Texts \cup {Absent}
    /\ ~SharesMemoryStore \/ nodes = [m \in Ids |-> Absent]
    /\ deployment.graph = "redis" \/ links = {}

StoresInit ==
    /\ deployment \in Deployments
    /\ memories = [m \in Ids |-> Absent]
    /\ nodes = [m \in Ids |-> Absent]
    /\ edges = {}
    /\ links = {}
    /\ indexes = [x \in {"vector", "representation"} |-> [m \in Ids |-> Absent]]
=============================================================================
