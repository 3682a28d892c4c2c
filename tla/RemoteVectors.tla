--------------------------- MODULE RemoteVectors ---------------------------
(***************************************************************************)
(* The vector backends of cellin.stores: one collection of a remote        *)
(* service (or one SQL table) and the processes that use it.  Each process *)
(* keeps, for the five remote services, a cache of the vectors it indexed  *)
(* and tombstones of the ids it deleted (_RemoteVectorBackendBase); both   *)
(* are lost when it restarts, the collection is not.                       *)
(*                                                                         *)
(* The services are external.  What is assumed of them is what the code    *)
(* asks for: a query returns the rows that score best, ties in any order.  *)
(* Milvus and Weaviate are written to with insert, which may replace the   *)
(* id's row or leave it in place: both are explored (appends).  A Weaviate *)
(* client without `collections` is a backend of its own here: it is        *)
(* written to, and never asked.                                            *)
(***************************************************************************)
EXTENDS Integers, Sequences, SequencesExt

CONSTANTS Ids, Texts, Limits, Absent,
          Processes,     \* the processes of this host that may be started
          Kinds,         \* the backends under study
          MaxWrites,     \* bound: upserts and deletes of a behaviour
          MaxRestarts    \* bound: restarts of a behaviour

VARIABLES kind,        \* the backend in use
          live,        \* the processes that use the collection
          faulty,      \* whether the service may refuse a write
          appends,     \* whether an insert leaves the id's earlier rows
          stage,       \* of a process: "off", "missing" (looked up) or "ready"
          collection,  \* whether the collection exists
          rows,        \* of an id: the rows the service keeps, oldest first
          vectors,     \* of a process: _vectors, the text of an id or Absent
          tombstones,  \* of a process: _tombstones
          written,     \* of an id: the last write that succeeded, and by whom
          answer,      \* the last search since the last write or restart
          writes, restarts

vars == <<kind, live, faulty, appends, stage, collection, rows, vectors, tombstones,
          written, answer, writes, restarts>>
config == <<kind, live, faulty, appends>>
remote == <<collection, rows, written>>
local == <<vectors, tombstones>>
counts == <<writes, restarts>>

Sql == {"pgvector", "sqlite_vec"}
InMemory == {"in_memory_vector_index"}
\* A Weaviate client without `collections`.
Unqueried == {"weaviate_objects"}
Services == {"redis_vector", "milvus", "qdrant", "pinecone", "weaviate", "weaviate_objects"}
\* The searches that add the vectors the process has cached.
Merging == {"milvus", "qdrant", "pinecone", "weaviate", "weaviate_objects"} \cup InMemory

ASSUME IdsAreNaturals == Ids \subseteq Nat /\ Ids # {} /\ IsFiniteSet(Ids)
ASSUME AbsentIsNoText == Absent \notin Texts
ASSUME LimitsAreNaturals == Limits \subseteq Nat
ASSUME KindsAreKnown == Kinds \subseteq Sql \cup InMemory \cup Services
ASSUME ProcessesAreFinite == IsFiniteSet(Processes)
ASSUME BoundsAreNatural == MaxWrites \in Nat /\ MaxRestarts \in Nat

-----------------------------------------------------------------------------
\* The configurations in which the backend is one index for its callers: the
\* state is in the database, or one process owns the collection, no write is
\* refused and searches reach the service.
IsOneIndex ==
    \/ kind \in Sql
    \/ Cardinality(live) = 1 /\ ~faulty /\ ~appends /\ kind \notin Unqueried

\* The index a caller sees: the newest row of an id, unless it is archived.
Newest(m) ==
    IF rows[m] = <<>> \/ rows[m][Len(rows[m])].archived THEN Absent
    ELSE rows[m][Len(rows[m])].text

SeenIndex ==
    [m \in Ids |-> IF ~IsOneIndex THEN Absent
                   ELSE IF kind \in InMemory
                        THEN vectors[CHOOSE p \in live : TRUE][m]
                        ELSE Newest(m)]

SeenAnswer ==
    IF IsOneIndex
    THEN [query |-> answer.query, limit |-> answer.limit, hits |-> answer.hits,
          complete |-> answer.complete]
    ELSE [query |-> Absent, limit |-> 0, hits |-> <<>>, complete |-> TRUE]

Index == INSTANCE VectorIndex WITH index <- SeenIndex, answer <- SeenAnswer

\* A row: its vector, and whether it stands for a deleted id.
Row(text, archived) == [text |-> text, archived |-> archived]
Rows == [text : Texts \cup {Absent}, archived : BOOLEAN]

NoAnswer == [by |-> Absent, query |-> Absent, limit |-> 0, hits |-> <<>>,
             complete |-> TRUE]

-----------------------------------------------------------------------------
\* Matches: row tells two rows of one id apart, 0 is the process's own copy.
Match(id, row, query, text) ==
    [id |-> id, row |-> row, score |-> Index!Similarity(query, text)]

Before(a, b) ==
    \/ a.score > b.score
    \/ a.score = b.score /\ a.id < b.id
    \/ a.score = b.score /\ a.id = b.id /\ a.row < b.row

\* The match at a place of the sorted list: the one that so many come before.
AtPlace(matches, i) ==
    CHOOSE h \in matches : Cardinality({other \in matches : Before(other, h)}) = i - 1

AtMost(n, matches) == IF n < Cardinality(matches) THEN n ELSE Cardinality(matches)

\* Fault: the matches are not cut off at the limit.
OrderedUncut(matches, n) ==
    [i \in 1..Cardinality(matches) |-> AtPlace(matches, i).id]

\* sorted(matches, key=(-score, memory_id))[:limit]
Ordered(matches, n) == [i \in 1..AtMost(n, matches) |-> AtPlace(matches, i).id]

\* What the service may return for a query of the n best among matches.
Tops(matches, n) ==
    {top \in SUBSET matches :
        /\ Cardinality(top) = AtMost(n, matches)
        /\ \A h \in top, other \in matches \ top : h.score >= other.score}

IdsOf(matches) == {h.id : h \in matches}

Stored(query) ==
    UNION {{Match(m, i, query, rows[m][i].text) : i \in DOMAIN rows[m]} : m \in Ids}

IsArchived(h) == rows[h.id][h.row].archived
Active(query) == {h \in Stored(query) : ~IsArchived(h)}
\* Fault: a search does not look at the tombstones.
WithDeleted(p, matches) == matches

NotDeleted(p, matches) == {h \in matches : h.id \notin tombstones[p]}

\* _local_matches
LocalMatches(p, query) ==
    NotDeleted(p, {Match(m, 0, query, vectors[p][m]) :
                      m \in {i \in Ids : vectors[p][i] # Absent}})

\* Fault: an id that was found is added again.
WithAllLocal(p, query, matches) == matches \cup LocalMatches(p, query)

WithLocal(p, query, matches) ==
    matches \cup {h \in LocalMatches(p, query) : h.id \notin IdsOf(matches)}

-----------------------------------------------------------------------------
\* Connecting: the collection is created when it is not there.
Opened(p) == stage' = [stage EXCEPT ![p] = "ready"]
Connecting(p, kinds) == p \in live /\ stage[p] = "off" /\ kind \in kinds
OnlyConnects == UNCHANGED <<config, rows, written, local, answer, counts>>

InMemoryConnect(p) ==
    Connecting(p, InMemory) /\ Opened(p) /\ UNCHANGED collection /\ OnlyConnects

\* SET NX of the collection's marker
RedisConnect(p) ==
    Connecting(p, {"redis_vector"}) /\ Opened(p) /\ collection' = TRUE /\ OnlyConnects

\* CREATE TABLE IF NOT EXISTS
PgConnect(p) ==
    Connecting(p, {"pgvector"}) /\ Opened(p) /\ collection' = TRUE /\ OnlyConnects

SqliteConnect(p) ==
    Connecting(p, {"sqlite_vec"}) /\ Opened(p) /\ collection' = TRUE /\ OnlyConnects

\* The other services are asked for their collections first ...
LookUp(p) ==
    /\ stage' = [stage EXCEPT ![p] = IF collection THEN "ready" ELSE "missing"]
    /\ UNCHANGED collection
    /\ OnlyConnects

\* ... and told to create this one in a second request.
MustCreate(p, k) == kind = k /\ stage[p] = "missing"

\* The request fails, and with it the constructor, if another process has
\* created the collection in between.
CreateOrFail(p) ==
    /\ stage' = [stage EXCEPT ![p] = IF collection THEN "off" ELSE "ready"]
    /\ collection' = TRUE
    /\ OnlyConnects

QdrantConnect(p) ==
    \/ Connecting(p, {"qdrant"}) /\ LookUp(p)
    \/ MustCreate(p, "qdrant") /\ CreateOrFail(p)

PineconeConnect(p) ==
    \/ Connecting(p, {"pinecone"}) /\ LookUp(p)
    \/ MustCreate(p, "pinecone") /\ CreateOrFail(p)

WeaviateConnect(p) ==
    \/ Connecting(p, {"weaviate"}) /\ LookUp(p)
    \/ MustCreate(p, "weaviate") /\ CreateOrFail(p)

\* schema.get and create_class; a client without a schema creates nothing.
WeaviateObjectsConnect(p) ==
    \/ Connecting(p, Unqueried) /\ LookUp(p)
    \/ Connecting(p, Unqueried) /\ Opened(p) /\ UNCHANGED collection /\ OnlyConnects
    \/ MustCreate(p, "weaviate_objects") /\ CreateOrFail(p)

\* Collection(name, schema) opens a collection that exists.
MilvusConnect(p) ==
    \/ Connecting(p, {"milvus"}) /\ LookUp(p)
    \/ MustCreate(p, "milvus") /\ Opened(p) /\ collection' = TRUE /\ OnlyConnects

Connect(p) ==
    \/ InMemoryConnect(p) \/ RedisConnect(p) \/ PgConnect(p) \/ SqliteConnect(p)
    \/ QdrantConnect(p) \/ PineconeConnect(p) \/ WeaviateConnect(p) \/ MilvusConnect(p)
    \/ WeaviateObjectsConnect(p)

-----------------------------------------------------------------------------
\* Writes.  A call that raises has done what precedes the failing request.
Ready(p, kinds) == p \in live /\ stage[p] = "ready" /\ kind \in kinds

Written(p, m, text) ==
    /\ written' = [written EXCEPT ![m] = [by |-> p, text |-> text]]
    /\ writes < MaxWrites
    /\ writes' = writes + 1
    /\ answer' = NoAnswer
    /\ UNCHANGED <<config, stage, collection, restarts>>

Refused ==
    /\ faulty
    /\ writes < MaxWrites
    /\ writes' = writes + 1
    /\ answer' = NoAnswer
    /\ UNCHANGED <<config, stage, collection, rows, written, restarts>>

\* Fault: the tombstone of an id stays when the id is indexed again.
CacheUnderTombstone(p, m, t) ==
    vectors' = [vectors EXCEPT ![p][m] = t] /\ UNCHANGED tombstones

Cache(p, m, t) ==
    /\ vectors' = [vectors EXCEPT ![p][m] = t]
    /\ tombstones' = [tombstones EXCEPT ![p] = @ \ {m}]

Bury(p, m) ==
    /\ tombstones' = [tombstones EXCEPT ![p] = @ \cup {m}]
    /\ UNCHANGED vectors

\* The service keeps one row under the id's key.
Overwrite(m, row) == rows' = [rows EXCEPT ![m] = <<row>>]
Insert(m, row) ==
    rows' = [rows EXCEPT ![m] = IF appends THEN Append(@, row) ELSE <<row>>]

RedisSet(m, row) == kind = "redis_vector" /\ Overwrite(m, row)
QdrantPoint(m, row) == kind = "qdrant" /\ Overwrite(m, row)
PineconePoint(m, row) == kind = "pinecone" /\ Overwrite(m, row)
MilvusInsert(m, row) == kind = "milvus" /\ Insert(m, row)
WeaviateInsert(m, row) == kind = "weaviate" /\ Insert(m, row)
\* data_object.create, which a client may lack: the call then ends all the same.
WeaviateCreate(m, row) == kind = "weaviate_objects" /\ (Insert(m, row) \/ UNCHANGED rows)

Store(m, row) ==
    \/ RedisSet(m, row) \/ QdrantPoint(m, row) \/ PineconePoint(m, row)
    \/ MilvusInsert(m, row) \/ WeaviateInsert(m, row) \/ WeaviateCreate(m, row)

RemoteUpsert(p, m, t) ==
    /\ Ready(p, Services)
    /\ Cache(p, m, t)
    /\ (Store(m, Row(t, FALSE)) /\ Written(p, m, t)) \/ Refused

\* A delete stores an archived row: the vector cached, or the id's own.
RemoteDelete(p, m) ==
    /\ Ready(p, Services)
    /\ Bury(p, m)
    /\ (Store(m, Row(vectors[p][m], TRUE)) /\ Written(p, m, Absent)) \/ Refused

\* One statement in one transaction.
PgWrite(p, m, content, text) ==
    /\ Ready(p, {"pgvector"})
    /\ \/ rows' = [rows EXCEPT ![m] = content] /\ Written(p, m, text)
       \/ Refused
    /\ UNCHANGED local

SqliteWrite(p, m, content, text) ==
    /\ Ready(p, {"sqlite_vec"})
    /\ \/ rows' = [rows EXCEPT ![m] = content] /\ Written(p, m, text)
       \/ Refused
    /\ UNCHANGED local

InMemoryWrite(p, m, text) ==
    /\ Ready(p, InMemory)
    /\ vectors' = [vectors EXCEPT ![p][m] = text]
    /\ Written(p, m, text)
    /\ UNCHANGED <<rows, tombstones>>

Upsert(p, m, t) ==
    \/ RemoteUpsert(p, m, t)
    \/ PgWrite(p, m, <<Row(t, FALSE)>>, t)
    \/ SqliteWrite(p, m, <<Row(t, FALSE)>>, t)
    \/ InMemoryWrite(p, m, t)

Delete(p, m) ==
    \/ RemoteDelete(p, m)
    \/ PgWrite(p, m, <<>>, Absent)
    \/ SqliteWrite(p, m, <<>>, Absent)
    \/ InMemoryWrite(p, m, Absent)

-----------------------------------------------------------------------------
\* Searches.  One that raises answers nothing and changes nothing.
\* A search changes nothing but answer: one is looked at between two changes.
Answered(p, query, n, hits, complete) ==
    /\ answer = NoAnswer
    /\ answer' = [by |-> p, query |-> query, limit |-> n, hits |-> hits,
                  complete |-> complete]
    /\ UNCHANGED <<config, stage, remote, local, counts>>

InMemorySearch(p, q, n) ==
    /\ Ready(p, InMemory)
    /\ Answered(p, q, n, Ordered(LocalMatches(p, q), n), TRUE)

\* Every key of the collection is read and scored here.
RedisSearch(p, q, n) ==
    /\ Ready(p, {"redis_vector"})
    /\ Answered(p, q, n, Ordered(NotDeleted(p, Active(q)), n), TRUE)

\* A failed query leaves the process's own vectors, and so does one that has
\* fewer matches than asked for.
MilvusSearch(p, q, n) ==
    /\ Ready(p, {"milvus"})
    /\ \E top \in Tops(Active(q), n), up \in BOOLEAN :
          LET matches == IF up THEN NotDeleted(p, top) ELSE {}
              all == IF Cardinality(matches) < n THEN WithLocal(p, q, matches)
                     ELSE matches
          IN Answered(p, q, n, Ordered(all, n), up)

\* The filter on archived rows is in the query, or, for a client that does not
\* take it, applied to what comes back.
Queried(p, q, n, filtered) ==
    {NotDeleted(p, {h \in top : ~IsArchived(h)}) :
        top \in Tops(IF filtered THEN Active(q) ELSE Stored(q), n)}

QdrantSearch(p, q, n) ==
    /\ Ready(p, {"qdrant"})
    /\ \E up, filtered \in BOOLEAN :
          \E matches \in IF up THEN Queried(p, q, n, filtered) ELSE {{}} :
             Answered(p, q, n, Ordered(WithLocal(p, q, matches), n), up /\ filtered)

PineconeSearch(p, q, n) ==
    /\ Ready(p, {"pinecone"})
    /\ \E filtered \in BOOLEAN :
          \E matches \in Queried(p, q, n, filtered) :
             LET all == IF Cardinality(matches) < n THEN WithLocal(p, q, matches)
                        ELSE matches
             IN Answered(p, q, n, Ordered(all, n), filtered)

\* A match without a score is scored by the process's own copy.
WeaviateSearch(p, q, n) ==
    /\ Ready(p, {"weaviate"})
    /\ \E top \in Tops(Active(q), n) :
          LET Rescored(h) == IF h.score = 0 THEN Match(h.id, h.row, q, vectors[p][h.id])
                             ELSE h
              matches == {Rescored(h) : h \in NotDeleted(p, top)}
          IN Answered(p, q, n, Ordered(WithLocal(p, q, matches), n), TRUE)

\* Without a collection there is no query, and _query_fallback finds nothing.
WeaviateObjectsSearch(p, q, n) ==
    /\ Ready(p, Unqueried)
    /\ Answered(p, q, n, Ordered(LocalMatches(p, q), n), TRUE)

\* ORDER BY distance LIMIT: ties in any order, rows as the database has them.
PgSearch(p, q, n) ==
    /\ Ready(p, {"pgvector"})
    /\ \E top \in Tops(Stored(q), n) : \E s \in SetToSeqs(top) :
          /\ \A i, j \in DOMAIN s : i < j => s[i].score >= s[j].score
          /\ Answered(p, q, n, [i \in DOMAIN s |-> s[i].id], TRUE)

\* heapq.nlargest by the score alone, sorted afterwards.
SqliteSearch(p, q, n) ==
    /\ Ready(p, {"sqlite_vec"})
    /\ \E top \in Tops(Stored(q), n) : Answered(p, q, n, Ordered(top, n), TRUE)

Search(p, q, n) ==
    \/ InMemorySearch(p, q, n) \/ RedisSearch(p, q, n) \/ MilvusSearch(p, q, n)
    \/ QdrantSearch(p, q, n) \/ PineconeSearch(p, q, n) \/ WeaviateSearch(p, q, n)
    \/ PgSearch(p, q, n) \/ SqliteSearch(p, q, n) \/ WeaviateObjectsSearch(p, q, n)

-----------------------------------------------------------------------------
\* A process ends and a new one takes its place: its caches start empty.
Restart(p) ==
    /\ p \in live
    /\ stage[p] # "off"
    /\ kind \notin InMemory
    /\ restarts < MaxRestarts
    /\ restarts' = restarts + 1
    /\ stage' = [stage EXCEPT ![p] = "off"]
    /\ vectors' = [vectors EXCEPT ![p] = [m \in Ids |-> Absent]]
    /\ tombstones' = [tombstones EXCEPT ![p] = {}]
    /\ answer' = NoAnswer
    /\ UNCHANGED <<config, remote, writes>>

Init ==
    /\ kind \in Kinds
    /\ live \in (SUBSET Processes) \ {{}}
    /\ kind \in InMemory => Cardinality(live) = 1
    /\ faulty \in BOOLEAN
    /\ appends \in BOOLEAN
    /\ appends => kind \in {"milvus", "weaviate", "weaviate_objects"}
    /\ stage = [p \in Processes |-> "off"]
    /\ collection = FALSE
    /\ rows = [m \in Ids |-> <<>>]
    /\ vectors = [p \in Processes |-> [m \in Ids |-> Absent]]
    /\ tombstones = [p \in Processes |-> {}]
    /\ written = [m \in Ids |-> [by |-> Absent, text |-> Absent]]
    /\ answer = NoAnswer
    /\ writes = 0
    /\ restarts = 0

Next ==
    \E p \in Processes :
        \/ Connect(p)
        \/ Restart(p)
        \/ \E m \in Ids, t \in Texts : Upsert(p, m, t)
        \/ \E m \in Ids : Delete(p, m)
        \/ \E q \in Texts, n \in Limits : Search(p, q, n)

Spec == Init /\ [][Next]_vars

-----------------------------------------------------------------------------
TypeOK ==
    /\ kind \in Kinds /\ live \subseteq Processes /\ {faulty, appends} \subseteq BOOLEAN
    /\ stage \in [Processes -> {"off", "missing", "ready"}]
    /\ collection \in BOOLEAN
    /\ rows \in [Ids -> Seq(Rows)]
    /\ vectors \in [Processes -> [Ids -> Texts \cup {Absent}]]
    /\ tombstones \in [Processes -> SUBSET Ids]
    /\ written \in [Ids -> [by : Processes \cup {Absent}, text : Texts \cup {Absent}]]
    /\ answer.by \in Processes \cup {Absent}
    /\ answer.hits \in Seq(Ids) /\ Len(answer.hits) <= answer.limit
    /\ writes \in 0..MaxWrites /\ restarts \in 0..MaxRestarts

Found == {answer.hits[i] : i \in DOMAIN answer.hits}

\* Every id a search returns is vouched for: the process that searched has not
\* deleted it since it last indexed it, and either the service holds an active
\* row of it or the process has indexed it itself.  With refused writes, restarts
\* and inserts that leave old rows behind, this is what is left of delete: the
\* process that called it never sees the id again until it indexes it.
HitsAreVouchedFor ==
    answer.by # Absent =>
        \A m \in Found :
            /\ m \notin tombstones[answer.by]
            /\ \/ \E i \in DOMAIN rows[m] : ~rows[m][i].archived
               \/ kind \in Merging /\ vectors[answer.by][m] # Absent

\* What a search that looks at everything it can would find.
Matching(p, query) ==
    IF kind \in Unqueried THEN LocalMatches(p, query)
    ELSE IF kind \in Merging THEN WithLocal(p, query, Active(query)) ELSE Active(query)

\* A process finds what it wrote: an id whose last write, by anyone, is this
\* process's upsert is in its complete answers that have room for every match -
\* whatever other processes deleted before, and after a restart, but for a client that
\* never asks the service: such a process finds what it wrote until it ends.
OwnWritesAreFound ==
    LET p == answer.by
    IN  (/\ p # Absent /\ answer.complete
         /\ answer.limit >= Cardinality(Matching(p, answer.query))) =>
            \A m \in Ids :
                written[m].by = p /\ written[m].text # Absent
                /\ (faulty => m \notin tombstones[p])
                /\ (kind \in Unqueried => vectors[p][m] # Absent)
                    => m \in Found

\* Every backend whose searches reach what is written is one index (VectorIndex) for
\* the processes that may share it: all but a Weaviate client without `collections`.
RefinesIndex == Index!Spec
=============================================================================
