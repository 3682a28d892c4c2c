------------------------------ MODULE Library ------------------------------
(***************************************************************************)
(* Ingestion and retrieval over the stores of a deployment.  One process   *)
(* ingests batches of envelopes and rolls dreams back, one store command   *)
(* at a time, and may die between any two; another answers queries from    *)
(* the same stores, request by request, and writes the accesses back,      *)
(* record by record.                                                       *)
(***************************************************************************)
EXTENDS Stores, SequencesExt

CONSTANTS
    Batches,        \* the batches of envelopes a caller may ingest
    Queries,        \* the queries, as sets of tokens
    Adapters,       \* the modalities there is an adapter for
    LexicalLimit, VectorLimit,     \* of RetrievalCandidateGenerator
    CandidateLimit, TokenBudget,   \* of WeightProfile
    TopKs,          \* the values of top_k asked for
    MaxIngests, MaxArchives, MaxRetrievals, MaxCrashes   \* bounds

ASSUME BatchesAreLists ==
    \A b \in Batches : /\ Len(b) \in Nat /\ DOMAIN b = 1..Len(b)
                       /\ \A i \in DOMAIN b : /\ b[i].id \in Ids /\ b[i].text \in Texts
                                             /\ b[i].causedBy \in Ids \cup {Absent}
ASSUME LimitsAreNaturals ==
    {LexicalLimit, VectorLimit, CandidateLimit, TokenBudget} \cup TopKs \subseteq Nat

VARIABLES
    todo,         \* the commands left of the writer's call
    batch,        \* the memories and edges of the call under way
    returned,     \* those of the last ingestion, once it has returned
    cut,          \* edges whose commands a crash left incomplete
    asked,        \* the retrieval under way and what it has read so far
    touched,      \* history: ids the writer has written of since that began
    reply,        \* the retrieval whose accesses are being written back
    stale,        \* ids whose text a write-back replaced
    ingests, archives, retrievals, crashes

retrieving == <<asked, touched, reply>>
vars == <<deployment, stores, todo, batch, returned, cut, retrieving, stale,
          ingests, archives, retrievals, crashes>>
counts == <<ingests, archives, retrievals, crashes>>

NoBatch == [memories |-> <<>>, edges |-> <<>>]
NoReply == [query |-> {}, candidates |-> <<>>, left |-> <<>>]
Nothing == [m \in Ids |-> Absent]
NotAsked == [step |-> "none", query |-> {}, topK |-> 0, listed |-> Nothing,
             seeds |-> {}, toExpand |-> <<>>, toFetch |-> {}, near |-> Nothing]

-----------------------------------------------------------------------------
(***************************************************************************)
(* What an ingestion writes.  An envelope is [id, text, modality, topic,   *)
(* conversation, causedBy], the last three Absent or a value.              *)
(***************************************************************************)
\* _normalize_envelope raises before anything is written
Normalizes(envelopes) == \A i \in DOMAIN envelopes : envelopes[i].modality \in Adapters

\* _artifact_to_memory
ArtifactToMemory(a) ==
    [id |-> a.id, text |-> a.text, archived |-> FALSE, access |-> 0, distance |-> Absent]

Memories(artifacts) == [i \in DOMAIN artifacts |-> ArtifactToMemory(artifacts[i])]

\* The last artifact before the i-th with the same value of a field.
Previous(artifacts, i, field) ==
    {j \in 1..(i - 1) : /\ artifacts[j][field] = artifacts[i][field]
                        /\ \A k \in (j + 1)..(i - 1) :
                               artifacts[k][field] # artifacts[i][field]}

EdgeToPrevious(kind, artifacts, i, field) ==
    IF artifacts[i][field] = Absent THEN <<>>
    ELSE SetToSeq({Edge(kind, artifacts[j].id, artifacts[i].id) :
                       j \in Previous(artifacts, i, field)})

\* _build_edges
EdgesOf(artifacts, i) ==
    EdgeToPrevious("supports", artifacts, i, "topic")
    \o EdgeToPrevious("about", artifacts, i, "conversation")
    \o (IF artifacts[i].causedBy = Absent THEN <<>>
        ELSE <<Edge("caused_by", artifacts[i].id, artifacts[i].causedBy)>>)

BuildEdges(artifacts) == FlattenSeq([i \in DOMAIN artifacts |-> EdgesOf(artifacts, i)])

\* _persist_memories: put_many, then the graph's copies unless they are the same
PersistMemories(recs) ==
    LET puts == Transactions(deployment.memory, recs)
        upserts == Transactions(deployment.graph, recs)
    IN [i \in DOMAIN puts |-> PutMemories(puts[i])]
       \o (IF SharesMemoryStore THEN <<>>
           ELSE [i \in DOMAIN upserts |-> UpsertNodes(upserts[i])])

\* Fault: only the vector store is told of a memory.
IndexVectorsOnly(recs) == [i \in DOMAIN recs |-> UpsertIndex("vector", recs[i])]

\* ingest: the vectors of a memory, then its representation
IndexMemories(recs) ==
    FlattenSeq([i \in DOMAIN recs |->
        [x \in 1..(IF deployment.represents THEN 2 ELSE 1) |->
            UpsertIndex(IndexNames[x], recs[i])]])

\* upsert_edges, edge by edge unless the backend has a transaction for all
EdgeCommands(e) ==
    CASE deployment.graph = "redis" ->
             <<SetEdge(e), AddLink("source", e), AddLink("target", e)>>
      [] deployment.graph = "arangodb" ->
             <<EnsurePlaceholder(e.source), EnsurePlaceholder(e.target), UpsertRows(<<e>>)>>
      [] OTHER -> <<UpsertRows(<<e>>)>>

PersistEdges(es) ==
    LET rows == Transactions(deployment.graph, es)
    IN IF deployment.graph \in Transactional THEN [i \in DOMAIN rows |-> UpsertRows(rows[i])]
       ELSE FlattenSeq([i \in DOMAIN es |-> EdgeCommands(es[i])])

\* Fault: the graph and the index are told of a memory before it is stored.
IngestInReverse(recs, es) ==
    PersistEdges(es) \o IndexMemories(recs) \o PersistMemories(recs)

\* ingest_envelopes, after normalisation
IngestCommands(recs, es) ==
    PersistMemories(recs) \o IndexMemories(recs) \o PersistEdges(es)

-----------------------------------------------------------------------------
(***************************************************************************)
(* The writer.                                                             *)
(***************************************************************************)
Resting == todo = <<>> /\ batch = NoBatch

IngestEnvelopes(envelopes) ==
    /\ Resting /\ ingests < MaxIngests
    /\ Normalizes(envelopes)
    /\ LET recs == Memories(envelopes)
           es == BuildEdges(envelopes)
       IN /\ todo' = IngestCommands(recs, es)
          /\ batch' = [memories |-> recs, edges |-> es]
    /\ returned' = NoBatch
    /\ ingests' = ingests + 1
    /\ UNCHANGED <<deployment, stores, cut, retrieving, stale, archives, retrievals, crashes>>

\* DreamRunner._archive_memory: both stores are written, whether shared or not.
ArchiveMemory(m) ==
    /\ Resting /\ archives < MaxArchives
    /\ IsActive(memories[m])
    /\ LET rec == [memories[m] EXCEPT !.archived = TRUE]
       IN todo' = <<PutMemories(<<rec>>), UpsertNodes(<<rec>>)>>
    /\ returned' = NoBatch
    /\ archives' = archives + 1
    /\ UNCHANGED <<deployment, stores, batch, cut, retrieving, stale, ingests, retrievals, crashes>>

\* DreamRunner._archive_edge
ArchiveEdge(e) ==
    /\ Resting /\ archives < MaxArchives
    /\ e \in ListEdges
    /\ todo' = PersistEdges(<<[e EXCEPT !.archived = TRUE]>>)
    /\ returned' = NoBatch
    /\ archives' = archives + 1
    /\ UNCHANGED <<deployment, stores, batch, cut, retrieving, stale, ingests, retrievals, crashes>>

Next1(op) == todo # <<>> /\ Head(todo).op = op /\ todo' = Tail(todo)
Command == Head(todo)
StillAtIt == UNCHANGED <<deployment, batch, returned, asked, reply, counts>>
Touch(ids) == touched' = IF asked = NotAsked THEN {} ELSE touched \cup ids

IdsIn(recs) == {recs[i].id : i \in DOMAIN recs}
EndsIn(es) == UNION {{es[i].source, es[i].target} : i \in DOMAIN es}

Put ==
    /\ Next1("put")
    /\ memories' = WithRecords(memories, Command.recs)
    /\ stale' = stale \ IdsIn(Command.recs)
    /\ Touch(IdsIn(Command.recs))
    /\ UNCHANGED <<nodes, edges, links, indexes, cut>> /\ StillAtIt

\* GraphStore.upsert_memory: one table for both roles, or the graph's own
UpsertNode ==
    /\ Next1("node")
    /\ IF SharesMemoryStore
       THEN memories' = WithRecords(memories, Command.recs) /\ UNCHANGED nodes
       ELSE nodes' = WithRecords(nodes, Command.recs) /\ UNCHANGED memories
    /\ Touch(IdsIn(Command.recs))
    /\ UNCHANGED <<edges, links, indexes, cut, stale>> /\ StillAtIt

\* ArangoDB
InsertPlaceholder ==
    /\ Next1("placeholder")
    /\ nodes' = WithPlaceholder(nodes, Command.id)
    /\ UNCHANGED <<memories, edges, links, indexes, cut, stale, touched>> /\ StillAtIt

Index ==
    /\ Next1("index")
    /\ indexes' = [indexes EXCEPT ![Command.index][Command.id] = Command.text]
    /\ UNCHANGED <<memories, nodes, edges, links, cut, stale, touched>> /\ StillAtIt

\* The relational stores, MongoDB, ArangoDB; a Cypher query makes the nodes as well.
UpsertEdges ==
    /\ Next1("edges")
    /\ edges' = WithEdges(edges, Command.edges)
    /\ nodes' = IF deployment.graph = "cypher"
                THEN WithPlaceholder(WithPlaceholder(nodes, Command.edges[1].source),
                                     Command.edges[1].target)
                ELSE nodes
    /\ Touch(EndsIn(Command.edges))
    /\ UNCHANGED <<memories, links, indexes, cut, stale>> /\ StillAtIt

\* Redis
SetRedisEdge ==
    /\ Next1("set")
    /\ edges' = WithEdge(edges, Command.edge)
    /\ Touch(EndsIn(<<Command.edge>>))
    /\ UNCHANGED <<memories, nodes, links, indexes, cut, stale>> /\ StillAtIt

AddRedisLink ==
    /\ Next1("link")
    /\ links' = links \cup {Link(Command.end, Command.edge)}
    /\ Touch(EndsIn(<<Command.edge>>))
    /\ cut' = IF Command.end = "target" THEN cut \ {IdOf(Command.edge)} ELSE cut
    /\ UNCHANGED <<memories, nodes, edges, indexes, stale>> /\ StillAtIt

\* The call returns to its caller.
Return ==
    /\ todo = <<>> /\ batch # NoBatch
    /\ returned' = batch /\ batch' = NoBatch
    /\ UNCHANGED <<deployment, stores, todo, cut, retrieving, stale, counts>>

\* The process is killed; the next one finds the stores as they are.
Crash ==
    /\ crashes < MaxCrashes /\ todo # <<>>
    /\ cut' = IF Command.op = "link" THEN cut \cup {IdOf(Command.edge)} ELSE cut
    /\ todo' = <<>> /\ batch' = NoBatch
    /\ crashes' = crashes + 1
    /\ UNCHANGED <<deployment, stores, returned, retrieving, stale, ingests, archives, retrievals>>

-----------------------------------------------------------------------------
(***************************************************************************)
(* Retrieval.                                                              *)
(***************************************************************************)
Truncated(s, n) == SubSeq(s, 1, IF n < Len(s) THEN n ELSE Len(s))

\* The elements of s that are in S, in their order.
Among(s, S) ==
    LET kept[n \in 0..Len(s)] ==
            IF n = 0 THEN <<>>
            ELSE IF s[n] \in S THEN Append(kept[n - 1], s[n]) ELSE kept[n - 1]
    IN kept[Len(s)]

\* The number of common tokens orders as _lexical_seed_score does.
Overlap(query, rec) == Cardinality(query \cap rec.text)

\* _active_memories
ActiveIds == {m \in Ids : IsActive(memories[m])}

\* The ids under which records have been read.
Given(records) == {m \in Ids : records[m] # Absent}

\* _rank_by_lexical_seed: a stable sort of what was listed
Precedes(query, listed, a, b) ==
    \/ Overlap(query, listed[a]) > Overlap(query, listed[b])
    \/ Overlap(query, listed[a]) = Overlap(query, listed[b]) /\ a < b
RankedBySeed(query, listed) ==
    [i \in 1..Cardinality(Given(listed)) |->
        CHOOSE m \in Given(listed) :
            Cardinality({k \in Given(listed) : Precedes(query, listed, k, m)}) = i - 1]

\* What a vector store may return: ids it has, no more than asked for, at least one.
VectorMatches ==
    {s \in BoundedSeq(Ids, IF VectorLimit < 1 THEN 1 ELSE VectorLimit) :
        IsInjective(s) /\ \A i \in DOMAIN s : indexes["vector"][s[i]] # Absent}

\* _seed_candidates
SeedCandidates(query, listed, matches, limit) ==
    LET ranked  == RankedBySeed(query, listed)
        lexical == Among(Truncated(ranked, LexicalLimit),
                         {m \in Given(listed) : Overlap(query, listed[m]) > 0})
        vector  == Among(matches, Given(listed))
        most    == CHOOSE n \in {limit, VectorLimit, LexicalLimit} :
                       \A k \in {limit, VectorLimit, LexicalLimit} : k <= n
    IN IF lexical # <<>> THEN Truncated(lexical \o vector, most)
       ELSE IF vector # <<>> THEN vector
       ELSE Truncated(Truncated(ranked, LexicalLimit), limit)

\* _get_neighbor_memory: the graph's copy first
NeighborMemory(m) ==
    IF GraphGetMemory(m) # Absent THEN GraphGetMemory(m) ELSE GetMemory(m)

OtherEnd(m, e) == IF e.source = m THEN e.target ELSE e.source

\* A candidate carries its distance from the seeds; a memory that is neither keeps
\* the distance that an earlier retrieval may have left in the store.
Candidate(m) ==
    IF m \in asked.seeds THEN [asked.listed[m] EXCEPT !.distance = 0]
    ELSE IF asked.near[m] # Absent THEN [asked.near[m] EXCEPT !.distance = 1]
    ELSE asked.listed[m]

\* Fault: what the graph adds comes before what the query matches.
AssembleGraphFirst(ranked, near, limit) ==
    Truncated(SetToSeq(near) \o Among(ranked, ToSet(ranked) \ near), limit)

\* _assemble_ordered_candidates; neighbors that the list lacks come last
Assemble(ranked, near, limit) ==
    Truncated(ranked \o SetToSeq(near \ ToSet(ranked)), limit)

\* _fit_to_budget; a memory costs its tokens, at least 1
Cost(rec) == IF rec.text = {} THEN 1 ELSE Cardinality(rec.text)
Spent(recs) ==
    LET spent[n \in 0..Len(recs)] == IF n = 0 THEN 0 ELSE spent[n - 1] + Cost(recs[n])
    IN spent[Len(recs)]
FitToBudget(recs) ==
    LET chosen[n \in 0..Len(recs)] ==
            IF n = 0 THEN <<>>
            ELSE IF Spent(chosen[n - 1]) + Cost(recs[n]) > TokenBudget THEN chosen[n - 1]
            ELSE Append(chosen[n - 1], recs[n])
    IN chosen[Len(recs)]

\* WeightedRetriever.retrieve makes one request after the other to stores that the
\* writer may change in between.
Reads == UNCHANGED <<deployment, stores, todo, batch, returned, cut, touched, reply, stale,
                     counts>>
Limit(topK) == IF topK > CandidateLimit THEN topK ELSE CandidateLimit

\* collect: the memory store's list; with no active memory there is nothing to do
ListMemories(query, topK) ==
    /\ asked = NotAsked /\ reply.left = <<>> /\ retrievals < MaxRetrievals
    /\ ActiveIds # {}
    /\ asked' = [NotAsked EXCEPT !.step = "search", !.query = query, !.topK = topK,
                     !.listed = [m \in Ids |-> IF m \in ActiveIds THEN memories[m] ELSE Absent]]
    /\ Reads

\* _rank_by_vector_seed: matches that were not listed are dropped
SearchVectors(matches) ==
    /\ asked.step = "search"
    /\ LET seeds == SeedCandidates(asked.query, asked.listed, matches, Limit(asked.topK))
       IN asked' = [asked EXCEPT !.step = "expand", !.seeds = ToSet(seeds), !.toExpand = seeds]
    /\ Reads

\* _expand_graph_neighbors: the edges of the next seed, without those that lead to a
\* candidate
IsCandidate(m) == m \in asked.seeds \/ asked.near[m] # Absent
EdgesOut(seed) == {<<OtherEnd(seed, e), e>> : e \in Neighbors(seed)}
ExpandSeed ==
    /\ asked.step = "expand" /\ asked.toFetch = {} /\ asked.toExpand # <<>>
    /\ LET seed == Head(asked.toExpand)
       IN asked' = [asked EXCEPT !.toExpand = Tail(@),
                        !.toFetch = {found \in EdgesOut(seed) : ~IsCandidate(found[1])}]
    /\ Reads

\* _resolve_neighbor: a candidate is not replaced by what a second edge leads to
FetchNeighbor(found) ==
    /\ found \in asked.toFetch
    /\ LET m == found[1]
           rec == NeighborMemory(m)
       IN asked' = [asked EXCEPT !.toFetch = @ \ {found},
                        !.near[m] = IF ~IsCandidate(m) /\ IsActive(rec) THEN rec ELSE @]
    /\ Reads

\* score, in any order that the weights may give the candidates, and _fit_to_budget
Answer ==
    /\ asked.step = "expand" /\ asked.toFetch = {} /\ asked.toExpand = <<>>
    /\ LET ids == Assemble(RankedBySeed(asked.query, asked.listed), Given(asked.near),
                           Limit(asked.topK))
       IN \E ranking \in [DOMAIN ids -> ToSet(ids)] :
             LET scored == [i \in DOMAIN ranking |-> Candidate(ranking[i])]
             IN /\ IsInjective(ranking)
                /\ reply' = [query |-> asked.query, candidates |-> ids,
                             left |-> FitToBudget(Truncated(scored, asked.topK))]
    /\ asked' = NotAsked /\ touched' = {}
    /\ retrievals' = retrievals + 1
    /\ UNCHANGED <<deployment, stores, todo, batch, returned, cut, stale,
                   ingests, archives, crashes>>

\* _write_back_access, one record at a time; a process that dies takes no more of
\* these steps.
WriteBackAccess ==
    /\ reply.left # <<>>
    /\ LET rec == Head(reply.left)
       IN IF deployment.writesBack
          THEN /\ memories' = [memories EXCEPT ![rec.id] = [rec EXCEPT !.access = @ + 1]]
               /\ stale' = IF memories[rec.id] # Absent /\ memories[rec.id].text = rec.text
                           THEN stale ELSE stale \cup {rec.id}
          ELSE UNCHANGED <<memories, stale>>
    /\ reply' = [NoReply EXCEPT !.left = Tail(reply.left)]
    /\ UNCHANGED <<deployment, nodes, edges, links, indexes, todo, batch, returned, cut,
                   asked, touched, counts>>

-----------------------------------------------------------------------------
Init ==
    /\ StoresInit
    /\ todo = <<>> /\ batch = NoBatch /\ returned = NoBatch
    /\ cut = {} /\ stale = {}
    /\ asked = NotAsked /\ touched = {} /\ reply = NoReply
    /\ ingests = 0 /\ archives = 0 /\ retrievals = 0 /\ crashes = 0

Read ==
    \/ \E query \in Queries, topK \in TopKs : ListMemories(query, topK)
    \/ \E matches \in VectorMatches : SearchVectors(matches)
    \/ ExpandSeed
    \/ \E found \in asked.toFetch : FetchNeighbor(found)

Next ==
    \/ \E envelopes \in Batches : IngestEnvelopes(envelopes)
    \/ \E m \in Ids : ArchiveMemory(m)
    \/ \E e \in ListEdges : ArchiveEdge(e)
    \/ Put \/ UpsertNode \/ InsertPlaceholder \/ Index
    \/ UpsertEdges \/ SetRedisEdge \/ AddRedisLink
    \/ Return \/ Crash
    \/ Read \/ Answer \/ WriteBackAccess

Spec == Init /\ [][Next]_vars

-----------------------------------------------------------------------------
(***************************************************************************)
(* Properties.                                                             *)
(***************************************************************************)
\* Every table holds what its backend can hold: a record under its own id, an edge
\* under an id of its kind, Redis sets for Redis only; and what a retrieval has read
\* are records, each under the id it was asked for.
TypeOK ==
    /\ StoresTypeOK
    /\ cut \subseteq EdgeIds /\ stale \subseteq Ids
    /\ \A i \in DOMAIN reply.left : reply.left[i] \in Memory
    /\ \A m \in Given(asked.listed) : asked.listed[m] \in Memory /\ asked.listed[m].id = m
    /\ \A m \in Given(asked.near) : asked.near[m] \in Memory /\ asked.near[m].id = m

\* An ingestion that returned left everything it was given: the last record of
\* every id in the memory store, served by the graph store, in both indexes, and
\* every edge listed.  It holds whatever earlier calls, crashed ones too, had
\* written of the same ids, until the next call, save for a memory whose text a
\* retrieval overwrote with the record it had read before (pipeline.py:76, 87).
Holds(rec, text) == rec # Absent /\ rec.text = text
ReturnedIsStored ==
    LET recs == returned.memories
        last == {i \in DOMAIN recs : \A j \in DOMAIN recs : recs[j].id = recs[i].id => j <= i}
    IN /\ \A i \in last :
            LET m == recs[i].id
            IN /\ m \notin stale => Holds(GetMemory(m), recs[i].text)
               /\ m \notin stale => Holds(GraphGetMemory(m), recs[i].text)
               /\ indexes["vector"][m] = recs[i].text
               /\ deployment.represents => indexes["representation"][m] = recs[i].text
       /\ ToSet(returned.edges) \subseteq ListEdges

\* The two ways to read the graph agree: what neighbors returns for a memory are
\* edges that list_edges returns and that the memory is an end of; what list_edges
\* returns both ends see, except an edge whose Redis commands are under way or
\* were cut short by a crash (redis.py:73-103).
GraphReadsAgree ==
    /\ \A m \in Ids : Neighbors(m) \subseteq {e \in ListEdges : m \in {e.source, e.target}}
    /\ \A e \in ListEdges :
           \/ e \in Neighbors(e.source) /\ e \in Neighbors(e.target)
           \/ IdOf(e) \in cut
           \/ todo # <<>> /\ Command.op = "link" /\ Command.edge = e

\* A crash leaves a memory that is not yet found, never a trace of a memory that
\* does not exist: what an index or the graph store knows is in the memory store,
\* and an edge starts from a memory that is (pipeline.py:76-90).
TracesLeadToMemories ==
    /\ \A x \in DOMAIN indexes, m \in Ids : indexes[x][m] # Absent => memories[m] # Absent
    /\ \A m \in Ids : GraphGetMemory(m) # Absent => memories[m] # Absent
    /\ \A e \in ListEdges : memories[e.source] # Absent

\* Retrieval, whatever the writer does between its requests.  Nothing is returned
\* twice, nothing that was archived when it was read, and the budget is kept.  Of the
\* memories the writer wrote nothing of meanwhile, none with more of the query's
\* tokens is left out for one that the vectors or the graph brought in, and what is
\* returned are active memories of the memory store as they are or, in a deployment
\* whose graph store has copies of its own, active copies reached by an edge of a seed
\* (candidate_generation.py:205, service.py:78).
AnswersSoundly ==
    LET given == reply'.left
        candidates == ToSet(reply'.candidates)
        settled == Ids \ touched
    IN /\ \A c \in candidates \cap settled, m \in (ActiveIds \ candidates) \cap settled :
              /\ c \in ActiveIds
              /\ Overlap(reply'.query, memories[m]) <= Overlap(reply'.query, memories[c])
       /\ \A i \in DOMAIN given :
              LET m == given[i].id
              IN m \in settled =>
                     \/ m \in ActiveIds /\ given[i].text = memories[m].text
                     \/ /\ ~SharesMemoryStore /\ IsActive(nodes[m])
                        /\ given[i].text = nodes[m].text
                        /\ \E s \in asked.seeds : \E e \in Neighbors(s) : m = OtherEnd(s, e)
       /\ \A i \in DOMAIN given : ~given[i].archived
       /\ \A i, j \in DOMAIN given : given[i].id = given[j].id => i = j
       /\ Spent(given) <= TokenBudget
RetrievalIsSound == [][retrievals' > retrievals => AnswersSoundly]_vars
=============================================================================
