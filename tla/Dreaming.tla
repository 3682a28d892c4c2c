------------------------------ MODULE Dreaming ------------------------------
(***************************************************************************)
(* One process that ingests memories, dreams over them, rolls dreams back  *)
(* and answers queries: DreamRunner, its four strategies and the stores    *)
(* they write.  Calls do not overlap.  A call reads a snapshot, queues its *)
(* store writes in `todo' and applies them one transaction at a time, so a *)
(* crash may fall between any two of them.  Where the graph store keeps    *)
(* its own copies, a memory is written twice: `copying' is the one that    *)
(* the memory store has and the graph store has still to be given.         *)
(***************************************************************************)
EXTENDS DreamMemory

CONSTANTS
    SharedStore, \* the graph store shares the memory store's backend
    CommandLine, \* the process is the CLI: it keeps diffs in files, rolls back from
                 \* them, and has neither a vector store nor access write-back
    AnyOrder,    \* callers may roll back a diff that is not the newest
    MaxRuns,     \* bound on the diffs kept
    MaxCrashes,  \* bound on crashes
    MaxAccess,   \* bound on the access count a retrieval may raise
    TopK         \* bound on the memories one retrieval selects

ASSUME BoundsAssumption ==
    /\ SharedStore \in BOOLEAN /\ CommandLine \in BOOLEAN /\ AnyOrder \in BOOLEAN
    /\ MaxRuns \in Nat /\ MaxCrashes \in Nat /\ MaxAccess \in Nat /\ TopK \in Nat

VARIABLES
    mem,     \* the memory store: the record stored under each id, or Null
    gmem,    \* the graph store's own copies, when it does not share the backend
    edges,   \* the edges list_edges returns: those not marked archived
    vec,     \* the ids in this process's vector index
    copying, \* the memory put last, until the graph store has it too, or Null
    now,     \* the clock
    log,     \* the diffs of the runs that can be rolled back, oldest first
    crashes, \* how often the process has crashed
    op,      \* the call in progress, or "idle"
    work,    \* the pairs (or topics) the call has still to examine
    snap,    \* the records the call read: memory_index, or its member lists
    known,   \* existing_edges of a contradiction repair
    todo,    \* the store writes the call has queued
    changes, \* memory_changes of the diff being built
    links,   \* the edges added so far by the diff being built
    base     \* history, for properties only: mem and edges before the run

stores == <<mem, gmem, edges, vec, copying>>
call   == <<op, work, snap, known, todo, changes, links, base>>
vars   == <<stores, now, log, crashes, call>>

Strategies == {"deduplication", "contradiction_repair", "abstraction", "decay_archival"}
Ops == Strategies \union {"idle", "retrieve", "rollback"}

NoRecords == [i \in Ids |-> Null]
Snapshots == [Ids -> MemoryOrNull]
Bases     == [mem : Snapshots, edges : SUBSET Edges]
Diffs     == [changes : Seq(Changes), links : Seq(Edges), base : Bases]

TypeOK ==
    /\ mem \in Snapshots
    /\ gmem \in Snapshots
    /\ edges \subseteq Edges
    /\ vec \subseteq Ids
    /\ copying \in Ids \union {Null}
    /\ now \in Time
    /\ log \in Seq(Diffs)
    /\ crashes \in Nat
    /\ op \in Ops
    /\ work \subseteq (Ids \X Ids) \union Topics
    /\ snap \in Snapshots
    /\ known \subseteq Edges
    /\ todo \in Seq(Writes)
    /\ changes \in Seq(Changes)
    /\ links \in Seq(Edges)
    /\ base \in Bases

Init ==
    /\ mem = NoRecords /\ gmem = NoRecords /\ edges = {} /\ vec = {} /\ copying = Null
    /\ now = 0 /\ log = <<>> /\ crashes = 0
    /\ op = "idle" /\ work = {} /\ snap = NoRecords /\ known = {}
    /\ todo = <<>> /\ changes = <<>> /\ links = <<>>
    /\ base = [mem |-> NoRecords, edges |-> {}]

-----------------------------------------------------------------------------
(***************************************************************************)
(* Reading the stores.                                                     *)
(***************************************************************************)
Active == {i \in Ids : IsActive(mem[i])}

ActiveSnapshot == [i \in Ids |-> IF i \in Active THEN mem[i] ELSE Null]

\* _get_neighbor_memory: the graph store's copy, or the memory store's where it has none.
GraphCopy(i) == IF SharedStore \/ gmem[i] = Null THEN mem[i] ELSE gmem[i]

\* The members of topic t that AbstractionDreamStrategy groups, of the active
\* memories in recs.
Members(t, recs) == {i \in Ids : IsActive(recs[i]) /\ TopicOf[i] = t /\ i \notin Summaries}

Neighbours(i) == {j \in Ids : \E k \in EdgeKinds : <<k, i, j>> \in edges \/ <<k, j, i>> \in edges}

\* Sorting by observed_at is stable, so ties stay in listing order.
Earlier(i, j) ==
    \/ mem[i].observed < mem[j].observed
    \/ mem[i].observed = mem[j].observed /\ i < j

(***************************************************************************)
(* The nested loops over members[:-1] and members[index + 1:] visit the    *)
(* pairs lexicographically, in an order of the members of one list; pairs  *)
(* of different topics touch different memories, so their order is free.   *)
(***************************************************************************)
IsFirst(p, order) ==
    /\ p \in work
    /\ \A q \in work \ {p} :
         <<p[1], q[1]>> \in order \/ (p[1] = q[1] /\ <<p[2], q[2]>> \in order)

ListingOrder == {q \in Ids \X Ids : q[1] < q[2]}

ObservedOrder ==
    LET read == {i \in Ids : snap[i] # Null}
    IN {q \in read \X read : \/ snap[q[1]].observed < snap[q[2]].observed
                             \/ snap[q[1]].observed = snap[q[2]].observed /\ q[1] < q[2]}

-----------------------------------------------------------------------------
(***************************************************************************)
(* The frame of a call.                                                    *)
(***************************************************************************)
\* Nothing is in progress: no call, and no write.
Ready == op = "idle" /\ copying = Null

Begin(kind, toExamine) ==
    /\ Ready
    /\ op' = kind
    /\ work' = toExamine
    /\ snap' = ActiveSnapshot
    /\ known' = edges
    /\ base' = [mem |-> mem, edges |-> edges]
    /\ UNCHANGED <<stores, now, crashes>>

BeginRun(kind, toExamine) ==
    /\ Len(log) < MaxRuns
    /\ toExamine # {}
    /\ Begin(kind, toExamine)
    /\ UNCHANGED <<log, todo, changes, links>>

Return ==
    /\ op' = "idle" /\ work' = {} /\ snap' = NoRecords /\ known' = {}
    /\ todo' = <<>> /\ changes' = <<>> /\ links' = <<>>
    /\ base' = [mem |-> NoRecords, edges |-> {}]

\* Queued writes reach the stores before the call reads them again.
Examine(kind) == op = kind /\ todo = <<>> /\ copying = Null

\* Fault: only the ids archived at the end of a diff are deleted.
NewlyArchivedLast ==
    IF changes # <<>> /\ Last(changes).after.archived THEN {Last(changes).id} ELSE {}

\* The ids whose vectors run_strategy deletes once the strategy has returned.
NewlyArchived ==
    {c.id : c \in {d \in ToSet(changes) : d.after.archived /\ (d.before = Null \/ ~d.before.archived)}}

\* DreamRunner.run_strategy, after a strategy that changed something.
FinishRun ==
    /\ op \in Strategies /\ work = {} /\ todo = <<>> /\ copying = Null /\ changes # <<>>
    /\ log' = Append(log, [changes |-> changes, links |-> links, base |-> base])
    /\ vec' = IF CommandLine THEN vec ELSE vec \ NewlyArchived
    /\ Return
    /\ UNCHANGED <<mem, gmem, edges, copying, now, crashes>>

\* The strategy returned None, or the call was not a dream run.
FinishCall ==
    /\ op # "idle" /\ work = {} /\ todo = <<>> /\ copying = Null /\ changes = <<>>
    /\ Return
    /\ UNCHANGED <<stores, now, log, crashes>>

\* One put, one upsert_edge: each its own transaction.
ApplyWrite ==
    /\ todo # <<>> /\ copying = Null
    /\ todo' = Tail(todo)
    /\ LET w == Head(todo)
       IN \/ /\ w.type = "memory"
             /\ mem' = [mem EXCEPT ![w.id] = w.rec]
             /\ vec' = IF w.reindex THEN vec \union {w.id} ELSE vec
             /\ copying' = IF w.graph /\ ~SharedStore THEN w.id ELSE Null
             /\ UNCHANGED edges
          \/ /\ w.type = "link"
             /\ edges' = edges \union {w.edge}
             /\ UNCHANGED <<mem, vec, copying>>
          \/ /\ w.type = "unlink"
             /\ edges' = edges \ {w.edge}
             /\ UNCHANGED <<mem, vec, copying>>
    /\ UNCHANGED <<gmem, now, log, crashes, op, work, snap, known, changes, links, base>>

\* upsert_memory of the record just put, to a graph store with copies of its own.
CopyWrite ==
    /\ copying # Null
    /\ gmem' = [gmem EXCEPT ![copying] = mem[copying]]
    /\ copying' = Null
    /\ UNCHANGED <<mem, edges, vec, now, log, crashes, call>>

-----------------------------------------------------------------------------
(***************************************************************************)
(* Deduplication.                                                          *)
(***************************************************************************)
\* Fault: the inner loop starts one member too far.
BeginDeduplicationSkipping ==
    BeginRun("deduplication",
             {p \in Active \X Active : p[1] + 1 < p[2] /\ SameTopic(p[1], p[2])})

BeginDeduplication ==
    BeginRun("deduplication",
             {p \in Active \X Active : p[1] < p[2] /\ SameTopic(p[1], p[2])})

\* Fault: memory_index keeps the records read when the run began.
MergeStaleIndex(c, d) ==
    LET canonical == CanonicalAfter(snap[c], snap[d], d)
        duplicate == DuplicateAfter(snap[d], c)
    IN /\ todo' = <<Put(c, canonical, TRUE, FALSE), Put(d, duplicate, TRUE, FALSE),
                    Link(SameAs(d, c)), Link(DerivedFrom(c, d))>>
       /\ changes' = changes \o <<Change(c, snap[c], canonical), Change(d, snap[d], duplicate)>>
       /\ links' = links \o <<SameAs(d, c), DerivedFrom(c, d)>>
       /\ snap' = snap

\* _merge_pair, where both members are still active and similar.
Merge(c, d) ==
    LET canonical == CanonicalAfter(snap[c], snap[d], d)
        duplicate == DuplicateAfter(snap[d], c)
    IN /\ todo' = <<Put(c, canonical, TRUE, FALSE), Put(d, duplicate, TRUE, FALSE),
                    Link(SameAs(d, c)), Link(DerivedFrom(c, d))>>
       /\ changes' = changes \o <<Change(c, snap[c], canonical), Change(d, snap[d], duplicate)>>
       /\ links' = links \o <<SameAs(d, c), DerivedFrom(c, d)>>
       /\ snap' = [snap EXCEPT ![c] = canonical, ![d] = duplicate]

Mergeable(p) ==
    IsActive(snap[p[1]]) /\ IsActive(snap[p[2]]) /\ IsMergeCandidate(p[1], p[2])

MergePair ==
    /\ Examine("deduplication")
    /\ \E p \in Ids \X Ids :
         /\ IsFirst(p, ListingOrder)
         /\ Mergeable(p)
         /\ work' = work \ {p}
         /\ IF Better(snap[p[2]], snap[p[1]]) THEN Merge(p[2], p[1]) ELSE Merge(p[1], p[2])
    /\ UNCHANGED <<stores, now, log, crashes, op, known, base>>

PassPair ==
    /\ Examine("deduplication")
    /\ \E p \in Ids \X Ids :
         IsFirst(p, ListingOrder) /\ ~Mergeable(p) /\ work' = work \ {p}
    /\ UNCHANGED <<stores, now, log, crashes, op, snap, known, todo, changes, links, base>>

(***************************************************************************)
(* Contradiction repair.  The older memory is read again from the store,   *)
(* the newer one is the copy read when the run began.                      *)
(***************************************************************************)
\* Fault: members are paired in listing order.
BeginRepairUnsorted ==
    BeginRun("contradiction_repair",
             {p \in Active \X Active : p[1] < p[2] /\ SameTopic(p[1], p[2])})

\* Fault: each member is compared with the next one only.
BeginRepairAdjacent ==
    BeginRun("contradiction_repair",
             {p \in Active \X Active :
                 /\ p[1] # p[2] /\ Earlier(p[1], p[2]) /\ SameTopic(p[1], p[2])
                 /\ ~\E i \in Active \ {p[1], p[2]} :
                        Earlier(p[1], i) /\ Earlier(i, p[2]) /\ SameTopic(i, p[1])})

BeginRepair ==
    BeginRun("contradiction_repair",
             {p \in Active \X Active :
                 p[1] # p[2] /\ Earlier(p[1], p[2]) /\ SameTopic(p[1], p[2])})

\* Fault: the older memory is not read again either.
StaleOlder(o) == snap[o]

FreshOlder(o) == mem[o]

NeedsRepair(p) == p \in Conflict /\ Contradicts(p[1], p[2]) \notin known

Repair(o, n) ==
    LET older == OlderAfter(FreshOlder(o), n)
        newer == NewerAfter(snap[n], o)
    IN /\ todo' = <<Put(o, older, TRUE, FALSE), Put(n, newer, TRUE, FALSE),
                    Link(Contradicts(o, n))>>
       /\ changes' = changes \o <<Change(o, FreshOlder(o), older), Change(n, snap[n], newer)>>
       /\ links' = Append(links, Contradicts(o, n))
       /\ known' = known \union {Contradicts(o, n)}

RepairPair ==
    /\ Examine("contradiction_repair")
    /\ \E p \in Ids \X Ids :
         /\ IsFirst(p, ObservedOrder)
         /\ NeedsRepair(p)
         /\ work' = work \ {p}
         /\ Repair(p[1], p[2])
    /\ UNCHANGED <<stores, now, log, crashes, op, snap, base>>

SkipPair ==
    /\ Examine("contradiction_repair")
    /\ \E p \in Ids \X Ids :
         IsFirst(p, ObservedOrder) /\ ~NeedsRepair(p) /\ work' = work \ {p}
    /\ UNCHANGED <<stores, now, log, crashes, op, snap, known, todo, changes, links, base>>

(***************************************************************************)
(* Abstraction: one summary per topic with two or more active members and  *)
(* no active summary.                                                      *)
(***************************************************************************)
BeginAbstraction ==
    BeginRun("abstraction",
             {t \in Topics : /\ Cardinality(Members(t, mem)) >= 2
                             /\ \A s \in Summaries \intersect Active : TopicOf[s] # t})

\* Fault: the edges to the members are written before the summary.
SummaryWritesLinksFirst(s, rec, added) ==
    [k \in 1 .. Len(added) |-> Link(added[k])] \o <<Put(s, rec, TRUE, FALSE)>>

SummaryWrites(s, rec, added) ==
    <<Put(s, rec, TRUE, FALSE)>> \o [k \in 1 .. Len(added) |-> Link(added[k])]

Summarise(t) ==
    LET members == Members(t, snap)
        s       == SummaryId[t, now]
    IN /\ Examine("abstraction")
       /\ t \in work
       /\ work' = work \ {t}
       /\ \E order \in Ascending(members), low \in members, high \in members :
            LET rec   == SummaryOf(snap[low], snap[high], now)
                added == [k \in 1 .. Len(order) |-> Summarizes(s, order[k])]
            IN /\ \A m \in members : /\ snap[low].trust <= snap[m].trust
                                      /\ snap[high].salience >= snap[m].salience
               /\ todo' = SummaryWrites(s, rec, added)
               /\ changes' = Append(changes, Change(s, Null, rec))
               /\ links' = links \o added
       /\ UNCHANGED <<stores, now, log, crashes, op, snap, known, base>>

(***************************************************************************)
(* Decay archival.                                                         *)
(***************************************************************************)
Expired == {i \in Active : IsExpired(mem[i], now)}

\* Fault: what expired is archived in the memory store only.
BeginDecayStoreOnly ==
    /\ Len(log) < MaxRuns
    /\ Expired # {}
    /\ Begin("decay_archival", {})
    /\ \E order \in Ascending(Expired) :
         /\ todo' = [k \in 1 .. Len(order) |->
                        Put(order[k], Archived(mem[order[k]]), FALSE, FALSE)]
         /\ changes' = [k \in 1 .. Len(order) |->
                           Change(order[k], mem[order[k]], Archived(mem[order[k]]))]
    /\ UNCHANGED <<log, links>>

BeginDecay ==
    /\ Len(log) < MaxRuns
    /\ Expired # {}
    /\ Begin("decay_archival", {})
    /\ \E order \in Ascending(Expired) :
         /\ todo' = [k \in 1 .. Len(order) |->
                        Put(order[k], Archived(mem[order[k]]), TRUE, FALSE)]
         /\ changes' = [k \in 1 .. Len(order) |->
                           Change(order[k], mem[order[k]], Archived(mem[order[k]]))]
    /\ UNCHANGED <<log, links>>

-----------------------------------------------------------------------------
(***************************************************************************)
(* Rollback: edges newest first, then memories newest first.  A diff read  *)
(* from a file has lost what FromSnapshot drops, and the CLI's runner has  *)
(* no vector store.                                                        *)
(***************************************************************************)
\* Fault: only the memory store is restored.
UndoChangeStoreOnly(c) ==
    IF c.before = Null
    THEN Put(c.id, Archived(c.after), FALSE, FALSE)
    ELSE Put(c.id, c.before, FALSE, c.after.archived /\ ~c.before.archived)

UndoChange(c) ==
    IF c.before = Null
    THEN Put(c.id, Archived(IF CommandLine THEN FromSnapshot(c.after) ELSE c.after), TRUE, FALSE)
    ELSE Put(c.id, IF CommandLine THEN FromSnapshot(c.before) ELSE c.before, TRUE,
             ~CommandLine /\ c.after.archived /\ ~c.before.archived)

\* Fault: changes are undone oldest first.
UndoWritesForward(diff) ==
    [k \in 1 .. Len(diff.links) |-> Unlink(diff.links[k])]
      \o [k \in 1 .. Len(diff.changes) |-> UndoChange(diff.changes[k])]

\* Fault: the edges of the run stay.
UndoWritesKeepLinks(diff) ==
    LET restores == Reverse(diff.changes)
    IN [k \in 1 .. Len(restores) |-> UndoChange(restores[k])]

\* Fault: memories are restored before the edges go.
UndoWritesMemoriesFirst(diff) ==
    LET unlinks  == Reverse(diff.links)
        restores == Reverse(diff.changes)
    IN [k \in 1 .. Len(restores) |-> UndoChange(restores[k])]
         \o [k \in 1 .. Len(unlinks) |-> Unlink(unlinks[k])]

UndoWrites(diff) ==
    LET unlinks  == Reverse(diff.links)
        restores == Reverse(diff.changes)
    IN [k \in 1 .. Len(unlinks) |-> Unlink(unlinks[k])]
         \o [k \in 1 .. Len(restores) |-> UndoChange(restores[k])]

BeginRollback(k) ==
    /\ Ready
    /\ k = Len(log) \/ AnyOrder
    /\ op' = "rollback"
    /\ todo' = UndoWrites(log[k])
    /\ base' = log[k].base
    /\ log' = RemoveAt(log, k)
    /\ UNCHANGED <<stores, now, crashes, work, snap, known, changes, links>>

-----------------------------------------------------------------------------
(***************************************************************************)
(* The other callers of the stores.                                        *)
(***************************************************************************)

\* CanonicalIngestor.ingest_envelopes of one artifact with a fresh id and no caused_by,
\* so without edges.  (A half-life comes only from callers that put the memory.)
Ingest(i) ==
    /\ Ready
    /\ mem[i] = Null
    /\ mem' = [mem EXCEPT ![i] = FreshMemory(i)]
    /\ vec' = IF CommandLine THEN vec ELSE vec \union {i}
    /\ copying' = IF SharedStore THEN Null ELSE i
    /\ UNCHANGED <<gmem, edges, now, log, crashes, call>>

(***************************************************************************)
(* RetrievalService.retrieve selects active memories; those in `viaGraph'  *)
(* were reached as neighbours of a seed and carry the graph store's copy,  *)
(* by which alone they are judged active.                                  *)
(* _write_back_access puts each selected copy with its count raised.  (The *)
(* annotations graph_distance and vector_score are not modelled.)          *)
(***************************************************************************)
Selectable == {i \in Ids : IsActive(mem[i]) \/ IsActive(GraphCopy(i))}

Candidate(i, viaGraph) == IF i \in viaGraph THEN GraphCopy(i) ELSE mem[i]

BeginRetrieve(selected, viaGraph) ==
    /\ ~CommandLine
    /\ selected # {} /\ Cardinality(selected) <= TopK
    /\ \A i \in viaGraph : \E seed \in Active \ viaGraph : i \in Neighbours(seed)
    /\ \A i \in selected : IsActive(Candidate(i, viaGraph)) /\ mem[i].access < MaxAccess
    /\ Begin("retrieve", {})
    /\ \E order \in SetToSeqs(selected) :
         todo' = [k \in 1 .. Len(order) |->
                     Put(order[k], Accessed(Candidate(order[k], viaGraph)), FALSE, FALSE)]
    /\ UNCHANGED <<log, changes, links>>

Tick ==
    /\ Ready
    /\ now < MaxTime
    /\ now' = now + 1
    /\ UNCHANGED <<stores, log, crashes, call>>

\* The process dies and a new one opens the same stores.  The vector index and
\* diffs not written to a file die with it, and a copy to be made is never made.
Crash ==
    /\ crashes < MaxCrashes
    /\ crashes' = crashes + 1
    /\ vec' = {} /\ copying' = Null
    /\ log' = IF CommandLine THEN log ELSE <<>>
    /\ Return
    /\ UNCHANGED <<mem, gmem, edges, now>>

Next ==
    \/ \E i \in Atoms : Ingest(i)
    \/ \E selected \in SUBSET Selectable : \E viaGraph \in SUBSET selected :
           BeginRetrieve(selected, viaGraph)
    \/ BeginDeduplication \/ MergePair \/ PassPair
    \/ BeginRepair \/ RepairPair \/ SkipPair
    \/ BeginAbstraction \/ \E t \in Topics : Summarise(t)
    \/ BeginDecay
    \/ \E k \in DOMAIN log : BeginRollback(k)
    \/ ApplyWrite \/ CopyWrite \/ FinishRun \/ FinishCall
    \/ Tick
    \/ Crash

Spec == Init /\ [][Next]_vars

-----------------------------------------------------------------------------
(***************************************************************************)
(* Safety.                                                                 *)
(***************************************************************************)

\* Between calls, in a process that has never crashed.
AtRest == op = "idle" /\ crashes = 0

\* An atom whose same_as edge is live was archived in favour of that canonical
\* memory: at every instant, also between the writes of a merge or of its
\* rollback, and after a crash there (DeduplicationDreamStrategy._merge_pair).
\* (A summary made again in its own second overwrites the one that was merged, and
\* the edge stays.)
MergedAreArchived ==
    \A d \in Atoms, c \in Ids : SameAs(d, c) \in edges =>
        mem[d] # Null /\ mem[d].archived /\ mem[d].canonical = c

\* Following live same_as edges always ends: no set of atoms is merged only into
\* itself, so every duplicate still has a surviving representative.
MergeChainsEnd ==
    \A S \in (SUBSET Atoms) \ {{}} : \E d \in S : \A c \in S : SameAs(d, c) \notin edges

\* Between calls the three records of a merge of atoms agree: the same_as edge,
\* the derived_from edge and the metadata of both memories.
MergeRecordsAgree ==
    AtRest => \A d, c \in Atoms :
        LET merged == SameAs(d, c) \in edges
        IN /\ merged <=> DerivedFrom(c, d) \in edges
           /\ merged <=> mem[d] # Null /\ mem[d].canonical = c
           /\ merged <=> mem[c] # Null /\ d \in mem[c].dups

\* Trust is lowered before the contradiction that justifies it is linked, never
\* after, and between calls it is exactly what the live contradictions cost.
TrustLedger ==
    \A i \in Atoms : mem[i] # Null =>
        LET newer == {n \in Ids : Contradicts(i, n) \in edges}
            owed  == Greatest(10, Trust0[i] - 25 * Cardinality(newer))
        IN /\ newer # {} => mem[i].trust <= owed
           /\ AtRest /\ newer # {} => mem[i].trust = owed
           /\ AtRest /\ newer = {} => mem[i].trust = Trust0[i]

\* Between calls the atoms in the vector index are exactly the active ones.  (A
\* summary is not indexed when it is made, but is when a rollback revives it.)
IndexMatchesActive == AtRest => vec \intersect Atoms = Active \intersect Atoms

\* The two copies of a memory say the same, or the second is about to be made.
CopyKept(i) ==
    \/ copying = i
    \/ /\ gmem[i] = Null <=> mem[i] = Null
       /\ mem[i] # Null => gmem[i] = [mem[i] EXCEPT !.access = gmem[i].access]

\* A graph store with copies of its own agrees with the memory store on all but
\* accesses, at every instant of a process that has never crashed: no call changes
\* one of them and leaves the other (DreamRunner, the strategies, the ingestor).
GraphCopyAgrees == ~SharedStore /\ crashes = 0 => \A i \in Ids : CopyKept(i)

\* Every edge joins two stored memories, also after a crash between the writes
\* of a run: a summary is stored before the edges to its members.
NoDanglingEdges == \A e \in edges : mem[e[2]] # Null /\ mem[e[3]] # Null

\* What a call has read is stored, and a repair has read what it is to examine.
ReadAreStored ==
    /\ \A i \in Ids : snap[i] # Null => mem[i] # Null
    /\ op = "contradiction_repair" =>
           \A p \in work : snap[p[1]] # Null /\ snap[p[2]] # Null

\* The ends of an edge to be written are stored, or will be by then.
LinksFollowMemories ==
    \A k \in DOMAIN todo : todo[k].type = "link" =>
        \A i \in {todo[k].edge[2], todo[k].edge[3]} :
            mem[i] # Null \/ \E j \in 1 .. k - 1 : todo[j].type = "memory" /\ todo[j].id = i

\* The inductive invariant behind NoDanglingEdges: every edge a call has queued,
\* or has written before a crash cut it short, joins stored memories.
StoredInv == TypeOK /\ ReadAreStored /\ LinksFollowMemories /\ NoDanglingEdges

\* superseded_by points forward in time, so supersession never runs in a circle.
SupersessionForward ==
    \A i \in Ids : mem[i] # Null /\ mem[i].supersededBy # Null =>
        mem[mem[i].supersededBy] # Null /\ Earlier(i, mem[i].supersededBy)

\* The records of memory i that supersede forward, where S holds the stored ids.
ObservedOf(i) ==
    IF i \in Atoms THEN ObservedAt[i]
    ELSE CHOOSE at \in Time : \E t \in Topics : SummaryId[<<t, at>>] = i

Forward(i, j) ==
    ObservedOf(i) < ObservedOf(j) \/ (ObservedOf(i) = ObservedOf(j) /\ i < j)

Faithful(i, S) ==
    {r \in Memory : /\ r.observed = ObservedOf(i)
                    /\ r.supersededBy \in {Null} \union {j \in S : Forward(i, j)}}

FaithfulCopies(S) ==
    {m \in Snapshots : \A i \in Ids : m[i] # Null => m[i] \in Faithful(i, S)}
FaithfulWrites(S) == {w \in Writes : w.type = "memory" => w.rec \in Faithful(w.id, S)}
FaithfulChanges(S) ==
    {c \in Changes : c.before \in {Null} \union Faithful(c.id, S) /\ c.after \in Faithful(c.id, S)}
FaithfulDiffs(S) == {d \in Diffs : d.changes \in Seq(FaithfulChanges(S))}

Stored == {i \in Ids : mem[i] # Null}

\* The inductive invariant behind SupersessionForward: every copy of a record, in
\* the stores, a call or a diff, says when its memory was observed and that only
\* something later supersedes it; and a repair pairs older with newer.
RecordsFaithful ==
    /\ {mem, gmem, snap} \subseteq FaithfulCopies(Stored)
    /\ todo \in Seq(FaithfulWrites(Stored))
    /\ changes \in Seq(FaithfulChanges(Stored))
    /\ log \in Seq(FaithfulDiffs(Stored))
    /\ op = "contradiction_repair" => \A p \in work : Forward(p[1], p[2])

-----------------------------------------------------------------------------
(***************************************************************************)
(* Action properties.                                                      *)
(***************************************************************************)
Returns(kind) == op = kind /\ op' = "idle" /\ crashes' = crashes

SameButAccess(r, s) == s # Null /\ r = [s EXCEPT !.access = r.access]

\* Copies once made the same part only when a crash falls between the two writes of
\* that memory: a crash spoils one memory's copy and no call spoils another, also in
\* a process that started on copies that had parted already.
OnlyCrashesPartCopies ==
    [][~SharedStore => \A i \in Ids :
        CopyKept(i) => CopyKept(i)' \/ (crashes' # crashes /\ copying = i)]_vars

\* Rolling a run back makes the active memories and the live edges what they
\* were before it, leaving alone what was ingested since.
RollbackRestores ==
    [][Returns("rollback") =>
        /\ edges = base.edges
        /\ \A i \in Ids :
             IF IsActive(base.mem[i]) THEN SameButAccess(base.mem[i], mem[i])
             ELSE IsActive(mem[i]) => base.mem[i] = Null /\ i \in Atoms]_vars

\* One deduplication pass is enough: it leaves no two active memories that
\* another pass would merge.
DeduplicationComplete ==
    [][Returns("deduplication") =>
        \A l, r \in Active : l < r /\ SameTopic(l, r) => ~IsMergeCandidate(l, r)]_vars

\* One repair pass links every conflicting pair of active memories of a topic.
RepairComplete ==
    [][Returns("contradiction_repair") =>
        \A l, r \in Active : Earlier(l, r) /\ SameTopic(l, r) /\ <<l, r>> \in Conflict =>
            Contradicts(l, r) \in edges]_vars

\* An archived atom comes back only by a rollback, or by a retrieval that writes back
\* the copy a crash has left in a graph store of its own.  (A summary made again in the
\* second of an archived one takes its id, and overwrites it.)
OnlyRollbackRevives ==
    [][\A i \in Atoms : (mem[i] # Null /\ mem[i].archived /\ ~mem'[i].archived) =>
        op = "rollback" \/ (op = "retrieve" /\ ~SharedStore /\ ~CopyKept(i))]_vars

\* Every write of a retrieval raises the access count of the memory it selected
\* by one, and undoes nothing that a run or a rollback has stored in it.
RetrievalCounts ==
    [][op = "retrieve" /\ op' = "retrieve" =>
        mem' = [mem EXCEPT ![Head(todo).id].access = @ + 1]]_vars
=============================================================================
