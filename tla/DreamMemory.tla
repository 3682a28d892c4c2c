---------------------------- MODULE DreamMemory ----------------------------
(***************************************************************************)
(* The data of cellin's dreaming subsystem and the pure functions its      *)
(* strategies compute on it: memory atoms, graph edges, the before/after   *)
(* changes of a dream diff, and the store writes a call queues.            *)
(*                                                                         *)
(* Text is abstracted to two symmetric relations, Similar (token overlap   *)
(* at or above the deduplication threshold) and Conflict (the negation and *)
(* number heuristics).  Scores are integers in hundredths.                 *)
(***************************************************************************)
EXTENDS Integers, FiniteSets, SequencesExt

CONSTANTS
    Atoms,       \* ids of the memories a caller ingests
    Topics,      \* the topics that occur in memory metadata
    SummaryId,   \* SummaryId[t, at]: the id of topic t's summary made at time at
    TopicOf,     \* TopicOf[i]: the topic of memory i, or Null
    Similar,     \* pairs of ids whose texts reach similarity_threshold
    Conflict,    \* pairs of ids for which _contains_conflict holds
    ObservedAt,  \* ObservedAt[i]: observed_at of atom i
    Trust0,      \* Trust0[i]: trust_score of atom i when it is ingested
    Salience0,   \* Salience0[i]: salience_score of atom i when it is ingested
    HalfLife0,   \* HalfLife0[i]: half_life_days of atom i, or Null
    MaxTime,     \* bound on the clock
    Null         \* Python's None

Time == 0 .. MaxTime

\* Only ids of the form dream-<topic>-<time> are of kind DREAM.
Summaries == {SummaryId[k] : k \in Topics \X Time}

Ids == Atoms \union Summaries

Scores == 0 .. 100

(***************************************************************************)
(* MemoryAtom, with the fields dreaming reads or writes; provenance is the *)
(* source_type, and the metadata keys stand as fields: canonical, dups,    *)
(* supersededBy and contradicts for canonical_memory_id,                   *)
(* deduplicated_memory_ids, superseded_by and contradicts.                 *)
(***************************************************************************)
Memory ==
    [provenance   : {"ingest", "dream", "rollback"},
     archived     : BOOLEAN,
     trust        : Scores,
     salience     : Scores,
     access       : Nat,
     observed     : Nat,
     halfLife     : Nat \union {Null},
     canonical    : Ids \union {Null},
     dups         : SUBSET Ids,
     supersededBy : Ids \union {Null},
     contradicts  : Ids \union {Null}]

MemoryOrNull == Memory \union {Null}

\* An edge id spells out its kind and its two ends, so it stands for the edge.
EdgeKinds == {"same_as", "derived_from", "contradicts", "summarizes"}
Edges == EdgeKinds \X Ids \X Ids

SameAs(d, c)      == <<"same_as", d, c>>
DerivedFrom(c, d) == <<"derived_from", c, d>>
Contradicts(o, n) == <<"contradicts", o, n>>
Summarizes(s, m)  == <<"summarizes", s, m>>

\* DreamMemoryChange, and the two primitive writes of a call.
Changes == [id : Ids, before : MemoryOrNull, after : Memory]
Writes ==
    [type : {"memory"}, id : Ids, rec : Memory, graph : BOOLEAN, reindex : BOOLEAN]
      \union [type : {"link", "unlink"}, edge : Edges]

\* memory_store.put(rec), followed by graph_store.upsert_memory(rec) when graph,
\* and by vector_store.upsert when reindex.
Put(i, rec, graph, reindex) ==
    [type |-> "memory", id |-> i, rec |-> rec, graph |-> graph, reindex |-> reindex]
Link(e)   == [type |-> "link", edge |-> e]
Unlink(e) == [type |-> "unlink", edge |-> e]
Change(i, before, after) == [id |-> i, before |-> before, after |-> after]

ASSUME ConstantsAssumption ==
    /\ MaxTime \in Nat
    /\ SummaryId \in [Topics \X Time -> Nat]
    /\ Ids \subseteq Nat
    /\ IsFiniteSet(Ids)
    /\ Null \notin Ids /\ Null \notin Nat /\ Null \notin Memory /\ Null \notin Topics
    /\ Atoms \intersect Summaries = {}
    /\ TopicOf \in [Ids -> Topics \union {Null}]
    /\ \A k \in Topics \X Time : TopicOf[SummaryId[k]] = k[1]
    /\ \A j, k \in Topics \X Time : SummaryId[j] = SummaryId[k] => j = k
    /\ Similar \subseteq Ids \X Ids
    /\ Conflict \subseteq Ids \X Ids
    /\ \A p \in Similar : <<p[2], p[1]>> \in Similar
    /\ \A p \in Conflict : <<p[2], p[1]>> \in Conflict
    /\ ObservedAt \in [Atoms -> Nat]
    /\ Trust0 \in [Atoms -> Scores]
    /\ Salience0 \in [Atoms -> Scores]
    /\ HalfLife0 \in [Atoms -> Nat \union {Null}]

-----------------------------------------------------------------------------
Least(a, b)    == IF a < b THEN a ELSE b
Greatest(a, b) == IF a > b THEN a ELSE b

\* The order in which a store lists the memories of S: by id, as the SQL stores do.
\* (The in-memory store lists in insertion order, the same up to the naming of ids.)
Ascending(S) == {q \in SetToSeqs(S) : \A j, k \in DOMAIN q : j < k => q[j] < q[k]}

IsActive(rec) == rec # Null /\ ~rec.archived

\* A memory as it is first persisted.
FreshMemory(i) ==
    [provenance |-> "ingest", archived |-> FALSE, trust |-> Trust0[i], salience |-> Salience0[i], access |-> 0,
     observed |-> ObservedAt[i], halfLife |-> HalfLife0[i], canonical |-> Null,
     dups |-> {}, supersededBy |-> Null, contradicts |-> Null]

\* Fault: the count is set, not raised.
AccessedOnce(rec) == [rec EXCEPT !.access = 1]

Accessed(rec) == [rec EXCEPT !.access = @ + 1]

Archived(rec) == [rec EXCEPT !.archived = TRUE]

SameTopic(l, r) == TopicOf[l] \in Topics /\ TopicOf[l] = TopicOf[r]

\* _is_merge_candidate
IsMergeCandidate(l, r) == <<l, r>> \notin Conflict /\ <<l, r>> \in Similar

\* The key of _best_memory: trust, then salience, then accesses, then recency.
Better(a, b) ==
    \/ a.trust > b.trust
    \/ a.trust = b.trust /\ a.salience > b.salience
    \/ a.trust = b.trust /\ a.salience = b.salience /\ a.access > b.access
    \/ /\ a.trust = b.trust /\ a.salience = b.salience /\ a.access = b.access
       /\ a.observed > b.observed

\* Fault: the list of absorbed memories is replaced, not extended.
CanonicalAfterForgetful(c, dup, d) ==
    [c EXCEPT !.salience = Least(100, @ + 5), !.access = @ + dup.access, !.dups = {d}]

\* _updated_dedup_memories
CanonicalAfter(c, dup, d) ==
    [c EXCEPT !.salience = Least(100, @ + 5),
              !.access   = @ + dup.access,
              !.dups     = @ \union {d}]
DuplicateAfter(dup, c) == [dup EXCEPT !.archived = TRUE, !.canonical = c]

\* Fault: no floor under trust.
OlderAfterNoFloor(older, n) == [older EXCEPT !.trust = @ - 25, !.supersededBy = n]

\* _updated_contradiction_memories
OlderAfter(older, n) ==
    [older EXCEPT !.trust = Greatest(10, @ - 25), !.supersededBy = n]
NewerAfter(newer, o) ==
    [newer EXCEPT !.salience = Least(100, @ + 10), !.contradicts = o]

\* The summary AbstractionDreamStrategy builds at time `at', where low is a member
\* of least trust and high one of greatest salience.
SummaryOf(low, high, at) ==
    [provenance |-> "dream", archived |-> FALSE, trust |-> low.trust,
     salience |-> Least(100, high.salience + 5), access |-> 0, observed |-> at,
     halfLife |-> Null, canonical |-> Null, dups |-> {}, supersededBy |-> Null,
     contradicts |-> Null]

\* age_days > half_life_days
IsExpired(rec, at) == rec.halfLife # Null /\ at - rec.observed > rec.halfLife

\* A memory read back from a diff file: the snapshot holds neither its provenance
\* nor, of its decay state, anything but the archived flag.
FromSnapshot(rec) == [rec EXCEPT !.provenance = "rollback", !.halfLife = Null]
=============================================================================
