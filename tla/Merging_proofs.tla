---------------------------- MODULE Merging_proofs ----------------------------
(***************************************************************************)
(* What the calls of Dreaming do to the records of a memory: the graph     *)
(* store's copies, accesses, merges and their rollback, for any memories,  *)
(* relations and numbers of runs.                                          *)
(***************************************************************************)
EXTENDS Dreaming_proofs

-----------------------------------------------------------------------------
(***************************************************************************)
(* The invariant of every process.                                         *)
(***************************************************************************)
\* The process reads no copy that a crash has left behind.
CopiesWhole == SharedStore \/ crashes = 0

\* A copy in the graph store differs in accesses at most, also within a call, or it
\* is the next thing to be written.
CopiesAgree ==
    /\ crashes \in 0 .. MaxCrashes
    /\ GraphCopyAgrees
    /\ copying # Null => ~SharedStore /\ mem[copying] # Null /\ op # "retrieve"

\* What a retrieval writes back is the memory, or the graph store's copy of it.
IsWrittenBack(w) ==
    /\ w.type = "memory" /\ ~w.graph
    /\ \/ SameButAccess(w.rec, mem[w.id])
       \/ ~SharedStore /\ SameButAccess(w.rec, gmem[w.id])
    /\ CopiesWhole => IsActive(mem[w.id]) /\ SameButAccess(w.rec, mem[w.id])
    /\ SharedStore => w.rec = Accessed(mem[w.id])

\* Retrievals write accesses, each memory once; the other calls write both stores.
WritesAreWhole ==
    /\ op = "idle" => todo = <<>>
    /\ op # "retrieve" => \A k \in DOMAIN todo : todo[k].type = "memory" => todo[k].graph
    /\ op = "retrieve" => \A k \in DOMAIN todo :
          /\ IsWrittenBack(todo[k])
          /\ \A j \in DOMAIN todo : j # k => todo[j].id # todo[k].id

\* memory_index agrees with the store but for the memories of S.
CurrentBut(S) == \A i \in Ids \ S : snap[i] # Null => mem[i] = snap[i]

\* The merge of d into c as far as it has come.
Merging(c, d) ==
    LET putC == Put(c, snap[c], TRUE, FALSE)
        putD == Put(d, snap[d], TRUE, FALSE)
        same == Link(SameAs(d, c))
        derived == Link(DerivedFrom(c, d))
    IN  /\ c # d
        /\ IsActive(snap[c]) /\ IsActive(mem[c])
        /\ snap[d] # Null /\ snap[d].archived /\ snap[d].canonical = c
        /\ \/ todo = <<putC, putD, same, derived>> /\ IsActive(mem[d]) /\ CurrentBut({c, d})
           \/ todo = <<putD, same, derived>> /\ IsActive(mem[d]) /\ CurrentBut({d})
           \/ todo = <<same, derived>> /\ CurrentBut({})
           \/ todo = <<derived>> /\ CurrentBut({})

DeduplicationIsCurrent ==
    op = "deduplication" =>
        /\ \A p \in work : p[1] # p[2]
        /\ \/ todo = <<>> /\ CurrentBut({})
           \/ \E c, d \in Ids : Merging(c, d)

RepairIsCurrent ==
    op = "contradiction_repair" =>
        /\ \A i \in Ids : snap[i] # Null => IsActive(snap[i]) /\ IsActive(mem[i])
        /\ \A k \in DOMAIN todo :
              IF todo[k].type = "memory" THEN IsActive(todo[k].rec) /\ snap[todo[k].id] # Null
              ELSE todo[k].edge[1] = "contradicts"

\* The other calls: what they write, and which edges.
WritesOfOthers ==
    /\ op = "abstraction" => \A k \in DOMAIN todo :
          IF todo[k].type = "memory" THEN todo[k].id \in Summaries
          ELSE todo[k].edge[1] = "summarizes"
    /\ op = "decay_archival" => \A k \in DOMAIN todo :
          todo[k].type = "memory" /\ todo[k].rec.archived
    /\ IF op = "rollback" THEN \A k \in DOMAIN todo : todo[k].type # "link"
       ELSE \A k \in DOMAIN todo : todo[k].type # "unlink"

RecordInv ==
    /\ StoredInv
    /\ CopiesAgree /\ WritesAreWhole
    /\ DeduplicationIsCurrent /\ RepairIsCurrent /\ WritesOfOthers

-----------------------------------------------------------------------------
(***************************************************************************)
(* The invariant of a process that rolls back the newest diff only.        *)
(***************************************************************************)
\* The atoms that edges es say are merged.
MergedIn(es) == {d \in Atoms : \E c \in Ids : SameAs(d, c) \in es}

\* No queued write reaches a merged atom before its edge has been removed.
WritesSpareMerged ==
    \A k \in DOMAIN todo : todo[k].type = "memory" /\ todo[k].id \in Atoms =>
        \A c \in Ids : SameAs(todo[k].id, c) \in edges =>
            \E j \in 1 .. k - 1 : todo[j] = Unlink(SameAs(todo[k].id, c))

\* Only runs have a diff.  What a run has linked is in its diff, and what a rollback has still to unlink
\* in its queue.
EdgesAreAccountedFor ==
    /\ \A k \in DOMAIN todo : todo[k].type = "link" => todo[k].edge \in ToSet(links)
    /\ op \notin Strategies => changes = <<>>
    /\ changes = <<>> => links = <<>>
    /\ op \in Strategies \cup {"retrieve"} =>
          base.edges \subseteq edges /\ edges \subseteq base.edges \cup ToSet(links)
    /\ op = "rollback" =>
          \A e \in edges : e \in base.edges \/ \E k \in DOMAIN todo : todo[k] = Unlink(e)

\* A run changes no atom that was merged before it.
SparesMerged(list, es) == \A n \in DOMAIN list : list[n].id \notin MergedIn(es)

\* The diffs are a stack: each found the edges that the one before it left.
EdgesAfter(diff) == diff.base.edges \cup ToSet(diff.links)
DiffsAreStacked ==
    /\ SparesMerged(changes, base.edges)
    /\ \A k \in DOMAIN log : SparesMerged(log[k].changes, log[k].base.edges)
    /\ \A k \in DOMAIN log : k + 1 \in DOMAIN log => log[k + 1].base.edges \subseteq EdgesAfter(log[k])
    /\ log # <<>> => (IF op = "idle" THEN edges ELSE base.edges) \subseteq EdgesAfter(log[Len(log)])

MergeInv ==
    /\ RecordInv
    /\ MergedAreArchived /\ MergeChainsEnd
    /\ WritesSpareMerged /\ EdgesAreAccountedFor /\ DiffsAreStacked

-----------------------------------------------------------------------------
(***************************************************************************)
(* Records, writes and lists of them.                                      *)
(***************************************************************************)
\* To differ in accesses at most is an equivalence of records.
LEMMA AccessesAside ==
    ASSUME NEW r \in Memory, NEW s \in Memory
    PROVE  /\ SameButAccess(r, r)
           /\ SameButAccess(r, s) <=>
                 /\ r.provenance = s.provenance /\ r.archived = s.archived
                 /\ r.trust = s.trust /\ r.salience = s.salience
                 /\ r.observed = s.observed /\ r.halfLife = s.halfLife
                 /\ r.canonical = s.canonical /\ r.dups = s.dups
                 /\ r.supersededBy = s.supersededBy /\ r.contradicts = s.contradicts
  <1>1. r # Null /\ s # Null
    BY ConstantsAssumption
  <1>2. SameButAccess(r, r)
    BY <1>1 DEF SameButAccess, Memory
  <1>3. QED
    BY <1>1, <1>2 DEF SameButAccess, Memory

LEMMA SameIsEquivalence ==
    ASSUME NEW r \in Memory, NEW s \in Memory, NEW t \in Memory
    PROVE  /\ SameButAccess(r, s) => SameButAccess(s, r) /\ r.archived = s.archived
           /\ SameButAccess(r, s) /\ SameButAccess(s, t) => SameButAccess(r, t)
  BY AccessesAside

LEMMA AccessedIsSame ==
    ASSUME NEW r \in Memory
    PROVE  Accessed(r) \in Memory /\ SameButAccess(Accessed(r), r)
  <1>1. Accessed(r) \in Memory
    BY DEF Accessed, Memory
  <1>2. r # Null
    BY ConstantsAssumption
  <1>3. QED
    BY <1>1, <1>2 DEF Accessed, SameButAccess, Memory

\* What a write says.
LEMMA WriteFields ==
    /\ \A i, r, g, x : /\ Put(i, r, g, x).type = "memory" /\ Put(i, r, g, x).id = i
                       /\ Put(i, r, g, x).rec = r
                       /\ Put(i, r, TRUE, x).graph /\ ~Put(i, r, FALSE, x).graph
    /\ \A e : /\ Link(e).type = "link" /\ Link(e).edge = e
              /\ Unlink(e).type = "unlink" /\ Unlink(e).edge = e
  BY DEF Put, Link, Unlink

\* The kinds of edges are different.
LEMMA EdgeFields ==
    \A i, j : /\ SameAs(i, j)[1] = "same_as" /\ SameAs(i, j)[2] = i /\ SameAs(i, j)[3] = j
              /\ DerivedFrom(i, j)[1] = "derived_from"
              /\ Contradicts(i, j)[1] = "contradicts"
              /\ Summarizes(i, j)[1] = "summarizes"
  BY DEF SameAs, DerivedFrom, Contradicts, Summarizes

\* A list written out has its members as elements, and its tail is the rest.
LEMMA ListElements ==
    /\ \A a, b, c : /\ DOMAIN <<a, b, c>> = 1 .. 3 /\ Len(<<a, b, c>>) = 3
                    /\ <<a, b, c>>[1] = a /\ <<a, b, c>>[2] = b /\ <<a, b, c>>[3] = c
                    /\ Head(<<a, b, c>>) = a /\ Tail(<<a, b, c>>) = <<b, c>>
    /\ \A a, b, c, d : /\ DOMAIN <<a, b, c, d>> = 1 .. 4 /\ Len(<<a, b, c, d>>) = 4
                       /\ <<a, b, c, d>>[1] = a /\ <<a, b, c, d>>[2] = b
                       /\ <<a, b, c, d>>[3] = c /\ <<a, b, c, d>>[4] = d
                       /\ Head(<<a, b, c, d>>) = a /\ Tail(<<a, b, c, d>>) = <<b, c, d>>
    /\ \A a, b : /\ DOMAIN <<a, b>> = 1 .. 2 /\ Len(<<a, b>>) = 2
                 /\ <<a, b>>[1] = a /\ <<a, b>>[2] = b
                 /\ Head(<<a, b>>) = a /\ Tail(<<a, b>>) = <<b>>
    /\ \A a : /\ DOMAIN <<a>> = 1 .. 1 /\ Len(<<a>>) = 1 /\ <<a>>[1] = a
              /\ Head(<<a>>) = a /\ Tail(<<a>>) = <<>>
  OBVIOUS

\* The elements of a queue, and those of its tail.
LEMMA QueueShifts ==
    ASSUME NEW S, NEW q \in Seq(S), q # <<>>
    PROVE  /\ Len(q) \in Nat /\ Len(q) > 0 /\ DOMAIN q = 1 .. Len(q) /\ 1 \in DOMAIN q
           /\ Head(q) = q[1] /\ q[1] \in S /\ Tail(q) \in Seq(S)
           /\ Len(Tail(q)) = Len(q) - 1 /\ DOMAIN Tail(q) = 1 .. Len(q) - 1
           /\ \A k \in DOMAIN Tail(q) : k + 1 \in DOMAIN q /\ Tail(q)[k] = q[k + 1]
  <1>1. Len(q) \in Nat /\ Len(q) > 0 /\ DOMAIN q = 1 .. Len(q)
    BY LenProperties, EmptySeq
  <1>2. Head(q) = q[1] /\ q[1] \in S
    BY <1>1, HeadTailProperties
  <1>3. Tail(q) \in Seq(S) /\ Len(Tail(q)) = Len(q) - 1
        /\ \A k \in 1 .. Len(Tail(q)) : Tail(q)[k] = q[k + 1]
    BY HeadTailProperties
  <1>4. QED
    BY <1>1, <1>2, <1>3, LenProperties

\* Undoing a change writes both stores; what it writes is of the memory changed.
LEMMA UndoChangeFields ==
    ASSUME NEW c
    PROVE  /\ UndoChange(c).type = "memory" /\ UndoChange(c).id = c.id
           /\ UndoChange(c).graph
  <1>1. \E rec, x : UndoChange(c) = Put(c.id, rec, TRUE, x)
    <2>1. CASE c.before = Null
      BY <2>1, Zenon DEF UndoChange
    <2>2. CASE c.before # Null
      BY <2>2, Zenon DEF UndoChange
    <2>3. QED
      BY <2>1, <2>2
  <1>2. QED
    BY <1>1 DEF Put

\* The writes of a rollback: its edges from the last to the first, then a memory
\* for each of its changes.
LEMMA UndoWritesFields ==
    ASSUME NEW d \in Diffs
    PROVE  /\ UndoWrites(d) \in Seq(Writes)
           /\ Len(d.links) \in Nat /\ Len(d.changes) \in Nat
           /\ DOMAIN UndoWrites(d) = 1 .. Len(d.links) + Len(d.changes)
           /\ \A k \in 1 .. Len(d.links) :
                 UndoWrites(d)[k] = Unlink(d.links[Len(d.links) - k + 1])
           /\ \A k \in Len(d.links) + 1 .. Len(d.links) + Len(d.changes) :
                 \E n \in DOMAIN d.changes : UndoWrites(d)[k] = UndoChange(d.changes[n])
           /\ \A k \in Len(d.links) + 1 .. Len(d.links) + Len(d.changes) :
                 UndoWrites(d)[k] = UndoChange(d.changes[Len(d.changes) - (k - Len(d.links)) + 1])
  <1>1. d.links \in Seq(Edges) /\ d.changes \in Seq(Changes)
    BY DEF Diffs
  <1> DEFINE u == Reverse(d.links)
             r == Reverse(d.changes)
             unlinks == [k \in 1 .. Len(u) |-> Unlink(u[k])]
             restores == [k \in 1 .. Len(r) |-> UndoChange(r[k])]
  <1>2. /\ u \in Seq(Edges) /\ Len(u) = Len(d.links) /\ Len(u) \in Nat
        /\ \A k \in 1 .. Len(u) : u[k] = d.links[Len(d.links) - k + 1] /\ u[k] \in Edges
    BY <1>1, ReverseType, LenProperties, ElementOfSeq
  <1>3. /\ r \in Seq(Changes) /\ Len(r) = Len(d.changes) /\ Len(r) \in Nat
        /\ \A k \in 1 .. Len(r) : r[k] = d.changes[Len(d.changes) - k + 1] /\ r[k] \in Changes
    BY <1>1, ReverseType, LenProperties, ElementOfSeq
  <1> HIDE DEF u, r
  <1>4. unlinks \in Seq(NoLinks) /\ Len(unlinks) = Len(u)
    <2>1. unlinks \in [1 .. Len(u) -> NoLinks]
      BY <1>2, NoLinksType
    <2>2. QED
      BY <1>2, <2>1, FunctionIsSequence
  <1>5. restores \in Seq(NoLinks) /\ Len(restores) = Len(r)
    <2>1. restores \in [1 .. Len(r) -> NoLinks]
      BY <1>3, UndoChangeType
    <2>2. QED
      BY <1>3, <2>1, FunctionIsSequence
  <1>6. UndoWrites(d) = unlinks \o restores
    BY DEF UndoWrites, u, r
  <1>7. \A k \in 1 .. Len(u) : unlinks[k] = Unlink(u[k])
    OBVIOUS
  <1>8. \A k \in 1 .. Len(r) : restores[k] = UndoChange(r[k])
    OBVIOUS
  <1> HIDE DEF unlinks, restores
  <1>9. /\ Len(unlinks \o restores) = Len(u) + Len(r)
        /\ DOMAIN (unlinks \o restores) = 1 .. Len(u) + Len(r)
        /\ \A k \in 1 .. Len(u) : (unlinks \o restores)[k] = unlinks[k]
        /\ \A k \in Len(u) + 1 .. Len(u) + Len(r) :
              (unlinks \o restores)[k] = restores[k - Len(u)]
    <2>1. /\ unlinks \o restores \in Seq(NoLinks)
          /\ Len(unlinks \o restores) = Len(unlinks) + Len(restores)
          /\ \A k \in 1 .. Len(unlinks) + Len(restores) :
                (unlinks \o restores)[k] =
                    IF k <= Len(unlinks) THEN unlinks[k] ELSE restores[k - Len(unlinks)]
      BY <1>4, <1>5, ConcatProperties
    <2>2. Len(u) \in Nat /\ Len(r) \in Nat /\ Len(unlinks) = Len(u) /\ Len(restores) = Len(r)
      BY <1>2, <1>3, <1>4, <1>5
    <2>3. DOMAIN (unlinks \o restores) = 1 .. Len(unlinks \o restores)
      BY <2>1, LenProperties
    <2> HIDE DEF NoLinks
    <2>4. QED
      BY <2>1, <2>2, <2>3
  <1>10. UndoWrites(d) \in Seq(Writes)
    BY UndoWritesType, NoLinksSequence
  <1>11. \A k \in 1 .. Len(d.links) : UndoWrites(d)[k] = Unlink(d.links[Len(d.links) - k + 1])
    BY <1>2, <1>6, <1>7, <1>9
  <1>12. ASSUME NEW k \in Len(d.links) + 1 .. Len(d.links) + Len(d.changes)
         PROVE  /\ \E n \in DOMAIN d.changes : UndoWrites(d)[k] = UndoChange(d.changes[n])
                /\ UndoWrites(d)[k] = UndoChange(d.changes[Len(d.changes) - (k - Len(d.links)) + 1])
    <2>1. k - Len(u) \in 1 .. Len(r)
      <3>1. Len(u) \in Nat /\ Len(r) \in Nat /\ k \in Len(u) + 1 .. Len(u) + Len(r)
        BY <1>2, <1>3
      <3>2. QED
        BY <3>1
    <2>2. UndoWrites(d)[k] = UndoChange(r[k - Len(u)])
      BY <1>2, <1>3, <1>6, <1>8, <1>9, <2>1
    <2>3. Len(d.changes) - (k - Len(u)) + 1 \in DOMAIN d.changes
      BY <1>1, <1>3, <2>1, LenProperties
    <2>4. UndoWrites(d)[k] = UndoChange(d.changes[Len(d.changes) - (k - Len(u)) + 1])
      BY <1>3, <2>1, <2>2
    <2>5. QED
      BY <1>2, <2>3, <2>4
  <1>13. QED
    BY <1>2, <1>3, <1>6, <1>9, <1>10, <1>11, <1>12

-----------------------------------------------------------------------------
(***************************************************************************)
(* What each step does, as far as the invariants are concerned.            *)
(***************************************************************************)
\* What is stored, read or queued is well typed.
LEMMA TypedState ==
    ASSUME TypeOK
    PROVE  /\ \A i \in Ids : /\ mem[i] # Null => mem[i] \in Memory
                             /\ gmem[i] # Null => gmem[i] \in Memory
                             /\ snap[i] # Null => snap[i] \in Memory
           /\ mem \in [Ids -> MemoryOrNull] /\ gmem \in [Ids -> MemoryOrNull]
           /\ \A k \in DOMAIN todo :
                 /\ todo[k] \in Writes /\ todo[k].type \in {"memory", "link", "unlink"}
                 /\ todo[k].type = "memory" =>
                       todo[k].id \in Ids /\ todo[k].rec \in Memory /\ todo[k].graph \in BOOLEAN
                 /\ todo[k].type # "memory" => todo[k].edge \in Edges
  <1>1. \A k \in DOMAIN todo : todo[k] \in Writes
    BY ElementOfSeq, LenProperties DEF TypeOK
  <1>2. mem \in [Ids -> MemoryOrNull] /\ gmem \in [Ids -> MemoryOrNull]
        /\ snap \in [Ids -> MemoryOrNull]
    BY DEF TypeOK, Snapshots
  <1>3. \A i \in Ids : /\ mem[i] # Null => mem[i] \in Memory
                       /\ gmem[i] # Null => gmem[i] \in Memory
                       /\ snap[i] # Null => snap[i] \in Memory
    BY <1>2 DEF MemoryOrNull
  <1>4. \A w \in Writes :
           /\ w.type \in {"memory", "link", "unlink"}
           /\ w.type = "memory" => w.id \in Ids /\ w.rec \in Memory /\ w.graph \in BOOLEAN
           /\ w.type # "memory" => w.edge \in Edges
    BY DEF Writes
  <1>5. QED
    BY <1>1, <1>2, <1>3, <1>4

\* Steps that touch no memory, edge, queue or diff: at most the graph store's copy.
Quiet ==
    /\ UNCHANGED <<mem, edges, op, snap, todo, changes, links, base, log, crashes>>
    /\ gmem' = gmem \/ copying # Null
    /\ work' \subseteq work

\* A run begins: it reads, and queues nothing yet.
Starting(kind) ==
    /\ op = "idle" /\ op' = kind /\ snap' = ActiveSnapshot
    /\ base' = [mem |-> mem, edges |-> edges]
    /\ kind = "deduplication" => \A p \in work' : p[1] # p[2]
    /\ UNCHANGED <<mem, gmem, edges, log>>

\* A call ends, or its process.
Ending ==
    /\ op' = "idle" /\ snap' = NoRecords /\ todo' = <<>> /\ changes' = <<>> /\ links' = <<>>
    /\ UNCHANGED <<mem, gmem, edges>>

LEMMA StepCases ==
    ASSUME TypeOK, [Next]_vars
    PROVE  \/ Quiet
           \/ \E i \in Atoms : Ingest(i)
           \/ \E selected \in SUBSET Selectable : \E viaGraph \in SUBSET selected :
                 BeginRetrieve(selected, viaGraph)
           \/ \E kind \in {"deduplication", "contradiction_repair", "abstraction"} :
                 Starting(kind) /\ UNCHANGED <<todo, changes, links>>
           \/ BeginDecay
           \/ \E k \in DOMAIN log : BeginRollback(k)
           \/ MergePair \/ RepairPair \/ \E t \in Topics : Summarise(t)
           \/ ApplyWrite
           \/ FinishRun \/ FinishCall \/ Crash
  <1>1. ASSUME PassPair \/ SkipPair \/ CopyWrite \/ Tick \/ UNCHANGED vars PROVE Quiet
    BY <1>1 DEF PassPair, SkipPair, CopyWrite, Tick, vars, stores, call, Quiet
  <1>2. ASSUME NEW kind, NEW set, BeginRun(kind, set),
               kind = "deduplication" => \A p \in set : p[1] # p[2]
        PROVE  Starting(kind) /\ UNCHANGED <<todo, changes, links>>
    BY <1>2 DEF BeginRun, Begin, Ready, stores, Starting
  <1>3. ASSUME BeginDeduplication \/ BeginRepair \/ BeginAbstraction
        PROVE  \E kind \in {"deduplication", "contradiction_repair", "abstraction"} :
                  Starting(kind) /\ UNCHANGED <<todo, changes, links>>
    <2>1. CASE BeginDeduplication
      <3> DEFINE set == {p \in Active \X Active : p[1] < p[2] /\ SameTopic(p[1], p[2])}
      <3>1. BeginRun("deduplication", set)
        BY <2>1 DEF BeginDeduplication
      <3>2. Active \subseteq Nat
        BY ConstantsAssumption DEF Active
      <3>3. ASSUME NEW p \in set PROVE p[1] # p[2]
        <4>1. p[1] \in Nat /\ p[2] \in Nat /\ p[1] < p[2]
          BY <3>2
        <4>2. QED
          BY <4>1
      <3> HIDE DEF set, Starting
      <3>4. QED
        BY <1>2, <3>1, <3>3
    <2>2. CASE BeginRepair \/ BeginAbstraction
      BY <1>2, <2>2, Zenon DEF BeginRepair, BeginAbstraction
    <2>3. QED
      BY <1>3, <2>1, <2>2
  <1> HIDE DEF Quiet, Starting
  <1>4. QED
    BY <1>1, <1>3 DEF Next

LEMMA EndingSteps == FinishRun \/ FinishCall \/ Crash => Ending
  BY DEF FinishRun, FinishCall, Crash, Return, Ending, stores

\* The first write of the queue is applied.
LEMMA ApplyCases ==
    ASSUME TypeOK, ApplyWrite
    PROVE  /\ todo # <<>> /\ todo \in Seq(Writes) /\ todo' = Tail(todo) /\ copying = Null
           /\ UNCHANGED <<gmem, op, snap, changes, links, base, log, crashes>>
           /\ \/ /\ todo[1].type = "memory"
                 /\ \A i \in Ids : mem'[i] = IF i = todo[1].id THEN todo[1].rec ELSE mem[i]
                 /\ copying' = IF todo[1].graph /\ ~SharedStore THEN todo[1].id ELSE Null
                 /\ edges' = edges
              \/ /\ todo[1].type = "link" /\ edges' = edges \cup {todo[1].edge}
                 /\ UNCHANGED <<mem, copying>>
              \/ /\ todo[1].type = "unlink" /\ edges' = edges \ {todo[1].edge}
                 /\ UNCHANGED <<mem, copying>>
  <1>1. todo # <<>> /\ todo \in Seq(Writes) /\ todo' = Tail(todo) /\ copying = Null
        /\ UNCHANGED <<gmem, op, snap, changes, links, base, log, crashes>>
    BY DEF ApplyWrite, TypeOK
  <1>2. Head(todo) = todo[1] /\ 1 \in DOMAIN todo
    BY <1>1, QueueShifts, Zenon
  <1>3. todo[1].type = "memory" => todo[1].id \in Ids
    BY <1>2, TypedState
  <1>4. mem \in [Ids -> MemoryOrNull]
    BY TypedState
  <1> DEFINE w == todo[1]
  <1>5. \/ /\ w.type = "memory"
           /\ mem' = [mem EXCEPT ![w.id] = w.rec]
           /\ copying' = IF w.graph /\ ~SharedStore THEN w.id ELSE Null
           /\ UNCHANGED edges
        \/ /\ w.type = "link" /\ edges' = edges \cup {w.edge} /\ UNCHANGED <<mem, copying>>
        \/ /\ w.type = "unlink" /\ edges' = edges \ {w.edge} /\ UNCHANGED <<mem, copying>>
    BY <1>2 DEF ApplyWrite
  <1> HIDE DEF w
  <1>6. w.type = "memory" => w.id \in Ids
    BY <1>3 DEF w
  <1>7. \/ /\ w.type = "memory"
           /\ \A i \in Ids : mem'[i] = IF i = w.id THEN w.rec ELSE mem[i]
           /\ copying' = IF w.graph /\ ~SharedStore THEN w.id ELSE Null
           /\ edges' = edges
        \/ /\ w.type = "link" /\ edges' = edges \cup {w.edge} /\ UNCHANGED <<mem, copying>>
        \/ /\ w.type = "unlink" /\ edges' = edges \ {w.edge} /\ UNCHANGED <<mem, copying>>
    BY <1>4, <1>5, <1>6
  <1>8. QED
    BY <1>1, <1>7 DEF w

\* A merge queues the two records it has computed, and the two edges.
LEMMA MergeCases ==
    ASSUME TypeOK, DeduplicationIsCurrent, MergePair
    PROVE  /\ op = "deduplication" /\ todo = <<>> /\ work' \subseteq work
           /\ UNCHANGED <<mem, gmem, edges, op, base, log>>
           /\ \E c, d \in Ids :
                 /\ c # d /\ IsActive(snap[c]) /\ IsActive(snap[d])
                 /\ snap'[c] = CanonicalAfter(snap[c], snap[d], d)
                 /\ snap'[d] = DuplicateAfter(snap[d], c)
                 /\ \A i \in Ids : i # c /\ i # d => snap'[i] = snap[i]
                 /\ todo' = <<Put(c, snap'[c], TRUE, FALSE), Put(d, snap'[d], TRUE, FALSE),
                              Link(SameAs(d, c)), Link(DerivedFrom(c, d))>>
                 /\ changes' = changes \o <<Change(c, snap[c], snap'[c]), Change(d, snap[d], snap'[d])>>
                 /\ links' = links \o <<SameAs(d, c), DerivedFrom(c, d)>>
  <1>1. /\ op = "deduplication" /\ todo = <<>> /\ work' \subseteq work
        /\ UNCHANGED <<mem, gmem, edges, op, base, log>>
    BY DEF MergePair, Examine, stores
  <1>2. PICK p \in Ids \X Ids :
           /\ IsFirst(p, ListingOrder) /\ Mergeable(p)
           /\ IF Better(snap[p[2]], snap[p[1]]) THEN Merge(p[2], p[1]) ELSE Merge(p[1], p[2])
    BY DEF MergePair
  <1>3. p[1] # p[2]
    BY <1>1, <1>2 DEF IsFirst, DeduplicationIsCurrent
  <1>4. PICK c, d \in Ids : c # d /\ IsActive(snap[c]) /\ IsActive(snap[d]) /\ Merge(c, d)
    BY <1>2, <1>3 DEF Mergeable
  <1>5. snap \in [Ids -> MemoryOrNull]
    BY DEF TypeOK, Snapshots
  <1> DEFINE canonical == CanonicalAfter(snap[c], snap[d], d)
             duplicate == DuplicateAfter(snap[d], c)
  <1>6. /\ snap' = [snap EXCEPT ![c] = canonical, ![d] = duplicate]
        /\ todo' = <<Put(c, canonical, TRUE, FALSE), Put(d, duplicate, TRUE, FALSE),
                     Link(SameAs(d, c)), Link(DerivedFrom(c, d))>>
        /\ changes' = changes \o <<Change(c, snap[c], canonical), Change(d, snap[d], duplicate)>>
        /\ links' = links \o <<SameAs(d, c), DerivedFrom(c, d)>>
    BY <1>4 DEF Merge
  <1> HIDE DEF canonical, duplicate
  <1>7. snap'[c] = canonical /\ snap'[d] = duplicate
        /\ \A i \in Ids : i # c /\ i # d => snap'[i] = snap[i]
    BY <1>4, <1>5, <1>6
  <1>8. QED
    BY <1>1, <1>4, <1>6, <1>7 DEF canonical, duplicate

-----------------------------------------------------------------------------
(***************************************************************************)
(* The invariant of every process is inductive.                            *)
(***************************************************************************)
\* While a memory is to be copied nothing else happens; and what changes copies.
LEMMA CopyCases ==
    ASSUME [Next]_vars
    PROVE  /\ copying # Null => CopyWrite \/ Crash \/ UNCHANGED vars
           /\ \/ \E j \in Atoms : Ingest(j)
              \/ ApplyWrite \/ CopyWrite \/ Crash
              \/ UNCHANGED <<mem, gmem, copying, crashes>>
  <1>1. copying # Null => CopyWrite \/ Crash \/ UNCHANGED vars
    BY DEF Next, Ingest, BeginRetrieve, BeginDeduplication, MergePair, PassPair, BeginRepair,
           RepairPair, SkipPair, BeginAbstraction, Summarise, BeginDecay, BeginRollback, FinishRun,
           FinishCall, ApplyWrite, Tick, BeginRun, Begin, Ready, Examine
  <1>2. \/ \E j \in Atoms : Ingest(j)
        \/ ApplyWrite \/ CopyWrite \/ Crash
        \/ UNCHANGED <<mem, gmem, copying, crashes>>
    BY DEF Next, BeginRetrieve, BeginDeduplication, MergePair, PassPair, BeginRepair,
           RepairPair, SkipPair, BeginAbstraction, Summarise, BeginDecay, BeginRollback, FinishRun,
           FinishCall, Tick, BeginRun, Begin, stores, vars
  <1>3. QED
    BY <1>1, <1>2

LEMMA CopyIsSame ==
    ASSUME NEW i
    PROVE  CopyKept(i) <=> \/ copying = i
                           \/ /\ gmem[i] = Null <=> mem[i] = Null
                              /\ mem[i] # Null => SameButAccess(gmem[i], mem[i])
  BY DEF CopyKept, SameButAccess

\* A copy once made stays the same, unless a crash comes before it.
LEMMA CopyStep ==
    ASSUME TypeOK, CopiesAgree, WritesAreWhole, [Next]_vars, ~SharedStore, NEW i \in Ids,
           CopyKept(i)
    PROVE  CopyKept(i)' \/ (crashes' # crashes /\ copying = i)
  <1> DEFINE Same == /\ gmem[i] = Null <=> mem[i] = Null
                     /\ mem[i] # Null => SameButAccess(gmem[i], mem[i])
  <1>1. copying = i \/ Same
    BY CopyIsSame
  <1>2. copying' = i \/ Same' => CopyKept(i)'
    BY DEF CopyKept, SameButAccess
  <1>3. Null \notin Ids
    BY ConstantsAssumption
  <1>4. CASE UNCHANGED <<mem, gmem, copying, crashes>>
    BY <1>1, <1>2, <1>4 DEF SameButAccess
  <1>5. ASSUME NEW j \in Atoms, Ingest(j) PROVE copying' = i \/ Same'
    <2>1. copying = Null /\ copying' = j /\ gmem' = gmem
      BY <1>5 DEF Ingest, Ready
    <2>2. i # j => mem'[i] = mem[i]
      BY <1>5, TypedState DEF Ingest
    <2>3. QED
      BY <1>1, <1>3, <2>1, <2>2 DEF SameButAccess
  <1>6. CASE ApplyWrite
    <2>1. copying = Null /\ gmem' = gmem /\ 1 \in DOMAIN todo
      BY <1>6, ApplyCases, QueueShifts, Zenon
    <2>2. Same
      BY <1>1, <1>3, <2>1
    <2>3. CASE todo[1].type = "memory" /\ i = todo[1].id /\ ~todo[1].graph
      <3>1. mem'[i] = todo[1].rec
        BY <1>6, <2>3, ApplyCases
      <3>2. todo[1].rec \in Memory /\ todo[1].rec # Null
        BY <2>1, <2>3, TypedState, ConstantsAssumption
      <3>3. IsWrittenBack(todo[1])
        BY <2>1, <2>3 DEF WritesAreWhole
      <3>4. SameButAccess(todo[1].rec, mem[i]) \/ SameButAccess(todo[1].rec, gmem[i])
        BY <2>3, <3>3 DEF IsWrittenBack
      <3>5. mem[i] # Null /\ gmem[i] # Null /\ SameButAccess(gmem[i], mem[i])
        BY <2>2, <3>4 DEF SameButAccess
      <3>6. mem[i] \in Memory /\ gmem[i] \in Memory
        BY <3>5, TypedState
      <3>7. SameButAccess(gmem[i], todo[1].rec)
        BY <3>2, <3>4, <3>5, <3>6, SameIsEquivalence
      <3> HIDE DEF Same
      <3>8. Same'
        BY <2>1, <3>1, <3>2, <3>5, <3>7 DEF Same, SameButAccess
      <3>9. QED
        BY <1>2, <3>8
    <2>4. CASE ~(todo[1].type = "memory" /\ i = todo[1].id /\ ~todo[1].graph)
      <3>1. copying' = i \/ mem'[i] = mem[i]
        BY <1>6, <2>4, ApplyCases
      <3>2. QED
        BY <1>2, <2>1, <2>2, <3>1 DEF SameButAccess
    <2>5. QED
      BY <2>3, <2>4
  <1>7. CASE CopyWrite
    <2>1. gmem'[i] = IF i = copying THEN mem[i] ELSE gmem[i]
      BY <1>7, TypedState DEF CopyWrite
    <2>2. mem' = mem /\ copying # Null
      BY <1>7 DEF CopyWrite
    <2>3. CASE i = copying
      <3>1. mem[i] # Null /\ mem[i] \in Memory
        BY <2>2, <2>3, TypedState DEF CopiesAgree
      <3>2. SameButAccess(mem[i], mem[i])
        BY <3>1, AccessesAside
      <3> HIDE DEF Same
      <3>3. Same'
        BY <2>1, <2>2, <2>3, <3>1, <3>2 DEF Same, SameButAccess
      <3>4. QED
        BY <1>2, <3>3
    <2>4. CASE i # copying
      BY <1>1, <1>2, <2>1, <2>2, <2>4 DEF SameButAccess
    <2>5. QED
      BY <2>3, <2>4
  <1>8. CASE Crash
    <2>1. mem' = mem /\ gmem' = gmem /\ crashes' = crashes + 1 /\ crashes \in Nat
      BY <1>8 DEF Crash, TypeOK
    <2>2. QED
      BY <1>1, <1>2, <2>1 DEF SameButAccess
  <1>9. QED
    BY <1>2, <1>4, <1>5, <1>6, <1>7, <1>8, CopyCases

LEMMA CopiesStep ==
    ASSUME RecordInv, [Next]_vars
    PROVE  CopiesAgree'
  <1>1. TypeOK /\ CopiesAgree /\ WritesAreWhole
    BY DEF RecordInv, StoredInv
  <1>2. crashes' \in 0 .. MaxCrashes /\ crashes <= crashes'
    <2>1. crashes \in 0 .. MaxCrashes /\ MaxCrashes \in Nat
      BY <1>1, BoundsAssumption DEF CopiesAgree
    <2>2. crashes' = crashes \/ (crashes < MaxCrashes /\ crashes' = crashes + 1)
      BY <1>1, CopyCases DEF Ingest, ApplyWrite, CopyWrite, Crash
    <2>3. QED
      BY <2>1, <2>2
  <1>3. GraphCopyAgrees'
    <2>1. SUFFICES ASSUME ~SharedStore, crashes' = 0, NEW i \in Ids PROVE CopyKept(i)'
      BY DEF GraphCopyAgrees
    <2>2. crashes = 0 /\ crashes' = crashes
      BY <1>1, <1>2, <2>1 DEF CopiesAgree
    <2>3. CopyKept(i)
      BY <1>1, <2>1, <2>2 DEF CopiesAgree, GraphCopyAgrees
    <2>4. QED
      BY <1>1, <2>1, <2>2, <2>3, CopyStep
  <1>4. copying' # Null => ~SharedStore /\ mem'[copying'] # Null /\ op' # "retrieve"
    <2>1. ASSUME NEW j \in Atoms, Ingest(j), copying' # Null
          PROVE  ~SharedStore /\ mem'[copying'] # Null /\ op' # "retrieve"
      <3>1. FreshMemory(j) # Null /\ j \in Ids
        BY FreshMemoryType, ConstantsAssumption DEF Ids
      <3>2. ~SharedStore /\ copying' = j /\ op' = "idle"
        BY <2>1 DEF Ingest, Ready, call
      <3>3. mem'[j] = FreshMemory(j)
        BY <1>1, <2>1, <3>1, TypedState DEF Ingest
      <3>4. QED
        BY <3>1, <3>2, <3>3
    <2>2. ASSUME ApplyWrite, copying' # Null
          PROVE  ~SharedStore /\ mem'[copying'] # Null /\ op' # "retrieve"
      <3>1. 1 \in DOMAIN todo /\ copying = Null /\ op' = op
        BY <1>1, <2>2, ApplyCases, QueueShifts, Zenon
      <3>2. todo[1].type = "memory" /\ todo[1].graph /\ ~SharedStore /\ copying' = todo[1].id
        BY <1>1, <2>2, <3>1, ApplyCases
      <3>3. todo[1].id \in Ids /\ todo[1].rec # Null
        BY <1>1, <3>1, <3>2, TypedState, ConstantsAssumption
      <3>4. mem'[todo[1].id] = todo[1].rec
        BY <1>1, <2>2, <3>2, <3>3, ApplyCases
      <3>5. op # "retrieve"
        BY <1>1, <3>1, <3>2 DEF WritesAreWhole, IsWrittenBack
      <3>6. QED
        BY <3>1, <3>2, <3>3, <3>4, <3>5
    <2>3. CopyWrite \/ Crash => copying' = Null
      BY DEF CopyWrite, Crash
    <2>4. CASE copying = Null
      BY <2>1, <2>2, <2>3, <2>4, CopyCases
    <2>5. CASE copying # Null
      <3>1. CASE UNCHANGED vars
        BY <1>1, <3>1 DEF CopiesAgree, vars, stores, call
      <3>2. QED
        BY <2>3, <2>5, <3>1, CopyCases
    <2>6. QED
      BY <2>4, <2>5
  <1>5. QED
    BY <1>2, <1>3, <1>4 DEF CopiesAgree

\* A retrieval queues an access for each memory it selected.
LEMMA RetrieveCases ==
    ASSUME TypeOK, CopiesAgree, NEW selected \in SUBSET Selectable, NEW viaGraph \in SUBSET selected,
           BeginRetrieve(selected, viaGraph)
    PROVE  /\ op = "idle" /\ op' = "retrieve" /\ base' = [mem |-> mem, edges |-> edges]
           /\ UNCHANGED <<mem, gmem, edges, log, changes, links, crashes>>
           /\ CopiesWhole => selected \subseteq Active
           /\ \A k \in DOMAIN todo' :
                 /\ IsWrittenBack(todo'[k])
                 /\ todo'[k].type = "memory" /\ ~todo'[k].graph
                 /\ todo'[k].id \in selected /\ todo'[k].rec \in Memory
                 /\ CopiesWhole => SameButAccess(todo'[k].rec, mem[todo'[k].id])
                 /\ \A j \in DOMAIN todo' : j # k => todo'[j].id # todo'[k].id
  <1>1. /\ op = "idle" /\ op' = "retrieve" /\ base' = [mem |-> mem, edges |-> edges]
        /\ UNCHANGED <<mem, gmem, edges, log, changes, links, crashes>> /\ copying = Null
    BY DEF BeginRetrieve, Begin, Ready, stores
  <1>2. PICK order \in SetToSeqs(selected) :
          todo' = [k \in 1 .. Len(order) |->
                      Put(order[k], Accessed(Candidate(order[k], viaGraph)), FALSE, FALSE)]
    BY DEF BeginRetrieve
  <1>3. selected \subseteq Ids /\ IsFiniteSet(selected)
    BY FiniteSubset DEF Selectable
  <1>4. Len(order) \in Nat /\ order \in [1 .. Len(order) -> selected]
    BY <1>3, OrderingType
  <1>5. \A j, k \in 1 .. Len(order) : j # k => order[j] # order[k]
    <2>1. Cardinality(selected) \in Nat
      BY <1>3, FS_CardinalityType
    <2>2. /\ order \in [1 .. Cardinality(selected) -> selected]
          /\ \A j, k \in 1 .. Cardinality(selected) : j # k => order[j] # order[k]
      BY <1>2 DEF SetToSeqs
    <2>3. 1 .. Cardinality(selected) = 1 .. Len(order)
      BY <1>4, <2>2
    <2>4. QED
      BY <2>2, <2>3
  <1>6. ASSUME NEW i \in selected
        PROVE  LET rec == Accessed(Candidate(i, viaGraph))
               IN  /\ rec \in Memory
                   /\ \/ SameButAccess(rec, mem[i])
                      \/ ~SharedStore /\ SameButAccess(rec, gmem[i])
                   /\ CopiesWhole => IsActive(mem[i]) /\ SameButAccess(rec, mem[i])
                   /\ SharedStore => rec = Accessed(mem[i])
    <2> DEFINE cand == Candidate(i, viaGraph)
    <2>1. i \in Ids /\ IsActive(cand)
      BY <1>3 DEF BeginRetrieve
    <2>2. cand = mem[i] \/ (~SharedStore /\ gmem[i] # Null /\ cand = gmem[i])
      BY DEF Candidate, GraphCopy
    <2>3. cand \in Memory
      BY <2>1, <2>2, TypedState DEF IsActive
    <2> HIDE DEF cand
    <2>4. Accessed(cand) \in Memory /\ SameButAccess(Accessed(cand), cand)
      BY <2>3, AccessedIsSame
    <2>5. CASE cand = mem[i]
      BY <2>1, <2>4, <2>5 DEF cand
    <2>6. CASE ~SharedStore /\ gmem[i] # Null /\ cand = gmem[i]
      <3>1. ASSUME CopiesWhole PROVE IsActive(mem[i]) /\ SameButAccess(Accessed(cand), mem[i])
        <4>1. CopyKept(i)
          BY <2>1, <2>6, <3>1 DEF CopiesAgree, CopiesWhole, GraphCopyAgrees
        <4>2. mem[i] # Null /\ SameButAccess(gmem[i], mem[i])
          BY <1>1, <2>1, <2>6, <4>1, CopyIsSame, ConstantsAssumption
        <4>3. mem[i] \in Memory
          BY <2>1, <4>2, TypedState
        <4>4. QED
          BY <2>1, <2>3, <2>4, <2>6, <4>2, <4>3, SameIsEquivalence DEF IsActive
      <3>2. QED
        BY <2>4, <2>6, <3>1 DEF cand
    <2>7. QED
      BY <2>2, <2>5, <2>6
  <1>7. DOMAIN todo' = 1 .. Len(order)
    BY <1>2
  <1>8. \A k \in 1 .. Len(order) :
           todo'[k] = Put(order[k], Accessed(Candidate(order[k], viaGraph)), FALSE, FALSE)
    BY <1>2
  <1>9. ASSUME NEW k \in 1 .. Len(order)
        PROVE  /\ todo'[k].type = "memory" /\ ~todo'[k].graph /\ todo'[k].id = order[k]
               /\ todo'[k].rec = Accessed(Candidate(order[k], viaGraph))
    <2> DEFINE rec == Accessed(Candidate(order[k], viaGraph))
    <2>1. todo'[k] = Put(order[k], rec, FALSE, FALSE)
      BY <1>8
    <2> HIDE DEF rec
    <2>2. QED
      BY <2>1 DEF Put, rec
  <1>10. CopiesWhole => selected \subseteq Active
    BY <1>3, <1>6 DEF Active
  <1>11. ASSUME NEW k \in DOMAIN todo'
         PROVE  /\ IsWrittenBack(todo'[k]) /\ todo'[k].id \in selected /\ todo'[k].rec \in Memory
                /\ CopiesWhole => SameButAccess(todo'[k].rec, mem[todo'[k].id])
    <2>1. k \in 1 .. Len(order) /\ order[k] \in selected
      BY <1>4, <1>7
    <2>2. QED
      BY <1>6, <1>9, <2>1 DEF IsWrittenBack
  <1>12. QED
    BY <1>1, <1>4, <1>5, <1>7, <1>9, <1>10, <1>11

\* A repair queues the two records and the edge.
LEMMA RepairCases ==
    ASSUME TypeOK, ReadAreStored, RepairIsCurrent, RepairPair
    PROVE  /\ op = "contradiction_repair" /\ todo = <<>> /\ UNCHANGED <<mem, gmem, edges, op, snap, base, log>>
           /\ \E o, n \in Ids, older, newer \in Memory :
                 /\ snap[o] # Null /\ snap[n] # Null
                 /\ IsActive(older) /\ IsActive(newer)
                 /\ todo' = <<Put(o, older, TRUE, FALSE), Put(n, newer, TRUE, FALSE),
                              Link(Contradicts(o, n))>>
                 /\ changes' = changes \o <<Change(o, mem[o], older), Change(n, snap[n], newer)>>
                 /\ links' = Append(links, Contradicts(o, n))
  <1>1. /\ op = "contradiction_repair" /\ todo = <<>>
        /\ UNCHANGED <<mem, gmem, edges, op, snap, base, log>>
    BY DEF RepairPair, Examine, stores
  <1>2. PICK p \in Ids \X Ids : p \in work /\ Repair(p[1], p[2])
    BY DEF RepairPair, IsFirst
  <1> DEFINE o == p[1]
             n == p[2]
             older == OlderAfter(mem[o], n)
             newer == NewerAfter(snap[n], o)
  <1>3. o \in Ids /\ n \in Ids /\ snap[o] # Null /\ snap[n] # Null
    BY <1>1, <1>2 DEF ReadAreStored
  <1>4. IsActive(mem[o]) /\ IsActive(snap[n])
    BY <1>1, <1>3 DEF RepairIsCurrent
  <1>5. mem[o] \in Memory /\ snap[n] \in Memory
    BY <1>3, <1>4, TypedState DEF IsActive
  <1>6. older \in Memory /\ newer \in Memory
    BY <1>3, <1>5, MemoryUpdates
  <1>7. ~older.archived /\ ~newer.archived
    <2>1. older.archived = mem[o].archived /\ newer.archived = snap[n].archived
      BY <1>5 DEF OlderAfter, NewerAfter, Memory
    <2>2. QED
      BY <1>4, <2>1 DEF IsActive
  <1>8. IsActive(older) /\ IsActive(newer)
    BY <1>6, <1>7, ConstantsAssumption DEF IsActive
  <1>9. /\ todo' = <<Put(o, older, TRUE, FALSE), Put(n, newer, TRUE, FALSE), Link(Contradicts(o, n))>>
        /\ changes' = changes \o <<Change(o, mem[o], older), Change(n, snap[n], newer)>>
        /\ links' = Append(links, Contradicts(o, n))
    BY <1>2 DEF Repair, FreshOlder
  <1> HIDE DEF o, n, older, newer
  <1>10. QED
    BY <1>1, <1>3, <1>6, <1>8, <1>9

\* An abstraction queues a summary and its edges.
LEMMA SummaryCases ==
    ASSUME TypeOK, NEW t \in Topics, Summarise(t)
    PROVE  /\ op = "abstraction" /\ todo = <<>>
           /\ UNCHANGED <<mem, gmem, edges, op, snap, base, log>>
           /\ \E s \in Summaries, rec \in Memory, added \in Seq(Edges) :
                 /\ \A n \in DOMAIN added : added[n][1] = "summarizes"
                 /\ \A k \in DOMAIN todo' :
                       \/ todo'[k] = Put(s, rec, TRUE, FALSE)
                       \/ \E n \in DOMAIN added : todo'[k] = Link(added[n])
                 /\ changes' = Append(changes, Change(s, Null, rec))
                 /\ links' = links \o added
  <1>1. /\ op = "abstraction" /\ todo = <<>>
        /\ UNCHANGED <<mem, gmem, edges, op, snap, base, log>>
    BY DEF Summarise, Examine, stores
  <1> DEFINE members == Members(t, snap)
             s       == SummaryId[t, now]
  <1>2. PICK order \in Ascending(members), low \in members, high \in members :
          LET rec   == SummaryOf(snap[low], snap[high], now)
              added == [k \in 1 .. Len(order) |-> Summarizes(s, order[k])]
          IN /\ todo' = SummaryWrites(s, rec, added)
             /\ changes' = Append(changes, Change(s, Null, rec))
             /\ links' = links \o added
    BY DEF Summarise
  <1> DEFINE rec   == SummaryOf(snap[low], snap[high], now)
             added == [k \in 1 .. Len(order) |-> Summarizes(s, order[k])]
  <1>3. members \subseteq Ids /\ IsFiniteSet(members) /\ order \in SetToSeqs(members)
    BY FiniteSubset DEF Members, Ascending
  <1>4. \A m \in members : snap[m] \in Memory
    BY DEF TypeOK, Snapshots, Members, IsActive, MemoryOrNull
  <1>5. s \in Summaries /\ s \in Ids /\ rec \in Memory
    <2>1. now \in Time /\ <<t, now>> \in Topics \X Time
      BY DEF TypeOK
    <2>2. s \in Summaries
      BY <2>1 DEF Summaries
    <2>3. QED
      BY <1>4, <2>1, <2>2, SummaryType DEF Ids
  <1>6. added \in Seq(Edges) /\ Len(added) = Len(order)
    BY <1>3, <1>5, LinkSequences
  <1>7. \A n \in DOMAIN added : added[n][1] = "summarizes"
    <2> HIDE DEF s
    <2>1. ASSUME NEW n \in DOMAIN added PROVE added[n] = Summarizes(s, order[n])
      OBVIOUS
    <2> HIDE DEF added
    <2>2. QED
      BY <2>1, EdgeFields
  <1>8. /\ todo' = SummaryWrites(s, rec, added)
        /\ changes' = Append(changes, Change(s, Null, rec))
        /\ links' = links \o added
    BY <1>2
  <1> HIDE DEF rec, added, s, members
  <1>9. Len(added) \in Nat /\ DOMAIN added = 1 .. Len(added)
    BY <1>6, LenProperties
  <1> DEFINE put == Put(s, rec, TRUE, FALSE)
             linked == [k \in 1 .. Len(added) |-> Link(added[k])]
             All == {put} \cup {linked[k] : k \in 1 .. Len(added)}
  <1>10. linked \in Seq(All) /\ Len(linked) = Len(added)
    <2>1. linked \in [1 .. Len(added) -> All]
      OBVIOUS
    <2> HIDE DEF linked, All
    <2>2. QED
      BY <1>9, <2>1, FunctionIsSequence
  <1>11. <<put>> \in Seq(All)
    OBVIOUS
  <1>12. todo' = <<put>> \o linked
    BY <1>8 DEF SummaryWrites
  <1>13. \A k \in DOMAIN todo' : todo'[k] \in All
    <2> HIDE DEF All, put, linked
    <2>1. <<put>> \o linked \in Seq(All)
      BY <1>10, <1>11, ConcatProperties
    <2>2. QED
      BY <1>12, <2>1, ElementOfSeq, LenProperties
  <1>14. \A k \in DOMAIN todo' :
            todo'[k] = put \/ \E n \in DOMAIN added : todo'[k] = Link(added[n])
    <2> HIDE DEF put
    <2>1. QED
      BY <1>9, <1>13
  <1>15. QED
    BY <1>1, <1>5, <1>6, <1>7, <1>8, <1>14

\* A decay run queues the archived records of what has expired.
LEMMA DecayCases ==
    ASSUME TypeOK, BeginDecay
    PROVE  /\ op = "idle" /\ op' = "decay_archival" /\ snap' = ActiveSnapshot
           /\ base' = [mem |-> mem, edges |-> edges]
           /\ UNCHANGED <<mem, gmem, edges, log, links>>
           /\ \A k \in DOMAIN todo' :
                 \E i \in Active : todo'[k] = Put(i, Archived(mem[i]), TRUE, FALSE)
           /\ changes' \in Seq(Changes)
           /\ \A k \in DOMAIN changes' : changes'[k].id \in Active
           /\ changes' # <<>>
  <1>1. /\ op = "idle" /\ op' = "decay_archival" /\ snap' = ActiveSnapshot
        /\ base' = [mem |-> mem, edges |-> edges]
        /\ UNCHANGED <<mem, gmem, edges, log, links>> /\ Expired # {}
    BY DEF BeginDecay, Begin, Ready, stores
  <1>2. PICK order \in Ascending(Expired) :
           /\ todo' = [k \in 1 .. Len(order) |->
                          Put(order[k], Archived(mem[order[k]]), TRUE, FALSE)]
           /\ changes' = [k \in 1 .. Len(order) |->
                             Change(order[k], mem[order[k]], Archived(mem[order[k]]))]
    BY DEF BeginDecay
  <1>3. Expired \subseteq Active /\ Expired \subseteq Ids /\ IsFiniteSet(Expired)
        /\ order \in SetToSeqs(Expired)
    BY ActiveType, FiniteSubset DEF Expired, Ascending
  <1>4. Len(order) \in Nat /\ \A k \in 1 .. Len(order) : order[k] \in Expired
    BY <1>3, OrderingType
  <1>5. \A k \in DOMAIN todo' : \E i \in Active : todo'[k] = Put(i, Archived(mem[i]), TRUE, FALSE)
    BY <1>2, <1>3, <1>4
  <1>6. \A k \in DOMAIN changes' : changes'[k].id \in Active
    BY <1>2, <1>3, <1>4 DEF Change
  <1>7. changes' \in [1 .. Len(order) -> Changes]
    <2>1. \A i \in Expired : Change(i, mem[i], Archived(mem[i])) \in Changes
      BY <1>3, ActiveType, MemoryUpdates, WriteTypes DEF MemoryOrNull
    <2>2. QED
      BY <1>2, <1>4, <2>1
  <1>8. changes' \in Seq(Changes) /\ Len(changes') = Len(order)
    BY <1>4, <1>7, FunctionIsSequence
  <1>9. changes' # <<>>
    <2>1. Cardinality(Expired) \in Nat /\ Cardinality(Expired) # 0
      BY <1>1, <1>3, FS_CardinalityType, FS_EmptySet
    <2>2. order \in [1 .. Cardinality(Expired) -> Expired]
      BY <1>3 DEF SetToSeqs
    <2>3. 1 .. Cardinality(Expired) = 1 .. Len(order)
      BY <1>3, <2>2, OrderingType
    <2>4. Len(order) # 0
      BY <1>4, <2>1, <2>3
    <2>5. Len(<<>>) = 0
      OBVIOUS
    <2>6. QED
      BY <1>8, <2>4, <2>5
  <1>10. QED
    BY <1>1, <1>5, <1>6, <1>8, <1>9

\* A rollback queues what undoes the diff.
LEMMA RollbackCases ==
    ASSUME TypeOK, NEW k \in DOMAIN log, BeginRollback(k)
    PROVE  /\ op = "idle" /\ op' = "rollback" /\ log[k] \in Diffs
           /\ todo' = UndoWrites(log[k]) /\ base' = log[k].base /\ log' = RemoveAt(log, k)
           /\ k = Len(log) \/ AnyOrder
           /\ UNCHANGED <<mem, gmem, edges, snap, changes, links>>
           /\ \A j \in DOMAIN todo' :
                 /\ todo'[j].type # "link"
                 /\ todo'[j].type = "memory" => todo'[j].graph
  <1>1. /\ op = "idle" /\ op' = "rollback"
        /\ todo' = UndoWrites(log[k]) /\ base' = log[k].base /\ log' = RemoveAt(log, k)
        /\ k = Len(log) \/ AnyOrder
        /\ UNCHANGED <<mem, gmem, edges, snap, changes, links>>
    BY DEF BeginRollback, Ready, stores
  <1>2. log[k] \in Diffs
    BY ElementOfSeq, LenProperties DEF TypeOK
  <1> DEFINE d == log[k]
  <1> HIDE DEF d
  <1>3. d \in Diffs
    BY <1>2 DEF d
  <1>4. /\ Len(d.links) \in Nat /\ Len(d.changes) \in Nat
        /\ DOMAIN UndoWrites(d) = 1 .. Len(d.links) + Len(d.changes)
        /\ \A j \in 1 .. Len(d.links) : UndoWrites(d)[j] = Unlink(d.links[Len(d.links) - j + 1])
        /\ \A j \in Len(d.links) + 1 .. Len(d.links) + Len(d.changes) :
              \E n \in DOMAIN d.changes : UndoWrites(d)[j] = UndoChange(d.changes[n])
    BY <1>3, UndoWritesFields
  <1>5. ASSUME NEW j \in DOMAIN UndoWrites(d)
        PROVE  /\ UndoWrites(d)[j].type # "link"
               /\ UndoWrites(d)[j].type = "memory" => UndoWrites(d)[j].graph
    <2>1. j \in 1 .. Len(d.links) \/ j \in Len(d.links) + 1 .. Len(d.links) + Len(d.changes)
      <3>1. \A l, c \in Nat : \A i \in 1 .. l + c : i \in 1 .. l \/ i \in l + 1 .. l + c
        OBVIOUS
      <3>2. j \in 1 .. Len(d.links) + Len(d.changes)
        BY <1>4
      <3>3. QED
        BY <1>4, <3>1, <3>2, Zenon
    <2>2. CASE j \in 1 .. Len(d.links)
      <3>1. \E e : UndoWrites(d)[j] = Unlink(e)
        BY <1>4, <2>2, Zenon
      <3>2. UndoWrites(d)[j].type = "unlink"
        BY <3>1 DEF Unlink
      <3>3. QED
        BY <3>2
    <2>3. CASE j \in Len(d.links) + 1 .. Len(d.links) + Len(d.changes)
      <3>1. PICK n \in DOMAIN d.changes : UndoWrites(d)[j] = UndoChange(d.changes[n])
        BY <1>4, <2>3
      <3>2. QED
        BY <3>1, UndoChangeFields
    <2>4. QED
      BY <2>1, <2>2, <2>3
  <1>6. QED
    BY <1>1, <1>2, <1>5 DEF d

LEMMA WritesStep ==
    ASSUME RecordInv, [Next]_vars
    PROVE  WritesAreWhole'
  <1>1. TypeOK /\ ReadAreStored /\ CopiesAgree /\ WritesAreWhole /\ DeduplicationIsCurrent
        /\ RepairIsCurrent
    BY DEF RecordInv, StoredInv
  <1>2. CASE op' # "idle" /\ op' # "retrieve"
             /\ \A k \in DOMAIN todo' : todo'[k].type = "memory" => todo'[k].graph
    BY <1>2 DEF WritesAreWhole
  <1>3. CASE todo' = <<>>
    BY <1>3, ListElements DEF WritesAreWhole
  <1>4. CASE Quiet
    <2>1. op = "retrieve" => gmem' = gmem
      BY <1>1, <1>4 DEF Quiet, CopiesAgree
    <2>2. UNCHANGED <<mem, op, todo, crashes>>
      BY <1>4 DEF Quiet
    <2>3. ASSUME op = "retrieve", NEW k \in DOMAIN todo PROVE IsWrittenBack(todo[k])'
      <3>1. IsWrittenBack(todo[k])
        BY <1>1, <2>3 DEF WritesAreWhole
      <3>2. /\ todo'[k] = todo[k] /\ mem' = mem /\ gmem' = gmem
            /\ (CopiesWhole)' = CopiesWhole
        BY <2>1, <2>2, <2>3 DEF CopiesWhole
      <3>3. QED
        BY <3>1, <3>2 DEF IsWrittenBack
    <2>4. CASE op = "retrieve"
      BY <1>1, <2>2, <2>3, <2>4 DEF WritesAreWhole
    <2>5. CASE op # "retrieve"
      BY <1>1, <2>2, <2>5 DEF WritesAreWhole
    <2>6. QED
      BY <2>4, <2>5
  <1>5. ASSUME NEW i \in Atoms, Ingest(i) PROVE WritesAreWhole'
    <2>1. todo' = <<>>
      BY <1>1, <1>5 DEF Ingest, Ready, call, WritesAreWhole
    <2>2. QED
      BY <1>3, <2>1
  <1>6. ASSUME NEW selected \in SUBSET Selectable, NEW viaGraph \in SUBSET selected,
               BeginRetrieve(selected, viaGraph)
        PROVE  WritesAreWhole'
    <2>1. UNCHANGED <<mem, gmem, crashes>> /\ op' = "retrieve"
      BY <1>1, <1>6, RetrieveCases
    <2>2. /\ \A k \in DOMAIN todo' : IsWrittenBack(todo'[k])
          /\ \A k, j \in DOMAIN todo' : j # k => todo'[j].id # todo'[k].id
      BY <1>1, <1>6, RetrieveCases
    <2>3. QED
      BY <2>1, <2>2 DEF WritesAreWhole, IsWrittenBack, CopiesWhole
  <1>7. ASSUME NEW kind, Starting(kind), UNCHANGED todo PROVE WritesAreWhole'
    <2>1. todo' = <<>>
      BY <1>1, <1>7 DEF Starting, WritesAreWhole
    <2>2. QED
      BY <1>3, <2>1
  <1>8. CASE BeginDecay
    <2>1. \A k \in DOMAIN todo' : todo'[k].graph
      <3>1. ASSUME NEW k \in DOMAIN todo' PROVE todo'[k].graph
        <4>1. PICK i \in Active : todo'[k] = Put(i, Archived(mem[i]), TRUE, FALSE)
          BY <1>1, <1>8, DecayCases
        <4>2. QED
          BY <4>1 DEF Put
      <3>2. QED
        BY <3>1
    <2>2. QED
      BY <1>1, <1>2, <1>8, <2>1, DecayCases
  <1>9. ASSUME NEW k \in DOMAIN log, BeginRollback(k) PROVE WritesAreWhole'
    BY <1>1, <1>2, <1>9, RollbackCases
  <1>10. CASE MergePair
    <2>1. op' = "deduplication"
      BY <1>1, <1>10, MergeCases
    <2>2. PICK c, d \in Ids :
             todo' = <<Put(c, snap'[c], TRUE, FALSE), Put(d, snap'[d], TRUE, FALSE),
                       Link(SameAs(d, c)), Link(DerivedFrom(c, d))>>
      BY <1>1, <1>10, MergeCases, Zenon
    <2>3. \A k \in DOMAIN todo' : todo'[k].type = "memory" => todo'[k].graph
      BY <2>2 DEF Put, Link
    <2>4. QED
      BY <1>2, <2>1, <2>3
  <1>11. CASE RepairPair
    <2>1. op' = "contradiction_repair"
      BY <1>1, <1>11, RepairCases
    <2>2. PICK o, n \in Ids, older, newer \in Memory :
             todo' = <<Put(o, older, TRUE, FALSE), Put(n, newer, TRUE, FALSE),
                       Link(Contradicts(o, n))>>
      BY <1>1, <1>11, RepairCases, Zenon
    <2>3. \A k \in DOMAIN todo' : todo'[k].type = "memory" => todo'[k].graph
      BY <2>2 DEF Put, Link
    <2>4. QED
      BY <1>2, <2>1, <2>3
  <1>12. ASSUME NEW t \in Topics, Summarise(t) PROVE WritesAreWhole'
    <2>1. op' = "abstraction"
      BY <1>1, <1>12, SummaryCases
    <2>2. PICK s \in Summaries, rec \in Memory, added \in Seq(Edges) :
             \A k \in DOMAIN todo' :
                \/ todo'[k] = Put(s, rec, TRUE, FALSE)
                \/ \E n \in DOMAIN added : todo'[k] = Link(added[n])
      BY <1>1, <1>12, SummaryCases, Zenon
    <2>3. \A k \in DOMAIN todo' : todo'[k].type = "memory" => todo'[k].graph
      BY <2>2 DEF Put, Link
    <2>4. QED
      BY <1>2, <2>1, <2>3
  <1>13. CASE ApplyWrite
    <2>1. todo # <<>> /\ todo \in Seq(Writes) /\ todo' = Tail(todo) /\ op' = op
      BY <1>1, <1>13, ApplyCases
    <2>2. /\ 1 \in DOMAIN todo
          /\ \A k \in DOMAIN todo' : k + 1 \in DOMAIN todo /\ todo'[k] = todo[k + 1]
      BY <2>1, QueueShifts
    <2>3. DOMAIN todo \subseteq Nat /\ DOMAIN todo' \subseteq Nat /\ \A k \in DOMAIN todo' : k + 1 # 1
      BY <2>1, QueueShifts
    <2>4. op # "idle"
      BY <1>1, <2>1 DEF WritesAreWhole
    <2>5. CASE op # "retrieve"
      <3>1. \A k \in DOMAIN todo' : todo'[k].type = "memory" => todo'[k].graph
        BY <1>1, <2>2, <2>5 DEF WritesAreWhole
      <3>2. QED
        BY <1>2, <2>1, <2>4, <2>5, <3>1
    <2>6. CASE op = "retrieve"
      <3>1. ASSUME NEW k \in DOMAIN todo'
            PROVE  /\ IsWrittenBack(todo[k])'
                   /\ \A j \in DOMAIN todo' : j # k => todo'[j].id # todo'[k].id
        <4>1. /\ IsWrittenBack(todo[k + 1]) /\ todo'[k] = todo[k + 1]
              /\ \A j \in DOMAIN todo : j # k + 1 => todo[j].id # todo[k + 1].id
          BY <1>1, <2>2, <2>6 DEF WritesAreWhole
        <4>2. todo[k + 1].id \in Ids /\ todo[k + 1].id # todo[1].id
          BY <1>1, <2>2, <2>3, <4>1, TypedState DEF IsWrittenBack
        <4>3. mem'[todo[k + 1].id] = mem[todo[k + 1].id] /\ gmem' = gmem /\ crashes' = crashes
          BY <1>1, <1>13, <4>2, ApplyCases
        <4>4. ASSUME NEW j \in DOMAIN todo', j # k PROVE todo'[j].id # todo'[k].id
          <5>1. j + 1 # k + 1
            BY <2>3, <4>4
          <5>2. QED
            BY <2>2, <4>1, <5>1
        <4>5. IsWrittenBack(todo[k])'
          BY <4>1, <4>3 DEF IsWrittenBack, CopiesWhole
        <4>6. QED
          BY <4>4, <4>5
      <3>2. QED
        BY <2>1, <2>6, <3>1 DEF WritesAreWhole, IsWrittenBack, CopiesWhole
    <2>7. QED
      BY <2>5, <2>6
  <1>14. CASE Ending
    BY <1>3, <1>14 DEF Ending
  <1>15. QED
    BY <1>1, <1>4, <1>5, <1>6, <1>7, <1>8, <1>9, <1>10, <1>11, <1>12, <1>13, <1>14, StepCases,
       EndingSteps

\* A write of a merge leaves a merge that has come one write further.
LEMMA MergeProceeds ==
    ASSUME TypeOK, op = "deduplication", NEW c \in Ids, NEW d \in Ids, Merging(c, d), ApplyWrite
    PROVE  Merging(c, d)' \/ (todo' = <<>> /\ CurrentBut({})')
  <1> DEFINE putC == Put(c, snap[c], TRUE, FALSE)
             putD == Put(d, snap[d], TRUE, FALSE)
             same == Link(SameAs(d, c))
             derived == Link(DerivedFrom(c, d))
  <1>1. /\ putC.type = "memory" /\ putC.id = c /\ putC.rec = snap[c]
        /\ putD.type = "memory" /\ putD.id = d /\ putD.rec = snap[d]
        /\ same.type = "link" /\ derived.type = "link"
    BY DEF Put, Link
  <1>2. /\ c # d /\ IsActive(snap[c]) /\ IsActive(mem[c])
        /\ snap[d] # Null /\ snap[d].archived /\ snap[d].canonical = c
        /\ \/ todo = <<putC, putD, same, derived>> /\ IsActive(mem[d]) /\ CurrentBut({c, d})
           \/ todo = <<putD, same, derived>> /\ IsActive(mem[d]) /\ CurrentBut({d})
           \/ todo = <<same, derived>> /\ CurrentBut({})
           \/ todo = <<derived>> /\ CurrentBut({})
    BY DEF Merging
  <1>3. snap' = snap
    BY ApplyCases
  <1>4. putC' = putC /\ putD' = putD /\ same' = same /\ derived' = derived
    BY <1>3 DEF Put, Link, SameAs, DerivedFrom
  <1> HIDE DEF putC, putD, same, derived
  <1>5. ASSUME todo[1].type = "link" PROVE mem' = mem
    BY <1>5, ApplyCases
  <1>6. ASSUME todo[1].type = "memory"
        PROVE  \A i \in Ids : mem'[i] = IF i = todo[1].id THEN todo[1].rec ELSE mem[i]
    BY <1>6, ApplyCases
  <1>7. todo' = Tail(todo)
    BY ApplyCases
  <1>8. /\ IsActive(snap'[c])
        /\ snap'[d] # Null /\ snap'[d].archived /\ snap'[d].canonical = c
    BY <1>2, <1>3
  <1>9. SUFFICES /\ IsActive(mem'[c])
                 /\ \/ /\ todo' = <<putD, same, derived>> /\ IsActive(mem'[d])
                       /\ \A i \in Ids : i # d /\ snap[i] # Null => mem'[i] = snap[i]
                    \/ /\ todo' \in {<<same, derived>>, <<derived>>, <<>>}
                       /\ \A i \in Ids : snap[i] # Null => mem'[i] = snap[i]
    <2>1. CurrentBut({})' <=> \A i \in Ids : snap[i] # Null => mem'[i] = snap[i]
      BY <1>3 DEF CurrentBut
    <2>2. CurrentBut({d})' <=> \A i \in Ids : i # d /\ snap[i] # Null => mem'[i] = snap[i]
      BY <1>3 DEF CurrentBut
    <2>3. Merging(c, d)' <=>
             /\ c # d /\ IsActive(snap'[c]) /\ IsActive(mem'[c])
             /\ snap'[d] # Null /\ snap'[d].archived /\ snap'[d].canonical = c
             /\ \/ todo' = <<putC, putD, same, derived>> /\ IsActive(mem'[d]) /\ CurrentBut({c, d})'
                \/ todo' = <<putD, same, derived>> /\ IsActive(mem'[d]) /\ CurrentBut({d})'
                \/ todo' = <<same, derived>> /\ CurrentBut({})'
                \/ todo' = <<derived>> /\ CurrentBut({})'
      BY <1>4, Zenon DEF Merging, putC, putD, same, derived
    <2>4. QED
      BY <1>2, <1>8, <2>1, <2>2, <2>3
  <1>10. CASE todo = <<putC, putD, same, derived>> /\ IsActive(mem[d]) /\ CurrentBut({c, d})
    <2>1. todo[1] = putC /\ todo' = <<putD, same, derived>>
      BY <1>7, <1>10
    <2>2. \A i \in Ids : mem'[i] = IF i = c THEN snap[c] ELSE mem[i]
      BY <1>1, <1>6, <2>1
    <2>3. QED
      BY <1>2, <1>10, <2>1, <2>2 DEF CurrentBut
  <1>11. CASE todo = <<putD, same, derived>> /\ IsActive(mem[d]) /\ CurrentBut({d})
    <2>1. todo[1] = putD /\ todo' = <<same, derived>>
      BY <1>7, <1>11
    <2>2. \A i \in Ids : mem'[i] = IF i = d THEN snap[d] ELSE mem[i]
      BY <1>1, <1>6, <2>1
    <2>3. QED
      BY <1>2, <1>11, <2>1, <2>2 DEF CurrentBut
  <1>12. CASE todo = <<same, derived>> /\ CurrentBut({})
    <2>1. todo[1] = same /\ todo' = <<derived>>
      BY <1>7, <1>12
    <2>2. mem' = mem
      BY <1>1, <1>5, <2>1
    <2>3. QED
      BY <1>2, <1>12, <2>1, <2>2 DEF CurrentBut
  <1>13. CASE todo = <<derived>> /\ CurrentBut({})
    <2>1. todo[1] = derived /\ todo' = <<>>
      BY <1>7, <1>13
    <2>2. mem' = mem
      BY <1>1, <1>5, <2>1
    <2>3. QED
      BY <1>2, <1>13, <2>1, <2>2 DEF CurrentBut
  <1>14. QED
    BY <1>2, <1>10, <1>11, <1>12, <1>13

LEMMA DeduplicationStep ==
    ASSUME RecordInv, [Next]_vars
    PROVE  DeduplicationIsCurrent'
  <1>1. TypeOK /\ ReadAreStored /\ CopiesAgree /\ WritesAreWhole /\ DeduplicationIsCurrent
        /\ RepairIsCurrent
    BY DEF RecordInv, StoredInv
  <1>2. CASE op' # "deduplication"
    BY <1>2 DEF DeduplicationIsCurrent
  <1>3. CASE Quiet
    <2>1. mem' = mem /\ snap' = snap /\ todo' = todo /\ op' = op /\ work' \subseteq work
      BY <1>3 DEF Quiet
    <2>2. ASSUME NEW S PROVE CurrentBut(S)' <=> CurrentBut(S)
      BY <2>1 DEF CurrentBut
    <2>3. ASSUME NEW c \in Ids, NEW d \in Ids, Merging(c, d) PROVE Merging(c, d)'
      BY <2>1, <2>2, <2>3, Zenon DEF Merging
    <2>4. CASE op = "deduplication"
      <3>1. \A p \in work' : p[1] # p[2]
        BY <1>1, <2>1, <2>4 DEF DeduplicationIsCurrent
      <3>2. (todo' = <<>> /\ CurrentBut({})') \/ \E c, d \in Ids : Merging(c, d)'
        BY <1>1, <2>1, <2>2, <2>3, <2>4 DEF DeduplicationIsCurrent
      <3>3. QED
        BY <3>1, <3>2 DEF DeduplicationIsCurrent
    <2>5. QED
      BY <1>2, <2>1, <2>4
  <1>4. CASE Starting("deduplication") /\ UNCHANGED todo
    <2>1. todo' = <<>> /\ \A p \in work' : p[1] # p[2]
      BY <1>1, <1>4 DEF Starting, WritesAreWhole
    <2>2. mem' = mem /\ snap' = ActiveSnapshot
      BY <1>4 DEF Starting
    <2>3. CurrentBut({})'
      BY <2>2 DEF CurrentBut, ActiveSnapshot
    <2>4. QED
      BY <2>1, <2>3 DEF DeduplicationIsCurrent
  <1>5. CASE MergePair
    <2>1. op = "deduplication" /\ todo = <<>> /\ work' \subseteq work /\ mem' = mem
      BY <1>1, <1>5, MergeCases
    <2>2. PICK c, d \in Ids :
             /\ c # d /\ IsActive(snap[c]) /\ IsActive(snap[d])
             /\ snap'[c] = CanonicalAfter(snap[c], snap[d], d)
             /\ snap'[d] = DuplicateAfter(snap[d], c)
             /\ \A i \in Ids : i # c /\ i # d => snap'[i] = snap[i]
             /\ todo' = <<Put(c, snap'[c], TRUE, FALSE), Put(d, snap'[d], TRUE, FALSE),
                          Link(SameAs(d, c)), Link(DerivedFrom(c, d))>>
      BY <1>1, <1>5, MergeCases, Zenon
    <2>3. CurrentBut({}) /\ \A p \in work : p[1] # p[2]
      BY <1>1, <2>1, ListElements DEF DeduplicationIsCurrent, Merging
    <2>4. mem[c] = snap[c] /\ mem[d] = snap[d] /\ IsActive(mem[c]) /\ IsActive(mem[d])
      BY <2>2, <2>3 DEF CurrentBut, IsActive
    <2>5. snap[c] \in Memory /\ snap[d] \in Memory
      BY <1>1, <2>2, TypedState DEF IsActive
    <2>6. snap'[c] \in Memory /\ snap'[d] \in Memory
      <3>1. CanonicalAfter(snap[c], snap[d], d) \in Memory /\ DuplicateAfter(snap[d], c) \in Memory
        BY <2>5, MemoryUpdates
      <3>2. QED
        BY <2>2, <3>1
    <2>7. ~snap'[c].archived /\ snap'[d].archived /\ snap'[d].canonical = c
      <3>1. snap'[c].archived = snap[c].archived
        BY <2>2, <2>5 DEF CanonicalAfter, Memory
      <3>2. snap'[d].archived /\ snap'[d].canonical = c
        BY <2>2, <2>5 DEF DuplicateAfter, Memory
      <3>3. QED
        BY <2>2, <3>1, <3>2 DEF IsActive
    <2>8. IsActive(snap'[c]) /\ snap'[d] # Null
      BY <2>6, <2>7, ConstantsAssumption DEF IsActive
    <2>9. CurrentBut({c, d})'
      BY <2>1, <2>2, <2>3 DEF CurrentBut
    <2>10. Merging(c, d)'
      BY <2>1, <2>2, <2>4, <2>7, <2>8, <2>9, Zenon DEF Merging
    <2>11. \A p \in work' : p[1] # p[2]
      BY <2>1, <2>3
    <2>12. QED
      BY <2>10, <2>11 DEF DeduplicationIsCurrent
  <1>6. CASE ApplyWrite /\ op = "deduplication"
    <2>1. todo # <<>>
      BY <1>1, <1>6, ApplyCases
    <2>2. work' = work
      BY <1>6 DEF ApplyWrite
    <2>3. PICK c, d \in Ids : Merging(c, d)
      BY <1>1, <1>6, <2>1 DEF DeduplicationIsCurrent
    <2>4. Merging(c, d)' \/ (todo' = <<>> /\ CurrentBut({})')
      BY <1>1, <1>6, <2>3, MergeProceeds
    <2>5. QED
      BY <1>1, <1>6, <2>2, <2>4 DEF DeduplicationIsCurrent
  <1>7. CASE ApplyWrite /\ op # "deduplication"
    BY <1>1, <1>2, <1>7, ApplyCases
  <1>8. CASE Ending
    BY <1>2, <1>8 DEF Ending
  <1>9. ASSUME NEW i \in Atoms, Ingest(i) PROVE op' # "deduplication"
    BY <1>9 DEF Ingest, Ready, call
  <1>10. ASSUME NEW selected \in SUBSET Selectable, NEW viaGraph \in SUBSET selected,
                BeginRetrieve(selected, viaGraph)
         PROVE  op' # "deduplication"
    BY <1>10 DEF BeginRetrieve, Begin
  <1>11. ASSUME NEW kind \in {"contradiction_repair", "abstraction"}, Starting(kind)
         PROVE  op' # "deduplication"
    BY <1>11 DEF Starting
  <1>12. ASSUME NEW k \in DOMAIN log, BeginRollback(k) PROVE op' # "deduplication"
    BY <1>12 DEF BeginRollback
  <1>13. ASSUME NEW t \in Topics, Summarise(t) PROVE op' # "deduplication"
    BY <1>13 DEF Summarise, Examine
  <1>14. ASSUME BeginDecay \/ RepairPair PROVE op' # "deduplication"
    BY <1>14 DEF BeginDecay, Begin, RepairPair, Examine
  <1>15. QED
    BY <1>1, <1>2, <1>3, <1>4, <1>5, <1>6, <1>7, <1>8, <1>9, <1>10, <1>11, <1>12, <1>13, <1>14,
       StepCases, EndingSteps

LEMMA RepairStep ==
    ASSUME RecordInv, [Next]_vars
    PROVE  RepairIsCurrent'
  <1>1. TypeOK /\ ReadAreStored /\ CopiesAgree /\ WritesAreWhole /\ DeduplicationIsCurrent
        /\ RepairIsCurrent
    BY DEF RecordInv, StoredInv
  <1>2. CASE op' # "contradiction_repair"
    BY <1>2 DEF RepairIsCurrent
  <1>3. CASE Quiet
    BY <1>1, <1>3 DEF Quiet, RepairIsCurrent
  <1>4. CASE Starting("contradiction_repair") /\ UNCHANGED todo
    <2>1. todo' = <<>>
      BY <1>1, <1>4 DEF Starting, WritesAreWhole
    <2>2. mem' = mem /\ snap' = ActiveSnapshot
      BY <1>4 DEF Starting
    <2>3. \A i \in Ids : ActiveSnapshot[i] # Null => ActiveSnapshot[i] = mem[i] /\ IsActive(mem[i])
      BY DEF ActiveSnapshot, Active
    <2>4. DOMAIN <<>> = {}
      OBVIOUS
    <2>5. QED
      BY <2>1, <2>2, <2>3, <2>4 DEF RepairIsCurrent
  <1>5. CASE RepairPair
    <2>1. op = "contradiction_repair" /\ mem' = mem /\ snap' = snap
      BY <1>1, <1>5, RepairCases
    <2>2. PICK o, n \in Ids, older, newer \in Memory :
             /\ snap[o] # Null /\ snap[n] # Null /\ IsActive(older) /\ IsActive(newer)
             /\ todo' = <<Put(o, older, TRUE, FALSE), Put(n, newer, TRUE, FALSE),
                          Link(Contradicts(o, n))>>
      BY <1>1, <1>5, RepairCases, Zenon
    <2>3. \A k \in DOMAIN todo' :
             \/ todo'[k].type = "memory" /\ todo'[k].id = o /\ todo'[k].rec = older
             \/ todo'[k].type = "memory" /\ todo'[k].id = n /\ todo'[k].rec = newer
             \/ todo'[k].type = "link" /\ todo'[k].edge[1] = "contradicts"
      BY <2>2 DEF Put, Link, Contradicts
    <2>4. QED
      BY <1>1, <2>1, <2>2, <2>3 DEF RepairIsCurrent
  <1>6. CASE ApplyWrite /\ op = "contradiction_repair"
    <2>1. todo # <<>> /\ todo \in Seq(Writes) /\ todo' = Tail(todo) /\ snap' = snap
      BY <1>1, <1>6, ApplyCases
    <2>2. /\ 1 \in DOMAIN todo
          /\ \A k \in DOMAIN todo' : k + 1 \in DOMAIN todo /\ todo'[k] = todo[k + 1]
      BY <2>1, QueueShifts
    <2>3. \A k \in DOMAIN todo' :
             IF todo'[k].type = "memory" THEN IsActive(todo'[k].rec) /\ snap[todo'[k].id] # Null
             ELSE todo'[k].edge[1] = "contradicts"
      BY <1>1, <1>6, <2>2 DEF RepairIsCurrent
    <2>4. ASSUME NEW i \in Ids, snap[i] # Null PROVE IsActive(snap[i]) /\ IsActive(mem'[i])
      <3>1. IsActive(snap[i]) /\ IsActive(mem[i])
        BY <1>1, <1>6, <2>4 DEF RepairIsCurrent
      <3>2. todo[1].type = "memory" => IsActive(todo[1].rec)
        BY <1>1, <1>6, <2>2 DEF RepairIsCurrent
      <3>3. mem'[i] = mem[i] \/ (todo[1].type = "memory" /\ mem'[i] = todo[1].rec)
        BY <1>1, <1>6, ApplyCases
      <3>4. QED
        BY <3>1, <3>2, <3>3
    <2>5. QED
      BY <2>1, <2>3, <2>4 DEF RepairIsCurrent
  <1>7. CASE ApplyWrite /\ op # "contradiction_repair"
    BY <1>1, <1>2, <1>7, ApplyCases
  <1>8. CASE Ending
    BY <1>2, <1>8 DEF Ending
  <1>9. ASSUME NEW i \in Atoms, Ingest(i) PROVE op' # "contradiction_repair"
    BY <1>9 DEF Ingest, Ready, call
  <1>10. ASSUME NEW selected \in SUBSET Selectable, NEW viaGraph \in SUBSET selected,
                BeginRetrieve(selected, viaGraph)
         PROVE  op' # "contradiction_repair"
    BY <1>10 DEF BeginRetrieve, Begin
  <1>11. ASSUME NEW kind \in {"deduplication", "abstraction"}, Starting(kind)
         PROVE  op' # "contradiction_repair"
    BY <1>11 DEF Starting
  <1>12. ASSUME NEW k \in DOMAIN log, BeginRollback(k) PROVE op' # "contradiction_repair"
    BY <1>12 DEF BeginRollback
  <1>13. ASSUME NEW t \in Topics, Summarise(t) PROVE op' # "contradiction_repair"
    BY <1>13 DEF Summarise, Examine
  <1>14. ASSUME BeginDecay \/ MergePair PROVE op' # "contradiction_repair"
    BY <1>14 DEF BeginDecay, Begin, MergePair, Examine
  <1>15. QED
    BY <1>1, <1>2, <1>3, <1>4, <1>5, <1>6, <1>7, <1>8, <1>9, <1>10, <1>11, <1>12, <1>13, <1>14,
       StepCases, EndingSteps

LEMMA OthersStep ==
    ASSUME RecordInv, [Next]_vars
    PROVE  WritesOfOthers'
  <1>1. TypeOK /\ ReadAreStored /\ CopiesAgree /\ WritesAreWhole /\ DeduplicationIsCurrent
        /\ RepairIsCurrent /\ WritesOfOthers
    BY DEF RecordInv, StoredInv
  <1>2. CASE todo' = <<>>
    <2>1. DOMAIN <<>> = {}
      OBVIOUS
    <2>2. QED
      BY <1>2, <2>1 DEF WritesOfOthers
  <1>3. CASE Quiet
    BY <1>1, <1>3 DEF Quiet, WritesOfOthers
  <1>4. ASSUME NEW kind, Starting(kind), UNCHANGED todo PROVE WritesOfOthers'
    BY <1>1, <1>2, <1>4 DEF Starting, WritesAreWhole
  <1>5. ASSUME NEW i \in Atoms, Ingest(i) PROVE WritesOfOthers'
    BY <1>1, <1>2, <1>5 DEF Ingest, Ready, call, WritesAreWhole
  <1>6. ASSUME NEW selected \in SUBSET Selectable, NEW viaGraph \in SUBSET selected,
               BeginRetrieve(selected, viaGraph)
        PROVE  WritesOfOthers'
    <2>1. op' = "retrieve" /\ \A k \in DOMAIN todo' : todo'[k].type = "memory"
      BY <1>1, <1>6, RetrieveCases
    <2>2. QED
      BY <2>1 DEF WritesOfOthers
  <1>7. CASE BeginDecay
    <2>1. op' = "decay_archival"
      BY <1>1, <1>7, DecayCases
    <2>2. ASSUME NEW k \in DOMAIN todo' PROVE todo'[k].type = "memory" /\ todo'[k].rec.archived
      <3>1. PICK i \in Active : todo'[k] = Put(i, Archived(mem[i]), TRUE, FALSE)
        BY <1>1, <1>7, DecayCases
      <3>2. Archived(mem[i]).archived
        BY <1>1, ActiveType DEF Archived, Memory
      <3>3. todo'[k].type = "memory" /\ todo'[k].rec = Archived(mem[i])
        BY <3>1 DEF Put
      <3>4. QED
        BY <3>2, <3>3
    <2>3. QED
      BY <2>1, <2>2 DEF WritesOfOthers
  <1>8. ASSUME NEW k \in DOMAIN log, BeginRollback(k) PROVE WritesOfOthers'
    BY <1>1, <1>8, RollbackCases DEF WritesOfOthers
  <1>9. CASE MergePair
    <2>1. op' = "deduplication"
      BY <1>1, <1>9, MergeCases
    <2>2. PICK c, d \in Ids :
             todo' = <<Put(c, snap'[c], TRUE, FALSE), Put(d, snap'[d], TRUE, FALSE),
                       Link(SameAs(d, c)), Link(DerivedFrom(c, d))>>
      BY <1>1, <1>9, MergeCases, Zenon
    <2>3. \A k \in DOMAIN todo' : todo'[k].type # "unlink"
      BY <2>2 DEF Put, Link
    <2>4. QED
      BY <2>1, <2>3 DEF WritesOfOthers
  <1>10. CASE RepairPair
    <2>1. op' = "contradiction_repair"
      BY <1>1, <1>10, RepairCases
    <2>2. PICK o, n \in Ids, older, newer \in Memory :
             todo' = <<Put(o, older, TRUE, FALSE), Put(n, newer, TRUE, FALSE),
                       Link(Contradicts(o, n))>>
      BY <1>1, <1>10, RepairCases, Zenon
    <2>3. \A k \in DOMAIN todo' : todo'[k].type # "unlink"
      BY <2>2 DEF Put, Link
    <2>4. QED
      BY <2>1, <2>3 DEF WritesOfOthers
  <1>11. ASSUME NEW t \in Topics, Summarise(t) PROVE WritesOfOthers'
    <2>1. op' = "abstraction"
      BY <1>1, <1>11, SummaryCases
    <2>2. PICK s \in Summaries, rec \in Memory, added \in Seq(Edges) :
             /\ \A n \in DOMAIN added : added[n][1] = "summarizes"
             /\ \A k \in DOMAIN todo' :
                   \/ todo'[k] = Put(s, rec, TRUE, FALSE)
                   \/ \E n \in DOMAIN added : todo'[k] = Link(added[n])
      BY <1>1, <1>11, SummaryCases, Zenon
    <2>3. \A k \in DOMAIN todo' :
             \/ todo'[k].type = "memory" /\ todo'[k].id \in Summaries
             \/ todo'[k].type = "link" /\ todo'[k].edge[1] = "summarizes"
      BY <2>2 DEF Put, Link
    <2>4. QED
      BY <2>1, <2>3 DEF WritesOfOthers
  <1>12. CASE ApplyWrite
    <2>1. todo # <<>> /\ todo \in Seq(Writes) /\ todo' = Tail(todo) /\ op' = op
      BY <1>1, <1>12, ApplyCases
    <2>2. \A k \in DOMAIN todo' : k + 1 \in DOMAIN todo /\ todo'[k] = todo[k + 1]
      BY <2>1, QueueShifts
    <2>3. QED
      BY <1>1, <2>1, <2>2 DEF WritesOfOthers
  <1>13. CASE Ending
    BY <1>2, <1>13 DEF Ending
  <1>14. QED
    BY <1>1, <1>3, <1>4, <1>5, <1>6, <1>7, <1>8, <1>9, <1>10, <1>11, <1>12, <1>13, StepCases,
       EndingSteps

LEMMA StoredStep == StoredInv /\ [Next]_vars => StoredInv'
  BY TypeStep, ReadStep, LinksStep, EdgesStep DEF StoredInv

LEMMA RecordStep == RecordInv /\ [Next]_vars => RecordInv'
  <1> SUFFICES ASSUME RecordInv, [Next]_vars PROVE RecordInv'
    OBVIOUS
  <1>1. StoredInv'
    BY StoredStep DEF RecordInv
  <1>2. /\ CopiesAgree' /\ WritesAreWhole' /\ DeduplicationIsCurrent' /\ RepairIsCurrent'
        /\ WritesOfOthers'
    BY CopiesStep, WritesStep, DeduplicationStep, RepairStep, OthersStep
  <1>3. QED
    BY <1>1, <1>2 DEF RecordInv


-----------------------------------------------------------------------------
(***************************************************************************)
(* What holds of every process.                                            *)
(***************************************************************************)
LEMMA RecordInit == Init => RecordInv
  <1> SUFFICES ASSUME Init PROVE RecordInv
    OBVIOUS
  <1>1. StoredInv
    BY InitType DEF Init, StoredInv, ReadAreStored, LinksFollowMemories, NoDanglingEdges, NoRecords
  <1>2. CopiesAgree
    BY BoundsAssumption DEF Init, CopiesAgree, GraphCopyAgrees, CopyKept, NoRecords
  <1>3. WritesAreWhole /\ DeduplicationIsCurrent /\ RepairIsCurrent /\ WritesOfOthers
    <2>1. op = "idle" /\ todo = <<>> /\ DOMAIN <<>> = {}
      BY DEF Init
    <2>2. QED
      BY <2>1 DEF WritesAreWhole, DeduplicationIsCurrent, RepairIsCurrent, WritesOfOthers
  <1>4. QED
    BY <1>1, <1>2, <1>3 DEF RecordInv

LEMMA RecordInvariant == Spec => []RecordInv
  BY RecordInit, RecordStep, PTL DEF Spec

\* A process that has never crashed finds in a graph store of its own what the memory
\* store says of every memory, but for the accesses that only the memory store is
\* told, or is about to write it: no run, rollback, ingestion or retrieval reaches one
\* store and forgets the other (put and upsert_memory in strategies.py, service.py).
THEOREM CopiesStayAlike == Spec => []GraphCopyAgrees
  <1>1. RecordInv => GraphCopyAgrees
    BY DEF RecordInv, CopiesAgree
  <1>2. QED
    BY <1>1, RecordInvariant, PTL

\* Copies part only where a crash falls between the two writes of one memory, and
\* that memory's alone: however often the process has crashed before, no call parts
\* a memory's copies, not even one that writes back or restores others that have parted.
THEOREM CopiesPartByCrashes == Spec => OnlyCrashesPartCopies
  <1>1. RecordInv /\ [Next]_vars =>
           [~SharedStore => \A i \in Ids :
               CopyKept(i) => CopyKept(i)' \/ (crashes' # crashes /\ copying = i)]_vars
    BY CopyStep DEF RecordInv, StoredInv
  <1>2. QED
    BY <1>1, RecordInvariant, PTL DEF Spec, OnlyCrashesPartCopies

\* A retrieval whose graph store shares the backend raises the count of what it
\* selected, one write at a time, and overwrites nothing else that was stored: the
\* record it puts back is the stored one (RetrievalService._write_back_access).
THEOREM AccessesAreCounted == SharedStore => (Spec => RetrievalCounts)
  <1> SUFFICES ASSUME SharedStore PROVE Spec => RetrievalCounts
    OBVIOUS
  <1>1. ASSUME RecordInv, [Next]_vars
        PROVE  [op = "retrieve" /\ op' = "retrieve" =>
                   mem' = [mem EXCEPT ![Head(todo).id].access = @ + 1]]_vars
    <2> SUFFICES ASSUME Next, op = "retrieve", op' = "retrieve"
                 PROVE  mem' = [mem EXCEPT ![Head(todo).id].access = @ + 1]
      BY <1>1
    <2>1. TypeOK /\ WritesAreWhole
      BY <1>1 DEF RecordInv, StoredInv
    <2>2. ApplyWrite
      BY <1>1 DEF Next, Ingest, BeginRetrieve, BeginDeduplication, MergePair, PassPair, BeginRepair,
             RepairPair, SkipPair, BeginAbstraction, Summarise, BeginDecay, BeginRollback, FinishRun,
             FinishCall, CopyWrite, Tick, Crash, BeginRun, Begin, Ready, Examine, Return,
             Strategies, RecordInv, CopiesAgree
    <2>3. Head(todo) = todo[1] /\ 1 \in DOMAIN todo
      BY <2>1, <2>2, ApplyCases, QueueShifts, Zenon
    <2>4. todo[1].type = "memory" /\ todo[1].rec = Accessed(mem[todo[1].id])
      BY <2>1, <2>3 DEF WritesAreWhole, IsWrittenBack
    <2>5. mem' = [mem EXCEPT ![todo[1].id] = todo[1].rec]
      BY <2>2, <2>3, <2>4 DEF ApplyWrite
    <2>6. QED
      BY <2>3, <2>4, <2>5 DEF Accessed
  <1>2. QED
    BY <1>1, RecordInvariant, PTL DEF Spec, RetrievalCounts

\* An atom becomes active by a rollback, by its ingestion, or by a retrieval that reads a
\* copy that parted.
LEMMA AtomsBecomeActive ==
    ASSUME RecordInv, [Next]_vars, NEW i \in Atoms, ~IsActive(mem[i]), IsActive(mem'[i])
    PROVE  op = "rollback" \/ Ingest(i) \/ (op = "retrieve" /\ ~SharedStore /\ ~CopyKept(i))
  <1>1. TypeOK /\ WritesAreWhole /\ DeduplicationIsCurrent /\ RepairIsCurrent /\ WritesOfOthers
    BY DEF RecordInv, StoredInv
  <1>2. i \in Ids
    BY DEF Ids
  <1>3. mem'[i] # mem[i]
    OBVIOUS
  <1>4. SUFFICES ASSUME ~Ingest(i), op = "retrieve" => SharedStore \/ CopyKept(i) PROVE op = "rollback"
    OBVIOUS
  <1>5. ~\E j \in Atoms : Ingest(j)
    <2>1. ASSUME NEW j \in Atoms, Ingest(j) PROVE mem'[i] = mem[i] \/ j = i
      BY <1>1, <1>2, <2>1, TypedState DEF Ingest
    <2>2. QED
      BY <1>3, <1>4, <2>1
  <1>6. ApplyWrite
    BY <1>1, <1>3, <1>5, StepCases, EndingSteps
       DEF Quiet, Starting, Ending, BeginRetrieve, BeginDecay, BeginRollback, Begin, MergePair,
           RepairPair, Summarise, stores
  <1>7. todo # <<>> /\ 1 \in DOMAIN todo
    BY <1>1, <1>6, ApplyCases, QueueShifts, Zenon
  <1>8. todo[1].type = "memory" /\ todo[1].id = i /\ ~todo[1].rec.archived
    BY <1>1, <1>2, <1>3, <1>6, ApplyCases DEF IsActive
  <1>9. op \notin {"idle", "retrieve", "contradiction_repair", "abstraction", "decay_archival"}
    <2>1. op # "idle" /\ op # "retrieve"
      <3>1. op # "idle"
        BY <1>1, <1>7, <1>8 DEF WritesAreWhole
      <3>2. ASSUME op = "retrieve" PROVE FALSE
        <4>1. \/ SameButAccess(todo[1].rec, mem[i])
              \/ ~SharedStore /\ SameButAccess(todo[1].rec, gmem[i])
          BY <1>1, <1>7, <1>8, <3>2 DEF WritesAreWhole, IsWrittenBack
        <4>2. todo[1].rec \in Memory /\ copying = Null /\ i # Null
          BY <1>1, <1>2, <1>6, <1>7, <1>8, ApplyCases, TypedState, ConstantsAssumption
        <4>3. ASSUME NEW r \in Memory, SameButAccess(todo[1].rec, r) PROVE ~r.archived
          BY <1>8, <4>2, <4>3, SameIsEquivalence
        <4>4. ASSUME SameButAccess(todo[1].rec, mem[i]) PROVE IsActive(mem[i])
          <5>1. mem[i] # Null /\ mem[i] \in Memory
            BY <1>1, <1>2, <4>4, TypedState DEF SameButAccess
          <5>2. QED
            BY <4>3, <4>4, <5>1 DEF IsActive
        <4>5. ASSUME ~SharedStore, SameButAccess(todo[1].rec, gmem[i]) PROVE IsActive(mem[i])
          <5>1. gmem[i] # Null /\ gmem[i] \in Memory /\ ~gmem[i].archived
            BY <1>1, <1>2, <4>3, <4>5, TypedState DEF SameButAccess
          <5>2. mem[i] # Null /\ SameButAccess(gmem[i], mem[i])
            BY <1>4, <3>2, <4>2, <4>5, <5>1, CopyIsSame
          <5>3. mem[i] \in Memory
            BY <1>1, <1>2, <5>2, TypedState
          <5>4. QED
            BY <5>1, <5>2, <5>3, SameIsEquivalence DEF IsActive
        <4>6. QED
          BY <4>1, <4>4, <4>5
      <3>3. QED
        BY <3>1, <3>2
    <2>2. op # "contradiction_repair"
      BY <1>1, <1>2, <1>7, <1>8 DEF RepairIsCurrent
    <2>3. op # "abstraction"
      BY <1>1, <1>7, <1>8, ConstantsAssumption DEF WritesOfOthers
    <2>4. op # "decay_archival"
      BY <1>1, <1>7, <1>8 DEF WritesOfOthers
    <2>5. QED
      BY <2>1, <2>2, <2>3, <2>4
  <1>10. op # "deduplication"
    <2>1. SUFFICES ASSUME NEW c \in Ids, NEW d \in Ids, Merging(c, d) PROVE FALSE
      BY <1>1, <1>7 DEF DeduplicationIsCurrent
    <2> DEFINE putC == Put(c, snap[c], TRUE, FALSE)
               putD == Put(d, snap[d], TRUE, FALSE)
               same == Link(SameAs(d, c))
               derived == Link(DerivedFrom(c, d))
    <2>2. putC.id = c /\ putD.id = d /\ same.type = "link" /\ derived.type = "link"
      BY DEF Put, Link
    <2>3. /\ IsActive(mem[c])
          /\ \/ todo = <<putC, putD, same, derived>> /\ IsActive(mem[d])
             \/ todo = <<putD, same, derived>> /\ IsActive(mem[d])
             \/ todo = <<same, derived>>
             \/ todo = <<derived>>
      BY <2>1 DEF Merging
    <2> HIDE DEF putC, putD, same, derived
    <2>4. QED
      BY <1>8, <2>2, <2>3, ListElements
  <1>11. QED
    BY <1>1, <1>9, <1>10 DEF TypeOK, Ops, Strategies

\* Nothing but a rollback brings an archived atom back: no run writes over one from
\* a copy read while it was active, and no access write-back does (memory_index,
\* _write_back_access), unless its record is the graph store's and a crash has left
\* that behind.
THEOREM OnlyRollbacksRevive == Spec => OnlyRollbackRevives
  <1>1. ASSUME RecordInv, [Next]_vars, NEW i \in Atoms, mem[i] # Null, mem[i].archived,
               ~mem'[i].archived
        PROVE  op = "rollback" \/ (op = "retrieve" /\ ~SharedStore /\ ~CopyKept(i))
    <2>1. TypeOK /\ i \in Ids
      BY <1>1 DEF RecordInv, StoredInv, Ids
    <2>2. mem'[i] # Null
      BY <1>1, <2>1, StoredForever
    <2>3. ~IsActive(mem[i]) /\ IsActive(mem'[i]) /\ ~Ingest(i)
      BY <1>1, <2>2 DEF IsActive, Ingest
    <2>4. QED
      BY <1>1, <2>3, AtomsBecomeActive
  <1>2. RecordInv /\ [Next]_vars =>
           [\A i \in Atoms : (mem[i] # Null /\ mem[i].archived /\ ~mem'[i].archived) =>
               op = "rollback" \/ (op = "retrieve" /\ ~SharedStore /\ ~CopyKept(i))]_vars
    BY <1>1
  <1>3. QED
    BY <1>2, RecordInvariant, PTL DEF Spec, OnlyRollbackRevives

-----------------------------------------------------------------------------
(***************************************************************************)
(* The invariant of a process that rolls back the newest diff only, and    *)
(* whose diffs die with it, is inductive.                                  *)
(***************************************************************************)
\* What a list extended by another one, and a list without its last, contain.
LEMMA ListsExtended ==
    ASSUME NEW S, NEW s \in Seq(S), NEW t \in Seq(S)
    PROVE  /\ s \o t \in Seq(S)
           /\ ToSet(s) \subseteq ToSet(s \o t) /\ ToSet(t) \subseteq ToSet(s \o t)
           /\ \A k \in DOMAIN (s \o t) :
                 (\E j \in DOMAIN s : (s \o t)[k] = s[j]) \/ (\E j \in DOMAIN t : (s \o t)[k] = t[j])
           /\ t # <<>> => s \o t # <<>>
  <1>1. /\ DOMAIN s = 1 .. Len(s) /\ DOMAIN t = 1 .. Len(t) /\ Len(s) \in Nat /\ Len(t) \in Nat
    BY LenProperties
  <1>2. /\ s \o t \in Seq(S) /\ Len(s \o t) = Len(s) + Len(t)
        /\ \A k \in 1 .. Len(s) + Len(t) :
              (s \o t)[k] = IF k <= Len(s) THEN s[k] ELSE t[k - Len(s)]
    BY ConcatProperties
  <1>3. DOMAIN (s \o t) = 1 .. Len(s) + Len(t)
    BY <1>2, LenProperties
  <1> DEFINE st == s \o t
  <1> HIDE DEF st
  <1>4. /\ Len(st) = Len(s) + Len(t) /\ DOMAIN st = 1 .. Len(s) + Len(t)
        /\ \A k \in 1 .. Len(s) + Len(t) : st[k] = IF k <= Len(s) THEN s[k] ELSE t[k - Len(s)]
    BY <1>2, <1>3 DEF st
  <1>5. ASSUME NEW j \in DOMAIN s PROVE j \in DOMAIN st /\ st[j] = s[j]
    BY <1>1, <1>4
  <1>6. ASSUME NEW j \in DOMAIN t PROVE j + Len(s) \in DOMAIN st /\ st[j + Len(s)] = t[j]
    BY <1>1, <1>4
  <1>7. ToSet(s) \subseteq ToSet(st) /\ ToSet(t) \subseteq ToSet(st)
    BY <1>5, <1>6 DEF ToSet
  <1>8. ASSUME NEW k \in DOMAIN st
        PROVE  (\E j \in DOMAIN s : st[k] = s[j]) \/ (\E j \in DOMAIN t : st[k] = t[j])
    <2>1. CASE k <= Len(s)
      BY <1>1, <1>4, <2>1
    <2>2. CASE ~(k <= Len(s))
      <3>1. k - Len(s) \in DOMAIN t
        BY <1>1, <1>4, <2>2
      <3>2. QED
        BY <1>4, <2>2, <3>1
    <2>3. QED
      BY <2>1, <2>2
  <1>9. t # <<>> => st # <<>>
    <2>1. t # <<>> => Len(t) > 0
      BY EmptySeq, LenProperties
    <2>2. st = <<>> => Len(st) = 0
      OBVIOUS
    <2>3. QED
      BY <1>1, <1>4, <2>1, <2>2
  <1>10. QED
    BY <1>2, <1>7, <1>8, <1>9 DEF st

LEMMA AppendedList ==
    ASSUME NEW S, NEW s \in Seq(S), NEW e \in S
    PROVE  /\ Append(s, e) \in Seq(S) /\ Append(s, e) # <<>>
           /\ Len(s) \in Nat /\ DOMAIN s = 1 .. Len(s)
           /\ Len(Append(s, e)) = Len(s) + 1 /\ DOMAIN Append(s, e) = 1 .. Len(s) + 1
           /\ \A k \in DOMAIN s : Append(s, e)[k] = s[k]
           /\ Append(s, e)[Len(s) + 1] = e
           /\ ToSet(s) \subseteq ToSet(Append(s, e)) /\ e \in ToSet(Append(s, e))
           /\ \A k \in DOMAIN Append(s, e) :
                 Append(s, e)[k] = e \/ \E j \in DOMAIN s : Append(s, e)[k] = s[j]
  <1>1. /\ Len(s) \in Nat /\ DOMAIN s = 1 .. Len(s)
    BY LenProperties
  <1>2. /\ Append(s, e) \in Seq(S) /\ Append(s, e) # <<>> /\ Len(Append(s, e)) = Len(s) + 1
        /\ \A k \in 1 .. Len(s) : Append(s, e)[k] = s[k]
        /\ Append(s, e)[Len(s) + 1] = e
    BY AppendProperties
  <1>3. DOMAIN Append(s, e) = 1 .. Len(s) + 1
    BY <1>2, LenProperties
  <1> DEFINE longer == Append(s, e)
  <1> HIDE DEF longer
  <1>4. /\ DOMAIN longer = 1 .. Len(s) + 1 /\ longer[Len(s) + 1] = e
        /\ \A k \in DOMAIN s : longer[k] = s[k]
    BY <1>1, <1>2, <1>3 DEF longer
  <1>5. DOMAIN s \subseteq DOMAIN longer /\ Len(s) + 1 \in DOMAIN longer
    BY <1>1, <1>4
  <1>6. \A k \in DOMAIN longer : k \in DOMAIN s \/ k = Len(s) + 1
    BY <1>1, <1>4
  <1>7. ToSet(s) \subseteq ToSet(longer) /\ e \in ToSet(longer)
    BY <1>4, <1>5 DEF ToSet
  <1>8. \A k \in DOMAIN longer : longer[k] = e \/ \E j \in DOMAIN s : longer[k] = s[j]
    BY <1>4, <1>6
  <1>9. QED
    BY <1>1, <1>2, <1>3, <1>7, <1>8 DEF longer

LEMMA LastRemoved ==
    ASSUME NEW S, NEW s \in Seq(S), s # <<>>
    PROVE  /\ Len(s) \in Nat /\ Len(s) > 0 /\ DOMAIN s = 1 .. Len(s)
           /\ RemoveAt(s, Len(s)) \in Seq(S) /\ Len(RemoveAt(s, Len(s))) = Len(s) - 1
           /\ DOMAIN RemoveAt(s, Len(s)) = 1 .. Len(s) - 1
           /\ \A k \in 1 .. Len(s) - 1 : RemoveAt(s, Len(s))[k] = s[k]
  <1>1. Len(s) \in Nat /\ Len(s) > 0 /\ DOMAIN s = 1 .. Len(s) /\ \A k \in 1 .. Len(s) : s[k] \in S
    BY LenProperties, EmptySeq
  <1> DEFINE shorter == SubSeq(s, 1, Len(s) - 1)
             rest == SubSeq(s, Len(s) + 1, Len(s))
  <1>2. /\ shorter \in Seq(S) /\ Len(shorter) = Len(s) - 1
        /\ \A k \in 1 .. Len(s) - 1 : shorter[k] = s[k]
    BY <1>1, SubSeqProperties
  <1>3. rest \in Seq(S) /\ Len(rest) = 0
    BY <1>1, SubSeqProperties
  <1>4. RemoveAt(s, Len(s)) = shorter \o rest
    BY DEF RemoveAt
  <1> HIDE DEF shorter, rest
  <1>5. rest = <<>>
    BY <1>3, EmptySeq
  <1>6. RemoveAt(s, Len(s)) = shorter
    BY <1>2, <1>4, <1>5, ConcatEmptySeq
  <1>7. QED
    BY <1>1, <1>2, <1>6, LenProperties

\* The process rolls back the newest diff only, starts again with none, and leaves no
\* copy of a graph store behind when it dies.
NewestOnly ==
    /\ ~AnyOrder
    /\ CommandLine => MaxCrashes = 0
    /\ SharedStore \/ MaxCrashes = 0

LEMMA CopiesAreWhole ==
    ASSUME RecordInv, SharedStore \/ MaxCrashes = 0
    PROVE  CopiesWhole
  BY DEF RecordInv, CopiesAgree, CopiesWhole

\* Active atoms and summaries are not merged.
LEMMA ActiveAreSpared ==
    ASSUME MergedAreArchived, NEW i \in Active \cup Summaries
    PROVE  i \notin MergedIn(edges)
  <1>1. CASE i \in Summaries
    BY <1>1, ConstantsAssumption DEF MergedIn
  <1>2. CASE i \in Active
    BY <1>2 DEF MergedIn, MergedAreArchived, Active, IsActive
  <1>3. QED
    BY <1>1, <1>2

\* A strategy queues writes of memories that are active, or a summary, and keeps
\* account of them.
LEMMA StrategyQueues ==
    ASSUME RecordInv, MergePair \/ RepairPair \/ \E t \in Topics : Summarise(t)
    PROVE  /\ op \in Strategies /\ UNCHANGED <<mem, edges, op, base, log>>
           /\ \A k \in DOMAIN todo' :
                 /\ todo'[k].type \in {"memory", "link"}
                 /\ todo'[k].type = "memory" => todo'[k].id \in Active \cup Summaries
                 /\ todo'[k].type = "link" => todo'[k].edge \in ToSet(links')
           /\ ToSet(links) \subseteq ToSet(links')
           /\ changes' # <<>>
           /\ \A k \in DOMAIN changes' :
                 \/ \E j \in DOMAIN changes : changes'[k] = changes[j]
                 \/ changes'[k].id \in Active \cup Summaries
  <1>1. TypeOK /\ ReadAreStored /\ DeduplicationIsCurrent /\ RepairIsCurrent
    BY DEF RecordInv, StoredInv
  <1>2. links \in Seq(Edges) /\ changes \in Seq(Changes)
    BY <1>1 DEF TypeOK
  <1>3. \A i, b, r : Change(i, b, r).id = i
    BY DEF Change
  <1> DEFINE Goal == /\ op \in Strategies /\ UNCHANGED <<mem, edges, op, base, log>>
                     /\ \A k \in DOMAIN todo' :
                           /\ todo'[k].type \in {"memory", "link"}
                           /\ todo'[k].type = "memory" => todo'[k].id \in Active \cup Summaries
                           /\ todo'[k].type = "link" => todo'[k].edge \in ToSet(links')
                     /\ ToSet(links) \subseteq ToSet(links')
                     /\ changes' # <<>>
                     /\ \A k \in DOMAIN changes' :
                           \/ \E j \in DOMAIN changes : changes'[k] = changes[j]
                           \/ changes'[k].id \in Active \cup Summaries
  <1>4. CASE MergePair
    <2>1. op = "deduplication" /\ todo = <<>> /\ UNCHANGED <<mem, edges, op, base, log>>
      BY <1>1, <1>4, MergeCases
    <2>2. PICK c, d \in Ids :
             /\ IsActive(snap[c]) /\ IsActive(snap[d])
             /\ snap'[c] = CanonicalAfter(snap[c], snap[d], d)
             /\ snap'[d] = DuplicateAfter(snap[d], c)
             /\ todo' = <<Put(c, snap'[c], TRUE, FALSE), Put(d, snap'[d], TRUE, FALSE),
                          Link(SameAs(d, c)), Link(DerivedFrom(c, d))>>
             /\ changes' = changes \o <<Change(c, snap[c], snap'[c]), Change(d, snap[d], snap'[d])>>
             /\ links' = links \o <<SameAs(d, c), DerivedFrom(c, d)>>
      BY <1>1, <1>4, MergeCases, Zenon
    <2>3. CurrentBut({})
      BY <1>1, <2>1, ListElements DEF DeduplicationIsCurrent, Merging
    <2>4. c \in Active /\ d \in Active
      BY <2>2, <2>3 DEF CurrentBut, IsActive, Active
    <2>5. snap[c] \in Memory /\ snap[d] \in Memory
      BY <1>1, <2>2, TypedState DEF IsActive
    <2>6. snap'[c] \in Memory /\ snap'[d] \in Memory
      <3>1. CanonicalAfter(snap[c], snap[d], d) \in Memory /\ DuplicateAfter(snap[d], c) \in Memory
        BY <2>5, MemoryUpdates
      <3>2. QED
        BY <2>2, <3>1
    <2> DEFINE same == SameAs(d, c)
               derived == DerivedFrom(c, d)
               changeC == Change(c, snap[c], snap'[c])
               changeD == Change(d, snap[d], snap'[d])
    <2>7. same \in Edges /\ derived \in Edges /\ changeC \in Changes /\ changeD \in Changes
      BY <2>5, <2>6, WriteTypes DEF MemoryOrNull
    <2>8. changeC.id = c /\ changeD.id = d
      BY <1>3
    <2>9. \A k \in DOMAIN todo' :
             \/ todo'[k].type = "memory" /\ todo'[k].id \in {c, d}
             \/ todo'[k].type = "link" /\ todo'[k].edge \in {same, derived}
      BY <2>2 DEF Put, Link
    <2>10. changes' = changes \o <<changeC, changeD>> /\ links' = links \o <<same, derived>>
      BY <2>2
    <2> HIDE DEF same, derived, changeC, changeD
    <2>11. <<same, derived>> \in Seq(Edges) /\ <<changeC, changeD>> \in Seq(Changes)
      BY <2>7, ListSequences
    <2>12. ToSet(links) \subseteq ToSet(links') /\ {same, derived} \subseteq ToSet(links')
      <3>1. ToSet(<<same, derived>>) = {same, derived}
        BY DEF ToSet
      <3>2. QED
        BY <1>2, <2>10, <2>11, <3>1, ListsExtended
    <2>13. changes' # <<>>
      <3>1. <<changeC, changeD>> # <<>>
        OBVIOUS
      <3>2. QED
        BY <1>2, <2>10, <2>11, <3>1, ListsExtended
    <2>14. \A k \in DOMAIN changes' :
             \/ \E j \in DOMAIN changes : changes'[k] = changes[j]
             \/ changes'[k].id \in Active \cup Summaries
      <3>1. \A j \in DOMAIN <<changeC, changeD>> : <<changeC, changeD>>[j].id \in {c, d}
        BY <2>8
      <3>2. \A k \in DOMAIN changes' :
             \/ \E j \in DOMAIN changes : changes'[k] = changes[j]
             \/ \E j \in DOMAIN <<changeC, changeD>> : changes'[k] = <<changeC, changeD>>[j]
        <4> DEFINE pair == <<changeC, changeD>>
        <4>1. pair \in Seq(Changes) /\ changes' = changes \o pair
          BY <2>10, <2>11
        <4> HIDE DEF pair
        <4>2. \A k \in DOMAIN changes' :
                 \/ \E j \in DOMAIN changes : changes'[k] = changes[j]
                 \/ \E j \in DOMAIN pair : changes'[k] = pair[j]
          BY <1>2, <4>1, ListsExtended
        <4>3. QED
          BY <4>2 DEF pair
      <3>3. QED
        BY <2>4, <3>1, <3>2
    <2>15. QED
      BY <2>1, <2>4, <2>9, <2>12, <2>13, <2>14 DEF Strategies
  <1>5. CASE RepairPair
    <2>1. op = "contradiction_repair" /\ UNCHANGED <<mem, edges, op, base, log>>
      BY <1>1, <1>5, RepairCases
    <2>2. PICK o, n \in Ids, older, newer \in Memory :
             /\ snap[o] # Null /\ snap[n] # Null
             /\ todo' = <<Put(o, older, TRUE, FALSE), Put(n, newer, TRUE, FALSE),
                          Link(Contradicts(o, n))>>
             /\ changes' = changes \o <<Change(o, mem[o], older), Change(n, snap[n], newer)>>
             /\ links' = Append(links, Contradicts(o, n))
      BY <1>1, <1>5, RepairCases, Zenon
    <2>3. o \in Active /\ n \in Active
      BY <1>1, <2>1, <2>2 DEF RepairIsCurrent, Active
    <2>4. mem[o] \in Memory /\ snap[n] \in Memory
      BY <1>1, <2>2, <2>3, ActiveType, TypedState
    <2> DEFINE edge == Contradicts(o, n)
               changeO == Change(o, mem[o], older)
               changeN == Change(n, snap[n], newer)
    <2>5. edge \in Edges /\ changeO \in Changes /\ changeN \in Changes
      BY <2>2, <2>4, WriteTypes DEF MemoryOrNull
    <2>6. changeO.id = o /\ changeN.id = n
      BY <1>3
    <2>7. \A k \in DOMAIN todo' :
             \/ todo'[k].type = "memory" /\ todo'[k].id \in {o, n}
             \/ todo'[k].type = "link" /\ todo'[k].edge = edge
      BY <2>2 DEF Put, Link
    <2>8. changes' = changes \o <<changeO, changeN>> /\ links' = Append(links, edge)
      BY <2>2
    <2> HIDE DEF edge, changeO, changeN
    <2>9. <<changeO, changeN>> \in Seq(Changes)
      BY <2>5, ListSequences
    <2>10. ToSet(links) \subseteq ToSet(links') /\ edge \in ToSet(links')
      BY <1>2, <2>5, <2>8, AppendedList
    <2>11. changes' # <<>>
      <3>1. <<changeO, changeN>> # <<>>
        OBVIOUS
      <3>2. QED
        BY <1>2, <2>8, <2>9, <3>1, ListsExtended
    <2>12. \A k \in DOMAIN changes' :
             \/ \E j \in DOMAIN changes : changes'[k] = changes[j]
             \/ changes'[k].id \in Active \cup Summaries
      <3>1. \A j \in DOMAIN <<changeO, changeN>> : <<changeO, changeN>>[j].id \in {o, n}
        BY <2>6
      <3>2. \A k \in DOMAIN changes' :
             \/ \E j \in DOMAIN changes : changes'[k] = changes[j]
             \/ \E j \in DOMAIN <<changeO, changeN>> : changes'[k] = <<changeO, changeN>>[j]
        <4> DEFINE pair == <<changeO, changeN>>
        <4>1. pair \in Seq(Changes) /\ changes' = changes \o pair
          BY <2>8, <2>9
        <4> HIDE DEF pair
        <4>2. \A k \in DOMAIN changes' :
                 \/ \E j \in DOMAIN changes : changes'[k] = changes[j]
                 \/ \E j \in DOMAIN pair : changes'[k] = pair[j]
          BY <1>2, <4>1, ListsExtended
        <4>3. QED
          BY <4>2 DEF pair
      <3>3. QED
        BY <2>3, <3>1, <3>2
    <2>13. QED
      BY <2>1, <2>3, <2>7, <2>10, <2>11, <2>12 DEF Strategies
  <1>6. ASSUME NEW t \in Topics, Summarise(t) PROVE Goal
    <2>1. op = "abstraction" /\ UNCHANGED <<mem, edges, op, base, log>>
      BY <1>1, <1>6, SummaryCases
    <2>2. PICK s \in Summaries, rec \in Memory, added \in Seq(Edges) :
             /\ \A k \in DOMAIN todo' :
                   \/ todo'[k] = Put(s, rec, TRUE, FALSE)
                   \/ \E n \in DOMAIN added : todo'[k] = Link(added[n])
             /\ changes' = Append(changes, Change(s, Null, rec))
             /\ links' = links \o added
      BY <1>1, <1>6, SummaryCases, Zenon
    <2> DEFINE change == Change(s, Null, rec)
    <2>3. change \in Changes /\ change.id = s
      BY <1>3, WriteTypes DEF MemoryOrNull, Ids
    <2>4. \A k \in DOMAIN todo' :
             \/ todo'[k].type = "memory" /\ todo'[k].id = s
             \/ todo'[k].type = "link" /\ todo'[k].edge \in ToSet(added)
      BY <2>2 DEF Put, Link, ToSet
    <2>5. changes' = Append(changes, change)
      BY <2>2
    <2> HIDE DEF change
    <2>6. ToSet(links) \subseteq ToSet(links') /\ ToSet(added) \subseteq ToSet(links')
      BY <1>2, <2>2, ListsExtended
    <2>7. /\ changes' # <<>>
          /\ \A k \in DOMAIN changes' :
                changes'[k] = change \/ \E j \in DOMAIN changes : changes'[k] = changes[j]
      BY <1>2, <2>3, <2>5, AppendedList
    <2>8. QED
      BY <2>1, <2>3, <2>4, <2>6, <2>7 DEF Strategies
  <1>7. QED
    BY <1>4, <1>5, <1>6

\* A same_as edge about to be written is that of a merge whose memories have been
\* written: the duplicate is archived, the canonical memory active.
LEMMA MergeEdgeWritten ==
    ASSUME RecordInv, ApplyWrite, todo[1].type = "link", NEW d \in Ids, NEW c \in Ids,
           todo[1].edge = SameAs(d, c)
    PROVE  /\ d # c /\ IsActive(mem[c])
           /\ mem[d] # Null /\ mem[d].archived /\ mem[d].canonical = c
           /\ todo' = <<Link(DerivedFrom(c, d))>>
  <1>1. TypeOK /\ WritesAreWhole /\ DeduplicationIsCurrent /\ RepairIsCurrent /\ WritesOfOthers
    BY DEF RecordInv, StoredInv
  <1>2. todo # <<>> /\ todo' = Tail(todo) /\ 1 \in DOMAIN todo
    BY <1>1, ApplyCases, QueueShifts, Zenon
  <1>3. todo[1].edge[1] = "same_as" /\ SameAs(d, c)[2] = d /\ SameAs(d, c)[3] = c
    BY EdgeFields
  <1>4. op = "deduplication"
    <2>1. op # "idle" /\ op # "retrieve"
      BY <1>1, <1>2 DEF WritesAreWhole, IsWrittenBack
    <2>2. op # "contradiction_repair"
      BY <1>1, <1>2, <1>3 DEF RepairIsCurrent
    <2>3. op # "abstraction" /\ op # "decay_archival" /\ op # "rollback"
      BY <1>1, <1>2, <1>3 DEF WritesOfOthers
    <2>4. QED
      BY <1>1, <2>1, <2>2, <2>3 DEF TypeOK, Ops, Strategies
  <1>5. PICK x, y \in Ids : Merging(x, y)
    BY <1>1, <1>2, <1>4 DEF DeduplicationIsCurrent
  <1> DEFINE putX == Put(x, snap[x], TRUE, FALSE)
             putY == Put(y, snap[y], TRUE, FALSE)
             same == Link(SameAs(y, x))
             derived == Link(DerivedFrom(x, y))
  <1>6. putX.type = "memory" /\ putY.type = "memory" /\ same.edge = SameAs(y, x)
        /\ derived.edge[1] = "derived_from"
    BY DEF Put, Link, DerivedFrom
  <1>7. /\ x # y /\ IsActive(mem[x])
        /\ snap[y] # Null /\ snap[y].archived /\ snap[y].canonical = x
        /\ \/ todo = <<putX, putY, same, derived>>
           \/ todo = <<putY, same, derived>>
           \/ todo = <<same, derived>> /\ CurrentBut({})
           \/ todo = <<derived>>
    BY <1>5 DEF Merging
  <1> HIDE DEF putX, putY, same
  <1>8. derived = Link(DerivedFrom(x, y))
    OBVIOUS
  <1> HIDE DEF derived
  <1>9. todo[1] = same /\ todo' = <<derived>> /\ CurrentBut({})
    <2>1. todo[1] # putX /\ todo[1] # putY /\ todo[1] # derived
      BY <1>3, <1>6
    <2>2. todo = <<same, derived>> /\ CurrentBut({})
      BY <1>7, <2>1, ListElements
    <2>3. QED
      BY <1>2, <2>2, ListElements
  <1>10. y = d /\ x = c
    BY <1>6, <1>9, EdgeFields
  <1>11. mem[d] = snap[d]
    BY <1>7, <1>9, <1>10 DEF CurrentBut
  <1>12. QED
    BY <1>7, <1>8, <1>9, <1>10, <1>11

\* Only the first write of a queue changes a stored atom or an edge.
LEMMA StoresOtherwise ==
    ASSUME TypeOK, [Next]_vars, ~ApplyWrite
    PROVE  edges' = edges /\ \A i \in Ids : mem[i] # Null => mem'[i] = mem[i]
  <1>1. ASSUME NEW j \in Atoms, Ingest(j)
        PROVE  edges' = edges /\ \A i \in Ids : mem[i] # Null => mem'[i] = mem[i]
    BY <1>1, TypedState DEF Ingest
  <1>2. CASE UNCHANGED <<mem, edges>>
    BY <1>2
  <1>3. QED
    BY <1>1, <1>2, StepCases, EndingSteps
       DEF Quiet, Starting, Ending, BeginRetrieve, BeginDecay, BeginRollback, Begin, MergePair,
           RepairPair, Summarise, stores

LEMMA MergedStep ==
    ASSUME MergeInv, [Next]_vars
    PROVE  MergedAreArchived'
  <1>1. RecordInv /\ TypeOK /\ MergedAreArchived /\ WritesSpareMerged
    BY DEF MergeInv, RecordInv, StoredInv
  <1>2. SUFFICES ASSUME NEW d \in Atoms, NEW c \in Ids, SameAs(d, c) \in edges'
        PROVE  mem'[d] # Null /\ mem'[d].archived /\ mem'[d].canonical = c
    BY DEF MergedAreArchived, SameAs
  <1>3. d \in Ids
    BY DEF Ids
  <1>4. SameAs(d, c) \in edges => mem[d] # Null /\ mem[d].archived /\ mem[d].canonical = c
    BY <1>1 DEF MergedAreArchived
  <1>5. CASE ~ApplyWrite
    BY <1>1, <1>2, <1>3, <1>4, <1>5, StoresOtherwise
  <1>6. CASE ApplyWrite
    <2>1. 1 \in DOMAIN todo
      BY <1>1, <1>6, ApplyCases, QueueShifts, Zenon
    <2>2. CASE todo[1].type = "memory"
      <3>1. SameAs(d, c) \in edges
        BY <1>1, <1>2, <1>6, <2>2, ApplyCases
      <3>2. todo[1].id # d
        <4>1. 1 .. 1 - 1 = {}
          OBVIOUS
        <4>2. QED
          BY <1>1, <2>1, <2>2, <3>1, <4>1 DEF WritesSpareMerged
      <3>3. mem'[d] = mem[d]
        BY <1>1, <1>3, <1>6, <2>2, <3>2, ApplyCases
      <3>4. QED
        BY <1>4, <3>1, <3>3
    <2>3. CASE todo[1].type = "link"
      <3>1. mem' = mem /\ edges' = edges \cup {todo[1].edge}
        BY <1>1, <1>6, <2>3, ApplyCases
      <3>2. CASE SameAs(d, c) \in edges
        BY <1>4, <3>1, <3>2
      <3>3. CASE todo[1].edge = SameAs(d, c)
        BY <1>1, <1>3, <1>6, <2>3, <3>1, <3>3, MergeEdgeWritten
      <3>4. QED
        BY <1>2, <3>1, <3>2, <3>3
    <2>4. CASE todo[1].type = "unlink"
      BY <1>1, <1>2, <1>4, <1>6, <2>4, ApplyCases
    <2>5. QED
      BY <1>1, <2>1, <2>2, <2>3, <2>4, TypedState
  <1>7. QED
    BY <1>5, <1>6

LEMMA ChainsStep ==
    ASSUME MergeInv, [Next]_vars
    PROVE  MergeChainsEnd'
  <1>1. RecordInv /\ TypeOK /\ MergedAreArchived /\ MergeChainsEnd
    BY DEF MergeInv, RecordInv, StoredInv
  <1>2. SUFFICES ASSUME NEW S \in (SUBSET Atoms) \ {{}}
        PROVE  \E d \in S : \A c \in S : SameAs(d, c) \notin edges'
    BY DEF MergeChainsEnd, SameAs
  <1>3. PICK d \in S : \A c \in S : SameAs(d, c) \notin edges
    BY <1>1 DEF MergeChainsEnd
  <1>4. S \subseteq Ids
    BY DEF Ids
  <1>5. CASE edges' \subseteq edges
    BY <1>3, <1>5
  <1>6. CASE ApplyWrite /\ todo[1].type = "link"
    <2>1. mem' = mem /\ edges' = edges \cup {todo[1].edge}
      BY <1>1, <1>6, ApplyCases
    <2>2. CASE \A c \in S : todo[1].edge # SameAs(d, c)
      BY <1>3, <2>1, <2>2
    <2>3. ASSUME NEW c \in S, todo[1].edge = SameAs(d, c)
          PROVE  \A b \in S : SameAs(c, b) \notin edges'
      <3>1. d # c /\ IsActive(mem[c])
        BY <1>1, <1>4, <1>6, <2>3, MergeEdgeWritten
      <3>2. \A b \in S : SameAs(c, b) \notin edges
        BY <1>1, <1>4, <3>1 DEF MergedAreArchived, IsActive
      <3>3. \A b \in S : todo[1].edge # SameAs(c, b)
        BY <2>3, <3>1, EdgeFields
      <3>4. QED
        BY <2>1, <3>2, <3>3
    <2>4. QED
      BY <2>2, <2>3
  <1>7. QED
    BY <1>1, <1>5, <1>6, ApplyCases, StoresOtherwise

LEMMA SparesStep ==
    ASSUME MergeInv, NewestOnly, [Next]_vars
    PROVE  WritesSpareMerged'
  <1>1. /\ RecordInv /\ TypeOK /\ MergedAreArchived /\ WritesSpareMerged /\ WritesAreWhole
        /\ CopiesAgree /\ DiffsAreStacked
    BY DEF MergeInv, RecordInv, StoredInv
  <1>2. CASE todo' = <<>>
    <2>1. DOMAIN <<>> = {}
      OBVIOUS
    <2>2. QED
      BY <1>2, <2>1 DEF WritesSpareMerged
  <1>3. CASE UNCHANGED <<todo, edges>>
    BY <1>1, <1>3 DEF WritesSpareMerged, SameAs, Unlink
  <1>4. CASE /\ edges' = edges
             /\ \A k \in DOMAIN todo' : todo'[k].type = "memory" =>
                   todo'[k].id \in Active \cup Summaries
    <2>1. ASSUME NEW k \in DOMAIN todo', todo'[k].type = "memory", todo'[k].id \in Atoms,
                 NEW c \in Ids
          PROVE  SameAs(todo'[k].id, c) \notin edges'
      <3>1. todo'[k].id \notin MergedIn(edges)
        BY <1>1, <1>4, <2>1, ActiveAreSpared
      <3>2. QED
        BY <1>4, <2>1, <3>1 DEF MergedIn
    <2>2. QED
      BY <2>1 DEF WritesSpareMerged
  <1>5. ASSUME NEW i \in Atoms, Ingest(i) PROVE WritesSpareMerged'
    BY <1>3, <1>5 DEF Ingest, call
  <1>6. ASSUME NEW selected \in SUBSET Selectable, NEW viaGraph \in SUBSET selected,
               BeginRetrieve(selected, viaGraph)
        PROVE  WritesSpareMerged'
    <2>1. edges' = edges /\ \A k \in DOMAIN todo' : todo'[k].id \in Active
      BY <1>1, <1>6, RetrieveCases, CopiesAreWhole DEF NewestOnly
    <2>2. QED
      BY <1>4, <2>1
  <1>7. ASSUME NEW kind, Starting(kind), UNCHANGED todo PROVE WritesSpareMerged'
    BY <1>3, <1>7 DEF Starting
  <1>8. CASE BeginDecay
    <2>1. edges' = edges
      BY <1>1, <1>8, DecayCases
    <2>2. \A k \in DOMAIN todo' : \E i \in Active : todo'[k] = Put(i, Archived(mem[i]), TRUE, FALSE)
      BY <1>1, <1>8, DecayCases
    <2>3. \A k \in DOMAIN todo' : todo'[k].id \in Active
      BY <2>2 DEF Put
    <2>4. QED
      BY <1>4, <2>1, <2>3
  <1>9. ASSUME NEW n \in DOMAIN log, BeginRollback(n) PROVE WritesSpareMerged'
    <2>1. /\ n = Len(log) /\ op = "idle" /\ edges' = edges /\ log[n] \in Diffs
          /\ todo' = UndoWrites(log[n])
      BY <1>1, <1>9, RollbackCases DEF NewestOnly
    <2>2. log # <<>>
      BY <1>9
    <2>3. edges \subseteq EdgesAfter(log[n]) /\ SparesMerged(log[n].changes, log[n].base.edges)
      BY <1>1, <1>9, <2>1, <2>2 DEF DiffsAreStacked
    <2> DEFINE diff == log[n]
    <2>4. /\ diff \in Diffs /\ todo' = UndoWrites(diff) /\ edges \subseteq EdgesAfter(diff)
          /\ SparesMerged(diff.changes, diff.base.edges)
      BY <2>1, <2>3
    <2> HIDE DEF diff
    <2>5. /\ Len(diff.links) \in Nat /\ Len(diff.changes) \in Nat
          /\ DOMAIN todo' = 1 .. Len(diff.links) + Len(diff.changes)
          /\ \A k \in 1 .. Len(diff.links) : todo'[k] = Unlink(diff.links[Len(diff.links) - k + 1])
          /\ \A k \in Len(diff.links) + 1 .. Len(diff.links) + Len(diff.changes) :
                \E m \in DOMAIN diff.changes : todo'[k] = UndoChange(diff.changes[m])
      BY <2>4, UndoWritesFields
    <2>6. ASSUME NEW k \in DOMAIN todo', todo'[k].type = "memory", todo'[k].id \in Atoms,
                 NEW c \in Ids, SameAs(todo'[k].id, c) \in edges'
          PROVE  \E j \in 1 .. k - 1 : todo'[j] = Unlink(SameAs(todo'[k].id, c))
      <3> DEFINE e == SameAs(todo'[k].id, c)
      <3>1. k \notin 1 .. Len(diff.links)
        <4>1. \A x : Unlink(x).type # "memory"
          BY DEF Unlink
        <4>2. QED
          BY <2>5, <2>6, <4>1
      <3>2. k \in Len(diff.links) + 1 .. Len(diff.links) + Len(diff.changes)
        <4>1. \A l, x \in Nat : \A i \in 1 .. l + x : i \in 1 .. l \/ i \in l + 1 .. l + x
          OBVIOUS
        <4>2. k \in 1 .. Len(diff.links) + Len(diff.changes)
          BY <2>5
        <4>3. QED
          BY <2>5, <3>1, <4>1, <4>2, Zenon
      <3>3. PICK m \in DOMAIN diff.changes : todo'[k].id = diff.changes[m].id
        BY <2>5, <3>2, UndoChangeFields
      <3>4. e \notin diff.base.edges
        BY <2>4, <2>6, <3>3 DEF SparesMerged, MergedIn
      <3>5. e \in ToSet(diff.links)
        BY <2>1, <2>4, <2>6, <3>4 DEF EdgesAfter
      <3> HIDE DEF e
      <3>6. PICK m2 \in DOMAIN diff.links : e = diff.links[m2]
        BY <3>5 DEF ToSet
      <3>7. DOMAIN diff.links = 1 .. Len(diff.links)
        BY <2>4, LenProperties DEF Diffs
      <3>8. Len(diff.links) - m2 + 1 \in 1 .. Len(diff.links)
            /\ Len(diff.links) - (Len(diff.links) - m2 + 1) + 1 = m2
        <4>1. \A l \in Nat : \A x \in 1 .. l : l - x + 1 \in 1 .. l /\ l - (l - x + 1) + 1 = x
          OBVIOUS
        <4>2. Len(diff.links) \in Nat /\ m2 \in 1 .. Len(diff.links)
          BY <2>5, <3>6, <3>7
        <4>3. QED
          BY <4>1, <4>2
      <3>9. todo'[Len(diff.links) - m2 + 1] = Unlink(e)
        BY <2>5, <3>6, <3>8
      <3>10. Len(diff.links) - m2 + 1 \in 1 .. k - 1
        BY <2>5, <3>2, <3>8
      <3>11. QED
        BY <3>9, <3>10 DEF e
    <2>7. QED
      BY <2>6 DEF WritesSpareMerged, SameAs, Unlink
  <1>10. CASE MergePair \/ RepairPair \/ \E t \in Topics : Summarise(t)
    BY <1>1, <1>4, <1>10, StrategyQueues
  <1>11. CASE ApplyWrite
    <2>1. todo # <<>> /\ todo \in Seq(Writes) /\ todo' = Tail(todo)
      BY <1>1, <1>11, ApplyCases
    <2>2. /\ 1 \in DOMAIN todo /\ DOMAIN todo = 1 .. Len(todo) /\ Len(todo) \in Nat
          /\ DOMAIN todo' = 1 .. Len(todo) - 1
          /\ \A k \in DOMAIN todo' : k + 1 \in DOMAIN todo /\ todo'[k] = todo[k + 1]
      BY <2>1, QueueShifts
    <2>3. ASSUME NEW k \in DOMAIN todo', todo'[k].type = "memory", todo'[k].id \in Atoms,
                 NEW c \in Ids, SameAs(todo'[k].id, c) \in edges'
          PROVE  \E j \in 1 .. k - 1 : todo'[j] = Unlink(SameAs(todo'[k].id, c))
      <3> DEFINE e == SameAs(todo'[k].id, c)
      <3>1. e \in edges
        <4>1. CASE todo[1].type = "link" /\ todo[1].edge = e
          <5>1. todo'[k].id \in Ids
            BY <2>3 DEF Ids
          <5>2. todo' = <<Link(DerivedFrom(c, todo'[k].id))>>
            BY <1>1, <1>11, <4>1, <5>1, MergeEdgeWritten
          <5>3. todo'[k].type = "link"
            BY <5>2 DEF Link
          <5>4. QED
            BY <2>3, <5>3
        <4>2. CASE ~(todo[1].type = "link" /\ todo[1].edge = e)
          BY <1>1, <1>11, <2>3, <4>2, ApplyCases
        <4>3. QED
          BY <4>1, <4>2
      <3>2. todo[1] # Unlink(e)
        <4>1. Unlink(e).type = "unlink" /\ Unlink(e).edge = e
          BY WriteFields
        <4>2. todo[1].type = "unlink" => edges' = edges \ {todo[1].edge}
          BY <1>1, <1>11, ApplyCases
        <4>3. QED
          BY <2>3, <4>1, <4>2
      <3>3. PICK j \in 1 .. (k + 1) - 1 : todo[j] = Unlink(e)
        BY <1>1, <2>2, <2>3, <3>1 DEF WritesSpareMerged
      <3> HIDE DEF e
      <3>4. j # 1 /\ j \in 1 .. k /\ k \in 1 .. Len(todo) - 1
        BY <2>2, <3>2, <3>3
      <3>5. j - 1 \in 1 .. k - 1 /\ j - 1 \in DOMAIN todo' /\ (j - 1) + 1 = j
        BY <2>2, <3>4
      <3>6. todo'[j - 1] = Unlink(e)
        BY <2>2, <3>3, <3>5
      <3>7. QED
        BY <3>5, <3>6 DEF e
    <2>4. QED
      BY <2>3 DEF WritesSpareMerged, SameAs, Unlink
  <1>12. CASE Ending
    BY <1>2, <1>12 DEF Ending
  <1>13. CASE Quiet
    BY <1>3, <1>13 DEF Quiet
  <1>14. QED
    BY <1>1, <1>5, <1>6, <1>7, <1>8, <1>9, <1>10, <1>11, <1>12, <1>13, StepCases, EndingSteps

LEMMA AccountStep ==
    ASSUME MergeInv, NewestOnly, [Next]_vars
    PROVE  EdgesAreAccountedFor'
  <1>1. /\ RecordInv /\ TypeOK /\ WritesAreWhole /\ WritesOfOthers /\ CopiesAgree
        /\ EdgesAreAccountedFor /\ DiffsAreStacked
    BY DEF MergeInv, RecordInv, StoredInv
  <1>2. /\ op \notin Strategies => changes = <<>>
        /\ changes = <<>> => links = <<>>
        /\ op = "idle" => todo = <<>>
    BY <1>1 DEF EdgesAreAccountedFor, WritesAreWhole
  <1>3. "idle" \notin Strategies /\ "retrieve" \notin Strategies /\ "rollback" \notin Strategies
    BY DEF Strategies
  <1>4. \A k : k \notin DOMAIN <<>>
    OBVIOUS
  \* A call begins that queues no edge.
  <1>5. CASE /\ op = "idle" /\ op' \in Strategies \cup {"retrieve"}
             /\ base' = [mem |-> mem, edges |-> edges] /\ UNCHANGED <<edges, links>>
             /\ op' \notin Strategies => changes' = <<>>
             /\ \A k \in DOMAIN todo' : todo'[k].type = "memory"
    <2>1. links' = <<>>
      BY <1>2, <1>3, <1>5
    <2>2. base'.edges = edges' /\ op' # "rollback"
      BY <1>3, <1>5
    <2>3. QED
      BY <1>5, <2>1, <2>2 DEF EdgesAreAccountedFor
  <1>6. ASSUME NEW i \in Atoms, Ingest(i) PROVE EdgesAreAccountedFor'
    BY <1>1, <1>6 DEF Ingest, call, EdgesAreAccountedFor, Unlink
  <1>7. ASSUME NEW selected \in SUBSET Selectable, NEW viaGraph \in SUBSET selected,
               BeginRetrieve(selected, viaGraph)
        PROVE  EdgesAreAccountedFor'
    <2>1. /\ op = "idle" /\ op' = "retrieve" /\ base' = [mem |-> mem, edges |-> edges]
          /\ UNCHANGED <<edges, changes, links>>
          /\ \A k \in DOMAIN todo' : todo'[k].type = "memory"
      BY <1>1, <1>7, RetrieveCases
    <2>2. QED
      BY <1>2, <1>3, <1>5, <2>1
  <1>8. ASSUME NEW kind \in {"deduplication", "contradiction_repair", "abstraction"},
               Starting(kind), UNCHANGED <<todo, changes, links>>
        PROVE  EdgesAreAccountedFor'
    <2>1. kind \in Strategies
      BY DEF Strategies
    <2>2. op = "idle" /\ op' = kind /\ base' = [mem |-> mem, edges |-> edges] /\ edges' = edges
      BY <1>8 DEF Starting
    <2>3. \A k \in DOMAIN todo' : todo'[k].type = "memory"
      BY <1>2, <1>4, <1>8, <2>2
    <2>4. QED
      BY <1>5, <1>8, <2>1, <2>2, <2>3
  <1>9. CASE BeginDecay
    <2>1. /\ op = "idle" /\ op' = "decay_archival" /\ base' = [mem |-> mem, edges |-> edges]
          /\ UNCHANGED <<edges, links>>
      BY <1>1, <1>9, DecayCases
    <2>2. \A k \in DOMAIN todo' : \E i \in Active : todo'[k] = Put(i, Archived(mem[i]), TRUE, FALSE)
      BY <1>1, <1>9, DecayCases
    <2>3. \A k \in DOMAIN todo' : todo'[k].type = "memory"
      BY <2>2 DEF Put
    <2>4. op' \in Strategies
      BY <2>1 DEF Strategies
    <2>5. QED
      BY <1>5, <2>1, <2>3, <2>4
  <1>10. ASSUME NEW n \in DOMAIN log, BeginRollback(n) PROVE EdgesAreAccountedFor'
    <2>1. /\ n = Len(log) /\ op = "idle" /\ op' = "rollback" /\ log[n] \in Diffs
          /\ base' = log[n].base /\ todo' = UndoWrites(log[n])
          /\ UNCHANGED <<edges, changes, links>>
          /\ \A k \in DOMAIN todo' : todo'[k].type # "link"
      BY <1>1, <1>10, RollbackCases DEF NewestOnly
    <2>2. edges \subseteq EdgesAfter(log[n])
      <3>1. log # <<>>
        BY <1>10
      <3>2. QED
        BY <1>1, <2>1, <3>1 DEF DiffsAreStacked
    <2>3. ASSUME NEW e \in edges
          PROVE  e \in base'.edges \/ \E k \in DOMAIN todo' : todo'[k] = Unlink(e)
      <3> DEFINE diff == log[n]
      <3>1. diff \in Diffs /\ base' = diff.base /\ todo' = UndoWrites(diff) /\ e \in EdgesAfter(diff)
        BY <2>1, <2>2
      <3> HIDE DEF diff
      <3>2. CASE e \in diff.base.edges
        BY <3>1, <3>2
      <3>3. CASE e \in ToSet(diff.links)
        <4>1. PICK m \in DOMAIN diff.links : e = diff.links[m]
          BY <3>3 DEF ToSet
        <4>2. /\ Len(diff.links) \in Nat /\ Len(diff.changes) \in Nat
              /\ DOMAIN todo' = 1 .. Len(diff.links) + Len(diff.changes)
              /\ \A k \in 1 .. Len(diff.links) :
                    todo'[k] = Unlink(diff.links[Len(diff.links) - k + 1])
          BY <3>1, UndoWritesFields
        <4>3. DOMAIN diff.links = 1 .. Len(diff.links)
          BY <3>1, LenProperties DEF Diffs
        <4>4. /\ Len(diff.links) - m + 1 \in 1 .. Len(diff.links)
              /\ Len(diff.links) - m + 1 \in DOMAIN todo'
              /\ Len(diff.links) - (Len(diff.links) - m + 1) + 1 = m
          <5>1. \A l, x \in Nat : \A i \in 1 .. l :
                   l - i + 1 \in 1 .. l /\ l - i + 1 \in 1 .. l + x /\ l - (l - i + 1) + 1 = i
            OBVIOUS
          <5>2. m \in 1 .. Len(diff.links)
            BY <4>1, <4>3
          <5>3. QED
            BY <4>2, <5>1, <5>2, Zenon
        <4>5. todo'[Len(diff.links) - m + 1] = Unlink(e)
          BY <4>1, <4>2, <4>4
        <4>6. QED
          BY <4>4, <4>5
      <3>4. QED
        BY <3>1, <3>2, <3>3 DEF EdgesAfter
    <2>4. /\ op' \notin Strategies => changes' = <<>>
          /\ changes' = <<>> => links' = <<>>
      BY <1>2, <1>3, <2>1
    <2>5. op' \notin Strategies \cup {"retrieve"} /\ edges' = edges
      BY <1>3, <2>1
    <2>6. QED
      BY <2>1, <2>3, <2>4, <2>5 DEF EdgesAreAccountedFor, Unlink
  <1>11. CASE MergePair \/ RepairPair \/ \E t \in Topics : Summarise(t)
    <2>1. /\ op \in Strategies /\ UNCHANGED <<edges, op, base>>
          /\ \A k \in DOMAIN todo' :
                todo'[k].type = "link" => todo'[k].edge \in ToSet(links')
          /\ ToSet(links) \subseteq ToSet(links')
          /\ changes' # <<>>
      BY <1>1, <1>11, StrategyQueues
    <2>2. base.edges \subseteq edges /\ edges \subseteq base.edges \cup ToSet(links)
      BY <1>1, <2>1 DEF EdgesAreAccountedFor
    <2>3. base'.edges \subseteq edges' /\ edges' \subseteq base'.edges \cup ToSet(links')
      BY <2>1, <2>2
    <2>4. op' \in Strategies /\ op' # "rollback"
      BY <1>3, <2>1
    <2>5. QED
      BY <2>1, <2>3, <2>4 DEF EdgesAreAccountedFor, ToSet
  <1>12. CASE ApplyWrite
    <2>1. /\ todo # <<>> /\ todo \in Seq(Writes) /\ todo' = Tail(todo)
          /\ UNCHANGED <<op, changes, links, base>>
      BY <1>1, <1>12, ApplyCases
    <2>2. /\ 1 \in DOMAIN todo /\ DOMAIN todo = 1 .. Len(todo) /\ Len(todo) \in Nat
          /\ DOMAIN todo' = 1 .. Len(todo) - 1
          /\ \A k \in DOMAIN todo' : k + 1 \in DOMAIN todo /\ todo'[k] = todo[k + 1]
      BY <2>1, QueueShifts
    <2>3. \A k \in DOMAIN todo : todo[k].type = "link" => todo[k].edge \in ToSet(links)
      BY <1>1 DEF EdgesAreAccountedFor
    <2>4. \A k \in DOMAIN todo' : todo'[k].type = "link" => todo'[k].edge \in ToSet(links')
      BY <2>1, <2>2, <2>3
    <2>5. /\ op \in Strategies \cup {"retrieve"} =>
                base'.edges \subseteq edges' /\ edges' \subseteq base'.edges \cup ToSet(links')
      <3>1. SUFFICES ASSUME op \in Strategies \cup {"retrieve"}
            PROVE  base.edges \subseteq edges' /\ edges' \subseteq base.edges \cup ToSet(links)
        BY <2>1
      <3>2. base.edges \subseteq edges /\ edges \subseteq base.edges \cup ToSet(links)
        BY <1>1, <3>1 DEF EdgesAreAccountedFor
      <3>3. todo[1].type # "unlink"
        BY <1>1, <1>3, <2>2, <3>1 DEF WritesOfOthers
      <3>4. edges' = edges \/ (todo[1].type = "link" /\ edges' = edges \cup {todo[1].edge})
        BY <1>1, <1>12, <3>3, ApplyCases
      <3>5. QED
        BY <2>2, <2>3, <3>2, <3>4
    <2>6. ASSUME op = "rollback", NEW e \in edges'
          PROVE  e \in base'.edges \/ \E k \in DOMAIN todo' : todo'[k] = Unlink(e)
      <3>1. todo[1].type # "link"
        BY <1>1, <2>2, <2>6 DEF WritesOfOthers
      <3>2. e \in edges /\ todo[1] # Unlink(e)
        <4>1. Unlink(e).type = "unlink" /\ Unlink(e).edge = e
          BY WriteFields
        <4>2. edges' = edges \/ edges' = edges \ {todo[1].edge}
          BY <1>1, <1>12, <3>1, ApplyCases
        <4>3. todo[1].type = "unlink" => edges' = edges \ {todo[1].edge}
          BY <1>1, <1>12, ApplyCases
        <4>4. QED
          BY <2>6, <4>1, <4>2, <4>3
      <3>3. e \in base.edges \/ \E k \in DOMAIN todo : todo[k] = Unlink(e)
        BY <1>1, <2>6, <3>2 DEF EdgesAreAccountedFor
      <3>4. ASSUME NEW k \in DOMAIN todo, todo[k] = Unlink(e)
            PROVE  \E j \in DOMAIN todo' : todo'[j] = Unlink(e)
        <4>1. k # 1
          BY <3>2, <3>4
        <4>2. k - 1 \in DOMAIN todo' /\ (k - 1) + 1 = k
          BY <2>2, <4>1
        <4>3. todo'[k - 1] = Unlink(e)
          BY <2>2, <3>4, <4>2
        <4>4. QED
          BY <4>2, <4>3
      <3>5. QED
        BY <2>1, <3>3, <3>4
    <2>7. QED
      BY <1>2, <2>1, <2>4, <2>5, <2>6 DEF EdgesAreAccountedFor, Unlink, ToSet
  <1>13. CASE Ending
    BY <1>3, <1>4, <1>13 DEF Ending, EdgesAreAccountedFor
  <1>14. CASE Quiet
    BY <1>1, <1>14 DEF Quiet, EdgesAreAccountedFor, Unlink, ToSet
  <1>15. QED
    BY <1>1, <1>6, <1>7, <1>8, <1>9, <1>10, <1>11, <1>12, <1>13, <1>14, StepCases, EndingSteps

LEMMA StackStep ==
    ASSUME MergeInv, NewestOnly, [Next]_vars
    PROVE  DiffsAreStacked'
  <1>1. /\ RecordInv /\ TypeOK /\ WritesAreWhole /\ CopiesAgree /\ MergedAreArchived
        /\ EdgesAreAccountedFor /\ DiffsAreStacked
    BY DEF MergeInv, RecordInv, StoredInv
  <1>2. /\ op \notin Strategies => changes = <<>>
        /\ changes = <<>> => links = <<>>
        /\ op = "idle" => todo = <<>>
        /\ log \in Seq(Diffs)
    BY <1>1 DEF EdgesAreAccountedFor, WritesAreWhole, TypeOK
  <1>3. "idle" \notin Strategies /\ "retrieve" \notin Strategies /\ "rollback" \notin Strategies
    BY DEF Strategies
  <1>4. \A es : SparesMerged(<<>>, es)
    <2>1. \A k : k \notin DOMAIN <<>>
      OBVIOUS
    <2>2. QED
      BY <2>1 DEF SparesMerged
  <1>5. /\ \A k \in DOMAIN log : SparesMerged(log[k].changes, log[k].base.edges)
        /\ \A k \in DOMAIN log : k + 1 \in DOMAIN log => log[k + 1].base.edges \subseteq EdgesAfter(log[k])
    BY <1>1 DEF DiffsAreStacked
  <1> DEFINE Reached == IF op = "idle" THEN edges ELSE base.edges
  <1>6. SparesMerged(changes, base.edges) /\ (log # <<>> => Reached \subseteq EdgesAfter(log[Len(log)]))
    BY <1>1 DEF DiffsAreStacked
  \* The diffs stay, and what the newest one left is what the next will find.
  <1>7. CASE log' = log /\ Reached' \subseteq Reached /\ SparesMerged(changes', base'.edges)
    <2>1. /\ \A k \in DOMAIN log' : SparesMerged(log'[k].changes, log'[k].base.edges)
          /\ \A k \in DOMAIN log' : k + 1 \in DOMAIN log' =>
                log'[k + 1].base.edges \subseteq EdgesAfter(log'[k])
      BY <1>5, <1>7
    <2>2. log' # <<>> => Reached' \subseteq EdgesAfter(log'[Len(log')])
      <3> HIDE DEF Reached
      <3>1. QED
        BY <1>6, <1>7
    <2>3. QED
      BY <1>7, <2>1, <2>2 DEF DiffsAreStacked, SparesMerged, MergedIn, EdgesAfter, SameAs, ToSet
  <1>8. CASE Quiet \/ ApplyWrite \/ \E i \in Atoms : Ingest(i)
    <2>1. log' = log /\ UNCHANGED <<changes, base, op>>
      BY <1>1, <1>8, ApplyCases DEF Quiet, Ingest, call
    <2>2. op = "idle" => edges' = edges
      BY <1>1, <1>2, <1>8, ApplyCases DEF Quiet, Ingest
    <2>3. QED
      BY <1>6, <1>7, <2>1, <2>2
  <1>9. CASE /\ op = "idle" /\ op' # "idle" /\ log' = log
             /\ base' = [mem |-> mem, edges |-> edges] /\ changes' = changes
    BY <1>2, <1>3, <1>4, <1>7, <1>9
  <1>10. ASSUME NEW selected \in SUBSET Selectable, NEW viaGraph \in SUBSET selected,
                BeginRetrieve(selected, viaGraph)
         PROVE  DiffsAreStacked'
    BY <1>1, <1>9, <1>10, RetrieveCases
  <1>11. ASSUME NEW kind \in {"deduplication", "contradiction_repair", "abstraction"},
                Starting(kind), UNCHANGED <<todo, changes, links>>
         PROVE  DiffsAreStacked'
    BY <1>9, <1>11 DEF Starting
  <1>12. CASE BeginDecay
    <2>1. /\ op = "idle" /\ op' # "idle" /\ log' = log /\ base' = [mem |-> mem, edges |-> edges]
          /\ \A k \in DOMAIN changes' : changes'[k].id \in Active
      BY <1>1, <1>12, DecayCases
    <2>2. SparesMerged(changes', base'.edges)
      BY <1>1, <2>1, ActiveAreSpared DEF SparesMerged
    <2>3. Reached' \subseteq Reached
      BY <2>1
    <2>4. QED
      BY <1>7, <2>1, <2>2, <2>3
  <1>13. ASSUME NEW n \in DOMAIN log, BeginRollback(n) PROVE DiffsAreStacked'
    <2>1. /\ n = Len(log) /\ op = "idle" /\ op' = "rollback" /\ base' = log[n].base
          /\ log' = RemoveAt(log, n) /\ changes' = changes
      BY <1>1, <1>13, RollbackCases DEF NewestOnly
    <2>2. log # <<>>
      BY <1>13
    <2>3. /\ Len(log) \in Nat /\ Len(log) > 0 /\ DOMAIN log = 1 .. Len(log)
          /\ Len(log') = Len(log) - 1 /\ DOMAIN log' = 1 .. Len(log) - 1
          /\ \A k \in 1 .. Len(log) - 1 : log'[k] = log[k]
      BY <1>2, <2>1, <2>2, LastRemoved
    <2>4. SparesMerged(changes', base'.edges)
      BY <1>2, <1>3, <1>4, <2>1
    <2>5. \A k \in DOMAIN log' : k \in DOMAIN log /\ log'[k] = log[k]
      BY <2>3
    <2>6. ASSUME NEW k \in DOMAIN log'
          PROVE  SparesMerged(log'[k].changes, log'[k].base.edges)
      BY <1>5, <2>5
    <2>7. ASSUME NEW k \in DOMAIN log', k + 1 \in DOMAIN log'
          PROVE  log'[k + 1].base.edges \subseteq EdgesAfter(log'[k])
      BY <1>5, <2>5, <2>7
    <2>8. ASSUME log' # <<>> PROVE base'.edges \subseteq EdgesAfter(log'[Len(log')])
      <3>1. Len(log') # 0
        <4>1. log' \in Seq(Diffs)
          BY <1>2, <2>1, <2>2, LastRemoved
        <4>2. QED
          BY <2>8, <4>1, EmptySeq
      <3>2. Len(log) - 1 \in DOMAIN log /\ (Len(log) - 1) + 1 = Len(log) /\ Len(log) \in DOMAIN log
            /\ log'[Len(log')] = log[Len(log) - 1]
        BY <2>3, <3>1
      <3>3. log[Len(log)].base.edges \subseteq EdgesAfter(log[Len(log) - 1])
        BY <1>5, <3>2
      <3>4. QED
        BY <2>1, <3>2, <3>3
    <2>9. Reached' = base'.edges
      BY <2>1
    <2>10. QED
      BY <2>4, <2>6, <2>7, <2>8, <2>9 DEF DiffsAreStacked, SparesMerged, MergedIn, EdgesAfter, SameAs, ToSet
  <1>14. CASE MergePair \/ RepairPair \/ \E t \in Topics : Summarise(t)
    <2>1. /\ op \in Strategies /\ UNCHANGED <<edges, op, base, log>>
          /\ \A k \in DOMAIN changes' :
                \/ \E j \in DOMAIN changes : changes'[k] = changes[j]
                \/ changes'[k].id \in Active \cup Summaries
      BY <1>1, <1>14, StrategyQueues
    <2>2. base.edges \subseteq edges
      BY <1>1, <2>1 DEF EdgesAreAccountedFor
    <2>3. \A i \in Active \cup Summaries : i \notin MergedIn(base.edges)
      <3>1. MergedIn(base.edges) \subseteq MergedIn(edges)
        BY <2>2 DEF MergedIn
      <3>2. QED
        BY <1>1, <3>1, ActiveAreSpared
    <2>4. SparesMerged(changes', base.edges)
      BY <1>6, <2>1, <2>3 DEF SparesMerged
    <2>5. QED
      BY <1>3, <1>7, <2>1, <2>4
  <1>15. CASE FinishRun
    <2> DEFINE diff == [changes |-> changes, links |-> links, base |-> base]
    <2>1. op \in Strategies /\ op' = "idle" /\ changes' = <<>> /\ edges' = edges
          /\ log' = Append(log, diff)
      BY <1>15 DEF FinishRun, Return
    <2>2. diff \in Diffs
      BY <1>1 DEF TypeOK, Diffs
    <2>3. SparesMerged(diff.changes, diff.base.edges) /\ EdgesAfter(diff) = base.edges \cup ToSet(links)
          /\ diff.base.edges = base.edges
      BY <1>6 DEF EdgesAfter
    <2>4. edges \subseteq EdgesAfter(diff)
      BY <1>1, <2>1, <2>3 DEF EdgesAreAccountedFor
    <2>5. log # <<>> => diff.base.edges \subseteq EdgesAfter(log[Len(log)])
      BY <1>3, <1>6, <2>1, <2>3
    <2> HIDE DEF diff
    <2>6. /\ Len(log) \in Nat /\ DOMAIN log = 1 .. Len(log)
          /\ Len(log') = Len(log) + 1 /\ DOMAIN log' = 1 .. Len(log) + 1
          /\ \A k \in DOMAIN log : log'[k] = log[k]
          /\ log'[Len(log) + 1] = diff
      BY <1>2, <2>1, <2>2, AppendedList
    <2>7. \A k \in DOMAIN log' : k \in DOMAIN log \/ k = Len(log) + 1
      BY <2>6
    <2>8. \A k \in DOMAIN log' : SparesMerged(log'[k].changes, log'[k].base.edges)
      BY <1>5, <2>3, <2>6, <2>7
    <2>9. ASSUME NEW k \in DOMAIN log', k + 1 \in DOMAIN log'
          PROVE  log'[k + 1].base.edges \subseteq EdgesAfter(log'[k])
      <3>1. k \in DOMAIN log
        BY <2>6, <2>9
      <3>2. CASE k + 1 \in DOMAIN log
        BY <1>5, <2>6, <3>1, <3>2
      <3>3. CASE k + 1 \notin DOMAIN log
        <4>1. k = Len(log) /\ k + 1 = Len(log) + 1
          BY <2>6, <3>1, <3>3
        <4>2. log # <<>>
          BY <3>1
        <4>3. log'[k + 1] = diff /\ log'[k] = log[Len(log)]
          BY <2>6, <3>1, <4>1
        <4>4. QED
          BY <2>5, <4>2, <4>3
      <3>4. QED
        BY <3>2, <3>3
    <2>10. Reached' \subseteq EdgesAfter(log'[Len(log')])
      BY <2>1, <2>4, <2>6
    <2>11. SparesMerged(changes', base'.edges)
      BY <1>4, <2>1
    <2>12. QED
      BY <2>8, <2>9, <2>10, <2>11 DEF DiffsAreStacked, SparesMerged, MergedIn, EdgesAfter, SameAs, ToSet
  <1>16. CASE FinishCall
    <2>1. /\ op # "idle" /\ todo = <<>> /\ changes = <<>> /\ op' = "idle" /\ changes' = <<>>
          /\ UNCHANGED <<edges, log>>
      BY <1>16 DEF FinishCall, Return, stores
    <2>2. edges \subseteq base.edges
      <3>1. CASE op = "rollback"
        <4>1. \A k : k \notin DOMAIN <<>>
          OBVIOUS
        <4>2. QED
          BY <1>1, <2>1, <3>1, <4>1 DEF EdgesAreAccountedFor
      <3>2. CASE op # "rollback"
        <4>1. op \in Strategies \cup {"retrieve"}
          BY <1>1, <2>1, <3>2 DEF TypeOK, Ops
        <4>2. ToSet(links) = {}
          BY <1>2, <2>1 DEF ToSet
        <4>3. QED
          BY <1>1, <4>1, <4>2 DEF EdgesAreAccountedFor
      <3>3. QED
        BY <3>1, <3>2
    <2>3. Reached' \subseteq Reached
      BY <2>1, <2>2
    <2>4. QED
      BY <1>4, <1>7, <2>1, <2>3
  <1>17. CASE Crash
    <2>1. log' = <<>> /\ changes' = <<>>
      BY <1>1, <1>17, BoundsAssumption DEF Crash, Return, NewestOnly, TypeOK
    <2>2. \A k : k \notin DOMAIN <<>>
      OBVIOUS
    <2>3. QED
      BY <1>4, <2>1, <2>2 DEF DiffsAreStacked, SparesMerged, MergedIn, EdgesAfter, SameAs, ToSet
  <1>18. QED
    BY <1>1, <1>8, <1>10, <1>11, <1>12, <1>13, <1>14, <1>15, <1>16, <1>17, StepCases

LEMMA MergeInvariant == NewestOnly => (Spec => []MergeInv)
  <1> SUFFICES ASSUME NewestOnly PROVE Spec => []MergeInv
    OBVIOUS
  <1>1. Init => MergeInv
    <2> SUFFICES ASSUME Init PROVE MergeInv
      OBVIOUS
    <2>1. RecordInv
      BY RecordInit
    <2>2. /\ edges = {} /\ log = <<>> /\ todo = <<>> /\ changes = <<>> /\ links = <<>> /\ op = "idle"
          /\ DOMAIN <<>> = {}
      BY DEF Init
    <2>3. MergedAreArchived /\ MergeChainsEnd
      BY <2>2 DEF MergedAreArchived, MergeChainsEnd
    <2>4. WritesSpareMerged /\ EdgesAreAccountedFor
      BY <2>2 DEF WritesSpareMerged, EdgesAreAccountedFor, Strategies
    <2>5. DiffsAreStacked
      BY <2>2 DEF DiffsAreStacked, SparesMerged
    <2>6. QED
      BY <2>1, <2>3, <2>4, <2>5 DEF MergeInv
  <1>2. MergeInv /\ [Next]_vars => MergeInv'
    <2> SUFFICES ASSUME MergeInv, [Next]_vars PROVE MergeInv'
      OBVIOUS
    <2>1. RecordInv'
      BY RecordStep DEF MergeInv
    <2>2. /\ MergedAreArchived' /\ MergeChainsEnd' /\ WritesSpareMerged' /\ EdgesAreAccountedFor'
          /\ DiffsAreStacked'
      BY MergedStep, ChainsStep, SparesStep, AccountStep, StackStep
    <2>3. QED
      BY <2>1, <2>2 DEF MergeInv
  <1>3. QED
    BY <1>1, <1>2, PTL DEF Spec

\* In a process that rolls back only its newest diff and loses its diffs when it
\* dies, an atom whose same_as edge is live is archived in favour of that memory: at
\* every instant, wherever between two writes of a merge or of its rollback the
\* process stops (_merge_pair, DreamRunner.rollback).
THEOREM MergedStayArchived == NewestOnly => (Spec => []MergedAreArchived)
  <1> SUFFICES ASSUME NewestOnly PROVE Spec => []MergedAreArchived
    OBVIOUS
  <1>1. MergeInv => MergedAreArchived
    BY DEF MergeInv
  <1>2. QED
    BY <1>1, MergeInvariant, PTL

\* In such a process no set of atoms is merged only into itself: following same_as
\* edges from a duplicate always comes to an atom that still stands
\* (_merge_pair merges into an active memory only).
THEOREM MergesLeaveASurvivor == NewestOnly => (Spec => []MergeChainsEnd)
  <1> SUFFICES ASSUME NewestOnly PROVE Spec => []MergeChainsEnd
    OBVIOUS
  <1>1. MergeInv => MergeChainsEnd
    BY DEF MergeInv
  <1>2. QED
    BY <1>1, MergeInvariant, PTL

-----------------------------------------------------------------------------
(***************************************************************************)
(* One pass of deduplication, and one of contradiction repair, is enough.  *)
(***************************************************************************)
\* A pass has read whatever is active.
ReadWhatIsActive ==
    op \in {"deduplication", "contradiction_repair"} =>
        \A i \in Ids : snap[i] = Null => ~IsActive(mem[i])

\* The pairs that a deduplication could still merge are those it has not examined.
MergesAreExamined ==
    op = "deduplication" =>
        \A l, r \in Ids :
            /\ l < r /\ SameTopic(l, r) /\ IsMergeCandidate(l, r)
            /\ IsActive(snap[l]) /\ IsActive(snap[r])
            => <<l, r>> \in work

\* The conflicts that a repair has not examined yet are all that it has not found
\* linked, linked, or queued a link for.
ConflictsAreExamined ==
    op = "contradiction_repair" =>
        /\ \A l, r \in Ids :
              /\ Forward(l, r) /\ SameTopic(l, r) /\ <<l, r>> \in Conflict
              /\ snap[l] # Null /\ snap[r] # Null
              => <<l, r>> \in work \/ Contradicts(l, r) \in known
        /\ \A e \in known : e \in edges \/ \E k \in DOMAIN todo : todo[k] = Link(e)

PassInv ==
    /\ RecordInv /\ RecordsFaithful
    /\ ReadWhatIsActive /\ MergesAreExamined /\ ConflictsAreExamined

\* What a pass writes it has read.
LEMMA PassesWriteWhatTheyRead ==
    ASSUME RecordInv, op \in {"deduplication", "contradiction_repair"},
           NEW k \in DOMAIN todo, todo[k].type = "memory"
    PROVE  snap[todo[k].id] # Null
  <1>1. TypeOK /\ DeduplicationIsCurrent /\ RepairIsCurrent
    BY DEF RecordInv, StoredInv
  <1>2. CASE op = "contradiction_repair"
    BY <1>1, <1>2 DEF RepairIsCurrent
  <1>3. CASE op = "deduplication"
    <2>1. todo # <<>>
      OBVIOUS
    <2>2. PICK c, d \in Ids : Merging(c, d)
      BY <1>1, <1>3, <2>1 DEF DeduplicationIsCurrent
    <2> DEFINE putC == Put(c, snap[c], TRUE, FALSE)
               putD == Put(d, snap[d], TRUE, FALSE)
               same == Link(SameAs(d, c))
               derived == Link(DerivedFrom(c, d))
    <2>3. putC.id = c /\ putD.id = d /\ same.type = "link" /\ derived.type = "link"
      BY DEF Put, Link
    <2>4. /\ snap[c] # Null /\ snap[d] # Null
          /\ \/ todo = <<putC, putD, same, derived>>
             \/ todo = <<putD, same, derived>>
             \/ todo = <<same, derived>>
             \/ todo = <<derived>>
      BY <2>2 DEF Merging, IsActive
    <2> HIDE DEF putC, putD, same, derived
    <2>5. todo[k] \in {putC, putD, same, derived}
      BY <2>4
    <2>6. QED
      BY <2>3, <2>4, <2>5
  <1>4. QED
    BY <1>2, <1>3

LEMMA ReadStaysActive ==
    ASSUME RecordInv, ReadWhatIsActive, [Next]_vars
    PROVE  ReadWhatIsActive'
  <1>1. TypeOK /\ ReadAreStored /\ CopiesAgree /\ WritesAreWhole /\ DeduplicationIsCurrent
        /\ RepairIsCurrent
    BY DEF RecordInv, StoredInv
  <1>2. CASE op' \notin {"deduplication", "contradiction_repair"}
    BY <1>2 DEF ReadWhatIsActive
  <1>3. CASE UNCHANGED <<mem, op>> /\ \A i \in Ids : snap'[i] = Null => snap[i] = Null
    BY <1>3 DEF ReadWhatIsActive
  <1>4. ASSUME NEW kind, Starting(kind) PROVE ReadWhatIsActive'
    <2>1. mem' = mem /\ snap' = ActiveSnapshot
      BY <1>4 DEF Starting
    <2>2. \A i \in Ids : ActiveSnapshot[i] = Null => ~IsActive(mem[i])
      BY DEF ActiveSnapshot, Active, IsActive
    <2>3. QED
      BY <2>1, <2>2 DEF ReadWhatIsActive
  <1>5. CASE MergePair
    <2>1. mem' = mem /\ op' = op
      BY <1>1, <1>5, MergeCases
    <2>2. PICK c, d \in Ids :
             /\ IsActive(snap[c]) /\ IsActive(snap[d])
             /\ snap'[c] = CanonicalAfter(snap[c], snap[d], d)
             /\ snap'[d] = DuplicateAfter(snap[d], c)
             /\ \A i \in Ids : i # c /\ i # d => snap'[i] = snap[i]
      BY <1>1, <1>5, MergeCases, Zenon
    <2>3. \A i \in Ids : snap'[i] = Null => snap[i] = Null
      <3>1. snap[c] \in Memory /\ snap[d] \in Memory
        BY <1>1, <2>2, TypedState DEF IsActive
      <3>2. CanonicalAfter(snap[c], snap[d], d) \in Memory /\ DuplicateAfter(snap[d], c) \in Memory
        BY <3>1, MemoryUpdates
      <3>3. snap'[c] # Null /\ snap'[d] # Null
        BY <2>2, <3>2, ConstantsAssumption
      <3>4. QED
        BY <2>2, <3>3
    <2>4. QED
      BY <1>3, <2>1, <2>3
  <1>6. CASE ApplyWrite /\ op \in {"deduplication", "contradiction_repair"}
    <2>1. op' = op /\ snap' = snap /\ 1 \in DOMAIN todo
      BY <1>1, <1>6, ApplyCases, QueueShifts, Zenon
    <2>2. \A i \in Ids : mem'[i] = mem[i] \/ (todo[1].type = "memory" /\ todo[1].id = i)
      BY <1>1, <1>6, ApplyCases
    <2>3. todo[1].type = "memory" => snap[todo[1].id] # Null
      BY <1>6, <2>1, PassesWriteWhatTheyRead
    <2>4. \A i \in Ids : snap[i] = Null => mem'[i] = mem[i]
      BY <2>2, <2>3
    <2>5. QED
      BY <1>6, <2>1, <2>4 DEF ReadWhatIsActive
  <1>7. CASE ApplyWrite /\ op \notin {"deduplication", "contradiction_repair"}
    BY <1>1, <1>2, <1>7, ApplyCases
  <1>8. CASE Quiet
    BY <1>3, <1>8 DEF Quiet
  <1>9. CASE Ending
    BY <1>2, <1>9 DEF Ending
  <1>10. CASE RepairPair
    BY <1>1, <1>3, <1>10, RepairCases
  <1>11. ASSUME NEW i \in Atoms, Ingest(i) PROVE ReadWhatIsActive'
    BY <1>2, <1>11 DEF Ingest, Ready, call
  <1>12. ASSUME NEW selected \in SUBSET Selectable, NEW viaGraph \in SUBSET selected,
                BeginRetrieve(selected, viaGraph)
         PROVE  ReadWhatIsActive'
    BY <1>2, <1>12 DEF BeginRetrieve, Begin
  <1>13. ASSUME NEW k \in DOMAIN log, BeginRollback(k) PROVE ReadWhatIsActive'
    BY <1>2, <1>13 DEF BeginRollback
  <1>14. ASSUME NEW t \in Topics, Summarise(t) PROVE ReadWhatIsActive'
    BY <1>3, <1>14 DEF Summarise, stores
  <1>15. CASE BeginDecay
    BY <1>2, <1>15 DEF BeginDecay, Begin
  <1>16. QED
    BY <1>1, <1>4, <1>5, <1>6, <1>7, <1>8, <1>9, <1>10, <1>11, <1>12, <1>13, <1>14, <1>15,
       StepCases, EndingSteps

LEMMA ExaminedStep ==
    ASSUME RecordInv, MergesAreExamined, [Next]_vars
    PROVE  MergesAreExamined'
  <1>1. TypeOK /\ ReadAreStored /\ CopiesAgree /\ WritesAreWhole /\ DeduplicationIsCurrent
        /\ RepairIsCurrent
    BY DEF RecordInv, StoredInv
  <1>2. CASE op' # "deduplication"
    BY <1>2 DEF MergesAreExamined
  <1>3. CASE BeginDeduplication
    <2>1. /\ snap' = ActiveSnapshot
          /\ work' = {p \in Active \X Active : p[1] < p[2] /\ SameTopic(p[1], p[2])}
      BY <1>3 DEF BeginDeduplication, BeginRun, Begin
    <2>2. \A i \in Ids : IsActive(ActiveSnapshot[i]) => i \in Active
      BY DEF ActiveSnapshot, IsActive
    <2>3. QED
      BY <2>1, <2>2 DEF MergesAreExamined
  <1>4. CASE MergePair
    <2>1. op = "deduplication"
      BY <1>1, <1>4, MergeCases
    <2>2. PICK p \in Ids \X Ids :
             /\ IsFirst(p, ListingOrder) /\ work' = work \ {p}
             /\ IF Better(snap[p[2]], snap[p[1]]) THEN Merge(p[2], p[1]) ELSE Merge(p[1], p[2])
             /\ IsActive(snap[p[1]]) /\ IsActive(snap[p[2]])
      BY <1>4 DEF MergePair, Mergeable
    <2>3. p[1] # p[2]
      BY <1>1, <2>1, <2>2 DEF IsFirst, DeduplicationIsCurrent
    <2>4. PICK c, d \in {p[1], p[2]} : c # d /\ Merge(c, d)
      BY <2>2, <2>3
    <2>5. c \in Ids /\ d \in Ids /\ snap[c] \in Memory /\ snap[d] \in Memory
          /\ snap \in [Ids -> MemoryOrNull] /\ ~snap[c].archived
      BY <1>1, <2>2, <2>4, TypedState DEF IsActive, TypeOK, Snapshots
    <2> DEFINE canonical == CanonicalAfter(snap[c], snap[d], d)
               duplicate == DuplicateAfter(snap[d], c)
    <2>6. snap' = [snap EXCEPT ![c] = canonical, ![d] = duplicate]
      BY <2>4 DEF Merge
    <2>7. duplicate.archived
      BY <2>5 DEF DuplicateAfter, Memory
    <2> HIDE DEF canonical, duplicate
    <2>8. /\ snap'[d] = duplicate
          /\ \A i \in Ids : i # c /\ i # d => snap'[i] = snap[i]
      BY <2>4, <2>5, <2>6
    <2>9. ~IsActive(snap'[d])
      BY <2>7, <2>8 DEF IsActive
    <2>10. \A i \in Ids : IsActive(snap'[i]) => IsActive(snap[i])
      BY <2>2, <2>4, <2>8
    <2>11. ASSUME NEW l \in Ids, NEW r \in Ids, l < r, SameTopic(l, r), IsMergeCandidate(l, r),
                  IsActive(snap'[l]), IsActive(snap'[r])
           PROVE  <<l, r>> \in work'
      <3>1. <<l, r>> \in work
        BY <2>1, <2>10, <2>11 DEF MergesAreExamined
      <3>2. <<l, r>> # p
        BY <2>4, <2>9, <2>11
      <3>3. QED
        BY <2>2, <3>1, <3>2
    <2>12. QED
      BY <2>11 DEF MergesAreExamined
  <1>5. CASE PassPair
    <2>1. op = "deduplication" /\ snap' = snap
      BY <1>5 DEF PassPair, Examine
    <2>2. PICK p \in Ids \X Ids : ~Mergeable(p) /\ work' = work \ {p}
      BY <1>5 DEF PassPair
    <2>3. ASSUME NEW l \in Ids, NEW r \in Ids, l < r, SameTopic(l, r), IsMergeCandidate(l, r),
                 IsActive(snap[l]), IsActive(snap[r])
          PROVE  <<l, r>> \in work'
      <3>1. <<l, r>> \in work
        BY <2>1, <2>3 DEF MergesAreExamined
      <3>2. <<l, r>> # p
        BY <2>2, <2>3 DEF Mergeable
      <3>3. QED
        BY <2>2, <3>1, <3>2
    <2>4. QED
      BY <2>1, <2>3 DEF MergesAreExamined
  <1>6. CASE UNCHANGED <<op, snap, work>>
    BY <1>6 DEF MergesAreExamined
  <1>7. ASSUME NEW i \in Atoms, Ingest(i) PROVE MergesAreExamined'
    BY <1>6, <1>7 DEF Ingest, call
  <1>8. ASSUME NEW selected \in SUBSET Selectable, NEW viaGraph \in SUBSET selected,
               BeginRetrieve(selected, viaGraph)
        PROVE  MergesAreExamined'
    BY <1>2, <1>8 DEF BeginRetrieve, Begin
  <1>9. ASSUME NEW k \in DOMAIN log, BeginRollback(k) PROVE MergesAreExamined'
    BY <1>2, <1>9 DEF BeginRollback
  <1>10. ASSUME NEW t \in Topics, Summarise(t) PROVE MergesAreExamined'
    BY <1>2, <1>10 DEF Summarise, Examine
  <1>11. CASE BeginRepair \/ BeginAbstraction \/ BeginDecay
    BY <1>2, <1>11 DEF BeginRepair, BeginAbstraction, BeginDecay, BeginRun, Begin
  <1>12. CASE RepairPair \/ SkipPair
    BY <1>2, <1>12 DEF RepairPair, SkipPair, Examine
  <1>13. CASE ApplyWrite \/ CopyWrite \/ Tick \/ UNCHANGED vars
    BY <1>6, <1>13 DEF ApplyWrite, CopyWrite, Tick, vars, call
  <1>14. CASE FinishRun \/ FinishCall \/ Crash
    BY <1>2, <1>14, EndingSteps DEF Ending
  <1>15. QED
    BY <1>3, <1>4, <1>5, <1>7, <1>8, <1>9, <1>10, <1>11, <1>12, <1>13, <1>14 DEF Next

LEMMA ConflictsStep ==
    ASSUME RecordInv, RecordsFaithful, ConflictsAreExamined, [Next]_vars
    PROVE  ConflictsAreExamined'
  <1>1. TypeOK /\ ReadAreStored /\ WritesAreWhole /\ RepairIsCurrent /\ WritesOfOthers
    BY DEF RecordInv, StoredInv
  <1>2. CASE op' # "contradiction_repair"
    BY <1>2 DEF ConflictsAreExamined
  <1>3. CASE BeginRepair
    <2>1. /\ snap' = ActiveSnapshot /\ known' = edges /\ edges' = edges
          /\ work' = {p \in Active \X Active :
                         p[1] # p[2] /\ Earlier(p[1], p[2]) /\ SameTopic(p[1], p[2])}
      BY <1>3 DEF BeginRepair, BeginRun, Begin, stores
    <2>2. ASSUME NEW l \in Ids, NEW r \in Ids, Forward(l, r), SameTopic(l, r),
                 snap'[l] # Null, snap'[r] # Null
          PROVE  <<l, r>> \in work'
      <3>1. l \in Active /\ r \in Active
        BY <2>1, <2>2 DEF ActiveSnapshot
      <3>2. mem[l] # Null /\ mem[r] # Null /\ mem[l] \in Memory /\ mem[r] \in Memory
        BY <1>1, <3>1, ActiveType, ConstantsAssumption
      <3>3. mem[l] \in Faithful(l, Stored) /\ mem[r] \in Faithful(r, Stored)
        BY <3>2 DEF RecordsFaithful, FaithfulCopies
      <3>4. mem[l].observed = ObservedOf(l) /\ mem[r].observed = ObservedOf(r)
        BY <3>3 DEF Faithful
      <3>5. Earlier(l, r)
        BY <2>2, <3>4 DEF Forward, Earlier
      <3>6. l # r
        <4>1. mem[l].observed \in Nat /\ mem[r].observed \in Nat /\ l \in Nat /\ r \in Nat
          BY <3>2, ConstantsAssumption DEF Memory
        <4>2. QED
          BY <3>5, <4>1 DEF Earlier
      <3>7. QED
        BY <2>1, <2>2, <3>1, <3>5, <3>6
    <2>3. QED
      BY <2>1, <2>2 DEF ConflictsAreExamined, Forward, ObservedOf, SameTopic, Contradicts, Link
  <1>4. CASE RepairPair
    <2>1. /\ op = "contradiction_repair" /\ op' = op /\ snap' = snap /\ todo = <<>> /\ edges' = edges
      BY <1>4 DEF RepairPair, Examine, stores
    <2>2. PICK o, n \in Ids : work' = work \ {<<o, n>>} /\ Repair(o, n)
      BY <1>4 DEF RepairPair
    <2>3. /\ known' = known \cup {Contradicts(o, n)}
          /\ \E older, newer :
                todo' = <<Put(o, older, TRUE, FALSE), Put(n, newer, TRUE, FALSE),
                          Link(Contradicts(o, n))>>
      BY <2>2 DEF Repair
    <2>4. 3 \in DOMAIN todo' /\ todo'[3] = Link(Contradicts(o, n))
      BY <2>3
    <2>5. \A e \in known : e \in edges
      BY <2>1, ListElements DEF ConflictsAreExamined
    <2>6. \A e \in known' : e \in edges' \/ \E k \in DOMAIN todo' : todo'[k] = Link(e)
      BY <2>1, <2>3, <2>4, <2>5
    <2>7. ASSUME NEW l \in Ids, NEW r \in Ids, Forward(l, r), SameTopic(l, r), <<l, r>> \in Conflict,
                 snap[l] # Null, snap[r] # Null
          PROVE  <<l, r>> \in work' \/ Contradicts(l, r) \in known'
      <3>1. <<l, r>> \in work \/ Contradicts(l, r) \in known
        BY <2>1, <2>7 DEF ConflictsAreExamined
      <3>2. QED
        BY <2>2, <2>3, <3>1
    <2>8. QED
      BY <2>1, <2>6, <2>7 DEF ConflictsAreExamined, Forward, ObservedOf, SameTopic, Contradicts, Link
  <1>5. CASE SkipPair
    <2>1. /\ op = "contradiction_repair" /\ op' = op
          /\ UNCHANGED <<snap, todo, edges, known>>
      BY <1>5 DEF SkipPair, Examine, stores
    <2>2. PICK p \in Ids \X Ids : ~NeedsRepair(p) /\ work' = work \ {p}
      BY <1>5 DEF SkipPair
    <2>3. ASSUME NEW l \in Ids, NEW r \in Ids, Forward(l, r), SameTopic(l, r), <<l, r>> \in Conflict,
                 snap[l] # Null, snap[r] # Null
          PROVE  <<l, r>> \in work' \/ Contradicts(l, r) \in known
      <3>1. <<l, r>> \in work \/ Contradicts(l, r) \in known
        BY <2>1, <2>3 DEF ConflictsAreExamined
      <3>2. <<l, r>> = p => Contradicts(l, r) \in known
        BY <2>2, <2>3 DEF NeedsRepair
      <3>3. QED
        BY <2>2, <3>1, <3>2
    <2>4. \A e \in known : e \in edges \/ \E k \in DOMAIN todo : todo[k] = Link(e)
      BY <2>1 DEF ConflictsAreExamined
    <2>5. QED
      BY <2>1, <2>3, <2>4 DEF ConflictsAreExamined, Forward, ObservedOf, SameTopic, Contradicts, Link
  <1>6. CASE ApplyWrite /\ op = "contradiction_repair"
    <2>1. UNCHANGED <<op, snap, work, known>>
      BY <1>6 DEF ApplyWrite
    <2>2. /\ todo # <<>> /\ todo \in Seq(Writes) /\ todo' = Tail(todo)
      BY <1>1, <1>6, ApplyCases
    <2>3. /\ 1 \in DOMAIN todo /\ DOMAIN todo = 1 .. Len(todo) /\ Len(todo) \in Nat
          /\ DOMAIN todo' = 1 .. Len(todo) - 1
          /\ \A k \in DOMAIN todo' : k + 1 \in DOMAIN todo /\ todo'[k] = todo[k + 1]
      BY <2>2, QueueShifts
    <2>4. todo[1].type # "unlink"
      BY <1>1, <1>6, <2>3 DEF WritesOfOthers
    <2>5. edges \subseteq edges' /\ (todo[1].type = "link" => todo[1].edge \in edges')
      BY <1>1, <1>6, <2>4, ApplyCases
    <2>6. ASSUME NEW e \in known
          PROVE  e \in edges' \/ \E k \in DOMAIN todo' : todo'[k] = Link(e)
      <3>1. e \in edges \/ \E k \in DOMAIN todo : todo[k] = Link(e)
        BY <1>6, <2>6 DEF ConflictsAreExamined
      <3>2. ASSUME NEW k \in DOMAIN todo, todo[k] = Link(e)
            PROVE  e \in edges' \/ \E j \in DOMAIN todo' : todo'[j] = Link(e)
        <4>1. CASE k = 1
          BY <2>5, <3>2, <4>1, WriteFields
        <4>2. CASE k # 1
          <5>1. k - 1 \in DOMAIN todo' /\ (k - 1) + 1 = k
            BY <2>3, <4>2
          <5>2. todo'[k - 1] = Link(e)
            BY <2>3, <3>2, <5>1
          <5>3. QED
            BY <5>1, <5>2
        <4>3. QED
          BY <4>1, <4>2
      <3>3. QED
        BY <2>5, <3>1, <3>2
    <2>7. QED
      BY <1>6, <2>1, <2>6 DEF ConflictsAreExamined, Forward, ObservedOf, SameTopic, Contradicts, Link
  <1>7. CASE ApplyWrite /\ op # "contradiction_repair"
    BY <1>1, <1>2, <1>7, ApplyCases
  <1>8. CASE CopyWrite \/ Tick \/ UNCHANGED vars
    BY <1>8 DEF CopyWrite, Tick, vars, stores, call, ConflictsAreExamined, Forward, ObservedOf, SameTopic,
                Contradicts, Link
  <1>9. ASSUME NEW i \in Atoms, Ingest(i) PROVE ConflictsAreExamined'
    BY <1>2, <1>9 DEF Ingest, Ready, call
  <1>10. ASSUME NEW selected \in SUBSET Selectable, NEW viaGraph \in SUBSET selected,
                BeginRetrieve(selected, viaGraph)
         PROVE  ConflictsAreExamined'
    BY <1>2, <1>10 DEF BeginRetrieve, Begin
  <1>11. ASSUME NEW k \in DOMAIN log, BeginRollback(k) PROVE ConflictsAreExamined'
    BY <1>2, <1>11 DEF BeginRollback
  <1>12. ASSUME NEW t \in Topics, Summarise(t) PROVE ConflictsAreExamined'
    BY <1>2, <1>12 DEF Summarise, Examine
  <1>13. CASE BeginDeduplication \/ BeginAbstraction \/ BeginDecay
    BY <1>2, <1>13 DEF BeginDeduplication, BeginAbstraction, BeginDecay, BeginRun, Begin
  <1>14. CASE MergePair \/ PassPair
    BY <1>2, <1>14 DEF MergePair, PassPair, Examine
  <1>15. CASE FinishRun \/ FinishCall \/ Crash
    BY <1>2, <1>15, EndingSteps DEF Ending
  <1>16. QED
    BY <1>3, <1>4, <1>5, <1>6, <1>7, <1>8, <1>9, <1>10, <1>11, <1>12, <1>13, <1>14, <1>15 DEF Next

LEMMA PassInvariant == Spec => []PassInv
  <1>1. Init => PassInv
    <2> SUFFICES ASSUME Init PROVE PassInv
      OBVIOUS
    <2>1. RecordInv /\ RecordsFaithful
      BY RecordInit, FaithfulInit
    <2>2. op = "idle"
      BY DEF Init
    <2>3. QED
      BY <2>1, <2>2 DEF PassInv, ReadWhatIsActive, MergesAreExamined, ConflictsAreExamined
  <1>2. PassInv /\ [Next]_vars => PassInv'
    <2> SUFFICES ASSUME PassInv, [Next]_vars PROVE PassInv'
      OBVIOUS
    <2>1. RecordInv /\ StoredInv /\ RecordsFaithful /\ ReadWhatIsActive /\ MergesAreExamined
          /\ ConflictsAreExamined
      BY DEF PassInv, RecordInv
    <2>2. RecordInv' /\ RecordsFaithful'
      BY <2>1, RecordStep, FaithfulStep
    <2>3. ReadWhatIsActive' /\ MergesAreExamined' /\ ConflictsAreExamined'
      BY <2>1, ReadStaysActive, ExaminedStep, ConflictsStep
    <2>4. QED
      BY <2>2, <2>3 DEF PassInv
  <1>3. QED
    BY <1>1, <1>2, PTL DEF Spec

\* A call returns when it has examined everything and written everything.
LEMMA CallsReturnDone ==
    ASSUME TypeOK, Next, NEW kind \in Strategies, Returns(kind)
    PROVE  op = kind /\ work = {} /\ todo = <<>>
  <1>1. op = kind /\ op' = "idle" /\ crashes' = crashes /\ kind # "idle" /\ crashes \in Nat
    BY DEF Returns, Strategies, TypeOK
  <1>2. FinishRun \/ FinishCall
    <2>1. crashes + 1 # crashes
      BY <1>1
    <2>2. QED
      BY <1>1, <2>1 DEF Next, Ingest, BeginRetrieve, BeginDeduplication, MergePair, PassPair, BeginRepair,
           RepairPair, SkipPair, BeginAbstraction, Summarise, BeginDecay, BeginRollback, ApplyWrite,
           CopyWrite, Tick, Crash, BeginRun, Begin, Ready, call
  <1>3. QED
    BY <1>1, <1>2 DEF FinishRun, FinishCall

\* When a deduplication returns it has examined every pair that is still active.
LEMMA PassLeavesMerged ==
    ASSUME PassInv, Next, Returns("deduplication"), NEW l \in Active, NEW r \in Active,
           l < r, SameTopic(l, r)
    PROVE  ~IsMergeCandidate(l, r)
  <1>1. TypeOK /\ DeduplicationIsCurrent /\ ReadWhatIsActive /\ MergesAreExamined
    BY DEF PassInv, RecordInv, StoredInv
  <1>2. op = "deduplication" /\ work = {} /\ todo = <<>>
    BY <1>1, CallsReturnDone DEF Strategies
  <1>3. CurrentBut({})
    BY <1>1, <1>2, ListElements DEF DeduplicationIsCurrent, Merging
  <1>4. l \in Ids /\ r \in Ids /\ IsActive(mem[l]) /\ IsActive(mem[r])
    BY DEF Active
  <1>5. IsActive(snap[l]) /\ IsActive(snap[r])
    BY <1>1, <1>2, <1>3, <1>4 DEF ReadWhatIsActive, CurrentBut
  <1>6. QED
    BY <1>1, <1>2, <1>4, <1>5 DEF MergesAreExamined

\* One deduplication pass leaves no two active memories of a topic that another
\* would merge, however many merge into one another: what it examines is the list of
\* members read when it began (DeduplicationDreamStrategy.execute).
THEOREM DeduplicationIsComplete == Spec => DeduplicationComplete
  <1>1. PassInv /\ [Next]_vars =>
           [Returns("deduplication") =>
               \A l, r \in Active : l < r /\ SameTopic(l, r) => ~IsMergeCandidate(l, r)]_vars
    BY PassLeavesMerged
  <1>2. QED
    BY <1>1, PassInvariant, PTL DEF Spec, DeduplicationComplete

\* One repair pass links every conflicting pair of active memories of a topic, the
\* older to the newer, also those whose members it changed on its way
\* (ContradictionRepairDreamStrategy.execute).
THEOREM RepairIsComplete == Spec => RepairComplete
  <1>1. ASSUME PassInv, Next, Returns("contradiction_repair"), NEW l \in Active, NEW r \in Active,
               Earlier(l, r), SameTopic(l, r), <<l, r>> \in Conflict
        PROVE  Contradicts(l, r) \in edges
    <2>1. TypeOK /\ ReadWhatIsActive /\ ConflictsAreExamined /\ RecordsFaithful
      BY <1>1 DEF PassInv, RecordInv, StoredInv
    <2>2. op = "contradiction_repair" /\ work = {} /\ todo = <<>>
      BY <1>1, <2>1, CallsReturnDone DEF Strategies
    <2>3. l \in Ids /\ r \in Ids /\ snap[l] # Null /\ snap[r] # Null
      BY <2>1, <2>2 DEF ReadWhatIsActive, Active
    <2>4. Forward(l, r)
      BY <1>1, <2>1, RepairPairsForward DEF RecordsFaithful
    <2>5. Contradicts(l, r) \in known
      BY <1>1, <2>1, <2>2, <2>3, <2>4 DEF ConflictsAreExamined
    <2>6. QED
      BY <2>1, <2>2, <2>5, ListElements DEF ConflictsAreExamined
  <1>2. PassInv /\ [Next]_vars =>
           [Returns("contradiction_repair") =>
               \A l, r \in Active : Earlier(l, r) /\ SameTopic(l, r) /\ <<l, r>> \in Conflict =>
                   Contradicts(l, r) \in edges]_vars
    BY <1>1
  <1>3. QED
    BY <1>2, PassInvariant, PTL DEF Spec, RepairComplete
=============================================================================
