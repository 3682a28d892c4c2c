--------------------------- MODULE Dreaming_proofs ---------------------------
(***************************************************************************)
(* Theorems about Dreaming, for every value of its constants.              *)
(***************************************************************************)
EXTENDS Dreaming, SequenceTheorems, FiniteSetTheorems, TLAPS

-----------------------------------------------------------------------------
(***************************************************************************)
(* Sequences.                                                              *)
(***************************************************************************)
LEMMA FunctionIsSequence ==
    ASSUME NEW S, NEW n \in Nat, NEW f \in [1 .. n -> S]
    PROVE  f \in Seq(S) /\ Len(f) = n
  <1>1. f \in Seq(S)
    BY SeqDef
  <1>2. QED
    BY <1>1, LenProperties

LEMMA ListSequences ==
    ASSUME NEW S, NEW a \in S, NEW b \in S, NEW c \in S, NEW d \in S
    PROVE  /\ <<a, b>> \in Seq(S)
           /\ <<a, b, c>> \in Seq(S)
           /\ <<a, b, c, d>> \in Seq(S)
  OBVIOUS

LEMMA ReverseType ==
    ASSUME NEW S, NEW s \in Seq(S)
    PROVE  /\ Reverse(s) \in Seq(S)
           /\ Len(Reverse(s)) = Len(s)
           /\ \A k \in 1 .. Len(s) : Reverse(s)[k] = s[Len(s) - k + 1]
  <1>1. Len(s) \in Nat /\ s \in [1 .. Len(s) -> S]
    BY LenProperties
  <1>2. \A k \in 1 .. Len(s) : s[(Len(s) - k) + 1] \in S
    BY <1>1
  <1>3. Reverse(s) \in [1 .. Len(s) -> S]
    BY <1>2 DEF Reverse
  <1>4. QED
    BY <1>1, <1>3, FunctionIsSequence DEF Reverse

LEMMA RemoveAtType ==
    ASSUME NEW S, NEW s \in Seq(S), NEW k \in DOMAIN s
    PROVE  RemoveAt(s, k) \in Seq(S)
  <1>1. Len(s) \in Nat /\ DOMAIN s = 1 .. Len(s) /\ \A j \in 1 .. Len(s) : s[j] \in S
    BY LenProperties
  <1>2. SubSeq(s, 1, k - 1) \in Seq(S)
    BY <1>1, SubSeqProperties
  <1>3. SubSeq(s, k + 1, Len(s)) \in Seq(S)
    BY <1>1, SubSeqProperties
  <1>4. QED
    BY <1>2, <1>3, ConcatProperties DEF RemoveAt

LEMMA OrderingType ==
    ASSUME NEW S, IsFiniteSet(S), NEW q \in SetToSeqs(S)
    PROVE  /\ Len(q) \in Nat
           /\ q \in [1 .. Len(q) -> S]
           /\ q \in Seq(S)
  <1>1. Cardinality(S) \in Nat
    BY FS_CardinalityType
  <1>2. q \in [1 .. Cardinality(S) -> S]
    BY DEF SetToSeqs
  <1>3. QED
    BY <1>1, <1>2, FunctionIsSequence

-----------------------------------------------------------------------------
(***************************************************************************)
(* What the pure functions return.                                         *)
(***************************************************************************)
LEMMA FiniteSubset ==
    ASSUME NEW S, S \subseteq Ids
    PROVE  IsFiniteSet(S)
  BY ConstantsAssumption, FS_Subset

LEMMA SummaryIdType ==
    ASSUME NEW t \in Topics, NEW at \in Time
    PROVE  SummaryId[t, at] \in Summaries /\ SummaryId[t, at] \in Ids
  BY DEF Summaries, Ids

LEMMA NotNull ==
    ASSUME NEW r \in MemoryOrNull, r # Null
    PROVE  r \in Memory
  BY DEF MemoryOrNull

LEMMA FreshMemoryType ==
    ASSUME NEW i \in Atoms
    PROVE  FreshMemory(i) \in Memory
  BY ConstantsAssumption DEF FreshMemory, Memory

LEMMA MemoryUpdates ==
    ASSUME NEW r \in Memory, NEW s \in Memory, NEW i \in Ids
    PROVE  /\ Accessed(r) \in Memory
           /\ Archived(r) \in Memory
           /\ FromSnapshot(r) \in Memory
           /\ CanonicalAfter(r, s, i) \in Memory
           /\ DuplicateAfter(r, i) \in Memory
           /\ OlderAfter(r, i) \in Memory
           /\ NewerAfter(r, i) \in Memory
  <1>1. Accessed(r) \in Memory
    BY DEF Accessed, Memory
  <1>2. Archived(r) \in Memory
    BY Zenon DEF Archived, Memory
  <1>3. FromSnapshot(r) \in Memory
    BY Zenon DEF FromSnapshot, Memory
  <1>4. CanonicalAfter(r, s, i) \in Memory
    <2>1. r.salience \in Scores /\ r.access \in Nat /\ s.access \in Nat /\ r.dups \in SUBSET Ids
      BY DEF Memory
    <2>2. /\ Least(100, r.salience + 5) \in Scores
          /\ r.access + s.access \in Nat
          /\ r.dups \union {i} \in SUBSET Ids
      BY <2>1 DEF Least, Scores
    <2>3. QED
      BY <2>2, Zenon DEF CanonicalAfter, Memory
  <1>5. DuplicateAfter(r, i) \in Memory
    BY Zenon DEF DuplicateAfter, Memory
  <1>6. OlderAfter(r, i) \in Memory
    <2>1. Greatest(10, r.trust - 25) \in Scores
      BY DEF Greatest, Scores, Memory
    <2>2. QED
      BY <2>1, Zenon DEF OlderAfter, Memory
  <1>7. NewerAfter(r, i) \in Memory
    <2>1. Least(100, r.salience + 10) \in Scores
      BY DEF Least, Scores, Memory
    <2>2. QED
      BY <2>1, Zenon DEF NewerAfter, Memory
  <1>8. QED
    BY <1>1, <1>2, <1>3, <1>4, <1>5, <1>6, <1>7

LEMMA SummaryType ==
    ASSUME NEW r \in Memory, NEW s \in Memory, NEW at \in Time
    PROVE  SummaryOf(r, s, at) \in Memory
  BY ConstantsAssumption DEF SummaryOf, Memory, Least, Scores, Time

LEMMA WriteTypes ==
    /\ \A i \in Ids, r \in Memory, g, x \in BOOLEAN : Put(i, r, g, x) \in Writes
    /\ \A e \in Edges : Link(e) \in Writes /\ Unlink(e) \in Writes
    /\ \A i \in Ids, b \in MemoryOrNull, r \in Memory : Change(i, b, r) \in Changes
    /\ \A i, j \in Ids : /\ SameAs(i, j) \in Edges /\ DerivedFrom(i, j) \in Edges
                         /\ Contradicts(i, j) \in Edges /\ Summarizes(i, j) \in Edges
  BY DEF Put, Link, Unlink, Change, Writes, Changes, Edges, EdgeKinds, SameAs,
         DerivedFrom, Contradicts, Summarizes

-----------------------------------------------------------------------------
(***************************************************************************)
(* What a call queues.                                                     *)
(***************************************************************************)
\* The writes that add no edge.
NoLinks == {w \in Writes : w.type # "link"}

LEMMA NoLinksType ==
    /\ \A i \in Ids, r \in Memory, g, x \in BOOLEAN : Put(i, r, g, x) \in NoLinks
    /\ \A e \in Edges : Unlink(e) \in NoLinks
  BY WriteTypes DEF NoLinks, Put, Unlink

LEMMA NoLinksSequence ==
    ASSUME NEW s \in Seq(NoLinks)
    PROVE  s \in Seq(Writes) /\ \A k \in DOMAIN s : s[k].type # "link"
  BY ElementOfSeq, LenProperties DEF NoLinks

LEMMA UndoChangeType ==
    ASSUME NEW c \in Changes
    PROVE  UndoChange(c) \in NoLinks
  <1>1. c.id \in Ids /\ c.before \in MemoryOrNull /\ c.after \in Memory
    BY DEF Changes
  <1>2. CASE c.before = Null
    <2>1. Archived(c.after) \in Memory /\ Archived(FromSnapshot(c.after)) \in Memory
      BY <1>1, MemoryUpdates
    <2>2. QED
      BY <1>1, <1>2, <2>1, NoLinksType DEF UndoChange
  <1>3. CASE c.before # Null
    <2>1. c.before \in Memory /\ FromSnapshot(c.before) \in Memory
      BY <1>1, <1>3, NotNull, MemoryUpdates
    <2>2. c.after.archived \in BOOLEAN /\ c.before.archived \in BOOLEAN
      BY <1>1, <2>1 DEF Memory
    <2>3. QED
      BY <1>1, <1>3, <2>1, <2>2, NoLinksType, BoundsAssumption DEF UndoChange
  <1>4. QED
    BY <1>2, <1>3

LEMMA UndoWritesType ==
    ASSUME NEW d \in Diffs
    PROVE  UndoWrites(d) \in Seq(NoLinks)
  <1>1. d.links \in Seq(Edges) /\ d.changes \in Seq(Changes)
    BY DEF Diffs
  <1> DEFINE u == Reverse(d.links)
             r == Reverse(d.changes)
  <1>2. u \in Seq(Edges) /\ Len(u) \in Nat /\ \A k \in 1 .. Len(u) : u[k] \in Edges
    BY <1>1, ReverseType, LenProperties, ElementOfSeq
  <1>3. r \in Seq(Changes) /\ Len(r) \in Nat /\ \A k \in 1 .. Len(r) : r[k] \in Changes
    BY <1>1, ReverseType, LenProperties, ElementOfSeq
  <1> HIDE DEF u, r
  <1>4. [k \in 1 .. Len(u) |-> Unlink(u[k])] \in Seq(NoLinks)
    <2>1. [k \in 1 .. Len(u) |-> Unlink(u[k])] \in [1 .. Len(u) -> NoLinks]
      BY <1>2, NoLinksType
    <2>2. QED
      BY <1>2, <2>1, FunctionIsSequence
  <1>5. [k \in 1 .. Len(r) |-> UndoChange(r[k])] \in Seq(NoLinks)
    <2>1. [k \in 1 .. Len(r) |-> UndoChange(r[k])] \in [1 .. Len(r) -> NoLinks]
      BY <1>3, UndoChangeType
    <2>2. QED
      BY <1>3, <2>1, FunctionIsSequence
  <1>6. QED
    BY <1>4, <1>5, ConcatProperties DEF UndoWrites, u, r

LEMMA LinkSequences ==
    ASSUME NEW s \in Ids, NEW S, IsFiniteSet(S), S \subseteq Ids,
           NEW q \in SetToSeqs(S), NEW rec \in Memory
    PROVE  LET added == [k \in 1 .. Len(q) |-> Summarizes(s, q[k])]
           IN  /\ added \in Seq(Edges)
               /\ Len(added) = Len(q)
               /\ SummaryWrites(s, rec, added) \in Seq(Writes)
  <1> DEFINE added == [k \in 1 .. Len(q) |-> Summarizes(s, q[k])]
             linked == [k \in 1 .. Len(added) |-> Link(added[k])]
  <1>1. Len(q) \in Nat /\ q \in [1 .. Len(q) -> S]
    BY OrderingType
  <1>2. added \in [1 .. Len(q) -> Edges]
    BY <1>1, WriteTypes
  <1>3. added \in Seq(Edges) /\ Len(added) = Len(q)
    BY <1>1, <1>2, FunctionIsSequence
  <1>4. linked \in [1 .. Len(q) -> Writes]
    BY <1>2, <1>3, WriteTypes
  <1>5. linked \in Seq(Writes)
    BY <1>1, <1>4, FunctionIsSequence
  <1>6. <<Put(s, rec, TRUE, FALSE)>> \in Seq(Writes)
    <2>1. Put(s, rec, TRUE, FALSE) \in Writes
      BY WriteTypes
    <2>2. \A w \in Writes : <<w>> \in Seq(Writes)
      OBVIOUS
    <2>3. QED
      BY <2>1, <2>2, Zenon
  <1>7. SummaryWrites(s, rec, added) \in Seq(Writes)
    BY <1>5, <1>6, ConcatProperties DEF SummaryWrites
  <1>8. QED
    BY <1>3, <1>7

-----------------------------------------------------------------------------
(***************************************************************************)
(* Every reachable state is well typed.                                    *)
(***************************************************************************)
LEMMA InitType == Init => TypeOK
  <1> SUFFICES ASSUME Init PROVE TypeOK
    OBVIOUS
  <1>1. NoRecords \in Snapshots
    BY DEF NoRecords, Snapshots, MemoryOrNull
  <1>2. [mem |-> NoRecords, edges |-> {}] \in Bases
    BY <1>1 DEF Bases
  <1>3. 0 \in Time
    BY ConstantsAssumption DEF Time
  <1>4. QED
    BY <1>1, <1>2, <1>3, EmptySeq DEF Init, TypeOK, Ops

LEMMA ActiveType ==
    ASSUME TypeOK
    PROVE  /\ Active \subseteq Ids
           /\ \A i \in Active : mem[i] \in Memory
           /\ ActiveSnapshot \in Snapshots
  BY DEF TypeOK, Active, IsActive, ActiveSnapshot, Snapshots, MemoryOrNull

LEMMA BeginType ==
    ASSUME TypeOK, NEW kind \in Ops, NEW set, set \subseteq (Ids \X Ids) \union Topics,
           Begin(kind, set), UNCHANGED log, todo' \in Seq(Writes),
           changes' \in Seq(Changes), links' \in Seq(Edges)
    PROVE  TypeOK'
  <1>1. ActiveSnapshot \in Snapshots
    BY ActiveType
  <1>2. [mem |-> mem, edges |-> edges] \in Bases
    BY DEF TypeOK, Bases
  <1>3. QED
    BY <1>1, <1>2 DEF TypeOK, Begin, stores

LEMMA ReturnType ==
    ASSUME TypeOK, Return
    PROVE  /\ op' \in Ops /\ work' \subseteq (Ids \X Ids) \union Topics /\ snap' \in Snapshots
           /\ known' \subseteq Edges /\ todo' \in Seq(Writes) /\ changes' \in Seq(Changes)
           /\ links' \in Seq(Edges) /\ base' \in Bases
  <1>1. NoRecords \in Snapshots
    BY DEF NoRecords, Snapshots, MemoryOrNull
  <1>2. [mem |-> NoRecords, edges |-> {}] \in Bases
    BY <1>1 DEF Bases
  <1>3. QED
    BY <1>1, <1>2, EmptySeq DEF Return, Ops

LEMMA RunType ==
    ASSUME TypeOK, NEW kind \in Strategies, NEW set, set \subseteq (Ids \X Ids) \union Topics,
           BeginRun(kind, set)
    PROVE  TypeOK'
  <1>1. UNCHANGED log /\ todo' \in Seq(Writes) /\ changes' \in Seq(Changes)
        /\ links' \in Seq(Edges) /\ Begin(kind, set) /\ kind \in Ops
    BY DEF BeginRun, TypeOK, Ops
  <1>2. QED
    BY <1>1, BeginType

LEMMA TypeStep == TypeOK /\ ReadAreStored /\ [Next]_vars => TypeOK'
  <1> SUFFICES ASSUME TypeOK, ReadAreStored, [Next]_vars PROVE TypeOK'
    OBVIOUS
  <1>1. ASSUME NEW i \in Atoms, Ingest(i) PROVE TypeOK'
    <2>1. i \in Ids /\ FreshMemory(i) \in MemoryOrNull
      BY FreshMemoryType DEF Ids, MemoryOrNull
    <2>2. mem' \in Snapshots /\ vec' \subseteq Ids /\ copying' \in Ids \union {Null}
      BY <1>1, <2>1 DEF TypeOK, Ingest, Snapshots
    <2>3. QED
      BY <1>1, <2>2 DEF TypeOK, Ingest, call
  <1>2. ASSUME NEW selected \in SUBSET Selectable, NEW viaGraph \in SUBSET selected,
               BeginRetrieve(selected, viaGraph)
        PROVE  TypeOK'
    <2>1. PICK order \in SetToSeqs(selected) :
            todo' = [k \in 1 .. Len(order) |->
                        Put(order[k], Accessed(Candidate(order[k], viaGraph)), FALSE, FALSE)]
      BY <1>2 DEF BeginRetrieve
    <2>2. selected \subseteq Ids /\ IsFiniteSet(selected)
      BY FiniteSubset DEF Selectable
    <2>3. Len(order) \in Nat /\ \A k \in 1 .. Len(order) : order[k] \in selected
      BY <2>2, OrderingType
    <2>4. \A i \in selected : Candidate(i, viaGraph) \in MemoryOrNull
      BY <2>2 DEF TypeOK, Snapshots, Candidate, GraphCopy
    <2>5. \A i \in selected : Candidate(i, viaGraph) \in Memory
      BY <1>2, <2>4 DEF BeginRetrieve, IsActive, MemoryOrNull
    <2>6. \A i \in selected : Accessed(Candidate(i, viaGraph)) \in Memory
      BY <2>5 DEF Accessed, Memory
    <2>7. \A i \in selected : Put(i, Accessed(Candidate(i, viaGraph)), FALSE, FALSE) \in Writes
      BY <2>2, <2>6, WriteTypes
    <2>8. todo' \in [1 .. Len(order) -> Writes]
      BY <2>1, <2>3, <2>7
    <2>9. todo' \in Seq(Writes)
      BY <2>3, <2>8, FunctionIsSequence
    <2>10. changes' \in Seq(Changes) /\ links' \in Seq(Edges) /\ UNCHANGED log /\ Begin("retrieve", {})
      BY <1>2 DEF BeginRetrieve, TypeOK
    <2>11. QED
      BY <2>9, <2>10, BeginType DEF Ops
  <1>3. CASE BeginDeduplication
    BY <1>3, RunType, ActiveType DEF BeginDeduplication, Strategies
  <1>4. CASE MergePair
    <2>1. PICK p \in Ids \X Ids :
            /\ Mergeable(p)
            /\ work' = work \ {p}
            /\ IF Better(snap[p[2]], snap[p[1]]) THEN Merge(p[2], p[1]) ELSE Merge(p[1], p[2])
      BY <1>4 DEF MergePair
    <2>2. \A i \in Ids : IsActive(snap[i]) => snap[i] \in Memory
      BY DEF TypeOK, Snapshots, IsActive, MemoryOrNull
    <2>3. ASSUME NEW c \in Ids, NEW d \in Ids, snap[c] \in Memory, snap[d] \in Memory, Merge(c, d)
          PROVE  /\ todo' \in Seq(Writes) /\ changes' \in Seq(Changes) /\ links' \in Seq(Edges)
                 /\ snap' \in Snapshots
      <3> DEFINE canonical == CanonicalAfter(snap[c], snap[d], d)
                 duplicate == DuplicateAfter(snap[d], c)
      <3>1. canonical \in Memory /\ duplicate \in Memory
        BY <2>3, MemoryUpdates
      <3>2. Put(c, canonical, TRUE, FALSE) \in Writes /\ Put(d, duplicate, TRUE, FALSE) \in Writes
        BY <3>1, WriteTypes
      <3>3. /\ SameAs(d, c) \in Edges /\ DerivedFrom(c, d) \in Edges
            /\ Link(SameAs(d, c)) \in Writes /\ Link(DerivedFrom(c, d)) \in Writes
        BY WriteTypes
      <3>4. Change(c, snap[c], canonical) \in Changes /\ Change(d, snap[d], duplicate) \in Changes
        BY <2>3, <3>1, WriteTypes DEF MemoryOrNull
      <3>5. snap \in [Ids -> MemoryOrNull] /\ canonical \in MemoryOrNull /\ duplicate \in MemoryOrNull
        BY <3>1 DEF TypeOK, Snapshots, MemoryOrNull
      <3> HIDE DEF canonical, duplicate
      <3>6. todo' \in Seq(Writes)
        <4>1. todo' = <<Put(c, canonical, TRUE, FALSE), Put(d, duplicate, TRUE, FALSE),
                        Link(SameAs(d, c)), Link(DerivedFrom(c, d))>>
          BY <2>3 DEF Merge, canonical, duplicate
        <4>2. QED
          BY <4>1, <3>2, <3>3, ListSequences, Zenon
      <3>7. changes' \in Seq(Changes)
        BY <2>3, <3>4, ConcatProperties DEF Merge, TypeOK, canonical, duplicate
      <3>8. links' \in Seq(Edges)
        BY <2>3, <3>3, ConcatProperties DEF Merge, TypeOK
      <3>9. snap' \in Snapshots
        BY <2>3, <3>5 DEF Merge, Snapshots, canonical, duplicate
      <3>10. QED
        BY <3>6, <3>7, <3>8, <3>9
    <2>4. /\ todo' \in Seq(Writes) /\ changes' \in Seq(Changes) /\ links' \in Seq(Edges)
          /\ snap' \in Snapshots
      <3>1. p[1] \in Ids /\ p[2] \in Ids /\ snap[p[1]] \in Memory /\ snap[p[2]] \in Memory
        BY <2>1, <2>2 DEF Mergeable
      <3>2. QED
        BY <2>1, <2>3, <3>1
    <2>5. QED
      BY <1>4, <2>1, <2>4 DEF MergePair, TypeOK, stores
  <1>5. CASE PassPair
    BY <1>5 DEF PassPair, TypeOK, stores
  <1>6. CASE BeginRepair
    BY <1>6, RunType, ActiveType DEF BeginRepair, Strategies
  <1>7. CASE RepairPair
    <2>1. PICK p \in Ids \X Ids :
            /\ IsFirst(p, ObservedOrder)
            /\ work' = work \ {p}
            /\ Repair(p[1], p[2])
      BY <1>7 DEF RepairPair
    <2> DEFINE o     == p[1]
               n     == p[2]
               older == OlderAfter(mem[o], n)
               newer == NewerAfter(snap[n], o)
    <2>2. mem[o] \in Memory /\ snap[n] \in Memory
      <3>1. op = "contradiction_repair" /\ p \in work
        BY <1>7, <2>1 DEF RepairPair, Examine, IsFirst
      <3>2. snap[o] # Null /\ snap[n] # Null /\ mem[o] # Null
        BY <3>1 DEF ReadAreStored
      <3>3. QED
        BY <3>2 DEF TypeOK, Snapshots, MemoryOrNull
    <2>3. older \in Memory /\ newer \in Memory
      BY <2>2, MemoryUpdates
    <2>4. Put(o, older, TRUE, FALSE) \in Writes /\ Put(n, newer, TRUE, FALSE) \in Writes
      BY <2>3, WriteTypes
    <2>5. Contradicts(o, n) \in Edges /\ Link(Contradicts(o, n)) \in Writes
      BY WriteTypes
    <2>6. Change(o, mem[o], older) \in Changes /\ Change(n, snap[n], newer) \in Changes
      BY <2>2, <2>3, WriteTypes DEF MemoryOrNull
    <2>7. /\ todo' = <<Put(o, older, TRUE, FALSE), Put(n, newer, TRUE, FALSE),
                       Link(Contradicts(o, n))>>
          /\ changes' = changes \o <<Change(o, mem[o], older), Change(n, snap[n], newer)>>
          /\ links' = Append(links, Contradicts(o, n))
          /\ known' = known \union {Contradicts(o, n)}
      BY <2>1 DEF Repair, FreshOlder
    <2> HIDE DEF o, n, older, newer
    <2>8. todo' \in Seq(Writes)
      BY <2>4, <2>5, <2>7, ListSequences, Zenon
    <2>9. changes' \in Seq(Changes) /\ links' \in Seq(Edges) /\ known' \subseteq Edges
      <3>1. <<Change(o, mem[o], older), Change(n, snap[n], newer)>> \in Seq(Changes)
        BY <2>6, ListSequences, Zenon
      <3>2. QED
        BY <2>5, <2>7, <3>1, ConcatProperties, AppendProperties DEF TypeOK
    <2>10. QED
      BY <1>7, <2>1, <2>8, <2>9 DEF RepairPair, TypeOK, stores
  <1>8. CASE SkipPair
    BY <1>8 DEF SkipPair, TypeOK, stores
  <1>9. CASE BeginAbstraction
    BY <1>9, RunType DEF BeginAbstraction, Strategies
  <1>10. ASSUME NEW t \in Topics, Summarise(t) PROVE TypeOK'
    <2> DEFINE members == Members(t, snap)
               s       == SummaryId[t, now]
    <2>1. PICK order \in Ascending(members), low \in members, high \in members :
            LET rec   == SummaryOf(snap[low], snap[high], now)
                added == [k \in 1 .. Len(order) |-> Summarizes(s, order[k])]
            IN /\ todo' = SummaryWrites(s, rec, added)
               /\ changes' = Append(changes, Change(s, Null, rec))
               /\ links' = links \o added
      BY <1>10 DEF Summarise
    <2> DEFINE rec   == SummaryOf(snap[low], snap[high], now)
               added == [k \in 1 .. Len(order) |-> Summarizes(s, order[k])]
    <2>2. members \subseteq Ids /\ IsFiniteSet(members) /\ order \in SetToSeqs(members)
      BY FiniteSubset DEF Members, Ascending
    <2>3. \A m \in members : snap[m] \in Memory
      BY DEF TypeOK, Snapshots, Members, IsActive, MemoryOrNull
    <2>4. rec \in Memory /\ s \in Ids
      BY <2>3, SummaryType, SummaryIdType DEF TypeOK
    <2>5. added \in Seq(Edges) /\ SummaryWrites(s, rec, added) \in Seq(Writes)
      BY <2>2, <2>4, LinkSequences
    <2>6. Change(s, Null, rec) \in Changes
      BY <2>4, WriteTypes DEF MemoryOrNull
    <2> HIDE DEF rec, added, s, members
    <2>7. todo' \in Seq(Writes) /\ changes' \in Seq(Changes) /\ links' \in Seq(Edges)
      <3>1. todo' = SummaryWrites(s, rec, added) /\ changes' = Append(changes, Change(s, Null, rec))
            /\ links' = links \o added
        BY <2>1 DEF rec, added
      <3>2. QED
        BY <2>5, <2>6, <3>1, ConcatProperties, AppendProperties DEF TypeOK
    <2>8. QED
      BY <1>10, <2>7 DEF Summarise, TypeOK, stores
  <1>11. CASE BeginDecay
    <2>1. PICK order \in Ascending(Expired) :
            /\ todo' = [k \in 1 .. Len(order) |->
                           Put(order[k], Archived(mem[order[k]]), TRUE, FALSE)]
            /\ changes' = [k \in 1 .. Len(order) |->
                              Change(order[k], mem[order[k]], Archived(mem[order[k]]))]
      BY <1>11 DEF BeginDecay
    <2>2. Expired \subseteq Active /\ Expired \subseteq Ids /\ IsFiniteSet(Expired)
      BY ActiveType, FiniteSubset DEF Expired
    <2>3. order \in SetToSeqs(Expired)
      BY DEF Ascending
    <2>4. Len(order) \in Nat /\ \A k \in 1 .. Len(order) : order[k] \in Expired
      BY <2>2, <2>3, OrderingType
    <2>5. \A i \in Expired : i \in Ids /\ mem[i] \in Memory /\ Archived(mem[i]) \in Memory
      BY <2>2, ActiveType, MemoryUpdates
    <2>6. \A i \in Expired : /\ Put(i, Archived(mem[i]), TRUE, FALSE) \in Writes
                             /\ Change(i, mem[i], Archived(mem[i])) \in Changes
      BY <2>5, WriteTypes DEF MemoryOrNull
    <2>7. todo' \in [1 .. Len(order) -> Writes] /\ changes' \in [1 .. Len(order) -> Changes]
      BY <2>1, <2>4, <2>6
    <2>8. todo' \in Seq(Writes) /\ changes' \in Seq(Changes)
      BY <2>4, <2>7, FunctionIsSequence
    <2>9. links' \in Seq(Edges) /\ UNCHANGED log /\ Begin("decay_archival", {})
      BY <1>11 DEF BeginDecay, TypeOK
    <2>10. QED
      BY <2>8, <2>9, BeginType DEF Ops, Strategies
  <1>12. ASSUME NEW k \in DOMAIN log, BeginRollback(k) PROVE TypeOK'
    <2>1. log[k] \in Diffs /\ RemoveAt(log, k) \in Seq(Diffs)
      BY RemoveAtType, ElementOfSeq, LenProperties DEF TypeOK
    <2>2. UndoWrites(log[k]) \in Seq(Writes) /\ log[k].base \in Bases
      BY <2>1, UndoWritesType, NoLinksSequence DEF Diffs
    <2>3. QED
      BY <1>12, <2>1, <2>2 DEF BeginRollback, TypeOK, stores, Ops
  <1>13. CASE ApplyWrite
    <2> DEFINE w == Head(todo)
    <2>1. w \in Writes /\ todo' \in Seq(Writes)
      BY <1>13, HeadTailProperties DEF ApplyWrite, TypeOK
    <2>2. w.type = "memory" => w.id \in Ids /\ w.rec \in MemoryOrNull
      BY <2>1 DEF Writes, MemoryOrNull
    <2>3. w.type # "memory" => w.edge \in Edges
      BY <2>1 DEF Writes
    <2> HIDE DEF w
    <2>4. /\ mem' \in Snapshots /\ edges' \subseteq Edges
          /\ vec' \subseteq Ids /\ copying' \in Ids \union {Null}
      <3>1. CASE /\ w.type = "memory"
                 /\ mem' = [mem EXCEPT ![w.id] = w.rec]
                 /\ vec' = IF w.reindex THEN vec \union {w.id} ELSE vec
                 /\ copying' = IF w.graph /\ ~SharedStore THEN w.id ELSE Null
                 /\ UNCHANGED edges
        BY <2>2, <3>1 DEF TypeOK, Snapshots
      <3>2. CASE /\ w.type # "memory"
                 /\ edges' = edges \union {w.edge} \/ edges' = edges \ {w.edge}
                 /\ UNCHANGED <<mem, vec, copying>>
        BY <2>3, <3>2 DEF TypeOK
      <3>3. QED
        BY <1>13, <3>1, <3>2 DEF ApplyWrite, w
    <2>5. QED
      BY <1>13, <2>1, <2>4 DEF ApplyWrite, TypeOK
  <1>14. CASE FinishRun
    <2>1. [changes |-> changes, links |-> links, base |-> base] \in Diffs
      BY DEF TypeOK, Diffs
    <2>2. log' \in Seq(Diffs)
      BY <1>14, <2>1, AppendProperties DEF FinishRun, TypeOK
    <2>3. Return /\ vec' \subseteq Ids
      BY <1>14 DEF FinishRun, TypeOK
    <2>4. QED
      BY <1>14, <2>2, <2>3, ReturnType DEF FinishRun, TypeOK
  <1>15. CASE FinishCall
    BY <1>15, ReturnType DEF FinishCall, TypeOK, stores
  <1>16. CASE Tick
    BY <1>16, ConstantsAssumption DEF Tick, TypeOK, stores, call, Time
  <1>17. CASE Crash
    <2>1. Return /\ log' \in Seq(Diffs) /\ vec' \subseteq Ids /\ crashes' \in Nat
      BY <1>17, EmptySeq DEF Crash, TypeOK
    <2>2. QED
      BY <1>17, <2>1, ReturnType DEF Crash, TypeOK
  <1>18. CASE UNCHANGED vars
    BY <1>18 DEF vars, stores, call, TypeOK
  <1>19. CASE CopyWrite
    <2>1. gmem' \in Snapshots
      BY <1>19 DEF CopyWrite, TypeOK, Snapshots
    <2>2. QED
      BY <1>19, <2>1 DEF CopyWrite, TypeOK, call
  <1>20. QED
    BY <1>1, <1>2, <1>3, <1>4, <1>5, <1>6, <1>7, <1>8, <1>9, <1>10, <1>11, <1>12, <1>13,
       <1>14, <1>15, <1>16, <1>17, <1>18, <1>19 DEF Next

-----------------------------------------------------------------------------
(***************************************************************************)
(* Nothing a call has read is ever removed.                                *)
(***************************************************************************)
LEMMA StoredForever ==
    ASSUME TypeOK, [Next]_vars, NEW i \in Ids, mem[i] # Null
    PROVE  mem'[i] # Null
  <1>1. ASSUME NEW j \in Atoms, Ingest(j) PROVE mem'[i] # Null
    BY <1>1 DEF Ingest, TypeOK, Snapshots
  <1>2. CASE ApplyWrite
    <2>1. Head(todo) \in Writes
      BY <1>2, HeadTailProperties DEF ApplyWrite, TypeOK
    <2>2. Head(todo).type = "memory" => Head(todo).rec # Null
      BY <2>1, ConstantsAssumption DEF Writes
    <2>3. QED
      BY <1>2, <2>2 DEF ApplyWrite, TypeOK, Snapshots
  <1>3. CASE UNCHANGED mem
    BY <1>3
  <1>4. (\E j \in Atoms : Ingest(j)) \/ ApplyWrite \/ UNCHANGED mem
    BY DEF Next, BeginRetrieve, BeginDeduplication, MergePair, PassPair, BeginRepair, RepairPair,
           SkipPair, BeginAbstraction, Summarise, BeginDecay, BeginRollback, FinishRun,
           FinishCall, CopyWrite, Tick, Crash, BeginRun, Begin, stores, vars
  <1>5. QED
    BY <1>1, <1>2, <1>3, <1>4

LEMMA ReadStep == TypeOK /\ ReadAreStored /\ [Next]_vars => ReadAreStored'
  <1> SUFFICES ASSUME TypeOK, ReadAreStored, [Next]_vars PROVE ReadAreStored'
    OBVIOUS
  <1>1. \A i \in Ids : mem[i] # Null => mem'[i] # Null
    BY StoredForever
  <1>2. ASSUME NEW kind \in Ops, NEW set, Begin(kind, set),
               kind = "contradiction_repair" => set \subseteq Active \X Active
        PROVE  ReadAreStored'
    <2>1. UNCHANGED mem /\ snap' = ActiveSnapshot /\ work' = set /\ op' = kind
      BY <1>2 DEF Begin, stores
    <2>2. \A i \in Ids : ActiveSnapshot[i] # Null => mem[i] # Null
      BY DEF ActiveSnapshot
    <2>3. \A i \in Active : ActiveSnapshot[i] # Null
      BY DEF ActiveSnapshot, Active, IsActive
    <2>4. QED
      BY <1>2, <2>1, <2>2, <2>3 DEF ReadAreStored
  <1>3. CASE Return
    BY <1>3 DEF Return, ReadAreStored, NoRecords
  <1>4. CASE UNCHANGED <<op, snap>> /\ work' \subseteq work
    BY <1>1, <1>4 DEF ReadAreStored
  <1>5. ASSUME NEW i \in Atoms, Ingest(i) PROVE ReadAreStored'
    BY <1>4, <1>5 DEF Ingest, call
  <1>6. ASSUME NEW selected \in SUBSET Selectable, NEW viaGraph \in SUBSET selected,
               BeginRetrieve(selected, viaGraph)
        PROVE  ReadAreStored'
    BY <1>2, <1>6 DEF BeginRetrieve, Ops
  <1>7. CASE BeginDeduplication
    BY <1>2, <1>7 DEF BeginDeduplication, BeginRun, Ops, Strategies
  <1>8. CASE MergePair
    <2>1. PICK c, d \in Ids : snap[c] # Null /\ snap[d] # Null /\ Merge(c, d)
      BY <1>8 DEF MergePair, Mergeable, IsActive
    <2>2. /\ snap' = [snap EXCEPT ![c] = CanonicalAfter(snap[c], snap[d], d),
                                  ![d] = DuplicateAfter(snap[d], c)]
          /\ op' = "deduplication" /\ UNCHANGED mem
      BY <1>8, <2>1 DEF MergePair, Merge, Examine, stores
    <2>3. mem[c] # Null /\ mem[d] # Null
      BY <2>1 DEF ReadAreStored
    <2>4. QED
      BY <2>2, <2>3 DEF ReadAreStored, TypeOK, Snapshots
  <1>9. CASE PassPair
    BY <1>4, <1>9 DEF PassPair
  <1>10. CASE BeginRepair
    BY <1>2, <1>10 DEF BeginRepair, BeginRun, Ops, Strategies
  <1>11. CASE RepairPair
    BY <1>4, <1>11 DEF RepairPair
  <1>12. CASE SkipPair
    BY <1>4, <1>12 DEF SkipPair
  <1>13. CASE BeginAbstraction
    BY <1>2, <1>13 DEF BeginAbstraction, BeginRun, Ops, Strategies
  <1>14. ASSUME NEW t \in Topics, Summarise(t) PROVE ReadAreStored'
    BY <1>4, <1>14 DEF Summarise
  <1>15. CASE BeginDecay
    BY <1>2, <1>15 DEF BeginDecay, Ops, Strategies
  <1>16. ASSUME NEW k \in DOMAIN log, BeginRollback(k) PROVE ReadAreStored'
    BY <1>16 DEF BeginRollback, ReadAreStored, stores
  <1>17. CASE ApplyWrite
    BY <1>4, <1>17 DEF ApplyWrite
  <1>18. CASE FinishRun \/ FinishCall \/ Crash
    BY <1>3, <1>18 DEF FinishRun, FinishCall, Crash
  <1>19. CASE CopyWrite \/ Tick \/ UNCHANGED vars
    BY <1>4, <1>19 DEF CopyWrite, Tick, vars, call
  <1>20. QED
    BY <1>5, <1>6, <1>7, <1>8, <1>9, <1>10, <1>11, <1>12, <1>13, <1>14, <1>15, <1>16, <1>17,
       <1>18, <1>19 DEF Next

\* No call, crash or rollback, in any order, leaves a store with a score out of
\* range, a memory under an unknown id or an edge of an unknown kind.
THEOREM TypeCorrect == Spec => []TypeOK
  <1>1. Init => TypeOK /\ ReadAreStored
    BY InitType DEF Init, ReadAreStored, NoRecords
  <1>2. TypeOK /\ ReadAreStored /\ [Next]_vars => TypeOK' /\ ReadAreStored'
    BY TypeStep, ReadStep
  <1>3. QED
    BY <1>1, <1>2, PTL DEF Spec

-----------------------------------------------------------------------------
(***************************************************************************)
(* Edges never dangle.                                                     *)
(***************************************************************************)
LEMMA LinksStep ==
    TypeOK /\ ReadAreStored /\ LinksFollowMemories /\ [Next]_vars => LinksFollowMemories'
  <1> SUFFICES ASSUME TypeOK, ReadAreStored, LinksFollowMemories, [Next]_vars
               PROVE  LinksFollowMemories'
    OBVIOUS
  <1>1. \A i \in Ids : mem[i] # Null => mem'[i] # Null
    BY StoredForever
  <1>2. /\ todo \in Seq(Writes) /\ DOMAIN todo = 1 .. Len(todo) /\ Len(todo) \in Nat
        /\ \A k \in DOMAIN todo : todo[k] \in Writes
    BY LenProperties, ElementOfSeq DEF TypeOK
  <1>3. \A w \in Writes : w.type = "link" => w.edge[2] \in Ids /\ w.edge[3] \in Ids
    BY DEF Writes, Edges
  <1>4. CASE todo' = <<>>
    BY <1>4 DEF LinksFollowMemories
  <1>5. CASE UNCHANGED todo
    BY <1>1, <1>2, <1>3, <1>5 DEF LinksFollowMemories
  <1>6. CASE todo' \in Seq(NoLinks)
    BY <1>6, NoLinksSequence DEF LinksFollowMemories
  <1>7. ASSUME NEW i \in Atoms, Ingest(i) PROVE LinksFollowMemories'
    BY <1>5, <1>7 DEF Ingest, call
  <1>8. ASSUME NEW selected \in SUBSET Selectable, NEW viaGraph \in SUBSET selected,
               BeginRetrieve(selected, viaGraph)
        PROVE  LinksFollowMemories'
    <2>1. PICK order \in SetToSeqs(selected) :
            todo' = [k \in 1 .. Len(order) |->
                        Put(order[k], Accessed(Candidate(order[k], viaGraph)), FALSE, FALSE)]
      BY <1>8 DEF BeginRetrieve
    <2>2. IsFiniteSet(selected)
      BY FiniteSubset DEF Selectable
    <2>3. Len(order) \in Nat
      BY <2>2, OrderingType
    <2>4. \A k \in DOMAIN todo' : todo'[k].type = "memory"
      BY <2>1 DEF Put
    <2>5. QED
      BY <2>4 DEF LinksFollowMemories
  <1>9. CASE MergePair
    <2>1. PICK c, d \in Ids : snap[c] # Null /\ snap[d] # Null /\ Merge(c, d)
      BY <1>9 DEF MergePair, Mergeable, IsActive
    <2>2. mem'[c] # Null /\ mem'[d] # Null
      BY <1>1, <2>1 DEF ReadAreStored
    <2>3. \A k \in DOMAIN todo' : todo'[k].type = "link" =>
              {todo'[k].edge[2], todo'[k].edge[3]} = {c, d}
      <3>1. PICK p1, p2 : todo' = <<Put(c, p1, TRUE, FALSE), Put(d, p2, TRUE, FALSE),
                                    Link(SameAs(d, c)), Link(DerivedFrom(c, d))>>
        BY <2>1 DEF Merge
      <3>2. QED
        BY <3>1 DEF Put, Link, SameAs, DerivedFrom
    <2>4. QED
      BY <2>2, <2>3 DEF LinksFollowMemories
  <1>10. CASE RepairPair
    <2>1. PICK o, n \in Ids : <<o, n>> \in work /\ op = "contradiction_repair" /\ Repair(o, n)
      BY <1>10 DEF RepairPair, IsFirst, Examine
    <2>2. mem'[o] # Null /\ mem'[n] # Null
      BY <1>1, <2>1 DEF ReadAreStored
    <2>3. \A k \in DOMAIN todo' : todo'[k].type = "link" =>
              {todo'[k].edge[2], todo'[k].edge[3]} = {o, n}
      <3>1. PICK p1, p2 : todo' = <<Put(o, p1, TRUE, FALSE), Put(n, p2, TRUE, FALSE),
                                    Link(Contradicts(o, n))>>
        BY <2>1 DEF Repair
      <3>2. QED
        BY <3>1 DEF Put, Link, Contradicts
    <2>4. QED
      BY <2>2, <2>3 DEF LinksFollowMemories
  <1>11. ASSUME NEW t \in Topics, Summarise(t) PROVE LinksFollowMemories'
    <2> DEFINE members == Members(t, snap)
               s       == SummaryId[t, now]
    <2>1. PICK order \in Ascending(members), low \in members, high \in members :
            LET rec   == SummaryOf(snap[low], snap[high], now)
                added == [k \in 1 .. Len(order) |-> Summarizes(s, order[k])]
            IN todo' = SummaryWrites(s, rec, added)
      BY <1>11 DEF Summarise
    <2> DEFINE rec    == SummaryOf(snap[low], snap[high], now)
               added  == [k \in 1 .. Len(order) |-> Summarizes(s, order[k])]
               linked == [k \in 1 .. Len(added) |-> Link(added[k])]
    <2>2. members \subseteq Ids /\ IsFiniteSet(members) /\ order \in SetToSeqs(members)
      BY FiniteSubset DEF Members, Ascending
    <2>3. /\ Len(order) \in Nat /\ \A k \in 1 .. Len(order) : order[k] \in members
      BY <2>2, OrderingType
    <2>4. \A i \in members : mem'[i] # Null
      BY <1>1 DEF Members, IsActive, ReadAreStored
    <2> HIDE DEF s, members
    <2>5. Len(added) = Len(order)
      <3>1. added \in [1 .. Len(order) -> {Summarizes(s, order[k]) : k \in 1 .. Len(order)}]
        OBVIOUS
      <3>2. QED
        BY <2>3, <3>1, FunctionIsSequence
    <2>6. /\ linked \in Seq({Link(added[k]) : k \in 1 .. Len(order)})
          /\ Len(linked) = Len(order)
      <3>1. linked \in [1 .. Len(order) -> {Link(added[k]) : k \in 1 .. Len(order)}]
        BY <2>5
      <3>2. QED
        BY <2>3, <3>1, FunctionIsSequence
    <2>7. /\ todo'[1] = Put(s, rec, TRUE, FALSE)
          /\ DOMAIN todo' = 1 .. Len(order) + 1
          /\ \A k \in 2 .. Len(order) + 1 : todo'[k] = Link(Summarizes(s, order[k - 1]))
      <3> HIDE DEF rec
      <3>1. todo' = <<Put(s, rec, TRUE, FALSE)>> \o linked
        BY <2>1 DEF SummaryWrites, rec
      <3>2. \A k \in 1 .. Len(order) : linked[k] = Link(Summarizes(s, order[k]))
        BY <2>5
      <3> HIDE DEF linked
      <3>3. /\ Len(todo') = 1 + Len(order)
            /\ DOMAIN todo' = 1 .. Len(todo')
            /\ todo'[1] = Put(s, rec, TRUE, FALSE)
            /\ \A k \in 2 .. Len(order) + 1 : todo'[k] = linked[k - 1]
        BY <2>3, <2>6, <3>1
      <3>4. QED
        BY <2>3, <3>2, <3>3
    <2> HIDE DEF rec, added, linked
    <2>8. todo'[1].type = "memory" /\ todo'[1].id = s
      BY <2>7 DEF Put
    <2>9. ASSUME NEW k \in DOMAIN todo', todo'[k].type = "link",
                 NEW i \in {todo'[k].edge[2], todo'[k].edge[3]}
          PROVE  mem'[i] # Null \/ \E j \in 1 .. k - 1 : todo'[j].type = "memory" /\ todo'[j].id = i
      <3>1. k \in 2 .. Len(order) + 1
        <4>1. k # 1
          BY <2>8, <2>9
        <4>2. k \in 1 .. Len(order) + 1
          BY <2>7
        <4>3. QED
          BY <2>3, <4>1, <4>2
      <3>2. todo'[k] = Link(Summarizes(s, order[k - 1])) /\ k - 1 \in 1 .. Len(order)
        BY <2>3, <2>7, <3>1
      <3>3. i = s \/ i = order[k - 1]
        BY <2>9, <3>2 DEF Link, Summarizes
      <3>4. CASE i = s
        BY <2>3, <2>8, <3>1, <3>4
      <3>5. CASE i = order[k - 1]
        BY <2>3, <2>4, <3>2, <3>5
      <3>6. QED
        BY <3>3, <3>4, <3>5
    <2>10. QED
      BY <2>9 DEF LinksFollowMemories
  <1>12. CASE BeginDecay
    <2>1. PICK order \in Ascending(Expired) :
            todo' = [k \in 1 .. Len(order) |->
                        Put(order[k], Archived(mem[order[k]]), TRUE, FALSE)]
      BY <1>12 DEF BeginDecay
    <2>2. IsFiniteSet(Expired) /\ order \in SetToSeqs(Expired)
      BY ActiveType, FiniteSubset DEF Expired, Ascending
    <2>3. \A k \in DOMAIN todo' : todo'[k].type = "memory"
      BY <2>1 DEF Put
    <2>4. QED
      BY <2>3 DEF LinksFollowMemories
  <1>13. ASSUME NEW k \in DOMAIN log, BeginRollback(k) PROVE LinksFollowMemories'
    <2>1. log[k] \in Diffs
      BY ElementOfSeq, LenProperties DEF TypeOK
    <2>2. QED
      BY <1>6, <1>13, <2>1, UndoWritesType DEF BeginRollback
  <1>14. CASE ApplyWrite
    <2>1. /\ todo' = Tail(todo) /\ todo # <<>> /\ Head(todo) = todo[1]
          /\ DOMAIN todo' = 1 .. Len(todo) - 1 /\ Len(todo) >= 1
          /\ \A k \in 1 .. Len(todo) - 1 : todo'[k] = todo[k + 1]
      BY <1>2, <1>14, HeadTailProperties, EmptySeq, LenProperties DEF ApplyWrite
    <2>2. todo[1].type = "memory" => mem'[todo[1].id] # Null
      <3>1. todo[1] \in Writes
        BY <1>2, <2>1
      <3>2. todo[1].type = "memory" => todo[1].id \in Ids /\ todo[1].rec # Null
        BY <3>1, ConstantsAssumption DEF Writes
      <3>3. QED
        BY <1>14, <2>1, <3>2 DEF ApplyWrite, TypeOK, Snapshots
    <2>3. ASSUME NEW k \in DOMAIN todo', todo'[k].type = "link",
                 NEW i \in {todo'[k].edge[2], todo'[k].edge[3]}
          PROVE  mem'[i] # Null \/ \E j \in 1 .. k - 1 : todo'[j].type = "memory" /\ todo'[j].id = i
      <3>1. k \in 1 .. Len(todo) - 1 /\ k + 1 \in DOMAIN todo /\ todo'[k] = todo[k + 1]
        BY <1>2, <2>1
      <3>2. \/ mem[i] # Null
            \/ \E j \in 1 .. (k + 1) - 1 : todo[j].type = "memory" /\ todo[j].id = i
        BY <2>3, <3>1 DEF LinksFollowMemories
      <3>3. i \in Ids
        BY <1>2, <1>3, <2>3, <3>1
      <3>4. CASE mem[i] # Null
        BY <1>1, <3>3, <3>4
      <3>5. ASSUME NEW j \in 1 .. k, todo[j].type = "memory", todo[j].id = i
            PROVE  mem'[i] # Null
                   \/ \E m \in 1 .. k - 1 : todo'[m].type = "memory" /\ todo'[m].id = i
        <4>1. CASE j = 1
          BY <2>2, <3>5, <4>1
        <4>2. CASE j # 1
          <5>1. j - 1 \in 1 .. k - 1 /\ j - 1 \in 1 .. Len(todo) - 1 /\ (j - 1) + 1 = j
            BY <1>2, <3>1, <4>2
          <5>2. todo'[j - 1] = todo[j]
            BY <2>1, <5>1
          <5>3. QED
            BY <3>5, <5>1, <5>2
        <4>3. QED
          BY <4>1, <4>2
      <3>6. QED
        BY <1>2, <3>1, <3>2, <3>4, <3>5
    <2>4. QED
      BY <2>3 DEF LinksFollowMemories
  <1>15. CASE BeginDeduplication \/ BeginRepair \/ BeginAbstraction \/ PassPair \/ SkipPair
    BY <1>5, <1>15 DEF BeginDeduplication, BeginRepair, BeginAbstraction, BeginRun, PassPair, SkipPair
  <1>16. CASE FinishRun \/ FinishCall \/ Crash
    BY <1>4, <1>16 DEF FinishRun, FinishCall, Crash, Return
  <1>17. CASE CopyWrite \/ Tick \/ UNCHANGED vars
    BY <1>5, <1>17 DEF CopyWrite, Tick, vars, call
  <1>18. QED
    BY <1>7, <1>8, <1>9, <1>10, <1>11, <1>12, <1>13, <1>14, <1>15, <1>16, <1>17 DEF Next

LEMMA EdgesStep ==
    TypeOK /\ LinksFollowMemories /\ NoDanglingEdges /\ [Next]_vars => NoDanglingEdges'
  <1> SUFFICES ASSUME TypeOK, LinksFollowMemories, NoDanglingEdges, [Next]_vars
               PROVE  NoDanglingEdges'
    OBVIOUS
  <1>1. \A i \in Ids : mem[i] # Null => mem'[i] # Null
    BY StoredForever
  <1>2. \A e \in edges : e[2] \in Ids /\ e[3] \in Ids
    BY DEF TypeOK, Edges
  <1>3. CASE edges' \subseteq edges
    BY <1>1, <1>2, <1>3 DEF NoDanglingEdges
  <1>4. CASE ApplyWrite
    <2>1. 1 \in DOMAIN todo /\ Head(todo) = todo[1] /\ todo[1] \in Writes
      BY <1>4, HeadTailProperties, EmptySeq, LenProperties, ElementOfSeq DEF ApplyWrite, TypeOK
    <2>2. CASE todo[1].type = "link"
      <3>1. mem[todo[1].edge[2]] # Null /\ mem[todo[1].edge[3]] # Null
        BY <2>1, <2>2 DEF LinksFollowMemories
      <3>2. edges' = edges \union {todo[1].edge} /\ UNCHANGED mem
        BY <1>4, <2>1, <2>2 DEF ApplyWrite
      <3>3. QED
        BY <3>1, <3>2 DEF NoDanglingEdges
    <2>3. CASE todo[1].type # "link"
      BY <1>3, <1>4, <2>1, <2>3 DEF ApplyWrite
    <2>4. QED
      BY <2>2, <2>3
  <1>5. ApplyWrite \/ UNCHANGED edges
    BY DEF Next, Ingest, BeginRetrieve, BeginDeduplication, MergePair, PassPair, BeginRepair,
           RepairPair, SkipPair, BeginAbstraction, Summarise, BeginDecay, BeginRollback, FinishRun,
           FinishCall, CopyWrite, Tick, Crash, BeginRun, Begin, stores, vars
  <1>6. QED
    BY <1>3, <1>4, <1>5

\* StoredInv is inductive: what a call read stays stored, and it never queues an
\* edge before both ends of it.
THEOREM StoredInvariant == Spec => []StoredInv
  <1>1. Init => StoredInv
    BY InitType DEF Init, StoredInv, ReadAreStored, LinksFollowMemories, NoDanglingEdges, NoRecords
  <1>2. StoredInv /\ [Next]_vars => StoredInv'
    BY TypeStep, ReadStep, LinksStep, EdgesStep DEF StoredInv
  <1>3. QED
    BY <1>1, <1>2, PTL DEF Spec

\* Every live edge joins two stored memories at every instant: whatever order runs
\* and rollbacks come in, and wherever between two writes the process dies.
THEOREM EdgesNeverDangle == Spec => []NoDanglingEdges
  <1>1. StoredInv => NoDanglingEdges
    BY DEF StoredInv
  <1>2. QED
    BY <1>1, StoredInvariant, PTL

-----------------------------------------------------------------------------
(***************************************************************************)
(* Supersession runs forward in time: the records of a memory, wherever a  *)
(* call, a diff or a store keeps a copy of them, never say otherwise.      *)
(* Faithful records stay faithful when more memories are stored.           *)
(***************************************************************************)
LEMMA SequenceOfSuperset ==
    ASSUME NEW S, NEW T, S \subseteq T, NEW s \in Seq(S)
    PROVE  s \in Seq(T)
  <1>1. Len(s) \in Nat /\ s \in [1 .. Len(s) -> S]
    BY LenProperties
  <1>2. s \in [1 .. Len(s) -> T]
    BY <1>1
  <1>3. QED
    BY <1>1, <1>2, FunctionIsSequence

LEMMA FaithfulGrows ==
    ASSUME NEW S, NEW T, S \subseteq T
    PROVE  /\ \A i : Faithful(i, S) \subseteq Faithful(i, T)
           /\ FaithfulCopies(S) \subseteq FaithfulCopies(T)
           /\ Seq(FaithfulWrites(S)) \subseteq Seq(FaithfulWrites(T))
           /\ Seq(FaithfulChanges(S)) \subseteq Seq(FaithfulChanges(T))
           /\ Seq(FaithfulDiffs(S)) \subseteq Seq(FaithfulDiffs(T))
  <1>1. \A i : Faithful(i, S) \subseteq Faithful(i, T)
    BY DEF Faithful
  <1>2. FaithfulCopies(S) \subseteq FaithfulCopies(T)
    BY <1>1 DEF FaithfulCopies
  <1>3. FaithfulWrites(S) \subseteq FaithfulWrites(T)
    BY <1>1 DEF FaithfulWrites
  <1>4. FaithfulChanges(S) \subseteq FaithfulChanges(T)
    BY <1>1 DEF FaithfulChanges
  <1>5. Seq(FaithfulChanges(S)) \subseteq Seq(FaithfulChanges(T))
    BY <1>4, SequenceOfSuperset
  <1>6. FaithfulDiffs(S) \subseteq FaithfulDiffs(T)
    BY <1>5 DEF FaithfulDiffs
  <1>7. QED
    BY <1>1, <1>2, <1>3, <1>5, <1>6, SequenceOfSuperset

-----------------------------------------------------------------------------
(***************************************************************************)
(* Every record the strategies compute is faithful.                        *)
(***************************************************************************)
LEMMA FaithfulUpdates ==
    ASSUME NEW S, S \subseteq Ids, NEW i \in Ids, NEW r \in Faithful(i, S),
           NEW q \in Memory, NEW j \in Ids
    PROVE  /\ Accessed(r) \in Faithful(i, S)
           /\ Archived(r) \in Faithful(i, S)
           /\ FromSnapshot(r) \in Faithful(i, S)
           /\ CanonicalAfter(r, q, j) \in Faithful(i, S)
           /\ DuplicateAfter(r, j) \in Faithful(i, S)
           /\ NewerAfter(r, j) \in Faithful(i, S)
           /\ j \in S /\ Forward(i, j) => OlderAfter(r, j) \in Faithful(i, S)
  <1>1. r \in Memory /\ r.observed = ObservedOf(i)
        /\ r.supersededBy \in {Null} \union {k \in S : Forward(i, k)}
    BY DEF Faithful
  <1>2. ASSUME NEW x \in Memory, x.observed = r.observed, x.supersededBy = r.supersededBy
        PROVE  x \in Faithful(i, S)
    BY <1>1, <1>2 DEF Faithful
  <1> DEFINE Same(x) == x.observed = r.observed /\ x.supersededBy = r.supersededBy
  <1>3. /\ Same(Accessed(r))
        /\ Same(Archived(r))
        /\ Same(FromSnapshot(r))
        /\ Same(CanonicalAfter(r, q, j))
        /\ Same(DuplicateAfter(r, j))
        /\ Same(NewerAfter(r, j))
    <2>1. Same(Accessed(r))
      BY <1>1 DEF Accessed, Memory
    <2>2. Same(Archived(r))
      BY <1>1 DEF Archived, Memory
    <2>3. Same(FromSnapshot(r))
      BY <1>1 DEF FromSnapshot, Memory
    <2>4. Same(CanonicalAfter(r, q, j))
      BY <1>1 DEF CanonicalAfter, Memory
    <2>5. Same(DuplicateAfter(r, j))
      BY <1>1 DEF DuplicateAfter, Memory
    <2>6. Same(NewerAfter(r, j))
      BY <1>1 DEF NewerAfter, Memory
    <2>7. QED
      BY <2>1, <2>2, <2>3, <2>4, <2>5, <2>6
  <1>4. /\ Accessed(r) \in Memory /\ Archived(r) \in Memory /\ FromSnapshot(r) \in Memory
        /\ CanonicalAfter(r, q, j) \in Memory /\ DuplicateAfter(r, j) \in Memory
        /\ NewerAfter(r, j) \in Memory
    BY <1>1, MemoryUpdates
  <1>5. ASSUME j \in S, Forward(i, j) PROVE OlderAfter(r, j) \in Faithful(i, S)
    <2>1. OlderAfter(r, j) \in Memory
      BY <1>1, MemoryUpdates
    <2>2. OlderAfter(r, j).observed = r.observed /\ OlderAfter(r, j).supersededBy = j
      BY <1>1, Zenon DEF OlderAfter, Memory
    <2>3. QED
      BY <1>1, <1>5, <2>1, <2>2 DEF Faithful
  <1>6. QED
    BY <1>2, <1>3, <1>4, <1>5, Zenon

LEMMA FreshFaithful ==
    ASSUME NEW S, NEW i \in Atoms
    PROVE  FreshMemory(i) \in Faithful(i, S)
  <1>1. FreshMemory(i).observed = ObservedOf(i) /\ FreshMemory(i).supersededBy = Null
    BY DEF FreshMemory, ObservedOf
  <1>2. QED
    BY <1>1, FreshMemoryType DEF Faithful

LEMMA ObservedOfSummary ==
    ASSUME NEW t \in Topics, NEW at \in Time
    PROVE  ObservedOf(SummaryId[<<t, at>>]) = at
  <1> DEFINE s == SummaryId[<<t, at>>]
  <1>1. s \in Summaries /\ s \notin Atoms
    BY ConstantsAssumption DEF Summaries
  <1>2. \A x \in Time : (\E u \in Topics : SummaryId[<<u, x>>] = s) => x = at
    <2>1. ASSUME NEW x \in Time, NEW u \in Topics, SummaryId[<<u, x>>] = s PROVE x = at
      <3>1. <<u, x>> = <<t, at>>
        BY <2>1, ConstantsAssumption
      <3>2. QED
        BY <3>1
    <2>2. QED
      BY <2>1
  <1>3. \E u \in Topics : SummaryId[<<u, at>>] = s
    OBVIOUS
  <1> HIDE DEF s
  <1>4. (CHOOSE x \in Time : \E u \in Topics : SummaryId[<<u, x>>] = s) = at
    BY <1>2, <1>3
  <1>5. ObservedOf(s) = at
    BY <1>1, <1>4 DEF ObservedOf
  <1>6. QED
    BY <1>5 DEF s

LEMMA SummaryFaithful ==
    ASSUME NEW S, NEW t \in Topics, NEW at \in Time, NEW q \in Memory, NEW r \in Memory
    PROVE  SummaryOf(q, r, at) \in Faithful(SummaryId[<<t, at>>], S)
  <1>1. SummaryOf(q, r, at).observed = at /\ SummaryOf(q, r, at).supersededBy = Null
    BY DEF SummaryOf
  <1>2. QED
    BY <1>1, SummaryType, ObservedOfSummary DEF Faithful

-----------------------------------------------------------------------------
(***************************************************************************)
(* Faithful writes, changes and diffs.                                     *)
(***************************************************************************)
LEMMA FaithfulWriteTypes ==
    ASSUME NEW S
    PROVE  /\ \A i \in Ids, g, x \in BOOLEAN : \A r \in Faithful(i, S) :
                  Put(i, r, g, x) \in FaithfulWrites(S)
           /\ \A e \in Edges : Link(e) \in FaithfulWrites(S) /\ Unlink(e) \in FaithfulWrites(S)
           /\ \A i \in Ids : \A b \in {Null} \union Faithful(i, S), a \in Faithful(i, S) :
                  Change(i, b, a) \in FaithfulChanges(S)
  <1>1. \A i : Faithful(i, S) \subseteq Memory /\ {Null} \union Faithful(i, S) \subseteq MemoryOrNull
    BY DEF Faithful, MemoryOrNull
  <1>2. ASSUME NEW i \in Ids, NEW g \in BOOLEAN, NEW x \in BOOLEAN, NEW r \in Faithful(i, S)
        PROVE  Put(i, r, g, x) \in FaithfulWrites(S)
    <2>1. Put(i, r, g, x) \in Writes
      BY <1>1, WriteTypes
    <2>2. Put(i, r, g, x).rec = r /\ Put(i, r, g, x).id = i
      BY DEF Put
    <2>3. QED
      BY <2>1, <2>2 DEF FaithfulWrites
  <1>3. \A e \in Edges : Link(e) \in FaithfulWrites(S) /\ Unlink(e) \in FaithfulWrites(S)
    BY WriteTypes DEF Link, Unlink, FaithfulWrites
  <1>4. ASSUME NEW i \in Ids, NEW b \in {Null} \union Faithful(i, S), NEW a \in Faithful(i, S)
        PROVE  Change(i, b, a) \in FaithfulChanges(S)
    <2>1. Change(i, b, a) \in Changes
      BY <1>1, WriteTypes
    <2>2. Change(i, b, a).id = i /\ Change(i, b, a).before = b /\ Change(i, b, a).after = a
      BY DEF Change
    <2>3. QED
      BY <2>1, <2>2 DEF FaithfulChanges
  <1>5. QED
    BY <1>2, <1>3, <1>4

LEMMA UndoChangeFaithful ==
    ASSUME NEW S, S \subseteq Ids, NEW c \in FaithfulChanges(S)
    PROVE  UndoChange(c) \in FaithfulWrites(S)
  <1>1. c.id \in Ids /\ c.before \in {Null} \union Faithful(c.id, S) /\ c.after \in Faithful(c.id, S)
        /\ c.before \in MemoryOrNull /\ c.after \in Memory
    BY DEF FaithfulChanges, Changes
  <1>2. CASE c.before = Null
    <2>1. FromSnapshot(c.after) \in Faithful(c.id, S)
      BY <1>1, FaithfulUpdates
    <2>2. /\ Archived(c.after) \in Faithful(c.id, S)
          /\ Archived(FromSnapshot(c.after)) \in Faithful(c.id, S)
      BY <1>1, <2>1, FaithfulUpdates
    <2>3. QED
      BY <1>1, <1>2, <2>2, FaithfulWriteTypes DEF UndoChange
  <1>3. CASE c.before # Null
    <2>1. c.before \in Memory /\ c.before \in Faithful(c.id, S)
      BY <1>1, <1>3, NotNull
    <2>2. FromSnapshot(c.before) \in Faithful(c.id, S)
      BY <1>1, <2>1, FaithfulUpdates
    <2>3. c.after.archived \in BOOLEAN /\ c.before.archived \in BOOLEAN
      BY <1>1, <2>1 DEF Memory
    <2>4. QED
      BY <1>1, <1>3, <2>1, <2>2, <2>3, FaithfulWriteTypes, BoundsAssumption DEF UndoChange
  <1>4. QED
    BY <1>2, <1>3

LEMMA UndoWritesFaithful ==
    ASSUME NEW S, S \subseteq Ids, NEW d \in FaithfulDiffs(S)
    PROVE  UndoWrites(d) \in Seq(FaithfulWrites(S))
  <1>1. d.links \in Seq(Edges) /\ d.changes \in Seq(FaithfulChanges(S))
    BY DEF FaithfulDiffs, Diffs
  <1> DEFINE u == Reverse(d.links)
             r == Reverse(d.changes)
  <1>2. u \in Seq(Edges) /\ Len(u) \in Nat /\ \A k \in 1 .. Len(u) : u[k] \in Edges
    BY <1>1, ReverseType, LenProperties, ElementOfSeq
  <1>3. /\ r \in Seq(FaithfulChanges(S)) /\ Len(r) \in Nat
        /\ \A k \in 1 .. Len(r) : r[k] \in FaithfulChanges(S)
    BY <1>1, ReverseType, LenProperties, ElementOfSeq
  <1> HIDE DEF u, r
  <1>4. [k \in 1 .. Len(u) |-> Unlink(u[k])] \in Seq(FaithfulWrites(S))
    <2>1. [k \in 1 .. Len(u) |-> Unlink(u[k])] \in [1 .. Len(u) -> FaithfulWrites(S)]
      BY <1>2, FaithfulWriteTypes
    <2>2. QED
      BY <1>2, <2>1, FunctionIsSequence
  <1>5. [k \in 1 .. Len(r) |-> UndoChange(r[k])] \in Seq(FaithfulWrites(S))
    <2>1. [k \in 1 .. Len(r) |-> UndoChange(r[k])] \in [1 .. Len(r) -> FaithfulWrites(S)]
      BY <1>3, UndoChangeFaithful
    <2>2. QED
      BY <1>3, <2>1, FunctionIsSequence
  <1>6. QED
    BY <1>4, <1>5, ConcatProperties DEF UndoWrites, u, r

LEMMA SummaryWritesFaithful ==
    ASSUME NEW S, NEW s \in Ids, NEW rec \in Faithful(s, S), NEW added \in Seq(Edges)
    PROVE  SummaryWrites(s, rec, added) \in Seq(FaithfulWrites(S))
  <1> DEFINE linked == [k \in 1 .. Len(added) |-> Link(added[k])]
  <1>1. Len(added) \in Nat /\ \A k \in 1 .. Len(added) : added[k] \in Edges
    BY LenProperties, ElementOfSeq
  <1>2. linked \in [1 .. Len(added) -> FaithfulWrites(S)]
    BY <1>1, FaithfulWriteTypes
  <1>3. linked \in Seq(FaithfulWrites(S))
    BY <1>1, <1>2, FunctionIsSequence
  <1>4. <<Put(s, rec, TRUE, FALSE)>> \in Seq(FaithfulWrites(S))
    <2>1. Put(s, rec, TRUE, FALSE) \in FaithfulWrites(S)
      BY FaithfulWriteTypes
    <2>2. \A w \in FaithfulWrites(S) : <<w>> \in Seq(FaithfulWrites(S))
      OBVIOUS
    <2>3. QED
      BY <2>1, <2>2, Zenon
  <1>5. QED
    BY <1>3, <1>4, ConcatProperties DEF SummaryWrites

-----------------------------------------------------------------------------
(***************************************************************************)
(* RecordsFaithful is inductive.                                           *)
(***************************************************************************)
LEMMA FaithfulNextStep ==
    ASSUME NEW S, S = Stored',
           {mem', gmem', snap'} \subseteq FaithfulCopies(S),
           todo' \in Seq(FaithfulWrites(S)),
           changes' \in Seq(FaithfulChanges(S)),
           log' \in Seq(FaithfulDiffs(S)),
           op' = "contradiction_repair" => \A p \in work' : Forward(p[1], p[2])
    PROVE  RecordsFaithful'
  BY DEF RecordsFaithful

LEMMA RepairPairsForward ==
    ASSUME NEW S, TypeOK, mem \in FaithfulCopies(S), NEW i \in Active, NEW j \in Active, Earlier(i, j)
    PROVE  Forward(i, j)
  <1>1. i \in Ids /\ j \in Ids /\ mem[i] # Null /\ mem[j] # Null
    BY DEF Active, IsActive
  <1>2. mem[i] \in Faithful(i, S) /\ mem[j] \in Faithful(j, S)
    BY <1>1 DEF FaithfulCopies
  <1>3. mem[i].observed = ObservedOf(i) /\ mem[j].observed = ObservedOf(j)
    BY <1>2 DEF Faithful
  <1>4. QED
    BY <1>3 DEF Earlier, Forward

LEMMA FaithfulStep == StoredInv /\ RecordsFaithful /\ [Next]_vars => RecordsFaithful'
  <1> SUFFICES ASSUME StoredInv, RecordsFaithful, [Next]_vars PROVE RecordsFaithful'
    OBVIOUS
  <1>1. PICK S : S = Stored'
    OBVIOUS
  <1>2. TypeOK /\ ReadAreStored
    BY DEF StoredInv
  <1>3. Stored \subseteq S /\ S \subseteq Ids
    BY <1>1, <1>2, StoredForever DEF Stored
  <1>4. /\ {mem, gmem, snap} \subseteq FaithfulCopies(S)
        /\ todo \in Seq(FaithfulWrites(S))
        /\ changes \in Seq(FaithfulChanges(S))
        /\ log \in Seq(FaithfulDiffs(S))
    BY <1>3, FaithfulGrows DEF RecordsFaithful
  <1>5. \A f \in FaithfulCopies(S), i \in Ids : f[i] # Null => f[i] \in Faithful(i, S)
    BY DEF FaithfulCopies
  <1>6. \A i : Faithful(i, S) \subseteq Memory
    BY DEF Faithful
  <1>7. \A f \in FaithfulCopies(S), i \in Ids : \A r \in Faithful(i, S) :
            [f EXCEPT ![i] = r] \in FaithfulCopies(S)
    BY <1>6 DEF FaithfulCopies, Snapshots, MemoryOrNull
  <1>8. ActiveSnapshot \in FaithfulCopies(S)
    BY <1>2, <1>4, ActiveType DEF FaithfulCopies, ActiveSnapshot
  <1>9. NoRecords \in FaithfulCopies(S)
    BY DEF NoRecords, FaithfulCopies, Snapshots, MemoryOrNull
  <1>10. /\ <<>> \in Seq(FaithfulWrites(S)) /\ <<>> \in Seq(FaithfulChanges(S))
         /\ <<>> \in Seq(FaithfulDiffs(S))
    BY EmptySeq
  <1>11. ASSUME NEW i \in Atoms, Ingest(i) PROVE RecordsFaithful'
    <2>1. i \in Ids /\ FreshMemory(i) \in Faithful(i, S)
      BY FreshFaithful DEF Ids
    <2>2. mem' \in FaithfulCopies(S) /\ gmem' \in FaithfulCopies(S)
      BY <1>4, <1>7, <1>11, <2>1 DEF Ingest
    <2>3. UNCHANGED <<snap, todo, changes, log, op, work>>
      BY <1>11 DEF Ingest, call
    <2>4. QED
      BY <1>1, <1>4, <2>2, <2>3, FaithfulNextStep DEF RecordsFaithful
  <1>12. ASSUME NEW selected \in SUBSET Selectable, NEW viaGraph \in SUBSET selected,
                BeginRetrieve(selected, viaGraph)
         PROVE  RecordsFaithful'
    <2>1. PICK order \in SetToSeqs(selected) :
            todo' = [k \in 1 .. Len(order) |->
                        Put(order[k], Accessed(Candidate(order[k], viaGraph)), FALSE, FALSE)]
      BY <1>12 DEF BeginRetrieve
    <2>2. selected \subseteq Ids /\ IsFiniteSet(selected)
      BY FiniteSubset DEF Selectable
    <2>3. Len(order) \in Nat /\ \A k \in 1 .. Len(order) : order[k] \in selected
      BY <2>2, OrderingType
    <2>4. \A i \in selected : Candidate(i, viaGraph) # Null
      BY <1>12 DEF BeginRetrieve, IsActive
    <2>5. \A i \in selected : Candidate(i, viaGraph) \in Faithful(i, S)
      BY <1>4, <1>5, <2>2, <2>4 DEF Candidate, GraphCopy
    <2>6. \A i \in selected : Accessed(Candidate(i, viaGraph)) \in Faithful(i, S)
      <3>1. ASSUME NEW i \in selected PROVE Accessed(Candidate(i, viaGraph)) \in Faithful(i, S)
        <4>1. i \in Ids /\ Candidate(i, viaGraph) \in Faithful(i, S) /\ Candidate(i, viaGraph) \in Memory
          BY <1>6, <2>2, <2>5
        <4>2. QED
          BY <1>3, <4>1, FaithfulUpdates
      <3>2. QED
        BY <3>1
    <2>7. \A i \in selected :
            Put(i, Accessed(Candidate(i, viaGraph)), FALSE, FALSE) \in FaithfulWrites(S)
      BY <2>2, <2>6, FaithfulWriteTypes
    <2>8. todo' \in [1 .. Len(order) -> FaithfulWrites(S)]
      BY <2>1, <2>3, <2>7
    <2>9. todo' \in Seq(FaithfulWrites(S))
      BY <2>3, <2>8, FunctionIsSequence
    <2>10. UNCHANGED <<mem, gmem, changes, log>> /\ snap' = ActiveSnapshot /\ op' = "retrieve"
      BY <1>12 DEF BeginRetrieve, Begin, stores
    <2>11. QED
      BY <1>1, <1>4, <1>8, <2>9, <2>10, FaithfulNextStep
  <1>13. CASE BeginDeduplication \/ BeginRepair \/ BeginAbstraction
    <2>1. /\ UNCHANGED <<mem, gmem, todo, changes, log>> /\ snap' = ActiveSnapshot
          /\ \/ op' # "contradiction_repair"
             \/ work' \subseteq {p \in Active \X Active : Earlier(p[1], p[2])}
      BY <1>13 DEF BeginDeduplication, BeginRepair, BeginAbstraction, BeginRun, Begin, stores
    <2>2. op' = "contradiction_repair" => \A p \in work' : Forward(p[1], p[2])
      BY <1>2, <1>4, <2>1, RepairPairsForward
    <2>3. QED
      BY <1>1, <1>4, <1>8, <2>1, <2>2, FaithfulNextStep
  <1>14. CASE MergePair
    <2>1. PICK c, d \in Ids : IsActive(snap[c]) /\ IsActive(snap[d]) /\ Merge(c, d)
      BY <1>14 DEF MergePair, Mergeable
    <2> DEFINE canonical == CanonicalAfter(snap[c], snap[d], d)
               duplicate == DuplicateAfter(snap[d], c)
    <2>2. snap[c] \in Faithful(c, S) /\ snap[d] \in Faithful(d, S) /\ snap[d] \in Memory
      BY <1>4, <1>5, <1>6, <2>1 DEF IsActive
    <2>3. canonical \in Faithful(c, S) /\ duplicate \in Faithful(d, S)
      BY <1>3, <2>2, FaithfulUpdates
    <2>4. /\ Put(c, canonical, TRUE, FALSE) \in FaithfulWrites(S)
          /\ Put(d, duplicate, TRUE, FALSE) \in FaithfulWrites(S)
          /\ Link(SameAs(d, c)) \in FaithfulWrites(S)
          /\ Link(DerivedFrom(c, d)) \in FaithfulWrites(S)
          /\ Change(c, snap[c], canonical) \in FaithfulChanges(S)
          /\ Change(d, snap[d], duplicate) \in FaithfulChanges(S)
      BY <2>2, <2>3, FaithfulWriteTypes, WriteTypes
    <2>5. /\ todo' = <<Put(c, canonical, TRUE, FALSE), Put(d, duplicate, TRUE, FALSE),
                       Link(SameAs(d, c)), Link(DerivedFrom(c, d))>>
          /\ changes' = changes \o <<Change(c, snap[c], canonical), Change(d, snap[d], duplicate)>>
          /\ snap' = [[snap EXCEPT ![c] = canonical] EXCEPT ![d] = duplicate]
      BY <2>1 DEF Merge
    <2> HIDE DEF canonical, duplicate
    <2>6. todo' \in Seq(FaithfulWrites(S))
      BY <2>4, <2>5, ListSequences, Zenon
    <2>7. changes' \in Seq(FaithfulChanges(S))
      <3>1. <<Change(c, snap[c], canonical), Change(d, snap[d], duplicate)>> \in Seq(FaithfulChanges(S))
        BY <2>4, ListSequences, Zenon
      <3>2. QED
        BY <1>4, <2>5, <3>1, ConcatProperties
    <2>8. snap' \in FaithfulCopies(S)
      <3>1. [snap EXCEPT ![c] = canonical] \in FaithfulCopies(S)
        BY <1>4, <1>7, <2>3
      <3>2. QED
        BY <1>7, <2>3, <2>5, <3>1
    <2>9. UNCHANGED <<mem, gmem, log>> /\ op' = "deduplication"
      BY <1>14 DEF MergePair, Examine, stores
    <2>10. QED
      BY <1>1, <1>4, <2>6, <2>7, <2>8, <2>9, FaithfulNextStep
  <1>15. CASE PassPair \/ SkipPair
    <2>1. UNCHANGED <<mem, gmem, snap, todo, changes, log, op>> /\ work' \subseteq work
      BY <1>15 DEF PassPair, SkipPair, stores
    <2>2. QED
      BY <1>1, <1>4, <2>1, FaithfulNextStep DEF RecordsFaithful
  <1>16. CASE RepairPair
    <2>1. PICK p \in Ids \X Ids : p \in work /\ work' = work \ {p} /\ Repair(p[1], p[2])
      BY <1>16 DEF RepairPair, IsFirst
    <2> DEFINE o     == p[1]
               n     == p[2]
               older == OlderAfter(mem[o], n)
               newer == NewerAfter(snap[n], o)
    <2>2. /\ op = "contradiction_repair" /\ op' = "contradiction_repair"
          /\ UNCHANGED <<mem, gmem, snap, log>>
      BY <1>16 DEF RepairPair, Examine, stores
    <2>3. mem[o] # Null /\ snap[n] # Null /\ mem[n] # Null /\ Forward(o, n)
      BY <1>2, <2>1, <2>2 DEF ReadAreStored, RecordsFaithful
    <2>4. mem[o] \in Faithful(o, S) /\ snap[n] \in Faithful(n, S) /\ n \in S
      BY <1>3, <1>4, <1>5, <2>3 DEF Stored
    <2>5. older \in Faithful(o, S) /\ newer \in Faithful(n, S)
      BY <1>3, <1>6, <2>3, <2>4, FaithfulUpdates
    <2>6. /\ Put(o, older, TRUE, FALSE) \in FaithfulWrites(S)
          /\ Put(n, newer, TRUE, FALSE) \in FaithfulWrites(S)
          /\ Link(Contradicts(o, n)) \in FaithfulWrites(S)
          /\ Change(o, mem[o], older) \in FaithfulChanges(S)
          /\ Change(n, snap[n], newer) \in FaithfulChanges(S)
      BY <2>4, <2>5, FaithfulWriteTypes, WriteTypes
    <2>7. /\ todo' = <<Put(o, older, TRUE, FALSE), Put(n, newer, TRUE, FALSE),
                       Link(Contradicts(o, n))>>
          /\ changes' = changes \o <<Change(o, mem[o], older), Change(n, snap[n], newer)>>
      BY <2>1 DEF Repair, FreshOlder
    <2> HIDE DEF o, n, older, newer
    <2>8. todo' \in Seq(FaithfulWrites(S))
      BY <2>6, <2>7, ListSequences, Zenon
    <2>9. changes' \in Seq(FaithfulChanges(S))
      <3>1. <<Change(o, mem[o], older), Change(n, snap[n], newer)>> \in Seq(FaithfulChanges(S))
        BY <2>6, ListSequences, Zenon
      <3>2. QED
        BY <1>4, <2>7, <3>1, ConcatProperties
    <2>10. QED
      BY <1>1, <1>4, <2>1, <2>2, <2>8, <2>9, FaithfulNextStep DEF RecordsFaithful
  <1>17. ASSUME NEW t \in Topics, Summarise(t) PROVE RecordsFaithful'
    <2> DEFINE members == Members(t, snap)
               s       == SummaryId[<<t, now>>]
    <2>1. PICK order \in Ascending(members), low \in members, high \in members :
            LET rec   == SummaryOf(snap[low], snap[high], now)
                added == [k \in 1 .. Len(order) |-> Summarizes(s, order[k])]
            IN /\ todo' = SummaryWrites(s, rec, added)
               /\ changes' = Append(changes, Change(s, Null, rec))
      BY <1>17 DEF Summarise
    <2> DEFINE rec   == SummaryOf(snap[low], snap[high], now)
               added == [k \in 1 .. Len(order) |-> Summarizes(s, order[k])]
    <2>2. members \subseteq Ids /\ IsFiniteSet(members) /\ order \in SetToSeqs(members)
      BY FiniteSubset DEF Members, Ascending
    <2>3. \A m \in members : snap[m] \in Memory
      BY <1>2 DEF TypeOK, Snapshots, Members, IsActive, MemoryOrNull
    <2>4. now \in Time /\ s \in Ids
      BY <1>2, SummaryIdType DEF TypeOK
    <2>5. rec \in Faithful(s, S)
      BY <2>3, <2>4, SummaryFaithful
    <2>6. rec \in Memory
      BY <1>6, <2>5
    <2>7. added \in Seq(Edges)
      BY <2>2, <2>4, <2>6, LinkSequences
    <2>8. todo' = SummaryWrites(s, rec, added) /\ changes' = Append(changes, Change(s, Null, rec))
      BY <2>1
    <2> HIDE DEF rec, added, s, members
    <2>9. todo' \in Seq(FaithfulWrites(S))
      BY <2>4, <2>5, <2>7, <2>8, SummaryWritesFaithful
    <2>10. changes' \in Seq(FaithfulChanges(S))
      <3>1. Change(s, Null, rec) \in FaithfulChanges(S)
        BY <2>4, <2>5, FaithfulWriteTypes
      <3>2. QED
        BY <1>4, <2>8, <3>1, AppendProperties
    <2>11. UNCHANGED <<mem, gmem, snap, log>> /\ op' = "abstraction"
      BY <1>17 DEF Summarise, Examine, stores
    <2>12. QED
      BY <1>1, <1>4, <2>9, <2>10, <2>11, FaithfulNextStep
  <1>18. CASE BeginDecay
    <2>1. PICK order \in Ascending(Expired) :
            /\ todo' = [k \in 1 .. Len(order) |->
                           Put(order[k], Archived(mem[order[k]]), TRUE, FALSE)]
            /\ changes' = [k \in 1 .. Len(order) |->
                              Change(order[k], mem[order[k]], Archived(mem[order[k]]))]
      BY <1>18 DEF BeginDecay
    <2>2. Expired \subseteq Active /\ Expired \subseteq Ids /\ IsFiniteSet(Expired)
      BY <1>2, ActiveType, FiniteSubset DEF Expired
    <2>3. order \in SetToSeqs(Expired)
      BY DEF Ascending
    <2>4. Len(order) \in Nat /\ \A k \in 1 .. Len(order) : order[k] \in Expired
      BY <2>2, <2>3, OrderingType
    <2>5. \A i \in Expired : i \in Ids /\ mem[i] \in Faithful(i, S) /\ mem[i] \in Memory
      BY <1>4, <1>5, <1>6, <2>2 DEF Active, IsActive
    <2>6. \A i \in Expired : Archived(mem[i]) \in Faithful(i, S)
      BY <1>3, <2>5, FaithfulUpdates
    <2>7. \A i \in Expired : /\ Put(i, Archived(mem[i]), TRUE, FALSE) \in FaithfulWrites(S)
                             /\ Change(i, mem[i], Archived(mem[i])) \in FaithfulChanges(S)
      BY <2>5, <2>6, FaithfulWriteTypes
    <2>8. /\ todo' \in [1 .. Len(order) -> FaithfulWrites(S)]
          /\ changes' \in [1 .. Len(order) -> FaithfulChanges(S)]
      BY <2>1, <2>4, <2>7
    <2>9. todo' \in Seq(FaithfulWrites(S)) /\ changes' \in Seq(FaithfulChanges(S))
      BY <2>4, <2>8, FunctionIsSequence
    <2>10. UNCHANGED <<mem, gmem, log>> /\ snap' = ActiveSnapshot /\ op' = "decay_archival"
      BY <1>18 DEF BeginDecay, Begin, stores
    <2>11. QED
      BY <1>1, <1>4, <1>8, <2>9, <2>10, FaithfulNextStep
  <1>19. ASSUME NEW k \in DOMAIN log, BeginRollback(k) PROVE RecordsFaithful'
    <2>1. log[k] \in FaithfulDiffs(S)
      BY <1>4, ElementOfSeq, LenProperties
    <2>2. RemoveAt(log, k) \in Seq(FaithfulDiffs(S))
      BY <1>4, RemoveAtType
    <2>3. UndoWrites(log[k]) \in Seq(FaithfulWrites(S))
      BY <1>3, <2>1, UndoWritesFaithful
    <2>4. /\ UNCHANGED <<mem, gmem, snap, changes>> /\ op' = "rollback"
          /\ todo' = UndoWrites(log[k]) /\ log' = RemoveAt(log, k)
      BY <1>19 DEF BeginRollback, stores
    <2>5. QED
      BY <1>1, <1>4, <2>2, <2>3, <2>4, FaithfulNextStep
  <1>20. CASE ApplyWrite
    <2> DEFINE w == Head(todo)
    <2>1. w \in FaithfulWrites(S) /\ todo' \in Seq(FaithfulWrites(S))
      BY <1>4, <1>20, HeadTailProperties DEF ApplyWrite
    <2>2. w.type = "memory" => w.id \in Ids /\ w.rec \in Faithful(w.id, S)
      BY <2>1 DEF FaithfulWrites, Writes
    <2> HIDE DEF w
    <2>3. /\ (w.type = "memory" /\ mem' = [mem EXCEPT ![w.id] = w.rec]) \/ UNCHANGED mem
          /\ UNCHANGED gmem
      BY <1>20 DEF ApplyWrite, w
    <2>4. mem' \in FaithfulCopies(S) /\ gmem' \in FaithfulCopies(S)
      BY <1>4, <1>7, <2>2, <2>3
    <2>5. UNCHANGED <<snap, changes, log, op, work>>
      BY <1>20 DEF ApplyWrite
    <2>6. QED
      BY <1>1, <1>4, <2>1, <2>4, <2>5, FaithfulNextStep DEF RecordsFaithful
  <1>21. CASE FinishRun
    <2>1. [changes |-> changes, links |-> links, base |-> base] \in FaithfulDiffs(S)
      BY <1>2, <1>4 DEF TypeOK, Diffs, FaithfulDiffs
    <2>2. log' \in Seq(FaithfulDiffs(S))
      BY <1>4, <1>21, <2>1, AppendProperties DEF FinishRun
    <2>3. UNCHANGED <<mem, gmem>> /\ Return
      BY <1>21 DEF FinishRun
    <2>4. QED
      BY <1>1, <1>4, <1>9, <1>10, <2>2, <2>3, FaithfulNextStep DEF Return
  <1>22. CASE FinishCall \/ Crash
    <2>1. UNCHANGED <<mem, gmem>> /\ Return /\ (log' = log \/ log' = <<>>)
      BY <1>22 DEF FinishCall, Crash, stores
    <2>2. QED
      BY <1>1, <1>4, <1>9, <1>10, <2>1, FaithfulNextStep DEF Return
  <1>23. CASE Tick \/ UNCHANGED vars
    <2>1. UNCHANGED <<mem, gmem, snap, todo, changes, log, op, work>>
      BY <1>23 DEF Tick, vars, stores, call
    <2>2. QED
      BY <1>1, <1>4, <2>1, FaithfulNextStep DEF RecordsFaithful
  <1>24. CASE CopyWrite
    <2>1. /\ gmem' = [gmem EXCEPT ![copying] = mem[copying]]
          /\ UNCHANGED <<mem, snap, todo, changes, log, op, work>>
      BY <1>24 DEF CopyWrite, call
    <2>2. gmem' \in FaithfulCopies(S)
      BY <1>4, <2>1 DEF FaithfulCopies, Snapshots
    <2>3. QED
      BY <1>1, <1>4, <2>1, <2>2, FaithfulNextStep DEF RecordsFaithful
  <1>25. QED
    BY <1>11, <1>12, <1>13, <1>14, <1>15, <1>16, <1>17, <1>18, <1>19, <1>20, <1>21, <1>22, <1>23,
       <1>24 DEF Next

-----------------------------------------------------------------------------
LEMMA FaithfulInit == Init => RecordsFaithful
  <1> SUFFICES ASSUME Init PROVE RecordsFaithful
    OBVIOUS
  <1>1. NoRecords \in FaithfulCopies(Stored)
    BY DEF NoRecords, FaithfulCopies, Snapshots, MemoryOrNull
  <1>2. QED
    BY <1>1, EmptySeq DEF Init, RecordsFaithful

\* Every copy of a record that a store, a call or a diff holds says when its memory
\* was observed, and is superseded at most by something later that is stored: a
\* rollback or a write-back, from whatever copy, cannot bring in another record.
THEOREM RecordsStayFaithful == Spec => []RecordsFaithful
  <1>1. Init => StoredInv /\ RecordsFaithful
    BY FaithfulInit, InitType
       DEF Init, StoredInv, ReadAreStored, LinksFollowMemories, NoDanglingEdges, NoRecords
  <1>2. StoredInv /\ RecordsFaithful /\ [Next]_vars => StoredInv' /\ RecordsFaithful'
    BY FaithfulStep, TypeStep, ReadStep, LinksStep, EdgesStep DEF StoredInv
  <1>3. QED
    BY <1>1, <1>2, PTL DEF Spec

\* superseded_by only ever names a stored memory observed later, or listed later
\* when both were observed together: across repairs, rollbacks of any diff in any
\* order, retrievals that write a copy back, and crashes between two writes.
THEOREM SupersessionRunsForward == Spec => []SupersessionForward
  <1>1. RecordsFaithful => SupersessionForward
    <2> SUFFICES ASSUME RecordsFaithful, NEW i \in Ids, mem[i] # Null, mem[i].supersededBy # Null
                 PROVE  mem[mem[i].supersededBy] # Null /\ Earlier(i, mem[i].supersededBy)
      BY DEF SupersessionForward
    <2> DEFINE j == mem[i].supersededBy
    <2>1. mem[i] \in Faithful(i, Stored)
      BY DEF RecordsFaithful, FaithfulCopies
    <2>2. j \in Stored /\ Forward(i, j) /\ mem[i].observed = ObservedOf(i)
      BY <2>1 DEF Faithful
    <2>3. j \in Ids /\ mem[j] # Null
      BY <2>2 DEF Stored
    <2>4. mem[j].observed = ObservedOf(j)
      BY <2>3 DEF RecordsFaithful, FaithfulCopies, Faithful
    <2>5. QED
      BY <2>2, <2>3, <2>4 DEF Earlier, Forward
  <1>2. QED
    BY <1>1, RecordsStayFaithful, PTL
=============================================================================
