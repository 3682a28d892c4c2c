---------------------------- MODULE Rollback_proofs ----------------------------
(***************************************************************************)
(* What a run records, and so what its rollback brings back: the vector    *)
(* index, the three records of a merge and the trust that contradictions   *)
(* have cost, for any memories, relations and numbers of runs, in a        *)
(* process that rolls back its newest diff only.                           *)
(***************************************************************************)
EXTENDS Merging_proofs

-----------------------------------------------------------------------------
(***************************************************************************)
(* What the stores come to once the writes queued have been applied.       *)
(***************************************************************************)
Awaits(q, k, i) == q[k].type = "memory" /\ q[k].id = i

\* The last write of i in queue q wins; without one i stays as it is in store s.
ComesTo(s, q, i, r) ==
    \/ r = s[i] /\ \A k \in DOMAIN q : ~Awaits(q, k, i)
    \/ \E k \in DOMAIN q : /\ Awaits(q, k, i) /\ r = q[k].rec
                           /\ \A j \in DOMAIN q : j > k => ~Awaits(q, j, i)

Outcomes == {m \in Snapshots : \A i \in Ids : ComesTo(mem, todo, i, m[i])}

EdgesDue(es, q) ==
    {e \in es : \A k \in DOMAIN q : q[k] # Unlink(e)}
      \cup {e \in Edges : \E k \in DOMAIN q : q[k] = Link(e)}

DueEdges == EdgesDue(edges, todo)

-----------------------------------------------------------------------------
(***************************************************************************)
(* The invariant of a process that rolls back its newest diff only, is not *)
(* the command line, and leaves no copy of a graph store behind when it    *)
(* dies.                                                                   *)
(***************************************************************************)
Tame == ~AnyOrder /\ ~CommandLine /\ (SharedStore \/ MaxCrashes = 0)

\* Only rollbacks index memories again; a repair writes its edges last, a rollback
\* removes its edges first.
QueueIsShaped ==
    /\ op # "rollback" => \A k \in DOMAIN todo : todo[k].type = "memory" => ~todo[k].reindex
    /\ op = "contradiction_repair" => \A j, k \in DOMAIN todo :
          j < k /\ todo[k].type = "memory" => todo[j].type = "memory"
    /\ op = "rollback" => \A j, k \in DOMAIN todo :
          j < k /\ todo[j].type = "memory" => todo[k].type = "memory"

\* No atom appears during a run or a retrieval.
NothingNew ==
    op \in Strategies \cup {"retrieve"} => \A i \in Atoms : base.mem[i] = Null =>
        mem[i] = Null /\ \A k \in DOMAIN todo : ~Awaits(todo, k, i)

\* What a repair has read is what it began with, and existing_edges is that and
\* what it has added.
RepairReads ==
    op = "contradiction_repair" =>
        /\ \A i \in Ids : snap[i] # Null => snap[i] = base.mem[i]
        /\ \A p \in work : p[1] # p[2]
        /\ known = base.edges \cup ToSet(links)

\* No change of a list is of memory i, or change n is the first of it.
NoChange(list, i) == \A n \in DOMAIN list : list[n].id # i
FirstChange(list, i, n) ==
    list[n].id = i /\ \A j \in DOMAIN list : j < n => list[j].id # i
Archives(c) == c.before # Null /\ ~c.before.archived /\ c.after.archived

\* Record r of atom i is what record b was, but for accesses; or i was not stored,
\* and has at most been ingested since.
Kept(b, i, r) ==
    IF b = Null THEN r = Null \/ SameButAccess(r, FreshMemory(i))
    ELSE r # Null /\ SameButAccess(r, b)

\* Record r of atom i is what the changes of a run have made of b: each has found it
\* stored, the first of them found b, which was active, and one archives r if it is
\* archived now.
Made(b, list, i, r) ==
    \/ NoChange(list, i) /\ Kept(b, i, r)
    \/ /\ IsActive(b) /\ r # Null
       /\ \E n \in DOMAIN list :
             /\ FirstChange(list, i, n)
             /\ list[n].before # Null /\ SameButAccess(list[n].before, b)
       /\ \A n \in DOMAIN list : list[n].id = i => list[n].before # Null
       /\ r.archived <=> (\E n \in DOMAIN list : list[n].id = i /\ Archives(list[n]))

\* A run comes to what its changes make of the stores it found, and a rollback to
\* what the run undone had found.
RunsAreRecorded ==
    /\ op \in Strategies => \A m \in Outcomes : \A i \in Atoms :
          Made(base.mem[i], changes, i, m[i])
    /\ op \in {"rollback", "retrieve"} => \A m \in Outcomes : \A i \in Atoms :
          Kept(base.mem[i], i, m[i])

\* The stores a diff has left: as they are, or as the call in progress found them.
Found == IF op = "idle" THEN [mem |-> mem, edges |-> edges] ELSE base

\* Each run found what the changes of the one before it had made.
MadeBy(d, f) == \A i \in Atoms : Made(d.base.mem[i], d.changes, i, f.mem[i])
DiffsAreRecorded ==
    /\ \A k \in DOMAIN log : k + 1 \in DOMAIN log => MadeBy(log[k], log[k + 1].base)
    /\ log # <<>> => MadeBy(log[Len(log)], Found)

\* A queue is its first write and those after it.
LEMMA QueueSplits ==
    ASSUME NEW S, NEW q \in Seq(S), q # <<>>
    PROVE  \A j \in DOMAIN q : j = 1 \/ (/\ j - 1 \in DOMAIN Tail(q) /\ Tail(q)[j - 1] = q[j]
                                         /\ j - 1 \in Nat)
  <1>1. /\ Len(q) \in Nat /\ DOMAIN q = 1 .. Len(q) /\ DOMAIN Tail(q) = 1 .. Len(q) - 1
        /\ \A k \in DOMAIN Tail(q) : k + 1 \in DOMAIN q /\ Tail(q)[k] = q[k + 1]
    BY QueueShifts, Zenon
  <1>2. ASSUME NEW j \in DOMAIN q, j # 1 PROVE j - 1 \in 1 .. Len(q) - 1 /\ j - 1 + 1 = j /\ j - 1 \in Nat
    <2>1. \A l \in Nat, n \in Nat : n \in 1 .. l /\ n # 1 => n - 1 \in 1 .. l - 1 /\ n - 1 + 1 = n /\ n - 1 \in Nat
      OBVIOUS
    <2>2. j \in 1 .. Len(q) /\ j \in Nat
      BY <1>1
    <2>3. QED
      BY <1>1, <1>2, <2>1, <2>2, Zenon
  <1>3. ASSUME NEW j \in DOMAIN q, j # 1
        PROVE  j - 1 \in DOMAIN Tail(q) /\ Tail(q)[j - 1] = q[j] /\ j - 1 \in Nat
    <2>1. j - 1 \in DOMAIN Tail(q) /\ j - 1 + 1 = j /\ j - 1 \in Nat
      BY <1>1, <1>2, <1>3, Zenon
    <2>2. Tail(q)[j - 1] = q[j - 1 + 1]
      BY <1>1, <2>1, Zenon
    <2>3. QED
      BY <2>1, <2>2
  <1>4. QED
    BY <1>3

\* Between calls, and whenever the queue is empty, the stores have come to what
\* they come to.
LEMMA OutcomeOfNothing ==
    ASSUME TypeOK, todo = <<>>
    PROVE  Outcomes = {mem} /\ DueEdges = edges
  <1>1. \A k : k \notin DOMAIN todo
    OBVIOUS
  <1>2. mem \in Snapshots
    BY DEF TypeOK
  <1>3. mem \in Outcomes
    BY <1>1, <1>2 DEF Outcomes, ComesTo
  <1>4. ASSUME NEW m \in Outcomes PROVE m = mem
    <2>1. m \in Snapshots /\ \A i \in Ids : m[i] = mem[i]
      BY <1>1 DEF Outcomes, ComesTo
    <2>2. QED
      BY <1>2, <2>1 DEF Snapshots
  <1>5. DueEdges = edges
    BY <1>1 DEF DueEdges, EdgesDue
  <1>6. QED
    BY <1>3, <1>4, <1>5

\* Applying a write does not change what the stores come to.
LEMMA OutcomeStays ==
    ASSUME TypeOK, WritesOfOthers, ApplyWrite
    PROVE  Outcomes' \subseteq Outcomes /\ DueEdges' = DueEdges
  <1>1. /\ todo # <<>> /\ todo \in Seq(Writes) /\ todo' = Tail(todo)
        /\ \/ /\ todo[1].type = "memory"
              /\ \A i \in Ids : mem'[i] = IF i = todo[1].id THEN todo[1].rec ELSE mem[i]
              /\ edges' = edges
           \/ /\ todo[1].type = "link" /\ edges' = edges \cup {todo[1].edge} /\ mem' = mem
           \/ /\ todo[1].type = "unlink" /\ edges' = edges \ {todo[1].edge} /\ mem' = mem
    BY ApplyCases
  <1>2. /\ 1 \in DOMAIN todo
        /\ \A k \in DOMAIN todo' : k + 1 \in DOMAIN todo /\ todo'[k] = todo[k + 1] /\ k \in Nat
        /\ \A j \in DOMAIN todo : j \in Nat /\ j >= 1
    <2>1. /\ Len(todo) \in Nat /\ DOMAIN todo = 1 .. Len(todo) /\ 1 \in DOMAIN todo
          /\ DOMAIN Tail(todo) = 1 .. Len(todo) - 1
          /\ \A k \in DOMAIN Tail(todo) : k + 1 \in DOMAIN todo /\ Tail(todo)[k] = todo[k + 1]
      <3>1. todo # <<>> /\ todo \in Seq(Writes)
        BY <1>1
      <3>2. QED
        BY <3>1, QueueShifts, Zenon
    <2>2. QED
      BY <1>1, <2>1
  <1>3. \A j \in DOMAIN todo : j = 1 \/ (/\ j - 1 \in DOMAIN todo' /\ todo'[j - 1] = todo[j]
                                         /\ j - 1 \in Nat)
    BY <1>1, QueueSplits, Zenon
  <1>4. ASSUME NEW i \in Ids, NEW r, ComesTo(mem', todo', i, r) PROVE ComesTo(mem, todo, i, r)
    <2>1. CASE r = mem'[i] /\ \A k \in DOMAIN todo' : ~Awaits(todo', k, i)
      <3>1. \A j \in DOMAIN todo : j # 1 => ~Awaits(todo, j, i)
        BY <1>3, <2>1 DEF Awaits
      <3>2. CASE Awaits(todo, 1, i)
        <4>1. r = todo[1].rec
          BY <1>1, <2>1, <3>2 DEF Awaits
        <4>2. \A j \in DOMAIN todo : j > 1 => ~Awaits(todo, j, i)
          BY <1>2, <3>1
        <4>3. QED
          BY <1>2, <3>2, <4>1, <4>2 DEF ComesTo
      <3>3. CASE ~Awaits(todo, 1, i)
        <4>1. r = mem[i]
          BY <1>1, <2>1, <3>3 DEF Awaits
        <4>2. \A j \in DOMAIN todo : ~Awaits(todo, j, i)
          BY <3>1, <3>3
        <4>3. QED
          BY <4>1, <4>2 DEF ComesTo
      <3>4. QED
        BY <3>2, <3>3
    <2>2. CASE \E k \in DOMAIN todo' : /\ Awaits(todo', k, i) /\ r = todo'[k].rec
                                       /\ \A j \in DOMAIN todo' : j > k => ~Awaits(todo', j, i)
      <3>1. PICK k \in DOMAIN todo' : /\ Awaits(todo', k, i) /\ r = todo'[k].rec
                                      /\ \A j \in DOMAIN todo' : j > k => ~Awaits(todo', j, i)
        BY <2>2
      <3>2. k + 1 \in DOMAIN todo /\ Awaits(todo, k + 1, i) /\ r = todo[k + 1].rec /\ k \in Nat
        BY <1>2, <3>1 DEF Awaits
      <3>3. ASSUME NEW j \in DOMAIN todo, j > k + 1 PROVE ~Awaits(todo, j, i)
        <4>1. j # 1
          BY <1>2, <3>2, <3>3
        <4>2. j - 1 \in DOMAIN todo' /\ todo'[j - 1] = todo[j] /\ j - 1 \in Nat
          BY <1>3, <4>1
        <4>3. j - 1 > k
          BY <1>2, <3>2, <3>3
        <4>4. ~Awaits(todo', j - 1, i)
          BY <3>1, <4>2, <4>3
        <4>5. QED
          BY <4>2, <4>4 DEF Awaits
      <3>4. QED
        BY <3>2, <3>3 DEF ComesTo
    <2>3. QED
      BY <1>4, <2>1, <2>2 DEF ComesTo
  <1>5. Outcomes' \subseteq Outcomes
    BY <1>4 DEF Outcomes
  <1>6. /\ \A k \in DOMAIN todo : todo[k] \in Writes
        /\ \A k \in DOMAIN todo : todo[k].type = "link" => todo[k].edge \in Edges /\ todo[k] = Link(todo[k].edge)
        /\ \A k \in DOMAIN todo : todo[k].type = "unlink" => todo[k] = Unlink(todo[k].edge)
    <2>1. \A k \in DOMAIN todo : todo[k] \in Writes /\ (todo[k].type # "memory" => todo[k].edge \in Edges)
      BY TypedState
    <2>2. \A w \in Writes : /\ w.type = "link" => w = Link(w.edge)
                            /\ w.type = "unlink" => w = Unlink(w.edge)
      BY DEF Writes, Link, Unlink
    <2>3. QED
      BY <2>1, <2>2
  <1>7. /\ op = "rollback" => \A k \in DOMAIN todo : todo[k].type # "link"
        /\ op # "rollback" => \A k \in DOMAIN todo : todo[k].type # "unlink"
    BY DEF WritesOfOthers
  <1>8. ASSUME NEW e PROVE e \in DueEdges' <=> e \in DueEdges
    <2>1. e \in DueEdges <=> \/ e \in edges /\ \A k \in DOMAIN todo : todo[k] # Unlink(e)
                             \/ e \in Edges /\ \E k \in DOMAIN todo : todo[k] = Link(e)
      BY DEF DueEdges, EdgesDue
    <2>2. e \in DueEdges' <=> \/ e \in edges' /\ \A k \in DOMAIN todo' : todo'[k] # Unlink(e)
                              \/ e \in Edges /\ \E k \in DOMAIN todo' : todo'[k] = Link(e)
      BY DEF DueEdges, EdgesDue
    <2>3. (\E k \in DOMAIN todo' : todo'[k] = Link(e)) => \E k \in DOMAIN todo : todo[k] = Link(e)
      BY <1>2
    <2>4. (\E k \in DOMAIN todo : todo[k] = Link(e)) =>
             todo[1] = Link(e) \/ \E k \in DOMAIN todo' : todo'[k] = Link(e)
      BY <1>3
    <2>5. (\A k \in DOMAIN todo : todo[k] # Unlink(e)) <=>
             todo[1] # Unlink(e) /\ \A k \in DOMAIN todo' : todo'[k] # Unlink(e)
      BY <1>2, <1>3
    <2>6. /\ \A f : Link(f).type = "link" /\ Link(f).edge = f
          /\ \A f : Unlink(f).type = "unlink" /\ Unlink(f).edge = f
      BY WriteFields
    <2>7. CASE todo[1].type = "memory"
      BY <1>1, <2>1, <2>2, <2>3, <2>4, <2>5, <2>6, <2>7
    <2>8. CASE todo[1].type = "link"
      <3>1. op # "rollback" /\ \A k \in DOMAIN todo : todo[k] # Unlink(e)
        BY <1>2, <1>7, <2>6, <2>8
      <3>2. \A k \in DOMAIN todo' : todo'[k] # Unlink(e)
        BY <2>5, <3>1
      <3>3. edges' = edges \cup {todo[1].edge} /\ todo[1].edge \in Edges /\ todo[1] = Link(todo[1].edge)
        BY <1>1, <1>2, <1>6, <2>8
      <3>4. todo[1] = Link(e) <=> e = todo[1].edge
        BY <2>6, <3>3
      <3>5. QED
        BY <1>2, <2>1, <2>2, <2>3, <2>4, <3>1, <3>2, <3>3, <3>4
    <2>9. CASE todo[1].type = "unlink"
      <3>1. \A k \in DOMAIN todo : todo[k] # Link(e)
        BY <1>2, <1>7, <2>6, <2>9
      <3>2. \A k \in DOMAIN todo' : todo'[k] # Link(e)
        BY <2>3, <3>1
      <3>3. edges' = edges \ {todo[1].edge} /\ todo[1] = Unlink(todo[1].edge)
        BY <1>1, <1>2, <1>6, <2>9
      <3>4. todo[1] = Unlink(e) <=> e = todo[1].edge
        BY <2>6, <3>3
      <3>5. QED
        BY <2>1, <2>2, <2>5, <3>1, <3>2, <3>3, <3>4
    <2>10. QED
      BY <1>1, <2>7, <2>8, <2>9
  <1>9. QED
    BY <1>5, <1>8

-----------------------------------------------------------------------------
(***************************************************************************)
(* What the stores come to by each call.                                   *)
(***************************************************************************)
\* A memory that no write awaits stays, and one that a last write awaits becomes
\* what that write says.
LEMMA LastWriteWins ==
    ASSUME NEW s, NEW q, NEW i, NEW r, ComesTo(s, q, i, r)
    PROVE  /\ (\A k \in DOMAIN q : ~Awaits(q, k, i)) => r = s[i]
           /\ \A k \in DOMAIN q :
                 Awaits(q, k, i) /\ (\A j \in DOMAIN q : j # k => ~Awaits(q, j, i)) => r = q[k].rec
           /\ DOMAIN q \subseteq Nat =>
                 \A k \in DOMAIN q :
                    Awaits(q, k, i) /\ (\A j \in DOMAIN q : j > k => ~Awaits(q, j, i))
                    => r = q[k].rec
  <1>1. (\A k \in DOMAIN q : ~Awaits(q, k, i)) => r = s[i]
    BY DEF ComesTo
  <1>2. ASSUME NEW k \in DOMAIN q, Awaits(q, k, i), \A j \in DOMAIN q : j # k => ~Awaits(q, j, i)
        PROVE  r = q[k].rec
    BY <1>2 DEF ComesTo
  <1>3. ASSUME DOMAIN q \subseteq Nat, NEW k \in DOMAIN q, Awaits(q, k, i),
               \A j \in DOMAIN q : j > k => ~Awaits(q, j, i)
        PROVE  r = q[k].rec
    <2>1. PICK l \in DOMAIN q : /\ Awaits(q, l, i) /\ r = q[l].rec
                                /\ \A j \in DOMAIN q : j > l => ~Awaits(q, j, i)
      BY <1>3 DEF ComesTo
    <2>2. ~(l > k) /\ ~(k > l)
      BY <1>3, <2>1
    <2>3. l = k
      BY <1>3, <2>2
    <2>4. QED
      BY <2>1, <2>3
  <1>4. QED
    BY <1>1, <1>2, <1>3

\* The outcomes are stores, in which each memory is what it comes to.
LEMMA OutcomeTypes ==
    ASSUME NEW m \in Outcomes
    PROVE  /\ m \in Snapshots
           /\ \A i \in Ids : ComesTo(mem, todo, i, m[i]) /\ (m[i] # Null => m[i] \in Memory)
  BY DEF Outcomes, Snapshots, MemoryOrNull

\* A merge comes to the canonical memory, the archived duplicate and two edges.
LEMMA MergeOutcome ==
    ASSUME TypeOK, DeduplicationIsCurrent, MergePair
    PROVE  \E c, d \in Ids, canonical, duplicate \in Memory :
              /\ c # d /\ IsActive(mem[c]) /\ IsActive(mem[d])
              /\ canonical = CanonicalAfter(mem[c], mem[d], d) /\ duplicate = DuplicateAfter(mem[d], c)
              /\ todo' = <<Put(c, canonical, TRUE, FALSE), Put(d, duplicate, TRUE, FALSE),
                           Link(SameAs(d, c)), Link(DerivedFrom(c, d))>>
              /\ changes' = changes \o <<Change(c, mem[c], canonical), Change(d, mem[d], duplicate)>>
              /\ links' = links \o <<SameAs(d, c), DerivedFrom(c, d)>>
              /\ \A m \in Outcomes' :
                    /\ m[c] = canonical /\ m[d] = duplicate
                    /\ \A i \in Ids : i # c /\ i # d => m[i] = mem[i]
              /\ DueEdges' = edges \cup {SameAs(d, c), DerivedFrom(c, d)}
  <1>1. /\ op = "deduplication" /\ todo = <<>> /\ UNCHANGED <<mem, edges>>
        /\ \E c, d \in Ids :
              /\ c # d /\ IsActive(snap[c]) /\ IsActive(snap[d])
              /\ snap'[c] = CanonicalAfter(snap[c], snap[d], d)
              /\ snap'[d] = DuplicateAfter(snap[d], c)
              /\ todo' = <<Put(c, snap'[c], TRUE, FALSE), Put(d, snap'[d], TRUE, FALSE),
                           Link(SameAs(d, c)), Link(DerivedFrom(c, d))>>
              /\ changes' = changes \o <<Change(c, snap[c], snap'[c]), Change(d, snap[d], snap'[d])>>
              /\ links' = links \o <<SameAs(d, c), DerivedFrom(c, d)>>
    BY MergeCases
  <1>2. PICK c \in Ids, d \in Ids :
              /\ c # d /\ IsActive(snap[c]) /\ IsActive(snap[d])
              /\ snap'[c] = CanonicalAfter(snap[c], snap[d], d)
              /\ snap'[d] = DuplicateAfter(snap[d], c)
              /\ todo' = <<Put(c, snap'[c], TRUE, FALSE), Put(d, snap'[d], TRUE, FALSE),
                           Link(SameAs(d, c)), Link(DerivedFrom(c, d))>>
              /\ changes' = changes \o <<Change(c, snap[c], snap'[c]), Change(d, snap[d], snap'[d])>>
              /\ links' = links \o <<SameAs(d, c), DerivedFrom(c, d)>>
    BY <1>1
  <1>3. CurrentBut({})
    BY <1>1, ListElements DEF DeduplicationIsCurrent, Merging
  <1>4. mem[c] = snap[c] /\ mem[d] = snap[d] /\ mem[c] \in Memory /\ mem[d] \in Memory
    BY <1>2, <1>3, TypedState DEF CurrentBut, IsActive
  <1> DEFINE canonical == snap'[c]
             duplicate == snap'[d]
  <1>5. /\ canonical = CanonicalAfter(mem[c], mem[d], d) /\ duplicate = DuplicateAfter(mem[d], c)
        /\ canonical \in Memory /\ duplicate \in Memory
    <2>1. /\ snap'[c] = CanonicalAfter(mem[c], mem[d], d)
          /\ snap'[d] = DuplicateAfter(mem[d], c)
      BY <1>2, <1>4
    <2>2. CanonicalAfter(mem[c], mem[d], d) \in Memory /\ DuplicateAfter(mem[d], c) \in Memory
      BY <1>4, MemoryUpdates
    <2>3. QED
      BY <2>1, <2>2
  <1> HIDE DEF canonical, duplicate
  <1>6. /\ todo' = <<Put(c, canonical, TRUE, FALSE), Put(d, duplicate, TRUE, FALSE),
                     Link(SameAs(d, c)), Link(DerivedFrom(c, d))>>
        /\ changes' = changes \o <<Change(c, mem[c], canonical), Change(d, mem[d], duplicate)>>
        /\ links' = links \o <<SameAs(d, c), DerivedFrom(c, d)>>
        /\ c # d /\ IsActive(mem[c]) /\ IsActive(mem[d])
    BY <1>2, <1>4 DEF canonical, duplicate
  <1>7. /\ DOMAIN todo' = 1 .. 4 /\ todo'[1] = Put(c, canonical, TRUE, FALSE)
        /\ todo'[2] = Put(d, duplicate, TRUE, FALSE)
        /\ todo'[3] = Link(SameAs(d, c)) /\ todo'[4] = Link(DerivedFrom(c, d))
    BY <1>6, ListElements
  <1>8. /\ \A i : Awaits(todo', 1, i) <=> i = c
        /\ \A i : Awaits(todo', 2, i) <=> i = d
        /\ \A i : ~Awaits(todo', 3, i) /\ ~Awaits(todo', 4, i)
        /\ todo'[1].rec = canonical /\ todo'[2].rec = duplicate
        /\ 1 \in DOMAIN todo' /\ 2 \in DOMAIN todo'
        /\ \A k \in DOMAIN todo' : k = 1 \/ k = 2 \/ k = 3 \/ k = 4
    <2>1. /\ todo'[1].type = "memory" /\ todo'[1].id = c /\ todo'[1].rec = canonical
          /\ todo'[2].type = "memory" /\ todo'[2].id = d /\ todo'[2].rec = duplicate
          /\ todo'[3].type = "link" /\ todo'[4].type = "link"
      BY <1>7 DEF Put, Link
    <2>2. 1 \in 1 .. 4 /\ 2 \in 1 .. 4 /\ \A k \in 1 .. 4 : k = 1 \/ k = 2 \/ k = 3 \/ k = 4
      OBVIOUS
    <2>3. QED
      BY <1>7, <2>1, <2>2 DEF Awaits
  <1>9. ASSUME NEW m \in Outcomes'
        PROVE  /\ m[c] = canonical /\ m[d] = duplicate
               /\ \A i \in Ids : i # c /\ i # d => m[i] = mem[i]
    <2>1. \A i \in Ids : ComesTo(mem, todo', i, m[i])
      BY <1>1, <1>9 DEF Outcomes
    <2>2. m[c] = canonical
      <3>1. \A j \in DOMAIN todo' : j # 1 => ~Awaits(todo', j, c)
        BY <1>6, <1>8
      <3>2. ComesTo(mem, todo', c, m[c]) /\ Awaits(todo', 1, c)
        BY <1>8, <2>1
      <3>3. m[c] = todo'[1].rec
        BY <1>8, <3>1, <3>2, LastWriteWins
      <3>4. QED
        BY <1>8, <3>3
    <2>3. m[d] = duplicate
      <3>1. \A j \in DOMAIN todo' : j # 2 => ~Awaits(todo', j, d)
        BY <1>6, <1>8
      <3>2. ComesTo(mem, todo', d, m[d]) /\ Awaits(todo', 2, d)
        BY <1>8, <2>1
      <3>3. m[d] = todo'[2].rec
        BY <1>8, <3>1, <3>2, LastWriteWins
      <3>4. QED
        BY <1>8, <3>3
    <2>4. ASSUME NEW i \in Ids, i # c, i # d PROVE m[i] = mem[i]
      <3>1. \A k \in DOMAIN todo' : ~Awaits(todo', k, i)
        BY <1>8, <2>4
      <3>2. QED
        BY <2>1, <3>1, LastWriteWins
    <2>5. QED
      BY <2>2, <2>3, <2>4
  <1>10. DueEdges' = edges \cup {SameAs(d, c), DerivedFrom(c, d)}
    <2>1. \A k \in DOMAIN todo' : \A e : todo'[k] # Unlink(e)
      BY <1>7, <1>8 DEF Put, Link, Unlink
    <2>2. \A e : (\E k \in DOMAIN todo' : todo'[k] = Link(e)) <=> e \in {SameAs(d, c), DerivedFrom(c, d)}
      <3>1. \A e : todo'[1] # Link(e) /\ todo'[2] # Link(e)
        BY <1>7 DEF Put, Link
      <3>2. \A e, f : Link(e) = Link(f) => e = f
        BY WriteFields
      <3>3. 3 \in DOMAIN todo' /\ 4 \in DOMAIN todo'
        BY <1>7
      <3>4. QED
        BY <1>7, <1>8, <3>1, <3>2, <3>3
    <2>3. SameAs(d, c) \in Edges /\ DerivedFrom(c, d) \in Edges
      BY DEF SameAs, DerivedFrom, Edges, EdgeKinds
    <2>4. QED
      BY <1>1, <2>1, <2>2, <2>3 DEF DueEdges, EdgesDue
  <1>11. QED
    BY <1>5, <1>6, <1>9, <1>10

\* A repair comes to the two records and the edge between them.
LEMMA RepairOutcome ==
    ASSUME TypeOK, ReadAreStored, RepairIsCurrent, RepairPair,
           op = "contradiction_repair" => \A p \in work : p[1] # p[2]
    PROVE  \E o, n \in Ids, older, newer \in Memory :
              /\ o # n /\ IsActive(mem[o]) /\ IsActive(mem[n])
              /\ snap[o] # Null /\ IsActive(snap[n]) /\ snap[n] \in Memory
              /\ IsFirst(<<o, n>>, ObservedOrder) /\ Contradicts(o, n) \notin known
              /\ work' = work \ {<<o, n>>} /\ known' = known \cup {Contradicts(o, n)}
              /\ older = OlderAfter(mem[o], n) /\ newer = NewerAfter(snap[n], o)
              /\ IsActive(older) /\ IsActive(newer)
              /\ todo' = <<Put(o, older, TRUE, FALSE), Put(n, newer, TRUE, FALSE),
                           Link(Contradicts(o, n))>>
              /\ changes' = changes \o <<Change(o, mem[o], older), Change(n, snap[n], newer)>>
              /\ links' = Append(links, Contradicts(o, n))
              /\ \A m \in Outcomes' :
                    /\ m[o] = older /\ m[n] = newer
                    /\ \A i \in Ids : i # o /\ i # n => m[i] = mem[i]
              /\ DueEdges' = edges \cup {Contradicts(o, n)}
  <1>1. /\ op = "contradiction_repair" /\ todo = <<>>
        /\ UNCHANGED <<mem, gmem, edges, op, snap, base, log>>
    BY DEF RepairPair, Examine, stores
  <1>2. PICK p \in Ids \X Ids : /\ IsFirst(p, ObservedOrder) /\ NeedsRepair(p)
                                /\ work' = work \ {p} /\ Repair(p[1], p[2])
    BY DEF RepairPair
  <1> DEFINE o == p[1]
             n == p[2]
             older == OlderAfter(mem[o], n)
             newer == NewerAfter(snap[n], o)
  <1>3. /\ o \in Ids /\ n \in Ids /\ snap[o] # Null /\ snap[n] # Null /\ p = <<o, n>> /\ o # n
        /\ Contradicts(o, n) \notin known
    <2>1. p \in work
      BY <1>2 DEF IsFirst
    <2>2. QED
      BY <1>1, <1>2, <2>1 DEF ReadAreStored, NeedsRepair
  <1>4. IsActive(mem[o]) /\ IsActive(mem[n]) /\ IsActive(snap[n])
    BY <1>1, <1>3 DEF RepairIsCurrent
  <1>5. mem[o] \in Memory /\ snap[n] \in Memory
    BY <1>3, <1>4, TypedState DEF IsActive
  <1>6. older \in Memory /\ newer \in Memory
    BY <1>3, <1>5, MemoryUpdates
  <1>7. IsActive(older) /\ IsActive(newer)
    <2>1. older.archived = mem[o].archived /\ newer.archived = snap[n].archived
      BY <1>5 DEF OlderAfter, NewerAfter, Memory
    <2>2. QED
      BY <1>4, <1>6, <2>1, ConstantsAssumption DEF IsActive
  <1>8. /\ todo' = <<Put(o, older, TRUE, FALSE), Put(n, newer, TRUE, FALSE), Link(Contradicts(o, n))>>
        /\ changes' = changes \o <<Change(o, mem[o], older), Change(n, snap[n], newer)>>
        /\ links' = Append(links, Contradicts(o, n))
        /\ known' = known \cup {Contradicts(o, n)}
    BY <1>2 DEF Repair, FreshOlder
  <1>9. older = OlderAfter(mem[o], n) /\ newer = NewerAfter(snap[n], o)
    OBVIOUS
  <1>10. IsFirst(<<o, n>>, ObservedOrder) /\ work' = work \ {<<o, n>>}
    BY <1>2, <1>3
  <1> HIDE DEF o, n, older, newer
  <1>11. /\ DOMAIN todo' = 1 .. 3 /\ todo'[1] = Put(o, older, TRUE, FALSE)
         /\ todo'[2] = Put(n, newer, TRUE, FALSE) /\ todo'[3] = Link(Contradicts(o, n))
    BY <1>8, ListElements
  <1>12. /\ \A i : Awaits(todo', 1, i) <=> i = o
         /\ \A i : Awaits(todo', 2, i) <=> i = n
         /\ \A i : ~Awaits(todo', 3, i)
         /\ todo'[1].rec = older /\ todo'[2].rec = newer
         /\ 1 \in DOMAIN todo' /\ 2 \in DOMAIN todo' /\ 3 \in DOMAIN todo'
         /\ \A k \in DOMAIN todo' : k = 1 \/ k = 2 \/ k = 3
    <2>1. /\ todo'[1].type = "memory" /\ todo'[1].id = o /\ todo'[1].rec = older
          /\ todo'[2].type = "memory" /\ todo'[2].id = n /\ todo'[2].rec = newer
          /\ todo'[3].type = "link"
      BY <1>11 DEF Put, Link
    <2>2. 1 \in 1 .. 3 /\ 2 \in 1 .. 3 /\ 3 \in 1 .. 3 /\ \A k \in 1 .. 3 : k = 1 \/ k = 2 \/ k = 3
      OBVIOUS
    <2>3. QED
      BY <1>11, <2>1, <2>2 DEF Awaits
  <1>13. ASSUME NEW m \in Outcomes'
         PROVE  /\ m[o] = older /\ m[n] = newer
                /\ \A i \in Ids : i # o /\ i # n => m[i] = mem[i]
    <2>1. \A i \in Ids : ComesTo(mem, todo', i, m[i])
      BY <1>1, <1>13 DEF Outcomes
    <2>2. m[o] = older
      <3>1. \A j \in DOMAIN todo' : j # 1 => ~Awaits(todo', j, o)
        BY <1>3, <1>12
      <3>2. ComesTo(mem, todo', o, m[o]) /\ Awaits(todo', 1, o)
        BY <1>3, <1>12, <2>1
      <3>3. m[o] = todo'[1].rec
        BY <1>12, <3>1, <3>2, LastWriteWins
      <3>4. QED
        BY <1>12, <3>3
    <2>3. m[n] = newer
      <3>1. \A j \in DOMAIN todo' : j # 2 => ~Awaits(todo', j, n)
        BY <1>3, <1>12
      <3>2. ComesTo(mem, todo', n, m[n]) /\ Awaits(todo', 2, n)
        BY <1>3, <1>12, <2>1
      <3>3. m[n] = todo'[2].rec
        BY <1>12, <3>1, <3>2, LastWriteWins
      <3>4. QED
        BY <1>12, <3>3
    <2>4. ASSUME NEW i \in Ids, i # o, i # n PROVE m[i] = mem[i]
      <3>1. \A k \in DOMAIN todo' : ~Awaits(todo', k, i)
        BY <1>12, <2>4
      <3>2. QED
        BY <2>1, <3>1, LastWriteWins
    <2>5. QED
      BY <2>2, <2>3, <2>4
  <1>14. DueEdges' = edges \cup {Contradicts(o, n)}
    <2>1. \A k \in DOMAIN todo' : \A e : todo'[k] # Unlink(e)
      BY <1>11, <1>12 DEF Put, Link, Unlink
    <2>2. \A e : (\E k \in DOMAIN todo' : todo'[k] = Link(e)) <=> e = Contradicts(o, n)
      <3>1. \A e : todo'[1] # Link(e) /\ todo'[2] # Link(e)
        BY <1>11 DEF Put, Link
      <3>2. \A e, f : Link(e) = Link(f) => e = f
        BY WriteFields
      <3>3. QED
        BY <1>11, <1>12, <3>1, <3>2
    <2>3. Contradicts(o, n) \in Edges
      BY <1>3 DEF Contradicts, Edges, EdgeKinds
    <2>4. QED
      BY <1>1, <2>1, <2>2, <2>3 DEF DueEdges, EdgesDue
  <1> DEFINE Queues(c, d, r, s) ==
        /\ c # d /\ IsActive(mem[c]) /\ IsActive(mem[d])
        /\ snap[c] # Null /\ IsActive(snap[d]) /\ snap[d] \in Memory
        /\ IsFirst(<<c, d>>, ObservedOrder) /\ Contradicts(c, d) \notin known
        /\ work' = work \ {<<c, d>>} /\ known' = known \cup {Contradicts(c, d)}
        /\ r = OlderAfter(mem[c], d) /\ s = NewerAfter(snap[d], c)
        /\ IsActive(r) /\ IsActive(s)
        /\ todo' = <<Put(c, r, TRUE, FALSE), Put(d, s, TRUE, FALSE),
                     Link(Contradicts(c, d))>>
        /\ changes' = changes \o <<Change(c, mem[c], r), Change(d, snap[d], s)>>
        /\ links' = Append(links, Contradicts(c, d))
        /\ \A m \in Outcomes' :
              /\ m[c] = r /\ m[d] = s
              /\ \A i \in Ids : i # c /\ i # d => m[i] = mem[i]
        /\ DueEdges' = edges \cup {Contradicts(c, d)}
  <1>15. Queues(o, n, older, newer)
    BY <1>3, <1>4, <1>5, <1>7, <1>8, <1>9, <1>10, <1>13, <1>14
  <1> HIDE DEF Queues
  <1>16. \E c, d \in Ids, r, s \in Memory : Queues(c, d, r, s)
    BY <1>3, <1>6, <1>15
  <1>17. QED
    BY <1>16 DEF Queues

\* An abstraction leaves the atoms alone, and every edge but those of its summary.
LEMMA SummaryOutcome ==
    ASSUME TypeOK, NEW t \in Topics, Summarise(t)
    PROVE  /\ \A m \in Outcomes' : \A i \in Atoms : m[i] = mem[i]
           /\ \A e : e[1] # "summarizes" => (e \in DueEdges' <=> e \in edges)
           /\ \E s \in Summaries, rec \in Memory, added \in Seq(Edges) :
                 /\ changes' = Append(changes, Change(s, Null, rec))
                 /\ links' = links \o added
                 /\ \A n \in DOMAIN added : added[n][1] = "summarizes"
  <1>1. /\ todo = <<>> /\ UNCHANGED <<mem, edges>>
        /\ \E s \in Summaries, rec \in Memory, added \in Seq(Edges) :
                 /\ \A n \in DOMAIN added : added[n][1] = "summarizes"
                 /\ \A k \in DOMAIN todo' :
                       \/ todo'[k] = Put(s, rec, TRUE, FALSE)
                       \/ \E n \in DOMAIN added : todo'[k] = Link(added[n])
                 /\ changes' = Append(changes, Change(s, Null, rec))
                 /\ links' = links \o added
    BY SummaryCases
  <1>2. PICK s \in Summaries, rec \in Memory, added \in Seq(Edges) :
                 /\ \A n \in DOMAIN added : added[n][1] = "summarizes"
                 /\ \A k \in DOMAIN todo' :
                       \/ todo'[k] = Put(s, rec, TRUE, FALSE)
                       \/ \E n \in DOMAIN added : todo'[k] = Link(added[n])
                 /\ changes' = Append(changes, Change(s, Null, rec))
                 /\ links' = links \o added
    BY <1>1
  <1>3. ASSUME NEW m \in Outcomes', NEW i \in Atoms PROVE m[i] = mem[i]
    <2>1. i \in Ids /\ i # s
      BY ConstantsAssumption DEF Ids
    <2>2. ComesTo(mem, todo', i, m[i])
      BY <1>1, <2>1 DEF Outcomes
    <2>3. \A k \in DOMAIN todo' : ~Awaits(todo', k, i)
      BY <1>2, <2>1 DEF Awaits, Put, Link
    <2>4. QED
      BY <2>2, <2>3, LastWriteWins
  <1>4. ASSUME NEW e, e[1] # "summarizes" PROVE e \in DueEdges' <=> e \in edges
    <2>1. \A k \in DOMAIN todo' : todo'[k] # Unlink(e)
      BY <1>2 DEF Put, Link, Unlink
    <2>2. \A k \in DOMAIN todo' : todo'[k] # Link(e)
      <3>1. \A f : Link(f) = Link(e) => f = e
        BY WriteFields
      <3>2. Put(s, rec, TRUE, FALSE) # Link(e)
        BY DEF Put, Link
      <3>3. QED
        BY <1>2, <1>4, <3>1, <3>2
    <2>3. QED
      BY <1>1, <2>1, <2>2 DEF DueEdges, EdgesDue
  <1>5. QED
    BY <1>2, <1>3, <1>4

\* A decay run archives what it has expired, each memory once, and nothing else.
LEMMA DecayOutcome ==
    ASSUME TypeOK, BeginDecay
    PROVE  /\ DueEdges' = edges /\ changes' \in Seq(Changes)
           /\ \A m \in Outcomes' : \A i \in Ids :
                 \/ m[i] = mem[i] /\ \A n \in DOMAIN changes' : changes'[n].id # i
                 \/ /\ i \in Active /\ m[i] = Archived(mem[i])
                    /\ \E n \in DOMAIN changes' :
                          /\ changes'[n] = Change(i, mem[i], Archived(mem[i]))
                          /\ \A j \in DOMAIN changes' : j # n => changes'[j].id # i
           /\ \A k \in DOMAIN todo' : \E i \in Active :
                 todo'[k] = Put(i, Archived(mem[i]), TRUE, FALSE)
           /\ \A n \in DOMAIN changes' : \E i \in Active :
                 changes'[n] = Change(i, mem[i], Archived(mem[i]))
  <1>1. /\ UNCHANGED <<mem, edges>> /\ changes' \in Seq(Changes)
        /\ \A k \in DOMAIN todo' : \E i \in Active : todo'[k] = Put(i, Archived(mem[i]), TRUE, FALSE)
    BY DecayCases
  <1>2. PICK order \in Ascending(Expired) :
           /\ todo' = [k \in 1 .. Len(order) |->
                          Put(order[k], Archived(mem[order[k]]), TRUE, FALSE)]
           /\ changes' = [k \in 1 .. Len(order) |->
                             Change(order[k], mem[order[k]], Archived(mem[order[k]]))]
    BY DEF BeginDecay
  <1>3. Expired \subseteq Active /\ Expired \subseteq Ids /\ IsFiniteSet(Expired)
        /\ order \in SetToSeqs(Expired)
    BY ActiveType, FiniteSubset DEF Expired, Ascending
  <1>4. /\ Len(order) \in Nat /\ order \in Seq(Expired) /\ DOMAIN order = 1 .. Len(order)
        /\ \A k \in 1 .. Len(order) : order[k] \in Expired
    BY <1>3, OrderingType
  <1>5. ASSUME NEW j \in 1 .. Len(order), NEW k \in 1 .. Len(order), order[j] = order[k]
        PROVE  j = k
    <2>1. j < k => order[j] < order[k]
      BY <1>2, <1>4 DEF Ascending
    <2>2. k < j => order[k] < order[j]
      BY <1>2, <1>4 DEF Ascending
    <2>3. order[j] \in Nat /\ order[k] \in Nat
      BY <1>3, <1>4, ConstantsAssumption
    <2>4. ~(j < k) /\ ~(k < j)
      BY <1>5, <2>1, <2>2, <2>3
    <2>5. QED
      BY <2>4
  <1>6. /\ DOMAIN todo' = 1 .. Len(order) /\ DOMAIN changes' = 1 .. Len(order)
        /\ \A k \in 1 .. Len(order) :
              /\ todo'[k] = Put(order[k], Archived(mem[order[k]]), TRUE, FALSE)
              /\ changes'[k] = Change(order[k], mem[order[k]], Archived(mem[order[k]]))
    BY <1>2
  <1>7. \A k \in 1 .. Len(order) : \A i : Awaits(todo', k, i) <=> i = order[k]
    BY <1>6 DEF Awaits, Put
  <1>12. ASSUME NEW k \in 1 .. Len(order) PROVE changes'[k].id = order[k]
    <2>1. changes'[k] = Change(order[k], mem[order[k]], Archived(mem[order[k]]))
      BY <1>6
    <2>2. QED
      BY <2>1 DEF Change
  <1>8. ASSUME NEW m \in Outcomes', NEW i \in Ids
        PROVE  \/ m[i] = mem[i] /\ \A n \in DOMAIN changes' : changes'[n].id # i
               \/ /\ i \in Active /\ m[i] = Archived(mem[i])
                  /\ \E n \in DOMAIN changes' :
                        /\ changes'[n] = Change(i, mem[i], Archived(mem[i]))
                        /\ \A j \in DOMAIN changes' : j # n => changes'[j].id # i
    <2>1. ComesTo(mem, todo', i, m[i])
      BY <1>1 DEF Outcomes
    <2>2. CASE \A k \in 1 .. Len(order) : order[k] # i
      <3>1. m[i] = mem[i]
        BY <1>6, <1>7, <2>1, <2>2, LastWriteWins
      <3>2. \A n \in DOMAIN changes' : changes'[n].id # i
        BY <1>6, <1>12, <2>2
      <3>3. QED
        BY <3>1, <3>2
    <2>3. ASSUME NEW k \in 1 .. Len(order), order[k] = i
          PROVE  /\ i \in Active /\ m[i] = Archived(mem[i])
                 /\ \E n \in DOMAIN changes' :
                        /\ changes'[n] = Change(i, mem[i], Archived(mem[i]))
                        /\ \A j \in DOMAIN changes' : j # n => changes'[j].id # i
      <3>1. \A j \in 1 .. Len(order) : j # k => order[j] # i
        BY <1>5, <2>3
      <3>2. m[i] = todo'[k].rec
        BY <1>6, <1>7, <2>1, <2>3, <3>1, LastWriteWins
      <3>3. todo'[k].rec = Archived(mem[i])
        BY <1>6, <2>3 DEF Put
      <3>4. /\ k \in DOMAIN changes' /\ changes'[k] = Change(i, mem[i], Archived(mem[i]))
            /\ \A j \in DOMAIN changes' : j # k => changes'[j].id # i
        BY <1>6, <1>12, <2>3, <3>1
      <3>5. i \in Active
        BY <1>3, <1>4, <2>3
      <3>6. QED
        BY <3>2, <3>3, <3>4, <3>5
    <2>4. QED
      BY <2>2, <2>3
  <1>9. DueEdges' = edges
    <2>1. \A k \in DOMAIN todo' : \A e : todo'[k] # Unlink(e) /\ todo'[k] # Link(e)
      BY <1>6 DEF Put, Link, Unlink
    <2>2. QED
      BY <1>1, <2>1 DEF DueEdges, EdgesDue
  <1>10. \A n \in DOMAIN changes' : \E i \in Active : changes'[n] = Change(i, mem[i], Archived(mem[i]))
    BY <1>3, <1>4, <1>6
  <1>11. QED
    BY <1>1, <1>8, <1>9, <1>10

\* A retrieval comes to what is stored, but for accesses.
LEMMA RetrieveOutcome ==
    ASSUME TypeOK, CopiesAgree, CopiesWhole, NEW selected \in SUBSET Selectable, NEW viaGraph \in SUBSET selected,
           BeginRetrieve(selected, viaGraph)
    PROVE  /\ DueEdges' = edges
           /\ \A m \in Outcomes' : \A i \in Ids :
                 /\ m[i] = Null <=> mem[i] = Null
                 /\ m[i] # Null => SameButAccess(m[i], mem[i])
  <1>1. /\ UNCHANGED <<mem, edges>>
        /\ \A k \in DOMAIN todo' :
                 /\ todo'[k].type = "memory"
                 /\ todo'[k].id \in selected /\ todo'[k].rec \in Memory
                 /\ SameButAccess(todo'[k].rec, mem[todo'[k].id])
    BY RetrieveCases
  <1>2. ASSUME NEW m \in Outcomes', NEW i \in Ids
        PROVE  /\ m[i] = Null <=> mem[i] = Null
               /\ m[i] # Null => SameButAccess(m[i], mem[i])
    <2>1. ComesTo(mem, todo', i, m[i])
      BY <1>1 DEF Outcomes
    <2>2. CASE m[i] = mem[i]
      BY <2>2, TypedState, AccessesAside
    <2>3. ASSUME NEW k \in DOMAIN todo', Awaits(todo', k, i), m[i] = todo'[k].rec
          PROVE  m[i] # Null /\ mem[i] # Null /\ SameButAccess(m[i], mem[i])
      <3>1. m[i] \in Memory /\ SameButAccess(m[i], mem[i])
        BY <1>1, <2>3 DEF Awaits
      <3>2. QED
        BY <3>1, ConstantsAssumption DEF SameButAccess
    <2>4. QED
      BY <2>1, <2>2, <2>3 DEF ComesTo
  <1>3. DueEdges' = edges
    <2>1. \A k \in DOMAIN todo' : \A e : todo'[k] # Unlink(e) /\ todo'[k] # Link(e)
      BY <1>1, WriteFields
    <2>2. QED
      BY <1>1, <2>1 DEF DueEdges, EdgesDue
  <1>4. QED
    BY <1>2, <1>3

\* A rollback undoes the edges of the diff first, then its changes from the last to
\* the first: a memory comes to what the first change of it had found.
LEMMA RollbackOutcome ==
    ASSUME TypeOK, NEW k \in DOMAIN log, BeginRollback(k), NEW d, d = log[k]
    PROVE  /\ \A m \in Outcomes' : \A i \in Ids :
                 /\ (\A n \in DOMAIN d.changes : d.changes[n].id # i) => m[i] = mem[i]
                 /\ \A n \in DOMAIN d.changes :
                       /\ d.changes[n].id = i
                       /\ \A j \in DOMAIN d.changes : j < n => d.changes[j].id # i
                       => m[i] = UndoChange(d.changes[n]).rec
           /\ \A e : e \in DueEdges' <=> e \in edges /\ e \notin ToSet(d.links)
           /\ \A n \in DOMAIN d.changes : \E j \in DOMAIN todo' : todo'[j] = UndoChange(d.changes[n])
           /\ \A j \in DOMAIN todo' : todo'[j].type = "memory" =>
                 \E n \in DOMAIN d.changes : todo'[j] = UndoChange(d.changes[n])
           /\ \A j, l \in DOMAIN todo' :
                 j < l /\ todo'[j].type = "memory" => todo'[l].type = "memory"
  <1>1. /\ d \in Diffs /\ todo' = UndoWrites(d) /\ UNCHANGED <<mem, edges>>
    BY RollbackCases
  <1> DEFINE L == Len(d.links)
             C == Len(d.changes)
  <1>2. /\ L \in Nat /\ C \in Nat /\ DOMAIN todo' = 1 .. L + C
        /\ \A j \in 1 .. L : todo'[j] = Unlink(d.links[L - j + 1])
        /\ \A j \in L + 1 .. L + C :
              /\ \E n \in DOMAIN d.changes : todo'[j] = UndoChange(d.changes[n])
              /\ todo'[j] = UndoChange(d.changes[C - (j - L) + 1])
    BY <1>1, UndoWritesFields
  <1>3. /\ d.links \in Seq(Edges) /\ d.changes \in Seq(Changes)
        /\ DOMAIN d.links = 1 .. L /\ DOMAIN d.changes = 1 .. C
    BY <1>1, LenProperties DEF Diffs
  <1> HIDE DEF L, C
  <1>4. /\ \A j \in 1 .. L + C : j \in 1 .. L \/ j \in L + 1 .. L + C
        /\ \A j \in 1 .. L : j \in 1 .. L + C /\ L - j + 1 \in 1 .. L /\ L - (L - j + 1) + 1 = j
        /\ \A j \in L + 1 .. L + C : j \in 1 .. L + C /\ j \in Nat
        /\ \A n \in 1 .. C : /\ L + C - n + 1 \in L + 1 .. L + C /\ L + C - n + 1 \in 1 .. L + C
                             /\ C - ((L + C - n + 1) - L) + 1 = n
        /\ 1 .. L + C \subseteq Nat
    <2>1. ASSUME NEW l \in Nat, NEW c \in Nat
          PROVE  /\ \A j \in 1 .. l + c : j \in 1 .. l \/ j \in l + 1 .. l + c
                 /\ \A j \in 1 .. l : j \in 1 .. l + c /\ l - j + 1 \in 1 .. l /\ l - (l - j + 1) + 1 = j
                 /\ \A j \in l + 1 .. l + c : j \in 1 .. l + c /\ j \in Nat
                 /\ \A n \in 1 .. c : /\ l + c - n + 1 \in l + 1 .. l + c /\ l + c - n + 1 \in 1 .. l + c
                                      /\ c - ((l + c - n + 1) - l) + 1 = n
                 /\ 1 .. l + c \subseteq Nat
      OBVIOUS
    <2>2. QED
      BY <1>2, <2>1, Zenon
  <1>5. \A j \in 1 .. L : todo'[j].type = "unlink"
    <2> SUFFICES ASSUME NEW j \in 1 .. L PROVE todo'[j].type = "unlink"
      OBVIOUS
    <2>1. todo'[j] = Unlink(d.links[L - j + 1])
      BY <1>2
    <2>2. QED
      BY <2>1 DEF Unlink
  <1>6. \A c : UndoChange(c).type = "memory" /\ UndoChange(c).id = c.id
    BY UndoChangeFields
  <1>7. \A j \in L + 1 .. L + C : todo'[j].type = "memory"
    BY <1>2, <1>6
  <1>8. \A n \in DOMAIN d.changes : /\ L + C - n + 1 \in DOMAIN todo'
                                    /\ todo'[L + C - n + 1] = UndoChange(d.changes[n])
    <2> SUFFICES ASSUME NEW n \in DOMAIN d.changes
                 PROVE  /\ L + C - n + 1 \in DOMAIN todo'
                        /\ todo'[L + C - n + 1] = UndoChange(d.changes[n])
      OBVIOUS
    <2> DEFINE at == L + C - n + 1
    <2>1. at \in L + 1 .. L + C /\ at \in DOMAIN todo' /\ C - (at - L) + 1 = n
      <3>1. n \in 1 .. C
        BY <1>3
      <3>2. L + C - n + 1 \in L + 1 .. L + C /\ L + C - n + 1 \in 1 .. L + C
            /\ C - ((L + C - n + 1) - L) + 1 = n
        BY <1>4, <3>1, Zenon
      <3>3. DOMAIN todo' = 1 .. L + C
        BY <1>2
      <3>4. at \in 1 .. L + C /\ at \in L + 1 .. L + C /\ C - (at - L) + 1 = n
        BY <3>2, Zenon
      <3> HIDE DEF at
      <3>5. QED
        BY <3>3, <3>4
    <2> HIDE DEF at
    <2>2. todo'[at] = UndoChange(d.changes[C - (at - L) + 1])
      BY <1>2, <2>1, Zenon
    <2>3. QED
      BY <2>1, <2>2 DEF at
  <1>9. \A j \in DOMAIN todo' : todo'[j].type = "memory" => j \in L + 1 .. L + C
    BY <1>2, <1>4, <1>5
  <1>10. ASSUME NEW j \in DOMAIN todo', todo'[j].type = "memory"
         PROVE  \E n \in DOMAIN d.changes : todo'[j] = UndoChange(d.changes[n])
    BY <1>2, <1>9, <1>10
  <1>11. ASSUME NEW j \in DOMAIN todo', NEW l \in DOMAIN todo', j < l, todo'[j].type = "memory"
         PROVE  todo'[l].type = "memory"
    <2>1. j \in L + 1 .. L + C /\ l \in 1 .. L + C
      BY <1>2, <1>9, <1>11
    <2>2. \A a \in Nat, c \in Nat : \A x \in a + 1 .. a + c : \A y \in 1 .. a + c :
             x < y => y \in a + 1 .. a + c
      OBVIOUS
    <2>3. l \in L + 1 .. L + C
      BY <1>2, <1>11, <2>1, <2>2, Zenon
    <2>4. QED
      BY <1>7, <2>3
  <1>12. ASSUME NEW m \in Outcomes', NEW i \in Ids
         PROVE  /\ (\A n \in DOMAIN d.changes : d.changes[n].id # i) => m[i] = mem[i]
                /\ \A n \in DOMAIN d.changes :
                       /\ d.changes[n].id = i
                       /\ \A j \in DOMAIN d.changes : j < n => d.changes[j].id # i
                       => m[i] = UndoChange(d.changes[n]).rec
    <2>1. ComesTo(mem, todo', i, m[i])
      BY <1>1 DEF Outcomes
    <2>2. ASSUME \A n \in DOMAIN d.changes : d.changes[n].id # i PROVE m[i] = mem[i]
      <3>1. \A j \in DOMAIN todo' : ~Awaits(todo', j, i)
        BY <1>6, <1>10, <2>2 DEF Awaits
      <3>2. QED
        BY <2>1, <3>1, LastWriteWins
    <2>3. ASSUME NEW n \in DOMAIN d.changes, d.changes[n].id = i,
                 \A j \in DOMAIN d.changes : j < n => d.changes[j].id # i
          PROVE  m[i] = UndoChange(d.changes[n]).rec
      <3> DEFINE at == L + C - n + 1
      <3>1. at \in DOMAIN todo' /\ todo'[at] = UndoChange(d.changes[n])
        BY <1>8
      <3>2. ASSUME NEW j \in DOMAIN todo', j > at PROVE ~Awaits(todo', j, i)
        <4> SUFFICES ASSUME Awaits(todo', j, i) PROVE FALSE
          OBVIOUS
        <4>1. j \in L + 1 .. L + C
          BY <1>9 DEF Awaits
        <4> DEFINE b == C - (j - L) + 1
        <4>2. todo'[j] = UndoChange(d.changes[b])
          BY <1>2, <4>1
        <4>3. b \in 1 .. C /\ b < n
          <5>1. \A l, c \in Nat : \A x \in l + 1 .. l + c : \A y \in 1 .. c :
                   x > l + c - y + 1 => c - (x - l) + 1 \in 1 .. c /\ c - (x - l) + 1 < y
            OBVIOUS
          <5>2. n \in 1 .. C /\ j > L + C - n + 1
            BY <1>3, <3>2
          <5>3. QED
            BY <1>2, <4>1, <5>1, <5>2, Zenon
        <4> HIDE DEF b
        <4>4. d.changes[b].id # i
          BY <1>3, <2>3, <4>3
        <4>5. QED
          BY <1>6, <4>2, <4>4 DEF Awaits
      <3>3. Awaits(todo', at, i)
        BY <1>6, <2>3, <3>1 DEF Awaits
      <3>4. DOMAIN todo' \subseteq Nat
        BY <1>2, <1>4
      <3> HIDE DEF at
      <3>5. m[i] = todo'[at].rec
        BY <2>1, <3>1, <3>2, <3>3, <3>4, LastWriteWins
      <3>6. QED
        BY <3>1, <3>5
    <2>4. QED
      BY <2>2, <2>3
  <1>13. ASSUME NEW e PROVE e \in DueEdges' <=> e \in edges /\ e \notin ToSet(d.links)
    <2>1. \A j \in DOMAIN todo' : todo'[j] # Link(e)
      <3>1. \A j \in DOMAIN todo' : todo'[j].type \in {"unlink", "memory"}
        BY <1>2, <1>4, <1>5, <1>7
      <3>2. Link(e).type = "link"
        BY WriteFields
      <3>3. QED
        BY <3>1, <3>2
    <2>2. (\E j \in DOMAIN todo' : todo'[j] = Unlink(e)) <=> e \in ToSet(d.links)
      <3>1. ASSUME NEW j \in DOMAIN todo', todo'[j] = Unlink(e) PROVE e \in ToSet(d.links)
        <4>1. j \in 1 .. L
          BY <1>2, <1>4, <1>7, <3>1 DEF Unlink
        <4>2. todo'[j] = Unlink(d.links[L - j + 1]) /\ L - j + 1 \in 1 .. L
          BY <1>2, <1>4, <4>1, Zenon
        <4>3. e = d.links[L - j + 1]
          <5>1. Unlink(e).edge = e /\ Unlink(d.links[L - j + 1]).edge = d.links[L - j + 1]
            BY WriteFields, Zenon
          <5>2. QED
            BY <3>1, <4>2, <5>1
        <4>4. QED
          BY <1>3, <4>2, <4>3 DEF ToSet
      <3>2. ASSUME e \in ToSet(d.links) PROVE \E j \in DOMAIN todo' : todo'[j] = Unlink(e)
        <4>1. PICK n \in 1 .. L : d.links[n] = e
          BY <1>3, <3>2 DEF ToSet
        <4> DEFINE j == L - n + 1
        <4>2. j \in 1 .. L /\ j \in 1 .. L + C /\ L - j + 1 = n
          <5>1. L - n + 1 \in 1 .. L /\ L - (L - n + 1) + 1 = n
            BY <1>4, Zenon
          <5>2. L - n + 1 \in 1 .. L + C
            BY <1>4, <5>1, Zenon
          <5>3. QED
            BY <5>1, <5>2
        <4> HIDE DEF j
        <4>3. todo'[j] = Unlink(d.links[n])
          BY <1>2, <4>2
        <4>4. QED
          BY <1>2, <4>1, <4>2, <4>3
      <3>3. QED
        BY <3>1, <3>2
    <2>3. QED
      BY <1>1, <2>1, <2>2 DEF DueEdges, EdgesDue
  <1>14. \A n \in DOMAIN d.changes : \E j \in DOMAIN todo' : todo'[j] = UndoChange(d.changes[n])
    BY <1>8
  <1>15. QED
    BY <1>10, <1>11, <1>12, <1>13, <1>14

-----------------------------------------------------------------------------
(***************************************************************************)
(* The shape of a queue, and what a repair reads.                          *)
(***************************************************************************)
LEMMA ShapeStep ==
    ASSUME RecordInv, QueueIsShaped, [Next]_vars
    PROVE  QueueIsShaped'
  <1>1. /\ TypeOK /\ ReadAreStored /\ CopiesAgree /\ WritesAreWhole /\ DeduplicationIsCurrent
        /\ RepairIsCurrent
    BY DEF RecordInv, StoredInv
  <1>2. \A k : k \notin DOMAIN <<>>
    OBVIOUS
  <1>3. CASE todo' = <<>>
    BY <1>2, <1>3 DEF QueueIsShaped
  <1>4. CASE Quiet
    BY <1>4 DEF Quiet, QueueIsShaped
  <1>5. ASSUME NEW i \in Atoms, Ingest(i) PROVE QueueIsShaped'
    BY <1>5 DEF Ready, Ingest, call, QueueIsShaped
  <1>6. ASSUME NEW selected \in SUBSET Selectable, NEW viaGraph \in SUBSET selected,
               BeginRetrieve(selected, viaGraph)
        PROVE  QueueIsShaped'
    <2>1. op' = "retrieve"
      BY <1>6 DEF Ready, BeginRetrieve, Begin
    <2>2. \A k \in DOMAIN todo' : \E i, r : todo'[k] = Put(i, r, FALSE, FALSE)
      BY <1>6 DEF BeginRetrieve
    <2>3. QED
      BY <2>1, <2>2 DEF QueueIsShaped, Put
  <1>7. ASSUME NEW kind, Starting(kind), UNCHANGED <<todo, changes, links>> PROVE QueueIsShaped'
    <2>1. todo' = <<>>
      BY <1>1, <1>7 DEF Starting, WritesAreWhole
    <2>2. QED
      BY <1>3, <2>1
  <1>8. CASE BeginDecay
    <2>1. op' = "decay_archival" /\ \A k \in DOMAIN todo' : \E i, r : todo'[k] = Put(i, r, TRUE, FALSE)
      BY <1>1, <1>8, DecayCases
    <2>2. QED
      BY <2>1 DEF QueueIsShaped, Put
  <1>9. ASSUME NEW k \in DOMAIN log, BeginRollback(k) PROVE QueueIsShaped'
    <2>1. op' = "rollback"
      BY <1>9 DEF BeginRollback
    <2>2. \A j, l \in DOMAIN todo' : j < l /\ todo'[j].type = "memory" => todo'[l].type = "memory"
      BY <1>1, <1>9, RollbackOutcome
    <2>3. QED
      BY <2>1, <2>2 DEF QueueIsShaped
  <1>10. CASE MergePair
    <2>1. /\ op' = "deduplication"
          /\ \E c, d, r, s, e, f : todo' = <<Put(c, r, TRUE, FALSE), Put(d, s, TRUE, FALSE), Link(e), Link(f)>>
      <3>1. op' = "deduplication"
        BY <1>1, <1>10, MergeCases
      <3>2. \E c, d \in Ids : todo' = <<Put(c, snap'[c], TRUE, FALSE), Put(d, snap'[d], TRUE, FALSE),
                                       Link(SameAs(d, c)), Link(DerivedFrom(c, d))>>
        BY <1>1, <1>10, MergeCases, Zenon
      <3>3. QED
        BY <3>1, <3>2, Zenon
    <2>2. PICK c, d, r, s, e, f : todo' = <<Put(c, r, TRUE, FALSE), Put(d, s, TRUE, FALSE), Link(e), Link(f)>>
      BY <2>1
    <2>3. /\ DOMAIN todo' = 1 .. 4 /\ todo'[1] = Put(c, r, TRUE, FALSE)
          /\ todo'[2] = Put(d, s, TRUE, FALSE) /\ todo'[3] = Link(e) /\ todo'[4] = Link(f)
      BY <2>2, ListElements
    <2>4. ~todo'[1].reindex /\ ~todo'[2].reindex /\ todo'[3].type = "link" /\ todo'[4].type = "link"
      BY <2>3 DEF Put, Link
    <2>5. \A k \in DOMAIN todo' : todo'[k].type = "memory" => ~todo'[k].reindex
      <3>1. \A k \in 1 .. 4 : k = 1 \/ k = 2 \/ k = 3 \/ k = 4
        OBVIOUS
      <3>2. QED
        BY <2>3, <2>4, <3>1
    <2>6. QED
      BY <2>1, <2>5 DEF QueueIsShaped
  <1>11. CASE RepairPair
    <2>1. /\ op' = "contradiction_repair"
          /\ \E o, n, r, s, e : todo' = <<Put(o, r, TRUE, FALSE), Put(n, s, TRUE, FALSE), Link(e)>>
      BY <1>1, <1>11, RepairCases
    <2>2. PICK o, n, r, s, e : todo' = <<Put(o, r, TRUE, FALSE), Put(n, s, TRUE, FALSE), Link(e)>>
      BY <2>1
    <2>3. /\ DOMAIN todo' = 1 .. 3 /\ todo'[1] = Put(o, r, TRUE, FALSE)
          /\ todo'[2] = Put(n, s, TRUE, FALSE) /\ todo'[3] = Link(e)
      BY <2>2, ListElements
    <2>4. /\ ~todo'[1].reindex /\ ~todo'[2].reindex
          /\ todo'[1].type = "memory" /\ todo'[2].type = "memory" /\ todo'[3].type = "link"
      BY <2>3 DEF Put, Link
    <2>5. /\ \A k \in DOMAIN todo' : todo'[k].type = "memory" => ~todo'[k].reindex
          /\ \A j, k \in DOMAIN todo' : j < k /\ todo'[k].type = "memory" => todo'[j].type = "memory"
      <3>1. \A k \in 1 .. 3 : k = 1 \/ k = 2 \/ k = 3
        OBVIOUS
      <3>2. \A j, k \in 1 .. 3 : j < k => j = 1 \/ j = 2
        OBVIOUS
      <3>3. QED
        BY <2>3, <2>4, <3>1, <3>2
    <2>6. QED
      BY <2>1, <2>5 DEF QueueIsShaped
  <1>12. ASSUME NEW t \in Topics, Summarise(t) PROVE QueueIsShaped'
    <2>1. op' = "abstraction"
          /\ \A k \in DOMAIN todo' : (\E i, r : todo'[k] = Put(i, r, TRUE, FALSE)) \/ \E e : todo'[k] = Link(e)
      BY <1>1, <1>12, SummaryCases
    <2>2. QED
      BY <2>1 DEF QueueIsShaped, Put, Link
  <1>13. CASE ApplyWrite
    <2>1. todo # <<>> /\ todo \in Seq(Writes) /\ todo' = Tail(todo) /\ op' = op
      BY <1>1, <1>13, ApplyCases
    <2>2. \A k \in DOMAIN todo' : k + 1 \in DOMAIN todo /\ todo'[k] = todo[k + 1] /\ k \in Nat
      <3>1. /\ Len(todo) \in Nat /\ DOMAIN Tail(todo) = 1 .. Len(todo) - 1
            /\ \A k \in DOMAIN Tail(todo) : k + 1 \in DOMAIN todo /\ Tail(todo)[k] = todo[k + 1]
        BY <2>1, QueueShifts
      <3>2. QED
        BY <2>1, <3>1
    <2>3. \A j, k \in DOMAIN todo' : j < k => j + 1 < k + 1
      BY <2>2
    <2>4. QED
      BY <2>1, <2>2, <2>3 DEF QueueIsShaped
  <1>14. CASE FinishRun \/ FinishCall \/ Crash
    BY <1>3, <1>14, EndingSteps DEF Ending
  <1>15. QED
    BY <1>1, <1>4, <1>5, <1>6, <1>7, <1>8, <1>9, <1>10, <1>11, <1>12, <1>13, <1>14, StepCases

\* Each memory that a run or a retrieval writes is stored, or is a summary.
LEMMA QueuesWriteStored ==
    ASSUME RecordInv, CopiesWhole, [Next]_vars, ~ApplyWrite, NEW i \in Atoms,
           op' \in Strategies \cup {"retrieve"}, todo' # todo,
           NEW k \in DOMAIN todo', Awaits(todo', k, i)
    PROVE  mem[i] # Null
  <1>1. /\ TypeOK /\ ReadAreStored /\ CopiesAgree /\ WritesAreWhole /\ DeduplicationIsCurrent
        /\ RepairIsCurrent
    BY DEF RecordInv, StoredInv
  <1>2. \A j \in Active : mem[j] # Null
    BY DEF Active, IsActive
  <1>3. i \notin Summaries /\ i \in Ids
    BY ConstantsAssumption DEF Ids
  <1>4. ASSUME NEW selected \in SUBSET Selectable, NEW viaGraph \in SUBSET selected,
               BeginRetrieve(selected, viaGraph)
        PROVE  mem[i] # Null
    BY <1>1, <1>2, <1>4, RetrieveCases DEF Awaits
  <1>5. CASE BeginDecay
    BY <1>1, <1>2, <1>5, DecayCases DEF Awaits, Put
  <1>6. CASE MergePair \/ RepairPair \/ \E t \in Topics : Summarise(t)
    <2>1. todo'[k].id \in Active \cup Summaries
      BY <1>6, StrategyQueues DEF Awaits
    <2>2. QED
      BY <1>2, <1>3, <2>1 DEF Awaits
  <1>7. ASSUME Quiet \/ (\E j \in Atoms : Ingest(j)) \/ (\E kind : Starting(kind) /\ UNCHANGED <<todo, changes, links>>)
        PROVE  FALSE
    BY <1>7 DEF Ready, Quiet, Ingest, call
  <1>8. ASSUME NEW j \in DOMAIN log, BeginRollback(j) PROVE FALSE
    BY <1>8 DEF BeginRollback, Strategies
  <1>10. ASSUME FinishRun \/ FinishCall \/ Crash PROVE FALSE
    BY <1>10, EndingSteps DEF Ending, Strategies
  <1>11. QED
    BY <1>1, <1>4, <1>5, <1>6, <1>7, <1>8, <1>10, StepCases

LEMMA NothingNewStep ==
    ASSUME RecordInv, CopiesWhole, NothingNew, [Next]_vars
    PROVE  NothingNew'
  <1>1. /\ TypeOK /\ ReadAreStored /\ CopiesAgree /\ WritesAreWhole /\ DeduplicationIsCurrent
        /\ RepairIsCurrent
    BY DEF RecordInv, StoredInv
  <1>2. SUFFICES ASSUME op' \in Strategies \cup {"retrieve"}, NEW i \in Atoms, base'.mem[i] = Null
                 PROVE  mem'[i] = Null /\ \A k \in DOMAIN todo' : ~Awaits(todo', k, i)
    BY DEF NothingNew
  <1>3. \A k : k \notin DOMAIN <<>>
    OBVIOUS
  <1>4. CASE Quiet
    BY <1>2, <1>4 DEF Quiet, NothingNew
  \* A call begins.
  <1>5. CASE op = "idle" /\ base' = [mem |-> mem, edges |-> edges] /\ mem' = mem
    <2>1. mem[i] = Null /\ mem'[i] = Null
      BY <1>2, <1>5
    <2>2. CASE todo' = todo
      <3>1. todo' = <<>>
        BY <1>1, <1>5, <2>2 DEF WritesAreWhole
      <3>2. QED
        BY <1>3, <2>1, <3>1
    <2>3. CASE todo' # todo
      <3>1. ~ApplyWrite
        BY <1>1, <1>5 DEF WritesAreWhole, ApplyWrite
      <3>2. QED
        BY <1>2, <2>1, <2>3, <3>1, QueuesWriteStored
    <2>4. QED
      BY <2>2, <2>3
  <1>6. ASSUME NEW selected \in SUBSET Selectable, NEW viaGraph \in SUBSET selected,
               BeginRetrieve(selected, viaGraph)
        PROVE  op = "idle" /\ base' = [mem |-> mem, edges |-> edges] /\ mem' = mem
    BY <1>1, <1>6, RetrieveCases
  <1>7. ASSUME NEW kind, Starting(kind)
        PROVE  op = "idle" /\ base' = [mem |-> mem, edges |-> edges] /\ mem' = mem
    BY <1>7 DEF Starting
  <1>8. ASSUME BeginDecay
        PROVE  op = "idle" /\ base' = [mem |-> mem, edges |-> edges] /\ mem' = mem
    BY <1>1, <1>8, DecayCases
  <1>9. ASSUME (\E j \in Atoms : Ingest(j)) \/ (\E k \in DOMAIN log : BeginRollback(k))
               \/ FinishRun \/ FinishCall \/ Crash
        PROVE  FALSE
    BY <1>2, <1>9, EndingSteps DEF Ready, Ingest, BeginRollback, Ending, Strategies, call
  <1>10. CASE MergePair \/ RepairPair \/ \E t \in Topics : Summarise(t)
    <2>1. op' = op /\ base' = base /\ mem' = mem
      BY <1>10, StrategyQueues
    <2>2. mem[i] = Null /\ \A k \in DOMAIN todo : ~Awaits(todo, k, i)
      BY <1>2, <2>1 DEF NothingNew
    <2>3. ASSUME NEW k \in DOMAIN todo', Awaits(todo', k, i) PROVE FALSE
      <3>1. todo'[k].id \in Active \cup Summaries
        BY <1>10, <2>3, StrategyQueues DEF Awaits
      <3>2. QED
        BY <2>2, <2>3, <3>1, ConstantsAssumption DEF Awaits, Active, IsActive
    <2>4. QED
      BY <2>1, <2>2, <2>3
  <1>11. CASE ApplyWrite
    <2>1. /\ todo # <<>> /\ todo \in Seq(Writes) /\ todo' = Tail(todo) /\ op' = op /\ base' = base
          /\ todo[1].type # "memory" => mem' = mem
          /\ todo[1].type = "memory" =>
                \A j \in Ids : mem'[j] = IF j = todo[1].id THEN todo[1].rec ELSE mem[j]
      BY <1>1, <1>11, ApplyCases
    <2>2. /\ 1 \in DOMAIN todo
          /\ \A k \in DOMAIN todo' : k + 1 \in DOMAIN todo /\ todo'[k] = todo[k + 1]
      BY <2>1, QueueShifts
    <2>3. mem[i] = Null /\ \A k \in DOMAIN todo : ~Awaits(todo, k, i)
      BY <1>2, <2>1 DEF NothingNew
    <2>4. mem'[i] = Null
      BY <2>1, <2>2, <2>3 DEF Awaits, Ids
    <2>5. \A k \in DOMAIN todo' : ~Awaits(todo', k, i)
      BY <2>2, <2>3 DEF Awaits
    <2>6. QED
      BY <2>4, <2>5
  <1>12. QED
    BY <1>1, <1>4, <1>5, <1>6, <1>7, <1>8, <1>9, <1>10, <1>11, StepCases


LEMMA RepairReadsStep ==
    ASSUME TypeOK, EdgesAreAccountedFor, RepairReads, [Next]_vars
    PROVE  RepairReads'
  <1>1. CASE BeginRepair
    <2>1. /\ op = "idle" /\ UNCHANGED <<changes, links>> /\ snap' = ActiveSnapshot /\ known' = edges
          /\ base' = [mem |-> mem, edges |-> edges] /\ \A p \in work' : p[1] # p[2]
      BY <1>1 DEF Ready, BeginRepair, BeginRun, Begin
    <2>2. links = <<>> /\ ToSet(<<>>) = {}
      BY <2>1 DEF EdgesAreAccountedFor, Strategies, ToSet
    <2>3. \A i \in Ids : snap'[i] # Null => snap'[i] = mem[i]
      BY <2>1 DEF ActiveSnapshot
    <2>4. QED
      BY <2>1, <2>2, <2>3 DEF RepairReads
  <1>2. CASE RepairPair
    <2>1. UNCHANGED <<op, snap, base>> /\ op = "contradiction_repair"
      BY <1>2 DEF RepairPair, Examine
    <2>2. PICK p \in Ids \X Ids : work' = work \ {p} /\ Repair(p[1], p[2])
      BY <1>2 DEF RepairPair
    <2>3. /\ known' = known \cup {Contradicts(p[1], p[2])}
          /\ links' = Append(links, Contradicts(p[1], p[2]))
      BY <2>2 DEF Repair
    <2>4. ToSet(links') = ToSet(links) \cup {Contradicts(p[1], p[2])}
      <3>1. Contradicts(p[1], p[2]) \in Edges /\ links \in Seq(Edges)
        BY DEF Contradicts, Edges, EdgeKinds, TypeOK
      <3> DEFINE e == Contradicts(p[1], p[2])
      <3>2. e \in Edges /\ links' = Append(links, e)
        BY <2>3, <3>1
      <3> HIDE DEF e
      <3>3. /\ DOMAIN links \subseteq DOMAIN Append(links, e)
            /\ \A k \in DOMAIN links : Append(links, e)[k] = links[k]
            /\ ToSet(links) \subseteq ToSet(Append(links, e)) /\ e \in ToSet(Append(links, e))
            /\ \A k \in DOMAIN Append(links, e) :
                  Append(links, e)[k] = e \/ \E j \in DOMAIN links : Append(links, e)[k] = links[j]
        BY <3>1, <3>2, AppendedList
      <3>4. ToSet(Append(links, e)) \subseteq ToSet(links) \cup {e}
        BY <3>3 DEF ToSet
      <3>5. ToSet(links') = ToSet(links) \cup {e}
        BY <3>2, <3>3, <3>4
      <3>6. QED
        BY <3>5 DEF e
    <2>5. QED
      BY <2>1, <2>2, <2>3, <2>4 DEF RepairReads
  <1>3. CASE SkipPair
    BY <1>3 DEF SkipPair, RepairReads, Examine
  <1>4. CASE ApplyWrite
    BY <1>4 DEF ApplyWrite, RepairReads
  <1>5. CASE UNCHANGED vars
    BY <1>5 DEF vars, call, RepairReads
  <1>6. ASSUME NEW i \in Atoms, Ingest(i) PROVE RepairReads'
    BY <1>6 DEF Ready, Ingest, RepairReads, call
  <1>7. CASE Tick \/ CopyWrite
    BY <1>7 DEF Tick, CopyWrite, RepairReads, call
  <1>8. ASSUME \/ \E selected \in SUBSET Selectable : \E viaGraph \in SUBSET selected :
                    BeginRetrieve(selected, viaGraph)
               \/ BeginDeduplication \/ MergePair \/ PassPair \/ BeginAbstraction
               \/ (\E t \in Topics : Summarise(t)) \/ BeginDecay
               \/ (\E k \in DOMAIN log : BeginRollback(k))
               \/ FinishRun \/ FinishCall \/ Crash
        PROVE  op' # "contradiction_repair"
    BY <1>8, EndingSteps DEF Ready, BeginRetrieve, BeginDeduplication, MergePair, PassPair, BeginAbstraction,
       Summarise, BeginDecay, BeginRollback, BeginRun, Begin, Examine, Ending
  <1>9. QED
    BY <1>1, <1>2, <1>3, <1>4, <1>5, <1>6, <1>7, <1>8 DEF Next, RepairReads

-----------------------------------------------------------------------------
(***************************************************************************)
(* A run comes to what its changes record.                                 *)
(***************************************************************************)
\* What is kept twice is kept, and what is kept of what was made was made.
LEMMA KeptKept ==
    ASSUME NEW i \in Atoms, NEW b \in MemoryOrNull, NEW r \in MemoryOrNull, NEW s \in MemoryOrNull
    PROVE  /\ Kept(b, i, b)
           /\ Kept(Null, i, FreshMemory(i))
           /\ Kept(b, i, r) /\ Kept(r, i, s) => Kept(b, i, s)
           /\ ((s = Null <=> r = Null) /\ (s # Null => SameButAccess(s, r))) => Kept(r, i, s)
           /\ b # Null /\ Kept(b, i, r) => r # Null /\ r.archived = b.archived
  <1>1. FreshMemory(i) \in Memory
    BY FreshMemoryType
  <1>2. /\ b # Null => b \in Memory
        /\ r # Null => r \in Memory
        /\ s # Null => s \in Memory
    BY DEF MemoryOrNull
  <1>3. \A x \in Memory : SameButAccess(x, x) /\ x # Null
    BY AccessesAside, ConstantsAssumption
  <1>4. \A x, y \in Memory : SameButAccess(x, y) => x.archived = y.archived
    BY SameIsEquivalence
  <1>5. \A x, y, z \in Memory : SameButAccess(x, y) /\ SameButAccess(y, z) => SameButAccess(x, z)
    BY SameIsEquivalence
  <1>6. Kept(b, i, b) /\ Kept(Null, i, FreshMemory(i))
    BY <1>1, <1>2, <1>3 DEF Kept
  <1>7. ASSUME Kept(b, i, r), Kept(r, i, s) PROVE Kept(b, i, s)
    BY <1>1, <1>2, <1>3, <1>5, <1>7 DEF Kept
  <1>8. ASSUME s = Null <=> r = Null, s # Null => SameButAccess(s, r) PROVE Kept(r, i, s)
    BY <1>8 DEF Kept
  <1>9. ASSUME b # Null, Kept(b, i, r) PROVE r # Null /\ r.archived = b.archived
    BY <1>2, <1>4, <1>9 DEF Kept
  <1>10. QED
    BY <1>6, <1>7, <1>8, <1>9

LEMMA MadeKept ==
    ASSUME NEW i \in Atoms, NEW b \in MemoryOrNull, NEW r \in MemoryOrNull, NEW s \in MemoryOrNull,
           NEW list, Made(b, list, i, r), Kept(r, i, s)
    PROVE  Made(b, list, i, s)
  <1>1. CASE NoChange(list, i) /\ Kept(b, i, r)
    BY <1>1, KeptKept DEF Made
  <1>2. CASE ~(NoChange(list, i) /\ Kept(b, i, r))
    <2>1. r # Null
      BY <1>2 DEF Made
    <2>2. s # Null /\ s.archived = r.archived
      BY <2>1, KeptKept
    <2>3. QED
      BY <1>2, <2>2 DEF Made
  <1>3. QED
    BY <1>1, <1>2

\* A list with two changes more.
LEMMA PairAppended ==
    ASSUME NEW S, NEW list \in Seq(S), NEW x \in S, NEW y \in S
    PROVE  /\ list \o <<x, y>> \in Seq(S)
           /\ Len(list) \in Nat /\ DOMAIN list = 1 .. Len(list)
           /\ DOMAIN (list \o <<x, y>>) = 1 .. Len(list) + 2
           /\ \A k \in DOMAIN list : (list \o <<x, y>>)[k] = list[k]
           /\ (list \o <<x, y>>)[Len(list) + 1] = x /\ (list \o <<x, y>>)[Len(list) + 2] = y
  <1>1. Len(list) \in Nat /\ DOMAIN list = 1 .. Len(list)
    BY LenProperties
  <1> DEFINE pair == <<x, y>>
  <1>2. pair \in Seq(S) /\ Len(pair) = 2 /\ pair[1] = x /\ pair[2] = y
    OBVIOUS
  <1> HIDE DEF pair
  <1>3. /\ list \o pair \in Seq(S) /\ Len(list \o pair) = Len(list) + 2
        /\ \A k \in 1 .. Len(list) + 2 :
              (list \o pair)[k] = IF k <= Len(list) THEN list[k] ELSE pair[k - Len(list)]
    <2>1. /\ list \o pair \in Seq(S) /\ Len(list \o pair) = Len(list) + Len(pair)
          /\ \A k \in 1 .. Len(list) + Len(pair) :
                (list \o pair)[k] = IF k <= Len(list) THEN list[k] ELSE pair[k - Len(list)]
      BY <1>2, ConcatProperties
    <2>2. Len(pair) = 2
      BY <1>2
    <2>3. QED
      BY <2>1, <2>2
  <1>4. DOMAIN (list \o pair) = 1 .. Len(list) + 2
    BY <1>3, LenProperties
  <1>5. \A k \in DOMAIN list : (list \o pair)[k] = list[k]
    BY <1>1, <1>3
  <1>6. (list \o pair)[Len(list) + 1] = x /\ (list \o pair)[Len(list) + 2] = y
    BY <1>1, <1>2, <1>3
  <1>7. QED
    BY <1>1, <1>3, <1>4, <1>5, <1>6 DEF pair

\* List `longer' goes on where list ends.
Continues(longer, list) ==
    /\ DOMAIN longer \subseteq Nat /\ DOMAIN list \subseteq DOMAIN longer
    /\ \A k \in DOMAIN list : longer[k] = list[k]
    /\ \A k \in DOMAIN list : \A n \in DOMAIN longer : n \notin DOMAIN list => k < n

\* Another change of an active memory is recorded with those before it.
LEMMA MadeOn ==
    ASSUME NEW i \in Atoms, NEW b \in MemoryOrNull, NEW r \in MemoryOrNull, NEW s \in MemoryOrNull,
           NEW list, NEW longer, Continues(longer, list), Made(b, list, i, r)
    PROVE  /\ s = r /\ (\A n \in DOMAIN longer : n \notin DOMAIN list => longer[n].id # i)
              => Made(b, longer, i, s)
           /\ \A n \in DOMAIN longer :
                 /\ n \notin DOMAIN list /\ longer[n].id = i
                 /\ \A j \in DOMAIN longer : j \notin DOMAIN list /\ j # n => longer[j].id # i
                 /\ IsActive(r) /\ longer[n].before # Null /\ ~longer[n].before.archived
                 /\ NoChange(list, i) => b # Null /\ SameButAccess(longer[n].before, b)
                 /\ s # Null /\ s = longer[n].after
                 => Made(b, longer, i, s)
  <1>1. ASSUME NEW n \in DOMAIN list, FirstChange(list, i, n)
        PROVE  n \in DOMAIN longer /\ FirstChange(longer, i, n) /\ longer[n] = list[n]
    <2>1. n \in DOMAIN longer /\ longer[n] = list[n]
      BY DEF Continues
    <2>2. ASSUME NEW j \in DOMAIN longer, j < n PROVE longer[j].id # i
      <3>1. j \in DOMAIN list
        BY <2>1, <2>2 DEF Continues
      <3>2. QED
        BY <1>1, <2>2, <3>1 DEF Continues, FirstChange
    <2>3. QED
      BY <1>1, <2>1, <2>2 DEF FirstChange
  <1>2. ASSUME s = r, \A n \in DOMAIN longer : n \notin DOMAIN list => longer[n].id # i
        PROVE  Made(b, longer, i, s)
    <2>1. CASE NoChange(list, i) /\ Kept(b, i, r)
      <3>1. NoChange(longer, i)
        BY <1>2, <2>1 DEF NoChange, Continues
      <3>2. QED
        BY <1>2, <2>1, <3>1 DEF Made
    <2>2. CASE ~(NoChange(list, i) /\ Kept(b, i, r))
      <3>1. /\ IsActive(b) /\ r # Null
            /\ \E n \in DOMAIN list :
                  /\ FirstChange(list, i, n)
                  /\ list[n].before # Null /\ SameButAccess(list[n].before, b)
            /\ \A n \in DOMAIN list : list[n].id = i => list[n].before # Null
            /\ r.archived <=> (\E n \in DOMAIN list : list[n].id = i /\ Archives(list[n]))
        BY <2>2 DEF Made
      <3>5. \A n \in DOMAIN longer : longer[n].id = i => longer[n].before # Null
        BY <1>2, <3>1 DEF Continues
      <3>2. \E n \in DOMAIN longer :
                  /\ FirstChange(longer, i, n)
                  /\ longer[n].before # Null /\ SameButAccess(longer[n].before, b)
        BY <1>1, <3>1
      <3>3. (\E n \in DOMAIN longer : longer[n].id = i /\ Archives(longer[n])) <=>
               \E n \in DOMAIN list : list[n].id = i /\ Archives(list[n])
        BY <1>2 DEF Continues
      <3>4. QED
        BY <1>2, <3>1, <3>2, <3>3, <3>5 DEF Made
    <2>3. QED
      BY <2>1, <2>2
  <1>3. ASSUME NEW n \in DOMAIN longer, n \notin DOMAIN list, longer[n].id = i,
               \A j \in DOMAIN longer : j \notin DOMAIN list /\ j # n => longer[j].id # i,
               IsActive(r), longer[n].before # Null, ~longer[n].before.archived,
               NoChange(list, i) => b # Null /\ SameButAccess(longer[n].before, b),
               s # Null, s = longer[n].after
        PROVE  Made(b, longer, i, s)
    <2>1. \A k \in DOMAIN list : list[k].id = i => ~Archives(list[k])
      BY <1>3 DEF Made, NoChange, IsActive
    <2>2. s.archived <=> \E k \in DOMAIN longer : longer[k].id = i /\ Archives(longer[k])
      <3>1. \A k \in DOMAIN longer : longer[k].id = i /\ Archives(longer[k]) => k = n
        BY <1>3, <2>1 DEF Continues
      <3>2. Archives(longer[n]) <=> s.archived
        BY <1>3 DEF Archives
      <3>3. QED
        BY <1>3, <3>1, <3>2
    <2>3. CASE NoChange(list, i)
      <3>1. Kept(b, i, r)
        BY <2>3 DEF Made, NoChange, FirstChange
      <3>2. IsActive(b)
        BY <1>3, <2>3, <3>1, KeptKept DEF IsActive
      <3>3. FirstChange(longer, i, n)
        BY <1>3, <2>3 DEF FirstChange, NoChange, Continues
      <3>5. \A k \in DOMAIN longer : longer[k].id = i => longer[k].before # Null
        BY <1>3, <2>3 DEF NoChange, Continues
      <3>4. QED
        BY <1>3, <2>2, <2>3, <3>2, <3>3, <3>5 DEF Made
    <2>4. CASE ~NoChange(list, i)
      <3>1. /\ IsActive(b)
            /\ \E k \in DOMAIN list :
                  /\ FirstChange(list, i, k)
                  /\ list[k].before # Null /\ SameButAccess(list[k].before, b)
            /\ \A k \in DOMAIN list : list[k].id = i => list[k].before # Null
        BY <2>4 DEF Made
      <3>5. \A k \in DOMAIN longer : longer[k].id = i => longer[k].before # Null
        BY <1>3, <3>1 DEF Continues
      <3>2. \E k \in DOMAIN longer :
                  /\ FirstChange(longer, i, k)
                  /\ longer[k].before # Null /\ SameButAccess(longer[k].before, b)
        BY <1>1, <3>1
      <3>3. QED
        BY <1>3, <2>2, <3>1, <3>2, <3>5 DEF Made
    <2>5. QED
      BY <2>3, <2>4
  <1>4. QED
    BY <1>2, <1>3

LEMMA MadeByPair ==
    ASSUME NEW i \in Atoms, NEW b \in MemoryOrNull, NEW r \in MemoryOrNull, NEW s \in MemoryOrNull,
           NEW list \in Seq(Changes), NEW x \in Changes, NEW y \in Changes, x.id # y.id,
           Made(b, list, i, r), x.id # i /\ y.id # i => s = r,
           \A z \in {x, y} : z.id = i =>
              /\ IsActive(r) /\ z.before # Null /\ ~z.before.archived
              /\ NoChange(list, i) => b # Null /\ SameButAccess(z.before, b)
              /\ s # Null /\ s = z.after
    PROVE  Made(b, list \o <<x, y>>, i, s)
  <1> DEFINE longer == list \o <<x, y>>
             L == Len(list)
  <1>1. /\ L \in Nat /\ DOMAIN list = 1 .. L /\ DOMAIN longer = 1 .. L + 2
        /\ \A k \in DOMAIN list : longer[k] = list[k]
        /\ longer[L + 1] = x /\ longer[L + 2] = y
    BY PairAppended
  <1> HIDE DEF longer, L
  <1>2. /\ \A n \in DOMAIN longer : n \in DOMAIN list \/ n = L + 1 \/ n = L + 2
        /\ L + 1 \in DOMAIN longer /\ L + 2 \in DOMAIN longer
        /\ L + 1 \notin DOMAIN list /\ L + 2 \notin DOMAIN list
    BY <1>1
  <1>3. Continues(longer, list)
    BY <1>1 DEF Continues
  <1>4. CASE x.id # i /\ y.id # i
    <2>1. s = r /\ \A n \in DOMAIN longer : n \notin DOMAIN list => longer[n].id # i
      BY <1>1, <1>2, <1>4
    <2>2. QED
      BY <1>3, <2>1, MadeOn DEF longer
  <1>5. ASSUME NEW n \in {L + 1, L + 2}, longer[n].id = i PROVE Made(b, longer, i, s)
    <2>1. n \in DOMAIN longer /\ n \notin DOMAIN list /\ longer[n] \in {x, y}
      BY <1>1, <1>2
    <2>2. \A j \in DOMAIN longer : j \notin DOMAIN list /\ j # n => longer[j].id # i
      BY <1>1, <1>2, <1>5
    <2>3. /\ IsActive(r) /\ longer[n].before # Null /\ ~longer[n].before.archived
          /\ NoChange(list, i) => b # Null /\ SameButAccess(longer[n].before, b)
          /\ s # Null /\ s = longer[n].after
      BY <1>5, <2>1
    <2>4. QED
      BY <1>3, <1>5, <2>1, <2>2, <2>3, MadeOn
  <1>6. QED
    BY <1>1, <1>4, <1>5 DEF longer

\* What the records of a strategy's next step make of the stores the run found.
LEMMA RunMade ==
    ASSUME RecordInv, NothingNew, RepairReads, RunsAreRecorded,
           MergePair \/ RepairPair \/ \E t \in Topics : Summarise(t),
           NEW m \in Outcomes', NEW i \in Atoms
    PROVE  Made(base.mem[i], changes', i, m[i])
  <1>1. /\ TypeOK /\ ReadAreStored /\ CopiesAgree /\ WritesAreWhole /\ DeduplicationIsCurrent
        /\ RepairIsCurrent
    BY DEF RecordInv, StoredInv
  <1>2. op \in Strategies /\ todo = <<>>
    BY DEF MergePair, RepairPair, Summarise, Examine, Strategies
  <1>3. i \in Ids
    BY DEF Ids
  <1>4. /\ base.mem[i] \in MemoryOrNull /\ mem[i] \in MemoryOrNull /\ m[i] \in MemoryOrNull
        /\ changes \in Seq(Changes)
    BY <1>1, <1>3 DEF TypeOK, Bases, Snapshots, Outcomes
  <1>5. Made(base.mem[i], changes, i, mem[i])
    BY <1>1, <1>2, OutcomeOfNothing DEF RunsAreRecorded
  <1>6. mem[i] # Null => base.mem[i] # Null
    BY <1>2 DEF NothingNew
  <1>7. NoChange(changes, i) /\ mem[i] # Null => base.mem[i] # Null /\ SameButAccess(mem[i], base.mem[i])
    BY <1>5, <1>6 DEF Made, Kept, NoChange, FirstChange
  <1>8. CASE MergePair
    <2>1. PICK c \in Ids, d \in Ids, canonical \in Memory, duplicate \in Memory :
              /\ c # d /\ IsActive(mem[c]) /\ IsActive(mem[d])
              /\ canonical = CanonicalAfter(mem[c], mem[d], d) /\ duplicate = DuplicateAfter(mem[d], c)
              /\ todo' = <<Put(c, canonical, TRUE, FALSE), Put(d, duplicate, TRUE, FALSE),
                           Link(SameAs(d, c)), Link(DerivedFrom(c, d))>>
              /\ changes' = changes \o <<Change(c, mem[c], canonical), Change(d, mem[d], duplicate)>>
              /\ links' = links \o <<SameAs(d, c), DerivedFrom(c, d)>>
              /\ \A n \in Outcomes' :
                    /\ n[c] = canonical /\ n[d] = duplicate
                    /\ \A j \in Ids : j # c /\ j # d => n[j] = mem[j]
              /\ DueEdges' = edges \cup {SameAs(d, c), DerivedFrom(c, d)}
      BY <1>1, <1>8, MergeOutcome
    <2>8. m[c] = canonical /\ m[d] = duplicate /\ \A j \in Ids : j # c /\ j # d => m[j] = mem[j]
      BY <2>1
    <2> DEFINE x == Change(c, mem[c], canonical)
               y == Change(d, mem[d], duplicate)
    <2>2. /\ x.id = c /\ x.before = mem[c] /\ x.after = canonical
          /\ y.id = d /\ y.before = mem[d] /\ y.after = duplicate
      BY DEF Change
    <2>3. x \in Changes /\ y \in Changes
      BY <1>1, <2>1, TypedState, WriteTypes DEF IsActive, MemoryOrNull
    <2> HIDE DEF x, y
    <2>4. \A z \in {x, y} : z.id = i =>
              /\ IsActive(mem[i]) /\ z.before # Null /\ ~z.before.archived
              /\ NoChange(changes, i) => base.mem[i] # Null /\ SameButAccess(z.before, base.mem[i])
              /\ m[i] # Null /\ m[i] = z.after
      BY <1>7, <2>1, <2>2, <2>8, ConstantsAssumption DEF IsActive
    <2>5. x.id # y.id /\ (x.id # i /\ y.id # i => m[i] = mem[i])
      BY <1>3, <2>1, <2>2, <2>8
    <2>6. Made(base.mem[i], changes \o <<x, y>>, i, m[i])
      BY <1>4, <1>5, <2>3, <2>4, <2>5, MadeByPair
    <2>7. QED
      BY <2>1, <2>6 DEF x, y
  <1>9. CASE RepairPair
    <2>1. op = "contradiction_repair" /\ \A p \in work : p[1] # p[2]
      BY <1>9 DEF RepairPair, Examine, RepairReads
    <2>2. PICK o \in Ids, n \in Ids, older \in Memory, newer \in Memory :
              /\ o # n /\ IsActive(mem[o]) /\ IsActive(mem[n])
              /\ snap[o] # Null /\ IsActive(snap[n]) /\ snap[n] \in Memory
              /\ IsFirst(<<o, n>>, ObservedOrder) /\ Contradicts(o, n) \notin known
              /\ work' = work \ {<<o, n>>} /\ known' = known \cup {Contradicts(o, n)}
              /\ older = OlderAfter(mem[o], n) /\ newer = NewerAfter(snap[n], o)
              /\ IsActive(older) /\ IsActive(newer)
              /\ todo' = <<Put(o, older, TRUE, FALSE), Put(n, newer, TRUE, FALSE),
                           Link(Contradicts(o, n))>>
              /\ changes' = changes \o <<Change(o, mem[o], older), Change(n, snap[n], newer)>>
              /\ links' = Append(links, Contradicts(o, n))
              /\ \A z \in Outcomes' :
                    /\ z[o] = older /\ z[n] = newer
                    /\ \A j \in Ids : j # o /\ j # n => z[j] = mem[j]
              /\ DueEdges' = edges \cup {Contradicts(o, n)}
      BY <1>1, <1>9, <2>1, RepairOutcome
    <2>10. m[o] = older /\ m[n] = newer /\ \A j \in Ids : j # o /\ j # n => m[j] = mem[j]
      BY <2>2
    <2> DEFINE x == Change(o, mem[o], older)
               y == Change(n, snap[n], newer)
    <2>3. /\ x.id = o /\ x.before = mem[o] /\ x.after = older
          /\ y.id = n /\ y.before = snap[n] /\ y.after = newer
      BY DEF Change
    <2>4. x \in Changes /\ y \in Changes
      BY <1>1, <2>2, TypedState, WriteTypes DEF IsActive, MemoryOrNull
    <2> HIDE DEF x, y
    <2>5. i = n => base.mem[i] = snap[i] /\ SameButAccess(snap[i], base.mem[i]) /\ base.mem[i] # Null
      BY <2>1, <2>2, AccessesAside, ConstantsAssumption DEF RepairReads, IsActive
    <2>6. \A z \in {x, y} : z.id = i =>
              /\ IsActive(mem[i]) /\ z.before # Null /\ ~z.before.archived
              /\ NoChange(changes, i) => base.mem[i] # Null /\ SameButAccess(z.before, base.mem[i])
              /\ m[i] # Null /\ m[i] = z.after
      BY <1>7, <2>2, <2>3, <2>5, <2>10, ConstantsAssumption DEF IsActive
    <2>7. x.id # y.id /\ (x.id # i /\ y.id # i => m[i] = mem[i])
      BY <1>3, <2>2, <2>3, <2>10
    <2>8. Made(base.mem[i], changes \o <<x, y>>, i, m[i])
      BY <1>4, <1>5, <2>4, <2>6, <2>7, MadeByPair
    <2>9. QED
      BY <2>2, <2>8 DEF x, y
  <1>10. ASSUME NEW t \in Topics, Summarise(t) PROVE Made(base.mem[i], changes', i, m[i])
    <2>1. PICK s \in Summaries, rec \in Memory : changes' = Append(changes, Change(s, Null, rec))
      BY <1>1, <1>10, SummaryOutcome
    <2>2. m[i] = mem[i]
      BY <1>1, <1>10, SummaryOutcome
    <2> DEFINE e == Change(s, Null, rec)
    <2>3. e \in Changes /\ e.id # i
      BY ConstantsAssumption DEF Change, Changes, MemoryOrNull, Ids
    <2> HIDE DEF e
    <2>4. /\ Len(changes) \in Nat /\ DOMAIN changes = 1 .. Len(changes)
          /\ DOMAIN Append(changes, e) = 1 .. Len(changes) + 1
          /\ \A k \in DOMAIN changes : Append(changes, e)[k] = changes[k]
          /\ Append(changes, e)[Len(changes) + 1] = e
      BY <1>4, <2>3, AppendedList
    <2> DEFINE longer == Append(changes, e)
    <2>5. /\ Len(changes) \in Nat /\ DOMAIN changes = 1 .. Len(changes)
          /\ DOMAIN longer = 1 .. Len(changes) + 1
          /\ \A k \in DOMAIN changes : longer[k] = changes[k]
          /\ longer[Len(changes) + 1] = e
      BY <2>4
    <2> HIDE DEF longer
    <2>6. Continues(longer, changes)
      BY <2>5 DEF Continues
    <2>7. \A n \in DOMAIN longer : n \notin DOMAIN changes => longer[n].id # i
      BY <2>3, <2>5
    <2>8. Made(base.mem[i], longer, i, m[i])
      BY <1>4, <1>5, <2>2, <2>6, <2>7, MadeOn
    <2>9. QED
      BY <2>1, <2>8 DEF longer, e
  <1>11. QED
    BY <1>8, <1>9, <1>10

-----------------------------------------------------------------------------
(***************************************************************************)
(* The diffs are a stack, and what the newest of them has left is found by *)
(* the next.                                                               *)
(***************************************************************************)
\* Between two diffs only an ingestion, or a call without one, touches the stores.
LEMMA FoundStays ==
    ASSUME RecordInv, [Next]_vars, ~FinishRun, ~Crash, ~\E k \in DOMAIN log : BeginRollback(k)
    PROVE  /\ log' = log
           /\ Found' = Found \/ (\E i \in Atoms : Ingest(i)) \/ FinishCall
  <1>1. TypeOK /\ CopiesAgree /\ WritesAreWhole /\ DeduplicationIsCurrent /\ RepairIsCurrent
        /\ ReadAreStored
    BY DEF RecordInv, StoredInv
  <1>2. CASE Quiet
    BY <1>2 DEF Quiet, Found
  <1>3. CASE (\E i \in Atoms : Ingest(i)) \/ FinishCall
    BY <1>3 DEF Ready, Ingest, FinishCall
  <1>4. ASSUME op = "idle", op' # "idle", log' = log, base' = [mem |-> mem, edges |-> edges]
        PROVE  log' = log /\ Found' = Found
    BY <1>4 DEF Found
  <1>5. ASSUME NEW selected \in SUBSET Selectable, NEW viaGraph \in SUBSET selected,
               BeginRetrieve(selected, viaGraph)
        PROVE  log' = log /\ Found' = Found
    BY <1>1, <1>4, <1>5, RetrieveCases
  <1>6. ASSUME NEW kind \in {"deduplication", "contradiction_repair", "abstraction"}, Starting(kind)
        PROVE  log' = log /\ Found' = Found
    BY <1>4, <1>6 DEF Starting
  <1>7. CASE BeginDecay
    BY <1>1, <1>4, <1>7, DecayCases
  <1>8. CASE MergePair \/ RepairPair \/ \E t \in Topics : Summarise(t)
    <2>1. op \in Strategies /\ UNCHANGED <<op, base, log>>
      BY <1>8, StrategyQueues
    <2>2. QED
      BY <2>1 DEF Found, Strategies
  <1>9. CASE ApplyWrite
    <2>1. UNCHANGED <<op, base, log>> /\ op # "idle"
      BY <1>1, <1>9, ApplyCases DEF WritesAreWhole
    <2>2. QED
      BY <2>1 DEF Found
  <1>10. QED
    BY <1>1, <1>2, <1>3, <1>5, <1>6, <1>7, <1>8, <1>9, StepCases

\* What relates each diff to what the next has found goes on relating them.
LEMMA DiffsChain ==
    ASSUME RecordInv, Tame, [Next]_vars, NEW R,
           \A k \in DOMAIN log : k + 1 \in DOMAIN log => <<log[k], log[k + 1].base>> \in R,
           log # <<>> => <<log[Len(log)], Found>> \in R,
           (\E i \in Atoms : Ingest(i)) \/ FinishCall =>
               \A d \in Diffs : <<d, Found>> \in R => <<d, Found'>> \in R,
           FinishRun => <<[changes |-> changes, links |-> links, base |-> base], Found'>> \in R
    PROVE  /\ \A k \in DOMAIN log' : k + 1 \in DOMAIN log' => <<log'[k], log'[k + 1].base>> \in R
           /\ log' # <<>> => <<log'[Len(log')], Found'>> \in R
  <1>1. TypeOK /\ log \in Seq(Diffs)
    BY DEF RecordInv, StoredInv, TypeOK
  <1>2. CASE ~FinishRun /\ ~Crash /\ ~\E k \in DOMAIN log : BeginRollback(k)
    <2>1. log' = log /\ (Found' = Found \/ (\E i \in Atoms : Ingest(i)) \/ FinishCall)
      BY <1>2, FoundStays
    <2>2. ASSUME log # <<>> PROVE <<log[Len(log)], Found'>> \in R
      <3>1. log[Len(log)] \in Diffs /\ <<log[Len(log)], Found>> \in R
        <4>1. Len(log) \in 1 .. Len(log)
          BY <1>1, <2>2, LastRemoved
        <4>2. QED
          BY <1>1, <2>2, <4>1, ElementOfSeq
      <3>2. CASE Found' = Found
        BY <3>1, <3>2
      <3>3. CASE (\E i \in Atoms : Ingest(i)) \/ FinishCall
        BY <3>1, <3>3
      <3>4. QED
        BY <2>1, <3>2, <3>3
    <2>3. QED
      BY <2>1, <2>2
  <1>3. CASE FinishRun
    <2> DEFINE diff == [changes |-> changes, links |-> links, base |-> base]
    <2>1. op \in Strategies /\ log' = Append(log, diff)
      BY <1>3 DEF FinishRun
    <2>2. diff \in Diffs /\ diff.base = Found
      BY <1>1, <2>1 DEF TypeOK, Diffs, Found, Strategies
    <2>3. <<diff, Found'>> \in R
      BY <1>3
    <2> HIDE DEF diff
    <2>4. /\ Len(log) \in Nat /\ DOMAIN log = 1 .. Len(log)
          /\ Len(log') = Len(log) + 1 /\ DOMAIN log' = 1 .. Len(log) + 1
          /\ \A k \in DOMAIN log : log'[k] = log[k]
          /\ log'[Len(log) + 1] = diff
      BY <1>1, <2>1, <2>2, AppendedList
    <2>5. ASSUME NEW k \in DOMAIN log', k + 1 \in DOMAIN log'
          PROVE  <<log'[k], log'[k + 1].base>> \in R
      <3>1. k \in DOMAIN log
        BY <2>4, <2>5
      <3>2. CASE k + 1 \in DOMAIN log
        BY <2>4, <3>1, <3>2
      <3>3. CASE k + 1 \notin DOMAIN log
        <4>1. k = Len(log) /\ k + 1 = Len(log) + 1
          BY <2>4, <3>1, <3>3
        <4>2. log # <<>>
          BY <3>1
        <4>3. log'[k + 1].base = Found /\ log'[k] = log[Len(log)]
          BY <2>2, <2>4, <3>1, <4>1
        <4>4. QED
          BY <4>2, <4>3
      <3>4. QED
        BY <3>2, <3>3
    <2>6. <<log'[Len(log')], Found'>> \in R
      BY <2>3, <2>4
    <2>7. QED
      BY <2>5, <2>6
  <1>4. ASSUME NEW n \in DOMAIN log, BeginRollback(n)
        PROVE  /\ \A k \in DOMAIN log' : k + 1 \in DOMAIN log' => <<log'[k], log'[k + 1].base>> \in R
               /\ log' # <<>> => <<log'[Len(log')], Found'>> \in R
    <2>1. /\ n = Len(log) /\ op' = "rollback" /\ base' = log[n].base
          /\ log' = RemoveAt(log, n) /\ log # <<>>
      BY <1>1, <1>4, RollbackCases DEF Tame
    <2>2. /\ Len(log) \in Nat /\ Len(log) > 0 /\ DOMAIN log = 1 .. Len(log)
          /\ log' \in Seq(Diffs)
          /\ Len(log') = Len(log) - 1 /\ DOMAIN log' = 1 .. Len(log) - 1
          /\ \A k \in 1 .. Len(log) - 1 : log'[k] = log[k]
      BY <1>1, <2>1, LastRemoved
    <2>3. \A k \in DOMAIN log' : k \in DOMAIN log /\ log'[k] = log[k]
      BY <2>2
    <2>4. ASSUME NEW k \in DOMAIN log', k + 1 \in DOMAIN log'
          PROVE  <<log'[k], log'[k + 1].base>> \in R
      BY <2>3, <2>4
    <2>5. ASSUME log' # <<>> PROVE <<log'[Len(log')], Found'>> \in R
      <3>1. Len(log') # 0
        BY <2>2, <2>5, EmptySeq
      <3>2. Len(log) - 1 \in DOMAIN log /\ (Len(log) - 1) + 1 = Len(log) /\ Len(log) \in DOMAIN log
            /\ log'[Len(log')] = log[Len(log) - 1]
        BY <2>2, <3>1
      <3>3. <<log[Len(log) - 1], log[Len(log)].base>> \in R
        BY <3>2
      <3>4. QED
        BY <2>1, <3>2, <3>3 DEF Found
    <2>6. QED
      BY <2>4, <2>5
  <1>5. CASE Crash
    <2>1. log' = <<>> /\ \A k : k \notin DOMAIN <<>>
      BY <1>5, BoundsAssumption DEF Crash, Tame
    <2>2. QED
      BY <2>1
  <1>6. QED
    BY <1>2, <1>3, <1>4, <1>5

\* A diff in the log was there, or is that of the run that ends.
LEMMA DiffsStay ==
    ASSUME RecordInv, Tame, [Next]_vars, NEW k \in DOMAIN log'
    PROVE  \/ k \in DOMAIN log /\ log'[k] = log[k]
           \/ FinishRun /\ log'[k] = [changes |-> changes, links |-> links, base |-> base]
  <1>1. TypeOK /\ log \in Seq(Diffs)
    BY DEF RecordInv, StoredInv, TypeOK
  <1>2. CASE ~FinishRun /\ ~Crash /\ ~\E n \in DOMAIN log : BeginRollback(n)
    BY <1>2, FoundStays
  <1>3. CASE FinishRun
    <2> DEFINE diff == [changes |-> changes, links |-> links, base |-> base]
    <2>1. log' = Append(log, diff)
      BY <1>3 DEF FinishRun
    <2>2. diff \in Diffs
      BY <1>1 DEF TypeOK, Diffs
    <2> HIDE DEF diff
    <2>3. /\ Len(log) \in Nat /\ DOMAIN log = 1 .. Len(log)
          /\ DOMAIN log' = 1 .. Len(log) + 1
          /\ \A j \in DOMAIN log : log'[j] = log[j]
          /\ log'[Len(log) + 1] = diff
      BY <1>1, <2>1, <2>2, AppendedList
    <2>4. k \in DOMAIN log \/ k = Len(log) + 1
      BY <2>3
    <2>5. QED
      BY <1>3, <2>3, <2>4 DEF diff
  <1>4. ASSUME NEW n \in DOMAIN log, BeginRollback(n) PROVE k \in DOMAIN log /\ log'[k] = log[k]
    <2>1. n = Len(log) /\ log' = RemoveAt(log, n) /\ log # <<>>
      BY <1>1, <1>4, RollbackCases DEF Tame
    <2>2. /\ Len(log) \in Nat /\ Len(log) > 0 /\ DOMAIN log = 1 .. Len(log)
          /\ DOMAIN log' = 1 .. Len(log) - 1
          /\ \A j \in 1 .. Len(log) - 1 : log'[j] = log[j]
      BY <1>1, <2>1, LastRemoved
    <2>3. QED
      BY <2>2
  <1>5. CASE Crash
    <2>1. log' = <<>> /\ \A j : j \notin DOMAIN <<>>
      BY <1>5, BoundsAssumption DEF Crash, Tame
    <2>2. QED
      BY <2>1
  <1>6. QED
    BY <1>2, <1>3, <1>4, <1>5

\* What a run, a retrieval or a rollback comes to stays what its changes record.
LEMMA RecordedStep ==
    ASSUME RecordInv, Tame, NothingNew, RepairReads, EdgesAreAccountedFor, RunsAreRecorded,
           DiffsAreRecorded, [Next]_vars
    PROVE  RunsAreRecorded'
  <1>1. /\ TypeOK /\ ReadAreStored /\ CopiesAgree /\ WritesAreWhole /\ DeduplicationIsCurrent
        /\ RepairIsCurrent /\ WritesOfOthers
    BY DEF RecordInv, StoredInv
  <1>2. op = "idle" => todo = <<>> /\ changes = <<>>
    BY <1>1 DEF WritesAreWhole, EdgesAreAccountedFor, Strategies
  <1>3. \A i \in Atoms : i \in Ids
    BY DEF Ids
  <1>4. \A i \in Atoms : Kept(mem[i], i, mem[i])
    <2>1. \A i \in Atoms : mem[i] \in MemoryOrNull
      BY <1>1, <1>3 DEF TypeOK, Snapshots
    <2>2. QED
      BY <2>1, KeptKept
  <1>5. \A k : k \notin DOMAIN <<>>
    OBVIOUS
  <1>6. CASE Quiet
    BY <1>6 DEF Quiet, RunsAreRecorded, Outcomes, ComesTo, Awaits
  <1>7. ASSUME op' = "idle" PROVE RunsAreRecorded'
    BY <1>7 DEF RunsAreRecorded, Strategies
  <1>8. ASSUME NEW i \in Atoms, Ingest(i) PROVE RunsAreRecorded'
    BY <1>7, <1>8 DEF Ready, Ingest, call
  <1>9. ASSUME NEW selected \in SUBSET Selectable, NEW viaGraph \in SUBSET selected,
               BeginRetrieve(selected, viaGraph)
        PROVE  RunsAreRecorded'
    <2>1. op' = "retrieve" /\ base' = [mem |-> mem, edges |-> edges]
      BY <1>1, <1>9, RetrieveCases
    <2>2. ASSUME NEW m \in Outcomes', NEW i \in Atoms PROVE Kept(mem[i], i, m[i])
      <3>1. (m[i] = Null <=> mem[i] = Null) /\ (m[i] # Null => SameButAccess(m[i], mem[i]))
        BY <1>1, <1>3, <1>9, CopiesAreWhole, RetrieveOutcome DEF Tame
      <3>2. mem[i] \in MemoryOrNull /\ m[i] \in MemoryOrNull
        BY <1>1, <1>3 DEF TypeOK, Snapshots, Outcomes
      <3>3. QED
        BY <3>1, <3>2, KeptKept
    <2>3. QED
      BY <2>1, <2>2 DEF RunsAreRecorded, Strategies
  <1>10. ASSUME NEW kind \in {"deduplication", "contradiction_repair", "abstraction"},
                Starting(kind), UNCHANGED <<todo, changes, links>>
         PROVE  RunsAreRecorded'
    <2>1. /\ op' = kind /\ op = "idle" /\ base' = [mem |-> mem, edges |-> edges]
          /\ mem' = mem /\ todo' = todo /\ changes' = changes
      BY <1>10 DEF Starting
    <2>2. Outcomes = {mem}
      BY <1>1, <1>2, <2>1, OutcomeOfNothing
    <2>3. Outcomes' = {mem}
      BY <2>1, <2>2 DEF Outcomes, ComesTo, Awaits
    <2>4. \A i \in Atoms : Made(mem[i], changes', i, mem[i])
      BY <1>2, <1>4, <1>5, <2>1 DEF Made, NoChange
    <2>5. QED
      BY <2>1, <2>3, <2>4 DEF RunsAreRecorded, Strategies
  <1>11. CASE BeginDecay
    <2>1. op' = "decay_archival" /\ base' = [mem |-> mem, edges |-> edges]
      BY <1>1, <1>11, DecayCases
    <2>2. ASSUME NEW m \in Outcomes', NEW i \in Atoms PROVE Made(mem[i], changes', i, m[i])
      <3>1. \/ m[i] = mem[i] /\ \A n \in DOMAIN changes' : changes'[n].id # i
            \/ /\ i \in Active /\ m[i] = Archived(mem[i])
               /\ \E n \in DOMAIN changes' :
                     /\ changes'[n] = Change(i, mem[i], Archived(mem[i]))
                     /\ \A j \in DOMAIN changes' : j # n => changes'[j].id # i
        BY <1>1, <1>3, <1>11, DecayOutcome
      <3>2. CASE m[i] = mem[i] /\ \A n \in DOMAIN changes' : changes'[n].id # i
        BY <1>4, <3>2 DEF Made, NoChange
      <3>3. CASE /\ i \in Active /\ m[i] = Archived(mem[i])
                 /\ \E n \in DOMAIN changes' :
                     /\ changes'[n] = Change(i, mem[i], Archived(mem[i]))
                     /\ \A j \in DOMAIN changes' : j # n => changes'[j].id # i
        <4>1. mem[i] \in Memory /\ IsActive(mem[i]) /\ SameButAccess(mem[i], mem[i]) /\ mem[i] # Null
              /\ m[i] # Null /\ m[i].archived
          <5>1. mem[i] \in Memory /\ IsActive(mem[i]) /\ mem[i] # Null
            BY <1>1, <3>3, TypedState DEF Active, IsActive
          <5>2. Archived(mem[i]) \in Memory /\ Archived(mem[i]).archived
            BY <5>1 DEF Archived, Memory
          <5>3. QED
            BY <3>3, <5>1, <5>2, AccessesAside, ConstantsAssumption
        <4>2. PICK n \in DOMAIN changes' :
                     /\ changes'[n] = Change(i, mem[i], Archived(mem[i]))
                     /\ \A j \in DOMAIN changes' : j # n => changes'[j].id # i
          BY <3>3
        <4>3. changes'[n].id = i /\ changes'[n].before = mem[i] /\ changes'[n].after = Archived(mem[i])
          BY <4>2 DEF Change
        <4>4. changes' \in Seq(Changes)
          BY <1>1, <1>11, DecayOutcome
        <4>5. \A j \in DOMAIN changes' : j < n => j # n
          <5>1. DOMAIN changes' \subseteq Nat
            BY <4>4, LenProperties
          <5>2. QED
            BY <5>1
        <4>6. FirstChange(changes', i, n) /\ Archives(changes'[n])
          BY <3>3, <4>1, <4>2, <4>3, <4>5 DEF FirstChange, Archives, IsActive
        <4>7. \A j \in DOMAIN changes' : changes'[j].id = i => changes'[j].before # Null
          BY <4>1, <4>2, <4>3
        <4>8. QED
          BY <4>1, <4>3, <4>6, <4>7 DEF Made
      <3>4. QED
        BY <3>1, <3>2, <3>3
    <2>3. QED
      BY <2>1, <2>2 DEF RunsAreRecorded, Strategies
  <1>12. ASSUME NEW k \in DOMAIN log, BeginRollback(k) PROVE RunsAreRecorded'
    <2> DEFINE d == log[k]
    <2>1. /\ k = Len(log) /\ op = "idle" /\ op' = "rollback" /\ base' = d.base /\ log # <<>>
          /\ d \in Diffs
      BY <1>1, <1>12, RollbackCases DEF Tame
    <2>2. \A i \in Atoms : Made(d.base.mem[i], d.changes, i, mem[i])
      BY <2>1 DEF DiffsAreRecorded, MadeBy, Found
    <2>3. /\ \A m \in Outcomes' : \A i \in Ids :
                 /\ (\A n \in DOMAIN d.changes : d.changes[n].id # i) => m[i] = mem[i]
                 /\ \A n \in DOMAIN d.changes :
                       /\ d.changes[n].id = i
                       /\ \A j \in DOMAIN d.changes : j < n => d.changes[j].id # i
                       => m[i] = UndoChange(d.changes[n]).rec
      BY <1>1, <1>12, RollbackOutcome
    <2> HIDE DEF d
    <2>4. ASSUME NEW m \in Outcomes', NEW i \in Atoms PROVE Kept(d.base.mem[i], i, m[i])
      <3>1. Made(d.base.mem[i], d.changes, i, mem[i])
        BY <2>2
      <3>2. CASE NoChange(d.changes, i) /\ Kept(d.base.mem[i], i, mem[i])
        BY <1>3, <2>3, <3>2 DEF NoChange
      <3>3. CASE /\ IsActive(d.base.mem[i])
                 /\ \E n \in DOMAIN d.changes :
                       /\ FirstChange(d.changes, i, n)
                       /\ d.changes[n].before # Null /\ SameButAccess(d.changes[n].before, d.base.mem[i])
        <4>1. PICK n \in DOMAIN d.changes :
                       /\ FirstChange(d.changes, i, n)
                       /\ d.changes[n].before # Null /\ SameButAccess(d.changes[n].before, d.base.mem[i])
          BY <3>3
        <4>2. m[i] = UndoChange(d.changes[n]).rec
          BY <1>3, <2>3, <4>1 DEF FirstChange
        <4>3. UndoChange(d.changes[n]).rec = d.changes[n].before
          BY <4>1 DEF UndoChange, Put, Tame
        <4>4. QED
          BY <3>3, <4>1, <4>2, <4>3 DEF Kept, IsActive
      <3>4. QED
        BY <3>1, <3>2, <3>3 DEF Made
    <2>5. QED
      BY <2>1, <2>4 DEF RunsAreRecorded, Strategies
  <1>13. CASE MergePair \/ RepairPair \/ \E t \in Topics : Summarise(t)
    <2>1. op \in Strategies /\ op' = op /\ base' = base
      BY <1>13, StrategyQueues
    <2>2. ASSUME NEW m \in Outcomes', NEW i \in Atoms PROVE Made(base.mem[i], changes', i, m[i])
      BY <1>13, RunMade
    <2>3. QED
      BY <2>1, <2>2 DEF RunsAreRecorded, Strategies
  <1>14. CASE ApplyWrite
    <2>1. Outcomes' \subseteq Outcomes
      BY <1>1, <1>14, OutcomeStays
    <2>2. UNCHANGED <<op, changes, base>>
      BY <1>1, <1>14, ApplyCases
    <2>3. QED
      BY <2>1, <2>2 DEF RunsAreRecorded
  <1>15. CASE FinishRun \/ FinishCall \/ Crash
    BY <1>7, <1>15, EndingSteps DEF Ending
  <1>16. QED
    BY <1>1, <1>6, <1>8, <1>9, <1>10, <1>11, <1>12, <1>13, <1>14, <1>15, StepCases

\* Once a call has nothing left to write, the stores are what it comes to.
LEMMA RecordedAtLast ==
    ASSUME TypeOK, RunsAreRecorded, todo = <<>>, NEW i \in Atoms
    PROVE  /\ op \in Strategies => Made(base.mem[i], changes, i, mem[i])
           /\ op \in {"rollback", "retrieve"} => Kept(base.mem[i], i, mem[i])
           /\ op # "idle" /\ changes = <<>> => Kept(base.mem[i], i, mem[i])
  <1>1. mem \in Outcomes
    BY OutcomeOfNothing
  <1>2. /\ op \in Strategies => Made(base.mem[i], changes, i, mem[i])
        /\ op \in {"rollback", "retrieve"} => Kept(base.mem[i], i, mem[i])
    BY <1>1 DEF RunsAreRecorded
  <1>3. \A k : k \notin DOMAIN <<>>
    OBVIOUS
  <1>4. op # "idle" => op \in Strategies \/ op \in {"rollback", "retrieve"}
    BY DEF TypeOK, Ops
  <1>5. QED
    BY <1>2, <1>3, <1>4 DEF Made, NoChange

LEMMA ChainStep ==
    ASSUME RecordInv, Tame, EdgesAreAccountedFor, RunsAreRecorded, DiffsAreRecorded, [Next]_vars
    PROVE  DiffsAreRecorded'
  <1> DEFINE R == {p \in Diffs \X Bases : MadeBy(p[1], p[2])}
  <1>1. TypeOK /\ TypeOK' /\ WritesAreWhole
    BY StoredStep DEF RecordInv, StoredInv
  <1>2. log \in Seq(Diffs) /\ \A k \in DOMAIN log : log[k] \in Diffs /\ log[k].base \in Bases
    <2>1. log \in Seq(Diffs)
      BY <1>1 DEF TypeOK
    <2>2. \A k \in DOMAIN log : log[k] \in Diffs
      BY <2>1, ElementOfSeq, LenProperties
    <2>3. QED
      BY <2>1, <2>2 DEF Diffs
  <1>3. Found \in Bases /\ Found' \in Bases
    BY <1>1 DEF TypeOK, Found, Bases
  <1>4. \A d \in Diffs, f \in Bases : <<d, f>> \in R <=> MadeBy(d, f)
    OBVIOUS
  <1> HIDE DEF R
  <1>5. /\ \A k \in DOMAIN log : k + 1 \in DOMAIN log => <<log[k], log[k + 1].base>> \in R
        /\ log # <<>> => <<log[Len(log)], Found>> \in R
    <2>1. log # <<>> => Len(log) \in DOMAIN log
      BY <1>2, LastRemoved
    <2>2. QED
      BY <1>2, <1>3, <1>4, <2>1 DEF DiffsAreRecorded
  <1>6. ASSUME NEW i \in Atoms, Found.mem[i] \in MemoryOrNull, Found'.mem[i] \in MemoryOrNull,
               Kept(Found.mem[i], i, Found'.mem[i]), NEW d \in Diffs,
               Made(d.base.mem[i], d.changes, i, Found.mem[i])
        PROVE  Made(d.base.mem[i], d.changes, i, Found'.mem[i])
    <2>1. d.base.mem[i] \in MemoryOrNull
      BY DEF Diffs, Bases, Snapshots, Ids
    <2>2. QED
      BY <1>6, <2>1, MadeKept
  <1>7. \A i \in Atoms : Found.mem[i] \in MemoryOrNull /\ Found'.mem[i] \in MemoryOrNull
    BY <1>3 DEF Bases, Snapshots, Ids
  <1>8. ASSUME (\E i \in Atoms : Ingest(i)) \/ FinishCall, NEW j \in Atoms
        PROVE  Kept(Found.mem[j], j, Found'.mem[j])
    <2>1. ASSUME NEW i \in Atoms, Ingest(i) PROVE Kept(mem[j], j, mem'[j]) /\ Found.mem = mem /\ Found'.mem = mem'
      <3>1. op = "idle" /\ op' = "idle" /\ mem[i] = Null /\ mem' = [mem EXCEPT ![i] = FreshMemory(i)]
        BY <2>1 DEF Ready, Ingest, call
      <3>2. Found.mem = mem /\ Found'.mem = mem'
        BY <3>1 DEF Found
      <3>3. mem \in [Ids -> MemoryOrNull] /\ j \in Ids /\ i \in Ids
        BY <1>1, TypedState DEF Ids
      <3>4. mem'[j] = IF j = i THEN FreshMemory(i) ELSE mem[j]
        BY <3>1, <3>3
      <3>5. mem[j] \in MemoryOrNull
        BY <3>3
      <3>6. Kept(mem[j], j, mem[j]) /\ Kept(Null, j, FreshMemory(j))
        BY <3>5, KeptKept
      <3>7. QED
        BY <3>1, <3>2, <3>4, <3>6
    <2>2. ASSUME FinishCall PROVE Kept(Found.mem[j], j, Found'.mem[j])
      <3>1. op # "idle" /\ op' = "idle" /\ todo = <<>> /\ changes = <<>> /\ mem' = mem
        BY <2>2 DEF FinishCall, Return, stores
      <3>2. Found.mem = base.mem /\ Found'.mem = mem
        BY <3>1 DEF Found
      <3>3. QED
        BY <1>1, <3>1, <3>2, RecordedAtLast
    <2>3. QED
      BY <1>8, <2>1, <2>2
  <1>9. (\E i \in Atoms : Ingest(i)) \/ FinishCall =>
           \A d \in Diffs : <<d, Found>> \in R => <<d, Found'>> \in R
    <2>1. SUFFICES ASSUME (\E i \in Atoms : Ingest(i)) \/ FinishCall, NEW d \in Diffs, MadeBy(d, Found)
                   PROVE  MadeBy(d, Found')
      BY <1>3, <1>4
    <2>2. ASSUME NEW i \in Atoms PROVE Made(d.base.mem[i], d.changes, i, Found'.mem[i])
      BY <1>6, <1>7, <1>8, <2>1 DEF MadeBy
    <2>3. QED
      BY <2>2 DEF MadeBy
  <1>10. FinishRun => <<[changes |-> changes, links |-> links, base |-> base], Found'>> \in R
    <2> DEFINE diff == [changes |-> changes, links |-> links, base |-> base]
    <2>1. SUFFICES ASSUME FinishRun PROVE <<diff, Found'>> \in R
      OBVIOUS
    <2>2. op \in Strategies /\ todo = <<>> /\ op' = "idle" /\ mem' = mem
      BY <2>1 DEF FinishRun, Return
    <2>3. Found'.mem = mem
      BY <2>2 DEF Found
    <2>4. \A i \in Atoms : Made(base.mem[i], changes, i, mem[i])
      BY <1>1, <2>2, RecordedAtLast
    <2>5. diff \in Diffs /\ diff.base = base /\ diff.changes = changes
      BY <1>1 DEF TypeOK, Diffs
    <2> HIDE DEF diff
    <2>6. QED
      BY <1>3, <1>4, <2>3, <2>4, <2>5 DEF MadeBy
  <1>11. /\ \A k \in DOMAIN log' : k + 1 \in DOMAIN log' => <<log'[k], log'[k + 1].base>> \in R
         /\ log' # <<>> => <<log'[Len(log')], Found'>> \in R
    BY <1>5, <1>9, <1>10, DiffsChain
  <1>12. \A d, f : <<d, f>> \in R => MadeBy(d, f)
    BY DEF R
  <1>13. QED
    BY <1>11, <1>12 DEF DiffsAreRecorded, MadeBy

-----------------------------------------------------------------------------
(***************************************************************************)
(* The vector index.                                                       *)
(***************************************************************************)
\* Memory i is indexed, or the rollback in progress will index it.
DueInIndex(i) == i \in vec \/ \E k \in DOMAIN todo : Awaits(todo, k, i) /\ todo[k].reindex

\* The atoms indexed are the active ones; a run that archives some takes them out
\* when it ends, and a rollback that revives some puts them back as it writes them.
IndexFollows ==
    crashes = 0 => \A i \in Atoms :
        /\ op = "idle" => (i \in vec <=> IsActive(mem[i]))
        /\ op \in Strategies \cup {"retrieve"} => (i \in vec <=> IsActive(base.mem[i]))
        /\ op = "rollback" => \A m \in Outcomes : DueInIndex(i) <=> IsActive(m[i])

\* Who touches the vector index.
LEMMA VectorSteps ==
    ASSUME TypeOK, [Next]_vars
    PROVE  /\ crashes' = 0 => crashes = 0 /\ ~Crash
           /\ \/ vec' = vec
              \/ \E i \in Atoms : Ingest(i)
              \/ FinishRun \/ ApplyWrite \/ Crash
  <1>1. crashes \in Nat
    BY DEF TypeOK
  <1>2. Crash => crashes' # 0
    BY <1>1 DEF Crash
  <1>3. ~Crash => crashes' = crashes
    BY DEF Ready, CopyWrite, Next, Ingest, BeginRetrieve, BeginDeduplication, MergePair, PassPair, BeginRepair,
       RepairPair, SkipPair, BeginAbstraction, Summarise, BeginDecay, BeginRollback, FinishRun,
       FinishCall, Tick, ApplyWrite, BeginRun, Begin, vars
  <1>4. \/ vec' = vec
        \/ \E i \in Atoms : Ingest(i)
        \/ FinishRun \/ ApplyWrite \/ Crash
    BY DEF Ready, CopyWrite, Next, BeginRetrieve, BeginDeduplication, MergePair, PassPair, BeginRepair,
       RepairPair, SkipPair, BeginAbstraction, Summarise, BeginDecay, BeginRollback,
       FinishCall, Tick, BeginRun, Begin, vars, stores
  <1>5. QED
    BY <1>2, <1>3, <1>4

\* A record kept is active if what it was is.
LEMMA KeptActive ==
    ASSUME NEW i \in Atoms, NEW b \in MemoryOrNull, NEW r \in MemoryOrNull, Kept(b, i, r),
           b = Null => r = Null
    PROVE  IsActive(r) <=> IsActive(b)
  <1>1. CASE b = Null
    BY <1>1 DEF IsActive
  <1>2. CASE b # Null
    BY <1>2, KeptKept DEF IsActive
  <1>3. QED
    BY <1>1, <1>2

LEMMA IndexStep ==
    ASSUME RecordInv, Tame, QueueIsShaped, NothingNew, RunsAreRecorded, DiffsAreRecorded,
           EdgesAreAccountedFor, IndexFollows, [Next]_vars
    PROVE  IndexFollows'
  <1>1. /\ TypeOK /\ ReadAreStored /\ CopiesAgree /\ WritesAreWhole /\ DeduplicationIsCurrent
        /\ RepairIsCurrent /\ WritesOfOthers
    BY DEF RecordInv, StoredInv
  <1>2. SUFFICES ASSUME crashes' = 0, NEW i \in Atoms
                 PROVE  /\ op' = "idle" => (i \in vec' <=> IsActive(mem'[i]))
                        /\ op' \in Strategies \cup {"retrieve"} =>
                              (i \in vec' <=> IsActive(base'.mem[i]))
                        /\ op' = "rollback" => \A m \in Outcomes' : DueInIndex(i)' <=> IsActive(m[i])
    BY DEF IndexFollows
  <1>3. /\ crashes = 0 /\ ~Crash
        /\ vec' = vec \/ (\E j \in Atoms : Ingest(j)) \/ FinishRun \/ ApplyWrite
    BY <1>1, <1>2, VectorSteps
  <1>4. /\ op = "idle" => (i \in vec <=> IsActive(mem[i]))
        /\ op \in Strategies \cup {"retrieve"} => (i \in vec <=> IsActive(base.mem[i]))
        /\ op = "rollback" => \A m \in Outcomes : DueInIndex(i) <=> IsActive(m[i])
    BY <1>3 DEF IndexFollows
  <1>5. i \in Ids /\ "idle" \notin Strategies \cup {"retrieve", "rollback"}
        /\ "rollback" \notin Strategies \cup {"retrieve"}
    BY DEF Ids, Strategies
  <1>6. mem[i] \in MemoryOrNull /\ base.mem[i] \in MemoryOrNull
    BY <1>1, <1>5 DEF TypeOK, Snapshots, Bases
  <1>7. ~CommandLine
    BY DEF Tame
  <1>8. ASSUME op = "idle", op' \in Strategies \cup {"retrieve"},
               base' = [mem |-> mem, edges |-> edges], vec' = vec
        PROVE  /\ op' = "idle" => (i \in vec' <=> IsActive(mem'[i]))
               /\ op' \in Strategies \cup {"retrieve"} =>
                     (i \in vec' <=> IsActive(base'.mem[i]))
               /\ op' = "rollback" => \A m \in Outcomes' : DueInIndex(i)' <=> IsActive(m[i])
    BY <1>4, <1>5, <1>8
  <1>9. CASE Quiet
    <2>1. UNCHANGED <<mem, op, todo, base>>
      BY <1>9 DEF Quiet
    <2>2. vec' = vec
      <3>1. ASSUME ApplyWrite PROVE FALSE
        <4>1. todo # <<>> /\ todo \in Seq(Writes) /\ Tail(todo) = todo
          BY <1>1, <2>1, <3>1, ApplyCases
        <4>2. Len(Tail(todo)) = Len(todo) - 1 /\ Len(todo) \in Nat
          BY <4>1, QueueShifts, Zenon
        <4>3. QED
          BY <4>1, <4>2
      <3>2. ASSUME NEW j \in Atoms, Ingest(j) PROVE FALSE
        <4>1. mem[j] = Null /\ mem = [mem EXCEPT ![j] = FreshMemory(j)]
          BY <2>1, <3>2 DEF Ready, Ingest
        <4>2. mem \in [Ids -> MemoryOrNull] /\ j \in Ids
          BY <1>1, TypedState DEF Ids
        <4>3. FreshMemory(j) \in Memory
          BY FreshMemoryType
        <4>4. QED
          BY <4>1, <4>2, <4>3, ConstantsAssumption
      <3>3. ASSUME FinishRun PROVE FALSE
        BY <1>5, <2>1, <3>3 DEF FinishRun, Return
      <3>4. QED
        BY <1>3, <3>1, <3>2, <3>3
    <2>3. QED
      BY <1>4, <2>1, <2>2 DEF Outcomes, ComesTo, Awaits, DueInIndex
  <1>10. ASSUME NEW j \in Atoms, Ingest(j) PROVE i \in vec' <=> IsActive(mem'[i])
    <2>1. op = "idle" /\ mem[j] = Null /\ mem' = [mem EXCEPT ![j] = FreshMemory(j)]
          /\ vec' = vec \cup {j}
      BY <1>7, <1>10 DEF Ready, Ingest
    <2>2. mem \in [Ids -> MemoryOrNull] /\ j \in Ids
      BY <1>1, TypedState DEF Ids
    <2>3. IsActive(FreshMemory(j))
      <3>1. FreshMemory(j) \in Memory /\ ~FreshMemory(j).archived
        BY FreshMemoryType DEF FreshMemory
      <3>2. QED
        BY <3>1, ConstantsAssumption DEF IsActive
    <2>4. mem'[i] = IF i = j THEN FreshMemory(j) ELSE mem[i]
      BY <1>5, <2>1, <2>2
    <2>5. QED
      BY <1>4, <2>1, <2>3, <2>4
  <1>11. ASSUME NEW selected \in SUBSET Selectable, NEW viaGraph \in SUBSET selected,
                BeginRetrieve(selected, viaGraph)
         PROVE  op = "idle" /\ op' = "retrieve" /\ base' = [mem |-> mem, edges |-> edges] /\ vec' = vec
    BY <1>1, <1>11, RetrieveCases DEF Ready, BeginRetrieve, Begin, stores
  <1>12. ASSUME NEW kind \in {"deduplication", "contradiction_repair", "abstraction"}, Starting(kind),
                UNCHANGED <<todo, changes, links>>
         PROVE  op = "idle" /\ op' \in Strategies /\ base' = [mem |-> mem, edges |-> edges] /\ vec' = vec
    <2>1. op = "idle" /\ op' = kind /\ base' = [mem |-> mem, edges |-> edges] /\ todo = <<>>
      BY <1>1, <1>12 DEF Starting, WritesAreWhole
    <2>2. vec' = vec
      BY <1>3, <1>5, <2>1 DEF Ready, Ingest, FinishRun, ApplyWrite, Strategies, call
    <2>3. QED
      BY <2>1, <2>2 DEF Strategies
  <1>13. ASSUME BeginDecay
         PROVE  op = "idle" /\ op' \in Strategies /\ base' = [mem |-> mem, edges |-> edges] /\ vec' = vec
    BY <1>1, <1>13, DecayCases DEF Ready, BeginDecay, Begin, stores, Strategies
  <1>14. ASSUME NEW k \in DOMAIN log, BeginRollback(k)
         PROVE  op' = "rollback" /\ \A m \in Outcomes' : DueInIndex(i)' <=> IsActive(m[i])
    <2> DEFINE d == log[k]
    <2>1. /\ k = Len(log) /\ op = "idle" /\ op' = "rollback" /\ log # <<>>
          /\ d \in Diffs /\ vec' = vec
      BY <1>1, <1>14, RollbackCases DEF Tame, BeginRollback, stores
    <2>2. Made(d.base.mem[i], d.changes, i, mem[i])
      BY <2>1 DEF DiffsAreRecorded, MadeBy, Found
    <2>3. /\ \A m \in Outcomes' : \A j \in Ids :
                 /\ (\A n \in DOMAIN d.changes : d.changes[n].id # j) => m[j] = mem[j]
                 /\ \A n \in DOMAIN d.changes :
                       /\ d.changes[n].id = j
                       /\ \A l \in DOMAIN d.changes : l < n => d.changes[l].id # j
                       => m[j] = UndoChange(d.changes[n]).rec
          /\ \A n \in DOMAIN d.changes : \E j \in DOMAIN todo' : todo'[j] = UndoChange(d.changes[n])
          /\ \A j \in DOMAIN todo' : todo'[j].type = "memory" =>
                 \E n \in DOMAIN d.changes : todo'[j] = UndoChange(d.changes[n])
      BY <1>1, <1>14, RollbackOutcome
    <2>4. d.base.mem[i] \in MemoryOrNull
          /\ \A n \in DOMAIN d.changes : d.changes[n].before \in MemoryOrNull
      <3>1. d.changes \in Seq(Changes) /\ d.base.mem[i] \in MemoryOrNull
        BY <1>5, <2>1 DEF Diffs, Bases, Snapshots
      <3>2. \A n \in DOMAIN d.changes : d.changes[n] \in Changes
        BY <3>1, ElementOfSeq, LenProperties
      <3>3. QED
        BY <3>1, <3>2 DEF Changes
    <2> HIDE DEF d
    <2>5. SUFFICES ASSUME NEW m \in Outcomes' PROVE DueInIndex(i)' <=> IsActive(m[i])
      BY <2>1
    <2>6. \A n \in DOMAIN d.changes :
             /\ UndoChange(d.changes[n]).type = "memory"
             /\ UndoChange(d.changes[n]).id = d.changes[n].id
      BY UndoChangeFields
    <2>7. CASE NoChange(d.changes, i)
      <3>1. m[i] = mem[i]
        BY <1>5, <2>3, <2>7 DEF NoChange
      <3>2. \A j \in DOMAIN todo' : ~Awaits(todo', j, i)
        BY <2>3, <2>6, <2>7 DEF NoChange, Awaits
      <3>3. QED
        BY <1>4, <2>1, <3>1, <3>2 DEF DueInIndex
    <2>8. CASE ~NoChange(d.changes, i)
      <3>1. /\ IsActive(d.base.mem[i]) /\ mem[i] # Null
            /\ \E n \in DOMAIN d.changes :
                  /\ FirstChange(d.changes, i, n)
                  /\ d.changes[n].before # Null /\ SameButAccess(d.changes[n].before, d.base.mem[i])
            /\ \A n \in DOMAIN d.changes : d.changes[n].id = i => d.changes[n].before # Null
            /\ mem[i].archived <=>
                  (\E n \in DOMAIN d.changes : d.changes[n].id = i /\ Archives(d.changes[n]))
        BY <2>2, <2>8 DEF Made
      <3>2. IsActive(m[i])
        <4>1. PICK n \in DOMAIN d.changes :
                  /\ FirstChange(d.changes, i, n)
                  /\ d.changes[n].before # Null /\ SameButAccess(d.changes[n].before, d.base.mem[i])
          BY <3>1
        <4>2. m[i] = UndoChange(d.changes[n]).rec
          BY <1>5, <2>3, <4>1 DEF FirstChange
        <4>3. UndoChange(d.changes[n]).rec = d.changes[n].before
          BY <1>7, <4>1 DEF UndoChange, Put
        <4>4. ~d.changes[n].before.archived
          BY <2>4, <3>1, <4>1, SameIsEquivalence DEF MemoryOrNull, IsActive
        <4>5. QED
          BY <4>1, <4>2, <4>3, <4>4 DEF IsActive
      <3>3. CASE ~mem[i].archived
        BY <1>4, <2>1, <3>1, <3>2, <3>3 DEF DueInIndex, IsActive
      <3>4. CASE mem[i].archived
        <4>1. PICK n \in DOMAIN d.changes : d.changes[n].id = i /\ Archives(d.changes[n])
          BY <3>1, <3>4
        <4>2. UndoChange(d.changes[n]).reindex
          BY <1>7, <4>1 DEF Archives, UndoChange, Put
        <4>3. PICK j \in DOMAIN todo' : todo'[j] = UndoChange(d.changes[n])
          BY <2>3
        <4>4. Awaits(todo', j, i) /\ todo'[j].reindex
          BY <2>6, <4>1, <4>2, <4>3 DEF Awaits
        <4>5. QED
          BY <3>2, <4>4 DEF DueInIndex
      <3>5. QED
        BY <3>3, <3>4
    <2>9. QED
      BY <2>7, <2>8
  <1>15. ASSUME MergePair \/ RepairPair \/ \E t \in Topics : Summarise(t)
         PROVE  op \in Strategies /\ UNCHANGED <<op, base, vec>>
    <2>1. op \in Strategies /\ UNCHANGED <<op, base>>
      BY <1>15, StrategyQueues
    <2>2. vec' = vec
      BY <1>15 DEF MergePair, RepairPair, Summarise, stores
    <2>3. QED
      BY <2>1, <2>2
  <1>16. CASE ApplyWrite
    <2>1. /\ todo # <<>> /\ todo \in Seq(Writes) /\ todo' = Tail(todo) /\ UNCHANGED <<op, base>>
          /\ op # "idle"
      BY <1>1, <1>16, ApplyCases DEF WritesAreWhole
    <2>2. /\ 1 \in DOMAIN todo /\ Head(todo) = todo[1]
          /\ \A k \in DOMAIN Tail(todo) : k + 1 \in DOMAIN todo /\ Tail(todo)[k] = todo[k + 1]
      BY <2>1, QueueShifts, Zenon
    <2>3. /\ \A j \in DOMAIN todo : j = 1 \/ (/\ j - 1 \in DOMAIN Tail(todo) /\ Tail(todo)[j - 1] = todo[j]
                                             /\ j - 1 \in Nat)
      BY <2>1, QueueSplits, Zenon
    <2>4. \/ todo[1].type = "memory"
             /\ vec' = IF todo[1].reindex THEN vec \cup {todo[1].id} ELSE vec
          \/ todo[1].type # "memory" /\ vec' = vec
      BY <1>16, <2>2 DEF ApplyWrite
    <2>5. op # "rollback" => vec' = vec
      BY <2>2, <2>4 DEF QueueIsShaped
    <2>6. DueInIndex(i)' <=> DueInIndex(i)
      <3>1. ASSUME DueInIndex(i) PROVE DueInIndex(i)'
        <4>1. CASE i \in vec
          BY <2>4, <4>1 DEF DueInIndex
        <4>2. ASSUME NEW k \in DOMAIN todo, Awaits(todo, k, i), todo[k].reindex PROVE DueInIndex(i)'
          <5>1. CASE k = 1
            BY <2>4, <4>2, <5>1 DEF DueInIndex, Awaits
          <5>2. CASE k # 1
            BY <2>1, <2>3, <4>2, <5>2 DEF DueInIndex, Awaits
          <5>3. QED
            BY <5>1, <5>2
        <4>3. QED
          BY <3>1, <4>1, <4>2 DEF DueInIndex
      <3>2. ASSUME DueInIndex(i)' PROVE DueInIndex(i)
        BY <2>1, <2>2, <2>4, <3>2 DEF DueInIndex, Awaits
      <3>3. QED
        BY <3>1, <3>2
    <2>7. Outcomes' \subseteq Outcomes
      BY <1>1, <1>16, OutcomeStays
    <2>8. QED
      BY <1>4, <1>5, <2>1, <2>5, <2>6, <2>7
  <1>17. ASSUME FinishRun \/ FinishCall PROVE op' = "idle" /\ (i \in vec' <=> IsActive(mem'[i]))
    <2>1. /\ op # "idle" /\ op' = "idle" /\ todo = <<>> /\ mem' = mem
      BY <1>5, <1>17 DEF FinishRun, FinishCall, Return, stores
    <2>2. /\ op \in Strategies => Made(base.mem[i], changes, i, mem[i])
          /\ op \in {"rollback", "retrieve"} => Kept(base.mem[i], i, mem[i])
          /\ op # "idle" /\ changes = <<>> => Kept(base.mem[i], i, mem[i])
      BY <1>1, <2>1, RecordedAtLast
    <2>3. op # "rollback" => op \in Strategies \cup {"retrieve"}
      BY <1>1, <2>1 DEF TypeOK, Ops
    <2>4. op # "rollback" /\ base.mem[i] = Null => mem[i] = Null
      BY <2>3 DEF NothingNew
    <2>5. CASE op = "rollback"
      <3>1. vec' = vec
        BY <1>5, <1>17, <2>5 DEF FinishRun, FinishCall, stores
      <3>2. mem \in Outcomes /\ \A k : k \notin DOMAIN <<>>
        BY <1>1, <2>1, OutcomeOfNothing
      <3>3. QED
        BY <1>4, <2>1, <2>5, <3>1, <3>2 DEF DueInIndex
    <2>6. CASE FinishCall /\ op # "rollback"
      <3>1. vec' = vec /\ changes = <<>>
        BY <2>6 DEF FinishCall, stores
      <3>2. IsActive(mem[i]) <=> IsActive(base.mem[i])
        BY <1>6, <2>1, <2>2, <2>4, <2>6, <3>1, KeptActive
      <3>3. QED
        BY <1>4, <2>1, <2>3, <2>6, <3>1, <3>2
    <2>7. CASE FinishRun
      <3>1. op \in Strategies /\ vec' = vec \ NewlyArchived
        BY <1>7, <2>7 DEF FinishRun
      <3>2. Made(base.mem[i], changes, i, mem[i]) /\ (i \in vec <=> IsActive(base.mem[i]))
            /\ op # "rollback"
        BY <1>4, <1>5, <2>2, <3>1
      <3>3. i \in NewlyArchived <=>
               \E n \in DOMAIN changes : /\ changes[n].id = i /\ changes[n].after.archived
                                         /\ changes[n].before = Null \/ ~changes[n].before.archived
        BY DEF NewlyArchived, ToSet
      <3>4. CASE NoChange(changes, i)
        <4>1. Kept(base.mem[i], i, mem[i])
          BY <3>2, <3>4 DEF Made, NoChange, FirstChange
        <4>2. IsActive(mem[i]) <=> IsActive(base.mem[i])
          BY <1>6, <2>4, <3>2, <4>1, KeptActive
        <4>3. i \notin NewlyArchived
          BY <3>3, <3>4 DEF NoChange
        <4>4. QED
          BY <2>1, <3>1, <3>2, <4>2, <4>3
      <3>5. CASE ~NoChange(changes, i)
        <4>1. /\ IsActive(base.mem[i]) /\ mem[i] # Null
              /\ \A n \in DOMAIN changes : changes[n].id = i => changes[n].before # Null
              /\ mem[i].archived <=> (\E n \in DOMAIN changes : changes[n].id = i /\ Archives(changes[n]))
          BY <3>2, <3>5 DEF Made
        <4>2. i \in NewlyArchived <=> mem[i].archived
          BY <3>3, <4>1 DEF Archives
        <4>3. QED
          BY <2>1, <3>1, <3>2, <4>1, <4>2 DEF IsActive
      <3>6. QED
        BY <3>4, <3>5
    <2>8. QED
      BY <1>17, <2>1, <2>5, <2>6, <2>7
  <1>18. QED
    BY <1>1, <1>3, <1>5, <1>8, <1>9, <1>10, <1>11, <1>12, <1>13, <1>14, <1>15, <1>16, <1>17, <1>4, StepCases
       DEF Ready, Ingest, call

-----------------------------------------------------------------------------
(***************************************************************************)
(* What such a process records holds in every state.                       *)
(***************************************************************************)
RecordedInv ==
    /\ MergeInv
    /\ QueueIsShaped /\ NothingNew /\ RepairReads
    /\ RunsAreRecorded /\ DiffsAreRecorded
    /\ IndexFollows

LEMMA RecordedInvariant == Tame => (Spec => []RecordedInv)
  <1> SUFFICES ASSUME Tame PROVE Spec => []RecordedInv
    OBVIOUS
  <1>1. NewestOnly
    BY BoundsAssumption DEF Tame, NewestOnly
  <1>2. ASSUME Init, MergeInv PROVE RecordedInv
    <2>1. /\ op = "idle" /\ todo = <<>> /\ log = <<>> /\ vec = {} /\ \A i \in Ids : mem[i] = Null
          /\ \A k : k \notin DOMAIN <<>>
      BY <1>2 DEF Init, NoRecords
    <2>2. QueueIsShaped /\ NothingNew /\ RepairReads /\ RunsAreRecorded /\ DiffsAreRecorded
      BY <2>1 DEF QueueIsShaped, NothingNew, RepairReads, RunsAreRecorded, DiffsAreRecorded, Strategies
    <2>3. IndexFollows
      BY <2>1 DEF IndexFollows, Strategies, IsActive, Ids
    <2>4. QED
      BY <1>2, <2>2, <2>3 DEF RecordedInv
  <1>3. ASSUME RecordedInv, [Next]_vars, MergeInv' PROVE RecordedInv'
    <2>1. RecordInv /\ TypeOK /\ EdgesAreAccountedFor
      BY <1>3 DEF RecordedInv, MergeInv, RecordInv, StoredInv
    <2>2. /\ QueueIsShaped /\ NothingNew /\ RepairReads
          /\ RunsAreRecorded /\ DiffsAreRecorded /\ IndexFollows
      BY <1>3 DEF RecordedInv
    <2>3. QueueIsShaped' /\ NothingNew' /\ RepairReads'
      BY <1>3, <2>1, <2>2, CopiesAreWhole, ShapeStep, NothingNewStep, RepairReadsStep DEF Tame
    <2>4. RunsAreRecorded' /\ DiffsAreRecorded'
      BY <1>3, <2>1, <2>2, RecordedStep, ChainStep
    <2>5. IndexFollows'
      BY <1>3, <2>1, <2>2, IndexStep
    <2>6. QED
      BY <1>3, <2>3, <2>4, <2>5 DEF RecordedInv
  <1>4. Spec => []MergeInv
    BY <1>1, MergeInvariant
  <1>5. QED
    BY <1>2, <1>3, <1>4, PTL DEF Spec

\* Between calls the atoms in the vector index are exactly the active ones: a run
\* deletes the vectors of all it archives, the rollback of any number of runs puts
\* back exactly those it revives, and nothing else leaves the index behind
\* (DreamRunner.run_strategy and rollback, service.py).
THEOREM IndexIsActive == Tame => (Spec => []IndexMatchesActive)
  <1> SUFFICES ASSUME Tame PROVE Spec => []IndexMatchesActive
    OBVIOUS
  <1>1. RecordedInv => IndexMatchesActive
    <2> SUFFICES ASSUME RecordedInv, op = "idle", crashes = 0
                 PROVE  vec \cap Atoms = Active \cap Atoms
      BY DEF IndexMatchesActive, AtRest
    <2>1. \A i \in Atoms : i \in vec <=> IsActive(mem[i])
      BY DEF RecordedInv, IndexFollows
    <2>2. QED
      BY <2>1 DEF Active, Ids
  <1>2. QED
    BY <1>1, RecordedInvariant, PTL

-----------------------------------------------------------------------------
(***************************************************************************)
(* The edges of a run are its own.                                         *)
(***************************************************************************)
\* The edges that record contradictions, and in a process that has never crashed
\* those of the merges of atoms.
Tracked(e) ==
    \/ e[1] = "contradicts"
    \/ crashes = 0 /\ e[1] \in {"same_as", "derived_from"} /\ e[2] \in Atoms /\ e[3] \in Atoms

SameTracked(es, fs) == \A e \in Edges : Tracked(e) => (e \in es <=> e \in fs)
IsNew(list, es) == \A e \in ToSet(list) : Tracked(e) => e \notin es

\* The three records of a merge of atoms agree, in memories m and edges es.
Agrees(m, es) ==
    \A d, c \in Atoms :
        LET merged == SameAs(d, c) \in es
        IN /\ merged <=> DerivedFrom(c, d) \in es
           /\ merged <=> m[d] # Null /\ m[d].canonical = c
           /\ merged <=> m[c] # Null /\ d \in m[c].dups

\* A run links what was not linked before it, so unlinking that again leaves the
\* edges that it found.
Follows(d, f) == SameTracked(f.edges, EdgesAfter(d))
LinksAreNew ==
    /\ op \in Strategies => IsNew(links, base.edges)
                            /\ SameTracked(DueEdges, base.edges \cup ToSet(links))
    /\ op \in {"rollback", "retrieve"} => SameTracked(DueEdges, base.edges)
    /\ \A k \in DOMAIN log : IsNew(log[k].links, log[k].base.edges)
    /\ \A k \in DOMAIN log : k + 1 \in DOMAIN log => Follows(log[k], log[k + 1].base)
    /\ log # <<>> => Follows(log[Len(log)], Found)

\* The elements of a list with two more, or one.
LEMMA PairElements ==
    ASSUME NEW S, NEW list \in Seq(S), NEW x \in S, NEW y \in S
    PROVE  ToSet(list \o <<x, y>>) = ToSet(list) \cup {x, y}
  <1> DEFINE longer == list \o <<x, y>>
             L == Len(list)
  <1>1. /\ L \in Nat /\ DOMAIN list = 1 .. L /\ DOMAIN longer = 1 .. L + 2
        /\ \A k \in DOMAIN list : longer[k] = list[k]
        /\ longer[L + 1] = x /\ longer[L + 2] = y
    BY PairAppended
  <1> HIDE DEF longer, L
  <1>2. /\ \A n \in DOMAIN longer : n \in DOMAIN list \/ n = L + 1 \/ n = L + 2
        /\ L + 1 \in DOMAIN longer /\ L + 2 \in DOMAIN longer
        /\ DOMAIN list \subseteq DOMAIN longer
    BY <1>1
  <1>3. ToSet(longer) = ToSet(list) \cup {x, y}
    BY <1>1, <1>2 DEF ToSet
  <1>4. QED
    BY <1>3 DEF longer

LEMMA AppendedElement ==
    ASSUME NEW S, NEW list \in Seq(S), NEW x \in S
    PROVE  ToSet(Append(list, x)) = ToSet(list) \cup {x}
  <1> DEFINE longer == Append(list, x)
             L == Len(list)
  <1>1. /\ L \in Nat /\ DOMAIN list = 1 .. L /\ DOMAIN longer = 1 .. L + 1
        /\ \A k \in DOMAIN list : longer[k] = list[k]
        /\ longer[L + 1] = x
    BY AppendedList
  <1> HIDE DEF longer, L
  <1>2. /\ \A n \in DOMAIN longer : n \in DOMAIN list \/ n = L + 1
        /\ L + 1 \in DOMAIN longer /\ DOMAIN list \subseteq DOMAIN longer
    BY <1>1
  <1>3. ToSet(longer) = ToSet(list) \cup {x}
    BY <1>1, <1>2 DEF ToSet
  <1>4. QED
    BY <1>3 DEF longer

\* Tracked is as crashes are.
LEMMA TrackedStays ==
    ASSUME TypeOK, [Next]_vars, ~Crash
    PROVE  crashes' = crashes /\ \A e : Tracked(e)' = Tracked(e)
  <1>1. crashes' = crashes
    BY DEF Ready, CopyWrite, Next, Ingest, BeginRetrieve, BeginDeduplication, MergePair, PassPair, BeginRepair,
       RepairPair, SkipPair, BeginAbstraction, Summarise, BeginDecay, BeginRollback, FinishRun,
       FinishCall, Tick, ApplyWrite, BeginRun, Begin, vars
  <1>2. QED
    BY <1>1 DEF Tracked

\* What a strategy links next is new.
LEMMA LinksOfStrategy ==
    ASSUME RecordInv, Tame, MergedAreArchived, EdgesAreAccountedFor, RepairReads, LinksAreNew,
           crashes = 0 => Agrees(base.mem, base.edges),
           MergePair \/ RepairPair \/ \E t \in Topics : Summarise(t)
    PROVE  /\ \A e \in ToSet(links') : Tracked(e) => e \notin base.edges
           /\ \A e \in Edges : Tracked(e) => (e \in DueEdges' <=> e \in base.edges \cup ToSet(links'))
  <1>1. /\ TypeOK /\ ReadAreStored /\ CopiesAgree /\ WritesAreWhole /\ DeduplicationIsCurrent
        /\ RepairIsCurrent
    BY DEF RecordInv, StoredInv
  <1>2. op \in Strategies /\ todo = <<>>
    BY DEF MergePair, RepairPair, Summarise, Examine, Strategies
  <1>3. /\ IsNew(links, base.edges) /\ SameTracked(edges, base.edges \cup ToSet(links))
        /\ base.edges \subseteq edges /\ links \in Seq(Edges)
    BY <1>1, <1>2, OutcomeOfNothing DEF LinksAreNew, EdgesAreAccountedFor, TypeOK
  <1>4. CASE MergePair
    <2>1. PICK c \in Ids, d \in Ids, canonical \in Memory, duplicate \in Memory :
              /\ c # d /\ IsActive(mem[c]) /\ IsActive(mem[d])
              /\ canonical = CanonicalAfter(mem[c], mem[d], d) /\ duplicate = DuplicateAfter(mem[d], c)
              /\ todo' = <<Put(c, canonical, TRUE, FALSE), Put(d, duplicate, TRUE, FALSE),
                           Link(SameAs(d, c)), Link(DerivedFrom(c, d))>>
              /\ changes' = changes \o <<Change(c, mem[c], canonical), Change(d, mem[d], duplicate)>>
              /\ links' = links \o <<SameAs(d, c), DerivedFrom(c, d)>>
              /\ \A n \in Outcomes' :
                    /\ n[c] = canonical /\ n[d] = duplicate
                    /\ \A j \in Ids : j # c /\ j # d => n[j] = mem[j]
              /\ DueEdges' = edges \cup {SameAs(d, c), DerivedFrom(c, d)}
      BY <1>1, <1>4, MergeOutcome
    <2>2. SameAs(d, c) \in Edges /\ DerivedFrom(c, d) \in Edges
      BY DEF SameAs, DerivedFrom, Edges, EdgeKinds
    <2>3. ToSet(links') = ToSet(links) \cup {SameAs(d, c), DerivedFrom(c, d)}
      BY <1>3, <2>1, <2>2, PairElements
    <2>4. Tracked(SameAs(d, c)) => SameAs(d, c) \notin base.edges
      <3>1. Tracked(SameAs(d, c)) => d \in Atoms
        BY DEF Tracked, SameAs
      <3>2. QED
        BY <1>3, <2>1, <3>1 DEF MergedAreArchived, IsActive
    <2>5. Tracked(DerivedFrom(c, d)) => DerivedFrom(c, d) \notin base.edges
      <3>1. SUFFICES ASSUME Tracked(DerivedFrom(c, d)) PROVE DerivedFrom(c, d) \notin base.edges
        OBVIOUS
      <3>2. crashes = 0 /\ d \in Atoms /\ c \in Atoms /\ Tracked(SameAs(d, c))
        BY <3>1 DEF Tracked, DerivedFrom, SameAs
      <3>3. QED
        BY <2>4, <3>2 DEF Agrees
    <2>6. QED
      BY <1>3, <2>1, <2>3, <2>4, <2>5 DEF IsNew, SameTracked
  <1>5. CASE RepairPair
    <2>1. op = "contradiction_repair" /\ (\A p \in work : p[1] # p[2])
          /\ known = base.edges \cup ToSet(links)
      BY <1>5 DEF RepairPair, Examine, RepairReads
    <2>2. PICK o \in Ids, n \in Ids, older \in Memory, newer \in Memory :
              /\ o # n /\ IsActive(mem[o]) /\ IsActive(mem[n])
              /\ snap[o] # Null /\ IsActive(snap[n]) /\ snap[n] \in Memory
              /\ IsFirst(<<o, n>>, ObservedOrder) /\ Contradicts(o, n) \notin known
              /\ work' = work \ {<<o, n>>} /\ known' = known \cup {Contradicts(o, n)}
              /\ older = OlderAfter(mem[o], n) /\ newer = NewerAfter(snap[n], o)
              /\ IsActive(older) /\ IsActive(newer)
              /\ todo' = <<Put(o, older, TRUE, FALSE), Put(n, newer, TRUE, FALSE),
                           Link(Contradicts(o, n))>>
              /\ changes' = changes \o <<Change(o, mem[o], older), Change(n, snap[n], newer)>>
              /\ links' = Append(links, Contradicts(o, n))
              /\ \A z \in Outcomes' :
                    /\ z[o] = older /\ z[n] = newer
                    /\ \A j \in Ids : j # o /\ j # n => z[j] = mem[j]
              /\ DueEdges' = edges \cup {Contradicts(o, n)}
      BY <1>1, <1>5, <2>1, RepairOutcome
    <2>3. Contradicts(o, n) \in Edges
      BY DEF Contradicts, Edges, EdgeKinds
    <2>4. ToSet(links') = ToSet(links) \cup {Contradicts(o, n)}
      BY <1>3, <2>2, <2>3, AppendedElement
    <2>5. QED
      BY <1>3, <2>1, <2>2, <2>4 DEF IsNew, SameTracked
  <1>6. ASSUME NEW t \in Topics, Summarise(t)
        PROVE  /\ \A e \in ToSet(links') : Tracked(e) => e \notin base.edges
               /\ \A e \in Edges : Tracked(e) => (e \in DueEdges' <=> e \in base.edges \cup ToSet(links'))
    <2>1. PICK s \in Summaries, rec \in Memory, added \in Seq(Edges) :
              /\ changes' = Append(changes, Change(s, Null, rec))
              /\ links' = links \o added
              /\ \A n \in DOMAIN added : added[n][1] = "summarizes"
      BY <1>1, <1>6, SummaryOutcome
    <2>2. /\ ToSet(links) \subseteq ToSet(links')
          /\ \A k \in DOMAIN links' :
                (\E j \in DOMAIN links : links'[k] = links[j])
                  \/ (\E j \in DOMAIN added : links'[k] = added[j])
      <3>1. /\ ToSet(links) \subseteq ToSet(links \o added)
            /\ \A k \in DOMAIN (links \o added) :
                  (\E j \in DOMAIN links : (links \o added)[k] = links[j])
                    \/ (\E j \in DOMAIN added : (links \o added)[k] = added[j])
        BY <1>3, ListsExtended
      <3>2. QED
        BY <2>1, <3>1
    <2>3. \A e \in ToSet(links') : e \in ToSet(links) \/ e[1] = "summarizes"
      BY <2>1, <2>2 DEF ToSet
    <2>4. \A e : Tracked(e) => e[1] # "summarizes"
      BY DEF Tracked
    <2>5. \A e : e[1] # "summarizes" => (e \in DueEdges' <=> e \in edges)
      BY <1>1, <1>6, SummaryOutcome
    <2>6. QED
      BY <1>3, <2>2, <2>3, <2>4, <2>5 DEF IsNew, SameTracked
  <1>7. QED
    BY <1>4, <1>5, <1>6

\* The edges due are those the run found and its own, and those a rollback leaves are
\* those the run found.
LEMMA NewLinksStep ==
    ASSUME RecordInv, Tame, MergedAreArchived, EdgesAreAccountedFor, RepairReads, LinksAreNew,
           op # "idle" /\ crashes = 0 => Agrees(base.mem, base.edges), [Next]_vars
    PROVE  LinksAreNew'
  <1>1. /\ TypeOK /\ TypeOK' /\ ReadAreStored /\ CopiesAgree /\ WritesAreWhole /\ DeduplicationIsCurrent
        /\ RepairIsCurrent /\ WritesOfOthers
    BY StoredStep DEF RecordInv, StoredInv
  <1>2. /\ op = "idle" => todo = <<>> /\ changes = <<>> /\ links = <<>> /\ DueEdges = edges
        /\ op \notin Strategies => changes = <<>> /\ links = <<>>
        /\ changes = <<>> => links = <<>>
        /\ links \in Seq(Edges)
    <2>1. /\ op = "idle" => todo = <<>>
          /\ op \notin Strategies => changes = <<>>
          /\ changes = <<>> => links = <<>>
          /\ links \in Seq(Edges) /\ "idle" \notin Strategies
      BY <1>1 DEF WritesAreWhole, EdgesAreAccountedFor, TypeOK, Strategies
    <2>2. op = "idle" => DueEdges = edges
      BY <1>1, <2>1, OutcomeOfNothing
    <2>3. QED
      BY <2>1, <2>2
  <1>3. "idle" \notin Strategies \cup {"retrieve", "rollback"} /\ "rollback" \notin Strategies
        /\ "retrieve" \notin Strategies /\ ToSet(<<>>) = {}
    BY DEF Strategies, ToSet
  <1>4. CASE Crash
    <2>1. log' = <<>> /\ op' = "idle" /\ \A k : k \notin DOMAIN <<>>
      BY <1>4, BoundsAssumption DEF Crash, Tame, Return
    <2>2. QED
      BY <1>3, <2>1 DEF LinksAreNew
  <1>5. CASE ~Crash
    <2>1. \A e : Tracked(e)' = Tracked(e)
      BY <1>1, <1>5, TrackedStays
    \* The diffs.
    <2> DEFINE R == {p \in Diffs \X Bases : Follows(p[1], p[2])}
    <2>2. log \in Seq(Diffs) /\ \A k \in DOMAIN log : log[k] \in Diffs /\ log[k].base \in Bases
      <3>1. log \in Seq(Diffs)
        BY <1>1 DEF TypeOK
      <3>2. \A k \in DOMAIN log : log[k] \in Diffs
        BY <3>1, ElementOfSeq, LenProperties
      <3>3. QED
        BY <3>1, <3>2 DEF Diffs
    <2>3. Found \in Bases /\ Found' \in Bases
      BY <1>1 DEF TypeOK, Found, Bases
    <2>4. \A d \in Diffs, f \in Bases : <<d, f>> \in R <=> Follows(d, f)
      OBVIOUS
    <2>5. \A d, f : <<d, f>> \in R => Follows(d, f)
      OBVIOUS
    <2> HIDE DEF R
    <2>6. /\ \A k \in DOMAIN log : k + 1 \in DOMAIN log => <<log[k], log[k + 1].base>> \in R
          /\ log # <<>> => <<log[Len(log)], Found>> \in R
      <3>1. log # <<>> => Len(log) \in DOMAIN log
        BY <2>2, LastRemoved
      <3>2. QED
        BY <2>2, <2>3, <2>4, <3>1 DEF LinksAreNew
    <2>7. ASSUME FinishRun \/ FinishCall
          PROVE  /\ op # "idle" /\ op' = "idle" /\ Found.edges = base.edges /\ Found'.edges = edges
                 /\ op \in Strategies => SameTracked(edges, base.edges \cup ToSet(links))
                 /\ op \notin Strategies => SameTracked(edges, base.edges)
      <3>1. op # "idle" /\ op' = "idle" /\ todo = <<>> /\ edges' = edges
        BY <1>3, <2>7 DEF FinishRun, FinishCall, Return, stores
      <3>2. DueEdges = edges
        BY <1>1, <3>1, OutcomeOfNothing
      <3>3. op \notin Strategies => op \in {"rollback", "retrieve"}
        BY <1>1, <3>1 DEF TypeOK, Ops
      <3>4. QED
        BY <3>1, <3>2, <3>3 DEF LinksAreNew, Found
    <2>8. (\E i \in Atoms : Ingest(i)) \/ FinishCall => SameTracked(Found'.edges, Found.edges)
      <3>1. CASE \E i \in Atoms : Ingest(i)
        BY <3>1 DEF Ready, Ingest, Found, SameTracked, call
      <3>2. CASE FinishCall
        <4>1. changes = <<>>
          BY <3>2 DEF FinishCall
        <4>2. links = <<>>
          BY <1>2, <4>1
        <4>3. base.edges \cup ToSet(links) = base.edges
          BY <1>3, <4>2
        <4>4. QED
          BY <2>7, <3>2, <4>3
      <3>3. QED
        BY <3>1, <3>2
    <2>9. (\E i \in Atoms : Ingest(i)) \/ FinishCall =>
             \A d \in Diffs : <<d, Found>> \in R => <<d, Found'>> \in R
      <3>1. SUFFICES ASSUME (\E i \in Atoms : Ingest(i)) \/ FinishCall, NEW d \in Diffs, Follows(d, Found)
                     PROVE  Follows(d, Found')
        BY <2>3, <2>4
      <3>2. QED
        BY <2>8, <3>1 DEF Follows, SameTracked
    <2>10. FinishRun => <<[changes |-> changes, links |-> links, base |-> base], Found'>> \in R
      <3> DEFINE diff == [changes |-> changes, links |-> links, base |-> base]
      <3>1. SUFFICES ASSUME FinishRun PROVE <<diff, Found'>> \in R
        OBVIOUS
      <3>2. op \in Strategies
        BY <3>1 DEF FinishRun
      <3>3. diff \in Diffs /\ EdgesAfter(diff) = base.edges \cup ToSet(links)
        BY <1>1 DEF TypeOK, Diffs, EdgesAfter
      <3> HIDE DEF diff
      <3>4. QED
        BY <2>3, <2>4, <2>7, <3>1, <3>2, <3>3 DEF Follows
    <2>11. /\ \A k \in DOMAIN log' : k + 1 \in DOMAIN log' => <<log'[k], log'[k + 1].base>> \in R
           /\ log' # <<>> => <<log'[Len(log')], Found'>> \in R
      BY <2>6, <2>9, <2>10, DiffsChain
    <2>12. /\ \A k \in DOMAIN log' : k + 1 \in DOMAIN log' => Follows(log'[k], log'[k + 1].base)
           /\ log' # <<>> => Follows(log'[Len(log')], Found')
      BY <2>5, <2>11
    <2>13. \A k \in DOMAIN log' : \A e \in ToSet(log'[k].links) : Tracked(e) => e \notin log'[k].base.edges
      <3>1. SUFFICES ASSUME NEW k \in DOMAIN log'
                     PROVE  IsNew(log'[k].links, log'[k].base.edges)
        BY DEF IsNew
      <3>2. CASE k \in DOMAIN log /\ log'[k] = log[k]
        BY <3>2 DEF LinksAreNew
      <3>3. CASE FinishRun /\ log'[k] = [changes |-> changes, links |-> links, base |-> base]
        <4>1. op \in Strategies /\ log'[k].links = links /\ log'[k].base = base
          BY <3>3 DEF FinishRun
        <4>2. QED
          BY <4>1 DEF LinksAreNew
      <3>4. QED
        BY <3>2, <3>3, DiffsStay
    \* The call in progress.
    <2>14. /\ op' \in Strategies =>
                 /\ \A e \in ToSet(links') : Tracked(e) => e \notin base'.edges
                 /\ \A e \in Edges : Tracked(e) => (e \in DueEdges' <=> e \in base'.edges \cup ToSet(links'))
           /\ op' \in {"rollback", "retrieve"} =>
                 \A e \in Edges : Tracked(e) => (e \in DueEdges' <=> e \in base'.edges)
      <3>1. CASE Quiet \/ ApplyWrite
        <4>1. UNCHANGED <<op, links, base>>
          BY <1>1, <3>1, ApplyCases DEF Quiet
        <4>2. DueEdges' = DueEdges
          <5>1. CASE Quiet
            BY <5>1 DEF Quiet, DueEdges, EdgesDue
          <5>2. CASE ApplyWrite
            BY <1>1, <5>2, OutcomeStays
          <5>3. QED
            BY <3>1, <5>1, <5>2
        <4>3. QED
          BY <4>1, <4>2 DEF LinksAreNew, IsNew, SameTracked
      <3>2. ASSUME op = "idle", base' = [mem |-> mem, edges |-> edges], DueEdges' = edges, links' = links
            PROVE  /\ \A e \in ToSet(links') : Tracked(e) => e \notin base'.edges
                   /\ \A e \in Edges : Tracked(e) => (e \in DueEdges' <=> e \in base'.edges \cup ToSet(links'))
                   /\ \A e \in Edges : Tracked(e) => (e \in DueEdges' <=> e \in base'.edges)
        BY <1>2, <1>3, <3>2
      <3>3. ASSUME NEW selected \in SUBSET Selectable, NEW viaGraph \in SUBSET selected,
                   BeginRetrieve(selected, viaGraph)
            PROVE  op = "idle" /\ base' = [mem |-> mem, edges |-> edges] /\ DueEdges' = edges /\ links' = links
        BY <1>1, <3>3, CopiesAreWhole, RetrieveCases, RetrieveOutcome DEF Tame
      <3>4. ASSUME NEW kind \in {"deduplication", "contradiction_repair", "abstraction"},
                   Starting(kind), UNCHANGED <<todo, changes, links>>
            PROVE  op = "idle" /\ base' = [mem |-> mem, edges |-> edges] /\ DueEdges' = edges /\ links' = links
        <4>1. op = "idle" /\ base' = [mem |-> mem, edges |-> edges] /\ links' = links /\ edges' = edges /\ todo' = todo
          BY <3>4 DEF Starting
        <4>2. DueEdges' = DueEdges
          BY <4>1 DEF DueEdges, EdgesDue
        <4>3. QED
          BY <1>2, <4>1, <4>2
      <3>5. ASSUME BeginDecay
            PROVE  op = "idle" /\ base' = [mem |-> mem, edges |-> edges] /\ DueEdges' = edges /\ links' = links
        BY <1>1, <3>5, DecayCases, DecayOutcome
      <3>6. ASSUME NEW k \in DOMAIN log, BeginRollback(k)
            PROVE  /\ op' = "rollback"
                   /\ \A e \in Edges : Tracked(e) => (e \in DueEdges' <=> e \in base'.edges)
        <4> DEFINE d == log[k]
        <4>1. /\ k = Len(log) /\ op = "idle" /\ op' = "rollback" /\ base' = d.base /\ log # <<>>
              /\ d \in Diffs
          BY <1>1, <3>6, RollbackCases DEF Tame
        <4>2. SameTracked(edges, d.base.edges \cup ToSet(d.links))
          BY <4>1 DEF LinksAreNew, Follows, EdgesAfter, Found
        <4>3. IsNew(d.links, d.base.edges)
          BY DEF LinksAreNew
        <4>4. \A e : e \in DueEdges' <=> e \in edges /\ e \notin ToSet(d.links)
          BY <1>1, <3>6, RollbackOutcome
        <4> HIDE DEF d
        <4>5. QED
          BY <4>1, <4>2, <4>3, <4>4 DEF IsNew, SameTracked
      <3>7. CASE MergePair \/ RepairPair \/ \E t \in Topics : Summarise(t)
        <4>1. op \in Strategies /\ op' = op /\ base' = base
          BY <3>7, StrategyQueues
        <4>2. /\ \A e \in ToSet(links') : Tracked(e) => e \notin base.edges
              /\ \A e \in Edges : Tracked(e) => (e \in DueEdges' <=> e \in base.edges \cup ToSet(links'))
          <5>1. crashes = 0 => Agrees(base.mem, base.edges)
            BY <1>3, <4>1
          <5>2. QED
            BY <3>7, <5>1, LinksOfStrategy
        <4>3. QED
          BY <1>3, <4>1, <4>2
      <3>8. ASSUME (\E i \in Atoms : Ingest(i)) \/ FinishRun \/ FinishCall PROVE op' = "idle"
        BY <3>8, EndingSteps DEF Ready, Ingest, call, Ending
      <3>9. QED
        BY <1>1, <1>3, <1>5, <3>1, <3>2, <3>3, <3>4, <3>5, <3>6, <3>7, <3>8, StepCases
    <2>15. /\ op' \in Strategies =>
                 /\ \A e \in ToSet(links') : Tracked(e)' => e \notin base'.edges
                 /\ \A e \in Edges : Tracked(e)' => (e \in DueEdges' <=> e \in base'.edges \cup ToSet(links'))
           /\ op' \in {"rollback", "retrieve"} =>
                 \A e \in Edges : Tracked(e)' => (e \in DueEdges' <=> e \in base'.edges)
      BY <2>1, <2>14
    <2>16. \A k \in DOMAIN log' : \A e \in ToSet(log'[k].links) : Tracked(e)' => e \notin log'[k].base.edges
      BY <2>1, <2>13
    <2>17. /\ \A k \in DOMAIN log' : k + 1 \in DOMAIN log' =>
                 \A e \in Edges : Tracked(e)' => (e \in log'[k + 1].base.edges <=> e \in EdgesAfter(log'[k]))
           /\ log' # <<>> =>
                 \A e \in Edges : Tracked(e)' => (e \in Found'.edges <=> e \in EdgesAfter(log'[Len(log')]))
      BY <2>1, <2>12 DEF Follows, SameTracked
    <2>18. QED
      BY <2>15, <2>16, <2>17 DEF LinksAreNew, IsNew, SameTracked, Follows
  <1>6. QED
    BY <1>4, <1>5

-----------------------------------------------------------------------------
(***************************************************************************)
(* What the contradictions linked have cost a memory.                      *)
(***************************************************************************)
NewerIn(i, es) == {n \in Ids : Contradicts(i, n) \in es}
Cost(i, S)     == Greatest(10, Trust0[i] - 25 * Cardinality(S))
Owed(i, S)     == IF S = {} THEN Trust0[i] ELSE Cost(i, S)

\* No atom has more trust than the contradictions linked leave it, and none that is
\* not stored has any.
Ledger(m, es) ==
    \A i \in Atoms : IF m[i] = Null THEN NewerIn(i, es) = {}
                     ELSE m[i].trust <= Cost(i, NewerIn(i, es))

\* Every atom has the trust they leave it, and the records of every merge agree.
Sound(m, es) ==
    /\ Agrees(m, es)
    /\ \A i \in Atoms : m[i] # Null => m[i].trust = Owed(i, NewerIn(i, es))

\* Record r of an atom is what b was, in what the records of its merges and
\* contradictions say.
Alike(i, b, r) ==
    IF b = Null
    THEN r = Null \/ (r \in Memory /\ r.trust = Trust0[i] /\ r.canonical = Null /\ r.dups = {})
    ELSE /\ r \in Memory /\ r.trust = b.trust /\ r.canonical = b.canonical /\ r.dups = b.dups

LEMMA CostArithmetic ==
    /\ \A t \in Int, k \in Nat : Greatest(10, Greatest(10, t - 25 * k) - 25) = Greatest(10, t - 25 * (k + 1))
    /\ \A t \in Int, u \in Int, k \in Nat :
          u <= Greatest(10, t - 25 * k) => Greatest(10, u - 25) <= Greatest(10, t - 25 * (k + 1))
    /\ \A t \in Int, k \in Nat, l \in Nat :
          k <= l => Greatest(10, t - 25 * l) <= Greatest(10, t - 25 * k)
    /\ \A t \in Int : t <= Greatest(10, t - 25 * 0) /\ Greatest(10, t - 25 * 1) = Greatest(10, t - 25)
    BY DEF Greatest

\* One more contradiction costs what a repair takes, and fewer cost no more.
LEMMA Costs ==
    ASSUME NEW i \in Atoms, NEW S \in SUBSET Ids
    PROVE  /\ Cost(i, S) \in Int
           /\ Trust0[i] <= Cost(i, {})
           /\ \A T \in SUBSET S : Cost(i, S) <= Cost(i, T)
           /\ \A n \in Ids \ S :
                 /\ Greatest(10, Owed(i, S) - 25) = Owed(i, S \cup {n})
                 /\ \A u \in Int : u <= Cost(i, S) => Greatest(10, u - 25) <= Cost(i, S \cup {n})
  <1>1. IsFiniteSet(S) /\ Cardinality(S) \in Nat
    BY ConstantsAssumption, FS_Subset, FS_CardinalityType
  <1>2. Trust0[i] \in Int /\ Trust0[i] \in Nat
    BY ConstantsAssumption DEF Scores
  <1>3. Cost(i, S) \in Int
    BY <1>1, <1>2 DEF Cost, Greatest
  <1>4. Trust0[i] <= Cost(i, {})
    BY <1>2, CostArithmetic, FS_EmptySet DEF Cost
  <1>5. ASSUME NEW T \in SUBSET S PROVE Cost(i, S) <= Cost(i, T)
    <2>1. IsFiniteSet(T) /\ Cardinality(T) \in Nat /\ Cardinality(T) <= Cardinality(S)
      BY <1>1, FS_Subset, FS_CardinalityType
    <2>2. QED
      BY <1>1, <1>2, <2>1, CostArithmetic DEF Cost
  <1>6. ASSUME NEW n \in Ids \ S
        PROVE  /\ Greatest(10, Owed(i, S) - 25) = Owed(i, S \cup {n})
               /\ \A u \in Int : u <= Cost(i, S) => Greatest(10, u - 25) <= Cost(i, S \cup {n})
    <2>1. Cardinality(S \cup {n}) = Cardinality(S) + 1 /\ S \cup {n} # {}
      BY <1>1, FS_AddElement
    <2>2. \A u \in Int : u <= Cost(i, S) => Greatest(10, u - 25) <= Cost(i, S \cup {n})
      BY <1>1, <1>2, <2>1, CostArithmetic DEF Cost
    <2>3. CASE S = {}
      <3>1. Cardinality(S) = 0 /\ Cardinality(S \cup {n}) = 1
        BY <2>1, <2>3, FS_EmptySet
      <3>2. Owed(i, S) = Trust0[i] /\ Owed(i, S \cup {n}) = Greatest(10, Trust0[i] - 25 * 1)
        BY <2>1, <2>3, <3>1 DEF Owed, Cost
      <3>3. QED
        BY <1>2, <2>2, <3>2, CostArithmetic
    <2>4. CASE S # {}
      <3>1. /\ Owed(i, S) = Greatest(10, Trust0[i] - 25 * Cardinality(S))
            /\ Owed(i, S \cup {n}) = Greatest(10, Trust0[i] - 25 * (Cardinality(S) + 1))
        BY <2>1, <2>4 DEF Owed, Cost
      <3>2. QED
        <4> DEFINE k == Cardinality(S)
        <4>1. k \in Nat /\ k > 0
          BY <1>1, <2>4, FS_EmptySet
        <4> HIDE DEF k
        <4>2. Greatest(10, Greatest(10, Trust0[i] - 25 * k) - 25) = Greatest(10, Trust0[i] - 25 * (k + 1))
          BY <1>2, <4>1 DEF Greatest
        <4>3. QED
          BY <2>2, <3>1, <4>2 DEF k
    <2>5. QED
      BY <2>3, <2>4
  <1>7. QED
    BY <1>3, <1>4, <1>5, <1>6

\* Edges of one kind tell the others nothing.
LEMMA TrackedEdges ==
    ASSUME NEW es, NEW fs, SameTracked(es, fs)
    PROVE  /\ \A i \in Ids : NewerIn(i, es) = NewerIn(i, fs)
           /\ crashes = 0 => \A d, c \in Atoms :
                 /\ SameAs(d, c) \in es <=> SameAs(d, c) \in fs
                 /\ DerivedFrom(c, d) \in es <=> DerivedFrom(c, d) \in fs
  <1>1. \A i, n \in Ids : Contradicts(i, n) \in Edges /\ Tracked(Contradicts(i, n))
    BY DEF Contradicts, Edges, EdgeKinds, Tracked
  <1>2. \A d, c \in Atoms :
            /\ SameAs(d, c) \in Edges /\ DerivedFrom(c, d) \in Edges
            /\ crashes = 0 => Tracked(SameAs(d, c)) /\ Tracked(DerivedFrom(c, d))
    BY DEF SameAs, DerivedFrom, Edges, EdgeKinds, Tracked, Ids
  <1>3. \A i, n \in Ids : Contradicts(i, n) \in es <=> Contradicts(i, n) \in fs
    BY <1>1 DEF SameTracked
  <1>4. QED
    BY <1>2, <1>3 DEF SameTracked, NewerIn

\* A ledger holds for all that is alike.
LEMMA LedgerKept ==
    ASSUME NEW b \in Snapshots, NEW m \in Snapshots, NEW es, NEW fs,
           \A i \in Atoms : Alike(i, b[i], m[i]) /\ NewerIn(i, fs) = NewerIn(i, es), Ledger(b, es)
    PROVE  /\ Ledger(m, fs)
           /\ /\ Sound(b, es)
              /\ \A d, c \in Atoms : /\ SameAs(d, c) \in es <=> SameAs(d, c) \in fs
                                     /\ DerivedFrom(c, d) \in es <=> DerivedFrom(c, d) \in fs
              => Sound(m, fs)
  <1>1. \A i \in Atoms : b[i] = Null => NewerIn(i, fs) = {}
    BY DEF Ledger
  <1>2. Null \notin Memory /\ Null \notin Ids /\ \A i \in Atoms : i \in Ids
    BY ConstantsAssumption DEF Ids
  <1>3. ASSUME NEW i \in Atoms
        PROVE  IF m[i] = Null THEN NewerIn(i, fs) = {} ELSE m[i].trust <= Cost(i, NewerIn(i, fs))
    <2>1. CASE b[i] = Null
      <3>1. Trust0[i] <= Cost(i, {})
        BY Costs
      <3>2. m[i] # Null => m[i].trust = Trust0[i]
        BY <2>1 DEF Alike
      <3>3. QED
        BY <1>1, <2>1, <3>1, <3>2
    <2>2. CASE b[i] # Null
      <3>1. m[i] \in Memory /\ m[i].trust = b[i].trust
        BY <2>2 DEF Alike
      <3>2. b[i].trust <= Cost(i, NewerIn(i, es))
        BY <2>2 DEF Ledger
      <3>3. QED
        BY <1>2, <3>1, <3>2
    <2>3. QED
      BY <2>1, <2>2
  <1>4. ASSUME Sound(b, es),
               \A d, c \in Atoms : /\ SameAs(d, c) \in es <=> SameAs(d, c) \in fs
                                   /\ DerivedFrom(c, d) \in es <=> DerivedFrom(c, d) \in fs
        PROVE  Sound(m, fs)
    <2>1. ASSUME NEW i \in Atoms, m[i] # Null PROVE m[i].trust = Owed(i, NewerIn(i, fs))
      <3>1. CASE b[i] = Null
        BY <1>1, <2>1, <3>1 DEF Alike, Owed
      <3>2. CASE b[i] # Null
        BY <1>4, <3>2 DEF Alike, Sound
      <3>3. QED
        BY <3>1, <3>2
    <2>2. \A d, c \in Atoms : m[d] # Null /\ m[d].canonical = c <=> b[d] # Null /\ b[d].canonical = c
      BY <1>2 DEF Alike
    <2>3. \A d, c \in Atoms : m[c] # Null /\ d \in m[c].dups <=> b[c] # Null /\ d \in b[c].dups
      BY <1>2 DEF Alike
    <2>4. Agrees(b, es)
      BY <1>4 DEF Sound
    <2>5. ASSUME NEW d \in Atoms, NEW c \in Atoms
          PROVE  LET merged == SameAs(d, c) \in fs
                 IN /\ merged <=> DerivedFrom(c, d) \in fs
                    /\ merged <=> m[d] # Null /\ m[d].canonical = c
                    /\ merged <=> m[c] # Null /\ d \in m[c].dups
      <3>1. LET merged == SameAs(d, c) \in es
            IN /\ merged <=> DerivedFrom(c, d) \in es
               /\ merged <=> b[d] # Null /\ b[d].canonical = c
               /\ merged <=> b[c] # Null /\ d \in b[c].dups
        BY <2>4 DEF Agrees
      <3>2. QED
        BY <1>4, <2>2, <2>3, <3>1
    <2>6. QED
      BY <2>1, <2>5 DEF Sound, Agrees
  <1>5. QED
    BY <1>3, <1>4 DEF Ledger

\* What is the same but for accesses, or fresh, is alike.
LEMMA AlikeRecords ==
    ASSUME NEW i \in Atoms, NEW b \in MemoryOrNull, NEW r \in MemoryOrNull
    PROVE  /\ Alike(i, b, b)
           /\ Kept(b, i, r) => Alike(i, b, r)
           /\ b # Null => Alike(i, b, Archived(b))
           /\ Alike(i, Null, FreshMemory(i))
  <1>1. Null \notin Memory /\ FreshMemory(i) \in Memory
    BY ConstantsAssumption, FreshMemoryType
  <1>2. b # Null => b \in Memory /\ Archived(b) \in Memory
    BY DEF MemoryOrNull, Archived, Memory
  <1>3. Alike(i, b, b)
    BY <1>2 DEF Alike
  <1>4. b # Null => Alike(i, b, Archived(b))
    BY <1>1, <1>2 DEF Alike, Archived, Memory
  <1>5. Alike(i, Null, FreshMemory(i))
    BY <1>1 DEF Alike, FreshMemory
  <1>6. ASSUME Kept(b, i, r) PROVE Alike(i, b, r)
    <2>1. CASE b = Null
      <3>1. r = Null \/ SameButAccess(r, FreshMemory(i))
        BY <1>6, <2>1 DEF Kept
      <3>2. CASE r # Null
        <4>1. r \in Memory /\ SameButAccess(r, FreshMemory(i))
          BY <3>1, <3>2 DEF MemoryOrNull
        <4>2. /\ r.trust = FreshMemory(i).trust /\ r.canonical = FreshMemory(i).canonical
              /\ r.dups = FreshMemory(i).dups
          BY <1>1, <4>1, AccessesAside
        <4>3. QED
          BY <2>1, <4>1, <4>2 DEF Alike, FreshMemory
      <3>3. QED
        BY <2>1, <3>1, <3>2 DEF Alike
    <2>2. CASE b # Null
      <3>1. r \in Memory /\ b \in Memory /\ SameButAccess(r, b)
        BY <1>2, <1>6, <2>2 DEF Kept, MemoryOrNull
      <3>2. r.trust = b.trust /\ r.canonical = b.canonical /\ r.dups = b.dups
        BY <3>1, AccessesAside
      <3>3. QED
        BY <2>2, <3>1, <3>2 DEF Alike
    <2>3. QED
      BY <2>1, <2>2
  <1>7. QED
    BY <1>3, <1>4, <1>5, <1>6

-----------------------------------------------------------------------------
(***************************************************************************)
(* A repair, pair by pair.                                                 *)
(***************************************************************************)
\* The memories a repair has read keep the merges they had; and a memory that is
\* still to be the newer of a pair keeps its trust, since the pairs in which it is
\* the older come last.
RepairTrust ==
    op = "contradiction_repair" =>
        /\ work \subseteq ObservedOrder
        /\ \A m \in Outcomes, i \in Ids : snap[i] # Null =>
              m[i] # Null /\ m[i].canonical = snap[i].canonical /\ m[i].dups = snap[i].dups
        /\ \A m \in Outcomes : \A p \in work : m[p[2]] # Null /\ m[p[2]].trust = snap[p[2]].trust

\* The order of a repair is strict.
LEMMA ObservedStrictly ==
    ASSUME TypeOK
    PROVE  /\ \A o, n : <<o, n>> \in ObservedOrder => <<n, o>> \notin ObservedOrder
           /\ \A o : <<o, o>> \notin ObservedOrder
           /\ \A p \in ObservedOrder : /\ p = <<p[1], p[2]>> /\ p[1] \in Ids /\ p[2] \in Ids
                                       /\ snap[p[1]] # Null /\ snap[p[2]] # Null
  <1>1. \A i \in Ids : i \in Nat /\ (snap[i] # Null => snap[i].observed \in Nat)
    BY ConstantsAssumption, TypedState DEF Memory
  <1>2. \A p \in ObservedOrder :
            /\ p = <<p[1], p[2]>> /\ p[1] \in Ids /\ p[2] \in Ids
            /\ snap[p[1]] # Null /\ snap[p[2]] # Null
            /\ \/ snap[p[1]].observed < snap[p[2]].observed
               \/ snap[p[1]].observed = snap[p[2]].observed /\ p[1] < p[2]
    BY DEF ObservedOrder
  <1>3. ASSUME NEW o, NEW n, <<o, n>> \in ObservedOrder
        PROVE  /\ o \in Nat /\ n \in Nat /\ snap[o].observed \in Nat /\ snap[n].observed \in Nat
               /\ \/ snap[o].observed < snap[n].observed
                  \/ snap[o].observed = snap[n].observed /\ o < n
    BY <1>1, <1>2, <1>3
  <1>4. \A a, b, x, y \in Nat :
            (a < b \/ (a = b /\ x < y)) => ~(b < a \/ (b = a /\ y < x))
    OBVIOUS
  <1>5. ASSUME NEW o, NEW n, <<o, n>> \in ObservedOrder, <<n, o>> \in ObservedOrder PROVE FALSE
    BY <1>3, <1>4, <1>5
  <1>6. QED
    BY <1>2, <1>5

\* The newer memory of the first pair is not the older of a pair done before.
LEMMA FirstPair ==
    ASSUME TypeOK, work \subseteq ObservedOrder, NEW o, NEW n, IsFirst(<<o, n>>, ObservedOrder)
    PROVE  <<o, n>> \in work /\ \A p \in work : p[2] # o
  <1>1. /\ <<o, n>> \in work
        /\ \A q \in work \ {<<o, n>>} :
              <<o, q[1]>> \in ObservedOrder \/ (o = q[1] /\ <<n, q[2]>> \in ObservedOrder)
    BY DEF IsFirst
  <1>2. ASSUME NEW p \in work, p[2] = o PROVE FALSE
    <2>1. p = <<p[1], o>> /\ <<p[1], o>> \in ObservedOrder
      BY <1>2, ObservedStrictly
    <2>2. <<o, p[1]>> \notin ObservedOrder /\ o # p[1] /\ <<o, o>> \notin ObservedOrder
      BY <2>1, ObservedStrictly
    <2>3. CASE p = <<o, n>>
      BY <2>2, <2>3
    <2>4. CASE p # <<o, n>>
      BY <1>1, <1>2, <2>2, <2>4
    <2>5. QED
      BY <2>3, <2>4
  <1>3. QED
    BY <1>1, <1>2

LEMMA RepairTrustStep ==
    ASSUME RecordInv, RepairReads, RepairTrust, [Next]_vars
    PROVE  RepairTrust'
  <1>1. /\ TypeOK /\ TypeOK' /\ ReadAreStored /\ WritesAreWhole /\ RepairIsCurrent /\ WritesOfOthers
    BY StoredStep DEF RecordInv, StoredInv
  <1>2. SUFFICES ASSUME op' = "contradiction_repair" PROVE RepairTrust'
    BY DEF RepairTrust
  <1>3. op = "idle" => todo = <<>>
    BY <1>1 DEF WritesAreWhole
  <1>4. CASE BeginRepair
    <2>1. /\ op = "idle" /\ snap' = ActiveSnapshot /\ mem' = mem /\ todo' = todo
          /\ \A p \in work' : /\ p \in Active \X Active /\ Earlier(p[1], p[2])
      BY <1>4 DEF Ready, BeginRepair, BeginRun, Begin, stores
    <2>2. Outcomes = {mem}
      BY <1>1, <1>3, <2>1, OutcomeOfNothing
    <2>3. Outcomes' = {mem}
      BY <2>1, <2>2 DEF Outcomes, ComesTo, Awaits
    <2>4. \A i \in Ids : snap'[i] # Null <=> i \in Active
      BY <2>1 DEF ActiveSnapshot, Active, IsActive
    <2>5. \A i \in Active : i \in Ids /\ mem[i] # Null /\ snap'[i] = mem[i]
      BY <2>1 DEF ActiveSnapshot, Active, IsActive
    <2>6. ObservedOrder' = {q \in Active \X Active : \/ mem[q[1]].observed < mem[q[2]].observed
                                                     \/ mem[q[1]].observed = mem[q[2]].observed /\ q[1] < q[2]}
      <3>1. {i \in Ids : snap'[i] # Null} = Active
        BY <2>4, <2>5
      <3>2. ObservedOrder' = {q \in Active \X Active :
                \/ snap'[q[1]].observed < snap'[q[2]].observed
                \/ snap'[q[1]].observed = snap'[q[2]].observed /\ q[1] < q[2]}
        BY <3>1 DEF ObservedOrder
      <3>3. QED
        BY <2>5, <3>2
    <2>7. work' \subseteq ObservedOrder'
      BY <2>1, <2>6 DEF Earlier
    <2>8. QED
      BY <2>3, <2>4, <2>5, <2>7, <2>1 DEF RepairTrust
  <1>5. CASE RepairPair
    <2>1. op = "contradiction_repair" /\ todo = <<>> /\ UNCHANGED <<mem, snap>>
          /\ \A p \in work : p[1] # p[2]
      BY <1>1, <1>5, RepairCases DEF RepairReads
    <2>2. PICK o \in Ids, n \in Ids, older \in Memory, newer \in Memory :
              /\ o # n /\ IsActive(mem[o]) /\ IsActive(mem[n])
              /\ snap[o] # Null /\ IsActive(snap[n]) /\ snap[n] \in Memory
              /\ IsFirst(<<o, n>>, ObservedOrder) /\ Contradicts(o, n) \notin known
              /\ work' = work \ {<<o, n>>} /\ known' = known \cup {Contradicts(o, n)}
              /\ older = OlderAfter(mem[o], n) /\ newer = NewerAfter(snap[n], o)
              /\ IsActive(older) /\ IsActive(newer)
              /\ todo' = <<Put(o, older, TRUE, FALSE), Put(n, newer, TRUE, FALSE),
                           Link(Contradicts(o, n))>>
              /\ changes' = changes \o <<Change(o, mem[o], older), Change(n, snap[n], newer)>>
              /\ links' = Append(links, Contradicts(o, n))
              /\ \A z \in Outcomes' :
                    /\ z[o] = older /\ z[n] = newer
                    /\ \A j \in Ids : j # o /\ j # n => z[j] = mem[j]
              /\ DueEdges' = edges \cup {Contradicts(o, n)}
      BY <1>1, <1>5, <2>1, RepairOutcome
    <2>3. /\ work \subseteq ObservedOrder
          /\ \A i \in Ids : snap[i] # Null =>
                mem[i] # Null /\ mem[i].canonical = snap[i].canonical /\ mem[i].dups = snap[i].dups
          /\ \A p \in work : mem[p[2]] # Null /\ mem[p[2]].trust = snap[p[2]].trust
      BY <1>1, <2>1, OutcomeOfNothing DEF RepairTrust
    <2>4. <<o, n>> \in work /\ \A p \in work : p[2] # o
      BY <1>1, <2>2, <2>3, FirstPair
    <2>5. ObservedOrder' = ObservedOrder
      BY <2>1 DEF ObservedOrder
    <2>6. /\ older.canonical = mem[o].canonical /\ older.dups = mem[o].dups /\ older # Null
          /\ newer.canonical = snap[n].canonical /\ newer.dups = snap[n].dups
          /\ newer.trust = snap[n].trust /\ newer # Null
      <3>1. mem[o] \in Memory /\ older # Null /\ newer # Null
        BY <1>1, <2>2, TypedState DEF IsActive
      <3>2. QED
        BY <2>2, <3>1 DEF OlderAfter, NewerAfter, Memory
    <2>7. ASSUME NEW z \in Outcomes', NEW i \in Ids, snap'[i] # Null
          PROVE  z[i] # Null /\ z[i].canonical = snap'[i].canonical /\ z[i].dups = snap'[i].dups
      <3>1. z[o] = older /\ z[n] = newer /\ (i # o /\ i # n => z[i] = mem[i])
        BY <2>2, <2>7
      <3>2. snap'[i] = snap[i] /\ snap[i] # Null
        BY <2>1, <2>7
      <3>3. /\ mem[i] # Null /\ mem[i].canonical = snap[i].canonical
            /\ mem[i].dups = snap[i].dups
        BY <2>3, <3>2
      <3>4. CASE i = o
        BY <2>6, <3>1, <3>2, <3>3, <3>4
      <3>5. CASE i = n
        BY <2>6, <3>1, <3>2, <3>5
      <3>6. CASE i # o /\ i # n
        BY <3>1, <3>2, <3>3, <3>6
      <3>7. QED
        BY <3>4, <3>5, <3>6
    <2>8. ASSUME NEW z \in Outcomes', NEW p \in work'
          PROVE  z[p[2]] # Null /\ z[p[2]].trust = snap'[p[2]].trust
      <3>1. p \in work /\ p[2] # o
        BY <2>2, <2>4
      <3>2. p[2] \in Ids
        BY <1>1, <2>3, <3>1, ObservedStrictly
      <3>3. QED
        BY <2>1, <2>2, <2>3, <2>6, <3>1, <3>2
    <2>9. work' \subseteq ObservedOrder'
      BY <2>2, <2>3, <2>5
    <2>10. QED
      BY <2>7, <2>8, <2>9 DEF RepairTrust
  <1>6. CASE ApplyWrite
    <2>1. UNCHANGED <<op, snap, work>>
      BY <1>6 DEF ApplyWrite
    <2>2. Outcomes' \subseteq Outcomes
      BY <1>1, <1>6, OutcomeStays
    <2>3. ObservedOrder' = ObservedOrder
      BY <2>1 DEF ObservedOrder
    <2>4. QED
      BY <1>2, <2>1, <2>2, <2>3 DEF RepairTrust
  <1>7. ASSUME UNCHANGED <<op, mem, snap, todo>>, work' \subseteq work PROVE RepairTrust'
    <2>1. ObservedOrder' = ObservedOrder /\ Outcomes' = Outcomes
      BY <1>7 DEF ObservedOrder, Outcomes, ComesTo, Awaits
    <2>2. QED
      BY <1>2, <1>7, <2>1 DEF RepairTrust
  <1>8. CASE SkipPair \/ CopyWrite \/ UNCHANGED vars
    <2>1. UNCHANGED <<op, mem, snap, todo>> /\ work' \subseteq work
      BY <1>8 DEF SkipPair, CopyWrite, stores, vars, call
    <2>2. QED
      BY <1>7, <2>1
  <1>9. CASE ~(BeginRepair \/ RepairPair \/ ApplyWrite \/ SkipPair \/ CopyWrite \/ UNCHANGED vars)
    <2>1. op' # "contradiction_repair"
      BY <1>1, <1>9 DEF Ready, CopyWrite, Next, Ingest, BeginRetrieve, BeginDeduplication, MergePair, PassPair,
         BeginAbstraction, Summarise, BeginDecay, BeginRollback, FinishRun, FinishCall, Tick, Crash,
         BeginRun, Begin, Return, Examine, call
    <2>2. QED
      BY <1>2, <2>1
  <1>10. QED
    BY <1>4, <1>5, <1>6, <1>8, <1>9

-----------------------------------------------------------------------------
(***************************************************************************)
(* What a merge and a repair do to the ledger.                             *)
(***************************************************************************)
LEMMA MergeBooks ==
    ASSUME TypeOK, DeduplicationIsCurrent, MergedAreArchived, MergePair, Ledger(mem, edges),
           NEW m \in Outcomes'
    PROVE  Ledger(m, DueEdges') /\ (Sound(mem, edges) => Sound(m, DueEdges'))
  <1>1. PICK c \in Ids, d \in Ids, canonical \in Memory, duplicate \in Memory :
              /\ c # d /\ IsActive(mem[c]) /\ IsActive(mem[d])
              /\ canonical = CanonicalAfter(mem[c], mem[d], d) /\ duplicate = DuplicateAfter(mem[d], c)
              /\ todo' = <<Put(c, canonical, TRUE, FALSE), Put(d, duplicate, TRUE, FALSE),
                           Link(SameAs(d, c)), Link(DerivedFrom(c, d))>>
              /\ changes' = changes \o <<Change(c, mem[c], canonical), Change(d, mem[d], duplicate)>>
              /\ links' = links \o <<SameAs(d, c), DerivedFrom(c, d)>>
              /\ \A n \in Outcomes' :
                    /\ n[c] = canonical /\ n[d] = duplicate
                    /\ \A j \in Ids : j # c /\ j # d => n[j] = mem[j]
              /\ DueEdges' = edges \cup {SameAs(d, c), DerivedFrom(c, d)}
    BY MergeOutcome
  <1> DEFINE fs == DueEdges'
  <1>2. Null \notin Memory /\ Null \notin Ids /\ \A i \in Atoms : i \in Ids
    BY ConstantsAssumption DEF Ids
  <1>3. /\ mem[c] # Null /\ mem[d] # Null /\ m[c] # Null /\ m[d] # Null
        /\ m[c].trust = mem[c].trust /\ m[c].canonical = mem[c].canonical
        /\ m[c].dups = mem[c].dups \cup {d}
        /\ m[d].trust = mem[d].trust /\ m[d].canonical = c /\ m[d].dups = mem[d].dups
        /\ \A j \in Ids : j # c /\ j # d => m[j] = mem[j]
    <2>1. mem[c] \in Memory /\ mem[d] \in Memory
      BY <1>1, TypedState DEF IsActive
    <2>2. m[c] = CanonicalAfter(mem[c], mem[d], d) /\ m[d] = DuplicateAfter(mem[d], c)
      BY <1>1
    <2>3. m[c] \in Memory /\ m[d] \in Memory
      BY <1>1
    <2>4. /\ m[c].trust = mem[c].trust /\ m[c].canonical = mem[c].canonical
          /\ m[c].dups = mem[c].dups \cup {d}
      BY <2>1, <2>2 DEF CanonicalAfter, Memory
    <2>5. m[d].trust = mem[d].trust /\ m[d].canonical = c /\ m[d].dups = mem[d].dups
      BY <2>1, <2>2 DEF DuplicateAfter, Memory
    <2>6. QED
      BY <1>1, <1>2, <2>1, <2>3, <2>4, <2>5
  <1>4. \A i \in Ids : (m[i] = Null <=> mem[i] = Null) /\ (m[i] # Null => m[i].trust = mem[i].trust)
    BY <1>3
  <1>5. \A i \in Atoms : NewerIn(i, fs) = NewerIn(i, edges)
    BY <1>1 DEF NewerIn, Contradicts, SameAs, DerivedFrom
  <1>6. Ledger(m, fs)
    BY <1>2, <1>4, <1>5 DEF Ledger
  <1>7. ASSUME Sound(mem, edges) PROVE Sound(m, fs)
    <2>1. \A i \in Atoms : m[i] # Null => m[i].trust = Owed(i, NewerIn(i, fs))
      BY <1>2, <1>4, <1>5, <1>7 DEF Sound
    <2>2. /\ \A x, y : SameAs(x, y) \in fs <=> SameAs(x, y) \in edges \/ (x = d /\ y = c)
          /\ \A x, y : DerivedFrom(y, x) \in fs <=> DerivedFrom(y, x) \in edges \/ (x = d /\ y = c)
      BY <1>1 DEF SameAs, DerivedFrom
    <2>3. d \in Atoms => \A y \in Atoms : SameAs(d, y) \notin edges
      BY <1>1, <1>2 DEF MergedAreArchived, IsActive
    <2> HIDE DEF fs
    <2>4. ASSUME NEW x \in Atoms, NEW y \in Atoms
          PROVE  LET merged == SameAs(x, y) \in fs
                 IN /\ merged <=> DerivedFrom(y, x) \in fs
                    /\ merged <=> m[x] # Null /\ m[x].canonical = y
                    /\ merged <=> m[y] # Null /\ x \in m[y].dups
      <3>1. LET merged == SameAs(x, y) \in edges
            IN /\ merged <=> DerivedFrom(y, x) \in edges
               /\ merged <=> mem[x] # Null /\ mem[x].canonical = y
               /\ merged <=> mem[y] # Null /\ x \in mem[y].dups
        BY <1>7 DEF Sound, Agrees
      <3>2. SameAs(x, y) \in fs <=> DerivedFrom(y, x) \in fs
        BY <2>2, <3>1
      <3>3. SameAs(x, y) \in fs <=> m[x] # Null /\ m[x].canonical = y
        <4>1. CASE x = d
          BY <1>3, <2>2, <2>3, <4>1
        <4>2. CASE x # d
          BY <1>2, <1>3, <2>2, <3>1, <4>2
        <4>3. QED
          BY <4>1, <4>2
      <3>4. SameAs(x, y) \in fs <=> m[y] # Null /\ x \in m[y].dups
        <4>1. CASE y = c
          BY <1>3, <2>2, <3>1, <4>1
        <4>2. CASE y # c
          BY <1>2, <1>3, <2>2, <3>1, <4>2
        <4>3. QED
          BY <4>1, <4>2
      <3>5. QED
        BY <3>2, <3>3, <3>4
    <2>5. QED
      BY <2>1, <2>4 DEF Sound, Agrees
  <1>8. QED
    BY <1>6, <1>7

LEMMA RepairBooks ==
    ASSUME RecordInv, RepairReads, RepairTrust, LinksAreNew, RepairPair, Ledger(mem, edges),
           NEW m \in Outcomes'
    PROVE  Ledger(m, DueEdges') /\ (Sound(mem, edges) => Sound(m, DueEdges'))
  <1>1. /\ TypeOK /\ ReadAreStored /\ RepairIsCurrent
        /\ op = "contradiction_repair" /\ todo = <<>> /\ op \in Strategies
        /\ (\A p \in work : p[1] # p[2]) /\ known = base.edges \cup ToSet(links)
    BY DEF RecordInv, StoredInv, RepairPair, Examine, RepairReads, Strategies
  <1>2. PICK o \in Ids, n \in Ids, older \in Memory, newer \in Memory :
              /\ o # n /\ IsActive(mem[o]) /\ IsActive(mem[n])
              /\ snap[o] # Null /\ IsActive(snap[n]) /\ snap[n] \in Memory
              /\ IsFirst(<<o, n>>, ObservedOrder) /\ Contradicts(o, n) \notin known
              /\ work' = work \ {<<o, n>>} /\ known' = known \cup {Contradicts(o, n)}
              /\ older = OlderAfter(mem[o], n) /\ newer = NewerAfter(snap[n], o)
              /\ IsActive(older) /\ IsActive(newer)
              /\ todo' = <<Put(o, older, TRUE, FALSE), Put(n, newer, TRUE, FALSE),
                           Link(Contradicts(o, n))>>
              /\ changes' = changes \o <<Change(o, mem[o], older), Change(n, snap[n], newer)>>
              /\ links' = Append(links, Contradicts(o, n))
              /\ \A z \in Outcomes' :
                    /\ z[o] = older /\ z[n] = newer
                    /\ \A j \in Ids : j # o /\ j # n => z[j] = mem[j]
              /\ DueEdges' = edges \cup {Contradicts(o, n)}
    BY <1>1, RepairOutcome
  <1> DEFINE fs == DueEdges'
  <1>3. Null \notin Memory /\ Null \notin Ids /\ \A i \in Atoms : i \in Ids
    BY ConstantsAssumption DEF Ids
  <1>4. /\ \A i \in Ids : snap[i] # Null =>
              mem[i] # Null /\ mem[i].canonical = snap[i].canonical /\ mem[i].dups = snap[i].dups
        /\ \A p \in work : mem[p[2]] # Null /\ mem[p[2]].trust = snap[p[2]].trust
        /\ <<o, n>> \in work
    BY <1>1, <1>2, OutcomeOfNothing DEF RepairTrust, IsFirst
  <1>5. /\ mem[o] # Null /\ mem[n] # Null /\ m[o] # Null /\ m[n] # Null
        /\ m[o].trust = Greatest(10, mem[o].trust - 25)
        /\ m[o].canonical = mem[o].canonical /\ m[o].dups = mem[o].dups
        /\ m[n].trust = mem[n].trust /\ m[n].canonical = mem[n].canonical /\ m[n].dups = mem[n].dups
        /\ \A j \in Ids : j # o /\ j # n => m[j] = mem[j]
    <2>1. mem[o] \in Memory /\ mem[n] \in Memory
      BY <1>1, <1>2, TypedState DEF IsActive
    <2>2. /\ m[o] = OlderAfter(mem[o], n) /\ m[n] = NewerAfter(snap[n], o)
          /\ m[o] \in Memory /\ m[n] \in Memory
      BY <1>2
    <2>3. /\ m[o].trust = Greatest(10, mem[o].trust - 25)
          /\ m[o].canonical = mem[o].canonical /\ m[o].dups = mem[o].dups
      BY <2>1, <2>2 DEF OlderAfter, Memory
    <2>4. /\ m[n].trust = snap[n].trust /\ m[n].canonical = snap[n].canonical
          /\ m[n].dups = snap[n].dups
      BY <1>2, <2>2 DEF NewerAfter, Memory
    <2>5. mem[n].trust = snap[n].trust /\ mem[n].canonical = snap[n].canonical
          /\ mem[n].dups = snap[n].dups
      BY <1>2, <1>4 DEF IsActive
    <2>6. QED
      BY <1>2, <1>3, <2>1, <2>2, <2>3, <2>4, <2>5
  <1>6. Contradicts(o, n) \notin edges
    <2>1. SameTracked(edges, base.edges \cup ToSet(links))
      BY <1>1, OutcomeOfNothing DEF LinksAreNew
    <2>2. Contradicts(o, n) \in Edges /\ Tracked(Contradicts(o, n))
      BY DEF Contradicts, Edges, EdgeKinds, Tracked
    <2>3. QED
      BY <1>1, <1>2, <2>1, <2>2 DEF SameTracked
  <1>7. /\ NewerIn(o, fs) = NewerIn(o, edges) \cup {n} /\ n \notin NewerIn(o, edges)
        /\ \A i \in Ids : i # o => NewerIn(i, fs) = NewerIn(i, edges)
    BY <1>2, <1>6 DEF NewerIn, Contradicts
  <1>8. ASSUME o \in Atoms
        PROVE  /\ m[o].trust <= Cost(o, NewerIn(o, fs))
               /\ mem[o].trust = Owed(o, NewerIn(o, edges)) => m[o].trust = Owed(o, NewerIn(o, fs))
    <2>1. mem[o].trust <= Cost(o, NewerIn(o, edges)) /\ mem[o].trust \in Int
      <3>1. mem[o].trust <= Cost(o, NewerIn(o, edges))
        BY <1>5, <1>8 DEF Ledger
      <3>2. mem[o] \in Memory
        BY <1>1, <1>5, TypedState
      <3>3. QED
        BY <3>1, <3>2 DEF Memory, Scores
    <2>2. NewerIn(o, edges) \in SUBSET Ids /\ n \in Ids \ NewerIn(o, edges)
      BY <1>7 DEF NewerIn
    <2>3. QED
      BY <1>5, <1>7, <1>8, <2>1, <2>2, Costs
  <1>9. Ledger(m, fs)
    <2>1. ASSUME NEW i \in Atoms, i # o
          PROVE  IF m[i] = Null THEN NewerIn(i, fs) = {} ELSE m[i].trust <= Cost(i, NewerIn(i, fs))
      BY <1>3, <1>5, <1>7, <2>1 DEF Ledger
    <2>2. QED
      BY <1>5, <1>8, <2>1 DEF Ledger
  <1>10. ASSUME Sound(mem, edges) PROVE Sound(m, fs)
    <2>1. \A i \in Atoms : m[i] # Null => m[i].trust = Owed(i, NewerIn(i, fs))
      <3>1. ASSUME NEW i \in Atoms, i # o, m[i] # Null PROVE m[i].trust = Owed(i, NewerIn(i, fs))
        BY <1>3, <1>5, <1>7, <1>10, <3>1 DEF Sound
      <3>2. o \in Atoms => mem[o].trust = Owed(o, NewerIn(o, edges))
        BY <1>5, <1>10 DEF Sound
      <3>3. QED
        BY <1>8, <3>1, <3>2
    <2>2. \A x, y : /\ SameAs(x, y) \in fs <=> SameAs(x, y) \in edges
                    /\ DerivedFrom(y, x) \in fs <=> DerivedFrom(y, x) \in edges
      BY <1>2 DEF SameAs, DerivedFrom, Contradicts
    <2>3. \A i \in Ids : (m[i] = Null <=> mem[i] = Null)
                         /\ (m[i] # Null => m[i].canonical = mem[i].canonical /\ m[i].dups = mem[i].dups)
      BY <1>5
    <2> HIDE DEF fs
    <2>4. Agrees(m, fs)
      BY <1>3, <1>10, <2>2, <2>3 DEF Sound, Agrees
    <2>5. QED
      BY <2>1, <2>4 DEF Sound
  <1>11. QED
    BY <1>9, <1>10

-----------------------------------------------------------------------------
(***************************************************************************)
(* The ledger holds for what is due, for what the call in progress found,  *)
(* and for what every diff found.                                          *)
(***************************************************************************)
InBooks(m, es) == Ledger(m, es) /\ (crashes = 0 => Sound(m, es))

LedgersHold ==
    /\ \A m \in Outcomes : InBooks(m, DueEdges)
    /\ op # "idle" => InBooks(base.mem, base.edges)
    /\ \A k \in DOMAIN log : InBooks(log[k].base.mem, log[k].base.edges)

\* At every instant, too, no atom has more trust than the contradictions linked leave it.
TrustIsBounded == \A i \in Atoms : mem[i] # Null => mem[i].trust <= Cost(i, NewerIn(i, edges))

\* What is alike to what is in the books is in the books.
LEMMA BooksKept ==
    ASSUME NEW b \in Snapshots, NEW m \in Snapshots, NEW es, NEW fs,
           \A i \in Atoms : Alike(i, b[i], m[i]), SameTracked(fs, es), InBooks(b, es)
    PROVE  InBooks(m, fs)
  <1>1. /\ \A i \in Ids : NewerIn(i, fs) = NewerIn(i, es)
        /\ crashes = 0 => \A d, c \in Atoms : /\ SameAs(d, c) \in es <=> SameAs(d, c) \in fs
                                              /\ DerivedFrom(c, d) \in es <=> DerivedFrom(c, d) \in fs
    BY TrackedEdges
  <1>2. \A i \in Atoms : Alike(i, b[i], m[i]) /\ NewerIn(i, fs) = NewerIn(i, es)
    BY <1>1 DEF Ids
  <1>3. Ledger(b, es) /\ (crashes = 0 => Sound(b, es))
    BY DEF InBooks
  <1>4. Ledger(m, fs) /\ (crashes = 0 => Sound(m, fs))
    BY <1>1, <1>2, <1>3, LedgerKept
  <1>5. QED
    BY <1>4 DEF InBooks

LEMMA LedgerStep ==
    ASSUME RecordInv, Tame, MergedAreArchived, RepairReads, RepairTrust, LinksAreNew, LinksAreNew',
           RunsAreRecorded', LedgersHold, TrustIsBounded, [Next]_vars
    PROVE  LedgersHold'
  <1>1. /\ TypeOK /\ TypeOK' /\ CopiesAgree /\ WritesAreWhole /\ DeduplicationIsCurrent
        /\ WritesOfOthers /\ NoDanglingEdges
    BY StoredStep DEF RecordInv, StoredInv
  <1>2. op = "idle" => todo = <<>>
    BY <1>1 DEF WritesAreWhole
  <1>3. todo = <<>> => InBooks(mem, edges)
    BY <1>1, OutcomeOfNothing DEF LedgersHold
  <1>4. /\ mem \in Snapshots /\ \A m : m \in Outcomes' => m \in Snapshots
        /\ \A i \in Atoms : i \in Ids /\ mem[i] \in MemoryOrNull
    BY <1>1 DEF TypeOK, Snapshots, Outcomes, Ids
  <1>5. \A i \in Atoms : Alike(i, mem[i], mem[i])
    BY <1>4, AlikeRecords
  <1>6. ASSUME ~Crash, \A m \in Outcomes' : InBooks(m, DueEdges')
        PROVE  \A m \in Outcomes' : InBooks(m, DueEdges)'
    <2>1. crashes' = crashes
      BY <1>1, <1>6, TrackedStays
    <2>2. QED
      BY <1>6, <2>1 DEF InBooks
  <1>7. ASSUME NEW b \in Snapshots, NEW es, InBooks(b, es), SameTracked(DueEdges', es),
               \A m \in Outcomes' : \A i \in Atoms : Alike(i, b[i], m[i])
        PROVE  \A m \in Outcomes' : InBooks(m, DueEdges')
    BY <1>4, <1>7, BooksKept
  <1>8. /\ ~Crash => \A m, es : InBooks(m, es) <=> (Ledger(m, es) /\ (crashes' = 0 => Sound(m, es)))
        /\ \A es : SameTracked(es, es)
    BY <1>1, TrackedStays DEF InBooks, SameTracked
  <1>9. ASSUME ~Crash PROVE \A m \in Outcomes' : InBooks(m, DueEdges')
    <2>1. CASE ApplyWrite
      BY <1>1, <2>1, OutcomeStays DEF LedgersHold
    <2>2. ASSUME UNCHANGED <<mem, edges, todo>> PROVE \A m \in Outcomes' : InBooks(m, DueEdges')
      <3>1. Outcomes' = Outcomes /\ DueEdges' = DueEdges
        BY <2>2 DEF Outcomes, ComesTo, Awaits, DueEdges, EdgesDue
      <3>2. QED
        BY <3>1 DEF LedgersHold
    <2>3. CASE Quiet
      <3>1. UNCHANGED <<mem, edges, todo>>
        BY <2>3 DEF Quiet
      <3>2. QED
        BY <2>2, <3>1
    <2>4. ASSUME NEW kind, Starting(kind), UNCHANGED <<todo, changes, links>>
          PROVE  \A m \in Outcomes' : InBooks(m, DueEdges')
      <3>1. UNCHANGED <<mem, edges, todo>>
        BY <2>4 DEF Starting
      <3>2. QED
        BY <2>2, <3>1
    <2>5. CASE FinishRun \/ FinishCall
      <3>1. UNCHANGED <<mem, edges, todo>>
        BY <2>5 DEF FinishRun, FinishCall, Return, stores
      <3>2. QED
        BY <2>2, <3>1
    <2>6. ASSUME NEW i \in Atoms, Ingest(i) PROVE \A m \in Outcomes' : InBooks(m, DueEdges')
      <3>1. /\ op = "idle" /\ todo' = <<>> /\ todo = <<>> /\ edges' = edges /\ mem[i] = Null
            /\ mem' = [mem EXCEPT ![i] = FreshMemory(i)]
        BY <1>2, <2>6 DEF Ready, Ingest, call
      <3>2. DueEdges' = edges
        BY <3>1 DEF DueEdges, EdgesDue
      <3>3. ASSUME NEW m \in Outcomes', NEW j \in Atoms PROVE Alike(j, mem[j], m[j])
        <4>1. m[j] = mem'[j]
          BY <1>4, <3>1 DEF Outcomes, ComesTo
        <4>2. mem'[j] = IF j = i THEN FreshMemory(i) ELSE mem[j]
          BY <1>4, <3>1 DEF Snapshots
        <4>3. CASE j = i
          <5>1. FreshMemory(i) \in MemoryOrNull
            BY FreshMemoryType DEF MemoryOrNull
          <5>2. QED
            BY <1>4, <3>1, <4>1, <4>2, <4>3, <5>1, AlikeRecords
        <4>4. CASE j # i
          BY <1>5, <4>1, <4>2, <4>4
        <4>5. QED
          BY <4>3, <4>4
      <3>4. QED
        BY <1>3, <1>4, <1>7, <1>8, <3>1, <3>2, <3>3
    <2>7. ASSUME NEW selected \in SUBSET Selectable, NEW viaGraph \in SUBSET selected,
                 BeginRetrieve(selected, viaGraph)
          PROVE  \A m \in Outcomes' : InBooks(m, DueEdges')
      <3>1. op' = "retrieve" /\ op = "idle" /\ base' = [mem |-> mem, edges |-> edges] /\ DueEdges' = edges
        BY <1>1, <2>7, CopiesAreWhole, RetrieveCases, RetrieveOutcome DEF Tame
      <3>2. ASSUME NEW m \in Outcomes', NEW j \in Atoms PROVE Alike(j, mem[j], m[j])
        <4>1. Kept(mem[j], j, m[j])
          BY <3>1 DEF RunsAreRecorded
        <4>2. m[j] \in MemoryOrNull
          BY <1>4 DEF Snapshots
        <4>3. QED
          BY <1>4, <4>1, <4>2, AlikeRecords
      <3>3. QED
        BY <1>2, <1>3, <1>4, <1>7, <1>8, <3>1, <3>2
    <2>8. CASE BeginDecay
      <3>1. op = "idle" /\ DueEdges' = edges
        BY <1>1, <2>8, DecayOutcome DEF Ready, BeginDecay, Begin
      <3>2. ASSUME NEW m \in Outcomes', NEW j \in Atoms PROVE Alike(j, mem[j], m[j])
        <4>1. m[j] = mem[j] \/ (j \in Active /\ m[j] = Archived(mem[j]))
          BY <1>1, <1>4, <2>8, DecayOutcome
        <4>2. j \in Active => mem[j] # Null
          BY DEF Active, IsActive
        <4>3. QED
          BY <1>4, <4>1, <4>2, AlikeRecords
      <3>3. QED
        BY <1>2, <1>3, <1>4, <1>7, <1>8, <3>1, <3>2
    <2>9. ASSUME NEW k \in DOMAIN log, BeginRollback(k) PROVE \A m \in Outcomes' : InBooks(m, DueEdges')
      <3>1. op' = "rollback" /\ base' = log[k].base /\ log[k].base.mem \in Snapshots
            /\ InBooks(log[k].base.mem, log[k].base.edges)
        <4>1. log[k] \in Diffs
          BY <1>1, ElementOfSeq, LenProperties DEF TypeOK
        <4>2. QED
          BY <2>9, <4>1 DEF BeginRollback, Diffs, Bases, LedgersHold
      <3>2. SameTracked(DueEdges', log[k].base.edges)
        <4>1. \A e : Tracked(e)' = Tracked(e)
          BY <1>1, <1>9, TrackedStays
        <4>2. SameTracked(DueEdges, base.edges)'
          BY <3>1 DEF LinksAreNew
        <4>3. QED
          BY <3>1, <4>1, <4>2 DEF SameTracked
      <3>3. ASSUME NEW m \in Outcomes', NEW j \in Atoms PROVE Alike(j, log[k].base.mem[j], m[j])
        <4>1. Kept(log[k].base.mem[j], j, m[j])
          BY <3>1 DEF RunsAreRecorded
        <4>2. m[j] \in MemoryOrNull /\ log[k].base.mem[j] \in MemoryOrNull
          BY <1>4, <3>1 DEF Snapshots
        <4>3. QED
          BY <4>1, <4>2, AlikeRecords
      <3>4. QED
        BY <1>7, <3>1, <3>2, <3>3
    <2>10. CASE MergePair
      <3>1. InBooks(mem, edges)
        BY <1>3, <2>10 DEF MergePair, Examine
      <3>2. QED
        BY <1>1, <2>10, <3>1, MergeBooks DEF InBooks
    <2>11. CASE RepairPair
      <3>1. InBooks(mem, edges)
        BY <1>3, <2>11 DEF RepairPair, Examine
      <3>2. QED
        BY <2>11, <3>1, RepairBooks DEF InBooks
    <2>12. ASSUME NEW t \in Topics, Summarise(t) PROVE \A m \in Outcomes' : InBooks(m, DueEdges')
      <3>1. InBooks(mem, edges)
        BY <1>3, <2>12 DEF Summarise, Examine
      <3>2. /\ \A m \in Outcomes' : \A i \in Atoms : m[i] = mem[i]
            /\ \A e : e[1] # "summarizes" => (e \in DueEdges' <=> e \in edges)
        BY <1>1, <2>12, SummaryOutcome
      <3>3. SameTracked(DueEdges', edges)
        BY <3>2 DEF SameTracked, Tracked
      <3>4. QED
        BY <1>4, <1>5, <1>7, <3>1, <3>2, <3>3
    <2>13. QED
      BY <1>1, <1>9, <2>1, <2>3, <2>4, <2>5, <2>6, <2>7, <2>8, <2>9, <2>10, <2>11, <2>12, StepCases
  <1>10. ASSUME ~Crash PROVE \A m \in Outcomes' : InBooks(m, DueEdges)'
    BY <1>6, <1>9, <1>10
  <1>11. ASSUME ~Crash, op' # "idle" PROVE InBooks(base.mem, base.edges)'
    <2>1. crashes' = crashes
      BY <1>1, <1>11, TrackedStays
    <2>2. \/ base' = base /\ op # "idle"
          \/ op = "idle" /\ base' = [mem |-> mem, edges |-> edges]
          \/ \E k \in DOMAIN log : base' = log[k].base
      <3>1. CASE op = "idle"
        BY <1>11, <3>1 DEF Ready, CopyWrite, Next, Ingest, BeginRetrieve, BeginDeduplication, MergePair, PassPair,
           BeginRepair, RepairPair, SkipPair, BeginAbstraction, Summarise, BeginDecay, BeginRollback,
           FinishRun, FinishCall, Tick, ApplyWrite, BeginRun, Begin, Return, Examine, call, vars
      <3>2. CASE op # "idle"
        BY <1>11, <3>2 DEF Ready, CopyWrite, Next, Ingest, BeginRetrieve, BeginDeduplication, MergePair, PassPair,
           BeginRepair, RepairPair, SkipPair, BeginAbstraction, Summarise, BeginDecay, BeginRollback,
           FinishRun, FinishCall, Tick, ApplyWrite, BeginRun, Begin, Return, Examine, call, vars
      <3>3. QED
        BY <3>1, <3>2
    <2>3. InBooks(base'.mem, base'.edges)
      BY <1>2, <1>3, <2>2 DEF LedgersHold
    <2>4. QED
      BY <2>1, <2>3 DEF InBooks
  <1>12. ASSUME ~Crash, NEW k \in DOMAIN log' PROVE InBooks(log[k].base.mem, log[k].base.edges)'
    <2>1. crashes' = crashes
      BY <1>1, <1>12, TrackedStays
    <2>2. \/ k \in DOMAIN log /\ log'[k].base = log[k].base
          \/ FinishRun /\ log'[k].base = base
      BY <1>12, DiffsStay
    <2>3. FinishRun => op # "idle"
      BY DEF FinishRun, Strategies
    <2>4. InBooks(log'[k].base.mem, log'[k].base.edges)
      BY <2>2, <2>3 DEF LedgersHold
    <2>5. QED
      BY <2>1, <2>4 DEF InBooks
  <1>13. CASE Crash
    <2>1. /\ op' = "idle" /\ log' = <<>> /\ todo' = <<>> /\ crashes' # 0
          /\ UNCHANGED <<mem, edges>> /\ \A k : k \notin DOMAIN <<>>
      BY <1>1, <1>13 DEF Crash, Tame, Return, TypeOK
    <2>2. \A m \in Outcomes' : \A i \in Ids : m[i] = mem[i]
      BY <2>1 DEF Outcomes, ComesTo
    <2>3. DueEdges' = edges
      BY <2>1 DEF DueEdges, EdgesDue
    <2>4. \A i \in Atoms : mem[i] = Null => NewerIn(i, edges) = {}
      BY <1>1 DEF NoDanglingEdges, NewerIn, Contradicts
    <2>5. \A m \in Outcomes' : Ledger(m, DueEdges')
      BY <1>4, <2>2, <2>3, <2>4 DEF Ledger, TrustIsBounded
    <2>6. QED
      BY <2>1, <2>5 DEF LedgersHold, InBooks
  <1>14. QED
    BY <1>10, <1>11, <1>12, <1>13 DEF LedgersHold

-----------------------------------------------------------------------------
(***************************************************************************)
(* No write to come gives an atom more trust than the contradictions that  *)
(* will then be linked leave it.                                           *)
(***************************************************************************)
WithinCost(i, u, es) == u <= Cost(i, NewerIn(i, es))

QueueIsBounded ==
    \A k \in DOMAIN todo : todo[k].type = "memory" /\ todo[k].id \in Atoms =>
        WithinCost(todo[k].id, todo[k].rec.trust, DueEdges)

\* Each change of an atom found it stored, with no more trust than it had been left
\* before the run.
Modest(c, es) == c.id \in Atoms => c.before # Null /\ WithinCost(c.id, c.before.trust, es)
ChangesAreModest ==
    /\ op \in Strategies => \A n \in DOMAIN changes : Modest(changes[n], base.edges)
    /\ \A k \in DOMAIN log : \A n \in DOMAIN log[k].changes :
          Modest(log[k].changes[n], log[k].base.edges)

\* Fewer edges cost no more.
LEMMA FewerCostNoMore ==
    ASSUME NEW i \in Atoms, NEW es, NEW fs, NewerIn(i, es) \subseteq NewerIn(i, fs), NEW u \in Int,
           WithinCost(i, u, fs)
    PROVE  WithinCost(i, u, es)
  <1>1. NewerIn(i, fs) \in SUBSET Ids /\ NewerIn(i, es) \in SUBSET Ids
    BY DEF NewerIn
  <1>2. /\ Cost(i, NewerIn(i, fs)) \in Int /\ Cost(i, NewerIn(i, es)) \in Int
        /\ Cost(i, NewerIn(i, fs)) <= Cost(i, NewerIn(i, es))
    BY <1>1, Costs
  <1>3. \A a, b, c \in Int : a <= b /\ b <= c => a <= c
    OBVIOUS
  <1>4. QED
    BY <1>2, <1>3 DEF WithinCost

LEMMA TrustIsNumber ==
    ASSUME NEW r \in Memory
    PROVE  r.trust \in Int /\ r # Null
  <1>1. r.trust \in Scores
    BY DEF Memory
  <1>2. QED
    BY <1>1, ConstantsAssumption DEF Scores

\* Nothing that a run makes of what it has read exceeds what is left.
LEMMA BoundedAtBase ==
    ASSUME TypeOK, EdgesAreAccountedFor, op \in Strategies, TrustIsBounded,
           NEW i \in Atoms, mem[i] # Null
    PROVE  /\ WithinCost(i, mem[i].trust, edges) /\ WithinCost(i, mem[i].trust, base.edges)
           /\ mem[i] \in Memory /\ mem[i].trust \in Int
  <1>1. base.edges \subseteq edges
    BY DEF EdgesAreAccountedFor
  <1>2. NewerIn(i, base.edges) \subseteq NewerIn(i, edges)
    BY <1>1 DEF NewerIn
  <1>3. WithinCost(i, mem[i].trust, edges)
    BY DEF TrustIsBounded, WithinCost
  <1>4. mem[i] \in Memory
    BY TypedState DEF Ids
  <1>5. mem[i].trust \in Int
    BY <1>4, TrustIsNumber
  <1>6. QED
    BY <1>2, <1>3, <1>4, <1>5, FewerCostNoMore

LEMMA MergeIsModest ==
    ASSUME RecordInv, EdgesAreAccountedFor, TrustIsBounded, ChangesAreModest, MergePair
    PROVE  /\ \A n \in DOMAIN changes' : Modest(changes'[n], base.edges)
           /\ QueueIsBounded'
  <1>1. TypeOK /\ DeduplicationIsCurrent /\ op \in Strategies
    BY DEF RecordInv, StoredInv, MergePair, Examine, Strategies
  <1>2. PICK c \in Ids, d \in Ids, canonical \in Memory, duplicate \in Memory :
              /\ c # d /\ IsActive(mem[c]) /\ IsActive(mem[d])
              /\ canonical = CanonicalAfter(mem[c], mem[d], d) /\ duplicate = DuplicateAfter(mem[d], c)
              /\ todo' = <<Put(c, canonical, TRUE, FALSE), Put(d, duplicate, TRUE, FALSE),
                           Link(SameAs(d, c)), Link(DerivedFrom(c, d))>>
              /\ changes' = changes \o <<Change(c, mem[c], canonical), Change(d, mem[d], duplicate)>>
              /\ links' = links \o <<SameAs(d, c), DerivedFrom(c, d)>>
              /\ \A n \in Outcomes' :
                    /\ n[c] = canonical /\ n[d] = duplicate
                    /\ \A j \in Ids : j # c /\ j # d => n[j] = mem[j]
              /\ DueEdges' = edges \cup {SameAs(d, c), DerivedFrom(c, d)}
    BY <1>1, MergeOutcome
  <1>3. mem[c] \in Memory /\ mem[d] \in Memory /\ mem[c] # Null /\ mem[d] # Null
    BY <1>1, <1>2, TypedState DEF IsActive
  <1>4. \A i \in {c, d} : i \in Atoms =>
            WithinCost(i, mem[i].trust, edges) /\ WithinCost(i, mem[i].trust, base.edges)
    BY <1>1, <1>3, BoundedAtBase
  <1>5. \A n \in DOMAIN changes' : Modest(changes'[n], base.edges)
    <2> DEFINE x == Change(c, mem[c], canonical)
               y == Change(d, mem[d], duplicate)
    <2>1. Modest(x, base.edges) /\ Modest(y, base.edges)
      BY <1>3, <1>4 DEF Modest, Change
    <2>2. x \in Changes /\ y \in Changes /\ changes \in Seq(Changes)
      BY <1>1, <1>2, <1>3 DEF Change, Changes, MemoryOrNull, TypeOK
    <2>3. changes' = changes \o <<x, y>>
      BY <1>2
    <2> HIDE DEF x, y
    <2>4. /\ DOMAIN changes = 1 .. Len(changes) /\ Len(changes) \in Nat
          /\ DOMAIN changes' = 1 .. Len(changes) + 2
          /\ \A k \in DOMAIN changes : changes'[k] = changes[k]
          /\ changes'[Len(changes) + 1] = x /\ changes'[Len(changes) + 2] = y
      BY <2>2, <2>3, PairAppended
    <2>5. \A n \in DOMAIN changes' : n \in DOMAIN changes \/ n = Len(changes) + 1 \/ n = Len(changes) + 2
      BY <2>4
    <2>6. \A n \in DOMAIN changes : Modest(changes[n], base.edges)
      BY <1>1 DEF ChangesAreModest
    <2>7. QED
      BY <2>1, <2>4, <2>5, <2>6
  <1>6. QueueIsBounded'
    <2>1. \A i \in Ids : NewerIn(i, DueEdges') = NewerIn(i, edges)
      BY <1>2 DEF NewerIn, Contradicts, SameAs, DerivedFrom
    <2>2. canonical.trust = mem[c].trust /\ duplicate.trust = mem[d].trust
      BY <1>2, <1>3 DEF CanonicalAfter, DuplicateAfter, Memory
    <2>3. ASSUME NEW k \in DOMAIN todo', todo'[k].type = "memory"
          PROVE  \/ todo'[k].id = c /\ todo'[k].rec = canonical
                 \/ todo'[k].id = d /\ todo'[k].rec = duplicate
      <3>1. /\ DOMAIN todo' = 1 .. 4
            /\ todo'[1] = Put(c, canonical, TRUE, FALSE) /\ todo'[2] = Put(d, duplicate, TRUE, FALSE)
            /\ todo'[3] = Link(SameAs(d, c)) /\ todo'[4] = Link(DerivedFrom(c, d))
        BY <1>2, ListElements
      <3>2. k = 1 \/ k = 2 \/ k = 3 \/ k = 4
        BY <3>1
      <3>3. todo'[3].type = "link" /\ todo'[4].type = "link"
        BY <3>1, WriteFields
      <3>4. k = 1 \/ k = 2
        BY <2>3, <3>2, <3>3
      <3>5. QED
        BY <3>1, <3>4 DEF Put
    <2>4. QED
      BY <1>2, <1>4, <2>1, <2>2, <2>3 DEF QueueIsBounded, WithinCost
  <1>7. QED
    BY <1>5, <1>6

LEMMA RepairIsModest ==
    ASSUME RecordInv, EdgesAreAccountedFor, TrustIsBounded, ChangesAreModest, RepairReads, RepairTrust,
           LinksAreNew, LedgersHold, RepairPair
    PROVE  /\ \A n \in DOMAIN changes' : Modest(changes'[n], base.edges)
           /\ QueueIsBounded'
  <1>1. /\ TypeOK /\ ReadAreStored /\ RepairIsCurrent
        /\ op = "contradiction_repair" /\ todo = <<>> /\ op \in Strategies
        /\ (\A p \in work : p[1] # p[2]) /\ known = base.edges \cup ToSet(links)
        /\ \A i \in Ids : snap[i] # Null => snap[i] = base.mem[i]
    BY DEF RecordInv, StoredInv, RepairPair, Examine, RepairReads, Strategies
  <1>2. PICK o \in Ids, n \in Ids, older \in Memory, newer \in Memory :
              /\ o # n /\ IsActive(mem[o]) /\ IsActive(mem[n])
              /\ snap[o] # Null /\ IsActive(snap[n]) /\ snap[n] \in Memory
              /\ IsFirst(<<o, n>>, ObservedOrder) /\ Contradicts(o, n) \notin known
              /\ work' = work \ {<<o, n>>} /\ known' = known \cup {Contradicts(o, n)}
              /\ older = OlderAfter(mem[o], n) /\ newer = NewerAfter(snap[n], o)
              /\ IsActive(older) /\ IsActive(newer)
              /\ todo' = <<Put(o, older, TRUE, FALSE), Put(n, newer, TRUE, FALSE),
                           Link(Contradicts(o, n))>>
              /\ changes' = changes \o <<Change(o, mem[o], older), Change(n, snap[n], newer)>>
              /\ links' = Append(links, Contradicts(o, n))
              /\ \A z \in Outcomes' :
                    /\ z[o] = older /\ z[n] = newer
                    /\ \A j \in Ids : j # o /\ j # n => z[j] = mem[j]
              /\ DueEdges' = edges \cup {Contradicts(o, n)}
    BY <1>1, RepairOutcome
  <1>3. mem[o] \in Memory /\ mem[n] \in Memory /\ mem[o] # Null /\ mem[n] # Null /\ snap[n] # Null
    BY <1>1, <1>2, TypedState DEF IsActive
  <1>4. \A i \in {o, n} : i \in Atoms => /\ WithinCost(i, mem[i].trust, edges)
                                         /\ WithinCost(i, mem[i].trust, base.edges)
                                         /\ mem[i].trust \in Int
    BY <1>1, <1>3, BoundedAtBase
  <1>5. n \in Atoms => WithinCost(n, snap[n].trust, base.edges)
    <2>1. Ledger(base.mem, base.edges)
      BY <1>1 DEF LedgersHold, InBooks
    <2>2. snap[n] = base.mem[n] /\ base.mem[n] # Null
      BY <1>1, <1>3
    <2>3. QED
      BY <2>1, <2>2 DEF Ledger, WithinCost
  <1>6. \A k \in DOMAIN changes' : Modest(changes'[k], base.edges)
    <2> DEFINE x == Change(o, mem[o], older)
               y == Change(n, snap[n], newer)
    <2>1. Modest(x, base.edges) /\ Modest(y, base.edges)
      BY <1>3, <1>4, <1>5 DEF Modest, Change
    <2>2. x \in Changes /\ y \in Changes /\ changes \in Seq(Changes)
      BY <1>1, <1>2, <1>3 DEF Change, Changes, MemoryOrNull, TypeOK
    <2>3. changes' = changes \o <<x, y>>
      BY <1>2
    <2> HIDE DEF x, y
    <2>4. /\ DOMAIN changes = 1 .. Len(changes) /\ Len(changes) \in Nat
          /\ DOMAIN changes' = 1 .. Len(changes) + 2
          /\ \A k \in DOMAIN changes : changes'[k] = changes[k]
          /\ changes'[Len(changes) + 1] = x /\ changes'[Len(changes) + 2] = y
      BY <2>2, <2>3, PairAppended
    <2>5. \A k \in DOMAIN changes' : k \in DOMAIN changes \/ k = Len(changes) + 1 \/ k = Len(changes) + 2
      BY <2>4
    <2>6. \A k \in DOMAIN changes : Modest(changes[k], base.edges)
      BY <1>1 DEF ChangesAreModest
    <2>7. QED
      BY <2>1, <2>4, <2>5, <2>6
  <1>7. QueueIsBounded'
    <2>1. Contradicts(o, n) \notin edges
      <3>1. SameTracked(edges, base.edges \cup ToSet(links))
        BY <1>1, OutcomeOfNothing DEF LinksAreNew
      <3>2. Contradicts(o, n) \in Edges /\ Tracked(Contradicts(o, n))
        BY DEF Contradicts, Edges, EdgeKinds, Tracked
      <3>3. QED
        BY <1>1, <1>2, <3>1, <3>2 DEF SameTracked
    <2>2. /\ NewerIn(o, DueEdges') = NewerIn(o, edges) \cup {n} /\ n \notin NewerIn(o, edges)
          /\ NewerIn(n, DueEdges') = NewerIn(n, edges)
      BY <1>2, <2>1 DEF NewerIn, Contradicts
    <2>3. older.trust = Greatest(10, mem[o].trust - 25) /\ newer.trust = mem[n].trust
      <3>1. older.trust = Greatest(10, mem[o].trust - 25) /\ newer.trust = snap[n].trust
        BY <1>2, <1>3 DEF OlderAfter, NewerAfter, Memory
      <3>2. <<o, n>> \in work /\ \A p \in work : mem[p[2]].trust = snap[p[2]].trust
        BY <1>1, <1>2, OutcomeOfNothing DEF RepairTrust, IsFirst
      <3>3. QED
        BY <3>1, <3>2
    <2>4. o \in Atoms => WithinCost(o, older.trust, DueEdges')
      <3>1. SUFFICES ASSUME o \in Atoms PROVE WithinCost(o, older.trust, DueEdges')
        OBVIOUS
      <3>2. NewerIn(o, edges) \in SUBSET Ids /\ n \in Ids \ NewerIn(o, edges)
        BY <2>2 DEF NewerIn
      <3>3. Greatest(10, mem[o].trust - 25) <= Cost(o, NewerIn(o, edges) \cup {n})
        BY <1>4, <3>1, <3>2, Costs DEF WithinCost
      <3>4. QED
        BY <2>2, <2>3, <3>3 DEF WithinCost
    <2>5. ASSUME NEW k \in DOMAIN todo', todo'[k].type = "memory"
          PROVE  \/ todo'[k].id = o /\ todo'[k].rec = older
                 \/ todo'[k].id = n /\ todo'[k].rec = newer
      <3>1. /\ DOMAIN todo' = 1 .. 3
            /\ todo'[1] = Put(o, older, TRUE, FALSE) /\ todo'[2] = Put(n, newer, TRUE, FALSE)
            /\ todo'[3] = Link(Contradicts(o, n))
        BY <1>2, ListElements
      <3>2. k = 1 \/ k = 2 \/ k = 3
        BY <3>1
      <3>3. todo'[3].type = "link"
        BY <3>1, WriteFields
      <3>4. k = 1 \/ k = 2
        BY <2>5, <3>2, <3>3
      <3>5. QED
        BY <3>1, <3>4 DEF Put
    <2>6. n \in Atoms => WithinCost(n, newer.trust, DueEdges')
      BY <1>4, <2>2, <2>3 DEF WithinCost
    <2>7. QED
      BY <2>4, <2>5, <2>6 DEF QueueIsBounded
  <1>8. QED
    BY <1>6, <1>7

LEMMA ModestStep ==
    ASSUME RecordInv, Tame, EdgesAreAccountedFor, TrustIsBounded, ChangesAreModest, RepairReads,
           RepairTrust, LinksAreNew, LedgersHold, [Next]_vars
    PROVE  ChangesAreModest'
  <1>1. TypeOK /\ WritesAreWhole
    BY DEF RecordInv, StoredInv
  <1>2. op \notin Strategies => \A n : n \notin DOMAIN changes
    BY DEF EdgesAreAccountedFor
  <1>3. ASSUME NEW k \in DOMAIN log'
        PROVE  \A n \in DOMAIN log'[k].changes : Modest(log'[k].changes[n], log'[k].base.edges)
    <2>1. \/ k \in DOMAIN log /\ log'[k] = log[k]
          \/ FinishRun /\ log'[k] = [changes |-> changes, links |-> links, base |-> base]
      BY <1>3, DiffsStay
    <2>2. FinishRun => op \in Strategies
      BY DEF FinishRun
    <2>3. QED
      BY <2>1, <2>2 DEF ChangesAreModest
  <1>4. ASSUME op' \in Strategies PROVE \A n \in DOMAIN changes' : Modest(changes'[n], base'.edges)
    <2>1. "idle" \notin Strategies /\ "retrieve" \notin Strategies /\ "rollback" \notin Strategies
      BY DEF Strategies
    <2>2. CASE Quiet \/ ApplyWrite
      <3>1. UNCHANGED <<op, changes, base>>
        BY <1>1, <2>2, ApplyCases DEF Quiet
      <3>2. QED
        BY <1>4, <3>1 DEF ChangesAreModest
    <2>3. ASSUME NEW kind, Starting(kind), UNCHANGED <<todo, changes, links>>
          PROVE  \A n \in DOMAIN changes' : Modest(changes'[n], base'.edges)
      BY <1>2, <2>1, <2>3 DEF Starting
    <2>4. CASE BeginDecay
      <3>1. base'.edges = edges
        BY <1>1, <2>4, DecayCases
      <3>2. ASSUME NEW n \in DOMAIN changes', changes'[n].id \in Atoms
            PROVE  Modest(changes'[n], edges)
        <4>1. PICK i \in Active : changes'[n] = Change(i, mem[i], Archived(mem[i]))
          BY <1>1, <2>4, DecayOutcome
        <4>2. changes'[n].id = i /\ changes'[n].before = mem[i] /\ mem[i] # Null
          BY <4>1 DEF Change, Active, IsActive
        <4>3. QED
          BY <3>2, <4>2 DEF Modest, TrustIsBounded, WithinCost
      <3>3. QED
        BY <3>1, <3>2 DEF Modest
    <2>5. CASE MergePair
      <3>1. base' = base
        BY <2>5 DEF MergePair
      <3>2. QED
        BY <2>5, <3>1, MergeIsModest
    <2>6. CASE RepairPair
      <3>1. base' = base
        BY <2>6 DEF RepairPair
      <3>2. QED
        BY <2>6, <3>1, RepairIsModest
    <2>7. ASSUME NEW t \in Topics, Summarise(t)
          PROVE  \A n \in DOMAIN changes' : Modest(changes'[n], base'.edges)
      <3>1. PICK s \in Summaries, rec \in Memory, added \in Seq(Edges) :
              /\ changes' = Append(changes, Change(s, Null, rec))
              /\ links' = links \o added
              /\ \A n \in DOMAIN added : added[n][1] = "summarizes"
        BY <1>1, <2>7, SummaryOutcome
      <3>2. base' = base /\ op \in Strategies
        BY <2>7 DEF Summarise, Examine, Strategies
      <3>3. Change(s, Null, rec) \in Changes /\ changes \in Seq(Changes)
        BY <1>1 DEF Change, Changes, MemoryOrNull, TypeOK, Ids
      <3>4. /\ DOMAIN changes = 1 .. Len(changes) /\ Len(changes) \in Nat
            /\ DOMAIN changes' = 1 .. Len(changes) + 1
            /\ \A k \in DOMAIN changes : changes'[k] = changes[k]
            /\ changes'[Len(changes) + 1] = Change(s, Null, rec)
        <4>1. /\ DOMAIN changes = 1 .. Len(changes) /\ Len(changes) \in Nat
              /\ DOMAIN Append(changes, Change(s, Null, rec)) = 1 .. Len(changes) + 1
              /\ \A k \in DOMAIN changes : Append(changes, Change(s, Null, rec))[k] = changes[k]
              /\ Append(changes, Change(s, Null, rec))[Len(changes) + 1] = Change(s, Null, rec)
          BY <3>3, AppendedList
        <4>2. QED
          BY <3>1, <4>1
      <3>5. \A n \in DOMAIN changes' : n \in DOMAIN changes \/ n = Len(changes) + 1
        BY <3>4
      <3>6. Modest(Change(s, Null, rec), base.edges)
        BY ConstantsAssumption DEF Modest, Change
      <3>7. QED
        BY <3>2, <3>4, <3>5, <3>6 DEF ChangesAreModest
    <2>8. ASSUME NEW i \in Atoms, Ingest(i) PROVE op' \notin Strategies
      BY <2>1, <2>8 DEF Ready, Ingest, call
    <2>9. ASSUME NEW selected \in SUBSET Selectable, NEW viaGraph \in SUBSET selected,
                 BeginRetrieve(selected, viaGraph)
          PROVE  op' \notin Strategies
      BY <2>1, <2>9 DEF Ready, BeginRetrieve, Begin
    <2>10. ASSUME NEW k \in DOMAIN log, BeginRollback(k) PROVE op' \notin Strategies
      BY <2>1, <2>10 DEF BeginRollback
    <2>11. CASE FinishRun \/ FinishCall \/ Crash
      BY <1>4, <2>1, <2>11, EndingSteps DEF Ending
    <2>12. QED
      BY <1>1, <1>4, <2>2, <2>3, <2>4, <2>5, <2>6, <2>7, <2>8, <2>9, <2>10, <2>11, StepCases
  <1>5. QED
    BY <1>3, <1>4 DEF ChangesAreModest

LEMMA QueueStep ==
    ASSUME RecordInv, Tame, EdgesAreAccountedFor, TrustIsBounded, ChangesAreModest, RepairReads,
           RepairTrust, LinksAreNew, LinksAreNew', LedgersHold, QueueIsBounded, [Next]_vars
    PROVE  QueueIsBounded'
  <1>1. /\ TypeOK /\ CopiesAgree /\ WritesAreWhole /\ WritesOfOthers /\ WritesOfOthers'
    BY RecordStep DEF RecordInv, StoredInv
  <1>2. \A i \in Atoms : i \in Ids
    BY DEF Ids
  <1>3. ASSUME UNCHANGED <<edges, todo>> PROVE QueueIsBounded'
    <2>1. DueEdges' = DueEdges
      BY <1>3 DEF DueEdges, EdgesDue
    <2>2. QED
      BY <1>3, <2>1 DEF QueueIsBounded
  <1>4. ASSUME todo' = <<>> PROVE QueueIsBounded'
    <2>1. \A k : k \notin DOMAIN <<>>
      OBVIOUS
    <2>2. QED
      BY <1>4, <2>1 DEF QueueIsBounded
  <1>5. CASE ApplyWrite
    <2>1. DueEdges' = DueEdges /\ todo # <<>> /\ todo \in Seq(Writes) /\ todo' = Tail(todo)
      BY <1>1, <1>5, OutcomeStays, ApplyCases
    <2>2. \A k \in DOMAIN Tail(todo) : k + 1 \in DOMAIN todo /\ Tail(todo)[k] = todo[k + 1]
      BY <2>1, QueueShifts
    <2>3. \A k \in DOMAIN todo' : \E j \in DOMAIN todo : todo'[k] = todo[j]
      BY <2>1, <2>2
    <2>4. QED
      BY <2>1, <2>3 DEF QueueIsBounded
  <1>6. CASE Quiet
    BY <1>3, <1>6 DEF Quiet
  <1>7. ASSUME NEW kind, Starting(kind), UNCHANGED <<todo, changes, links>> PROVE QueueIsBounded'
    BY <1>3, <1>7 DEF Starting
  <1>8. CASE FinishRun \/ FinishCall \/ Crash
    BY <1>4, <1>8, EndingSteps DEF Ending
  <1>9. ASSUME NEW i \in Atoms, Ingest(i) PROVE QueueIsBounded'
    <2>1. op = "idle" /\ UNCHANGED <<edges, todo>>
      BY <1>9 DEF Ready, Ingest, call
    <2>2. QED
      BY <1>3, <2>1
  <1>10. ASSUME NEW i \in Atoms, i \in Active, NEW r, r.trust = mem[i].trust
         PROVE  WithinCost(i, r.trust, edges)
    BY <1>10 DEF TrustIsBounded, WithinCost, Active, IsActive
  <1>11. CopiesWhole
    BY CopiesAreWhole DEF Tame
  <1>12. ASSUME NEW selected \in SUBSET Selectable, NEW viaGraph \in SUBSET selected,
                BeginRetrieve(selected, viaGraph)
         PROVE  QueueIsBounded'
    <2>1. DueEdges' = edges
      BY <1>1, <1>12, <1>11, RetrieveOutcome
    <2>2. \A k \in DOMAIN todo' :
             todo'[k].id \in selected /\ todo'[k].rec \in Memory
             /\ SameButAccess(todo'[k].rec, mem[todo'[k].id])
      BY <1>1, <1>12, <1>11, RetrieveCases
    <2>3. ASSUME NEW k \in DOMAIN todo', todo'[k].id \in Atoms
          PROVE  WithinCost(todo'[k].id, todo'[k].rec.trust, edges)
      <3>1. todo'[k].id \in Active /\ mem[todo'[k].id] \in Memory
        BY <1>1, <1>12, <1>11, <2>2, TypedState, RetrieveCases DEF Active, IsActive
      <3>2. todo'[k].rec.trust = mem[todo'[k].id].trust
        BY <2>2, <3>1, AccessesAside
      <3>3. QED
        BY <1>10, <2>3, <3>1, <3>2
    <2>4. QED
      BY <2>1, <2>3 DEF QueueIsBounded
  <1>13. CASE BeginDecay
    <2>1. DueEdges' = edges
      BY <1>1, <1>13, DecayOutcome
    <2>2. ASSUME NEW k \in DOMAIN todo', todo'[k].id \in Atoms
          PROVE  WithinCost(todo'[k].id, todo'[k].rec.trust, edges)
      <3>1. PICK i \in Active : todo'[k] = Put(i, Archived(mem[i]), TRUE, FALSE)
        BY <1>1, <1>13, DecayOutcome
      <3>2. todo'[k].id = i /\ todo'[k].rec = Archived(mem[i])
        BY <3>1 DEF Put
      <3>3. mem[i] \in Memory
        BY <1>1, TypedState DEF Active, IsActive
      <3>4. todo'[k].rec.trust = mem[i].trust
        BY <3>2, <3>3 DEF Archived, Memory
      <3>5. QED
        BY <1>10, <2>2, <3>2, <3>4
    <2>3. QED
      BY <2>1, <2>2 DEF QueueIsBounded
  <1>14. ASSUME NEW k \in DOMAIN log, BeginRollback(k) PROVE QueueIsBounded'
    <2> DEFINE d == log[k]
    <2>1. /\ op' = "rollback" /\ base' = d.base
          /\ \A n \in DOMAIN d.changes : Modest(d.changes[n], d.base.edges)
      BY <1>14 DEF BeginRollback, ChangesAreModest
    <2>2. \A j \in DOMAIN todo' : todo'[j].type = "memory" =>
                 \E n \in DOMAIN d.changes : todo'[j] = UndoChange(d.changes[n])
      BY <1>1, <1>14, RollbackOutcome
    <2>3. \A i \in Ids : NewerIn(i, DueEdges') = NewerIn(i, d.base.edges)
      <3>1. SameTracked(DueEdges, base.edges)'
        BY <2>1 DEF LinksAreNew
      <3>2. \A i, n \in Ids : Contradicts(i, n) \in Edges /\ Contradicts(i, n)[1] = "contradicts"
        BY DEF Contradicts, Edges, EdgeKinds
      <3>3. \A i, n \in Ids : Contradicts(i, n) \in DueEdges' <=> Contradicts(i, n) \in d.base.edges
        BY <2>1, <3>1, <3>2 DEF SameTracked, Tracked
      <3>4. QED
        BY <3>3 DEF NewerIn
    <2> HIDE DEF d
    <2>4. ASSUME NEW j \in DOMAIN todo', todo'[j].type = "memory", todo'[j].id \in Atoms
          PROVE  WithinCost(todo'[j].id, todo'[j].rec.trust, DueEdges')
      <3>1. PICK n \in DOMAIN d.changes : todo'[j] = UndoChange(d.changes[n])
        BY <2>2, <2>4
      <3>2. todo'[j].id = d.changes[n].id
        BY <3>1, UndoChangeFields
      <3>3. /\ d.changes[n].before # Null
            /\ WithinCost(d.changes[n].id, d.changes[n].before.trust, d.base.edges)
        BY <2>1, <2>4, <3>2 DEF Modest
      <3>4. todo'[j].rec = d.changes[n].before
        BY <3>1, <3>3 DEF UndoChange, Tame, Put
      <3>5. QED
        BY <1>2, <2>3, <2>4, <3>2, <3>3, <3>4 DEF WithinCost
    <2>5. QED
      BY <2>4 DEF QueueIsBounded
  <1>15. CASE MergePair
    BY <1>15, MergeIsModest
  <1>16. CASE RepairPair
    BY <1>16, RepairIsModest
  <1>17. ASSUME NEW t \in Topics, Summarise(t) PROVE QueueIsBounded'
    <2>1. op' = "abstraction"
      BY <1>1, <1>17, SummaryCases
    <2>2. \A k \in DOMAIN todo' : todo'[k].type = "memory" => todo'[k].id \in Summaries
      BY <1>1, <2>1 DEF WritesOfOthers
    <2>3. QED
      BY <2>2, ConstantsAssumption DEF QueueIsBounded
  <1>18. QED
    BY <1>1, <1>5, <1>6, <1>7, <1>8, <1>9, <1>12, <1>13, <1>14, <1>15, <1>16, <1>17, StepCases

-----------------------------------------------------------------------------
(***************************************************************************)
(* Trust is lowered before the contradiction that costs it is linked.      *)
(***************************************************************************)
\* Only a repair links contradictions, once its memories have been written.
LEMMA ContradictionsComeLast ==
    ASSUME RecordInv, QueueIsShaped, todo # <<>>, todo[1].type = "link",
           todo[1].edge[1] = "contradicts"
    PROVE  \A k \in DOMAIN todo : todo[k].type # "memory"
  <1>1. TypeOK /\ WritesAreWhole /\ WritesOfOthers /\ DeduplicationIsCurrent
    BY DEF RecordInv, StoredInv
  <1>2. /\ 1 \in DOMAIN todo /\ DOMAIN todo = 1 .. Len(todo) /\ Len(todo) \in Nat
        /\ Head(todo) = todo[1]
    BY <1>1, QueueShifts DEF TypeOK
  <1>3. op # "idle" /\ op # "retrieve" /\ op # "abstraction" /\ op # "decay_archival" /\ op # "rollback"
    BY <1>1, <1>2 DEF WritesAreWhole, WritesOfOthers, IsWrittenBack
  <1>4. op # "deduplication"
    <2>1. SUFFICES ASSUME op = "deduplication" PROVE FALSE
      OBVIOUS
    <2>2. PICK c \in Ids, d \in Ids : Merging(c, d)
      BY <1>1, <2>1 DEF DeduplicationIsCurrent
    <2>3. \/ todo[1] = Put(c, snap[c], TRUE, FALSE) \/ todo[1] = Put(d, snap[d], TRUE, FALSE)
          \/ todo[1] = Link(SameAs(d, c)) \/ todo[1] = Link(DerivedFrom(c, d))
      <3> DEFINE putC == Put(c, snap[c], TRUE, FALSE)
                 putD == Put(d, snap[d], TRUE, FALSE)
                 same == Link(SameAs(d, c))
                 derived == Link(DerivedFrom(c, d))
      <3>1. \/ todo = <<putC, putD, same, derived>> \/ todo = <<putD, same, derived>>
            \/ todo = <<same, derived>> \/ todo = <<derived>>
        BY <2>2 DEF Merging
      <3> HIDE DEF putC, putD, same, derived
      <3>2. todo[1] = putC \/ todo[1] = putD \/ todo[1] = same \/ todo[1] = derived
        BY <3>1, ListElements
      <3>3. QED
        BY <3>2 DEF putC, putD, same, derived
    <2>4. QED
      BY <2>3 DEF Put, Link, SameAs, DerivedFrom
  <1>5. op = "contradiction_repair"
    BY <1>1, <1>3, <1>4 DEF TypeOK, Ops, Strategies
  <1>6. ASSUME NEW k \in DOMAIN todo, todo[k].type = "memory" PROVE FALSE
    <2>1. 1 < k
      <3>1. k # 1
        BY <1>6
      <3>2. QED
        BY <1>2, <3>1
    <2>2. todo[1].type = "memory"
      BY <1>2, <1>5, <1>6, <2>1 DEF QueueIsShaped
    <2>3. QED
      BY <2>2
  <1>7. QED
    BY <1>6

LEMMA BoundStep ==
    ASSUME RecordInv, QueueIsShaped, LedgersHold, QueueIsBounded, TrustIsBounded, [Next]_vars
    PROVE  TrustIsBounded'
  <1>1. TypeOK /\ NoDanglingEdges /\ WritesOfOthers /\ mem \in [Ids -> MemoryOrNull]
    BY TypedState DEF RecordInv, StoredInv
  <1>2. \A i \in Atoms : i \in Ids
    BY DEF Ids
  <1>3. CASE UNCHANGED <<mem, edges>>
    BY <1>3 DEF TrustIsBounded
  <1>4. ASSUME NEW i \in Atoms, Ingest(i) PROVE TrustIsBounded'
    <2>1. /\ mem[i] = Null /\ edges' = edges
          /\ \A j \in Ids : mem'[j] = IF j = i THEN FreshMemory(i) ELSE mem[j]
      BY <1>1, <1>4 DEF Ready, Ingest
    <2>2. NewerIn(i, edges) = {}
      BY <1>1, <2>1 DEF NoDanglingEdges, NewerIn, Contradicts
    <2>3. FreshMemory(i).trust <= Cost(i, NewerIn(i, edges))
      BY <2>2, Costs DEF FreshMemory
    <2>4. QED
      BY <1>2, <2>1, <2>3 DEF TrustIsBounded
  <1>5. CASE ApplyWrite
    <2>1. /\ todo # <<>> /\ 1 \in DOMAIN todo /\ DOMAIN todo = 1 .. Len(todo) /\ Len(todo) \in Nat
          /\ todo[1] \in Writes
          /\ \/ /\ todo[1].type = "memory"
                /\ \A i \in Ids : mem'[i] = IF i = todo[1].id THEN todo[1].rec ELSE mem[i]
                /\ edges' = edges
             \/ /\ todo[1].type = "link" /\ edges' = edges \cup {todo[1].edge} /\ mem' = mem
             \/ /\ todo[1].type = "unlink" /\ edges' = edges \ {todo[1].edge} /\ mem' = mem
      BY <1>1, <1>5, ApplyCases, QueueShifts
    <2>2. ASSUME NEW i \in Atoms, mem[i] # Null PROVE mem[i].trust \in Int
      BY <1>1, <1>2, <2>2, TypedState, TrustIsNumber
    <2>3. CASE todo[1].type = "memory"
      <3>1. edges' = edges /\ \A i \in Ids : mem'[i] = IF i = todo[1].id THEN todo[1].rec ELSE mem[i]
        BY <2>1, <2>3
      <3>2. edges \subseteq DueEdges
        <4>1. ASSUME NEW k \in DOMAIN todo PROVE todo[k].type # "unlink"
          <5>1. CASE op = "rollback"
            <6>1. k = 1 \/ 1 < k
              BY <2>1
            <6>2. 1 < k => todo[k].type = "memory"
              BY <2>1, <2>3, <5>1 DEF QueueIsShaped
            <6>3. QED
              BY <2>3, <6>1, <6>2
          <5>2. CASE op # "rollback"
            BY <1>1, <5>2 DEF WritesOfOthers
          <5>3. QED
            BY <5>1, <5>2
        <4>2. \A e : Unlink(e).type = "unlink"
          BY DEF Unlink
        <4>3. QED
          BY <4>1, <4>2 DEF DueEdges, EdgesDue
      <3>3. ASSUME NEW i \in Atoms, i = todo[1].id PROVE todo[1].rec.trust <= Cost(i, NewerIn(i, edges))
        <4>1. WithinCost(i, todo[1].rec.trust, DueEdges)
          BY <2>1, <2>3, <3>3 DEF QueueIsBounded
        <4>2. todo[1].rec.trust \in Int
          <5>1. todo[1].rec \in Memory
            BY <1>1, <2>1, <2>3, TypedState
          <5>2. QED
            BY <5>1, TrustIsNumber
        <4>3. NewerIn(i, edges) \subseteq NewerIn(i, DueEdges)
          BY <3>2 DEF NewerIn
        <4>4. QED
          BY <4>1, <4>2, <4>3, FewerCostNoMore DEF WithinCost
      <3>4. QED
        BY <1>2, <3>1, <3>3 DEF TrustIsBounded
    <2>4. CASE todo[1].type = "link"
      <3>1. edges' = edges \cup {todo[1].edge} /\ mem' = mem
        BY <2>1, <2>4
      <3>2. CASE todo[1].edge[1] # "contradicts"
        <4>1. \A i \in Ids : NewerIn(i, edges') = NewerIn(i, edges)
          BY <3>1, <3>2 DEF NewerIn, Contradicts
        <4>2. QED
          BY <1>2, <3>1, <4>1 DEF TrustIsBounded
      <3>3. CASE todo[1].edge[1] = "contradicts"
        <4>1. \A k \in DOMAIN todo : todo[k].type # "memory"
          BY <2>1, <2>4, <3>3, ContradictionsComeLast
        <4>2. mem \in Outcomes
          BY <1>1, <4>1 DEF Outcomes, ComesTo, Awaits, TypeOK
        <4>3. Ledger(mem, DueEdges)
          BY <4>2 DEF LedgersHold, InBooks
        <4>4. edges' \subseteq DueEdges
          <5>1. op # "rollback"
            BY <1>1, <2>1, <2>4 DEF WritesOfOthers
          <5>2. \A k \in DOMAIN todo : todo[k].type # "unlink"
            BY <1>1, <5>1 DEF WritesOfOthers
          <5>3. edges \subseteq DueEdges
            <6>1. \A e : Unlink(e).type = "unlink"
              BY DEF Unlink
            <6>2. QED
              BY <5>2, <6>1 DEF DueEdges, EdgesDue
          <5>4. todo[1] = Link(todo[1].edge) /\ todo[1].edge \in Edges
            <6>1. todo[1] \in [type : {"link", "unlink"}, edge : Edges]
              BY <2>1, <2>4 DEF Writes
            <6>2. QED
              BY <2>4, <6>1 DEF Link
          <5>5. todo[1].edge \in DueEdges
            BY <2>1, <5>4 DEF DueEdges, EdgesDue
          <5>6. QED
            BY <3>1, <5>3, <5>5
        <4>5. ASSUME NEW i \in Atoms, mem[i] # Null PROVE mem[i].trust <= Cost(i, NewerIn(i, edges'))
          <5>1. WithinCost(i, mem[i].trust, DueEdges)
            BY <4>3, <4>5 DEF Ledger, WithinCost
          <5>2. NewerIn(i, edges') \subseteq NewerIn(i, DueEdges)
            BY <4>4 DEF NewerIn
          <5>3. mem[i].trust \in Int
            BY <2>2, <4>5
          <5>4. WithinCost(i, mem[i].trust, edges')
            BY <5>1, <5>2, <5>3, FewerCostNoMore
          <5>5. QED
            BY <5>4 DEF WithinCost
        <4>6. QED
          BY <3>1, <4>5 DEF TrustIsBounded
      <3>4. QED
        BY <3>2, <3>3
    <2>5. CASE todo[1].type = "unlink"
      <3>1. edges' \subseteq edges /\ mem' = mem
        BY <2>1, <2>5
      <3>2. ASSUME NEW i \in Atoms, mem[i] # Null PROVE mem[i].trust <= Cost(i, NewerIn(i, edges'))
        <4>1. WithinCost(i, mem[i].trust, edges)
          BY <3>2 DEF TrustIsBounded, WithinCost
        <4>2. NewerIn(i, edges') \subseteq NewerIn(i, edges)
          BY <3>1 DEF NewerIn
        <4>3. mem[i].trust \in Int
          BY <2>2, <3>2
        <4>4. WithinCost(i, mem[i].trust, edges')
          BY <4>1, <4>2, <4>3, FewerCostNoMore
        <4>5. QED
          BY <4>4 DEF WithinCost
      <3>3. QED
        BY <3>1, <3>2 DEF TrustIsBounded
    <2>6. QED
      BY <2>1, <2>3, <2>4, <2>5
  <1>6. UNCHANGED <<mem, edges>> \/ (\E i \in Atoms : Ingest(i)) \/ ApplyWrite
    BY DEF Ready, CopyWrite, Next, BeginRetrieve, BeginDeduplication, MergePair, PassPair, BeginRepair, RepairPair,
       SkipPair, BeginAbstraction, Summarise, BeginDecay, BeginRollback, FinishRun, FinishCall, Tick,
       Crash, BeginRun, Begin, stores, vars
  <1>7. QED
    BY <1>3, <1>4, <1>5, <1>6

-----------------------------------------------------------------------------
(***************************************************************************)
(* The books hold in every state.                                          *)
(***************************************************************************)
BooksInv ==
    /\ RecordedInv
    /\ LinksAreNew /\ RepairTrust
    /\ LedgersHold /\ ChangesAreModest /\ QueueIsBounded /\ TrustIsBounded

LEMMA BooksInit == Init /\ RecordedInv => BooksInv
  <1> SUFFICES ASSUME Init, RecordedInv PROVE BooksInv
    OBVIOUS
  <1>1. /\ op = "idle" /\ todo = <<>> /\ log = <<>> /\ edges = {} /\ links = <<>>
        /\ \A i \in Ids : mem[i] = Null
        /\ \A k : k \notin DOMAIN <<>>
        /\ \A i \in Atoms : i \in Ids
        /\ TypeOK
    BY DEF Init, NoRecords, Ids, RecordedInv, MergeInv, RecordInv, StoredInv
  <1>2. LinksAreNew /\ RepairTrust /\ ChangesAreModest /\ QueueIsBounded /\ TrustIsBounded
    BY <1>1 DEF LinksAreNew, RepairTrust, ChangesAreModest, QueueIsBounded, TrustIsBounded, Strategies
  <1>3. LedgersHold
    <2>1. Outcomes = {mem} /\ DueEdges = {}
      BY <1>1, OutcomeOfNothing
    <2>2. Ledger(mem, {}) /\ Sound(mem, {})
      BY <1>1 DEF Ledger, Sound, Agrees, NewerIn
    <2>3. QED
      BY <1>1, <2>1, <2>2 DEF LedgersHold, InBooks
  <1>4. QED
    BY <1>2, <1>3 DEF BooksInv

LEMMA BooksInvariant == Tame => (Spec => []BooksInv)
  <1> SUFFICES ASSUME Tame PROVE Spec => []BooksInv
    OBVIOUS
  <1>1. ASSUME BooksInv, [Next]_vars, RecordedInv' PROVE BooksInv'
    <2>1. /\ RecordInv /\ MergedAreArchived /\ EdgesAreAccountedFor /\ QueueIsShaped /\ RepairReads
          /\ RunsAreRecorded'
      BY <1>1 DEF BooksInv, RecordedInv, MergeInv
    <2>2. /\ LinksAreNew /\ RepairTrust
          /\ LedgersHold /\ ChangesAreModest /\ QueueIsBounded /\ TrustIsBounded
      BY <1>1 DEF BooksInv
    <2>3. op # "idle" /\ crashes = 0 => Agrees(base.mem, base.edges)
      BY <2>2 DEF LedgersHold, InBooks, Sound
    <2>4. LinksAreNew'
      BY <1>1, <2>1, <2>2, <2>3, NewLinksStep
    <2>5. RepairTrust'
      BY <1>1, <2>1, <2>2, RepairTrustStep
    <2>6. LedgersHold'
      BY <1>1, <2>1, <2>2, <2>4, LedgerStep
    <2>7. ChangesAreModest'
      BY <1>1, <2>1, <2>2, ModestStep
    <2>8. QueueIsBounded'
      BY <1>1, <2>1, <2>2, <2>4, QueueStep
    <2>9. TrustIsBounded'
      BY <1>1, <2>1, <2>2, BoundStep
    <2>10. QED
      BY <1>1, <2>4, <2>5, <2>6, <2>7, <2>8, <2>9 DEF BooksInv
  <1>2. QED
    BY <1>1, BooksInit, RecordedInvariant, PTL DEF Spec

\* At rest the stores are in the books.
LEMMA BooksAtRest ==
    ASSUME BooksInv
    PROVE  AtRest => Sound(mem, edges)
  <1> SUFFICES ASSUME op = "idle", crashes = 0 PROVE Sound(mem, edges)
    BY DEF AtRest
  <1>1. TypeOK /\ todo = <<>>
    BY DEF BooksInv, RecordedInv, MergeInv, RecordInv, StoredInv, WritesAreWhole
  <1>2. Outcomes = {mem} /\ DueEdges = edges
    BY <1>1, OutcomeOfNothing
  <1>3. QED
    BY <1>2 DEF BooksInv, LedgersHold, InBooks

\* Between calls the three records of every merge of atoms, its two edges and the
\* metadata of both memories, agree, however many runs have been made and rolled back
\* (DeduplicationDreamStrategy._merge_pair, DreamRunner.rollback).
THEOREM MergeRecordsStayTogether == Tame => (Spec => []MergeRecordsAgree)
  <1> SUFFICES ASSUME Tame PROVE Spec => []MergeRecordsAgree
    OBVIOUS
  <1>1. BooksInv => MergeRecordsAgree
    <2> SUFFICES ASSUME BooksInv PROVE MergeRecordsAgree
      OBVIOUS
    <2>1. AtRest => Agrees(mem, edges)
      BY BooksAtRest DEF Sound
    <2>2. QED
      BY <2>1 DEF Agrees, MergeRecordsAgree
  <1>2. QED
    BY <1>1, BooksInvariant, PTL

\* Trust is lowered before the contradiction that costs it is linked, never after,
\* also between the writes of a repair or of its rollback and after a crash there; and
\* between calls it is exactly what the contradictions linked have left of it
\* (ContradictionRepairDreamStrategy, DreamRunner.rollback).
THEOREM TrustIsAccountedFor == Tame => (Spec => []TrustLedger)
  <1> SUFFICES ASSUME Tame PROVE Spec => []TrustLedger
    OBVIOUS
  <1>1. BooksInv => TrustLedger
    <2> SUFFICES ASSUME BooksInv, NEW i \in Atoms, mem[i] # Null
                 PROVE  LET newer == {n \in Ids : Contradicts(i, n) \in edges}
                            owed  == Greatest(10, Trust0[i] - 25 * Cardinality(newer))
                        IN /\ newer # {} => mem[i].trust <= owed
                           /\ AtRest /\ newer # {} => mem[i].trust = owed
                           /\ AtRest /\ newer = {} => mem[i].trust = Trust0[i]
      BY DEF TrustLedger
    <2>1. mem[i].trust <= Cost(i, NewerIn(i, edges))
      BY DEF BooksInv, TrustIsBounded
    <2>2. AtRest => mem[i].trust = Owed(i, NewerIn(i, edges))
      BY BooksAtRest DEF Sound
    <2>3. QED
      BY <2>1, <2>2 DEF Owed, Cost, NewerIn
  <1>2. QED
    BY <1>1, BooksInvariant, PTL

\* Once a rollback has returned, every atom is what it was before the run undone, but
\* for its accesses and for what has been ingested since, and so are the edges of
\* contradictions and of the merges of atoms (DreamRunner.rollback).
RollbackUndoes ==
    [][Returns("rollback") =>
        /\ \A i \in Atoms : Kept(base.mem[i], i, mem[i])
        /\ SameTracked(edges, base.edges)]_vars

THEOREM RollbacksUndoRuns == Tame => (Spec => RollbackUndoes)
  <1> SUFFICES ASSUME Tame PROVE Spec => RollbackUndoes
    OBVIOUS
  <1>1. ASSUME BooksInv, [Next]_vars, Returns("rollback")
        PROVE  (\A i \in Atoms : Kept(base.mem[i], i, mem[i])) /\ SameTracked(edges, base.edges)
    <2>1. TypeOK /\ RunsAreRecorded /\ LinksAreNew
      BY <1>1 DEF BooksInv, RecordedInv, MergeInv, RecordInv, StoredInv
    <2>2. todo = <<>>
      BY <1>1, <2>1 DEF Ready, CopyWrite, Returns, Next, Ingest, BeginRetrieve, BeginDeduplication, MergePair, PassPair,
         BeginRepair, RepairPair, SkipPair, BeginAbstraction, Summarise, BeginDecay, BeginRollback,
         FinishRun, FinishCall, Tick, ApplyWrite, Crash, BeginRun, Begin, Return, Examine, call, vars,
         TypeOK, Strategies
    <2>3. op = "rollback"
      BY <1>1 DEF Returns
    <2>4. \A i \in Atoms : Kept(base.mem[i], i, mem[i])
      BY <2>1, <2>2, <2>3, RecordedAtLast
    <2>5. SameTracked(edges, base.edges)
      BY <2>1, <2>2, <2>3, OutcomeOfNothing DEF LinksAreNew
    <2>6. QED
      BY <2>4, <2>5
  <1>2. BooksInv /\ [Next]_vars => [Returns("rollback") =>
            /\ \A i \in Atoms : Kept(base.mem[i], i, mem[i])
            /\ SameTracked(edges, base.edges)]_vars
    BY <1>1
  <1>3. QED
    BY <1>2, BooksInvariant, PTL DEF Spec, RollbackUndoes

=============================================================================
