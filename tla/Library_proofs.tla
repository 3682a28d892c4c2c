---------------------------- MODULE Library_proofs ----------------------------
(***************************************************************************)
(* What ingestion leaves in the stores, what the graph and the indexes     *)
(* know, and what retrieval returns, for any memories, texts, batches,     *)
(* queries, limits and deployments.                                        *)
(***************************************************************************)
EXTENDS Library, FiniteSetTheorems, SequenceTheorems, WellFoundedInduction, TLAPS

-----------------------------------------------------------------------------
(***************************************************************************)
(* Numbers, recursion and lists.                                           *)
(***************************************************************************)
\* Of some numbers one is the lowest.
LEMMA LowestOf ==
    ASSUME NEW S, S \subseteq Nat, S # {}
    PROVE  \E n \in S : \A m \in S : n <= m
<1> DEFINE less == OpToRel(<, Nat)
<1>1. IsWellFoundedOn(less, Nat)
  BY NatLessThanWellFounded
<1>2. \A x, y \in Nat : y < x => <<y, x>> \in less
  BY DEF OpToRel
<1> HIDE DEF less
<1>3. PICK n \in S : \A m \in S : ~(<<m, n>> \in less)
  BY <1>1, WFMin
<1>4. \A m \in S : n \in Nat /\ m \in Nat
  OBVIOUS
<1>5. \A m \in S : ~(m < n)
  BY <1>2, <1>3, <1>4
<1> QED
  BY <1>4, <1>5

\* What holds of 0 and passes from each number to the next holds up to n.
LEMMA UpTo ==
    ASSUME NEW n \in Nat, NEW T, 0 \in T,
           \A i \in 1..n : i - 1 \in T => i \in T
    PROVE  0..n \subseteq T
<1> SUFFICES ASSUME (0..n) \ T # {} PROVE FALSE
  OBVIOUS
<1>1. PICK k \in (0..n) \ T : \A m \in (0..n) \ T : k <= m
  <2>1. (0..n) \ T \subseteq Nat
    OBVIOUS
  <2> QED
    BY <2>1, LowestOf
<1>2. k \in 1..n /\ k - 1 \in 0..n
  BY <1>1
<1>3. k - 1 \in T
  BY <1>1, <1>2
<1> QED
  BY <1>1, <1>2, <1>3

\* A recursion over 0..n whose steps stay in a set has a solution in that set.
StaysIn(V, n, step) == \A i \in 1..n : \A v \in V : step[<<i, v>>] \in V
IsSolution(f, V, n, first, step) ==
    /\ \A i \in 0..n : f[i] \in V
    /\ f[0] = first
    /\ \A i \in 1..n : f[i] = step[<<i, f[i - 1]>>]
HasSolution(V, n, first, step) == \E f : IsSolution(f, V, n, first, step)

LEMMA Recursion ==
    ASSUME NEW n \in Nat, NEW V, NEW first \in V, NEW step, StaysIn(V, n, step)
    PROVE  HasSolution(V, n, first, step)
<1> DEFINE Solves(f, k) ==
              \A i \in 0..k : f[i] = IF i = 0 THEN first ELSE step[<<i, f[i - 1]>>]
           T == {k \in 0..n : \E f \in [0..k -> V] : Solves(f, k)}
<1>1. 0 \in T
  <2> DEFINE f == [i \in 0..0 |-> first]
  <2>1. f \in [0..0 -> V] /\ Solves(f, 0)
    OBVIOUS
  <2> HIDE DEF f
  <2>2. 0 \in 0..n /\ \E g \in [0..0 -> V] : Solves(g, 0)
    BY <2>1
  <2> QED
    BY <2>2
<1>2. ASSUME NEW k \in 1..n, k - 1 \in T PROVE k \in T
  <2>1. PICK g \in [0..(k - 1) -> V] : Solves(g, k - 1)
    BY <1>2
  <2> DEFINE f == [i \in 0..k |-> IF i = k THEN step[<<k, g[k - 1]>>] ELSE g[i]]
  <2>2. step[<<k, g[k - 1]>>] \in V
    BY <2>1 DEF StaysIn
  <2>3. f \in [0..k -> V]
    BY <2>2
  <2>4. ASSUME NEW i \in 0..k
        PROVE  f[i] = IF i = 0 THEN first ELSE step[<<i, f[i - 1]>>]
    <3>1. CASE i = k
      <4>1. f[i] = step[<<k, g[k - 1]>>] /\ f[k - 1] = g[k - 1] /\ i # 0
        BY <3>1
      <4> QED
        BY <3>1, <4>1
    <3>2. CASE i # k
      <4>1. i \in 0..(k - 1)
        BY <3>2
      <4>2. g[i] = IF i = 0 THEN first ELSE step[<<i, g[i - 1]>>]
        BY <2>1, <4>1
      <4>3. f[i] = g[i] /\ (i # 0 => f[i - 1] = g[i - 1])
        BY <4>1
      <4> QED
        BY <4>2, <4>3
    <3> QED
      BY <3>1, <3>2
  <2> HIDE DEF f
  <2>5. Solves(f, k)
    BY <2>4
  <2> QED
    BY <2>3, <2>5
<1>3. n \in T
  <2> HIDE DEF T
  <2>1. 0..n \subseteq T
    BY <1>1, <1>2, UpTo
  <2> QED
    BY <2>1
<1>4. PICK f : (\A i \in 0..n : f[i] \in V) /\ Solves(f, n)
  BY <1>3
<1>5. f[0] = first /\ \A i \in 1..n : f[i] = step[<<i, f[i - 1]>>]
  <2>1. f[0] = first
    <3>1. 0 \in 0..n
      OBVIOUS
    <3> QED
      BY <1>4, <3>1
  <2>2. ASSUME NEW i \in 1..n PROVE f[i] = step[<<i, f[i - 1]>>]
    <3>1. i \in 0..n /\ i # 0
      OBVIOUS
    <3> QED
      BY <1>4, <3>1
  <2> QED
    BY <2>1, <2>2
<1> QED
  BY <1>4, <1>5 DEF HasSolution, IsSolution

\* SetToSeq lists the elements of a finite set.
LEMMA SetToSeqIsAList ==
    ASSUME NEW S, IsFiniteSet(S)
    PROVE  SetToSeq(S) \in Seq(S)
<1>1. Cardinality(S) \in Nat /\ ExistsBijection(1..Cardinality(S), S)
  BY FS_CardinalityType
<1>2. PICK f : f \in Bijection(1..Cardinality(S), S)
  BY <1>1 DEF ExistsBijection
<1>3. f \in [1..Cardinality(S) -> S] /\ IsInjective(f)
  BY <1>2 DEF Bijection, Injection
<1>4. SetToSeq(S) \in [1..Cardinality(S) -> S]
  BY <1>3 DEF SetToSeq
<1> QED
  BY <1>1, <1>4, SeqDef

LEMMA ListOf ==
    ASSUME NEW S, NEW n \in Nat, NEW f \in [1..n -> S]
    PROVE  f \in Seq(S) /\ Len(f) = n
<1>1. f \in Seq(S)
  BY SeqDef
<1>2. Len(f) \in Nat /\ 1..Len(f) = 1..n
  BY <1>1, LenProperties
<1> QED
  BY <1>1, <1>2

LEMMA PartsOfSeq ==
    ASSUME NEW S, NEW s \in Seq(S)
    PROVE  /\ Len(s) \in Nat /\ DOMAIN s = 1..Len(s)
           /\ s \in [1..Len(s) -> S]
           /\ \A i \in 1..Len(s) : s[i] \in S
BY LenProperties, ElementOfSeq

-----------------------------------------------------------------------------
(***************************************************************************)
(* The inductive invariant.                                                *)
(***************************************************************************)
Ends == {"source", "target"}
Indexes == {"vector", "representation"}

\* The commands of a queue.
Puts         == [op : {"put"}, recs : Seq(Memory)]
Nodes        == [op : {"node"}, recs : Seq(Memory)]
Placeholders == [op : {"placeholder"}, id : Ids]
Indexings    == [op : {"index"}, index : Indexes, id : Ids, text : Texts]
Rows         == [op : {"edges"}, edges : Seq(EdgeType)]
RedisEdges   == [op : {"set"}, edge : EdgeType]
RedisLinks   == [op : {"link"}, end : Ends, edge : EdgeType]
Commands ==
    Puts \cup Nodes \cup Placeholders \cup Indexings \cup Rows \cup RedisEdges \cup RedisLinks

\* Only ArangoDB is sent placeholders, and only Redis the commands of its sets.
Suits(c) ==
    /\ c.op = "placeholder" => deployment.graph = "arangodb"
    /\ c.op = "edges" => deployment.graph # "redis"
    /\ c.op \in {"set", "link"} => deployment.graph = "redis"

\* A row says of its edge what the edge says.
SoundRows == {StoredEdge(e) : e \in EdgeType}

BatchType == [memories : Seq(Memory), edges : Seq(EdgeType)]

TablesInv ==
    /\ deployment \in Deployments
    /\ memories \in [Ids -> Memory \cup {Absent}]
    /\ \A m \in Ids : memories[m] # Absent => memories[m].id = m
    /\ nodes \in [Ids -> Memory \cup {Absent, Placeholder}]
    /\ \A m \in Ids : nodes[m] \notin {Absent, Placeholder} => nodes[m].id = m
    /\ SharesMemoryStore => nodes = [m \in Ids |-> Absent]
    /\ edges \subseteq SoundRows
    /\ links \subseteq {Link(end, e) : end \in Ends, e \in EdgeType}
    /\ deployment.graph # "redis" => links = {}
    /\ indexes \in [Indexes -> [Ids -> Texts \cup {Absent}]]

CallsInv ==
    /\ cut \subseteq EdgeIds /\ stale \subseteq Ids
    /\ reply.left \in Seq(Memory) /\ retrievals \in Nat
    /\ batch \in BatchType /\ returned \in BatchType

TodoInv ==
    /\ todo \in Seq(Commands)
    /\ \A k \in DOMAIN todo : Suits(todo[k])

\* The puts come first, and what is said of a memory is said of one that is stored
\* or about to be.
PutsFirst(s) == \A k, j \in DOMAIN s : s[k].op = "put" /\ j < k => s[j].op = "put"

IsPut(s, m) ==
    \E k \in DOMAIN s : s[k].op = "put" /\ \E i \in DOMAIN s[k].recs : s[k].recs[i].id = m
Named(m) == memories[m] # Absent \/ IsPut(todo, m)

SpeaksOfNamed(c) ==
    /\ c.op = "node" => \A i \in DOMAIN c.recs : Named(c.recs[i].id)
    /\ c.op = "index" => Named(c.id)
    /\ c.op = "edges" => \A i \in DOMAIN c.edges : Named(c.edges[i].source)
    /\ c.op = "set" => Named(c.edge.source)

TracesInv ==
    /\ \A idx \in Indexes, m \in Ids : indexes[idx][m] # Absent => memories[m] # Absent
    /\ \A m \in Ids : nodes[m] \notin {Absent, Placeholder} => memories[m] # Absent
    /\ \A row \in edges : memories[row.payload.source] # Absent
    /\ PutsFirst(todo) /\ \A k \in DOMAIN todo : SpeaksOfNamed(todo[k])

\* Redis: an edge is set, linked from its source and linked from its target, with no
\* command of another edge between.
Follows(s, k) ==
    /\ s[k].op = "set" => k < Len(s) /\ s[k + 1] = AddLink("source", s[k].edge)
    /\ s[k].op = "link" /\ s[k].end = "source" =>
           k < Len(s) /\ s[k + 1] = AddLink("target", s[k].edge)
    /\ k > 1 /\ s[k].op = "link" =>
           s[k - 1] = IF s[k].end = "source" THEN SetEdge(s[k].edge)
                      ELSE AddLink("source", s[k].edge)

IsLinked(row) == \A end \in Ends : Link(end, row.payload) \in links
AtLink == todo # <<>> /\ Command.op = "link"

LinksInv ==
    /\ \A k \in DOMAIN todo : Follows(todo, k)
    /\ AtLink /\ Command.end = "target" => Link("source", Command.edge) \in links
    /\ deployment.graph = "redis" =>
           \A row \in edges : \/ IsLinked(row) \/ row.id \in cut
                              \/ AtLink /\ Command.edge = row.payload

\* What a command leaves of the text of a memory in a table.
LeavesText(recs, m, t) ==
    \E i \in DOMAIN recs : /\ recs[i].id = m /\ recs[i].text = t
                          /\ \A j \in DOMAIN recs : recs[j].id = m => j <= i
Names(c, table, m) ==
    \/ c.op = table /\ c.op \in {"put", "node"} /\ \E i \in DOMAIN c.recs : c.recs[i].id = m
    \/ c.op = "index" /\ c.index = table /\ c.id = m
Leaves(c, table, m, t) ==
    \/ c.op = table /\ c.op \in {"put", "node"} /\ LeavesText(c.recs, m, t)
    \/ c.op = "index" /\ c.index = table /\ c.id = m /\ c.text = t

\* The last command for a table and a memory leaves a text; or there is none left.
Due(s, table, m, t) ==
    \E k \in DOMAIN s : /\ Leaves(s[k], table, m, t)
                       /\ \A j \in DOMAIN s : j > k => ~Names(s[j], table, m)
Past(s, table, m) == \A k \in DOMAIN s : ~Names(s[k], table, m)

WritesEdge(c, e) ==
    \/ c.op = "edges" /\ \E i \in DOMAIN c.edges : c.edges[i] = e
    \/ c.op = "set" /\ c.edge = e
IsWritten(s, e) == \E k \in DOMAIN s : WritesEdge(s[k], e)

LastOf(recs) ==
    {i \in DOMAIN recs : \A j \in DOMAIN recs : recs[j].id = recs[i].id => j <= i}

MemoryArrives(m, t) ==
    \/ Due(todo, "put", m, t)
    \/ Past(todo, "put", m) /\ (m \in stale \/ Holds(memories[m], t))
NodeArrives(m, t) ==
    \/ SharesMemoryStore \/ Due(todo, "node", m, t)
    \/ Past(todo, "node", m) /\ Holds(LoadOptionalPayload(nodes[m]), t)
IndexArrives(idx, m, t) ==
    \/ Due(todo, idx, m, t)
    \/ Past(todo, idx, m) /\ indexes[idx][m] = t
EdgeArrives(e) == StoredEdge(e) \in edges \/ IsWritten(todo, e)

RecordArrives(rec) ==
    /\ MemoryArrives(rec.id, rec.text) /\ NodeArrives(rec.id, rec.text)
    /\ IndexArrives("vector", rec.id, rec.text)
    /\ deployment.represents => IndexArrives("representation", rec.id, rec.text)

\* What a batch holds is stored or will be by what is left of the queue.
Arrives(b) ==
    /\ \A i \in LastOf(b.memories) : RecordArrives(b.memories[i])
    /\ \A i \in DOMAIN b.edges : ~b.edges[i].archived /\ EdgeArrives(b.edges[i])

\* An ingestion writes no archived edge, and no memory as a node of a shared store.
Ingests(c) ==
    /\ c.op = "node" => ~SharesMemoryStore
    /\ c.op = "edges" => \A i \in DOMAIN c.edges : ~c.edges[i].archived
    /\ c.op = "set" => ~c.edge.archived

DeliveryInv ==
    /\ batch # NoBatch => Arrives(batch) /\ (\A k \in DOMAIN todo : Ingests(todo[k]))
    /\ returned # NoBatch => todo = <<>> /\ batch = NoBatch /\ Arrives(returned)

LibraryInv ==
    /\ TablesInv /\ CallsInv /\ TodoInv /\ TracesInv /\ LinksInv /\ DeliveryInv

\* FlattenSeq adds one list after another.
LEMMA FlattenStepByStep ==
    ASSUME NEW S, NEW seqs \in Seq(Seq(S))
    PROVE  \E f :
              /\ \A i \in 0..Len(seqs) : f[i] \in Seq(S)
              /\ f[0] = <<>> /\ f[Len(seqs)] = FlattenSeq(seqs)
              /\ \A i \in 1..Len(seqs) : f[i] = f[i - 1] \o seqs[i]
<1> DEFINE n == Len(seqs)
<1>1. n \in Nat /\ \A i \in 1..n : seqs[i] \in Seq(S)
  BY PartsOfSeq
<1>2. CASE n = 0
  <2> DEFINE f == [i \in 0..n |-> <<>>]
  <2>1. seqs = <<>>
    BY <1>2, EmptySeq
  <2>2. FlattenSeq(seqs) = <<>>
    BY <1>2, <2>1 DEF FlattenSeq
  <2>3. (\A i \in 0..n : f[i] \in Seq(S)) /\ f[0] = <<>> /\ f[n] = <<>>
    BY <1>1, <1>2, EmptySeq
  <2> HIDE DEF f
  <2> QED
    BY <1>2, <2>2, <2>3
<1>3. CASE n # 0
  <2> DEFINE P(f) == f = [i \in 1..n |-> IF i = 1 THEN seqs[i] ELSE f[i - 1] \o seqs[i]]
             chosen == CHOOSE f : P(f)
             step == [p \in (1..n) \X Seq(S) |-> p[2] \o seqs[p[1]]]
  <2>1. StaysIn(Seq(S), n, step)
    BY <1>1, ConcatProperties DEF StaysIn
  <2>2. PICK g : /\ \A i \in 0..n : g[i] \in Seq(S)
                 /\ g[0] = <<>>
                 /\ \A i \in 1..n : g[i] = step[<<i, g[i - 1]>>]
    <3> HIDE DEF step
    <3>1. <<>> \in Seq(S)
      BY EmptySeq
    <3>2. HasSolution(Seq(S), n, <<>>, step)
      BY <1>1, <2>1, <3>1, Recursion
    <3> QED
      BY <3>2 DEF HasSolution, IsSolution
  <2>3. g[0] = <<>> /\ \A i \in 1..n : g[i] = g[i - 1] \o seqs[i]
    <3>1. ASSUME NEW i \in 1..n PROVE g[i] = g[i - 1] \o seqs[i]
      <4>1. i \in 0..n /\ i - 1 \in 0..n
        BY <1>1
      <4>2. <<i, g[i - 1]>> \in (1..n) \X Seq(S)
        BY <2>2, <4>1
      <4> QED
        BY <2>2, <4>2
    <3> QED
      BY <2>2, <3>1
  <2> DEFINE h == [i \in 1..n |-> g[i]]
  <2>4. P(h)
    <3>1. ASSUME NEW i \in 1..n
          PROVE  h[i] = IF i = 1 THEN seqs[i] ELSE h[i - 1] \o seqs[i]
      <4>1. CASE i = 1
        <5>0. h[i] = g[i] /\ i - 1 = 0
          BY <4>1
        <5>1. h[i] = <<>> \o seqs[i]
          BY <2>3, <5>0
        <5> QED
          BY <1>1, <4>1, <5>1, ConcatEmptySeq
      <4>2. CASE i # 1
        <5>1. i - 1 \in 1..n
          BY <1>1, <4>2
        <5> QED
          BY <2>3, <4>2, <5>1
      <4> QED
        BY <4>1, <4>2
    <3>2. h = [i \in 1..n |-> h[i]]
      OBVIOUS
    <3> HIDE DEF h
    <3> QED
      BY <3>1, <3>2
  <2>5. P(chosen)
    <3> HIDE DEF h
    <3>1. \E f : P(f)
      BY <2>4
    <3> QED
      BY <3>1, Zenon
  <2>6. FlattenSeq(seqs) = chosen[n]
    BY <1>3 DEF FlattenSeq
  <2>7. ASSUME NEW i \in 1..n
        PROVE  chosen[i] = IF i = 1 THEN seqs[i] ELSE chosen[i - 1] \o seqs[i]
    <3> HIDE DEF chosen
    <3> QED
      BY <2>5
  <2> HIDE DEF chosen
  <2> DEFINE T == {i \in 0..n : i # 0 => chosen[i] = g[i]}
  <2>8. 0 \in T
    BY <1>1
  <2>9. ASSUME NEW i \in 1..n, i - 1 \in T PROVE i \in T
    <3>1. CASE i = 1
      <4>1. i - 1 = 0
        BY <3>1
      <4>2. g[i] = <<>> \o seqs[i]
        BY <2>3, <4>1
      <4>3. g[i] = seqs[i]
        BY <1>1, <4>2, ConcatEmptySeq
      <4> QED
        BY <1>1, <2>7, <3>1, <4>3
    <3>2. CASE i # 1
      <4>1. chosen[i - 1] = g[i - 1] /\ i \in 0..n
        BY <1>1, <2>9, <3>2
      <4>2. chosen[i] = chosen[i - 1] \o seqs[i]
        BY <2>7, <3>2
      <4>3. g[i] = g[i - 1] \o seqs[i]
        BY <2>3
      <4>4. chosen[i] = g[i]
        BY <4>1, <4>2, <4>3
      <4> QED
        BY <4>1, <4>4
    <3> QED
      BY <3>1, <3>2
  <2>10. n \in T
    <3> HIDE DEF T
    <3>1. 0..n \subseteq T
      BY <1>1, <2>8, <2>9, UpTo
    <3> QED
      BY <1>1, <3>1
  <2>11. g[n] = FlattenSeq(seqs)
    BY <1>3, <2>6, <2>10
  <2>12. /\ \A i \in 0..n : g[i] \in Seq(S)
         /\ g[0] = <<>> /\ g[n] = FlattenSeq(seqs)
         /\ \A i \in 1..n : g[i] = g[i - 1] \o seqs[i]
    BY <2>2, <2>3, <2>11
  <2> QED
    BY <2>12
<1> QED
  BY <1>2, <1>3

\* Where the lists of a flattened list start.
Starts(start, seqs) ==
    /\ start \in [1..(Len(seqs) + 1) -> Nat] /\ start[1] = 0
    /\ \A i \in 1..Len(seqs) : start[i + 1] = start[i] + Len(seqs[i])
    /\ start[Len(seqs) + 1] = Len(FlattenSeq(seqs))
    /\ \A i \in 1..Len(seqs), j \in 1..(Len(seqs) + 1) : i < j => start[i + 1] <= start[j]
    /\ \A i \in 1..Len(seqs) : \A j \in 1..Len(seqs[i]) :
          /\ start[i] + j \in 1..Len(FlattenSeq(seqs))
          /\ FlattenSeq(seqs)[start[i] + j] = seqs[i][j]
    /\ \A k \in 1..Len(FlattenSeq(seqs)) :
          \E i \in 1..Len(seqs) : \E j \in 1..Len(seqs[i]) : k = start[i] + j

LEMMA FlattenPlaces ==
    ASSUME NEW S, NEW seqs \in Seq(Seq(S))
    PROVE  FlattenSeq(seqs) \in Seq(S) /\ \E start : Starts(start, seqs)
<1> DEFINE n == Len(seqs)
           flat == FlattenSeq(seqs)
<1>1. n \in Nat /\ \A i \in 1..n : seqs[i] \in Seq(S) /\ Len(seqs[i]) \in Nat
  BY PartsOfSeq
<1>2. PICK f :
              /\ \A i \in 0..n : f[i] \in Seq(S)
              /\ f[0] = <<>> /\ f[n] = flat
              /\ \A i \in 1..n : f[i] = f[i - 1] \o seqs[i]
  BY FlattenStepByStep
<1> HIDE DEF flat, n
<1> DEFINE start == [i \in 1..(n + 1) |-> Len(f[i - 1])]
<1>3. \A i \in 0..n : f[i] \in Seq(S) /\ Len(f[i]) \in Nat
  BY <1>2, PartsOfSeq
<1>4. start \in [1..(n + 1) -> Nat] /\ \A i \in 1..(n + 1) : start[i] = Len(f[i - 1])
  BY <1>1, <1>3
<1> HIDE DEF start
<1>5. start[1] = 0
  BY <1>1, <1>2, <1>4, EmptySeq
<1>6. ASSUME NEW i \in 1..n
      PROVE  /\ start[i] \in Nat /\ start[i + 1] \in Nat /\ Len(seqs[i]) \in Nat
             /\ start[i + 1] = start[i] + Len(seqs[i])
             /\ \A k \in 1..start[i] : f[i][k] = f[i - 1][k]
             /\ \A j \in 1..Len(seqs[i]) : f[i][start[i] + j] = seqs[i][j]
  <2> DEFINE a == f[i - 1]
             b == seqs[i]
             c == f[i]
             p == start[i]
             q == start[i + 1]
  <2>1. i - 1 \in 0..n /\ i \in 1..(n + 1) /\ i + 1 \in 1..(n + 1) /\ (i + 1) - 1 = i
    BY <1>1
  <2>2. c = a \o b /\ a \in Seq(S) /\ b \in Seq(S)
    BY <1>1, <1>2, <2>1
  <2>3. p = Len(a) /\ q = Len(c)
    BY <1>4, <2>1
  <2> SUFFICES /\ p \in Nat /\ q \in Nat /\ Len(b) \in Nat
               /\ q = p + Len(b)
               /\ \A k \in 1..p : c[k] = a[k]
               /\ \A j \in 1..Len(b) : c[p + j] = b[j]
    OBVIOUS
  <2> HIDE DEF a, b, c, p, q
  <2>4. /\ Len(a \o b) = Len(a) + Len(b)
        /\ \A k \in 1..(Len(a) + Len(b)) : (a \o b)[k] = IF k <= Len(a) THEN a[k] ELSE b[k - Len(a)]
    BY <2>2, ConcatProperties
  <2>5. Len(a) \in Nat /\ Len(b) \in Nat
    BY <2>2, PartsOfSeq
  <2>6. ASSUME NEW k \in 1..p PROVE c[k] = a[k]
    <3>1. k \in 1..(Len(a) + Len(b)) /\ k <= Len(a)
      BY <2>3, <2>5
    <3> QED
      BY <2>2, <2>4, <3>1
  <2>7. ASSUME NEW j \in 1..Len(b) PROVE c[p + j] = b[j]
    <3>1. p + j \in 1..(Len(a) + Len(b)) /\ ~(p + j <= Len(a)) /\ (p + j) - Len(a) = j
      BY <2>3, <2>5
    <3> QED
      BY <2>2, <2>4, <3>1
  <2> QED
    BY <2>2, <2>3, <2>4, <2>5, <2>6, <2>7
<1> DEFINE end == [k \in 0..n |-> Len(f[k])]
<1>7. ASSUME NEW k \in 0..n
      PROVE  end[k] \in Nat /\ end[k] = start[k + 1] /\ end[k] = Len(f[k])
  <2>1. k + 1 \in 1..(n + 1) /\ (k + 1) - 1 = k
    BY <1>1
  <2> QED
    BY <1>3, <1>4, <2>1
<1>8. ASSUME NEW i \in 1..n
      PROVE  /\ i \in 0..n /\ i - 1 \in 0..n
             /\ end[i - 1] = start[i] /\ end[i] = start[i + 1]
             /\ end[i] \in Nat /\ end[i - 1] \in Nat
  <2>1. i \in 0..n /\ i - 1 \in 0..n /\ (i - 1) + 1 = i
    BY <1>1
  <2> HIDE DEF end
  <2> QED
    BY <1>7, <2>1
<1> HIDE DEF end
<1> DEFINE Reaches(k) == \A i \in 1..n : i <= k => end[i] <= end[k]
           Keeps(k) ==
              \A i \in 1..n : i <= k => \A j \in 1..Len(seqs[i]) :
                 start[i] + j \in 1..end[k] /\ f[k][start[i] + j] = seqs[i][j]
           Fills(k) ==
              \A p \in 1..end[k] : \E i \in 1..n : \E j \in 1..Len(seqs[i]) : p = start[i] + j
           T == {k \in 0..n : Reaches(k) /\ Keeps(k) /\ Fills(k)}
<1>9. 0 \in T
  <2>1. 0 \in 0..n /\ end[0] = 0
    BY <1>1, <1>5, <1>7
  <2> QED
    BY <1>1, <2>1
<1>10. ASSUME NEW k \in 1..n, k - 1 \in T PROVE k \in T
  <2> DEFINE q == k - 1
  <2>1. /\ start[k] \in Nat /\ end[k] \in Nat /\ Len(seqs[k]) \in Nat
        /\ end[k] = start[k] + Len(seqs[k])
        /\ k \in 0..n /\ q \in 0..n /\ end[q] = start[k]
        /\ \A i \in 1..n : i <= k => i = k \/ i <= q
    <3>1. k \in 0..n /\ q \in 0..n /\ \A i \in 1..n : i <= k => i = k \/ i <= q
      BY <1>1
    <3>2. end[q] = start[k] /\ end[k] = start[k + 1] /\ end[k] \in Nat
      BY <1>8
    <3>3. start[k] \in Nat /\ Len(seqs[k]) \in Nat /\ start[k + 1] = start[k] + Len(seqs[k])
      BY <1>6
    <3> HIDE DEF q
    <3> QED
      BY <3>1, <3>2, <3>3
  <2>2. q \in T
    BY <1>10
  <2>3. \A p \in 1..end[q] : f[k][p] = f[q][p]
    BY <1>6, <2>1
  <2> HIDE DEF q
  <2>4. Reaches(q) /\ Keeps(q) /\ Fills(q)
    BY <2>2
  <2>5. ASSUME NEW i \in 1..n, i <= k PROVE end[i] <= end[k]
    <3>1. CASE i = k
      BY <2>1, <3>1
    <3>2. CASE i <= q
      <4>1. end[i] <= end[q] /\ end[i] \in Nat
        BY <1>8, <2>4, <3>2
      <4> QED
        BY <2>1, <4>1
    <3> QED
      BY <2>1, <2>5, <3>1, <3>2
  <2>6. ASSUME NEW i \in 1..n, i <= k, NEW j \in 1..Len(seqs[i])
        PROVE  start[i] + j \in 1..end[k] /\ f[k][start[i] + j] = seqs[i][j]
    <3>1. CASE i = k
      <4>1. f[k][start[k] + j] = seqs[k][j]
        BY <1>6, <3>1
      <4> DEFINE first == start[k]
                 last == end[k]
                 size == Len(seqs[k])
      <4>2. first \in Nat /\ last \in Nat /\ size \in Nat /\ last = first + size /\ j \in 1..size
        BY <2>1, <3>1
      <4>3. first + j \in 1..last
        <5> HIDE DEF first, last, size
        <5> QED
          BY <4>2
      <4> QED
        BY <3>1, <4>1, <4>3
    <3>2. CASE i <= q
      <4>1. start[i] + j \in 1..end[q] /\ f[q][start[i] + j] = seqs[i][j]
        BY <2>4, <3>2
      <4>2. f[k][start[i] + j] = f[q][start[i] + j]
        BY <2>3, <4>1
      <4> DEFINE p == start[i] + j
      <4>3. p \in 1..end[q] => p \in 1..end[k]
        <5> HIDE DEF p
        <5> QED
          BY <2>1
      <4> QED
        BY <4>1, <4>2, <4>3
    <3> QED
      BY <2>1, <2>6, <3>1, <3>2
  <2>7. ASSUME NEW p \in 1..end[k]
        PROVE  \E i \in 1..n : \E j \in 1..Len(seqs[i]) : p = start[i] + j
    <3>1. CASE p <= start[k]
      <4>1. p \in 1..end[q]
        BY <2>1, <3>1
      <4> QED
        BY <2>4, <4>1
    <3>2. CASE p > start[k]
      <4> DEFINE first == start[k]
                 last == end[k]
                 size == Len(seqs[k])
      <4>1. /\ first \in Nat /\ last \in Nat /\ size \in Nat /\ last = first + size
            /\ p \in 1..last /\ p > first
        BY <2>1, <3>2
      <4>2. p - first \in 1..size /\ p = first + (p - first)
        <5> HIDE DEF first, last, size
        <5> QED
          BY <4>1
      <4> QED
        BY <4>2
    <3> QED
      BY <2>1, <3>1, <3>2
  <2> QED
    BY <2>1, <2>5, <2>6, <2>7
<1>11. \A k \in 0..n : Reaches(k) /\ Keeps(k) /\ Fills(k)
  <2>1. 0..n \subseteq T
    <3> HIDE DEF T
    <3> QED
      BY <1>1, <1>9, <1>10, UpTo
  <2> QED
    BY <2>1
<1>12. n \in 0..n /\ end[n] = Len(flat) /\ flat = f[n] /\ start[n + 1] = end[n]
  <2>1. n \in 0..n
    BY <1>1
  <2> QED
    BY <1>2, <1>7, <2>1
<1>13. ASSUME NEW i \in 1..n, NEW j \in 1..(n + 1), i < j PROVE start[i + 1] <= start[j]
  <2> DEFINE k == j - 1
  <2>1. k \in 1..n /\ i <= k /\ k + 1 = j
    BY <1>1, <1>13
  <2> HIDE DEF k
  <2>2. end[i] <= end[k] /\ end[i] = start[i + 1] /\ end[k] = start[j]
    BY <1>8, <1>11, <2>1
  <2> QED
    BY <2>2
<1>14. Keeps(n) /\ Fills(n) /\ \A i \in 1..n : i <= n
  <2>1. \A i \in 1..n : i <= n
    BY <1>1
  <2> HIDE DEF Keeps, Fills, Reaches
  <2> QED
    BY <1>11, <1>12, <2>1
<1>15. /\ \A i \in 1..n : \A j \in 1..Len(seqs[i]) :
             start[i] + j \in 1..Len(flat) /\ flat[start[i] + j] = seqs[i][j]
       /\ \A k \in 1..Len(flat) : \E i \in 1..n : \E j \in 1..Len(seqs[i]) : k = start[i] + j
  BY <1>12, <1>14
<1>16. flat \in Seq(S)
  BY <1>1, <1>2
<1>17. Starts(start, seqs)
  BY <1>4, <1>5, <1>6, <1>12, <1>13, <1>15 DEF Starts, flat, n
<1> QED
  BY <1>16, <1>17 DEF flat

-----------------------------------------------------------------------------
(***************************************************************************)
(* What the commands do to the tables.                                     *)
(***************************************************************************)
\* A table takes the last record of each id it is given, and keeps the others.
LEMMA RecordsAt ==
    ASSUME NEW table, NEW recs \in Seq(Memory), NEW m \in Ids
    PROVE  /\ (\A i \in DOMAIN recs : recs[i].id # m) => WithRecords(table, recs)[m] = table[m]
           /\ (\E i \in DOMAIN recs : recs[i].id = m) =>
                 \E i \in DOMAIN recs : /\ recs[i].id = m
                                       /\ \A j \in DOMAIN recs : recs[j].id = m => j <= i
                                       /\ WithRecords(table, recs)[m] = recs[i]
<1> DEFINE at == {i \in DOMAIN recs : recs[i].id = m}
           Latest(i) == \A j \in at : j <= i
<1>1. WithRecords(table, recs)[m] =
         IF at = {} THEN table[m] ELSE recs[CHOOSE i \in at : Latest(i)]
  BY DEF WithRecords
<1>2. Len(recs) \in Nat /\ DOMAIN recs = 1..Len(recs)
  BY PartsOfSeq
<1>3. CASE at = {}
  BY <1>1, <1>3
<1>4. CASE at # {}
  <2>1. at \subseteq Nat /\ at \subseteq 1..Len(recs)
    BY <1>2
  <2> DEFINE turned == {Len(recs) - i : i \in at}
  <2>2. \E i \in at : Latest(i)
    <3>1. turned \subseteq Nat /\ turned # {}
      BY <1>2, <1>4, <2>1
    <3>2. PICK n \in turned : \A k \in turned : n <= k
      <4> HIDE DEF turned
      <4> QED
        BY <3>1, LowestOf
    <3>3. PICK i \in at : n = Len(recs) - i
      BY <3>2
    <3>4. ASSUME NEW j \in at PROVE j <= i
      <4>1. Len(recs) - i <= Len(recs) - j
        BY <3>2, <3>3
      <4> QED
        BY <1>2, <2>1, <4>1
    <3> QED
      BY <3>4
  <2> DEFINE i == CHOOSE k \in at : Latest(k)
  <2>3. i \in at /\ Latest(i)
    BY <2>2
  <2>4. WithRecords(table, recs)[m] = recs[i]
    BY <1>1, <1>4
  <2> HIDE DEF i
  <2> QED
    BY <1>4, <2>3, <2>4
<1> QED
  BY <1>3, <1>4

\* A table of memories stays one, every record under its own id.
LEMMA RecordsAreTyped ==
    ASSUME NEW V, Memory \subseteq V, NEW table \in [Ids -> V], NEW recs \in Seq(Memory)
    PROVE  /\ WithRecords(table, recs) \in [Ids -> V]
           /\ \A m \in Ids : \/ WithRecords(table, recs)[m] = table[m]
                             \/ /\ WithRecords(table, recs)[m] \in Memory
                                /\ WithRecords(table, recs)[m].id = m
<1>1. DOMAIN recs = 1..Len(recs) /\ \A i \in DOMAIN recs : recs[i] \in Memory
  BY PartsOfSeq
<1>2. ASSUME NEW m \in Ids
      PROVE  \/ WithRecords(table, recs)[m] = table[m]
             \/ /\ WithRecords(table, recs)[m] \in Memory
                /\ WithRecords(table, recs)[m].id = m
  BY <1>1, RecordsAt
<1>3. WithRecords(table, recs) = [m \in Ids |-> WithRecords(table, recs)[m]]
  BY DEF WithRecords
<1>4. ASSUME NEW m \in Ids PROVE WithRecords(table, recs)[m] \in V
  BY <1>2
<1> HIDE DEF WithRecords
<1> QED
  BY <1>2, <1>3, <1>4

LEMMA PlaceholderAt ==
    ASSUME NEW table \in [Ids -> Memory \cup {Absent, Placeholder}], NEW m
    PROVE  /\ WithPlaceholder(table, m) \in [Ids -> Memory \cup {Absent, Placeholder}]
           /\ \A k \in Ids : \/ WithPlaceholder(table, m)[k] = table[k]
                             \/ /\ table[k] = Absent
                                /\ WithPlaceholder(table, m)[k] = Placeholder
BY DEF WithPlaceholder

\* Edges of the same id go between the same memories.
LEMMA EdgeParts ==
    ASSUME NEW e \in EdgeType
    PROVE  /\ e.kind \in EdgeKinds /\ e.source \in Ids /\ e.target \in Ids
           /\ e.archived \in BOOLEAN
           /\ IdOf(e) = <<e.kind, e.source, e.target>> /\ IdOf(e) \in EdgeIds
           /\ StoredEdge(e).id = IdOf(e) /\ StoredEdge(e).payload = e
           /\ StoredEdge(e).from = e.source /\ StoredEdge(e).to = e.target
           /\ \A d \in EdgeType : IdOf(d) = IdOf(e) =>
                 /\ d.source = e.source /\ d.target = e.target
                 /\ d.archived = e.archived => d = e
BY DEF EdgeType, IdOf, EdgeId, EdgeIds, StoredEdge

LEMMA RowParts ==
    ASSUME NEW row \in SoundRows
    PROVE  /\ row.payload \in EdgeType /\ row = StoredEdge(row.payload)
           /\ row.id = IdOf(row.payload)
           /\ row.from = row.payload.source /\ row.to = row.payload.target
<1>1. PICK e \in EdgeType : row = StoredEdge(e)
  BY DEF SoundRows
<1> QED
  BY <1>1, EdgeParts

\* Whatever the backend: the row of the id is replaced by that of the edge.
LEMMA EdgeIsWritten ==
    ASSUME NEW rows \in SUBSET SoundRows, NEW e \in EdgeType
    PROVE  /\ WithEdge(rows, e) = {r \in rows : r.id # IdOf(e)} \cup {StoredEdge(e)}
           /\ WithEdge(rows, e) \in SUBSET SoundRows
<1>1. ASSUME NEW r \in rows
      PROVE  IsSameRow(r, e) <=> r.id = IdOf(e)
  BY EdgeParts, RowParts DEF IsSameRow
<1>2. ASSUME NEW r \in rows, r.id = IdOf(e)
      PROVE  Replacement(r, e) = StoredEdge(e)
  <2>1. /\ r.payload \in EdgeType /\ r = StoredEdge(r.payload) /\ IdOf(r.payload) = IdOf(e)
        /\ r.payload.source = e.source /\ r.payload.target = e.target
    BY <1>2, EdgeParts, RowParts
  <2>2. r = [id |-> IdOf(e), from |-> e.source, to |-> e.target, payload |-> r.payload]
    BY <2>1 DEF StoredEdge
  <2>3. [r EXCEPT !.payload = e] = StoredEdge(e)
    BY <2>2 DEF StoredEdge
  <2> QED
    BY <2>3 DEF Replacement
<1>3. {r \in rows : IsSameRow(r, e)} = {r \in rows : r.id = IdOf(e)}
  BY <1>1
<1> DEFINE same == {r \in rows : r.id = IdOf(e)}
<1>4. WithEdge(rows, e) =
         (rows \ same) \cup
         (IF same = {} THEN {StoredEdge(e)} ELSE {Replacement(r, e) : r \in same})
  BY <1>3 DEF WithEdge
<1>5. (IF same = {} THEN {StoredEdge(e)} ELSE {Replacement(r, e) : r \in same}) = {StoredEdge(e)}
  BY <1>2
<1>6. WithEdge(rows, e) = {r \in rows : r.id # IdOf(e)} \cup {StoredEdge(e)}
  BY <1>4, <1>5
<1>7. StoredEdge(e) \in SoundRows
  BY DEF SoundRows
<1> QED
  BY <1>6, <1>7

\* Edges are written one after another.
LEMMA EdgesStepByStep ==
    ASSUME NEW rows \in SUBSET SoundRows, NEW es \in Seq(EdgeType)
    PROVE  \E f : /\ \A i \in 0..Len(es) : f[i] \in SUBSET SoundRows
                  /\ f[0] = rows /\ f[Len(es)] = WithEdges(rows, es)
                  /\ \A i \in 1..Len(es) : f[i] = WithEdge(f[i - 1], es[i])
<1> DEFINE n == Len(es)
           V == SUBSET SoundRows
           P(f) == f = [i \in 0..n |-> IF i = 0 THEN rows ELSE WithEdge(f[i - 1], es[i])]
           chosen == CHOOSE f : P(f)
           step == [p \in (1..n) \X V |-> WithEdge(p[2], es[p[1]])]
<1>1. n \in Nat /\ \A i \in 1..n : es[i] \in EdgeType
  BY PartsOfSeq
<1>2. \A i \in 1..n : \A v \in V : step[<<i, v>>] = WithEdge(v, es[i]) /\ step[<<i, v>>] \in V
  BY <1>1, EdgeIsWritten
<1>3. WithEdges(rows, es) = chosen[n]
  BY DEF WithEdges
<1> HIDE DEF step, V, n, chosen
<1>4. rows \in V
  BY DEF V
<1>5. HasSolution(V, n, rows, step)
  <2>1. StaysIn(V, n, step)
    BY <1>2 DEF StaysIn
  <2> QED
    BY <1>1, <1>4, <2>1, Recursion
<1>6. PICK g : IsSolution(g, V, n, rows, step)
  BY <1>5 DEF HasSolution
<1>7. /\ g[0] = rows /\ \A i \in 0..n : g[i] \in V
      /\ \A i \in 1..n : g[i] = WithEdge(g[i - 1], es[i])
  <2>1. ASSUME NEW i \in 1..n PROVE g[i] = WithEdge(g[i - 1], es[i])
    <3>1. i - 1 \in 0..n
      BY <1>1
    <3> QED
      BY <1>2, <1>6, <3>1 DEF IsSolution
  <2> QED
    BY <1>6, <2>1 DEF IsSolution
<1> DEFINE h == [i \in 0..n |-> g[i]]
<1>8. P(h)
  <2>1. ASSUME NEW i \in 0..n
        PROVE  h[i] = IF i = 0 THEN rows ELSE WithEdge(h[i - 1], es[i])
    <3>1. CASE i = 0
      BY <1>7, <3>1
    <3>2. CASE i # 0
      <4>1. i \in 1..n /\ i - 1 \in 0..n
        BY <1>1, <3>2
      <4> QED
        BY <1>7, <3>2, <4>1
    <3> QED
      BY <3>1, <3>2
  <2>2. h = [i \in 0..n |-> h[i]]
    OBVIOUS
  <2> HIDE DEF h
  <2> QED
    BY <2>1, <2>2
<1>9. P(chosen)
  <2> HIDE DEF h
  <2>1. \E f : P(f)
    BY <1>8
  <2> QED
    BY <2>1, Zenon DEF chosen
<1>10. chosen[0] = rows /\ \A i \in 1..n : chosen[i] = WithEdge(chosen[i - 1], es[i])
  <2>1. \A i \in 0..n : chosen[i] = IF i = 0 THEN rows ELSE WithEdge(chosen[i - 1], es[i])
    BY <1>9
  <2>2. 0 \in 0..n /\ \A i \in 1..n : i \in 0..n /\ i # 0
    BY <1>1
  <2> QED
    BY <2>1, <2>2
<1> DEFINE T == {i \in 0..n : chosen[i] \in V}
<1>11. 0 \in T
  BY <1>1, <1>4, <1>10
<1>12. ASSUME NEW i \in 1..n, i - 1 \in T PROVE i \in T
  <2>1. chosen[i - 1] \in V /\ i \in 0..n
    BY <1>1, <1>12
  <2>2. chosen[i] \in V
    BY <1>2, <1>10, <2>1
  <2> QED
    BY <2>1, <2>2
<1>13. \A i \in 0..n : chosen[i] \in V
  <2>1. 0..n \subseteq T
    <3> HIDE DEF T
    <3> QED
      BY <1>1, <1>11, <1>12, UpTo
  <2> QED
    BY <2>1
<1> QED
  BY <1>3, <1>10, <1>13 DEF n, V

\* The rows of es join the others; those of other ids stay, and so does one whose id
\* es has for its own edge only.
LEMMA EdgesAreWritten ==
    ASSUME NEW rows \in SUBSET SoundRows, NEW es \in Seq(EdgeType)
    PROVE  /\ WithEdges(rows, es) \in SUBSET SoundRows
           /\ \A row \in WithEdges(rows, es) :
                 row \in rows \/ \E i \in DOMAIN es : row = StoredEdge(es[i])
           /\ \A e \in EdgeType :
                 /\ StoredEdge(e) \in rows \/ \E i \in DOMAIN es : es[i] = e
                 /\ \A i \in DOMAIN es : IdOf(es[i]) = IdOf(e) => es[i] = e
                 => StoredEdge(e) \in WithEdges(rows, es)
<1> DEFINE n == Len(es)
<1>1. n \in Nat /\ DOMAIN es = 1..n /\ \A i \in 1..n : es[i] \in EdgeType
  BY PartsOfSeq
<1>2. PICK f : /\ \A i \in 0..n : f[i] \in SUBSET SoundRows
               /\ f[0] = rows /\ f[n] = WithEdges(rows, es)
               /\ \A i \in 1..n : f[i] = WithEdge(f[i - 1], es[i])
  BY EdgesStepByStep
<1> HIDE DEF n
<1>3. ASSUME NEW i \in 1..n
      PROVE  /\ i \in 0..n /\ i - 1 \in 0..n
             /\ f[i] = {r \in f[i - 1] : r.id # IdOf(es[i])} \cup {StoredEdge(es[i])}
  <2>1. i \in 0..n /\ i - 1 \in 0..n
    BY <1>1
  <2>2. f[i - 1] \in SUBSET SoundRows /\ es[i] \in EdgeType
    BY <1>1, <1>2, <2>1
  <2> QED
    BY <1>2, <2>1, <2>2, EdgeIsWritten
<1>4. 0 \in 0..n /\ n \in 0..n
  BY <1>1
<1>5. ASSUME NEW row \in f[n]
      PROVE  row \in rows \/ \E i \in 1..n : row = StoredEdge(es[i])
  <2> DEFINE Known(r) == r \in rows \/ \E i \in 1..n : r = StoredEdge(es[i])
             T == {k \in 0..n : \A r \in f[k] : Known(r)}
  <2>1. 0 \in T
    BY <1>2, <1>4
  <2>2. ASSUME NEW k \in 1..n, k - 1 \in T PROVE k \in T
    <3>1. \A r \in f[k - 1] : Known(r)
      BY <2>2
    <3>2. \A r \in f[k] : r \in f[k - 1] \/ r = StoredEdge(es[k])
      BY <1>3
    <3> QED
      BY <1>3, <3>1, <3>2
  <2>3. n \in T
    <3> HIDE DEF T
    <3> QED
      BY <1>1, <1>4, <2>1, <2>2, UpTo
  <2> QED
    BY <2>3
<1>6. ASSUME NEW e \in EdgeType,
             StoredEdge(e) \in rows \/ \E i \in 1..n : es[i] = e,
             \A i \in 1..n : IdOf(es[i]) = IdOf(e) => es[i] = e
      PROVE  StoredEdge(e) \in f[n]
  <2> DEFINE Held(k) == StoredEdge(e) \in f[k]
             Met(k) == StoredEdge(e) \in rows \/ \E i \in 1..n : i <= k /\ es[i] = e
             T == {k \in 0..n : Met(k) => Held(k)}
  <2>1. 0 \in T
    <3>1. \A i \in 1..n : ~(i <= 0)
      BY <1>1
    <3> QED
      BY <1>2, <1>4, <3>1
  <2>2. ASSUME NEW k \in 1..n, k - 1 \in T PROVE k \in T
    <3> SUFFICES ASSUME Met(k) PROVE Held(k)
      BY <1>3
    <3>1. CASE es[k] = e
      BY <1>3, <3>1
    <3>2. CASE es[k] # e
      <4>1. Met(k - 1)
        <5>1. \A i \in 1..n : i <= k => i = k \/ i <= k - 1
          BY <1>1
        <5> QED
          BY <3>2, <5>1
      <4>2. Held(k - 1)
        BY <2>2, <4>1
      <4>3. StoredEdge(e).id = IdOf(e) /\ IdOf(es[k]) # IdOf(e)
        BY <1>6, <3>2, EdgeParts
      <4> QED
        BY <1>3, <4>2, <4>3
    <3> QED
      BY <3>1, <3>2
  <2>3. n \in T
    <3> HIDE DEF T
    <3> QED
      BY <1>1, <1>4, <2>1, <2>2, UpTo
  <2>4. Met(n)
    <3>1. \A i \in 1..n : i <= n
      BY <1>1
    <3> QED
      BY <1>6, <3>1
  <2> QED
    BY <2>3, <2>4
<1> QED
  BY <1>1, <1>2, <1>4, <1>5, <1>6

-----------------------------------------------------------------------------
(***************************************************************************)
(* The commands of a call.                                                 *)
(***************************************************************************)
LEMMA CommandCases ==
    ASSUME NEW c \in Commands
    PROVE  \/ c.op = "put" /\ c.recs \in Seq(Memory)
           \/ c.op = "node" /\ c.recs \in Seq(Memory)
           \/ c.op = "placeholder" /\ c.id \in Ids
           \/ c.op = "index" /\ c.index \in Indexes /\ c.id \in Ids /\ c.text \in Texts
           \/ c.op = "edges" /\ c.edges \in Seq(EdgeType)
           \/ c.op = "set" /\ c.edge \in EdgeType
           \/ c.op = "link" /\ c.end \in Ends /\ c.edge \in EdgeType
<1>1. CASE c \in Puts
  BY <1>1 DEF Puts
<1>2. CASE c \in Nodes
  BY <1>2 DEF Nodes
<1>3. CASE c \in Placeholders
  BY <1>3 DEF Placeholders
<1>4. CASE c \in Indexings
  BY <1>4 DEF Indexings
<1>5. CASE c \in Rows
  BY <1>5 DEF Rows
<1>6. CASE c \in RedisEdges
  BY <1>6 DEF RedisEdges
<1>7. CASE c \in RedisLinks
  BY <1>7 DEF RedisLinks
<1> QED
  BY <1>1, <1>2, <1>3, <1>4, <1>5, <1>6, <1>7 DEF Commands

LEMMA PutIsACommand ==
    ASSUME NEW recs \in Seq(Memory)
    PROVE  /\ PutMemories(recs) \in Commands
           /\ PutMemories(recs).op = "put" /\ PutMemories(recs).recs = recs
           /\ UpsertNodes(recs) \in Commands
           /\ UpsertNodes(recs).op = "node" /\ UpsertNodes(recs).recs = recs
BY DEF PutMemories, UpsertNodes, Puts, Nodes, Commands

LEMMA IndexIsACommand ==
    ASSUME NEW idx \in Indexes, NEW rec \in Memory
    PROVE  /\ UpsertIndex(idx, rec) \in Commands
           /\ UpsertIndex(idx, rec).op = "index" /\ UpsertIndex(idx, rec).index = idx
           /\ UpsertIndex(idx, rec).id = rec.id /\ UpsertIndex(idx, rec).text = rec.text
<1>1. rec.id \in Ids /\ rec.text \in Texts
  BY DEF Memory
<1> QED
  BY <1>1 DEF UpsertIndex, Indexings, Commands

LEMMA EdgesAreCommands ==
    ASSUME NEW e \in EdgeType
    PROVE  /\ UpsertRows(<<e>>) \in Commands
           /\ UpsertRows(<<e>>).op = "edges" /\ UpsertRows(<<e>>).edges = <<e>>
           /\ EnsurePlaceholder(e.source) \in Commands /\ EnsurePlaceholder(e.source).op = "placeholder"
           /\ EnsurePlaceholder(e.target) \in Commands /\ EnsurePlaceholder(e.target).op = "placeholder"
           /\ SetEdge(e) \in Commands /\ SetEdge(e).op = "set" /\ SetEdge(e).edge = e
           /\ \A end \in Ends : /\ AddLink(end, e) \in Commands /\ AddLink(end, e).op = "link"
                                /\ AddLink(end, e).end = end /\ AddLink(end, e).edge = e
<1>1. e.source \in Ids /\ e.target \in Ids
  BY EdgeParts
<1>2. <<e>> \in Seq(EdgeType)
  OBVIOUS
<1>3. /\ UpsertRows(<<e>>) \in Commands
      /\ UpsertRows(<<e>>).op = "edges" /\ UpsertRows(<<e>>).edges = <<e>>
  BY <1>2 DEF UpsertRows, Rows, Commands
<1>4. /\ EnsurePlaceholder(e.source) \in Commands /\ EnsurePlaceholder(e.source).op = "placeholder"
      /\ EnsurePlaceholder(e.target) \in Commands /\ EnsurePlaceholder(e.target).op = "placeholder"
  BY <1>1 DEF EnsurePlaceholder, Placeholders, Commands
<1>5. SetEdge(e) \in Commands /\ SetEdge(e).op = "set" /\ SetEdge(e).edge = e
  BY DEF SetEdge, RedisEdges, Commands
<1>6. \A end \in Ends : /\ AddLink(end, e) \in Commands /\ AddLink(end, e).op = "link"
                        /\ AddLink(end, e).end = end /\ AddLink(end, e).edge = e
  BY DEF AddLink, RedisLinks, Commands
<1> QED
  BY <1>3, <1>4, <1>5, <1>6

\* The parts of what is written: all of it, or one by one.
LEMMA TransactionParts ==
    ASSUME NEW S, NEW items \in Seq(S), NEW kind
    PROVE  /\ Transactions(kind, items) \in Seq(Seq(S))
           /\ \/ Transactions(kind, items) = <<items>>
              \/ /\ Len(Transactions(kind, items)) = Len(items)
                 /\ \A i \in 1..Len(items) : Transactions(kind, items)[i] = <<items[i]>>
<1>1. Len(items) \in Nat /\ DOMAIN items = 1..Len(items) /\ \A i \in 1..Len(items) : items[i] \in S
  BY PartsOfSeq
<1>2. CASE kind \in Transactional /\ items # <<>>
  <2>1. Transactions(kind, items) = <<items>>
    BY <1>2 DEF Transactions
  <2>2. <<items>> \in Seq(Seq(S))
    OBVIOUS
  <2> QED
    BY <2>1, <2>2
<1>3. CASE ~(kind \in Transactional /\ items # <<>>)
  <2> DEFINE f == [i \in 1..Len(items) |-> <<items[i]>>]
  <2>1. Transactions(kind, items) = f
    BY <1>1, <1>3 DEF Transactions
  <2>2. ASSUME NEW i \in 1..Len(items) PROVE <<items[i]>> \in Seq(S)
    <3>1. items[i] \in S
      BY <1>1
    <3> QED
      BY <3>1
  <2>3. f \in [1..Len(items) -> Seq(S)] /\ \A i \in 1..Len(items) : f[i] = <<items[i]>>
    BY <2>2
  <2> HIDE DEF f
  <2> QED
    BY <1>1, <2>1, <2>3, ListOf
<1> QED
  BY <1>2, <1>3

LEMMA ConcatPlaces ==
    ASSUME NEW S, NEW s \in Seq(S), NEW t \in Seq(S)
    PROVE  /\ s \o t \in Seq(S) /\ Len(s) \in Nat /\ Len(t) \in Nat
           /\ DOMAIN s = 1..Len(s) /\ DOMAIN t = 1..Len(t)
           /\ Len(s \o t) = Len(s) + Len(t) /\ DOMAIN (s \o t) = 1..(Len(s) + Len(t))
           /\ \A k \in 1..Len(s) : k \in DOMAIN (s \o t) /\ (s \o t)[k] = s[k]
           /\ \A k \in 1..Len(t) : Len(s) + k \in DOMAIN (s \o t) /\ (s \o t)[Len(s) + k] = t[k]
           /\ \A k \in DOMAIN (s \o t) : k \in 1..Len(s) \/ \E j \in 1..Len(t) : k = Len(s) + j
<1> DEFINE u == s \o t
           p == Len(s)
           q == Len(t)
<1>1. p \in Nat /\ q \in Nat /\ DOMAIN s = 1..p /\ DOMAIN t = 1..q
  BY PartsOfSeq
<1>2. /\ u \in Seq(S) /\ Len(u) = p + q
      /\ \A i \in 1..(p + q) : u[i] = IF i <= p THEN s[i] ELSE t[i - p]
  BY ConcatProperties
<1>3. DOMAIN u = 1..(p + q)
  <2> HIDE DEF u, p, q
  <2> QED
    BY <1>2, PartsOfSeq
<1> HIDE DEF u, p, q
<1>4. \A k \in 1..p : k \in 1..(p + q) /\ u[k] = s[k]
  BY <1>1, <1>2
<1>5. ASSUME NEW k \in 1..q PROVE p + k \in 1..(p + q) /\ u[p + k] = t[k]
  <2>1. p + k \in 1..(p + q) /\ ~(p + k <= p) /\ (p + k) - p = k
    BY <1>1
  <2> QED
    BY <1>2, <2>1
<1>6. ASSUME NEW k \in 1..(p + q) PROVE k \in 1..p \/ \E j \in 1..q : k = p + j
  <2>1. CASE k <= p
    BY <1>1, <2>1
  <2>2. CASE k > p
    <3>1. k - p \in 1..q /\ k = p + (k - p)
      BY <1>1, <2>2
    <3> QED
      BY <3>1
  <2> QED
    BY <1>1, <2>1, <2>2
<1> QED
  BY <1>1, <1>2, <1>3, <1>4, <1>5, <1>6 DEF u, p, q

\* What is due, past or written by one list of commands after another.
LEMMA OneAfterAnother ==
    ASSUME NEW s \in Seq(Commands), NEW t \in Seq(Commands)
    PROVE  /\ \A table, m : Past(s, table, m) /\ Past(t, table, m) => Past(s \o t, table, m)
           /\ \A table, m, x : Due(s, table, m, x) /\ Past(t, table, m) => Due(s \o t, table, m, x)
           /\ \A table, m, x : Due(t, table, m, x) => Due(s \o t, table, m, x)
           /\ \A e : IsWritten(s, e) \/ IsWritten(t, e) => IsWritten(s \o t, e)
           /\ \A m : IsPut(s, m) \/ IsPut(t, m) => IsPut(s \o t, m)
<1> DEFINE u == s \o t
           p == Len(s)
           q == Len(t)
<1>1. /\ p \in Nat /\ q \in Nat /\ DOMAIN s = 1..p /\ DOMAIN t = 1..q
      /\ \A k \in 1..p : k \in DOMAIN u /\ u[k] = s[k]
      /\ \A k \in 1..q : p + k \in DOMAIN u /\ u[p + k] = t[k]
      /\ \A k \in DOMAIN u : k \in 1..p \/ \E j \in 1..q : k = p + j
  <2>1. /\ p \in Nat /\ q \in Nat
        /\ DOMAIN s = 1..p /\ DOMAIN t = 1..q
    BY PartsOfSeq
  <2>2. \A k \in 1..p : k \in DOMAIN u /\ u[k] = s[k]
    BY ConcatPlaces
  <2>3. \A k \in 1..q : p + k \in DOMAIN u /\ u[p + k] = t[k]
    BY ConcatPlaces
  <2>4. \A k \in DOMAIN u : k \in 1..p \/ \E j \in 1..q : k = p + j
    BY ConcatPlaces
  <2> QED
    BY <2>1, <2>2, <2>3, <2>4
<1> HIDE DEF u, p, q
<1>2. ASSUME NEW table, NEW m, Past(s, table, m), Past(t, table, m)
      PROVE  Past(u, table, m)
  BY <1>1, <1>2 DEF Past
<1>3. ASSUME NEW table, NEW m, NEW x, Due(s, table, m, x), Past(t, table, m)
      PROVE  Due(u, table, m, x)
  <2>1. PICK k \in 1..p : /\ Leaves(s[k], table, m, x)
                          /\ \A j \in 1..p : j > k => ~Names(s[j], table, m)
    BY <1>1, <1>3 DEF Due
  <2>2. \A j \in DOMAIN u : j > k => ~Names(u[j], table, m)
    BY <1>1, <1>3, <2>1 DEF Past
  <2> QED
    BY <1>1, <2>1, <2>2 DEF Due
<1>4. ASSUME NEW table, NEW m, NEW x, Due(t, table, m, x)
      PROVE  Due(u, table, m, x)
  <2>1. PICK k \in 1..q : /\ Leaves(t[k], table, m, x)
                          /\ \A j \in 1..q : j > k => ~Names(t[j], table, m)
    BY <1>1, <1>4 DEF Due
  <2>2. ASSUME NEW j \in DOMAIN u, j > p + k PROVE ~Names(u[j], table, m)
    <3>1. ~(j \in 1..p)
      BY <1>1, <2>2
    <3>2. PICK i \in 1..q : j = p + i
      BY <1>1, <3>1
    <3>3. i > k
      BY <1>1, <2>2, <3>2
    <3> QED
      BY <1>1, <2>1, <3>2, <3>3
  <2>3. p + k \in DOMAIN u /\ Leaves(u[p + k], table, m, x)
    BY <1>1, <2>1
  <2> DEFINE at == p + k
  <2> HIDE DEF at
  <2>4. at \in DOMAIN u /\ Leaves(u[at], table, m, x) /\ \A j \in DOMAIN u : j > at => ~Names(u[j], table, m)
    BY <2>2, <2>3 DEF at
  <2> QED
    BY <2>4 DEF Due
<1>5. ASSUME NEW e, IsWritten(s, e) \/ IsWritten(t, e) PROVE IsWritten(u, e)
  <2>1. CASE IsWritten(s, e)
    BY <1>1, <2>1 DEF IsWritten
  <2>2. CASE IsWritten(t, e)
    <3>1. PICK k \in 1..q : WritesEdge(t[k], e)
      BY <1>1, <2>2 DEF IsWritten
    <3>2. p + k \in DOMAIN u /\ WritesEdge(u[p + k], e)
      BY <1>1, <3>1
    <3> QED
      BY <3>2 DEF IsWritten
  <2> QED
    BY <1>5, <2>1, <2>2
<1>6. ASSUME NEW m, IsPut(s, m) \/ IsPut(t, m) PROVE IsPut(u, m)
  <2> DEFINE Puts1(c) == c.op = "put" /\ \E i \in DOMAIN c.recs : c.recs[i].id = m
  <2>1. CASE IsPut(s, m)
    <3>1. PICK k \in 1..p : Puts1(s[k])
      BY <1>1, <2>1 DEF IsPut
    <3>2. k \in DOMAIN u /\ Puts1(u[k])
      BY <1>1, <3>1
    <3> QED
      BY <3>2 DEF IsPut
  <2>2. CASE IsPut(t, m)
    <3>1. PICK k \in 1..q : Puts1(t[k])
      BY <1>1, <2>2 DEF IsPut
    <3>2. p + k \in DOMAIN u /\ Puts1(u[p + k])
      BY <1>1, <3>1
    <3> QED
      BY <3>2 DEF IsPut
  <2> QED
    BY <1>6, <2>1, <2>2
<1> QED
  BY <1>2, <1>3, <1>4, <1>5, <1>6 DEF u

\* The commands for the parts of some records leave the last text of each of them.
WritesOut(s, op, parts) ==
    /\ DOMAIN s = DOMAIN parts
    /\ \A k \in DOMAIN s : s[k].op = op /\ s[k].recs = parts[k]

LEMMA PartsAreWritten ==
    ASSUME NEW recs \in Seq(Memory), NEW kind, NEW op \in {"put", "node"},
           NEW s, WritesOut(s, op, Transactions(kind, recs))
    PROVE  /\ \A k \in DOMAIN s : \A i \in DOMAIN s[k].recs :
                 \E j \in DOMAIN recs : s[k].recs[i] = recs[j]
           /\ \A j \in DOMAIN recs :
                 \E k \in DOMAIN s : \E i \in DOMAIN s[k].recs : s[k].recs[i] = recs[j]
           /\ \A i \in LastOf(recs) : Due(s, op, recs[i].id, recs[i].text)
<1> DEFINE parts == Transactions(kind, recs)
           n == Len(recs)
<1>1. /\ parts \in Seq(Seq(Memory))
      /\ \/ parts = <<recs>>
         \/ Len(parts) = n /\ \A i \in 1..n : parts[i] = <<recs[i]>>
  BY TransactionParts
<1>2. DOMAIN parts = 1..Len(parts) /\ n \in Nat /\ DOMAIN recs = 1..n
  BY <1>1, PartsOfSeq
<1>3. DOMAIN s = DOMAIN parts /\ \A k \in DOMAIN s : s[k].op = op /\ s[k].recs = parts[k]
  BY DEF WritesOut
<1> HIDE DEF parts, n
<1>4. ASSUME NEW i \in LastOf(recs)
      PROVE  i \in DOMAIN recs /\ \A j \in DOMAIN recs : recs[j].id = recs[i].id => j <= i
  BY DEF LastOf
<1>5. CASE parts = <<recs>>
  <2>1. DOMAIN s = {1} /\ s[1].op = op /\ s[1].recs = recs
    BY <1>2, <1>3, <1>5
  <2>2. ASSUME NEW i \in LastOf(recs) PROVE Due(s, op, recs[i].id, recs[i].text)
    <3>1. LeavesText(recs, recs[i].id, recs[i].text)
      BY <1>4 DEF LeavesText
    <3>2. Leaves(s[1], op, recs[i].id, recs[i].text)
      BY <2>1, <3>1 DEF Leaves
    <3> QED
      BY <2>1, <3>2 DEF Due
  <2> QED
    BY <2>1, <2>2
<1>6. CASE Len(parts) = n /\ \A i \in 1..n : parts[i] = <<recs[i]>>
  <2>1. DOMAIN s = 1..n /\ \A k \in 1..n : s[k].op = op /\ s[k].recs = <<recs[k]>>
    BY <1>2, <1>3, <1>6
  <2>2. \A k \in 1..n : DOMAIN s[k].recs = {1} /\ s[k].recs[1] = recs[k]
    BY <2>1
  <2>3. ASSUME NEW i \in LastOf(recs) PROVE Due(s, op, recs[i].id, recs[i].text)
    <3>1. i \in 1..n
      BY <1>2, <1>4
    <3>2. LeavesText(s[i].recs, recs[i].id, recs[i].text)
      BY <2>2, <3>1 DEF LeavesText
    <3>3. Leaves(s[i], op, recs[i].id, recs[i].text)
      BY <2>1, <3>1, <3>2 DEF Leaves
    <3>4. ASSUME NEW j \in 1..n, j > i PROVE ~Names(s[j], op, recs[i].id)
      <4>1. recs[j].id # recs[i].id
        BY <1>2, <1>4, <3>1, <3>4
      <4> QED
        BY <2>1, <2>2, <4>1 DEF Names
    <3> QED
      BY <2>1, <3>1, <3>3, <3>4 DEF Due
  <2> QED
    BY <1>2, <2>1, <2>2, <2>3
<1> QED
  BY <1>1, <1>5, <1>6

\* The commands for the parts of some records are commands.
LEMMA PartsAreCommands ==
    ASSUME NEW recs \in Seq(Memory), NEW kind
    PROVE  /\ [i \in DOMAIN Transactions(kind, recs) |-> PutMemories(Transactions(kind, recs)[i])]
                 \in Seq(Commands)
           /\ [i \in DOMAIN Transactions(kind, recs) |-> UpsertNodes(Transactions(kind, recs)[i])]
                 \in Seq(Commands)
           /\ \A i \in DOMAIN Transactions(kind, recs) :
                 /\ PutMemories(Transactions(kind, recs)[i]).op = "put"
                 /\ PutMemories(Transactions(kind, recs)[i]).recs = Transactions(kind, recs)[i]
                 /\ UpsertNodes(Transactions(kind, recs)[i]).op = "node"
                 /\ UpsertNodes(Transactions(kind, recs)[i]).recs = Transactions(kind, recs)[i]
<1> DEFINE parts == Transactions(kind, recs)
           n == Len(parts)
           p == [i \in 1..n |-> PutMemories(parts[i])]
           u == [i \in 1..n |-> UpsertNodes(parts[i])]
<1>1. n \in Nat /\ DOMAIN parts = 1..n /\ \A i \in 1..n : parts[i] \in Seq(Memory)
  BY TransactionParts, PartsOfSeq
<1>2. \A i \in 1..n : /\ PutMemories(parts[i]) \in Commands /\ PutMemories(parts[i]).op = "put"
                      /\ PutMemories(parts[i]).recs = parts[i]
                      /\ UpsertNodes(parts[i]) \in Commands /\ UpsertNodes(parts[i]).op = "node"
                      /\ UpsertNodes(parts[i]).recs = parts[i]
  BY <1>1, PutIsACommand
<1> HIDE DEF parts, n
<1>3. p \in [1..n -> Commands] /\ u \in [1..n -> Commands]
  BY <1>2
<1>4. p \in Seq(Commands) /\ u \in Seq(Commands)
  <2> HIDE DEF p, u
  <2> QED
    BY <1>1, <1>3, ListOf
<1> QED
  BY <1>1, <1>2, <1>4 DEF parts

\* _persist_memories: the puts first, then the nodes unless the store is shared, and
\* each leaves the last text of every memory.
LEMMA MemoriesArePersisted ==
    ASSUME NEW recs \in Seq(Memory)
    PROVE  /\ PersistMemories(recs) \in Seq(Commands)
           /\ PutsFirst(PersistMemories(recs))
           /\ \A k \in DOMAIN PersistMemories(recs) :
                 /\ PersistMemories(recs)[k].op \in {"put", "node"}
                 /\ PersistMemories(recs)[k].op = "node" => ~SharesMemoryStore
                 /\ \A i \in DOMAIN PersistMemories(recs)[k].recs :
                       \E j \in DOMAIN recs : PersistMemories(recs)[k].recs[i] = recs[j]
           /\ \A j \in DOMAIN recs : IsPut(PersistMemories(recs), recs[j].id)
           /\ \A i \in LastOf(recs) :
                 /\ Due(PersistMemories(recs), "put", recs[i].id, recs[i].text)
                 /\ ~SharesMemoryStore =>
                       Due(PersistMemories(recs), "node", recs[i].id, recs[i].text)
<1> DEFINE puts == Transactions(deployment.memory, recs)
           upserts == Transactions(deployment.graph, recs)
           p == [i \in DOMAIN puts |-> PutMemories(puts[i])]
           u == IF SharesMemoryStore THEN <<>> ELSE [i \in DOMAIN upserts |-> UpsertNodes(upserts[i])]
<1>1. /\ p \in Seq(Commands) /\ DOMAIN p = DOMAIN puts
      /\ \A k \in DOMAIN p : p[k].op = "put" /\ p[k].recs = puts[k]
  BY PartsAreCommands, ZenonT(40)
<1>2. /\ u \in Seq(Commands)
      /\ \A k \in DOMAIN u : ~SharesMemoryStore /\ u[k].op = "node" /\ u[k].recs = upserts[k]
      /\ ~SharesMemoryStore => DOMAIN u = DOMAIN upserts
  <2>1. CASE SharesMemoryStore
    BY <2>1, EmptySeq
  <2>2. CASE ~SharesMemoryStore
    BY <2>2, PartsAreCommands, ZenonT(40)
  <2> QED
    BY <2>1, <2>2
<1>3. PersistMemories(recs) = p \o u
  BY DEF PersistMemories
<1> HIDE DEF p, u
<1>4. /\ \A k \in DOMAIN p : \A i \in DOMAIN p[k].recs : \E j \in DOMAIN recs : p[k].recs[i] = recs[j]
      /\ \A j \in DOMAIN recs : \E k \in DOMAIN p : \E i \in DOMAIN p[k].recs : p[k].recs[i] = recs[j]
      /\ \A i \in LastOf(recs) : Due(p, "put", recs[i].id, recs[i].text)
  <2>1. "put" \in {"put", "node"} /\ WritesOut(p, "put", puts)
    BY <1>1 DEF WritesOut
  <2> QED
    BY <2>1, PartsAreWritten
<1>5. ~SharesMemoryStore =>
      /\ \A k \in DOMAIN u : \A i \in DOMAIN u[k].recs : \E j \in DOMAIN recs : u[k].recs[i] = recs[j]
      /\ \A i \in LastOf(recs) : Due(u, "node", recs[i].id, recs[i].text)
  <2>1. "node" \in {"put", "node"} /\ (~SharesMemoryStore => WritesOut(u, "node", upserts))
    BY <1>2 DEF WritesOut
  <2> QED
    BY <2>1, PartsAreWritten
<1>6. \A m : Past(u, "put", m)
  BY <1>2 DEF Past, Names
<1> DEFINE s == p \o u
           a == Len(p)
<1>7. /\ s \in Seq(Commands) /\ a \in Nat /\ DOMAIN p = 1..a
      /\ \A k \in DOMAIN s : \/ k \in 1..a /\ s[k] = p[k]
                             \/ \E j \in DOMAIN u : k = a + j /\ s[k] = u[j]
  <2> DEFINE b == Len(u)
  <2>1. /\ s \in Seq(Commands) /\ a \in Nat /\ b \in Nat /\ DOMAIN p = 1..a /\ DOMAIN u = 1..b
        /\ \A k \in 1..a : k \in DOMAIN s /\ s[k] = p[k]
        /\ \A k \in 1..b : a + k \in DOMAIN s /\ s[a + k] = u[k]
        /\ \A k \in DOMAIN s : k \in 1..a \/ \E j \in 1..b : k = a + j
    BY <1>1, <1>2, ConcatPlaces
  <2> HIDE DEF s, a, b
  <2> QED
    BY <2>1
<1>8. \A k \in DOMAIN s : \/ s[k].op = "put" /\ \E j \in DOMAIN p : s[k] = p[j]
                          \/ s[k].op = "node" /\ \E j \in DOMAIN u : s[k] = u[j]
  BY <1>1, <1>2, <1>7
<1>9. \A j \in DOMAIN recs : IsPut(p, recs[j].id)
  BY <1>1, <1>4 DEF IsPut
<1>10. /\ \A j \in DOMAIN recs : IsPut(s, recs[j].id)
       /\ \A i \in LastOf(recs) : Due(s, "put", recs[i].id, recs[i].text)
       /\ ~SharesMemoryStore => \A i \in LastOf(recs) : Due(s, "node", recs[i].id, recs[i].text)
  BY <1>1, <1>2, <1>4, <1>5, <1>6, <1>9, OneAfterAnother
<1>11. ASSUME NEW k \in DOMAIN s, NEW j \in DOMAIN s, s[k].op = "put", j < k
       PROVE  s[j].op = "put"
  <2>1. s[k].op # "node"
    BY <1>11
  <2>2. k \in 1..a
    BY <1>2, <1>7, <2>1
  <2>3. j \in Nat /\ j >= 1
    <3>1. DOMAIN s = 1..Len(s) /\ Len(s) \in Nat
      <4> HIDE DEF s
      <4> QED
        BY <1>7, PartsOfSeq
    <3> QED
      BY <3>1
  <2>4. j \in 1..a
    BY <1>7, <1>11, <2>2, <2>3
  <2>5. ~(\E i \in DOMAIN u : j = a + i)
    <3>1. \A i \in DOMAIN u : i \in Nat /\ i >= 1
      <4>1. DOMAIN u = 1..Len(u) /\ Len(u) \in Nat
        BY <1>2, PartsOfSeq
      <4> QED
        BY <4>1
    <3> QED
      BY <1>7, <2>4, <3>1
  <2>6. s[j] = p[j]
    BY <1>7, <2>5
  <2> QED
    BY <1>1, <1>7, <2>4, <2>6
<1> HIDE DEF s
<1>12. ASSUME NEW k \in DOMAIN s
       PROVE  /\ s[k].op \in {"put", "node"} /\ (s[k].op = "node" => ~SharesMemoryStore)
              /\ \A i \in DOMAIN s[k].recs : \E j \in DOMAIN recs : s[k].recs[i] = recs[j]
  BY <1>2, <1>4, <1>5, <1>8
<1>13. PutsFirst(s)
  BY <1>11 DEF PutsFirst
<1> QED
  BY <1>3, <1>7, <1>10, <1>12, <1>13 DEF s

\* ingest: every memory is indexed wherever it must be, and each index is left with
\* the last text of every memory.
LEMMA MemoriesAreIndexed ==
    ASSUME NEW recs \in Seq(Memory)
    PROVE  /\ IndexMemories(recs) \in Seq(Commands)
           /\ \A k \in DOMAIN IndexMemories(recs) :
                 /\ IndexMemories(recs)[k].op = "index"
                 /\ \E j \in DOMAIN recs : IndexMemories(recs)[k].id = recs[j].id
           /\ \A i \in LastOf(recs) :
                 /\ Due(IndexMemories(recs), "vector", recs[i].id, recs[i].text)
                 /\ deployment.represents =>
                       Due(IndexMemories(recs), "representation", recs[i].id, recs[i].text)
<1> DEFINE n == Len(recs)
           w == IF deployment.represents THEN 2 ELSE 1
           own(i) == [x \in 1..w |-> UpsertIndex(IndexNames[x], recs[i])]
           seqs == [i \in 1..n |-> own(i)]
           flat == FlattenSeq(seqs)
<1>1. n \in Nat /\ DOMAIN recs = 1..n /\ \A i \in 1..n : recs[i] \in Memory
  BY PartsOfSeq
<1>2. flat = IndexMemories(recs)
  BY <1>1 DEF IndexMemories
<1>3. /\ w \in Nat /\ w >= 1 /\ (deployment.represents => w = 2)
      /\ \A x \in 1..w : IndexNames[x] \in Indexes
      /\ \A x, z \in 1..w : IndexNames[x] = IndexNames[z] => x = z
      /\ IndexNames[1] = "vector" /\ IndexNames[2] = "representation"
  BY DEF IndexNames, Indexes
<1> HIDE DEF w
<1>4. ASSUME NEW i \in 1..n
      PROVE  /\ own(i) \in Seq(Commands) /\ Len(own(i)) = w
             /\ \A x \in 1..w : /\ own(i)[x].op = "index" /\ own(i)[x].index = IndexNames[x]
                                /\ own(i)[x].id = recs[i].id /\ own(i)[x].text = recs[i].text
  <2>1. \A x \in 1..w :
           /\ UpsertIndex(IndexNames[x], recs[i]) \in Commands
           /\ UpsertIndex(IndexNames[x], recs[i]).op = "index"
           /\ UpsertIndex(IndexNames[x], recs[i]).index = IndexNames[x]
           /\ UpsertIndex(IndexNames[x], recs[i]).id = recs[i].id
           /\ UpsertIndex(IndexNames[x], recs[i]).text = recs[i].text
    BY <1>1, <1>3, IndexIsACommand
  <2>2. own(i) \in [1..w -> Commands]
    BY <2>1
  <2>3. own(i) \in Seq(Commands) /\ Len(own(i)) = w
    <3> HIDE DEF own
    <3> QED
      BY <1>3, <2>2, ListOf
  <2> QED
    BY <2>1, <2>3
<1>5. /\ seqs \in Seq(Seq(Commands)) /\ Len(seqs) = n
      /\ \A i \in 1..n : seqs[i] = own(i)
  <2> HIDE DEF own
  <2>1. seqs \in [1..n -> Seq(Commands)]
    BY <1>4
  <2>2. \A i \in 1..n : seqs[i] = own(i)
    OBVIOUS
  <2> HIDE DEF seqs
  <2> QED
    BY <1>1, <2>1, <2>2, ListOf
<1> HIDE DEF own, seqs, n
<1>6. flat \in Seq(Commands) /\ \E start : Starts(start, seqs)
  BY <1>5, FlattenPlaces
<1>7. PICK start : Starts(start, seqs)
  BY <1>6
<1> HIDE DEF flat
<1>8. /\ \A i \in 1..(n + 1) : start[i] \in Nat
      /\ \A i \in 1..n, j \in 1..(n + 1) : i < j => start[i + 1] <= start[j]
      /\ \A i \in 1..n : start[i + 1] = start[i] + w
      /\ \A i \in 1..n : \A x \in 1..w : start[i] + x \in 1..Len(flat) /\ flat[start[i] + x] = own(i)[x]
      /\ \A k \in 1..Len(flat) : \E i \in 1..n : \E x \in 1..w : k = start[i] + x
  <2>1. /\ start \in [1..(n + 1) -> Nat]
        /\ \A i \in 1..n : start[i + 1] = start[i] + Len(seqs[i])
        /\ \A i \in 1..n, j \in 1..(n + 1) : i < j => start[i + 1] <= start[j]
        /\ \A i \in 1..n : \A j \in 1..Len(seqs[i]) :
              start[i] + j \in 1..Len(flat) /\ flat[start[i] + j] = seqs[i][j]
        /\ \A k \in 1..Len(flat) : \E i \in 1..n : \E j \in 1..Len(seqs[i]) : k = start[i] + j
    BY <1>5, <1>7 DEF Starts, flat
  <2>2. \A i \in 1..n : seqs[i] = own(i) /\ Len(seqs[i]) = w
    BY <1>4, <1>5
  <2>3. \A i \in 1..(n + 1) : start[i] \in Nat
    BY <2>1
  <2>4. \A i \in 1..n : start[i + 1] = start[i] + w
    BY <2>1, <2>2
  <2>5. ASSUME NEW i \in 1..n, NEW x \in 1..w
        PROVE  start[i] + x \in 1..Len(flat) /\ flat[start[i] + x] = own(i)[x]
    BY <2>1, <2>2
  <2>6. ASSUME NEW k \in 1..Len(flat) PROVE \E i \in 1..n : \E x \in 1..w : k = start[i] + x
    BY <2>1, <2>2
  <2> QED
    BY <2>1, <2>3, <2>4, <2>5, <2>6
<1>9. DOMAIN flat = 1..Len(flat)
  BY <1>6, PartsOfSeq
<1>10. ASSUME NEW k \in DOMAIN flat
       PROVE  \E i \in 1..n : \E x \in 1..w :
                 /\ k = start[i] + x
                 /\ flat[k].op = "index" /\ flat[k].index = IndexNames[x]
                 /\ flat[k].id = recs[i].id /\ flat[k].text = recs[i].text
  <2>1. PICK i \in 1..n, x \in 1..w : k = start[i] + x
    BY <1>8, <1>9
  <2>2. flat[k] = own(i)[x]
    BY <1>8, <2>1
  <2> QED
    BY <1>4, <2>1, <2>2
<1>11. ASSUME NEW i \in LastOf(recs), NEW x \in 1..w
       PROVE  Due(flat, IndexNames[x], recs[i].id, recs[i].text)
  <2>1. i \in 1..n /\ \A j \in 1..n : recs[j].id = recs[i].id => j <= i
    BY <1>1 DEF LastOf
  <2> DEFINE k == start[i] + x
  <2>2. k \in 1..Len(flat) /\ flat[k] = own(i)[x] /\ k \in Nat /\ k > start[i]
    <3> DEFINE b == start[i]
    <3>1. b \in Nat
      <4>1. i \in 1..(n + 1)
        BY <1>1, <2>1
      <4> QED
        BY <1>8, <4>1
    <3>2. k \in 1..Len(flat) /\ flat[k] = own(i)[x]
      BY <1>8, <2>1
    <3>3. k = b + x
      OBVIOUS
    <3>4. k \in Nat /\ k > b
      <4> HIDE DEF b, k
      <4> QED
        BY <1>3, <3>1, <3>3
    <3> QED
      BY <3>2, <3>4
  <2>3. Leaves(flat[k], IndexNames[x], recs[i].id, recs[i].text)
    BY <1>4, <2>1, <2>2 DEF Leaves
  <2>4. ASSUME NEW q \in DOMAIN flat, q > k, Names(flat[q], IndexNames[x], recs[i].id)
        PROVE  FALSE
    <3>1. PICK j \in 1..n, z \in 1..w :
                 /\ q = start[j] + z
                 /\ flat[q].op = "index" /\ flat[q].index = IndexNames[z]
                 /\ flat[q].id = recs[j].id
      BY <1>10
    <3>2. IndexNames[z] = IndexNames[x] /\ recs[j].id = recs[i].id
      BY <2>4, <3>1 DEF Names
    <3>3. z = x /\ j <= i
      BY <1>3, <2>1, <3>2
    <3>4. j # i
      <4>1. k \in Nat /\ q # k
        BY <2>2, <2>4
      <4> QED
        BY <3>1, <3>3, <4>1
    <3>5. j \in 1..n /\ i \in 1..(n + 1) /\ j + 1 \in 1..(n + 1) /\ j \in 1..(n + 1) /\ j < i
      BY <1>1, <2>1, <3>3, <3>4
    <3>6. start[j + 1] <= start[i] /\ start[j + 1] = start[j] + w
      BY <1>8, <3>5
    <3> DEFINE a == start[j]
               b == start[i]
               c == start[j + 1]
    <3>7. a \in Nat /\ b \in Nat /\ c \in Nat /\ c <= b /\ c = a + w /\ q = a + z /\ k = b + x
      BY <1>8, <3>1, <3>5, <3>6
    <3> HIDE DEF a, b, c, k
    <3> QED
      BY <1>3, <2>4, <3>7
  <2> HIDE DEF k
  <2> QED
    BY <1>9, <2>2, <2>3, <2>4 DEF Due
<1>12. \A i \in LastOf(recs) :
          /\ Due(flat, "vector", recs[i].id, recs[i].text)
          /\ deployment.represents => Due(flat, "representation", recs[i].id, recs[i].text)
  <2>1. 1 \in 1..w /\ (deployment.represents => 2 \in 1..w)
    BY <1>3
  <2> QED
    BY <1>3, <1>11, <2>1
<1> QED
  BY <1>1, <1>2, <1>6, <1>10, <1>12

\* What the commands that write some edges are.
WriteEdges(s, es) ==
    /\ s \in Seq(Commands)
    /\ \A k \in DOMAIN s :
          /\ Suits(s[k]) /\ s[k].op \in {"placeholder", "edges", "set", "link"}
          /\ s[k].op = "edges" => \A i \in DOMAIN s[k].edges : \E j \in DOMAIN es : s[k].edges[i] = es[j]
          /\ s[k].op = "set" => \E j \in DOMAIN es : s[k].edge = es[j]
          /\ Follows(s, k) /\ (s[k].op = "link" => k # 1)
    /\ \A j \in DOMAIN es : IsWritten(s, es[j])

LEMMA EdgeIsWrittenOut ==
    ASSUME NEW e \in EdgeType
    PROVE  /\ WriteEdges(EdgeCommands(e), <<e>>)
           /\ Len(EdgeCommands(e)) \in 1..3
<1> DEFINE s == EdgeCommands(e)
<1>1. DOMAIN <<e>> = {1} /\ <<e>>[1] = e
  OBVIOUS
<1>2. CASE deployment.graph = "redis"
  <2>1. s = <<SetEdge(e), AddLink("source", e), AddLink("target", e)>>
    BY <1>2 DEF EdgeCommands
  <2>2. /\ s[1] \in Commands /\ s[2] \in Commands /\ s[3] \in Commands
        /\ s[1].op = "set" /\ s[1].edge = e /\ s[1] = SetEdge(e)
        /\ s[2].op = "link" /\ s[2].edge = e /\ s[2].end = "source" /\ s[2] = AddLink("source", e)
        /\ s[3].op = "link" /\ s[3].edge = e /\ s[3].end = "target" /\ s[3] = AddLink("target", e)
    <3>1. s[1] = SetEdge(e) /\ s[2] = AddLink("source", e) /\ s[3] = AddLink("target", e)
      BY <2>1
    <3>2. "source" \in Ends /\ "target" \in Ends
      BY DEF Ends
    <3>3. SetEdge(e) \in Commands /\ SetEdge(e).op = "set" /\ SetEdge(e).edge = e
      BY EdgesAreCommands
    <3>4. ASSUME NEW end \in Ends
          PROVE  /\ AddLink(end, e) \in Commands /\ AddLink(end, e).op = "link"
                 /\ AddLink(end, e).end = end /\ AddLink(end, e).edge = e
      BY EdgesAreCommands
    <3> HIDE DEF s
    <3> QED
      BY <3>1, <3>2, <3>3, <3>4, ZenonT(40)
  <2>3. s \in Seq(Commands) /\ Len(s) = 3 /\ DOMAIN s = 1..3
    <3> DEFINE a == SetEdge(e)
               b == AddLink("source", e)
               c == AddLink("target", e)
    <3>1. a \in Commands /\ b \in Commands /\ c \in Commands /\ s = <<a, b, c>>
      BY <2>1, <2>2
    <3> HIDE DEF a, b, c, s
    <3> QED
      BY <3>1
  <2>4. IsWritten(s, e)
    BY <2>2, <2>3 DEF IsWritten, WritesEdge
  <2>5. ASSUME NEW k \in DOMAIN s
        PROVE  /\ Suits(s[k]) /\ s[k].op \in {"placeholder", "edges", "set", "link"}
               /\ s[k].op # "edges" /\ (s[k].op = "set" => s[k].edge = e)
               /\ Follows(s, k) /\ (s[k].op = "link" => k # 1)
    <3>1. k = 1 \/ k = 2 \/ k = 3
      BY <2>3
    <3>2. CASE k = 1
      <4> HIDE DEF s
      <4> QED
        BY <1>2, <2>2, <2>3, <3>2 DEF Suits, Follows
    <3>3. CASE k = 2
      <4> HIDE DEF s
      <4> QED
        BY <1>2, <2>2, <2>3, <3>3 DEF Suits, Follows
    <3>4. CASE k = 3
      <4> HIDE DEF s
      <4> QED
        BY <1>2, <2>2, <2>3, <3>4 DEF Suits, Follows
    <3> QED
      BY <3>1, <3>2, <3>3, <3>4
  <2> HIDE DEF s
  <2>6. WriteEdges(s, <<e>>)
    BY <1>1, <2>3, <2>4, <2>5 DEF WriteEdges
  <2> QED
    BY <2>3, <2>6 DEF s
<1>3. CASE deployment.graph = "arangodb"
  <2>1. s = <<EnsurePlaceholder(e.source), EnsurePlaceholder(e.target), UpsertRows(<<e>>)>>
    BY <1>3 DEF EdgeCommands
  <2>2. /\ s[1] \in Commands /\ s[2] \in Commands /\ s[3] \in Commands
        /\ s[1].op = "placeholder" /\ s[2].op = "placeholder"
        /\ s[3].op = "edges" /\ s[3].edges = <<e>>
    BY <2>1, EdgesAreCommands
  <2>3. s \in Seq(Commands) /\ Len(s) = 3 /\ DOMAIN s = 1..3
    <3> DEFINE a == EnsurePlaceholder(e.source)
               b == EnsurePlaceholder(e.target)
               c == UpsertRows(<<e>>)
    <3>1. a \in Commands /\ b \in Commands /\ c \in Commands /\ s = <<a, b, c>>
      BY <2>1, <2>2
    <3> HIDE DEF a, b, c, s
    <3> QED
      BY <3>1
  <2> HIDE DEF s
  <2>4. IsWritten(s, e)
    BY <1>1, <2>2, <2>3 DEF IsWritten, WritesEdge
  <2>5. ASSUME NEW k \in DOMAIN s
        PROVE  /\ Suits(s[k]) /\ s[k].op \in {"placeholder", "edges", "set", "link"}
               /\ (s[k].op = "edges" => s[k].edges = <<e>>) /\ s[k].op # "set"
               /\ Follows(s, k) /\ (s[k].op = "link" => k # 1)
    <3>1. k = 1 \/ k = 2 \/ k = 3
      BY <2>3
    <3> QED
      BY <1>3, <2>2, <3>1 DEF Suits, Follows
  <2>6. WriteEdges(s, <<e>>)
    BY <1>1, <2>3, <2>4, <2>5 DEF WriteEdges
  <2> QED
    BY <2>3, <2>6 DEF s
<1>4. CASE deployment.graph \notin {"redis", "arangodb"}
  <2>1. s = <<UpsertRows(<<e>>)>>
    BY <1>4 DEF EdgeCommands
  <2>2. s[1] \in Commands /\ s[1].op = "edges" /\ s[1].edges = <<e>>
    BY <2>1, EdgesAreCommands
  <2>3. s \in Seq(Commands) /\ Len(s) = 1 /\ DOMAIN s = {1}
    <3> DEFINE a == UpsertRows(<<e>>)
    <3>1. a \in Commands /\ s = <<a>>
      BY <2>1, <2>2
    <3> HIDE DEF a, s
    <3> QED
      BY <3>1
  <2> HIDE DEF s
  <2>4. IsWritten(s, e)
    BY <1>1, <2>2, <2>3 DEF IsWritten, WritesEdge
  <2>5. ASSUME NEW k \in DOMAIN s
        PROVE  /\ Suits(s[k]) /\ s[k].op \in {"placeholder", "edges", "set", "link"}
               /\ (s[k].op = "edges" => s[k].edges = <<e>>) /\ s[k].op # "set"
               /\ Follows(s, k) /\ (s[k].op = "link" => k # 1)
    BY <1>4, <2>2, <2>3 DEF Suits, Follows
  <2>6. WriteEdges(s, <<e>>)
    BY <1>1, <2>3, <2>4, <2>5 DEF WriteEdges
  <2> QED
    BY <2>3, <2>6 DEF s
<1> QED
  BY <1>2, <1>3, <1>4

\* The commands of one edge after another.
LEMMA EdgesFollow ==
    ASSUME NEW es \in Seq(EdgeType)
    PROVE  WriteEdges(FlattenSeq([i \in DOMAIN es |-> EdgeCommands(es[i])]), es)
<1> DEFINE n == Len(es)
           own(i) == EdgeCommands(es[i])
           seqs == [i \in 1..n |-> own(i)]
           flat == FlattenSeq(seqs)
<1>1. n \in Nat /\ DOMAIN es = 1..n /\ \A i \in 1..n : es[i] \in EdgeType
  BY PartsOfSeq
<1>2. flat = FlattenSeq([i \in DOMAIN es |-> EdgeCommands(es[i])])
  BY <1>1
<1>3. ASSUME NEW i \in 1..n
      PROVE  WriteEdges(own(i), <<es[i]>>) /\ own(i) \in Seq(Commands)
             /\ DOMAIN own(i) = 1..Len(own(i)) /\ Len(own(i)) \in 1..3
  <2>1. WriteEdges(own(i), <<es[i]>>) /\ Len(own(i)) \in 1..3
    BY <1>1, EdgeIsWrittenOut
  <2> HIDE DEF own
  <2>2. own(i) \in Seq(Commands)
    BY <2>1 DEF WriteEdges
  <2> QED
    BY <2>1, <2>2, PartsOfSeq
<1>4. /\ seqs \in Seq(Seq(Commands)) /\ Len(seqs) = n
      /\ \A i \in 1..n : seqs[i] = own(i)
  <2> HIDE DEF own
  <2>1. seqs \in [1..n -> Seq(Commands)]
    BY <1>3
  <2>2. \A i \in 1..n : seqs[i] = own(i)
    OBVIOUS
  <2> HIDE DEF seqs
  <2> QED
    BY <1>1, <2>1, <2>2, ListOf
<1> HIDE DEF own, seqs, n
<1>5. flat \in Seq(Commands) /\ \E start : Starts(start, seqs)
  BY <1>4, FlattenPlaces
<1>6. PICK start : Starts(start, seqs)
  BY <1>5
<1> HIDE DEF flat
<1>7. /\ \A i \in 1..n : start[i] \in Nat
      /\ \A i \in 1..n : \A j \in 1..Len(own(i)) :
            start[i] + j \in 1..Len(flat) /\ flat[start[i] + j] = own(i)[j]
      /\ \A k \in 1..Len(flat) : \E i \in 1..n : \E j \in 1..Len(own(i)) : k = start[i] + j
  <2>1. /\ start \in [1..(n + 1) -> Nat]
        /\ \A i \in 1..n : \A j \in 1..Len(seqs[i]) :
              start[i] + j \in 1..Len(flat) /\ flat[start[i] + j] = seqs[i][j]
        /\ \A k \in 1..Len(flat) : \E i \in 1..n : \E j \in 1..Len(seqs[i]) : k = start[i] + j
    BY <1>4, <1>6 DEF Starts, flat
  <2>2. \A i \in 1..n : start[i] \in Nat
    <3>1. \A i \in 1..n : i \in 1..(n + 1)
      BY <1>1
    <3> QED
      BY <2>1, <3>1
  <2>3. ASSUME NEW i \in 1..n, NEW j \in 1..Len(own(i))
        PROVE  start[i] + j \in 1..Len(flat) /\ flat[start[i] + j] = own(i)[j]
    BY <1>4, <2>1
  <2>4. ASSUME NEW k \in 1..Len(flat) PROVE \E i \in 1..n : \E j \in 1..Len(own(i)) : k = start[i] + j
    BY <1>4, <2>1
  <2> QED
    BY <2>2, <2>3, <2>4
<1>8. DOMAIN flat = 1..Len(flat) /\ Len(flat) \in Nat
  BY <1>5, PartsOfSeq
<1>9. ASSUME NEW k \in DOMAIN flat
      PROVE  /\ Suits(flat[k]) /\ flat[k].op \in {"placeholder", "edges", "set", "link"}
             /\ flat[k].op = "edges" =>
                   \A i \in DOMAIN flat[k].edges : \E j \in DOMAIN es : flat[k].edges[i] = es[j]
             /\ flat[k].op = "set" => \E j \in DOMAIN es : flat[k].edge = es[j]
             /\ Follows(flat, k) /\ (flat[k].op = "link" => k # 1)
  <2>0. PICK i \in 1..n : \E j \in 1..Len(own(i)) : k = start[i] + j
    BY <1>7, <1>8
  <2>1. PICK j \in 1..Len(own(i)) : k = start[i] + j
    BY <2>0
  <2> DEFINE s == own(i)
             b == start[i]
  <2>2. /\ flat[k] = s[j] /\ b \in Nat /\ k = b + j /\ j \in 1..Len(s) /\ Len(s) \in Nat /\ DOMAIN s = 1..Len(s)
        /\ \A q \in 1..Len(s) : b + q \in 1..Len(flat) /\ flat[b + q] = s[q]
    BY <1>3, <1>7, <2>1
  <2>3. WriteEdges(s, <<es[i]>>)
    BY <1>3
  <2>4. <<es[i]>>[1] = es[i] /\ DOMAIN <<es[i]>> = {1} /\ i \in DOMAIN es
    BY <1>1
  <2> HIDE DEF s, b
  <2>5. /\ Suits(s[j]) /\ s[j].op \in {"placeholder", "edges", "set", "link"}
        /\ s[j].op = "edges" => \A q \in DOMAIN s[j].edges : s[j].edges[q] = es[i]
        /\ s[j].op = "set" => s[j].edge = es[i]
        /\ Follows(s, j) /\ (s[j].op = "link" => j # 1)
    BY <2>2, <2>3, <2>4 DEF WriteEdges
  <2>6. Follows(flat, k)
    <3>1. ASSUME flat[k].op = "set"
          PROVE  k < Len(flat) /\ flat[k + 1] = AddLink("source", flat[k].edge)
      <4>1. j < Len(s) /\ s[j + 1] = AddLink("source", s[j].edge)
        BY <2>2, <2>5, <3>1 DEF Follows
      <4>2. j + 1 \in 1..Len(s) /\ b + (j + 1) = k + 1
        BY <2>2, <4>1
      <4>3. k + 1 \in 1..Len(flat) /\ flat[k + 1] = s[j + 1]
        BY <2>2, <4>2
      <4>4. k < Len(flat)
        BY <1>8, <2>2, <4>3
      <4> QED
        BY <2>2, <4>1, <4>3, <4>4
    <3>2. ASSUME flat[k].op = "link", flat[k].end = "source"
          PROVE  k < Len(flat) /\ flat[k + 1] = AddLink("target", flat[k].edge)
      <4>1. j < Len(s) /\ s[j + 1] = AddLink("target", s[j].edge)
        BY <2>2, <2>5, <3>2 DEF Follows
      <4>2. j + 1 \in 1..Len(s) /\ b + (j + 1) = k + 1
        BY <2>2, <4>1
      <4>3. k + 1 \in 1..Len(flat) /\ flat[k + 1] = s[j + 1]
        BY <2>2, <4>2
      <4>4. k < Len(flat)
        BY <1>8, <2>2, <4>3
      <4> QED
        BY <2>2, <4>1, <4>3, <4>4
    <3>3. ASSUME k > 1, flat[k].op = "link"
          PROVE  flat[k - 1] = IF flat[k].end = "source" THEN SetEdge(flat[k].edge)
                               ELSE AddLink("source", flat[k].edge)
      <4>1. j > 1 /\ j - 1 \in 1..Len(s) /\ b + (j - 1) = k - 1
        BY <2>2, <2>5, <3>3
      <4>2. s[j - 1] = IF s[j].end = "source" THEN SetEdge(s[j].edge) ELSE AddLink("source", s[j].edge)
        BY <2>2, <2>5, <3>3, <4>1 DEF Follows
      <4>3. flat[k - 1] = s[j - 1]
        BY <2>2, <4>1
      <4> QED
        BY <2>2, <4>2, <4>3
    <3> QED
      BY <3>1, <3>2, <3>3 DEF Follows
  <2>7. flat[k].op = "link" => k # 1
    BY <2>2, <2>5
  <2> QED
    BY <2>2, <2>4, <2>5, <2>6, <2>7
<1>10. ASSUME NEW i \in DOMAIN es PROVE IsWritten(flat, es[i])
  <2>1. i \in 1..n /\ WriteEdges(own(i), <<es[i]>>)
    BY <1>1, <1>3
  <2>2. 1 \in DOMAIN <<es[i]>> /\ <<es[i]>>[1] = es[i]
    OBVIOUS
  <2>3. IsWritten(own(i), es[i])
    BY <2>1, <2>2 DEF WriteEdges
  <2>4. PICK j \in 1..Len(own(i)) : WritesEdge(own(i)[j], es[i])
    BY <1>3, <2>1, <2>3 DEF IsWritten
  <2>5. start[i] + j \in DOMAIN flat /\ flat[start[i] + j] = own(i)[j]
    BY <1>7, <1>8, <2>1
  <2>6. WritesEdge(flat[start[i] + j], es[i])
    BY <2>4, <2>5
  <2> DEFINE k == start[i] + j
  <2>7. k \in DOMAIN flat /\ WritesEdge(flat[k], es[i])
    BY <2>5, <2>6
  <2> HIDE DEF k
  <2> QED
    BY <2>7 DEF IsWritten
<1>11. WriteEdges(flat, es)
  BY <1>5, <1>9, <1>10 DEF WriteEdges
<1> QED
  BY <1>2, <1>11

\* upsert_edges
LEMMA EdgesArePersisted ==
    ASSUME NEW es \in Seq(EdgeType)
    PROVE  WriteEdges(PersistEdges(es), es)
<1>1. CASE deployment.graph \in Transactional
  <2> DEFINE rows == Transactions(deployment.graph, es)
             n == Len(rows)
             s == [i \in 1..n |-> UpsertRows(rows[i])]
  <2>1. /\ rows \in Seq(Seq(EdgeType))
        /\ \/ rows = <<es>>
           \/ /\ Len(rows) = Len(es)
              /\ \A i \in 1..Len(es) : rows[i] = <<es[i]>>
    BY TransactionParts
  <2>2. n \in Nat /\ DOMAIN rows = 1..n /\ \A i \in 1..n : rows[i] \in Seq(EdgeType)
    BY <2>1, PartsOfSeq
  <2>3. PersistEdges(es) = s
    BY <1>1, <2>2 DEF PersistEdges
  <2> HIDE DEF rows, n
  <2>4. \A i \in 1..n : /\ UpsertRows(rows[i]) \in Commands /\ UpsertRows(rows[i]).op = "edges"
                        /\ UpsertRows(rows[i]).edges = rows[i]
    BY <2>2 DEF UpsertRows, Rows, Commands
  <2>5. /\ s \in Seq(Commands) /\ DOMAIN s = 1..n
        /\ \A i \in 1..n : s[i].op = "edges" /\ s[i].edges = rows[i]
    <3>1. s \in [1..n -> Commands] /\ \A i \in 1..n : s[i].op = "edges" /\ s[i].edges = rows[i]
      BY <2>4
    <3> HIDE DEF s
    <3> QED
      BY <2>2, <3>1, ListOf
  <2> HIDE DEF s
  <2>6. Len(es) \in Nat /\ DOMAIN es = 1..Len(es)
    BY PartsOfSeq
  <2>7. ASSUME NEW i \in 1..n, NEW j \in DOMAIN rows[i] PROVE \E q \in DOMAIN es : rows[i][j] = es[q]
    <3>1. CASE rows = <<es>>
      <4>1. n = 1 /\ rows[i] = es
        BY <3>1 DEF n
      <4> QED
        BY <4>1
    <3>2. CASE Len(rows) = Len(es) /\ \A q \in 1..Len(es) : rows[q] = <<es[q]>>
      <4>1. i \in DOMAIN es /\ rows[i] = <<es[i]>>
        BY <2>6, <3>2 DEF n
      <4> QED
        BY <4>1
    <3> QED
      BY <2>1, <3>1, <3>2
  <2>8. ASSUME NEW q \in DOMAIN es PROVE \E i \in 1..n : \E j \in DOMAIN rows[i] : rows[i][j] = es[q]
    <3>1. CASE rows = <<es>>
      <4>1. n = 1 /\ rows[1] = es
        BY <3>1 DEF n
      <4> QED
        BY <4>1
    <3>2. CASE Len(rows) = Len(es) /\ \A i \in 1..Len(es) : rows[i] = <<es[i]>>
      <4>1. q \in 1..n /\ rows[q] = <<es[q]>>
        BY <2>6, <3>2 DEF n
      <4>2. 1 \in DOMAIN rows[q] /\ rows[q][1] = es[q]
        BY <4>1
      <4> QED
        BY <4>1, <4>2
    <3> QED
      BY <2>1, <3>1, <3>2
  <2>9. \A q \in DOMAIN es : IsWritten(s, es[q])
    BY <2>5, <2>8 DEF IsWritten, WritesEdge
  <2>10. deployment.graph # "redis"
    BY <1>1 DEF Transactional
  <2>11. WriteEdges(s, es)
    BY <2>5, <2>7, <2>9, <2>10 DEF WriteEdges, Suits, Follows
  <2> QED
    BY <2>3, <2>11
<1>2. CASE deployment.graph \notin Transactional
  <2>1. PersistEdges(es) = FlattenSeq([i \in DOMAIN es |-> EdgeCommands(es[i])])
    BY <1>2 DEF PersistEdges
  <2> QED
    BY <2>1, EdgesFollow
<1> QED
  BY <1>1, <1>2

\* The edges of a batch: in force, and from a memory of it.
NewEdges(b) == {e \in EdgeType : ~e.archived /\ \E j \in DOMAIN b : e.source = b[j].id}

LEMMA MemoriesAreTyped ==
    ASSUME NEW b \in Batches
    PROVE  /\ Memories(b) \in Seq(Memory) /\ DOMAIN Memories(b) = DOMAIN b
           /\ \A i \in DOMAIN b : Memories(b)[i].id = b[i].id
<1> DEFINE n == Len(b)
           f == [i \in 1..n |-> ArtifactToMemory(b[i])]
<1>1. n \in Nat /\ DOMAIN b = 1..n /\ \A i \in 1..n : b[i].id \in Ids /\ b[i].text \in Texts
  BY BatchesAreLists
<1>2. Memories(b) = f
  BY <1>1 DEF Memories
<1> HIDE DEF n
<1>3. \A i \in 1..n : ArtifactToMemory(b[i]) \in Memory /\ ArtifactToMemory(b[i]).id = b[i].id
  BY <1>1 DEF ArtifactToMemory, Memory
<1>4. f \in [1..n -> Memory] /\ \A i \in 1..n : f[i].id = b[i].id
  BY <1>3
<1>5. DOMAIN f = 1..n
  OBVIOUS
<1> HIDE DEF f
<1> QED
  BY <1>1, <1>2, <1>4, <1>5, ListOf

LEMMA NewEdgeIsTyped ==
    ASSUME NEW b \in Batches, NEW i \in DOMAIN b, NEW target \in Ids, NEW kind \in EdgeKinds
    PROVE  Edge(kind, b[i].id, target) \in NewEdges(b)
<1>1. b[i].id \in Ids
  BY BatchesAreLists
<1>2. Edge(kind, b[i].id, target) \in EdgeType
  BY <1>1 DEF Edge, EdgeType
<1>3. /\ ~Edge(kind, b[i].id, target).archived
      /\ Edge(kind, b[i].id, target).source = b[i].id
  BY DEF Edge
<1> QED
  BY <1>2, <1>3 DEF NewEdges

LEMMA EdgesToPreviousAreNew ==
    ASSUME NEW b \in Batches, NEW i \in DOMAIN b, NEW kind \in EdgeKinds, NEW field
    PROVE  EdgeToPrevious(kind, b, i, field) \in Seq(NewEdges(b))
<1>1. CASE b[i][field] = Absent
  BY <1>1, EmptySeq DEF EdgeToPrevious
<1>2. CASE b[i][field] # Absent
  <2> DEFINE places == Previous(b, i, field)
             S == {Edge(kind, b[j].id, b[i].id) : j \in places}
  <2>1. Len(b) \in Nat /\ DOMAIN b = 1..Len(b) /\ b[i].id \in Ids
    BY BatchesAreLists
  <2>2. places \subseteq 1..(i - 1) /\ places \subseteq DOMAIN b
    BY <2>1 DEF Previous
  <2>3. IsFiniteSet(places)
    <3>1. 1 \in Int /\ i - 1 \in Int
      BY <2>1
    <3>2. IsFiniteSet(1..(i - 1))
      BY <3>1, FS_Interval
    <3> QED
      BY <2>2, <3>2, FS_Subset
  <2> HIDE DEF places
  <2>4. IsFiniteSet(S)
    <3> DEFINE f == [j \in places |-> Edge(kind, b[j].id, b[i].id)]
    <3>1. f \in Surjection(places, S)
      BY DEF Surjection
    <3> QED
      BY <2>3, <3>1, FS_Surjection
  <2>5. S \subseteq NewEdges(b)
    BY <2>1, <2>2, NewEdgeIsTyped
  <2>6. EdgeToPrevious(kind, b, i, field) = SetToSeq(S)
    BY <1>2 DEF EdgeToPrevious, places
  <2> HIDE DEF S
  <2>7. SetToSeq(S) \in Seq(S)
    BY <2>4, SetToSeqIsAList
  <2>8. Len(SetToSeq(S)) \in Nat /\ SetToSeq(S) \in [1..Len(SetToSeq(S)) -> S]
    BY <2>7, PartsOfSeq
  <2>9. SetToSeq(S) \in [1..Len(SetToSeq(S)) -> NewEdges(b)]
    BY <2>5, <2>8
  <2> QED
    BY <2>6, <2>8, <2>9, ListOf
<1> QED
  BY <1>1, <1>2

\* _build_edges
LEMMA EdgesAreNew ==
    ASSUME NEW b \in Batches
    PROVE  BuildEdges(b) \in Seq(NewEdges(b))
<1> DEFINE n == Len(b)
           own(i) == EdgesOf(b, i)
           seqs == [i \in 1..n |-> own(i)]
<1>1. n \in Nat /\ DOMAIN b = 1..n
  BY BatchesAreLists
<1>2. ASSUME NEW i \in 1..n PROVE own(i) \in Seq(NewEdges(b))
  <2> DEFINE p == EdgeToPrevious("supports", b, i, "topic")
             q == EdgeToPrevious("about", b, i, "conversation")
             r == IF b[i].causedBy = Absent THEN <<>>
                  ELSE <<Edge("caused_by", b[i].id, b[i].causedBy)>>
  <2>1. own(i) = (p \o q) \o r
    BY DEF EdgesOf
  <2>2. "supports" \in EdgeKinds /\ "about" \in EdgeKinds /\ "caused_by" \in EdgeKinds
    BY DEF EdgeKinds
  <2>3. p \in Seq(NewEdges(b)) /\ q \in Seq(NewEdges(b))
    BY <1>1, <2>2, EdgesToPreviousAreNew
  <2>4. r \in Seq(NewEdges(b))
    <3>1. CASE b[i].causedBy = Absent
      BY <3>1, EmptySeq
    <3>2. CASE b[i].causedBy # Absent
      <4>1. b[i].causedBy \in Ids
        BY <1>1, <3>2, BatchesAreLists
      <4>2. Edge("caused_by", b[i].id, b[i].causedBy) \in NewEdges(b)
        BY <1>1, <2>2, <4>1, NewEdgeIsTyped
      <4> DEFINE e == Edge("caused_by", b[i].id, b[i].causedBy)
      <4>3. r = <<e>>
        BY <3>2
      <4> HIDE DEF e, r
      <4> QED
        BY <4>2, <4>3 DEF e
    <3> QED
      BY <3>1, <3>2
  <2> HIDE DEF p, q, r, own
  <2>5. p \o q \in Seq(NewEdges(b))
    BY <2>3, ConcatProperties
  <2>6. (p \o q) \o r \in Seq(NewEdges(b))
    BY <2>4, <2>5, ConcatProperties
  <2> QED
    BY <2>1, <2>6
<1>3. BuildEdges(b) = FlattenSeq(seqs)
  BY <1>1 DEF BuildEdges
<1> HIDE DEF own, n
<1>4. seqs \in [1..n -> Seq(NewEdges(b))]
  BY <1>2
<1> HIDE DEF seqs
<1>5. seqs \in Seq(Seq(NewEdges(b)))
  BY <1>1, <1>4, ListOf
<1> QED
  BY <1>3, <1>5, FlattenPlaces
\* What the commands that ingest some records and edges are.
WritesBatch(s, recs, es) ==
    /\ s \in Seq(Commands) /\ PutsFirst(s)
    /\ \A k \in DOMAIN s :
          /\ Suits(s[k]) /\ Ingests(s[k]) /\ Follows(s, k) /\ (s[k].op = "link" => k # 1)
          /\ s[k].op = "node" => \A i \in DOMAIN s[k].recs : \E j \in DOMAIN recs : s[k].recs[i] = recs[j]
          /\ s[k].op = "index" => \E j \in DOMAIN recs : s[k].id = recs[j].id
          /\ s[k].op = "edges" => \A i \in DOMAIN s[k].edges : \E j \in DOMAIN es : s[k].edges[i] = es[j]
          /\ s[k].op = "set" => \E j \in DOMAIN es : s[k].edge = es[j]
    /\ \A j \in DOMAIN recs : IsPut(s, recs[j].id)
    /\ \A i \in LastOf(recs) :
          /\ Due(s, "put", recs[i].id, recs[i].text)
          /\ ~SharesMemoryStore => Due(s, "node", recs[i].id, recs[i].text)
          /\ Due(s, "vector", recs[i].id, recs[i].text)
          /\ deployment.represents => Due(s, "representation", recs[i].id, recs[i].text)
    /\ \A j \in DOMAIN es : IsWritten(s, es[j])

\* Commands that are not a Redis set or link may stand before others.
LEMMA FollowsAfter ==
    ASSUME NEW s \in Seq(Commands), NEW t \in Seq(Commands),
           \A k \in DOMAIN s : s[k].op \notin {"set", "link"},
           \A k \in DOMAIN t : Follows(t, k) /\ (t[k].op = "link" => k # 1)
    PROVE  \A k \in DOMAIN (s \o t) :
              Follows(s \o t, k) /\ ((s \o t)[k].op = "link" => k # 1)
<1> DEFINE u == s \o t
           p == Len(s)
           q == Len(t)
<1>1. /\ p \in Nat /\ q \in Nat /\ DOMAIN s = 1..p /\ DOMAIN t = 1..q /\ Len(u) = p + q
      /\ \A k \in 1..p : k \in DOMAIN u /\ u[k] = s[k]
      /\ \A k \in 1..q : p + k \in DOMAIN u /\ u[p + k] = t[k]
      /\ \A k \in DOMAIN u : k \in 1..p \/ \E j \in 1..q : k = p + j
  BY ConcatPlaces
<1> HIDE DEF u, p
<1>2. ASSUME NEW k \in DOMAIN u PROVE Follows(u, k) /\ (u[k].op = "link" => k # 1)
  <2>1. CASE k \in 1..p
    BY <1>1, <2>1 DEF Follows
  <2>2. ASSUME NEW j \in 1..q, k = p + j PROVE Follows(u, k) /\ (u[k].op = "link" => k # 1)
    <3>1. /\ u[k] = t[j] /\ Len(t) = q
          /\ Follows(t, j) /\ (t[j].op = "link" => j # 1)
      BY <1>1, <2>2
    <3> HIDE DEF q
    <3>2. ASSUME u[k].op = "set"
          PROVE  k < Len(u) /\ u[k + 1] = AddLink("source", u[k].edge)
      <4>1. j < q /\ t[j + 1] = AddLink("source", t[j].edge)
        BY <3>1, <3>2 DEF Follows
      <4>2. j + 1 \in 1..q /\ p + (j + 1) = k + 1 /\ k < Len(u)
        BY <1>1, <2>2, <4>1
      <4>3. u[p + (j + 1)] = t[j + 1]
        BY <1>1, <4>2
      <4> QED
        BY <3>1, <4>1, <4>2, <4>3
    <3>3. ASSUME u[k].op = "link", u[k].end = "source"
          PROVE  k < Len(u) /\ u[k + 1] = AddLink("target", u[k].edge)
      <4>1. j < q /\ t[j + 1] = AddLink("target", t[j].edge)
        BY <3>1, <3>3 DEF Follows
      <4>2. j + 1 \in 1..q /\ p + (j + 1) = k + 1 /\ k < Len(u)
        BY <1>1, <2>2, <4>1
      <4>3. u[p + (j + 1)] = t[j + 1]
        BY <1>1, <4>2
      <4> QED
        BY <3>1, <4>1, <4>2, <4>3
    <3>4. ASSUME u[k].op = "link"
          PROVE  /\ k # 1
                 /\ u[k - 1] = IF u[k].end = "source" THEN SetEdge(u[k].edge)
                               ELSE AddLink("source", u[k].edge)
      <4>1. j > 1 /\ t[j - 1] = IF t[j].end = "source" THEN SetEdge(t[j].edge)
                                ELSE AddLink("source", t[j].edge)
        BY <1>1, <3>1, <3>4 DEF Follows
      <4>2. j - 1 \in 1..q /\ p + (j - 1) = k - 1 /\ k # 1
        BY <1>1, <2>2, <4>1
      <4>3. u[p + (j - 1)] = t[j - 1]
        BY <1>1, <4>2
      <4> QED
        BY <3>1, <4>1, <4>2, <4>3
    <3> QED
      BY <3>2, <3>3, <3>4 DEF Follows
  <2> QED
    BY <1>1, <2>1, <2>2
<1> QED
  BY <1>2 DEF u

\* ingest_envelopes: the memories, the indexes, the edges.
LEMMA BatchIsWritten ==
    ASSUME NEW recs \in Seq(Memory), NEW es \in Seq(EdgeType),
           \A j \in DOMAIN es : ~es[j].archived
    PROVE  WritesBatch(IngestCommands(recs, es), recs, es)
<1> DEFINE p == PersistMemories(recs)
           x == IndexMemories(recs)
           q == PersistEdges(es)
           px == p \o x
           s == px \o q
<1>1. IngestCommands(recs, es) = s
  BY DEF IngestCommands
<1>2. /\ p \in Seq(Commands) /\ PutsFirst(p)
      /\ \A k \in DOMAIN p :
            /\ p[k].op \in {"put", "node"}
            /\ p[k].op = "node" => ~SharesMemoryStore
            /\ \A i \in DOMAIN p[k].recs : \E j \in DOMAIN recs : p[k].recs[i] = recs[j]
      /\ \A j \in DOMAIN recs : IsPut(p, recs[j].id)
      /\ \A i \in LastOf(recs) :
            /\ Due(p, "put", recs[i].id, recs[i].text)
            /\ ~SharesMemoryStore => Due(p, "node", recs[i].id, recs[i].text)
  BY MemoriesArePersisted
<1>3. /\ x \in Seq(Commands)
      /\ \A k \in DOMAIN x : x[k].op = "index" /\ \E j \in DOMAIN recs : x[k].id = recs[j].id
      /\ \A i \in LastOf(recs) :
            /\ Due(x, "vector", recs[i].id, recs[i].text)
            /\ deployment.represents => Due(x, "representation", recs[i].id, recs[i].text)
  BY MemoriesAreIndexed
<1>4. WriteEdges(q, es)
  BY EdgesArePersisted
<1> HIDE DEF p, x, q
<1>5. /\ q \in Seq(Commands)
      /\ \A k \in DOMAIN q :
            /\ Suits(q[k]) /\ q[k].op \in {"placeholder", "edges", "set", "link"}
            /\ q[k].op = "edges" => \A i \in DOMAIN q[k].edges : \E j \in DOMAIN es : q[k].edges[i] = es[j]
            /\ q[k].op = "set" => \E j \in DOMAIN es : q[k].edge = es[j]
            /\ Follows(q, k) /\ (q[k].op = "link" => k # 1)
      /\ \A j \in DOMAIN es : IsWritten(q, es[j])
  BY <1>4 DEF WriteEdges
<1>6. px \in Seq(Commands) /\ s \in Seq(Commands)
  BY <1>2, <1>3, <1>5, ConcatProperties
\* Where a command of the queue comes from.
<1>7. /\ DOMAIN p = 1..Len(p) /\ DOMAIN x = 1..Len(x) /\ Len(p) \in Nat /\ Len(x) \in Nat
      /\ \A k \in 1..Len(p) : px[k] = p[k]
      /\ \A k \in DOMAIN px : \/ k \in 1..Len(p) /\ px[k] = p[k]
                              \/ \E j \in DOMAIN x : k = Len(p) + j /\ px[k] = x[j]
  <2>1. /\ DOMAIN p = 1..Len(p) /\ DOMAIN x = 1..Len(x) /\ Len(p) \in Nat /\ Len(x) \in Nat
        /\ \A k \in 1..Len(p) : px[k] = p[k]
        /\ \A k \in 1..Len(x) : px[Len(p) + k] = x[k]
        /\ \A k \in DOMAIN px : k \in 1..Len(p) \/ \E j \in 1..Len(x) : k = Len(p) + j
    BY <1>2, <1>3, ConcatPlaces
  <2> HIDE DEF px
  <2> QED
    BY <2>1
<1>8. /\ DOMAIN px = 1..Len(px) /\ DOMAIN q = 1..Len(q) /\ Len(px) \in Nat /\ Len(q) \in Nat
      /\ \A k \in 1..Len(px) : s[k] = px[k]
      /\ \A k \in DOMAIN s : \/ k \in 1..Len(px) /\ s[k] = px[k]
                             \/ \E j \in DOMAIN q : k = Len(px) + j /\ s[k] = q[j]
  <2>1. /\ DOMAIN px = 1..Len(px) /\ DOMAIN q = 1..Len(q) /\ Len(px) \in Nat /\ Len(q) \in Nat
        /\ \A k \in 1..Len(px) : s[k] = px[k]
        /\ \A k \in 1..Len(q) : s[Len(px) + k] = q[k]
        /\ \A k \in DOMAIN s : k \in 1..Len(px) \/ \E j \in 1..Len(q) : k = Len(px) + j
    <3> HIDE DEF px
    <3> QED
      BY <1>5, <1>6, ConcatPlaces
  <2> HIDE DEF px, s
  <2> QED
    BY <2>1
<1>9. ASSUME NEW k \in DOMAIN s
      PROVE  \/ k \in 1..Len(p) /\ s[k] = p[k]
             \/ k > Len(p) /\ \E j \in DOMAIN x : s[k] = x[j]
             \/ k > Len(p) /\ \E j \in DOMAIN q : s[k] = q[j]
  <2>1. CASE k \in 1..Len(px) /\ s[k] = px[k]
    <3>1. k \in DOMAIN px
      BY <1>8, <2>1
    <3>2. CASE k \in 1..Len(p) /\ px[k] = p[k]
      BY <2>1, <3>2
    <3>3. ASSUME NEW j \in DOMAIN x, k = Len(p) + j, px[k] = x[j]
          PROVE  k > Len(p) /\ s[k] = x[j]
      <4> HIDE DEF px, s
      <4> QED
        BY <1>7, <2>1, <3>3
    <3> QED
      BY <1>7, <3>1, <3>2, <3>3
  <2>2. ASSUME NEW j \in DOMAIN q, k = Len(px) + j, s[k] = q[j]
        PROVE  k > Len(p)
    <3>1. Len(px) = Len(p) + Len(x)
      BY <1>2, <1>3, ConcatProperties
    <3> HIDE DEF px, s
    <3> QED
      BY <1>7, <1>8, <2>2, <3>1
  <2> QED
    BY <1>8, <2>1, <2>2
<1>10. ASSUME NEW k \in DOMAIN s
       PROVE  \/ \E j \in DOMAIN p : s[k] = p[j]
              \/ \E j \in DOMAIN x : s[k] = x[j]
              \/ \E j \in DOMAIN q : s[k] = q[j]
  BY <1>7, <1>9
<1>11. PutsFirst(s)
  <2>1. ASSUME NEW k \in DOMAIN s, NEW j \in DOMAIN s, s[k].op = "put", j < k PROVE s[j].op = "put"
    <3>1. k \in 1..Len(p) /\ s[k] = p[k]
      BY <1>3, <1>5, <1>9, <2>1
    <3>2. DOMAIN s = 1..Len(s) /\ Len(s) \in Nat
      <4> HIDE DEF s
      <4> QED
        BY <1>6, PartsOfSeq
    <3>3. j \in 1..Len(p)
      BY <1>7, <2>1, <3>1, <3>2
    <3>4. s[j] = p[j]
      <4>1. j \in 1..Len(p) /\ ~(j > Len(p))
        BY <1>7, <3>3
      <4> QED
        BY <1>9, <4>1
    <3> QED
      BY <1>2, <1>7, <2>1, <3>1, <3>3, <3>4 DEF PutsFirst
  <2> QED
    BY <2>1 DEF PutsFirst
<1>12. ASSUME NEW k \in DOMAIN s PROVE Follows(s, k) /\ (s[k].op = "link" => k # 1)
  <2>1. ASSUME NEW j \in DOMAIN px PROVE px[j].op \notin {"set", "link"}
    BY <1>2, <1>3, <1>7
  <2> HIDE DEF px
  <2> QED
    BY <1>5, <1>6, <2>1, FollowsAfter
<1>13. ASSUME NEW k \in DOMAIN s
       PROVE  /\ Suits(s[k]) /\ Ingests(s[k])
              /\ s[k].op = "node" => \A i \in DOMAIN s[k].recs : \E j \in DOMAIN recs : s[k].recs[i] = recs[j]
              /\ s[k].op = "index" => \E j \in DOMAIN recs : s[k].id = recs[j].id
              /\ s[k].op = "edges" => \A i \in DOMAIN s[k].edges : \E j \in DOMAIN es : s[k].edges[i] = es[j]
              /\ s[k].op = "set" => \E j \in DOMAIN es : s[k].edge = es[j]
  <2> DEFINE c == s[k]
  <2> HIDE DEF s, c
  <2>1. ASSUME NEW j \in DOMAIN p, c = p[j]
        PROVE  /\ Suits(c) /\ Ingests(c) /\ c.op \notin {"index", "edges", "set"}
               /\ \A i \in DOMAIN c.recs : \E h \in DOMAIN recs : c.recs[i] = recs[h]
    BY <1>2, <2>1 DEF Suits, Ingests
  <2>2. ASSUME NEW j \in DOMAIN x, c = x[j]
        PROVE  /\ Suits(c) /\ Ingests(c) /\ c.op = "index"
               /\ \E h \in DOMAIN recs : c.id = recs[h].id
    BY <1>3, <2>2 DEF Suits, Ingests
  <2>3. ASSUME NEW j \in DOMAIN q, c = q[j]
        PROVE  /\ Suits(c) /\ Ingests(c) /\ c.op \notin {"node", "index"}
               /\ c.op = "edges" => \A i \in DOMAIN c.edges : \E h \in DOMAIN es : c.edges[i] = es[h]
               /\ c.op = "set" => \E h \in DOMAIN es : c.edge = es[h]
    <3>1. /\ Suits(c) /\ c.op \in {"placeholder", "edges", "set", "link"}
          /\ c.op = "edges" => \A i \in DOMAIN c.edges : \E h \in DOMAIN es : c.edges[i] = es[h]
          /\ c.op = "set" => \E h \in DOMAIN es : c.edge = es[h]
      BY <1>5, <2>3
    <3>2. Ingests(c)
      BY <3>1 DEF Ingests
    <3> QED
      BY <3>1, <3>2
  <2> QED
    BY <1>10, <2>1, <2>2, <2>3 DEF c
<1>14. /\ \A m : Past(x, "put", m) /\ Past(x, "node", m)
       /\ \A table, m : Past(q, table, m)
  <2>1. ASSUME NEW k \in DOMAIN x PROVE x[k].op = "index" /\ x[k].index \notin {"put", "node"}
    <3>1. x[k] \in Commands /\ x[k].op = "index"
      BY <1>3, <1>7, PartsOfSeq
    <3> DEFINE c == x[k]
    <3>2. c.index \in Indexes
      <4> HIDE DEF c
      <4>1. c \in Commands /\ c.op = "index"
        BY <3>1 DEF c
      <4> QED
        BY <4>1, CommandCases
    <3> QED
      BY <3>1, <3>2 DEF Indexes
  <2>2. \A m : Past(x, "put", m) /\ Past(x, "node", m)
    BY <2>1 DEF Past, Names
  <2>3. \A table, m : Past(q, table, m)
    BY <1>5 DEF Past, Names
  <2> QED
    BY <2>2, <2>3
<1>15. /\ \A j \in DOMAIN recs : IsPut(s, recs[j].id)
       /\ \A j \in DOMAIN es : IsWritten(s, es[j])
  <2>1. \A j \in DOMAIN recs : IsPut(px, recs[j].id)
    BY <1>2, <1>3, OneAfterAnother
  <2> HIDE DEF px
  <2> QED
    BY <1>5, <1>6, <2>1, OneAfterAnother
<1>16. ASSUME NEW i \in LastOf(recs)
       PROVE  /\ Due(s, "put", recs[i].id, recs[i].text)
              /\ ~SharesMemoryStore => Due(s, "node", recs[i].id, recs[i].text)
              /\ Due(s, "vector", recs[i].id, recs[i].text)
              /\ deployment.represents => Due(s, "representation", recs[i].id, recs[i].text)
  <2>1. /\ Due(px, "put", recs[i].id, recs[i].text)
        /\ ~SharesMemoryStore => Due(px, "node", recs[i].id, recs[i].text)
        /\ Due(px, "vector", recs[i].id, recs[i].text)
        /\ deployment.represents => Due(px, "representation", recs[i].id, recs[i].text)
    BY <1>2, <1>3, <1>14, OneAfterAnother
  <2> HIDE DEF px
  <2> QED
    BY <1>5, <1>6, <1>14, <2>1, OneAfterAnother
<1> HIDE DEF s
<1>17. WritesBatch(s, recs, es)
  BY <1>6, <1>11, <1>12, <1>13, <1>15, <1>16 DEF WritesBatch
<1> QED
  BY <1>1, <1>17

-----------------------------------------------------------------------------
(***************************************************************************)
(* Working a queue off.                                                    *)
(***************************************************************************)
LEMMA TailPlaces ==
    ASSUME NEW S, NEW s \in Seq(S), s # <<>>
    PROVE  /\ Head(s) = s[1] /\ 1 \in DOMAIN s /\ Head(s) \in S
           /\ Tail(s) \in Seq(S) /\ Len(s) \in Nat /\ Len(Tail(s)) = Len(s) - 1
           /\ DOMAIN s = 1..Len(s) /\ DOMAIN Tail(s) = 1..(Len(s) - 1)
           /\ \A k \in DOMAIN Tail(s) : k + 1 \in DOMAIN s /\ Tail(s)[k] = s[k + 1]
           /\ \A k \in DOMAIN s : k # 1 => k - 1 \in DOMAIN Tail(s) /\ Tail(s)[k - 1] = s[k]
<1> DEFINE n == Len(s)
           t == Tail(s)
<1>1. n \in Nat /\ DOMAIN s = 1..n /\ \A i \in 1..n : s[i] \in S
  BY PartsOfSeq
<1>2. n # 0
  BY EmptySeq
<1>3. Head(s) = s[1] /\ 1 \in DOMAIN s /\ Head(s) \in S
  BY <1>1, <1>2
<1>4. t \in Seq(S) /\ Len(t) = n - 1
  BY HeadTailProperties
<1>5. DOMAIN t = 1..(n - 1)
  <2> HIDE DEF t, n
  <2> QED
    BY <1>4, PartsOfSeq
<1>6. \A i \in 1..(n - 1) : t[i] = s[i + 1]
  BY <1>4, HeadTailProperties
<1> HIDE DEF t, n
<1>7. ASSUME NEW k \in 1..(n - 1) PROVE k + 1 \in 1..n /\ t[k] = s[k + 1]
  BY <1>1, <1>6
<1>8. ASSUME NEW k \in 1..n, k # 1 PROVE k - 1 \in 1..(n - 1) /\ t[k - 1] = s[k]
  <2>1. k - 1 \in 1..(n - 1) /\ (k - 1) + 1 = k
    BY <1>1, <1>8
  <2> QED
    BY <1>6, <2>1
<1> QED
  BY <1>1, <1>3, <1>4, <1>5, <1>7, <1>8 DEF t, n

\* What was due, past or written is done by the first command or left to the rest.
LEMMA HeadOrRest ==
    ASSUME NEW s \in Seq(Commands), s # <<>>
    PROVE  /\ \A table, m, t : Due(s, table, m, t) =>
                 \/ Due(Tail(s), table, m, t)
                 \/ Leaves(Head(s), table, m, t) /\ Past(Tail(s), table, m)
           /\ \A table, m : Past(s, table, m) => ~Names(Head(s), table, m) /\ Past(Tail(s), table, m)
           /\ \A e : IsWritten(s, e) => WritesEdge(Head(s), e) \/ IsWritten(Tail(s), e)
           /\ \A m : IsPut(s, m) =>
                 \/ Head(s).op = "put" /\ \E i \in DOMAIN Head(s).recs : Head(s).recs[i].id = m
                 \/ IsPut(Tail(s), m)
           /\ PutsFirst(s) => PutsFirst(Tail(s)) /\ (Head(s).op # "put" => \A m : ~IsPut(s, m))
<1> DEFINE h == Head(s)
           r == Tail(s)
           n == Len(s)
<1>1. /\ h = s[1] /\ 1 \in DOMAIN s /\ n \in Nat /\ DOMAIN s = 1..n /\ DOMAIN r = 1..(n - 1)
      /\ \A k \in DOMAIN r : k + 1 \in DOMAIN s /\ r[k] = s[k + 1]
      /\ \A k \in DOMAIN s : k # 1 => k - 1 \in DOMAIN r /\ r[k - 1] = s[k]
  BY TailPlaces
<1> HIDE DEF h, r, n
<1>2. ASSUME NEW table, NEW m, NEW t, Due(s, table, m, t)
      PROVE  Due(r, table, m, t) \/ (Leaves(h, table, m, t) /\ Past(r, table, m))
  <2>1. PICK k \in DOMAIN s : /\ Leaves(s[k], table, m, t)
                             /\ \A j \in DOMAIN s : j > k => ~Names(s[j], table, m)
    BY <1>2 DEF Due
  <2>2. CASE k = 1
    <3>1. \A j \in DOMAIN r : ~Names(r[j], table, m)
      BY <1>1, <2>1, <2>2
    <3> QED
      BY <1>1, <2>1, <2>2, <3>1 DEF Past
  <2>3. CASE k # 1
    <3> DEFINE q == k - 1
    <3>1. q \in DOMAIN r /\ r[q] = s[k] /\ q \in Int /\ k = q + 1
      BY <1>1, <2>3
    <3> HIDE DEF q
    <3>2. \A j \in DOMAIN r : j > q => ~Names(r[j], table, m)
      BY <1>1, <2>1, <3>1
    <3> QED
      BY <2>1, <3>1, <3>2 DEF Due
  <2> QED
    BY <2>2, <2>3
<1>3. ASSUME NEW table, NEW m, Past(s, table, m)
      PROVE  ~Names(h, table, m) /\ Past(r, table, m)
  BY <1>1, <1>3 DEF Past
<1>4. ASSUME NEW e, IsWritten(s, e) PROVE WritesEdge(h, e) \/ IsWritten(r, e)
  <2>1. PICK k \in DOMAIN s : WritesEdge(s[k], e)
    BY <1>4 DEF IsWritten
  <2>2. CASE k = 1
    BY <1>1, <2>1, <2>2
  <2>3. CASE k # 1
    <3> DEFINE q == k - 1
    <3>1. q \in DOMAIN r /\ r[q] = s[k]
      BY <1>1, <2>3
    <3> HIDE DEF q
    <3> QED
      BY <2>1, <3>1 DEF IsWritten
  <2> QED
    BY <2>2, <2>3
<1>5. ASSUME NEW m, IsPut(s, m)
      PROVE  (h.op = "put" /\ \E i \in DOMAIN h.recs : h.recs[i].id = m) \/ IsPut(r, m)
  <2> DEFINE P(c) == c.op = "put" /\ \E i \in DOMAIN c.recs : c.recs[i].id = m
  <2>1. PICK k \in DOMAIN s : P(s[k])
    BY <1>5 DEF IsPut
  <2>2. CASE k = 1
    BY <1>1, <2>1, <2>2
  <2>3. CASE k # 1
    <3> DEFINE q == k - 1
    <3>1. q \in DOMAIN r /\ P(r[q])
      BY <1>1, <2>1, <2>3
    <3> HIDE DEF q
    <3> QED
      BY <3>1 DEF IsPut
  <2> QED
    BY <2>2, <2>3
<1>6. ASSUME PutsFirst(s) PROVE PutsFirst(r) /\ (h.op # "put" => \A m : ~IsPut(s, m))
  <2>1. PutsFirst(r)
    <3>1. ASSUME NEW k \in DOMAIN r, NEW j \in DOMAIN r, r[k].op = "put", j < k PROVE r[j].op = "put"
      <4>1. k + 1 \in DOMAIN s /\ j + 1 \in DOMAIN s /\ j + 1 < k + 1 /\ s[k + 1].op = "put"
        BY <1>1, <3>1
      <4>2. s[j + 1].op = "put"
        BY <1>6, <4>1 DEF PutsFirst
      <4> QED
        BY <1>1, <4>2
    <3> QED
      BY <3>1 DEF PutsFirst
  <2>2. ASSUME h.op # "put", NEW k \in DOMAIN s, s[k].op = "put" PROVE FALSE
    <3>1. k = 1 \/ 1 < k
      BY <1>1
    <3> QED
      BY <1>1, <1>6, <2>2, <3>1 DEF PutsFirst
  <2> QED
    BY <2>1, <2>2 DEF IsPut
<1> QED
  BY <1>2, <1>3, <1>4, <1>5, <1>6 DEF h, r

\* The commands of one edge stay together.
LEMMA NextFollows ==
    ASSUME NEW s \in Seq(Commands), s # <<>>, \A k \in DOMAIN s : Follows(s, k)
    PROVE  /\ \A k \in DOMAIN Tail(s) : Follows(Tail(s), k)
           /\ Head(s).op = "set" =>
                 Tail(s) # <<>> /\ Head(Tail(s)) = AddLink("source", Head(s).edge)
           /\ Head(s).op = "link" /\ Head(s).end = "source" =>
                 Tail(s) # <<>> /\ Head(Tail(s)) = AddLink("target", Head(s).edge)
           /\ Tail(s) # <<>> /\ Head(Tail(s)).op = "link" =>
                 Head(s) = IF Head(Tail(s)).end = "source" THEN SetEdge(Head(Tail(s)).edge)
                           ELSE AddLink("source", Head(Tail(s)).edge)
<1> DEFINE h == Head(s)
           r == Tail(s)
           n == Len(s)
<1>1. /\ h = s[1] /\ 1 \in DOMAIN s /\ n \in Nat /\ DOMAIN s = 1..n /\ DOMAIN r = 1..(n - 1)
      /\ r \in Seq(Commands) /\ Len(r) = n - 1
      /\ \A k \in DOMAIN r : k + 1 \in DOMAIN s /\ r[k] = s[k + 1]
      /\ \A k \in DOMAIN s : k # 1 => k - 1 \in DOMAIN r /\ r[k - 1] = s[k]
  BY TailPlaces
<1>2. /\ r # <<>> => Head(r) = r[1] /\ 1 \in DOMAIN r
      /\ r = <<>> => n = 1
  <2>1. r # <<>> => Head(r) = r[1] /\ 1 \in DOMAIN r
    <3> HIDE DEF r
    <3> QED
      BY <1>1, TailPlaces
  <2>2. ASSUME r = <<>> PROVE n = 1
    <3>1. Len(r) = 0
      BY <2>2, EmptySeq
    <3> HIDE DEF r, n
    <3> QED
      BY <1>1, <3>1
  <2> QED
    BY <2>1, <2>2
<1> HIDE DEF h, r
<1>3. ASSUME NEW k \in DOMAIN r PROVE Follows(r, k)
  <2>1. k + 1 \in DOMAIN s /\ r[k] = s[k + 1] /\ Follows(s, k + 1) /\ k \in 1..(n - 1) /\ n = Len(s)
    BY <1>1
  <2> HIDE DEF n
  <2>2. ASSUME r[k].op = "set" PROVE k < Len(r) /\ r[k + 1] = AddLink("source", r[k].edge)
    <3>1. k + 1 < n /\ s[(k + 1) + 1] = AddLink("source", s[k + 1].edge)
      BY <2>1, <2>2 DEF Follows
    <3>2. k + 1 \in DOMAIN r /\ k < Len(r)
      BY <1>1, <2>1, <3>1
    <3> QED
      BY <1>1, <2>1, <3>1, <3>2
  <2>3. ASSUME r[k].op = "link", r[k].end = "source"
        PROVE  k < Len(r) /\ r[k + 1] = AddLink("target", r[k].edge)
    <3>1. k + 1 < n /\ s[(k + 1) + 1] = AddLink("target", s[k + 1].edge)
      BY <2>1, <2>3 DEF Follows
    <3>2. k + 1 \in DOMAIN r /\ k < Len(r)
      BY <1>1, <2>1, <3>1
    <3> QED
      BY <1>1, <2>1, <3>1, <3>2
  <2>4. ASSUME k > 1, r[k].op = "link"
        PROVE  r[k - 1] = IF r[k].end = "source" THEN SetEdge(r[k].edge)
                          ELSE AddLink("source", r[k].edge)
    <3>1. k + 1 > 1 /\ (k + 1) - 1 = k /\ k - 1 \in DOMAIN r /\ (k - 1) + 1 = k
      BY <1>1, <2>1, <2>4
    <3>2. s[k] = IF s[k + 1].end = "source" THEN SetEdge(s[k + 1].edge)
                 ELSE AddLink("source", s[k + 1].edge)
      BY <2>1, <2>4, <3>1 DEF Follows
    <3>3. r[k - 1] = s[k]
      BY <1>1, <3>1
    <3> QED
      BY <2>1, <3>2, <3>3
  <2> QED
    BY <2>2, <2>3, <2>4 DEF Follows
<1>4. Follows(s, 1)
  BY <1>1
<1>5. ASSUME 1 < n PROVE r # <<>> /\ Head(r) = s[2]
  <2>1. r # <<>>
    <3> HIDE DEF n
    <3>1. n # 1
      BY <1>1, <1>5
    <3> QED
      BY <1>2, <3>1
  <2>2. Head(r) = r[1] /\ 1 \in DOMAIN r
    BY <1>2, <2>1
  <2>3. r[1] = s[1 + 1]
    BY <1>1, <2>2
  <2> QED
    BY <2>1, <2>2, <2>3
<1>6. h.op = "set" => r # <<>> /\ Head(r) = AddLink("source", h.edge)
  BY <1>1, <1>4, <1>5 DEF Follows, n
<1>7. h.op = "link" /\ h.end = "source" => r # <<>> /\ Head(r) = AddLink("target", h.edge)
  BY <1>1, <1>4, <1>5 DEF Follows, n
<1>8. ASSUME r # <<>>, Head(r).op = "link"
      PROVE  h = IF Head(r).end = "source" THEN SetEdge(Head(r).edge) ELSE AddLink("source", Head(r).edge)
  <2>1. Head(r) = r[1] /\ 1 \in DOMAIN r
    BY <1>2, <1>8
  <2>2. 2 \in DOMAIN s /\ r[1] = s[2]
    BY <1>1, <2>1
  <2>3. Follows(s, 2)
    BY <2>2
  <2>4. s[1] = IF s[2].end = "source" THEN SetEdge(s[2].edge) ELSE AddLink("source", s[2].edge)
    <3>1. 2 > 1 /\ 2 - 1 = 1 /\ s[2].op = "link"
      BY <1>8, <2>1, <2>2
    <3> QED
      BY <2>3, <3>1 DEF Follows
  <2> QED
    BY <1>1, <2>1, <2>2, <2>4
<1> QED
  BY <1>3, <1>6, <1>7, <1>8 DEF h, r

-----------------------------------------------------------------------------
(***************************************************************************)
(* What a step of the queue keeps whatever its command is.                 *)
(***************************************************************************)
LEMMA QueueIsTyped ==
    ASSUME TodoInv, todo # <<>>, todo' = Tail(todo), deployment' = deployment
    PROVE  TodoInv' /\ Command \in Commands /\ Suits(Command)
<1>1. /\ Head(todo) = todo[1] /\ 1 \in DOMAIN todo /\ Head(todo) \in Commands
      /\ Tail(todo) \in Seq(Commands)
      /\ \A k \in DOMAIN Tail(todo) : k + 1 \in DOMAIN todo /\ Tail(todo)[k] = todo[k + 1]
  BY TailPlaces DEF TodoInv
<1>2. ASSUME NEW k \in DOMAIN todo' PROVE Suits(todo'[k])
  BY <1>1 DEF TodoInv
<1>3. (\A k \in DOMAIN todo : Suits(todo[k]))'
  BY <1>2 DEF Suits
<1> QED
  BY <1>1, <1>3 DEF TodoInv, Command

LEMMA NamedById ==
    ASSUME NEW c \in Commands
    PROVE  /\ c.op = "node" => \A i \in DOMAIN c.recs : c.recs[i].id \in Ids
           /\ c.op = "put" => \A i \in DOMAIN c.recs : c.recs[i].id \in Ids
           /\ c.op = "index" => c.id \in Ids
           /\ c.op = "edges" => \A i \in DOMAIN c.edges : c.edges[i] \in EdgeType /\ c.edges[i].source \in Ids
           /\ c.op = "set" => c.edge \in EdgeType /\ c.edge.source \in Ids
<1>1. CASE c.op = "node" \/ c.op = "put"
  <2>1. c.recs \in Seq(Memory)
    BY <1>1, CommandCases
  <2>2. \A i \in DOMAIN c.recs : c.recs[i] \in Memory
    BY <2>1, PartsOfSeq
  <2> QED
    BY <1>1, <2>2 DEF Memory
<1>2. CASE c.op = "edges"
  <2>1. c.edges \in Seq(EdgeType)
    BY <1>2, CommandCases
  <2>2. \A i \in DOMAIN c.edges : c.edges[i] \in EdgeType
    BY <2>1, PartsOfSeq
  <2> QED
    BY <1>2, <2>2, EdgeParts
<1>3. CASE c.op = "set"
  <2>1. c.edge \in EdgeType
    BY <1>3, CommandCases
  <2> QED
    BY <1>3, <2>1, EdgeParts
<1>4. CASE c.op = "index"
  BY <1>4, CommandCases
<1> QED
  BY <1>1, <1>2, <1>3, <1>4

\* Memories that are stored stay so, and those to be put are when they are.
MemoriesStay ==
    /\ \A m \in Ids : memories[m] # Absent => memories'[m] # Absent
    /\ Command.op = "put" => \A i \in DOMAIN Command.recs : memories'[Command.recs[i].id] # Absent

LEMMA NamesCarryOver ==
    ASSUME TodoInv, TracesInv, todo # <<>>, todo' = Tail(todo), MemoriesStay
    PROVE  /\ PutsFirst(todo')
           /\ (\A k \in DOMAIN todo : SpeaksOfNamed(todo[k]))'
           /\ SpeaksOfNamed(Command)
           /\ Command.op # "put" => \A m : Named(m) => memories[m] # Absent
<1>1. /\ todo \in Seq(Commands) /\ Command = Head(todo)
      /\ PutsFirst(todo) /\ \A k \in DOMAIN todo : SpeaksOfNamed(todo[k])
  BY DEF TodoInv, TracesInv, Command
<1>2. /\ Command = todo[1] /\ 1 \in DOMAIN todo /\ todo' \in Seq(Commands)
      /\ \A k \in DOMAIN todo' : k + 1 \in DOMAIN todo /\ todo'[k] = todo[k + 1] /\ todo'[k] \in Commands
  <2>1. /\ Command = todo[1] /\ 1 \in DOMAIN todo /\ todo' \in Seq(Commands)
        /\ \A k \in DOMAIN todo' : k + 1 \in DOMAIN todo /\ todo'[k] = todo[k + 1]
    BY <1>1, TailPlaces
  <2> QED
    BY <2>1, PartsOfSeq
<1>3. /\ \A m : IsPut(todo, m) =>
            \/ Command.op = "put" /\ \E i \in DOMAIN Command.recs : Command.recs[i].id = m
            \/ IsPut(todo', m)
      /\ PutsFirst(todo')
      /\ Command.op # "put" => \A m : ~IsPut(todo, m)
  BY <1>1, HeadOrRest
<1>4. ASSUME NEW m \in Ids, Named(m) PROVE memories'[m] # Absent \/ IsPut(todo', m)
  BY <1>3, <1>4 DEF Named, MemoriesStay
<1>5. ASSUME NEW k \in DOMAIN todo' PROVE SpeaksOfNamed(todo[k])'
  <2>1. PICK c : c = todo'[k]
    OBVIOUS
  <2>2. c \in Commands /\ SpeaksOfNamed(c)
    BY <1>1, <1>2, <2>1
  <2>3. /\ c.op = "node" => \A i \in DOMAIN c.recs : memories'[c.recs[i].id] # Absent \/ IsPut(todo', c.recs[i].id)
        /\ c.op = "index" => memories'[c.id] # Absent \/ IsPut(todo', c.id)
        /\ c.op = "edges" => \A i \in DOMAIN c.edges :
                memories'[c.edges[i].source] # Absent \/ IsPut(todo', c.edges[i].source)
        /\ c.op = "set" => memories'[c.edge.source] # Absent \/ IsPut(todo', c.edge.source)
    BY <1>4, <2>2, NamedById DEF SpeaksOfNamed
  <2> QED
    BY <2>1, <2>3 DEF SpeaksOfNamed, Named
<1>6. Command.op # "put" => \A m : Named(m) => memories[m] # Absent
  BY <1>3 DEF Named
<1> QED
  BY <1>1, <1>2, <1>3, <1>5, <1>6

LEMMA FollowsOn ==
    ASSUME TodoInv, LinksInv, todo # <<>>, todo' = Tail(todo)
    PROVE  /\ (\A k \in DOMAIN todo : Follows(todo, k))'
           /\ Command.op = "set" => AtLink' /\ Command' = AddLink("source", Command.edge)
           /\ Command.op = "link" /\ Command.end = "source" =>
                 AtLink' /\ Command' = AddLink("target", Command.edge)
           /\ AtLink' =>
                 Command = IF Command'.end = "source" THEN SetEdge(Command'.edge)
                           ELSE AddLink("source", Command'.edge)
<1>1. todo \in Seq(Commands) /\ \A k \in DOMAIN todo : Follows(todo, k)
  BY DEF TodoInv, LinksInv
<1>2. /\ \A k \in DOMAIN todo' : Follows(todo', k)
      /\ Command.op = "set" => todo' # <<>> /\ Command' = AddLink("source", Command.edge)
      /\ Command.op = "link" /\ Command.end = "source" =>
            todo' # <<>> /\ Command' = AddLink("target", Command.edge)
      /\ todo' # <<>> /\ Command'.op = "link" =>
            Command = IF Command'.end = "source" THEN SetEdge(Command'.edge)
                      ELSE AddLink("source", Command'.edge)
  BY <1>1, NextFollows DEF Command
<1>3. \A end, e : AddLink(end, e).op = "link"
  BY DEF AddLink
<1>4. (\A k \in DOMAIN todo : Follows(todo, k))'
  BY <1>2 DEF Follows
<1> QED
  BY <1>2, <1>3, <1>4 DEF AtLink

\* A command that is not of Redis leaves the links alone.
LEMMA LinksCarryOver ==
    ASSUME TodoInv, LinksInv, todo # <<>>, todo' = Tail(todo), deployment' = deployment,
           links' = links, cut' = cut, deployment.graph = "redis" => edges' = edges,
           Command.op \notin {"set", "link"}
    PROVE  LinksInv'
<1>1. /\ (\A k \in DOMAIN todo : Follows(todo, k))'
      /\ AtLink' => Command = IF Command'.end = "source" THEN SetEdge(Command'.edge)
                              ELSE AddLink("source", Command'.edge)
  BY FollowsOn
<1>2. (\A e : SetEdge(e).op = "set") /\ (\A end, e : AddLink(end, e).op = "link")
  BY DEF SetEdge, AddLink
<1>3. ~AtLink /\ ~AtLink'
  <2>1. ~AtLink
    BY DEF AtLink
  <2>2. ASSUME AtLink' PROVE FALSE
    <3>1. Command.op \in {"set", "link"}
      BY <1>1, <1>2, <2>2
    <3> QED
      BY <3>1
  <2> QED
    BY <2>1, <2>2
<1>4. (deployment.graph = "redis" =>
           \A row \in edges : \/ IsLinked(row) \/ row.id \in cut
                              \/ AtLink /\ Command.edge = row.payload)'
  BY <1>3 DEF LinksInv, IsLinked
<1> QED
  BY <1>1, <1>3, <1>4 DEF LinksInv

LEMMA SameLinks ==
    ASSUME NEW d \in EdgeType, NEW e \in EdgeType, IdOf(d) = IdOf(e), NEW end \in Ends
    PROVE  Link(end, d) = Link(end, e)
BY EdgeParts DEF Link, EndOf

LEMMA SetKeepsLinks ==
    ASSUME TablesInv, TodoInv, LinksInv, SetRedisEdge
    PROVE  LinksInv'
<1>1. /\ todo # <<>> /\ todo' = Tail(todo) /\ Command.op = "set" /\ deployment' = deployment
      /\ edges' = WithEdge(edges, Command.edge) /\ links' = links /\ cut' = cut
  BY DEF SetRedisEdge, Next1, Command, StillAtIt
<1>2. Command \in Commands
  BY <1>1, QueueIsTyped
<1>3. Command.edge \in EdgeType
  BY <1>1, <1>2, CommandCases
<1>4. /\ (\A k \in DOMAIN todo : Follows(todo, k))'
      /\ AtLink' /\ Command' = AddLink("source", Command.edge)
  BY <1>1, FollowsOn
<1>5. Command'.end = "source" /\ Command'.edge = Command.edge
  BY <1>4 DEF AddLink
<1>6. edges' = {r \in edges : r.id # IdOf(Command.edge)} \cup {StoredEdge(Command.edge)}
  BY <1>1, <1>3, EdgeIsWritten DEF TablesInv
<1>7. ASSUME deployment.graph = "redis", NEW row \in edges'
      PROVE  (IsLinked(row))' \/ row.id \in cut' \/ (AtLink' /\ Command'.edge = row.payload)
  <2>1. CASE row = StoredEdge(Command.edge)
    BY <1>3, <1>4, <1>5, <2>1, EdgeParts
  <2>2. CASE row \in edges
    <3>1. ~AtLink
      BY <1>1 DEF AtLink
    <3>2. IsLinked(row) \/ row.id \in cut
      BY <1>7, <2>2, <3>1 DEF LinksInv
    <3> QED
      BY <1>1, <3>2 DEF IsLinked
  <2> QED
    BY <1>6, <2>1, <2>2
<1> QED
  BY <1>1, <1>4, <1>5, <1>7 DEF LinksInv

LEMMA LinkingKeepsLinks ==
    ASSUME TablesInv, TodoInv, LinksInv, AddRedisLink
    PROVE  LinksInv'
<1> DEFINE e == Command.edge
           end == Command.end
<1>1. /\ todo # <<>> /\ todo' = Tail(todo) /\ Command.op = "link" /\ deployment' = deployment
      /\ links' = links \cup {Link(end, e)} /\ edges' = edges
      /\ cut' = IF end = "target" THEN cut \ {IdOf(e)} ELSE cut
  BY DEF AddRedisLink, Next1, Command, StillAtIt
<1>2. Command \in Commands
  BY <1>1, QueueIsTyped
<1>3. e \in EdgeType /\ end \in Ends
  BY <1>1, <1>2, CommandCases
<1>4. /\ (\A k \in DOMAIN todo : Follows(todo, k))'
      /\ end = "source" => AtLink' /\ Command' = AddLink("target", e)
      /\ AtLink' => Command = IF Command'.end = "source" THEN SetEdge(Command'.edge)
                              ELSE AddLink("source", Command'.edge)
  BY <1>1, FollowsOn
<1>5. AtLink
  BY <1>1 DEF AtLink
<1>6. ASSUME deployment.graph = "redis", NEW row \in edges
      PROVE  /\ IsLinked(row) \/ row.id \in cut \/ e = row.payload
             /\ row.payload \in EdgeType /\ row.id = IdOf(row.payload)
  BY <1>6, RowParts DEF LinksInv, TablesInv
<1>7. CASE end = "source"
  <2>1. Command'.edge = e /\ Command'.end = "target" /\ AtLink'
    BY <1>4, <1>7 DEF AddLink
  <2>2. Link("source", Command'.edge) \in links'
    BY <1>1, <1>7, <2>1
  <2>3. ASSUME deployment.graph = "redis", NEW row \in edges'
        PROVE  (IsLinked(row))' \/ row.id \in cut' \/ (AtLink' /\ Command'.edge = row.payload)
    <3>1. IsLinked(row) \/ row.id \in cut \/ e = row.payload
      BY <1>1, <1>6, <2>3
    <3>2. cut' = cut /\ links \subseteq links'
      BY <1>1, <1>7
    <3> QED
      BY <2>1, <3>1, <3>2 DEF IsLinked
  <2>4. (Link("source", Command.edge) \in links)'
    BY <2>2 DEF Link, EndOf, IdOf, EdgeId
  <2> QED
    BY <1>1, <1>4, <2>3, <2>4 DEF LinksInv
<1>8. CASE end = "target"
  <2>1. ~AtLink'
    <3>1. SUFFICES ASSUME AtLink' PROVE FALSE
      OBVIOUS
    <3>2. Command = SetEdge(Command'.edge) \/ Command = AddLink("source", Command'.edge)
      BY <1>4, <3>1
    <3>3. /\ SetEdge(Command'.edge).op = "set"
          /\ AddLink("source", Command'.edge).end = "source"
      BY DEF SetEdge, AddLink
    <3> QED
      BY <1>1, <1>8, <3>2, <3>3
  <2>2. Link("source", e) \in links' /\ Link("target", e) \in links' /\ links \subseteq links'
    BY <1>1, <1>5, <1>8 DEF LinksInv
  <2>3. ASSUME deployment.graph = "redis", NEW row \in edges'
        PROVE  (IsLinked(row))' \/ row.id \in cut'
    <3>1. /\ IsLinked(row) \/ row.id \in cut \/ e = row.payload
          /\ row.payload \in EdgeType /\ row.id = IdOf(row.payload)
      BY <1>1, <1>6, <2>3
    <3>2. CASE row.id = IdOf(e)
      <4>1. \A end1 \in Ends : Link(end1, row.payload) = Link(end1, e)
        BY <1>3, <3>1, <3>2, SameLinks
      <4>2. \A end1 \in Ends : Link(end1, row.payload) \in links'
        BY <2>2, <4>1 DEF Ends
      <4> QED
        BY <4>2 DEF IsLinked, Link, EndOf, IdOf, EdgeId
    <3>3. CASE row.id # IdOf(e)
      <4>1. IsLinked(row) \/ row.id \in cut
        BY <3>1, <3>3
      <4>2. row.id \in cut => row.id \in cut'
        BY <1>1, <1>8, <3>3
      <4> QED
        BY <2>2, <4>1, <4>2 DEF IsLinked
    <3> QED
      BY <3>2, <3>3
  <2> QED
    BY <1>1, <1>4, <2>1, <2>3 DEF LinksInv
<1> QED
  BY <1>3, <1>7, <1>8 DEF Ends

\* What a command of an ingestion delivers, and what it leaves as delivered.
MemoriesDelivered ==
    \A m \in Ids : \A t :
       /\ Leaves(Command, "put", m, t) => Holds(memories'[m], t)
       /\ ~Names(Command, "put", m) /\ (m \in stale \/ Holds(memories[m], t)) =>
             m \in stale' \/ Holds(memories'[m], t)
NodesDelivered ==
    \A m \in Ids : \A t :
       /\ Leaves(Command, "node", m, t) => Holds(LoadOptionalPayload(nodes'[m]), t)
       /\ ~Names(Command, "node", m) /\ Holds(LoadOptionalPayload(nodes[m]), t) =>
             Holds(LoadOptionalPayload(nodes'[m]), t)
IndexesDelivered ==
    \A idx \in Indexes : \A m \in Ids : \A t :
       /\ Leaves(Command, idx, m, t) => indexes'[idx][m] = t
       /\ ~Names(Command, idx, m) => indexes'[idx][m] = indexes[idx][m]
EdgesDelivered ==
    \A e \in EdgeType : ~e.archived =>
       (StoredEdge(e) \in edges \/ WritesEdge(Command, e) => StoredEdge(e) \in edges')

LEMMA DeliveryCarriesOver ==
    ASSUME TodoInv, CallsInv, DeliveryInv, todo # <<>>, todo' = Tail(todo),
           deployment' = deployment, batch' = batch, returned' = returned,
           batch # NoBatch /\ Ingests(Command) =>
              MemoriesDelivered /\ NodesDelivered /\ IndexesDelivered /\ EdgesDelivered
    PROVE  DeliveryInv'
<1>1. returned = NoBatch /\ returned' = NoBatch /\ batch' = batch
  BY DEF DeliveryInv
<1>2. /\ todo \in Seq(Commands) /\ Command = todo[1] /\ 1 \in DOMAIN todo
      /\ \A k \in DOMAIN todo' : k + 1 \in DOMAIN todo /\ todo'[k] = todo[k + 1]
  BY TailPlaces DEF TodoInv, Command
<1>3. CASE batch = NoBatch
  BY <1>1, <1>3 DEF DeliveryInv, NoBatch
<1>4. CASE batch # NoBatch
  <2>1. Arrives(batch) /\ \A k \in DOMAIN todo : Ingests(todo[k])
    BY <1>4 DEF DeliveryInv
  <2>2. MemoriesDelivered /\ NodesDelivered /\ IndexesDelivered /\ EdgesDelivered
    BY <1>2, <1>4, <2>1
  <2>3. (\A k \in DOMAIN todo : Ingests(todo[k]))'
    <3>1. ASSUME NEW k \in DOMAIN todo' PROVE Ingests(todo'[k])
      BY <1>2, <2>1
    <3> QED
      BY <3>1 DEF Ingests, SharesMemoryStore
  <2>4. /\ \A table, m, t : Due(todo, table, m, t) =>
              Due(todo', table, m, t) \/ (Leaves(Command, table, m, t) /\ Past(todo', table, m))
        /\ \A table, m : Past(todo, table, m) => ~Names(Command, table, m) /\ Past(todo', table, m)
        /\ \A e : IsWritten(todo, e) => WritesEdge(Command, e) \/ IsWritten(todo', e)
    BY <1>2, HeadOrRest DEF Command
  <2>5. PICK b : b = batch
    OBVIOUS
  <2>6. /\ b \in BatchType /\ Arrives(b)
        /\ \A i \in DOMAIN b.memories : b.memories[i].id \in Ids
        /\ \A i \in DOMAIN b.edges : b.edges[i] \in EdgeType
    <3>1. b \in BatchType /\ Arrives(b)
      BY <2>1, <2>5 DEF CallsInv
    <3>2. b.memories \in Seq(Memory) /\ b.edges \in Seq(EdgeType)
      BY <3>1 DEF BatchType
    <3>3. /\ \A i \in DOMAIN b.memories : b.memories[i] \in Memory
          /\ \A i \in DOMAIN b.edges : b.edges[i] \in EdgeType
      BY <3>2, PartsOfSeq
    <3> QED
      BY <3>1, <3>3 DEF Memory
  <2>7. ASSUME NEW m \in Ids, NEW t, MemoryArrives(m, t) PROVE MemoryArrives(m, t)'
    <3>1. Due(todo', "put", m, t) \/ (Past(todo', "put", m) /\ (m \in stale' \/ Holds(memories'[m], t)))
      BY <2>2, <2>4, <2>7 DEF MemoryArrives, MemoriesDelivered
    <3> QED
      BY <3>1 DEF MemoryArrives
  <2>8. ASSUME NEW m \in Ids, NEW t, NodeArrives(m, t) PROVE NodeArrives(m, t)'
    <3>1. \/ SharesMemoryStore \/ Due(todo', "node", m, t)
          \/ Past(todo', "node", m) /\ Holds(LoadOptionalPayload(nodes'[m]), t)
      BY <2>2, <2>4, <2>8 DEF NodeArrives, NodesDelivered
    <3> QED
      BY <3>1 DEF NodeArrives, SharesMemoryStore
  <2>9. ASSUME NEW idx \in Indexes, NEW m \in Ids, NEW t, IndexArrives(idx, m, t)
        PROVE  IndexArrives(idx, m, t)'
    <3>1. Due(todo', idx, m, t) \/ (Past(todo', idx, m) /\ indexes'[idx][m] = t)
      BY <2>2, <2>4, <2>9 DEF IndexArrives, IndexesDelivered
    <3> QED
      BY <3>1 DEF IndexArrives
  <2>10. ASSUME NEW e \in EdgeType, ~e.archived, EdgeArrives(e) PROVE EdgeArrives(e)'
    <3>1. StoredEdge(e) \in edges' \/ IsWritten(todo', e)
      BY <2>2, <2>4, <2>10 DEF EdgeArrives, EdgesDelivered
    <3> QED
      BY <3>1 DEF EdgeArrives
  <2>11. ASSUME NEW i \in LastOf(b.memories) PROVE RecordArrives(b.memories[i])'
    <3>1. RecordArrives(b.memories[i]) /\ b.memories[i].id \in Ids
      BY <2>6 DEF Arrives, LastOf
    <3>2. "vector" \in Indexes /\ "representation" \in Indexes
      BY DEF Indexes
    <3> QED
      BY <2>7, <2>8, <2>9, <3>1, <3>2 DEF RecordArrives
  <2>12. \A i \in DOMAIN b.edges : ~b.edges[i].archived /\ EdgeArrives(b.edges[i])'
    BY <2>6, <2>10 DEF Arrives
  <2>13. Arrives(b)'
    BY <2>11, <2>12 DEF Arrives
  <2>14. Arrives(batch)'
    BY <1>1, <2>5, <2>13
  <2> QED
    BY <1>1, <2>3, <2>14 DEF DeliveryInv, NoBatch
<1> QED
  BY <1>3, <1>4

-----------------------------------------------------------------------------
(***************************************************************************)
(* The actions of the queue.                                               *)
(***************************************************************************)
LEMMA RowsHaveSources ==
    ASSUME TablesInv, NEW row \in edges
    PROVE  row.payload \in EdgeType /\ row.payload.source \in Ids
BY RowParts, EdgeParts DEF TablesInv

LEMMA LastTextStays ==
    ASSUME NEW table, NEW recs \in Seq(Memory), NEW m \in Ids, NEW t, LeavesText(recs, m, t)
    PROVE  Holds(WithRecords(table, recs)[m], t)
<1>1. PICK i \in DOMAIN recs : /\ recs[i].id = m /\ recs[i].text = t
                               /\ \A j \in DOMAIN recs : recs[j].id = m => j <= i
  BY DEF LeavesText
<1>2. PICK j \in DOMAIN recs : /\ recs[j].id = m /\ WithRecords(table, recs)[m] = recs[j]
                               /\ \A k \in DOMAIN recs : recs[k].id = m => k <= j
  BY <1>1, RecordsAt
<1>3. DOMAIN recs = 1..Len(recs) /\ Len(recs) \in Nat /\ recs[j] \in Memory
  BY PartsOfSeq
<1>4. i = j
  BY <1>1, <1>2, <1>3
<1> QED
  BY <1>1, <1>2, <1>3, <1>4, MarksAreNoMemories DEF Holds

LEMMA PutKeepsInv ==
    ASSUME LibraryInv, Put PROVE LibraryInv'
<1> DEFINE recs == Command.recs
<1>1. /\ todo # <<>> /\ todo' = Tail(todo) /\ Command.op = "put"
      /\ memories' = WithRecords(memories, recs)
      /\ stale' = stale \ {recs[i].id : i \in DOMAIN recs}
      /\ UNCHANGED <<deployment, nodes, edges, links, indexes, cut, batch, returned, reply, retrievals>>
  BY DEF Put, Next1, Command, StillAtIt, counts, IdsIn
<1>2. /\ TablesInv /\ CallsInv /\ TodoInv /\ TracesInv /\ LinksInv /\ DeliveryInv
  BY DEF LibraryInv
<1>3. TodoInv' /\ Command \in Commands
  BY <1>1, <1>2, QueueIsTyped
<1>4. recs \in Seq(Memory) /\ \A i \in DOMAIN recs : recs[i].id \in Ids /\ recs[i] \in Memory
  <2>1. recs \in Seq(Memory)
    BY <1>1, <1>3, CommandCases
  <2> QED
    BY <1>1, <1>3, <2>1, NamedById, PartsOfSeq
<1> HIDE DEF recs
<1>5. /\ memories' \in [Ids -> Memory \cup {Absent}]
      /\ \A m \in Ids : memories'[m] = memories[m] \/ (memories'[m] \in Memory /\ memories'[m].id = m)
  <2> DEFINE V == Memory \cup {Absent}
  <2>1. memories \in [Ids -> V] /\ Memory \subseteq V
    BY <1>2 DEF TablesInv
  <2> HIDE DEF V
  <2>2. /\ WithRecords(memories, recs) \in [Ids -> V]
        /\ \A m \in Ids : \/ WithRecords(memories, recs)[m] = memories[m]
                         \/ /\ WithRecords(memories, recs)[m] \in Memory
                            /\ WithRecords(memories, recs)[m].id = m
    BY <1>4, <2>1, RecordsAreTyped, ZenonT(40)
  <2> QED
    BY <1>1, <2>2 DEF V
<1>6. TablesInv'
  BY <1>1, <1>2, <1>5 DEF TablesInv, SharesMemoryStore
<1>7. CallsInv'
  BY <1>1, <1>2 DEF CallsInv
<1>8. ASSUME NEW m \in Ids
      PROVE  /\ (\A i \in DOMAIN recs : recs[i].id # m) => memories'[m] = memories[m]
             /\ (\E i \in DOMAIN recs : recs[i].id = m) =>
                   \E i \in DOMAIN recs : /\ recs[i].id = m
                                         /\ \A j \in DOMAIN recs : recs[j].id = m => j <= i
                                         /\ memories'[m] = recs[i]
  BY <1>1, <1>4, RecordsAt
<1>9. MemoriesStay
  <2>1. ASSUME NEW i \in DOMAIN recs PROVE memories'[recs[i].id] # Absent
    BY <1>4, <1>8, MarksAreNoMemories
  <2>2. ASSUME NEW m \in Ids, memories[m] # Absent PROVE memories'[m] # Absent
    BY <1>5, <2>2, MarksAreNoMemories
  <2> QED
    BY <2>1, <2>2 DEF MemoriesStay, recs
<1>10. TracesInv'
  <2>1. /\ \A idx \in Indexes, m \in Ids : indexes'[idx][m] # Absent => memories'[m] # Absent
        /\ \A m \in Ids : nodes'[m] \notin {Absent, Placeholder} => memories'[m] # Absent
    BY <1>1, <1>2, <1>9 DEF TracesInv, MemoriesStay
  <2>2. \A row \in edges' : memories'[row.payload.source] # Absent
    BY <1>1, <1>2, <1>9, RowsHaveSources DEF TracesInv, MemoriesStay
  <2> QED
    BY <1>1, <1>2, <1>9, <2>1, <2>2, NamesCarryOver DEF TracesInv
<1>11. LinksInv'
  BY <1>1, <1>2, LinksCarryOver
<1>12. MemoriesDelivered
  <2>1. ASSUME NEW m \in Ids, NEW t, Leaves(Command, "put", m, t)
        PROVE  Holds(memories'[m], t)
    <3>1. LeavesText(recs, m, t)
      BY <1>1, <2>1 DEF Leaves, recs
    <3> QED
      BY <1>1, <1>4, <3>1, LastTextStays
  <2>2. ASSUME NEW m \in Ids, NEW t, ~Names(Command, "put", m), m \in stale \/ Holds(memories[m], t)
        PROVE  m \in stale' \/ Holds(memories'[m], t)
    <3>1. \A i \in DOMAIN recs : recs[i].id # m
      BY <1>1, <2>2 DEF Names, recs
    <3> QED
      BY <1>1, <1>8, <2>2, <3>1
  <2> QED
    BY <2>1, <2>2 DEF MemoriesDelivered
<1>13. NodesDelivered
  BY <1>1 DEF NodesDelivered, Leaves
<1>14. IndexesDelivered
  BY <1>1 DEF IndexesDelivered, Leaves, Indexes
<1>15. EdgesDelivered
  BY <1>1 DEF EdgesDelivered, WritesEdge
<1>16. DeliveryInv'
  BY <1>1, <1>2, <1>12, <1>13, <1>14, <1>15, DeliveryCarriesOver
<1> QED
  BY <1>3, <1>6, <1>7, <1>10, <1>11, <1>16 DEF LibraryInv

LEMMA NodeKeepsInv ==
    ASSUME LibraryInv, UpsertNode PROVE LibraryInv'
<1> DEFINE recs == Command.recs
<1>1. /\ todo # <<>> /\ todo' = Tail(todo) /\ Command.op = "node"
      /\ SharesMemoryStore => memories' = WithRecords(memories, recs) /\ nodes' = nodes
      /\ ~SharesMemoryStore => nodes' = WithRecords(nodes, recs) /\ memories' = memories
      /\ UNCHANGED <<deployment, edges, links, indexes, cut, stale, batch, returned, reply, retrievals>>
  BY DEF UpsertNode, Next1, Command, StillAtIt, counts
<1>2. /\ TablesInv /\ CallsInv /\ TodoInv /\ TracesInv /\ LinksInv /\ DeliveryInv
  BY DEF LibraryInv
<1>3. TodoInv' /\ Command \in Commands
  BY <1>1, <1>2, QueueIsTyped
<1>4. recs \in Seq(Memory) /\ \A i \in DOMAIN recs : recs[i].id \in Ids /\ recs[i] \in Memory
  <2>1. recs \in Seq(Memory)
    BY <1>1, <1>3, CommandCases
  <2> QED
    BY <1>1, <1>3, <2>1, NamedById, PartsOfSeq
<1> HIDE DEF recs
<1>5. /\ memories' \in [Ids -> Memory \cup {Absent}]
      /\ \A m \in Ids : memories'[m] = memories[m] \/ (memories'[m] \in Memory /\ memories'[m].id = m)
  <2> DEFINE V == Memory \cup {Absent}
  <2>1. memories \in [Ids -> V] /\ Memory \subseteq V
    BY <1>2 DEF TablesInv
  <2> HIDE DEF V
  <2>2. /\ WithRecords(memories, recs) \in [Ids -> V]
        /\ \A m \in Ids : \/ WithRecords(memories, recs)[m] = memories[m]
                         \/ /\ WithRecords(memories, recs)[m] \in Memory
                            /\ WithRecords(memories, recs)[m].id = m
    BY <1>4, <2>1, RecordsAreTyped, ZenonT(40)
  <2>3. memories' \in [Ids -> V] /\ \A m \in Ids : memories'[m] = memories[m] \/ (memories'[m] \in Memory /\ memories'[m].id = m)
    BY <1>1, <2>1, <2>2
  <2> QED
    BY <2>3 DEF V
<1>6. /\ nodes' \in [Ids -> Memory \cup {Absent, Placeholder}]
      /\ \A m \in Ids : nodes'[m] = nodes[m] \/ (nodes'[m] \in Memory /\ nodes'[m].id = m)
  <2> DEFINE V == Memory \cup {Absent, Placeholder}
  <2>1. nodes \in [Ids -> V] /\ Memory \subseteq V
    BY <1>2 DEF TablesInv
  <2> HIDE DEF V
  <2>2. /\ WithRecords(nodes, recs) \in [Ids -> V]
        /\ \A m \in Ids : \/ WithRecords(nodes, recs)[m] = nodes[m]
                         \/ /\ WithRecords(nodes, recs)[m] \in Memory
                            /\ WithRecords(nodes, recs)[m].id = m
    BY <1>4, <2>1, RecordsAreTyped, ZenonT(40)
  <2>3. nodes' \in [Ids -> V] /\ \A m \in Ids : nodes'[m] = nodes[m] \/ (nodes'[m] \in Memory /\ nodes'[m].id = m)
    BY <1>1, <2>1, <2>2
  <2> QED
    BY <2>3 DEF V
<1>7. TablesInv'
  <2>1. (SharesMemoryStore => nodes = [m \in Ids |-> Absent])'
    BY <1>1, <1>2 DEF TablesInv, SharesMemoryStore
  <2>2. /\ \A m \in Ids : memories'[m] # Absent => memories'[m].id = m
        /\ \A m \in Ids : nodes'[m] \notin {Absent, Placeholder} => nodes'[m].id = m
    BY <1>2, <1>5, <1>6 DEF TablesInv
  <2> QED
    BY <1>1, <1>2, <1>5, <1>6, <2>1, <2>2 DEF TablesInv
<1>8. CallsInv'
  BY <1>1, <1>2 DEF CallsInv
<1>9. MemoriesStay
  <2>1. ASSUME NEW m \in Ids, memories[m] # Absent PROVE memories'[m] # Absent
    BY <1>5, <2>1, MarksAreNoMemories
  <2> QED
    BY <1>1, <2>1 DEF MemoriesStay
<1>10. \A i \in DOMAIN recs : memories[recs[i].id] # Absent
  <2>1. SpeaksOfNamed(Command) /\ \A m : Named(m) => memories[m] # Absent
    BY <1>1, <1>2, <1>9, NamesCarryOver
  <2> QED
    BY <1>1, <2>1 DEF SpeaksOfNamed, recs
<1>11. ASSUME NEW m \in Ids, nodes'[m] \notin {Absent, Placeholder} PROVE memories'[m] # Absent
  <2>1. CASE nodes'[m] = nodes[m]
    BY <1>2, <1>9, <1>11, <2>1 DEF TracesInv, MemoriesStay
  <2>2. CASE nodes'[m] # nodes[m]
    <3>1. ~SharesMemoryStore /\ nodes' = WithRecords(nodes, recs)
      BY <1>1, <2>2
    <3>2. \E i \in DOMAIN recs : recs[i].id = m
      BY <1>4, <2>2, <3>1, RecordsAt
    <3> QED
      BY <1>9, <1>10, <1>11, <3>2 DEF MemoriesStay
  <2> QED
    BY <2>1, <2>2
<1>12. TracesInv'
  <2>1. \A idx \in Indexes, m \in Ids : indexes'[idx][m] # Absent => memories'[m] # Absent
    BY <1>1, <1>2, <1>9 DEF TracesInv, MemoriesStay
  <2>2. \A row \in edges' : memories'[row.payload.source] # Absent
    BY <1>1, <1>2, <1>9, RowsHaveSources DEF TracesInv, MemoriesStay
  <2> QED
    BY <1>1, <1>2, <1>9, <1>11, <2>1, <2>2, NamesCarryOver DEF TracesInv
<1>13. LinksInv'
  BY <1>1, <1>2, LinksCarryOver
<1>14. ASSUME Ingests(Command)
       PROVE  MemoriesDelivered /\ NodesDelivered /\ IndexesDelivered /\ EdgesDelivered
  <2>1. nodes' = WithRecords(nodes, recs) /\ memories' = memories
    BY <1>1, <1>14 DEF Ingests
  <2>2. ASSUME NEW m \in Ids, NEW t, Leaves(Command, "node", m, t)
        PROVE  Holds(LoadOptionalPayload(nodes'[m]), t)
    <3>1. LeavesText(recs, m, t)
      BY <1>1, <2>2 DEF Leaves, recs
    <3>2. Holds(nodes'[m], t)
      BY <1>4, <2>1, <3>1, LastTextStays
    <3>3. \E i \in DOMAIN recs : recs[i].id = m
      BY <3>1 DEF LeavesText
    <3>4. nodes'[m] \in Memory
      BY <1>4, <2>1, <3>3, RecordsAt
    <3> QED
      BY <3>2, <3>4, MarksAreNoMemories DEF LoadOptionalPayload
  <2>3. ASSUME NEW m \in Ids, ~Names(Command, "node", m) PROVE nodes'[m] = nodes[m]
    <3>1. \A i \in DOMAIN recs : recs[i].id # m
      BY <1>1, <2>3 DEF Names, recs
    <3> QED
      BY <1>4, <2>1, <3>1, RecordsAt
  <2>4. NodesDelivered
    BY <2>2, <2>3 DEF NodesDelivered
  <2>5. MemoriesDelivered /\ IndexesDelivered /\ EdgesDelivered
    BY <1>1, <2>1 DEF MemoriesDelivered, IndexesDelivered, EdgesDelivered, Leaves, Indexes, WritesEdge
  <2> QED
    BY <2>4, <2>5
<1>15. DeliveryInv'
  BY <1>1, <1>2, <1>14, DeliveryCarriesOver
<1> QED
  BY <1>3, <1>7, <1>8, <1>12, <1>13, <1>15 DEF LibraryInv

\* Only a graph store of a kind of its own has nodes.
LEMMA OwnNodes ==
    ASSUME TablesInv, deployment.graph \in {"cypher", "arangodb"}
    PROVE  ~SharesMemoryStore
<1>1. deployment.memory \in MemoryKinds
  BY DeploymentsAreKnown DEF TablesInv, DeploymentType
<1> QED
  BY <1>1 DEF SharesMemoryStore, MemoryKinds, Relational, Transactional

\* Placeholders add no memory to the graph, and replace none.
PlaceholdersOnly ==
    /\ nodes' \in [Ids -> Memory \cup {Absent, Placeholder}]
    /\ \A m \in Ids : nodes'[m] = nodes[m] \/ (nodes[m] = Absent /\ nodes'[m] = Placeholder)
    /\ SharesMemoryStore => nodes' = nodes

LEMMA PlaceholdersOnlyKeep ==
    ASSUME TablesInv, PlaceholdersOnly
    PROVE  /\ \A m \in Ids : nodes'[m] \notin {Absent, Placeholder} => nodes'[m] = nodes[m]
           /\ \A m \in Ids : \A t : Holds(LoadOptionalPayload(nodes[m]), t) =>
                 Holds(LoadOptionalPayload(nodes'[m]), t)
BY DEF PlaceholdersOnly, Holds, LoadOptionalPayload

LEMMA PlaceholderKeepsInv ==
    ASSUME LibraryInv, InsertPlaceholder PROVE LibraryInv'
<1>1. /\ todo # <<>> /\ todo' = Tail(todo) /\ Command.op = "placeholder"
      /\ nodes' = WithPlaceholder(nodes, Command.id)
      /\ UNCHANGED <<deployment, memories, edges, links, indexes, cut, stale, batch, returned, reply, retrievals>>
  BY DEF InsertPlaceholder, Next1, Command, StillAtIt, counts
<1>2. /\ TablesInv /\ CallsInv /\ TodoInv /\ TracesInv /\ LinksInv /\ DeliveryInv
  BY DEF LibraryInv
<1>3. TodoInv' /\ Command \in Commands /\ Suits(Command)
  BY <1>1, <1>2, QueueIsTyped
<1>4. ~SharesMemoryStore
  BY <1>1, <1>2, <1>3, OwnNodes DEF Suits
<1>5. PlaceholdersOnly
  <2>1. nodes \in [Ids -> Memory \cup {Absent, Placeholder}]
    BY <1>2 DEF TablesInv
  <2> QED
    BY <1>1, <1>4, <2>1, PlaceholderAt DEF PlaceholdersOnly
<1>6. \A m \in Ids : nodes'[m] \notin {Absent, Placeholder} => nodes'[m] = nodes[m]
  BY <1>2, <1>5, PlaceholdersOnlyKeep
<1>7. TablesInv'
  BY <1>1, <1>2, <1>4, <1>5, <1>6 DEF TablesInv, PlaceholdersOnly, SharesMemoryStore
<1>8. CallsInv'
  BY <1>1, <1>2 DEF CallsInv
<1>9. MemoriesStay
  BY <1>1 DEF MemoriesStay
<1>10. TracesInv'
  <2>1. /\ \A idx \in Indexes, m \in Ids : indexes'[idx][m] # Absent => memories'[m] # Absent
        /\ \A m \in Ids : nodes'[m] \notin {Absent, Placeholder} => memories'[m] # Absent
        /\ \A row \in edges' : memories'[row.payload.source] # Absent
    BY <1>1, <1>2, <1>6 DEF TracesInv
  <2> QED
    BY <1>1, <1>2, <1>9, <2>1, NamesCarryOver DEF TracesInv
<1>11. LinksInv'
  BY <1>1, <1>2, LinksCarryOver
<1>12. NodesDelivered
  BY <1>1, <1>2, <1>5, PlaceholdersOnlyKeep DEF NodesDelivered, Leaves
<1>13. MemoriesDelivered /\ IndexesDelivered /\ EdgesDelivered
  BY <1>1 DEF MemoriesDelivered, IndexesDelivered, EdgesDelivered, Leaves, WritesEdge
<1>14. DeliveryInv'
  BY <1>1, <1>2, <1>12, <1>13, DeliveryCarriesOver
<1> QED
  BY <1>3, <1>7, <1>8, <1>10, <1>11, <1>14 DEF LibraryInv

LEMMA IndexKeepsInv ==
    ASSUME LibraryInv, Index PROVE LibraryInv'
<1>1. /\ todo # <<>> /\ todo' = Tail(todo) /\ Command.op = "index"
      /\ indexes' = [indexes EXCEPT ![Command.index][Command.id] = Command.text]
      /\ UNCHANGED <<deployment, memories, nodes, edges, links, cut, stale, batch, returned, reply, retrievals>>
  BY DEF Index, Next1, Command, StillAtIt, counts
<1>2. /\ TablesInv /\ CallsInv /\ TodoInv /\ TracesInv /\ LinksInv /\ DeliveryInv
  BY DEF LibraryInv
<1>3. TodoInv' /\ Command \in Commands
  BY <1>1, <1>2, QueueIsTyped
<1>4. Command.index \in Indexes /\ Command.id \in Ids /\ Command.text \in Texts
  BY <1>1, <1>3, CommandCases
<1>5. /\ indexes' \in [Indexes -> [Ids -> Texts \cup {Absent}]]
      /\ indexes'[Command.index][Command.id] = Command.text
      /\ \A idx \in Indexes, m \in Ids :
            (idx = Command.index /\ m = Command.id) \/ indexes'[idx][m] = indexes[idx][m]
  BY <1>1, <1>2, <1>4 DEF TablesInv
<1>6. TablesInv'
  BY <1>1, <1>2, <1>5 DEF TablesInv, SharesMemoryStore
<1>7. CallsInv'
  BY <1>1, <1>2 DEF CallsInv
<1>8. MemoriesStay
  BY <1>1 DEF MemoriesStay
<1>9. memories[Command.id] # Absent
  <2>1. SpeaksOfNamed(Command) /\ \A m : Named(m) => memories[m] # Absent
    BY <1>1, <1>2, <1>8, NamesCarryOver
  <2> QED
    BY <1>1, <2>1 DEF SpeaksOfNamed
<1>10. TracesInv'
  <2>1. /\ \A idx \in Indexes, m \in Ids : indexes'[idx][m] # Absent => memories'[m] # Absent
        /\ \A m \in Ids : nodes'[m] \notin {Absent, Placeholder} => memories'[m] # Absent
        /\ \A row \in edges' : memories'[row.payload.source] # Absent
    BY <1>1, <1>2, <1>5, <1>9 DEF TracesInv
  <2> QED
    BY <1>1, <1>2, <1>8, <2>1, NamesCarryOver DEF TracesInv
<1>11. LinksInv'
  BY <1>1, <1>2, LinksCarryOver
<1>12. IndexesDelivered
  BY <1>1, <1>5 DEF IndexesDelivered, Leaves, Names
<1>13. MemoriesDelivered /\ NodesDelivered /\ EdgesDelivered
  <2>1. Command.index \notin {"put", "node"}
    BY <1>4 DEF Indexes
  <2> QED
    BY <1>1, <2>1 DEF MemoriesDelivered, NodesDelivered, EdgesDelivered, Leaves, WritesEdge
<1>14. DeliveryInv'
  BY <1>1, <1>2, <1>12, <1>13, DeliveryCarriesOver
<1> QED
  BY <1>3, <1>6, <1>7, <1>10, <1>11, <1>14 DEF LibraryInv

LEMMA RowsKeepInv ==
    ASSUME LibraryInv, UpsertEdges PROVE LibraryInv'
<1> DEFINE es == Command.edges
<1>1. /\ todo # <<>> /\ todo' = Tail(todo) /\ Command.op = "edges"
      /\ edges' = WithEdges(edges, es)
      /\ nodes' = IF deployment.graph = "cypher"
                  THEN WithPlaceholder(WithPlaceholder(nodes, es[1].source), es[1].target)
                  ELSE nodes
      /\ UNCHANGED <<deployment, memories, links, indexes, cut, stale, batch, returned, reply, retrievals>>
  BY DEF UpsertEdges, Next1, Command, StillAtIt, counts
<1>2. /\ TablesInv /\ CallsInv /\ TodoInv /\ TracesInv /\ LinksInv /\ DeliveryInv
  BY DEF LibraryInv
<1>3. TodoInv' /\ Command \in Commands /\ Suits(Command)
  BY <1>1, <1>2, QueueIsTyped
<1>4. /\ es \in Seq(EdgeType)
      /\ \A i \in DOMAIN es : es[i] \in EdgeType /\ es[i].source \in Ids
  BY <1>1, <1>3, CommandCases, NamedById
<1> HIDE DEF es
<1>5. /\ edges' \in SUBSET SoundRows
      /\ \A row \in edges' : row \in edges \/ \E i \in DOMAIN es : row = StoredEdge(es[i])
      /\ \A e \in EdgeType :
            /\ StoredEdge(e) \in edges \/ \E i \in DOMAIN es : es[i] = e
            /\ \A i \in DOMAIN es : IdOf(es[i]) = IdOf(e) => es[i] = e
            => StoredEdge(e) \in edges'
  <2>1. edges \in SUBSET SoundRows
    BY <1>2 DEF TablesInv
  <2> QED
    BY <1>1, <1>4, <2>1, EdgesAreWritten
<1>6. PlaceholdersOnly
  <2> DEFINE V == [Ids -> Memory \cup {Absent, Placeholder}]
             once == WithPlaceholder(nodes, es[1].source)
             twice == WithPlaceholder(once, es[1].target)
  <2>1. nodes \in V
    BY <1>2 DEF TablesInv
  <2>2. CASE deployment.graph = "cypher"
    <3>1. ~SharesMemoryStore
      BY <1>2, <2>2, OwnNodes
    <3>2. /\ once \in V
          /\ \A k \in Ids : once[k] = nodes[k] \/ (nodes[k] = Absent /\ once[k] = Placeholder)
      BY <2>1, PlaceholderAt
    <3> HIDE DEF once
    <3>3. /\ twice \in V
          /\ \A k \in Ids : twice[k] = once[k] \/ (once[k] = Absent /\ twice[k] = Placeholder)
      BY <3>2, PlaceholderAt
    <3>4. nodes' = twice
      BY <1>1, <2>2 DEF once
    <3> HIDE DEF twice
    <3> QED
      BY <3>1, <3>2, <3>3, <3>4 DEF PlaceholdersOnly
  <2>3. CASE deployment.graph # "cypher"
    BY <1>1, <2>1, <2>3 DEF PlaceholdersOnly
  <2> QED
    BY <2>2, <2>3
<1>7. \A m \in Ids : nodes'[m] \notin {Absent, Placeholder} => nodes'[m] = nodes[m]
  BY <1>2, <1>6, PlaceholdersOnlyKeep
<1>8. TablesInv'
  BY <1>1, <1>2, <1>5, <1>6, <1>7 DEF TablesInv, PlaceholdersOnly, SharesMemoryStore
<1>9. CallsInv'
  BY <1>1, <1>2 DEF CallsInv
<1>10. MemoriesStay
  BY <1>1 DEF MemoriesStay
<1>11. \A i \in DOMAIN es : memories[es[i].source] # Absent
  <2>1. SpeaksOfNamed(Command) /\ \A m : Named(m) => memories[m] # Absent
    BY <1>1, <1>2, <1>10, NamesCarryOver
  <2> QED
    BY <1>1, <2>1 DEF SpeaksOfNamed, es
<1>12. TracesInv'
  <2>1. /\ \A idx \in Indexes, m \in Ids : indexes'[idx][m] # Absent => memories'[m] # Absent
        /\ \A m \in Ids : nodes'[m] \notin {Absent, Placeholder} => memories'[m] # Absent
    BY <1>1, <1>2, <1>7 DEF TracesInv
  <2>2. ASSUME NEW row \in edges' PROVE memories'[row.payload.source] # Absent
    <3>1. CASE row \in edges
      BY <1>1, <1>2, <3>1 DEF TracesInv
    <3>2. ASSUME NEW i \in DOMAIN es, row = StoredEdge(es[i])
          PROVE  memories'[row.payload.source] # Absent
      BY <1>1, <1>4, <1>11, <3>2, EdgeParts
    <3> QED
      BY <1>5, <3>1, <3>2
  <2> QED
    BY <1>1, <1>2, <1>10, <2>1, <2>2, NamesCarryOver DEF TracesInv
<1>13. LinksInv'
  BY <1>1, <1>2, <1>3, LinksCarryOver DEF Suits
<1>14. NodesDelivered
  BY <1>1, <1>2, <1>6, PlaceholdersOnlyKeep DEF NodesDelivered, Leaves
<1>15. MemoriesDelivered /\ IndexesDelivered
  BY <1>1 DEF MemoriesDelivered, IndexesDelivered, Leaves
<1>16. ASSUME Ingests(Command) PROVE EdgesDelivered
  <2>1. ASSUME NEW e \in EdgeType, ~e.archived, StoredEdge(e) \in edges \/ WritesEdge(Command, e)
        PROVE  StoredEdge(e) \in edges'
    <3>1. StoredEdge(e) \in edges \/ \E i \in DOMAIN es : es[i] = e
      BY <1>1, <2>1 DEF WritesEdge, es
    <3>2. ASSUME NEW i \in DOMAIN es, IdOf(es[i]) = IdOf(e) PROVE es[i] = e
      <4>1. es[i] \in EdgeType /\ ~es[i].archived
        BY <1>1, <1>4, <1>16 DEF Ingests, es
      <4>2. es[i].archived = e.archived
        BY <2>1, <4>1, EdgeParts
      <4> QED
        BY <3>2, <4>1, <4>2, EdgeParts
    <3> QED
      BY <1>5, <3>1, <3>2
  <2> QED
    BY <2>1 DEF EdgesDelivered
<1>17. DeliveryInv'
  BY <1>1, <1>2, <1>14, <1>15, <1>16, DeliveryCarriesOver
<1> QED
  BY <1>3, <1>8, <1>9, <1>12, <1>13, <1>17 DEF LibraryInv

LEMMA SetKeepsInv ==
    ASSUME LibraryInv, SetRedisEdge PROVE LibraryInv'
<1> DEFINE e == Command.edge
<1>1. /\ todo # <<>> /\ todo' = Tail(todo) /\ Command.op = "set"
      /\ edges' = WithEdge(edges, e)
      /\ UNCHANGED <<deployment, memories, nodes, links, indexes, cut, stale, batch, returned, reply, retrievals>>
  BY DEF SetRedisEdge, Next1, Command, StillAtIt, counts
<1>2. /\ TablesInv /\ CallsInv /\ TodoInv /\ TracesInv /\ LinksInv /\ DeliveryInv
  BY DEF LibraryInv
<1>3. TodoInv' /\ Command \in Commands
  BY <1>1, <1>2, QueueIsTyped
<1>4. e \in EdgeType
  BY <1>1, <1>3, NamedById
<1> HIDE DEF e
<1>5. /\ edges' = {r \in edges : r.id # IdOf(e)} \cup {StoredEdge(e)}
      /\ edges' \in SUBSET SoundRows
  <2>1. edges \in SUBSET SoundRows
    BY <1>2 DEF TablesInv
  <2> QED
    BY <1>1, <1>4, <2>1, EdgeIsWritten
<1>6. TablesInv'
  BY <1>1, <1>2, <1>5 DEF TablesInv, SharesMemoryStore
<1>7. CallsInv'
  BY <1>1, <1>2 DEF CallsInv
<1>8. MemoriesStay
  BY <1>1 DEF MemoriesStay
<1>9. memories[e.source] # Absent
  <2>1. SpeaksOfNamed(Command) /\ \A m : Named(m) => memories[m] # Absent
    BY <1>1, <1>2, <1>8, NamesCarryOver
  <2> QED
    BY <1>1, <2>1 DEF SpeaksOfNamed, e
<1>10. TracesInv'
  <2>1. /\ \A idx \in Indexes, m \in Ids : indexes'[idx][m] # Absent => memories'[m] # Absent
        /\ \A m \in Ids : nodes'[m] \notin {Absent, Placeholder} => memories'[m] # Absent
    BY <1>1, <1>2 DEF TracesInv
  <2>2. \A row \in edges' : memories'[row.payload.source] # Absent
    BY <1>1, <1>2, <1>4, <1>5, <1>9, EdgeParts DEF TracesInv
  <2> QED
    BY <1>1, <1>2, <1>8, <2>1, <2>2, NamesCarryOver DEF TracesInv
<1>11. LinksInv'
  BY <1>2, SetKeepsLinks
<1>12. MemoriesDelivered /\ NodesDelivered /\ IndexesDelivered
  BY <1>1 DEF MemoriesDelivered, NodesDelivered, IndexesDelivered, Leaves
<1>13. ASSUME Ingests(Command) PROVE EdgesDelivered
  <2>1. ASSUME NEW d \in EdgeType, ~d.archived, StoredEdge(d) \in edges \/ WritesEdge(Command, d)
        PROVE  StoredEdge(d) \in edges'
    <3>1. CASE d = e
      BY <1>5, <3>1
    <3>2. CASE d # e
      <4>1. StoredEdge(d) \in edges
        BY <1>1, <2>1, <3>2 DEF WritesEdge, e
      <4>2. ~e.archived
        BY <1>1, <1>13 DEF Ingests, e
      <4>3. e.archived = d.archived
        BY <1>4, <2>1, <4>2, EdgeParts
      <4>4. StoredEdge(d).id # IdOf(e)
        BY <1>4, <3>2, <4>3, EdgeParts
      <4> QED
        BY <1>5, <4>1, <4>4
    <3> QED
      BY <3>1, <3>2
  <2> QED
    BY <2>1 DEF EdgesDelivered
<1>14. DeliveryInv'
  BY <1>1, <1>2, <1>12, <1>13, DeliveryCarriesOver
<1> QED
  BY <1>3, <1>6, <1>7, <1>10, <1>11, <1>14 DEF LibraryInv

LEMMA LinkKeepsInv ==
    ASSUME LibraryInv, AddRedisLink PROVE LibraryInv'
<1>1. /\ todo # <<>> /\ todo' = Tail(todo) /\ Command.op = "link"
      /\ links' = links \cup {Link(Command.end, Command.edge)}
      /\ cut' = IF Command.end = "target" THEN cut \ {IdOf(Command.edge)} ELSE cut
      /\ UNCHANGED <<deployment, memories, nodes, edges, indexes, stale, batch, returned, reply, retrievals>>
  BY DEF AddRedisLink, Next1, Command, StillAtIt, counts
<1>2. /\ TablesInv /\ CallsInv /\ TodoInv /\ TracesInv /\ LinksInv /\ DeliveryInv
  BY DEF LibraryInv
<1>3. TodoInv' /\ Command \in Commands /\ Suits(Command)
  BY <1>1, <1>2, QueueIsTyped
<1>4. Command.end \in Ends /\ Command.edge \in EdgeType /\ deployment.graph = "redis"
  BY <1>1, <1>3, CommandCases DEF Suits
<1>5. TablesInv'
  BY <1>1, <1>2, <1>4 DEF TablesInv, SharesMemoryStore
<1>6. CallsInv'
  BY <1>1, <1>2 DEF CallsInv
<1>7. MemoriesStay
  BY <1>1 DEF MemoriesStay
<1>8. TracesInv'
  <2>1. /\ \A idx \in Indexes, m \in Ids : indexes'[idx][m] # Absent => memories'[m] # Absent
        /\ \A m \in Ids : nodes'[m] \notin {Absent, Placeholder} => memories'[m] # Absent
        /\ \A row \in edges' : memories'[row.payload.source] # Absent
    BY <1>1, <1>2 DEF TracesInv
  <2> QED
    BY <1>1, <1>2, <1>7, <2>1, NamesCarryOver DEF TracesInv
<1>9. LinksInv'
  BY <1>2, LinkingKeepsLinks
<1>10. MemoriesDelivered /\ NodesDelivered /\ IndexesDelivered /\ EdgesDelivered
  BY <1>1 DEF MemoriesDelivered, NodesDelivered, IndexesDelivered, EdgesDelivered, Leaves, WritesEdge
<1>11. DeliveryInv'
  BY <1>1, <1>2, <1>10, DeliveryCarriesOver
<1> QED
  BY <1>3, <1>5, <1>6, <1>8, <1>9, <1>11 DEF LibraryInv

-----------------------------------------------------------------------------
(***************************************************************************)
(* The actions that start and end a call.                                  *)
(***************************************************************************)
LEMMA InitHolds ==
    ASSUME Init PROVE LibraryInv
<1>1. TablesInv
  BY DEF Init, StoresInit, TablesInv, Indexes
<1>2. CallsInv
  BY EmptySeq DEF Init, CallsInv, NoReply, NoBatch, BatchType
<1>3. todo = <<>> /\ todo \in Seq(Commands) /\ DOMAIN todo = {}
  BY EmptySeq DEF Init
<1>4. TodoInv
  BY <1>3 DEF TodoInv
<1>5. TracesInv
  BY <1>3 DEF Init, StoresInit, TracesInv, PutsFirst, Indexes
<1>6. LinksInv
  BY <1>3 DEF Init, StoresInit, LinksInv, AtLink
<1>7. DeliveryInv
  BY DEF Init, DeliveryInv
<1> QED
  BY <1>1, <1>2, <1>4, <1>5, <1>6, <1>7 DEF LibraryInv

\* A call that starts leaves the tables as they are.
CallStarts ==
    /\ todo = <<>> /\ todo' \in Seq(Commands)
    /\ UNCHANGED <<deployment, memories, nodes, edges, links, indexes, cut, stale, reply, retrievals>>
    /\ \A k \in DOMAIN todo' :
          Suits(todo'[k]) /\ Follows(todo', k) /\ (todo'[k].op = "link" => k # 1)
    /\ PutsFirst(todo') /\ (\A k \in DOMAIN todo : SpeaksOfNamed(todo[k]))'

LEMMA CallStartsWell ==
    ASSUME LibraryInv, CallStarts
    PROVE  TablesInv' /\ TodoInv' /\ TracesInv' /\ LinksInv'
<1>1. /\ todo = <<>> /\ todo' \in Seq(Commands)
      /\ UNCHANGED <<deployment, memories, nodes, edges, links, indexes, cut, stale>>
      /\ \A k \in DOMAIN todo' :
            Suits(todo'[k]) /\ Follows(todo', k) /\ (todo'[k].op = "link" => k # 1)
      /\ PutsFirst(todo') /\ (\A k \in DOMAIN todo : SpeaksOfNamed(todo[k]))'
  BY DEF CallStarts
<1>2. /\ TablesInv /\ TodoInv /\ TracesInv /\ LinksInv
  BY DEF LibraryInv
<1>3. TablesInv'
  BY <1>1, <1>2 DEF TablesInv, SharesMemoryStore
<1>4. (\A k \in DOMAIN todo : Suits(todo[k]))'
  <2>1. \A k \in DOMAIN todo' : Suits(todo'[k])
    BY <1>1
  <2> QED
    BY <1>1, <2>1 DEF Suits
<1>5. (\A k \in DOMAIN todo : Follows(todo, k))'
  <2>1. \A k \in DOMAIN todo' : Follows(todo', k)
    BY <1>1
  <2> QED
    BY <2>1 DEF Follows
<1>6. ~AtLink /\ ~AtLink'
  <2>1. ASSUME AtLink' PROVE FALSE
    <3>1. todo' # <<>> /\ Head(todo').op = "link"
      BY <2>1 DEF AtLink, Command
    <3>2. Head(todo') = todo'[1] /\ 1 \in DOMAIN todo'
      BY <1>1, <3>1, TailPlaces
    <3> QED
      BY <1>1, <3>1, <3>2
  <2> QED
    BY <1>1, <2>1 DEF AtLink
<1>7. LinksInv'
  BY <1>1, <1>2, <1>5, <1>6 DEF LinksInv, IsLinked
<1>8. TracesInv'
  BY <1>1, <1>2 DEF TracesInv
<1> QED
  BY <1>1, <1>3, <1>4, <1>7, <1>8 DEF TodoInv

LEMMA IngestKeepsInv ==
    ASSUME LibraryInv, NEW b \in Batches, IngestEnvelopes(b) PROVE LibraryInv'
<1> DEFINE recs == Memories(b)
           es == BuildEdges(b)
<1>1. /\ todo = <<>> /\ batch = NoBatch /\ todo' = IngestCommands(recs, es)
      /\ batch' = [memories |-> recs, edges |-> es] /\ returned' = NoBatch
      /\ UNCHANGED <<deployment, memories, nodes, edges, links, indexes, cut, stale, reply, retrievals>>
  BY DEF IngestEnvelopes, Resting, stores, retrieving
<1>2. /\ recs \in Seq(Memory) /\ DOMAIN recs = DOMAIN b
      /\ \A i \in DOMAIN b : recs[i].id = b[i].id
  BY MemoriesAreTyped
<1>3. es \in Seq(NewEdges(b))
  BY EdgesAreNew
<1> HIDE DEF recs, es
<1>4. /\ es \in Seq(EdgeType)
      /\ \A j \in DOMAIN es : /\ ~es[j].archived
                              /\ \E i \in DOMAIN recs : es[j].source = recs[i].id
  <2>1. Len(es) \in Nat /\ DOMAIN es = 1..Len(es) /\ \A j \in 1..Len(es) : es[j] \in NewEdges(b)
    BY <1>3, PartsOfSeq
  <2>2. es \in [1..Len(es) -> EdgeType]
    BY <1>3, <2>1, PartsOfSeq DEF NewEdges
  <2>3. es \in Seq(EdgeType)
    BY <2>1, <2>2, ListOf
  <2> QED
    BY <1>2, <2>1, <2>3 DEF NewEdges
<1>5. WritesBatch(todo', recs, es)
  BY <1>1, <1>2, <1>4, BatchIsWritten
<1>6. /\ todo' \in Seq(Commands) /\ PutsFirst(todo')
      /\ \A k \in DOMAIN todo' :
            /\ Suits(todo'[k]) /\ Ingests(todo'[k]) /\ Follows(todo', k)
            /\ todo'[k].op = "link" => k # 1
            /\ todo'[k].op = "node" => \A i \in DOMAIN todo'[k].recs : \E j \in DOMAIN recs : todo'[k].recs[i] = recs[j]
            /\ todo'[k].op = "index" => \E j \in DOMAIN recs : todo'[k].id = recs[j].id
            /\ todo'[k].op = "edges" => \A i \in DOMAIN todo'[k].edges : \E j \in DOMAIN es : todo'[k].edges[i] = es[j]
            /\ todo'[k].op = "set" => \E j \in DOMAIN es : todo'[k].edge = es[j]
      /\ \A j \in DOMAIN recs : IsPut(todo', recs[j].id)
  BY <1>5 DEF WritesBatch
<1>7. (\A k \in DOMAIN todo : SpeaksOfNamed(todo[k]))'
  <2>1. ASSUME NEW k \in DOMAIN todo' PROVE SpeaksOfNamed(todo[k])'
    <3>1. PICK c : c = todo'[k]
      OBVIOUS
    <3>2. /\ c.op = "node" => \A i \in DOMAIN c.recs : IsPut(todo', c.recs[i].id)
          /\ c.op = "index" => IsPut(todo', c.id)
          /\ c.op = "edges" => \A i \in DOMAIN c.edges : IsPut(todo', c.edges[i].source)
          /\ c.op = "set" => IsPut(todo', c.edge.source)
      BY <1>4, <1>6, <3>1
    <3> QED
      BY <3>1, <3>2 DEF SpeaksOfNamed, Named
  <2> QED
    BY <2>1
<1>8. TablesInv' /\ TodoInv' /\ TracesInv' /\ LinksInv'
  BY <1>1, <1>6, <1>7, CallStartsWell DEF CallStarts
<1>9. CallsInv'
  BY <1>1, <1>2, <1>4, EmptySeq DEF LibraryInv, CallsInv, BatchType, NoBatch
<1>10. /\ \A i \in LastOf(recs) :
             /\ Due(todo', "put", recs[i].id, recs[i].text)
             /\ ~SharesMemoryStore => Due(todo', "node", recs[i].id, recs[i].text)
             /\ Due(todo', "vector", recs[i].id, recs[i].text)
             /\ deployment.represents => Due(todo', "representation", recs[i].id, recs[i].text)
       /\ \A j \in DOMAIN es : IsWritten(todo', es[j])
  BY <1>5 DEF WritesBatch
<1>11. ASSUME NEW i \in LastOf(recs) PROVE RecordArrives(recs[i])'
  <2>1. PICK rec : rec = recs[i]
    OBVIOUS
  <2>2. RecordArrives(rec)'
    BY <1>1, <1>10, <2>1 DEF RecordArrives, MemoryArrives, NodeArrives, IndexArrives, SharesMemoryStore
  <2>3. recs' = recs
    BY DEF recs, Memories, ArtifactToMemory
  <2> QED
    BY <2>1, <2>2, <2>3
<1>12. Arrives([memories |-> recs, edges |-> es])'
  <2>1. recs' = recs /\ es' = es
    BY DEF recs, es, Memories, ArtifactToMemory, BuildEdges, EdgesOf, EdgeToPrevious, Previous
  <2>2. \A i \in DOMAIN es : ~es[i].archived /\ EdgeArrives(es[i])'
    BY <1>4, <1>10 DEF EdgeArrives
  <2> QED
    BY <1>11, <2>1, <2>2 DEF Arrives
<1>13. (\A k \in DOMAIN todo : Ingests(todo[k]))'
  <2>1. ASSUME NEW k \in DOMAIN todo' PROVE Ingests(todo'[k])
    BY <1>6
  <2> QED
    BY <1>1, <2>1 DEF Ingests, SharesMemoryStore
<1>14. DeliveryInv'
  BY <1>1, <1>12, <1>13 DEF DeliveryInv, NoBatch
<1> QED
  BY <1>8, <1>9, <1>14 DEF LibraryInv

LEMMA NoBatchDelivers ==
    ASSUME batch' = NoBatch, returned' = NoBatch PROVE DeliveryInv'
BY DEF DeliveryInv, NoBatch

LEMMA ArchiveMemoryKeepsInv ==
    ASSUME LibraryInv, NEW m \in Ids, ArchiveMemory(m) PROVE LibraryInv'
<1> DEFINE rec == [memories[m] EXCEPT !.archived = TRUE]
           put == PutMemories(<<rec>>)
           node == UpsertNodes(<<rec>>)
<1>1. /\ todo = <<>> /\ batch = NoBatch /\ memories[m] # Absent /\ todo' = <<put, node>>
      /\ batch' = batch /\ returned' = NoBatch
      /\ UNCHANGED <<deployment, memories, nodes, edges, links, indexes, cut, stale, reply, retrievals>>
  BY DEF ArchiveMemory, Resting, IsActive, stores, retrieving
<1>2. rec \in Memory /\ rec.id = m
  <2>1. memories[m] \in Memory /\ memories[m].id = m
    BY <1>1 DEF LibraryInv, TablesInv
  <2> QED
    BY <2>1 DEF Memory
<1>3. <<rec>> \in Seq(Memory) /\ DOMAIN <<rec>> = {1} /\ <<rec>>[1] = rec
  BY <1>2
<1>4. /\ put \in Commands /\ put.op = "put" /\ put.recs = <<rec>>
      /\ node \in Commands /\ node.op = "node" /\ node.recs = <<rec>>
  BY <1>3, PutIsACommand
<1> HIDE DEF put, node, rec
<1>5. todo' \in Seq(Commands) /\ DOMAIN todo' = 1..2 /\ todo'[1] = put /\ todo'[2] = node
  BY <1>1, <1>4
<1>6. \A k \in DOMAIN todo' : k = 1 \/ k = 2
  BY <1>5
<1>7. \A k \in DOMAIN todo' : Suits(todo'[k]) /\ Follows(todo', k) /\ (todo'[k].op = "link" => k # 1)
  BY <1>4, <1>5, <1>6 DEF Suits, Follows
<1>8. PutsFirst(todo')
  BY <1>4, <1>5, <1>6 DEF PutsFirst
<1>9. (\A k \in DOMAIN todo : SpeaksOfNamed(todo[k]))'
  <2>1. ASSUME NEW k \in DOMAIN todo' PROVE SpeaksOfNamed(todo[k])'
    <3>1. PICK c : c = todo'[k]
      OBVIOUS
    <3>2. /\ c.op = "node" => \A i \in DOMAIN c.recs : memories'[c.recs[i].id] # Absent
          /\ c.op \notin {"index", "edges", "set"}
      BY <1>1, <1>2, <1>3, <1>4, <1>5, <1>6, <3>1
    <3> QED
      BY <3>1, <3>2 DEF SpeaksOfNamed, Named
  <2> QED
    BY <2>1
<1>10. TablesInv' /\ TodoInv' /\ TracesInv' /\ LinksInv'
  BY <1>1, <1>5, <1>7, <1>8, <1>9, CallStartsWell DEF CallStarts
<1>11. CallsInv'
  BY <1>1, EmptySeq DEF LibraryInv, CallsInv, BatchType, NoBatch
<1>12. DeliveryInv'
  BY <1>1, NoBatchDelivers
<1> QED
  BY <1>10, <1>11, <1>12 DEF LibraryInv

LEMMA ArchiveEdgeKeepsInv ==
    ASSUME LibraryInv, NEW e \in ListEdges, ArchiveEdge(e) PROVE LibraryInv'
<1> DEFINE d == [e EXCEPT !.archived = TRUE]
<1>1. /\ todo = <<>> /\ batch = NoBatch /\ todo' = PersistEdges(<<d>>)
      /\ batch' = batch /\ returned' = NoBatch
      /\ UNCHANGED <<deployment, memories, nodes, edges, links, indexes, cut, stale, reply, retrievals>>
  BY DEF ArchiveEdge, Resting, stores, retrieving
<1>2. e \in EdgeType /\ memories[e.source] # Absent
  <2>1. PICK row \in edges : e = row.payload
    BY DEF ListEdges
  <2> QED
    BY <2>1, RowsHaveSources DEF LibraryInv, TracesInv
<1>3. d \in EdgeType /\ d.source = e.source
  BY <1>2 DEF EdgeType
<1> HIDE DEF d
<1>4. <<d>> \in Seq(EdgeType) /\ DOMAIN <<d>> = {1} /\ <<d>>[1] = d
  BY <1>3
<1>5. WriteEdges(todo', <<d>>)
  BY <1>1, <1>4, EdgesArePersisted
<1>6. /\ todo' \in Seq(Commands)
      /\ \A k \in DOMAIN todo' :
            /\ Suits(todo'[k]) /\ todo'[k].op \in {"placeholder", "edges", "set", "link"}
            /\ todo'[k].op = "edges" => \A i \in DOMAIN todo'[k].edges : todo'[k].edges[i] = d
            /\ todo'[k].op = "set" => todo'[k].edge = d
            /\ Follows(todo', k) /\ (todo'[k].op = "link" => k # 1)
  BY <1>4, <1>5 DEF WriteEdges
<1>7. PutsFirst(todo')
  BY <1>6 DEF PutsFirst
<1>8. (\A k \in DOMAIN todo : SpeaksOfNamed(todo[k]))'
  <2>1. ASSUME NEW k \in DOMAIN todo' PROVE SpeaksOfNamed(todo[k])'
    <3>1. PICK c : c = todo'[k]
      OBVIOUS
    <3>2. /\ c.op = "edges" => \A i \in DOMAIN c.edges : memories'[c.edges[i].source] # Absent
          /\ c.op = "set" => memories'[c.edge.source] # Absent
          /\ c.op \notin {"index", "node"}
      BY <1>1, <1>2, <1>3, <1>6, <3>1
    <3> QED
      BY <3>1, <3>2 DEF SpeaksOfNamed, Named
  <2> QED
    BY <2>1
<1>9. TablesInv' /\ TodoInv' /\ TracesInv' /\ LinksInv'
  BY <1>1, <1>6, <1>7, <1>8, CallStartsWell DEF CallStarts
<1>10. CallsInv'
  BY <1>1, EmptySeq DEF LibraryInv, CallsInv, BatchType, NoBatch
<1>11. DeliveryInv'
  BY <1>1, NoBatchDelivers
<1> QED
  BY <1>9, <1>10, <1>11 DEF LibraryInv

\* Nothing else changes when a call returns or a query is answered.
LEMMA SameStores ==
    ASSUME LibraryInv, UNCHANGED <<deployment, stores, todo, cut, stale>>
    PROVE  /\ TablesInv' /\ TodoInv' /\ TracesInv' /\ LinksInv'
           /\ \A b : Arrives(b) => Arrives(b)'
           /\ (\A k \in DOMAIN todo : Ingests(todo[k])) => (\A k \in DOMAIN todo : Ingests(todo[k]))'
<1>1. UNCHANGED <<deployment, memories, nodes, edges, links, indexes, todo, cut, stale>>
  BY DEF stores
<1>2. /\ TablesInv /\ TodoInv /\ TracesInv /\ LinksInv
  BY DEF LibraryInv
<1>3. TablesInv'
  BY <1>1, <1>2 DEF TablesInv, SharesMemoryStore
<1>4. TodoInv'
  BY <1>1, <1>2 DEF TodoInv, Suits
<1>5. TracesInv'
  BY <1>1, <1>2 DEF TracesInv, SpeaksOfNamed, Named
<1>6. LinksInv'
  BY <1>1, <1>2 DEF LinksInv, AtLink, Command, IsLinked
<1>7. ASSUME NEW b, Arrives(b) PROVE Arrives(b)'
  BY <1>1, <1>7 DEF Arrives, RecordArrives, MemoryArrives, NodeArrives, IndexArrives,
                    EdgeArrives, SharesMemoryStore
<1>8. (\A k \in DOMAIN todo : Ingests(todo[k])) => (\A k \in DOMAIN todo : Ingests(todo[k]))'
  BY <1>1 DEF Ingests, SharesMemoryStore
<1> QED
  BY <1>3, <1>4, <1>5, <1>6, <1>7, <1>8

LEMMA ReturnKeepsInv ==
    ASSUME LibraryInv, Return PROVE LibraryInv'
<1>1. /\ todo = <<>> /\ batch # NoBatch /\ returned' = batch /\ batch' = NoBatch
      /\ UNCHANGED <<deployment, stores, todo, cut, stale, reply, retrievals>>
  BY DEF Return, counts, retrieving
<1>2. TablesInv' /\ TodoInv' /\ TracesInv' /\ LinksInv'
  BY <1>1, SameStores
<1>3. CallsInv'
  BY <1>1, EmptySeq DEF LibraryInv, CallsInv, BatchType, NoBatch
<1>4. PICK b : b = batch
  OBVIOUS
<1>5. Arrives(b)
  BY <1>1, <1>4 DEF LibraryInv, DeliveryInv
<1>6. Arrives(b)'
  BY <1>1, <1>5, SameStores
<1>7. Arrives(returned)'
  BY <1>1, <1>4, <1>6
<1>8. DeliveryInv'
  BY <1>1, <1>7 DEF DeliveryInv, NoBatch
<1> QED
  BY <1>2, <1>3, <1>8 DEF LibraryInv

LEMMA CrashKeepsInv ==
    ASSUME LibraryInv, Crash PROVE LibraryInv'
<1>1. /\ todo # <<>> /\ todo' = <<>> /\ batch' = NoBatch /\ returned' = returned
      /\ cut' = IF Command.op = "link" THEN cut \cup {IdOf(Command.edge)} ELSE cut
      /\ UNCHANGED <<deployment, memories, nodes, edges, links, indexes, stale, reply, retrievals>>
  BY DEF Crash, stores, retrieving
<1>2. /\ TablesInv /\ CallsInv /\ TodoInv /\ TracesInv /\ LinksInv /\ DeliveryInv
  BY DEF LibraryInv
<1>3. todo' \in Seq(Commands) /\ DOMAIN todo' = {}
  BY <1>1, EmptySeq
<1>4. TablesInv'
  BY <1>1, <1>2 DEF TablesInv, SharesMemoryStore
<1>5. TodoInv'
  BY <1>3 DEF TodoInv
<1>6. Command \in Commands
  BY <1>1, <1>2, TailPlaces DEF TodoInv, Command
<1>7. cut' \subseteq EdgeIds
  <2>1. Command.op = "link" => Command.edge \in EdgeType
    BY <1>6, CommandCases
  <2>2. Command.op = "link" => IdOf(Command.edge) \in EdgeIds
    BY <2>1, EdgeParts
  <2> QED
    BY <1>1, <1>2, <2>2 DEF CallsInv
<1>8. CallsInv'
  BY <1>1, <1>2, <1>7, EmptySeq DEF CallsInv, NoBatch, BatchType
<1>9. TracesInv'
  BY <1>1, <1>2, <1>3 DEF TracesInv, PutsFirst
<1>10. LinksInv'
  <2>1. ASSUME deployment.graph = "redis", NEW row \in edges PROVE IsLinked(row) \/ row.id \in cut'
    <3>1. row.id = IdOf(row.payload)
      BY <1>2, RowParts DEF TablesInv
    <3> QED
      BY <1>1, <1>2, <2>1, <3>1 DEF LinksInv, AtLink
  <2> QED
    BY <1>1, <1>3, <2>1 DEF LinksInv, AtLink, IsLinked
<1>11. returned' = NoBatch
  BY <1>1, <1>2 DEF DeliveryInv
<1>12. DeliveryInv'
  BY <1>1, <1>11, NoBatchDelivers
<1> QED
  BY <1>4, <1>5, <1>8, <1>9, <1>10, <1>12 DEF LibraryInv

LEMMA WriteBackKeepsInv ==
    ASSUME LibraryInv, WriteBackAccess PROVE LibraryInv'
<1> DEFINE rec == Head(reply.left)
<1>1. /\ reply.left # <<>> /\ reply'.left = Tail(reply.left)
      /\ deployment.writesBack =>
            /\ memories' = [memories EXCEPT ![rec.id] = [rec EXCEPT !.access = @ + 1]]
            /\ stale' = IF memories[rec.id] # Absent /\ memories[rec.id].text = rec.text
                        THEN stale ELSE stale \cup {rec.id}
      /\ ~deployment.writesBack => memories' = memories /\ stale' = stale
      /\ UNCHANGED <<deployment, nodes, edges, links, indexes, todo, batch, returned, cut, retrievals>>
  BY DEF WriteBackAccess, counts, NoReply
<1>2. /\ TablesInv /\ CallsInv /\ TodoInv /\ TracesInv /\ LinksInv /\ DeliveryInv
  BY DEF LibraryInv
<1>3. rec \in Memory /\ Tail(reply.left) \in Seq(Memory)
  BY <1>1, <1>2, TailPlaces DEF CallsInv
<1> HIDE DEF rec
<1>4. rec.id \in Ids /\ [rec EXCEPT !.access = @ + 1] \in Memory
      /\ [rec EXCEPT !.access = @ + 1].id = rec.id /\ [rec EXCEPT !.access = @ + 1].text = rec.text
  BY <1>3 DEF Memory
<1>5. /\ memories' \in [Ids -> Memory \cup {Absent}] /\ stale' \subseteq Ids /\ stale \subseteq stale'
      /\ \A m \in Ids : memories'[m] = memories[m] \/ (memories'[m] \in Memory /\ memories'[m].id = m)
      /\ \A m \in Ids : \A t : m \in stale \/ Holds(memories[m], t) => m \in stale' \/ Holds(memories'[m], t)
  <2> DEFINE new == [rec EXCEPT !.access = @ + 1]
  <2>1. new \in Memory /\ new.id = rec.id /\ new.text = rec.text /\ rec.id \in Ids /\ new # Absent
    BY <1>4, MarksAreNoMemories
  <2>2. deployment.writesBack =>
           /\ memories' = [memories EXCEPT ![rec.id] = new]
           /\ stale' = IF memories[rec.id] # Absent /\ memories[rec.id].text = rec.text
                       THEN stale ELSE stale \cup {rec.id}
    BY <1>1 DEF rec
  <2> HIDE DEF new
  <2>3. memories \in [Ids -> Memory \cup {Absent}] /\ stale \subseteq Ids
    BY <1>2 DEF TablesInv, CallsInv
  <2>4. CASE deployment.writesBack
    <3>1. /\ memories'[rec.id] = new /\ memories' \in [Ids -> Memory \cup {Absent}]
          /\ \A m \in Ids : m # rec.id => memories'[m] = memories[m]
      BY <2>1, <2>2, <2>3, <2>4
    <3>2. stale' \subseteq Ids /\ stale \subseteq stale'
      BY <2>1, <2>2, <2>3, <2>4
    <3>3. ASSUME NEW m \in Ids, NEW t, m \in stale \/ Holds(memories[m], t)
          PROVE  m \in stale' \/ Holds(memories'[m], t)
      BY <2>1, <2>2, <2>4, <3>1, <3>2, <3>3 DEF Holds
    <3> QED
      BY <2>1, <3>1, <3>2, <3>3
  <2>5. CASE ~deployment.writesBack
    BY <1>1, <2>3, <2>5
  <2> QED
    BY <2>4, <2>5
<1>6. TablesInv'
  BY <1>1, <1>2, <1>5 DEF TablesInv, SharesMemoryStore
<1>7. CallsInv'
  BY <1>1, <1>2, <1>3, <1>5 DEF CallsInv
<1>8. TodoInv'
  BY <1>1, <1>2 DEF TodoInv, Suits
<1>9. \A m \in Ids : memories[m] # Absent => memories'[m] # Absent
  BY <1>5, MarksAreNoMemories
<1>10. TracesInv'
  <2>1. /\ \A idx \in Indexes, m \in Ids : indexes'[idx][m] # Absent => memories'[m] # Absent
        /\ \A m \in Ids : nodes'[m] \notin {Absent, Placeholder} => memories'[m] # Absent
    BY <1>1, <1>2, <1>9 DEF TracesInv
  <2>2. \A row \in edges' : memories'[row.payload.source] # Absent
    BY <1>1, <1>2, <1>9, RowsHaveSources DEF TracesInv
  <2>3. (\A k \in DOMAIN todo : SpeaksOfNamed(todo[k]))'
    <3>1. ASSUME NEW k \in DOMAIN todo' PROVE SpeaksOfNamed(todo[k])'
      <4>1. PICK c : c = todo'[k]
        OBVIOUS
      <4>2. c \in Commands /\ SpeaksOfNamed(c)
        BY <1>1, <1>2, <4>1, PartsOfSeq DEF TodoInv, TracesInv
      <4>3. \A m \in Ids : Named(m) => memories'[m] # Absent \/ IsPut(todo', m)
        BY <1>1, <1>9 DEF Named
      <4>4. /\ c.op = "node" => \A i \in DOMAIN c.recs : memories'[c.recs[i].id] # Absent \/ IsPut(todo', c.recs[i].id)
            /\ c.op = "index" => memories'[c.id] # Absent \/ IsPut(todo', c.id)
            /\ c.op = "edges" => \A i \in DOMAIN c.edges :
                    memories'[c.edges[i].source] # Absent \/ IsPut(todo', c.edges[i].source)
            /\ c.op = "set" => memories'[c.edge.source] # Absent \/ IsPut(todo', c.edge.source)
        BY <4>2, <4>3, NamedById DEF SpeaksOfNamed
      <4> QED
        BY <4>1, <4>4 DEF SpeaksOfNamed, Named
    <3> QED
      BY <3>1
  <2> QED
    BY <1>1, <1>2, <2>1, <2>2, <2>3 DEF TracesInv
<1>11. LinksInv'
  BY <1>1, <1>2 DEF LinksInv, AtLink, Command, IsLinked
<1>12. ASSUME NEW b \in BatchType, Arrives(b) PROVE Arrives(b)'
  <2>1. \A i \in DOMAIN b.memories : b.memories[i].id \in Ids
    <3>1. b.memories \in Seq(Memory)
      BY DEF BatchType
    <3>2. \A i \in DOMAIN b.memories : b.memories[i] \in Memory
      BY <3>1, PartsOfSeq
    <3> QED
      BY <3>2 DEF Memory
  <2>2. ASSUME NEW m \in Ids, NEW t, MemoryArrives(m, t) PROVE MemoryArrives(m, t)'
    BY <1>1, <1>5, <2>2 DEF MemoryArrives
  <2>3. ASSUME NEW i \in LastOf(b.memories) PROVE RecordArrives(b.memories[i])'
    <3>1. RecordArrives(b.memories[i]) /\ b.memories[i].id \in Ids
      BY <1>12, <2>1 DEF Arrives, LastOf
    <3>2. MemoryArrives(b.memories[i].id, b.memories[i].text)'
      BY <2>2, <3>1 DEF RecordArrives
    <3> QED
      BY <1>1, <3>1, <3>2 DEF RecordArrives, NodeArrives, IndexArrives, SharesMemoryStore
  <2>4. \A i \in DOMAIN b.edges : ~b.edges[i].archived /\ EdgeArrives(b.edges[i])'
    BY <1>1, <1>12 DEF Arrives, EdgeArrives
  <2> QED
    BY <2>3, <2>4 DEF Arrives
<1>13. DeliveryInv'
  <2>1. PICK b, r : b = batch /\ r = returned
    OBVIOUS
  <2>2. b \in BatchType /\ r \in BatchType
    BY <1>2, <2>1 DEF CallsInv
  <2>3. batch # NoBatch => Arrives(batch)'
    BY <1>1, <1>2, <1>12, <2>1, <2>2 DEF DeliveryInv
  <2>4. returned # NoBatch => Arrives(returned)'
    BY <1>1, <1>2, <1>12, <2>1, <2>2 DEF DeliveryInv
  <2>5. batch # NoBatch => (\A k \in DOMAIN todo : Ingests(todo[k]))'
    BY <1>1, <1>2 DEF DeliveryInv, Ingests, SharesMemoryStore
  <2> QED
    BY <1>1, <1>2, <2>3, <2>4, <2>5 DEF DeliveryInv, NoBatch
<1> QED
  BY <1>6, <1>7, <1>8, <1>10, <1>11, <1>13 DEF LibraryInv

-----------------------------------------------------------------------------
(***************************************************************************)
(* What the invariant says.                                                *)
(***************************************************************************)
LEMMA InvStoresReturned == LibraryInv => ReturnedIsStored
<1> SUFFICES ASSUME LibraryInv PROVE ReturnedIsStored
  OBVIOUS
<1>1. TablesInv /\ CallsInv /\ DeliveryInv
  BY DEF LibraryInv
<1>2. CASE returned = NoBatch
  BY <1>2 DEF ReturnedIsStored, NoBatch, ToSet
<1>3. CASE returned # NoBatch
  <2>1. todo = <<>> /\ Arrives(returned)
    BY <1>1, <1>3 DEF DeliveryInv
  <2>2. /\ \A table, m, t : ~Due(todo, table, m, t)
        /\ \A e : ~IsWritten(todo, e)
    BY <2>1 DEF Due, IsWritten
  <2>3. ASSUME NEW i \in LastOf(returned.memories)
        PROVE  LET rec == returned.memories[i]
                   m == rec.id
               IN /\ m \notin stale => Holds(GetMemory(m), rec.text) /\ Holds(GraphGetMemory(m), rec.text)
                  /\ indexes["vector"][m] = rec.text
                  /\ deployment.represents => indexes["representation"][m] = rec.text
    <3> DEFINE rec == returned.memories[i]
    <3>1. RecordArrives(rec)
      BY <2>1 DEF Arrives
    <3> HIDE DEF rec
    <3>2. rec.id \in stale \/ Holds(memories[rec.id], rec.text)
      BY <2>2, <3>1 DEF RecordArrives, MemoryArrives
    <3>3. SharesMemoryStore \/ Holds(LoadOptionalPayload(nodes[rec.id]), rec.text)
      BY <2>2, <3>1 DEF RecordArrives, NodeArrives
    <3>4. /\ indexes["vector"][rec.id] = rec.text
          /\ deployment.represents => indexes["representation"][rec.id] = rec.text
      BY <2>2, <3>1 DEF RecordArrives, IndexArrives
    <3> QED
      BY <3>2, <3>3, <3>4 DEF GetMemory, GraphGetMemory, rec
  <2>4. ToSet(returned.edges) \subseteq ListEdges
    <3>1. ASSUME NEW i \in DOMAIN returned.edges PROVE returned.edges[i] \in ListEdges
      <4> DEFINE e == returned.edges[i]
      <4>1. ~e.archived /\ EdgeArrives(e)
        BY <2>1 DEF Arrives
      <4>2. e \in EdgeType
        BY <1>1, PartsOfSeq DEF CallsInv, BatchType
      <4> HIDE DEF e
      <4>3. StoredEdge(e) \in edges /\ StoredEdge(e).payload = e
        BY <2>2, <4>1, <4>2, EdgeParts DEF EdgeArrives
      <4> QED
        BY <4>1, <4>3 DEF ListEdges, e
    <3> QED
      BY <3>1 DEF ToSet
  <2> QED
    BY <2>3, <2>4 DEF ReturnedIsStored, LastOf
<1> QED
  BY <1>2, <1>3

LEMMA InvAgreesOnTheGraph == LibraryInv => GraphReadsAgree
<1> SUFFICES ASSUME LibraryInv PROVE GraphReadsAgree
  OBVIOUS
<1>1. TablesInv /\ LinksInv
  BY DEF LibraryInv
<1>2. ASSUME NEW row \in edges
      PROVE  /\ row.payload \in EdgeType /\ row.id = IdOf(row.payload)
             /\ row.from = row.payload.source /\ row.to = row.payload.target
  BY <1>1, RowParts DEF TablesInv
<1>3. ASSUME NEW m \in Ids, NEW e \in Neighbors(m)
      PROVE  e \in ListEdges /\ m \in {e.source, e.target}
  <2>1. PICK row \in edges : IsNeighborRow(row, m) /\ ~row.payload.archived /\ e = row.payload
    BY DEF Neighbors
  <2>2. e \in ListEdges
    BY <2>1 DEF ListEdges
  <2>3. CASE deployment.graph = "redis"
    <3>1. PICK end \in {"source", "target"} : <<end, m, row.id>> \in links
      BY <2>1, <2>3 DEF IsNeighborRow
    <3>2. PICK end1 \in Ends, d \in EdgeType : <<end, m, row.id>> = Link(end1, d)
      BY <1>1, <3>1 DEF TablesInv
    <3>3. m = EndOf(end1, d) /\ IdOf(d) = IdOf(e)
      BY <1>2, <2>1, <3>2 DEF Link
    <3>4. d.source = e.source /\ d.target = e.target
      BY <1>2, <2>1, <3>3, EdgeParts
    <3> QED
      BY <2>2, <3>3, <3>4 DEF EndOf
  <2>4. CASE deployment.graph # "redis"
    BY <1>2, <2>1, <2>2, <2>4 DEF IsNeighborRow
  <2> QED
    BY <2>3, <2>4
<1>4. ASSUME NEW e \in ListEdges
      PROVE  \/ e \in Neighbors(e.source) /\ e \in Neighbors(e.target)
             \/ IdOf(e) \in cut
             \/ todo # <<>> /\ Command.op = "link" /\ Command.edge = e
  <2>1. PICK row \in edges : ~row.payload.archived /\ e = row.payload
    BY DEF ListEdges
  <2>2. row.id = IdOf(e) /\ row.from = e.source /\ row.to = e.target
    BY <1>2, <2>1
  <2>3. CASE deployment.graph = "redis"
    <3>1. CASE IsLinked(row)
      <4>1. <<"source", e.source, row.id>> \in links /\ <<"target", e.target, row.id>> \in links
        BY <2>1, <2>2, <3>1 DEF IsLinked, Ends, Link, EndOf
      <4> QED
        BY <2>1, <2>3, <4>1 DEF Neighbors, IsNeighborRow
    <3> QED
      BY <1>1, <2>1, <2>2, <2>3, <3>1 DEF LinksInv, AtLink
  <2>4. CASE deployment.graph # "redis"
    BY <2>1, <2>2, <2>4 DEF Neighbors, IsNeighborRow
  <2> QED
    BY <2>3, <2>4
<1> QED
  BY <1>3, <1>4 DEF GraphReadsAgree

LEMMA InvLeadsToMemories == LibraryInv => TracesLeadToMemories
<1> SUFFICES ASSUME LibraryInv PROVE TracesLeadToMemories
  OBVIOUS
<1>1. TablesInv /\ TracesInv
  BY DEF LibraryInv
<1>2. \A idx \in DOMAIN indexes, m \in Ids : indexes[idx][m] # Absent => memories[m] # Absent
  BY <1>1 DEF TablesInv, TracesInv
<1>3. \A m \in Ids : GraphGetMemory(m) # Absent => memories[m] # Absent
  BY <1>1 DEF TracesInv, GraphGetMemory, LoadOptionalPayload
<1>4. \A e \in ListEdges : memories[e.source] # Absent
  BY <1>1 DEF TracesInv, ListEdges
<1> QED
  BY <1>2, <1>3, <1>4 DEF TracesLeadToMemories

-----------------------------------------------------------------------------
(***************************************************************************)
(* Retrieval: lists cut short, and the elements of a set among them.       *)
(***************************************************************************)
LEMMA Solved ==
    ASSUME NEW n \in Nat, NEW V, NEW first \in V, NEW step, StaysIn(V, n, step)
    PROVE  \E h : /\ h = [i \in 0..n |-> IF i = 0 THEN first ELSE step[<<i, h[i - 1]>>]]
                  /\ \A i \in 0..n : h[i] \in V
<1>1. PICK g : IsSolution(g, V, n, first, step)
  BY Recursion DEF HasSolution
<1>2. /\ \A i \in 0..n : g[i] \in V
      /\ g[0] = first /\ \A i \in 1..n : g[i] = step[<<i, g[i - 1]>>]
  BY <1>1 DEF IsSolution
<1> DEFINE h == [i \in 0..n |-> g[i]]
<1>3. \A i \in 0..n : h[i] = g[i]
  OBVIOUS
<1>4. ASSUME NEW i \in 0..n
      PROVE  h[i] = IF i = 0 THEN first ELSE step[<<i, h[i - 1]>>]
  <2>1. CASE i = 0
    BY <1>2, <2>1
  <2>2. CASE i # 0
    <3>1. i \in 1..n /\ i - 1 \in 0..n
      BY <2>2
    <3>2. h[i] = g[i] /\ h[i - 1] = g[i - 1]
      BY <1>3, <3>1
    <3> HIDE DEF h
    <3> QED
      BY <1>2, <2>2, <3>1, <3>2
  <2> QED
    BY <2>1, <2>2
<1>5. h = [i \in 0..n |-> h[i]]
  OBVIOUS
<1>6. \A i \in 0..n : h[i] \in V
  BY <1>2, <1>3
<1> HIDE DEF h
<1>7. h = [i \in 0..n |-> IF i = 0 THEN first ELSE step[<<i, h[i - 1]>>]]
  BY <1>4, <1>5
<1> QED
  BY <1>6, <1>7

LEMMA AllIn ==
    ASSUME NEW n \in Nat, NEW V, NEW f, f[0] \in V,
           \A i \in 1..n : f[i - 1] \in V => f[i] \in V
    PROVE  \A i \in 0..n : f[i] \in V
<1> DEFINE T == {i \in 0..n : f[i] \in V}
<1>1. 0 \in T
  OBVIOUS
<1>2. \A i \in 1..n : i - 1 \in T => i \in T
  OBVIOUS
<1>3. 0..n \subseteq T
  <2> HIDE DEF T
  <2> QED
    BY <1>1, <1>2, UpTo
<1> QED
  BY <1>3

LEMMA AmongIsAList ==
    ASSUME NEW s, Len(s) \in Nat, NEW S
    PROVE  Among(s, S) \in Seq(S)
<1> DEFINE n == Len(s)
           V == Seq(S)
           P(f) == f = [i \in 0..n |-> IF i = 0 THEN <<>>
                                      ELSE IF s[i] \in S THEN Append(f[i - 1], s[i]) ELSE f[i - 1]]
           chosen == CHOOSE f : P(f)
           step == [p \in (1..n) \X V |-> IF s[p[1]] \in S THEN Append(p[2], s[p[1]]) ELSE p[2]]
<1>1. \A i \in 1..n, v \in V :
         /\ step[<<i, v>>] = IF s[i] \in S THEN Append(v, s[i]) ELSE v
         /\ step[<<i, v>>] \in V
  OBVIOUS
<1>2. Among(s, S) = chosen[n] /\ <<>> \in V
  BY EmptySeq DEF Among
<1> HIDE DEF step, V, n, chosen
<1>3. n \in Nat /\ StaysIn(V, n, step)
  BY <1>1 DEF StaysIn, n
<1>4. PICK h : /\ h = [i \in 0..n |-> IF i = 0 THEN <<>> ELSE step[<<i, h[i - 1]>>]]
               /\ \A i \in 0..n : h[i] \in V
  BY <1>2, <1>3, Solved
<1>5. P(h)
  <2>1. ASSUME NEW i \in 0..n, i # 0
        PROVE  step[<<i, h[i - 1]>>] = IF s[i] \in S THEN Append(h[i - 1], s[i]) ELSE h[i - 1]
    <3>1. i \in 1..n /\ i - 1 \in 0..n
      BY <1>3, <2>1
    <3> QED
      BY <1>1, <1>4, <3>1
  <2> QED
    BY <1>4, <2>1
<1>6. P(chosen)
  <2>1. \E f : P(f)
    BY <1>5
  <2> QED
    BY <2>1, Zenon DEF chosen
<1>7. chosen[0] = <<>>
  BY <1>3, <1>6
<1>8. ASSUME NEW i \in 1..n, chosen[i - 1] \in V PROVE chosen[i] \in V
  <2>1. i \in 0..n /\ i # 0
    BY <1>3
  <2>2. chosen[i] = IF s[i] \in S THEN Append(chosen[i - 1], s[i]) ELSE chosen[i - 1]
    BY <1>6, <2>1
  <2> QED
    BY <1>1, <1>8, <2>2
<1>9. chosen[n] \in V
  <2>1. \A i \in 0..n : chosen[i] \in V
    <3>1. chosen[0] \in V
      BY <1>2, <1>7
    <3> QED
      BY <1>3, <1>8, <3>1, AllIn
  <2> QED
    BY <1>3, <2>1
<1> QED
  BY <1>2, <1>9 DEF V

LEMMA TruncatedIsAPrefix ==
    ASSUME NEW S, NEW s \in Seq(S), NEW n \in Nat
    PROVE  /\ Truncated(s, n) \in Seq(S)
           /\ Len(Truncated(s, n)) \in Nat
           /\ Len(Truncated(s, n)) = IF n < Len(s) THEN n ELSE Len(s)
           /\ DOMAIN Truncated(s, n) = 1..Len(Truncated(s, n))
           /\ \A i \in 1..Len(Truncated(s, n)) : i \in DOMAIN s /\ Truncated(s, n)[i] = s[i]
<1> DEFINE m == IF n < Len(s) THEN n ELSE Len(s)
           t == Truncated(s, n)
<1>1. Len(s) \in Nat /\ DOMAIN s = 1..Len(s) /\ \A i \in 1..Len(s) : s[i] \in S
  BY PartsOfSeq
<1>2. m \in Nat /\ m <= Len(s)
  BY <1>1
<1>3. t = [i \in 1..m |-> s[i]]
  <2>1. t = SubSeq(s, 1, m)
    BY DEF Truncated
  <2> HIDE DEF m, t
  <2>2. 1 \in Int /\ m \in Int /\ m - 1 + 1 = m /\ \A i \in 1..m : s[i] \in S
    BY <1>1, <1>2
  <2>3. /\ t \in Seq(S) /\ Len(t) = IF 1 <= m THEN m - 1 + 1 ELSE 0
        /\ \A i \in 1..(m - 1 + 1) : t[i] = s[1 + i - 1]
    BY <2>1, <2>2, SubSeqProperties
  <2>4. Len(t) = m
    BY <1>2, <2>3
  <2>5. DOMAIN t = 1..m /\ t = [i \in 1..m |-> t[i]]
    BY <2>3, <2>4, PartsOfSeq
  <2>6. \A i \in 1..m : t[i] = s[i]
    BY <1>2, <2>2, <2>3
  <2> QED
    BY <2>5, <2>6
<1> HIDE DEF t
<1>4. t \in [1..m -> S]
  BY <1>1, <1>2, <1>3
<1>5. t \in Seq(S) /\ Len(t) = m
  <2> HIDE DEF m
  <2> QED
    BY <1>2, <1>4, ListOf
<1>6. \A i \in 1..m : i \in DOMAIN s /\ t[i] = s[i]
  BY <1>1, <1>2, <1>3
<1> QED
  BY <1>2, <1>3, <1>5, <1>6 DEF t

\* What was read is kept under the id it was asked for, and is not archived.
KeepsOwn(records) ==
    \A m \in Given(records) :
        records[m] \in Memory /\ records[m].id = m /\ ~records[m].archived

\* The memories that were listed are totally ordered by what they share with a query.
LEMMA ListedParts ==
    ASSUME NEW listed, KeepsOwn(listed)
    PROVE  /\ IsFiniteSet(Given(listed)) /\ Cardinality(Given(listed)) \in Nat
           /\ Given(listed) \subseteq Ids
           /\ \A m \in Given(listed) : \A query : Overlap(query, listed[m]) \in Nat
<1>1. Given(listed) \subseteq Ids
  BY DEF Given
<1>2. IsFiniteSet(Given(listed)) /\ Cardinality(Given(listed)) \in Nat
  BY <1>1, IdsAreOrdered, FS_Subset, FS_CardinalityType
<1>3. ASSUME NEW m \in Given(listed), NEW query PROVE Overlap(query, listed[m]) \in Nat
  <2>1. listed[m].text \in Texts
    BY DEF KeepsOwn, Memory
  <2>2. IsFiniteSet(listed[m].text)
    BY <2>1, TextsAreFinite
  <2>3. query \cap listed[m].text \in SUBSET listed[m].text
    OBVIOUS
  <2>4. IsFiniteSet(query \cap listed[m].text)
    BY <2>2, <2>3, FS_Subset
  <2> QED
    BY <2>4, FS_CardinalityType DEF Overlap
<1> QED
  BY <1>1, <1>2, <1>3

LEMMA PrecedesIsTotalOrder ==
    ASSUME NEW listed, KeepsOwn(listed), NEW query, NEW a \in Given(listed), NEW b \in Given(listed), NEW c \in Given(listed)
    PROVE  /\ ~Precedes(query, listed, a, a)
           /\ Precedes(query, listed, a, b) /\ Precedes(query, listed, b, c) => Precedes(query, listed, a, c)
           /\ a # b => Precedes(query, listed, a, b) \/ Precedes(query, listed, b, a)
           /\ Precedes(query, listed, a, b) => Overlap(query, listed[b]) <= Overlap(query, listed[a])
<1>1. a \in Int /\ b \in Int /\ c \in Int
  BY ListedParts, IdsAreOrdered
<1>2. Overlap(query, listed[a]) \in Nat /\ Overlap(query, listed[b]) \in Nat /\ Overlap(query, listed[c]) \in Nat
  BY ListedParts
<1> DEFINE p == Overlap(query, listed[a])
           q == Overlap(query, listed[b])
           r == Overlap(query, listed[c])
<1>3. /\ Precedes(query, listed, a, b) <=> p > q \/ (p = q /\ a < b)
      /\ Precedes(query, listed, b, a) <=> q > p \/ (q = p /\ b < a)
      /\ Precedes(query, listed, b, c) <=> q > r \/ (q = r /\ b < c)
      /\ Precedes(query, listed, a, c) <=> p > r \/ (p = r /\ a < c)
      /\ Precedes(query, listed, a, a) <=> p > p \/ (p = p /\ a < a)
  BY DEF Precedes
<1>4. p \in Nat /\ q \in Nat /\ r \in Nat
  BY <1>2
<1> HIDE DEF p, q, r
<1>5. /\ ~Precedes(query, listed, a, a)
      /\ Precedes(query, listed, a, b) /\ Precedes(query, listed, b, c) => Precedes(query, listed, a, c)
      /\ a # b => Precedes(query, listed, a, b) \/ Precedes(query, listed, b, a)
      /\ Precedes(query, listed, a, b) => q <= p
  BY <1>1, <1>3, <1>4
<1> QED
  BY <1>5 DEF p, q

Sooner(query, listed, m) == {k \in Given(listed) : Precedes(query, listed, k, m)}

\* A memory comes after more memories than one before it.
LEMMA SoonerGrows ==
    ASSUME NEW listed, KeepsOwn(listed), NEW query, NEW a \in Given(listed), NEW b \in Given(listed)
    PROVE  /\ Cardinality(Sooner(query, listed, a)) \in Nat
           /\ Cardinality(Sooner(query, listed, a)) < Cardinality(Given(listed))
           /\ Precedes(query, listed, a, b) <=> Cardinality(Sooner(query, listed, a)) < Cardinality(Sooner(query, listed, b))
           /\ Cardinality(Sooner(query, listed, a)) = Cardinality(Sooner(query, listed, b)) => a = b
<1>1. IsFiniteSet(Given(listed)) /\ Cardinality(Given(listed)) \in Nat
  BY ListedParts
<1>2. ASSUME NEW m \in Given(listed)
      PROVE  /\ Sooner(query, listed, m) \in SUBSET Given(listed) /\ m \notin Sooner(query, listed, m)
             /\ IsFiniteSet(Sooner(query, listed, m)) /\ Cardinality(Sooner(query, listed, m)) \in Nat
             /\ Cardinality(Sooner(query, listed, m)) < Cardinality(Given(listed))
  <2>1. Sooner(query, listed, m) \in SUBSET Given(listed) /\ m \notin Sooner(query, listed, m)
    BY PrecedesIsTotalOrder DEF Sooner
  <2>2. IsFiniteSet(Sooner(query, listed, m)) /\ Cardinality(Sooner(query, listed, m)) <= Cardinality(Given(listed))
    BY <1>1, <2>1, FS_Subset
  <2>3. Cardinality(Sooner(query, listed, m)) # Cardinality(Given(listed))
    BY <1>1, <2>1, FS_Subset
  <2>4. Cardinality(Sooner(query, listed, m)) \in Nat
    BY <2>2, FS_CardinalityType
  <2> QED
    BY <1>1, <2>1, <2>2, <2>3, <2>4
<1>3. ASSUME NEW p \in Given(listed), NEW q \in Given(listed), Precedes(query, listed, p, q)
      PROVE  Cardinality(Sooner(query, listed, p)) < Cardinality(Sooner(query, listed, q))
  <2>1. Sooner(query, listed, p) \in SUBSET Sooner(query, listed, q) /\ p \in Sooner(query, listed, q)
    BY <1>3, PrecedesIsTotalOrder DEF Sooner
  <2>2. p \notin Sooner(query, listed, p) /\ IsFiniteSet(Sooner(query, listed, q))
    BY <1>2
  <2>3. /\ Cardinality(Sooner(query, listed, p)) <= Cardinality(Sooner(query, listed, q))
        /\ Cardinality(Sooner(query, listed, p)) # Cardinality(Sooner(query, listed, q))
    BY <2>1, <2>2, FS_Subset
  <2> QED
    BY <1>2, <2>3
<1>4. a = b \/ Precedes(query, listed, a, b) \/ Precedes(query, listed, b, a)
  BY PrecedesIsTotalOrder
<1> QED
  BY <1>2, <1>3, <1>4

\* _rank_by_lexical_seed: every memory listed has a place, and none comes before one
\* that shares more with the query.
LEMMA RankedIsSorted ==
    ASSUME NEW listed, KeepsOwn(listed), NEW query
    PROVE  /\ RankedBySeed(query, listed) \in Seq(Given(listed))
           /\ DOMAIN RankedBySeed(query, listed) = 1..Len(RankedBySeed(query, listed))
           /\ Len(RankedBySeed(query, listed)) \in Nat
           /\ \A m \in Given(listed) : \E i \in DOMAIN RankedBySeed(query, listed) : RankedBySeed(query, listed)[i] = m
           /\ \A i, j \in DOMAIN RankedBySeed(query, listed) : i < j =>
                 Overlap(query, listed[RankedBySeed(query, listed)[j]]) <= Overlap(query, listed[RankedBySeed(query, listed)[i]])
<1> DEFINE n == Cardinality(Given(listed))
           ranked == RankedBySeed(query, listed)
           place == [m \in Given(listed) |-> Cardinality(Sooner(query, listed, m)) + 1]
<1>1. n \in Nat /\ IsFiniteSet(Given(listed))
  BY ListedParts
<1>2. place \in [Given(listed) -> 1..n] /\ \A a, b \in Given(listed) : place[a] = place[b] => a = b
  BY <1>1, SoonerGrows
<1>3. place \in Injection(Given(listed), 1..n)
  BY <1>2 DEF Injection, IsInjective
<1>4. IsFiniteSet(1..n) /\ Cardinality(1..n) = n
  BY <1>1, FS_Interval
<1>5. place \in Surjection(Given(listed), 1..n)
  BY <1>3, <1>4, FS_Injection
<1>6. ASSUME NEW i \in 1..n
      PROVE  ranked[i] \in Given(listed) /\ Cardinality(Sooner(query, listed, ranked[i])) = i - 1
  <2>1. PICK m \in Given(listed) : place[m] = i
    BY <1>5 DEF Surjection
  <2>2. Cardinality(Sooner(query, listed, m)) \in Nat
    BY SoonerGrows
  <2>3. Cardinality(Sooner(query, listed, m)) = i - 1
    BY <1>1, <2>1, <2>2
  <2>4. ranked[i] = CHOOSE h \in Given(listed) : Cardinality({k \in Given(listed) : Precedes(query, listed, k, h)}) = i - 1
    BY DEF RankedBySeed
  <2> HIDE DEF ranked
  <2> QED
    BY <2>3, <2>4 DEF Sooner
<1>7. ranked \in [1..n -> Given(listed)]
  <2> DEFINE at(i) == CHOOSE h \in Given(listed) : Cardinality({k \in Given(listed) : Precedes(query, listed, k, h)}) = i - 1
  <2>1. ranked = [i \in 1..n |-> at(i)]
    BY DEF RankedBySeed
  <2> HIDE DEF ranked, at
  <2>2. ASSUME NEW i \in 1..n PROVE at(i) \in Given(listed)
    BY <1>6, <2>1
  <2> QED
    BY <2>1, <2>2
<1> HIDE DEF ranked
<1>8. ranked \in Seq(Given(listed)) /\ Len(ranked) = n /\ DOMAIN ranked = 1..n
  BY <1>1, <1>7, ListOf
<1>9. ASSUME NEW m \in Given(listed) PROVE \E i \in 1..n : ranked[i] = m
  <2>1. place[m] \in 1..n
    BY <1>2
  <2>2. Cardinality(Sooner(query, listed, ranked[place[m]])) = place[m] - 1 /\ ranked[place[m]] \in Given(listed)
    BY <1>6, <2>1
  <2>3. place[m] - 1 = Cardinality(Sooner(query, listed, m))
    BY SoonerGrows
  <2> HIDE DEF place
  <2>4. ranked[place[m]] = m
    BY <2>2, <2>3, SoonerGrows
  <2> QED
    BY <2>1, <2>4
<1>10. ASSUME NEW i \in 1..n, NEW j \in 1..n, i < j
       PROVE  Overlap(query, listed[ranked[j]]) <= Overlap(query, listed[ranked[i]])
  <2>1. /\ ranked[i] \in Given(listed) /\ Cardinality(Sooner(query, listed, ranked[i])) = i - 1
        /\ ranked[j] \in Given(listed) /\ Cardinality(Sooner(query, listed, ranked[j])) = j - 1
    BY <1>6
  <2>2. i - 1 < j - 1
    BY <1>1, <1>10
  <2>3. Precedes(query, listed, ranked[i], ranked[j])
    BY <2>1, <2>2, SoonerGrows
  <2> QED
    BY <2>1, <2>3, PrecedesIsTotalOrder
<1> QED
  BY <1>1, <1>8, <1>9, <1>10 DEF ranked

-----------------------------------------------------------------------------
(***************************************************************************)
(* Retrieval: the budget.                                                  *)
(***************************************************************************)
LEMMA CostIsNatural ==
    ASSUME NEW rec \in Memory PROVE Cost(rec) \in Nat
<1>1. rec.text \in Texts
  BY DEF Memory
<1>2. Cardinality(rec.text) \in Nat
  BY <1>1, TextsAreFinite, FS_CardinalityType
<1> QED
  BY <1>2 DEF Cost

\* What is spent on a list, one record at a time.
LEMMA SpentStepByStep ==
    ASSUME NEW recs \in Seq(Memory)
    PROVE  \E h : /\ h[0] = 0
                  /\ \A i \in 1..Len(recs) : h[i] = h[i - 1] + Cost(recs[i])
                  /\ \A i \in 0..Len(recs) : h[i] \in Nat
                  /\ Spent(recs) = h[Len(recs)]
<1> DEFINE n == Len(recs)
           P(f) == f = [k \in 0..n |-> IF k = 0 THEN 0 ELSE f[k - 1] + Cost(recs[k])]
           chosen == CHOOSE f : P(f)
           step == [p \in (1..n) \X Nat |-> p[2] + Cost(recs[p[1]])]
<1>1. n \in Nat /\ \A i \in 1..n : Cost(recs[i]) \in Nat
  <2>1. Len(recs) \in Nat /\ \A i \in 1..Len(recs) : recs[i] \in Memory
    BY PartsOfSeq
  <2> QED
    BY <2>1, CostIsNatural
<1>2. \A i \in 1..n, v \in Nat : step[<<i, v>>] = v + Cost(recs[i]) /\ step[<<i, v>>] \in Nat
  <2>1. ASSUME NEW i \in 1..n, NEW v \in Nat
        PROVE  step[<<i, v>>] = v + Cost(recs[i]) /\ step[<<i, v>>] \in Nat
    <3>1. step[<<i, v>>] = v + Cost(recs[i])
      OBVIOUS
    <3>2. Cost(recs[i]) \in Nat
      BY <1>1
    <3> HIDE DEF step
    <3> QED
      BY <3>1, <3>2
  <2> QED
    BY <2>1
<1>3. Spent(recs) = chosen[n]
  BY DEF Spent
<1> DEFINE first == 0
           V == Nat
<1>4. n \in Nat /\ first \in V /\ StaysIn(V, n, step)
  <2> HIDE DEF step, n
  <2> QED
    BY <1>1, <1>2 DEF StaysIn
<1> HIDE DEF step, n, chosen, first, V
<1>5. PICK h : /\ h = [i \in 0..n |-> IF i = 0 THEN first ELSE step[<<i, h[i - 1]>>]]
               /\ \A i \in 0..n : h[i] \in V
  BY <1>4, Solved
<1>6. P(h)
  <2>1. ASSUME NEW i \in 0..n, i # 0
        PROVE  step[<<i, h[i - 1]>>] = h[i - 1] + Cost(recs[i])
    <3>1. i \in 1..n /\ i - 1 \in 0..n
      BY <1>1, <2>1
    <3> QED
      BY <1>2, <1>5, <3>1 DEF V
  <2> QED
    BY <1>5, <2>1 DEF first
<1>7. P(chosen)
  <2>1. \E f : P(f)
    BY <1>6
  <2> QED
    BY <2>1, Zenon DEF chosen
<1>8. chosen[0] = 0
  BY <1>1, <1>7
<1>9. ASSUME NEW i \in 1..n PROVE chosen[i] = chosen[i - 1] + Cost(recs[i])
  <2>1. i \in 0..n /\ i # 0
    BY <1>1
  <2> QED
    BY <1>7, <2>1
<1>10. \A i \in 0..n : chosen[i] \in Nat
  <2>1. chosen[0] \in Nat
    BY <1>8
  <2>2. ASSUME NEW i \in 1..n, chosen[i - 1] \in Nat PROVE chosen[i] \in Nat
    <3>1. chosen[i] = chosen[i - 1] + Cost(recs[i]) /\ Cost(recs[i]) \in Nat
      BY <1>1, <1>9
    <3> DEFINE before == chosen[i - 1]
    <3>2. before \in Nat /\ chosen[i] = before + Cost(recs[i])
      BY <2>2, <3>1
    <3> HIDE DEF before
    <3> QED
      BY <3>1, <3>2
  <2> QED
    BY <1>1, <2>1, <2>2, AllIn
<1> QED
  BY <1>3, <1>8, <1>9, <1>10 DEF n

LEMMA NothingIsSpent == Spent(<<>>) = 0
<1>1. <<>> \in Seq(Memory) /\ Len(<<>>) = 0
  BY EmptySeq
<1>2. PICK h : h[0] = 0 /\ Spent(<<>>) = h[Len(<<>>)]
  BY <1>1, SpentStepByStep
<1> QED
  BY <1>1, <1>2

LEMMA SpentIsNatural ==
    ASSUME NEW recs \in Seq(Memory) PROVE Spent(recs) \in Nat
<1>1. Len(recs) \in Nat
  BY PartsOfSeq
<1>2. PICK h : /\ \A i \in 0..Len(recs) : h[i] \in Nat
               /\ Spent(recs) = h[Len(recs)]
  BY SpentStepByStep
<1>3. Len(recs) \in 0..Len(recs)
  BY <1>1
<1> QED
  BY <1>2, <1>3

LEMMA OneMoreIsSpent ==
    ASSUME NEW recs \in Seq(Memory), NEW rec \in Memory
    PROVE  Spent(Append(recs, rec)) = Spent(recs) + Cost(rec)
<1> DEFINE n == Len(recs)
           more == Append(recs, rec)
<1>1. /\ more \in Seq(Memory) /\ Len(more) = n + 1 /\ more[n + 1] = rec
      /\ \A i \in 1..n : more[i] = recs[i]
      /\ n \in Nat
  <2>1. n \in Nat
    BY PartsOfSeq
  <2> QED
    BY <2>1, AppendProperties
<1> HIDE DEF more, n
<1>2. PICK g : /\ g[0] = 0
               /\ \A i \in 1..n : g[i] = g[i - 1] + Cost(recs[i])
               /\ Spent(recs) = g[n]
  BY SpentStepByStep DEF n
<1>3. PICK h : /\ h[0] = 0
               /\ \A i \in 1..(n + 1) : h[i] = h[i - 1] + Cost(more[i])
               /\ Spent(more) = h[n + 1]
  BY <1>1, SpentStepByStep
<1> DEFINE T == {i \in 0..n : h[i] = g[i]}
<1>4. 0 \in T
  BY <1>1, <1>2, <1>3
<1>5. \A i \in 1..n : i - 1 \in T => i \in T
  <2>1. ASSUME NEW i \in 1..n, h[i - 1] = g[i - 1] PROVE h[i] = g[i]
    <3>1. i \in 1..(n + 1) /\ more[i] = recs[i]
      BY <1>1
    <3> QED
      BY <1>2, <1>3, <2>1, <3>1
  <2> QED
    BY <1>1, <2>1
<1>6. h[n] = g[n]
  <2> HIDE DEF T
  <2>1. 0..n \subseteq T
    BY <1>1, <1>4, <1>5, UpTo
  <2> QED
    BY <1>1, <2>1 DEF T
<1>7. h[n + 1] = h[n] + Cost(rec)
  <2>1. n + 1 \in 1..(n + 1) /\ (n + 1) - 1 = n
    BY <1>1
  <2> QED
    BY <1>1, <1>3, <2>1
<1> QED
  BY <1>2, <1>3, <1>6, <1>7 DEF more

Distinct(recs) == \A i, j \in DOMAIN recs : recs[i].id = recs[j].id => i = j

\* The elements of v are elements of recs up to k, no two of one id.
PickedFrom(v, recs, k) ==
    /\ \A p \in DOMAIN v : \E q \in 1..k : v[p] = recs[q]
    /\ Distinct(v)

LEMMA PickingOneMore ==
    ASSUME NEW S, NEW recs \in Seq(S), Distinct(recs), NEW k \in 1..Len(recs),
           NEW v \in Seq(S), PickedFrom(v, recs, k - 1)
    PROVE  PickedFrom(v, recs, k) /\ PickedFrom(Append(v, recs[k]), recs, k)
<1>1. Len(recs) \in Nat /\ DOMAIN recs = 1..Len(recs) /\ recs[k] \in S /\ k \in Nat
  <2>1. Len(recs) \in Nat /\ DOMAIN recs = 1..Len(recs) /\ \A i \in 1..Len(recs) : recs[i] \in S
    BY PartsOfSeq
  <2> QED
    BY <2>1
<1>2. \A q \in 1..(k - 1) : q \in 1..k /\ q \in 1..Len(recs) /\ q # k
  BY <1>1
<1>3. PickedFrom(v, recs, k)
  BY <1>2 DEF PickedFrom
<1> DEFINE more == Append(v, recs[k])
<1>4. Len(v) \in Nat /\ DOMAIN v = 1..Len(v)
  BY PartsOfSeq
<1>5. /\ DOMAIN more = 1..(Len(v) + 1) /\ more[Len(v) + 1] = recs[k]
      /\ \A p \in 1..Len(v) : more[p] = v[p]
  <2>1. more \in Seq(S) /\ Len(more) = Len(v) + 1
    BY <1>1, AppendProperties
  <2>2. DOMAIN more = 1..Len(more)
    <3> HIDE DEF more
    <3> QED
      BY <2>1, PartsOfSeq
  <2>3. more[Len(v) + 1] = recs[k] /\ \A p \in 1..Len(v) : more[p] = v[p]
    BY <1>1, AppendProperties
  <2> QED
    BY <2>1, <2>2, <2>3
<1> HIDE DEF more
<1>6. \A p \in DOMAIN more : p \in DOMAIN v \/ p = Len(v) + 1
  BY <1>4, <1>5
<1>7. \A p \in DOMAIN v : p \in 1..Len(v) /\ more[p] = v[p] /\ \E q \in 1..(k - 1) : v[p] = recs[q]
  BY <1>4, <1>5 DEF PickedFrom
<1>8. \A p \in DOMAIN more : \E q \in 1..k : more[p] = recs[q]
  BY <1>1, <1>2, <1>5, <1>6, <1>7
<1>9. \A p \in DOMAIN v : v[p].id # recs[k].id
  BY <1>1, <1>2, <1>7 DEF Distinct
<1>10. Distinct(more)
  BY <1>5, <1>6, <1>7, <1>9 DEF Distinct, PickedFrom
<1> QED
  BY <1>3, <1>8, <1>10 DEF PickedFrom, more

\* _fit_to_budget returns memories it was given, none twice, that cost no more than
\* the budget.
LEMMA FitKeepsToBudget ==
    ASSUME NEW Good, Good \subseteq Memory, NEW recs \in Seq(Good), Distinct(recs)
    PROVE  /\ FitToBudget(recs) \in Seq(Good)
           /\ Spent(FitToBudget(recs)) <= TokenBudget
           /\ Distinct(FitToBudget(recs))
<1> DEFINE n == Len(recs)
           V == {v \in Seq(Good) : Spent(v) <= TokenBudget}
           next(v, i) == IF Spent(v) + Cost(recs[i]) > TokenBudget THEN v ELSE Append(v, recs[i])
           P(f) == f = [k \in 0..n |-> IF k = 0 THEN <<>> ELSE next(f[k - 1], k)]
           chosen == CHOOSE f : P(f)
           step == [p \in (1..n) \X V |-> next(p[2], p[1])]
<1>1. /\ n \in Nat /\ TokenBudget \in Nat
      /\ \A i \in 1..n : recs[i] \in Good /\ recs[i] \in Memory /\ Cost(recs[i]) \in Nat
  <2>1. Len(recs) \in Nat /\ \A i \in 1..Len(recs) : recs[i] \in Good
    BY PartsOfSeq
  <2> QED
    BY <2>1, CostIsNatural, LimitsAreNaturals
<1>2. ASSUME NEW v \in Seq(Good) PROVE v \in Seq(Memory)
  <2>1. Len(v) \in Nat /\ v \in [1..Len(v) -> Good]
    BY PartsOfSeq
  <2>2. v \in [1..Len(v) -> Memory]
    BY <2>1
  <2> QED
    BY <2>1, <2>2, ListOf
<1>3. ASSUME NEW i \in 1..n, NEW v \in V PROVE next(v, i) \in V
  <2>1. v \in Seq(Good) /\ Spent(v) \in Nat /\ Spent(v) <= TokenBudget
    BY <1>2, SpentIsNatural
  <2>2. recs[i] \in Good /\ recs[i] \in Memory /\ Cost(recs[i]) \in Nat
    BY <1>1
  <2>3. /\ Append(v, recs[i]) \in Seq(Good)
        /\ Spent(Append(v, recs[i])) = Spent(v) + Cost(recs[i])
    BY <1>2, <2>1, <2>2, OneMoreIsSpent, AppendProperties
  <2> QED
    BY <1>1, <2>1, <2>2, <2>3
<1>4. FitToBudget(recs) = chosen[n]
  BY DEF FitToBudget
<1>5. <<>> \in V
  BY <1>1, NothingIsSpent, EmptySeq
<1> HIDE DEF next
<1>6. \A i \in 1..n, v \in V : step[<<i, v>>] = next(v, i)
  OBVIOUS
<1> HIDE DEF V, n, step, chosen
<1>7. StaysIn(V, n, step)
  BY <1>3, <1>6 DEF StaysIn
<1>8. PICK h : /\ h = [i \in 0..n |-> IF i = 0 THEN <<>> ELSE step[<<i, h[i - 1]>>]]
               /\ \A i \in 0..n : h[i] \in V
  BY <1>1, <1>5, <1>7, Solved
<1>9. P(h)
  <2>1. ASSUME NEW i \in 0..n, i # 0 PROVE step[<<i, h[i - 1]>>] = next(h[i - 1], i)
    <3>1. i \in 1..n /\ i - 1 \in 0..n
      BY <1>1, <2>1
    <3>2. h[i - 1] \in V
      BY <1>8, <3>1
    <3> QED
      BY <1>6, <3>1, <3>2
  <2> QED
    BY <1>8, <2>1
<1>10. P(chosen)
  <2>1. \E f : P(f)
    BY <1>9
  <2> QED
    BY <2>1, Zenon DEF chosen
<1>11. chosen[0] = <<>>
  BY <1>1, <1>10
<1>12. ASSUME NEW i \in 1..n PROVE chosen[i] = next(chosen[i - 1], i)
  <2>1. i \in 0..n /\ i # 0
    BY <1>1
  <2> QED
    BY <1>10, <2>1
<1>13. \A i \in 0..n : chosen[i] \in V
  <2>1. chosen[0] \in V
    BY <1>5, <1>11
  <2>2. ASSUME NEW i \in 1..n, chosen[i - 1] \in V PROVE chosen[i] \in V
    BY <1>3, <1>12, <2>2
  <2> QED
    BY <1>1, <2>1, <2>2, AllIn
<1> DEFINE T == {i \in 0..n : PickedFrom(chosen[i], recs, i)}
<1>14. 0 \in T
  BY <1>1, <1>11 DEF PickedFrom, Distinct
<1>15. \A i \in 1..n : i - 1 \in T => i \in T
  <2>1. ASSUME NEW i \in 1..n, PickedFrom(chosen[i - 1], recs, i - 1)
        PROVE  PickedFrom(chosen[i], recs, i)
    <3>1. i - 1 \in 0..n
      BY <1>1
    <3>2. chosen[i - 1] \in Seq(Good)
      BY <1>13, <3>1 DEF V
    <3>3. PICK v : v = chosen[i - 1]
      OBVIOUS
    <3>4. PickedFrom(v, recs, i) /\ PickedFrom(Append(v, recs[i]), recs, i)
      BY <2>1, <3>2, <3>3, PickingOneMore DEF n
    <3>5. chosen[i] = v \/ chosen[i] = Append(v, recs[i])
      BY <1>12, <3>3 DEF next
    <3> QED
      BY <3>4, <3>5
  <2> QED
    BY <1>1, <2>1
<1>16. PickedFrom(chosen[n], recs, n)
  <2> HIDE DEF T
  <2>1. 0..n \subseteq T
    BY <1>1, <1>14, <1>15, UpTo
  <2> QED
    BY <1>1, <2>1 DEF T
<1> QED
  BY <1>1, <1>4, <1>13, <1>16 DEF PickedFrom, V

-----------------------------------------------------------------------------
(***************************************************************************)
(* Retrieval: the candidates.                                              *)
(***************************************************************************)
LEMMA JoinedIsAList ==
    ASSUME NEW S, NEW s \in Seq(S), NEW t \in Seq(S)
    PROVE  /\ s \o t \in Seq(S) /\ Len(s) <= Len(s \o t)
           /\ \A i \in 1..Len(s) : (s \o t)[i] = s[i]
<1>1. Len(s) \in Nat /\ Len(t) \in Nat
  BY PartsOfSeq
<1>2. /\ s \o t \in Seq(S) /\ Len(s \o t) = Len(s) + Len(t)
      /\ \A i \in 1..Len(s) + Len(t) : (s \o t)[i] = IF i <= Len(s) THEN s[i] ELSE t[i - Len(s)]
  BY ConcatProperties
<1>3. \A i \in 1..Len(s) : i \in 1..Len(s) + Len(t) /\ i <= Len(s)
  BY <1>1
<1> QED
  BY <1>1, <1>2, <1>3

LEMMA ElementsIn ==
    ASSUME NEW S, NEW s \in Seq(S) PROVE ToSet(s) \subseteq S
BY PartsOfSeq DEF ToSet

\* What a vector store returns is a list.
LEMMA MatchesAreAList ==
    ASSUME NEW matches \in VectorMatches PROVE Len(matches) \in Nat
<1> DEFINE most == IF VectorLimit < 1 THEN 1 ELSE VectorLimit
<1>1. most \in Nat
  BY LimitsAreNaturals
<1>2. matches \in BoundedSeq(Ids, most)
  BY DEF VectorMatches
<1> HIDE DEF most
<1>3. PICK m \in 0..most : matches \in [1..m -> Ids]
  BY <1>2 DEF BoundedSeq, SeqOf
<1>4. m \in Nat
  BY <1>1
<1> QED
  BY <1>3, <1>4, ListOf

\* _seed_candidates: every seed is a memory that was listed.
LEMMA SeedsAreListed ==
    ASSUME NEW listed, KeepsOwn(listed), NEW query, NEW matches \in VectorMatches, NEW limit \in Nat
    PROVE  SeedCandidates(query, listed, matches, limit) \in Seq(Given(listed))
<1> DEFINE ranked == RankedBySeed(query, listed)
           first == Truncated(ranked, LexicalLimit)
           overlapping == {m \in Given(listed) : Overlap(query, listed[m]) > 0}
           lexical == Among(first, overlapping)
           vector == Among(matches, Given(listed))
           most == CHOOSE n \in {limit, VectorLimit, LexicalLimit} :
                      \A k \in {limit, VectorLimit, LexicalLimit} : k <= n
           seeds == SeedCandidates(query, listed, matches, limit)
<1>1. LexicalLimit \in Nat /\ VectorLimit \in Nat
  BY LimitsAreNaturals
<1>2. most \in Nat
  <2>1. \E n \in {limit, VectorLimit, LexicalLimit} :
           \A k \in {limit, VectorLimit, LexicalLimit} : k <= n
    BY <1>1
  <2>2. most \in {limit, VectorLimit, LexicalLimit}
    BY <2>1
  <2> HIDE DEF most
  <2> QED
    BY <1>1, <2>2
<1>3. seeds = IF lexical # <<>> THEN Truncated(lexical \o vector, most)
              ELSE IF vector # <<>> THEN vector
              ELSE Truncated(first, limit)
  BY DEF SeedCandidates
<1> HIDE DEF most, seeds
<1>4. ranked \in Seq(Given(listed))
  BY RankedIsSorted
<1> HIDE DEF ranked
<1>5. first \in Seq(Given(listed)) /\ Len(first) \in Nat
  BY <1>1, <1>4, TruncatedIsAPrefix
<1> HIDE DEF first
<1>6. lexical \in Seq(overlapping)
  <2> HIDE DEF overlapping
  <2> QED
    BY <1>5, AmongIsAList
<1>7. lexical \in Seq(Given(listed))
  <2> HIDE DEF lexical
  <2>1. Len(lexical) \in Nat /\ lexical \in [1..Len(lexical) -> overlapping]
    <3> HIDE DEF overlapping
    <3> QED
      BY <1>6, PartsOfSeq
  <2>2. lexical \in [1..Len(lexical) -> Given(listed)]
    BY <2>1
  <2> QED
    BY <2>1, <2>2, ListOf
<1>8. vector \in Seq(Given(listed))
  BY MatchesAreAList, AmongIsAList
<1> HIDE DEF lexical, vector
<1>9. lexical \o vector \in Seq(Given(listed))
  BY <1>7, <1>8, JoinedIsAList
<1>10. Truncated(lexical \o vector, most) \in Seq(Given(listed))
  BY <1>2, <1>9, TruncatedIsAPrefix
<1>11. Truncated(first, limit) \in Seq(Given(listed))
  BY <1>5, TruncatedIsAPrefix
<1>12. seeds \in Seq(Given(listed))
  BY <1>3, <1>8, <1>10, <1>11
<1> QED
  BY <1>12 DEF seeds, ranked

\* _expand_graph_neighbors: what an edge of a seed leads to.
LEMMA EdgesLeadOut ==
    ASSUME TablesInv, NEW s \in Ids, NEW found \in EdgesOut(s)
    PROVE  /\ found \in Ids \X EdgeType
           /\ found[2] \in Neighbors(s) /\ found[1] = OtherEnd(s, found[2])
<1>1. PICK e \in Neighbors(s) : found = <<OtherEnd(s, e), e>>
  BY DEF EdgesOut
<1>2. PICK row \in edges : e = row.payload
  BY <1>1 DEF Neighbors
<1>3. e \in EdgeType
  BY <1>2, RowParts DEF TablesInv
<1>4. OtherEnd(s, e) \in Ids
  BY <1>3, EdgeParts DEF OtherEnd
<1> QED
  BY <1>1, <1>3, <1>4

\* _assemble_ordered_candidates: no memory listed is left out for one that shares
\* less with the query.
LEMMA AssembledKeepsTheBest ==
    ASSUME NEW listed, KeepsOwn(listed), NEW query, NEW near, IsFiniteSet(near), NEW limit \in Nat
    PROVE  LET ids == Assemble(RankedBySeed(query, listed), near, limit)
           IN /\ ids \in Seq(Given(listed) \cup near)
              /\ \A c \in ToSet(ids), m \in Given(listed) \ ToSet(ids) :
                    c \in Given(listed) /\ Overlap(query, listed[m]) <= Overlap(query, listed[c])
<1> DEFINE ranked == RankedBySeed(query, listed)
           others == near \ ToSet(ranked)
           rest == SetToSeq(others)
           all == ranked \o rest
           ids == Assemble(ranked, near, limit)
           S == Given(listed) \cup near
<1>1. /\ ranked \in Seq(Given(listed)) /\ DOMAIN ranked = 1..Len(ranked) /\ Len(ranked) \in Nat
      /\ \A m \in Given(listed) : \E i \in DOMAIN ranked : ranked[i] = m
      /\ \A i, j \in DOMAIN ranked : i < j => Overlap(query, listed[ranked[j]]) <= Overlap(query, listed[ranked[i]])
  BY RankedIsSorted
<1>2. ids = Truncated(all, limit)
  BY DEF Assemble
<1> HIDE DEF ranked, ids
<1>3. ranked \in Seq(S)
  <2>1. ranked \in [1..Len(ranked) -> Given(listed)]
    BY <1>1, PartsOfSeq
  <2>2. ranked \in [1..Len(ranked) -> S]
    BY <2>1
  <2> HIDE DEF S
  <2> QED
    BY <1>1, <2>2, ListOf
<1>4. rest \in Seq(S)
  <2>1. others \in SUBSET near
    OBVIOUS
  <2>2. IsFiniteSet(others)
    BY <2>1, FS_Subset
  <2>3. others \subseteq S
    OBVIOUS
  <2> HIDE DEF others
  <2>4. rest \in Seq(others)
    BY <2>2, SetToSeqIsAList
  <2> HIDE DEF rest, S
  <2>5. Len(rest) \in Nat /\ rest \in [1..Len(rest) -> others]
    BY <2>4, PartsOfSeq
  <2>6. rest \in [1..Len(rest) -> S]
    BY <2>3, <2>5
  <2> QED
    BY <2>5, <2>6, ListOf
<1> HIDE DEF rest, S
<1>5. all \in Seq(S) /\ Len(ranked) <= Len(all) /\ \A i \in 1..Len(ranked) : all[i] = ranked[i]
  BY <1>3, <1>4, JoinedIsAList
<1> HIDE DEF all
<1>6. /\ ids \in Seq(S) /\ Len(ids) \in Nat
      /\ Len(ids) = IF limit < Len(all) THEN limit ELSE Len(all)
      /\ DOMAIN ids = 1..Len(ids)
      /\ \A i \in 1..Len(ids) : i \in DOMAIN all /\ ids[i] = all[i]
  BY <1>2, <1>5, TruncatedIsAPrefix
<1>7. Len(all) \in Nat
  BY <1>5, PartsOfSeq
<1>8. ASSUME NEW c \in ToSet(ids), NEW m \in Given(listed), m \notin ToSet(ids)
      PROVE  c \in Given(listed) /\ Overlap(query, listed[m]) <= Overlap(query, listed[c])
  <2>1. PICK j \in 1..Len(ranked) : ranked[j] = m
    BY <1>1
  <2>2. limit < j
    <3>1. ASSUME j <= limit PROVE FALSE
      <4>1. j \in 1..Len(ids)
        BY <1>1, <1>5, <1>6, <1>7, <3>1
      <4>2. ids[j] = m
        BY <1>5, <1>6, <2>1, <4>1
      <4> QED
        BY <1>6, <1>8, <4>1, <4>2 DEF ToSet
    <3> QED
      BY <1>1, <3>1
  <2>3. PICK i \in 1..Len(ids) : c = ids[i]
    BY <1>6 DEF ToSet
  <2>4. i < j /\ i \in 1..Len(ranked)
    BY <1>1, <1>6, <1>7, <2>2, <2>3
  <2>5. c = ranked[i]
    BY <1>5, <1>6, <2>3, <2>4
  <2>6. ranked[i] \in Given(listed)
    BY <1>1, <2>4, PartsOfSeq
  <2> QED
    BY <1>1, <2>1, <2>4, <2>5, <2>6
<1> QED
  BY <1>6, <1>8 DEF ids, ranked, S

-----------------------------------------------------------------------------
(***************************************************************************)
(* Retrieval: what has been read.                                          *)
(***************************************************************************)
ReadingType ==
    [step : {"none", "search", "expand"}, query : Queries \cup {{}}, topK : Nat,
     listed : [Ids -> Memory \cup {Absent}], seeds : SUBSET Ids, toExpand : Seq(Ids),
     toFetch : SUBSET (Ids \X EdgeType), near : [Ids -> Memory \cup {Absent}]]

LedTo(m) == \E s \in asked.seeds : \E e \in Neighbors(s) : m = OtherEnd(s, e)

\* What a retrieval has read are records it may return; of a memory that the writer has
\* written nothing of since, it is what the stores hold now.
ReadInv ==
    /\ asked \in ReadingType /\ touched \subseteq Ids
    /\ asked = NotAsked => touched = {}
    /\ asked # NotAsked => reply.left = <<>>
    /\ KeepsOwn(asked.listed) /\ KeepsOwn(asked.near)
    /\ asked.seeds \subseteq Given(asked.listed) /\ asked.toExpand \in Seq(asked.seeds)
    /\ asked.step # "expand" => Given(asked.near) = {} /\ asked.toFetch = {}
    /\ asked # NotAsked =>
          \A m \in Ids \ touched :
              asked.listed[m] = IF IsActive(memories[m]) THEN memories[m] ELSE Absent
    /\ \A m \in Given(asked.near) \ touched :
           asked.near[m] = NeighborMemory(m) /\ LedTo(m)
    /\ \A found \in asked.toFetch : found[1] \in touched \/ LedTo(found[1])

LEMMA NothingIsRead ==
    /\ NotAsked \in ReadingType /\ NotAsked.step = "none"
    /\ KeepsOwn(NotAsked.listed) /\ Given(NotAsked.listed) = {}
    /\ KeepsOwn(NotAsked.near) /\ Given(NotAsked.near) = {}
    /\ NotAsked.seeds = {} /\ NotAsked.toExpand = <<>> /\ NotAsked.toExpand \in Seq({})
    /\ NotAsked.toFetch = {}
BY EmptySeq DEF NotAsked, ReadingType, Nothing, KeepsOwn, Given

LEMMA NoReadInv ==
    ASSUME asked' = NotAsked, touched' = {} PROVE ReadInv'
BY NothingIsRead DEF ReadInv

\* A writer's command leaves what was read of the ids it does not speak of.
Spares(ids) ==
    \A m \in Ids \ ids :
        /\ memories'[m] = memories[m] /\ NeighborMemory(m)' = NeighborMemory(m)
        /\ \A s \in Ids : \A e \in Neighbors(s) : m = OtherEnd(s, e) => e \in Neighbors(s)'

LEMMA SparingKeepsReads ==
    ASSUME ReadInv, NEW ids, ids \subseteq Ids, Touch(ids), UNCHANGED <<asked, reply>>, Spares(ids)
    PROVE  ReadInv'
<1>1. CASE asked = NotAsked
  BY <1>1, NoReadInv DEF Touch
<1>2. CASE asked # NotAsked
  <2>1. touched' = touched \cup ids /\ touched' \subseteq Ids
    BY <1>2 DEF Touch, ReadInv
  <2>2. asked.seeds \subseteq Ids
    BY DEF ReadInv, ReadingType
  <2>3. ASSUME NEW m \in Ids, m \notin touched', LedTo(m) PROVE LedTo(m)'
    <3>1. PICK s \in asked.seeds : \E e \in Neighbors(s) : m = OtherEnd(s, e)
      BY <2>3 DEF LedTo
    <3>2. PICK e \in Neighbors(s) : m = OtherEnd(s, e)
      BY <3>1
    <3>3. e \in Neighbors(s)'
      BY <2>1, <2>2, <2>3, <3>2 DEF Spares
    <3>4. asked'.seeds = asked.seeds /\ OtherEnd(s, e)' = OtherEnd(s, e)
      BY DEF OtherEnd
    <3> QED
      BY <3>2, <3>3, <3>4 DEF LedTo
  <2>4. \A m \in Ids \ touched' :
           m \notin touched /\ memories'[m] = memories[m] /\ NeighborMemory(m)' = NeighborMemory(m)
    BY <2>1 DEF Spares
  <2>5. \A m \in Given(asked.near) \ touched' : asked.near[m] = NeighborMemory(m)' /\ LedTo(m)'
    BY <2>3, <2>4 DEF ReadInv, Given
  <2>6. \A found \in asked.toFetch : found[1] \in touched' \/ LedTo(found[1])'
    <3>1. \A found \in asked.toFetch : found[1] \in Ids
      BY DEF ReadInv, ReadingType
    <3> QED
      BY <2>1, <2>3, <3>1 DEF ReadInv
  <2>7. \A m \in Ids \ touched' :
           asked.listed[m] = IF IsActive(memories'[m]) THEN memories'[m] ELSE Absent
    BY <1>2, <2>4 DEF ReadInv
  <2>8. (\A m \in Ids \ touched :
           asked.listed[m] = IF IsActive(memories[m]) THEN memories[m] ELSE Absent)'
    BY <2>7 DEF IsActive
  <2>9. (\A m \in Given(asked.near) \ touched : asked.near[m] = NeighborMemory(m) /\ LedTo(m))'
    BY <2>5 DEF Given
  <2>10. (\A found \in asked.toFetch : found[1] \in touched \/ LedTo(found[1]))'
    BY <2>6
  <2>11. /\ asked' \in ReadingType
         /\ asked' # NotAsked /\ reply'.left = <<>>
         /\ KeepsOwn(asked.listed)' /\ KeepsOwn(asked.near)'
         /\ asked'.seeds \subseteq Given(asked.listed)' /\ asked'.toExpand \in Seq(asked'.seeds)
         /\ asked'.step # "expand" => Given(asked.near)' = {} /\ asked'.toFetch = {}
    BY <1>2 DEF ReadInv, KeepsOwn, Given
  <2> QED
    BY <2>1, <2>8, <2>9, <2>10, <2>11 DEF ReadInv
<1> QED
  BY <1>1, <1>2

\* Nothing is written.
LEMMA StillReading ==
    ASSUME ReadInv, UNCHANGED <<deployment, memories, nodes, edges, links, asked, touched, reply>>
    PROVE  ReadInv'
<1>1. Touch({})
  BY DEF ReadInv, Touch
<1>2. Spares({})
  BY DEF Spares, NeighborMemory, GraphGetMemory, GetMemory, LoadOptionalPayload,
         SharesMemoryStore, Neighbors, IsNeighborRow
<1> QED
  BY <1>1, <1>2, SparingKeepsReads

-----------------------------------------------------------------------------
(***************************************************************************)
(* Retrieval: what the writer does meanwhile.                              *)
(***************************************************************************)
LEMMA RecordsSpareOthers ==
    ASSUME NEW recs \in Seq(Memory)
    PROVE  /\ IdsIn(recs) \subseteq Ids
           /\ \A table : \A m \in Ids \ IdsIn(recs) : WithRecords(table, recs)[m] = table[m]
<1>1. \A i \in DOMAIN recs : recs[i] \in Memory
  BY PartsOfSeq
<1>2. IdsIn(recs) \subseteq Ids
  BY <1>1 DEF IdsIn, Memory
<1>3. ASSUME NEW table, NEW m \in Ids \ IdsIn(recs) PROVE WithRecords(table, recs)[m] = table[m]
  BY <1>3, RecordsAt DEF IdsIn
<1> QED
  BY <1>2, <1>3

\* The edges that are not written again are found as before.
LEMMA EdgesSpareOthers ==
    ASSUME TablesInv, NEW es \in Seq(EdgeType), UNCHANGED <<deployment, links>>,
           edges' = WithEdges(edges, es)
    PROVE  /\ EndsIn(es) \subseteq Ids
           /\ \A m \in Ids \ EndsIn(es) : \A s \in Ids : \A e \in Neighbors(s) :
                 m = OtherEnd(s, e) => e \in Neighbors(s)'
<1>1. \A i \in DOMAIN es : es[i] \in EdgeType
  BY PartsOfSeq
<1>2. EndsIn(es) \subseteq Ids
  BY <1>1, EdgeParts DEF EndsIn
<1>3. ASSUME NEW m \in Ids \ EndsIn(es), NEW s \in Ids, NEW e \in Neighbors(s), m = OtherEnd(s, e)
      PROVE  e \in Neighbors(s)'
  <2>1. PICK row \in edges : IsNeighborRow(row, s) /\ ~row.payload.archived /\ e = row.payload
    BY DEF Neighbors
  <2>2. e \in EdgeType /\ row = StoredEdge(e)
    BY <2>1, RowParts DEF TablesInv
  <2>3. m \in {e.source, e.target}
    BY <1>3 DEF OtherEnd
  <2>4. ASSUME NEW i \in DOMAIN es, IdOf(es[i]) = IdOf(e) PROVE FALSE
    <3>1. es[i].source = e.source /\ es[i].target = e.target
      BY <1>1, <2>2, <2>4, EdgeParts
    <3>2. m \in {es[i].source, es[i].target}
      BY <2>3, <3>1
    <3>3. m \in EndsIn(es)
      BY <3>2 DEF EndsIn
    <3> QED
      BY <3>3
  <2>5. edges \in SUBSET SoundRows
    BY DEF TablesInv
  <2>6. row \in edges'
    BY <2>1, <2>2, <2>4, <2>5, EdgesAreWritten
  <2>7. IsNeighborRow(row, s)'
    BY <2>1 DEF IsNeighborRow
  <2> QED
    BY <2>1, <2>6, <2>7 DEF Neighbors
<1> QED
  BY <1>2, <1>3

LEMMA SameGraph ==
    ASSUME UNCHANGED <<deployment, edges, links>>
    PROVE  \A s \in Ids : Neighbors(s)' = Neighbors(s)
BY DEF Neighbors, IsNeighborRow

LEMMA SameMemory ==
    ASSUME UNCHANGED deployment, NEW m \in Ids, memories'[m] = memories[m],
           \/ SharesMemoryStore
           \/ LoadOptionalPayload(nodes'[m]) = LoadOptionalPayload(nodes[m])
    PROVE  NeighborMemory(m)' = NeighborMemory(m)
BY DEF NeighborMemory, GraphGetMemory, GetMemory, LoadOptionalPayload, SharesMemoryStore

LEMMA CommandIsTyped ==
    ASSUME LibraryInv, todo # <<>>
    PROVE  TablesInv /\ Command \in Commands
<1>1. TablesInv /\ todo \in Seq(Commands)
  BY DEF LibraryInv, TodoInv
<1> QED
  BY <1>1, TailPlaces DEF Command

LEMMA PutKeepsReads ==
    ASSUME LibraryInv, ReadInv, Put PROVE ReadInv'
<1> DEFINE recs == Command.recs
<1>1. /\ todo # <<>> /\ Command.op = "put" /\ Touch(IdsIn(recs))
      /\ memories' = WithRecords(memories, recs)
      /\ UNCHANGED <<deployment, nodes, edges, links, asked, reply>>
  BY DEF Put, Next1, Command, StillAtIt
<1>2. recs \in Seq(Memory)
  BY <1>1, CommandIsTyped, CommandCases
<1> HIDE DEF recs
<1>3. /\ IdsIn(recs) \subseteq Ids
      /\ \A m \in Ids \ IdsIn(recs) : memories'[m] = memories[m]
  BY <1>1, <1>2, RecordsSpareOthers
<1>4. \A m \in Ids \ IdsIn(recs) : NeighborMemory(m)' = NeighborMemory(m)
  BY <1>1, <1>3, SameMemory
<1>5. Spares(IdsIn(recs))
  BY <1>1, <1>3, <1>4, SameGraph DEF Spares
<1> QED
  BY <1>1, <1>3, <1>5, SparingKeepsReads

LEMMA NodeKeepsReads ==
    ASSUME LibraryInv, ReadInv, UpsertNode PROVE ReadInv'
<1> DEFINE recs == Command.recs
<1>1. /\ todo # <<>> /\ Command.op = "node" /\ Touch(IdsIn(recs))
      /\ SharesMemoryStore => memories' = WithRecords(memories, recs) /\ nodes' = nodes
      /\ ~SharesMemoryStore => nodes' = WithRecords(nodes, recs) /\ memories' = memories
      /\ UNCHANGED <<deployment, edges, links, asked, reply>>
  BY DEF UpsertNode, Next1, Command, StillAtIt
<1>2. recs \in Seq(Memory)
  BY <1>1, CommandIsTyped, CommandCases
<1> HIDE DEF recs
<1>3. /\ IdsIn(recs) \subseteq Ids
      /\ \A m \in Ids \ IdsIn(recs) : memories'[m] = memories[m] /\ nodes'[m] = nodes[m]
  BY <1>1, <1>2, RecordsSpareOthers
<1>4. \A m \in Ids \ IdsIn(recs) : NeighborMemory(m)' = NeighborMemory(m)
  BY <1>1, <1>3, SameMemory
<1>5. Spares(IdsIn(recs))
  BY <1>1, <1>3, <1>4, SameGraph DEF Spares
<1> QED
  BY <1>1, <1>3, <1>5, SparingKeepsReads

\* A placeholder is no memory, before or after it is put there.
LEMMA PlaceholdersSpareAll ==
    ASSUME NEW table, NEW new, DOMAIN table = Ids, DOMAIN new = Ids,
           \A k \in Ids : new[k] = table[k] \/ (table[k] = Absent /\ new[k] = Placeholder)
    PROVE  \A k \in Ids : LoadOptionalPayload(new[k]) = LoadOptionalPayload(table[k])
BY DEF LoadOptionalPayload

LEMMA PlaceholderKeepsReads ==
    ASSUME LibraryInv, ReadInv, InsertPlaceholder PROVE ReadInv'
<1>1. /\ todo # <<>> /\ nodes' = WithPlaceholder(nodes, Command.id)
      /\ UNCHANGED <<deployment, memories, edges, links, asked, touched, reply>>
  BY DEF InsertPlaceholder, Next1, Command, StillAtIt
<1>2. nodes \in [Ids -> Memory \cup {Absent, Placeholder}]
  BY DEF LibraryInv, TablesInv
<1>3. \A m \in Ids : LoadOptionalPayload(nodes'[m]) = LoadOptionalPayload(nodes[m])
  BY <1>1, <1>2, PlaceholderAt, PlaceholdersSpareAll
<1>4. \A m \in Ids : NeighborMemory(m)' = NeighborMemory(m)
  BY <1>1, <1>3, SameMemory
<1>5. Spares({})
  BY <1>1, <1>4, SameGraph DEF Spares
<1>6. Touch({})
  BY <1>1 DEF ReadInv, Touch
<1> QED
  BY <1>1, <1>5, <1>6, SparingKeepsReads

LEMMA RowsKeepReads ==
    ASSUME LibraryInv, ReadInv, UpsertEdges PROVE ReadInv'
<1> DEFINE es == Command.edges
<1>1. /\ todo # <<>> /\ Command.op = "edges" /\ Touch(EndsIn(es))
      /\ edges' = WithEdges(edges, es)
      /\ nodes' = IF deployment.graph = "cypher"
                  THEN WithPlaceholder(WithPlaceholder(nodes, es[1].source), es[1].target)
                  ELSE nodes
      /\ UNCHANGED <<deployment, memories, links, asked, reply>>
  BY DEF UpsertEdges, Next1, Command, StillAtIt
<1>2. es \in Seq(EdgeType) /\ TablesInv
  BY <1>1, CommandIsTyped, CommandCases
<1> HIDE DEF es
<1>3. nodes \in [Ids -> Memory \cup {Absent, Placeholder}]
  BY <1>2 DEF TablesInv
<1>4. \A m \in Ids : LoadOptionalPayload(nodes'[m]) = LoadOptionalPayload(nodes[m])
  <2> DEFINE once == WithPlaceholder(nodes, es[1].source)
             twice == WithPlaceholder(once, es[1].target)
  <2>1. /\ once \in [Ids -> Memory \cup {Absent, Placeholder}]
        /\ \A m \in Ids : LoadOptionalPayload(once[m]) = LoadOptionalPayload(nodes[m])
    BY <1>3, PlaceholderAt, PlaceholdersSpareAll
  <2> HIDE DEF once
  <2>2. \A m \in Ids : LoadOptionalPayload(twice[m]) = LoadOptionalPayload(once[m])
    BY <2>1, PlaceholderAt, PlaceholdersSpareAll
  <2>3. nodes' = twice \/ nodes' = nodes
    BY <1>1 DEF once
  <2> HIDE DEF twice
  <2> QED
    BY <2>1, <2>2, <2>3
<1>5. \A m \in Ids : NeighborMemory(m)' = NeighborMemory(m)
  BY <1>1, <1>4, SameMemory
<1>6. EndsIn(es) \subseteq Ids /\ Spares(EndsIn(es))
  BY <1>1, <1>2, <1>5, EdgesSpareOthers DEF Spares
<1> QED
  BY <1>1, <1>6, SparingKeepsReads

\* One edge is written as a list of one.
LEMMA OneEdgeIsAList ==
    ASSUME TablesInv, NEW e \in EdgeType
    PROVE  /\ <<e>> \in Seq(EdgeType)
           /\ \A row \in edges : row.id # IdOf(e) => row \in WithEdge(edges, e)
<1>1. edges \in SUBSET SoundRows
  BY DEF TablesInv
<1> QED
  BY <1>1, EdgeIsWritten

LEMMA SetKeepsReads ==
    ASSUME LibraryInv, ReadInv, SetRedisEdge PROVE ReadInv'
<1> DEFINE d == Command.edge
<1>1. /\ todo # <<>> /\ Command.op = "set" /\ Touch(EndsIn(<<d>>))
      /\ edges' = WithEdge(edges, d)
      /\ UNCHANGED <<deployment, memories, nodes, links, asked, reply>>
  BY DEF SetRedisEdge, Next1, Command, StillAtIt
<1>2. d \in EdgeType /\ TablesInv
  BY <1>1, CommandIsTyped, CommandCases
<1> HIDE DEF d
<1>3. EndsIn(<<d>>) = {d.source, d.target}
  BY DEF EndsIn
<1>4. d.source \in Ids /\ d.target \in Ids
  BY <1>2, EdgeParts
<1>5. \A m \in Ids : NeighborMemory(m)' = NeighborMemory(m)
  BY <1>1, SameMemory
<1>6. ASSUME NEW m \in Ids, m \notin {d.source, d.target}, NEW s \in Ids, NEW e \in Neighbors(s),
             m = OtherEnd(s, e)
      PROVE  e \in Neighbors(s)'
  <2>1. PICK row \in edges : IsNeighborRow(row, s) /\ ~row.payload.archived /\ e = row.payload
    BY DEF Neighbors
  <2>2. e \in EdgeType /\ row.id = IdOf(e)
    BY <1>2, <2>1, RowParts DEF TablesInv
  <2>3. m \in {e.source, e.target}
    BY <1>6 DEF OtherEnd
  <2>4. IdOf(e) # IdOf(d)
    BY <1>2, <1>6, <2>2, <2>3, EdgeParts
  <2>5. row \in edges'
    BY <1>1, <1>2, <2>1, <2>2, <2>4, OneEdgeIsAList
  <2>6. IsNeighborRow(row, s)'
    BY <1>1, <2>1 DEF IsNeighborRow
  <2> QED
    BY <2>1, <2>5, <2>6 DEF Neighbors
<1>7. Spares(EndsIn(<<d>>))
  BY <1>1, <1>3, <1>5, <1>6 DEF Spares
<1> QED
  BY <1>1, <1>3, <1>4, <1>7, SparingKeepsReads

LEMMA LinkKeepsReads ==
    ASSUME LibraryInv, ReadInv, AddRedisLink PROVE ReadInv'
<1> DEFINE d == Command.edge
<1>1. /\ todo # <<>> /\ Command.op = "link" /\ Touch(EndsIn(<<d>>))
      /\ links \subseteq links'
      /\ UNCHANGED <<deployment, memories, nodes, edges, asked, reply>>
  BY DEF AddRedisLink, Next1, Command, StillAtIt
<1>2. d \in EdgeType
  BY <1>1, CommandIsTyped, CommandCases
<1> HIDE DEF d
<1>3. EndsIn(<<d>>) \subseteq Ids
  BY <1>2, EdgeParts DEF EndsIn
<1>4. \A m \in Ids : NeighborMemory(m)' = NeighborMemory(m)
  BY <1>1, SameMemory
<1>5. ASSUME NEW s \in Ids, NEW e \in Neighbors(s) PROVE e \in Neighbors(s)'
  <2>1. PICK row \in edges : IsNeighborRow(row, s) /\ ~row.payload.archived /\ e = row.payload
    BY DEF Neighbors
  <2>2. IsNeighborRow(row, s)'
    BY <1>1, <2>1 DEF IsNeighborRow
  <2> QED
    BY <1>1, <2>1, <2>2 DEF Neighbors
<1>6. Spares(EndsIn(<<d>>))
  BY <1>1, <1>4, <1>5 DEF Spares
<1> QED
  BY <1>1, <1>3, <1>6, SparingKeepsReads

\* The others write no memory and no edge, or nothing is being read.
LEMMA OthersKeepReads ==
    ASSUME LibraryInv, ReadInv,
           \/ \E envelopes \in Batches : IngestEnvelopes(envelopes)
           \/ \E m \in Ids : ArchiveMemory(m)
           \/ \E e \in ListEdges : ArchiveEdge(e)
           \/ Index \/ Return \/ Crash \/ WriteBackAccess \/ UNCHANGED vars
    PROVE  ReadInv'
<1>1. CASE WriteBackAccess
  <2>1. reply.left # <<>> /\ UNCHANGED <<asked, touched>>
    BY <1>1 DEF WriteBackAccess
  <2>2. asked = NotAsked /\ touched = {}
    BY <2>1 DEF ReadInv
  <2> QED
    BY <2>1, <2>2, NoReadInv
<1>2. CASE ~WriteBackAccess
  <2>1. UNCHANGED <<deployment, memories, nodes, edges, links, asked, touched, reply>>
    BY <1>2 DEF IngestEnvelopes, ArchiveMemory, ArchiveEdge, Index, Return, Crash, vars,
                stores, retrieving, StillAtIt
  <2> QED
    BY <2>1, StillReading
<1> QED
  BY <1>1, <1>2

-----------------------------------------------------------------------------
(***************************************************************************)
(* Retrieval: its requests.                                                *)
(***************************************************************************)
\* The memory whose record neighbors of a seed ask for.
LEMMA NeighborParts ==
    ASSUME TablesInv, NEW m \in Ids, IsActive(NeighborMemory(m))
    PROVE  /\ NeighborMemory(m) \in Memory /\ NeighborMemory(m).id = m
           /\ ~NeighborMemory(m).archived
           /\ \/ NeighborMemory(m) = memories[m]
              \/ NeighborMemory(m) = nodes[m] /\ ~SharesMemoryStore
<1>1. CASE NeighborMemory(m) = memories[m]
  BY <1>1 DEF TablesInv, IsActive
<1>2. CASE NeighborMemory(m) # memories[m]
  <2>1. ~SharesMemoryStore /\ NeighborMemory(m) = LoadOptionalPayload(nodes[m])
    BY <1>2 DEF NeighborMemory, GraphGetMemory, GetMemory
  <2>2. nodes[m] \notin {Absent, Placeholder} /\ NeighborMemory(m) = nodes[m]
    BY <2>1 DEF LoadOptionalPayload, IsActive
  <2>3. nodes[m] \in Memory /\ nodes[m].id = m
    BY <2>2 DEF TablesInv
  <2> QED
    BY <2>1, <2>2, <2>3 DEF IsActive
<1> QED
  BY <1>1, <1>2

LEMMA SeqOfMore ==
    ASSUME NEW S, NEW T, S \subseteq T, NEW s \in Seq(S) PROVE s \in Seq(T)
<1>1. Len(s) \in Nat /\ s \in [1..Len(s) -> S]
  BY PartsOfSeq
<1>2. s \in [1..Len(s) -> T]
  BY <1>1
<1> QED
  BY <1>1, <1>2, ListOf

LEMMA ListingReads ==
    ASSUME LibraryInv, ReadInv, NEW query \in Queries, NEW topK \in TopKs,
           ListMemories(query, topK)
    PROVE  ReadInv'
<1> DEFINE listed == [m \in Ids |-> IF m \in ActiveIds THEN memories[m] ELSE Absent]
<1>1. /\ asked = NotAsked /\ reply.left = <<>>
      /\ asked' = [NotAsked EXCEPT !.step = "search", !.query = query, !.topK = topK,
                                   !.listed = listed]
      /\ UNCHANGED <<deployment, memories, nodes, edges, links, touched, reply>>
  BY DEF ListMemories, Reads, stores
<1>2. touched = {}
  BY <1>1 DEF ReadInv
<1>3. topK \in Nat
  BY LimitsAreNaturals
<1>4. /\ listed \in [Ids -> Memory \cup {Absent}]
      /\ \A m \in Ids : listed[m] = IF IsActive(memories[m]) THEN memories[m] ELSE Absent
      /\ KeepsOwn(listed)
  <2>1. TablesInv
    BY DEF LibraryInv
  <2>2. memories \in [Ids -> Memory \cup {Absent}]
    BY <2>1 DEF TablesInv
  <2>3. \A m \in Ids : listed[m] = IF IsActive(memories[m]) THEN memories[m] ELSE Absent
    BY DEF ActiveIds
  <2>4. listed \in [Ids -> Memory \cup {Absent}]
    BY <2>2
  <2> HIDE DEF listed
  <2>5. KeepsOwn(listed)
    BY <2>1, <2>2, <2>3 DEF KeepsOwn, Given, IsActive, TablesInv
  <2> QED
    BY <2>3, <2>4, <2>5
<1> HIDE DEF listed
<1>5. /\ asked'.step = "search" /\ asked'.query = query /\ asked'.topK = topK
      /\ asked'.listed = listed /\ asked'.near = NotAsked.near
      /\ asked'.seeds = {} /\ asked'.toExpand = <<>> /\ asked'.toFetch = {}
      /\ asked' \in ReadingType
  BY <1>1, <1>3, <1>4, NothingIsRead DEF NotAsked, ReadingType
<1>6. asked' # NotAsked /\ Given(asked'.near) = {} /\ KeepsOwn(asked'.near) /\ <<>> \in Seq({})
  BY <1>5, NothingIsRead
<1>7. (\A m \in Ids \ touched :
         asked.listed[m] = IF IsActive(memories[m]) THEN memories[m] ELSE Absent)'
  BY <1>1, <1>4, <1>5 DEF IsActive
<1> QED
  BY <1>1, <1>2, <1>4, <1>5, <1>6, <1>7 DEF ReadInv

LEMMA SearchReads ==
    ASSUME LibraryInv, ReadInv, NEW matches \in VectorMatches, SearchVectors(matches)
    PROVE  ReadInv'
<1> DEFINE seeds == SeedCandidates(asked.query, asked.listed, matches, Limit(asked.topK))
<1>1. /\ asked.step = "search"
      /\ asked' = [asked EXCEPT !.step = "expand", !.seeds = ToSet(seeds), !.toExpand = seeds]
      /\ UNCHANGED <<deployment, memories, nodes, edges, links, touched, reply>>
  BY DEF SearchVectors, Reads, stores
<1>2. asked \in ReadingType /\ asked # NotAsked /\ KeepsOwn(asked.listed)
  BY <1>1, NothingIsRead DEF ReadInv
<1>3. Limit(asked.topK) \in Nat
  BY <1>2, LimitsAreNaturals DEF Limit, ReadingType
<1>4. seeds \in Seq(Given(asked.listed))
  BY <1>2, <1>3, SeedsAreListed
<1> HIDE DEF seeds
<1>5. ToSet(seeds) \subseteq Given(asked.listed) /\ Given(asked.listed) \subseteq Ids
  BY <1>4, ElementsIn DEF Given
<1>6. seeds \in Seq(ToSet(seeds)) /\ seeds \in Seq(Ids)
  <2>1. Len(seeds) \in Nat /\ DOMAIN seeds = 1..Len(seeds) /\ seeds \in [1..Len(seeds) -> Given(asked.listed)]
    BY <1>4, PartsOfSeq
  <2>2. seeds \in [1..Len(seeds) -> ToSet(seeds)]
    BY <2>1 DEF ToSet
  <2> QED
    BY <1>4, <1>5, <2>1, <2>2, ListOf, SeqOfMore
<1>7. /\ asked'.step = "expand" /\ asked'.seeds = ToSet(seeds) /\ asked'.toExpand = seeds
      /\ asked'.listed = asked.listed /\ asked'.near = asked.near
      /\ asked'.toFetch = asked.toFetch
      /\ asked' \in ReadingType
  BY <1>1, <1>2, <1>5, <1>6 DEF ReadingType
<1>8. Given(asked.near) = {} /\ asked.toFetch = {} /\ reply.left = <<>> /\ KeepsOwn(asked.near)
  BY <1>1, <1>2 DEF ReadInv
<1>9. asked' # NotAsked
  BY <1>7, NothingIsRead
<1>10. (\A m \in Ids \ touched :
          asked.listed[m] = IF IsActive(memories[m]) THEN memories[m] ELSE Absent)'
  BY <1>1, <1>2, <1>7 DEF ReadInv, IsActive
<1> QED
  BY <1>1, <1>2, <1>5, <1>6, <1>7, <1>8, <1>9, <1>10 DEF ReadInv

\* Of what an expansion changes, the two fields and that they are as ReadInv says.
LEMMA ExpansionReads ==
    ASSUME ReadInv, asked.step = "expand",
           UNCHANGED <<deployment, memories, nodes, edges, links, touched, reply>>,
           asked' \in ReadingType, asked'.step = "expand",
           asked'.listed = asked.listed, asked'.seeds = asked.seeds,
           asked'.toExpand \in Seq(asked.seeds), KeepsOwn(asked'.near),
           \A m \in Given(asked'.near) \ touched : asked'.near[m] = NeighborMemory(m) /\ LedTo(m),
           \A found \in asked'.toFetch : found[1] \in touched \/ LedTo(found[1])
    PROVE  ReadInv'
<1>1. asked # NotAsked /\ asked' # NotAsked
  BY NothingIsRead
<1>2. \A m : LedTo(m)' <=> LedTo(m)
  BY DEF LedTo, Neighbors, IsNeighborRow, OtherEnd
<1>3. \A m : NeighborMemory(m)' = NeighborMemory(m)
  BY DEF NeighborMemory, GraphGetMemory, GetMemory, LoadOptionalPayload, SharesMemoryStore
<1>4. (\A m \in Ids \ touched :
         asked.listed[m] = IF IsActive(memories[m]) THEN memories[m] ELSE Absent)'
  BY <1>1 DEF ReadInv, IsActive
<1>5. (\A m \in Given(asked.near) \ touched : asked.near[m] = NeighborMemory(m) /\ LedTo(m))'
  BY <1>2, <1>3
<1>6. (\A found \in asked.toFetch : found[1] \in touched \/ LedTo(found[1]))'
  BY <1>2
<1>7. /\ touched' \subseteq Ids /\ reply'.left = <<>> /\ KeepsOwn(asked'.listed)
      /\ asked'.seeds \subseteq Given(asked'.listed)
  BY <1>1 DEF ReadInv
<1> QED
  BY <1>1, <1>4, <1>5, <1>6, <1>7 DEF ReadInv

LEMMA ExpandReads ==
    ASSUME LibraryInv, ReadInv, ExpandSeed PROVE ReadInv'
<1> DEFINE seed == Head(asked.toExpand)
           found == {f \in EdgesOut(seed) : ~IsCandidate(f[1])}
<1>1. /\ asked.step = "expand" /\ asked.toExpand # <<>>
      /\ asked' = [asked EXCEPT !.toExpand = Tail(asked.toExpand), !.toFetch = found]
      /\ UNCHANGED <<deployment, memories, nodes, edges, links, touched, reply>>
  BY DEF ExpandSeed, Reads, stores
<1>2. /\ asked \in ReadingType /\ asked.toExpand \in Seq(asked.seeds) /\ asked.seeds \subseteq Ids
      /\ KeepsOwn(asked.near)
      /\ \A m \in Given(asked.near) \ touched : asked.near[m] = NeighborMemory(m) /\ LedTo(m)
  BY DEF ReadInv, ReadingType
<1>3. seed \in asked.seeds /\ Tail(asked.toExpand) \in Seq(asked.seeds)
  BY <1>1, <1>2, TailPlaces
<1>4. Tail(asked.toExpand) \in Seq(Ids)
  BY <1>2, <1>3, SeqOfMore
<1> HIDE DEF seed
<1>5. found \subseteq Ids \X EdgeType /\ \A f \in found : LedTo(f[1])
  <2>1. TablesInv /\ seed \in Ids
    BY <1>2, <1>3 DEF LibraryInv
  <2>2. \A f \in found : /\ f \in Ids \X EdgeType
                         /\ f[2] \in Neighbors(seed) /\ f[1] = OtherEnd(seed, f[2])
    BY <2>1, EdgesLeadOut
  <2> QED
    BY <1>3, <2>2 DEF LedTo
<1> HIDE DEF found
<1>6. /\ asked'.step = "expand" /\ asked'.toExpand = Tail(asked.toExpand) /\ asked'.toFetch = found
      /\ asked'.listed = asked.listed /\ asked'.seeds = asked.seeds /\ asked'.near = asked.near
      /\ asked' \in ReadingType
  BY <1>1, <1>2, <1>4, <1>5 DEF ReadingType
<1> QED
  BY <1>1, <1>2, <1>3, <1>5, <1>6, ExpansionReads

LEMMA FetchReads ==
    ASSUME LibraryInv, ReadInv, NEW found \in asked.toFetch, FetchNeighbor(found)
    PROVE  ReadInv'
<1> DEFINE m == found[1]
           rec == IF ~IsCandidate(m) /\ IsActive(NeighborMemory(m)) THEN NeighborMemory(m)
                  ELSE asked.near[m]
<1>1. /\ asked' = [asked EXCEPT !.toFetch = asked.toFetch \ {found}, !.near[m] = rec]
      /\ UNCHANGED <<deployment, memories, nodes, edges, links, touched, reply>>
  BY DEF FetchNeighbor, Reads, stores
<1>2. /\ asked \in ReadingType /\ asked.toExpand \in Seq(asked.seeds)
      /\ KeepsOwn(asked.near) /\ m \in Ids /\ (m \in touched \/ LedTo(m))
      /\ \A k \in Given(asked.near) \ touched : asked.near[k] = NeighborMemory(k) /\ LedTo(k)
      /\ \A f \in asked.toFetch : f[1] \in touched \/ LedTo(f[1])
  BY DEF ReadInv, ReadingType
<1>3. asked.step = "expand"
  BY DEF ReadInv
<1>4. \/ rec \in Memory /\ rec.id = m /\ ~rec.archived /\ rec = NeighborMemory(m)
      \/ rec = asked.near[m]
  <2>1. TablesInv
    BY DEF LibraryInv
  <2> QED
    BY <1>2, <2>1, NeighborParts
<1> HIDE DEF rec, m
<1>5. /\ asked.near \in [Ids -> Memory \cup {Absent}] /\ rec \in Memory \cup {Absent}
      /\ asked'.near = [asked.near EXCEPT ![m] = rec]
      /\ asked'.step = "expand" /\ asked'.toExpand = asked.toExpand
      /\ asked'.toFetch = asked.toFetch \ {found}
      /\ asked'.listed = asked.listed /\ asked'.seeds = asked.seeds
  BY <1>1, <1>2, <1>3, <1>4 DEF ReadingType
<1>6. asked' \in ReadingType
  <2>1. [asked.near EXCEPT ![m] = rec] \in [Ids -> Memory \cup {Absent}]
    BY <1>2, <1>5
  <2>2. asked.toFetch \ {found} \in SUBSET (Ids \X EdgeType)
    BY <1>2 DEF ReadingType
  <2>3. asked' = [asked EXCEPT !.toFetch = asked.toFetch \ {found},
                              !.near = [asked.near EXCEPT ![m] = rec]]
    BY <1>1, <1>2 DEF ReadingType
  <2> DEFINE near == [asked.near EXCEPT ![m] = rec]
             toFetch == asked.toFetch \ {found}
  <2> HIDE DEF near, toFetch
  <2> QED
    BY <1>2, <2>1, <2>2, <2>3 DEF ReadingType, near, toFetch
<1>7. /\ asked'.near[m] = rec
      /\ \A k \in Ids : k # m => asked'.near[k] = asked.near[k]
  BY <1>2, <1>5
<1>8. ASSUME NEW k \in Given(asked'.near)
      PROVE  /\ asked'.near[k] \in Memory /\ asked'.near[k].id = k /\ ~asked'.near[k].archived
             /\ k \notin touched => asked'.near[k] = NeighborMemory(k) /\ LedTo(k)
  <2>1. k \in Ids /\ asked'.near[k] # Absent
    BY DEF Given
  <2>2. CASE asked'.near[k] = asked.near[k]
    <3>1. k \in Given(asked.near)
      BY <2>1, <2>2 DEF Given
    <3> QED
      BY <1>2, <2>2, <3>1 DEF KeepsOwn
  <2>3. CASE asked'.near[k] # asked.near[k]
    <3>1. k = m /\ asked'.near[k] = rec /\ rec # asked.near[m]
      BY <1>7, <2>1, <2>3
    <3> QED
      BY <1>2, <1>4, <3>1
  <2> QED
    BY <2>2, <2>3
<1>9. /\ KeepsOwn(asked'.near)
      /\ \A k \in Given(asked'.near) \ touched : asked'.near[k] = NeighborMemory(k) /\ LedTo(k)
  BY <1>8 DEF KeepsOwn
<1> QED
  BY <1>1, <1>2, <1>3, <1>5, <1>6, <1>9, ExpansionReads

-----------------------------------------------------------------------------
(***************************************************************************)
(* Retrieval: what is returned.                                            *)
(***************************************************************************)
\* Of a memory that was left alone: an active memory, or an active copy reached by an
\* edge of a seed.
IsFounded(rec) ==
    LET m == rec.id
    IN /\ ~rec.archived
       /\ m \in Ids \ touched =>
             \/ m \in ActiveIds /\ rec.text = memories[m].text
             \/ /\ ~SharesMemoryStore /\ IsActive(nodes[m])
                /\ rec.text = nodes[m].text
                /\ LedTo(m)
Founded == {rec \in Memory : IsFounded(rec)}

LEMMA DistanceOnly ==
    ASSUME NEW rec \in Memory, NEW d \in {0, 1}
    PROVE  LET r == [rec EXCEPT !.distance = d]
           IN r \in Memory /\ r.id = rec.id /\ r.archived = rec.archived /\ r.text = rec.text
<1>1. d \in {Absent, 0, 1}
  OBVIOUS
<1> QED
  BY <1>1 DEF Memory

\* A memory that was left alone is as it was listed.
LEMMA ListedAsItIs ==
    ASSUME ReadInv, asked # NotAsked, NEW m \in Ids \ touched
    PROVE  /\ m \in Given(asked.listed) <=> m \in ActiveIds
           /\ m \in Given(asked.listed) => asked.listed[m] = memories[m]
<1>1. asked.listed[m] = IF IsActive(memories[m]) THEN memories[m] ELSE Absent
  BY DEF ReadInv
<1> QED
  BY <1>1 DEF Given, ActiveIds, IsActive

LEMMA CandidateIsFounded ==
    ASSUME TablesInv, ReadInv, asked # NotAsked,
           NEW m \in Given(asked.listed) \cup Given(asked.near)
    PROVE  Candidate(m) \in Founded /\ Candidate(m).id = m
<1> DEFINE rec == Candidate(m)
<1>1. m \in Ids /\ KeepsOwn(asked.listed) /\ KeepsOwn(asked.near)
  BY DEF Given, ReadInv
<1>2. CASE m \in Given(asked.listed) /\ (m \in asked.seeds \/ m \notin Given(asked.near))
  <2>1. /\ asked.listed[m] \in Memory /\ asked.listed[m].id = m /\ ~asked.listed[m].archived
    BY <1>1, <1>2 DEF KeepsOwn
  <2>2. rec = [asked.listed[m] EXCEPT !.distance = 0] \/ rec = asked.listed[m]
    BY <1>1, <1>2 DEF Candidate, Given
  <2> HIDE DEF rec
  <2>3. rec \in Memory /\ rec.id = m /\ ~rec.archived /\ rec.text = asked.listed[m].text
    BY <2>1, <2>2, DistanceOnly
  <2>4. m \in Ids \ touched => m \in ActiveIds /\ rec.text = memories[m].text
    BY <1>2, <2>3, ListedAsItIs
  <2> QED
    BY <2>3, <2>4 DEF Founded, IsFounded, rec
<1>3. CASE m \notin asked.seeds /\ m \in Given(asked.near)
  <2>1. /\ asked.near[m] \in Memory /\ asked.near[m].id = m /\ ~asked.near[m].archived
    BY <1>1, <1>3 DEF KeepsOwn
  <2>2. rec = [asked.near[m] EXCEPT !.distance = 1]
    BY <1>3 DEF Candidate, Given
  <2> HIDE DEF rec
  <2>3. rec \in Memory /\ rec.id = m /\ ~rec.archived /\ rec.text = asked.near[m].text
    BY <2>1, <2>2, DistanceOnly
  <2>4. ASSUME m \notin touched
        PROVE  \/ m \in ActiveIds /\ rec.text = memories[m].text
               \/ /\ ~SharesMemoryStore /\ IsActive(nodes[m]) /\ rec.text = nodes[m].text
                  /\ LedTo(m)
    <3>1. asked.near[m] = NeighborMemory(m) /\ LedTo(m)
      BY <1>3, <2>4 DEF ReadInv
    <3>2. IsActive(NeighborMemory(m))
      BY <1>3, <2>1, <3>1 DEF IsActive, Given
    <3>3. \/ NeighborMemory(m) = memories[m]
          \/ NeighborMemory(m) = nodes[m] /\ ~SharesMemoryStore
      BY <1>1, <3>2, NeighborParts
    <3> QED
      BY <1>1, <2>3, <3>1, <3>2, <3>3 DEF ActiveIds
  <2> QED
    BY <2>3, <2>4 DEF Founded, IsFounded, rec
<1>4. m \in Given(asked.listed) \/ m \notin asked.seeds
  BY DEF ReadInv
<1> QED
  BY <1>2, <1>3, <1>4

\* However the weights rank the candidates, what fits the budget are founded
\* memories, none twice.
LEMMA WhatIsGiven ==
    ASSUME TablesInv, ReadInv, asked # NotAsked, NEW topK \in Nat,
           NEW ids \in Seq(Given(asked.listed) \cup Given(asked.near)),
           NEW ranking \in [DOMAIN ids -> ToSet(ids)], IsInjective(ranking)
    PROVE  LET scored == [i \in DOMAIN ranking |-> Candidate(ranking[i])]
               given == FitToBudget(Truncated(scored, topK))
           IN given \in Seq(Founded) /\ Distinct(given) /\ Spent(given) <= TokenBudget
<1> DEFINE S == Given(asked.listed) \cup Given(asked.near)
           scored == [i \in DOMAIN ranking |-> Candidate(ranking[i])]
           short == Truncated(scored, topK)
           n == Len(ids)
<1>1. n \in Nat /\ DOMAIN ids = 1..n /\ ToSet(ids) \subseteq S
  <2>1. ids \in Seq(S)
    OBVIOUS
  <2> HIDE DEF S
  <2> QED
    BY <2>1, PartsOfSeq, ElementsIn
<1>2. DOMAIN ranking = 1..n /\ \A i \in 1..n : ranking[i] \in S
  BY <1>1
<1>3. ASSUME NEW i \in 1..n PROVE scored[i] \in Founded /\ scored[i].id = ranking[i]
  <2>1. scored[i] = Candidate(ranking[i]) /\ ranking[i] \in S
    BY <1>2
  <2> QED
    BY <2>1, CandidateIsFounded
<1>4. scored \in [1..n -> Founded]
  <2>1. scored = [i \in 1..n |-> scored[i]]
    BY <1>2
  <2> HIDE DEF scored
  <2> QED
    BY <1>3, <2>1
<1> HIDE DEF scored, n
<1>5. scored \in Seq(Founded) /\ DOMAIN scored = 1..n
  BY <1>1, <1>4, ListOf
<1>6. ASSUME NEW i \in 1..n, NEW j \in 1..n, scored[i].id = scored[j].id PROVE i = j
  BY <1>2, <1>3, <1>6 DEF IsInjective
<1>7. /\ short \in Seq(Founded) /\ DOMAIN short = 1..Len(short)
      /\ \A i \in 1..Len(short) : i \in DOMAIN scored /\ short[i] = scored[i]
  BY <1>5, TruncatedIsAPrefix
<1> HIDE DEF short
<1>8. Distinct(short)
  BY <1>5, <1>6, <1>7 DEF Distinct
<1>9. Founded \subseteq Memory
  BY DEF Founded
<1>10. /\ FitToBudget(short) \in Seq(Founded) /\ Distinct(FitToBudget(short))
       /\ Spent(FitToBudget(short)) <= TokenBudget
  BY <1>7, <1>8, <1>9, FitKeepsToBudget
<1> QED
  BY <1>10 DEF short, scored

\* What a retrieval answers.
IsSoundAnswer(query, candidates, given) ==
    /\ \A c \in candidates \ touched, m \in (ActiveIds \ candidates) \ touched :
          c \in ActiveIds /\ Overlap(query, memories[m]) <= Overlap(query, memories[c])
    /\ \A i \in DOMAIN given : IsFounded(given[i])
    /\ Distinct(given) /\ Spent(given) <= TokenBudget

LEMMA AnswerIsSound ==
    ASSUME TablesInv, ReadInv, Answer
    PROVE  /\ reply'.left \in Seq(Memory)
           /\ IsSoundAnswer(reply'.query, ToSet(reply'.candidates), reply'.left)
<1> DEFINE query == asked.query
           listed == asked.listed
           near == Given(asked.near)
           ids == Assemble(RankedBySeed(query, listed), near, Limit(asked.topK))
           scored(r) == [i \in DOMAIN r |-> Candidate(r[i])]
           given(r) == FitToBudget(Truncated(scored(r), asked.topK))
<1>1. PICK ranking \in [DOMAIN ids -> ToSet(ids)] :
         /\ IsInjective(ranking)
         /\ reply' = [query |-> query, candidates |-> ids, left |-> given(ranking)]
  BY DEF Answer
<1>2. asked # NotAsked /\ KeepsOwn(listed) /\ KeepsOwn(asked.near)
  BY NothingIsRead DEF Answer, ReadInv
<1>3. asked.topK \in Nat /\ Limit(asked.topK) \in Nat
  BY LimitsAreNaturals DEF Limit, ReadInv, ReadingType
<1>4. IsFiniteSet(near)
  BY <1>2, ListedParts
<1>5. /\ ids \in Seq(Given(listed) \cup near)
      /\ \A c \in ToSet(ids), m \in Given(listed) \ ToSet(ids) :
            c \in Given(listed) /\ Overlap(query, listed[m]) <= Overlap(query, listed[c])
  <2> HIDE DEF listed, near, query
  <2> QED
    BY <1>2, <1>3, <1>4, AssembledKeepsTheBest
<1> HIDE DEF ids
<1>6. /\ given(ranking) \in Seq(Founded) /\ Distinct(given(ranking))
      /\ Spent(given(ranking)) <= TokenBudget
  BY <1>1, <1>2, <1>3, <1>5, WhatIsGiven
<1>7. PICK left : left = given(ranking)
  OBVIOUS
<1> HIDE DEF given
<1>8. Len(left) \in Nat /\ DOMAIN left = 1..Len(left) /\ left \in [1..Len(left) -> Founded]
  BY <1>6, <1>7, PartsOfSeq
<1>9. left \in Seq(Memory)
  <2>1. left \in [1..Len(left) -> Memory]
    BY <1>8 DEF Founded
  <2> QED
    BY <1>8, <2>1, ListOf
<1>10. \A i \in DOMAIN left : IsFounded(left[i])
  BY <1>8 DEF Founded
<1>11. ASSUME NEW c \in ToSet(ids) \ touched, NEW m \in (ActiveIds \ ToSet(ids)) \ touched
       PROVE  c \in ActiveIds /\ Overlap(query, memories[m]) <= Overlap(query, memories[c])
  <2>1. m \in Ids \ touched
    BY DEF ActiveIds
  <2>2. m \in Given(listed) /\ listed[m] = memories[m]
    BY <1>2, <2>1, ListedAsItIs
  <2>3. c \in Given(listed) /\ Overlap(query, listed[m]) <= Overlap(query, listed[c])
    BY <1>5, <2>2
  <2>4. c \in Ids \ touched
    BY <2>3 DEF Given
  <2>5. c \in ActiveIds /\ listed[c] = memories[c]
    BY <1>2, <2>3, <2>4, ListedAsItIs
  <2> QED
    BY <2>2, <2>3, <2>5
<1>12. reply'.query = query /\ reply'.candidates = ids /\ reply'.left = left
  BY <1>1, <1>7
<1> QED
  BY <1>6, <1>7, <1>9, <1>10, <1>11, <1>12 DEF IsSoundAnswer

-----------------------------------------------------------------------------
(***************************************************************************)
(* The invariant is inductive.                                             *)
(***************************************************************************)
\* A request and an answer leave the writer and the stores alone.
LEMMA RetrievalKeepsInv ==
    ASSUME LibraryInv, UNCHANGED <<deployment, stores, todo, batch, returned, cut, stale>>,
           retrievals' \in Nat, reply'.left \in Seq(Memory)
    PROVE  LibraryInv'
<1>1. CallsInv /\ DeliveryInv
  BY DEF LibraryInv
<1>2. TablesInv' /\ TodoInv' /\ TracesInv' /\ LinksInv'
  BY SameStores
<1>3. CallsInv'
  BY <1>1 DEF CallsInv, BatchType
<1>4. DeliveryInv'
  <2>1. PICK b, r : b = batch /\ r = returned
    OBVIOUS
  <2>2. /\ b # NoBatch => Arrives(b)' /\ (\A k \in DOMAIN todo : Ingests(todo[k]))'
        /\ r # NoBatch => todo' = <<>> /\ b = NoBatch /\ Arrives(r)'
    BY <1>1, <2>1, SameStores DEF DeliveryInv
  <2>3. batch' = b /\ returned' = r
    BY <2>1
  <2> QED
    BY <2>2, <2>3 DEF DeliveryInv, NoBatch
<1> QED
  BY <1>2, <1>3, <1>4 DEF LibraryInv

LEMMA ReadKeepsInv ==
    ASSUME LibraryInv, ReadInv, Read PROVE LibraryInv' /\ ReadInv'
<1>1. /\ UNCHANGED <<deployment, stores, todo, batch, returned, cut, stale>>
      /\ reply' = reply /\ retrievals' = retrievals
  BY DEF Read, ListMemories, SearchVectors, ExpandSeed, FetchNeighbor, Reads, counts
<1>2. retrievals \in Nat /\ reply.left \in Seq(Memory)
  BY DEF LibraryInv, CallsInv
<1>3. LibraryInv'
  BY <1>1, <1>2, RetrievalKeepsInv
<1>4. ReadInv'
  BY ListingReads, SearchReads, ExpandReads, FetchReads DEF Read
<1> QED
  BY <1>3, <1>4

LEMMA AnswerKeepsInv ==
    ASSUME LibraryInv, ReadInv, Answer PROVE LibraryInv' /\ ReadInv'
<1>1. /\ UNCHANGED <<deployment, stores, todo, batch, returned, cut, stale>>
      /\ retrievals' = retrievals + 1 /\ asked' = NotAsked /\ touched' = {}
  BY DEF Answer
<1>2. retrievals \in Nat /\ TablesInv
  BY DEF LibraryInv, CallsInv
<1>3. reply'.left \in Seq(Memory)
  BY <1>2, AnswerIsSound
<1>4. LibraryInv'
  BY <1>1, <1>2, <1>3, RetrievalKeepsInv
<1>5. ReadInv'
  BY <1>1, NoReadInv
<1> QED
  BY <1>4, <1>5

LEMMA StutteringKeepsInv ==
    ASSUME LibraryInv, UNCHANGED vars PROVE LibraryInv'
<1>1. UNCHANGED <<deployment, stores, todo, batch, returned, cut, stale, reply, retrievals>>
  BY DEF vars, retrieving
<1>2. retrievals \in Nat /\ reply.left \in Seq(Memory)
  BY DEF LibraryInv, CallsInv
<1> QED
  BY <1>1, <1>2, RetrievalKeepsInv

LEMMA StepsKeepInv ==
    LibraryInv /\ ReadInv /\ [Next]_vars => LibraryInv' /\ ReadInv'
<1> SUFFICES ASSUME LibraryInv, ReadInv, [Next]_vars PROVE LibraryInv' /\ ReadInv'
  OBVIOUS
<1>1. CASE \E envelopes \in Batches : IngestEnvelopes(envelopes)
  BY <1>1, IngestKeepsInv, OthersKeepReads
<1>2. CASE \E m \in Ids : ArchiveMemory(m)
  BY <1>2, ArchiveMemoryKeepsInv, OthersKeepReads
<1>3. CASE \E e \in ListEdges : ArchiveEdge(e)
  BY <1>3, ArchiveEdgeKeepsInv, OthersKeepReads
<1>4. CASE Put
  BY <1>4, PutKeepsInv, PutKeepsReads
<1>5. CASE UpsertNode
  BY <1>5, NodeKeepsInv, NodeKeepsReads
<1>6. CASE InsertPlaceholder
  BY <1>6, PlaceholderKeepsInv, PlaceholderKeepsReads
<1>7. CASE Index
  BY <1>7, IndexKeepsInv, OthersKeepReads
<1>8. CASE UpsertEdges
  BY <1>8, RowsKeepInv, RowsKeepReads
<1>9. CASE SetRedisEdge
  BY <1>9, SetKeepsInv, SetKeepsReads
<1>10. CASE AddRedisLink
  BY <1>10, LinkKeepsInv, LinkKeepsReads
<1>11. CASE Return
  BY <1>11, ReturnKeepsInv, OthersKeepReads
<1>12. CASE Crash
  BY <1>12, CrashKeepsInv, OthersKeepReads
<1>13. CASE Read
  BY <1>13, ReadKeepsInv
<1>14. CASE Answer
  BY <1>14, AnswerKeepsInv
<1>15. CASE WriteBackAccess
  BY <1>15, WriteBackKeepsInv, OthersKeepReads
<1>16. CASE UNCHANGED vars
  BY <1>16, StutteringKeepsInv, OthersKeepReads
<1> QED
  BY <1>1, <1>2, <1>3, <1>4, <1>5, <1>6, <1>7, <1>8, <1>9, <1>10, <1>11, <1>12, <1>13,
     <1>14, <1>15, <1>16 DEF Next

\* Only Answer answers a query.
LEMMA OnlyAnswerAnswers ==
    ASSUME [Next]_vars PROVE Answer \/ retrievals' = retrievals
<1>1. CASE \E envelopes \in Batches : IngestEnvelopes(envelopes)
  BY <1>1 DEF IngestEnvelopes
<1>2. CASE \E m \in Ids : ArchiveMemory(m)
  BY <1>2 DEF ArchiveMemory
<1>3. CASE \E e \in ListEdges : ArchiveEdge(e)
  BY <1>3 DEF ArchiveEdge
<1>4. CASE Put \/ UpsertNode \/ InsertPlaceholder \/ Index
  BY <1>4 DEF Put, UpsertNode, InsertPlaceholder, Index, StillAtIt, counts
<1>5. CASE UpsertEdges \/ SetRedisEdge \/ AddRedisLink
  BY <1>5 DEF UpsertEdges, SetRedisEdge, AddRedisLink, StillAtIt, counts
<1>6. CASE Return \/ Crash \/ WriteBackAccess
  BY <1>6 DEF Return, Crash, WriteBackAccess, counts
<1>7. CASE Read
  BY <1>7 DEF Read, ListMemories, SearchVectors, ExpandSeed, FetchNeighbor, Reads, counts
<1>8. CASE UNCHANGED vars
  BY <1>8 DEF vars
<1> QED
  BY <1>1, <1>2, <1>3, <1>4, <1>5, <1>6, <1>7, <1>8 DEF Next

LEMMA InvIsTyped == LibraryInv /\ ReadInv => TypeOK
<1> SUFFICES ASSUME LibraryInv, ReadInv PROVE TypeOK
  OBVIOUS
<1>1. TablesInv /\ CallsInv
  BY DEF LibraryInv
<1>2. /\ \A m \in Ids : memories[m] # Absent => memories[m] \in Memory /\ memories[m].id = m
      /\ \A m \in Ids : nodes[m] \notin {Absent, Placeholder} => nodes[m] \in Memory /\ nodes[m].id = m
  BY <1>1 DEF TablesInv
<1>3. ASSUME NEW row \in edges
      PROVE  /\ row.id \in EdgeIds /\ {row.from, row.to} \subseteq Ids /\ row.payload \in EdgeType
  BY <1>1, RowParts, EdgeParts DEF TablesInv
<1>4. links \subseteq {"source", "target"} \X Ids \X EdgeIds
  <2>1. ASSUME NEW end \in Ends, NEW e \in EdgeType
        PROVE  Link(end, e) \in {"source", "target"} \X Ids \X EdgeIds
    BY EdgeParts DEF Link, EndOf, Ends
  <2> QED
    BY <1>1, <2>1 DEF TablesInv
<1>5. \A idx \in DOMAIN indexes, m \in Ids : indexes[idx][m] \in Texts \cup {Absent}
  BY <1>1 DEF TablesInv
<1>6. \A i \in DOMAIN reply.left : reply.left[i] \in Memory
  BY <1>1, PartsOfSeq DEF CallsInv
<1>7. /\ \A m \in Given(asked.listed) : asked.listed[m] \in Memory /\ asked.listed[m].id = m
      /\ \A m \in Given(asked.near) : asked.near[m] \in Memory /\ asked.near[m].id = m
  BY DEF ReadInv, KeepsOwn
<1> QED
  BY <1>1, <1>2, <1>3, <1>4, <1>5, <1>6, <1>7 DEF TypeOK, StoresTypeOK, TablesInv, CallsInv

-----------------------------------------------------------------------------
(***************************************************************************)
(* Theorems.                                                               *)
(***************************************************************************)
\* At every moment of every interleaving of calls, crashes included, the queue, the
\* tables and the batch of a call agree as LibraryInv says, and what a retrieval has read
\* is, as ReadInv says, what the stores hold of all memories the writer left alone.
THEOREM LibraryInvHolds == Spec => [](LibraryInv /\ ReadInv)
<1>1. Init => LibraryInv /\ ReadInv
  <2>1. Init => LibraryInv
    BY InitHolds
  <2>2. Init => ReadInv
    BY NothingIsRead DEF Init, ReadInv
  <2> QED
    BY <2>1, <2>2
<1>2. LibraryInv /\ ReadInv /\ [Next]_vars => LibraryInv' /\ ReadInv'
  BY StepsKeepInv
<1> QED
  BY <1>1, <1>2, PTL DEF Spec

\* Every store keeps only what its backend can hold: a record under its own id, an
\* edge under an id of its kind, the sets of edges in Redis only; and a query is
\* answered with records.
THEOREM LibraryIsTyped == Spec => []TypeOK
BY LibraryInvHolds, InvIsTyped, PTL

\* What an ingestion that returned was given stays in the memory store, the graph
\* store and the indexes until the next call that writes, whatever crashed before
\* it, save for a memory whose text the write-back of an earlier read replaced.
THEOREM ReturnedStaysStored == Spec => []ReturnedIsStored
BY LibraryInvHolds, InvStoresReturned, PTL

\* neighbors and list_edges say the same of the graph of every backend; on Redis
\* save for the edge that is being written and those whose writing a crash cut.
THEOREM GraphReadsStayAgreed == Spec => []GraphReadsAgree
BY LibraryInvHolds, InvAgreesOnTheGraph, PTL

\* No index, no node and no edge is left of a memory that the memory store does not
\* have, wherever a crash cuts an ingestion.
THEOREM TracesStayFounded == Spec => []TracesLeadToMemories
BY LibraryInvHolds, InvLeadsToMemories, PTL

\* Whatever the writer does between the requests of a retrieval, whatever the vector
\* store finds and however the weights rank: nothing is returned twice, nothing that
\* was archived when it was read, and no more than the budget; and of the memories
\* left alone meanwhile no active one is left out for one that shares less of the
\* query, and only active ones or active copies that an edge leads to are returned.
THEOREM RetrievalStaysSound == Spec => RetrievalIsSound
<1>1. LibraryInv /\ ReadInv /\ [Next]_vars => [retrievals' > retrievals => AnswersSoundly]_vars
  <2> SUFFICES ASSUME LibraryInv, ReadInv, [Next]_vars, retrievals' > retrievals
               PROVE AnswersSoundly
    OBVIOUS
  <2>1. TablesInv /\ retrievals \in Nat
    BY DEF LibraryInv, CallsInv
  <2>2. Answer
    BY <2>1, OnlyAnswerAnswers
  <2>3. IsSoundAnswer(reply'.query, ToSet(reply'.candidates), reply'.left)
    BY <2>1, <2>2, AnswerIsSound
  <2> QED
    BY <2>3 DEF IsSoundAnswer, IsFounded, LedTo, Distinct, AnswersSoundly
<1> QED
  BY <1>1, LibraryInvHolds, PTL DEF Spec, RetrievalIsSound
=============================================================================
