------------------------ MODULE RemoteVectors_proofs ------------------------
(***************************************************************************)
(* The vector backends, for any number of processes, ids, texts and writes: *)
(* what a search returns is vouched for, a process finds what it wrote, and *)
(* a backend that is one index for its callers implements VectorIndex.      *)
(***************************************************************************)
EXTENDS RemoteVectors, FiniteSetTheorems, TLAPS

-----------------------------------------------------------------------------
(***************************************************************************)
(* The order of the matches.                                               *)
(***************************************************************************)
Matches == [id : Ids, row : Nat, score : {0, 1}]

\* Matches are totally ordered.
LEMMA BeforeIsTotalOrder ==
    ASSUME NEW a \in Matches, NEW b \in Matches, NEW c \in Matches
    PROVE  /\ ~Before(a, a)
           /\ Before(a, b) /\ Before(b, c) => Before(a, c)
           /\ a # b => Before(a, b) \/ Before(b, a)
           /\ Before(a, b) => a.score >= b.score
<1>1. /\ a.id \in Nat /\ b.id \in Nat /\ c.id \in Nat
      /\ a.row \in Nat /\ b.row \in Nat /\ c.row \in Nat
      /\ a.score \in Nat /\ b.score \in Nat /\ c.score \in Nat
  <2>1. \A x \in Matches : x.id \in Ids /\ x.row \in Nat /\ x.score \in {0, 1}
    BY DEF Matches
  <2>2. \A m \in Ids : m \in Nat
    BY IdsAreNaturals
  <2> QED
    BY <2>1, <2>2
<1>2. a # b => a.id # b.id \/ a.row # b.row \/ a.score # b.score
  BY DEF Matches
<1> QED
  BY <1>1, <1>2 DEF Before

Earlier(h, matches) == {other \in matches : Before(other, h)}

\* A match comes after more matches than one before it.
LEMMA EarlierGrows ==
    ASSUME NEW S \in SUBSET Matches, IsFiniteSet(S), NEW g \in S, NEW h \in S
    PROVE  /\ Cardinality(Earlier(h, S)) \in Nat
           /\ Cardinality(Earlier(h, S)) < Cardinality(S)
           /\ Before(g, h) <=> Cardinality(Earlier(g, S)) < Cardinality(Earlier(h, S))
           /\ Cardinality(Earlier(g, S)) = Cardinality(Earlier(h, S)) => g = h
<1>1. ASSUME NEW x \in S
      PROVE  /\ Earlier(x, S) \in SUBSET S /\ x \notin Earlier(x, S)
             /\ IsFiniteSet(Earlier(x, S)) /\ Cardinality(Earlier(x, S)) \in Nat
             /\ Cardinality(Earlier(x, S)) < Cardinality(S)
  <2>1. Earlier(x, S) \in SUBSET S /\ x \notin Earlier(x, S)
    BY BeforeIsTotalOrder DEF Earlier
  <2>2. IsFiniteSet(Earlier(x, S)) /\ Cardinality(Earlier(x, S)) <= Cardinality(S)
    BY <2>1, FS_Subset
  <2>3. Cardinality(Earlier(x, S)) # Cardinality(S)
    BY <2>1, FS_Subset
  <2>4. Cardinality(Earlier(x, S)) \in Nat /\ Cardinality(S) \in Nat
    BY <2>2, FS_CardinalityType
  <2> QED
    BY <2>1, <2>2, <2>3, <2>4
<1>2. ASSUME NEW x \in S, NEW y \in S, Before(x, y)
      PROVE  Cardinality(Earlier(x, S)) < Cardinality(Earlier(y, S))
  <2>1. Earlier(x, S) \in SUBSET Earlier(y, S) /\ x \in Earlier(y, S)
    BY <1>2, BeforeIsTotalOrder DEF Earlier
  <2>2. x \notin Earlier(x, S) /\ IsFiniteSet(Earlier(y, S))
    BY <1>1
  <2>3. /\ Cardinality(Earlier(x, S)) <= Cardinality(Earlier(y, S))
        /\ Cardinality(Earlier(x, S)) # Cardinality(Earlier(y, S))
    BY <2>1, <2>2, FS_Subset
  <2> QED
    BY <1>1, <2>3
<1>3. g = h \/ Before(g, h) \/ Before(h, g)
  BY BeforeIsTotalOrder
<1> QED
  BY <1>1, <1>2, <1>3

\* Every place of the list is that of one match, and of one only.
LEMMA PlacesAreTaken ==
    ASSUME NEW S \in SUBSET Matches, IsFiniteSet(S), NEW i \in 1..Cardinality(S)
    PROVE  /\ AtPlace(S, i) \in S
           /\ Cardinality(Earlier(AtPlace(S, i), S)) = i - 1
<1>1. Cardinality(S) \in Nat
  BY FS_CardinalityType
<1> DEFINE n == Cardinality(S)
           place == [h \in S |-> Cardinality(Earlier(h, S)) + 1]
<1>2. place \in [S -> 1..n] /\ \A g, h \in S : place[g] = place[h] => g = h
  BY <1>1, EarlierGrows
<1>3. place \in Injection(S, 1..n)
  BY <1>2 DEF Injection, IsInjective
<1>4. IsFiniteSet(1..n) /\ Cardinality(1..n) = n
  BY <1>1, FS_Interval
<1>5. place \in Surjection(S, 1..n)
  BY <1>3, <1>4, FS_Injection
<1>6. PICK h \in S : place[h] = i
  BY <1>5 DEF Surjection
<1>7. Cardinality({other \in S : Before(other, h)}) = i - 1
  BY <1>1, <1>6, EarlierGrows DEF Earlier
<1> QED
  BY <1>7 DEF AtPlace, Earlier

\* The sorted list: no match twice, the best ones first, none left out that
\* comes before one of the list.
LEMMA OrderedIsSorted ==
    ASSUME NEW S \in SUBSET Matches, IsFiniteSet(S), NEW n \in Nat
    PROVE  /\ AtMost(n, S) \in Nat /\ AtMost(n, S) <= n /\ AtMost(n, S) <= Cardinality(S)
           /\ Cardinality(S) \in Nat
           /\ Ordered(S, n) \in [1..AtMost(n, S) -> IdsOf(S)]
           /\ Len(Ordered(S, n)) = AtMost(n, S)
           /\ \A i \in 1..AtMost(n, S) :
                /\ AtPlace(S, i) \in S
                /\ Ordered(S, n)[i] = AtPlace(S, i).id
                /\ Cardinality(Earlier(AtPlace(S, i), S)) = i - 1
           /\ \A i, j \in 1..AtMost(n, S) : i < j => Before(AtPlace(S, i), AtPlace(S, j))
           /\ \A h \in S : \/ \E i \in 1..AtMost(n, S) : AtPlace(S, i) = h
                           \/ \A i \in 1..AtMost(n, S) : Before(AtPlace(S, i), h)
<1>1. /\ AtMost(n, S) \in Nat /\ AtMost(n, S) <= n /\ AtMost(n, S) <= Cardinality(S)
      /\ Cardinality(S) \in Nat
  BY FS_CardinalityType DEF AtMost
<1>2. ASSUME NEW i \in 1..AtMost(n, S)
      PROVE  AtPlace(S, i) \in S /\ Cardinality(Earlier(AtPlace(S, i), S)) = i - 1
  <2>1. i \in 1..Cardinality(S)
    BY <1>1
  <2> QED
    BY <2>1, PlacesAreTaken
<1>3. /\ Ordered(S, n) \in [1..AtMost(n, S) -> IdsOf(S)]
      /\ \A i \in 1..AtMost(n, S) : Ordered(S, n)[i] = AtPlace(S, i).id
  BY <1>2 DEF Ordered, IdsOf
<1>4. Len(Ordered(S, n)) = AtMost(n, S)
  BY <1>1 DEF Ordered
<1>5. \A i, j \in 1..AtMost(n, S) : i < j => Before(AtPlace(S, i), AtPlace(S, j))
  BY <1>1, <1>2, EarlierGrows
<1>6. ASSUME NEW h \in S
      PROVE  \/ \E i \in 1..AtMost(n, S) : AtPlace(S, i) = h
             \/ \A i \in 1..AtMost(n, S) : Before(AtPlace(S, i), h)
  <2> DEFINE k == Cardinality(Earlier(h, S)) + 1
  <2>1. k \in Nat /\ k >= 1 /\ k - 1 = Cardinality(Earlier(h, S))
    BY EarlierGrows
  <2> HIDE DEF k
  <2>2. CASE k <= AtMost(n, S)
    <3>1. k \in 1..AtMost(n, S)
      BY <1>1, <2>1, <2>2
    <3>2. AtPlace(S, k) = h
      BY <1>2, <2>1, <3>1, EarlierGrows
    <3> QED
      BY <3>1, <3>2
  <2>3. CASE k > AtMost(n, S)
    <3> SUFFICES ASSUME NEW i \in 1..AtMost(n, S) PROVE Before(AtPlace(S, i), h)
      OBVIOUS
    <3>1. AtPlace(S, i) \in S /\ Cardinality(Earlier(AtPlace(S, i), S)) = i - 1
      BY <1>2
    <3>2. i - 1 < k - 1
      BY <1>1, <2>1, <2>3
    <3> QED
      BY <2>1, <3>1, <3>2, EarlierGrows
  <2> QED
    BY <1>1, <2>1, <2>2, <2>3
<1> QED
  BY <1>1, <1>2, <1>3, <1>4, <1>5, <1>6

-----------------------------------------------------------------------------
(***************************************************************************)
(* The invariant.                                                          *)
(***************************************************************************)
TheConfig ==
    /\ kind \in Kinds /\ live \subseteq Processes
    /\ faulty \in BOOLEAN /\ appends \in BOOLEAN
    /\ kind \in InMemory => Cardinality(live) = 1

TheRemote ==
    /\ stage \in [Processes -> {"off", "missing", "ready"}]
    /\ collection \in BOOLEAN
    /\ rows \in [Ids -> Seq(Rows)]
    /\ written \in [Ids -> [by : Processes \cup {Absent}, text : Texts \cup {Absent}]]

TheLocal ==
    /\ vectors \in [Processes -> [Ids -> Texts \cup {Absent}]]
    /\ tombstones \in [Processes -> SUBSET Ids]

TheCounts == writes \in 0..MaxWrites /\ restarts \in 0..MaxRestarts

\* A database keeps one row of an id and none of a deleted one, and the process
\* keeps nothing; an index in memory has no rows.
DatabasesAreClean ==
    /\ kind \in Sql \cup InMemory => tombstones = [p \in Processes |-> {}]
    /\ kind \in InMemory => rows = [m \in Ids |-> <<>>]
    /\ kind \in Sql =>
          \A m \in Ids : rows[m] = <<>> \/ \E t \in Texts : rows[m] = <<Row(t, FALSE)>>

\* What a process was the last to write it still has, or the service has if it is
\* asked for it.
WritesAreKept ==
    \A m \in Ids, p \in Processes :
        written[m].by = p /\ written[m].text # Absent =>
            /\ ~faulty => m \notin tombstones[p]
            /\ kind \in InMemory => p \in live /\ vectors[p][m] # Absent
            /\ kind \notin InMemory \cup Unqueried =>
                  rows[m] # <<>> /\ ~rows[m][Len(rows[m])].archived

\* The service of one process that is never refused a write: one row of an id,
\* the process's copy is the row's, and a tombstone stands for an archived row.
ServicesAgree ==
    kind \in Services /\ IsOneIndex =>
        \A m \in Ids, p \in live :
            /\ \/ rows[m] = <<>>
               \/ \E t \in Texts : rows[m] = <<Row(t, FALSE)>>
               \/ \E x \in Texts \cup {Absent} : rows[m] = <<Row(x, TRUE)>>
            /\ m \in tombstones[p] => Newest(m) = Absent
            /\ vectors[p][m] # Absent /\ m \notin tombstones[p] =>
                  Newest(m) = vectors[p][m]

State ==
    /\ TheConfig /\ TheRemote /\ TheLocal /\ TheCounts
    /\ DatabasesAreClean /\ WritesAreKept

\* The answer, of the state it was given in.
AnswerIsTyped ==
    /\ answer.by \in Processes \cup {Absent}
    /\ answer.hits \in Seq(Ids) /\ answer.limit \in Nat
    /\ Len(answer.hits) <= answer.limit

AnswerInv == AnswerIsTyped /\ HitsAreVouchedFor /\ OwnWritesAreFound

VectorInv == State /\ ServicesAgree /\ AnswerInv

\* What services, rows and replicas say is a matter of these variables only.
LEMMA ServicesUnchanged ==
    ASSUME ServicesAgree, UNCHANGED <<kind, live, faulty, appends, rows, vectors, tombstones>>
    PROVE  ServicesAgree'
<1>1. IsOneIndex' = IsOneIndex
  BY DEF IsOneIndex
<1>2. \A m : Newest(m)' = Newest(m)
  BY DEF Newest
<1> QED
  BY <1>1, <1>2 DEF ServicesAgree

-----------------------------------------------------------------------------
(***************************************************************************)
(* The matches of a search.                                                *)
(***************************************************************************)
TypedState == TheConfig /\ TheRemote /\ TheLocal

\* A match is typed, whatever it was scored with.
LEMMA MatchIsTyped ==
    ASSUME NEW m \in Ids, NEW i \in Nat, NEW q, NEW text
    PROVE  /\ Match(m, i, q, text) \in Matches
           /\ Match(m, i, q, text).id = m /\ Match(m, i, q, text).row = i
           /\ Match(m, i, q, text).score = IF q = text THEN 1 ELSE 0
BY DEF Match, Matches, Index!Similarity

\* What the service holds is finite, and so is what a process has cached; no
\* match of theirs is of an id that is not known.
LEMMA MatchesAreFinite ==
    ASSUME TypedState, NEW q, NEW p \in Processes
    PROVE  /\ Stored(q) \in SUBSET Matches /\ IsFiniteSet(Stored(q))
           /\ Active(q) \in SUBSET Stored(q)
           /\ LocalMatches(p, q) \in SUBSET Matches /\ IsFiniteSet(LocalMatches(p, q))
<1>1. ASSUME NEW m \in Ids
      PROVE  /\ {Match(m, i, q, rows[m][i].text) : i \in DOMAIN rows[m]} \in SUBSET Matches
             /\ IsFiniteSet({Match(m, i, q, rows[m][i].text) : i \in DOMAIN rows[m]})
  <2>1. rows[m] \in Seq(Rows)
    BY DEF TypedState, TheRemote
  <2>2. DOMAIN rows[m] = 1..Len(rows[m]) /\ Len(rows[m]) \in Nat
    BY <2>1
  <2> DEFINE image == {Match(m, i, q, rows[m][i].text) : i \in DOMAIN rows[m]}
             f == [i \in DOMAIN rows[m] |-> Match(m, i, q, rows[m][i].text)]
  <2>3. f \in Surjection(DOMAIN rows[m], image)
    BY DEF Surjection
  <2>4. IsFiniteSet(DOMAIN rows[m])
    BY <2>2, FS_Interval
  <2>5. IsFiniteSet(image)
    <3> HIDE DEF f, image
    <3> QED BY <2>3, <2>4, FS_Surjection
  <2>6. \A i \in DOMAIN rows[m] : i \in Nat
    BY <2>2
  <2> QED
    BY <2>5, <2>6, MatchIsTyped
<1> DEFINE OfId(m) == {Match(m, i, q, rows[m][i].text) : i \in DOMAIN rows[m]}
           ids == {OfId(m) : m \in Ids}
           g == [m \in Ids |-> OfId(m)]
<1>2. IsFiniteSet(ids) /\ \A T \in ids : IsFiniteSet(T)
  <2>1. g \in Surjection(Ids, ids)
    BY DEF Surjection
  <2>2. \A T \in ids : IsFiniteSet(T)
    BY <1>1
  <2> HIDE DEF g, ids
  <2> QED
    BY <2>1, <2>2, FS_Surjection, IdsAreNaturals
<1>3. Stored(q) = UNION ids
  BY DEF Stored
<1>4. Stored(q) \in SUBSET Matches /\ IsFiniteSet(Stored(q))
  <2>1. \A T \in ids : T \in SUBSET Matches
    BY <1>1
  <2> HIDE DEF ids
  <2> QED
    BY <1>2, <1>3, <2>1, FS_UNION
<1> DEFINE known == {i \in Ids : vectors[p][i] # Absent}
           all == {Match(m, 0, q, vectors[p][m]) : m \in known}
           l == [m \in known |-> Match(m, 0, q, vectors[p][m])]
<1>5. IsFiniteSet(all) /\ all \in SUBSET Matches
  <2>1. l \in Surjection(known, all)
    BY DEF Surjection
  <2>2. IsFiniteSet(known)
    BY FS_Subset, IdsAreNaturals
  <2>3. all \in SUBSET Matches
    BY MatchIsTyped
  <2> HIDE DEF known, all, l
  <2> QED
    BY <2>1, <2>2, <2>3, FS_Surjection
<1>6. LocalMatches(p, q) \in SUBSET all
  BY DEF LocalMatches, NotDeleted
<1>7. IsFiniteSet(LocalMatches(p, q)) /\ LocalMatches(p, q) \in SUBSET Matches
  <2> HIDE DEF all
  <2> QED
    BY <1>5, <1>6, FS_Subset
<1> QED
  BY <1>4, <1>7 DEF Active

\* What a match says of the state: of a stored one, its row; of a cached one,
\* that the process has it and has not deleted it.
LEMMA MatchesAreOfTheState ==
    ASSUME TypedState, NEW q, NEW p \in Processes
    PROVE  /\ \A h \in Stored(q) :
                /\ h.id \in Ids /\ h.row \in DOMAIN rows[h.id]
                /\ h = Match(h.id, h.row, q, rows[h.id][h.row].text)
           /\ \A h \in Active(q) : h \in Stored(q) /\ ~rows[h.id][h.row].archived
           /\ \A m \in Ids : \A i \in DOMAIN rows[m] :
                ~rows[m][i].archived => Match(m, i, q, rows[m][i].text) \in Active(q)
           /\ \A h \in LocalMatches(p, q) :
                /\ h.id \in Ids /\ h.row = 0 /\ h.id \notin tombstones[p]
                /\ vectors[p][h.id] # Absent
                /\ h = Match(h.id, 0, q, vectors[p][h.id])
           /\ \A m \in Ids :
                vectors[p][m] # Absent /\ m \notin tombstones[p]
                    => Match(m, 0, q, vectors[p][m]) \in LocalMatches(p, q)
<1>1. \A m \in Ids : \A i \in DOMAIN rows[m] : i \in Nat
  BY DEF TypedState, TheRemote
<1>2. \A h \in Stored(q) :
          /\ h.id \in Ids /\ h.row \in DOMAIN rows[h.id]
          /\ h = Match(h.id, h.row, q, rows[h.id][h.row].text)
  BY <1>1, MatchIsTyped DEF Stored
<1>3. ASSUME NEW m \in Ids, NEW i \in DOMAIN rows[m], ~rows[m][i].archived
      PROVE  Match(m, i, q, rows[m][i].text) \in Active(q)
  <2>1. Match(m, i, q, rows[m][i].text) \in Stored(q)
    BY DEF Stored
  <2>2. Match(m, i, q, rows[m][i].text).id = m /\ Match(m, i, q, rows[m][i].text).row = i
    BY <1>1, MatchIsTyped
  <2> QED
    BY <1>3, <2>1, <2>2 DEF Active, IsArchived
<1>4. \A h \in Active(q) : h \in Stored(q) /\ ~rows[h.id][h.row].archived
  BY DEF Active, IsArchived
<1>5. \A h \in LocalMatches(p, q) :
          /\ h.id \in Ids /\ h.row = 0 /\ h.id \notin tombstones[p]
          /\ vectors[p][h.id] # Absent
          /\ h = Match(h.id, 0, q, vectors[p][h.id])
  BY MatchIsTyped DEF LocalMatches, NotDeleted
<1>6. ASSUME NEW m \in Ids, vectors[p][m] # Absent, m \notin tombstones[p]
      PROVE  Match(m, 0, q, vectors[p][m]) \in LocalMatches(p, q)
  <2>1. Match(m, 0, q, vectors[p][m]).id = m
    BY MatchIsTyped
  <2> QED
    BY <1>6, <2>1 DEF LocalMatches, NotDeleted
<1> QED
  BY <1>2, <1>3, <1>4, <1>5, <1>6

\* What the service returns of finitely many matches: as many as it can, and all
\* of them when there is room.
LEMMA TopsAreOfTheMatches ==
    ASSUME NEW S \in SUBSET Matches, IsFiniteSet(S), NEW n \in Nat, NEW top \in Tops(S, n)
    PROVE  /\ top \in SUBSET S /\ IsFiniteSet(top) /\ Cardinality(top) \in Nat
           /\ Cardinality(top) <= n /\ Cardinality(top) <= Cardinality(S)
           /\ Cardinality(S) \in Nat
           /\ Cardinality(top) = n \/ top = S
           /\ Cardinality(S) <= n => top = S
           /\ \A h \in top, other \in S : other \notin top => h.score >= other.score
<1>1. /\ top \in SUBSET S /\ Cardinality(top) = AtMost(n, S)
      /\ \A h \in top, other \in S : other \notin top => h.score >= other.score
  BY DEF Tops
<1>2. /\ IsFiniteSet(top) /\ Cardinality(top) \in Nat /\ Cardinality(S) \in Nat
      /\ Cardinality(S) = Cardinality(top) => S = top
  BY <1>1, FS_Subset, FS_CardinalityType
<1> QED
  BY <1>1, <1>2 DEF AtMost

-----------------------------------------------------------------------------
(***************************************************************************)
(* What a search returns.                                                  *)
(***************************************************************************)
\* hits list ids of S, all of them if there is room.
IsListOf(hits, S, n) ==
    /\ hits \in Seq(Ids) /\ Len(hits) <= n
    /\ \A i \in DOMAIN hits : hits[i] \in IdsOf(S)
    /\ Cardinality(S) <= n => \A h \in S : \E i \in DOMAIN hits : hits[i] = h.id

IsVouchedFor(p, m) ==
    /\ m \notin tombstones[p]
    /\ \/ \E i \in DOMAIN rows[m] : ~rows[m][i].archived
       \/ kind \in Merging /\ vectors[p][m] # Absent

\* Nothing is missing from S that the process should find.
IsWhole(p, q, S) ==
    /\ kind \notin Unqueried => IdsOf(NotDeleted(p, Active(q))) \subseteq IdsOf(S)
    /\ kind \in InMemory \cup Unqueried => IdsOf(LocalMatches(p, q)) \subseteq IdsOf(S)

\* The sorted list is a list of its matches.
LEMMA OrderedIsAList ==
    ASSUME NEW S \in SUBSET Matches, IsFiniteSet(S), NEW n \in Nat
    PROVE  IsListOf(Ordered(S, n), S, n)
<1> DEFINE hits == Ordered(S, n)
           k == AtMost(n, S)
<1>1. /\ k \in Nat /\ k <= n /\ k <= Cardinality(S) /\ Cardinality(S) \in Nat
      /\ hits \in [1..k -> IdsOf(S)] /\ Len(hits) = k
      /\ \A i \in 1..k : /\ AtPlace(S, i) \in S /\ hits[i] = AtPlace(S, i).id
                         /\ Cardinality(Earlier(AtPlace(S, i), S)) = i - 1
      /\ \A h \in S : \/ \E i \in 1..k : AtPlace(S, i) = h
                      \/ \A i \in 1..k : Before(AtPlace(S, i), h)
  BY OrderedIsSorted
<1>2. Cardinality(S) <= n => k = Cardinality(S)
  BY <1>1 DEF AtMost
<1> HIDE DEF hits, k
<1>3. IdsOf(S) \subseteq Ids
  BY DEF IdsOf, Matches
<1>4. hits \in [1..k -> Ids]
  BY <1>1, <1>3
<1>5. hits \in Seq(Ids)
  BY <1>1, <1>4
<1>6. DOMAIN hits = 1..k
  BY <1>1
<1>7. ASSUME Cardinality(S) <= n, NEW h \in S
      PROVE  \E i \in 1..k : hits[i] = h.id
  <2>1. Cardinality(Earlier(h, S)) \in Nat /\ Cardinality(Earlier(h, S)) < Cardinality(S)
    BY EarlierGrows
  <2>2. k \in 1..k /\ k = Cardinality(S)
    BY <1>1, <1>2, <1>7, <2>1
  <2>3. ~Before(AtPlace(S, k), h)
    <3>1. AtPlace(S, k) \in S /\ Cardinality(Earlier(AtPlace(S, k), S)) = k - 1
      BY <1>1, <2>2
    <3>2. ~(k - 1 < Cardinality(Earlier(h, S)))
      BY <1>1, <2>1, <2>2
    <3> QED
      BY <3>1, <3>2, EarlierGrows
  <2>4. PICK i \in 1..k : AtPlace(S, i) = h
    BY <1>1, <2>2, <2>3
  <2> QED
    BY <1>1, <2>4
<1>8. IsListOf(hits, S, n)
  BY <1>1, <1>5, <1>6, <1>7 DEF IsListOf
<1> QED
  BY <1>8 DEF hits

\* Matches of the service that were not deleted here and the process's own: both
\* are vouched for, finitely many and no more than there are to find.
LEMMA MergedAreVouchedFor ==
    ASSUME TypedState, NEW p \in Processes, NEW q, NEW T \in SUBSET Active(q)
    PROVE  LET found == NotDeleted(p, T)
               all == WithLocal(p, q, found)
           IN  /\ found \in SUBSET Matches /\ IsFiniteSet(found)
               /\ \A h \in found : IsVouchedFor(p, h.id)
               /\ all \in SUBSET Matches /\ IsFiniteSet(all)
               /\ kind \in Merging => \A h \in all : IsVouchedFor(p, h.id)
               /\ T = Active(q) => IsWhole(p, q, all)
               /\ T = Active(q) /\ kind \notin InMemory \cup Unqueried => IsWhole(p, q, found)
               /\ T = Active(q) /\ kind \in Merging \ Unqueried =>
                    all \in SUBSET Matching(p, q)
<1> DEFINE found == NotDeleted(p, T)
           all == WithLocal(p, q, found)
<1>1. /\ Stored(q) \in SUBSET Matches /\ IsFiniteSet(Stored(q))
      /\ Active(q) \in SUBSET Stored(q)
      /\ LocalMatches(p, q) \in SUBSET Matches /\ IsFiniteSet(LocalMatches(p, q))
  BY MatchesAreFinite
<1>2. found \in SUBSET T /\ \A h \in found : h.id \notin tombstones[p]
  BY DEF NotDeleted
<1>3. found \in SUBSET Matches /\ IsFiniteSet(found)
  BY <1>1, <1>2, FS_Subset
<1>4. \A h \in found : IsVouchedFor(p, h.id)
  BY <1>1, <1>2, MatchesAreOfTheState DEF IsVouchedFor
<1>5. all \in SUBSET (found \cup LocalMatches(p, q)) /\ found \in SUBSET all
  BY DEF WithLocal
<1>6. all \in SUBSET Matches /\ IsFiniteSet(all)
  <2>1. IsFiniteSet(found \cup LocalMatches(p, q))
    BY <1>1, <1>3, FS_Union
  <2>2. IsFiniteSet(all)
    <3> HIDE DEF all
    <3> QED BY <1>5, <2>1, FS_Subset
  <2> QED
    BY <1>1, <1>3, <1>5, <2>2
<1>7. kind \in Merging => \A h \in LocalMatches(p, q) : IsVouchedFor(p, h.id)
  BY MatchesAreOfTheState DEF IsVouchedFor
<1>8. \A h \in LocalMatches(p, q) : h.id \notin tombstones[p]
  BY MatchesAreOfTheState
<1>9. T = Active(q) => IdsOf(found) = IdsOf(NotDeleted(p, Active(q)))
  OBVIOUS
<1>10. IdsOf(found) \subseteq IdsOf(all) /\ IdsOf(LocalMatches(p, q)) \subseteq IdsOf(all)
  BY DEF WithLocal, IdsOf
<1>11. ASSUME T = Active(q), kind \in Merging \ Unqueried, NEW h \in all
       PROVE  h \in Matching(p, q)
  <2>1. CASE h \in found
    BY <1>2, <1>11, <2>1 DEF Matching, WithLocal
  <2>2. CASE h \notin found
    <3>1. h \in LocalMatches(p, q) /\ h.id \notin IdsOf(found)
      BY <2>2 DEF WithLocal
    <3>2. h.id \notin IdsOf(Active(q))
      BY <1>8, <1>11, <3>1 DEF IdsOf, NotDeleted
    <3> QED
      BY <1>11, <3>1, <3>2 DEF Matching, WithLocal
  <2> QED
    BY <2>1, <2>2
<1> HIDE DEF found, all
<1>12. kind \in Merging => \A h \in all : IsVouchedFor(p, h.id)
  BY <1>4, <1>5, <1>7
<1>13. T = Active(q) => IsWhole(p, q, all)
  BY <1>9, <1>10 DEF IsWhole
<1>14. T = Active(q) /\ kind \notin InMemory \cup Unqueried => IsWhole(p, q, found)
  BY <1>9 DEF IsWhole
<1>15. T = Active(q) /\ kind \in Merging \ Unqueried => all \in SUBSET Matching(p, q)
  BY <1>11
<1>16. /\ found \in SUBSET Matches /\ IsFiniteSet(found)
       /\ \A h \in found : IsVouchedFor(p, h.id)
       /\ all \in SUBSET Matches /\ IsFiniteSet(all)
       /\ kind \in Merging => \A h \in all : IsVouchedFor(p, h.id)
       /\ T = Active(q) => IsWhole(p, q, all)
       /\ T = Active(q) /\ kind \notin InMemory \cup Unqueried => IsWhole(p, q, found)
       /\ T = Active(q) /\ kind \in Merging \ Unqueried => all \in SUBSET Matching(p, q)
  BY <1>3, <1>4, <1>6, <1>12, <1>13, <1>14, <1>15
<1> QED
  BY <1>16 DEF found, all

\* There are finitely many matches to find, the service's among them if it is asked.
LEMMA MatchingIsFinite ==
    ASSUME TypedState, NEW p \in Processes, NEW q
    PROVE  /\ Matching(p, q) \in SUBSET Matches /\ IsFiniteSet(Matching(p, q))
           /\ Cardinality(Matching(p, q)) \in Nat
           /\ IsFiniteSet(Active(q)) /\ Cardinality(Active(q)) \in Nat
           /\ kind \notin Unqueried =>
                /\ Active(q) \in SUBSET Matching(p, q)
                /\ Cardinality(Active(q)) <= Cardinality(Matching(p, q))
<1>1. /\ Stored(q) \in SUBSET Matches /\ IsFiniteSet(Stored(q))
      /\ Active(q) \in SUBSET Stored(q)
      /\ LocalMatches(p, q) \in SUBSET Matches /\ IsFiniteSet(LocalMatches(p, q))
  BY MatchesAreFinite
<1>2. IsFiniteSet(Active(q)) /\ Cardinality(Active(q)) \in Nat
  BY <1>1, FS_Subset, FS_CardinalityType
<1>3. /\ Matching(p, q) \in SUBSET (Active(q) \cup LocalMatches(p, q))
      /\ kind \notin Unqueried => Active(q) \in SUBSET Matching(p, q)
  BY DEF Matching, WithLocal
<1>4. IsFiniteSet(Active(q) \cup LocalMatches(p, q))
  BY <1>1, <1>2, FS_Union
<1>5. IsFiniteSet(Matching(p, q)) /\ Cardinality(Matching(p, q)) \in Nat
  BY <1>3, <1>4, FS_Subset, FS_CardinalityType
<1>6. kind \notin Unqueried => Cardinality(Active(q)) <= Cardinality(Matching(p, q))
  BY <1>3, <1>5, FS_Subset
<1> QED
  BY <1>1, <1>2, <1>3, <1>5, <1>6

\* A search lists matches it can vouch for, and all there are if it is complete
\* and has room for them.
IsFoundIn(S, p, q, n, hits, complete) ==
    /\ IsListOf(hits, S, n)
    /\ \A h \in S : IsVouchedFor(p, h.id)
    /\ complete /\ n >= Cardinality(Matching(p, q)) =>
          Cardinality(S) <= n /\ IsWhole(p, q, S)

Outcome(p, q, n) ==
    \E S \in SUBSET Matches, hits \in Seq(Ids), complete \in BOOLEAN :
        /\ Answered(p, q, n, hits, complete)
        /\ IsFoundIn(S, p, q, n, hits, complete)

LEMMA OrderedIsAnOutcome ==
    ASSUME NEW p, NEW q, NEW n \in Nat, NEW complete \in BOOLEAN,
           NEW S \in SUBSET Matches, IsFiniteSet(S),
           \A h \in S : IsVouchedFor(p, h.id),
           complete /\ n >= Cardinality(Matching(p, q)) =>
               Cardinality(S) <= n /\ IsWhole(p, q, S),
           Answered(p, q, n, Ordered(S, n), complete)
    PROVE  Outcome(p, q, n)
<1>1. IsListOf(Ordered(S, n), S, n)
  BY OrderedIsAList
<1>2. Ordered(S, n) \in Seq(Ids)
  BY <1>1 DEF IsListOf
<1>3. IsFoundIn(S, p, q, n, Ordered(S, n), complete)
  BY <1>1 DEF IsFoundIn
<1> QED
  BY <1>2, <1>3 DEF Outcome

\* The service's best matches, when there is room for every match.
LEMMA TopsOfTheService ==
    ASSUME TypedState, NEW p \in Processes, NEW q, NEW n \in Nat,
           NEW top \in Tops(Active(q), n)
    PROVE  /\ top \in SUBSET Active(q)
           /\ kind \notin Unqueried /\ n >= Cardinality(Matching(p, q)) => top = Active(q)
<1>1. Active(q) \in SUBSET Matches /\ IsFiniteSet(Active(q))
  BY MatchingIsFinite, MatchesAreFinite
<1>2. top \in SUBSET Active(q) /\ (Cardinality(Active(q)) <= n => top = Active(q))
  BY <1>1, TopsAreOfTheMatches
<1>3. /\ Cardinality(Active(q)) \in Nat /\ Cardinality(Matching(p, q)) \in Nat
      /\ kind \notin Unqueried => Cardinality(Active(q)) <= Cardinality(Matching(p, q))
  BY MatchingIsFinite
<1> QED
  BY <1>2, <1>3

\* A set of matches that is part of what there is to find fits.
LEMMA PartsFit ==
    ASSUME TypedState, NEW p \in Processes, NEW q, NEW n \in Nat,
           NEW S \in SUBSET Matching(p, q), n >= Cardinality(Matching(p, q))
    PROVE  Cardinality(S) <= n
<1>1. IsFiniteSet(Matching(p, q)) /\ Cardinality(Matching(p, q)) \in Nat
  BY MatchingIsFinite
<1>2. Cardinality(S) <= Cardinality(Matching(p, q)) /\ Cardinality(S) \in Nat
  BY <1>1, FS_Subset, FS_CardinalityType
<1> QED
  BY <1>1, <1>2

\* The searches that merge what the service returned with the process's own, or
\* do not: complete ones asked for the rows that are not archived.
LEMMA MergingIsAnOutcome ==
    ASSUME TypedState, NEW p \in Processes, NEW q, NEW n \in Nat, kind \in Merging,
           kind \notin InMemory \cup Unqueried, NEW complete \in BOOLEAN, NEW T \in SUBSET Active(q),
           complete => T \in Tops(Active(q), n),
           NEW all, all \in {NotDeleted(p, T), WithLocal(p, q, NotDeleted(p, T))},
           Answered(p, q, n, Ordered(all, n), complete)
    PROVE  Outcome(p, q, n)
<1> DEFINE found == NotDeleted(p, T)
           merged == WithLocal(p, q, found)
<1>1. /\ found \in SUBSET Matches /\ IsFiniteSet(found)
      /\ \A h \in found : IsVouchedFor(p, h.id)
      /\ merged \in SUBSET Matches /\ IsFiniteSet(merged)
      /\ \A h \in merged : IsVouchedFor(p, h.id)
      /\ T = Active(q) => IsWhole(p, q, merged)
      /\ T = Active(q) => IsWhole(p, q, found)
      /\ T = Active(q) => merged \in SUBSET Matching(p, q)
  BY MergedAreVouchedFor
<1>2. found \in SUBSET merged
  BY DEF WithLocal
<1>3. all = found \/ all = merged
  OBVIOUS
<1> HIDE DEF found, merged
<1>4. all \in SUBSET Matches /\ IsFiniteSet(all) /\ \A h \in all : IsVouchedFor(p, h.id)
  BY <1>1, <1>3
<1>5. ASSUME complete, n >= Cardinality(Matching(p, q))
      PROVE  Cardinality(all) <= n /\ IsWhole(p, q, all)
  <2>1. T = Active(q)
    BY <1>5, TopsOfTheService
  <2>2. all \in SUBSET Matching(p, q) /\ IsWhole(p, q, all)
    BY <1>1, <1>2, <1>3, <2>1
  <2> QED
    BY <1>5, <2>2, PartsFit
<1> QED
  BY <1>4, <1>5, OrderedIsAnOutcome

\* Scoring by the process's own copy changes no id and adds no match.
LEMMA RescoredIsAnOutcome ==
    ASSUME TypedState, NEW p \in Processes, NEW q \in Texts, NEW n \in Limits,
           WeaviateSearch(p, q, n)
    PROVE  Outcome(p, q, n)
<1>1. n \in Nat /\ kind = "weaviate" /\ kind \notin Unqueried
  BY LimitsAreNaturals DEF WeaviateSearch, Ready, Unqueried
<1> DEFINE Rescored(h) == IF h.score = 0 THEN Match(h.id, h.row, q, vectors[p][h.id])
                          ELSE h
<1>2. PICK top \in Tops(Active(q), n) :
          Answered(p, q, n, Ordered(WithLocal(p, q, {Rescored(h) : h \in NotDeleted(p, top)}), n),
                   TRUE)
  BY DEF WeaviateSearch
<1> DEFINE found == NotDeleted(p, top)
           matches == {Rescored(h) : h \in found}
           all == WithLocal(p, q, matches)
           merged == WithLocal(p, q, found)
           f == [h \in merged |-> IF h \in found THEN Rescored(h) ELSE h]
<1>3. top \in SUBSET Active(q) /\ (n >= Cardinality(Matching(p, q)) => top = Active(q))
  BY <1>1, TopsOfTheService
<1>4. /\ found \in SUBSET Matches /\ IsFiniteSet(found)
      /\ merged \in SUBSET Matches /\ IsFiniteSet(merged)
      /\ \A h \in merged : IsVouchedFor(p, h.id)
      /\ top = Active(q) => IsWhole(p, q, merged) /\ merged \in SUBSET Matching(p, q)
  BY <1>1, <1>3, MergedAreVouchedFor DEF Merging, InMemory
<1>5. \A h \in Matches : Rescored(h) \in Matches /\ Rescored(h).id = h.id
  <2>1. \A h \in Matches : h.id \in Ids /\ h.row \in Nat
    BY DEF Matches
  <2> QED
    BY <2>1, MatchIsTyped
<1> HIDE DEF Rescored
<1>6. IdsOf(matches) = IdsOf(found)
  BY <1>4, <1>5 DEF IdsOf
<1>7. all = {f[h] : h \in merged}
  <2>1. /\ all = matches \cup {h \in LocalMatches(p, q) : h.id \notin IdsOf(found)}
        /\ merged = found \cup {h \in LocalMatches(p, q) : h.id \notin IdsOf(found)}
    BY <1>6 DEF WithLocal
  <2>2. \A h \in found : f[h] = Rescored(h)
    BY <2>1
  <2>3. \A h \in LocalMatches(p, q) : h.id \notin IdsOf(found) => h \notin found /\ f[h] = h
    BY <2>1 DEF IdsOf
  <2>4. matches = {f[h] : h \in found}
    BY <2>2
  <2> HIDE DEF f, matches, all, merged, found
  <2> QED
    BY <2>1, <2>3, <2>4
<1>8. /\ \A h \in merged : f[h] \in Matches /\ f[h].id = h.id
  BY <1>4, <1>5
<1>9. f \in Surjection(merged, all)
  BY <1>7 DEF Surjection
<1> HIDE DEF found, matches, all, merged, f
<1>10. /\ IsFiniteSet(all) /\ Cardinality(all) <= Cardinality(merged)
       /\ Cardinality(all) \in Nat /\ Cardinality(merged) \in Nat
  BY <1>4, <1>9, FS_Surjection, FS_CardinalityType
<1>11. all \in SUBSET Matches /\ \A h \in all : IsVouchedFor(p, h.id)
  BY <1>4, <1>7, <1>8
<1>12. IdsOf(all) = IdsOf(merged)
  BY <1>7, <1>8 DEF IdsOf
<1>13. ASSUME n >= Cardinality(Matching(p, q))
       PROVE  Cardinality(all) <= n /\ IsWhole(p, q, all)
  <2>1. IsWhole(p, q, merged) /\ Cardinality(merged) <= n
    BY <1>1, <1>3, <1>4, <1>13, PartsFit
  <2> QED
    BY <1>1, <1>10, <1>12, <2>1 DEF IsWhole
<1>14. Answered(p, q, n, Ordered(all, n), TRUE)
  BY <1>2 DEF all, matches, found
<1> QED
  BY <1>1, <1>10, <1>11, <1>13, <1>14, OrderedIsAnOutcome

\* The rows of a database are all active, and nothing is deleted in the process.
LEMMA DatabaseRowsAreActive ==
    ASSUME TypedState, DatabasesAreClean, NEW p \in Processes, NEW q, kind \in Sql
    PROVE  /\ Stored(q) = Active(q)
           /\ \A T \in SUBSET Active(q) : NotDeleted(p, T) = T
           /\ kind \notin Merging /\ kind \notin InMemory /\ kind \notin Unqueried
<1>1. kind \notin Merging /\ kind \notin InMemory /\ kind \notin Unqueried
  BY DEF Sql, Merging, InMemory, Unqueried
<1>2. \A T \in SUBSET Active(q) : NotDeleted(p, T) = T
  BY DEF DatabasesAreClean, NotDeleted
<1>3. ASSUME NEW h \in Stored(q) PROVE ~rows[h.id][h.row].archived
  <2>1. h.id \in Ids /\ h.row \in DOMAIN rows[h.id]
    BY MatchesAreOfTheState
  <2>a. rows[h.id] # <<>>
    <3>1. DOMAIN << >> = {}
      OBVIOUS
    <3> QED
      BY <2>1, <3>1, Zenon
  <2>b. rows[h.id] = <<>> \/ \E t \in Texts : rows[h.id] = <<Row(t, FALSE)>>
    BY <2>1 DEF DatabasesAreClean
  <2>2. PICK t \in Texts : rows[h.id] = <<Row(t, FALSE)>>
    BY <2>a, <2>b
  <2>3. h.row = 1
    BY <2>1, <2>2
  <2> QED
    BY <2>2, <2>3 DEF Row
<1>4. Stored(q) = Active(q)
  BY <1>3 DEF Active, IsArchived
<1> QED
  BY <1>1, <1>2, <1>4

\* Every search has such an outcome.
LEMMA SearchHasOutcome ==
    ASSUME TypedState, DatabasesAreClean, NEW p \in Processes, NEW q \in Texts,
           NEW n \in Limits, Search(p, q, n)
    PROVE  Outcome(p, q, n)
<1>1. n \in Nat
  BY LimitsAreNaturals
<1>2. CASE InMemorySearch(p, q, n)
  <2>1. kind \in InMemory /\ kind \in Merging /\ kind \notin Sql \cup Unqueried
    BY <1>2 DEF InMemorySearch, Ready, Merging, InMemory, Sql, Unqueried
  <2>2. /\ LocalMatches(p, q) \in SUBSET Matches /\ IsFiniteSet(LocalMatches(p, q))
    BY MatchesAreFinite
  <2>3. Active(q) = {}
    BY <2>1 DEF DatabasesAreClean, Active, Stored
  <2>4. LocalMatches(p, q) = Matching(p, q)
    BY <2>1, <2>3 DEF Matching, WithLocal, IdsOf
  <2>5. \A h \in LocalMatches(p, q) : IsVouchedFor(p, h.id)
    BY <2>1, MatchesAreOfTheState DEF IsVouchedFor
  <2>6. IsWhole(p, q, LocalMatches(p, q))
    BY <2>3 DEF IsWhole, NotDeleted, IdsOf
  <2>7. n >= Cardinality(Matching(p, q)) => Cardinality(LocalMatches(p, q)) <= n
    BY <1>1, <2>4, PartsFit
  <2>8. Answered(p, q, n, Ordered(LocalMatches(p, q), n), TRUE)
    BY <1>2 DEF InMemorySearch
  <2> QED
    BY <1>1, <2>2, <2>5, <2>6, <2>7, <2>8, OrderedIsAnOutcome
<1>3. CASE RedisSearch(p, q, n)
  <2> DEFINE found == NotDeleted(p, Active(q))
  <2>1. kind \notin InMemory /\ kind \notin Merging /\ kind \notin Unqueried
    BY <1>3 DEF RedisSearch, Ready, Merging, InMemory, Unqueried
  <2>2. /\ found \in SUBSET Matches /\ IsFiniteSet(found)
        /\ \A h \in found : IsVouchedFor(p, h.id)
        /\ IsWhole(p, q, found)
    BY <2>1, MergedAreVouchedFor
  <2>3. found \in SUBSET Matching(p, q)
    BY <2>1 DEF NotDeleted, Matching
  <2>4. Answered(p, q, n, Ordered(found, n), TRUE)
    BY <1>3 DEF RedisSearch
  <2> HIDE DEF found
  <2>5. n >= Cardinality(Matching(p, q)) => Cardinality(found) <= n
    BY <1>1, <2>3, PartsFit
  <2> QED
    BY <1>1, <2>2, <2>4, <2>5, OrderedIsAnOutcome
<1>4. CASE MilvusSearch(p, q, n)
  <2>1. kind \in Merging /\ kind \notin InMemory \cup Unqueried
    BY <1>4 DEF MilvusSearch, Ready, Merging, InMemory, Unqueried
  <2>2. PICK top \in Tops(Active(q), n), up \in BOOLEAN :
            LET matches == IF up THEN NotDeleted(p, top) ELSE {}
                all == IF Cardinality(matches) < n THEN WithLocal(p, q, matches)
                       ELSE matches
            IN Answered(p, q, n, Ordered(all, n), up)
    BY <1>4 DEF MilvusSearch
  <2> DEFINE T == IF up THEN top ELSE {}
             found == NotDeleted(p, T)
             all == IF Cardinality(found) < n THEN WithLocal(p, q, found) ELSE found
  <2>3. top \in SUBSET Active(q)
    BY <1>1, TopsOfTheService
  <2>4. T \in SUBSET Active(q) /\ (up => T \in Tops(Active(q), n))
    BY <2>3
  <2>5. found = IF up THEN NotDeleted(p, top) ELSE {}
    BY DEF NotDeleted
  <2>6. Answered(p, q, n, Ordered(all, n), up)
    BY <2>2, <2>5
  <2>7. all \in {NotDeleted(p, T), WithLocal(p, q, NotDeleted(p, T))}
    OBVIOUS
  <2> HIDE DEF T, all
  <2> QED
    BY <1>1, <2>1, <2>4, <2>6, <2>7, MergingIsAnOutcome
<1>5. ASSUME NEW filtered \in BOOLEAN, NEW matches \in Queried(p, q, n, filtered)
      PROVE  \E T \in SUBSET Active(q) :
                matches = NotDeleted(p, T) /\ (filtered => T \in Tops(Active(q), n))
  <2>1. PICK top \in Tops(IF filtered THEN Active(q) ELSE Stored(q), n) :
            matches = NotDeleted(p, {h \in top : ~IsArchived(h)})
    BY DEF Queried
  <2>2. top \in SUBSET Stored(q)
    <3>1. Active(q) \in SUBSET Stored(q)
      BY DEF Active
    <3> QED
      BY <2>1, <3>1 DEF Tops
  <2>3. filtered => {h \in top : ~IsArchived(h)} = top
    BY <2>1 DEF Tops, Active
  <2>4. {h \in top : ~IsArchived(h)} \in SUBSET Active(q)
    BY <2>2 DEF Active
  <2> QED
    BY <2>1, <2>3, <2>4
<1>6. CASE QdrantSearch(p, q, n)
  <2>1. kind \in Merging /\ kind \notin InMemory \cup Unqueried
    BY <1>6 DEF QdrantSearch, Ready, Merging, InMemory, Unqueried
  <2>2. PICK up \in BOOLEAN, filtered \in BOOLEAN :
            \E matches \in IF up THEN Queried(p, q, n, filtered) ELSE {{}} :
               Answered(p, q, n, Ordered(WithLocal(p, q, matches), n), up /\ filtered)
    BY <1>6 DEF QdrantSearch
  <2>3. PICK matches \in IF up THEN Queried(p, q, n, filtered) ELSE {{}} :
               Answered(p, q, n, Ordered(WithLocal(p, q, matches), n), up /\ filtered)
    BY <2>2
  <2>4. \E T \in SUBSET Active(q) :
            matches = NotDeleted(p, T) /\ (up /\ filtered => T \in Tops(Active(q), n))
    <3>1. CASE up
      BY <1>5, <2>3, <3>1
    <3>2. CASE ~up
      <4>1. matches = NotDeleted(p, {}) /\ {} \in SUBSET Active(q)
        BY <2>3, <3>2 DEF NotDeleted
      <4> QED
        BY <3>2, <4>1
    <3> QED
      BY <3>1, <3>2
  <2>5. PICK T \in SUBSET Active(q) :
            matches = NotDeleted(p, T) /\ (up /\ filtered => T \in Tops(Active(q), n))
    BY <2>4
  <2> DEFINE all == WithLocal(p, q, NotDeleted(p, T))
             complete == up /\ filtered
  <2>6. /\ Answered(p, q, n, Ordered(all, n), complete)
        /\ complete \in BOOLEAN /\ (complete => T \in Tops(Active(q), n))
    BY <2>3, <2>5
  <2>7. all \in {NotDeleted(p, T), WithLocal(p, q, NotDeleted(p, T))}
    OBVIOUS
  <2> HIDE DEF all, complete
  <2> QED
    BY <1>1, <2>1, <2>6, <2>7, MergingIsAnOutcome
<1>7. CASE PineconeSearch(p, q, n)
  <2>1. kind \in Merging /\ kind \notin InMemory \cup Unqueried
    BY <1>7 DEF PineconeSearch, Ready, Merging, InMemory, Unqueried
  <2>2a. PICK filtered \in BOOLEAN : \E matches \in Queried(p, q, n, filtered) :
            LET all == IF Cardinality(matches) < n THEN WithLocal(p, q, matches)
                       ELSE matches
            IN Answered(p, q, n, Ordered(all, n), filtered)
    BY <1>7 DEF PineconeSearch
  <2>2. PICK matches \in Queried(p, q, n, filtered) :
            LET all == IF Cardinality(matches) < n THEN WithLocal(p, q, matches)
                       ELSE matches
            IN Answered(p, q, n, Ordered(all, n), filtered)
    BY <2>2a
  <2>3. PICK T \in SUBSET Active(q) :
            matches = NotDeleted(p, T) /\ (filtered => T \in Tops(Active(q), n))
    BY <1>5
  <2> DEFINE all == IF Cardinality(matches) < n THEN WithLocal(p, q, matches) ELSE matches
  <2>4. Answered(p, q, n, Ordered(all, n), filtered)
    BY <2>2
  <2>5. all \in {NotDeleted(p, T), WithLocal(p, q, NotDeleted(p, T))}
    BY <2>3
  <2> HIDE DEF all
  <2> QED
    BY <1>1, <2>1, <2>3, <2>4, <2>5, MergingIsAnOutcome
<1>8. CASE WeaviateSearch(p, q, n)
  BY <1>8, RescoredIsAnOutcome
<1>9. ASSUME kind \in Sql, NEW top \in Tops(Stored(q), n)
      PROVE  /\ top \in SUBSET Matches /\ IsFiniteSet(top)
             /\ Cardinality(top) \in Nat /\ Cardinality(top) <= n
             /\ \A h \in top : IsVouchedFor(p, h.id)
             /\ n >= Cardinality(Matching(p, q)) =>
                  Cardinality(top) <= n /\ IsWhole(p, q, top)
  <2>1. /\ Stored(q) = Active(q) /\ kind \notin Merging /\ kind \notin InMemory
        /\ kind \notin Unqueried
        /\ \A T \in SUBSET Active(q) : NotDeleted(p, T) = T
    BY <1>9, DatabaseRowsAreActive
  <2>2. top \in SUBSET Active(q) /\ (n >= Cardinality(Matching(p, q)) => top = Active(q))
    BY <1>1, <2>1, TopsOfTheService
  <2>3. /\ top \in SUBSET Matches /\ IsFiniteSet(top)
        /\ \A h \in top : IsVouchedFor(p, h.id)
        /\ top = Active(q) => IsWhole(p, q, top)
    BY <2>1, <2>2, MergedAreVouchedFor
  <2>4. Cardinality(top) \in Nat /\ Cardinality(top) <= n
    BY <1>1, MatchesAreFinite, TopsAreOfTheMatches
  <2> QED
    BY <2>2, <2>3, <2>4
<1>10. CASE PgSearch(p, q, n)
  <2>1. kind \in Sql
    BY <1>10 DEF PgSearch, Ready, Sql
  <2>2. PICK top \in Tops(Stored(q), n) : \E s \in SetToSeqs(top) :
            Answered(p, q, n, [i \in DOMAIN s |-> s[i].id], TRUE)
    BY <1>10 DEF PgSearch
  <2>3. PICK s \in SetToSeqs(top) : Answered(p, q, n, [i \in DOMAIN s |-> s[i].id], TRUE)
    BY <2>2
  <2> DEFINE k == Cardinality(top)
             hits == [i \in DOMAIN s |-> s[i].id]
  <2>4. /\ top \in SUBSET Matches /\ IsFiniteSet(top) /\ k \in Nat /\ k <= n
        /\ \A h \in top : IsVouchedFor(p, h.id)
        /\ n >= Cardinality(Matching(p, q)) => k <= n /\ IsWhole(p, q, top)
    BY <1>9, <2>1
  <2>5. s \in [1..k -> top] /\ \A i, j \in 1..k : i # j => s[i] # s[j]
    BY DEF SetToSeqs
  <2>6. s \in Surjection(1..k, top)
    <3>1. s \in Injection(1..k, top)
      BY <2>5 DEF Injection, IsInjective
    <3>2. IsFiniteSet(1..k) /\ Cardinality(1..k) = k
      BY <2>4, FS_Interval
    <3> QED
      BY <2>4, <3>1, <3>2, FS_Injection
  <2>7. hits \in [1..k -> Ids] /\ \A i \in 1..k : hits[i] = s[i].id
    BY <2>4, <2>5 DEF Matches
  <2>8. Answered(p, q, n, hits, TRUE)
    BY <2>3
  <2> HIDE DEF k, hits
  <2>9. hits \in Seq(Ids) /\ Len(hits) = k /\ DOMAIN hits = 1..k
    BY <2>4, <2>7
  <2>10. \A i \in 1..k : hits[i] \in IdsOf(top)
    BY <2>5, <2>7 DEF IdsOf
  <2>11. \A h \in top : \E i \in 1..k : hits[i] = h.id
    BY <2>6, <2>7 DEF Surjection
  <2>12. IsListOf(hits, top, n)
    BY <2>4, <2>9, <2>10, <2>11 DEF IsListOf
  <2>13. IsFoundIn(top, p, q, n, hits, TRUE)
    BY <2>4, <2>12 DEF IsFoundIn, k
  <2> QED
    BY <2>4, <2>8, <2>9, <2>13 DEF Outcome
<1>11. CASE SqliteSearch(p, q, n)
  <2>1. kind \in Sql
    BY <1>11 DEF SqliteSearch, Ready, Sql
  <2>2. PICK top \in Tops(Stored(q), n) : Answered(p, q, n, Ordered(top, n), TRUE)
    BY <1>11 DEF SqliteSearch
  <2> QED
    BY <1>1, <1>9, <2>1, <2>2, OrderedIsAnOutcome
<1>12. CASE WeaviateObjectsSearch(p, q, n)
  <2>1. kind \in Unqueried /\ kind \in Merging /\ kind \notin InMemory
    BY <1>12 DEF WeaviateObjectsSearch, Ready, Merging, InMemory, Unqueried
  <2>2. /\ LocalMatches(p, q) \in SUBSET Matches /\ IsFiniteSet(LocalMatches(p, q))
    BY MatchesAreFinite
  <2>3. LocalMatches(p, q) = Matching(p, q)
    BY <2>1 DEF Matching
  <2>4. \A h \in LocalMatches(p, q) : IsVouchedFor(p, h.id)
    BY <2>1, MatchesAreOfTheState DEF IsVouchedFor
  <2>5. IsWhole(p, q, LocalMatches(p, q))
    BY <2>1 DEF IsWhole
  <2>6. n >= Cardinality(Matching(p, q)) => Cardinality(LocalMatches(p, q)) <= n
    BY <1>1, <2>3, PartsFit
  <2>7. Answered(p, q, n, Ordered(LocalMatches(p, q), n), TRUE)
    BY <1>12 DEF WeaviateObjectsSearch
  <2> QED
    BY <1>1, <2>2, <2>4, <2>5, <2>6, <2>7, OrderedIsAnOutcome
<1> QED
  BY <1>2, <1>3, <1>4, <1>6, <1>7, <1>8, <1>10, <1>11, <1>12 DEF Search

-----------------------------------------------------------------------------
(***************************************************************************)
(* The invariant holds.                                                    *)
(***************************************************************************)
\* Nothing is wrong with an answer not given.
LEMMA NoAnswerIsFine ==
    (answer = NoAnswer => AnswerInv) /\ (answer' = NoAnswer => AnswerInv')
<1>1. /\ NoAnswer.by = Absent /\ NoAnswer.limit = 0 /\ NoAnswer.hits = <<>>
      /\ <<>> \in Seq(Ids) /\ Len(<<>>) = 0
  BY DEF NoAnswer
<1>2. ASSUME answer = NoAnswer PROVE AnswerInv
  <2>1. answer.by = Absent /\ answer.limit = 0 /\ answer.hits = <<>>
    BY <1>1, <1>2
  <2>2. AnswerIsTyped
    BY <1>1, <2>1 DEF AnswerIsTyped
  <2>3. HitsAreVouchedFor /\ OwnWritesAreFound
    BY <2>1, Zenon DEF HitsAreVouchedFor, OwnWritesAreFound
  <2> QED
    BY <2>2, <2>3 DEF AnswerInv
<1>3. ASSUME answer' = NoAnswer PROVE AnswerInv'
  <2>1. answer'.by = Absent /\ answer'.limit = 0 /\ answer'.hits = <<>>
    BY <1>1, <1>3
  <2>2. AnswerIsTyped'
    BY <1>1, <2>1 DEF AnswerIsTyped
  <2>3. HitsAreVouchedFor' /\ OwnWritesAreFound'
    BY <2>1, Zenon DEF HitsAreVouchedFor, OwnWritesAreFound
  <2> QED
    BY <2>2, <2>3 DEF AnswerInv
<1> QED
  BY <1>2, <1>3

\* What a search finds is vouched for, and what the process wrote is found.
LEMMA SearchKeepsAnswer ==
    ASSUME State, NEW p \in Processes, NEW q \in Texts, NEW n \in Limits, Search(p, q, n)
    PROVE  AnswerInv' /\ UNCHANGED <<config, stage, remote, local, counts>>
<1>1. TypedState /\ DatabasesAreClean /\ WritesAreKept
  BY DEF State, TypedState
<1>2. PICK S \in SUBSET Matches, hits \in Seq(Ids), complete \in BOOLEAN :
          Answered(p, q, n, hits, complete) /\ IsFoundIn(S, p, q, n, hits, complete)
  <2>1. Outcome(p, q, n)
    BY <1>1, SearchHasOutcome
  <2> QED
    BY <2>1 DEF Outcome
<1>3. UNCHANGED <<config, stage, remote, local, counts>>
  BY <1>2 DEF Answered
<1>4. /\ answer'.by = p /\ answer'.query = q /\ answer'.limit = n
      /\ answer'.hits = hits /\ answer'.complete = complete
  BY <1>2 DEF Answered
<1>5. IsListOf(hits, S, n) /\ (\A h \in S : IsVouchedFor(p, h.id))
  BY <1>2 DEF IsFoundIn
<1>6. AnswerIsTyped'
  BY <1>4, <1>5, LimitsAreNaturals DEF AnswerIsTyped, IsListOf
<1>7. HitsAreVouchedFor'
  <2>1. \A i \in DOMAIN hits : IsVouchedFor(p, hits[i])
    BY <1>5 DEF IsListOf, IdsOf
  <2>2. UNCHANGED <<kind, rows, vectors, tombstones>>
    BY <1>3 DEF config, remote, local
  <2>3. \A m \in Found' : IsVouchedFor(p, m)
    BY <1>4, <2>1 DEF Found
  <2> QED
    BY <1>4, <2>2, <2>3 DEF HitsAreVouchedFor, IsVouchedFor
<1>8. OwnWritesAreFound'
  <2>1. UNCHANGED <<kind, faulty, rows, written, vectors, tombstones>>
    BY <1>3 DEF config, remote, local
  <2>2. Matching(p, q)' = Matching(p, q)
    BY <2>1 DEF Matching, WithLocal, LocalMatches, NotDeleted, IdsOf, Active, IsArchived,
                Stored, Match
  <2>3. ASSUME complete, n >= Cardinality(Matching(p, q)), NEW m \in Ids,
               written[m].by = p, written[m].text # Absent,
               faulty => m \notin tombstones[p],
               kind \in Unqueried => vectors[p][m] # Absent
        PROVE  \E i \in DOMAIN hits : hits[i] = m
    <3>1. Cardinality(S) <= n /\ IsWhole(p, q, S)
      BY <1>2, <2>3 DEF IsFoundIn
    <3>2. /\ m \notin tombstones[p]
          /\ kind \in InMemory \cup Unqueried => vectors[p][m] # Absent
          /\ kind \notin InMemory \cup Unqueried =>
                rows[m] # <<>> /\ ~rows[m][Len(rows[m])].archived
      BY <1>1, <2>3 DEF WritesAreKept
    <3>3. CASE kind \in InMemory \cup Unqueried
      <4>1. Match(m, 0, q, vectors[p][m]) \in LocalMatches(p, q)
        BY <1>1, <3>2, <3>3, MatchesAreOfTheState
      <4>2. Match(m, 0, q, vectors[p][m]).id = m
        BY MatchIsTyped
      <4>3. m \in IdsOf(LocalMatches(p, q))
        BY <4>1, <4>2 DEF IdsOf
      <4>4. PICK g \in S : g.id = m
        BY <3>1, <3>3, <4>3 DEF IsWhole, IdsOf
      <4> QED
        BY <1>5, <3>1, <4>4 DEF IsListOf
    <3>4. CASE kind \notin InMemory \cup Unqueried
      <4> DEFINE last == Len(rows[m])
                 h == Match(m, last, q, rows[m][last].text)
      <4>1. rows[m] \in Seq(Rows) /\ rows[m] # <<>>
        BY <1>1, <3>2, <3>4 DEF TypedState, TheRemote
      <4>2. last \in DOMAIN rows[m] /\ last \in Nat
        BY <4>1
      <4>3. ~rows[m][last].archived
        BY <3>2, <3>4
      <4>4. h \in Active(q)
        BY <1>1, <4>2, <4>3, MatchesAreOfTheState
      <4>5. h.id = m
        BY <4>2, MatchIsTyped
      <4> HIDE DEF h
      <4>6. h \in NotDeleted(p, Active(q))
        BY <3>2, <4>4, <4>5 DEF NotDeleted
      <4>7. m \in IdsOf(NotDeleted(p, Active(q)))
        BY <4>5, <4>6 DEF IdsOf
      <4>8. PICK g \in S : g.id = m
        BY <3>1, <3>4, <4>7 DEF IsWhole, IdsOf
      <4> QED
        BY <1>5, <3>1, <4>8 DEF IsListOf
    <3> QED
      BY <3>3, <3>4
  <2> QED
    BY <1>4, <2>1, <2>2, <2>3 DEF OwnWritesAreFound, Found
<1> QED
  BY <1>3, <1>6, <1>7, <1>8 DEF AnswerInv

\* Connecting touches neither the rows nor what the process has cached.
LEMMA ConnectKeepsInv ==
    ASSUME VectorInv, NEW p \in Processes, Connect(p)
    PROVE  VectorInv' /\ OnlyConnects
<1>1. OnlyConnects
  BY DEF Connect, InMemoryConnect, RedisConnect, PgConnect, SqliteConnect, QdrantConnect,
         PineconeConnect, WeaviateConnect, WeaviateObjectsConnect, MilvusConnect,
         LookUp, CreateOrFail
<1>2. collection' \in BOOLEAN
  BY DEF VectorInv, State, TheRemote, Connect, InMemoryConnect, RedisConnect, PgConnect,
         SqliteConnect, QdrantConnect, PineconeConnect, WeaviateConnect,
         WeaviateObjectsConnect, MilvusConnect, LookUp, CreateOrFail
<1>3. \E x \in {"off", "missing", "ready"} : stage' = [stage EXCEPT ![p] = x]
  BY DEF Connect, InMemoryConnect, RedisConnect, PgConnect, SqliteConnect, QdrantConnect,
         PineconeConnect, WeaviateConnect, WeaviateObjectsConnect, MilvusConnect,
         LookUp, CreateOrFail, Opened
<1>4. /\ UNCHANGED <<kind, live, faulty, appends, rows, written, vectors, tombstones, answer,
                     writes, restarts>>
  BY <1>1 DEF OnlyConnects, config, local, counts
<1>5. stage' \in [Processes -> {"off", "missing", "ready"}]
  BY <1>3 DEF VectorInv, State, TheRemote
<1>6. State'
  BY <1>2, <1>4, <1>5 DEF VectorInv, State, TheConfig, TheRemote, TheLocal, TheCounts,
                          DatabasesAreClean, WritesAreKept
<1>7. ServicesAgree'
  BY <1>4, ServicesUnchanged DEF VectorInv
<1>8. AnswerInv'
  <2>1. \A r, q : Matching(r, q)' = Matching(r, q)
    BY <1>4 DEF Matching, WithLocal, LocalMatches, NotDeleted, IdsOf, Active, IsArchived,
                Stored, Match
  <2>2. AnswerIsTyped' /\ HitsAreVouchedFor'
    BY <1>4 DEF VectorInv, AnswerInv, AnswerIsTyped, HitsAreVouchedFor, Found
  <2>3. OwnWritesAreFound'
    BY <1>4, <2>1 DEF VectorInv, AnswerInv, OwnWritesAreFound, Found
  <2> QED
    BY <2>2, <2>3 DEF AnswerInv
<1> QED
  BY <1>1, <1>6, <1>7, <1>8 DEF VectorInv

\* A restarted process has forgotten its vectors and its tombstones.
LEMMA RestartKeepsInv ==
    ASSUME VectorInv, NEW p \in Processes, Restart(p)
    PROVE  VectorInv'
<1>1. /\ p \in live /\ kind \notin InMemory /\ restarts < MaxRestarts
      /\ restarts' = restarts + 1 /\ answer' = NoAnswer
      /\ stage' = [stage EXCEPT ![p] = "off"]
      /\ vectors' = [vectors EXCEPT ![p] = [m \in Ids |-> Absent]]
      /\ tombstones' = [tombstones EXCEPT ![p] = {}]
      /\ UNCHANGED <<kind, live, faulty, appends, collection, rows, written, writes>>
  BY DEF Restart, config, remote
<1>2. TheConfig' /\ TheRemote' /\ TheCounts'
  <2>1. TheConfig' /\ TheRemote'
    BY <1>1 DEF VectorInv, State, TheConfig, TheRemote
  <2>2. TheCounts'
    BY <1>1, BoundsAreNatural DEF VectorInv, State, TheCounts
  <2> QED
    BY <2>1, <2>2
<1>3. /\ vectors \in [Processes -> [Ids -> Texts \cup {Absent}]]
      /\ tombstones \in [Processes -> SUBSET Ids]
  BY DEF VectorInv, State, TheLocal
<1>4. /\ TheLocal'
      /\ \A r \in Processes, m \in Ids :
            /\ vectors'[r][m] = IF r = p THEN Absent ELSE vectors[r][m]
            /\ tombstones'[r] = IF r = p THEN {} ELSE tombstones[r]
  BY <1>1, <1>3 DEF TheLocal
<1>5. DatabasesAreClean'
  <2>1. kind \in Sql \cup InMemory => tombstones' = tombstones
    BY <1>1, <1>3 DEF VectorInv, State, DatabasesAreClean
  <2> QED
    BY <1>1, <2>1 DEF VectorInv, State, DatabasesAreClean
<1>6. WritesAreKept'
  BY <1>1, <1>4 DEF VectorInv, State, WritesAreKept
<1>7. ServicesAgree'
  <2>1. live \subseteq Processes /\ (IsOneIndex' <=> IsOneIndex)
        /\ \A m : Newest(m)' = Newest(m)
    BY <1>1 DEF VectorInv, State, TheConfig, IsOneIndex, Newest
  <2> SUFFICES ASSUME kind' \in Services, IsOneIndex', NEW m \in Ids, NEW r \in live'
               PROVE  /\ \/ rows'[m] = <<>>
                         \/ \E t \in Texts : rows'[m] = <<Row(t, FALSE)>>
                         \/ \E x \in Texts \cup {Absent} : rows'[m] = <<Row(x, TRUE)>>
                      /\ m \in tombstones'[r] => Newest(m)' = Absent
                      /\ vectors'[r][m] # Absent /\ m \notin tombstones'[r] =>
                            Newest(m)' = vectors'[r][m]
    BY DEF ServicesAgree
  <2>2. r \in Processes /\ r \in live
    BY <1>1, <2>1
  <2>3. /\ \/ rows[m] = <<>>
           \/ \E t \in Texts : rows[m] = <<Row(t, FALSE)>>
           \/ \E x \in Texts \cup {Absent} : rows[m] = <<Row(x, TRUE)>>
        /\ m \in tombstones[r] => Newest(m) = Absent
        /\ vectors[r][m] # Absent /\ m \notin tombstones[r] => Newest(m) = vectors[r][m]
    BY <1>1, <2>1, <2>2 DEF VectorInv, ServicesAgree
  <2>4. /\ rows'[m] = rows[m] /\ Newest(m)' = Newest(m)
        /\ vectors'[r][m] # Absent => vectors'[r][m] = vectors[r][m]
        /\ m \in tombstones'[r] => m \in tombstones[r]
        /\ vectors'[r][m] # Absent /\ m \notin tombstones'[r] => m \notin tombstones[r]
    BY <1>1, <1>4, <2>1, <2>2
  <2> QED
    BY <2>3, <2>4
<1>8. AnswerInv'
  BY <1>1, NoAnswerIsFine
<1> QED
  BY <1>2, <1>4, <1>5, <1>6, <1>7, <1>8 DEF VectorInv, State

\* The newest row of an id that is stored is the row given; a Weaviate client that is
\* never asked may have stored none.
LEMMA StoreMakesNewest ==
    ASSUME rows \in [Ids -> Seq(Rows)], NEW m \in Ids, NEW row \in Rows, Store(m, row)
    PROVE  /\ rows' \in [Ids -> Seq(Rows)]
           /\ kind \notin Unqueried =>
                /\ rows'[m] # <<>> /\ rows'[m][Len(rows'[m])] = row
                /\ ~appends => rows'[m] = <<row>>
           /\ \A i \in Ids \ {m} : rows'[i] = rows[i]
<1>1. \/ rows' = [rows EXCEPT ![m] = <<row>>]
      \/ appends /\ rows' = [rows EXCEPT ![m] = Append(rows[m], row)]
      \/ kind \in Unqueried /\ rows' = rows
  BY DEF Store, RedisSet, QdrantPoint, PineconePoint, MilvusInsert, WeaviateInsert,
         WeaviateCreate, Unqueried, Overwrite, Insert
<1>2. /\ <<row>> \in Seq(Rows) /\ <<row>> # <<>> /\ <<row>>[Len(<<row>>)] = row
      /\ rows[m] \in Seq(Rows)
  OBVIOUS
<1>3. /\ Append(rows[m], row) \in Seq(Rows) /\ Append(rows[m], row) # <<>>
      /\ Append(rows[m], row)[Len(Append(rows[m], row))] = row
  BY <1>2
<1>4. CASE rows' = [rows EXCEPT ![m] = <<row>>]
  BY <1>2, <1>4
<1>5. CASE appends /\ rows' = [rows EXCEPT ![m] = Append(rows[m], row)]
  BY <1>3, <1>5
<1> QED
  BY <1>1, <1>4, <1>5

\* What every write leaves alone and what it counts.
LEMMA WritesCount ==
    ASSUME State, NEW p \in Processes, NEW m \in Ids, NEW text \in Texts \cup {Absent},
           Written(p, m, text) \/ Refused
    PROVE  /\ TheConfig' /\ TheCounts' /\ AnswerInv'
           /\ UNCHANGED <<kind, live, faulty, appends, stage, collection>>
           /\ Written(p, m, text) =>
                /\ written' = [written EXCEPT ![m] = [by |-> p, text |-> text]]
                /\ written' \in [Ids -> [by : Processes \cup {Absent}, text : Texts \cup {Absent}]]
           /\ Refused => faulty /\ UNCHANGED <<rows, written>>
<1>1. /\ writes < MaxWrites /\ writes' = writes + 1 /\ restarts' = restarts
      /\ answer' = NoAnswer /\ UNCHANGED <<kind, live, faulty, appends, stage, collection>>
  BY DEF Written, Refused, config
<1>2. TheConfig' /\ AnswerInv'
  BY <1>1, NoAnswerIsFine DEF State, TheConfig
<1>3. TheCounts'
  BY <1>1, BoundsAreNatural DEF State, TheCounts
<1>4. Written(p, m, text) =>
          /\ written' = [written EXCEPT ![m] = [by |-> p, text |-> text]]
          /\ written' \in [Ids -> [by : Processes \cup {Absent}, text : Texts \cup {Absent}]]
  BY DEF Written, State, TheRemote
<1>5. Refused => faulty /\ UNCHANGED <<rows, written>>
  BY DEF Refused
<1> QED
  BY <1>1, <1>2, <1>3, <1>4, <1>5

\* A collection that is one index, and no database, has one owner.
LEMMA OneOwner ==
    ASSUME TheConfig, IsOneIndex, kind \notin Sql
    PROVE  ~faulty /\ ~appends /\ \E p \in Processes : live = {p}
<1>1. Cardinality(live) = 1 /\ ~faulty /\ ~appends /\ live \subseteq Processes
  BY DEF IsOneIndex, TheConfig
<1>2. IsFiniteSet(live)
  BY <1>1, ProcessesAreFinite, FS_Subset
<1>3. \E x : live = {x}
  BY <1>1, <1>2, FS_Singleton
<1> QED
  BY <1>1, <1>3

\* A service stores the new row of the id, the process its copy.
LEMMA RemoteUpsertKeepsInv ==
    ASSUME VectorInv, NEW p \in Processes, NEW m \in Ids, NEW t \in Texts,
           RemoteUpsert(p, m, t)
    PROVE  VectorInv'
<1> DEFINE stored == Store(m, Row(t, FALSE)) /\ Written(p, m, t)
<1>1. /\ p \in live /\ kind \in Services /\ (stored \/ Refused)
      /\ vectors' = [vectors EXCEPT ![p][m] = t]
      /\ tombstones' = [tombstones EXCEPT ![p] = tombstones[p] \ {m}]
  BY DEF RemoteUpsert, Ready, Cache
<1>2. State /\ TheRemote /\ TheLocal /\ DatabasesAreClean /\ WritesAreKept /\ ServicesAgree
  BY DEF VectorInv, State
<1>3. /\ TheConfig' /\ TheCounts' /\ AnswerInv'
      /\ UNCHANGED <<kind, live, faulty, appends, stage, collection>>
      /\ Written(p, m, t) =>
            /\ written' = [written EXCEPT ![m] = [by |-> p, text |-> t]]
            /\ written' \in [Ids -> [by : Processes \cup {Absent}, text : Texts \cup {Absent}]]
      /\ Refused => faulty /\ UNCHANGED <<rows, written>>
  <2>1. Written(p, m, t) \/ Refused
    BY <1>1
  <2> QED
    BY <1>2, <2>1, WritesCount
<1>4. kind \notin Sql \cup InMemory
  BY <1>1 DEF Services, Sql, InMemory
<1>5. Row(t, FALSE) \in Rows /\ Row(t, FALSE).archived = FALSE /\ Row(t, FALSE).text = t
  BY DEF Row, Rows
<1>6. stored =>
          /\ rows' \in [Ids -> Seq(Rows)]
          /\ kind \notin Unqueried =>
                /\ rows'[m] # <<>> /\ rows'[m][Len(rows'[m])] = Row(t, FALSE)
                /\ ~appends => rows'[m] = <<Row(t, FALSE)>>
          /\ \A i \in Ids \ {m} : rows'[i] = rows[i]
  BY <1>2, <1>5, StoreMakesNewest DEF TheRemote
<1>7. TheRemote'
  <2>1. CASE stored
    BY <1>2, <1>3, <1>6, <2>1 DEF TheRemote
  <2>2. CASE Refused
    BY <1>2, <1>3, <2>2 DEF TheRemote
  <2> QED
    BY <1>1, <2>1, <2>2
<1>8. /\ TheLocal'
      /\ \A r \in Processes, i \in Ids :
            /\ vectors'[r][i] = IF r = p /\ i = m THEN t ELSE vectors[r][i]
            /\ i \in tombstones'[r] <=> i \in tombstones[r] /\ ~(r = p /\ i = m)
  BY <1>1, <1>2 DEF TheLocal
<1>9. DatabasesAreClean'
  BY <1>3, <1>4 DEF DatabasesAreClean
<1>10. WritesAreKept'
  <2> SUFFICES ASSUME NEW i \in Ids, NEW r \in Processes,
                      written'[i].by = r, written'[i].text # Absent
               PROVE  /\ ~faulty => i \notin tombstones'[r]
                      /\ kind \notin Unqueried =>
                            rows'[i] # <<>> /\ ~rows'[i][Len(rows'[i])].archived
    BY <1>3, <1>4 DEF WritesAreKept
  <2>1. written[i].by = r /\ written[i].text # Absent =>
            /\ ~faulty => i \notin tombstones[r]
            /\ kind \notin Unqueried => rows[i] # <<>> /\ ~rows[i][Len(rows[i])].archived
    BY <1>2, <1>4 DEF WritesAreKept
  <2>2. CASE stored /\ i = m
    <3>1. written'[m].by = p
      BY <1>2, <1>3, <2>2 DEF TheRemote
    <3> QED
      BY <1>5, <1>6, <1>8, <2>2, <3>1
  <2>3. CASE stored /\ i # m
    BY <1>2, <1>3, <1>6, <1>8, <2>1, <2>3 DEF TheRemote
  <2>4. CASE Refused
    BY <1>3, <1>8, <2>1, <2>4
  <2> QED
    BY <1>1, <2>2, <2>3, <2>4
<1>11. ServicesAgree'
  <2> SUFFICES ASSUME IsOneIndex, NEW i \in Ids, NEW r \in live
               PROVE  /\ \/ rows'[i] = <<>>
                         \/ \E x \in Texts : rows'[i] = <<Row(x, FALSE)>>
                         \/ \E x \in Texts \cup {Absent} : rows'[i] = <<Row(x, TRUE)>>
                      /\ i \in tombstones'[r] => Newest(i)' = Absent
                      /\ vectors'[r][i] # Absent /\ i \notin tombstones'[r] =>
                            Newest(i)' = vectors'[r][i]
    BY <1>3 DEF ServicesAgree, IsOneIndex
  <2>1. /\ \/ rows[i] = <<>>
           \/ \E x \in Texts : rows[i] = <<Row(x, FALSE)>>
           \/ \E x \in Texts \cup {Absent} : rows[i] = <<Row(x, TRUE)>>
        /\ i \in tombstones[r] => Newest(i) = Absent
        /\ vectors[r][i] # Absent /\ i \notin tombstones[r] => Newest(i) = vectors[r][i]
    BY <1>1, <1>2 DEF ServicesAgree
  <2>2. ~faulty /\ ~appends /\ r = p /\ r \in Processes /\ kind \notin Unqueried
    BY <1>1, <1>2, <1>4, OneOwner DEF State, IsOneIndex
  <2>3. stored
    BY <1>1, <1>3, <2>2
  <2>4. CASE i = m
    <3>1. rows'[m] = <<Row(t, FALSE)>>
      BY <1>6, <2>2, <2>3
    <3>2. Newest(m)' = t
      BY <1>5, <1>6, <2>2, <2>3 DEF Newest
    <3> QED
      BY <1>8, <2>2, <2>4, <3>1, <3>2
  <2>5. CASE i # m
    <3>1. rows'[i] = rows[i]
      BY <1>6, <2>3, <2>5
    <3>2. Newest(i)' = Newest(i)
      BY <3>1 DEF Newest
    <3> QED
      BY <1>8, <2>1, <2>2, <2>5, <3>1, <3>2
  <2> QED
    BY <2>4, <2>5
<1> QED
  BY <1>3, <1>7, <1>8, <1>9, <1>10, <1>11 DEF VectorInv, State

\* A service stores an archived row of the id, the process its tombstone.
LEMMA RemoteDeleteKeepsInv ==
    ASSUME VectorInv, NEW p \in Processes, NEW m \in Ids, RemoteDelete(p, m)
    PROVE  VectorInv'
<1> DEFINE row == Row(vectors[p][m], TRUE)
           stored == Store(m, row) /\ Written(p, m, Absent)
<1>1. /\ p \in live /\ kind \in Services /\ (stored \/ Refused)
      /\ vectors' = vectors
      /\ tombstones' = [tombstones EXCEPT ![p] = tombstones[p] \cup {m}]
  BY DEF RemoteDelete, Ready, Bury
<1>2. State /\ TheRemote /\ TheLocal /\ DatabasesAreClean /\ WritesAreKept /\ ServicesAgree
  BY DEF VectorInv, State
<1>3. /\ TheConfig' /\ TheCounts' /\ AnswerInv'
      /\ UNCHANGED <<kind, live, faulty, appends, stage, collection>>
      /\ Written(p, m, Absent) =>
            /\ written' = [written EXCEPT ![m] = [by |-> p, text |-> Absent]]
            /\ written' \in [Ids -> [by : Processes \cup {Absent}, text : Texts \cup {Absent}]]
      /\ Refused => faulty /\ UNCHANGED <<rows, written>>
  <2>1. Written(p, m, Absent) \/ Refused
    BY <1>1
  <2> QED
    BY <1>2, <2>1, WritesCount
<1>4. kind \notin Sql \cup InMemory
  BY <1>1 DEF Services, Sql, InMemory
<1>5. /\ row \in Rows /\ row.archived = TRUE
      /\ vectors[p][m] \in Texts \cup {Absent}
  BY <1>2 DEF TheLocal, Row, Rows
<1>6. stored =>
          /\ rows' \in [Ids -> Seq(Rows)]
          /\ kind \notin Unqueried =>
                /\ rows'[m] # <<>> /\ rows'[m][Len(rows'[m])] = row
                /\ ~appends => rows'[m] = <<row>>
          /\ \A i \in Ids \ {m} : rows'[i] = rows[i]
  BY <1>2, <1>5, StoreMakesNewest DEF TheRemote
<1>7. TheRemote'
  <2>1. CASE stored
    BY <1>2, <1>3, <1>6, <2>1 DEF TheRemote
  <2>2. CASE Refused
    BY <1>2, <1>3, <2>2 DEF TheRemote
  <2> QED
    BY <1>1, <2>1, <2>2
<1>8. /\ TheLocal'
      /\ \A r \in Processes, i \in Ids :
            i \in tombstones'[r] <=> i \in tombstones[r] \/ (r = p /\ i = m)
  BY <1>1, <1>2 DEF TheLocal
<1>9. DatabasesAreClean'
  BY <1>3, <1>4 DEF DatabasesAreClean
<1>10. WritesAreKept'
  <2> SUFFICES ASSUME NEW i \in Ids, NEW r \in Processes,
                      written'[i].by = r, written'[i].text # Absent
               PROVE  /\ ~faulty => i \notin tombstones'[r]
                      /\ kind \notin Unqueried =>
                            rows'[i] # <<>> /\ ~rows'[i][Len(rows'[i])].archived
    BY <1>3, <1>4 DEF WritesAreKept
  <2>1. written[i].by = r /\ written[i].text # Absent =>
            /\ ~faulty => i \notin tombstones[r]
            /\ kind \notin Unqueried => rows[i] # <<>> /\ ~rows[i][Len(rows[i])].archived
    BY <1>2, <1>4 DEF WritesAreKept
  <2>2. CASE stored /\ i = m
    BY <1>2, <1>3, <2>2 DEF TheRemote
  <2>3. CASE stored /\ i # m
    BY <1>2, <1>3, <1>6, <1>8, <2>1, <2>3 DEF TheRemote
  <2>4. CASE Refused
    BY <1>3, <1>8, <2>1, <2>4
  <2> QED
    BY <1>1, <2>2, <2>3, <2>4
<1>11. ServicesAgree'
  <2> SUFFICES ASSUME IsOneIndex, NEW i \in Ids, NEW r \in live
               PROVE  /\ \/ rows'[i] = <<>>
                         \/ \E x \in Texts : rows'[i] = <<Row(x, FALSE)>>
                         \/ \E x \in Texts \cup {Absent} : rows'[i] = <<Row(x, TRUE)>>
                      /\ i \in tombstones'[r] => Newest(i)' = Absent
                      /\ vectors'[r][i] # Absent /\ i \notin tombstones'[r] =>
                            Newest(i)' = vectors'[r][i]
    BY <1>3 DEF ServicesAgree, IsOneIndex
  <2>1. /\ \/ rows[i] = <<>>
           \/ \E x \in Texts : rows[i] = <<Row(x, FALSE)>>
           \/ \E x \in Texts \cup {Absent} : rows[i] = <<Row(x, TRUE)>>
        /\ i \in tombstones[r] => Newest(i) = Absent
        /\ vectors[r][i] # Absent /\ i \notin tombstones[r] => Newest(i) = vectors[r][i]
    BY <1>1, <1>2 DEF ServicesAgree
  <2>2. ~faulty /\ ~appends /\ r = p /\ r \in Processes /\ kind \notin Unqueried
    BY <1>1, <1>2, <1>4, OneOwner DEF State, IsOneIndex
  <2>3. stored
    BY <1>1, <1>3, <2>2
  <2>4. CASE i = m
    <3>1. rows'[m] = <<Row(vectors[p][m], TRUE)>>
      BY <1>6, <2>2, <2>3
    <3>2. Newest(m)' = Absent
      BY <1>5, <1>6, <2>2, <2>3 DEF Newest
    <3> QED
      BY <1>5, <1>8, <2>2, <2>4, <3>1, <3>2
  <2>5. CASE i # m
    <3>1. rows'[i] = rows[i]
      BY <1>6, <2>3, <2>5
    <3>2. Newest(i)' = Newest(i)
      BY <3>1 DEF Newest
    <3> QED
      BY <1>1, <1>8, <2>1, <2>2, <2>5, <3>1, <3>2
  <2> QED
    BY <2>4, <2>5
<1> QED
  BY <1>3, <1>7, <1>8, <1>9, <1>10, <1>11 DEF VectorInv, State

\* A database has one row of an id, or none.
LEMMA SqlWriteKeepsInv ==
    ASSUME VectorInv, NEW p \in Processes, NEW m \in Ids, NEW text \in Texts \cup {Absent},
           NEW content, \/ text \in Texts /\ content = <<Row(text, FALSE)>>
                        \/ text = Absent /\ content = <<>>,
           PgWrite(p, m, content, text) \/ SqliteWrite(p, m, content, text)
    PROVE  VectorInv'
<1> DEFINE stored == rows' = [rows EXCEPT ![m] = content] /\ Written(p, m, text)
<1>1. /\ kind \in Sql /\ (stored \/ Refused)
      /\ vectors' = vectors /\ tombstones' = tombstones
  BY DEF PgWrite, SqliteWrite, Ready, Sql, local
<1>2. State /\ TheRemote /\ TheLocal /\ DatabasesAreClean /\ WritesAreKept
  BY DEF VectorInv, State
<1>3. /\ TheConfig' /\ TheCounts' /\ AnswerInv'
      /\ UNCHANGED <<kind, live, faulty, appends, stage, collection>>
      /\ Written(p, m, text) =>
            /\ written' = [written EXCEPT ![m] = [by |-> p, text |-> text]]
            /\ written' \in [Ids -> [by : Processes \cup {Absent}, text : Texts \cup {Absent}]]
      /\ Refused => faulty /\ UNCHANGED <<rows, written>>
  <2>1. Written(p, m, text) \/ Refused
    BY <1>1
  <2> QED
    BY <1>2, <2>1, WritesCount
<1>4. kind \notin InMemory /\ kind \notin Services
  BY <1>1 DEF Services, Sql, InMemory
<1>5. /\ content \in Seq(Rows)
      /\ text \in Texts => /\ content = <<Row(text, FALSE)>> /\ content # <<>>
                           /\ content[Len(content)] = Row(text, FALSE)
      /\ ~Row(text, FALSE).archived
      /\ text \notin Texts => text = Absent /\ content = <<>>
  <2>1. ~Row(text, FALSE).archived /\ (text \in Texts => Row(text, FALSE) \in Rows)
    BY DEF Row, Rows
  <2>s. /\ <<>> \in Seq(Rows)
        /\ \A row \in Rows : /\ <<row>> \in Seq(Rows) /\ <<row>> # <<>>
                            /\ <<row>>[Len(<<row>>)] = row
    OBVIOUS
  <2>2. CASE text \in Texts /\ content = <<Row(text, FALSE)>>
    BY <2>s, <2>1, <2>2, Zenon
  <2>3. CASE text = Absent /\ content = <<>>
    BY <2>s, <2>1, <2>3, AbsentIsNoText, Zenon
  <2> QED
    BY <2>2, <2>3
<1>6. stored =>
          /\ rows' \in [Ids -> Seq(Rows)] /\ rows'[m] = content
          /\ \A i \in Ids \ {m} : rows'[i] = rows[i]
  BY <1>2, <1>5 DEF TheRemote
<1>7. TheRemote'
  <2>1. CASE stored
    BY <1>2, <1>3, <1>6, <2>1 DEF TheRemote
  <2>2. CASE Refused
    BY <1>2, <1>3, <2>2 DEF TheRemote
  <2> QED
    BY <1>1, <2>1, <2>2
<1>8. TheLocal'
  BY <1>1, <1>2 DEF TheLocal
<1>9. DatabasesAreClean'
  <2>1. \A i \in Ids : rows[i] = <<>> \/ \E t \in Texts : rows[i] = <<Row(t, FALSE)>>
    BY <1>1, <1>2 DEF DatabasesAreClean
  <2>2. \A i \in Ids : rows'[i] = <<>> \/ \E t \in Texts : rows'[i] = <<Row(t, FALSE)>>
    BY <1>1, <1>3, <1>5, <1>6, <2>1
  <2> QED
    BY <1>1, <1>2, <1>3, <1>4, <2>2 DEF DatabasesAreClean
<1>10. WritesAreKept'
  <2> SUFFICES ASSUME NEW i \in Ids, NEW r \in Processes,
                      written'[i].by = r, written'[i].text # Absent
               PROVE  /\ ~faulty => i \notin tombstones[r]
                      /\ rows'[i] # <<>> /\ ~rows'[i][Len(rows'[i])].archived
    BY <1>1, <1>3, <1>4 DEF WritesAreKept
  <2>1. i \notin tombstones[r]
    BY <1>1, <1>2 DEF DatabasesAreClean
  <2>2. written[i].by = r /\ written[i].text # Absent =>
            rows[i] # <<>> /\ ~rows[i][Len(rows[i])].archived
    BY <1>1, <1>2, <1>4 DEF WritesAreKept, Unqueried, Sql
  <2>3. CASE stored /\ i = m
    <3>1. text # Absent
      BY <1>2, <1>3, <2>3 DEF TheRemote
    <3> QED
      BY <1>5, <1>6, <2>1, <2>3, <3>1
  <2>4. CASE stored /\ i # m
    BY <1>2, <1>3, <1>6, <2>1, <2>2, <2>4 DEF TheRemote
  <2>5. CASE Refused
    BY <1>3, <2>1, <2>2, <2>5
  <2> QED
    BY <1>1, <2>3, <2>4, <2>5
<1>11. ServicesAgree'
  BY <1>3, <1>4 DEF ServicesAgree
<1> QED
  BY <1>3, <1>7, <1>8, <1>9, <1>10, <1>11 DEF VectorInv, State

\* The index in memory is that of the one process that uses it.
LEMMA InMemoryWriteKeepsInv ==
    ASSUME VectorInv, NEW p \in Processes, NEW m \in Ids, NEW text \in Texts \cup {Absent},
           InMemoryWrite(p, m, text)
    PROVE  VectorInv'
<1>1. /\ p \in live /\ kind \in InMemory /\ Written(p, m, text)
      /\ vectors' = [vectors EXCEPT ![p][m] = text]
      /\ rows' = rows /\ tombstones' = tombstones
  BY DEF InMemoryWrite, Ready
<1>2. State /\ TheRemote /\ TheLocal /\ DatabasesAreClean /\ WritesAreKept
  BY DEF VectorInv, State
<1>3. /\ TheConfig' /\ TheCounts' /\ AnswerInv'
      /\ UNCHANGED <<kind, live, faulty, appends, stage, collection>>
      /\ written' = [written EXCEPT ![m] = [by |-> p, text |-> text]]
      /\ written' \in [Ids -> [by : Processes \cup {Absent}, text : Texts \cup {Absent}]]
  BY <1>1, <1>2, WritesCount
<1>4. kind \notin Sql /\ kind \notin Services
  BY <1>1 DEF Services, Sql, InMemory
<1>5. TheRemote' /\ TheLocal'
  BY <1>1, <1>2, <1>3 DEF TheRemote, TheLocal
<1>6. DatabasesAreClean'
  BY <1>1, <1>2, <1>3, <1>4 DEF DatabasesAreClean
<1>7. WritesAreKept'
  <2> SUFFICES ASSUME NEW i \in Ids, NEW r \in Processes,
                      written'[i].by = r, written'[i].text # Absent
               PROVE  /\ ~faulty => i \notin tombstones[r]
                      /\ r \in live /\ vectors'[r][i] # Absent
    BY <1>1, <1>3 DEF WritesAreKept
  <2>1. i \notin tombstones[r]
    BY <1>1, <1>2 DEF DatabasesAreClean
  <2>2. CASE i = m
    <3>1. r = p /\ text # Absent
      BY <1>2, <1>3, <2>2 DEF TheRemote
    <3> QED
      BY <1>1, <1>2, <2>1, <2>2, <3>1 DEF TheLocal
  <2>3. CASE i # m
    <3>1. written[i].by = r /\ written[i].text # Absent
      BY <1>2, <1>3, <2>3 DEF TheRemote
    <3>2. r \in live /\ vectors[r][i] # Absent
      BY <1>1, <1>2, <3>1 DEF WritesAreKept
    <3> QED
      BY <1>1, <1>2, <2>1, <2>3, <3>2 DEF TheLocal
  <2> QED
    BY <2>2, <2>3
<1>8. ServicesAgree'
  BY <1>3, <1>4 DEF ServicesAgree
<1> QED
  BY <1>3, <1>5, <1>6, <1>7, <1>8 DEF VectorInv, State

-----------------------------------------------------------------------------
\* Initially nothing is stored, cached or answered.
LEMMA InitInv == Init => VectorInv
<1> SUFFICES ASSUME Init PROVE VectorInv
  OBVIOUS
<1>1. TheConfig /\ TheRemote /\ TheLocal /\ TheCounts
  <2>1. <<>> \in Seq(Rows)
    OBVIOUS
  <2>2. TheConfig /\ TheLocal
    BY DEF Init, TheConfig, TheLocal
  <2>3. TheRemote
    BY <2>1 DEF Init, TheRemote
  <2>4. TheCounts
    BY BoundsAreNatural DEF Init, TheCounts
  <2> QED
    BY <2>2, <2>3, <2>4
<1>2. DatabasesAreClean /\ WritesAreKept
  BY DEF Init, DatabasesAreClean, WritesAreKept
<1>3. ServicesAgree
  BY DEF Init, ServicesAgree, TheConfig
<1>4. AnswerInv
  BY NoAnswerIsFine DEF Init
<1> QED
  BY <1>1, <1>2, <1>3, <1>4 DEF VectorInv, State

LEMMA NextKeepsInv == VectorInv /\ [Next]_vars => VectorInv'
<1> SUFFICES ASSUME VectorInv, [Next]_vars PROVE VectorInv'
  OBVIOUS
<1>1. CASE UNCHANGED vars
  <2>1. UNCHANGED <<kind, live, faulty, appends, stage, collection, rows, vectors,
                    tombstones, written, answer, writes, restarts>>
    BY <1>1 DEF vars
  <2>2. State'
    BY <2>1 DEF VectorInv, State, TheConfig, TheRemote, TheLocal, TheCounts,
                DatabasesAreClean, WritesAreKept
  <2>3. ServicesAgree'
    BY <2>1, ServicesUnchanged DEF VectorInv
  <2>4. AnswerInv'
    <3>1. \A r, q : Matching(r, q)' = Matching(r, q)
      BY <2>1 DEF Matching, WithLocal, LocalMatches, NotDeleted, IdsOf, Active, IsArchived,
                  Stored, Match
    <3>2. AnswerIsTyped' /\ HitsAreVouchedFor'
      BY <2>1 DEF VectorInv, AnswerInv, AnswerIsTyped, HitsAreVouchedFor, Found
    <3>3. OwnWritesAreFound'
      BY <2>1, <3>1 DEF VectorInv, AnswerInv, OwnWritesAreFound, Found
    <3> QED
      BY <3>2, <3>3 DEF AnswerInv
  <2> QED
    BY <2>2, <2>3, <2>4 DEF VectorInv
<1>2. ASSUME NEW p \in Processes, Connect(p) PROVE VectorInv'
  BY <1>2, ConnectKeepsInv
<1>3. ASSUME NEW p \in Processes, Restart(p) PROVE VectorInv'
  BY <1>3, RestartKeepsInv
<1>4. ASSUME NEW p \in Processes, NEW m \in Ids, NEW t \in Texts, Upsert(p, m, t)
      PROVE  VectorInv'
  <2>1. CASE RemoteUpsert(p, m, t)
    BY <2>1, RemoteUpsertKeepsInv
  <2>2. CASE PgWrite(p, m, <<Row(t, FALSE)>>, t) \/ SqliteWrite(p, m, <<Row(t, FALSE)>>, t)
    BY <2>2, SqlWriteKeepsInv
  <2>3. CASE InMemoryWrite(p, m, t)
    BY <2>3, InMemoryWriteKeepsInv
  <2> QED
    BY <1>4, <2>1, <2>2, <2>3 DEF Upsert
<1>5. ASSUME NEW p \in Processes, NEW m \in Ids, Delete(p, m)
      PROVE  VectorInv'
  <2>1. CASE RemoteDelete(p, m)
    BY <2>1, RemoteDeleteKeepsInv
  <2>2. CASE PgWrite(p, m, <<>>, Absent) \/ SqliteWrite(p, m, <<>>, Absent)
    BY <2>2, SqlWriteKeepsInv
  <2>3. CASE InMemoryWrite(p, m, Absent)
    BY <2>3, InMemoryWriteKeepsInv
  <2> QED
    BY <1>5, <2>1, <2>2, <2>3 DEF Delete
<1>6. ASSUME NEW p \in Processes, NEW q \in Texts, NEW n \in Limits, Search(p, q, n)
      PROVE  VectorInv'
  <2>1. AnswerInv' /\ UNCHANGED <<config, stage, remote, local, counts>>
    BY <1>6, SearchKeepsAnswer DEF VectorInv
  <2>2. UNCHANGED <<kind, live, faulty, appends, stage, collection, rows, vectors,
                    tombstones, written, writes, restarts>>
    BY <2>1 DEF config, remote, local, counts
  <2>3. State'
    BY <2>2 DEF VectorInv, State, TheConfig, TheRemote, TheLocal, TheCounts,
                DatabasesAreClean, WritesAreKept
  <2>4. ServicesAgree'
    BY <2>2, ServicesUnchanged DEF VectorInv
  <2> QED
    BY <2>1, <2>3, <2>4 DEF VectorInv
<1> QED
  BY <1>1, <1>2, <1>3, <1>4, <1>5, <1>6 DEF Next

\* The state of the backends, of their caches and of the last answer is typed.
THEOREM IndexIsTyped == Spec => []TypeOK
<1>1. VectorInv => TypeOK
  BY DEF VectorInv, State, AnswerInv, AnswerIsTyped, TheConfig, TheRemote, TheLocal, TheCounts,
         TypeOK
<1> QED
  BY <1>1, InitInv, NextKeepsInv, PTL DEF Spec

\* Whatever the service refuses, loses or keeps, and whoever restarts: what a
\* search returns has an active row or is the process's own, and the process has
\* not deleted it since it last indexed it.
THEOREM HitsStayVouchedFor == Spec => []HitsAreVouchedFor
<1>1. VectorInv => HitsAreVouchedFor
  BY DEF VectorInv, AnswerInv
<1> QED
  BY <1>1, InitInv, NextKeepsInv, PTL DEF Spec

\* An id whose last write is this process's upsert is in its complete answers
\* that have room for every match.
THEOREM OwnWritesStayFound == Spec => []OwnWritesAreFound
<1>1. VectorInv => OwnWritesAreFound
  BY DEF VectorInv, AnswerInv
<1> QED
  BY <1>1, InitInv, NextKeepsInv, PTL DEF Spec

-----------------------------------------------------------------------------
(***************************************************************************)
(* A list of best matches is what VectorIndex asks for.                    *)
(***************************************************************************)
\* VectorIndex counts as this module does.
LEMMA CountsAgree ==
    ASSUME NEW S
    PROVE  Index!Cardinality(S) = Cardinality(S)
BY DEF Cardinality, Index!Cardinality

\* S has one match of an id, scored by what content says of it.
Mirrors(S, q, content) ==
    /\ \A h \in S : content[h.id] # Absent /\ h.score = Index!Similarity(q, content[h.id])
    /\ \A g, h \in S : g.id = h.id => g = h

\* What content has and S has not, n matches of S are as good as.
Covers(S, q, n, content) ==
    \A m \in Ids :
        content[m] # Absent /\ m \notin IdsOf(S) =>
            \E T \in SUBSET S :
                /\ Cardinality(T) = n
                /\ \A h \in T : h.score >= Index!Similarity(q, content[m])

\* The first places of S, the best ones first.
IsRanking(s, S, n) ==
    /\ s \in [1..AtMost(n, S) -> S]
    /\ \A i, j \in 1..AtMost(n, S) : s[i] = s[j] => i = j
    /\ \A i, j \in 1..AtMost(n, S) : i < j => s[i].score >= s[j].score
    /\ \A h \in S : \/ \E i \in 1..AtMost(n, S) : s[i] = h
                    \/ \A i \in 1..AtMost(n, S) : s[i].score >= h.score

LEMMA ScoresAreNumbers ==
    ASSUME NEW S \in SUBSET Matches
    PROVE  \A h \in S : h.score \in Nat /\ h.id \in Ids
<1>1. \A h \in Matches : h.score \in {0, 1} /\ h.id \in Ids
  BY DEF Matches
<1> QED
  BY <1>1

\* No place of a ranking is worse than every one of n matches.
LEMMA RankedIsAmongBest ==
    ASSUME NEW S \in SUBSET Matches, IsFiniteSet(S), NEW n \in Nat, NEW s, IsRanking(s, S, n),
           NEW T \in SUBSET S, Cardinality(T) = n, NEW i \in 1..AtMost(n, S)
    PROVE  \E h \in T : s[i].score >= h.score
<1> SUFFICES ASSUME \A h \in T : ~(s[i].score >= h.score) PROVE FALSE
  OBVIOUS
<1>1. AtMost(n, S) \in Nat /\ AtMost(n, S) <= n
  BY OrderedIsSorted
<1> DEFINE k == AtMost(n, S)
           place == [h \in T |-> CHOOSE j \in 1..k : s[j] = h]
<1>2. /\ s \in [1..k -> S]
      /\ \A a, b \in 1..k : a < b => s[a].score >= s[b].score
      /\ \A h \in S : \/ \E j \in 1..k : s[j] = h
                      \/ \A j \in 1..k : s[j].score >= h.score
  BY DEF IsRanking
<1>3. k \in Nat /\ k <= n /\ i \in 1..k
  BY <1>1
<1> HIDE DEF k
<1>4. ASSUME NEW h \in T
      PROVE  place[h] \in 1..(i - 1) /\ s[place[h]] = h
  <2>1. \E j \in 1..k : s[j] = h
    BY <1>2, <1>3
  <2>2. place[h] \in 1..k /\ s[place[h]] = h
    BY <2>1
  <2> HIDE DEF place
  <2>3. s[i].score \in Nat /\ h.score \in Nat
    BY <1>2, <1>3, ScoresAreNumbers
  <2>4. ~(place[h] = i) /\ ~(i < place[h])
    BY <1>2, <1>3, <2>2, <2>3
  <2> QED
    BY <1>3, <2>2, <2>4
<1> HIDE DEF place
<1>5. place \in Injection(T, 1..(i - 1))
  <2>1. place \in [T -> 1..(i - 1)]
    BY <1>4 DEF place
  <2> QED
    BY <1>4, <2>1 DEF Injection, IsInjective
<1>6. IsFiniteSet(1..(i - 1)) /\ Cardinality(1..(i - 1)) = i - 1
  BY <1>3, FS_Interval
<1>7. Cardinality(T) <= i - 1
  BY <1>5, <1>6, FS_Injection
<1> QED
  BY <1>3, <1>7

\* The ids of a ranking of matches that mirror an index and cover it are the
\* best of that index.
LEMMA RankedIsBest ==
    ASSUME NEW S \in SUBSET Matches, IsFiniteSet(S), NEW n \in Nat, NEW q,
           NEW content, Mirrors(S, q, content), Covers(S, q, n, content),
           NEW s, IsRanking(s, S, n)
    PROVE  LET hits == [i \in 1..AtMost(n, S) |-> s[i].id]
           IN  hits \in Index!Orders /\ Index!IsBest(hits, content, q, n)
<1> DEFINE k == AtMost(n, S)
           hits == [i \in 1..k |-> s[i].id]
           indexed == {m \in Ids : content[m] # Absent}
           found == {hits[i] : i \in DOMAIN hits}
<1>1. /\ k \in Nat /\ k <= n /\ k <= Cardinality(S) /\ Cardinality(S) \in Nat
      /\ k = IF n < Cardinality(S) THEN n ELSE Cardinality(S)
  <2>1. Cardinality(S) \in Nat
    BY FS_CardinalityType
  <2> QED
    BY <2>1 DEF AtMost
<1>2. /\ s \in [1..k -> S]
      /\ \A i, j \in 1..k : s[i] = s[j] => i = j
      /\ \A i, j \in 1..k : i < j => s[i].score >= s[j].score
      /\ \A h \in S : \/ \E i \in 1..k : s[i] = h
                      \/ \A i \in 1..k : s[i].score >= h.score
  BY DEF IsRanking
<1>3. /\ \A h \in S : content[h.id] # Absent /\ h.score = Index!Similarity(q, content[h.id])
      /\ \A g, h \in S : g.id = h.id => g = h
      /\ \A h \in S : h.id \in Ids /\ h.score \in Nat
  BY ScoresAreNumbers DEF Mirrors
<1>4. /\ IsFiniteSet(Ids) /\ IsFiniteSet(indexed)
      /\ Cardinality(Ids) \in Nat /\ Cardinality(indexed) \in Nat
      /\ Cardinality(indexed) <= Cardinality(Ids)
  BY IdsAreNaturals, FS_Subset, FS_CardinalityType
<1> DEFINE id == [h \in S |-> h.id]
<1>5. id \in Injection(S, indexed)
  BY <1>3 DEF Injection, IsInjective
<1>6. Cardinality(S) <= Cardinality(indexed)
  <2> HIDE DEF id, indexed
  <2> QED BY <1>4, <1>5, FS_Injection
<1>7. k = IF n < Cardinality(indexed) THEN n ELSE Cardinality(indexed)
  <2>1. CASE \E m \in indexed : m \notin IdsOf(S)
    <3>1. PICK T \in SUBSET S : Cardinality(T) = n
      BY <2>1 DEF Covers
    <3>2. n <= Cardinality(S)
      BY <3>1, FS_Subset
    <3> QED
      BY <1>1, <1>4, <1>6, <3>2
  <2>2. CASE \A m \in indexed : m \in IdsOf(S)
    <3>1. id \in Surjection(S, indexed)
      BY <1>5, <2>2 DEF Surjection, Injection, IdsOf
    <3> HIDE DEF id, indexed
    <3>2. Cardinality(indexed) <= Cardinality(S)
      BY <3>1, FS_Surjection
    <3>3. Cardinality(indexed) = Cardinality(S)
      BY <1>1, <1>4, <1>6, <3>2
    <3> QED
      BY <1>1, <3>3
  <2> QED
    BY <2>1, <2>2
<1>8. /\ DOMAIN hits = 1..k /\ Len(hits) = k
      /\ \A i \in 1..k : hits[i] = s[i].id
  BY <1>1
<1>9. hits \in [1..k -> Ids]
  BY <1>2, <1>3
<1>10. hits \in Index!Orders
  <2>1. k \in 0..Cardinality(Ids)
    BY <1>1, <1>4, <1>6
  <2>2. \A i, j \in 1..k : hits[i] = hits[j] => i = j
    BY <1>2, <1>3, <1>8
  <2> HIDE DEF hits, k
  <2>3. [1..k -> Ids] \in {[1..a -> Ids] : a \in 0..Cardinality(Ids)}
    BY <2>1
  <2>4. hits \in UNION {[1..a -> Ids] : a \in 0..Cardinality(Ids)}
    BY <1>9, <2>3, Zenon
  <2> QED
    BY <1>8, <2>2, <2>4, CountsAgree, Zenon DEF Index!Orders
<1>11. found \subseteq indexed
  BY <1>2, <1>3, <1>8
<1>12. \A i \in 1..k : Index!Similarity(q, content[hits[i]]) = s[i].score
  BY <1>2, <1>3, <1>8
<1>13. ASSUME NEW i \in 1..k, NEW m \in indexed, m \notin found
       PROVE  s[i].score >= Index!Similarity(q, content[m])
  <2>1. CASE m \in IdsOf(S)
    <3>1. PICK h \in S : h.id = m
      BY <2>1 DEF IdsOf
    <3>2. ~ \E j \in 1..k : s[j] = h
      BY <1>8, <1>13, <3>1
    <3> QED
      BY <1>2, <1>3, <3>1, <3>2
  <2>2. CASE m \notin IdsOf(S)
    <3>1. PICK T \in SUBSET S : /\ Cardinality(T) = n
                                /\ \A h \in T : h.score >= Index!Similarity(q, content[m])
      BY <2>2 DEF Covers
    <3>2. PICK h \in T : s[i].score >= h.score
      BY <3>1, RankedIsAmongBest
    <3>3. s[i].score \in Nat /\ h.score \in Nat /\ Index!Similarity(q, content[m]) \in Nat
      BY <1>2, <1>3 DEF Index!Similarity
    <3> QED
      BY <3>1, <3>2, <3>3
  <2> QED
    BY <2>1, <2>2
<1>14. Index!IsBest(hits, content, q, n)
  <2>1. \A i, j \in 1..k : i < j =>
            Index!Similarity(q, content[hits[i]]) >= Index!Similarity(q, content[hits[j]])
    BY <1>2, <1>12
  <2>2. \A i \in 1..k, m \in indexed \ found :
            Index!Similarity(q, content[hits[i]]) >= Index!Similarity(q, content[m])
    BY <1>12, <1>13
  <2>3. Len(hits) = IF n < Cardinality(indexed) THEN n ELSE Cardinality(indexed)
    BY <1>7, <1>8
  <2>4. DOMAIN hits = 1..k
    BY <1>8
  <2> HIDE DEF hits
  <2> QED
    BY <1>11, <2>1, <2>2, <2>3, <2>4, CountsAgree, Zenon DEF Index!IsBest
<1> QED
  BY <1>10, <1>14

\* The sorted list is a ranking.
LEMMA OrderedIsARanking ==
    ASSUME NEW S \in SUBSET Matches, IsFiniteSet(S), NEW n \in Nat
    PROVE  LET s == [i \in 1..AtMost(n, S) |-> AtPlace(S, i)]
           IN  IsRanking(s, S, n) /\ Ordered(S, n) = [i \in 1..AtMost(n, S) |-> s[i].id]
<1> DEFINE k == AtMost(n, S)
           s == [i \in 1..k |-> AtPlace(S, i)]
<1>1. /\ k \in Nat
      /\ \A i \in 1..k : AtPlace(S, i) \in S
      /\ \A i, j \in 1..k : i < j => Before(AtPlace(S, i), AtPlace(S, j))
      /\ \A h \in S : \/ \E i \in 1..k : AtPlace(S, i) = h
                      \/ \A i \in 1..k : Before(AtPlace(S, i), h)
  BY OrderedIsSorted
<1>2. /\ \A i \in 1..k : s[i] = AtPlace(S, i)
      /\ s \in [1..k -> S]
      /\ Ordered(S, n) = [i \in 1..k |-> s[i].id]
  BY <1>1 DEF Ordered
<1>3. \A g, h \in S : (Before(g, h) => g.score >= h.score) /\ ~Before(g, g)
  BY BeforeIsTotalOrder
<1> HIDE DEF s, k
<1>4. \A i, j \in 1..k : i < j => s[i].score >= s[j].score /\ s[i] # s[j]
  BY <1>1, <1>2, <1>3
<1>5. \A i, j \in 1..k : s[i] = s[j] => i = j
  BY <1>1, <1>4
<1>6. \A h \in S : (\E i \in 1..k : s[i] = h) \/ (\A i \in 1..k : s[i].score >= h.score)
  BY <1>1, <1>2, <1>3
<1>7. IsRanking(s, S, n)
  BY <1>2, <1>4, <1>5, <1>6 DEF IsRanking, k
<1> QED
  BY <1>2, <1>7 DEF s, k

-----------------------------------------------------------------------------
(***************************************************************************)
(* A backend that is one index implements VectorIndex.                     *)
(***************************************************************************)
\* An answer VectorIndex allows for the index the callers see.
Best(q, n, hits, complete) ==
    /\ hits \in Index!Orders
    /\ IF complete THEN Index!IsBest(hits, SeenIndex, q, n)
       ELSE \E part \in SUBSET Ids :
              Index!IsBest(hits, [m \in Ids |-> IF m \in part THEN SeenIndex[m] ELSE Absent],
                           q, n)

BestOutcome(p, q, n) ==
    \E hits \in Seq(Ids), complete \in BOOLEAN :
        Answered(p, q, n, hits, complete) /\ Best(q, n, hits, complete)

\* What a caller sees is a text or nothing.
LEMMA SeenIsTyped ==
    ASSUME TypedState
    PROVE  /\ \A m \in Ids : Newest(m) \in Texts \cup {Absent}
           /\ live # {} => SeenIndex \in [Ids -> Texts \cup {Absent}]
<1>1. ASSUME NEW m \in Ids PROVE Newest(m) \in Texts \cup {Absent}
  <2>1. rows[m] \in Seq(Rows)
    BY DEF TypedState, TheRemote
  <2>2. CASE rows[m] = <<>>
    BY <2>2 DEF Newest
  <2>3. CASE rows[m] # <<>>
    <3>1. rows[m][Len(rows[m])] \in Rows
      BY <2>1, <2>3
    <3>2. rows[m][Len(rows[m])].text \in Texts \cup {Absent}
      BY <3>1 DEF Rows
    <3> QED
      BY <3>2 DEF Newest
  <2> QED
    BY <2>2, <2>3
<1>2. ASSUME live # {} PROVE SeenIndex \in [Ids -> Texts \cup {Absent}]
  <2>1. (CHOOSE p \in live : TRUE) \in Processes
    BY <1>2 DEF TypedState, TheConfig
  <2>2. \A m \in Ids : vectors[CHOOSE p \in live : TRUE][m] \in Texts \cup {Absent}
    BY <2>1 DEF TypedState, TheLocal
  <2> QED
    BY <1>1, <2>2 DEF SeenIndex
<1> QED
  BY <1>1, <1>2

\* The sorted list of what mirrors the index is an answer; a complete one of
\* what covers it, too.
LEMMA OrderedIsBest ==
    ASSUME NEW p, NEW q, NEW n \in Nat, NEW complete \in BOOLEAN,
           NEW S \in SUBSET Matches, IsFiniteSet(S), Mirrors(S, q, SeenIndex),
           complete => Covers(S, q, n, SeenIndex),
           Answered(p, q, n, Ordered(S, n), complete)
    PROVE  BestOutcome(p, q, n)
<1> DEFINE s == [i \in 1..AtMost(n, S) |-> AtPlace(S, i)]
           part == IdsOf(S)
           content == [m \in Ids |-> IF m \in part THEN SeenIndex[m] ELSE Absent]
           hits == Ordered(S, n)
<1>1. IsRanking(s, S, n) /\ hits = [i \in 1..AtMost(n, S) |-> s[i].id]
  BY OrderedIsARanking
<1>2. hits \in Seq(Ids)
  BY OrderedIsAList DEF IsListOf
<1> HIDE DEF s, hits
<1>3. complete => hits \in Index!Orders /\ Index!IsBest(hits, SeenIndex, q, n)
  BY <1>1, RankedIsBest
<1>4. hits \in Index!Orders /\ Index!IsBest(hits, content, q, n) /\ part \in SUBSET Ids
  <2>1. \A h \in S : h.id \in Ids /\ h.id \in part
    BY ScoresAreNumbers DEF IdsOf
  <2>2. \A h \in S : content[h.id] = SeenIndex[h.id]
    BY <2>1
  <2>3. part \in SUBSET Ids
    BY <2>1 DEF IdsOf
  <2>4. \A m \in Ids : content[m] # Absent => m \in IdsOf(S)
    OBVIOUS
  <2> HIDE DEF content, part
  <2>5. Mirrors(S, q, content)
    BY <2>2 DEF Mirrors
  <2>6. Covers(S, q, n, content)
    BY <2>4 DEF Covers
  <2>7. hits \in Index!Orders /\ Index!IsBest(hits, content, q, n)
    BY <1>1, <2>5, <2>6, RankedIsBest
  <2> QED
    BY <2>3, <2>7
<1>5. Best(q, n, hits, complete)
  BY <1>3, <1>4 DEF Best
<1>6. Answered(p, q, n, hits, complete)
  BY DEF hits
<1> QED
  BY <1>2, <1>5, <1>6 DEF BestOutcome

\* The active rows of a database, or of a service with one owner, are the index:
\* one of an id, and the tombstones hide none.
LEMMA ActiveIsTheIndex ==
    ASSUME VectorInv, IsOneIndex, kind \in Sql \cup Services, NEW p \in live, NEW q
    PROVE  /\ Mirrors(Active(q), q, SeenIndex)
           /\ \A m \in Ids : SeenIndex[m] # Absent => m \in IdsOf(Active(q))
           /\ \A T \in SUBSET Active(q) : NotDeleted(p, T) = T
<1>1. /\ TypedState /\ DatabasesAreClean /\ ServicesAgree
      /\ kind \notin InMemory /\ p \in Processes
  BY DEF VectorInv, State, TypedState, TheConfig, Sql, Services, InMemory
<1>2. \A m \in Ids : SeenIndex[m] = Newest(m)
  BY <1>1 DEF SeenIndex
<1>3. ASSUME NEW m \in Ids
      PROVE  \/ rows[m] = <<>> /\ Newest(m) = Absent
             \/ \E t \in Texts : rows[m] = <<Row(t, FALSE)>> /\ Newest(m) = t
             \/ \E x \in Texts \cup {Absent} : rows[m] = <<Row(x, TRUE)>> /\ Newest(m) = Absent
  <2>1. \/ rows[m] = <<>>
        \/ \E t \in Texts : rows[m] = <<Row(t, FALSE)>>
        \/ \E x \in Texts \cup {Absent} : rows[m] = <<Row(x, TRUE)>>
    BY <1>1 DEF DatabasesAreClean, ServicesAgree
  <2>2. /\ rows[m] = <<>> => Newest(m) = Absent
        /\ \A t \in Texts : rows[m] = <<Row(t, FALSE)>> => Newest(m) = t
        /\ \A x : rows[m] = <<Row(x, TRUE)>> => Newest(m) = Absent
    BY DEF Newest, Row
  <2> QED
    BY <2>1, <2>2
<1>4. ASSUME NEW h \in Active(q)
      PROVE  /\ h.id \in Ids /\ SeenIndex[h.id] \in Texts
             /\ h = Match(h.id, 1, q, SeenIndex[h.id])
  <2>1. /\ h.id \in Ids /\ h.row \in DOMAIN rows[h.id] /\ ~rows[h.id][h.row].archived
        /\ h = Match(h.id, h.row, q, rows[h.id][h.row].text)
    BY <1>1, MatchesAreOfTheState
  <2>2. rows[h.id] # <<>>
    <3>1. DOMAIN << >> = {}
      OBVIOUS
    <3> QED
      BY <2>1, <3>1, Zenon
  <2>3. \A x : rows[h.id] # <<Row(x, TRUE)>>
    <3> SUFFICES ASSUME NEW x, rows[h.id] = <<Row(x, TRUE)>> PROVE FALSE
      OBVIOUS
    <3>1. h.row = 1
      BY <2>1
    <3> QED
      BY <2>1, <3>1 DEF Row
  <2>4. PICK t \in Texts : rows[h.id] = <<Row(t, FALSE)>> /\ Newest(h.id) = t
    BY <1>3, <2>1, <2>2, <2>3
  <2>5. h.row = 1 /\ rows[h.id][h.row].text = t
    BY <2>1, <2>4 DEF Row
  <2> QED
    BY <1>2, <2>1, <2>4, <2>5
<1>5. Mirrors(Active(q), q, SeenIndex)
  <2>1. \A h \in Active(q) : h.score = Index!Similarity(q, SeenIndex[h.id])
    BY <1>4 DEF Match
  <2>2. \A g, h \in Active(q) : g.id = h.id => g = h
    BY <1>4
  <2> QED
    BY <1>4, <2>1, <2>2, AbsentIsNoText DEF Mirrors
<1>6. ASSUME NEW m \in Ids, SeenIndex[m] # Absent
      PROVE  m \in IdsOf(Active(q))
  <2>1. PICK t \in Texts : rows[m] = <<Row(t, FALSE)>>
    BY <1>2, <1>3, <1>6
  <2>2. 1 \in DOMAIN rows[m] /\ ~rows[m][1].archived
    BY <2>1 DEF Row
  <2>3. Match(m, 1, q, rows[m][1].text) \in Active(q)
    BY <1>1, <2>2, MatchesAreOfTheState
  <2>4. Match(m, 1, q, rows[m][1].text).id = m
    BY MatchIsTyped
  <2> QED
    BY <2>3, <2>4 DEF IdsOf
<1>7. ASSUME NEW h \in Active(q) PROVE h.id \notin tombstones[p]
  <2>1. h.id \in Ids /\ Newest(h.id) # Absent
    BY <1>2, <1>4, AbsentIsNoText
  <2> QED
    BY <1>1, <2>1 DEF DatabasesAreClean, ServicesAgree
<1>8. \A T \in SUBSET Active(q) : NotDeleted(p, T) = T
  BY <1>7 DEF NotDeleted
<1> QED
  BY <1>5, <1>6, <1>8

\* A part of the active rows mirrors the index, with the process's own vectors
\* for the rest or without; the best n of them cover it.
LEMMA PartsMirrorTheIndex ==
    ASSUME VectorInv, IsOneIndex, kind \in Sql \cup Services, NEW p \in live, NEW q,
           NEW n \in Nat, NEW T \in SUBSET Active(q)
    PROVE  /\ T \in SUBSET Matches /\ IsFiniteSet(T) /\ Mirrors(T, q, SeenIndex)
           /\ T \in Tops(Active(q), n) =>
                \A S : T \in SUBSET S => Covers(S, q, n, SeenIndex)
           /\ kind \in Services =>
                /\ WithLocal(p, q, T) \in SUBSET Matches /\ IsFiniteSet(WithLocal(p, q, T))
                /\ Mirrors(WithLocal(p, q, T), q, SeenIndex)
                /\ T \in SUBSET WithLocal(p, q, T)
<1>1. /\ TypedState /\ ServicesAgree /\ kind \notin InMemory /\ p \in Processes
  BY DEF VectorInv, State, TypedState, TheConfig, Sql, Services, InMemory
<1>2. /\ Mirrors(Active(q), q, SeenIndex)
      /\ \A m \in Ids : SeenIndex[m] # Absent => m \in IdsOf(Active(q))
      /\ NotDeleted(p, T) = T
  BY ActiveIsTheIndex
<1>3. /\ Active(q) \in SUBSET Matches /\ IsFiniteSet(Active(q))
      /\ LocalMatches(p, q) \in SUBSET Matches
  BY <1>1, MatchesAreFinite, MatchingIsFinite
<1>4. T \in SUBSET Matches /\ IsFiniteSet(T)
  BY <1>3, FS_Subset
<1>5. Mirrors(T, q, SeenIndex)
  BY <1>2 DEF Mirrors
<1>6. ASSUME T \in Tops(Active(q), n), NEW S, T \in SUBSET S
      PROVE  Covers(S, q, n, SeenIndex)
  <2> SUFFICES ASSUME NEW m \in Ids, SeenIndex[m] # Absent, m \notin IdsOf(S)
               PROVE  \E U \in SUBSET S :
                         /\ Cardinality(U) = n
                         /\ \A h \in U : h.score >= Index!Similarity(q, SeenIndex[m])
    BY DEF Covers
  <2>1. PICK h \in Active(q) : h.id = m
    BY <1>2 DEF IdsOf
  <2>2. h \notin T
    BY <1>6, <2>1 DEF IdsOf
  <2>3. h.score = Index!Similarity(q, SeenIndex[m])
    BY <1>2, <2>1 DEF Mirrors
  <2>4. /\ Cardinality(T) = n \/ T = Active(q)
        /\ \A g \in T, other \in Active(q) : other \notin T => g.score >= other.score
    BY <1>3, <1>6, TopsAreOfTheMatches
  <2>5. Cardinality(T) = n /\ \A g \in T : g.score >= Index!Similarity(q, SeenIndex[m])
    BY <2>1, <2>2, <2>3, <2>4
  <2> QED
    BY <1>6, <2>5
<1>7. ASSUME kind \in Services
      PROVE  /\ WithLocal(p, q, T) \in SUBSET Matches /\ IsFiniteSet(WithLocal(p, q, T))
             /\ Mirrors(WithLocal(p, q, T), q, SeenIndex)
             /\ T \in SUBSET WithLocal(p, q, T)
  <2>1. WithLocal(p, q, T) \in SUBSET Matches /\ IsFiniteSet(WithLocal(p, q, T))
    BY <1>1, <1>2, MergedAreVouchedFor
  <2>2. ASSUME NEW h \in LocalMatches(p, q)
        PROVE  /\ h = Match(h.id, 0, q, vectors[p][h.id])
               /\ SeenIndex[h.id] # Absent
               /\ h.score = Index!Similarity(q, SeenIndex[h.id])
    <3>1. /\ h.id \in Ids /\ h.id \notin tombstones[p] /\ vectors[p][h.id] # Absent
          /\ h = Match(h.id, 0, q, vectors[p][h.id])
      BY <1>1, MatchesAreOfTheState
    <3>2. Newest(h.id) = vectors[p][h.id]
      BY <1>1, <1>7, <3>1 DEF ServicesAgree
    <3>3. SeenIndex[h.id] = vectors[p][h.id]
      BY <1>1, <3>1, <3>2 DEF SeenIndex
    <3> QED
      BY <3>1, <3>3 DEF Match
  <2> DEFINE all == WithLocal(p, q, T)
  <2>3. /\ \A h \in all : h \in T \/ (h \in LocalMatches(p, q) /\ h.id \notin IdsOf(T))
        /\ T \in SUBSET all
    BY DEF WithLocal
  <2> HIDE DEF all
  <2>4. \A h \in all : SeenIndex[h.id] # Absent
                       /\ h.score = Index!Similarity(q, SeenIndex[h.id])
    BY <1>5, <2>2, <2>3 DEF Mirrors
  <2>5. \A g, h \in all : g.id = h.id => g = h
    <3>1. \A g, h \in T : g.id = h.id => g = h
      BY <1>5 DEF Mirrors
    <3>2. \A h \in T : h.id \in IdsOf(T)
      BY DEF IdsOf
    <3> QED
      BY <2>2, <2>3, <3>1, <3>2, ZenonT(30)
  <2>6. Mirrors(all, q, SeenIndex)
    BY <2>4, <2>5 DEF Mirrors
  <2> QED
    BY <2>1, <2>3, <2>6 DEF all
<1> QED
  BY <1>4, <1>5, <1>6, <1>7

\* Scores that are not missing stay: the process's copy says what the service does.
LEMMA RescoredIsTheSame ==
    ASSUME VectorInv, IsOneIndex, kind \in Services, NEW p \in live, NEW q \in Texts,
           NEW h \in Active(q), h.score = 0
    PROVE  Match(h.id, h.row, q, vectors[p][h.id]) = h
<1>1. TypedState /\ ServicesAgree /\ kind \notin InMemory /\ p \in Processes
  BY DEF VectorInv, State, TypedState, TheConfig, Services, InMemory
<1>2. /\ SeenIndex[h.id] # Absent /\ h.score = Index!Similarity(q, SeenIndex[h.id])
      /\ h.id \notin tombstones[p]
  <2>1. Mirrors(Active(q), q, SeenIndex) /\ NotDeleted(p, Active(q)) = Active(q)
    BY ActiveIsTheIndex
  <2> QED
    BY <2>1 DEF Mirrors, NotDeleted
<1>3. /\ h.id \in Ids /\ h \in Matches
      /\ h = Match(h.id, h.row, q, rows[h.id][h.row].text)
  BY <1>1, MatchesAreOfTheState, MatchesAreFinite
<1>4. SeenIndex[h.id] = Newest(h.id)
  BY <1>1, <1>3 DEF SeenIndex
<1>5. Index!Similarity(q, vectors[p][h.id]) = 0
  <2>1. CASE vectors[p][h.id] = Absent
    BY <2>1, AbsentIsNoText DEF Index!Similarity
  <2>2. CASE vectors[p][h.id] # Absent
    <3>1. Newest(h.id) = vectors[p][h.id]
      BY <1>1, <1>2, <1>3, <2>2 DEF ServicesAgree
    <3> QED
      BY <1>2, <1>4, <3>1
  <2> QED
    BY <2>1, <2>2
<1>6. h = [id |-> h.id, row |-> h.row, score |-> h.score]
  BY <1>3 DEF Match
<1> QED
  BY <1>5, <1>6 DEF Match

\* Every search of a backend that is one index gives an answer VectorIndex allows.
LEMMA SearchIsBest ==
    ASSUME VectorInv, IsOneIndex, NEW p \in Processes, NEW q \in Texts, NEW n \in Limits,
           Search(p, q, n)
    PROVE  BestOutcome(p, q, n)
<1>1. n \in Nat
  BY LimitsAreNaturals
<1>2. TypedState /\ DatabasesAreClean
  BY DEF VectorInv, State, TypedState
<1>3. CASE InMemorySearch(p, q, n)
  <2>1. kind \in InMemory /\ kind \notin Sql /\ p \in live
    BY <1>3 DEF InMemorySearch, Ready, InMemory, Sql
  <2>2. PICK o \in Processes : live = {o}
    BY <1>2, <2>1, OneOwner DEF TypedState
  <2>3. \A m \in Ids : SeenIndex[m] = vectors[p][m]
    BY <2>1, <2>2 DEF SeenIndex
  <2> DEFINE S == LocalMatches(p, q)
  <2>4. S \in SUBSET Matches /\ IsFiniteSet(S)
    BY <1>2, MatchesAreFinite
  <2>5. \A h \in S : /\ h.id \in Ids /\ vectors[p][h.id] # Absent
                     /\ h = Match(h.id, 0, q, vectors[p][h.id])
    BY <1>2, MatchesAreOfTheState
  <2>6. \A m \in Ids : vectors[p][m] # Absent => m \in IdsOf(S)
    <3>1. tombstones[p] = {}
      BY <1>2, <2>1 DEF DatabasesAreClean
    <3>2. \A m \in Ids : vectors[p][m] # Absent => Match(m, 0, q, vectors[p][m]) \in S
      BY <1>2, <3>1, MatchesAreOfTheState
    <3>3. \A m \in Ids : Match(m, 0, q, vectors[p][m]).id = m
      BY MatchIsTyped
    <3> QED
      BY <3>2, <3>3 DEF IdsOf
  <2>7. Answered(p, q, n, Ordered(S, n), TRUE)
    BY <1>3 DEF InMemorySearch
  <2> HIDE DEF S
  <2>8. Mirrors(S, q, SeenIndex)
    <3>1. \A h \in S : /\ SeenIndex[h.id] # Absent
                       /\ h.score = Index!Similarity(q, SeenIndex[h.id])
      BY <2>3, <2>5 DEF Match
    <3>2. \A g, h \in S : g.id = h.id => g = h
      BY <2>5
    <3> QED
      BY <3>1, <3>2 DEF Mirrors
  <2>9. Covers(S, q, n, SeenIndex)
    BY <2>3, <2>6 DEF Covers
  <2> QED
    BY <1>1, <2>4, <2>7, <2>8, <2>9, OrderedIsBest
<1>4. CASE RedisSearch(p, q, n)
  <2>1. kind \in Services /\ p \in live
    BY <1>4 DEF RedisSearch, Ready, Services
  <2>2. /\ Mirrors(Active(q), q, SeenIndex)
        /\ \A m \in Ids : SeenIndex[m] # Absent => m \in IdsOf(Active(q))
        /\ NotDeleted(p, Active(q)) = Active(q)
    BY <2>1, ActiveIsTheIndex
  <2>3. Covers(Active(q), q, n, SeenIndex)
    BY <2>2 DEF Covers
  <2>4. Active(q) \in SUBSET Matches /\ IsFiniteSet(Active(q))
    BY <1>2, MatchesAreFinite, MatchingIsFinite
  <2>5. Answered(p, q, n, Ordered(Active(q), n), TRUE)
    BY <1>4, <2>2 DEF RedisSearch
  <2> QED
    BY <1>1, <2>2, <2>3, <2>4, <2>5, OrderedIsBest
\* The searches that merge.
<1>5. ASSUME kind \in Services, p \in live, NEW complete \in BOOLEAN,
             NEW T \in SUBSET Active(q), complete => T \in Tops(Active(q), n),
             NEW all, all \in {T, WithLocal(p, q, T)},
             Answered(p, q, n, Ordered(all, n), complete)
      PROVE  BestOutcome(p, q, n)
  <2>1. /\ T \in SUBSET Matches /\ IsFiniteSet(T) /\ Mirrors(T, q, SeenIndex)
        /\ complete => \A S : T \in SUBSET S => Covers(S, q, n, SeenIndex)
        /\ WithLocal(p, q, T) \in SUBSET Matches /\ IsFiniteSet(WithLocal(p, q, T))
        /\ Mirrors(WithLocal(p, q, T), q, SeenIndex)
        /\ T \in SUBSET WithLocal(p, q, T)
    BY <1>1, <1>5, PartsMirrorTheIndex
  <2>2. all \in SUBSET Matches /\ IsFiniteSet(all) /\ Mirrors(all, q, SeenIndex)
        /\ (complete => Covers(all, q, n, SeenIndex))
    BY <1>5, <2>1
  <2> QED
    BY <1>1, <1>5, <2>2, OrderedIsBest
<1>6. ASSUME kind \in Services, p \in live
      PROVE  \A T \in SUBSET Active(q) : NotDeleted(p, T) = T
  BY <1>6, ActiveIsTheIndex
<1>7. \A top \in Tops(Active(q), n) : top \in SUBSET Active(q)
  BY DEF Tops
<1>8. CASE MilvusSearch(p, q, n)
  <2>1. kind \in Services /\ p \in live
    BY <1>8 DEF MilvusSearch, Ready, Services
  <2>2. PICK top \in Tops(Active(q), n), up \in BOOLEAN :
            LET matches == IF up THEN NotDeleted(p, top) ELSE {}
                all == IF Cardinality(matches) < n THEN WithLocal(p, q, matches)
                       ELSE matches
            IN Answered(p, q, n, Ordered(all, n), up)
    BY <1>8 DEF MilvusSearch
  <2> DEFINE T == IF up THEN top ELSE {}
             all == IF Cardinality(T) < n THEN WithLocal(p, q, T) ELSE T
  <2>3. T = IF up THEN NotDeleted(p, top) ELSE {}
    BY <1>6, <1>7, <2>1
  <2>4. T \in SUBSET Active(q) /\ (up => T \in Tops(Active(q), n))
    BY <1>7
  <2>5. all \in {T, WithLocal(p, q, T)} /\ Answered(p, q, n, Ordered(all, n), up)
    BY <2>2, <2>3
  <2> HIDE DEF T, all
  <2> QED
    BY <1>5, <2>1, <2>4, <2>5
<1>9. ASSUME kind \in Services, p \in live,
             NEW filtered \in BOOLEAN, NEW matches \in Queried(p, q, n, filtered)
      PROVE  matches \in SUBSET Active(q) /\ (filtered => matches \in Tops(Active(q), n))
  <2>1. PICK top \in Tops(IF filtered THEN Active(q) ELSE Stored(q), n) :
            matches = NotDeleted(p, {h \in top : ~IsArchived(h)})
    BY DEF Queried
  <2>2. top \in SUBSET Stored(q) /\ (filtered => top \in SUBSET Active(q))
    BY <2>1 DEF Tops, Active
  <2>3. {h \in top : ~IsArchived(h)} \in SUBSET Active(q)
    BY <2>2 DEF Active
  <2>4. filtered => {h \in top : ~IsArchived(h)} = top
    BY <2>2 DEF Active
  <2>5. matches = {h \in top : ~IsArchived(h)}
    BY <1>6, <1>9, <2>1, <2>3
  <2> QED
    BY <2>1, <2>3, <2>4, <2>5
<1>10. CASE QdrantSearch(p, q, n)
  <2>1. kind \in Services /\ p \in live
    BY <1>10 DEF QdrantSearch, Ready, Services
  <2>2. PICK up \in BOOLEAN, filtered \in BOOLEAN :
            \E matches \in IF up THEN Queried(p, q, n, filtered) ELSE {{}} :
               Answered(p, q, n, Ordered(WithLocal(p, q, matches), n), up /\ filtered)
    BY <1>10 DEF QdrantSearch
  <2>3. PICK matches \in IF up THEN Queried(p, q, n, filtered) ELSE {{}} :
               Answered(p, q, n, Ordered(WithLocal(p, q, matches), n), up /\ filtered)
    BY <2>2
  <2> DEFINE all == WithLocal(p, q, matches)
             complete == up /\ filtered
  <2>4. matches \in SUBSET Active(q) /\ (complete => matches \in Tops(Active(q), n))
    <3>1. CASE up
      BY <1>9, <2>1, <2>3, <3>1
    <3>2. CASE ~up
      BY <2>3, <3>2
    <3> QED
      BY <3>1, <3>2
  <2>5. /\ all \in {matches, WithLocal(p, q, matches)} /\ complete \in BOOLEAN
        /\ Answered(p, q, n, Ordered(all, n), complete)
    BY <2>3
  <2> HIDE DEF all, complete
  <2> QED
    BY <1>5, <2>1, <2>4, <2>5
<1>11. CASE PineconeSearch(p, q, n)
  <2>1. kind \in Services /\ p \in live
    BY <1>11 DEF PineconeSearch, Ready, Services
  <2>2. PICK filtered \in BOOLEAN : \E matches \in Queried(p, q, n, filtered) :
            LET all == IF Cardinality(matches) < n THEN WithLocal(p, q, matches)
                       ELSE matches
            IN Answered(p, q, n, Ordered(all, n), filtered)
    BY <1>11 DEF PineconeSearch
  <2>3. PICK matches \in Queried(p, q, n, filtered) :
            LET all == IF Cardinality(matches) < n THEN WithLocal(p, q, matches)
                       ELSE matches
            IN Answered(p, q, n, Ordered(all, n), filtered)
    BY <2>2
  <2> DEFINE all == IF Cardinality(matches) < n THEN WithLocal(p, q, matches) ELSE matches
  <2>4. matches \in SUBSET Active(q) /\ (filtered => matches \in Tops(Active(q), n))
    BY <1>9, <2>1
  <2>5. /\ all \in {matches, WithLocal(p, q, matches)}
        /\ Answered(p, q, n, Ordered(all, n), filtered)
    BY <2>3
  <2> HIDE DEF all
  <2> QED
    BY <1>5, <2>1, <2>4, <2>5
<1>12. CASE WeaviateSearch(p, q, n)
  <2>1. kind \in Services /\ p \in live
    BY <1>12 DEF WeaviateSearch, Ready, Services
  <2> DEFINE Rescored(h) == IF h.score = 0 THEN Match(h.id, h.row, q, vectors[p][h.id])
                            ELSE h
  <2>2. PICK top \in Tops(Active(q), n) :
            Answered(p, q, n,
                     Ordered(WithLocal(p, q, {Rescored(h) : h \in NotDeleted(p, top)}), n), TRUE)
    BY <1>12 DEF WeaviateSearch
  <2>3. top \in SUBSET Active(q) /\ NotDeleted(p, top) = top
    BY <1>6, <1>7, <2>1
  <2>4. \A h \in top : Rescored(h) = h
    BY <2>1, <2>3, RescoredIsTheSame
  <2>5. {Rescored(h) : h \in NotDeleted(p, top)} = top
    <3> HIDE DEF Rescored
    <3> QED BY <2>3, <2>4
  <2> DEFINE all == WithLocal(p, q, top)
  <2>6. all \in {top, WithLocal(p, q, top)} /\ Answered(p, q, n, Ordered(all, n), TRUE)
    BY <2>2, <2>5
  <2> HIDE DEF all
  <2> QED
    BY <1>5, <2>1, <2>3, <2>6
<1>13. ASSUME kind \in Sql, p \in live, NEW top \in Tops(Stored(q), n)
       PROVE  /\ top \in SUBSET Matches /\ IsFiniteSet(top) /\ Mirrors(top, q, SeenIndex)
              /\ Covers(top, q, n, SeenIndex)
              /\ Cardinality(top) \in Nat /\ Cardinality(top) <= n
  <2>1. Stored(q) = Active(q)
    BY <1>2, <1>13, DatabaseRowsAreActive
  <2>2. top \in SUBSET Active(q) /\ top \in Tops(Active(q), n)
    BY <1>7, <2>1
  <2>3. top \in SUBSET Matches /\ IsFiniteSet(top) /\ Mirrors(top, q, SeenIndex)
        /\ Covers(top, q, n, SeenIndex)
    BY <1>1, <1>13, <2>2, PartsMirrorTheIndex
  <2>4. Cardinality(top) \in Nat /\ Cardinality(top) <= n
    BY <1>1, <1>2, MatchesAreFinite, TopsAreOfTheMatches
  <2> QED
    BY <2>3, <2>4
<1>14. CASE SqliteSearch(p, q, n)
  <2>1. kind \in Sql /\ p \in live
    BY <1>14 DEF SqliteSearch, Ready, Sql
  <2>2. PICK top \in Tops(Stored(q), n) : Answered(p, q, n, Ordered(top, n), TRUE)
    BY <1>14 DEF SqliteSearch
  <2> QED
    BY <1>1, <1>13, <2>1, <2>2, OrderedIsBest
<1>15. CASE PgSearch(p, q, n)
  <2>1. kind \in Sql /\ p \in live
    BY <1>15 DEF PgSearch, Ready, Sql
  <2>2. PICK top \in Tops(Stored(q), n) : \E s \in SetToSeqs(top) :
            /\ \A i, j \in DOMAIN s : i < j => s[i].score >= s[j].score
            /\ Answered(p, q, n, [i \in DOMAIN s |-> s[i].id], TRUE)
    BY <1>15 DEF PgSearch
  <2>3. PICK s \in SetToSeqs(top) :
            /\ \A i, j \in DOMAIN s : i < j => s[i].score >= s[j].score
            /\ Answered(p, q, n, [i \in DOMAIN s |-> s[i].id], TRUE)
    BY <2>2
  <2>4. /\ top \in SUBSET Matches /\ IsFiniteSet(top) /\ Mirrors(top, q, SeenIndex)
        /\ Covers(top, q, n, SeenIndex)
        /\ Cardinality(top) \in Nat /\ Cardinality(top) <= n
    BY <1>13, <2>1
  <2>5. AtMost(n, top) = Cardinality(top)
    BY <1>1, <2>4 DEF AtMost
  <2> DEFINE k == AtMost(n, top)
             hits == [i \in 1..k |-> s[i].id]
  <2>6. /\ s \in [1..k -> top] /\ DOMAIN s = 1..k
        /\ \A i, j \in 1..k : s[i] = s[j] => i = j
    BY <2>5 DEF SetToSeqs
  <2>7. \A h \in top : \E i \in 1..k : s[i] = h
    <3>1. s \in Injection(1..k, top)
      BY <2>6 DEF Injection, IsInjective
    <3>2. IsFiniteSet(1..k) /\ Cardinality(1..k) = Cardinality(top)
      BY <2>4, <2>5, FS_Interval
    <3>3. s \in Surjection(1..k, top)
      BY <2>4, <3>1, <3>2, FS_Injection
    <3> QED
      BY <3>3 DEF Surjection
  <2>8. IsRanking(s, top, n)
    BY <2>3, <2>6, <2>7 DEF IsRanking
  <2>9. hits \in Index!Orders /\ Index!IsBest(hits, SeenIndex, q, n)
    BY <1>1, <2>4, <2>8, RankedIsBest
  <2>10. Answered(p, q, n, hits, TRUE)
    BY <2>3, <2>6
  <2>11. hits \in Seq(Ids)
    <3>1. \A i \in 1..k : s[i].id \in Ids
      BY <2>4, <2>6 DEF Matches
    <3> QED
      BY <2>4, <2>5, <3>1
  <2> HIDE DEF hits, k
  <2>12. Best(q, n, hits, TRUE)
    BY <2>9 DEF Best
  <2> QED
    BY <2>10, <2>11, <2>12 DEF BestOutcome
<1>16. ~WeaviateObjectsSearch(p, q, n)
  BY <1>1 DEF WeaviateObjectsSearch, Ready, IsOneIndex, Unqueried, Sql
<1> QED
  BY <1>3, <1>4, <1>8, <1>10, <1>11, <1>12, <1>14, <1>15, <1>16 DEF Search

\* Dropping an answer is what VectorIndex does when it writes what is there.
LEMMA DroppingIsAWrite ==
    ASSUME SeenIndex \in [Ids -> Texts \cup {Absent}], SeenIndex' = SeenIndex,
           SeenAnswer' = Index!NoAnswer
    PROVE  Index!Next
<1>1. PICK m \in Ids : TRUE
  BY IdsAreNaturals
<1>2. SeenIndex = [SeenIndex EXCEPT ![m] = SeenIndex[m]]
  OBVIOUS
<1>3. CASE SeenIndex[m] = Absent
  <2>1. Index!Delete(m)
    BY <1>2, <1>3 DEF Index!Delete
  <2> QED
    BY <2>1 DEF Index!Next
<1>4. CASE SeenIndex[m] \in Texts
  <2>1. Index!Upsert(m, SeenIndex[m])
    BY <1>2 DEF Index!Upsert
  <2> QED
    BY <1>4, <2>1 DEF Index!Next
<1> QED
  BY <1>3, <1>4

\* The answer the callers see.
LEMMA SeenAnswers ==
    /\ IsOneIndex /\ answer = NoAnswer => SeenAnswer = Index!NoAnswer
    /\ IsOneIndex' /\ answer' = NoAnswer => SeenAnswer' = Index!NoAnswer
<1>1. /\ NoAnswer.query = Absent /\ NoAnswer.limit = 0 /\ NoAnswer.hits = <<>>
      /\ NoAnswer.complete = TRUE
  BY DEF NoAnswer
<1>2. Index!NoAnswer = [query |-> Absent, limit |-> 0, hits |-> <<>>, complete |-> TRUE]
  BY DEF Index!NoAnswer
<1> HIDE DEF NoAnswer
<1>3. ASSUME IsOneIndex, answer = NoAnswer PROVE SeenAnswer = Index!NoAnswer
  BY <1>1, <1>2, <1>3 DEF SeenAnswer
<1>4. ASSUME IsOneIndex', answer' = NoAnswer PROVE SeenAnswer' = Index!NoAnswer
  BY <1>1, <1>2, <1>4 DEF SeenAnswer
<1> QED
  BY <1>3, <1>4

\* What the callers see follows from what is stored.
LEMMA SeenIsKept ==
    ASSUME UNCHANGED <<config, rows>>, kind \in InMemory => UNCHANGED vectors
    PROVE  SeenIndex' = SeenIndex /\ (IsOneIndex' <=> IsOneIndex)
<1>1. UNCHANGED <<kind, live, faulty, appends, rows>>
  BY DEF config
<1>2. (IsOneIndex' <=> IsOneIndex) /\ \A m : Newest(m)' = Newest(m)
  BY <1>1 DEF IsOneIndex, Newest
<1> QED
  BY <1>1, <1>2 DEF SeenIndex

\* A write that is not refused replaces the text of one id.
LEMMA WriteIsAWrite ==
    ASSUME VectorInv, IsOneIndex, NEW p \in Processes, NEW m \in Ids,
           \/ \E t \in Texts : Upsert(p, m, t)
           \/ Delete(p, m)
    PROVE  Index!Next
<1>1. TypedState /\ ServicesAgree /\ State /\ live \subseteq Processes
  BY DEF VectorInv, State, TypedState, TheConfig
<1>2. PICK text \in Texts \cup {Absent} :
          \/ text \in Texts /\ Upsert(p, m, text)
          \/ text = Absent /\ Delete(p, m)
  OBVIOUS
<1>3. /\ UNCHANGED config /\ answer' = NoAnswer /\ p \in live
  BY <1>2 DEF Upsert, Delete, RemoteUpsert, RemoteDelete, PgWrite, SqliteWrite, InMemoryWrite,
              Written, Refused, Ready
<1>4. UNCHANGED <<kind, live, faulty, appends>> /\ IsOneIndex'
  BY <1>3 DEF config, IsOneIndex
<1>5. SeenAnswer' = Index!NoAnswer
  BY <1>3, <1>4, SeenAnswers
<1>6. SeenIndex \in [Ids -> Texts \cup {Absent}]
  <2>1. live # {}
    BY <1>3
  <2> QED
    BY <1>1, <2>1, SeenIsTyped
<1>7. ASSUME SeenIndex' = [SeenIndex EXCEPT ![m] = text] PROVE Index!Next
  <2>1. CASE text \in Texts
    <3>1. Index!Upsert(m, text)
      BY <1>5, <1>7 DEF Index!Upsert
    <3> QED
      BY <2>1, <3>1 DEF Index!Next
  <2>2. CASE text = Absent
    <3>1. Index!Delete(m)
      BY <1>5, <1>7, <2>2 DEF Index!Delete
    <3> QED
      BY <3>1 DEF Index!Next
  <2> QED
    BY <2>1, <2>2
<1>8. ASSUME Refused, kind \notin InMemory PROVE Index!Next
  <2>1. SeenIndex' = SeenIndex
    BY <1>3, <1>8, SeenIsKept DEF Refused
  <2> QED
    BY <1>5, <1>6, <2>1, DroppingIsAWrite
\* The new row is what the callers see of the id.
<1>9. ASSUME kind \notin InMemory, \A i \in Ids \ {m} : rows'[i] = rows[i],
             Newest(m)' = text
      PROVE  Index!Next
  <2>1. \A i \in Ids : Newest(i)' = IF i = m THEN text ELSE Newest(i)
    BY <1>9 DEF Newest
  <2>2. SeenIndex' = [i \in Ids |-> Newest(i)'] /\ SeenIndex = [i \in Ids |-> Newest(i)]
    BY <1>4, <1>9 DEF SeenIndex
  <2>3. SeenIndex' = [SeenIndex EXCEPT ![m] = text]
    BY <2>1, <2>2
  <2> QED
    BY <1>7, <2>3
<1>10. ASSUME kind \in Services,
              NEW archived \in BOOLEAN, NEW kept \in Texts \cup {Absent},
              Store(m, Row(kept, archived)),
              archived => text = Absent, ~archived => text = kept
       PROVE  Index!Next
  <2>1. kind \notin InMemory /\ kind \notin Unqueried
    BY <1>1, <1>10 DEF Services, InMemory, IsOneIndex, Sql, Unqueried
  <2>2. Row(kept, archived) \in Rows
    BY DEF Row, Rows
  <2>3. /\ rows'[m] # <<>> /\ rows'[m][Len(rows'[m])] = Row(kept, archived)
        /\ \A i \in Ids \ {m} : rows'[i] = rows[i]
    BY <1>1, <1>10, <2>1, <2>2, StoreMakesNewest DEF TypedState, TheRemote
  <2>4. Newest(m)' = text
    BY <1>10, <2>3 DEF Newest, Row
  <2> QED
    BY <1>9, <2>1, <2>3, <2>4
<1>11. CASE text \in Texts /\ RemoteUpsert(p, m, text)
  <2>1. kind \in Services /\ (Store(m, Row(text, FALSE)) \/ Refused)
    BY <1>11 DEF RemoteUpsert, Ready
  <2>2. kind \notin InMemory
    BY <2>1 DEF Services, InMemory
  <2> QED
    BY <1>8, <1>10, <2>1, <2>2
<1>12. CASE text = Absent /\ RemoteDelete(p, m)
  <2>1. kind \in Services /\ (Store(m, Row(vectors[p][m], TRUE)) \/ Refused)
    BY <1>12 DEF RemoteDelete, Ready
  <2>2. kind \notin InMemory
    BY <2>1 DEF Services, InMemory
  <2>3. vectors[p][m] \in Texts \cup {Absent}
    BY <1>1 DEF TypedState, TheLocal
  <2> QED
    BY <1>8, <1>10, <1>12, <2>1, <2>2, <2>3
<1>13. ASSUME NEW content, PgWrite(p, m, content, text) \/ SqliteWrite(p, m, content, text),
              \/ text \in Texts /\ content = <<Row(text, FALSE)>>
              \/ text = Absent /\ content = <<>>
       PROVE  Index!Next
  <2>1. kind \notin InMemory /\ (rows' = [rows EXCEPT ![m] = content] \/ Refused)
    BY <1>13 DEF PgWrite, SqliteWrite, Ready, InMemory
  <2>2. CASE Refused
    BY <1>8, <2>1, <2>2
  <2>3. CASE rows' = [rows EXCEPT ![m] = content]
    <3>1. rows'[m] = content /\ \A i \in Ids \ {m} : rows'[i] = rows[i]
      BY <1>1, <2>3 DEF TypedState, TheRemote
    <3>2. Newest(m)' = text
      <4>1. CASE text = Absent /\ content = <<>>
        BY <3>1, <4>1 DEF Newest
      <4>2. CASE text \in Texts /\ content = <<Row(text, FALSE)>>
        <5>1. /\ content # <<>> /\ content[Len(content)] = Row(text, FALSE)
              /\ Row(text, FALSE).text = text /\ Row(text, FALSE).archived = FALSE
          BY <4>2 DEF Row
        <5> QED
          BY <3>1, <5>1 DEF Newest
      <4> QED
        BY <1>13, <4>1, <4>2
    <3> QED
      BY <1>9, <2>1, <3>1, <3>2
  <2> QED
    BY <2>1, <2>2, <2>3
<1>14. CASE InMemoryWrite(p, m, text)
  <2>1. kind \in InMemory /\ vectors' = [vectors EXCEPT ![p][m] = text]
    BY <1>14 DEF InMemoryWrite, Ready
  <2>2. kind \notin Sql
    BY <2>1 DEF InMemory, Sql
  <2>3. PICK o \in Processes : live = {o}
    BY <1>1, <2>2, OneOwner DEF TypedState
  <2>4. p = o /\ live' = {o} /\ kind' \in InMemory /\ IsOneIndex /\ IsOneIndex'
    BY <1>3, <1>4, <2>1, <2>3
  <2>5. /\ \A i \in Ids : SeenIndex[i] = vectors[p][i]
        /\ \A i \in Ids : SeenIndex'[i] = vectors'[p][i]
        /\ SeenIndex' = [i \in Ids |-> SeenIndex'[i]]
    <3>1. \A i \in Ids : SeenIndex[i] = vectors[p][i]
      BY <2>1, <2>3, <2>4 DEF SeenIndex
    <3>2. \A i \in Ids : SeenIndex'[i] = vectors'[p][i]
      BY <2>4 DEF SeenIndex
    <3>3. SeenIndex' = [i \in Ids |-> SeenIndex'[i]]
      BY DEF SeenIndex
    <3> QED
      BY <3>1, <3>2, <3>3
  <2>6. \A i \in Ids : vectors'[p][i] = IF i = m THEN text ELSE vectors[p][i]
    BY <1>1, <2>1 DEF TypedState, TheLocal
  <2>7. SeenIndex' = [SeenIndex EXCEPT ![m] = text]
    BY <1>6, <2>5, <2>6
  <2> QED
    BY <1>7, <2>7
<1> QED
  <2>1. CASE text \in Texts /\ Upsert(p, m, text)
    BY <1>11, <1>13, <1>14, <2>1 DEF Upsert
  <2>2. CASE text = Absent /\ Delete(p, m)
    BY <1>12, <1>13, <1>14, <2>2 DEF Delete
  <2> QED
    BY <1>2, <2>1, <2>2

\* A backend starts as an empty index.
LEMMA InitIsIndexInit == Init => Index!Init
<1> SUFFICES ASSUME Init PROVE Index!Init
  OBVIOUS
<1>1. \A m \in Ids : Newest(m) = Absent
  BY DEF Init, Newest
<1>2. live # {} /\ live \subseteq Processes
  BY DEF Init
<1>3. (CHOOSE p \in live : TRUE) \in Processes
  BY <1>2
<1>4. \A m \in Ids : vectors[CHOOSE p \in live : TRUE][m] = Absent
  BY <1>3 DEF Init
<1>5. SeenIndex = [m \in Ids |-> Absent]
  BY <1>1, <1>4 DEF SeenIndex
<1>6. SeenAnswer = Index!NoAnswer
  BY DEF Init, SeenAnswer, NoAnswer, Index!NoAnswer
<1> QED
  BY <1>5, <1>6 DEF Index!Init

\* Every step is one of the index, or none that its callers see.
LEMMA NextIsIndexNext ==
    VectorInv /\ [Next]_vars => [Index!Next]_Index!vars
<1> SUFFICES ASSUME VectorInv, [Next]_vars PROVE [Index!Next]_Index!vars
  OBVIOUS
<1>1. UNCHANGED config
  <2>1. CASE UNCHANGED vars
    BY <2>1 DEF vars, config
  <2>2. ASSUME NEW p \in Processes, Connect(p) PROVE UNCHANGED config
    BY <2>2, ConnectKeepsInv DEF OnlyConnects
  <2>3. ASSUME NEW p \in Processes, Restart(p) PROVE UNCHANGED config
    BY <2>3 DEF Restart
  <2>4. ASSUME NEW p \in Processes, NEW m \in Ids, (\E t \in Texts : Upsert(p, m, t)) \/ Delete(p, m)
        PROVE  UNCHANGED config
    BY <2>4 DEF Upsert, Delete, RemoteUpsert, RemoteDelete, PgWrite, SqliteWrite,
                InMemoryWrite, Written, Refused
  <2>5. ASSUME NEW p \in Processes, NEW q \in Texts, NEW n \in Limits, Search(p, q, n)
        PROVE  UNCHANGED config
    BY <2>5, SearchKeepsAnswer DEF VectorInv
  <2> QED
    BY <2>1, <2>2, <2>3, <2>4, <2>5 DEF Next
<1>2. UNCHANGED <<kind, live, faulty, appends>> /\ (IsOneIndex' <=> IsOneIndex)
  BY <1>1 DEF config, IsOneIndex
<1>3. CASE ~IsOneIndex
  <2>1. SeenIndex' = SeenIndex /\ SeenAnswer' = SeenAnswer
    BY <1>2, <1>3 DEF SeenIndex, SeenAnswer
  <2> QED
    BY <2>1 DEF Index!vars
<1>4. ASSUME IsOneIndex, UNCHANGED <<rows, vectors, answer>>
      PROVE  UNCHANGED Index!vars
  <2>1. SeenIndex' = SeenIndex
    BY <1>1, <1>4, SeenIsKept
  <2>2. SeenAnswer' = SeenAnswer
    BY <1>2, <1>4 DEF SeenAnswer
  <2> QED
    BY <2>1, <2>2 DEF Index!vars
<1>5. CASE IsOneIndex /\ UNCHANGED vars
  BY <1>4, <1>5 DEF vars
<1>6. ASSUME IsOneIndex, NEW p \in Processes, Connect(p) PROVE UNCHANGED Index!vars
  <2>1. UNCHANGED <<rows, vectors, answer>>
    BY <1>6, ConnectKeepsInv DEF OnlyConnects, local
  <2> QED
    BY <1>4, <1>6, <2>1
<1>7. ASSUME IsOneIndex, NEW p \in Processes, Restart(p) PROVE Index!Next
  <2>1. p \in live /\ kind \notin InMemory /\ answer' = NoAnswer /\ UNCHANGED rows
    BY <1>7 DEF Restart, remote
  <2>2. SeenIndex' = SeenIndex
    BY <1>1, <2>1, SeenIsKept
  <2>3. SeenAnswer' = Index!NoAnswer
    BY <1>2, <1>7, <2>1, SeenAnswers
  <2>4. SeenIndex \in [Ids -> Texts \cup {Absent}]
    <3>1. TypedState /\ live # {}
      BY <2>1 DEF VectorInv, State, TypedState
    <3> QED
      BY <3>1, SeenIsTyped
  <2> QED
    BY <2>2, <2>3, <2>4, DroppingIsAWrite
<1>8. ASSUME IsOneIndex, NEW p \in Processes, NEW q \in Texts, NEW n \in Limits,
             Search(p, q, n)
      PROVE  Index!Next
  <2>1. PICK hits \in Seq(Ids), complete \in BOOLEAN :
            Answered(p, q, n, hits, complete) /\ Best(q, n, hits, complete)
    <3>1. BestOutcome(p, q, n)
      BY <1>8, SearchIsBest
    <3> QED
      BY <3>1 DEF BestOutcome
  <2>2. UNCHANGED <<config, rows, vectors>>
    BY <2>1 DEF Answered, remote, local
  <2>3. SeenIndex' = SeenIndex
    BY <2>2, SeenIsKept
  <2>4. SeenAnswer' = [query |-> q, limit |-> n, hits |-> hits, complete |-> complete]
    <3>1. /\ answer'.query = q /\ answer'.limit = n /\ answer'.hits = hits
          /\ answer'.complete = complete
      BY <2>1 DEF Answered
    <3> QED
      BY <1>2, <1>8, <3>1 DEF SeenAnswer
  <2>5. CASE complete
    <3>1. Index!Answered(q, n, hits, TRUE)
      BY <2>4, <2>5 DEF Index!Answered
    <3>2. Index!Search(q, n)
      BY <2>1, <2>3, <2>5, <3>1 DEF Best, Index!Search
    <3> QED
      BY <3>2 DEF Index!Next
  <2>6. CASE ~complete
    <3>1. Index!Answered(q, n, hits, FALSE)
      BY <2>4, <2>6 DEF Index!Answered
    <3>2. Index!PartialSearch(q, n)
      BY <2>1, <2>3, <2>6, <3>1 DEF Best, Index!PartialSearch
    <3> QED
      BY <3>2 DEF Index!Next
  <2> QED
    BY <2>5, <2>6
<1>9. ASSUME IsOneIndex, NEW p \in Processes, NEW m \in Ids,
             (\E t \in Texts : Upsert(p, m, t)) \/ Delete(p, m)
      PROVE  Index!Next
  BY <1>9, WriteIsAWrite
<1>10. CASE IsOneIndex /\ Next
  BY <1>6, <1>7, <1>8, <1>9, <1>10 DEF Next
<1> QED
  BY <1>3, <1>5, <1>10

\* A database, and a service or an index in memory with one owner that is never
\* refused a write, is one index for its callers: every complete answer is the
\* best of the whole index, every other one the best of a part of it.
THEOREM VectorsRefineIndex == Spec => RefinesIndex
<1>1. Init => Index!Init
  BY InitIsIndexInit
<1>2. VectorInv /\ [Next]_vars => [Index!Next]_Index!vars
  BY NextIsIndexNext
<1> QED
  BY <1>1, <1>2, InitInv, NextKeepsInv, PTL DEF Spec, RefinesIndex, Index!Spec
=============================================================================
