---------------------------- MODULE VectorIndex ----------------------------
(***************************************************************************)
(* What cellin.core.contracts.VectorStore promises its callers, whatever   *)
(* the backend: one index from memory ids to vectors, and searches that    *)
(* return the best matches of the whole index, best first.                 *)
(*                                                                         *)
(* A vector is the text it was computed from (vectorize is deterministic); *)
(* the similarity of a query to a text is 1 when they are the same text    *)
(* and 0 otherwise, which is enough to tell a stale vector and a wrong     *)
(* order apart.                                                            *)
(***************************************************************************)
EXTENDS Integers, Sequences, FiniteSets

CONSTANTS Ids,     \* memory ids: naturals, in the order of the strings
          Texts,   \* what is indexed and asked for
          Limits,  \* the limits searches are called with
          Absent   \* in place of a text: not indexed

VARIABLES index,  \* what is indexed: the text of every id, or Absent
          answer  \* the last search since the index changed

vars == <<index, answer>>

-----------------------------------------------------------------------------
\* Rounded cosine similarity of a query and an indexed text.
Similarity(query, text) == IF query = text THEN 1 ELSE 0

\* Results without repetition.
Orders ==
    {s \in UNION {[1..n -> Ids] : n \in 0..Cardinality(Ids)} :
        \A i, j \in DOMAIN s : s[i] = s[j] => i = j}

\* hits are n ids of content (all of them if there are fewer), best first, and
\* no id left out scores higher.  Ties may be broken either way.
IsBest(hits, content, query, n) ==
    LET indexed == {m \in Ids : content[m] # Absent}
        found == {hits[i] : i \in DOMAIN hits}
        Score(m) == Similarity(query, content[m])
    IN  /\ found \subseteq indexed
        /\ Len(hits) = IF n < Cardinality(indexed) THEN n ELSE Cardinality(indexed)
        /\ \A i, j \in DOMAIN hits : i < j => Score(hits[i]) >= Score(hits[j])
        /\ \A i \in DOMAIN hits, m \in indexed \ found : Score(hits[i]) >= Score(m)

\* complete is FALSE when the remote service could not be asked.
NoAnswer == [query |-> Absent, limit |-> 0, hits |-> <<>>, complete |-> TRUE]
Answers == [query : Texts \cup {Absent}, limit : Limits \cup {0},
            hits : Orders, complete : BOOLEAN]

-----------------------------------------------------------------------------
TypeOK ==
    /\ index \in [Ids -> Texts \cup {Absent}]
    /\ answer \in Answers

Init ==
    /\ index = [m \in Ids |-> Absent]
    /\ answer = NoAnswer

Upsert(m, t) ==
    /\ index' = [index EXCEPT ![m] = t]
    /\ answer' = NoAnswer

Delete(m) ==
    /\ index' = [index EXCEPT ![m] = Absent]
    /\ answer' = NoAnswer

Answered(query, n, hits, complete) ==
    answer' = [query |-> query, limit |-> n, hits |-> hits, complete |-> complete]

\* An answer from the whole index.
Search(query, n) ==
    /\ \E hits \in Orders :
          /\ IsBest(hits, index, query, n)
          /\ Answered(query, n, hits, TRUE)
    /\ UNCHANGED index

\* The remote service did not answer, or only without the filter: the best of
\* a part of the index, and nothing that is not indexed.
PartialSearch(query, n) ==
    /\ \E part \in SUBSET Ids, hits \in Orders :
          /\ IsBest(hits, [m \in Ids |-> IF m \in part THEN index[m] ELSE Absent],
                    query, n)
          /\ Answered(query, n, hits, FALSE)
    /\ UNCHANGED index

Next ==
    \/ \E m \in Ids, t \in Texts : Upsert(m, t)
    \/ \E m \in Ids : Delete(m)
    \/ \E q \in Texts, n \in Limits : Search(q, n) \/ PartialSearch(q, n)

Spec == Init /\ [][Next]_vars
=============================================================================
