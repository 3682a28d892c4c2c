----------------------------- MODULE MCDreaming -----------------------------
(***************************************************************************)
(* Small instances of Dreaming: atoms of one topic, and the summaries that *)
(* topic can get, whose ids follow those of the atoms.                     *)
(***************************************************************************)
EXTENDS Dreaming

TwoAtoms == {1, 2}
ThreeAtoms == {1, 2, 3}
MCSummaryId == [k \in Topics \X (0 .. MaxTime) |-> 4 + k[2]]
MCTopicOf ==
    [i \in Atoms \union {4 + t : t \in 0 .. MaxTime} |-> CHOOSE t \in Topics : TRUE]

BothWays(S) == S \union {<<p[2], p[1]>> : p \in S}

FirstTwo == BothWays({<<1, 2>>})
Chain == BothWays({<<1, 2>>, <<2, 3>>})
NoPairs == {}

ObservedTogether == [i \in Atoms |-> 0]
EqualTrust == [i \in Atoms |-> 60]
EqualSalience == [i \in Atoms |-> 50]
NoHalfLife == [i \in Atoms |-> Null]
OneHalfLife == [i \in Atoms |-> IF i = 2 THEN 0 ELSE Null]
=============================================================================
