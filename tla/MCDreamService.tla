--------------------------- MODULE MCDreamService ---------------------------
(***************************************************************************)
(* Small instances of DreamService.                                        *)
(***************************************************************************)
EXTENDS DreamService

ThreeAtoms == {1, 2, 3}
MCSummaryId == [k \in Topics \X (0 .. MaxTime) |-> 4 + k[2]]
MCTopicOf == [i \in Atoms \union {4 + t : t \in 0 .. MaxTime} |-> CHOOSE t \in Topics : TRUE]

BothWays(S) == S \union {<<p[2], p[1]>> : p \in S}

AllPairs == BothWays({<<1, 2>>, <<1, 3>>, <<2, 3>>})
FirstTwo == BothWays({<<1, 2>>})
LastWithFirst == BothWays({<<1, 3>>})
LastWithBoth == BothWays({<<1, 3>>, <<2, 3>>})

ObservedTogether == [i \in Atoms |-> 0]
ObservedBackwards == [i \in Atoms |-> 3 - i]
EqualTrust == [i \in Atoms |-> 60]
LowTrust == [i \in Atoms |-> 45]
EqualSalience == [i \in Atoms |-> 50]
NoHalfLife == [i \in Atoms |-> Null]
OneHalfLife == [i \in Atoms |-> IF i = 3 THEN 0 ELSE Null]
=============================================================================
