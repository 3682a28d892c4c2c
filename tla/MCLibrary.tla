----------------------------- MODULE MCLibrary -----------------------------
(* Small instances of Library. *)
EXTENDS Library

CONSTANTS x, y, topic, chat, text, scan

MCIds == 1..3
MCTexts == {{x}, {y}, {x, y}}
MCQueries == {{x}}

Envelope(m, words, t, c, cause) ==
    [id |-> m, text |-> words, modality |-> text, topic |-> t, conversation |-> c,
     causedBy |-> cause]

\* One batch whose topic and cause make two edges between the same memories, one
\* that names a memory twice, one that gives a memory another text and a second
\* edge of the same kind, one with an edge to a memory that may never come, and one
\* that no adapter takes.
MCBatches ==
    {<<Envelope(1, {x}, topic, Absent, Absent), Envelope(2, {x, y}, topic, Absent, 1)>>,
     <<Envelope(1, {y}, topic, chat, Absent), Envelope(3, {x}, topic, chat, Absent)>>,
     <<Envelope(2, {y}, topic, Absent, Absent), Envelope(2, {x}, topic, Absent, 3)>>,
     <<[Envelope(1, {x}, Absent, Absent, Absent) EXCEPT !.modality = scan]>>}

Stored(memory, graph, represents, writesBack) ==
    [memory |-> memory, graph |-> graph, represents |-> represents,
     writesBack |-> writesBack]

MCDeployments ==
    {Stored("postgres", "postgres", TRUE, TRUE),
     Stored("mysql", "mysql", FALSE, FALSE),
     Stored("redis", "redis", FALSE, TRUE),
     Stored("duckdb", "cypher", FALSE, TRUE),
     Stored("mongodb", "arangodb", FALSE, TRUE)}
=============================================================================
