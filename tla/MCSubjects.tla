----------------------------- MODULE MCSubjects -----------------------------
(* Small instances of Subjects. *)
EXTENDS Subjects, TLC

CONSTANTS v1, v2, s1, s2

\* What a server's environment may choose; and, for the registry as a library, a
\* mix of two local files and mixes with remote services.
MCDeployments ==
    {StorageConfigFromEnv(b) : b \in {"sqlite", "in_memory", "neo4j", "postgresql"}}
    \cup {Backends("duckdb", "sqlite", "sqlite_vec"),
          Backends("sqlite", "mongodb", "qdrant"),
          Backends("mongodb", "duckdb", "pinecone"),
          Backends("mysql", "sqlite", "in_memory_vector_index")}

Symmetric == Permutations(Servers) \cup Permutations(Subjects)
=============================================================================
