------------------------------ MODULE MCStartup ------------------------------
(* Small instances of Startup. *)
EXTENDS Startup

EntryPoint(providers, broken) == [providers |-> providers, broken |-> broken]

\* Third parties: a memory backend of their own, a backend under one of cellin's
\* names, several at once, and one that cannot be loaded.
AcmeMemory == Provider("memory", "acme", "acme")
AcmeGraph == Provider("graph", "sqlite", "acme")
AcmeVector == Provider("vector", "acme", "acme")

MCDistributions ==
    {<<>>,
     <<EntryPoint(<<AcmeMemory>>, FALSE)>>,
     <<EntryPoint(<<AcmeGraph, AcmeVector>>, FALSE)>>,
     <<EntryPoint(<<>>, TRUE), EntryPoint(<<AcmeMemory>>, FALSE)>>,
     <<EntryPoint(<<AcmeVector>>, FALSE), EntryPoint(<<AcmeGraph>>, FALSE)>>}

MCApplications == {<<AcmeMemory>>, <<AcmeVector, AcmeGraph, AcmeMemory>>}

MCRoleChoices == {RoleNames, {"graph"}, {"memory", "vector"}}

\* cellin.json with no storage, with the old path only, and with sections.
Sections(memory, graph, vector) ==
    [role \in RoleNames |-> CASE role = "memory" -> memory [] role = "graph" -> graph
                              [] OTHER -> vector]

MCWorkspaces ==
    {[legacy |-> Absent, storage |-> Absent],
     [legacy |-> "old.sqlite", storage |-> Absent],
     [legacy |-> Absent,
      storage |-> Sections(Backend("sqlite", Absent), Absent, Backend(Absent, Absent))],
     [legacy |-> "old.sqlite",
      storage |-> Sections(Backend("sqlite", Absent), Backend("sqlite", "graph.sqlite"),
                           Backend("sqlite_vec", Absent))],
     [legacy |-> Absent,
      storage |-> Sections(Backend("acme", Absent), Backend("neo4j", "bolt://host"),
                           Backend("acme", Absent))]}
=============================================================================
