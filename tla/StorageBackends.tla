--------------------------- MODULE StorageBackends ---------------------------
(***************************************************************************)
(* The storage backend registry of a process (cellin.runtime.storage) and  *)
(* what is resolved from it.  Providers come from cellin's own table, from *)
(* the entry points of installed distributions and from the application;   *)
(* the first one registered for a role and a name stays.                   *)
(***************************************************************************)
EXTENDS Integers, Sequences

CONSTANTS Distributions, \* what may be installed: sequences of entry points
          Applications,  \* the sequences of providers an application registers
          Workspaces,    \* the "storage" sections of cellin.json, as written
          RoleChoices,   \* the sets of roles `cellin storage init` is called with
          Absent

VARIABLES installed,   \* the entry points of the group cellin.storage
          backends,    \* _BACKEND_REGISTRY
          entered,     \* how the process first used the registry, or Absent
          listed,      \* what `cellin storage list` last printed, or Absent
          prepared     \* the last setup or build: the stores opened, and success

storageVars == <<installed, backends, entered, listed, prepared>>

\* The order of the roles in every loop over them.
Roles == <<"memory", "graph", "vector", "representation">>
RoleNames == {Roles[i] : i \in DOMAIN Roles}

Provider(role, backend, by) == [role |-> role, backend |-> backend, by |-> by]

Providers == [role : RoleNames, backend : STRING, by : STRING]

\* Third parties have providers of their own, in whatever order.
ASSUME ProvidersAreThirdParty ==
    /\ Distributions \subseteq Seq([providers : Seq(Providers), broken : BOOLEAN])
    /\ Applications \subseteq Seq(Providers)
    /\ \A d \in Distributions : \A i \in DOMAIN d : \A k \in DOMAIN d[i].providers :
          d[i].providers[k].by # "cellin"
    /\ \A a \in Applications : \A i \in DOMAIN a : a[i].by # "cellin"
ASSUME RolesAreChosen == \A roles \in RoleChoices : roles \subseteq RoleNames
ASSUME AbsentIsNoName ==
    Absent \notin {"register", "list", "initialize", "sqlite", "cellin.sqlite"}

\* The outcome of a call: the registry it leaves, and whether it returned.
Result(reg, ok) == [reg |-> reg, ok |-> ok]

-----------------------------------------------------------------------------
\* _BUILTIN_BACKENDS, in its order.
RelationalNames == <<"duckdb", "in_memory", "mongodb", "mysql", "postgresql", "redis", "sqlite">>
GraphNames == <<"arangodb", "duckdb", "in_memory", "memgraph", "mongodb", "mysql", "neo4j",
                "postgresql", "redis", "sqlite">>
VectorNames == <<"in_memory_vector_index", "milvus", "pgvector", "pinecone", "qdrant",
                 "redis_vector", "sqlite_vec", "weaviate">>

Table(role, names) == [i \in DOMAIN names |-> Provider(role, names[i], "cellin")]

BuiltinBackends ==
    Table("memory", RelationalNames) \o Table("graph", GraphNames)
        \o Table("vector", VectorNames) \o Table("representation", VectorNames)

Builtins == {BuiltinBackends[i] : i \in DOMAIN BuiltinBackends}

\* The backends that connect to something: their builder raises without a path.
Durable(backend) == backend \notin {"in_memory", "in_memory_vector_index"}

-----------------------------------------------------------------------------
HasRole(reg, role) == \E q \in reg : q.role = role
Registered(reg, role, backend) == \E q \in reg : q.role = role /\ q.backend = backend

\* Fault: a name that is taken is given out again.
NeverClashes(q, p) == FALSE

\* Provider q has the name that another provider p asks for.
Clashes(q, p) == q # p /\ q.role = p.role /\ q.backend = p.backend

\* register_storage_backends: a provider registered before is left alone, the first
\* one whose name is taken, in the registry or by one before it, is an error.
RegisterAll(reg, providers) ==
    LET refused == {i \in DOMAIN providers :
                      \E q \in reg \cup {providers[j] : j \in 1..i - 1} : Clashes(q, providers[i])}
        done == {i \in DOMAIN providers : \A j \in refused : i < j}
    IN Result(reg \cup {providers[i] : i \in done}, refused = {})

\* _register_builtin_backends takes any provider of the memory role for its own.
RegisterBuiltins(reg) ==
    IF HasRole(reg, "memory") THEN Result(reg, TRUE) ELSE RegisterAll(reg, BuiltinBackends)

\* load_storage_backends_from_entry_points: a target of another type (or one that
\* cannot be imported) ends it, a provider whose name is taken is passed over.
LoadEntryPoints(reg) ==
    LET loaded == {i \in DOMAIN installed : \A j \in 1..i : ~installed[j].broken}
        offers == UNION {{i} \X DOMAIN installed[i].providers : i \in loaded}
        Of(o) == installed[o[1]].providers[o[2]]
        before(o) == {Of(n) : n \in {n \in offers : n[1] < o[1] \/ (n[1] = o[1] /\ n[2] < o[2])}}
        free == {o \in offers : \A q \in reg \cup before(o) : ~Clashes(q, Of(o))}
    IN Result(reg \cup {Of(o) : o \in free}, loaded = DOMAIN installed)

\* Fault: third parties come before cellin's own table.
InitializeLast(reg) ==
    LET loaded == LoadEntryPoints(reg)
    IN IF loaded.ok THEN RegisterBuiltins(loaded.reg) ELSE loaded

\* initialize_storage_backends
Initialize(reg) ==
    LET own == RegisterBuiltins(reg)
    IN IF own.ok THEN LoadEntryPoints(own.reg) ELSE own

-----------------------------------------------------------------------------
\* A role's section of cellin.json is Absent, or has a backend or Absent, and a
\* path or Absent; legacy is the workspace's old database_path, or Absent.
Backend(name, path) == [backend |-> name, path |-> path]

\* Fault: a section without a name or a path is taken as it is.
CoerceWithoutFallback(section, default, fallback) ==
    IF section = Absent THEN Backend(default, Absent) ELSE section

\* _coerce_storage_role
CoerceRole(section, default, fallback) ==
    IF section = Absent THEN Backend(default, Absent)
    ELSE LET name == IF section.backend = Absent THEN default ELSE section.backend
         IN Backend(name, IF name = "sqlite" /\ section.path = Absent THEN fallback
                          ELSE section.path)

\* _coerce_storage_config and the presets of StorageConfig
CoerceStorage(workspace) ==
    LET fallback == IF workspace.legacy = Absent THEN "cellin.sqlite" ELSE workspace.legacy
        index == Backend("in_memory_vector_index", Absent)
        Default(role) == IF role \in {"memory", "graph"} THEN "in_memory"
                         ELSE "in_memory_vector_index"
    IN [role \in RoleNames |->
          IF workspace.storage # Absent
          THEN CoerceRole(workspace.storage[role], Default(role), fallback)
          ELSE IF role \in {"vector", "representation"} THEN index
          ELSE IF workspace.legacy # Absent THEN Backend("sqlite", workspace.legacy)
          ELSE Backend("in_memory", Absent)]

\* Whether a role's store can be opened: a provider by the name, and for one of
\* cellin's durable backends a path or connection string.
Opens(reg, role, config) ==
    \E p \in reg :
        /\ p.role = role /\ p.backend = config.backend
        /\ p.by = "cellin" /\ Durable(p.backend) => config.path # Absent

\* Roles are opened in order, up to the first that raises.
OpenInOrder(reg, workspace, roles) ==
    LET storage == CoerceStorage(workspace)
        chosen == {i \in DOMAIN Roles : Roles[i] \in roles}
        raising == {i \in chosen : ~Opens(reg, Roles[i], storage[Roles[i]])}
        opened == {i \in chosen : \A j \in raising : i < j}
    IN [workspace |-> workspace, roles |-> roles,
        opened |-> {Roles[i] : i \in opened}, ok |-> raising = {}]

NothingPrepared == [workspace |-> Absent, roles |-> {}, opened |-> {}, ok |-> FALSE]

-----------------------------------------------------------------------------
Entered(how) == entered' = IF entered = Absent THEN how ELSE entered

\* An application registers its own providers.
RegisterStorageBackends(providers) ==
    /\ backends' = RegisterAll(backends, providers).reg
    /\ Entered("register")
    /\ listed' = Absent
    /\ prepared' = NothingPrepared
    /\ UNCHANGED installed

\* cmd_storage_list: entry points first, whose TypeErrors and ValueErrors are
\* dropped, then list_storage_backends; one that cannot be imported ends the command.
StorageList ==
    LET loaded == LoadEntryPoints(backends)
        own == RegisterBuiltins(loaded.reg)
    IN  /\ \/ /\ backends' = own.reg
              /\ listed' = IF own.ok THEN own.reg ELSE Absent
           \/ ~loaded.ok /\ backends' = loaded.reg /\ listed' = Absent
        /\ Entered("list")
        /\ prepared' = NothingPrepared
        /\ UNCHANGED installed

\* setup_storage_backends of chosen roles, and of one backend if one is named.
SetupStorageBackends(workspace, roles, filter, dryRun) ==
    LET init == Initialize(backends)
        chosen == {r \in roles :
                     filter \in {Absent, CoerceStorage(workspace)[r].backend}}
    IN  /\ backends' = init.reg
        /\ prepared' = IF ~init.ok \/ dryRun THEN NothingPrepared
                       ELSE OpenInOrder(init.reg, workspace, chosen)
        /\ Entered("initialize")
        /\ listed' = Absent
        /\ UNCHANGED installed

\* build_storage_bundle
BuildStorageBundle(workspace) ==
    LET init == Initialize(backends)
    IN  /\ backends' = init.reg
        /\ prepared' = IF init.ok THEN OpenInOrder(init.reg, workspace, RoleNames)
                       ELSE NothingPrepared
        /\ Entered("initialize")
        /\ listed' = Absent
        /\ UNCHANGED installed

\* The process ends; the next one may find other distributions installed.
StorageExit ==
    /\ entered # Absent
    /\ installed' \in Distributions
    /\ backends' = {}
    /\ entered' = Absent
    /\ listed' = Absent
    /\ prepared' = NothingPrepared

StorageInit ==
    /\ installed \in Distributions
    /\ backends = {}
    /\ entered = Absent
    /\ listed = Absent
    /\ prepared = NothingPrepared

StorageNext ==
    \/ \E providers \in Applications : RegisterStorageBackends(providers)
    \/ StorageList
    \/ \E w \in Workspaces, roles \in RoleChoices, filter \in {Absent, "sqlite"},
          dryRun \in BOOLEAN : SetupStorageBackends(w, roles, filter, dryRun)
    \/ \E w \in Workspaces : BuildStorageBundle(w)
    \/ StorageExit

-----------------------------------------------------------------------------
StorageTypeOK ==
    /\ installed \in Distributions
    /\ \A p \in backends : p.role \in RoleNames
    /\ \A p, q \in backends : p.role = q.role /\ p.backend = q.backend => p = q
    /\ entered \in {Absent, "register", "list", "initialize"}
    /\ listed \in {Absent, backends}
    /\ prepared.opened \subseteq prepared.roles /\ prepared.roles \subseteq RoleNames

\* A third party's provider under one of cellin's own names.
NameTaken == \E p \in backends \ Builtins : Registered(Builtins, p.role, p.backend)

\* Every backend of cellin is there, whatever is installed, once a bundle was built
\* or set up in a process that did nothing with the registry before; and where
\* only some of them are there, another provider has the name of one that is not.
BuiltinsAreComplete ==
    /\ entered = "initialize" => Builtins \subseteq backends
    /\ Builtins \cap backends \in {{}, Builtins} \/ NameTaken

\* A workspace builds, and can be set up, when every backend it names is known
\* and, unless it is sqlite, has the path it needs: files of the old format, missing
\* sections and sections without a name or a path included.
WorkspacesBuild ==
    LET written == IF prepared.workspace = Absent THEN Absent ELSE prepared.workspace.storage
        Sound(role) ==
            \/ written = Absent \/ written[role] = Absent
            \/ written[role].backend = Absent
            \/ /\ Registered(backends, role, written[role].backend)
               /\ Durable(written[role].backend) /\ written[role].backend # "sqlite"
                     => written[role].path # Absent
    IN  (/\ entered = "initialize" /\ prepared.workspace # Absent
         /\ \A role \in RoleNames : Sound(role)) => prepared.ok

\* `cellin storage list` shows the built-in backends (README.md:134).
ListShowsBuiltins == listed # Absent => Builtins \subseteq listed
=============================================================================
