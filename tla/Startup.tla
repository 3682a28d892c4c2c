------------------------------ MODULE Startup ------------------------------
(***************************************************************************)
(* What a process of cellin does before it works on memories: it resolves  *)
(* its features, loads plugins, and resolves its workspace's storage.  The *)
(* registries of the process start empty; what is installed, the feature   *)
(* registry in the source and the release lock beside it outlive it.       *)
(* The three parts share nothing, so a behaviour looks at one of them.     *)
(***************************************************************************)
EXTENDS StorageBackends, Plugins, Features

CONSTANTS Names,   \* of features
          MaxCode  \* bound: the codes given out to feature flags

ASSUME MaxCodeIsNatural == MaxCode \in Nat
ASSUME FailedIsNoResult == \A codes \in SUBSET (1..MaxCode) : Failed \notin [codes -> BOOLEAN]

VARIABLES part,     \* what a behaviour looks at
          flags,    \* REGISTRY, as committed
          lock,     \* defaultOn of features.release.lock.json
          context   \* what a process resolved its features to, or NoContext

featureVars == <<flags, lock, context>>
vars == <<part, storageVars, pluginVars, featureVars>>

NoContext == [config |-> Overrides({}, {}), cli |-> Overrides({}, {}),
              channel |-> "none", result |-> Failed]

-----------------------------------------------------------------------------
Commit(registry) ==
    /\ context = NoContext
    /\ ValidRegistry(registry)
    /\ flags' = registry
    /\ UNCHANGED context

\* scripts/add_feature_flag.py
AddFlag(name) ==
    LET updated == AddFeatureFlag(flags, name)
    IN  /\ context = NoContext
        /\ NextFeatureCode(flags) <= MaxCode
        /\ updated # Failed
        /\ Commit(updated)
        /\ UNCHANGED lock

\* The registry's other edits are made by hand and pass check_feature_registry.py.
EditFlag(i, lifecycle) ==
    Commit([flags EXCEPT ![i].lifecycle = lifecycle]) /\ UNCHANGED lock

RemoveFlag(i) == Commit(RemoveAt(flags, i)) /\ UNCHANGED lock

WriteLock(codes) ==
    /\ context = NoContext
    /\ LoadLock(flags, codes, {}) # Failed
    /\ lock' = codes
    /\ UNCHANGED <<flags, context>>

\* Every command resolves its features first, and goes no further on an error.  It
\* does not read the lock: resolve_features is called without one.
ResolveFeatureContext(channel, config, cli) ==
    /\ context = NoContext /\ lock = {}
    /\ context' = [channel |-> channel, config |-> config, cli |-> cli,
                   result |-> FeatureContext(flags, channel, config, cli)]
    /\ UNCHANGED <<flags, lock>>

FeatureNext ==
    \/ \E name \in Names : AddFlag(name)
    \/ \E i \in DOMAIN flags : RemoveFlag(i) \/ \E l \in Lifecycles : EditFlag(i, l)
    \/ \E codes \in SUBSET (1..MaxCode) : WriteLock(codes)
    \/ \E channel \in Channels :
          \E on1, off1, on2, off2 \in SUBSET Names :
             ResolveFeatureContext(channel, Overrides(on1, off1), Overrides(on2, off2))

-----------------------------------------------------------------------------
FeatureInit == flags = <<>> /\ lock = {} /\ context = NoContext

Init ==
    /\ StorageInit /\ PluginInit /\ FeatureInit
    /\ part \in {"storage", "plugins", "features"}
    /\ part # "storage" => installed = <<>>
    /\ part # "plugins" => discovered = <<>> /\ \A p \in AllPlugins : behaviour[p] = "sound"

Next ==
    /\ \/ part = "storage" /\ StorageNext /\ UNCHANGED <<pluginVars, featureVars>>
       \/ part = "plugins" /\ PluginNext /\ UNCHANGED <<storageVars, featureVars>>
       \/ part = "features" /\ FeatureNext /\ UNCHANGED <<storageVars, pluginVars>>
    /\ UNCHANGED part

Spec == Init /\ [][Next]_vars

-----------------------------------------------------------------------------
TypeOK ==
    /\ StorageTypeOK
    /\ PluginTypeOK
    /\ ValidRegistry(flags) /\ Codes(flags) \subseteq 1..MaxCode
    /\ lock \subseteq 1..MaxCode

\* What each override decides on its own.
Decided(flag, channel, names, otherwise) ==
    IF flag.name \in names.enable THEN TRUE
    ELSE IF flag.name \in names.disable THEN FALSE
    ELSE otherwise

\* The command line has the last word on a feature, the workspace's file the one
\* before it, the channel the first; and features are resolved whenever each of the
\* two is sound by itself, however they contradict each other.
CommandLineHasTheLastWord ==
    context # NoContext =>
        /\ (context.result = Failed) <=>
              (~ValidNames(flags, context.config) \/ ~ValidNames(flags, context.cli))
        /\ context.result # Failed => \A i \in DOMAIN flags :
              context.result[flags[i].code] =
                 Decided(flags[i], context.channel, context.cli,
                         Decided(flags[i], context.channel, context.config,
                                 Default(flags[i], context.channel)))

\* Whether the notes of a build name as on by default what the resolver turns on
\* with the same lock and no overrides.
NotesAgree(channel) ==
    LET loaded == LoadLock(flags, lock, {})
        resolved == IF loaded = Failed THEN Failed
                    ELSE Resolve(flags, channel, loaded, Overrides({}, {}))
    IN resolved # Failed =>
          {c \in Codes(flags) : resolved[c]} = ReportedOn(flags, channel, lock)

\* The notes of a release, and of a development build, name the features that are on
\* by default; a lock that no longer fits the registry is refused by both.  Nothing
\* is said of rolling builds: see RollingNotesAreTrue.
ReleaseNotesAreTrue == NotesAgree("release") /\ NotesAgree("dev")

\* `Rolling builds set CELLIN_RELEASE_CHANNEL=rolling, so all registered flags are
\* enabled by default` (docs/features.md:20-21): the notes of a rolling build name
\* no feature as one to opt into.
RollingNotesAreTrue == NotesAgree("rolling")

\* A feature is in the state its sources - registry, lock, workspace and command
\* line - give it, for the process and for the reader of a release's notes.
FeaturesAreAsStated == CommandLineHasTheLastWord /\ ReleaseNotesAreTrue
=============================================================================
