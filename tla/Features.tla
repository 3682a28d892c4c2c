------------------------------ MODULE Features ------------------------------
(***************************************************************************)
(* Feature flags (cellin.features): a registry of flags, a release         *)
(* channel's defaults, the release lock and the overrides by name, and     *)
(* what the command line makes of a workspace's own overrides.  Every      *)
(* operator is a pure function of the code; Failed stands for ValueError.  *)
(***************************************************************************)
EXTENDS Integers, Sequences, FiniteSets

CONSTANT Failed

Lifecycles == {"preview", "stable", "done"}
Channels == {"release", "dev", "rolling"}

\* FeatureFlag; the code is the number in CELN-FEAT-nnnn.
Flag(code, name, lifecycle) == [code |-> code, name |-> name, lifecycle |-> lifecycle]

\* enable and disable of a workspace, of a command line or of both
Overrides(enable, disable) == [enable |-> enable, disable |-> disable]

\* validate_registry: codes are unique, and so are the names of flags in use.
ValidRegistry(registry) ==
    \A i, j \in DOMAIN registry : i # j =>
        /\ registry[i].code # registry[j].code
        /\ registry[i].name = registry[j].name
              => "done" \in {registry[i].lifecycle, registry[j].lifecycle}

Codes(registry) == {registry[i].code : i \in DOMAIN registry}
FlagOf(registry, code) == CHOOSE f \in {registry[i] : i \in DOMAIN registry} : f.code = code

\* add_feature_flag: the next code after the highest in use, as a preview.
NextFeatureCode(registry) ==
    1 + (CHOOSE n \in Codes(registry) \cup {0} : \A m \in Codes(registry) : m <= n)

AddFeatureFlag(registry, name) ==
    LET updated == Append(registry, Flag(NextFeatureCode(registry), name, "preview"))
    IN IF ValidRegistry(registry) /\ ValidRegistry(updated) THEN updated ELSE Failed

\* _feature_name_index
CodesNamed(registry, name) ==
    {registry[i].code : i \in {k \in DOMAIN registry : registry[k].name = name}}

\* _validate_feature_name_overrides: known names, not both ways, not ambiguous.
ValidNames(registry, names) ==
    /\ \A n \in names.enable \cup names.disable : Cardinality(CodesNamed(registry, n)) = 1
    /\ names.enable \cap names.disable = {}

\* _normalize_release_lock: the lock enables previews only.
ValidLock(registry, lock) ==
    \A code \in DOMAIN lock :
        /\ code \in Codes(registry)
        /\ lock[code] => FlagOf(registry, code).lifecycle = "preview"

\* _default_feature_states
Default(flag, channel) == channel = "rolling" \/ flag.lifecycle \in {"stable", "done"}

\* resolve_features
Resolve(registry, channel, lock, names) ==
    IF ValidRegistry(registry) /\ ValidNames(registry, names) /\ ValidLock(registry, lock)
    THEN [code \in Codes(registry) |->
            LET flag == FlagOf(registry, code)
            IN  /\ flag.name \notin names.disable
                /\ \/ flag.name \in names.enable
                   \/ Default(flag, channel)
                   \/ channel # "rolling" /\ code \in DOMAIN lock /\ lock[code]]
    ELSE Failed

\* A release lock document with codes to turn on and notes on codes:
\* parse_release_lock_document and load_release_lock.
LoadLock(registry, codes, notes) ==
    IF /\ ValidRegistry(registry)
       /\ codes \cup notes \subseteq Codes(registry)
       /\ \A code \in codes : FlagOf(registry, code).lifecycle = "preview"
    THEN [code \in codes |-> TRUE]
    ELSE Failed

\* The codes the release notes (build_feature_report) name as on by default:
\* the stable ones, and the previews the lock turns on.
ReportedOn(registry, channel, codes) ==
    {code \in Codes(registry) :
        \/ FlagOf(registry, code).lifecycle # "preview"
        \/ channel # "rolling" /\ code \in codes}

\* Fault: the two lists are joined.
MergeByUnion(config, cli) ==
    Overrides(config.enable \cup cli.enable, config.disable \cup cli.disable)

\* _merge_feature_names: a flag of the command line overrules the workspace.
MergeFeatureNames(config, cli) ==
    Overrides((config.enable \ cli.disable) \cup cli.enable,
              (config.disable \ cli.enable) \cup cli.disable)

\* _resolve_feature_context: the workspace's overrides are checked by themselves
\* when it is loaded (_validate_feature_activation), then merged and resolved.
FeatureContext(registry, channel, config, cli) ==
    IF ~ValidRegistry(registry) \/ ~ValidNames(registry, config) THEN Failed
    ELSE Resolve(registry, channel, <<>>, MergeFeatureNames(config, cli))
=============================================================================
