---------------------------- MODULE Startup_proofs ----------------------------
(***************************************************************************)
(* What a process starts with: its features, its plugins and its storage   *)
(* backends, for any flags, overrides, plugins, distributions and          *)
(* workspaces.                                                             *)
(***************************************************************************)
EXTENDS Startup, FiniteSetTheorems, SequenceTheorems, WellFoundedInduction, TLAPS

-----------------------------------------------------------------------------
(***************************************************************************)
(* Positions in a list.                                                    *)
(***************************************************************************)
\* Of some numbers one is the lowest.
LEMMA LowestOf ==
    ASSUME NEW S, S \subseteq Nat, S # {}
    PROVE  \E n \in S : \A m \in S : n <= m
<1> DEFINE less == OpToRel(<, Nat)
<1>1. IsWellFoundedOn(less, Nat)
  BY NatLessThanWellFounded
<1>2. \A x, y \in Nat : y < x => <<y, x>> \in less
  BY DEF OpToRel
<1> HIDE DEF less
<1>3. PICK n \in S : \A m \in S : ~(<<m, n>> \in less)
  BY <1>1, WFMin
<1>4. \A m \in S : n \in Nat /\ m \in Nat
  OBVIOUS
<1>5. \A m \in S : ~(m < n)
  BY <1>2, <1>3, <1>4
<1> QED
  BY <1>4, <1>5

\* Of some numbers up to a bound one is the highest, or there are none.
LEMMA HighestOf ==
    ASSUME NEW N \in Nat, NEW S, S \subseteq 1..N
    PROVE  \E n \in S \cup {0} : \A m \in S : m <= n
<1> DEFINE T == {N - n : n \in S \cup {0}}
<1>1. T \subseteq Nat /\ T # {}
  OBVIOUS
<1>2. PICK x \in T : \A y \in T : x <= y
  <2> HIDE DEF T
  <2> QED
    BY <1>1, LowestOf
<1>3. PICK n \in S \cup {0} : x = N - n
  BY <1>2
<1>4. ASSUME NEW m \in S PROVE m <= n
  <2>1. N - n <= N - m
    BY <1>2, <1>3
  <2> QED
    BY <2>1
<1> QED
  BY <1>4

-----------------------------------------------------------------------------
(***************************************************************************)
(* The registry of features.                                               *)
(***************************************************************************)
Flags == [code : 1..MaxCode, name : Names, lifecycle : Lifecycles]

\* What is committed is sound, and what a process resolved it resolved from that.
FeatureInv ==
    /\ flags \in Seq(Flags) /\ ValidRegistry(flags)
    /\ lock \subseteq 1..MaxCode
    /\ context # NoContext =>
          /\ context.channel \in Channels
          /\ context.result = FeatureContext(flags, context.channel, context.config, context.cli)

LEMMA NextCodeIsNew ==
    ASSUME NEW registry, Codes(registry) \subseteq 1..MaxCode
    PROVE  NextFeatureCode(registry) \in Nat \ {0}
<1> DEFINE Highest(n) == \A m \in Codes(registry) : m <= n
           highest == CHOOSE n \in Codes(registry) \cup {0} : Highest(n)
<1>1. \E n \in Codes(registry) \cup {0} : Highest(n)
  BY HighestOf, MaxCodeIsNatural
<1>2. highest \in Codes(registry) \cup {0}
  BY <1>1
<1>3. NextFeatureCode(registry) = 1 + highest
  BY DEF NextFeatureCode
<1>4. highest \in Nat
  <2> HIDE DEF highest
  <2> QED
    BY <1>2
<1> QED
  BY <1>3, <1>4

\* A flag in a valid registry is the one of its code.
LEMMA FlagIsOfItsCode ==
    ASSUME NEW registry, ValidRegistry(registry), NEW i \in DOMAIN registry
    PROVE  FlagOf(registry, registry[i].code) = registry[i]
<1> DEFINE all == {registry[j] : j \in DOMAIN registry}
           flag == CHOOSE f \in all : f.code = registry[i].code
<1>1. registry[i] \in all
  OBVIOUS
<1>2. flag \in all /\ flag.code = registry[i].code
  BY <1>1
<1>3. PICK j \in DOMAIN registry : flag = registry[j]
  BY <1>2
<1>4. i = j
  BY <1>2, <1>3 DEF ValidRegistry
<1> QED
  BY <1>3, <1>4 DEF FlagOf

LEMMA FlagsAreTyped ==
    ASSUME FeatureInv
    PROVE  /\ DOMAIN flags = 1..Len(flags) /\ Len(flags) \in Nat
           /\ \A i \in DOMAIN flags : /\ flags[i] \in Flags
                                     /\ flags[i].code \in 1..MaxCode
                                     /\ flags[i].lifecycle \in Lifecycles
           /\ Codes(flags) \subseteq 1..MaxCode
<1>1. flags \in Seq(Flags)
  BY DEF FeatureInv
<1>2. \A f \in Flags : f.code \in 1..MaxCode /\ f.lifecycle \in Lifecycles
  BY DEF Flags
<1>3. DOMAIN flags = 1..Len(flags) /\ Len(flags) \in Nat /\ \A i \in DOMAIN flags : flags[i] \in Flags
  BY <1>1, LenProperties, ElementOfSeq
<1> QED
  BY <1>2, <1>3 DEF Codes

\* Every edit of a registry leaves a registry of flags.
LEMMA FeatureStep ==
    ASSUME FeatureInv, FeatureNext
    PROVE  FeatureInv'
<1>1. ASSUME NEW name \in Names, AddFlag(name) PROVE FeatureInv'
  <2> DEFINE new == Flag(NextFeatureCode(flags), name, "preview")
             updated == Append(flags, new)
  <2>1. context' = NoContext /\ UNCHANGED lock /\ ValidRegistry(flags') /\ flags' = AddFeatureFlag(flags, name)
        /\ AddFeatureFlag(flags, name) # Failed /\ NextFeatureCode(flags) <= MaxCode
    BY <1>1 DEF AddFlag, Commit
  <2>2. flags' = updated
    BY <2>1 DEF AddFeatureFlag
  <2>3. Codes(flags) \subseteq 1..MaxCode
    BY FlagsAreTyped
  <2>4. NextFeatureCode(flags) \in 1..MaxCode
    BY <2>1, <2>3, NextCodeIsNew, MaxCodeIsNatural
  <2>5. new \in Flags
    BY <2>4 DEF Flag, Flags, Lifecycles
  <2>6. updated \in Seq(Flags)
    <3> HIDE DEF new
    <3> QED
      BY <2>5, AppendProperties DEF FeatureInv
  <2> QED
    BY <2>1, <2>2, <2>6 DEF FeatureInv
<1>2. ASSUME NEW i \in DOMAIN flags, RemoveFlag(i) PROVE FeatureInv'
  <2>1. context' = NoContext /\ UNCHANGED lock /\ ValidRegistry(flags') /\ flags' = RemoveAt(flags, i)
    BY <1>2 DEF RemoveFlag, Commit
  <2>2. i \in 1..Len(flags) /\ flags \in Seq(Flags) /\ Len(flags) \in Nat
    BY DEF FeatureInv
  <2>3. SubSeq(flags, 1, i - 1) \in Seq(Flags) /\ SubSeq(flags, i + 1, Len(flags)) \in Seq(Flags)
    BY <2>2, SubSeqProperties
  <2>4. RemoveAt(flags, i) \in Seq(Flags)
    BY <2>3, ConcatProperties DEF RemoveAt
  <2> QED
    BY <2>1, <2>4 DEF FeatureInv
<1>3. ASSUME NEW i \in DOMAIN flags, NEW l \in Lifecycles, EditFlag(i, l) PROVE FeatureInv'
  <2>1. context' = NoContext /\ UNCHANGED lock /\ ValidRegistry(flags')
        /\ flags' = [flags EXCEPT ![i].lifecycle = l]
    BY <1>3 DEF EditFlag, Commit
  <2>2. [flags[i] EXCEPT !.lifecycle = l] \in Flags
    <3>1. flags[i] \in Flags
      BY FlagsAreTyped
    <3> QED
      BY <3>1 DEF Flags
  <2>3. flags' \in Seq(Flags)
    BY <2>1, <2>2, ExceptSeq DEF FeatureInv
  <2> QED
    BY <2>1, <2>3 DEF FeatureInv
<1>4. ASSUME NEW codes \in SUBSET (1..MaxCode), WriteLock(codes) PROVE FeatureInv'
  BY <1>4 DEF WriteLock, FeatureInv
<1>5. ASSUME NEW channel \in Channels, NEW config, NEW cli, ResolveFeatureContext(channel, config, cli)
      PROVE FeatureInv'
  BY <1>5 DEF ResolveFeatureContext, FeatureInv
<1> QED
  BY <1>1, <1>2, <1>3, <1>4, <1>5 DEF FeatureNext

\* What a workspace and a command line say is sound together if each is by itself.
LEMMA MergedNames ==
    ASSUME NEW config, NEW cli, ValidNames(flags, config)
    PROVE  ValidNames(flags, MergeFeatureNames(config, cli)) <=> ValidNames(flags, cli)
<1> DEFINE merged == MergeFeatureNames(config, cli)
           Known(n) == Cardinality(CodesNamed(flags, n)) = 1
<1>1. /\ merged.enable = (config.enable \ cli.disable) \cup cli.enable
      /\ merged.disable = (config.disable \ cli.enable) \cup cli.disable
  BY DEF MergeFeatureNames, Overrides
<1>2. \A names : ValidNames(flags, names) <=>
            /\ \A n \in names.enable \cup names.disable : Known(n)
            /\ names.enable \cap names.disable = {}
  BY DEF ValidNames
<1>3. (\A n \in config.enable \cup config.disable : Known(n)) /\ config.enable \cap config.disable = {}
  BY <1>2
<1> HIDE DEF merged, Known
<1>4. (\A n \in merged.enable \cup merged.disable : Known(n)) <=> (\A n \in cli.enable \cup cli.disable : Known(n))
  BY <1>1, <1>3
<1>5. merged.enable \cap merged.disable = cli.enable \cap cli.disable
  BY <1>1, <1>3
<1> QED
  BY <1>2, <1>4, <1>5 DEF merged

\* A registry of flags is resolved unless the names are wrong.
LEMMA ResolutionFails ==
    ASSUME FeatureInv, NEW channel, NEW names
    PROVE  /\ Resolve(flags, channel, <<>>, names) = Failed <=> ~ValidNames(flags, names)
           /\ ValidNames(flags, names) => \A i \in DOMAIN flags :
                 Resolve(flags, channel, <<>>, names)[flags[i].code] =
                    (/\ flags[i].name \notin names.disable
                     /\ flags[i].name \in names.enable \/ Default(flags[i], channel))
<1> DEFINE On(code) ==
             LET flag == FlagOf(flags, code)
             IN  /\ flag.name \notin names.disable
                 /\ \/ flag.name \in names.enable
                    \/ Default(flag, channel)
                    \/ channel # "rolling" /\ code \in DOMAIN <<>> /\ <<>>[code]
           states == [code \in Codes(flags) |-> On(code)]
<1>1. ValidRegistry(flags) /\ ValidLock(flags, <<>>)
  BY DEF FeatureInv, ValidLock
<1>2. Resolve(flags, channel, <<>>, names) = IF ValidNames(flags, names) THEN states ELSE Failed
  BY <1>1 DEF Resolve
<1>3. states # Failed
  <2>1. Codes(flags) \in SUBSET (1..MaxCode)
    BY FlagsAreTyped
  <2>2. \A code \in Codes(flags) : On(code) \in BOOLEAN
    OBVIOUS
  <2>3. states \in [Codes(flags) -> BOOLEAN]
    BY <2>2
  <2> QED
    BY <2>1, <2>3, FailedIsNoResult
<1>4. ASSUME NEW i \in DOMAIN flags
      PROVE  states[flags[i].code] = (/\ flags[i].name \notin names.disable
                                      /\ flags[i].name \in names.enable \/ Default(flags[i], channel))
  <2>1. FlagOf(flags, flags[i].code) = flags[i]
    BY <1>1, FlagIsOfItsCode
  <2>2. flags[i].code \in Codes(flags)
    BY DEF Codes
  <2>3. states[flags[i].code] = On(flags[i].code)
    BY <2>2
  <2>4. ~(flags[i].code \in DOMAIN <<>>)
    OBVIOUS
  <2>5. On(flags[i].code) = (/\ flags[i].name \notin names.disable
                             /\ flags[i].name \in names.enable \/ Default(flags[i], channel))
    BY <2>1, <2>4
  <2> HIDE DEF On, states
  <2> QED
    BY <2>3, <2>5
<1> HIDE DEF states
<1> QED
  BY <1>2, <1>3, <1>4

LEMMA LastWord == FeatureInv => CommandLineHasTheLastWord
<1> SUFFICES ASSUME FeatureInv, context # NoContext PROVE CommandLineHasTheLastWord
  BY DEF CommandLineHasTheLastWord
<1> DEFINE config == context.config
           cli == context.cli
           channel == context.channel
           merged == MergeFeatureNames(config, cli)
<1>1. context.result = FeatureContext(flags, channel, config, cli) /\ ValidRegistry(flags)
  BY DEF FeatureInv
<1>2. context.result = IF ~ValidNames(flags, config) THEN Failed ELSE Resolve(flags, channel, <<>>, merged)
  BY <1>1 DEF FeatureContext
<1>3. /\ Resolve(flags, channel, <<>>, merged) = Failed <=> ~ValidNames(flags, merged)
      /\ ValidNames(flags, merged) => \A i \in DOMAIN flags :
            Resolve(flags, channel, <<>>, merged)[flags[i].code] =
               (/\ flags[i].name \notin merged.disable
                /\ flags[i].name \in merged.enable \/ Default(flags[i], channel))
  BY ResolutionFails
<1>4. ValidNames(flags, config) => (ValidNames(flags, merged) <=> ValidNames(flags, cli))
  BY MergedNames
<1>5. (context.result = Failed) <=> (~ValidNames(flags, config) \/ ~ValidNames(flags, cli))
  BY <1>2, <1>3, <1>4
<1>6. ASSUME context.result # Failed, NEW i \in DOMAIN flags
      PROVE  context.result[flags[i].code] =
                Decided(flags[i], channel, cli,
                        Decided(flags[i], channel, config, Default(flags[i], channel)))
  <2>1. ValidNames(flags, config) /\ ValidNames(flags, cli) /\ ValidNames(flags, merged)
    BY <1>4, <1>5, <1>6
  <2>2. context.result[flags[i].code] =
           (/\ flags[i].name \notin merged.disable
            /\ flags[i].name \in merged.enable \/ Default(flags[i], channel))
    BY <1>2, <1>3, <2>1
  <2>3. config.enable \cap config.disable = {} /\ cli.enable \cap cli.disable = {}
    BY <2>1 DEF ValidNames
  <2>4. /\ merged.enable = (config.enable \ cli.disable) \cup cli.enable
        /\ merged.disable = (config.disable \ cli.enable) \cup cli.disable
    BY DEF MergeFeatureNames, Overrides
  <2>5. Default(flags[i], channel) \in BOOLEAN
    BY DEF Default
  <2> HIDE DEF config, cli, channel, merged
  <2> QED
    BY <2>2, <2>3, <2>4, <2>5 DEF Decided
<1> QED
  BY <1>5, <1>6 DEF CommandLineHasTheLastWord

\* The notes and the resolver read the same flags and the same lock.
LEMMA NotesAreTrue == FeatureInv => ReleaseNotesAreTrue
<1> SUFFICES ASSUME FeatureInv, NEW channel \in {"release", "dev"},
                    NEW loaded, loaded = LoadLock(flags, lock, {}), loaded # Failed,
                    NEW resolved, resolved = Resolve(flags, channel, loaded, Overrides({}, {})),
                    resolved # Failed
             PROVE  {c \in Codes(flags) : resolved[c]} = ReportedOn(flags, channel, lock)
  BY DEF ReleaseNotesAreTrue, NotesAgree
<1>1. loaded = [code \in lock |-> TRUE]
  BY DEF LoadLock
<1> DEFINE On(code) ==
             LET flag == FlagOf(flags, code)
             IN  /\ flag.name \notin {}
                 /\ \/ flag.name \in {}
                    \/ Default(flag, channel)
                    \/ channel # "rolling" /\ code \in DOMAIN loaded /\ loaded[code]
<1>2. resolved = [code \in Codes(flags) |-> On(code)]
  BY DEF Resolve, Overrides
<1>3. ASSUME NEW c \in Codes(flags)
      PROVE  resolved[c] <=> (FlagOf(flags, c).lifecycle # "preview" \/ c \in lock)
  <2>1. PICK i \in DOMAIN flags : c = flags[i].code
    BY DEF Codes
  <2>2. FlagOf(flags, c) = flags[i]
    BY <2>1, FlagIsOfItsCode DEF FeatureInv
  <2>3. FlagOf(flags, c).lifecycle \in Lifecycles
    BY <2>2, FlagsAreTyped
  <2>4. Default(FlagOf(flags, c), channel) <=> FlagOf(flags, c).lifecycle # "preview"
    BY <2>3 DEF Default, Lifecycles
  <2>5. resolved[c] = On(c)
    BY <1>2
  <2>6. c \in DOMAIN loaded /\ loaded[c] <=> c \in lock
    BY <1>1
  <2> QED
    BY <2>4, <2>5, <2>6
<1> QED
  BY <1>3 DEF ReportedOn

-----------------------------------------------------------------------------
(***************************************************************************)
(* The registry of plugins.                                                *)
(***************************************************************************)
\* Plugins are registered once, after they were started, and nothing else runs.
IsSound(reg) ==
    /\ reg.plugins \in Seq(AllPlugins)
    /\ reg.on \subseteq ToSet(reg.plugins)
    /\ \A i, j \in DOMAIN reg.plugins : reg.plugins[i] = reg.plugins[j] => i = j
    /\ \A p \in ToSet(reg.plugins) : behaviour[p] \in {"sound", "stop_raises"}

PluginInv ==
    /\ PluginTypeOK /\ PluginsAreStopped
    /\ behaviour[TraceSink] = "sound"

LEMMA NowIsSound == PluginInv => IsSound(Now)
  BY DEF PluginInv, PluginTypeOK, PluginsAreStopped, IsSound, Now, Registry

\* A plugin that is not refused is new and was started.
LEMMA NotRefused ==
    ASSUME PluginTypeOK, NEW plugins, NEW p \in AllPlugins
    PROVE  /\ Refusal(plugins, p) = "none" => p \notin plugins /\ behaviour[p] \in {"sound", "stop_raises"}
           /\ Refusal(plugins, p) = "other" => behaviour[p] = "start_raises"
           /\ p \notin plugins /\ behaviour[p] = "sound" => Refusal(plugins, p) = "none"
<1>1. behaviour[p] \in {"sound", "start_raises_ValueError", "start_raises", "stop_raises"}
  BY DEF PluginTypeOK, Behaviours
<1> QED
  BY <1>1 DEF Refusal

LEMMA RegisteringIsSound ==
    ASSUME PluginTypeOK, NEW plugins, NEW on, NEW error, NEW p \in AllPlugins,
           IsSound(Registry(plugins, on, error))
    PROVE  IsSound(RegisterPlugin(Registry(plugins, on, error), p))
<1> DEFINE reg == Registry(plugins, on, error)
           new == RegisterPlugin(reg, p)
<1>1. /\ reg.plugins = plugins /\ reg.on = on /\ reg = [plugins |-> plugins, on |-> on, error |-> error]
      /\ plugins \in Seq(AllPlugins) /\ on \subseteq ToSet(plugins)
      /\ \A i, j \in DOMAIN plugins : plugins[i] = plugins[j] => i = j
      /\ \A q \in ToSet(plugins) : behaviour[q] \in {"sound", "stop_raises"}
  BY DEF IsSound, Registry
<1>2. CASE Refusal(ToSet(plugins), p) = "none"
  <2> DEFINE longer == Append(plugins, p)
  <2>1. new = Registry(longer, on \cup {p}, "none")
    BY <1>1, <1>2 DEF RegisterPlugin
  <2>2. new.plugins = longer /\ new.on = on \cup {p}
    BY <2>1 DEF Registry
  <2>3. /\ longer \in Seq(AllPlugins) /\ Len(longer) = Len(plugins) + 1
        /\ \A i \in 1..Len(plugins) : longer[i] = plugins[i]
        /\ longer[Len(plugins) + 1] = p
    BY <1>1, AppendProperties
  <2>4. DOMAIN plugins = 1..Len(plugins) /\ DOMAIN longer = 1..Len(plugins) + 1 /\ Len(plugins) \in Nat
    BY <1>1, <2>3, LenProperties
  <2> HIDE DEF longer
  <2>5. ToSet(longer) = ToSet(plugins) \cup {p}
    BY <2>3, <2>4 DEF ToSet
  <2>6. p \notin ToSet(plugins) /\ behaviour[p] \in {"sound", "stop_raises"}
    BY <1>2, NotRefused
  <2>7. \A i \in 1..Len(plugins) : longer[i] # p
    BY <2>3, <2>4, <2>6 DEF ToSet
  <2>8. \A i, j \in DOMAIN longer : longer[i] = longer[j] => i = j
    BY <1>1, <2>3, <2>4, <2>7
  <2> HIDE DEF new
  <2>9. IsSound(new)
    BY <1>1, <2>2, <2>3, <2>5, <2>6, <2>8 DEF IsSound
  <2> QED
    BY <2>9 DEF new
<1>3. CASE Refusal(ToSet(plugins), p) # "none"
  <2>1. new.plugins = plugins /\ new.on = on
    BY <1>1, <1>3 DEF RegisterPlugin, Registry
  <2> HIDE DEF new
  <2>2. IsSound(new)
    BY <1>1, <2>1 DEF IsSound
  <2> QED
    BY <2>2 DEF new
<1> QED
  BY <1>2, <1>3

LEMMA LoadingIsSound ==
    ASSUME PluginTypeOK, NEW reg, IsSound(reg)
    PROVE  /\ IsSound(LoadPlugins(reg))
           /\ LoadPlugins(reg).error = "other" =>
                 reg.error = "other" \/ \E p \in ToSet(discovered) : behaviour[p] = "start_raises"
<1> DEFINE Error(i) == Refusal(ToSet(reg.plugins) \cup {discovered[j] : j \in 1..i - 1}, discovered[i])
           refused == {i \in DOMAIN discovered : Error(i) # "none"}
           first == CHOOSE i \in refused : \A j \in refused : i <= j
           n == IF refused = {} THEN Len(discovered) ELSE first - 1
           loaded == SubSeq(discovered, 1, n)
           plugins == reg.plugins
           all == plugins \o loaded
<1>1. /\ discovered \in Seq(AllPlugins) /\ DOMAIN discovered = 1..Len(discovered)
      /\ Len(discovered) \in Nat /\ \A i \in DOMAIN discovered : discovered[i] \in AllPlugins
  <2>1. discovered \in Seq(AllPlugins)
    BY SeqMonotonic DEF PluginTypeOK, AllPlugins
  <2> QED
    BY <2>1, LenProperties, ElementOfSeq
<1>2. LoadPlugins(reg) = Registry(all, reg.on \cup ToSet(loaded), IF refused = {} THEN reg.error ELSE Error(first))
  BY DEF LoadPlugins
<1>3. refused # {} => first \in refused /\ \A j \in refused : first <= j
  <2> SUFFICES ASSUME refused # {} PROVE \E i \in refused : \A j \in refused : i <= j
    OBVIOUS
  <2>1. refused \subseteq Nat
    BY <1>1
  <2> HIDE DEF refused
  <2> QED
    BY <2>1, LowestOf
<1> HIDE DEF first
<1>4. n \in 0..Len(discovered) /\ \A i \in 1..n : i \in DOMAIN discovered /\ Error(i) = "none"
  <2>1. /\ refused = {} => n = Len(discovered)
        /\ refused # {} => n = first - 1
        /\ refused \subseteq DOMAIN discovered
        /\ \A i \in DOMAIN discovered \ refused : Error(i) = "none"
    OBVIOUS
  <2> HIDE DEF n, refused, Error
  <2>2. CASE refused = {}
    BY <1>1, <2>1, <2>2
  <2>3. CASE refused # {}
    <3>1. first \in 1..Len(discovered) /\ n = first - 1
      BY <1>1, <1>3, <2>1, <2>3
    <3>2. ASSUME NEW i \in 1..n PROVE i \in DOMAIN discovered /\ i \notin refused
      <4>1. i \in 1..Len(discovered) /\ i < first
        BY <1>1, <3>1
      <4> QED
        BY <1>1, <1>3, <2>3, <3>1, <4>1
    <3> QED
      BY <1>1, <2>1, <3>1, <3>2
  <2> QED
    BY <2>2, <2>3
<1>5. \A i \in DOMAIN discovered : Error(i) = "other" => behaviour[discovered[i]] = "start_raises"
  BY <1>1, NotRefused
<1>6. \A i \in 1..n : /\ discovered[i] \notin ToSet(plugins)
                      /\ \A j \in 1..i - 1 : discovered[i] # discovered[j]
                      /\ behaviour[discovered[i]] \in {"sound", "stop_raises"}
  <2> SUFFICES ASSUME NEW i \in 1..n
               PROVE  /\ discovered[i] \notin ToSet(plugins) \cup {discovered[j] : j \in 1..i - 1}
                      /\ behaviour[discovered[i]] \in {"sound", "stop_raises"}
    OBVIOUS
  <2>1. discovered[i] \in AllPlugins /\ Error(i) = "none"
    BY <1>1, <1>4
  <2> QED
    BY <2>1, NotRefused
<1>7. LoadPlugins(reg).error = "other" =>
          reg.error = "other" \/ \E p \in ToSet(discovered) : behaviour[p] = "start_raises"
  <2>1. LoadPlugins(reg).error = IF refused = {} THEN reg.error ELSE Error(first)
    BY <1>2 DEF Registry
  <2>2. refused # {} /\ Error(first) = "other" => first \in DOMAIN discovered /\ behaviour[discovered[first]] = "start_raises"
    BY <1>3, <1>5
  <2> HIDE DEF refused, Error
  <2> QED
    BY <2>1, <2>2 DEF ToSet
<1> HIDE DEF n, refused, Error
<1>8. /\ loaded \in Seq(AllPlugins) /\ Len(loaded) = n /\ \A i \in 1..n : loaded[i] = discovered[i]
  <2>1. \A i \in 1..n : discovered[i] \in AllPlugins
    BY <1>1, <1>4
  <2>2. n \in Int /\ (IF 1 <= n THEN n - 1 + 1 ELSE 0) = n
    BY <1>1, <1>4
  <2> QED
    BY <2>1, <2>2, SubSeqProperties
<1> HIDE DEF loaded
<1>9. /\ plugins \in Seq(AllPlugins) /\ reg.on \subseteq ToSet(plugins) /\ Len(plugins) \in Nat
      /\ DOMAIN plugins = 1..Len(plugins) /\ n \in Nat
      /\ \A i, j \in DOMAIN plugins : plugins[i] = plugins[j] => i = j
      /\ \A p \in ToSet(plugins) : behaviour[p] \in {"sound", "stop_raises"}
  BY <1>1, <1>4, LenProperties DEF IsSound
<1> HIDE DEF plugins
<1>10. /\ all \in Seq(AllPlugins) /\ Len(all) = Len(plugins) + n
       /\ \A i \in 1..Len(plugins) : all[i] = plugins[i]
       /\ \A i \in Len(plugins) + 1..Len(plugins) + n : all[i] = discovered[i - Len(plugins)] /\ i - Len(plugins) \in 1..n
  <2>1. /\ all \in Seq(AllPlugins) /\ Len(all) = Len(plugins) + n
        /\ \A i \in 1..Len(plugins) + n : all[i] = IF i <= Len(plugins) THEN plugins[i] ELSE loaded[i - Len(plugins)]
    <3>1. /\ all \in Seq(AllPlugins) /\ Len(all) = Len(plugins) + Len(loaded)
          /\ \A i \in 1..Len(plugins) + Len(loaded) :
                all[i] = IF i <= Len(plugins) THEN plugins[i] ELSE loaded[i - Len(plugins)]
      <4>1. loaded \in Seq(AllPlugins) /\ plugins \in Seq(AllPlugins)
        BY <1>8, <1>9
      <4> QED
        BY <4>1, ConcatProperties
    <3> QED
      BY <1>8, <3>1
  <2> HIDE DEF all
  <2> QED
    BY <1>8, <1>9, <2>1
<1>11. DOMAIN all = 1..Len(plugins) + n
  BY <1>10, LenProperties
<1> HIDE DEF all
<1>12. ToSet(loaded) = {discovered[i] : i \in 1..n}
  <2>1. DOMAIN loaded = 1..n
    BY <1>8, LenProperties
  <2> QED
    BY <1>8, <2>1 DEF ToSet
<1>13. ToSet(all) = ToSet(plugins) \cup ToSet(loaded)
  <2>1. ASSUME NEW i \in DOMAIN all PROVE all[i] \in ToSet(plugins) \cup ToSet(loaded)
    <3>1. CASE i <= Len(plugins)
      BY <1>9, <1>10, <1>11, <3>1 DEF ToSet
    <3>2. CASE ~(i <= Len(plugins))
      BY <1>9, <1>10, <1>11, <1>12, <3>2
    <3> QED
      BY <3>1, <3>2
  <2>2. ASSUME NEW i \in DOMAIN plugins PROVE plugins[i] \in ToSet(all)
    BY <1>9, <1>10, <1>11 DEF ToSet
  <2>3. ASSUME NEW i \in 1..n PROVE discovered[i] \in ToSet(all)
    <3>1. Len(plugins) + i \in DOMAIN all /\ all[Len(plugins) + i] = discovered[i]
      BY <1>9, <1>10, <1>11
    <3> QED
      BY <3>1 DEF ToSet
  <2> QED
    BY <1>12, <2>1, <2>2, <2>3 DEF ToSet
<1>14. ASSUME NEW i \in DOMAIN all, NEW j \in DOMAIN all, i < j PROVE all[i] # all[j]
  <2>1. i \in Nat /\ j \in Nat
    BY <1>9, <1>11
  <2>2. CASE j <= Len(plugins)
    BY <1>9, <1>10, <1>11, <1>14, <2>1, <2>2
  <2>3. CASE i <= Len(plugins) /\ ~(j <= Len(plugins))
    <3>1. all[i] \in ToSet(plugins)
      BY <1>9, <1>10, <1>11, <2>3 DEF ToSet
    <3>2. all[j] \notin ToSet(plugins)
      BY <1>6, <1>9, <1>10, <1>11, <2>3
    <3> QED
      BY <3>1, <3>2
  <2>4. CASE ~(i <= Len(plugins))
    <3>1. /\ all[i] = discovered[i - Len(plugins)] /\ all[j] = discovered[j - Len(plugins)]
          /\ j - Len(plugins) \in 1..n /\ i - Len(plugins) \in 1..(j - Len(plugins)) - 1
      BY <1>9, <1>10, <1>11, <1>14, <2>1, <2>4
    <3> QED
      BY <1>6, <3>1
  <2> QED
    BY <2>1, <2>2, <2>3, <2>4
<1>15. \A i, j \in DOMAIN all : all[i] = all[j] => i = j
  <2>1. \A i, j \in DOMAIN all : i < j \/ j < i \/ i = j
    BY <1>9, <1>11
  <2> QED
    BY <1>14, <2>1
<1>16. \A p \in ToSet(all) : behaviour[p] \in {"sound", "stop_raises"}
  BY <1>6, <1>9, <1>12, <1>13
<1>17. LoadPlugins(reg).plugins = all /\ LoadPlugins(reg).on = reg.on \cup ToSet(loaded)
  BY <1>2 DEF Registry
<1> QED
  BY <1>7, <1>9, <1>10, <1>13, <1>15, <1>16, <1>17 DEF IsSound

\* A shutdown leaves those up to the last whose stop raises.
LEMMA ShutdownIsSound ==
    ASSUME NEW reg, IsSound(reg),
           NEW plugins, NEW on, NEW error, reg = Registry(plugins, on, error)
    PROVE  /\ IsSound(Shutdown(reg))
           /\ Shutdown(reg).plugins = plugins
           /\ \E k \in 0..Len(plugins) :
                 /\ Shutdown(reg).on = {plugins[i] : i \in 1..k}
                 /\ k > 0 => behaviour[plugins[k]] = "stop_raises"
<1> DEFINE raising == {i \in DOMAIN plugins : behaviour[plugins[i]] = "stop_raises"}
           kept == {i \in DOMAIN plugins : \E k \in raising : i <= k}
<1>1. reg.plugins = plugins /\ reg = [plugins |-> plugins, on |-> on, error |-> error]
  BY DEF Registry
<1>2. Shutdown(reg).plugins = plugins /\ Shutdown(reg).on = {plugins[i] : i \in kept}
  BY <1>1 DEF Shutdown, Registry
<1>3. /\ plugins \in Seq(AllPlugins) /\ DOMAIN plugins = 1..Len(plugins) /\ Len(plugins) \in Nat
  BY <1>1, LenProperties DEF IsSound
<1>4. raising \subseteq 1..Len(plugins)
  BY <1>3
<1>5. PICK k \in raising \cup {0} : \A i \in raising : i <= k
  <2> HIDE DEF raising
  <2> QED
    BY <1>3, <1>4, HighestOf
<1>6. kept = 1..k
  BY <1>3, <1>4, <1>5
<1>7. k \in 0..Len(plugins) /\ (k > 0 => behaviour[plugins[k]] = "stop_raises")
  BY <1>3, <1>5
<1>8. IsSound(Shutdown(reg))
  <2>1. {plugins[i] : i \in kept} \subseteq ToSet(plugins)
    BY DEF ToSet
  <2> QED
    BY <1>1, <1>2, <2>1 DEF IsSound
<1> QED
  BY <1>2, <1>6, <1>7, <1>8

LEMMA BecomesSound ==
    ASSUME PluginInv, NEW reg, IsSound(reg), NEW how, Becomes(reg, how),
           how \in {"registered", "shut_down", "abandoned"},
           how = "shut_down" =>
              \E k \in 0..Len(reg.plugins) :
                 /\ reg.on = {reg.plugins[i] : i \in 1..k}
                 /\ k > 0 => behaviour[reg.plugins[k]] = "stop_raises",
           how = "abandoned" => \E p \in ToSet(discovered) : behaviour[p] = "start_raises"
    PROVE  PluginInv'
<1>1. /\ registered' = reg.plugins /\ running' = reg.on /\ last' = how
      /\ discovered' = discovered /\ behaviour' = behaviour
  BY DEF Becomes
<1>2. ToSet(reg.plugins) \subseteq AllPlugins
  BY DEF IsSound, ToSet
<1>3. PluginTypeOK'
  BY <1>1, <1>2 DEF PluginInv, PluginTypeOK, IsSound
<1>4. PluginsAreStopped'
  BY <1>1 DEF PluginsAreStopped, IsSound
<1> QED
  BY <1>1, <1>3, <1>4 DEF PluginInv

LEMMA PluginStep ==
    ASSUME PluginInv, PluginNext
    PROVE  PluginInv'
<1>1. PluginTypeOK /\ IsSound(Now) /\ Now = Registry(registered, running, "none") /\ Now.error = "none"
  BY NowIsSound DEF PluginInv, Now, Registry
<1>2. ASSUME NEW p \in AllPlugins, PluginRegister(p) PROVE PluginInv'
  <2>1. IsSound(RegisterPlugin(Now, p))
    BY <1>1, RegisteringIsSound
  <2> QED
    BY <1>2, <2>1, BecomesSound DEF PluginRegister
<1>3. CASE PluginLoad
  <2>1. IsSound(LoadPlugins(Now))
    BY <1>1, LoadingIsSound
  <2> QED
    BY <1>3, <2>1, BecomesSound DEF PluginLoad
<1>4. ASSUME NEW reg, IsSound(reg), NEW plugins, NEW on, NEW error, reg = Registry(plugins, on, error),
             Becomes(Shutdown(reg), "shut_down")
      PROVE  PluginInv'
  <2>1. /\ IsSound(Shutdown(reg))
        /\ Shutdown(reg).plugins = plugins
        /\ \E k \in 0..Len(plugins) :
              /\ Shutdown(reg).on = {plugins[i] : i \in 1..k}
              /\ k > 0 => behaviour[plugins[k]] = "stop_raises"
    BY <1>4, ShutdownIsSound
  <2> QED
    BY <1>4, <2>1, BecomesSound
<1>5. CASE PluginShutdown
  BY <1>1, <1>4, <1>5 DEF PluginShutdown
<1>6. CASE PluginList
  <2> DEFINE own == RegisterPlugin(Now, TraceSink)
             loaded == LoadPlugins(own)
  <2>1. TraceSink \in AllPlugins /\ registered = <<>>
    BY <1>6 DEF PluginList, AllPlugins
  <2>2. IsSound(own)
    BY <1>1, <2>1, RegisteringIsSound
  <2>3. own.error = "none"
    <3>1. Now.plugins = <<>>
      BY <1>1, <2>1 DEF Registry
    <3>2. ToSet(Now.plugins) = {}
      BY <3>1 DEF ToSet
    <3>3. behaviour[TraceSink] = "sound"
      BY DEF PluginInv
    <3>4. Refusal(ToSet(Now.plugins), TraceSink) = "none"
      BY <1>1, <2>1, <3>2, <3>3, NotRefused
    <3> QED
      BY <3>4 DEF RegisterPlugin, Registry
  <2> HIDE DEF own
  <2>4. /\ IsSound(loaded)
        /\ loaded.error = "other" => \E p \in ToSet(discovered) : behaviour[p] = "start_raises"
    BY <1>1, <2>2, <2>3, LoadingIsSound
  <2>5. PICK plugins, on, error : loaded = Registry(plugins, on, error)
    BY DEF LoadPlugins
  <2>6. IF loaded.error = "other" THEN Becomes(loaded, "abandoned") ELSE Becomes(Shutdown(loaded), "shut_down")
    BY <1>6 DEF PluginList, own
  <2> HIDE DEF loaded
  <2>7. CASE loaded.error = "other"
    BY <2>4, <2>6, <2>7, BecomesSound
  <2>8. CASE loaded.error # "other"
    BY <1>4, <2>4, <2>5, <2>6, <2>8
  <2> QED
    BY <2>7, <2>8
<1>7. CASE PluginExit
  BY <1>1, <1>7 DEF PluginExit, PluginInv, PluginTypeOK, PluginsAreStopped, ToSet
<1> QED
  BY <1>2, <1>3, <1>5, <1>6, <1>7 DEF PluginNext

LEMMA PluginsInit == PluginInit => PluginInv
<1> SUFFICES ASSUME PluginInit PROVE PluginInv
  OBVIOUS
<1>1. discovered \in Seq(PluginIds)
  <2>1. Cardinality(PluginIds) \in Nat
    BY PluginsAreFinite, FS_CardinalityType
  <2>2. PICK n \in 0..Cardinality(PluginIds) + 1 : discovered \in [1..n -> PluginIds]
    BY DEF PluginInit, SeqOf
  <2> QED
    BY <2>1, <2>2
<1> QED
  BY <1>1 DEF PluginInit, PluginInv, PluginTypeOK, PluginsAreStopped, ToSet

-----------------------------------------------------------------------------
(***************************************************************************)
(* The registry of storage backends.                                       *)
(***************************************************************************)
\* One provider for a role and a name.
IsRegistry(reg) ==
    /\ \A p \in reg : p.role \in RoleNames
    /\ \A p, q \in reg : ~Clashes(q, p)

\* All of cellin's own, or none, or a third party has the name of one of them.
IsComplete(reg) ==
    \/ Builtins \cap reg \in {{}, Builtins}
    \/ \E q \in reg \ Builtins : Registered(Builtins, q.role, q.backend)

\* The names in cellin's tables, and the providers that could be made of them.
OwnNames ==
    {"arangodb", "duckdb", "in_memory", "in_memory_vector_index", "memgraph", "milvus",
     "mongodb", "mysql", "neo4j", "pgvector", "pinecone", "postgresql", "qdrant", "redis",
     "redis_vector", "sqlite", "sqlite_vec", "weaviate"}
OwnProviders == {Provider(role, name, "cellin") : role \in RoleNames, name \in OwnNames}

\* Cellin's table, role by role.
LEMMA RoleTable ==
    ASSUME NEW role \in RoleNames, NEW names \in Seq(OwnNames)
    PROVE  /\ Table(role, names) \in Seq(OwnProviders)
           /\ \A i \in DOMAIN names : Provider(role, names[i], "cellin") \in ToSet(Table(role, names))
<1> DEFINE table == Table(role, names)
<1>1. names \in [1..Len(names) -> OwnNames] /\ Len(names) \in Nat /\ DOMAIN names = 1..Len(names)
  BY LenProperties
<1>2. \A name \in OwnNames : Provider(role, name, "cellin") \in OwnProviders
  BY DEF OwnProviders
<1>3. table = [i \in 1..Len(names) |-> Provider(role, names[i], "cellin")]
  BY <1>1 DEF Table
<1>4. \A i \in 1..Len(names) : Provider(role, names[i], "cellin") \in OwnProviders
  BY <1>1, <1>2
<1>5. table \in [1..Len(names) -> OwnProviders]
  BY <1>3, <1>4
<1>6. table \in Seq(OwnProviders)
  BY <1>1, <1>5
<1>7. \A i \in DOMAIN names : i \in DOMAIN table /\ table[i] = Provider(role, names[i], "cellin")
  BY <1>1, <1>3
<1> QED
  BY <1>6, <1>7 DEF ToSet

LEMMA ElementsOfConcat ==
    ASSUME NEW S, NEW s \in Seq(S), NEW t \in Seq(S)
    PROVE  s \o t \in Seq(S) /\ ToSet(s \o t) = ToSet(s) \cup ToSet(t)
<1> DEFINE both == s \o t
<1>1. /\ both \in Seq(S) /\ Len(both) = Len(s) + Len(t)
      /\ \A i \in 1..Len(s) + Len(t) : both[i] = IF i <= Len(s) THEN s[i] ELSE t[i - Len(s)]
  BY ConcatProperties
<1> HIDE DEF both
<1>2. /\ DOMAIN s = 1..Len(s) /\ DOMAIN t = 1..Len(t) /\ DOMAIN both = 1..Len(s) + Len(t)
      /\ Len(s) \in Nat /\ Len(t) \in Nat
  BY <1>1, LenProperties
<1>3. ASSUME NEW i \in DOMAIN both PROVE both[i] \in ToSet(s) \cup ToSet(t)
  <2>1. CASE i <= Len(s)
    <3>1. i \in DOMAIN s /\ both[i] = s[i]
      BY <1>1, <1>2, <2>1
    <3> QED
      BY <3>1 DEF ToSet
  <2>2. CASE ~(i <= Len(s))
    <3>1. i - Len(s) \in DOMAIN t /\ both[i] = t[i - Len(s)]
      BY <1>1, <1>2, <2>2
    <3> QED
      BY <3>1 DEF ToSet
  <2> QED
    BY <2>1, <2>2
<1>4. ASSUME NEW i \in DOMAIN s PROVE s[i] \in ToSet(both)
  <2>1. i \in DOMAIN both /\ both[i] = s[i]
    BY <1>1, <1>2
  <2> QED
    BY <2>1 DEF ToSet
<1>5. ASSUME NEW i \in DOMAIN t PROVE t[i] \in ToSet(both)
  <2>1. i + Len(s) \in DOMAIN both /\ both[i + Len(s)] = t[i]
    BY <1>1, <1>2
  <2> QED
    BY <2>1 DEF ToSet
<1>6. ToSet(both) = ToSet(s) \cup ToSet(t)
  BY <1>3, <1>4, <1>5 DEF ToSet
<1> QED
  BY <1>1, <1>6 DEF both

LEMMA BuiltinTable ==
    /\ BuiltinBackends \in Seq(OwnProviders) /\ ToSet(BuiltinBackends) = Builtins
    /\ Builtins \subseteq OwnProviders
    /\ \A role \in {"memory", "graph"} :
          /\ Provider(role, "in_memory", "cellin") \in Builtins
          /\ Provider(role, "sqlite", "cellin") \in Builtins
    /\ \A role \in {"vector", "representation"} :
          Provider(role, "in_memory_vector_index", "cellin") \in Builtins
<1> DEFINE m == Table("memory", RelationalNames)
           g == Table("graph", GraphNames)
           v == Table("vector", VectorNames)
           r == Table("representation", VectorNames)
<1>1. \A role \in {"memory", "graph", "vector", "representation"} : role \in RoleNames
  <2>1. /\ 1 \in DOMAIN Roles /\ 2 \in DOMAIN Roles /\ 3 \in DOMAIN Roles /\ 4 \in DOMAIN Roles
        /\ Roles[1] = "memory" /\ Roles[2] = "graph" /\ Roles[3] = "vector" /\ Roles[4] = "representation"
    BY DEF Roles
  <2> QED
    BY <2>1 DEF RoleNames
<1>2. /\ RelationalNames \in Seq(OwnNames)
      /\ 2 \in DOMAIN RelationalNames /\ RelationalNames[2] = "in_memory"
      /\ 7 \in DOMAIN RelationalNames /\ RelationalNames[7] = "sqlite"
  <2>1. RelationalNames \in Seq(OwnNames)
    BY DEF RelationalNames, OwnNames
  <2>2. 2 \in DOMAIN RelationalNames /\ 7 \in DOMAIN RelationalNames
    BY DEF RelationalNames
  <2>3. RelationalNames[2] = "in_memory" /\ RelationalNames[7] = "sqlite"
    BY DEF RelationalNames
  <2> QED
    BY <2>1, <2>2, <2>3
<1>3. /\ GraphNames \in Seq(OwnNames)
      /\ 3 \in DOMAIN GraphNames /\ GraphNames[3] = "in_memory"
      /\ 10 \in DOMAIN GraphNames /\ GraphNames[10] = "sqlite"
  <2>1. GraphNames \in Seq(OwnNames)
    BY DEF GraphNames, OwnNames
  <2>2. 3 \in DOMAIN GraphNames /\ 10 \in DOMAIN GraphNames
    BY DEF GraphNames
  <2>3. GraphNames[3] = "in_memory" /\ GraphNames[10] = "sqlite"
    BY DEF GraphNames
  <2> QED
    BY <2>1, <2>2, <2>3
<1>4. VectorNames \in Seq(OwnNames) /\ 1 \in DOMAIN VectorNames /\ VectorNames[1] = "in_memory_vector_index"
  <2>1. VectorNames \in Seq(OwnNames)
    BY DEF VectorNames, OwnNames
  <2>2. 1 \in DOMAIN VectorNames
    BY DEF VectorNames
  <2>3. VectorNames[1] = "in_memory_vector_index"
    BY DEF VectorNames
  <2> QED
    BY <2>1, <2>2, <2>3
<1>5. /\ m \in Seq(OwnProviders)
      /\ Provider("memory", "in_memory", "cellin") \in ToSet(m)
      /\ Provider("memory", "sqlite", "cellin") \in ToSet(m)
  BY <1>1, <1>2, RoleTable
<1>6. /\ g \in Seq(OwnProviders)
      /\ Provider("graph", "in_memory", "cellin") \in ToSet(g)
      /\ Provider("graph", "sqlite", "cellin") \in ToSet(g)
  BY <1>1, <1>3, RoleTable
<1>7. /\ v \in Seq(OwnProviders)
      /\ Provider("vector", "in_memory_vector_index", "cellin") \in ToSet(v)
  BY <1>1, <1>4, RoleTable
<1>8. /\ r \in Seq(OwnProviders)
      /\ Provider("representation", "in_memory_vector_index", "cellin") \in ToSet(r)
  BY <1>1, <1>4, RoleTable
<1>9. BuiltinBackends = ((m \o g) \o v) \o r
  BY DEF BuiltinBackends
<1> HIDE DEF m, g, v, r
<1>10. m \o g \in Seq(OwnProviders) /\ ToSet(m \o g) = ToSet(m) \cup ToSet(g)
  <2>1. m \in Seq(OwnProviders) /\ g \in Seq(OwnProviders)
    BY <1>5, <1>6
  <2> QED
    BY <2>1, ElementsOfConcat
<1>11. (m \o g) \o v \in Seq(OwnProviders) /\ ToSet((m \o g) \o v) = ToSet(m \o g) \cup ToSet(v)
  <2>1. v \in Seq(OwnProviders) /\ m \o g \in Seq(OwnProviders)
    BY <1>7, <1>10
  <2> QED
    BY <2>1, ElementsOfConcat
<1>12. BuiltinBackends \in Seq(OwnProviders) /\ ToSet(BuiltinBackends) = ToSet((m \o g) \o v) \cup ToSet(r)
  <2>1. r \in Seq(OwnProviders) /\ (m \o g) \o v \in Seq(OwnProviders)
    BY <1>8, <1>11
  <2>2. ((m \o g) \o v) \o r \in Seq(OwnProviders)
        /\ ToSet(((m \o g) \o v) \o r) = ToSet((m \o g) \o v) \cup ToSet(r)
    BY <2>1, ElementsOfConcat
  <2> QED
    BY <1>9, <2>2
<1>13. ToSet(BuiltinBackends) = ToSet(m) \cup ToSet(g) \cup ToSet(v) \cup ToSet(r)
  BY <1>10, <1>11, <1>12
<1>14. Builtins = ToSet(BuiltinBackends)
  BY DEF Builtins, ToSet
<1>15. Builtins \subseteq OwnProviders
  BY <1>12, <1>14, LenProperties, ElementOfSeq DEF ToSet
<1> QED
  BY <1>5, <1>6, <1>7, <1>8, <1>12, <1>13, <1>14, <1>15

LEMMA ClashesBothWays ==
    ASSUME NEW p, NEW q
    PROVE  Clashes(p, q) <=> Clashes(q, p)
BY DEF Clashes

\* Registering adds providers in order: all of them, unless the name of one is taken.
LEMMA RegisterAllGrows ==
    ASSUME NEW S, NEW providers \in Seq(S), \A p \in S : p.role \in RoleNames,
           NEW reg, IsRegistry(reg), NEW result, result = RegisterAll(reg, providers)
    PROVE  /\ IsRegistry(result.reg) /\ result.ok \in BOOLEAN
           /\ reg \subseteq result.reg
           /\ result.reg \subseteq reg \cup ToSet(providers)
           /\ result.ok => ToSet(providers) \subseteq result.reg
           /\ ~result.ok => \E p \in ToSet(providers) :
                               \E q \in reg \cup ToSet(providers) : Clashes(q, p)
<1> DEFINE before(i) == {providers[j] : j \in 1..i - 1}
           refused == {i \in DOMAIN providers : \E q \in reg \cup before(i) : Clashes(q, providers[i])}
           done == {i \in DOMAIN providers : \A j \in refused : i < j}
           added == {providers[i] : i \in done}
<1>1. result.reg = reg \cup added /\ result.ok = (refused = {})
  BY DEF RegisterAll, Result
<1>2. Len(providers) \in Nat /\ DOMAIN providers = 1..Len(providers)
      /\ \A i \in DOMAIN providers : providers[i] \in S
  BY LenProperties, ElementOfSeq
<1>3. added \subseteq ToSet(providers)
  BY DEF ToSet
<1>4. \A i \in DOMAIN providers : before(i) \subseteq ToSet(providers)
  <2>1. ASSUME NEW i \in DOMAIN providers, NEW j \in 1..i - 1 PROVE j \in DOMAIN providers
    BY <1>2
  <2> QED
    BY <2>1 DEF ToSet
<1>5. \A p \in result.reg : p.role \in RoleNames
  BY <1>1, <1>2 DEF IsRegistry
<1>6. ASSUME NEW i \in done, NEW q \in reg \cup before(i) PROVE ~Clashes(q, providers[i])
  <2>1. i \in DOMAIN providers /\ i \notin refused
    BY <1>2
  <2> QED
    BY <2>1
<1>7. ASSUME NEW i \in done, NEW j \in done, i < j PROVE providers[i] \in before(j)
  <2>1. i \in 1..j - 1
    BY <1>2, <1>7
  <2> QED
    BY <2>1
<1>8. ASSUME NEW i \in done, NEW j \in done PROVE ~Clashes(providers[i], providers[j])
  <2>1. CASE i < j
    BY <2>1, <1>6, <1>7
  <2>2. CASE j < i
    BY <2>2, <1>6, <1>7, ClashesBothWays
  <2>3. CASE i = j
    BY <2>3 DEF Clashes
  <2> QED
    BY <2>1, <2>2, <2>3, <1>2
<1>9. ASSUME NEW p \in result.reg, NEW q \in result.reg PROVE ~Clashes(q, p)
  <2>1. CASE p \in reg /\ q \in reg
    BY <2>1 DEF IsRegistry
  <2>2. CASE p \in added /\ q \in reg
    BY <2>2, <1>6
  <2>3. CASE p \in reg /\ q \in added
    BY <2>3, <1>6, ClashesBothWays
  <2>4. CASE p \in added /\ q \in added
    BY <2>4, <1>8
  <2> QED
    BY <2>1, <2>2, <2>3, <2>4, <1>1
<1>10. IsRegistry(result.reg)
  BY <1>5, <1>9 DEF IsRegistry
<1>11. result.ok => ToSet(providers) \subseteq added
  BY <1>1 DEF ToSet
<1>12. ~result.ok => \E p \in ToSet(providers) : \E q \in reg \cup ToSet(providers) : Clashes(q, p)
  <2> SUFFICES ASSUME ~result.ok
               PROVE  \E p \in ToSet(providers) : \E q \in reg \cup ToSet(providers) : Clashes(q, p)
    OBVIOUS
  <2>1. PICK i \in DOMAIN providers : \E q \in reg \cup before(i) : Clashes(q, providers[i])
    BY <1>1
  <2>2. PICK q \in reg \cup before(i) : Clashes(q, providers[i])
    BY <2>1
  <2>3. providers[i] \in ToSet(providers) /\ q \in reg \cup ToSet(providers)
    BY <1>4 DEF ToSet
  <2> QED
    BY <2>2, <2>3
<1> QED
  BY <1>1, <1>3, <1>10, <1>11, <1>12

\* Cellin's own table is registered as a whole where nothing else has a name of it.
LEMMA BuiltinsAreRegistered ==
    ASSUME NEW reg, IsRegistry(reg), IsComplete(reg), NEW result, result = RegisterBuiltins(reg)
    PROVE  /\ IsRegistry(result.reg) /\ result.ok \in BOOLEAN
           /\ IsComplete(result.reg)
           /\ reg \subseteq result.reg /\ result.reg \subseteq reg \cup Builtins
           /\ reg = {} => result.ok /\ result.reg = Builtins
<1>1. CASE HasRole(reg, "memory")
  BY <1>1 DEF RegisterBuiltins, Result, HasRole
<1>2. CASE ~HasRole(reg, "memory")
  <2>1. result = RegisterAll(reg, BuiltinBackends)
    BY <1>2 DEF RegisterBuiltins
  <2>2. /\ BuiltinBackends \in Seq(OwnProviders) /\ ToSet(BuiltinBackends) = Builtins
        /\ Builtins \subseteq OwnProviders /\ Builtins # {}
    BY BuiltinTable
  <2>3. \A p \in OwnProviders : p.role \in RoleNames
    BY DEF OwnProviders, Provider
  <2>4. /\ IsRegistry(result.reg) /\ result.ok \in BOOLEAN
        /\ reg \subseteq result.reg
        /\ result.reg \subseteq reg \cup Builtins
        /\ result.ok => Builtins \subseteq result.reg
        /\ ~result.ok => \E p \in Builtins : \E q \in reg \cup Builtins : Clashes(q, p)
    BY <2>1, <2>2, <2>3, RegisterAllGrows
  <2>5. \A p, q \in Builtins : ~Clashes(q, p)
    BY <2>2 DEF OwnProviders, Provider, Clashes
  <2>6. ASSUME ~result.ok
        PROVE  \E q \in reg \ Builtins : Registered(Builtins, q.role, q.backend)
    BY <2>4, <2>5, <2>6 DEF Clashes, Registered
  <2>7. IsComplete(result.reg)
    <3>1. CASE result.ok
      BY <3>1, <2>4 DEF IsComplete
    <3>2. CASE ~result.ok
      BY <3>2, <2>4, <2>6 DEF IsComplete
    <3> QED
      BY <3>1, <3>2, <2>4
  <2>8. reg = {} => result.ok /\ result.reg = Builtins
    BY <2>4, <2>6
  <2> QED
    BY <2>4, <2>7, <2>8
<1> QED
  BY <1>1, <1>2

\* What distributions and applications offer is not cellin's, and has a role.
IsThirdParty(p) == p.role \in RoleNames /\ p \notin Builtins

LEMMA ThirdPartiesAreTheirOwn ==
    /\ \A providers \in Applications : providers \in Seq({p \in Providers : IsThirdParty(p)})
    /\ \A d \in Distributions : \A i \in DOMAIN d : \A k \in DOMAIN d[i].providers :
          i \in Int /\ k \in Int /\ IsThirdParty(d[i].providers[k])
<1>1. \A p \in Builtins : p.by = "cellin"
  BY BuiltinTable DEF OwnProviders, Provider
<1>2. \A p \in Providers : p.by # "cellin" => IsThirdParty(p)
  BY <1>1 DEF Providers, IsThirdParty
<1>3. ASSUME NEW providers \in Applications
      PROVE  providers \in Seq({p \in Providers : IsThirdParty(p)})
  <2>1. providers \in Seq(Providers) /\ \A i \in DOMAIN providers : providers[i].by # "cellin"
    BY ProvidersAreThirdParty
  <2>2. /\ Len(providers) \in Nat /\ DOMAIN providers = 1..Len(providers)
        /\ providers \in [1..Len(providers) -> Providers]
    BY <2>1, LenProperties
  <2>3. providers \in [1..Len(providers) -> {p \in Providers : IsThirdParty(p)}]
    BY <1>2, <2>1, <2>2
  <2> QED
    BY <2>2, <2>3
<1>4. ASSUME NEW d \in Distributions, NEW i \in DOMAIN d, NEW k \in DOMAIN d[i].providers
      PROVE  i \in Int /\ k \in Int /\ IsThirdParty(d[i].providers[k])
  <2>1. d \in Seq([providers : Seq(Providers), broken : BOOLEAN])
    BY ProvidersAreThirdParty
  <2>2. i \in Int /\ d[i].providers \in Seq(Providers)
    <3>1. i \in 1..Len(d) /\ Len(d) \in Nat
      BY <2>1, LenProperties
    <3>2. d[i] \in [providers : Seq(Providers), broken : BOOLEAN]
      BY <2>1, <3>1, ElementOfSeq
    <3> QED
      BY <3>1, <3>2
  <2>3. k \in Int /\ d[i].providers[k] \in Providers
    BY <2>2
  <2>4. d[i].providers[k].by # "cellin"
    BY ProvidersAreThirdParty
  <2> QED
    BY <1>2, <2>2, <2>3, <2>4
<1> QED
  BY <1>3, <1>4

\* Entry points add third parties, each of a free name.
LEMMA EntryPointsGrow ==
    ASSUME installed \in Distributions, NEW reg, IsRegistry(reg),
           NEW result, result = LoadEntryPoints(reg)
    PROVE  /\ IsRegistry(result.reg) /\ result.ok \in BOOLEAN
           /\ reg \subseteq result.reg
           /\ \A p \in result.reg \ reg : IsThirdParty(p)
<1> DEFINE loaded == {i \in DOMAIN installed : \A j \in 1..i : ~installed[j].broken}
           offers == UNION {{i} \X DOMAIN installed[i].providers : i \in loaded}
           Of(o) == installed[o[1]].providers[o[2]]
           earlier(n, o) == n[1] < o[1] \/ (n[1] = o[1] /\ n[2] < o[2])
           before(o) == {Of(n) : n \in {n \in offers : earlier(n, o)}}
           free == {o \in offers : \A q \in reg \cup before(o) : ~Clashes(q, Of(o))}
           added == {Of(o) : o \in free}
<1>1. result.reg = reg \cup added /\ result.ok = (loaded = DOMAIN installed)
  BY DEF LoadEntryPoints, Result
<1>2. ASSUME NEW o \in offers
      PROVE  o[1] \in Int /\ o[2] \in Int /\ IsThirdParty(Of(o))
  <2>1. o[1] \in DOMAIN installed /\ o[2] \in DOMAIN installed[o[1]].providers
    OBVIOUS
  <2> QED
    BY <2>1, ThirdPartiesAreTheirOwn
<1>3. ASSUME NEW o \in offers, NEW n \in offers, ~earlier(o, n), ~earlier(n, o)
      PROVE  Of(o) = Of(n)
  BY <1>2, <1>3
<1>4. ASSUME NEW o \in free, NEW q \in reg \cup before(o) PROVE ~Clashes(q, Of(o))
  OBVIOUS
<1>5. ASSUME NEW o \in free, NEW n \in free, earlier(o, n) PROVE Of(o) \in before(n)
  BY <1>5
<1> HIDE DEF earlier, Of, offers, loaded, before
<1>6. ASSUME NEW o \in free, NEW n \in free PROVE ~Clashes(Of(o), Of(n))
  <2>1. CASE earlier(o, n)
    BY <2>1, <1>4, <1>5
  <2>2. CASE earlier(n, o)
    BY <2>2, <1>4, <1>5, ClashesBothWays
  <2>3. CASE ~earlier(o, n) /\ ~earlier(n, o)
    BY <2>3, <1>3 DEF Clashes
  <2> QED
    BY <2>1, <2>2, <2>3
<1>7. ASSUME NEW p \in result.reg, NEW q \in result.reg PROVE ~Clashes(q, p)
  <2>1. CASE p \in reg /\ q \in reg
    BY <2>1 DEF IsRegistry
  <2>2. CASE p \in added /\ q \in reg
    BY <2>2, <1>4
  <2>3. CASE p \in reg /\ q \in added
    BY <2>3, <1>4, ClashesBothWays
  <2>4. CASE p \in added /\ q \in added
    BY <2>4, <1>6
  <2> QED
    BY <2>1, <2>2, <2>3, <2>4, <1>1
<1>8. \A p \in added : IsThirdParty(p)
  BY <1>2
<1>9. IsRegistry(result.reg)
  BY <1>1, <1>7, <1>8 DEF IsRegistry, IsThirdParty
<1> QED
  BY <1>1, <1>8, <1>9

\* Third parties leave cellin's own providers as they are.
LEMMA ThirdPartiesKeepComplete ==
    ASSUME NEW reg, IsComplete(reg), NEW more, reg \subseteq more,
           \A p \in more \ reg : IsThirdParty(p)
    PROVE  IsComplete(more)
<1>1. Builtins \cap more = Builtins \cap reg
  BY DEF IsThirdParty
<1> QED
  BY <1>1 DEF IsComplete

\* initialize_storage_backends, in a registry of any earlier use.
LEMMA InitializeGrows ==
    ASSUME installed \in Distributions, NEW reg, IsRegistry(reg), IsComplete(reg),
           NEW result, result = Initialize(reg)
    PROVE  /\ IsRegistry(result.reg) /\ IsComplete(result.reg)
           /\ reg \subseteq result.reg
           /\ reg = {} => Builtins \subseteq result.reg
<1> DEFINE own == RegisterBuiltins(reg)
           loaded == LoadEntryPoints(own.reg)
<1>1. /\ IsRegistry(own.reg) /\ own.ok \in BOOLEAN /\ IsComplete(own.reg)
      /\ reg \subseteq own.reg
      /\ reg = {} => own.ok /\ own.reg = Builtins
  BY BuiltinsAreRegistered
<1>2. /\ IsRegistry(loaded.reg) /\ own.reg \subseteq loaded.reg
      /\ \A p \in loaded.reg \ own.reg : IsThirdParty(p)
  BY <1>1, EntryPointsGrow
<1>3. IsComplete(loaded.reg)
  BY <1>1, <1>2, ThirdPartiesKeepComplete
<1>4. result = IF own.ok THEN loaded ELSE own
  BY DEF Initialize
<1> HIDE DEF own, loaded
<1> QED
  BY <1>1, <1>2, <1>3, <1>4

-----------------------------------------------------------------------------
(***************************************************************************)
(* What a workspace asks for, and what can be opened.                      *)
(***************************************************************************)
\* A role's section names a known backend, with the path it needs, or nothing.
IsSoundSection(reg, written, role) ==
    \/ written = Absent \/ written[role] = Absent
    \/ written[role].backend = Absent
    \/ /\ Registered(reg, role, written[role].backend)
       /\ Durable(written[role].backend) /\ written[role].backend # "sqlite"
             => written[role].path # Absent

LEMMA SoundSectionsOpen ==
    ASSUME NEW reg, Builtins \subseteq reg, NEW workspace, NEW role \in RoleNames,
           IsSoundSection(reg, workspace.storage, role)
    PROVE  Opens(reg, role, CoerceStorage(workspace)[role])
<1> DEFINE fallback == IF workspace.legacy = Absent THEN "cellin.sqlite" ELSE workspace.legacy
           default == IF role \in {"memory", "graph"} THEN "in_memory" ELSE "in_memory_vector_index"
           section == workspace.storage[role]
           config == CoerceStorage(workspace)[role]
<1>1. config = IF workspace.storage # Absent THEN CoerceRole(section, default, fallback)
               ELSE IF role \in {"vector", "representation"}
                 THEN Backend("in_memory_vector_index", Absent)
               ELSE IF workspace.legacy # Absent THEN Backend("sqlite", workspace.legacy)
               ELSE Backend("in_memory", Absent)
  BY DEF CoerceStorage
<1>2. role \in {"memory", "graph", "vector", "representation"}
  BY DEF RoleNames, Roles
<1>3. fallback # Absent
  BY AbsentIsNoName
<1>4. Provider(role, default, "cellin") \in reg /\ ~Durable(default)
  BY <1>2, BuiltinTable DEF Durable
<1>5. ASSUME NEW path PROVE Opens(reg, role, Backend(default, path))
  BY <1>4 DEF Opens, Provider, Backend
<1> HIDE DEF config, fallback, section
<1>6. CASE workspace.storage = Absent
  <2>1. CASE role \in {"vector", "representation"} \/ workspace.legacy = Absent
    <3>1. config = Backend(default, Absent)
      BY <1>1, <1>2, <1>6, <2>1
    <3> QED
      BY <3>1, <1>5 DEF config
  <2>2. CASE role \notin {"vector", "representation"} /\ workspace.legacy # Absent
    <3>1. config = Backend("sqlite", workspace.legacy)
      BY <1>1, <1>6, <2>2
    <3>2. Provider(role, "sqlite", "cellin") \in reg
      BY <1>2, <2>2, BuiltinTable
    <3> QED
      BY <3>1, <3>2, <2>2 DEF config, Opens, Provider, Backend
  <2> QED
    BY <2>1, <2>2
<1>7. CASE workspace.storage # Absent /\ section = Absent
  <2>1. config = Backend(default, Absent)
    BY <1>1, <1>7 DEF CoerceRole
  <2> QED
    BY <2>1, <1>5 DEF config
<1>8. CASE workspace.storage # Absent /\ section # Absent /\ section.backend = Absent
  <2>1. PICK path : config = Backend(default, path)
    BY <1>1, <1>8 DEF CoerceRole
  <2> QED
    BY <2>1, <1>5 DEF config
<1>9. CASE workspace.storage # Absent /\ section # Absent /\ section.backend # Absent
  <2>1. config = Backend(section.backend,
                         IF section.backend = "sqlite" /\ section.path = Absent THEN fallback
                         ELSE section.path)
    BY <1>1, <1>9 DEF CoerceRole
  <2>2. /\ Registered(reg, role, section.backend)
        /\ Durable(section.backend) /\ section.backend # "sqlite" => section.path # Absent
    BY <1>9 DEF IsSoundSection, section
  <2>3. /\ config.backend = section.backend
        /\ Durable(section.backend) => config.path # Absent
    BY <2>1, <2>2, <1>3 DEF Backend
  <2>4. PICK p \in reg : p.role = role /\ p.backend = section.backend
    BY <2>2 DEF Registered
  <2>5. p.role = role /\ p.backend = config.backend
        /\ (p.by = "cellin" /\ Durable(p.backend) => config.path # Absent)
    BY <2>3, <2>4
  <2>6. Opens(reg, role, config)
    BY <2>5 DEF Opens
  <2> QED
    BY <2>6 DEF config
<1> QED
  BY <1>6, <1>7, <1>8, <1>9

\* Opening stops at a role that cannot be opened, and at no other.
LEMMA OpeningIsPrepared ==
    ASSUME NEW reg, NEW workspace, NEW roles \in SUBSET RoleNames,
           NEW result, result = OpenInOrder(reg, workspace, roles)
    PROVE  /\ result.workspace = workspace
           /\ result.opened \subseteq result.roles /\ result.roles \subseteq RoleNames
           /\ (\A role \in RoleNames : Opens(reg, role, CoerceStorage(workspace)[role])) => result.ok
<1>1. \A i \in DOMAIN Roles : Roles[i] \in RoleNames
  BY DEF RoleNames
<1> QED
  BY <1>1 DEF OpenInOrder

-----------------------------------------------------------------------------
(***************************************************************************)
(* The storage of a process, from its first use of the registry on.        *)
(***************************************************************************)
StorageInv ==
    /\ StorageTypeOK
    /\ IsRegistry(backends) /\ IsComplete(backends)
    /\ entered = Absent => backends = {}
    /\ entered = "initialize" => Builtins \subseteq backends
    /\ WorkspacesBuild

LEMMA StorageInvParts == StorageInv => StorageTypeOK /\ BuiltinsAreComplete /\ WorkspacesBuild
<1>1. NameTaken <=> \E p \in backends \ Builtins : Registered(Builtins, p.role, p.backend)
  BY DEF NameTaken
<1> QED
  BY <1>1 DEF StorageInv, BuiltinsAreComplete, IsComplete

\* What any use of the registry has to show.
LEMMA StorageSteps ==
    ASSUME StorageInv, NEW how \in {"register", "list", "initialize"}, Entered(how),
           UNCHANGED installed,
           IsRegistry(backends'), IsComplete(backends'),
           listed' \in {Absent, backends'},
           how = "initialize" => (backends = {} => Builtins \subseteq backends'),
           backends \subseteq backends',
           \/ prepared' = NothingPrepared
           \/ /\ how = "initialize"
              /\ \E v : \E some \in SUBSET RoleNames : prepared' = OpenInOrder(backends', v, some)
    PROVE  StorageInv'
<1>1. entered' # Absent /\ entered' \in {"register", "list", "initialize"}
  BY AbsentIsNoName DEF Entered, StorageInv, StorageTypeOK
<1>2. entered' = "initialize" => Builtins \subseteq backends'
  <2> SUFFICES ASSUME entered' = "initialize"
               PROVE  Builtins \subseteq backends'
    OBVIOUS
  <2>1. CASE entered = Absent
    BY <2>1 DEF Entered, StorageInv
  <2>2. CASE entered # Absent
    BY <2>2 DEF Entered, StorageInv
  <2> QED
    BY <2>1, <2>2
<1>3. prepared'.opened \subseteq prepared'.roles /\ prepared'.roles \subseteq RoleNames
  <2>1. CASE prepared' = NothingPrepared
    BY <2>1 DEF NothingPrepared
  <2>2. ASSUME NEW w, NEW roles \in SUBSET RoleNames, prepared' = OpenInOrder(backends', w, roles)
        PROVE  prepared'.opened \subseteq prepared'.roles /\ prepared'.roles \subseteq RoleNames
    BY <2>2, OpeningIsPrepared
  <2> QED
    BY <2>1, <2>2
<1>4. StorageTypeOK'
  <2>1. installed' \in Distributions
    BY DEF StorageInv, StorageTypeOK
  <2>2. \A p, q \in backends' : p.role = q.role /\ p.backend = q.backend => p = q
    BY DEF IsRegistry, Clashes
  <2>3. \A p \in backends' : p.role \in RoleNames
    BY DEF IsRegistry
  <2> QED
    BY <1>1, <1>3, <2>1, <2>2, <2>3 DEF StorageTypeOK
<1>5. WorkspacesBuild'
  <2>1. CASE prepared' = NothingPrepared
    BY <2>1 DEF WorkspacesBuild, NothingPrepared
  <2>2. ASSUME NEW w, NEW roles \in SUBSET RoleNames, prepared' = OpenInOrder(backends', w, roles)
        PROVE  WorkspacesBuild'
    <3> SUFFICES ASSUME entered' = "initialize", w # Absent,
                        \A role \in RoleNames : IsSoundSection(backends', w.storage, role)
                 PROVE  prepared'.ok
      <4>1. prepared'.workspace = w
        BY <2>2, OpeningIsPrepared
      <4> QED
        BY <4>1 DEF WorkspacesBuild, IsSoundSection
    <3>1. \A role \in RoleNames : Opens(backends', role, CoerceStorage(w)[role])
      BY <1>2, SoundSectionsOpen
    <3> QED
      BY <2>2, <3>1, OpeningIsPrepared
  <2> QED
    BY <2>1, <2>2
<1> QED
  BY <1>1, <1>2, <1>4, <1>5 DEF StorageInv

LEMMA StorageStep == StorageInv /\ StorageNext => StorageInv'
<1> SUFFICES ASSUME StorageInv, StorageNext
             PROVE  StorageInv'
  OBVIOUS
<1>0. installed \in Distributions /\ IsRegistry(backends) /\ IsComplete(backends)
  BY DEF StorageInv, StorageTypeOK
<1>1. ASSUME NEW providers \in Applications, RegisterStorageBackends(providers)
      PROVE  StorageInv'
  <2> DEFINE S == {p \in Providers : IsThirdParty(p)}
  <2>1. providers \in Seq(S) /\ \A p \in S : p.role \in RoleNames
    BY ThirdPartiesAreTheirOwn DEF IsThirdParty
  <2>2. ToSet(providers) \subseteq S
    BY <2>1, LenProperties, ElementOfSeq DEF ToSet
  <2>3. /\ IsRegistry(backends') /\ backends \subseteq backends'
        /\ backends' \subseteq backends \cup ToSet(providers)
    BY <1>0, <1>1, <2>1, RegisterAllGrows DEF RegisterStorageBackends
  <2>4. \A p \in backends' \ backends : IsThirdParty(p)
    BY <2>2, <2>3
  <2>5. IsComplete(backends')
    BY <1>0, <2>3, <2>4, ThirdPartiesKeepComplete
  <2> QED
    BY <1>1, <2>3, <2>5, StorageSteps DEF RegisterStorageBackends
<1>2. ASSUME StorageList
      PROVE  StorageInv'
  <2> DEFINE loaded == LoadEntryPoints(backends)
             own == RegisterBuiltins(loaded.reg)
  <2>1. /\ IsRegistry(loaded.reg) /\ backends \subseteq loaded.reg
        /\ \A p \in loaded.reg \ backends : IsThirdParty(p)
    BY <1>0, EntryPointsGrow
  <2>2. IsComplete(loaded.reg)
    BY <1>0, <2>1, ThirdPartiesKeepComplete
  <2>3. IsRegistry(own.reg) /\ IsComplete(own.reg) /\ loaded.reg \subseteq own.reg
    BY <2>1, <2>2, BuiltinsAreRegistered
  <2>4. /\ \/ backends' = own.reg /\ listed' \in {Absent, own.reg}
           \/ backends' = loaded.reg /\ listed' = Absent
        /\ Entered("list") /\ prepared' = NothingPrepared /\ UNCHANGED installed
    BY <1>2 DEF StorageList
  <2> HIDE DEF own, loaded
  <2> QED
    BY <2>1, <2>2, <2>3, <2>4, StorageSteps
<1> DEFINE init == Initialize(backends)
<1>3. /\ IsRegistry(init.reg) /\ IsComplete(init.reg)
      /\ backends \subseteq init.reg
      /\ backends = {} => Builtins \subseteq init.reg
  BY <1>0, InitializeGrows
<1>4. ASSUME NEW w \in Workspaces, NEW roles \in RoleChoices, NEW filter, NEW dryRun,
             SetupStorageBackends(w, roles, filter, dryRun)
      PROVE  StorageInv'
  <2> DEFINE chosen == {r \in roles : filter \in {Absent, CoerceStorage(w)[r].backend}}
  <2>1. chosen \in SUBSET RoleNames
    BY RolesAreChosen
  <2>2. /\ backends' = init.reg /\ listed' = Absent
        /\ prepared' \in {NothingPrepared, OpenInOrder(backends', w, chosen)}
        /\ Entered("initialize") /\ UNCHANGED installed
    BY <1>4 DEF SetupStorageBackends
  <2> HIDE DEF chosen, init
  <2>3. \/ prepared' = NothingPrepared
        \/ \E v : \E some \in SUBSET RoleNames : prepared' = OpenInOrder(backends', v, some)
    BY <2>1, <2>2
  <2> QED
    BY <1>3, <2>2, <2>3, StorageSteps
<1>5. ASSUME NEW w \in Workspaces, BuildStorageBundle(w)
      PROVE  StorageInv'
  <2>1. /\ backends' = init.reg /\ listed' = Absent
        /\ prepared' \in {NothingPrepared, OpenInOrder(backends', w, RoleNames)}
        /\ Entered("initialize") /\ UNCHANGED installed
    BY <1>5 DEF BuildStorageBundle
  <2> HIDE DEF init
  <2>2. \/ prepared' = NothingPrepared
        \/ \E v : \E some \in SUBSET RoleNames : prepared' = OpenInOrder(backends', v, some)
    BY <2>1
  <2> QED
    BY <1>3, <2>1, <2>2, StorageSteps
<1>6. ASSUME StorageExit
      PROVE  StorageInv'
  BY <1>6, AbsentIsNoName, BuiltinTable
  DEF StorageExit, StorageInv, StorageTypeOK, IsRegistry, IsComplete, WorkspacesBuild, NothingPrepared
<1> QED
  BY <1>1, <1>2, <1>4, <1>5, <1>6 DEF StorageNext

LEMMA StorageStarts == StorageInit => StorageInv
BY AbsentIsNoName
DEF StorageInit, StorageInv, StorageTypeOK, IsRegistry, IsComplete, WorkspacesBuild, NothingPrepared

-----------------------------------------------------------------------------
(***************************************************************************)
(* The three parts of a process together: a step of one leaves the others. *)
(***************************************************************************)
StartupInv == StorageInv /\ PluginInv /\ FeatureInv

LEMMA FeaturesInit == FeatureInit => FeatureInv
BY DEF FeatureInit, FeatureInv, ValidRegistry

LEMMA StorageRests == StorageInv /\ UNCHANGED storageVars => StorageInv'
BY DEF StorageInv, storageVars, StorageTypeOK, WorkspacesBuild

LEMMA PluginsRest == PluginInv /\ UNCHANGED pluginVars => PluginInv'
BY DEF PluginInv, pluginVars, PluginTypeOK, PluginsAreStopped

LEMMA FeaturesRest == FeatureInv /\ UNCHANGED featureVars => FeatureInv'
BY DEF FeatureInv, featureVars

LEMMA StartupInvStarts == Init => StartupInv
BY StorageStarts, PluginsInit, FeaturesInit DEF Init, StartupInv

LEMMA StartupInvStays == StartupInv /\ [Next]_vars => StartupInv'
<1> SUFFICES ASSUME StartupInv, [Next]_vars
             PROVE  StartupInv'
  OBVIOUS
<1>1. CASE StorageNext /\ UNCHANGED <<pluginVars, featureVars>>
  BY <1>1, StorageStep, PluginsRest, FeaturesRest DEF StartupInv
<1>2. CASE PluginNext /\ UNCHANGED <<storageVars, featureVars>>
  BY <1>2, StorageRests, PluginStep, FeaturesRest DEF StartupInv
<1>3. CASE FeatureNext /\ UNCHANGED <<storageVars, pluginVars>>
  BY <1>3, StorageRests, PluginsRest, FeatureStep DEF StartupInv
<1>4. CASE UNCHANGED vars
  BY <1>4, StorageRests, PluginsRest, FeaturesRest DEF StartupInv, vars
<1> QED
  BY <1>1, <1>2, <1>3, <1>4 DEF Next

LEMMA StartupInvParts ==
    StartupInv => /\ TypeOK /\ BuiltinsAreComplete /\ WorkspacesBuild
                  /\ PluginsAreStopped /\ FeaturesAreAsStated
<1> SUFFICES ASSUME StartupInv
             PROVE  /\ TypeOK /\ BuiltinsAreComplete /\ WorkspacesBuild
                    /\ PluginsAreStopped /\ FeaturesAreAsStated
  OBVIOUS
<1>1. StorageInv /\ PluginInv /\ FeatureInv
  BY DEF StartupInv
<1>2. StorageTypeOK /\ BuiltinsAreComplete /\ WorkspacesBuild
  BY <1>1, StorageInvParts
<1>3. PluginTypeOK /\ PluginsAreStopped
  BY <1>1 DEF PluginInv
<1>4. Codes(flags) \subseteq 1..MaxCode
  BY <1>1, FlagsAreTyped
<1>5. ValidRegistry(flags) /\ lock \subseteq 1..MaxCode
  BY <1>1 DEF FeatureInv
<1>6. FeaturesAreAsStated
  BY <1>1, LastWord, NotesAreTrue DEF FeaturesAreAsStated
<1> QED
  BY <1>2, <1>3, <1>4, <1>5, <1>6 DEF TypeOK

LEMMA StartupIsInvariant == Spec => []StartupInv
BY StartupInvStarts, StartupInvStays, PTL DEF Spec

-----------------------------------------------------------------------------
\* A process's registries are well typed; one storage provider has a role and a name,
\* and no two features in use have a name or a code in common.
THEOREM StartupIsTyped == Spec => []TypeOK
BY StartupIsInvariant, StartupInvParts, PTL

\* Whatever distributions are installed, a process whose first use of the storage
\* registry sets up or builds a workspace has every backend of cellin; and no process
\* has some of them only, unless another provider has the name of one it lacks.
THEOREM BuiltinsStayComplete == Spec => []BuiltinsAreComplete
BY StartupIsInvariant, StartupInvParts, PTL

\* A workspace, in the old format or the new one, builds and can be set up when each
\* section names a registered backend, or none, and has the path it needs.
THEOREM SoundWorkspacesBuild == Spec => []WorkspacesBuild
BY StartupIsInvariant, StartupInvParts, PTL

\* Every plugin that runs is one that shutdown reaches, and a shutdown leaves running
\* the plugin whose stop raised, and those before it, only.
THEOREM PluginsStayReachable == Spec => []PluginsAreStopped
BY StartupIsInvariant, StartupInvParts, PTL

\* The command line has the last word on each feature, the workspace's file the one
\* before it; and the notes of a release or of a development build name what the
\* resolver turns on.
THEOREM FeaturesStayAsStated == Spec => []FeaturesAreAsStated
BY StartupIsInvariant, StartupInvParts, PTL
=============================================================================
