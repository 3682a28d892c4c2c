------------------------------ MODULE Plugins ------------------------------
(***************************************************************************)
(* The plugin registry of a process (cellin.runtime.registry): plugins are *)
(* configured, started and recorded one by one, and stopped in the reverse *)
(* order.  What a plugin's start and stop do is chosen once: they may      *)
(* raise.                                                                  *)
(***************************************************************************)
EXTENDS Integers, Sequences, SequencesExt

CONSTANTS PluginIds,   \* third-party plugins
          TraceSink    \* InMemoryTraceSinkPlugin, which never fails

ASSUME PluginsAreFinite == IsFiniteSet(PluginIds)

AllPlugins == PluginIds \cup {TraceSink}
Behaviours == {"sound", "start_raises_ValueError", "start_raises", "stop_raises"}

VARIABLES discovered,  \* the entry points of the group cellin.plugins
          behaviour,   \* of a plugin
          registered,  \* _plugins, in order
          running,     \* the plugins that were started and not stopped since
          last         \* how the last call ended

pluginVars == <<discovered, behaviour, registered, running, last>>

-----------------------------------------------------------------------------
Registry(plugins, on, error) == [plugins |-> plugins, on |-> on, error |-> error]
Now == Registry(registered, running, "none")

\* How register ends, with some plugins registered: a known id is refused.
Refusal(plugins, p) ==
    IF p \in plugins \/ behaviour[p] = "start_raises_ValueError" THEN "ValueError"
    ELSE IF behaviour[p] = "start_raises" THEN "other"
    ELSE "none"

\* register: a plugin whose start raises is not recorded.
RegisterPlugin(reg, p) ==
    LET error == Refusal(ToSet(reg.plugins), p)
    IN IF error = "none" THEN Registry(Append(reg.plugins, p), reg.on \cup {p}, "none")
       ELSE Registry(reg.plugins, reg.on, error)

\* load_entry_points stops at the first plugin that cannot be registered.
LoadPlugins(reg) ==
    LET Error(i) == Refusal(ToSet(reg.plugins) \cup {discovered[j] : j \in 1..i - 1}, discovered[i])
        refused == {i \in DOMAIN discovered : Error(i) # "none"}
        first == CHOOSE i \in refused : \A j \in refused : i <= j
        loaded == SubSeq(discovered, 1, IF refused = {} THEN Len(discovered) ELSE first - 1)
    IN Registry(reg.plugins \o loaded, reg.on \cup ToSet(loaded),
                IF refused = {} THEN reg.error ELSE Error(first))

\* Fault: plugins are stopped first to last.
ShutdownInOrder(reg) ==
    LET raising == {i \in DOMAIN reg.plugins : behaviour[reg.plugins[i]] = "stop_raises"}
        kept == {i \in DOMAIN reg.plugins : \E k \in raising : k <= i}
    IN Registry(reg.plugins, {reg.plugins[i] : i \in kept},
                IF raising = {} THEN reg.error ELSE "other")

\* shutdown, latest first, until a stop raises; the plugins stay registered.
Shutdown(reg) ==
    LET raising == {i \in DOMAIN reg.plugins : behaviour[reg.plugins[i]] = "stop_raises"}
        kept == {i \in DOMAIN reg.plugins : \E k \in raising : i <= k}
    IN Registry(reg.plugins, {reg.plugins[i] : i \in kept},
                IF raising = {} THEN reg.error ELSE "other")

Becomes(reg, how) ==
    /\ registered' = reg.plugins
    /\ running' = reg.on
    /\ last' = how
    /\ UNCHANGED <<discovered, behaviour>>

-----------------------------------------------------------------------------
\* What an application does with a registry of its own.
PluginRegister(p) == Becomes(RegisterPlugin(Now, p), "registered")
PluginLoad == Becomes(LoadPlugins(Now), "registered")
PluginShutdown == Becomes(Shutdown(Now), "shut_down")

\* cmd_plugin_list: one process from start to end.  A ValueError of an entry point
\* is dropped; anything else ends the command without a shutdown.
PluginList ==
    LET loaded == LoadPlugins(RegisterPlugin(Now, TraceSink))
    IN  /\ registered = <<>>
        /\ IF loaded.error = "other" THEN Becomes(loaded, "abandoned")
           ELSE Becomes(Shutdown(loaded), "shut_down")

PluginExit ==
    /\ last # "none"
    /\ registered' = <<>>
    /\ running' = {}
    /\ last' = "none"
    /\ UNCHANGED <<discovered, behaviour>>

PluginInit ==
    /\ discovered \in SeqOf(PluginIds, Cardinality(PluginIds) + 1)
    /\ behaviour \in [AllPlugins -> Behaviours]
    /\ behaviour[TraceSink] = "sound"
    /\ registered = <<>>
    /\ running = {}
    /\ last = "none"

PluginNext ==
    \/ \E p \in AllPlugins : PluginRegister(p)
    \/ PluginLoad \/ PluginShutdown \/ PluginList \/ PluginExit

-----------------------------------------------------------------------------
PluginTypeOK ==
    /\ discovered \in Seq(PluginIds)
    /\ behaviour \in [AllPlugins -> Behaviours]
    /\ registered \in Seq(AllPlugins)
    /\ running \subseteq AllPlugins
    /\ last \in {"none", "registered", "shut_down", "abandoned"}

\* A plugin is known to the registry for as long as it runs, under one id, so that a
\* shutdown reaches it; and after a shutdown the plugins that still run are the one
\* whose stop raised and those registered before it, which others may depend on
\* having been there first.  The command that lists plugins leaves one running
\* only if a plugin failed.
PluginsAreStopped ==
    /\ running \subseteq ToSet(registered)
    /\ \A i, j \in DOMAIN registered : registered[i] = registered[j] => i = j
    /\ \A p \in ToSet(registered) : behaviour[p] \in {"sound", "stop_raises"}
    /\ last = "shut_down" =>
          \E k \in 0..Len(registered) :
              /\ running = {registered[i] : i \in 1..k}
              /\ k > 0 => behaviour[registered[k]] = "stop_raises"
    /\ last = "abandoned" => \E p \in ToSet(discovered) : behaviour[p] = "start_raises"
=============================================================================
