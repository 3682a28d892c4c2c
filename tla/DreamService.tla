---------------------------- MODULE DreamService ----------------------------
(***************************************************************************)
(* Scheduled dreaming: DeterministicDreamScheduler and                     *)
(* DreamRunner.run_pending over the runs of Dreaming.  A call of           *)
(* run_pending plans once and then runs what it planned, one strategy      *)
(* after the other, on stores that the earlier ones have changed.          *)
(***************************************************************************)
EXTENDS Dreaming

CONSTANTS
    Cadence,      \* cadence_hours, in steps of the clock
    MinimumCount, \* minimum_memory_count
    KeepRunner    \* callers keep one DreamRunner; the CLI and the MCP tools make
                  \* a new one, with a new scheduler, for every call

ASSUME ServiceAssumption ==
    /\ Cadence \in Nat /\ MinimumCount \in Nat
    /\ KeepRunner \in BOOLEAN

VARIABLES
    lastRun, \* last_run_at of the runner's scheduler, or Null
    pending, \* a call of run_pending is in progress
    plan,    \* the strategies that call has still to run
    began    \* history, for properties only: the stores when that call began

service     == <<lastRun, pending, plan, began>>
serviceVars == <<vars, service>>

NeverRun == [s \in Strategies |-> Null]
NotBegun == [active |-> {}, lastRun |-> NeverRun, contradicted |-> FALSE]

ServiceTypeOK ==
    /\ lastRun \in [Strategies -> Time \union {Null}]
    /\ pending \in BOOLEAN
    /\ plan \subseteq Strategies
    /\ began \in [active : SUBSET Ids, lastRun : [Strategies -> Time \union {Null}],
                  contradicted : BOOLEAN]

ServiceInit ==
    /\ Init
    /\ lastRun = NeverRun /\ pending = FALSE /\ plan = {} /\ began = NotBegun

-----------------------------------------------------------------------------
(***************************************************************************)
(* DeterministicDreamScheduler.                                            *)
(***************************************************************************)
\* contradiction_count is not 0.
Contradicted == \E e \in edges : e[1] = "contradicts"

\* Fault: a run made earlier today does not count.
DueTooSoon(s, last) == last[s] = Null \/ now - last[s] >= Cadence - 1

\* _due
Due(s, last) == last[s] = Null \/ now - last[s] >= Cadence

\* Fault: the threshold has to be passed, not reached.
SignalledStrictly(s) ==
    CASE s = "deduplication"        -> Cardinality(Active) > MinimumCount
      [] s = "contradiction_repair" -> Contradicted
      [] s = "abstraction"          -> \E t \in Topics : Cardinality({i \in Active : TopicOf[i] = t}) >= 2
      [] s = "decay_archival"       -> Expired # {}

\* Fault: contradictions are looked for among the memories.
SignalledByText(s) ==
    CASE s = "deduplication"        -> Cardinality(Active) >= MinimumCount
      [] s = "contradiction_repair" -> \E p \in Conflict : p[1] \in Active /\ p[2] \in Active
      [] s = "abstraction"          -> \E t \in Topics : Cardinality({i \in Active : TopicOf[i] = t}) >= 2
      [] s = "decay_archival"       -> Expired # {}

\* What plan() reads from the stores.  Summaries count as members of their topic,
\* and contradictions are counted as edges, not looked for.
Signalled(s) ==
    CASE s = "deduplication"        -> Cardinality(Active) >= MinimumCount
      [] s = "contradiction_repair" -> Contradicted
      [] s = "abstraction"          -> \E t \in Topics : Cardinality({i \in Active : TopicOf[i] = t}) >= 2
      [] s = "decay_archival"       -> Expired # {}

Plan(last) == {s \in Strategies : Signalled(s) /\ Due(s, last)}

\* The order in which plan() looks at the strategies.
PlanOrder == <<"deduplication", "contradiction_repair", "abstraction", "decay_archival">>

IsNext(s) ==
    \E k \in DOMAIN PlanOrder : PlanOrder[k] = s /\ \A j \in 1 .. k - 1 : PlanOrder[j] \notin plan

-----------------------------------------------------------------------------
(***************************************************************************)
(* DreamRunner.run_pending.                                                *)
(***************************************************************************)
BeginPending ==
    LET last == IF KeepRunner THEN lastRun ELSE NeverRun
    IN /\ Ready /\ ~pending
       /\ Len(log) + Cardinality(Plan(last)) <= MaxRuns
       /\ pending' = TRUE
       /\ lastRun' = last
       /\ plan' = Plan(last)
       /\ began' = [active |-> Active, lastRun |-> last, contradicted |-> Contradicted]
       /\ UNCHANGED vars

BeginStrategy(s) ==
    \/ s = "deduplication" /\ BeginDeduplication
    \/ s = "contradiction_repair" /\ BeginRepair
    \/ s = "abstraction" /\ BeginAbstraction
    \/ s = "decay_archival" /\ BeginDecay

\* The strategy has something to examine.
HasWork(s) ==
    CASE s \in {"deduplication", "contradiction_repair"} ->
             \E l, r \in Active : l # r /\ SameTopic(l, r)
      [] s = "abstraction" ->
             \E t \in Topics : /\ Cardinality(Members(t, mem)) >= 2
                               /\ \A i \in Summaries \intersect Active : TopicOf[i] # t
      [] s = "decay_archival" -> Expired # {}

RunPlanned(s) ==
    /\ op = "idle" /\ pending /\ s \in plan
    /\ IsNext(s)
    /\ HasWork(s)
    /\ BeginStrategy(s)
    /\ plan' = plan \ {s}
    /\ UNCHANGED <<lastRun, pending, began>>

\* Fault: a strategy that returned None is tried again.
PassPlannedRetrying(s) ==
    /\ op = "idle" /\ pending /\ s \in plan
    /\ IsNext(s)
    /\ ~HasWork(s)
    /\ UNCHANGED <<vars, service>>

\* The strategy finds nothing to examine and returns None.
PassPlanned(s) ==
    /\ op = "idle" /\ pending /\ s \in plan
    /\ IsNext(s)
    /\ ~HasWork(s)
    /\ plan' = plan \ {s}
    /\ UNCHANGED <<vars, lastRun, pending, began>>

EndPending ==
    /\ op = "idle" /\ pending /\ plan = {}
    /\ pending' = FALSE
    /\ began' = NotBegun
    /\ UNCHANGED <<vars, lastRun, plan>>

\* Fault: the day the next run is due is recorded.
FinishRecordedAhead ==
    /\ FinishRun
    /\ lastRun' = [lastRun EXCEPT ![op] = now + Cadence]
    /\ UNCHANGED <<pending, plan, began>>

\* record_run, when the strategy changed something.
FinishRecorded ==
    /\ FinishRun
    /\ lastRun' = [lastRun EXCEPT ![op] = now]
    /\ UNCHANGED <<pending, plan, began>>

\* The steps of a run or a rollback in progress.
Proceed ==
    /\ \/ MergePair \/ PassPair
       \/ RepairPair \/ SkipPair
       \/ \E t \in Topics : Summarise(t)
       \/ ApplyWrite \/ CopyWrite
       \/ FinishCall
    /\ UNCHANGED service

\* What callers do between calls of run_pending.
CallerStep ==
    /\ ~pending
    /\ \/ \E i \in Atoms : Ingest(i)
       \/ \E s \in Strategies : BeginStrategy(s)
       \/ \E k \in DOMAIN log : BeginRollback(k)
       \/ Tick
    /\ UNCHANGED service

\* The runner, its scheduler and its plan die with the process.
CrashService ==
    /\ Crash
    /\ lastRun' = NeverRun /\ pending' = FALSE /\ plan' = {} /\ began' = NotBegun

ProcessStep ==
    \/ Proceed
    \/ FinishRecorded
    \/ \E s \in Strategies : RunPlanned(s) \/ PassPlanned(s)
    \/ EndPending

ServiceNext == CallerStep \/ BeginPending \/ ProcessStep \/ CrashService

\* A process that has begun a call goes on with it; nobody has to call.
ServiceSpec == ServiceInit /\ [][ServiceNext]_serviceVars /\ WF_serviceVars(ProcessStep)

-----------------------------------------------------------------------------
(***************************************************************************)
(* Properties.                                                             *)
(***************************************************************************)

\* Every call returns, run_pending with all it has planned: no strategy waits for
\* work that an earlier one of the plan has already taken away.
CallsReturn == (pending \/ op # "idle") ~> (~pending /\ op = "idle")

\* A runner that is kept starts no scheduled run of a strategy within the cadence
\* of its last recorded one, though the plan is made before the runs it lists and
\* callers run and roll back strategies by name in between.
CadenceHolds ==
    [][pending /\ op = "idle" /\ op' \in Strategies =>
        lastRun[op'] = Null \/ now - lastRun[op'] >= Cadence]_serviceVars

\* A call of run_pending that begins with enough active memories, and with no
\* deduplication recorded within the cadence, leaves no two active atoms that
\* deduplication would merge, whatever else was planned behind it.
PendingMerges ==
    [][pending /\ ~pending' /\ crashes' = crashes
        /\ Cardinality(began.active) >= MinimumCount
        /\ (began.lastRun["deduplication"] = Null
            \/ now - began.lastRun["deduplication"] >= Cadence) =>
            \A l, r \in Active \intersect Atoms :
                l # r /\ SameTopic(l, r) => ~IsMergeCandidate(l, r)]_serviceVars

\* A call of run_pending that finds no contradicts edge starts no repair and leaves
\* none, whatever its other runs change: such edges are what the scheduler waits for,
\* and only a repair writes one, so somebody has to name the first repair.
RepairsFollowRepairs ==
    pending /\ ~began.contradicted => op # "contradiction_repair" /\ ~Contradicted
=============================================================================
