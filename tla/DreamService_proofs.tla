------------------------ MODULE DreamService_proofs ------------------------
(***************************************************************************)
(* Theorems about DreamService: a runner with a scheduler is a process of  *)
(* Dreaming, so that what is proved of Dreaming holds of it; what its      *)
(* scheduler never starts, or not again so soon; and what a call of        *)
(* run_pending leaves behind.                                              *)
(***************************************************************************)
EXTENDS DreamService, Rollback_proofs

-----------------------------------------------------------------------------
LEMMA ServiceStep == [ServiceNext]_serviceVars => [Next]_vars
  <1> SUFFICES ASSUME [ServiceNext]_serviceVars PROVE [Next]_vars
    OBVIOUS
  <1>1. CASE CallerStep
    BY <1>1 DEF CallerStep, BeginStrategy, Next
  <1>2. CASE BeginPending
    BY <1>2 DEF Ready, BeginPending
  <1>3. CASE Proceed
    BY <1>3 DEF Proceed, Next
  <1>4. CASE FinishRecorded
    BY <1>4 DEF FinishRecorded, Next
  <1>5. ASSUME NEW s \in Strategies, RunPlanned(s) PROVE Next
    BY <1>5 DEF RunPlanned, BeginStrategy, Next
  <1>6. ASSUME NEW s \in Strategies, PassPlanned(s) PROVE UNCHANGED vars
    BY <1>6 DEF PassPlanned
  <1>7. CASE EndPending
    BY <1>7 DEF EndPending
  <1>8. CASE CrashService
    BY <1>8 DEF CrashService, Next
  <1>9. CASE UNCHANGED serviceVars
    BY <1>9 DEF serviceVars
  <1>10. QED
    BY <1>1, <1>2, <1>3, <1>4, <1>5, <1>6, <1>7, <1>8, <1>9 DEF ServiceNext, ProcessStep

\* A runner with a scheduler is a process of Dreaming (DreamRunner.run_pending): what is
\* proved of Dreaming may be cited below.
LEMMA RunnerIsAProcess == ServiceSpec => Spec
  <1>1. ServiceInit => Init
    BY DEF ServiceInit
  <1>2. QED
    BY <1>1, ServiceStep, PTL DEF ServiceSpec, Spec

\* What a scheduler runs in one call, on stores its earlier runs have changed,
\* leaves no edge without its ends and no supersession that runs in a circle.
THEOREM SchedulingIsSafe == ServiceSpec => [](NoDanglingEdges /\ SupersessionForward)
  <1>1. ServiceSpec => Spec
    BY RunnerIsAProcess
  <1>2. QED
    BY <1>1, EdgesNeverDangle, SupersessionRunsForward, PTL

\* Nor do they leave the records of a merge, what a contradiction costs in trust or
\* the vector index at odds with one another, once the call has returned.
THEOREM SchedulingKeepsBooks ==
    Tame => (ServiceSpec => [](MergeChainsEnd /\ MergeRecordsAgree /\ TrustLedger
                                 /\ IndexMatchesActive))
  <1> SUFFICES ASSUME Tame
               PROVE  ServiceSpec => [](MergeChainsEnd /\ MergeRecordsAgree /\ TrustLedger
                                          /\ IndexMatchesActive)
    OBVIOUS
  <1>1. ServiceSpec => Spec
    BY RunnerIsAProcess
  <1>2. NewestOnly
    BY DEF Tame, NewestOnly
  <1>3. Spec => []MergeChainsEnd
    BY <1>2, MergesLeaveASurvivor
  <1>4. Spec => []MergeRecordsAgree
    BY MergeRecordsStayTogether
  <1>5. Spec => []TrustLedger
    BY TrustIsAccountedFor
  <1>6. Spec => []IndexMatchesActive
    BY IndexIsActive
  <1>7. QED
    BY <1>1, <1>3, <1>4, <1>5, <1>6, PTL

-----------------------------------------------------------------------------
(***************************************************************************)
(* The scheduler's own state.                                              *)
(***************************************************************************)
LEMMA ServiceTypeStep ==
    TypeOK /\ ServiceTypeOK /\ [ServiceNext]_serviceVars => ServiceTypeOK'
  <1> SUFFICES ASSUME TypeOK, ServiceTypeOK, [ServiceNext]_serviceVars PROVE ServiceTypeOK'
    OBVIOUS
  <1>1. NeverRun \in [Strategies -> Time \union {Null}]
    BY DEF NeverRun
  <1>2. NotBegun \in [active : SUBSET Ids, lastRun : [Strategies -> Time \union {Null}],
                   contradicted : BOOLEAN]
    BY <1>1 DEF NotBegun
  <1>3. CASE BeginPending
    <2> DEFINE last == IF KeepRunner THEN lastRun ELSE NeverRun
    <2>1. last \in [Strategies -> Time \union {Null}]
      BY <1>1 DEF ServiceTypeOK
    <2>2. Plan(last) \subseteq Strategies
      BY DEF Plan
    <2>3. [active |-> Active, lastRun |-> last, contradicted |-> Contradicted]
            \in [active : SUBSET Ids, lastRun : [Strategies -> Time \union {Null}],
                 contradicted : BOOLEAN]
      BY <2>1, ActiveType DEF Contradicted
    <2>4. pending' = TRUE /\ lastRun' = last /\ plan' = Plan(last)
          /\ began' = [active |-> Active, lastRun |-> last, contradicted |-> Contradicted]
      BY <1>3 DEF Ready, BeginPending
    <2> HIDE DEF last
    <2>5. QED
      BY <2>1, <2>2, <2>3, <2>4 DEF ServiceTypeOK
  <1>4. ASSUME NEW s \in Strategies, RunPlanned(s) \/ PassPlanned(s) PROVE ServiceTypeOK'
    BY <1>4 DEF RunPlanned, PassPlanned, ServiceTypeOK
  <1>5. CASE FinishRecorded
    BY <1>5 DEF FinishRecorded, ServiceTypeOK, TypeOK
  <1>6. CASE EndPending
    BY <1>2, <1>6 DEF EndPending, ServiceTypeOK
  <1>7. CASE CrashService
    BY <1>1, <1>2, <1>7 DEF CrashService, ServiceTypeOK
  <1>8. CASE UNCHANGED service
    BY <1>8 DEF service, ServiceTypeOK
  <1>9. QED
    BY <1>3, <1>4, <1>5, <1>6, <1>7, <1>8
       DEF ServiceNext, CallerStep, ProcessStep, Proceed, serviceVars

\* A plan names known strategies, and a run is recorded at a time that has come.
THEOREM ServiceTypeCorrect == ServiceSpec => []ServiceTypeOK
  <1>1. ServiceInit => ServiceTypeOK
    <2>1. NeverRun \in [Strategies -> Time \union {Null}]
      BY DEF NeverRun
    <2>2. NotBegun \in [active : SUBSET Ids, lastRun : [Strategies -> Time \union {Null}],
                     contradicted : BOOLEAN]
      BY <2>1 DEF NotBegun
    <2>3. QED
      BY <2>1, <2>2 DEF ServiceInit, ServiceTypeOK
  <1>2. ServiceSpec => []TypeOK
    BY RunnerIsAProcess, TypeCorrect, PTL
  <1>3. QED
    BY <1>1, <1>2, ServiceTypeStep, PTL DEF ServiceSpec

-----------------------------------------------------------------------------
(***************************************************************************)
(* A scheduler alone never starts the first repair.                        *)
(***************************************************************************)
NoContradiction == {w \in Writes : w.type = "link" => w.edge[1] # "contradicts"}

\* The inductive invariant behind RepairsFollowRepairs: in such a call no plan lists a
\* repair, and no contradicts edge is live or about to be.
RepairNeverPlanned ==
    pending /\ ~began.contradicted =>
        /\ op # "contradiction_repair"
        /\ "contradiction_repair" \notin plan
        /\ \A e \in edges : e[1] # "contradicts"
        /\ todo \in Seq(NoContradiction)

LEMMA WithoutLinks ==
    ASSUME NEW s \in Seq(NoLinks)
    PROVE  s \in Seq(NoContradiction)
  <1>1. NoLinks \subseteq NoContradiction
    BY DEF NoLinks, NoContradiction
  <1>2. QED
    BY <1>1, SequenceOfSuperset

LEMMA RepairNeverPlannedStep ==
    RecordInv /\ RepairNeverPlanned /\ [ServiceNext]_serviceVars => RepairNeverPlanned'
  <1> SUFFICES ASSUME RecordInv, RepairNeverPlanned, [ServiceNext]_serviceVars,
                      pending', ~began'.contradicted
               PROVE  /\ op' # "contradiction_repair"
                      /\ "contradiction_repair" \notin plan'
                      /\ \A e \in edges' : e[1] # "contradicts"
                      /\ todo' \in Seq(NoContradiction)
    BY DEF RepairNeverPlanned
  <1>1. CASE BeginPending
    <2> DEFINE last == IF KeepRunner THEN lastRun ELSE NeverRun
    <2>1. /\ plan' = Plan(last) /\ UNCHANGED <<op, edges, todo>> /\ op = "idle"
          /\ began' = [active |-> Active, lastRun |-> last, contradicted |-> Contradicted]
      BY <1>1 DEF BeginPending, Ready, vars, stores, call
    <2> HIDE DEF last
    <2>2. ~Contradicted
      BY <2>1
    <2>3. "contradiction_repair" \notin plan'
      BY <2>1, <2>2 DEF Plan, Signalled
    <2>4. todo = <<>>
      BY <2>1 DEF RecordInv, WritesAreWhole
    <2>5. QED
      BY <2>1, <2>2, <2>3, <2>4, EmptySeq DEF Contradicted
  <1>2. SUFFICES ASSUME ~BeginPending
                 PROVE  /\ op' # "contradiction_repair"
                        /\ "contradiction_repair" \notin plan'
                        /\ \A e \in edges' : e[1] # "contradicts"
                        /\ todo' \in Seq(NoContradiction)
    BY <1>1
  <1>3. pending /\ UNCHANGED began
    BY <1>2 DEF ServiceNext, CallerStep, ProcessStep, Proceed, FinishRecorded, RunPlanned,
                PassPlanned, EndPending, CrashService, serviceVars, service
  <1>4. /\ op # "contradiction_repair"
        /\ "contradiction_repair" \notin plan
        /\ \A e \in edges : e[1] # "contradicts"
        /\ todo \in Seq(NoContradiction)
    BY <1>3 DEF RepairNeverPlanned
  <1>5. TypeOK /\ TypeOK'
    <2>1. [Next]_vars
      BY ServiceStep
    <2>2. QED
      BY <2>1, TypeStep DEF RecordInv, StoredInv
  <1>6. plan' \subseteq plan
    BY <1>2 DEF ServiceNext, CallerStep, ProcessStep, Proceed, FinishRecorded, RunPlanned,
                PassPlanned, EndPending, CrashService, serviceVars, service
  <1>7. op' # "contradiction_repair"
    BY <1>2, <1>3, <1>4
       DEF Ready, CopyWrite, ServiceNext, CallerStep, ProcessStep, Proceed, FinishRecorded, RunPlanned,
           PassPlanned, EndPending, CrashService, serviceVars, service, vars, call, stores,
           BeginStrategy, BeginDeduplication, BeginAbstraction, BeginDecay, BeginRun, Begin,
           MergePair, PassPair, RepairPair, SkipPair, Summarise,
           ApplyWrite, FinishCall, FinishRun, Crash, Return
  <1>8. CASE UNCHANGED <<edges, todo>>
    BY <1>4, <1>6, <1>7, <1>8
  <1>9. CASE UNCHANGED edges /\ todo' = <<>>
    BY <1>4, <1>6, <1>7, <1>9, EmptySeq
  <1>10. CASE UNCHANGED edges /\ todo' \in Seq(NoLinks)
    BY <1>4, <1>6, <1>7, <1>10, WithoutLinks
  <1>11. CASE MergePair
    <2>1. PICK c, d, p1, p2 :
            todo' = <<Put(c, p1, TRUE, FALSE), Put(d, p2, TRUE, FALSE),
                      Link(SameAs(d, c)), Link(DerivedFrom(c, d))>>
      BY <1>11 DEF MergePair, Merge
    <2>2. \A k \in DOMAIN todo' : todo'[k].type = "link" => todo'[k].edge[1] # "contradicts"
      BY <2>1 DEF Put, Link, SameAs, DerivedFrom
    <2>3. todo' \in [1 .. Len(todo') -> NoContradiction] /\ Len(todo') \in Nat
      BY <1>5, <2>2, LenProperties DEF TypeOK, NoContradiction
    <2>4. UNCHANGED edges
      BY <1>11 DEF MergePair, stores
    <2>5. QED
      BY <1>4, <1>6, <1>7, <2>3, <2>4, FunctionIsSequence
  <1>12. ASSUME NEW t \in Topics, Summarise(t)
        PROVE  UNCHANGED edges /\ todo' \in Seq(NoContradiction)
    <2> DEFINE s == SummaryId[<<t, now>>]
    <2>1. PICK order, rec, added :
            /\ added = [k \in 1 .. Len(order) |-> Summarizes(s, order[k])]
            /\ todo' = SummaryWrites(s, rec, added)
            /\ order \in Ascending(Members(t, snap))
      BY <1>12 DEF Summarise
    <2>2. IsFiniteSet(Members(t, snap)) /\ order \in SetToSeqs(Members(t, snap))
      BY <2>1, FiniteSubset DEF Members, Ascending
    <2> HIDE DEF s
    <2>3. Len(order) \in Nat
      BY <2>2, OrderingType
    <2>4. added \in [1 .. Len(order) -> {Summarizes(s, order[k]) : k \in 1 .. Len(order)}]
      BY <2>1
    <2>5. Len(added) = Len(order)
      BY <2>3, <2>4, FunctionIsSequence
    <2> DEFINE queued == {Put(s, rec, TRUE, FALSE)}
                           \union {Link(Summarizes(s, order[k])) : k \in 1 .. Len(order)}
               linked == [k \in 1 .. Len(added) |-> Link(added[k])]
    <2>6. linked \in [1 .. Len(order) -> queued]
      BY <2>1, <2>5
    <2>7. todo' = <<Put(s, rec, TRUE, FALSE)>> \o linked
      BY <2>1 DEF SummaryWrites
    <2>8. Put(s, rec, TRUE, FALSE) \in queued
      OBVIOUS
    <2>9. \A w \in queued : w.type = "link" => w.edge[1] # "contradicts"
      BY DEF Put, Link, Summarizes
    <2> HIDE DEF queued, linked
    <2>10. linked \in Seq(queued)
      BY <2>3, <2>6, FunctionIsSequence
    <2>11. <<Put(s, rec, TRUE, FALSE)>> \in Seq(queued)
      <3>1. \A w \in queued : <<w>> \in Seq(queued)
        OBVIOUS
      <3>2. QED
        BY <2>8, <3>1, Zenon
    <2>12. todo' \in Seq(queued)
      BY <2>7, <2>10, <2>11, ConcatProperties
    <2>13. Len(todo') \in Nat /\ \A k \in 1 .. Len(todo') : todo'[k] \in queued
      BY <2>12, LenProperties, ElementOfSeq
    <2>14. todo' \in [1 .. Len(todo') -> NoContradiction]
      BY <1>5, <2>9, <2>13, LenProperties DEF TypeOK, NoContradiction
    <2>15. UNCHANGED edges
      BY <1>12 DEF Summarise, stores
    <2>16. QED
      BY <2>13, <2>14, <2>15, FunctionIsSequence
  <1>13. CASE ApplyWrite
    <2>1. Head(todo) \in NoContradiction /\ Tail(todo) \in Seq(NoContradiction)
      BY <1>4, <1>13, HeadTailProperties DEF ApplyWrite
    <2>2. \A e \in edges' : e[1] # "contradicts"
      BY <1>4, <1>13, <2>1 DEF ApplyWrite, NoContradiction
    <2>3. QED
      BY <1>6, <1>4, <1>7, <1>13, <2>1, <2>2 DEF ApplyWrite
  <1>14. CASE BeginDecay
    <2>1. PICK order \in Ascending(Expired) :
            todo' = [k \in 1 .. Len(order) |->
                        Put(order[k], Archived(mem[order[k]]), TRUE, FALSE)]
      BY <1>14 DEF BeginDecay
    <2>2. IsFiniteSet(Expired) /\ order \in SetToSeqs(Expired)
      BY <1>5, ActiveType, FiniteSubset DEF Expired, Ascending
    <2>3. Len(order) \in Nat
      BY <2>2, OrderingType
    <2>4. \A k \in DOMAIN todo' : todo'[k].type = "memory"
      BY <2>1 DEF Put
    <2>5. todo' \in [1 .. Len(todo') -> NoLinks] /\ Len(todo') \in Nat
      BY <1>5, <2>4, LenProperties DEF TypeOK, NoLinks
    <2>6. UNCHANGED edges
      BY <1>14 DEF Ready, BeginDecay, Begin, stores
    <2>7. QED
      BY <1>10, <2>5, <2>6, FunctionIsSequence
  <1>15. CASE Proceed
    <2>1. CASE PassPair \/ SkipPair \/ CopyWrite
      BY <1>8, <2>1 DEF PassPair, SkipPair, CopyWrite, call, stores
    <2>2. CASE RepairPair
      BY <1>4, <2>2 DEF RepairPair, Examine
    <2>3. CASE FinishCall
      BY <1>9, <2>3 DEF FinishCall, Return, stores
    <2>4. QED
      BY <1>4, <1>6, <1>7, <1>11, <1>12, <1>13, <1>15, <2>1, <2>2, <2>3 DEF Proceed
  <1>16. ASSUME NEW s \in Strategies, RunPlanned(s) PROVE UNCHANGED <<edges, todo>> \/ BeginDecay
    BY <1>4, <1>16 DEF Ready, RunPlanned, BeginStrategy, BeginDeduplication, BeginAbstraction, BeginRun, Begin, stores
  <1>17. CASE FinishRecorded
    BY <1>9, <1>17 DEF FinishRecorded, FinishRun, Return, stores
  <1>18. CASE (\E s \in Strategies : PassPlanned(s)) \/ UNCHANGED serviceVars
    BY <1>8, <1>18 DEF PassPlanned, serviceVars, vars, stores, call
  <1>19. ~CallerStep /\ ~EndPending /\ ~CrashService
    BY <1>3 DEF CallerStep, EndPending, CrashService
  <1>20. QED
    BY <1>2, <1>8, <1>14, <1>15, <1>16, <1>17, <1>18, <1>19 DEF ServiceNext, ProcessStep

\* A call of run_pending that finds no contradicts edge starts no repair and leaves none
\* (DeterministicDreamScheduler.plan counts such edges, and nothing but a repair writes
\* them), whatever the diffs rolled back and the crashes before it.
THEOREM ScheduleStartsNoRepair == ServiceSpec => []RepairsFollowRepairs
  <1>1. ServiceInit => RepairNeverPlanned
    BY DEF ServiceInit, RepairNeverPlanned
  <1>2. ServiceSpec => []RecordInv
    BY RunnerIsAProcess, RecordInvariant, PTL
  <1>3. RepairNeverPlanned => RepairsFollowRepairs
    BY DEF RepairNeverPlanned, RepairsFollowRepairs, Contradicted
  <1>4. QED
    BY <1>1, <1>2, <1>3, RepairNeverPlannedStep, PTL DEF ServiceSpec

-----------------------------------------------------------------------------
(***************************************************************************)
(* What a plan starts, and when.                                           *)
(***************************************************************************)
\* The inductive invariant behind CadenceHolds: what a call of run_pending has still
\* to run is due, and is not what it runs; callers do not roll back meanwhile.
PlanIsDue ==
    pending => /\ op # "rollback" /\ op # "retrieve" /\ (op = "idle" => copying = Null)
               /\ op \in Strategies => op \notin plan
               /\ \A s \in plan : Due(s, lastRun)

\* A strategy begins between calls.
LEMMA StrategyBegins ==
    ASSUME NEW s \in Strategies, BeginStrategy(s)
    PROVE  op = "idle" /\ op' = s /\ UNCHANGED <<mem, now, crashes>>
  BY DEF Ready, BeginStrategy, BeginDeduplication, BeginRepair, BeginAbstraction, BeginDecay, BeginRun,
         Begin, stores

\* What is in progress goes on or returns.
LEMMA CallsProceed ==
    ASSUME TypeOK, Proceed \/ FinishRun
    PROVE  op # "idle" => op' \in {op, "idle"}
  BY DEF Proceed, MergePair, PassPair, RepairPair, SkipPair, Summarise, ApplyWrite, CopyWrite, FinishCall,
         FinishRun, call, Return

\* The clock stands still while a call is in progress.
LEMMA ClockStandsStill ==
    ASSUME Proceed \/ FinishRun
    PROVE  now' = now /\ crashes' = crashes
  BY DEF Proceed, MergePair, PassPair, RepairPair, SkipPair, Summarise, ApplyWrite, CopyWrite, FinishCall,
         FinishRun, call

LEMMA PlanIsDueStep ==
    ASSUME TypeOK, ServiceTypeOK, WritesAreWhole, PlanIsDue, [ServiceNext]_serviceVars
    PROVE  PlanIsDue'
  <1> SUFFICES ASSUME pending'
               PROVE  /\ op' # "rollback" /\ op' # "retrieve" /\ (op' = "idle" => copying' = Null)
                      /\ op' \in Strategies => op' \notin plan'
                      /\ \A s \in plan' : Due(s, lastRun)'
    BY DEF PlanIsDue
  <1>1. CASE BeginPending
    <2> DEFINE last == IF KeepRunner THEN lastRun ELSE NeverRun
    <2>1. /\ op = "idle" /\ op' = op /\ now' = now /\ lastRun' = last /\ plan' = Plan(last)
          /\ copying' = Null
      BY <1>1 DEF Ready, BeginPending, vars, stores, call
    <2> HIDE DEF last
    <2>2. \A s \in plan' : last[s] = Null \/ now - last[s] >= Cadence
      BY <2>1 DEF Plan, Due
    <2>3. QED
      BY <2>1, <2>2 DEF Due, Strategies
  <1>2. ASSUME pending, UNCHANGED <<now, lastRun>>, plan' \subseteq plan
        PROVE  \A s \in plan' : Due(s, lastRun)'
    BY <1>2 DEF PlanIsDue, Due
  <1>3. ASSUME NEW s \in Strategies, RunPlanned(s)
        PROVE  /\ op' # "rollback" /\ op' # "retrieve" /\ (op' = "idle" => copying' = Null)
               /\ op' \in Strategies => op' \notin plan'
               /\ \A t \in plan' : Due(t, lastRun)'
    <2>1. op' = s /\ s # "idle" /\ now' = now
      BY <1>3, StrategyBegins DEF RunPlanned, Strategies
    <2>2. pending /\ lastRun' = lastRun /\ plan' = plan \ {s}
      BY <1>3 DEF RunPlanned
    <2>3. QED
      BY <1>2, <2>1, <2>2 DEF Strategies
  <1>4. ASSUME NEW s \in Strategies, PassPlanned(s)
        PROVE  /\ op' # "rollback" /\ op' # "retrieve" /\ (op' = "idle" => copying' = Null)
               /\ op' \in Strategies => op' \notin plan'
               /\ \A t \in plan' : Due(t, lastRun)'
    <2>1. /\ pending /\ op = "idle" /\ op' = op /\ now' = now /\ lastRun' = lastRun /\ plan' = plan \ {s}
          /\ copying' = copying
      BY <1>4 DEF PassPlanned, vars, stores, call
    <2>2. QED
      BY <1>2, <2>1 DEF Strategies, PlanIsDue
  <1>5. CASE FinishRecorded
    <2>1. /\ pending /\ plan' = plan /\ op \in Strategies /\ op' = "idle"
          /\ lastRun' = [lastRun EXCEPT ![op] = now] /\ now' = now /\ copying' = Null
      BY <1>5 DEF FinishRecorded, FinishRun, Return
    <2>2. ASSUME NEW s \in plan PROVE Due(s, lastRun)'
      <3>1. lastRun'[s] = lastRun[s]
        BY <2>1 DEF PlanIsDue, ServiceTypeOK
      <3>2. QED
        BY <2>1, <3>1 DEF PlanIsDue, Due
    <2>3. QED
      BY <2>1, <2>2 DEF Strategies
  <1>6. CASE Proceed
    <2>1. pending /\ plan' = plan /\ lastRun' = lastRun
      BY <1>6 DEF Proceed, service
    <2>2. op # "idle"
      BY <1>6, <2>1 DEF PlanIsDue, Proceed, MergePair, PassPair, RepairPair, SkipPair, Summarise, Examine,
                  ApplyWrite, CopyWrite, call, FinishCall, WritesAreWhole
    <2>3. op' \in {op, "idle"} /\ now' = now
      BY <1>6, <2>2, CallsProceed, ClockStandsStill
    <2>4. op' = "idle" => copying' = Null
      BY <1>6, <2>2 DEF Proceed, MergePair, PassPair, RepairPair, SkipPair, Summarise, Examine,
                        ApplyWrite, CopyWrite, call, FinishCall, stores
    <2>5. QED
      BY <1>2, <2>1, <2>3, <2>4 DEF PlanIsDue, Strategies
  <1>7. CASE CallerStep \/ EndPending \/ CrashService
    BY <1>7 DEF CallerStep, EndPending, CrashService, service
  <1>8. CASE UNCHANGED serviceVars
    <2>1. /\ pending /\ op' = op /\ now' = now /\ lastRun' = lastRun /\ plan' = plan
          /\ copying' = copying
      BY <1>8 DEF serviceVars, service, vars, stores, call
    <2>2. QED
      BY <1>2, <2>1 DEF PlanIsDue
  <1>9. QED
    BY <1>1, <1>3, <1>4, <1>5, <1>6, <1>7, <1>8 DEF ServiceNext, ProcessStep

LEMMA PlanIsDueInvariant == ServiceSpec => [](PassInv /\ ServiceTypeOK /\ PlanIsDue)
  <1>1. ServiceInit => PlanIsDue
    BY DEF ServiceInit, PlanIsDue
  <1>2. ServiceSpec => []PassInv
    BY RunnerIsAProcess, PassInvariant, PTL
  <1>3. PassInv => TypeOK /\ WritesAreWhole
    BY DEF PassInv, RecordInv, StoredInv
  <1>4. QED
    BY <1>1, <1>2, <1>3, ServiceTypeCorrect, PlanIsDueStep, PTL DEF ServiceSpec

\* A runner that is kept starts no scheduled run of a strategy within the cadence of
\* its last recorded one: what ran since the plan was made is another strategy, and a
\* run is recorded under its own name (DeterministicDreamScheduler.plan, record_run).
THEOREM CadenceIsKept == ServiceSpec => CadenceHolds
  <1>1. ASSUME PlanIsDue, TypeOK, WritesAreWhole, ServiceNext, pending, op = "idle", op' \in Strategies
        PROVE  lastRun[op'] = Null \/ now - lastRun[op'] >= Cadence
    <2>1. ASSUME NEW s \in Strategies, RunPlanned(s)
          PROVE  lastRun[op'] = Null \/ now - lastRun[op'] >= Cadence
      <3>1. op' = s /\ s \in plan
        BY <2>1, StrategyBegins DEF RunPlanned
      <3>2. QED
        BY <1>1, <3>1 DEF PlanIsDue, Due
    <2>2. ~Proceed
      BY <1>1 DEF PlanIsDue, Strategies, Proceed, MergePair, PassPair, RepairPair, SkipPair, Summarise, Examine,
                  ApplyWrite, CopyWrite, call, FinishCall, WritesAreWhole
    <2>3. ~FinishRecorded
      BY <1>1 DEF FinishRecorded, FinishRun, Strategies
    <2>4. \A s \in Strategies : ~PassPlanned(s)
      BY <1>1 DEF PassPlanned, vars, call, Strategies
    <2>5. ~CallerStep /\ ~BeginPending /\ ~EndPending /\ ~CrashService
      BY <1>1 DEF Ready, CallerStep, BeginPending, EndPending, CrashService, Crash, Return, vars, call,
                  Strategies
    <2>6. QED
      BY <1>1, <2>1, <2>2, <2>3, <2>4, <2>5 DEF ServiceNext, ProcessStep
  <1>2. PlanIsDue /\ TypeOK /\ WritesAreWhole /\ [ServiceNext]_serviceVars =>
           [pending /\ op = "idle" /\ op' \in Strategies =>
               lastRun[op'] = Null \/ now - lastRun[op'] >= Cadence]_serviceVars
    BY <1>1
  <1>3. PassInv => TypeOK /\ WritesAreWhole
    BY DEF PassInv, RecordInv, StoredInv
  <1>4. QED
    BY <1>2, <1>3, PlanIsDueInvariant, PTL DEF ServiceSpec, CadenceHolds

-----------------------------------------------------------------------------
(***************************************************************************)
(* What a call of run_pending leaves behind.                               *)
(***************************************************************************)
\* Deduplication would merge no two of the active atoms.
NoneMergeable ==
    \A l, r \in Active \intersect Atoms : l # r /\ SameTopic(l, r) => ~IsMergeCandidate(l, r)

\* The call began with a deduplication due.
CalledToMerge ==
    /\ Cardinality(began.active) >= MinimumCount
    /\ \/ began.lastRun["deduplication"] = Null
       \/ now - began.lastRun["deduplication"] >= Cadence

\* The inductive invariant behind PendingMerges: a call that has to deduplicate has
\* it planned, is at it, or has left nothing to merge; what runs behind it, on stores
\* it has changed, makes no atom active again.
MergesAreSeenTo ==
    pending /\ CalledToMerge =>
        "deduplication" \in plan \/ op = "deduplication" \/ NoneMergeable

LEMMA CandidatesAreSymmetric ==
    ASSUME NEW l, NEW r, IsMergeCandidate(l, r), SameTopic(l, r)
    PROVE  IsMergeCandidate(r, l) /\ SameTopic(r, l)
  BY ConstantsAssumption DEF IsMergeCandidate, SameTopic

\* No step but an ingestion and a rollback gives deduplication anything to do.
LEMMA NothingNewToMerge ==
    ASSUME RecordInv, [Next]_vars, NoneMergeable, op # "rollback", op # "retrieve",
           ~\E i \in Atoms : Ingest(i)
    PROVE  NoneMergeable'
  <1>1. Active' \intersect Atoms \subseteq Active \intersect Atoms
    BY AtomsBecomeActive DEF Active
  <1>2. QED
    BY <1>1 DEF NoneMergeable

\* A deduplication that returns has left nothing to merge.
LEMMA NothingLeftToMerge ==
    ASSUME PassInv, Next, Returns("deduplication"), UNCHANGED mem
    PROVE  NoneMergeable'
  <1>1. Active' = Active /\ Active \subseteq Nat
    BY ConstantsAssumption DEF Active
  <1>2. ASSUME NEW l \in Active, NEW r \in Active, l # r, SameTopic(l, r)
        PROVE  ~IsMergeCandidate(l, r)
    <2>1. CASE l < r
      BY <1>2, <2>1, PassLeavesMerged
    <2>2. CASE r < l
      <3>1. SUFFICES ASSUME IsMergeCandidate(l, r) PROVE FALSE
        OBVIOUS
      <3>2. IsMergeCandidate(r, l) /\ SameTopic(r, l)
        BY <1>2, <3>1, CandidatesAreSymmetric
      <3>3. QED
        BY <2>2, <3>2, PassLeavesMerged
    <2>3. l \in Nat /\ r \in Nat
      BY <1>1
    <2>4. QED
      BY <1>2, <2>1, <2>2, <2>3
  <1>3. QED
    BY <1>1, <1>2 DEF NoneMergeable

LEMMA MergesAreSeenToStep ==
    ASSUME PassInv, ServiceTypeOK, PlanIsDue, MergesAreSeenTo, [ServiceNext]_serviceVars
    PROVE  MergesAreSeenTo'
  <1> DEFINE Goal == "deduplication" \in plan' \/ op' = "deduplication" \/ NoneMergeable'
  <1> SUFFICES ASSUME pending', CalledToMerge' PROVE Goal
    BY DEF MergesAreSeenTo
  <1>1. TypeOK /\ RecordInv /\ WritesAreWhole /\ [Next]_vars
    BY ServiceStep DEF PassInv, RecordInv, StoredInv
  <1>2. CASE BeginPending
    <2> DEFINE last == IF KeepRunner THEN lastRun ELSE NeverRun
    <2>1. /\ plan' = Plan(last) /\ began' = [active |-> Active, lastRun |-> last, contradicted |-> Contradicted]
          /\ now' = now
      BY <1>2 DEF Ready, BeginPending, vars
    <2> HIDE DEF last
    <2>2. Signalled("deduplication") /\ Due("deduplication", last)
      BY <2>1 DEF CalledToMerge, Signalled, Due
    <2>3. QED
      BY <2>1, <2>2 DEF Plan, Strategies
  <1>3. ASSUME pending, UNCHANGED <<began, now>>
        PROVE  "deduplication" \in plan \/ op = "deduplication" \/ NoneMergeable
    BY <1>3 DEF MergesAreSeenTo, CalledToMerge
  <1>4. ASSUME pending, NoneMergeable, ~\E i \in Atoms : Ingest(i) PROVE NoneMergeable'
    BY <1>1, <1>4, NothingNewToMerge DEF PlanIsDue
  <1>5. ASSUME NEW s \in Strategies, RunPlanned(s) PROVE Goal
    <2>1. pending /\ op = "idle" /\ plan' = plan \ {s} /\ began' = began /\ op' = s /\ now' = now
      BY <1>5, StrategyBegins DEF RunPlanned
    <2>2. ~\E i \in Atoms : Ingest(i)
      BY <2>1 DEF Ready, Ingest, call, Strategies
    <2>3. CASE "deduplication" \in plan
      BY <2>1, <2>3
    <2>4. CASE NoneMergeable
      BY <1>4, <2>1, <2>2, <2>4
    <2>5. QED
      BY <1>3, <2>1, <2>3, <2>4
  <1>6. ASSUME NEW s \in Strategies, PassPlanned(s) PROVE Goal
    <2>1. /\ pending /\ op = "idle" /\ plan' = plan \ {s} /\ began' = began /\ ~HasWork(s)
          /\ UNCHANGED vars /\ now' = now /\ mem' = mem
      BY <1>6 DEF PassPlanned, vars, stores
    <2>2. Active' = Active
      BY <2>1 DEF Active
    <2>3. CASE "deduplication" \in plan /\ s # "deduplication"
      BY <2>1, <2>3
    <2>4. CASE s = "deduplication"
      BY <2>1, <2>2, <2>4 DEF HasWork, NoneMergeable
    <2>5. CASE NoneMergeable
      BY <2>2, <2>5 DEF NoneMergeable
    <2>6. QED
      BY <1>3, <2>1, <2>3, <2>4, <2>5
  <1>7. CASE FinishRecorded \/ Proceed
    <2>1. /\ pending /\ plan' = plan /\ began' = began /\ now' = now /\ crashes' = crashes
          /\ op # "idle" /\ op' \in {op, "idle"} /\ Next
      <3>1. Proceed \/ FinishRun
        BY <1>7 DEF FinishRecorded
      <3>2. pending /\ plan' = plan /\ began' = began
        BY <1>7 DEF FinishRecorded, Proceed, service
      <3>3. op # "idle"
        BY <1>1, <3>1, <3>2 DEF PlanIsDue, Proceed, MergePair, PassPair, RepairPair, SkipPair, Summarise,
                                Examine, ApplyWrite, CopyWrite, FinishCall, FinishRun, Strategies,
                                WritesAreWhole
      <3>4. Next
        BY <3>1 DEF Proceed, Next
      <3>5. QED
        BY <1>1, <3>1, <3>2, <3>3, <3>4, CallsProceed, ClockStandsStill
    <2>2. ~\E i \in Atoms : Ingest(i)
      BY <2>1 DEF Ready, Ingest
    <2>3. CASE op = "deduplication" /\ op' = "idle"
      <3>1. mem' = mem
        BY <1>7, <2>3 DEF FinishRecorded, FinishRun, Proceed, MergePair, PassPair, RepairPair, SkipPair,
                          Summarise, Examine, ApplyWrite, CopyWrite, call, FinishCall, stores
      <3>2. QED
        BY <2>1, <2>3, <3>1, NothingLeftToMerge DEF Returns
    <2>4. CASE NoneMergeable
      BY <1>4, <2>1, <2>2, <2>4
    <2>5. QED
      BY <1>3, <2>1, <2>3, <2>4
  <1>8. CASE CallerStep \/ EndPending \/ CrashService
    BY <1>8 DEF CallerStep, EndPending, CrashService, service
  <1>9. CASE UNCHANGED serviceVars
    <2>1. UNCHANGED <<pending, plan, began, now, op, mem>>
      BY <1>9 DEF serviceVars, service, vars, call, stores
    <2>2. Active' = Active
      BY <2>1 DEF Active
    <2>3. QED
      BY <1>3, <2>1, <2>2 DEF NoneMergeable
  <1>10. QED
    BY <1>2, <1>5, <1>6, <1>7, <1>8, <1>9 DEF ServiceNext, ProcessStep

\* A call of run_pending that begins with enough active memories, and with no
\* deduplication recorded within the cadence, leaves no two active atoms that a
\* deduplication would merge: no strategy planned behind it undoes what it did
\* (DreamRunner.run_pending, DeterministicDreamScheduler.plan).
THEOREM PendingCallsMerge == ServiceSpec => PendingMerges
  <1> DEFINE I == PassInv /\ ServiceTypeOK /\ PlanIsDue
  <1>1. ASSUME I, MergesAreSeenTo, ServiceNext, pending, ~pending', crashes' = crashes,
               CalledToMerge
        PROVE  NoneMergeable
    <2>1. crashes \in Nat
      BY <1>1 DEF PassInv, RecordInv, StoredInv, TypeOK
    <2>2. EndPending
      <3>1. ~CrashService
        BY <1>1, <2>1 DEF CrashService, Crash
      <3>2. QED
        BY <1>1, <3>1 DEF Ready, ServiceNext, ProcessStep, CallerStep, BeginPending, Proceed, FinishRecorded,
                          RunPlanned, PassPlanned, service
    <2>3. op = "idle" /\ plan = {}
      BY <2>2 DEF EndPending
    <2>4. QED
      BY <1>1, <2>3 DEF MergesAreSeenTo
  <1>2. I /\ MergesAreSeenTo /\ [ServiceNext]_serviceVars =>
           [pending /\ ~pending' /\ crashes' = crashes
             /\ Cardinality(began.active) >= MinimumCount
             /\ (began.lastRun["deduplication"] = Null
                 \/ now - began.lastRun["deduplication"] >= Cadence) =>
                 \A l, r \in Active \intersect Atoms :
                     l # r /\ SameTopic(l, r) => ~IsMergeCandidate(l, r)]_serviceVars
    BY <1>1 DEF CalledToMerge, NoneMergeable
  <1>3. ServiceInit => MergesAreSeenTo
    BY DEF ServiceInit, MergesAreSeenTo
  <1>4. ServiceSpec => []I
    BY PlanIsDueInvariant
  <1>5. I /\ MergesAreSeenTo /\ [ServiceNext]_serviceVars => MergesAreSeenTo'
    BY MergesAreSeenToStep
  <1> HIDE DEF I
  <1>6. QED
    BY <1>2, <1>3, <1>4, <1>5, PTL DEF ServiceSpec, PendingMerges

=============================================================================
