-------------------------- MODULE Subjects_proofs --------------------------
(***************************************************************************)
(* Subjects share no memories, what is on disk can be found again, and     *)
(* what was deleted is gone, for any number of servers, subjects, tool     *)
(* calls and stops, and any mix of backends.                               *)
(***************************************************************************)
EXTENDS Subjects, FiniteSetTheorems, SequenceTheorems, TLAPS

-----------------------------------------------------------------------------
(***************************************************************************)
(* The invariant.  A place that is not everyone's names its subject, and   *)
(* so does a call: what it holds is its subject's, or was read from a      *)
(* store that is everyone's and goes back there, or to a graph beside it.  *)
(***************************************************************************)
StepsOf(op) ==
    CASE op = "ingest" -> {"truncate", "write", "memory", "graph", "vector"}
      [] op = "list" -> {"truncate", "write", "read"}
      [] op = "rewrite" -> {"truncate", "write", "read", "rewrite"}
      [] op = "dream" -> {"truncate", "write", "read", "rewrite", "copy"}
      [] OTHER -> {"unlink", "forget", "truncate", "write"}

Calls == {"ingest", "list", "rewrite", "dream"}
Ops == Calls \cup {"delete"}

CallOf(op) == [op : {op}, subject : Subjects, todo : Seq(StepsOf(op)),
               held : SUBSET Memories]

\* A server is idle or in a call whose steps are those of its kind.
IsTask(t) == t = Idle \/ \E op \in Ops : t \in CallOf(op)

AreTasks ==
    /\ task = [v \in Servers |-> task[v]]
    /\ \A v \in Servers : IsTask(task[v])

TypeInv ==
    /\ deployment \in Deployments
    /\ content \in [Places -> SUBSET Memories]
    /\ owner \in [Memories -> Subjects \cup {Nobody}]
    /\ AreTasks

\* A place is everyone's, or that of the subject it names.
IsRoom(place, subject) == place[2] \in Shared \/ place[3] = subject

\* A graph store that is kept beside a memory store of everyone's.
GetsEveryones(place) == deployment["memory"] \in Shared /\ place \in GraphCopies

ContentIsOwned ==
    \A place \in Places : \A m \in content[place] :
        IsRoom(place, owner[m]) \/ GetsEveryones(place)

MemoryPlace(v) == RouteBackend("memory", v, task[v].subject)

HeldIsOwned ==
    \A v \in Servers : \A m \in task[v].held :
        \/ owner[m] = task[v].subject
        \/ task[v].op # "ingest" /\ MemoryPlace(v)[2] \in Shared

IInv == TypeInv /\ ContentIsOwned /\ HeldIsOwned

-----------------------------------------------------------------------------
(***************************************************************************)
(* Routing.                                                                *)
(***************************************************************************)
\* _route_backend gives a subject a place that is its own or everyone's.
LEMMA RoutesToRooms ==
    ASSUME deployment \in Deployments,
           NEW role \in Roles, NEW v \in Servers, NEW s \in Subjects
    PROVE  /\ RouteBackend(role, v, s) \in Places
           /\ IsRoom(RouteBackend(role, v, s), s)
<1>1. RouteBackend(role, v, s) \in Places
  <2>1. RouteBackend(role, v, s) \in PlacesOf(v, s)
    BY DEF PlacesOf
  <2> QED
    BY <2>1 DEF Places
<1>2. deployment[role] \in Files \cup Ephemeral \cup PerSubject \cup Shared
  BY DeploymentsAreRoutable
<1>3. IsRoom(RouteBackend(role, v, s), s)
  BY <1>2 DEF RouteBackend, IsRoom
<1> QED
  BY <1>1, <1>3

\* A memory store is everyone's, or on this host, by its backend.
LEMMA MemoryRoutes ==
    ASSUME deployment \in Deployments, NEW v, NEW s
    PROVE  LET place == RouteBackend("memory", v, s)
           IN  /\ place[2] \in Shared <=> deployment["memory"] \in Shared
               /\ deployment["memory"] \in PerSubject \cup Shared <=> place[1] = "remote"
<1>1. deployment["memory"] \in Files \cup Ephemeral \cup PerSubject \cup Shared
  BY DeploymentsAreRoutable DEF Roles
<1>2. CASE deployment["memory"] \in Files
  BY <1>2 DEF RouteBackend, Files, Shared, PerSubject
<1>3. CASE deployment["memory"] \in Ephemeral
  BY <1>3 DEF RouteBackend, Files, Ephemeral, Shared, PerSubject
<1>4. CASE deployment["memory"] \in PerSubject
  BY <1>4 DEF RouteBackend, Files, Ephemeral, Shared, PerSubject
<1>5. CASE deployment["memory"] \in Shared
  BY <1>5 DEF RouteBackend, Files, Ephemeral, Shared, PerSubject
<1> QED
  BY <1>1, <1>2, <1>3, <1>4, <1>5

\* A graph store that is the memory store is so for every subject and server.
LEMMA SharedRoutes ==
    ASSUME deployment \in Deployments, GraphSharesMemory, NEW v, NEW s
    PROVE  RouteBackend("graph", v, s) = RouteBackend("memory", v, s)
<1> DEFINE memory == deployment["memory"]
           graph == deployment["graph"]
<1>1. /\ memory \in Files \cup Ephemeral \cup PerSubject \cup Shared
      /\ graph \in Files \cup Ephemeral \cup PerSubject \cup Shared
  BY DeploymentsAreRoutable DEF Roles
<1>2. RouteBackend("graph", Nobody, Nobody) = RouteBackend("memory", Nobody, Nobody)
  BY DEF GraphSharesMemory
<1>3. \A w, r :
         /\ memory \in Files => RouteBackend("memory", w, r) =
               <<"file", IF memory = "duckdb" THEN "duckdb" ELSE "db", r>>
         /\ memory \in Ephemeral => RouteBackend("memory", w, r) = <<"process", "memory", r, w>>
         /\ memory \in PerSubject => RouteBackend("memory", w, r) = <<"remote", memory, r>>
         /\ memory \in Shared => RouteBackend("memory", w, r) = <<"remote", memory, Nobody>>
  BY DEF RouteBackend, Files, Ephemeral, PerSubject, Shared
<1>3a. \A w, r :
         /\ graph \in Files => RouteBackend("graph", w, r) =
               <<"file", IF graph = "duckdb" THEN "duckdb" ELSE "db", r>>
         /\ graph \in Ephemeral => RouteBackend("graph", w, r) = <<"process", "graph", r, w>>
         /\ graph \in PerSubject => RouteBackend("graph", w, r) = <<"remote", graph, r>>
         /\ graph \in Shared => RouteBackend("graph", w, r) = <<"remote", graph, Nobody>>
  BY DEF RouteBackend, Files, Ephemeral, PerSubject, Shared
<1> HIDE DEF memory, graph
<1>4. CASE memory \in Files
  BY <1>1, <1>2, <1>3, <1>3a, <1>4
<1>5. CASE memory \in Ephemeral
  BY <1>1, <1>2, <1>3, <1>3a, <1>5
<1>6. CASE memory \in PerSubject \cup Shared
  <2>1. graph = memory
    BY <1>1, <1>2, <1>3, <1>3a, <1>6
  <2> QED
    BY <1>3, <1>3a, <1>6, <2>1
<1> QED
  BY <1>1, <1>4, <1>5, <1>6

\* A place that is not everyone's names a subject.
LEMMA PlacesNameSubjects ==
    ASSUME deployment \in Deployments, NEW place \in Places, place[2] \notin Shared
    PROVE  place[3] \in Subjects
<1>1. PICK v \in Servers, s \in Subjects, role \in Roles : place = RouteBackend(role, v, s)
  BY DEF Places, PlacesOf
<1>2. IsRoom(place, s)
  BY <1>1, RoutesToRooms
<1> QED
  BY <1>2 DEF IsRoom

\* Where the stores are depends on the deployment alone.
LEMMA PlacesStay ==
    ASSUME UNCHANGED deployment
    PROVE  /\ Places' = Places
           /\ \A role, v, s : RouteBackend(role, v, s)' = RouteBackend(role, v, s)
           /\ GraphCopies' = GraphCopies
           /\ \A place : GetsEveryones(place)' = GetsEveryones(place)
<1>1. \A role, v, s : RouteBackend(role, v, s)' = RouteBackend(role, v, s)
  BY DEF RouteBackend
<1>2. Places' = Places
  BY DEF Places, PlacesOf, RouteBackend
<1>3. GraphCopies' = GraphCopies
  BY <1>1 DEF GraphCopies, GraphSharesMemory
<1> QED
  BY <1>1, <1>2, <1>3 DEF GetsEveryones

-----------------------------------------------------------------------------
(***************************************************************************)
(* The calls.                                                              *)
(***************************************************************************)
\* The steps of a call, with those for a new subject, are those of its kind.
LEMMA StepsAreOfTheCall ==
    ASSUME NEW v \in Servers, NEW s \in Subjects
    PROVE  /\ \A op \in Calls :
                 WithNewSubject(v, op, s) \in Seq(StepsOf(op))
           /\ Steps("delete", s) \in Seq(StepsOf("delete"))
<1>1. \A op \in Calls :
         WithNewSubject(v, op, s) \in Seq(StepsOf(op))
  <2>1. Steps("ingest", s) \in Seq(StepsOf("ingest"))
    <3>1. Steps("ingest", s) \in {<<"memory", "vector">>, <<"memory", "graph", "vector">>}
      BY ZenonT(30) DEF Steps
    <3>2. <<"memory", "vector">> \in Seq(StepsOf("ingest"))
      BY DEF StepsOf
    <3>3. <<"memory", "graph", "vector">> \in Seq(StepsOf("ingest"))
      BY DEF StepsOf
    <3> QED
      BY <3>1, <3>2, <3>3
  <2>2. Steps("list", s) \in Seq(StepsOf("list"))
    BY DEF Steps, StepsOf
  <2>3. Steps("rewrite", s) \in Seq(StepsOf("rewrite"))
    BY DEF Steps, StepsOf
  <2>3a. Steps("dream", s) \in Seq(StepsOf("dream"))
    <3>1. Steps("dream", s) \in {<<"read", "rewrite">>, <<"read", "rewrite", "copy">>}
      BY ZenonT(30) DEF Steps
    <3>2. <<"read", "rewrite">> \in Seq(StepsOf("dream"))
      BY DEF StepsOf
    <3>3. <<"read", "rewrite", "copy">> \in Seq(StepsOf("dream"))
      BY DEF StepsOf
    <3> QED
      BY <3>1, <3>2, <3>3
  <2>3b. Persist \in Seq(StepsOf("dream"))
    BY DEF Persist, StepsOf
  <2>4. Persist \in Seq(StepsOf("ingest"))
    BY DEF Persist, StepsOf
  <2>5. Persist \in Seq(StepsOf("list"))
    BY DEF Persist, StepsOf
  <2>6. Persist \in Seq(StepsOf("rewrite"))
    BY DEF Persist, StepsOf
  <2>7. ASSUME NEW op, Steps(op, s) \in Seq(StepsOf(op)), Persist \in Seq(StepsOf(op))
        PROVE  WithNewSubject(v, op, s) \in Seq(StepsOf(op))
    BY <2>7 DEF WithNewSubject
  <2> QED
    BY <2>1, <2>2, <2>3, <2>3a, <2>3b, <2>4, <2>5, <2>6, <2>7 DEF Calls
<1>2. Len(LocalPaths(s)) \in Nat
  BY DEF LocalPaths
<1>3. [i \in 1..Len(LocalPaths(s)) |-> "unlink"] \in Seq(StepsOf("delete"))
  BY <1>2 DEF StepsOf
<1>4. <<"forget">> \in Seq(StepsOf("delete")) /\ Persist \in Seq(StepsOf("delete"))
  BY DEF Persist, StepsOf
<1>5. Steps("delete", s) \in Seq(StepsOf("delete"))
  BY <1>3, <1>4 DEF Steps
<1> QED
  BY <1>1, <1>5

\* A server that is at a step is in a call that has this step.
LEMMA AtItsStep ==
    ASSUME TypeInv, NEW v \in Servers, NEW step, At(v, step)
    PROVE  \E op \in Ops :
              task[v] \in CallOf(op) /\ step \in StepsOf(op)
<1>1. task[v] # Idle
  BY DEF At, Idle
<1>2. PICK op \in Ops : task[v] \in CallOf(op)
  BY <1>1 DEF TypeInv, AreTasks, IsTask
<1>3. task[v].todo \in Seq(StepsOf(op)) /\ task[v].todo # <<>>
  BY <1>2 DEF CallOf, At
<1>4. step \in StepsOf(op)
  BY <1>3 DEF At
<1> QED
  BY <1>2, <1>4

\* What the servers hold after a step they held before it, in the same call.
HoldNoMore ==
    \A v \in Servers :
        \/ task'[v].held = {}
        \/ /\ task'[v].held = task[v].held
           /\ task'[v].op = task[v].op
           /\ task'[v].subject = task[v].subject

\* A server that becomes idle holds nothing.
LEMMA BecomingIdle ==
    ASSUME TypeInv, NEW v \in Servers, task' = [task EXCEPT ![v] = Idle]
    PROVE  AreTasks' /\ HoldNoMore
BY DEF TypeInv, AreTasks, HoldNoMore, IsTask, Idle

\* Going on to the next step leaves the call what it is.
LEMMA Proceeding ==
    ASSUME TypeInv, NEW v \in Servers, NEW step, At(v, step), Proceed(v)
    PROVE  AreTasks' /\ HoldNoMore
<1>1. CASE task' = [task EXCEPT ![v] = Idle]
  BY <1>1, BecomingIdle
<1>2. CASE task' = [task EXCEPT ![v].todo = Tail(task[v].todo)]
  <2>1. PICK op \in Ops : task[v] \in CallOf(op)
    BY AtItsStep
  <2>2. task[v].todo \in Seq(StepsOf(op)) /\ task[v].todo # <<>>
    BY <2>1 DEF CallOf, At
  <2>3. Tail(task[v].todo) \in Seq(StepsOf(op))
    BY <2>2
  <2>4. task'[v] = [task[v] EXCEPT !.todo = Tail(task[v].todo)]
    BY <1>2 DEF TypeInv, AreTasks
  <2>5. task'[v] \in CallOf(op)
    BY <2>1, <2>3, <2>4 DEF CallOf
  <2>6. \A w \in Servers : IsTask(task'[w])
    BY <1>2, <2>5 DEF TypeInv, AreTasks, IsTask
  <2>7. HoldNoMore
    BY <1>2, <2>1, <2>4 DEF TypeInv, HoldNoMore, CallOf
  <2> QED
    BY <1>2, <2>6, <2>7 DEF TypeInv, AreTasks
<1> QED
  BY <1>1, <1>2 DEF Proceed, Goto

-----------------------------------------------------------------------------
(***************************************************************************)
(* The invariant is preserved.                                             *)
(***************************************************************************)
\* A step that adds nothing to a place or to what is held keeps the invariant.
LEMMA NothingAdded ==
    ASSUME IInv, UNCHANGED <<deployment, owner>>, AreTasks', HoldNoMore,
           content' \in [Places -> SUBSET Memories],
           \A place \in Places : content'[place] \subseteq content[place]
    PROVE  IInv'
<1>1. /\ Places' = Places
      /\ \A role, v, s : RouteBackend(role, v, s)' = RouteBackend(role, v, s)
  BY PlacesStay
<1>2. TypeInv'
  BY <1>1 DEF IInv, TypeInv, AreTasks
<1>3. ContentIsOwned'
  BY <1>1, PlacesStay DEF IInv, ContentIsOwned, IsRoom
<1>4. HeldIsOwned'
  <2> SUFFICES ASSUME NEW v \in Servers, NEW m \in task'[v].held
               PROVE  \/ owner[m] = task'[v].subject
                      \/ task'[v].op # "ingest" /\ MemoryPlace(v)'[2] \in Shared
    BY DEF HeldIsOwned
  <2>1. /\ task'[v].held = task[v].held
        /\ task'[v].op = task[v].op
        /\ task'[v].subject = task[v].subject
    BY DEF HoldNoMore
  <2>2. MemoryPlace(v)' = MemoryPlace(v)
    BY <1>1, <2>1 DEF MemoryPlace
  <2> QED
    BY <2>1, <2>2 DEF IInv, HeldIsOwned
<1> QED
  BY <1>2, <1>3, <1>4 DEF IInv

\* A step that leaves the stores alone and goes on, or ends the call, is one.
LEMMA StoresLeftAlone ==
    ASSUME IInv, UNCHANGED <<deployment, owner, content>>, AreTasks', HoldNoMore
    PROVE  IInv'
<1>1. content' \in [Places -> SUBSET Memories]
  BY DEF IInv, TypeInv
<1> QED
  BY <1>1, NothingAdded

\* A new call holds nothing yet.
LEMMA BeginningCall ==
    ASSUME TypeInv, NEW v \in Servers, NEW t, IsTask(t), t.held = {},
           task' = [task EXCEPT ![v] = t]
    PROVE  AreTasks' /\ HoldNoMore
BY DEF TypeInv, AreTasks, HoldNoMore

\* Losing a bundle takes memories away from places and gives none.
LEMMA PoppingBundle ==
    ASSUME IInv, NEW v \in Servers, NEW s \in Subjects, PopBundle(v, s)
    PROVE  /\ content' \in [Places -> SUBSET Memories]
           /\ \A place \in Places : content'[place] \subseteq content[place]
BY DEF IInv, TypeInv, PopBundle

\* get_or_create begins a call that holds nothing, and empties the in-memory stores.
LEMMA GetOrCreateStep ==
    ASSUME IInv, NEW v \in Servers, NEW s \in Subjects,
           NEW op \in Calls, GetOrCreate(v, op, s)
    PROVE  IInv'
<1> DEFINE t == [op |-> op, subject |-> s, held |-> {}, todo |-> WithNewSubject(v, op, s)]
<1>1. t \in CallOf(op)
  BY StepsAreOfTheCall DEF CallOf
<1>2. IsTask(t) /\ t.held = {}
  BY <1>1 DEF IsTask, Ops, Calls
<1>3. task' = [task EXCEPT ![v] = t]
  BY DEF GetOrCreate
<1>4. AreTasks' /\ HoldNoMore
  <2> HIDE DEF t
  <2> QED
    BY <1>2, <1>3, BeginningCall DEF IInv
<1>5. /\ content' \in [Places -> SUBSET Memories]
      /\ \A place \in Places : content'[place] \subseteq content[place]
  <2>1. CASE s \in bundles[v]
    BY <2>1 DEF GetOrCreate, storage, IInv, TypeInv
  <2>2. CASE BuildBundle(v, s)
    BY <2>2 DEF BuildBundle, IInv, TypeInv
  <2> QED
    BY <2>1, <2>2 DEF GetOrCreate
<1>6. UNCHANGED <<deployment, owner>>
  BY DEF GetOrCreate, config
<1> QED
  BY <1>4, <1>5, <1>6, NothingAdded

\* delete_subject begins a call that holds nothing, or is over with the bundle gone.
LEMMA DeleteSubjectStep ==
    ASSUME IInv, NEW v \in Servers, NEW s \in Subjects, DeleteSubject(v, s)
    PROVE  IInv'
<1> DEFINE t == [op |-> "delete", subject |-> s, held |-> {}, todo |-> Steps("delete", s)]
<1>1. t \in CallOf("delete")
  BY StepsAreOfTheCall DEF CallOf
<1>2. IsTask(t) /\ t.held = {}
  BY <1>1 DEF IsTask, Ops, Calls
<1>3. AreTasks' /\ HoldNoMore
  <2>1. CASE task' = [task EXCEPT ![v] = t]
    <3> HIDE DEF t
    <3> QED
      BY <1>2, <2>1, BeginningCall DEF IInv
  <2>2. CASE UNCHANGED task
    BY <2>2 DEF IInv, TypeInv, AreTasks, HoldNoMore
  <2> QED
    BY <2>1, <2>2 DEF DeleteSubject
<1>4. /\ content' \in [Places -> SUBSET Memories]
      /\ \A place \in Places : content'[place] \subseteq content[place]
  <2>1. CASE PopBundle(v, s)
    BY <2>1, PoppingBundle
  <2>2. CASE UNCHANGED content
    BY <2>2 DEF IInv, TypeInv
  <2> QED
    BY <2>1, <2>2 DEF DeleteSubject
<1>5. UNCHANGED <<deployment, owner>>
  BY DEF DeleteSubject, config
<1> QED
  BY <1>3, <1>4, <1>5, NothingAdded

\* Writing what a call holds into a place with room for it.
LEMMA PutStep ==
    ASSUME IInv, NEW v \in Servers, NEW step, At(v, step), NEW place \in Places,
           \A m \in task[v].held : IsRoom(place, owner[m]) \/ GetsEveryones(place),
           Put(v, place, task[v].held), UNCHANGED <<deployment, owner>>
    PROVE  IInv'
<1>1. CASE Raise(v, place)
  <2>1. AreTasks' /\ HoldNoMore
    BY <1>1, BecomingIdle DEF Raise, IInv
  <2> QED
    BY <1>1, <2>1, StoresLeftAlone DEF Raise
<1>2. CASE /\ content' = [content EXCEPT ![place] = content[place] \cup task[v].held]
           /\ Proceed(v)
  <2>1. AreTasks' /\ HoldNoMore
    BY <1>2, Proceeding DEF IInv
  <2>2. task[v].held \in SUBSET Memories
    BY AtItsStep DEF IInv, CallOf
  <2>3. content' \in [Places -> SUBSET Memories]
    BY <1>2, <2>2 DEF IInv, TypeInv
  <2>4. /\ Places' = Places
        /\ \A role, w, s : RouteBackend(role, w, s)' = RouteBackend(role, w, s)
    BY PlacesStay
  <2>5. TypeInv'
    BY <2>1, <2>3, <2>4 DEF IInv, TypeInv, AreTasks
  <2>6. ContentIsOwned'
    <3> SUFFICES ASSUME NEW p \in Places, NEW m \in content'[p]
                 PROVE  IsRoom(p, owner[m]) \/ GetsEveryones(p)
      BY <2>4, PlacesStay DEF ContentIsOwned, IsRoom
    <3>1. m \in content[p] \/ (p = place /\ m \in task[v].held)
      BY <1>2 DEF IInv, TypeInv
    <3> QED
      BY <3>1 DEF IInv, ContentIsOwned
  <2>7. HeldIsOwned'
    <3> SUFFICES ASSUME NEW w \in Servers, NEW m \in task'[w].held
                 PROVE  \/ owner[m] = task'[w].subject
                        \/ task'[w].op # "ingest" /\ MemoryPlace(w)'[2] \in Shared
      BY DEF HeldIsOwned
    <3>1. /\ task'[w].held = task[w].held
          /\ task'[w].op = task[w].op
          /\ task'[w].subject = task[w].subject
      BY <2>1 DEF HoldNoMore
    <3>2. MemoryPlace(w)' = MemoryPlace(w)
      BY <2>4, <3>1 DEF MemoryPlace
    <3> QED
      BY <3>1, <3>2 DEF IInv, HeldIsOwned
  <2> QED
    BY <2>5, <2>6, <2>7 DEF IInv
<1> QED
  BY <1>1, <1>2 DEF Put

\* The graph and the vector store get the call's new memory, its subject's.
LEMMA IngestCopyStep ==
    ASSUME IInv, NEW v \in Servers, NEW role \in {"graph", "vector"}, IngestCopy(v, role)
    PROVE  IInv'
<1> DEFINE place == RouteBackend(role, v, task[v].subject)
<1>1. At(v, role) /\ Put(v, place, task[v].held) /\ UNCHANGED <<deployment, owner>>
  BY DEF IngestCopy, config
<1>2. task[v] \in CallOf("ingest")
  BY <1>1, AtItsStep DEF IInv, StepsOf
<1>3. task[v].op = "ingest" /\ task[v].subject \in Subjects
  BY <1>2 DEF CallOf
<1>4. place \in Places /\ IsRoom(place, task[v].subject)
  BY <1>3, RoutesToRooms DEF IInv, TypeInv, Roles
<1>5. \A m \in task[v].held : IsRoom(place, owner[m])
  BY <1>3, <1>4 DEF IInv, HeldIsOwned
<1> HIDE DEF place
<1> QED
  BY <1>1, <1>4, <1>5, PutStep

\* A memory that was read goes back to the store it was read from.
LEMMA RewriteStep ==
    ASSUME IInv, NEW v \in Servers, Rewrite(v)
    PROVE  IInv'
<1> DEFINE place == RouteBackend("memory", v, task[v].subject)
<1>1. /\ At(v, "rewrite") /\ Put(v, place, task[v].held)
      /\ UNCHANGED <<deployment, owner>>
  BY DEF Rewrite, config
<1>2. PICK op \in {"rewrite", "dream"} : task[v] \in CallOf(op)
  BY <1>1, AtItsStep DEF IInv, StepsOf, Ops, Calls
<1>3. task[v].subject \in Subjects
  BY <1>2 DEF CallOf
<1>4. place \in Places /\ IsRoom(place, task[v].subject)
  BY <1>3, RoutesToRooms DEF IInv, TypeInv, Roles
<1>5. \A m \in task[v].held : IsRoom(place, owner[m])
  BY <1>4 DEF IInv, HeldIsOwned, MemoryPlace, IsRoom
<1> HIDE DEF place
<1> QED
  BY <1>1, <1>4, <1>5, PutStep

\* A graph store beside the memory store gets what was read from that.
LEMMA UpsertMemoryStep ==
    ASSUME IInv, NEW v \in Servers, UpsertMemory(v)
    PROVE  IInv'
<1> DEFINE place == RouteBackend("graph", v, task[v].subject)
<1>1. /\ At(v, "copy") /\ Put(v, place, task[v].held)
      /\ UNCHANGED <<deployment, owner>>
  BY DEF UpsertMemory, config
<1>2. task[v] \in CallOf("dream")
  BY <1>1, AtItsStep DEF IInv, StepsOf, Ops, Calls
<1>3. task[v].subject \in Subjects
  BY <1>2 DEF CallOf
<1>4. /\ place \in Places /\ IsRoom(place, task[v].subject)
      /\ place \in GraphCopies \/ place = MemoryPlace(v)
  BY <1>3, RoutesToRooms, SharedRoutes DEF IInv, TypeInv, Roles, GraphCopies, MemoryPlace
<1>5. \A m \in task[v].held : IsRoom(place, owner[m]) \/ GetsEveryones(place)
  <2> SUFFICES ASSUME NEW m \in task[v].held, owner[m] # task[v].subject
               PROVE  IsRoom(place, owner[m]) \/ GetsEveryones(place)
    BY <1>4
  <2>1. MemoryPlace(v)[2] \in Shared
    BY DEF IInv, HeldIsOwned
  <2> QED
    BY <1>4, <2>1, MemoryRoutes DEF IInv, TypeInv, MemoryPlace, GetsEveryones, IsRoom
<1> HIDE DEF place
<1> QED
  BY <1>1, <1>4, <1>5, PutStep

\* A memory is given its subject when it is made; until then none holds it.
LEMMA IngestMemoryStep ==
    ASSUME IInv, NEW v \in Servers, IngestMemory(v)
    PROVE  IInv'
<1> DEFINE s == task[v].subject
           place == RouteBackend("memory", v, s)
<1>1. At(v, "memory") /\ UNCHANGED deployment
  BY DEF IngestMemory, config
<1>2. task[v] \in CallOf("ingest")
  BY <1>1, AtItsStep DEF IInv, StepsOf
<1>3. s \in Subjects /\ task[v].op = "ingest"
  BY <1>2 DEF CallOf
<1>4. place \in Places /\ IsRoom(place, s)
  BY <1>3, RoutesToRooms DEF IInv, TypeInv, Roles
<1>5. PICK m \in Memories :
         /\ owner[m] = Nobody
         /\ owner' = [owner EXCEPT ![m] = s]
         /\ IF Fails(place) THEN Raise(v, place)
            ELSE /\ content' = [content EXCEPT ![place] = @ \cup {m}]
                 /\ task' = [task EXCEPT ![v].todo = Tail(@), ![v].held = {m}]
                 /\ UNCHANGED tables
  BY ZenonT(30) DEF IngestMemory
<1>6. owner' \in [Memories -> Subjects \cup {Nobody}]
  BY <1>3, <1>5 DEF IInv, TypeInv
<1>7. /\ Places' = Places
      /\ \A role, w, r : RouteBackend(role, w, r)' = RouteBackend(role, w, r)
  BY <1>1, PlacesStay
<1>8. /\ content' \in [Places -> SUBSET Memories]
      /\ \A p \in Places, k \in Memories :
            k \in content'[p] => k \in content[p] \/ (p = place /\ k = m)
  BY <1>5 DEF Raise, IInv, TypeInv
<1>9. /\ AreTasks'
      /\ \A w \in Servers :
            \/ task'[w].held = {}
            \/ /\ task'[w].held = task[w].held /\ task'[w].op = task[w].op
               /\ task'[w].subject = task[w].subject
            \/ task'[w].held = {m} /\ task'[w].subject = s
  <2>1. CASE Raise(v, place)
    BY <2>1, BecomingIdle DEF Raise, HoldNoMore, IInv
  <2>2. CASE task' = [task EXCEPT ![v].todo = Tail(@), ![v].held = {m}]
    <3>1. task[v].todo \in Seq(StepsOf("ingest")) /\ task[v].todo # <<>>
      BY <1>1, <1>2 DEF CallOf, At
    <3>2. Tail(task[v].todo) \in Seq(StepsOf("ingest"))
      BY <3>1
    <3>3. task'[v] = [task[v] EXCEPT !.todo = Tail(task[v].todo), !.held = {m}]
      BY <2>2 DEF IInv, TypeInv, AreTasks
    <3>4. task'[v] \in CallOf("ingest") /\ task'[v].held = {m} /\ task'[v].subject = s
      <4>1. {m} \in SUBSET Memories
        OBVIOUS
      <4> QED
        BY <1>2, <3>2, <3>3, <4>1 DEF CallOf
    <3>5. \A w \in Servers \ {v} : task'[w] = task[w]
      BY <2>2 DEF IInv, TypeInv, AreTasks
    <3>6. \A w \in Servers : IsTask(task'[w])
      BY <3>4, <3>5 DEF IInv, TypeInv, AreTasks, IsTask, Ops, Calls
    <3>7. AreTasks'
      BY <2>2, <3>6 DEF IInv, TypeInv, AreTasks
    <3> QED
      BY <3>4, <3>5, <3>7
  <2> QED
    BY <1>5, <2>1, <2>2
<1>10. TypeInv'
  BY <1>1, <1>6, <1>7, <1>8, <1>9 DEF IInv, TypeInv, AreTasks
<1>11. ContentIsOwned'
  <2> SUFFICES ASSUME NEW p \in Places, NEW k \in content'[p]
               PROVE  IsRoom(p, owner'[k]) \/ GetsEveryones(p)
    BY <1>1, <1>7, PlacesStay DEF ContentIsOwned, IsRoom
  <2>1. k \in Memories /\ (k \in content[p] \/ (p = place /\ k = m))
    BY <1>8
  <2>2. CASE k = m /\ p = place
    BY <1>4, <1>5, <2>2 DEF IInv, TypeInv
  <2>3. CASE k = m /\ k \in content[p]
    <3>1. IsRoom(p, Nobody) \/ GetsEveryones(p)
      BY <1>5, <2>3 DEF IInv, ContentIsOwned
    <3>2. p[2] \in Shared \/ GetsEveryones(p)
      BY <3>1, PlacesNameSubjects, NobodyIsNoSubject DEF IsRoom, IInv, TypeInv
    <3> QED
      BY <3>2 DEF IsRoom
  <2>4. CASE k # m
    BY <1>5, <2>1, <2>4 DEF IInv, TypeInv, ContentIsOwned
  <2> QED
    BY <2>1, <2>2, <2>3, <2>4
<1>12. HeldIsOwned'
  <2> SUFFICES ASSUME NEW w \in Servers, NEW k \in task'[w].held
               PROVE  \/ owner'[k] = task'[w].subject
                      \/ task'[w].op # "ingest" /\ MemoryPlace(w)'[2] \in Shared
    BY DEF HeldIsOwned
  <2>1. CASE task'[w].held = {m} /\ task'[w].subject = s
    BY <1>5, <2>1 DEF IInv, TypeInv
  <2>2. CASE /\ task'[w].held = task[w].held /\ task'[w].op = task[w].op
             /\ task'[w].subject = task[w].subject
    <3>1. MemoryPlace(w)' = MemoryPlace(w)
      BY <1>7, <2>2 DEF MemoryPlace
    <3>2. \/ owner[k] = task[w].subject
          \/ task[w].op # "ingest" /\ MemoryPlace(w)[2] \in Shared
      BY <2>2 DEF IInv, HeldIsOwned
    <3>3. CASE task[w].op # "ingest" /\ MemoryPlace(w)[2] \in Shared
      BY <2>2, <3>1, <3>3
    <3>4. CASE owner[k] = task[w].subject
      <4>1. IsTask(task[w]) /\ task[w].held # {}
        BY <2>2 DEF IInv, TypeInv, AreTasks
      <4>2. task[w].subject \in Subjects /\ k \in Memories
        BY <2>2, <4>1 DEF IsTask, CallOf, Idle
      <4>3. k # m
        BY <1>5, <3>4, <4>2, NobodyIsNoSubject
      <4> QED
        BY <1>5, <2>2, <3>4, <4>2, <4>3 DEF IInv, TypeInv
    <3> QED
      BY <3>2, <3>3, <3>4
  <2> QED
    BY <1>9, <2>1, <2>2
<1> QED
  BY <1>10, <1>11, <1>12 DEF IInv

\* What a subject's memory store holds is the subject's, or everyone's.
LEMMA ReadMemoriesStep ==
    ASSUME IInv, NEW v \in Servers, ReadMemories(v)
    PROVE  IInv'
<1> DEFINE s == task[v].subject
           place == RouteBackend("memory", v, s)
<1>1. At(v, "read") /\ UNCHANGED <<deployment, owner>>
  BY DEF ReadMemories, config
<1>2. PICK op \in {"list", "rewrite", "dream"} : task[v] \in CallOf(op)
  BY <1>1, AtItsStep DEF IInv, StepsOf, Ops, Calls
<1>3. s \in Subjects /\ task[v].op = op
  BY <1>2 DEF CallOf
<1>4. place \in Places /\ IsRoom(place, s)
  BY <1>3, RoutesToRooms DEF IInv, TypeInv, Roles
<1>5. PICK some \in SUBSET content[place] :
         \/ Raise(v, place)
         \/ UNCHANGED content /\ task' = [task EXCEPT ![v] = Idle]
         \/ /\ UNCHANGED content
            /\ task' = [task EXCEPT ![v] = [task[v] EXCEPT !.todo = Tail(task[v].todo),
                                                           !.held = some]]
  BY DEF ReadMemories, storage, IInv, TypeInv
<1>6. CASE UNCHANGED content /\ task' = [task EXCEPT ![v] = Idle]
  <2>1. AreTasks' /\ HoldNoMore
    BY <1>6, BecomingIdle DEF IInv
  <2> QED
    BY <1>1, <1>6, <2>1, StoresLeftAlone
<1>7. CASE /\ UNCHANGED content
           /\ task' = [task EXCEPT ![v] = [task[v] EXCEPT !.todo = Tail(task[v].todo),
                                                          !.held = some]]
  <2>1. task[v].todo \in Seq(StepsOf(op)) /\ task[v].todo # <<>>
    BY <1>1, <1>2 DEF CallOf, At
  <2>2. Tail(task[v].todo) \in Seq(StepsOf(op)) /\ some \in SUBSET Memories
    BY <1>4, <2>1 DEF IInv, TypeInv
  <2>3. task'[v] = [task[v] EXCEPT !.todo = Tail(task[v].todo), !.held = some]
    BY <1>7 DEF IInv, TypeInv, AreTasks
  <2>4. /\ task'[v] \in CallOf(op) /\ task'[v].held = some
        /\ task'[v].subject = s /\ task'[v].op = op
    <3> HIDE DEF place
    <3> QED
      BY <1>2, <2>2, <2>3 DEF CallOf
  <2>5. \A w \in Servers \ {v} : task'[w] = task[w]
    BY <1>7 DEF IInv, TypeInv
  <2>6. \A w \in Servers : IsTask(task'[w])
    BY <2>4, <2>5 DEF IInv, TypeInv, AreTasks, IsTask, Ops, Calls
  <2>7. /\ Places' = Places
        /\ \A role, w, r : RouteBackend(role, w, r)' = RouteBackend(role, w, r)
    BY <1>1, PlacesStay
  <2>8. TypeInv'
    BY <1>1, <1>7, <2>6, <2>7 DEF IInv, TypeInv, AreTasks
  <2>9. ContentIsOwned'
    BY <1>1, <1>7, <2>7, PlacesStay DEF IInv, ContentIsOwned, IsRoom
  <2>10. HeldIsOwned'
    <3> SUFFICES ASSUME NEW w \in Servers, NEW m \in task'[w].held
                 PROVE  \/ owner[m] = task'[w].subject
                        \/ task'[w].op # "ingest" /\ MemoryPlace(w)'[2] \in Shared
      BY <1>1 DEF HeldIsOwned
    <3>1. CASE w = v
      <4>1. MemoryPlace(v)' = place
        BY <2>4, <2>7 DEF MemoryPlace
      <4>2. IsRoom(place, owner[m]) \/ place[2] \in Shared
        BY <1>4, <2>4, <3>1, MemoryRoutes DEF IInv, TypeInv, ContentIsOwned, GetsEveryones
      <4>3. place[2] \in Shared \/ owner[m] = s
        <5>1. CASE place[2] \notin Shared
          BY <1>4, <4>2, <5>1 DEF IsRoom
        <5> QED
          BY <5>1
      <4> QED
        BY <2>4, <3>1, <4>1, <4>3
    <3>2. CASE w # v
      <4>1. task'[w] = task[w] /\ MemoryPlace(w)' = MemoryPlace(w)
        BY <2>5, <2>7, <3>2 DEF MemoryPlace
      <4> QED
        BY <4>1 DEF IInv, HeldIsOwned
    <3> QED
      BY <3>1, <3>2
  <2> QED
    BY <2>8, <2>9, <2>10 DEF IInv
<1> QED
  BY <1>5, <1>6, <1>7 DEF Raise

\* Writing subjects.json touches no store.
LEMMA PersistStep ==
    ASSUME IInv, NEW v \in Servers, Truncate(v) \/ Write(v)
    PROVE  IInv'
<1>1. \E step \in {"truncate", "write"} : At(v, step) /\ Proceed(v)
  BY DEF Truncate, Write
<1>2. AreTasks' /\ HoldNoMore
  BY <1>1, Proceeding DEF IInv
<1>3. UNCHANGED <<deployment, owner, content>>
  BY DEF Truncate, Write, config, storage
<1> QED
  BY <1>2, <1>3, StoresLeftAlone

\* Deleting a subject takes memories away and gives none.
LEMMA DeletionStep ==
    ASSUME IInv, NEW v \in Servers, Unlink(v) \/ Forget(v)
    PROVE  IInv'
<1>1. \E step \in {"unlink", "forget"} : At(v, step) /\ Proceed(v)
  BY DEF Unlink, Forget
<1>2. AreTasks' /\ HoldNoMore
  BY <1>1, Proceeding DEF IInv
<1>3. UNCHANGED <<deployment, owner>>
  BY DEF Unlink, Forget, config
<1>4. /\ content' \in [Places -> SUBSET Memories]
      /\ \A place \in Places : content'[place] \subseteq content[place]
  <2>1. CASE Unlink(v)
    <3>1. PICK f : content' = [content EXCEPT ![f] = {}]
      BY <2>1 DEF Unlink
    <3> QED
      BY <3>1 DEF IInv, TypeInv
  <2>2. CASE Forget(v)
    <3>1. At(v, "forget") /\ PopBundle(v, task[v].subject)
      BY <2>2 DEF Forget
    <3>2. task[v].subject \in Subjects
      BY <3>1, AtItsStep DEF IInv, CallOf
    <3> QED
      BY <3>1, <3>2, PoppingBundle
  <2> QED
    BY <2>1, <2>2
<1> QED
  BY <1>2, <1>3, <1>4, NothingAdded

\* A server that stops loses its in-memory stores; one that starts reads a list.
LEMMA StopOrStartStep ==
    ASSUME IInv, NEW v \in Servers, Stop(v) \/ Start(v)
    PROVE  IInv'
<1>1. CASE Stop(v)
  <2>1. AreTasks' /\ HoldNoMore
    BY <1>1, BecomingIdle DEF Stop, IInv
  <2>2. /\ content' \in [Places -> SUBSET Memories]
        /\ \A place \in Places : content'[place] \subseteq content[place]
    BY <1>1 DEF Stop, IInv, TypeInv
  <2> QED
    BY <1>1, <2>1, <2>2, NothingAdded DEF Stop, config
<1>2. CASE Start(v)
  <2>1. AreTasks' /\ HoldNoMore
    BY <1>2 DEF Start, IInv, TypeInv, AreTasks, HoldNoMore
  <2> QED
    BY <1>2, <2>1, StoresLeftAlone DEF Start, config, storage
<1> QED
  BY <1>1, <1>2

\* No store holds a memory and no server is in a call.
LEMMA InitiallyOwned == Init => IInv
<1> SUFFICES ASSUME Init PROVE IInv
  OBVIOUS
<1>1. TypeInv
  BY DEF Init, TypeInv, AreTasks, IsTask
<1>2. ContentIsOwned
  BY DEF Init, ContentIsOwned
<1>3. HeldIsOwned
  BY DEF Init, HeldIsOwned, Idle
<1> QED
  BY <1>1, <1>2, <1>3 DEF IInv

\* Every action preserves the invariant.
LEMMA StaysOwned == IInv /\ [Next]_vars => IInv'
<1> SUFFICES ASSUME IInv, [Next]_vars PROVE IInv'
  OBVIOUS
<1>1. CASE UNCHANGED vars
  <2>1. AreTasks' /\ HoldNoMore /\ UNCHANGED <<deployment, owner, content>>
    BY <1>1 DEF vars, IInv, TypeInv, AreTasks, HoldNoMore
  <2> QED
    BY <2>1, StoresLeftAlone
<1>2. CASE Next
  <2>1. PICK v \in Servers :
          \/ \E s \in Subjects : \/ GetOrCreate(v, "ingest", s)
                                 \/ GetOrCreate(v, "rewrite", s)
                                 \/ GetOrCreate(v, "dream", s)
                                 \/ GetOrCreate(v, "list", s)
                                 \/ DeleteSubject(v, s)
          \/ Truncate(v) \/ Write(v)
          \/ IngestMemory(v) \/ IngestCopy(v, "graph") \/ IngestCopy(v, "vector")
          \/ ReadMemories(v) \/ Rewrite(v) \/ UpsertMemory(v)
          \/ Unlink(v) \/ Forget(v)
          \/ Stop(v) \/ Start(v)
    BY <1>2 DEF Next
  <2>2. CASE \E s \in Subjects : \/ GetOrCreate(v, "ingest", s)
                                 \/ GetOrCreate(v, "rewrite", s)
                                 \/ GetOrCreate(v, "dream", s)
                                 \/ GetOrCreate(v, "list", s)
    BY <2>2, GetOrCreateStep DEF Calls
  <2>3. CASE \E s \in Subjects : DeleteSubject(v, s)
    BY <2>3, DeleteSubjectStep
  <2>4. CASE Truncate(v) \/ Write(v)
    BY <2>4, PersistStep
  <2>5. CASE IngestMemory(v)
    BY <2>5, IngestMemoryStep
  <2>6. CASE IngestCopy(v, "graph") \/ IngestCopy(v, "vector")
    BY <2>6, IngestCopyStep
  <2>7. CASE ReadMemories(v)
    BY <2>7, ReadMemoriesStep
  <2>8. CASE Rewrite(v) \/ UpsertMemory(v)
    BY <2>8, RewriteStep, UpsertMemoryStep
  <2>9. CASE Unlink(v) \/ Forget(v)
    BY <2>9, DeletionStep
  <2>10. CASE Stop(v) \/ Start(v)
    BY <2>10, StopOrStartStep
  <2> QED
    BY <2>1, <2>2, <2>3, <2>4, <2>5, <2>6, <2>7, <2>8, <2>9, <2>10
<1> QED
  BY <1>1, <1>2

\* What a subject's place holds is its own, unless the place is everyone's.
LEMMA OwnedIsIsolated == IInv => SubjectsAreIsolated
<1> SUFFICES ASSUME IInv, NEW v \in Servers, NEW s \in Subjects,
                    NEW role \in Roles, NEW m \in content[RouteBackend(role, v, s)]
             PROVE  \/ owner[m] = s
                    \/ RouteBackend(role, v, s)[2] \in Shared
                    \/ GetsEveryones(RouteBackend(role, v, s))
  BY DEF SubjectsAreIsolated, PlacesOf, GetsEveryones
<1> DEFINE place == RouteBackend(role, v, s)
<1>1. place \in Places /\ IsRoom(place, s)
  BY RoutesToRooms DEF IInv, TypeInv
<1>2. IsRoom(place, owner[m]) \/ GetsEveryones(place)
  BY <1>1 DEF IInv, ContentIsOwned
<1> HIDE DEF place
<1>3. CASE place[2] \notin Shared
  <2>1. owner[m] = s \/ GetsEveryones(place)
    BY <1>1, <1>2, <1>3 DEF IsRoom
  <2> QED
    BY <2>1 DEF place
<1> QED
  BY <1>3 DEF place

\* In every run of any number of MCP servers on one data directory, a subject's
\* stores hold only memories ingested for this subject, unless the role's store is
\* a service that _route_backend leaves as it is, or a graph store to which dreaming
\* copies what it reads in a memory store that is such a service.
THEOREM SubjectsStayIsolated == Spec => []SubjectsAreIsolated
<1>1. Init => IInv
  BY InitiallyOwned
<1>2. IInv /\ [Next]_vars => IInv'
  BY StaysOwned
<1>3. IInv => SubjectsAreIsolated
  BY OwnedIsIsolated
<1> QED
  BY <1>1, <1>2, <1>3, PTL DEF Spec

-----------------------------------------------------------------------------
(***************************************************************************)
(* Where the data is.  The invariant, beside IInv.                         *)
(***************************************************************************)
\* Of a deletion: the number of its step, and whether this is as Steps has it.
Progress(v) == Len(LocalPaths(task[v].subject)) + 4 - Len(task[v].todo)

InDeletion(v) ==
    LET s == task[v].subject
    IN  /\ task[v].held = {}
        /\ Progress(v) \in 1..Len(LocalPaths(s)) + 3
        /\ \A j \in 1..Len(task[v].todo) :
              task[v].todo[j] = Steps("delete", s)[Progress(v) + j - 1]
        /\ Progress(v) > Len(LocalPaths(s)) + 1 => s \notin bundles[v]

\* A call has steps to go, and until it deletes it the subject and its bundle.
CallIsUnderWay(v) ==
    task[v] # Idle =>
        /\ v \in up
        /\ task[v].todo # <<>>
        /\ task[v].op \in Calls =>
              task[v].subject \in known[v] /\ task[v].subject \in bundles[v]
        /\ task[v].op = "ingest" => task[v].todo[Len(task[v].todo)] = "vector"
        /\ task[v].op = "delete" => InDeletion(v)

CallsAreUnderWay == \A v \in Servers : CallIsUnderWay(v)

\* A server that is down knows nothing.
DownIsEmpty ==
    /\ \A v \in Servers \ up :
          known[v] = {} /\ bundles[v] = {} /\ opened[v] = {} /\ task[v] = Idle
    /\ \A place \in Places : place[1] = "process" /\ content[place] # {} => place[4] \in up

Types ==
    /\ up \subseteq live /\ live \subseteq Servers
    /\ index \in (SUBSET Subjects) \cup {Torn}
    /\ known \in [Servers -> SUBSET Subjects]
    /\ bundles \in [Servers -> SUBSET Subjects]
    /\ opened \in [Servers -> SUBSET AllFiles]
    /\ tables \in [AllFiles -> {"none", "blank", "ready"}]
    /\ doomed \subseteq {m \in Memories : owner[m] # Nobody}
    /\ calls \in 0..MaxCalls /\ stops \in 0..MaxStops

Base == IInv /\ Types /\ CallsAreUnderWay /\ DownIsEmpty

\* A server keeps track of a file: it knows the subject, and its deletion has
\* not come past the file.
Keeps(v, f) ==
    /\ v \in up
    /\ f[3] \in known[v]
    /\ task[v].op = "delete" /\ task[v].subject = f[3] =>
          \E j \in Progress(v)..Len(LocalPaths(f[3])) : LocalPaths(f[3])[j] = f

\* A subject of the only server is listed, or about to be.
KnownAreListed ==
    OnlyServer => \A v \in up : \A s \in known[v] :
        \/ index = Torn
        \/ s \in index
        \/ task[v].op \in Calls /\ task[v].subject = s /\ At(v, "truncate")

FilesAreKept ==
    \A f \in AllFiles : content[f] # {} =>
        /\ stops > 0 \/ \E v \in up : Keeps(v, f)
        /\ OnlyServer => /\ index = Torn \/ f[3] \in index
                         /\ \A v \in up : Keeps(v, f)

\* A graph store that is kept beside a remote memory store.
Revives(place) == deployment["memory"] \in PerSubject \cup Shared /\ place \in GraphCopies

\* What is cleared stays so, on the host, but in a graph store of this kind.
StaysCleared(place) == place[1] # "remote" /\ ~Revives(place)

\* What was deleted is not on the host, and no call that does not read it
\* from a service has it in hand.
DeletedAreGone ==
    OnlyServer =>
        /\ \A place \in Places :
              StaysCleared(place) => content[place] \cap doomed = {}
        /\ \A v \in Servers : task[v].held \cap doomed # {} =>
              task[v].op # "ingest" /\ MemoryPlace(v)[1] = "remote"

\* The files of a bundle are open and have their tables, until it is deleted.
BundlesAreOpen ==
    OnlyServer =>
        /\ \A f \in AllFiles : tables[f] # "blank"
        /\ \A v \in Servers : \A f \in opened[v] : tables[f] = "ready"
        /\ \A v \in Servers : \A s \in bundles[v] :
              \/ task[v].op = "delete" /\ task[v].subject = s
              \/ \A f \in PlacesOf(v, s) : IsFile(f) => f \in opened[v]

DataInv == Base /\ KnownAreListed /\ FilesAreKept /\ DeletedAreGone /\ BundlesAreOpen

-----------------------------------------------------------------------------
(***************************************************************************)
(* Places and files.                                                       *)
(***************************************************************************)
\* What kinds of places _route_backend gives, and what they name.
LEMMA PlaceKinds ==
    ASSUME deployment \in Deployments, NEW place \in Places
    PROVE  /\ place[1] \in {"file", "process", "remote"}
           /\ place[1] = "file" =>
                /\ place \in {<<"file", "db", place[3]>>, <<"file", "duckdb", place[3]>>}
                /\ place[3] \in Subjects
           /\ place[1] = "process" =>
                /\ place[3] \in Subjects /\ place[4] \in Servers
                /\ place \in PlacesOf(place[4], place[3])
           /\ place[1] # "remote" => place[2] \notin Shared
<1>1. PICK v \in Servers, s \in Subjects, role \in Roles : place = RouteBackend(role, v, s)
  BY DEF Places, PlacesOf
<1>2. deployment[role] \in Files \cup Ephemeral \cup PerSubject \cup Shared
  BY DeploymentsAreRoutable
<1>3. place \in PlacesOf(v, s)
  BY <1>1 DEF PlacesOf
<1> USE DEF Files, Ephemeral, PerSubject, Shared
<1>4. CASE deployment[role] \in Files
  <2>1. place \in {<<"file", "db", s>>, <<"file", "duckdb", s>>}
    <3>1. CASE deployment[role] = "duckdb"
      BY <1>1, <1>4, <3>1 DEF RouteBackend
    <3>2. CASE deployment[role] # "duckdb"
      BY <1>1, <1>4, <3>2 DEF RouteBackend
    <3> QED
      BY <3>1, <3>2
  <2> QED
    BY <2>1 DEF Shared
<1>5. CASE deployment[role] \in Ephemeral
  <2>1. place = <<"process", role, s, v>>
    BY <1>1, <1>5 DEF RouteBackend
  <2> QED
    BY <1>3, <2>1 DEF Shared, Roles
<1>6. CASE deployment[role] \in PerSubject \cup Shared
  <2>1. place[1] = "remote"
    BY <1>1, <1>6 DEF RouteBackend, Files, Ephemeral, PerSubject, Shared
  <2> QED
    BY <2>1
<1> QED
  BY <1>2, <1>4, <1>5, <1>6

\* A subject's own place in memory or on disk names it.
LEMMA OwnPlaces ==
    ASSUME deployment \in Deployments, NEW v \in Servers, NEW s \in Subjects,
           NEW place \in PlacesOf(v, s)
    PROVE  /\ place \in Places
           /\ place[1] # "remote" => place[3] = s
           /\ place[1] = "process" => place[4] = v
<1>1. PICK role \in Roles : place = RouteBackend(role, v, s)
  BY DEF PlacesOf
<1>2. place \in Places /\ IsRoom(place, s)
  BY <1>1, RoutesToRooms
<1>3. place[1] # "remote" => place[3] = s
  BY <1>2, PlaceKinds DEF IsRoom
<1>4. place[1] = "process" => place[4] = v
  BY <1>1 DEF RouteBackend
<1> QED
  BY <1>2, <1>3, <1>4

\* _subject_local_paths lists the files of the subject, and all of them.
LEMMA LocalFiles ==
    ASSUME deployment \in Deployments, NEW s \in Subjects
    PROVE  /\ Len(LocalPaths(s)) \in Nat
           /\ \A j \in 1..Len(LocalPaths(s)) :
                 LocalPaths(s)[j] \in AllFiles /\ LocalPaths(s)[j][3] = s
           /\ \A f \in AllFiles : f[3] = s =>
                 \E j \in 1..Len(LocalPaths(s)) : LocalPaths(s)[j] = f
<1> DEFINE db == <<"file", "db", s>>
           duckdb == <<"file", "duckdb", s>>
<1>1. \A f \in AllFiles : f[3] = s => f = db \/ f = duckdb
  BY PlaceKinds DEF AllFiles, IsFile
<1>2. /\ db \in Places => db \in AllFiles
      /\ duckdb \in Places => duckdb \in AllFiles
  BY DEF AllFiles, IsFile
<1>3. AllFiles \subseteq Places
  BY DEF AllFiles
<1>4. /\ db[3] = s /\ duckdb[3] = s
  OBVIOUS
<1>5. LocalPaths(s) = (IF db \in Places THEN <<db>> ELSE <<>>)
                        \o (IF duckdb \in Places THEN <<duckdb>> ELSE <<>>)
  BY DEF LocalPaths
<1> HIDE DEF db, duckdb
<1>6. CASE db \in Places /\ duckdb \in Places
  <2>1. LocalPaths(s) = <<db>> \o <<duckdb>>
    BY <1>5, <1>6
  <2> QED
    <3>1. /\ Len(<<db>> \o <<duckdb>>) = 2
          /\ (<<db>> \o <<duckdb>>)[1] = db /\ (<<db>> \o <<duckdb>>)[2] = duckdb
      OBVIOUS
    <3> QED
      <4>1. LocalPaths(s)[1] = db /\ LocalPaths(s)[2] = duckdb /\ Len(LocalPaths(s)) = 2
        BY <2>1, <3>1
      <4>2. \A j \in 1..2 : j = 1 \/ j = 2
        OBVIOUS
      <4> QED
        BY <1>1, <1>2, <1>4, <1>6, <4>1, <4>2
<1>7. CASE db \in Places /\ duckdb \notin Places
  <2>1. LocalPaths(s) = <<db>>
    BY <1>5, <1>7
  <2> QED
    BY <1>1, <1>2, <1>3, <1>4, <1>7, <2>1
<1>8. CASE db \notin Places /\ duckdb \in Places
  <2>1. LocalPaths(s) = <<duckdb>>
    BY <1>5, <1>8
  <2> QED
    BY <1>1, <1>2, <1>3, <1>4, <1>8, <2>1
<1>9. CASE db \notin Places /\ duckdb \notin Places
  <2>1. LocalPaths(s) = <<>>
    BY <1>5, <1>9
  <2> QED
    BY <1>1, <1>3, <1>9, <2>1
<1> QED
  BY <1>6, <1>7, <1>8, <1>9

\* What depends on the deployment alone stays with it.
LEMMA DeploymentStays ==
    ASSUME UNCHANGED deployment
    PROVE  /\ Places' = Places /\ AllFiles' = AllFiles
           /\ \A role, v, s : RouteBackend(role, v, s)' = RouteBackend(role, v, s)
           /\ \A v, s : PlacesOf(v, s)' = PlacesOf(v, s)
           /\ \A s : LocalPaths(s)' = LocalPaths(s)
           /\ \A s : Steps("delete", s)' = Steps("delete", s)
           /\ \A place : StaysCleared(place)' = StaysCleared(place)
<1>1. /\ Places' = Places
      /\ \A role, v, s : RouteBackend(role, v, s)' = RouteBackend(role, v, s)
      /\ GraphCopies' = GraphCopies
  BY PlacesStay
<1>2. AllFiles' = AllFiles
  BY <1>1 DEF AllFiles
<1>3. \A v, s : PlacesOf(v, s)' = PlacesOf(v, s)
  BY <1>1 DEF PlacesOf
<1>4. \A s : LocalPaths(s)' = LocalPaths(s)
  BY <1>1 DEF LocalPaths
<1>5. \A s : Steps("delete", s)' = Steps("delete", s)
  BY <1>4 DEF Steps
<1>6. \A place : StaysCleared(place)' = StaysCleared(place)
  BY <1>1 DEF StaysCleared, Revives
<1> QED
  BY <1>1, <1>2, <1>3, <1>4, <1>5, <1>6

\* The steps of delete_subject in their order.
LEMMA StepsOfDeletion ==
    ASSUME deployment \in Deployments, NEW s \in Subjects
    PROVE  /\ Len(Steps("delete", s)) = Len(LocalPaths(s)) + 3
           /\ \A i \in 1..Len(LocalPaths(s)) + 3 :
                 Steps("delete", s)[i] =
                    IF i <= Len(LocalPaths(s)) THEN "unlink"
                    ELSE IF i = Len(LocalPaths(s)) + 1 THEN "forget"
                    ELSE IF i = Len(LocalPaths(s)) + 2 THEN "truncate" ELSE "write"
<1> DEFINE n == Len(LocalPaths(s))
           unlinks == [i \in 1..n |-> "unlink"]
<1>1. n \in Nat
  BY LocalFiles
<1> HIDE DEF n
<1>2. unlinks \in Seq({"unlink"}) /\ Len(unlinks) = n /\ \A i \in 1..n : unlinks[i] = "unlink"
  BY <1>1
<1>3. Steps("delete", s) = (unlinks \o <<"forget">>) \o Persist
  BY DEF Steps, n
<1> HIDE DEF unlinks
<1>4. Steps("delete", s) = (unlinks \o <<"forget">>) \o <<"truncate", "write">>
  BY <1>3 DEF Persist
<1>5. /\ Len(Steps("delete", s)) = n + 3
      /\ \A i \in 1..n + 3 :
            Steps("delete", s)[i] = IF i <= n THEN "unlink"
                                    ELSE IF i = n + 1 THEN "forget"
                                    ELSE IF i = n + 2 THEN "truncate" ELSE "write"
  <2>1. /\ unlinks \o <<"forget">> \in Seq({"unlink", "forget"})
        /\ Len(unlinks \o <<"forget">>) = n + 1
        /\ \A i \in 1..n + 1 : (unlinks \o <<"forget">>)[i] = IF i <= n THEN "unlink" ELSE "forget"
    BY <1>1, <1>2
  <2>2. /\ Len((unlinks \o <<"forget">>) \o <<"truncate", "write">>) = n + 3
        /\ \A i \in 1..n + 3 : ((unlinks \o <<"forget">>) \o <<"truncate", "write">>)[i] =
              IF i <= n + 1 THEN (unlinks \o <<"forget">>)[i]
              ELSE <<"truncate", "write">>[i - (n + 1)]
    BY <1>1, <2>1
  <2>3. ASSUME NEW i \in 1..n + 3
        PROVE  Steps("delete", s)[i] = IF i <= n THEN "unlink"
                                       ELSE IF i = n + 1 THEN "forget"
                                       ELSE IF i = n + 2 THEN "truncate" ELSE "write"
    <3>1. CASE i <= n + 1
      BY <1>1, <1>4, <2>1, <2>2, <3>1
    <3>2. CASE i = n + 2
      BY <1>1, <1>4, <2>2, <3>2
    <3>3. CASE i = n + 3
      BY <1>1, <1>4, <2>2, <3>3
    <3> QED
      BY <1>1, <3>1, <3>2, <3>3
  <2> QED
    BY <1>4, <2>2, <2>3
<1> QED
  BY <1>5 DEF n

-----------------------------------------------------------------------------
(***************************************************************************)
(* The calls.                                                              *)
(***************************************************************************)
\* A deletion that is at a step has come as far as this step.
LEMMA WhereDeletionIs ==
    ASSUME Base, NEW v \in Servers, task[v].op = "delete"
    PROVE  LET n == Len(LocalPaths(task[v].subject)) IN
           /\ task[v].subject \in Subjects /\ n \in Nat /\ v \in up /\ task[v].held = {}
           /\ Progress(v) \in 1..n + 3
           /\ Len(task[v].todo) = n + 4 - Progress(v)
           /\ \A step : At(v, step) =>
                step = IF Progress(v) <= n THEN "unlink"
                       ELSE IF Progress(v) = n + 1 THEN "forget"
                       ELSE IF Progress(v) = n + 2 THEN "truncate" ELSE "write"
<1> DEFINE s == task[v].subject
           n == Len(LocalPaths(s))
<1>1. task[v] # Idle
  BY DEF Idle
<1>2. v \in up /\ task[v].todo # <<>> /\ InDeletion(v)
  BY <1>1 DEF Base, CallsAreUnderWay, CallIsUnderWay
<1>3. task[v] \in CallOf("delete")
  BY <1>1 DEF Base, IInv, TypeInv, AreTasks, IsTask, CallOf
<1>4. s \in Subjects /\ task[v].todo \in Seq(StepsOf("delete"))
  BY <1>3 DEF CallOf
<1>5. n \in Nat
  BY <1>4, LocalFiles DEF Base, IInv, TypeInv
<1>6. Progress(v) \in 1..n + 3 /\ Len(task[v].todo) = n + 4 - Progress(v)
  <2>1. Progress(v) \in 1..n + 3
    BY <1>2 DEF InDeletion
  <2>2. Len(task[v].todo) \in Nat
    BY <1>4
  <2>3. Progress(v) = n + 4 - Len(task[v].todo)
    BY DEF Progress
  <2>4. \A p \in 1..n + 3, len \in Nat : p = n + 4 - len => len = n + 4 - p
    BY <1>5
  <2> QED
    BY <2>1, <2>2, <2>3, <2>4, Zenon
<1>7. ASSUME NEW step, At(v, step)
      PROVE  step = Steps("delete", s)[Progress(v)]
  <2>1. task[v].todo[1] = Steps("delete", s)[Progress(v) + 1 - 1]
    BY <1>2, <1>5, <1>6 DEF InDeletion
  <2>2. step = task[v].todo[1]
    BY <1>4, <1>7 DEF At
  <2> QED
    BY <1>5, <1>6, <2>1, <2>2
<1>8. \A i \in 1..n + 3 :
         Steps("delete", s)[i] = IF i <= n THEN "unlink"
                                 ELSE IF i = n + 1 THEN "forget"
                                 ELSE IF i = n + 2 THEN "truncate" ELSE "write"
  BY <1>4, StepsOfDeletion DEF Base, IInv, TypeInv
<1> QED
  BY <1>2, <1>4, <1>5, <1>6, <1>7, <1>8 DEF InDeletion

\* A server in a call is in one of the four kinds, and runs.
LEMMA InCall ==
    ASSUME Base, NEW v \in Servers, NEW step, At(v, step)
    PROVE  /\ v \in up /\ v \in live /\ task[v] # Idle
           /\ task[v].op \in Calls \cup {"delete"}
           /\ task[v].subject \in Subjects /\ task[v].held \subseteq Memories
           /\ step \in {"memory", "graph", "vector", "read", "rewrite", "copy"} => task[v].op \in Calls
           /\ task[v].op \in Calls =>
                /\ step \in {"truncate", "write", "memory", "graph", "vector", "read", "rewrite", "copy"}
                /\ task[v].subject \in known[v] /\ task[v].subject \in bundles[v]
           /\ task[v].op = "ingest" =>
                task[v].todo \in Seq(StepsOf("ingest")) /\ task[v].todo[Len(task[v].todo)] = "vector"
           /\ \E S : task[v].todo \in Seq(S)
<1>1. task[v] # Idle
  BY DEF At, Idle
<1>2. PICK op \in Ops :
         task[v] \in CallOf(op) /\ step \in StepsOf(op)
  BY AtItsStep DEF Base, IInv
<1>3. /\ task[v].op = op /\ task[v].subject \in Subjects /\ task[v].held \subseteq Memories
      /\ task[v].todo \in Seq(StepsOf(op))
  BY <1>2 DEF CallOf
<1>4. CallIsUnderWay(v) /\ up \subseteq live
  BY DEF Base, CallsAreUnderWay, Types
<1>5. /\ step \in {"memory", "graph", "vector", "read", "rewrite", "copy"} => op \in Calls
      /\ op \in Calls =>
           step \in {"truncate", "write", "memory", "graph", "vector", "read", "rewrite", "copy"}
      /\ op \in Calls \cup {"delete"}
  <2>1. CASE op = "ingest"
    BY <1>2, <2>1 DEF StepsOf, Calls
  <2>2. CASE op = "list"
    BY <1>2, <2>2 DEF StepsOf, Calls
  <2>3. CASE op = "rewrite"
    BY <1>2, <2>3 DEF StepsOf, Calls
  <2>4. CASE op = "dream"
    BY <1>2, <2>4 DEF StepsOf, Calls
  <2>5. CASE op = "delete"
    BY <1>2, <2>5 DEF StepsOf, Calls
  <2> QED
    BY <2>1, <2>2, <2>3, <2>4, <2>5 DEF Ops, Calls
<1> QED
  BY <1>1, <1>3, <1>4, <1>5 DEF CallIsUnderWay

\* Beside the only server nothing runs, and nothing is known.
LEMMA Alone ==
    ASSUME Base, OnlyServer, NEW v \in live
    PROVE  \A w \in Servers \ {v} :
              w \notin up /\ task[w] = Idle /\ opened[w] = {} /\ bundles[w] = {}
<1>1. IsFiniteSet(live)
  BY ServersAreFinite, FS_Subset DEF Base, Types
<1>2. PICK x : live = {x}
  BY <1>1, FS_Singleton DEF OnlyServer
<1> QED
  BY <1>2 DEF Base, Types, DownIsEmpty

\* What a call is after a step: over, or at its next one.
Following(v) ==
    /\ \A w \in Servers \ {v} : task'[w] = task[w]
    /\ \/ task'[v] = Idle
       \/ /\ task'[v].op = task[v].op
          /\ task'[v].subject = task[v].subject
          /\ Len(task[v].todo) # 1
          /\ task'[v].todo = Tail(task[v].todo)
          /\ task[v].op = "delete" => task'[v].held = {}

\* Proceed goes on to the next step of the call.
LEMMA ProceedFollows ==
    ASSUME Base, NEW v \in Servers, NEW step, At(v, step), Proceed(v)
    PROVE  Following(v) /\ (task'[v].held = {} \/ task'[v].held = task[v].held)
<1>1. task[v].op = "delete" => task[v].held = {}
  BY WhereDeletionIs
<1>2. task = [w \in Servers |-> task[w]]
  BY DEF Base, IInv, TypeInv, AreTasks
<1>3. CASE task' = [task EXCEPT ![v] = Idle]
  BY <1>2, <1>3 DEF Following, Idle
<1>4. CASE Len(task[v].todo) # 1 /\ task' = [task EXCEPT ![v].todo = Tail(task[v].todo)]
  <2>1. \E op \in Ops : task[v] \in CallOf(op)
    BY AtItsStep DEF Base, IInv
  <2>2. task'[v] = [task[v] EXCEPT !.todo = Tail(task[v].todo)]
    BY <1>2, <1>4
  <2>3. /\ task'[v].op = task[v].op /\ task'[v].subject = task[v].subject
        /\ task'[v].held = task[v].held /\ task'[v].todo = Tail(task[v].todo)
    BY <2>1, <2>2 DEF CallOf
  <2>4. \A w \in Servers \ {v} : task'[w] = task[w]
    BY <1>2, <1>4
  <2> QED
    BY <1>1, <1>4, <2>3, <2>4 DEF Following
<1> QED
  BY <1>3, <1>4 DEF Proceed, Goto

\* So does a call that raises.
LEMMA EndFollows ==
    ASSUME Base, NEW v \in Servers, task' = [task EXCEPT ![v] = Idle]
    PROVE  Following(v) /\ task'[v].held = {}
BY DEF Base, IInv, TypeInv, AreTasks, Following, Idle

\* What is left of a sequence.
LEMMA TailOf ==
    ASSUME NEW S, NEW q \in Seq(S), q # <<>>, Len(q) # 1
    PROVE  /\ Len(q) \in Nat /\ Len(q) > 1
           /\ Tail(q) \in Seq(S) /\ Tail(q) # <<>> /\ Len(Tail(q)) = Len(q) - 1
           /\ \A j \in 1..Len(Tail(q)) : Tail(q)[j] = q[j + 1]
           /\ Tail(q)[Len(Tail(q))] = q[Len(q)]
<1>1. Len(q) \in Nat /\ Len(q) > 1
  <2>1. Len(q) \in Nat \ {0}
    BY EmptySeq, Zenon
  <2>2. \A n \in Nat \ {0} : n # 1 => n \in Nat /\ n > 1
    OBVIOUS
  <2> QED
    BY <2>1, <2>2, Zenon
<1>2. Tail(q) \in Seq(S) /\ Len(Tail(q)) = Len(q) - 1
  OBVIOUS
<1>3. \A j \in 1..Len(Tail(q)) : Tail(q)[j] = q[j + 1]
  OBVIOUS
<1>4. Tail(q) # <<>>
  BY <1>1, <1>2
<1>5. Len(Tail(q)) \in 1..Len(Tail(q)) /\ Len(Tail(q)) + 1 = Len(q)
  BY <1>1, <1>2
<1>6. Tail(q)[Len(Tail(q))] = q[Len(q)]
  BY <1>3, <1>5
<1> QED
  BY <1>1, <1>2, <1>3, <1>4, <1>6

\* A step of one server leaves the calls of the others under way.
LEMMA OthersUnderWay ==
    ASSUME Base, NEW v \in Servers, UNCHANGED deployment, up \ {v} \subseteq up',
           \A w \in Servers \ {v} :
              task'[w] = task[w] /\ known'[w] = known[w] /\ bundles'[w] = bundles[w],
           NEW w \in Servers \ {v}
    PROVE  CallIsUnderWay(w)'
<1>1. CallIsUnderWay(w)
  BY DEF Base, CallsAreUnderWay
<1>2. /\ \A s : LocalPaths(s)' = LocalPaths(s)
      /\ \A s : Steps("delete", s)' = Steps("delete", s)
  BY DeploymentStays
<1>3. Progress(w)' = Progress(w)
  BY <1>2 DEF Progress
<1>4. task[w].op = "delete" /\ InDeletion(w) => InDeletion(w)'
  BY <1>2, <1>3 DEF InDeletion
<1> QED
  BY <1>1, <1>4 DEF CallIsUnderWay

\* A call stays under way through its steps.
LEMMA CallsGoOn ==
    ASSUME Base, NEW v \in Servers, NEW step, At(v, step), Following(v),
           UNCHANGED <<deployment, up>>,
           \A w \in Servers \ {v} : known'[w] = known[w] /\ bundles'[w] = bundles[w],
           task[v].op \in Calls => known'[v] = known[v] /\ bundles'[v] = bundles[v],
           bundles'[v] \subseteq bundles[v],
           step = "forget" => task[v].subject \notin bundles'[v]
    PROVE  CallsAreUnderWay'
<1>1. \A w \in Servers \ {v} : CallIsUnderWay(w)'
  BY OthersUnderWay DEF Following
<1>2. CASE task'[v] = Idle
  BY <1>1, <1>2 DEF CallsAreUnderWay, CallIsUnderWay
<1>3. CASE task'[v] # Idle
  <2>1. /\ task'[v].op = task[v].op /\ task'[v].subject = task[v].subject
        /\ Len(task[v].todo) # 1 /\ task'[v].todo = Tail(task[v].todo)
    BY <1>3 DEF Following
  <2>2. PICK S : task[v].todo \in Seq(S)
    BY InCall
  <2>3. task[v].todo # <<>>
    BY DEF At
  <2>4. /\ Len(task[v].todo) \in Nat /\ Len(task[v].todo) > 1
        /\ Len(task'[v].todo) = Len(task[v].todo) - 1
        /\ \A j \in 1..Len(task'[v].todo) : task'[v].todo[j] = task[v].todo[j + 1]
        /\ task'[v].todo # <<>>
        /\ task'[v].todo[Len(task'[v].todo)] = task[v].todo[Len(task[v].todo)]
    BY <2>1, <2>2, <2>3, TailOf
  <2>5. CASE task[v].op \in Calls
    <3>1. /\ task'[v].op # "delete" /\ v \in up'
          /\ task'[v].subject \in known'[v] /\ task'[v].subject \in bundles'[v]
      BY <2>1, <2>5, InCall DEF Calls
    <3>2. task'[v].op = "ingest" => task'[v].todo[Len(task'[v].todo)] = "vector"
      BY <2>1, <2>4, InCall
    <3> QED
      BY <1>1, <2>4, <3>1, <3>2 DEF CallsAreUnderWay, CallIsUnderWay
  <2>6. CASE task[v].op = "delete"
    <3> DEFINE s == task[v].subject
               n == Len(LocalPaths(s))
    <3>1. /\ s \in Subjects /\ n \in Nat /\ v \in up /\ Progress(v) \in 1..n + 3
          /\ Len(task[v].todo) = n + 4 - Progress(v)
      BY <2>6, WhereDeletionIs
    <3>2. InDeletion(v)
      BY <2>6, <2>3 DEF Base, CallsAreUnderWay, CallIsUnderWay, Idle
    <3>3. /\ \A r : LocalPaths(r)' = LocalPaths(r)
          /\ \A r : Steps("delete", r)' = Steps("delete", r)
      BY DeploymentStays
    <3>4. Progress(v)' = Progress(v) + 1
      <4>1. Progress(v)' = n + 4 - Len(task'[v].todo)
        BY <2>1, <3>3 DEF Progress
      <4>2. Progress(v) = n + 4 - Len(task[v].todo)
        BY DEF Progress
      <4> HIDE DEF n
      <4>3. \A a, b \in Nat : a = b - 1 => n + 4 - a = (n + 4 - b) + 1
        BY <3>1
      <4>4. Len(task'[v].todo) \in Nat
        BY <2>4
      <4> QED
        BY <2>4, <4>1, <4>2, <4>3, <4>4, Zenon
    <3>5. Progress(v) + 1 \in 1..n + 3
      <4> HIDE DEF n
      <4>1. \A p \in 1..n + 3, len \in Nat : len = n + 4 - p /\ len > 1 => p + 1 \in 1..n + 3
        BY <3>1
      <4> QED
        BY <2>4, <3>1, <4>1, Zenon
    <3>6. ASSUME NEW j \in 1..Len(task'[v].todo)
          PROVE  task'[v].todo[j] = Steps("delete", s)[Progress(v) + 1 + j - 1]
      <4>1. j + 1 \in 1..Len(task[v].todo)
        BY <2>4
      <4>2. task[v].todo[j + 1] = Steps("delete", s)[Progress(v) + (j + 1) - 1]
        BY <3>2, <4>1 DEF InDeletion
      <4>3. Progress(v) + (j + 1) - 1 = Progress(v) + 1 + j - 1
        BY <3>1
      <4> QED
        BY <2>4, <4>2, <4>3
    <3>7. Progress(v) + 1 > n + 1 => s \notin bundles'[v]
      <4>1. CASE Progress(v) = n + 1
        <5>1. step = "forget"
          BY <2>6, <3>1, <4>1, WhereDeletionIs
        <5> QED
          BY <5>1
      <4>2. CASE Progress(v) > n + 1
        BY <3>2, <4>2 DEF InDeletion
      <4> QED
        BY <3>1, <4>1, <4>2
    <3>8. InDeletion(v)'
      BY <1>3, <2>1, <2>6, <3>3, <3>4, <3>5, <3>6, <3>7 DEF InDeletion, Following
    <3> QED
      BY <1>1, <2>1, <2>4, <2>6, <3>1, <3>8 DEF CallsAreUnderWay, CallIsUnderWay, Calls
  <2> QED
    BY <2>5, <2>6, InCall
<1> QED
  BY <1>2, <1>3

-----------------------------------------------------------------------------
(***************************************************************************)
(* The steps of a call.                                                    *)
(***************************************************************************)
Running == {"truncate", "write", "memory", "graph", "vector", "read", "rewrite", "copy"}

\* A call that reads, writes or persists leaves the files to whoever keeps them.
LEMMA KeepsOn ==
    ASSUME Base, NEW v \in Servers, NEW step \in Running, At(v, step), Following(v),
           UNCHANGED <<deployment, up, known>>,
           NEW f \in AllFiles, NEW w \in up, Keeps(w, f)
    PROVE  Keeps(w, f)'
<1>1. /\ \A s : LocalPaths(s)' = LocalPaths(s)
      /\ w \in up' /\ f[3] \in known'[w]
  BY DeploymentStays DEF Keeps
<1>2. w \in Servers
  BY DEF Base, Types
<1>3. CASE task'[w] = task[w]
  <2>1. Progress(w)' = Progress(w)
    BY <1>1, <1>3 DEF Progress
  <2> QED
    BY <1>1, <1>3, <2>1 DEF Keeps
<1>4. CASE w = v /\ task'[w] = Idle
  BY <1>1, <1>4 DEF Keeps, Idle
<1>5. CASE w = v /\ task'[v].op = task[v].op /\ task'[v].subject = task[v].subject
  <2>1. task[v].op # "delete" \/ task[v].subject # f[3]
    <3> SUFFICES ASSUME task[v].op = "delete", task[v].subject = f[3] PROVE FALSE
      OBVIOUS
    <3> DEFINE n == Len(LocalPaths(f[3]))
    <3>1. /\ n \in Nat /\ Progress(v) \in 1..n + 3
          /\ step = IF Progress(v) <= n THEN "unlink"
                    ELSE IF Progress(v) = n + 1 THEN "forget"
                    ELSE IF Progress(v) = n + 2 THEN "truncate" ELSE "write"
      BY WhereDeletionIs
    <3>2. \E j \in Progress(v)..n : LocalPaths(f[3])[j] = f
      BY <1>5 DEF Keeps
    <3> HIDE DEF n
    <3>3. Progress(v) > n
      BY <3>1 DEF Running
    <3> QED
      BY <3>1, <3>2, <3>3
  <2> QED
    BY <1>1, <1>5, <2>1 DEF Keeps
<1> QED
  BY <1>2, <1>3, <1>4, <1>5 DEF Following

\* With one server no call meets a file without its tables.
LEMMA NeverFails ==
    ASSUME DataInv, OnlyServer, NEW v \in Servers, task[v].op \in Calls,
           task[v].subject \in bundles[v], NEW role \in Roles
    PROVE  ~Fails(RouteBackend(role, v, task[v].subject))
<1> DEFINE place == RouteBackend(role, v, task[v].subject)
<1>1. place \in PlacesOf(v, task[v].subject)
  BY DEF PlacesOf
<1>2. task[v].op # "delete"
  BY DEF Calls
<1>3. IsFile(place) => place \in opened[v]
  BY <1>1, <1>2 DEF DataInv, BundlesAreOpen
<1>4. IsFile(place) => tables[place] = "ready"
  BY <1>3 DEF DataInv, BundlesAreOpen
<1> QED
  BY <1>4 DEF Fails

\* The part of the invariant that a step of a call keeps which leaves the
\* registry alone and adds at most to a place of its subject.
LEMMA RunningStep ==
    ASSUME DataInv, IInv', NEW v \in Servers, NEW step \in Running, At(v, step),
           Following(v), UNCHANGED <<config, up, registry, doomed, bounds>>,
           tables' \in [AllFiles -> {"none", "blank", "ready"}],
           OnlyServer => UNCHANGED tables,
           index' \in (SUBSET Subjects) \cup {Torn},
           \A m \in Memories : owner[m] # Nobody => owner'[m] # Nobody,
           OnlyServer =>
              \/ task'[v].held = task[v].held
              \/ task'[v].held \cap doomed = {}
              \/ task'[v].op # "ingest" /\ MemoryPlace(v)[1] = "remote",
           NEW place,
           \A p \in Places : p # place => content'[p] = content[p],
           content'[place] # {} /\ place \in Places =>
              content'[place] = content[place] \/ place \in PlacesOf(v, task[v].subject),
           content'[place] = content[place] \/ task[v].op \in Calls,
           OnlyServer /\ StaysCleared(place) =>
              content'[place] \cap doomed \subseteq content[place]
    PROVE  /\ Base' /\ DeletedAreGone' /\ BundlesAreOpen'
           /\ \A f \in AllFiles : content'[f] # {} =>
                /\ stops > 0 \/ \E w \in up : Keeps(w, f)'
                /\ OnlyServer => \A w \in up : Keeps(w, f)'
                /\ content'[f] = content[f] \/ f[3] = task[v].subject
<1> USE DEF config, registry, bounds
<1>1. /\ Places' = Places /\ AllFiles' = AllFiles /\ OnlyServer' = OnlyServer
      /\ \A w, s : PlacesOf(w, s)' = PlacesOf(w, s)
      /\ \A role, w, s : RouteBackend(role, w, s)' = RouteBackend(role, w, s)
      /\ \A p : StaysCleared(p)' = StaysCleared(p)
  BY DeploymentStays DEF OnlyServer
<1>2. /\ v \in up /\ v \in live /\ task[v].subject \in Subjects /\ deployment \in Deployments
  BY InCall DEF DataInv, Base, IInv, TypeInv
<1>3. Types'
  BY <1>1 DEF DataInv, Base, Types
<1>4. CallsAreUnderWay'
  BY CallsGoOn DEF DataInv, Running
<1>5. DownIsEmpty'
  <2>1. \A w \in Servers \ up' :
           known'[w] = {} /\ bundles'[w] = {} /\ opened'[w] = {} /\ task'[w] = Idle
    BY <1>2 DEF DataInv, Base, DownIsEmpty, Following
  <2>2. ASSUME NEW p \in Places, p[1] = "process", content'[p] # {}
        PROVE  p[4] \in up
    <3>1. CASE content'[p] = content[p]
      BY <2>2, <3>1 DEF DataInv, Base, DownIsEmpty
    <3>2. CASE p = place /\ place \in PlacesOf(v, task[v].subject)
      BY <1>2, <2>2, <3>2, OwnPlaces
    <3> QED
      BY <2>2, <3>1, <3>2
  <2> QED
    BY <1>1, <2>1, <2>2 DEF DownIsEmpty
<1>6. DeletedAreGone'
  <2> SUFFICES ASSUME OnlyServer PROVE DeletedAreGone'
    BY <1>1 DEF DeletedAreGone
  <2>1. ASSUME NEW p \in Places, StaysCleared(p)
        PROVE  content'[p] \cap doomed = {}
    <3>1. content[p] \cap doomed = {}
      BY <2>1 DEF DataInv, DeletedAreGone
    <3> QED
      BY <2>1, <3>1
  <2>2. ASSUME NEW w \in Servers, task'[w].held \cap doomed # {}
        PROVE  task'[w].op # "ingest" /\ MemoryPlace(w)'[1] = "remote"
    <3>1. CASE w # v
      <4>1. task'[w] = task[w] /\ MemoryPlace(w)' = MemoryPlace(w)
        BY <1>1, <3>1 DEF Following, MemoryPlace
      <4> QED
        BY <2>2, <4>1 DEF DataInv, DeletedAreGone
    <3>2. CASE w = v
      <4>1. task'[v] # Idle
        BY <2>2, <3>2 DEF Idle
      <4>2. task'[v].op = task[v].op /\ task'[v].subject = task[v].subject
        BY <4>1 DEF Following
      <4>3. MemoryPlace(v)' = MemoryPlace(v)
        BY <1>1, <4>2 DEF MemoryPlace
      <4> QED
        BY <2>2, <3>2, <4>2, <4>3 DEF DataInv, DeletedAreGone
    <3> QED
      BY <3>1, <3>2
  <2> QED
    BY <1>1, <2>1, <2>2 DEF DeletedAreGone
<1>7. BundlesAreOpen'
  <2> SUFFICES ASSUME OnlyServer PROVE BundlesAreOpen'
    BY <1>1 DEF BundlesAreOpen
  <2>1. ASSUME NEW w \in Servers, NEW s \in bundles[w]
        PROVE  \/ task'[w].op = "delete" /\ task'[w].subject = s
               \/ \A f \in PlacesOf(w, s) : IsFile(f) => f \in opened[w]
    <3>1. \/ task[w].op = "delete" /\ task[w].subject = s
          \/ \A f \in PlacesOf(w, s) : IsFile(f) => f \in opened[w]
      BY DEF DataInv, BundlesAreOpen
    <3>2. ASSUME w = v, task[v].op = "delete", task[v].subject = s PROVE FALSE
      <4> DEFINE n == Len(LocalPaths(s))
      <4>1. /\ n \in Nat /\ Progress(v) \in 1..n + 3
            /\ step = IF Progress(v) <= n THEN "unlink"
                      ELSE IF Progress(v) = n + 1 THEN "forget"
                      ELSE IF Progress(v) = n + 2 THEN "truncate" ELSE "write"
        BY <3>2, WhereDeletionIs DEF DataInv
      <4>2. InDeletion(v)
        BY <3>2 DEF DataInv, Base, CallsAreUnderWay, CallIsUnderWay, Idle
      <4>3. Progress(v) > n + 1 => s \notin bundles[v]
        BY <3>2, <4>2 DEF InDeletion
      <4> HIDE DEF n
      <4>4. Progress(v) > n + 1
        BY <4>1 DEF Running
      <4> QED
        BY <3>2, <4>3, <4>4
    <3> QED
      BY <3>1, <3>2 DEF Following
  <2>2. /\ \A f \in AllFiles : tables[f] # "blank"
        /\ \A w \in Servers : \A f \in opened[w] : tables[f] = "ready"
    BY DEF DataInv, BundlesAreOpen
  <2>3. UNCHANGED <<tables, opened, bundles>>
    OBVIOUS
  <2> QED
    BY <1>1, <2>1, <2>2, <2>3 DEF BundlesAreOpen, IsFile
<1>8. ASSUME NEW f \in AllFiles, content'[f] # {}
      PROVE  /\ stops > 0 \/ \E w \in up : Keeps(w, f)'
             /\ OnlyServer => \A w \in up : Keeps(w, f)'
             /\ content'[f] = content[f] \/ f[3] = task[v].subject
  <2>1. f \in Places /\ f[1] = "file"
    BY DEF AllFiles, IsFile
  <2>2. CASE content'[f] = content[f]
    <3>1. /\ stops > 0 \/ \E w \in up : Keeps(w, f)
          /\ OnlyServer => \A w \in up : Keeps(w, f)
      BY <1>8, <2>2 DEF DataInv, FilesAreKept
    <3> QED
      BY <2>2, <3>1, KeepsOn DEF DataInv
  <2>3. CASE /\ f \in PlacesOf(v, task[v].subject) /\ task[v].op \in Calls
    <3>1. f[3] = task[v].subject
      BY <1>2, <2>1, <2>3, OwnPlaces
    <3>2. task[v].subject \in known[v]
      BY <2>3, InCall DEF DataInv
    <3>3. task'[v].op # "delete"
      BY <2>3 DEF Following, Idle, Calls
    <3>4. Keeps(v, f)'
      BY <1>2, <3>1, <3>2, <3>3 DEF Keeps
    <3>5. OnlyServer => \A w \in up : w = v
      BY <1>2, Alone DEF DataInv, Base, Types
    <3> QED
      BY <1>2, <3>1, <3>4, <3>5
  <2> QED
    BY <1>8, <2>1, <2>2, <2>3
<1> QED
  BY <1>3, <1>4, <1>5, <1>6, <1>7, <1>8 DEF Base

\* A step that leaves subjects.json alone, other than a truncation, leaves the
\* list of known subjects as good as it was.
LEMMA ListingStays ==
    ASSUME DataInv, NEW v \in Servers, NEW step \in Running, At(v, step), step # "truncate",
           UNCHANGED <<config, index, up, known>>
    PROVE  KnownAreListed'
<1> SUFFICES ASSUME OnlyServer, NEW w \in up, NEW s \in known[w]
             PROVE  index = Torn \/ s \in index
  BY DEF KnownAreListed, OnlyServer, config
<1>1. w = v
  <2>1. v \in live /\ w \in Servers
    BY InCall DEF DataInv, Base, Types
  <2> QED
    BY <2>1, Alone DEF DataInv
<1>2. ~At(v, "truncate")
  BY DEF At
<1> QED
  BY <1>1, <1>2 DEF DataInv, KnownAreListed

\* A step that leaves subjects.json alone and writes to files of a known subject,
\* if to any, leaves every file listed.
LEMMA KeptThrough ==
    ASSUME DataInv, NEW v \in Servers, NEW step \in Running, At(v, step), step # "truncate",
           UNCHANGED <<config, index, up, known, stops>>,
           \A f \in AllFiles : content'[f] # {} =>
              /\ stops > 0 \/ \E w \in up : Keeps(w, f)'
              /\ OnlyServer => \A w \in up : Keeps(w, f)'
              /\ content'[f] = content[f] \/ (f[3] = task[v].subject /\ task[v].op \in Calls)
    PROVE  FilesAreKept'
<1> SUFFICES ASSUME OnlyServer, NEW f \in AllFiles, content'[f] # {}
             PROVE  index = Torn \/ f[3] \in index
  BY DeploymentStays DEF FilesAreKept, OnlyServer, config
<1>1. CASE content'[f] = content[f]
  BY <1>1 DEF DataInv, FilesAreKept
<1>2. CASE f[3] = task[v].subject /\ task[v].op \in Calls
  <2>1. f[3] \in known[v] /\ v \in up
    BY <1>2, InCall DEF DataInv
  <2>2. ~At(v, "truncate")
    BY DEF At
  <2> QED
    BY <2>1, <2>2 DEF DataInv, KnownAreListed
<1> QED
  BY <1>1, <1>2

\* A store call of a tool keeps the invariant.
LEMMA StoreStep ==
    ASSUME DataInv, IInv', NEW v \in Servers,
           NEW step \in {"memory", "graph", "vector", "rewrite", "copy", "read"}, At(v, step),
           Following(v), UNCHANGED <<config, index, up, registry, doomed, bounds>>,
           NEW role \in Roles, NEW place, place = RouteBackend(role, v, task[v].subject),
           NEW memories,
           \/ Raise(v, place) /\ Fails(place)
           \/ UNCHANGED storage
           \/ /\ content' = [content EXCEPT ![place] = @ \cup memories]
              /\ UNCHANGED tables
              /\ OnlyServer /\ StaysCleared(place) => memories \cap doomed = {},
           \A m \in Memories : owner[m] # Nobody => owner'[m] # Nobody,
           OnlyServer =>
              \/ task'[v].held = task[v].held
              \/ task'[v].held \cap doomed = {}
              \/ task'[v].op # "ingest" /\ MemoryPlace(v)[1] = "remote"
    PROVE  DataInv'
<1>1. step \in Running /\ task[v].op \in Calls /\ task[v].subject \in bundles[v]
  BY InCall DEF DataInv, Running
<1>2. place \in PlacesOf(v, task[v].subject)
  BY DEF PlacesOf
<1>3. /\ tables' \in [AllFiles -> {"none", "blank", "ready"}]
      /\ OnlyServer => UNCHANGED tables
  <2>1. tables \in [AllFiles -> {"none", "blank", "ready"}]
    BY DEF DataInv, Base, Types
  <2>2. CASE Raise(v, place) /\ Fails(place)
    <3>1. ~OnlyServer
      BY <1>1, <2>2, NeverFails
    <3>2. tables' = [tables EXCEPT ![place] = "blank"]
      BY <2>2 DEF Raise
    <3> QED
      BY <2>1, <3>1, <3>2
  <2> QED
    BY <2>1, <2>2 DEF storage
<1>4. \A p \in Places : p # place => content'[p] = content[p]
  BY DEF Raise, storage, DataInv, Base, IInv, TypeInv
<1>5. OnlyServer /\ StaysCleared(place) => content'[place] \cap doomed \subseteq content[place]
  <2>1. place \in Places
    BY InCall, RoutesToRooms DEF DataInv, Base, IInv, TypeInv
  <2>2. CASE content' = [content EXCEPT ![place] = @ \cup memories]
    <3>1. content'[place] = content[place] \cup memories
      BY <2>1, <2>2 DEF DataInv, Base, IInv, TypeInv
    <3>2. CASE UNCHANGED content
      BY <3>2
    <3> QED
      BY <3>1, <3>2 DEF Raise, storage
  <2> QED
    BY <2>2 DEF Raise, storage
<1>6. index' \in (SUBSET Subjects) \cup {Torn}
  BY DEF DataInv, Base, Types
<1>7. /\ Base' /\ DeletedAreGone' /\ BundlesAreOpen'
      /\ \A f \in AllFiles : content'[f] # {} =>
           /\ stops > 0 \/ \E w \in up : Keeps(w, f)'
           /\ OnlyServer => \A w \in up : Keeps(w, f)'
           /\ content'[f] = content[f] \/ f[3] = task[v].subject
  <2> HIDE DEF Calls, Running
  <2> QED
    BY <1>1, <1>2, <1>3, <1>4, <1>5, <1>6, RunningStep
<1>8. KnownAreListed'
  BY <1>1, ListingStays DEF registry
<1>9. FilesAreKept'
  BY <1>1, <1>7, KeptThrough DEF registry, bounds
<1> QED
  BY <1>7, <1>8, <1>9 DEF DataInv

\* What a call that is not a rewrite of a service's memories holds is not deleted.
LEMMA HeldIsNotDeleted ==
    ASSUME DataInv, NEW v \in Servers, OnlyServer,
           task[v].op = "ingest" \/ MemoryPlace(v)[1] # "remote"
    PROVE  task[v].held \cap doomed = {}
BY DEF DataInv, DeletedAreGone

\* Ingesting: the memory is new, so it is none that was deleted.
LEMMA IngestMemoryKeeps ==
    ASSUME DataInv, IInv', NEW v \in Servers, IngestMemory(v)
    PROVE  DataInv'
<1> DEFINE place == RouteBackend("memory", v, task[v].subject)
<1>1. At(v, "memory") /\ UNCHANGED <<config, index, up, registry, doomed, bounds>>
  BY DEF IngestMemory
<1>2. task[v] \in CallOf("ingest")
  BY <1>1, AtItsStep DEF DataInv, Base, IInv, StepsOf
<1>3. task[v].op = "ingest" /\ task[v].subject \in Subjects
  BY <1>2 DEF CallOf
<1>4. PICK m \in Memories :
         /\ owner[m] = Nobody
         /\ owner' = [owner EXCEPT ![m] = task[v].subject]
         /\ IF Fails(place) THEN Raise(v, place)
            ELSE /\ content' = [content EXCEPT ![place] = @ \cup {m}]
                 /\ task' = [task EXCEPT ![v].todo = Tail(@), ![v].held = {m}]
                 /\ UNCHANGED tables
  BY ZenonT(30) DEF IngestMemory
<1>5. {m} \cap doomed = {}
  BY <1>4 DEF DataInv, Base, Types
<1>6. \A k \in Memories : owner[k] # Nobody => owner'[k] # Nobody
  BY <1>3, <1>4, NobodyIsNoSubject DEF DataInv, Base, IInv, TypeInv
<1>7. /\ Following(v)
      /\ task'[v].held = task[v].held \/ task'[v].held \cap doomed = {}
  <2>1. CASE Raise(v, place)
    BY <2>1, EndFollows DEF Raise, DataInv
  <2>2. CASE task' = [task EXCEPT ![v].todo = Tail(@), ![v].held = {m}]
    <3>1. task'[v] = [task[v] EXCEPT !.todo = Tail(task[v].todo), !.held = {m}]
      BY <2>2 DEF DataInv, Base, IInv, TypeInv, AreTasks
    <3>2. /\ task'[v].op = task[v].op /\ task'[v].subject = task[v].subject
          /\ task'[v].held = {m} /\ task'[v].todo = Tail(task[v].todo)
      BY <1>2, <3>1 DEF CallOf
    <3>3. \A w \in Servers \ {v} : task'[w] = task[w]
      BY <2>2 DEF DataInv, Base, IInv, TypeInv, AreTasks
    <3>4. Len(task[v].todo) # 1
      <4>1. task[v].todo[Len(task[v].todo)] = "vector"
        BY <1>1, <1>3, InCall DEF DataInv
      <4>2. task[v].todo[1] = "memory"
        BY <1>1, <1>2 DEF At, CallOf
      <4> QED
        BY <4>1, <4>2
    <3> QED
      BY <1>3, <1>5, <3>2, <3>3, <3>4 DEF Following
  <2> QED
    BY <1>4, <2>1, <2>2
<1> HIDE DEF place
<1>8. \/ Raise(v, place) /\ Fails(place)
      \/ /\ content' = [content EXCEPT ![place] = @ \cup {m}]
         /\ UNCHANGED tables
         /\ OnlyServer /\ StaysCleared(place) => {m} \cap doomed = {}
  BY <1>4, <1>5
<1> QED
  BY <1>1, <1>6, <1>7, <1>8, StoreStep DEF Roles, place

\* Putting into a store of the subject what the call holds.
LEMMA PutKeeps ==
    ASSUME DataInv, IInv', NEW v \in Servers,
           NEW step \in {"graph", "vector", "rewrite", "copy"}, At(v, step),
           NEW role \in Roles, Put(v, RouteBackend(role, v, task[v].subject), task[v].held),
           step = "rewrite" => role = "memory", step = "copy" => role = "graph",
           UNCHANGED <<config, index, up, registry, owner, doomed, bounds>>
    PROVE  DataInv'
<1> DEFINE place == RouteBackend(role, v, task[v].subject)
           held == task[v].held
<1>1. \/ Raise(v, place) /\ Fails(place)
      \/ /\ content' = [content EXCEPT ![place] = @ \cup held]
         /\ UNCHANGED tables /\ Proceed(v)
  BY DEF Put
<1>2. Following(v) /\ (task'[v].held = {} \/ task'[v].held = task[v].held)
  <2>1. CASE Raise(v, place)
    BY <2>1, EndFollows DEF Raise, DataInv
  <2> QED
    BY <1>1, <2>1, ProceedFollows DEF DataInv
<1>3. OnlyServer /\ StaysCleared(place) => task[v].held \cap doomed = {}
  <2>1. CASE step = "rewrite"
    BY <2>1, HeldIsNotDeleted DEF MemoryPlace, StaysCleared
  <2>2. CASE step = "copy"
    <3> SUFFICES ASSUME OnlyServer, StaysCleared(place) PROVE task[v].held \cap doomed = {}
      OBVIOUS
    <3>1. task[v].subject \in Subjects /\ deployment \in Deployments
      BY InCall DEF DataInv, Base, IInv, TypeInv
    <3>2. CASE GraphSharesMemory
      BY <2>2, <3>1, <3>2, SharedRoutes, HeldIsNotDeleted DEF MemoryPlace, StaysCleared
    <3>3. CASE ~GraphSharesMemory
      <4>1. place \in GraphCopies
        BY <2>2, <3>1, <3>3 DEF GraphCopies
      <4>2. deployment["memory"] \notin PerSubject \cup Shared
        BY <4>1 DEF StaysCleared, Revives
      <4>3. MemoryPlace(v)[1] # "remote"
        BY <3>1, <4>2, MemoryRoutes DEF MemoryPlace
      <4> QED
        BY <4>3, HeldIsNotDeleted
    <3> QED
      BY <3>2, <3>3
  <2>3. CASE step \in {"graph", "vector"}
    <3>1. task[v] \in CallOf("ingest")
      BY <2>3, AtItsStep DEF DataInv, Base, IInv, StepsOf, Ops, Calls
    <3> QED
      BY <3>1, HeldIsNotDeleted DEF CallOf
  <2> QED
    BY <2>1, <2>2, <2>3
<1> HIDE DEF place, held
<1>4. \/ Raise(v, place) /\ Fails(place)
      \/ /\ content' = [content EXCEPT ![place] = @ \cup held]
         /\ UNCHANGED tables
         /\ OnlyServer /\ StaysCleared(place) => held \cap doomed = {}
  BY <1>1, <1>3 DEF held
<1>5. step \in {"memory", "graph", "vector", "rewrite", "copy", "read"} /\ UNCHANGED owner
  OBVIOUS
<1>6. /\ task'[v].held = task[v].held \/ task'[v].held \cap doomed = {}
      /\ \A m \in Memories : owner[m] # Nobody => owner'[m] # Nobody
  BY <1>2
<1> QED
  BY <1>2, <1>4, <1>5, <1>6, StoreStep, SMTT(30) DEF place

\* Reading: what is read from a place of the host was not deleted.
LEMMA ReadMemoriesKeeps ==
    ASSUME DataInv, IInv', NEW v \in Servers, ReadMemories(v)
    PROVE  DataInv'
<1> DEFINE place == RouteBackend("memory", v, task[v].subject)
<1>1. At(v, "read") /\ UNCHANGED <<config, index, up, registry, owner, doomed, bounds>>
  BY DEF ReadMemories
<1>2. PICK op \in {"list", "rewrite", "dream"} : task[v] \in CallOf(op)
  BY <1>1, AtItsStep DEF DataInv, Base, IInv, StepsOf, Ops, Calls
<1>3. task[v].op = op /\ place \in Places
  <2>1. task[v].subject \in Subjects /\ task[v].op = op
    BY <1>2 DEF CallOf
  <2> QED
    BY <2>1, RoutesToRooms DEF Roles, DataInv, Base, IInv, TypeInv
<1>4. PICK some \in SUBSET content[place] :
      \/ Raise(v, place) /\ Fails(place)
      \/ UNCHANGED storage /\ task' = [task EXCEPT ![v] = Idle]
      \/ /\ UNCHANGED storage /\ Len(task[v].todo) # 1
         /\ task' = [task EXCEPT ![v].todo = Tail(@), ![v].held = some]
  BY ZenonT(30) DEF ReadMemories
<1>5. OnlyServer =>
         some \cap doomed = {} \/ MemoryPlace(v)[1] = "remote"
  <2>1. place[1] = "remote" \/ StaysCleared(place)
    BY MemoryRoutes DEF StaysCleared, Revives, DataInv, Base, IInv, TypeInv
  <2>2. OnlyServer /\ StaysCleared(place) => content[place] \cap doomed = {}
    BY <1>3 DEF DataInv, DeletedAreGone
  <2> QED
    BY <2>1, <2>2 DEF MemoryPlace
<1>6. /\ Following(v)
      /\ OnlyServer =>
           \/ task'[v].held \cap doomed = {}
           \/ task'[v].op # "ingest" /\ MemoryPlace(v)[1] = "remote"
  <2>1. CASE task' = [task EXCEPT ![v] = Idle]
    BY <2>1, EndFollows DEF DataInv
  <2>2. CASE /\ Len(task[v].todo) # 1
             /\ task' = [task EXCEPT ![v].todo = Tail(@), ![v].held = some]
    <3>1. task'[v] = [task[v] EXCEPT !.todo = Tail(task[v].todo), !.held = some]
      BY <2>2 DEF DataInv, Base, IInv, TypeInv, AreTasks
    <3>2. /\ task'[v].op = task[v].op /\ task'[v].subject = task[v].subject
          /\ task'[v].held = some /\ task'[v].todo = Tail(task[v].todo)
      BY <1>2, <3>1 DEF CallOf
    <3>3. \A w \in Servers \ {v} : task'[w] = task[w]
      BY <2>2 DEF DataInv, Base, IInv, TypeInv, AreTasks
    <3> QED
      BY <1>3, <1>5, <2>2, <3>2, <3>3 DEF Following
  <2> QED
    BY <1>4, <2>1, <2>2 DEF Raise
<1>7. \/ Raise(v, place) /\ Fails(place)
      \/ UNCHANGED storage
  BY <1>4
<1> HIDE DEF place
<1> QED
  BY <1>1, <1>6, <1>7, StoreStep DEF Roles, place

\* Writing subjects.json: torn, or what the server knows.
LEMMA PersistKeeps ==
    ASSUME DataInv, IInv', NEW v \in Servers, Truncate(v) \/ Write(v)
    PROVE  DataInv'
<1>1. PICK step \in {"truncate", "write"} :
         At(v, step) /\ Proceed(v) /\ index' = IF step = "write" THEN known[v] ELSE Torn
  BY DEF Truncate, Write
<1>2. UNCHANGED <<config, up, registry, storage, owner, doomed, bounds>>
  BY DEF Truncate, Write
<1>3. Following(v) /\ (task'[v].held = {} \/ task'[v].held = task[v].held)
  BY <1>1, ProceedFollows DEF DataInv
<1>4. v \in up /\ v \in live /\ index' \in (SUBSET Subjects) \cup {Torn}
  BY <1>1, InCall DEF DataInv, Base, Types
<1>5. tables \in [AllFiles -> {"none", "blank", "ready"}] /\ step \in Running
  BY DEF DataInv, Base, Types, Running
<1>6. /\ Base' /\ DeletedAreGone' /\ BundlesAreOpen'
      /\ \A f \in AllFiles : content'[f] # {} =>
           /\ stops > 0 \/ \E w \in up : Keeps(w, f)'
           /\ OnlyServer => \A w \in up : Keeps(w, f)'
  BY <1>1, <1>2, <1>3, <1>4, <1>5, RunningStep DEF storage
<1>7. OnlyServer => up = {v}
  BY <1>4, Alone DEF DataInv, Base, Types
<1>8. KnownAreListed'
  BY <1>1, <1>2, <1>7 DEF KnownAreListed, OnlyServer, config, registry
<1>9. FilesAreKept'
  <2> SUFFICES ASSUME OnlyServer, NEW f \in AllFiles, content'[f] # {}
               PROVE  index' = Torn \/ f[3] \in index'
    BY <1>2, <1>6, DeploymentStays DEF FilesAreKept, OnlyServer, config, bounds
  <2>1. f[3] \in known[v]
    BY <1>2, <1>4 DEF DataInv, FilesAreKept, Keeps, storage
  <2> QED
    BY <1>1, <2>1
<1> QED
  BY <1>6, <1>8, <1>9 DEF DataInv

-----------------------------------------------------------------------------
(***************************************************************************)
(* The steps that change a registry.                                       *)
(***************************************************************************)
\* get_or_create: a bundle's files are opened, and so have their tables; a new
\* subject is about to be listed.
LEMMA GetOrCreateKeeps ==
    ASSUME DataInv, IInv', NEW v \in Servers, NEW s \in Subjects,
           NEW op \in Calls, GetOrCreate(v, op, s)
    PROVE  DataInv'
<1> USE DEF config, storage, registry, bounds
<1> DEFINE t == [op |-> op, subject |-> s, held |-> {}, todo |-> WithNewSubject(v, op, s)]
           new == {f \in PlacesOf(v, s) : IsFile(f)} \ opened[v]
<1>1. /\ v \in up /\ task[v] = Idle /\ calls < MaxCalls /\ calls' = calls + 1
      /\ known' = [known EXCEPT ![v] = @ \cup {s}]
      /\ task' = [task EXCEPT ![v] = t]
      /\ UNCHANGED <<config, index, up, owner, doomed, stops>>
  BY DEF GetOrCreate, Begins
<1>2. /\ task'[v] = t /\ \A w \in Servers \ {v} : task'[w] = task[w]
      /\ known'[v] = known[v] \cup {s} /\ \A w \in Servers \ {v} : known'[w] = known[w]
  BY <1>1 DEF DataInv, Base, IInv, TypeInv, AreTasks, Types
<1>3. /\ t.op = op /\ t.subject = s /\ t.held = {} /\ t.todo = WithNewSubject(v, op, s)
      /\ op # "delete" /\ t # Idle
  BY DEF Idle, Calls
<1>4. /\ t.todo \in Seq(StepsOf(op)) /\ t.todo # <<>>
      /\ op = "ingest" => t.todo[Len(t.todo)] = "vector"
      /\ s \notin known[v] => Head(t.todo) = "truncate"
  <2>1. t.todo \in Seq(StepsOf(op))
    BY <1>3, StepsAreOfTheCall DEF Calls
  <2>2. /\ Steps("ingest", s) \in {<<"memory", "vector">>, <<"memory", "graph", "vector">>}
        /\ Steps("list", s) = <<"read">> /\ Steps("rewrite", s) = <<"read", "rewrite">>
        /\ Steps("dream", s) \in {<<"read", "rewrite">>, <<"read", "rewrite", "copy">>}
    BY ZenonT(30) DEF Steps
  <2>3. CASE s \in known[v]
    <3>1. t.todo = <<>> \o Steps(op, s)
      BY <1>3, <2>3 DEF WithNewSubject
    <3>2. t.todo \in {<<"memory", "vector">>, <<"memory", "graph", "vector">>,
                       <<"read">>, <<"read", "rewrite">>, <<"read", "rewrite", "copy">>}
      BY <2>2, <3>1 DEF Calls
    <3>3. op = "ingest" => t.todo \in {<<"memory", "vector">>, <<"memory", "graph", "vector">>}
      BY <2>2, <3>1
    <3> HIDE DEF t
    <3>4. t.todo # <<>>
      BY <3>2
    <3>5. CASE t.todo = <<"memory", "vector">>
      BY <2>1, <2>3, <3>4, <3>5
    <3>6. CASE t.todo = <<"memory", "graph", "vector">>
      BY <2>1, <2>3, <3>4, <3>6
    <3> QED
      BY <2>1, <2>3, <3>3, <3>4, <3>5, <3>6
  <2>4. CASE s \notin known[v]
    <3>1. t.todo = <<"truncate", "write">> \o Steps(op, s)
      BY <1>3, <2>4 DEF WithNewSubject, Persist
    <3>2. t.todo \in {<<"truncate", "write">> \o <<"memory", "vector">>,
                       <<"truncate", "write">> \o <<"memory", "graph", "vector">>,
                       <<"truncate", "write">> \o <<"read">>,
                       <<"truncate", "write">> \o <<"read", "rewrite">>,
                       <<"truncate", "write">> \o <<"read", "rewrite", "copy">>}
      BY <2>2, <3>1 DEF Calls
    <3>3. op = "ingest" =>
             t.todo \in {<<"truncate", "write">> \o <<"memory", "vector">>,
                         <<"truncate", "write">> \o <<"memory", "graph", "vector">>}
      BY <2>2, <3>1
    <3> QED
      BY <2>1, <3>2, <3>3
  <2> QED
    BY <2>1, <2>3, <2>4
<1> HIDE DEF t
<1>5. /\ Places' = Places /\ AllFiles' = AllFiles /\ OnlyServer' = OnlyServer
      /\ \A w, r : PlacesOf(w, r)' = PlacesOf(w, r)
      /\ \A p : StaysCleared(p)' = StaysCleared(p)
  BY <1>1, DeploymentStays DEF OnlyServer
<1>6. /\ \A w \in Servers \ {v} : bundles'[w] = bundles[w] /\ opened'[w] = opened[w]
      /\ s \in bundles'[v] /\ bundles'[v] \in SUBSET (bundles[v] \cup {s})
      /\ bundles' \in [Servers -> SUBSET Subjects]
      /\ opened' \in [Servers -> SUBSET AllFiles]
      /\ opened[v] \subseteq opened'[v]
      /\ tables' \in [AllFiles -> {"none", "blank", "ready"}]
      /\ \A f \in AllFiles : tables'[f] = tables[f] \/ tables'[f] = "ready"
      /\ \A p \in Places : content'[p] = content[p] \/ content'[p] = {}
      /\ s \in bundles[v] \/ \A f \in PlacesOf(v, s) : IsFile(f) => f \in opened'[v]
      /\ \A f \in opened'[v] : f \in opened[v] \/ tables'[f] = "ready"
  <2>1. /\ bundles \in [Servers -> SUBSET Subjects]
        /\ opened \in [Servers -> SUBSET AllFiles]
        /\ tables \in [AllFiles -> {"none", "blank", "ready"}]
    BY DEF DataInv, Base, Types
  <2>2. CASE s \in bundles[v] /\ UNCHANGED <<bundles, opened, storage>>
    BY <2>1, <2>2
  <2>3. CASE BuildBundle(v, s)
    <3>1. PlacesOf(v, s) \subseteq Places
      BY DEF Places
    <3>2. new \in SUBSET AllFiles
      BY <3>1 DEF AllFiles
    <3>3. /\ bundles' = [bundles EXCEPT ![v] = @ \cup {s}]
          /\ opened' = [opened EXCEPT ![v] = @ \cup new]
          /\ tables' = [f \in AllFiles |-> IF f \in new THEN "ready" ELSE tables[f]]
          /\ content' = [p \in Places |-> IF p \in PlacesOf(v, s) /\ p[1] = "process"
                                           THEN {} ELSE content[p]]
      BY <2>3 DEF BuildBundle
    <3>4. \A f \in PlacesOf(v, s) : IsFile(f) => f \in opened[v] \cup new
      OBVIOUS
    <3> HIDE DEF new
    <3> QED
      BY <2>1, <3>2, <3>3, <3>4
  <2> QED
    BY <2>2, <2>3 DEF GetOrCreate
<1>7. Types'
  <2>1. calls' \in 0..MaxCalls
    BY <1>1, BoundsAreNatural DEF DataInv, Base, Types
  <2>2. known' \in [Servers -> SUBSET Subjects]
    BY <1>1 DEF DataInv, Base, Types
  <2> QED
    BY <1>1, <1>5, <1>6, <2>1, <2>2 DEF DataInv, Base, Types
<1>8. CallsAreUnderWay'
  <2>1. \A w \in Servers \ {v} : CallIsUnderWay(w)'
    BY <1>1, <1>2, <1>6, OthersUnderWay DEF DataInv
  <2>2. CallIsUnderWay(v)'
    BY <1>1, <1>2, <1>3, <1>4, <1>6 DEF CallIsUnderWay
  <2> QED
    BY <2>1, <2>2 DEF CallsAreUnderWay
<1>9. DownIsEmpty'
  BY <1>1, <1>2, <1>5, <1>6 DEF DataInv, Base, DownIsEmpty
<1>10. KnownAreListed'
  <2> SUFFICES ASSUME OnlyServer, NEW w \in up, NEW r \in known'[w]
               PROVE  \/ index = Torn
                      \/ r \in index
                      \/ task'[w].op \in Calls /\ task'[w].subject = r /\ At(w, "truncate")'
    BY <1>1, <1>5 DEF KnownAreListed
  <2>1. w = v
    BY <1>1, Alone DEF DataInv, Base, Types
  <2>2. CASE r \in known[v]
    <3>1. ~At(v, "truncate")
      BY <1>1 DEF At, Idle
    <3> QED
      BY <1>1, <2>1, <2>2, <3>1 DEF DataInv, KnownAreListed
  <2>3. CASE r \notin known[v] /\ r = s
    BY <1>1, <1>2, <1>3, <1>4, <2>1, <2>3 DEF At
  <2> QED
    BY <1>2, <2>1, <2>2, <2>3
<1>11. FilesAreKept'
  <2> SUFFICES ASSUME NEW f \in AllFiles, content'[f] # {}
               PROVE  /\ stops > 0 \/ \E w \in up : Keeps(w, f)'
                      /\ OnlyServer => /\ index = Torn \/ f[3] \in index
                                       /\ \A w \in up : Keeps(w, f)'
    BY <1>1, <1>5 DEF FilesAreKept
  <2>1. content[f] # {}
    BY <1>6 DEF AllFiles
  <2>2. ASSUME NEW w \in up, Keeps(w, f) PROVE Keeps(w, f)'
    <3>1. w \in Servers
      BY DEF DataInv, Base, Types
    <3>2. CASE w = v
      BY <1>1, <1>2, <1>3, <2>2, <3>2 DEF Keeps
    <3>3. CASE w # v
      <4>1. \A r : LocalPaths(r)' = LocalPaths(r)
        BY <1>1, DeploymentStays
      <4>2. Progress(w)' = Progress(w)
        BY <1>2, <3>1, <3>3, <4>1 DEF Progress
      <4> QED
        BY <1>1, <1>2, <2>2, <3>1, <3>3, <4>1, <4>2 DEF Keeps
    <3> QED
      BY <3>2, <3>3
  <2> QED
    BY <2>1, <2>2 DEF DataInv, FilesAreKept
<1>12. DeletedAreGone'
  <2> SUFFICES ASSUME OnlyServer PROVE DeletedAreGone'
    BY <1>5 DEF DeletedAreGone
  <2>1. \A p \in Places : StaysCleared(p) => content'[p] \cap doomed' = {}
    BY <1>1, <1>6 DEF DataInv, DeletedAreGone
  <2>2. \A w \in Servers \ {v} : task'[w].held = {}
    BY <1>1, <1>2, Alone DEF DataInv, Base, Types, Idle
  <2> QED
    BY <1>2, <1>3, <1>5, <2>1, <2>2 DEF DeletedAreGone
<1>13. BundlesAreOpen'
  <2> SUFFICES ASSUME OnlyServer PROVE BundlesAreOpen'
    BY <1>5 DEF BundlesAreOpen
  <2>1. \A w \in Servers \ {v} : opened[w] = {} /\ bundles[w] = {}
    BY <1>1, Alone DEF DataInv, Base, Types
  <2>2. /\ \A f \in AllFiles : tables[f] # "blank"
        /\ opened[v] \in SUBSET AllFiles /\ \A f \in opened[v] : tables[f] = "ready"
        /\ \A r \in bundles[v] : \A f \in PlacesOf(v, r) : IsFile(f) => f \in opened[v]
    BY <1>1 DEF DataInv, BundlesAreOpen, Base, Types, Idle
  <2>3. /\ \A f \in AllFiles : tables'[f] # "blank"
        /\ \A w \in Servers : \A f \in opened'[w] : tables'[f] = "ready"
    BY <1>6, <2>1, <2>2
  <2>4. \A r \in bundles'[v] : \A f \in PlacesOf(v, r) : IsFile(f) => f \in opened'[v]
    BY <1>6, <2>2
  <2> QED
    BY <1>5, <1>6, <2>1, <2>3, <2>4 DEF BundlesAreOpen, IsFile
<1> QED
  BY <1>7, <1>8, <1>9, <1>10, <1>11, <1>12, <1>13 DEF DataInv, Base

\* delete_subject begins: nothing is gone yet but, of a subject that is not
\* known, the bundle.
LEMMA DeleteSubjectKeeps ==
    ASSUME DataInv, IInv', NEW v \in Servers, NEW s \in Subjects, DeleteSubject(v, s)
    PROVE  DataInv'
<1> USE DEF config, storage, registry, bounds
<1> DEFINE t == [op |-> "delete", subject |-> s, held |-> {}, todo |-> Steps("delete", s)]
           n == Len(LocalPaths(s))
<1>1. /\ v \in up /\ task[v] = Idle /\ calls < MaxCalls /\ calls' = calls + 1
      /\ UNCHANGED <<config, index, up, known, opened, tables, owner, doomed, stops>>
      /\ \/ PopBundle(v, s) /\ UNCHANGED task
         \/ UNCHANGED <<bundles, content, task>>
         \/ UNCHANGED <<bundles, content>> /\ task' = [task EXCEPT ![v] = t]
  BY DEF DeleteSubject, Begins
<1>2. /\ Places' = Places /\ AllFiles' = AllFiles /\ OnlyServer' = OnlyServer
      /\ \A w, r : PlacesOf(w, r)' = PlacesOf(w, r)
      /\ \A r : LocalPaths(r)' = LocalPaths(r)
      /\ \A r : Steps("delete", r)' = Steps("delete", r)
      /\ \A role, w, r : RouteBackend(role, w, r)' = RouteBackend(role, w, r)
      /\ \A p : StaysCleared(p)' = StaysCleared(p)
  BY <1>1, DeploymentStays DEF OnlyServer
<1>3. /\ \A w \in Servers \ {v} : task'[w] = task[w] /\ bundles'[w] = bundles[w]
      /\ task'[v] = Idle \/ task'[v] = t
      /\ bundles' \in [Servers -> SUBSET Subjects] /\ bundles'[v] \subseteq bundles[v]
      /\ \A p \in Places : content'[p] = content[p] \/ content'[p] = {}
  BY <1>1 DEF PopBundle, DataInv, Base, IInv, TypeInv, AreTasks, Types
<1>4. t.op = "delete" /\ t.subject = s /\ t.held = {} /\ t.todo = Steps("delete", s)
  OBVIOUS
<1>5. /\ n \in Nat /\ Len(t.todo) = n + 3
      /\ \A f \in AllFiles : f[3] = s => \E j \in 1..n : LocalPaths(s)[j] = f
  BY LocalFiles, StepsOfDeletion DEF DataInv, Base, IInv, TypeInv
<1>6. task'[v] = t => Progress(v)' = 1
  <2>1. task'[v] = t => Progress(v)' = n + 4 - Len(t.todo)
    BY <1>2, <1>4 DEF Progress
  <2> HIDE DEF n, t
  <2> QED
    BY <1>5, <2>1
<1> HIDE DEF t, n
<1>7. Types'
  <2>1. calls' \in 0..MaxCalls
    BY <1>1, BoundsAreNatural DEF DataInv, Base, Types
  <2> QED
    BY <1>1, <1>2, <1>3, <2>1 DEF DataInv, Base, Types
<1>8. CallsAreUnderWay'
  <2>1. \A w \in Servers \ {v} : CallIsUnderWay(w)'
    BY <1>1, <1>3, OthersUnderWay DEF DataInv
  <2>2. ASSUME task'[v] = t PROVE InDeletion(v)'
    <3>1. Progress(v)' \in 1..n + 3 /\ ~(Progress(v)' > n + 1)
      BY <1>5, <1>6, <2>2
    <3>2. \A j \in 1..Len(t.todo) : t.todo[j] = Steps("delete", s)[1 + j - 1]
      BY <1>4, <1>5
    <3> QED
      BY <1>2, <1>4, <1>6, <2>2, <3>1, <3>2 DEF InDeletion, n
  <2>3. t.todo # <<>>
    BY <1>5
  <2>4. CallIsUnderWay(v)'
    BY <1>1, <1>3, <1>4, <2>2, <2>3 DEF CallIsUnderWay, Calls
  <2> QED
    BY <2>1, <2>4 DEF CallsAreUnderWay
<1>9. DownIsEmpty'
  BY <1>1, <1>2, <1>3 DEF DataInv, Base, DownIsEmpty
<1>10. OnlyServer => up = {v}
  BY <1>1, Alone DEF DataInv, Base, Types
<1>11. KnownAreListed'
  <2>1. ~At(v, "truncate")
    BY <1>1 DEF At, Idle
  <2> QED
    BY <1>1, <1>2, <1>10, <2>1 DEF DataInv, KnownAreListed
<1>12. FilesAreKept'
  <2> SUFFICES ASSUME NEW f \in AllFiles, content'[f] # {}
               PROVE  /\ stops > 0 \/ \E w \in up : Keeps(w, f)'
                      /\ OnlyServer => /\ index = Torn \/ f[3] \in index
                                       /\ \A w \in up : Keeps(w, f)'
    BY <1>1, <1>2 DEF FilesAreKept
  <2>1. content[f] # {}
    BY <1>3 DEF AllFiles
  <2>2. ASSUME NEW w \in up, Keeps(w, f) PROVE Keeps(w, f)'
    <3>1. w \in Servers
      BY DEF DataInv, Base, Types
    <3>2. CASE w = v
      <4>1. CASE task'[v] = Idle
        BY <1>1, <2>2, <3>2, <4>1 DEF Keeps, Idle
      <4>2. CASE task'[v] = t
        BY <1>1, <1>2, <1>4, <1>5, <1>6, <2>2, <3>2, <4>2 DEF Keeps, n
      <4> QED
        BY <1>3, <4>1, <4>2
    <3>3. CASE w # v
      <4>1. Progress(w)' = Progress(w)
        BY <1>2, <1>3, <3>1, <3>3 DEF Progress
      <4> QED
        BY <1>1, <1>2, <1>3, <2>2, <3>1, <3>3, <4>1 DEF Keeps
    <3> QED
      BY <3>2, <3>3
  <2> QED
    BY <2>1, <2>2 DEF DataInv, FilesAreKept
<1>13. DeletedAreGone'
  <2> SUFFICES ASSUME OnlyServer PROVE DeletedAreGone'
    BY <1>2 DEF DeletedAreGone
  <2>1. \A p \in Places : StaysCleared(p) => content'[p] \cap doomed = {}
    BY <1>3 DEF DataInv, DeletedAreGone
  <2>2. \A w \in Servers : task'[w].held = {}
    BY <1>1, <1>3, <1>4, Alone DEF DataInv, Base, Types, Idle
  <2> QED
    BY <1>1, <1>2, <2>1, <2>2 DEF DeletedAreGone
<1>14. BundlesAreOpen'
  <2> SUFFICES ASSUME OnlyServer PROVE BundlesAreOpen'
    BY <1>2 DEF BundlesAreOpen
  <2>1. \A w \in Servers \ {v} : bundles'[w] = {}
    BY <1>1, <1>3, Alone DEF DataInv, Base, Types
  <2>2. \A r \in bundles'[v] : \A f \in PlacesOf(v, r) : IsFile(f) => f \in opened[v]
    BY <1>1, <1>3 DEF DataInv, BundlesAreOpen, Idle
  <2>3. /\ \A f \in AllFiles : tables[f] # "blank"
        /\ \A w \in Servers : \A f \in opened[w] : tables[f] = "ready"
    BY DEF DataInv, BundlesAreOpen
  <2>4. /\ \A f \in AllFiles : tables'[f] # "blank"
        /\ \A w \in Servers : \A f \in opened'[w] : tables'[f] = "ready"
    BY <1>1, <2>3
  <2>5. \A w \in Servers : \A r \in bundles'[w] :
           \A f \in PlacesOf(w, r) : IsFile(f) => f \in opened'[w]
    BY <1>1, <2>1, <2>2
  <2> QED
    BY <1>2, <2>4, <2>5 DEF BundlesAreOpen, IsFile
<1> QED
  BY <1>7, <1>8, <1>9, <1>11, <1>12, <1>13, <1>14 DEF DataInv, Base

\* A deletion at one of the subject's files removes it, whole.
LEMMA UnlinkKeeps ==
    ASSUME DataInv, IInv', NEW v \in Servers, Unlink(v)
    PROVE  DataInv'
<1> USE DEF config, storage, registry, bounds
<1> DEFINE s == task[v].subject
           n == Len(LocalPaths(s))
           f == LocalPaths(s)[Progress(v)]
<1>1. /\ At(v, "unlink") /\ Proceed(v)
      /\ opened' = [opened EXCEPT ![v] = @ \ {f}]
      /\ tables' = [tables EXCEPT ![f] = "none"]
      /\ content' = [content EXCEPT ![f] = {}]
      /\ UNCHANGED <<config, index, up, known, bundles, owner, doomed, bounds>>
  BY DEF Unlink, ClearLocalBackendCaches, Progress
<1>2. task[v].op = "delete"
  BY <1>1, InCall DEF DataInv, Calls
<1>3. /\ v \in up /\ s \in Subjects /\ n \in Nat /\ Progress(v) \in 1..n /\ task[v].held = {}
  <2>1. Progress(v) \in 1..n + 3 /\ Progress(v) <= n /\ n \in Nat
    BY <1>1, <1>2, WhereDeletionIs DEF DataInv
  <2> HIDE DEF n
  <2>2. Progress(v) \in 1..n
    BY <2>1
  <2> QED
    BY <1>2, <2>1, <2>2, WhereDeletionIs DEF DataInv, n
<1>4. f \in AllFiles /\ f[3] = s
  BY <1>3, LocalFiles DEF DataInv, Base, IInv, TypeInv
<1>5. /\ Places' = Places /\ AllFiles' = AllFiles /\ OnlyServer' = OnlyServer
      /\ \A w, r : PlacesOf(w, r)' = PlacesOf(w, r)
      /\ \A r : LocalPaths(r)' = LocalPaths(r)
      /\ \A role, w, r : RouteBackend(role, w, r)' = RouteBackend(role, w, r)
      /\ \A p : StaysCleared(p)' = StaysCleared(p)
  BY <1>1, DeploymentStays DEF OnlyServer
<1>6. Following(v) /\ task'[v].held = {}
  BY <1>1, <1>3, ProceedFollows DEF DataInv
<1>7. task'[v] # Idle => /\ task'[v].op = "delete" /\ task'[v].subject = s
                         /\ Progress(v)' = Progress(v) + 1
  <2> SUFFICES ASSUME task'[v] # Idle
               PROVE  /\ task'[v].op = "delete" /\ task'[v].subject = s
                      /\ Progress(v)' = Progress(v) + 1
    OBVIOUS
  <2>1. /\ task'[v].op = "delete" /\ task'[v].subject = s
        /\ task'[v].todo = Tail(task[v].todo) /\ Len(task[v].todo) # 1
    BY <1>2, <1>6 DEF Following
  <2>2. PICK S : task[v].todo \in Seq(S)
    BY <1>1, InCall DEF DataInv
  <2>3. Len(task'[v].todo) = Len(task[v].todo) - 1 /\ Len(task[v].todo) \in Nat
    BY <1>1, <2>1, <2>2, TailOf DEF At
  <2>4. Progress(v)' = n + 4 - Len(task'[v].todo)
    BY <1>5, <2>1 DEF Progress
  <2>5. Progress(v) = n + 4 - Len(task[v].todo)
    BY DEF Progress
  <2> HIDE DEF n
  <2>6. \A a, b : b \in Nat /\ a = b - 1 => n + 4 - a = (n + 4 - b) + 1
    BY <1>3
  <2> QED
    BY <2>1, <2>3, <2>4, <2>5, <2>6, Zenon
<1> HIDE DEF f, n
<1>8. /\ \A p \in Places : p # f => content'[p] = content[p]
      /\ content'[f] = {}
      /\ \A w \in Servers \ {v} : opened'[w] = opened[w]
      /\ opened'[v] = opened[v] \ {f}
      /\ \A g \in AllFiles : g # f => tables'[g] = tables[g]
      /\ tables'[f] = "none"
  BY <1>1, <1>4 DEF DataInv, Base, IInv, TypeInv, Types, AllFiles
<1>9. Types'
  BY <1>1, <1>5 DEF DataInv, Base, Types
<1>10. CallsAreUnderWay'
  BY <1>1, <1>2, <1>6, CallsGoOn DEF DataInv, Calls
<1>11. DownIsEmpty'
  <2>1. \A w \in Servers \ up :
           known[w] = {} /\ bundles[w] = {} /\ opened'[w] = {} /\ task'[w] = Idle
    BY <1>3, <1>6, <1>8 DEF DataInv, Base, DownIsEmpty, Following
  <2> QED
    BY <1>1, <1>5, <1>8, <2>1 DEF DataInv, Base, DownIsEmpty
<1>12. OnlyServer => up = {v}
  BY <1>3, Alone DEF DataInv, Base, Types
<1>13. KnownAreListed'
  <2>1. ~At(v, "truncate")
    BY <1>1 DEF At
  <2> QED
    BY <1>1, <1>5, <1>12, <2>1 DEF DataInv, KnownAreListed
<1>14. FilesAreKept'
  <2> SUFFICES ASSUME NEW g \in AllFiles, content'[g] # {}
               PROVE  /\ stops > 0 \/ \E w \in up : Keeps(w, g)'
                      /\ OnlyServer => /\ index = Torn \/ g[3] \in index
                                       /\ \A w \in up : Keeps(w, g)'
    BY <1>1, <1>5 DEF FilesAreKept
  <2>1. g # f /\ content[g] # {}
    BY <1>8 DEF AllFiles
  <2>2. ASSUME NEW w \in up, Keeps(w, g) PROVE Keeps(w, g)'
    <3>1. w \in Servers
      BY DEF DataInv, Base, Types
    <3>2. CASE w = v
      <4>1. CASE task'[v] = Idle
        BY <1>1, <2>2, <3>2, <4>1 DEF Keeps, Idle
      <4>2. CASE task'[v] # Idle /\ g[3] # s
        BY <1>1, <1>7, <2>2, <3>2, <4>2 DEF Keeps
      <4>3. CASE task'[v] # Idle /\ g[3] = s
        <5>1. PICK j \in Progress(v)..n : LocalPaths(s)[j] = g
          BY <1>2, <2>2, <3>2, <4>3 DEF Keeps, n
        <5>2. j # Progress(v)
          BY <2>1, <5>1 DEF f
        <5>3. j \in Progress(v) + 1..n
          BY <1>3, <5>1, <5>2
        <5> QED
          BY <1>1, <1>5, <1>7, <2>2, <3>2, <4>3, <5>1, <5>3 DEF Keeps, n
      <4> QED
        BY <4>1, <4>2, <4>3
    <3>3. CASE w # v
      <4>1. Progress(w)' = Progress(w)
        BY <1>5, <1>6, <3>1, <3>3 DEF Progress, Following
      <4> QED
        BY <1>1, <1>5, <1>6, <2>2, <3>1, <3>3, <4>1 DEF Keeps, Following
    <3> QED
      BY <3>2, <3>3
  <2> QED
    BY <2>1, <2>2 DEF DataInv, FilesAreKept
<1>15. DeletedAreGone'
  <2> SUFFICES ASSUME OnlyServer PROVE DeletedAreGone'
    BY <1>5 DEF DeletedAreGone
  <2>1. \A p \in Places : StaysCleared(p) => content'[p] \cap doomed = {}
    BY <1>8 DEF DataInv, DeletedAreGone
  <2>2. \A w \in Servers : task'[w].held = {}
    BY <1>3, <1>6, Alone DEF DataInv, Base, Types, Idle, Following
  <2> QED
    BY <1>1, <1>5, <2>1, <2>2 DEF DeletedAreGone
<1>16. BundlesAreOpen'
  <2> SUFFICES ASSUME OnlyServer PROVE BundlesAreOpen'
    BY <1>5 DEF BundlesAreOpen
  <2>1. \A w \in Servers \ {v} : bundles[w] = {} /\ opened[w] = {}
    BY <1>3, Alone DEF DataInv, Base, Types
  <2>2. /\ \A g \in AllFiles : tables[g] # "blank"
        /\ opened[v] \in SUBSET AllFiles /\ \A g \in opened[v] : tables[g] = "ready"
    BY DEF DataInv, BundlesAreOpen, Base, Types
  <2>3. /\ \A g \in AllFiles : tables'[g] # "blank"
        /\ \A w \in Servers : \A g \in opened'[w] : tables'[g] = "ready"
    BY <1>8, <2>1, <2>2
  <2>4. ASSUME NEW r \in bundles[v], r # s, NEW g \in PlacesOf(v, r), IsFile(g)
        PROVE  g \in opened'[v]
    <3>1. g \in opened[v]
      BY <2>4 DEF DataInv, BundlesAreOpen
    <3>2. r \in Subjects
      BY DEF DataInv, Base, Types
    <3>3. g[3] = r
      BY <2>4, <3>2, OwnPlaces DEF IsFile, DataInv, Base, IInv, TypeInv
    <3> QED
      BY <1>4, <1>8, <2>4, <3>1, <3>3
  <2>5. task'[v].op = "delete" /\ task'[v].subject = s
    <3>1. Len(task[v].todo) = n + 4 - Progress(v)
      BY <1>2, WhereDeletionIs DEF DataInv, n
    <3>2. Len(task[v].todo) # 1
      BY <1>3, <3>1
    <3>3. task'[v] # Idle
      BY <1>1, <1>2, <3>2 DEF Proceed, Goto, DataInv, Base, IInv, TypeInv, AreTasks, Idle
    <3> QED
      BY <1>7, <3>3
  <2>6. \A w \in Servers : \A r \in bundles[w] :
           \/ task'[w].op = "delete" /\ task'[w].subject = r
           \/ \A g \in PlacesOf(w, r) : IsFile(g) => g \in opened'[w]
    BY <2>1, <2>4, <2>5
  <2> QED
    BY <1>1, <1>5, <2>3, <2>6 DEF BundlesAreOpen, IsFile
<1> QED
  BY <1>9, <1>10, <1>11, <1>13, <1>14, <1>15, <1>16 DEF DataInv, Base

\* After the files the bundle and its in-memory stores go: nothing that is on
\* the host is left of the subject.
LEMMA ForgetKeeps ==
    ASSUME DataInv, IInv', NEW v \in Servers, Forget(v)
    PROVE  DataInv'
<1> USE DEF config, storage, registry, bounds
<1> DEFINE s == task[v].subject
           n == Len(LocalPaths(s))
<1>1. /\ At(v, "forget") /\ Proceed(v) /\ PopBundle(v, s)
      /\ known' = [known EXCEPT ![v] = @ \ {s}]
      /\ doomed' = doomed \cup {m \in Memories : owner[m] = s}
      /\ UNCHANGED <<config, index, up, opened, tables, owner, bounds>>
  BY DEF Forget
<1>2. task[v].op = "delete"
  BY <1>1, InCall DEF DataInv, Calls
<1>3. /\ v \in up /\ s \in Subjects /\ n \in Nat /\ Progress(v) = n + 1
  BY <1>1, <1>2, WhereDeletionIs DEF DataInv
<1>4. /\ Places' = Places /\ AllFiles' = AllFiles /\ OnlyServer' = OnlyServer
      /\ \A w, r : PlacesOf(w, r)' = PlacesOf(w, r)
      /\ \A r : LocalPaths(r)' = LocalPaths(r)
      /\ \A role, w, r : RouteBackend(role, w, r)' = RouteBackend(role, w, r)
      /\ \A p : StaysCleared(p)' = StaysCleared(p)
  BY <1>1, DeploymentStays DEF OnlyServer
<1>5. Following(v) /\ task'[v].held = {}
  BY <1>1, <1>2, ProceedFollows, WhereDeletionIs DEF DataInv
<1>6. /\ \A w \in Servers \ {v} : bundles'[w] = bundles[w] /\ known'[w] = known[w]
      /\ bundles'[v] = bundles[v] \ {s} /\ known'[v] = known[v] \ {s}
      /\ bundles' \in [Servers -> SUBSET Subjects]
      /\ known' \in [Servers -> SUBSET Subjects]
      /\ \A p \in Places : content'[p] = content[p] \/ content'[p] = {}
      /\ \A p \in PlacesOf(v, s) : p[1] = "process" => content'[p] = {}
  <2>1. PlacesOf(v, s) \subseteq Places
    BY <1>3 DEF Places
  <2> QED
    BY <1>1, <2>1 DEF PopBundle, DataInv, Base, Types
<1>7. \A f \in AllFiles : f[3] = s => ~Keeps(v, f)
  BY <1>2, <1>3 DEF Keeps
<1> HIDE DEF n
<1>8. Types'
  <2>1. doomed' \subseteq {m \in Memories : owner[m] # Nobody}
    BY <1>1, <1>3, NobodyIsNoSubject DEF DataInv, Base, Types
  <2> QED
    BY <1>1, <1>4, <1>6, <2>1 DEF DataInv, Base, Types
<1>9. CallsAreUnderWay'
  <2>1. s \notin bundles'[v] /\ bundles'[v] \subseteq bundles[v]
    BY <1>6
  <2> QED
    BY <1>1, <1>2, <1>5, <1>6, <2>1, CallsGoOn DEF DataInv, Calls
<1>10. DownIsEmpty'
  <2>1. \A w \in Servers \ up :
           known'[w] = {} /\ bundles'[w] = {} /\ opened[w] = {} /\ task'[w] = Idle
    BY <1>3, <1>5, <1>6 DEF DataInv, Base, DownIsEmpty, Following
  <2> QED
    BY <1>1, <1>4, <1>6, <2>1 DEF DataInv, Base, DownIsEmpty
<1>11. OnlyServer => up = {v}
  BY <1>3, Alone DEF DataInv, Base, Types
<1>12. KnownAreListed'
  <2>1. ~At(v, "truncate")
    BY <1>1 DEF At
  <2> QED
    BY <1>1, <1>4, <1>6, <1>11, <2>1 DEF DataInv, KnownAreListed
<1>13. FilesAreKept'
  <2> SUFFICES ASSUME NEW g \in AllFiles, content'[g] # {}
               PROVE  /\ stops > 0 \/ \E w \in up : Keeps(w, g)'
                      /\ OnlyServer => /\ index = Torn \/ g[3] \in index
                                       /\ \A w \in up : Keeps(w, g)'
    BY <1>1, <1>4 DEF FilesAreKept
  <2>1. content[g] # {}
    BY <1>6 DEF AllFiles
  <2>2. ASSUME NEW w \in up, Keeps(w, g) PROVE Keeps(w, g)'
    <3>1. w \in Servers
      BY DEF DataInv, Base, Types
    <3>2. CASE w = v
      <4>1. g[3] # s
        BY <1>7, <2>2, <3>2
      <4> QED
        BY <1>1, <1>5, <1>6, <2>2, <3>2, <4>1 DEF Keeps, Following, Idle
    <3>3. CASE w # v
      <4>1. Progress(w)' = Progress(w)
        BY <1>4, <1>5, <3>1, <3>3 DEF Progress, Following
      <4> QED
        BY <1>1, <1>4, <1>5, <1>6, <2>2, <3>1, <3>3, <4>1 DEF Keeps, Following
    <3> QED
      BY <3>2, <3>3
  <2> QED
    BY <2>1, <2>2 DEF DataInv, FilesAreKept
<1>14. DeletedAreGone'
  <2> SUFFICES ASSUME OnlyServer PROVE DeletedAreGone'
    BY <1>4 DEF DeletedAreGone
  <2>1. ASSUME NEW p \in Places, StaysCleared(p), NEW m \in content'[p], m \in doomed'
        PROVE  FALSE
    <3>1. m \in content[p] /\ content'[p] # {}
      BY <1>6, <2>1
    <3>2. m \notin doomed
      BY <2>1, <3>1 DEF DataInv, DeletedAreGone
    <3>3. owner[m] = s
      BY <1>1, <2>1, <3>2
    <3>4. p[3] = s
      <4>1. IsRoom(p, owner[m])
        BY <2>1, <3>1 DEF DataInv, Base, IInv, ContentIsOwned, StaysCleared, Revives, GetsEveryones
      <4>2. p[2] \notin Shared
        BY <2>1, PlaceKinds DEF DataInv, Base, IInv, TypeInv, StaysCleared
      <4> QED
        BY <3>3, <4>1, <4>2 DEF IsRoom
    <3>5. CASE p[1] = "file"
      <4>1. p \in AllFiles
        BY <3>5 DEF AllFiles, IsFile
      <4>2. Keeps(v, p)
        BY <1>11, <3>1, <4>1 DEF DataInv, FilesAreKept
      <4> QED
        BY <1>7, <3>4, <4>1, <4>2
    <3>6. CASE p[1] = "process"
      <4>1. p[4] = v
        BY <1>11, <3>1, <3>6 DEF DataInv, Base, DownIsEmpty
      <4>2. p \in PlacesOf(v, s)
        BY <3>4, <3>6, <4>1, PlaceKinds DEF DataInv, Base, IInv, TypeInv
      <4> QED
        BY <1>6, <3>1, <3>6, <4>2
    <3> QED
      BY <2>1, <3>5, <3>6, PlaceKinds DEF DataInv, Base, IInv, TypeInv, StaysCleared
  <2>2. \A w \in Servers : task'[w].held = {}
    BY <1>3, <1>5, Alone DEF DataInv, Base, Types, Idle, Following
  <2> QED
    BY <1>4, <2>1, <2>2 DEF DeletedAreGone
<1>15. BundlesAreOpen'
  <2> SUFFICES ASSUME OnlyServer PROVE BundlesAreOpen'
    BY <1>4 DEF BundlesAreOpen
  <2>1. \A w \in Servers \ {v} : bundles'[w] = {}
    BY <1>3, <1>6, Alone DEF DataInv, Base, Types
  <2>2. \A r \in bundles'[v] : \A f \in PlacesOf(v, r) : IsFile(f) => f \in opened[v]
    BY <1>6 DEF DataInv, BundlesAreOpen
  <2>3. /\ \A f \in AllFiles : tables'[f] # "blank"
        /\ \A w \in Servers : \A f \in opened'[w] : tables'[f] = "ready"
    BY <1>1 DEF DataInv, BundlesAreOpen
  <2>4. \A w \in Servers : \A r \in bundles'[w] :
           \A f \in PlacesOf(w, r) : IsFile(f) => f \in opened'[w]
    BY <1>1, <2>1, <2>2
  <2> QED
    BY <1>4, <2>3, <2>4 DEF BundlesAreOpen, IsFile
<1> QED
  BY <1>8, <1>9, <1>10, <1>12, <1>13, <1>14, <1>15 DEF DataInv, Base

\* A server stops in whatever step it is: what it kept is only on disk now.
LEMMA StopKeeps ==
    ASSUME DataInv, IInv', NEW v \in Servers, Stop(v)
    PROVE  DataInv'
<1> USE DEF config
<1>1. /\ v \in up /\ stops < MaxStops /\ stops' = stops + 1 /\ up' = up \ {v}
      /\ UNCHANGED <<config, index, tables, owner, doomed, calls>>
      /\ task' = [task EXCEPT ![v] = Idle]
  BY DEF Stop
<1>2. /\ known'[v] = {} /\ bundles'[v] = {} /\ opened'[v] = {} /\ task'[v] = Idle
      /\ \A w \in Servers \ {v} : /\ known'[w] = known[w] /\ bundles'[w] = bundles[w]
                                  /\ opened'[w] = opened[w] /\ task'[w] = task[w]
      /\ known' \in [Servers -> SUBSET Subjects]
      /\ bundles' \in [Servers -> SUBSET Subjects]
      /\ opened' \in [Servers -> SUBSET AllFiles]
      /\ \A p \in Places : content'[p] = IF p[1] = "process" /\ p[4] = v THEN {} ELSE content[p]
  BY DEF Stop, DataInv, Base, Types, IInv, TypeInv, AreTasks
<1>3. /\ Places' = Places /\ AllFiles' = AllFiles /\ OnlyServer' = OnlyServer
      /\ \A w, r : PlacesOf(w, r)' = PlacesOf(w, r)
      /\ \A role, w, r : RouteBackend(role, w, r)' = RouteBackend(role, w, r)
      /\ \A p : StaysCleared(p)' = StaysCleared(p)
  BY <1>1, DeploymentStays DEF OnlyServer
<1>4. stops \in Nat /\ stops' > 0 /\ stops' \in 0..MaxStops
  BY <1>1, BoundsAreNatural DEF DataInv, Base, Types
<1>5. OnlyServer => up = {v}
  BY <1>1, Alone DEF DataInv, Base, Types
<1>6. OnlyServer => up' = {}
  BY <1>1, <1>5
<1>7. Types'
  BY <1>1, <1>2, <1>3, <1>4 DEF DataInv, Base, Types
<1>8. CallsAreUnderWay'
  <2>1. \A w \in Servers \ {v} : CallIsUnderWay(w)'
    BY <1>1, <1>2, OthersUnderWay DEF DataInv
  <2> QED
    BY <1>2, <2>1 DEF CallsAreUnderWay, CallIsUnderWay
<1>9. DownIsEmpty'
  BY <1>1, <1>2, <1>3 DEF DataInv, Base, DownIsEmpty
<1>10. KnownAreListed'
  BY <1>3, <1>6 DEF KnownAreListed
<1>11. FilesAreKept'
  <2> SUFFICES ASSUME OnlyServer, NEW g \in AllFiles, content'[g] # {}
               PROVE  index = Torn \/ g[3] \in index
    BY <1>1, <1>3, <1>4, <1>6 DEF FilesAreKept
  <2>1. content[g] # {}
    BY <1>2 DEF AllFiles
  <2> QED
    BY <2>1 DEF DataInv, FilesAreKept
<1>12. DeletedAreGone'
  <2> SUFFICES ASSUME OnlyServer PROVE DeletedAreGone'
    BY <1>3 DEF DeletedAreGone
  <2>1. \A p \in Places : StaysCleared(p) => content'[p] \cap doomed = {}
    BY <1>2 DEF DataInv, DeletedAreGone
  <2>2. \A w \in Servers : task'[w].held = {}
    BY <1>1, <1>2, Alone DEF DataInv, Base, Types, Idle
  <2> QED
    BY <1>1, <1>3, <2>1, <2>2 DEF DeletedAreGone
<1>13. BundlesAreOpen'
  <2> SUFFICES ASSUME OnlyServer PROVE BundlesAreOpen'
    BY <1>3 DEF BundlesAreOpen
  <2>1. \A w \in Servers : bundles'[w] = {} /\ opened'[w] = {}
    BY <1>1, <1>2, Alone DEF DataInv, Base, Types
  <2>2. \A f \in AllFiles : tables'[f] # "blank"
    BY <1>1 DEF DataInv, BundlesAreOpen
  <2> QED
    BY <1>3, <2>1, <2>2 DEF BundlesAreOpen
<1> QED
  BY <1>7, <1>8, <1>9, <1>10, <1>11, <1>12, <1>13 DEF DataInv, Base

\* A server starts with the subjects that are listed.
LEMMA StartKeeps ==
    ASSUME DataInv, IInv', NEW v \in Servers, Start(v)
    PROVE  DataInv'
<1> USE DEF config, storage, bounds
<1>1. /\ v \in live \ up /\ index # Torn /\ up' = up \cup {v}
      /\ known' = [known EXCEPT ![v] = index]
      /\ UNCHANGED <<config, index, bundles, opened, storage, task, owner, doomed, bounds>>
  BY DEF Start
<1>2. /\ known'[v] = index /\ \A w \in Servers \ {v} : known'[w] = known[w]
      /\ index \in SUBSET Subjects /\ known' \in [Servers -> SUBSET Subjects]
      /\ task[v] = Idle /\ bundles[v] = {} /\ opened[v] = {}
  BY <1>1 DEF DataInv, Base, Types, DownIsEmpty
<1>3. /\ Places' = Places /\ AllFiles' = AllFiles /\ OnlyServer' = OnlyServer
      /\ \A w, r : PlacesOf(w, r)' = PlacesOf(w, r)
      /\ \A r : LocalPaths(r)' = LocalPaths(r)
      /\ \A role, w, r : RouteBackend(role, w, r)' = RouteBackend(role, w, r)
      /\ \A p : StaysCleared(p)' = StaysCleared(p)
  BY <1>1, DeploymentStays DEF OnlyServer
<1>4. OnlyServer => up' = {v}
  BY <1>1, Alone DEF DataInv, Base, Types
<1>5. Types'
  BY <1>1, <1>2, <1>3 DEF DataInv, Base, Types
<1>6. CallsAreUnderWay'
  <2>1. \A w \in Servers \ {v} : CallIsUnderWay(w)'
    BY <1>1, <1>2, OthersUnderWay DEF DataInv
  <2> QED
    BY <1>1, <1>2, <2>1 DEF CallsAreUnderWay, CallIsUnderWay
<1>7. DownIsEmpty'
  BY <1>1, <1>2, <1>3 DEF DataInv, Base, DownIsEmpty
<1>8. KnownAreListed'
  BY <1>1, <1>2, <1>3, <1>4 DEF KnownAreListed
<1>9. FilesAreKept'
  <2> SUFFICES ASSUME NEW g \in AllFiles, content[g] # {}
               PROVE  /\ stops > 0 \/ \E w \in up' : Keeps(w, g)'
                      /\ OnlyServer => /\ index = Torn \/ g[3] \in index
                                       /\ \A w \in up' : Keeps(w, g)'
    BY <1>1, <1>3 DEF FilesAreKept
  <2>1. ASSUME NEW w \in up, Keeps(w, g) PROVE Keeps(w, g)'
    <3>1. w \in Servers /\ w # v
      BY <1>1 DEF DataInv, Base, Types
    <3>2. Progress(w)' = Progress(w)
      BY <1>1, <1>3 DEF Progress
    <3> QED
      BY <1>1, <1>2, <1>3, <2>1, <3>1, <3>2 DEF Keeps
  <2>2. index = Torn \/ g[3] \in index => Keeps(v, g)'
    BY <1>1, <1>2 DEF Keeps, Idle
  <2> QED
    BY <1>1, <1>4, <2>1, <2>2 DEF DataInv, FilesAreKept
<1>10. DeletedAreGone'
  <2>1. \A w \in Servers : MemoryPlace(w)' = MemoryPlace(w)
    BY <1>1, <1>3 DEF MemoryPlace
  <2> QED
    BY <1>1, <1>3, <2>1 DEF DataInv, DeletedAreGone
<1>11. BundlesAreOpen'
  BY <1>1, <1>3 DEF DataInv, BundlesAreOpen, IsFile
<1> QED
  BY <1>5, <1>6, <1>7, <1>8, <1>9, <1>10, <1>11 DEF DataInv, Base

-----------------------------------------------------------------------------
(***************************************************************************)
(* The theorems.                                                           *)
(***************************************************************************)
\* No subject is known and nothing is stored.
LEMMA InitiallyKept == Init => DataInv
<1> SUFFICES ASSUME Init PROVE DataInv
  OBVIOUS
<1>1. Types
  BY BoundsAreNatural DEF Init, Types
<1>2. CallsAreUnderWay /\ DownIsEmpty
  BY DEF Init, CallsAreUnderWay, CallIsUnderWay, DownIsEmpty
<1>3. KnownAreListed
  BY DEF Init, KnownAreListed
<1>4. FilesAreKept
  BY DEF Init, FilesAreKept, AllFiles
<1>5. DeletedAreGone
  BY DEF Init, DeletedAreGone, Idle
<1>6. BundlesAreOpen
  BY DEF Init, BundlesAreOpen
<1> QED
  BY <1>1, <1>2, <1>3, <1>4, <1>5, <1>6, InitiallyOwned DEF DataInv, Base

\* A step that changes nothing keeps the invariant.
LEMMA StutterKeeps ==
    ASSUME DataInv, IInv', UNCHANGED vars
    PROVE  DataInv'
<1>1. UNCHANGED <<deployment, live, index, up, known, bundles, opened, tables, content,
                  task, owner, doomed, calls, stops>>
  BY DEF vars
<1>2. /\ Places' = Places /\ AllFiles' = AllFiles /\ OnlyServer' = OnlyServer
      /\ \A w, r : PlacesOf(w, r)' = PlacesOf(w, r)
      /\ \A r : LocalPaths(r)' = LocalPaths(r)
      /\ \A r : Steps("delete", r)' = Steps("delete", r)
      /\ \A role, w, r : RouteBackend(role, w, r)' = RouteBackend(role, w, r)
      /\ \A p : StaysCleared(p)' = StaysCleared(p)
  BY <1>1, DeploymentStays DEF OnlyServer
<1>3. \A w : Progress(w)' = Progress(w) /\ MemoryPlace(w)' = MemoryPlace(w)
  BY <1>1, <1>2 DEF Progress, MemoryPlace
<1>4. \A w : InDeletion(w)' <=> InDeletion(w)
  BY <1>1, <1>2, <1>3 DEF InDeletion
<1>5. \A w, f : Keeps(w, f)' <=> Keeps(w, f)
  BY <1>1, <1>2, <1>3 DEF Keeps
<1>6. Base'
  BY <1>1, <1>2, <1>4 DEF DataInv, Base, Types, CallsAreUnderWay, CallIsUnderWay, DownIsEmpty
<1>7. KnownAreListed' /\ FilesAreKept'
  BY <1>1, <1>2, <1>5 DEF DataInv, KnownAreListed, FilesAreKept, At
<1>8. DeletedAreGone' /\ BundlesAreOpen'
  BY <1>1, <1>2, <1>3 DEF DataInv, DeletedAreGone, BundlesAreOpen, IsFile
<1> QED
  BY <1>6, <1>7, <1>8 DEF DataInv

\* Every action preserves the invariant.
LEMMA StaysKept == DataInv /\ [Next]_vars => DataInv'
<1> SUFFICES ASSUME DataInv, [Next]_vars PROVE DataInv'
  OBVIOUS
<1>1. IInv'
  BY StaysOwned DEF DataInv, Base
<1>2. CASE UNCHANGED vars
  BY <1>1, <1>2, StutterKeeps
<1>3. CASE Next
  <2>1. PICK v \in Servers :
          \/ \E s \in Subjects : \/ GetOrCreate(v, "ingest", s)
                                 \/ GetOrCreate(v, "rewrite", s)
                                 \/ GetOrCreate(v, "dream", s)
                                 \/ GetOrCreate(v, "list", s)
                                 \/ DeleteSubject(v, s)
          \/ Truncate(v) \/ Write(v)
          \/ IngestMemory(v) \/ IngestCopy(v, "graph") \/ IngestCopy(v, "vector")
          \/ ReadMemories(v) \/ Rewrite(v) \/ UpsertMemory(v)
          \/ Unlink(v) \/ Forget(v)
          \/ Stop(v) \/ Start(v)
    BY <1>3 DEF Next
  <2>2. CASE \E s \in Subjects : \/ GetOrCreate(v, "ingest", s)
                                 \/ GetOrCreate(v, "rewrite", s)
                                 \/ GetOrCreate(v, "dream", s)
                                 \/ GetOrCreate(v, "list", s)
    BY <1>1, <2>2, GetOrCreateKeeps DEF Calls
  <2>3. CASE \E s \in Subjects : DeleteSubject(v, s)
    BY <1>1, <2>3, DeleteSubjectKeeps
  <2>4. CASE Truncate(v) \/ Write(v)
    BY <1>1, <2>4, PersistKeeps
  <2>5. CASE IngestMemory(v)
    BY <1>1, <2>5, IngestMemoryKeeps
  <2>6. CASE IngestCopy(v, "graph") \/ IngestCopy(v, "vector")
    <3>1. PICK role \in {"graph", "vector"} : IngestCopy(v, role)
      BY <2>6
    <3> QED
      BY <1>1, <3>1, PutKeeps DEF IngestCopy, Roles
  <2>7. CASE ReadMemories(v)
    BY <1>1, <2>7, ReadMemoriesKeeps
  <2>8. CASE Rewrite(v) \/ UpsertMemory(v)
    <3>1. CASE Rewrite(v)
      BY <1>1, <3>1, PutKeeps DEF Rewrite, Roles
    <3>2. CASE UpsertMemory(v)
      BY <1>1, <3>2, PutKeeps DEF UpsertMemory, Roles
    <3> QED
      BY <2>8, <3>1, <3>2
  <2>9. CASE Unlink(v)
    BY <1>1, <2>9, UnlinkKeeps
  <2>10. CASE Forget(v)
    BY <1>1, <2>10, ForgetKeeps
  <2>11. CASE Stop(v)
    BY <1>1, <2>11, StopKeeps
  <2>12. CASE Start(v)
    BY <1>1, <2>12, StartKeeps
  <2> QED
    BY <2>1, <2>2, <2>3, <2>4, <2>5, <2>6, <2>7, <2>8, <2>9, <2>10, <2>11, <2>12
<1> QED
  BY <1>2, <1>3

-----------------------------------------------------------------------------
(***************************************************************************)
(* What subjects.json is while it is rewritten.                            *)
(***************************************************************************)
\* A server has bundles of subjects it knows.
BundlesAreKnown == \A v \in Servers : bundles[v] \subseteq known[v]

\* Whoever truncates subjects.json writes it next.
WritesFollow ==
    \A v \in Servers : \A j \in 1..Len(task[v].todo) :
        task[v].todo[j] = "truncate" =>
            j < Len(task[v].todo) /\ task[v].todo[j + 1] = "write"

\* The file of an only server that runs is torn for a moment.
TornBriefly == OnlyServer /\ index = Torn => \A v \in up : At(v, "write")

RegistryInv == DataInv /\ BundlesAreKnown /\ WritesFollow /\ TornBriefly

\* A call goes on to its next step, or is over.
TodoGoesOn(v) ==
    /\ \A w \in Servers \ {v} : task'[w].todo = task[w].todo
    /\ task'[v].todo = <<>> \/ task'[v].todo = Tail(task[v].todo)

LEMMA TodoAfter ==
    ASSUME IInv, NEW v \in Servers, NEW step, At(v, step), NEW held,
           \/ task' = [task EXCEPT ![v] = Idle]
           \/ task' = [task EXCEPT ![v].todo = Tail(task[v].todo)]
           \/ task' = [task EXCEPT ![v].todo = Tail(task[v].todo), ![v].held = held]
    PROVE  TodoGoesOn(v)
<1>1. task = [w \in Servers |-> task[w]]
  BY DEF IInv, TypeInv, AreTasks
<1>2. PICK op \in Ops : task[v] \in CallOf(op)
  BY AtItsStep DEF IInv
<1>3. CASE task' = [task EXCEPT ![v] = Idle]
  BY <1>1, <1>3 DEF TodoGoesOn, Idle
<1>4. CASE task' = [task EXCEPT ![v].todo = Tail(task[v].todo)]
  <2>1. task'[v] = [task[v] EXCEPT !.todo = Tail(task[v].todo)]
    BY <1>1, <1>4
  <2>2. task'[v].todo = Tail(task[v].todo)
    BY <1>2, <2>1 DEF CallOf
  <2> QED
    BY <1>1, <1>4, <2>2 DEF TodoGoesOn
<1>5. CASE task' = [task EXCEPT ![v].todo = Tail(task[v].todo), ![v].held = held]
  <2>1. task'[v] = [task[v] EXCEPT !.todo = Tail(task[v].todo), !.held = held]
    BY <1>1, <1>5
  <2>2. task'[v].todo = Tail(task[v].todo)
    BY <1>2, <2>1 DEF CallOf
  <2> QED
    BY <1>1, <1>5, <2>2 DEF TodoGoesOn
<1> QED
  BY <1>3, <1>4, <1>5

\* The steps of a call.
StoreOrPersist(v) ==
    \/ Truncate(v) \/ Write(v)
    \/ IngestMemory(v) \/ IngestCopy(v, "graph") \/ IngestCopy(v, "vector")
    \/ ReadMemories(v) \/ Rewrite(v) \/ UpsertMemory(v)
    \/ Unlink(v) \/ Forget(v)

\* Each is the next step of the call, and of these only the two of Persist
\* change subjects.json.
LEMMA StepsGoOn ==
    ASSUME IInv, NEW v \in Servers, StoreOrPersist(v)
    PROVE  /\ v \in up /\ up' = up /\ deployment' = deployment /\ live' = live
           /\ TodoGoesOn(v)
           /\ \E step : At(v, step)
           /\ \/ Truncate(v) /\ At(v, "truncate") /\ task'[v].todo = Tail(task[v].todo)
              \/ Write(v)
              \/ index' = index /\ ~At(v, "write")
<1> USE DEF config
<1>1. CASE Truncate(v) \/ Write(v) \/ Unlink(v) \/ Forget(v)
  <2>1. PICK step \in {"truncate", "write", "unlink", "forget"} : At(v, step) /\ Proceed(v)
    BY <1>1 DEF Truncate, Write, Unlink, Forget
  <2>2. TodoGoesOn(v)
    BY <2>1, TodoAfter DEF Proceed, Goto
  <2>3. task'[v].todo = Tail(task[v].todo)
    <3>1. PICK op \in Ops : task[v] \in CallOf(op)
      BY <2>1, AtItsStep DEF IInv
    <3>2. /\ task = [w \in Servers |-> task[w]]
          /\ task[v].todo \in Seq(StepsOf(op)) /\ task[v].todo # <<>>
      BY <2>1, <3>1 DEF IInv, TypeInv, AreTasks, At, CallOf
    <3>3. CASE Len(task[v].todo) = 1
      <4>1. Tail(task[v].todo) = <<>>
        <5>1. ASSUME NEW q \in Seq(StepsOf(op)), q # <<>>, Len(q) = 1 PROVE Tail(q) = <<>>
          <6>1. Tail(q) \in Seq(StepsOf(op)) /\ Len(Tail(q)) = 0
            BY <5>1, HeadTailProperties
          <6> QED
            BY <6>1, EmptySeq, Zenon
        <5> QED
          BY <3>2, <3>3, <5>1
      <4>2. task'[v] = Idle
        BY <2>1, <3>2, <3>3 DEF Proceed
      <4> QED
        BY <4>1, <4>2 DEF Idle
    <3>4. CASE Len(task[v].todo) # 1
      <4>1. task'[v] = [task[v] EXCEPT !.todo = Tail(task[v].todo)]
        BY <2>1, <3>2, <3>4 DEF Proceed, Goto
      <4> QED
        BY <3>1, <4>1 DEF CallOf
    <3> QED
      BY <3>3, <3>4
  <2> QED
    BY <1>1, <2>1, <2>2, <2>3 DEF Truncate, Write, Unlink, Forget, At
<1>2. CASE IngestCopy(v, "graph") \/ IngestCopy(v, "vector") \/ Rewrite(v) \/ UpsertMemory(v)
  <2>1. PICK step \in {"graph", "vector", "rewrite", "copy"} :
           At(v, step) /\ (Proceed(v) \/ task' = [task EXCEPT ![v] = Idle])
    BY <1>2 DEF IngestCopy, Rewrite, UpsertMemory, Put, Raise
  <2>2. TodoGoesOn(v)
    BY <2>1, TodoAfter DEF Proceed, Goto
  <2> QED
    BY <1>2, <2>1, <2>2 DEF IngestCopy, Rewrite, UpsertMemory, At
<1>3. CASE IngestMemory(v)
  <2>1. PICK m \in Memories :
           \/ task' = [task EXCEPT ![v] = Idle]
           \/ task' = [task EXCEPT ![v].todo = Tail(task[v].todo), ![v].held = {m}]
    BY <1>3, ZenonT(30) DEF IngestMemory, Raise
  <2>2. At(v, "memory") /\ index' = index /\ up' = up /\ UNCHANGED config
    BY <1>3 DEF IngestMemory
  <2>3. TodoGoesOn(v)
    BY <2>1, <2>2, TodoAfter
  <2> QED
    BY <2>2, <2>3 DEF At
<1>4. CASE ReadMemories(v)
  <2>1. PICK some :
           \/ task' = [task EXCEPT ![v] = Idle]
           \/ task' = [task EXCEPT ![v].todo = Tail(task[v].todo), ![v].held = some]
    BY <1>4, ZenonT(30) DEF ReadMemories, Raise
  <2>2. At(v, "read") /\ index' = index /\ up' = up /\ UNCHANGED config
    BY <1>4 DEF ReadMemories
  <2>3. TodoGoesOn(v)
    BY <2>1, <2>2, TodoAfter
  <2> QED
    BY <2>2, <2>3 DEF At
<1> QED
  BY <1>1, <1>2, <1>3, <1>4 DEF StoreOrPersist

\* What follows a step still follows it when the call goes on.
LEMMA WritesFollowOn ==
    ASSUME IInv, WritesFollow, NEW v \in Servers, NEW step, At(v, step), TodoGoesOn(v)
    PROVE  WritesFollow'
<1> DEFINE q == task[v].todo
<1>1. PICK op \in Ops : q \in Seq(StepsOf(op)) /\ q # <<>>
  BY AtItsStep DEF IInv, CallOf, At
<1>2. \A j \in 1..Len(q) : q[j] = "truncate" => j < Len(q) /\ q[j + 1] = "write"
  BY DEF WritesFollow
<1> HIDE DEF q
<1>3. \A j \in 1..Len(Tail(q)) :
         Tail(q)[j] = "truncate" => j < Len(Tail(q)) /\ Tail(q)[j + 1] = "write"
  <2> SUFFICES ASSUME NEW j \in 1..Len(Tail(q)), Tail(q)[j] = "truncate"
               PROVE  j < Len(Tail(q)) /\ Tail(q)[j + 1] = "write"
    OBVIOUS
  <2>1. Len(q) \in Nat /\ Len(Tail(q)) = Len(q) - 1 /\ j + 1 \in 1..Len(q)
    BY <1>1
  <2>2. q[j + 1] = "truncate"
    BY <1>1, <2>1
  <2>3. j + 1 < Len(q) /\ q[j + 2] = "write"
    BY <1>2, <2>1, <2>2
  <2> QED
    BY <1>1, <2>1, <2>3
<1>4. task'[v].todo = Tail(q) \/ task'[v].todo = <<>>
  BY DEF TodoGoesOn, q
<1>5. \A j \in 1..Len(task'[v].todo) : task'[v].todo[j] = "truncate" =>
         j < Len(task'[v].todo) /\ task'[v].todo[j + 1] = "write"
  <2>1. CASE task'[v].todo = Tail(q)
    BY <1>3, <2>1, Zenon
  <2>2. CASE task'[v].todo = <<>>
    BY <2>2
  <2> QED
    BY <1>4, <2>1, <2>2
<1>6. ASSUME NEW w \in Servers \ {v}
      PROVE  \A j \in 1..Len(task'[w].todo) : task'[w].todo[j] = "truncate" =>
                j < Len(task'[w].todo) /\ task'[w].todo[j + 1] = "write"
  BY DEF WritesFollow, TodoGoesOn
<1> QED
  BY <1>5, <1>6 DEF WritesFollow

\* A call that begins does so as well, with a truncation if its subject is new.
LEMMA WritesFollowFirst ==
    ASSUME deployment \in Deployments, NEW v \in Servers, NEW s \in Subjects, NEW todo,
           todo = Steps("delete", s) \/ \E op \in Calls : todo = WithNewSubject(v, op, s)
    PROVE  \A j \in 1..Len(todo) :
              todo[j] = "truncate" => j < Len(todo) /\ todo[j + 1] = "write"
<1>1. CASE todo = Steps("delete", s)
  BY <1>1, StepsOfDeletion
<1>2. ASSUME NEW op \in Calls, todo = WithNewSubject(v, op, s)
      PROVE  \A j \in 1..Len(todo) :
                todo[j] = "truncate" => j < Len(todo) /\ todo[j + 1] = "write"
  <2> DEFINE steps == Steps(op, s)
  <2>1. PICK S : steps \in Seq(S) /\ \A j \in 1..Len(steps) : steps[j] # "truncate"
    <3>1. steps \in {<<"memory", "vector">>, <<"memory", "graph", "vector">>, <<"read">>,
                     <<"read", "rewrite">>, <<"read", "rewrite", "copy">>}
      BY ZenonT(30) DEF Steps, Calls
    <3> HIDE DEF steps
    <3> DEFINE S == {"memory", "vector", "graph", "read", "rewrite", "copy"}
    <3>2. steps \in Seq(S)
      <4>1. <<"memory", "vector">> \in Seq(S) /\ <<"read">> \in Seq(S)
        OBVIOUS
      <4>2. <<"memory", "graph", "vector">> \in Seq(S)
        OBVIOUS
      <4>3. <<"read", "rewrite">> \in Seq(S) /\ <<"read", "rewrite", "copy">> \in Seq(S)
        OBVIOUS
      <4> HIDE DEF S
      <4> QED
        BY <3>1, <4>1, <4>2, <4>3
    <3>3. \A j \in 1..Len(steps) : steps[j] # "truncate"
      BY <3>2
    <3> QED
      BY <3>2, <3>3
  <2>2. todo = steps \/ todo = <<"truncate", "write">> \o steps \/ todo = <<>> \o steps
    BY <1>2 DEF WithNewSubject, Persist
  <2> HIDE DEF steps
  <2>3. CASE todo = <<"truncate", "write">> \o steps
    <3>1. /\ Len(steps) \in Nat /\ Len(todo) = Len(steps) + 2
          /\ todo[1] = "truncate" /\ todo[2] = "write"
          /\ \A j \in 3..Len(todo) : todo[j] = steps[j - 2]
      BY <2>1, <2>3
    <3> QED
      BY <2>1, <3>1
  <2>4. CASE todo = steps \/ todo = <<>> \o steps
    BY <2>1, <2>4
  <2> QED
    BY <2>2, <2>3, <2>4
<1> QED
  BY <1>1, <1>2

LEMMA InitiallyInOrder == Init => RegistryInv
<1> SUFFICES ASSUME Init PROVE RegistryInv
  OBVIOUS
<1>1. WritesFollow
  BY DEF Init, WritesFollow, Idle
<1>2. BundlesAreKnown
  BY DEF Init, BundlesAreKnown
<1>3. TornBriefly
  BY DEF Init, TornBriefly, Torn
<1> QED
  BY <1>1, <1>2, <1>3, InitiallyKept DEF RegistryInv

\* A bundle goes with its subject's name, and both with their server.
LEMMA BundlesStayKnown ==
    ASSUME RegistryInv, [Next]_vars
    PROVE  BundlesAreKnown'
<1>1. /\ bundles \in [Servers -> SUBSET Subjects] /\ known \in [Servers -> SUBSET Subjects]
      /\ \A v \in Servers : bundles[v] \subseteq known[v]
      /\ \A v \in Servers \ up : bundles[v] = {}
  BY DEF RegistryInv, DataInv, Base, Types, BundlesAreKnown, DownIsEmpty
<1>2. CASE UNCHANGED <<bundles, known>>
  BY <1>1, <1>2 DEF BundlesAreKnown
<1>3. ASSUME NEW v \in Servers, NEW s \in Subjects, NEW op \in Calls, GetOrCreate(v, op, s)
      PROVE  BundlesAreKnown'
  BY <1>1, <1>3 DEF GetOrCreate, BuildBundle, BundlesAreKnown
<1>4. ASSUME NEW v \in Servers, NEW s \in Subjects, DeleteSubject(v, s)
      PROVE  BundlesAreKnown'
  BY <1>1, <1>4 DEF DeleteSubject, PopBundle, BundlesAreKnown
<1>5. ASSUME NEW v \in Servers, Forget(v) PROVE BundlesAreKnown'
  BY <1>1, <1>5 DEF Forget, PopBundle, BundlesAreKnown
<1>6. ASSUME NEW v \in Servers, Stop(v) PROVE BundlesAreKnown'
  BY <1>1, <1>6 DEF Stop, BundlesAreKnown
<1>7. ASSUME NEW v \in Servers, Start(v) PROVE BundlesAreKnown'
  BY <1>1, <1>7 DEF Start, BundlesAreKnown
<1>8. ASSUME NEW v \in Servers, StoreOrPersist(v), ~Forget(v) PROVE UNCHANGED <<bundles, known>>
  BY <1>8 DEF StoreOrPersist, Truncate, Write, IngestMemory, IngestCopy, ReadMemories,
              Rewrite, UpsertMemory, Unlink, registry
<1> QED
  BY <1>2, <1>3, <1>4, <1>5, <1>6, <1>7, <1>8 DEF Next, vars, StoreOrPersist, Calls

\* Every action keeps the write behind the truncation, and the file torn no longer.
LEMMA StaysInOrder == RegistryInv /\ [Next]_vars => RegistryInv'
<1> SUFFICES ASSUME RegistryInv, [Next]_vars PROVE RegistryInv'
  OBVIOUS
<1>1. DataInv' /\ BundlesAreKnown'
  BY StaysKept, BundlesStayKnown DEF RegistryInv
<1>2. /\ IInv /\ deployment \in Deployments /\ task = [w \in Servers |-> task[w]]
      /\ up \subseteq live /\ live \subseteq Servers /\ known \in [Servers -> SUBSET Subjects]
  BY DEF RegistryInv, DataInv, Base, IInv, TypeInv, AreTasks, Types
<1>3. CASE UNCHANGED vars
  BY <1>1, <1>3 DEF RegistryInv, WritesFollow, TornBriefly, OnlyServer, At, vars
<1>4. ASSUME NEW v \in Servers, StoreOrPersist(v) PROVE RegistryInv'
  <2>1. /\ v \in up /\ up' = up /\ live' = live
        /\ TodoGoesOn(v)
        /\ \E step : At(v, step)
        /\ \/ Truncate(v) /\ At(v, "truncate") /\ task'[v].todo = Tail(task[v].todo)
           \/ Write(v)
           \/ index' = index /\ ~At(v, "write")
    BY <1>2, <1>4, StepsGoOn
  <2>2. WritesFollow'
    BY <1>2, <2>1, WritesFollowOn DEF RegistryInv
  <2>3. TornBriefly'
    <3> SUFFICES ASSUME OnlyServer, index' = Torn, NEW w \in up PROVE At(w, "write")'
      BY <2>1 DEF TornBriefly, OnlyServer
    <3>1. w = v
      BY <1>2, <2>1, Alone DEF RegistryInv, DataInv
    <3>2. CASE Truncate(v) /\ At(v, "truncate") /\ task'[v].todo = Tail(task[v].todo)
      <4>1. PICK op \in Ops : task[v].todo \in Seq(StepsOf(op)) /\ task[v].todo # <<>>
        BY <1>2, <3>2, AtItsStep DEF IInv, CallOf, At
      <4>2. 1 < Len(task[v].todo) /\ task[v].todo[2] = "write"
        <5>1. task[v].todo[1] = "truncate" /\ 1 \in 1..Len(task[v].todo)
          BY <3>2, <4>1 DEF At
        <5> QED
          BY <5>1 DEF RegistryInv, WritesFollow
      <4>3. Tail(task[v].todo) # <<>> /\ Head(Tail(task[v].todo)) = "write"
        BY <4>1, <4>2, TailOf
      <4> QED
        BY <2>1, <3>1, <3>2, <4>3 DEF At
    <3>3. CASE Write(v)
      BY <1>2, <3>3, NobodyIsNoSubject DEF Write, Torn
    <3>4. CASE index' = index /\ ~At(v, "write")
      BY <2>1, <3>4 DEF RegistryInv, TornBriefly
    <3> QED
      BY <2>1, <3>2, <3>3, <3>4
  <2> QED
    BY <1>1, <2>2, <2>3 DEF RegistryInv
<1>5. ASSUME NEW v \in Servers, NEW t,
             v \in up, task[v] = Idle, UNCHANGED <<live, up, index>>,
             UNCHANGED task \/ task' = [task EXCEPT ![v] = t],
             \A j \in 1..Len(t.todo) :
                t.todo[j] = "truncate" => j < Len(t.todo) /\ t.todo[j + 1] = "write"
      PROVE  RegistryInv'
  <2>1. WritesFollow'
    BY <1>2, <1>5 DEF RegistryInv, WritesFollow
  <2>2. ~At(v, "write")
    BY <1>5 DEF At, Idle
  <2>3. TornBriefly'
    BY <1>5, <2>2 DEF RegistryInv, TornBriefly, OnlyServer
  <2> QED
    BY <1>1, <2>1, <2>3 DEF RegistryInv
<1>6. ASSUME NEW v \in Servers, NEW s \in Subjects, NEW op \in Calls, GetOrCreate(v, op, s)
      PROVE  RegistryInv'
  <2> DEFINE t == [op |-> op, subject |-> s, held |-> {}, todo |-> WithNewSubject(v, op, s)]
  <2>1. /\ v \in up /\ task[v] = Idle /\ UNCHANGED <<live, up, index>>
        /\ task' = [task EXCEPT ![v] = t]
    BY <1>6 DEF GetOrCreate, Begins, config
  <2>2. t.todo = WithNewSubject(v, op, s)
    OBVIOUS
  <2> HIDE DEF t
  <2>3. \A j \in 1..Len(t.todo) :
           t.todo[j] = "truncate" => j < Len(t.todo) /\ t.todo[j + 1] = "write"
    BY <1>2, <2>2, WritesFollowFirst
  <2> QED
    BY <1>5, <2>1, <2>3
<1>7. ASSUME NEW v \in Servers, NEW s \in Subjects, DeleteSubject(v, s) PROVE RegistryInv'
  <2> DEFINE t == [op |-> "delete", subject |-> s, held |-> {}, todo |-> Steps("delete", s)]
  <2>1. /\ v \in up /\ task[v] = Idle /\ UNCHANGED <<live, up, index>>
        /\ UNCHANGED task \/ task' = [task EXCEPT ![v] = t]
    BY <1>7 DEF DeleteSubject, Begins, config
  <2>2. t.todo = Steps("delete", s)
    OBVIOUS
  <2> HIDE DEF t
  <2>3. \A j \in 1..Len(t.todo) :
           t.todo[j] = "truncate" => j < Len(t.todo) /\ t.todo[j + 1] = "write"
    BY <1>2, <2>2, WritesFollowFirst
  <2> QED
    BY <1>5, <2>1, <2>3
<1>8. ASSUME NEW v \in Servers, Stop(v) PROVE RegistryInv'
  <2>1. /\ v \in up /\ up' = up \ {v} /\ UNCHANGED <<live, index>>
        /\ task' = [task EXCEPT ![v] = Idle]
    BY <1>8 DEF Stop, config
  <2>2. WritesFollow'
    BY <1>2, <2>1 DEF RegistryInv, WritesFollow, Idle
  <2>3. TornBriefly'
    BY <1>2, <2>1 DEF RegistryInv, TornBriefly, OnlyServer, At
  <2> QED
    BY <1>1, <2>2, <2>3 DEF RegistryInv
<1>9. ASSUME NEW v \in Servers, Start(v) PROVE RegistryInv'
  BY <1>1, <1>9 DEF Start, config, RegistryInv, WritesFollow, TornBriefly
<1> QED
  BY <1>3, <1>4, <1>6, <1>7, <1>8, <1>9 DEF Next, StoreOrPersist, Calls

\* The state of the registry, the files and the calls keeps its types: a call in
\* progress belongs to a server that runs and has a step to go, and a server has
\* bundles of subjects it knows.
THEOREM RegistryIsTyped == Spec => []TypeOK
<1>1. RegistryInv => TypeOK
  BY DEF RegistryInv, BundlesAreKnown, DataInv, Base, IInv, TypeInv, Types,
         CallsAreUnderWay, CallIsUnderWay, TypeOK
<1> QED
  BY <1>1, InitiallyInOrder, StaysInOrder, PTL DEF Spec

\* In every run, a server that is alone on its directory knows every subject with
\* data on disk, and subjects.json lists it but for the moment in which this server
\* rewrites the file or after it stopped in this moment; of several servers one that
\* runs knows the subject until the first stop.
THEOREM DataStaysIndexed == Spec => []DataIsIndexed
<1>1. RegistryInv => DataIsIndexed
  <2> SUFFICES ASSUME RegistryInv, NEW s \in Subjects, NEW f \in AllFiles,
                      f[3] = s, content[f] # {}
               PROVE  /\ OnlyServer =>
                           /\ \A v \in up : s \in known[v]
                           /\ s \in index \/ (index = Torn /\ \A v \in up : At(v, "write"))
                      /\ stops = 0 => \E v \in up : s \in known[v]
    BY DEF DataIsIndexed, HasData
  <2>1. /\ stops > 0 \/ \E v \in up : Keeps(v, f)
        /\ OnlyServer => (index = Torn \/ s \in index) /\ \A v \in up : Keeps(v, f)
    BY DEF RegistryInv, DataInv, FilesAreKept
  <2>2. \A v \in up : Keeps(v, f) => s \in known[v]
    BY DEF Keeps
  <2> QED
    BY <2>1, <2>2 DEF RegistryInv, TornBriefly
<1> QED
  BY <1>1, InitiallyInOrder, StaysInOrder, PTL DEF Spec

\* In every run of one server on a data directory, no place on the host holds a
\* memory of a subject after delete_subject, but for a graph store that a dream
\* fills again from a remote memory store; and no call meets a file without its
\* tables, whatever the crashes and however often the subject is made again.
THEOREM DeletionStaysClean == Spec => []DeletionIsClean
<1>1. DataInv => DeletionIsLocal
  BY DEF DataInv, DeletedAreGone, DeletionIsLocal, StaysCleared, Revives
<1>2. DataInv => FilesHaveTables
  BY DEF DataInv, BundlesAreOpen, FilesHaveTables
<1> QED
  BY <1>1, <1>2, InitiallyKept, StaysKept, PTL DEF Spec, DeletionIsClean
=============================================================================
