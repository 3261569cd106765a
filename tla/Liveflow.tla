------------------------------ MODULE Liveflow ------------------------------
(* How the jobs of a liveflow come to share streams.  A liveflow definition  *)
(* is turned into a graph (shared/src/systems/def_graph.rs, driven by        *)
(* LiveflowSpec.getDefGraph); the orchestration worker enqueues one job per  *)
(* spec node with the streams of that graph as overrides; every process that *)
(* later wants a stream of a job resolves it on its own, from the connector  *)
(* and relation records in the vault, and keeps what it found for ever       *)
(* (core/src/liveflow/resolveInstantiatedGraph.ts).                          *)
(* One job group; its children are plain specs, not liveflows.               *)
EXTENDS Naturals, SequencesExt

CONSTANTS
  Tags, Labels,     \* tags of specs; labels of spec nodes
  NoLabel,          \* the label of a spec node that has none
  Inputs, Outputs,  \* [spec name -> its input tags], [spec name -> its output tags]
  AnySpec,          \* the open side "(*)" of a stream definition
  Group,            \* the job of the liveflow itself
  Flows,            \* liveflow definitions: sequences of connections
  Procs,            \* operating-system processes
  Homes             \* ways to spread the four kinds of actor over the processes

\* Spec nodes are <<name, label>>, inlets and outlets [job |-> node, tag |-> tag],
\* stream definitions <<outlet or AnySpec, inlet or AnySpec>>.
Name(node) == node[1]
Plain(name) == <<name, NoLabel>>

Nodes == (DOMAIN Inputs) \X Labels
EndPoints == [job : Nodes, tag : Tags]
Connections == [from : EndPoints, to : EndPoints]

Actors == {"orchestrator", "workers", "client", "binder"}

ASSUME FlowAssumption ==
  /\ NoLabel \in Labels /\ AnySpec \notin EndPoints
  /\ Inputs \in [DOMAIN Inputs -> SUBSET Tags] /\ Outputs \in [DOMAIN Inputs -> SUBSET Tags]
  /\ Flows \subseteq Seq(Connections)
  /\ Homes \subseteq [Actors -> Procs]

-----------------------------------------------------------------------------
(* The definition graph: its spec nodes, the stream definitions connected to *)
(* each inlet and outlet in the order of the edges, and the table of         *)
(* definitions by direction, spec name and tag.                              *)

EmptyGraph == [specs |-> {}, into |-> <<>>, outof |-> <<>>, byTag |-> <<>>]

Edges(f, end) == IF end \in DOMAIN f THEN f[end] ELSE <<>>
Put(f, key, value) == [k \in DOMAIN f \union {key} |-> IF k = key THEN value ELSE f[k]]
EnsureEdge(edges, def) == IF def \in Range(edges) THEN edges ELSE Append(edges, def)

\* Mutant: the table does not tell inputs from outputs.
TagKeyUndirected(dir, end) == <<"in", Name(end.job), end.tag>>

TagKey(dir, end) == <<dir, Name(end.job), end.tag>>

\* An outlet that has a stream already keeps it for its next connection.
ConnectionStream(g, c) ==
  LET old == Edges(g.outof, c.from) IN IF old = <<>> THEN <<c.from, c.to>> ELSE Head(old)

AddConnectedDualSpecs(g, c) ==
  LET def == ConnectionStream(g, c) IN
  [specs |-> g.specs \union {c.from.job, c.to.job},
   into |-> Put(g.into, c.to, EnsureEdge(Edges(g.into, c.to), def)),
   outof |-> Put(g.outof, c.from, EnsureEdge(Edges(g.outof, c.from), def)),
   byTag |-> Put(Put(g.byTag, TagKey("in", c.to), def), TagKey("out", c.from), def)]

\* The stream of an end that is connected to nothing.
Loose(dir, end) == IF dir = "in" THEN <<AnySpec, end>> ELSE <<end, AnySpec>>

\* ensureInletAndStream, ensureOutletAndStream: f with each end and its stream,
\* the one the table has for its spec name and tag, or else a loose one.
StreamOfTag(g, dir, e) ==
  IF TagKey(dir, e) \in DOMAIN g.byTag THEN g.byTag[TagKey(dir, e)] ELSE Loose(dir, e)

Ensured(g, f, dir, ends) ==
  [e \in DOMAIN f \union ends |->
     IF e \in ends THEN EnsureEdge(Edges(f, e), StreamOfTag(g, dir, e)) ELSE f[e]]

Ends(tags, names) == UNION {{[job |-> Plain(n), tag |-> t] : t \in tags[n]} : n \in names}

\* Every tag of every connected spec, whose label is dropped.
AddLooseTags(g) ==
  LET names == {Name(s) : s \in g.specs} IN
  [g EXCEPT !.specs = @ \union {Plain(n) : n \in names},
            !.into = Ensured(g, @, "in", Ends(Inputs, names)),
            !.outof = Ensured(g, @, "out", Ends(Outputs, names))]

\* The graph of the first k connections.
GraphsUpTo(flow) ==
  LET g[k \in 0 .. Len(flow)] ==
        IF k = 0 THEN EmptyGraph ELSE AddConnectedDualSpecs(g[k - 1], flow[k])
  IN  g

GraphOf(flow) == AddLooseTags(GraphsUpTo(flow)[Len(flow)])

-----------------------------------------------------------------------------
VARIABLES
  flow, graph,  \* the liveflow definition and the graph made of it
  exposed,      \* the inlet or outlet it exposes: <<"in" or "out", end>>
  home,         \* [actor -> its process]
  stored,       \* child jobs whose records are in the vault
  queued,       \* child jobs that were added to the queue
  enqueuing,    \* [child job -> how far the call of enqueueJob for it is]
  orchestrator, \* the processor of the liveflow's own job
  status,       \* the datapoints of __zz_liveflow_status
  client,       \* the caller of LiveflowSpec.enqueueJob
  binder,       \* somebody who gets the manager of the group by its job id
  cache         \* [process -> [child job -> the instantiated graph it resolved]]

vars == <<flow, graph, exposed, home, stored, queued, enqueuing, orchestrator, status,
          client, binder, cache>>
fixed == <<flow, graph, exposed, home>>

Children == graph.specs

\* A graph being resolved: what its two reads found in the vault.
Resolutions == [at: {"none", "records", "done"}, records: BOOLEAN, parent: BOOLEAN]
Unresolved == [at |-> "none", records |-> FALSE, parent |-> FALSE]

TypeOK ==
  /\ flow \in Flows /\ Children \subseteq Nodes
  /\ exposed[2] \in IF exposed[1] = "in" THEN DOMAIN graph.into ELSE DOMAIN graph.outof
  /\ home \in [Actors -> Procs]
  /\ stored \subseteq Children /\ queued \subseteq Children
  /\ enqueuing \in [Nodes -> {"no", "storing", "adding", "added", "failed"}]
  /\ orchestrator \in {"absent", "queued", "running", "finished", "failed"}
  /\ status \in {<<>>, <<"finished">>}
  /\ client \in {"storing", "adding", "waiting", "returned"}
  /\ binder \in {"away", "bound"}
  /\ cache \in [Procs -> [Nodes -> Resolutions]]

Init ==
  /\ flow \in Flows /\ graph = GraphOf(flow)
  /\ exposed \in ({"in"} \X (DOMAIN graph.into)) \union ({"out"} \X (DOMAIN graph.outof))
  /\ home \in Homes
  /\ stored = {} /\ queued = {}
  /\ enqueuing = [n \in Nodes |-> "no"]
  /\ orchestrator = "absent"
  /\ status = <<>>
  /\ client = "storing"
  /\ binder = "away"
  /\ cache = [p \in Procs |-> [n \in Nodes |-> Unresolved]]

-----------------------------------------------------------------------------
(* Stream ids are <<context, stream definition>>. *)

\* The stream of a plain spec's own graph: its spec name, not its label.
OwnStream(context, job, dir, tag) ==
  <<context, Loose(dir, [job |-> Plain(Name(job)), tag |-> tag])>>

\* The connector record enqueueJob stores for a child: the first stream at its
\* inlet or outlet in the graph of the group, else the one of its own graph.
ConnectorRec(job, dir, tag) ==
  LET edges == Edges(IF dir = "in" THEN graph.into ELSE graph.outof, [job |-> job, tag |-> tag]) IN
  IF edges # <<>> THEN <<Group, Head(edges)>> ELSE OwnStream(job, job, dir, tag)

\* getStreamIdForJob in a process that has resolved the job's graph.
StreamIdForJob(p, job, dir, tag) ==
  IF cache[p][job].records THEN ConnectorRec(job, dir, tag)
  ELSE OwnStream(IF cache[p][job].parent THEN Group ELSE job, job, dir, tag)

\* The child job that has the exposed tag: convertLiveflowAliasToSpecTag and
\* lookUpChildJobIdByGroupIDAndSpecTag, which ask the graph only.
ExposedJob == exposed[2].job

-----------------------------------------------------------------------------
(* resolveInstantiatedGraph: memoised in each process, by job.  It reads the *)
(* connector records first and the record of the parent job after that.      *)

Wants(p, j) ==
  \/ enqueuing[j] = "added" /\ home["orchestrator"] = p
  \/ j \in queued /\ home["workers"] = p
  \/ client = "returned" /\ j = ExposedJob /\ home["client"] = p
  \/ binder = "bound" /\ j = ExposedJob /\ home["binder"] = p

ReadConnectorRecs(p, j) ==
  /\ Wants(p, j) /\ cache[p][j].at = "none"
  /\ cache' = [cache EXCEPT ![p][j] = [at |-> "records", records |-> j \in stored, parent |-> FALSE]]
  /\ UNCHANGED <<fixed, stored, queued, enqueuing, orchestrator, status, client, binder>>

ReadParentRec(p, j) ==
  /\ cache[p][j].at = "records"
  /\ cache' = [cache EXCEPT ![p][j] = [@ EXCEPT !.at = "done", !.parent = j \in stored]]
  /\ UNCHANGED <<fixed, stored, queued, enqueuing, orchestrator, status, client, binder>>

Resolved(actor, j) == cache[home[actor]][j].at = "done"

-----------------------------------------------------------------------------
(* The client: enqueueJob of the liveflow. *)

StoreGroup ==
  /\ client = "storing"
  /\ client' = "adding"
  /\ UNCHANGED <<fixed, stored, queued, enqueuing, orchestrator, status, binder, cache>>

AddGroup ==
  /\ client = "adding"
  /\ client' = "waiting"
  /\ orchestrator' = "queued"
  /\ UNCHANGED <<fixed, stored, queued, enqueuing, status, binder, cache>>

\* Mutant: enqueueJob returns without the wait for the status.
EnqueueReturnsEarly ==
  /\ client = "waiting"
  /\ client' = "returned"
  /\ UNCHANGED <<fixed, stored, queued, enqueuing, orchestrator, status, binder, cache>>

EnqueueReturns ==
  /\ client = "waiting" /\ status # <<>>
  /\ client' = "returned"
  /\ UNCHANGED <<fixed, stored, queued, enqueuing, orchestrator, status, binder, cache>>

\* Somebody else binds to the group: getJobManager needs its record only.
GetJobManager ==
  /\ binder = "away" /\ client # "storing"
  /\ binder' = "bound"
  /\ UNCHANGED <<fixed, stored, queued, enqueuing, orchestrator, status, client, cache>>

-----------------------------------------------------------------------------
(* The orchestration worker: enqueueJob of all children at once. *)

StartOrchestration ==
  /\ orchestrator = "queued"
  /\ orchestrator' = "running"
  /\ enqueuing' = [n \in Nodes |-> IF n \in Children THEN "storing" ELSE "no"]
  /\ UNCHANGED <<fixed, stored, queued, status, client, binder, cache>>

\* One transaction: the job, its relation to the parent, its connectors.
StoreChild(j) ==
  /\ enqueuing[j] = "storing"
  /\ stored' = stored \union {j}
  /\ enqueuing' = [enqueuing EXCEPT ![j] = "adding"]
  /\ UNCHANGED <<fixed, queued, orchestrator, status, client, binder, cache>>

\* Mutant: the job goes into the queue while its records are being stored.
AddChildEarly(j) ==
  /\ enqueuing[j] \in {"storing", "adding"}
  /\ queued' = queued \union {j}
  /\ enqueuing' = [enqueuing EXCEPT ![j] = IF @ = "adding" THEN "added" ELSE @]
  /\ UNCHANGED <<fixed, stored, orchestrator, status, client, binder, cache>>

AddChild(j) ==
  /\ enqueuing[j] = "adding"
  /\ queued' = queued \union {j}
  /\ enqueuing' = [enqueuing EXCEPT ![j] = "added"]
  /\ UNCHANGED <<fixed, stored, orchestrator, status, client, binder, cache>>

\* enqueueJob ends with getJobManager, which resolves the graph of the child.
Enqueued(j) == enqueuing[j] = "added" /\ Resolved("orchestrator", j)

\* A call to the vault breaks: Promise.all rejects, LiveJob records a failure
\* and ends no output; the other calls of enqueueJob go on.  Bound: one breaks.
EnqueueChildFails(j) ==
  /\ orchestrator = "running"
  /\ enqueuing[j] \in {"storing", "adding", "added"} /\ ~Enqueued(j)
  /\ enqueuing' = [enqueuing EXCEPT ![j] = "failed"]
  /\ orchestrator' = "failed"
  /\ UNCHANGED <<fixed, stored, queued, status, client, binder, cache>>

\* Mutant: the processor returns without emitting the status.
OrchestrationFinishesSilently ==
  /\ orchestrator = "running" /\ \A j \in Children : Enqueued(j)
  /\ orchestrator' = "finished"
  /\ UNCHANGED <<fixed, stored, queued, enqueuing, status, client, binder, cache>>

OrchestrationFinishes ==
  /\ orchestrator = "running" /\ \A j \in Children : Enqueued(j)
  /\ orchestrator' = "finished"
  /\ status' = <<"finished">>
  /\ UNCHANGED <<fixed, stored, queued, enqueuing, client, binder, cache>>

-----------------------------------------------------------------------------
ChildStep(j) ==
  \/ StoreChild(j) \/ AddChild(j)
  \/ \E p \in Procs : ReadConnectorRecs(p, j) \/ ReadParentRec(p, j)

GroupStep ==
  \/ StoreGroup \/ AddGroup \/ EnqueueReturns
  \/ StartOrchestration \/ OrchestrationFinishes

Next ==
  \/ GroupStep \/ GetJobManager
  \/ \E j \in Nodes : ChildStep(j) \/ EnqueueChildFails(j)

Spec == Init /\ [][Next]_vars

\* Event loops run what is ready and the vault answers; nobody need bind by id,
\* no call need break.
Fairness ==
  /\ WF_vars(GroupStep)
  /\ \A j \in Nodes : WF_vars(ChildStep(j))

FairSpec == Spec /\ Fairness

-----------------------------------------------------------------------------
(* Properties *)

\* The processes nobody binds in by id, as LiveGatewayConn may do at any time.
Undisturbed(actor) == home[actor] # home["binder"]

SoleConnection(c) == \A d \in Range(flow) : d.to = c.to => d = c

WorkerStream(dir, end) == StreamIdForJob(home["workers"], end.job, dir, end.tag)
Serving(j) == j \in queued /\ Resolved("workers", j)
Bound == client = "returned" /\ Resolved("client", ExposedJob)

\* The worker of a consumer reads the very stream the worker of its producer
\* writes, although each finds it on its own, from records stored by different
\* calls; for an inlet with one connection and a process without early binders.
WiredAsConnected ==
  \A c \in Range(flow) :
    Serving(c.from.job) /\ Serving(c.to.job) /\ SoleConnection(c) /\ Undisturbed("workers")
      => WorkerStream("out", c.from) = WorkerStream("in", c.to)

\* No job reads a stream that a job writes to which the definition does not
\* connect it, in a definition without labels; early binders included.
NoCrossTalk ==
  (\A n \in {c.from.job : c \in Range(flow)} \union {c.to.job : c \in Range(flow)} : n = Plain(Name(n)))
    => \A o \in DOMAIN graph.outof : \A i \in DOMAIN graph.into :
         Serving(o.job) /\ Serving(i.job) /\ WorkerStream("out", o) = WorkerStream("in", i)
           => [from |-> o, to |-> i] \in Range(flow)

\* What the client of enqueueJob gets for an exposed tag is the stream the
\* worker of that child uses, unless somebody bound early in one of the two.
AliasReachesChild ==
  Bound /\ Serving(ExposedJob) /\ Undisturbed("client") /\ Undisturbed("workers")
    => StreamIdForJob(home["client"], ExposedJob, exposed[1], exposed[2].tag)
         = WorkerStream(exposed[1], exposed[2])

\* When enqueueJob returns, every child has its records and is in the queue.
ReturnMeansEnqueued ==
  client = "returned" => Children \subseteq stored /\ Children \subseteq queued

\* enqueueJob returns and the exposed stream is found, unless the
\* orchestration failed; the calls for the children do not wait on each other.
FlowComesUp == client = "waiting" ~> (Bound \/ orchestrator = "failed")
=============================================================================
