--------------------------- MODULE CapacityManager ---------------------------
(* The capacity manager of the vault server (capacity/manager.ts) and the    *)
(* instance loop that answers it (core/src/jobs/LiveWorker.ts,               *)
(* reportInstanceCapacityLazy), for one project.                             *)
(*                                                                           *)
(* An instance is a client process.  It reports once, when its first worker  *)
(* definition is made, and then serves one command after the other.  addJob  *)
(* calls increaseCapacity({by: 1}): all listed instances are queried, one of *)
(* those that could start the spec is told to provision a worker.            *)
EXTENDS Naturals, Sequences, FiniteSets

CONSTANTS
  Instances,   \* client processes
  Specs,       \* job specs
  Calls        \* calls of increaseCapacity and respondToCapacityLog

VARIABLES
  \* instances
  defined,     \* [Instances -> registeredWorkerDefsBySpecName]
  autoStart,   \* [Instances -> those of them with autoStartWorker]
  stream,      \* [Instances -> its reportAsInstance stream]
  commands,    \* [Instances -> commands on that stream, oldest first]
  \* the manager
  resolvers,   \* instances with an entry in resolveByInstanceId
  lists,       \* the arrays instanceIdsByProjectUuid[projectUuid] has been
               \* set to, the current one last; `push` mutates it, `filter`
               \* makes a new one while calls may still hold the old one
  pending,     \* <<kind, call, instance>> of the two pendingResponse maps
  replies,     \* respondToCapacityQuery and respondToProvision requests under way
  \* calls
  pc,          \* [Calls -> progress]
  spec,        \* [Calls -> the spec asked for]
  held,        \* [Calls -> index in lists of the array the call holds]
  answers,     \* [Calls -> capacity answers received]
  started      \* [Calls -> workers started on its behalf]

instanceVars == <<defined, autoStart, stream, commands>>
managerVars == <<resolvers, lists, pending, replies>>
callVars == <<pc, spec, held, answers, started>>
vars == <<instanceVars, managerVars, callVars>>

Command == [kind : {"query", "provision", "warning"}, call : Calls]
Answer == [from : Instances, specs : SUBSET Specs]
Reply == [kind : {"query", "provision"}, call : Calls, from : Instances, specs : SUBSET Specs]
PcStates == {"idle", "querying", "logging", "provisioning", "done", "logged", "failed"}

TypeOK ==
  /\ defined \in [Instances -> SUBSET Specs]
  /\ autoStart \in [Instances -> SUBSET Specs]
  /\ stream \in [Instances -> {"none", "opening", "up", "gone"}]
  /\ commands \in [Instances -> Seq(Command)]
  /\ resolvers \subseteq Instances
  /\ lists \in Seq(SUBSET Instances) /\ lists # <<>>
  /\ pending \subseteq {"query", "provision"} \X Calls \X Instances
  /\ replies \subseteq Reply
  /\ pc \in [Calls -> PcStates]
  /\ spec \in [Calls -> Specs]
  /\ held \in [Calls -> 1 .. Len(lists)]
  /\ answers \in [Calls -> SUBSET Answer]
  /\ started \in [Calls -> Nat]

Init ==
  /\ defined = [i \in Instances |-> {}]
  /\ autoStart = [i \in Instances |-> {}]
  /\ stream = [i \in Instances |-> "none"]
  /\ commands = [i \in Instances |-> <<>>]
  /\ resolvers = {}
  /\ lists = <<{}>>
  /\ pending = {}
  /\ replies = {}
  /\ pc = [c \in Calls |-> "idle"]
  /\ spec \in [Calls -> Specs]
  /\ held = [c \in Calls |-> 1]
  /\ answers = [c \in Calls |-> {}]
  /\ started = [c \in Calls |-> 0]

Listed == lists[Len(lists)]

-----------------------------------------------------------------------------
(* Instances                                                                *)

\* A LiveWorkerDef is constructed; a second one for the spec throws.  The
\* first one of the process reports the instance.
Define(i, s) ==
  /\ s \notin defined[i]
  /\ defined' = [defined EXCEPT ![i] = @ \union {s}]
  /\ \E auto \in BOOLEAN :
       autoStart' = IF auto THEN [autoStart EXCEPT ![i] = @ \union {s}] ELSE autoStart
  /\ stream' = IF stream[i] = "none" THEN [stream EXCEPT ![i] = "opening"] ELSE stream
  /\ UNCHANGED <<commands, managerVars, callVars>>

\* The instance takes a query from its stream and answers it with the specs it
\* starts automatically, each with a capacity of 10.
AnswerQuery(i) ==
  /\ stream[i] = "up" /\ commands[i] # <<>>
  /\ Head(commands[i]).kind = "query"
  /\ replies' = replies \union {[kind |-> "query", call |-> Head(commands[i]).call,
                                 from |-> i, specs |-> autoStart[i]]}
  /\ commands' = [commands EXCEPT ![i] = Tail(@)]
  /\ UNCHANGED <<defined, autoStart, stream, resolvers, lists, pending, callVars>>

\* The instance starts the workers and reports them.  Without a definition
\* the loop would throw and the instance stop serving.
Provision(i) ==
  LET c == Head(commands[i]).call IN
  /\ stream[i] = "up" /\ commands[i] # <<>>
  /\ Head(commands[i]).kind = "provision"
  /\ spec[c] \in defined[i]
  /\ started' = [started EXCEPT ![c] = @ + 1]
  /\ replies' = replies \union {[kind |-> "provision", call |-> c, from |-> i, specs |-> {spec[c]}]}
  /\ commands' = [commands EXCEPT ![i] = Tail(@)]
  /\ UNCHANGED <<defined, autoStart, stream, resolvers, lists, pending, pc, spec, held, answers>>

\* The warning is only printed.
ReadWarning(i) ==
  /\ stream[i] = "up" /\ commands[i] # <<>>
  /\ Head(commands[i]).kind = "warning"
  /\ commands' = [commands EXCEPT ![i] = Tail(@)]
  /\ UNCHANGED <<defined, autoStart, stream, managerVars, callVars>>

-----------------------------------------------------------------------------
(* reportAsInstance                                                         *)

\* The request arrives: the resolver is kept if there is one, the id pushed.
ReportAsInstance(i) ==
  /\ stream[i] = "opening"
  /\ stream' = [stream EXCEPT ![i] = "up"]
  /\ resolvers' = resolvers \union {i}
  /\ lists' = [lists EXCEPT ![Len(lists)] = @ \union {i}]
  /\ UNCHANGED <<defined, autoStart, commands, pending, replies, callVars>>

\* The stream ends: the abort listener deletes the resolver and filters the
\* ids.  The pending maps keep their entries.  The instance does not report again.
Disconnect(i) ==
  /\ stream[i] = "up"
  /\ stream' = [stream EXCEPT ![i] = "gone"]
  /\ commands' = [commands EXCEPT ![i] = <<>>]
  /\ resolvers' = resolvers \ {i}
  /\ lists' = Append(lists, Listed \ {i})
  /\ UNCHANGED <<defined, autoStart, pending, replies, callVars>>

-----------------------------------------------------------------------------
(* Calls                                                                    *)

\* A command to every instance of a set, in the same tick.
SendAll(is, cmd) ==
  commands' = [i \in Instances |-> IF i \in is THEN Append(commands[i], cmd) ELSE commands[i]]

\* runCapacityQuery for every listed instance; a missing resolver would make
\* the call fail here.
QueryListed(c) ==
  /\ Listed \subseteq resolvers
  /\ SendAll(Listed, [kind |-> "query", call |-> c])
  /\ pending' = pending \union {<<"query", c, i>> : i \in Listed}
  /\ held' = [held EXCEPT ![c] = Len(lists)]

\* Mutant: without instances the call waits for a first answer.
IncreaseWaitsForAnswer(c) ==
  /\ pc[c] = "idle"
  /\ QueryListed(c)
  /\ pc' = [pc EXCEPT ![c] = "querying"]
  /\ UNCHANGED <<defined, autoStart, stream, resolvers, lists, replies, spec, answers, started>>

\* increaseCapacity.  Without instances there is nothing to wait for: sampling
\* the empty list of qualified capacities throws.
IncreaseCapacity(c) ==
  /\ pc[c] = "idle"
  /\ QueryListed(c)
  /\ pc' = [pc EXCEPT ![c] = IF Listed = {} THEN "failed" ELSE "querying"]
  /\ UNCHANGED <<defined, autoStart, stream, resolvers, lists, replies, spec, answers, started>>

\* respondToCapacityLog: the same queries, answered with their sums.
LogCapacity(c) ==
  /\ pc[c] = "idle"
  /\ QueryListed(c)
  /\ pc' = [pc EXCEPT ![c] = IF Listed = {} THEN "logged" ELSE "logging"]
  /\ UNCHANGED <<defined, autoStart, stream, resolvers, lists, replies, spec, answers, started>>

Asked(c) == {i \in Instances : <<"query", c, i>> \in pending}
From(as) == {a.from : a \in as}
\* Mutant: any instance that answered is sampled.
QualifiedAll(c, as) == {a.from : a \in as}

\* The instances whose answer names the spec (with capacity 10, and `by` is 1).
Qualified(c, as) == {a.from : a \in {b \in as : spec[c] \in b.specs}}

\* Mutant: the warning loop also runs when an instance qualifies.
DrawAfterWarnings(c, as) ==
  \E i \in Qualified(c, as) :
    \/ /\ lists[held[c]] \subseteq resolvers
       /\ commands' = [commands EXCEPT ![i] = Append(@, [kind |-> "provision", call |-> c])]
       /\ pending' = pending \union {<<"provision", c, i>>}
       /\ pc' = [pc EXCEPT ![c] = "provisioning"]
    \/ /\ ~(lists[held[c]] \subseteq resolvers)
       /\ pc' = [pc EXCEPT ![c] = "failed"]
       /\ UNCHANGED <<commands, pending>>

\* All capacities are in and one qualifies: an instance is drawn; it may have
\* gone since it answered, which fails the call.
Draw(c, as) ==
  \E i \in Qualified(c, as) :
    \/ /\ i \in resolvers
       /\ commands' = [commands EXCEPT ![i] = Append(@, [kind |-> "provision", call |-> c])]
       /\ pending' = pending \union {<<"provision", c, i>>}
       /\ pc' = [pc EXCEPT ![c] = "provisioning"]
    \/ /\ i \notin resolvers
       /\ pc' = [pc EXCEPT ![c] = "failed"]
       /\ UNCHANGED <<commands, pending>>

\* None qualifies: the instances of the held array are warned in turn until
\* one is missing, and the call fails in either case.  (Which part of the array
\* is warned before a missing one depends on its order.)
WarnAndFail(c, as) ==
  LET instanceIds == lists[held[c]] IN
  /\ Qualified(c, as) = {}
  /\ \E warned \in SUBSET (instanceIds \intersect resolvers) :
       /\ instanceIds \subseteq resolvers => warned = instanceIds
       /\ SendAll(warned, [kind |-> "warning", call |-> c])
  /\ pc' = [pc EXCEPT ![c] = "failed"]
  /\ UNCHANGED pending

\* respondToCapacityQuery, and with the last answer the rest of the call.
ReceiveCapacity(r) ==
  LET c == r.call
      as == answers[c] \union {[from |-> r.from, specs |-> r.specs]} IN
  /\ r \in replies /\ r.kind = "query"
  /\ <<"query", c, r.from>> \in pending
  /\ replies' = replies \ {r}
  /\ answers' = [answers EXCEPT ![c] = as]
  /\ \/ /\ From(as) # Asked(c)
        /\ UNCHANGED <<commands, pending, pc>>
     \/ /\ From(as) = Asked(c) /\ pc[c] = "logging"
        /\ pc' = [pc EXCEPT ![c] = "logged"]
        /\ UNCHANGED <<commands, pending>>
     \/ /\ From(as) = Asked(c) /\ pc[c] = "querying"
        /\ Draw(c, as) \/ WarnAndFail(c, as)
  /\ UNCHANGED <<defined, autoStart, stream, resolvers, lists, spec, held, started>>

\* respondToProvision: increaseCapacity returns.
ReceiveProvision(r) ==
  LET c == r.call IN
  /\ r \in replies /\ r.kind = "provision"
  /\ <<"provision", c, r.from>> \in pending
  /\ replies' = replies \ {r}
  /\ pc' = [pc EXCEPT ![c] = "done"]
  /\ UNCHANGED <<instanceVars, resolvers, lists, pending, spec, held, answers, started>>

-----------------------------------------------------------------------------
InstanceStep(i) == AnswerQuery(i) \/ Provision(i) \/ ReadWarning(i)
ManagerStep ==
  \/ \E i \in Instances : ReportAsInstance(i)
  \/ \E r \in replies : ReceiveCapacity(r) \/ ReceiveProvision(r)

Next ==
  \/ \E i \in Instances, s \in Specs : Define(i, s)
  \/ \E i \in Instances : Disconnect(i) \/ InstanceStep(i)
  \/ \E c \in Calls : IncreaseCapacity(c) \/ LogCapacity(c)
  \/ ManagerStep

\* Instances serve the commands they receive and requests reach the server;
\* definitions, calls and disconnects need not happen.
Fairness ==
  /\ \A i \in Instances : WF_vars(InstanceStep(i)) /\ WF_vars(ReportAsInstance(i))
  /\ \A c \in Calls, i \in Instances :
       WF_vars(\E r \in replies : /\ r.call = c /\ r.from = i
                                  /\ ReceiveCapacity(r) \/ ReceiveProvision(r))

Spec == Init /\ [][Next]_vars
FairSpec == Spec /\ Fairness

-----------------------------------------------------------------------------
(* Properties                                                               *)

\* An instance is only told to start specs it has defined, also when it went
\* on defining after it was asked: the throw at LiveWorker.ts:179, which would
\* end its command loop, is not reached.
ProvisionFindsDef ==
  \A i \in Instances : \A k \in 1 .. Len(commands[i]) :
    commands[i][k].kind = "provision" =>
      spec[commands[i][k].call] \in defined[i]

\* A call starts one worker and returns, or starts none and fails: no failure
\* path leaves a worker behind, no answer is taken for another call's.
StartsOneOrFails ==
  \A c \in Calls :
    /\ pc[c] \in {"idle", "querying", "logging", "logged", "failed"} => started[c] = 0
    /\ pc[c] = "provisioning" => started[c] <= 1
    /\ pc[c] = "done" => started[c] = 1

\* increaseCapacity fails only when no listed instance can start the spec or
\* one that could has gone since its answer.
FailsForCause ==
  \A c \in Calls : pc[c] = "failed" =>
    \/ Qualified(c, answers[c]) = {}
    \/ \E i \in Qualified(c, answers[c]) : stream[i] = "gone"

\* A call returns unless an instance it waits for has gone: the pending maps
\* are not cleared on disconnect, so such a call (and the addJob that made it)
\* waits for ever (manager.ts:113-130 against 177-186).
WaitsForGone(c) ==
  \/ pc[c] \in {"querying", "logging"} /\ \E i \in Asked(c) \ From(answers[c]) : stream[i] = "gone"
  \/ pc[c] = "provisioning" /\ \E i \in Instances : <<"provision", c, i>> \in pending /\ stream[i] = "gone"
CallEndsUnlessOrphaned ==
  \A c \in Calls : pc[c] \in {"querying", "logging", "provisioning"} ~>
    (pc[c] \in {"done", "logged", "failed"} \/ WaitsForGone(c))
=============================================================================
