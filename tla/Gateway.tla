------------------------------ MODULE Gateway ------------------------------
(* The server side of job bindings, gateway/src/LiveGatewayConn.ts: one      *)
(* LiveGatewayConn per socket, and the sessions bound to each job, which all *)
(* connections share.  Every handler runs up to its first await when its    *)
(* message arrives; what follows an await is a step of its own.             *)
EXTENDS SocketLink, FiniteSets

CONSTANT InputTags   \* tags of a job's inputs, by number

ASSUME TagAssumption == InputTags \subseteq Nat /\ IsFiniteSet(InputTags)

VARIABLES
  started,   \* jobs that exist
  sessions,  \* bindSessionIdsByJobId: [Jobs -> bound sockets]
  entered,   \* jobs with an entry in bindSessionIdsByJobId
  ended,     \* [Jobs -> input tags that have been terminated]
  binding,   \* [Pages -> bind requests whose await is pending]
  jobFns,    \* [Pages -> jobFnsById]
  heard,     \* [Pages -> jobs with a "disconnect" listener on the socket]
  responds,  \* [Pages -> whether the listeners of the constructor are on]
  sub,       \* [Pages -> [Jobs -> entry of subByJobIdAndTag, one output tag]]
  leaving    \* [Pages -> runs of disassociateAndMaybeTerminate in progress]

serverVars == <<started, sessions, entered, ended, binding, jobFns, heard,
                responds, sub, leaving>>

NoSub == [st |-> "none", count |-> 0]
SubStates == {"none", "pending", "live", "rejected"}

GatewayInit ==
  /\ started = {} /\ entered = {}
  /\ sessions = [j \in Jobs |-> {}]
  /\ ended = [j \in Jobs |-> {}]
  /\ binding = [p \in Pages |-> {}]
  /\ jobFns = [p \in Pages |-> {}]
  /\ heard = [p \in Pages |-> {}]
  /\ responds = [p \in Pages |-> TRUE]
  /\ sub = [p \in Pages |-> [j \in Jobs |-> NoSub]]
  /\ leaving = [p \in Pages |-> {}]

-----------------------------------------------------------------------------
\* The next message of page p, if there is one.
Incoming(p) == IF link[p] = "gone" \/ toServer[p] = <<>> THEN {} ELSE {Head(toServer[p])}

\* The next message of page p is m; nothing but the listeners changes state.
Arrives(p, m) ==
  /\ m \in Incoming(p)
  /\ toServer' = [toServer EXCEPT ![p] = Tail(@)]
  /\ UNCHANGED <<link, toPage>>

\* A message nobody listens to any more.
Unheard(p) ==
  /\ ~responds[p]
  /\ \E m \in Incoming(p) : Arrives(p, m)
  /\ UNCHANGED serverVars

\* REQUEST_AND_BIND_CMD up to the await of getJobManager or enqueueJob.
ReceiveBind(p, m) ==
  /\ Arrives(p, m) /\ responds[p] /\ m.kind = "bind"
  /\ binding' = [binding EXCEPT ![p] = @ \union {m}]
  /\ UNCHANGED <<started, sessions, entered, ended, jobFns, heard, responds, sub, leaving>>

\* The job an awaited bind request m yields: the one it names, or a new one.
Yields(m, j) == IF m.job = NoJob THEN j \notin started ELSE j = m.job

\* What the answer to m changes besides; hs: the new heard.
Bound(p, m, j, hs) ==
  /\ started' = started \union {j} /\ entered' = entered \union {j}
  /\ sessions' = [sessions EXCEPT ![j] = @ \union {p}]
  /\ jobFns' = [jobFns EXCEPT ![p] = @ \union {j}]
  /\ heard' = [heard EXCEPT ![p] = IF link[p] = "gone" THEN @ ELSE hs]
  /\ binding' = [binding EXCEPT ![p] = @ \ {m}]
  /\ UNCHANGED <<link, toServer, ended, responds, sub, leaving>>

Answer(p, m, j) ==
  toPage' = IF link[p] = "up" THEN [toPage EXCEPT ![p] = Append(@, BindMsg(m.req, j))] ELSE toPage

\* Mutant: a disconnect listener for the connection's first job only.
BindHeardOnce(p, m) ==
  /\ m \in binding[p]
  /\ \E j \in Jobs : /\ Yields(m, j) /\ Answer(p, m, j)
                     /\ Bound(p, m, j, IF heard[p] = {} THEN {j} ELSE heard[p])

\* Mutant: a job the socket is bound to already is not answered again.
BindAnsweredOnce(p, m) ==
  /\ m \in binding[p]
  /\ \E j \in Jobs :
       /\ Yields(m, j) /\ Bound(p, m, j, heard[p] \union {j})
       /\ IF p \in sessions[j] THEN UNCHANGED toPage ELSE Answer(p, m, j)

\* The job is there: it is registered for the socket, a disconnect listener is
\* added (on a socket that has disconnected it will never fire), and answered.
Bind(p, m) ==
  /\ m \in binding[p]
  /\ \E j \in Jobs : /\ Yields(m, j) /\ Answer(p, m, j)
                     /\ Bound(p, m, j, heard[p] \union {j})

-----------------------------------------------------------------------------
\* CMD_SUB_TO_STREAM: the first one makes the entry, a promise; every one adds
\* to its count once it has resolved, and fails if it was rejected.
WithSub(e, bound) ==
  CASE e.st = "none" /\ ~bound -> [st |-> "rejected", count |-> 0]
    [] e.st = "none" /\ bound -> [st |-> "pending", count |-> 1]
    [] e.st = "rejected" -> e
    [] OTHER -> [e EXCEPT !.count = @ + 1]

ReceiveSub(p, m) ==
  /\ Arrives(p, m) /\ responds[p] /\ m.kind = "sub"
  /\ sub' = [sub EXCEPT ![p][m.job] = WithSub(@, m.job \in jobFns[p])]
  /\ UNCHANGED <<started, sessions, entered, ended, binding, jobFns, heard, responds, leaving>>

\* The query of past values has been answered, or has failed.  An entry whose
\* subscribers have all gone meanwhile is dropped at once.
Queried(p, j) ==
  /\ sub[p][j].st = "pending"
  /\ \/ sub' = [sub EXCEPT ![p][j] = IF @.count = 0 THEN NoSub ELSE [@ EXCEPT !.st = "live"]]
     \/ sub' = [sub EXCEPT ![p][j] = [st |-> "rejected", count |-> 0]]
  /\ UNCHANGED <<started, sessions, entered, ended, binding, jobFns, heard, responds, leaving>>
  /\ UNCHANGED linkVars

\* Mutant: the first unsub drops the entry.
UnsubAtOnce(e) ==
  CASE e.st = "live" -> NoSub
    [] e.st = "pending" -> [e EXCEPT !.count = @ - 1]
    [] OTHER -> e

\* CMD_UNSUB_TO_STREAM: the last one unsubscribes.  Without an entry, or with a
\* rejected one, the handler throws.
WithoutSub(e) ==
  CASE e.st = "live" /\ e.count = 1 -> NoSub
    [] e.st = "pending" \/ (e.st = "live" /\ e.count # 1) -> [e EXCEPT !.count = @ - 1]
    [] OTHER -> e

ReceiveUnsub(p, m) ==
  /\ Arrives(p, m) /\ responds[p] /\ m.kind = "unsub"
  /\ sub' = [sub EXCEPT ![p][m.job] = WithoutSub(@)]
  /\ UNCHANGED <<started, sessions, entered, ended, binding, jobFns, heard, responds, leaving>>

-----------------------------------------------------------------------------
(* disassociateAndMaybeTerminate *)

\* A run of it for job j: the tags it has still to terminate, and its caller.
Run(j, tags, cause) == [job |-> j, todo |-> tags, cause |-> cause]

\* Mutant: the tags are terminated whoever else is bound.
DisassociateAlways(p, js, cause) ==
  /\ sessions' = [j \in Jobs |-> IF j \in js THEN sessions[j] \ {p} ELSE sessions[j]]
  /\ leaving' = [leaving EXCEPT ![p] = @ \union {Run(j, InputTags, cause) : j \in js}]

\* Up to its first await, for each of the jobs js in one go.
Disassociate(p, js, cause) ==
  /\ sessions' = [j \in Jobs |-> IF j \in js THEN sessions[j] \ {p} ELSE sessions[j]]
  /\ leaving' = [leaving EXCEPT ![p] = @ \union
       {Run(j, IF sessions[j] \subseteq {p} THEN InputTags ELSE {}, cause) : j \in js}]

\* CMD_UNBIND; an unknown job is logged and ignored.
ReceiveUnbind(p, m) ==
  /\ Arrives(p, m) /\ responds[p] /\ m.kind = "unbind"
  /\ Disassociate(p, {m.job} \intersect jobFns[p], "unbind")
  /\ UNCHANGED <<started, entered, ended, binding, jobFns, heard, responds, sub>>

\* The "disconnect" event, after the last message: every listener runs; one
\* whose job is no longer in jobFnsById throws.
HearDisconnect(p) ==
  /\ link[p] = "lost" /\ toServer[p] = <<>>
  /\ link' = [link EXCEPT ![p] = "gone"]
  /\ Disassociate(p, heard[p] \intersect jobFns[p], "disconnect")
  /\ UNCHANGED <<toServer, toPage, started, entered, ended, binding, jobFns, heard, responds, sub>>

\* Mutant: the loop ends after the first tag.
TerminateFirstTag(p, r) ==
  /\ r \in leaving[p] /\ r.todo # {}
  /\ \E t \in r.todo :
       /\ \A u \in r.todo : t <= u
       /\ ended' = [ended EXCEPT ![r.job] = @ \union {t}]
       /\ leaving' = [leaving EXCEPT ![p] = (@ \ {r}) \union {Run(r.job, {}, r.cause)}]
  /\ UNCHANGED <<started, sessions, entered, binding, jobFns, heard, responds, sub>>
  /\ UNCHANGED linkVars

\* One turn of the loop over input.tags.
TerminateTag(p, r) ==
  /\ r \in leaving[p] /\ r.todo # {}
  /\ \E t \in r.todo :
       /\ \A u \in r.todo : t <= u
       /\ ended' = [ended EXCEPT ![r.job] = @ \union {t}]
       /\ leaving' = [leaving EXCEPT ![p] = (@ \ {r}) \union {Run(r.job, r.todo \ {t}, r.cause)}]
  /\ UNCHANGED <<started, sessions, entered, binding, jobFns, heard, responds, sub>>
  /\ UNCHANGED linkVars

\* The loop over relevantKeys waits for the entry and drops it; a rejected one
\* throws out of the handler.  After it, an unbind takes the listeners off the
\* socket, and a disconnect forgets the job.
FinishLeaving(p, r) ==
  /\ r \in leaving[p] /\ r.todo = {} /\ sub[p][r.job].st # "pending"
  /\ leaving' = [leaving EXCEPT ![p] = @ \ {r}]
  /\ IF sub[p][r.job].st = "rejected" THEN UNCHANGED <<sub, responds, jobFns>>
     ELSE /\ sub' = [sub EXCEPT ![p][r.job] = NoSub]
          /\ responds' = [responds EXCEPT ![p] = @ /\ r.cause # "unbind"]
          /\ jobFns' = [jobFns EXCEPT ![p] = IF r.cause = "unbind" THEN @ ELSE @ \ {r.job}]
  /\ UNCHANGED <<started, sessions, entered, ended, binding, heard>>
  /\ UNCHANGED linkVars

-----------------------------------------------------------------------------
Receive(p) ==
  \/ Unheard(p)
  \/ \E m \in Incoming(p) :
       ReceiveBind(p, m) \/ ReceiveSub(p, m) \/ ReceiveUnsub(p, m) \/ ReceiveUnbind(p, m)

GatewayStep(p) ==
  \/ Receive(p) \/ HearDisconnect(p)
  \/ \E m \in binding[p] : Bind(p, m)
  \/ \E j \in Jobs : Queried(p, j)
  \/ \E r \in leaving[p] : TerminateTag(p, r) \/ FinishLeaving(p, r)

\* The gateway's event loop and the vault calls it waits for: one of a page's
\* connection that can go on does.
GatewayFairness == \A p \in Pages : WF_<<linkVars, serverVars>>(GatewayStep(p))
=============================================================================
