---------------------------- MODULE QueueService ----------------------------
(***************************************************************************)
(* The job queue of the vault server (QueueServiceByProject) for one       *)
(* project and one spec, with the clients that add jobs, the LiveWorker    *)
(* loops that run them, the bidirectional reportAsWorker streams between   *)
(* them, and the BullMQ queue underneath (external).                       *)
(*                                                                         *)
(* Every await of the server is a step boundary: what happens between two  *)
(* awaits is one action.                                                   *)
(***************************************************************************)
EXTENDS Integers, FiniteSets

CONSTANTS
  Jobs,     \* job ids
  Workers,  \* worker ids; at most this many workers are ever started
  Calls,    \* addJob calls; a client that retries uses another call
  NoJob     \* "undefined" where a job id is expected

ASSUME QueueAssumption ==
  /\ IsFiniteSet(Jobs)
  /\ IsFiniteSet(Workers)
  /\ NoJob \notin Jobs

VARIABLES
  waiting,    \* BullMQ: jobs waiting for a worker
  active,     \* BullMQ: the job each server-side Worker holds (concurrency 1)
  server,     \* progress of the reportAsWorker handler of each worker id
  aborted,    \* context.signal.aborted of that call
  currentJob, \* currentJobByWorkerId
  cycle,      \* workerBundleById[w].jobCompleteCycleByJobId[j]
  toWorker,   \* job messages fed to the response stream, not yet taken
  reports,    \* jobCompleted / jobFailed messages on their way to the server
  doing,      \* the job each LiveWorker loop is processing
  conn,       \* the LiveWorker's stream: up, broken, or opened again
  zzCapacity, \* the zz_capacity counter under each of the two redis keys
  call        \* the addJob calls in progress

streamVars == <<toWorker, reports, doing, conn>>
handlerVars == <<server, aborted, currentJob, cycle, zzCapacity>>
vars == <<waiting, active, handlerVars, streamVars, call>>

-----------------------------------------------------------------------------
(* The life of a worker id on the server.                                  *)
(*   unborn     not started                                                *)
(*   booting    LiveWorker constructed, signUp not yet handled             *)
(*   signingUp  BullMQ Worker and bundle created, capacity not yet counted *)
(*   counted    capacity counted, waitUntilReady pending                   *)
(*   listening  abort listener registered                                  *)
(*   aborting   abort listener entered, its redis call pending             *)
(*   closing    current job rejected, worker.close() pending               *)
(*   closed     worker closed, bundle deleted                              *)
ServerStates == {"unborn", "booting", "signingUp", "counted", "listening",
                 "aborting", "closing", "closed"}

\* A BullMQ Worker takes jobs from its construction until close() is called.
TakesJobs == {"signingUp", "counted", "listening", "aborting"}

\* A promise cycle, as far as this one use of it tells its states apart:
\* created and not yet read, the same with a rejection queued, read and
\* pending, settled.
CycleStates == {"none", "unread", "unreadRejected", "awaited",
                "resolved", "rejected"}

Results == {"resolved", "rejected"}

CallStates == {"idle", "added", "waitingCounted", "counted", "provisioning",
               "returned", "rejected"}

CapacityKeys == {"session", "object"}

ActiveJobs == {active[w] : w \in Workers} \ {NoJob}

Init ==
  /\ waiting = {}
  /\ active = [w \in Workers |-> NoJob]
  /\ server \in [Workers -> {"unborn", "booting"}]
  /\ aborted = [w \in Workers |-> FALSE]
  /\ currentJob = [w \in Workers |-> NoJob]
  /\ cycle = [w \in Workers |-> [j \in Jobs |-> "none"]]
  /\ toWorker = [w \in Workers |-> {}]
  /\ reports = [w \in Workers |-> {}]
  /\ doing = [w \in Workers |-> NoJob]
  /\ conn = [w \in Workers |-> "up"]
  /\ zzCapacity = [k \in CapacityKeys |-> 0]
  /\ call = [c \in Calls |-> [pc |-> "idle", need |-> 0]]

-----------------------------------------------------------------------------
(* addJob                                                                  *)

\* Mutant: BullMQ picks the id, so an active job can be queued a second time.
AddJobOwnId(c) ==
  /\ call[c].pc = "idle"
  /\ \E j \in Jobs : waiting' = waiting \union {j}
  /\ call' = [call EXCEPT ![c] = [pc |-> "added", need |-> 0]]
  /\ UNCHANGED <<active, handlerVars, streamVars>>

\* queue.add: BullMQ ignores an id that is already waiting or active.  A job
\* is removed when it completes or fails, so a later call may add it again.
AddJob(c) ==
  /\ call[c].pc = "idle"
  /\ \E j \in Jobs :
       waiting' = IF j \in ActiveJobs THEN waiting ELSE waiting \union {j}
  /\ call' = [call EXCEPT ![c] = [pc |-> "added", need |-> 0]]
  /\ UNCHANGED <<active, handlerVars, streamVars>>

\* Mutant: the two counts are read in the other order.
CountActiveFirst(c) ==
  /\ \/ /\ call[c].pc = "added"
        /\ call' = [call EXCEPT ![c] = [pc |-> "waitingCounted",
                                        need |-> Cardinality(ActiveJobs)]]
     \/ /\ call[c].pc = "waitingCounted"
        /\ call' = [call EXCEPT ![c] = [pc |-> "counted",
                                        need |-> @.need + Cardinality(waiting)]]
  /\ UNCHANGED <<waiting, active, handlerVars, streamVars>>

\* (await getWaitingCount()) + (await getActiveCount()): two reads, in this
\* order, with other steps between them.
CountJobs(c) ==
  /\ \/ /\ call[c].pc = "added"
        /\ call' = [call EXCEPT ![c] = [pc |-> "waitingCounted",
                                        need |-> Cardinality(waiting)]]
     \/ /\ call[c].pc = "waitingCounted"
        /\ call' = [call EXCEPT ![c] = [pc |-> "counted",
                                        need |-> @.need + Cardinality(ActiveJobs)]]
  /\ UNCHANGED <<waiting, active, handlerVars, streamVars>>

\* getWorkers() lists the BullMQ workers whose redis connection exists: those
\* between construction and readiness, or closing, may be missed.
ListedWorkers ==
  LET sure == {w \in Workers : server[w] \in {"listening", "aborting"}}
      maybe == {w \in Workers : server[w] \in {"signingUp", "counted", "closing"}}
  IN {sure \union S : S \in SUBSET maybe}

CompareCapacity(c) ==
  /\ call[c].pc = "counted"
  /\ \E listed \in ListedWorkers :
       LET diff == call[c].need - Cardinality(listed) IN
       call' = [call EXCEPT ![c] =
                  IF diff > 0 THEN [pc |-> "provisioning", need |-> diff]
                              ELSE [pc |-> "returned", need |-> 0]]
  /\ UNCHANGED <<waiting, active, handlerVars, streamVars>>

\* One turn of the loop over diff: increaseCapacity({by: 1}) starts a worker
\* on some instance, or rejects when no instance can, and addJob with it.
IncreaseCapacity(c) ==
  /\ call[c].pc = "provisioning"
  /\ \/ /\ \E w \in Workers : /\ server[w] = "unborn"
                              /\ server' = [server EXCEPT ![w] = "booting"]
        /\ call' = [call EXCEPT ![c] =
                      IF @.need = 1 THEN [pc |-> "returned", need |-> 0]
                                    ELSE [pc |-> "provisioning", need |-> @.need - 1]]
     \/ /\ \A w \in Workers : server[w] # "unborn"
        /\ call' = [call EXCEPT ![c] = [pc |-> "rejected", need |-> 0]]
        /\ UNCHANGED server
  /\ UNCHANGED <<waiting, active, aborted, currentJob, cycle, zzCapacity, streamVars>>

-----------------------------------------------------------------------------
(* reportAsWorker: sign-up                                                 *)

\* Up to the first await: the Worker exists and takes jobs from here on.
SignUp(w) ==
  /\ server[w] = "booting"
  /\ conn[w] = "up"
  /\ server' = [server EXCEPT ![w] = "signingUp"]
  /\ UNCHANGED <<waiting, active, aborted, currentJob, cycle, zzCapacity, streamVars, call>>

\* HINCRBY on the key of the capacity manager's session.
CountCapacity(w) ==
  /\ server[w] = "signingUp"
  /\ server' = [server EXCEPT ![w] = "counted"]
  /\ zzCapacity' = [zzCapacity EXCEPT !["session"] = @ + 1]
  /\ UNCHANGED <<waiting, active, aborted, currentJob, cycle, streamVars, call>>

\* After waitUntilReady the abort listener is added; on a signal that has
\* aborted already it never fires.
AddAbortListener(w) ==
  /\ server[w] = "counted"
  /\ server' = [server EXCEPT ![w] = "listening"]
  /\ UNCHANGED <<waiting, active, aborted, currentJob, cycle, zzCapacity, streamVars, call>>

-----------------------------------------------------------------------------
(* A job from BullMQ to the worker and back                                *)

\* Mutant: a Worker without the concurrency limit.
DispatchConcurrent(w, j) ==
  /\ server[w] \in TakesJobs
  /\ j \in waiting
  /\ waiting' = waiting \ {j}
  /\ active' = [active EXCEPT ![w] = j]
  /\ currentJob' = [currentJob EXCEPT ![w] = j]
  /\ cycle' = [cycle EXCEPT ![w][j] = "unread"]
  /\ UNCHANGED <<server, aborted, zzCapacity, streamVars, call>>

\* BullMQ calls the processor; up to the first await it creates the cycle and
\* (in sendJob) records the current job.
Dispatch(w, j) ==
  /\ server[w] \in TakesJobs
  /\ active[w] = NoJob
  /\ j \in waiting
  /\ waiting' = waiting \ {j}
  /\ active' = [active EXCEPT ![w] = j]
  /\ currentJob' = [currentJob EXCEPT ![w] = j]
  /\ cycle' = [cycle EXCEPT ![w][j] = "unread"]
  /\ UNCHANGED <<server, aborted, zzCapacity, streamVars, call>>

\* The optional onJobAssignedToWorker hook has returned: the job is fed to the
\* response stream and the processor reads the cycle's promise.
SendJob(w) ==
  LET j == active[w] IN
  /\ j # NoJob
  /\ cycle[w][j] \in {"unread", "unreadRejected"}
  /\ cycle' = [cycle EXCEPT ![w][j] = IF @ = "unread" THEN "awaited" ELSE "rejected"]
  /\ toWorker' = IF conn[w] = "up" THEN [toWorker EXCEPT ![w] = @ \union {j}]
                                   ELSE toWorker
  /\ UNCHANGED <<waiting, active, server, aborted, currentJob, zzCapacity,
                 reports, doing, conn, call>>

\* The LiveWorker loop takes the next job of its stream when it is free.
TakeJob(w) ==
  /\ doing[w] = NoJob
  /\ conn[w] = "up"
  /\ \E j \in toWorker[w] :
       /\ doing' = [doing EXCEPT ![w] = j]
       /\ toWorker' = [toWorker EXCEPT ![w] = @ \ {j}]
  /\ UNCHANGED <<waiting, active, handlerVars, reports, conn, call>>

\* processJob returned or threw; the message is lost when the stream is broken.
Report(w) ==
  /\ doing[w] # NoJob
  /\ \E r \in Results :
       reports' = IF conn[w] = "up"
                  THEN [reports EXCEPT ![w] = @ \union {<<doing[w], r>>}]
                  ELSE reports
  /\ doing' = [doing EXCEPT ![w] = NoJob]
  /\ UNCHANGED <<waiting, active, handlerVars, toWorker, conn, call>>

\* Mutant: a jobFailed message is read and ignored.
ReceiveCompletedOnly(w) ==
  /\ server[w] = "listening"
  /\ \E m \in reports[w] :
       /\ reports' = [reports EXCEPT ![w] = @ \ {m}]
       /\ cycle' = IF m[2] = "resolved" THEN [cycle EXCEPT ![w][m[1]] = "resolved"]
                                        ELSE cycle
  /\ UNCHANGED <<waiting, active, server, aborted, currentJob, zzCapacity,
                 toWorker, doing, conn, call>>

\* jobCompleted / jobFailed.  The handler reads its stream sequentially, so a
\* report waits until the sign-up branch has finished.
ReceiveReport(w) ==
  /\ server[w] = "listening"
  /\ \E m \in reports[w] :
       /\ reports' = [reports EXCEPT ![w] = @ \ {m}]
       /\ cycle' = [cycle EXCEPT ![w][m[1]] = IF @ = "awaited" THEN m[2] ELSE @]
  /\ UNCHANGED <<waiting, active, server, aborted, currentJob, zzCapacity,
                 toWorker, doing, conn, call>>

\* The processor's promise has settled; removeOnComplete and removeOnFail
\* remove the job either way.
Settle(w) ==
  /\ active[w] # NoJob
  /\ cycle[w][active[w]] \in Results
  /\ active' = [active EXCEPT ![w] = NoJob]
  /\ UNCHANGED <<waiting, handlerVars, streamVars, call>>

-----------------------------------------------------------------------------
(* Disconnects                                                             *)

\* The stream breaks; messages in flight are lost in both directions.  (A break
\* that an unread sign-up message survives is no step: it is read later.)
Disconnect(w) ==
  /\ server[w] # "unborn"
  /\ conn[w] = "up"
  /\ conn' = [conn EXCEPT ![w] = "down"]
  /\ toWorker' = [toWorker EXCEPT ![w] = {}]
  /\ reports' = [reports EXCEPT ![w] = {}]
  /\ UNCHANGED <<waiting, active, handlerVars, doing, call>>

\* The LiveWorker loop, back at its stream after the job at hand, sees the
\* error and 5 s later calls reportAsWorker again.  It does not sign up again.
Reconnect(w) ==
  /\ conn[w] = "down"
  /\ doing[w] = NoJob
  /\ conn' = [conn EXCEPT ![w] = "again"]
  /\ UNCHANGED <<waiting, active, handlerVars, toWorker, reports, doing, call>>

\* context.signal fires.  Only a registered listener hears it.
SignalAbort(w) ==
  /\ conn[w] # "up"
  /\ ~aborted[w]
  /\ server[w] \in {"signingUp", "counted", "listening"}
  /\ aborted' = [aborted EXCEPT ![w] = TRUE]
  /\ server' = IF server[w] = "listening" THEN [server EXCEPT ![w] = "aborting"]
                                          ELSE server
  /\ UNCHANGED <<waiting, active, currentJob, cycle, zzCapacity, streamVars, call>>

\* Mutant: a rejection that comes before the promise is read is dropped.
RejectReadPromiseOnly(w) ==
  /\ server[w] = "aborting"
  /\ zzCapacity' = [zzCapacity EXCEPT !["object"] = @ - 1]
  /\ cycle' = IF currentJob[w] = NoJob THEN cycle
              ELSE [cycle EXCEPT ![w][currentJob[w]] =
                      IF @ = "awaited" THEN "rejected" ELSE @]
  /\ server' = [server EXCEPT ![w] = "closing"]
  /\ UNCHANGED <<waiting, active, aborted, currentJob, streamVars, call>>

\* The abort listener after its redis call, which names another key than the
\* sign-up did: reject the current job's cycle and call worker.close().
RejectCurrentJob(w) ==
  /\ server[w] = "aborting"
  /\ zzCapacity' = [zzCapacity EXCEPT !["object"] = @ - 1]
  /\ cycle' = IF currentJob[w] = NoJob THEN cycle
              ELSE [cycle EXCEPT ![w][currentJob[w]] =
                      CASE @ = "unread"  -> "unreadRejected"
                        [] @ = "awaited" -> "rejected"
                        [] OTHER         -> @]
  /\ server' = [server EXCEPT ![w] = "closing"]
  /\ UNCHANGED <<waiting, active, aborted, currentJob, streamVars, call>>

\* worker.close() resolves once no job is active; the bundle goes with it.
Close(w) ==
  /\ server[w] = "closing"
  /\ active[w] = NoJob
  /\ server' = [server EXCEPT ![w] = "closed"]
  /\ cycle' = [cycle EXCEPT ![w] = [j \in Jobs |-> "none"]]
  /\ currentJob' = [currentJob EXCEPT ![w] = NoJob]
  /\ UNCHANGED <<waiting, active, aborted, zzCapacity, streamVars, call>>

-----------------------------------------------------------------------------
CallStep(c) == AddJob(c) \/ CountJobs(c) \/ CompareCapacity(c) \/ IncreaseCapacity(c)

ServerStep(w) ==
  \/ SignUp(w) \/ CountCapacity(w) \/ AddAbortListener(w)
  \/ SendJob(w) \/ ReceiveReport(w) \/ Settle(w)
  \/ SignalAbort(w) \/ RejectCurrentJob(w) \/ Close(w)

WorkerStep(w) == TakeJob(w) \/ Report(w) \/ Reconnect(w)

Next ==
  \/ \E c \in Calls : CallStep(c)
  \/ \E w \in Workers : \/ ServerStep(w) \/ WorkerStep(w) \/ Disconnect(w)
                        \/ \E j \in Jobs : Dispatch(w, j)

Spec == Init /\ [][Next]_vars

(* Fairness: the event loops of server and worker run what is ready,       *)
(* processors return, and BullMQ serves its waiting list in order, so a    *)
(* job that can be dispatched again and again is.  Disconnects are never   *)
(* forced and new calls never demanded.                                    *)
Fairness ==
  /\ \A w \in Workers :
       /\ WF_vars(SignUp(w)) /\ WF_vars(CountCapacity(w)) /\ WF_vars(AddAbortListener(w))
       /\ WF_vars(SendJob(w)) /\ WF_vars(ReceiveReport(w)) /\ WF_vars(Settle(w))
       /\ WF_vars(SignalAbort(w)) /\ WF_vars(RejectCurrentJob(w)) /\ WF_vars(Close(w))
       /\ WF_vars(WorkerStep(w))
  /\ \A c \in Calls : WF_vars(call[c].pc # "idle" /\ CallStep(c))
  /\ \A j \in Jobs : SF_vars(\E w \in Workers : Dispatch(w, j))

FairSpec == Spec /\ Fairness

-----------------------------------------------------------------------------
(* Properties                                                              *)

TypeOK ==
  /\ waiting \subseteq Jobs
  /\ active \in [Workers -> Jobs \union {NoJob}]
  /\ server \in [Workers -> ServerStates]
  /\ aborted \in [Workers -> BOOLEAN]
  /\ currentJob \in [Workers -> Jobs \union {NoJob}]
  /\ cycle \in [Workers -> [Jobs -> CycleStates]]
  /\ toWorker \in [Workers -> SUBSET Jobs]
  /\ reports \in [Workers -> SUBSET (Jobs \X Results)]
  /\ doing \in [Workers -> Jobs \union {NoJob}]
  /\ conn \in [Workers -> {"up", "down", "again"}]
  /\ zzCapacity \in [CapacityKeys -> Int]
  /\ call \in [Calls -> [pc : CallStates, need : Nat]]

\* Whenever a server-side worker holds a job, currentJobByWorkerId names that
\* job, in every interleaving of dispatches, hooks, reports and aborts: the
\* abort listener, which knows only currentJobByWorkerId, rejects the right one.
AbortHitsHeldJob == \A w \in Workers : active[w] # NoJob => currentJob[w] = active[w]

\* Where the obligation to settle job j can be found while worker w's stream is up.
Places == {"hook", "toWorker", "processing", "reported", "settled"}

Custodians(w, j) ==
  {p \in Places :
     \/ p = "hook"       /\ cycle[w][j] = "unread"
     \/ p = "toWorker"   /\ j \in toWorker[w]
     \/ p = "processing" /\ doing[w] = j
     \/ p = "reported"   /\ \E r \in Results : <<j, r>> \in reports[w]
     \/ p = "settled"    /\ cycle[w][j] \in Results}

\* While the stream is up, a job the server-side worker holds is in exactly
\* one place on its way out and back, and every job on that way is held: none
\* is lost, run twice or settled while it still runs.
Custody ==
  \A w \in Workers : conn[w] = "up" =>
    /\ active[w] # NoJob => \E p \in Places : Custodians(w, active[w]) = {p}
    /\ \A j \in Jobs : /\ j \in toWorker[w] => active[w] = j
                       /\ doing[w] = j => active[w] = j
                       /\ \A r \in Results : <<j, r>> \in reports[w] => active[w] = j

\* No job runs on two workers whose streams are up, also after it was failed by
\* a disconnect and added again.
OneConnectedRunner ==
  \A v, w \in Workers :
    /\ conn[v] = "up" /\ conn[w] = "up"
    /\ doing[v] # NoJob /\ doing[v] = doing[w]
    => v = w

\* When every addJob call has returned and no stream ever broke, enough workers
\* were started to run all unsettled jobs at once, although the waiting jobs,
\* the active jobs and the workers are read at three different moments.
NeverUnderProvisioned ==
  /\ \A c \in Calls : call[c].pc \in {"idle", "returned"}
  /\ \A w \in Workers : conn[w] = "up"
  => Cardinality(waiting \union ActiveJobs)
       <= Cardinality({w \in Workers : server[w] # "unborn"})

\* A job held for a worker whose stream broke after the abort listener was
\* registered is given up and the worker is closed, wherever the job was.
DisconnectReleasesJob ==
  \A w \in Workers :
    (server[w] = "listening" /\ conn[w] # "up" /\ ~aborted[w])
       ~> (server[w] = "closed" /\ active[w] = NoJob)

\* While streams stay up every added job is run and settled.
AddedJobSettles == \A j \in Jobs : (j \in waiting) ~> (j \notin waiting \union ActiveJobs)

(* What the code's own message says, and the code does not do *)

\* service.ts:289 "Worker disconnected from vault server.": a job held for a
\* worker whose stream is gone is failed with that message.
DisconnectedJobFails ==
  \A w \in Workers : (active[w] # NoJob /\ conn[w] # "up") ~> (active[w] = NoJob)
=============================================================================
