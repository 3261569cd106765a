------------------------- MODULE QueueServiceProofs -------------------------
(***************************************************************************)
(* Theorems about QueueService for any finite sets of jobs and workers and *)
(* any set of addJob calls.                                                *)
(***************************************************************************)
EXTENDS QueueService, FiniteSetTheorems, TLAPS

\* The jobs that are active are as finite as the set of jobs is.
LEMMA CountsAreNaturals ==
  ASSUME TypeOK
  PROVE  /\ Cardinality(waiting) \in Nat
         /\ Cardinality(ActiveJobs) \in Nat
         /\ \A listed \in ListedWorkers : Cardinality(listed) \in Nat
<1>1. waiting \subseteq Jobs /\ ActiveJobs \subseteq Jobs
  BY DEF TypeOK, ActiveJobs
<1>2. \A listed \in ListedWorkers : listed \subseteq Workers
  BY DEF ListedWorkers
<1>3. QED
  BY <1>1, <1>2, QueueAssumption, FS_Subset, FS_CardinalityType

\* A call is in the loop only while turns remain.
TurnsRemain == \A c \in Calls : call[c].pc = "provisioning" => call[c].need > 0

TypeInv == TypeOK /\ TurnsRemain

\* What a step of addJob does to its call keeps the type of call.
LEMMA CallUpdate ==
  ASSUME TypeInv, NEW c \in Calls, NEW s \in CallStates, NEW n \in Nat,
         s = "provisioning" => n > 0,
         call' = [call EXCEPT ![c] = [pc |-> s, need |-> n]]
  PROVE  /\ call' \in [Calls -> [pc : CallStates, need : Nat]]
         /\ TurnsRemain'
BY DEF TypeInv, TypeOK, TurnsRemain

\* Every action keeps every variable in its type and the loop within its turns.
LEMMA TypeInductive == Spec => []TypeInv
<1>1. Init => TypeInv
  BY DEF Init, TypeInv, TurnsRemain, TypeOK, ServerStates, CycleStates, CallStates, CapacityKeys
<1>2. TypeInv /\ [Next]_vars => TypeInv'
  <2> SUFFICES ASSUME TypeInv, [Next]_vars
               PROVE  TypeInv'
    OBVIOUS
  <2> USE DEF TypeInv, TurnsRemain, TypeOK, handlerVars, streamVars
  <2>1. ASSUME NEW c \in Calls, AddJob(c) PROVE TypeInv'
    <3>1. call' \in [Calls -> [pc : CallStates, need : Nat]] /\ TurnsRemain'
      <4>1. "added" \in CallStates /\ 0 \in Nat
        BY DEF CallStates
      <4>2. QED
        BY <2>1, <4>1, CallUpdate DEF AddJob
    <3>2. QED
      BY <2>1, <3>1 DEF AddJob
  <2>2. ASSUME NEW c \in Calls, CountJobs(c) PROVE TypeInv'
    <3>1. call' \in [Calls -> [pc : CallStates, need : Nat]] /\ TurnsRemain'
      <4>1. /\ "waitingCounted" \in CallStates /\ Cardinality(waiting) \in Nat
            /\ "counted" \in CallStates /\ call[c].need + Cardinality(ActiveJobs) \in Nat
        BY CountsAreNaturals DEF CallStates
      <4>2. QED
        BY <2>2, <4>1, CallUpdate DEF CountJobs
    <3>2. QED
      BY <2>2, <3>1 DEF CountJobs
  <2>3. ASSUME NEW c \in Calls, CompareCapacity(c) PROVE TypeInv'
    <3>1. PICK listed \in ListedWorkers :
            LET diff == call[c].need - Cardinality(listed)
            IN call' = [call EXCEPT ![c] =
                          IF diff > 0 THEN [pc |-> "provisioning", need |-> diff]
                                      ELSE [pc |-> "returned", need |-> 0]]
      BY <2>3 DEF CompareCapacity
    <3>2. call[c].need - Cardinality(listed) \in Int
      BY CountsAreNaturals
    <3>3. "provisioning" \in CallStates /\ "returned" \in CallStates /\ 0 \in Nat
      BY DEF CallStates
    <3>4. call' \in [Calls -> [pc : CallStates, need : Nat]] /\ TurnsRemain'
      <4>1. CASE call[c].need - Cardinality(listed) > 0
        BY <3>1, <3>2, <3>3, <4>1, CallUpdate
      <4>2. CASE ~(call[c].need - Cardinality(listed) > 0)
        BY <3>1, <3>3, <4>2, CallUpdate
      <4>3. QED
        BY <4>1, <4>2
    <3>5. QED
      BY <2>3, <3>4 DEF CompareCapacity
  <2>4. ASSUME NEW c \in Calls, IncreaseCapacity(c) PROVE TypeInv'
    <3>1. call' \in [Calls -> [pc : CallStates, need : Nat]] /\ TurnsRemain'
      <4>1. /\ call[c].need \in Nat /\ call[c].need > 0
            /\ "returned" \in CallStates /\ "rejected" \in CallStates
            /\ "provisioning" \in CallStates /\ 0 \in Nat
        BY <2>4 DEF IncreaseCapacity, CallStates
      <4>2. \/ call' = [call EXCEPT ![c] = [pc |-> "returned", need |-> 0]]
            \/ call' = [call EXCEPT ![c] = [pc |-> "rejected", need |-> 0]]
            \/ /\ call[c].need # 1
               /\ call' = [call EXCEPT ![c] = [pc |-> "provisioning",
                                               need |-> call[c].need - 1]]
        <5>1. CASE call[c].need = 1
          BY <2>4, <5>1 DEF IncreaseCapacity
        <5>2. CASE call[c].need # 1
          BY <2>4, <5>2 DEF IncreaseCapacity
        <5>3. QED
          BY <5>1, <5>2
      <4>3. call[c].need # 1 => call[c].need - 1 \in Nat /\ call[c].need - 1 > 0
        BY <4>1
      <4>4. CASE /\ call[c].need # 1
                 /\ call' = [call EXCEPT ![c] = [pc |-> "provisioning",
                                                 need |-> call[c].need - 1]]
        BY <4>1, <4>3, <4>4, CallUpdate
      <4>5. QED
        BY <4>1, <4>2, <4>4, CallUpdate
    <3>2. server' \in [Workers -> ServerStates]
      BY <2>4 DEF IncreaseCapacity, ServerStates
    <3>3. QED
      BY <2>4, <3>1, <3>2 DEF IncreaseCapacity
  <2>5. ASSUME NEW w \in Workers, SignUp(w) PROVE TypeInv'
    BY <2>5 DEF SignUp, ServerStates
  <2>6. ASSUME NEW w \in Workers, CountCapacity(w) PROVE TypeInv'
    BY <2>6 DEF CountCapacity, ServerStates, CapacityKeys
  <2>7. ASSUME NEW w \in Workers, AddAbortListener(w) PROVE TypeInv'
    BY <2>7 DEF AddAbortListener, ServerStates
  <2>8. ASSUME NEW w \in Workers, NEW j \in Jobs, Dispatch(w, j) PROVE TypeInv'
    BY <2>8 DEF Dispatch, CycleStates
  <2>9. ASSUME NEW w \in Workers, SendJob(w) PROVE TypeInv'
    BY <2>9 DEF SendJob, CycleStates
  <2>10. ASSUME NEW w \in Workers, TakeJob(w) PROVE TypeInv'
    BY <2>10 DEF TakeJob
  <2>11. ASSUME NEW w \in Workers, Report(w) PROVE TypeInv'
    BY <2>11 DEF Report, Results
  <2>12. ASSUME NEW w \in Workers, ReceiveReport(w) PROVE TypeInv'
    BY <2>12 DEF ReceiveReport, Results, CycleStates
  <2>13. ASSUME NEW w \in Workers, Settle(w) PROVE TypeInv'
    BY <2>13 DEF Settle
  <2>14. ASSUME NEW w \in Workers, Disconnect(w) PROVE TypeInv'
    BY <2>14 DEF Disconnect
  <2>15. ASSUME NEW w \in Workers, Reconnect(w) PROVE TypeInv'
    BY <2>15 DEF Reconnect
  <2>16. ASSUME NEW w \in Workers, SignalAbort(w) PROVE TypeInv'
    BY <2>16 DEF SignalAbort, ServerStates
  <2>17. ASSUME NEW w \in Workers, RejectCurrentJob(w) PROVE TypeInv'
    BY <2>17 DEF RejectCurrentJob, ServerStates, CycleStates, CapacityKeys
  <2>18. ASSUME NEW w \in Workers, Close(w) PROVE TypeInv'
    BY <2>18 DEF Close, ServerStates, CycleStates
  <2>19. CASE UNCHANGED vars
    BY <2>19 DEF vars
  <2>20. QED
    BY <2>1, <2>2, <2>3, <2>4, <2>5, <2>6, <2>7, <2>8, <2>9, <2>10, <2>11, <2>12,
       <2>13, <2>14, <2>15, <2>16, <2>17, <2>18, <2>19
       DEF Next, CallStep, ServerStep, WorkerStep
<1>3. QED
  BY <1>1, <1>2, PTL DEF Spec

\* Type correctness of every state, the arithmetic of addJob (counts,
\* difference, remaining turns) included.
THEOREM TypeCorrect == Spec => []TypeOK
<1>1. TypeInv => TypeOK  BY DEF TypeInv
<1>2. QED  BY <1>1, TypeInductive, PTL

-----------------------------------------------------------------------------
(* The inductive invariant.  Custody and OneConnectedRunner speak of sets   *)
(* of places; the parts below say the same per place, and what the server  *)
(* may be doing while a stream is up.                                      *)

\* BullMQ holds a job at most once.
HeldOnce ==
  /\ \A v, w \in Workers : active[v] # NoJob /\ active[v] = active[w] => v = w
  /\ \A w \in Workers : active[w] \notin waiting

\* The abort listener runs only after the stream broke.
UpMeansServing ==
  \A w \in Workers : conn[w] = "up" =>
    ~aborted[w] /\ server[w] \notin {"aborting", "closing", "closed"}

InTransit(w, j) ==
  \/ j \in toWorker[w]
  \/ doing[w] = j
  \/ \E r \in Results : <<j, r>> \in reports[w]

\* A held job has a live cycle, and a pending promise has somebody to settle it.
HeldTravels(w) ==
  active[w] # NoJob =>
    /\ cycle[w][active[w]] \in {"unread", "awaited"} \union Results
    /\ cycle[w][active[w]] = "awaited" => InTransit(w, active[w])

\* What travels belongs to the held job, whose promise is pending.
TransitHeld(w) ==
  \A j \in Jobs : InTransit(w, j) => active[w] = j /\ cycle[w][j] = "awaited"

\* A job travels in one place, as one message.
OnePlace(w) ==
  \A j \in Jobs :
    /\ ~(j \in toWorker[w] /\ doing[w] = j)
    /\ \A r \in Results : <<j, r>> \in reports[w] =>
         /\ j \notin toWorker[w] /\ doing[w] # j
         /\ \A s \in Results : <<j, s>> \in reports[w] => r = s

WayOut(w) == conn[w] = "up" => HeldTravels(w) /\ TransitHeld(w) /\ OnePlace(w)

QueueInv ==
  /\ HeldOnce /\ AbortHitsHeldJob /\ UpMeansServing
  /\ \A w \in Workers : WayOut(w)

\* Nothing of worker w's way out and back changes, or its stream is broken.
Untouched(w) ==
  \/ /\ active'[w] = active[w] /\ cycle'[w] = cycle[w] /\ toWorker'[w] = toWorker[w]
     /\ doing'[w] = doing[w] /\ reports'[w] = reports[w]
     /\ conn'[w] = "up" => conn[w] = "up"
  \/ conn'[w] # "up"

LEMMA UntouchedWay ==
  ASSUME NEW w \in Workers, WayOut(w), Untouched(w)
  PROVE  WayOut(w)'
<1>1. CASE conn'[w] # "up"
  BY <1>1 DEF WayOut
<1>2. CASE /\ active'[w] = active[w] /\ cycle'[w] = cycle[w] /\ toWorker'[w] = toWorker[w]
           /\ doing'[w] = doing[w] /\ reports'[w] = reports[w]
           /\ conn[w] = "up"
  <2>1. \A j : InTransit(w, j)' <=> InTransit(w, j)
    BY <1>2 DEF InTransit
  <2>2. HeldTravels(w)' /\ TransitHeld(w)' /\ OnePlace(w)'
    BY <1>2, <2>1 DEF WayOut, HeldTravels, TransitHeld, OnePlace
  <2>3. QED
    BY <2>2 DEF WayOut
<1>3. QED
  BY <1>1, <1>2 DEF Untouched

\* Every action keeps the inductive invariant.
LEMMA QueueInductive == Spec => []QueueInv
<1>1. Init => QueueInv
  BY QueueAssumption DEF Init, QueueInv, HeldOnce, AbortHitsHeldJob, UpMeansServing,
     WayOut, TransitHeld, OnePlace, HeldTravels, InTransit
<1>2. TypeOK /\ QueueInv /\ [Next]_vars => QueueInv'
  <2> SUFFICES ASSUME TypeOK, QueueInv, [Next]_vars
               PROVE  QueueInv'
    OBVIOUS
  <2> USE QueueAssumption DEF QueueInv, handlerVars, streamVars
  <2>1. ASSUME NEW c \in Calls, AddJob(c) PROVE QueueInv'
    <3>1. HeldOnce' /\ AbortHitsHeldJob' /\ UpMeansServing'
      BY <2>1 DEF AddJob, ActiveJobs, HeldOnce, AbortHitsHeldJob, UpMeansServing, TypeOK
    <3>2. \A w \in Workers : Untouched(w)
      BY <2>1 DEF AddJob, Untouched, TypeOK
    <3>3. QED
      BY <3>1, <3>2, UntouchedWay
  <2>2. ASSUME NEW c \in Calls, CountJobs(c) PROVE QueueInv'
    <3>1. HeldOnce' /\ AbortHitsHeldJob' /\ UpMeansServing'
      BY <2>2 DEF CountJobs, HeldOnce, AbortHitsHeldJob, UpMeansServing, TypeOK
    <3>2. \A w \in Workers : Untouched(w)
      BY <2>2 DEF CountJobs, Untouched, TypeOK
    <3>3. QED
      BY <3>1, <3>2, UntouchedWay
  <2>3. ASSUME NEW c \in Calls, CompareCapacity(c) PROVE QueueInv'
    <3>1. HeldOnce' /\ AbortHitsHeldJob' /\ UpMeansServing'
      BY <2>3 DEF CompareCapacity, HeldOnce, AbortHitsHeldJob, UpMeansServing, TypeOK
    <3>2. \A w \in Workers : Untouched(w)
      BY <2>3 DEF CompareCapacity, Untouched, TypeOK
    <3>3. QED
      BY <3>1, <3>2, UntouchedWay
  <2>4. ASSUME NEW c \in Calls, IncreaseCapacity(c) PROVE QueueInv'
    <3>1. HeldOnce' /\ AbortHitsHeldJob' /\ UpMeansServing'
      BY <2>4 DEF IncreaseCapacity, HeldOnce, AbortHitsHeldJob, UpMeansServing, TypeOK
    <3>2. \A w \in Workers : Untouched(w)
      BY <2>4 DEF IncreaseCapacity, Untouched, TypeOK
    <3>3. QED
      BY <3>1, <3>2, UntouchedWay
  <2>5. ASSUME NEW u \in Workers, SignUp(u) PROVE QueueInv'
    <3>1. HeldOnce' /\ AbortHitsHeldJob' /\ UpMeansServing'
      BY <2>5 DEF SignUp, HeldOnce, AbortHitsHeldJob, UpMeansServing, TypeOK
    <3>2. \A w \in Workers : Untouched(w)
      BY <2>5 DEF SignUp, Untouched, TypeOK
    <3>3. QED
      BY <3>1, <3>2, UntouchedWay
  <2>6. ASSUME NEW u \in Workers, CountCapacity(u) PROVE QueueInv'
    <3>1. HeldOnce' /\ AbortHitsHeldJob' /\ UpMeansServing'
      BY <2>6 DEF CountCapacity, HeldOnce, AbortHitsHeldJob, UpMeansServing, TypeOK
    <3>2. \A w \in Workers : Untouched(w)
      BY <2>6 DEF CountCapacity, Untouched, TypeOK
    <3>3. QED
      BY <3>1, <3>2, UntouchedWay
  <2>7. ASSUME NEW u \in Workers, AddAbortListener(u) PROVE QueueInv'
    <3>1. HeldOnce' /\ AbortHitsHeldJob' /\ UpMeansServing'
      BY <2>7 DEF AddAbortListener, HeldOnce, AbortHitsHeldJob, UpMeansServing, TypeOK
    <3>2. \A w \in Workers : Untouched(w)
      BY <2>7 DEF AddAbortListener, Untouched, TypeOK
    <3>3. QED
      BY <3>1, <3>2, UntouchedWay
  <2>8. ASSUME NEW u \in Workers, Reconnect(u) PROVE QueueInv'
    <3>1. HeldOnce' /\ AbortHitsHeldJob' /\ UpMeansServing'
      BY <2>8 DEF Reconnect, HeldOnce, AbortHitsHeldJob, UpMeansServing, TypeOK
    <3>2. \A w \in Workers : Untouched(w)
      BY <2>8 DEF Reconnect, Untouched, TypeOK
    <3>3. QED
      BY <3>1, <3>2, UntouchedWay
  <2>9. ASSUME NEW u \in Workers, SignalAbort(u) PROVE QueueInv'
    <3>1. HeldOnce' /\ AbortHitsHeldJob' /\ UpMeansServing'
      BY <2>9 DEF SignalAbort, HeldOnce, AbortHitsHeldJob, UpMeansServing, TypeOK
    <3>2. \A w \in Workers : Untouched(w)
      BY <2>9 DEF SignalAbort, Untouched, TypeOK
    <3>3. QED
      BY <3>1, <3>2, UntouchedWay
  <2>10. ASSUME NEW u \in Workers, Disconnect(u) PROVE QueueInv'
    <3>1. HeldOnce' /\ AbortHitsHeldJob' /\ UpMeansServing'
      BY <2>10 DEF Disconnect, HeldOnce, AbortHitsHeldJob, UpMeansServing, TypeOK
    <3>2. \A w \in Workers : Untouched(w)
      BY <2>10 DEF Disconnect, Untouched, TypeOK
    <3>3. QED
      BY <3>1, <3>2, UntouchedWay
  <2>11. ASSUME NEW u \in Workers, RejectCurrentJob(u) PROVE QueueInv'
    <3>1. HeldOnce' /\ AbortHitsHeldJob' /\ UpMeansServing'
      BY <2>11 DEF RejectCurrentJob, HeldOnce, AbortHitsHeldJob, UpMeansServing, TypeOK
    <3>2. \A w \in Workers : Untouched(w)
      BY <2>11 DEF RejectCurrentJob, Untouched, TypeOK, UpMeansServing
    <3>3. QED
      BY <3>1, <3>2, UntouchedWay
  <2>12. ASSUME NEW u \in Workers, Close(u) PROVE QueueInv'
    <3>1. HeldOnce' /\ AbortHitsHeldJob' /\ UpMeansServing'
      BY <2>12 DEF Close, HeldOnce, AbortHitsHeldJob, UpMeansServing, TypeOK
    <3>2. \A w \in Workers : Untouched(w)
      BY <2>12 DEF Close, Untouched, TypeOK, UpMeansServing
    <3>3. QED
      BY <3>1, <3>2, UntouchedWay
  <2>13. ASSUME NEW u \in Workers, NEW k \in Jobs, Dispatch(u, k) PROVE QueueInv'
    <3>1. HeldOnce' /\ AbortHitsHeldJob' /\ UpMeansServing'
      BY <2>13 DEF Dispatch, HeldOnce, AbortHitsHeldJob, UpMeansServing, TypeOK
    <3>2. \A w \in Workers \ {u} : Untouched(w)
      BY <2>13 DEF Dispatch, Untouched, TypeOK
    <3>3. ASSUME conn'[u] = "up"
          PROVE  HeldTravels(u)' /\ TransitHeld(u)' /\ OnePlace(u)'
      <4>1. conn[u] = "up" /\ HeldTravels(u) /\ TransitHeld(u) /\ OnePlace(u)
        BY <2>13, <3>3 DEF Dispatch, WayOut
      <4>2. \A j \in Jobs : ~InTransit(u, j)
        BY <2>13, <4>1 DEF Dispatch, TransitHeld
      <4>3. /\ active'[u] = k /\ cycle'[u][k] = "unread"
            /\ toWorker' = toWorker /\ doing' = doing /\ reports' = reports
        BY <2>13 DEF Dispatch, TypeOK
      <4>4. QED
        BY <4>1, <4>2, <4>3 DEF HeldTravels, TransitHeld, OnePlace, InTransit
    <3>4. WayOut(u)'
      BY <3>3 DEF WayOut
    <3>5. QED
      BY <3>1, <3>2, <3>4, UntouchedWay
  <2>14. ASSUME NEW u \in Workers, SendJob(u) PROVE QueueInv'
    <3>1. HeldOnce' /\ AbortHitsHeldJob' /\ UpMeansServing'
      BY <2>14 DEF SendJob, HeldOnce, AbortHitsHeldJob, UpMeansServing, TypeOK
    <3>2. \A w \in Workers \ {u} : Untouched(w)
      BY <2>14 DEF SendJob, Untouched, TypeOK
    <3>3. ASSUME conn'[u] = "up"
          PROVE  HeldTravels(u)' /\ TransitHeld(u)' /\ OnePlace(u)'
      <4>1. conn[u] = "up" /\ HeldTravels(u) /\ TransitHeld(u) /\ OnePlace(u)
        BY <2>14, <3>3 DEF SendJob, WayOut
      <4>2. PICK a \in Jobs : a = active[u] /\ cycle[u][a] = "unread"
        BY <2>14, <4>1 DEF SendJob, HeldTravels, TypeOK, Results
      <4>3. \A j \in Jobs : ~InTransit(u, j)
        BY <4>1, <4>2 DEF TransitHeld
      <4>4. /\ active'[u] = a /\ cycle'[u][a] = "awaited"
            /\ toWorker'[u] = toWorker[u] \union {a}
            /\ doing' = doing /\ reports' = reports
        BY <2>14, <4>1, <4>2 DEF SendJob, TypeOK
      <4>5. QED
        BY <4>2, <4>3, <4>4 DEF HeldTravels, TransitHeld, OnePlace, InTransit
    <3>4. WayOut(u)'
      BY <3>3 DEF WayOut
    <3>5. QED
      BY <3>1, <3>2, <3>4, UntouchedWay
  <2>15. ASSUME NEW u \in Workers, TakeJob(u) PROVE QueueInv'
    <3>1. HeldOnce' /\ AbortHitsHeldJob' /\ UpMeansServing'
      BY <2>15 DEF TakeJob, HeldOnce, AbortHitsHeldJob, UpMeansServing, TypeOK
    <3>2. \A w \in Workers \ {u} : Untouched(w)
      BY <2>15 DEF TakeJob, Untouched, TypeOK
    <3>3. ASSUME conn'[u] = "up"
          PROVE  HeldTravels(u)' /\ TransitHeld(u)' /\ OnePlace(u)'
      <4>1. conn[u] = "up" /\ HeldTravels(u) /\ TransitHeld(u) /\ OnePlace(u)
        BY <2>15, <3>3 DEF TakeJob, WayOut
      <4>2. PICK a \in Jobs : /\ a \in toWorker[u]
                              /\ doing'[u] = a /\ toWorker'[u] = toWorker[u] \ {a}
        BY <2>15 DEF TakeJob, TypeOK
      <4>3. active' = active /\ cycle' = cycle /\ reports' = reports
        BY <2>15 DEF TakeJob
      <4>4. active[u] = a /\ cycle[u][a] = "awaited"
        BY <4>1, <4>2 DEF TransitHeld, InTransit
      <4>5. HeldTravels(u)' /\ TransitHeld(u)'
        BY <4>1, <4>2, <4>3, <4>4 DEF HeldTravels, TransitHeld, InTransit
      <4>6. OnePlace(u)'
        BY <4>1, <4>2, <4>3 DEF OnePlace
      <4>7. QED
        BY <4>5, <4>6
    <3>4. WayOut(u)'
      BY <3>3 DEF WayOut
    <3>5. QED
      BY <3>1, <3>2, <3>4, UntouchedWay
  <2>16. ASSUME NEW u \in Workers, Report(u) PROVE QueueInv'
    <3>1. HeldOnce' /\ AbortHitsHeldJob' /\ UpMeansServing'
      BY <2>16 DEF Report, HeldOnce, AbortHitsHeldJob, UpMeansServing, TypeOK
    <3>2. \A w \in Workers \ {u} : Untouched(w)
      BY <2>16 DEF Report, Untouched, TypeOK
    <3>3. ASSUME conn'[u] = "up"
          PROVE  HeldTravels(u)' /\ TransitHeld(u)' /\ OnePlace(u)'
      <4>1. conn[u] = "up" /\ HeldTravels(u) /\ TransitHeld(u) /\ OnePlace(u)
        BY <2>16, <3>3 DEF Report, WayOut
      <4>2. PICK a \in Jobs, r \in Results :
              /\ a = doing[u] /\ doing'[u] = NoJob
              /\ reports'[u] = reports[u] \union {<<a, r>>}
        BY <2>16, <4>1 DEF Report, TypeOK
      <4>3. active' = active /\ cycle' = cycle /\ toWorker' = toWorker
        BY <2>16 DEF Report
      <4>4. active[u] = a /\ cycle[u][a] = "awaited"
        BY <4>1, <4>2 DEF TransitHeld, InTransit
      <4>5. \A s \in Results : <<a, s>> \notin reports[u]
        BY <4>1, <4>2 DEF OnePlace
      <4>6. \A j \in Jobs : \A s \in Results :
              <<j, s>> \in reports'[u] <=> <<j, s>> \in reports[u] \/ (j = a /\ s = r)
        BY <4>2
      <4>7. HeldTravels(u)' /\ TransitHeld(u)'
        BY <4>1, <4>2, <4>3, <4>4, <4>6 DEF HeldTravels, TransitHeld, InTransit
      <4>8. OnePlace(u)'
        BY <4>1, <4>2, <4>3, <4>5, <4>6 DEF OnePlace
      <4>9. QED
        BY <4>7, <4>8
    <3>4. WayOut(u)'
      BY <3>3 DEF WayOut
    <3>5. QED
      BY <3>1, <3>2, <3>4, UntouchedWay
  <2>17. ASSUME NEW u \in Workers, ReceiveReport(u) PROVE QueueInv'
    <3>1. HeldOnce' /\ AbortHitsHeldJob' /\ UpMeansServing'
      BY <2>17 DEF ReceiveReport, HeldOnce, AbortHitsHeldJob, UpMeansServing, TypeOK
    <3>2. \A w \in Workers \ {u} : Untouched(w)
      BY <2>17 DEF ReceiveReport, Untouched, TypeOK
    <3>3. ASSUME conn'[u] = "up"
          PROVE  HeldTravels(u)' /\ TransitHeld(u)' /\ OnePlace(u)'
      <4>1. conn[u] = "up" /\ HeldTravels(u) /\ TransitHeld(u) /\ OnePlace(u)
        BY <2>17, <3>3 DEF ReceiveReport, WayOut
      <4>2. PICK m \in reports[u] :
              /\ reports' = [reports EXCEPT ![u] = @ \ {m}]
              /\ cycle' = [cycle EXCEPT ![u][m[1]] = IF @ = "awaited" THEN m[2] ELSE @]
        BY <2>17 DEF ReceiveReport
      <4>3. PICK a \in Jobs, r \in Results : m = <<a, r>>
        BY <4>2 DEF TypeOK
      <4>4. active[u] = a /\ cycle[u][a] = "awaited"
        BY <4>1, <4>2, <4>3 DEF TransitHeld, InTransit
      <4>5. /\ cycle'[u][a] = r
            /\ reports'[u] = reports[u] \ {<<a, r>>}
            /\ active' = active /\ toWorker' = toWorker /\ doing' = doing
        BY <2>17, <4>2, <4>3, <4>4 DEF ReceiveReport, TypeOK
      <4>6. \A j \in Jobs : j # a => ~InTransit(u, j)
        BY <4>1, <4>4 DEF TransitHeld
      <4>7. /\ a \notin toWorker[u] /\ doing[u] # a
            /\ \A s \in Results : <<a, s>> \in reports[u] => s = r
        BY <4>1, <4>2, <4>3 DEF OnePlace
      <4>8. \A j \in Jobs : ~InTransit(u, j)'
        BY <4>5, <4>6, <4>7 DEF InTransit
      <4>9. TransitHeld(u)' /\ OnePlace(u)'
        BY <4>8 DEF TransitHeld, OnePlace, InTransit
      <4>10. HeldTravels(u)'
        BY <4>4, <4>5 DEF HeldTravels, Results
      <4>11. QED
        BY <4>9, <4>10
    <3>4. WayOut(u)'
      BY <3>3 DEF WayOut
    <3>5. QED
      BY <3>1, <3>2, <3>4, UntouchedWay
  <2>18. ASSUME NEW u \in Workers, Settle(u) PROVE QueueInv'
    <3>1. HeldOnce' /\ AbortHitsHeldJob' /\ UpMeansServing'
      BY <2>18 DEF Settle, HeldOnce, AbortHitsHeldJob, UpMeansServing, TypeOK
    <3>2. \A w \in Workers \ {u} : Untouched(w)
      BY <2>18 DEF Settle, Untouched, TypeOK
    <3>3. ASSUME conn'[u] = "up"
          PROVE  HeldTravels(u)' /\ TransitHeld(u)' /\ OnePlace(u)'
      <4>1. conn[u] = "up" /\ HeldTravels(u) /\ TransitHeld(u) /\ OnePlace(u)
        BY <2>18, <3>3 DEF Settle, WayOut
      <4>2. \A j \in Jobs : ~InTransit(u, j)
        BY <2>18, <4>1 DEF Settle, TransitHeld, Results
      <4>3. active'[u] = NoJob /\ UNCHANGED <<cycle, toWorker, doing, reports>>
        BY <2>18 DEF Settle, TypeOK
      <4>4. QED
        BY <4>2, <4>3 DEF HeldTravels, TransitHeld, OnePlace, InTransit
    <3>4. WayOut(u)'
      BY <3>3 DEF WayOut
    <3>5. QED
      BY <3>1, <3>2, <3>4, UntouchedWay
  <2>19. CASE UNCHANGED vars
    <3>1. HeldOnce' /\ AbortHitsHeldJob' /\ UpMeansServing'
      BY <2>19 DEF vars, HeldOnce, AbortHitsHeldJob, UpMeansServing
    <3>2. \A w \in Workers : Untouched(w)
      BY <2>19 DEF vars, Untouched
    <3>3. QED
      BY <3>1, <3>2, UntouchedWay
  <2>20. QED
    BY <2>1, <2>2, <2>3, <2>4, <2>5, <2>6, <2>7, <2>8, <2>9, <2>10,
       <2>11, <2>12, <2>13, <2>14, <2>15, <2>16, <2>17, <2>18, <2>19
       DEF Next, CallStep, ServerStep, WorkerStep
<1>3. QED
  BY <1>1, <1>2, TypeCorrect, PTL DEF Spec

\* The abort listener rejects the job that is held, in every state.
THEOREM AbortHitsHeld == Spec => []AbortHitsHeldJob
<1>1. QueueInv => AbortHitsHeldJob  BY DEF QueueInv
<1>2. QED  BY <1>1, QueueInductive, PTL

\* While its stream is up, a held job is in exactly one place on its way out
\* and back, and nothing else is on that way.
THEOREM CustodyHolds == Spec => []Custody
<1>1. TypeOK /\ QueueInv => Custody
  <2> SUFFICES ASSUME TypeOK, QueueInv, NEW w \in Workers, conn[w] = "up"
               PROVE  /\ active[w] # NoJob => \E p \in Places : Custodians(w, active[w]) = {p}
                      /\ \A j \in Jobs : InTransit(w, j) => active[w] = j
    BY DEF Custody, InTransit
  <2>1. HeldTravels(w) /\ TransitHeld(w) /\ OnePlace(w)
    BY DEF QueueInv, WayOut
  <2>2. ASSUME active[w] # NoJob
        PROVE  \E p \in Places : Custodians(w, active[w]) = {p}
    <3> DEFINE a == active[w]
    <3>1. a \in Jobs
      BY <2>2 DEF TypeOK
    <3>2. CASE cycle[w][a] = "unread"
      <4>1. ~InTransit(w, a) /\ cycle[w][a] \notin Results
        BY <2>1, <3>1, <3>2 DEF TransitHeld, Results
      <4>2. Custodians(w, a) = {"hook"}
        BY <3>2, <4>1 DEF Custodians, Places, InTransit
      <4>3. QED
        BY <4>2 DEF Places
    <3>3. CASE cycle[w][a] \in Results
      <4>1. ~InTransit(w, a) /\ cycle[w][a] # "unread"
        BY <2>1, <3>1, <3>3 DEF TransitHeld, Results
      <4>2. Custodians(w, a) = {"settled"}
        BY <3>3, <4>1 DEF Custodians, Places, InTransit
      <4>3. QED
        BY <4>2 DEF Places
    <3>4. CASE cycle[w][a] = "awaited"
      <4>1. InTransit(w, a) /\ cycle[w][a] # "unread" /\ cycle[w][a] \notin Results
        BY <2>1, <2>2, <3>4 DEF HeldTravels, Results
      <4>2. CASE a \in toWorker[w]
        <5>1. doing[w] # a /\ \A r \in Results : <<a, r>> \notin reports[w]
          BY <2>1, <3>1, <4>2 DEF OnePlace
        <5>2. Custodians(w, a) = {"toWorker"}
          BY <4>1, <4>2, <5>1 DEF Custodians, Places
        <5>3. QED
          BY <5>2 DEF Places
      <4>3. CASE doing[w] = a
        <5>1. a \notin toWorker[w] /\ \A r \in Results : <<a, r>> \notin reports[w]
          BY <2>1, <3>1, <4>3 DEF OnePlace
        <5>2. Custodians(w, a) = {"processing"}
          BY <4>1, <4>3, <5>1 DEF Custodians, Places
        <5>3. QED
          BY <5>2 DEF Places
      <4>4. CASE \E r \in Results : <<a, r>> \in reports[w]
        <5>1. a \notin toWorker[w] /\ doing[w] # a
          BY <2>1, <3>1, <4>4 DEF OnePlace
        <5>2. Custodians(w, a) = {"reported"}
          BY <4>1, <4>4, <5>1 DEF Custodians, Places
        <5>3. QED
          BY <5>2 DEF Places
      <4>5. QED
        BY <4>1, <4>2, <4>3, <4>4 DEF InTransit
    <3>5. QED
      BY <2>1, <2>2, <3>2, <3>3, <3>4 DEF HeldTravels
  <2>3. QED
    BY <2>1, <2>2 DEF TransitHeld
<1>2. QED
  BY <1>1, TypeCorrect, QueueInductive, PTL

\* No job is processed by two workers whose streams are up.
THEOREM OneRunner == Spec => []OneConnectedRunner
<1>1. TypeOK /\ QueueInv => OneConnectedRunner
  <2> SUFFICES ASSUME TypeOK, QueueInv, NEW v \in Workers, NEW w \in Workers,
                      conn[v] = "up", conn[w] = "up",
                      doing[v] # NoJob, doing[v] = doing[w]
               PROVE  v = w
    BY DEF OneConnectedRunner
  <2>1. doing[v] \in Jobs
    BY DEF TypeOK
  <2>2. active[v] = doing[v] /\ active[w] = doing[v]
    BY <2>1 DEF QueueInv, WayOut, TransitHeld, InTransit
  <2>3. QED
    BY <2>2 DEF QueueInv, HeldOnce
<1>2. QED
  BY <1>1, TypeCorrect, QueueInductive, PTL

-----------------------------------------------------------------------------
(* Enough workers.  What a call has counted covers all unsettled jobs, also *)
(* later: only another addJob adds one, and that call has not counted yet.  *)

Unsettled == waiting \union ActiveJobs
StartedWorkers == {w \in Workers : server[w] # "unborn"}

\* Call c makes up for the workers that are still missing.
Covers(c) ==
  \/ call[c].pc = "added"
  \/ call[c].pc = "waitingCounted" /\ Cardinality(waiting) <= call[c].need
  \/ call[c].pc = "counted" /\ Cardinality(Unsettled) <= call[c].need
  \/ /\ call[c].pc = "provisioning"
     /\ Cardinality(Unsettled) <= Cardinality(StartedWorkers) + call[c].need

EnoughOrCovered ==
  \/ Cardinality(Unsettled) <= Cardinality(StartedWorkers)
  \/ \E c \in Calls : call[c].pc = "rejected" \/ Covers(c)

LEMMA CountsGrow ==
  ASSUME TypeOK
  PROVE  /\ IsFiniteSet(waiting) /\ IsFiniteSet(ActiveJobs)
         /\ IsFiniteSet(Unsettled) /\ IsFiniteSet(StartedWorkers)
         /\ Cardinality(waiting) \in Nat /\ Cardinality(ActiveJobs) \in Nat
         /\ Cardinality(Unsettled) \in Nat /\ Cardinality(StartedWorkers) \in Nat
         /\ Cardinality(Unsettled) <= Cardinality(waiting) + Cardinality(ActiveJobs)
         /\ \A T \in SUBSET waiting : Cardinality(T) \in Nat /\ Cardinality(T) <= Cardinality(waiting)
         /\ \A T \in SUBSET Unsettled : Cardinality(T) \in Nat /\ Cardinality(T) <= Cardinality(Unsettled)
         /\ \A T \in SUBSET StartedWorkers :
              Cardinality(T) \in Nat /\ Cardinality(T) <= Cardinality(StartedWorkers)
<1>1. waiting \subseteq Jobs /\ ActiveJobs \subseteq Jobs /\ StartedWorkers \subseteq Workers
  BY DEF TypeOK, ActiveJobs, StartedWorkers
<1>2. IsFiniteSet(waiting) /\ IsFiniteSet(ActiveJobs) /\ IsFiniteSet(StartedWorkers)
  BY <1>1, QueueAssumption, FS_Subset
<1>3. IsFiniteSet(Unsettled) /\ IsFiniteSet(waiting \intersect ActiveJobs)
  BY <1>2, FS_Union, FS_Subset DEF Unsettled
<1>4. /\ Cardinality(waiting) \in Nat /\ Cardinality(ActiveJobs) \in Nat
      /\ Cardinality(Unsettled) \in Nat /\ Cardinality(StartedWorkers) \in Nat
      /\ Cardinality(waiting \intersect ActiveJobs) \in Nat
  BY <1>2, <1>3, FS_CardinalityType
<1>5. Cardinality(Unsettled) <= Cardinality(waiting) + Cardinality(ActiveJobs)
  <2>1. Cardinality(Unsettled)
          = Cardinality(waiting) + Cardinality(ActiveJobs) - Cardinality(waiting \intersect ActiveJobs)
    BY <1>2, FS_Union DEF Unsettled
  <2> QED BY <1>4, <2>1
<1>6. \A T \in SUBSET waiting : Cardinality(T) \in Nat /\ Cardinality(T) <= Cardinality(waiting)
  BY <1>2, FS_Subset, FS_CardinalityType
<1>7. \A T \in SUBSET Unsettled : Cardinality(T) \in Nat /\ Cardinality(T) <= Cardinality(Unsettled)
  BY <1>3, FS_Subset, FS_CardinalityType
<1>8. \A T \in SUBSET StartedWorkers :
        Cardinality(T) \in Nat /\ Cardinality(T) <= Cardinality(StartedWorkers)
  BY <1>2, FS_Subset, FS_CardinalityType
<1>9. QED
  BY <1>2, <1>3, <1>4, <1>5, <1>6, <1>7, <1>8

\* Steps of BullMQ, the handlers and the workers add no job.
LEMMA CoverKept ==
  ASSUME TypeOK, TypeOK', EnoughOrCovered, UNCHANGED call,
         waiting' \subseteq waiting, Unsettled' \subseteq Unsettled,
         StartedWorkers \subseteq StartedWorkers'
  PROVE  EnoughOrCovered'
<1>1. /\ Cardinality(waiting)' <= Cardinality(waiting) /\ Cardinality(waiting)' \in Nat
      /\ Cardinality(Unsettled)' <= Cardinality(Unsettled) /\ Cardinality(Unsettled)' \in Nat
      /\ Cardinality(waiting) \in Nat /\ Cardinality(Unsettled) \in Nat
      /\ Cardinality(StartedWorkers) \in Nat
  BY CountsGrow
<1>2. Cardinality(StartedWorkers) <= Cardinality(StartedWorkers)' /\ Cardinality(StartedWorkers)' \in Nat
  <2>1. IsFiniteSet(StartedWorkers')
    <3>1. StartedWorkers' \subseteq Workers
      BY DEF StartedWorkers
    <3> QED BY <3>1, QueueAssumption, FS_Subset
  <2> QED BY <2>1, FS_Subset, FS_CardinalityType
<1>3. \A c \in Calls : call[c].need \in Nat
  BY DEF TypeOK
<1>4. ASSUME NEW c \in Calls, Covers(c) PROVE Covers(c)'
  BY <1>1, <1>2, <1>3, <1>4 DEF Covers
<1>5. Cardinality(Unsettled) <= Cardinality(StartedWorkers) =>
        Cardinality(Unsettled)' <= Cardinality(StartedWorkers)'
  BY <1>1, <1>2
<1> QED BY <1>4, <1>5 DEF EnoughOrCovered

LEMMA CoverOfCall ==
  ASSUME TypeInv, TypeInv', EnoughOrCovered, NEW c \in Calls, CallStep(c)
  PROVE  EnoughOrCovered'
<1> USE DEF TypeInv
<1>1. call \in [Calls -> [pc : CallStates, need : Nat]] /\ call[c].need \in Nat
  BY DEF TypeOK
<1>2. CASE AddJob(c)
  <2>1. call'[c].pc = "added"
    BY <1>1, <1>2 DEF AddJob
  <2> QED BY <2>1 DEF EnoughOrCovered, Covers
<1>3. ASSUME UNCHANGED <<waiting, active>>, NEW n, NEW s, call' = [call EXCEPT ![c] = [pc |-> s, need |-> n]],
             StartedWorkers' = StartedWorkers, call[c].pc # "rejected",
             Covers(c) => Covers(c)' \/ Cardinality(Unsettled) <= Cardinality(StartedWorkers)
      PROVE  EnoughOrCovered'
  <2>1. Unsettled' = Unsettled /\ Cardinality(StartedWorkers)' = Cardinality(StartedWorkers)
    BY <1>3 DEF Unsettled, ActiveJobs
  <2>2. \A d \in Calls : d # c => call'[d] = call[d]
    BY <1>1, <1>3
  <2>3. \A d \in Calls : d # c /\ Covers(d) => Covers(d)'
    BY <1>3, <2>1, <2>2 DEF Covers
  <2> QED BY <1>3, <2>1, <2>2, <2>3 DEF EnoughOrCovered
<1>4. CASE CountJobs(c)
  <2>1. UNCHANGED <<waiting, active>> /\ StartedWorkers' = StartedWorkers
        /\ Unsettled' = Unsettled
    BY <1>4 DEF CountJobs, handlerVars, StartedWorkers, Unsettled, ActiveJobs
  <2>2. CASE call[c].pc = "added"
    <3>1. call' = [call EXCEPT ![c] = [pc |-> "waitingCounted", need |-> Cardinality(waiting)]]
      BY <1>4, <2>2 DEF CountJobs
    <3>2. Covers(c)'
      BY <1>1, <2>1, <3>1, CountsGrow DEF Covers
    <3> QED BY <3>2 DEF EnoughOrCovered
  <2>3. CASE call[c].pc = "waitingCounted"
    <3>1. call' = [call EXCEPT ![c] = [pc |-> "counted", need |-> call[c].need + Cardinality(ActiveJobs)]]
      BY <1>4, <2>3 DEF CountJobs
    <3>2. Covers(c) => Covers(c)'
      <4>1. Covers(c) => Cardinality(waiting) <= call[c].need
        BY <2>3 DEF Covers
      <4>2. call'[c].pc = "counted" /\ call'[c].need = call[c].need + Cardinality(ActiveJobs)
        BY <1>1, <3>1
      <4>3. Covers(c) => Cardinality(Unsettled) <= call'[c].need
        BY <1>1, <4>1, <4>2, CountsGrow
      <4> QED BY <2>1, <4>2, <4>3 DEF Covers
    <3> QED BY <1>3, <2>1, <2>3, <3>1, <3>2
  <2> QED BY <1>4, <2>2, <2>3 DEF CountJobs
<1>5. CASE CompareCapacity(c)
  <2>1. UNCHANGED <<waiting, active>> /\ StartedWorkers' = StartedWorkers
        /\ Unsettled' = Unsettled /\ call[c].pc = "counted"
    BY <1>5 DEF CompareCapacity, handlerVars, StartedWorkers, Unsettled, ActiveJobs
  <2>2. PICK listed \in ListedWorkers :
          LET diff == call[c].need - Cardinality(listed)
          IN call' = [call EXCEPT ![c] =
                        IF diff > 0 THEN [pc |-> "provisioning", need |-> diff]
                                    ELSE [pc |-> "returned", need |-> 0]]
    BY <1>5 DEF CompareCapacity
  <2>3. Cardinality(listed) \in Nat /\ Cardinality(listed) <= Cardinality(StartedWorkers)
        /\ Cardinality(StartedWorkers) \in Nat /\ Cardinality(Unsettled) \in Nat
    <3>1. listed \in SUBSET StartedWorkers
      BY DEF ListedWorkers, StartedWorkers
    <3> QED BY <3>1, CountsGrow
  <2>4. Covers(c) => Cardinality(Unsettled) <= call[c].need
    BY <2>1 DEF Covers
  <2>5. CASE call[c].need - Cardinality(listed) > 0
    <3>1. call' = [call EXCEPT ![c] = [pc |-> "provisioning", need |-> call[c].need - Cardinality(listed)]]
      BY <2>2, <2>5
    <3>2. call'[c].pc = "provisioning" /\ call'[c].need = call[c].need - Cardinality(listed)
      BY <1>1, <3>1
    <3>3. Covers(c) => Cardinality(Unsettled) <= Cardinality(StartedWorkers) + call'[c].need
      BY <1>1, <2>3, <2>4, <3>2
    <3>4. Covers(c) => Covers(c)'
      BY <2>1, <3>2, <3>3 DEF Covers
    <3> QED BY <1>3, <2>1, <3>1, <3>4
  <2>6. CASE ~(call[c].need - Cardinality(listed) > 0)
    <3>1. call' = [call EXCEPT ![c] = [pc |-> "returned", need |-> 0]]
      BY <2>2, <2>6
    <3>2. Covers(c) => Cardinality(Unsettled) <= Cardinality(StartedWorkers)
      BY <1>1, <2>3, <2>4, <2>6
    <3> QED BY <1>3, <2>1, <3>1, <3>2
  <2> QED BY <2>5, <2>6
<1>6. CASE IncreaseCapacity(c)
  <2>1. UNCHANGED <<waiting, active>> /\ Unsettled' = Unsettled /\ call[c].pc = "provisioning"
        /\ call[c].need > 0
    BY <1>6 DEF IncreaseCapacity, Unsettled, ActiveJobs, TurnsRemain
  <2>2. CASE call' = [call EXCEPT ![c] = [pc |-> "rejected", need |-> 0]]
    <3>1. call'[c].pc = "rejected"
      BY <1>1, <2>2
    <3> QED BY <3>1 DEF EnoughOrCovered
  <2>3. ASSUME NEW w \in Workers, server[w] = "unborn",
               server' = [server EXCEPT ![w] = "booting"],
               call' = [call EXCEPT ![c] =
                          IF call[c].need = 1 THEN [pc |-> "returned", need |-> 0]
                          ELSE [pc |-> "provisioning", need |-> call[c].need - 1]]
        PROVE  EnoughOrCovered'
    <3>1. StartedWorkers' = StartedWorkers \union {w} /\ w \notin StartedWorkers
      BY <2>3 DEF StartedWorkers, TypeOK
    <3>2. Cardinality(StartedWorkers)' = Cardinality(StartedWorkers) + 1
          /\ Cardinality(StartedWorkers) \in Nat /\ Cardinality(Unsettled) \in Nat
          /\ Cardinality(Unsettled)' = Cardinality(Unsettled)
      BY <2>1, <3>1, FS_AddElement, CountsGrow
    <3>3. \A d \in Calls : d # c => call'[d] = call[d]
      BY <1>1, <2>3
    <3>4. \A d \in Calls : call[d].need \in Nat
      BY DEF TypeOK
    <3>5. \A d \in Calls : d # c /\ Covers(d) => Covers(d)'
      BY <2>1, <3>2, <3>3, <3>4 DEF Covers
    <3>6. Covers(c) => Cardinality(Unsettled) <= Cardinality(StartedWorkers) + call[c].need
      BY <2>1 DEF Covers
    <3>7. Covers(c) => Covers(c)' \/ Cardinality(Unsettled)' <= Cardinality(StartedWorkers)'
      <4>1. CASE call[c].need = 1
        BY <3>2, <3>6, <4>1
      <4>2. CASE call[c].need # 1
        <5>1. call'[c] = [pc |-> "provisioning", need |-> call[c].need - 1]
          BY <1>1, <2>3, <4>2
        <5>2. Covers(c) => Cardinality(Unsettled)' <= Cardinality(StartedWorkers)' + call'[c].need
          BY <1>1, <3>2, <3>6, <5>1
        <5> QED BY <5>1, <5>2 DEF Covers
      <4> QED BY <4>1, <4>2
    <3>8. call[c].pc # "rejected"
      BY <2>1
    <3>9. Cardinality(Unsettled) <= Cardinality(StartedWorkers) =>
            Cardinality(Unsettled)' <= Cardinality(StartedWorkers)'
      BY <3>2
    <3> QED BY <3>3, <3>5, <3>7, <3>8, <3>9 DEF EnoughOrCovered
  <2> QED BY <1>6, <2>2, <2>3 DEF IncreaseCapacity
<1> QED BY <1>2, <1>4, <1>5, <1>6 DEF CallStep

LEMMA CoverNext == TypeInv /\ TypeInv' /\ EnoughOrCovered /\ [Next]_vars => EnoughOrCovered'
<1> SUFFICES ASSUME TypeInv, TypeInv', EnoughOrCovered, [Next]_vars PROVE EnoughOrCovered'
  OBVIOUS
<1> USE DEF TypeInv
<1>1. ASSUME UNCHANGED call, waiting' \subseteq waiting, ActiveJobs' \subseteq Unsettled,
             \A w \in Workers : server[w] # "unborn" => server'[w] # "unborn"
      PROVE  EnoughOrCovered'
  <2>1. Unsettled' \subseteq Unsettled /\ StartedWorkers \subseteq StartedWorkers'
    BY <1>1 DEF Unsettled, StartedWorkers
  <2> QED BY <1>1, <2>1, CoverKept
<1>2. ASSUME UNCHANGED <<call, waiting, active>>,
             \A w \in Workers : server[w] # "unborn" => server'[w] # "unborn"
      PROVE  EnoughOrCovered'
  <2>1. ActiveJobs' \subseteq Unsettled
    BY <1>2 DEF ActiveJobs, Unsettled
  <2> QED BY <1>1, <1>2, <2>1
<1>3. ASSUME NEW w \in Workers, NEW j \in Jobs, Dispatch(w, j) PROVE EnoughOrCovered'
  <2>1. ActiveJobs' \subseteq Unsettled
    BY <1>3 DEF Dispatch, ActiveJobs, Unsettled, TypeOK
  <2> QED BY <1>1, <1>3, <2>1 DEF Dispatch, streamVars
<1>4. ASSUME NEW w \in Workers, Settle(w) PROVE EnoughOrCovered'
  <2>1. ActiveJobs' \subseteq Unsettled
    BY <1>4 DEF Settle, ActiveJobs, Unsettled, TypeOK
  <2> QED BY <1>1, <1>4, <2>1 DEF Settle, handlerVars
<1>5. ASSUME NEW w \in Workers,
             \/ SignUp(w) \/ CountCapacity(w) \/ AddAbortListener(w) \/ SendJob(w)
             \/ ReceiveReport(w) \/ SignalAbort(w) \/ RejectCurrentJob(w) \/ Close(w)
             \/ WorkerStep(w) \/ Disconnect(w)
      PROVE  EnoughOrCovered'
  <2>1. UNCHANGED <<call, waiting, active>>
    BY <1>5 DEF SignUp, CountCapacity, AddAbortListener, SendJob, ReceiveReport, SignalAbort,
       RejectCurrentJob, Close, WorkerStep, TakeJob, Report, Reconnect, Disconnect
  <2>2. \A v \in Workers : server[v] # "unborn" => server'[v] # "unborn"
    BY <1>5 DEF SignUp, CountCapacity, AddAbortListener, SendJob, ReceiveReport, SignalAbort,
       RejectCurrentJob, Close, WorkerStep, TakeJob, Report, Reconnect, Disconnect, handlerVars, TypeOK
  <2> QED BY <1>2, <2>1, <2>2
<1>6. CASE UNCHANGED vars
  BY <1>2, <1>6 DEF vars, handlerVars
<1> QED BY <1>3, <1>4, <1>5, <1>6, CoverOfCall DEF Next, ServerStep

\* When every call has returned, enough workers were started for all jobs that
\* are not settled yet.
THEOREM EnoughWorkers == Spec => []NeverUnderProvisioned
<1>1. Init => EnoughOrCovered
  <2> SUFFICES ASSUME Init PROVE EnoughOrCovered
    OBVIOUS
  <2>1. TypeOK /\ Unsettled = {} /\ {} \in SUBSET StartedWorkers
    BY DEF Init, TypeOK, ServerStates, CycleStates, CallStates, CapacityKeys, Unsettled, ActiveJobs
  <2> QED BY <2>1, CountsGrow DEF EnoughOrCovered
<1>2. EnoughOrCovered => NeverUnderProvisioned
  BY DEF EnoughOrCovered, Covers, NeverUnderProvisioned, Unsettled, StartedWorkers
<1>3. QED
  BY <1>1, <1>2, TypeInductive, CoverNext, PTL DEF Spec

-----------------------------------------------------------------------------
(* What the abort listener gives up: the safety half of                      *)
(* DisconnectReleasesJob.                                                    *)

\* A held job has a cycle of its own and a bundle that still exists.  Once the
\* listener has called worker.close(), the job's promise is settled, or is
\* rejected as soon as the processor reads it: close() waits for no report of
\* a worker that is not connected any more.
GivenUp(w) ==
  active[w] # NoJob =>
    /\ cycle[w][active[w]] # "none"
    /\ server[w] \notin {"unborn", "booting", "closed"}
    /\ server[w] = "closing" => cycle[w][active[w]] \in {"unreadRejected"} \union Results

CloseWaitsForNoReport == \A w \in Workers : GivenUp(w)

\* Steps that leave what the server keeps of the worker.
LEMMA GivenUpKept ==
  ASSUME NEW w \in Workers, GivenUp(w), active'[w] = active[w],
         server'[w] = server[w], cycle'[w] = cycle[w]
  PROVE  GivenUp(w)'
BY DEF GivenUp

LEMMA GivenUpNext ==
  TypeOK /\ AbortHitsHeldJob /\ CloseWaitsForNoReport /\ [Next]_vars => CloseWaitsForNoReport'
<1> SUFFICES ASSUME TypeOK, AbortHitsHeldJob, CloseWaitsForNoReport, [Next]_vars, NEW w \in Workers
             PROVE  GivenUp(w)'
  BY DEF CloseWaitsForNoReport
<1> USE QueueAssumption DEF handlerVars, streamVars
<1>1. GivenUp(w)
  BY DEF CloseWaitsForNoReport
<1>2. CASE \E c \in Calls : CallStep(c)
  <2>1. active'[w] = active[w] /\ cycle'[w] = cycle[w] /\ (server'[w] = server[w] \/ server[w] = "unborn")
    BY <1>2 DEF CallStep, AddJob, CountJobs, CompareCapacity, IncreaseCapacity, TypeOK
  <2> QED BY <1>1, <2>1 DEF GivenUp
<1>3. ASSUME NEW v \in Workers, WorkerStep(v) \/ Disconnect(v) PROVE GivenUp(w)'
  BY <1>1, <1>3, GivenUpKept DEF WorkerStep, TakeJob, Report, Reconnect, Disconnect
<1>4. ASSUME NEW v \in Workers, SignUp(v) \/ CountCapacity(v) \/ AddAbortListener(v) \/ SignalAbort(v)
      PROVE  GivenUp(w)'
  BY <1>1, <1>4 DEF SignUp, CountCapacity, AddAbortListener, SignalAbort, TypeOK, GivenUp
<1>5. ASSUME NEW v \in Workers, NEW j \in Jobs, Dispatch(v, j) PROVE GivenUp(w)'
  BY <1>1, <1>5 DEF Dispatch, TakesJobs, TypeOK, GivenUp
<1>6. ASSUME NEW v \in Workers, SendJob(v) PROVE GivenUp(w)'
  BY <1>1, <1>6 DEF SendJob, Results, TypeOK, GivenUp
<1>7. ASSUME NEW v \in Workers, ReceiveReport(v) PROVE GivenUp(w)'
  <2>1. PICK m \in reports[v] :
          cycle' = [cycle EXCEPT ![v][m[1]] = IF @ = "awaited" THEN m[2] ELSE @]
    BY <1>7 DEF ReceiveReport
  <2>2. m[1] \in Jobs /\ m[2] \in Results
    BY DEF TypeOK
  <2>3. server[v] = "listening" /\ UNCHANGED <<active, server>>
    BY <1>7 DEF ReceiveReport
  <2> QED BY <1>1, <2>1, <2>2, <2>3 DEF Results, TypeOK, GivenUp
<1>8. ASSUME NEW v \in Workers, Settle(v) PROVE GivenUp(w)'
  BY <1>1, <1>8 DEF Settle, TypeOK, GivenUp
<1>9. ASSUME NEW v \in Workers, RejectCurrentJob(v) PROVE GivenUp(w)'
  <2>1. active[v] # NoJob => currentJob[v] = active[v] /\ active[v] \in Jobs
    BY DEF AbortHitsHeldJob, TypeOK
  <2>2. CASE v # w
    BY <1>1, <1>9, <2>2 DEF RejectCurrentJob, TypeOK, GivenUp
  <2>3. CASE v = w /\ active[w] # NoJob
    <3>1. cycle'[w][active[w]] = CASE cycle[w][active[w]] = "unread"  -> "unreadRejected"
                                   [] cycle[w][active[w]] = "awaited" -> "rejected"
                                   [] OTHER -> cycle[w][active[w]]
      BY <1>9, <2>1, <2>3 DEF RejectCurrentJob, TypeOK
    <3>2. cycle[w][active[w]] \in CycleStates
      BY <2>1, <2>3 DEF TypeOK
    <3> QED BY <1>1, <1>9, <2>3, <3>1, <3>2 DEF RejectCurrentJob, CycleStates, Results, TypeOK, GivenUp
  <2>4. CASE v = w /\ active[w] = NoJob
    BY <1>9, <2>4 DEF RejectCurrentJob, GivenUp
  <2> QED BY <2>2, <2>3, <2>4
<1>10. ASSUME NEW v \in Workers, Close(v) PROVE GivenUp(w)'
  BY <1>1, <1>10 DEF Close, TypeOK, GivenUp
<1>11. CASE UNCHANGED vars
  BY <1>1, <1>11 DEF vars, GivenUp
<1> QED BY <1>2, <1>3, <1>4, <1>5, <1>6, <1>7, <1>8, <1>9, <1>10, <1>11 DEF Next, ServerStep

\* A worker whose abort listener ran closes without a report: the promise of
\* the job it holds is settled or will be rejected when the processor reads it,
\* at whatever await the abort met the handler, and a closed one holds no job.
THEOREM AbortReleasesHeld == Spec => []CloseWaitsForNoReport
<1>1. Init => CloseWaitsForNoReport
  BY DEF Init, CloseWaitsForNoReport, GivenUp
<1>2. QueueInv => AbortHitsHeldJob
  BY DEF QueueInv
<1>3. QED
  BY <1>1, <1>2, TypeCorrect, QueueInductive, GivenUpNext, PTL DEF Spec
=============================================================================
