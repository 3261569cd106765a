------------------------------ MODULE LiveJob ------------------------------
(* One run of a job in a worker: LiveJob.beginProcessing, the emissions the  *)
(* processor makes and the datapoints it reads, core/src/jobs/LiveJob.ts,    *)
(* with the sending of an output by core/src/jobs/JobSpec.ts.  An emission   *)
(* goes through a limiter of concurrency 1, gathers the input datapoints it  *)
(* derives from, and is published; the processor may or may not await it.    *)
(* The processor reads its input by nextValue or subscribes to it; when it   *)
(* returns the job records its status and signals the end of its outputs.    *)
(* JavaScript runs one callback at a time: an action ends at an await.       *)
EXTENDS Naturals, Sequences, FiniteSets, Functions

CONSTANTS
  Tags,        \* output tags a spec may have
  InputCount,  \* datapoints of the (single) input stream, 1 .. InputCount
  EmitBound    \* bound: emissions of the job

ASSUME JobAssumption ==
  /\ IsFiniteSet(Tags) /\ Tags # {}
  /\ InputCount \in Nat /\ EmitBound \in Nat

VARIABLES
  pc,        \* where beginProcessing is
  waiting,   \* the emission it awaits, or last awaited; 0 if none
  emits,     \* emissions in the order of the calls of emit
  outLog,    \* [Tags -> the published output stream]
  lastEmit,  \* _lastEmitPromise: the emission it stands for, 0 if null
  tracker,   \* [Tags -> AssociationTracker of the input and that output]
  read,      \* datapoints the processor has received
  watching,  \* the processor's subscription to the input observable
  statuses,  \* job statuses recorded in the vault
  toEnd,     \* output tags whose end is still to be signalled
  outputs    \* the output tags of this job's spec

vars == <<pc, waiting, emits, outLog, lastEmit, tracker, read, watching, statuses, toEnd,
          outputs>>

Datapoints == 1 .. InputCount
Emissions == 1 .. EmitBound
End == 0                       \* the message {terminate: true}

PcStates == {"starting", "processing", "returning", "completing", "lingering",
             "ending", "failing", "done", "rejected", "crashed"}
Pending == {"queued", "gathering", "sending", "publishing"}
Settled == {"sent", "rejected"}

EmissionRecords ==
  [tag: Tags, awaited: BOOLEAN, state: Pending \union Settled,
   parents: Seq(Datapoints),      \* datapoints the tracker dispensed to it
   upTo: 0 .. InputCount]         \* the newest datapoint received by then

Trackers == [store: Seq(Datapoints), prev: Seq(Datapoints), dispensed: BOOLEAN]

TypeOK ==
  /\ pc \in PcStates
  /\ waiting \in 0 .. Len(emits)
  /\ emits \in Seq(EmissionRecords)
  /\ Len(emits) <= EmitBound
  /\ outLog \in [Tags -> Seq({End} \union Emissions)]
  /\ lastEmit \in 0 .. Len(emits)
  /\ tracker \in [Tags -> Trackers]
  /\ read \in 0 .. InputCount
  /\ watching \in {"no", "yes", "over"}
  /\ statuses \in Seq({"running", "completed", "failed"})
  /\ toEnd \subseteq outputs
  /\ outputs \in (SUBSET Tags) \ {{}}

Init ==
  /\ pc = "starting"
  /\ waiting = 0
  /\ emits = <<>>
  /\ outLog = [t \in Tags |-> <<>>]
  /\ lastEmit = 0
  /\ tracker = [t \in Tags |-> [store |-> <<>>, prev |-> <<>>, dispensed |-> FALSE]]
  /\ read = 0
  /\ watching = "no"
  /\ statuses = <<>>
  /\ outputs \in (SUBSET Tags) \ {{}}
  /\ toEnd = outputs

-----------------------------------------------------------------------------
(* AssociationTracker *)

\* Mutant: the reset of the store comes after the new datapoint was pushed.
IntakeResetsLast(tr, d) ==
  IF tr.dispensed /\ tr.store # <<>>
  THEN [tr EXCEPT !.store = <<>>, !.dispensed = FALSE]
  ELSE [tr EXCEPT !.store = Append(@, d)]

Intake(tr, d) ==
  IF tr.dispensed /\ tr.store # <<>>
  THEN [tr EXCEPT !.store = <<d>>, !.dispensed = FALSE]
  ELSE [tr EXCEPT !.store = Append(@, d)]

Repeats(tr) == tr.dispensed /\ tr.store = <<>>

\* What dispense returns, and the tracker it leaves.
Dispensed(tr) == IF Repeats(tr) THEN tr.prev ELSE tr.store

AfterDispense(tr) ==
  IF Repeats(tr) THEN tr
  ELSE [store |-> <<>>, prev |-> tr.store, dispensed |-> TRUE]

\* Every output's tracker takes in the datapoint.
Receive(d) ==
  /\ read' = d
  /\ tracker' = [t \in Tags |-> Intake(tracker[t], d)]

-----------------------------------------------------------------------------
(* Emissions *)

Emission(t, awaited) ==
  [tag |-> t, awaited |-> awaited, state |-> "queued", parents |-> <<>>, upTo |-> 0]

CallEmit(t, awaited) ==
  /\ Len(emits) < EmitBound
  /\ emits' = Append(emits, Emission(t, awaited))

IsSettled(k) == emits[k].state \in Settled

\* Mutant: emitOutput is not limited, so emissions overtake each other.
StartUnlimited(k) ==
  /\ pc # "crashed"
  /\ emits[k].state = "queued"
  /\ emits' = [emits EXCEPT ![k].state = "gathering"]
  /\ UNCHANGED <<pc, waiting, outLog, lastEmit, tracker, read, watching, statuses, toEnd, outputs>>

\* The limiter runs the oldest call once the one before it has settled.
StartEmission(k) ==
  /\ pc # "crashed"
  /\ emits[k].state = "queued"
  /\ \A j \in 1 .. k - 1 : IsSettled(j)
  /\ emits' = [emits EXCEPT ![k].state = "gathering"]
  /\ UNCHANGED <<pc, waiting, outLog, lastEmit, tracker, read, watching, statuses, toEnd, outputs>>

\* The input stream has been looked up: the datapoints received by now are
\* dispensed to the emission, and it becomes the one to linger for.
Gather(k) ==
  /\ pc # "crashed"
  /\ emits[k].state = "gathering"
  /\ emits' = [emits EXCEPT ![k].state = "sending",
                            ![k].parents = Dispensed(tracker[emits[k].tag]),
                            ![k].upTo = read]
  /\ tracker' = [tracker EXCEPT ![emits[k].tag] = AfterDispense(@)]
  /\ lastEmit' = k
  /\ UNCHANGED <<pc, waiting, outLog, read, watching, statuses, toEnd, outputs>>

\* Nobody handles the rejection of an emission that is not awaited: it ends
\* the process.
Settle(k, outcome) ==
  /\ emits' = [emits EXCEPT ![k].state = outcome]
  /\ pc' = IF outcome = "rejected" /\ ~emits[k].awaited THEN "crashed" ELSE pc

\* The newest n messages of a stream, newest first (XREVRANGE with COUNT n).
ValuesByReverseIndex(log, n) ==
  [i \in 1 .. (IF n < Len(log) THEN n ELSE Len(log)) |-> log[Len(log) - i + 1]]

\* The look at the last message of the stream that precedes every send.
CheckStream(k) ==
  /\ pc # "crashed"
  /\ emits[k].state = "sending"
  /\ LET lastV == ValuesByReverseIndex(outLog[emits[k].tag], 0)
     IN  IF lastV # <<>> /\ lastV[1] = End
         THEN Settle(k, "rejected")
         ELSE /\ emits' = [emits EXCEPT ![k].state = "publishing"]
              /\ pc' = pc
  /\ UNCHANGED <<waiting, outLog, lastEmit, tracker, read, watching, statuses, toEnd, outputs>>

\* pub, then updateProgress; or pub is refused (validation, storage, vault).
Publish(k) ==
  /\ pc # "crashed"
  /\ emits[k].state = "publishing"
  /\ \/ /\ outLog' = [outLog EXCEPT ![emits[k].tag] = Append(@, k)]
        /\ Settle(k, "sent")
     \/ /\ Settle(k, "rejected")
        /\ UNCHANGED outLog
  /\ UNCHANGED <<waiting, lastEmit, tracker, read, watching, statuses, toEnd, outputs>>

-----------------------------------------------------------------------------
(* The processor *)

Running == pc = "processing" /\ waiting = 0

\* await input.nextValue()
Read ==
  /\ Running /\ watching = "no"
  /\ read < InputCount
  /\ Receive(read + 1)
  /\ UNCHANGED <<pc, waiting, emits, outLog, lastEmit, watching, statuses, toEnd, outputs>>

\* input.observable().subscribe(...)
Subscribe ==
  /\ Running /\ watching = "no" /\ read = 0
  /\ watching' = "yes"
  /\ UNCHANGED <<pc, waiting, emits, outLog, lastEmit, tracker, read, statuses, toEnd, outputs>>

\* A value reaches the subscription; its callback may emit, and awaits nothing.
Deliver ==
  /\ watching = "yes" /\ pc # "crashed"
  /\ read < InputCount
  /\ Receive(read + 1)
  /\ \/ \E t \in outputs : CallEmit(t, FALSE)
     \/ UNCHANGED emits
  /\ UNCHANGED <<pc, waiting, outLog, lastEmit, watching, statuses, toEnd, outputs>>

\* The terminator of the input stream completes the subscription.
InputEnds ==
  /\ watching = "yes" /\ pc # "crashed"
  /\ read = InputCount
  /\ watching' = "over"
  /\ UNCHANGED <<pc, waiting, emits, outLog, lastEmit, tracker, read, statuses, toEnd, outputs>>

\* output.emit(...) or await output.emit(...)
Emit ==
  /\ Running
  /\ \E t \in outputs, awaited \in BOOLEAN :
       /\ CallEmit(t, awaited)
       /\ waiting' = IF awaited THEN Len(emits) + 1 ELSE 0
  /\ UNCHANGED <<pc, outLog, lastEmit, tracker, read, watching, statuses, toEnd, outputs>>

\* An awaited emission settled; the processor handles a rejection, or throws it.
Resume ==
  /\ pc = "processing" /\ waiting # 0 /\ IsSettled(waiting)
  /\ waiting' = 0
  /\ \/ pc' = pc
     \/ emits[waiting].state = "rejected" /\ pc' = "failing"
  /\ UNCHANGED <<emits, outLog, lastEmit, tracker, read, watching, statuses, toEnd, outputs>>

\* The processor returns a value, which a spec with one output emits ...
ReturnValue ==
  /\ Running
  /\ Cardinality(outputs) = 1
  /\ \E t \in outputs : CallEmit(t, TRUE)
  /\ waiting' = Len(emits) + 1
  /\ pc' = "returning"
  /\ UNCHANGED <<outLog, lastEmit, tracker, read, watching, statuses, toEnd, outputs>>

\* ... or nothing.  `unsubs` was built from inputStreamFnsByTag before the
\* processor touched its inputs, from an empty map: it waits for nobody.
Return ==
  /\ Running
  /\ pc' = "completing"
  /\ UNCHANGED <<waiting, emits, outLog, lastEmit, tracker, read, watching, statuses, toEnd, outputs>>

Throw ==
  /\ Running
  /\ pc' = "failing"
  /\ UNCHANGED <<waiting, emits, outLog, lastEmit, tracker, read, watching, statuses, toEnd, outputs>>

-----------------------------------------------------------------------------
(* beginProcessing around the processor *)

\* appendJobStatusRec; when the vault refuses, the catch block follows.
Record(status, next) ==
  \/ statuses' = Append(statuses, status) /\ pc' = next
  \/ UNCHANGED statuses /\ pc' = "failing"

\* cleanupSubscriptions
Cleanup == watching' = IF watching = "yes" THEN "over" ELSE watching

AppendRunning ==
  /\ pc = "starting"
  /\ Record("running", "processing")
  /\ UNCHANGED <<waiting, emits, outLog, lastEmit, tracker, read, watching, toEnd, outputs>>

ReturnedValueSettled ==
  /\ pc = "returning" /\ IsSettled(waiting)
  /\ pc' = IF emits[waiting].state = "sent" THEN "completing" ELSE "failing"
  /\ UNCHANGED <<waiting, emits, outLog, lastEmit, tracker, read, watching, statuses, toEnd, outputs>>

\* Mutant: the lingering emission is not awaited.
AppendCompletedAndEnd ==
  /\ pc = "completing"
  /\ Record("completed", "ending")
  /\ waiting' = lastEmit
  /\ UNCHANGED <<emits, outLog, lastEmit, tracker, read, watching, toEnd, outputs>>

AppendCompleted ==
  /\ pc = "completing"
  /\ Record("completed", "lingering")
  /\ waiting' = lastEmit
  /\ UNCHANGED <<emits, outLog, lastEmit, tracker, read, watching, toEnd, outputs>>

\* Mutant: only an emission that was sent ends the wait.
LingerUntilSent ==
  /\ pc = "lingering"
  /\ waiting # 0 => emits[waiting].state = "sent"
  /\ pc' = "ending"
  /\ UNCHANGED <<waiting, emits, outLog, lastEmit, tracker, read, watching, statuses, toEnd, outputs>>

\* await this._lastEmitPromise
Linger ==
  /\ pc = "lingering"
  /\ waiting # 0 => IsSettled(waiting)
  /\ pc' = IF waiting # 0 /\ emits[waiting].state = "rejected" THEN "failing" ELSE "ending"
  /\ UNCHANGED <<waiting, emits, outLog, lastEmit, tracker, read, watching, statuses, toEnd, outputs>>

\* signalOutputEnd publishes past the limiter of the emissions.
SignalOutputEnd(t) ==
  /\ pc = "ending" /\ t \in toEnd
  /\ \/ /\ outLog' = [outLog EXCEPT ![t] = Append(@, End)]
        /\ toEnd' = toEnd \ {t}
        /\ pc' = IF toEnd' = {} THEN "done" ELSE "ending"
        /\ IF toEnd' = {} THEN Cleanup ELSE UNCHANGED watching
     \/ /\ pc' = "failing"
        /\ UNCHANGED <<outLog, toEnd, watching>>
  /\ UNCHANGED <<waiting, emits, lastEmit, tracker, read, statuses, outputs>>

\* The catch block; when even that record fails, beginProcessing rejects and
\* the worker reports jobFailed, otherwise jobCompleted.
AppendFailed ==
  /\ pc = "failing"
  /\ \/ statuses' = Append(statuses, "failed") /\ pc' = "done"
     \/ UNCHANGED statuses /\ pc' = "rejected"
  /\ Cleanup
  /\ UNCHANGED <<waiting, emits, outLog, lastEmit, tracker, read, toEnd, outputs>>

-----------------------------------------------------------------------------
EmissionStep(k) == StartEmission(k) \/ Gather(k) \/ CheckStream(k) \/ Publish(k)

Processor == Read \/ Subscribe \/ Emit \/ ReturnValue \/ Return \/ Throw

JobStep ==
  \/ AppendRunning \/ Resume \/ ReturnedValueSettled \/ AppendCompleted \/ Linger
  \/ \E t \in Tags : SignalOutputEnd(t)
  \/ AppendFailed

Next ==
  \/ \E k \in 1 .. Len(emits) : EmissionStep(k)
  \/ Processor \/ Deliver \/ InputEnds
  \/ JobStep

\* The event loop and the vault's answers; the processor owes nothing.
Fairness ==
  /\ \A k \in Emissions : WF_vars(k <= Len(emits) /\ EmissionStep(k))
  /\ WF_vars(JobStep)

Spec == Init /\ [][Next]_vars
FairSpec == Spec /\ Fairness

-----------------------------------------------------------------------------
(* Properties *)

Ended(t) == End \in Range(outLog[t])
Before(s, i) == {s[j] : j \in 1 .. i - 1}
Gathered(k) == emits[k].state \notin {"queued", "gathering"}

\* Outputs of a tag are published in the order emit was called, however the
\* emissions' awaits interleave and whichever of them are refused.
EmissionOrder ==
  \A t \in Tags : \A i, j \in DOMAIN outLog[t] :
    i < j /\ outLog[t][i] # End /\ outLog[t][j] # End => outLog[t][i] < outLog[t][j]

\* The end of an output follows every emission up to the last one that had
\* gathered its datapoints when the job was recorded as completed, and so every
\* emission the processor awaited: a consumer that stops there misses none.
EndAfterStarted ==
  \A t \in Tags : \A i \in DOMAIN outLog[t] :
    outLog[t][i] = End =>
      \A k \in DOMAIN emits :
        k <= waiting \/ emits[k].awaited =>
          /\ IsSettled(k)
          /\ emits[k].tag = t /\ emits[k].state = "sent" => k \in Before(outLog[t], i)

\* An emission always derives from the newest datapoint the processor had
\* received when the emission gathered its parents, also when it repeats those
\* of the emission before.
NewestTracked ==
  \A k \in DOMAIN emits :
    Gathered(k) /\ emits[k].upTo > 0 => emits[k].upTo \in Range(emits[k].parents)

\* The status records agree with what consumers see: an output ends at most once
\* and only in a job recorded as completed, and when all of them ended the job
\* is never recorded as failed.
EndAgreesWithStatus ==
  /\ \A t \in Tags : Ended(t) => "completed" \in Range(statuses)
  /\ \A t \in Tags : \A i, j \in DOMAIN outLog[t] :
       outLog[t][i] = End /\ outLog[t][j] = End => i = j
  /\ (\A t \in outputs : Ended(t)) => "failed" \notin Range(statuses)

\* What a consumer may conclude from the end of an output: that it has missed
\* nothing, and that the job was completed.
CleanEnd == EndAfterStarted /\ EndAgreesWithStatus

\* Once the processor returned, consumers of every output see its end, or the
\* job is recorded as failed, or the vault or the process is gone.
ReturnedIsReported ==
  pc \in {"returning", "completing"} ~>
    \/ \A t \in outputs : Ended(t)
    \/ "failed" \in Range(statuses) \/ pc \in {"rejected", "crashed"}

-----------------------------------------------------------------------------
(* What the code's own error says, and the code does not do *)

\* "Cannot send output to a terminated stream!": nothing follows the end.
NothingAfterEnd ==
  \A t \in Tags : \A i \in DOMAIN outLog[t] : outLog[t][i] = End => i = Len(outLog[t])
=============================================================================
