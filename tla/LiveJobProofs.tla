--------------------------- MODULE LiveJobProofs ---------------------------
(* Proofs about LiveJob for any output tags, any input and any number of    *)
(* emissions: type correctness, the order of emissions, the tracking of the *)
(* newest datapoint and the clean end of the outputs.                       *)
EXTENDS LiveJob, SequenceTheorems, TLAPS

\* The limiter: an emission leaves the queue only when all earlier ones settled.
InTurn ==
  \A j, k \in DOMAIN emits : j < k /\ emits[k].state # "queued" => IsSettled(j)

\* What an output carries besides its end are emissions that were sent.
PublishedSent ==
  \A t \in Tags : \A i \in DOMAIN outLog[t] :
    outLog[t][i] # End =>
      outLog[t][i] \in DOMAIN emits /\ emits[outLog[t][i]].state = "sent"

OrderInv == InTurn /\ PublishedSent /\ EmissionOrder

\* The newest datapoint is in the store, or in what the next dispense repeats.
TrackerHolds ==
  read > 0 => \A t \in Tags : read \in Range(Dispensed(tracker[t]))

TrackInv == TrackerHolds /\ NewestTracked

-----------------------------------------------------------------------------
(* Lemmas about updates of the emissions and of an output *)

LEMMA StateChanges ==
  ASSUME TypeOK, NEW k \in DOMAIN emits, NEW s \in Pending \union Settled,
         emits' = [emits EXCEPT ![k].state = s]
  PROVE  /\ emits' \in Seq(EmissionRecords) /\ Len(emits') = Len(emits)
         /\ DOMAIN emits' = DOMAIN emits
         /\ \A j \in DOMAIN emits :
              /\ emits'[j].state = IF j = k THEN s ELSE emits[j].state
              /\ emits'[j].tag = emits[j].tag /\ emits'[j].awaited = emits[j].awaited
              /\ emits'[j].parents = emits[j].parents /\ emits'[j].upTo = emits[j].upTo
<1>1. emits \in Seq(EmissionRecords) /\ \A j \in DOMAIN emits : emits[j] \in EmissionRecords
  BY DEF TypeOK
<1>2. [emits[k] EXCEPT !.state = s] \in EmissionRecords
  BY <1>1 DEF EmissionRecords
<1>3. emits' = [emits EXCEPT ![k] = [emits[k] EXCEPT !.state = s]]
  OBVIOUS
<1>4. emits' \in Seq(EmissionRecords) /\ Len(emits') = Len(emits) /\ DOMAIN emits' = DOMAIN emits
  BY <1>1, <1>2, <1>3
<1>5. QED
  BY <1>1, <1>3, <1>4 DEF EmissionRecords

LEMMA EmissionAdded ==
  ASSUME TypeOK, NEW t \in Tags, NEW a \in BOOLEAN, CallEmit(t, a)
  PROVE  /\ emits' \in Seq(EmissionRecords) /\ Len(emits') = Len(emits) + 1
         /\ Len(emits') <= EmitBound
         /\ DOMAIN emits' = DOMAIN emits \union {Len(emits) + 1}
         /\ \A j \in DOMAIN emits : emits'[j] = emits[j]
         /\ emits'[Len(emits) + 1].state = "queued"
<1>1. Emission(t, a) \in EmissionRecords /\ Emission(t, a).state = "queued"
  <2>1. <<>> \in Seq(Datapoints) /\ 0 \in 0 .. InputCount
    BY JobAssumption
  <2>2. QED
    BY <2>1 DEF Emission, EmissionRecords, Pending
<1>2. emits \in Seq(EmissionRecords) /\ Len(emits) \in Nat /\ DOMAIN emits = 1 .. Len(emits)
  BY DEF TypeOK
<1>3. emits' = Append(emits, Emission(t, a)) /\ Len(emits) < EmitBound
  BY DEF CallEmit
<1>4. /\ emits' \in Seq(EmissionRecords) /\ Len(emits') = Len(emits) + 1
      /\ \A j \in 1 .. Len(emits) : emits'[j] = emits[j]
      /\ emits'[Len(emits) + 1] = Emission(t, a)
  BY <1>1, <1>2, <1>3, AppendProperties
<1>5. DOMAIN emits' = 1 .. Len(emits) + 1
  BY <1>4
<1>6. QED
  BY <1>1, <1>2, <1>3, <1>4, <1>5, JobAssumption

LEMMA MessageAdded ==
  ASSUME TypeOK, NEW t \in Tags, NEW m \in {End} \union Emissions,
         outLog' = [outLog EXCEPT ![t] = Append(@, m)]
  PROVE  /\ outLog' \in [Tags -> Seq({End} \union Emissions)]
         /\ \A u \in Tags \ {t} : outLog'[u] = outLog[u]
         /\ DOMAIN outLog[t] = 1 .. Len(outLog[t]) /\ Len(outLog[t]) \in Nat
         /\ DOMAIN outLog'[t] = 1 .. Len(outLog[t]) + 1
         /\ \A i \in 1 .. Len(outLog[t]) : outLog'[t][i] = outLog[t][i]
         /\ outLog'[t][Len(outLog[t]) + 1] = m
<1>1. outLog \in [Tags -> Seq({End} \union Emissions)] /\ outLog[t] \in Seq({End} \union Emissions)
  BY DEF TypeOK
<1>2. /\ Append(outLog[t], m) \in Seq({End} \union Emissions)
      /\ Len(Append(outLog[t], m)) = Len(outLog[t]) + 1
      /\ \A i \in 1 .. Len(outLog[t]) : Append(outLog[t], m)[i] = outLog[t][i]
      /\ Append(outLog[t], m)[Len(outLog[t]) + 1] = m
  BY <1>1, AppendProperties
<1>3. outLog'[t] = Append(outLog[t], m)
  BY <1>1
<1>4. DOMAIN outLog'[t] = 1 .. Len(outLog[t]) + 1
  BY <1>2, <1>3
<1>5. QED
  BY <1>1, <1>2, <1>3, <1>4

LEMMA TrackerTypes ==
  ASSUME NEW tr \in Trackers, NEW d \in Datapoints
  PROVE  /\ Intake(tr, d) \in Trackers /\ d \in Range(Dispensed(Intake(tr, d)))
         /\ AfterDispense(tr) \in Trackers /\ Dispensed(tr) \in Seq(Datapoints)
<1>1. tr.store \in Seq(Datapoints) /\ tr.prev \in Seq(Datapoints) /\ tr.dispensed \in BOOLEAN
  BY DEF Trackers
<1>2. AfterDispense(tr) \in Trackers
  <2>1. CASE Repeats(tr)
    BY <2>1 DEF AfterDispense
  <2>2. CASE ~Repeats(tr)
    BY <1>1, <2>2 DEF AfterDispense, Trackers
  <2>3. QED
    BY <2>1, <2>2
<1>3. Dispensed(tr) \in Seq(Datapoints)
  BY <1>1 DEF Dispensed
<1>4. Intake(tr, d) \in Trackers /\ d \in Range(Dispensed(Intake(tr, d)))
  <2>1. CASE tr.dispensed /\ tr.store # <<>>
    <3>1. Intake(tr, d) = [tr EXCEPT !.store = <<d>>, !.dispensed = FALSE]
      BY <2>1 DEF Intake
    <3>2. <<d>> \in Seq(Datapoints) /\ 1 \in DOMAIN <<d>> /\ <<d>>[1] = d
      OBVIOUS
    <3>3. Intake(tr, d) \in Trackers
      BY <1>1, <3>1, <3>2 DEF Trackers
    <3>4. Intake(tr, d).store = <<d>> /\ ~Intake(tr, d).dispensed
      BY <3>1 DEF Trackers
    <3>5. Dispensed(Intake(tr, d)) = <<d>>
      BY <3>4 DEF Dispensed, Repeats
    <3>6. QED
      BY <3>2, <3>3, <3>5 DEF Range
  <2>2. CASE ~(tr.dispensed /\ tr.store # <<>>)
    <3>1. Intake(tr, d) = [tr EXCEPT !.store = Append(tr.store, d)]
      BY <2>2 DEF Intake
    <3>2. /\ Append(tr.store, d) \in Seq(Datapoints)
          /\ Len(tr.store) + 1 \in DOMAIN Append(tr.store, d)
          /\ Append(tr.store, d)[Len(tr.store) + 1] = d
          /\ Append(tr.store, d) # <<>>
      BY <1>1, AppendProperties
    <3>3. Intake(tr, d) \in Trackers
      BY <1>1, <3>1, <3>2 DEF Trackers
    <3>4. Intake(tr, d).store = Append(tr.store, d)
      BY <3>1 DEF Trackers
    <3>5. Dispensed(Intake(tr, d)) = Append(tr.store, d)
      BY <3>2, <3>4 DEF Dispensed, Repeats
    <3>6. QED
      BY <3>2, <3>3, <3>5 DEF Range
  <2>3. QED
    BY <2>1, <2>2
<1>5. QED
  BY <1>2, <1>3, <1>4

\* A second dispense repeats the first.
LEMMA DispenseRepeats ==
  ASSUME NEW tr \in Trackers
  PROVE  Dispensed(AfterDispense(tr)) = Dispensed(tr)
<1>1. CASE Repeats(tr)
  BY <1>1 DEF AfterDispense
<1>2. CASE ~Repeats(tr)
  BY <1>2 DEF AfterDispense, Dispensed, Repeats
<1>3. QED
  BY <1>1, <1>2
-----------------------------------------------------------------------------
(* Type correctness *)

LEMMA TypeInit == Init => TypeOK
<1> SUFFICES ASSUME Init PROVE TypeOK
  OBVIOUS
<1>1. emits = <<>> /\ emits \in Seq(EmissionRecords) /\ Len(emits) = 0
  BY DEF Init
<1>2. /\ outLog \in [Tags -> Seq({End} \union Emissions)]
      /\ statuses \in Seq({"running", "completed", "failed"})
  BY DEF Init
<1>3. tracker \in [Tags -> Trackers]
  <2>1. [store |-> <<>>, prev |-> <<>>, dispensed |-> FALSE] \in Trackers
    BY DEF Trackers
  <2>2. QED
    BY <2>1 DEF Init
<1>4. QED
  BY <1>1, <1>2, <1>3, JobAssumption DEF Init, TypeOK, PcStates

LEMMA TypeNext == TypeOK /\ [Next]_vars => TypeOK'
<1> SUFFICES ASSUME TypeOK, [Next]_vars PROVE TypeOK'
  OBVIOUS
<1>1. ASSUME NEW k \in 1 .. Len(emits), EmissionStep(k) PROVE TypeOK'
  <2>1. k \in DOMAIN emits /\ emits[k] \in EmissionRecords
    BY DEF TypeOK
  <2>2. CASE StartEmission(k)
    <3>1. "gathering" \in Pending \union Settled
      BY DEF Pending
    <3>2. emits' = [emits EXCEPT ![k].state = "gathering"]
      BY <2>2 DEF StartEmission
    <3>3. emits' \in Seq(EmissionRecords) /\ Len(emits') = Len(emits)
      BY <2>1, <3>1, <3>2, StateChanges
    <3>4. QED
      BY <2>2, <3>3 DEF StartEmission, TypeOK
  <2>3. CASE Gather(k)
    <3>1. emits[k].tag \in Tags /\ tracker[emits[k].tag] \in Trackers
      BY <2>1 DEF TypeOK, EmissionRecords
    <3> DEFINE ps == Dispensed(tracker[emits[k].tag])
               e == [emits[k] EXCEPT !.state = "sending", !.parents = ps, !.upTo = read]
               after == AfterDispense(tracker[emits[k].tag])
    <3>2. /\ emits' = [emits EXCEPT ![k] = e]
          /\ tracker' = [tracker EXCEPT ![emits[k].tag] = after]
      BY <2>3 DEF Gather
    <3>3. ps \in Seq(Datapoints) /\ after \in Trackers
      <4>1. CASE Datapoints = {}
        <5>1. ps \in Seq(Datapoints)
          BY <3>1 DEF Dispensed, Trackers
        <5>2. after \in Trackers
          BY <3>1 DEF AfterDispense, Trackers
        <5>3. QED
          BY <5>1, <5>2
      <4>2. CASE Datapoints # {}
        BY <3>1, <4>2, TrackerTypes
      <4>3. QED
        BY <4>1, <4>2
    <3>4. e \in EmissionRecords
      <4> HIDE DEF ps
      <4>1. QED
        BY <2>1, <3>3 DEF EmissionRecords, Pending, TypeOK
    <3>5. emits' \in Seq(EmissionRecords) /\ Len(emits') = Len(emits)
      <4> HIDE DEF e
      <4>1. QED
        BY <2>1, <3>2, <3>4 DEF TypeOK
    <3>6. tracker' \in [Tags -> Trackers]
      <4> HIDE DEF after
      <4>1. QED
        BY <3>2, <3>3 DEF TypeOK
    <3>7. lastEmit' \in 0 .. Len(emits')
      BY <2>1, <2>3, <3>5 DEF Gather, TypeOK
    <3>8. QED
      BY <2>3, <3>5, <3>6, <3>7 DEF Gather, TypeOK
  <2>4. CASE CheckStream(k)
    <3>1. \E s \in Pending \union Settled : emits' = [emits EXCEPT ![k].state = s]
      BY <2>4 DEF CheckStream, Settle, Pending, Settled
    <3>2. emits' \in Seq(EmissionRecords) /\ Len(emits') = Len(emits)
      BY <2>1, <3>1, StateChanges
    <3>3. pc' \in PcStates
      BY <2>4 DEF CheckStream, Settle, TypeOK, PcStates
    <3>4. QED
      BY <2>4, <3>2, <3>3 DEF CheckStream, TypeOK
  <2>5. CASE Publish(k)
    <3>1. \E s \in Pending \union Settled : emits' = [emits EXCEPT ![k].state = s]
      BY <2>5 DEF Publish, Settle, Pending, Settled
    <3>2. emits' \in Seq(EmissionRecords) /\ Len(emits') = Len(emits)
      BY <2>1, <3>1, StateChanges
    <3>3. pc' \in PcStates
      BY <2>5 DEF Publish, Settle, TypeOK, PcStates
    <3>4. outLog' \in [Tags -> Seq({End} \union Emissions)]
      <4>1. k \in {End} \union Emissions /\ emits[k].tag \in Tags
        BY <2>1, JobAssumption DEF Emissions, TypeOK, EmissionRecords
      <4>2. CASE outLog' = [outLog EXCEPT ![emits[k].tag] = Append(@, k)]
        BY <4>1, <4>2, MessageAdded
      <4>3. CASE UNCHANGED outLog
        BY <4>3 DEF TypeOK
      <4>4. QED
        BY <2>5, <4>2, <4>3 DEF Publish
    <3>5. QED
      BY <2>5, <3>2, <3>3, <3>4 DEF Publish, TypeOK
  <2>6. QED
    BY <1>1, <2>2, <2>3, <2>4, <2>5 DEF EmissionStep
<1>2. ASSUME NEW d \in Datapoints, Receive(d)
      PROVE  read' \in 0 .. InputCount /\ tracker' \in [Tags -> Trackers]
  <2>1. read' \in 0 .. InputCount
    BY <1>2, JobAssumption DEF Receive, Datapoints
  <2>2. \A t \in Tags : Intake(tracker[t], d) \in Trackers
    BY <1>2, TrackerTypes DEF TypeOK
  <2>3. QED
    BY <1>2, <2>1, <2>2 DEF Receive
<1>3. ASSUME NEW t \in Tags, NEW a \in BOOLEAN, CallEmit(t, a)
      PROVE  /\ emits' \in Seq(EmissionRecords) /\ Len(emits') <= EmitBound
             /\ Len(emits') = Len(emits) + 1 /\ Len(emits) \in Nat
  BY <1>3, EmissionAdded DEF TypeOK
<1>4. read < InputCount => read + 1 \in Datapoints
  BY JobAssumption DEF TypeOK, Datapoints
<1> DEFINE Recorded == {"running", "completed", "failed"}
<1>22. \A s \in Recorded : Append(statuses, s) \in Seq(Recorded)
  <2>1. statuses \in Seq(Recorded)
    BY DEF TypeOK
  <2>2. QED
    BY <2>1, AppendProperties
<1>5. CASE Read
  BY <1>2, <1>4, <1>5 DEF Read, TypeOK
<1>6. CASE Subscribe
  BY <1>6 DEF Subscribe, TypeOK
<1>7. CASE Deliver
  <2>1. read' \in 0 .. InputCount /\ tracker' \in [Tags -> Trackers]
    BY <1>2, <1>4, <1>7 DEF Deliver
  <2>2. /\ emits' \in Seq(EmissionRecords) /\ Len(emits') <= EmitBound
        /\ Len(emits) \in Nat /\ Len(emits') \in Nat /\ Len(emits') >= Len(emits)
    <3>1. CASE \E t \in outputs : CallEmit(t, FALSE)
      <4>1. PICK t \in Tags : CallEmit(t, FALSE)
        BY <3>1 DEF TypeOK
      <4>2. /\ emits' \in Seq(EmissionRecords) /\ Len(emits') <= EmitBound
            /\ Len(emits') = Len(emits) + 1 /\ Len(emits) \in Nat
        BY <1>3, <4>1
      <4>3. QED
        BY <4>2
    <3>2. CASE UNCHANGED emits
      BY <3>2 DEF TypeOK
    <3>3. QED
      BY <1>7, <3>1, <3>2 DEF Deliver
  <2>3. waiting' \in 0 .. Len(emits') /\ lastEmit' \in 0 .. Len(emits')
    BY <1>7, <2>2 DEF Deliver, TypeOK
  <2>4. QED
    BY <1>7, <2>1, <2>2, <2>3 DEF Deliver, TypeOK
<1>8. CASE InputEnds
  BY <1>8 DEF InputEnds, TypeOK
<1>9. CASE Emit
  <2>1. PICK t \in Tags, a \in BOOLEAN :
          CallEmit(t, a) /\ waiting' = IF a THEN Len(emits) + 1 ELSE 0
    BY <1>9 DEF Emit, TypeOK
  <2>2. /\ emits' \in Seq(EmissionRecords) /\ Len(emits') <= EmitBound
        /\ Len(emits') = Len(emits) + 1 /\ Len(emits) \in Nat
    BY <1>3, <2>1
  <2>3. waiting' \in 0 .. Len(emits') /\ lastEmit' \in 0 .. Len(emits')
    BY <1>9, <2>1, <2>2 DEF Emit, TypeOK
  <2>4. QED
    BY <1>9, <2>2, <2>3 DEF Emit, TypeOK
<1>10. CASE ReturnValue
  <2>1. PICK t \in Tags : CallEmit(t, TRUE)
    BY <1>10 DEF ReturnValue, TypeOK
  <2>2. /\ emits' \in Seq(EmissionRecords) /\ Len(emits') <= EmitBound
        /\ Len(emits') = Len(emits) + 1 /\ Len(emits) \in Nat
    BY <1>3, <2>1
  <2>3. waiting' \in 0 .. Len(emits') /\ lastEmit' \in 0 .. Len(emits')
    BY <1>10, <2>2 DEF ReturnValue, TypeOK
  <2>4. QED
    BY <1>10, <2>2, <2>3 DEF ReturnValue, TypeOK, PcStates
<1>11. CASE Return
  BY <1>11 DEF Return, TypeOK, PcStates
<1>12. CASE Throw
  BY <1>12 DEF Throw, TypeOK, PcStates
<1>13. CASE AppendRunning
  <2>1. statuses' \in Seq(Recorded)
    <3>1. CASE UNCHANGED statuses
      BY <3>1 DEF TypeOK
    <3>2. CASE \E s \in Recorded : statuses' = Append(statuses, s)
      BY <1>22, <3>2
    <3>3. QED
      BY <1>13, <3>1, <3>2 DEF AppendRunning, Record
  <2>2. pc' \in PcStates /\ watching' \in {"no", "yes", "over"}
    BY <1>13 DEF AppendRunning, Record, TypeOK, PcStates
  <2>3. QED
    BY <1>13, <2>1, <2>2 DEF AppendRunning, TypeOK
<1>14. CASE Resume
  BY <1>14 DEF Resume, TypeOK, PcStates
<1>15. CASE ReturnedValueSettled
  BY <1>15 DEF ReturnedValueSettled, TypeOK, PcStates
<1>16. CASE AppendCompleted
  <2>1. statuses' \in Seq(Recorded)
    <3>1. CASE UNCHANGED statuses
      BY <3>1 DEF TypeOK
    <3>2. CASE \E s \in Recorded : statuses' = Append(statuses, s)
      BY <1>22, <3>2
    <3>3. QED
      BY <1>16, <3>1, <3>2 DEF AppendCompleted, Record
  <2>2. pc' \in PcStates /\ watching' \in {"no", "yes", "over"}
    BY <1>16 DEF AppendCompleted, Record, TypeOK, PcStates
  <2>3. QED
    BY <1>16, <2>1, <2>2 DEF AppendCompleted, TypeOK
<1>17. CASE Linger
  BY <1>17 DEF Linger, TypeOK, PcStates
<1>18. ASSUME NEW t \in Tags, SignalOutputEnd(t) PROVE TypeOK'
  <2>1. outLog' \in [Tags -> Seq({End} \union Emissions)]
    <3>1. CASE outLog' = [outLog EXCEPT ![t] = Append(@, End)]
      BY <3>1, MessageAdded
    <3>2. CASE UNCHANGED outLog
      BY <3>2 DEF TypeOK
    <3>3. QED
      BY <1>18, <3>1, <3>2 DEF SignalOutputEnd
  <2>2. pc' \in PcStates /\ watching' \in {"no", "yes", "over"} /\ toEnd' \subseteq outputs'
    BY <1>18 DEF SignalOutputEnd, Cleanup, TypeOK, PcStates
  <2>3. QED
    BY <1>18, <2>1, <2>2 DEF SignalOutputEnd, TypeOK
<1>19. CASE AppendFailed
  <2>1. statuses' \in Seq(Recorded)
    <3>1. CASE UNCHANGED statuses
      BY <3>1 DEF TypeOK
    <3>2. CASE \E s \in Recorded : statuses' = Append(statuses, s)
      BY <1>22, <3>2
    <3>3. QED
      BY <1>19, <3>1, <3>2 DEF AppendFailed
  <2>2. pc' \in PcStates /\ watching' \in {"no", "yes", "over"}
    BY <1>19 DEF AppendFailed, Cleanup, TypeOK, PcStates
  <2>3. QED
    BY <1>19, <2>1, <2>2 DEF AppendFailed, TypeOK
<1>20. CASE UNCHANGED vars
  BY <1>20 DEF vars, TypeOK
<1>21. QED
  BY <1>1, <1>5, <1>6, <1>7, <1>8, <1>9, <1>10, <1>11, <1>12, <1>13, <1>14, <1>15,
     <1>16, <1>17, <1>18, <1>19, <1>20 DEF Next, Processor, JobStep

\* Every state of a job is of the declared type.
THEOREM TypeCorrect == Spec => []TypeOK
  BY TypeInit, TypeNext, PTL DEF Spec
-----------------------------------------------------------------------------
(* The order of emissions *)

\* A step that calls emit, or leaves the emissions alone.
LEMMA OrderOfOthers ==
  ASSUME TypeOK, OrderInv, UNCHANGED outLog,
         \/ UNCHANGED emits
         \/ \E t \in outputs, a \in BOOLEAN : CallEmit(t, a)
  PROVE  OrderInv'
<1>1. CASE UNCHANGED emits
  BY <1>1 DEF OrderInv, InTurn, PublishedSent, EmissionOrder, IsSettled
<1>2. ASSUME NEW t \in outputs, NEW a \in BOOLEAN, CallEmit(t, a) PROVE OrderInv'
  <2>1. /\ DOMAIN emits' = DOMAIN emits \union {Len(emits) + 1}
        /\ \A j \in DOMAIN emits : emits'[j] = emits[j]
        /\ emits'[Len(emits) + 1].state = "queued"
    BY <1>2, EmissionAdded DEF TypeOK
  <2>2. DOMAIN emits = 1 .. Len(emits) /\ Len(emits) \in Nat
    BY DEF TypeOK
  <2>3. InTurn'
    BY <2>1, <2>2 DEF OrderInv, InTurn, IsSettled
  <2>4. PublishedSent'
    BY <2>1 DEF OrderInv, PublishedSent
  <2>5. EmissionOrder'
    BY DEF OrderInv, EmissionOrder
  <2>6. QED
    BY <2>3, <2>4, <2>5 DEF OrderInv
<1>3. QED
  BY <1>1, <1>2

\* An emission that goes on keeps its turn; only one that was not sent changes.
LEMMA OrderOfProgress ==
  ASSUME TypeOK, OrderInv, NEW k \in DOMAIN emits,
         emits[k].state \in Pending,
         emits[k].state = "queued" => \A j \in 1 .. k - 1 : IsSettled(j),
         DOMAIN emits' = DOMAIN emits, emits'[k].state \in Settled \union Pending,
         emits'[k].state # "queued",
         \A j \in DOMAIN emits \ {k} : emits'[j].state = emits[j].state
  PROVE  InTurn' /\ (UNCHANGED outLog => PublishedSent' /\ EmissionOrder')
<1>1. DOMAIN emits = 1 .. Len(emits) /\ Len(emits) \in Nat
  BY DEF TypeOK
<1>2. emits[k].state \notin Settled
  BY DEF Pending, Settled
<1>3. InTurn'
  <2> SUFFICES ASSUME NEW i \in DOMAIN emits, NEW j \in DOMAIN emits, i < j,
                      emits'[j].state # "queued"
               PROVE  emits'[i].state \in Settled
    BY DEF InTurn, IsSettled
  <2>1. CASE j = k
    <3>1. IsSettled(i)
      <4>1. CASE emits[k].state = "queued"
        BY <1>1, <2>1, <4>1
      <4>2. CASE emits[k].state # "queued"
        BY <2>1, <4>2 DEF OrderInv, InTurn
      <4>3. QED
        BY <4>1, <4>2
    <3>2. i # k
      BY <1>1, <2>1
    <3>3. QED
      BY <3>1, <3>2 DEF IsSettled
  <2>2. CASE j # k
    <3>1. IsSettled(i)
      BY <2>2 DEF OrderInv, InTurn
    <3>2. i # k
      BY <1>2, <3>1 DEF IsSettled
    <3>3. QED
      BY <3>1, <3>2 DEF IsSettled
  <2>3. QED
    BY <2>1, <2>2
<1>4. ASSUME UNCHANGED outLog PROVE PublishedSent' /\ EmissionOrder'
  <2>1. EmissionOrder'
    BY <1>4 DEF OrderInv, EmissionOrder
  <2>2. PublishedSent'
    <3> SUFFICES ASSUME NEW t \in Tags, NEW i \in DOMAIN outLog[t], outLog[t][i] # End
                 PROVE  outLog[t][i] \in DOMAIN emits /\ emits'[outLog[t][i]].state = "sent"
      BY <1>4 DEF PublishedSent
    <3>1. outLog[t][i] \in DOMAIN emits /\ emits[outLog[t][i]].state = "sent"
      BY DEF OrderInv, PublishedSent
    <3>2. outLog[t][i] # k
      BY <1>2, <3>1 DEF Settled
    <3>3. QED
      BY <3>1, <3>2
  <2>3. QED
    BY <2>1, <2>2
<1>5. QED
  BY <1>3, <1>4

\* The end of an output is no emission.
LEMMA OrderOfEnd ==
  ASSUME TypeOK, OrderInv, NEW t \in Tags, UNCHANGED emits,
         outLog' = [outLog EXCEPT ![t] = Append(@, End)]
  PROVE  OrderInv'
<1>1. /\ outLog' \in [Tags -> Seq({End} \union Emissions)]
      /\ \A u \in Tags \ {t} : outLog'[u] = outLog[u]
      /\ DOMAIN outLog[t] = 1 .. Len(outLog[t]) /\ Len(outLog[t]) \in Nat
      /\ DOMAIN outLog'[t] = 1 .. Len(outLog[t]) + 1
      /\ \A i \in 1 .. Len(outLog[t]) : outLog'[t][i] = outLog[t][i]
      /\ outLog'[t][Len(outLog[t]) + 1] = End
  BY MessageAdded
<1>2. InTurn'
  BY DEF OrderInv, InTurn, IsSettled
<1>3. PublishedSent'
  <2> SUFFICES ASSUME NEW u \in Tags, NEW i \in DOMAIN outLog'[u], outLog'[u][i] # End
               PROVE  outLog'[u][i] \in DOMAIN emits /\ emits[outLog'[u][i]].state = "sent"
    BY DEF PublishedSent
  <2>1. i \in DOMAIN outLog[u] /\ outLog'[u][i] = outLog[u][i]
    BY <1>1
  <2>2. QED
    BY <2>1 DEF OrderInv, PublishedSent
<1>4. EmissionOrder'
  <2> SUFFICES ASSUME NEW u \in Tags, NEW i \in DOMAIN outLog'[u], NEW j \in DOMAIN outLog'[u],
                      i < j, outLog'[u][i] # End, outLog'[u][j] # End
               PROVE  outLog'[u][i] < outLog'[u][j]
    BY DEF EmissionOrder
  <2>1. /\ i \in DOMAIN outLog[u] /\ outLog'[u][i] = outLog[u][i]
        /\ j \in DOMAIN outLog[u] /\ outLog'[u][j] = outLog[u][j]
    BY <1>1
  <2>2. QED
    BY <2>1 DEF OrderInv, EmissionOrder
<1>5. QED
  BY <1>2, <1>3, <1>4 DEF OrderInv

\* What is published is newer than all that was: the sent ones came in turn.
LEMMA OrderOfPublish ==
  ASSUME TypeOK, OrderInv, NEW k \in DOMAIN emits, emits[k].state = "publishing",
         emits' = [emits EXCEPT ![k].state = "sent"],
         outLog' = [outLog EXCEPT ![emits[k].tag] = Append(@, k)]
  PROVE  OrderInv'
<1> DEFINE t == emits[k].tag
<1>1. DOMAIN emits = 1 .. Len(emits) /\ Len(emits) \in Nat /\ t \in Tags /\ k \in {End} \union Emissions
  <2>1. DOMAIN emits = 1 .. Len(emits) /\ Len(emits) \in Nat /\ Len(emits) <= EmitBound
    BY DEF TypeOK
  <2>2. emits[k] \in EmissionRecords
    BY DEF TypeOK
  <2>3. t \in Tags
    BY <2>2 DEF EmissionRecords
  <2>4. k \in Emissions
    BY <2>1, JobAssumption DEF Emissions
  <2>5. QED
    BY <2>1, <2>3, <2>4
<1>2. /\ DOMAIN emits' = DOMAIN emits
      /\ \A j \in DOMAIN emits : emits'[j].state = IF j = k THEN "sent" ELSE emits[j].state
  BY StateChanges DEF Settled
<1>3. /\ \A u \in Tags \ {t} : outLog'[u] = outLog[u]
      /\ DOMAIN outLog[t] = 1 .. Len(outLog[t]) /\ Len(outLog[t]) \in Nat
      /\ DOMAIN outLog'[t] = 1 .. Len(outLog[t]) + 1
      /\ \A i \in 1 .. Len(outLog[t]) : outLog'[t][i] = outLog[t][i]
      /\ outLog'[t][Len(outLog[t]) + 1] = k
  <2> HIDE DEF t
  <2>1. QED
    BY <1>1, MessageAdded DEF t
<1>4. \A u \in Tags : \A i \in DOMAIN outLog[u] : outLog[u][i] # End =>
        outLog[u][i] \in DOMAIN emits /\ emits[outLog[u][i]].state = "sent" /\ outLog[u][i] < k
  <2> SUFFICES ASSUME NEW u \in Tags, NEW i \in DOMAIN outLog[u], outLog[u][i] # End
               PROVE  /\ outLog[u][i] \in DOMAIN emits /\ emits[outLog[u][i]].state = "sent"
                      /\ outLog[u][i] < k
    OBVIOUS
  <2>1. outLog[u][i] \in DOMAIN emits /\ emits[outLog[u][i]].state = "sent"
    BY DEF OrderInv, PublishedSent
  <2>2. outLog[u][i] # k /\ ~IsSettled(k)
    BY <2>1 DEF IsSettled, Settled
  <2>3. ~(k < outLog[u][i])
    BY <2>1, <2>2 DEF OrderInv, InTurn
  <2>4. QED
    BY <1>1, <2>1, <2>2, <2>3
<1>5. InTurn'
  BY <1>2, OrderOfProgress DEF Pending, Settled
<1> HIDE DEF t
<1>6. PublishedSent'
  <2> SUFFICES ASSUME NEW u \in Tags, NEW i \in DOMAIN outLog'[u], outLog'[u][i] # End
               PROVE  outLog'[u][i] \in DOMAIN emits' /\ emits'[outLog'[u][i]].state = "sent"
    BY DEF PublishedSent
  <2>1. CASE i \in DOMAIN outLog[u] /\ outLog'[u][i] = outLog[u][i]
    BY <1>2, <1>4, <2>1
  <2>2. CASE outLog'[u][i] = k
    BY <1>2, <2>2
  <2>3. QED
    BY <1>3, <2>1, <2>2
<1>7. EmissionOrder'
  <2> SUFFICES ASSUME NEW u \in Tags, NEW i \in DOMAIN outLog'[u], NEW j \in DOMAIN outLog'[u],
                      i < j, outLog'[u][i] # End, outLog'[u][j] # End
               PROVE  outLog'[u][i] < outLog'[u][j]
    BY DEF EmissionOrder
  <2>1. i \in DOMAIN outLog[u] /\ outLog'[u][i] = outLog[u][i]
    BY <1>3
  <2>2. CASE j \in DOMAIN outLog[u] /\ outLog'[u][j] = outLog[u][j]
    BY <2>1, <2>2 DEF OrderInv, EmissionOrder
  <2>3. CASE outLog'[u][j] = k
    BY <1>4, <2>1, <2>3
  <2>4. QED
    BY <1>3, <2>2, <2>3
<1>8. QED
  BY <1>5, <1>6, <1>7 DEF OrderInv
LEMMA OrderInit == Init => OrderInv
<1> SUFFICES ASSUME Init PROVE OrderInv
  OBVIOUS
<1>1. DOMAIN emits = {} /\ \A t \in Tags : DOMAIN outLog[t] = {}
  BY DEF Init
<1>2. QED
  BY <1>1 DEF OrderInv, InTurn, PublishedSent, EmissionOrder

LEMMA OrderNext == TypeOK /\ OrderInv /\ [Next]_vars => OrderInv'
<1> SUFFICES ASSUME TypeOK, OrderInv, [Next]_vars PROVE OrderInv'
  OBVIOUS
<1>1. ASSUME NEW k \in 1 .. Len(emits), EmissionStep(k) PROVE OrderInv'
  <2>1. k \in DOMAIN emits /\ emits[k] \in EmissionRecords
    BY DEF TypeOK
  <2>2. CASE StartEmission(k)
    <3>1. /\ emits[k].state = "queued" /\ \A j \in 1 .. k - 1 : IsSettled(j)
          /\ emits' = [emits EXCEPT ![k].state = "gathering"] /\ UNCHANGED outLog
      BY <2>2 DEF StartEmission
    <3>2. /\ DOMAIN emits' = DOMAIN emits
          /\ \A j \in DOMAIN emits :
               emits'[j].state = IF j = k THEN "gathering" ELSE emits[j].state
      BY <2>1, <3>1, StateChanges DEF Pending
    <3>3. QED
      BY <2>1, <3>1, <3>2, OrderOfProgress DEF Pending, OrderInv
  <2>3. CASE Gather(k)
    <3>1. /\ emits[k].state = "gathering" /\ UNCHANGED outLog
          /\ DOMAIN emits' = DOMAIN emits
          /\ \A j \in DOMAIN emits \ {k} : emits'[j] = emits[j]
      BY <2>3 DEF Gather
    <3>2. emits'[k].state = "sending"
      BY <2>1, <2>3 DEF Gather, EmissionRecords
    <3>3. QED
      BY <2>1, <3>1, <3>2, OrderOfProgress DEF Pending, OrderInv
  <2>4. CASE CheckStream(k)
    <3>1. emits[k].state = "sending" /\ UNCHANGED outLog
      BY <2>4 DEF CheckStream
    <3>2. PICK s \in {"rejected", "publishing"} : emits' = [emits EXCEPT ![k].state = s]
      BY <2>4 DEF CheckStream, Settle
    <3>3. /\ DOMAIN emits' = DOMAIN emits
          /\ \A j \in DOMAIN emits : emits'[j].state = IF j = k THEN s ELSE emits[j].state
      <4>1. s \in Pending \union Settled
        BY DEF Pending, Settled
      <4>2. QED
        BY <2>1, <3>2, <4>1, StateChanges
    <3>4. QED
      BY <2>1, <3>1, <3>3, OrderOfProgress DEF Pending, Settled, OrderInv
  <2>5. CASE Publish(k)
    <3>1. emits[k].state = "publishing"
      BY <2>5 DEF Publish
    <3>2. CASE /\ outLog' = [outLog EXCEPT ![emits[k].tag] = Append(@, k)]
               /\ Settle(k, "sent")
      BY <2>1, <3>1, <3>2, OrderOfPublish DEF Settle
    <3>3. CASE Settle(k, "rejected") /\ UNCHANGED outLog
      <4>1. /\ DOMAIN emits' = DOMAIN emits
            /\ \A j \in DOMAIN emits :
                 emits'[j].state = IF j = k THEN "rejected" ELSE emits[j].state
        BY <2>1, <3>3, StateChanges DEF Settle, Settled
      <4>2. QED
        BY <2>1, <3>1, <3>3, <4>1, OrderOfProgress DEF Pending, Settled, OrderInv
    <3>4. QED
      BY <2>5, <3>2, <3>3 DEF Publish
  <2>6. QED
    BY <1>1, <2>2, <2>3, <2>4, <2>5 DEF EmissionStep
<1>2. CASE Processor
  BY <1>2, OrderOfOthers DEF Processor, Read, Subscribe, Emit, ReturnValue, Return, Throw
<1>3. CASE Deliver
  BY <1>3, OrderOfOthers DEF Deliver
<1>4. CASE InputEnds
  BY <1>4, OrderOfOthers DEF InputEnds
<1>5. CASE JobStep
  <2>1. ASSUME NEW t \in Tags, SignalOutputEnd(t) PROVE OrderInv'
    <3>1. UNCHANGED emits
      BY <2>1 DEF SignalOutputEnd
    <3>2. CASE UNCHANGED outLog
      BY <3>1, <3>2, OrderOfOthers
    <3>3. CASE outLog' = [outLog EXCEPT ![t] = Append(@, End)]
      BY <3>1, <3>3, OrderOfEnd
    <3>4. QED
      BY <2>1, <3>2, <3>3 DEF SignalOutputEnd
  <2>2. CASE UNCHANGED <<emits, outLog>>
    BY <2>2, OrderOfOthers
  <2>3. QED
    BY <1>5, <2>1, <2>2 DEF JobStep, AppendRunning, Resume, ReturnedValueSettled,
       AppendCompleted, Linger, AppendFailed
<1>6. CASE UNCHANGED vars
  BY <1>6, OrderOfOthers DEF vars
<1>7. QED
  BY <1>1, <1>2, <1>3, <1>4, <1>5, <1>6 DEF Next

\* Every output carries the emissions in the order emit was called, whatever
\* the processor awaits and whichever of them are refused.
THEOREM EmissionsInOrder == Spec => []EmissionOrder
<1>1. Init => TypeOK /\ OrderInv
  BY TypeInit, OrderInit
<1>2. TypeOK /\ OrderInv /\ [Next]_vars => (TypeOK /\ OrderInv)'
  BY TypeNext, OrderNext
<1>3. OrderInv => EmissionOrder
  BY DEF OrderInv
<1>4. QED
  BY <1>1, <1>2, <1>3, PTL DEF Spec

-----------------------------------------------------------------------------
(* The datapoints an emission derives from *)

\* A step in which the processor receives d, and perhaps emits.
LEMMA TrackReceive ==
  ASSUME TypeOK, TrackInv, NEW d \in Datapoints, Receive(d),
         \/ UNCHANGED emits
         \/ \E t \in outputs, a \in BOOLEAN : CallEmit(t, a)
  PROVE  TrackInv'
<1>1. TrackerHolds'
  <2>1. \A t \in Tags : d \in Range(Dispensed(Intake(tracker[t], d)))
    BY TrackerTypes DEF TypeOK
  <2>2. QED
    BY <2>1 DEF Receive, TrackerHolds
<1>2. NewestTracked'
  <2>1. CASE UNCHANGED emits
    BY <2>1 DEF TrackInv, NewestTracked, Gathered
  <2>2. ASSUME NEW t \in outputs, NEW a \in BOOLEAN, CallEmit(t, a) PROVE NewestTracked'
    BY <2>2, EmissionAdded DEF TypeOK, TrackInv, NewestTracked, Gathered
  <2>3. QED
    BY <2>1, <2>2
<1>3. QED
  BY <1>1, <1>2 DEF TrackInv

\* A step that receives nothing and dispenses nothing.
LEMMA TrackOfOthers ==
  ASSUME TypeOK, TrackInv, UNCHANGED <<read, tracker>>,
         \/ UNCHANGED emits
         \/ \E t \in outputs, a \in BOOLEAN : CallEmit(t, a)
  PROVE  TrackInv'
<1>1. TrackerHolds'
  BY DEF TrackInv, TrackerHolds
<1>2. NewestTracked'
  <2>1. CASE UNCHANGED emits
    BY <2>1 DEF TrackInv, NewestTracked, Gathered
  <2>2. ASSUME NEW t \in outputs, NEW a \in BOOLEAN, CallEmit(t, a) PROVE NewestTracked'
    BY <2>2, EmissionAdded DEF TypeOK, TrackInv, NewestTracked, Gathered
  <2>3. QED
    BY <2>1, <2>2
<1>3. QED
  BY <1>1, <1>2 DEF TrackInv

LEMMA TrackState ==
  ASSUME TypeOK, TrackInv, UNCHANGED <<read, tracker>>,
         NEW k \in DOMAIN emits, NEW s \in Pending \union Settled,
         emits' = [emits EXCEPT ![k].state = s],
         s = "gathering" \/ Gathered(k)
  PROVE  TrackInv'
<1>1. TrackerHolds'
  BY DEF TrackInv, TrackerHolds
<1>2. /\ DOMAIN emits' = DOMAIN emits
      /\ \A j \in DOMAIN emits :
           /\ emits'[j].state = IF j = k THEN s ELSE emits[j].state
           /\ emits'[j].parents = emits[j].parents /\ emits'[j].upTo = emits[j].upTo
  BY StateChanges
<1>3. NewestTracked'
  BY <1>2 DEF TrackInv, NewestTracked, Gathered
<1>4. QED
  BY <1>1, <1>3 DEF TrackInv

LEMMA TrackGather ==
  ASSUME TypeOK, TrackInv, NEW k \in DOMAIN emits, Gather(k)
  PROVE  TrackInv'
<1> DEFINE t == emits[k].tag
<1>1. t \in Tags /\ emits[k] \in EmissionRecords /\ \A u \in Tags : tracker[u] \in Trackers
  <2>1. emits[k] \in EmissionRecords
    BY DEF TypeOK
  <2>2. QED
    BY <2>1 DEF TypeOK, EmissionRecords
<1>2. /\ tracker' = [tracker EXCEPT ![t] = AfterDispense(tracker[t])] /\ read' = read
      /\ DOMAIN emits' = DOMAIN emits
      /\ \A j \in DOMAIN emits \ {k} : emits'[j] = emits[j]
  BY DEF Gather
<1>3. emits'[k].parents = Dispensed(tracker[t]) /\ emits'[k].upTo = read
  BY <1>1 DEF Gather, EmissionRecords
<1> HIDE DEF t
<1>4. TrackerHolds'
  <2> SUFFICES ASSUME read > 0, NEW u \in Tags PROVE read \in Range(Dispensed(tracker'[u]))
    BY <1>2 DEF TrackerHolds
  <2>1. read \in Range(Dispensed(tracker[u]))
    BY DEF TrackInv, TrackerHolds
  <2>2. CASE u = t
    <3>1. tracker'[u] = AfterDispense(tracker[u])
      BY <1>1, <1>2, <2>2 DEF TypeOK
    <3>2. QED
      BY <1>1, <2>1, <3>1, DispenseRepeats
  <2>3. CASE u # t
    BY <1>1, <1>2, <2>1, <2>3 DEF TypeOK
  <2>4. QED
    BY <2>2, <2>3
<1>5. NewestTracked'
  <2> SUFFICES ASSUME NEW j \in DOMAIN emits, Gathered(j)', emits'[j].upTo > 0
               PROVE  emits'[j].upTo \in Range(emits'[j].parents)
    BY <1>2 DEF NewestTracked
  <2>1. CASE j = k
    BY <1>1, <1>3, <2>1 DEF TrackInv, TrackerHolds
  <2>2. CASE j # k
    BY <1>2, <2>2 DEF TrackInv, NewestTracked, Gathered
  <2>3. QED
    BY <2>1, <2>2
<1>6. QED
  BY <1>4, <1>5 DEF TrackInv

LEMMA TrackInit == Init => TrackInv
<1> SUFFICES ASSUME Init PROVE TrackInv
  OBVIOUS
<1>1. DOMAIN emits = {} /\ read = 0
  BY DEF Init
<1>2. QED
  BY <1>1 DEF TrackInv, TrackerHolds, NewestTracked

LEMMA TrackNext == TypeOK /\ TrackInv /\ [Next]_vars => TrackInv'
<1> SUFFICES ASSUME TypeOK, TrackInv, [Next]_vars PROVE TrackInv'
  OBVIOUS
<1>1. ASSUME NEW k \in 1 .. Len(emits), EmissionStep(k) PROVE TrackInv'
  <2>1. k \in DOMAIN emits
    BY DEF TypeOK
  <2>2. CASE StartEmission(k)
    BY <2>1, <2>2, TrackState DEF StartEmission, Pending
  <2>3. CASE Gather(k)
    BY <2>1, <2>3, TrackGather
  <2>4. CASE CheckStream(k)
    <3>1. Gathered(k) /\ UNCHANGED <<read, tracker>>
      BY <2>4 DEF CheckStream, Gathered
    <3>2. \E s \in Pending \union Settled : emits' = [emits EXCEPT ![k].state = s]
      BY <2>4 DEF CheckStream, Settle, Pending, Settled
    <3>3. QED
      BY <2>1, <3>1, <3>2, TrackState
  <2>5. CASE Publish(k)
    <3>1. Gathered(k) /\ UNCHANGED <<read, tracker>>
      BY <2>5 DEF Publish, Gathered
    <3>2. \E s \in Pending \union Settled : emits' = [emits EXCEPT ![k].state = s]
      BY <2>5 DEF Publish, Settle, Pending, Settled
    <3>3. QED
      BY <2>1, <3>1, <3>2, TrackState
  <2>6. QED
    BY <1>1, <2>2, <2>3, <2>4, <2>5 DEF EmissionStep
<1>2. read < InputCount => read + 1 \in Datapoints
  BY JobAssumption DEF TypeOK, Datapoints
<1>3. CASE Read
  BY <1>2, <1>3, TrackReceive DEF Read
<1>4. CASE Deliver
  BY <1>2, <1>4, TrackReceive DEF Deliver
<1>5. CASE Subscribe \/ Emit \/ ReturnValue \/ Return \/ Throw \/ InputEnds
  BY <1>5, TrackOfOthers DEF Subscribe, Emit, ReturnValue, Return, Throw, InputEnds
<1>6. CASE JobStep
  BY <1>6, TrackOfOthers DEF JobStep, AppendRunning, Resume, ReturnedValueSettled,
     AppendCompleted, Linger, SignalOutputEnd, AppendFailed
<1>7. CASE UNCHANGED vars
  BY <1>7, TrackOfOthers DEF vars
<1>8. QED
  BY <1>1, <1>3, <1>4, <1>5, <1>6, <1>7 DEF Next, Processor

\* Every emission that gathered its parents derives from the newest datapoint
\* received by then.
THEOREM EmissionsTrackNewest == Spec => []NewestTracked
<1>1. Init => TypeOK /\ TrackInv
  BY TypeInit, TrackInit
<1>2. TypeOK /\ TrackInv /\ [Next]_vars => (TypeOK /\ TrackInv)'
  BY TypeNext, TrackNext
<1>3. TrackInv => NewestTracked
  BY DEF TrackInv
<1>4. QED
  BY <1>1, <1>2, <1>3, PTL DEF Spec
-----------------------------------------------------------------------------
(* The end of an output: what is settled by then, and what is recorded *)

\* An output has ended when its end is no longer to be signalled; once.
EndTags ==
  /\ \A t \in Tags : Ended(t) <=> t \in outputs \ toEnd
  /\ \A t \in Tags : \A i, j \in DOMAIN outLog[t] :
       outLog[t][i] = End /\ outLog[t][j] = End => i = j

\* Where the job is says what it has recorded.
Phase ==
  /\ "failed" \in Range(statuses) => pc \in {"done", "crashed"} /\ toEnd # {}
  /\ toEnd = {} => pc \in {"done", "crashed"}
  /\ toEnd # outputs => pc \in {"ending", "failing", "done", "rejected", "crashed"}
  /\ pc \in {"lingering", "ending"} \/ toEnd # outputs => "completed" \in Range(statuses)

\* One awaited emission at a time is unsettled; none after the processor; and
\* none the job lingered for when the first end is signalled.
AwaitedSettle ==
  /\ pc \in {"starting", "processing", "returning"} =>
       \A k \in DOMAIN emits : emits[k].awaited => IsSettled(k) \/ k = waiting
  /\ pc \in {"completing", "lingering"} =>
       \A k \in DOMAIN emits : emits[k].awaited => IsSettled(k)
  /\ pc = "ending" \/ toEnd # outputs =>
       \A k \in DOMAIN emits : k <= waiting \/ emits[k].awaited => IsSettled(k)

SentAppear ==
  \A k \in DOMAIN emits : emits[k].state = "sent" =>
    \E i \in DOMAIN outLog[emits[k].tag] : outLog[emits[k].tag][i] = k

EndInv == EndTags /\ Phase /\ AwaitedSettle /\ SentAppear /\ EndAfterStarted

LEMMA StatusAdded ==
  ASSUME TypeOK, NEW s \in {"running", "completed", "failed"}, statuses' = Append(statuses, s)
  PROVE  \A x : x \in Range(statuses') <=> x \in Range(statuses) \/ x = s
<1>1. statuses \in Seq({"running", "completed", "failed"}) /\ Len(statuses) \in Nat
  BY DEF TypeOK
<1>2. /\ Len(statuses') = Len(statuses) + 1
      /\ \A i \in 1 .. Len(statuses) : statuses'[i] = statuses[i]
      /\ statuses'[Len(statuses) + 1] = s
  BY <1>1, AppendProperties
<1>3. DOMAIN statuses = 1 .. Len(statuses) /\ DOMAIN statuses' = 1 .. Len(statuses) + 1
  BY <1>1, <1>2
<1>4. \A x : x \in Range(statuses') <=> \E i \in 1 .. Len(statuses) + 1 : x = statuses'[i]
  BY <1>3 DEF Range
<1>5. \A x : x \in Range(statuses) <=> \E i \in 1 .. Len(statuses) : x = statuses[i]
  BY <1>3 DEF Range
<1>6. \A i \in 1 .. Len(statuses) + 1 : i \in 1 .. Len(statuses) \/ i = Len(statuses) + 1
  BY <1>1
<1>7. Len(statuses) + 1 \in 1 .. Len(statuses) + 1 /\ \A i \in 1 .. Len(statuses) : i \in 1 .. Len(statuses) + 1
  BY <1>1
<1>8. QED
  BY <1>2, <1>4, <1>5, <1>6, <1>7

LEMMA EndInit == Init => EndInv
<1> SUFFICES ASSUME Init PROVE EndInv
  OBVIOUS
<1>1. DOMAIN emits = {} /\ Range(statuses) = {} /\ \A t \in Tags : DOMAIN outLog[t] = {}
  BY DEF Init, Range
<1>2. toEnd = outputs /\ outputs # {} /\ pc = "starting"
  BY DEF Init
<1>3. EndTags /\ EndAfterStarted
  BY <1>1, <1>2 DEF EndTags, EndAfterStarted, Ended, Range
<1>4. Phase /\ AwaitedSettle /\ SentAppear
  BY <1>1, <1>2 DEF Phase, AwaitedSettle, SentAppear
<1>5. QED
  BY <1>3, <1>4 DEF EndInv

\* A step that ends no output and settles nothing; it may call emit, after the
\* first end only without awaiting.
LEMMA EndOfOthers ==
  ASSUME TypeOK, EndInv, UNCHANGED <<outLog, toEnd, outputs>>,
         \/ UNCHANGED emits
         \/ \E t \in outputs, a \in BOOLEAN :
              CallEmit(t, a) /\ (toEnd # outputs => a = FALSE),
         toEnd # outputs => UNCHANGED waiting
  PROVE  EndTags' /\ SentAppear' /\ EndAfterStarted'
<1>1. EndTags'
  BY DEF EndInv, EndTags, Ended
<1>2. /\ DOMAIN emits = 1 .. Len(emits) /\ Len(emits) \in Nat /\ waiting <= Len(emits) /\ waiting \in Nat
      /\ \A t \in Tags : \A i \in DOMAIN outLog[t] : outLog[t][i] = End => toEnd # outputs
  <2>1. \A t \in Tags : \A i \in DOMAIN outLog[t] : outLog[t][i] = End => Ended(t)
    BY DEF Ended, Range
  <2> QED BY <2>1 DEF EndInv, EndTags, TypeOK
<1>3. CASE UNCHANGED emits
  BY <1>1, <1>2, <1>3 DEF EndInv, SentAppear, EndAfterStarted, IsSettled, Before
<1>4. ASSUME NEW t \in outputs, NEW a \in BOOLEAN, CallEmit(t, a), toEnd # outputs => a = FALSE
      PROVE  SentAppear' /\ EndAfterStarted'
  <2>1. /\ DOMAIN emits' = DOMAIN emits \union {Len(emits) + 1}
        /\ \A j \in DOMAIN emits : emits'[j] = emits[j]
        /\ emits'[Len(emits) + 1].state = "queued"
    BY <1>4, EmissionAdded DEF TypeOK
  <2>2. emits'[Len(emits) + 1].awaited = a
    <3>1. emits' = Append(emits, Emission(t, a)) /\ Emission(t, a).awaited = a
      BY <1>4 DEF CallEmit, Emission
    <3>2. Emission(t, a) \in EmissionRecords
      BY JobAssumption DEF Emission, EmissionRecords, Pending, TypeOK
    <3>3. emits \in Seq(EmissionRecords)
      BY DEF TypeOK
    <3>4. emits'[Len(emits) + 1] = Emission(t, a)
      BY <3>1, <3>2, <3>3, AppendProperties
    <3> QED BY <3>1, <3>4
  <2>3. SentAppear'
    BY <1>2, <2>1 DEF EndInv, SentAppear
  <2>4. ASSUME NEW u \in Tags, NEW i \in DOMAIN outLog[u], outLog[u][i] = End,
               NEW k \in DOMAIN emits', k <= waiting \/ emits'[k].awaited
        PROVE  /\ emits'[k].state \in Settled
               /\ emits'[k].tag = u /\ emits'[k].state = "sent" => k \in Before(outLog[u], i)
    <3>1. k \in DOMAIN emits
      BY <1>2, <1>4, <2>1, <2>2, <2>4
    <3> QED BY <2>1, <2>4, <3>1 DEF EndInv, EndAfterStarted, IsSettled
  <2>5. EndAfterStarted'
    <3>1. toEnd # outputs => waiting' = waiting
      OBVIOUS
    <3> QED BY <1>2, <2>4, <3>1 DEF EndAfterStarted, IsSettled, Before
  <2> QED BY <2>3, <2>5
<1>5. QED
  BY <1>1, <1>3, <1>4
\* What a step of an emission changes.
LEMMA EmissionShape ==
  ASSUME TypeOK, NEW k \in DOMAIN emits, EmissionStep(k)
  PROVE  /\ DOMAIN emits' = DOMAIN emits /\ ~IsSettled(k)
         /\ \A j \in DOMAIN emits : /\ emits'[j].tag = emits[j].tag
                                    /\ emits'[j].awaited = emits[j].awaited
                                    /\ j # k => emits'[j].state = emits[j].state
         /\ pc' \in {pc, "crashed"} /\ UNCHANGED <<waiting, statuses, toEnd, outputs>>
         /\ \/ emits'[k].state # "sent" /\ UNCHANGED outLog
            \/ outLog' = [outLog EXCEPT ![emits[k].tag] = Append(@, k)]
<1>1. emits \in Seq(EmissionRecords) /\ emits[k] \in EmissionRecords
  BY DEF TypeOK
<1>2. CASE StartEmission(k)
  <2>1. emits' = [emits EXCEPT ![k].state = "gathering"] /\ "gathering" \in Pending \union Settled
    BY <1>2 DEF StartEmission, Pending
  <2> QED BY <1>2, <2>1, StateChanges DEF StartEmission, IsSettled, Settled
<1>3. CASE Gather(k)
  <2>1. emits' = [emits EXCEPT ![k].state = "sending",
                               ![k].parents = Dispensed(tracker[emits[k].tag]), ![k].upTo = read]
    BY <1>3 DEF Gather
  <2>2. /\ DOMAIN emits' = DOMAIN emits /\ \A j \in DOMAIN emits \ {k} : emits'[j] = emits[j]
        /\ emits'[k].state = "sending" /\ emits'[k].tag = emits[k].tag
        /\ emits'[k].awaited = emits[k].awaited
    BY <1>1, <2>1 DEF EmissionRecords
  <2> QED BY <1>3, <2>2 DEF Gather, IsSettled, Settled
<1>4. CASE CheckStream(k)
  <2>1. PICK s \in {"rejected", "publishing"} : emits' = [emits EXCEPT ![k].state = s]
    BY <1>4 DEF CheckStream, Settle
  <2>2. s \in Pending \union Settled
    BY DEF Pending, Settled
  <2>3. pc' \in {pc, "crashed"} /\ emits[k].state = "sending"
        /\ UNCHANGED <<outLog, waiting, statuses, toEnd, outputs>>
    BY <1>4 DEF CheckStream, Settle
  <2>4. /\ DOMAIN emits' = DOMAIN emits
        /\ \A j \in DOMAIN emits :
             /\ emits'[j].state = IF j = k THEN s ELSE emits[j].state
             /\ emits'[j].tag = emits[j].tag /\ emits'[j].awaited = emits[j].awaited
    BY <2>1, <2>2, StateChanges
  <2>5. ~IsSettled(k) /\ s # "sent"
    BY <2>3 DEF IsSettled, Settled
  <2> QED BY <2>3, <2>4, <2>5
<1>5. CASE Publish(k)
  <2>1. PICK s \in {"rejected", "sent"} :
          /\ emits' = [emits EXCEPT ![k].state = s]
          /\ \/ s = "rejected" /\ UNCHANGED outLog
             \/ outLog' = [outLog EXCEPT ![emits[k].tag] = Append(@, k)]
    BY <1>5 DEF Publish, Settle
  <2>2. s \in Pending \union Settled
    BY DEF Settled
  <2>3. pc' \in {pc, "crashed"} /\ emits[k].state = "publishing"
        /\ UNCHANGED <<waiting, statuses, toEnd, outputs>>
    BY <1>5 DEF Publish, Settle
  <2>4. /\ DOMAIN emits' = DOMAIN emits
        /\ \A j \in DOMAIN emits :
             /\ emits'[j].state = IF j = k THEN s ELSE emits[j].state
             /\ emits'[j].tag = emits[j].tag /\ emits'[j].awaited = emits[j].awaited
    BY <2>1, <2>2, StateChanges
  <2>5. ~IsSettled(k)
    BY <2>3 DEF IsSettled, Settled
  <2> QED BY <2>1, <2>3, <2>4, <2>5
<1>6. QED
  BY <1>2, <1>3, <1>4, <1>5 DEF EmissionStep

\* A message that is added to an output.
LEMMA LogOfAdded ==
  ASSUME TypeOK, NEW t \in Tags, NEW m \in {End} \union Emissions,
         outLog' = [outLog EXCEPT ![t] = Append(@, m)]
  PROVE  /\ \A u \in Tags : \A i \in DOMAIN outLog[u] :
              i \in DOMAIN outLog'[u] /\ outLog'[u][i] = outLog[u][i]
         /\ \A u \in Tags : \A i \in DOMAIN outLog'[u] :
              \/ i \in DOMAIN outLog[u]
              \/ u = t /\ i = Len(outLog[t]) + 1 /\ outLog'[t][i] = m
                 /\ \A j \in DOMAIN outLog[t] : j \in 1 .. i - 1
         /\ Len(outLog[t]) + 1 \in DOMAIN outLog'[t] /\ outLog'[t][Len(outLog[t]) + 1] = m
<1>1. /\ \A u \in Tags \ {t} : outLog'[u] = outLog[u]
      /\ DOMAIN outLog[t] = 1 .. Len(outLog[t]) /\ Len(outLog[t]) \in Nat
      /\ DOMAIN outLog'[t] = 1 .. Len(outLog[t]) + 1
      /\ \A i \in 1 .. Len(outLog[t]) : outLog'[t][i] = outLog[t][i]
      /\ outLog'[t][Len(outLog[t]) + 1] = m
  BY MessageAdded
<1>2. \A i \in 1 .. Len(outLog[t]) + 1 : i \in 1 .. Len(outLog[t]) \/ i = Len(outLog[t]) + 1
  BY <1>1
<1>3. \A j \in DOMAIN outLog[t] : j \in 1 .. (Len(outLog[t]) + 1) - 1 /\ j \in DOMAIN outLog'[t]
  BY <1>1
<1> QED BY <1>1, <1>2, <1>3

LEMMA EndOfEmission ==
  ASSUME TypeOK, OrderInv, EndInv, NEW k \in DOMAIN emits, EmissionStep(k)
  PROVE  EndInv'
<1>1. DOMAIN emits = 1 .. Len(emits) /\ Len(emits) \in Nat /\ k # End /\ k \in Emissions /\ emits[k].tag \in Tags
  <2>1. emits[k] \in EmissionRecords /\ Len(emits) \in Nat /\ Len(emits) <= EmitBound
        /\ DOMAIN emits = 1 .. Len(emits)
    BY DEF TypeOK
  <2> QED BY <2>1, JobAssumption DEF EmissionRecords, Emissions, End
<1>2. /\ DOMAIN emits' = DOMAIN emits /\ ~IsSettled(k)
      /\ \A j \in DOMAIN emits : /\ emits'[j].tag = emits[j].tag
                                 /\ emits'[j].awaited = emits[j].awaited
                                 /\ j # k => emits'[j].state = emits[j].state
      /\ pc' \in {pc, "crashed"} /\ UNCHANGED <<waiting, statuses, toEnd, outputs>>
      /\ \/ emits'[k].state # "sent" /\ UNCHANGED outLog
         \/ outLog' = [outLog EXCEPT ![emits[k].tag] = Append(@, k)]
  BY EmissionShape
<1>3. /\ \A u \in Tags : \A i \in DOMAIN outLog[u] :
           i \in DOMAIN outLog'[u] /\ outLog'[u][i] = outLog[u][i]
      /\ \A u \in Tags : \A i \in DOMAIN outLog'[u] :
           i \in DOMAIN outLog[u] \/ outLog'[u][i] = k
      /\ emits'[k].state = "sent" =>
           \E i \in DOMAIN outLog'[emits[k].tag] : outLog'[emits[k].tag][i] = k
  <2>1. CASE emits'[k].state # "sent" /\ UNCHANGED outLog
    BY <2>1
  <2>2. CASE outLog' = [outLog EXCEPT ![emits[k].tag] = Append(@, k)]
    <3> DEFINE t == emits[k].tag
    <3>1. t \in Tags /\ k \in {End} \union Emissions /\ outLog' = [outLog EXCEPT ![t] = Append(@, k)]
      BY <1>1, <2>2
    <3> HIDE DEF t
    <3>2. /\ \A u \in Tags : \A i \in DOMAIN outLog[u] :
               i \in DOMAIN outLog'[u] /\ outLog'[u][i] = outLog[u][i]
          /\ \A u \in Tags : \A i \in DOMAIN outLog'[u] :
               \/ i \in DOMAIN outLog[u]
               \/ u = t /\ i = Len(outLog[t]) + 1 /\ outLog'[t][i] = k
                  /\ \A j \in DOMAIN outLog[t] : j \in 1 .. i - 1
          /\ Len(outLog[t]) + 1 \in DOMAIN outLog'[t] /\ outLog'[t][Len(outLog[t]) + 1] = k
      BY <3>1, LogOfAdded
    <3> QED BY <3>2 DEF t
  <2> QED BY <1>2, <2>1, <2>2
<1>4. \A j \in DOMAIN emits : IsSettled(j) => j # k /\ IsSettled(j)' /\ emits'[j].state = emits[j].state
  BY <1>2 DEF IsSettled
<1>5. EndTags'
  <2>1. \A t \in Tags : Ended(t)' <=> Ended(t)
    <3>1. \A t \in Tags : Ended(t) <=> \E i \in DOMAIN outLog[t] : outLog[t][i] = End
      BY DEF Ended, Range
    <3>2. \A t \in Tags : Ended(t)' <=> \E i \in DOMAIN outLog'[t] : outLog'[t][i] = End
      BY DEF Ended, Range
    <3> QED BY <1>1, <1>3, <3>1, <3>2
  <2>2. \A t \in Tags : \A i \in DOMAIN outLog'[t] :
          outLog'[t][i] = End => i \in DOMAIN outLog[t] /\ outLog[t][i] = End
    BY <1>1, <1>3
  <2> QED BY <1>2, <2>1, <2>2 DEF EndInv, EndTags
<1>6. Phase'
  BY <1>2 DEF EndInv, Phase
<1>7. AwaitedSettle'
  BY <1>2, <1>4 DEF EndInv, AwaitedSettle
<1>8. SentAppear'
  <2> SUFFICES ASSUME NEW j \in DOMAIN emits, emits'[j].state = "sent"
               PROVE  \E i \in DOMAIN outLog'[emits[j].tag] : outLog'[emits[j].tag][i] = j
    BY <1>2 DEF SentAppear
  <2>1. CASE j = k
    BY <1>3, <2>1
  <2>2. CASE j # k
    <3>1. emits[j].tag \in Tags
      <4>1. emits[j] \in EmissionRecords
        BY DEF TypeOK
      <4> QED BY <4>1 DEF EmissionRecords
    <3> QED BY <1>2, <1>3, <2>2, <3>1 DEF EndInv, SentAppear
  <2> QED BY <2>1, <2>2
<1>9. EndAfterStarted'
  <2> SUFFICES ASSUME NEW t \in Tags, NEW i \in DOMAIN outLog'[t], outLog'[t][i] = End,
                      NEW j \in DOMAIN emits, j <= waiting \/ emits[j].awaited
               PROVE  /\ IsSettled(j)'
                      /\ emits'[j].tag = t /\ emits'[j].state = "sent" =>
                           j \in Before(outLog[t], i)'
    BY <1>2 DEF EndAfterStarted
  <2>1. i \in DOMAIN outLog[t] /\ outLog[t][i] = End
    BY <1>1, <1>3
  <2>2. /\ IsSettled(j)
        /\ emits[j].tag = t /\ emits[j].state = "sent" => j \in Before(outLog[t], i)
    BY <2>1 DEF EndInv, EndAfterStarted
  <2>3. \A x : x \in Before(outLog[t], i) => x \in Before(outLog[t], i)'
    <3>1. \A l \in 1 .. i - 1 : l \in DOMAIN outLog[t] /\ outLog'[t][l] = outLog[t][l]
      <4>1. outLog[t] \in Seq({End} \union Emissions)
        BY DEF TypeOK
      <4> QED BY <1>3, <2>1, <4>1
    <3> QED BY <3>1 DEF Before
  <2> QED BY <1>2, <1>4, <2>2, <2>3
<1>10. QED
  BY <1>5, <1>6, <1>7, <1>8, <1>9 DEF EndInv

\* The end of an output is published when what it waits for is settled.
LEMMA EndOfSignal ==
  ASSUME TypeOK, OrderInv, EndInv, NEW t \in Tags, pc = "ending", t \in toEnd,
         UNCHANGED <<emits, waiting, statuses, outputs>>,
         outLog' = [outLog EXCEPT ![t] = Append(@, End)], toEnd' = toEnd \ {t},
         pc' = IF toEnd' = {} THEN "done" ELSE "ending"
  PROVE  EndInv'
<1>1. /\ \A u \in Tags : \A i \in DOMAIN outLog[u] :
           i \in DOMAIN outLog'[u] /\ outLog'[u][i] = outLog[u][i]
      /\ \A u \in Tags : \A i \in DOMAIN outLog'[u] :
           \/ i \in DOMAIN outLog[u]
           \/ u = t /\ i = Len(outLog[t]) + 1 /\ outLog'[t][i] = End
              /\ \A j \in DOMAIN outLog[t] : j \in 1 .. i - 1
      /\ Len(outLog[t]) + 1 \in DOMAIN outLog'[t] /\ outLog'[t][Len(outLog[t]) + 1] = End
  BY LogOfAdded
<1>2. toEnd \subseteq outputs /\ t \in outputs /\ toEnd' # outputs
  BY DEF TypeOK
<1>3. /\ \A u \in Tags : Ended(u) <=> \E i \in DOMAIN outLog[u] : outLog[u][i] = End
      /\ \A u \in Tags : Ended(u)' <=> \E i \in DOMAIN outLog'[u] : outLog'[u][i] = End
  BY DEF Ended, Range
<1>4. ~Ended(t)
  BY DEF EndInv, EndTags
<1>5. EndTags'
  <2>1. \A u \in Tags : Ended(u)' <=> u = t \/ Ended(u)
    BY <1>1, <1>3
  <2>2. \A u \in Tags : \A i, j \in DOMAIN outLog'[u] :
          outLog'[u][i] = End /\ outLog'[u][j] = End => i = j
    BY <1>1, <1>3, <1>4 DEF EndInv, EndTags
  <2> QED BY <1>2, <2>1, <2>2 DEF EndInv, EndTags
<1>6. Phase' /\ AwaitedSettle'
  BY <1>2 DEF EndInv, Phase, AwaitedSettle, IsSettled
<1>7. \A j \in DOMAIN emits : emits[j].tag \in Tags
  <2>1. \A j \in DOMAIN emits : emits[j] \in EmissionRecords
    BY DEF TypeOK
  <2> QED BY <2>1 DEF EmissionRecords
<1>8. SentAppear'
  BY <1>1, <1>7 DEF EndInv, SentAppear
<1>9. EndAfterStarted'
  <2> SUFFICES ASSUME NEW u \in Tags, NEW i \in DOMAIN outLog'[u], outLog'[u][i] = End,
                      NEW j \in DOMAIN emits, j <= waiting \/ emits[j].awaited
               PROVE  /\ IsSettled(j)
                      /\ emits[j].tag = u /\ emits[j].state = "sent" => j \in Before(outLog[u], i)'
    BY DEF EndAfterStarted, IsSettled
  <2>1. IsSettled(j)
    BY DEF EndInv, AwaitedSettle
  <2>2. ASSUME emits[j].tag = u, emits[j].state = "sent" PROVE j \in Before(outLog[u], i)'
    <3>1. CASE i \in DOMAIN outLog[u]
      <4>1. outLog[u][i] = End
        BY <1>1, <3>1
      <4>2. j \in Before(outLog[u], i)
        BY <2>2, <3>1, <4>1 DEF EndInv, EndAfterStarted
      <4>3. \A l \in 1 .. i - 1 : outLog'[u][l] = outLog[u][l]
        <5>1. outLog[u] \in Seq({End} \union Emissions)
          BY DEF TypeOK
        <5> QED BY <1>1, <3>1, <5>1
      <4> QED BY <4>2, <4>3 DEF Before
    <3>2. CASE i \notin DOMAIN outLog[u]
      <4>1. u = t /\ \A l \in DOMAIN outLog[t] : l \in 1 .. i - 1
        BY <1>1, <3>2
      <4>2. PICK l \in DOMAIN outLog[u] : outLog[u][l] = j
        BY <2>2 DEF EndInv, SentAppear
      <4>3. l \in 1 .. i - 1 /\ outLog'[u][l] = j
        BY <1>1, <4>1, <4>2
      <4> QED BY <4>3 DEF Before
    <3> QED BY <3>1, <3>2
  <2> QED BY <2>1, <2>2
<1> QED BY <1>5, <1>6, <1>8, <1>9 DEF EndInv

\* Steps of the processor and of its subscription.
LEMMA EndOfProcessor ==
  ASSUME TypeOK, EndInv, Processor \/ Deliver \/ InputEnds
  PROVE  EndInv'
<1>1. UNCHANGED <<outLog, toEnd, outputs, statuses>>
  BY DEF Processor, Read, Subscribe, Emit, ReturnValue, Return, Throw, Deliver, InputEnds
<1>2. Processor => pc = "processing" /\ waiting = 0 /\ toEnd = outputs
  BY DEF Processor, Read, Subscribe, Emit, ReturnValue, Return, Throw, Running, EndInv, Phase
<1>3. DOMAIN emits = 1 .. Len(emits) /\ Len(emits) \in Nat /\ waiting \in 0 .. Len(emits)
      /\ outputs \subseteq Tags
  BY DEF TypeOK
<1>4. \/ UNCHANGED emits
      \/ \E t \in outputs, a \in BOOLEAN : CallEmit(t, a) /\ (toEnd # outputs => a = FALSE)
  BY <1>2 DEF Processor, Read, Subscribe, Emit, ReturnValue, Return, Throw, Deliver, InputEnds
<1>5. toEnd # outputs => UNCHANGED waiting
  BY <1>2 DEF Deliver, InputEnds
<1>6. EndTags' /\ SentAppear' /\ EndAfterStarted'
  BY <1>1, <1>4, <1>5, EndOfOthers
<1>7. ASSUME NEW t \in outputs, NEW a \in BOOLEAN, CallEmit(t, a)
      PROVE  /\ DOMAIN emits' = DOMAIN emits \union {Len(emits) + 1}
             /\ \A j \in DOMAIN emits : emits'[j] = emits[j]
             /\ emits'[Len(emits) + 1].awaited = a
  <2>1. emits' = Append(emits, Emission(t, a)) /\ Emission(t, a).awaited = a
    BY <1>7 DEF CallEmit, Emission
  <2>2. Emission(t, a) \in EmissionRecords
    BY <1>3, JobAssumption DEF Emission, EmissionRecords, Pending
  <2>3. emits \in Seq(EmissionRecords)
    BY DEF TypeOK
  <2>4. emits'[Len(emits) + 1] = Emission(t, a)
    BY <2>1, <2>2, <2>3, AppendProperties
  <2>5. t \in Tags
    BY <1>3
  <2> QED BY <1>7, <2>1, <2>4, <2>5, EmissionAdded
<1>8. Phase'
  BY <1>1, <1>2 DEF Processor, Read, Subscribe, Emit, ReturnValue, Return, Throw, Deliver, InputEnds,
     EndInv, Phase
<1>9. AwaitedSettle'
  <2>1. CASE UNCHANGED <<emits, waiting>> /\ pc' \in {pc, "failing"}
    BY <1>1, <2>1 DEF EndInv, AwaitedSettle, IsSettled
  <2>2. CASE Return
    <3>1. pc' = "completing" /\ UNCHANGED <<emits, waiting>> /\ waiting = 0 /\ pc = "processing"
          /\ toEnd = outputs
      BY <1>2, <2>2 DEF Return, Processor
    <3> QED BY <1>1, <1>3, <3>1 DEF EndInv, AwaitedSettle, IsSettled
  <2>3. CASE Emit \/ ReturnValue
    <3>1. PICK t \in outputs, a \in BOOLEAN : CallEmit(t, a) /\ (a => waiting' = Len(emits) + 1)
      BY <2>3 DEF Emit, ReturnValue
    <3>2. pc' \in {"processing", "returning"} /\ toEnd = outputs /\ waiting = 0 /\ pc = "processing"
      BY <1>2, <2>3 DEF Emit, ReturnValue, Processor, Running
    <3>3. \A k \in DOMAIN emits' : emits'[k].awaited => IsSettled(k)' \/ k = waiting'
      BY <1>3, <1>7, <3>1, <3>2 DEF EndInv, AwaitedSettle, IsSettled
    <3> QED BY <1>1, <3>2, <3>3 DEF AwaitedSettle
  <2>4. CASE Deliver
    <3>1. UNCHANGED <<pc, waiting>> /\ (UNCHANGED emits \/ \E t \in outputs : CallEmit(t, FALSE))
      BY <2>4 DEF Deliver
    <3>2. CASE \E t \in outputs : CallEmit(t, FALSE)
      <4>1. PICK t \in outputs : CallEmit(t, FALSE)
        BY <3>2
      <4>2. /\ DOMAIN emits' = DOMAIN emits \union {Len(emits) + 1}
            /\ \A j \in DOMAIN emits : emits'[j] = emits[j]
            /\ emits'[Len(emits) + 1].awaited = FALSE
        BY <1>7, <4>1
      <4>3. \A k \in DOMAIN emits' : k <= waiting' \/ emits'[k].awaited =>
              k \in DOMAIN emits /\ emits'[k] = emits[k]
        BY <1>3, <3>1, <4>2
      <4> QED BY <1>1, <3>1, <4>3 DEF EndInv, AwaitedSettle, IsSettled
    <3> QED BY <2>1, <3>1, <3>2
  <2> QED BY <2>1, <2>2, <2>3, <2>4 DEF Processor, Read, Subscribe, Throw, InputEnds
<1> QED BY <1>6, <1>8, <1>9 DEF EndInv

\* Steps of beginProcessing around the processor.
LEMMA EndOfJob ==
  ASSUME TypeOK, OrderInv, EndInv, JobStep
  PROVE  EndInv'
<1>1. DOMAIN emits = 1 .. Len(emits) /\ Len(emits) \in Nat /\ waiting \in 0 .. Len(emits)
  BY DEF TypeOK
<1>2. ASSUME UNCHANGED <<emits, outLog, toEnd, outputs>>, toEnd # outputs => UNCHANGED waiting,
             Phase', AwaitedSettle'
      PROVE  EndInv'
  BY <1>2, EndOfOthers DEF EndInv
<1>3. CASE AppendRunning
  <2>1. /\ pc = "starting" /\ UNCHANGED <<emits, outLog, toEnd, outputs, waiting>>
        /\ \/ statuses' = Append(statuses, "running") /\ pc' = "processing"
           \/ UNCHANGED statuses /\ pc' = "failing"
    BY <1>3 DEF AppendRunning, Record
  <2>2. Phase'
    BY <2>1, StatusAdded DEF EndInv, Phase
  <2>3. AwaitedSettle'
    BY <2>1 DEF EndInv, Phase, AwaitedSettle, IsSettled
  <2> QED BY <1>2, <2>1, <2>2, <2>3
<1>4. CASE Resume
  <2>1. /\ pc = "processing" /\ waiting # 0 /\ IsSettled(waiting) /\ waiting' = 0
        /\ pc' \in {"processing", "failing"}
        /\ UNCHANGED <<emits, outLog, toEnd, outputs, statuses>>
    BY <1>4 DEF Resume
  <2>2. Phase' /\ toEnd = outputs
    BY <2>1 DEF EndInv, Phase
  <2>3. AwaitedSettle'
    BY <2>1, <2>2 DEF EndInv, AwaitedSettle, IsSettled
  <2> QED BY <1>2, <2>1, <2>2, <2>3
<1>5. CASE ReturnedValueSettled
  <2>1. /\ pc = "returning" /\ IsSettled(waiting) /\ pc' \in {"completing", "failing"}
        /\ UNCHANGED <<emits, outLog, toEnd, outputs, waiting, statuses>>
    BY <1>5 DEF ReturnedValueSettled
  <2>2. Phase' /\ toEnd = outputs
    BY <2>1 DEF EndInv, Phase
  <2>3. AwaitedSettle'
    BY <2>1, <2>2 DEF EndInv, AwaitedSettle, IsSettled
  <2> QED BY <1>2, <2>1, <2>2, <2>3
<1>6. CASE AppendCompleted
  <2>1. /\ pc = "completing" /\ UNCHANGED <<emits, outLog, toEnd, outputs>>
        /\ \/ statuses' = Append(statuses, "completed") /\ pc' = "lingering"
           \/ UNCHANGED statuses /\ pc' = "failing"
    BY <1>6 DEF AppendCompleted, Record
  <2>2. Phase' /\ toEnd = outputs
    BY <2>1, StatusAdded DEF EndInv, Phase
  <2>3. AwaitedSettle'
    BY <2>1, <2>2 DEF EndInv, AwaitedSettle, IsSettled
  <2> QED BY <1>2, <2>1, <2>2, <2>3
<1>7. CASE Linger
  <2>1. /\ pc = "lingering" /\ (waiting # 0 => IsSettled(waiting)) /\ pc' \in {"ending", "failing"}
        /\ UNCHANGED <<emits, outLog, toEnd, outputs, waiting, statuses>>
    BY <1>7 DEF Linger
  <2>2. Phase' /\ toEnd = outputs
    BY <2>1 DEF EndInv, Phase
  <2>3. \A k \in DOMAIN emits : k <= waiting => IsSettled(k)
    <3>1. waiting # 0 => waiting \in DOMAIN emits /\ emits[waiting].state # "queued"
      BY <1>1, <2>1 DEF IsSettled, Settled
    <3> QED BY <1>1, <2>1, <3>1 DEF OrderInv, InTurn
  <2>4. AwaitedSettle'
    BY <2>1, <2>2, <2>3 DEF EndInv, AwaitedSettle, IsSettled
  <2> QED BY <1>2, <2>1, <2>2, <2>4
<1>8. ASSUME NEW t \in Tags, SignalOutputEnd(t) PROVE EndInv'
  <2>1. /\ pc = "ending" /\ t \in toEnd /\ UNCHANGED <<emits, waiting, statuses, outputs>>
        /\ \/ /\ outLog' = [outLog EXCEPT ![t] = Append(@, End)] /\ toEnd' = toEnd \ {t}
              /\ pc' = IF toEnd' = {} THEN "done" ELSE "ending"
           \/ pc' = "failing" /\ UNCHANGED <<outLog, toEnd>>
    BY <1>8 DEF SignalOutputEnd
  <2>2. CASE pc' = "failing" /\ UNCHANGED <<outLog, toEnd>>
    <3>1. Phase' /\ AwaitedSettle'
      BY <2>1, <2>2 DEF EndInv, Phase, AwaitedSettle, IsSettled
    <3> QED BY <1>2, <2>1, <2>2, <3>1
  <2> QED BY <2>1, <2>2, EndOfSignal
<1>9. CASE AppendFailed
  <2>1. /\ pc = "failing" /\ UNCHANGED <<emits, outLog, toEnd, outputs, waiting>>
        /\ \/ statuses' = Append(statuses, "failed") /\ pc' = "done"
           \/ UNCHANGED statuses /\ pc' = "rejected"
    BY <1>9 DEF AppendFailed
  <2>2. Phase'
    BY <2>1, StatusAdded DEF EndInv, Phase
  <2>3. AwaitedSettle'
    BY <2>1 DEF EndInv, AwaitedSettle, IsSettled
  <2> QED BY <1>2, <2>1, <2>2, <2>3
<1> QED BY <1>3, <1>4, <1>5, <1>6, <1>7, <1>8, <1>9 DEF JobStep

LEMMA EndNext == TypeOK /\ OrderInv /\ EndInv /\ [Next]_vars => EndInv'
<1> SUFFICES ASSUME TypeOK, OrderInv, EndInv, [Next]_vars PROVE EndInv'
  OBVIOUS
<1>1. ASSUME NEW k \in 1 .. Len(emits), EmissionStep(k) PROVE EndInv'
  <2>1. k \in DOMAIN emits
    BY DEF TypeOK
  <2> QED BY <1>1, <2>1, EndOfEmission
<1>2. CASE UNCHANGED vars
  <2>1. UNCHANGED <<pc, waiting, emits, outLog, statuses, toEnd, outputs>>
    BY <1>2 DEF vars
  <2>2. Phase' /\ AwaitedSettle'
    BY <2>1 DEF EndInv, Phase, AwaitedSettle, IsSettled
  <2> QED BY <2>1, <2>2, EndOfOthers DEF EndInv
<1> QED BY <1>1, <1>2, EndOfProcessor, EndOfJob DEF Next

\* A consumer that stops at the end of an output has missed nothing the job had
\* to wait for, and the job was completed and is never recorded as failed.
THEOREM EndsCleanly == Spec => []CleanEnd
<1>1. Init => TypeOK /\ OrderInv /\ EndInv
  BY TypeInit, OrderInit, EndInit
<1>2. TypeOK /\ OrderInv /\ EndInv /\ [Next]_vars => (TypeOK /\ OrderInv /\ EndInv)'
  BY TypeNext, OrderNext, EndNext
<1>3. TypeOK /\ EndInv => CleanEnd
  <2> SUFFICES ASSUME TypeOK, EndInv PROVE CleanEnd
    OBVIOUS
  <2>1. (\A t \in outputs : Ended(t)) => toEnd = {}
    BY DEF EndInv, EndTags, TypeOK
  <2>2. \A t \in Tags : Ended(t) => toEnd # outputs
    BY DEF EndInv, EndTags, TypeOK
  <2> QED BY <2>1, <2>2 DEF CleanEnd, EndAgreesWithStatus, EndInv, EndTags, Phase
<1>4. QED
  BY <1>1, <1>2, <1>3, PTL DEF Spec
=============================================================================
