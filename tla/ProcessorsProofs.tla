--------------------------- MODULE ProcessorsProofs ---------------------------
(* Proofs about what runs inside a processor.  PromiseCycle, for any payloads *)
(* and any number of pumps: type correctness, no lost wake-up, and that it    *)
(* implements LossyChannel.  ProgressiveTry and ParallelAttempt, for any      *)
(* number of attempts and inputs: whose result is the job's.  TextSplitter,   *)
(* for any chunk and input sizes: that a document is emitted in order.        *)
EXTENDS MCProcessors, SequenceTheorems, FiniteSetTheorems, WellFoundedInduction, TLAPS

-----------------------------------------------------------------------------
(* The promise cycle *)

\* Pumps are started one after the other; only the newest can be suspended,
\* and it runs on into a result only while it is driven.
OneByOne ==
  /\ connected => newest # 0
  /\ \A p \in Pumps :
       /\ p > newest <=> pump[p] = "new"
       /\ pump[p] = "suspended" => Live(p)
       /\ pump[p] = "swallowed" => ~Live(p)

\* Nobody registers a resolver while results are queued or in hand.
ResolverMeansEmpty ==
  /\ resolve # 0 => promiseQueue = <<>>
  /\ InHand => resolve = 0

CycleInv == TypeOK /\ NoLostWakeup /\ OneByOne /\ ResolverMeansEmpty

-----------------------------------------------------------------------------
(* What Buffered does when a result is put in front or taken from there.   *)

LEMMA HeadOfConcat ==
  ASSUME NEW S, NEW x \in S, NEW q \in Seq(S)
  PROVE  /\ <<x>> \o q \in Seq(S) /\ <<x>> \o q # <<>>
         /\ Head(<<x>> \o q) = x /\ Tail(<<x>> \o q) = q
<1>1. <<x>> \in Seq(S) /\ Len(<<x>>) = 1
  OBVIOUS
<1>2. /\ <<x>> \o q \in Seq(S) /\ Len(<<x>> \o q) = 1 + Len(q)
      /\ \A i \in 1 .. 1 + Len(q) : (<<x>> \o q)[i] = IF i <= 1 THEN <<x>>[i] ELSE q[i - 1]
  BY <1>1, ConcatProperties
<1>3. Len(q) \in Nat
  OBVIOUS
<1>4. <<x>> \o q # <<>> /\ Head(<<x>> \o q) = x
  BY <1>2, <1>3
<1>5. /\ Tail(<<x>> \o q) \in Seq(S) /\ Len(Tail(<<x>> \o q)) = Len(q)
      /\ \A i \in 1 .. Len(q) : Tail(<<x>> \o q)[i] = (<<x>> \o q)[i + 1]
  BY <1>2, <1>3, <1>4, HeadTailProperties
<1>6. \A i \in 1 .. Len(q) : Tail(<<x>> \o q)[i] = q[i]
  BY <1>2, <1>3, <1>5
<1>7. Tail(<<x>> \o q) = q
  BY <1>5, <1>6, SeqEqual
<1>8. QED
  BY <1>2, <1>4, <1>7

LEMMA ConcatHeadTail ==
  ASSUME NEW S, NEW q \in Seq(S), q # <<>>
  PROVE  <<Head(q)>> \o Tail(q) = q
<1>1. Head(q) \in S /\ Tail(q) \in Seq(S) /\ <<Head(q)>> \in Seq(S) /\ Len(<<Head(q)>>) = 1
  OBVIOUS
<1>2. /\ Len(Tail(q)) = Len(q) - 1 /\ Len(q) \in Nat \ {0}
      /\ \A i \in 1 .. Len(q) - 1 : Tail(q)[i] = q[i + 1]
  BY HeadTailProperties
<1>3. /\ <<Head(q)>> \o Tail(q) \in Seq(S)
      /\ Len(<<Head(q)>> \o Tail(q)) = Len(q)
      /\ \A i \in 1 .. Len(q) : (<<Head(q)>> \o Tail(q))[i] =
           IF i <= 1 THEN <<Head(q)>>[i] ELSE Tail(q)[i - 1]
  BY <1>1, <1>2, ConcatProperties
<1>4. \A i \in 1 .. Len(q) : (<<Head(q)>> \o Tail(q))[i] = q[i]
  BY <1>2, <1>3
<1>5. QED
  BY <1>3, <1>4, SeqEqual

LEMMA AppendToConcat ==
  ASSUME NEW S, NEW x \in S, NEW q \in Seq(S), NEW r \in S
  PROVE  <<x>> \o Append(q, r) = Append(<<x>> \o q, r)
<1>1. <<x>> \in Seq(S) /\ <<r>> \in Seq(S) /\ <<x>> \o q \in Seq(S)
  BY HeadOfConcat
<1>2. Append(q, r) = q \o <<r>> /\ Append(<<x>> \o q, r) = (<<x>> \o q) \o <<r>>
  BY <1>1, AppendIsConcat
<1>3. QED
  BY <1>1, <1>2, ConcatAssociative

-----------------------------------------------------------------------------
LEMMA CycleInvInit == Init => CycleInv
<1> SUFFICES ASSUME Init PROVE CycleInv
  OBVIOUS
<1>1. TypeOK
  <2>1. promiseQueue \in Seq(Results) /\ delivered \in Seq(Results)
    BY DEF Init
  <2>2. pump \in [Pumps -> PumpStates] /\ \A p \in Pumps : pump[p] # "settled" /\ hand[p] = NoResult
    BY DEF Init, PumpStates
  <2>3. hand \in [Pumps -> Results \union {NoResult}]
    BY DEF Init
  <2>4. 0 \in 0 .. MaxFed
    BY CycleAssumption
  <2>5. resolve = 0 /\ newest = 0 /\ connected \in BOOLEAN /\ fed \in 0 .. MaxFed
    BY <2>4, Zenon DEF Init
  <2>6. QED
    BY <2>1, <2>2, <2>3, <2>5 DEF TypeOK
<1>2. NoLostWakeup /\ ResolverMeansEmpty
  BY DEF Init, NoLostWakeup, ResolverMeansEmpty, InHand, Live
<1>3. OneByOne
  BY CycleAssumption DEF Init, OneByOne, Live, Pumps
<1>4. QED
  BY <1>1, <1>2, <1>3 DEF CycleInv

LEMMA CycleInvNext == CycleInv /\ [Next]_vars => CycleInv'
<1> SUFFICES ASSUME CycleInv, [Next]_vars PROVE CycleInv'
  OBVIOUS
<1> USE CycleAssumption DEF CycleInv
<1>1. ASSUME NEW r \in Results, Feed(r) PROVE CycleInv'
  <2>1. TypeOK'
    <3>1. CASE resolve # 0
      <4>1. resolve \in Pumps /\ pump[resolve] = "awaiting" /\ r # NoResult
        BY <3>1 DEF TypeOK
      <4>2. /\ pump' = [pump EXCEPT ![resolve] = "settled"]
            /\ hand' = [hand EXCEPT ![resolve] = r]
            /\ resolve' = 0 /\ fed' \in 0 .. MaxFed
        BY <1>1, <3>1, <4>1 DEF Feed, SettlePromise, TypeOK
      <4>3. /\ pump' \in [Pumps -> PumpStates] /\ hand' \in [Pumps -> Results \union {NoResult}]
            /\ \A p \in Pumps : pump'[p] = "settled" <=> hand'[p] # NoResult
        BY <4>1, <4>2 DEF TypeOK, PumpStates
      <4>4. QED
        BY <1>1, <3>1, <4>2, <4>3 DEF Feed, TypeOK
    <3>2. CASE resolve = 0
      BY <1>1, <3>2 DEF TypeOK, Feed
    <3>3. QED
      BY <3>1, <3>2
  <2>2. NoLostWakeup' /\ ResolverMeansEmpty'
    <3>1. CASE resolve # 0
      BY <1>1, <3>1 DEF TypeOK, NoLostWakeup, ResolverMeansEmpty, InHand, Live, Feed, SettlePromise, Pumps
    <3>2. CASE resolve = 0
      BY <1>1, <3>2 DEF TypeOK, NoLostWakeup, ResolverMeansEmpty, InHand, Live, Feed, Pumps
    <3>3. QED
      BY <3>1, <3>2
  <2>3. OneByOne'
    BY <1>1 DEF TypeOK, OneByOne, Live, Feed, SettlePromise
  <2>4. QED
    BY <2>1, <2>2, <2>3
<1>2. CASE Iterate
  <2>1. newest' = newest + 1 /\ newest' \in Pumps /\ resolve # newest'
    BY <1>2 DEF Iterate, TypeOK, OneByOne, Pumps
  <2>2. \A p \in Pumps : pump'[p] = IF p = newest' THEN "suspended" ELSE pump[p]
    BY <1>2, <2>1 DEF Iterate, TypeOK
  <2>3. TypeOK'
    BY <1>2, <2>1, <2>2 DEF Iterate, TypeOK, PumpStates, OneByOne
  <2>4. NoLostWakeup' /\ ResolverMeansEmpty'
    BY <1>2, <2>1, <2>2 DEF Iterate, NoLostWakeup, ResolverMeansEmpty, InHand, Live
  <2>5. OneByOne'
    BY <1>2, <2>1, <2>2 DEF Iterate, TypeOK, OneByOne, Live, Pumps
  <2>6. QED
    BY <2>3, <2>4, <2>5
<1>3. ASSUME NEW p \in Pumps, Pull(p) PROVE CycleInv'
  <2>1. \A q \in Pumps : q # p => pump'[q] = pump[q] /\ hand'[q] = hand[q]
    BY <1>3 DEF Pull, TypeOK
  <2>2. CASE promiseQueue # <<>>
    <3>1. Head(promiseQueue) \in Results /\ Tail(promiseQueue) \in Seq(Results)
      BY <2>2 DEF TypeOK
    <3>2. TypeOK'
      BY <1>3, <2>2, <3>1 DEF Pull, TypeOK, PumpStates
    <3>3. NoLostWakeup' /\ ResolverMeansEmpty'
      BY <1>3, <2>1, <2>2 DEF Pull, TypeOK, NoLostWakeup, ResolverMeansEmpty, InHand, Live
    <3>4. OneByOne'
      BY <1>3, <2>1, <2>2 DEF Pull, TypeOK, OneByOne, Live
    <3>5. QED
      BY <3>2, <3>3, <3>4
  <2>3. CASE promiseQueue = <<>>
    <3>1. TypeOK'
      BY <1>3, <2>3 DEF Pull, TypeOK, PumpStates
    <3>2. NoLostWakeup' /\ ResolverMeansEmpty'
      BY <1>3, <2>1, <2>3 DEF Pull, TypeOK, NoLostWakeup, ResolverMeansEmpty, InHand, Live
    <3>3. OneByOne'
      BY <1>3, <2>1, <2>3 DEF Pull, TypeOK, OneByOne, Live
    <3>4. QED
      BY <3>1, <3>2, <3>3
  <2>4. QED
    BY <2>2, <2>3
<1>4. ASSUME NEW p \in Pumps, Resume(p) PROVE CycleInv'
  <2>1. hand[p] \in Results
    BY <1>4 DEF Resume, TypeOK
  <2>a. /\ pump[p] = "settled" /\ pump'[p] \in {"suspended", "done", "swallowed"}
        /\ hand'[p] = NoResult
        /\ \A q \in Pumps : q # p => pump'[q] = pump[q] /\ hand'[q] = hand[q]
        /\ pump' \in [Pumps -> PumpStates] /\ hand' \in [Pumps -> Results \union {NoResult}]
    BY <1>4 DEF Resume, TypeOK, PumpStates
  <2>b. delivered' \in Seq(Results)
    <3>1. delivered \in Seq(Results) /\ Append(delivered, hand[p]) \in Seq(Results)
      BY <2>1 DEF TypeOK
    <3>2. delivered' = delivered \/ delivered' = Append(delivered, hand[p])
      BY <1>4 DEF Resume
    <3>3. QED
      BY <3>1, <3>2
  <2>2. TypeOK'
    BY <1>4, <2>a, <2>b DEF Resume, TypeOK
  <2>3. NoLostWakeup' /\ ResolverMeansEmpty'
    <3>1. resolve' = resolve /\ promiseQueue' = promiseQueue /\ newest' = newest /\ connected' = connected
      BY <1>4 DEF Resume
    <3>2. NoLostWakeup'
      BY <2>a, <3>1 DEF NoLostWakeup, Live
    <3>3. InHand' => InHand
      BY <2>a, <3>1 DEF InHand, TypeOK, OneByOne
    <3>4. QED
      BY <3>1, <3>2, <3>3 DEF ResolverMeansEmpty
  <2>4. OneByOne'
    BY <1>4 DEF Resume, TypeOK, OneByOne, Live
  <2>5. QED
    BY <2>2, <2>3, <2>4
<1>5. CASE Break
  <2>1. newest \in Pumps
    BY <1>5 DEF Break, TypeOK, OneByOne
  <2>2. /\ pump' \in [Pumps -> PumpStates]
        /\ \A p \in Pumps : pump'[p] = IF p = newest /\ pump[p] = "suspended" THEN "done" ELSE pump[p]
    BY <1>5, <2>1 DEF Break, TypeOK, PumpStates
  <2>3. TypeOK'
    BY <1>5, <2>1, <2>2 DEF Break, TypeOK
  <2>4. NoLostWakeup' /\ ResolverMeansEmpty'
    BY <1>5 DEF Break, NoLostWakeup, ResolverMeansEmpty, InHand, Live
  <2>5. OneByOne'
    BY <1>5, <2>1, <2>2 DEF Break, TypeOK, OneByOne, Live
  <2>6. QED
    BY <2>3, <2>4, <2>5
<1>6. CASE UNCHANGED vars
  BY <1>6 DEF vars, TypeOK, NoLostWakeup, OneByOne, ResolverMeansEmpty, InHand, Live
<1>7. QED
  BY <1>1, <1>2, <1>3, <1>4, <1>5, <1>6 DEF Next

LEMMA CycleInvariant == Spec => []CycleInv
BY CycleInvInit, CycleInvNext, PTL DEF Spec

\* Every reachable state has the types of TypeOK; in particular `resolve` is
\* null or belongs to a promise that is still pending.
THEOREM TypeCorrect == Spec => []TypeOK
<1>1. CycleInv => TypeOK
  BY DEF CycleInv
<1>2. QED
  BY <1>1, CycleInvariant, PTL

\* A consumer that is driven and waits is the one the next resolveNext wakes.
THEOREM NoWakeupLost == Spec => []NoLostWakeup
<1>1. CycleInv => NoLostWakeup
  BY DEF CycleInv
<1>2. QED
  BY <1>1, CycleInvariant, PTL

-----------------------------------------------------------------------------
(* Refinement: each step of the cycle is a step of the channel or stutters. *)

LEMMA BufferedType == CycleInv => Buffered \in Seq(Results)
<1> SUFFICES ASSUME CycleInv PROVE Buffered \in Seq(Results)
  OBVIOUS
<1>1. CASE InHand
  <2>1. hand[newest] \in Results
    BY <1>1 DEF CycleInv, TypeOK, OneByOne, InHand
  <2>2. QED
    BY <1>1, <2>1, HeadOfConcat DEF Buffered, CycleInv, TypeOK
<1>2. CASE ~InHand
  BY <1>2 DEF Buffered, CycleInv, TypeOK
<1>3. QED
  BY <1>1, <1>2

LEMMA ChannelStep == CycleInv /\ CycleInv' /\ [Next]_vars => [Channel!Next]_(Channel!vars)
<1> SUFFICES ASSUME CycleInv, CycleInv', [Next]_vars PROVE [Channel!Next]_(Channel!vars)
  OBVIOUS
<1> USE CycleAssumption DEF CycleInv
<1>1. ASSUME NEW r \in Results, Feed(r) PROVE [Channel!Next]_(Channel!vars)
  <2>1. fed' = fed + 1 /\ delivered' = delivered /\ newest' = newest /\ connected' = connected
    BY <1>1 DEF Feed
  <2>2. CASE resolve # 0 /\ Live(resolve)
    <3>1. resolve = newest /\ newest \in Pumps /\ connected /\ pump[newest] = "awaiting" /\ promiseQueue = <<>>
      BY <2>2 DEF Live, TypeOK, ResolverMeansEmpty
    <3>2. Buffered = <<>>
      BY <3>1 DEF Buffered, InHand
    <3>3. /\ \A p \in Pumps : pump'[p] = IF p = newest THEN "settled" ELSE pump[p]
          /\ hand'[newest] = r /\ promiseQueue' = <<>>
      BY <1>1, <3>1 DEF Feed, SettlePromise, TypeOK, OneByOne
    <3>4. Buffered' = <<r>> \o <<>>
      BY <2>1, <3>1, <3>3 DEF Buffered, InHand
    <3>5. Buffered' = Append(Buffered, r)
      BY <3>2, <3>4
    <3>6. Swallowed' = Swallowed
      BY <2>1, <3>1, <3>3 DEF Swallowed, Live
    <3>7. Channel!Send(r)
      BY <2>1, <3>5, <3>6 DEF Channel!Send
    <3>8. QED
      BY <3>7 DEF Channel!Next
  <2>3. CASE resolve # 0 /\ ~Live(resolve)
    <3>1. resolve \in Pumps /\ pump[resolve] = "awaiting" /\ promiseQueue = <<>> /\ ~InHand
      BY <2>3 DEF TypeOK, ResolverMeansEmpty
    <3>2. /\ \A p \in Pumps : pump'[p] = IF p = resolve THEN "settled" ELSE pump[p]
          /\ promiseQueue' = <<>>
      BY <1>1, <2>3, <3>1 DEF Feed, SettlePromise, TypeOK
    <3>3. ~InHand'
      BY <2>1, <2>3, <3>1, <3>2 DEF InHand, Live, OneByOne, TypeOK
    <3>4. Buffered = <<>> /\ Buffered' = <<>>
      BY <3>1, <3>2, <3>3 DEF Buffered
    <3>5. resolve \notin Swallowed /\ Swallowed' = Swallowed \union {resolve}
      BY <2>1, <2>3, <3>1, <3>2 DEF Swallowed, Live
    <3>6. Channel!LoseSent(resolve)
      BY <2>1, <3>4, <3>5 DEF Channel!LoseSent
    <3>7. QED
      BY <3>1, <3>6 DEF Channel!Next
  <2>4. CASE resolve = 0
    <3>1. promiseQueue' = Append(promiseQueue, r) /\ pump' = pump /\ hand' = hand
      BY <1>1, <2>4 DEF Feed
    <3>2. Swallowed' = Swallowed /\ InHand' = InHand
      BY <2>1, <3>1 DEF Swallowed, Live, InHand
    <3>3. Buffered' = Append(Buffered, r)
      <4>1. CASE InHand
        <5>1. hand[newest] \in Results
          BY <4>1 DEF TypeOK, OneByOne, InHand
        <5>2. QED
          BY <2>1, <3>1, <3>2, <4>1, <5>1, AppendToConcat DEF Buffered, TypeOK
      <4>2. CASE ~InHand
        BY <3>1, <3>2, <4>2 DEF Buffered
      <4>3. QED
        BY <4>1, <4>2
    <3>4. Channel!Send(r)
      BY <2>1, <3>2, <3>3 DEF Channel!Send
    <3>5. QED
      BY <3>4 DEF Channel!Next
  <2>5. QED
    BY <2>2, <2>3, <2>4
<1>2. CASE Iterate
  <2>1. ~InHand /\ newest' = newest + 1 /\ newest' \in Pumps /\ promiseQueue' = promiseQueue
    BY <1>2 DEF Iterate, InHand, TypeOK, Pumps
  <2>2. \A p \in Pumps : pump'[p] = IF p = newest' THEN "suspended" ELSE pump[p]
    BY <1>2, <2>1 DEF Iterate, TypeOK
  <2>3. ~InHand' /\ pump[newest'] = "new"
    BY <2>1, <2>2 DEF InHand, OneByOne, TypeOK, Pumps
  <2>4. Buffered' = Buffered
    BY <2>1, <2>3 DEF Buffered
  <2>5. Swallowed' = Swallowed
    BY <1>2, <2>1, <2>2, <2>3 DEF Swallowed, Live, Iterate
  <2>6. QED
    BY <1>2, <2>4, <2>5 DEF Iterate, Channel!vars
<1>3. ASSUME NEW p \in Pumps, Pull(p) PROVE [Channel!Next]_(Channel!vars)
  <2>1. connected /\ p = newest /\ ~InHand /\ connected' /\ newest' = newest
    BY <1>3 DEF Pull, Live, InHand
  <2>2. \A q \in Pumps : q # p => pump'[q] = pump[q]
    BY <1>3 DEF Pull, TypeOK
  <2>3. Swallowed' = Swallowed
    BY <1>3, <2>1, <2>2 DEF Swallowed, Live
  <2>4. Buffered' = Buffered
    <3>1. CASE promiseQueue # <<>>
      <4>1. pump'[p] = "settled" /\ hand'[p] = Head(promiseQueue) /\ promiseQueue' = Tail(promiseQueue)
        BY <1>3, <3>1 DEF Pull, TypeOK
      <4>2. Buffered' = <<Head(promiseQueue)>> \o Tail(promiseQueue)
        BY <2>1, <4>1 DEF Buffered, InHand
      <4>3. QED
        BY <2>1, <3>1, <4>2, ConcatHeadTail DEF Buffered, TypeOK
    <3>2. CASE promiseQueue = <<>>
      <4>1. pump'[p] = "awaiting" /\ promiseQueue' = promiseQueue
        BY <1>3, <3>2 DEF Pull, TypeOK
      <4>2. QED
        BY <2>1, <4>1 DEF Buffered, InHand
    <3>3. QED
      BY <3>1, <3>2
  <2>5. QED
    BY <1>3, <2>3, <2>4 DEF Pull, Channel!vars
<1>4. ASSUME NEW p \in Pumps, Resume(p) PROVE [Channel!Next]_(Channel!vars)
  <2>1. hand[p] \in Results /\ promiseQueue' = promiseQueue /\ newest' = newest
        /\ connected' = connected /\ fed' = fed
    BY <1>4 DEF Resume, TypeOK
  <2>2. \A q \in Pumps : q # p => pump'[q] = pump[q]
    BY <1>4 DEF Resume, TypeOK
  <2>3. CASE Live(p)
    <3>1. p = newest /\ connected /\ InHand /\ delivered' = Append(delivered, hand[p]) /\ pump'[p] # "settled"
      BY <1>4, <2>3 DEF Resume, Live, InHand, TypeOK
    <3>2. Buffered = <<hand[p]>> \o promiseQueue /\ Buffered' = promiseQueue
      BY <2>1, <3>1 DEF Buffered, InHand
    <3>3. Buffered # <<>> /\ Head(Buffered) = hand[p] /\ Tail(Buffered) = promiseQueue
      BY <2>1, <3>2, HeadOfConcat DEF TypeOK
    <3>4. Swallowed' = Swallowed
      BY <2>1, <2>2, <2>3, <3>1 DEF Swallowed, Live
    <3>5. Channel!Deliver
      BY <2>1, <3>1, <3>2, <3>3, <3>4 DEF Channel!Deliver
    <3>6. QED
      BY <3>5 DEF Channel!Next
  <2>4. CASE ~Live(p)
    <3>1. delivered' = delivered /\ pump[p] = "settled" /\ pump'[p] = "swallowed"
      BY <1>4, <2>4 DEF Resume, TypeOK
    <3>2. Swallowed' = Swallowed
      BY <2>1, <2>2, <2>4, <3>1 DEF Swallowed, Live
    <3>3. InHand' = InHand /\ (InHand => hand'[newest] = hand[newest])
      <4>1. CASE connected
        <5>1. newest \in Pumps /\ p # newest
          BY <2>4, <4>1 DEF OneByOne, TypeOK, Live
        <5>2. QED
          BY <1>4, <2>1, <2>2, <5>1 DEF InHand, Resume, TypeOK
      <4>2. CASE ~connected
        BY <2>1, <4>2 DEF InHand
      <4>3. QED
        BY <4>1, <4>2
    <3>4. Buffered' = Buffered
      BY <2>1, <3>3 DEF Buffered
    <3>5. QED
      BY <2>1, <3>1, <3>2, <3>4 DEF Channel!vars
  <2>5. QED
    BY <2>3, <2>4
<1>5. CASE Break
  <2>1. newest \in Pumps /\ ~InHand' /\ promiseQueue' = promiseQueue /\ newest' = newest
        /\ fed' = fed /\ delivered' = delivered /\ connected /\ ~connected'
    BY <1>5 DEF Break, TypeOK, OneByOne, InHand
  <2>2. \A p \in Pumps : pump'[p] = IF p = newest /\ pump[p] = "suspended" THEN "done" ELSE pump[p]
    BY <1>5, <2>1 DEF Break, TypeOK
  <2>3. CASE InHand
    <3>1. hand[newest] \in Results /\ Buffered = <<hand[newest]>> \o promiseQueue /\ Buffered' = promiseQueue
      BY <2>1, <2>3 DEF Buffered, InHand, TypeOK
    <3>2. Buffered # <<>> /\ Tail(Buffered) = promiseQueue
      BY <3>1, HeadOfConcat DEF TypeOK
    <3>3. newest \notin Swallowed /\ Swallowed' = Swallowed \union {newest}
      BY <2>1, <2>2, <2>3 DEF Swallowed, Live, InHand
    <3>4. Channel!LoseOldest(newest)
      BY <2>1, <3>1, <3>2, <3>3 DEF Channel!LoseOldest
    <3>5. QED
      BY <2>1, <3>4 DEF Channel!Next
  <2>4. CASE ~InHand
    <3>1. Buffered' = Buffered
      BY <2>1, <2>4 DEF Buffered
    <3>2. pump[newest] # "swallowed"
      BY <2>1 DEF OneByOne, Live
    <3>3. Swallowed' = Swallowed
      BY <2>1, <2>2, <2>4, <3>2 DEF Swallowed, Live, InHand
    <3>4. QED
      BY <2>1, <3>1, <3>3 DEF Channel!vars
  <2>5. QED
    BY <2>3, <2>4
<1>6. CASE UNCHANGED vars
  BY <1>6 DEF vars, Channel!vars, Buffered, InHand, Swallowed, Live
<1>7. QED
  BY <1>1, <1>2, <1>3, <1>4, <1>5, <1>6 DEF Next

\* The promise cycle is a FIFO channel that loses at most one result per
\* abandoned pump, for any payloads, any number of pumps and any feeds.
THEOREM CycleIsLossyChannel == Spec => IsLossyChannel
<1>1. Init => Channel!Init
  BY CycleAssumption DEF Init, Channel!Init, Buffered, InHand, Swallowed, Live
<1>2. QED
  BY <1>1, ChannelStep, CycleInvariant, PTL DEF Spec, IsLossyChannel, Channel!Spec
-----------------------------------------------------------------------------
(* The progressive try *)

TryInv ==
  /\ Try!TypeOK
  /\ Try!SuccessDecides
  /\ tryPc = "starting" =>
       /\ started < NumTries
       /\ \A k \in Try!Attempts : tryAttempt[k] # "ok"

\* Promise.race finds the first settled attempt, if there is one.
LEMMA FirstSettledType ==
  ASSUME started \in Nat
  PROVE  Try!FirstSettled \in 0 .. started
<1> DEFINE settled == {k \in 1 .. started : Try!IsSettled(k)}
<1>1. CASE settled = {}
  BY <1>1 DEF Try!FirstSettled, Try!Open
<1>2. CASE settled # {}
  <2>1. settled \subseteq Nat
    OBVIOUS
  <2>2. PICK x \in settled : \A y \in settled : ~(<<y, x>> \in OpToRel(<, Nat))
    BY <1>2, <2>1, NatLessThanWellFounded, WFMin
  <2>3. \A y \in settled : ~(y < x)
    BY <2>1, <2>2, Zenon DEF OpToRel
  <2>4. \A y \in settled : x <= y
    BY <2>1, <2>3
  <2>5. Try!Min(settled) \in settled
    BY <2>4, Zenon DEF Try!Min
  <2> QED BY <1>2, <2>1, <2>5 DEF Try!FirstSettled
<1> QED BY <1>1, <1>2

LEMMA TryInit == ASSUME Try!TryAssumption, Try!Init PROVE TryInv
BY DEF Try!TryAssumption, Try!Init, TryInv, Try!TypeOK, Try!SuccessDecides, Try!Attempts, Try!Open,
       Try!Timeout

LEMMA TryStep == ASSUME Try!TryAssumption, TryInv, [Try!Next]_(Try!vars) PROVE TryInv'
<1> USE DEF Try!TryAssumption, TryInv, Try!TypeOK, Try!SuccessDecides, Try!Attempts, Try!Open,
            Try!Timeout
<1>1. CASE Try!StartAttempt
  <2>1. Try!FirstSettled \in 0 .. started
    BY FirstSettledType
  <2> QED BY <1>1, <2>1 DEF Try!StartAttempt
<1>2. CASE Try!Continue
  BY <1>2 DEF Try!Continue
<1>3. CASE Try!TimerFires
  BY <1>3 DEF Try!TimerFires
<1>4. CASE Try!ParentMessage
  BY <1>4 DEF Try!ParentMessage
<1>5. ASSUME NEW k \in Try!Attempts, Try!TakeInput(k) PROVE TryInv'
  BY <1>5 DEF Try!TakeInput, Try!Awake
<1>6. ASSUME NEW k \in Try!Attempts, Try!Answer(k) PROVE TryInv'
  BY <1>6 DEF Try!Answer, Try!Awake
<1>7. CASE UNCHANGED Try!vars
  BY <1>7 DEF Try!vars
<1> QED BY <1>1, <1>2, <1>3, <1>4, <1>5, <1>6, <1>7 DEF Try!Next

\* The result of a progressive try is that of an attempt that succeeded, and no
\* attempt that succeeds while it waits is passed over, however many attempts
\* there are (ProgressiveTry, ProgressiveAdaptiveTryWorkerDef.ts).
THEOREM SuccessAlwaysDecides ==
  ASSUME Try!TryAssumption PROVE Try!Spec => []SuccessDecides
<1>1. Try!Init => TryInv
  BY TryInit
<1>2. TryInv /\ [Try!Next]_(Try!vars) => TryInv'
  BY TryStep
<1>3. TryInv => SuccessDecides
  BY DEF TryInv, SuccessDecides
<1> QED BY <1>1, <1>2, <1>3, PTL DEF Try!Spec

-----------------------------------------------------------------------------
(* Parallel attempts *)

Asked == {k \in Par!Attempts : ticket[k] # 0}

ParTypes ==
  /\ parAttempt \in [Par!Attempts -> {"todo", "enqueuing", "asking", "working", "ok", "error"}]
  /\ ticket \in [Par!Attempts -> Nat]

\* The attempts are started in order.
StartedInOrder == \E m \in 0 .. NumParallel : Par!Started = 1 .. m

\* The tickets handed out are different, and below the next one.
Tickets ==
  \A k \in Par!Attempts :
    /\ parAttempt[k] \in {"todo", "enqueuing"} => ticket[k] = 0
    /\ parAttempt[k] = "asking" => ticket[k] # 0
    /\ parAttempt[k] \in {"working", "ok"} => ticket[k] \in 1 .. InputCount
    /\ ticket[k] <= Cardinality(Asked)
    /\ \A j \in Par!Attempts : j # k /\ ticket[j] # 0 => ticket[j] # ticket[k]

ResultMeansOK == parOutcome = "result" => \A k \in Par!Attempts : parAttempt[k] = "ok"

ParInv == ParTypes /\ StartedInOrder /\ Tickets /\ ResultMeansOK

LEMMA ParInit == ASSUME Par!ParallelAssumption, Par!Init PROVE ParInv
<1>1. Cardinality(Asked) = 0
  <2>1. Asked = {}
    BY DEF Asked, Par!Init
  <2> QED BY <2>1, FS_EmptySet
<1>2. Par!Started = 1 .. 0
  BY DEF Par!Started, Par!Init
<1>3. StartedInOrder
  BY <1>2 DEF StartedInOrder, Par!ParallelAssumption
<1>4. ParTypes /\ Tickets /\ ResultMeansOK
  BY <1>1 DEF Par!Init, ParTypes, Tickets, ResultMeansOK
<1> QED BY <1>3, <1>4 DEF ParInv

LEMMA SameCardinality == ASSUME NEW S PROVE Par!Cardinality(S) = Cardinality(S)
BY DEF Par!Cardinality, Cardinality, Par!IsFiniteSet, IsFiniteSet

LEMMA AskedFinite ==
  ASSUME Par!ParallelAssumption PROVE IsFiniteSet(Asked) /\ Cardinality(Asked) \in Nat
<1>1. IsFiniteSet(Par!Attempts) /\ Asked \subseteq Par!Attempts
  BY FS_Interval DEF Par!Attempts, Par!ParallelAssumption, Asked
<1> QED BY <1>1, FS_Subset, FS_CardinalityType

\* An attempt that has been started goes from one state to another; no ticket
\* is handed out.
LEMMA ParMoves ==
  ASSUME Par!ParallelAssumption, ParInv, NEW k \in Par!Attempts,
         NEW st \in {"working", "ok", "error"}, parAttempt' = [parAttempt EXCEPT ![k] = st],
         UNCHANGED ticket, parAttempt[k] \notin {"todo", "ok"},
         st # "error" => ticket[k] \in 1 .. InputCount, parOutcome' # "result" \/ UNCHANGED parOutcome
  PROVE  ParInv'
<1>1. ParTypes'
  BY DEF ParInv, ParTypes
<1>2. Par!Started' = Par!Started
  BY DEF Par!Started, ParInv, ParTypes
<1>3. StartedInOrder'
  BY <1>2 DEF ParInv, StartedInOrder
<1>4. Cardinality(Asked)' = Cardinality(Asked)
  BY DEF Asked
<1>5. Tickets'
  BY <1>4 DEF ParInv, ParTypes, Tickets
<1>6. ResultMeansOK'
  BY DEF ParInv, ResultMeansOK
<1> QED BY <1>1, <1>3, <1>5, <1>6 DEF ParInv

LEMMA ParStart == ASSUME Par!ParallelAssumption, ParInv, Par!StartAttempt PROVE ParInv'
<1>1. PICK m \in 0 .. NumParallel : Par!Started = 1 .. m
  BY DEF ParInv, StartedInOrder
<1>2. m + 1 \in Par!Attempts /\ m + 1 \notin Par!Started /\ m + 1 \in 0 .. NumParallel
  BY <1>1 DEF Par!StartAttempt, Par!Attempts, Par!ParallelAssumption
<1>3. Cardinality(Par!Started) = m
  BY <1>1, FS_Interval DEF Par!ParallelAssumption
<1>4. /\ parAttempt' = [parAttempt EXCEPT ![m + 1] = "enqueuing"]
      /\ UNCHANGED <<parPc, ticket, parOutcome>>
  BY <1>3, SameCardinality DEF Par!StartAttempt, Par!Goes
<1>5. parAttempt[m + 1] = "todo"
  BY <1>2 DEF Par!Started
<1>6. Par!Started' = Par!Started \union {m + 1}
  BY <1>2, <1>4 DEF Par!Started, ParInv, ParTypes
<1>7. Par!Started' = 1 .. m + 1
  BY <1>1, <1>6
<1>8. Cardinality(Asked)' = Cardinality(Asked)
  BY <1>4 DEF Asked
<1>9. ParTypes' /\ ResultMeansOK'
  BY <1>2, <1>4, <1>5 DEF ParInv, ParTypes, ResultMeansOK
<1>10. Tickets'
  BY <1>2, <1>4, <1>5, <1>8 DEF ParInv, ParTypes, Tickets
<1> QED BY <1>2, <1>7, <1>9, <1>10 DEF ParInv, StartedInOrder

LEMMA ParAsk ==
  ASSUME Par!ParallelAssumption, ParInv, NEW k \in Par!Attempts, Par!Ask(k)
  PROVE  ParInv'
<1>1. /\ parAttempt[k] = "enqueuing" /\ parAttempt' = [parAttempt EXCEPT ![k] = "asking"]
      /\ ticket' = [ticket EXCEPT ![k] = Cardinality(Asked) + 1]
      /\ UNCHANGED <<parPc, parOutcome>>
  BY SameCardinality DEF Par!Ask, Par!Goes, Asked
<1>2. IsFiniteSet(Asked) /\ Cardinality(Asked) \in Nat /\ k \notin Asked
  BY <1>1, AskedFinite DEF Asked, ParInv, Tickets
<1>3. Asked' = Asked \union {k}
  BY <1>1, <1>2 DEF Asked, ParInv, ParTypes
<1>4. Cardinality(Asked)' = Cardinality(Asked) + 1
  BY <1>2, <1>3, FS_AddElement
<1>5. Par!Started' = Par!Started
  BY <1>1 DEF Par!Started, ParInv, ParTypes
<1>6. StartedInOrder'
  BY <1>5 DEF ParInv, StartedInOrder
<1>7. ParTypes' /\ ResultMeansOK'
  BY <1>1, <1>2 DEF ParInv, ParTypes, ResultMeansOK
<1>8. Tickets'
  BY <1>1, <1>2, <1>4 DEF ParInv, ParTypes, Tickets
<1> QED BY <1>6, <1>7, <1>8 DEF ParInv

\* Steps that no attempt takes.
LEMMA ParElse ==
  ASSUME ParInv, UNCHANGED <<parAttempt, ticket>>,
         parOutcome' = "result" => \A k \in Par!Attempts : parAttempt[k] = "ok"
  PROVE  ParInv'
<1>1. UNCHANGED <<Asked, Par!Started>>
  BY DEF Asked, Par!Started
<1> QED BY <1>1 DEF ParInv, ParTypes, StartedInOrder, Tickets, ResultMeansOK

LEMMA ParStep == ASSUME Par!ParallelAssumption, ParInv, [Par!Next]_(Par!vars) PROVE ParInv'
<1>1. CASE Par!ParentMessage \/ UNCHANGED Par!vars
  BY <1>1, ParElse DEF Par!ParentMessage, Par!vars, ParInv, ResultMeansOK
<1>2. CASE Par!Join
  BY <1>2, ParElse DEF Par!Join, ParInv, ResultMeansOK
<1>3. CASE Par!Combine
  BY <1>3, ParElse DEF Par!Combine
<1>4. ASSUME NEW k \in Par!Attempts, Par!TakeInput(k) PROVE ParInv'
  <2>1. ticket[k] \in 1 .. InputCount
    BY <1>4 DEF Par!TakeInput, ParInv, ParTypes, Tickets, Par!ParallelAssumption
  <2> QED BY <1>4, <2>1, ParMoves DEF Par!TakeInput, Par!Goes
<1>5. ASSUME NEW k \in Par!Attempts, Par!Succeed(k) PROVE ParInv'
  <2>1. ticket[k] \in 1 .. InputCount
    BY <1>5 DEF Par!Succeed, ParInv, Tickets
  <2> QED BY <1>5, <2>1, ParMoves DEF Par!Succeed, Par!Goes
<1>6. ASSUME NEW k \in Par!Attempts, Par!Fail(k) PROVE ParInv'
  <2>1. /\ Par!MayFail(k) /\ Par!Goes(k, "error") /\ UNCHANGED ticket
        /\ parOutcome' # "result" \/ UNCHANGED parOutcome
    BY <1>6 DEF Par!Fail
  <2> QED BY <2>1, ParMoves DEF Par!MayFail, Par!Goes
<1> QED BY <1>1, <1>2, <1>3, <1>4, <1>5, <1>6, ParStart, ParAsk DEF Par!Next

\* A combined result is one of all attempts, each of which has worked on a
\* parent datapoint of its own, however many there are (ParallelAttempt,
\* ParallelAttemptLiveflow.ts).
THEOREM CombinesAll == ASSUME Par!ParallelAssumption PROVE Par!Spec => []ResultOfAll
<1>1. Par!Init => ParInv
  BY ParInit
<1>2. ParInv /\ [Par!Next]_(Par!vars) => ParInv'
  BY ParStep
<1>3. ParInv => ResultOfAll
  BY DEF ParInv, ResultMeansOK, Tickets, ResultOfAll, Par!ResultOfAll
<1> QED BY <1>1, <1>2, <1>3, PTL DEF Par!Spec

-----------------------------------------------------------------------------
(* Induction, and sequences of chunks                                         *)

\* Induction over the natural numbers, for a set: a least number outside of it
\* would have a predecessor in it.
LEMMA NatSetInduction ==
  ASSUME NEW A, 0 \in A, \A n \in Nat : n \in A => n + 1 \in A
  PROVE  \A n \in Nat : n \in A
<1> DEFINE R == OpToRel(<, Nat)
           B == {n \in Nat : n \notin A}
<1> SUFFICES ASSUME B # {} PROVE FALSE
  OBVIOUS
<1>1. IsWellFoundedOn(R, Nat) /\ B \subseteq Nat
  BY NatLessThanWellFounded
<1>2. PICK x \in B : \A y \in B : ~ (<<y, x>> \in R)
  <2> HIDE DEF B, R
  <2> QED BY <1>1, WFMin
<1>3. x \in Nat /\ x # 0 /\ x - 1 \in Nat /\ (x - 1) + 1 = x
  OBVIOUS
<1>4. x - 1 \notin A
  BY <1>3
<1>5. R = {p \in Nat \X Nat : p[1] < p[2]}
  BY Zenon DEF OpToRel
<1>6. <<x - 1, x>> \in R
  <2> HIDE DEF R
  <2> QED BY <1>3, <1>5
<1> QED BY <1>2, <1>3, <1>4, <1>6

\* The words numbered a + 1 to b.
Run(a, b) == [j \in 1 .. b - a |-> a + j]

\* The chunks cs are consecutive stretches of the text, cut at the positions p.
Chain(cs, p) ==
  /\ p \in [0 .. Len(cs) -> Nat]
  /\ \A i \in 1 .. Len(cs) : p[i - 1] <= p[i] /\ cs[i] = Run(p[i - 1], p[i])

LEMMA RunType ==
  ASSUME NEW a \in Nat, NEW b \in Nat, a <= b
  PROVE  Run(a, b) \in Seq(Nat) /\ Len(Run(a, b)) = b - a /\ \A j \in 1 .. b - a : Run(a, b)[j] = a + j
BY DEF Run

LEMMA RunConcat ==
  ASSUME NEW a \in Nat, NEW b \in Nat, NEW c \in Nat, a <= b, b <= c
  PROVE  Run(a, b) \o Run(b, c) = Run(a, c)
<1>1. /\ Run(a, b) \o Run(b, c) \in Seq(Nat) /\ Len(Run(a, b) \o Run(b, c)) = c - a
      /\ \A j \in 1 .. c - a : (Run(a, b) \o Run(b, c))[j] = a + j
  <2> DEFINE u == Run(a, b)
             v == Run(b, c)
  <2>1. u \in Seq(Nat) /\ Len(u) = b - a /\ \A j \in 1 .. b - a : u[j] = a + j
    BY RunType
  <2>2. v \in Seq(Nat) /\ Len(v) = c - b /\ \A j \in 1 .. c - b : v[j] = b + j
    BY RunType
  <2> HIDE DEF u, v
  <2>3. /\ u \o v \in Seq(Nat) /\ Len(u \o v) = Len(u) + Len(v)
        /\ \A j \in 1 .. Len(u) + Len(v) : (u \o v)[j] =
             IF j <= Len(u) THEN u[j] ELSE v[j - Len(u)]
    BY <2>1, <2>2, ConcatProperties
  <2>4. \A j \in 1 .. c - a : (u \o v)[j] = a + j
    <3> TAKE j \in 1 .. c - a
    <3>1. (u \o v)[j] = IF j <= b - a THEN u[j] ELSE v[j - (b - a)]
      BY <2>1, <2>2, <2>3
    <3>2. CASE j <= b - a
      BY <3>1, <3>2, <2>1
    <3>3. CASE ~(j <= b - a)
      <4>1. j - (b - a) \in 1 .. c - b
        BY <3>3
      <4> QED BY <3>1, <3>3, <4>1, <2>2
    <3> QED BY <3>2, <3>3
  <2>5. Len(u \o v) = c - a
    BY <2>1, <2>2, <2>3
  <2> QED BY <2>3, <2>4, <2>5 DEF u, v
<1>2. Run(a, c) \in Seq(Nat) /\ Len(Run(a, c)) = c - a /\ \A j \in 1 .. c - a : Run(a, c)[j] = a + j
  BY RunType
<1> QED BY <1>1, <1>2, SeqEqual

\* The cuts do not go back.
LEMMA ChainOrder ==
  ASSUME NEW cs \in Seq(Seq(Nat)), NEW p, Chain(cs, p)
  PROVE  \A i \in 0 .. Len(cs) : p[0] <= p[i] /\ p[i] \in Nat
<1> DEFINE n == Len(cs)
           A == {k \in Nat : k \in 0 .. n => p[0] <= p[k]}
<1>1. n \in Nat
  OBVIOUS
<1>2. (\A i \in 0 .. n : p[i] \in Nat) /\ \A i \in 1 .. n : p[i - 1] <= p[i]
  BY DEF Chain
<1> HIDE DEF n
<1>3. 0 \in A
  BY <1>1, <1>2
<1>4. ASSUME NEW k \in Nat, k \in A PROVE k + 1 \in A
  <2> SUFFICES ASSUME k + 1 \in 0 .. n PROVE p[0] <= p[k + 1]
    OBVIOUS
  <2>1. k \in 0 .. n /\ k + 1 \in 1 .. n /\ (k + 1) - 1 = k /\ 0 \in 0 .. n
    BY <1>1
  <2>2. p[0] <= p[k] /\ p[k] <= p[k + 1]
    BY <1>2, <1>4, <2>1
  <2> QED BY <1>2, <2>1, <2>2
<1>5. \A k \in Nat : k \in A
  <2> HIDE DEF A
  <2> QED BY <1>3, <1>4, NatSetInduction
<1> QED BY <1>1, <1>2, <1>5 DEF n

\* Chunks that follow on each other say the stretch from the first cut to the
\* last: the recursive function of FlattenSeq exists (Run gives a witness), and
\* its values are the stretches up to each cut.
LEMMA FlattenChain ==
  ASSUME NEW cs \in Seq(Seq(Nat)), NEW p, Chain(cs, p)
  PROVE  Splitter!FlattenSeq(cs) = Run(p[0], p[Len(cs)])
<1>1. CASE Len(cs) = 0
  BY <1>1 DEF Splitter!FlattenSeq, Run, Chain
<1>2. CASE Len(cs) # 0
  <2> DEFINE n == Len(cs)
             G(g) == [i \in 1 .. n |-> IF i = 1 THEN cs[i] ELSE g[i - 1] \o cs[i]]
             f == CHOOSE g : g = G(g)
             h == [i \in 1 .. n |-> Run(p[0], p[i])]
  <2>0. /\ n \in Nat \ {0} /\ \A i \in 0 .. n : p[i] \in Nat
        /\ \A i \in 1 .. n : /\ i - 1 \in 0 .. n /\ p[i - 1] <= p[i]
                             /\ cs[i] = Run(p[i - 1], p[i])
    <3>1. n \in Nat \ {0}
      BY <1>2
    <3>2. /\ p \in [0 .. n -> Nat]
          /\ \A i \in 1 .. n : p[i - 1] <= p[i] /\ cs[i] = Run(p[i - 1], p[i])
      BY DEF Chain
    <3> HIDE DEF n
    <3> QED BY <3>1, <3>2
  <2>1. \A i \in 0 .. n : p[0] <= p[i]
    BY ChainOrder
  <2>2. \A i \in 1 .. n : i # 1 => Run(p[0], p[i - 1]) \o cs[i] = Run(p[0], p[i])
    <3> SUFFICES ASSUME NEW i \in 1 .. n PROVE Run(p[0], p[i - 1]) \o cs[i] = Run(p[0], p[i])
      OBVIOUS
    <3>1. /\ p[0] \in Nat /\ p[i - 1] \in Nat /\ p[i] \in Nat
          /\ p[0] <= p[i - 1] /\ p[i - 1] <= p[i] /\ cs[i] = Run(p[i - 1], p[i])
      BY <2>0, <2>1
    <3> QED BY <3>1, RunConcat
  <2>3. h = G(h)
    <3>1. ASSUME NEW i \in 1 .. n PROVE h[i] = IF i = 1 THEN cs[i] ELSE h[i - 1] \o cs[i]
      <4>1. CASE i = 1
        <5>1. cs[1] = Run(p[1 - 1], p[1])
          BY <4>1, <2>0
        <5> QED BY <4>1, <5>1
      <4>2. CASE i # 1
        <5>1. i - 1 \in 1 .. n
          BY <4>2, <2>0
        <5> QED BY <4>2, <5>1, <2>2
      <4> QED BY <4>1, <4>2
    <3> HIDE DEF h
    <3>2. DOMAIN h = 1 .. n
      BY DEF h
    <3> QED BY <3>1 DEF h
  <2>4. f = G(f)
    BY <2>3
  <2>5. \A i \in 1 .. n : f[i] = Run(p[0], p[i])
    <3> DEFINE A == {k \in Nat : k \in 1 .. n => f[k] = Run(p[0], p[k])}
    <3> HIDE DEF f
    <3>1. 0 \in A
      OBVIOUS
    <3>2. ASSUME NEW k \in Nat, k \in A PROVE k + 1 \in A
      <4> SUFFICES ASSUME k + 1 \in 1 .. n PROVE f[k + 1] = Run(p[0], p[k + 1])
        OBVIOUS
      <4>1. f[k + 1] = IF k + 1 = 1 THEN cs[k + 1] ELSE f[k] \o cs[k + 1]
        <5>1. f[k + 1] = IF k + 1 = 1 THEN cs[k + 1] ELSE f[(k + 1) - 1] \o cs[k + 1]
          BY <2>4
        <5> QED BY <5>1
      <4>2. CASE k = 0
        <5>1. cs[k + 1] = Run(p[(k + 1) - 1], p[k + 1])
          BY <2>0
        <5> QED BY <4>1, <4>2, <5>1
      <4>3. CASE k # 0
        <5>1. k \in 1 .. n /\ k + 1 # 1
          BY <4>3, <2>0
        <5>2. f[k] = Run(p[0], p[k])
          BY <5>1, <3>2
        <5>3. Run(p[0], p[(k + 1) - 1]) \o cs[k + 1] = Run(p[0], p[k + 1])
          <6>1. k + 1 \in 1 .. n
            OBVIOUS
          <6> QED BY <2>2, <5>1, <6>1
        <5>4. (k + 1) - 1 = k
          OBVIOUS
        <5>5. Run(p[0], p[k]) \o cs[k + 1] = Run(p[0], p[k + 1])
          BY <5>3, <5>4
        <5> QED BY <4>1, <5>1, <5>2, <5>5
      <4> QED BY <4>2, <4>3
    <3>3. \A k \in Nat : k \in A
      <4> HIDE DEF A
      <4> QED BY <3>1, <3>2, NatSetInduction
    <3> QED BY <3>3, <2>0
  <2>6. Splitter!FlattenSeq(cs) = f[n]
    <3> HIDE DEF f
    <3>1. Splitter!FlattenSeq(cs) = LET flatten[i \in 1 .. Len(cs)] == IF i = 1 THEN cs[i] ELSE flatten[i - 1] \o cs[i] IN flatten[Len(cs)]
      BY <1>2 DEF Splitter!FlattenSeq
    <3> QED BY <3>1 DEF f
  <2>7. n \in 1 .. n
    BY <2>0
  <2> HIDE DEF f
  <2> QED BY <2>5, <2>6, <2>7
<1> QED BY <1>1, <1>2

-----------------------------------------------------------------------------
(* Chunks that follow on each other from word a + 1 to word b.               *)

Chained(cs, a, b) == \E p : Chain(cs, p) /\ p[0] = a /\ p[Len(cs)] = b

LEMMA ChainedFlat ==
  ASSUME NEW cs \in Seq(Seq(Nat)), NEW a, NEW b, Chained(cs, a, b)
  PROVE  a \in Nat /\ b \in Nat /\ a <= b /\ Splitter!FlattenSeq(cs) = Run(a, b)
<1>1. PICK p : Chain(cs, p) /\ p[0] = a /\ p[Len(cs)] = b
  BY DEF Chained
<1>2. Len(cs) \in Nat
  OBVIOUS
<1>3. 0 \in 0 .. Len(cs) /\ Len(cs) \in 0 .. Len(cs)
  BY <1>2
<1> QED BY <1>1, <1>3, ChainOrder, FlattenChain

LEMMA ChainedEmpty == ASSUME NEW a \in Nat PROVE Chained(<< >>, a, a)
<1> DEFINE p == [i \in 0 .. 0 |-> a]
<1>1. Chain(<< >>, p) /\ p[0] = a /\ p[Len(<< >>)] = a
  BY DEF Chain
<1> QED BY <1>1 DEF Chained

LEMMA ChainedConcat ==
  ASSUME NEW cs \in Seq(Seq(Nat)), NEW ds \in Seq(Seq(Nat)), NEW a, NEW b, NEW c,
         Chained(cs, a, b), Chained(ds, b, c)
  PROVE  Chained(cs \o ds, a, c)
<1>1. PICK p : Chain(cs, p) /\ p[0] = a /\ p[Len(cs)] = b
  BY DEF Chained
<1>2. PICK q : Chain(ds, q) /\ q[0] = b /\ q[Len(ds)] = c
  BY DEF Chained
<1> DEFINE m == Len(cs)
           n == Len(ds)
           es == cs \o ds
           r == [i \in 0 .. m + n |-> IF i <= m THEN p[i] ELSE q[i - m]]
<1>3. m \in Nat /\ n \in Nat
  OBVIOUS
<1>4. /\ Len(es) = m + n
      /\ \A i \in 1 .. m + n : es[i] = IF i <= m THEN cs[i] ELSE ds[i - m]
  BY ConcatProperties
<1>5. /\ \A i \in 0 .. m : p[i] \in Nat
      /\ \A i \in 1 .. m : p[i - 1] <= p[i] /\ cs[i] = Run(p[i - 1], p[i])
      /\ p[0] = a /\ p[m] = b
  BY <1>1 DEF Chain
<1>6. /\ \A i \in 0 .. n : q[i] \in Nat
      /\ \A i \in 1 .. n : q[i - 1] <= q[i] /\ ds[i] = Run(q[i - 1], q[i])
      /\ q[0] = b /\ q[n] = c
  BY <1>2 DEF Chain
<1> HIDE DEF m, n, es
<1>7. \A i \in 0 .. m + n : r[i] = IF i <= m THEN p[i] ELSE q[i - m]
  OBVIOUS
<1>8. r \in [0 .. m + n -> Nat]
  <2>1. \A i \in 0 .. m + n : IF i <= m THEN i \in 0 .. m ELSE i - m \in 0 .. n
    BY <1>3
  <2> QED BY <2>1, <1>5, <1>6
<1>9. ASSUME NEW i \in 1 .. m + n PROVE r[i - 1] <= r[i] /\ es[i] = Run(r[i - 1], r[i])
  <2>1. i \in 0 .. m + n /\ i - 1 \in 0 .. m + n
    BY <1>3
  <2>2. CASE i <= m
    <3>1. i \in 1 .. m /\ i - 1 <= m
      BY <1>3, <2>2
    <3>2. r[i] = p[i] /\ r[i - 1] = p[i - 1] /\ es[i] = cs[i]
      BY <1>4, <1>7, <2>1, <2>2, <3>1
    <3> QED BY <1>5, <3>1, <3>2
  <2>3. CASE i = m + 1
    <3>1. 1 \in 1 .. n /\ i - 1 = m /\ i - m = 1 /\ ~(i <= m)
      BY <1>3, <2>3
    <3>2. r[i] = q[1] /\ r[i - 1] = p[m] /\ es[i] = ds[1]
      BY <1>3, <1>4, <1>7, <2>1, <3>1
    <3>3. q[1 - 1] <= q[1] /\ ds[1] = Run(q[1 - 1], q[1]) /\ 1 - 1 = 0
      BY <1>6, <3>1
    <3> QED BY <1>5, <1>6, <3>2, <3>3
  <2>4. CASE i > m + 1
    <3>1. i - m \in 1 .. n /\ ~(i <= m) /\ ~(i - 1 <= m) /\ (i - 1) - m = (i - m) - 1
      BY <1>3, <2>4
    <3>2. r[i] = q[i - m] /\ r[i - 1] = q[(i - m) - 1] /\ es[i] = ds[i - m]
      BY <1>4, <1>7, <2>1, <3>1
    <3> QED BY <1>6, <3>1, <3>2
  <2> QED BY <1>3, <2>2, <2>3, <2>4
<1>10. r[0] = a /\ r[m + n] = c
  <2>1. r[0] = p[0]
    BY <1>3, <1>7
  <2>2. r[m + n] = c
    <3>1. CASE n = 0
      BY <1>3, <1>5, <1>6, <1>7, <3>1
    <3>2. CASE n # 0
      <4>1. ~(m + n <= m) /\ (m + n) - m = n /\ m + n \in 0 .. m + n
        BY <1>3, <3>2
      <4> QED BY <4>1, <1>6, <1>7
    <3> QED BY <3>1, <3>2
  <2> QED BY <2>1, <2>2, <1>5
<1> HIDE DEF r
<1>11. Chain(es, r) /\ r[0] = a /\ r[Len(es)] = c
  BY <1>4, <1>8, <1>9, <1>10 DEF Chain
<1> QED BY <1>11 DEF Chained, es

LEMMA ChainedOne ==
  ASSUME NEW a \in Nat, NEW b \in Nat, a <= b
  PROVE  Chained(<<Run(a, b)>>, a, b) /\ <<Run(a, b)>> \in Seq(Seq(Nat))
<1> DEFINE p == [i \in 0 .. 1 |-> IF i = 0 THEN a ELSE b]
           cs == <<Run(a, b)>>
<1>1. Len(cs) = 1 /\ cs[1] = Run(a, b)
  OBVIOUS
<1>2. p[0] = a /\ p[1] = b /\ p \in [0 .. 1 -> Nat]
  OBVIOUS
<1>3. \A i \in 1 .. 1 : p[i - 1] <= p[i] /\ cs[i] = Run(p[i - 1], p[i])
  <2> HIDE DEF p, cs
  <2>1. p[1 - 1] = a
    BY <1>2
  <2> QED BY <1>1, <1>2, <2>1
<1>4. cs \in Seq(Seq(Nat))
  BY RunType
<1> HIDE DEF p, cs
<1>5. Chain(cs, p) /\ p[0] = a /\ p[Len(cs)] = b
  BY <1>1, <1>2, <1>3 DEF Chain
<1> QED BY <1>4, <1>5 DEF Chained, cs

LEMMA ChainedHead ==
  ASSUME NEW cs \in Seq(Seq(Nat)), NEW a, NEW b, Chained(cs, a, b), cs # << >>
  PROVE  \E c \in Nat : /\ a <= c /\ c <= b /\ a \in Nat
                        /\ Head(cs) = Run(a, c) /\ Chained(Tail(cs), c, b)
<1>1. PICK p : Chain(cs, p) /\ p[0] = a /\ p[Len(cs)] = b
  BY DEF Chained
<1> DEFINE n == Len(cs)
           ts == Tail(cs)
           q == [i \in 0 .. n - 1 |-> p[i + 1]]
<1>2. n \in Nat \ {0} /\ Head(cs) = cs[1]
  OBVIOUS
<1>3. /\ \A i \in 0 .. n : p[i] \in Nat
      /\ \A i \in 1 .. n : p[i - 1] <= p[i] /\ cs[i] = Run(p[i - 1], p[i])
      /\ p[0] = a /\ p[n] = b
  BY <1>1 DEF Chain
<1>4. ts \in Seq(Seq(Nat)) /\ Len(ts) = n - 1 /\ \A i \in 1 .. n - 1 : ts[i] = cs[i + 1]
  BY HeadTailProperties
<1> HIDE DEF n, ts
<1>5. p[1] \in Nat /\ a <= p[1] /\ cs[1] = Run(a, p[1]) /\ a \in Nat
  <2>1. 1 \in 1 .. n /\ 1 - 1 = 0 /\ 1 \in 0 .. n /\ 0 \in 0 .. n
    BY <1>2
  <2>2. p[1 - 1] <= p[1] /\ cs[1] = Run(p[1 - 1], p[1])
    BY <1>3, <2>1
  <2> QED BY <1>3, <2>1, <2>2
<1>6. q \in [0 .. n - 1 -> Nat] /\ \A i \in 0 .. n - 1 : q[i] = p[i + 1]
  <2>1. \A i \in 0 .. n - 1 : i + 1 \in 0 .. n
    BY <1>2
  <2> QED BY <2>1, <1>3
<1>7. ASSUME NEW i \in 1 .. n - 1 PROVE q[i - 1] <= q[i] /\ ts[i] = Run(q[i - 1], q[i])
  <2>1. /\ i \in 0 .. n - 1 /\ i - 1 \in 0 .. n - 1 /\ (i - 1) + 1 = i
        /\ i + 1 \in 1 .. n /\ (i + 1) - 1 = i
    BY <1>2
  <2>2. q[i] = p[i + 1] /\ q[i - 1] = p[i] /\ ts[i] = cs[i + 1]
    BY <1>4, <1>6, <2>1
  <2>3. p[(i + 1) - 1] <= p[i + 1] /\ cs[i + 1] = Run(p[(i + 1) - 1], p[i + 1])
    BY <1>3, <2>1
  <2> QED BY <2>1, <2>2, <2>3
<1>8. q[0] = p[1] /\ q[n - 1] = b
  <2>1. 0 \in 0 .. n - 1 /\ n - 1 \in 0 .. n - 1 /\ (n - 1) + 1 = n /\ 0 + 1 = 1
    BY <1>2
  <2> QED BY <1>3, <1>6, <2>1
<1> HIDE DEF q
<1>9. Chain(ts, q) /\ q[0] = p[1] /\ q[Len(ts)] = b
  BY <1>4, <1>6, <1>7, <1>8 DEF Chain
<1>10. Chained(ts, p[1], b)
  BY <1>9 DEF Chained
<1>11. p[1] <= b
  BY <1>4, <1>10, ChainedFlat
<1> QED BY <1>2, <1>5, <1>10, <1>11 DEF ts

-----------------------------------------------------------------------------
(* What createDocuments makes of a stretch of text.                          *)

\* Rounding up.
LEMMA DivFacts ==
  ASSUME NEW L \in Nat, NEW C \in Nat \ {0}, NEW n, n = (L + C - 1) \div C
  PROVE  n \in Nat /\ L <= n * C /\ n * C < L + C
OBVIOUS

LEMMA Products ==
  ASSUME NEW C \in Nat \ {0}, NEW i \in Nat, NEW n \in Nat, i < n
  PROVE  i * C + C <= n * C /\ i * C \in Nat /\ (i + 1) * C = i * C + C
OBVIOUS

\* Its chunks follow on each other, cover the stretch, and are of 1 to
\* ChunkSize words each.
LEMMA DocumentsChain ==
  ASSUME Splitter!SplitterAssumption, NEW a \in Nat, NEW b \in Nat, a <= b
  PROVE  LET ds == Splitter!Documents(Run(a, b))
         IN  /\ ds \in Seq(Seq(Nat)) /\ Chained(ds, a, b)
             /\ \A i \in DOMAIN ds : Len(ds[i]) \in 1 .. ChunkSize
             /\ a < b => ds # << >>
<1> DEFINE t == Run(a, b)
           C == ChunkSize
           L == b - a
           n == (L + C - 1) \div C
           end(i) == IF i < n THEN i * C ELSE L
           ds == Splitter!Documents(t)
           p == [i \in 0 .. n |-> a + end(i)]
<1>1. t \in Seq(Nat) /\ Len(t) = L /\ \A j \in 1 .. L : t[j] = a + j
  BY RunType
<1>2. C \in Nat \ {0} /\ L \in Nat
  BY DEF Splitter!SplitterAssumption
<1>3. n \in Nat /\ L <= n * C /\ n * C < L + C
  BY <1>2, DivFacts
<1>4. ds = [i \in 1 .. n |-> SubSeq(t, (i - 1) * C + 1, end(i))]
  BY <1>1 DEF Splitter!Documents
<1> HIDE DEF t, C, L, n, ds
<1>5. ASSUME NEW i \in 1 .. n
      PROVE  /\ end(i - 1) = (i - 1) * C /\ (i - 1) * C \in Nat
             /\ end(i) \in Nat /\ end(i) <= L /\ end(i) - (i - 1) * C \in 1 .. C
  <2>1. i - 1 \in Nat /\ i - 1 < n /\ (i - 1) + 1 = i
    BY <1>3
  <2>2. (i - 1) * C + C <= n * C /\ (i - 1) * C \in Nat /\ i * C = (i - 1) * C + C
    BY <1>2, <1>3, <2>1, Products
  <2>3. end(i - 1) = (i - 1) * C
    BY <2>1
  <2> DEFINE x == (i - 1) * C
             y == n * C
             z == i * C
  <2>4. z = x + C /\ x \in Nat /\ x + C <= y /\ L <= y /\ y < L + C /\ z \in Nat /\ y \in Nat
    BY <1>2, <1>3, <2>2
  <2>5. CASE i < n
    <3>1. z + C <= y
      BY <1>2, <1>3, <2>5, Products
    <3>2. end(i) = z
      BY <2>5
    <3> HIDE DEF x, y, z
    <3>3. end(i) \in Nat /\ end(i) <= L /\ end(i) - x \in 1 .. C
      BY <1>2, <2>4, <3>1, <3>2
    <3> QED BY <2>3, <2>4, <3>3 DEF x
  <2>6. CASE ~(i < n)
    <3>1. i = n /\ z = y /\ end(i) = L
      BY <1>3, <2>6
    <3> HIDE DEF x, y, z
    <3>2. end(i) \in Nat /\ end(i) <= L /\ end(i) - x \in 1 .. C
      BY <1>2, <2>4, <3>1
    <3> QED BY <2>3, <2>4, <3>2 DEF x
  <2> QED BY <2>5, <2>6
<1> HIDE DEF end
<1>6. ASSUME NEW i \in 1 .. n
      PROVE  ds[i] = Run(a + (i - 1) * C, a + end(i))
  <2> DEFINE x == (i - 1) * C
             e == end(i)
  <2>1. x \in Nat /\ e \in Nat /\ e <= L /\ e - x \in 1 .. C
    BY <1>5
  <2>2. ds[i] = SubSeq(t, x + 1, e)
    BY <1>4
  <2> HIDE DEF x, e
  <2>3. x + 1 \in 1 .. Len(t) /\ e \in x .. Len(t)
    BY <1>1, <1>2, <2>1
  <2>4. /\ SubSeq(t, x + 1, e) \in Seq(Nat)
        /\ Len(SubSeq(t, x + 1, e)) = e - x
        /\ \A j \in 1 .. e - x : SubSeq(t, x + 1, e)[j] = t[x + j]
    <3>1. \A j \in 1 .. (e - (x + 1)) + 1 : SubSeq(t, x + 1, e)[j] = t[(x + 1) + j - 1]
      BY <1>1, <2>1, <2>3
    <3> QED BY <1>1, <1>2, <2>1, <2>3, <3>1
  <2>5. \A j \in 1 .. e - x : t[x + j] = (a + x) + j
    <3> TAKE j \in 1 .. e - x
    <3>1. x + j \in 1 .. L
      BY <1>2, <2>1
    <3> QED BY <1>1, <2>1, <3>1
  <2>6. /\ Run(a + x, a + e) \in Seq(Nat) /\ Len(Run(a + x, a + e)) = e - x
        /\ \A j \in 1 .. e - x : Run(a + x, a + e)[j] = (a + x) + j
    <3>1. a + x \in Nat /\ a + e \in Nat /\ a + x <= a + e /\ (a + e) - (a + x) = e - x
      BY <2>1
    <3>2. /\ Run(a + x, a + e) \in Seq(Nat)
          /\ Len(Run(a + x, a + e)) = (a + e) - (a + x)
          /\ \A j \in 1 .. (a + e) - (a + x) : Run(a + x, a + e)[j] = (a + x) + j
      BY <3>1, RunType
    <3> QED BY <3>1, <3>2
  <2>7. SubSeq(t, x + 1, e) = Run(a + x, a + e)
    <3> DEFINE u == SubSeq(t, x + 1, e)
               v == Run(a + x, a + e)
    <3>1. u \in Seq(Nat) /\ v \in Seq(Nat) /\ Len(u) = e - x /\ Len(v) = e - x
      BY <2>4, <2>6
    <3>2. \A j \in 1 .. e - x : u[j] = v[j]
      BY <2>4, <2>5, <2>6
    <3> HIDE DEF u, v
    <3>3. u = v
      BY <3>1, <3>2, SeqEqual
    <3> QED BY <3>3 DEF u, v
  <2> QED BY <2>2, <2>7 DEF x, e
<1>7. \A i \in 0 .. n : p[i] = a + end(i)
  OBVIOUS
<1>8. end(0) = 0 /\ end(n) = L
  <2>1. end(n) = L
    BY <1>3 DEF end
  <2>2. CASE n = 0
    <3>1. 0 * C = 0
      BY <1>2
    <3> QED BY <1>2, <1>3, <2>1, <2>2, <3>1
  <2>3. CASE n # 0
    <3>1. 1 \in 1 .. n /\ 1 - 1 = 0
      BY <1>3, <2>3
    <3>2. end(1 - 1) = (1 - 1) * C
      BY <3>1, <1>5
    <3>3. 0 * C = 0
      BY <1>2
    <3> QED BY <2>1, <3>1, <3>2, <3>3
  <2> QED BY <2>2, <2>3
<1>9. \A i \in 0 .. n : end(i) \in Nat
  <2> TAKE i \in 0 .. n
  <2>1. i = 0 \/ i \in 1 .. n
    BY <1>3
  <2> QED BY <2>1, <1>5, <1>8
<1>10. p \in [0 .. n -> Nat]
  BY <1>9
<1>11. ASSUME NEW i \in 1 .. n
       PROVE  p[i - 1] <= p[i] /\ ds[i] = Run(p[i - 1], p[i]) /\ p[i] - p[i - 1] \in 1 .. C
  <2> DEFINE x == (i - 1) * C
             e == end(i)
  <2>1. i \in 0 .. n /\ i - 1 \in 0 .. n
    BY <1>3
  <2>2. p[i] = a + e /\ p[i - 1] = a + x
    BY <1>5, <1>7, <2>1
  <2>3. x \in Nat /\ e \in Nat /\ e - x \in 1 .. C
    BY <1>5
  <2>4. ds[i] = Run(a + x, a + e)
    BY <1>6
  <2> HIDE DEF x, e, p
  <2> QED BY <1>2, <2>2, <2>3, <2>4
<1> HIDE DEF p
<1>12. DOMAIN ds = 1 .. n /\ \A i \in 1 .. n : ds[i] \in Seq(Nat) /\ Len(ds[i]) \in 1 .. C
  <2>1. DOMAIN ds = 1 .. n
    BY <1>4
  <2>2. ASSUME NEW i \in 1 .. n PROVE ds[i] \in Seq(Nat) /\ Len(ds[i]) \in 1 .. C
    <3>1. p[i - 1] \in Nat /\ p[i] \in Nat
      <4>1. i \in 0 .. n /\ i - 1 \in 0 .. n
        BY <1>3
      <4> QED BY <4>1, <1>10
    <3>2. ds[i] \in Seq(Nat) /\ Len(ds[i]) = p[i] - p[i - 1]
      BY <1>11, <3>1, RunType
    <3> QED BY <3>2, <1>11
  <2> QED BY <2>1, <2>2
<1>13. ds \in Seq(Seq(Nat)) /\ Len(ds) = n
  BY <1>3, <1>4, <1>12
<1>14. Chain(ds, p) /\ p[0] = a /\ p[Len(ds)] = b
  <2>1. p[0] = a /\ p[n] = b
    BY <1>3, <1>7, <1>8 DEF L
  <2> QED BY <1>10, <1>11, <1>13, <2>1 DEF Chain
<1>15. a < b => ds # << >>
  <2>1. a < b => n # 0
    <3>1. 0 * C = 0
      BY <1>2
    <3> QED BY <1>2, <1>3, <3>1 DEF L
  <2> QED BY <2>1, <1>13
<1> QED BY <1>12, <1>13, <1>14, <1>15 DEF Chained, ds, t, C

-----------------------------------------------------------------------------
(* The text splitter *)

\* A splitter that will put more chunks into its iterator.
Open(s) == s >= current \/ splitting[s] # << >>

\* What is emitted, what waits in the iterator and the text variable follow on
\* each other, and together they are the words fed.
Doc(s) ==
  \E m, k \in Nat :
    /\ Chained(emitted[s], 0, m) /\ Chained(chunks[s], m, k) /\ k <= splitFed[s]
    /\ IF Open(s) THEN text[s] = Run(k, splitFed[s]) ELSE k = splitFed[s]

\* A split in progress is of the text as it is: the processor waits for the
\* splits of a feed, and a document that is flushed is fed no more.
Pending(s) ==
  \/ /\ s = current /\ splitPc = "feeding"
     /\ splitting[s] = <<[by |-> "feed", words |-> text[s]]>>
  \/ /\ s < current /\ text[s] # << >>
     /\ splitting[s] = <<[by |-> "flush", words |-> text[s]]>>
  \/ ~(s = current /\ splitPc = "feeding") /\ splitting[s] = << >>

\* The empty chunk that ends an iterator is its last, and nothing comes behind.
Ended(s) ==
  /\ \A i \in DOMAIN chunks[s] :
       /\ Len(chunks[s][i]) <= ChunkSize
       /\ chunks[s][i] = << >> => i = Len(chunks[s]) /\ ~Open(s)
  /\ emitLoop[s] = "done" => chunks[s] = << >> /\ ~Open(s)
  /\ \A i \in DOMAIN emitted[s] : Len(emitted[s][i]) \in 1 .. ChunkSize

SplitType ==
  /\ splitPc \in {"reading", "feeding", "stats", "returned"}
  /\ inputs \in 0 .. MaxInputs /\ current \in 0 .. inputs
  /\ splitPc = "feeding" => current # 0 /\ Len(text[current]) > ChunkSize
  /\ splitFed \in [Splitter!Splitters -> Nat]
  /\ text \in [Splitter!Splitters -> Seq(Nat)]
  /\ splitting \in [Splitter!Splitters -> Seq([by : {"feed", "flush"}, words : Seq(Nat)])]
  /\ chunks \in [Splitter!Splitters -> Seq(Seq(Nat))]
  /\ emitLoop \in [Splitter!Splitters -> {"waiting", "emitting", "done"}]
  /\ emitted \in [Splitter!Splitters -> Seq(Seq(Nat))]

SplitInv == SplitType /\ \A s \in Splitter!Splitters : Doc(s) /\ Pending(s) /\ Ended(s)

LEMMA SplitInit == ASSUME Splitter!SplitterAssumption, Splitter!Init PROVE SplitInv
<1>1. SplitType
  BY DEF Splitter!SplitterAssumption, Splitter!Init, SplitType
<1>2. ASSUME NEW s \in Splitter!Splitters PROVE Doc(s) /\ Pending(s) /\ Ended(s)
  <2>1. /\ current = 0 /\ s \in Nat \ {0} /\ splitFed[s] = 0 /\ text[s] = << >>
        /\ splitting[s] = << >> /\ chunks[s] = << >> /\ emitLoop[s] = "waiting"
        /\ emitted[s] = << >> /\ splitPc = "reading"
    BY DEF Splitter!SplitterAssumption, Splitter!Init, Splitter!Splitters
  <2>2. Chained(<< >>, 0, 0) /\ Run(0, 0) = << >>
    BY ChainedEmpty DEF Run
  <2>3. Doc(s)
    <3>1. 0 \in Nat /\ 0 <= 0
      OBVIOUS
    <3>2. /\ Chained(emitted[s], 0, 0) /\ Chained(chunks[s], 0, 0) /\ 0 <= splitFed[s]
          /\ IF Open(s) THEN text[s] = Run(0, splitFed[s]) ELSE 0 = splitFed[s]
      BY <2>1, <2>2, <3>1
    <3> QED BY <3>1, <3>2 DEF Doc
  <2>4. Pending(s) /\ Ended(s)
    BY <2>1 DEF Pending, Ended
  <2> QED BY <2>3, <2>4
<1> QED BY <1>1, <1>2 DEF SplitInv

\* A splitter that nothing happens to.
LEMMA SplitFrame ==
  ASSUME NEW s, Doc(s), Ended(s), Open(s)' <=> Open(s),
         text'[s] = text[s], splitFed'[s] = splitFed[s], chunks'[s] = chunks[s],
         emitted'[s] = emitted[s], emitLoop'[s] = emitLoop[s]
  PROVE  Doc(s)' /\ Ended(s)'
<1>1. Doc(s)'
  BY DEF Doc
<1>2. Ended(s)'
  BY DEF Ended
<1> QED BY <1>1, <1>2

\* What is fed is put behind the text.
LEMMA FeedGrows ==
  ASSUME SplitInv, NEW s \in Splitter!Splitters, NEW n \in Nat, Open(s)
  PROVE  /\ Splitter!TextWith(s, n) \in Seq(Nat)
         /\ \A k \in Nat : k <= splitFed[s] /\ text[s] = Run(k, splitFed[s]) =>
              Splitter!TextWith(s, n) = Run(k, splitFed[s] + n)
<1> DEFINE f == splitFed[s]
           w == [i \in 1 .. n |-> f + i]
<1>1. f \in Nat /\ text[s] \in Seq(Nat)
  BY DEF SplitInv, SplitType
<1>2. w = Run(f, f + n)
  BY <1>1 DEF Run
<1>3. w \in Seq(Nat)
  BY <1>1
<1>4. Splitter!TextWith(s, n) = text[s] \o w
  BY DEF Splitter!TextWith
<1> HIDE DEF w, f
<1>5. \A k \in Nat : k <= f /\ text[s] = Run(k, f) => text[s] \o w = Run(k, f + n)
  <2> SUFFICES ASSUME NEW k \in Nat, k <= f, text[s] = Run(k, f) PROVE text[s] \o w = Run(k, f + n)
    OBVIOUS
  <2>1. f + n \in Nat /\ f <= f + n
    BY <1>1
  <2>2. Run(k, f) \o Run(f, f + n) = Run(k, f + n)
    BY <1>1, <2>1, RunConcat
  <2> QED BY <1>2, <2>2
<1>6. text[s] \o w \in Seq(Nat)
  BY <1>1, <1>3, ConcatProperties
<1> QED
  <2> DEFINE T == Splitter!TextWith(s, n)
             t == text[s] \o w
  <2>1. T = t /\ t \in Seq(Nat)
    BY <1>4, <1>6
  <2>2. \A k \in Nat : k <= f /\ text[s] = Run(k, f) => t = Run(k, f + n)
    BY <1>5
  <2> HIDE DEF T, t
  <2> QED BY <2>1, <2>2 DEF T, f

\* The splitter that is fed, in ReadMore and in ReadNext.
LEMMA FedSplitter ==
  ASSUME Splitter!SplitterAssumption, SplitInv, NEW s \in Splitter!Splitters, NEW n \in Nat,
         s >= current, splitPc = "reading", current' = s, current' \in Nat,
         Splitter!Feed(s, n), splitting'[s] = Splitter!SplitOf(s, n),
         chunks'[s] = chunks[s], emitLoop' = emitLoop, emitted' = emitted
  PROVE  /\ Doc(s)' /\ Pending(s)' /\ Ended(s)'
         /\ text' \in [Splitter!Splitters -> Seq(Nat)]
         /\ splitFed' \in [Splitter!Splitters -> Nat]
         /\ splitPc' \in {"feeding", "stats"}
         /\ splitPc' = "feeding" => Len(text'[s]) > ChunkSize
         /\ splitting'[s] \in Seq([by : {"feed", "flush"}, words : Seq(Nat)])
<1>1. Open(s) /\ Open(s)' /\ s \in Nat /\ s >= current'
  BY DEF Open, Splitter!Splitters
<1>2. Doc(s) /\ Ended(s) /\ SplitType
  BY DEF SplitInv
<1> DEFINE t == Splitter!TextWith(s, n)
<1>3. t \in Seq(Nat)
  BY <1>1, FeedGrows
<1>4. /\ text' = [text EXCEPT ![s] = t] /\ splitFed' = [splitFed EXCEPT ![s] = @ + n]
      /\ splitPc' = IF Len(t) > ChunkSize THEN "feeding" ELSE "stats"
      /\ splitting'[s] = IF Len(t) > ChunkSize THEN <<[by |-> "feed", words |-> t]>> ELSE << >>
  BY DEF Splitter!Feed, Splitter!SplitOf
<1>5. text'[s] = t /\ splitFed'[s] = splitFed[s] + n /\ splitFed[s] \in Nat
  BY <1>2, <1>4 DEF SplitType
<1>6. Doc(s)'
  <2>1. PICK m \in Nat, k \in Nat :
          /\ Chained(emitted[s], 0, m) /\ Chained(chunks[s], m, k) /\ k <= splitFed[s]
          /\ text[s] = Run(k, splitFed[s])
    BY <1>1, <1>2 DEF Doc
  <2>2. text'[s] = Run(k, splitFed'[s])
    BY <1>1, <1>5, <2>1, FeedGrows
  <2>3. k <= splitFed'[s] /\ emitted'[s] = emitted[s]
    BY <1>5, <2>1
  <2>4. /\ Chained(emitted'[s], 0, m) /\ Chained(chunks'[s], m, k) /\ k <= splitFed'[s]
        /\ IF Open(s)' THEN text'[s] = Run(k, splitFed'[s]) ELSE k = splitFed'[s]
    BY <1>1, <2>1, <2>2, <2>3
  <2> QED BY <2>4 DEF Doc
<1>7. Ended(s)'
  <2>1. chunks'[s] = chunks[s] /\ emitted'[s] = emitted[s] /\ emitLoop'[s] = emitLoop[s]
    OBVIOUS
  <2> QED BY <1>1, <1>2, <2>1 DEF Ended
<1>8. Pending(s)'
  BY <1>4, <1>5 DEF Pending
<1>9. /\ text' \in [Splitter!Splitters -> Seq(Nat)]
      /\ splitFed' \in [Splitter!Splitters -> Nat]
  BY <1>2, <1>3, <1>4 DEF SplitType
<1>10. splitting'[s] \in Seq([by : {"feed", "flush"}, words : Seq(Nat)])
  <2> HIDE DEF t
  <2>1. [by |-> "feed", words |-> t] \in [by : {"feed", "flush"}, words : Seq(Nat)]
    BY <1>3
  <2> DEFINE R == [by : {"feed", "flush"}, words : Seq(Nat)]
             x == [by |-> "feed", words |-> t]
  <2> HIDE DEF R, x
  <2>2. << >> \in Seq(R) /\ <<x>> \in Seq(R)
    BY <2>1 DEF R, x
  <2> QED BY <1>4, <2>2 DEF R, x
<1> QED BY <1>4, <1>5, <1>6, <1>7, <1>8, <1>9, <1>10

\* An input of the current document.
LEMMA SplitMore ==
  ASSUME Splitter!SplitterAssumption, SplitInv, NEW n \in PieceSizes, Splitter!ReadMore(n)
  PROVE  SplitInv'
<1>1. n \in Nat /\ MaxInputs \in Nat /\ SplitType
  BY DEF SplitInv, Splitter!SplitterAssumption
<1>2. /\ splitPc = "reading" /\ current # 0 /\ current' = current
      /\ splitting' = [splitting EXCEPT ![current] = @ \o Splitter!SplitOf(current, n)]
      /\ chunks' = chunks /\ emitLoop' = emitLoop /\ emitted' = emitted
      /\ Splitter!Feed(current, n)
  BY DEF Splitter!ReadMore
<1>3. /\ inputs' = inputs + 1 /\ inputs \in Nat /\ inputs < MaxInputs
      /\ current \in 1 .. MaxInputs /\ current \in 0 .. inputs
      /\ inputs' \in 0 .. MaxInputs /\ current' \in 0 .. inputs'
  BY <1>1, <1>2 DEF SplitType, Splitter!Feed
<1>4. PICK c \in Splitter!Splitters : c = current
  BY <1>3 DEF Splitter!Splitters
<1>5. c \in Nat /\ Splitter!Feed(c, n)
  BY <1>2, <1>3, <1>4
<1>6. splitting[c] = << >>
  <2>1. Pending(c)
    BY DEF SplitInv
  <2> QED BY <1>2, <1>3, <1>4, <2>1 DEF Pending
<1>7. splitting'[c] = Splitter!SplitOf(c, n)
  <2>1. splitting'[c] = << >> \o Splitter!SplitOf(c, n)
    BY <1>1, <1>2, <1>4, <1>6 DEF SplitType
  <2>2. Splitter!SplitOf(c, n) = << >> \o Splitter!SplitOf(c, n)
    BY DEF Splitter!SplitOf
  <2> QED BY <2>1, <2>2
<1>8. /\ Doc(c)' /\ Pending(c)' /\ Ended(c)'
      /\ text' \in [Splitter!Splitters -> Seq(Nat)]
      /\ splitFed' \in [Splitter!Splitters -> Nat]
      /\ splitPc' \in {"feeding", "stats"}
      /\ splitPc' = "feeding" => Len(text'[c]) > ChunkSize
      /\ splitting'[c] \in Seq([by : {"feed", "flush"}, words : Seq(Nat)])
  <2>1. c >= current /\ current' = c /\ current' \in Nat /\ chunks'[c] = chunks[c]
    BY <1>2, <1>3, <1>4
  <2> QED BY <1>1, <1>2, <1>5, <1>7, <2>1, FedSplitter
<1>9. ASSUME NEW s \in Splitter!Splitters, s # c PROVE Doc(s)' /\ Pending(s)' /\ Ended(s)'
  <2>1. /\ text'[s] = text[s] /\ splitFed'[s] = splitFed[s] /\ splitting'[s] = splitting[s]
        /\ chunks'[s] = chunks[s] /\ emitted'[s] = emitted[s] /\ emitLoop'[s] = emitLoop[s]
    BY <1>1, <1>2, <1>4, <1>9 DEF SplitType, Splitter!Feed
  <2>2. Open(s)' <=> Open(s)
    BY <1>2, <2>1 DEF Open
  <2>3. Doc(s)' /\ Ended(s)'
    BY <2>1, <2>2, SplitFrame DEF SplitInv
  <2>4. Pending(s)
    BY DEF SplitInv
  <2>5. Pending(s)'
    BY <1>2, <1>4, <1>9, <2>1, <2>4 DEF Pending
  <2> QED BY <2>3, <2>5
<1>10. splitting' \in [Splitter!Splitters -> Seq([by : {"feed", "flush"}, words : Seq(Nat)])]
  <2> DEFINE R == Seq([by : {"feed", "flush"}, words : Seq(Nat)])
  <2>1. splitting \in [Splitter!Splitters -> R] /\ splitting'[c] \in R
    BY <1>1, <1>8 DEF SplitType
  <2> HIDE DEF R
  <2> QED BY <1>2, <1>4, <2>1 DEF R
<1>11. SplitType'
  BY <1>1, <1>2, <1>3, <1>4, <1>8, <1>10 DEF SplitType
<1> QED BY <1>8, <1>9, <1>11 DEF SplitInv

\* An input of another document: the splitter before has a flush in progress,
\* or the end of its iterator.
LEMMA SplitNext ==
  ASSUME Splitter!SplitterAssumption, SplitInv, NEW n \in PieceSizes, Splitter!ReadNext(n)
  PROVE  SplitInv'
<1>1. n \in Nat /\ MaxInputs \in Nat /\ ChunkSize \in Nat /\ SplitType
  BY DEF SplitInv, Splitter!SplitterAssumption
<1>2. /\ splitPc = "reading" /\ inputs < MaxInputs /\ current' = current + 1
      /\ emitLoop' = emitLoop /\ emitted' = emitted
      /\ Splitter!Feed(current + 1, n)
  BY DEF Splitter!ReadNext
<1>3. /\ inputs' = inputs + 1 /\ inputs \in Nat /\ current \in Nat
      /\ current + 1 \in 1 .. MaxInputs
      /\ inputs' \in 0 .. MaxInputs /\ current' \in 0 .. inputs' /\ current' # 0
  BY <1>1, <1>2 DEF SplitType, Splitter!Feed
<1>4. PICK d \in Splitter!Splitters : d = current + 1
  BY <1>3 DEF Splitter!Splitters
<1>5. /\ d \in Nat /\ Splitter!Feed(d, n) /\ current' = d /\ current = d - 1
      /\ Splitter!Splitters \subseteq Nat /\ d # d - 1 /\ d - 1 < d /\ d >= d - 1
  BY <1>2, <1>3, <1>4 DEF Splitter!Splitters
<1>6. \A s \in Splitter!Splitters :
        /\ splitting'[s] =
             IF s = d THEN Splitter!SplitOf(s, n)
             ELSE IF s = d - 1 /\ text[s] # << >> THEN <<[by |-> "flush", words |-> text[s]]>>
             ELSE splitting[s]
        /\ chunks'[s] = IF s = d - 1 /\ text[s] = << >> THEN Append(chunks[s], << >>) ELSE chunks[s]
  BY <1>4, <1>5 DEF Splitter!ReadNext
<1>7. /\ Doc(d)' /\ Pending(d)' /\ Ended(d)'
      /\ text' \in [Splitter!Splitters -> Seq(Nat)]
      /\ splitFed' \in [Splitter!Splitters -> Nat]
      /\ splitPc' \in {"feeding", "stats"}
      /\ splitPc' = "feeding" => Len(text'[d]) > ChunkSize
      /\ splitting'[d] \in Seq([by : {"feed", "flush"}, words : Seq(Nat)])
  <2>1. /\ d >= current /\ current' \in Nat /\ chunks'[d] = chunks[d]
        /\ splitting'[d] = Splitter!SplitOf(d, n)
    <3> HIDE DEF Splitter!SplitOf
    <3> QED BY <1>3, <1>5, <1>6
  <2> QED BY <1>1, <1>2, <1>5, <2>1, FedSplitter
<1>8. ASSUME NEW s \in Splitter!Splitters, s # d
      PROVE  /\ s \in Nat /\ text'[s] = text[s] /\ splitFed'[s] = splitFed[s]
             /\ emitted'[s] = emitted[s] /\ emitLoop'[s] = emitLoop[s]
             /\ Doc(s) /\ Pending(s) /\ Ended(s)
             /\ text[s] \in Seq(Nat) /\ splitFed[s] \in Nat /\ chunks[s] \in Seq(Seq(Nat))
  <2>1. text'[s] = text[s] /\ splitFed'[s] = splitFed[s]
    BY <1>1, <1>5, <1>8 DEF SplitType, Splitter!Feed
  <2> QED BY <1>1, <1>2, <1>5, <2>1 DEF SplitInv, SplitType
<1>9. ASSUME NEW s \in Splitter!Splitters, s # d, s # d - 1
      PROVE  Doc(s)' /\ Pending(s)' /\ Ended(s)'
  <2>1. splitting'[s] = splitting[s] /\ chunks'[s] = chunks[s]
    BY <1>6, <1>9
  <2>2. Open(s)' <=> Open(s)
    <3>1. s >= current' <=> s >= current
      BY <1>5, <1>8, <1>9
    <3> QED BY <2>1, <3>1 DEF Open
  <2>3. Doc(s)' /\ Ended(s)'
    BY <1>8, <1>9, <2>1, <2>2, SplitFrame
  <2>4. Pending(s)'
    <3>1. ~(s = current /\ splitPc = "feeding") /\ ~(s = current' /\ splitPc' = "feeding")
      BY <1>2, <1>5, <1>9
    <3>2. CASE splitting[s] = << >>
      BY <2>1, <3>1, <3>2 DEF Pending
    <3>3. CASE splitting[s] # << >>
      <4>1. /\ s < current /\ text[s] # << >>
            /\ splitting[s] = <<[by |-> "flush", words |-> text[s]]>>
        BY <1>8, <1>9, <3>1, <3>3 DEF Pending
      <4>2. s < current'
        BY <1>5, <1>8, <1>9, <4>1
      <4> QED BY <1>8, <1>9, <2>1, <4>1, <4>2 DEF Pending
    <3> QED BY <3>2, <3>3
  <2> QED BY <2>3, <2>4
<1>10. ASSUME NEW s \in Splitter!Splitters, s = d - 1, text[s] # << >>
       PROVE  Doc(s)' /\ Pending(s)' /\ Ended(s)'
  <2>1. splitting'[s] = <<[by |-> "flush", words |-> text[s]]>> /\ chunks'[s] = chunks[s] /\ s # d
    <3>1. s # d
      BY <1>5, <1>10
    <3> QED BY <1>6, <1>10, <3>1
  <2>2. Open(s)' /\ Open(s)
    BY <1>5, <1>8, <1>10, <2>1 DEF Open
  <2>3. Doc(s)' /\ Ended(s)'
    BY <1>8, <2>1, <2>2, SplitFrame
  <2>4. s < current' /\ text'[s] # << >>
    BY <1>5, <1>8, <1>10, <2>1
  <2>5. Pending(s)'
    BY <1>8, <2>1, <2>4 DEF Pending
  <2> QED BY <2>3, <2>5
<1>11. ASSUME NEW s \in Splitter!Splitters, s = d - 1, text[s] = << >>
       PROVE  Doc(s)' /\ Pending(s)' /\ Ended(s)'
  <2>1. /\ splitting'[s] = splitting[s] /\ chunks'[s] = Append(chunks[s], << >>) /\ s # d
        /\ s = current
    <3>1. s # d /\ s = current
      BY <1>5, <1>11
    <3> QED BY <1>6, <1>11, <3>1
  <2>2. splitting[s] = << >> /\ Pending(s)'
    <3>1. splitPc # "feeding" /\ ~(s < current) /\ s # current'
      BY <1>2, <1>5, <1>8, <2>1
    <3>2. splitting[s] = << >>
      BY <1>8, <2>1, <3>1 DEF Pending
    <3> QED BY <2>1, <3>1, <3>2 DEF Pending
  <2>3. Open(s) /\ ~Open(s)'
    BY <1>5, <1>8, <2>1, <2>2 DEF Open
  <2>4. PICK m \in Nat, k \in Nat :
          /\ Chained(emitted[s], 0, m) /\ Chained(chunks[s], m, k) /\ k <= splitFed[s]
          /\ text[s] = Run(k, splitFed[s])
    BY <1>8, <2>1, <2>3 DEF Doc
  <2>5. k = splitFed[s]
    <3>1. Len(Run(k, splitFed[s])) = splitFed[s] - k
      BY <1>8, <2>1, <2>4, RunType
    <3>2. Len(text[s]) = 0
      BY <1>11
    <3> QED BY <1>8, <2>1, <2>4, <3>1, <3>2
  <2>6. Chained(chunks'[s], m, k)
    <3>1. Run(k, k) = << >>
      BY DEF Run
    <3>2. Chained(<< << >> >>, k, k) /\ << << >> >> \in Seq(Seq(Nat))
      BY <3>1, ChainedOne
    <3>3. Chained(chunks[s] \o << << >> >>, m, k)
      BY <1>8, <2>1, <2>4, <3>2, ChainedConcat
    <3>4. Append(chunks[s], << >>) = chunks[s] \o << << >> >>
      BY <1>8, <2>1, AppendIsConcat
    <3> QED BY <2>1, <3>3, <3>4
  <2>7. Doc(s)'
    <3>1. /\ Chained(emitted'[s], 0, m) /\ Chained(chunks'[s], m, k) /\ k <= splitFed'[s]
          /\ IF Open(s)' THEN text'[s] = Run(k, splitFed'[s]) ELSE k = splitFed'[s]
      BY <1>8, <2>1, <2>3, <2>4, <2>5, <2>6
    <3> QED BY <3>1 DEF Doc
  <2>8. Ended(s)'
    <3>1. /\ Len(chunks'[s]) = Len(chunks[s]) + 1 /\ Len(chunks[s]) \in Nat
          /\ DOMAIN chunks'[s] = 1 .. Len(chunks[s]) + 1
          /\ \A i \in 1 .. Len(chunks[s]) : chunks'[s][i] = chunks[s][i]
          /\ chunks'[s][Len(chunks[s]) + 1] = << >>
      <4> DEFINE q == chunks[s]
                 e == << >>
      <4>1. q \in Seq(Seq(Nat)) /\ e \in Seq(Nat)
        BY <1>8, <2>1
      <4> HIDE DEF q, e
      <4>2. /\ Len(Append(q, e)) = Len(q) + 1 /\ Len(q) \in Nat
            /\ DOMAIN Append(q, e) = 1 .. Len(q) + 1
            /\ \A i \in 1 .. Len(q) : Append(q, e)[i] = q[i]
            /\ Append(q, e)[Len(q) + 1] = e
        BY <4>1
      <4> QED BY <2>1, <4>2 DEF q, e
    <3>2. \A i \in 1 .. Len(chunks[s]) : Len(chunks[s][i]) <= ChunkSize /\ chunks[s][i] # << >>
      BY <1>8, <2>1, <2>3 DEF Ended
    <3>3. Len(<< >>) <= ChunkSize
      BY <1>1
    <3>4. emitLoop[s] # "done"
      BY <1>8, <2>1, <2>3 DEF Ended
    <3>5. ASSUME NEW i \in DOMAIN chunks'[s]
          PROVE  /\ Len(chunks'[s][i]) <= ChunkSize
                 /\ chunks'[s][i] = << >> => i = Len(chunks'[s]) /\ ~Open(s)'
      <4>1. CASE i \in 1 .. Len(chunks[s])
        BY <3>1, <3>2, <4>1
      <4>2. CASE i = Len(chunks[s]) + 1
        BY <2>3, <3>1, <3>3, <4>2
      <4> QED BY <3>1, <4>1, <4>2
    <3>6. \A i \in DOMAIN emitted'[s] : Len(emitted'[s][i]) \in 1 .. ChunkSize
      BY <1>8, <2>1 DEF Ended
    <3>7. emitLoop'[s] # "done"
      BY <1>8, <2>1, <3>4
    <3> QED BY <3>5, <3>6, <3>7 DEF Ended
  <2> QED BY <2>2, <2>7, <2>8
<1>12. splitting' \in [Splitter!Splitters -> Seq([by : {"feed", "flush"}, words : Seq(Nat)])]
  <2> DEFINE R == [by : {"feed", "flush"}, words : Seq(Nat)]
  <2>1. splitting' = [s \in Splitter!Splitters |-> splitting'[s]]
    BY DEF Splitter!ReadNext
  <2>2. ASSUME NEW s \in Splitter!Splitters PROVE splitting'[s] \in Seq(R)
    <3>1. splitting[s] \in Seq(R) /\ text[s] \in Seq(Nat)
      BY <1>1 DEF SplitType
    <3>2. [by |-> "flush", words |-> text[s]] \in R
      BY <3>1
    <3>3. splitting'[d] \in Seq(R)
      BY <1>7
    <3> DEFINE x == [by |-> "flush", words |-> text[s]]
    <3> HIDE DEF R, x
    <3>4. <<x>> \in Seq(R)
      BY <3>2 DEF x
    <3> QED BY <1>6, <3>1, <3>3, <3>4 DEF x
  <2> HIDE DEF R
  <2> QED BY <2>1, <2>2 DEF R
<1>13. chunks' \in [Splitter!Splitters -> Seq(Seq(Nat))]
  <2>1. chunks' = [s \in Splitter!Splitters |-> chunks'[s]]
    BY DEF Splitter!ReadNext
  <2>2. ASSUME NEW s \in Splitter!Splitters PROVE chunks'[s] \in Seq(Seq(Nat))
    <3>1. chunks[s] \in Seq(Seq(Nat)) /\ << >> \in Seq(Nat)
      BY <1>1 DEF SplitType
    <3>2. Append(chunks[s], << >>) \in Seq(Seq(Nat))
      BY <3>1, AppendProperties
    <3> QED BY <1>6, <3>1, <3>2
  <2> QED BY <2>1, <2>2
<1>14. SplitType'
  BY <1>1, <1>2, <1>3, <1>5, <1>7, <1>12, <1>13 DEF SplitType
<1> QED BY <1>7, <1>9, <1>10, <1>11, <1>14 DEF SplitInv

\* createDocuments is through: the first chunk moves from the text to the
\* iterator, or, in a flush, all of them and the end.
LEMMA SplitThrough ==
  ASSUME Splitter!SplitterAssumption, SplitInv, NEW s \in Splitter!Splitters, Splitter!SplitDone(s)
  PROVE  SplitInv'
<1>1. /\ SplitType /\ Doc(s) /\ Pending(s) /\ Ended(s) /\ s \in Nat /\ current \in Nat
      /\ ChunkSize \in Nat \ {0}
  BY DEF SplitInv, SplitType, Splitter!Splitters, Splitter!SplitterAssumption
<1>2. /\ splitting[s] # << >> /\ splitting' = [splitting EXCEPT ![s] = Tail(@)]
      /\ inputs' = inputs /\ current' = current /\ splitFed' = splitFed
      /\ emitLoop' = emitLoop /\ emitted' = emitted
  BY DEF Splitter!SplitDone
<1>3. /\ text[s] \in Seq(Nat) /\ splitFed[s] \in Nat /\ chunks[s] \in Seq(Seq(Nat))
      /\ text \in [Splitter!Splitters -> Seq(Nat)] /\ chunks \in [Splitter!Splitters -> Seq(Seq(Nat))]
  BY <1>1 DEF SplitType
<1> DEFINE feeding == s = current /\ splitPc = "feeding"
<1>4. /\ Len(splitting[s]) = 1 /\ Head(splitting[s]).words = text[s]
      /\ Head(splitting[s]).by = IF feeding THEN "feed" ELSE "flush"
      /\ ~feeding => s < current /\ text[s] # << >>
      /\ Tail(splitting[s]) = << >>
  <2>1. CASE feeding
    <3>1. splitting[s] = <<[by |-> "feed", words |-> text[s]]>>
      BY <1>1, <1>2, <2>1 DEF Pending
    <3> QED BY <2>1, <3>1
  <2>2. CASE ~feeding
    <3>1. splitting[s] = <<[by |-> "flush", words |-> text[s]]>> /\ s < current /\ text[s] # << >>
      BY <1>1, <1>2, <2>2 DEF Pending
    <3> QED BY <2>2, <3>1
  <2> QED BY <2>1, <2>2
<1>5. splitting'[s] = << >>
  BY <1>1, <1>2, <1>4 DEF SplitType
<1>6. Open(s)
  BY <1>2 DEF Open
<1>7. PICK m \in Nat, k \in Nat :
        /\ Chained(emitted[s], 0, m) /\ Chained(chunks[s], m, k) /\ k <= splitFed[s]
        /\ text[s] = Run(k, splitFed[s])
  BY <1>1, <1>6 DEF Doc
<1> DEFINE f == splitFed[s]
           ds == Splitter!Documents(text[s])
<1>8. /\ ds \in Seq(Seq(Nat)) /\ Chained(ds, k, f)
      /\ \A i \in DOMAIN ds : Len(ds[i]) \in 1 .. ChunkSize
      /\ k < f => ds # << >>
  BY <1>3, <1>7, DocumentsChain
<1>9. text[s] # << >> => k < f
  <2>1. k = f => Run(k, f) = << >>
    BY <1>3, <1>7 DEF Run
  <2> QED BY <1>3, <1>7, <2>1
<1>10. CASE feeding
  <2>1. /\ text' = [text EXCEPT ![s] = Splitter!FlattenSeq(Tail(ds))]
        /\ chunks' = [chunks EXCEPT ![s] = Append(@, Head(ds))]
        /\ splitPc' = "stats"
    BY <1>4, <1>10 DEF Splitter!SplitDone
  <2>2. ds # << >> /\ s = current /\ splitPc = "feeding"
    <3>1. Len(text[s]) > ChunkSize
      BY <1>1, <1>10 DEF SplitType
    <3>2. text[s] # << >>
      BY <1>1, <3>1
    <3> QED BY <1>8, <1>9, <1>10, <3>2
  <2> HIDE DEF ds, f
  <2>3. PICK c \in Nat : /\ k <= c /\ c <= f
                         /\ Head(ds) = Run(k, c) /\ Chained(Tail(ds), c, f)
    BY <1>8, <2>2, ChainedHead
  <2>4. Tail(ds) \in Seq(Seq(Nat)) /\ Head(ds) \in Seq(Nat)
    BY <1>8, <2>2
  <2>5. Splitter!FlattenSeq(Tail(ds)) = Run(c, f)
    BY <2>3, <2>4, ChainedFlat
  <2>6. Chained(Append(chunks[s], Head(ds)), m, c)
    <3>1. Chained(<<Head(ds)>>, k, c) /\ <<Head(ds)>> \in Seq(Seq(Nat))
      BY <2>3, ChainedOne
    <3>2. Chained(chunks[s] \o <<Head(ds)>>, m, c)
      BY <1>3, <1>7, <3>1, ChainedConcat
    <3>3. Append(chunks[s], Head(ds)) = chunks[s] \o <<Head(ds)>>
      BY <1>3, <2>4, AppendIsConcat
    <3> QED BY <3>2, <3>3
  <2>7. /\ text'[s] = Run(c, f) /\ chunks'[s] = Append(chunks[s], Head(ds))
        /\ splitFed'[s] = f /\ emitted'[s] = emitted[s] /\ emitLoop'[s] = emitLoop[s]
    BY <1>2, <1>3, <2>1, <2>5 DEF f
  <2>8. Open(s)'
    BY <1>1, <1>2, <2>2 DEF Open
  <2>9. Doc(s)'
    <3>1. /\ Chained(emitted'[s], 0, m) /\ Chained(chunks'[s], m, c) /\ c <= splitFed'[s]
          /\ IF Open(s)' THEN text'[s] = Run(c, splitFed'[s]) ELSE c = splitFed'[s]
      BY <1>7, <2>3, <2>6, <2>7, <2>8
    <3> QED BY <3>1 DEF Doc
  <2>10. Ended(s)'
    <3> DEFINE q == chunks[s]
               e == Head(ds)
    <3>1. Len(e) \in 1 .. ChunkSize /\ e # << >>
      <4>1. e = ds[1] /\ 1 \in DOMAIN ds
        BY <1>8, <2>2
      <4>2. Len(e) \in 1 .. ChunkSize
        BY <1>8, <4>1
      <4> QED BY <1>1, <4>2
    <3>2. /\ \A i \in DOMAIN q : Len(q[i]) <= ChunkSize /\ q[i] # << >>
          /\ emitLoop[s] # "done"
          /\ \A i \in DOMAIN emitted[s] : Len(emitted[s][i]) \in 1 .. ChunkSize
      BY <1>1, <1>6 DEF Ended
    <3>3. q \in Seq(Seq(Nat)) /\ e \in Seq(Nat)
      BY <1>3, <2>4
    <3> HIDE DEF q, e
    <3>4. /\ DOMAIN Append(q, e) = 1 .. Len(q) + 1 /\ DOMAIN q = 1 .. Len(q) /\ Len(q) \in Nat
          /\ \A i \in 1 .. Len(q) : Append(q, e)[i] = q[i]
          /\ Append(q, e)[Len(q) + 1] = e
      BY <3>3
    <3>5. \A i \in DOMAIN Append(q, e) : Len(Append(q, e)[i]) <= ChunkSize /\ Append(q, e)[i] # << >>
      <4> TAKE i \in DOMAIN Append(q, e)
      <4>1. CASE i = Len(q) + 1
        BY <1>1, <3>1, <3>4, <4>1
      <4>2. CASE i # Len(q) + 1
        <5>1. i \in 1 .. Len(q)
          BY <3>4, <4>2
        <5> QED BY <3>2, <3>4, <5>1
      <4> QED BY <4>1, <4>2
    <3>6. chunks'[s] = Append(q, e)
      BY <2>7 DEF q, e
    <3> QED BY <2>7, <3>2, <3>5, <3>6 DEF Ended
  <2>11. Pending(s)'
    BY <1>5, <2>1 DEF Pending
  <2>12. SplitType'
    <3>1. Run(c, f) \in Seq(Nat)
      BY <1>3, <2>3, RunType DEF f
    <3>2. text' \in [Splitter!Splitters -> Seq(Nat)]
      BY <1>3, <2>1, <2>5, <3>1
    <3>3. chunks' \in [Splitter!Splitters -> Seq(Seq(Nat))]
      <4>1. Append(chunks[s], Head(ds)) \in Seq(Seq(Nat))
        BY <1>3, <2>4, AppendProperties
      <4> QED BY <1>3, <2>1, <4>1
    <3>4. splitting' \in [Splitter!Splitters -> Seq([by : {"feed", "flush"}, words : Seq(Nat)])]
      <4> DEFINE R == [by : {"feed", "flush"}, words : Seq(Nat)]
      <4>1. splitting \in [Splitter!Splitters -> Seq(R)]
        BY <1>1 DEF SplitType
      <4> HIDE DEF R
      <4>2. splitting' \in [Splitter!Splitters -> Seq(R)]
        BY <1>2, <1>4, <4>1
      <4> QED BY <4>2 DEF R
    <3> QED BY <1>1, <1>2, <2>1, <3>2, <3>3, <3>4 DEF SplitType
  <2>13. splitPc' = "stats" /\ text' = [text EXCEPT ![s] = text'[s]] /\ chunks' = [chunks EXCEPT ![s] = chunks'[s]]
    BY <1>3, <2>1
  <2>14. ASSUME NEW o \in Splitter!Splitters, o # s PROVE Doc(o)' /\ Pending(o)' /\ Ended(o)'
    <3>1. /\ text'[o] = text[o] /\ splitFed'[o] = splitFed[o] /\ splitting'[o] = splitting[o]
          /\ chunks'[o] = chunks[o] /\ emitted'[o] = emitted[o] /\ emitLoop'[o] = emitLoop[o]
      BY <1>1, <1>2, <2>1, <2>14 DEF SplitType
    <3>2. Open(o)' <=> Open(o)
      BY <1>2, <3>1 DEF Open
    <3>3. Doc(o) /\ Pending(o) /\ Ended(o)
      BY DEF SplitInv
    <3>4. Doc(o)' /\ Ended(o)'
      BY <3>1, <3>2, <3>3, SplitFrame
    <3>5. Pending(o)'
      BY <1>2, <2>1, <2>2, <2>14, <3>1, <3>3 DEF Pending
    <3> QED BY <3>4, <3>5
  <2> QED BY <2>9, <2>10, <2>11, <2>12, <2>14 DEF SplitInv
<1>11. CASE ~feeding
  <2>1. /\ text' = text /\ splitPc' = splitPc
        /\ chunks' = [chunks EXCEPT ![s] = Append(@ \o ds, << >>)]
    BY <1>4, <1>11 DEF Splitter!SplitDone
  <2>2. ds # << >> /\ s < current /\ text[s] # << >>
    BY <1>4, <1>8, <1>9, <1>11
  <2> HIDE DEF ds, f
  <2> DEFINE q == chunks[s] \o ds
             e == << >>
  <2>3. q \in Seq(Seq(Nat)) /\ Chained(q, m, f)
    BY <1>3, <1>7, <1>8, ChainedConcat, ConcatProperties
  <2>4. Chained(Append(q, << >>), m, f)
    <3>1. Run(f, f) = << >> /\ f \in Nat /\ f <= f
      BY <1>3 DEF Run, f
    <3>2. Chained(<< << >> >>, f, f) /\ << << >> >> \in Seq(Seq(Nat))
      BY <3>1, ChainedOne
    <3> HIDE DEF q
    <3>3. Chained(q \o << << >> >>, m, f)
      BY <2>3, <3>2, ChainedConcat
    <3>4. Append(q, << >>) = q \o << << >> >>
      BY <2>3, AppendIsConcat
    <3> QED BY <3>3, <3>4
  <2>5. /\ text'[s] = text[s] /\ chunks'[s] = Append(q, e) /\ q = chunks[s] \o ds
        /\ splitFed'[s] = f /\ emitted'[s] = emitted[s] /\ emitLoop'[s] = emitLoop[s]
    BY <1>2, <1>3, <2>1 DEF f
  <2>6. ~Open(s)'
    BY <1>1, <1>2, <1>5, <2>2 DEF Open
  <2>7. Doc(s)'
    <3>1. f \in Nat /\ f <= f
      BY <1>3 DEF f
    <3>2. /\ Chained(emitted'[s], 0, m) /\ Chained(chunks'[s], m, f) /\ f <= splitFed'[s]
          /\ IF Open(s)' THEN text'[s] = Run(f, splitFed'[s]) ELSE f = splitFed'[s]
      BY <1>7, <2>4, <2>5, <2>6, <3>1
    <3> QED BY <3>1, <3>2 DEF Doc
  <2>8. Ended(s)'
    <3>1. /\ \A i \in DOMAIN chunks[s] : Len(chunks[s][i]) <= ChunkSize /\ chunks[s][i] # << >>
          /\ emitLoop[s] # "done"
          /\ \A i \in DOMAIN emitted[s] : Len(emitted[s][i]) \in 1 .. ChunkSize
      BY <1>1, <1>6 DEF Ended
    <3>2. \A i \in DOMAIN ds : Len(ds[i]) <= ChunkSize /\ ds[i] # << >>
      <4> TAKE i \in DOMAIN ds
      <4>1. Len(ds[i]) \in 1 .. ChunkSize
        BY <1>8
      <4> QED BY <1>1, <4>1
    <3>3. \A i \in DOMAIN q : Len(q[i]) <= ChunkSize /\ q[i] # << >>
      <4>1. /\ Len(q) = Len(chunks[s]) + Len(ds) /\ DOMAIN q = 1 .. Len(q)
            /\ \A i \in 1 .. Len(chunks[s]) + Len(ds) :
                 q[i] = IF i <= Len(chunks[s]) THEN chunks[s][i] ELSE ds[i - Len(chunks[s])]
        BY <1>3, <1>8, <2>3, ConcatProperties
      <4>2. Len(chunks[s]) \in Nat /\ Len(ds) \in Nat /\ DOMAIN chunks[s] = 1 .. Len(chunks[s])
            /\ DOMAIN ds = 1 .. Len(ds)
        BY <1>3, <1>8
      <4> HIDE DEF q
      <4> TAKE i \in DOMAIN q
      <4>3. CASE i <= Len(chunks[s])
        <5>1. i \in DOMAIN chunks[s] /\ q[i] = chunks[s][i]
          BY <4>1, <4>2, <4>3
        <5> QED BY <3>1, <5>1
      <4>4. CASE ~(i <= Len(chunks[s]))
        <5>1. i - Len(chunks[s]) \in DOMAIN ds /\ q[i] = ds[i - Len(chunks[s])]
          BY <4>1, <4>2, <4>4
        <5> QED BY <3>2, <5>1
      <4> QED BY <4>3, <4>4
    <3>4. q \in Seq(Seq(Nat)) /\ e \in Seq(Nat) /\ Len(e) = 0 /\ Len(e) <= ChunkSize
      BY <1>1, <2>3
    <3> HIDE DEF q, e
    <3>5. /\ DOMAIN Append(q, e) = 1 .. Len(q) + 1 /\ DOMAIN q = 1 .. Len(q) /\ Len(q) \in Nat
          /\ \A i \in 1 .. Len(q) : Append(q, e)[i] = q[i]
          /\ Append(q, e)[Len(q) + 1] = e /\ Len(Append(q, e)) = Len(q) + 1
      BY <3>4
    <3>6. ASSUME NEW i \in DOMAIN chunks'[s]
          PROVE  /\ Len(chunks'[s][i]) <= ChunkSize
                 /\ chunks'[s][i] = << >> => i = Len(chunks'[s]) /\ ~Open(s)'
      <4>1. CASE i \in 1 .. Len(q)
        BY <2>5, <3>3, <3>5, <4>1
      <4>2. CASE i = Len(q) + 1
        BY <2>5, <2>6, <3>4, <3>5, <4>2
      <4> QED BY <2>5, <3>5, <4>1, <4>2
    <3> QED BY <2>5, <3>1, <3>6 DEF Ended
  <2>9. Pending(s)'
    BY <1>2, <1>5, <1>11, <2>1 DEF Pending
  <2>10. SplitType'
    <3>1. chunks' \in [Splitter!Splitters -> Seq(Seq(Nat))]
      <4>1. Append(q, << >>) \in Seq(Seq(Nat))
        <5> HIDE DEF q
        <5> QED BY <2>3, AppendProperties
      <4> QED BY <1>3, <2>1, <4>1
    <3>2. splitting' \in [Splitter!Splitters -> Seq([by : {"feed", "flush"}, words : Seq(Nat)])]
      <4> DEFINE R == [by : {"feed", "flush"}, words : Seq(Nat)]
      <4>1. splitting \in [Splitter!Splitters -> Seq(R)]
        BY <1>1 DEF SplitType
      <4> HIDE DEF R
      <4>2. splitting' \in [Splitter!Splitters -> Seq(R)]
        BY <1>2, <1>4, <4>1
      <4> QED BY <4>2 DEF R
    <3> QED BY <1>1, <1>2, <2>1, <3>1, <3>2 DEF SplitType
  <2>11. ASSUME NEW o \in Splitter!Splitters, o # s PROVE Doc(o)' /\ Pending(o)' /\ Ended(o)'
    <3>1. /\ text'[o] = text[o] /\ splitFed'[o] = splitFed[o] /\ splitting'[o] = splitting[o]
          /\ chunks'[o] = chunks[o] /\ emitted'[o] = emitted[o] /\ emitLoop'[o] = emitLoop[o]
      BY <1>1, <1>2, <2>1, <2>11 DEF SplitType
    <3>2. Open(o)' <=> Open(o)
      BY <1>2, <3>1 DEF Open
    <3>3. Doc(o) /\ Pending(o) /\ Ended(o)
      BY DEF SplitInv
    <3>4. Doc(o)' /\ Ended(o)'
      BY <3>1, <3>2, <3>3, SplitFrame
    <3>5. Pending(o)'
      BY <1>2, <2>1, <3>1, <3>3 DEF Pending
    <3> QED BY <3>4, <3>5
  <2> QED BY <2>7, <2>8, <2>9, <2>10, <2>11 DEF SplitInv
<1> QED BY <1>10, <1>11

\* The emit loop takes a chunk, or the end.
LEMMA SplitTake ==
  ASSUME Splitter!SplitterAssumption, SplitInv, NEW s \in Splitter!Splitters, Splitter!TakeChunk(s)
  PROVE  SplitInv'
<1>1. /\ SplitType /\ Doc(s) /\ Pending(s) /\ Ended(s) /\ ChunkSize \in Nat \ {0}
  BY DEF SplitInv, Splitter!SplitterAssumption
<1> DEFINE q == chunks[s]
           e == emitted[s]
<1>2. /\ chunks \in [Splitter!Splitters -> Seq(Seq(Nat))] /\ q \in Seq(Seq(Nat))
      /\ emitted \in [Splitter!Splitters -> Seq(Seq(Nat))] /\ e \in Seq(Seq(Nat))
      /\ emitLoop \in [Splitter!Splitters -> {"waiting", "emitting", "done"}]
      /\ splitFed[s] \in Nat
  BY <1>1 DEF SplitType
<1>3. /\ q # << >> /\ emitLoop[s] = "waiting" /\ chunks' = [chunks EXCEPT ![s] = Tail(q)]
      /\ text' = text /\ splitting' = splitting /\ splitFed' = splitFed
      /\ current' = current /\ inputs' = inputs /\ splitPc' = splitPc
  BY DEF Splitter!TakeChunk
<1>4. IF Head(q) = << >>
      THEN emitLoop' = [emitLoop EXCEPT ![s] = "done"] /\ emitted' = emitted
      ELSE /\ emitLoop' = [emitLoop EXCEPT ![s] = "emitting"]
           /\ emitted' = [emitted EXCEPT ![s] = Append(e, Head(q))]
  BY DEF Splitter!TakeChunk
<1>5. PICK m \in Nat, k \in Nat :
        /\ Chained(e, 0, m) /\ Chained(q, m, k) /\ k <= splitFed[s]
        /\ IF Open(s) THEN text[s] = Run(k, splitFed[s]) ELSE k = splitFed[s]
  BY <1>1 DEF Doc
<1>6. /\ \A i \in DOMAIN q : /\ Len(q[i]) <= ChunkSize
                             /\ q[i] = << >> => i = Len(q) /\ ~Open(s)
      /\ \A i \in DOMAIN e : Len(e[i]) \in 1 .. ChunkSize
  BY <1>1 DEF Ended
<1>7. chunks'[s] = Tail(q) /\ (\A o \in Splitter!Splitters \ {s} : chunks'[o] = chunks[o])
  BY <1>2, <1>3
<1> HIDE DEF q, e
<1>8. PICK c \in Nat : m <= c /\ Head(q) = Run(m, c) /\ Chained(Tail(q), c, k)
  BY <1>2, <1>3, <1>5, ChainedHead
<1>9. /\ Tail(q) \in Seq(Seq(Nat)) /\ Head(q) \in Seq(Nat) /\ Head(q) = q[1]
      /\ 1 \in DOMAIN q /\ Len(q) \in Nat \ {0} /\ Len(Tail(q)) = Len(q) - 1
      /\ DOMAIN Tail(q) = 1 .. Len(q) - 1 /\ DOMAIN q = 1 .. Len(q)
      /\ \A i \in 1 .. Len(q) - 1 : Tail(q)[i] = q[i + 1]
  BY <1>2, <1>3, HeadTailProperties
<1>10. \A o \in Splitter!Splitters : Open(o)' <=> Open(o)
  BY <1>3 DEF Open
<1>11. \A i \in DOMAIN Tail(q) : /\ Len(Tail(q)[i]) <= ChunkSize
                                 /\ Tail(q)[i] = << >> => i = Len(Tail(q)) /\ ~Open(s)
  <2> TAKE i \in DOMAIN Tail(q)
  <2>1. i + 1 \in DOMAIN q /\ Tail(q)[i] = q[i + 1] /\ (i + 1 = Len(q) => i = Len(Tail(q)))
    <3>1. i \in 1 .. Len(q) - 1
      BY <1>9
    <3> DEFINE n == Len(q)
    <3>2. n \in Nat \ {0} /\ i \in 1 .. n - 1
      BY <1>9, <3>1
    <3> HIDE DEF n
    <3>3. i + 1 \in 1 .. n /\ (i + 1 = n => i = n - 1)
      BY <3>2
    <3> QED BY <1>9, <3>1, <3>3 DEF n
  <2> QED BY <1>6, <2>1
<1>12. CASE Head(q) = << >>
  <2>1. emitted' = emitted /\ emitLoop'[s] = "done"
        /\ \A o \in Splitter!Splitters \ {s} : emitLoop'[o] = emitLoop[o]
    BY <1>2, <1>4, <1>12
  <2>2. Tail(q) = << >> /\ ~Open(s)
    <3>1. Len(q) = 1 /\ ~Open(s)
      BY <1>6, <1>9, <1>12
    <3> QED BY <1>9, <3>1
  <2>3. c = m
    <3>1. Len(Run(m, c)) = c - m
      BY <1>8, RunType
    <3> QED BY <1>8, <1>12, <3>1
  <2>4. Doc(s)'
    <3>1. /\ Chained(emitted'[s], 0, m) /\ Chained(chunks'[s], m, k) /\ k <= splitFed'[s]
          /\ IF Open(s)' THEN text'[s] = Run(k, splitFed'[s]) ELSE k = splitFed'[s]
      BY <1>3, <1>5, <1>7, <1>8, <1>10, <2>1, <2>3 DEF e
    <3> QED BY <3>1 DEF Doc
  <2>5. Ended(s)'
    BY <1>6, <1>7, <1>10, <1>11, <2>1, <2>2 DEF Ended, e
  <2>6. Pending(s)'
    BY <1>1, <1>3 DEF Pending
  <2>7. SplitType'
    <3>1. chunks' \in [Splitter!Splitters -> Seq(Seq(Nat))]
      BY <1>2, <1>3, <1>9
    <3>2. emitLoop' \in [Splitter!Splitters -> {"waiting", "emitting", "done"}]
      BY <1>2, <1>4, <1>12
    <3> QED BY <1>1, <1>3, <2>1, <3>1, <3>2 DEF SplitType
  <2>8. ASSUME NEW o \in Splitter!Splitters, o # s PROVE Doc(o)' /\ Pending(o)' /\ Ended(o)'
    <3>1. Doc(o) /\ Pending(o) /\ Ended(o)
      BY DEF SplitInv
    <3>2. Doc(o)' /\ Ended(o)'
      BY <1>3, <1>7, <1>10, <2>1, <2>8, <3>1, SplitFrame
    <3>3. Pending(o)'
      BY <1>3, <3>1 DEF Pending
    <3> QED BY <3>2, <3>3
  <2> QED BY <2>4, <2>5, <2>6, <2>7, <2>8 DEF SplitInv
<1>13. CASE Head(q) # << >>
  <2>1. /\ emitLoop'[s] = "emitting" /\ emitted'[s] = Append(e, Head(q))
        /\ \A o \in Splitter!Splitters \ {s} : emitLoop'[o] = emitLoop[o] /\ emitted'[o] = emitted[o]
    BY <1>2, <1>4, <1>13
  <2>2. Chained(Append(e, Head(q)), 0, c)
    <3>1. Chained(<<Head(q)>>, m, c) /\ <<Head(q)>> \in Seq(Seq(Nat))
      BY <1>8, ChainedOne
    <3>2. Chained(e \o <<Head(q)>>, 0, c)
      BY <1>2, <1>5, <3>1, ChainedConcat
    <3>3. Append(e, Head(q)) = e \o <<Head(q)>>
      BY <1>2, <1>9, AppendIsConcat
    <3> QED BY <3>2, <3>3
  <2>3. Doc(s)'
    <3>1. /\ Chained(emitted'[s], 0, c) /\ Chained(chunks'[s], c, k) /\ k <= splitFed'[s]
          /\ IF Open(s)' THEN text'[s] = Run(k, splitFed'[s]) ELSE k = splitFed'[s]
      BY <1>3, <1>5, <1>7, <1>8, <1>10, <2>1, <2>2
    <3> QED BY <3>1 DEF Doc
  <2>4. Ended(s)'
    <3> DEFINE x == Head(q)
    <3>1. Len(x) \in 1 .. ChunkSize
      <4>1. Len(x) <= ChunkSize
        BY <1>6, <1>9
      <4>2. x \in Seq(Nat) /\ x # << >>
        BY <1>9, <1>13
      <4> HIDE DEF x
      <4>3. Len(x) \in Nat /\ Len(x) # 0
        BY <4>2
      <4> QED BY <1>1, <4>1, <4>3
    <3>2. x \in Seq(Nat)
      BY <1>9
    <3> HIDE DEF x
    <3>3. /\ DOMAIN Append(e, x) = 1 .. Len(e) + 1 /\ DOMAIN e = 1 .. Len(e) /\ Len(e) \in Nat
          /\ \A i \in 1 .. Len(e) : Append(e, x)[i] = e[i]
          /\ Append(e, x)[Len(e) + 1] = x
      BY <1>2, <3>2
    <3>4. \A i \in DOMAIN Append(e, x) : Len(Append(e, x)[i]) \in 1 .. ChunkSize
      <4> TAKE i \in DOMAIN Append(e, x)
      <4>1. CASE i = Len(e) + 1
        BY <3>1, <3>3, <4>1
      <4>2. CASE i # Len(e) + 1
        <5>1. i \in 1 .. Len(e)
          BY <3>3, <4>2
        <5> QED BY <1>6, <3>3, <5>1
      <4> QED BY <4>1, <4>2
    <3>5. emitted'[s] = Append(e, x) /\ emitLoop'[s] # "done"
      BY <2>1 DEF x
    <3> QED BY <1>7, <1>10, <1>11, <3>4, <3>5 DEF Ended
  <2>5. Pending(s)'
    BY <1>1, <1>3 DEF Pending
  <2>6. SplitType'
    <3>1. chunks' \in [Splitter!Splitters -> Seq(Seq(Nat))]
      BY <1>2, <1>3, <1>9
    <3>2. emitLoop' \in [Splitter!Splitters -> {"waiting", "emitting", "done"}]
      BY <1>2, <1>4, <1>13
    <3>3. emitted' \in [Splitter!Splitters -> Seq(Seq(Nat))]
      <4>1. Append(e, Head(q)) \in Seq(Seq(Nat))
        BY <1>2, <1>9, AppendProperties
      <4> QED BY <1>2, <1>4, <1>13, <4>1
    <3> QED BY <1>1, <1>3, <3>1, <3>2, <3>3 DEF SplitType
  <2>7. ASSUME NEW o \in Splitter!Splitters, o # s PROVE Doc(o)' /\ Pending(o)' /\ Ended(o)'
    <3>1. Doc(o) /\ Pending(o) /\ Ended(o)
      BY DEF SplitInv
    <3>2. Doc(o)' /\ Ended(o)'
      BY <1>3, <1>7, <1>10, <2>1, <2>7, <3>1, SplitFrame
    <3>3. Pending(o)'
      BY <1>3, <3>1 DEF Pending
    <3> QED BY <3>2, <3>3
  <2> QED BY <2>3, <2>4, <2>5, <2>6, <2>7 DEF SplitInv
<1> QED BY <1>12, <1>13

\* Steps that move the processor or an emit loop and no text.
LEMMA SplitElse ==
  ASSUME Splitter!SplitterAssumption, SplitInv,
         \/ Splitter!StatsSent \/ Splitter!InputEnds
         \/ \E s \in Splitter!Splitters : Splitter!ChunkSent(s)
         \/ UNCHANGED Splitter!vars
  PROVE  SplitInv'
<1>1. /\ inputs' = inputs /\ current' = current /\ splitFed' = splitFed /\ text' = text
      /\ splitting' = splitting /\ chunks' = chunks /\ emitted' = emitted
  BY DEF Splitter!StatsSent, Splitter!InputEnds, Splitter!ChunkSent, Splitter!vars
<1>2. (splitPc' \in {"reading", "returned"} /\ splitPc \in {"reading", "stats"}) \/ splitPc' = splitPc
  BY DEF Splitter!StatsSent, Splitter!InputEnds, Splitter!ChunkSent, Splitter!vars
<1>3. SplitType
  BY DEF SplitInv
<1>4. /\ emitLoop' \in [Splitter!Splitters -> {"waiting", "emitting", "done"}]
      /\ \A s \in Splitter!Splitters : emitLoop'[s] = "done" => emitLoop[s] = "done"
  BY <1>3 DEF Splitter!StatsSent, Splitter!InputEnds, Splitter!ChunkSent, Splitter!vars, SplitType
<1>5. ASSUME NEW s \in Splitter!Splitters PROVE Doc(s)' /\ Pending(s)' /\ Ended(s)'
  <2>1. Doc(s) /\ Pending(s) /\ Ended(s)
    BY DEF SplitInv
  <2>2. Open(s)' <=> Open(s)
    BY <1>1 DEF Open
  <2>3. Doc(s)'
    BY <1>1, <2>1, <2>2 DEF Doc
  <2>4. Pending(s)'
    BY <1>1, <1>2, <2>1 DEF Pending
  <2>5. Ended(s)'
    BY <1>1, <1>4, <2>1, <2>2 DEF Ended
  <2> QED BY <2>3, <2>4, <2>5
<1>6. SplitType'
  BY <1>1, <1>2, <1>3, <1>4 DEF SplitType
<1> QED BY <1>5, <1>6 DEF SplitInv

LEMMA SplitStep ==
  ASSUME Splitter!SplitterAssumption, SplitInv, [Splitter!Next]_(Splitter!vars) PROVE SplitInv'
<1>1. ASSUME NEW n \in PieceSizes, Splitter!ReadMore(n) \/ Splitter!ReadNext(n) PROVE SplitInv'
  BY <1>1, SplitMore, SplitNext
<1>2. ASSUME NEW s \in Splitter!Splitters, Splitter!SplitterStep(s) PROVE SplitInv'
  <2>1. CASE Splitter!SplitDone(s)
    BY <2>1, SplitThrough
  <2>2. CASE Splitter!TakeChunk(s)
    BY <2>2, SplitTake
  <2>3. CASE Splitter!ChunkSent(s)
    BY <2>3, SplitElse
  <2> QED BY <1>2, <2>1, <2>2, <2>3 DEF Splitter!SplitterStep
<1>3. CASE Splitter!StatsSent \/ Splitter!InputEnds \/ UNCHANGED Splitter!vars
  BY <1>3, SplitElse
<1> QED BY <1>1, <1>2, <1>3 DEF Splitter!Next

LEMMA SplitInOrder == ASSUME SplitInv PROVE ChunksInOrder
<1> SUFFICES ASSUME NEW s \in Splitter!Splitters
             PROVE  /\ Splitter!WordsOut(s) = [i \in 1 .. Len(Splitter!WordsOut(s)) |-> i]
                    /\ \A i \in DOMAIN emitted[s] : Len(emitted[s][i]) \in 1 .. ChunkSize
                    /\ emitLoop[s] = "done" => Len(Splitter!WordsOut(s)) = splitFed[s]
  BY DEF ChunksInOrder, Splitter!ChunksInOrder
<1>1. SplitType /\ Doc(s) /\ Ended(s)
  BY DEF SplitInv
<1>2. PICK m \in Nat, k \in Nat :
        /\ Chained(emitted[s], 0, m) /\ Chained(chunks[s], m, k) /\ k <= splitFed[s]
        /\ IF Open(s) THEN text[s] = Run(k, splitFed[s]) ELSE k = splitFed[s]
  BY <1>1 DEF Doc
<1>3. emitted[s] \in Seq(Seq(Nat)) /\ chunks[s] \in Seq(Seq(Nat))
  BY <1>1 DEF SplitType
<1>4. Splitter!WordsOut(s) = Run(0, m)
  BY <1>2, <1>3, ChainedFlat DEF Splitter!WordsOut
<1>5. Len(Run(0, m)) = m /\ Run(0, m) = [i \in 1 .. m |-> i]
  BY DEF Run
<1>6. \A i \in DOMAIN emitted[s] : Len(emitted[s][i]) \in 1 .. ChunkSize
  BY <1>1 DEF Ended
<1>7. emitLoop[s] = "done" => m = splitFed[s]
  <2> SUFFICES ASSUME emitLoop[s] = "done" PROVE m = splitFed[s]
    OBVIOUS
  <2>1. chunks[s] = << >> /\ ~Open(s)
    BY <1>1 DEF Ended
  <2>2. k = splitFed[s] /\ Chained(<< >>, m, k)
    BY <1>2, <2>1
  <2>3. m = k
    <3>1. PICK p : Chain(<< >>, p) /\ p[0] = m /\ p[Len(<< >>)] = k
      BY <2>2 DEF Chained
    <3> QED BY <3>1
  <2> QED BY <2>2, <2>3
<1> QED BY <1>4, <1>5, <1>6, <1>7

\* What the text splitting worker emits of a document is its text, in order and
\* without loss or repetition, for any chunk size, any sizes of the inputs and
\* any number of them; an emit loop stops only behind the last word.
THEOREM TextArrivesInOrder ==
  ASSUME Splitter!SplitterAssumption PROVE Splitter!Spec => []ChunksInOrder
<1>1. Splitter!Init => SplitInv
  BY SplitInit
<1>2. SplitInv /\ [Splitter!Next]_(Splitter!vars) => SplitInv'
  BY SplitStep
<1>3. SplitInv => ChunksInOrder
  BY SplitInOrder
<1> QED BY <1>1, <1>2, <1>3, PTL DEF Splitter!Spec
=============================================================================
