---------------------------- MODULE PromiseCycle ----------------------------
(* genPromiseCycle and genManuallyFedIterator, shared/src/genPromiseCycle.ts: *)
(* the mailbox behind every stream of messages between vault server and     *)
(* workers.  A producer calls resolveNext, rejectNext or terminate; a pump  *)
(* (one run of the async generator, driven by the for-await loop or by the  *)
(* gRPC client that iterates it) awaits `g.promise`.  A LiveWorker whose    *)
(* stream broke iterates the same iterator again while the first pump may   *)
(* still be suspended at its await (core/src/jobs/LiveWorker.ts), so pumps  *)
(* come one after the other but overlap.                                   *)
(* JavaScript runs one callback at a time; an action is one callback.       *)
EXTENDS Naturals, Sequences

CONSTANTS
  Messages,    \* payloads
  Terminate,   \* the {terminate: true} result
  Rejection,   \* a result fed with rejectNext
  NoResult,    \* empty hands
  NumPumps,    \* how often the iterator is iterated
  MaxFed       \* bound: results fed

Results == Messages \union {Terminate, Rejection}
Pumps == 1 .. NumPumps

ASSUME CycleAssumption ==
  /\ NumPumps \in Nat /\ MaxFed \in Nat
  /\ Terminate \notin Messages /\ Rejection \notin Messages
  /\ NoResult \notin Results

VARIABLES
  promiseQueue,  \* results fed while nobody waited
  resolve,       \* pump whose promise `resolve` and `reject` settle, 0 if null
  pump,          \* [Pumps -> state of the generator]
  hand,          \* [Pumps -> result its awaited promise was settled with]
  newest,        \* the last pump started, 0 if none
  connected,     \* whether somebody still drives the newest pump
  delivered,     \* history: results the pumps' users saw
  fed            \* number of results fed

vars == <<promiseQueue, resolve, pump, hand, newest, connected, delivered, fed>>

\* new: not started; suspended: at its start or at `yield`, until next() is
\* called; awaiting: at `await g.promise`; settled: that promise is settled, the
\* generator has not run on; swallowed: ran on with nobody to yield to;
\* done: returned or thrown.
PumpStates == {"new", "suspended", "awaiting", "settled", "swallowed", "done"}

TypeOK ==
  /\ promiseQueue \in Seq(Results)
  /\ resolve \in Pumps \union {0}
  /\ resolve # 0 => pump[resolve] = "awaiting"
  /\ pump \in [Pumps -> PumpStates]
  /\ hand \in [Pumps -> Results \union {NoResult}]
  /\ \A p \in Pumps : pump[p] = "settled" <=> hand[p] # NoResult
  /\ newest \in Pumps \union {0}
  /\ connected \in BOOLEAN
  /\ delivered \in Seq(Results)
  /\ fed \in 0 .. MaxFed

Live(p) == connected /\ p = newest

Init ==
  /\ promiseQueue = <<>>
  /\ resolve = 0
  /\ pump = [p \in Pumps |-> "new"]
  /\ hand = [p \in Pumps |-> NoResult]
  /\ newest = 0
  /\ connected = FALSE
  /\ delivered = <<>>
  /\ fed = 0

-----------------------------------------------------------------------------
(* Producer *)

\* resolve(value) or reject(reason); settling a promise a second time does nothing.
SettlePromise(p, r) ==
  IF pump[p] = "awaiting"
  THEN /\ pump' = [pump EXCEPT ![p] = "settled"]
       /\ hand' = [hand EXCEPT ![p] = r]
  ELSE UNCHANGED <<pump, hand>>

\* Mutant: resolveNext forgets to clear the resolver it used.
FeedKeepsResolver(r) ==
  /\ fed < MaxFed
  /\ fed' = fed + 1
  /\ \/ /\ resolve # 0
        /\ SettlePromise(resolve, r)
        /\ UNCHANGED <<promiseQueue, resolve>>
     \/ /\ resolve = 0
        /\ promiseQueue' = Append(promiseQueue, r)
        /\ UNCHANGED <<pump, hand, resolve>>
  /\ UNCHANGED <<newest, connected, delivered>>

\* resolveNext, rejectNext, terminate: settle the waiting promise or queue.
\* `resolve` and `reject` are set and cleared together.
Feed(r) ==
  /\ fed < MaxFed
  /\ fed' = fed + 1
  /\ \/ /\ resolve # 0
        /\ SettlePromise(resolve, r)
        /\ resolve' = 0
        /\ UNCHANGED promiseQueue
     \/ /\ resolve = 0
        /\ promiseQueue' = Append(promiseQueue, r)
        /\ UNCHANGED <<pump, hand, resolve>>
  /\ UNCHANGED <<newest, connected, delivered>>

-----------------------------------------------------------------------------
(* Pumps *)

\* The user iterates: a new generator, not run until its next() is called.
Iterate ==
  /\ ~connected /\ newest < NumPumps
  /\ newest' = newest + 1
  /\ pump' = [pump EXCEPT ![newest + 1] = "suspended"]
  /\ connected' = TRUE
  /\ UNCHANGED <<promiseQueue, resolve, hand, delivered, fed>>

\* Mutant: the getter keeps the resolver of an earlier promise if there is one.
PullKeepsResolver(p) ==
  /\ Live(p) /\ pump[p] = "suspended"
  /\ \/ /\ promiseQueue # <<>>
        /\ pump' = [pump EXCEPT ![p] = "settled"]
        /\ hand' = [hand EXCEPT ![p] = Head(promiseQueue)]
        /\ promiseQueue' = Tail(promiseQueue)
        /\ UNCHANGED resolve
     \/ /\ promiseQueue = <<>>
        /\ pump' = [pump EXCEPT ![p] = "awaiting"]
        /\ resolve' = IF resolve = 0 THEN p ELSE resolve
        /\ UNCHANGED <<promiseQueue, hand>>
  /\ UNCHANGED <<newest, connected, delivered, fed>>

\* next() is called and the generator runs to `await g.promise`.  The getter
\* hands out a queued result, or a new promise whose resolver replaces the last.
Pull(p) ==
  /\ Live(p) /\ pump[p] = "suspended"
  /\ \/ /\ promiseQueue # <<>>
        /\ pump' = [pump EXCEPT ![p] = "settled"]
        /\ hand' = [hand EXCEPT ![p] = Head(promiseQueue)]
        /\ promiseQueue' = Tail(promiseQueue)
        /\ UNCHANGED resolve
     \/ /\ promiseQueue = <<>>
        /\ pump' = [pump EXCEPT ![p] = "awaiting"]
        /\ resolve' = p
        /\ UNCHANGED <<promiseQueue, hand>>
  /\ UNCHANGED <<newest, connected, delivered, fed>>

\* The generator runs on with the settled promise: it returns, throws or
\* yields.  What a pump yields after it was abandoned is seen by nobody, and
\* the return() that was queued ends it.
Resume(p) ==
  /\ pump[p] = "settled"
  /\ hand' = [hand EXCEPT ![p] = NoResult]
  /\ \/ /\ Live(p)
        /\ delivered' = Append(delivered, hand[p])
        /\ pump' = [pump EXCEPT ![p] = IF hand[p] \in Messages THEN "suspended" ELSE "done"]
     \/ /\ ~Live(p)
        /\ pump' = [pump EXCEPT ![p] = "swallowed"]
        /\ UNCHANGED delivered
  /\ UNCHANGED <<promiseQueue, resolve, newest, connected, fed>>

\* The stream that drives the newest pump breaks: return() ends a generator
\* suspended at `yield` at once, but has to wait for one suspended at `await`.
Break ==
  /\ connected
  /\ connected' = FALSE
  /\ pump' = [pump EXCEPT ![newest] = IF pump[newest] = "suspended" THEN "done" ELSE pump[newest]]
  /\ UNCHANGED <<promiseQueue, resolve, hand, newest, delivered, fed>>

Next ==
  \/ \E r \in Results : Feed(r)
  \/ Iterate
  \/ \E p \in Pumps : Pull(p) \/ Resume(p)
  \/ Break

Spec == Init /\ [][Next]_vars

-----------------------------------------------------------------------------
(* Properties *)

\* A user never waits beside a result that is there: the live pump at its
\* await is the one resolveNext will settle, and the queue is empty
\* (the getter at genPromiseCycle.ts:10-24 against resolveNext at 25-36).
NoLostWakeup ==
  \A p \in Pumps : Live(p) /\ pump[p] = "awaiting" =>
    resolve = p /\ promiseQueue = <<>>

\* Seen from its users the cycle is a FIFO channel that loses at most one
\* result per abandoned pump.
InHand == connected /\ pump[newest] = "settled"
Buffered == IF InHand THEN <<hand[newest]>> \o promiseQueue ELSE promiseQueue
Swallowed == {p \in Pumps : ~Live(p) /\ pump[p] \in {"settled", "swallowed"}}

Channel == INSTANCE LossyChannel WITH
  Consumers <- Pumps, sent <- fed, buffer <- Buffered, lost <- Swallowed

IsLossyChannel == Channel!Spec

=============================================================================
