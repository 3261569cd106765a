----------------------------- MODULE DataStream -----------------------------
(* One data stream between the processes that send to it and those that     *)
(* read it: the send limiter of a JobSpec (core/src/jobs/JobSpec.ts), pub    *)
(* and sub of the stream service (vault-dev-server/src/stream/service.ts)    *)
(* over a redis stream, the subscriber (core/src/stream/                    *)
(* DataStreamSubscriber.ts) with its lazy nextValue generator               *)
(* (core/src/jobs/pubsub.ts), and the loops that share one output collector. *)
EXTENDS Naturals, SequencesExt

CONSTANTS
  Writers,    \* processes that send to the stream, each through its limiter
  Readers,    \* output collectors, one subscription each
  Loops,      \* loops over nextValue on each collector
  SendBound,  \* sends per writer; a bound of the model
  MaxLen      \* length XADD trims the redis stream to, or leaves a bit above

ASSUME StreamAssumption == SendBound \in Nat /\ MaxLen \in Nat \ {0}

VARIABLES
  sends,    \* [Writers -> sequence of the sends called, oldest first]
  log,      \* every <<writer, number>> ever added to the redis stream
  trimmed,  \* how many of the oldest entries redis has dropped
  subscribed, \* readers whose first nextValue has called sub
  cursor,   \* [Readers -> last entry the sub handler read]
  wire,     \* [Readers -> entries on their way to the subscriber]
  queue,    \* [Readers -> promiseQueue of the nextValue generator]
  waiting,  \* [Readers -> loops whose nextValue is pending, in call order]
  got,      \* [Readers -> [Loops -> entries the loop was handed]]
  done      \* [Readers -> loops that have ended]

sendVars == <<sends, log, trimmed>>
readVars == <<subscribed, cursor, wire, queue, waiting, got, done>>
vars == <<sends, log, trimmed, subscribed, cursor, wire, queue, waiting, got, done>>

\* `ack` is what the sender knows of a send, `srv` how far the pub handler is:
\* a valid or refused datapoint has been recorded in zz_datapoints.
Acks == {"queued", "sending", "ok", "error"}
ServerStages == {"unseen", "valid", "refused", "added"}
Sends == [end : BOOLEAN, ack : Acks, srv : ServerStages]
Entries == Writers \X (1 .. SendBound)
IsEnd(e) == sends[e[1]][e[2]].end

TypeOK ==
  /\ sends \in [Writers -> Seq(Sends)]
  /\ \A w \in Writers : Len(sends[w]) <= SendBound
  /\ log \in Seq(Entries)
  /\ trimmed \in 0 .. Len(log) /\ (log # <<>> => trimmed < Len(log))
  /\ subscribed \subseteq Readers /\ cursor \in [Readers -> 0 .. Len(log)]
  /\ wire \in [Readers -> Seq(Nat)] /\ queue \in [Readers -> Seq(Nat)]
  /\ waiting \in [Readers -> Seq(Loops)]
  /\ got \in [Readers -> [Loops -> Seq(Nat)]]
  /\ done \in [Readers -> SUBSET Loops]

Init ==
  /\ sends = [w \in Writers |-> <<>>]
  /\ log = <<>> /\ trimmed = 0
  /\ subscribed = {} /\ cursor = [r \in Readers |-> 0]
  /\ wire = [r \in Readers |-> <<>>] /\ queue = [r \in Readers |-> <<>>]
  /\ waiting = [r \in Readers |-> <<>>]
  /\ got = [r \in Readers |-> [l \in Loops |-> <<>>]]
  /\ done = [r \in Readers |-> {}]

-----------------------------------------------------------------------------
(* Sending *)

\* feed or terminate: the send enters the limiter of its writer.
Call(w) ==
  /\ Len(sends[w]) < SendBound
  /\ \E end \in BOOLEAN :
       sends' = [sends EXCEPT ![w] =
                   Append(@, [end |-> end, ack |-> "queued", srv |-> "unseen"])]
  /\ UNCHANGED <<log, trimmed>> /\ UNCHANGED readVars

\* Mutant: a limiter that starts sends in order and waits for none.
StartUnlimited(w, n) ==
  /\ sends[w][n].ack = "queued"
  /\ \A m \in 1 .. n - 1 : sends[w][m].ack # "queued"
  /\ sends' = [sends EXCEPT ![w][n].ack = "sending"]
  /\ UNCHANGED <<log, trimmed>> /\ UNCHANGED readVars

\* pLimit(1): a send starts when every earlier one has settled.  The look for
\* a terminator asks redis for COUNT 0 messages and refuses nothing.
Start(w, n) ==
  /\ sends[w][n].ack = "queued"
  /\ \A m \in 1 .. n - 1 : sends[w][m].ack \in {"ok", "error"}
  /\ sends' = [sends EXCEPT ![w][n].ack = "sending"]
  /\ UNCHANGED <<log, trimmed>> /\ UNCHANGED readVars

\* pub up to addDatapoint: the datapoint is validated, a terminator never, and
\* recorded either way; the call may have failed at its sender by then.
Record(w, n) ==
  /\ sends[w][n].ack # "queued" /\ sends[w][n].srv = "unseen"
  /\ \E verdict \in {"valid", "refused"} :
       /\ sends[w][n].end => verdict = "valid"
       /\ sends' = [sends EXCEPT ![w][n].srv = verdict]
  /\ UNCHANGED <<log, trimmed>> /\ UNCHANGED readVars

\* XADD ... MAXLEN ~ MaxLen: redis may drop what exceeds MaxLen, or part of it.
Add(w, n) ==
  /\ sends[w][n].srv = "valid"
  /\ sends' = [sends EXCEPT ![w][n].srv = "added"]
  /\ log' = Append(log, <<w, n>>)
  /\ \E t \in trimmed .. Len(log) + 1 :
       (t = trimmed \/ t + MaxLen <= Len(log) + 1) /\ trimmed' = t
  /\ UNCHANGED readVars

\* The answer settles the send; a validationFailure makes it throw.
Answer(w, n) ==
  /\ sends[w][n].ack = "sending" /\ sends[w][n].srv \in {"added", "refused"}
  /\ sends' = [sends EXCEPT ![w][n].ack = IF sends[w][n].srv = "added" THEN "ok" ELSE "error"]
  /\ UNCHANGED <<log, trimmed>> /\ UNCHANGED readVars

\* The call breaks at its sender, wherever the request is by then.
Break(w, n) ==
  /\ sends[w][n].ack = "sending"
  /\ sends' = [sends EXCEPT ![w][n].ack = "error"]
  /\ UNCHANGED <<log, trimmed>> /\ UNCHANGED readVars

-----------------------------------------------------------------------------
(* Reading *)

\* Entry i reaches loop l of reader r, which ends if it is a terminator and is
\* told of it by nobody else: the subscriber's unsubscribe only sets a flag.
Hand(r, l, i) ==
  /\ got' = [got EXCEPT ![r][l] = Append(@, i)]
  /\ done' = IF IsEnd(log[i]) THEN [done EXCEPT ![r] = @ \union {l}] ELSE done

\* nextValue: the first call subscribes from the beginning; a queued value is
\* taken at once, otherwise the call waits behind the earlier ones.
NextValue(r, l) ==
  /\ l \notin done[r] /\ ~Contains(waiting[r], l)
  /\ subscribed' = subscribed \union {r}
  /\ \/ /\ queue[r] # <<>>
        /\ Hand(r, l, Head(queue[r]))
        /\ queue' = [queue EXCEPT ![r] = Tail(@)]
        /\ UNCHANGED waiting
     \/ /\ queue[r] = <<>>
        /\ waiting' = [waiting EXCEPT ![r] = Append(@, l)]
        /\ UNCHANGED <<queue, got, done>>
  /\ UNCHANGED <<cursor, wire>> /\ UNCHANGED sendVars

\* Mutant: a read that starts behind the newest entry, as from "$".
ServerReadNewest(r) ==
  /\ r \in subscribed /\ cursor[r] < Len(log)
  /\ cursor' = [cursor EXCEPT ![r] = Len(log)]
  /\ wire' = [wire EXCEPT ![r] = Append(@, Len(log))]
  /\ UNCHANGED <<subscribed, queue, waiting, got, done>> /\ UNCHANGED sendVars

\* XREAD COUNT 1 returns the first entry behind the cursor that is still
\* there; resolveNext hands it to the stream of the subscriber.
ServerRead(r) ==
  /\ r \in subscribed /\ cursor[r] < Len(log)
  /\ LET i == IF cursor[r] < trimmed THEN trimmed + 1 ELSE cursor[r] + 1
     IN  /\ cursor' = [cursor EXCEPT ![r] = i]
         /\ wire' = [wire EXCEPT ![r] = Append(@, i)]
  /\ UNCHANGED <<subscribed, queue, waiting, got, done>> /\ UNCHANGED sendVars

\* Mutant: a value that comes while nobody waits is dropped.
ReceiveUnqueued(r) ==
  /\ wire[r] # <<>>
  /\ wire' = [wire EXCEPT ![r] = Tail(@)]
  /\ \/ /\ waiting[r] # <<>>
        /\ Hand(r, Head(waiting[r]), Head(wire[r]))
        /\ waiting' = [waiting EXCEPT ![r] = Tail(@)]
     \/ /\ waiting[r] = <<>>
        /\ UNCHANGED <<waiting, got, done>>
  /\ UNCHANGED <<subscribed, cursor, queue>> /\ UNCHANGED sendVars

\* readStream: the next message, its large values restored, goes to the oldest
\* pending nextValue, or to the promiseQueue.
Receive(r) ==
  /\ wire[r] # <<>>
  /\ wire' = [wire EXCEPT ![r] = Tail(@)]
  /\ \/ /\ waiting[r] # <<>>
        /\ Hand(r, Head(waiting[r]), Head(wire[r]))
        /\ waiting' = [waiting EXCEPT ![r] = Tail(@)]
        /\ UNCHANGED queue
     \/ /\ waiting[r] = <<>>
        /\ queue' = [queue EXCEPT ![r] = Append(@, Head(wire[r]))]
        /\ UNCHANGED <<waiting, got, done>>
  /\ UNCHANGED <<subscribed, cursor>> /\ UNCHANGED sendVars

Send(w, n) == Start(w, n) \/ Record(w, n) \/ Add(w, n) \/ Answer(w, n) \/ Break(w, n)

Next ==
  \/ \E w \in Writers : Call(w) \/ \E n \in 1 .. Len(sends[w]) : Send(w, n)
  \/ \E r \in Readers : ServerRead(r) \/ Receive(r) \/ \E l \in Loops : NextValue(r, l)

Spec == Init /\ [][Next]_vars

\* The vault server and redis answer what reached them; the subscriptions run
\* on, and the loops ask for the next value until they end.  Senders need not
\* call, and a call may or may not break.
Fairness ==
  /\ \A w \in Writers : \A n \in 1 .. SendBound :
       WF_vars(n <= Len(sends[w]) /\ (Start(w, n) \/ Add(w, n) \/ Answer(w, n)))
  /\ \A r \in Readers : WF_vars(ServerRead(r)) /\ WF_vars(Receive(r))
  /\ \A r \in Readers : \A l \in Loops : WF_vars(NextValue(r, l))

FairSpec == Spec /\ Fairness

-----------------------------------------------------------------------------
(* History queries: XREVRANGE on the redis stream, newest entry first *)

Retained == SubSeq(log, trimmed + 1, Len(log))
NewestFirst(n) ==
  LET all == Reverse(Retained)
  IN  IF Len(all) <= n THEN all ELSE SubSeq(all, 1, n)

\* Mutant: the newest of the answers is looked at for the terminator.
MostRecentHead(n) ==
  LET results == NewestFirst(n + 1)
  IN  IF results = <<>> THEN <<>>
      ELSE IF IsEnd(Head(results)) THEN Front(results) ELSE Tail(results)

\* mostRecent: one more value than asked for is fetched; if the oldest of them
\* is a terminator it is dropped, else the newest is.
MostRecent(n) ==
  LET results == NewestFirst(n + 1)
  IN  IF results = <<>> THEN <<>>
      ELSE IF IsEnd(Last(results)) THEN Front(results) ELSE Tail(results)

-----------------------------------------------------------------------------
(* Properties *)

\* What a writer sends is added in the order of its calls, each at most once,
\* except that a send whose call broke may still be added late
\* (the limiter at JobSpec.ts:376-382, the handler at service.ts:167-308).
SendOrder ==
  \A i, j \in 1 .. Len(log) : i < j /\ log[i][1] = log[j][1] =>
    \/ log[i][2] < log[j][2]
    \/ log[i][2] > log[j][2] /\ sends[log[j][1]][log[j][2]].ack = "error"

\* A send that returned is in the stream, one that a validation failure
\* refused is not (service.ts:262-307).
OkMeansAdded ==
  \A w \in Writers : \A n \in 1 .. Len(sends[w]) :
    /\ sends[w][n].ack = "ok" => Contains(log, <<w, n>>)
    /\ Contains(log, <<w, n>>) => sends[w][n].srv # "refused"

\* The loops on one collector share its values out: no value is handed to two
\* of them or twice, and each sees its share in the order of the stream
\* (pubsub.ts:5-53, io.ts:82-96).
OneTaker ==
  \A r \in Readers :
    /\ \A l \in Loops : \A i, j \in DOMAIN got[r][l] : i < j => got[r][l][i] < got[r][l][j]
    /\ \A k, l \in Loops : k # l => Range(got[r][k]) \intersect Range(got[r][l]) = {}

\* All loops of a collector together walk the log like one reader of the
\* abstract broadcast log (service.ts:325-367, DataStreamSubscriber.ts:62-117).
Handed(r) == UNION {Range(got[r][l]) : l \in Loops}
NewestHanded == [r \in Readers |-> IF Handed(r) = {} THEN 0 ELSE Max(Handed(r))]
Broadcast == INSTANCE BroadcastLog WITH last <- NewestHanded
IsBroadcastLog == Broadcast!Spec

\* The last entry is the stream's only terminator.
EndedOnceAndLast ==
  /\ Retained # <<>> /\ IsEnd(Last(Retained))
  /\ \A i \in 1 .. Len(Retained) - 1 : ~IsEnd(Retained[i])

\* Of a stream that was ended once and last, mostRecent gives the newest n
\* values, however few there are (io.ts:103-132).
RecentAfterEnd ==
  EndedOnceAndLast =>
    LET data == Reverse(Front(Retained))
    IN  \A n \in 0 .. Len(log) :
          MostRecent(n) = SubSeq(data, 1, IF n < Len(data) THEN n ELSE Len(data))

\* Every value reaches some loop of every collector, unless redis trimmed it
\* or all the loops have seen their end.
ValuesAreRead ==
  \A r \in Readers : \A i \in 1 .. Cardinality(Writers) * SendBound :
    i <= Len(log) ~> (i \in Handed(r) \/ i <= trimmed \/ done[r] = Loops)

=============================================================================
