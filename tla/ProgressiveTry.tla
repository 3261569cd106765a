--------------------------- MODULE ProgressiveTry ---------------------------
(* The processor of a ProgressiveAdaptiveTryWorkerDef,                       *)
(* core/src/liveflow/ProgressiveAdaptiveTryWorkerDef.ts: it starts attempts, *)
(* each a child job fed with the next parent datapoint, one after the other, *)
(* and after each start races all attempts started so far against a timer.   *)
(* What follows a settled race runs before any further answer from outside   *)
(* arrives, so attempts settle only in a race that is still open, or when    *)
(* the processor is through.                                                 *)
EXTENDS Naturals, FiniteSets, FiniteSetsExt

CONSTANTS
  NumAttempts,   \* length of `attempts`
  InputCount,    \* datapoints of the parent input before its terminator
  HasFallback    \* whether an ultimateFallback is given

TryAssumption ==
  NumAttempts \in Nat \ {0} /\ InputCount \in Nat /\ HasFallback \in BOOLEAN

Attempts == 1 .. NumAttempts
Open == 0                        \* a race nothing has won yet
Timeout == NumAttempts + 1       \* a race its timer has won

VARIABLES
  pc,        \* "starting" the next attempt, "racing", "over"
  attempt,   \* [Attempts -> state of the attempt's promise]
  started,   \* attempts shifted off restToTry
  winner,    \* what the current race settled with
  fed,       \* parent messages that have arrived, the terminator included
  outcome    \* "none", "fallback", "failed", or "result" of the last winner

vars == <<pc, attempt, started, winner, fed, outcome>>

TypeOK ==
  /\ pc \in {"starting", "racing", "over"}
  /\ attempt \in [Attempts -> {"todo", "waiting", "working", "ok", "error"}]
  /\ started \in 0 .. NumAttempts
  /\ \A k \in Attempts : k <= started <=> attempt[k] # "todo"
  /\ winner \in 0 .. Timeout
  /\ fed \in 0 .. InputCount + 1
  /\ outcome \in {"none", "result", "fallback", "failed"}
  /\ outcome = "none" <=> pc # "over"

Init ==
  /\ pc = "starting"
  /\ attempt = [k \in Attempts |-> "todo"]
  /\ started = 0
  /\ winner = Open
  /\ fed = 0
  /\ outcome = "none"

-----------------------------------------------------------------------------
IsSettled(k) == attempt[k] \in {"ok", "error"}

\* Promise.race takes the first in array order of those already settled.
FirstSettled ==
  LET settled == {k \in 1 .. started : IsSettled(k)}
  IN  IF settled = {} THEN Open ELSE Min(settled)

\* restToTry.shift(), m.fn() and Promise.race([...promises, timer])
StartAttempt ==
  /\ pc = "starting"
  /\ pc' = "racing"
  /\ started' = started + 1
  /\ attempt' = [attempt EXCEPT ![started + 1] = "waiting"]
  /\ winner' = FirstSettled
  /\ UNCHANGED <<fed, outcome>>

\* A datapoint of the parent input, or its terminator.
ParentMessage ==
  /\ fed <= InputCount
  /\ fed' = fed + 1
  /\ UNCHANGED <<pc, attempt, started, winner, outcome>>

Awake == (pc = "racing" /\ winner = Open) \/ pc = "over"

\* input.nextValue() answers in order: the k-th attempt has the k-th message.
TakeInput(k) ==
  /\ Awake
  /\ attempt[k] = "waiting" /\ k <= fed
  /\ attempt' = [attempt EXCEPT ![k] = "working"]
  /\ UNCHANGED <<pc, started, winner, fed, outcome>>

\* Mutant: the race is between the newest attempt and its timer only.
AnswerNewestOnly(k) ==
  /\ Awake
  /\ attempt[k] = "working"
  /\ \E o \in {"ok", "error"} : attempt' = [attempt EXCEPT ![k] = o]
  /\ winner' = IF pc = "racing" /\ k = started THEN k ELSE winner
  /\ UNCHANGED <<pc, started, fed, outcome>>

\* The child job was enqueued and fed, and gave an output; or one of these
\* steps, the transforms included, threw, or there was no output.
Answer(k) ==
  /\ Awake
  /\ attempt[k] = "working"
  /\ \E o \in {"ok", "error"} : attempt' = [attempt EXCEPT ![k] = o]
  /\ winner' = IF pc = "racing" THEN k ELSE winner
  /\ UNCHANGED <<pc, started, fed, outcome>>

\* Mutant: the timer was cleared by the start of the next attempt.
TimerFiresLast ==
  /\ pc = "racing" /\ winner = Open /\ started < NumAttempts
  /\ winner' = Timeout
  /\ UNCHANGED <<pc, attempt, started, fed, outcome>>

\* genTimeoutPromise(m.timeout || 60 s)
TimerFires ==
  /\ pc = "racing" /\ winner = Open
  /\ winner' = Timeout
  /\ UNCHANGED <<pc, attempt, started, fed, outcome>>

\* After the race: the result, the next round of the loop, or giving up.
Continue ==
  /\ pc = "racing" /\ winner # Open
  /\ IF winner \in Attempts /\ attempt[winner] = "ok"
     THEN pc' = "over" /\ outcome' = "result"
     ELSE IF started < NumAttempts
     THEN pc' = "starting" /\ UNCHANGED outcome
     ELSE pc' = "over" /\ outcome' = IF HasFallback THEN "fallback" ELSE "failed"
  /\ UNCHANGED <<attempt, started, winner, fed>>

Next ==
  \/ StartAttempt \/ Continue \/ TimerFires \/ ParentMessage
  \/ \E k \in Attempts : TakeInput(k) \/ Answer(k)

\* The event loop and the timers; children and the parent owe nothing.
Fairness == WF_vars(StartAttempt) /\ WF_vars(Continue) /\ WF_vars(TimerFires)

Spec == Init /\ [][Next]_vars /\ Fairness

-----------------------------------------------------------------------------
(* Properties *)

\* The job's result is that of an attempt that succeeded, and no attempt that
\* succeeds while the processor still waits is passed over for another or for
\* the fallback, not even one started long before.
SuccessDecides ==
  /\ outcome = "result" => winner \in Attempts /\ attempt[winner] = "ok"
  /\ pc # "over" => \A k \in Attempts : attempt[k] = "ok" => winner = k

\* However the child jobs and the parent input behave, silence included, the
\* processor comes to an end.
Decides == <>(pc = "over")
=============================================================================
