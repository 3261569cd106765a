-------------------------- MODULE ParallelAttempt --------------------------
(* The processor of a ParallelAttemptLiveflow,                               *)
(* core/src/liveflow/ParallelAttemptLiveflow.ts: every 200 ms it asks the    *)
(* next attempt's trigger condition whether to start it too; when all run it *)
(* waits for all of them with Promise.all.  An attempt that fails before     *)
(* that is an unhandled rejection, which ends a Node process unless it has a *)
(* handler for those.  globalTimeoutCondition is never asked.                *)
EXTENDS Naturals, FiniteSets

CONSTANTS
  NumAttempts,   \* length of `attempts`
  InputCount     \* datapoints of the parent input before its terminator

ParallelAssumption == NumAttempts \in Nat \ {0} /\ InputCount \in Nat

Attempts == 1 .. NumAttempts

VARIABLES
  pc,       \* "starting" attempts, "joining" them, "over"
  attempt,  \* [Attempts -> state of the attempt's promise]
  ticket,   \* [Attempts -> which parent message its nextValue() waits for, or 0]
  fed,      \* parent messages that have arrived, the terminator included
  outcome   \* "none", "result", "failed" or "crashed"

vars == <<pc, attempt, ticket, fed, outcome>>

Init ==
  /\ pc = "starting" /\ outcome = "none" /\ fed = 0
  /\ attempt = [k \in Attempts |-> "todo"] /\ ticket = [k \in Attempts |-> 0]

-----------------------------------------------------------------------------
Started == {k \in Attempts : attempt[k] # "todo"}
Goes(k, st) == attempt' = [attempt EXCEPT ![k] = st]

\* A round of the loop in which the next attempt's trigger condition holds.
StartAttempt ==
  /\ pc = "starting" /\ Started # Attempts
  /\ Goes(Cardinality(Started) + 1, "enqueuing")
  /\ UNCHANGED <<pc, ticket, fed, outcome>>

\* The child job is there: the attempt asks for the next parent datapoint, and
\* is answered in the order of asking.
Ask(k) ==
  /\ attempt[k] = "enqueuing" /\ Goes(k, "asking")
  /\ ticket' = [ticket EXCEPT ![k] = Cardinality({i \in Attempts : ticket[i] # 0}) + 1]
  /\ UNCHANGED <<pc, fed, outcome>>

\* A datapoint of the parent input, or its terminator.
ParentMessage ==
  /\ fed <= InputCount /\ fed' = fed + 1
  /\ UNCHANGED <<pc, attempt, ticket, outcome>>

TakeInput(k) ==
  /\ attempt[k] = "asking" /\ ticket[k] <= fed /\ ticket[k] <= InputCount
  /\ Goes(k, "working")
  /\ UNCHANGED <<pc, ticket, fed, outcome>>

Succeed(k) ==
  /\ attempt[k] = "working" /\ Goes(k, "ok")
  /\ UNCHANGED <<pc, ticket, fed, outcome>>

\* enqueueJob, a transform or the child job failed, there was no output, or the
\* parent input had ended.
MayFail(k) ==
  \/ attempt[k] \in {"enqueuing", "working"}
  \/ attempt[k] = "asking" /\ ticket[k] = InputCount + 1 /\ ticket[k] <= fed

Fail(k) ==
  /\ MayFail(k) /\ Goes(k, "error")
  /\ \/ pc = "starting" /\ pc' = "over" /\ outcome' = "crashed"
     \/ pc = "joining" /\ pc' = "over" /\ outcome' = "failed"
     \/ pc # "joining" /\ UNCHANGED <<pc, outcome>>
  /\ UNCHANGED <<ticket, fed>>

\* The loop has ended: Promise.all, which rejects for an attempt that has failed.
Join ==
  /\ pc = "starting" /\ Started = Attempts
  /\ IF \E k \in Attempts : attempt[k] = "error"
     THEN pc' = "over" /\ outcome' = "failed"
     ELSE pc' = "joining" /\ UNCHANGED outcome
  /\ UNCHANGED <<attempt, ticket, fed>>

\* Mutant: the first success is combined (Promise.any).
CombineAny ==
  /\ pc = "joining" /\ \E k \in Attempts : attempt[k] = "ok"
  /\ pc' = "over" /\ outcome' \in {"result", "failed"}
  /\ UNCHANGED <<attempt, ticket, fed>>

\* transformCombinedOutput, which may throw.
Combine ==
  /\ pc = "joining" /\ \A k \in Attempts : attempt[k] = "ok"
  /\ pc' = "over" /\ outcome' \in {"result", "failed"}
  /\ UNCHANGED <<attempt, ticket, fed>>

Next ==
  \/ StartAttempt \/ ParentMessage \/ Join \/ Combine
  \/ \E k \in Attempts : Ask(k) \/ TakeInput(k) \/ Succeed(k) \/ Fail(k)

Spec == Init /\ [][Next]_vars

-----------------------------------------------------------------------------
\* A result is made of all attempts, each of which has worked on a parent
\* datapoint of its own: none is missing because it was late, or was never
\* triggered.
ResultOfAll ==
  outcome = "result" =>
    /\ \A k \in Attempts : attempt[k] = "ok" /\ ticket[k] \in 1 .. InputCount
    /\ \A j, k \in Attempts : j # k => ticket[j] # ticket[k]

=============================================================================
