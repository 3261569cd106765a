---------------------------- MODULE LossyChannel ----------------------------
(* What a manually fed iterator (shared/src/genPromiseCycle.ts) promises    *)
(* its users: results come out in the order they were fed, each at most     *)
(* once, and a result is lost only together with an abandoned consumer,    *)
(* at most one per consumer.                                               *)
EXTENDS Naturals, Sequences

CONSTANTS
  Results,    \* what can be fed: messages, the terminate mark, a rejection
  Consumers   \* consumers that may be abandoned

VARIABLES
  sent,       \* how many results were fed
  buffer,     \* results fed and not yet consumed
  delivered,  \* results consumed, in order
  lost        \* abandoned consumers that took a result with them

vars == <<sent, buffer, delivered, lost>>

Init == sent = 0 /\ buffer = <<>> /\ delivered = <<>> /\ lost = {}

Send(r) ==
  /\ sent' = sent + 1
  /\ buffer' = Append(buffer, r)
  /\ UNCHANGED <<delivered, lost>>

Deliver ==
  /\ buffer # <<>>
  /\ delivered' = Append(delivered, Head(buffer))
  /\ buffer' = Tail(buffer)
  /\ UNCHANGED <<sent, lost>>

\* A consumer is abandoned with the oldest result in its hands.
LoseOldest(c) ==
  /\ c \notin lost /\ buffer # <<>>
  /\ lost' = lost \union {c}
  /\ buffer' = Tail(buffer)
  /\ UNCHANGED <<sent, delivered>>

\* A result is fed straight to an abandoned consumer that was waiting.
LoseSent(c) ==
  /\ c \notin lost /\ buffer = <<>>
  /\ sent' = sent + 1
  /\ lost' = lost \union {c}
  /\ UNCHANGED <<buffer, delivered>>

Next ==
  \/ \E r \in Results : Send(r)
  \/ Deliver
  \/ \E c \in Consumers : LoseOldest(c) \/ LoseSent(c)

Spec == Init /\ [][Next]_vars
=============================================================================
