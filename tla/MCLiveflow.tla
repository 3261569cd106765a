----------------------------- MODULE MCLiveflow -----------------------------
(* Liveflow definitions over three specs for TLC: a fan-out, a fan-in with a *)
(* labelled node beside the plain one of its spec, and a loop of two specs.  *)
EXTENDS Liveflow

CONSTANTS A, B, C, l, d, p, q, r

MCInputs == A :> {d} @@ B :> {d} @@ C :> {d}
MCOutputs == A :> {d} @@ B :> {d} @@ C :> {}

LOCAL conn(from, to) == [from |-> [job |-> from, tag |-> d], to |-> [job |-> to, tag |-> d]]
LOCAL P(name) == Plain(name)

MCFlows ==
  {<<conn(P(A), P(B)), conn(P(A), P(C))>>,
   <<conn(<<B, l>>, P(C)), conn(P(B), P(C))>>,
   <<conn(P(A), P(B)), conn(P(B), P(A))>>}

\* Somebody binds by id in p: all others are there too, or none, or the workers;
\* the client may have a process of its own.
MCHomes == {[a \in Actors |-> CASE a = "binder" \/ a \in with -> p
                                [] a = "client" /\ alone -> r
                                [] OTHER -> q] :
              <<with, alone>> \in {<<Actors, FALSE>>, <<{}, FALSE>>, <<{}, TRUE>>, <<{"workers"}, TRUE>>}}
=============================================================================
