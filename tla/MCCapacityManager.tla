------------------------- MODULE MCCapacityManager -------------------------
(* CapacityManager with two instances, of which one may define both specs,   *)
(* and two calls: one asks for the first spec, the other for any or for a    *)
(* capacity log.  Ids are only compared for equality, so which is which does *)
(* not matter.                                                               *)
EXTENDS CapacityManager

CONSTANTS TheInstance, TheSpec, TheCall

MayDefine == [i \in Instances |-> IF i = TheInstance THEN Specs ELSE {TheSpec}]
Loggers == Calls \ {TheCall}

MCInit == Init /\ spec[TheCall] = TheSpec
MCNext ==
  \/ \E i \in Instances : \E s \in MayDefine[i] : Define(i, s)
  \/ \E i \in Instances : Disconnect(i) \/ InstanceStep(i)
  \/ \E c \in Calls : IncreaseCapacity(c)
  \/ \E c \in Loggers : LogCapacity(c)
  \/ ManagerStep
MCSpec == MCInit /\ [][MCNext]_vars /\ Fairness
=============================================================================
