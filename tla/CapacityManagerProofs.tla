------------------------ MODULE CapacityManagerProofs ------------------------
(* Proofs about CapacityManager for any instances, specs and calls: type     *)
(* correctness, no command an instance cannot serve, one worker per call, no *)
(* failed call without a cause and none stuck but by a disconnect.           *)
EXTENDS CapacityManager, TLAPS

LEMMA TypeInit == Init => TypeOK
<1> SUFFICES ASSUME Init PROVE TypeOK
  OBVIOUS
<1>1. lists \in Seq(SUBSET Instances) /\ lists # <<>> /\ Len(lists) = 1
  BY DEF Init
<1>2. commands \in [Instances -> Seq(Command)]
  BY DEF Init
<1>3. QED
  BY <1>1, <1>2 DEF Init, TypeOK, PcStates

\* A queue of commands is either taken from at its head or appended to.
LEMMA CommandTypes ==
  ASSUME TypeOK, NEW i \in Instances
  PROVE  /\ commands[i] # <<>> => /\ Head(commands[i]) \in Command
                                  /\ Head(commands[i]).call \in Calls
                                  /\ [commands EXCEPT ![i] = Tail(commands[i])] \in [Instances -> Seq(Command)]
         /\ \A m \in Command : [commands EXCEPT ![i] = Append(commands[i], m)] \in [Instances -> Seq(Command)]
<1>1. commands[i] \in Seq(Command)
  BY DEF TypeOK
<1>2. commands[i] # <<>> => Head(commands[i]) \in Command /\ Tail(commands[i]) \in Seq(Command)
  BY <1>1
<1>3. \A m \in Command : Append(commands[i], m) \in Seq(Command)
  BY <1>1
<1>4. \A m \in Command : m.call \in Calls
  BY DEF Command
<1>5. QED
  BY <1>2, <1>3, <1>4 DEF TypeOK

LEMMA SendAllType ==
  ASSUME TypeOK, NEW is, NEW m \in Command, SendAll(is, m)
  PROVE  commands' \in [Instances -> Seq(Command)]
<1>1. \A i \in Instances : commands[i] \in Seq(Command) /\ Append(commands[i], m) \in Seq(Command)
  BY DEF TypeOK
<1>2. QED
  BY <1>1 DEF SendAll

LEMMA ListsType ==
  ASSUME TypeOK
  PROVE  /\ Len(lists) \in Nat \ {0} /\ Listed \subseteq Instances
         /\ \A i \in Instances :
              LET push == [lists EXCEPT ![Len(lists)] = lists[Len(lists)] \union {i}]
                  filter == Append(lists, Listed \ {i}) IN
              /\ push \in Seq(SUBSET Instances) /\ push # <<>> /\ Len(push) = Len(lists)
              /\ filter \in Seq(SUBSET Instances) /\ filter # <<>> /\ Len(filter) = Len(lists) + 1
<1>1. lists \in Seq(SUBSET Instances) /\ lists # <<>>
  BY DEF TypeOK
<1>2. Len(lists) \in Nat \ {0} /\ Listed \subseteq Instances
  BY <1>1 DEF Listed
<1>3. ASSUME NEW i \in Instances
      PROVE  LET push == [lists EXCEPT ![Len(lists)] = lists[Len(lists)] \union {i}] IN
             push \in Seq(SUBSET Instances) /\ push # <<>> /\ Len(push) = Len(lists)
  BY <1>1, <1>2 DEF Listed
<1>4. ASSUME NEW i \in Instances
      PROVE  LET filter == Append(lists, Listed \ {i}) IN
             filter \in Seq(SUBSET Instances) /\ filter # <<>> /\ Len(filter) = Len(lists) + 1
  BY <1>1, <1>2
<1>5. QED
  BY <1>2, <1>3, <1>4

LEMMA TypeNext == TypeOK /\ [Next]_vars => TypeOK'
<1> SUFFICES ASSUME TypeOK, [Next]_vars PROVE TypeOK'
  OBVIOUS
<1>1. ASSUME NEW i \in Instances, NEW s \in Specs, Define(i, s) PROVE TypeOK'
  BY <1>1 DEF Define, TypeOK, managerVars, callVars
<1>2. ASSUME NEW i \in Instances, Disconnect(i) PROVE TypeOK'
  <2>1. lists' \in Seq(SUBSET Instances) /\ lists' # <<>> /\ held' \in [Calls -> 1 .. Len(lists')]
    <3>1. lists' = Append(lists, Listed \ {i}) /\ held' = held
      BY <1>2 DEF Disconnect, callVars
    <3>2. Len(lists') = Len(lists) + 1 /\ Len(lists) \in Nat
      BY <3>1, ListsType
    <3>3. \A c \in Calls : held[c] \in 1 .. Len(lists')
      BY <3>2 DEF TypeOK
    <3>4. QED
      BY <3>1, <3>3, ListsType DEF TypeOK
  <2>2. commands' \in [Instances -> Seq(Command)]
    BY <1>2 DEF Disconnect, TypeOK
  <2>3. QED
    BY <1>2, <2>1, <2>2 DEF Disconnect, TypeOK, callVars
<1>3. ASSUME NEW i \in Instances, ReportAsInstance(i) PROVE TypeOK'
  <2>1. lists' \in Seq(SUBSET Instances) /\ lists' # <<>> /\ held' \in [Calls -> 1 .. Len(lists')]
    BY <1>3, ListsType DEF ReportAsInstance, TypeOK, callVars
  <2>2. QED
    BY <1>3, <2>1 DEF ReportAsInstance, TypeOK, callVars
<1>4. ASSUME NEW i \in Instances, AnswerQuery(i) PROVE TypeOK'
  <2>1. Head(commands[i]).call \in Calls /\ commands' \in [Instances -> Seq(Command)]
    BY <1>4, CommandTypes DEF AnswerQuery
  <2>2. replies' \subseteq Reply
    BY <1>4, <2>1 DEF AnswerQuery, TypeOK, Reply
  <2>3. QED
    BY <1>4, <2>1, <2>2 DEF AnswerQuery, TypeOK, callVars
<1>5. ASSUME NEW i \in Instances, Provision(i) PROVE TypeOK'
  <2>1. Head(commands[i]).call \in Calls /\ commands' \in [Instances -> Seq(Command)]
    BY <1>5, CommandTypes DEF Provision
  <2>2. replies' \subseteq Reply
    BY <1>5, <2>1 DEF Provision, TypeOK, Reply
  <2>3. started' \in [Calls -> Nat]
    BY <1>5, <2>1 DEF Provision, TypeOK
  <2>4. QED
    BY <1>5, <2>1, <2>2, <2>3 DEF Provision, TypeOK
<1>6. ASSUME NEW i \in Instances, ReadWarning(i) PROVE TypeOK'
  BY <1>6, CommandTypes DEF ReadWarning, TypeOK, managerVars, callVars
<1>7. ASSUME NEW c \in Calls, IncreaseCapacity(c) \/ LogCapacity(c) PROVE TypeOK'
  <2>1. QueryListed(c) /\ pc' \in [Calls -> PcStates]
    BY <1>7 DEF IncreaseCapacity, LogCapacity, TypeOK, PcStates
  <2>2. commands' \in [Instances -> Seq(Command)]
    BY <2>1, SendAllType DEF QueryListed, Command
  <2>3. pending' \subseteq {"query", "provision"} \X Calls \X Instances
    BY <2>1, ListsType DEF QueryListed, TypeOK
  <2>4. lists' = lists /\ held' \in [Calls -> 1 .. Len(lists')]
    BY <1>7, <2>1, ListsType DEF IncreaseCapacity, LogCapacity, QueryListed, TypeOK
  <2>5. QED
    BY <1>7, <2>1, <2>2, <2>3, <2>4 DEF IncreaseCapacity, LogCapacity, TypeOK
<1>8. ASSUME NEW r \in replies, ReceiveCapacity(r) PROVE TypeOK'
  <2> DEFINE c == r.call
             as == answers[c] \union {[from |-> r.from, specs |-> r.specs]}
  <2>1. c \in Calls /\ r.from \in Instances /\ as \subseteq Answer
    BY DEF TypeOK, Reply, Answer
  <2>2. answers' \in [Calls -> SUBSET Answer] /\ replies' \subseteq Reply
    BY <1>8, <2>1 DEF ReceiveCapacity, TypeOK
  <2>3. /\ commands' \in [Instances -> Seq(Command)]
        /\ pending' \subseteq {"query", "provision"} \X Calls \X Instances
        /\ pc' \in [Calls -> PcStates]
    <3>1. CASE UNCHANGED <<commands, pending, pc>>
      BY <3>1 DEF TypeOK
    <3>2. CASE UNCHANGED <<commands, pending>> /\ pc' = [pc EXCEPT ![c] = "logged"]
      BY <3>2 DEF TypeOK, PcStates
    <3>3. CASE Draw(c, as)
      <4>1. PICK i \in Qualified(c, as) :
              \/ /\ commands' = [commands EXCEPT ![i] = Append(commands[i], [kind |-> "provision", call |-> c])]
                 /\ pending' = pending \union {<<"provision", c, i>>}
                 /\ pc' = [pc EXCEPT ![c] = "provisioning"]
              \/ /\ pc' = [pc EXCEPT ![c] = "failed"]
                 /\ UNCHANGED <<commands, pending>>
        BY <3>3 DEF Draw
      <4>2. i \in Instances /\ [kind |-> "provision", call |-> c] \in Command
        BY <2>1 DEF Qualified, Answer, Command
      <4>3. CASE pc' = [pc EXCEPT ![c] = "failed"] /\ UNCHANGED <<commands, pending>>
        BY <2>1, <4>3 DEF TypeOK, PcStates
      <4>4. CASE /\ commands' = [commands EXCEPT ![i] = Append(commands[i], [kind |-> "provision", call |-> c])]
                 /\ pending' = pending \union {<<"provision", c, i>>}
                 /\ pc' = [pc EXCEPT ![c] = "provisioning"]
        <5>1. commands' \in [Instances -> Seq(Command)]
          BY <4>2, <4>4, CommandTypes
        <5>2. pending' \subseteq {"query", "provision"} \X Calls \X Instances
          BY <2>1, <4>2, <4>4 DEF TypeOK
        <5>3. QED
          BY <4>4, <5>1, <5>2 DEF TypeOK, PcStates
      <4>5. QED
        BY <4>1, <4>3, <4>4
    <3>4. CASE WarnAndFail(c, as)
      <4>1. [kind |-> "warning", call |-> c] \in Command
        BY <2>1 DEF Command
      <4>2. QED
        BY <3>4, <4>1, SendAllType DEF WarnAndFail, TypeOK, PcStates
    <3>5. QED
      BY <1>8, <3>1, <3>2, <3>3, <3>4 DEF ReceiveCapacity
  <2>4. QED
    BY <1>8, <2>2, <2>3 DEF ReceiveCapacity, TypeOK
<1>9. ASSUME NEW r \in replies, ReceiveProvision(r) PROVE TypeOK'
  BY <1>9 DEF ReceiveProvision, TypeOK, PcStates, Reply, instanceVars
<1>10. CASE UNCHANGED vars
  BY <1>10 DEF vars, instanceVars, managerVars, callVars, TypeOK
<1>11. QED
  BY <1>1, <1>2, <1>3, <1>4, <1>5, <1>6, <1>7, <1>8, <1>9, <1>10
     DEF Next, InstanceStep, ManagerStep

\* Type correctness of instances, manager and calls.
THEOREM TypeCorrect == Spec => []TypeOK
BY TypeInit, TypeNext, PTL DEF Spec

-----------------------------------------------------------------------------
(* A provision command on its way, by its place in the queue of an instance. *)

Told(c, i, k) ==
  /\ k \in 1 .. Len(commands[i])
  /\ commands[i][k].kind = "provision" /\ commands[i][k].call = c

\* What was true of every queued provision stays true when a head is taken.
LEMMA TakeHead ==
  ASSUME TypeOK, NEW i \in Instances, commands[i] # <<>>,
         commands' = [commands EXCEPT ![i] = Tail(commands[i])]
  PROVE  \A c \in Calls, j \in Instances, k \in Nat :
           Told(c, j, k)' => Told(c, j, IF j = i THEN k + 1 ELSE k)
<1>1. commands[i] \in Seq(Command) /\ commands'[i] = Tail(commands[i])
  BY DEF TypeOK
<1>2. Len(commands[i]) \in Nat \ {0} /\ Len(Tail(commands[i])) = Len(commands[i]) - 1
  BY <1>1
<1>3. \A k \in 1 .. Len(Tail(commands[i])) : Tail(commands[i])[k] = commands[i][k + 1]
  BY <1>1
<1>4. ASSUME NEW c \in Calls, NEW k \in Nat, Told(c, i, k)' PROVE Told(c, i, k + 1)
  <2>1. k \in 1 .. Len(Tail(commands[i])) /\ Tail(commands[i])[k].kind = "provision"
        /\ Tail(commands[i])[k].call = c
    BY <1>1, <1>4 DEF Told
  <2>2. k + 1 \in 1 .. Len(commands[i])
    BY <1>2, <2>1
  <2>3. QED
    BY <1>3, <2>1, <2>2 DEF Told
<1>5. \A j \in Instances : j # i => commands'[j] = commands[j]
  BY DEF TypeOK
<1>6. QED
  BY <1>4, <1>5 DEF Told

\* Commands of the other kinds add no provision.
LEMMA SendOther ==
  ASSUME TypeOK, NEW is, NEW m \in Command, m.kind # "provision", SendAll(is, m)
  PROVE  \A c \in Calls, j \in Instances, k \in Nat : Told(c, j, k)' => Told(c, j, k)
<1> SUFFICES ASSUME NEW c \in Calls, NEW j \in Instances, NEW k \in Nat, Told(c, j, k)'
             PROVE  Told(c, j, k)
  OBVIOUS
<1>1. commands[j] \in Seq(Command) /\ Len(commands[j]) \in Nat
  BY DEF TypeOK
<1>2. commands'[j] = commands[j] \/ commands'[j] = Append(commands[j], m)
  BY DEF SendAll
<1>3. CASE commands'[j] = Append(commands[j], m)
  <2>1. k \in 1 .. Len(commands[j]) + 1 /\ Append(commands[j], m)[k].kind = "provision"
    BY <1>1, <1>3 DEF Told
  <2>2. k # Len(commands[j]) + 1
    BY <1>1, <2>1
  <2>3. QED
    BY <1>1, <1>3, <2>1, <2>2 DEF Told
<1>4. QED
  BY <1>2, <1>3 DEF Told

LEMMA SendProvision ==
  ASSUME TypeOK, NEW c \in Calls, NEW i \in Instances,
         commands' = [commands EXCEPT ![i] = Append(commands[i], [kind |-> "provision", call |-> c])]
  PROVE  \A d \in Calls, j \in Instances, k \in Nat : Told(d, j, k)' =>
           Told(d, j, k) \/ (d = c /\ j = i /\ k = Len(commands[i]) + 1)
<1> SUFFICES ASSUME NEW d \in Calls, NEW j \in Instances, NEW k \in Nat, Told(d, j, k)'
             PROVE  Told(d, j, k) \/ (d = c /\ j = i /\ k = Len(commands[i]) + 1)
  OBVIOUS
<1>1. commands[j] \in Seq(Command) /\ Len(commands[j]) \in Nat
  BY DEF TypeOK
<1>2. CASE j = i
  <2>1. commands'[i] = Append(commands[i], [kind |-> "provision", call |-> c])
    BY DEF TypeOK
  <2>2. k \in 1 .. Len(commands[i]) + 1
    BY <1>1, <1>2, <2>1 DEF Told
  <2>3. CASE k = Len(commands[i]) + 1
    <3>1. Append(commands[i], [kind |-> "provision", call |-> c])[k] = [kind |-> "provision", call |-> c]
      BY <1>1, <1>2, <2>3
    <3>2. d = c
      BY <1>2, <2>1, <3>1 DEF Told
    <3>3. QED
      BY <1>2, <2>3, <3>2
  <2>4. CASE k # Len(commands[i]) + 1
    BY <1>1, <1>2, <2>1, <2>2, <2>4 DEF Told
  <2>5. QED
    BY <2>3, <2>4
<1>3. CASE j # i
  BY <1>3 DEF Told, TypeOK
<1>4. QED
  BY <1>2, <1>3

-----------------------------------------------------------------------------
(* Instances know the specs they are told to start.                         *)

\* What an instance announced it has defined, and definitions stay.
AnnouncedDefined ==
  /\ \A i \in Instances : autoStart[i] \subseteq defined[i]
  /\ \A r \in replies : r.specs \subseteq defined[r.from]
  /\ \A c \in Calls : \A a \in answers[c] : a.specs \subseteq defined[a.from]

ToldDefined ==
  \A c \in Calls, i \in Instances, k \in Nat : Told(c, i, k) => spec[c] \in defined[i]

\* One provision per call, and its reply counts for the worker it started.
OneProvision ==
  /\ \A c \in Calls, i \in Instances, k \in Nat : Told(c, i, k) =>
       /\ pc[c] = "provisioning" /\ started[c] = 0
       /\ \A j \in Instances, l \in Nat : Told(c, j, l) => j = i /\ l = k
  /\ \A r \in replies : r.kind = "provision" =>
       /\ pc[r.call] = "provisioning" /\ started[r.call] = 1
       /\ \A q \in replies : q.kind = "provision" /\ q.call = r.call => q = r

CapacityInv == AnnouncedDefined /\ ToldDefined /\ OneProvision /\ StartsOneOrFails

LEMMA CapacityInvInit == Init => CapacityInv
BY DEF Init, CapacityInv, AnnouncedDefined, ToldDefined, OneProvision, StartsOneOrFails, Told

\* Steps that queue no provision, start nothing and leave the phase of every
\* call, or move it between phases without a worker.
LEMMA QuietStep ==
  ASSUME TypeOK, CapacityInv, spec' = spec, started' = started, replies' \subseteq replies,
         \A c \in Calls, i \in Instances, k \in Nat : Told(c, i, k)' => Told(c, i, k),
         \A c \in Calls :
           \/ pc'[c] = pc[c]
           \/ /\ pc[c] \in {"idle", "querying", "logging"}
              /\ pc'[c] \in {"querying", "logging", "logged", "failed"},
         \A i \in Instances : autoStart'[i] \subseteq defined'[i] /\ defined[i] \subseteq defined'[i],
         \A c \in Calls : \A a \in answers'[c] : a.specs \subseteq defined'[a.from]
  PROVE  CapacityInv'
<1> USE DEF CapacityInv
<1>1. \A r \in replies : r.from \in Instances /\ r.call \in Calls
  BY DEF TypeOK, Reply
<1>2. AnnouncedDefined'
  BY <1>1 DEF AnnouncedDefined
<1>3. ToldDefined'
  BY DEF ToldDefined
<1>4. \A c \in Calls : pc[c] = "provisioning" => pc'[c] = "provisioning"
  OBVIOUS
<1>5. OneProvision'
  BY <1>1, <1>4 DEF OneProvision
<1>6. StartsOneOrFails'
  BY DEF StartsOneOrFails
<1>7. QED
  BY <1>2, <1>3, <1>5, <1>6

LEMMA CapacityInvNext == TypeOK /\ CapacityInv /\ [Next]_vars => CapacityInv'
<1> SUFFICES ASSUME TypeOK, CapacityInv, [Next]_vars PROVE CapacityInv'
  OBVIOUS
<1>0. \A c \in Calls : \A a \in answers[c] : a.from \in Instances /\ a.specs \subseteq defined[a.from]
  BY DEF TypeOK, Answer, CapacityInv, AnnouncedDefined
<1>1. ASSUME NEW i \in Instances, NEW s \in Specs, Define(i, s) PROVE CapacityInv'
  <2>1. \A j \in Instances : autoStart'[j] \subseteq defined'[j] /\ defined[j] \subseteq defined'[j]
    BY <1>1 DEF Define, TypeOK, CapacityInv, AnnouncedDefined
  <2>2. \A c \in Calls : \A a \in answers'[c] : a.specs \subseteq defined'[a.from]
    BY <1>0, <1>1, <2>1 DEF Define, callVars
  <2>3. QED
    BY <1>1, <2>1, <2>2, QuietStep DEF Define, managerVars, callVars, Told
<1>2. ASSUME NEW i \in Instances, Disconnect(i) PROVE CapacityInv'
  <2>1. \A c \in Calls, j \in Instances, k \in Nat : Told(c, j, k)' => Told(c, j, k)
    BY <1>2 DEF Disconnect, Told, TypeOK
  <2>2. QED
    BY <1>0, <1>2, <2>1, QuietStep DEF Disconnect, callVars, CapacityInv, AnnouncedDefined
<1>3. ASSUME NEW i \in Instances, ReportAsInstance(i) PROVE CapacityInv'
  BY <1>0, <1>3, QuietStep DEF ReportAsInstance, callVars, Told, CapacityInv, AnnouncedDefined
<1>4. ASSUME NEW i \in Instances, AnswerQuery(i) PROVE CapacityInv'
  <2>1. \A c \in Calls, j \in Instances, k \in Nat :
          Told(c, j, k)' => Told(c, j, IF j = i THEN k + 1 ELSE k)
    BY <1>4, TakeHead DEF AnswerQuery
  <2>2. \A r \in replies' : r \in replies \/ (r.kind = "query" /\ r.from = i /\ r.specs = autoStart[i])
    BY <1>4 DEF AnswerQuery
  <2>3. AnnouncedDefined'
    BY <1>4, <2>2 DEF AnswerQuery, callVars, CapacityInv, AnnouncedDefined
  <2>4. ToldDefined'
    BY <1>4, <2>1 DEF AnswerQuery, callVars, CapacityInv, ToldDefined
  <2>5. OneProvision' /\ StartsOneOrFails'
    BY <1>4, <2>1, <2>2 DEF AnswerQuery, callVars, CapacityInv, OneProvision, StartsOneOrFails
  <2>6. QED
    BY <2>3, <2>4, <2>5 DEF CapacityInv
<1>5. ASSUME NEW i \in Instances, Provision(i) PROVE CapacityInv'
  <2> DEFINE c == Head(commands[i]).call
             new == [kind |-> "provision", call |-> c, from |-> i, specs |-> {spec[c]}]
  <2>1. c \in Calls /\ Told(c, i, 1)
    <3>1. commands[i] \in Seq(Command) /\ commands[i] # <<>> /\ Head(commands[i]) = commands[i][1] /\ Len(commands[i]) \in Nat \ {0}
      BY <1>5 DEF Provision, TypeOK
    <3>2. QED
      BY <1>5, <3>1, CommandTypes DEF Provision, Told
  <2>2. /\ \A d \in Calls, j \in Instances, k \in Nat :
             Told(d, j, k)' => Told(d, j, IF j = i THEN k + 1 ELSE k)
        /\ pc[c] = "provisioning" /\ started[c] = 0
        /\ \A j \in Instances, l \in Nat : Told(c, j, l) => j = i /\ l = 1
    <3>1. commands[i] # <<>> /\ commands' = [commands EXCEPT ![i] = Tail(commands[i])]
      BY <1>5 DEF Provision
    <3>2. /\ pc[c] = "provisioning" /\ started[c] = 0
          /\ \A j \in Instances, l \in Nat : Told(c, j, l) => j = i /\ l = 1
      <4> HIDE DEF c
      <4>1. QED
        BY <2>1 DEF CapacityInv, OneProvision
    <3>3. QED
      BY <3>1, <3>2, TakeHead
  <2>3. \A d \in Calls, j \in Instances, k \in Nat : Told(d, j, k)' => d # c
    <3> SUFFICES ASSUME NEW d \in Calls, NEW j \in Instances, NEW k \in Nat, Told(d, j, k)', d = c
                 PROVE  FALSE
      OBVIOUS
    <3> HIDE DEF c
    <3>1. Told(c, j, IF j = i THEN k + 1 ELSE k) /\ (IF j = i THEN k + 1 ELSE k) \in Nat
      BY <2>2
    <3>2. j = i /\ k + 1 = 1
      BY <2>2, <3>1
    <3>3. k \in 1 .. Len(commands'[j])
      BY DEF Told
    <3>4. QED
      BY <3>2, <3>3
  <2>4. /\ \A d \in Calls : started'[d] = IF d = c THEN 1 ELSE started[d]
        /\ pc' = pc /\ spec' = spec /\ answers' = answers /\ defined' = defined /\ autoStart' = autoStart
        /\ replies' = replies \union {new} /\ spec[c] \in defined[i]
    BY <1>5, <2>2 DEF Provision, TypeOK
  <2>5. \A r \in replies : r.kind = "provision" => r.call # c
    BY <2>2 DEF CapacityInv, OneProvision
  <2>6. AnnouncedDefined'
    BY <2>4 DEF CapacityInv, AnnouncedDefined
  <2>7. ToldDefined'
    BY <2>2, <2>4 DEF CapacityInv, ToldDefined
  <2>8. OneProvision'
    <3>1. ASSUME NEW d \in Calls, NEW j \in Instances, NEW k \in Nat, Told(d, j, k)'
          PROVE  /\ pc'[d] = "provisioning" /\ started'[d] = 0
                 /\ \A l \in Instances, m \in Nat : Told(d, l, m)' => l = j /\ m = k
      BY <2>2, <2>3, <2>4, <3>1 DEF CapacityInv, OneProvision
    <3>2. ASSUME NEW r \in replies', r.kind = "provision"
          PROVE  /\ pc'[r.call] = "provisioning" /\ started'[r.call] = 1
                 /\ \A q \in replies' : q.kind = "provision" /\ q.call = r.call => q = r
      <4>1. CASE r = new
        BY <2>1, <2>2, <2>4, <2>5, <4>1
      <4>2. CASE r \in replies
        <5>1. r.call \in Calls /\ r.call # c
          BY <2>5, <3>2, <4>2 DEF TypeOK, Reply
        <5>2. QED
          BY <2>4, <3>2, <4>2, <5>1 DEF CapacityInv, OneProvision
      <4>3. QED
        BY <2>4, <4>1, <4>2
    <3>3. QED
      BY <3>1, <3>2 DEF OneProvision
  <2>9. StartsOneOrFails'
    BY <2>2, <2>4 DEF CapacityInv, StartsOneOrFails
  <2>10. QED
    BY <2>6, <2>7, <2>8, <2>9 DEF CapacityInv
<1>6. ASSUME NEW i \in Instances, ReadWarning(i) PROVE CapacityInv'
  <2>1. \A c \in Calls, j \in Instances, k \in Nat :
          Told(c, j, k)' => Told(c, j, IF j = i THEN k + 1 ELSE k)
    BY <1>6, TakeHead DEF ReadWarning
  <2>2. UNCHANGED <<defined, autoStart, replies, pc, spec, answers, started>>
    BY <1>6 DEF ReadWarning, managerVars, callVars
  <2>3. AnnouncedDefined' /\ ToldDefined'
    BY <2>1, <2>2 DEF CapacityInv, AnnouncedDefined, ToldDefined
  <2>4. OneProvision' /\ StartsOneOrFails'
    BY <2>1, <2>2 DEF CapacityInv, OneProvision, StartsOneOrFails
  <2>5. QED
    BY <2>3, <2>4 DEF CapacityInv
<1>7. ASSUME NEW c \in Calls, IncreaseCapacity(c) \/ LogCapacity(c) PROVE CapacityInv'
  <2>1. \A d \in Calls, j \in Instances, k \in Nat : Told(d, j, k)' => Told(d, j, k)
    BY <1>7, SendOther DEF IncreaseCapacity, LogCapacity, QueryListed, Command
  <2>2. \A d \in Calls :
          \/ pc'[d] = pc[d]
          \/ pc[d] = "idle" /\ pc'[d] \in {"querying", "logging", "logged", "failed"}
    BY <1>7 DEF IncreaseCapacity, LogCapacity, TypeOK
  <2>3. QED
    BY <1>0, <1>7, <2>1, <2>2, QuietStep DEF IncreaseCapacity, LogCapacity, CapacityInv, AnnouncedDefined
<1>8. ASSUME NEW r \in replies, ReceiveCapacity(r) PROVE CapacityInv'
  <2> DEFINE c == r.call
             as == answers[c] \union {[from |-> r.from, specs |-> r.specs]}
  <2>1. c \in Calls /\ r.from \in Instances
    BY DEF TypeOK, Reply
  <2>2. /\ UNCHANGED <<defined, autoStart, spec, started>> /\ replies' \subseteq replies
        /\ \A d \in Calls : answers'[d] = IF d = c THEN as ELSE answers[d]
    BY <1>8, <2>1 DEF ReceiveCapacity, TypeOK
  <2>3. \A a \in as : a.from \in Instances /\ a.specs \subseteq defined[a.from]
    BY <1>0, <2>1 DEF CapacityInv, AnnouncedDefined
  <2>4. \A d \in Calls : \A a \in answers'[d] : a.specs \subseteq defined'[a.from]
    BY <1>0, <2>2, <2>3
  <2>5. \A i \in Instances : autoStart'[i] \subseteq defined'[i] /\ defined[i] \subseteq defined'[i]
    BY <2>2 DEF CapacityInv, AnnouncedDefined
  <2>6. CASE UNCHANGED <<commands, pending, pc>>
    BY <2>2, <2>4, <2>5, <2>6, QuietStep DEF Told
  <2>7. CASE /\ pc[c] = "logging" /\ pc' = [pc EXCEPT ![c] = "logged"]
             /\ UNCHANGED <<commands, pending>>
    BY <2>2, <2>4, <2>5, <2>7, QuietStep DEF Told, TypeOK
  <2>8. CASE pc[c] = "querying" /\ WarnAndFail(c, as)
    <3>1. \A d \in Calls, j \in Instances, k \in Nat : Told(d, j, k)' => Told(d, j, k)
      <4>1. [kind |-> "warning", call |-> c] \in Command /\ [kind |-> "warning", call |-> c].kind # "provision"
        BY <2>1 DEF Command
      <4>2. PICK warned : SendAll(warned, [kind |-> "warning", call |-> c])
        BY <2>8 DEF WarnAndFail
      <4>3. QED
        BY <4>1, <4>2, SendOther
    <3>2. \A d \in Calls : \/ pc'[d] = pc[d]
                           \/ pc[d] = "querying" /\ pc'[d] = "failed"
      BY <2>1, <2>8 DEF WarnAndFail, TypeOK
    <3>3. QED
      BY <2>2, <2>4, <2>5, <3>1, <3>2, QuietStep
  <2>9. CASE pc[c] = "querying" /\ Draw(c, as)
    <3>1. PICK i \in Qualified(c, as) :
            \/ /\ commands' = [commands EXCEPT ![i] = Append(commands[i], [kind |-> "provision", call |-> c])]
               /\ pc' = [pc EXCEPT ![c] = "provisioning"]
            \/ /\ pc' = [pc EXCEPT ![c] = "failed"]
               /\ UNCHANGED <<commands, pending>>
      BY <2>9 DEF Draw
    <3>2. i \in Instances /\ spec[c] \in defined[i]
      BY <2>3 DEF Qualified
    <3>3. CASE pc' = [pc EXCEPT ![c] = "failed"] /\ UNCHANGED <<commands, pending>>
      BY <2>2, <2>4, <2>5, <2>9, <3>3, QuietStep DEF Told, TypeOK
    <3>4. CASE /\ commands' = [commands EXCEPT ![i] = Append(commands[i], [kind |-> "provision", call |-> c])]
               /\ pc' = [pc EXCEPT ![c] = "provisioning"]
      <4>1. \A d \in Calls, j \in Instances, k \in Nat : Told(d, j, k)' =>
              Told(d, j, k) \/ (d = c /\ j = i /\ k = Len(commands[i]) + 1)
        BY <2>1, <3>2, <3>4, SendProvision
      <4>2. \A j \in Instances, k \in Nat : ~Told(c, j, k)
        BY <2>1, <2>9 DEF CapacityInv, OneProvision
      <4>3. \A d \in Calls : pc'[d] = IF d = c THEN "provisioning" ELSE pc[d]
        BY <3>4 DEF TypeOK
      <4>4. started[c] = 0 /\ \A q \in replies : q.kind = "provision" => q.call # c
        BY <2>1, <2>9 DEF CapacityInv, OneProvision, StartsOneOrFails
      <4>5. AnnouncedDefined'
        BY <2>2, <2>4, <2>5 DEF CapacityInv, AnnouncedDefined
      <4>6. ToldDefined'
        BY <2>2, <3>2, <4>1 DEF CapacityInv, ToldDefined
      <4>7. OneProvision'
        <5>1. ASSUME NEW d \in Calls, NEW j \in Instances, NEW k \in Nat, Told(d, j, k)'
              PROVE  /\ pc'[d] = "provisioning" /\ started'[d] = 0
                     /\ \A l \in Instances, m \in Nat : Told(d, l, m)' => l = j /\ m = k
          <6>1. CASE d = c
            BY <2>2, <4>1, <4>2, <4>3, <4>4, <5>1, <6>1
          <6>2. CASE d # c
            BY <2>2, <4>1, <4>3, <5>1, <6>2 DEF CapacityInv, OneProvision
          <6>3. QED
            BY <6>1, <6>2
        <5>2. ASSUME NEW q \in replies', q.kind = "provision"
              PROVE  /\ pc'[q.call] = "provisioning" /\ started'[q.call] = 1
                     /\ \A p \in replies' : p.kind = "provision" /\ p.call = q.call => p = q
          <6>1. q \in replies /\ q.call \in Calls /\ q.call # c
            BY <2>2, <4>4, <5>2 DEF TypeOK, Reply
          <6>2. QED
            BY <2>2, <4>3, <5>2, <6>1 DEF CapacityInv, OneProvision
        <5>3. QED
          BY <5>1, <5>2 DEF OneProvision
      <4>8. StartsOneOrFails'
        BY <2>2, <4>3, <4>4 DEF CapacityInv, StartsOneOrFails
      <4>9. QED
        BY <4>5, <4>6, <4>7, <4>8 DEF CapacityInv
    <3>5. QED
      BY <3>1, <3>3, <3>4
  <2>10. QED
    BY <1>8, <2>6, <2>7, <2>8, <2>9 DEF ReceiveCapacity
<1>9. ASSUME NEW r \in replies, ReceiveProvision(r) PROVE CapacityInv'
  <2> DEFINE c == r.call
  <2>1. c \in Calls /\ r.kind = "provision" /\ started[c] = 1 /\ pc[c] = "provisioning"
    BY <1>9 DEF ReceiveProvision, TypeOK, Reply, CapacityInv, OneProvision
  <2>2. /\ UNCHANGED <<defined, autoStart, commands, spec, answers, started>>
        /\ replies' = replies \ {r}
        /\ \A d \in Calls : pc'[d] = IF d = c THEN "done" ELSE pc[d]
    BY <1>9, <2>1 DEF ReceiveProvision, instanceVars, TypeOK
  <2>3. AnnouncedDefined' /\ ToldDefined'
    BY <2>2 DEF CapacityInv, AnnouncedDefined, ToldDefined, Told
  <2>4. OneProvision'
    <3>1. \A j \in Instances, k \in Nat : ~Told(c, j, k)
      BY <2>1 DEF CapacityInv, OneProvision
    <3>2. \A q \in replies' : q.kind = "provision" => q.call \in Calls /\ q.call # c
      BY <2>1, <2>2 DEF CapacityInv, OneProvision, TypeOK, Reply
    <3>3. \A d \in Calls, j \in Instances, k \in Nat : Told(d, j, k)' => Told(d, j, k) /\ d # c
      BY <2>2, <3>1 DEF Told
    <3>4. QED
      BY <2>2, <3>2, <3>3 DEF CapacityInv, OneProvision, Told
  <2>5. StartsOneOrFails'
    BY <2>1, <2>2 DEF CapacityInv, StartsOneOrFails
  <2>6. QED
    BY <2>3, <2>4, <2>5 DEF CapacityInv
<1>10. CASE UNCHANGED vars
  BY <1>10 DEF vars, instanceVars, managerVars, callVars, CapacityInv, AnnouncedDefined,
     ToldDefined, OneProvision, StartsOneOrFails, Told
<1>11. QED
  BY <1>1, <1>2, <1>3, <1>4, <1>5, <1>6, <1>7, <1>8, <1>9, <1>10
     DEF Next, InstanceStep, ManagerStep

LEMMA CapacityInvariant == Spec => [](TypeOK /\ CapacityInv)
BY TypeInit, TypeNext, CapacityInvInit, CapacityInvNext, PTL DEF Spec

\* An instance never receives a provision for a spec it has not defined.
THEOREM ProvisionsServable == Spec => []ProvisionFindsDef
<1>1. TypeOK /\ CapacityInv => ProvisionFindsDef
  <2> SUFFICES ASSUME TypeOK, CapacityInv, NEW i \in Instances, NEW k \in 1 .. Len(commands[i]),
                      commands[i][k].kind = "provision"
               PROVE  spec[commands[i][k].call] \in defined[i]
    BY DEF ProvisionFindsDef
  <2>1. commands[i] \in Seq(Command) /\ Len(commands[i]) \in Nat /\ k \in Nat
    BY DEF TypeOK
  <2>2a. commands[i][k] \in Command
    BY <2>1
  <2>2b. commands[i][k].call \in Calls
    BY <2>2a DEF Command
  <2>2. Told(commands[i][k].call, i, k)
    BY DEF Told
  <2>3. QED
    BY <2>1, <2>2, <2>2b DEF CapacityInv, ToldDefined
<1>2. QED
  BY <1>1, CapacityInvariant, PTL

\* A call that returned started exactly one worker, one that failed none.
THEOREM OneWorkerPerCall == Spec => []StartsOneOrFails
<1>1. CapacityInv => StartsOneOrFails
  BY DEF CapacityInv
<1>2. QED
  BY <1>1, CapacityInvariant, PTL

-----------------------------------------------------------------------------
(* Calls that fail have a cause: each instance is asked once, so the answers *)
(* a call ended with are never changed.                                      *)

Asks(c, i, k) ==
  /\ k \in 1 .. Len(commands[i])
  /\ commands[i][k].kind = "query" /\ commands[i][k].call = c

\* A resolver is there as long as the stream, and who answered had one.
ServingResolves ==
  /\ \A i \in Instances : stream[i] = "up" => i \in resolvers
  /\ \A r \in replies : stream[r.from] \in {"up", "gone"}
  /\ \A c \in Calls : \A a \in answers[c] : stream[a.from] \in {"up", "gone"}

\* A query is in one place: queued, being answered, or answered.
OneQuery ==
  /\ \A c \in Calls, i \in Instances, k \in Nat : Asks(c, i, k) =>
       /\ pc[c] # "idle" /\ i \notin From(answers[c])
       /\ \A l \in Nat : Asks(c, i, l) => l = k
       /\ \A r \in replies : r.kind = "query" /\ r.call = c => r.from # i
  /\ \A r \in replies : r.kind = "query" =>
       /\ pc[r.call] # "idle" /\ r.from \notin From(answers[r.call])
       /\ \A q \in replies : q.kind = "query" /\ q.call = r.call /\ q.from = r.from => q = r

\* A call goes on when all have answered.
AllAnswered ==
  \A c \in Calls :
    /\ pc[c] = "idle" => answers[c] = {} /\ Asked(c) = {}
    /\ pc[c] \notin {"idle", "querying", "logging"} => From(answers[c]) = Asked(c)

CauseInv == ServingResolves /\ OneQuery /\ AllAnswered /\ FailsForCause

LEMMA CauseInit == Init => CauseInv
BY DEF Init, CauseInv, ServingResolves, OneQuery, AllAnswered, FailsForCause, Asks, Asked, From

LEMMA AsksTail ==
  ASSUME TypeOK, NEW i \in Instances, commands[i] # <<>>,
         commands' = [commands EXCEPT ![i] = Tail(commands[i])]
  PROVE  \A c \in Calls, j \in Instances, k \in Nat :
           Asks(c, j, k)' => Asks(c, j, IF j = i THEN k + 1 ELSE k)
<1>1. commands[i] \in Seq(Command) /\ commands'[i] = Tail(commands[i])
  BY DEF TypeOK
<1>2. Len(commands[i]) \in Nat \ {0} /\ Len(Tail(commands[i])) = Len(commands[i]) - 1
  BY <1>1
<1>3. \A k \in 1 .. Len(Tail(commands[i])) : Tail(commands[i])[k] = commands[i][k + 1]
  BY <1>1
<1>4. ASSUME NEW c \in Calls, NEW k \in Nat, Asks(c, i, k)' PROVE Asks(c, i, k + 1)
  <2>1. k \in 1 .. Len(Tail(commands[i])) /\ Tail(commands[i])[k].kind = "query"
        /\ Tail(commands[i])[k].call = c
    BY <1>1, <1>4 DEF Asks
  <2> QED BY <1>2, <1>3, <2>1 DEF Asks
<1>5. \A j \in Instances : j # i => commands'[j] = commands[j]
  BY DEF TypeOK
<1> QED BY <1>4, <1>5 DEF Asks

\* A command that is added at the end of some queues.
LEMMA AsksAdded ==
  ASSUME TypeOK, NEW is, NEW m \in Command,
         \A i \in Instances :
           commands'[i] = commands[i] \/ (i \in is /\ commands'[i] = Append(commands[i], m))
  PROVE  \A c \in Calls, j \in Instances, k \in Nat : Asks(c, j, k)' =>
           \/ Asks(c, j, k)
           \/ m.kind = "query" /\ m.call = c /\ j \in is /\ k = Len(commands[j]) + 1
<1> SUFFICES ASSUME NEW c \in Calls, NEW j \in Instances, NEW k \in Nat, Asks(c, j, k)'
             PROVE  \/ Asks(c, j, k)
                    \/ m.kind = "query" /\ m.call = c /\ j \in is /\ k = Len(commands[j]) + 1
  OBVIOUS
<1>1. commands[j] \in Seq(Command) /\ Len(commands[j]) \in Nat
  BY DEF TypeOK
<1>2. CASE commands'[j] = commands[j]
  BY <1>2 DEF Asks
<1>3. CASE j \in is /\ commands'[j] = Append(commands[j], m)
  <2>1. k \in 1 .. Len(commands[j]) + 1
    BY <1>1, <1>3 DEF Asks
  <2>2. CASE k = Len(commands[j]) + 1
    <3>1. commands'[j][k] = m
      BY <1>1, <1>3, <2>2
    <3> QED BY <1>3, <2>2, <3>1 DEF Asks
  <2>3. CASE k # Len(commands[j]) + 1
    BY <1>1, <1>3, <2>1, <2>3 DEF Asks
  <2> QED BY <2>2, <2>3
<1> QED BY <1>2, <1>3

\* Steps that ask nobody and receive no answer.
LEMMA NoAnswerStep ==
  ASSUME TypeOK, CauseInv, spec' = spec, answers' = answers,
         \A c \in Calls : Asked(c)' = Asked(c),
         \A r \in replies' : r.kind = "query" => r \in replies,
         \A r \in replies' : r \in replies \/ stream'[r.from] \in {"up", "gone"},
         \A c \in Calls, i \in Instances, k \in Nat :
           Asks(c, i, k)' => \E d \in {0, 1} :
             \A l \in Nat : Asks(c, i, l)' => Asks(c, i, l + d),
         \A c \in Calls : \/ pc'[c] = pc[c]
                          \/ pc[c] = "provisioning" /\ pc'[c] = "done",
         \A i \in Instances :
           /\ stream[i] \in {"up", "gone"} => stream'[i] \in {"up", "gone"}
           /\ stream[i] = "gone" => stream'[i] = "gone"
           /\ stream'[i] = "up" => i \in resolvers'
  PROVE  CauseInv'
<1> USE DEF CauseInv
<1>1. \A r \in replies : r.from \in Instances /\ r.call \in Calls
  BY DEF TypeOK, Reply
<1>2. \A c \in Calls : \A a \in answers[c] : a.from \in Instances
  BY DEF TypeOK, Answer
<1>3. ServingResolves'
  BY <1>1, <1>2 DEF ServingResolves
<1>4. \A c \in Calls : From(answers[c])' = From(answers[c])
  BY DEF From
<1>5. OneQuery'
  <2>1. ASSUME NEW c \in Calls, NEW i \in Instances, NEW k \in Nat, Asks(c, i, k)'
        PROVE  /\ pc'[c] # "idle" /\ i \notin From(answers'[c])
               /\ \A l \in Nat : Asks(c, i, l)' => l = k
               /\ \A r \in replies' : r.kind = "query" /\ r.call = c => r.from # i
    <3>1. PICK d \in {0, 1} : \A l \in Nat : Asks(c, i, l)' => Asks(c, i, l + d)
      BY <2>1
    <3>2. Asks(c, i, k + d) /\ k + d \in Nat
      BY <2>1, <3>1
    <3>3. \A l \in Nat : Asks(c, i, l)' => l + d = k + d
      BY <3>1, <3>2 DEF OneQuery
    <3> QED BY <1>4, <3>2, <3>3 DEF OneQuery
  <2> QED BY <1>1, <1>4, <2>1 DEF OneQuery
<1>6. AllAnswered'
  BY <1>4 DEF AllAnswered
<1>7. FailsForCause'
  <2>1. \A c \in Calls : Qualified(c, answers[c])' = Qualified(c, answers[c])
    BY DEF Qualified
  <2>2. \A c \in Calls : Qualified(c, answers[c]) \subseteq Instances
    BY <1>2 DEF Qualified
  <2> QED BY <2>1, <2>2 DEF FailsForCause
<1> QED BY <1>3, <1>5, <1>6, <1>7

LEMMA CauseQuiet ==
  ASSUME TypeOK, CapacityInv, CauseInv, NEW i \in Instances,
         \/ \E s \in Specs : Define(i, s)
         \/ Disconnect(i) \/ ReportAsInstance(i) \/ Provision(i) \/ ReadWarning(i)
  PROVE  CauseInv'
<1> DEFINE Shift(d) == \A c \in Calls, j \in Instances, k \in Nat :
                         Asks(c, j, k)' => Asks(c, j, IF j = i THEN k + d ELSE k)
           Moves == \A c \in Calls, j \in Instances, k \in Nat :
                      Asks(c, j, k)' => \E d \in {0, 1} :
                        \A l \in Nat : Asks(c, j, l)' => Asks(c, j, l + d)
<1>1. Shift(0) => Moves
  <2>1. ASSUME Shift(0), NEW c \in Calls, NEW j \in Instances
        PROVE  \A l \in Nat : Asks(c, j, l)' => Asks(c, j, l + 0)
    BY <2>1
  <2> QED BY <2>1
<1>2. Shift(1) => Moves
  <2>1. ASSUME Shift(1), NEW c \in Calls, NEW j \in Instances
        PROVE  \A l \in Nat : Asks(c, j, l)' => Asks(c, j, l + (IF j = i THEN 1 ELSE 0))
    BY <2>1
  <2> QED BY <2>1
<1> USE DEF CauseInv, ServingResolves
<1>3. ASSUME NEW s \in Specs, Define(i, s) PROVE CauseInv'
  <2>1. Moves
    BY <1>1, <1>3 DEF Define, Asks
  <2> HIDE DEF Moves
  <2>2. \A j \in Instances : stream'[j] = stream[j] \/ (stream[j] = "none" /\ stream'[j] = "opening")
    BY <1>3 DEF Define, TypeOK
  <2>3. UNCHANGED <<resolvers, replies, pending, pc, spec, answers>>
    BY <1>3 DEF Define, managerVars, callVars
  <2> QED BY <2>1, <2>2, <2>3, NoAnswerStep DEF Asked, Moves
<1>4. ASSUME Disconnect(i) PROVE CauseInv'
  <2>1. Shift(0)
    BY <1>4 DEF Disconnect, Asks, TypeOK
  <2>2. Moves
    BY <1>1, <2>1
  <2> HIDE DEF Moves
  <2>3. /\ resolvers' = resolvers \ {i}
        /\ \A j \in Instances : stream'[j] = IF j = i THEN "gone" ELSE stream[j]
        /\ UNCHANGED <<replies, pending, pc, spec, answers>>
    BY <1>4 DEF Disconnect, TypeOK, callVars
  <2> QED BY <2>2, <2>3, NoAnswerStep DEF Asked, Moves
<1>5. ASSUME ReportAsInstance(i) PROVE CauseInv'
  <2>1. Moves
    BY <1>1, <1>5 DEF ReportAsInstance, Asks
  <2> HIDE DEF Moves
  <2>2. /\ resolvers' = resolvers \union {i} /\ stream[i] = "opening"
        /\ \A j \in Instances : stream'[j] = IF j = i THEN "up" ELSE stream[j]
        /\ UNCHANGED <<replies, pending, pc, spec, answers>>
    BY <1>5 DEF ReportAsInstance, TypeOK, callVars
  <2> QED BY <2>1, <2>2, NoAnswerStep DEF Asked, Moves
<1>6. ASSUME Provision(i) PROVE CauseInv'
  <2>1. Shift(1)
    BY <1>6, AsksTail DEF Provision
  <2>2. Moves
    BY <1>2, <2>1
  <2> HIDE DEF Moves
  <2>3. /\ \A r \in replies' : r \in replies \/ (r.kind = "provision" /\ r.from = i)
        /\ stream[i] = "up" /\ UNCHANGED <<stream, resolvers, pending, pc, spec, answers>>
    BY <1>6 DEF Provision
  <2> QED BY <2>2, <2>3, NoAnswerStep DEF Asked, Moves
<1>7. ASSUME ReadWarning(i) PROVE CauseInv'
  <2>1. Shift(1)
    BY <1>7, AsksTail DEF ReadWarning
  <2>2. Moves
    BY <1>2, <2>1
  <2> HIDE DEF Moves
  <2>3. UNCHANGED <<stream, resolvers, replies, pending, pc, spec, answers>>
    BY <1>7 DEF ReadWarning, managerVars, callVars
  <2> QED BY <2>2, <2>3, NoAnswerStep DEF Asked, Moves
<1> QED BY <1>3, <1>4, <1>5, <1>6, <1>7

\* An answer is sent: the query moves from the queue to the replies.
LEMMA CauseAnswer ==
  ASSUME TypeOK, CauseInv, NEW i \in Instances, AnswerQuery(i)
  PROVE  CauseInv'
<1> DEFINE c == Head(commands[i]).call
           new == [kind |-> "query", call |-> c, from |-> i, specs |-> autoStart[i]]
<1> USE DEF CauseInv
<1>1. c \in Calls /\ Asks(c, i, 1)
  <2>1. commands[i] \in Seq(Command) /\ commands[i] # <<>> /\ Head(commands[i]) = commands[i][1]
        /\ Len(commands[i]) \in Nat \ {0}
    BY DEF AnswerQuery, TypeOK
  <2> QED BY <2>1, CommandTypes DEF AnswerQuery, Asks
<1>2. \A d \in Calls, j \in Instances, k \in Nat :
        Asks(d, j, k)' => k # 0 /\ Asks(d, j, IF j = i THEN k + 1 ELSE k)
  <2>1. commands' = [commands EXCEPT ![i] = Tail(commands[i])] /\ commands[i] # <<>>
    BY DEF AnswerQuery
  <2>2. \A d \in Calls, j \in Instances, k \in Nat :
          Asks(d, j, k)' => Asks(d, j, IF j = i THEN k + 1 ELSE k)
    BY <2>1, AsksTail
  <2>3. \A d \in Calls, j \in Instances, k \in Nat : Asks(d, j, k)' => k # 0
    <3>1. \A j \in Instances : commands'[j] \in Seq(Command)
      BY <2>1, CommandTypes DEF TypeOK
    <3> QED BY <3>1 DEF Asks
  <2> QED BY <2>2, <2>3
<1>3. /\ replies' = replies \union {new} /\ new.kind = "query" /\ new.call = c /\ new.from = i
      /\ stream[i] = "up"
      /\ UNCHANGED <<stream, resolvers, pending, pc, spec, answers>>
  BY DEF AnswerQuery, callVars
<1> HIDE DEF c, new
<1>4. /\ pc[c] # "idle" /\ i \notin From(answers[c])
      /\ \A l \in Nat : Asks(c, i, l) => l = 1
      /\ \A r \in replies : r.kind = "query" /\ r.call = c => r.from # i
  BY <1>1 DEF OneQuery
<1>5. ServingResolves'
  BY <1>3 DEF ServingResolves
<1>6. ASSUME NEW d \in Calls, NEW j \in Instances, NEW k \in Nat, Asks(d, j, k)'
      PROVE  /\ pc'[d] # "idle" /\ j \notin From(answers'[d])
             /\ \A l \in Nat : Asks(d, j, l)' => l = k
             /\ \A r \in replies' : r.kind = "query" /\ r.call = d => r.from # j
  <2>1. k # 0 /\ Asks(d, j, IF j = i THEN k + 1 ELSE k)
    BY <1>2, <1>6
  <2>2. ~(d = c /\ j = i)
    BY <1>4, <2>1
  <2>3. \A l \in Nat : Asks(d, j, l)' => l = k
    BY <1>2, <2>1 DEF OneQuery
  <2>4. /\ pc[d] # "idle" /\ j \notin From(answers[d])
        /\ \A r \in replies : r.kind = "query" /\ r.call = d => r.from # j
    BY <2>1 DEF OneQuery
  <2> QED BY <1>3, <2>2, <2>3, <2>4
<1>7. ASSUME NEW r \in replies', r.kind = "query"
      PROVE  /\ pc'[r.call] # "idle" /\ r.from \notin From(answers'[r.call])
             /\ \A q \in replies' : q.kind = "query" /\ q.call = r.call /\ q.from = r.from => q = r
  BY <1>3, <1>4, <1>7 DEF OneQuery
<1>8. OneQuery'
  BY <1>6, <1>7 DEF OneQuery
<1>9. AllAnswered' /\ FailsForCause'
  BY <1>3 DEF AllAnswered, FailsForCause, Asked, Qualified
<1> QED BY <1>5, <1>8, <1>9

\* A call asks every listed instance, once.
LEMMA CauseAsk ==
  ASSUME TypeOK, CauseInv, NEW c \in Calls, IncreaseCapacity(c) \/ LogCapacity(c)
  PROVE  CauseInv'
<1> DEFINE m == [kind |-> "query", call |-> c]
<1> USE DEF CauseInv
<1>1. /\ pc[c] = "idle" /\ QueryListed(c) /\ UNCHANGED <<stream, resolvers, replies, spec, answers>>
      /\ \A d \in Calls : pc'[d] # "idle" \/ (d # c /\ pc[d] = "idle")
      /\ \A d \in Calls : d # c => pc'[d] = pc[d]
      /\ pc'[c] \notin {"querying", "logging"} => Listed = {}
  BY DEF IncreaseCapacity, LogCapacity, TypeOK
<1>2. Listed \subseteq Instances /\ m \in Command /\ m.kind = "query" /\ m.call = c
  BY ListsType DEF Command
<1> HIDE DEF m
<1>3. \A d \in Calls, j \in Instances, k \in Nat : Asks(d, j, k)' =>
        Asks(d, j, k) \/ (d = c /\ j \in Listed /\ k = Len(commands[j]) + 1)
  <2>1. \A j \in Instances :
          commands'[j] = commands[j] \/ (j \in Listed /\ commands'[j] = Append(commands[j], m))
    BY <1>1 DEF QueryListed, SendAll, m
  <2> QED BY <1>2, <2>1, AsksAdded
<1>4. answers[c] = {} /\ Asked(c) = {} /\ From(answers[c]) = {}
      /\ \A j \in Instances, k \in Nat : ~Asks(c, j, k)
      /\ \A r \in replies : r.kind = "query" => r.call # c
  BY <1>1 DEF AllAnswered, OneQuery, From
<1>5. /\ \A d \in Calls : d # c => Asked(d)' = Asked(d)
      /\ Asked(c)' = Listed
  BY <1>1, <1>2, <1>4 DEF QueryListed, Asked
<1>6. ServingResolves'
  BY <1>1 DEF ServingResolves
<1>7. OneQuery'
  <2>1. ASSUME NEW d \in Calls, NEW j \in Instances, NEW k \in Nat, Asks(d, j, k)'
        PROVE  /\ pc'[d] # "idle" /\ j \notin From(answers'[d])
               /\ \A l \in Nat : Asks(d, j, l)' => l = k
               /\ \A r \in replies' : r.kind = "query" /\ r.call = d => r.from # j
    <3>1. CASE d = c
      <4>1. pc'[c] # "idle" /\ j \notin From(answers'[c])
        BY <1>1, <1>4
      <4>2. \A l \in Nat : Asks(c, j, l)' => l = Len(commands[j]) + 1
        BY <1>3, <1>4
      <4>3. \A r \in replies' : r.kind = "query" => r.call # c
        BY <1>1, <1>4
      <4> QED BY <2>1, <3>1, <4>1, <4>2, <4>3
    <3>2. CASE d # c
      BY <1>1, <1>3, <2>1, <3>2 DEF OneQuery
    <3> QED BY <3>1, <3>2
  <2>2. ASSUME NEW r \in replies', r.kind = "query"
        PROVE  /\ pc'[r.call] # "idle" /\ r.from \notin From(answers'[r.call])
               /\ \A q \in replies' : q.kind = "query" /\ q.call = r.call /\ q.from = r.from => q = r
    <3>1. r.call \in Calls /\ r.call # c
      BY <1>1, <1>4, <2>2 DEF TypeOK, Reply
    <3> QED BY <1>1, <2>2, <3>1 DEF OneQuery
  <2> QED BY <2>1, <2>2 DEF OneQuery
<1>8. AllAnswered'
  BY <1>1, <1>4, <1>5 DEF AllAnswered
<1>9. FailsForCause'
  <2>1. \A d \in Calls : Qualified(d, answers[d])' = Qualified(d, answers[d])
    BY <1>1 DEF Qualified
  <2>2. Qualified(c, answers[c]) = {}
    BY <1>4 DEF Qualified
  <2> QED BY <1>1, <2>1, <2>2 DEF FailsForCause
<1> QED BY <1>6, <1>7, <1>8, <1>9

\* An answer is taken; the last one decides the call.
LEMMA CauseReceive ==
  ASSUME TypeOK, CauseInv, NEW r \in replies, ReceiveCapacity(r)
  PROVE  CauseInv'
<1> DEFINE c == r.call
           as == answers[c] \union {[from |-> r.from, specs |-> r.specs]}
<1> USE DEF CauseInv
<1>1. c \in Calls /\ r.from \in Instances /\ r.kind = "query" /\ r.from \in Asked(c)
  BY DEF ReceiveCapacity, TypeOK, Reply, Asked
<1>2. /\ pc[c] # "idle" /\ r.from \notin From(answers[c])
      /\ \A q \in replies : q.kind = "query" /\ q.call = c /\ q.from = r.from => q = r
      /\ \A k \in Nat : ~Asks(c, r.from, k)
  BY <1>1 DEF OneQuery
<1>3. From(as) = From(answers[c]) \union {r.from}
  <2>1. [from |-> r.from, specs |-> r.specs].from = r.from
    OBVIOUS
  <2>2. \A x : x \in From(as) <=> x \in From(answers[c]) \/ x = r.from
    BY <2>1 DEF From
  <2> QED BY <2>2
<1>4. /\ replies' = replies \ {r} /\ UNCHANGED <<stream, resolvers, spec>>
      /\ \A d \in Calls : answers'[d] = IF d = c THEN as ELSE answers[d]
  BY <1>1 DEF ReceiveCapacity, TypeOK
<1>5. \A i \in Qualified(c, as) : i \in Instances /\ (i \notin resolvers => stream[i] = "gone")
  BY <1>1 DEF Qualified, ServingResolves, TypeOK, Answer
<1>6. ASSUME Draw(c, as)
      PROVE  /\ \A d \in Calls, j \in Instances, k \in Nat : Asks(d, j, k)' => Asks(d, j, k)
             /\ \A d \in Calls : Asked(d)' = Asked(d)
             /\ \A d \in Calls : d # c => pc'[d] = pc[d]
             /\ pc'[c] \in {"provisioning", "failed"}
             /\ pc'[c] = "failed" => \E i \in Qualified(c, as) : stream[i] = "gone"
  <2> DEFINE m == [kind |-> "provision", call |-> c]
  <2>1. m \in Command /\ m.kind # "query"
    BY <1>1 DEF Command
  <2>2. PICK i \in Qualified(c, as) :
          \/ /\ commands' = [commands EXCEPT ![i] = Append(commands[i], m)]
             /\ pending' = pending \union {<<"provision", c, i>>}
             /\ pc' = [pc EXCEPT ![c] = "provisioning"]
          \/ /\ i \notin resolvers /\ pc' = [pc EXCEPT ![c] = "failed"]
             /\ UNCHANGED <<commands, pending>>
    BY <1>6 DEF Draw
  <2> HIDE DEF m
  <2>3. \A j \in Instances :
          commands'[j] = commands[j] \/ (j \in {i} /\ commands'[j] = Append(commands[j], m))
    BY <2>2 DEF TypeOK
  <2>4. \A d \in Calls, j \in Instances, k \in Nat : Asks(d, j, k)' => Asks(d, j, k)
    BY <2>1, <2>3, AsksAdded
  <2>5. \A d \in Calls : Asked(d)' = Asked(d)
    BY <2>2 DEF Asked
  <2>6. /\ \A d \in Calls : d # c => pc'[d] = pc[d]
        /\ pc'[c] \in {"provisioning", "failed"}
        /\ pc'[c] = "failed" => i \notin resolvers
    BY <1>1, <2>2 DEF TypeOK
  <2> QED BY <1>5, <2>4, <2>5, <2>6
<1>7. ASSUME WarnAndFail(c, as)
      PROVE  /\ \A d \in Calls, j \in Instances, k \in Nat : Asks(d, j, k)' => Asks(d, j, k)
             /\ \A d \in Calls : Asked(d)' = Asked(d)
             /\ \A d \in Calls : d # c => pc'[d] = pc[d]
             /\ pc'[c] = "failed" /\ Qualified(c, as) = {}
  <2> DEFINE m == [kind |-> "warning", call |-> c]
  <2>1. m \in Command /\ m.kind # "query"
    BY <1>1 DEF Command
  <2>2. PICK warned : SendAll(warned, m)
    BY <1>7 DEF WarnAndFail
  <2> HIDE DEF m
  <2>3. \A j \in Instances :
          commands'[j] = commands[j] \/ (j \in warned /\ commands'[j] = Append(commands[j], m))
    BY <2>2 DEF SendAll
  <2>4. \A d \in Calls, j \in Instances, k \in Nat : Asks(d, j, k)' => Asks(d, j, k)
    BY <2>1, <2>3, AsksAdded
  <2>5. /\ pending' = pending /\ pc' = [pc EXCEPT ![c] = "failed"] /\ Qualified(c, as) = {}
    BY <1>7 DEF WarnAndFail
  <2> QED BY <1>1, <2>4, <2>5 DEF Asked, TypeOK
<1>8. /\ \A d \in Calls, j \in Instances, k \in Nat : Asks(d, j, k)' => Asks(d, j, k)
      /\ \A d \in Calls : Asked(d)' = Asked(d)
      /\ \A d \in Calls : d # c => pc'[d] = pc[d]
      /\ pc'[c] # "idle"
      /\ pc'[c] \notin {"querying", "logging"} => From(as) = Asked(c)
      /\ pc'[c] = "failed" => \/ Qualified(c, as) = {}
                              \/ \E i \in Qualified(c, as) : stream[i] = "gone"
  <2>1. CASE UNCHANGED <<commands, pending, pc>>
    <3>1. From(answers[c]) # Asked(c)
      BY <1>1, <1>2
    <3>2. pc[c] \in {"querying", "logging"}
      BY <1>1, <1>2, <3>1 DEF AllAnswered
    <3> QED BY <2>1, <3>2 DEF Asks, Asked
  <2>2. CASE UNCHANGED <<commands, pending>> /\ pc' = [pc EXCEPT ![c] = "logged"] /\ From(as) = Asked(c)
    BY <1>1, <2>2 DEF Asks, Asked, TypeOK
  <2>3. CASE From(as) = Asked(c) /\ Draw(c, as)
    BY <1>6, <2>3
  <2>4. CASE From(as) = Asked(c) /\ WarnAndFail(c, as)
    BY <1>7, <2>4
  <2> QED BY <2>1, <2>2, <2>3, <2>4 DEF ReceiveCapacity
<1>9. \A d \in Calls : From(answers[d])' = IF d = c THEN From(as) ELSE From(answers[d])
  BY <1>4 DEF From
<1> HIDE DEF c, as
<1>10. ServingResolves'
  <2>1. \A d \in Calls : \A a \in answers'[d] : a \in answers[d] \/ a.from = r.from
    BY <1>4 DEF as
  <2> QED BY <1>4, <2>1 DEF ServingResolves
<1>11. OneQuery'
  <2>1. ASSUME NEW d \in Calls, NEW j \in Instances, NEW k \in Nat, Asks(d, j, k)'
        PROVE  /\ pc'[d] # "idle" /\ j \notin From(answers'[d])
               /\ \A l \in Nat : Asks(d, j, l)' => l = k
               /\ \A q \in replies' : q.kind = "query" /\ q.call = d => q.from # j
    <3>1. Asks(d, j, k)
      BY <1>8, <2>1
    <3>2. /\ pc[d] # "idle" /\ j \notin From(answers[d]) /\ ~(d = c /\ j = r.from)
          /\ \A l \in Nat : Asks(d, j, l) => l = k
          /\ \A q \in replies : q.kind = "query" /\ q.call = d => q.from # j
      BY <1>2, <3>1 DEF OneQuery
    <3>3. pc'[d] # "idle" /\ \A q \in replies' : q.kind = "query" /\ q.call = d => q.from # j
      BY <1>4, <1>8, <3>2
    <3>4. j \notin From(answers[d])'
      BY <1>3, <1>9, <3>2
    <3>5. \A l \in Nat : Asks(d, j, l)' => l = k
      BY <1>8, <3>2
    <3> QED BY <3>3, <3>4, <3>5 DEF From
  <2>2. ASSUME NEW q \in replies', q.kind = "query"
        PROVE  /\ pc'[q.call] # "idle" /\ q.from \notin From(answers'[q.call])
               /\ \A p \in replies' : p.kind = "query" /\ p.call = q.call /\ p.from = q.from => p = q
    <3>1. q \in replies /\ q # r /\ q.call \in Calls
      BY <1>4 DEF TypeOK, Reply
    <3>2. /\ pc[q.call] # "idle" /\ q.from \notin From(answers[q.call])
          /\ \A p \in replies : p.kind = "query" /\ p.call = q.call /\ p.from = q.from => p = q
      BY <2>2, <3>1 DEF OneQuery
    <3>3. ~(q.call = c /\ q.from = r.from)
      BY <1>2, <2>2, <3>1
    <3> QED BY <1>3, <1>4, <1>8, <1>9, <3>1, <3>2, <3>3
  <2> QED BY <2>1, <2>2 DEF OneQuery
<1>12. AllAnswered'
  BY <1>2, <1>4, <1>8, <1>9 DEF AllAnswered
<1>13. FailsForCause'
  <2>1. \A d \in Calls : Qualified(d, answers[d])' = IF d = c THEN Qualified(c, as) ELSE Qualified(d, answers[d])
    BY <1>4 DEF Qualified
  <2> QED BY <1>4, <1>8, <2>1 DEF FailsForCause
<1> QED BY <1>10, <1>11, <1>12, <1>13

LEMMA CauseNext == TypeOK /\ CapacityInv /\ CauseInv /\ [Next]_vars => CauseInv'
<1> SUFFICES ASSUME TypeOK, CapacityInv, CauseInv, [Next]_vars PROVE CauseInv'
  OBVIOUS
<1>1. ASSUME NEW r \in replies, ReceiveProvision(r) PROVE CauseInv'
  <2>1. /\ UNCHANGED <<stream, commands, resolvers, pending, spec, answers>>
        /\ replies' \subseteq replies /\ r.call \in Calls
        /\ pc' = [pc EXCEPT ![r.call] = "done"] /\ r.kind = "provision"
    BY <1>1 DEF ReceiveProvision, instanceVars, TypeOK, Reply
  <2>2. pc[r.call] = "provisioning"
    BY <2>1 DEF CapacityInv, OneProvision
  <2>3. \A c \in Calls, i \in Instances, k \in Nat : Asks(c, i, k)' =>
          \E d \in {0, 1} : \A l \in Nat : Asks(c, i, l)' => Asks(c, i, l + d)
    <3>1. \A c \in Calls, i \in Instances, l \in Nat : Asks(c, i, l)' => Asks(c, i, l + 0)
      BY <2>1 DEF Asks
    <3> QED BY <3>1
  <2>4. \A c \in Calls : pc'[c] = pc[c] \/ (pc[c] = "provisioning" /\ pc'[c] = "done")
    BY <2>1, <2>2 DEF TypeOK
  <2>5. \A i \in Instances : stream[i] = "up" => i \in resolvers
    BY DEF CauseInv, ServingResolves
  <2> QED BY <2>1, <2>3, <2>4, <2>5, NoAnswerStep DEF Asked
<1>2. CASE UNCHANGED vars
  <2>1. UNCHANGED <<stream, commands, resolvers, pending, replies, pc, spec, answers>>
    BY <1>2 DEF vars, instanceVars, managerVars, callVars
  <2>2. \A c \in Calls, i \in Instances, k \in Nat : Asks(c, i, k)' =>
          \E d \in {0, 1} : \A l \in Nat : Asks(c, i, l)' => Asks(c, i, l + d)
    <3>1. \A c \in Calls, i \in Instances, l \in Nat : Asks(c, i, l)' => Asks(c, i, l + 0)
      BY <2>1 DEF Asks
    <3> QED BY <3>1
  <2>3. \A i \in Instances : stream[i] = "up" => i \in resolvers
    BY DEF CauseInv, ServingResolves
  <2> QED BY <2>1, <2>2, <2>3, NoAnswerStep DEF Asked
<1> QED BY <1>1, <1>2, CauseQuiet, CauseAnswer, CauseAsk, CauseReceive DEF Next, InstanceStep, ManagerStep

\* increaseCapacity fails only when no instance that answered can start the
\* spec, or the one drawn has gone since.
THEOREM FailuresHaveCause == Spec => []FailsForCause
<1>1. Spec => [](TypeOK /\ CapacityInv)
  BY CapacityInvariant
<1>2. CauseInv => FailsForCause
  BY DEF CauseInv
<1>3. QED
  BY <1>1, <1>2, CauseInit, CauseNext, PTL DEF Spec

-----------------------------------------------------------------------------
(* A call that has to wait waits for a command or a reply that is under way, *)
(* or for an instance that has gone: the safety half of                      *)
(* CallEndsUnlessOrphaned.                                                   *)

Queued(kind, c, i) ==
  \E k \in 1 .. Len(commands[i]) : commands[i][k].kind = kind /\ commands[i][k].call = c
OnItsWay(kind, c, i) ==
  \/ Queued(kind, c, i)
  \/ \E r \in replies : r.kind = kind /\ r.call = c /\ r.from = i

\* Resolvers and queued commands belong to streams that are up.
ServedWhileUp ==
  \A i \in Instances : i \in resolvers \/ commands[i] # <<>> => stream[i] = "up"

\* Whatever is under way has its entry in the pending map.
Registered ==
  \A kind \in {"query", "provision"}, c \in Calls, i \in Instances :
    OnItsWay(kind, c, i) => <<kind, c, i>> \in pending

\* What the pending maps still wait for is under way or has gone.
NotLost ==
  \A c \in Calls, i \in Instances :
    /\ <<"query", c, i>> \in pending =>
         i \in From(answers[c]) \/ stream[i] = "gone" \/ OnItsWay("query", c, i)
    /\ <<"provision", c, i>> \in pending =>
         pc[c] = "done" \/ stream[i] = "gone" \/ OnItsWay("provision", c, i)

\* A call that waits has an entry to wait for.
Expecting ==
  \A c \in Calls :
    /\ From(answers[c]) \subseteq Asked(c)
    /\ pc[c] \in {"querying", "logging"} => From(answers[c]) # Asked(c)
    /\ pc[c] = "provisioning" => \E i \in Instances : <<"provision", c, i>> \in pending

StrandInv == ServedWhileUp /\ Registered /\ NotLost /\ Expecting

\* What a call waits for is under way, what is queued will be served, and what
\* arrives is expected.
NoneStrands ==
  /\ \A c \in Calls :
       /\ pc[c] \in {"querying", "logging"} =>
            WaitsForGone(c) \/ \E i \in Instances : OnItsWay("query", c, i)
       /\ pc[c] = "provisioning" =>
            WaitsForGone(c) \/ \E i \in Instances : OnItsWay("provision", c, i)
  /\ \A i \in Instances : commands[i] # <<>> =>
       /\ stream[i] = "up"
       /\ Head(commands[i]).kind = "provision" => spec[Head(commands[i]).call] \in defined[i]
  /\ \A r \in replies :
       /\ <<r.kind, r.call, r.from>> \in pending
       /\ r.kind = "query" => pc[r.call] \in {"querying", "logging"}

LEMMA StrandInit == Init => StrandInv
BY DEF Init, StrandInv, ServedWhileUp, Registered, NotLost, Expecting, OnItsWay, Queued, Asked, From

\* Taking the head of a queue takes that command and no other.
LEMMA QueuedTail ==
  ASSUME TypeOK, NEW i \in Instances, commands[i] # <<>>,
         commands' = [commands EXCEPT ![i] = Tail(commands[i])]
  PROVE  \A kind, c : \A j \in Instances :
           /\ Queued(kind, c, j)' => Queued(kind, c, j)
           /\ Queued(kind, c, j) =>
                \/ Queued(kind, c, j)'
                \/ j = i /\ Head(commands[i]).kind = kind /\ Head(commands[i]).call = c
           /\ Head(commands[i]).kind = kind /\ Head(commands[i]).call = c => Queued(kind, c, i)
<1>1. commands[i] \in Seq(Command) /\ commands'[i] = Tail(commands[i])
  BY DEF TypeOK
<1>2. /\ Len(commands[i]) \in Nat \ {0} /\ Len(Tail(commands[i])) = Len(commands[i]) - 1
      /\ Head(commands[i]) = commands[i][1]
  BY <1>1
<1>3. \A k \in 1 .. Len(Tail(commands[i])) : Tail(commands[i])[k] = commands[i][k + 1]
  BY <1>1
<1>4. \A j \in Instances : j # i => commands'[j] = commands[j]
  BY DEF TypeOK
<1>5. ASSUME NEW kind, NEW c, Queued(kind, c, i)' PROVE Queued(kind, c, i)
  <2>1. PICK k \in 1 .. Len(Tail(commands[i])) :
          Tail(commands[i])[k].kind = kind /\ Tail(commands[i])[k].call = c
    BY <1>1, <1>5 DEF Queued
  <2>2. k + 1 \in 1 .. Len(commands[i])
    BY <1>2
  <2> QED BY <1>3, <2>1, <2>2 DEF Queued
<1>6. ASSUME NEW kind, NEW c, Queued(kind, c, i)
      PROVE  Queued(kind, c, i)' \/ (Head(commands[i]).kind = kind /\ Head(commands[i]).call = c)
  <2>1. PICK k \in 1 .. Len(commands[i]) : commands[i][k].kind = kind /\ commands[i][k].call = c
    BY <1>6 DEF Queued
  <2>2. CASE k = 1
    BY <1>2, <2>1, <2>2
  <2>3. CASE k # 1
    <3>1. k - 1 \in 1 .. Len(Tail(commands[i])) /\ (k - 1) + 1 = k
      BY <1>2, <2>3
    <3>2. Tail(commands[i])[k - 1] = commands[i][(k - 1) + 1]
      BY <1>3, <3>1
    <3>3. Tail(commands[i])[k - 1].kind = kind /\ Tail(commands[i])[k - 1].call = c
      BY <2>1, <3>1, <3>2
    <3> DEFINE l == k - 1
    <3>4. /\ l \in 1 .. Len(commands'[i])
          /\ commands'[i][l].kind = kind /\ commands'[i][l].call = c
      BY <1>1, <3>1, <3>3
    <3> HIDE DEF l
    <3> QED BY <3>4 DEF Queued
  <2> QED BY <2>2, <2>3
<1>7. \A kind, c : Head(commands[i]).kind = kind /\ Head(commands[i]).call = c => Queued(kind, c, i)
  <2>1. 1 \in 1 .. Len(commands[i])
    BY <1>2
  <2> QED BY <1>2, <2>1 DEF Queued
<1>8. \A kind, c : \A j \in Instances : j # i => (Queued(kind, c, j)' <=> Queued(kind, c, j))
  BY <1>4 DEF Queued
<1> HIDE DEF Queued
<1> QED BY <1>5, <1>6, <1>7, <1>8

\* Sending a command takes none away and adds this one.
LEMMA QueuedAdded ==
  ASSUME TypeOK, NEW is, NEW m \in Command,
         \A i \in Instances :
           commands'[i] = IF i \in is THEN Append(commands[i], m) ELSE commands[i]
  PROVE  \A kind, c : \A j \in Instances :
           Queued(kind, c, j)' <=> \/ Queued(kind, c, j)
                                   \/ m.kind = kind /\ m.call = c /\ j \in is
<1> SUFFICES ASSUME NEW kind, NEW c, NEW j \in Instances
             PROVE  Queued(kind, c, j)' <=> \/ Queued(kind, c, j)
                                            \/ m.kind = kind /\ m.call = c /\ j \in is
  OBVIOUS
<1>1. commands[j] \in Seq(Command) /\ Len(commands[j]) \in Nat
  BY DEF TypeOK
<1>2. CASE j \notin is
  BY <1>2 DEF Queued
<1>3. CASE j \in is
  <2> DEFINE new == Append(commands[j], m)
  <2>0. commands'[j] = new
    BY <1>3
  <2>1a. /\ Len(new) = Len(commands[j]) + 1
         /\ new[Len(commands[j]) + 1] = m
         /\ \A k \in 1 .. Len(commands[j]) : new[k] = commands[j][k]
    BY <1>1
  <2> HIDE DEF new
  <2>1. /\ Len(commands'[j]) = Len(commands[j]) + 1
        /\ commands'[j][Len(commands[j]) + 1] = m
        /\ \A k \in 1 .. Len(commands[j]) : commands'[j][k] = commands[j][k]
    BY <2>0, <2>1a
  <2>2. /\ \A k \in 1 .. Len(commands[j]) : k \in 1 .. Len(commands'[j])
        /\ Len(commands[j]) + 1 \in 1 .. Len(commands'[j])
        /\ \A k \in 1 .. Len(commands'[j]) : k \in 1 .. Len(commands[j]) \/ k = Len(commands[j]) + 1
    BY <1>1, <2>1
  <2> HIDE DEF Queued
  <2>3. Queued(kind, c, j)' => Queued(kind, c, j) \/ (m.kind = kind /\ m.call = c)
    BY <2>1, <2>2 DEF Queued
  <2>4. Queued(kind, c, j) => Queued(kind, c, j)'
    BY <2>1, <2>2 DEF Queued
  <2>5. m.kind = kind /\ m.call = c => Queued(kind, c, j)'
    BY <2>1, <2>2 DEF Queued
  <2> QED BY <1>3, <2>3, <2>4, <2>5
<1> QED BY <1>2, <1>3

\* Steps that change no call and lose nothing but what belongs to an instance
\* that has gone.
LEMMA StrandQuiet ==
  ASSUME StrandInv, pending' = pending, answers' = answers, pc' = pc,
         ServedWhileUp',
         \A i \in Instances : stream[i] = "gone" => stream'[i] = "gone",
         \A kind \in {"query", "provision"}, c \in Calls, i \in Instances :
           /\ OnItsWay(kind, c, i)' => OnItsWay(kind, c, i)
           /\ OnItsWay(kind, c, i) => OnItsWay(kind, c, i)' \/ stream'[i] = "gone"
  PROVE  StrandInv'
<1> USE DEF StrandInv
<1>1. Registered'
  BY DEF Registered
<1>2. \A c \in Calls : From(answers[c])' = From(answers[c]) /\ Asked(c)' = Asked(c)
  BY DEF From, Asked
<1>3. NotLost'
  BY <1>2 DEF NotLost
<1>4. Expecting'
  BY <1>2 DEF Expecting
<1> QED BY <1>1, <1>3, <1>4

\* An instance serves its next command: a query or a provision goes on as its
\* reply, a warning was waited for by nobody.
LEMMA StrandServe ==
  ASSUME TypeOK, StrandInv, NEW i \in Instances, InstanceStep(i)
  PROVE  StrandInv'
<1> DEFINE m == Head(commands[i])
<1>1. /\ stream[i] = "up" /\ commands[i] # <<>>
      /\ commands' = [commands EXCEPT ![i] = Tail(commands[i])]
      /\ UNCHANGED <<stream, resolvers, pending, pc, answers>>
      /\ \/ m.kind = "warning" /\ replies' = replies
         \/ /\ m.kind \in {"query", "provision"}
            /\ \E specs : replies' = replies \union {[kind |-> m.kind, call |-> m.call, from |-> i, specs |-> specs]}
  BY DEF InstanceStep, AnswerQuery, Provision, ReadWarning, managerVars, callVars
<1>2. \A kind, c : \A j \in Instances :
        /\ Queued(kind, c, j)' => Queued(kind, c, j)
        /\ Queued(kind, c, j) => Queued(kind, c, j)' \/ (j = i /\ m.kind = kind /\ m.call = c)
        /\ m.kind = kind /\ m.call = c => Queued(kind, c, i)
  BY <1>1, QueuedTail
<1> HIDE DEF m
<1>3. ServedWhileUp'
  BY <1>1 DEF StrandInv, ServedWhileUp, TypeOK
<1>4. ASSUME NEW kind \in {"query", "provision"}, NEW c \in Calls, NEW j \in Instances
      PROVE  OnItsWay(kind, c, j)' <=> OnItsWay(kind, c, j)
  <2>1. CASE m.kind = "warning" /\ replies' = replies
    BY <1>2, <2>1 DEF OnItsWay
  <2>2. CASE m.kind \in {"query", "provision"} /\ replies' # replies
    <3>1. PICK new : /\ replies' = replies \union {new}
                     /\ new.kind = m.kind /\ new.call = m.call /\ new.from = i
      <4>1. PICK specs : replies' = replies \union {[kind |-> m.kind, call |-> m.call, from |-> i, specs |-> specs]}
        BY <1>1, <2>2
      <4> DEFINE new == [kind |-> m.kind, call |-> m.call, from |-> i, specs |-> specs]
      <4>2. new.kind = m.kind /\ new.call = m.call /\ new.from = i
        OBVIOUS
      <4> QED BY <4>1, <4>2
    <3> QED BY <1>2, <3>1 DEF OnItsWay
  <2>3. CASE m.kind \in {"query", "provision"} /\ replies' = replies
    <3>1. \E r \in replies : r.kind = m.kind /\ r.call = m.call /\ r.from = i
      <4>1. PICK specs : replies' = replies \union {[kind |-> m.kind, call |-> m.call, from |-> i, specs |-> specs]}
        BY <1>1, <2>3
      <4> DEFINE new == [kind |-> m.kind, call |-> m.call, from |-> i, specs |-> specs]
      <4>2. new \in replies /\ new.kind = m.kind /\ new.call = m.call /\ new.from = i
        BY <2>3, <4>1
      <4> QED BY <4>2
    <3> QED BY <1>2, <2>3, <3>1 DEF OnItsWay
  <2> QED BY <1>1, <2>1, <2>2, <2>3
<1> QED BY <1>1, <1>3, <1>4, StrandQuiet

\* Definitions, reports and disconnects: only a disconnect loses something.
LEMMA StrandStream ==
  ASSUME TypeOK, StrandInv, NEW i \in Instances,
         (\E s \in Specs : Define(i, s)) \/ ReportAsInstance(i) \/ Disconnect(i)
  PROVE  StrandInv'
<1>1. UNCHANGED <<pending, replies, pc, answers>>
  BY DEF Define, ReportAsInstance, Disconnect, managerVars, callVars
<1>2. CASE (\E s \in Specs : Define(i, s)) \/ ReportAsInstance(i)
  <2>1. /\ commands' = commands
        /\ \A j \in Instances : \/ stream'[j] = stream[j]
                                \/ stream[j] \in {"none", "opening"} /\ j \notin resolvers'
                                \/ stream'[j] = "up"
        /\ \A j \in resolvers' : j \in resolvers \/ stream'[j] = "up"
        /\ \A j \in Instances : stream[j] = "gone" => stream'[j] = "gone"
    BY <1>2 DEF Define, ReportAsInstance, managerVars, callVars, TypeOK, StrandInv, ServedWhileUp
  <2>2. ServedWhileUp'
    BY <2>1 DEF StrandInv, ServedWhileUp
  <2>3. \A kind, c, j : OnItsWay(kind, c, j)' <=> OnItsWay(kind, c, j)
    BY <1>1, <2>1 DEF OnItsWay, Queued
  <2> QED BY <1>1, <2>1, <2>2, <2>3, StrandQuiet
<1>3. CASE Disconnect(i)
  <2>1. /\ \A j \in Instances : stream'[j] = IF j = i THEN "gone" ELSE stream[j]
        /\ \A j \in Instances : commands'[j] = IF j = i THEN <<>> ELSE commands[j]
        /\ resolvers' = resolvers \ {i}
    BY <1>3 DEF Disconnect, TypeOK
  <2>2. ServedWhileUp'
    BY <2>1 DEF StrandInv, ServedWhileUp
  <2>3. \A kind, c : \A j \in Instances :
          /\ Queued(kind, c, j)' => Queued(kind, c, j)
          /\ Queued(kind, c, j) => Queued(kind, c, j)' \/ j = i
    <3>1. \A kind, c : ~Queued(kind, c, i)'
      BY <2>1 DEF Queued
    <3>2. \A kind, c : \A j \in Instances : j # i => (Queued(kind, c, j)' <=> Queued(kind, c, j))
      BY <2>1 DEF Queued
    <3> HIDE DEF Queued
    <3> QED BY <3>1, <3>2
  <2>4. \A kind, c : \A j \in Instances :
          /\ OnItsWay(kind, c, j)' => OnItsWay(kind, c, j)
          /\ OnItsWay(kind, c, j) => OnItsWay(kind, c, j)' \/ j = i
    BY <1>1, <2>3 DEF OnItsWay
  <2> QED BY <1>1, <2>1, <2>2, <2>4, StrandQuiet
<1> QED BY <1>2, <1>3

\* A call that begins asks every listed instance, and all of them are up.
LEMMA StrandAsk ==
  ASSUME TypeOK, StrandInv, CauseInv, NEW c \in Calls, IncreaseCapacity(c) \/ LogCapacity(c)
  PROVE  StrandInv'
<1> DEFINE m == [kind |-> "query", call |-> c]
<1> USE DEF StrandInv
<1>1. /\ pc[c] = "idle" /\ QueryListed(c) /\ UNCHANGED <<stream, resolvers, replies, answers>>
      /\ \A d \in Calls : d # c => pc'[d] = pc[d]
      /\ pc'[c] \in {"querying", "logging", "failed", "logged"}
      /\ pc'[c] \in {"querying", "logging"} => Listed # {}
  BY DEF IncreaseCapacity, LogCapacity, TypeOK
<1>2. Listed \subseteq Instances /\ m \in Command /\ m.kind = "query" /\ m.call = c
  BY ListsType DEF Command
<1> HIDE DEF m
<1>3. /\ Listed \subseteq resolvers
      /\ pending' = pending \union {<<"query", c, i>> : i \in Listed}
      /\ \A j \in Instances : commands'[j] = IF j \in Listed THEN Append(commands[j], m) ELSE commands[j]
  BY <1>1 DEF QueryListed, SendAll, m
<1>4. \A kind, d : \A j \in Instances :
        Queued(kind, d, j)' <=> Queued(kind, d, j) \/ (kind = "query" /\ d = c /\ j \in Listed)
  BY <1>2, <1>3, QueuedAdded
<1>5. \A kind, d : \A j \in Instances :
        OnItsWay(kind, d, j)' <=> OnItsWay(kind, d, j) \/ (kind = "query" /\ d = c /\ j \in Listed)
  BY <1>1, <1>4 DEF OnItsWay
<1>6. \A kind, d, j : <<kind, d, j>> \in pending' <=>
        <<kind, d, j>> \in pending \/ (kind = "query" /\ d = c /\ j \in Listed)
  BY <1>3
<1>7. ServedWhileUp'
  BY <1>1, <1>3 DEF ServedWhileUp
<1>8. Registered'
  BY <1>5, <1>6 DEF Registered
<1>9. /\ \A d \in Calls : From(answers[d])' = From(answers[d])
      /\ \A d \in Calls : Asked(d)' = IF d = c THEN Listed ELSE Asked(d)
      /\ From(answers[c]) = {}
  <2>1. answers[c] = {} /\ Asked(c) = {}
    BY <1>1 DEF CauseInv, AllAnswered
  <2> QED BY <1>1, <1>2, <1>6, <2>1 DEF From, Asked
<1>10. NotLost'
  BY <1>1, <1>5, <1>6, <1>9 DEF NotLost
<1>11. Expecting'
  BY <1>1, <1>6, <1>9 DEF Expecting
<1> QED BY <1>7, <1>8, <1>10, <1>11

\* What the last answer does with the queues and the pending map: it tells one
\* instance that is up, or warns some that are, and fails.
LEMMA Decided ==
  ASSUME TypeOK, StrandInv, NEW c \in Calls, NEW as, as \subseteq Answer,
         Draw(c, as) \/ WarnAndFail(c, as)
  PROVE  \E told \in SUBSET Instances :
           /\ told \subseteq resolvers
           /\ \A i \in Instances : commands[i] = <<>> /\ i \notin resolvers => commands'[i] = <<>>
           /\ pending' = pending \union {<<"provision", c, i>> : i \in told}
           /\ \A kind \in {"query", "provision"}, d \in Calls, j \in Instances :
                Queued(kind, d, j)' <=> Queued(kind, d, j) \/ (kind = "provision" /\ d = c /\ j \in told)
           /\ pc' = [pc EXCEPT ![c] = IF told = {} THEN "failed" ELSE "provisioning"]
<1>1. CASE WarnAndFail(c, as)
  <2> DEFINE m == [kind |-> "warning", call |-> c]
  <2>1. m \in Command /\ m.kind = "warning"
    BY DEF Command
  <2>2. PICK warned \in SUBSET (lists[held[c]] \intersect resolvers) : SendAll(warned, m)
    BY <1>1 DEF WarnAndFail
  <2> HIDE DEF m
  <2>3. \A j \in Instances : commands'[j] = IF j \in warned THEN Append(commands[j], m) ELSE commands[j]
    BY <2>2 DEF SendAll
  <2>4. \A kind \in {"query", "provision"}, d \in Calls, j \in Instances :
          Queued(kind, d, j)' <=> Queued(kind, d, j)
    BY <2>1, <2>3, QueuedAdded
  <2>5. pending' = pending \union {<<"provision", c, i>> : i \in {}} /\ pc' = [pc EXCEPT ![c] = "failed"]
    BY <1>1 DEF WarnAndFail
  <2>6. \A i \in Instances : commands[i] = <<>> /\ i \notin resolvers => commands'[i] = <<>>
    BY <2>2, <2>3
  <2> QED BY <2>4, <2>5, <2>6
<1>2. CASE Draw(c, as)
  <2> DEFINE m == [kind |-> "provision", call |-> c]
  <2>1. m \in Command /\ m.kind = "provision" /\ m.call = c
    BY DEF Command
  <2>2. PICK i \in Qualified(c, as) :
          \/ /\ i \in resolvers
             /\ commands' = [commands EXCEPT ![i] = Append(commands[i], m)]
             /\ pending' = pending \union {<<"provision", c, i>>}
             /\ pc' = [pc EXCEPT ![c] = "provisioning"]
          \/ /\ i \notin resolvers /\ pc' = [pc EXCEPT ![c] = "failed"]
             /\ UNCHANGED <<commands, pending>>
    BY <1>2 DEF Draw
  <2>3. i \in Instances
    BY DEF Qualified, Answer
  <2> HIDE DEF m
  <2>4. CASE i \in resolvers /\ commands' = [commands EXCEPT ![i] = Append(commands[i], m)]
             /\ pending' = pending \union {<<"provision", c, i>>} /\ pc' = [pc EXCEPT ![c] = "provisioning"]
    <3>1. \A j \in Instances : commands'[j] = IF j \in {i} THEN Append(commands[j], m) ELSE commands[j]
      BY <2>4 DEF TypeOK
    <3>2. \A kind \in {"query", "provision"}, d \in Calls, j \in Instances :
            Queued(kind, d, j)' <=> Queued(kind, d, j) \/ (kind = "provision" /\ d = c /\ j \in {i})
      <4>1. \A kind, d : \A j \in Instances :
              Queued(kind, d, j)' <=> Queued(kind, d, j) \/ (m.kind = kind /\ m.call = d /\ j \in {i})
        BY <2>1, <3>1, QueuedAdded
      <4> QED BY <2>1, <4>1
    <3>3. pending' = pending \union {<<"provision", c, j>> : j \in {i}}
      BY <2>4
    <3>4. \A j \in Instances : commands[j] = <<>> /\ j \notin resolvers => commands'[j] = <<>>
      BY <2>4, <3>1
    <3> QED BY <2>3, <2>4, <3>2, <3>3, <3>4
  <2>5. CASE pc' = [pc EXCEPT ![c] = "failed"] /\ UNCHANGED <<commands, pending>>
    <3>1. pending' = pending \union {<<"provision", c, j>> : j \in {}}
      BY <2>5
    <3>2. \A kind \in {"query", "provision"}, d \in Calls, j \in Instances :
            Queued(kind, d, j)' <=> Queued(kind, d, j)
      BY <2>5 DEF Queued
    <3> QED BY <2>5, <3>1, <3>2
  <2> QED BY <2>2, <2>4, <2>5
<1> QED BY <1>1, <1>2

\* An answer is taken, and with the last one the call goes on or ends.
LEMMA StrandReceive ==
  ASSUME TypeOK, StrandInv, CauseInv, NEW r \in replies, ReceiveCapacity(r)
  PROVE  StrandInv'
<1> DEFINE c == r.call
           as == answers[c] \union {[from |-> r.from, specs |-> r.specs]}
<1> USE DEF StrandInv
<1>1. c \in Calls /\ r.from \in Instances /\ r.kind = "query" /\ r.from \in Asked(c)
  BY DEF ReceiveCapacity, TypeOK, Reply, Asked
<1>2. as \subseteq Answer /\ From(as) = From(answers[c]) \union {r.from}
  <2>1. [from |-> r.from, specs |-> r.specs] \in Answer /\ [from |-> r.from, specs |-> r.specs].from = r.from
    BY DEF TypeOK, Reply, Answer
  <2>2. \A x : x \in From(as) <=> x \in From(answers[c]) \/ x = r.from
    BY <2>1 DEF From
  <2> QED BY <1>1, <2>1, <2>2 DEF TypeOK
<1>3. /\ replies' = replies \ {r} /\ UNCHANGED <<stream, resolvers>>
      /\ \A d \in Calls : answers'[d] = IF d = c THEN as ELSE answers[d]
  BY <1>1 DEF ReceiveCapacity, TypeOK
<1>4. \E told \in SUBSET Instances :
        /\ told \subseteq resolvers
        /\ \A i \in Instances : commands[i] = <<>> /\ i \notin resolvers => commands'[i] = <<>>
        /\ pending' = pending \union {<<"provision", c, i>> : i \in told}
        /\ \A kind \in {"query", "provision"}, d \in Calls, j \in Instances :
             Queued(kind, d, j)' <=> Queued(kind, d, j) \/ (kind = "provision" /\ d = c /\ j \in told)
        /\ \A d \in Calls : d # c => pc'[d] = pc[d]
        /\ pc[c] = "done" => pc'[c] = "done"
        /\ pc'[c] \in {"querying", "logging"} => From(as) # Asked(c)
        /\ pc'[c] = "provisioning" => pc[c] = "provisioning" \/ told # {}
  <2>1. CASE From(as) # Asked(c) /\ UNCHANGED <<commands, pending, pc>>
    <3>1. pending' = pending \union {<<"provision", c, i>> : i \in {}}
      BY <2>1
    <3>2. \A kind, d, j : Queued(kind, d, j)' <=> Queued(kind, d, j)
      BY <2>1 DEF Queued
    <3>3. pc[c] \in {"querying", "logging"} => From(as) # Asked(c)
      BY <2>1
    <3> HIDE DEF c, as
    <3> WITNESS {} \in SUBSET Instances
    <3> QED BY <2>1, <3>1, <3>2, <3>3
  <2>2. CASE pc[c] = "logging" /\ pc' = [pc EXCEPT ![c] = "logged"] /\ UNCHANGED <<commands, pending>>
    <3>1. pending' = pending \union {<<"provision", c, i>> : i \in {}}
      BY <2>2
    <3>2. pc'[c] = "logged" /\ \A d \in Calls : d # c => pc'[d] = pc[d]
      BY <1>1, <2>2 DEF TypeOK
    <3>3. \A kind, d, j : Queued(kind, d, j)' <=> Queued(kind, d, j)
      BY <2>2 DEF Queued
    <3> HIDE DEF c, as
    <3> WITNESS {} \in SUBSET Instances
    <3> QED BY <2>2, <3>1, <3>2, <3>3
  <2>3. CASE pc[c] = "querying" /\ (Draw(c, as) \/ WarnAndFail(c, as))
    <3> HIDE DEF c, as
    <3>1. PICK told \in SUBSET Instances :
            /\ told \subseteq resolvers
            /\ \A i \in Instances : commands[i] = <<>> /\ i \notin resolvers => commands'[i] = <<>>
            /\ pending' = pending \union {<<"provision", c, i>> : i \in told}
            /\ \A kind \in {"query", "provision"}, d \in Calls, j \in Instances :
                 Queued(kind, d, j)' <=> Queued(kind, d, j) \/ (kind = "provision" /\ d = c /\ j \in told)
            /\ pc' = [pc EXCEPT ![c] = IF told = {} THEN "failed" ELSE "provisioning"]
      BY <1>1, <1>2, <2>3, Decided
    <3>2. /\ pc'[c] = IF told = {} THEN "failed" ELSE "provisioning"
          /\ \A d \in Calls : d # c => pc'[d] = pc[d]
      BY <1>1, <3>1 DEF TypeOK
    <3>3. /\ pc[c] = "done" => pc'[c] = "done"
          /\ pc'[c] \in {"querying", "logging"} => From(as) # Asked(c)
          /\ pc'[c] = "provisioning" => pc[c] = "provisioning" \/ told # {}
      BY <2>3, <3>2
    <3> WITNESS told \in SUBSET Instances
    <3> QED BY <3>1, <3>2, <3>3
  <2> QED BY <2>1, <2>2, <2>3 DEF ReceiveCapacity
<1> HIDE DEF c, as
<1>5. PICK told \in SUBSET Instances :
        /\ told \subseteq resolvers
        /\ \A i \in Instances : commands[i] = <<>> /\ i \notin resolvers => commands'[i] = <<>>
        /\ pending' = pending \union {<<"provision", c, i>> : i \in told}
        /\ \A kind \in {"query", "provision"}, d \in Calls, j \in Instances :
             Queued(kind, d, j)' <=> Queued(kind, d, j) \/ (kind = "provision" /\ d = c /\ j \in told)
        /\ \A d \in Calls : d # c => pc'[d] = pc[d]
        /\ pc[c] = "done" => pc'[c] = "done"
        /\ pc'[c] \in {"querying", "logging"} => From(as) # Asked(c)
        /\ pc'[c] = "provisioning" => pc[c] = "provisioning" \/ told # {}
  BY <1>4
<1>6. \A kind \in {"query", "provision"}, d \in Calls, j \in Instances :
        /\ OnItsWay(kind, d, j)' => OnItsWay(kind, d, j) \/ (kind = "provision" /\ d = c /\ j \in told)
        /\ OnItsWay(kind, d, j) => OnItsWay(kind, d, j)' \/ (kind = "query" /\ d = c /\ j = r.from)
        /\ kind = "provision" /\ d = c /\ j \in told => OnItsWay(kind, d, j)'
  <2>1. \A q \in replies : q \in replies' \/ (q.kind = "query" /\ q.call = c /\ q.from = r.from)
    BY <1>1, <1>3 DEF c
  <2>2. replies' \subseteq replies
    BY <1>3
  <2> QED BY <1>5, <2>1, <2>2 DEF OnItsWay
<1>7. \A kind, d, j : <<kind, d, j>> \in pending' <=>
        <<kind, d, j>> \in pending \/ (kind = "provision" /\ d = c /\ j \in told)
  BY <1>5
<1>8. /\ \A d \in Calls : From(answers[d])' = IF d = c THEN From(answers[c]) \union {r.from} ELSE From(answers[d])
      /\ \A d \in Calls : Asked(d)' = Asked(d)
  BY <1>1, <1>2, <1>3, <1>7 DEF From, Asked
<1>9. ServedWhileUp'
  BY <1>3, <1>5 DEF ServedWhileUp
<1>10. Registered'
  BY <1>6, <1>7 DEF Registered
<1>11. NotLost'
  BY <1>3, <1>5, <1>6, <1>7, <1>8 DEF NotLost
<1>12. Expecting'
  BY <1>1, <1>2, <1>5, <1>7, <1>8 DEF Expecting
<1> QED BY <1>9, <1>10, <1>11, <1>12

\* The provision is confirmed, and the call is over.
LEMMA StrandConfirm ==
  ASSUME TypeOK, StrandInv, NEW r \in replies, ReceiveProvision(r)
  PROVE  StrandInv'
<1> USE DEF StrandInv
<1>1. /\ UNCHANGED <<stream, commands, resolvers, pending, answers>>
      /\ replies' = replies \ {r} /\ r.kind = "provision" /\ r.call \in Calls
      /\ \A d \in Calls : pc'[d] = IF d = r.call THEN "done" ELSE pc[d]
  BY DEF ReceiveProvision, instanceVars, TypeOK, Reply
<1>2. \A kind, d, j :
        /\ OnItsWay(kind, d, j)' => OnItsWay(kind, d, j)
        /\ OnItsWay(kind, d, j) => OnItsWay(kind, d, j)' \/ (kind = "provision" /\ d = r.call)
  BY <1>1 DEF OnItsWay, Queued
<1>3. \A d \in Calls : From(answers[d])' = From(answers[d]) /\ Asked(d)' = Asked(d)
  BY <1>1 DEF From, Asked
<1>4. ServedWhileUp'
  BY <1>1 DEF ServedWhileUp
<1>5. Registered'
  BY <1>1, <1>2 DEF Registered
<1>6. NotLost'
  BY <1>1, <1>2, <1>3 DEF NotLost
<1>7. Expecting'
  BY <1>1, <1>3 DEF Expecting
<1> QED BY <1>4, <1>5, <1>6, <1>7

LEMMA StrandNext == TypeOK /\ CauseInv /\ StrandInv /\ [Next]_vars => StrandInv'
<1> SUFFICES ASSUME TypeOK, CauseInv, StrandInv, [Next]_vars PROVE StrandInv'
  OBVIOUS
<1>1. CASE UNCHANGED vars
  <2>1. UNCHANGED <<stream, commands, resolvers, pending, replies, pc, answers>>
    BY <1>1 DEF vars, instanceVars, managerVars, callVars
  <2>2. \A kind, c, i : OnItsWay(kind, c, i)' <=> OnItsWay(kind, c, i)
    BY <2>1 DEF OnItsWay, Queued
  <2>3. ServedWhileUp'
    BY <2>1 DEF StrandInv, ServedWhileUp
  <2> QED BY <2>1, <2>2, <2>3, StrandQuiet
<1> QED BY <1>1, StrandServe, StrandStream, StrandAsk, StrandReceive, StrandConfirm DEF Next, ManagerStep

\* A call that has not ended waits for a command or a reply that is under way,
\* unless what it waits for was with an instance that has gone; the head of
\* every queue can be served and every reply finds its pending entry.  So the
\* orphaned calls of manager.ts:113-130 are the only ones that can be stuck.
THEOREM OnlyOrphansAreStuck == Spec => []NoneStrands
<1>1. TypeOK /\ CapacityInv /\ CauseInv /\ StrandInv => NoneStrands
  <2> SUFFICES ASSUME TypeOK, CapacityInv, CauseInv, StrandInv PROVE NoneStrands
    OBVIOUS
  <2> USE DEF StrandInv
  <2>1. ASSUME NEW c \in Calls, pc[c] \in {"querying", "logging"}
        PROVE  WaitsForGone(c) \/ \E i \in Instances : OnItsWay("query", c, i)
    <3>1. PICK i \in Asked(c) : i \notin From(answers[c])
      BY <2>1 DEF Expecting
    <3>2. i \in Instances /\ <<"query", c, i>> \in pending
      BY DEF Asked
    <3>3. stream[i] = "gone" \/ OnItsWay("query", c, i)
      BY <3>1, <3>2 DEF NotLost
    <3> QED BY <2>1, <3>1, <3>2, <3>3 DEF WaitsForGone
  <2>2. ASSUME NEW c \in Calls, pc[c] = "provisioning"
        PROVE  WaitsForGone(c) \/ \E i \in Instances : OnItsWay("provision", c, i)
    BY <2>2 DEF Expecting, NotLost, WaitsForGone
  <2>3. ASSUME NEW i \in Instances, commands[i] # <<>>
        PROVE  /\ stream[i] = "up"
               /\ Head(commands[i]).kind = "provision" => spec[Head(commands[i]).call] \in defined[i]
    <3>1. commands[i] \in Seq(Command) /\ Len(commands[i]) \in Nat \ {0} /\ Head(commands[i]) = commands[i][1]
      BY <2>3 DEF TypeOK
    <3>2. Head(commands[i]).call \in Calls
      BY <2>3, CommandTypes
    <3>3. Head(commands[i]).kind = "provision" => Told(Head(commands[i]).call, i, 1)
      BY <3>1 DEF Told
    <3> QED BY <2>3, <3>2, <3>3 DEF ServedWhileUp, CapacityInv, ToldDefined
  <2>4. ASSUME NEW r \in replies
        PROVE  /\ <<r.kind, r.call, r.from>> \in pending
               /\ r.kind = "query" => pc[r.call] \in {"querying", "logging"}
    <3>1. r.kind \in {"query", "provision"} /\ r.call \in Calls /\ r.from \in Instances
      BY DEF TypeOK, Reply
    <3>2. <<r.kind, r.call, r.from>> \in pending
      BY <3>1 DEF Registered, OnItsWay
    <3>3. ASSUME r.kind = "query" PROVE pc[r.call] \in {"querying", "logging"}
      <4>1. r.from \in Asked(r.call) /\ r.from \notin From(answers[r.call]) /\ pc[r.call] # "idle"
        BY <3>1, <3>2, <3>3 DEF Asked, CauseInv, OneQuery
      <4> QED BY <3>1, <4>1 DEF CauseInv, AllAnswered
    <3> QED BY <3>2, <3>3
  <2> QED BY <2>1, <2>2, <2>3, <2>4 DEF NoneStrands
<1>2. QED
  BY <1>1, CapacityInvariant, CauseInit, CauseNext, StrandInit, StrandNext, PTL DEF Spec
=============================================================================
