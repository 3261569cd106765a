----------------------------- MODULE VaultProofs -----------------------------
(* What the storage of large values (LargeValues) and the vault's database   *)
(* (VaultDB) keep, whatever the paths, values, writers, calls and records,   *)
(* and what comes back of a message (WireFields).                            *)
EXTENDS VaultStores, VaultCall, SequenceTheorems, FiniteSetTheorems, WellFoundedInduction, TLAPS

-----------------------------------------------------------------------------
(* The storage of large values *)

StoreTypes ==
  /\ cloud \in BOOLEAN
  /\ object \in [Paths -> Contents \union {None}]
  /\ ref \in [Contents -> Paths \union {None}]
  /\ saving \in [Writers -> [st : {"idle", "head", "body", "ref", "pub"},
                             content : Contents \union {None}, streamed : BOOLEAN]]
  /\ \A w \in Writers : saving[w].st # "idle" => saving[w].content \in Contents
  /\ piping \subseteq [path : Paths, content : Contents]
  /\ published \subseteq [path : Paths, content : Contents, hash : Contents \union {None}]

HashOf(w) == IF saving[w].streamed THEN None ELSE saving[w].content

\* Something is, or will be, found for a datapoint with path p and hash h.
Reachable(p, h) ==
  \/ object[p] # None \/ Store!BeingPiped(p)
  \/ cloud /\ h \in Contents /\ ref[h] # None

StoreInv ==
  /\ StoreTypes
  /\ \A v \in Contents : ref[v] # None => object[ref[v]] # None
  /\ \A w \in Writers : saving[w].st \in {"head", "ref"} => cloud /\ ~saving[w].streamed
  /\ \A w \in Writers : saving[w].st = "ref" => object[PathOf[w]] # None
  /\ \A w \in Writers : saving[w].st = "pub" => Reachable(PathOf[w], HashOf(w))
  /\ \A d \in published : Reachable(d.path, d.hash)

\* Before anything is saved nothing is referred to.
LEMMA StoreInit == ASSUME Store!StoreAssumption, Store!Init PROVE StoreInv
BY DEF Store!StoreAssumption, Store!Init, StoreInv, StoreTypes

\* What is stored is replaced, never removed; so what can be found stays so.
StoredStays ==
  /\ cloud' = cloud
  /\ \A p \in Paths : object[p] # None => object'[p] # None
  /\ \A v \in Contents : ref[v] # None => ref'[v] # None
  /\ \A f \in piping : f \in piping' \/ object'[f.path] # None

LEMMA ReachableStays ==
  ASSUME StoreTypes, StoredStays
  PROVE  \A p \in Paths, h \in Contents \union {None} : Reachable(p, h) => Reachable(p, h)'
<1> SUFFICES ASSUME NEW p \in Paths, NEW h \in Contents \union {None}, Reachable(p, h)
             PROVE  Reachable(p, h)'
  OBVIOUS
<1>1. CASE object[p] # None
  BY <1>1 DEF StoredStays, Reachable
<1>2. CASE Store!BeingPiped(p)
  <2>1. PICK f \in piping : f.path = p
    BY <1>2 DEF Store!BeingPiped
  <2> QED BY <2>1 DEF StoredStays, Reachable, Store!BeingPiped
<1>3. CASE cloud /\ h \in Contents /\ ref[h] # None
  BY <1>3 DEF StoredStays, Reachable
<1> QED BY <1>1, <1>2, <1>3 DEF Reachable

\* No step removes what is stored.
LEMMA StepKeeps ==
  ASSUME Store!StoreAssumption, StoreInv, [Store!Next]_(Store!vars) PROVE StoredStays
<1> USE DEF Store!StoreAssumption, StoreInv, StoreTypes, StoredStays
<1>1. CASE UNCHANGED Store!vars
  BY <1>1 DEF Store!vars
<1>2. ASSUME NEW w \in Writers, NEW v \in Contents, NEW streamed \in BOOLEAN,
             Store!StartPut(w, v, streamed)
      PROVE  StoredStays
  BY <1>2 DEF Store!StartPut
<1>3. ASSUME NEW w \in Writers, Store!HeadRef(w) PROVE StoredStays
  BY <1>3 DEF Store!HeadRef
<1>4. ASSUME NEW w \in Writers, Store!PutBody(w) PROVE StoredStays
  BY <1>4 DEF Store!PutBody, Store!At
<1>5. ASSUME NEW w \in Writers, Store!PipeBody(w) PROVE StoredStays
  BY <1>5 DEF Store!PipeBody
<1>6. ASSUME NEW w \in Writers, Store!PutRef(w) PROVE StoredStays
  BY <1>6 DEF Store!PutRef, Store!At
<1>7. ASSUME NEW w \in Writers, Store!Publish(w) PROVE StoredStays
  BY <1>7 DEF Store!Publish
<1>8. ASSUME NEW f \in piping, Store!PipeEnds(f) PROVE StoredStays
  BY <1>8 DEF Store!PipeEnds
<1> QED BY <1>1, <1>2, <1>3, <1>4, <1>5, <1>6, <1>7, <1>8 DEF Store!Next

-----------------------------------------------------------------------------
\* What is at hand before a step.
Before == Store!StoreAssumption /\ StoreInv

LEMMA StoreTypesKept == ASSUME Before, [Store!Next]_(Store!vars) PROVE StoreTypes'
<1> USE DEF Before, Store!StoreAssumption, StoreInv, StoreTypes
<1>1. CASE UNCHANGED Store!vars
  BY <1>1 DEF Store!vars
<1>2. ASSUME NEW w \in Writers, NEW v \in Contents, NEW streamed \in BOOLEAN,
             Store!StartPut(w, v, streamed)
      PROVE  StoreTypes'
  BY <1>2 DEF Store!StartPut
<1>3. ASSUME NEW w \in Writers, Store!HeadRef(w) PROVE StoreTypes'
  BY <1>3 DEF Store!HeadRef, Store!At, Store!Goes
<1>4. ASSUME NEW w \in Writers, Store!PutBody(w) PROVE StoreTypes'
  BY <1>4 DEF Store!PutBody, Store!At, Store!Goes
<1>5. ASSUME NEW w \in Writers, Store!PipeBody(w) PROVE StoreTypes'
  BY <1>5 DEF Store!PipeBody, Store!At, Store!Goes
<1>6. ASSUME NEW w \in Writers, Store!PutRef(w) PROVE StoreTypes'
  BY <1>6 DEF Store!PutRef, Store!At, Store!Goes
<1>7. ASSUME NEW w \in Writers, Store!Publish(w) PROVE StoreTypes'
  BY <1>7 DEF Store!Publish, Store!At, Store!Goes
<1>8. ASSUME NEW f \in piping, Store!PipeEnds(f) PROVE StoreTypes'
  BY <1>8 DEF Store!PipeEnds
<1> QED BY <1>1, <1>2, <1>3, <1>4, <1>5, <1>6, <1>7, <1>8 DEF Store!Next

\* A reference is put once the value is stored, and leads there ever after.
LEMMA RefsLead ==
  ASSUME Before, [Store!Next]_(Store!vars), NEW v \in Contents, ref'[v] # None
  PROVE  object'[ref'[v]] # None
<1> USE DEF Before, Store!StoreAssumption, StoreInv, StoreTypes
<1>1. StoredStays
  BY StepKeeps
<1>2. CASE ref'[v] = ref[v]
  BY <1>1, <1>2 DEF StoredStays
<1>3. CASE ref'[v] # ref[v]
  <2>1. PICK w \in Writers : Store!PutRef(w) /\ saving[w].content = v
    BY <1>3 DEF Store!Next, Store!vars, Store!StartPut, Store!HeadRef, Store!PutBody,
         Store!PipeBody, Store!PutRef, Store!Publish, Store!PipeEnds
  <2> QED BY <2>1 DEF Store!PutRef, Store!At
<1> QED BY <1>2, <1>3

\* What a writer has come to know by a step.
LEMMA SavingKept ==
  ASSUME Before, [Store!Next]_(Store!vars), NEW u \in Writers
  PROVE  /\ saving'[u].st \in {"head", "ref"} => cloud' /\ ~saving'[u].streamed
         /\ saving'[u].st = "ref" => object'[PathOf[u]] # None
         /\ saving'[u].st = "pub" => Reachable(PathOf[u], HashOf(u))'
<1> DEFINE Claim == /\ saving'[u].st \in {"head", "ref"} => cloud' /\ ~saving'[u].streamed
                    /\ saving'[u].st = "ref" => object'[PathOf[u]] # None
                    /\ saving'[u].st = "pub" => Reachable(PathOf[u], HashOf(u))'
<1> USE DEF Before, Store!StoreAssumption, StoreInv, StoreTypes
<1>1. StoredStays
  BY StepKeeps
<1>2. CASE saving'[u] = saving[u]
  <2>1. HashOf(u)' = HashOf(u) /\ HashOf(u) \in Contents \union {None} /\ PathOf[u] \in Paths
    BY <1>2 DEF HashOf
  <2>2. saving[u].st = "pub" => Reachable(PathOf[u], HashOf(u))'
    BY <1>1, <2>1, ReachableStays DEF Reachable
  <2> QED BY <1>1, <1>2, <2>1, <2>2 DEF StoredStays
<1>3. ASSUME NEW v \in Contents, NEW streamed \in BOOLEAN, Store!StartPut(u, v, streamed) PROVE Claim
  BY <1>3 DEF Store!StartPut
<1>4. ASSUME Store!HeadRef(u) PROVE Claim
  BY <1>4 DEF Store!HeadRef, Store!At, Store!Goes, Reachable, HashOf
<1>5. ASSUME Store!PutBody(u) PROVE Claim
  <2>1. saving[u].st = "body" /\ saving[u].content \in Contents /\ PathOf[u] \in Paths
    BY <1>5 DEF Store!PutBody, Store!At
  <2>2. object'[PathOf[u]] # None
    BY <1>5, <2>1 DEF Store!PutBody
  <2>3. /\ saving'[u].st \in {"ref", "pub"} /\ saving'[u].streamed = saving[u].streamed /\ cloud' = cloud
        /\ saving'[u].st = "ref" => cloud /\ ~saving[u].streamed
    BY <1>5 DEF Store!PutBody, Store!Goes
  <2> QED BY <2>2, <2>3 DEF Reachable
<1>6. ASSUME Store!PipeBody(u) PROVE Claim
  <2> DEFINE f == [path |-> PathOf[u], content |-> saving[u].content]
  <2>1. f \in piping' /\ f.path = PathOf[u]
    BY <1>6, Zenon DEF Store!PipeBody
  <2>2. saving'[u].st = "pub"
    BY <1>6 DEF Store!PipeBody, Store!Goes
  <2> QED BY <2>1, <2>2 DEF Reachable, Store!BeingPiped
<1>7. ASSUME Store!PutRef(u) PROVE Claim
  <2>1. object'[PathOf[u]] # None /\ saving'[u].st = "pub"
    BY <1>7 DEF Store!PutRef, Store!At, Store!Goes
  <2> QED BY <2>1 DEF Reachable
<1>8. ASSUME Store!Publish(u) PROVE Claim
  BY <1>8 DEF Store!Publish, Store!At, Store!Goes
<1>9. CASE saving'[u] # saving[u]
  <2>1. \/ \E v \in Contents, streamed \in BOOLEAN : Store!StartPut(u, v, streamed)
        \/ Store!HeadRef(u) \/ Store!PutBody(u) \/ Store!PipeBody(u) \/ Store!PutRef(u) \/ Store!Publish(u)
    BY <1>9 DEF Store!Next, Store!vars, Store!StartPut, Store!HeadRef, Store!PutBody,
         Store!PipeBody, Store!PutRef, Store!Publish, Store!PipeEnds, Store!Goes
  <2> QED BY <2>1, <1>3, <1>4, <1>5, <1>6, <1>7, <1>8
<1> QED BY <1>2, <1>9

\* A datapoint is published by a writer that knows its value can be found.
LEMMA PublishedKept ==
  ASSUME Before, [Store!Next]_(Store!vars), NEW d \in published'
  PROVE  Reachable(d.path, d.hash)'
<1> USE DEF Before, Store!StoreAssumption, StoreInv, StoreTypes
<1>1. StoredStays
  BY StepKeeps
<1>2. CASE d \in published
  BY <1>1, <1>2, ReachableStays DEF Reachable
<1>3. CASE d \notin published
  <2>1. PICK w \in Writers : Store!Publish(w)
    BY <1>3 DEF Store!Next, Store!vars, Store!StartPut, Store!HeadRef, Store!PutBody,
         Store!PipeBody, Store!PutRef, Store!Publish, Store!PipeEnds
  <2>2. /\ d.path = PathOf[w] /\ d.hash = HashOf(w) /\ saving[w].st = "pub"
        /\ PathOf[w] \in Paths /\ HashOf(w) \in Contents \union {None}
    BY <1>3, <2>1 DEF Store!Publish, HashOf, Store!At
  <2>3. Reachable(d.path, d.hash)
    BY <2>2
  <2> QED BY <1>1, <2>2, <2>3, ReachableStays DEF Reachable
<1> QED BY <1>2, <1>3

LEMMA StoreStep == ASSUME Before, [Store!Next]_(Store!vars) PROVE StoreInv'
BY StoreTypesKept, RefsLead, SavingKept, PublishedKept DEF StoreInv

LEMMA StoreInvFetches == ASSUME Store!StoreAssumption, StoreInv PROVE NoDanglingRef
BY DEF Store!StoreAssumption, StoreInv, StoreTypes, Reachable, NoDanglingRef,
       Store!NoDanglingRef, Store!Fetch

\* Whatever a published datapoint refers to can be fetched, for any writers
\* that share paths and values in any way (LargeValues, file-ops.ts).
THEOREM RefsAreStored == ASSUME Store!StoreAssumption PROVE Store!Spec => []NoDanglingRef
<1>1. Store!Init => StoreInv
  BY StoreInit
<1>2. StoreInv /\ [Store!Next]_(Store!vars) => StoreInv'
  BY StoreStep DEF Before
<1>3. StoreInv => NoDanglingRef
  BY StoreInvFetches
<1> QED BY <1>1, <1>2, <1>3, PTL DEF Store!Spec

-----------------------------------------------------------------------------
(* What is read back from a path *)

Datapoints == [path : Paths, content : Contents, hash : Contents \union {None}]
Saves(w, v) == saving[w].st # "idle" /\ saving[w].content = v
Current(w, v) == object[PathOf[w]] = v
StreamedTo(p) == \E e \in published : e.path = p /\ e.hash = None

LastTypes ==
  /\ saves \in [Contents -> Nat] /\ last \in [Writers -> SUBSET Datapoints]
  /\ \A w \in Writers : \A d \in last[w] : d.path = PathOf[w]
  /\ cloud => piping = {}

\* A value with a reference has been saved, and one that is to be looked for or
\* uploaded beside it is being saved again.
Counted ==
  /\ \A v \in Contents : ref[v] # None => saves[v] > 0
  /\ \A w \in Writers, v \in Contents : Saves(w, v) => saves[v] > 0
  /\ \A w, u \in Writers, v \in Contents : w # u /\ Saves(w, v) /\ Saves(u, v) => saves[v] > 1
  /\ \A w \in Writers, v \in Contents :
       Saves(w, v) /\ saving[w].st \in {"head", "body"} /\ ref[v] # None => saves[v] > 1

\* With hash references: what w has put is at its path, unless it was known.
CloudLatest(w) ==
  /\ saving[w].st = "ref" => Current(w, saving[w].content)
  /\ saving[w].st = "pub" =>
       Current(w, saving[w].content) \/ (~saving[w].streamed /\ saves[saving[w].content] > 1)
  /\ saving[w].st = "idle" =>
       \A d \in last[w] : Current(w, d.content) \/ (d.hash # None /\ saves[d.content] > 1)

\* Without: unless a stream was written to the path.
LocalLatest(w) ==
  /\ Store!BeingPiped(PathOf[w]) =>
       StreamedTo(PathOf[w]) \/ (saving[w].st = "pub" /\ saving[w].streamed)
  /\ saving[w].st = "pub" /\ ~saving[w].streamed =>
       Current(w, saving[w].content) \/ StreamedTo(PathOf[w])
  /\ saving[w].st = "idle" => \A d \in last[w] : Current(w, d.content) \/ StreamedTo(PathOf[w])

Alone(w) == \A x \in Writers \ {w} : PathOf[x] # PathOf[w]
Latest(w) == IF cloud THEN CloudLatest(w) ELSE LocalLatest(w)
LatestInv == StoreInv /\ LastTypes /\ Counted /\ \A w \in Writers : Alone(w) => Latest(w)

LEMMA LatestInitially == ASSUME Store!StoreAssumption, Store!Init PROVE LatestInv
<1>1. LastTypes /\ Counted
  BY DEF Store!StoreAssumption, Store!Init, LastTypes, Counted, Datapoints, Saves
<1>2. \A w \in Writers : Latest(w)
  BY DEF Store!Init, Latest, CloudLatest, LocalLatest, Store!BeingPiped
<1> QED BY <1>1, <1>2, StoreInit DEF LatestInv

\* What is at hand before a step.
LatestBefore == Store!StoreAssumption /\ StoreInv /\ LastTypes /\ Counted

LEMMA LastTypesKept == ASSUME LatestBefore, [Store!Next]_(Store!vars) PROVE LastTypes'
<1> USE DEF LatestBefore, Store!StoreAssumption, StoreInv, StoreTypes, LastTypes, Datapoints
<1>1. CASE UNCHANGED Store!vars
  BY <1>1 DEF Store!vars
<1>2. ASSUME NEW w \in Writers, NEW v \in Contents, NEW streamed \in BOOLEAN,
             Store!StartPut(w, v, streamed)
      PROVE  LastTypes'
  BY <1>2 DEF Store!StartPut
<1>3. ASSUME NEW w \in Writers,
             Store!HeadRef(w) \/ Store!PutBody(w) \/ Store!PipeBody(w) \/ Store!PutRef(w)
      PROVE  LastTypes'
  BY <1>3 DEF Store!HeadRef, Store!PutBody, Store!PipeBody, Store!PutRef, Store!Piped
<1>4. ASSUME NEW w \in Writers, Store!Publish(w) PROVE LastTypes'
  <2> DEFINE d == [path |-> PathOf[w], content |-> saving[w].content,
                   hash |-> IF saving[w].streamed THEN None ELSE saving[w].content]
  <2>1. d \in Datapoints /\ d.path = PathOf[w]
    BY <1>4 DEF Store!Publish, Store!At
  <2>2. last' = [last EXCEPT ![w] = {d}] /\ UNCHANGED <<cloud, piping, saves>>
    BY <1>4 DEF Store!Publish
  <2> QED BY <2>1, <2>2
<1>5. ASSUME NEW f \in piping, Store!PipeEnds(f) PROVE LastTypes'
  BY <1>5 DEF Store!PipeEnds
<1> QED BY <1>1, <1>2, <1>3, <1>4, <1>5 DEF Store!Next

LEMMA CountedKept == ASSUME LatestBefore, [Store!Next]_(Store!vars) PROVE Counted'
<1> USE DEF LatestBefore, Store!StoreAssumption, StoreInv, StoreTypes, LastTypes, Counted, Saves
<1>1. CASE UNCHANGED Store!vars
  BY <1>1 DEF Store!vars
<1>2. ASSUME NEW w \in Writers, NEW v \in Contents, NEW streamed \in BOOLEAN,
             Store!StartPut(w, v, streamed)
      PROVE  Counted'
  BY <1>2 DEF Store!StartPut, Store!At
<1>3. ASSUME NEW w \in Writers, Store!HeadRef(w) PROVE Counted'
  BY <1>3 DEF Store!HeadRef, Store!At, Store!Goes
<1>4. ASSUME NEW w \in Writers, Store!PutBody(w) PROVE Counted'
  BY <1>4 DEF Store!PutBody, Store!At, Store!Goes
<1>5. ASSUME NEW w \in Writers, Store!PipeBody(w) PROVE Counted'
  BY <1>5 DEF Store!PipeBody, Store!At, Store!Goes
<1>6. ASSUME NEW w \in Writers, Store!PutRef(w) PROVE Counted'
  BY <1>6 DEF Store!PutRef, Store!At, Store!Goes
<1>7. ASSUME NEW w \in Writers, Store!Publish(w) PROVE Counted'
  BY <1>7 DEF Store!Publish, Store!At, Store!Goes
<1>8. ASSUME NEW f \in piping, Store!PipeEnds(f) PROVE Counted'
  BY <1>8 DEF Store!PipeEnds
<1> QED BY <1>1, <1>2, <1>3, <1>4, <1>5, <1>6, <1>7, <1>8 DEF Store!Next

\* What others do leaves a path of w's own alone, except that a stream may end.
LEMMA OthersLeaveAlone ==
  ASSUME LatestBefore, [Store!Next]_(Store!vars), NEW w \in Writers, Alone(w),
         saving'[w] = saving[w], last'[w] = last[w]
  PROVE  /\ \A f \in piping' : f.path = PathOf[w] => f \in piping
         /\ \/ object'[PathOf[w]] = object[PathOf[w]]
            \/ ~cloud /\ Store!BeingPiped(PathOf[w])
         /\ published \subseteq published'
         /\ \A v \in Contents : saves[v] <= saves'[v]
         /\ cloud' = cloud
<1> DEFINE Goal == /\ \A f \in piping' : f.path = PathOf[w] => f \in piping
                   /\ \/ object'[PathOf[w]] = object[PathOf[w]]
                      \/ ~cloud /\ Store!BeingPiped(PathOf[w])
                   /\ published \subseteq published'
                   /\ \A v \in Contents : saves[v] <= saves'[v]
                   /\ cloud' = cloud
<1> USE DEF LatestBefore, Store!StoreAssumption, StoreInv, StoreTypes, LastTypes, Alone
<1>1. CASE UNCHANGED Store!vars
  BY <1>1 DEF Store!vars
<1>2. ASSUME NEW u \in Writers, NEW v \in Contents, NEW streamed \in BOOLEAN,
             Store!StartPut(u, v, streamed)
      PROVE  Goal
  BY <1>2 DEF Store!StartPut
<1>3. ASSUME NEW u \in Writers, Store!HeadRef(u) \/ Store!PutRef(u) \/ Store!Publish(u) PROVE Goal
  BY <1>3 DEF Store!HeadRef, Store!PutRef, Store!Publish
<1>4. ASSUME NEW u \in Writers, Store!PutBody(u) PROVE Goal
  <2>1. u # w
    BY <1>4 DEF Store!PutBody, Store!At, Store!Goes
  <2> QED BY <1>4, <2>1 DEF Store!PutBody
<1>5. ASSUME NEW u \in Writers, Store!PipeBody(u) PROVE Goal
  <2>1. u # w
    BY <1>5 DEF Store!PipeBody, Store!At, Store!Goes
  <2> QED BY <1>5, <2>1 DEF Store!PipeBody
<1>6. ASSUME NEW f \in piping, Store!PipeEnds(f) PROVE Goal
  BY <1>6 DEF Store!PipeEnds, Store!BeingPiped
<1> QED BY <1>1, <1>2, <1>3, <1>4, <1>5, <1>6 DEF Store!Next

\* A writer's own steps, one by one.
OwnStep(w) ==
  \/ \E v \in Contents, streamed \in BOOLEAN : Store!StartPut(w, v, streamed)
  \/ Store!HeadRef(w) \/ Store!PutBody(w) \/ Store!PipeBody(w) \/ Store!PutRef(w) \/ Store!Publish(w)

LEMMA OwnOrOther ==
  ASSUME LatestBefore, [Store!Next]_(Store!vars), NEW w \in Writers
  PROVE  OwnStep(w) \/ (saving'[w] = saving[w] /\ last'[w] = last[w])
BY DEF LatestBefore, StoreInv, StoreTypes, LastTypes, OwnStep, Store!Next, Store!vars, Store!StartPut,
       Store!HeadRef, Store!PutBody, Store!PipeBody, Store!PutRef, Store!Publish, Store!PipeEnds,
       Store!Goes

LEMMA LatestOthers ==
  ASSUME LatestBefore, [Store!Next]_(Store!vars), NEW w \in Writers, Alone(w), Latest(w),
         saving'[w] = saving[w], last'[w] = last[w]
  PROVE  Latest(w)'
<1>1. /\ \A f \in piping' : f.path = PathOf[w] => f \in piping
      /\ \/ object'[PathOf[w]] = object[PathOf[w]]
         \/ ~cloud /\ Store!BeingPiped(PathOf[w])
      /\ published \subseteq published'
      /\ \A v \in Contents : saves[v] <= saves'[v]
      /\ cloud' = cloud
  BY OthersLeaveAlone
<1>2. /\ saves \in [Contents -> Nat] /\ saves' \in [Contents -> Nat]
      /\ saving[w].st # "idle" => saving[w].content \in Contents
      /\ \A d \in last[w] : d.content \in Contents
  BY LastTypesKept DEF LatestBefore, StoreInv, StoreTypes, LastTypes, Datapoints
<1>3. CASE cloud
  BY <1>1, <1>2, <1>3 DEF Latest, CloudLatest, Current
<1>4. CASE ~cloud
  <2>1. StreamedTo(PathOf[w]) => StreamedTo(PathOf[w])'
    BY <1>1 DEF StreamedTo
  <2>2. Store!BeingPiped(PathOf[w])' => Store!BeingPiped(PathOf[w])
    BY <1>1 DEF Store!BeingPiped
  <2> QED BY <1>1, <1>4, <2>1, <2>2 DEF Latest, LocalLatest, Current
<1> QED BY <1>3, <1>4

LEMMA LatestCloud ==
  ASSUME LatestBefore, NEW w \in Writers, cloud, CloudLatest(w), OwnStep(w)
  PROVE  Latest(w)'
<1> USE DEF LatestBefore, Store!StoreAssumption, StoreInv, StoreTypes, LastTypes, Latest, CloudLatest,
            Current
<1>1. ASSUME NEW v \in Contents, NEW streamed \in BOOLEAN, Store!StartPut(w, v, streamed)
      PROVE  Latest(w)'
  BY <1>1 DEF Store!StartPut
<1>2. ASSUME Store!HeadRef(w) PROVE Latest(w)'
  BY <1>2 DEF Store!HeadRef, Store!At, Store!Goes, Counted, Saves
<1>3. ASSUME Store!PutBody(w) PROVE Latest(w)'
  BY <1>3 DEF Store!PutBody, Store!At, Store!Goes
<1>4. ASSUME Store!PipeBody(w) PROVE Latest(w)'
  BY <1>4 DEF Store!PipeBody, Store!Piped
<1>5. ASSUME Store!PutRef(w) PROVE Latest(w)'
  BY <1>5 DEF Store!PutRef, Store!At, Store!Goes
<1>6. ASSUME Store!Publish(w) PROVE Latest(w)'
  BY <1>6 DEF Store!Publish, Store!At, Store!Goes
<1> QED BY <1>1, <1>2, <1>3, <1>4, <1>5, <1>6 DEF OwnStep

LEMMA LatestLocal ==
  ASSUME LatestBefore, NEW w \in Writers, ~cloud, LocalLatest(w), OwnStep(w)
  PROVE  Latest(w)'
<1> USE DEF LatestBefore, Store!StoreAssumption, StoreInv, StoreTypes, LastTypes, Latest, LocalLatest,
            Current, StreamedTo, Store!BeingPiped
<1>1. ASSUME NEW v \in Contents, NEW streamed \in BOOLEAN, Store!StartPut(w, v, streamed)
      PROVE  Latest(w)'
  BY <1>1 DEF Store!StartPut, Store!At
<1>2. ASSUME Store!HeadRef(w) PROVE Latest(w)'
  BY <1>2 DEF Store!HeadRef, Store!At
<1>3. ASSUME Store!PutBody(w) PROVE Latest(w)'
  BY <1>3 DEF Store!PutBody, Store!At, Store!Goes, Store!Piped
<1>4. ASSUME Store!PipeBody(w) PROVE Latest(w)'
  BY <1>4 DEF Store!PipeBody, Store!Piped, Store!At, Store!Goes
<1>5. ASSUME Store!PutRef(w) PROVE Latest(w)'
  BY <1>5 DEF Store!PutRef, Store!At, Store!Goes
<1>6. ASSUME Store!Publish(w) PROVE Latest(w)'
  <2> DEFINE d == [path |-> PathOf[w], content |-> saving[w].content,
                   hash |-> IF saving[w].streamed THEN None ELSE saving[w].content]
  <2>1. /\ saving[w].st = "pub" /\ saving'[w].st = "idle"
        /\ published' = published \union {d} /\ last'[w] = {d}
        /\ UNCHANGED <<cloud, object, piping>>
    BY <1>6 DEF Store!Publish, Store!At, Store!Goes
  <2>2. d \in published' /\ published \subseteq published' /\ PathOf' = PathOf
    BY <2>1
  <2>3. StreamedTo(PathOf[w]) => StreamedTo(PathOf[w])'
    BY <2>2
  <2>4. ASSUME saving[w].streamed PROVE StreamedTo(PathOf[w])'
    <3>1. d.path = PathOf[w] /\ d.hash = None
      BY <2>4
    <3> QED BY <2>2, <3>1, Zenon
  <2> QED BY <2>1, <2>3, <2>4
<1> QED BY <1>1, <1>2, <1>3, <1>4, <1>5, <1>6 DEF OwnStep

LEMMA LatestStep ==
  ASSUME Store!StoreAssumption, LatestInv, [Store!Next]_(Store!vars)
  PROVE  LatestInv'
<1>1. LatestBefore
  BY DEF LatestBefore, LatestInv
<1>2. ASSUME NEW w \in Writers, Alone(w) PROVE Latest(w)'
  <2>1. Latest(w)
    BY <1>2 DEF LatestInv
  <2>2. CASE saving'[w] = saving[w] /\ last'[w] = last[w]
    BY <1>1, <1>2, <2>1, <2>2, LatestOthers
  <2>3. CASE OwnStep(w)
    BY <1>1, <2>1, <2>3, LatestCloud, LatestLocal DEF Latest
  <2> QED BY <1>1, <2>2, <2>3, OwnOrOther
<1>3. StoreInv'
  BY StoreStep DEF LatestInv, Before
<1> QED BY <1>1, <1>2, <1>3, LastTypesKept, CountedKept DEF LatestInv, Alone

LEMMA LatestIsRestored ==
  ASSUME Store!StoreAssumption, LatestInv
  PROVE  LatestRestored
<1> SUFFICES ASSUME NEW w \in Writers, NEW d \in last[w], saving[w].st = "idle", Alone(w),
                    IF cloud THEN d.hash = None \/ saves[d.content] = 1
                    ELSE \A e \in published : e.path = d.path => e.hash # None
             PROVE  Store!Fetch(d) = d.content
  BY DEF LatestRestored, Store!LatestRestored, Store!At, Alone
<1>1. d.path = PathOf[w] /\ d.content \in Contents /\ Latest(w)
  BY DEF LatestInv, LastTypes, Datapoints
<1>2. Current(w, d.content)
  BY <1>1 DEF Latest, CloudLatest, LocalLatest, StreamedTo
<1> QED BY <1>1, <1>2 DEF Current, Store!Fetch, Store!StoreAssumption

\* A path of one writer's gives back its last value, with the exceptions that
\* LatestRestored makes, whatever else is saved (LargeValues, file-ops.ts).
THEOREM LastValueIsRestored == ASSUME Store!StoreAssumption PROVE Store!Spec => []LatestRestored
<1>1. Store!Init => LatestInv
  BY LatestInitially
<1>2. LatestInv /\ [Store!Next]_(Store!vars) => LatestInv'
  BY LatestStep
<1>3. LatestInv => LatestRestored
  BY LatestIsRestored
<1> QED BY <1>1, <1>2, <1>3, PTL DEF Store!Spec

-----------------------------------------------------------------------------
(* The database *)

\* The overrides a call has still to write, and what committed or open
\* transactions have written.
Remaining(c) == ToSet(todo[c])
Present == visible \union UNION {written[c] : c \in {d \in Calls : at[d] = "open"}}

IsConnector(r, j, t) == r.kind = "connector" /\ r.job = j /\ r.tag = t

DBTypes ==
  /\ at \in [Calls -> {"no", "begun", "open", "done", "failed"}]
  /\ todo = [c \in Calls |-> todo[c]] /\ written = [c \in Calls |-> written[c]]
  /\ schema = [s \in Streams |-> schema[s]]
  /\ \A c \in Calls : at[c] = "open" => todo[c] \in Seq(ToSet(Overrides[c]))

\* Who has committed, and that this made all of it visible.
Committed ==
  /\ \A r \in visible : \E c \in Calls : at[c] = "done" /\ r \in written[c]
  /\ \A c \in Calls : at[c] = "done" => written[c] \subseteq visible /\ todo[c] = <<>>

\* A transaction has a connector for each tag it does not have to write any more.
WrittenSoFar ==
  \A c \in Calls : at[c] \in {"open", "done"} =>
    /\ {DB!JobRec(c), DB!StatusRec(c)} \subseteq written[c]
    /\ ParentOf[c] # NoJob => DB!RelationRec(c) \in written[c]
    /\ \A o \in ToSet(Overrides[c]) :
         \/ o \in Remaining(c)
         \/ \E r \in visible \union written[c] : IsConnector(r, JobOf[c], o.tag)

\* No transaction has a connector for a tag that another one has.
OneConnector ==
  \A r, q \in Present :
    r.kind = "connector" /\ q.kind = "connector" /\ r.job = q.job /\ r.tag = q.tag => r = q

StreamsThere ==
  \A r \in Present : r.kind = "connector" => r.stream \in Streams /\ schema[r.stream] # "none"

DBInv == DBTypes /\ Committed /\ WrittenSoFar /\ OneConnector /\ StreamsThere

LEMMA DBInitially == ASSUME DB!DBAssumption, DB!Init PROVE DBInv
BY DEF DB!DBAssumption, DB!Init, DBInv, DBTypes, Committed, WrittenSoFar, OneConnector,
       StreamsThere, Present

LEMMA DBInvTogether == ASSUME DB!DBAssumption, DBInv PROVE DB!RecordsTogether
<1> USE DEF DBInv
<1>1. visible \subseteq Present
  BY DEF Present
<1>2. \A c \in Calls : at[c] = "done" => Remaining(c) = {}
  BY DEF Committed, Remaining, ToSet
<1>3. ASSUME NEW c \in Calls, at[c] = "done", NEW t \in DB!Tags(c)
      PROVE  \E r \in visible : /\ r.kind = "connector" /\ r.job = JobOf[c] /\ r.tag = t
                                /\ schema[r.stream] # "none"
  <2>1. PICK o \in ToSet(Overrides[c]) : o.tag = t
    BY <1>3 DEF DB!Tags, DB!ToSet, ToSet
  <2>2. PICK r \in visible \union written[c] : IsConnector(r, JobOf[c], t)
    BY <1>2, <1>3, <2>1 DEF WrittenSoFar
  <2>3. r \in visible
    BY <1>3, <2>2 DEF Committed
  <2> QED BY <1>1, <2>2, <2>3 DEF StreamsThere, IsConnector
<1> QED BY <1>1, <1>3 DEF DB!RecordsTogether, Committed, WrittenSoFar, OneConnector

-----------------------------------------------------------------------------
LEMMA HeadOrTail ==
  ASSUME NEW S, NEW q \in Seq(S), q # <<>>
  PROVE  /\ Head(q) \in ToSet(q) /\ Tail(q) \in Seq(S)
         /\ \A x \in ToSet(q) : x = Head(q) \/ x \in ToSet(Tail(q))
<1>1. Len(q) \in Nat \ {0} /\ DOMAIN q = 1 .. Len(q) /\ Head(q) = q[1]
  OBVIOUS
<1>2. Tail(q) \in Seq(S) /\ DOMAIN Tail(q) = 1 .. Len(q) - 1
  OBVIOUS
<1>3. \A i \in 1 .. Len(q) - 1 : Tail(q)[i] = q[i + 1]
  BY <1>1
<1>4. ASSUME NEW x \in ToSet(q), x # Head(q) PROVE x \in ToSet(Tail(q))
  <2>1. PICK i \in 1 .. Len(q) : q[i] = x
    BY <1>1, <1>4 DEF ToSet
  <2>2. i - 1 \in 1 .. Len(q) - 1
    BY <1>1, <1>4, <2>1
  <2>3. Tail(q)[i - 1] = x
    BY <1>1, <1>3, <2>1, <2>2
  <2> QED BY <1>2, <2>2, <2>3 DEF ToSet
<1> QED BY <1>1, <1>2, <1>4 DEF ToSet

DBBefore == DB!DBAssumption /\ DBInv

\* A stream that has a record keeps one, with or without a schema.
LEMMA StreamsStay ==
  ASSUME DBBefore, [DB!Next]_(DB!vars)
  PROVE  /\ schema' = [s \in Streams |-> schema'[s]]
         /\ \A s \in Streams : schema[s] # "none" => schema'[s] # "none"
<1> DEFINE Kept == /\ schema' = [s \in Streams |-> schema'[s]]
                   /\ \A s \in Streams : schema[s] # "none" => schema'[s] # "none"
<1> USE DEF DBBefore, DBInv, DBTypes
<1>1. CASE schema' = schema
  BY <1>1
<1>2. ASSUME NEW c \in Calls, DB!EnsureConnector(c) PROVE Kept
  BY <1>2 DEF DB!EnsureConnector, DB!WithStream, DB!NoSchema
<1>3. ASSUME NEW w \in StreamWriters, DB!InsertStream(w) PROVE Kept
  BY <1>3 DEF DB!InsertStream, DB!DBAssumption
<1>4. ASSUME NEW w \in StreamWriters, DB!UpdateSchema(w) PROVE Kept
  BY <1>4 DEF DB!UpdateSchema, DB!DBAssumption
<1>5. \/ schema' = schema
      \/ \E c \in Calls : DB!EnsureConnector(c)
      \/ \E w \in StreamWriters : DB!InsertStream(w) \/ DB!UpdateSchema(w)
  BY DEF DB!Next, DB!vars, DB!EnsureStep, DB!BeginEnsure, DB!WriteJob, DB!CommitEnsure,
         DB!AcquireTimesOut, DB!ReadStream, DB!LookUp, DB!Pub, DB!LookedUp, DB!Evict
<1> QED BY <1>1, <1>2, <1>3, <1>4, <1>5

\* The steps of the stream service leave the records of jobs alone.
LEMMA StreamSteps ==
  ASSUME DBBefore, [DB!Next]_(DB!vars), UNCHANGED DB!dbVars
  PROVE  DBInv'
<1>1. UNCHANGED <<at, todo, written, visible>>
  BY DEF DB!dbVars
<1>2. Present' = Present /\ \A c \in Calls : Remaining(c)' = Remaining(c)
  BY <1>1 DEF Present, Remaining
<1>3. DBTypes' /\ StreamsThere'
  BY <1>1, <1>2, StreamsStay DEF DBBefore, DBInv, DBTypes, StreamsThere
<1>4. Committed' /\ OneConnector'
  BY <1>1, <1>2 DEF DBBefore, DBInv, Committed, OneConnector
<1>5. WrittenSoFar'
  BY <1>1, <1>2 DEF DBBefore, DBInv, WrittenSoFar
<1> QED BY <1>3, <1>4, <1>5 DEF DBInv

\* A call that begins has written nothing; of one that fails nothing is seen.
LEMMA BeginOrFail ==
  ASSUME DBBefore, NEW c \in Calls, DB!BeginEnsure(c) \/ DB!AcquireTimesOut(c)
  PROVE  DBInv'
<1>1. /\ UNCHANGED <<todo, written, visible, schema>>
      /\ at[c] \notin {"done"}
      /\ at' \in {[at EXCEPT ![c] = "begun"], [at EXCEPT ![c] = "failed"]}
  BY DEF DB!BeginEnsure, DB!AcquireTimesOut
<1>2. /\ \A d \in Calls : at'[d] \in {"open", "done"} => d # c /\ at'[d] = at[d]
      /\ \A d \in Calls : at[d] = "done" => at'[d] = "done"
  BY <1>1 DEF DBBefore, DBInv, DBTypes
<1>3. Present' \subseteq Present /\ \A d \in Calls : Remaining(d)' = Remaining(d)
  BY <1>1, <1>2 DEF Present, Remaining
<1>4. DBTypes'
  BY <1>1, <1>2 DEF DBBefore, DBInv, DBTypes
<1>5. Committed'
  BY <1>1, <1>2 DEF DBBefore, DBInv, Committed
<1>6. OneConnector' /\ StreamsThere'
  BY <1>1, <1>3 DEF DBBefore, DBInv, OneConnector, StreamsThere
<1>7. WrittenSoFar'
  BY <1>1, <1>2, <1>3 DEF DBBefore, DBInv, WrittenSoFar
<1> QED BY <1>4, <1>5, <1>6, <1>7 DEF DBInv

\* The first records of a transaction; none of them is a connector.
LEMMA WriteJobStep ==
  ASSUME DBBefore, NEW c \in Calls, DB!WriteJob(c)
  PROVE  DBInv'
<1>1. /\ UNCHANGED <<visible, schema>> /\ at[c] = "begun"
      /\ at' = [at EXCEPT ![c] = "open"] /\ todo' = [todo EXCEPT ![c] = Overrides[c]]
      /\ written' = [written EXCEPT ![c] = written'[c]]
      /\ {DB!JobRec(c), DB!StatusRec(c)} \subseteq written'[c]
      /\ ParentOf[c] # NoJob => DB!RelationRec(c) \in written'[c]
      /\ \A r \in written'[c] : r.kind # "connector"
  BY DEF DB!WriteJob, DBBefore, DBInv, DBTypes, DB!JobRec, DB!StatusRec, DB!RelationRec
<1>2. /\ \A d \in Calls : at'[d] = "done" => d # c /\ at[d] = "done"
      /\ \A d \in Calls : at[d] = "done" => at'[d] = "done"
      /\ \A d \in Calls \ {c} : at'[d] = at[d] /\ todo'[d] = todo[d] /\ written'[d] = written[d]
      /\ at'[c] = "open" /\ todo'[c] = Overrides[c]
  BY <1>1 DEF DBBefore, DBInv, DBTypes
<1>3. \A r \in Present' : r \in Present \/ r \in written'[c]
  BY <1>1, <1>2 DEF Present
<1>4. DBTypes'
  BY <1>1, <1>2 DEF DBBefore, DBInv, DBTypes, DB!DBAssumption, ToSet, DB!ToSet
<1>5. Committed'
  BY <1>1, <1>2 DEF DBBefore, DBInv, Committed
<1>6. OneConnector' /\ StreamsThere'
  BY <1>1, <1>3 DEF DBBefore, DBInv, OneConnector, StreamsThere
<1>7. WrittenSoFar'
  <2>1. ASSUME NEW d \in Calls, at'[d] \in {"open", "done"}, d # c
        PROVE  /\ {DB!JobRec(d), DB!StatusRec(d)} \subseteq written'[d]
               /\ ParentOf[d] # NoJob => DB!RelationRec(d) \in written'[d]
               /\ \A o \in ToSet(Overrides[d]) :
                    \/ o \in Remaining(d)'
                    \/ \E r \in visible' \union written'[d] : IsConnector(r, JobOf[d], o.tag)
    BY <1>1, <1>2, <2>1 DEF DBBefore, DBInv, WrittenSoFar, Remaining
  <2>2. Remaining(c)' = ToSet(Overrides[c])
    BY <1>2 DEF Remaining
  <2> QED BY <1>1, <2>1, <2>2 DEF WrittenSoFar
<1> QED BY <1>4, <1>5, <1>6, <1>7 DEF DBInv

\* The connector for the next override: it is there, or it is written and no
\* other transaction has written one.
LEMMA EnsureConnectorStep ==
  ASSUME DBBefore, NEW c \in Calls, DB!EnsureConnector(c), [DB!Next]_(DB!vars)
  PROVE  DBInv'
<1> DEFINE o == Head(todo[c])
           new == DB!WithConnector(c, o)
           rec == DB!ConnectorRec(c, o)
<1>1. /\ UNCHANGED <<at, visible>> /\ at[c] = "open" /\ todo[c] # <<>>
      /\ todo' = [todo EXCEPT ![c] = Tail(todo[c])]
      /\ written' = [written EXCEPT ![c] = written[c] \union new]
      /\ ~DB!Locked(c, rec)
      /\ schema' = [schema EXCEPT ![o.stream] = IF @ = "none" THEN "null" ELSE @]
  BY DEF DB!EnsureConnector, DB!WithStream, DB!NoSchema
<1>2. /\ o \in ToSet(todo[c]) /\ Tail(todo[c]) \in Seq(ToSet(Overrides[c]))
      /\ o \in ToSet(Overrides[c])
      /\ \A x \in ToSet(todo[c]) : x = o \/ x \in ToSet(Tail(todo[c]))
  <2>1. todo[c] \in Seq(ToSet(Overrides[c]))
    BY <1>1 DEF DBBefore, DBInv, DBTypes
  <2>2. Head(todo[c]) \in ToSet(Overrides[c])
    BY <1>1, <2>1
  <2> QED BY <1>1, <2>1, <2>2, HeadOrTail
<1>3. o.stream \in Streams
  BY <1>2 DEF DBBefore, DB!DBAssumption, ToSet, DB!ToSet
<1>4. /\ rec.kind = "connector" /\ rec.job = JobOf[c] /\ rec.tag = o.tag /\ rec.stream = o.stream
      /\ new \in {{}, {rec}}
      /\ new = {} => \E r \in visible \union written[c] : IsConnector(r, JobOf[c], o.tag)
      /\ new # {} => \A r \in visible \union written[c] : ~IsConnector(r, JobOf[c], o.tag)
  BY DEF DB!WithConnector, DB!ConnectorRec, IsConnector
<1>5. /\ written'[c] = written[c] \union new /\ todo'[c] = Tail(todo[c])
      /\ \A d \in Calls \ {c} : written'[d] = written[d] /\ todo'[d] = todo[d]
  BY <1>1 DEF DBBefore, DBInv, DBTypes
<1>6. DBTypes'
  BY <1>1, <1>2, <1>5, StreamsStay DEF DBBefore, DBInv, DBTypes
<1>7. Committed'
  BY <1>1, <1>5 DEF DBBefore, DBInv, Committed
<1>8. \A r \in Present' : r \in Present \/ r \in new
  BY <1>1, <1>5 DEF Present
<1>9. new # {} => \A r \in Present : ~IsConnector(r, JobOf[c], o.tag)
  <2>1. ASSUME new # {}, NEW r \in Present, IsConnector(r, JobOf[c], o.tag) PROVE FALSE
    <3>1. r \notin visible \union written[c]
      BY <1>4, <2>1
    <3>2. PICK d \in Calls : at[d] = "open" /\ r \in written[d]
      BY <2>1, <3>1 DEF Present
    <3>3. DB!SameKey(rec, r)
      BY <1>4, <2>1 DEF DB!SameKey, IsConnector
    <3> QED BY <1>1, <3>1, <3>2, <3>3 DEF DB!Locked
  <2> QED BY <2>1
<1>10. OneConnector'
  BY <1>4, <1>8, <1>9 DEF DBBefore, DBInv, OneConnector, IsConnector
<1>11. schema'[o.stream] # "none"
  BY <1>1, <1>3 DEF DBBefore, DBInv, DBTypes
<1>12. StreamsThere'
  BY <1>3, <1>4, <1>8, <1>11, StreamsStay DEF DBBefore, DBInv, StreamsThere
<1>13. WrittenSoFar'
  <2>1. ASSUME NEW d \in Calls, at'[d] \in {"open", "done"}
        PROVE  /\ {DB!JobRec(d), DB!StatusRec(d)} \subseteq written'[d]
               /\ ParentOf[d] # NoJob => DB!RelationRec(d) \in written'[d]
    BY <1>1, <1>5, <2>1 DEF DBBefore, DBInv, WrittenSoFar
  <2>2. ASSUME NEW d \in Calls \ {c}, at'[d] \in {"open", "done"}, NEW x \in ToSet(Overrides[d])
        PROVE  \/ x \in Remaining(d)'
               \/ \E r \in visible' \union written'[d] : IsConnector(r, JobOf[d], x.tag)
    BY <1>1, <1>5, <2>2 DEF DBBefore, DBInv, WrittenSoFar, Remaining
  <2>3. ASSUME NEW x \in ToSet(Overrides[c])
        PROVE  \/ x \in Remaining(c)'
               \/ \E r \in visible' \union written'[c] : IsConnector(r, JobOf[c], x.tag)
    <3>1. \/ x \in Remaining(c)
          \/ \E r \in visible \union written[c] : IsConnector(r, JobOf[c], x.tag)
      BY <1>1 DEF DBBefore, DBInv, WrittenSoFar
    <3>2. CASE x = o
      <4>1. \E r \in visible \union written[c] \union new : IsConnector(r, JobOf[c], o.tag)
        BY <1>4 DEF IsConnector
      <4> QED BY <1>1, <1>5, <3>2, <4>1
    <3>3. CASE x \in Remaining(c) /\ x # o
      BY <1>2, <1>5, <3>3 DEF Remaining
    <3>4. CASE \E r \in visible \union written[c] : IsConnector(r, JobOf[c], x.tag)
      BY <1>1, <1>5, <3>4
    <3> QED BY <3>1, <3>2, <3>3, <3>4
  <2> QED BY <2>1, <2>2, <2>3 DEF WrittenSoFar
<1> QED BY <1>6, <1>7, <1>10, <1>12, <1>13 DEF DBInv

LEMMA CommitStep ==
  ASSUME DBBefore, NEW c \in Calls, DB!CommitEnsure(c)
  PROVE  DBInv'
<1>1. /\ UNCHANGED <<todo, written, schema>> /\ at[c] = "open" /\ todo[c] = <<>>
      /\ at' = [at EXCEPT ![c] = "done"] /\ visible' = visible \union written[c]
  BY DEF DB!CommitEnsure
<1>2. /\ at'[c] = "done" /\ \A d \in Calls \ {c} : at'[d] = at[d]
      /\ \A d \in Calls : Remaining(d)' = Remaining(d)
  BY <1>1 DEF DBBefore, DBInv, DBTypes, Remaining
<1>3. Present' \subseteq Present
  BY <1>1, <1>2 DEF Present
<1>4. DBTypes'
  BY <1>1, <1>2 DEF DBBefore, DBInv, DBTypes
<1>5. Committed'
  BY <1>1, <1>2 DEF DBBefore, DBInv, Committed
<1>6. OneConnector' /\ StreamsThere'
  BY <1>1, <1>3 DEF DBBefore, DBInv, OneConnector, StreamsThere
<1>7. WrittenSoFar'
  BY <1>1, <1>2 DEF DBBefore, DBInv, WrittenSoFar
<1> QED BY <1>4, <1>5, <1>6, <1>7 DEF DBInv

LEMMA DBStep == ASSUME DBBefore, [DB!Next]_(DB!vars) PROVE DBInv'
<1>1. CASE UNCHANGED DB!dbVars
  BY <1>1, StreamSteps
<1>2. CASE \E c \in Calls : DB!EnsureStep(c)
  BY <1>2, BeginOrFail, WriteJobStep, EnsureConnectorStep, CommitStep DEF DB!EnsureStep
<1>3. UNCHANGED DB!dbVars \/ \E c \in Calls : DB!EnsureStep(c)
  BY DEF DB!Next, DB!vars, DB!InsertStream, DB!UpdateSchema, DB!ReadStream, DB!LookUp, DB!Pub,
         DB!LookedUp, DB!Evict
<1> QED BY <1>1, <1>2, <1>3

\* The records of a call appear together and its tags have one connector each,
\* however many calls create the same jobs at once (VaultDB, db/service.ts).
THEOREM RecordsAppearTogether ==
  ASSUME DB!DBAssumption PROVE DB!Spec => []RecordsTogether
<1>1. DB!Init => DBInv
  BY DBInitially
<1>2. DBInv /\ [DB!Next]_(DB!vars) => DBInv'
  BY DBStep DEF DBBefore
<1>3. DBInv => RecordsTogether
  BY DBInvTogether DEF RecordsTogether
<1> QED BY <1>1, <1>2, <1>3, PTL DEF DB!Spec

-----------------------------------------------------------------------------
(* The schema of a stream *)

Declared(s, a) == \A w \in StreamWriters : WriterOn[w] = s => SchemaOf[w] = a

StreamTypes ==
  /\ schema = [s \in Streams |-> schema[s]] /\ cached = [s \in Streams |-> cached[s]]
  /\ channel = [s \in Streams |-> channel[s]] /\ opening = [w \in StreamWriters |-> opening[w]]

\* A writer of s is through, or on its way to giving s its schema a; the cache
\* is filled after that.
Settled(s, a) ==
  /\ schema[s] \in {"none", DB!NoSchema, a}
  /\ \A w \in StreamWriters : WriterOn[w] = s =>
       /\ opening[w] \in {"no", "inserted", "update", "open"}
       /\ opening[w] # "no" => schema[s] # "none"
       /\ opening[w] = "open" => schema[s] = a
  /\ cached[s] \in {"none", "reading", a} /\ (cached[s] # "none" => schema[s] = a)
  /\ channel[s] \subseteq {a}

SchemaInv ==
  /\ StreamTypes
  /\ \A s \in Streams, a \in DB!Shapes : Declared(s, a) => Settled(s, a)

LEMMA SchemaInitially == ASSUME DB!DBAssumption, DB!Init PROVE SchemaInv
BY DEF DB!DBAssumption, DB!Init, SchemaInv, StreamTypes, Settled

LEMMA SchemaTypesKept ==
  ASSUME DB!DBAssumption, StreamTypes, [DB!Next]_(DB!vars)
  PROVE  StreamTypes'
<1> USE DEF StreamTypes
<1>1. CASE UNCHANGED DB!vars
  BY <1>1 DEF DB!vars, DB!streamVars
<1>2. ASSUME NEW c \in Calls, DB!EnsureStep(c) PROVE StreamTypes'
  BY <1>2 DEF DB!EnsureStep, DB!BeginEnsure, DB!WriteJob, DB!EnsureConnector, DB!CommitEnsure,
              DB!AcquireTimesOut, DB!WithStream, DB!streamVars
<1>3. ASSUME NEW w \in StreamWriters,
             \/ DB!InsertStream(w) \/ DB!ReadStream(w) \/ DB!UpdateSchema(w) \/ DB!LookUp(w)
             \/ \E of \in DB!Shapes : DB!Pub(w, of)
      PROVE  StreamTypes'
  BY <1>3 DEF DB!InsertStream, DB!ReadStream, DB!UpdateSchema, DB!LookUp, DB!Pub
<1>4. ASSUME NEW s \in Streams, DB!LookedUp(s) \/ DB!Evict(s) PROVE StreamTypes'
  BY <1>4 DEF DB!LookedUp, DB!Evict
<1> QED BY <1>1, <1>2, <1>3, <1>4 DEF DB!Next

LEMMA SettledStays ==
  ASSUME DB!DBAssumption, StreamTypes, [DB!Next]_(DB!vars),
         NEW s \in Streams, NEW a \in DB!Shapes, Declared(s, a), Settled(s, a)
  PROVE  Settled(s, a)'
<1> USE DEF DB!DBAssumption, StreamTypes, Declared, Settled, DB!NoSchema, DB!Shapes
<1>1. CASE UNCHANGED DB!vars
  BY <1>1 DEF DB!vars, DB!streamVars
<1>2. ASSUME NEW c \in Calls, DB!EnsureStep(c) PROVE Settled(s, a)'
  <2>1. UNCHANGED <<cached, channel, opening>>
    BY <1>2 DEF DB!EnsureStep, DB!BeginEnsure, DB!WriteJob, DB!EnsureConnector, DB!CommitEnsure,
                DB!AcquireTimesOut, DB!streamVars
  <2>2. schema'[s] = schema[s] \/ (schema[s] = "none" /\ schema'[s] = DB!NoSchema)
    BY <1>2 DEF DB!EnsureStep, DB!BeginEnsure, DB!WriteJob, DB!EnsureConnector, DB!CommitEnsure,
                DB!AcquireTimesOut, DB!WithStream
  <2> QED BY <2>1, <2>2
<1>3. ASSUME NEW w \in StreamWriters, DB!InsertStream(w) PROVE Settled(s, a)'
  BY <1>3 DEF DB!InsertStream
<1>4. ASSUME NEW w \in StreamWriters, DB!ReadStream(w) PROVE Settled(s, a)'
  BY <1>4 DEF DB!ReadStream
<1>5. ASSUME NEW w \in StreamWriters, DB!UpdateSchema(w) PROVE Settled(s, a)'
  BY <1>5 DEF DB!UpdateSchema
<1>6. ASSUME NEW w \in StreamWriters, DB!LookUp(w) PROVE Settled(s, a)'
  BY <1>6 DEF DB!LookUp
<1>7. ASSUME NEW w \in StreamWriters, NEW of \in DB!Shapes, DB!Pub(w, of) PROVE Settled(s, a)'
  BY <1>7 DEF DB!Pub
<1>8. ASSUME NEW t \in Streams, DB!LookedUp(t) PROVE Settled(s, a)'
  BY <1>8 DEF DB!LookedUp
<1>9. ASSUME NEW t \in Streams, DB!Evict(t) PROVE Settled(s, a)'
  BY <1>9 DEF DB!Evict
<1> QED BY <1>1, <1>2, <1>3, <1>4, <1>5, <1>6, <1>7, <1>8, <1>9 DEF DB!Next

\* A stream carries only data of the schema its writers declare, if they declare
\* one and the same, however many writers and whatever made its record first
\* (VaultDB, stream/service.ts).
THEOREM SchemasAreEnforced ==
  ASSUME DB!DBAssumption PROVE DB!Spec => []DeclaredSchemaHolds
<1>1. DB!Init => SchemaInv
  BY SchemaInitially
<1>2. SchemaInv /\ [DB!Next]_(DB!vars) => SchemaInv'
  BY SchemaTypesKept, SettledStays DEF SchemaInv, Declared
<1>3. SchemaInv => DeclaredSchemaHolds
  BY DEF SchemaInv, Declared, Settled, DeclaredSchemaHolds, DB!DeclaredSchemaHolds, DB!Shapes
<1> QED BY <1>1, <1>2, <1>3, PTL DEF DB!Spec

-----------------------------------------------------------------------------
(* The wire format: what decode makes of what encode wrote.                  *)

\* Induction over the natural numbers, for a set: a least number outside of it
\* would have a predecessor in it.
LEMMA NatSetInduction ==
  ASSUME NEW A, 0 \in A, \A n \in Nat : n \in A => n + 1 \in A
  PROVE  \A n \in Nat : n \in A
<1> DEFINE R == OpToRel(<, Nat)
           B == {n \in Nat : n \notin A}
<1> SUFFICES ASSUME B # {} PROVE FALSE
  OBVIOUS
<1>1. IsWellFoundedOn(R, Nat) /\ B \subseteq Nat
  BY NatLessThanWellFounded
<1>2. PICK x \in B : \A y \in B : ~ (<<y, x>> \in R)
  <2> HIDE DEF B, R
  <2> QED BY <1>1, WFMin
<1>3. x \in Nat /\ x # 0 /\ x - 1 \in Nat /\ (x - 1) + 1 = x
  OBVIOUS
<1>4. x - 1 \notin A
  BY <1>3
<1>5. R = {p \in Nat \X Nat : p[1] < p[2]}
  BY Zenon DEF OpToRel
<1>6. <<x - 1, x>> \in R
  <2> HIDE DEF R
  <2> QED BY <1>3, <1>5
<1> QED BY <1>2, <1>3, <1>4, <1>6

\* WrittenUpTo and ReadUpTo are what they are defined as, by induction.
LEMMA FieldsWritten ==
  ASSUME NEW fields, NEW m, Len(fields) \in Nat
  PROVE  /\ WrittenUpTo(fields, m)[0] = << >>
         /\ \A i \in 1 .. Len(fields) :
              WrittenUpTo(fields, m)[i]
                = WrittenUpTo(fields, m)[i - 1] \o EncodeField(fields[i], m[fields[i].name])
<1> DEFINE n == Len(fields)
           op(w, i) == w \o EncodeField(fields[i], m[fields[i].name])
           G(w, k) == [i \in 0 .. k |-> IF i = 0 THEN << >> ELSE op(w[i - 1], i)]
           A == {k \in Nat : \E w : w = G(w, k)}
           h == CHOOSE w : w = G(w, n)
<1>1. WrittenUpTo(fields, m) = h
  BY DEF WrittenUpTo
<1>0. n \in Nat
  OBVIOUS
<1> HIDE DEF n, op
<1>2. 0 \in A
  <2> DEFINE w == [i \in 0 .. 0 |-> << >>]
  <2>1. w = G(w, 0)
    OBVIOUS
  <2> QED BY <2>1
<1>3. ASSUME NEW k \in Nat, k \in A PROVE k + 1 \in A
  <2>1. PICK w : w = G(w, k)
    BY <1>3
  <2> DEFINE e == [i \in 0 .. k + 1 |-> IF i = k + 1 THEN op(w[k], k + 1) ELSE w[i]]
  <2>2. \A i \in 0 .. k : e[i] = w[i] /\ w[i] = IF i = 0 THEN << >> ELSE op(w[i - 1], i)
    BY <2>1
  <2>3. \A i \in 0 .. k + 1 : e[i] = IF i = 0 THEN << >> ELSE op(e[i - 1], i)
    <3> TAKE i \in 0 .. k + 1
    <3>1. CASE i = 0
      <4>1. 0 \in 0 .. k /\ i # k + 1
        BY <3>1
      <4> HIDE DEF e
      <4> QED BY <2>2, <3>1, <4>1
    <3>2. CASE i # 0 /\ i # k + 1
      <4>1. i \in 0 .. k /\ i - 1 \in 0 .. k
        BY <3>2
      <4> HIDE DEF e
      <4> QED BY <2>2, <3>2, <4>1
    <3>3. CASE i = k + 1
      <4>1. i - 1 = k /\ k \in 0 .. k /\ i # 0
        BY <3>3
      <4>2. e[i] = op(w[k], i)
        BY <3>3
      <4> HIDE DEF e
      <4> QED BY <2>2, <4>1, <4>2
    <3> QED BY <3>1, <3>2, <3>3
  <2>4. DOMAIN e = 0 .. k + 1 /\ e = [i \in 0 .. k + 1 |-> e[i]]
    OBVIOUS
  <2> HIDE DEF e
  <2>5. e = G(e, k + 1)
    BY <2>3, <2>4
  <2> QED BY <2>5
<1>4. n \in A
  <2> HIDE DEF A
  <2> QED BY <1>0, <1>2, <1>3, NatSetInduction
<1>5. h = G(h, n)
  BY <1>4
<1> HIDE DEF h
<1>6. h[0] = << >> /\ \A i \in 1 .. n : h[i] = op(h[i - 1], i)
  <2>1. \A i \in 0 .. n : h[i] = IF i = 0 THEN << >> ELSE op(h[i - 1], i)
    BY <1>5
  <2>2. 0 \in 0 .. n /\ \A i \in 1 .. n : i \in 0 .. n /\ i # 0
    BY <1>0
  <2> QED BY <2>1, <2>2
<1> QED BY <1>1, <1>6 DEF n, op

LEMMA FieldsRead ==
  ASSUME NEW all, NEW known, NEW ws, Len(ws) \in Nat
  PROVE  /\ ReadUpTo(all, known, ws)[0] = Create(all)
         /\ \A i \in 1 .. Len(ws) :
              ReadUpTo(all, known, ws)[i] = ReadField(ReadUpTo(all, known, ws)[i - 1], known, ws[i])
<1> DEFINE n == Len(ws)
           base == Create(all)
           op(w, i) == ReadField(w, known, ws[i])
           G(w, k) == [i \in 0 .. k |-> IF i = 0 THEN base ELSE op(w[i - 1], i)]
           A == {k \in Nat : \E w : w = G(w, k)}
           h == CHOOSE w : w = G(w, n)
<1>1. ReadUpTo(all, known, ws) = h
  BY DEF ReadUpTo
<1>0. n \in Nat
  OBVIOUS
<1> HIDE DEF n, op, base
<1>2. 0 \in A
  <2> DEFINE w == [i \in 0 .. 0 |-> base]
  <2>1. w = G(w, 0)
    OBVIOUS
  <2> QED BY <2>1
<1>3. ASSUME NEW k \in Nat, k \in A PROVE k + 1 \in A
  <2>1. PICK w : w = G(w, k)
    BY <1>3
  <2> DEFINE e == [i \in 0 .. k + 1 |-> IF i = k + 1 THEN op(w[k], k + 1) ELSE w[i]]
  <2>2. \A i \in 0 .. k : e[i] = w[i] /\ w[i] = IF i = 0 THEN base ELSE op(w[i - 1], i)
    BY <2>1
  <2>3. \A i \in 0 .. k + 1 : e[i] = IF i = 0 THEN base ELSE op(e[i - 1], i)
    <3> TAKE i \in 0 .. k + 1
    <3>1. CASE i = 0
      <4>1. 0 \in 0 .. k /\ i # k + 1
        BY <3>1
      <4> HIDE DEF e
      <4> QED BY <2>2, <3>1, <4>1
    <3>2. CASE i # 0 /\ i # k + 1
      <4>1. i \in 0 .. k /\ i - 1 \in 0 .. k
        BY <3>2
      <4> HIDE DEF e
      <4> QED BY <2>2, <3>2, <4>1
    <3>3. CASE i = k + 1
      <4>1. i - 1 = k /\ k \in 0 .. k /\ i # 0
        BY <3>3
      <4>2. e[i] = op(w[k], i)
        BY <3>3
      <4> HIDE DEF e
      <4> QED BY <2>2, <4>1, <4>2
    <3> QED BY <3>1, <3>2, <3>3
  <2>4. DOMAIN e = 0 .. k + 1 /\ e = [i \in 0 .. k + 1 |-> e[i]]
    OBVIOUS
  <2> HIDE DEF e
  <2>5. e = G(e, k + 1)
    BY <2>3, <2>4
  <2> QED BY <2>5
<1>4. n \in A
  <2> HIDE DEF A
  <2> QED BY <1>0, <1>2, <1>3, NatSetInduction
<1>5. h = G(h, n)
  BY <1>4
<1> HIDE DEF h
<1>6. h[0] = base /\ \A i \in 1 .. n : h[i] = op(h[i - 1], i)
  <2>1. \A i \in 0 .. n : h[i] = IF i = 0 THEN base ELSE op(h[i - 1], i)
    BY <1>5
  <2>2. 0 \in 0 .. n /\ \A i \in 1 .. n : i \in 0 .. n /\ i # 0
    BY <1>0
  <2> QED BY <2>1, <2>2
<1> QED BY <1>1, <1>6 DEF n, op, base

\* What is read of the field f after the first k of its occurrences.
ReadOf(f, v, k) ==
  CASE f.rule \in {"plain", "optional"} -> IF k = 0 THEN Base(f) ELSE v
    [] f.rule = "repeated" -> SubSeq(v, 1, k)
    [] f.rule = "map" -> [x \in {Entries(v)[i].key : i \in 1 .. k} |-> v[x]]

\* The entries that are written for a map: one for each key.
LEMMA EntriesOfMap ==
  ASSUME NEW v, IsFiniteSet(DOMAIN v), \A k \in DOMAIN v : v[k] # Undefined
  PROVE  /\ Len(Entries(v)) \in Nat
         /\ Entries(v) \in Seq(ToSet(Entries(v)))
         /\ \A i \in 1 .. Len(Entries(v)) :
              /\ Entries(v)[i].key \in DOMAIN v
              /\ Entries(v)[i].value = v[Entries(v)[i].key]
         /\ {Entries(v)[i].key : i \in 1 .. Len(Entries(v))} = DOMAIN v
<1> DEFINE S == {k \in DOMAIN v : v[k] # Undefined}
           c == Cardinality(S)
           keys == SetToSeq(S)
           es == [i \in DOMAIN keys |-> [key |-> keys[i], value |-> v[keys[i]]]]
<1>1. S = DOMAIN v /\ IsFiniteSet(S)
  OBVIOUS
<1>0. es = Entries(v)
  BY DEF Entries
<1> HIDE DEF S
<1>2. c \in Nat /\ Bijection(1 .. c, S) # {}
  BY <1>1, FS_CardinalityType DEF ExistsBijection
<1>3. \E f \in [1 .. c -> S] : IsInjective(f)
  BY <1>2 DEF Bijection, Injection
<1>4. keys \in Injection(1 .. c, S)
  BY <1>3 DEF SetToSeq, Injection
<1>5. Cardinality(1 .. c) = c
  <2>1. c = 0 \/ 1 <= c
    BY <1>2
  <2> QED BY <1>2, <2>1, FS_Interval
<1>6. keys \in Surjection(1 .. c, S)
  <2> HIDE DEF keys
  <2> QED BY <1>1, <1>4, <1>5, FS_Injection
<1>7. /\ keys \in [1 .. c -> S]
      /\ \A x \in S : \E i \in 1 .. c : keys[i] = x
  BY <1>6 DEF Surjection
<1> HIDE DEF keys, c
<1>8. /\ es = [i \in 1 .. c |-> [key |-> keys[i], value |-> v[keys[i]]]]
      /\ DOMAIN es = 1 .. c
  BY <1>7
<1>9. /\ \A i \in 1 .. c : es[i].key = keys[i] /\ es[i].value = v[keys[i]]
      /\ es \in [1 .. c -> ToSet(es)]
  BY <1>8 DEF ToSet
<1> HIDE DEF es
<1>10. es \in Seq(ToSet(es)) /\ Len(es) = c
  BY <1>2, <1>8, <1>9, LenProperties
<1>11. \A i \in 1 .. Len(es) : es[i].key \in DOMAIN v /\ es[i].value = v[es[i].key]
  BY <1>1, <1>7, <1>9, <1>10
<1>12. {es[i].key : i \in 1 .. Len(es)} = DOMAIN v
  <2>1. \A x \in DOMAIN v : \E i \in 1 .. c : es[i].key = x
    BY <1>1, <1>7, <1>9
  <2>2. {es[i].key : i \in 1 .. c} \subseteq DOMAIN v
    BY <1>10, <1>11
  <2>3. DOMAIN v \subseteq {es[i].key : i \in 1 .. c}
    BY <2>1
  <2> QED BY <1>10, <2>2, <2>3
<1> QED BY <1>0, <1>2, <1>10, <1>11, <1>12

\* Reading what was written for a field, one occurrence after the other.
LEMMA OccurrencesRead ==
  ASSUME NEW f, NEW v, Regular(f, v)
  PROVE  /\ Len(Filled(f, v)) \in Nat
         /\ Filled(f, v) \in Seq(ToSet(Filled(f, v)))
         /\ ReadOf(f, v, 0) = Base(f)
         /\ \A k \in 1 .. Len(Filled(f, v)) :
              Stored(f, ReadOf(f, v, k - 1), Filled(f, v)[k]) = ReadOf(f, v, k)
         /\ ReadOf(f, v, Len(Filled(f, v))) = v
<1>1. CASE f.rule \in {"plain", "optional"}
  <2>1. \/ Filled(f, v) = << >> /\ v = Base(f)
        \/ Filled(f, v) = <<v>>
    BY <1>1 DEF Filled, Base
  <2>2. \A k : ReadOf(f, v, k) = IF k = 0 THEN Base(f) ELSE v
    BY <1>1 DEF ReadOf
  <2>3. \A old, r : Stored(f, old, r) = r
    BY <1>1 DEF Stored
  <2>4. CASE Filled(f, v) = << >> /\ v = Base(f)
    BY <2>2, <2>4
  <2>5. CASE Filled(f, v) = <<v>>
    <3>1. <<v>> \in Seq({v}) /\ ToSet(<<v>>) = {v} /\ Len(<<v>>) = 1 /\ <<v>>[1] = v
      BY DEF ToSet
    <3> QED BY <2>2, <2>3, <2>5, <3>1
  <2> QED BY <2>1, <2>4, <2>5
<1>2. CASE f.rule = "repeated"
  <2>1. Filled(f, v) = v /\ v \in Seq(ToSet(v)) /\ Base(f) = << >>
    BY <1>2 DEF Filled, Regular, Base
  <2>2. \A k : ReadOf(f, v, k) = SubSeq(v, 1, k)
    BY <1>2 DEF ReadOf
  <2>3. \A old, r : Stored(f, old, r) = Append(old, r)
    BY <1>2 DEF Stored
  <2> DEFINE T == ToSet(v)
  <2> HIDE DEF T
  <2>4. v \in Seq(T)
    BY <2>1 DEF T
  <2>5. SubSeq(v, 1, 0) = << >> /\ SubSeq(v, 1, Len(v)) = v /\ Len(v) \in Nat
    BY <2>4, SubSeqEmpty, SubSeqFull, LenProperties
  <2>6. ASSUME NEW k \in 1 .. Len(v)
        PROVE  Append(SubSeq(v, 1, k - 1), v[k]) = SubSeq(v, 1, k)
    BY <2>4, <2>5, SubSeqRecursiveSecond
  <2> QED BY <2>1, <2>2, <2>3, <2>5, <2>6
<1>3. CASE f.rule = "map"
  <2>1. /\ Filled(f, v) = Entries(v) /\ Base(f) = << >>
        /\ v = [k \in DOMAIN v |-> v[k]]
        /\ IsFiniteSet(DOMAIN v)
        /\ \A k \in DOMAIN v : v[k] # Undefined
    BY <1>3 DEF Filled, Regular, Base
  <2>2. \A k : ReadOf(f, v, k) = [x \in {Entries(v)[i].key : i \in 1 .. k} |-> v[x]]
    BY <1>3 DEF ReadOf
  <2>3. \A old, r : Stored(f, old, r) = IF r.value = Undefined THEN old ELSE Put(old, r.key, r.value)
    BY <1>3 DEF Stored
  <2>4. /\ Len(Entries(v)) \in Nat
        /\ Entries(v) \in Seq(ToSet(Entries(v)))
        /\ \A i \in 1 .. Len(Entries(v)) :
             /\ Entries(v)[i].key \in DOMAIN v
             /\ Entries(v)[i].value = v[Entries(v)[i].key]
        /\ {Entries(v)[i].key : i \in 1 .. Len(Entries(v))} = DOMAIN v
    BY <2>1, EntriesOfMap
  <2>5. [x \in {Entries(v)[i].key : i \in 1 .. 0} |-> v[x]] = << >>
    <3>1. {Entries(v)[i].key : i \in 1 .. 0} = {}
      OBVIOUS
    <3>2. [x \in {} |-> v[x]] = << >>
      OBVIOUS
    <3> QED BY <3>1, <3>2
  <2>6. [x \in {Entries(v)[i].key : i \in 1 .. Len(Entries(v))} |-> v[x]] = v
    BY <2>1, <2>4
  <2>7. ASSUME NEW k \in 1 .. Len(Entries(v))
        PROVE  Stored(f, ReadOf(f, v, k - 1), Entries(v)[k]) = ReadOf(f, v, k)
    <3> DEFINE es == Entries(v)
               K(n) == {es[i].key : i \in 1 .. n}
               old == [x \in K(k - 1) |-> v[x]]
    <3>1. es[k].key \in DOMAIN v /\ es[k].value = v[es[k].key] /\ es[k].value # Undefined
      BY <2>1, <2>4
    <3>2. K(k) = K(k - 1) \union {es[k].key}
      <4>1. k \in Nat /\ 1 <= k
        BY <2>4
      <4>2. 1 .. k = (1 .. k - 1) \union {k}
        BY <4>1
      <4> HIDE DEF es
      <4> QED BY <4>2
    <3>3. Stored(f, old, es[k]) = Put(old, es[k].key, es[k].value)
      BY <2>3, <3>1
    <3> HIDE DEF es, K
    <3>4. Put(old, es[k].key, es[k].value) = [x \in K(k) |-> v[x]]
      BY <3>1, <3>2 DEF Put
    <3> QED BY <2>2, <3>3, <3>4 DEF es, K
  <2> QED BY <2>1, <2>2, <2>4, <2>5, <2>6, <2>7
<1> QED BY <1>1, <1>2, <1>3 DEF Regular

\* The occurrences of field i are written behind those of the fields before it.
Placed(fields, m, i) ==
  LET before == Len(WrittenUpTo(fields, m)[i - 1])
      filled == Filled(fields[i], m[fields[i].name])
  IN  /\ Len(filled) \in Nat
      /\ Len(WrittenUpTo(fields, m)[i]) = before + Len(filled)
      /\ before + Len(filled) <= Len(WrittenFields(fields, m))
      /\ \A k \in 1 .. Len(filled) :
           WrittenFields(fields, m)[before + k] = [field |-> fields[i], val |-> filled[k]]

\* What is written for some field of a message.
Occurrences(fields, m) ==
  UNION {ToSet(EncodeField(fields[i], m[fields[i].name])) : i \in 1 .. Len(fields)}

\* The fields of a message are written one after the other: where the
\* occurrences of each are.
LEMMA WrittenInOrder ==
  ASSUME NEW fields, NEW m, Len(fields) \in Nat,
         \A i \in 1 .. Len(fields) : Regular(fields[i], m[fields[i].name])
  PROVE  /\ \A i \in 0 .. Len(fields) : Len(WrittenUpTo(fields, m)[i]) \in Nat
         /\ Len(WrittenUpTo(fields, m)[0]) = 0
         /\ \A i \in 1 .. Len(fields) : Placed(fields, m, i)
         /\ WrittenFields(fields, m) \in Seq(Occurrences(fields, m))
<1> DEFINE n == Len(fields)
           W == WrittenUpTo(fields, m)
           X(i) == Filled(fields[i], m[fields[i].name])
           E(i) == EncodeField(fields[i], m[fields[i].name])
           T == UNION {ToSet(E(i)) : i \in 1 .. n}
<1>1. n \in Nat
  OBVIOUS
<1>2. ASSUME NEW i \in 1 .. n
      PROVE  /\ Len(X(i)) \in Nat /\ Len(E(i)) = Len(X(i)) /\ E(i) \in Seq(T)
             /\ \A k \in 1 .. Len(X(i)) : E(i)[k] = [field |-> fields[i], val |-> X(i)[k]]
  <2> DEFINE x == X(i)
             e == [k \in DOMAIN x |-> [field |-> fields[i], val |-> x[k]]]
  <2>1. x \in Seq(ToSet(x)) /\ Len(x) \in Nat
    BY OccurrencesRead
  <2>2. DOMAIN x = 1 .. Len(x)
    <3> HIDE DEF x
    <3> QED BY <2>1, LenProperties
  <2>3. e = E(i)
    BY DEF EncodeField
  <2> HIDE DEF x
  <2>4. /\ DOMAIN e = 1 .. Len(x)
        /\ \A k \in 1 .. Len(x) : e[k] = [field |-> fields[i], val |-> x[k]]
        /\ e = [k \in 1 .. Len(x) |-> e[k]]
    BY <2>2
  <2> HIDE DEF e
  <2>5. \A k \in 1 .. Len(x) : e[k] \in T
    <3>1. \A k \in 1 .. Len(x) : e[k] \in ToSet(e)
      BY <2>4 DEF ToSet
    <3>2. ToSet(E(i)) \subseteq T
      OBVIOUS
    <3> QED BY <2>3, <3>1, <3>2
  <2> HIDE DEF T
  <2>6. e \in Seq(T) /\ Len(e) = Len(x)
    BY <2>1, <2>4, <2>5, LenProperties
  <2> HIDE DEF E, X
  <2> QED BY <2>1, <2>3, <2>4, <2>6 DEF x
<1>3. W[0] = << >> /\ \A i \in 1 .. n : W[i] = W[i - 1] \o E(i)
  BY <1>1, FieldsWritten
<1>4. WrittenFields(fields, m) = W[n]
  BY DEF WrittenFields
<1> HIDE DEF n, W, X, E, T
<1> DEFINE A == {i \in Nat : i <= n => W[i] \in Seq(T)}
<1>5. \A i \in 0 .. n : W[i] \in Seq(T)
  <2>1. 0 \in A
    <3>1. << >> \in Seq(T)
      OBVIOUS
    <3> QED BY <1>3, <3>1
  <2>2. ASSUME NEW i \in Nat, i \in A PROVE i + 1 \in A
    <3>1. SUFFICES ASSUME i + 1 <= n PROVE W[i + 1] \in Seq(T)
      OBVIOUS
    <3>2. i + 1 \in 1 .. n /\ (i + 1) - 1 = i /\ W[i] \in Seq(T)
      BY <1>1, <2>2, <3>1
    <3>3. W[i + 1] = W[i] \o E(i + 1) /\ E(i + 1) \in Seq(T)
      BY <1>2, <1>3, <3>2
    <3> QED BY <3>2, <3>3, ConcatProperties
  <2> HIDE DEF A
  <2>3. \A i \in Nat : i \in A
    BY <2>1, <2>2, NatSetInduction
  <2> QED BY <1>1, <2>3 DEF A
<1>6. \A i \in 0 .. n : Len(W[i]) \in Nat
  BY <1>5, LenProperties
<1>7. ASSUME NEW i \in 1 .. n
      PROVE  /\ Len(W[i]) = Len(W[i - 1]) + Len(X(i))
             /\ \A k \in 1 .. Len(W[i - 1]) : W[i][k] = W[i - 1][k]
             /\ \A k \in 1 .. Len(X(i)) :
                  W[i][Len(W[i - 1]) + k] = [field |-> fields[i], val |-> X(i)[k]]
  <2>1. i - 1 \in 0 .. n
    BY <1>1
  <2>2. W[i] = W[i - 1] \o E(i) /\ W[i - 1] \in Seq(T) /\ E(i) \in Seq(T)
    BY <1>2, <1>3, <1>5, <2>1
  <2> DEFINE a == W[i - 1]
             b == E(i)
  <2>3. a \in Seq(T) /\ b \in Seq(T) /\ Len(b) = Len(X(i)) /\ W[i] = a \o b
    BY <1>2, <2>2
  <2>4. Len(a) \in Nat /\ Len(b) \in Nat
    BY <1>2, <1>6, <2>1, <2>3
  <2>5. \A k \in 1 .. Len(b) : b[k] = [field |-> fields[i], val |-> X(i)[k]]
    BY <1>2, <2>3
  <2> HIDE DEF a, b
  <2>6. /\ Len(a \o b) = Len(a) + Len(b)
        /\ \A k \in 1 .. Len(a) + Len(b) :
             (a \o b)[k] = IF k <= Len(a) THEN a[k] ELSE b[k - Len(a)]
    BY <2>3, ConcatProperties
  <2>7. /\ \A k \in 1 .. Len(a) : (a \o b)[k] = a[k]
        /\ \A k \in 1 .. Len(b) : (a \o b)[Len(a) + k] = b[k]
    <3>1. \A k \in 1 .. Len(a) : k \in 1 .. Len(a) + Len(b) /\ k <= Len(a)
      BY <2>4
    <3>2. \A k \in 1 .. Len(b) : /\ Len(a) + k \in 1 .. Len(a) + Len(b)
                                 /\ ~(Len(a) + k <= Len(a))
                                 /\ Len(a) + k - Len(a) = k
      BY <2>4
    <3> QED BY <2>6, <3>1, <3>2
  <2> QED BY <2>3, <2>5, <2>6, <2>7 DEF a
<1> DEFINE B == {j \in Nat : j <= n =>
                   \A i \in 0 .. j : /\ Len(W[i]) <= Len(W[j])
                                     /\ \A k \in 1 .. Len(W[i]) : W[j][k] = W[i][k]}
<1>8. \A i \in 0 .. n : /\ Len(W[i]) <= Len(W[n])
                        /\ \A k \in 1 .. Len(W[i]) : W[n][k] = W[i][k]
  <2>1. 0 \in B
    <3>1. 0 \in 0 .. n /\ \A i \in 0 .. 0 : i = 0
      BY <1>1
    <3> QED BY <1>6, <3>1
  <2>2. ASSUME NEW j \in Nat, j \in B PROVE j + 1 \in B
    <3>1. SUFFICES ASSUME j + 1 <= n, NEW i \in 0 .. j + 1
                   PROVE  /\ Len(W[i]) <= Len(W[j + 1])
                          /\ \A k \in 1 .. Len(W[i]) : W[j + 1][k] = W[i][k]
      OBVIOUS
    <3>2. j + 1 \in 1 .. n /\ (j + 1) - 1 = j /\ j \in 0 .. n /\ i \in 0 .. n /\ j + 1 \in 0 .. n
      BY <1>1, <3>1
    <3>3. CASE i = j + 1
      BY <1>6, <3>2, <3>3
    <3>4. CASE i # j + 1
      <4>1. i \in 0 .. j
        BY <3>4
      <4>2. Len(W[i]) <= Len(W[j]) /\ \A k \in 1 .. Len(W[i]) : W[j][k] = W[i][k]
        BY <2>2, <3>2, <4>1
      <4>3. /\ Len(W[j + 1]) = Len(W[j]) + Len(X(j + 1))
            /\ \A k \in 1 .. Len(W[j]) : W[j + 1][k] = W[j][k]
        <5> DEFINE q == j + 1
        <5>1. q \in 1 .. n /\ q - 1 = j
          BY <3>2
        <5> HIDE DEF q
        <5>2. /\ Len(W[q]) = Len(W[q - 1]) + Len(X(q))
              /\ \A k \in 1 .. Len(W[q - 1]) : W[q][k] = W[q - 1][k]
          BY <1>7, <5>1
        <5> QED BY <5>1, <5>2 DEF q
      <4>4. Len(X(j + 1)) \in Nat /\ Len(W[j]) \in Nat /\ Len(W[i]) \in Nat
        BY <1>2, <1>6, <3>2
      <4>5. \A k \in 1 .. Len(W[i]) : k \in 1 .. Len(W[j])
        BY <4>2, <4>4
      <4>6. Len(W[i]) <= Len(W[j + 1])
        <5> DEFINE a == Len(W[i])
                   b == Len(W[j])
                   c == Len(W[j + 1])
                   x == Len(X(j + 1))
        <5>1. a \in Nat /\ b \in Nat /\ x \in Nat /\ c = b + x /\ a <= b
          BY <4>2, <4>3, <4>4
        <5> HIDE DEF a, b, c, x
        <5>2. a <= c
          BY <5>1
        <5> QED BY <5>2 DEF a, c
      <4> QED BY <4>2, <4>3, <4>5, <4>6
    <3> QED BY <3>3, <3>4
  <2> HIDE DEF B
  <2>3. \A j \in Nat : j \in B
    BY <2>1, <2>2, NatSetInduction
  <2> QED BY <1>1, <2>3 DEF B
<1>9. ASSUME NEW i \in 1 .. n
      PROVE  /\ Len(X(i)) \in Nat
             /\ Len(W[i]) = Len(W[i - 1]) + Len(X(i))
             /\ Len(W[i - 1]) + Len(X(i)) <= Len(W[n])
             /\ \A k \in 1 .. Len(X(i)) :
                  W[n][Len(W[i - 1]) + k] = [field |-> fields[i], val |-> X(i)[k]]
  <2>1. i \in 0 .. n /\ i - 1 \in 0 .. n
    BY <1>1
  <2>2. Len(W[i - 1]) \in Nat /\ Len(X(i)) \in Nat /\ Len(W[i]) = Len(W[i - 1]) + Len(X(i))
    BY <1>2, <1>6, <1>7, <2>1
  <2>3. \A k \in 1 .. Len(X(i)) : Len(W[i - 1]) + k \in 1 .. Len(W[i])
    BY <2>2
  <2> QED BY <1>7, <1>8, <2>1, <2>2, <2>3
<1>10. Len(W[0]) = 0
  BY <1>3
<1>11. \A i \in 1 .. n : Placed(fields, m, i)
  BY <1>4, <1>9 DEF Placed, W, X
<1>12. WrittenFields(fields, m) \in Seq(Occurrences(fields, m))
  <2>1. n \in 0 .. n /\ T = Occurrences(fields, m)
    BY <1>1 DEF n, T, E, Occurrences
  <2> QED BY <1>4, <1>5, <2>1
<1> QED BY <1>6, <1>10, <1>11, <1>12 DEF n, W

\* What is on the wire next is an occurrence of field i.
Occurs(fields, known, i, r, w) ==
  /\ Len(fields) \in Nat /\ DOMAIN fields = 1 .. Len(fields) /\ WellNumbered(fields)
  /\ known \subseteq ToSet(fields) /\ i \in 1 .. Len(fields)
  /\ DOMAIN r = Names(ToSet(fields))
  /\ w.no = fields[i].no /\ w.wire = WireType(fields[i])

\* One field is read: the field that was written, if the reader knows it.
LEMMA FieldRead ==
  ASSUME NEW fields, NEW known, NEW i, NEW r, NEW w, Occurs(fields, known, i, r, w)
  PROVE  /\ DOMAIN ReadField(r, known, w) = Names(ToSet(fields))
         /\ \A j \in 1 .. Len(fields) :
              ReadField(r, known, w)[fields[j].name]
                = IF j = i /\ fields[j] \in known
                  THEN Stored(fields[i], r[fields[i].name], w.val)
                  ELSE r[fields[j].name]
<1> USE DEF Occurs
<1>1. \A g \in ToSet(fields) : \E j \in 1 .. Len(fields) : g = fields[j]
  BY DEF ToSet
<1>2. \A j \in 1 .. Len(fields) :
        fields[j].name = fields[i].name \/ fields[j].no = fields[i].no => j = i
  BY DEF WellNumbered
<1>3. \A j \in 1 .. Len(fields) : fields[j].name \in DOMAIN r
  BY DEF ToSet, Names
<1>4. Known(known, w) = IF fields[i] \in known THEN {fields[i]} ELSE {}
  BY <1>1, <1>2 DEF Known
<1>5. CASE fields[i] \in known
  <2>1. FieldOf(known, w) = fields[i] /\ Known(known, w) # {}
    BY <1>4, <1>5 DEF FieldOf
  <2>2. ReadField(r, known, w)
          = [r EXCEPT ![fields[i].name] = Stored(fields[i], r[fields[i].name], w.val)]
    BY <2>1 DEF ReadField
  <2> QED BY <1>2, <1>3, <1>5, <2>2
<1>6. CASE fields[i] \notin known
  <2>1. ReadField(r, known, w) = r
    BY <1>4, <1>6 DEF ReadField
  <2> QED BY <1>6, <2>1
<1> QED BY <1>5, <1>6

\* What has come over the wire is what was written: the reader is given the
\* number and wire type of each field, and the values of those it knows.
Carries(ws, es, known) ==
  /\ Len(ws) = Len(es)
  /\ \A k \in 1 .. Len(es) :
       /\ ws[k].no = es[k].field.no /\ ws[k].wire = WireType(es[k].field)
       /\ es[k].field \in known => ws[k].val = es[k].val

\* Whatever the fields of a message are, a reader that is given the values it
\* knows on the wire ends with the message: each field it knows as it was
\* written, an optional zero or an empty array included, each field it does not
\* know as in a new message, and no field disturbed by one it skipped.
THEOREM FieldsComeBack ==
  ASSUME NEW fields, fields \in Seq(ToSet(fields)), WellNumbered(fields),
         NEW m, \A f \in ToSet(fields) : Regular(f, m[f.name]),
         NEW known, known \subseteq ToSet(fields),
         NEW ws, Carries(ws, WrittenFields(fields, m), known)
  PROVE  \A f \in ToSet(fields) :
           ReadFields(ToSet(fields), known, ws)[f.name] = IF f \in known THEN m[f.name] ELSE Base(f)
<1> DEFINE n == Len(fields)
           all == ToSet(fields)
           W == WrittenUpTo(fields, m)
           es == WrittenFields(fields, m)
           X(i) == Filled(fields[i], m[fields[i].name])
           R == ReadUpTo(all, known, ws)
           V(j) == m[fields[j].name]
           \* After k occurrences of field i, all those before it read.
           At(j, i, k) == IF fields[j] \notin known \/ i < j THEN Base(fields[j])
                          ELSE IF j < i THEN V(j) ELSE ReadOf(fields[i], V(i), k)
           Holds(p, i, k) == /\ DOMAIN R[p] = Names(all)
                             /\ \A j \in 1 .. n : R[p][fields[j].name] = At(j, i, k)
<1>1. n \in Nat /\ DOMAIN fields = 1 .. n
  <2> DEFINE S == ToSet(fields)
  <2>1. fields \in Seq(S)
    OBVIOUS
  <2> HIDE DEF S
  <2> QED BY <2>1, LenProperties
<1>2. /\ \A i \in 1 .. n : fields[i] \in all /\ Regular(fields[i], V(i))
      /\ \A f \in all : \E i \in 1 .. n : f = fields[i]
  BY <1>1 DEF ToSet
<1>3. /\ \A i \in 0 .. n : Len(W[i]) \in Nat
      /\ Len(W[0]) = 0
      /\ \A i \in 1 .. n :
           /\ Len(X(i)) \in Nat
           /\ Len(W[i]) = Len(W[i - 1]) + Len(X(i))
           /\ Len(W[i - 1]) + Len(X(i)) <= Len(es)
           /\ \A k \in 1 .. Len(X(i)) : es[Len(W[i - 1]) + k] = [field |-> fields[i], val |-> X(i)[k]]
  <2>1. \A i \in 1 .. n : Regular(fields[i], V(i))
    BY <1>2
  <2>2. /\ \A i \in 0 .. n : Len(W[i]) \in Nat
        /\ Len(W[0]) = 0
        /\ \A i \in 1 .. n : Placed(fields, m, i)
    BY <1>1, <2>1, WrittenInOrder
  <2>3. ASSUME NEW i \in 1 .. n
        PROVE  /\ Len(X(i)) \in Nat
               /\ Len(W[i]) = Len(W[i - 1]) + Len(X(i))
               /\ Len(W[i - 1]) + Len(X(i)) <= Len(es)
               /\ \A k \in 1 .. Len(X(i)) :
                    es[Len(W[i - 1]) + k] = [field |-> fields[i], val |-> X(i)[k]]
    BY <2>2 DEF Placed
  <2> QED BY <2>2, <2>3
<1>4. es = W[n]
  BY DEF WrittenFields
<1>5. Len(ws) = Len(es) /\ Len(es) \in Nat
  BY <1>1, <1>3, <1>4 DEF Carries
<1>6. R[0] = Create(all) /\ \A p \in 1 .. Len(es) : R[p] = ReadField(R[p - 1], known, ws[p])
  BY <1>5, FieldsRead
<1>7. \A i \in 1 .. n :
        /\ ReadOf(fields[i], V(i), 0) = Base(fields[i])
        /\ \A k \in 1 .. Len(X(i)) :
             Stored(fields[i], ReadOf(fields[i], V(i), k - 1), X(i)[k]) = ReadOf(fields[i], V(i), k)
        /\ ReadOf(fields[i], V(i), Len(X(i))) = V(i)
  BY <1>2, OccurrencesRead
<1>8. Carries(ws, es, known) /\ WellNumbered(fields)
  OBVIOUS
<1>9. ReadFields(all, known, ws) = R[Len(es)]
  BY <1>5 DEF ReadFields
\* A new message.
<1>10. DOMAIN R[0] = Names(all) /\ \A j \in 1 .. n : R[0][fields[j].name] = Base(fields[j])
  <2>1. \A j \in 1 .. n : fields[j].name \in Names(all)
    BY <1>2 DEF Names
  <2>2. ASSUME NEW j \in 1 .. n PROVE Named(all, fields[j].name) = fields[j]
    <3>1. \A f \in all : f.name = fields[j].name => f = fields[j]
      BY <1>1, <1>2, <1>8 DEF WellNumbered
    <3> QED BY <1>2, <3>1 DEF Named
  <2> QED BY <1>6, <2>1, <2>2 DEF Create
<1> HIDE DEF n, all, W, es, X, R, V
\* One occurrence.
<1>11. ASSUME NEW i \in 1 .. n, NEW k \in 1 .. Len(X(i)), Holds(Len(W[i - 1]) + (k - 1), i, k - 1)
       PROVE  Holds(Len(W[i - 1]) + k, i, k)
  <2> DEFINE p == Len(W[i - 1]) + k
             f == fields[i]
  <2>1. /\ Len(W[i - 1]) \in Nat /\ Len(X(i)) \in Nat /\ p \in 1 .. Len(es)
        /\ p - 1 = Len(W[i - 1]) + (k - 1)
    <3>1. i - 1 \in 0 .. n
      BY <1>1
    <3> DEFINE a == Len(W[i - 1])
               b == Len(X(i))
    <3>2. a \in Nat /\ b \in Nat /\ a + b <= Len(es) /\ k \in 1 .. b
      BY <1>3, <3>1
    <3> HIDE DEF a, b
    <3>3. a + k \in 1 .. Len(es) /\ a + k - 1 = a + (k - 1)
      BY <1>5, <3>2
    <3> QED BY <3>2, <3>3 DEF a, b
  <2>2. es[p] = [field |-> f, val |-> X(i)[k]]
    BY <1>3
  <2>3. /\ ws[p].no = f.no /\ ws[p].wire = WireType(f)
        /\ f \in known => ws[p].val = X(i)[k]
    BY <1>8, <2>1, <2>2 DEF Carries
  <2>4. R[p] = ReadField(R[p - 1], known, ws[p]) /\ DOMAIN R[p - 1] = Names(all)
    BY <1>6, <1>11, <2>1
  <2> HIDE DEF p
  <2>5. /\ DOMAIN R[p] = Names(all)
        /\ \A j \in 1 .. n :
             R[p][fields[j].name] = IF j = i /\ fields[j] \in known
                                    THEN Stored(f, R[p - 1][f.name], ws[p].val)
                                    ELSE R[p - 1][fields[j].name]
    <3> DEFINE r == R[p - 1]
               w == ws[p]
    <3>1. Occurs(fields, known, i, r, w)
      BY <1>1, <1>8, <2>3, <2>4 DEF Occurs, n, all
    <3>2. R[p] = ReadField(r, known, w)
      BY <2>4
    <3> HIDE DEF r, w
    <3>3. /\ DOMAIN ReadField(r, known, w) = Names(ToSet(fields))
          /\ \A j \in 1 .. Len(fields) :
               ReadField(r, known, w)[fields[j].name]
                 = IF j = i /\ fields[j] \in known
                   THEN Stored(fields[i], r[fields[i].name], w.val)
                   ELSE r[fields[j].name]
      BY <3>1, FieldRead
    <3> QED BY <3>2, <3>3 DEF n, all, r, w
  <2>6. ASSUME NEW j \in 1 .. n PROVE R[p][fields[j].name] = At(j, i, k)
    <3>1. R[p - 1][fields[j].name] = At(j, i, k - 1) /\ R[p - 1][f.name] = At(i, i, k - 1)
      BY <1>11, <2>1
    <3>2. CASE j = i /\ fields[j] \in known
      <4>1. At(i, i, k - 1) = ReadOf(f, V(i), k - 1) /\ At(j, i, k) = ReadOf(f, V(i), k)
        BY <1>1, <3>2
      <4>2. R[p][fields[j].name] = Stored(f, ReadOf(f, V(i), k - 1), X(i)[k])
        BY <2>3, <2>5, <3>1, <3>2, <4>1
      <4> QED BY <1>7, <4>1, <4>2
    <3>3. CASE ~ (j = i /\ fields[j] \in known)
      <4>1. At(j, i, k) = At(j, i, k - 1)
        BY <1>1, <3>3
      <4> QED BY <2>5, <3>1, <3>3, <4>1
    <3> QED BY <3>2, <3>3
  <2> QED BY <2>5, <2>6 DEF p
\* All occurrences of one field.
<1>12. ASSUME NEW i \in 1 .. n, Holds(Len(W[i - 1]), i, 0)
       PROVE  Holds(Len(W[i]), i, Len(X(i)))
  <2> DEFINE C == {k \in Nat : k <= Len(X(i)) => Holds(Len(W[i - 1]) + k, i, k)}
  <2>1. Len(W[i - 1]) \in Nat /\ Len(X(i)) \in Nat /\ Len(W[i]) = Len(W[i - 1]) + Len(X(i))
    BY <1>1, <1>3
  <2> HIDE DEF Holds
  <2>2. 0 \in C
    <3>1. Len(W[i - 1]) + 0 = Len(W[i - 1])
      BY <2>1
    <3> QED BY <1>12, <3>1
  <2>3. ASSUME NEW k \in Nat, k \in C PROVE k + 1 \in C
    <3>1. SUFFICES ASSUME k + 1 <= Len(X(i)) PROVE Holds(Len(W[i - 1]) + (k + 1), i, k + 1)
      <4>1. k + 1 \in Nat
        OBVIOUS
      <4> QED BY <4>1, Zenon
    <3>2. k + 1 \in 1 .. Len(X(i)) /\ (k + 1) - 1 = k /\ k <= Len(X(i))
      BY <2>1, <3>1
    <3>3. Holds(Len(W[i - 1]) + k, i, k)
      BY <2>3, <3>2
    <3> QED BY <1>11, <3>2, <3>3
  <2> HIDE DEF C
  <2>4. \A k \in Nat : k \in C
    BY <2>2, <2>3, NatSetInduction
  <2> QED BY <2>1, <2>4 DEF C
\* All fields.
<1> DEFINE D == {i \in Nat : i <= n => Holds(Len(W[i]), i + 1, 0)}
<1>13. 0 \in D
  <2>1. \A j \in 1 .. n : At(j, 1, 0) = Base(fields[j])
    BY <1>1, <1>7
  <2> QED BY <1>3, <1>10, <2>1
<1>14. ASSUME NEW i \in Nat, i \in D PROVE i + 1 \in D
  <2>1. SUFFICES ASSUME i + 1 <= n PROVE Holds(Len(W[i + 1]), i + 2, 0)
    OBVIOUS
  <2>2. i + 1 \in 1 .. n /\ (i + 1) - 1 = i /\ i <= n
    BY <1>1, <2>1
  <2>3. Holds(Len(W[i + 1]), i + 1, Len(X(i + 1)))
    <3>1. Holds(Len(W[i]), i + 1, 0)
      BY <1>14, <2>2
    <3> HIDE DEF Holds
    <3> QED BY <1>12, <2>2, <3>1
  <2>4. \A j \in 1 .. n : At(j, i + 1, Len(X(i + 1))) = At(j, i + 2, 0)
    <3> TAKE j \in 1 .. n
    <3>1. CASE fields[j] \notin known
      BY <3>1
    <3>2. CASE fields[j] \in known /\ j <= i
      BY <3>2
    <3>3. CASE fields[j] \in known /\ j = i + 1
      BY <1>7, <2>2, <3>3
    <3>4. CASE fields[j] \in known /\ i + 1 < j
      <4>1. At(j, i + 1, Len(X(i + 1))) = Base(fields[j])
        BY <3>4
      <4>2. At(j, i + 2, 0) = Base(fields[j])
        BY <1>7, <3>4
      <4> QED BY <4>1, <4>2
    <3> QED BY <3>1, <3>2, <3>3, <3>4
  <2> QED BY <2>3, <2>4
<1>15. Holds(Len(W[n]), n + 1, 0)
  <2>1. \A i \in Nat : i \in D
    <3> HIDE DEF D
    <3> QED BY <1>13, <1>14, NatSetInduction
  <2> QED BY <1>1, <2>1
<1>16. ASSUME NEW f \in all
       PROVE  ReadFields(all, known, ws)[f.name] = IF f \in known THEN m[f.name] ELSE Base(f)
  <2>1. PICK j \in 1 .. n : f = fields[j]
    BY <1>2
  <2>2. R[Len(es)][f.name] = At(j, n + 1, 0)
    BY <1>4, <1>15, <2>1
  <2>3. j < n + 1 /\ ~(n + 1 < j)
    BY <1>1
  <2>4. At(j, n + 1, 0) = IF f \in known THEN m[f.name] ELSE Base(f)
    BY <2>1, <2>3 DEF V
  <2> QED BY <1>9, <2>2, <2>4
<1> QED BY <1>16 DEF all

\* Value.unwrap undoes Value.wrap.
LEMMA WrappedComesBack ==
  ASSUME WireAssumption, NEW v, AnyValue(v)
  PROVE  UnwrapValue(WrapValue(v)) = v
<1> DEFINE names == {"null_value", "number_value", "string_value", "bool_value", "struct_value", "list_value"}
           m == WrapValue(v)
           Test(x) == m[x] # Undefined
           I == {i \in 1 .. Len(UnwrapOrder) : Test(UnwrapOrder[i])}
<1>1. DOMAIN m = names
  BY DEF WrapValue, JsTypes
<1>2. CASE v = Undefined
  <2>1. \A n \in DOMAIN m : m[n] = Undefined
    BY <1>2 DEF WrapValue
  <2> QED BY <1>2, <2>1 DEF UnwrapValue
<1>3. CASE v # Undefined
  <2>1. PICK t \in {"null", "number", "string", "boolean", "object", "array"} :
               /\ DOMAIN v = {t} /\ v = [x \in {t} |-> v[t]]
               /\ v[t] # Undefined
               /\ t = "null" => v[t] = Null
    BY <1>3 DEF AnyValue
  <2>2. PICK n \in names : JsTypes[n] = t /\ \A x \in names : JsTypes[x] = t => x = n
    BY DEF JsTypes
  <2>3. m[n] = IF n = "null_value" THEN 0 ELSE v[t]
    BY <1>3, <2>1, <2>2 DEF WrapValue, JsTypes
  <2>4. \A x \in names : x # n => m[x] = Undefined
    BY <1>3, <2>1, <2>2 DEF WrapValue, JsTypes
  <2>5. m[n] # Undefined
    BY <2>1, <2>3 DEF WireAssumption
  <2> HIDE DEF m
  <2>6. PICK i \in 1 .. 6 : UnwrapOrder[i] = n /\ \A j \in 1 .. 6 : UnwrapOrder[j] = n => j = i
    BY DEF UnwrapOrder
  <2>7. Len(UnwrapOrder) = 6 /\ \A j \in 1 .. 6 : UnwrapOrder[j] \in names
    BY DEF UnwrapOrder
  <2>8. SelectInSeq(UnwrapOrder, LAMBDA x : m[x] # Undefined) = i
    <3>1. I = {i}
      BY <2>4, <2>5, <2>6, <2>7
    <3>2. SelectInSeq(UnwrapOrder, LAMBDA x : m[x] # Undefined) = IF I # {} THEN Min(I) ELSE 0
      BY DEF SelectInSeq
    <3> QED BY <3>1, <3>2 DEF Min
  <2>9. UnwrapValue(m) = [y \in {t} |-> IF n = "null_value" THEN Null ELSE m[n]]
    <3>1. ~ \A x \in DOMAIN m : m[x] = Undefined
      BY <1>1, <2>5
    <3> QED BY <2>2, <2>6, <2>8, <3>1 DEF UnwrapValue
  <2>10. (IF n = "null_value" THEN Null ELSE m[n]) = v[t]
    BY <2>1, <2>2, <2>3 DEF JsTypes
  <2> QED BY <2>1, <2>9, <2>10 DEF m
<1> QED BY <1>2, <1>3

\* fromTimestamp undoes toTimestamp.
LEMMA TimeComesBack ==
  ASSUME WireAssumption, NEW d \in Int
  PROVE  FromTimestamp(ToTimestamp(d)) = d
<1>1. Second \in Nat \ {0}
  BY DEF WireAssumption
<1>2. (d \div Second) * Second + (d % Second) = d
  BY <1>1
<1> QED BY <1>2 DEF FromTimestamp, ToTimestamp

\* A value that is held as a message of google/protobuf is what is taken out of
\* it, and a number within its width, or that JavaScript represents exactly,
\* comes back as it is.
THEOREM ValuesComeBack ==
  ASSUME WireAssumption, NEW kind, NEW v, Representable(kind, v)
  PROVE  /\ IsMessage(kind) => FromInner(kind, ToInner(kind, v)) = v
         /\ kind = "int32" => Int32(v) = v
         /\ kind \in {"int64", "uint64"} /\ v <= MaxSafe => LongToNumber(v) = v
<1>1. kind = "any" => FromInner(kind, ToInner(kind, v)) = v
  BY WrappedComesBack DEF FromInner, ToInner, Representable
<1>2. kind = "Date" => FromInner(kind, ToInner(kind, v)) = v
  BY TimeComesBack DEF FromInner, ToInner, Representable
<1>3. kind \notin {"any", "Date"} => FromInner(kind, ToInner(kind, v)) = v
  BY DEF FromInner, ToInner
<1>4. ASSUME kind = "int32" PROVE Int32(v) = v
  <2> DEFINE h == 2 ^ (IntBits - 1)
  <2>1. h \in Int
    <3>1. IntBits - 1 \in Nat
      BY DEF WireAssumption
    <3> QED BY <3>1
  <2>2. v \in (0 - h) .. h - 1
    BY <1>4 DEF Representable
  <2>3. Int32(v) = ((v + h) % (2 * h)) - h
    BY DEF Int32
  <2> HIDE DEF h
  <2>4. h \in Nat /\ h > 0
    BY <2>1, <2>2
  <2>5. ((v + h) % (2 * h)) - h = v
    BY <2>2, <2>4
  <2> QED BY <2>3, <2>5
<1>5. kind \in {"int64", "uint64"} /\ v <= MaxSafe => LongToNumber(v) = v
  BY DEF LongToNumber, Representable, WireAssumption
<1> QED BY <1>1, <1>2, <1>3, <1>4, <1>5

-----------------------------------------------------------------------------
(* Messages in messages: what fromPartial completes, encode writes, decode   *)
(* reads, and the JSON form stands for, each defined by recursion.  All of    *)
(* it is shown for what is nested less than n deep, by induction over n.      *)

\* What is nested less than n deep.
Below(n) == {x \in Objects : Depth[x] < n}
DataBelow(n) == {<<x[1], FromPartial[x]>> : x \in Below(n)}
WiresBelow(n) == {<<y[1], Encode[y]>> : y \in DataBelow(n)}
FormsBelow(n) == {<<y[1], ToJSON[y]>> : y \in DataBelow(n)}

Same(g, h, S) == \A y \in S : g[y] = h[y]

LEMMA BelowAll ==
  ASSUME ObjectsAssumption
  PROVE  /\ MaxDepth + 1 \in Nat /\ Below(MaxDepth + 1) = Objects
         /\ Below(0) = {}
         /\ \A n \in Nat : Below(n) \subseteq Below(n + 1)
<1>1. MaxDepth \in Nat /\ \A x \in Objects : Depth[x] \in 0 .. MaxDepth
  BY DEF ObjectsAssumption
<1> QED BY <1>1 DEF Below

\* The fields of a message type.
LEMMA FieldsOfType ==
  ASSUME WireAssumption, NEW type \in DOMAIN Messages
  PROVE  /\ Messages[type] \in Seq(ToSet(Messages[type])) /\ WellNumbered(Messages[type])
         /\ Len(Messages[type]) \in Nat /\ DOMAIN Messages[type] = 1 .. Len(Messages[type])
         /\ \A f \in FieldsOf(type) :
              /\ Named(FieldsOf(type), f.name) = f
              /\ f.rule \in {"plain", "optional", "repeated", "map"}
              /\ f.rule = "map" => f.kind \in EntryKinds
<1>1. /\ Messages[type] \in Seq(FieldsOf(type)) /\ WellNumbered(Messages[type])
      /\ FieldsOf(type) = ToSet(Messages[type])
  BY DEF WireAssumption, FieldsOf
<1>4. ASSUME NEW f \in FieldsOf(type)
      PROVE  /\ f.rule \in {"plain", "optional", "repeated", "map"}
             /\ f.rule = "map" => f.kind \in EntryKinds
  BY DEF WireAssumption
<1>2. Len(Messages[type]) \in Nat /\ DOMAIN Messages[type] = 1 .. Len(Messages[type])
  <2> DEFINE S == FieldsOf(type)
             ms == Messages[type]
  <2>1. ms \in Seq(S)
    BY <1>1
  <2> HIDE DEF S, ms
  <2>2. Len(ms) \in Nat /\ DOMAIN ms = 1 .. Len(ms)
    BY <2>1, LenProperties
  <2> QED BY <2>2 DEF ms
<1>3. ASSUME NEW f \in FieldsOf(type) PROVE Named(FieldsOf(type), f.name) = f
  <2>1. \A g \in FieldsOf(type) : g.name = f.name => g = f
    BY <1>1 DEF WellNumbered, ToSet
  <2> QED BY <2>1 DEF Named
<1> QED BY <1>1, <1>2, <1>3, <1>4

\* The parts of a value are nested less deep.
LEMMA PartsBelow ==
  ASSUME ObjectsAssumption, NEW n \in Nat, NEW x \in Below(n + 1), IsMessage(x[1])
  PROVE  \A f \in SetFields(x) :
           /\ Regular(f, ToInner(x[1], x[2])[f.name])
           /\ \A v \in Parts(f, ToInner(x[1], x[2])[f.name]) : <<f.kind, v>> \in Below(n)
<1>1. x \in Objects /\ Depth[x] < n + 1 /\ WellFormed(x) /\ Depth[x] \in Nat
  BY DEF Below, ObjectsAssumption
<1>2. \A f \in SetFields(x) :
        /\ Regular(f, ToInner(x[1], x[2])[f.name])
        /\ \A v \in Parts(f, ToInner(x[1], x[2])[f.name]) :
             <<f.kind, v>> \in Objects /\ Depth[<<f.kind, v>>] < Depth[x]
  BY <1>1 DEF WellFormed
<1>3. \A y \in Objects : Depth[y] \in Int
  BY DEF ObjectsAssumption
<1>4. ASSUME NEW y \in Objects, Depth[y] < Depth[x] PROVE y \in Below(n)
  BY <1>1, <1>3, <1>4 DEF Below
<1> QED BY <1>2, <1>4

\* A generated message is what is written, and its type is known.
LEMMA GeneratedMessage ==
  ASSUME NEW kind, Generated(kind)
  PROVE  /\ IsMessage(kind) /\ InnerType(kind) = kind
         /\ \A v : ToInner(kind, v) = v /\ FromInner(kind, v) = v
<1>1. IsMessage(kind) /\ InnerType(kind) = kind
  BY DEF Generated
<1>2. kind \notin {"Date", "any", "object", "list"}
  BY <1>1 DEF InnerType
<1> QED BY <1>1, <1>2 DEF ToInner, FromInner

\* What fromPartial makes of a field depends on what it makes of its parts.
LEMMA PartialValueLocal ==
  ASSUME NEW g, NEW h, NEW f, NEW v, Regular(f, v),
         \A p \in Parts(f, v) : g[<<f.kind, p>>] = h[<<f.kind, p>>]
  PROVE  PartialValue(g, f, v) = PartialValue(h, f, v)
<1>1. CASE f.rule = "repeated"
  <2>1. \A i \in DOMAIN v : v[i] \in Parts(f, v)
    BY <1>1 DEF Parts, ToSet
  <2> QED BY <1>1, <2>1 DEF PartialValue
<1>2. CASE f.rule = "map"
  BY <1>2 DEF PartialValue
<1>3. CASE f.rule \in {"plain", "optional"}
  <2>1. v \in Parts(f, v)
    BY <1>3 DEF Parts
  <2> QED BY <1>3, <2>1 DEF PartialValue
<1> QED BY <1>1, <1>2, <1>3 DEF Regular

LEMMA CompletionLocal ==
  ASSUME WireAssumption, ObjectsAssumption, NEW n \in Nat, NEW x \in Below(n + 1),
         Generated(x[1]), NEW g, NEW h, Same(g, h, Below(n))
  PROVE  Completion(g, x[1], x[2]) = Completion(h, x[1], x[2])
<1> DEFINE fields == FieldsOf(x[1])
<1>1. IsMessage(x[1]) /\ InnerType(x[1]) = x[1] /\ ToInner(x[1], x[2]) = x[2]
  BY GeneratedMessage
<1>2. x[1] \in DOMAIN Messages
  BY <1>1 DEF Below, ObjectsAssumption, WellFormed
<1>3. ASSUME NEW m \in Names(fields), Given(x[2], m)
      PROVE  PartialValue(g, Named(fields, m), x[2][m]) = PartialValue(h, Named(fields, m), x[2][m])
  <2>1. PICK f \in fields : m = f.name /\ Named(fields, m) = f
    BY <1>2, FieldsOfType DEF Names
  <2>2. f \in SetFields(x)
    BY <1>1, <1>3, <2>1 DEF SetFields
  <2>3. Regular(f, x[2][m]) /\ \A v \in Parts(f, x[2][m]) : <<f.kind, v>> \in Below(n)
    BY <1>1, <2>1, <2>2, PartsBelow
  <2>4. \A p \in Parts(f, x[2][m]) : g[<<f.kind, p>>] = h[<<f.kind, p>>]
    BY <2>3 DEF Same
  <2> QED BY <2>1, <2>3, <2>4, PartialValueLocal
<1> QED BY <1>3 DEF Completion

\* fromPartial is what it is defined as: on what is nested less than n deep there
\* is such a function, for each n.
LEMMA FromPartialIs ==
  ASSUME WireAssumption, ObjectsAssumption
  PROVE  \A x \in Objects :
           FromPartial[x] = IF Generated(x[1]) THEN Completion(FromPartial, x[1], x[2]) ELSE x[2]
<1> DEFINE Def(g, x) == IF Generated(x[1]) THEN Completion(g, x[1], x[2]) ELSE x[2]
           Fun(g, S) == g = [x \in S |-> Def(g, x)]
           A == {n \in Nat : \E g : Fun(g, Below(n))}
           F == CHOOSE g : Fun(g, Objects)
<1>1. FromPartial = F
  BY DEF FromPartial
<1>2. ASSUME NEW n \in Nat, NEW x \in Below(n + 1), NEW g, NEW h, Same(g, h, Below(n))
      PROVE  Def(g, x) = Def(h, x)
  BY <1>2, CompletionLocal
<1> HIDE DEF Def
<1>3. 0 \in A
  <2> DEFINE g == [x \in Below(0) |-> 0]
  <2>1. Fun(g, Below(0))
    BY BelowAll
  <2> QED BY <2>1
<1>4. ASSUME NEW n \in Nat, n \in A PROVE n + 1 \in A
  <2>1. PICK g : Fun(g, Below(n))
    BY <1>4
  <2> DEFINE h == [x \in Below(n + 1) |-> Def(g, x)]
  <2>2. Same(g, h, Below(n))
    BY <2>1, BelowAll DEF Same
  <2>3. \A x \in Below(n + 1) : h[x] = Def(h, x)
    <3>1. \A x \in Below(n + 1) : h[x] = Def(g, x)
      OBVIOUS
    <3> HIDE DEF h
    <3> QED BY <1>2, <2>2, <3>1
  <2>4. h = [x \in Below(n + 1) |-> h[x]]
    OBVIOUS
  <2> HIDE DEF h
  <2>5. Fun(h, Below(n + 1))
    BY <2>3, <2>4
  <2> QED BY <2>5
<1>5. MaxDepth + 1 \in A
  <2> HIDE DEF A
  <2> QED BY <1>3, <1>4, BelowAll, NatSetInduction
<1>6. Fun(F, Objects)
  BY <1>5, BelowAll
<1> HIDE DEF F
<1>7. \A x \in Objects : F[x] = Def(F, x)
  BY <1>6
<1> QED BY <1>1, <1>7 DEF Def

\* What is written for a field are its parts, and nothing for one that is as in
\* a new message.
LEMMA FilledParts ==
  ASSUME NEW f, NEW v, Regular(f, v), NEW w \in ToSet(Filled(f, v))
  PROVE  w \in Parts(f, v) /\ v # Base(f)
<1>1. CASE f.rule = "plain"
  BY <1>1 DEF Filled, Parts, Base, ToSet
<1>2. CASE f.rule = "optional"
  BY <1>2 DEF Filled, Parts, Base, ToSet
<1>3. CASE f.rule = "repeated"
  BY <1>3 DEF Filled, Parts, Base, ToSet
<1>4. CASE f.rule = "map"
  <2>1. Filled(f, v) = Entries(v) /\ Parts(f, v) = ToSet(Entries(v)) /\ Base(f) = << >>
    BY <1>4 DEF Filled, Parts, Base
  <2>2. IsFiniteSet(DOMAIN v) /\ \A k \in DOMAIN v : v[k] # Undefined
    BY <1>4 DEF Regular
  <2>3. /\ Entries(v) \in Seq(ToSet(Entries(v))) /\ Len(Entries(v)) \in Nat
        /\ \A i \in 1 .. Len(Entries(v)) : Entries(v)[i].key \in DOMAIN v
    BY <2>2, EntriesOfMap
  <2> DEFINE es == Entries(v)
             T == ToSet(es)
  <2>4. es \in Seq(T)
    BY <2>3
  <2>5. DOMAIN es = 1 .. Len(es)
    <3> HIDE DEF es, T
    <3> QED BY <2>4, LenProperties
  <2>6. PICK i \in DOMAIN es : w = es[i]
    BY <2>1 DEF ToSet
  <2>7. es[i].key \in DOMAIN v
    BY <2>3, <2>5, <2>6
  <2> QED BY <2>1, <2>7
<1> QED BY <1>1, <1>2, <1>3, <1>4 DEF Regular

\* What encode writes: parts of the fields that are not as in a new message.
LEMMA WrittenParts ==
  ASSUME NEW fields, fields \in Seq(ToSet(fields)), NEW m,
         \A f \in ToSet(fields) : Regular(f, m[f.name])
  PROVE  LET es == WrittenFields(fields, m)
         IN  /\ Len(es) \in Nat /\ DOMAIN es = 1 .. Len(es)
             /\ \A k \in DOMAIN es :
                  /\ es[k].field \in ToSet(fields)
                  /\ m[es[k].field.name] # Base(es[k].field)
                  /\ es[k].val \in Parts(es[k].field, m[es[k].field.name])
<1> DEFINE es == WrittenFields(fields, m)
           T == Occurrences(fields, m)
<1>1. Len(fields) \in Nat /\ DOMAIN fields = 1 .. Len(fields)
  <2> DEFINE S == ToSet(fields)
  <2>1. fields \in Seq(S)
    OBVIOUS
  <2> HIDE DEF S
  <2> QED BY <2>1, LenProperties
<1>2. \A i \in 1 .. Len(fields) : fields[i] \in ToSet(fields)
  BY <1>1 DEF ToSet
<1>3. es \in Seq(T)
  BY <1>1, <1>2, WrittenInOrder
<1>4. ASSUME NEW e \in T
      PROVE  /\ e.field \in ToSet(fields)
             /\ m[e.field.name] # Base(e.field)
             /\ e.val \in Parts(e.field, m[e.field.name])
  <2>1. PICK i \in 1 .. Len(fields) : e \in ToSet(EncodeField(fields[i], m[fields[i].name]))
    BY DEF Occurrences
  <2> DEFINE f == fields[i]
             filled == Filled(f, m[f.name])
  <2>2. PICK k \in DOMAIN filled : e = [field |-> f, val |-> filled[k]]
    BY <2>1 DEF EncodeField, ToSet
  <2>3. filled[k] \in ToSet(filled) /\ Regular(f, m[f.name])
    BY <1>2 DEF ToSet
  <2>4. filled[k] \in Parts(f, m[f.name]) /\ m[f.name] # Base(f)
    BY <2>3, FilledParts
  <2>5. e.field = f /\ e.val = filled[k]
    BY <2>2
  <2> HIDE DEF f, filled
  <2> QED BY <1>2, <2>4, <2>5 DEF f
<1>5. /\ Len(es) \in Nat /\ DOMAIN es = 1 .. Len(es)
      /\ \A k \in DOMAIN es : es[k] \in T
  <2> HIDE DEF es, T
  <2> QED BY <1>3, LenProperties, ElementOfSeq
<1> HIDE DEF T
<1>6. \A k \in DOMAIN es :
        /\ es[k].field \in ToSet(fields)
        /\ m[es[k].field.name] # Base(es[k].field)
        /\ es[k].val \in Parts(es[k].field, m[es[k].field.name])
  <2> HIDE DEF es
  <2> QED BY <1>4, <1>5
<1> QED BY <1>5, <1>6

\* What a message under way is: all its fields are there, and the parts of those
\* which are not as in a new message are nested less than n deep.
Shaped(n, y) ==
  LET type == InnerType(y[1])
      m == ToInner(y[1], y[2])
  IN  /\ type \in DOMAIN Messages
      /\ m = [k \in Names(FieldsOf(type)) |-> m[k]]
      /\ \A f \in FieldsOf(type) :
           /\ Regular(f, m[f.name])
           /\ m[f.name] # Base(f) =>
                /\ \A w \in Parts(f, m[f.name]) : <<f.kind, w>> \in DataBelow(n)
                /\ Generated(y[1]) /\ ~ Generated(f.kind) => m[f.name] \notin Absent

LEMMA BaseRegular ==
  ASSUME NEW f, f.rule \in {"plain", "optional", "repeated", "map"}
  PROVE  Regular(f, Base(f))
<1>1. CASE f.rule \in {"plain", "optional"}
  BY <1>1 DEF Regular
<1>2. CASE f.rule = "repeated"
  BY <1>2 DEF Regular, Base, ToSet
<1>3. CASE f.rule = "map"
  <2>1. Base(f) = << >> /\ DOMAIN << >> = {} /\ << >> = [k \in {} |-> << >>[k]]
    BY <1>3 DEF Base
  <2>2. IsFiniteSet({})
    BY FS_EmptySet
  <2> QED BY <1>3, <2>1, <2>2 DEF Regular
<1> QED BY <1>1, <1>2, <1>3

LEMMA DataBelowAll ==
  ASSUME ObjectsAssumption
  PROVE  /\ DataBelow(MaxDepth + 1) = Data
         /\ DataBelow(0) = {}
         /\ \A n \in Nat : DataBelow(n) \subseteq DataBelow(n + 1) /\ DataBelow(n) \subseteq Data
  BY BelowAll DEF DataBelow, Data, Below

\* What is nested less deep is completed.
LEMMA PartCompleted ==
  ASSUME WireAssumption, ObjectsAssumption, NEW n, NEW kind, NEW p, <<kind, p>> \in Below(n)
  PROVE  <<kind, IF Generated(kind) THEN FromPartial[<<kind, p>>] ELSE p>> \in DataBelow(n)
<1> DEFINE x == <<kind, p>>
<1>1. x \in Objects /\ x[1] = kind /\ x[2] = p
  BY DEF Below
<1>2. <<kind, FromPartial[x]>> \in DataBelow(n)
  BY <1>1 DEF DataBelow
<1>3. FromPartial[x] = IF Generated(x[1]) THEN Completion(FromPartial, x[1], x[2]) ELSE x[2]
  BY <1>1, FromPartialIs
<1> QED BY <1>1, <1>2, <1>3

\* A field that is given is completed in all its parts.
LEMMA FieldCompleted ==
  ASSUME WireAssumption, ObjectsAssumption, NEW n \in Nat, NEW x \in Below(n + 1),
         Generated(x[1]), NEW f \in FieldsOf(x[1]), Given(x[2], f.name)
  PROVE  /\ Regular(f, PartialValue(FromPartial, f, x[2][f.name]))
         /\ \A w \in Parts(f, PartialValue(FromPartial, f, x[2][f.name])) : <<f.kind, w>> \in DataBelow(n)
         /\ ~ Generated(f.kind) => PartialValue(FromPartial, f, x[2][f.name]) = x[2][f.name]
<1> DEFINE o == x[2][f.name]
           v == PartialValue(FromPartial, f, o)
           complete(p) == IF Generated(f.kind) THEN FromPartial[<<f.kind, p>>] ELSE p
<1>1. IsMessage(x[1]) /\ InnerType(x[1]) = x[1] /\ ToInner(x[1], x[2]) = x[2]
  BY GeneratedMessage
<1>2. x[1] \in DOMAIN Messages
  BY <1>1 DEF Below, ObjectsAssumption, WellFormed
<1>3. f \in SetFields(x)
  BY <1>1 DEF SetFields
<1>4. Regular(f, o) /\ \A p \in Parts(f, o) : <<f.kind, p>> \in Below(n)
  BY <1>1, <1>3, PartsBelow
<1>5. \A p \in Parts(f, o) : <<f.kind, complete(p)>> \in DataBelow(n)
  BY <1>4, PartCompleted
<1>6. CASE f.rule \in {"plain", "optional"}
  <2>1. v = complete(o) /\ Parts(f, o) = {o} /\ Parts(f, v) = {v}
    BY <1>6 DEF PartialValue, Parts
  <2>2. Regular(f, v)
    BY <1>6 DEF Regular
  <2> HIDE DEF v, o
  <2> QED BY <1>5, <2>1, <2>2 DEF v, o
<1>7. CASE f.rule = "repeated"
  <2>1. v = [i \in DOMAIN o |-> complete(o[i])] /\ Parts(f, o) = ToSet(o) /\ Parts(f, v) = ToSet(v)
    BY <1>7 DEF PartialValue, Parts
  <2> DEFINE S == ToSet(o)
             T == ToSet(v)
  <2>2. o \in Seq(S)
    BY <1>4, <1>7 DEF Regular
  <2>3. Len(o) \in Nat /\ DOMAIN o = 1 .. Len(o) /\ o = [i \in 1 .. Len(o) |-> o[i]]
    <3> HIDE DEF S, o
    <3> QED BY <2>2, LenProperties
  <2>4. ASSUME NEW w \in ToSet(v) PROVE \E p \in ToSet(o) : w = complete(p)
    <3> HIDE DEF v, o, complete
    <3>1. PICK i \in DOMAIN o : w = complete(o[i])
      BY <2>1, <2>4 DEF ToSet
    <3> QED BY <3>1 DEF ToSet
  <2>5. v \in Seq(T)
    <3>1. \A i \in 1 .. Len(o) : v[i] \in T /\ DOMAIN v = 1 .. Len(o)
      BY <2>1, <2>3 DEF ToSet
    <3>2. v = [i \in 1 .. Len(o) |-> v[i]]
      BY <2>1, <2>3
    <3> HIDE DEF v, T, o
    <3> QED BY <2>3, <3>1, <3>2
  <2>6. Regular(f, v)
    BY <1>7, <2>5 DEF Regular
  <2>7. ~ Generated(f.kind) => v = o
    BY <2>1, <2>3
  <2> HIDE DEF v, o, complete
  <2>8. \A w \in Parts(f, v) : \E p \in Parts(f, o) : w = complete(p)
    BY <2>1, <2>4
  <2> QED BY <1>5, <2>6, <2>7, <2>8 DEF v, o
<1>8. CASE f.rule = "map"
  <2>1. ~ Generated(f.kind)
    BY <1>2, <1>8, FieldsOfType DEF Generated
  <2>2. v = o
    <3>1. o = [k \in DOMAIN o |-> o[k]] /\ \A k \in DOMAIN o : o[k] # Undefined
      BY <1>4, <1>8 DEF Regular
    <3>2. v = [k \in {y \in DOMAIN o : o[y] # Undefined} |-> o[k]]
      BY <1>8 DEF PartialValue
    <3>3. {y \in DOMAIN o : o[y] # Undefined} = DOMAIN o
      BY <3>1
    <3> HIDE DEF v, o
    <3> QED BY <3>1, <3>2, <3>3
  <2> QED BY <1>4, <1>5, <2>1, <2>2
<1> QED BY <1>4, <1>6, <1>7, <1>8 DEF Regular

\* What is given and completed is shaped as it is written, nested less deep in
\* its parts.
LEMMA DataShaped ==
  ASSUME WireAssumption, ObjectsAssumption, NEW n \in Nat, NEW y \in DataBelow(n + 1), IsMessage(y[1])
  PROVE  Shaped(n, y)
<1>1. PICK x \in Below(n + 1) : y = <<x[1], FromPartial[x]>>
  BY DEF DataBelow
<1>2. x \in Objects /\ WellFormed(x) /\ y[1] = x[1] /\ y[2] = FromPartial[x] /\ IsMessage(x[1])
  BY <1>1 DEF Below, ObjectsAssumption
<1>3. FromPartial[x] = IF Generated(x[1]) THEN Completion(FromPartial, x[1], x[2]) ELSE x[2]
  BY <1>2, FromPartialIs
<1> DEFINE type == InnerType(x[1])
           o == ToInner(x[1], x[2])
           m == ToInner(y[1], y[2])
<1>4. type \in DOMAIN Messages
  BY <1>2 DEF WellFormed
<1>5. \A f \in FieldsOf(type) :
        /\ Named(FieldsOf(type), f.name) = f /\ f.name \in Names(FieldsOf(type))
        /\ f.rule \in {"plain", "optional", "repeated", "map"}
  BY <1>4, FieldsOfType DEF Names
<1>6. CASE Generated(x[1])
  <2>1. type = x[1] /\ m = Completion(FromPartial, x[1], x[2])
    BY <1>2, <1>3, <1>6, GeneratedMessage
  <2>2. m = [k \in Names(FieldsOf(type)) |-> m[k]]
    BY <2>1 DEF Completion
  <2>3. ASSUME NEW f \in FieldsOf(type)
        PROVE  m[f.name] = IF Given(x[2], f.name) THEN PartialValue(FromPartial, f, x[2][f.name])
                           ELSE Base(f)
    BY <1>5, <2>1 DEF Completion
  <2>4. ASSUME NEW f \in FieldsOf(type)
        PROVE  /\ Regular(f, m[f.name])
               /\ m[f.name] # Base(f) =>
                    /\ \A w \in Parts(f, m[f.name]) : <<f.kind, w>> \in DataBelow(n)
                    /\ ~ Generated(f.kind) => m[f.name] \notin Absent
    <3>1. CASE Given(x[2], f.name)
      <4>1. m[f.name] = PartialValue(FromPartial, f, x[2][f.name])
        BY <2>3, <3>1
      <4>2. /\ Regular(f, PartialValue(FromPartial, f, x[2][f.name]))
            /\ \A w \in Parts(f, PartialValue(FromPartial, f, x[2][f.name])) : <<f.kind, w>> \in DataBelow(n)
            /\ ~ Generated(f.kind) => PartialValue(FromPartial, f, x[2][f.name]) = x[2][f.name]
        BY <1>6, <2>1, <3>1, FieldCompleted
      <4>3. x[2][f.name] \notin Absent
        BY <3>1 DEF Given
      <4> HIDE DEF m
      <4> QED BY <4>1, <4>2, <4>3
    <3>2. CASE ~ Given(x[2], f.name)
      <4>1. m[f.name] = Base(f)
        BY <2>3, <3>2
      <4> HIDE DEF m
      <4> QED BY <1>5, <4>1, BaseRegular
    <3> QED BY <3>1, <3>2
  <2> QED BY <1>2, <1>4, <2>2, <2>4 DEF Shaped
<1>7. CASE ~ Generated(x[1])
  <2>1. m = o
    BY <1>2, <1>3, <1>7
  <2>2. /\ o = [k \in Names(FieldsOf(type)) |-> o[k]]
        /\ \A f \in FieldsOf(type) : ~ Generated(f.kind)
    BY <1>2, <1>7 DEF WellFormed
  <2>3. ASSUME NEW f \in FieldsOf(type), o[f.name] # Base(f)
        PROVE  /\ Regular(f, o[f.name])
               /\ \A w \in Parts(f, o[f.name]) : <<f.kind, w>> \in DataBelow(n)
    <3>1. f \in SetFields(x)
      BY <1>7, <2>3 DEF SetFields
    <3>2. Regular(f, o[f.name]) /\ \A w \in Parts(f, o[f.name]) : <<f.kind, w>> \in Below(n)
      BY <1>2, <3>1, PartsBelow
    <3> HIDE DEF o
    <3> QED BY <2>2, <3>2, PartCompleted
  <2>4. \A f \in FieldsOf(type) : o[f.name] = Base(f) => Regular(f, o[f.name])
    BY <1>5, BaseRegular
  <2>5. \A f \in FieldsOf(type) :
          /\ Regular(f, m[f.name])
          /\ m[f.name] # Base(f) => \A w \in Parts(f, m[f.name]) : <<f.kind, w>> \in DataBelow(n)
    <3> HIDE DEF m, o
    <3> QED BY <2>1, <2>3, <2>4
  <2> QED BY <1>2, <1>4, <1>7, <2>1, <2>2, <2>5 DEF Shaped
<1> QED BY <1>6, <1>7

\* What is written of a message.
Written(y) == WrittenFields(Messages[InnerType(y[1])], ToInner(y[1], y[2]))

LEMMA WrittenBelow ==
  ASSUME WireAssumption, ObjectsAssumption, NEW n \in Nat, NEW y \in DataBelow(n + 1), IsMessage(y[1])
  PROVE  /\ Len(Written(y)) \in Nat /\ DOMAIN Written(y) = 1 .. Len(Written(y))
         /\ \A k \in DOMAIN Written(y) :
              /\ Written(y)[k].field \in FieldsOf(InnerType(y[1]))
              /\ <<Written(y)[k].field.kind, Written(y)[k].val>> \in DataBelow(n)
<1> DEFINE type == InnerType(y[1])
           m == ToInner(y[1], y[2])
           fields == Messages[type]
           es == WrittenFields(fields, m)
<1>1. /\ type \in DOMAIN Messages
      /\ \A f \in FieldsOf(type) :
           /\ Regular(f, m[f.name])
           /\ m[f.name] # Base(f) => \A w \in Parts(f, m[f.name]) : <<f.kind, w>> \in DataBelow(n)
  BY DataShaped DEF Shaped
<1>2. fields \in Seq(ToSet(fields)) /\ FieldsOf(type) = ToSet(fields)
  BY <1>1, FieldsOfType DEF FieldsOf
<1> HIDE DEF type, m, fields
<1>3. /\ Len(es) \in Nat /\ DOMAIN es = 1 .. Len(es)
      /\ \A k \in DOMAIN es :
           /\ es[k].field \in ToSet(fields)
           /\ m[es[k].field.name] # Base(es[k].field)
           /\ es[k].val \in Parts(es[k].field, m[es[k].field.name])
  BY <1>1, <1>2, WrittenParts
<1>4. es = Written(y)
  BY DEF Written, type, m, fields
<1> HIDE DEF es
<1>5. \A k \in DOMAIN es :
        es[k].field \in FieldsOf(type) /\ <<es[k].field.kind, es[k].val>> \in DataBelow(n)
  BY <1>1, <1>2, <1>3
<1> QED BY <1>3, <1>4, <1>5 DEF type

\* A value that is held as a message is written as its fields.
LEMMA MessagePayload ==
  ASSUME NEW g, NEW y, IsMessage(y[1])
  PROVE  Payload(g, y[1], y[2]) = Tagged(g, Written(y))
<1>1. y[1] # "int32"
  BY DEF IsMessage, Varints
<1> QED BY <1>1 DEF Payload, Written

\* What a value is encoded as depends on what its parts are encoded as.
LEMMA PayloadLocal ==
  ASSUME WireAssumption, ObjectsAssumption, NEW n \in Nat, NEW y \in DataBelow(n + 1),
         NEW g, NEW h, Same(g, h, DataBelow(n))
  PROVE  Payload(g, y[1], y[2]) = Payload(h, y[1], y[2])
<1>1. CASE ~ IsMessage(y[1])
  BY <1>1 DEF Payload
<1>2. CASE IsMessage(y[1])
  <2>1. Payload(g, y[1], y[2]) = Tagged(g, Written(y)) /\ Payload(h, y[1], y[2]) = Tagged(h, Written(y))
    BY <1>2, MessagePayload
  <2> DEFINE es == Written(y)
  <2>2. \A k \in DOMAIN es : <<es[k].field.kind, es[k].val>> \in DataBelow(n)
    BY <1>2, WrittenBelow
  <2> HIDE DEF es
  <2>3. \A k \in DOMAIN es : g[<<es[k].field.kind, es[k].val>>] = h[<<es[k].field.kind, es[k].val>>]
    BY <2>2 DEF Same
  <2>4. Tagged(g, es) = Tagged(h, es)
    BY <2>3 DEF Tagged
  <2> QED BY <2>1, <2>4 DEF es
<1> QED BY <1>1, <1>2

LEMMA EncodeIs ==
  ASSUME WireAssumption, ObjectsAssumption
  PROVE  \A y \in Data : Encode[y] = Payload(Encode, y[1], y[2])
<1> DEFINE Def(g, x) == Payload(g, x[1], x[2])
           Fun(g, S) == g = [x \in S |-> Def(g, x)]
           A == {n \in Nat : \E g : Fun(g, DataBelow(n))}
           F == CHOOSE g : Fun(g, Data)
<1>1. Encode = F
  BY DEF Encode
<1>2. ASSUME NEW n \in Nat, NEW x \in DataBelow(n + 1), NEW g, NEW h, Same(g, h, DataBelow(n))
      PROVE  Def(g, x) = Def(h, x)
  BY <1>2, PayloadLocal
<1> HIDE DEF Def
<1>3. 0 \in A
  <2> DEFINE g == [x \in DataBelow(0) |-> 0]
  <2>1. Fun(g, DataBelow(0))
    BY DataBelowAll
  <2> QED BY <2>1
<1>4. ASSUME NEW n \in Nat, n \in A PROVE n + 1 \in A
  <2>1. PICK g : Fun(g, DataBelow(n))
    BY <1>4
  <2> DEFINE h == [x \in DataBelow(n + 1) |-> Def(g, x)]
  <2>2. Same(g, h, DataBelow(n))
    BY <2>1, DataBelowAll DEF Same
  <2>3. \A x \in DataBelow(n + 1) : h[x] = Def(h, x)
    <3>1. \A x \in DataBelow(n + 1) : h[x] = Def(g, x)
      OBVIOUS
    <3> HIDE DEF h
    <3> QED BY <1>2, <2>2, <3>1
  <2>4. h = [x \in DataBelow(n + 1) |-> h[x]]
    OBVIOUS
  <2> HIDE DEF h
  <2>5. Fun(h, DataBelow(n + 1))
    BY <2>3, <2>4
  <2> QED BY <2>5
<1>5. MaxDepth + 1 \in A
  <2> HIDE DEF A
  <2> QED BY <1>3, <1>4, BelowAll, NatSetInduction
<1>6. Fun(F, Data)
  BY <1>5, DataBelowAll
<1> HIDE DEF F
<1>7. \A x \in Data : F[x] = Def(F, x)
  BY <1>6
<1> QED BY <1>1, <1>7 DEF Def

-----------------------------------------------------------------------------
\* The fields ws that are on the wire when es are written, and what a reader of
\* the known ones, who decodes with g, makes of them.
OnWire(g, known, es, ws, rs) ==
  /\ DOMAIN ws = DOMAIN es /\ DOMAIN rs = DOMAIN es
  /\ \A k \in DOMAIN es :
       /\ Known(known, ws[k]) = known \intersect {es[k].field}
       /\ rs[k] = [no |-> es[k].field.no, wire |-> WireType(es[k].field),
                   val |-> IF es[k].field \in known
                           THEN g[<<es[k].field.kind, Encode[<<es[k].field.kind, es[k].val>>]>>]
                           ELSE Encode[<<es[k].field.kind, es[k].val>>]]

LEMMA FieldsInAre ==
  ASSUME WireAssumption, ObjectsAssumption, NEW n \in Nat, NEW y \in DataBelow(n + 1), IsMessage(y[1]),
         NEW known, known \subseteq FieldsOf(InnerType(y[1])), NEW g
  PROVE  OnWire(g, known, Written(y), Encode[y], FieldsIn(g, known, Encode[y]))
<1> DEFINE type == InnerType(y[1])
           es == Written(y)
           ws == Encode[y]
           rs == FieldsIn(g, known, ws)
           val(k) == Encode[<<es[k].field.kind, es[k].val>>]
<1>1. y \in Data /\ type \in DOMAIN Messages
  <2>1. Shaped(n, y)
    BY DataShaped
  <2> QED BY <2>1, DataBelowAll DEF Shaped
<1>2. ws = Tagged(Encode, es)
  BY <1>1, EncodeIs, MessagePayload
<1>3. \A k \in DOMAIN es : es[k].field \in FieldsOf(type)
  BY WrittenBelow
<1>4. \A f, e \in FieldsOf(type) : f.no = e.no => f = e
  BY <1>1, FieldsOfType DEF WellNumbered, FieldsOf, ToSet
<1> HIDE DEF es, type
<1>5. /\ DOMAIN ws = DOMAIN es
      /\ \A k \in DOMAIN es : ws[k] = [no |-> es[k].field.no, wire |-> WireType(es[k].field), val |-> val(k)]
  BY <1>2 DEF Tagged
<1>6. DOMAIN rs = DOMAIN es
  BY <1>5 DEF FieldsIn
<1> HIDE DEF ws, val
<1>7. ASSUME NEW k \in DOMAIN es
      PROVE  Known(known, ws[k]) = known \intersect {es[k].field}
  <2>1. ws[k].no = es[k].field.no /\ ws[k].wire = WireType(es[k].field)
    BY <1>5
  <2>2. known \subseteq FieldsOf(type)
    BY DEF type
  <2>3. \A f \in known : f.no = ws[k].no => f = es[k].field
    BY <1>3, <1>4, <2>1, <2>2
  <2> QED BY <2>1, <2>3 DEF Known
<1>8. ASSUME NEW k \in DOMAIN es, es[k].field \in known
      PROVE  /\ FieldOf(known, ws[k]) = es[k].field
             /\ rs[k] = [no |-> es[k].field.no, wire |-> WireType(es[k].field),
                         val |-> g[<<es[k].field.kind, val(k)>>]]
  <2>1. Known(known, ws[k]) = {es[k].field}
    BY <1>7, <1>8
  <2>2. FieldOf(known, ws[k]) = es[k].field
    BY <2>1 DEF FieldOf
  <2>3. rs[k] = [ws[k] EXCEPT !.val = g[<<es[k].field.kind, ws[k].val>>]]
    BY <1>5, <2>1, <2>2 DEF FieldsIn
  <2> HIDE DEF rs
  <2>4. ws[k] = [no |-> es[k].field.no, wire |-> WireType(es[k].field), val |-> val(k)]
    BY <1>5
  <2> QED BY <2>2, <2>3, <2>4
<1>9. ASSUME NEW k \in DOMAIN es, es[k].field \notin known
      PROVE  rs[k] = [no |-> es[k].field.no, wire |-> WireType(es[k].field), val |-> val(k)]
  <2>1. Known(known, ws[k]) = {}
    BY <1>7, <1>9
  <2> QED BY <1>5, <2>1 DEF FieldsIn
<1> HIDE DEF rs
<1>10. OnWire(g, known, es, ws, rs)
  BY <1>5, <1>6, <1>7, <1>8, <1>9 DEF OnWire, val
<1> QED BY <1>10 DEF es, ws, rs

\* What is read of some fields is a message.
LEMMA ReadIsMessage ==
  ASSUME NEW all, NEW known, NEW ws, Len(ws) \in Nat
  PROVE  ReadFields(all, known, ws) = [k \in Names(all) |-> ReadFields(all, known, ws)[k]]
<1> DEFINE n == Len(ws)
           R == ReadUpTo(all, known, ws)
           IsM(r) == r = [k \in Names(all) |-> r[k]]
           A == {i \in Nat : i <= n => IsM(R[i])}
<1>1. n \in Nat
  OBVIOUS
<1>2. R[0] = Create(all) /\ \A i \in 1 .. n : R[i] = ReadField(R[i - 1], known, ws[i])
  BY FieldsRead
<1>3. ReadFields(all, known, ws) = R[n]
  BY DEF ReadFields
<1> HIDE DEF n, R
<1>4. 0 \in A
  <2>1. IsM(Create(all))
    BY DEF Create
  <2> QED BY <1>2, <2>1
<1>5. ASSUME NEW i \in Nat, i \in A PROVE i + 1 \in A
  <2>1. SUFFICES ASSUME i + 1 <= n PROVE IsM(R[i + 1])
    OBVIOUS
  <2> DEFINE q == i + 1
  <2>2. q \in 1 .. n /\ q - 1 = i /\ IsM(R[i])
    BY <1>1, <1>5, <2>1
  <2> HIDE DEF q
  <2>3. R[q] = ReadField(R[i], known, ws[q])
    BY <1>2, <2>2
  <2> DEFINE r == R[i]
             e == R[q]
  <2>4. IsM(r) /\ e = ReadField(r, known, ws[q])
    BY <2>2, <2>3
  <2> HIDE DEF r, e
  <2>5. IsM(e)
    BY <2>4 DEF ReadField
  <2> QED BY <2>5 DEF e, q
<1> HIDE DEF A
<1>6. n \in A
  BY <1>1, <1>4, <1>5, NatSetInduction
<1> QED BY <1>1, <1>3, <1>6 DEF A

\* A reader that is given what its parts are decoded as, or what is thrown.
Reads(g, n) == \A z \in DataBelow(n) : g[<<z[1], Encode[z]>>] \in {z[2], Unsafe}

\* What a reader that knows some fields of a message makes of it.
Arrived(r, type, known, m) ==
  /\ r = [k \in Names(FieldsOf(type)) |-> r[k]]
  /\ \A f \in FieldsOf(type) : r[f.name] = IF f \in known THEN m[f.name] ELSE Base(f)

LEMMA MessageRead ==
  ASSUME WireAssumption, ObjectsAssumption, NEW n \in Nat, NEW y \in DataBelow(n + 1), IsMessage(y[1]),
         NEW known, known \subseteq FieldsOf(InnerType(y[1])), NEW g, Reads(g, n),
         NEW r, r = Message(g, InnerType(y[1]), known, Encode[y]), r # Unsafe
  PROVE  Arrived(r, InnerType(y[1]), known, ToInner(y[1], y[2]))
<1> DEFINE type == InnerType(y[1])
           m == ToInner(y[1], y[2])
           fields == Messages[type]
           es == Written(y)
           ws == Encode[y]
           rs == FieldsIn(g, known, ws)
<1>1. /\ type \in DOMAIN Messages
      /\ \A f \in FieldsOf(type) : Regular(f, m[f.name])
  BY DataShaped DEF Shaped
<1>2. fields \in Seq(ToSet(fields)) /\ WellNumbered(fields) /\ FieldsOf(type) = ToSet(fields)
  BY <1>1, FieldsOfType DEF FieldsOf
<1>3. /\ Len(es) \in Nat /\ DOMAIN es = 1 .. Len(es)
      /\ \A k \in DOMAIN es : <<es[k].field.kind, es[k].val>> \in DataBelow(n)
  BY WrittenBelow
<1>4. OnWire(g, known, es, ws, rs)
  BY FieldsInAre
<1>5. r = ReadFields(FieldsOf(type), known, rs)
      /\ \A k \in DOMAIN rs : Known(known, ws[k]) # {} => rs[k].val # Unsafe
  BY DEF Message
<1>6. es = WrittenFields(fields, m) /\ known \subseteq ToSet(fields)
  BY <1>2 DEF Written
<1>7. rs = [k \in DOMAIN rs |-> rs[k]]
  BY DEF FieldsIn
<1> HIDE DEF es, ws, rs, m, fields
<1>8. ASSUME NEW k \in DOMAIN es, es[k].field \in known PROVE rs[k].val = es[k].val
  <2> DEFINE z == <<es[k].field.kind, es[k].val>>
  <2>1. z \in DataBelow(n) /\ z[1] = es[k].field.kind /\ z[2] = es[k].val
    BY <1>3
  <2>2. rs[k].val = g[<<z[1], Encode[z]>>]
    BY <1>4, <1>8 DEF OnWire
  <2>3. rs[k].val # Unsafe
    <3>1. k \in DOMAIN rs /\ Known(known, ws[k]) # {}
      BY <1>4, <1>8 DEF OnWire
    <3> QED BY <1>5, <3>1
  <2> HIDE DEF z
  <2> QED BY <2>1, <2>2, <2>3 DEF Reads
<1>9. Len(rs) = Len(es)
  <2> DEFINE c == Len(es)
             T == {rs[k] : k \in DOMAIN rs}
  <2>1. c \in Nat /\ rs = [k \in 1 .. c |-> rs[k]]
    BY <1>3, <1>4, <1>7 DEF OnWire
  <2> HIDE DEF c
  <2> QED BY <2>1 DEF c
<1>10. Carries(rs, es, known)
  <2>1. ASSUME NEW k \in 1 .. Len(es)
        PROVE  /\ rs[k].no = es[k].field.no /\ rs[k].wire = WireType(es[k].field)
               /\ es[k].field \in known => rs[k].val = es[k].val
    <3>1. k \in DOMAIN es
      BY <1>3
    <3>2. rs[k].no = es[k].field.no /\ rs[k].wire = WireType(es[k].field)
      <4>1. PICK v : rs[k] = [no |-> es[k].field.no, wire |-> WireType(es[k].field), val |-> v]
        BY <1>4, <3>1 DEF OnWire
      <4> QED BY <4>1
    <3> QED BY <1>8, <3>1, <3>2
  <2> QED BY <1>9, <2>1 DEF Carries
<1>11. \A f \in ToSet(fields) :
         ReadFields(ToSet(fields), known, rs)[f.name] = IF f \in known THEN m[f.name] ELSE Base(f)
  BY <1>1, <1>2, <1>6, <1>10, FieldsComeBack
<1>12. ReadFields(FieldsOf(type), known, rs)
         = [k \in Names(FieldsOf(type)) |-> ReadFields(FieldsOf(type), known, rs)[k]]
  BY <1>3, <1>9, ReadIsMessage
<1> QED BY <1>2, <1>5, <1>11, <1>12 DEF Arrived, m

\* A reader that knows all the fields is given the message.
LEMMA AllArrived ==
  ASSUME WireAssumption, ObjectsAssumption, NEW n \in Nat, NEW y \in DataBelow(n + 1), IsMessage(y[1]),
         NEW r, Arrived(r, InnerType(y[1]), FieldsOf(InnerType(y[1])), ToInner(y[1], y[2]))
  PROVE  r = ToInner(y[1], y[2])
<1> DEFINE type == InnerType(y[1])
           m == ToInner(y[1], y[2])
<1>1. m = [k \in Names(FieldsOf(type)) |-> m[k]]
  BY DataShaped DEF Shaped
<1>2. r = [k \in Names(FieldsOf(type)) |-> r[k]] /\ \A f \in FieldsOf(type) : r[f.name] = m[f.name]
  BY DEF Arrived
<1> HIDE DEF m, type
<1>3. \A k \in Names(FieldsOf(type)) : r[k] = m[k]
  BY <1>2 DEF Names
<1> QED BY <1>1, <1>2, <1>3 DEF m

-----------------------------------------------------------------------------
LEMMA WiresBelowAll ==
  ASSUME ObjectsAssumption
  PROVE  /\ WiresBelow(MaxDepth + 1) = Wires
         /\ WiresBelow(0) = {}
         /\ \A n \in Nat : WiresBelow(n) \subseteq WiresBelow(n + 1) /\ WiresBelow(n) \subseteq Wires
  BY DataBelowAll DEF WiresBelow, Wires

\* A value that is held as a message is read from its fields.
LEMMA MessageIsRead ==
  ASSUME NEW g, NEW kind, IsMessage(kind), NEW v
  PROVE  Read(g, kind, v) = Inner(kind, Message(g, InnerType(kind), FieldsOf(InnerType(kind)), v))
<1>1. kind \notin {"int64", "uint64"}
  BY DEF IsMessage, Varints
<1> QED BY <1>1 DEF Read

\* What a value is read as depends on what its parts are read as.
LEMMA ReadLocal ==
  ASSUME WireAssumption, ObjectsAssumption, NEW n \in Nat, NEW z \in WiresBelow(n + 1),
         NEW g, NEW h, Same(g, h, WiresBelow(n))
  PROVE  Read(g, z[1], z[2]) = Read(h, z[1], z[2])
<1>1. PICK y \in DataBelow(n + 1) : z = <<y[1], Encode[y]>>
  BY DEF WiresBelow
<1>2. z[1] = y[1] /\ z[2] = Encode[y]
  BY <1>1
<1>3. CASE ~ IsMessage(y[1])
  BY <1>2, <1>3 DEF Read
<1>4. CASE IsMessage(y[1])
  <2> DEFINE type == InnerType(y[1])
             known == FieldsOf(type)
             es == Written(y)
             ws == Encode[y]
             rs(d) == FieldsIn(d, known, ws)
  <2>1. \A k \in DOMAIN es : es[k].field \in known /\ <<es[k].field.kind, es[k].val>> \in DataBelow(n)
    BY <1>4, WrittenBelow
  <2>2. \A d : OnWire(d, known, es, ws, rs(d))
    BY <1>4, FieldsInAre
  <2>3. \A d : rs(d) = [k \in DOMAIN rs(d) |-> rs(d)[k]]
    BY DEF FieldsIn
  <2>4. \A d : Read(d, z[1], z[2]) = Inner(y[1], IF \E k \in DOMAIN rs(d) : Known(known, ws[k]) # {} /\ rs(d)[k].val = Unsafe
                                                 THEN Unsafe ELSE ReadFields(known, known, rs(d)))
    BY <1>2, <1>4, MessageIsRead DEF Message
  <2> HIDE DEF es, ws, rs, known
  <2>5. ASSUME NEW k \in DOMAIN es PROVE rs(g)[k] = rs(h)[k]
    <3> DEFINE p == <<es[k].field.kind, es[k].val>>
               q == <<es[k].field.kind, Encode[p]>>
    <3>1. p \in DataBelow(n) /\ p[1] = es[k].field.kind
      BY <2>1
    <3>2. q \in WiresBelow(n)
      BY <3>1 DEF WiresBelow
    <3>3. g[q] = h[q]
      BY <3>2 DEF Same
    <3>4. es[k].field \in known
      BY <2>1
    <3>5. OnWire(g, known, es, ws, rs(g)) /\ OnWire(h, known, es, ws, rs(h))
      BY <2>2
    <3> HIDE DEF rs
    <3> QED BY <3>3, <3>4, <3>5 DEF OnWire
  <2>6. rs(g) = rs(h)
    BY <2>2, <2>3, <2>5 DEF OnWire
  <2> QED BY <2>4, <2>6
<1> QED BY <1>3, <1>4

LEMMA DecodeIs ==
  ASSUME WireAssumption, ObjectsAssumption
  PROVE  \A z \in Wires : Decode[z] = Read(Decode, z[1], z[2])
<1> DEFINE Def(g, x) == Read(g, x[1], x[2])
           Fun(g, S) == g = [x \in S |-> Def(g, x)]
           A == {n \in Nat : \E g : Fun(g, WiresBelow(n))}
           F == CHOOSE g : Fun(g, Wires)
<1>1. Decode = F
  BY DEF Decode
<1>2. ASSUME NEW n \in Nat, NEW x \in WiresBelow(n + 1), NEW g, NEW h, Same(g, h, WiresBelow(n))
      PROVE  Def(g, x) = Def(h, x)
  BY <1>2, ReadLocal
<1> HIDE DEF Def
<1>3. 0 \in A
  <2> DEFINE g == [x \in WiresBelow(0) |-> 0]
  <2>1. Fun(g, WiresBelow(0))
    BY WiresBelowAll
  <2> QED BY <2>1
<1>4. ASSUME NEW n \in Nat, n \in A PROVE n + 1 \in A
  <2>1. PICK g : Fun(g, WiresBelow(n))
    BY <1>4
  <2> DEFINE h == [x \in WiresBelow(n + 1) |-> Def(g, x)]
  <2>2. Same(g, h, WiresBelow(n))
    BY <2>1, WiresBelowAll DEF Same
  <2>3. \A x \in WiresBelow(n + 1) : h[x] = Def(h, x)
    <3>1. \A x \in WiresBelow(n + 1) : h[x] = Def(g, x)
      OBVIOUS
    <3> HIDE DEF h
    <3> QED BY <1>2, <2>2, <3>1
  <2>4. h = [x \in WiresBelow(n + 1) |-> h[x]]
    OBVIOUS
  <2> HIDE DEF h
  <2>5. Fun(h, WiresBelow(n + 1))
    BY <2>3, <2>4
  <2> QED BY <2>5
<1>5. MaxDepth + 1 \in A
  <2> HIDE DEF A
  <2> QED BY <1>3, <1>4, BelowAll, NatSetInduction
<1>6. Fun(F, Wires)
  BY <1>5, WiresBelowAll
<1> HIDE DEF F
<1>7. \A x \in Wires : F[x] = Def(F, x)
  BY <1>6
<1> QED BY <1>1, <1>7 DEF Def

\* What is no generated message is what was given.
LEMMA DataRepresentable ==
  ASSUME WireAssumption, ObjectsAssumption, NEW y \in Data, ~ Generated(y[1])
  PROVE  Representable(y[1], y[2])
<1>1. PICK x \in Objects : y = <<x[1], FromPartial[x]>>
  BY DEF Data
<1>2. x[1] = y[1] /\ Representable(x[1], x[2])
  BY <1>1 DEF ObjectsAssumption, WellFormed
<1>3. y[2] = x[2]
  BY <1>1, <1>2, FromPartialIs
<1> QED BY <1>2, <1>3

\* Whatever is given, and however its messages are nested, decode makes of what
\* encode wrote the value that was written; only a number that JavaScript cannot
\* represent exactly is thrown at, in this value or one in it.
THEOREM MessagesComeBack ==
  ASSUME WireAssumption, ObjectsAssumption
  PROVE  \A y \in Data : Decode[<<y[1], Encode[y]>>] \in {y[2], Unsafe}
<1> DEFINE A == {n \in Nat : Reads(Decode, n)}
<1>1. 0 \in A
  BY DataBelowAll DEF Reads
<1>2. ASSUME NEW n \in Nat, n \in A PROVE n + 1 \in A
  <2>1. SUFFICES ASSUME NEW y \in DataBelow(n + 1)
                 PROVE  Decode[<<y[1], Encode[y]>>] \in {y[2], Unsafe}
    BY DEF Reads
  <2>2. y \in Data
    BY DataBelowAll
  <2>3. Decode[<<y[1], Encode[y]>>] = Read(Decode, y[1], Encode[y])
    <3> DEFINE z == <<y[1], Encode[y]>>
    <3>1. z \in Wires /\ z[1] = y[1] /\ z[2] = Encode[y]
      BY <2>2 DEF Wires
    <3>2. Decode[z] = Read(Decode, z[1], z[2])
      BY <3>1, DecodeIs
    <3> QED BY <3>1, <3>2
  <2>4. CASE ~ IsMessage(y[1])
    <3>1. Representable(y[1], y[2])
      BY <2>2, <2>4, DataRepresentable DEF Generated
    <3>2. Encode[y] = IF y[1] = "int32" THEN Int32(y[2]) ELSE y[2]
      BY <2>2, <2>4, EncodeIs DEF Payload
    <3>3. Encode[y] = y[2]
      BY <3>1, <3>2, ValuesComeBack
    <3>4. Read(Decode, y[1], y[2]) \in {y[2], Unsafe}
      BY <2>4 DEF Read, LongToNumber
    <3> QED BY <2>3, <3>3, <3>4
  <2>5. CASE IsMessage(y[1])
    <3> DEFINE type == InnerType(y[1])
               r == Message(Decode, type, FieldsOf(type), Encode[y])
    <3>1. Decode[<<y[1], Encode[y]>>] = Inner(y[1], r)
      BY <2>3, <2>5, MessageIsRead
    <3>2. Reads(Decode, n)
      BY <1>2
    <3>3. CASE r = Unsafe
      BY <3>1, <3>3 DEF Inner
    <3>4. CASE r # Unsafe
      <4>1. Arrived(r, InnerType(y[1]), FieldsOf(InnerType(y[1])), ToInner(y[1], y[2]))
        BY <2>5, <3>2, <3>4, MessageRead
      <4> HIDE DEF r
      <4>2. r = ToInner(y[1], y[2])
        BY <2>5, <4>1, AllArrived
      <4>3. FromInner(y[1], ToInner(y[1], y[2])) = y[2]
        BY <2>2, <2>5, GeneratedMessage, DataRepresentable, ValuesComeBack
      <4> QED BY <3>1, <3>4, <4>2, <4>3 DEF Inner
    <3> QED BY <3>3, <3>4
  <2> QED BY <2>4, <2>5
<1>3. MaxDepth + 1 \in A
  <2> HIDE DEF A
  <2> QED BY <1>1, <1>2, BelowAll, NatSetInduction
<1> QED BY <1>3, DataBelowAll DEF Reads

-----------------------------------------------------------------------------
(* Calls *)

\* What a receiver knows.
KnownFields(type) == {f \in FieldsOf(type) : f.no \notin lacks}

CallInv ==
  /\ method \in Methods
  /\ stage \in {"idle", "asked", "handled", "answered", "done", "failed"}
  /\ stage \in {"asked", "handled", "answered", "done"} =>
       /\ given \in Samples[MessageType]
       /\ message = FromPartial[<<MessageType, given>>]
       /\ wire = Encode[<<MessageType, message>>]
  /\ Received => Arrived(got, MessageType, KnownFields(MessageType), message)

CallBefore == WireAssumption /\ ObjectsAssumption /\ CallAssumption /\ CallInv

\* What is under way is an object that was given, completed.
LEMMA UnderWay ==
  ASSUME CallAssumption, NEW r \in Methods, NEW type \in {r.request, r.response}, NEW o \in Samples[type]
  PROVE  /\ Generated(type) /\ <<type, o>> \in Objects
         /\ <<type, FromPartial[<<type, o>>]>> \in Data
<1> DEFINE x == <<type, o>>
<1>1. Generated(type) /\ x \in Objects
  BY DEF CallAssumption
<1>2. x[1] = type
  OBVIOUS
<1> HIDE DEF x
<1>3. <<type, FromPartial[x]>> \in Data
  BY <1>1, <1>2 DEF Data
<1> QED BY <1>1, <1>3 DEF x

\* The other side has what it knows of the message, or the call fails.
LEMMA TakeArrives ==
  ASSUME WireAssumption, ObjectsAssumption, NEW type, Generated(type), NEW m, <<type, m>> \in Data,
         wire = Encode[<<type, m>>], NEW next, Take(type, next)
  PROVE  \/ stage' = "failed"
         \/ stage' = next /\ Arrived(got', type, KnownFields(type), m)
<1> DEFINE y == <<type, m>>
           known == KnownFields(type)
           r == Message(Decode, type, known, wire)
<1>1. y[1] = type /\ y[2] = m /\ y \in Data /\ wire = Encode[y]
  OBVIOUS
<1> HIDE DEF y
<1>2. IsMessage(type) /\ InnerType(type) = type /\ ToInner(type, m) = m
  BY GeneratedMessage
<1>3. MaxDepth \in Nat /\ y \in DataBelow(MaxDepth + 1) /\ MaxDepth + 1 \in Nat
  BY <1>1, BelowAll, DataBelowAll DEF ObjectsAssumption
<1>4. Reads(Decode, MaxDepth)
  BY <1>3, MessagesComeBack, DataBelowAll DEF Reads
<1>5. stage' = (IF r = Unsafe THEN "failed" ELSE next) /\ got' = (IF r = Unsafe THEN Nothing ELSE r)
  BY DEF Take, KnownFields
<1>6. known \subseteq FieldsOf(type)
  BY DEF KnownFields
<1>7. r = Message(Decode, InnerType(y[1]), known, Encode[y])
  BY <1>1, <1>2
<1> HIDE DEF r, known
<1>8. ASSUME r # Unsafe PROVE Arrived(r, InnerType(y[1]), known, ToInner(y[1], y[2]))
  BY <1>1, <1>2, <1>3, <1>4, <1>6, <1>7, <1>8, MessageRead
<1> QED BY <1>1, <1>2, <1>5, <1>8 DEF known

LEMMA CallInitially == ASSUME Init PROVE CallInv
  BY DEF Init, CallInv, Received

LEMMA GiveKeeps ==
  ASSUME CallBefore, NEW type, NEW o \in Samples[type], Give(type, o), MessageType' = type,
         stage' \in {"asked", "answered"}
  PROVE  CallInv'
<1>1. /\ given' = o /\ message' = FromPartial[<<type, o>>]
      /\ wire' = Encode[<<type, message'>>] /\ method' = method
  BY DEF Give
<1>2. method' \in Methods /\ ~ Received'
  BY <1>1 DEF CallBefore, CallInv, Received
<1> QED BY <1>1, <1>2 DEF CallInv

LEMMA TakeKeeps ==
  ASSUME CallBefore, NEW type, type = MessageType, stage \in {"asked", "answered"}, NEW next,
         next \in {"handled", "done"}, Take(type, next), stage' = next => MessageType' = type
  PROVE  CallInv'
<1>1. /\ given \in Samples[type] /\ message = FromPartial[<<type, given>>]
      /\ wire = Encode[<<type, message>>] /\ method \in Methods
  BY DEF CallBefore, CallInv
<1>2. type \in {method.request, method.response}
  BY DEF MessageType
<1>3. Generated(type) /\ <<type, message>> \in Data
  BY <1>1, <1>2, UnderWay DEF CallBefore
<1>4. UNCHANGED <<method, lacks, given, message, wire>>
  BY DEF Take
<1>5. \/ stage' = "failed"
      \/ stage' = next /\ Arrived(got', type, KnownFields(type), message)
  BY <1>1, <1>3, TakeArrives DEF CallBefore
<1>6. CASE stage' = "failed"
  BY <1>1, <1>4, <1>6 DEF CallInv, Received
<1>7. CASE stage' = next /\ Arrived(got', type, KnownFields(type), message)
  <2>1. MessageType' = type /\ stage' \in {"handled", "done"}
    BY <1>7
  <2>2. KnownFields(type)' = KnownFields(type)
    BY <1>4 DEF KnownFields
  <2>3. Arrived(got', MessageType', KnownFields(MessageType)', message')
    BY <1>4, <1>7, <2>1, <2>2 DEF KnownFields
  <2>4. Arrived(got, MessageType, KnownFields(MessageType), message)'
    BY <2>3 DEF Arrived
  <2>5. (given \in Samples[MessageType] /\ message = FromPartial[<<MessageType, given>>]
         /\ wire = Encode[<<MessageType, message>>] /\ method \in Methods)'
    BY <1>1, <1>4, <2>1
  <2> QED BY <2>1, <2>4, <2>5 DEF CallInv
<1> QED BY <1>5, <1>6, <1>7

LEMMA CallStep == ASSUME CallBefore, [Next]_vars PROVE CallInv'
<1>1. CASE Ask
  <2>1. PICK o \in Samples[method.request] : Give(method.request, o)
    BY <1>1 DEF Ask
  <2>2. stage' = "asked" /\ MessageType' = method.request
    BY <1>1, <2>1 DEF Ask, Give, MessageType
  <2> QED BY <2>1, <2>2, GiveKeeps
<1>2. CASE Answer
  <2>1. PICK o \in Samples[method.response] : Give(method.response, o)
    BY <1>2 DEF Answer
  <2>2. stage' = "answered" /\ MessageType' = method.response
    BY <1>2, <2>1 DEF Answer, Give, MessageType
  <2> QED BY <2>1, <2>2, GiveKeeps
<1>3. CASE Handle
  <2>1. /\ stage = "asked" /\ Take(method.request, "handled") /\ method.request = MessageType
        /\ stage' = "handled" => MessageType' = method.request
    BY <1>3 DEF Handle, Take, MessageType
  <2> QED BY <2>1, TakeKeeps
<1>4. CASE Return
  <2>1. /\ stage = "answered" /\ Take(method.response, "done") /\ method.response = MessageType
        /\ stage' = "done" => MessageType' = method.response
    BY <1>4 DEF Return, Take, MessageType
  <2> QED BY <2>1, TakeKeeps
<1>5. CASE UNCHANGED vars
  BY <1>5 DEF vars, CallBefore, CallInv, Received, MessageType, KnownFields, Arrived
<1> QED BY <1>1, <1>2, <1>3, <1>4, <1>5 DEF Next

\* An optional field is undefined if and only if it was not given, and is never
\* null.
LEMMA OptionalField ==
  ASSUME WireAssumption, ObjectsAssumption, NEW x \in Objects, Generated(x[1]),
         NEW f \in FieldsOf(x[1]), f.rule = "optional"
  PROVE  /\ Given(x[2], f.name) => FromPartial[x][f.name] \notin Absent
         /\ ~ Given(x[2], f.name) => FromPartial[x][f.name] = Undefined
<1> DEFINE v == PartialValue(FromPartial, f, x[2][f.name])
<1>1. FromPartial[x] = Completion(FromPartial, x[1], x[2])
  BY FromPartialIs
<1>2. x[1] \in DOMAIN Messages
  BY GeneratedMessage DEF ObjectsAssumption, WellFormed
<1>3. Named(FieldsOf(x[1]), f.name) = f /\ f.name \in Names(FieldsOf(x[1]))
  BY <1>2, FieldsOfType DEF Names
<1>4. FromPartial[x][f.name] = IF Given(x[2], f.name) THEN v ELSE Undefined
  BY <1>1, <1>3 DEF Completion, Base
<1>5. ASSUME Given(x[2], f.name) PROVE v \notin Absent
  <2>1. MaxDepth \in Nat /\ x \in Below(MaxDepth + 1)
    BY BelowAll DEF ObjectsAssumption
  <2>2. /\ \A w \in Parts(f, v) : <<f.kind, w>> \in DataBelow(MaxDepth)
        /\ ~ Generated(f.kind) => v = x[2][f.name]
    BY <1>5, <2>1, FieldCompleted
  <2>3. CASE Generated(f.kind)
    <3>1. v \in Parts(f, v)
      BY DEF Parts
    <3> HIDE DEF v
    <3>2. <<f.kind, v>> \in Data
      BY <2>1, <2>2, <3>1, DataBelowAll
    <3> QED BY <2>3, <3>2 DEF ObjectsAssumption, Apart
  <2>4. CASE ~ Generated(f.kind)
    BY <1>5, <2>2, <2>4 DEF Given
  <2> QED BY <2>3, <2>4
<1> QED BY <1>4, <1>5

LEMMA CallsArrive == ASSUME CallBefore PROVE FieldsArrive
<1> DEFINE type == MessageType
<1> USE DEF CallBefore
<1>1. ASSUME Received, NEW k \in Names(FieldsOf(type)) \ Unknown PROVE got[k] = message[k]
  <2>1. Arrived(got, type, KnownFields(type), message)
    BY <1>1 DEF CallInv
  <2>2. PICK f \in FieldsOf(type) : f.name = k
    BY <1>1 DEF Names
  <2>3. f \in KnownFields(type)
    BY <1>1, <2>2 DEF Unknown, KnownFields
  <2> QED BY <2>1, <2>2, <2>3 DEF Arrived
<1>2. ASSUME stage = "done", Unknown = {}
      PROVE  /\ got = message
             /\ "null_response" \in DOMAIN got /\ "rec" \in DOMAIN got
                  => (WrapNullResponse(got) = Null <=> Given(given, "null_response"))
  <2> DEFINE x == <<type, given>>
             y == <<type, message>>
  <2>1. /\ Arrived(got, type, KnownFields(type), message)
        /\ given \in Samples[type] /\ message = FromPartial[x]
        /\ type = method.response /\ method \in Methods
    BY <1>2 DEF CallInv, Received, MessageType
  <2>2. Generated(type) /\ x \in Objects /\ y \in Data
    BY <2>1, UnderWay
  <2>3. KnownFields(type) = FieldsOf(type)
    BY <1>2 DEF KnownFields, Unknown
  <2>4. y[1] = type /\ y[2] = message /\ x[1] = type /\ x[2] = given
    OBVIOUS
  <2> HIDE DEF type, x, y
  <2>5. got = message
    <3>1. /\ IsMessage(y[1]) /\ InnerType(y[1]) = type /\ ToInner(y[1], y[2]) = message
      BY <2>2, <2>4, GeneratedMessage
    <3>2. MaxDepth \in Nat /\ y \in DataBelow(MaxDepth + 1)
      BY <2>2, DataBelowAll DEF ObjectsAssumption
    <3> QED BY <2>1, <2>3, <3>1, <3>2, AllArrived
  <2>6. ASSUME "null_response" \in DOMAIN got, "rec" \in DOMAIN got
        PROVE  (WrapNullResponse(got) = Null <=> Given(given, "null_response"))
    <3>1. DOMAIN got = Names(FieldsOf(type))
      BY <2>1 DEF Arrived
    <3>2. PICK f, e \in FieldsOf(type) : f.name = "null_response" /\ e.name = "rec"
      BY <2>6, <3>1 DEF Names
    <3>3. type \in DOMAIN Messages
      BY <2>2, <2>4, GeneratedMessage DEF ObjectsAssumption, WellFormed
    <3>4. f.rule = "optional" /\ e.rule = "optional"
      BY <3>2, <3>3 DEF CallAssumption
    <3>5. /\ Given(given, "null_response") => message.null_response \notin Absent
          /\ ~ Given(given, "null_response") => message.null_response = Undefined
      BY <2>1, <2>2, <2>4, <3>2, <3>4, OptionalField
    <3>6. /\ Given(given, "rec") => message.rec \notin Absent
          /\ ~ Given(given, "rec") => message.rec = Undefined
      BY <2>1, <2>2, <2>4, <3>2, <3>4, OptionalField
    <3>7. Undefined # Null
      BY DEF ObjectsAssumption, Apart
    <3> DEFINE n == message.null_response
               r == message.rec
    <3>8. WrapNullResponse(got) = IF n # Undefined THEN Null ELSE r
      BY <2>5 DEF WrapNullResponse
    <3>9. CASE Given(given, "null_response")
      BY <3>5, <3>8, <3>9 DEF Absent
    <3>10. CASE ~ Given(given, "null_response")
      <4>1. r # Null
        BY <3>6, <3>7 DEF Absent
      <4> QED BY <3>5, <3>8, <3>10, <4>1
    <3> QED BY <3>9, <3>10
  <2> QED BY <2>5, <2>6
<1>3. NullIsNull
  BY <1>2 DEF NullIsNull
<1> QED BY <1>1, <1>3 DEF FieldsArrive

\* Every field the receiver of a message knows arrives as it was given, for any
\* interface and any objects that its messages and those in them may be given
\* as; a missing record is told from a record with nothing in it.
THEOREM CallsDeliver ==
  ASSUME WireAssumption, ObjectsAssumption, CallAssumption
  PROVE  Spec => []FieldsArrive
<1>1. Init => CallInv
  BY CallInitially
<1>2. CallInv /\ [Next]_vars => CallInv'
  BY CallStep DEF CallBefore
<1>3. CallInv => FieldsArrive
  BY CallsArrive DEF CallBefore
<1> QED BY <1>1, <1>2, <1>3, PTL DEF Spec

-----------------------------------------------------------------------------
(* The JSON form. *)

\* The first values of an enum and the names they are given are the same.
LEMMA EnumsComeBack ==
  ASSUME NEW kind \in DOMAIN Enums, NEW v \in Unrecognized .. Len(Enums[kind]) - 1
  PROVE  /\ EnumFromJSON(kind, EnumToJSON(kind, v)) = v
         /\ EnumToJSON(kind, v) \in ToSet(Enums[kind]) \union {"UNRECOGNIZED"}
<1> DEFINE names == Enums[kind]
           n == Len(names)
<1>1. /\ n \in {1, 2} /\ DOMAIN names = 1 .. n
      /\ \A i \in 1 .. n : names[i] # "UNRECOGNIZED"
      /\ \A i, j \in 1 .. n : names[i] = names[j] => i = j
  BY DEF Enums
<1> HIDE DEF names
<1>2. ToSet(names) = {names[i] : i \in 1 .. n}
  BY <1>1 DEF ToSet
<1> HIDE DEF n
<1>3. v \in Int /\ v + 1 \in 0 .. n /\ Unrecognized = 0 - 1
  BY <1>1 DEF Unrecognized, n, names
<1>4. CASE v + 1 = 0
  <2>1. EnumToJSON(kind, v) = "UNRECOGNIZED"
    BY <1>1, <1>4 DEF EnumToJSON, names
  <2>2. "UNRECOGNIZED" \notin ToSet(names)
    BY <1>1, <1>2
  <2>3. EnumFromJSON(kind, "UNRECOGNIZED") = Unrecognized
    BY <2>2 DEF EnumFromJSON, names
  <2> QED BY <1>3, <1>4, <2>1, <2>3
<1>5. CASE v + 1 \in 1 .. n
  <2> DEFINE i == v + 1
  <2>1. i \in 1 .. n /\ i - 1 = v
    BY <1>3, <1>5
  <2>2. EnumToJSON(kind, v) = names[i] /\ names[i] \in ToSet(names)
    BY <1>1, <1>2, <1>5 DEF EnumToJSON, names
  <2> HIDE DEF i
  <2> DEFINE s == names[i]
             I == {j \in 1 .. n : names[j] = s}
  <2>3. I = {i}
    BY <1>1, <2>1
  <2>4. SelectInSeq(names, LAMBDA x : x = s) = IF I # {} THEN Min(I) ELSE 0
    BY DEF SelectInSeq, n
  <2>5. Min(I) = i
    BY <1>1, <2>1, <2>3 DEF Min
  <2>6. SelectInSeq(names, LAMBDA x : x = s) = i
    BY <2>3, <2>4, <2>5
  <2>7. EnumFromJSON(kind, s) = i - 1
    BY <2>2, <2>6 DEF EnumFromJSON, names
  <2> QED BY <2>1, <2>2, <2>7 DEF names
<1> QED BY <1>1, <1>3, <1>4, <1>5 DEF names

\* A kind is an enum, a generated message, or something else.
LEMMA PartOfJSON ==
  ASSUME NEW g, NEW kind, NEW x
  PROVE  /\ kind \in DOMAIN Enums =>
              PartToJSON(g, kind, x) = EnumToJSON(kind, x) /\ PartFromJSON(g, kind, x) = EnumFromJSON(kind, x)
         /\ Generated(kind) => /\ PartToJSON(g, kind, x) = g[<<kind, x>>]
                               /\ PartFromJSON(g, kind, x) = g[<<kind, x>>]
         /\ kind \notin DOMAIN Enums /\ ~ Generated(kind) =>
              PartToJSON(g, kind, x) = x /\ PartFromJSON(g, kind, x) = x
<1>1. ~ (kind \in DOMAIN Enums /\ Generated(kind))
  BY DEF Generated, IsMessage, Varints
<1> QED BY <1>1 DEF PartToJSON, PartFromJSON

LEMMA FormsBelowAll ==
  ASSUME ObjectsAssumption
  PROVE  /\ FormsBelow(MaxDepth + 1) = Forms
         /\ FormsBelow(0) = {}
         /\ \A n \in Nat : FormsBelow(n) \subseteq FormsBelow(n + 1) /\ FormsBelow(n) \subseteq Forms
  BY DataBelowAll DEF FormsBelow, Forms

\* The fields of the form of a message, and what they hold.
FormShaped(n, y) ==
  /\ y[2] = [k \in Names(FieldsOf(y[1])) |-> y[2][k]]
  /\ Names(FilledJSON(y[1], y[2])) \subseteq Names(FieldsOf(y[1]))
  /\ \A f \in FieldsOf(y[1]) :
       /\ Named(FieldsOf(y[1]), f.name) = f
       /\ f.name \in Names(FilledJSON(y[1], y[2])) <=> y[2][f.name] # Base(f)
       /\ y[2][f.name] # Base(f) =>
            /\ Named(FilledJSON(y[1], y[2]), f.name) = f
            /\ Regular(f, y[2][f.name])
            /\ f.rule = "map" => f.kind \notin DOMAIN Enums /\ ~ Generated(f.kind)
            /\ \A w \in Parts(f, y[2][f.name]) : <<f.kind, w>> \in DataBelow(n)
            /\ ~ Generated(f.kind) => y[2][f.name] \notin Absent

LEMMA FormIsShaped ==
  ASSUME WireAssumption, ObjectsAssumption, NEW n \in Nat, NEW y \in DataBelow(n + 1), Generated(y[1])
  PROVE  FormShaped(n, y)
<1> DEFINE type == y[1]
           m == y[2]
           filled == FilledJSON(type, m)
<1>1. IsMessage(type) /\ InnerType(type) = type /\ ToInner(type, m) = m
  BY GeneratedMessage
<1>2. /\ type \in DOMAIN Messages
      /\ m = [k \in Names(FieldsOf(type)) |-> m[k]]
      /\ \A f \in FieldsOf(type) :
           /\ Regular(f, m[f.name])
           /\ m[f.name] # Base(f) =>
                /\ \A w \in Parts(f, m[f.name]) : <<f.kind, w>> \in DataBelow(n)
                /\ ~ Generated(f.kind) => m[f.name] \notin Absent
  BY <1>1, DataShaped DEF Shaped
<1>3. \A f \in FieldsOf(type) : /\ Named(FieldsOf(type), f.name) = f
                                /\ f.rule = "map" => f.kind \in EntryKinds
  BY <1>2, FieldsOfType
<1>4. \A f, e \in FieldsOf(type) : f.name = e.name => f = e
  BY <1>3
<1>5. \A kind \in EntryKinds : kind \notin DOMAIN Enums /\ ~ Generated(kind)
  BY DEF EntryKinds, Enums, Generated
<1> HIDE DEF type, m
<1>6. /\ filled \subseteq FieldsOf(type)
      /\ \A f \in FieldsOf(type) : f \in filled <=> m[f.name] # Base(f)
  BY DEF FilledJSON
<1>7. Names(filled) \subseteq Names(FieldsOf(type))
  BY <1>6 DEF Names
<1> HIDE DEF filled
<1>8. ASSUME NEW f \in FieldsOf(type)
      PROVE  f.name \in Names(filled) <=> f \in filled
  BY <1>4, <1>6 DEF Names
<1>9. ASSUME NEW f \in filled PROVE Named(filled, f.name) = f
  BY <1>4, <1>6 DEF Named
<1>10. \A f \in FieldsOf(type) :
         /\ f.name \in Names(filled) <=> m[f.name] # Base(f)
         /\ m[f.name] # Base(f) => Named(filled, f.name) = f
  BY <1>6, <1>8, <1>9
<1> QED BY <1>2, <1>3, <1>5, <1>7, <1>10 DEF FormShaped, filled, type, m

\* What a field is turned into depends on what its parts are turned into.
LEMMA ValueToJSONLocal ==
  ASSUME NEW f, NEW v, Regular(f, v), f.rule = "map" => f.kind \notin DOMAIN Enums /\ ~ Generated(f.kind),
         NEW g, NEW h, \A w \in Parts(f, v) : g[<<f.kind, w>>] = h[<<f.kind, w>>]
  PROVE  ValueToJSON(g, f, v) = ValueToJSON(h, f, v)
<1>1. ASSUME NEW w \in Parts(f, v)
      PROVE  PartToJSON(g, f.kind, w) = PartToJSON(h, f.kind, w)
  <2>1. g[<<f.kind, w>>] = h[<<f.kind, w>>]
    OBVIOUS
  <2> QED BY <2>1 DEF PartToJSON
<1>2. CASE f.rule \in {"plain", "optional"}
  BY <1>1, <1>2 DEF ValueToJSON, Parts
<1>3. CASE f.rule = "map"
  <2>1. PartToJSON(g, f.kind, v) = v /\ PartToJSON(h, f.kind, v) = v
    BY <1>3 DEF PartToJSON
  <2> QED BY <1>3, <2>1 DEF ValueToJSON
<1>4. CASE f.rule = "repeated"
  <2>1. \A i \in DOMAIN v : v[i] \in Parts(f, v)
    BY <1>4 DEF Parts, ToSet
  <2> QED BY <1>1, <1>4, <2>1 DEF ValueToJSON
<1> QED BY <1>2, <1>3, <1>4 DEF Regular

LEMMA FormLocal ==
  ASSUME WireAssumption, ObjectsAssumption, NEW n \in Nat, NEW y \in DataBelow(n + 1), Generated(y[1]),
         NEW g, NEW h, Same(g, h, DataBelow(n))
  PROVE  FormOf(g, y[1], y[2]) = FormOf(h, y[1], y[2])
<1> DEFINE type == y[1]
           m == y[2]
           filled == FilledJSON(type, m)
<1>1. FormShaped(n, y)
  BY FormIsShaped
<1>2. ASSUME NEW k \in Names(filled)
      PROVE  ValueToJSON(g, Named(filled, k), m[k]) = ValueToJSON(h, Named(filled, k), m[k])
  <2>1. PICK f \in FieldsOf(type) : f.name = k
    BY <1>1, <1>2 DEF FormShaped, Names
  <2>2. /\ Named(filled, k) = f /\ Regular(f, m[k])
        /\ f.rule = "map" => f.kind \notin DOMAIN Enums /\ ~ Generated(f.kind)
        /\ \A w \in Parts(f, m[k]) : <<f.kind, w>> \in DataBelow(n)
    BY <1>1, <1>2, <2>1 DEF FormShaped
  <2>3. \A w \in Parts(f, m[k]) : g[<<f.kind, w>>] = h[<<f.kind, w>>]
    BY <2>2 DEF Same
  <2> HIDE DEF filled, m, type
  <2> QED BY <2>2, <2>3, ValueToJSONLocal
<1> QED BY <1>2 DEF FormOf

LEMMA ToJSONIs ==
  ASSUME WireAssumption, ObjectsAssumption
  PROVE  \A y \in Data : ToJSON[y] = IF Generated(y[1]) THEN FormOf(ToJSON, y[1], y[2]) ELSE y[2]
<1> DEFINE Def(g, x) == IF Generated(x[1]) THEN FormOf(g, x[1], x[2]) ELSE x[2]
           Fun(g, S) == g = [x \in S |-> Def(g, x)]
           A == {n \in Nat : \E g : Fun(g, DataBelow(n))}
           F == CHOOSE g : Fun(g, Data)
<1>1. ToJSON = F
  BY DEF ToJSON
<1>2. ASSUME NEW n \in Nat, NEW x \in DataBelow(n + 1), NEW g, NEW h, Same(g, h, DataBelow(n))
      PROVE  Def(g, x) = Def(h, x)
  BY <1>2, FormLocal
<1> HIDE DEF Def
<1>3. 0 \in A
  <2> DEFINE g == [x \in DataBelow(0) |-> 0]
  <2>1. Fun(g, DataBelow(0))
    BY DataBelowAll
  <2> QED BY <2>1
<1>4. ASSUME NEW n \in Nat, n \in A PROVE n + 1 \in A
  <2>1. PICK g : Fun(g, DataBelow(n))
    BY <1>4
  <2> DEFINE h == [x \in DataBelow(n + 1) |-> Def(g, x)]
  <2>2. Same(g, h, DataBelow(n))
    BY <2>1, DataBelowAll DEF Same
  <2>3. \A x \in DataBelow(n + 1) : h[x] = Def(h, x)
    <3>1. \A x \in DataBelow(n + 1) : h[x] = Def(g, x)
      OBVIOUS
    <3> HIDE DEF h
    <3> QED BY <1>2, <2>2, <3>1
  <2>4. h = [x \in DataBelow(n + 1) |-> h[x]]
    OBVIOUS
  <2> HIDE DEF h
  <2>5. Fun(h, DataBelow(n + 1))
    BY <2>3, <2>4
  <2> QED BY <2>5
<1>5. MaxDepth + 1 \in A
  <2> HIDE DEF A
  <2> QED BY <1>3, <1>4, BelowAll, NatSetInduction
<1>6. Fun(F, Data)
  BY <1>5, DataBelowAll
<1> HIDE DEF F
<1>7. \A x \in Data : F[x] = Def(F, x)
  BY <1>6
<1> QED BY <1>1, <1>7 DEF Def

\* The forms of one type.
FormsOf(type) == {y[2] : y \in {z \in Forms : z[1] = type}}
EnumNames(kind) == ToSet(Enums[kind]) \union {"UNRECOGNIZED"}

\* An enum or a message has a form of its kind, which is there.
LEMMA PartThere ==
  ASSUME WireAssumption, ObjectsAssumption, NEW kind, NEW w, <<kind, w>> \in Data
  PROVE  /\ kind \in DOMAIN Enums => /\ PartToJSON(ToJSON, kind, w) \in EnumNames(kind)
                                     /\ PartToJSON(ToJSON, kind, w) \notin Absent
         /\ Generated(kind) => /\ PartToJSON(ToJSON, kind, w) \in FormsOf(kind)
                               /\ PartToJSON(ToJSON, kind, w) \notin Absent
                               /\ kind \in DOMAIN Messages
<1> DEFINE y == <<kind, w>>
           J == PartToJSON(ToJSON, kind, w)
<1>1. y \in Data /\ y[1] = kind /\ y[2] = w
  OBVIOUS
<1> HIDE DEF y
<1>2. ASSUME kind \in DOMAIN Enums PROVE J \in EnumNames(kind) /\ J \notin Absent
  <2>1. ~ Generated(kind)
    BY <1>2 DEF Generated, IsMessage, Varints
  <2>2. w \in Unrecognized .. Len(Enums[kind]) - 1
    BY <1>1, <1>2, <2>1, DataRepresentable DEF Representable
  <2>3. J = EnumToJSON(kind, w)
    BY <1>2, PartOfJSON
  <2>4. EnumToJSON(kind, w) \in EnumNames(kind)
    BY <1>2, <2>2, EnumsComeBack DEF EnumNames
  <2>5. Absent \intersect EnumNames(kind) = {}
    BY <1>2 DEF ObjectsAssumption, Apart, EnumNames
  <2> QED BY <2>3, <2>4, <2>5
<1>3. ASSUME Generated(kind)
      PROVE  J \in FormsOf(kind) /\ J \notin Absent /\ kind \in DOMAIN Messages
  <2> DEFINE z == <<kind, ToJSON[y]>>
  <2>1. J = ToJSON[y]
    BY <1>3, PartOfJSON DEF y
  <2>2. z \in Forms /\ z[1] = kind /\ z[2] = ToJSON[y]
    BY <1>1 DEF Forms
  <2> HIDE DEF z, J
  <2>3. J \in FormsOf(kind)
    BY <2>1, <2>2 DEF FormsOf
  <2>4. J \notin Absent
    BY <1>3, <2>1, <2>2 DEF ObjectsAssumption, Apart
  <2>5. kind \in DOMAIN Messages
    <3>1. IsMessage(kind) /\ InnerType(kind) = kind
      BY <1>3, GeneratedMessage
    <3>2. MaxDepth \in Nat /\ y \in DataBelow(MaxDepth + 1)
      BY <1>1, DataBelowAll DEF ObjectsAssumption
    <3>3. Shaped(MaxDepth, y)
      BY <1>1, <3>1, <3>2, DataShaped
    <3> QED BY <1>1, <3>1, <3>3 DEF Shaped
  <2> QED BY <2>3, <2>4, <2>5 DEF J
<1> QED BY <1>2, <1>3 DEF J

\* What a field is turned into is there.
LEMMA FieldThere ==
  ASSUME WireAssumption, ObjectsAssumption, NEW f, NEW v, Regular(f, v), v # Base(f),
         f.rule = "map" => f.kind \notin DOMAIN Enums /\ ~ Generated(f.kind),
         \A w \in Parts(f, v) : <<f.kind, w>> \in Data,
         ~ Generated(f.kind) => v \notin Absent
  PROVE  ValueToJSON(ToJSON, f, v) \notin Absent
<1> DEFINE J(w) == PartToJSON(ToJSON, f.kind, w)
<1>1. CASE f.rule \in {"plain", "optional", "map"}
  <2>1. ValueToJSON(ToJSON, f, v) = J(v)
    BY <1>1 DEF ValueToJSON
  <2>2. CASE f.kind \in DOMAIN Enums \/ Generated(f.kind)
    <3>1. <<f.kind, v>> \in Data
      BY <1>1, <2>2 DEF Parts
    <3> QED BY <2>1, <2>2, <3>1, PartThere
  <2>3. CASE f.kind \notin DOMAIN Enums /\ ~ Generated(f.kind)
    <3>1. J(v) = v
      BY <2>3, PartOfJSON
    <3> QED BY <2>1, <2>3, <3>1
  <2> QED BY <2>2, <2>3
<1>2. CASE f.rule = "repeated"
  <2> DEFINE T == ToSet(v)
             js == [i \in DOMAIN v |-> J(v[i])]
  <2>1. v \in Seq(T) /\ v # << >> /\ Parts(f, v) = T
    BY <1>2 DEF Regular, Base, Parts
  <2>2. ValueToJSON(ToJSON, f, v) = js
    BY <1>2 DEF ValueToJSON
  <2>3. \A i \in DOMAIN v : <<f.kind, v[i]>> \in Data
    BY <2>1 DEF ToSet
  <2> HIDE DEF T
  <2>4. Len(v) \in Nat /\ DOMAIN v = 1 .. Len(v) /\ v = [i \in 1 .. Len(v) |-> v[i]] /\ 1 \in DOMAIN v
    <3>1. Len(v) \in Nat /\ DOMAIN v = 1 .. Len(v) /\ v = [i \in 1 .. Len(v) |-> v[i]]
      BY <2>1, LenProperties
    <3>2. Len(v) # 0
      BY <2>1, EmptySeq
    <3> QED BY <3>1, <3>2
  <2>5. ASSUME NEW S, \A i \in DOMAIN v : J(v[i]) \in S PROVE js \in Seq(S)
    <3>1. js = [i \in 1 .. Len(v) |-> js[i]] /\ \A i \in 1 .. Len(v) : js[i] \in S
      BY <2>4, <2>5
    <3> HIDE DEF js
    <3> QED BY <2>4, <3>1
  <2>6. CASE f.kind \in DOMAIN Enums
    <3>1. js \in Seq(EnumNames(f.kind))
      BY <2>3, <2>5, <2>6, PartThere
    <3>2. Absent \intersect Seq(EnumNames(f.kind)) = {}
      BY <2>6 DEF ObjectsAssumption, Apart, EnumNames
    <3> HIDE DEF js
    <3> QED BY <2>2, <3>1, <3>2
  <2>7. CASE Generated(f.kind)
    <3>1. js \in Seq(FormsOf(f.kind)) /\ f.kind \in DOMAIN Messages
      BY <2>3, <2>4, <2>5, <2>7, PartThere
    <3>2. Absent \intersect Seq(FormsOf(f.kind)) = {}
      BY <3>1 DEF ObjectsAssumption, Apart, FormsOf
    <3> HIDE DEF js
    <3> QED BY <2>2, <3>1, <3>2
  <2>8. CASE f.kind \notin DOMAIN Enums /\ ~ Generated(f.kind)
    <3>1. \A i \in DOMAIN v : J(v[i]) = v[i]
      BY <2>8, PartOfJSON
    <3>2. js = v
      BY <2>4, <3>1
    <3> QED BY <2>2, <2>8, <3>2
  <2> QED BY <2>6, <2>7, <2>8
<1> QED BY <1>1, <1>2 DEF Regular

\* The form of a message: the fields that are there are those which are not as in
\* a new one.
FormGiven(y) ==
  \A f \in FieldsOf(y[1]) :
    /\ Given(ToJSON[y], f.name) <=> y[2][f.name] # Base(f)
    /\ Given(ToJSON[y], f.name) => ToJSON[y][f.name] = ValueToJSON(ToJSON, f, y[2][f.name])

LEMMA FormIsGiven ==
  ASSUME WireAssumption, ObjectsAssumption, NEW n \in Nat, NEW y \in DataBelow(n + 1), Generated(y[1])
  PROVE  FormGiven(y)
<1> DEFINE m == y[2]
           o == ToJSON[y]
           filled == FilledJSON(y[1], m)
<1>1. FormShaped(n, y) /\ y \in Data
  BY FormIsShaped, DataBelowAll
<1>2. o = [k \in Names(filled) |-> ValueToJSON(ToJSON, Named(filled, k), m[k])]
  BY <1>1, ToJSONIs DEF FormOf
<1>3. ASSUME NEW f \in FieldsOf(y[1])
      PROVE  /\ Given(o, f.name) <=> m[f.name] # Base(f)
             /\ Given(o, f.name) => o[f.name] = ValueToJSON(ToJSON, f, m[f.name])
  <2>1. f.name \in Names(filled) <=> m[f.name] # Base(f)
    BY <1>1 DEF FormShaped
  <2>2. CASE m[f.name] = Base(f)
    <3>1. f.name \notin DOMAIN o
      BY <1>2, <2>1, <2>2
    <3> QED BY <2>2, <3>1 DEF Given
  <2>3. CASE m[f.name] # Base(f)
    <3>1. /\ Named(filled, f.name) = f /\ Regular(f, m[f.name])
          /\ f.rule = "map" => f.kind \notin DOMAIN Enums /\ ~ Generated(f.kind)
          /\ \A w \in Parts(f, m[f.name]) : <<f.kind, w>> \in DataBelow(n)
          /\ ~ Generated(f.kind) => m[f.name] \notin Absent
      BY <1>1, <2>3 DEF FormShaped
    <3>2. f.name \in DOMAIN o /\ o[f.name] = ValueToJSON(ToJSON, f, m[f.name])
      BY <1>2, <2>1, <2>3, <3>1
    <3>3. \A w \in Parts(f, m[f.name]) : <<f.kind, w>> \in Data
      BY <3>1, DataBelowAll
    <3> HIDE DEF m, o, filled
    <3>4. ValueToJSON(ToJSON, f, m[f.name]) \notin Absent
      BY <2>3, <3>1, <3>3, FieldThere
    <3> QED BY <2>3, <3>2, <3>4 DEF Given
  <2> QED BY <2>2, <2>3
<1> QED BY <1>3 DEF FormGiven

\* What a field is read from its form as depends on what its parts are read as.
LEMMA ValueFromJSONLocal ==
  ASSUME NEW f, NEW v, Regular(f, v), f.rule = "map" => f.kind \notin DOMAIN Enums /\ ~ Generated(f.kind),
         NEW g, NEW h,
         \A w \in Parts(f, v) : PartFromJSON(g, f.kind, PartToJSON(ToJSON, f.kind, w))
                                = PartFromJSON(h, f.kind, PartToJSON(ToJSON, f.kind, w))
  PROVE  ValueFromJSON(g, f, ValueToJSON(ToJSON, f, v)) = ValueFromJSON(h, f, ValueToJSON(ToJSON, f, v))
<1> DEFINE J(w) == PartToJSON(ToJSON, f.kind, w)
<1>1. CASE f.rule \in {"plain", "optional"}
  BY <1>1 DEF ValueToJSON, ValueFromJSON, Parts
<1>2. CASE f.rule = "map"
  <2>1. \A x : PartFromJSON(g, f.kind, x) = x /\ PartFromJSON(h, f.kind, x) = x
    BY <1>2 DEF PartFromJSON
  <2> QED BY <1>2, <2>1 DEF ValueFromJSON
<1>3. CASE f.rule = "repeated"
  <2> DEFINE js == [i \in DOMAIN v |-> J(v[i])]
  <2>1. ValueToJSON(ToJSON, f, v) = js
    BY <1>3 DEF ValueToJSON
  <2>2. \A i \in DOMAIN v : PartFromJSON(g, f.kind, js[i]) = PartFromJSON(h, f.kind, js[i])
    BY <1>3 DEF Parts, ToSet
  <2>3. DOMAIN js = DOMAIN v
    OBVIOUS
  <2> HIDE DEF js
  <2> QED BY <1>3, <2>1, <2>2, <2>3 DEF ValueFromJSON
<1> QED BY <1>1, <1>2, <1>3 DEF Regular

LEMMA MessageOfLocal ==
  ASSUME WireAssumption, ObjectsAssumption, NEW n \in Nat, NEW z \in FormsBelow(n + 1), Generated(z[1]),
         NEW g, NEW h, Same(g, h, FormsBelow(n))
  PROVE  MessageOf(g, z[1], z[2]) = MessageOf(h, z[1], z[2])
<1>1. PICK y \in DataBelow(n + 1) : z = <<y[1], ToJSON[y]>>
  BY DEF FormsBelow
<1>2. z[1] = y[1] /\ z[2] = ToJSON[y]
  BY <1>1
<1>3. FormShaped(n, y) /\ FormGiven(y)
  BY <1>2, FormIsShaped, FormIsGiven
<1> DEFINE fields == FieldsOf(z[1])
           m == y[2]
<1>4. ASSUME NEW k \in Names(fields), Given(z[2], k)
      PROVE  ValueFromJSON(g, Named(fields, k), z[2][k]) = ValueFromJSON(h, Named(fields, k), z[2][k])
  <2>1. PICK f \in fields : f.name = k
    BY DEF Names
  <2>2. m[k] # Base(f) /\ z[2][k] = ValueToJSON(ToJSON, f, m[k])
    BY <1>2, <1>3, <1>4, <2>1 DEF FormGiven
  <2>3. /\ Named(fields, k) = f /\ Regular(f, m[k])
        /\ f.rule = "map" => f.kind \notin DOMAIN Enums /\ ~ Generated(f.kind)
        /\ \A w \in Parts(f, m[k]) : <<f.kind, w>> \in DataBelow(n)
    BY <1>2, <1>3, <2>1, <2>2 DEF FormShaped
  <2>4. ASSUME NEW w \in Parts(f, m[k])
        PROVE  PartFromJSON(g, f.kind, PartToJSON(ToJSON, f.kind, w))
               = PartFromJSON(h, f.kind, PartToJSON(ToJSON, f.kind, w))
    <3> DEFINE p == <<f.kind, w>>
               q == <<f.kind, ToJSON[p]>>
    <3>1. p \in DataBelow(n) /\ p[1] = f.kind
      BY <2>3
    <3>2. q \in FormsBelow(n)
      BY <3>1 DEF FormsBelow
    <3>3. g[q] = h[q]
      BY <3>2 DEF Same
    <3>4. Generated(f.kind) => PartToJSON(ToJSON, f.kind, w) = ToJSON[p]
      BY PartOfJSON
    <3> QED BY <3>3, <3>4 DEF PartFromJSON
  <2> HIDE DEF fields, m
  <2>5. ValueFromJSON(g, f, ValueToJSON(ToJSON, f, m[k])) = ValueFromJSON(h, f, ValueToJSON(ToJSON, f, m[k]))
    BY <2>3, <2>4, ValueFromJSONLocal
  <2> QED BY <2>2, <2>3, <2>5
<1> QED BY <1>4 DEF MessageOf

LEMMA FromJSONIs ==
  ASSUME WireAssumption, ObjectsAssumption
  PROVE  \A z \in Forms :
           FromJSON[z] = IF Generated(z[1]) THEN MessageOf(FromJSON, z[1], z[2]) ELSE z[2]
<1> DEFINE Def(g, x) == IF Generated(x[1]) THEN MessageOf(g, x[1], x[2]) ELSE x[2]
           Fun(g, S) == g = [x \in S |-> Def(g, x)]
           A == {n \in Nat : \E g : Fun(g, FormsBelow(n))}
           F == CHOOSE g : Fun(g, Forms)
<1>1. FromJSON = F
  BY DEF FromJSON
<1>2. ASSUME NEW n \in Nat, NEW x \in FormsBelow(n + 1), NEW g, NEW h, Same(g, h, FormsBelow(n))
      PROVE  Def(g, x) = Def(h, x)
  BY <1>2, MessageOfLocal
<1> HIDE DEF Def
<1>3. 0 \in A
  <2> DEFINE g == [x \in FormsBelow(0) |-> 0]
  <2>1. Fun(g, FormsBelow(0))
    BY FormsBelowAll
  <2> QED BY <2>1
<1>4. ASSUME NEW n \in Nat, n \in A PROVE n + 1 \in A
  <2>1. PICK g : Fun(g, FormsBelow(n))
    BY <1>4
  <2> DEFINE h == [x \in FormsBelow(n + 1) |-> Def(g, x)]
  <2>2. Same(g, h, FormsBelow(n))
    BY <2>1, FormsBelowAll DEF Same
  <2>3. \A x \in FormsBelow(n + 1) : h[x] = Def(h, x)
    <3>1. \A x \in FormsBelow(n + 1) : h[x] = Def(g, x)
      OBVIOUS
    <3> HIDE DEF h
    <3> QED BY <1>2, <2>2, <3>1
  <2>4. h = [x \in FormsBelow(n + 1) |-> h[x]]
    OBVIOUS
  <2> HIDE DEF h
  <2>5. Fun(h, FormsBelow(n + 1))
    BY <2>3, <2>4
  <2> QED BY <2>5
<1>5. MaxDepth + 1 \in A
  <2> HIDE DEF A
  <2> QED BY <1>3, <1>4, BelowAll, NatSetInduction
<1>6. Fun(F, Forms)
  BY <1>5, FormsBelowAll
<1> HIDE DEF F
<1>7. \A x \in Forms : F[x] = Def(F, x)
  BY <1>6
<1> QED BY <1>1, <1>7 DEF Def

\* An enum or a message whose form is read is what it was.
LEMMA PartBack ==
  ASSUME WireAssumption, ObjectsAssumption, NEW kind, NEW w, <<kind, w>> \in Data,
         FromJSON[<<kind, ToJSON[<<kind, w>>]>>] = w
  PROVE  PartFromJSON(FromJSON, kind, PartToJSON(ToJSON, kind, w)) = w
<1> DEFINE y == <<kind, w>>
<1>1. y \in Data /\ y[1] = kind /\ y[2] = w
  OBVIOUS
<1>2. CASE kind \in DOMAIN Enums
  <2>1. ~ Generated(kind)
    BY <1>2 DEF Generated, IsMessage, Varints
  <2> HIDE DEF y
  <2>2. w \in Unrecognized .. Len(Enums[kind]) - 1
    BY <1>1, <1>2, <2>1, DataRepresentable DEF Representable
  <2>3. PartToJSON(ToJSON, kind, w) = EnumToJSON(kind, w)
    BY <1>2, PartOfJSON
  <2>4. PartFromJSON(FromJSON, kind, EnumToJSON(kind, w)) = EnumFromJSON(kind, EnumToJSON(kind, w))
    BY <1>2, <2>1 DEF PartFromJSON
  <2> QED BY <1>2, <2>2, <2>3, <2>4, EnumsComeBack
<1>3. CASE Generated(kind)
  <2>1. PartToJSON(ToJSON, kind, w) = ToJSON[y]
    BY <1>3, PartOfJSON
  <2>2. PartFromJSON(FromJSON, kind, ToJSON[y]) = FromJSON[<<kind, ToJSON[y]>>]
    BY <1>3, PartOfJSON
  <2> QED BY <2>1, <2>2
<1>4. CASE kind \notin DOMAIN Enums /\ ~ Generated(kind)
  <2>1. PartToJSON(ToJSON, kind, w) = w
    BY <1>4, PartOfJSON
  <2>2. PartFromJSON(FromJSON, kind, w) = w
    BY <1>4, PartOfJSON
  <2> QED BY <2>1, <2>2
<1> QED BY <1>2, <1>3, <1>4

LEMMA ValueBack ==
  ASSUME NEW f, NEW v, Regular(f, v), f.rule = "map" => f.kind \notin DOMAIN Enums /\ ~ Generated(f.kind),
         \A w \in Parts(f, v) : PartFromJSON(FromJSON, f.kind, PartToJSON(ToJSON, f.kind, w)) = w
  PROVE  ValueFromJSON(FromJSON, f, ValueToJSON(ToJSON, f, v)) = v
<1> DEFINE J(w) == PartToJSON(ToJSON, f.kind, w)
<1>1. CASE f.rule \in {"plain", "optional"}
  BY <1>1 DEF ValueToJSON, ValueFromJSON, Parts
<1>2. CASE f.rule = "map"
  <2>1. \A x : PartFromJSON(FromJSON, f.kind, x) = x /\ PartToJSON(ToJSON, f.kind, x) = x
    BY <1>2 DEF PartFromJSON, PartToJSON
  <2> QED BY <1>2, <2>1 DEF ValueFromJSON, ValueToJSON
<1>3. CASE f.rule = "repeated"
  <2> DEFINE js == [i \in DOMAIN v |-> J(v[i])]
             T == ToSet(v)
  <2>1. ValueToJSON(ToJSON, f, v) = js
    BY <1>3 DEF ValueToJSON
  <2>2. \A i \in DOMAIN v : PartFromJSON(FromJSON, f.kind, js[i]) = v[i]
    BY <1>3 DEF Parts, ToSet
  <2>3. DOMAIN js = DOMAIN v
    OBVIOUS
  <2>4. v \in Seq(T)
    BY <1>3 DEF Regular
  <2> HIDE DEF js, T
  <2>5. v = [i \in DOMAIN v |-> v[i]]
    BY <2>4, LenProperties
  <2> QED BY <1>3, <2>1, <2>2, <2>3, <2>5 DEF ValueFromJSON
<1> QED BY <1>1, <1>2, <1>3 DEF Regular

\* Whatever is given, and however its messages are nested, fromJSON makes of what
\* toJSON has made of it the message it was: what is left out for holding its
\* default is put back, an enum's name is its number, and one that the
\* interface does not list stays one that it does not list.
THEOREM FormsComeBack ==
  ASSUME WireAssumption, ObjectsAssumption
  PROVE  \A y \in Data : FromJSON[<<y[1], ToJSON[y]>>] = y[2]
<1> DEFINE A == {n \in Nat : \A y \in DataBelow(n) : FromJSON[<<y[1], ToJSON[y]>>] = y[2]}
<1>1. 0 \in A
  BY DataBelowAll
<1>2. ASSUME NEW n \in Nat, n \in A PROVE n + 1 \in A
  <2>1. SUFFICES ASSUME NEW y \in DataBelow(n + 1) PROVE FromJSON[<<y[1], ToJSON[y]>>] = y[2]
    OBVIOUS
  <2> DEFINE z == <<y[1], ToJSON[y]>>
  <2>2. y \in Data /\ z \in Forms /\ z[1] = y[1] /\ z[2] = ToJSON[y]
    BY DataBelowAll DEF Forms
  <2>3. FromJSON[z] = IF Generated(z[1]) THEN MessageOf(FromJSON, z[1], z[2]) ELSE z[2]
    BY <2>2, FromJSONIs
  <2>4. CASE ~ Generated(y[1])
    <3>1. ToJSON[y] = y[2]
      BY <2>2, <2>4, ToJSONIs
    <3> QED BY <2>2, <2>3, <2>4, <3>1
  <2>5. CASE Generated(y[1])
    <3> DEFINE fields == FieldsOf(y[1])
               m == y[2]
               o == ToJSON[y]
    <3>1. FormShaped(n, y) /\ FormGiven(y)
      BY <2>5, FormIsShaped, FormIsGiven
    <3>2. ASSUME NEW f \in fields, Given(o, f.name)
          PROVE  ValueFromJSON(FromJSON, f, o[f.name]) = m[f.name]
      <4>1. m[f.name] # Base(f) /\ o[f.name] = ValueToJSON(ToJSON, f, m[f.name])
        BY <3>1, <3>2 DEF FormGiven
      <4>2. /\ Regular(f, m[f.name])
            /\ f.rule = "map" => f.kind \notin DOMAIN Enums /\ ~ Generated(f.kind)
            /\ \A w \in Parts(f, m[f.name]) : <<f.kind, w>> \in DataBelow(n)
        BY <3>1, <4>1 DEF FormShaped
      <4>3. ASSUME NEW w \in Parts(f, m[f.name])
            PROVE  PartFromJSON(FromJSON, f.kind, PartToJSON(ToJSON, f.kind, w)) = w
        <5> DEFINE p == <<f.kind, w>>
        <5>1. p \in DataBelow(n) /\ p[1] = f.kind /\ p[2] = w
          BY <4>2
        <5>2. FromJSON[<<p[1], ToJSON[p]>>] = p[2] /\ p \in Data
          BY <1>2, <5>1, DataBelowAll
        <5> QED BY <5>1, <5>2, PartBack
      <4> HIDE DEF m
      <4> QED BY <4>1, <4>2, <4>3, ValueBack
    <3>3. ASSUME NEW f \in fields, ~ Given(o, f.name) PROVE Base(f) = m[f.name]
      BY <3>1, <3>3 DEF FormGiven
    <3>4. MessageOf(FromJSON, y[1], o) = [k \in Names(fields) |->
            IF Given(o, k) THEN ValueFromJSON(FromJSON, Named(fields, k), o[k]) ELSE Base(Named(fields, k))]
      BY DEF MessageOf
    <3>5. m = [k \in Names(fields) |-> m[k]] /\ \A f \in fields : Named(fields, f.name) = f
      BY <3>1 DEF FormShaped
    <3> HIDE DEF fields, m, o
    <3>6. \A k \in Names(fields) :
            (IF Given(o, k) THEN ValueFromJSON(FromJSON, Named(fields, k), o[k]) ELSE Base(Named(fields, k))) = m[k]
      BY <3>2, <3>3, <3>5 DEF Names
    <3>7. MessageOf(FromJSON, y[1], o) = m
      BY <3>4, <3>5, <3>6
    <3> QED BY <2>2, <2>3, <2>5, <3>7 DEF m, o
  <2> QED BY <2>4, <2>5
<1>3. MaxDepth + 1 \in A
  <2> HIDE DEF A
  <2> QED BY <1>1, <1>2, BelowAll, NatSetInduction
<1> QED BY <1>3, DataBelowAll

\* Whatever a caller or a handler gives for a message, the message it is completed
\* to is the one that its JSON form stands for.
THEOREM JSONStandsForMessage ==
  ASSUME WireAssumption, ObjectsAssumption, CallAssumption
  PROVE  Spec => []JSONForm
<1>1. Init => CallInv
  BY CallInitially
<1>2. CallInv /\ [Next]_vars => CallInv'
  BY CallStep DEF CallBefore
<1>3. CallInv => JSONForm
  <2> SUFFICES ASSUME CallInv, Received
               PROVE  FromJSON[<<MessageType, ToJSON[<<MessageType, message>>]>>] = message
    BY DEF JSONForm
  <2> DEFINE y == <<MessageType, message>>
  <2>1. y \in Data /\ y[1] = MessageType /\ y[2] = message
    <3>1. /\ method \in Methods /\ given \in Samples[MessageType]
          /\ message = FromPartial[<<MessageType, given>>]
      BY DEF CallInv, Received
    <3>2. MessageType \in {method.request, method.response}
      BY DEF MessageType
    <3> QED BY <3>1, <3>2, UnderWay
  <2> HIDE DEF y
  <2>2. FromJSON[<<y[1], ToJSON[y]>>] = y[2]
    BY <2>1, FormsComeBack
  <2> QED BY <2>1, <2>2 DEF y
<1> QED BY <1>1, <1>2, <1>3, PTL DEF Spec
=============================================================================
