---------------------------- MODULE LargeValues ----------------------------
(* Large values of datapoints: each is put in storage at a path made of its  *)
(* stream and field, and the datapoint carries a reference with its hash     *)
(* (core/src/files/file-ops.ts, DataStream.pub).  The cloud providers keep a *)
(* reference from each hash to the path it was put at, and upload a value    *)
(* whose hash they know only once; the local one knows paths only, and does  *)
(* not wait for the end of a value that is a stream.                         *)
EXTENDS Naturals

CONSTANTS
  Paths,     \* of streams and fields in storage
  Contents,  \* values; a value and its hash are the same here
  Writers,   \* DataStream objects, each publishing one datapoint after another
  PathOf,    \* [Writers -> Paths]
  None,
  SaveBound  \* how often a value is saved

StoreAssumption ==
  /\ PathOf \in [Writers -> Paths] /\ None \notin Contents \union Paths /\ SaveBound \in Nat

VARIABLES
  cloud,     \* does the provider keep hash references?
  object,    \* [Paths -> content stored there, or None]
  piping,    \* [path, content] whose write was started and not awaited
  ref,       \* [Contents -> path in its hash reference, or None]
  saving,    \* [Writers -> [st, content, streamed]]
  published, \* datapoints: [path, content, hash]
  last,      \* [Writers -> the set of its last datapoint, empty before it]
  saves      \* [Contents -> how often it was to be saved]

vars == <<cloud, object, piping, ref, saving, published, last, saves>>

Init ==
  /\ cloud \in BOOLEAN
  /\ object = [p \in Paths |-> None] /\ piping = {} /\ ref = [v \in Contents |-> None]
  /\ saving = [w \in Writers |-> [st |-> "idle", content |-> None, streamed |-> FALSE]]
  /\ published = {} /\ last = [w \in Writers |-> {}] /\ saves = [v \in Contents |-> 0]

-----------------------------------------------------------------------------
At(w, st) == saving[w].st = st
Goes(w, st) == saving' = [saving EXCEPT ![w].st = st]

\* pub with a large value.  One that can be hashed is looked for first.
StartPut(w, v, streamed) ==
  /\ At(w, "idle") /\ saves[v] < SaveBound
  /\ saving' = [saving EXCEPT ![w] =
       [st |-> IF cloud /\ ~streamed THEN "head" ELSE "body", content |-> v, streamed |-> streamed]]
  /\ saves' = [saves EXCEPT ![v] = @ + 1]
  /\ UNCHANGED <<cloud, object, piping, ref, published, last>>

\* Mutant: the reference is put when the value is about to be uploaded.
RefFirst(w) ==
  /\ At(w, "head")
  /\ Goes(w, IF ref[saving[w].content] # None THEN "pub" ELSE "body")
  /\ ref' = [ref EXCEPT ![saving[w].content] = IF @ = None THEN PathOf[w] ELSE @]
  /\ UNCHANGED <<cloud, object, piping, published, last, saves>>

\* A value with the same hash is there: it is not uploaded.
HeadRef(w) ==
  /\ At(w, "head")
  /\ Goes(w, IF ref[saving[w].content] # None THEN "pub" ELSE "body")
  /\ UNCHANGED <<cloud, object, piping, ref, published, last, saves>>

Piped(w) == saving[w].streamed /\ ~cloud

\* Mutant: what is at the path already is taken for the value.
PutIfMissing(w) ==
  /\ At(w, "body") /\ ~Piped(w)
  /\ Goes(w, IF cloud /\ ~saving[w].streamed THEN "ref" ELSE "pub")
  /\ object' = [object EXCEPT ![PathOf[w]] = IF @ = None THEN saving[w].content ELSE @]
  /\ UNCHANGED <<cloud, piping, ref, published, last, saves>>

\* The value is written and the end of that awaited.
PutBody(w) ==
  /\ At(w, "body") /\ ~Piped(w)
  /\ Goes(w, IF cloud /\ ~saving[w].streamed THEN "ref" ELSE "pub")
  /\ object' = [object EXCEPT ![PathOf[w]] = saving[w].content]
  /\ UNCHANGED <<cloud, piping, ref, published, last, saves>>

\* The local provider lets a stream flow into its file.
PipeBody(w) ==
  /\ At(w, "body") /\ Piped(w) /\ Goes(w, "pub")
  /\ piping' = piping \union {[path |-> PathOf[w], content |-> saving[w].content]}
  /\ UNCHANGED <<cloud, object, ref, published, last, saves>>

PipeEnds(f) ==
  /\ f \in piping /\ piping' = piping \ {f}
  /\ object' = [object EXCEPT ![f.path] = f.content]
  /\ UNCHANGED <<cloud, ref, saving, published, last, saves>>

PutRef(w) ==
  /\ At(w, "ref") /\ Goes(w, "pub")
  /\ ref' = [ref EXCEPT ![saving[w].content] = PathOf[w]]
  /\ UNCHANGED <<cloud, object, piping, published, last, saves>>

\* The datapoint is published with the reference.
Publish(w) ==
  /\ At(w, "pub") /\ Goes(w, "idle")
  /\ LET d == [path |-> PathOf[w], content |-> saving[w].content,
               hash |-> IF saving[w].streamed THEN None ELSE saving[w].content]
     IN  published' = published \union {d} /\ last' = [last EXCEPT ![w] = {d}]
  /\ UNCHANGED <<cloud, object, piping, ref, saves>>

\* fetchFromStorage: what is at the path, or, where that is missing, what the
\* reference of its hash leads to.
Fetch(d) ==
  IF object[d.path] # None THEN object[d.path]
  ELSE IF cloud /\ d.hash # None THEN
    IF ref[d.hash] # None THEN object[ref[d.hash]] ELSE None
  ELSE None

Next ==
  \/ \E w \in Writers :
       \/ \E v \in Contents, streamed \in BOOLEAN : StartPut(w, v, streamed)
       \/ HeadRef(w) \/ PutBody(w) \/ PipeBody(w) \/ PutRef(w) \/ Publish(w)
  \/ \E f \in piping : PipeEnds(f)

Spec == Init /\ [][Next]_vars

-----------------------------------------------------------------------------
BeingPiped(p) == \E f \in piping : f.path = p

\* Whatever a published datapoint refers to can be fetched, unless it is still
\* flowing into its file: a reader that follows a hash never finds nothing.
NoDanglingRef == \A d \in published : Fetch(d) # None \/ BeingPiped(d.path)

\* A path of one writer's gives back the value of its last datapoint, also after
\* others that were put there before it.  With hash references only when that
\* value is saved once: a value that comes again is not uploaded, and what was
\* put at the path meanwhile is read instead of it.  With the local provider
\* only where no stream was written, which may end after a later value.
LatestRestored ==
  \A w \in Writers : \A d \in last[w] :
    /\ At(w, "idle")
    /\ \A x \in Writers \ {w} : PathOf[x] # PathOf[w]
    /\ IF cloud THEN d.hash = None \/ saves[d.content] = 1
       ELSE \A e \in published : e.path = d.path => e.hash # None
    => Fetch(d) = d.content

\* What storage-s3/src/s3-storage-provider.ts says of a hash that has a
\* reference: a file with that content exists, so that it need not be uploaded.
HashRefHoldsContent ==
  \A v \in Contents : ref[v] # None => object[ref[v]] = v
=============================================================================
