------------------------------ MODULE VaultDB ------------------------------
(* The vault's database: the records of a job, written in a transaction that *)
(* reaches for a second connection (vault-dev-server/src/db/service.ts), and *)
(* the schema of a stream, stored when its writers create it and cached by   *)
(* the vault's stream service when a datapoint is published                  *)
(* (vault-dev-server/src/stream/service.ts).                                 *)
EXTENDS Naturals, FiniteSets, SequencesExt

CONSTANTS
  Calls,      \* calls of ensureJobAndStatusAndConnectorRecs
  JobOf,      \* [Calls -> job]
  ParentOf,   \* [Calls -> parent job, or NoJob]
  Overrides,  \* [Calls -> sequence of [tag, stream]]
  Streams,
  NoJob,
  PoolSizes,  \* sizes of the connection pool (one, with Knex's defaults for SQLite)
  Writers,    \* DataStream objects that publish, each in a process of its own
  WriterOn,   \* [Writers -> Streams]
  SchemaOf    \* [Writers -> schema of its definition, or NoSchema]

NoSchema == "null"

DBAssumption ==
  /\ \A c \in Calls : /\ Overrides[c] \in Seq(ToSet(Overrides[c]))
                      /\ \A o \in ToSet(Overrides[c]) : o.stream \in Streams
  /\ \A w \in Writers : SchemaOf[w] # "none"
  /\ WriterOn \in [Writers -> Streams]
  /\ PoolSizes \subseteq Nat \ {0}
  /\ NoJob \notin {JobOf[c] : c \in Calls}

VARIABLES
  pool,     \* size of the connection pool
  at,       \* [Calls -> "no", "begun" or "open" (its transaction), "done" or "failed"]
  todo,     \* [Calls -> overrides it has still to write]
  written,  \* [Calls -> records its transaction has written]
  visible,  \* committed records
  schema,   \* zz_streams: [Streams -> "none", or json_schema_str]
  opening,  \* [Writers -> how far ensureStream has come]
  cached,   \* jsonSchemaByStreamId: [Streams -> "none", "reading", "missing" or a schema]
  channel   \* [Streams -> schemas the data published satisfy]

dbVars == <<pool, at, todo, written, visible>>
streamVars == <<opening, cached, channel>>
vars == <<dbVars, schema, streamVars>>

JobRec(c) == [kind |-> "job", job |-> JobOf[c]]
StatusRec(c) == [kind |-> "status", job |-> JobOf[c], call |-> c]
RelationRec(c) == [kind |-> "relation", job |-> JobOf[c], parent |-> ParentOf[c]]
ConnectorRec(c, o) == [kind |-> "connector", job |-> JobOf[c], tag |-> o.tag, stream |-> o.stream]

Init ==
  /\ pool \in PoolSizes
  /\ at = [c \in Calls |-> "no"] /\ todo = [c \in Calls |-> <<>>]
  /\ written = [c \in Calls |-> {}] /\ visible = {}
  /\ schema = [s \in Streams |-> "none"]
  /\ opening = [w \in Writers |-> "no"]
  /\ cached = [s \in Streams |-> "none"]
  /\ channel = [s \in Streams |-> {}]

-----------------------------------------------------------------------------
(* ensureJobAndStatusAndConnectorRecs *)

Holding == {c \in Calls : at[c] \in {"begun", "open"}}
\* Connections not held by a transaction; other statements hold one briefly.
Free == pool - Cardinality(Holding)

BeginEnsure(c) ==
  /\ at[c] = "no" /\ Free > 0
  /\ at' = [at EXCEPT ![c] = "begun"]
  /\ UNCHANGED <<pool, todo, written, visible, schema, streamVars>>

\* An insert waits for one with the same key in another transaction.
SameKey(r, q) == r.kind = q.kind /\ r.job = q.job /\ (r.kind = "connector" => r.tag = q.tag)
Locked(c, r) == \E d \in Calls \ {c} :
                  at[d] = "open" /\ \E q \in written[d] \ visible : SameKey(r, q)

\* The job unless it is there, the status "requested" whether or not it is, and
\* the relation to its parent.
WriteJob(c) ==
  /\ at[c] = "begun" /\ ~Locked(c, JobRec(c))
  /\ at' = [at EXCEPT ![c] = "open"]
  /\ todo' = [todo EXCEPT ![c] = Overrides[c]]
  /\ written' = [written EXCEPT ![c] = {JobRec(c), StatusRec(c)} \union
                   IF ParentOf[c] = NoJob THEN {} ELSE {RelationRec(c)}]
  /\ UNCHANGED <<pool, visible, schema, streamVars>>

\* ensureStreamRec without a schema: an existing record is left as it is.
WithStream(s) == schema' = [schema EXCEPT ![s] = IF @ = "none" THEN NoSchema ELSE @]

\* The connector of a job's tag, unless it has one already.
WithConnector(c, o) ==
  LET taken == {r \in visible \union written[c] :
                  r.kind = "connector" /\ r.job = JobOf[c] /\ r.tag = o.tag}
  IN  IF taken = {} THEN {ConnectorRec(c, o)} ELSE {}

\* Mutant: the connector is written outside the transaction too.
EnsureOutside(c) ==
  /\ at[c] = "open" /\ todo[c] # <<>> /\ Free > 0
  /\ WithStream(Head(todo[c]).stream)
  /\ visible' = visible \union WithConnector(c, Head(todo[c]))
  /\ todo' = [todo EXCEPT ![c] = Tail(@)]
  /\ UNCHANGED <<pool, at, written, streamVars>>

\* The next override: its stream is ensured on a connection of its own, outside
\* the transaction, its connector inside.
EnsureConnector(c) ==
  /\ at[c] = "open" /\ todo[c] # <<>> /\ Free > 0
  /\ ~Locked(c, ConnectorRec(c, Head(todo[c])))
  /\ WithStream(Head(todo[c]).stream)
  /\ written' = [written EXCEPT ![c] = @ \union WithConnector(c, Head(todo[c]))]
  /\ todo' = [todo EXCEPT ![c] = Tail(@)]
  /\ UNCHANGED <<pool, at, visible, streamVars>>

CommitEnsure(c) ==
  /\ at[c] = "open" /\ todo[c] = <<>>
  /\ at' = [at EXCEPT ![c] = "done"]
  /\ visible' = visible \union written[c]
  /\ UNCHANGED <<pool, todo, written, schema, streamVars>>

\* Mutant: only the wait for the transaction's own connection times out.
BeginTimesOut(c) ==
  /\ Free = 0 /\ at[c] = "no"
  /\ at' = [at EXCEPT ![c] = "failed"]
  /\ UNCHANGED <<pool, todo, written, visible, schema, streamVars>>

\* No connection became free in time: the call fails, its transaction, if it
\* has one, is rolled back.
AcquireTimesOut(c) ==
  /\ Free = 0 /\ (at[c] = "no" \/ (at[c] = "open" /\ todo[c] # <<>>))
  /\ at' = [at EXCEPT ![c] = "failed"]
  /\ UNCHANGED <<pool, todo, written, visible, schema, streamVars>>

-----------------------------------------------------------------------------
(* DataStream.getOrCreate and pub *)

\* ensureStream's insert, which does nothing when the stream has a record.
InsertStream(w) ==
  /\ opening[w] = "no" /\ Free > 0
  /\ schema' = [schema EXCEPT ![WriterOn[w]] = IF @ = "none" THEN SchemaOf[w] ELSE @]
  /\ opening' = [opening EXCEPT ![w] = "inserted"]
  /\ UNCHANGED <<dbVars, cached, channel>>

\* Mutant: a record that is there is never given a schema.
LeaveSchema(w) ==
  /\ opening[w] = "inserted" /\ Free > 0
  /\ opening' = [opening EXCEPT ![w] = "open"]
  /\ UNCHANGED <<dbVars, schema, cached, channel>>

\* The record is read: without a schema it is to get the writer's.
ReadStream(w) ==
  /\ opening[w] = "inserted" /\ Free > 0
  /\ opening' = [opening EXCEPT ![w] =
       IF schema[WriterOn[w]] = NoSchema /\ SchemaOf[w] # NoSchema THEN "update" ELSE "open"]
  /\ UNCHANGED <<dbVars, schema, cached, channel>>

UpdateSchema(w) ==
  /\ opening[w] = "update" /\ Free > 0
  /\ schema' = [schema EXCEPT ![WriterOn[w]] = SchemaOf[w]]
  /\ opening' = [opening EXCEPT ![w] = "open"]
  /\ UNCHANGED <<dbVars, cached, channel>>

\* A writer that has been opened publishes; the first publication on a stream
\* has its schema looked up, and all that come meanwhile wait for that answer.
LookUp(w) ==
  /\ opening[w] = "open" /\ cached[WriterOn[w]] = "none"
  /\ cached' = [cached EXCEPT ![WriterOn[w]] = "reading"]
  /\ UNCHANGED <<dbVars, schema, opening, channel>>

LookedUp(s) ==
  /\ cached[s] = "reading" /\ Free > 0
  /\ cached' = [cached EXCEPT ![s] = IF schema[s] = "none" THEN "missing" ELSE schema[s]]
  /\ UNCHANGED <<dbVars, schema, opening, channel>>

\* The data is of some schema; without a cached one it is not looked at, and
\* with one it is refused unless it is of that schema.
Pub(w, of) ==
  /\ opening[w] = "open" /\ cached[WriterOn[w]] \notin {"none", "reading", "missing"}
  /\ cached[WriterOn[w]] \in {NoSchema, of}
  /\ channel' = [channel EXCEPT ![WriterOn[w]] = @ \union {of}]
  /\ UNCHANGED <<dbVars, schema, opening, cached>>

\* A hundred other streams have been used: the entry is dropped.
Evict(s) ==
  /\ cached[s] \notin {"none", "reading"}
  /\ cached' = [cached EXCEPT ![s] = "none"]
  /\ UNCHANGED <<dbVars, schema, opening, channel>>

-----------------------------------------------------------------------------
EnsureStep(c) == BeginEnsure(c) \/ WriteJob(c) \/ EnsureConnector(c) \/ CommitEnsure(c) \/ AcquireTimesOut(c)

\* Data comes in two shapes.
Shapes == {"A", "B"}

Next ==
  \/ \E c \in Calls : EnsureStep(c)
  \/ \E w \in Writers : \/ InsertStream(w) \/ ReadStream(w) \/ UpdateSchema(w) \/ LookUp(w)
                        \/ \E of \in Shapes : Pub(w, of)
  \/ \E s \in Streams : LookedUp(s) \/ Evict(s)

\* The vault's event loop, and the pool's timeout.
Fairness == \A c \in Calls : WF_vars(EnsureStep(c))

Spec == Init /\ [][Next]_vars /\ Fairness

-----------------------------------------------------------------------------
Tags(c) == {o.tag : o \in ToSet(Overrides[c])}

\* The records of a call appear together: whatever is visible was written by a
\* call that has ended well, and then its job, status and relation are there,
\* one connector for each of its tags, whichever call came first, and that
\* connector's stream.
RecordsTogether ==
  /\ \A r \in visible : \E c \in Calls : at[c] = "done" /\ r \in written[c]
  /\ \A c \in Calls : at[c] = "done" =>
       /\ {JobRec(c), StatusRec(c)} \subseteq visible
       /\ ParentOf[c] # NoJob => RelationRec(c) \in visible
       /\ \A t \in Tags(c) :
            \E r \in visible : /\ r.kind = "connector" /\ r.job = JobOf[c] /\ r.tag = t
                               /\ schema[r.stream] # "none"
  /\ \A r, q \in visible :
       r.kind = "connector" /\ q.kind = "connector" /\ r.job = q.job /\ r.tag = q.tag => r = q

\* A call that has been made ends, if only by the pool's timeout, even when
\* every connection is held by a transaction that waits for another one.
EnsureSettles == \A c \in Calls : (c \in Holding) ~> at[c] \in {"done", "failed"}

\* A stream whose writers all declare the same schema carries no other data,
\* whatever had made its record before them and however often its schema is
\* dropped from the cache; and its schema is always found.
DeclaredSchemaHolds ==
  \A s \in Streams : \A a \in Shapes :
    (\A w \in Writers : WriterOn[w] = s => SchemaOf[w] = a)
    => channel[s] \subseteq {a} /\ cached[s] # "missing"
=============================================================================
