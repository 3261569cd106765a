------------------------------ MODULE MCVault ------------------------------
(* Three parts of the vault, one at a time: a call through the generated     *)
(* client and server (VaultCall), the database (VaultDB), and the storage of *)
(* large values (LargeValues).                                               *)
EXTENDS VaultCall, VaultMessages, VaultStores, TLC

(* Objects given for messages: all fields but one as usual, or that one      *)
(* alone, where the one takes every value of its samples or is left out.     *)

\* Values for each kind of field, the usual one first.
Anys == <<[string |-> ""], [null |-> Null], [number |-> 0], [boolean |-> FALSE],
          [object |-> ("k" :> [null |-> Null])], [array |-> <<[number |-> 1], [null |-> Null]>>],
          [object |-> <<>>], [array |-> <<>>]>>
\* inner is the usual object for a message kind.
KindSamples(kind, inner) ==
  CASE kind = "string" -> <<"s", "">>
    [] kind = "int32" -> <<3, 0, -1>>
    [] kind = "double" -> <<1, 0>>
    [] kind = "bool" -> <<TRUE, FALSE>>
    [] kind \in {"uint64", "int64"} -> <<9, 0, 100>>
    [] kind \in {"ConnectorType", "Order", "SubType"} -> <<1, 0>>
    [] kind = "NullValue" -> <<0>>
    [] kind = "Date" -> <<37, 0, 1001>>
    [] kind = "any" -> Anys
    [] kind \in {"object", "Struct_FieldsEntry"} ->
         [i \in DOMAIN Anys |-> ("a" :> Anys[i]) @@ ("" :> Anys[1])]
    [] kind = "list" -> <<Anys, <<>>>>
    [] OTHER -> <<inner, <<>>>>

FieldSamples(f, inner) ==
  LET s == KindSamples(f.kind, inner)
  IN  CASE f.rule = "repeated" -> <<s, <<>>, <<s[1], s[1]>>>>
        [] f.rule = "map" /\ f.kind # "Struct_FieldsEntry" -> <<("k" :> "s") @@ ("" :> ""), <<>>>>
        [] OTHER -> s

\* Two members of a message's oneof are not given together.
OneOf == {"rec", "null_response", "datapoint", "success", "validationFailure", "signUp",
          "progressUpdate", "jobCompleted", "jobFailed", "workerStopped", "provision",
          "queryCapacity", "noCapacityWarning"}
Exclusive(f, g) == f.name \in OneOf /\ g.name \in OneOf /\ f # g

Usual[type \in DOMAIN Messages] ==
  LET ms == Messages[type]
      fs == {f \in ToSet(ms) : \A i \in DOMAIN ms :
               Exclusive(f, ms[i]) => \E j \in 1 .. i - 1 : ms[j] = f}
      named(n) == CHOOSE f \in fs : f.name = n
  IN  [n \in {f.name : f \in fs} |-> FieldSamples(named(n), Usual[named(n).kind])[1]]

SamplesOf(fields, usual) ==
  {<<>>, usual} \union
  UNION {LET vs == ToSet(FieldSamples(f, Usual[f.kind]))
             others == [n \in DOMAIN usual \intersect
                          {g.name : g \in {h \in fields \ {f} : ~Exclusive(f, h)}} |-> usual[n]]
         IN  {others} \union UNION {{f.name :> v, (f.name :> v) @@ others} : v \in vs}
         : f \in fields}

MCSamples == [type \in DOMAIN Messages |-> SamplesOf(ToSet(Messages[type]), Usual[type])]

\* The kind and value of everything that is given, in all its parts, and how
\* deep it is nested: how many layers may be below it.
PartsOf(x) ==
  LET o == ToInner(x[1], x[2])
      fields == IF IsMessage(x[1]) THEN ToSet(Interface[InnerType(x[1])]) ELSE {}
      there == {f \in fields : f.name \in DOMAIN o /\ o[f.name] # Undefined}
  IN  UNION {{<<f.kind, v>> : v \in Parts(f, o[f.name])} : f \in there}

RECURSIVE Layers(_)
Layers(xs) == LET ys == UNION {PartsOf(x) : x \in xs}
              IN  IF ys = {} THEN <<xs>> ELSE <<xs>> \o Layers(ys)

MCDepth ==
  LET types == UNION {{r.request, r.response} : r \in Rpcs}
      layers == Layers(UNION {{<<type, o>> : o \in MCSamples[type]} : type \in types})
      below(x) == {Len(layers) - i : i \in {j \in DOMAIN layers : x \in layers[j]}}
  IN  [x \in UNION ToSet(layers) |-> Min(below(x))] @@ <<>>  \* worked out once

MCSkews == {{}, {1}, {3}}

-----------------------------------------------------------------------------
VARIABLE which

callVars == vars
dbVars == <<pool, at, todo, written, visible, schema, opening, cached, channel>>
storeVars == <<cloud, object, piping, ref, saving, published, last, saves>>
allVars == <<which, callVars, dbVars, storeVars>>

\* The same job created twice, with different streams for a tag; a stream of two
\* writers with the same schema, and one of a writer without one.
MCJobOf == [c1 |-> "j", c2 |-> "j"]
MCParentOf == [c1 |-> "p", c2 |-> "nojob"]
MCOverrides == [c1 |-> <<[tag |-> "a", stream |-> "s1"]>>, c2 |-> <<[tag |-> "a", stream |-> "s2"]>>]
MCWriterOn == [w1 |-> "s1", w2 |-> "s1", w3 |-> "s2"]
MCSchemaOf == [w1 |-> "A", w2 |-> "A", w3 |-> "null"]

\* One path of a writer's own, one of two writers.
MCPathOf == [w1 |-> "p1", w2 |-> "p2", w3 |-> "p2"]

ASSUME WireAssumption /\ ObjectsAssumption /\ CallAssumption
ASSUME DB!DBAssumption /\ Store!StoreAssumption

MCInit ==
  /\ which \in {"call", "db", "store"}
  /\ Init /\ DB!Init /\ Store!Init
  /\ which # "call" => lacks = {} /\ method = CHOOSE m \in Methods : TRUE
  /\ which # "db" => pool = 1
  /\ which # "store" => ~cloud

CallOnly == which = "call" /\ UNCHANGED <<which, dbVars, storeVars>>
DBOnly(A) == which = "db" /\ A /\ UNCHANGED <<which, callVars, storeVars>>
StoreOnly(A) == which = "store" /\ A /\ UNCHANGED <<which, callVars, dbVars>>

MCNext ==
  \/ Ask /\ CallOnly
  \/ Handle /\ CallOnly
  \/ Answer /\ CallOnly
  \/ Return /\ CallOnly
  \/ \E c \in Calls : DBOnly(DB!BeginEnsure(c))
  \/ \E c \in Calls : DBOnly(DB!WriteJob(c))
  \/ \E c \in Calls : DBOnly(DB!EnsureConnector(c))
  \/ \E c \in Calls : DBOnly(DB!CommitEnsure(c))
  \/ \E c \in Calls : DBOnly(DB!AcquireTimesOut(c))
  \/ \E w \in StreamWriters : DBOnly(DB!InsertStream(w))
  \/ \E w \in StreamWriters : DBOnly(DB!ReadStream(w))
  \/ \E w \in StreamWriters : DBOnly(DB!UpdateSchema(w))
  \/ \E w \in StreamWriters : DBOnly(DB!LookUp(w))
  \/ \E w \in StreamWriters, of \in DB!Shapes : DBOnly(DB!Pub(w, of))
  \/ \E s \in Streams : DBOnly(DB!LookedUp(s))
  \/ \E s \in Streams : DBOnly(DB!Evict(s))
  \/ \E w \in Writers, v \in Contents, streamed \in BOOLEAN : StoreOnly(Store!StartPut(w, v, streamed))
  \/ \E w \in Writers : StoreOnly(Store!HeadRef(w))
  \/ \E w \in Writers : StoreOnly(Store!PutBody(w))
  \/ \E w \in Writers : StoreOnly(Store!PipeBody(w))
  \/ \E w \in Writers : StoreOnly(Store!PutRef(w))
  \/ \E w \in Writers : StoreOnly(Store!Publish(w))
  \/ \E f \in piping : StoreOnly(Store!PipeEnds(f))

\* The vault's event loop, and the pool's timeout.
Fairness == \A c \in Calls : WF_allVars(DBOnly(DB!EnsureStep(c)))

MCSpec == MCInit /\ [][MCNext]_allVars /\ Fairness

=============================================================================
