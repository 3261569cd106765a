----------------------------- MODULE WireFormat -----------------------------
(* What the generated code does with a message, and the messages in it:      *)
(* fromPartial completes an object, encode turns it into fields on the wire, *)
(* decode reads them back, toJSON and fromJSON are its JSON form.  Bytes are *)
(* abstracted to a sequence of fields with number, wire type and value;      *)
(* strings, doubles and bytes are written as they are.                       *)
(*                                                                           *)
(* What a field may hold is a pair of its kind and a value.  Each function   *)
(* is defined where it is used: fromPartial on the objects that are given,   *)
(* encode on what it makes of them, decode on their encodings.               *)
EXTENDS WireFields

CONSTANTS
  Depth,      \* of each pair of a kind and a value that may be given: how deep it is nested
  MaxDepth

Objects == DOMAIN Depth

\* Kinds of the fields that are one of the generated messages; the entries of a
\* map are written as messages, but are none.
Generated(kind) == IsMessage(kind) /\ InnerType(kind) = kind /\ kind \notin EntryKinds

-----------------------------------------------------------------------------
(* fromPartial: an object with some of a message's fields is completed *)
Absent == {Undefined, Null}
Given(o, n) == n \in DOMAIN o /\ o[n] \notin Absent

PartialValue(partial, f, v) ==
  LET complete(x) == IF Generated(f.kind) THEN partial[<<f.kind, x>>] ELSE x
  IN  CASE f.rule = "repeated" -> [i \in DOMAIN v |-> complete(v[i])]
        [] f.rule = "map" -> [k \in {x \in DOMAIN v : v[x] # Undefined} |-> v[k]]
        [] OTHER -> complete(v)

Completion(partial, kind, o) ==
  LET fields == FieldsOf(kind)
  IN  [n \in Names(fields) |-> IF Given(o, n) THEN PartialValue(partial, Named(fields, n), o[n])
                               ELSE Base(Named(fields, n))]

FromPartial[x \in Objects] ==
  IF Generated(x[1]) THEN Completion(FromPartial, x[1], x[2]) ELSE x[2]

-----------------------------------------------------------------------------
(* encode *)
Data == {<<x[1], FromPartial[x]>> : x \in Objects}

\* The fields of a message, each with its tag and what is written after it.
Tagged(encode, ws) ==
  [k \in DOMAIN ws |-> LET f == ws[k].field
                       IN  [no |-> f.no, wire |-> WireType(f), val |-> encode[<<f.kind, ws[k].val>>]]]

Payload(encode, kind, v) ==
  CASE IsMessage(kind) -> Tagged(encode, WrittenFields(Messages[InnerType(kind)], ToInner(kind, v)))
    [] kind = "int32" -> Int32(v)
    [] OTHER -> v

Encode[x \in Data] == Payload(Encode, x[1], x[2])

-----------------------------------------------------------------------------
(* decode *)
Wires == {<<x[1], Encode[x]>> : x \in Data}

\* The fields on the wire, those of the known ones with the value read.
FieldsIn(decode, known, ws) ==
  [k \in DOMAIN ws |-> IF Known(known, ws[k]) = {} THEN ws[k]
                       ELSE [ws[k] EXCEPT !.val = decode[<<FieldOf(known, ws[k]).kind, @>>]]]

\* A message of a reader that knows some of its fields.  What one of them throws
\* nobody catches.
Message(decode, type, known, ws) ==
  LET rs == FieldsIn(decode, known, ws)
  IN  IF \E k \in DOMAIN rs : Known(known, ws[k]) # {} /\ rs[k].val = Unsafe THEN Unsafe
      ELSE ReadFields(FieldsOf(type), known, rs)

Inner(kind, m) == IF m = Unsafe THEN Unsafe ELSE FromInner(kind, m)

Read(decode, kind, v) ==
  CASE IsMessage(kind) -> LET type == InnerType(kind)
                          IN  Inner(kind, Message(decode, type, FieldsOf(type), v))
    [] kind \in {"int64", "uint64"} -> LongToNumber(v)
    [] OTHER -> v

Decode[y \in Wires] == Read(Decode, y[1], y[2])

-----------------------------------------------------------------------------
(* The JSON form, an object with the fields that do not hold their defaults *)
EnumToJSON(kind, v) == IF v + 1 \in DOMAIN Enums[kind] THEN Enums[kind][v + 1] ELSE "UNRECOGNIZED"
EnumFromJSON(kind, s) ==
  IF s \in ToSet(Enums[kind]) THEN SelectInSeq(Enums[kind], LAMBDA x : x = s) - 1 ELSE Unrecognized

PartToJSON(json, kind, x) ==
  CASE kind \in DOMAIN Enums -> EnumToJSON(kind, x)
    [] Generated(kind) -> json[<<kind, x>>]
    [] OTHER -> x
ValueToJSON(json, f, v) ==
  IF f.rule = "repeated" THEN [i \in DOMAIN v |-> PartToJSON(json, f.kind, v[i])]
  ELSE PartToJSON(json, f.kind, v)

\* Mutant: an enum, optional or not, is left out at its first value.
FilledEnumsJSON(type, m) ==
  {f \in FieldsOf(type) : m[f.name] # Base(f) /\ (f.kind \in DOMAIN Enums => m[f.name] # 0)}

FilledJSON(type, m) == {f \in FieldsOf(type) : m[f.name] # Base(f)}

FormOf(json, type, m) ==
  LET filled == FilledJSON(type, m)
  IN  [n \in Names(filled) |-> ValueToJSON(json, Named(filled, n), m[n])]

ToJSON[x \in Data] == IF Generated(x[1]) THEN FormOf(ToJSON, x[1], x[2]) ELSE x[2]

Forms == {<<x[1], ToJSON[x]>> : x \in Data}

PartFromJSON(parse, kind, x) ==
  CASE kind \in DOMAIN Enums -> EnumFromJSON(kind, x)
    [] Generated(kind) -> parse[<<kind, x>>]
    [] OTHER -> x
ValueFromJSON(parse, f, v) ==
  IF f.rule = "repeated" THEN [i \in DOMAIN v |-> PartFromJSON(parse, f.kind, v[i])]
  ELSE PartFromJSON(parse, f.kind, v)

MessageOf(parse, type, o) ==
  LET fields == FieldsOf(type)
  IN  [n \in Names(fields) |-> IF Given(o, n) THEN ValueFromJSON(parse, Named(fields, n), o[n])
                               ELSE Base(Named(fields, n))]

FromJSON[y \in Forms] == IF Generated(y[1]) THEN MessageOf(FromJSON, y[1], y[2]) ELSE y[2]

-----------------------------------------------------------------------------
(* What may be given *)

\* A value of JavaScript: undefined, or a record that names its type.
AnyValue(v) ==
  \/ v = Undefined
  \/ /\ v # Undefined
     /\ \E t \in {"null", "number", "string", "boolean", "object", "array"} :
          /\ DOMAIN v = {t} /\ v = [x \in {t} |-> v[t]]
          /\ v[t] # Undefined
          /\ t = "null" => v[t] = Null

\* Values of a kind, numbers within its width.
Representable(kind, v) ==
  /\ kind = "any" => AnyValue(v)
  /\ kind = "Date" => v \in Int
  /\ kind = "int32" => v \in (0 - 2 ^ (IntBits - 1)) .. 2 ^ (IntBits - 1) - 1
  /\ kind \in {"int64", "uint64"} => v \in Int
  /\ kind \in DOMAIN Enums => v \in Unrecognized .. Len(Enums[kind]) - 1

\* What a field may hold: an array, or a map with finitely many entries and a
\* value for each, where the field calls for one.
Regular(f, v) ==
  /\ f.rule \in {"plain", "optional", "repeated", "map"}
  /\ f.rule = "repeated" => v \in Seq(ToSet(v))
  /\ f.rule = "map" => /\ v = [k \in DOMAIN v |-> v[k]]
                       /\ IsFiniteSet(DOMAIN v)
                       /\ \A k \in DOMAIN v : v[k] # Undefined

\* What a field holds: its value, the elements of an array, the entries of a map.
Parts(f, v) ==
  CASE f.rule = "repeated" -> ToSet(v)
    [] f.rule = "map" -> ToSet(Entries(v))
    [] OTHER -> {v}

\* Fields of a value that is held as a message which are not as in a new one.
SetFields(x) ==
  LET o == ToInner(x[1], x[2])
  IN  {f \in FieldsOf(InnerType(x[1])) : IF Generated(x[1]) THEN Given(o, f.name)
                                         ELSE o[f.name] # Base(f)}

\* A value of its kind, nested less deep in each of its parts.  What is no
\* generated message has all of its fields, and none of them is one.
WellFormed(x) ==
  LET o == ToInner(x[1], x[2])
  IN  /\ Representable(x[1], x[2])
      /\ IsMessage(x[1]) =>
           /\ InnerType(x[1]) \in DOMAIN Messages
           /\ ~ Generated(x[1]) =>
                /\ o = [n \in Names(FieldsOf(InnerType(x[1]))) |-> o[n]]
                /\ \A f \in FieldsOf(InnerType(x[1])) : ~ Generated(f.kind)
           /\ \A f \in SetFields(x) :
                /\ Regular(f, o[f.name])
                /\ \A v \in Parts(f, o[f.name]) :
                     <<f.kind, v>> \in Objects /\ Depth[<<f.kind, v>>] < Depth[x]

\* Undefined and null are no objects, no arrays and no strings.
Apart ==
  /\ Undefined # Null
  /\ \A x \in Data : Generated(x[1]) => x[2] \notin Absent
  /\ \A y \in Forms : Generated(y[1]) => y[2] \notin Absent
  /\ \A type \in DOMAIN Messages :
       Absent \intersect Seq({y[2] : y \in {z \in Forms : z[1] = type}}) = {}
  /\ \A e \in DOMAIN Enums : LET names == ToSet(Enums[e]) \union {"UNRECOGNIZED"}
                             IN  Absent \intersect (names \union Seq(names)) = {}

ObjectsAssumption ==
  /\ MaxDepth \in Nat /\ Depth \in [Objects -> 0 .. MaxDepth]
  /\ \A x \in Objects : x = <<x[1], x[2]>> /\ WellFormed(x)
  /\ Apart
=============================================================================
