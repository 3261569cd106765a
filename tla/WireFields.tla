----------------------------- MODULE WireFields -----------------------------
(* One message of the generated code, the messages in it left aside: which   *)
(* of its fields encode writes and in which order, what decode makes of      *)
(* fields it reads, and how values are turned into messages of               *)
(* google/protobuf.  WireFormat puts messages into messages.                 *)
EXTENDS Integers, SequencesExt

CONSTANTS
  Messages,          \* fields of each message type, as VaultMessages lists them
  Undefined, Null,   \* JavaScript's undefined and null
  IntBits,           \* width of an int32, scaled down
  MaxSafe,           \* Number.MAX_SAFE_INTEGER, scaled down
  Second,            \* milliseconds in a second, scaled down
  Unsafe             \* what longToNumber's exception leaves: no message

FieldsOf(type) == ToSet(Messages[type])
Names(fields) == {f.name : f \in fields}
Named(fields, n) == CHOOSE f \in fields : f.name = n

Enums == [ConnectorType |-> <<"IN", "OUT">>, Order |-> <<"ASC", "DESC">>,
          SubType |-> <<"fromStart", "fromNow">>, NullValue |-> <<"NULL_VALUE">>]
Unrecognized == 0 - 1

\* What the fields of rule "map" hold.
EntryKinds == {"Struct_FieldsEntry", "InputStreamIdOverridesByTagEntry",
               "OutputStreamIdOverridesByTagEntry"}

\* No two fields of a message have one name or one number.
WellNumbered(fields) ==
  \A i, j \in DOMAIN fields :
    fields[i].name = fields[j].name \/ fields[i].no = fields[j].no => i = j

WireAssumption ==
  /\ IntBits \in Nat \ {0} /\ MaxSafe \in Nat /\ Second \in Nat \ {0}
  /\ Undefined # 0
  /\ \A type \in DOMAIN Messages :
       /\ Messages[type] \in Seq(FieldsOf(type)) /\ WellNumbered(Messages[type])
       /\ \A f \in FieldsOf(type) :
            /\ f.rule \in {"plain", "optional", "repeated", "map"}
            /\ f.rule = "map" => f.kind \in EntryKinds

\* What createBase... puts in a plain field.
Default(kind) == IF kind = "string" THEN "" ELSE IF kind = "bool" THEN FALSE ELSE 0

Base(f) == CASE f.rule = "plain" -> Default(f.kind)
             [] f.rule = "optional" -> Undefined
             [] f.rule = "repeated" -> <<>>
             [] f.rule = "map" -> <<>>   \* the function with no argument

Create(fields) == [n \in Names(fields) |-> Base(Named(fields, n))]

Varints == {"int32", "int64", "uint64", "bool"} \union DOMAIN Enums
WireType(f) ==
  CASE f.kind \in Varints -> 0
    [] f.kind = "double" -> 1
    [] OTHER -> 2

-----------------------------------------------------------------------------
(* Values of other JavaScript types *)

\* Value.wrap and Value.unwrap: a field for each type of value.  A value is a
\* record with one field that names its type.
JsTypes == [null_value |-> "null", number_value |-> "number", string_value |-> "string",
            bool_value |-> "boolean", struct_value |-> "object", list_value |-> "array"]
WrapValue(v) ==
  [n \in DOMAIN JsTypes |->
     IF v = Undefined THEN Undefined
     ELSE IF JsTypes[n] \notin DOMAIN v THEN Undefined
     ELSE IF n = "null_value" THEN 0 ELSE v[JsTypes[n]]]

\* The first that is there, null last.
UnwrapOrder == <<"string_value", "number_value", "bool_value", "struct_value", "list_value", "null_value">>
UnwrapValue(m) ==
  IF \A n \in DOMAIN m : m[n] = Undefined THEN Undefined
  ELSE LET n == UnwrapOrder[SelectInSeq(UnwrapOrder, LAMBDA x : m[x] # Undefined)]
       IN  [t \in {JsTypes[n]} |-> IF n = "null_value" THEN Null ELSE m[n]]

\* toTimestamp and fromTimestamp; a Date is its milliseconds.
ToTimestamp(date) == [seconds |-> date \div Second, nanos |-> date % Second]
FromTimestamp(t) == t.seconds * Second + t.nanos

\* writer.int32 and reader.int32 keep the low bits.
Int32(v) == LET half == 2 ^ (IntBits - 1) IN ((v + half) % (2 * half)) - half

\* longToNumber throws what JavaScript cannot represent exactly.
LongToNumber(v) == IF v > MaxSafe THEN Unsafe ELSE v

\* Values that are held as messages: their types, and what is put into one and
\* taken out of one.
IsMessage(kind) == kind \notin Varints \union {"double", "string"}
InnerType(kind) ==
  CASE kind = "Date" -> "Timestamp" [] kind = "any" -> "Value"
    [] kind = "object" -> "Struct" [] kind = "list" -> "ListValue" [] OTHER -> kind

ToInner(kind, v) ==
  CASE kind = "Date" -> ToTimestamp(v) [] kind = "any" -> WrapValue(v)
    [] kind = "object" -> [fields |-> v] [] kind = "list" -> [values |-> v] [] OTHER -> v

FromInner(kind, m) ==
  CASE kind = "Date" -> FromTimestamp(m) [] kind = "any" -> UnwrapValue(m)
    [] kind = "object" -> m.fields [] kind = "list" -> m.values [] OTHER -> m

-----------------------------------------------------------------------------
(* encode: the fields it writes, in order *)

\* The entries of a map that have a value.
Entries(v) == LET keys == SetToSeq({k \in DOMAIN v : v[k] # Undefined})
              IN  [i \in DOMAIN keys |-> [key |-> keys[i], value |-> v[keys[i]]]]

\* Mutant: an optional message without fields is left out.
FilledNonempty(f, v) ==
  CASE f.rule = "plain" -> IF v = Default(f.kind) THEN <<>> ELSE <<v>>
    [] f.rule = "optional" ->
         IF v = Undefined \/ (f.kind = "Empty" /\ v = <<>>) THEN <<>> ELSE <<v>>
    [] f.rule = "repeated" -> v
    [] f.rule = "map" -> Entries(v)

\* What a field has to be written for: a plain one unless it holds its default,
\* an optional one unless undefined, each element of a repeated one, each entry
\* of a map.
Filled(f, v) ==
  CASE f.rule = "plain" -> IF v = Default(f.kind) THEN <<>> ELSE <<v>>
    [] f.rule = "optional" -> IF v = Undefined THEN <<>> ELSE <<v>>
    [] f.rule = "repeated" -> v
    [] f.rule = "map" -> Entries(v)

EncodeField(f, v) == LET filled == Filled(f, v)
                     IN  [i \in DOMAIN filled |-> [field |-> f, val |-> filled[i]]]

\* What the first i fields are written as.
WrittenUpTo(fields, m) ==
  LET ws[i \in 0 .. Len(fields)] ==
        IF i = 0 THEN <<>> ELSE ws[i - 1] \o EncodeField(fields[i], m[fields[i].name])
  IN  ws
WrittenFields(fields, m) == WrittenUpTo(fields, m)[Len(fields)]

-----------------------------------------------------------------------------
(* decode: what the fields that are read make of a new message *)

Put(f, key, value) == [k \in DOMAIN f \union {key} |-> IF k = key THEN value ELSE f[k]]

\* The last value of a field counts, an entry of a map without a value does not.
Stored(f, old, r) ==
  CASE f.rule = "repeated" -> Append(old, r)
    [] f.rule = "map" -> IF r.value = Undefined THEN old ELSE Put(old, r.key, r.value)
    [] OTHER -> r

\* Fields the reader has a case for, with the wire type it expects.
Known(fields, w) == {f \in fields : f.no = w.no /\ WireType(f) = w.wire}
FieldOf(fields, w) == CHOOSE f \in Known(fields, w) : TRUE

\* One round of the loop: an unknown field, or one with another wire type, is
\* skipped.
ReadField(m, fields, w) ==
  IF Known(fields, w) = {} THEN m
  ELSE LET f == FieldOf(fields, w) IN [m EXCEPT ![f.name] = Stored(f, @, w.val)]

\* What the first k fields on the wire are read as, by a reader of a message with
\* the fields all that knows some of them.
ReadUpTo(all, known, ws) ==
  LET m[k \in 0 .. Len(ws)] ==
        IF k = 0 THEN Create(all) ELSE ReadField(m[k - 1], known, ws[k])
  IN  m
ReadFields(all, known, ws) == ReadUpTo(all, known, ws)[Len(ws)]
=============================================================================
