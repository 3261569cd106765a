------------------------------ MODULE VaultCall ------------------------------
(* A call of the vault through the generated client and server: the caller's *)
(* object is completed, encoded, read by the vault, and answered the same    *)
(* way.  One of the two may have been generated from an older interface.     *)
EXTENDS WireFormat

CONSTANTS
  Methods,     \* pairs of a request and a response type, as VaultMessages lists them
  Samples,     \* [message type -> objects a caller or a handler may give for it]
  Skews        \* sets of field numbers the receiver of a message does not know

\* What is given for a message is an object for one; a record or its absence may
\* be missing from a response.
CallAssumption ==
  /\ \A r \in Methods : \A type \in {r.request, r.response} :
       Generated(type) /\ \A o \in Samples[type] : <<type, o>> \in Objects
  /\ \A type \in DOMAIN Messages : \A f \in FieldsOf(type) :
       f.name \in {"rec", "null_response"} => f.rule = "optional"

VARIABLES
  stage,   \* "idle", "asked", "handled", "answered", "done"
  method,  \* of Methods
  lacks,   \* what receivers do not know
  given,   \* the object given for the message under way
  message, \* fromPartial of it
  wire,    \* its encoding
  got      \* what the receiver has decoded

vars == <<stage, method, lacks, given, message, wire, got>>

Nothing == <<>>

Init ==
  /\ stage = "idle" /\ method \in Methods /\ lacks \in Skews
  /\ given = Nothing /\ message = Nothing /\ wire = Nothing /\ got = Nothing

\* The message under way, or the one last received.
MessageType == IF stage \in {"asked", "handled"} THEN method.request ELSE method.response

\* The generated stub takes the object o for a message of a type.
Give(type, o) ==
  /\ given' = o
  /\ message' = FromPartial[<<type, o>>]
  /\ wire' = Encode[<<type, message'>>]
  /\ got' = Nothing
  /\ UNCHANGED <<method, lacks>>

\* The other side reads it; a decode that throws fails the call.
Take(type, next) ==
  LET known == {f \in FieldsOf(type) : f.no \notin lacks}
      m == Message(Decode, type, known, wire)
  IN  /\ stage' = IF m = Unsafe THEN "failed" ELSE next
      /\ got' = IF m = Unsafe THEN Nothing ELSE m
      /\ UNCHANGED <<method, lacks, given, message, wire>>

Ask == /\ stage = "idle"
       /\ \E o \in Samples[method.request] : Give(method.request, o)
       /\ stage' = "asked"
Handle == stage = "asked" /\ Take(method.request, "handled")
Answer == /\ stage = "handled"
          /\ \E o \in Samples[method.response] : Give(method.response, o)
          /\ stage' = "answered"
Return == stage = "answered" /\ Take(method.response, "done")

Next == Ask \/ Handle \/ Answer \/ Return
Spec == Init /\ [][Next]_vars

-----------------------------------------------------------------------------
Received == stage \in {"handled", "done"}

\* What the receiver does not know of a message it has read.
Unknown == {f.name : f \in {g \in FieldsOf(MessageType) : g.no \in lacks}}

\* wrapNullResponse: what the caller is given for a response with a record.
WrapNullResponse(m) == IF m.null_response # Undefined THEN Null ELSE m.rec

\* A missing record is told from a record with nothing in it, also where the
\* answer is a list of them.
NullIsNull ==
  stage = "done" =>
    /\ "null_response" \in DOMAIN got /\ "rec" \in DOMAIN got /\ Unknown = {}
         => (WrapNullResponse(got) = Null <=> Given(given, "null_response"))
    /\ method.response = "ValuesByReverseIndexResponse" /\ Unknown = {} =>
         /\ Len(got.datapoints) = Len(message.datapoints)
         /\ \A i \in DOMAIN got.datapoints :
              got.datapoints[i].datapoint = Undefined
                <=> message.datapoints[i].datapoint = Undefined

\* Every field the receiver knows arrives as it was given: an optional zero or
\* an empty string is not taken for a missing value, a message without fields
\* is still there, and fields it does not know do not disturb it.  Numbers in
\* range only: an int32 is cut to its width.
FieldsArrive ==
  /\ Received => \A n \in Names(FieldsOf(MessageType)) \ Unknown : got[n] = message[n]
  /\ NullIsNull

\* The JSON form of a message is the message.
JSONForm ==
  Received => FromJSON[<<MessageType, ToJSON[<<MessageType, message>>]>>] = message
=============================================================================
