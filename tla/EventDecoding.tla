---------------------------- MODULE EventDecoding ----------------------------
(***************************************************************************)
(* event_callback: which of liblogosdelivery's JSON events reach the host, *)
(* and with what.  A JSON object is a function from names to values; every *)
(* conversion that throws makes the callback drop the event.               *)
(***************************************************************************)
EXTENDS Integers, Sequences

CONSTANTS
  Width,          \* bits of std::int64_t
  MantissaBits,   \* bits a double keeps of an integer
  MaxByte         \* 255

ASSUME DecodingAssumption ==
  /\ Width \in Nat \ {0} /\ MantissaBits \in 1 .. Width /\ MaxByte \in Nat

\* True of every Width: what a proof needs of ^, of which the provers know nothing.
ASSUME PowersOfTwo ==
  \A e \in 0 .. Width : 2 ^ e \in Nat \ {0} /\ 2 ^ (e + 1) = 2 * 2 ^ e

Int64 == -(2 ^ (Width - 1)) .. 2 ^ (Width - 1) - 1
AsInt64(n) == ((n + 2 ^ (Width - 1)) % 2 ^ Width) - 2 ^ (Width - 1)

\* The names every kind of event is read for; message_received has more.
Names(eventType) ==
  CASE eventType \in {"message_sent", "message_propagated"} -> {"requestId", "messageHash"}
    [] eventType = "message_error" -> {"requestId", "messageHash", "error"}
    [] eventType = "message_received" -> {"messageHash"}
    [] eventType = "connection_status_change" -> {"connectionStatus"}
    [] eventType = "channel_message_received" -> {"channelId", "senderId"}
    [] eventType = "channel_message_sent" -> {"channelId", "requestId"}
    [] eventType = "channel_message_error" -> {"channelId", "requestId", "error"}
EventTypes ==
  {"message_sent", "message_propagated", "message_error", "message_received",
   "connection_status_change", "channel_message_received", "channel_message_sent",
   "channel_message_error"}

Has(object, name) == name \in DOMAIN object
\* value(name, ""), value(name, 0.0): what is there has the type, or throws
Converts(object, name, types) == Has(object, name) => object[name].type \in types
Text(object, name) == IF Has(object, name) THEN object[name].text ELSE ""

IsByte(element) == element.type = "integer" /\ AsInt64(element.number) \in 0 .. MaxByte

\* Mutant of decodeByteArrayPayload: a number is cut to a byte.
CutToBytes(elements) ==
  [i \in DOMAIN elements |-> elements[i].number % (MaxByte + 1)]

decodeByteArrayPayload(elements) ==
  IF \A i \in DOMAIN elements : IsByte(elements[i])
  THEN [i \in DOMAIN elements |-> AsInt64(elements[i].number)]
  ELSE <<>>

-----------------------------------------------------------------------------
(***************************************************************************)
(* base64.  A character is the six bits it stands for, Pad, or any other   *)
(* number.  Byte j begins in sextet i, which the next one completes.       *)
(***************************************************************************)
Sextets == 0 .. 63
Pad == 64

\* A sextet of two bytes, a byte of two sextets, and what is to its right in them.
AsSextet(left, right, below) == ((256 * left + right) \div below) % 64
AsByte(left, right, below) == ((64 * left + right) \div below) % 256
BelowSextet == <<1024, 16, 64, 256>>
BelowByte == <<16, 4, 1>>

base64Encode(bytes) ==
  LET n == Len(bytes)
      Byte(i) == IF i <= n THEN bytes[i] ELSE 0
      Sextet(k, i) == AsSextet(Byte(i), Byte(i + 1), BelowSextet[((k - 1) % 4) + 1])
  IN  [k \in 1 .. 4 * ((n + 2) \div 3) |->
         IF k <= (4 * n + 2) \div 3 THEN Sextet(k, (3 * (k - 1)) \div 4 + 1) ELSE Pad]

\* Characters before the first that is no sextet.
Readable(text) ==
  CHOOSE n \in 0 .. Len(text) :
    (\A i \in 1 .. n : text[i] \in Sextets) /\ (n < Len(text) => text[n + 1] \notin Sextets)

\* Byte j of a text, which begins in its sextet i.
ByteAt(text, j, i) == AsByte(text[i], text[i + 1], BelowByte[((j - 1) % 3) + 1])

\* Mutant of base64Decode: sextets that are not four are left out.
base64DecodeQuads(text) ==
  [j \in 1 .. 3 * (Readable(text) \div 4) |-> ByteAt(text, j, (4 * (j - 1)) \div 3 + 1)]

base64Decode(text) ==
  [j \in 1 .. (3 * Readable(text)) \div 4 |-> ByteAt(text, j, (4 * (j - 1)) \div 3 + 1)]

\* decodeMessageReceivedPayload, or decodeBase64Payload where arrays are not read
DecodePayload(object, arrays) ==
  IF ~Has(object, "payload") THEN <<>>
  ELSE LET payload == object["payload"]
       IN  IF payload.type = "array" /\ arrays THEN decodeByteArrayPayload(payload.elements)
           ELSE IF payload.type = "string" THEN base64Decode(payload.characters) ELSE <<>>

-----------------------------------------------------------------------------
\* The double next to n, the even one of two.
Magnitude(n) == IF n < 0 THEN -n ELSE n
Ulp(n) ==
  CHOOSE u \in {2 ^ e : e \in 0 .. Width} :
    Magnitude(n) < u * 2 ^ MantissaBits /\ (u > 1 => Magnitude(n) >= (u \div 2) * 2 ^ MantissaBits)
AsDouble(n) ==
  LET u == Ulp(n)
      low == (n \div u) * u
  IN  IF 2 * (n - low) < u \/ (2 * (n - low) = u /\ (low \div u) % 2 = 0) THEN low ELSE low + u

\* static_cast<std::int64_t> drops the fraction.  A JSON number is an integer,
\* which becomes a double first, or a double already, given in halves.
Truncated(halves) == IF halves < 0 THEN -((-halves) \div 2) ELSE halves \div 2
WholePart(number) ==
  IF number.type = "float" THEN Truncated(number.halves) ELSE AsDouble(number.number)

\* Mutant of Timestamps: value("timestamp", 0), whose default makes it an int.
TimestampsAsInt(message) ==
  LET word == 2 ^ (Width \div 2)
      t == IF Has(message, "timestamp") THEN WholePart(message["timestamp"]) ELSE 0
  IN  {((t + word \div 2) % word) - word \div 2}

\* The cast of a double that is out of range is undefined: any integer.
Timestamps(message) ==
  LET t == IF Has(message, "timestamp") THEN WholePart(message["timestamp"]) ELSE 0
  IN  IF t \in Int64 THEN {t} ELSE Int64

Message(event) ==
  IF Has(event.members, "message") THEN event.members["message"]
  ELSE [type |-> "object", members |-> [name \in {} |-> 0]]

Dropped == [delivered |-> FALSE]

Convertible(event) ==
  /\ event.type = "object"
  /\ Converts(event.members, "eventType", {"string"})
  /\ Text(event.members, "eventType") \in EventTypes
  /\ \A name \in Names(Text(event.members, "eventType")) : Converts(event.members, name, {"string"})
  /\ Text(event.members, "eventType") = "message_received" =>
       /\ Message(event).type = "object"
       /\ Converts(Message(event).members, "contentTopic", {"string"})
       /\ Converts(Message(event).members, "timestamp", {"integer", "float"})

\* What may reach the host; other events are stamped with the module's clock.
event_callback(event) ==
  IF ~Convertible(event) THEN {Dropped}
  ELSE LET type == Text(event.members, "eventType")
           texts == [name \in Names(type) |-> Text(event.members, name)]
       IN  IF type = "message_received"
           THEN [delivered : {TRUE}, texts : {texts},
                 payload : {DecodePayload(Message(event).members, TRUE)},
                 timestamp : Timestamps(Message(event).members)]
           ELSE {[delivered |-> TRUE, texts |-> texts,
                  payload |-> IF type = "channel_message_received"
                              THEN DecodePayload(event.members, FALSE) ELSE <<>>]}
=============================================================================
