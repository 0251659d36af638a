---------------------------- MODULE ModuleInputs ----------------------------
(***************************************************************************)
(* What crosses the module's border, one input at a time: the requests,    *)
(* configurations and calls of a host and the events of liblogosdelivery,  *)
(* each with what the module makes of it.                                  *)
(***************************************************************************)
EXTENDS Requests, ConfigDefaults, ApiWrappers, EventDecoding

CONSTANTS
  RawRequests, Configs, Queries, Outcomes, Events   \* what the host and the FFI may give

\* What the JSON library and C++ have types for: an unsigned number is not
\* negative, an object is a function on keys, milliseconds are an integer.
CountsUp(value) == Is(value, "unsigned") => value.number \in Nat
IsMembers(object) ==
  object = [key \in DOMAIN object |-> object[key]] /\ DOMAIN object \subseteq Keys
WellFormed(value) ==
  IsObject(value) =>
    value = [type |-> "object", members |-> value.members] /\ IsMembers(value.members)

\* A JSON integer is a std::int64_t or a std::uint64_t; any other number is a double.
JsonIntegers == -(2 ^ (Width - 1)) .. 2 ^ Width - 1
NumbersFit(message) ==
  /\ Has(message, "timestamp") =>
       /\ Is(message["timestamp"], "integer") => message["timestamp"].number \in JsonIntegers
       /\ Is(message["timestamp"], "float") => message["timestamp"].halves \in Int
  /\ Has(message, "payload") /\ Is(message["payload"], "array") =>
       \A i \in DOMAIN message["payload"].elements :
         Is(message["payload"].elements[i], "integer") =>
           message["payload"].elements[i].number \in JsonIntegers

\* Characters are numbers, whatever they stand for.
CharactersFit(object) ==
  Has(object, "payload") /\ Is(object["payload"], "string") =>
    object["payload"].characters \in Seq(Nat)

ASSUME InputsAssumption ==
  /\ \A r \in RawRequests : IsCommand(r.input) /\ Present(r.input.expected) =>
       CountsUp(r.input.expected.epoch) /\ CountsUp(r.input.expected.sequence)
  /\ \A cfg \in Configs :
       /\ WellFormed(cfg)
       /\ IsObject(cfg) => \A key \in DOMAIN cfg.members : WellFormed(cfg.members[key])
  /\ \A query \in Queries : query.timeoutMs \in Int
  /\ \A e \in Events :
       /\ Is(e, "object") => CharactersFit(e.members)
       /\ Is(e, "object") /\ Is(Message(e), "object") =>
            NumbersFit(Message(e).members) /\ CharactersFit(Message(e).members)

VARIABLES
  entry,     \* the function the input went to
  input,
  result

vars == <<entry, input, result>>

Nothing == [type |-> "nothing"]
Init == entry = "none" /\ input = Nothing /\ result = Nothing

Crosses(function, in, out) == entry' = function /\ input' = in /\ result' = out

Requested == \E r \in RawRequests : Crosses("nodeAction", r, nodeActionScreens(r))

Configured ==
  \E cfg \in Configs, persistent \in BOOLEAN :
    Crosses("createNode", [cfg |-> cfg, persistent |-> persistent],
            applyConfigDefaults(cfg, persistent))

Called ==
  \E w \in Wrappers, context \in BOOLEAN, q \in Queries, outcome \in Outcomes :
    Crosses(w, [context |-> context, query |-> q, outcome |-> outcome],
            Returns(w, context, q, outcome))

Notified == \E e \in Events : \E d \in event_callback(e) : Crosses("event_callback", e, d)

\* None of these functions keeps anything from one input to the next.
Done == entry # "none" /\ entry' = "none" /\ input' = Nothing /\ result' = Nothing

Next ==
  \/ entry = "none" /\ (Requested \/ Configured \/ Called \/ Notified)
  \/ Done

Spec == Init /\ [][Next]_vars

-----------------------------------------------------------------------------
(***************************************************************************)
(* What beginLifecycleAction takes from an admitted request it can use as  *)
(* it is: the id is not empty, which would make the action a legacy one,   *)
(* the expected numbers are not negative, which would wrap, and initialize *)
(* alone has a configuration, one without a NUL and within the limit.      *)
(***************************************************************************)
CommandsAreUsable ==
  entry = "nodeAction" /\ result.accepted =>
    LET command == result.command
    IN  /\ command.operation_id.bytes # <<>>
        /\ Present(command.expected) =>
             command.expected.epoch.number >= 0 /\ command.expected.sequence.number >= 0
        /\ Present(command.parameters) /\ command.parameters.keys # {} =>
             /\ command.action.text = "initialize"
             /\ ~command.parameters.config.nul
             /\ command.parameters.config.size <= MaxConfigBytes

(***************************************************************************)
(* Defaults leave what the host gave alone; they name no port or directory *)
(* the host named in any spelling; a node that gets any gets every port;   *)
(* and a configuration that went through once stays as it is (cpp 571-627).*)
(* README.md 133 and 160 deny that anything is filled in at all.           *)
(***************************************************************************)
Keeps(object, filled) ==
  /\ DOMAIN object \subseteq DOMAIN filled
  /\ \A key \in DOMAIN object : filled[key] = object[key]

AddsUnnamed(object, filled) ==
  \A key \in DOMAIN filled \ DOMAIN object :
    /\ key.field \in Ports \cup {Storage}
    /\ \A other \in DOMAIN filled : other.field = key.field => other = key

NamesEveryPort(filled) == \A p \in Ports : \E key \in DOMAIN filled : key.field = p

FilledOnce(object, filled) ==
  /\ Keeps(object, filled) /\ AddsUnnamed(object, filled)
  /\ filled # object => NamesEveryPort(filled)

DefaultsOnlyFill ==
  entry = "createNode" /\ IsObject(input.cfg) =>
    LET before == input.cfg.members
        after == result.members
        inside == {key \in DOMAIN before : IsObject(before[key]) /\ after[key] # before[key]}
    IN  /\ \/ inside = {} /\ FilledOnce(before, after)
           \/ /\ DOMAIN before = DOMAIN after
              /\ \E key \in inside :
                   /\ key.field = "kernelConf" /\ inside = {key}
                   /\ FilledOnce(before[key].members, after[key].members)
                   /\ \A other \in DOMAIN before \ {key} : after[other] = before[other]
        /\ applyConfigDefaults(result, input.persistent) = result

(***************************************************************************)
(* liblogosdelivery gets the store query's time unchanged, and a query that*)
(* runs out of it is answered before the module stops waiting, so that the *)
(* host reads that answer and not the module's own timeout.                *)
(***************************************************************************)
QueriesAreAnswered ==
  entry = "storeQuery" /\ Forwards(entry, input.context, input.query) =>
    /\ FfiTimeout(input.query) = input.query.timeoutMs
    /\ Seconds(entry, input.query) * 1000 > input.query.timeoutMs

(***************************************************************************)
(* A payload that comes as an array of numbers arrives all or not at all:  *)
(* no number is cut to a byte on its way (cpp 143-160).                    *)
(***************************************************************************)
ByteArraysArrive ==
  entry = "event_callback" /\ result.delivered /\ "timestamp" \in DOMAIN result =>
    LET message == Message(input).members
        elements == message["payload"].elements
    IN  Has(message, "payload") /\ Is(message["payload"], "array") =>
          result.payload \in {<<>>, [i \in DOMAIN elements |-> elements[i].number]}

\* Where a kind of event has its payload.
Carrier(event) ==
  IF Text(event.members, "eventType") = "message_received" THEN Message(event).members
  ELSE event.members

\* What an encoder writes: quads, the last one padded, no bit set that is not used.
WellFormedText(text) ==
  /\ Len(text) % 4 = 0
  /\ \E n \in 0 .. Len(text) :
       /\ n > Len(text) - 3
       /\ \A i \in 1 .. Len(text) : IF i <= n THEN text[i] \in Sextets ELSE text[i] = Pad
       /\ n % 4 = 2 => text[n] % 16 = 0
       /\ n % 4 = 3 => text[n] % 4 = 0

(***************************************************************************)
(* A base64 payload of a channel or other message arrives whole if it is   *)
(* well formed: what the host gets encodes to the text that came.  Of any  *)
(* other text it gets a beginning, in place of an error; that bytes are    *)
(* missing then it cannot tell (cpp 59-72, 162-178).                       *)
(***************************************************************************)
Base64Arrives ==
  /\ entry = "event_callback" /\ result.delivered
  /\ Text(input.members, "eventType") \in {"message_received", "channel_message_received"}
  /\ Has(Carrier(input), "payload") /\ Is(Carrier(input)["payload"], "string")
  => LET text == Carrier(input)["payload"].characters
         again == base64Encode(result.payload)
     IN  IF WellFormedText(text) THEN again = text
         ELSE \A i \in 1 .. 4 * (Len(result.payload) \div 3) : again[i] = text[i]

(***************************************************************************)
(* The time of a received message is no further from the sender's than a   *)
(* double is from an integer, and the same but for the fraction if the     *)
(* sender's is no integer.  Times out of std::int64_t's range, as doubles, *)
(* are left out: the cast makes anything of them (cpp 486).  For an integer*)
(* api_reference.rst 27 promises the time itself.                          *)
(***************************************************************************)
TimestampsAreNear ==
  entry = "event_callback" /\ result.delivered /\ "timestamp" \in DOMAIN result =>
    LET message == Message(input).members
        sent == message["timestamp"]
    IN  Has(message, "timestamp") /\ WholePart(sent) \in Int64 =>
          IF Is(sent, "float")
          THEN /\ Magnitude(2 * result.timestamp - sent.halves) < 2
               /\ Magnitude(2 * result.timestamp) <= Magnitude(sent.halves)
          ELSE 2 ^ MantissaBits * Magnitude(result.timestamp - sent.number) <= Magnitude(sent.number)
=============================================================================
