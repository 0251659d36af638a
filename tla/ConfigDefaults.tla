--------------------------- MODULE ConfigDefaults ---------------------------
(***************************************************************************)
(* applyConfigDefaults: what createNode adds to a configuration.  A JSON   *)
(* object is a function from keys to values; a key is a field and the way  *)
(* it is spelled, and spellings are numbered in the order in which keys    *)
(* sort: TCPPORT, tcp-port, tcpPort, tcpport.  Another value is its type   *)
(* and, for a string, its text in lower case.                              *)
(***************************************************************************)
EXTENDS Integers

CONSTANT RawFields    \* other fields of WakuNodeConf that a host may give

Upper == 1
Dashed == 2
Camel == 3
Lower == 4
Spellings == Upper .. Lower

Layered ==
  {"entryLayer", "mode", "preset", "kernelConf", "messagingOverrides", "channelsOverrides"}
Ports == {"tcpPort", "discv5UdpPort", "restPort", "metricsServerPort", "websocketPort"}
Storage == "localStoragePath"

ASSUME FieldsAssumption == RawFields \cap (Layered \cup Ports \cup {Storage}) = {}

Keys == [field : Layered \cup Ports \cup {Storage} \cup RawFields, spelling : Spellings]
Key(field) == [field |-> field, spelling |-> Camel]

IsObject(value) == value.type = "object"
Zero == [type |-> "number", text |-> ""]
InstanceData == [type |-> "string", text |-> "instance data"]    \* persistencePath + "/data"

\* Mutant of AcceptedSpellings: the command-line spelling is not looked for.
CasesOnly(field) == Spellings \ {Dashed}

\* The layered parser has no dashed spelling of its keys.
AcceptedSpellings(field) == IF field \in Layered THEN Spellings \ {Dashed} ELSE Spellings

\* findKey: every accepted spelling in any case, and the first of them
Spelled(object, field) ==
  {key \in DOMAIN object : key.field = field /\ key.spelling \in AcceptedSpellings(field)}
FindKey(object, field) ==
  CHOOSE key \in Spelled(object, field) :
    \A other \in Spelled(object, field) : key.spelling <= other.spelling

IsFlatShape(object) ==
  \E key \in DOMAIN object : key.field \notin Layered \/ key \notin Spelled(object, key.field)

KernelEntry(object) ==
  /\ Spelled(object, "entryLayer") # {}
  /\ object[FindKey(object, "entryLayer")] = [type |-> "string", text |-> "kernel"]

HasKernelConf(object) ==
  /\ Spelled(object, "kernelConf") # {}
  /\ IsObject(object[FindKey(object, "kernelConf")])

\* applyRawPortDefaults, and the storage directory if the host has one
Defaults(object, persistent) ==
  {Key(field) : field \in {p \in Ports : Spelled(object, p) = {}}}
    \cup (IF persistent /\ Spelled(object, Storage) = {} THEN {Key(Storage)} ELSE {})

Fill(object, persistent) ==
  [key \in DOMAIN object \cup Defaults(object, persistent) |->
     IF key \in DOMAIN object THEN object[key]
     ELSE IF key.field = Storage THEN InstanceData ELSE Zero]

Invalid == [type |-> "invalid"]

\* A configuration is filled in its kernelConf object, or at the top if it is a
\* flat one, or not at all.
applyConfigDefaults(cfg, persistent) ==
  IF ~IsObject(cfg) THEN Invalid
  ELSE IF HasKernelConf(cfg.members)
  THEN LET key == FindKey(cfg.members, "kernelConf")
       IN  [cfg EXCEPT !.members[key].members = Fill(@, persistent)]
  ELSE IF ~KernelEntry(cfg.members) /\ IsFlatShape(cfg.members)
  THEN [cfg EXCEPT !.members = Fill(@, persistent)]
  ELSE cfg
=============================================================================
