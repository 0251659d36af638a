------------------------------ MODULE Requests ------------------------------
(***************************************************************************)
(* What nodeAction() asks of a request before beginLifecycleAction sees it.*)
(* A JSON value is a record with its type and what the code reads of it;   *)
(* a number keeps nlohmann's type: unsigned, integer (signed) or float.    *)
(***************************************************************************)
EXTENDS Integers, Sequences

CONSTANTS
  MaxRequestBytes,      \* MAX_NODE_LIFECYCLE_REQUEST_BYTES
  MaxConfigBytes,       \* MAX_NODE_LIFECYCLE_CONFIG_BYTES
  MaxOperationIdBytes   \* MAX_NODE_LIFECYCLE_OPERATION_ID_BYTES

ASSUME RequestsAssumption ==
  /\ MaxRequestBytes \in Nat \ {0} /\ MaxConfigBytes \in Nat \ {0}
  /\ MaxOperationIdBytes \in Nat \ {0}

Absent == [type |-> "absent"]
Is(value, type) == value.type = type
Present(value) == value.type # "absent"

\* Mutant of IsOperationId: the empty id passes.
IsOperationIdOrEmpty(bytes) ==
  /\ Len(bytes) <= MaxOperationIdBytes
  /\ \A i \in DOMAIN bytes : bytes[i] \in 33 .. 126

\* isValidNodeLifecycleOperationId: printable ASCII without blanks
IsOperationId(bytes) ==
  /\ Len(bytes) \in 1 .. MaxOperationIdBytes
  /\ \A i \in DOMAIN bytes : bytes[i] \in 33 .. 126

\* parseLifecycleUnsigned
IsUnsigned(value) == Is(value, "unsigned") \/ (Is(value, "integer") /\ value.number >= 0)

\* isLifecycleVersionOne: 1.0 is not the number it asks for
IsVersionOne(value) == value.type \in {"unsigned", "integer"} /\ value.number = 1

KnownKeys == {"schema", "version", "operation_id", "action", "expected", "parameters"}
KnownActions == {"initialize", "start", "stop", "destroy"}

IsSnapshot(value) ==
  /\ Is(value, "object")
  /\ value.keys = {"instance_id", "epoch", "sequence"}
  /\ Is(value.instance_id, "string")
  /\ IsUnsigned(value.epoch) /\ IsUnsigned(value.sequence)

IsConfig(value) == Is(value, "string") /\ value.size <= MaxConfigBytes /\ ~value.nul

\* Only initialize has parameters, and only its configuration.
FitsAction(parameters, action) ==
  LET keys == IF Present(parameters) THEN parameters.keys ELSE {}
  IN  IF action = "initialize"
      THEN keys = {"config"} /\ IsConfig(parameters.config)
      ELSE keys = {}

IsCommand(input) ==
  /\ Is(input, "object") /\ input.keys \subseteq KnownKeys
  /\ Is(input.schema, "string") /\ input.schema.text = "logos.managed_node_lifecycle.command"
  /\ IsVersionOne(input.version)
  /\ Is(input.operation_id, "string") /\ IsOperationId(input.operation_id.bytes)
  /\ Is(input.action, "string") /\ input.action.text \in KnownActions
  /\ Present(input.expected) => IsSnapshot(input.expected)
  /\ Present(input.parameters) => Is(input.parameters, "object")
  /\ FitsAction(input.parameters, input.action.text)

Rejected(code) == [accepted |-> FALSE, error |-> code]

\* The rejections differ in their messages only, so their order does not show.
nodeActionScreens(request) ==
  IF request.size > MaxRequestBytes THEN Rejected("request_too_large")
  ELSE IF ~IsCommand(request.input) THEN Rejected("invalid_request")
  ELSE [accepted |-> TRUE, command |-> request.input]
=============================================================================
