---------------------------- MODULE NodeContract ----------------------------
(***************************************************************************)
(* What the V1 managed-node interface promises a host, without threads,    *)
(* callbacks, locks or contexts (README.md "Managed-node lifecycle", the   *)
(* comments on nodeStatus and nodeAction in the header): a node that moves *)
(* between three states, one operation at a time, and an outcome for every *)
(* operation id that is decided once and kept until it is forgotten.       *)
(***************************************************************************)
CONSTANTS OperationIds

VARIABLES
  node,      \* the state the last settled operation left
  inFlight,  \* the accepted operation not yet settled: {} or {<<id, action>>}
  outcome    \* what the host has been told about each id; "unknown" if nothing

vars == <<node, inFlight, outcome>>

Target == [initialize |-> "stopped", start |-> "running",
           stop |-> "stopped", destroy |-> "uninitialized"]
Source == [initialize |-> "uninitialized", start |-> "stopped",
           stop |-> "running", destroy |-> "stopped"]

Init ==
  /\ node = "uninitialized"
  /\ inFlight = {}
  /\ outcome = [o \in OperationIds |-> "unknown"]

\* Tell o's outcome and forget at most one operation that was already decided.
Decide(o, result) ==
  \E old \in OperationIds :
    outcome' = [x \in OperationIds |->
                  IF x = o THEN result
                  ELSE IF x = old /\ outcome[x] # "pending" THEN "unknown"
                  ELSE outcome[x]]

Accept(o, a) ==
  /\ inFlight = {} /\ node = Source[a] /\ outcome[o] = "unknown"
  /\ inFlight' = {<<o, a>>}
  /\ outcome' = [outcome EXCEPT ![o] = "pending"]
  /\ UNCHANGED node

Succeed(o, a) ==
  /\ inFlight = {<<o, a>>}
  /\ node' = Target[a]
  /\ inFlight' = {}
  /\ Decide(o, "succeeded")

\* A failed operation leaves the node where it was; an initialize may fail
\* with a context that only destroy can clear away.
Fail(o, a) ==
  /\ inFlight = {<<o, a>>}
  /\ \/ UNCHANGED node
     \/ a = "initialize" /\ node' = "stopped"
  /\ inFlight' = {}
  /\ Decide(o, "failed")

\* Answered on the spot: the node is there already, or the request is refused.
NoOp(o, a) ==
  /\ inFlight = {} /\ node = Target[a] /\ a # "initialize"
  /\ outcome[o] = "unknown"
  /\ Decide(o, "no_op")
  /\ UNCHANGED <<node, inFlight>>

Refuse(o) ==
  /\ outcome[o] = "unknown"
  /\ Decide(o, "rejected")
  /\ UNCHANGED <<node, inFlight>>

Next ==
  \E o \in OperationIds :
    \/ Refuse(o)
    \/ \E a \in DOMAIN Target : Accept(o, a) \/ Succeed(o, a) \/ Fail(o, a) \/ NoOp(o, a)

Spec == Init /\ [][Next]_vars
=============================================================================
