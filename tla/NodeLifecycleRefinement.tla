---------------------- MODULE NodeLifecycleRefinement ----------------------
(***************************************************************************)
(* The lifecycle of NodeLifecycle, seen through the V1 interface only,     *)
(* implements NodeContract: the node is where the pending operation found  *)
(* it until that operation settles, and the outcomes are the ledger's.     *)
(***************************************************************************)
EXTENDS NodeLifecycle

Contract == INSTANCE NodeContract WITH
  node     <- IF pending /\ active.op \in DOMAIN operations
              THEN operations[active.op].previous ELSE lifecycleState,
  inFlight <- IF pending THEN {<<active.op, active.action>>} ELSE {},
  outcome  <- [o \in OperationIds |->
                 IF o \in DOMAIN operations THEN operations[o].outcome ELSE "unknown"]

(***************************************************************************)
(* A V1 host gets what the interface promises: one operation at a time,    *)
(* from the state the contract names and to the state it names, each id    *)
(* decided once, whatever the workers, the FFI callbacks and the deque of  *)
(* completed operations do in between (cpp 841-976, 978-1045, 1047-1365).  *)
(***************************************************************************)
KeepsContract == Contract!Spec
=============================================================================
