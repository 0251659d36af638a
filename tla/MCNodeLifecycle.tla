-------------------------- MODULE MCNodeLifecycle --------------------------
(***************************************************************************)
(* NodeLifecycle for TLC: which ids a host uses, how many of its threads   *)
(* are inside the legacy surface, and how far the sequence counter goes.   *)
(***************************************************************************)
EXTENDS NodeLifecycleRefinement, TLC

\* Operation ids are interchangeable.
Ids == Permutations(OperationIds)
=============================================================================
