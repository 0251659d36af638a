--------------------------- MODULE NodeLifecycle ---------------------------
(***************************************************************************)
(* The managed-node lifecycle of DeliveryModuleImpl: the state machine     *)
(* under lifecycleMutex (beginLifecycleAction, settleLifecycleAction,      *)
(* settleLifecycleCallback), the operation ledger that makes nodeAction()  *)
(* idempotent, the legacy createNode()/start()/stop() surface that shares  *)
(* it, and the threads that carry an accepted action out: the initialize   *)
(* and destroy workers under createNodeMutex, and the start/stop calls     *)
(* whose completion only arrives through an FFI callback.                  *)
(*                                                                         *)
(* One step is what the code does between two points where another thread  *)
(* can get in: one critical section of a mutex, or one FFI call.  Each     *)
(* dispatched action is an actor of its own, named by the generation that  *)
(* beginLifecycleAction gave it.  LegacyCallers = {} is a host that keeps  *)
(* to the versioned V1 interface.                                          *)
(***************************************************************************)
EXTENDS Integers, Sequences

CONSTANTS
  OperationIds,    \* the operation_id values a V1 host uses
  NoOperation,     \* the empty id of a legacy action
  LegacyCallers,   \* host threads inside createNode(), start() or stop()
  MaxCompleted,    \* MAX_COMPLETED_NODE_LIFECYCLE_OPERATIONS
  MaxSequence      \* bound: no action begins once the sequence has come this far

ASSUME LifecycleAssumption ==
  /\ NoOperation \notin OperationIds
  /\ MaxCompleted \in Nat \ {0}
  /\ MaxSequence \in Nat

VARIABLES
  \* guarded by lifecycleMutex
  lifecycleState, generation, epoch, sequence, error,
  pending, active,       \* lifecyclePending; activeLifecycle{OperationId,Action,Generation}
  operations,            \* the ledger: operation id -> entry
  completed,             \* completedLifecycleOperationIds, oldest first
  \* written under createNodeMutex, read without it
  deliveryCtx,           \* a context is held
  listeners,             \* "ready", "none", or "stuck": ids left that could not be removed
  \* actors in flight
  calls,                 \* dispatched actions being carried out
  callbacks,             \* start/stop completions liblogosdelivery still owes
  settling,              \* threads about to enter settleLifecycleAction
  legacy,                \* per legacy caller: the action whose pre-check it passed
  snapshot               \* the status a V1 host read last

machine == <<lifecycleState, generation, epoch, error, pending, active>>
ledger == <<operations, completed>>
context == <<deliveryCtx, listeners>>
host == <<legacy, snapshot>>
vars == <<machine, sequence, ledger, context, calls, callbacks, settling, host>>

Actions == {"initialize", "start", "stop", "destroy"}
Settled == {"uninitialized", "stopped", "running"}
Transient == [initialize |-> "initializing", start |-> "starting",
              stop |-> "stopping", destroy |-> "destroying"]
States == Settled \cup {Transient[a] : a \in Actions}
Outcomes == {"pending", "succeeded", "failed", "rejected", "no_op"}
Idle == [op |-> NoOperation, action |-> "none", gen |-> 0]

SnapshotIds == [epoch : Nat, sequence : Nat]
\* A request: expected is empty when the host names no snapshot.
Requests == [action : Actions, expected : SUBSET SnapshotIds]
Entries == [request : Requests, previous : States, outcome : Outcomes]

(***************************************************************************)
(* The snapshot nodeStatus() returns.                                      *)
(***************************************************************************)
SupportedActions ==
  CASE lifecycleState = "uninitialized" -> {"initialize"}
    [] lifecycleState = "stopped"       -> IF listeners = "ready" THEN {"start", "destroy"}
                                                                  ELSE {"destroy"}
    [] lifecycleState = "running"       -> {"stop"}
    [] OTHER                            -> {}

View ==
  [epoch    |-> epoch,
   sequence |-> sequence,
   state    |-> lifecycleState,
   error    |-> error,
   actions  |-> SupportedActions,
   pending  |-> {o \in DOMAIN operations :
                    pending /\ o = active.op /\ operations[o].outcome = "pending"},
   last     |-> IF completed = <<>> THEN {}
                ELSE LET o == completed[Len(completed)]
                     IN  {<<o, operations[x]>> : x \in {o} \cap DOMAIN operations}]

Init ==
  /\ lifecycleState = "uninitialized"
  /\ generation = 0 /\ epoch = 0 /\ sequence = 0
  /\ error = "none"
  /\ pending = FALSE /\ active = Idle
  /\ operations = [o \in {} |-> Idle] /\ completed = <<>>
  /\ deliveryCtx = FALSE /\ listeners = "none"
  /\ calls = {} /\ callbacks = {} /\ settling = {}
  /\ legacy = [c \in LegacyCallers |-> "idle"]
  /\ snapshot = View

-----------------------------------------------------------------------------
(***************************************************************************)
(* The ledger.                                                             *)
(***************************************************************************)
Record(o, entry) ==
  [x \in DOMAIN operations \cup {o} |-> IF x = o THEN entry ELSE operations[x]]

\* Mutant of Retire: an expired id keeps its entry.
RetireLeaks(ops, o) ==
  LET queue == Append(completed, o)
  IN  /\ completed' = IF Len(queue) > MaxCompleted THEN Tail(queue) ELSE queue
      /\ operations' = ops

\* rememberCompletedLifecycleOperationLocked(o) on the ledger ops: the oldest
\* completed id is expired when the deque overflows, with its settled entry.
Retire(ops, o) ==
  LET queue   == Append(completed, o)
      expired == IF Len(queue) > MaxCompleted THEN {Head(queue)} ELSE {}
  IN  /\ completed' = IF expired = {} THEN queue ELSE Tail(queue)
      /\ operations' = [x \in {y \in DOMAIN ops :
                                  y \in expired => ops[y].outcome = "pending"} |-> ops[x]]

\* Mutant of Conclude: the empty id of a legacy action is remembered too.
ConcludeEmptyId(o, outcome) ==
  Retire([x \in DOMAIN operations |->
            IF x = o THEN [operations[x] EXCEPT !.outcome = outcome] ELSE operations[x]], o)

\* Mark o with its outcome and remember it; a legacy action has no entry.
Conclude(o, outcome) ==
  IF o \in DOMAIN operations
  THEN Retire([operations EXCEPT ![o].outcome = outcome], o)
  ELSE UNCHANGED ledger

-----------------------------------------------------------------------------
(***************************************************************************)
(* beginLifecycleAction on behalf of nodeAction() (strictAction).          *)
(***************************************************************************)
Stale(r) == \E e \in r.expected : e # [epoch |-> epoch, sequence |-> sequence]

AlreadyThere(a) ==
  \/ a = "start"   /\ lifecycleState = "running"
  \/ a = "stop"    /\ lifecycleState = "stopped"
  \/ a = "destroy" /\ lifecycleState = "uninitialized"

\* Mutant of Dispatchable: start does not ask for the listeners.
DispatchableUnheard(a) ==
  \/ a = "initialize" /\ lifecycleState = "uninitialized"
  \/ a = "start"      /\ lifecycleState = "stopped"
  \/ a = "stop"       /\ lifecycleState = "running"
  \/ a = "destroy"    /\ lifecycleState = "stopped" /\ deliveryCtx

Dispatchable(a) ==
  \/ a = "initialize" /\ lifecycleState = "uninitialized"
  \/ a = "start"      /\ lifecycleState = "stopped" /\ listeners = "ready"
  \/ a = "stop"       /\ lifecycleState = "running"
  \/ a = "destroy"    /\ lifecycleState = "stopped" /\ deliveryCtx

\* Mutant of SettleWithoutDispatch: settling is not given a number of its own.
SettleUnnumbered(o, r, outcome, steps) ==
  /\ sequence < MaxSequence
  /\ sequence' = sequence + steps - 1
  /\ Retire(Record(o, [request |-> r, previous |-> lifecycleState, outcome |-> outcome]), o)
  /\ UNCHANGED <<machine, context, calls, callbacks, settling, host>>

SettleWithoutDispatch(o, r, outcome, steps) ==
  /\ sequence < MaxSequence
  /\ sequence' = sequence + steps
  /\ Retire(Record(o, [request |-> r, previous |-> lifecycleState, outcome |-> outcome]), o)
  /\ UNCHANGED <<machine, context, calls, callbacks, settling, host>>

\* The id is known: a duplicate replays the stored acknowledgement, a different
\* request is an operation_id_conflict; neither touches the lifecycle.
Resubmit(o, r) ==
  /\ o \in DOMAIN operations
  /\ UNCHANGED vars

Reject(o, r) ==
  /\ o \notin DOMAIN operations
  /\ pending \/ Stale(r) \/ ~(AlreadyThere(r.action) \/ Dispatchable(r.action))
  /\ SettleWithoutDispatch(o, r, "rejected", 1)

\* accepted and settled events, one sequence number each
NoOp(o, r) ==
  /\ o \notin DOMAIN operations
  /\ ~pending /\ ~Stale(r) /\ AlreadyThere(r.action)
  /\ SettleWithoutDispatch(o, r, "no_op", 2)

\* Mutant of Dispatch: the previous state is read after the new one is set.
DispatchReadsLate(a, o) ==
  /\ sequence < MaxSequence
  /\ lifecycleState' = Transient[a]
  /\ generation' = generation + 1
  /\ error' = "none"
  /\ pending' = TRUE
  /\ active' = [op |-> o, action |-> a, gen |-> generation + 1]
  /\ calls' = calls \cup
       {[gen |-> generation + 1, action |-> a, op |-> o, prev |-> Transient[a],
         stage |-> IF a = "initialize" /\ o = NoOperation THEN "launched" ELSE "accepted"]}
  /\ UNCHANGED <<epoch, context, callbacks, settling, snapshot>>

\* The part of beginLifecycleAction both surfaces share.  A legacy initialize
\* is carried out by its caller, a V1 one still has to get its worker.
Dispatch(a, o) ==
  /\ sequence < MaxSequence
  /\ lifecycleState' = Transient[a]
  /\ generation' = generation + 1
  /\ error' = "none"
  /\ pending' = TRUE
  /\ active' = [op |-> o, action |-> a, gen |-> generation + 1]
  /\ calls' = calls \cup
       {[gen |-> generation + 1, action |-> a, op |-> o, prev |-> lifecycleState,
         stage |-> IF a = "initialize" /\ o = NoOperation THEN "launched" ELSE "accepted"]}
  /\ UNCHANGED <<epoch, context, callbacks, settling, snapshot>>

Accept(o, r) ==
  /\ o \notin DOMAIN operations
  /\ ~pending /\ ~Stale(r) /\ Dispatchable(r.action)
  /\ Dispatch(r.action, o)
  /\ sequence' = sequence + 1
  /\ operations' = Record(o, [request |-> r, previous |-> lifecycleState,
                              outcome |-> "pending"])
  /\ UNCHANGED <<completed, legacy>>

NodeAction(o, r) == Resubmit(o, r) \/ Reject(o, r) \/ NoOp(o, r) \/ Accept(o, r)

NodeStatus ==
  /\ snapshot' = View
  /\ UNCHANGED <<machine, sequence, ledger, context, calls, callbacks, settling, legacy>>

\* A V1 host names no snapshot, or the one it read last.
HostRequests ==
  {[action |-> a, expected |-> e] : a \in Actions,
     e \in {{}, {[epoch |-> snapshot.epoch, sequence |-> snapshot.sequence]}}}

-----------------------------------------------------------------------------
(***************************************************************************)
(* The legacy surface: an unsynchronised pre-check, then begin.            *)
(***************************************************************************)
CreateNodeLocked ==
  \E c \in calls : c.action \in {"initialize", "destroy"}
                   /\ c.stage \in {"locked", "awaiting", "created", "unhooked", "done"}

LegacyCheck(c, a) ==
  /\ legacy[c] = "idle"
  /\ \/ a = "initialize" /\ ~CreateNodeLocked /\ ~deliveryCtx
     \/ a = "start" /\ deliveryCtx /\ listeners = "ready"
     \/ a = "stop"  /\ deliveryCtx
  /\ legacy' = [legacy EXCEPT ![c] = a]
  /\ UNCHANGED <<machine, sequence, ledger, context, calls, callbacks, settling, snapshot>>

\* A legacy action never waits: it fails the pending operation as superseded.
LegacyBegin(c) ==
  /\ legacy[c] # "idle"
  /\ Dispatch(legacy[c], NoOperation)
  /\ sequence' = sequence + (IF pending THEN 2 ELSE 1)
  /\ IF pending THEN Conclude(active.op, "failed") ELSE UNCHANGED ledger
  /\ legacy' = [legacy EXCEPT ![c] = "idle"]

-----------------------------------------------------------------------------
(***************************************************************************)
(* Settling.  A job is a thread on its way into settleLifecycleAction with *)
(* its arguments; from is the dispatch whose completion brought it there.  *)
(***************************************************************************)
Job(d, goal, ok) ==
  [action |-> d.action, op |-> d.op, gen |-> d.gen, goal |-> goal, ok |-> ok, from |-> d.gen]

Live(s) == pending /\ active.gen = s.gen /\ active.action = s.action

\* The settling thread goes on; a worker also leaves createNodeMutex.
Leave(s) ==
  /\ settling' = settling \ {s}
  /\ calls' = {c \in calls : ~(c.stage = "done" /\ c.gen = s.from)}

SettleLive(s) ==
  /\ Live(s)
  /\ lifecycleState' = s.goal
  /\ error' = IF s.ok THEN "none" ELSE s.action
  /\ epoch' = IF s.ok /\ s.action = "initialize" THEN epoch + 1 ELSE epoch
  /\ pending' = FALSE /\ active' = Idle
  /\ sequence' = sequence + 1
  /\ Conclude(s.op, IF s.ok THEN "succeeded" ELSE "failed")
  /\ Leave(s)
  /\ UNCHANGED <<generation, context, callbacks, host>>

\* Mutant of DropStale: the outcome is written before the generation is compared.
DropStaleDecides(s) ==
  /\ ~Live(s)
  /\ operations' = [o \in DOMAIN operations |->
                      IF o = s.op
                      THEN [operations[o] EXCEPT !.outcome = IF s.ok THEN "succeeded" ELSE "failed"]
                      ELSE operations[o]]
  /\ Leave(s)
  /\ UNCHANGED <<machine, sequence, completed, context, callbacks, host>>

DropStale(s) ==
  /\ ~Live(s)
  /\ Leave(s)
  /\ UNCHANGED <<machine, sequence, ledger, context, callbacks, host>>

-----------------------------------------------------------------------------
(***************************************************************************)
(* Carrying an action out.                                                 *)
(***************************************************************************)
Move(d, stage) == calls' = (calls \ {d}) \cup {[d EXCEPT !.stage = stage]}

\* Mutant of Quit: a failed dispatch returns without settling.
QuitUnsettled(d, goal, ok) ==
  /\ calls' = calls \ {d}
  /\ UNCHANGED settling

\* A caller's thread settles and returns.
Quit(d, goal, ok) ==
  /\ calls' = calls \ {d}
  /\ settling' = settling \cup {Job(d, goal, ok)}

\* A thread that holds createNodeMutex settles before it releases it.
Finish(d, goal, ok) ==
  /\ Move(d, "done")
  /\ settling' = settling \cup {Job(d, goal, ok)}

\* launch*Worker joins the previous worker of its kind first.
PreviousWorkerGone(d) ==
  \A w \in calls : w.action = d.action /\ w.op # NoOperation => w.stage = "accepted"

Launch(d) ==
  /\ d.stage = "accepted" /\ d.action \in {"initialize", "destroy"}
  /\ PreviousWorkerGone(d)
  /\ Move(d, "launched")
  /\ UNCHANGED <<machine, sequence, ledger, context, callbacks, settling, host>>

\* No thread, or nodeAction() was called from the very worker to be joined.
LaunchFails(d) ==
  /\ d.stage = "accepted" /\ d.action \in {"initialize", "destroy"}
  /\ Quit(d, IF d.action = "initialize" THEN "uninitialized" ELSE d.prev, FALSE)
  /\ UNCHANGED <<machine, sequence, ledger, context, callbacks, host>>

LockCreateNode(d) ==
  /\ d.stage = "launched" /\ ~CreateNodeLocked
  /\ Move(d, "locked")
  /\ UNCHANGED <<machine, sequence, ledger, context, callbacks, settling, host>>

\* createNodePrepared before any FFI work is outstanding: a context is there
\* already, the configuration is bad, or the FFI refuses the call.
CreateRefused(d) ==
  /\ d.action = "initialize" /\ d.stage = "locked"
  /\ Finish(d, "uninitialized", FALSE)
  /\ UNCHANGED <<machine, sequence, ledger, context, callbacks, host>>

DispatchCreate(d) ==
  /\ d.action = "initialize" /\ d.stage = "locked"
  /\ ~deliveryCtx
  /\ Move(d, "awaiting")
  /\ UNCHANGED <<machine, sequence, ledger, context, callbacks, settling, host>>

\* Mutant of CreateTimesOut: a wait without a timeout.
CreateWaitsForever(d) == FALSE

\* CALLBACK_TIMEOUT passes without an answer
CreateTimesOut(d) ==
  /\ d.stage = "awaiting"
  /\ Finish(d, "uninitialized", FALSE)
  /\ UNCHANGED <<machine, sequence, ledger, context, callbacks, host>>

\* liblogosdelivery answers with a context or with an error.
CreateAnswers(d) ==
  /\ d.stage = "awaiting"
  /\ \/ deliveryCtx' = TRUE /\ Move(d, "created") /\ UNCHANGED settling
     \/ UNCHANGED deliveryCtx /\ Finish(d, "uninitialized", FALSE)
  /\ UNCHANGED <<machine, sequence, ledger, listeners, callbacks, host>>

\* Mutant of RegisterListeners: the context is destroyed without looking for
\* listeners that could not be removed.
RegisterThenDestroy(d) ==
  /\ d.action = "initialize" /\ d.stage = "created"
  /\ \/ /\ listeners' = "ready" /\ UNCHANGED deliveryCtx
        /\ Finish(d, "stopped", TRUE)
     \/ /\ listeners' \in {"stuck", "none"} /\ deliveryCtx' = FALSE
        /\ Finish(d, "uninitialized", FALSE)
  /\ UNCHANGED <<machine, sequence, ledger, callbacks, host>>

\* Registration works, or it fails and what was registered cannot be removed,
\* or the context is destroyed again, or that fails too and registration is retried.
RegisterListeners(d) ==
  /\ d.action = "initialize" /\ d.stage = "created"
  /\ \/ /\ listeners' = "ready" /\ UNCHANGED deliveryCtx
        /\ Finish(d, "stopped", TRUE)
     \/ /\ listeners' \in {"stuck", "none"} /\ UNCHANGED deliveryCtx
        /\ Finish(d, "stopped", FALSE)
     \/ /\ deliveryCtx' = FALSE /\ UNCHANGED listeners
        /\ Finish(d, "uninitialized", FALSE)
  /\ UNCHANGED <<machine, sequence, ledger, callbacks, host>>

\* destroyPrepared up to logosdelivery_destroy
RemoveListeners(d) ==
  /\ d.action = "destroy" /\ d.stage = "locked"
  /\ \/ /\ ~deliveryCtx /\ UNCHANGED listeners
        /\ Finish(d, d.prev, FALSE)
     \/ /\ deliveryCtx /\ listeners # "none" /\ listeners' = "stuck"
        /\ Finish(d, d.prev, FALSE)
     \/ /\ deliveryCtx /\ listeners' = "none"
        /\ Move(d, "unhooked") /\ UNCHANGED settling
  /\ UNCHANGED <<machine, sequence, ledger, deliveryCtx, callbacks, host>>

\* Mutant of DestroyContext: a failed destroy does not restore the state.
DestroyForgetsFailure(d) ==
  /\ d.action = "destroy" /\ d.stage = "unhooked"
  /\ \/ /\ deliveryCtx' = FALSE /\ UNCHANGED listeners
        /\ Finish(d, "uninitialized", TRUE)
     \/ /\ listeners' \in {"ready", "none", "stuck"} /\ UNCHANGED deliveryCtx
        /\ Finish(d, "uninitialized", FALSE)
  /\ UNCHANGED <<machine, sequence, ledger, callbacks, host>>

DestroyContext(d) ==
  /\ d.action = "destroy" /\ d.stage = "unhooked"
  /\ \/ /\ deliveryCtx' = FALSE /\ UNCHANGED listeners
        /\ Finish(d, "uninitialized", TRUE)
     \/ /\ listeners' \in {"ready", "none", "stuck"} /\ UNCHANGED deliveryCtx
        /\ Finish(d, d.prev, FALSE)
  /\ UNCHANGED <<machine, sequence, ledger, callbacks, host>>

\* startPrepared and stopPrepared: the FFI call, which returns without waiting.
Invoke(d) ==
  /\ d.stage = "accepted" /\ d.action \in {"start", "stop"}
  /\ IF deliveryCtx /\ (d.action = "start" => listeners = "ready")
     THEN /\ Move(d, "calling")
          /\ callbacks' = callbacks \cup {[action |-> d.action, gen |-> d.gen]}
          /\ UNCHANGED settling
     ELSE /\ Quit(d, d.prev, FALSE)
          /\ UNCHANGED callbacks
  /\ UNCHANGED <<machine, sequence, ledger, context, host>>

Return(d) ==
  /\ d.stage = "calling"
  /\ calls' = calls \ {d}
  /\ UNCHANGED <<machine, sequence, ledger, context, callbacks, settling, host>>

\* Mutant of ReturnError: the bridge of a refused call stays alive, so its
\* callback can still come.
ReturnErrorKeepsCallback(d) ==
  /\ d.stage = "calling"
  /\ Quit(d, d.prev, FALSE)
  /\ UNCHANGED <<machine, sequence, ledger, context, callbacks, host>>

\* The FFI refuses the call: a callback it has not made it never makes.
ReturnError(d) ==
  /\ d.stage = "calling"
  /\ callbacks' = callbacks \ {[action |-> d.action, gen |-> d.gen]}
  /\ Quit(d, d.prev, FALSE)
  /\ UNCHANGED <<machine, sequence, ledger, context, host>>

\* start_callback and stop_callback: settleLifecycleCallback takes whatever
\* operation of that action is active by now, and settles it after unlocking.
Callback(cb, ok) ==
  LET previous == IF active.op \in DOMAIN operations THEN operations[active.op].previous
                  ELSE IF cb.action = "start" THEN "stopped" ELSE "running"
      reached  == IF cb.action = "start" THEN "running" ELSE "stopped"
  IN  /\ callbacks' = callbacks \ {cb}
      /\ settling' = IF pending /\ active.action = cb.action
                     THEN settling \cup
                            {[action |-> cb.action, op |-> active.op, gen |-> active.gen,
                              goal |-> IF ok THEN reached ELSE previous,
                              ok |-> ok, from |-> cb.gen]}
                     ELSE settling
      /\ UNCHANGED <<machine, sequence, ledger, context, calls, host>>

-----------------------------------------------------------------------------
Host ==
  \/ NodeStatus
  \/ \E o \in OperationIds, r \in HostRequests : NodeAction(o, r)
  \/ \E c \in LegacyCallers : \/ \E a \in {"initialize", "start", "stop"} : LegacyCheck(c, a)
                              \/ LegacyBegin(c)

Worker(d) ==
  \/ Launch(d) \/ LaunchFails(d) \/ LockCreateNode(d)
  \/ CreateRefused(d) \/ DispatchCreate(d) \/ CreateTimesOut(d) \/ RegisterListeners(d)
  \/ RemoveListeners(d) \/ DestroyContext(d)

Call(d) == Invoke(d) \/ Return(d) \/ ReturnError(d)

Module ==
  \/ \E d \in calls : Worker(d) \/ Call(d)
  \/ \E s \in settling : SettleLive(s) \/ DropStale(s)

\* What liblogosdelivery does in its own time.
Ffi ==
  \/ \E d \in calls : CreateAnswers(d)
  \/ \E cb \in callbacks, ok \in BOOLEAN : Callback(cb, ok)

Next == Host \/ Module \/ Ffi

Spec == Init /\ [][Next]_vars

\* The module's threads run, its synchronous FFI calls return and its timeouts
\* pass.  A host may do nothing, and so may the asynchronous side of the FFI.
FairSpec == Spec /\ WF_vars(Module)

\* What only a liblogosdelivery that answers every start and stop adds.
FfiAnswers == WF_vars(\E cb \in callbacks, ok \in BOOLEAN : Callback(cb, ok))

-----------------------------------------------------------------------------
(***************************************************************************)
(* Every variable has its type, in every interleaving of both surfaces.    *)
(***************************************************************************)
TypeOK ==
  /\ lifecycleState \in States
  /\ generation \in Nat /\ epoch \in Nat /\ sequence \in Nat
  /\ error \in Actions \cup {"none"}
  /\ pending \in BOOLEAN
  /\ active \in [op : OperationIds \cup {NoOperation}, action : Actions \cup {"none"}, gen : Nat]
  /\ DOMAIN operations \subseteq OperationIds
  /\ operations \in [DOMAIN operations -> Entries]
  /\ completed \in Seq(OperationIds)
  /\ deliveryCtx \in BOOLEAN
  /\ listeners \in {"ready", "none", "stuck"}
  /\ calls \subseteq [gen : Nat, action : Actions, op : OperationIds \cup {NoOperation},
                      prev : States, stage : {"accepted", "launched", "locked", "awaiting",
                                              "created", "unhooked", "calling", "done"}]
  /\ callbacks \subseteq [action : {"start", "stop"}, gen : Nat]
  /\ settling \subseteq [action : Actions, op : OperationIds \cup {NoOperation}, gen : Nat,
                         goal : States, ok : BOOLEAN, from : Nat]
  /\ legacy \in [LegacyCallers -> {"idle", "initialize", "start", "stop"}]
  /\ [epoch |-> snapshot.epoch, sequence |-> snapshot.sequence] \in SnapshotIds

(***************************************************************************)
(* The ledger agrees with the machine: the completed deque lists exactly   *)
(* the settled entries, each once and at most MaxCompleted of them, and an *)
(* entry is unsettled exactly while its operation is the active one, so    *)
(* no accepted operation is forgotten, expired early or settled twice      *)
(* (cpp 759-773, 808-839, 924-943, 1000-1011).                             *)
(***************************************************************************)
CompletedOnce == \A i, j \in 1 .. Len(completed) : completed[i] = completed[j] => i = j

LedgerConsistent ==
  /\ Len(completed) <= MaxCompleted
  /\ CompletedOnce
  /\ \A o \in OperationIds :
       (\E i \in 1 .. Len(completed) : completed[i] = o)
         <=> (o \in DOMAIN operations /\ operations[o].outcome # "pending")
  /\ \A o \in DOMAIN operations :
       operations[o].outcome = "pending"
         => pending /\ active.op = o /\ active.action = operations[o].request.action
  /\ pending /\ active.op # NoOperation
       => active.op \in DOMAIN operations /\ operations[active.op].outcome = "pending"

(***************************************************************************)
(* What was reported as settled is never reported otherwise while it is    *)
(* remembered: no late worker or callback rewrites a superseded, failed or *)
(* succeeded entry, so a replayed operation_id gets one answer.            *)
(***************************************************************************)
SettledIsFinal ==
  [][\A o \in (DOMAIN operations) \cap (DOMAIN operations') :
       operations[o].outcome # "pending" => operations'[o] = operations[o]]_vars

(***************************************************************************)
(* A status read by a host identifies what it showed: while epoch and      *)
(* sequence are unchanged so is everything else in the snapshot, which is  *)
(* what makes "expected" in a request a sound compare-and-set              *)
(* (cpp 863-871), although listeners change outside lifecycleMutex.        *)
(***************************************************************************)
SnapshotIsVersioned ==
  (snapshot.epoch = epoch /\ snapshot.sequence = sequence) => snapshot = View

(***************************************************************************)
(* supported_actions lists exactly the actions beginLifecycleAction would  *)
(* dispatch: two rules kept in two places (cpp 643-659 with 690-693, and   *)
(* 872-921), over a context and listeners neither lock covers.             *)
(***************************************************************************)
SupportedActionsAreHonest == SupportedActions = {a \in Actions : Dispatchable(a)}

(***************************************************************************)
(* A completion settles the operation whose dispatch it completes, not     *)
(* another one of the same action that is active by then (cpp 1029-1031).  *)
(***************************************************************************)
SettlementIsCorrelated == \A s \in settling : Live(s) => s.from = s.gen

(***************************************************************************)
(* "uninitialized" is reported between actions exactly when no context is  *)
(* held, so initialize can succeed there and destroy has nothing to do     *)
(* (cpp 873, 910, 1053-1059, 1361-1363).                                   *)
(***************************************************************************)
ContextMatchesState == ~pending => (lifecycleState = "uninitialized" <=> ~deliveryCtx)

(***************************************************************************)
(* A node that is starting, running or stopping has a context with every   *)
(* listener registered: no event of a running node goes unheard because a  *)
(* destroy or an initialize was still at work on them (cpp 891, 1283).     *)
(***************************************************************************)
RunningNodeIsHeard ==
  lifecycleState \in {"starting", "running", "stopping"} => deliveryCtx /\ listeners = "ready"

(***************************************************************************)
(* Listener ids never outlive their context: a context created later can   *)
(* register its own (cpp 317), and none is destroyed with ids unresolved   *)
(* (cpp 1190, 1336).                                                       *)
(***************************************************************************)
NoOrphanListeners == ~deliveryCtx => listeners = "none"

(***************************************************************************)
(* A host that follows supported_actions always has an action to take once *)
(* nothing is pending (README.md 128-129).                                 *)
(***************************************************************************)
HostHasAnAction == ~pending => SupportedActions # {}

Undecided(o) == o \in DOMAIN operations /\ operations[o].outcome = "pending"

(***************************************************************************)
(* Every accepted operation settles if the FFI answers (README.md 126-128):*)
(* its entry is decided, or decided and already expired.                   *)
(***************************************************************************)
EveryOperationSettles ==
  FfiAnswers => \A o \in OperationIds : Undecided(o) ~> ~Undecided(o)

(***************************************************************************)
(* initialize and destroy settle whatever liblogosdelivery does with its   *)
(* callbacks: the create wait is bounded (cpp 1149) and destroy reports    *)
(* synchronously (cpp 1344-1347).  start and stop have no such bound.      *)
(***************************************************************************)
WorkersSettle ==
  \A o \in OperationIds :
    (Undecided(o) /\ operations[o].request.action \in {"initialize", "destroy"})
      ~> ~Undecided(o)

(***************************************************************************)
(* However the two surfaces supersede each other, nothing stays pending    *)
(* for good if the FFI answers: the last action to begin settles (cpp      *)
(* 924-957, 990-994).                                                      *)
(***************************************************************************)
EventuallyIdle == FfiAnswers => (pending ~> ~pending)
=============================================================================
