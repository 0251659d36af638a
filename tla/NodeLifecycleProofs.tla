------------------------ MODULE NodeLifecycleProofs ------------------------
(***************************************************************************)
(* Theorems about NodeLifecycle, for every set of ids and legacy callers:  *)
(*   - its type invariant;                                                 *)
(*   - listeners are registered only while their context is held.          *)
(***************************************************************************)
EXTENDS NodeLifecycle, TLAPS

Ops == OperationIds \cup {NoOperation}

-----------------------------------------------------------------------------
(***************************************************************************)
(* Expiry.  Retire keeps the ledger typed, keeps every undecided entry and *)
(* invents none (rememberCompletedLifecycleOperationLocked).               *)
(***************************************************************************)
LEMMA RetireType ==
  ASSUME NEW ops, DOMAIN ops \subseteq OperationIds, ops \in [DOMAIN ops -> Entries],
         completed \in Seq(OperationIds), NEW o \in OperationIds, Retire(ops, o)
  PROVE  /\ DOMAIN operations' \subseteq OperationIds
         /\ operations' \in [DOMAIN operations' -> Entries]
         /\ completed' \in Seq(OperationIds)
<1>1. Append(completed, o) \in Seq(OperationIds)
  OBVIOUS
<1>2. completed' \in Seq(OperationIds)
  BY <1>1 DEF Retire
<1>3. DOMAIN operations' \subseteq DOMAIN ops
  BY DEF Retire
<1>4. \A x \in DOMAIN operations' : operations'[x] = ops[x]
  BY DEF Retire
<1>5. operations' = [x \in DOMAIN operations' |-> operations'[x]]
  BY DEF Retire
<1>6. operations' \in [DOMAIN operations' -> Entries]
  BY <1>3, <1>4, <1>5
<1> QED
  BY <1>2, <1>3, <1>6

\* The completed ids are those of the settled entries, each once, with room kept.
Tidy(ops, queue) ==
  /\ Len(queue) <= MaxCompleted
  /\ \A i, j \in 1 .. Len(queue) : queue[i] = queue[j] => i = j
  /\ \A x \in OperationIds :
       (\E i \in 1 .. Len(queue) : queue[i] = x)
         <=> (x \in DOMAIN ops /\ ops[x].outcome # "pending")

(***************************************************************************)
(* Settling a new id, or one that was undecided, leaves the ledger tidy    *)
(* and every undecided entry where it was.                                 *)
(***************************************************************************)
LEMMA RetireTidies ==
  ASSUME NEW ops, DOMAIN ops \subseteq OperationIds, ops \in [DOMAIN ops -> Entries],
         completed \in Seq(OperationIds), NEW o \in DOMAIN ops,
         ops[o].outcome # "pending",
         \A i \in 1 .. Len(completed) : completed[i] # o,
         Len(completed) <= MaxCompleted, CompletedOnce,
         \A x \in OperationIds \ {o} :
           (\E i \in 1 .. Len(completed) : completed[i] = x)
             <=> (x \in DOMAIN ops /\ ops[x].outcome # "pending"),
         Retire(ops, o)
  PROVE  /\ Tidy(operations', completed')
         /\ \A x \in DOMAIN operations' : x \in DOMAIN ops /\ operations'[x] = ops[x]
         /\ \A x \in DOMAIN ops : ops[x].outcome = "pending" => x \in DOMAIN operations'
<1> DEFINE queue == Append(completed, o)
<1> DEFINE n == Len(completed)
<1>1. /\ o \in OperationIds /\ n \in Nat /\ queue \in Seq(OperationIds)
      /\ Len(queue) = n + 1 /\ queue[n + 1] = o
      /\ \A i \in 1 .. n : queue[i] = completed[i]
  OBVIOUS
<1>2. \A i, j \in 1 .. n + 1 : queue[i] = queue[j] => i = j
  <2> SUFFICES ASSUME NEW i \in 1 .. n + 1, NEW j \in 1 .. n + 1, queue[i] = queue[j]
               PROVE  i = j
    OBVIOUS
  <2>1. CASE i = n + 1 \/ j = n + 1
    BY <1>1, <2>1
  <2>2. CASE i \in 1 .. n /\ j \in 1 .. n
    BY <1>1, <2>2 DEF CompletedOnce
  <2> QED
    BY <1>1, <2>1, <2>2
<1>3. \A x \in OperationIds :
        (\E i \in 1 .. n + 1 : queue[i] = x)
          <=> (x \in DOMAIN ops /\ ops[x].outcome # "pending")
  <2> TAKE x \in OperationIds
  <2>1. CASE x = o
    BY <1>1, <2>1
  <2>2. CASE x # o
    <3>1. (\E i \in 1 .. n + 1 : queue[i] = x) <=> (\E i \in 1 .. n : completed[i] = x)
      BY <1>1, <2>2
    <3> QED
      BY <2>2, <3>1
  <2> QED
    BY <2>1, <2>2
<1>4. CASE n + 1 <= MaxCompleted
  <2>1. completed' = queue
    BY <1>1, <1>4, LifecycleAssumption DEF Retire
  <2>2. operations' = [x \in DOMAIN ops |-> ops[x]]
    <3>1. operations' = [x \in {y \in DOMAIN ops : y \in {} => ops[y].outcome = "pending"}
                           |-> ops[x]]
      BY <1>1, <1>4, LifecycleAssumption DEF Retire
    <3>2. {y \in DOMAIN ops : y \in {} => ops[y].outcome = "pending"} = DOMAIN ops
      OBVIOUS
    <3> QED
      BY <3>1, <3>2
  <2> HIDE DEF queue, n
  <2>3. \A x \in DOMAIN operations' : operations'[x] = ops[x]
    BY <2>2
  <2>4. DOMAIN operations' = DOMAIN ops
    BY <2>2
  <2>5. Tidy(operations', completed')
    BY <1>1, <1>2, <1>3, <1>4, <2>1, <2>3, <2>4 DEF Tidy
  <2> QED
    BY <2>3, <2>4, <2>5
<1>5. CASE n + 1 > MaxCompleted
  <2>1. n >= 1 /\ n = MaxCompleted
    BY <1>1, <1>5, LifecycleAssumption
  <2> DEFINE old == completed[1]
  <2>2. completed' = Tail(queue) /\ Head(queue) = old
    <3>1. Head(queue) = old
      BY <1>1, <2>1
    <3>2. {Head(queue)} # {} /\ Len(queue) > MaxCompleted
      BY <1>1, <1>5
    <3> QED
      BY <3>1, <3>2 DEF Retire
  <2>3. operations' = [x \in {y \in DOMAIN ops : y = old => ops[y].outcome = "pending"}
                         |-> ops[x]]
    BY <1>1, <1>5, <2>1, <2>2, LifecycleAssumption DEF Retire
  <2>4. /\ Len(completed') = n
        /\ \A i \in 1 .. n : completed'[i] = queue[i + 1]
    BY <1>1, <2>1, <2>2
  <2>5. queue[1] = old /\ old \in OperationIds
    BY <1>1, <2>1
  <2> HIDE DEF queue, n, old
  <2>6. \A x \in DOMAIN operations' : x \in DOMAIN ops /\ operations'[x] = ops[x]
    BY <2>3
  <2>7. \A x \in DOMAIN ops : ops[x].outcome = "pending" => x \in DOMAIN operations'
    BY <2>3
  <2>8. \A i, j \in 1 .. n : completed'[i] = completed'[j] => i = j
    BY <1>1, <1>2, <2>4
  <2>9. \A x \in OperationIds :
          (\E i \in 1 .. n : completed'[i] = x)
            <=> (x \in DOMAIN operations' /\ operations'[x].outcome # "pending")
    <3> TAKE x \in OperationIds
    <3>1. (\E i \in 1 .. n : completed'[i] = x) <=> (\E i \in 2 .. n + 1 : queue[i] = x)
      <4>1. ASSUME NEW i \in 1 .. n, completed'[i] = x
            PROVE  \E k \in 2 .. n + 1 : queue[k] = x
        <5>1. i + 1 \in 2 .. n + 1 /\ queue[i + 1] = x
          BY <1>1, <2>4, <4>1
        <5> QED
          BY <5>1
      <4>2. ASSUME NEW k \in 2 .. n + 1, queue[k] = x
            PROVE  \E i \in 1 .. n : completed'[i] = x
        <5>1. k - 1 \in 1 .. n /\ (k - 1) + 1 = k
          BY <1>1
        <5>2. completed'[k - 1] = x
          BY <2>4, <4>2, <5>1
        <5> QED
          BY <5>1, <5>2
      <4> QED
        BY <4>1, <4>2
    <3>2. (\E i \in 2 .. n + 1 : queue[i] = x)
            <=> (\E i \in 1 .. n + 1 : queue[i] = x) /\ x # old
      BY <1>1, <1>2, <2>1, <2>5
    <3>3. (x \in DOMAIN operations' /\ operations'[x].outcome # "pending")
            <=> (x \in DOMAIN ops /\ ops[x].outcome # "pending") /\ x # old
      BY <2>3
    <3> QED
      BY <1>3, <3>1, <3>2, <3>3
  <2>10. Tidy(operations', completed')
    BY <1>1, <2>1, <2>4, <2>8, <2>9 DEF Tidy
  <2> QED
    BY <2>6, <2>7, <2>10
<1> QED
  BY <1>1, <1>4, <1>5, LifecycleAssumption

-----------------------------------------------------------------------------
(***************************************************************************)
(* Types.                                                                  *)
(***************************************************************************)
CallTypes ==
  [gen : Nat, action : Actions, op : Ops, prev : States,
   stage : {"accepted", "launched", "locked", "awaiting", "created", "unhooked", "calling",
            "done"}]
JobTypes ==
  [action : Actions, op : Ops, gen : Nat, goal : States, ok : BOOLEAN, from : Nat]

\* The parts of TypeOK that the steps touch together.
MachineType ==
  /\ lifecycleState \in States
  /\ generation \in Nat /\ epoch \in Nat
  /\ error \in Actions \cup {"none"}
  /\ pending \in BOOLEAN
  /\ active \in [op : Ops, action : Actions \cup {"none"}, gen : Nat]
LedgerType ==
  /\ DOMAIN operations \subseteq OperationIds
  /\ operations \in [DOMAIN operations -> Entries]
  /\ completed \in Seq(OperationIds)
ContextType == deliveryCtx \in BOOLEAN /\ listeners \in {"ready", "none", "stuck"}
CallbacksType == callbacks \subseteq [action : {"start", "stop"}, gen : Nat]
LegacyType == legacy \in [LegacyCallers -> {"idle", "initialize", "start", "stop"}]
SnapshotType == [epoch |-> snapshot.epoch, sequence |-> snapshot.sequence] \in SnapshotIds

Typed ==
  /\ MachineType /\ sequence \in Nat
  /\ LedgerType
  /\ ContextType
  /\ calls \subseteq CallTypes
  /\ CallbacksType
  /\ settling \subseteq JobTypes
  /\ LegacyType
  /\ SnapshotType

LEMMA TypedIsTypeOK == Typed <=> TypeOK
BY DEF Typed, TypeOK, MachineType, LedgerType, ContextType, CallTypes, CallbacksType, JobTypes,
       LegacyType, SnapshotType, Ops

LEMMA TransientIsAState == \A a \in Actions : Transient[a] \in States
BY DEF States, Transient, Actions

LEMMA InitTyped == Init => Typed
<1> SUFFICES ASSUME Init PROVE Typed
  OBVIOUS
<1>1. MachineType
  BY DEF Init, MachineType, States, Settled, Idle, Ops
<1>2. LedgerType
  BY DEF Init, LedgerType
<1>3. SnapshotType
  BY DEF Init, SnapshotType, View, SnapshotIds
<1> QED
  BY <1>1, <1>2, <1>3
     DEF Init, Typed, ContextType, CallbacksType, LegacyType

\* A dispatched action goes on to its next stage, or hands over to a job.
LEMMA MoveTyped ==
  ASSUME Typed, NEW d \in calls,
         NEW stage \in {"launched", "locked", "awaiting", "created", "unhooked", "calling", "done"},
         Move(d, stage)
  PROVE  calls' \subseteq CallTypes
<1>1. d \in CallTypes
  BY DEF Typed
<1>2. [d EXCEPT !.stage = stage] \in CallTypes
  BY <1>1 DEF CallTypes
<1> QED
  BY <1>2 DEF Typed, Move

LEMMA JobTyped ==
  ASSUME Typed, NEW d \in calls, NEW goal \in States, NEW ok \in BOOLEAN
  PROVE  Job(d, goal, ok) \in JobTypes
<1>1. d \in CallTypes
  BY DEF Typed
<1> QED
  BY <1>1 DEF CallTypes, JobTypes, Job

LEMMA FinishTyped ==
  ASSUME Typed, NEW d \in calls, NEW goal \in States, NEW ok \in BOOLEAN,
         Finish(d, goal, ok) \/ Quit(d, goal, ok)
  PROVE  calls' \subseteq CallTypes /\ settling' \subseteq JobTypes
<1>1. Job(d, goal, ok) \in JobTypes
  BY JobTyped
<1>2. CASE Finish(d, goal, ok)
  BY <1>1, <1>2, MoveTyped DEF Finish, Typed
<1>3. CASE Quit(d, goal, ok)
  BY <1>1, <1>3 DEF Quit, Typed
<1> QED
  BY <1>2, <1>3

LEMMA CallFacts ==
  ASSUME Typed, NEW d \in calls
  PROVE  /\ d.gen \in Nat /\ d.action \in Actions /\ d.op \in Ops /\ d.prev \in States
         /\ {"uninitialized", "stopped"} \subseteq States
BY DEF Typed, CallTypes, States, Settled

LEMMA ConcludeType ==
  ASSUME LedgerType, NEW o \in Ops, NEW outcome \in Outcomes, Conclude(o, outcome)
  PROVE  LedgerType'
<1>1. CASE o \in DOMAIN operations
  <2> DEFINE ops == [operations EXCEPT ![o].outcome = outcome]
  <2>1. DOMAIN ops = DOMAIN operations
    OBVIOUS
  <2>2. ops \in [DOMAIN ops -> Entries]
    BY <1>1, <2>1 DEF LedgerType, Entries
  <2>3. Retire(ops, o) /\ o \in OperationIds
    BY <1>1 DEF Conclude, LedgerType
  <2> HIDE DEF ops
  <2> QED
    BY <2>1, <2>2, <2>3, RetireType DEF LedgerType
<1>2. CASE o \notin DOMAIN operations
  BY <1>2 DEF Conclude, ledger, LedgerType
<1> QED
  BY <1>1, <1>2

LEMMA HostRequestsTyped == SnapshotType => HostRequests \subseteq Requests
BY DEF SnapshotType, HostRequests, Requests

LEMMA RecordType ==
  ASSUME LedgerType, NEW o \in OperationIds, NEW entry \in Entries
  PROVE  /\ DOMAIN Record(o, entry) = DOMAIN operations \cup {o}
         /\ Record(o, entry)[o] = entry
         /\ \A x \in DOMAIN operations : x # o => Record(o, entry)[x] = operations[x]
         /\ Record(o, entry) \in [DOMAIN Record(o, entry) -> Entries]
BY DEF LedgerType, Record

LEMMA SettleWithoutDispatchTyped ==
  ASSUME Typed, NEW o \in OperationIds, NEW r \in Requests, NEW outcome \in Outcomes,
         NEW steps \in Nat, SettleWithoutDispatch(o, r, outcome, steps)
  PROVE  Typed'
<1> DEFINE entry == [request |-> r, previous |-> lifecycleState, outcome |-> outcome]
<1>1. entry \in Entries
  BY DEF Typed, MachineType, Entries
<1>2. Retire(Record(o, entry), o)
  BY DEF SettleWithoutDispatch
<1> HIDE DEF entry
<1>3. LedgerType'
  <2>1. DOMAIN Record(o, entry) = DOMAIN operations \cup {o}
    BY DEF Record
  <2> QED
    <3>1. Record(o, entry) \in [DOMAIN Record(o, entry) -> Entries]
      BY <1>1, RecordType DEF Typed
    <3>2. DOMAIN Record(o, entry) \subseteq OperationIds /\ completed \in Seq(OperationIds)
      BY <2>1 DEF Typed, LedgerType
    <3> QED
      BY <1>2, <3>1, <3>2, RetireType DEF LedgerType
<1> QED
  BY <1>3
     DEF SettleWithoutDispatch, Typed, machine, context, host, MachineType, ContextType,
         CallbacksType, LegacyType, SnapshotType

LEMMA DispatchTyped ==
  ASSUME Typed, NEW a \in Actions, NEW o \in Ops, Dispatch(a, o)
  PROVE  /\ MachineType' /\ ContextType' /\ CallbacksType' /\ SnapshotType'
         /\ calls' \subseteq CallTypes /\ settling' \subseteq JobTypes
<1>1. MachineType'
  BY TransientIsAState DEF Dispatch, Typed, MachineType
<1>2. calls' \subseteq CallTypes
  BY DEF Dispatch, Typed, MachineType, CallTypes
<1> QED
  BY <1>1, <1>2
     DEF Dispatch, Typed, context, ContextType, CallbacksType, SnapshotType

LEMMA NodeActionTyped ==
  ASSUME Typed, NEW o \in OperationIds, NEW r \in HostRequests, NodeAction(o, r)
  PROVE  Typed'
<1>1. r \in Requests /\ r.action \in Actions
  BY HostRequestsTyped DEF Typed, Requests
<1>2. {"rejected", "no_op", "pending"} \subseteq Outcomes
  BY DEF Outcomes
<1>3. CASE Resubmit(o, r)
  BY <1>3 DEF Resubmit, vars, machine, ledger, context, host, Typed, MachineType, LedgerType,
              ContextType, CallbacksType, LegacyType, SnapshotType
<1>4. CASE Reject(o, r)
  BY <1>1, <1>2, <1>4, SettleWithoutDispatchTyped DEF Reject
<1>5. CASE NoOp(o, r)
  BY <1>1, <1>2, <1>5, SettleWithoutDispatchTyped DEF NoOp
<1>6. CASE Accept(o, r)
  <2> DEFINE entry == [request |-> r, previous |-> lifecycleState, outcome |-> "pending"]
  <2>1. entry \in Entries
    BY <1>1, <1>2 DEF Typed, MachineType, Entries
  <2>2. operations' = Record(o, entry)
    BY <1>6 DEF Accept
  <2> HIDE DEF entry
  <2>3. LedgerType'
    <3>1. operations' \in [DOMAIN operations' -> Entries]
      BY <2>1, <2>2, RecordType DEF Typed
    <3>2. DOMAIN operations' = DOMAIN operations \cup {o}
      BY <2>2 DEF Record
    <3> QED
      BY <1>6, <3>1, <3>2 DEF Accept, Typed, LedgerType
  <2>4. Dispatch(r.action, o) /\ o \in Ops
    BY <1>6 DEF Accept, Ops
  <2>5. sequence' \in Nat /\ LegacyType'
    BY <1>6 DEF Accept, Typed, LegacyType
  <2> QED
    BY <1>1, <2>3, <2>4, <2>5, DispatchTyped DEF Typed
<1> QED
  BY <1>3, <1>4, <1>5, <1>6 DEF NodeAction

LEMMA HostTyped == Typed /\ Host => Typed'
<1> SUFFICES ASSUME Typed, Host PROVE Typed'
  OBVIOUS
<1>1. CASE NodeStatus
  <2>1. View.epoch = epoch /\ View.sequence = sequence
    BY DEF View
  <2>2. SnapshotType'
    BY <1>1, <2>1 DEF NodeStatus, Typed, MachineType, SnapshotType, SnapshotIds
  <2> QED
    BY <1>1, <2>2
       DEF NodeStatus, machine, ledger, context, Typed, MachineType, LedgerType, ContextType,
           CallbacksType, LegacyType
<1>2. ASSUME NEW o \in OperationIds, NEW r \in HostRequests, NodeAction(o, r)
      PROVE  Typed'
  BY <1>2, NodeActionTyped
<1>3. ASSUME NEW c \in LegacyCallers, NEW a \in {"initialize", "start", "stop"},
             LegacyCheck(c, a)
      PROVE  Typed'
  <2>1. LegacyType'
    BY <1>3 DEF LegacyCheck, Typed, LegacyType
  <2> QED
    BY <1>3, <2>1
       DEF LegacyCheck, machine, ledger, context, Typed, MachineType, LedgerType, ContextType,
           CallbacksType, SnapshotType
<1>4. ASSUME NEW c \in LegacyCallers, LegacyBegin(c)
      PROVE  Typed'
  <2>1. legacy[c] \in Actions
    BY <1>4 DEF LegacyBegin, Typed, LegacyType, Actions
  <2>2. Dispatch(legacy[c], NoOperation) /\ NoOperation \in Ops
    BY <1>4 DEF LegacyBegin, Ops
  <2>3. LegacyType' /\ sequence' \in Nat
    BY <1>4 DEF LegacyBegin, Typed, LegacyType
  <2>4. LedgerType'
    <3>1. CASE pending
      <4>1. Conclude(active.op, "failed") /\ active.op \in Ops
        BY <1>4, <3>1 DEF LegacyBegin, Typed, MachineType
      <4> QED
        BY <4>1, ConcludeType DEF Typed, Outcomes
    <3>2. CASE ~pending
      BY <1>4, <3>2 DEF LegacyBegin, ledger, Typed, LedgerType
    <3> QED
      BY <3>1, <3>2
  <2> QED
    BY <2>1, <2>2, <2>3, <2>4, DispatchTyped DEF Typed
<1> QED
  BY <1>1, <1>2, <1>3, <1>4 DEF Host

\* What a worker or an FFI call leaves alone.
LEMMA FrameTyped ==
  ASSUME Typed, UNCHANGED <<machine, sequence, ledger, host>>
  PROVE  MachineType' /\ sequence' \in Nat /\ LedgerType' /\ LegacyType' /\ SnapshotType'
BY DEF Typed, machine, ledger, host, MachineType, LedgerType, LegacyType, SnapshotType

LEMMA WorkerTyped ==
  ASSUME Typed, NEW d \in calls, Worker(d)
  PROVE  Typed'
<1> USE CallFacts, MoveTyped, FinishTyped, FrameTyped
<1> DEFINE Rest == UNCHANGED <<context, callbacks>>
<1>1. Rest => ContextType' /\ CallbacksType'
  BY DEF Typed, context, ContextType, CallbacksType
<1>2. CASE Launch(d) \/ LockCreateNode(d)
  BY <1>1, <1>2 DEF Launch, LockCreateNode, Typed
<1>3. CASE LaunchFails(d)
  <2>1. PICK goal \in States : Quit(d, goal, FALSE)
    BY <1>3 DEF LaunchFails
  <2> QED
    BY <1>1, <1>3, <2>1 DEF LaunchFails, Typed
<1>4. CASE CreateRefused(d) \/ CreateTimesOut(d)
  BY <1>1, <1>4 DEF CreateRefused, CreateTimesOut, Typed
<1>5. CASE DispatchCreate(d)
  BY <1>1, <1>5 DEF DispatchCreate, Typed
<1>6. CASE RegisterListeners(d)
  <2>1. PICK goal \in States, ok \in BOOLEAN : Finish(d, goal, ok)
    BY <1>6 DEF RegisterListeners
  <2>2. ContextType' /\ CallbacksType'
    BY <1>6 DEF RegisterListeners, Typed, ContextType, CallbacksType
  <2> QED
    BY <1>6, <2>1, <2>2 DEF RegisterListeners, Typed
<1>7. CASE RemoveListeners(d)
  <2>1. ContextType' /\ CallbacksType'
    BY <1>7 DEF RemoveListeners, Typed, ContextType, CallbacksType
  <2>2. CASE Finish(d, d.prev, FALSE)
    BY <1>7, <2>1, <2>2 DEF RemoveListeners, Typed
  <2>3. CASE Move(d, "unhooked") /\ UNCHANGED settling
    BY <1>7, <2>1, <2>3 DEF RemoveListeners, Typed
  <2> QED
    BY <1>7, <2>2, <2>3 DEF RemoveListeners
<1>8. CASE DestroyContext(d)
  <2>1. PICK goal \in States, ok \in BOOLEAN : Finish(d, goal, ok)
    BY <1>8 DEF DestroyContext
  <2>2. ContextType' /\ CallbacksType'
    BY <1>8 DEF DestroyContext, Typed, ContextType, CallbacksType
  <2> QED
    BY <1>8, <2>1, <2>2 DEF DestroyContext, Typed
<1> QED
  BY <1>2, <1>3, <1>4, <1>5, <1>6, <1>7, <1>8 DEF Worker

LEMMA CallTyped ==
  ASSUME Typed, NEW d \in calls, Call(d)
  PROVE  Typed'
<1> USE CallFacts, MoveTyped, FinishTyped, FrameTyped
<1>1. UNCHANGED context => ContextType'
  BY DEF Typed, context, ContextType
<1>2. CASE Invoke(d)
  <2>1. CallbacksType'
    <3> DEFINE cb == [action |-> d.action, gen |-> d.gen]
    <3>1. cb \in [action : {"start", "stop"}, gen : Nat]
      BY <1>2, CallFacts DEF Invoke
    <3>2. callbacks' \subseteq callbacks \cup {cb}
      BY <1>2 DEF Invoke
    <3> QED
      BY <3>1, <3>2 DEF Typed, CallbacksType
  <2>2. CASE Move(d, "calling") /\ UNCHANGED settling
    BY <1>1, <1>2, <2>1, <2>2 DEF Invoke, Typed
  <2>3. CASE Quit(d, d.prev, FALSE)
    BY <1>1, <1>2, <2>1, <2>3 DEF Invoke, Typed
  <2> QED
    BY <1>2, <2>2, <2>3 DEF Invoke
<1>3. CASE Return(d)
  BY <1>1, <1>3 DEF Return, Typed, CallbacksType
<1>4. CASE ReturnError(d)
  <2>1. CallbacksType'
    BY <1>4 DEF ReturnError, Typed, CallbacksType
  <2> QED
    BY <1>1, <1>4, <2>1 DEF ReturnError, Typed
<1> QED
  BY <1>2, <1>3, <1>4 DEF Call

LEMMA SettleTyped ==
  ASSUME Typed, NEW s \in settling, SettleLive(s) \/ DropStale(s)
  PROVE  Typed'
<1>1. s \in JobTypes
  BY DEF Typed
<1>2. CASE SettleLive(s)
  <2>1. MachineType' /\ sequence' \in Nat
    <3>1. s.action \in Actions /\ s.goal \in States
      BY <1>1 DEF JobTypes
    <3>2. Idle \in [op : Ops, action : Actions \cup {"none"}, gen : Nat]
      BY DEF Idle, Ops
    <3>3. epoch' \in Nat /\ error' \in Actions \cup {"none"}
      BY <1>2, <3>1 DEF SettleLive, Typed, MachineType
    <3>4. /\ lifecycleState' = s.goal /\ UNCHANGED generation
          /\ pending' = FALSE /\ active' = Idle
          /\ sequence' = sequence + 1
      BY <1>2 DEF SettleLive
    <3>5. generation' \in Nat /\ sequence' \in Nat
      BY <3>4 DEF Typed, MachineType
    <3>6. pending' \in BOOLEAN
      BY <3>4
    <3>7. active' \in [op : Ops, action : Actions \cup {"none"}, gen : Nat]
      BY <3>2, <3>4
    <3>8. lifecycleState' \in States
      BY <3>1, <3>4
    <3> QED
      BY <3>3, <3>5, <3>6, <3>7, <3>8 DEF MachineType
  <2>2. LedgerType'
    <3>1. PICK outcome \in Outcomes : Conclude(s.op, outcome)
      BY <1>2 DEF SettleLive, Outcomes
    <3> QED
      BY <1>1, <3>1, ConcludeType DEF JobTypes, Typed
  <2> QED
    BY <1>2, <2>1, <2>2
       DEF SettleLive, Leave, Typed, context, host, ContextType, CallbacksType, LegacyType,
           SnapshotType
<1>3. CASE DropStale(s)
  BY <1>3, FrameTyped
     DEF DropStale, Leave, Typed, context, ContextType, CallbacksType
<1> QED
  BY <1>2, <1>3

LEMMA FfiTyped == Typed /\ Ffi => Typed'
<1> SUFFICES ASSUME Typed, Ffi PROVE Typed'
  OBVIOUS
<1>1. ASSUME NEW d \in calls, CreateAnswers(d) PROVE Typed'
  <2>1. /\ ContextType' /\ CallbacksType'
        /\ MachineType' /\ sequence' \in Nat /\ LedgerType' /\ LegacyType' /\ SnapshotType'
    <3>1. UNCHANGED <<machine, sequence, ledger, host>>
      BY <1>1 DEF CreateAnswers
    <3> QED
      BY <1>1, <3>1, FrameTyped DEF CreateAnswers, Typed, ContextType, CallbacksType
  <2>2. CASE Move(d, "created") /\ UNCHANGED settling
    BY <2>1, <2>2, MoveTyped DEF Typed
  <2>3. CASE Finish(d, "uninitialized", FALSE)
    BY <2>1, <2>3, FinishTyped, CallFacts DEF Typed
  <2> QED
    BY <1>1, <2>2, <2>3 DEF CreateAnswers
<1>2. ASSUME NEW cb \in callbacks, NEW ok \in BOOLEAN, Callback(cb, ok) PROVE Typed'
  <2> DEFINE previous ==
        IF active.op \in DOMAIN operations THEN operations[active.op].previous
        ELSE IF cb.action = "start" THEN "stopped" ELSE "running"
      reached == IF cb.action = "start" THEN "running" ELSE "stopped"
      job == [action |-> cb.action, op |-> active.op, gen |-> active.gen,
              goal |-> IF ok THEN reached ELSE previous, ok |-> ok, from |-> cb.gen]
  <2>1. previous \in States /\ reached \in States
    BY DEF Typed, LedgerType, Entries, States, Settled
  <2>2. cb \in [action : {"start", "stop"}, gen : Nat]
    BY DEF Typed, CallbacksType
  <2> HIDE DEF previous, reached
  <2>3. job \in JobTypes
    BY <2>1, <2>2 DEF JobTypes, Typed, MachineType, Actions
  <2>4. settling' = settling \/ settling' = settling \cup {job}
    BY <1>2 DEF Callback, previous, reached
  <2> HIDE DEF job
  <2>5. settling' \subseteq JobTypes
    BY <2>3, <2>4 DEF Typed
  <2>6. UNCHANGED <<machine, sequence, ledger, context, calls, host>>
        /\ callbacks' = callbacks \ {cb}
    BY <1>2 DEF Callback
  <2> QED
    BY <2>5, <2>6, FrameTyped DEF Typed, context, ContextType, CallbacksType
<1> QED
  BY <1>1, <1>2 DEF Ffi

LEMMA StutterTyped == Typed /\ UNCHANGED vars => Typed'
BY DEF vars, machine, ledger, context, host, Typed, MachineType, LedgerType, ContextType,
       CallbacksType, LegacyType, SnapshotType

LEMMA NextTyped == Typed /\ [Next]_vars => Typed'
BY HostTyped, WorkerTyped, CallTyped, SettleTyped, FfiTyped, StutterTyped DEF Next, Module

(***************************************************************************)
(* Whatever the host, the workers and liblogosdelivery do, and however     *)
(* many operations and threads there are, every variable of the lifecycle  *)
(* keeps its type (header 335-359, 444-470).                               *)
(***************************************************************************)
THEOREM TypeCorrect == Spec => []TypeOK
<1>1. Spec => []Typed
  BY InitTyped, NextTyped, PTL DEF Spec
<1> QED
  BY <1>1, TypedIsTypeOK, PTL

-----------------------------------------------------------------------------
(***************************************************************************)
(* The context and its listeners change under createNodeMutex only, in     *)
(* which one thread is at a time, V1 worker or legacy caller; the stages   *)
(* it goes through say what it finds there.                                *)
(***************************************************************************)
WorkerActions == {"initialize", "destroy"}

InMutex(d) ==
  d.action \in WorkerActions /\ d.stage \in {"locked", "awaiting", "created", "unhooked", "done"}

\* Each stage belongs to the actions that pass through it.
Fits(d) ==
  /\ d.stage \in {"launched", "locked", "done"} => d.action \in WorkerActions
  /\ d.stage \in {"awaiting", "created"} => d.action = "initialize"
  /\ d.stage = "unhooked" => d.action = "destroy"
  /\ d.stage = "calling" => d.action \in {"start", "stop"}

\* What d, at its stage, knows of the context.
Finds(d) ==
  /\ d.stage = "awaiting" => ~deliveryCtx
  /\ d.stage \in {"created", "unhooked"} => deliveryCtx /\ listeners = "none"

MutexInv ==
  /\ \A d \in calls : Fits(d) /\ Finds(d)
  /\ \A d, e \in calls : InMutex(d) /\ InMutex(e) => d = e
  /\ ~deliveryCtx => listeners = "none"

LEMMA InitMutex == Init => MutexInv
BY DEF Init, MutexInv

\* A step of a thread that neither holds createNodeMutex nor takes it.
LEMMA OutsideMutex ==
  ASSUME MutexInv, UNCHANGED <<deliveryCtx, listeners>>,
         \A x \in calls' : x \in calls \/ (Fits(x) /\ x.stage \in {"accepted", "launched", "calling"})
  PROVE  MutexInv'
BY DEF MutexInv, Finds, InMutex

\* A step of the thread d that holds createNodeMutex, or takes it.
LEMMA InsideMutex ==
  ASSUME Typed, MutexInv, NEW d \in calls, \A x \in calls : x = d \/ ~InMutex(x),
         NEW stage \in {"locked", "awaiting", "created", "unhooked", "done"}, Move(d, stage),
         d.action \in WorkerActions,
         stage \in {"awaiting", "created"} => d.action = "initialize",
         stage = "unhooked" => d.action = "destroy",
         stage = "awaiting" => ~deliveryCtx',
         stage \in {"created", "unhooked"} => deliveryCtx' /\ listeners' = "none",
         ~deliveryCtx' => listeners' = "none"
  PROVE  MutexInv'
<1> DEFINE e == [d EXCEPT !.stage = stage]
<1>1. e.action = d.action /\ e.stage = stage /\ calls' = (calls \ {d}) \cup {e}
  BY DEF Typed, CallTypes, Move
<1> HIDE DEF e
<1>2. Fits(e) /\ Finds(e)'
  BY <1>1 DEF Fits, Finds
<1>3. \A x \in calls \ {d} : Fits(x) /\ ~InMutex(x)
  BY DEF MutexInv
<1>4. \A x \in calls \ {d} : x.stage \notin {"awaiting", "created", "unhooked"}
  BY <1>3 DEF Fits, InMutex, WorkerActions
<1> QED
  BY <1>1, <1>2, <1>3, <1>4 DEF MutexInv, Finds

LEMMA WorkerMutex ==
  ASSUME Typed, MutexInv, NEW d \in calls, Worker(d) \/ CreateAnswers(d)
  PROVE  MutexInv'
<1>1. Fits(d) /\ Finds(d) /\ (~deliveryCtx => listeners = "none")
  BY DEF MutexInv
<1>2. \A x \in calls \ {d} : InMutex(d) => ~InMutex(x)
  BY DEF MutexInv
<1>3. ASSUME UNCHANGED <<deliveryCtx, listeners>>, NEW goal, NEW ok, InMutex(d),
             Finish(d, goal, ok)
      PROVE  MutexInv'
  BY <1>1, <1>2, <1>3, InsideMutex DEF Finish, InMutex
<1>4. CASE Launch(d)
  <2> DEFINE e == [d EXCEPT !.stage = "launched"]
  <2>1. e.action = d.action /\ e.stage = "launched" /\ calls' = (calls \ {d}) \cup {e}
    BY <1>4 DEF Launch, Move, Typed, CallTypes
  <2> HIDE DEF e
  <2>2. Fits(e) /\ UNCHANGED <<deliveryCtx, listeners>>
    BY <1>4, <2>1 DEF Launch, Fits, WorkerActions, context
  <2> QED
    BY <2>1, <2>2, OutsideMutex
<1>5. CASE LaunchFails(d)
  BY <1>5, OutsideMutex DEF LaunchFails, Quit, context
<1>6. CASE LockCreateNode(d)
  <2>1. d.action \in WorkerActions /\ \A x \in calls : ~InMutex(x)
    BY <1>1, <1>6 DEF LockCreateNode, CreateNodeLocked, Fits, InMutex, WorkerActions
  <2> QED
    BY <1>1, <1>6, <2>1, InsideMutex DEF LockCreateNode, context
<1>7. CASE CreateRefused(d)
  BY <1>3, <1>7 DEF CreateRefused, context, InMutex, WorkerActions
<1>8. CASE DispatchCreate(d)
  <2>1. InMutex(d) /\ d.action = "initialize" /\ ~deliveryCtx /\ UNCHANGED <<deliveryCtx, listeners>>
        /\ Move(d, "awaiting")
    BY <1>8 DEF DispatchCreate, context, InMutex, WorkerActions
  <2> QED
    BY <1>1, <1>2, <2>1, InsideMutex DEF InMutex
<1>9. CASE CreateTimesOut(d)
  BY <1>1, <1>3, <1>9 DEF CreateTimesOut, context, Fits, InMutex, WorkerActions
<1>10. CASE RegisterListeners(d)
  <2>1. InMutex(d) /\ deliveryCtx /\ listeners = "none" /\ Move(d, "done")
    BY <1>1, <1>10 DEF RegisterListeners, Finish, Finds, InMutex, WorkerActions
  <2>2. ~deliveryCtx' => listeners' = "none"
    BY <1>10, <2>1 DEF RegisterListeners
  <2> QED
    BY <1>2, <2>1, <2>2, InsideMutex DEF InMutex
<1>11. CASE RemoveListeners(d)
  <2>1. InMutex(d) /\ d.action = "destroy" /\ UNCHANGED deliveryCtx
    BY <1>11 DEF RemoveListeners, InMutex, WorkerActions
  <2>2. CASE Finish(d, d.prev, FALSE)
    <3>1. ~deliveryCtx' => listeners' = "none"
      BY <1>1, <1>11 DEF RemoveListeners
    <3> QED
      BY <1>2, <2>1, <2>2, <3>1, InsideMutex DEF Finish, InMutex
  <2>3. CASE deliveryCtx /\ listeners' = "none" /\ Move(d, "unhooked")
    BY <1>2, <2>1, <2>3, InsideMutex DEF InMutex
  <2> QED
    BY <1>11, <2>2, <2>3 DEF RemoveListeners
<1>12. CASE DestroyContext(d)
  <2>1. InMutex(d) /\ deliveryCtx /\ listeners = "none" /\ Move(d, "done")
    BY <1>1, <1>12 DEF DestroyContext, Finish, Finds, InMutex, WorkerActions
  <2>2. ~deliveryCtx' => listeners' = "none"
    BY <1>12, <2>1 DEF DestroyContext
  <2> QED
    BY <1>2, <2>1, <2>2, InsideMutex DEF InMutex
<1>13. CASE CreateAnswers(d)
  <2>1. InMutex(d) /\ d.action = "initialize" /\ ~deliveryCtx /\ listeners' = "none"
    BY <1>1, <1>13 DEF CreateAnswers, Fits, Finds, InMutex, WorkerActions
  <2>2. CASE deliveryCtx' = TRUE /\ Move(d, "created")
    BY <1>2, <2>1, <2>2, InsideMutex DEF InMutex
  <2>3. CASE Finish(d, "uninitialized", FALSE)
    BY <1>2, <2>1, <2>3, InsideMutex DEF Finish, InMutex
  <2> QED
    BY <1>13, <2>2, <2>3 DEF CreateAnswers
<1> QED
  BY <1>4, <1>5, <1>6, <1>7, <1>8, <1>9, <1>10, <1>11, <1>12, <1>13 DEF Worker

LEMMA NextMutex == Typed /\ MutexInv /\ [Next]_vars => MutexInv'
<1> SUFFICES ASSUME Typed, MutexInv, [Next]_vars PROVE MutexInv'
  OBVIOUS
<1>1. ASSUME NEW a \in Actions, NEW o \in Ops, Dispatch(a, o) PROVE MutexInv'
  <2>1. \A x \in calls' : x \in calls \/ (Fits(x) /\ x.stage \in {"accepted", "launched"})
    BY <1>1 DEF Dispatch, Fits, WorkerActions
  <2> QED
    BY <1>1, <2>1, OutsideMutex DEF Dispatch, context
<1>2. ASSUME calls' \subseteq calls, UNCHANGED context PROVE MutexInv'
  BY <1>2, OutsideMutex DEF context
<1>3. CASE Host
  <2>1. ASSUME NEW o \in OperationIds, NEW r \in HostRequests, NodeAction(o, r) PROVE MutexInv'
    <3>1. r.action \in Actions /\ o \in Ops
      BY HostRequestsTyped DEF Typed, Requests, Ops
    <3> QED
      BY <1>1, <1>2, <2>1, <3>1
         DEF NodeAction, Resubmit, Reject, NoOp, Accept, SettleWithoutDispatch, vars
  <2>2. ASSUME NEW c \in LegacyCallers, LegacyBegin(c) PROVE MutexInv'
    <3>1. legacy[c] \in Actions /\ NoOperation \in Ops /\ Dispatch(legacy[c], NoOperation)
      BY <2>2 DEF LegacyBegin, Typed, LegacyType, Actions, Ops
    <3> QED
      BY <1>1, <3>1
  <2> QED
    BY <1>2, <1>3, <2>1, <2>2 DEF Host, NodeStatus, LegacyCheck
<1>4. CASE Module
  <2>1. ASSUME NEW d \in calls, Call(d) PROVE MutexInv'
    <3>1. CASE Invoke(d)
      <4>1. /\ d.action \in {"start", "stop"} /\ UNCHANGED <<deliveryCtx, listeners>>
            /\ calls' \subseteq calls \cup {[d EXCEPT !.stage = "calling"]}
        BY <3>1 DEF Invoke, Move, Quit, context
      <4>2. [d EXCEPT !.stage = "calling"].stage = "calling"
            /\ [d EXCEPT !.stage = "calling"].action = d.action
        BY DEF Typed, CallTypes
      <4>3. Fits([d EXCEPT !.stage = "calling"])
        BY <4>1, <4>2 DEF Fits
      <4> QED
        BY <4>1, <4>2, <4>3, OutsideMutex
    <3>2. CASE Return(d) \/ ReturnError(d)
      BY <1>2, <3>2 DEF Return, ReturnError, Quit
    <3> QED
      BY <2>1, <3>1, <3>2 DEF Call
  <2>2. ASSUME NEW s \in settling, SettleLive(s) \/ DropStale(s) PROVE MutexInv'
    BY <1>2, <2>2 DEF SettleLive, DropStale, Leave
  <2> QED
    BY <1>4, <2>1, <2>2, WorkerMutex DEF Module
<1>5. CASE Ffi
  BY <1>2, <1>5, WorkerMutex DEF Ffi, Callback
<1>6. CASE UNCHANGED vars
  BY <1>2, <1>6 DEF vars
<1> QED
  BY <1>3, <1>4, <1>5, <1>6 DEF Next

(***************************************************************************)
(* Listener ids never outlive their context, in every interleaving of V1   *)
(* workers, legacy createNode() callers and late answers: a context is     *)
(* made where no listeners are left, and destroyed once they are gone (cpp *)
(* 317, 1190-1204, 1325-1352).                                             *)
(***************************************************************************)
THEOREM ListenersHaveAContext == Spec => []NoOrphanListeners
<1>1. Typed /\ MutexInv /\ [Next]_vars => Typed' /\ MutexInv'
  BY NextTyped, NextMutex
<1>2. MutexInv => NoOrphanListeners
  BY DEF MutexInv, NoOrphanListeners
<1> QED
  BY <1>1, <1>2, InitTyped, InitMutex, PTL DEF Spec
=============================================================================
