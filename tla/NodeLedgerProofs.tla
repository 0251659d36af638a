-------------------------- MODULE NodeLedgerProofs --------------------------
(***************************************************************************)
(* Proofs about NodeLifecycle: the operation ledger stays consistent with  *)
(* the lifecycle, and what it holds as settled stays as it is.  The        *)
(* argument needs one fact LedgerConsistent does not state: a generation   *)
(* names one operation, so a worker or a callback that finds its own       *)
(* generation active settles its own operation id.                         *)
(***************************************************************************)
EXTENDS NodeLifecycleProofs

\* x, a dispatched action or a job, agrees with the active action on what its
\* generation stands for.
SameNumberSameOperation(x) ==
  /\ x.gen <= generation
  /\ pending /\ x.gen = active.gen => x.op = active.op /\ x.action = active.action

Numbered ==
  /\ active.gen <= generation
  /\ \A d \in calls : SameNumberSameOperation(d)
  /\ \A s \in settling : SameNumberSameOperation(s)

\* An undecided entry is the active operation's, and the active operation has one.
OpenIsActive ==
  /\ \A o \in DOMAIN operations :
       operations[o].outcome = "pending"
         => pending /\ active.op = o /\ active.action = operations[o].request.action
  /\ pending /\ active.op # NoOperation
       => active.op \in DOMAIN operations /\ operations[active.op].outcome = "pending"

LedgerInv == Typed /\ Numbered /\ Tidy(operations, completed) /\ OpenIsActive

LEMMA LedgerInvIsConsistent == LedgerInv => LedgerConsistent
BY DEF LedgerInv, Tidy, OpenIsActive, LedgerConsistent, CompletedOnce

LEMMA InitLedger == Init => LedgerInv
<1> SUFFICES ASSUME Init PROVE LedgerInv
  OBVIOUS
<1>1. Typed
  BY InitTyped
<1>2. Numbered /\ OpenIsActive
  BY DEF Init, Numbered, OpenIsActive, Idle
<1>3. Tidy(operations, completed)
  BY LifecycleAssumption DEF Init, Tidy
<1> QED
  BY <1>1, <1>2, <1>3 DEF LedgerInv

-----------------------------------------------------------------------------
(***************************************************************************)
(* The two ways an id is settled.                                          *)
(***************************************************************************)
\* nodeAction() answers a new id on the spot.
LEMMA SettleWithoutDispatchTidies ==
  ASSUME LedgerInv, NEW o \in OperationIds \ DOMAIN operations, NEW r \in Requests,
         NEW outcome \in Outcomes \ {"pending"}, NEW steps \in Nat,
         SettleWithoutDispatch(o, r, outcome, steps)
  PROVE  /\ Tidy(operations', completed')
         /\ \A x \in DOMAIN operations' \ {o} :
              x \in DOMAIN operations /\ operations'[x] = operations[x]
         /\ o \in DOMAIN operations' => operations'[o].outcome # "pending"
         /\ \A x \in DOMAIN operations :
              operations[x].outcome = "pending" => x \in DOMAIN operations'
<1> DEFINE entry == [request |-> r, previous |-> lifecycleState, outcome |-> outcome]
           ops == Record(o, entry)
<1>1. entry \in Entries /\ entry.outcome # "pending"
  BY DEF LedgerInv, Typed, MachineType, Entries
<1>2. Retire(ops, o)
  BY DEF SettleWithoutDispatch
<1> HIDE DEF entry
<1>3. LedgerType
  BY DEF LedgerInv, Typed
<1>4. /\ DOMAIN ops = DOMAIN operations \cup {o}
      /\ ops[o] = entry
      /\ \A x \in DOMAIN operations : x # o => ops[x] = operations[x]
      /\ ops \in [DOMAIN ops -> Entries]
  BY <1>1, <1>3, RecordType
<1> HIDE DEF ops
<1>5. /\ DOMAIN ops \subseteq OperationIds
      /\ completed \in Seq(OperationIds)
  BY <1>3, <1>4 DEF LedgerType
<1>6. \A i \in 1 .. Len(completed) : completed[i] # o
  BY DEF LedgerInv, Tidy
<1>7. /\ Len(completed) <= MaxCompleted /\ CompletedOnce
      /\ \A x \in OperationIds \ {o} :
           (\E i \in 1 .. Len(completed) : completed[i] = x)
             <=> (x \in DOMAIN ops /\ ops[x].outcome # "pending")
  BY <1>4 DEF LedgerInv, Tidy, CompletedOnce
<1>8. /\ Tidy(operations', completed')
      /\ \A x \in DOMAIN operations' : x \in DOMAIN ops /\ operations'[x] = ops[x]
      /\ \A x \in DOMAIN ops : ops[x].outcome = "pending" => x \in DOMAIN operations'
  BY <1>1, <1>2, <1>4, <1>5, <1>6, <1>7, RetireTidies
<1> QED
  BY <1>1, <1>4, <1>8

\* The active operation is settled, by its job or by the legacy action that
\* supersedes it.
LEMMA ConcludeTidies ==
  ASSUME LedgerInv, pending, NEW outcome \in Outcomes \ {"pending"},
         Conclude(active.op, outcome)
  PROVE  /\ Tidy(operations', completed')
         /\ \A x \in DOMAIN operations' : operations'[x].outcome # "pending"
         /\ \A x \in DOMAIN operations' \ {active.op} :
              x \in DOMAIN operations /\ operations'[x] = operations[x]
<1> DEFINE o == active.op
<1>1. CASE o \in DOMAIN operations
  <2> DEFINE ops == [operations EXCEPT ![o].outcome = outcome]
  <2>1. LedgerType /\ Retire(ops, o)
    BY <1>1 DEF LedgerInv, Typed, Conclude
  <2>2. o \in OperationIds
    BY <1>1, <2>1 DEF LedgerType
  <2>3. operations[o].outcome = "pending"
    BY <1>1, <2>2, LifecycleAssumption DEF LedgerInv, OpenIsActive
  <2>4. /\ DOMAIN ops = DOMAIN operations
        /\ ops[o].outcome # "pending"
        /\ \A x \in DOMAIN operations : x # o => ops[x] = operations[x]
        /\ ops \in [DOMAIN ops -> Entries]
    BY <1>1, <2>1 DEF LedgerType, Entries
  <2> HIDE DEF ops
  <2>5. /\ DOMAIN ops \subseteq OperationIds
        /\ completed \in Seq(OperationIds)
    BY <2>1, <2>4 DEF LedgerType
  <2>6. \A i \in 1 .. Len(completed) : completed[i] # o
    BY <2>2, <2>3 DEF LedgerInv, Tidy
  <2>7. /\ Len(completed) <= MaxCompleted /\ CompletedOnce
        /\ \A x \in OperationIds \ {o} :
             (\E i \in 1 .. Len(completed) : completed[i] = x)
               <=> (x \in DOMAIN ops /\ ops[x].outcome # "pending")
    BY <2>4 DEF LedgerInv, Tidy, CompletedOnce
  <2>8. /\ Tidy(operations', completed')
        /\ \A x \in DOMAIN operations' : x \in DOMAIN ops /\ operations'[x] = ops[x]
    BY <1>1, <2>1, <2>4, <2>5, <2>6, <2>7, RetireTidies
  <2>9. \A x \in DOMAIN ops : ops[x].outcome # "pending"
    BY <2>4 DEF LedgerInv, OpenIsActive
  <2> QED
    BY <2>4, <2>8, <2>9
<1>2. CASE o \notin DOMAIN operations
  <2>1. UNCHANGED <<operations, completed>>
    BY <1>2 DEF Conclude, ledger
  <2> QED
    BY <1>2, <2>1 DEF LedgerInv, OpenIsActive, Tidy
<1> QED
  BY <1>1, <1>2

-----------------------------------------------------------------------------
(***************************************************************************)
(* The steps.                                                              *)
(***************************************************************************)
LEMMA DispatchNumbered ==
  ASSUME Typed, Numbered, NEW a \in Actions, NEW o \in Ops, Dispatch(a, o)
  PROVE  Numbered'
<1>1. generation \in Nat /\ generation' = generation + 1
  BY DEF Typed, MachineType, Dispatch
<1>2. active' = [op |-> o, action |-> a, gen |-> generation + 1]
  BY DEF Dispatch
<1>3. ASSUME NEW x, x.gen \in Nat, SameNumberSameOperation(x)
      PROVE  SameNumberSameOperation(x)'
  BY <1>1, <1>2, <1>3 DEF SameNumberSameOperation
<1>4. ASSUME NEW d \in calls' PROVE SameNumberSameOperation(d)'
  <2>1. CASE d \in calls
    BY <1>3, <2>1, CallFacts DEF Numbered
  <2>2. CASE d \notin calls
    <3>1. d.gen = generation + 1 /\ d.op = o /\ d.action = a
      BY <1>4, <2>2 DEF Dispatch
    <3> QED
      BY <1>1, <1>2, <3>1 DEF SameNumberSameOperation
  <2> QED
    BY <2>1, <2>2
<1>5. ASSUME NEW s \in settling' PROVE SameNumberSameOperation(s)'
  <2>1. s \in settling /\ s.gen \in Nat
    BY <1>5 DEF Dispatch, Typed, JobTypes
  <2> QED
    BY <1>3, <2>1 DEF Numbered
<1> QED
  BY <1>1, <1>2, <1>4, <1>5 DEF Numbered

\* A step that leaves the machine alone and brings up no number of its own.
LEMMA QuietNumbered ==
  ASSUME Numbered, UNCHANGED machine,
         \A d \in calls' : \E x \in calls : d.gen = x.gen /\ d.op = x.op /\ d.action = x.action,
         \A s \in settling' : \/ SameNumberSameOperation(s)
                             \/ \E x \in calls : /\ s.gen = x.gen /\ s.op = x.op
                                                  /\ s.action = x.action
  PROVE  Numbered'
<1>1. UNCHANGED <<generation, pending, active>>
  BY DEF machine
<1>2. ASSUME NEW d \in calls' PROVE SameNumberSameOperation(d)'
  BY <1>1, <1>2 DEF Numbered, SameNumberSameOperation
<1>3. ASSUME NEW s \in settling' PROVE SameNumberSameOperation(s)'
  BY <1>1, <1>3 DEF Numbered, SameNumberSameOperation
<1> QED
  BY <1>1, <1>2, <1>3 DEF Numbered

LEMMA QuietLedger ==
  ASSUME Tidy(operations, completed), OpenIsActive, UNCHANGED <<machine, ledger>>
  PROVE  Tidy(operations, completed)' /\ OpenIsActive'
BY DEF machine, ledger, Tidy, OpenIsActive

LEMMA NodeActionLedger ==
  ASSUME LedgerInv, NEW o \in OperationIds, NEW r \in HostRequests, NodeAction(o, r)
  PROVE  Numbered' /\ Tidy(operations, completed)' /\ OpenIsActive'
<1>1. r \in Requests /\ r.action \in Actions
  BY HostRequestsTyped DEF LedgerInv, Typed, Requests
<1>2. {"rejected", "no_op"} \subseteq Outcomes \ {"pending"}
  BY DEF Outcomes
<1>3. CASE Resubmit(o, r)
  BY <1>3, QuietLedger DEF Resubmit, vars, machine, LedgerInv, Numbered, SameNumberSameOperation
<1>4. ASSUME NEW outcome \in {"rejected", "no_op"}, NEW steps \in Nat, o \notin DOMAIN operations,
             SettleWithoutDispatch(o, r, outcome, steps)
      PROVE  Numbered' /\ Tidy(operations, completed)' /\ OpenIsActive'
  <2>1. /\ Tidy(operations', completed')
        /\ \A x \in DOMAIN operations' \ {o} :
             x \in DOMAIN operations /\ operations'[x] = operations[x]
        /\ o \in DOMAIN operations' => operations'[o].outcome # "pending"
        /\ \A x \in DOMAIN operations :
             operations[x].outcome = "pending" => x \in DOMAIN operations'
    BY <1>1, <1>2, <1>4, SettleWithoutDispatchTidies
  <2>2. UNCHANGED <<generation, pending, active, calls, settling>>
    BY <1>4 DEF SettleWithoutDispatch, machine
  <2>3. Numbered'
    BY <2>2 DEF LedgerInv, Numbered, SameNumberSameOperation
  <2>4. OpenIsActive'
    <3>1. ASSUME NEW x \in DOMAIN operations', operations'[x].outcome = "pending"
          PROVE  pending' /\ active'.op = x /\ active'.action = operations'[x].request.action
      BY <2>1, <2>2, <3>1 DEF LedgerInv, OpenIsActive
    <3>2. ASSUME pending', active'.op # NoOperation
          PROVE  active'.op \in DOMAIN operations' /\ operations'[active'.op].outcome = "pending"
      <4>1. active.op \in DOMAIN operations /\ operations[active.op].outcome = "pending"
        BY <2>2, <3>2 DEF LedgerInv, OpenIsActive
      <4>2. active.op # o
        BY <1>4, <4>1
      <4> QED
        BY <2>1, <2>2, <4>1, <4>2
    <3> QED
      BY <3>1, <3>2 DEF OpenIsActive
  <2> QED
    BY <2>1, <2>3, <2>4 DEF Tidy
<1>5. CASE Reject(o, r)
  BY <1>4, <1>5 DEF Reject
<1>6. CASE NoOp(o, r)
  BY <1>4, <1>6 DEF NoOp
<1>7. CASE Accept(o, r)
  <2> DEFINE entry == [request |-> r, previous |-> lifecycleState, outcome |-> "pending"]
  <2>1. /\ o \notin DOMAIN operations /\ ~pending
        /\ Dispatch(r.action, o)
        /\ operations' = Record(o, entry)
        /\ UNCHANGED completed
    BY <1>7 DEF Accept
  <2>2. Numbered'
    BY <1>1, <2>1, DispatchNumbered DEF LedgerInv, Ops
  <2>3. entry.outcome = "pending" /\ entry.request.action = r.action
    OBVIOUS
  <2> HIDE DEF entry
  <2>4. /\ DOMAIN operations' = DOMAIN operations \cup {o}
        /\ operations'[o] = entry
        /\ \A x \in DOMAIN operations : operations'[x] = operations[x]
    BY <2>1 DEF Record
  <2>5. \A x \in DOMAIN operations : operations[x].outcome # "pending"
    BY <2>1 DEF LedgerInv, OpenIsActive
  <2>6. pending' /\ active'.op = o /\ active'.action = r.action
    BY <2>1 DEF Dispatch
  <2>7. OpenIsActive'
    BY <2>3, <2>4, <2>5, <2>6 DEF OpenIsActive
  <2>8. Tidy(operations, completed)'
    BY <2>1, <2>3, <2>4 DEF LedgerInv, Tidy
  <2> QED
    BY <2>2, <2>7, <2>8
<1> QED
  BY <1>3, <1>5, <1>6, <1>7 DEF NodeAction

LEMMA LegacyBeginLedger ==
  ASSUME LedgerInv, NEW c \in LegacyCallers, LegacyBegin(c)
  PROVE  Numbered' /\ Tidy(operations, completed)' /\ OpenIsActive'
<1>1. Dispatch(legacy[c], NoOperation) /\ legacy[c] \in Actions /\ NoOperation \in Ops
  BY DEF LegacyBegin, LedgerInv, Typed, LegacyType, Actions, Ops
<1>2. Numbered'
  BY <1>1, DispatchNumbered DEF LedgerInv
<1>3. active'.op = NoOperation
  BY <1>1 DEF Dispatch
<1>4. Tidy(operations', completed')
      /\ \A x \in DOMAIN operations' : operations'[x].outcome # "pending"
  <2>1. CASE pending
    BY <2>1, ConcludeTidies DEF LegacyBegin, Outcomes
  <2>2. CASE ~pending
    BY <2>2 DEF LegacyBegin, ledger, LedgerInv, OpenIsActive, Tidy
  <2> QED
    BY <2>1, <2>2
<1> QED
  BY <1>2, <1>3, <1>4 DEF OpenIsActive, Tidy

LEMMA SettleLedger ==
  ASSUME LedgerInv, NEW s \in settling, SettleLive(s) \/ DropStale(s)
  PROVE  Numbered' /\ Tidy(operations, completed)' /\ OpenIsActive'
<1>1. CASE SettleLive(s)
  <2>1. pending /\ s.op = active.op
    BY <1>1 DEF SettleLive, Live, LedgerInv, Numbered, SameNumberSameOperation
  <2>2. PICK outcome \in Outcomes \ {"pending"} : Conclude(active.op, outcome)
    BY <1>1, <2>1 DEF SettleLive, Outcomes
  <2>3. Tidy(operations', completed')
        /\ \A x \in DOMAIN operations' : operations'[x].outcome # "pending"
    BY <2>1, <2>2, ConcludeTidies
  <2>4. /\ ~pending' /\ active'.gen = 0 /\ generation' = generation /\ generation \in Nat
        /\ calls' \subseteq calls /\ settling' \subseteq settling
    BY <1>1 DEF SettleLive, Leave, Idle, LedgerInv, Typed, MachineType
  <2> QED
    BY <2>3, <2>4 DEF Numbered, SameNumberSameOperation, LedgerInv, OpenIsActive, Tidy
<1>2. CASE DropStale(s)
  <2>1. UNCHANGED <<machine, ledger>> /\ calls' \subseteq calls /\ settling' \subseteq settling
    BY <1>2 DEF DropStale, Leave
  <2> QED
    BY <2>1, QuietNumbered, QuietLedger DEF LedgerInv, Numbered
<1> QED
  BY <1>1, <1>2

\* Carrying an action out only moves it from stage to stage and makes its jobs.
LEMMA ActorLedger ==
  ASSUME LedgerInv, NEW d \in calls, Worker(d) \/ Call(d) \/ CreateAnswers(d)
  PROVE  Numbered' /\ Tidy(operations, completed)' /\ OpenIsActive'
<1>1. UNCHANGED <<machine, ledger>>
  BY DEF Worker, Call, Launch, LaunchFails, LockCreateNode, CreateRefused, DispatchCreate,
         CreateTimesOut, RegisterListeners, RemoveListeners, DestroyContext, Invoke, Return,
         ReturnError, CreateAnswers
<1>2. \/ (\E stage : Move(d, stage)) /\ UNCHANGED settling
      \/ \E goal, ok : Finish(d, goal, ok) \/ Quit(d, goal, ok)
      \/ calls' = calls \ {d} /\ UNCHANGED settling
  BY DEF Worker, Call, Launch, LaunchFails, LockCreateNode, CreateRefused, DispatchCreate,
         CreateTimesOut, RegisterListeners, RemoveListeners, DestroyContext, Invoke, Return,
         ReturnError, CreateAnswers
<1>3. d \in CallTypes
  BY DEF LedgerInv, Typed
<1>4. \A stage : LET e == [d EXCEPT !.stage = stage]
                 IN  e.gen = d.gen /\ e.op = d.op /\ e.action = d.action
  BY <1>3 DEF CallTypes
<1>5. \A x \in calls' : \E y \in calls : x.gen = y.gen /\ x.op = y.op /\ x.action = y.action
  BY <1>2, <1>4 DEF Move, Finish, Quit
<1>6. \A s \in settling' :
        s \in settling \/ (s.gen = d.gen /\ s.op = d.op /\ s.action = d.action)
  <2>1. ASSUME NEW goal, NEW ok, Finish(d, goal, ok) \/ Quit(d, goal, ok)
        PROVE  \A s \in settling' : s \in settling \/ s = Job(d, goal, ok)
    BY <2>1 DEF Finish, Quit
  <2>2. \A goal, ok : LET s == Job(d, goal, ok)
                      IN  s.gen = d.gen /\ s.op = d.op /\ s.action = d.action
    BY DEF Job
  <2> QED
    BY <1>2, <2>1, <2>2
<1> QED
  BY <1>1, <1>5, <1>6, QuietNumbered, QuietLedger DEF LedgerInv, Numbered

LEMMA CallbackLedger ==
  ASSUME LedgerInv, NEW cb \in callbacks, NEW ok \in BOOLEAN, Callback(cb, ok)
  PROVE  Numbered' /\ Tidy(operations, completed)' /\ OpenIsActive'
<1>1. UNCHANGED <<machine, ledger, calls>>
  BY DEF Callback
<1>2. \A s \in settling' :
        \/ s \in settling
        \/ /\ s.gen = active.gen /\ s.op = active.op
           /\ pending /\ s.action = active.action
  <2>1. CASE pending /\ active.action = cb.action
    <3>1. PICK goal : settling' = settling \cup
                 {[action |-> cb.action, op |-> active.op, gen |-> active.gen,
                   goal |-> goal, ok |-> ok, from |-> cb.gen]}
      BY <2>1 DEF Callback
    <3> QED
      BY <2>1, <3>1
  <2>2. CASE ~(pending /\ active.action = cb.action)
    BY <2>2 DEF Callback
  <2> QED
    BY <2>1, <2>2
<1>3. active.gen <= generation
  BY DEF LedgerInv, Numbered
<1>4. \A s \in settling' : SameNumberSameOperation(s)
  BY <1>2, <1>3 DEF LedgerInv, Numbered, SameNumberSameOperation
<1> QED
  BY <1>1, <1>4, QuietNumbered, QuietLedger DEF LedgerInv

LEMMA NextLedger == LedgerInv /\ [Next]_vars => LedgerInv'
<1> SUFFICES ASSUME LedgerInv, [Next]_vars PROVE LedgerInv'
  OBVIOUS
<1>1. Typed'
  BY NextTyped DEF LedgerInv
<1>2. CASE Host
  <2>1. ASSUME NEW o \in OperationIds, NEW r \in HostRequests, NodeAction(o, r)
        PROVE  LedgerInv'
    BY <1>1, <2>1, NodeActionLedger DEF LedgerInv
  <2>2. ASSUME NEW c \in LegacyCallers, LegacyBegin(c) PROVE LedgerInv'
    BY <1>1, <2>2, LegacyBeginLedger DEF LedgerInv
  <2>3. ASSUME UNCHANGED <<machine, ledger, calls, settling>> PROVE LedgerInv'
    BY <1>1, <2>3, QuietLedger DEF LedgerInv, machine, Numbered, SameNumberSameOperation
  <2>4. ASSUME NEW c \in LegacyCallers, NEW a, LegacyCheck(c, a)
        PROVE  UNCHANGED <<machine, ledger, calls, settling>>
    BY <2>4 DEF LegacyCheck
  <2>5. NodeStatus => UNCHANGED <<machine, ledger, calls, settling>>
    BY DEF NodeStatus
  <2> QED
    BY <1>2, <2>1, <2>2, <2>3, <2>4, <2>5 DEF Host
<1>3. CASE Module
  BY <1>1, <1>3, ActorLedger, SettleLedger DEF Module, LedgerInv
<1>4. CASE Ffi
  BY <1>1, <1>4, ActorLedger, CallbackLedger DEF Ffi, LedgerInv
<1>5. CASE UNCHANGED vars
  BY <1>1, <1>5, QuietLedger
     DEF vars, machine, LedgerInv, Numbered, SameNumberSameOperation
<1> QED
  BY <1>2, <1>3, <1>4, <1>5 DEF Next

(***************************************************************************)
(* The ledger and the machine agree in every interleaving of V1 requests,  *)
(* legacy calls, workers and callbacks, for every number of ids and every  *)
(* capacity of the completed deque (cpp 759-773, 808-839, 924-1020).       *)
(***************************************************************************)
THEOREM LedgerCorrect == Spec => []LedgerConsistent
<1>1. Spec => []LedgerInv
  BY InitLedger, NextLedger, PTL DEF Spec
<1> QED
  BY <1>1, LedgerInvIsConsistent, PTL

(***************************************************************************)
(* No step rewrites an entry that was settled and is still remembered: a   *)
(* repeated operation_id is answered the same each time (cpp 841-856).     *)
(***************************************************************************)
THEOREM SettledStaysFinal == Spec => SettledIsFinal
<1> DEFINE Final ==
      \A o \in (DOMAIN operations) \cap (DOMAIN operations') :
        operations[o].outcome # "pending" => operations'[o] = operations[o]
<1>1. LedgerInv /\ [Next]_vars => [Final]_vars
  <2> SUFFICES ASSUME LedgerInv, Next PROVE Final
    OBVIOUS
  <2>1. CASE Host
    <3>1. ASSUME NEW o \in OperationIds, NEW r \in HostRequests, NodeAction(o, r)
          PROVE  Final
      <4>1. r \in Requests
        BY HostRequestsTyped DEF LedgerInv, Typed
      <4>2. CASE Resubmit(o, r)
        BY <4>2 DEF Resubmit, vars, ledger
      <4>3. CASE Reject(o, r) \/ NoOp(o, r)
        BY <4>1, <4>3, SettleWithoutDispatchTidies DEF Reject, NoOp, Outcomes
      <4>4. CASE Accept(o, r)
        BY <4>4 DEF Accept, Record
      <4> QED
        BY <3>1, <4>2, <4>3, <4>4 DEF NodeAction
    <3>2. ASSUME NEW c \in LegacyCallers, LegacyBegin(c) PROVE Final
      <4>1. CASE pending
        <5>1. Conclude(active.op, "failed")
          BY <3>2, <4>1 DEF LegacyBegin
        <5> QED
          BY <4>1, <5>1, ConcludeTidies, LifecycleAssumption
             DEF Outcomes, LedgerInv, OpenIsActive, Typed, LedgerType
      <4>2. CASE ~pending
        BY <3>2, <4>2 DEF LegacyBegin, ledger
      <4> QED
        BY <4>1, <4>2
    <3>3. ASSUME UNCHANGED ledger PROVE Final
      BY <3>3 DEF ledger
    <3> QED
      BY <2>1, <3>1, <3>2, <3>3 DEF Host, NodeStatus, LegacyCheck
  <2>2. CASE Module
    <3>1. ASSUME NEW s \in settling, SettleLive(s) PROVE Final
      <4>1. pending /\ s.op = active.op
        BY <3>1 DEF SettleLive, Live, LedgerInv, Numbered, SameNumberSameOperation
      <4>2. PICK outcome \in Outcomes \ {"pending"} : Conclude(active.op, outcome)
        BY <3>1, <4>1 DEF SettleLive, Outcomes
      <4> QED
        BY <4>1, <4>2, ConcludeTidies, LifecycleAssumption
           DEF LedgerInv, OpenIsActive, Typed, LedgerType
    <3>2. ASSUME UNCHANGED ledger PROVE Final
      BY <3>2 DEF ledger
    <3>3. ASSUME NEW d \in calls, Worker(d) \/ Call(d) PROVE UNCHANGED ledger
      BY <3>3
         DEF Worker, Call, Launch, LaunchFails, LockCreateNode, CreateRefused, DispatchCreate,
             CreateTimesOut, RegisterListeners, RemoveListeners, DestroyContext, Invoke, Return,
             ReturnError
    <3>4. ASSUME NEW s \in settling, DropStale(s) PROVE UNCHANGED ledger
      BY <3>4 DEF DropStale
    <3> QED
      BY <2>2, <3>1, <3>2, <3>3, <3>4 DEF Module
  <2>3. CASE Ffi
    BY <2>3 DEF Ffi, CreateAnswers, Callback, ledger
  <2> QED
    BY <2>1, <2>2, <2>3 DEF Next
<1>2. Spec => []LedgerInv
  BY InitLedger, NextLedger, PTL DEF Spec
<1> QED
  BY <1>1, <1>2, PTL DEF Spec, SettledIsFinal
=============================================================================
