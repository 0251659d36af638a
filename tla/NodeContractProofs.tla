------------------------- MODULE NodeContractProofs -------------------------
(***************************************************************************)
(* Proofs about NodeLifecycle for a host that keeps to the versioned V1    *)
(* interface (LegacyCallers = {}): the lifecycle implements NodeContract,  *)
(* and the status such a host reads can be relied upon.  Both rest on one  *)
(* invariant, which follows an accepted operation through its call, its    *)
(* completion and its job: at any moment exactly one of them is in charge  *)
(* of the operation and of the context, and what it will settle in is what *)
(* the context has come to.                                                *)
(***************************************************************************)
EXTENDS NodeLedgerProofs, NodeLifecycleRefinement

\* x, a dispatched action or a job, belongs to the operation in flight.
Current(x) == pending /\ x.gen = active.gen

\* The operation in flight has an id, and the state says which action it is.
ActiveNamed ==
  pending => /\ active.op \in OperationIds /\ active.action \in Actions
             /\ lifecycleState = Transient[active.action]

\* Where an operation came from is where its action starts.
SourceKept ==
  /\ \A o \in DOMAIN operations : operations[o].outcome = "pending" =>
       operations[o].previous = Contract!Source[operations[o].request.action]
  /\ \A d \in calls : d.prev = Contract!Source[d.action]

\* Each stage belongs to the actions that pass through it.
StagesFit == \A d \in calls : Fits(d)

\* A generation is one call's; of an operation that is over, only an FFI call
\* that has not returned can be left.
OneCallEach ==
  /\ \A d, e \in calls : d.gen = e.gen => d = e
  /\ \A d \in calls : Current(d) \/ d.stage = "calling"

\* A job completes the dispatch it came from, which has nothing left to do but
\* to return; what it settles in fits its action and the context.
JobsFit ==
  \A s \in settling :
    /\ s.from = s.gen
    /\ Current(s) =>
         /\ \A d \in calls : Current(d) => d.stage \in {"calling", "done"}
         /\ s.ok => s.goal = Contract!Target[s.action]
         /\ ~s.ok => \/ s.goal = Contract!Source[s.action]
                     \/ s.action = "initialize" /\ s.goal = "stopped"
         /\ s.goal = "uninitialized" <=> ~deliveryCtx

\* An answer is owed only to the operation in flight, whose call was made and
\* which nothing is about to settle.
AnswersAwaited ==
  \A cb \in callbacks :
    /\ Current(cb) /\ cb.action = active.action
    /\ \A s \in settling : s.gen # cb.gen
    /\ \A d \in calls : d.gen = cb.gen => d.stage = "calling"

\* The context and the listeners, between operations and at every stage of one.
ContextFits ==
  /\ ~deliveryCtx => listeners = "none"
  /\ ~pending => /\ lifecycleState \in Settled
                 /\ lifecycleState = "uninitialized" <=> ~deliveryCtx
                 /\ lifecycleState = "running" => listeners = "ready"
  /\ pending /\ active.action \in {"start", "stop"} => deliveryCtx /\ listeners = "ready"
  /\ \A d \in calls : Current(d) =>
       /\ d.action = "initialize" /\ d.stage \in {"accepted", "launched", "locked", "awaiting"}
            => ~deliveryCtx
       /\ d.stage = "created" => deliveryCtx /\ listeners = "none"
       /\ d.action = "destroy" /\ d.stage \in {"accepted", "launched", "locked", "unhooked"}
            => deliveryCtx
       /\ d.stage = "unhooked" => listeners = "none"

InCharge ==
  /\ ActiveNamed /\ SourceKept /\ StagesFit /\ OneCallEach
  /\ JobsFit /\ AnswersAwaited /\ ContextFits

V1Inv == LedgerInv /\ InCharge

LEMMA SourceAndTarget ==
  /\ Contract!Source["initialize"] = "uninitialized" /\ Contract!Target["initialize"] = "stopped"
  /\ Contract!Source["start"] = "stopped" /\ Contract!Target["start"] = "running"
  /\ Contract!Source["stop"] = "running" /\ Contract!Target["stop"] = "stopped"
  /\ Contract!Source["destroy"] = "stopped" /\ Contract!Target["destroy"] = "uninitialized"
BY DEF Contract!Source, Contract!Target

LEMMA InitInCharge == Init => InCharge
BY DEF Init, InCharge, ActiveNamed, SourceKept, StagesFit, Fits, OneCallEach, JobsFit, AnswersAwaited,
       ContextFits, Settled

-----------------------------------------------------------------------------
(***************************************************************************)
(* Steps that leave the operation in flight and its actors alone.          *)
(***************************************************************************)
LEMMA QuietInCharge ==
  ASSUME InCharge, UNCHANGED <<machine, context, calls, callbacks, settling>>,
         \A o \in DOMAIN operations' : operations'[o].outcome = "pending"
           => o \in DOMAIN operations /\ operations'[o] = operations[o]
  PROVE  InCharge'
<1>1. UNCHANGED <<lifecycleState, pending, active, deliveryCtx, listeners>>
  BY DEF machine, context
<1>2. ActiveNamed' /\ StagesFit' /\ ContextFits'
  BY <1>1 DEF InCharge, ActiveNamed, StagesFit, Fits, ContextFits, Current
<1>3. SourceKept'
  BY DEF InCharge, SourceKept
<1>4. OneCallEach' /\ JobsFit' /\ AnswersAwaited'
  BY <1>1 DEF InCharge, OneCallEach, JobsFit, AnswersAwaited, Current
<1> QED
  BY <1>2, <1>3, <1>4 DEF InCharge

LEMMA NodeActionInCharge ==
  ASSUME V1Inv, NEW o \in OperationIds, NEW r \in HostRequests, NodeAction(o, r)
  PROVE  InCharge'
<1>1. r \in Requests /\ r.action \in Actions
  BY HostRequestsTyped DEF V1Inv, LedgerInv, Typed, Requests
<1>2. CASE Resubmit(o, r)
  BY <1>2, QuietInCharge DEF V1Inv, Resubmit, vars, ledger
<1>3. CASE Reject(o, r) \/ NoOp(o, r)
  <2>1. PICK outcome \in Outcomes \ {"pending"}, steps \in Nat :
          o \notin DOMAIN operations /\ SettleWithoutDispatch(o, r, outcome, steps)
    BY <1>3 DEF Reject, NoOp, Outcomes
  <2>2. /\ \A x \in DOMAIN operations' \ {o} :
             x \in DOMAIN operations /\ operations'[x] = operations[x]
        /\ o \in DOMAIN operations' => operations'[o].outcome # "pending"
    BY <1>1, <2>1, SettleWithoutDispatchTidies DEF V1Inv
  <2> QED
    BY <2>1, <2>2, QuietInCharge DEF V1Inv, SettleWithoutDispatch
<1>4. CASE Accept(o, r)
  <2> DEFINE a == r.action
             c == [gen |-> generation + 1, action |-> a, op |-> o, prev |-> lifecycleState,
                   stage |-> "accepted"]
             entry == [request |-> r, previous |-> lifecycleState, outcome |-> "pending"]
  <2>1. /\ o \notin DOMAIN operations /\ ~pending /\ Dispatchable(a)
        /\ operations' = Record(o, entry)
        /\ lifecycleState' = Transient[a] /\ pending'
        /\ active' = [op |-> o, action |-> a, gen |-> generation + 1]
        /\ UNCHANGED <<deliveryCtx, listeners, callbacks, settling>>
    BY <1>4 DEF Accept, Dispatch, context
  <2>2. calls' = calls \cup {c}
    BY <1>4, LifecycleAssumption DEF Accept, Dispatch
  <2>3. lifecycleState = Contract!Source[a]
    BY <1>1, <2>1, SourceAndTarget DEF Dispatchable
  <2>4. callbacks = {} /\ \A d \in calls : d.stage = "calling"
    BY <2>1 DEF V1Inv, InCharge, AnswersAwaited, OneCallEach, Current
  <2>5. /\ generation \in Nat
        /\ \A d \in calls : d.gen \in Nat /\ d.gen <= generation
        /\ \A s \in settling : s.gen \in Nat /\ s.gen <= generation
    BY DEF V1Inv, LedgerInv, Typed, MachineType, CallTypes, JobTypes, Numbered,
           SameNumberSameOperation
  <2>6. /\ \A d \in calls : d.gen # active'.gen
        /\ \A s \in settling : s.gen # active'.gen
    BY <2>1, <2>5
  <2>7. /\ c.gen = active'.gen /\ c.action = a /\ c.op = o
        /\ c.prev = lifecycleState /\ c.stage = "accepted"
    BY <2>1
  <2>8. /\ DOMAIN operations' = DOMAIN operations \cup {o}
        /\ operations'[o].request = r /\ operations'[o].previous = lifecycleState
        /\ \A x \in DOMAIN operations : operations'[x] = operations[x]
    BY <2>1 DEF Record
  <2> HIDE DEF c, entry
  <2>9. ActiveNamed'
    BY <1>1, <2>1 DEF ActiveNamed
  <2>10. SourceKept'
    BY <2>2, <2>3, <2>7, <2>8 DEF V1Inv, InCharge, SourceKept
  <2>11. StagesFit'
    BY <2>2, <2>7 DEF V1Inv, InCharge, StagesFit, Fits
  <2>12. OneCallEach'
    BY <2>1, <2>2, <2>4, <2>6, <2>7 DEF V1Inv, InCharge, OneCallEach, Current
  <2>13. JobsFit'
    BY <2>1, <2>6 DEF V1Inv, InCharge, JobsFit, Current
  <2>14. AnswersAwaited'
    BY <2>1, <2>4 DEF AnswersAwaited
  <2>15. ContextFits'
    <3>1. (a = "initialize" => ~deliveryCtx) /\ (a # "initialize" => deliveryCtx)
      BY <1>1, <2>1 DEF V1Inv, InCharge, ContextFits, Dispatchable, Actions, Settled
    <3>2. a \in {"start", "stop"} => listeners = "ready"
      BY <2>1 DEF V1Inv, InCharge, ContextFits, Dispatchable
    <3>3. ~deliveryCtx => listeners = "none"
      BY DEF V1Inv, InCharge, ContextFits
    <3>4. \A d \in calls' : Current(d)' => d = c
      BY <2>1, <2>2, <2>6 DEF Current
    <3>5. c.action = a /\ c.stage = "accepted" /\ active'.action = a
      BY <2>1, <2>7
    <3> QED
      BY <2>1, <3>1, <3>2, <3>3, <3>4, <3>5 DEF ContextFits
  <2> QED
    BY <2>9, <2>10, <2>11, <2>12, <2>13, <2>14, <2>15 DEF InCharge
<1> QED
  BY <1>2, <1>3, <1>4 DEF NodeAction

-----------------------------------------------------------------------------
(***************************************************************************)
(* A worker's step, or a call's.  An actor that is not inside or behind an *)
(* FFI call is alone in charge.                                            *)
(***************************************************************************)
LEMMA SoleActor ==
  ASSUME V1Inv, NEW d \in calls, d.stage \notin {"calling", "done"}
  PROVE  /\ Current(d) /\ d.action = active.action /\ d.op = active.op
         /\ d.prev = Contract!Source[d.action]
         /\ callbacks = {}
         /\ \A s \in settling : s.gen # d.gen
         /\ \A x \in calls : x = d \/ (x.gen # d.gen /\ x.stage = "calling")
<1>1. Current(d) /\ d.prev = Contract!Source[d.action]
  BY DEF V1Inv, InCharge, OneCallEach, SourceKept
<1>2. d.action = active.action /\ d.op = active.op
  BY <1>1 DEF V1Inv, LedgerInv, Numbered, SameNumberSameOperation, Current
<1>3. callbacks = {}
  BY <1>1 DEF V1Inv, InCharge, AnswersAwaited, Current
<1>4. \A s \in settling : s.gen # d.gen
  BY <1>1 DEF V1Inv, InCharge, JobsFit, Current
<1>5. \A x \in calls : x = d \/ (x.gen # d.gen /\ x.stage = "calling")
  BY <1>1 DEF V1Inv, InCharge, OneCallEach, Current
<1> QED
  BY <1>1, <1>2, <1>3, <1>4, <1>5

\* What a worker, a call or an answer leaves alone.
Untouched == UNCHANGED <<machine, sequence, ledger, host>>

\* The context after a step that hands a job over or goes on.
ContextKept ==
  /\ ~deliveryCtx' => listeners' = "none"
  /\ active.action \in {"start", "stop"} => deliveryCtx' /\ listeners' = "ready"

LEMMA UntouchedInCharge ==
  ASSUME InCharge, Untouched
  PROVE  /\ ActiveNamed'
         /\ UNCHANGED <<lifecycleState, pending, active>>
         /\ \A x : Current(x)' <=> Current(x)
         /\ \A o \in DOMAIN operations' : operations'[o].outcome = "pending" =>
              operations'[o].previous = Contract!Source[operations'[o].request.action]
BY DEF Untouched, machine, ledger, InCharge, ActiveNamed, SourceKept, Current

\* The actor goes on to its next stage.
LEMMA MoveInCharge ==
  ASSUME V1Inv, NEW d \in calls, d.stage \notin {"calling", "done"}, Untouched,
         NEW stage \in {"launched", "locked", "awaiting", "created", "unhooked", "calling"},
         Move(d, stage), UNCHANGED settling,
         callbacks' \subseteq {[action |-> d.action, gen |-> d.gen]},
         callbacks' # {} => stage = "calling",
         /\ stage \in {"launched", "locked"} => d.action \in WorkerActions
         /\ stage \in {"awaiting", "created"} => d.action = "initialize"
         /\ stage = "unhooked" => d.action = "destroy"
         /\ stage = "calling" => d.action \in {"start", "stop"},
         ContextKept,
         /\ d.action = "initialize" /\ stage # "created" => ~deliveryCtx'
         /\ stage = "created" => deliveryCtx' /\ listeners' = "none"
         /\ d.action = "destroy" => deliveryCtx'
         /\ stage = "unhooked" => listeners' = "none"
  PROVE  InCharge'
<1> DEFINE e == [d EXCEPT !.stage = stage]
<1>1. /\ e.gen = d.gen /\ e.action = d.action /\ e.prev = d.prev /\ e.stage = stage
  BY DEF V1Inv, LedgerInv, Typed, CallTypes
<1>2. calls' = (calls \ {d}) \cup {e}
  BY DEF Move
<1> HIDE DEF e
<1>3. /\ Current(d) /\ d.action = active.action /\ d.prev = Contract!Source[d.action]
      /\ \A s \in settling : s.gen # d.gen
      /\ \A x \in calls \ {d} : x.gen # d.gen /\ x.stage = "calling"
  BY SoleActor
<1>4. /\ ActiveNamed'
      /\ UNCHANGED <<lifecycleState, pending, active>>
      /\ \A x : Current(x)' <=> Current(x)
      /\ \A o \in DOMAIN operations' : operations'[o].outcome = "pending" =>
           operations'[o].previous = Contract!Source[operations'[o].request.action]
  BY UntouchedInCharge DEF V1Inv
<1>5. SourceKept'
  BY <1>1, <1>2, <1>3, <1>4 DEF V1Inv, InCharge, SourceKept
<1>6. StagesFit'
  BY <1>1, <1>2 DEF V1Inv, InCharge, StagesFit, Fits
<1>7. OneCallEach'
  BY <1>1, <1>2, <1>3, <1>4 DEF V1Inv, InCharge, OneCallEach, Current
<1>8. JobsFit'
  BY <1>2, <1>3, <1>4 DEF V1Inv, InCharge, JobsFit, Current
<1>9. AnswersAwaited'
  BY <1>1, <1>2, <1>3, <1>4 DEF AnswersAwaited, Current
<1>10. ContextFits'
  <2>1. \A x \in calls' : Current(x)' => x = e
    BY <1>2, <1>3, <1>4 DEF Current
  <2>2. pending' /\ active'.action = d.action
    BY <1>3, <1>4 DEF Current
  <2> QED
    BY <1>1, <1>3, <2>1, <2>2 DEF ContextFits, ContextKept
<1> QED
  BY <1>4, <1>5, <1>6, <1>7, <1>8, <1>9, <1>10 DEF InCharge

\* The actor hands over to a job, which agrees with the context.
LEMMA HandOverInCharge ==
  ASSUME V1Inv, NEW d \in calls, d.stage \notin {"calling", "done"}, Untouched,
         NEW goal \in States, NEW ok \in BOOLEAN,
         Quit(d, goal, ok) \/ (Finish(d, goal, ok) /\ d.action \in WorkerActions),
         UNCHANGED callbacks, ContextKept,
         ok => goal = Contract!Target[d.action],
         ~ok => goal = Contract!Source[d.action] \/ (d.action = "initialize" /\ goal = "stopped"),
         goal = "uninitialized" <=> ~deliveryCtx'
  PROVE  InCharge'
<1> DEFINE e == [d EXCEPT !.stage = "done"]
           job == Job(d, goal, ok)
<1>1. /\ e.gen = d.gen /\ e.action = d.action /\ e.prev = d.prev /\ e.stage = "done"
  BY DEF V1Inv, LedgerInv, Typed, CallTypes
<1>2. /\ calls' \subseteq (calls \ {d}) \cup {e}
      /\ e \in calls' => e \in calls \/ d.action \in WorkerActions
  BY DEF Quit, Finish, Move
<1>3. /\ settling' = settling \cup {job}
      /\ job.gen = d.gen /\ job.from = d.gen /\ job.action = d.action
      /\ job.ok = ok /\ job.goal = goal
  BY DEF Quit, Finish, Job
<1> HIDE DEF e, job
<1>4. /\ Current(d) /\ d.action = active.action /\ d.prev = Contract!Source[d.action]
      /\ callbacks = {}
      /\ \A s \in settling : s.gen # d.gen
      /\ \A x \in calls \ {d} : x.gen # d.gen /\ x.stage = "calling"
  BY SoleActor
<1>5. /\ ActiveNamed'
      /\ UNCHANGED <<lifecycleState, pending, active>>
      /\ \A x : Current(x)' <=> Current(x)
      /\ \A o \in DOMAIN operations' : operations'[o].outcome = "pending" =>
           operations'[o].previous = Contract!Source[operations'[o].request.action]
  BY UntouchedInCharge DEF V1Inv
<1>6. SourceKept'
  BY <1>1, <1>2, <1>4, <1>5 DEF V1Inv, InCharge, SourceKept
<1>7. StagesFit'
  BY <1>1, <1>2 DEF V1Inv, InCharge, StagesFit, Fits
<1>8. OneCallEach'
  BY <1>1, <1>2, <1>4, <1>5 DEF V1Inv, InCharge, OneCallEach, Current
<1>9. \A x \in calls' : Current(x)' => x = e
  BY <1>2, <1>4, <1>5 DEF Current
<1>10. JobsFit'
  BY <1>1, <1>3, <1>4, <1>5, <1>9 DEF V1Inv, InCharge, JobsFit, Current
<1>11. AnswersAwaited'
  BY <1>4 DEF AnswersAwaited
<1>12. ContextFits'
  BY <1>1, <1>4, <1>5, <1>9 DEF ContextFits, ContextKept, Current
<1> QED
  BY <1>5, <1>6, <1>7, <1>8, <1>10, <1>11, <1>12 DEF InCharge

LEMMA WorkerInCharge ==
  ASSUME V1Inv, NEW d \in calls, Worker(d) \/ CreateAnswers(d)
  PROVE  InCharge'
<1> USE DEF WorkerActions
<1>1. /\ d.stage \notin {"calling", "done"}
      /\ {"uninitialized", "stopped"} \subseteq States
  BY DEF Worker, Launch, LaunchFails, LockCreateNode, CreateRefused, DispatchCreate, CreateTimesOut,
         RegisterListeners, RemoveListeners, DestroyContext, CreateAnswers, States, Settled
<1>2. /\ Current(d) /\ d.action = active.action /\ d.prev = Contract!Source[d.action]
      /\ callbacks = {}
  BY <1>1, SoleActor
<1>3. /\ ~deliveryCtx => listeners = "none"
      /\ d.action = "initialize" /\ d.stage \in {"accepted", "launched", "locked", "awaiting"}
           => ~deliveryCtx
      /\ d.stage = "created" => deliveryCtx /\ listeners = "none"
      /\ d.action = "destroy" /\ d.stage \in {"accepted", "launched", "locked", "unhooked"}
           => deliveryCtx
      /\ d.stage = "unhooked" => listeners = "none"
  BY <1>2 DEF V1Inv, InCharge, ContextFits
<1>4. d.stage \in {"launched", "locked", "awaiting", "created", "unhooked"} => d.action \in WorkerActions
  BY DEF V1Inv, InCharge, StagesFit, Fits
<1>5. /\ Worker(d) \/ CreateAnswers(d) => Untouched
      /\ callbacks' = callbacks
  BY DEF Worker, Launch, LaunchFails, LockCreateNode, CreateRefused, DispatchCreate, CreateTimesOut,
         RegisterListeners, RemoveListeners, DestroyContext, CreateAnswers, Untouched
<1> DEFINE Kept == UNCHANGED <<deliveryCtx, listeners>>
<1>6. CASE Launch(d) \/ LockCreateNode(d) \/ DispatchCreate(d)
  <2>1. PICK stage \in {"launched", "locked", "awaiting"} :
          Move(d, stage) /\ (stage = "awaiting" => d.action = "initialize")
    BY <1>6 DEF Launch, LockCreateNode, DispatchCreate
  <2>2. d.stage \in {"accepted", "launched", "locked"} /\ d.action \in WorkerActions
        /\ Kept /\ UNCHANGED settling
    BY <1>4, <1>6 DEF Launch, LockCreateNode, DispatchCreate, context
  <2> QED
    BY <1>1, <1>2, <1>3, <1>5, <2>1, <2>2, MoveInCharge DEF ContextKept
<1>7. CASE LaunchFails(d)
  <2>1. d.action \in WorkerActions /\ d.stage = "accepted" /\ Kept
    BY <1>7 DEF LaunchFails, context
  <2>2. Quit(d, Contract!Source[d.action], FALSE) /\ Contract!Source[d.action] \in States
    BY <1>1, <1>2, <1>7, <2>1, SourceAndTarget DEF LaunchFails
  <2> QED
    BY <1>1, <1>2, <1>3, <1>5, <2>1, <2>2, HandOverInCharge, SourceAndTarget DEF ContextKept
<1>8. CASE CreateRefused(d) \/ CreateTimesOut(d)
  <2>1. d.action = "initialize" /\ d.stage \in {"locked", "awaiting"} /\ Kept
        /\ Finish(d, "uninitialized", FALSE)
    BY <1>8 DEF CreateRefused, CreateTimesOut, context, V1Inv, InCharge, StagesFit, Fits
  <2> QED
    BY <1>1, <1>2, <1>3, <1>5, <2>1, HandOverInCharge, SourceAndTarget DEF ContextKept
<1>9. CASE RegisterListeners(d)
  <2>1. d.action = "initialize" /\ d.stage = "created"
    BY <1>9 DEF RegisterListeners
  <2>2. CASE deliveryCtx' = deliveryCtx /\ Finish(d, "stopped", TRUE)
    BY <1>1, <1>2, <1>3, <1>5, <2>1, <2>2, HandOverInCharge, SourceAndTarget DEF ContextKept
  <2>3. CASE deliveryCtx' = deliveryCtx /\ Finish(d, "stopped", FALSE)
    BY <1>1, <1>2, <1>3, <1>5, <2>1, <2>3, HandOverInCharge, SourceAndTarget DEF ContextKept
  <2>4. CASE deliveryCtx' = FALSE /\ UNCHANGED listeners /\ Finish(d, "uninitialized", FALSE)
    BY <1>1, <1>2, <1>3, <1>5, <2>1, <2>4, HandOverInCharge, SourceAndTarget DEF ContextKept
  <2> QED
    BY <1>9, <2>2, <2>3, <2>4 DEF RegisterListeners
<1>10. CASE RemoveListeners(d)
  <2>1. d.action = "destroy" /\ d.stage = "locked" /\ deliveryCtx' = deliveryCtx /\ deliveryCtx
    BY <1>3, <1>10 DEF RemoveListeners
  <2>2. CASE Finish(d, d.prev, FALSE)
    BY <1>1, <1>2, <1>5, <2>1, <2>2, HandOverInCharge, SourceAndTarget DEF ContextKept
  <2>3. CASE listeners' = "none" /\ Move(d, "unhooked") /\ UNCHANGED settling
    BY <1>1, <1>2, <1>5, <2>1, <2>3, MoveInCharge DEF ContextKept
  <2> QED
    BY <1>10, <2>2, <2>3 DEF RemoveListeners
<1>11. CASE DestroyContext(d)
  <2>1. d.action = "destroy" /\ d.stage = "unhooked"
    BY <1>11 DEF DestroyContext
  <2>2. CASE deliveryCtx' = FALSE /\ UNCHANGED listeners /\ Finish(d, "uninitialized", TRUE)
    BY <1>1, <1>2, <1>3, <1>5, <2>1, <2>2, HandOverInCharge, SourceAndTarget DEF ContextKept
  <2>3. CASE UNCHANGED deliveryCtx /\ Finish(d, d.prev, FALSE)
    BY <1>1, <1>2, <1>3, <1>5, <2>1, <2>3, HandOverInCharge, SourceAndTarget DEF ContextKept
  <2> QED
    BY <1>11, <2>2, <2>3 DEF DestroyContext
<1>12. CASE CreateAnswers(d)
  <2>1. d.action = "initialize" /\ d.stage = "awaiting" /\ listeners' = listeners
    BY <1>12 DEF CreateAnswers, V1Inv, InCharge, StagesFit, Fits
  <2>2. CASE deliveryCtx' = TRUE /\ Move(d, "created") /\ UNCHANGED settling
    BY <1>1, <1>2, <1>3, <1>5, <2>1, <2>2, MoveInCharge DEF ContextKept
  <2>3. CASE UNCHANGED deliveryCtx /\ Finish(d, "uninitialized", FALSE)
    BY <1>1, <1>2, <1>3, <1>5, <2>1, <2>3, HandOverInCharge, SourceAndTarget DEF ContextKept
  <2> QED
    BY <1>12, <2>2, <2>3 DEF CreateAnswers
<1> QED
  BY <1>6, <1>7, <1>8, <1>9, <1>10, <1>11, <1>12 DEF Worker

\* A start or stop call: it is made, and returns or refuses at any time later.
LEMMA CallInCharge ==
  ASSUME V1Inv, NEW d \in calls, Call(d)
  PROVE  InCharge'
<1>1. Untouched /\ UNCHANGED <<deliveryCtx, listeners>>
  BY DEF Call, Invoke, Return, ReturnError, Untouched, context
<1>2. /\ ActiveNamed'
      /\ UNCHANGED <<lifecycleState, pending, active>>
      /\ \A x : Current(x)' <=> Current(x)
      /\ \A o \in DOMAIN operations' : operations'[o].outcome = "pending" =>
           operations'[o].previous = Contract!Source[operations'[o].request.action]
  BY <1>1, UntouchedInCharge DEF V1Inv
<1>3. CASE Invoke(d)
  <2>1. d.stage = "accepted" /\ d.action \in {"start", "stop"}
    BY <1>3 DEF Invoke
  <2>2. Current(d) /\ d.action = active.action /\ callbacks = {}
    BY <2>1, SoleActor
  <2>3. deliveryCtx /\ listeners = "ready"
    BY <2>1, <2>2 DEF V1Inv, InCharge, ContextFits, Current
  <2>4. /\ Move(d, "calling") /\ UNCHANGED settling
        /\ callbacks' = callbacks \cup {[action |-> d.action, gen |-> d.gen]}
    BY <1>3, <2>3 DEF Invoke
  <2>5. callbacks' \subseteq {[action |-> d.action, gen |-> d.gen]} /\ ContextKept
    BY <1>1, <2>2, <2>3, <2>4 DEF ContextKept
  <2> QED
    BY <1>1, <2>1, <2>3, <2>4, <2>5, MoveInCharge
<1>4. ASSUME d.stage = "calling", calls' = calls \ {d}
      PROVE  SourceKept' /\ StagesFit' /\ OneCallEach' /\ ContextFits'
  <2>1. SourceKept' /\ StagesFit' /\ OneCallEach'
    BY <1>2, <1>4 DEF V1Inv, InCharge, SourceKept, StagesFit, Fits, OneCallEach
  <2>2. ContextFits'
    BY <1>1, <1>2, <1>4 DEF V1Inv, InCharge, ContextFits
  <2> QED
    BY <2>1, <2>2
<1>5. CASE Return(d)
  <2>1. d.stage = "calling" /\ calls' = calls \ {d} /\ UNCHANGED <<settling, callbacks>>
    BY <1>5 DEF Return
  <2>2. JobsFit' /\ AnswersAwaited'
    BY <1>1, <1>2, <2>1 DEF V1Inv, InCharge, JobsFit, AnswersAwaited
  <2> QED
    BY <1>2, <1>4, <2>1, <2>2 DEF InCharge
<1>6. CASE ReturnError(d)
  <2> DEFINE job == Job(d, d.prev, FALSE)
  <2>1. /\ d.stage = "calling" /\ calls' = calls \ {d} /\ settling' = settling \cup {job}
        /\ callbacks' = callbacks \ {[action |-> d.action, gen |-> d.gen]}
    BY <1>6 DEF ReturnError, Quit
  <2>2. /\ job.gen = d.gen /\ job.from = d.gen /\ job.action = d.action
        /\ job.ok = FALSE /\ job.goal = d.prev
    BY DEF Job
  <2> HIDE DEF job
  <2>3. d.action \in {"start", "stop"} /\ d.prev = Contract!Source[d.action]
    BY <2>1 DEF V1Inv, InCharge, StagesFit, Fits, SourceKept
  <2>4. JobsFit'
    <3>1. Current(d) => /\ d.action = active.action /\ deliveryCtx
                        /\ \A x \in calls : Current(x) => x = d
      BY <2>3 DEF V1Inv, LedgerInv, Numbered, SameNumberSameOperation, InCharge, ContextFits,
                  OneCallEach, Current
    <3>2. \A s \in settling' : s \in settling \/ s = job
      BY <2>1
    <3>3. Current(job) <=> Current(d)
      BY <2>2 DEF Current
    <3>4. d.prev # "uninitialized"
      BY <2>3, SourceAndTarget
    <3>5. \A x \in calls' : x \in calls
      BY <2>1
    <3> QED
      BY <1>1, <1>2, <2>1, <2>2, <2>3, <3>1, <3>2, <3>3, <3>4, <3>5 DEF V1Inv, InCharge, JobsFit
  <2>5. AnswersAwaited'
    <3>1. ASSUME NEW cb \in callbacks' PROVE cb \in callbacks /\ cb.gen # d.gen
      <4>1. cb \in callbacks /\ Current(cb) /\ cb.action = active.action
        BY <2>1, <3>1 DEF V1Inv, InCharge, AnswersAwaited
      <4>2. cb = [action |-> cb.action, gen |-> cb.gen]
        BY <4>1 DEF V1Inv, LedgerInv, Typed, CallbacksType
      <4>3. cb.gen = d.gen => d.action = active.action
        BY <4>1 DEF V1Inv, LedgerInv, Numbered, SameNumberSameOperation, Current
      <4> QED
        BY <2>1, <3>1, <4>1, <4>2, <4>3
    <3> QED
      BY <1>2, <2>1, <2>2, <3>1 DEF V1Inv, InCharge, AnswersAwaited
  <2> QED
    BY <1>2, <1>4, <2>1, <2>4, <2>5 DEF InCharge
<1> QED
  BY <1>3, <1>5, <1>6 DEF Call

-----------------------------------------------------------------------------
(***************************************************************************)
(* Completions and settlement.                                             *)
(***************************************************************************)
LEMMA CallbackInCharge ==
  ASSUME V1Inv, NEW cb \in callbacks, NEW ok \in BOOLEAN, Callback(cb, ok)
  PROVE  InCharge'
<1> DEFINE reached == IF cb.action = "start" THEN "running" ELSE "stopped"
           previous == operations[active.op].previous
           job == [action |-> cb.action, op |-> active.op, gen |-> active.gen,
                   goal |-> IF ok THEN reached ELSE previous, ok |-> ok, from |-> cb.gen]
<1>1. /\ pending /\ cb.gen = active.gen /\ cb.action = active.action
      /\ \A s \in settling : s.gen # cb.gen
      /\ \A d \in calls : d.gen = cb.gen => d.stage = "calling"
      /\ cb.action \in {"start", "stop"}
  BY DEF V1Inv, LedgerInv, Typed, CallbacksType, InCharge, AnswersAwaited, Current
<1>2. /\ active.op \in DOMAIN operations
      /\ operations[active.op].outcome = "pending"
      /\ operations[active.op].request.action = active.action
  BY <1>1, LifecycleAssumption DEF V1Inv, LedgerInv, OpenIsActive, InCharge, ActiveNamed
<1>3. previous = Contract!Source[cb.action]
  BY <1>1, <1>2 DEF V1Inv, InCharge, SourceKept
<1>4. settling' = settling \cup {job}
  BY <1>1, <1>2 DEF Callback
<1>5. /\ Untouched /\ UNCHANGED <<calls, deliveryCtx, listeners>>
      /\ callbacks' = callbacks \ {cb}
  BY DEF Callback, Untouched, context
<1>6. /\ job.gen = active.gen /\ job.from = cb.gen /\ job.action = cb.action /\ job.ok = ok
      /\ job.goal = IF ok THEN reached ELSE previous
  OBVIOUS
<1> HIDE DEF job
<1>7. /\ job.goal # "uninitialized"
      /\ ok => job.goal = Contract!Target[cb.action]
      /\ ~ok => job.goal = Contract!Source[cb.action]
  BY <1>1, <1>3, <1>6, SourceAndTarget
<1>8. /\ ActiveNamed'
      /\ UNCHANGED <<lifecycleState, pending, active>>
      /\ \A x : Current(x)' <=> Current(x)
      /\ \A o \in DOMAIN operations' : operations'[o].outcome = "pending" =>
           operations'[o].previous = Contract!Source[operations'[o].request.action]
  BY <1>5, UntouchedInCharge DEF V1Inv
<1>9. SourceKept' /\ StagesFit' /\ OneCallEach' /\ ContextFits'
  BY <1>5, <1>8 DEF V1Inv, InCharge, SourceKept, StagesFit, Fits, OneCallEach, ContextFits
<1>10. JobsFit'
  <2>1. deliveryCtx
    BY <1>1 DEF V1Inv, InCharge, ContextFits
  <2>2. \A d \in calls : Current(d) => d.stage = "calling"
    BY <1>1 DEF Current
  <2> QED
    BY <1>1, <1>4, <1>5, <1>6, <1>7, <1>8, <2>1, <2>2 DEF V1Inv, InCharge, JobsFit
<1>11. AnswersAwaited'
  <2>1. ASSUME NEW x \in callbacks' PROVE FALSE
    <3>1. x \in callbacks /\ x.gen = active.gen /\ x.action = active.action
      BY <1>5, <2>1 DEF V1Inv, InCharge, AnswersAwaited, Current
    <3>2. x = [action |-> x.action, gen |-> x.gen] /\ cb = [action |-> cb.action, gen |-> cb.gen]
      BY <3>1 DEF V1Inv, LedgerInv, Typed, CallbacksType
    <3> QED
      BY <1>1, <1>5, <2>1, <3>1, <3>2
  <2> QED
    BY <2>1 DEF AnswersAwaited
<1> QED
  BY <1>8, <1>9, <1>10, <1>11 DEF InCharge

LEMMA SettleInCharge ==
  ASSUME V1Inv, NEW s \in settling, SettleLive(s) \/ DropStale(s)
  PROVE  InCharge'
<1>1. CASE SettleLive(s)
  <2>1. /\ pending /\ s.gen = active.gen /\ s.action = active.action /\ s.op = active.op
        /\ pending' = FALSE /\ lifecycleState' = s.goal
        /\ calls' = {c \in calls : ~(c.stage = "done" /\ c.gen = s.from)}
        /\ settling' \subseteq settling
        /\ UNCHANGED <<deliveryCtx, listeners, callbacks>>
    BY <1>1 DEF SettleLive, Live, Leave, context, V1Inv, LedgerInv, Numbered,
                SameNumberSameOperation
  <2>2. /\ s.from = s.gen
        /\ \A d \in calls : Current(d) => d.stage \in {"calling", "done"}
        /\ s.ok => s.goal = Contract!Target[s.action]
        /\ ~s.ok => \/ s.goal = Contract!Source[s.action]
                    \/ s.action = "initialize" /\ s.goal = "stopped"
        /\ s.goal = "uninitialized" <=> ~deliveryCtx
    BY <2>1 DEF V1Inv, InCharge, JobsFit, Current
  <2>3. callbacks = {}
    BY <2>1 DEF V1Inv, InCharge, AnswersAwaited, Current
  <2>4. \A d \in calls' : d \in calls /\ d.stage = "calling"
    BY <2>1, <2>2 DEF V1Inv, InCharge, OneCallEach, Current
  <2>5. \A x \in DOMAIN operations' : operations'[x].outcome # "pending"
    <3>1. PICK outcome \in Outcomes \ {"pending"} : Conclude(active.op, outcome)
      BY <1>1, <2>1 DEF SettleLive, Outcomes
    <3> QED
      BY <2>1, <3>1, ConcludeTidies DEF V1Inv
  <2>6. s.action \in Actions /\ s.ok \in BOOLEAN
    BY DEF V1Inv, LedgerInv, Typed, JobTypes
  <2>7. ActiveNamed' /\ StagesFit' /\ AnswersAwaited'
    BY <2>1, <2>3, <2>4 DEF V1Inv, InCharge, ActiveNamed, StagesFit, Fits, AnswersAwaited
  <2>8. SourceKept'
    BY <2>4, <2>5 DEF V1Inv, InCharge, SourceKept
  <2>9. OneCallEach'
    BY <2>1, <2>4 DEF V1Inv, InCharge, OneCallEach
  <2>10. JobsFit'
    BY <2>1 DEF V1Inv, InCharge, JobsFit, Current
  <2>11. ContextFits'
    <3>1. s.goal \in Settled
      BY <2>2, <2>6, SourceAndTarget DEF Actions, Settled
    <3>2. s.goal = "running" => listeners = "ready"
      <4>1. s.goal = "running" => s.action \in {"start", "stop"}
        BY <2>2, <2>6, SourceAndTarget DEF Actions
      <4> QED
        BY <2>1, <4>1 DEF V1Inv, InCharge, ContextFits
    <3>3. ~deliveryCtx => listeners = "none"
      BY DEF V1Inv, InCharge, ContextFits
    <3> QED
      BY <2>1, <2>2, <3>1, <3>2, <3>3 DEF ContextFits, Current
  <2> QED
    BY <2>7, <2>8, <2>9, <2>10, <2>11 DEF InCharge
<1>2. CASE DropStale(s)
  <2>1. /\ Untouched /\ UNCHANGED <<deliveryCtx, listeners, callbacks>>
        /\ calls' \subseteq calls /\ settling' \subseteq settling
    BY <1>2 DEF DropStale, Leave, Untouched, context
  <2>2. /\ ActiveNamed'
        /\ UNCHANGED <<lifecycleState, pending, active>>
        /\ \A x : Current(x)' <=> Current(x)
        /\ \A o \in DOMAIN operations' : operations'[o].outcome = "pending" =>
             operations'[o].previous = Contract!Source[operations'[o].request.action]
    BY <2>1, UntouchedInCharge DEF V1Inv
  <2>3. SourceKept' /\ StagesFit' /\ OneCallEach' /\ ContextFits'
    BY <2>1, <2>2 DEF V1Inv, InCharge, SourceKept, StagesFit, Fits, OneCallEach, ContextFits
  <2>4. JobsFit' /\ AnswersAwaited'
    BY <2>1, <2>2 DEF V1Inv, InCharge, JobsFit, AnswersAwaited
  <2> QED
    BY <2>2, <2>3, <2>4 DEF InCharge
<1> QED
  BY <1>1, <1>2

LEMMA NextInCharge ==
  ASSUME LegacyCallers = {}
  PROVE  V1Inv /\ [Next]_vars => V1Inv'
<1> SUFFICES ASSUME V1Inv, [Next]_vars PROVE V1Inv'
  OBVIOUS
<1>1. LedgerInv'
  BY NextLedger DEF V1Inv
<1>2. CASE Host
  <2>1. ASSUME NEW o \in OperationIds, NEW r \in HostRequests, NodeAction(o, r)
        PROVE  InCharge'
    BY <2>1, NodeActionInCharge
  <2>2. CASE NodeStatus
    BY <1>1, <2>2, QuietInCharge DEF V1Inv, NodeStatus, ledger
  <2> QED
    BY <1>1, <1>2, <2>1, <2>2 DEF Host, V1Inv
<1>3. CASE Module
  BY <1>1, <1>3, WorkerInCharge, CallInCharge, SettleInCharge DEF Module, V1Inv
<1>4. CASE Ffi
  BY <1>1, <1>4, WorkerInCharge, CallbackInCharge DEF Ffi, V1Inv
<1>5. CASE UNCHANGED vars
  BY <1>1, <1>5, QuietInCharge DEF vars, ledger, V1Inv
<1> QED
  BY <1>2, <1>3, <1>4, <1>5 DEF Next

LEMMA V1Always ==
  ASSUME LegacyCallers = {}
  PROVE  Spec => []V1Inv
<1>1. Init => V1Inv
  BY InitLedger, InitInCharge DEF V1Inv
<1>2. V1Inv /\ [Next]_vars => V1Inv'
  BY NextInCharge
<1> QED
  BY <1>1, <1>2, PTL DEF Spec

-----------------------------------------------------------------------------
(***************************************************************************)
(* What a V1 host may rely on.                                             *)
(***************************************************************************)

(***************************************************************************)
(* A completion never settles another operation of its action than the one *)
(* it completes, though settleLifecycleCallback asks for the action only   *)
(* (cpp 1029-1031).  A legacy action that supersedes one breaks this.      *)
(***************************************************************************)
THEOREM CompletionsCorrelate ==
  ASSUME LegacyCallers = {}
  PROVE  Spec => []SettlementIsCorrelated
<1>1. V1Inv => SettlementIsCorrelated
  BY DEF V1Inv, InCharge, JobsFit, SettlementIsCorrelated
<1> QED
  BY <1>1, V1Always, PTL

(***************************************************************************)
(* Between operations "uninitialized" means that no context is held,       *)
(* however the last initialize or destroy came to its end, timeouts,       *)
(* refusals and half-way failures included (cpp 1047-1365).                *)
(***************************************************************************)
THEOREM ContextFollowsState ==
  ASSUME LegacyCallers = {}
  PROVE  Spec => []ContextMatchesState
<1>1. V1Inv => ContextMatchesState
  BY DEF V1Inv, InCharge, ContextFits, ContextMatchesState
<1> QED
  BY <1>1, V1Always, PTL

(***************************************************************************)
(* While a node starts, runs or stops its context is there and every       *)
(* listener is registered (cpp 891, 1283).                                 *)
(***************************************************************************)
THEOREM RunningIsHeard ==
  ASSUME LegacyCallers = {}
  PROVE  Spec => []RunningNodeIsHeard
<1>1. V1Inv => RunningNodeIsHeard
  <2> SUFFICES ASSUME V1Inv, lifecycleState \in {"starting", "running", "stopping"}
               PROVE  deliveryCtx /\ listeners = "ready"
    BY DEF RunningNodeIsHeard
  <2>1. CASE pending
    <3>1. active.action \in {"start", "stop"}
      BY <2>1 DEF V1Inv, InCharge, ActiveNamed, Transient, Actions
    <3> QED
      BY <2>1, <3>1 DEF V1Inv, InCharge, ContextFits
  <2>2. CASE ~pending
    BY <2>2 DEF V1Inv, InCharge, ContextFits, Settled
  <2> QED
    BY <2>1, <2>2
<1> QED
  BY <1>1, V1Always, PTL

\* In a transient state no action can be dispatched, nor is one offered.
LEMMA NothingOfferedInFlight ==
  V1Inv /\ pending => SupportedActions = {} /\ \A a \in Actions : ~Dispatchable(a)
<1> SUFFICES ASSUME V1Inv, pending
             PROVE  SupportedActions = {} /\ \A a \in Actions : ~Dispatchable(a)
  OBVIOUS
<1>1. lifecycleState \notin Settled
  BY DEF V1Inv, InCharge, ActiveNamed, Transient, Actions, Settled
<1> QED
  BY <1>1 DEF SupportedActions, Dispatchable, Settled

(***************************************************************************)
(* nodeStatus() offers exactly what nodeAction() would dispatch, though the*)
(* two rules are written apart and read a context and listeners that       *)
(* workers change outside lifecycleMutex (cpp 643-659, 872-921).           *)
(***************************************************************************)
THEOREM OffersAreHonest ==
  ASSUME LegacyCallers = {}
  PROVE  Spec => []SupportedActionsAreHonest
<1>1. V1Inv => SupportedActionsAreHonest
  <2> SUFFICES ASSUME V1Inv PROVE SupportedActions = {a \in Actions : Dispatchable(a)}
    BY DEF SupportedActionsAreHonest
  <2>1. CASE pending
    BY <2>1, NothingOfferedInFlight
  <2>2. CASE ~pending
    <3>1. /\ lifecycleState \in {"uninitialized", "stopped", "running"}
          /\ lifecycleState = "uninitialized" <=> ~deliveryCtx
      BY <2>2 DEF V1Inv, InCharge, ContextFits, Settled
    <3> QED
      BY <3>1 DEF SupportedActions, Dispatchable, Actions
  <2> QED
    BY <2>1, <2>2
<1> QED
  BY <1>1, V1Always, PTL

(***************************************************************************)
(* A host that follows supported_actions is never stranded: whatever failed*)
(* the node comes to rest where it offers an action.  A legacy action that *)
(* supersedes one may restore a state that offers none (cpp 945).          *)
(***************************************************************************)
THEOREM NeverStranded ==
  ASSUME LegacyCallers = {}
  PROVE  Spec => []HostHasAnAction
<1>1. V1Inv => HostHasAnAction
  BY DEF V1Inv, InCharge, ContextFits, Settled, HostHasAnAction, SupportedActions
<1> QED
  BY <1>1, V1Always, PTL

\* A step either takes a new sequence number, or leaves machine and ledger as
\* they are, and the context too unless an operation is in flight.
LEMMA StepKinds ==
  ASSUME LegacyCallers = {}, V1Inv, [Next]_vars
  PROVE  \/ sequence' > sequence /\ UNCHANGED snapshot
         \/ /\ UNCHANGED <<machine, sequence, ledger>>
            /\ snapshot' \in {snapshot, View}
            /\ UNCHANGED context \/ pending
<1>1. sequence \in Nat
  BY DEF V1Inv, LedgerInv, Typed
<1>2. ASSUME NEW o \in OperationIds, NEW r \in HostRequests, NodeAction(o, r)
      PROVE  \/ sequence' > sequence /\ UNCHANGED snapshot
             \/ UNCHANGED vars
  BY <1>1, <1>2
     DEF NodeAction, Resubmit, Reject, NoOp, Accept, SettleWithoutDispatch, Dispatch, host
<1>3. ASSUME NEW d \in calls, Worker(d) \/ CreateAnswers(d)
      PROVE  UNCHANGED <<machine, sequence, ledger, snapshot>> /\ pending
  <2>1. d.stage \notin {"calling", "done"} /\ UNCHANGED <<machine, sequence, ledger, snapshot>>
    BY <1>3 DEF Worker, Launch, LaunchFails, LockCreateNode, CreateRefused, DispatchCreate,
                CreateTimesOut, RegisterListeners, RemoveListeners, DestroyContext, CreateAnswers,
                host
  <2> QED
    BY <2>1, SoleActor DEF Current
<1>4. ASSUME NEW d \in calls, Call(d)
      PROVE  UNCHANGED <<machine, sequence, ledger, context, snapshot>>
  BY <1>4 DEF Call, Invoke, Return, ReturnError, host
<1>5. ASSUME NEW s \in settling, SettleLive(s)
      PROVE  sequence' > sequence /\ UNCHANGED snapshot
  BY <1>1, <1>5 DEF SettleLive, host
<1>6. ASSUME NEW s \in settling, DropStale(s)
      PROVE  UNCHANGED <<machine, sequence, ledger, context, snapshot>>
  BY <1>6 DEF DropStale, host
<1>7. ASSUME NEW cb \in callbacks, NEW ok \in BOOLEAN, Callback(cb, ok)
      PROVE  UNCHANGED <<machine, sequence, ledger, context, snapshot>>
  BY <1>7 DEF Callback, host
<1>8. NodeStatus => snapshot' = View /\ UNCHANGED <<machine, sequence, ledger, context>>
  BY DEF NodeStatus
<1>9. UNCHANGED vars => UNCHANGED <<machine, sequence, ledger, context, snapshot>>
  BY DEF vars, host
<1> QED
  BY <1>2, <1>3, <1>4, <1>5, <1>6, <1>7, <1>8, <1>9 DEF Next, Host, Module, Ffi

SnapshotInv == snapshot.sequence <= sequence /\ SnapshotIsVersioned

(***************************************************************************)
(* epoch and sequence identify a snapshot, whoever changes the context in  *)
(* the meantime: a request that names them is carried out in the state the *)
(* host saw or is refused as stale (cpp 643-671, 863-871).                 *)
(***************************************************************************)
THEOREM SnapshotsIdentify ==
  ASSUME LegacyCallers = {}
  PROVE  Spec => []SnapshotIsVersioned
<1>1. View.epoch = epoch /\ View.sequence = sequence
  BY DEF View
<1>2. Init => V1Inv /\ SnapshotInv
  <2> SUFFICES ASSUME Init PROVE V1Inv /\ SnapshotInv
    OBVIOUS
  <2>1. V1Inv
    BY InitLedger, InitInCharge DEF V1Inv
  <2>2. snapshot = View /\ sequence = 0
    BY DEF Init
  <2> QED
    BY <1>1, <2>1, <2>2 DEF SnapshotInv, SnapshotIsVersioned
<1>3. V1Inv /\ SnapshotInv /\ [Next]_vars => V1Inv' /\ SnapshotInv'
  <2> SUFFICES ASSUME V1Inv, SnapshotInv, [Next]_vars PROVE V1Inv' /\ SnapshotInv'
    OBVIOUS
  <2>1. V1Inv'
    BY NextInCharge
  <2>2. /\ sequence \in Nat /\ sequence' \in Nat
        /\ snapshot.sequence \in Nat
    BY <2>1 DEF V1Inv, LedgerInv, Typed, SnapshotType, SnapshotIds
  <2>3. CASE sequence' > sequence /\ UNCHANGED snapshot
    BY <2>1, <2>2, <2>3 DEF SnapshotInv, SnapshotIsVersioned
  <2>4. CASE /\ UNCHANGED <<machine, sequence, ledger>>
             /\ snapshot' \in {snapshot, View}
             /\ UNCHANGED context \/ pending
    <3>1. UNCHANGED <<lifecycleState, epoch, sequence, error, pending, active, operations,
                      completed>>
      BY <2>4 DEF machine, ledger
    <3>2. SupportedActions' = SupportedActions
      <4>1. CASE UNCHANGED context
        BY <3>1, <4>1 DEF SupportedActions, context
      <4>2. CASE pending
        <5>1. lifecycleState \notin {"uninitialized", "stopped", "running"}
          BY <4>2 DEF V1Inv, InCharge, ActiveNamed, Transient, Actions
        <5> QED
          BY <3>1, <5>1 DEF SupportedActions
      <4> QED
        BY <2>4, <4>1, <4>2
    <3>3. View' = View
      BY <3>1, <3>2 DEF View
    <3> QED
      BY <1>1, <2>1, <2>2, <2>4, <3>1, <3>3 DEF SnapshotInv, SnapshotIsVersioned
  <2> QED
    BY <2>3, <2>4, StepKinds
<1>4. SnapshotInv => SnapshotIsVersioned
  BY DEF SnapshotInv
<1> QED
  BY <1>2, <1>3, <1>4, PTL DEF Spec

-----------------------------------------------------------------------------
(***************************************************************************)
(* The refinement.                                                         *)
(***************************************************************************)
\* What Contract's variables are in NodeLifecycle.
NodeSeen ==
  IF pending /\ active.op \in DOMAIN operations THEN operations[active.op].previous
                                                ELSE lifecycleState
InFlightSeen == IF pending THEN {<<active.op, active.action>>} ELSE {}
OutcomeSeen ==
  [o \in OperationIds |-> IF o \in DOMAIN operations THEN operations[o].outcome ELSE "unknown"]

\* Retiring o tells its outcome, and forgets one settled id or none.
LEMMA RetireDecides ==
  ASSUME LedgerInv, NEW o \in OperationIds, NEW ops, DOMAIN ops = DOMAIN operations \cup {o},
         \A x \in DOMAIN operations : x # o => ops[x] = operations[x],
         ops[o].outcome # "pending", \A i \in 1 .. Len(completed) : completed[i] # o,
         Retire(ops, o)
  PROVE  Contract!Decide(o, ops[o].outcome)
<1> DEFINE queue == Append(completed, o)
           Told(old) ==
             [x \in OperationIds |->
                IF x = o THEN ops[o].outcome
                ELSE IF x = old /\ OutcomeSeen[x] # "pending" THEN "unknown" ELSE OutcomeSeen[x]]
<1>1. /\ completed \in Seq(OperationIds) /\ Len(completed) \in Nat
      /\ queue \in Seq(OperationIds) /\ Len(queue) = Len(completed) + 1
      /\ DOMAIN ops \subseteq OperationIds
  BY DEF LedgerInv, Typed, LedgerType
<1>2. ASSUME NEW old \in OperationIds, OutcomeSeen' = Told(old)
      PROVE  Contract!Decide(o, ops[o].outcome)
  BY <1>2 DEF Contract!Decide, OutcomeSeen
<1>3. CASE Len(queue) > MaxCompleted
  <2> DEFINE old == Head(queue)
  <2>1. old = completed[1] /\ old \in OperationIds /\ old # o
    BY <1>1, <1>3, LifecycleAssumption
  <2>2. operations' = [x \in {y \in DOMAIN ops : y = old => ops[y].outcome = "pending"} |-> ops[x]]
    BY <1>3 DEF Retire
  <2> HIDE DEF old
  <2>3. OutcomeSeen' = Told(old)
    <3>1. ASSUME NEW x \in OperationIds
          PROVE  (IF x \in DOMAIN operations' THEN operations'[x].outcome ELSE "unknown")
                   = Told(old)[x]
      <4>1. CASE x = o
        BY <2>1, <2>2, <4>1
      <4>2. CASE x # o /\ x \in DOMAIN operations
        <5>1. ops[x].outcome = OutcomeSeen[x] /\ x \in DOMAIN ops
          BY <4>2 DEF OutcomeSeen
        <5> QED
          BY <2>2, <4>2, <5>1
      <4>3. CASE x # o /\ x \notin DOMAIN operations
        BY <2>2, <4>3 DEF OutcomeSeen
      <4> QED
        BY <4>1, <4>2, <4>3
    <3> QED
      BY <3>1 DEF OutcomeSeen
  <2> QED
    BY <1>2, <2>1, <2>3
<1>4. CASE ~(Len(queue) > MaxCompleted)
  <2>1. operations' = [x \in {y \in DOMAIN ops : y \in {} => ops[y].outcome = "pending"} |-> ops[x]]
    BY <1>4 DEF Retire
  <2>2. DOMAIN operations' = DOMAIN ops /\ \A x \in DOMAIN ops : operations'[x] = ops[x]
    BY <2>1
  <2>3. OutcomeSeen' = Told(o)
    <3>1. ASSUME NEW x \in OperationIds
          PROVE  (IF x \in DOMAIN operations' THEN operations'[x].outcome ELSE "unknown")
                   = Told(o)[x]
      BY <2>2 DEF OutcomeSeen
    <3> QED
      BY <3>1 DEF OutcomeSeen
  <2> QED
    BY <1>2, <2>3
<1> QED
  BY <1>3, <1>4

\* A request answered on the spot decides its id and moves nothing else.
LEMMA AnswerOnTheSpotMaps ==
  ASSUME V1Inv, NEW o \in OperationIds \ DOMAIN operations, NEW r \in Requests,
         NEW outcome \in {"rejected", "no_op"}, NEW steps \in Nat,
         SettleWithoutDispatch(o, r, outcome, steps)
  PROVE  /\ Contract!Decide(o, outcome)
         /\ UNCHANGED <<NodeSeen, InFlightSeen>>
         /\ OutcomeSeen[o] = "unknown"
<1> DEFINE entry == [request |-> r, previous |-> lifecycleState, outcome |-> outcome]
<1>1. Retire(Record(o, entry), o) /\ UNCHANGED <<lifecycleState, pending, active>>
  BY DEF SettleWithoutDispatch, machine
<1>2. /\ DOMAIN Record(o, entry) = DOMAIN operations \cup {o}
      /\ Record(o, entry)[o].outcome = outcome
      /\ \A x \in DOMAIN operations : x # o => Record(o, entry)[x] = operations[x]
  BY DEF Record
<1>3. \A i \in 1 .. Len(completed) : completed[i] # o
  BY DEF V1Inv, LedgerInv, Tidy
<1>4. Contract!Decide(o, outcome)
  <2> HIDE DEF entry
  <2> QED
    BY <1>1, <1>2, <1>3, RetireDecides DEF V1Inv
<1>5. NodeSeen' = NodeSeen
  <2>1. CASE pending
    <3>1. active.op \in DOMAIN operations /\ operations[active.op].outcome = "pending"
      BY <2>1, LifecycleAssumption DEF V1Inv, LedgerInv, OpenIsActive, InCharge, ActiveNamed
    <3>2. active.op \in DOMAIN operations' /\ operations'[active.op] = operations[active.op]
      BY <3>1, SettleWithoutDispatchTidies DEF V1Inv, Outcomes
    <3> QED
      BY <1>1, <2>1, <3>1, <3>2 DEF NodeSeen
  <2>2. CASE ~pending
    BY <1>1, <2>2 DEF NodeSeen
  <2> QED
    BY <2>1, <2>2
<1> QED
  BY <1>1, <1>4, <1>5 DEF InFlightSeen, OutcomeSeen

LEMMA NodeActionMaps ==
  ASSUME V1Inv, NEW o \in OperationIds, NEW r \in HostRequests, NodeAction(o, r)
  PROVE  Contract!Next \/ UNCHANGED Contract!vars
<1>1. r \in Requests /\ r.action \in Actions /\ r.action \in DOMAIN Contract!Target
  BY HostRequestsTyped DEF V1Inv, LedgerInv, Typed, Requests, Actions, Contract!Target
<1>2. CASE Resubmit(o, r)
  BY <1>2 DEF Resubmit, vars, machine, ledger, Contract!vars
<1>3. CASE Reject(o, r)
  <2>1. Contract!Refuse(o)
    BY <1>1, <1>3, AnswerOnTheSpotMaps
       DEF Reject, Contract!Refuse, NodeSeen, InFlightSeen, OutcomeSeen
  <2> QED
    BY <2>1 DEF Contract!Next
<1>4. CASE NoOp(o, r)
  <2>1. /\ ~pending /\ NodeSeen = Contract!Target[r.action] /\ r.action # "initialize"
    BY <1>4, SourceAndTarget DEF NoOp, AlreadyThere, NodeSeen
  <2>2. Contract!NoOp(o, r.action)
    BY <1>1, <1>4, <2>1, AnswerOnTheSpotMaps
       DEF NoOp, Contract!NoOp, NodeSeen, InFlightSeen, OutcomeSeen
  <2> QED
    BY <1>1, <2>2 DEF Contract!Next
<1>5. CASE Accept(o, r)
  <2> DEFINE entry == [request |-> r, previous |-> lifecycleState, outcome |-> "pending"]
  <2>1. /\ o \notin DOMAIN operations /\ ~pending /\ Dispatchable(r.action)
        /\ operations' = Record(o, entry)
        /\ pending' /\ active' = [op |-> o, action |-> r.action, gen |-> generation + 1]
    BY <1>5 DEF Accept, Dispatch
  <2>2. lifecycleState = Contract!Source[r.action]
    BY <1>1, <2>1, SourceAndTarget DEF Dispatchable
  <2>3. /\ DOMAIN operations' = DOMAIN operations \cup {o}
        /\ operations'[o].previous = lifecycleState /\ operations'[o].outcome = "pending"
        /\ \A x \in DOMAIN operations : operations'[x] = operations[x]
    BY <2>1 DEF Record
  <2>4. /\ NodeSeen = lifecycleState /\ NodeSeen' = lifecycleState
        /\ InFlightSeen = {} /\ InFlightSeen' = {<<o, r.action>>}
    BY <2>1, <2>3 DEF NodeSeen, InFlightSeen
  <2>5. OutcomeSeen[o] = "unknown" /\ OutcomeSeen' = [OutcomeSeen EXCEPT ![o] = "pending"]
    BY <2>1, <2>3 DEF OutcomeSeen
  <2>6. Contract!Accept(o, r.action)
    BY <2>2, <2>4, <2>5 DEF Contract!Accept, NodeSeen, InFlightSeen, OutcomeSeen
  <2> QED
    BY <1>1, <2>6 DEF Contract!Next
<1> QED
  BY <1>2, <1>3, <1>4, <1>5 DEF NodeAction

LEMMA SettleMaps ==
  ASSUME V1Inv, NEW s \in settling, SettleLive(s)
  PROVE  Contract!Next
<1> PICK o \in OperationIds, a \in Actions : active.op = o /\ active.action = a
  BY DEF SettleLive, Live, V1Inv, InCharge, ActiveNamed
<1> DEFINE outcome == IF s.ok THEN "succeeded" ELSE "failed"
           ops == [operations EXCEPT ![o].outcome = outcome]
<1>1. /\ pending /\ s.op = o /\ s.action = a
      /\ lifecycleState' = s.goal /\ ~pending'
      /\ Conclude(o, outcome)
  BY DEF SettleLive, Live, V1Inv, LedgerInv, Numbered, SameNumberSameOperation
<1>2. /\ o \in DOMAIN operations /\ operations[o].outcome = "pending"
      /\ operations[o].request.action = a
  BY <1>1, LifecycleAssumption DEF V1Inv, LedgerInv, OpenIsActive
<1>3. operations[o].previous = Contract!Source[a]
  BY <1>2 DEF V1Inv, InCharge, SourceKept
<1>4. /\ s.ok => s.goal = Contract!Target[a]
      /\ ~s.ok => s.goal = Contract!Source[a] \/ (a = "initialize" /\ s.goal = "stopped")
  BY <1>1 DEF SettleLive, Live, V1Inv, InCharge, JobsFit, Current
<1>5. Contract!Decide(o, outcome)
  <2>1. Retire(ops, o)
    BY <1>1, <1>2 DEF Conclude
  <2>2. /\ DOMAIN ops = DOMAIN operations \cup {o}
        /\ ops[o].outcome = outcome /\ outcome # "pending"
        /\ \A x \in DOMAIN operations : x # o => ops[x] = operations[x]
    BY <1>2 DEF V1Inv, LedgerInv, Typed, LedgerType, Entries
  <2>3. \A i \in 1 .. Len(completed) : completed[i] # o
    BY <1>1, <1>2 DEF V1Inv, LedgerInv, Tidy
  <2> HIDE DEF ops, outcome
  <2> QED
    BY <1>1, <2>1, <2>2, <2>3, RetireDecides DEF V1Inv
<1>6. /\ NodeSeen = Contract!Source[a] /\ NodeSeen' = s.goal
      /\ InFlightSeen = {<<o, a>>} /\ InFlightSeen' = {}
  BY <1>1, <1>2, <1>3 DEF NodeSeen, InFlightSeen
<1>7. a \in DOMAIN Contract!Target
  BY DEF Contract!Target, Actions
<1>8. CASE s.ok
  <2>1. Contract!Succeed(o, a)
    BY <1>4, <1>5, <1>6, <1>8 DEF Contract!Succeed, NodeSeen, InFlightSeen
  <2> QED
    BY <1>1, <1>7, <2>1 DEF Contract!Next
<1>9. CASE ~s.ok
  <2>1. Contract!Fail(o, a)
    BY <1>4, <1>5, <1>6, <1>9 DEF Contract!Fail, NodeSeen, InFlightSeen
  <2> QED
    BY <1>1, <1>7, <2>1 DEF Contract!Next
<1> QED
  BY <1>8, <1>9

LEMMA InitMaps == Init => Contract!Init
BY DEF Init, Contract!Init

LEMMA StepMaps ==
  ASSUME LegacyCallers = {}, V1Inv, [Next]_vars
  PROVE  [Contract!Next]_(Contract!vars)
<1>1. ASSUME UNCHANGED <<machine, ledger>> PROVE UNCHANGED Contract!vars
  BY <1>1 DEF machine, ledger, Contract!vars
<1>2. CASE Host
  BY <1>1, <1>2, NodeActionMaps DEF Host, NodeStatus
<1>3. CASE Module
  <2>1. ASSUME NEW d \in calls, Worker(d) \/ Call(d) PROVE UNCHANGED <<machine, ledger>>
    BY <2>1
       DEF Worker, Call, Launch, LaunchFails, LockCreateNode, CreateRefused, DispatchCreate,
           CreateTimesOut, RegisterListeners, RemoveListeners, DestroyContext, Invoke, Return,
           ReturnError
  <2>2. ASSUME NEW s \in settling, DropStale(s) PROVE UNCHANGED <<machine, ledger>>
    BY <2>2 DEF DropStale
  <2> QED
    BY <1>1, <1>3, <2>1, <2>2, SettleMaps DEF Module
<1>4. CASE Ffi
  BY <1>1, <1>4 DEF Ffi, CreateAnswers, Callback
<1>5. CASE UNCHANGED vars
  BY <1>1, <1>5 DEF vars
<1> QED
  BY <1>2, <1>3, <1>4, <1>5 DEF Next

(***************************************************************************)
(* The lifecycle keeps the V1 contract: seen through nodeAction and its    *)
(* events it moves between three states one operation at a time, from the  *)
(* state the contract names to the state it names, decides each id once    *)
(* and forgets decided ids only, for any number of ids, any capacity of    *)
(* the completed deque and any interleaving of workers and callbacks.      *)
(***************************************************************************)
THEOREM ImplementsContract ==
  ASSUME LegacyCallers = {}
  PROVE  Spec => KeepsContract
<1>1. Init => Contract!Init
  BY InitMaps
<1>2. V1Inv /\ [Next]_vars => [Contract!Next]_(Contract!vars)
  BY StepMaps
<1> QED
  BY <1>1, <1>2, V1Always, PTL DEF Spec, KeepsContract, Contract!Spec
=============================================================================
