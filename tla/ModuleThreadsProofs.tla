------------------------- MODULE ModuleThreadsProofs -------------------------
(***************************************************************************)
(* Theorems about ModuleThreads, for any number of host threads, wrapper   *)
(* calls and operations and any depth of calls from handlers:              *)
(*   - its type invariant;                                                 *)
(*   - every event is emitted once, acceptance before settlement, and those*)
(*     of a worker in the order it built them;                             *)
(*   - the context is alive when start and stop call it, and when a wrapper*)
(*     does that no holder of createNodeMutex came in between;             *)
(*   - no worker the destructor took over outlives the module.             *)
(***************************************************************************)
(* They rest on four invariants, each proved from those before it: FrameInv*)
(* (what a frame of a thread's stack can be about), OperationsInv (which   *)
(* frame or callback has each operation in its charge) with EventsInv,     *)
(* SharedInv (who holds createNodeMutex and what that means for context    *)
(* and listeners), and EndInv (what the destructor leaves behind).         *)
(***************************************************************************)
EXTENDS ModuleThreads, FiniteSetTheorems, FunctionTheorems, SequenceTheorems, TLAPS

WorkerStages == {"locking", "working", "registering", "clearing"}

\* The frame of a worker itself, and not of what its handlers called.
Base(f) == Thread(f) \in Workers /\ f[2] = 0

\* The frame has an operation to dispatch.
InHand(f) == work[f].next = "dispatching" \/ at[f] \in {"dispatching", "joining", "binding"}

-----------------------------------------------------------------------------
(***************************************************************************)
(* A frame by itself: what it has to emit, to follow up and to look after  *)
(* at each step.                                                           *)
(***************************************************************************)
Follows(f) ==
  /\ at[f] = "none" => work[f] = NoWork
  /\ at[f] = "emitting" => out[f] # <<>>
  /\ out[f] # <<>> => at[f] \in {"emitting", "handling"}
  /\ work[f].next = "dispatching" => at[f] \in {"emitting", "handling"}
  /\ work[f].next = "handling" => Thread(f) = Ffi /\ at[f] \in {"settling", "emitting", "handling"}

Tasked(f) ==
  /\ InHand(f) \/ at[f] \in {"calling", "settling"} =>
       work[f].op \in Workers /\ work[f].action \in Actions
  /\ at[f] = "joining" => work[f].action \in WorkerActions
  /\ at[f] \in {"binding", "calling"} => work[f].action \in {"start", "stop"}

AsWorker(f) ==
  /\ at[f] \in WorkerStages \cup {"ended"} => Base(f)
  /\ Base(f) =>
       /\ at[f] \in WorkerStages \cup {"none", "settling", "emitting", "handling", "leaving", "ended"}
       /\ work[f].next = "leaving"
       /\ at[f] \notin {"none", "ended"} => work[f].op = Thread(f) /\ work[f].action \in WorkerActions

Shaped(f) == Follows(f) /\ Tasked(f) /\ AsWorker(f)

\* Operations have numbers that were given out, and one frame to dispatch them.
Numbered ==
  /\ \A f \in Frames : work[f].op <= sequence
  /\ pending = Idle \/ (pending.op \in Workers /\ pending.op <= sequence /\ pending.action \in Actions)
  /\ \A w \in Workers : at[<<w, 0>>] # "none" => w <= sequence

OneHand ==
  /\ \A f, g \in Frames : InHand(f) /\ InHand(g) /\ work[f].op = work[g].op => f = g
  /\ \A f \in Frames : InHand(f) => at[<<work[f].op, 0>>] = "none"

FrameInv ==
  /\ TypeOK
  /\ \A f \in Frames : Shaped(f)
  /\ Numbered
  /\ OneHand

-----------------------------------------------------------------------------
\* A frame that called another, through a handler, waits in the handler.
Stacked ==
  \A t \in Threads, i, j \in 0 .. MaxDepth :
    i < j /\ at[<<t, j>>] # "none" => at[<<t, i>>] = "handling"

-----------------------------------------------------------------------------
(***************************************************************************)
(* Who may settle the active operation.                                    *)
(***************************************************************************)
Announced(o) == \E e \in heard : e.op = o /\ e.phase = "accepted"

\* While the module lives the operation to dispatch, or with a worker, is active.
Active ==
  life = "alive" => \A f \in Frames :
    InHand(f) \/ at[f] \in WorkerStages => pending = [op |-> work[f].op, action |-> work[f].action]

\* It is with one frame, and a launched worker's with nobody else.
OneOwner ==
  /\ \A f, g \in Frames : InHand(f) /\ g # f => work[g].op # work[f].op
  /\ \A w \in Workers, g \in Frames :
       work[g].op = w /\ at[<<w, 0>>] # "none" => g = <<w, 0>> \/ at[g] = "leaving"
  /\ \A w \in Workers : at[<<w, 0>>] # "none" /\ pending.op = w => pending.action \in WorkerActions
  /\ \A f \in Frames : pending # Idle /\ work[f].op = pending.op => work[f].action = pending.action

\* A completion is owed to the active operation only, once it was called for.
OwedToActive ==
  life = "alive" =>
    /\ \A a \in owed : pending.action = a /\ Announced(pending.op)
    /\ \A f \in Frames : InHand(f) \/ (at[f] = "settling" /\ work[f].op = pending.op) => owed = {}

\* Once the destructor has begun the module is not alive.
Closing == \A f \in Frames : at[f] \in DestructorStages => life # "alive"

ChargeInv == Active /\ OneOwner /\ OwedToActive /\ Closing

-----------------------------------------------------------------------------
(***************************************************************************)
(* Announcements.                                                          *)
(***************************************************************************)
Announcements(f) ==
  /\ at[f] \in {"dispatching", "joining", "binding", "calling", "settling"} \cup WorkerStages
       => Announced(work[f].op)
  /\ work[f].next = "dispatching" =>
       IF at[f] = "emitting"
       THEN Len(out[f]) = 1 /\ out[f][1].phase = "accepted" /\ out[f][1].op = work[f].op
       ELSE out[f] = <<>> /\ Announced(work[f].op)
  /\ \A i \in DOMAIN out[f] : out[f][i].phase = "settled" =>
       \/ Announced(out[f][i].op)
       \/ i = 2 /\ out[f][1].phase = "accepted" /\ out[f][1].op = out[f][i].op

-----------------------------------------------------------------------------
(***************************************************************************)
(* createNodeMutex, and the context under it.                              *)
(***************************************************************************)
InMutex(f) ==
  \/ Base(f) /\ at[f] \notin {"none", "locking", "ended"}
  \/ at[f] \in {"releasing", "draining"}

MutexInv ==
  /\ \A f \in Frames : InMutex(f) => createNode = Thread(f)
  /\ \A f \in Frames : at[f] \in {"releasing", "draining"} => Thread(f) \notin Workers

ContextInv ==
  /\ ctx \in dead => \E w \in Workers : at[<<w, 0>>] = "clearing"
  /\ \A w \in Workers : at[<<w, 0>>] = "registering" => ctx = w /\ ctx \notin dead
  /\ \A x \in (dead \cup {ctx}) \ {0} :
       x \in Workers /\ at[<<x, 0>>] \notin {"none", "locking", "working"}
  /\ 0 \notin dead
  /\ \A u \in Users : quiet[u] => createNode = NoThread /\ (use[u] = "tested" => ctx # 0)
  /\ \A f \in Frames : at[f] = "binding" /\ life = "alive" => ctx # 0

-----------------------------------------------------------------------------
(***************************************************************************)
(* The destructor.                                                         *)
(***************************************************************************)
NoneTaken == \A a \in WorkerActions : taken[a] = NoThread

DestructorInv ==
  /\ \A f, g \in Frames : at[f] \in DestructorStages /\ at[g] \in DestructorStages => f = g
  /\ life # "closed" => NoneTaken
  /\ life = "gone" => \A f \in Frames : at[f] \in DestructorStages => at[f] = "draining"
  /\ \A f \in Frames :
       /\ at[f] \in DestructorStages \ {"joining initialize", "joining destroy"} => NoneTaken
       /\ at[f] = "joining destroy" => taken["initialize"] = NoThread

Detached(w) == \E f \in Frames : Thread(f) = w /\ at[f] \in {"joining destroy", "locking module"}

Kept ==
  \A w \in Workers : at[<<w, 0>>] \notin {"none", "ended"} =>
    (\E a \in WorkerActions : slots[a] = w \/ taken[a] = w) \/ Detached(w)

-----------------------------------------------------------------------------
(***************************************************************************)
(* Numbers of events.                                                      *)
(***************************************************************************)
Holds(f, e) == \E i \in DOMAIN out[f] : out[f][i] = e

EventsInv ==
  /\ \A f \in Frames, e \in Events : Holds(f, e) => e.n \in 1 .. sequence /\ e.by = Thread(f)
  /\ \A e \in heard : e.n \in 1 .. sequence
  /\ \A n \in 1 .. sequence : \E e \in Events : e.n = n /\ (e \in heard \/ \E f \in Frames : Holds(f, e))
  /\ \A e, d \in heard : e.n = d.n => e = d
  /\ \A e \in heard, d \in Events, f \in Frames : Holds(f, d) => e.n # d.n
  /\ \A d, e \in Events, f, g \in Frames :
       Holds(f, d) /\ Holds(g, e) /\ d.n = e.n => f = g /\ d = e
  /\ \A f \in Frames : Len(out[f]) <= 2 /\ (Len(out[f]) = 2 => out[f][1].n < out[f][2].n)

\* A worker settles with nothing left to emit before; what its handlers' calls
\* emit is about other operations.
NestedEvents(f) ==
  Thread(f) \in Workers /\ out[f] # <<>> =>
    IF Base(f) THEN Len(out[f]) = 1 /\ at[f] = "emitting"
    ELSE \A i \in DOMAIN out[f] : out[f][i].op # Thread(f)

InOrder ==
  \A e \in heard, late \in Events, g \in Frames :
    /\ Holds(g, late) /\ {e.by, Thread(g)} \subseteq Workers
    /\ e.by = Thread(g) => e.by \in {e.op, late.op}
    => e.n < late.n

-----------------------------------------------------------------------------
LEMMA FrameFacts ==
  /\ \A f \in Frames : f = <<f[1], f[2]>> /\ Thread(f) \in Threads /\ f[2] \in 0 .. MaxDepth
  /\ \A t \in Threads : <<t, 0>> \in Frames /\ Thread(<<t, 0>>) = t /\ <<t, 0>>[2] = 0
  /\ \A f \in Frames : Above(f) # f /\ Thread(Above(f)) = Thread(f) /\ ~Base(Above(f))
  /\ \A w \in Workers : w \in Nat /\ w # 0 /\ w \in Threads /\ Base(<<w, 0>>)
  /\ \A f \in Frames : Base(f) => f = <<Thread(f), 0>>
  /\ Ffi \in Threads /\ Ffi \notin Workers
  /\ \A h \in Hosts : h \in Threads /\ h \notin Workers
  /\ NoThread \notin Threads
<1>1. Workers \subseteq Nat \ {0}
  BY ThreadsAssumption DEF Workers
<1>2. 0 \in 0 .. MaxDepth
  BY ThreadsAssumption
<1>3. /\ Ffi \in Threads /\ Ffi \notin Workers
      /\ \A h \in Hosts : h \in Threads /\ h \notin Workers
      /\ NoThread \notin Threads
  BY <1>1, ThreadsAssumption DEF Threads
<1>4. \A f \in Frames : f = <<f[1], f[2]>> /\ f[1] \in Threads /\ f[2] \in 0 .. MaxDepth
  BY DEF Frames
<1>5. \A f \in Frames : f[2] \in Nat /\ f[2] + 1 # f[2] /\ f[2] + 1 # 0
  BY <1>4, ThreadsAssumption
<1>6. \A t \in Threads : <<t, 0>> \in Frames
  BY <1>2 DEF Frames
<1>7. \A w \in Workers : w \in Threads
  BY DEF Threads
<1> QED
  BY <1>1, <1>3, <1>4, <1>5, <1>6, <1>7 DEF Thread, Above, Base

LEMMA ThreadsInit == Init => FrameInv /\ Stacked /\ ChargeInv
<1> SUFFICES ASSUME Init PROVE FrameInv /\ Stacked /\ ChargeInv
  OBVIOUS
<1>1. TypeOK
  BY ThreadsAssumption DEF Init, TypeOK, Idle, NoWork, Stages
<1>2. \A f \in Frames : Shaped(f) /\ ~InHand(f) /\ at[f] = "none" /\ work[f].op = 0
  BY DEF Init, Shaped, Follows, Tasked, AsWorker, InHand, NoWork, WorkerStages
<1>3. Numbered /\ OneHand
  BY <1>2, FrameFacts DEF Init, Numbered, OneHand, Idle
<1>4. Stacked
  BY DEF Init, Stacked, Frames
<1>5. ChargeInv
  BY <1>2, FrameFacts DEF Init, ChargeInv, Active, OneOwner, OwedToActive, Closing, Idle, WorkerStages,
     DestructorStages
<1> QED
  BY <1>1, <1>2, <1>3, <1>4, <1>5 DEF FrameInv

-----------------------------------------------------------------------------
(***************************************************************************)
(* What the steps do, in the form the proofs use.                          *)
(***************************************************************************)
Works == [op : Nat, action : Actions \cup {"none"}, goal : {"uninitialized", "stopped", "running"},
          next : {"leaving", "dispatching", "handling"}]

Elsewhere == <<context, locks, slotted, life, owed, heard, wrappers>>

\* Frame f now has events to emit, and what to do afterwards.
Undertakes(f, what, events) ==
  /\ at' = [at EXCEPT ![f] = "emitting"]
  /\ work' = [work EXCEPT ![f] = what] /\ what \in Works
  /\ out' = [out EXCEPT ![f] = events] /\ events \in Seq(Events)
  /\ sequence' = sequence + Len(events)

\* A call that changes nothing: it is rejected, or the node is already there.
Answers(f, a) ==
  LET op == sequence + 1
  IN  /\ pending' = pending
      /\ \/ Undertakes(f, NoWork, <<Event(op, op, "rejected", Thread(f))>>)
         \/ Undertakes(f, NoWork, <<Event(op, op, "accepted", Thread(f)),
                                    Event(op + 1, op, "settled", Thread(f))>>)

Accepted(f, a) ==
  LET op == sequence + 1
  IN  /\ Accepts(a) /\ op \in Workers
      /\ pending' = [op |-> op, action |-> a]
      /\ Undertakes(f, [op |-> op, action |-> a, goal |-> state, next |-> "dispatching"],
                    <<Event(op, op, "accepted", Thread(f))>>)

LEMMA EventTyped ==
  ASSUME NEW n \in Nat, NEW op \in Nat, NEW t \in Threads,
         NEW p \in {"accepted", "settled", "rejected"}
  PROVE  /\ Event(n, op, p, t) \in Events /\ Event(n, op, p, t).n = n
         /\ Event(n, op, p, t).op = op /\ Event(n, op, p, t).phase = p /\ Event(n, op, p, t).by = t
  BY DEF Event, Events

LEMMA BeginEffect ==
  ASSUME TypeOK, NEW f \in Frames, NEW a \in Actions, Begin(f, a)
  PROVE  /\ at[f] = "none" /\ UNCHANGED <<state, Elsewhere>>
         /\ Answers(f, a) \/ Accepted(f, a)
<1> DEFINE op == sequence + 1
<1>1. op \in Nat /\ op + 1 \in Nat /\ op \in Workers /\ Thread(f) \in Threads
  BY ThreadsAssumption, FrameFacts DEF TypeOK, Begin, Workers
<1>2. /\ Event(op, op, "rejected", Thread(f)) \in Events
      /\ Event(op, op, "accepted", Thread(f)) \in Events
      /\ Event(op + 1, op, "settled", Thread(f)) \in Events
  BY <1>1, EventTyped
<1>3. NoWork \in Works /\ [op |-> op, action |-> a, goal |-> state, next |-> "dispatching"] \in Works
  BY <1>1 DEF NoWork, Works, TypeOK
<1>4. at[f] = "none" /\ UNCHANGED <<state, Elsewhere>>
  BY DEF Begin, Elsewhere
<1>5. CASE Accepts(a) /\ pending' = [op |-> op, action |-> a]
           /\ Undertake(f, [op |-> op, action |-> a, goal |-> state, next |-> "dispatching"],
                        <<Event(op, op, "accepted", Thread(f))>>)
  BY <1>1, <1>2, <1>3, <1>4, <1>5 DEF Accepted, Undertake, Undertakes, Step
<1>6. CASE UNCHANGED pending /\ Undertake(f, NoWork, <<Event(op, op, "accepted", Thread(f)),
                                                       Event(op + 1, op, "settled", Thread(f))>>)
  BY <1>1, <1>2, <1>3, <1>4, <1>6 DEF Answers, Undertake, Undertakes, Step
<1>7. CASE UNCHANGED pending /\ Undertake(f, NoWork, <<Event(op, op, "rejected", Thread(f))>>)
  BY <1>1, <1>2, <1>3, <1>4, <1>7 DEF Answers, Undertake, Undertakes, Step
<1> QED
  BY <1>5, <1>6, <1>7 DEF Begin

\* The frame settles the active operation, or finds it settled.
Settles(f) ==
  LET op == work[f].op
  IN  /\ pending = [op |-> op, action |-> work[f].action]
      /\ state' = work[f].goal /\ pending' = Idle
      /\ Undertakes(f, work[f], <<Event(sequence + 1, op, "settled", Thread(f))>>)

Proceeds(f) ==
  /\ at' = [at EXCEPT ![f] = work[f].next]
  /\ work' = [work EXCEPT ![f] = [@ EXCEPT !.next = "leaving"]]
  /\ UNCHANGED <<node, out>>

LEMMA SettleEffect ==
  ASSUME TypeOK, NEW f \in Frames, Settle(f)
  PROVE  /\ at[f] = "settling" /\ Top(f) /\ UNCHANGED Elsewhere
         /\ Settles(f) \/ Proceeds(f)
<1>1. /\ at[f] = "settling" /\ Top(f) /\ UNCHANGED Elsewhere
  BY DEF Settle, Runs, Elsewhere
<1>2. CASE pending = [op |-> work[f].op, action |-> work[f].action]
  <2>1. sequence + 1 \in Nat /\ work[f].op \in Nat /\ Thread(f) \in Threads /\ work[f] \in Works
    BY FrameFacts DEF TypeOK, Works
  <2>2. Event(sequence + 1, work[f].op, "settled", Thread(f)) \in Events
    BY <2>1, EventTyped
  <2>3. work' = [work EXCEPT ![f] = work[f]]
    BY <1>2 DEF Settle, TypeOK
  <2> QED
    BY <1>1, <1>2, <2>2, <2>1, <2>3 DEF Settle, Settles, Undertakes, Step
<1>3. CASE pending # [op |-> work[f].op, action |-> work[f].action]
  BY <1>1, <1>3 DEF Settle, Proceeds, Proceed
<1> QED
  BY <1>2, <1>3

\* The frame goes on to the next step of what it does,
Advances(f, step) == at' = [at EXCEPT ![f] = step] /\ work' = work

\* or to settling what it has come to.
Concludes(f) ==
  /\ at' = [at EXCEPT ![f] = "settling"]
  /\ \E goal \in {"uninitialized", "stopped", "running"} :
       work' = [work EXCEPT ![f] = [@ EXCEPT !.goal = goal, !.next = "leaving"]]

DispatchWalks(f) ==
  \/ at[f] = "dispatching" /\ work[f].action \in WorkerActions /\ Advances(f, "joining")
  \/ at[f] = "dispatching" /\ work[f].action \in {"start", "stop"} /\ Advances(f, "binding")
  \/ at[f] = "binding" /\ Advances(f, "calling")
  \/ at[f] = "calling" /\ Advances(f, "leaving")
  \/ at[f] \in {"dispatching", "calling"} /\ Concludes(f)

WorkerWalks(f) ==
  \/ at[f] = "locking" /\ Advances(f, "working")
  \/ at[f] = "working" /\ (Advances(f, "registering") \/ Advances(f, "clearing"))
  \/ at[f] = "registering" /\ Advances(f, "clearing")
  \/ at[f] \in {"working", "registering", "clearing"} /\ Concludes(f)

DestructorWalks(f) ==
  \/ at[f] = "resetting" /\ Advances(f, "taking")
  \/ at[f] = "taking" /\ Advances(f, "joining initialize")
  \/ at[f] = "joining initialize" /\ Advances(f, "joining destroy")
  \/ at[f] = "joining destroy" /\ Advances(f, "locking module")
  \/ at[f] = "locking module" /\ Advances(f, "releasing")
  \/ at[f] = "releasing" /\ Advances(f, "draining")

Dispatcher(f) == LaunchOnItself(f) \/ LaunchLocks(f) \/ Test(f) \/ Bind(f) \/ CallReturns(f)
Worker(f) == LockCreateNode(f) \/ Create(f) \/ Register(f) \/ Destroy(f) \/ Clear(f)
Destructor(f) == ResetLifecycle(f) \/ TakeWorkers(f) \/ JoinTaken(f) \/ LockModule(f) \/ ReleaseContext(f)

LEMMA ToSettleConcludes ==
  ASSUME NEW f \in Frames, NEW goal \in {"uninitialized", "stopped", "running"}, ToSettle(f, goal),
         work \in [Frames -> Works]
  PROVE  Concludes(f)
<1>1. work' = [work EXCEPT ![f] = [@ EXCEPT !.goal = goal, !.next = "leaving"]]
  BY DEF ToSettle, Works
<1> QED
  BY <1>1 DEF ToSettle, Step, Concludes

LEMMA DispatcherEffect ==
  ASSUME TypeOK, NEW f \in Frames, Dispatcher(f)
  PROVE  /\ DispatchWalks(f) /\ Top(f)
         /\ UNCHANGED <<out, node, life, heard, context, createNode, slotted, wrappers>>
<1>1. work \in [Frames -> Works] /\ work[f].goal \in {"uninitialized", "stopped", "running"}
  BY DEF TypeOK, Works
<1>2. /\ Top(f) /\ UNCHANGED <<out, node, life, heard, context, createNode, slotted, wrappers>>
  BY DEF Dispatcher, LaunchOnItself, LaunchLocks, Test, Bind, CallReturns, Runs, locks
<1>3. CASE LaunchOnItself(f)
  BY <1>1, <1>2, <1>3, ToSettleConcludes DEF LaunchOnItself, Runs, DispatchWalks
<1>4. CASE LaunchLocks(f)
  BY <1>2, <1>4 DEF LaunchLocks, Runs, Step, DispatchWalks, Advances
<1>5. CASE Test(f)
  BY <1>1, <1>2, <1>5, ToSettleConcludes DEF Test, Runs, Step, DispatchWalks, Advances
<1>6. CASE Bind(f)
  BY <1>2, <1>6 DEF Bind, Runs, Step, DispatchWalks, Advances
<1>7. CASE CallReturns(f)
  BY <1>1, <1>2, <1>7, ToSettleConcludes DEF CallReturns, Runs, Step, DispatchWalks, Advances
<1> QED
  BY <1>2, <1>3, <1>4, <1>5, <1>6, <1>7 DEF Dispatcher

LEMMA WorkerEffect ==
  ASSUME TypeOK, NEW f \in Frames, Worker(f)
  PROVE  /\ WorkerWalks(f) /\ Top(f)
         /\ UNCHANGED <<out, node, life, heard, owed, workerMutex, slotted, use>>
<1>1. work \in [Frames -> Works] /\ work[f].goal \in {"uninitialized", "stopped", "running"}
  BY DEF TypeOK, Works
<1>2. /\ Top(f) /\ UNCHANGED <<out, node, life, heard, owed, workerMutex, slotted, use>>
  BY DEF Worker, LockCreateNode, Create, Register, Destroy, Clear, Runs, locks, wrappers
<1>3. CASE LockCreateNode(f)
  BY <1>2, <1>3 DEF LockCreateNode, Runs, Step, WorkerWalks, Advances
<1>4. CASE Create(f)
  BY <1>1, <1>2, <1>4, ToSettleConcludes DEF Create, Runs, Step, WorkerWalks, Advances
<1>5. CASE Register(f)
  BY <1>1, <1>2, <1>5, ToSettleConcludes DEF Register, Runs, Step, WorkerWalks, Advances
<1>6. CASE Destroy(f)
  BY <1>1, <1>2, <1>6, ToSettleConcludes DEF Destroy, Runs, Step, WorkerWalks, Advances
<1>7. CASE Clear(f)
  BY <1>1, <1>2, <1>7, ToSettleConcludes DEF Clear, Runs, Step, WorkerWalks, Advances
<1> QED
  BY <1>2, <1>3, <1>4, <1>5, <1>6, <1>7 DEF Worker

LEMMA DestructorEffect ==
  ASSUME NEW f \in Frames, Destructor(f)
  PROVE  /\ DestructorWalks(f) /\ Top(f) /\ life # "gone"
         /\ UNCHANGED <<out, sequence, life, heard, owed, workerMutex, use>>
         /\ pending' \in {pending, Idle}
<1>1. /\ Top(f) /\ life # "gone"
      /\ UNCHANGED <<out, sequence, life, heard, owed, workerMutex, use>>
      /\ pending' \in {pending, Idle}
  BY DEF Destructor, ResetLifecycle, TakeWorkers, JoinTaken, LockModule, ReleaseContext, Runs, node,
         locks, wrappers, frames
<1>2. CASE ResetLifecycle(f) \/ TakeWorkers(f) \/ LockModule(f) \/ ReleaseContext(f)
  BY <1>1, <1>2 DEF ResetLifecycle, TakeWorkers, LockModule, ReleaseContext, Runs, Step,
     DestructorWalks, Advances
<1>3. CASE JoinTaken(f)
  <2>1. PICK a \in WorkerActions :
          /\ Runs(f, IF a = "initialize" THEN "joining initialize" ELSE "joining destroy")
          /\ Step(f, IF a = "initialize" THEN "joining destroy" ELSE "locking module")
          /\ work' = work
    BY <1>3 DEF JoinTaken
  <2> QED
    BY <1>1, <2>1 DEF Runs, Step, DestructorWalks, Advances
<1> QED
  BY <1>1, <1>2, <1>3 DEF Destructor

\* A new worker has the operation from here on.
Launches(f) ==
  /\ at' = [at EXCEPT ![f] = "leaving", ![<<work[f].op, 0>>] = "locking"]
  /\ work' = [work EXCEPT ![<<work[f].op, 0>>] = work[f]]

LEMMA LaunchEffect ==
  ASSUME TypeOK, NEW f \in Frames, Launch(f)
  PROVE  /\ at[f] = "joining" /\ Top(f) /\ (Launches(f) \/ Concludes(f))
         /\ UNCHANGED <<out, node, context, createNode, taken, life, owed, heard, wrappers>>
<1>1. work \in [Frames -> Works] /\ work[f].goal \in {"uninitialized", "stopped", "running"}
  BY DEF TypeOK, Works
<1>2. ToSettle(f, work[f].goal) => Concludes(f)
  BY <1>1, ToSettleConcludes
<1> QED
  BY <1>2 DEF Launch, Runs, Launches

\* A host thread, or a handler on any thread, enters the module.
Entered(f) ==
  \/ f[2] = 0 /\ Thread(f) \in Hosts
  \/ \E g \in Frames : f = Above(g) /\ at[g] = "handling" /\ Top(g)

LEMMA NextCases ==
  ASSUME Next
  PROVE  \/ \E f \in Frames, a \in Actions : Begin(f, a) /\ life = "alive" /\ Entered(f)
         \/ \E f \in Frames : CloseIn(f) /\ Entered(f)
         \/ \E f \in Frames : \/ Emit(f) \/ HandlerReturns(f) \/ Settle(f) \/ Launch(f) \/ Leave(f)
                              \/ Dispatcher(f) \/ Worker(f) \/ Destructor(f) \/ Vanish(f)
         \/ \E a \in {"start", "stop"} : Completion(a)
         \/ Notification
         \/ \E u \in Users : UserTests(u) \/ UserCalls(u)
<1>1. ASSUME NEW h \in Hosts PROVE <<h, 0>> \in Frames /\ Entered(<<h, 0>>)
  BY FrameFacts DEF Entered
<1>2. ASSUME Host
      PROVE  \/ \E f \in Frames, a \in Actions : Begin(f, a) /\ life = "alive" /\ Entered(f)
             \/ \E f \in Frames : CloseIn(f) /\ Entered(f)
             \/ \E u \in Users : UserTests(u) \/ UserCalls(u)
  <2>1. CASE \E h \in Hosts, a \in Actions : HostCalls(h, a)
    BY <1>1, <2>1 DEF HostCalls
  <2>2. CASE \E h \in Hosts : HostDestroys(h)
    BY <1>1, <2>2 DEF HostDestroys
  <2>3. CASE \E f \in Frames, a \in Actions : HandlerCalls(f, a)
    BY <2>3 DEF HandlerCalls, Runs, Entered
  <2>4. CASE \E f \in Frames : HandlerDestroys(f)
    BY <2>4 DEF HandlerDestroys, Runs, Entered
  <2> QED
    BY <1>2, <2>1, <2>2, <2>3, <2>4 DEF Host
<1>3. ASSUME NEW f \in Frames, Advance(f)
      PROVE  \/ Emit(f) \/ HandlerReturns(f) \/ Settle(f) \/ Launch(f) \/ Leave(f)
             \/ Dispatcher(f) \/ Worker(f) \/ Destructor(f) \/ Vanish(f)
  BY <1>3 DEF Advance, Dispatcher, Worker, Destructor
<1> QED
  BY <1>2, <1>3 DEF Next

LEMMA EnteredFacts ==
  ASSUME NEW f \in Frames, Entered(f)
  PROVE  ~Base(f) /\ (Thread(f) \in Workers => f[2] # 0)
  BY FrameFacts DEF Entered, Base

-----------------------------------------------------------------------------
(***************************************************************************)
(* Types.                                                                  *)
(***************************************************************************)

FramesTyped ==
  /\ at \in [Frames -> Stages]
  /\ work \in [Frames -> Works]
  /\ out \in [Frames -> Seq(Events)]

OthersTyped ==
  /\ state \in {"uninitialized", "stopped", "running"}
  /\ pending \in [op : Nat, action : Actions \cup {"none"}]
  /\ sequence \in Nat /\ ctx \in Nat /\ dead \subseteq Nat
  /\ createNode \in Threads \cup {NoThread} /\ workerMutex \in Threads \cup {NoThread}
  /\ slots \in [WorkerActions -> Threads \cup {NoThread}]
  /\ taken \in [WorkerActions -> Threads \cup {NoThread}]
  /\ life \in {"alive", "closed", "gone"}
  /\ owed \subseteq {"start", "stop"}
  /\ heard \subseteq Events
  /\ use \in [Users -> {"idle", "tested"}]
  /\ quiet \in [Users -> BOOLEAN]

LEMMA TypedParts == TypeOK <=> FramesTyped /\ OthersTyped
  BY DEF TypeOK, FramesTyped, OthersTyped, Works

LEMMA StageNames ==
  /\ {"none", "emitting", "handling", "dispatching", "joining", "binding", "calling", "settling",
      "leaving", "locking", "working", "registering", "clearing", "ended"} \subseteq Stages
  /\ DestructorStages \subseteq Stages
  BY DEF Stages

LEMMA MovesTyped ==
  ASSUME FramesTyped, NEW f \in Frames
  PROVE  /\ Concludes(f) => at' \in [Frames -> Stages] /\ work' \in [Frames -> Works]
         /\ \A step \in Stages : Advances(f, step) =>
              at' \in [Frames -> Stages] /\ work' \in [Frames -> Works]
<1>1. \A goal \in {"uninitialized", "stopped", "running"} :
        [work[f] EXCEPT !.goal = goal, !.next = "leaving"] \in Works
  BY DEF FramesTyped, Works
<1>2. "settling" \in Stages
  BY StageNames
<1> QED
  BY <1>1, <1>2 DEF FramesTyped, Concludes, Advances

LEMMA FramesTypedStep ==
  ASSUME TypeOK, \A f \in Frames : Follows(f) /\ Tasked(f), Next
  PROVE  FramesTyped'
<1>1. FramesTyped /\ pending.op \in Nat /\ NoWork \in Works
  BY TypedParts DEF OthersTyped, Works, NoWork
<1> USE <1>1, StageNames DEF FramesTyped
<1>2. ASSUME NEW f \in Frames, NEW a \in Actions, Begin(f, a) PROVE FramesTyped'
  <2>1. Answers(f, a) \/ Accepted(f, a)
    BY <1>2, BeginEffect
  <2> QED
    BY <2>1 DEF Answers, Accepted, Undertakes
<1>3. ASSUME NEW f \in Frames, CloseIn(f) PROVE FramesTyped'
  BY <1>3 DEF CloseIn, Step, DestructorStages
<1>4. ASSUME NEW f \in Frames, Emit(f) PROVE FramesTyped'
  <2>1. out[f] \in Seq(Events) /\ out[f] # <<>>
    BY <1>4 DEF Emit, Runs, Follows
  <2>2. Tail(out[f]) \in Seq(Events)
    BY <2>1, HeadTailProperties
  <2> QED
    BY <1>4, <2>2 DEF Emit
<1>5. ASSUME NEW f \in Frames, HandlerReturns(f) PROVE FramesTyped'
  <2>1. work[f] \in Works /\ [work[f] EXCEPT !.next = "leaving"] \in Works /\ work[f].next \in Stages
    BY DEF Works
  <2> QED
    BY <1>5, <2>1 DEF HandlerReturns, Proceed
<1>6. ASSUME NEW f \in Frames, Settle(f) PROVE FramesTyped'
  <2>1. Settles(f) \/ Proceeds(f)
    BY <1>6, SettleEffect
  <2>2. work[f] \in Works /\ [work[f] EXCEPT !.next = "leaving"] \in Works /\ work[f].next \in Stages
    BY DEF Works
  <2> QED
    BY <2>1, <2>2 DEF Settles, Undertakes, Proceeds
<1>7. ASSUME NEW f \in Frames, Launch(f) PROVE FramesTyped'
  <2>1. (Launches(f) \/ Concludes(f)) /\ out' = out
    BY <1>7, LaunchEffect
  <2>2. CASE Launches(f)
    BY <2>1, <2>2 DEF Launches
  <2> QED
    BY <2>1, <2>2, MovesTyped
<1>8. ASSUME NEW f \in Frames, Leave(f) PROVE FramesTyped'
  BY <1>8 DEF Leave, Step
<1>9. ASSUME NEW f \in Frames, Dispatcher(f) PROVE FramesTyped'
  <2>1. DispatchWalks(f) /\ out' = out
    BY <1>9, DispatcherEffect
  <2> QED
    BY <2>1, MovesTyped DEF DispatchWalks
<1>10. ASSUME NEW f \in Frames, Worker(f) PROVE FramesTyped'
  <2>1. WorkerWalks(f) /\ out' = out
    BY <1>10, WorkerEffect
  <2> QED
    BY <2>1, MovesTyped DEF WorkerWalks
<1>11. ASSUME NEW f \in Frames, Destructor(f) PROVE FramesTyped'
  <2>1. DestructorWalks(f) /\ out' = out
    BY <1>11, DestructorEffect
  <2> QED
    BY <2>1 DEF DestructorWalks, Advances, DestructorStages
<1>12. ASSUME NEW a \in {"start", "stop"}, Completion(a) PROVE FramesTyped'
  <2>1. <<Ffi, 0>> \in Frames
    BY FrameFacts
  <2>2. \A goal \in {"running", "stopped"} :
          [op |-> pending.op, action |-> a, next |-> "handling", goal |-> goal] \in Works
    BY DEF Works, Actions
  <2> QED
    BY <1>12, <2>1, <2>2 DEF Completion, Step
<1>13. CASE Notification
  BY <1>13 DEF Notification, Step
<1>14. CASE \/ \E f \in Frames : Vanish(f)
            \/ \E u \in Users : UserTests(u) \/ UserCalls(u)
  BY <1>14 DEF Vanish, UserTests, UserCalls, frames
<1> QED
  BY <1>2, <1>3, <1>4, <1>5, <1>6, <1>7, <1>8, <1>9, <1>10, <1>11, <1>12, <1>13, <1>14, NextCases

LEMMA OthersTypedStep ==
  ASSUME TypeOK, \A f \in Frames : Follows(f) /\ Tasked(f), Next
  PROVE  OthersTyped'
<1>1. OthersTyped /\ FramesTyped
  BY TypedParts
<1>2. /\ \A f \in Frames : Thread(f) \in Threads
      /\ Workers \subseteq Nat /\ Workers \subseteq Threads
  BY FrameFacts
<1> USE <1>1 DEF OthersTyped
<1>3. ASSUME NEW f \in Frames, NEW a \in Actions, Begin(f, a) PROVE OthersTyped'
  <2>1. UNCHANGED <<state, Elsewhere>> /\ (Answers(f, a) \/ Accepted(f, a))
    BY <1>3, BeginEffect
  <2>2. sequence' \in Nat /\ pending' \in [op : Nat, action : Actions \cup {"none"}]
    BY <2>1 DEF Answers, Accepted, Undertakes
  <2> QED
    BY <2>1, <2>2 DEF Elsewhere, context, locks, slotted, wrappers
<1>4. ASSUME NEW f \in Frames, CloseIn(f) PROVE OthersTyped'
  BY <1>4 DEF CloseIn, node, context, locks, slotted, wrappers
<1>5. ASSUME NEW f \in Frames, Emit(f) PROVE OthersTyped'
  <2>1. out[f] \in Seq(Events) /\ out[f] # <<>>
    BY <1>5 DEF Emit, Runs, FramesTyped, Follows
  <2>2. Head(out[f]) \in Events
    BY <2>1, HeadTailProperties
  <2> QED
    BY <1>5, <2>2 DEF Emit, node, context, locks, slotted, wrappers
<1>6. ASSUME NEW f \in Frames, HandlerReturns(f) PROVE OthersTyped'
  BY <1>6 DEF HandlerReturns, node, context, locks, slotted, wrappers
<1>7. ASSUME NEW f \in Frames, Settle(f) PROVE OthersTyped'
  <2>1. UNCHANGED Elsewhere /\ (Settles(f) \/ Proceeds(f))
    BY <1>7, SettleEffect
  <2>2. /\ sequence' \in Nat /\ pending' \in [op : Nat, action : Actions \cup {"none"}]
        /\ state' \in {"uninitialized", "stopped", "running"}
    BY <2>1 DEF Settles, Undertakes, Proceeds, node, Idle, FramesTyped, Works
  <2> QED
    BY <2>1, <2>2 DEF Elsewhere, context, locks, slotted, wrappers
<1>8. ASSUME NEW f \in Frames, Launch(f) PROVE OthersTyped'
  <2>1. /\ at[f] = "joining"
        /\ UNCHANGED <<out, node, context, createNode, taken, life, owed, heard, wrappers>>
    BY <1>8, LaunchEffect
  <2>2. work[f].op \in Threads
    BY <1>2, <2>1 DEF Tasked, InHand
  <2>3. workerMutex' = NoThread /\ slots' \in [WorkerActions -> Threads \cup {NoThread}]
    BY <1>8, <2>2 DEF Launch
  <2> QED
    BY <2>1, <2>3 DEF node, context, wrappers
<1>9. ASSUME NEW f \in Frames, Leave(f) PROVE OthersTyped'
  BY <1>9 DEF Leave, node, context, slotted, wrappers
<1>10. ASSUME NEW f \in Frames, Dispatcher(f) PROVE OthersTyped'
  <2>1. UNCHANGED <<out, node, life, heard, context, createNode, slotted, wrappers>>
    BY <1>10, DispatcherEffect
  <2>2. workerMutex' \in Threads \cup {NoThread} /\ owed' \subseteq {"start", "stop"}
    <3>1. CASE LaunchLocks(f)
      BY <1>2, <3>1 DEF LaunchLocks
    <3>2. CASE Bind(f)
      BY <3>2 DEF Bind, locks, Runs, Tasked
    <3>3. CASE LaunchOnItself(f) \/ Test(f) \/ CallReturns(f)
      BY <3>3 DEF LaunchOnItself, Test, CallReturns, locks
    <3> QED
      BY <1>10, <3>1, <3>2, <3>3 DEF Dispatcher
  <2> QED
    BY <2>1, <2>2 DEF node, context, slotted, wrappers
<1>11. ASSUME NEW f \in Frames, Worker(f) PROVE OthersTyped'
  <2>1. UNCHANGED <<out, node, life, heard, owed, workerMutex, slotted, use>>
    BY <1>11, WorkerEffect
  <2>2. CASE LockCreateNode(f)
    BY <1>2, <2>1, <2>2 DEF LockCreateNode, NobodyQuiet, node, context, slotted
  <2>3. CASE Create(f)
    <3>1. ctx' \in Nat
      BY <2>3 DEF Create, FramesTyped, Works
    <3> QED
      BY <2>1, <2>3, <3>1 DEF Create, node, slotted, locks, wrappers
  <2>4. CASE Register(f) \/ Destroy(f) \/ Clear(f)
    <3>1. ctx' \in Nat /\ dead' \subseteq Nat
      <4>1. CASE Register(f)
        BY <4>1 DEF Register
      <4>2. CASE Destroy(f)
        BY <4>2 DEF Destroy
      <4>3. CASE Clear(f)
        BY <4>3 DEF Clear
      <4> QED
        BY <2>4, <4>1, <4>2, <4>3
    <3> QED
      BY <2>1, <2>4, <3>1 DEF Register, Destroy, Clear, node, slotted, locks, wrappers
  <2> QED
    BY <1>11, <2>2, <2>3, <2>4 DEF Worker
<1>12. ASSUME NEW f \in Frames, Destructor(f) PROVE OthersTyped'
  <2>1. UNCHANGED <<out, sequence, life, heard, owed, workerMutex, use>>
    BY <1>12, DestructorEffect
  <2>2. CASE ResetLifecycle(f)
    BY <2>2 DEF ResetLifecycle, Idle, context, locks, slotted, wrappers
  <2>3. CASE TakeWorkers(f)
    BY <2>3 DEF TakeWorkers, node, context, locks, wrappers
  <2>4. CASE JoinTaken(f)
    BY <2>4 DEF JoinTaken, node, context, locks, wrappers
  <2>5. CASE LockModule(f)
    BY <1>2, <2>5 DEF LockModule, NobodyQuiet, node, context, slotted
  <2>6. CASE ReleaseContext(f)
    BY <2>6 DEF ReleaseContext, node, locks, slotted, wrappers
  <2> QED
    BY <1>12, <2>2, <2>3, <2>4, <2>5, <2>6 DEF Destructor
<1>13. ASSUME NEW f \in Frames, Vanish(f) PROVE OthersTyped'
  BY <1>13 DEF Vanish, node, context, locks, slotted, wrappers
<1>14. ASSUME NEW a \in {"start", "stop"}, Completion(a) PROVE OthersTyped'
  BY <1>14 DEF Completion, node, context, locks, slotted, wrappers
<1>15. CASE Notification
  BY <1>15 DEF Notification, node, context, locks, slotted, wrappers
<1>16. ASSUME NEW u \in Users, UserTests(u) \/ UserCalls(u) PROVE OthersTyped'
  BY <1>16 DEF UserTests, UserCalls, node, context, locks, slotted
<1> QED
  BY <1>3, <1>4, <1>5, <1>6, <1>7, <1>8, <1>9, <1>10, <1>11, <1>12, <1>13, <1>14, <1>15, <1>16, NextCases

-----------------------------------------------------------------------------
(***************************************************************************)
(* The frames.  A step changes its own frame only, but for the launch of a *)
(* worker, which starts that worker's.                                     *)
(***************************************************************************)
Same(g) == at'[g] = at[g] /\ work'[g] = work[g] /\ out'[g] = out[g]

LEMMA OthersShaped ==
  ASSUME NEW f \in Frames, \A g \in Frames : Shaped(g), \A g \in Frames : g # f => Same(g), Shaped(f)'
  PROVE  \A g \in Frames : Shaped(g)'
<1>1. ASSUME NEW g \in Frames, Same(g), Shaped(g) PROVE Shaped(g)'
  BY <1>1 DEF Same, Shaped, Follows, Tasked, AsWorker, InHand, Base
<1> QED
  BY <1>1

\* The value of the functions at the frame that moves, and elsewhere.
LEMMA MoveValues ==
  ASSUME FramesTyped, NEW f \in Frames
  PROVE  /\ \A step : Advances(f, step) =>
              /\ at'[f] = step /\ work'[f] = work[f]
              /\ out' = out => \A g \in Frames : g # f => Same(g)
         /\ Concludes(f) =>
              /\ at'[f] = "settling" /\ work'[f].op = work[f].op /\ work'[f].action = work[f].action
              /\ work'[f].next = "leaving"
              /\ out' = out => \A g \in Frames : g # f => Same(g)
<1>1. CASE Concludes(f)
  <2>1. PICK goal \in {"uninitialized", "stopped", "running"} :
          work' = [work EXCEPT ![f] = [@ EXCEPT !.goal = goal, !.next = "leaving"]]
    BY <1>1 DEF Concludes
  <2>2. work'[f] = [work[f] EXCEPT !.goal = goal, !.next = "leaving"] /\ work[f] \in Works
    BY <2>1 DEF FramesTyped
  <2>3. /\ work'[f].op = work[f].op /\ work'[f].action = work[f].action
        /\ work'[f].next = "leaving"
    BY <2>2 DEF Works
  <2> QED
    BY <1>1, <2>1, <2>3 DEF Concludes, FramesTyped, Same, Advances
<1> QED
  BY <1>1 DEF Advances, FramesTyped, Same

LEMMA WalksShaped ==
  ASSUME FramesTyped, \A g \in Frames : Shaped(g), NEW f \in Frames, out' = out,
         DispatchWalks(f) \/ WorkerWalks(f) \/ DestructorWalks(f)
  PROVE  Shaped(f)' /\ \A g \in Frames : g # f => Same(g)
<1>1. Shaped(f) /\ out'[f] = out[f]
  OBVIOUS
<1>2. \A g \in Frames : g # f => Same(g)
  BY MoveValues DEF DispatchWalks, WorkerWalks, DestructorWalks
<1>3. CASE DispatchWalks(f)
  BY <1>1, <1>2, <1>3, MoveValues
  DEF DispatchWalks, Shaped, Follows, Tasked, AsWorker, InHand, WorkerStages
<1>4. CASE WorkerWalks(f)
  BY <1>1, <1>2, <1>4, MoveValues
  DEF WorkerWalks, Shaped, Follows, Tasked, AsWorker, InHand, WorkerStages, Base, Actions, WorkerActions
<1>5. CASE DestructorWalks(f)
  <2>1. at[f] \in DestructorStages /\ at'[f] \in DestructorStages /\ work'[f] = work[f]
    BY <1>5, MoveValues DEF DestructorWalks, DestructorStages
  <2> QED
    BY <1>1, <1>2, <2>1
    DEF DestructorStages, Shaped, Follows, Tasked, AsWorker, InHand, WorkerStages, Base
<1> QED
  BY <1>2, <1>3, <1>4, <1>5

LEMMA ShapedStep ==
  ASSUME FrameInv, Next
  PROVE  \A g \in Frames : Shaped(g)'
<1>1. /\ TypeOK /\ FramesTyped /\ OthersTyped /\ OneHand
      /\ \A g \in Frames : Shaped(g)
      /\ \A g \in Frames : Follows(g) /\ Tasked(g)
  BY TypedParts DEF FrameInv, Shaped
<1>2. ASSUME NEW f \in Frames, NEW a \in Actions, Begin(f, a), Entered(f)
      PROVE  \A g \in Frames : Shaped(g)'
  <2>1. (Answers(f, a) \/ Accepted(f, a)) /\ ~Base(f)
    BY <1>1, <1>2, BeginEffect, EnteredFacts
  <2>2. \A g \in Frames : g # f => Same(g)
    BY <1>1, <2>1 DEF Answers, Accepted, Undertakes, FramesTyped, Same
  <2>3. CASE Answers(f, a)
    <3>1. at'[f] = "emitting" /\ work'[f] = NoWork /\ out'[f] # <<>>
      <4>1. ASSUME NEW d, NEW e, Undertakes(f, NoWork, <<d>>) \/ Undertakes(f, NoWork, <<d, e>>)
            PROVE  at'[f] = "emitting" /\ work'[f] = NoWork /\ out'[f] # <<>>
        <5>1. /\ at' = [at EXCEPT ![f] = "emitting"] /\ work' = [work EXCEPT ![f] = NoWork]
              /\ \E s : s # <<>> /\ out' = [out EXCEPT ![f] = s]
          BY <4>1 DEF Undertakes
        <5> QED
          BY <1>1, <5>1 DEF FramesTyped
      <4> QED
        BY <2>3, <4>1 DEF Answers
    <3>2. Shaped(f)'
      BY <2>1, <3>1 DEF Shaped, Follows, Tasked, AsWorker, InHand, WorkerStages, NoWork, Base
    <3> QED
      BY <1>1, <2>2, <3>2, OthersShaped
  <2>4. CASE Accepted(f, a)
    <3>1. /\ at'[f] = "emitting" /\ out'[f] # <<>>
          /\ work'[f].op \in Workers /\ work'[f].action = a /\ work'[f].next = "dispatching"
      BY <1>1, <2>4 DEF Accepted, Undertakes, FramesTyped
    <3>2. Shaped(f)'
      BY <2>1, <3>1 DEF Shaped, Follows, Tasked, AsWorker, InHand, WorkerStages, Base
    <3> QED
      BY <1>1, <2>2, <3>2, OthersShaped
  <2> QED
    BY <2>1, <2>3, <2>4
<1>3. ASSUME NEW f \in Frames, CloseIn(f), Entered(f) PROVE \A g \in Frames : Shaped(g)'
  <2>1. /\ at[f] = "none" /\ at' = [at EXCEPT ![f] = "resetting"] /\ UNCHANGED <<work, out>>
        /\ ~Base(f)
    BY <1>3, EnteredFacts DEF CloseIn, Step
  <2>2. at'[f] = "resetting" /\ work'[f] = NoWork /\ out'[f] = <<>>
    BY <1>1, <2>1 DEF FramesTyped, Follows
  <2>3. Shaped(f)'
    BY <2>1, <2>2 DEF Shaped, Follows, Tasked, AsWorker, InHand, WorkerStages, NoWork, Base
  <2>4. \A g \in Frames : g # f => Same(g)
    BY <1>1, <2>1 DEF FramesTyped, Same
  <2> QED
    BY <1>1, <2>3, <2>4, OthersShaped
<1>4. ASSUME NEW f \in Frames, Emit(f) PROVE \A g \in Frames : Shaped(g)'
  <2>1. at[f] = "emitting" /\ at'[f] = "handling" /\ work'[f] = work[f]
    BY <1>1, <1>4 DEF Emit, Runs, FramesTyped
  <2>2. Shaped(f)'
    BY <1>1, <2>1 DEF Shaped, Follows, Tasked, AsWorker, InHand, WorkerStages, Base
  <2>3. \A g \in Frames : g # f => Same(g)
    BY <1>1, <1>4 DEF Emit, FramesTyped, Same
  <2> QED
    BY <1>1, <2>2, <2>3, OthersShaped
<1>5. ASSUME NEW f \in Frames, at[f] \in {"handling", "settling"}, out[f] = <<>>, Proceeds(f)
      PROVE  \A g \in Frames : Shaped(g)'
  <2>1. /\ at'[f] = work[f].next /\ out'[f] = <<>> /\ work'[f].next = "leaving"
        /\ work'[f].op = work[f].op /\ work'[f].action = work[f].action
    BY <1>1, <1>5 DEF Proceeds, FramesTyped, Works
  <2>2. at'[f] \in {"leaving", "dispatching", "handling"}
    BY <1>1, <2>1 DEF FramesTyped, Works
  <2>3. Shaped(f)'
    BY <1>1, <1>5, <2>1, <2>2 DEF Shaped, Follows, Tasked, AsWorker, InHand, WorkerStages, Base
  <2>4. \A g \in Frames : g # f => Same(g)
    BY <1>1, <1>5 DEF Proceeds, FramesTyped, Same
  <2> QED
    BY <1>1, <2>3, <2>4, OthersShaped
<1>6. ASSUME NEW f \in Frames, HandlerReturns(f) PROVE \A g \in Frames : Shaped(g)'
  <2>1. CASE out[f] = <<>>
    BY <1>5, <1>6, <2>1 DEF HandlerReturns, Runs, Proceed, Proceeds
  <2>2. CASE out[f] # <<>>
    <3>1. at[f] = "handling" /\ at'[f] = "emitting" /\ work'[f] = work[f] /\ out'[f] = out[f]
      BY <1>1, <1>6, <2>2 DEF HandlerReturns, Runs, FramesTyped
    <3>2. Shaped(f)'
      BY <1>1, <2>2, <3>1 DEF Shaped, Follows, Tasked, AsWorker, InHand, WorkerStages, Base
    <3>3. \A g \in Frames : g # f => Same(g)
      BY <1>1, <1>6, <2>2 DEF HandlerReturns, FramesTyped, Same
    <3> QED
      BY <1>1, <3>2, <3>3, OthersShaped
  <2> QED
    BY <2>1, <2>2
<1>7. ASSUME NEW f \in Frames, Settle(f) PROVE \A g \in Frames : Shaped(g)'
  <2>1. at[f] = "settling" /\ out[f] = <<>> /\ (Settles(f) \/ Proceeds(f))
    BY <1>1, <1>7, SettleEffect DEF Follows
  <2>2. CASE Settles(f)
    <3>1. at'[f] = "emitting" /\ work'[f] = work[f] /\ out'[f] # <<>>
      BY <1>1, <2>2 DEF Settles, Undertakes, FramesTyped
    <3>2. Shaped(f)'
      BY <1>1, <2>1, <3>1 DEF Shaped, Follows, Tasked, AsWorker, InHand, WorkerStages, Base
    <3>3. \A g \in Frames : g # f => Same(g)
      BY <1>1, <2>2 DEF Settles, Undertakes, FramesTyped, Same
    <3> QED
      BY <1>1, <3>2, <3>3, OthersShaped
  <2> QED
    BY <1>5, <2>1, <2>2
<1>8. ASSUME NEW f \in Frames, Dispatcher(f) \/ Worker(f) \/ Destructor(f)
      PROVE  \A g \in Frames : Shaped(g)'
  <2>1. out' = out /\ (DispatchWalks(f) \/ WorkerWalks(f) \/ DestructorWalks(f))
    BY <1>1, <1>8, DispatcherEffect, WorkerEffect, DestructorEffect
  <2> QED
    BY <1>1, <2>1, WalksShaped, OthersShaped
<1>9. ASSUME NEW f \in Frames, Launch(f) PROVE \A g \in Frames : Shaped(g)'
  <2>1. at[f] = "joining" /\ out' = out /\ (Launches(f) \/ Concludes(f))
    BY <1>1, <1>9, LaunchEffect
  <2>2. work[f].op \in Workers /\ work[f].action \in WorkerActions /\ work[f].next = "leaving"
        /\ out[f] = <<>> /\ ~Base(f) /\ work[f].action \in Actions
    BY <1>1, <2>1 DEF Shaped, Follows, Tasked, AsWorker, InHand, FramesTyped, Works, WorkerStages
  <2>3. CASE Concludes(f)
    <3>1. Shaped(f)' /\ \A g \in Frames : g # f => Same(g)
      BY <1>1, <2>1, <2>2, <2>3, MoveValues
      DEF Shaped, Follows, Tasked, AsWorker, InHand, WorkerStages, Base
    <3> QED
      BY <1>1, <3>1, OthersShaped
  <2>4. CASE Launches(f)
    <3>1. PICK b \in Frames : /\ b = <<work[f].op, 0>> /\ Base(b) /\ b # f
                              /\ Thread(b) = work[f].op /\ at[b] = "none"
      BY <1>1, <2>1, <2>2, FrameFacts DEF OneHand, InHand
    <3>2. out[b] = <<>>
      BY <1>1, <3>1 DEF Follows
    <3>3. /\ at'[f] = "leaving" /\ work'[f] = work[f] /\ out'[f] = <<>>
          /\ at'[b] = "locking" /\ work'[b] = work[f] /\ out'[b] = <<>>
          /\ \A g \in Frames : g # f /\ g # b => Same(g)
      BY <1>1, <2>1, <2>2, <2>4, <3>1, <3>2 DEF Launches, FramesTyped, Same
    <3>4. Shaped(f)'
      BY <2>2, <3>3 DEF Shaped, Follows, Tasked, AsWorker, InHand, WorkerStages, Base
    <3>5. Shaped(b)'
      BY <2>2, <3>1, <3>3 DEF Shaped, Follows, Tasked, AsWorker, InHand, WorkerStages, Base
    <3>6. ASSUME NEW g \in Frames, Same(g) PROVE Shaped(g)'
      BY <1>1, <3>6 DEF Same, Shaped, Follows, Tasked, AsWorker, InHand, Base
    <3> QED
      BY <3>3, <3>4, <3>5, <3>6
  <2> QED
    BY <2>1, <2>3, <2>4
<1>10. ASSUME NEW f \in Frames, Leave(f) PROVE \A g \in Frames : Shaped(g)'
  <2>1. at[f] = "leaving" /\ at'[f] = (IF Base(f) THEN "ended" ELSE "none") /\ work'[f] = NoWork
        /\ out'[f] = out[f]
    BY <1>1, <1>10 DEF Leave, Runs, Step, FramesTyped, Base
  <2>2. Shaped(f)'
    BY <1>1, <2>1 DEF Shaped, Follows, Tasked, AsWorker, InHand, WorkerStages, NoWork, Base
  <2>3. \A g \in Frames : g # f => Same(g)
    BY <1>1, <1>10 DEF Leave, Step, FramesTyped, Same
  <2> QED
    BY <1>1, <2>2, <2>3, OthersShaped
<1>11. ASSUME NEW a \in {"start", "stop"}, Completion(a) PROVE \A g \in Frames : Shaped(g)'
  <2> DEFINE f == <<Ffi, 0>>
  <2>1. f \in Frames /\ Thread(f) = Ffi /\ ~Base(f)
    BY FrameFacts DEF Base
  <2>2. at[f] = "none" /\ out' = out
    BY <1>11 DEF Completion
  <2>3. pending.action = a => pending.op \in Workers
    BY <1>1 DEF FrameInv, Numbered, Idle
  <2> HIDE DEF f
  <2>4. out[f] = <<>> /\ work[f] = NoWork
    BY <1>1, <2>1, <2>2 DEF Follows
  <2>5. \A g \in Frames : g # f => Same(g)
    BY <1>1, <1>11, <2>1 DEF Completion, Step, FramesTyped, Same, f
  <2>6. \/ at'[f] \in {"none", "handling"} /\ work'[f] = work[f]
        \/ /\ pending.action = a /\ at'[f] = "settling" /\ work'[f].op = pending.op
           /\ work'[f].action = a /\ work'[f].next = "handling"
    <3>1. CASE life = "alive" /\ pending.action = a
      <4>1. PICK goal \in {"running", "stopped"} :
              /\ at' = [at EXCEPT ![f] = "settling"]
              /\ work' = [work EXCEPT ![f] =
                   [op |-> pending.op, action |-> a, next |-> "handling", goal |-> goal]]
        BY <1>11, <3>1 DEF Completion, Step, f
      <4> QED
        BY <1>1, <2>1, <3>1, <4>1 DEF FramesTyped
    <3>2. CASE ~(life = "alive" /\ pending.action = a)
      <4>1. work' = work /\ (at' = at \/ at' = [at EXCEPT ![f] = "handling"])
        BY <1>11, <3>2 DEF Completion, Step, f
      <4> QED
        BY <1>1, <2>1, <2>2, <4>1 DEF FramesTyped
    <3> QED
      BY <3>1, <3>2
  <2>7. Shaped(f)'
    BY <2>1, <2>2, <2>3, <2>4, <2>6
    DEF Shaped, Follows, Tasked, AsWorker, InHand, WorkerStages, NoWork, Actions, Base
  <2> QED
    BY <1>1, <2>1, <2>5, <2>7, OthersShaped
<1>12. CASE Notification
  <2> DEFINE f == <<Ffi, 0>>
  <2>1. f \in Frames /\ Thread(f) = Ffi /\ ~Base(f)
    BY FrameFacts DEF Base
  <2>2. at[f] = "none" /\ at' = [at EXCEPT ![f] = "handling"] /\ UNCHANGED <<work, out>>
    BY <1>12 DEF Notification, Step
  <2> HIDE DEF f
  <2>3. work'[f] = NoWork /\ at'[f] = "handling"
    BY <1>1, <2>1, <2>2 DEF Follows, FramesTyped
  <2>4. Shaped(f)'
    BY <2>1, <2>3 DEF Shaped, Follows, Tasked, AsWorker, InHand, WorkerStages, NoWork, Base
  <2>5. \A g \in Frames : g # f => Same(g)
    BY <1>1, <2>2 DEF FramesTyped, Same
  <2> QED
    BY <1>1, <2>1, <2>4, <2>5, OthersShaped
<1>13. ASSUME UNCHANGED frames PROVE \A g \in Frames : Shaped(g)'
  BY <1>1, <1>13 DEF frames, Shaped, Follows, Tasked, AsWorker, InHand, Base
<1>14. (\E f \in Frames : Vanish(f)) \/ (\E u \in Users : UserTests(u) \/ UserCalls(u))
         => UNCHANGED frames
  BY DEF Vanish, UserTests, UserCalls
<1> QED
  BY <1>2, <1>3, <1>4, <1>6, <1>7, <1>8, <1>9, <1>10, <1>11, <1>12, <1>13, <1>14, NextCases

-----------------------------------------------------------------------------
(***************************************************************************)
(* Where a frame's operation comes from: it keeps its own, drops it, has a *)
(* new one, inherits it as the worker launched for it, or completes it.    *)
(***************************************************************************)
KeepsOp(g) == work'[g].op = work[g].op /\ work'[g].action = work[g].action

Inherits(g) ==
  \E f \in Frames :
    /\ at[f] = "joining" /\ at'[f] = "leaving" /\ f # g /\ work'[f] = work[f]
    /\ g = <<work[f].op, 0>> /\ work[f].op \in Workers
    /\ at[g] = "none" /\ at'[g] = "locking" /\ work'[g] = work[f]
    /\ \A h \in Frames : h # f /\ h # g => Same(h)

Completes(g) ==
  /\ g = <<Ffi, 0>> /\ at[g] = "none" /\ life = "alive" /\ pending.action \in owed
  /\ at'[g] = "settling" /\ work'[g].op = pending.op /\ work'[g].action = pending.action

Origin(g) ==
  \/ KeepsOp(g) \/ work'[g] = NoWork \/ Inherits(g) \/ Completes(g)
  \/ life = "alive" /\ \E a \in Actions : Accepted(g, a)

Provenance(g) ==
  /\ Origin(g)
  /\ InHand(g)' => (InHand(g) /\ KeepsOp(g)) \/ (life = "alive" /\ \E a \in Actions : Accepted(g, a))
  /\ Base(g) /\ at[g] = "none" /\ at'[g] # "none" => Inherits(g)

LEMMA SameProvenance == \A g \in Frames : Same(g) => Provenance(g)
<1> SUFFICES ASSUME NEW g \in Frames, Same(g) PROVE Provenance(g)
  OBVIOUS
<1>1. KeepsOp(g) /\ (InHand(g)' => InHand(g))
  BY DEF Same, KeepsOp, InHand
<1>2. Base(g) /\ at[g] = "none" => at'[g] = "none"
  BY DEF Same
<1> QED
  BY <1>1, <1>2 DEF Provenance, Origin

LEMMA ProvenanceStep ==
  ASSUME FrameInv, Next
  PROVE  \A g \in Frames : Provenance(g)
<1>1. /\ TypeOK /\ FramesTyped /\ OthersTyped /\ OneHand
      /\ \A g \in Frames : Shaped(g) /\ Follows(g) /\ Tasked(g) /\ AsWorker(g)
  BY TypedParts DEF FrameInv, Shaped
<1>2. ASSUME NEW f \in Frames, NEW a \in Actions, Begin(f, a), Entered(f), life = "alive"
      PROVE  \A g \in Frames : Provenance(g)
  <2>1. (Answers(f, a) \/ Accepted(f, a)) /\ ~Base(f)
    BY <1>1, <1>2, BeginEffect, EnteredFacts
  <2>2. \A g \in Frames : g # f => Same(g)
    BY <1>1, <2>1 DEF Answers, Accepted, Undertakes, FramesTyped, Same
  <2>3. CASE Answers(f, a)
    <3>1. at'[f] = "emitting" /\ work'[f] = NoWork
      BY <1>1, <2>3 DEF Answers, Undertakes, FramesTyped
    <3>2. Provenance(f)
      BY <2>1, <3>1 DEF Provenance, Origin, InHand, NoWork
    <3> QED
      BY <2>2, <3>2, SameProvenance
  <2>4. CASE Accepted(f, a)
    <3>1. Provenance(f)
      BY <1>2, <2>1, <2>4 DEF Provenance, Origin
    <3> QED
      BY <2>2, <3>1, SameProvenance
  <2> QED
    BY <2>1, <2>3, <2>4
<1>3. ASSUME NEW f \in Frames, KeepsOp(f) \/ work'[f] = NoWork, ~InHand(f)' \/ (InHand(f) /\ KeepsOp(f)),
             Base(f) => at[f] # "none", \A g \in Frames : g # f => Same(g)
      PROVE  \A g \in Frames : Provenance(g)
  <2>1. Provenance(f)
    BY <1>3 DEF Provenance, Origin
  <2> QED
    BY <1>3, <2>1, SameProvenance
<1>4. ASSUME NEW f \in Frames, CloseIn(f), Entered(f) PROVE \A g \in Frames : Provenance(g)
  <2>1. /\ at[f] = "none" /\ at' = [at EXCEPT ![f] = "resetting"] /\ UNCHANGED <<work, out>>
        /\ ~Base(f)
    BY <1>4, EnteredFacts DEF CloseIn, Step
  <2>2. at'[f] = "resetting" /\ work'[f] = NoWork /\ \A g \in Frames : g # f => Same(g)
    BY <1>1, <2>1 DEF FramesTyped, Follows, Same
  <2> QED
    BY <1>3, <2>1, <2>2 DEF InHand, NoWork
<1>5. ASSUME NEW f \in Frames, Emit(f) PROVE \A g \in Frames : Provenance(g)
  <2>1. /\ at[f] = "emitting" /\ at'[f] = "handling" /\ work'[f] = work[f]
        /\ \A g \in Frames : g # f => Same(g)
    BY <1>1, <1>5 DEF Emit, Runs, FramesTyped, Same
  <2> QED
    BY <1>3, <2>1 DEF InHand, KeepsOp
<1>6. ASSUME NEW f \in Frames, at[f] \in {"handling", "settling"}, out[f] = <<>>, Proceeds(f)
      PROVE  \A g \in Frames : Provenance(g)
  <2>1. /\ at'[f] = work[f].next /\ work'[f].next = "leaving"
        /\ work'[f].op = work[f].op /\ work'[f].action = work[f].action
        /\ \A g \in Frames : g # f => Same(g)
    BY <1>1, <1>6 DEF Proceeds, FramesTyped, Works, Same
  <2>2. work[f].next \in {"leaving", "dispatching", "handling"}
    BY <1>1 DEF FramesTyped, Works
  <2> QED
    BY <1>3, <1>6, <2>1, <2>2 DEF InHand, KeepsOp
<1>7. ASSUME NEW f \in Frames, HandlerReturns(f) PROVE \A g \in Frames : Provenance(g)
  <2>1. CASE out[f] = <<>>
    BY <1>6, <1>7, <2>1 DEF HandlerReturns, Runs, Proceed, Proceeds
  <2>2. CASE out[f] # <<>>
    <3>1. /\ at[f] = "handling" /\ at'[f] = "emitting" /\ work'[f] = work[f]
          /\ \A g \in Frames : g # f => Same(g)
      BY <1>1, <1>7, <2>2 DEF HandlerReturns, Runs, FramesTyped, Same
    <3> QED
      BY <1>3, <3>1 DEF InHand, KeepsOp
  <2> QED
    BY <2>1, <2>2
<1>8. ASSUME NEW f \in Frames, Settle(f) PROVE \A g \in Frames : Provenance(g)
  <2>1. at[f] = "settling" /\ out[f] = <<>> /\ (Settles(f) \/ Proceeds(f))
    BY <1>1, <1>8, SettleEffect DEF Follows
  <2>2. CASE Settles(f)
    <3>1. /\ at'[f] = "emitting" /\ work'[f] = work[f]
          /\ \A g \in Frames : g # f => Same(g)
      BY <1>1, <2>2 DEF Settles, Undertakes, FramesTyped, Same
    <3> QED
      BY <1>3, <2>1, <3>1 DEF InHand, KeepsOp
  <2> QED
    BY <1>6, <2>1, <2>2
<1>9. ASSUME NEW f \in Frames, Dispatcher(f) \/ Worker(f) \/ Destructor(f)
      PROVE  \A g \in Frames : Provenance(g)
  <2>1. out' = out /\ (DispatchWalks(f) \/ WorkerWalks(f) \/ DestructorWalks(f))
    BY <1>1, <1>9, DispatcherEffect, WorkerEffect, DestructorEffect
  <2>2. KeepsOp(f) /\ (work'[f].next = work[f].next \/ work'[f].next = "leaving") /\ at[f] # "none"
    BY <1>1, <2>1, MoveValues DEF DispatchWalks, WorkerWalks, DestructorWalks, KeepsOp
  <2>3. (at'[f] \in {"joining", "binding"} => at[f] = "dispatching") /\ at'[f] # "dispatching"
    <3>1. CASE DispatchWalks(f)
      <4>1. \/ at[f] = "dispatching" /\ at'[f] \in {"joining", "binding", "settling"}
            \/ at'[f] \in {"calling", "leaving", "settling"}
        BY <1>1, <3>1, MoveValues DEF DispatchWalks
      <4> QED
        BY <4>1
    <3>2. CASE WorkerWalks(f)
      BY <1>1, <3>2, MoveValues DEF WorkerWalks
    <3>3. CASE DestructorWalks(f)
      <4>1. at'[f] \in DestructorStages
        BY <1>1, <3>3, MoveValues DEF DestructorWalks, DestructorStages
      <4> QED
        BY <4>1 DEF DestructorStages
    <3> QED
      BY <2>1, <3>1, <3>2, <3>3
  <2>4. \A g \in Frames : g # f => Same(g)
    BY <1>1, <2>1, WalksShaped
  <2>5. ~InHand(f)' \/ (InHand(f) /\ KeepsOp(f))
    BY <2>2, <2>3 DEF InHand
  <2> QED
    BY <1>3, <2>2, <2>4, <2>5
<1>10. ASSUME NEW f \in Frames, Launch(f) PROVE \A g \in Frames : Provenance(g)
  <2>1. at[f] = "joining" /\ out' = out /\ (Launches(f) \/ Concludes(f))
    BY <1>1, <1>10, LaunchEffect
  <2>2. work[f].op \in Workers /\ out[f] = <<>> /\ ~Base(f) /\ work[f].next = "leaving"
    BY <1>1, <2>1 DEF Follows, Tasked, AsWorker, InHand, FramesTyped, Works, WorkerStages
  <2>3. CASE Concludes(f)
    <3>1. /\ at'[f] = "settling" /\ KeepsOp(f) /\ work'[f].next = "leaving"
          /\ \A g \in Frames : g # f => Same(g)
      BY <1>1, <2>1, <2>3, MoveValues DEF KeepsOp
    <3> QED
      BY <1>3, <2>2, <3>1 DEF InHand
  <2>4. CASE Launches(f)
    <3>1. PICK b \in Frames : b = <<work[f].op, 0>> /\ Base(b) /\ b # f /\ at[b] = "none"
      BY <1>1, <2>1, <2>2, FrameFacts DEF OneHand, InHand
    <3>2. out[b] = <<>>
      BY <1>1, <3>1 DEF Follows
    <3>3. /\ at'[f] = "leaving" /\ work'[f] = work[f]
          /\ at'[b] = "locking" /\ work'[b] = work[f]
          /\ \A g \in Frames : g # f /\ g # b => Same(g)
      BY <1>1, <2>1, <2>2, <2>4, <3>1, <3>2 DEF Launches, FramesTyped, Same
    <3>4. Provenance(f)
      BY <2>2, <3>3 DEF Provenance, Origin, InHand, KeepsOp
    <3>5. Inherits(b) /\ ~InHand(b)'
      BY <2>1, <2>2, <3>1, <3>3 DEF Inherits, InHand
    <3>6. Provenance(b)
      BY <3>5 DEF Provenance, Origin
    <3> QED
      BY <3>3, <3>4, <3>6, SameProvenance
  <2> QED
    BY <2>1, <2>3, <2>4
<1>11. ASSUME NEW f \in Frames, Leave(f) PROVE \A g \in Frames : Provenance(g)
  <2>1. /\ at[f] = "leaving" /\ at'[f] \in {"none", "ended"} /\ work'[f] = NoWork
        /\ \A g \in Frames : g # f => Same(g)
    BY <1>1, <1>11 DEF Leave, Runs, Step, FramesTyped, Same
  <2> QED
    BY <1>3, <2>1 DEF InHand, NoWork
<1>12. ASSUME NEW a \in {"start", "stop"}, Completion(a) PROVE \A g \in Frames : Provenance(g)
  <2>1. PICK f \in Frames : f = <<Ffi, 0>> /\ ~Base(f)
    <3>1. <<Ffi, 0>> \in Frames /\ ~Base(<<Ffi, 0>>)
      BY FrameFacts DEF Base
    <3> QED
      BY <3>1
  <2>2. at[f] = "none" /\ out' = out /\ a \in owed
    BY <1>12, <2>1 DEF Completion
  <2>3. work[f] = NoWork
    BY <1>1, <2>1, <2>2 DEF Follows
  <2>4. \A g \in Frames : g # f => Same(g)
    BY <1>1, <1>12, <2>1 DEF Completion, Step, FramesTyped, Same
  <2>5. CASE life = "alive" /\ pending.action = a
    <3>1. PICK goal \in {"running", "stopped"} :
            /\ at' = [at EXCEPT ![f] = "settling"]
            /\ work' = [work EXCEPT ![f] =
                 [op |-> pending.op, action |-> a, next |-> "handling", goal |-> goal]]
      BY <1>12, <2>1, <2>5 DEF Completion, Step
    <3>2. /\ at'[f] = "settling" /\ work'[f].op = pending.op
          /\ work'[f].action = pending.action /\ work'[f].next = "handling"
      BY <1>1, <2>1, <2>5, <3>1 DEF FramesTyped
    <3>3. Completes(f)
      BY <2>1, <2>2, <2>5, <3>2 DEF Completes
    <3>4. Provenance(f)
      BY <2>1, <3>2, <3>3 DEF Provenance, Origin, InHand
    <3> QED
      BY <2>4, <3>4, SameProvenance
  <2>6. CASE ~(life = "alive" /\ pending.action = a)
    <3>1. work' = work /\ (at' = at \/ at' = [at EXCEPT ![f] = "handling"])
      BY <1>12, <2>1, <2>6 DEF Completion, Step
    <3>2. KeepsOp(f) /\ at'[f] \in {"none", "handling"} /\ work'[f] = NoWork
      BY <1>1, <2>1, <2>2, <2>3, <3>1 DEF FramesTyped, KeepsOp
    <3> QED
      BY <1>3, <2>1, <2>4, <3>2 DEF InHand, NoWork
  <2> QED
    BY <2>5, <2>6
<1>13. CASE Notification
  <2>1. PICK f \in Frames : f = <<Ffi, 0>> /\ ~Base(f)
    <3>1. <<Ffi, 0>> \in Frames /\ ~Base(<<Ffi, 0>>)
      BY FrameFacts DEF Base
    <3> QED
      BY <3>1
  <2>2. at[f] = "none" /\ at' = [at EXCEPT ![f] = "handling"] /\ UNCHANGED <<work, out>>
    BY <1>13, <2>1 DEF Notification, Step
  <2>3. work'[f] = NoWork /\ at'[f] = "handling" /\ \A g \in Frames : g # f => Same(g)
    BY <1>1, <2>1, <2>2 DEF Follows, FramesTyped, Same
  <2> QED
    BY <1>3, <2>1, <2>3 DEF InHand, NoWork
<1>14. (\E f \in Frames : Vanish(f)) \/ (\E u \in Users : UserTests(u) \/ UserCalls(u))
         => \A g \in Frames : Same(g)
  BY DEF Vanish, UserTests, UserCalls, frames, Same
<1> QED
  BY <1>2, <1>4, <1>5, <1>7, <1>8, <1>9, <1>10, <1>11, <1>12, <1>13, <1>14, NextCases, SameProvenance

-----------------------------------------------------------------------------
(***************************************************************************)
(* Numbers only grow, and a new active operation has the next one.         *)
(***************************************************************************)
LEMMA SequenceStep ==
  ASSUME FrameInv, Next
  PROVE  /\ sequence' >= sequence
         /\ \/ pending' \in {pending, Idle}
            \/ life = "alive" /\ \E f \in Frames, a \in Actions : Entered(f) /\ Accepted(f, a)
<1>1. /\ TypeOK /\ FramesTyped /\ OthersTyped
  BY TypedParts DEF FrameInv
<1>2. sequence \in Nat /\ sequence >= sequence
  BY <1>1 DEF OthersTyped
<1>3. ASSUME NEW events \in Seq(Events), sequence' = sequence + Len(events)
      PROVE  sequence' >= sequence
  BY <1>2, <1>3, LenProperties
<1>4. ASSUME NEW f \in Frames, NEW a \in Actions, Begin(f, a), Entered(f), life = "alive"
      PROVE  /\ sequence' >= sequence
             /\ pending' = pending \/ Accepted(f, a)
  <2>1. Answers(f, a) \/ Accepted(f, a)
    BY <1>1, <1>4, BeginEffect
  <2> QED
    BY <1>3, <2>1 DEF Answers, Accepted, Undertakes
<1>5. ASSUME NEW f \in Frames, Settle(f)
      PROVE  sequence' >= sequence /\ pending' \in {pending, Idle}
  <2>1. Settles(f) \/ Proceeds(f)
    BY <1>1, <1>5, SettleEffect
  <2> QED
    BY <1>2, <1>3, <2>1 DEF Settles, Undertakes, Proceeds, node
<1>6. ASSUME NEW f \in Frames, Dispatcher(f) \/ Worker(f) \/ Destructor(f) \/ Launch(f)
      PROVE  sequence' = sequence /\ pending' \in {pending, Idle}
  BY <1>1, <1>6, DispatcherEffect, WorkerEffect, DestructorEffect, LaunchEffect DEF node
<1>7. ASSUME NEW f \in Frames, CloseIn(f) \/ Emit(f) \/ HandlerReturns(f) \/ Leave(f) \/ Vanish(f)
      PROVE  sequence' = sequence /\ pending' = pending
  BY <1>7 DEF CloseIn, Emit, HandlerReturns, Leave, Vanish, node
<1>8. ASSUME NEW a \in {"start", "stop"}, Completion(a) \/ Notification
      PROVE  sequence' = sequence /\ pending' = pending
  BY <1>8 DEF Completion, Notification, node
<1>9. ASSUME NEW u \in Users, UserTests(u) \/ UserCalls(u)
      PROVE  sequence' = sequence /\ pending' = pending
  BY <1>9 DEF UserTests, UserCalls, node
<1> QED
  BY <1>2, <1>4, <1>5, <1>6, <1>7, <1>8, <1>9, NextCases

LEMMA AcceptedValues ==
  ASSUME FramesTyped, NEW f \in Frames, NEW a, Accepted(f, a)
  PROVE  /\ pending = Idle /\ Dispatchable(a) /\ sequence' = sequence + 1 /\ sequence + 1 \in Workers
         /\ pending' = [op |-> sequence + 1, action |-> a]
         /\ at'[f] = "emitting" /\ out'[f] = <<Event(sequence + 1, sequence + 1, "accepted", Thread(f))>>
         /\ work'[f].op = sequence + 1 /\ work'[f].action = a /\ work'[f].next = "dispatching"
         /\ \A g \in Frames : g # f => Same(g)
<1> DEFINE what == [op |-> sequence + 1, action |-> a, goal |-> state, next |-> "dispatching"]
           events == <<Event(sequence + 1, sequence + 1, "accepted", Thread(f))>>
<1>1. /\ pending = Idle /\ Dispatchable(a) /\ sequence + 1 \in Workers
      /\ pending' = [op |-> sequence + 1, action |-> a]
  BY DEF Accepted, Accepts
<1>2. /\ at' = [at EXCEPT ![f] = "emitting"] /\ work' = [work EXCEPT ![f] = what]
      /\ out' = [out EXCEPT ![f] = events] /\ sequence' = sequence + Len(events)
  BY DEF Accepted, Undertakes
<1>3. Len(events) = 1
  OBVIOUS
<1>4. at'[f] = "emitting" /\ work'[f] = what /\ out'[f] = events /\ \A g \in Frames : g # f => Same(g)
  BY <1>2 DEF FramesTyped, Same
<1> QED
  BY <1>1, <1>2, <1>3, <1>4

LEMMA NumberedStep ==
  ASSUME FrameInv, Next
  PROVE  Numbered' /\ OneHand'
<1>1. /\ FramesTyped /\ OthersTyped /\ Numbered /\ OneHand /\ \A g \in Frames : Shaped(g)
      /\ \A g \in Frames : Tasked(g)
  BY TypedParts DEF FrameInv, Shaped
<1>2. /\ sequence \in Nat /\ pending.op \in Nat /\ \A g \in Frames : work[g].op \in Nat
      /\ \A g \in Frames : work[g].op <= sequence /\ pending.op <= sequence
  BY <1>1 DEF FramesTyped, OthersTyped, Works, Numbered, Idle
<1>3. /\ sequence' >= sequence /\ sequence' \in Nat
      /\ \/ pending' \in {pending, Idle}
         \/ life = "alive" /\ \E f \in Frames, a \in Actions : Entered(f) /\ Accepted(f, a)
  BY <1>1, SequenceStep, OthersTypedStep, TypedParts DEF FrameInv, OthersTyped, Shaped
<1>4. \A g \in Frames : Provenance(g)
  BY ProvenanceStep
<1>5. ASSUME NEW f \in Frames, NEW a, Accepted(f, a)
      PROVE  /\ sequence' = sequence + 1 /\ sequence + 1 \in Workers
             /\ pending' = [op |-> sequence + 1, action |-> a] /\ work'[f].op = sequence + 1
             /\ \A g \in Frames : g # f => work'[g] = work[g]
  BY <1>1, <1>5, AcceptedValues DEF Same
<1>7. ASSUME NEW g \in Frames PROVE work'[g].op <= sequence'
  <2>1. CASE KeepsOp(g)
    BY <1>2, <1>3, <2>1 DEF KeepsOp
  <2>2. CASE work'[g] = NoWork
    BY <1>3, <2>2 DEF NoWork
  <2>3. CASE Inherits(g)
    BY <1>2, <1>3, <2>3 DEF Inherits
  <2>4. CASE Completes(g)
    BY <1>2, <1>3, <2>4 DEF Completes
  <2>5. CASE \E a \in Actions : Accepted(g, a)
    BY <1>2, <1>5, <2>5
  <2> QED
    BY <1>4, <2>1, <2>2, <2>3, <2>4, <2>5 DEF Provenance, Origin
<1>8. (pending = Idle \/ (pending.op \in Workers /\ pending.op <= sequence /\ pending.action \in Actions))'
  BY <1>1, <1>2, <1>3, <1>5 DEF Numbered
<1>9. ASSUME NEW w \in Workers, at'[<<w, 0>>] # "none" PROVE w <= sequence'
  <2>1. <<w, 0>> \in Frames /\ Base(<<w, 0>>) /\ w \in Nat
    BY FrameFacts
  <2>2. CASE at[<<w, 0>>] # "none"
    BY <1>1, <1>2, <1>3, <2>1, <2>2 DEF Numbered
  <2>3. CASE at[<<w, 0>>] = "none"
    <3>1. PICK f \in Frames : <<w, 0>> = <<work[f].op, 0>>
      BY <1>4, <1>9, <2>1, <2>3 DEF Provenance, Inherits
    <3> QED
      BY <1>2, <1>3, <2>1, <3>1
  <2> QED
    BY <2>2, <2>3
<1>10. Numbered'
  BY <1>7, <1>8, <1>9 DEF Numbered
<1>11. ASSUME NEW f \in Frames, InHand(f)'
       PROVE  \/ InHand(f) /\ work'[f].op = work[f].op /\ work'[f].op <= sequence
              \/ \E a \in Actions : Accepted(f, a)
  BY <1>2, <1>4, <1>11 DEF Provenance, KeepsOp
<1>12. ASSUME NEW f \in Frames, NEW g \in Frames, InHand(f)', InHand(g)', work'[f].op = work'[g].op,
              f # g
       PROVE  FALSE
  <2>1. \A h \in Frames : \A a \in Actions : Accepted(h, a) =>
           work'[h].op = sequence + 1 /\ \A k \in Frames : k # h => work'[k].op <= sequence
    BY <1>2, <1>5
  <2>2. ~(\E a \in Actions : Accepted(f, a)) /\ ~(\E a \in Actions : Accepted(g, a))
    BY <1>2, <1>12, <2>1
  <2>3. InHand(f) /\ InHand(g) /\ work[f].op = work[g].op
    BY <1>11, <1>12, <2>2
  <2> QED
    BY <1>1, <1>12, <2>3 DEF OneHand
<1>13. ASSUME NEW f \in Frames, InHand(f)' PROVE at'[<<work'[f].op, 0>>] = "none"
  <2>1. Shaped(f)'
    BY ShapedStep
  <2>2. work'[f].op \in Workers
    BY <1>13, <2>1 DEF Shaped, Tasked
  <2>3. PICK w \in Workers : w = work'[f].op
    BY <2>2
  <2>4. PICK b \in Frames : b = <<w, 0>> /\ Base(b) /\ w \in Nat
    BY FrameFacts
  <2>5. SUFFICES ASSUME at'[b] # "none" PROVE FALSE
    BY <2>3, <2>4
  <2>6. CASE \E a \in Actions : Accepted(f, a)
    <3>1. w = sequence + 1 /\ \A k \in Frames : k # f => work'[k] = work[k]
      BY <1>5, <2>3, <2>6
    <3>2. at[b] = "none"
      BY <1>1, <1>2, <2>4, <3>1 DEF Numbered
    <3>3. PICK h \in Frames : b = <<work[h].op, 0>>
      BY <1>4, <2>4, <2>5, <3>2 DEF Provenance, Inherits
    <3> QED
      BY <1>2, <2>4, <3>1, <3>3
  <2>7. CASE InHand(f) /\ work'[f].op = work[f].op
    <3>1. at[b] = "none"
      BY <1>1, <2>3, <2>4, <2>7 DEF OneHand
    <3>2. PICK h \in Frames : /\ at[h] = "joining" /\ at'[h] = "leaving" /\ work'[h] = work[h]
                              /\ b = <<work[h].op, 0>>
      BY <1>4, <2>4, <2>5, <3>1 DEF Provenance, Inherits
    <3>3. InHand(h) /\ work[h].op = work[f].op /\ work[h].next = "leaving"
      <4>1. InHand(h) /\ work[h].op = work[f].op
        BY <2>3, <2>4, <2>7, <3>2 DEF InHand
      <4>2. Follows(h) /\ work[h] \in Works
        BY <1>1 DEF Shaped, FramesTyped
      <4>3. work[h].next = "leaving"
        BY <3>2, <4>2 DEF Follows, Works
      <4> QED
        BY <4>1, <4>3
    <3>4. h = f
      BY <1>1, <2>7, <3>3 DEF OneHand
    <3> QED
      BY <1>13, <3>2, <3>3, <3>4 DEF InHand
  <2> QED
    BY <1>11, <1>13, <2>6, <2>7
<1>14. OneHand'
  BY <1>12, <1>13 DEF OneHand
<1> QED
  BY <1>10, <1>14

LEMMA FrameStep ==
  ASSUME FrameInv, [Next]_vars
  PROVE  FrameInv'
<1>1. CASE Next
  <2>1. TypeOK /\ \A f \in Frames : Follows(f) /\ Tasked(f)
    BY DEF FrameInv, Shaped
  <2>2. TypeOK'
    BY <1>1, <2>1, FramesTypedStep, OthersTypedStep DEF TypeOK, FramesTyped, OthersTyped, Works
  <2> QED
    BY <1>1, <2>2, ShapedStep, NumberedStep DEF FrameInv
<1>2. CASE UNCHANGED vars
  <2>1. TypeOK' <=> TypeOK
    BY <1>2 DEF vars, node, context, locks, slotted, frames, wrappers, TypeOK
  <2>2. \A f \in Frames : Shaped(f)' <=> Shaped(f)
    BY <1>2 DEF vars, frames, Shaped, Follows, Tasked, AsWorker, InHand, Base
  <2>3. \A f \in Frames : InHand(f)' <=> InHand(f)
    BY <1>2 DEF vars, frames, InHand
  <2>4. at' = at /\ work' = work /\ pending' = pending /\ sequence' = sequence
    BY <1>2 DEF vars, frames, node
  <2>5. Numbered' /\ OneHand'
    BY <2>3, <2>4 DEF FrameInv, Numbered, OneHand
  <2> QED
    BY <2>1, <2>2, <2>5 DEF FrameInv
<1> QED
  BY <1>1, <1>2

\* Every variable has its type: stages, work and events of every frame of
\* every thread's stack, in nodeAction(), the workers and the destructor.
THEOREM TypeCorrect == Spec => []TypeOK
<1>1. Init => FrameInv
  BY ThreadsInit
<1>2. FrameInv /\ [Next]_vars => FrameInv'
  BY FrameStep
<1>3. FrameInv => TypeOK
  BY DEF FrameInv
<1> QED
  BY <1>1, <1>2, <1>3, PTL DEF Spec

-----------------------------------------------------------------------------
(***************************************************************************)
(* Call stacks.                                                            *)
(***************************************************************************)
BelowHandle(f) == \A i \in 0 .. MaxDepth : i < f[2] => at[<<Thread(f), i>>] = "handling"
AboveEmpty(f) == \A j \in 0 .. MaxDepth : f[2] < j => at[<<Thread(f), j>>] = "none"

LEMMA StackFacts ==
  ASSUME Stacked, NEW f \in Frames
  PROVE  /\ at[f] # "none" => BelowHandle(f)
         /\ at[f] # "handling" => AboveEmpty(f)
         /\ Top(f) => AboveEmpty(f)
         /\ Entered(f) /\ at[f] = "none" => BelowHandle(f)
         /\ f[2] = 0 => BelowHandle(f)
<1>1. f = <<Thread(f), f[2]>> /\ Thread(f) \in Threads /\ f[2] \in 0 .. MaxDepth
  BY FrameFacts DEF Thread
<1>2. MaxDepth \in Nat
  BY ThreadsAssumption
<1>3. at[f] # "none" => BelowHandle(f)
  BY <1>1 DEF Stacked, BelowHandle
<1>4. at[f] # "handling" => AboveEmpty(f)
  BY <1>1 DEF Stacked, AboveEmpty
<1>5. f[2] = 0 => BelowHandle(f)
  BY <1>2 DEF BelowHandle
<1>6. ASSUME Top(f) PROVE AboveEmpty(f)
  <2> SUFFICES ASSUME NEW j \in 0 .. MaxDepth, f[2] < j, at[<<Thread(f), j>>] # "none" PROVE FALSE
    BY DEF AboveEmpty
  <2> DEFINE k == f[2] + 1
  <2>1. k \in 0 .. MaxDepth /\ (k < j \/ k = j) /\ Above(f) = <<Thread(f), k>>
    BY <1>1, <1>2 DEF Above, Thread
  <2>2. Above(f) \in Frames
    BY <1>1, <2>1 DEF Frames
  <2>3. at[<<Thread(f), k>>] = "none"
    BY <1>6, <2>1, <2>2 DEF Top
  <2> HIDE DEF k
  <2> QED
    BY <1>1, <2>1, <2>3 DEF Stacked
<1>7. ASSUME Entered(f) PROVE BelowHandle(f)
  <2>1. CASE f[2] = 0
    BY <1>5, <2>1
  <2>2. CASE \E g \in Frames : f = Above(g) /\ at[g] = "handling"
    <3>1. PICK g \in Frames : f = Above(g) /\ at[g] = "handling"
      BY <2>2
    <3>2. g = <<Thread(f), g[2]>> /\ g[2] \in 0 .. MaxDepth /\ f[2] = g[2] + 1
      BY <3>1, FrameFacts DEF Thread, Above
    <3>3. \A i \in 0 .. MaxDepth : i < f[2] => i = g[2] \/ i < g[2]
      BY <1>2, <3>2
    <3>4. at[<<Thread(f), g[2]>>] = "handling"
      BY <3>1, <3>2
    <3> QED
      BY <1>1, <3>2, <3>3, <3>4 DEF Stacked, BelowHandle
  <2> QED
    BY <1>7, <2>1, <2>2 DEF Entered
<1> QED
  BY <1>3, <1>4, <1>5, <1>6, <1>7

\* A thread moves at one frame: those below it wait in handlers, none is above.
Steady(t) == \A i \in 0 .. MaxDepth : at'[<<t, i>>] = at[<<t, i>>]

StepsAt(f) ==
  /\ \A g \in Frames : Thread(g) = Thread(f) /\ g # f => at'[g] = at[g]
  /\ BelowHandle(f) /\ AboveEmpty(f)

LEMMA StackedFrom ==
  ASSUME Stacked, \A t \in Threads : Steady(t) \/ \E f \in Frames : Thread(f) = t /\ StepsAt(f)
  PROVE  Stacked'
<1> SUFFICES ASSUME NEW t \in Threads, NEW i \in 0 .. MaxDepth, NEW j \in 0 .. MaxDepth, i < j,
                    at'[<<t, j>>] # "none"
             PROVE  at'[<<t, i>>] = "handling"
  BY DEF Stacked
<1>1. CASE Steady(t)
  BY <1>1 DEF Steady, Stacked
<1>2. ASSUME NEW f \in Frames, Thread(f) = t, StepsAt(f) PROVE at'[<<t, i>>] = "handling"
  <2>1. f = <<t, f[2]>> /\ f[2] \in Nat
    BY <1>2, FrameFacts, ThreadsAssumption DEF Thread
  <2>2. \A k \in 0 .. MaxDepth : k # f[2] => at'[<<t, k>>] = at[<<t, k>>]
    <3> SUFFICES ASSUME NEW k \in 0 .. MaxDepth, k # f[2] PROVE at'[<<t, k>>] = at[<<t, k>>]
      OBVIOUS
    <3>1. <<t, k>> \in Frames /\ <<t, k>> # f /\ Thread(<<t, k>>) = t
      BY <2>1 DEF Frames, Thread
    <3> QED
      BY <1>2, <3>1 DEF StepsAt
  <2>3. i \in Nat /\ j \in Nat
    BY ThreadsAssumption
  <2>4. ~(f[2] < j)
    BY <1>2, <2>1, <2>2, <2>3 DEF StepsAt, AboveEmpty
  <2>5. i < f[2]
    BY <2>1, <2>3, <2>4
  <2> QED
    BY <1>2, <2>2, <2>1, <2>3, <2>5 DEF StepsAt, BelowHandle
<1> QED
  BY <1>1, <1>2

LEMMA OneFrameStacked ==
  ASSUME Stacked, NEW f \in Frames, \A g \in Frames : g # f => at'[g] = at[g],
         BelowHandle(f), AboveEmpty(f)
  PROVE  Stacked'
<1>1. StepsAt(f)
  BY DEF StepsAt
<1>2. ASSUME NEW t \in Threads, t # Thread(f) PROVE Steady(t)
  <2>1. \A i \in 0 .. MaxDepth : <<t, i>> \in Frames /\ <<t, i>> # f
    BY <1>2 DEF Frames, Thread
  <2> QED
    BY <2>1 DEF Steady
<1> QED
  BY <1>1, <1>2, StackedFrom

\* What a step does to the stages of frames.
Moves(f) == at[f] \notin {"none", "ended"} /\ Top(f) /\ \A g \in Frames : g # f => at'[g] = at[g]
Enters(f) ==
  at[f] = "none" /\ (Entered(f) \/ f = <<Ffi, 0>>) /\ \A g \in Frames : g # f => at'[g] = at[g]
Starts(f, b) ==
  /\ at[f] = "joining" /\ Top(f) /\ at'[f] = "leaving" /\ work'[f] = work[f] /\ work[f].op \in Workers
  /\ b = <<work[f].op, 0>> /\ Base(b) /\ b # f /\ Thread(b) = work[f].op /\ Thread(b) # Thread(f)
  /\ at[b] = "none" /\ at'[b] = "locking" /\ work'[b] = work[f]
  /\ \A g \in Frames : g # f /\ g # b => Same(g)

LEMMA LaunchStarts ==
  ASSUME FrameInv, Stacked, NEW f \in Frames, Launch(f)
  PROVE  Concludes(f) \/ \E b \in Frames : Launches(f) /\ Starts(f, b)
<1>1. /\ TypeOK /\ FramesTyped /\ OneHand /\ \A g \in Frames : Shaped(g) /\ Follows(g) /\ Tasked(g)
  BY TypedParts DEF FrameInv, Shaped
<1>2. at[f] = "joining" /\ Top(f) /\ out' = out /\ (Launches(f) \/ Concludes(f))
  BY <1>1, LaunchEffect
<1>3. CASE Launches(f)
  <2>1. InHand(f) /\ work[f].op \in Workers /\ Shaped(f)
    BY <1>1, <1>2 DEF Tasked, InHand
  <2>2. PICK w \in Workers : w = work[f].op
    BY <2>1
  <2>3. PICK b \in Frames : b = <<w, 0>> /\ Base(b) /\ Thread(b) = w
    BY FrameFacts
  <2>4. at[b] = "none" /\ ~Base(f) /\ b # f
    BY <1>1, <1>2, <2>1, <2>2, <2>3 DEF OneHand, Shaped, AsWorker, WorkerStages
  <2>5. Thread(f) # w
    <3>1. SUFFICES ASSUME Thread(f) = w PROVE FALSE
      OBVIOUS
    <3>2. f = <<w, f[2]>> /\ f[2] \in 0 .. MaxDepth /\ f[2] # 0 /\ 0 \in 0 .. MaxDepth /\ 0 < f[2]
      BY <2>3, <2>4, <3>1, FrameFacts, ThreadsAssumption DEF Thread
    <3>3. at[<<w, 0>>] = "handling"
      BY <1>2, <3>2, FrameFacts DEF Stacked
    <3> QED
      BY <2>3, <2>4, <3>3
  <2>6. /\ at'[f] = "leaving" /\ at'[b] = "locking"
        /\ work'[f] = work[f] /\ work'[b] = work[f]
        /\ \A g \in Frames : g # f /\ g # b => Same(g)
    BY <1>1, <1>2, <1>3, <2>2, <2>3, <2>4 DEF Launches, FramesTyped, Same
  <2> QED
    BY <1>2, <1>3, <2>2, <2>3, <2>4, <2>5, <2>6 DEF Starts
<1> QED
  BY <1>2, <1>3

LEMMA MoveCases ==
  ASSUME FrameInv, Stacked, Next
  PROVE  \/ at' = at
         \/ \E f \in Frames : Moves(f) \/ Enters(f)
         \/ \E f, b \in Frames : Launch(f) /\ Launches(f) /\ Starts(f, b)
<1>1. /\ TypeOK /\ FramesTyped /\ OneHand /\ \A g \in Frames : Shaped(g) /\ Follows(g) /\ Tasked(g)
  BY TypedParts DEF FrameInv, Shaped
<1>2. ASSUME NEW f \in Frames, NEW a \in Actions, Begin(f, a), Entered(f) PROVE Enters(f)
  <2>1. at[f] = "none" /\ (Answers(f, a) \/ Accepted(f, a))
    BY <1>1, <1>2, BeginEffect
  <2>2. \A g \in Frames : g # f => at'[g] = at[g]
    BY <1>1, <2>1 DEF Answers, Accepted, Undertakes, FramesTyped
  <2> QED
    BY <1>2, <2>1, <2>2 DEF Enters
<1>3. ASSUME NEW f \in Frames, CloseIn(f), Entered(f) PROVE Enters(f)
  BY <1>1, <1>3 DEF CloseIn, Step, Enters, FramesTyped
<1>4. ASSUME NEW f \in Frames, Emit(f) \/ HandlerReturns(f) \/ Leave(f) PROVE Moves(f)
  BY <1>1, <1>4 DEF Emit, HandlerReturns, Proceed, Leave, Runs, Step, Moves, FramesTyped
<1>5. ASSUME NEW f \in Frames, Settle(f) PROVE Moves(f)
  <2>1. at[f] = "settling" /\ Top(f) /\ (Settles(f) \/ Proceeds(f))
    BY <1>1, <1>5, SettleEffect
  <2> QED
    BY <1>1, <2>1 DEF Settles, Undertakes, Proceeds, Moves, FramesTyped
<1>6. ASSUME NEW f \in Frames, Dispatcher(f) \/ Worker(f) \/ Destructor(f) PROVE Moves(f)
  <2>1. Top(f) /\ out' = out /\ (DispatchWalks(f) \/ WorkerWalks(f) \/ DestructorWalks(f))
    BY <1>1, <1>6, DispatcherEffect, WorkerEffect, DestructorEffect
  <2>2. \A g \in Frames : g # f => at'[g] = at[g]
    BY <1>1, <2>1, WalksShaped DEF Same
  <2>3. at[f] \notin {"none", "ended"}
    BY <2>1 DEF DispatchWalks, WorkerWalks, DestructorWalks
  <2> QED
    BY <2>1, <2>2, <2>3 DEF Moves
<1>7. ASSUME NEW f \in Frames, Launch(f)
      PROVE  Moves(f) \/ \E b \in Frames : Launches(f) /\ Starts(f, b)
  <2>1. at[f] = "joining" /\ Top(f) /\ (Concludes(f) \/ \E b \in Frames : Launches(f) /\ Starts(f, b))
    BY <1>1, <1>7, LaunchEffect, LaunchStarts
  <2> QED
    BY <1>1, <2>1 DEF Concludes, FramesTyped, Moves
<1>8. ASSUME NEW a \in {"start", "stop"}, Completion(a) \/ Notification
      PROVE  at' = at \/ \E f \in Frames : Enters(f)
  <2>1. PICK f \in Frames : f = <<Ffi, 0>>
    BY FrameFacts
  <2>2. at[f] = "none" /\ (at' = at \/ \E stage : at' = [at EXCEPT ![f] = stage])
    <3>1. CASE Completion(a)
      BY <2>1, <3>1 DEF Completion, Step
    <3>2. CASE Notification
      BY <2>1, <3>2 DEF Notification, Step
    <3> QED
      BY <1>8, <3>1, <3>2
  <2> QED
    BY <1>1, <2>1, <2>2 DEF Enters, FramesTyped
<1>9. (\E f \in Frames : Vanish(f)) \/ (\E u \in Users : UserTests(u) \/ UserCalls(u)) => at' = at
  BY DEF Vanish, UserTests, UserCalls, frames
<1> QED
  BY <1>2, <1>3, <1>4, <1>5, <1>6, <1>7, <1>8, <1>9, NextCases

LEMMA StackedStep ==
  ASSUME FrameInv, Stacked, [Next]_vars
  PROVE  Stacked'
<1>1. CASE at' = at
  BY <1>1 DEF Stacked
<1>2. ASSUME NEW f \in Frames, Moves(f) \/ Enters(f) PROVE Stacked'
  <2>1. BelowHandle(f) /\ AboveEmpty(f)
    BY <1>2, StackFacts DEF Moves, Enters
  <2> QED
    BY <1>2, <2>1, OneFrameStacked DEF Moves, Enters
<1>3. ASSUME NEW f \in Frames, NEW b \in Frames, Starts(f, b) PROVE Stacked'
  <2>1. BelowHandle(f) /\ AboveEmpty(f) /\ BelowHandle(b) /\ AboveEmpty(b)
    BY <1>3, StackFacts DEF Starts, Base
  <2>2. StepsAt(f) /\ StepsAt(b)
    BY <1>3, <2>1 DEF StepsAt, Starts, Same
  <2>3. ASSUME NEW t \in Threads, t # Thread(f), t # Thread(b) PROVE Steady(t)
    <3>1. \A i \in 0 .. MaxDepth : <<t, i>> \in Frames /\ <<t, i>> # f /\ <<t, i>> # b
      BY <2>3 DEF Frames, Thread
    <3> QED
      BY <1>3, <3>1 DEF Steady, Starts, Same
  <2> QED
    BY <2>2, <2>3, StackedFrom
<1>4. UNCHANGED vars => at' = at
  BY DEF vars, frames
<1> QED
  BY <1>1, <1>2, <1>3, <1>4, MoveCases

-----------------------------------------------------------------------------
(***************************************************************************)
(* How a frame comes to settle, and what a step does to what is not of a   *)
(* frame.                                                                  *)
(***************************************************************************)
ToSettling(f) ==
  \/ KeepsOp(f) /\ (InHand(f) \/ at[f] \in WorkerStages) /\ owed' = owed
  \/ KeepsOp(f) /\ at[f] = "calling" /\ owed' = owed \ {work[f].action}
  \/ Completes(f) /\ owed' = owed \ {pending.action}

Onward(f) ==
  /\ at'[f] = "settling" => (at[f] = "settling" /\ KeepsOp(f)) \/ ToSettling(f)
  /\ at'[f] \in WorkerStages => (at[f] \in WorkerStages /\ KeepsOp(f)) \/ Inherits(f)
  /\ at[f] = "leaving" => Same(f) \/ work'[f] = NoWork
  /\ at'[f] \in DestructorStages => at[f] \in DestructorStages \/ CloseIn(f)

LEMMA OnwardStep ==
  ASSUME FrameInv, Stacked, Next
  PROVE  \A g \in Frames : Onward(g)
<1>1. /\ TypeOK /\ FramesTyped /\ OthersTyped
      /\ \A g \in Frames : Shaped(g) /\ Follows(g)
  BY TypedParts DEF FrameInv, Shaped
<1>2. ASSUME NEW g \in Frames, Same(g) PROVE Onward(g)
  BY <1>2 DEF Same, Onward, KeepsOp
<1>3. ASSUME NEW f \in Frames, \A g \in Frames : g # f => Same(g),
             at'[f] \notin WorkerStages \cup DestructorStages \cup {"settling"}, at[f] # "leaving" \/ work'[f] = NoWork
      PROVE  \A g \in Frames : Onward(g)
  <2>1. Onward(f)
    BY <1>3 DEF Onward
  <2> QED
    BY <1>2, <1>3, <2>1
<1>4. ASSUME NEW f \in Frames, NEW a \in Actions, Begin(f, a) PROVE \A g \in Frames : Onward(g)
  <2>1. at[f] = "none" /\ (Answers(f, a) \/ Accepted(f, a))
    BY <1>1, <1>4, BeginEffect
  <2>2. at'[f] = "emitting" /\ \A g \in Frames : g # f => Same(g)
    BY <1>1, <2>1 DEF Answers, Accepted, Undertakes, FramesTyped, Same
  <2> QED
    BY <1>3, <2>1, <2>2 DEF WorkerStages, DestructorStages
<1>5. ASSUME NEW f \in Frames, CloseIn(f) PROVE \A g \in Frames : Onward(g)
  <2>1. at[f] = "none" /\ at'[f] = "resetting" /\ \A g \in Frames : g # f => Same(g)
    BY <1>1, <1>5 DEF CloseIn, Step, FramesTyped, Same
  <2>2. Onward(f)
    BY <1>5, <2>1 DEF Onward, WorkerStages
  <2> QED
    BY <1>2, <2>1, <2>2
<1>6. ASSUME NEW f \in Frames, Emit(f) PROVE \A g \in Frames : Onward(g)
  <2>1. at[f] = "emitting" /\ at'[f] = "handling" /\ \A g \in Frames : g # f => Same(g)
    BY <1>1, <1>6 DEF Emit, Runs, FramesTyped, Same
  <2> QED
    BY <1>3, <2>1 DEF WorkerStages, DestructorStages
<1>7. ASSUME NEW f \in Frames, at[f] \in {"handling", "settling"}, Proceeds(f)
      PROVE  \A g \in Frames : Onward(g)
  <2>1. at'[f] = work[f].next /\ \A g \in Frames : g # f => Same(g)
    BY <1>1, <1>7 DEF Proceeds, FramesTyped, Same
  <2>2. work[f].next \in {"leaving", "dispatching", "handling"}
    BY <1>1 DEF FramesTyped, Works
  <2> QED
    BY <1>3, <1>7, <2>1, <2>2 DEF WorkerStages, DestructorStages
<1>8. ASSUME NEW f \in Frames, HandlerReturns(f) PROVE \A g \in Frames : Onward(g)
  <2>1. CASE out[f] = <<>>
    BY <1>7, <1>8, <2>1 DEF HandlerReturns, Runs, Proceed, Proceeds
  <2>2. CASE out[f] # <<>>
    <3>1. at[f] = "handling" /\ at'[f] = "emitting" /\ \A g \in Frames : g # f => Same(g)
      BY <1>1, <1>8, <2>2 DEF HandlerReturns, Runs, FramesTyped, Same
    <3> QED
      BY <1>3, <3>1 DEF WorkerStages, DestructorStages
  <2> QED
    BY <2>1, <2>2
<1>9. ASSUME NEW f \in Frames, Settle(f) PROVE \A g \in Frames : Onward(g)
  <2>1. at[f] = "settling" /\ (Settles(f) \/ Proceeds(f))
    BY <1>1, <1>9, SettleEffect
  <2>2. CASE Settles(f)
    <3>1. at'[f] = "emitting" /\ \A g \in Frames : g # f => Same(g)
      BY <1>1, <2>2 DEF Settles, Undertakes, FramesTyped, Same
    <3> QED
      BY <1>3, <2>1, <3>1 DEF WorkerStages, DestructorStages
  <2> QED
    BY <1>7, <2>1, <2>2
<1>10. ASSUME NEW f \in Frames, Leave(f) PROVE \A g \in Frames : Onward(g)
  <2>1. /\ at'[f] \in {"none", "ended"} /\ work'[f] = NoWork
        /\ \A g \in Frames : g # f => Same(g)
    BY <1>1, <1>10 DEF Leave, Step, FramesTyped, Same
  <2> QED
    BY <1>3, <2>1 DEF WorkerStages, DestructorStages
<1>11. ASSUME NEW f \in Frames, Dispatcher(f) PROVE \A g \in Frames : Onward(g)
  <2>1. out' = out /\ DispatchWalks(f)
    BY <1>1, <1>11, DispatcherEffect
  <2>2. \A g \in Frames : g # f => Same(g)
    BY <1>1, <2>1, WalksShaped
  <2>3. CASE Concludes(f)
    <3>1. at'[f] = "settling" /\ KeepsOp(f)
      BY <1>1, <2>3, MoveValues DEF KeepsOp
    <3>2. \/ at[f] = "dispatching" /\ owed' = owed
          \/ at[f] = "calling" /\ owed' = owed \ {work[f].action}
      <4>1. CASE LaunchOnItself(f) \/ Test(f)
        BY <4>1 DEF LaunchOnItself, Test, Runs
      <4>2. CASE LaunchLocks(f) \/ Bind(f)
        BY <1>1, <3>1, <4>2 DEF LaunchLocks, Bind, Step, FramesTyped
      <4>3. CASE CallReturns(f)
        BY <1>1, <3>1, <4>3 DEF CallReturns, Runs, Step, FramesTyped
      <4> QED
        BY <1>11, <4>1, <4>2, <4>3 DEF Dispatcher
    <3>3. Onward(f)
      BY <3>1, <3>2 DEF Onward, ToSettling, InHand, WorkerStages, DestructorStages
    <3> QED
      BY <1>2, <2>2, <3>3
  <2>4. CASE ~Concludes(f)
    <3>1. at'[f] \in {"joining", "binding", "calling", "leaving"} /\ at[f] # "leaving"
      BY <1>1, <2>1, <2>4, MoveValues DEF DispatchWalks
    <3> QED
      BY <1>3, <2>2, <3>1 DEF WorkerStages, DestructorStages
  <2> QED
    BY <2>3, <2>4
<1>12. ASSUME NEW f \in Frames, Worker(f) PROVE \A g \in Frames : Onward(g)
  <2>1. out' = out /\ owed' = owed /\ WorkerWalks(f)
    BY <1>1, <1>12, WorkerEffect
  <2>2. (\A g \in Frames : g # f => Same(g))
    BY <1>1, <2>1, WalksShaped
  <2>3. at[f] \in WorkerStages /\ KeepsOp(f) /\ at[f] # "leaving"
    BY <1>1, <2>1, MoveValues DEF WorkerWalks, WorkerStages, KeepsOp
  <2>4. at'[f] \notin DestructorStages
    <3>1. at'[f] \in WorkerStages \cup {"settling"}
      BY <1>1, <2>1, MoveValues DEF WorkerWalks, WorkerStages
    <3> QED
      BY <3>1 DEF WorkerStages, DestructorStages
  <2>5. Onward(f)
    BY <2>1, <2>3, <2>4 DEF Onward, ToSettling
  <2> QED
    BY <1>2, <2>2, <2>5
<1>13. ASSUME NEW f \in Frames, Destructor(f) PROVE \A g \in Frames : Onward(g)
  <2>1. out' = out /\ DestructorWalks(f)
    BY <1>13, DestructorEffect
  <2>2. (\A g \in Frames : g # f => Same(g))
    BY <1>1, <2>1, WalksShaped
  <2>3. at[f] \in DestructorStages /\ at'[f] \in DestructorStages
    BY <1>1, <2>1, MoveValues DEF DestructorWalks, DestructorStages
  <2>4. Onward(f)
    BY <2>3 DEF Onward, WorkerStages, DestructorStages
  <2> QED
    BY <1>2, <2>2, <2>4
<1>14. ASSUME NEW f \in Frames, NEW b \in Frames, Starts(f, b) PROVE \A g \in Frames : Onward(g)
  <2>1. Onward(f)
    BY <1>14 DEF Starts, Onward, WorkerStages, DestructorStages
  <2>2. Inherits(b)
    BY <1>14 DEF Starts, Inherits
  <2>3. Onward(b)
    BY <1>14, <2>2 DEF Starts, Onward, DestructorStages
  <2> QED
    BY <1>2, <1>14, <2>1, <2>3 DEF Starts
<1>15. ASSUME NEW f \in Frames, Launch(f) PROVE \A g \in Frames : Onward(g)
  <2>1. /\ at[f] = "joining" /\ UNCHANGED <<out, owed>>
        /\ Concludes(f) \/ \E b \in Frames : Starts(f, b)
    BY <1>1, <1>15, LaunchEffect, LaunchStarts
  <2>2. CASE Concludes(f)
    <3>1. at'[f] = "settling" /\ KeepsOp(f) /\ \A g \in Frames : g # f => Same(g)
      BY <1>1, <2>1, <2>2, MoveValues DEF KeepsOp
    <3>2. Onward(f)
      BY <2>1, <3>1 DEF Onward, ToSettling, InHand, WorkerStages, DestructorStages
    <3> QED
      BY <1>2, <3>1, <3>2
  <2> QED
    BY <1>14, <2>1, <2>2
<1>16. ASSUME NEW a \in {"start", "stop"}, Completion(a) PROVE \A g \in Frames : Onward(g)
  <2>1. PICK f \in Frames : f = <<Ffi, 0>>
    BY FrameFacts
  <2>2. at[f] = "none" /\ out' = out /\ a \in owed /\ owed' = owed \ {a}
    BY <1>16, <2>1 DEF Completion
  <2>3. \A g \in Frames : g # f => Same(g)
    BY <1>1, <1>16, <2>1 DEF Completion, Step, FramesTyped, Same
  <2>4. CASE life = "alive" /\ pending.action = a
    <3>1. PICK goal \in {"running", "stopped"} :
            /\ at' = [at EXCEPT ![f] = "settling"]
            /\ work' = [work EXCEPT ![f] =
                 [op |-> pending.op, action |-> a, next |-> "handling", goal |-> goal]]
      BY <1>16, <2>1, <2>4 DEF Completion, Step
    <3>2. at'[f] = "settling" /\ work'[f].op = pending.op /\ work'[f].action = pending.action
      BY <1>1, <2>1, <2>4, <3>1 DEF FramesTyped
    <3>3. Completes(f)
      BY <2>1, <2>2, <2>4, <3>2 DEF Completes
    <3>4. Onward(f)
      BY <2>2, <2>4, <3>2, <3>3 DEF Onward, ToSettling, WorkerStages, DestructorStages
    <3> QED
      BY <1>2, <2>3, <3>4
  <2>5. CASE ~(life = "alive" /\ pending.action = a)
    <3>1. at' = at \/ at' = [at EXCEPT ![f] = "handling"]
      BY <1>16, <2>1, <2>5 DEF Completion, Step
    <3>2. at'[f] \in {"none", "handling"}
      BY <1>1, <2>1, <2>2, <3>1 DEF FramesTyped
    <3> QED
      BY <1>3, <2>2, <2>3, <3>2 DEF WorkerStages, DestructorStages
  <2> QED
    BY <2>4, <2>5
<1>17. CASE Notification
  <2>1. PICK f \in Frames : f = <<Ffi, 0>>
    BY FrameFacts
  <2>2. at[f] = "none" /\ at' = [at EXCEPT ![f] = "handling"] /\ UNCHANGED <<work, out>>
    BY <1>17, <2>1 DEF Notification, Step
  <2>3. at'[f] = "handling" /\ \A g \in Frames : g # f => Same(g)
    BY <1>1, <2>1, <2>2 DEF FramesTyped, Same
  <2> QED
    BY <1>3, <2>2, <2>3 DEF WorkerStages, DestructorStages
<1>18. (\E f \in Frames : Vanish(f)) \/ (\E u \in Users : UserTests(u) \/ UserCalls(u))
         => \A g \in Frames : Same(g)
  BY DEF Vanish, UserTests, UserCalls, frames, Same
<1> QED
  BY <1>2, <1>4, <1>5, <1>6, <1>8, <1>9, <1>10, <1>11, <1>12, <1>13, <1>15, <1>16, <1>17, <1>18, NextCases

PendingMoves ==
  \/ pending' = pending
  \/ life = "alive" /\ owed' = owed /\ \E f \in Frames, a \in Actions : Accepted(f, a)
  \/ owed' = owed /\ \E f \in Frames : at[f] = "settling" /\ Settles(f)
  \/ pending' = Idle /\ \E f \in Frames : at[f] = "resetting"

OwedMoves ==
  \/ owed' \subseteq owed
  \/ pending' = pending /\ \E f \in Frames :
       at[f] = "binding" /\ at'[f] = "calling" /\ work'[f] = work[f] /\ owed' = owed \cup {work[f].action}

LEMMA EffectStep ==
  ASSUME FrameInv, Next
  PROVE  /\ life' = "alive" => life = "alive"
         /\ heard \subseteq heard' /\ PendingMoves /\ OwedMoves
<1>1. TypeOK /\ FramesTyped
  BY TypedParts DEF FrameInv
<1>2. ASSUME UNCHANGED <<pending, owed, heard>>, life' = "alive" => life = "alive"
      PROVE  /\ life' = "alive" => life = "alive"
             /\ heard \subseteq heard' /\ PendingMoves /\ OwedMoves
  BY <1>2 DEF PendingMoves, OwedMoves
<1>3. ASSUME NEW f \in Frames, NEW a \in Actions, Begin(f, a), life = "alive"
      PROVE  /\ life' = "alive" => life = "alive"
             /\ heard \subseteq heard' /\ PendingMoves /\ OwedMoves
  <2>1. UNCHANGED Elsewhere /\ (Answers(f, a) \/ Accepted(f, a))
    BY <1>1, <1>3, BeginEffect
  <2>2. life' = life /\ owed' = owed /\ heard' = heard
    BY <2>1 DEF Elsewhere
  <2>3. pending' = pending \/ Accepted(f, a)
    BY <2>1 DEF Answers
  <2> QED
    BY <1>3, <2>2, <2>3 DEF PendingMoves, OwedMoves
<1>4. ASSUME NEW f \in Frames, Settle(f)
      PROVE  /\ life' = "alive" => life = "alive"
             /\ heard \subseteq heard' /\ PendingMoves /\ OwedMoves
  <2>1. at[f] = "settling" /\ UNCHANGED Elsewhere /\ (Settles(f) \/ Proceeds(f))
    BY <1>1, <1>4, SettleEffect
  <2>2. life' = life /\ owed' = owed /\ heard' = heard /\ (pending' = pending \/ Settles(f))
    BY <2>1 DEF Elsewhere, Proceeds, node
  <2> QED
    BY <2>1, <2>2 DEF PendingMoves, OwedMoves
<1>5. ASSUME NEW f \in Frames, Dispatcher(f)
      PROVE  /\ life' = "alive" => life = "alive"
             /\ heard \subseteq heard' /\ PendingMoves /\ OwedMoves
  <2>1. UNCHANGED <<node, life, heard>>
    BY <1>1, <1>5, DispatcherEffect
  <2>2. OwedMoves
    <3>1. CASE Bind(f)
      BY <1>1, <2>1, <3>1 DEF Bind, Runs, Step, OwedMoves, FramesTyped, node
    <3>2. CASE LaunchOnItself(f) \/ LaunchLocks(f) \/ Test(f) \/ CallReturns(f)
      BY <3>2 DEF LaunchOnItself, LaunchLocks, Test, CallReturns, OwedMoves
    <3> QED
      BY <1>5, <3>1, <3>2 DEF Dispatcher
  <2> QED
    BY <2>1, <2>2 DEF node, PendingMoves
<1>6. ASSUME NEW f \in Frames, Worker(f) \/ Launch(f)
      PROVE  UNCHANGED <<pending, owed, heard, life>>
  BY <1>1, <1>6, WorkerEffect, LaunchEffect DEF node
<1>7. ASSUME NEW f \in Frames, Destructor(f)
      PROVE  /\ life' = "alive" => life = "alive"
             /\ heard \subseteq heard' /\ PendingMoves /\ OwedMoves
  <2>1. UNCHANGED <<life, heard, owed>>
    BY <1>7, DestructorEffect
  <2>2. pending' = pending \/ (pending' = Idle /\ at[f] = "resetting")
    BY <1>7 DEF Destructor, ResetLifecycle, TakeWorkers, JoinTaken, LockModule, ReleaseContext, Runs, node
  <2> QED
    BY <2>1, <2>2 DEF PendingMoves, OwedMoves
<1>8. ASSUME NEW f \in Frames, CloseIn(f) \/ HandlerReturns(f) \/ Leave(f) \/ Vanish(f)
      PROVE  UNCHANGED <<pending, owed, heard>> /\ (life' = "alive" => life = "alive")
  BY <1>8 DEF CloseIn, HandlerReturns, Leave, Vanish, node
<1>9. ASSUME NEW f \in Frames, Emit(f)
      PROVE  /\ life' = "alive" => life = "alive"
             /\ heard \subseteq heard' /\ PendingMoves /\ OwedMoves
  BY <1>9 DEF Emit, node, PendingMoves, OwedMoves
<1>10. ASSUME NEW a \in {"start", "stop"}, Completion(a)
       PROVE  /\ life' = "alive" => life = "alive"
              /\ heard \subseteq heard' /\ PendingMoves /\ OwedMoves
  BY <1>10 DEF Completion, node, PendingMoves, OwedMoves
<1>11. ASSUME Notification \/ \E u \in Users : UserTests(u) \/ UserCalls(u)
       PROVE  UNCHANGED <<pending, owed, heard, life>>
  BY <1>11 DEF Notification, UserTests, UserCalls, node
<1> QED
  BY <1>2, <1>3, <1>4, <1>5, <1>6, <1>7, <1>8, <1>9, <1>10, <1>11, NextCases

-----------------------------------------------------------------------------
(***************************************************************************)
(* Operations and their owners, one conjunct after the other.              *)
(***************************************************************************)
ChargeContext ==
  /\ FramesTyped /\ OthersTyped /\ Numbered /\ OneHand
  /\ \A g \in Frames : Shaped(g) /\ Follows(g) /\ Tasked(g) /\ AsWorker(g)
  /\ \A g \in Frames : Shaped(g)' /\ Follows(g)' /\ Tasked(g)' /\ AsWorker(g)'
  /\ \A g \in Frames : Provenance(g) /\ Onward(g)
  /\ PendingMoves /\ OwedMoves /\ heard \subseteq heard'
  /\ life' = "alive" => life = "alive"
  /\ sequence \in Nat /\ pending.op \in Nat /\ pending.op <= sequence
  /\ \A g \in Frames : work[g].op \in Nat /\ work[g].op <= sequence

LEMMA InContext ==
  ASSUME FrameInv, Stacked, Next
  PROVE  ChargeContext
<1>1. /\ FramesTyped /\ OthersTyped /\ Numbered /\ OneHand
      /\ \A g \in Frames : Shaped(g) /\ Follows(g) /\ Tasked(g) /\ AsWorker(g)
  BY TypedParts DEF FrameInv, Shaped
<1>2. \A g \in Frames : Shaped(g)' /\ Follows(g)' /\ Tasked(g)' /\ AsWorker(g)'
  BY ShapedStep DEF Shaped
<1>3. /\ sequence \in Nat /\ pending.op \in Nat /\ pending.op <= sequence
      /\ \A g \in Frames : work[g].op \in Nat /\ work[g].op <= sequence
  BY <1>1 DEF FramesTyped, OthersTyped, Works, Numbered, Idle
<1>4. \A g \in Frames : Provenance(g) /\ Onward(g)
  BY ProvenanceStep, OnwardStep
<1>5. /\ PendingMoves /\ OwedMoves /\ heard \subseteq heard'
      /\ life' = "alive" => life = "alive"
  BY EffectStep
<1> QED
  BY <1>1, <1>2, <1>3, <1>4, <1>5 DEF ChargeContext

\* Accepting gives a number nobody has yet.
LEMMA FreshNumber ==
  ASSUME ChargeContext, NEW f \in Frames, NEW a \in Actions, Accepted(f, a)
  PROVE  /\ pending = Idle /\ pending' = [op |-> sequence + 1, action |-> a]
         /\ sequence + 1 \in Workers /\ at'[f] = "emitting"
         /\ work'[f].op = sequence + 1 /\ work'[f].action = a
         /\ \A g \in Frames : work[g].op # sequence + 1
         /\ \A g \in Frames : g # f => Same(g) /\ work'[g].op # sequence + 1
         /\ at[<<sequence + 1, 0>>] = "none"
<1>1. /\ pending = Idle /\ pending' = [op |-> sequence + 1, action |-> a]
      /\ sequence + 1 \in Workers /\ at'[f] = "emitting"
      /\ work'[f].op = sequence + 1 /\ work'[f].action = a
      /\ \A g \in Frames : g # f => Same(g)
  BY AcceptedValues DEF ChargeContext
<1>2. sequence + 1 > sequence /\ \A n \in Nat : n <= sequence => n # sequence + 1
  BY DEF ChargeContext
<1>3. \A g \in Frames : work[g].op # sequence + 1
  BY <1>2 DEF ChargeContext
<1>4. at[<<sequence + 1, 0>>] = "none"
  BY <1>1, <1>2 DEF ChargeContext, Numbered
<1> QED
  BY <1>1, <1>3, <1>4 DEF Same

\* The worker launched for the operation a frame had in hand.
LEMMA Inheritance ==
  ASSUME ChargeContext, NEW g \in Frames, Inherits(g)
  PROVE  \E h \in Frames :
           /\ InHand(h) /\ at[h] = "joining" /\ at'[h] = "leaving" /\ ~InHand(h)' /\ h # g
           /\ work'[g] = work[h] /\ work'[h] = work[h] /\ work[h].op \in Workers
           /\ work[h].action \in WorkerActions
           /\ g = <<work[h].op, 0>> /\ at[g] = "none" /\ at'[g] = "locking"
           /\ \A k \in Frames : k # h /\ k # g => Same(k)
<1>1. PICK h \in Frames :
        /\ at[h] = "joining" /\ at'[h] = "leaving" /\ h # g
        /\ work'[g] = work[h] /\ work'[h] = work[h] /\ work[h].op \in Workers
        /\ g = <<work[h].op, 0>> /\ at[g] = "none" /\ at'[g] = "locking"
        /\ \A k \in Frames : k # h /\ k # g => Same(k)
  BY DEF Inherits
<1>2. work[h].next = "leaving" /\ work[h].action \in WorkerActions
  BY <1>1 DEF ChargeContext, Follows, Tasked, FramesTyped, Works
<1>3. InHand(h) /\ ~InHand(h)'
  BY <1>1, <1>2 DEF InHand
<1> QED
  BY <1>1, <1>2, <1>3

LEMMA OwnersStep ==
  ASSUME ChargeContext, ChargeInv
  PROVE  \A f, g \in Frames : InHand(f)' /\ g # f => work'[g].op # work'[f].op
<1> SUFFICES ASSUME NEW f \in Frames, NEW g \in Frames, InHand(f)', g # f,
                    work'[g].op = work'[f].op
             PROVE  FALSE
  OBVIOUS
<1>1. work'[f].op \in Workers /\ work'[f].op # 0
  BY FrameFacts DEF ChargeContext, Tasked
<1>2. CASE \E a \in Actions : Accepted(f, a)
  BY <1>2, FreshNumber
<1>3. CASE \E a \in Actions : Accepted(g, a)
  BY <1>3, FreshNumber
<1>4. ASSUME InHand(f), KeepsOp(f), ~\E a \in Actions : Accepted(g, a) PROVE FALSE
  <2>1. work'[f].op = work[f].op /\ \A h \in Frames : h # f => work[h].op # work[f].op
    BY <1>4 DEF KeepsOp, ChargeInv, OneOwner
  <2>2. CASE KeepsOp(g)
    BY <2>1, <2>2 DEF KeepsOp
  <2>3. CASE work'[g] = NoWork
    BY <1>1, <2>3 DEF NoWork
  <2>4. CASE Inherits(g)
    BY <2>1, <2>4, Inheritance
  <2>5. CASE Completes(g)
    <3>1. owed # {} /\ life = "alive" /\ work'[g].op = pending.op
      BY <2>5 DEF Completes
    <3> QED
      BY <1>4, <3>1 DEF ChargeInv, OwedToActive
  <2> QED
    BY <1>4, <2>2, <2>3, <2>4, <2>5 DEF ChargeContext, Provenance, Origin
<1> QED
  BY <1>2, <1>3, <1>4 DEF ChargeContext, Provenance

LEMMA WorkersAloneStep ==
  ASSUME ChargeContext, ChargeInv
  PROVE  \A w \in Workers, g \in Frames :
           work'[g].op = w /\ at'[<<w, 0>>] # "none" => g = <<w, 0>> \/ at'[g] = "leaving"
<1> SUFFICES ASSUME NEW w \in Workers, NEW g \in Frames, work'[g].op = w, at'[<<w, 0>>] # "none",
                    g # <<w, 0>>
             PROVE  at'[g] = "leaving"
  OBVIOUS
<1>1. PICK b \in Frames : b = <<w, 0>> /\ Base(b) /\ w # 0
  BY FrameFacts
<1>2. CASE at[b] # "none"
  <2>1. CASE KeepsOp(g)
    <3>1. at[g] = "leaving"
      BY <1>1, <1>2, <2>1 DEF KeepsOp, ChargeInv, OneOwner
    <3>2. Same(g) \/ work'[g] = NoWork
      BY <3>1 DEF ChargeContext, Onward
    <3> QED
      BY <1>1, <3>1, <3>2 DEF Same, NoWork
  <2>2. CASE work'[g] = NoWork
    BY <1>1, <2>2 DEF NoWork
  <2>3. CASE Inherits(g)
    BY <2>3, Inheritance
  <2>4. CASE Completes(g)
    <3>1. life = "alive" /\ pending.op = w /\ pending.action \in owed
      BY <2>4 DEF Completes
    <3>2. pending.action \in WorkerActions /\ pending.action \in {"start", "stop"}
      BY <1>1, <1>2, <3>1 DEF ChargeInv, OneOwner, ChargeContext, OthersTyped
    <3> QED
      BY <3>2 DEF WorkerActions
  <2>5. CASE \E a \in Actions : Accepted(g, a)
    BY <1>1, <1>2, <2>5, FreshNumber
  <2> QED
    BY <2>1, <2>2, <2>3, <2>4, <2>5 DEF ChargeContext, Provenance, Origin
<1>3. CASE at[b] = "none"
  <2>1. Inherits(b)
    BY <1>1, <1>3 DEF ChargeContext, Provenance
  <2>2. PICK h \in Frames :
          /\ InHand(h) /\ at'[h] = "leaving" /\ work[h].op \in Workers
          /\ b = <<work[h].op, 0>>
          /\ \A k \in Frames : k # h /\ k # b => Same(k)
    BY <2>1, Inheritance
  <2>3. g = h
    BY <1>1, <2>2 DEF ChargeInv, OneOwner, Same
  <2> QED
    BY <2>2, <2>3
<1> QED
  BY <1>2, <1>3

LEMMA PendingOwnersStep ==
  ASSUME ChargeContext, ChargeInv
  PROVE  /\ \A w \in Workers :
              at'[<<w, 0>>] # "none" /\ pending'.op = w => pending'.action \in WorkerActions
         /\ \A f \in Frames :
              pending' # Idle /\ work'[f].op = pending'.op => work'[f].action = pending'.action
<1>1. pending # Idle => pending.op \in Workers /\ pending.op # 0
  BY FrameFacts DEF ChargeContext, Numbered
<1>2. CASE pending' = pending
  <2>1. ASSUME NEW w \in Workers, at'[<<w, 0>>] # "none", pending.op = w
        PROVE  pending.action \in WorkerActions
    <3>1. PICK b \in Frames : b = <<w, 0>> /\ Base(b) /\ w # 0
      BY FrameFacts
    <3>2. CASE at[b] # "none"
      BY <2>1, <3>1, <3>2 DEF ChargeInv, OneOwner
    <3>3. CASE at[b] = "none"
      <4>1. PICK h \in Frames : work[h].action \in WorkerActions /\ b = <<work[h].op, 0>>
        BY <2>1, <3>1, <3>3, Inheritance DEF ChargeContext, Provenance
      <4>2. pending # Idle /\ work[h].op = pending.op
        BY <2>1, <3>1, <4>1 DEF Idle
      <4> QED
        BY <4>1, <4>2 DEF ChargeInv, OneOwner
    <3> QED
      BY <3>2, <3>3
  <2>2. ASSUME NEW f \in Frames, pending # Idle, work'[f].op = pending.op
        PROVE  work'[f].action = pending.action
    <3>1. CASE KeepsOp(f)
      BY <2>2, <3>1 DEF KeepsOp, ChargeInv, OneOwner
    <3>2. CASE work'[f] = NoWork
      BY <1>1, <2>2, <3>2 DEF NoWork
    <3>3. CASE Inherits(f)
      <4>1. PICK h \in Frames : work'[f] = work[h]
        BY <3>3, Inheritance
      <4> QED
        BY <2>2, <4>1 DEF ChargeInv, OneOwner
    <3>4. CASE Completes(f)
      BY <3>4 DEF Completes
    <3>5. CASE \E a \in Actions : Accepted(f, a)
      BY <2>2, <3>5, FreshNumber
    <3> QED
      BY <3>1, <3>2, <3>3, <3>4, <3>5 DEF ChargeContext, Provenance, Origin
  <2> QED
    BY <1>2, <2>1, <2>2
<1>3. CASE pending' = Idle
  BY <1>3, FrameFacts DEF Idle
<1>4. ASSUME NEW f \in Frames, NEW a \in Actions, Accepted(f, a)
      PROVE  /\ \A w \in Workers :
                  at'[<<w, 0>>] # "none" /\ pending'.op = w => pending'.action \in WorkerActions
             /\ \A g \in Frames :
                  pending' # Idle /\ work'[g].op = pending'.op => work'[g].action = pending'.action
  <2>1. /\ pending' = [op |-> sequence + 1, action |-> a] /\ sequence + 1 \in Workers
        /\ at'[f] = "emitting" /\ at[<<sequence + 1, 0>>] = "none"
        /\ work'[f].action = a /\ work'[f].op = sequence + 1
        /\ \A g \in Frames : g # f => Same(g) /\ work'[g].op # sequence + 1
    BY <1>4, FreshNumber
  <2>2. PICK b \in Frames : b = <<sequence + 1, 0>> /\ Base(b)
    BY <2>1, FrameFacts
  <2>3. at'[b] = "none"
    <3>1. CASE b = f
      <4>1. at[b] = "none" /\ at'[b] = "emitting"
        BY <2>1, <2>2, <3>1
      <4>2. Inherits(b)
        BY <2>2, <4>1 DEF ChargeContext, Provenance
      <4> QED
        BY <4>1, <4>2 DEF Inherits
    <3>2. CASE b # f
      BY <2>1, <2>2, <3>2 DEF Same
    <3> QED
      BY <3>1, <3>2
  <2> QED
    BY <2>1, <2>2, <2>3
<1> QED
  BY <1>2, <1>3, <1>4 DEF ChargeContext, PendingMoves, Settles

LEMMA ActiveStep ==
  ASSUME ChargeContext, ChargeInv
  PROVE  Active'
<1> SUFFICES ASSUME life' = "alive", NEW f \in Frames, InHand(f)' \/ at'[f] \in WorkerStages
             PROVE  pending' = [op |-> work'[f].op, action |-> work'[f].action]
  BY DEF Active
<1>1. life = "alive"
  BY DEF ChargeContext
\* The active operation is still that of the frame,
<1>2. ASSUME InHand(f) \/ at[f] \in WorkerStages, KeepsOp(f), InHand(f)' \/ at'[f] \in WorkerStages
      PROVE  pending' = [op |-> work'[f].op, action |-> work'[f].action]
  <2>1. pending = [op |-> work[f].op, action |-> work[f].action]
    BY <1>1, <1>2 DEF ChargeInv, Active
  <2>2. work[f].op \in Workers /\ work[f].op # 0 /\ pending # Idle
    <3>1. work[f].op \in Workers
      <4>1. CASE InHand(f)
        BY <4>1 DEF ChargeContext, Tasked
      <4>2. CASE at[f] \in WorkerStages
        BY <4>2 DEF ChargeContext, AsWorker, Base, WorkerStages
      <4> QED
        BY <1>2, <4>1, <4>2
    <3> QED
      BY <2>1, <3>1, FrameFacts DEF Idle
  <2>3. ASSUME NEW g \in Frames, at[g] = "settling", Settles(g) PROVE FALSE
    <3>1. work[g].op = work[f].op
      BY <2>1, <2>3 DEF Settles
    <3>2. CASE InHand(f)
      <4>1. g = f
        BY <3>1, <3>2 DEF ChargeInv, OneOwner
      <4> QED
        BY <2>3, <3>2, <4>1 DEF InHand, ChargeContext, Follows
    <3>3. CASE at[f] \in WorkerStages
      <4>1. f = <<work[f].op, 0>>
        BY <3>3, FrameFacts DEF ChargeContext, AsWorker, WorkerStages
      <4>2. at[<<work[f].op, 0>>] # "none" /\ at[f] # "settling"
        BY <3>3, <4>1 DEF WorkerStages
      <4>3. g = f \/ at[g] = "leaving"
        BY <2>2, <3>1, <4>1, <4>2 DEF ChargeInv, OneOwner
      <4> QED
        BY <2>3, <4>2, <4>3
    <3> QED
      BY <1>2, <3>2, <3>3
  <2>4. ASSUME NEW g \in Frames, NEW a \in Actions, Accepted(g, a) PROVE FALSE
    BY <2>2, <2>4, FreshNumber
  <2>5. \A g \in Frames : at[g] # "resetting"
    BY <1>1 DEF ChargeInv, Closing, DestructorStages
  <2>6. pending' = pending
    BY <2>3, <2>4, <2>5 DEF ChargeContext, PendingMoves
  <2> QED
    BY <1>2, <2>1, <2>6 DEF KeepsOp
\* or it was accepted just now,
<1>3. CASE \E a \in Actions : Accepted(f, a)
  BY <1>3, FreshNumber
\* or the frame is the worker that was launched for it.
<1>4. CASE Inherits(f)
  <2>1. PICK h \in Frames : /\ InHand(h) /\ at'[h] = "leaving" /\ work'[f] = work[h]
                            /\ at[h] = "joining" /\ work[h].op \in Workers
    BY <1>4, Inheritance
  <2>2. pending = [op |-> work[h].op, action |-> work[h].action]
    BY <1>1, <2>1 DEF ChargeInv, Active
  <2>3. \A g \in Frames : at[g] = "settling" => ~Settles(g)
    <3> SUFFICES ASSUME NEW g \in Frames, at[g] = "settling", Settles(g) PROVE FALSE
      OBVIOUS
    <3>1. work[g].op = work[h].op
      BY <2>2 DEF Settles
    <3> QED
      BY <2>1, <3>1 DEF ChargeInv, OneOwner
  <2>4. \A g \in Frames, a \in Actions : ~Accepted(g, a)
    BY <2>1, <2>2, FreshNumber, FrameFacts DEF Idle
  <2>5. \A g \in Frames : at[g] # "resetting"
    BY <1>1 DEF ChargeInv, Closing, DestructorStages
  <2>6. pending' = pending
    BY <2>3, <2>4, <2>5 DEF ChargeContext, PendingMoves
  <2> QED
    BY <2>1, <2>2, <2>6
<1>5. CASE InHand(f)'
  BY <1>2, <1>3, <1>5 DEF ChargeContext, Provenance
<1>6. CASE at'[f] \in WorkerStages
  BY <1>2, <1>4, <1>6 DEF ChargeContext, Onward
<1> QED
  BY <1>5, <1>6

LEMMA OwedStep ==
  ASSUME ChargeContext, ChargeInv, \A g \in Frames : at[g] = "binding" => Announced(work[g].op)
  PROVE  OwedToActive'
<1> SUFFICES ASSUME life' = "alive" PROVE OwedToActive'
  BY DEF OwedToActive
<1>1. life = "alive" /\ \A g \in Frames : at[g] # "resetting"
  BY DEF ChargeContext, ChargeInv, Closing, DestructorStages
<1>2. \A a \in owed : /\ pending.action = a /\ a \in {"start", "stop"}
                      /\ \E e \in heard : e.op = pending.op /\ e.phase = "accepted"
  BY <1>1 DEF ChargeInv, OwedToActive, ChargeContext, OthersTyped, Announced
<1>3. heard \subseteq heard'
  BY DEF ChargeContext
\* When the active operation changes nothing is owed.
<1>4. pending' = pending \/ (owed = {} /\ owed' = owed)
  <2>1. CASE \E f \in Frames, a \in Actions : owed' = owed /\ Accepted(f, a)
    <3>1. pending = Idle
      BY <2>1, FreshNumber
    <3> QED
      BY <1>2, <2>1, <3>1 DEF Idle
  <2>2. CASE \E f \in Frames : owed' = owed /\ at[f] = "settling" /\ Settles(f)
    <3>1. PICK f \in Frames : at[f] = "settling" /\ work[f].op = pending.op
      BY <2>2 DEF Settles
    <3> QED
      BY <1>1, <2>2, <3>1 DEF ChargeInv, OwedToActive
  <2> QED
    BY <1>1, <2>1, <2>2 DEF ChargeContext, PendingMoves
\* A completion comes to be owed by a call, made for the active operation.
<1>5. ASSUME NEW f \in Frames, at[f] = "binding"
      PROVE  /\ pending = [op |-> work[f].op, action |-> work[f].action] /\ InHand(f)
             /\ Announced(work[f].op) /\ work[f].next = "leaving"
  BY <1>1, <1>5 DEF ChargeInv, Active, InHand, ChargeContext, Follows, FramesTyped, Works
<1>6. \A a \in owed' : /\ pending'.action = a
                       /\ \E e \in heard' : e.op = pending'.op /\ e.phase = "accepted"
  <2>1. CASE owed' \subseteq owed
    BY <1>2, <1>3, <1>4, <2>1
  <2>2. ASSUME NEW f \in Frames, pending' = pending, at[f] = "binding", owed' = owed \cup {work[f].action}
        PROVE  \A a \in owed' : /\ pending'.action = a
                                /\ \E e \in heard' : e.op = pending'.op /\ e.phase = "accepted"
    <3>1. /\ pending.action = work[f].action
          /\ \E e \in heard : e.op = pending.op /\ e.phase = "accepted"
      BY <1>5, <2>2 DEF Announced
    <3> QED
      BY <1>2, <1>3, <2>2, <3>1
  <2> QED
    BY <2>1, <2>2 DEF ChargeContext, OwedMoves
\* A frame that holds the operation, or is about to settle it, is owed nothing.
<1>7. ASSUME NEW f \in Frames, InHand(f)' \/ (at'[f] = "settling" /\ work'[f].op = pending'.op)
      PROVE  owed' = {}
  <2>1. ASSUME InHand(f), KeepsOp(f), at'[f] # "calling" PROVE owed' = {}
    <3>1. owed = {}
      BY <1>1, <2>1 DEF ChargeInv, OwedToActive
    <3>2. ASSUME NEW g \in Frames, at[g] = "binding", at'[g] = "calling" PROVE FALSE
      <4>1. InHand(g) /\ work[f].op = work[g].op
        BY <1>1, <1>5, <2>1, <3>2 DEF ChargeInv, Active
      <4>2. f = g
        BY <2>1, <4>1 DEF ChargeInv, OneOwner
      <4> QED
        BY <2>1, <3>2, <4>2
    <3> QED
      BY <3>1, <3>2 DEF ChargeContext, OwedMoves
  <2>2. CASE InHand(f)'
    <3>1. CASE \E a \in Actions : Accepted(f, a)
      <4>1. owed = {}
        BY <1>2, <3>1, FreshNumber DEF Idle
      <4>2. \A g \in Frames : at[g] # "binding"
        BY <1>5, <3>1, FreshNumber, FrameFacts DEF Idle, ChargeContext, Tasked
      <4> QED
        BY <4>1, <4>2 DEF ChargeContext, OwedMoves
    <3>2. CASE InHand(f) /\ KeepsOp(f)
      <4>1. at'[f] # "calling"
        BY <2>2 DEF InHand, ChargeContext, Follows
      <4> QED
        BY <2>1, <3>2, <4>1
    <3> QED
      BY <2>2, <3>1, <3>2 DEF ChargeContext, Provenance
  <2>3. CASE at'[f] = "settling" /\ work'[f].op = pending'.op
    <3>1. work'[f].op \in Workers /\ work'[f].op # 0 /\ pending' # Idle /\ at'[f] # "calling"
      <4>1. work'[f].op \in Workers
        BY <2>3 DEF ChargeContext, Tasked
      <4>2. work'[f].op # 0
        BY <4>1, FrameFacts
      <4> QED
        BY <2>3, <4>1, <4>2 DEF Idle
    <3>2. CASE pending' # pending
      BY <1>4, <3>2
    <3>3. CASE pending' = pending /\ at[f] = "settling" /\ KeepsOp(f)
      <4>1. work[f].op = pending.op
        BY <2>3, <3>3 DEF KeepsOp
      <4>2. owed = {}
        BY <1>1, <3>3, <4>1 DEF ChargeInv, OwedToActive
      <4>3. ASSUME NEW g \in Frames, at[g] = "binding" PROVE FALSE
        <5>1. InHand(g) /\ work[f].op = work[g].op
          BY <1>5, <4>1, <4>3
        <5>2. f = g
          BY <5>1 DEF ChargeInv, OneOwner
        <5> QED
          BY <3>3, <4>3, <5>2
      <4> QED
        BY <4>2, <4>3 DEF ChargeContext, OwedMoves
    <3>4. CASE pending' = pending /\ ToSettling(f)
      <4>1. CASE KeepsOp(f) /\ InHand(f)
        BY <2>1, <3>1, <4>1
      <4>2. CASE KeepsOp(f) /\ at[f] \in WorkerStages /\ owed' = owed
        <5>1. pending.action \in WorkerActions
          BY <1>1, <4>2 DEF ChargeInv, Active, ChargeContext, AsWorker, WorkerStages
        <5> QED
          BY <1>2, <4>2, <5>1 DEF WorkerActions
      <4>3. CASE KeepsOp(f) /\ at[f] = "calling" /\ owed' = owed \ {work[f].action}
        <5>1. work[f].action = pending.action
          BY <2>3, <3>1, <3>4, <4>3 DEF KeepsOp, ChargeInv, OneOwner
        <5> QED
          BY <1>2, <4>3, <5>1
      <4>4. CASE owed' = owed \ {pending.action}
        BY <1>2, <4>4
      <4> QED
        BY <3>4, <4>1, <4>2, <4>3, <4>4 DEF ToSettling
    <3> QED
      BY <2>3, <3>2, <3>3, <3>4 DEF ChargeContext, Onward
  <2> QED
    BY <1>7, <2>2, <2>3
<1> QED
  BY <1>6, <1>7 DEF OwedToActive, Announced

LEMMA ChargeStep ==
  ASSUME FrameInv, Stacked, ChargeInv, \A g \in Frames : at[g] = "binding" => Announced(work[g].op), Next
  PROVE  ChargeInv'
<1>1. ChargeContext
  BY InContext
<1>2. OneOwner'
  BY <1>1, OwnersStep, WorkersAloneStep, PendingOwnersStep DEF OneOwner
<1>3. Active' /\ OwedToActive'
  BY <1>1, ActiveStep, OwedStep
<1>4. \A f \in Frames : CloseIn(f) => life' # "alive"
  BY DEF CloseIn
<1>5. Closing'
  BY <1>1, <1>4 DEF ChargeContext, ChargeInv, Closing, Onward
<1> QED
  BY <1>2, <1>3, <1>5 DEF ChargeInv

-----------------------------------------------------------------------------
(***************************************************************************)
(* Announcements.                                                          *)
(***************************************************************************)
\* A frame that has nothing to emit, and no more to dispatch afterwards, keeps
\* its promise if the host heard its operation accepted when that matters.
LEMMA QuietFrame ==
  ASSUME NEW f \in Frames, out'[f] = <<>>, work'[f].next # "dispatching",
         at'[f] \in {"dispatching", "joining", "binding", "calling", "settling"} \cup WorkerStages
           => \E e \in heard' : e.op = work'[f].op /\ e.phase = "accepted"
  PROVE  Announcements(f)'
<1>1. \A i \in DOMAIN out'[f] : FALSE
  OBVIOUS
<1> QED
  BY <1>1 DEF Announcements, Announced

LEMMA SameAnnouncements ==
  ASSUME NEW f \in Frames, Announcements(f), Same(f), heard \subseteq heard'
  PROVE  Announcements(f)'
<1>1. Announced(work[f].op) => \E e \in heard' : e.op = work'[f].op /\ e.phase = "accepted"
  BY DEF Announced, Same
<1>2. \A i \in DOMAIN out[f] : out[f][i].phase = "settled" =>
        \/ \E e \in heard' : e.op = out[f][i].op /\ e.phase = "accepted"
        \/ i = 2 /\ out[f][1].phase = "accepted" /\ out[f][1].op = out[f][i].op
  BY DEF Announced, Announcements
<1> QED
  BY <1>1, <1>2 DEF Same, Announcements, Announced

LEMMA AnnouncementsStep ==
  ASSUME FrameInv, Stacked, ChargeInv, \A g \in Frames : Announcements(g), Next
  PROVE  \A g \in Frames : Announcements(g)'
<1>1. /\ TypeOK /\ FramesTyped /\ OthersTyped
      /\ \A g \in Frames : Shaped(g) /\ Follows(g) /\ Tasked(g) /\ AsWorker(g)
  BY TypedParts DEF FrameInv, Shaped
<1>2. /\ heard \subseteq heard'
      /\ \A f \in Frames : work[f].next \in {"leaving", "dispatching", "handling"}
  BY <1>1, EffectStep DEF FramesTyped, Works
<1>3. ASSUME NEW f \in Frames, \A g \in Frames : g # f => Same(g), Announcements(f)'
      PROVE  \A g \in Frames : Announcements(g)'
  BY <1>2, <1>3, SameAnnouncements
<1>4. ASSUME NEW f \in Frames,
             at[f] \in {"dispatching", "joining", "binding", "calling", "settling"} \cup WorkerStages
      PROVE  /\ out[f] = <<>> /\ work[f].next # "dispatching"
             /\ \E e \in heard' : e.op = work[f].op /\ e.phase = "accepted"
  <2>1. out[f] = <<>> /\ work[f].next # "dispatching"
    BY <1>1, <1>4 DEF Follows, WorkerStages
  <2>2. Announced(work[f].op)
    BY <1>4 DEF Announcements
  <2> QED
    BY <1>2, <2>1, <2>2 DEF Announced
<1>5. ASSUME NEW f \in Frames, NEW a \in Actions, Begin(f, a) PROVE \A g \in Frames : Announcements(g)'
  <2>1. Answers(f, a) \/ Accepted(f, a)
    BY <1>1, <1>5, BeginEffect
  <2>2. \A g \in Frames : g # f => Same(g)
    BY <1>1, <2>1 DEF Answers, Accepted, Undertakes, FramesTyped, Same
  <2>3. /\ sequence + 1 \in Nat /\ sequence + 2 \in Nat /\ sequence + 1 + 1 \in Nat
        /\ Thread(f) \in Threads
    BY <1>1, FrameFacts DEF OthersTyped
  <2>4. CASE Answers(f, a)
    <3>1. /\ at'[f] = "emitting" /\ work'[f] = NoWork
          /\ \/ out'[f] = <<Event(sequence + 1, sequence + 1, "rejected", Thread(f))>>
             \/ out'[f] = <<Event(sequence + 1, sequence + 1, "accepted", Thread(f)),
                            Event(sequence + 1 + 1, sequence + 1, "settled", Thread(f))>>
      BY <1>1, <2>4 DEF Answers, Undertakes, FramesTyped
    <3>2. Announcements(f)'
      BY <2>3, <3>1, EventTyped DEF Announcements, NoWork, WorkerStages
    <3> QED
      BY <1>3, <2>2, <3>2
  <2>5. CASE Accepted(f, a)
    <3>1. /\ at'[f] = "emitting" /\ work'[f].op = sequence + 1
          /\ out'[f] = <<Event(sequence + 1, sequence + 1, "accepted", Thread(f))>>
      BY <1>1, <2>5, AcceptedValues
    <3>2. Announcements(f)'
      BY <2>3, <3>1, EventTyped DEF Announcements, WorkerStages
    <3> QED
      BY <1>3, <2>2, <3>2
  <2> QED
    BY <2>1, <2>4, <2>5
<1>6. ASSUME NEW f \in Frames, CloseIn(f) PROVE \A g \in Frames : Announcements(g)'
  <2>1. /\ at[f] = "none" /\ at' = [at EXCEPT ![f] = "resetting"] /\ UNCHANGED <<work, out>>
    BY <1>6 DEF CloseIn, Step
  <2>2. /\ at'[f] = "resetting" /\ work'[f] = NoWork /\ out'[f] = <<>>
        /\ \A g \in Frames : g # f => Same(g)
    BY <1>1, <2>1 DEF FramesTyped, Follows, Same
  <2>3. Announcements(f)'
    BY <2>2, QuietFrame DEF NoWork, WorkerStages
  <2> QED
    BY <1>3, <2>2, <2>3
<1>7. ASSUME NEW f \in Frames, Emit(f) PROVE \A g \in Frames : Announcements(g)'
  <2>1. /\ at[f] = "emitting" /\ at'[f] = "handling" /\ work'[f] = work[f]
        /\ out'[f] = Tail(out[f]) /\ heard' = heard \cup {Head(out[f])}
        /\ \A g \in Frames : g # f => Same(g)
    BY <1>1, <1>7 DEF Emit, Runs, FramesTyped, Same
  <2>2. PICK s \in Seq(Events) : s = out[f] /\ s # <<>>
    BY <1>1, <2>1 DEF FramesTyped, Follows
  <2>3. /\ Head(s) = s[1] /\ Len(s) \in Nat \ {0} /\ DOMAIN s = 1 .. Len(s)
        /\ Len(Tail(s)) = Len(s) - 1 /\ DOMAIN Tail(s) = 1 .. (Len(s) - 1)
        /\ \A i \in 1 .. (Len(s) - 1) : Tail(s)[i] = s[i + 1]
    BY <2>2, HeadTailProperties, LenProperties
  <2>4. work[f].next = "dispatching" => Tail(s) = <<>> /\ s[1].phase = "accepted" /\ s[1].op = work[f].op
    <3>1. ASSUME Len(s) = 1 PROVE Tail(s) = <<>>
      <4>1. Tail(s) \in Seq(Events) /\ Len(Tail(s)) = 0
        BY <2>2, <2>3, <3>1, HeadTailProperties
      <4> QED
        BY <4>1, EmptySeq
    <3> QED
      BY <2>1, <2>2, <3>1 DEF Announcements
  <2>5. ASSUME NEW i \in DOMAIN Tail(s), Tail(s)[i].phase = "settled"
        PROVE  \E e \in heard' : e.op = Tail(s)[i].op /\ e.phase = "accepted"
    <3>1. i \in Nat /\ i + 1 \in DOMAIN s /\ Tail(s)[i] = s[i + 1]
      BY <2>3
    <3>2. Announced(s[i + 1].op) \/ (s[1].phase = "accepted" /\ s[1].op = s[i + 1].op)
      BY <2>2, <2>5, <3>1 DEF Announcements
    <3> QED
      BY <2>1, <2>2, <2>3, <3>1, <3>2 DEF Announced
  <2>6. Announcements(f)'
    <3>1. work'[f].next = "dispatching" =>
            out'[f] = <<>> /\ \E e \in heard' : e.op = work'[f].op /\ e.phase = "accepted"
      BY <2>1, <2>2, <2>3, <2>4
    <3> QED
      BY <2>1, <2>2, <2>5, <3>1 DEF Announcements, Announced, WorkerStages
  <2> QED
    BY <1>3, <2>1, <2>6
<1>8. ASSUME NEW f \in Frames, at[f] \in {"handling", "settling"}, out[f] = <<>>, Proceeds(f)
      PROVE  \A g \in Frames : Announcements(g)'
  <2>1. /\ at'[f] = work[f].next /\ out'[f] = <<>> /\ work'[f].next = "leaving"
        /\ work'[f].op = work[f].op /\ \A g \in Frames : g # f => Same(g)
    BY <1>1, <1>8 DEF Proceeds, FramesTyped, Works, Same
  <2>2. work[f].next = "dispatching" => \E e \in heard' : e.op = work[f].op /\ e.phase = "accepted"
    <3>1. work[f].next = "dispatching" => Announced(work[f].op)
      BY <1>8 DEF Announcements
    <3> QED
      BY <1>2, <3>1 DEF Announced
  <2>3. Announcements(f)'
    BY <1>2, <2>1, <2>2, QuietFrame DEF WorkerStages
  <2> QED
    BY <1>3, <2>1, <2>3
<1>9. ASSUME NEW f \in Frames, HandlerReturns(f) PROVE \A g \in Frames : Announcements(g)'
  <2>1. CASE out[f] = <<>>
    BY <1>8, <1>9, <2>1 DEF HandlerReturns, Runs, Proceed, Proceeds
  <2>2. CASE out[f] # <<>>
    <3>1. /\ at[f] = "handling" /\ at'[f] = "emitting" /\ work'[f] = work[f] /\ out'[f] = out[f]
          /\ heard' = heard /\ \A g \in Frames : g # f => Same(g)
      BY <1>1, <1>9, <2>2 DEF HandlerReturns, Runs, FramesTyped, Same
    <3>2. work[f].next # "dispatching"
      BY <2>2, <3>1 DEF Announcements
    <3>3. \A i \in DOMAIN out[f] : out[f][i].phase = "settled" =>
            \/ \E e \in heard : e.op = out[f][i].op /\ e.phase = "accepted"
            \/ i = 2 /\ out[f][1].phase = "accepted" /\ out[f][1].op = out[f][i].op
      BY DEF Announced, Announcements
    <3>4. Announcements(f)'
      BY <3>1, <3>2, <3>3 DEF Announcements, Announced, WorkerStages
    <3> QED
      BY <1>3, <3>1, <3>4
  <2> QED
    BY <2>1, <2>2
<1>10. ASSUME NEW f \in Frames, Settle(f) PROVE \A g \in Frames : Announcements(g)'
  <2>1. at[f] = "settling" /\ out[f] = <<>> /\ (Settles(f) \/ Proceeds(f))
    BY <1>1, <1>10, SettleEffect DEF Follows
  <2>2. CASE Settles(f)
    <3>1. /\ at'[f] = "emitting" /\ work'[f] = work[f]
          /\ out'[f] = <<Event(sequence + 1, work[f].op, "settled", Thread(f))>>
          /\ \A g \in Frames : g # f => Same(g)
      BY <1>1, <2>2 DEF Settles, Undertakes, FramesTyped, Same
    <3>2. Event(sequence + 1, work[f].op, "settled", Thread(f)).op = work[f].op
      BY DEF Event
    <3>3. /\ work[f].next # "dispatching"
          /\ \E e \in heard' : e.op = work[f].op /\ e.phase = "accepted"
      BY <1>4, <2>1
    <3>4. \A i \in DOMAIN out'[f] : out'[f][i].op = work[f].op
      BY <3>1, <3>2
    <3>5. Announcements(f)'
      BY <3>1, <3>3, <3>4 DEF Announcements, Announced, WorkerStages
    <3> QED
      BY <1>3, <3>1, <3>5
  <2> QED
    BY <1>8, <2>1, <2>2
<1>11. ASSUME NEW f \in Frames, out' = out, DispatchWalks(f) \/ WorkerWalks(f) \/ DestructorWalks(f)
       PROVE  \A g \in Frames : Announcements(g)'
  <2>1. \A g \in Frames : g # f => Same(g)
    BY <1>1, <1>11, WalksShaped
  <2>2. /\ work'[f].op = work[f].op /\ out'[f] = out[f]
        /\ work'[f].next = work[f].next \/ work'[f].next = "leaving"
    BY <1>1, <1>11, MoveValues DEF DispatchWalks, WorkerWalks, DestructorWalks
  <2>3. CASE DispatchWalks(f) \/ WorkerWalks(f)
    <3>1. at[f] \in {"dispatching", "joining", "binding", "calling", "settling"} \cup WorkerStages
      BY <2>3 DEF DispatchWalks, WorkerWalks, WorkerStages
    <3>2. Announcements(f)'
      BY <1>4, <2>2, <3>1, QuietFrame
    <3> QED
      BY <1>3, <2>1, <3>2
  <2>4. CASE DestructorWalks(f)
    <3>1. at[f] \in DestructorStages /\ at'[f] \in DestructorStages
      BY <1>1, <2>4, MoveValues DEF DestructorWalks, DestructorStages
    <3>2. out[f] = <<>> /\ work[f].next # "dispatching"
      BY <1>1, <3>1 DEF Follows, DestructorStages
    <3>3. Announcements(f)'
      BY <2>2, <3>1, <3>2, QuietFrame DEF DestructorStages, WorkerStages
    <3> QED
      BY <1>3, <2>1, <3>3
  <2> QED
    BY <1>11, <2>3, <2>4
<1>12. ASSUME NEW f \in Frames, Dispatcher(f) \/ Worker(f) \/ Destructor(f)
       PROVE  \A g \in Frames : Announcements(g)'
  BY <1>1, <1>11, <1>12, DispatcherEffect, WorkerEffect, DestructorEffect
<1>13. ASSUME NEW f \in Frames, Launch(f) PROVE \A g \in Frames : Announcements(g)'
  <2>1. /\ at[f] = "joining" /\ out' = out /\ out'[f] = out[f]
        /\ Concludes(f) \/ \E b \in Frames : Starts(f, b)
    BY <1>1, <1>13, LaunchEffect, LaunchStarts
  <2>2. /\ out[f] = <<>> /\ work[f].next # "dispatching"
        /\ \E e \in heard' : e.op = work[f].op /\ e.phase = "accepted"
    BY <1>4, <2>1
  <2>3. CASE Concludes(f)
    <3>1. /\ work'[f].op = work[f].op /\ work'[f].next = "leaving"
          /\ \A g \in Frames : g # f => Same(g)
      BY <1>1, <2>1, <2>3, MoveValues
    <3>2. Announcements(f)'
      BY <2>1, <2>2, <3>1, QuietFrame
    <3> QED
      BY <1>3, <3>1, <3>2
  <2>4. ASSUME NEW b \in Frames, Starts(f, b) PROVE \A g \in Frames : Announcements(g)'
    <3>1. /\ work'[f] = work[f] /\ work'[b] = work[f] /\ out'[b] = <<>>
          /\ \A g \in Frames : g # f /\ g # b => Same(g)
      BY <1>1, <2>1, <2>4 DEF Starts, Follows
    <3>2. Announcements(f)' /\ Announcements(b)'
      BY <2>1, <2>2, <3>1, QuietFrame
    <3> QED
      BY <1>2, <3>1, <3>2, SameAnnouncements
  <2> QED
    BY <2>1, <2>3, <2>4
<1>14. ASSUME NEW f \in Frames, Leave(f) PROVE \A g \in Frames : Announcements(g)'
  <2>1. /\ at[f] = "leaving" /\ at'[f] \in {"none", "ended"} /\ work'[f] = NoWork /\ out'[f] = out[f]
        /\ \A g \in Frames : g # f => Same(g)
    BY <1>1, <1>14 DEF Leave, Runs, Step, FramesTyped, Same
  <2>2. out[f] = <<>>
    BY <1>1, <2>1 DEF Follows
  <2>3. Announcements(f)'
    BY <2>1, <2>2, QuietFrame DEF NoWork, WorkerStages
  <2> QED
    BY <1>3, <2>1, <2>3
<1>15. ASSUME NEW f \in Frames, f = <<Ffi, 0>>, at[f] = "none", out'[f] = out[f],
              \A g \in Frames : g # f => Same(g), at'[f] \in {"none", "handling"}, work'[f] = work[f]
       PROVE  \A g \in Frames : Announcements(g)'
  <2>1. out[f] = <<>> /\ work'[f] = NoWork
    BY <1>1, <1>15 DEF Follows
  <2>2. Announcements(f)'
    BY <1>15, <2>1, QuietFrame DEF NoWork, WorkerStages
  <2> QED
    BY <1>3, <1>15, <2>2
<1>16. ASSUME NEW a \in {"start", "stop"}, Completion(a) PROVE \A g \in Frames : Announcements(g)'
  <2>1. PICK f \in Frames : f = <<Ffi, 0>>
    BY FrameFacts
  <2>2. /\ at[f] = "none" /\ out'[f] = out[f] /\ a \in owed
        /\ \A g \in Frames : g # f => Same(g)
    BY <1>1, <1>16, <2>1 DEF Completion, Step, FramesTyped, Same
  <2>3. CASE life = "alive" /\ pending.action = a
    <3>1. PICK goal \in {"running", "stopped"} :
            /\ work' = [work EXCEPT ![f] =
                 [op |-> pending.op, action |-> a, next |-> "handling", goal |-> goal]]
      BY <1>16, <2>1, <2>3 DEF Completion, Step
    <3>2. work'[f].op = pending.op /\ work'[f].next = "handling"
      BY <1>1, <3>1 DEF FramesTyped
    <3>3. Announced(pending.op)
      BY <2>2, <2>3 DEF ChargeInv, OwedToActive
    <3>4. Announcements(f)'
      BY <1>1, <1>2, <2>2, <3>2, <3>3, QuietFrame DEF Announced, Follows
    <3> QED
      BY <1>3, <2>2, <3>4
  <2>4. CASE ~(life = "alive" /\ pending.action = a)
    <3>1. work' = work /\ (at' = at \/ at' = [at EXCEPT ![f] = "handling"])
      BY <1>16, <2>1, <2>4 DEF Completion, Step
    <3> QED
      BY <1>1, <1>15, <2>1, <2>2, <3>1 DEF FramesTyped
  <2> QED
    BY <2>3, <2>4
<1>17. CASE Notification
  <2>1. PICK f \in Frames : f = <<Ffi, 0>>
    BY FrameFacts
  <2>2. at[f] = "none" /\ at' = [at EXCEPT ![f] = "handling"] /\ UNCHANGED <<work, out>>
    BY <1>17, <2>1 DEF Notification, Step
  <2>3. \A g \in Frames : g # f => Same(g)
    BY <1>1, <2>2 DEF FramesTyped, Same
  <2> QED
    BY <1>1, <1>15, <2>1, <2>2, <2>3 DEF FramesTyped
<1>18. (\E f \in Frames : Vanish(f)) \/ (\E u \in Users : UserTests(u) \/ UserCalls(u))
         => \A g \in Frames : Same(g)
  BY DEF Vanish, UserTests, UserCalls, frames, Same
<1> QED
  BY <1>2, <1>5, <1>6, <1>7, <1>9, <1>10, <1>12, <1>13, <1>14, <1>16, <1>17, <1>18, NextCases,
     SameAnnouncements

LEMMA HeardStep ==
  ASSUME FrameInv, Next
  PROVE  heard' = heard \/ \E f \in Frames : Emit(f)
<1>1. TypeOK
  BY DEF FrameInv
<1>2. ASSUME NEW f \in Frames, NEW a \in Actions, Begin(f, a) PROVE heard' = heard
  BY <1>1, <1>2, BeginEffect DEF Elsewhere
<1>3. ASSUME NEW f \in Frames, Settle(f) PROVE heard' = heard
  BY <1>1, <1>3, SettleEffect DEF Elsewhere
<1>4. ASSUME NEW f \in Frames, Dispatcher(f) \/ Worker(f) \/ Destructor(f) \/ Launch(f)
      PROVE  heard' = heard
  BY <1>1, <1>4, DispatcherEffect, WorkerEffect, DestructorEffect, LaunchEffect
<1>5. ASSUME NEW f \in Frames, CloseIn(f) \/ HandlerReturns(f) \/ Leave(f) \/ Vanish(f)
      PROVE  heard' = heard
  BY <1>5 DEF CloseIn, HandlerReturns, Leave, Vanish
<1>6. (\E a \in {"start", "stop"} : Completion(a)) \/ Notification
        \/ (\E u \in Users : UserTests(u) \/ UserCalls(u)) => heard' = heard
  BY DEF Completion, Notification, UserTests, UserCalls
<1> QED
  BY <1>2, <1>3, <1>4, <1>5, <1>6, NextCases

OperationsInv ==
  FrameInv /\ Stacked /\ ChargeInv /\ (\A f \in Frames : Announcements(f)) /\ AcceptedFirst

LEMMA OperationsInit == Init => OperationsInv
<1> SUFFICES ASSUME Init PROVE OperationsInv
  OBVIOUS
<1>1. \A f \in Frames : Announcements(f)
  BY DEF Init, Announcements, NoWork, WorkerStages
<1>2. AcceptedFirst
  BY DEF Init, AcceptedFirst
<1> QED
  BY <1>1, <1>2, ThreadsInit DEF OperationsInv

LEMMA OperationsStep == OperationsInv /\ [Next]_vars => OperationsInv'
<1> SUFFICES ASSUME OperationsInv, [Next]_vars PROVE OperationsInv'
  OBVIOUS
<1>1. FrameInv /\ Stacked /\ ChargeInv /\ (\A f \in Frames : Announcements(f)) /\ AcceptedFirst
  BY DEF OperationsInv
<1>2. FrameInv' /\ Stacked'
  BY <1>1, FrameStep, StackedStep
<1>3. CASE Next
  <2>1. ChargeInv'
    BY <1>1, <1>3, ChargeStep DEF Announcements
  <2>2. \A f \in Frames : Announcements(f)'
    BY <1>1, <1>3, AnnouncementsStep
  <2>3. CASE heard' = heard
    BY <1>1, <1>2, <2>1, <2>2, <2>3 DEF OperationsInv, AcceptedFirst
  <2>4. ASSUME NEW f \in Frames, Emit(f) PROVE AcceptedFirst'
    <3>1. at[f] = "emitting" /\ heard' = heard \cup {Head(out[f])}
      BY <2>4 DEF Emit, Runs
    <3>2. out[f] \in Seq(Events) /\ out[f] # <<>>
      BY <1>1, <3>1 DEF FrameInv, TypeOK, Shaped, Follows
    <3>3. Head(out[f]) = out[f][1] /\ 1 \in DOMAIN out[f]
      BY <3>2, EmptySeq, LenProperties
    <3>4. out[f][1].phase = "settled" => \E e \in heard : e.op = out[f][1].op /\ e.phase = "accepted"
      BY <1>1, <3>3 DEF Announcements, Announced
    <3> QED
      BY <1>1, <3>1, <3>3, <3>4 DEF AcceptedFirst
  <2> QED
    BY <1>1, <1>2, <1>3, <2>1, <2>2, <2>3, <2>4, HeardStep DEF OperationsInv
<1>4. CASE UNCHANGED vars
  <2>1. ChargeInv'
    BY <1>1, <1>4 DEF vars, frames, node, ChargeInv, Active, OneOwner, OwedToActive, Closing, InHand,
                      Announced
  <2>2. \A f \in Frames : Announcements(f)'
    BY <1>1, <1>4 DEF vars, frames, Announcements, Announced
  <2>3. AcceptedFirst'
    BY <1>1, <1>4 DEF vars, AcceptedFirst
  <2> QED
    BY <1>2, <2>1, <2>2, <2>3 DEF OperationsInv
<1> QED
  BY <1>3, <1>4

\* However fast the worker or the callback that settles an operation is, the
\* host has heard before that the operation was accepted: nodeAction() emits
\* first and dispatches then, and a handler that calls nodeAction() again
\* cannot get at the operation in between.
THEOREM AcceptedIsHeardFirst == Spec => []AcceptedFirst
<1>1. OperationsInv => AcceptedFirst
  BY DEF OperationsInv
<1> QED
  BY <1>1, OperationsInit, OperationsStep, PTL DEF Spec

-----------------------------------------------------------------------------
(***************************************************************************)
(* Events: a frame gets one or two with the next numbers when it has none, *)
(* and the first it has is emitted.                                        *)
(***************************************************************************)
Gets(f, s) ==
  /\ out[f] = <<>> /\ out'[f] = s /\ \A g \in Frames : g # f => out'[g] = out[g]
  /\ s \in Seq(Events) /\ Len(s) \in {1, 2} /\ sequence' = sequence + Len(s) /\ heard' = heard
  /\ \A i \in 1 .. Len(s) : s[i].n = sequence + i /\ s[i].by = Thread(f)

Gives(f) ==
  /\ at[f] = "emitting" /\ out[f] # <<>> /\ out[f] \in Seq(Events)
  /\ out'[f] = Tail(out[f]) /\ \A g \in Frames : g # f => out'[g] = out[g]
  /\ heard' = heard \cup {Head(out[f])} /\ sequence' = sequence

EventsRest == heard' = heard /\ sequence' = sequence /\ \A g \in Frames : out'[g] = out[g]

LEMMA EventCases ==
  ASSUME FrameInv, Stacked, Next
  PROVE  \/ EventsRest
         \/ \E f \in Frames : Gives(f)
         \/ \E f \in Frames, s \in Seq(Events) : Gets(f, s)
<1>1. /\ TypeOK /\ FramesTyped /\ OthersTyped /\ sequence \in Nat /\ sequence + 0 = sequence
      /\ \A g \in Frames : Follows(g)
  BY TypedParts DEF FrameInv, Shaped, OthersTyped
<1>2. ASSUME NEW f \in Frames, NEW a \in Actions, Begin(f, a)
      PROVE  \E s \in Seq(Events) : Gets(f, s)
  <2>1. /\ at[f] = "none" /\ heard' = heard /\ (Answers(f, a) \/ Accepted(f, a))
    BY <1>1, <1>2, BeginEffect DEF Elsewhere
  <2>2. out[f] = <<>>
    BY <1>1, <2>1 DEF Follows
  <2> DEFINE op == sequence + 1
             rejected == Event(op, op, "rejected", Thread(f))
             accepted == Event(op, op, "accepted", Thread(f))
             settled == Event(op + 1, op, "settled", Thread(f))
  <2>3. /\ rejected \in Events /\ rejected.n = sequence + 1 /\ rejected.by = Thread(f)
        /\ accepted \in Events /\ accepted.n = sequence + 1 /\ accepted.by = Thread(f)
        /\ settled \in Events /\ settled.n = sequence + 2 /\ settled.by = Thread(f)
    <3>1. op \in Nat /\ op + 1 \in Nat /\ op + 1 = sequence + 2 /\ Thread(f) \in Threads
      BY <1>1, FrameFacts
    <3> QED
      BY <3>1, EventTyped
  <2>4. ASSUME NEW what, NEW events \in {<<rejected>>, <<accepted>>, <<accepted, settled>>},
               Undertakes(f, what, events)
        PROVE  Gets(f, events)
    <3>1. /\ events \in Seq(Events) /\ Len(events) \in {1, 2}
          /\ \A i \in 1 .. Len(events) : events[i].n = sequence + i /\ events[i].by = Thread(f)
      <4> HIDE DEF rejected, accepted, settled
      <4>1. CASE events = <<rejected>> \/ events = <<accepted>>
        BY <2>3, <4>1
      <4>2. CASE events = <<accepted, settled>>
        BY <2>3, <4>2
      <4> QED
        BY <4>1, <4>2
    <3>2. /\ out' = [out EXCEPT ![f] = events] /\ sequence' = sequence + Len(events)
      BY <2>4 DEF Undertakes
    <3> QED
      BY <1>1, <2>1, <2>2, <3>1, <3>2 DEF Gets, FramesTyped
  <2>5. CASE Answers(f, a)
    BY <2>4, <2>5 DEF Answers, Undertakes
  <2>6. CASE Accepted(f, a)
    BY <2>4, <2>6 DEF Accepted, Undertakes
  <2> QED
    BY <2>1, <2>5, <2>6
<1>3. ASSUME NEW f \in Frames, Settle(f)
      PROVE  EventsRest \/ \E s \in Seq(Events) : Gets(f, s)
  <2>1. at[f] = "settling" /\ heard' = heard /\ (Settles(f) \/ Proceeds(f))
    BY <1>1, <1>3, SettleEffect DEF Elsewhere
  <2>2. CASE Settles(f)
    <3> DEFINE settled == Event(sequence + 1, work[f].op, "settled", Thread(f))
    <3>1. settled \in Events /\ settled.n = sequence + 1 /\ settled.by = Thread(f)
      <4>1. sequence + 1 \in Nat /\ work[f].op \in Nat /\ Thread(f) \in Threads
        BY <1>1, FrameFacts DEF FramesTyped, Works
      <4> QED
        BY <4>1, EventTyped
    <3>2. /\ out' = [out EXCEPT ![f] = <<settled>>] /\ sequence' = sequence + Len(<<settled>>)
          /\ out[f] = <<>>
      BY <1>1, <2>1, <2>2 DEF Settles, Undertakes, Follows
    <3> HIDE DEF settled
    <3>3. Gets(f, <<settled>>) /\ <<settled>> \in Seq(Events)
      BY <1>1, <2>1, <3>1, <3>2 DEF Gets, FramesTyped
    <3> QED
      BY <3>3
  <2>3. CASE Proceeds(f)
    BY <2>1, <2>3 DEF Proceeds, node, EventsRest
  <2> QED
    BY <2>1, <2>2, <2>3
<1>4. ASSUME NEW f \in Frames, Emit(f) PROVE Gives(f)
  BY <1>1, <1>4 DEF Emit, Runs, Gives, FramesTyped, Follows, node
<1>5. ASSUME NEW f \in Frames, Dispatcher(f) \/ Worker(f) \/ Destructor(f) \/ Launch(f)
      PROVE  EventsRest
  BY <1>1, <1>5, DispatcherEffect, WorkerEffect, DestructorEffect, LaunchEffect DEF EventsRest, node
<1>6. ASSUME NEW f \in Frames, CloseIn(f) \/ HandlerReturns(f) \/ Leave(f) \/ Vanish(f)
      PROVE  EventsRest
  BY <1>6 DEF CloseIn, HandlerReturns, Leave, Vanish, node, frames, EventsRest
<1>7. (\E a \in {"start", "stop"} : Completion(a)) \/ Notification
        \/ (\E u \in Users : UserTests(u) \/ UserCalls(u)) => EventsRest
  BY DEF Completion, Notification, UserTests, UserCalls, node, frames, EventsRest
<1> QED
  BY <1>2, <1>3, <1>4, <1>5, <1>6, <1>7, NextCases

LEMMA EventsInit == Init => EventsInv
<1> SUFFICES ASSUME Init PROVE EventsInv
  OBVIOUS
<1>1. sequence = 0 /\ heard = {} /\ \A f \in Frames : out[f] = <<>> /\ Len(out[f]) = 0
  BY DEF Init
<1>2. \A f \in Frames, e \in Events : ~Holds(f, e)
  BY <1>1 DEF Holds
<1>3. \A n \in 1 .. sequence : FALSE
  BY <1>1
<1> QED
  BY <1>1, <1>2, <1>3 DEF EventsInv

\* Every event with one of the new numbers is one of the new events.
LEMMA GetsStep ==
  ASSUME sequence \in Nat, heard \subseteq Events, EventsInv,
         NEW f \in Frames, NEW s \in Seq(Events), Gets(f, s)
  PROVE  EventsInv'
<1>1. /\ Len(s) \in {1, 2} /\ DOMAIN s = 1 .. Len(s) /\ sequence' = sequence + Len(s)
      /\ sequence' \in Nat /\ sequence < sequence' /\ heard' = heard
      /\ \A i \in DOMAIN s : /\ s[i].n = sequence + i /\ s[i].by = Thread(f) /\ s[i] \in Events
                             /\ s[i].n \in 1 .. sequence' /\ s[i].n > sequence
      /\ \A i, j \in DOMAIN s : s[i].n = s[j].n => i = j
      /\ \A n \in 1 .. sequence' : n \in 1 .. sequence \/ \E i \in DOMAIN s : n = s[i].n
  <2>1. /\ Len(s) \in {1, 2} /\ DOMAIN s = 1 .. Len(s) /\ sequence' = sequence + Len(s)
        /\ heard' = heard /\ \A i \in DOMAIN s : s[i].n = sequence + i /\ s[i].by = Thread(f)
    BY LenProperties DEF Gets
  <2>2. \A i \in DOMAIN s : s[i] \in Events
    BY <2>1, ElementOfSeq
  <2>3. CASE Len(s) = 1
    <3>1. DOMAIN s = {1} /\ sequence' = sequence + 1
      BY <2>1, <2>3
    <3> QED
      BY <2>1, <2>2, <3>1
  <2>4. CASE Len(s) = 2
    <3>1. DOMAIN s = {1, 2} /\ sequence' = sequence + 2
      BY <2>1, <2>4
    <3> QED
      BY <2>1, <2>2, <3>1
  <2> QED
    BY <2>1, <2>3, <2>4
<1>2. \A e \in Events : /\ Holds(f, e)' <=> \E i \in DOMAIN s : s[i] = e
                        /\ ~Holds(f, e)
                        /\ \A g \in Frames : g # f => (Holds(g, e)' <=> Holds(g, e))
  BY DEF Gets, Holds
<1>3. \A g \in Frames, e \in Events :
        Holds(g, e)' => Holds(g, e) \/ (g = f /\ \E i \in DOMAIN s : s[i] = e)
  BY <1>2
<1>4. \A g \in Frames, e \in Events : Holds(g, e)' => e.n \in 1 .. sequence' /\ e.by = Thread(g)
  <2>1. \A n \in 1 .. sequence : n \in 1 .. sequence'
    BY <1>1
  <2> QED
    BY <1>1, <1>3, <2>1 DEF EventsInv
<1>5. \A e \in heard' : e.n \in 1 .. sequence'
  <2>1. \A n \in 1 .. sequence : n \in 1 .. sequence'
    BY <1>1
  <2> QED
    BY <1>1, <2>1 DEF EventsInv
<1>6. ASSUME NEW n \in 1 .. sequence'
      PROVE  \E e \in Events : e.n = n /\ (e \in heard' \/ \E g \in Frames : Holds(g, e)')
  <2>1. CASE n \in 1 .. sequence
    <3>1. PICK e \in Events : e.n = n /\ (e \in heard \/ \E g \in Frames : Holds(g, e))
      BY <2>1 DEF EventsInv
    <3> QED
      BY <1>1, <1>2, <3>1
  <2>2. CASE \E i \in DOMAIN s : n = s[i].n
    BY <1>1, <1>2, <2>2
  <2> QED
    BY <1>1, <2>1, <2>2
<1>7. \A e, d \in heard' : e.n = d.n => e = d
  BY <1>1 DEF EventsInv
<1>8. \A n \in 1 .. sequence, i \in DOMAIN s : s[i].n # n
  BY <1>1
<1>9. \A e \in heard', d \in Events, g \in Frames : Holds(g, d)' => e.n # d.n
  BY <1>1, <1>3, <1>8 DEF EventsInv
<1>10. ASSUME NEW d \in Events, NEW e \in Events, NEW g \in Frames, NEW h \in Frames,
              Holds(g, d)', Holds(h, e)', d.n = e.n
       PROVE  g = h /\ d = e
  <2>1. CASE Holds(g, d) /\ Holds(h, e)
    BY <1>10, <2>1 DEF EventsInv
  <2>2. CASE Holds(g, d) /\ h = f /\ \E i \in DOMAIN s : s[i] = e
    BY <1>8, <1>10, <2>2 DEF EventsInv
  <2>3. CASE Holds(h, e) /\ g = f /\ \E i \in DOMAIN s : s[i] = d
    BY <1>8, <1>10, <2>3 DEF EventsInv
  <2>4. CASE g = f /\ h = f /\ (\E i \in DOMAIN s : s[i] = d) /\ (\E i \in DOMAIN s : s[i] = e)
    BY <1>1, <1>10, <2>4
  <2> QED
    BY <1>3, <1>10, <2>1, <2>2, <2>3, <2>4
<1>11. \A g \in Frames : Len(out'[g]) <= 2 /\ (Len(out'[g]) = 2 => out'[g][1].n < out'[g][2].n)
  <2>1. Len(s) <= 2 /\ (Len(s) = 2 => s[1].n < s[2].n)
    BY <1>1
  <2> QED
    BY <2>1 DEF Gets, EventsInv
<1> QED
  BY <1>4, <1>5, <1>6, <1>7, <1>9, <1>10, <1>11 DEF EventsInv

LEMMA GivesStep ==
  ASSUME heard \subseteq Events, EventsInv, NEW f \in Frames, Gives(f)
  PROVE  EventsInv'
<1>1. PICK s \in Seq(Events) :
        /\ s = out[f] /\ s # <<>> /\ out'[f] = Tail(s) /\ heard' = heard \cup {Head(s)}
        /\ sequence' = sequence /\ \A g \in Frames : g # f => out'[g] = out[g]
  BY DEF Gives
<1>2. PICK x \in Events : x = Head(s) /\ x = s[1] /\ 1 \in DOMAIN s
  BY <1>1, HeadTailProperties, LenProperties
<1>3. Len(s) \in {1, 2} /\ (Len(s) = 2 => s[1].n < s[2].n) /\ DOMAIN s = 1 .. Len(s)
  <2>1. Len(s) \in Nat /\ Len(s) # 0 /\ DOMAIN s = 1 .. Len(s)
    BY <1>1, LenProperties, EmptySeq
  <2>2. Len(s) <= 2 /\ (Len(s) = 2 => s[1].n < s[2].n)
    BY <1>1 DEF EventsInv
  <2> QED
    BY <2>1, <2>2
<1>4. PICK r \in Seq(Events) :
        /\ r = Tail(s) /\ Len(r) = Len(s) - 1 /\ DOMAIN r = 1 .. Len(r)
        /\ \A i \in 1 .. Len(r) : r[i] = s[i + 1]
  <2>1. /\ Tail(s) \in Seq(Events) /\ Len(Tail(s)) = Len(s) - 1
        /\ \A i \in 1 .. Len(Tail(s)) : Tail(s)[i] = s[i + 1]
    BY <1>1, HeadTailProperties
  <2>2. DOMAIN Tail(s) = 1 .. Len(Tail(s))
    BY <2>1, LenProperties
  <2> QED
    BY <2>1, <2>2
<1>5. /\ Len(s) = 1 => DOMAIN r = {}
      /\ Len(s) = 2 => DOMAIN r = {1} /\ r[1] = s[2]
      /\ Len(r) <= 2 /\ Len(r) # 2
  <2>1. CASE Len(s) = 1
    <3>1. Len(r) = 0
      BY <1>4, <2>1
    <3> QED
      BY <1>4, <2>1, <3>1
  <2>2. CASE Len(s) = 2
    <3>1. Len(r) = 1
      BY <1>4, <2>2
    <3>2. DOMAIN r = {1} /\ r[1] = s[2]
      BY <1>4, <3>1
    <3> QED
      BY <2>2, <3>1, <3>2
  <2> QED
    BY <1>3, <2>1, <2>2
<1>6. ASSUME NEW e \in Events
      PROVE  /\ Holds(f, e) <=> e = x \/ Holds(f, e)'
             /\ Holds(f, e)' => e.n # x.n
             /\ \A g \in Frames : g # f => (Holds(g, e)' <=> Holds(g, e))
  <2>1. CASE Len(s) = 1
    <3>1. DOMAIN s = {1}
      BY <1>3, <2>1
    <3> QED
      BY <1>1, <1>2, <1>4, <1>5, <2>1, <3>1 DEF Holds
  <2>2. CASE Len(s) = 2
    <3>1. DOMAIN s = {1, 2} /\ x.n < s[2].n /\ s[2] \in Events /\ x.n # s[2].n
      <4>1. DOMAIN s = {1, 2} /\ s[2] \in Events
        <5>1. DOMAIN s = {1, 2} /\ 2 \in 1 .. Len(s)
          BY <1>3, <2>2
        <5> QED
          BY <5>1, ElementOfSeq
      <4>2. x.n \in Nat /\ s[2].n \in Nat
        BY <4>1 DEF Events
      <4> QED
        BY <1>2, <1>3, <2>2, <4>1, <4>2
    <3>2. DOMAIN out[f] = {1, 2} /\ out[f][1] = x /\ DOMAIN out'[f] = {1} /\ out'[f][1] = out[f][2]
      BY <1>1, <1>2, <1>4, <1>5, <2>2, <3>1
    <3>3. Holds(f, e) <=> e = x \/ e = s[2]
      BY <1>1, <3>2 DEF Holds
    <3>4. Holds(f, e)' <=> e = s[2]
      BY <1>1, <3>2 DEF Holds
    <3>5. \A g \in Frames : g # f => (Holds(g, e)' <=> Holds(g, e))
      BY <1>1 DEF Holds
    <3> QED
      BY <3>1, <3>3, <3>4, <3>5
  <2> QED
    BY <1>3, <2>1, <2>2
<1>7. \A g \in Frames, e \in Events : Holds(g, e)' => Holds(g, e) /\ e.n # x.n
  <2> SUFFICES ASSUME NEW g \in Frames, NEW e \in Events, Holds(g, e)' PROVE Holds(g, e) /\ e.n # x.n
    OBVIOUS
  <2>1. Holds(g, e) /\ Holds(f, x)
    BY <1>6
  <2>2. CASE g = f
    BY <1>6, <2>1, <2>2
  <2>3. CASE g # f
    BY <2>1, <2>3 DEF EventsInv
  <2> QED
    BY <2>2, <2>3
<1>8. Holds(f, x) /\ \A e \in heard : e \in Events /\ e.n # x.n
  BY <1>6 DEF EventsInv
<1>9. \A g \in Frames, e \in Events : Holds(g, e)' => e.n \in 1 .. sequence' /\ e.by = Thread(g)
  BY <1>1, <1>7 DEF EventsInv
<1>10. \A e \in heard' : e.n \in 1 .. sequence'
  BY <1>1, <1>2, <1>8 DEF EventsInv
<1>11. ASSUME NEW n \in 1 .. sequence'
       PROVE  \E e \in Events : e.n = n /\ (e \in heard' \/ \E g \in Frames : Holds(g, e)')
  <2>1. PICK e \in Events : e.n = n /\ (e \in heard \/ \E g \in Frames : Holds(g, e))
    BY <1>1, <1>11 DEF EventsInv
  <2> QED
    BY <1>1, <1>2, <1>6, <2>1
<1>12. \A e, d \in heard' : e.n = d.n => e = d
  BY <1>1, <1>2, <1>8 DEF EventsInv
<1>13. \A e \in heard', d \in Events, g \in Frames : Holds(g, d)' => e.n # d.n
  BY <1>1, <1>2, <1>7 DEF EventsInv
<1>14. \A d, e \in Events, g, h \in Frames :
         Holds(g, d)' /\ Holds(h, e)' /\ d.n = e.n => g = h /\ d = e
  BY <1>7 DEF EventsInv
<1>15. \A g \in Frames : Len(out'[g]) <= 2 /\ (Len(out'[g]) = 2 => out'[g][1].n < out'[g][2].n)
  BY <1>1, <1>4, <1>5 DEF EventsInv
<1> QED
  BY <1>9, <1>10, <1>11, <1>12, <1>13, <1>14, <1>15 DEF EventsInv

LEMMA EventsStep ==
  ASSUME FrameInv, Stacked, EventsInv, [Next]_vars
  PROVE  EventsInv'
<1>1. sequence \in Nat /\ heard \subseteq Events
  BY DEF FrameInv, TypeOK
<1>2. CASE EventsRest
  <2>1. \A g \in Frames, e \in Events : Holds(g, e)' <=> Holds(g, e)
    BY <1>2 DEF EventsRest, Holds
  <2> QED
    BY <1>2, <2>1 DEF EventsRest, EventsInv
<1>3. UNCHANGED vars => EventsRest
  BY DEF vars, node, frames, EventsRest
<1> QED
  BY <1>1, <1>2, <1>3, EventCases, GetsStep, GivesStep

LEMMA EventsCounted ==
  ASSUME TypeOK, EventsInv
  PROVE  EventsAccounted
<1> DEFINE all == heard \cup Undelivered
<1>1. \A e : e \in Undelivered <=> e \in Events /\ \E f \in Frames : Holds(f, e)
  <2>1. \A f \in Frames : DOMAIN out[f] = 1 .. Len(out[f]) /\ \A i \in DOMAIN out[f] : out[f][i] \in Events
    BY LenProperties, ElementOfSeq DEF TypeOK
  <2> QED
    BY <2>1 DEF Undelivered, Holds
<1>2. heard \cap Undelivered = {}
  BY <1>1 DEF EventsInv
<1>3. /\ \A e \in all : e.n \in 1 .. sequence
      /\ \A n \in 1 .. sequence : \E e \in all : e.n = n
      /\ \A e, d \in all : e.n = d.n => e = d
  BY <1>1 DEF EventsInv, TypeOK
<1>4. {e.n : e \in all} = 1 .. sequence
  BY <1>3
<1>5. Cardinality(all) = sequence
  <2> HIDE DEF all
  <2> DEFINE at_(n) == CHOOSE e \in all : e.n = n
             numbered == [n \in 1 .. sequence |-> at_(n)]
  <2>1. \A n \in 1 .. sequence : at_(n) \in all /\ at_(n).n = n
    BY <1>3
  <2>2. numbered \in Bijection(1 .. sequence, all)
    <3>1. numbered \in [1 .. sequence -> all]
      BY <2>1
    <3>2. \A n, m \in 1 .. sequence : numbered[n] = numbered[m] => n = m
      BY <2>1
    <3>3. \A e \in all : \E n \in 1 .. sequence : numbered[n] = e
      <4> SUFFICES ASSUME NEW e \in all PROVE \E n \in 1 .. sequence : numbered[n] = e
        OBVIOUS
      <4>1. e.n \in 1 .. sequence /\ numbered[e.n] = e
        BY <1>3, <2>1
      <4> QED
        BY <4>1
    <3> HIDE DEF numbered
    <3> QED
      BY <3>1, <3>2, <3>3, Fun_IsBij
  <2>3. ExistsBijection(1 .. sequence, all)
    BY <2>2 DEF ExistsBijection
  <2>4. sequence \in Int /\ sequence \in Nat
    BY DEF TypeOK
  <2>5. IsFiniteSet(1 .. sequence) /\ Cardinality(1 .. sequence) = sequence
    BY <2>4, FS_Interval
  <2> QED
    BY <2>3, <2>5, FS_Bijection
<1> QED
  BY <1>2, <1>4, <1>5 DEF EventsAccounted

\* Every number that lifecycleMutex gave out is one event, which the host has
\* got once or which one thread still holds: no interleaving of emitting threads
\* and of handlers that call again loses, repeats or renumbers one.
THEOREM EventsAreAccountedFor == Spec => []EventsAccounted
<1>1. Init => FrameInv /\ Stacked /\ EventsInv
  BY ThreadsInit, EventsInit
<1>2. FrameInv /\ Stacked /\ EventsInv /\ [Next]_vars => (FrameInv /\ Stacked /\ EventsInv)'
  BY FrameStep, StackedStep, EventsStep
<1>3. FrameInv /\ Stacked /\ EventsInv => EventsAccounted
  BY EventsCounted DEF FrameInv
<1> QED
  BY <1>1, <1>2, <1>3, PTL DEF Spec

-----------------------------------------------------------------------------
(***************************************************************************)
(* createNodeMutex and the context.  A frame is calm when its step has     *)
(* nothing to do with them.                                                *)
(***************************************************************************)
Calm(f) ==
  /\ InMutex(f)' => InMutex(f)
  /\ at'[f] \in {"releasing", "draining"} => at[f] \in {"releasing", "draining"}
  /\ at'[f] = "registering" => at[f] = "registering"
  /\ at[f] = "clearing" => at'[f] = "clearing"
  /\ Base(f) /\ at[f] \notin {"none", "locking", "working"} => at'[f] \notin {"none", "locking", "working"}
  /\ at'[f] = "binding" => at[f] = "binding" \/ ctx # 0

SharedInv == MutexInv /\ ContextInv

LEMMA SameCalm == \A f \in Frames : at'[f] = at[f] => Calm(f)
<1> SUFFICES ASSUME NEW f \in Frames, at'[f] = at[f] PROVE Calm(f)
  OBVIOUS
<1>1. InMutex(f)' => InMutex(f)
  BY DEF InMutex, Base
<1> QED
  BY <1>1 DEF Calm

LEMMA CalmFrame ==
  ASSUME NEW f \in Frames, at[f] \notin {"clearing", "ended"},
         at'[f] \notin {"releasing", "draining", "registering", "binding", "locking", "working"},
         Base(f) => at[f] \notin {"none", "locking"} /\ at'[f] # "none"
  PROVE  Calm(f)
<1>1. InMutex(f)' => InMutex(f)
  BY DEF InMutex, Base
<1> QED
  BY <1>1 DEF Calm

LEMMA CalmStep ==
  ASSUME SharedInv, \A f \in Frames : Calm(f), UNCHANGED <<context, createNode, wrappers>>,
         life' = "alive" => life = "alive"
  PROVE  SharedInv'
<1>1. MutexInv'
  BY DEF SharedInv, MutexInv, Calm
<1>2. ctx' = ctx /\ dead' = dead /\ createNode' = createNode /\ use' = use /\ quiet' = quiet
  BY DEF context, wrappers
<1>3. \A w \in Workers : \E b \in Frames : b = <<w, 0>> /\ Base(b)
  BY FrameFacts
<1>4. ctx' \in dead' => \E w \in Workers : at'[<<w, 0>>] = "clearing"
  BY <1>2, <1>3 DEF SharedInv, ContextInv, Calm
<1>5. \A w \in Workers : at'[<<w, 0>>] = "registering" => ctx' = w /\ ctx' \notin dead'
  BY <1>2, <1>3 DEF SharedInv, ContextInv, Calm
<1>6. \A x \in (dead' \cup {ctx'}) \ {0} :
        x \in Workers /\ at'[<<x, 0>>] \notin {"none", "locking", "working"}
  BY <1>2, <1>3 DEF SharedInv, ContextInv, Calm
<1>7. \A f \in Frames : at'[f] = "binding" /\ life' = "alive" => ctx' # 0
  BY <1>2 DEF SharedInv, ContextInv, Calm
<1> QED
  BY <1>1, <1>2, <1>4, <1>5, <1>6, <1>7 DEF SharedInv, ContextInv

Guarded == <<context, createNode, wrappers>>

\* All but the worker, the destructor under the mutex and the wrappers is calm.
LEMMA CalmCases ==
  ASSUME FrameInv, Stacked, Next
  PROVE  \/ (\A g \in Frames : Calm(g)) /\ UNCHANGED Guarded
         \/ \E f \in Frames : Worker(f) \/ LockModule(f) \/ ReleaseContext(f) \/ (Base(f) /\ Leave(f))
         \/ \E u \in Users : UserTests(u) \/ UserCalls(u)
<1>1. /\ TypeOK /\ FramesTyped /\ OthersTyped
      /\ \A g \in Frames : Shaped(g) /\ Follows(g) /\ Tasked(g) /\ AsWorker(g)
  BY TypedParts DEF FrameInv, Shaped
<1>2. ASSUME NEW f \in Frames, \A g \in Frames : g # f => Same(g), Calm(f)
      PROVE  \A g \in Frames : Calm(g)
  BY <1>2, SameCalm DEF Same
<1>3. ASSUME NEW f \in Frames, NEW a \in Actions, Begin(f, a), Entered(f)
      PROVE  (\A g \in Frames : Calm(g)) /\ UNCHANGED Guarded
  <2>1. at[f] = "none" /\ ~Base(f) /\ UNCHANGED Elsewhere /\ (Answers(f, a) \/ Accepted(f, a))
    BY <1>1, <1>3, BeginEffect, EnteredFacts
  <2>2. at'[f] = "emitting" /\ \A g \in Frames : g # f => Same(g)
    BY <1>1, <2>1 DEF Answers, Accepted, Undertakes, FramesTyped, Same
  <2>3. Calm(f)
    BY <2>1, <2>2, CalmFrame
  <2> QED
    BY <1>2, <2>1, <2>2, <2>3 DEF Elsewhere, Guarded, locks
<1>4. ASSUME NEW f \in Frames, CloseIn(f), Entered(f)
      PROVE  (\A g \in Frames : Calm(g)) /\ UNCHANGED Guarded
  <2>1. /\ at[f] = "none" /\ at'[f] = "resetting" /\ ~Base(f)
        /\ \A g \in Frames : g # f => Same(g)
    BY <1>1, <1>4, EnteredFacts DEF CloseIn, Step, FramesTyped, Same
  <2>2. Calm(f)
    BY <2>1, CalmFrame
  <2> QED
    BY <1>2, <1>4, <2>1, <2>2 DEF CloseIn, Guarded, locks
<1>5. ASSUME NEW f \in Frames, Emit(f) PROVE (\A g \in Frames : Calm(g)) /\ UNCHANGED Guarded
  <2>1. at[f] = "emitting" /\ at'[f] = "handling" /\ \A g \in Frames : g # f => Same(g)
    BY <1>1, <1>5 DEF Emit, Runs, FramesTyped, Same
  <2>2. Calm(f)
    BY <2>1, CalmFrame
  <2> QED
    BY <1>2, <1>5, <2>1, <2>2 DEF Emit, Guarded, locks
<1>6. ASSUME NEW f \in Frames, at[f] \in {"handling", "settling"}, Proceeds(f)
      PROVE  \A g \in Frames : Calm(g)
  <2>1. at'[f] = work[f].next /\ \A g \in Frames : g # f => Same(g)
    BY <1>1, <1>6 DEF Proceeds, FramesTyped, Same
  <2>2. work[f].next \in {"leaving", "dispatching", "handling"}
    BY <1>1 DEF FramesTyped, Works
  <2>3. Calm(f)
    BY <1>6, <2>1, <2>2, CalmFrame
  <2> QED
    BY <1>2, <2>1, <2>3
<1>7. ASSUME NEW f \in Frames, HandlerReturns(f)
      PROVE  (\A g \in Frames : Calm(g)) /\ UNCHANGED Guarded
  <2>1. UNCHANGED Guarded
    BY <1>7 DEF HandlerReturns, Guarded, locks
  <2>2. CASE out[f] = <<>>
    BY <1>6, <1>7, <2>1, <2>2 DEF HandlerReturns, Runs, Proceed, Proceeds
  <2>3. CASE out[f] # <<>>
    <3>1. at[f] = "handling" /\ at'[f] = "emitting" /\ \A g \in Frames : g # f => Same(g)
      BY <1>1, <1>7, <2>3 DEF HandlerReturns, Runs, FramesTyped, Same
    <3>2. Calm(f)
      BY <3>1, CalmFrame
    <3> QED
      BY <1>2, <2>1, <3>1, <3>2
  <2> QED
    BY <2>2, <2>3
<1>8. ASSUME NEW f \in Frames, Settle(f) PROVE (\A g \in Frames : Calm(g)) /\ UNCHANGED Guarded
  <2>1. at[f] = "settling" /\ UNCHANGED Elsewhere /\ (Settles(f) \/ Proceeds(f))
    BY <1>1, <1>8, SettleEffect
  <2>2. UNCHANGED Guarded
    BY <2>1 DEF Elsewhere, Guarded, locks
  <2>3. CASE Settles(f)
    <3>1. at'[f] = "emitting" /\ \A g \in Frames : g # f => Same(g)
      BY <1>1, <2>3 DEF Settles, Undertakes, FramesTyped, Same
    <3>2. Calm(f)
      BY <2>1, <3>1, CalmFrame
    <3> QED
      BY <1>2, <2>2, <3>1, <3>2
  <2> QED
    BY <1>6, <2>1, <2>2, <2>3
<1>9. ASSUME NEW f \in Frames, Dispatcher(f) PROVE (\A g \in Frames : Calm(g)) /\ UNCHANGED Guarded
  <2>1. DispatchWalks(f) /\ UNCHANGED <<out, context, createNode, wrappers>>
    BY <1>1, <1>9, DispatcherEffect
  <2>2. \A g \in Frames : g # f => Same(g)
    BY <1>1, <2>1, WalksShaped
  <2>3. /\ at[f] \in {"dispatching", "binding", "calling"} /\ ~Base(f)
        /\ at'[f] \in {"joining", "binding", "calling", "leaving", "settling"}
    <3>1. /\ at[f] \in {"dispatching", "binding", "calling"}
          /\ at'[f] \in {"joining", "binding", "calling", "leaving", "settling"}
      BY <1>1, <2>1, MoveValues DEF DispatchWalks
    <3> QED
      BY <1>1, <3>1 DEF AsWorker, WorkerStages
  <2>4. CASE at'[f] # "binding"
    <3>1. Calm(f)
      BY <2>3, <2>4, CalmFrame
    <3> QED
      BY <1>2, <2>1, <2>2, <3>1 DEF Guarded
  <2>5. CASE at'[f] = "binding"
    <3>1. CASE Test(f)
      <4>1. ctx # 0
        BY <1>1, <2>5, <3>1 DEF Test, ToSettle, Step, FramesTyped
      <4>2. Calm(f)
        BY <2>3, <2>5, <4>1 DEF Calm, InMutex, Base
      <4> QED
        BY <1>2, <2>1, <2>2, <4>2 DEF Guarded
    <3>2. CASE LaunchOnItself(f) \/ LaunchLocks(f) \/ Bind(f) \/ CallReturns(f)
      <4>1. at'[f] # "binding"
        BY <1>1, <3>2 DEF LaunchOnItself, LaunchLocks, Bind, CallReturns, ToSettle, Step, FramesTyped
      <4> QED
        BY <2>5, <4>1
    <3> QED
      BY <1>9, <3>1, <3>2 DEF Dispatcher
  <2> QED
    BY <2>4, <2>5
<1>10. ASSUME NEW f \in Frames, ResetLifecycle(f) \/ TakeWorkers(f) \/ JoinTaken(f)
       PROVE  (\A g \in Frames : Calm(g)) /\ UNCHANGED Guarded
  <2>1. UNCHANGED Guarded
    BY <1>10 DEF ResetLifecycle, TakeWorkers, JoinTaken, Guarded, locks
  <2>2. /\ at[f] \in DestructorStages /\ \A g \in Frames : g # f => Same(g)
        /\ at'[f] \in {"taking", "joining initialize", "joining destroy", "locking module"}
    <3>1. CASE ResetLifecycle(f) \/ TakeWorkers(f)
      BY <1>1, <3>1 DEF ResetLifecycle, TakeWorkers, Runs, Step, FramesTyped, Same, DestructorStages
    <3>2. CASE JoinTaken(f)
      <4>1. PICK a \in WorkerActions :
              /\ at[f] = (IF a = "initialize" THEN "joining initialize" ELSE "joining destroy")
              /\ at' = [at EXCEPT ![f] = IF a = "initialize" THEN "joining destroy" ELSE "locking module"]
              /\ UNCHANGED <<work, out>>
        BY <3>2 DEF JoinTaken, Runs, Step
      <4> QED
        BY <1>1, <4>1 DEF FramesTyped, Same, DestructorStages
    <3> QED
      BY <1>10, <3>1, <3>2
  <2>3. ~Base(f) /\ at[f] \notin {"clearing", "ended"}
    BY <1>1, <2>2 DEF AsWorker, WorkerStages, DestructorStages
  <2>4. Calm(f)
    BY <2>2, <2>3, CalmFrame
  <2> QED
    BY <1>2, <2>1, <2>2, <2>4
<1>11. ASSUME NEW f \in Frames, Launch(f) PROVE (\A g \in Frames : Calm(g)) /\ UNCHANGED Guarded
  <2>1. /\ at[f] = "joining" /\ UNCHANGED <<out, context, createNode, wrappers>>
        /\ Concludes(f) \/ \E b \in Frames : Starts(f, b)
    BY <1>1, <1>11, LaunchEffect, LaunchStarts
  <2>2. ~Base(f)
    BY <1>1, <2>1 DEF AsWorker, WorkerStages
  <2>3. CASE Concludes(f)
    <3>1. at'[f] = "settling" /\ \A g \in Frames : g # f => Same(g)
      BY <1>1, <2>1, <2>3, MoveValues
    <3>2. Calm(f)
      BY <2>1, <2>2, <3>1, CalmFrame
    <3> QED
      BY <1>2, <2>1, <3>1, <3>2 DEF Guarded
  <2>4. ASSUME NEW b \in Frames, Starts(f, b) PROVE \A g \in Frames : Calm(g)
    <3>1. Calm(f)
      BY <2>1, <2>2, <2>4, CalmFrame DEF Starts
    <3>2. Calm(b)
      BY <2>4 DEF Starts, Calm, InMutex, Base
    <3> QED
      BY <2>4, <3>1, <3>2, SameCalm DEF Starts, Same
  <2> QED
    BY <2>1, <2>3, <2>4 DEF Guarded
<1>12. ASSUME NEW f \in Frames, Leave(f), ~Base(f)
       PROVE  (\A g \in Frames : Calm(g)) /\ UNCHANGED Guarded
  <2>1. /\ at[f] = "leaving" /\ at'[f] = "none" /\ \A g \in Frames : g # f => Same(g)
        /\ UNCHANGED Guarded
    BY <1>1, <1>12 DEF Leave, Runs, Step, FramesTyped, Same, Base, Guarded
  <2>2. Calm(f)
    BY <1>12, <2>1, CalmFrame
  <2> QED
    BY <1>2, <2>1, <2>2
<1>13. ASSUME (\E a \in {"start", "stop"} : Completion(a)) \/ Notification
       PROVE  (\A g \in Frames : Calm(g)) /\ UNCHANGED Guarded
  <2>1. PICK f \in Frames : f = <<Ffi, 0>> /\ ~Base(f)
    <3>1. <<Ffi, 0>> \in Frames /\ ~Base(<<Ffi, 0>>)
      BY FrameFacts DEF Base
    <3> QED
      BY <3>1
  <2>2. /\ at[f] = "none" /\ UNCHANGED Guarded
        /\ at' = at \/ \E stage \in {"settling", "handling"} : at' = [at EXCEPT ![f] = stage]
    <3>1. CASE \E a \in {"start", "stop"} : Completion(a)
      BY <2>1, <3>1 DEF Completion, Step, Guarded, locks
    <3>2. CASE Notification
      BY <2>1, <3>2 DEF Notification, Step, Guarded, locks
    <3> QED
      BY <1>13, <3>1, <3>2
  <2>3. at'[f] \in {"none", "settling", "handling"} /\ \A g \in Frames : g # f => at'[g] = at[g]
    BY <1>1, <2>2 DEF FramesTyped
  <2>4. Calm(f)
    BY <2>1, <2>2, <2>3, CalmFrame
  <2> QED
    BY <2>2, <2>3, <2>4, SameCalm
<1>14. ASSUME NEW f \in Frames, Vanish(f) PROVE (\A g \in Frames : Calm(g)) /\ UNCHANGED Guarded
  BY <1>14, SameCalm DEF Vanish, frames, Guarded, locks
<1> QED
  BY <1>3, <1>4, <1>5, <1>7, <1>8, <1>9, <1>10, <1>11, <1>12, <1>13, <1>14, NextCases DEF Destructor

LEMMA MutexFacts ==
  ASSUME MutexInv, NEW f \in Frames, InMutex(f)
  PROVE  /\ createNode = Thread(f) /\ createNode # NoThread
         /\ \A g \in Frames : g # f /\ Base(g) => ~InMutex(g)
         /\ Base(f) => \A g \in Frames : g # f => ~InMutex(g)
<1>1. createNode = Thread(f) /\ createNode # NoThread
  BY FrameFacts DEF MutexInv
<1>2. ASSUME NEW g \in Frames, NEW h \in Frames, g # h, Base(g), InMutex(g), InMutex(h) PROVE FALSE
  <2>1. Thread(g) = Thread(h) /\ Thread(g) \in Workers
    BY <1>2 DEF MutexInv, Base
  <2>2. ~Base(h)
    BY <1>2, <2>1, FrameFacts
  <2> QED
    BY <1>2, <2>1, <2>2 DEF InMutex, MutexInv
<1> QED
  BY <1>1, <1>2

\* The worker of a frame at one of a worker's steps of its own.
LEMMA WorkerFrame ==
  ASSUME FrameInv, NEW f \in Frames, Worker(f)
  PROVE  /\ Base(f) /\ Thread(f) \in Workers /\ f = <<Thread(f), 0>> /\ work[f].op = Thread(f)
         /\ Thread(f) # 0 /\ at[f] \in WorkerStages /\ \A g \in Frames : g # f => Same(g)
         /\ \A w \in Workers : w # Thread(f) => \E b \in Frames : b = <<w, 0>> /\ b # f
         /\ at' \in [Frames -> Stages]
<1>1. /\ TypeOK /\ FramesTyped /\ \A g \in Frames : Shaped(g)
  BY TypedParts DEF FrameInv
<1>2. WorkerWalks(f) /\ out' = out
  BY <1>1, WorkerEffect
<1>3. at[f] \in WorkerStages /\ \A g \in Frames : g # f => Same(g)
  BY <1>1, <1>2, WalksShaped DEF WorkerWalks, WorkerStages
<1>4. Base(f) /\ work[f].op = Thread(f)
  BY <1>1, <1>3 DEF Shaped, AsWorker, WorkerStages
<1>5. Thread(f) \in Workers /\ f = <<Thread(f), 0>> /\ Thread(f) # 0
  BY <1>4, FrameFacts DEF Base
<1>6. \A w \in Workers : w # Thread(f) => \E b \in Frames : b = <<w, 0>> /\ b # f
  BY FrameFacts
<1>7. at' \in [Frames -> Stages]
  BY <1>1, <1>2, MovesTyped, StageNames DEF WorkerWalks
<1> QED
  BY <1>3, <1>4, <1>5, <1>6, <1>7

LEMMA WorkerMutexStep ==
  ASSUME FrameInv, MutexInv, NEW f \in Frames, Worker(f)
  PROVE  MutexInv'
<1>1. /\ Base(f) /\ Thread(f) \in Workers /\ at[f] \in WorkerStages
      /\ \A g \in Frames : g # f => Same(g)
  BY WorkerFrame
<1>2. TypeOK /\ FramesTyped
  BY TypedParts DEF FrameInv
<1>3. at'[f] \notin {"releasing", "draining"} /\ (at[f] = "locking" => at'[f] = "working")
  <2>1. WorkerWalks(f)
    BY <1>2, WorkerEffect
  <2> QED
    BY <1>2, <2>1, MoveValues DEF WorkerWalks
<1>4. \A g \in Frames : g # f => (InMutex(g)' <=> InMutex(g))
  BY <1>1 DEF Same, InMutex, Base
<1>5. \A g \in Frames : at'[g] \in {"releasing", "draining"} => Thread(g) \notin Workers
  BY <1>1, <1>3 DEF MutexInv, Same
<1>6. CASE LockCreateNode(f)
  <2>1. createNode = NoThread /\ createNode' = Thread(f)
    BY <1>6 DEF LockCreateNode
  <2>2. \A g \in Frames : ~InMutex(g)
    BY <2>1, FrameFacts DEF MutexInv
  <2> QED
    BY <1>4, <1>5, <2>1, <2>2 DEF MutexInv
<1>7. CASE ~LockCreateNode(f)
  <2>1. createNode' = createNode /\ at[f] # "locking"
    BY <1>7 DEF Worker, Create, Register, Destroy, Clear, Runs, locks
  <2>2. InMutex(f)
    BY <1>1, <2>1 DEF InMutex, WorkerStages
  <2> QED
    BY <1>4, <1>5, <2>1, <2>2 DEF MutexInv
<1> QED
  BY <1>6, <1>7

\* A start or stop is not about to be called while a worker is at work.
LEMMA NoneBindsBeside ==
  ASSUME FrameInv, ChargeInv, life = "alive",
         NEW f \in Frames, at[f] \in WorkerStages, NEW g \in Frames
  PROVE  at[g] # "binding"
<1>1. Shaped(f) /\ Shaped(g)
  BY DEF FrameInv
<1>2. work[f].action \in WorkerActions
  BY <1>1 DEF Shaped, AsWorker, WorkerStages
<1>3. pending.action = work[f].action
  BY DEF ChargeInv, Active
<1>4. at[g] = "binding" => pending.action = work[g].action /\ work[g].action \in {"start", "stop"}
  BY <1>1 DEF ChargeInv, Active, InHand, Shaped, Tasked
<1> QED
  BY <1>2, <1>3, <1>4 DEF WorkerActions

LEMMA WorkerContextStep ==
  ASSUME FrameInv, ChargeInv, SharedInv, NEW f \in Frames, Worker(f)
  PROVE  ContextInv'
<1>1. PICK w \in Workers :
        /\ Base(f) /\ w = Thread(f) /\ f = <<w, 0>> /\ work[f].op = w /\ w # 0
        /\ at[f] \in WorkerStages /\ \A g \in Frames : g # f => at'[g] = at[g]
        /\ \A v \in Workers : v # w => \E b \in Frames : b = <<v, 0>> /\ b # f
  BY WorkerFrame DEF Same
<1>2. at \in [Frames -> Stages] /\ life' = life /\ use' = use /\ WorkerWalks(f)
  BY WorkerEffect DEF FrameInv, TypeOK
<1>3. \A v \in Workers : v # w => at'[<<v, 0>>] = at[<<v, 0>>]
  BY <1>1
<1>4. at'[f] \in {"working", "registering", "clearing", "settling"} /\ (at'[f] = "working" <=> at[f] = "locking")
  <2>1. FramesTyped
    BY TypedParts DEF FrameInv
  <2> QED
    BY <1>2, <2>1, MoveValues DEF WorkerWalks
<1>5. \A g \in Frames : ~(at'[g] = "binding" /\ life' = "alive")
  BY <1>1, <1>2, <1>4, NoneBindsBeside
<1>6. CASE LockCreateNode(f)
  <2>1. /\ at[f] = "locking" /\ at'[f] = "working" /\ ctx' = ctx /\ dead' = dead
        /\ \A u \in Users : ~quiet'[u]
    BY <1>2, <1>6 DEF LockCreateNode, Runs, Step, NobodyQuiet, context
  <2>2. w \notin (dead \cup {ctx}) \ {0} /\ at[<<w, 0>>] # "clearing"
    BY <1>1, <2>1 DEF SharedInv, ContextInv
  <2>3. ctx' \in dead' => \E v \in Workers : at'[<<v, 0>>] = "clearing"
    BY <1>3, <2>1, <2>2 DEF SharedInv, ContextInv
  <2>4. \A v \in Workers : at'[<<v, 0>>] = "registering" => ctx' = v /\ ctx' \notin dead'
    BY <1>1, <1>3, <2>1 DEF SharedInv, ContextInv
  <2>5. \A x \in (dead' \cup {ctx'}) \ {0} :
          x \in Workers /\ at'[<<x, 0>>] \notin {"none", "locking", "working"}
    BY <1>3, <2>1, <2>2 DEF SharedInv, ContextInv
  <2> QED
    BY <1>5, <2>1, <2>3, <2>4, <2>5 DEF SharedInv, ContextInv
<1>7. CASE Create(f) \/ Register(f) \/ Destroy(f) \/ Clear(f)
  <2>1. at[f] # "locking" /\ InMutex(f) /\ createNode' = createNode /\ quiet' = quiet
    <3>1. at[f] \in {"working", "registering", "clearing"} /\ createNode' = createNode /\ quiet' = quiet
      BY <1>7 DEF Create, Register, Destroy, Clear, Runs, locks, wrappers
    <3> QED
      BY <1>1, <3>1 DEF InMutex
  <2>2. createNode # NoThread /\ \A g \in Frames : g # f /\ Base(g) => ~InMutex(g)
    BY <2>1, MutexFacts DEF SharedInv
  <2>3. \A v \in Workers : v # w => at[<<v, 0>>] \notin {"clearing", "registering"}
    <3> SUFFICES ASSUME NEW v \in Workers, v # w PROVE at[<<v, 0>>] \notin {"clearing", "registering"}
      OBVIOUS
    <3>1. PICK b \in Frames : b = <<v, 0>> /\ b # f /\ Base(b)
      BY <1>1, FrameFacts
    <3> QED
      BY <2>2, <3>1 DEF InMutex
  <2>4. \A u \in Users : ~quiet'[u]
    BY <2>1, <2>2 DEF SharedInv, ContextInv
  <2>5. /\ ctx \in dead => at[f] = "clearing"
        /\ at[f] = "registering" => ctx = w
        /\ 0 \notin dead
    BY <1>1, <2>3 DEF SharedInv, ContextInv
  <2>6. /\ (dead' \cup {ctx'}) \ {0} \subseteq dead \cup {ctx, w}
        /\ 0 \notin dead'
        /\ ctx' \in dead' => at'[f] = "clearing"
        /\ at'[f] = "registering" => ctx' = w /\ ctx' \notin dead'
    <3>1. CASE Create(f)
      <4>1. at[f] = "working" /\ dead' = dead
        BY <3>1 DEF Create, Runs
      <4>2. \/ ctx' = ctx /\ at'[f] = "settling"
            \/ ctx' = w /\ ctx = 0
        BY <1>1, <1>2, <3>1 DEF Create, ToSettle, Step
      <4>3. w \notin dead
        BY <1>1, <4>1 DEF SharedInv, ContextInv
      <4> QED
        BY <2>5, <4>1, <4>2, <4>3
    <3>2. CASE Register(f)
      <4>1. at[f] = "registering" /\ ctx' = ctx
        BY <3>2 DEF Register, Runs
      <4>2. \/ dead' = dead /\ at'[f] = "settling"
            \/ dead' = dead \cup {ctx} /\ at'[f] = "clearing"
        BY <1>2, <3>2 DEF Register, ToSettle, Step
      <4> QED
        BY <1>1, <2>5, <4>1, <4>2
    <3>3. CASE Destroy(f)
      <4>1. at[f] = "working" /\ ctx' = ctx
        BY <3>3 DEF Destroy, Runs
      <4>2. \/ dead' = dead /\ at'[f] = "settling"
            \/ ctx # 0 /\ dead' = dead \cup {ctx} /\ at'[f] = "clearing"
        BY <1>2, <3>3 DEF Destroy, ToSettle, Step
      <4> QED
        BY <2>5, <4>1, <4>2
    <3>4. CASE Clear(f)
      <4>1. ctx' = 0 /\ dead' = dead /\ at'[f] = "settling"
        BY <1>2, <3>4 DEF Clear, ToSettle, Step
      <4> QED
        BY <2>5, <4>1
    <3> QED
      BY <1>7, <3>1, <3>2, <3>3, <3>4
  <2>7. \A v \in Workers : at'[<<v, 0>>] = "registering" => ctx' = v /\ ctx' \notin dead'
    BY <1>1, <1>3, <2>3, <2>6
  <2>8. \A x \in (dead' \cup {ctx'}) \ {0} :
          x \in Workers /\ at'[<<x, 0>>] \notin {"none", "locking", "working"}
    BY <1>1, <1>3, <1>4, <2>1, <2>6 DEF SharedInv, ContextInv
  <2> QED
    BY <1>1, <1>5, <2>4, <2>6, <2>7, <2>8 DEF ContextInv
<1> QED
  BY <1>6, <1>7 DEF Worker

LEMMA LockModuleShared ==
  ASSUME FrameInv, Stacked, SharedInv, NEW f \in Frames, LockModule(f)
  PROVE  SharedInv'
<1>1. FramesTyped /\ AsWorker(f)
  BY TypedParts DEF FrameInv, Shaped
<1>2. /\ at[f] = "locking module" /\ at'[f] = "releasing" /\ \A g \in Frames : g # f => at'[g] = at[g]
      /\ createNode = NoThread /\ createNode' = Thread(f) /\ \A u \in Users : ~quiet'[u]
      /\ UNCHANGED <<ctx, dead, life>>
  BY <1>1 DEF LockModule, Runs, Step, NobodyQuiet, FramesTyped, context
<1>3. ~Base(f)
  BY <1>1, <1>2 DEF AsWorker, WorkerStages
<1>4. \A g \in Frames : ~InMutex(g)
  BY <1>2, FrameFacts DEF SharedInv, MutexInv
<1>5. Thread(f) \notin Workers
  <2>1. SUFFICES ASSUME Thread(f) \in Workers PROVE FALSE
    OBVIOUS
  <2>2. PICK t \in Workers : t = Thread(f)
    BY <2>1
  <2>3. f = <<t, f[2]>> /\ f[2] \in 0 .. MaxDepth /\ f[2] # 0 /\ 0 \in 0 .. MaxDepth /\ 0 < f[2]
    BY <1>3, <2>2, FrameFacts, ThreadsAssumption DEF Thread, Base
  <2>4. at[<<t, 0>>] = "handling"
    BY <1>2, <2>3, FrameFacts DEF Stacked
  <2>5. PICK b \in Frames : b = <<t, 0>> /\ Base(b)
    BY FrameFacts
  <2> QED
    BY <1>4, <2>4, <2>5 DEF InMutex
<1>6. MutexInv'
  BY <1>2, <1>3, <1>4, <1>5 DEF SharedInv, MutexInv, InMutex, Base
<1>7. \A w \in Workers : at'[<<w, 0>>] = at[<<w, 0>>]
  BY <1>2, <1>3, FrameFacts
<1>8. ContextInv'
  BY <1>2, <1>7 DEF SharedInv, ContextInv
<1> QED
  BY <1>6, <1>8 DEF SharedInv

LEMMA ReleaseShared ==
  ASSUME FrameInv, ChargeInv, SharedInv, NEW f \in Frames, ReleaseContext(f)
  PROVE  SharedInv'
<1>1. FramesTyped /\ AsWorker(f)
  BY TypedParts DEF FrameInv, Shaped
<1>2. /\ at[f] = "releasing" /\ at'[f] = "draining" /\ \A g \in Frames : g # f => at'[g] = at[g]
      /\ ctx' = 0 /\ dead' \in {dead, dead \cup ({ctx} \ {0})}
      /\ UNCHANGED <<createNode, life, use, quiet>>
  BY <1>1 DEF ReleaseContext, Runs, Step, FramesTyped, locks, wrappers
<1>3. ~Base(f) /\ InMutex(f) /\ life # "alive"
  BY <1>1, <1>2 DEF AsWorker, WorkerStages, InMutex, ChargeInv, Closing, DestructorStages
<1>4. createNode # NoThread /\ \A g \in Frames : g # f /\ Base(g) => ~InMutex(g)
  BY <1>3, MutexFacts DEF SharedInv
<1>5. \A w \in Workers : at'[<<w, 0>>] = at[<<w, 0>>] /\ at[<<w, 0>>] \notin {"clearing", "registering"}
  <2> SUFFICES ASSUME NEW w \in Workers
               PROVE  at'[<<w, 0>>] = at[<<w, 0>>] /\ at[<<w, 0>>] \notin {"clearing", "registering"}
    OBVIOUS
  <2>1. PICK b \in Frames : b = <<w, 0>> /\ Base(b) /\ b # f
    BY <1>3, FrameFacts
  <2> QED
    BY <1>2, <1>4, <2>1 DEF InMutex
<1>6. MutexInv'
  BY <1>2, <1>3 DEF SharedInv, MutexInv, InMutex, Base
<1>7. 0 \notin dead' /\ dead' \subseteq dead \cup {ctx}
  BY <1>2 DEF SharedInv, ContextInv
<1>8. \A x \in (dead' \cup {ctx'}) \ {0} :
        x \in Workers /\ at'[<<x, 0>>] \notin {"none", "locking", "working"}
  BY <1>2, <1>5, <1>7 DEF SharedInv, ContextInv
<1>9. \A u \in Users : ~quiet'[u]
  BY <1>2, <1>4 DEF SharedInv, ContextInv
<1>10. ContextInv'
  BY <1>2, <1>3, <1>5, <1>7, <1>8, <1>9 DEF ContextInv
<1> QED
  BY <1>6, <1>10 DEF SharedInv

LEMMA WorkerLeaves ==
  ASSUME FrameInv, SharedInv, NEW f \in Frames, Base(f), Leave(f)
  PROVE  SharedInv'
<1>1. FramesTyped
  BY TypedParts DEF FrameInv
<1>2. /\ at[f] = "leaving" /\ at'[f] = "ended" /\ \A g \in Frames : g # f => at'[g] = at[g]
      /\ createNode' = NoThread /\ UNCHANGED <<ctx, dead, life, use, quiet>>
  BY <1>1 DEF Leave, Runs, Step, FramesTyped, Base, context, wrappers
<1>3. InMutex(f)
  BY <1>2 DEF InMutex
<1>4. createNode # NoThread /\ \A g \in Frames : g # f => ~InMutex(g)
  BY <1>3, MutexFacts DEF SharedInv
<1>5. MutexInv'
  BY <1>2, <1>4 DEF SharedInv, MutexInv, InMutex, Base
<1>6. \A w \in Workers :
        at'[<<w, 0>>] = at[<<w, 0>>] \/ (at[<<w, 0>>] = "leaving" /\ at'[<<w, 0>>] = "ended")
  BY <1>2, FrameFacts
<1>7. \A u \in Users : ~quiet'[u]
  BY <1>2, <1>4 DEF SharedInv, ContextInv
<1>8. ctx' \in dead' => \E w \in Workers : at'[<<w, 0>>] = "clearing"
  BY <1>2, <1>6 DEF SharedInv, ContextInv
<1>9. \A w \in Workers : at'[<<w, 0>>] = "registering" => ctx' = w /\ ctx' \notin dead'
  BY <1>2, <1>6 DEF SharedInv, ContextInv
<1>10. \A x \in (dead' \cup {ctx'}) \ {0} :
         x \in Workers /\ at'[<<x, 0>>] \notin {"none", "locking", "working"}
  BY <1>2, <1>6 DEF SharedInv, ContextInv
<1>11. \A g \in Frames : at'[g] = "binding" /\ life' = "alive" => ctx' # 0
  BY <1>2 DEF SharedInv, ContextInv
<1> QED
  BY <1>2, <1>5, <1>7, <1>8, <1>9, <1>10, <1>11 DEF SharedInv, ContextInv

LEMMA WrapperShared ==
  ASSUME FrameInv, SharedInv, NEW u \in Users, UserTests(u) \/ UserCalls(u)
  PROVE  SharedInv'
<1>1. /\ use \in [Users -> {"idle", "tested"}] /\ quiet \in [Users -> BOOLEAN]
      /\ UNCHANGED <<ctx, dead, createNode, life, at>>
  BY DEF FrameInv, TypeOK, UserTests, UserCalls, context, locks, frames
<1>2. \A v \in Users : v # u => quiet'[v] = quiet[v] /\ use'[v] = use[v]
  BY <1>1 DEF UserTests, UserCalls
<1>3. quiet'[u] => createNode = NoThread /\ ctx # 0
  BY <1>1 DEF UserTests, UserCalls
<1>4. \A v \in Users : quiet'[v] => createNode' = NoThread /\ (use'[v] = "tested" => ctx' # 0)
  BY <1>1, <1>2, <1>3 DEF SharedInv, ContextInv
<1>5. MutexInv'
  BY <1>1 DEF SharedInv, MutexInv, InMutex, Base
<1> QED
  BY <1>1, <1>4, <1>5 DEF SharedInv, ContextInv

-----------------------------------------------------------------------------
ThreadsInv == OperationsInv /\ SharedInv

LEMMA SharedInit == Init => SharedInv
<1> SUFFICES ASSUME Init PROVE SharedInv
  OBVIOUS
<1>1. MutexInv
  BY DEF Init, MutexInv, InMutex
<1>2. \A w \in Workers : at[<<w, 0>>] = "none"
  BY FrameFacts DEF Init
<1>3. ContextInv
  BY <1>2 DEF Init, ContextInv
<1> QED
  BY <1>1, <1>3 DEF SharedInv

LEMMA ThreadsStep == ThreadsInv /\ [Next]_vars => ThreadsInv'
<1> SUFFICES ASSUME ThreadsInv, [Next]_vars PROVE ThreadsInv'
  OBVIOUS
<1>1. OperationsInv' /\ FrameInv /\ Stacked /\ ChargeInv /\ SharedInv
  BY OperationsStep DEF ThreadsInv, OperationsInv
<1>2. CASE Next
  <2>1. CASE (\A g \in Frames : Calm(g)) /\ UNCHANGED Guarded
    <3>1. life' = "alive" => life = "alive"
      BY <1>1, <1>2, EffectStep
    <3>2. SharedInv'
      BY <1>1, <2>1, <3>1, CalmStep DEF Guarded
    <3> QED
      BY <1>1, <3>2 DEF ThreadsInv
  <2>2. ASSUME NEW f \in Frames, Worker(f) PROVE SharedInv'
    BY <1>1, <2>2, WorkerMutexStep, WorkerContextStep DEF SharedInv
  <2>3. ASSUME NEW f \in Frames, LockModule(f) \/ ReleaseContext(f) \/ (Base(f) /\ Leave(f))
        PROVE  SharedInv'
    BY <1>1, <2>3, LockModuleShared, ReleaseShared, WorkerLeaves
  <2>4. ASSUME NEW u \in Users, UserTests(u) \/ UserCalls(u) PROVE SharedInv'
    BY <1>1, <2>4, WrapperShared
  <2> QED
    BY <1>1, <1>2, <2>1, <2>2, <2>3, <2>4, CalmCases DEF ThreadsInv
<1>3. CASE UNCHANGED vars
  <2>1. UNCHANGED <<ctx, dead, createNode, life, at, use, quiet>>
    BY <1>3 DEF vars, context, locks, frames, wrappers
  <2>2. SharedInv'
    BY <1>1, <2>1 DEF SharedInv, MutexInv, ContextInv, InMutex, Base
  <2> QED
    BY <1>1, <2>2 DEF ThreadsInv
<1> QED
  BY <1>2, <1>3

\* What a wrapper calls with is the context it tested, alive, as long as no
\* thread took createNodeMutex in between: only under that mutex does a context
\* die, or the pointer lose it, and a worker or the destructor that made either
\* happen leaves the mutex with the pointer null.
THEOREM QuietWrappersAreSafe == Spec => []WrappersUseLiveContext
<1>1. ThreadsInv => WrappersUseLiveContext
  <2> SUFFICES ASSUME ThreadsInv, NEW u \in Users, use[u] = "tested", quiet[u]
               PROVE  ctx \notin dead \cup {0}
    BY DEF WrappersUseLiveContext
  <2>1. createNode = NoThread /\ ctx # 0
    BY DEF ThreadsInv, SharedInv, ContextInv
  <2>2. \A f \in Frames : ~InMutex(f)
    BY <2>1, FrameFacts DEF ThreadsInv, SharedInv, MutexInv
  <2>3. \A w \in Workers : at[<<w, 0>>] # "clearing"
    <3> SUFFICES ASSUME NEW w \in Workers PROVE at[<<w, 0>>] # "clearing"
      OBVIOUS
    <3>1. PICK b \in Frames : b = <<w, 0>> /\ Base(b)
      BY FrameFacts
    <3> QED
      BY <2>2, <3>1 DEF InMutex
  <2> QED
    BY <2>1, <2>3 DEF ThreadsInv, SharedInv, ContextInv
<1>2. Init => ThreadsInv
  BY OperationsInit, SharedInit DEF ThreadsInv
<1> QED
  BY <1>1, <1>2, ThreadsStep, PTL DEF Spec

\* start and stop call liblogosdelivery with the context they tested, though
\* nothing is locked in between: the operation being active keeps the workers
\* that could take the context away from being launched, and once the
\* destructor has begun the theorem promises nothing.
THEOREM StartAndStopCallALiveNode == Spec => BindsLiveContext
<1> DEFINE Bound == \A f \in Frames :
             Runs(f, "binding") /\ life = "alive" /\ at'[f] = "calling" => ctx \notin dead \cup {0}
<1>1. ThreadsInv => Bound
  <2> SUFFICES ASSUME ThreadsInv, NEW f \in Frames, at[f] = "binding", life = "alive"
               PROVE  ctx \notin dead \cup {0}
    BY DEF Runs
  <2>1. FrameInv /\ ChargeInv /\ ContextInv
    BY DEF ThreadsInv, OperationsInv, SharedInv
  <2>2. \A w \in Workers : at[<<w, 0>>] # "clearing"
    <3> SUFFICES ASSUME NEW w \in Workers PROVE at[<<w, 0>>] # "clearing"
      OBVIOUS
    <3>1. PICK b \in Frames : b = <<w, 0>>
      BY FrameFacts
    <3> QED
      BY <2>1, <3>1, NoneBindsBeside DEF WorkerStages
  <2> QED
    BY <2>1, <2>2 DEF ContextInv
<1>2. Init => ThreadsInv
  BY OperationsInit, SharedInit DEF ThreadsInv
<1>3. ThreadsInv /\ [Next]_vars => [Bound]_vars
  BY <1>1
<1> QED
  BY <1>2, <1>3, ThreadsStep, PTL DEF Spec, BindsLiveContext

-----------------------------------------------------------------------------
(***************************************************************************)
(* What a worker's thread has to say, its own and its handlers' calls'.    *)
(***************************************************************************)
\* A handler of a worker's that called into the module still runs.
LEMMA NestedInHandler ==
  ASSUME FrameInv, Stacked, NEW f \in Frames, Thread(f) \in Workers, ~Base(f),
         at[f] # "none" \/ Entered(f)
  PROVE  /\ f[2] # 0 /\ at[<<Thread(f), 0>>] = "handling" /\ Thread(f) <= sequence
         /\ \E b \in Frames : b = <<Thread(f), 0>> /\ Base(b) /\ at[b] = "handling"
<1>1. PICK t \in Workers : t = Thread(f) /\ t \in Threads
  BY FrameFacts
<1>2. f = <<t, f[2]>> /\ f[2] \in 0 .. MaxDepth /\ f[2] # 0 /\ 0 \in 0 .. MaxDepth /\ 0 < f[2]
  BY <1>1, FrameFacts, ThreadsAssumption DEF Thread, Base
<1>3. at[<<t, 0>>] = "handling"
  <2>1. CASE at[f] # "none"
    BY <1>1, <1>2, <2>1 DEF Stacked
  <2>2. CASE Entered(f)
    <3>1. PICK g \in Frames : f = Above(g) /\ at[g] = "handling"
      BY <1>2, <2>2 DEF Entered
    <3>2. g = <<t, g[2]>> /\ g[2] \in 0 .. MaxDepth
      BY <1>1, <3>1, FrameFacts DEF Thread
    <3>3. CASE g[2] = 0
      BY <3>1, <3>2, <3>3
    <3>4. CASE g[2] # 0
      <4>1. 0 < g[2]
        BY <3>2, <3>4, ThreadsAssumption
      <4> QED
        BY <1>1, <1>2, <3>1, <3>2, <4>1 DEF Stacked
    <3> QED
      BY <3>3, <3>4
  <2> QED
    BY <2>1, <2>2
<1>4. PICK b \in Frames : b = <<t, 0>> /\ Base(b)
  BY <1>1, FrameFacts
<1>5. t <= sequence
  BY <1>1, <1>3 DEF FrameInv, Numbered
<1> QED
  BY <1>1, <1>2, <1>3, <1>4, <1>5

LEMMA NestedKept ==
  ASSUME NEW g \in Frames, NestedEvents(g), out'[g] = out[g], at'[g] = at[g] \/ at[g] # "emitting"
  PROVE  NestedEvents(g)'
BY DEF NestedEvents, Base

LEMMA NestedStep ==
  ASSUME FrameInv, Stacked, ChargeInv, \A g \in Frames : NestedEvents(g), Next
  PROVE  \A g \in Frames : NestedEvents(g)'
<1>1. /\ TypeOK /\ FramesTyped /\ OthersTyped /\ \A g \in Frames : Shaped(g) /\ Follows(g)
      /\ sequence \in Nat
  BY TypedParts DEF FrameInv, Shaped, OthersTyped
<1>2. ASSUME NEW f \in Frames, \A g \in Frames : g # f => Same(g), NestedEvents(f)'
      PROVE  \A g \in Frames : NestedEvents(g)'
  BY <1>2, NestedKept DEF Same
<1>3. ASSUME NEW f \in Frames, \A g \in Frames : g # f => Same(g), out'[f] = out[f], at[f] # "emitting"
      PROVE  \A g \in Frames : NestedEvents(g)'
  BY <1>2, <1>3, NestedKept
<1>4. ASSUME NEW f \in Frames, NEW a \in Actions, Begin(f, a), Entered(f)
      PROVE  \A g \in Frames : NestedEvents(g)'
  <2>1. ~Base(f) /\ (Answers(f, a) \/ Accepted(f, a))
    BY <1>1, <1>4, BeginEffect, EnteredFacts
  <2>2. \A g \in Frames : g # f => Same(g)
    BY <1>1, <2>1 DEF Answers, Accepted, Undertakes, FramesTyped, Same
  <2> DEFINE op == sequence + 1
             rejected == Event(op, op, "rejected", Thread(f))
             accepted == Event(op, op, "accepted", Thread(f))
             settled == Event(op + 1, op, "settled", Thread(f))
  <2>3. out'[f] \in {<<rejected>>, <<accepted>>, <<accepted, settled>>}
    BY <1>1, <2>1 DEF Answers, Accepted, Undertakes, FramesTyped
  <2>4. rejected.op = op /\ accepted.op = op /\ settled.op = op
    BY DEF Event
  <2>5. \A i \in DOMAIN out'[f] : out'[f][i].op = op
    <3> HIDE DEF rejected, accepted, settled
    <3>1. CASE out'[f] = <<rejected>> \/ out'[f] = <<accepted>>
      BY <2>4, <3>1
    <3>2. CASE out'[f] = <<accepted, settled>>
      BY <2>4, <3>2
    <3> QED
      BY <2>3, <3>1, <3>2
  <2>6. Thread(f) \in Workers => op # Thread(f)
    <3>1. SUFFICES ASSUME Thread(f) \in Workers PROVE op # Thread(f)
      OBVIOUS
    <3>2. PICK t \in Workers : t = Thread(f) /\ t \in Nat
      BY <3>1, FrameFacts
    <3>3. t <= sequence
      BY <1>4, <2>1, <3>1, <3>2, NestedInHandler
    <3> QED
      BY <1>1, <3>2, <3>3
  <2>7. NestedEvents(f)'
    BY <2>1, <2>5, <2>6 DEF NestedEvents, Base
  <2> QED
    BY <1>2, <2>2, <2>7
<1>5. ASSUME NEW f \in Frames, CloseIn(f) PROVE \A g \in Frames : NestedEvents(g)'
  <2>1. at[f] = "none" /\ out' = out /\ \A g \in Frames : g # f => Same(g)
    BY <1>1, <1>5 DEF CloseIn, Step, FramesTyped, Same
  <2> QED
    BY <1>3, <2>1
<1>6. ASSUME NEW f \in Frames, Emit(f) PROVE \A g \in Frames : NestedEvents(g)'
  <2>1. /\ at[f] = "emitting" /\ out[f] # <<>> /\ out'[f] = Tail(out[f])
        /\ \A g \in Frames : g # f => Same(g)
    BY <1>1, <1>6 DEF Emit, Runs, FramesTyped, Same, Follows
  <2>2. PICK s \in Seq(Events) : s = out[f] /\ s # <<>>
    BY <1>1, <2>1 DEF FramesTyped
  <2>3. PICK r \in Seq(Events) :
          /\ r = Tail(s) /\ Len(r) = Len(s) - 1 /\ DOMAIN r = 1 .. Len(r)
          /\ \A i \in 1 .. Len(r) : r[i] = s[i + 1]
    <3>1. /\ Tail(s) \in Seq(Events) /\ Len(Tail(s)) = Len(s) - 1
          /\ \A i \in 1 .. Len(Tail(s)) : Tail(s)[i] = s[i + 1]
      BY <2>2, HeadTailProperties
    <3>2. DOMAIN Tail(s) = 1 .. Len(Tail(s))
      BY <3>1, LenProperties
    <3> QED
      BY <3>1, <3>2
  <2>4. Len(s) \in Nat /\ DOMAIN s = 1 .. Len(s)
    BY <2>2, LenProperties
  <2>5. Len(s) = 1 => out'[f] = <<>>
    <3>1. Len(s) = 1 => Len(r) = 0
      BY <2>3
    <3> QED
      BY <2>1, <2>2, <2>3, <3>1, EmptySeq
  <2>6. \A i \in DOMAIN r : i + 1 \in DOMAIN s /\ r[i] = s[i + 1]
    BY <2>3, <2>4
  <2>7. NestedEvents(f)'
    BY <2>1, <2>2, <2>3, <2>5, <2>6 DEF NestedEvents, Base
  <2> QED
    BY <1>2, <2>1, <2>7
<1>7. ASSUME NEW f \in Frames, HandlerReturns(f) PROVE \A g \in Frames : NestedEvents(g)'
  <2>1. at[f] = "handling" /\ out' = out /\ \A g \in Frames : g # f => Same(g)
    BY <1>1, <1>7 DEF HandlerReturns, Proceed, Runs, FramesTyped, Same
  <2> QED
    BY <1>3, <2>1
<1>8. ASSUME NEW f \in Frames, Settle(f) PROVE \A g \in Frames : NestedEvents(g)'
  <2>1. at[f] = "settling" /\ (Settles(f) \/ Proceeds(f))
    BY <1>1, <1>8, SettleEffect
  <2>2. CASE Settles(f)
    <3> DEFINE settled == Event(sequence + 1, work[f].op, "settled", Thread(f))
    <3>1. out'[f] = <<settled>> /\ at'[f] = "emitting" /\ settled.op = work[f].op
          /\ \A g \in Frames : g # f => Same(g)
      BY <1>1, <2>2 DEF Settles, Undertakes, FramesTyped, Same, Event
    <3>2. Thread(f) \in Workers /\ ~Base(f) => work[f].op # Thread(f)
      <4>1. SUFFICES ASSUME Thread(f) \in Workers, ~Base(f), work[f].op = Thread(f) PROVE FALSE
        OBVIOUS
      <4>2. at[<<Thread(f), 0>>] # "none"
        BY <2>1, <4>1, NestedInHandler
      <4>3. f = <<Thread(f), 0>>
        BY <2>1, <4>1, <4>2 DEF ChargeInv, OneOwner
      <4> QED
        BY <4>1, <4>3, FrameFacts
    <3> HIDE DEF settled
    <3>3. NestedEvents(f)'
      BY <3>1, <3>2 DEF NestedEvents, Base
    <3> QED
      BY <1>2, <3>1, <3>3
  <2>3. CASE Proceeds(f)
    BY <1>1, <1>3, <2>1, <2>3 DEF Proceeds, FramesTyped, Same
  <2> QED
    BY <2>1, <2>2, <2>3
<1>9. ASSUME NEW f \in Frames, Leave(f) PROVE \A g \in Frames : NestedEvents(g)'
  BY <1>1, <1>3, <1>9 DEF Leave, Runs, Step, FramesTyped, Same
<1>10. ASSUME NEW f \in Frames, Dispatcher(f) \/ Worker(f) \/ Destructor(f)
       PROVE  \A g \in Frames : NestedEvents(g)'
  <2>1. out' = out /\ (DispatchWalks(f) \/ WorkerWalks(f) \/ DestructorWalks(f))
    BY <1>1, <1>10, DispatcherEffect, WorkerEffect, DestructorEffect
  <2>2. \A g \in Frames : g # f => Same(g)
    BY <1>1, <2>1, WalksShaped
  <2>3. at[f] # "emitting"
    BY <2>1 DEF DispatchWalks, WorkerWalks, DestructorWalks
  <2> QED
    BY <1>3, <2>1, <2>2, <2>3
<1>11. ASSUME NEW f \in Frames, Launch(f) PROVE \A g \in Frames : NestedEvents(g)'
  <2>1. /\ at[f] = "joining" /\ out' = out
        /\ Concludes(f) \/ \E b \in Frames : Starts(f, b)
    BY <1>1, <1>11, LaunchEffect, LaunchStarts
  <2>2. CASE Concludes(f)
    <3>1. \A g \in Frames : g # f => Same(g)
      BY <1>1, <2>1, <2>2, MoveValues
    <3> QED
      BY <1>3, <2>1, <3>1
  <2>3. ASSUME NEW b \in Frames, Starts(f, b) PROVE \A g \in Frames : NestedEvents(g)'
    BY <2>1, <2>3, NestedKept DEF Starts, Same
  <2> QED
    BY <2>1, <2>2, <2>3
<1>12. ASSUME (\E a \in {"start", "stop"} : Completion(a)) \/ Notification
       PROVE  \A g \in Frames : NestedEvents(g)'
  <2>1. PICK f \in Frames : f = <<Ffi, 0>> /\ at[f] = "none" /\ out' = out /\ Thread(f) \notin Workers
    BY <1>12, FrameFacts DEF Completion, Notification
  <2>2. \A g \in Frames : g # f => at'[g] = at[g]
    BY <1>1, <1>12, <2>1 DEF Completion, Notification, Step, FramesTyped
  <2> QED
    BY <2>1, <2>2, NestedKept
<1>13. (\E f \in Frames : Vanish(f)) \/ (\E u \in Users : UserTests(u) \/ UserCalls(u))
         => \A g \in Frames : NestedEvents(g)'
  BY NestedKept DEF Vanish, UserTests, UserCalls, frames
<1> QED
  BY <1>4, <1>5, <1>6, <1>7, <1>8, <1>9, <1>10, <1>11, <1>12, <1>13, NextCases

\* The threads of workers that have something to say hold createNodeMutex.
LEMMA SpeakersHoldMutex ==
  ASSUME FrameInv, Stacked, MutexInv, NEW f \in Frames, Thread(f) \in Workers, out[f] # <<>>
  PROVE  createNode = Thread(f) /\ at[f] \in {"emitting", "handling"}
<1>1. at[f] \in {"emitting", "handling"}
  BY DEF FrameInv, Shaped, Follows
<1>2. CASE Base(f)
  BY <1>1, <1>2 DEF MutexInv, InMutex
<1>3. CASE ~Base(f)
  <2>1. PICK b \in Frames : b = <<Thread(f), 0>> /\ Base(b) /\ at[b] = "handling"
    BY <1>1, <1>3, NestedInHandler
  <2>2. Thread(b) = Thread(f)
    BY <2>1 DEF Thread
  <2> QED
    BY <1>1, <2>1, <2>2 DEF MutexInv, InMutex
<1> QED
  BY <1>2, <1>3

\* While one frame of a worker's thread emits, another holds what a handler's
\* call has to say, and so does the first.
LEMMA BothNested ==
  ASSUME FrameInv, Stacked, MutexInv, \A g \in Frames : NestedEvents(g),
         NEW f \in Frames, NEW g \in Frames, f # g, {Thread(f), Thread(g)} \subseteq Workers,
         at[f] = "emitting", out[f] # <<>>, out[g] # <<>>
  PROVE  Thread(f) = Thread(g) /\ ~Base(f) /\ ~Base(g)
<1>1. Thread(f) = Thread(g) /\ at[g] \in {"emitting", "handling"}
  BY SpeakersHoldMutex
<1>2. PICK t \in Threads, i, j \in 0 .. MaxDepth : f = <<t, i>> /\ g = <<t, j>>
  BY <1>1, FrameFacts DEF Thread
<1>3. i # j /\ i \in Nat /\ j \in Nat
  BY <1>2, ThreadsAssumption
<1>4. ~(i < j)
  BY <1>1, <1>2 DEF Stacked
<1>5. j < i
  BY <1>3, <1>4
<1>6. at[g] = "handling" /\ ~Base(f)
  BY <1>2, <1>3, <1>5 DEF Stacked, Base
<1> QED
  BY <1>1, <1>6 DEF NestedEvents

LEMMA InOrderStep ==
  ASSUME FrameInv, Stacked, MutexInv, EventsInv, \A g \in Frames : NestedEvents(g), InOrder, Next
  PROVE  InOrder'
<1>1. sequence \in Nat /\ heard \subseteq Events /\ out \in [Frames -> Seq(Events)]
  BY DEF FrameInv, TypeOK
<1>2. CASE EventsRest
  BY <1>2 DEF EventsRest, InOrder, Holds
<1>3. ASSUME NEW f \in Frames, NEW s \in Seq(Events), Gets(f, s) PROVE InOrder'
  <2>1. /\ heard' = heard /\ DOMAIN s = 1 .. Len(s) /\ Len(s) \in Nat
        /\ \A i \in DOMAIN s : s[i].n = sequence + i
    BY <1>3, LenProperties DEF Gets
  <2>2. \A g \in Frames, e \in Events : Holds(g, e)' => Holds(g, e) \/ \E i \in DOMAIN s : s[i] = e
    BY <1>3 DEF Gets, Holds
  <2>3. \A e \in heard, i \in DOMAIN s : e.n < s[i].n
    <3> SUFFICES ASSUME NEW e \in heard, NEW i \in DOMAIN s PROVE e.n < s[i].n
      OBVIOUS
    <3>1. e.n \in 1 .. sequence
      BY DEF EventsInv
    <3>2. s[i].n = sequence + i /\ i \in Nat /\ 1 <= i
      BY <2>1
    <3> QED
      BY <1>1, <3>1, <3>2
  <2> QED
    BY <2>1, <2>2, <2>3 DEF InOrder
<1>4. ASSUME NEW f \in Frames, Gives(f) PROVE InOrder'
  <2>1. PICK s \in Seq(Events) :
          /\ at[f] = "emitting" /\ s = out[f] /\ s # <<>> /\ out'[f] = Tail(s)
          /\ heard' = heard \cup {Head(s)} /\ \A g \in Frames : g # f => out'[g] = out[g]
    BY <1>4 DEF Gives
  <2>2. PICK x \in Events : x = Head(s) /\ x = s[1] /\ 1 \in DOMAIN s
    BY <2>1, HeadTailProperties, LenProperties
  <2>3. Holds(f, x)
    BY <2>1, <2>2 DEF Holds
  <2>4. x.by = Thread(f)
    BY <2>3 DEF EventsInv
  <2>5. PICK r \in Seq(Events) :
          /\ r = Tail(s) /\ Len(r) = Len(s) - 1 /\ DOMAIN r = 1 .. Len(r)
          /\ \A i \in 1 .. Len(r) : r[i] = s[i + 1]
    <3>1. /\ Tail(s) \in Seq(Events) /\ Len(Tail(s)) = Len(s) - 1
          /\ \A i \in 1 .. Len(Tail(s)) : Tail(s)[i] = s[i + 1]
      BY <2>1, HeadTailProperties
    <3>2. DOMAIN Tail(s) = 1 .. Len(Tail(s))
      BY <3>1, LenProperties
    <3> QED
      BY <3>1, <3>2
  <2>6. Len(s) \in Nat /\ DOMAIN s = 1 .. Len(s) /\ Len(s) <= 2 /\ (Len(s) = 2 => s[1].n < s[2].n)
    BY <2>1, LenProperties DEF EventsInv
  <2>7. ASSUME NEW late \in Events, Holds(f, late)' PROVE Holds(f, late) /\ x.n < late.n
    <3>1. PICK i \in DOMAIN r : r[i] = late
      BY <2>1, <2>5, <2>7 DEF Holds
    <3>2. i \in Nat /\ 1 <= i /\ i <= Len(s) - 1 /\ late = s[i + 1]
      BY <2>5, <2>6, <3>1
    <3>3. i = 1 /\ Len(s) = 2
      BY <2>6, <3>2
    <3>4. late = s[2] /\ 2 \in DOMAIN s
      BY <2>6, <3>2, <3>3
    <3> QED
      BY <2>1, <2>2, <2>6, <3>3, <3>4 DEF Holds
  <2>8. ASSUME NEW g \in Frames, NEW late \in Events, Holds(g, late)' PROVE Holds(g, late)
    <3>1. CASE g = f
      BY <2>7, <2>8, <3>1
    <3>2. CASE g # f
      BY <2>1, <2>8, <3>2 DEF Holds
    <3> QED
      BY <3>1, <3>2
  <2>9. ASSUME NEW g \in Frames, NEW late \in Events, Holds(g, late), g # f,
               {x.by, Thread(g)} \subseteq Workers
        PROVE  x.by = Thread(g) /\ x.by \notin {x.op, late.op}
    <3>1. out[g] \in Seq(Events) /\ out[g] # <<>>
      BY <1>1, <2>9 DEF Holds
    <3>2. Thread(f) = Thread(g) /\ ~Base(f) /\ ~Base(g)
      BY <2>1, <2>4, <2>9, <3>1, BothNested
    <3>3. \A i \in DOMAIN out[f] : out[f][i].op # Thread(f)
      BY <2>1, <2>4, <2>9, <3>2 DEF NestedEvents
    <3>4. \A i \in DOMAIN out[g] : out[g][i].op # Thread(g)
      BY <2>9, <3>1, <3>2 DEF NestedEvents
    <3> QED
      BY <2>3, <2>4, <2>9, <3>2, <3>3, <3>4 DEF Holds
  <2> SUFFICES ASSUME NEW e \in heard', NEW late \in Events, NEW g \in Frames, Holds(g, late)',
                      {e.by, Thread(g)} \subseteq Workers, e.by = Thread(g) => e.by \in {e.op, late.op}
               PROVE  e.n < late.n
    BY DEF InOrder
  <2>10. CASE e \in heard
    BY <2>8, <2>10 DEF InOrder
  <2>11. CASE e = x
    BY <2>7, <2>8, <2>9, <2>11
  <2> QED
    BY <2>1, <2>2, <2>10, <2>11
<1> QED
  BY <1>2, <1>3, <1>4, EventCases

\* Workers' events reach the host in the order of their numbers, with what is
\* nested in their handlers' events between them: the mutex a worker holds while
\* it emits lets no other worker speak, and while a handler's call speaks the
\* worker itself has nothing left to say.
THEOREM WorkersSpeakInOrder == Spec => []WorkerEventsInOrder
<1> DEFINE Inv == ThreadsInv /\ EventsInv /\ (\A g \in Frames : NestedEvents(g)) /\ InOrder
<1>1. Init => Inv
  <2> SUFFICES ASSUME Init PROVE Inv
    OBVIOUS
  <2>1. \A g \in Frames : NestedEvents(g)
    BY DEF Init, NestedEvents
  <2>2. InOrder
    BY DEF Init, InOrder
  <2> QED
    BY <2>1, <2>2, OperationsInit, SharedInit, EventsInit DEF ThreadsInv
<1>2. Inv /\ [Next]_vars => Inv'
  <2> SUFFICES ASSUME Inv, [Next]_vars PROVE Inv'
    OBVIOUS
  <2>1. FrameInv /\ Stacked /\ ChargeInv /\ MutexInv
    BY DEF ThreadsInv, OperationsInv, SharedInv
  <2>2. ThreadsInv' /\ EventsInv'
    BY <2>1, ThreadsStep, EventsStep
  <2>3. CASE Next
    <3>1. \A g \in Frames : NestedEvents(g)'
      BY <2>1, <2>3, NestedStep
    <3>2. InOrder'
      BY <2>1, <2>3, InOrderStep
    <3> QED
      BY <2>2, <3>1, <3>2
  <2>4. CASE UNCHANGED vars
    <3>1. out' = out /\ at' = at /\ heard' = heard
      BY <2>4 DEF vars, frames
    <3>2. \A g \in Frames : NestedEvents(g)'
      BY <3>1, NestedKept
    <3>3. InOrder'
      BY <3>1 DEF InOrder, Holds
    <3> QED
      BY <2>2, <3>2, <3>3
  <2> QED
    BY <2>3, <2>4
<1>3. Inv => WorkerEventsInOrder
  <2> SUFFICES ASSUME Inv, NEW e \in heard, NEW late \in Undelivered,
                      {e.by, late.by} \subseteq Workers, e.by = late.by => e.by \in {e.op, late.op}
               PROVE  e.n < late.n
    BY DEF WorkerEventsInOrder
  <2>1. PICK g \in Frames : late \in Events /\ \E i \in 1 .. Len(out[g]) : out[g][i] = late
    <3>1. out \in [Frames -> Seq(Events)]
      BY DEF ThreadsInv, OperationsInv, FrameInv, TypeOK
    <3>2. PICK g \in Frames : \E i \in 1 .. Len(out[g]) : late = out[g][i]
      BY DEF Undelivered
    <3> QED
      BY <3>1, <3>2, ElementOfSeq
  <2>2. Holds(g, late)
    BY <2>1, LenProperties DEF Holds, ThreadsInv, OperationsInv, FrameInv, TypeOK
  <2>3. late.by = Thread(g)
    BY <2>1, <2>2 DEF EventsInv
  <2> QED
    BY <2>1, <2>2, <2>3 DEF InOrder
<1> QED
  BY <1>1, <1>2, <1>3, PTL DEF Spec

-----------------------------------------------------------------------------
(***************************************************************************)
(* The destructor and the workers it joins.  A frame is still when its     *)
(* step is none of the destructor's and starts no worker.                  *)
(***************************************************************************)
Still(g) ==
  /\ at[g] \in DestructorStages \/ at'[g] \in DestructorStages => at'[g] = at[g]
  /\ Base(g) /\ at[g] \in {"none", "ended"} => at'[g] \in {"none", "ended"}

LEMMA StillFrame ==
  ASSUME NEW f \in Frames,
         at'[f] = at[f] \/
           /\ at[f] \notin DestructorStages /\ at'[f] \notin DestructorStages
           /\ Base(f) => at[f] \notin {"none", "ended"}
  PROVE  Still(f)
BY DEF Still

\* None but the destructor's frame steps through its stages.
LEMMA StillCases ==
  ASSUME FrameInv, Stacked, Next
  PROVE  \/ (\A g \in Frames : Still(g)) /\ UNCHANGED <<slotted, life>>
         \/ \E f \in Frames : Launch(f) \/ (CloseIn(f) /\ Entered(f)) \/ Destructor(f) \/ Vanish(f)
<1>1. TypeOK /\ FramesTyped /\ \A g \in Frames : Shaped(g)
  BY TypedParts DEF FrameInv
<1> DEFINE Rests == (\A g \in Frames : Still(g)) /\ UNCHANGED <<slotted, life>>
<1>2. ASSUME NEW f \in Frames, \A g \in Frames : g # f => at'[g] = at[g],
             at[f] \notin DestructorStages, at'[f] \notin DestructorStages,
             Base(f) => at[f] \notin {"none", "ended"}
      PROVE  \A g \in Frames : Still(g)
  BY <1>2, StillFrame
<1>3. ASSUME NEW f \in Frames, NEW a \in Actions, Begin(f, a), Entered(f) PROVE Rests
  <2>1. at[f] = "none" /\ ~Base(f) /\ UNCHANGED Elsewhere /\ (Answers(f, a) \/ Accepted(f, a))
    BY <1>1, <1>3, BeginEffect, EnteredFacts
  <2>2. at'[f] = "emitting" /\ \A g \in Frames : g # f => at'[g] = at[g]
    BY <1>1, <2>1 DEF Answers, Accepted, Undertakes, FramesTyped
  <2>3. \A g \in Frames : Still(g)
    BY <1>2, <2>1, <2>2 DEF DestructorStages
  <2> QED
    BY <2>1, <2>3 DEF Elsewhere
<1>4. ASSUME NEW f \in Frames, Emit(f) \/ Leave(f) PROVE Rests
  <2>1. /\ at[f] \in {"emitting", "leaving"} /\ at'[f] \in {"handling", "ended", "none"}
        /\ \A g \in Frames : g # f => at'[g] = at[g]
    BY <1>1, <1>4 DEF Emit, Leave, Runs, Step, FramesTyped
  <2>2. \A g \in Frames : Still(g)
    BY <1>2, <2>1 DEF DestructorStages
  <2> QED
    BY <1>4, <2>2 DEF Emit, Leave
<1>5. ASSUME NEW f \in Frames, HandlerReturns(f) PROVE Rests
  <2>1. work[f].next \in {"leaving", "dispatching", "handling"}
    BY <1>1 DEF FramesTyped, Works
  <2>2. /\ at[f] = "handling" /\ at'[f] \in {"emitting", "leaving", "dispatching", "handling"}
        /\ \A g \in Frames : g # f => at'[g] = at[g]
    BY <1>1, <1>5, <2>1 DEF HandlerReturns, Proceed, Runs, FramesTyped
  <2>3. \A g \in Frames : Still(g)
    BY <1>2, <2>2 DEF DestructorStages
  <2> QED
    BY <1>5, <2>3 DEF HandlerReturns
<1>6. ASSUME NEW f \in Frames, Settle(f) PROVE Rests
  <2>1. at[f] = "settling" /\ UNCHANGED Elsewhere /\ (Settles(f) \/ Proceeds(f))
    BY <1>1, <1>6, SettleEffect
  <2>2. work[f].next \in {"leaving", "dispatching", "handling"}
    BY <1>1 DEF FramesTyped, Works
  <2>3. /\ at'[f] \in {"emitting", "leaving", "dispatching", "handling"}
        /\ \A g \in Frames : g # f => at'[g] = at[g]
    BY <1>1, <2>1, <2>2 DEF Settles, Undertakes, Proceeds, FramesTyped
  <2>4. \A g \in Frames : Still(g)
    BY <1>2, <2>1, <2>3 DEF DestructorStages
  <2> QED
    BY <2>1, <2>4 DEF Elsewhere
<1>7. ASSUME NEW f \in Frames, Dispatcher(f) \/ Worker(f) PROVE Rests
  <2>1. /\ UNCHANGED <<out, slotted, life>> /\ (DispatchWalks(f) \/ WorkerWalks(f))
    BY <1>1, <1>7, DispatcherEffect, WorkerEffect
  <2>2. \A g \in Frames : g # f => at'[g] = at[g]
    BY <1>1, <2>1, WalksShaped DEF Same
  <2>3. at[f] \in {"dispatching", "binding", "calling"} \cup WorkerStages
    BY <2>1 DEF DispatchWalks, WorkerWalks, WorkerStages
  <2>4. at'[f] \in {"joining", "binding", "calling", "leaving", "settling", "working", "registering",
                    "clearing"}
    BY <1>1, <2>1, MoveValues DEF DispatchWalks, WorkerWalks
  <2>5. \A g \in Frames : Still(g)
    BY <1>2, <2>2, <2>3, <2>4 DEF DestructorStages, WorkerStages
  <2> QED
    BY <2>1, <2>5
<1>8. ASSUME (\E a \in {"start", "stop"} : Completion(a)) \/ Notification PROVE Rests
  <2>1. PICK f \in Frames : f = <<Ffi, 0>> /\ ~Base(f)
    <3>1. <<Ffi, 0>> \in Frames /\ ~Base(<<Ffi, 0>>)
      BY FrameFacts DEF Base
    <3> QED
      BY <3>1
  <2>2. /\ at[f] = "none" /\ UNCHANGED <<slotted, life>>
        /\ at' = at \/ \E stage \in {"settling", "handling"} : at' = [at EXCEPT ![f] = stage]
    <3>1. CASE \E a \in {"start", "stop"} : Completion(a)
      BY <2>1, <3>1 DEF Completion, Step
    <3>2. CASE Notification
      BY <2>1, <3>2 DEF Notification, Step
    <3> QED
      BY <1>8, <3>1, <3>2
  <2>3. at'[f] \in {"none", "settling", "handling"} /\ \A g \in Frames : g # f => at'[g] = at[g]
    BY <1>1, <2>2 DEF FramesTyped
  <2>4. \A g \in Frames : Still(g)
    BY <1>2, <2>1, <2>2, <2>3 DEF DestructorStages
  <2> QED
    BY <2>2, <2>4
<1>9. (\E u \in Users : UserTests(u) \/ UserCalls(u)) => Rests
  BY StillFrame DEF UserTests, UserCalls, frames
<1> QED
  BY <1>3, <1>4, <1>5, <1>6, <1>7, <1>8, <1>9, NextCases

EndInv == DestructorInv /\ Kept

LEMMA StillStep ==
  ASSUME EndInv, \A g \in Frames : Still(g), UNCHANGED <<slotted, life>>
  PROVE  EndInv'
<1>1. slots' = slots /\ taken' = taken
  BY DEF slotted
<1>2. \A g \in Frames : at'[g] \in DestructorStages => at'[g] = at[g] /\ at[g] \in DestructorStages
  BY DEF Still
<1>3. DestructorInv'
  BY <1>1, <1>2 DEF EndInv, DestructorInv, NoneTaken, DestructorStages
<1>4. ASSUME NEW w \in Workers, at'[<<w, 0>>] \notin {"none", "ended"}
      PROVE  (\E a \in WorkerActions : slots'[a] = w \/ taken'[a] = w) \/ Detached(w)'
  <2>1. at[<<w, 0>>] \notin {"none", "ended"}
    <3>1. PICK b \in Frames : b = <<w, 0>> /\ Base(b)
      BY FrameFacts
    <3> QED
      BY <1>4, <3>1 DEF Still
  <2>2. Detached(w) => Detached(w)'
    BY DEF Detached, Still, DestructorStages
  <2> QED
    BY <1>1, <2>1, <2>2 DEF EndInv, Kept
<1> QED
  BY <1>3, <1>4 DEF EndInv, Kept

\* A worker takes the place of one that has ended.
LEMMA LaunchEnds ==
  ASSUME FrameInv, Stacked, EndInv, NEW f \in Frames, Launch(f)
  PROVE  EndInv'
<1>1. /\ TypeOK /\ FramesTyped /\ Tasked(f) /\ AsWorker(f)
  BY TypedParts DEF FrameInv, Shaped
<1>2. PICK a \in WorkerActions : a = work[f].action
  BY <1>1 DEF Launch, Runs, Tasked
<1>3. /\ at[f] = "joining" /\ ~Base(f) /\ taken' = taken /\ life' = life /\ Ended(slots[a])
      /\ slots \in [WorkerActions -> Threads \cup {NoThread}]
  BY <1>1, <1>2 DEF Launch, Runs, AsWorker, WorkerStages, TypeOK
<1>4. \A v \in Workers : slots[a] = v => at[<<v, 0>>] = "ended"
  BY <1>3, FrameFacts DEF Ended
<1>5. \A b \in WorkerActions : b # a => slots'[b] = slots[b]
  BY <1>2, <1>3 DEF Launch
<1>6. ASSUME NEW v \in Workers, at[<<v, 0>>] \notin {"none", "ended"},
             \A g \in Frames : at[g] \in DestructorStages => at'[g] = at[g]
      PROVE  (\E b \in WorkerActions : slots'[b] = v \/ taken'[b] = v) \/ Detached(v)'
  <2>1. Detached(v) => Detached(v)'
    BY <1>6 DEF Detached, DestructorStages
  <2>2. \A b \in WorkerActions : slots[b] = v => slots'[b] = v
    BY <1>4, <1>5, <1>6
  <2> QED
    BY <1>3, <1>6, <2>1, <2>2 DEF EndInv, Kept
<1>7. ASSUME \A g \in Frames : at[g] \in DestructorStages \/ at'[g] \in DestructorStages => at'[g] = at[g]
      PROVE  DestructorInv'
  <2>1. \A g \in Frames : at'[g] \in DestructorStages => at'[g] = at[g] /\ at[g] \in DestructorStages
    BY <1>7
  <2> QED
    BY <1>3, <2>1 DEF EndInv, DestructorInv, NoneTaken, DestructorStages
<1>8. ASSUME NEW b \in Frames, Starts(f, b), slots' = [slots EXCEPT ![a] = work[f].op]
      PROVE  EndInv'
  <2>1. PICK w \in Workers : w = work[f].op /\ b = <<w, 0>> /\ slots'[a] = w
    BY <1>3, <1>8 DEF Starts
  <2>2. \A g \in Frames : at[g] \in DestructorStages \/ at'[g] \in DestructorStages => at'[g] = at[g]
    BY <1>8 DEF Starts, Same, DestructorStages
  <2>3. \A v \in Workers : v = w \/ at'[<<v, 0>>] = at[<<v, 0>>]
    <3> SUFFICES ASSUME NEW v \in Workers, v # w PROVE at'[<<v, 0>>] = at[<<v, 0>>]
      OBVIOUS
    <3>1. PICK c \in Frames : c = <<v, 0>> /\ Base(c) /\ c # b
      BY <2>1, FrameFacts
    <3> QED
      BY <1>3, <1>8, <3>1 DEF Starts, Same
  <2> QED
    BY <1>6, <1>7, <2>1, <2>2, <2>3 DEF EndInv, Kept
<1>9. ASSUME ToSettle(f, work[f].goal) PROVE EndInv'
  <2>1. at'[f] = "settling" /\ \A g \in Frames : g # f => at'[g] = at[g]
    BY <1>1, <1>9 DEF ToSettle, Step, FramesTyped
  <2>2. \A g \in Frames : at[g] \in DestructorStages \/ at'[g] \in DestructorStages => at'[g] = at[g]
    BY <1>3, <2>1 DEF DestructorStages
  <2>3. \A v \in Workers : at'[<<v, 0>>] = at[<<v, 0>>]
    <3> SUFFICES ASSUME NEW v \in Workers PROVE at'[<<v, 0>>] = at[<<v, 0>>]
      OBVIOUS
    <3>1. PICK c \in Frames : c = <<v, 0>> /\ Base(c)
      BY FrameFacts
    <3> QED
      BY <1>3, <2>1, <3>1
  <2> QED
    BY <1>6, <1>7, <2>2, <2>3 DEF EndInv, Kept
<1>10. \/ ToSettle(f, work[f].goal)
       \/ /\ slots' = [slots EXCEPT ![a] = work[f].op]
          /\ at' = [at EXCEPT ![f] = "leaving", ![<<work[f].op, 0>>] = "locking"]
  BY <1>2 DEF Launch
<1>11. CASE /\ slots' = [slots EXCEPT ![a] = work[f].op]
            /\ at' = [at EXCEPT ![f] = "leaving", ![<<work[f].op, 0>>] = "locking"]
  <2>1. ~Concludes(f)
    <3>1. at'[f] \in {"leaving", "locking"}
      BY <1>1, <1>11 DEF FramesTyped
    <3>2. Concludes(f) => at'[f] = "settling"
      BY <1>1 DEF Concludes, FramesTyped
    <3> QED
      BY <3>1, <3>2
  <2> QED
    BY <1>8, <1>11, <2>1, LaunchStarts
<1> QED
  BY <1>9, <1>10, <1>11

LEMMA CloseEnds ==
  ASSUME FrameInv, ChargeInv, EndInv, NEW f \in Frames, CloseIn(f), Entered(f)
  PROVE  EndInv'
<1>1. FramesTyped
  BY TypedParts DEF FrameInv
<1>2. /\ life = "alive" /\ life' = "closed" /\ slots' = slots /\ taken' = taken /\ ~Base(f)
      /\ at[f] = "none" /\ at'[f] = "resetting" /\ \A g \in Frames : g # f => at'[g] = at[g]
  BY <1>1, EnteredFacts DEF CloseIn, Step, FramesTyped, slotted
<1>3. \A g \in Frames : at[g] \notin DestructorStages
  BY <1>2 DEF ChargeInv, Closing
<1>4. NoneTaken'
  BY <1>2 DEF EndInv, DestructorInv, NoneTaken
<1>5. DestructorInv'
  BY <1>2, <1>3, <1>4 DEF DestructorInv, NoneTaken, DestructorStages
<1>6. \A v \in Workers : at'[<<v, 0>>] = at[<<v, 0>>]
  <2> SUFFICES ASSUME NEW v \in Workers PROVE at'[<<v, 0>>] = at[<<v, 0>>]
    OBVIOUS
  <2>1. PICK c \in Frames : c = <<v, 0>> /\ Base(c)
    BY FrameFacts
  <2> QED
    BY <1>2, <2>1
<1>7. \A v \in Workers : ~Detached(v)
  BY <1>3 DEF Detached, DestructorStages
<1> QED
  BY <1>2, <1>5, <1>6, <1>7 DEF EndInv, Kept

LEMMA DestructorEnds ==
  ASSUME FrameInv, Stacked, ChargeInv, MutexInv, EndInv, NEW f \in Frames, Destructor(f)
  PROVE  EndInv'
<1>1. /\ TypeOK /\ FramesTyped /\ AsWorker(f)
      /\ slots \in [WorkerActions -> Threads \cup {NoThread}]
      /\ taken \in [WorkerActions -> Threads \cup {NoThread}]
  BY TypedParts DEF FrameInv, Shaped, TypeOK
<1>2. /\ DestructorWalks(f) /\ out' = out /\ life' = life /\ life # "gone"
  BY DestructorEffect
<1>3. at[f] \in DestructorStages /\ at'[f] \in DestructorStages /\ \A g \in Frames : g # f => at'[g] = at[g]
  BY <1>1, <1>2, MoveValues DEF DestructorWalks, DestructorStages, Same
<1>4. life = "closed" /\ life' = "closed"
  BY <1>1, <1>2, <1>3 DEF ChargeInv, Closing, TypeOK
<1>5. \A g \in Frames : at'[g] \in DestructorStages => g = f
  BY <1>3 DEF EndInv, DestructorInv
<1>6. ASSUME /\ at'[f] \in DestructorStages \ {"joining initialize", "joining destroy"} => NoneTaken'
             /\ at'[f] = "joining destroy" => taken'["initialize"] = NoThread
      PROVE  DestructorInv'
  BY <1>4, <1>5, <1>6 DEF DestructorInv, DestructorStages
<1>7. \A v \in Workers : at'[<<v, 0>>] = at[<<v, 0>>]
  <2> SUFFICES ASSUME NEW v \in Workers PROVE at'[<<v, 0>>] = at[<<v, 0>>]
    OBVIOUS
  <2>1. PICK c \in Frames : c = <<v, 0>> /\ Base(c)
    BY FrameFacts
  <2>2. ~Base(f)
    BY <1>1, <1>3 DEF AsWorker, WorkerStages, DestructorStages
  <2> QED
    BY <1>3, <2>1, <2>2
<1>8. ASSUME \A v \in Workers, a \in WorkerActions :
               slots[a] = v \/ taken[a] = v => \/ \E b \in WorkerActions : slots'[b] = v \/ taken'[b] = v
                                               \/ Detached(v)'
                                               \/ at[<<v, 0>>] = "ended",
             \A v \in Workers : Detached(v) => Detached(v)'
      PROVE  Kept'
  BY <1>7, <1>8 DEF EndInv, Kept
<1>9. \A v \in Workers : Detached(v) =>
        v = Thread(f) /\ at[f] \in {"joining destroy", "locking module"}
  BY <1>3 DEF EndInv, DestructorInv, Detached, DestructorStages
<1>10. CASE ResetLifecycle(f)
  <2>1. at[f] = "resetting" /\ at'[f] = "taking" /\ slots' = slots /\ taken' = taken
    BY <1>1, <1>10 DEF ResetLifecycle, Runs, Step, FramesTyped, slotted
  <2>2. NoneTaken'
    BY <1>3, <2>1 DEF EndInv, DestructorInv, NoneTaken
  <2> QED
    BY <1>6, <1>8, <1>9, <2>1, <2>2 DEF EndInv
<1>11. CASE TakeWorkers(f)
  <2>1. at[f] = "taking" /\ at'[f] = "joining initialize" /\ taken' = slots
    BY <1>1, <1>11 DEF TakeWorkers, Runs, Step, FramesTyped
  <2>2. \A a \in WorkerActions : taken[a] = NoThread
    BY <1>3, <2>1 DEF EndInv, DestructorInv, NoneTaken
  <2>3. \A v \in Workers : v # NoThread
    BY FrameFacts
  <2> QED
    BY <1>6, <1>8, <1>9, <2>1, <2>2, <2>3 DEF EndInv
<1>12. CASE JoinTaken(f)
  <2>1. PICK a \in WorkerActions :
          /\ at[f] = (IF a = "initialize" THEN "joining initialize" ELSE "joining destroy")
          /\ taken[a] # Thread(f) => Ended(taken[a])
          /\ taken' = [taken EXCEPT ![a] = NoThread]
          /\ at'[f] = (IF a = "initialize" THEN "joining destroy" ELSE "locking module")
          /\ slots' = slots
    BY <1>1, <1>12 DEF JoinTaken, Runs, Step, FramesTyped
  <2>2. /\ taken'[a] = NoThread /\ \A b \in WorkerActions : b # a => taken'[b] = taken[b]
        /\ a \in {"initialize", "destroy"}
    BY <1>1, <2>1 DEF WorkerActions
  <2>3. DestructorInv'
    <3>1. CASE a = "initialize"
      BY <1>6, <2>1, <2>2, <3>1
    <3>2. CASE a = "destroy"
      <4>1. taken["initialize"] = NoThread
        BY <2>1, <3>2 DEF EndInv, DestructorInv
      <4>2. NoneTaken'
        BY <2>2, <3>2, <4>1 DEF NoneTaken, WorkerActions
      <4> QED
        BY <1>6, <2>1, <3>2, <4>2
    <3> QED
      BY <2>2, <3>1, <3>2
  <2>4. at'[f] \in {"joining destroy", "locking module"}
    BY <2>1, <2>2
  <2>5. Detached(Thread(f))'
    BY <2>4 DEF Detached
  <2>6. \A v \in Workers : taken[a] = v => v = Thread(f) \/ at[<<v, 0>>] = "ended"
    BY <2>1, FrameFacts DEF Ended
  <2> QED
    BY <1>8, <1>9, <2>1, <2>2, <2>3, <2>5, <2>6 DEF EndInv
<1>13. CASE LockModule(f)
  <2>1. /\ at[f] = "locking module" /\ at'[f] = "releasing" /\ slots' = slots /\ taken' = taken
        /\ createNode = NoThread
    BY <1>1, <1>13 DEF LockModule, Runs, Step, FramesTyped, slotted
  <2>2. NoneTaken'
    BY <1>3, <2>1 DEF EndInv, DestructorInv, NoneTaken
  <2>3. Thread(f) \notin Workers
    <3>1. SUFFICES ASSUME Thread(f) \in Workers PROVE FALSE
      OBVIOUS
    <3>2. ~Base(f)
      BY <1>1, <2>1 DEF AsWorker, WorkerStages
    <3>3. PICK b \in Frames : b = <<Thread(f), 0>> /\ Base(b) /\ at[b] = "handling"
      BY <2>1, <3>1, <3>2, NestedInHandler
    <3>4. createNode = Thread(b) /\ Thread(b) \in Threads
      BY <3>3, FrameFacts DEF MutexInv, InMutex
    <3> QED
      BY <2>1, <3>4, FrameFacts
  <2> QED
    BY <1>6, <1>8, <1>9, <2>1, <2>2, <2>3 DEF EndInv
<1>14. CASE ReleaseContext(f)
  <2>1. at[f] = "releasing" /\ at'[f] = "draining" /\ slots' = slots /\ taken' = taken
    BY <1>1, <1>14 DEF ReleaseContext, Runs, Step, FramesTyped, slotted
  <2>2. NoneTaken'
    BY <1>3, <2>1 DEF EndInv, DestructorInv, NoneTaken
  <2> QED
    BY <1>6, <1>8, <1>9, <2>1, <2>2 DEF EndInv
<1> QED
  BY <1>10, <1>11, <1>12, <1>13, <1>14 DEF Destructor

LEMMA VanishEnds ==
  ASSUME EndInv, NEW f \in Frames, Vanish(f)
  PROVE  EndInv'
<1>1. /\ at[f] = "draining" /\ at[f] \in DestructorStages /\ life' = "gone" /\ at' = at
      /\ slots' = slots /\ taken' = taken
  BY DEF Vanish, Runs, frames, slotted, DestructorStages
<1>2. \A g \in Frames : at[g] \in DestructorStages => g = f
  BY <1>1 DEF EndInv, DestructorInv
<1>3. NoneTaken'
  BY <1>1 DEF EndInv, DestructorInv, NoneTaken
<1> QED
  BY <1>1, <1>2, <1>3 DEF EndInv, DestructorInv, Kept, Detached

\* When the destructor is through, what it took over it joined, or detached as
\* the thread it runs on, which then never gets past createNodeMutex: a worker
\* that still runs sits in a slot that was filled after the slots were emptied.
THEOREM JoinedBeforeGone == Spec => []WorkersEndBeforeModule
<1>1. Init => ThreadsInv /\ EndInv
  <2> SUFFICES ASSUME Init PROVE EndInv
    BY OperationsInit, SharedInit DEF ThreadsInv
  <2>1. \A f \in Frames : at[f] = "none"
    BY DEF Init
  <2>2. DestructorInv
    BY <2>1 DEF Init, DestructorInv, NoneTaken, DestructorStages
  <2>3. Kept
    BY <2>1, FrameFacts DEF Kept
  <2> QED
    BY <2>2, <2>3 DEF EndInv
<1>2. ThreadsInv /\ EndInv /\ [Next]_vars => (ThreadsInv /\ EndInv)'
  <2> SUFFICES ASSUME ThreadsInv, EndInv, [Next]_vars PROVE EndInv'
    BY ThreadsStep
  <2>1. FrameInv /\ Stacked /\ ChargeInv /\ MutexInv
    BY DEF ThreadsInv, OperationsInv, SharedInv
  <2>2. CASE Next
    BY <2>1, <2>2, StillCases, StillStep, LaunchEnds, CloseEnds, DestructorEnds, VanishEnds
  <2>3. CASE UNCHANGED vars
    <3>1. at' = at /\ slots' = slots /\ taken' = taken /\ life' = life
      BY <2>3 DEF vars, frames, slotted
    <3> QED
      BY <3>1 DEF EndInv, DestructorInv, NoneTaken, Kept, Detached
  <2> QED
    BY <2>2, <2>3
<1>3. ThreadsInv /\ EndInv => WorkersEndBeforeModule
  <2> SUFFICES ASSUME EndInv, life = "gone", NEW w \in Workers, at[<<w, 0>>] \notin {"none", "ended"}
               PROVE  \E a \in WorkerActions : slots[a] = w
    BY DEF WorkersEndBeforeModule
  <2>1. \A a \in WorkerActions : taken[a] # w
    BY FrameFacts DEF EndInv, DestructorInv, NoneTaken
  <2>2. ~Detached(w)
    BY DEF EndInv, DestructorInv, Detached, DestructorStages
  <2> QED
    BY <2>1, <2>2 DEF EndInv, Kept
<1> QED
  BY <1>1, <1>2, <1>3, PTL DEF Spec
=============================================================================
