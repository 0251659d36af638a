---------------------------- MODULE ModuleThreads ----------------------------
(***************************************************************************)
(* Who runs the module: host threads in nodeAction(), the initialize and   *)
(* destroy workers it launches, liblogosdelivery's callback thread, threads*)
(* in the API wrappers, and the destructor.  They meet at createNodeMutex, *)
(* at lifecycleWorkerMutex, at the two worker slots, at the context        *)
(* pointer, which wrappers read without a lock, and in the host's event    *)
(* handlers, which run inside nodeChanged() on whichever thread emits and  *)
(* may call the module again.                                              *)
(*                                                                         *)
(* NodeLifecycle has what an action does to the node; here the node is its *)
(* last settled state and the operation in flight, for a host that keeps   *)
(* to nodeAction().  An operation is named by the sequence number it began *)
(* with, and so is the worker launched for it.                             *)
(***************************************************************************)
EXTENDS FiniteSets, Integers, Sequences

CONSTANTS
  Hosts,        \* host threads that call nodeAction() and may destroy the module
  Users,        \* host threads that call the API wrappers
  Ffi,          \* liblogosdelivery's callback thread
  NoThread,
  MaxDepth,     \* bound: how deep a handler's calls into the module nest
  MaxSequence   \* bound: no action begins once the sequence has come this far

ASSUME ThreadsAssumption ==
  /\ MaxDepth \in Nat /\ MaxSequence \in Nat
  /\ Ffi \notin Hosts /\ NoThread \notin Hosts \cup {Ffi} \cup Nat
  /\ (Hosts \cup {Ffi}) \cap Nat = {}

Actions == {"initialize", "start", "stop", "destroy"}
WorkerActions == {"initialize", "destroy"}
Workers == 1 .. MaxSequence
Threads == Hosts \cup {Ffi} \cup Workers

VARIABLES
  state, pending, sequence,   \* under lifecycleMutex; pending is the active operation
  ctx, dead,                  \* deliveryCtx (0: null); contexts destroyed
  createNode, workerMutex,    \* owners of createNodeMutex and lifecycleWorkerMutex
  slots,                      \* lifecycleInitializeWorker, lifecycleDestroyWorker
  taken,                      \* the same, once the destructor moved them out
  life,                       \* "alive", "closed" (destructor began), "gone"
  at, work, out,              \* per frame: its next step, its operation, events to emit
  owed,                       \* start/stop completions liblogosdelivery owes
  heard,                      \* events the host got
  use, quiet                  \* per wrapper call: has it tested; no lock held since

node == <<state, pending, sequence>>
context == <<ctx, dead>>
locks == <<createNode, workerMutex>>
slotted == <<slots, taken>>
frames == <<at, work, out>>
wrappers == <<use, quiet>>
vars == <<node, context, locks, slotted, life, frames, owed, heard, wrappers>>

Idle == [op |-> 0, action |-> "none"]
NoWork == [op |-> 0, action |-> "none", goal |-> "uninitialized", next |-> "leaving"]

\* A thread's call stack: level 0, and above it what handlers called.
Frames == Threads \X (0 .. MaxDepth)
Thread(f) == f[1]
Above(f) == <<f[1], f[2] + 1>>
Top(f) == Above(f) \in Frames => at[Above(f)] = "none"
Runs(f, stage) == life # "gone" /\ at[f] = stage /\ Top(f)

Init ==
  /\ state = "uninitialized" /\ pending = Idle /\ sequence = 0
  /\ ctx = 0 /\ dead = {}
  /\ createNode = NoThread /\ workerMutex = NoThread
  /\ slots = [a \in WorkerActions |-> NoThread]
  /\ taken = [a \in WorkerActions |-> NoThread]
  /\ life = "alive"
  /\ at = [f \in Frames |-> "none"]
  /\ work = [f \in Frames |-> NoWork]
  /\ out = [f \in Frames |-> <<>>]
  /\ owed = {}
  /\ heard = {}
  /\ use = [u \in Users |-> "idle"]
  /\ quiet = [u \in Users |-> FALSE]

-----------------------------------------------------------------------------
(***************************************************************************)
(* nodeAction(): begin under lifecycleMutex, emit the events built there,  *)
(* then dispatch, then return the acknowledgement.                         *)
(***************************************************************************)
Event(n, op, phase, by) == [n |-> n, op |-> op, phase |-> phase, by |-> by]

AlreadyThere(a) ==
  \/ a = "start"   /\ state = "running"
  \/ a = "stop"    /\ state = "stopped"
  \/ a = "destroy" /\ state = "uninitialized"

\* Whether the listeners let start through is NodeLifecycle's matter.
Dispatchable(a) ==
  \/ a = "initialize" /\ state = "uninitialized"
  \/ a = "start"      /\ state = "stopped"
  \/ a = "stop"       /\ state = "running"
  \/ a = "destroy"    /\ state = "stopped" /\ ctx # 0

\* Mutant of Accepts: an operation in flight does not keep another out.
AcceptsOnStateOnly(a) == Dispatchable(a)

Accepts(a) == pending = Idle /\ Dispatchable(a)
Refuses(a) == pending # Idle \/ (~AlreadyThere(a) /\ (Dispatchable(a) => a = "start"))

Step(f, stage) == at' = [at EXCEPT ![f] = stage]

\* Mutant of Undertake: dispatching comes before the events, which it forgets.
UndertakeDispatchesFirst(f, what, events) ==
  /\ Step(f, IF what.next = "dispatching" THEN "dispatching" ELSE "emitting")
  /\ work' = [work EXCEPT ![f] = [what EXCEPT !.next = "leaving"]]
  /\ out' = [out EXCEPT ![f] = events]
  /\ sequence' = sequence + Len(events)

\* Frame f has an operation to look after, and events to emit before it does.
Undertake(f, what, events) ==
  /\ Step(f, "emitting")
  /\ work' = [work EXCEPT ![f] = what]
  /\ out' = [out EXCEPT ![f] = events]
  /\ sequence' = sequence + Len(events)

\* beginLifecycleAction in frame f
Begin(f, a) ==
  LET op == sequence + 1
      accepted == Event(op, op, "accepted", Thread(f))
  IN  /\ sequence < MaxSequence /\ at[f] = "none"
      /\ \/ /\ Accepts(a)
            /\ pending' = [op |-> op, action |-> a]
            /\ Undertake(f, [op |-> op, action |-> a, goal |-> state, next |-> "dispatching"],
                         <<accepted>>)
         \/ /\ pending = Idle /\ AlreadyThere(a)
            /\ Undertake(f, NoWork, <<accepted, Event(op + 1, op, "settled", Thread(f))>>)
            /\ UNCHANGED pending
         \/ /\ Refuses(a)
            /\ Undertake(f, NoWork, <<Event(op, op, "rejected", Thread(f))>>)
            /\ UNCHANGED pending
      /\ UNCHANGED <<state, context, locks, slotted, life, owed, heard, wrappers>>

HostCalls(h, a) == life = "alive" /\ Begin(<<h, 0>>, a)

\* nodeChanged(event), outside lifecycleMutex
Emit(f) ==
  /\ Runs(f, "emitting")
  /\ heard' = heard \cup {Head(out[f])}
  /\ out' = [out EXCEPT ![f] = Tail(@)]
  /\ at' = [at EXCEPT ![f] = "handling"]
  /\ UNCHANGED <<node, context, locks, slotted, life, work, owed, wrappers>>

\* What follows once the frame has nothing to emit, and then it leaves.
Proceed(f) ==
  /\ at' = [at EXCEPT ![f] = work[f].next]
  /\ work' = [work EXCEPT ![f].next = "leaving"]

\* Mutant of HandlerReturns: a frame emits the first of its events only.
HandlerReturnsOnce(f) ==
  /\ Runs(f, "handling") /\ Proceed(f)
  /\ UNCHANGED <<node, context, locks, slotted, life, out, owed, heard, wrappers>>

HandlerReturns(f) ==
  /\ Runs(f, "handling")
  /\ IF out[f] = <<>> THEN Proceed(f)
     ELSE at' = [at EXCEPT ![f] = "emitting"] /\ UNCHANGED work
  /\ UNCHANGED <<node, context, locks, slotted, life, out, owed, heard, wrappers>>

\* Hypothesis on the host: its handlers begin nothing more once the destructor
\* has begun.  The destructor ends the operation in flight, so two calls made
\* from then on can both be accepted, and the first then waits for a worker
\* whose handler waits for the first with the second.
HandlerCalls(f, a) ==
  /\ Runs(f, "handling") /\ life = "alive"
  /\ Above(f) \in Frames /\ Begin(Above(f), a)

-----------------------------------------------------------------------------
(***************************************************************************)
(* Dispatching.  A frame that settles does so in one critical section and  *)
(* emits what it built there afterwards.                                   *)
(***************************************************************************)
\* Go on to settleLifecycleAction with the state to settle in.
ToSettle(f, goal) ==
  /\ Step(f, "settling")
  /\ work' = [work EXCEPT ![f].goal = goal, ![f].next = "leaving"]

\* Mutant of Settle: createNodeMutex is given back before the event is emitted.
SettleUnlocks(f) ==
  /\ Runs(f, "settling")
  /\ createNode' = IF createNode = Thread(f) THEN NoThread ELSE createNode
  /\ IF pending = [op |-> work[f].op, action |-> work[f].action]
     THEN /\ state' = work[f].goal /\ pending' = Idle /\ sequence' = sequence + 1
          /\ out' = [out EXCEPT ![f] =
                       <<Event(sequence + 1, work[f].op, "settled", Thread(f))>>]
          /\ Step(f, "emitting") /\ UNCHANGED work
     ELSE Proceed(f) /\ UNCHANGED <<node, out>>
  /\ UNCHANGED <<context, workerMutex, slotted, life, owed, heard, wrappers>>

Settle(f) ==
  /\ Runs(f, "settling")
  /\ IF pending = [op |-> work[f].op, action |-> work[f].action]
     THEN /\ state' = work[f].goal
          /\ pending' = Idle
          /\ sequence' = sequence + 1
          /\ out' = [out EXCEPT ![f] =
                       <<Event(sequence + 1, work[f].op, "settled", Thread(f))>>]
          /\ Step(f, "emitting") /\ UNCHANGED work
     ELSE Proceed(f) /\ UNCHANGED <<node, out>>
  /\ UNCHANGED <<context, locks, slotted, life, owed, heard, wrappers>>

\* launch*Worker: called on the worker it would join, it gives up;
LaunchOnItself(f) ==
  /\ Runs(f, "dispatching") /\ work[f].action \in WorkerActions
  /\ workerMutex = NoThread /\ slots[work[f].action] = Thread(f)
  /\ ToSettle(f, work[f].goal)
  /\ UNCHANGED <<node, context, locks, slotted, life, out, owed, heard, wrappers>>

\* Mutant of LaunchLocks: nobody asks who the worker to join is.
LaunchLocksRegardless(f) ==
  /\ Runs(f, "dispatching") /\ work[f].action \in WorkerActions
  /\ workerMutex = NoThread
  /\ workerMutex' = Thread(f)
  /\ Step(f, "joining")
  /\ UNCHANGED <<node, context, createNode, slotted, life, work, out, owed, heard, wrappers>>

\* otherwise it waits, with the mutex, for the slot's last worker to end,
LaunchLocks(f) ==
  /\ Runs(f, "dispatching") /\ work[f].action \in WorkerActions
  /\ workerMutex = NoThread /\ slots[work[f].action] # Thread(f)
  /\ workerMutex' = Thread(f)
  /\ Step(f, "joining")
  /\ UNCHANGED <<node, context, createNode, slotted, life, work, out, owed, heard, wrappers>>

Ended(t) == t # NoThread => at[<<t, 0>>] = "ended"

\* Mutant of Launch: the worker is named after the operation that is active now.
LaunchForActive(f) ==
  LET a == work[f].action
  IN  /\ Runs(f, "joining") /\ Ended(slots[a])
      /\ workerMutex' = NoThread
      /\ slots' = [slots EXCEPT ![a] = pending.op]
      /\ at' = [at EXCEPT ![f] = "leaving", ![<<work[f].op, 0>>] = "locking"]
      /\ work' = [work EXCEPT ![<<work[f].op, 0>>] = work[f]]
      /\ UNCHANGED <<node, context, createNode, taken, life, out, owed, heard, wrappers>>

\* and starts the next, if the system has a thread for it.
Launch(f) ==
  LET a == work[f].action
      w == work[f].op
  IN  /\ Runs(f, "joining") /\ Ended(slots[a])
      /\ workerMutex' = NoThread
      /\ \/ /\ slots' = [slots EXCEPT ![a] = w]
            /\ at' = [at EXCEPT ![f] = "leaving", ![<<w, 0>>] = "locking"]
            /\ work' = [work EXCEPT ![<<w, 0>>] = work[f]]
         \/ /\ slots' = [slots EXCEPT ![a] = NoThread]
            /\ ToSettle(f, work[f].goal)
      /\ UNCHANGED <<node, context, createNode, taken, life, out, owed, heard, wrappers>>

\* startPrepared, stopPrepared: the context is tested,
Test(f) ==
  /\ Runs(f, "dispatching") /\ work[f].action \in {"start", "stop"}
  /\ \/ ctx # 0 /\ Step(f, "binding") /\ UNCHANGED work
     \/ (ctx = 0 \/ work[f].action = "start") /\ ToSettle(f, work[f].goal)
  /\ UNCHANGED <<node, context, locks, slotted, life, out, owed, heard, wrappers>>

\* read again for the call, whose callback may come from now on,
Bind(f) ==
  /\ Runs(f, "binding")
  /\ Step(f, "calling")
  /\ owed' = owed \cup {work[f].action}
  /\ UNCHANGED <<node, context, locks, slotted, life, work, out, heard, wrappers>>

\* and the call returns, or refuses.
CallReturns(f) ==
  /\ Runs(f, "calling")
  /\ \/ Step(f, "leaving") /\ UNCHANGED <<work, owed>>
     \/ ToSettle(f, work[f].goal) /\ owed' = owed \ {work[f].action}
  /\ UNCHANGED <<node, context, locks, slotted, life, out, heard, wrappers>>

\* The frame is done: nodeAction() returns its acknowledgement, a worker gives
\* createNodeMutex back and ends, a callback returns its lease.
Leave(f) ==
  /\ Runs(f, "leaving")
  /\ IF Thread(f) \in Workers /\ f[2] = 0
     THEN createNode' = NoThread /\ Step(f, "ended")
     ELSE Step(f, "none") /\ UNCHANGED createNode
  /\ work' = [work EXCEPT ![f] = NoWork]
  /\ UNCHANGED <<node, context, workerMutex, slotted, life, out, owed, heard, wrappers>>

-----------------------------------------------------------------------------
(***************************************************************************)
(* A worker, from createNodeMutex to createNodeMutex.                      *)
(***************************************************************************)
\* A wrapper call that saw no one in the mutex so far does so no more.
NobodyQuiet == quiet' = [u \in Users |-> FALSE]

LockCreateNode(f) ==
  /\ Runs(f, "locking") /\ createNode = NoThread
  /\ createNode' = Thread(f)
  /\ NobodyQuiet
  /\ Step(f, "working")
  /\ UNCHANGED <<node, context, workerMutex, slotted, life, work, out, owed, heard, use>>

\* createNodePrepared: refused or failed, or there is a context, which can be
\* kept, or be destroyed again for want of listeners.
Create(f) ==
  /\ Runs(f, "working") /\ work[f].action = "initialize"
  /\ \/ ToSettle(f, "uninitialized") /\ UNCHANGED ctx
     \/ ctx = 0 /\ ctx' = work[f].op /\ Step(f, "registering") /\ UNCHANGED work
  /\ UNCHANGED <<node, dead, locks, slotted, life, out, owed, heard, wrappers>>

Register(f) ==
  /\ Runs(f, "registering")
  /\ \/ ToSettle(f, "stopped") /\ UNCHANGED dead
     \/ dead' = dead \cup {ctx} /\ Step(f, "clearing") /\ UNCHANGED work
  /\ UNCHANGED <<node, ctx, locks, slotted, life, out, owed, heard, wrappers>>

\* destroyPrepared: the listeners stay or the FFI refuses, or the context is gone
Destroy(f) ==
  /\ Runs(f, "working") /\ work[f].action = "destroy"
  /\ \/ ToSettle(f, work[f].goal) /\ UNCHANGED dead
     \/ ctx # 0 /\ dead' = dead \cup {ctx} /\ Step(f, "clearing") /\ UNCHANGED work
  /\ UNCHANGED <<node, ctx, locks, slotted, life, out, owed, heard, wrappers>>

\* Mutant of Clear: the pointer keeps the context's address.
ClearNothing(f) ==
  /\ Runs(f, "clearing")
  /\ ToSettle(f, "uninitialized")
  /\ UNCHANGED <<node, context, locks, slotted, life, out, owed, heard, wrappers>>

\* and then the pointer is.
Clear(f) ==
  /\ Runs(f, "clearing")
  /\ ctx' = 0
  /\ ToSettle(f, "uninitialized")
  /\ UNCHANGED <<node, dead, locks, slotted, life, out, owed, heard, wrappers>>

-----------------------------------------------------------------------------
(***************************************************************************)
(* liblogosdelivery's thread: start/stop completions and events, each with *)
(* a lease for as long as its frame is there.                              *)
(***************************************************************************)
\* start_callback, stop_callback: settle the active operation if it is of that
\* action, then run the host's handler of nodeStarted, nodeStopped.
Completion(a) ==
  LET f == <<Ffi, 0>>
  IN  /\ a \in owed /\ at[f] = "none" /\ life # "gone"
      /\ owed' = owed \ {a}
      /\ IF life = "alive"
         THEN IF pending.action = a
              THEN \E ok \in BOOLEAN :
                     /\ Step(f, "settling")
                     /\ work' = [work EXCEPT ![f] =
                          [op |-> pending.op, action |-> a, next |-> "handling",
                           goal |-> IF (a = "start") = ok THEN "running" ELSE "stopped"]]
              ELSE Step(f, "handling") /\ UNCHANGED work
         ELSE UNCHANGED <<at, work>>
      /\ UNCHANGED <<node, context, locks, slotted, life, out, heard, wrappers>>

\* event_callback: the host's handler of some other event runs
Notification ==
  LET f == <<Ffi, 0>>
  IN  /\ at[f] = "none" /\ life = "alive" /\ ctx # 0
      /\ Step(f, "handling")
      /\ UNCHANGED <<node, context, locks, slotted, life, work, out, owed, heard, wrappers>>

Leased == at[<<Ffi, 0>>] # "none"

-----------------------------------------------------------------------------
(***************************************************************************)
(* ~DeliveryModuleImpl, run by a host thread that knows of no other call,  *)
(* or by a handler.                                                        *)
(***************************************************************************)
DestructorStages ==
  {"resetting", "taking", "joining initialize", "joining destroy", "locking module",
   "releasing", "draining"}

HostsIdle ==
  /\ \A h \in Hosts : at[<<h, 0>>] = "none"
  /\ \A u \in Users : use[u] = "idle"

\* closeEventCallbackContext
CloseIn(f) ==
  /\ life = "alive" /\ HostsIdle /\ at[f] = "none"
  /\ life' = "closed"
  /\ Step(f, "resetting")
  /\ UNCHANGED <<node, context, locks, slotted, work, out, owed, heard, wrappers>>

HostDestroys(h) == CloseIn(<<h, 0>>)
HandlerDestroys(f) == Runs(f, "handling") /\ Above(f) \in Frames /\ CloseIn(Above(f))

ResetLifecycle(f) ==
  /\ Runs(f, "resetting")
  /\ state' = "uninitialized" /\ pending' = Idle
  /\ Step(f, "taking")
  /\ UNCHANGED <<sequence, context, locks, slotted, life, work, out, owed, heard, wrappers>>

TakeWorkers(f) ==
  /\ Runs(f, "taking") /\ workerMutex = NoThread
  /\ taken' = slots
  /\ slots' = [a \in WorkerActions |-> NoThread]
  /\ Step(f, "joining initialize")
  /\ UNCHANGED <<node, context, locks, life, work, out, owed, heard, wrappers>>

\* Mutant of JoinTaken: every worker is detached.
JoinNobody(f) ==
  /\ \E a \in WorkerActions :
       /\ Runs(f, IF a = "initialize" THEN "joining initialize" ELSE "joining destroy")
       /\ taken' = [taken EXCEPT ![a] = NoThread]
       /\ Step(f, IF a = "initialize" THEN "joining destroy" ELSE "locking module")
  /\ UNCHANGED <<node, context, locks, slots, life, work, out, owed, heard, wrappers>>

\* A worker is joined, or detached by a destructor that runs on it.
JoinTaken(f) ==
  /\ \E a \in WorkerActions :
       /\ Runs(f, IF a = "initialize" THEN "joining initialize" ELSE "joining destroy")
       /\ taken[a] # Thread(f) => Ended(taken[a])
       /\ taken' = [taken EXCEPT ![a] = NoThread]
       /\ Step(f, IF a = "initialize" THEN "joining destroy" ELSE "locking module")
  /\ UNCHANGED <<node, context, locks, slots, life, work, out, owed, heard, wrappers>>

LockModule(f) ==
  /\ Runs(f, "locking module") /\ createNode = NoThread
  /\ createNode' = Thread(f)
  /\ NobodyQuiet
  /\ Step(f, "releasing")
  /\ UNCHANGED <<node, context, workerMutex, slotted, life, work, out, owed, heard, use>>

\* Listeners are removed and the context is destroyed, or dropped undestroyed.
ReleaseContext(f) ==
  /\ Runs(f, "releasing")
  /\ dead' \in {dead, dead \cup ({ctx} \ {0})}
  /\ ctx' = 0
  /\ Step(f, "draining")
  /\ UNCHANGED <<node, locks, slotted, life, work, out, owed, heard, wrappers>>

\* waitForCallbacks, then the members are destroyed.
Vanish(f) ==
  /\ Runs(f, "draining") /\ ~Leased
  /\ life' = "gone"
  /\ UNCHANGED <<node, context, locks, slotted, frames, owed, heard, wrappers>>

-----------------------------------------------------------------------------
(***************************************************************************)
(* The API wrappers test the context pointer, and read it again to call    *)
(* liblogosdelivery with it; ApiCall has how they wait.                    *)
(***************************************************************************)
UserTests(u) ==
  /\ use[u] = "idle" /\ life = "alive" /\ ctx # 0
  /\ use' = [use EXCEPT ![u] = "tested"]
  /\ quiet' = [quiet EXCEPT ![u] = createNode = NoThread]
  /\ UNCHANGED <<node, context, locks, slotted, life, frames, owed, heard>>

UserCalls(u) ==
  /\ use[u] = "tested"
  /\ use' = [use EXCEPT ![u] = "idle"]
  /\ quiet' = [quiet EXCEPT ![u] = FALSE]
  /\ UNCHANGED <<node, context, locks, slotted, life, frames, owed, heard>>

-----------------------------------------------------------------------------
\* What a thread does of its own accord once it is in a frame.
Advance(f) ==
  /\ at[f] \notin {"none", "ended"}
  /\ \/ Emit(f) \/ HandlerReturns(f) \/ Settle(f)
     \/ LaunchOnItself(f) \/ LaunchLocks(f) \/ Launch(f)
     \/ Test(f) \/ Bind(f) \/ CallReturns(f) \/ Leave(f)
     \/ LockCreateNode(f) \/ Create(f) \/ Register(f) \/ Destroy(f) \/ Clear(f)
     \/ ResetLifecycle(f) \/ TakeWorkers(f) \/ JoinTaken(f) \/ LockModule(f)
     \/ ReleaseContext(f) \/ Vanish(f)

FfiFrames == {f \in Frames : Thread(f) = Ffi}
OtherFrames == Frames \ FfiFrames

Host ==
  \/ \E h \in Hosts, a \in Actions : HostCalls(h, a)
  \/ \E h \in Hosts : HostDestroys(h)
  \/ \E f \in Frames, a \in Actions : HandlerCalls(f, a)
  \/ \E f \in Frames : HandlerDestroys(f)
  \/ \E u \in Users : UserTests(u) \/ UserCalls(u)

Next ==
  \/ Host
  \/ \E f \in Frames : Advance(f)
  \/ \E a \in {"start", "stop"} : Completion(a)
  \/ Notification

Spec == Init /\ [][Next]_vars

\* Event handlers and synchronous FFI calls return, and while some thread can go
\* on one does; liblogosdelivery's has callbacks without end, so its own count apart.
FairSpec ==
  /\ Spec
  /\ WF_vars(\E f \in OtherFrames : Advance(f))
  /\ WF_vars(\E f \in FfiFrames : Advance(f))

-----------------------------------------------------------------------------
(***************************************************************************)
(* Every variable has its type.                                            *)
(***************************************************************************)
Stages ==
  {"none", "emitting", "handling", "dispatching", "joining", "binding", "calling", "settling",
   "leaving", "locking", "working", "registering", "clearing", "ended"} \cup DestructorStages
Events == [n : Nat, op : Nat, phase : {"accepted", "settled", "rejected"}, by : Threads]

TypeOK ==
  /\ state \in {"uninitialized", "stopped", "running"}
  /\ pending \in [op : Nat, action : Actions \cup {"none"}]
  /\ sequence \in Nat /\ ctx \in Nat /\ dead \subseteq Nat
  /\ createNode \in Threads \cup {NoThread} /\ workerMutex \in Threads \cup {NoThread}
  /\ slots \in [WorkerActions -> Threads \cup {NoThread}]
  /\ taken \in [WorkerActions -> Threads \cup {NoThread}]
  /\ life \in {"alive", "closed", "gone"}
  /\ at \in [Frames -> Stages]
  /\ work \in [Frames -> [op : Nat, action : Actions \cup {"none"},
                          goal : {"uninitialized", "stopped", "running"},
                          next : {"leaving", "dispatching", "handling"}]]
  /\ out \in [Frames -> Seq(Events)]
  /\ owed \subseteq {"start", "stop"}
  /\ heard \subseteq Events
  /\ use \in [Users -> {"idle", "tested"}]
  /\ quiet \in [Users -> BOOLEAN]
-----------------------------------------------------------------------------
Undelivered == UNION {{out[f][i] : i \in 1 .. Len(out[f])} : f \in Frames}

(***************************************************************************)
(* Events leave lifecycleMutex before they are emitted, by whichever thread*)
(* built them, so they may reach the host in another order than they were  *)
(* numbered in; but each number is one event, that the host got once or    *)
(* that a thread still holds.                                              *)
(***************************************************************************)
EventsAccounted ==
  /\ heard \cap Undelivered = {}
  /\ Cardinality(heard \cup Undelivered) = sequence
  /\ {e.n : e \in heard \cup Undelivered} = 1 .. sequence

(***************************************************************************)
(* nodeAction() dispatches after it has emitted: however fast the worker or*)
(* the callback, the host hears that an operation was accepted before it   *)
(* hears that it settled.                                                  *)
(***************************************************************************)
AcceptedFirst ==
  \A e \in heard : e.phase = "settled" =>
    \E a \in heard : a.op = e.op /\ a.phase = "accepted"

(***************************************************************************)
(* A worker holds createNodeMutex while it emits, so what it settles is    *)
(* heard in the order of its number among all that workers and their       *)
(* handlers emit, and nothing of one worker's thread is heard before what  *)
(* an earlier one's still has to say.  Between themselves, calls nested in *)
(* a worker's handlers make no such promise.                               *)
(***************************************************************************)
WorkerEventsInOrder ==
  \A e \in heard, late \in Undelivered :
    {e.by, late.by} \subseteq Workers /\ (e.by = late.by => e.by \in {e.op, late.op})
      => e.n < late.n

(***************************************************************************)
(* Workers are joined before the members they use are gone, but for those  *)
(* that a handler's call launched after the destructor took the threads.   *)
(***************************************************************************)
WorkersEndBeforeModule ==
  life = "gone" => \A w \in Workers :
    at[<<w, 0>>] \in {"none", "ended"} \/ \E a \in WorkerActions : slots[a] = w

(***************************************************************************)
(* startPrepared and stopPrepared read the context without a lock; the     *)
(* operation being the active one keeps a destroy from getting at it.      *)
(***************************************************************************)
BindsLiveContext ==
  [][\A f \in Frames : Runs(f, "binding") /\ life = "alive" /\ at'[f] = "calling"
       => ctx \notin dead \cup {0}]_vars

(***************************************************************************)
(* A wrapper calls liblogosdelivery with a live context, unless some thread*)
(* was in createNodeMutex since the wrapper tested the pointer.            *)
(***************************************************************************)
WrappersUseLiveContext ==
  \A u \in Users : use[u] = "tested" /\ quiet[u] => ctx \notin dead \cup {0}

\* A destructor that a handler runs cannot end: createNodeMutex is held around
\* a worker's handlers, a lease around those of a callback.
SelfDestructing == \E f \in Frames : at[f] \in DestructorStages /\ Thread(f) \notin Hosts

AtRest == \A t \in Threads : at[<<t, 0>>] \in {"none", "ended"}

(***************************************************************************)
(* Nothing waits for ever: nodeAction() returns, callbacks and workers end,*)
(* and so does a destructor that a handler does not run, for all the joins *)
(* and mutexes between them.                                               *)
(***************************************************************************)
ThreadsReturn == []<>(AtRest \/ life = "gone" \/ SelfDestructing)
=============================================================================
