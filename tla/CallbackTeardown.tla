-------------------------- MODULE CallbackTeardown --------------------------
(***************************************************************************)
(* How FFI callbacks and ~DeliveryModuleImpl keep out of each other's way: *)
(* the process-wide registry from opaque handles to callback contexts, the *)
(* lease a callback takes on the context it finds there, and the           *)
(* destructor, which closes the context, waits until every lease is        *)
(* returned, and then frees it.  An FFI callback carries the handle of the *)
(* instance that passed it to the FFI and may run long after that instance *)
(* is gone.                                                                *)
(***************************************************************************)
EXTENDS FiniteSets, Integers

CONSTANTS
  Instances,   \* module objects the host constructs and destroys
  Handles,     \* addresses EventCallbackHandle objects can have
  Callbacks,   \* FFI callbacks on their own threads: events, start, stop
  NoInstance, NoHandle

ASSUME TeardownAssumption == NoInstance \notin Instances /\ NoHandle \notin Handles

VARIABLES
  life,      \* instance: unborn, live, closed, drain, testing, asleep, drained, freed
  handle,    \* its EventCallbackHandle
  retained,  \* instances whose handle was retained by retainEventCallbackHandle
  registry,  \* eventCallbackRegistry().contexts: handle -> instance
  active,    \* activeCallbacks of the instance's context
  stage,     \* callback: unsent, sent, using, draining, done
  source,    \* instance that passed its handle along
  target     \* instance whose context the callback leased

vars == <<life, handle, retained, registry, active, stage, source, target>>

Init ==
  /\ life = [i \in Instances |-> "unborn"]
  /\ handle = [i \in Instances |-> NoHandle]
  /\ retained = {}
  /\ registry = [h \in {} |-> NoInstance]
  /\ active = [i \in Instances |-> 0]
  /\ stage = [k \in Callbacks |-> "unsent"]
  /\ source = [k \in Callbacks |-> NoInstance]
  /\ target = [k \in Callbacks |-> NoInstance]

FreeHandles ==
  Handles \ {handle[i] : i \in {j \in Instances : life[j] # "freed" \/ j \in retained}}

-----------------------------------------------------------------------------
(***************************************************************************)
(* The instance.                                                           *)
(***************************************************************************)
Construct(i) ==
  /\ life[i] = "unborn"
  /\ \E h \in FreeHandles :
       /\ handle' = [handle EXCEPT ![i] = h]
       /\ registry' = [x \in DOMAIN registry \cup {h} |-> IF x = h THEN i ELSE registry[x]]
  /\ life' = [life EXCEPT ![i] = "live"]
  /\ UNCHANGED <<retained, active, stage, source, target>>

\* closeEventCallbackContext, under the registry mutex
Close(i) ==
  /\ life[i] = "live"
  /\ life' = [life EXCEPT ![i] = "closed"]
  /\ registry' = [x \in DOMAIN registry \ {handle[i]} |-> registry[x]]
  /\ UNCHANGED <<handle, retained, active, stage, source, target>>

\* Join the workers, remove the listeners, destroy or drop the context; the
\* handle still in the FFI's hands is dealt with by the steps that follow.
TearDown(i) ==
  /\ life[i] = "closed"
  /\ life' = [life EXCEPT ![i] = "drain"]
  /\ UNCHANGED <<handle, retained, registry, active, stage, source, target>>

\* waitForCallbacks: lock activeCallbacksMutex,
LockDrain(i) ==
  /\ life[i] = "drain"
  /\ life' = [life EXCEPT ![i] = "testing"]
  /\ UNCHANGED <<handle, retained, registry, active, stage, source, target>>

\* Mutant of TestDrained: the destructor does not wait.
TestNothing(i) ==
  /\ life[i] = "testing"
  /\ life' = [life EXCEPT ![i] = "drained"]
  /\ UNCHANGED <<handle, retained, registry, active, stage, source, target>>

\* and go on, or sleep and give the mutex up.
TestDrained(i) ==
  /\ life[i] = "testing"
  /\ life' = [life EXCEPT ![i] = IF active[i] = 0 THEN "drained" ELSE "sleepy"]
  /\ UNCHANGED <<handle, retained, registry, active, stage, source, target>>

Sleep(i) ==
  /\ life[i] = "sleepy"
  /\ life' = [life EXCEPT ![i] = "asleep"]
  /\ UNCHANGED <<handle, retained, registry, active, stage, source, target>>

\* Mutant of Free: the handle is freed with the rest.
FreeWithHandle(i) ==
  /\ life[i] = "drained"
  /\ life' = [life EXCEPT ![i] = "freed"]
  /\ UNCHANGED <<handle, retained, registry, active, stage, source, target>>

\* retainEventCallbackHandle; then the members are destroyed.
Free(i) ==
  /\ life[i] = "drained"
  /\ life' = [life EXCEPT ![i] = "freed"]
  /\ retained' = retained \cup {i}
  /\ UNCHANGED <<handle, registry, active, stage, source, target>>

-----------------------------------------------------------------------------
(***************************************************************************)
(* A callback.                                                             *)
(***************************************************************************)
\* The FFI calls back with the handle a listener, a start or a stop left with it:
\* at any time from then on, since a listener may have resisted its removal.
Send(k, i) ==
  /\ stage[k] = "unsent" /\ life[i] # "unborn"
  /\ stage' = [stage EXCEPT ![k] = "sent"]
  /\ source' = [source EXCEPT ![k] = i]
  /\ UNCHANGED <<life, handle, retained, registry, active, target>>

\* acquireEventCallbackContext, under the registry mutex
Acquire(k) ==
  /\ stage[k] = "sent"
  /\ LET h == handle[source[k]]
     IN  IF h \in DOMAIN registry
         THEN /\ target' = [target EXCEPT ![k] = registry[h]]
              /\ active' = [active EXCEPT ![registry[h]] = @ + 1]
              /\ stage' = [stage EXCEPT ![k] = "using"]
         ELSE /\ stage' = [stage EXCEPT ![k] = "done"]
              /\ UNCHANGED <<target, active>>
  /\ UNCHANGED <<life, handle, retained, registry, source>>

\* releaseCallback: the last one out notifies the drain.
Release(k) ==
  /\ stage[k] = "using"
  /\ active' = [active EXCEPT ![target[k]] = @ - 1]
  /\ stage' = [stage EXCEPT ![k] = IF active[target[k]] = 1 THEN "draining" ELSE "done"]
  /\ UNCHANGED <<life, handle, retained, registry, source, target>>

MutexFree(i) == life[i] \notin {"testing", "sleepy"}

\* Mutant of Notify: notify_all without the mutex.
NotifyUnlocked(k) ==
  /\ stage[k] = "draining"
  /\ life' = [life EXCEPT ![target[k]] = IF @ = "asleep" THEN "drain" ELSE @]
  /\ stage' = [stage EXCEPT ![k] = "done"]
  /\ UNCHANGED <<handle, retained, registry, active, source, target>>

Notify(k) ==
  /\ stage[k] = "draining" /\ MutexFree(target[k])
  /\ life' = [life EXCEPT ![target[k]] = IF @ = "asleep" THEN "drain" ELSE @]
  /\ stage' = [stage EXCEPT ![k] = "done"]
  /\ UNCHANGED <<handle, retained, registry, active, source, target>>

-----------------------------------------------------------------------------
Destructor(i) == TearDown(i) \/ LockDrain(i) \/ TestDrained(i) \/ Sleep(i) \/ Free(i)
Thread(k) == Acquire(k) \/ Release(k) \/ Notify(k)

Finished ==
  /\ \A i \in Instances : life[i] = "freed"
  /\ \A k \in Callbacks : stage[k] \in {"unsent", "done"}
  /\ UNCHANGED vars

Next ==
  \/ \E i \in Instances : Construct(i) \/ Close(i) \/ Destructor(i)
  \/ \E k \in Callbacks : Thread(k) \/ \E i \in Instances : Send(k, i)
  \/ Finished

Spec == Init /\ [][Next]_vars

\* A destructor that began runs on, and event handlers return.
FairSpec ==
  /\ Spec
  /\ \A i \in Instances : WF_vars(Destructor(i))
  /\ \A k \in Callbacks : WF_vars(Release(k)) /\ WF_vars(Notify(k))

-----------------------------------------------------------------------------
(***************************************************************************)
(* Every variable has its type.                                            *)
(***************************************************************************)
TypeOK ==
  /\ life \in [Instances -> {"unborn", "live", "closed", "drain", "testing", "sleepy",
                             "asleep", "drained", "freed"}]
  /\ handle \in [Instances -> Handles \cup {NoHandle}]
  /\ retained \subseteq Instances
  /\ registry \in [DOMAIN registry -> Instances] /\ DOMAIN registry \subseteq Handles
  /\ active \in [Instances -> Nat]
  /\ stage \in [Callbacks -> {"unsent", "sent", "using", "draining", "done"}]
  /\ source \in [Callbacks -> Instances \cup {NoInstance}]
  /\ target \in [Callbacks -> Instances \cup {NoInstance}]

(***************************************************************************)
(* While a callback uses the module object it leased, that object has not  *)
(* got past its drain: the destructor waits for callbacks in flight        *)
(* (tests: destructor_waits_for_an_in_flight_event_callback).              *)
(***************************************************************************)
OwnerOutlivesItsCallbacks ==
  \A k \in Callbacks : stage[k] = "using" => life[target[k]] \notin {"unborn", "drained", "freed"}

(***************************************************************************)
(* A callback only ever reaches the instance whose handle it was given: a  *)
(* handle kept by the FFI never comes to mean an instance made later       *)
(* (cpp 299-313).                                                          *)
(***************************************************************************)
CallbacksReachTheirSender == \A k \in Callbacks : stage[k] = "using" => target[k] = source[k]

(***************************************************************************)
(* A callback context is not touched once its instance is gone: the        *)
(* registry "only exposes its associated callback context while this       *)
(* module instance is alive" (header 417-419).                             *)
(***************************************************************************)
ContextOutlivesItsLeases ==
  \A k \in Callbacks : stage[k] \in {"using", "draining"} => life[target[k]] # "freed"

(***************************************************************************)
(* A destructor that began returns, however its wait and the callbacks     *)
(* that still hold leases interleave: no notification is lost.             *)
(***************************************************************************)
DestructorReturns == \A i \in Instances : life[i] = "closed" ~> life[i] = "freed"
=============================================================================
