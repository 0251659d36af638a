----------------------- MODULE CallbackTeardownProofs -----------------------
(***************************************************************************)
(* Theorems about CallbackTeardown, for any number of instances, handles   *)
(* and callbacks:                                                          *)
(*   - its type invariant;                                                 *)
(*   - a callback uses a module object only until the drain ends;          *)
(*   - a callback only reaches the instance it was given the handle of.    *)
(***************************************************************************)
EXTENDS CallbackTeardown, FiniteSetTheorems, TLAPS

Typed ==
  /\ life \in [Instances -> {"unborn", "live", "closed", "drain", "testing", "sleepy",
                             "asleep", "drained", "freed"}]
  /\ handle \in [Instances -> Handles \cup {NoHandle}]
  /\ retained \subseteq Instances
  /\ registry \in [DOMAIN registry -> Instances] /\ DOMAIN registry \subseteq Handles
  /\ active \in [Instances -> Int]
  /\ stage \in [Callbacks -> {"unsent", "sent", "using", "draining", "done"}]
  /\ source \in [Callbacks -> Instances \cup {NoInstance}]
  /\ target \in [Callbacks -> Instances \cup {NoInstance}]
  /\ \A k \in Callbacks :
       /\ stage[k] # "unsent" => source[k] \in Instances
       /\ stage[k] \in {"using", "draining"} => target[k] \in Instances

LEMMA TypedInit == Init => Typed
  BY DEF Init, Typed

LEMMA TypedStep == Typed /\ [Next]_vars => Typed'
<1> SUFFICES ASSUME Typed, [Next]_vars PROVE Typed'
  OBVIOUS
<1> USE DEF Typed
<1>1. ASSUME NEW i \in Instances, Construct(i) PROVE Typed'
  BY <1>1 DEF Construct, FreeHandles
<1>2. ASSUME NEW i \in Instances, Close(i) PROVE Typed'
  BY <1>2 DEF Close
<1>3. ASSUME NEW i \in Instances, Destructor(i) PROVE Typed'
  BY <1>3 DEF Destructor, TearDown, LockDrain, TestDrained, Sleep, Free
<1>4. ASSUME NEW k \in Callbacks, NEW i \in Instances, Send(k, i) PROVE Typed'
  BY <1>4 DEF Send
<1>5. ASSUME NEW k \in Callbacks, Acquire(k) PROVE Typed'
  BY <1>5 DEF Acquire
<1>6. ASSUME NEW k \in Callbacks, Release(k) PROVE Typed'
  BY <1>6 DEF Release
<1>7. ASSUME NEW k \in Callbacks, Notify(k) PROVE Typed'
  BY <1>7 DEF Notify
<1>8. ASSUME UNCHANGED vars PROVE Typed'
  BY <1>8 DEF vars
<1> QED
  BY <1>1, <1>2, <1>3, <1>4, <1>5, <1>6, <1>7, <1>8 DEF Next, Thread, Finished

-----------------------------------------------------------------------------
(***************************************************************************)
(* Handles.  The address of a handle is never used again, because it is    *)
(* taken while its instance lives and retained from then on.               *)
(***************************************************************************)
Born(i) == life[i] # "unborn"

HandleInv ==
  /\ \A i \in Instances : life[i] = "freed" => i \in retained
  /\ \A i, j \in Instances : Born(i) /\ Born(j) /\ handle[i] = handle[j] => i = j
  /\ \A h \in DOMAIN registry : handle[registry[h]] = h /\ life[registry[h]] = "live"
  /\ \A k \in Callbacks : stage[k] # "unsent" => Born(source[k])
  /\ CallbacksReachTheirSender

LEMMA HandleInit == Init => HandleInv
  BY DEF Init, HandleInv, Born, CallbacksReachTheirSender

LEMMA HandleStep == Typed /\ HandleInv /\ [Next]_vars => HandleInv'
<1> SUFFICES ASSUME Typed, HandleInv, [Next]_vars PROVE HandleInv'
  OBVIOUS
<1> USE DEF Typed, HandleInv, Born, CallbacksReachTheirSender
<1>1. ASSUME NEW i \in Instances, Construct(i) PROVE HandleInv'
  <2>1. PICK h \in FreeHandles :
          /\ handle' = [handle EXCEPT ![i] = h]
          /\ registry' = [x \in DOMAIN registry \cup {h} |-> IF x = h THEN i ELSE registry[x]]
    BY <1>1 DEF Construct
  <2>2. \A j \in Instances : Born(j) => handle[j] # h
    BY <2>1 DEF FreeHandles
  <2>3. \A x \in DOMAIN registry : registry[x] # i
    BY <1>1 DEF Construct
  <2> QED
    BY <1>1, <2>1, <2>2, <2>3 DEF Construct
<1>2. ASSUME NEW i \in Instances, Close(i) PROVE HandleInv'
  BY <1>2 DEF Close
<1>3. ASSUME NEW i \in Instances, Destructor(i) PROVE HandleInv'
  BY <1>3 DEF Destructor, TearDown, LockDrain, TestDrained, Sleep, Free
<1>4. ASSUME NEW k \in Callbacks, NEW i \in Instances, Send(k, i) PROVE HandleInv'
  BY <1>4 DEF Send
<1>5. ASSUME NEW k \in Callbacks, Acquire(k) PROVE HandleInv'
  <2>1. ASSUME handle[source[k]] \in DOMAIN registry
        PROVE  registry[handle[source[k]]] = source[k]
    BY <1>5, <2>1 DEF Acquire
  <2> QED
    BY <1>5, <2>1 DEF Acquire
<1>6. ASSUME NEW k \in Callbacks, Release(k) PROVE HandleInv'
  BY <1>6 DEF Release
<1>7. ASSUME NEW k \in Callbacks, Notify(k) PROVE HandleInv'
  BY <1>7 DEF Notify
<1>8. ASSUME UNCHANGED vars PROVE HandleInv'
  BY <1>8 DEF vars
<1> QED
  BY <1>1, <1>2, <1>3, <1>4, <1>5, <1>6, <1>7, <1>8 DEF Next, Thread, Finished

LEMMA HandleAlways == Spec => [](Typed /\ HandleInv)
  BY TypedInit, TypedStep, HandleInit, HandleStep, PTL DEF Spec

(***************************************************************************)
(* A handle the FFI kept never comes to mean an instance made later.       *)
(***************************************************************************)
THEOREM SenderReached == Spec => []CallbacksReachTheirSender
<1>1. HandleInv => CallbacksReachTheirSender
  BY DEF HandleInv
<1> QED
  BY <1>1, HandleAlways, PTL

-----------------------------------------------------------------------------
(***************************************************************************)
(* Leases.  activeCallbacks counts them, and once a context is closed none *)
(* is taken any more; so there is none left where the count was seen at 0. *)
(***************************************************************************)
Leases(i) == {k \in Callbacks : stage[k] = "using" /\ target[k] = i}

LeaseInv ==
  \A i \in Instances :
    /\ IsFiniteSet(Leases(i))
    /\ active[i] = Cardinality(Leases(i))
    /\ life[i] \in {"unborn", "drained", "freed"} => Leases(i) = {}

LEMMA LeaseInit == Init => LeaseInv
<1> SUFFICES ASSUME Init, NEW i \in Instances
             PROVE  Leases(i) = {} /\ active[i] = 0
  BY FS_EmptySet DEF LeaseInv
<1> QED
  BY DEF Init, Leases

\* A step that changes no lease keeps the count right.
LEMMA LeasesKept ==
  ASSUME Typed, LeaseInv, active' = active, \A i \in Instances : Leases(i)' = Leases(i),
         \A i \in Instances : life'[i] \in {"unborn", "drained", "freed"} =>
           life[i] \in {"unborn", "drained", "freed"} \/ active[i] = 0
  PROVE  LeaseInv'
<1> SUFFICES ASSUME NEW i \in Instances
             PROVE  /\ IsFiniteSet(Leases(i)) /\ active[i] = Cardinality(Leases(i))
                    /\ life'[i] \in {"unborn", "drained", "freed"} => Leases(i) = {}
  BY DEF LeaseInv
<1>1. IsFiniteSet(Leases(i)) /\ active[i] = Cardinality(Leases(i))
  BY DEF LeaseInv
<1>2. active[i] = 0 => Leases(i) = {}
  BY <1>1, FS_EmptySet
<1> QED
  BY <1>1, <1>2 DEF LeaseInv

LEMMA LeaseStep == Typed /\ HandleInv /\ LeaseInv /\ [Next]_vars => LeaseInv'
<1> SUFFICES ASSUME Typed, HandleInv, LeaseInv, [Next]_vars PROVE LeaseInv'
  OBVIOUS
<1>1. ASSUME NEW i \in Instances, Construct(i) \/ Close(i) \/ Destructor(i) PROVE LeaseInv'
  <2>1. /\ active' = active /\ stage' = stage /\ target' = target
        /\ \A j \in Instances : life'[j] \in {"unborn", "drained", "freed"} =>
             life[j] \in {"unborn", "drained", "freed"} \/ active[j] = 0
    BY <1>1 DEF Typed, Construct, Close, Destructor, TearDown, LockDrain, TestDrained, Sleep, Free
  <2>2. \A j \in Instances : Leases(j)' = Leases(j)
    BY <2>1 DEF Leases
  <2> QED
    BY <2>1, <2>2, LeasesKept
<1>2. ASSUME NEW k \in Callbacks, NEW i \in Instances, Send(k, i) PROVE LeaseInv'
  <2>1. active' = active /\ life' = life /\ \A j \in Instances : Leases(j)' = Leases(j)
    BY <1>2 DEF Send, Leases, Typed
  <2> QED
    BY <2>1, LeasesKept
<1>3. ASSUME NEW k \in Callbacks, Notify(k) PROVE LeaseInv'
  <2>1. /\ active' = active
        /\ \A j \in Instances : Leases(j)' = Leases(j)
        /\ \A j \in Instances : life'[j] \in {"unborn", "drained", "freed"} => life[j] = life'[j]
    BY <1>3 DEF Notify, Leases, Typed
  <2> QED
    BY <2>1, LeasesKept
<1>4. ASSUME NEW k \in Callbacks, Acquire(k) PROVE LeaseInv'
  <2> DEFINE h == handle[source[k]]
  <2>1. CASE h \notin DOMAIN registry
    <3>1. active' = active /\ life' = life /\ \A j \in Instances : Leases(j)' = Leases(j)
      BY <1>4, <2>1 DEF Acquire, Leases, Typed
    <3> QED
      BY <3>1, LeasesKept
  <2>2. CASE h \in DOMAIN registry
    <3> PICK t \in Instances : t = registry[h]
      BY <2>2 DEF Typed
    <3>1. /\ life[t] = "live" /\ life' = life /\ k \notin Leases(t)
          /\ active' = [active EXCEPT ![t] = @ + 1]
          /\ Leases(t)' = Leases(t) \cup {k}
          /\ \A j \in Instances : j # t => Leases(j)' = Leases(j)
      BY <1>4, <2>2 DEF Acquire, Leases, Typed, HandleInv
    <3>2. IsFiniteSet(Leases(t)) /\ active[t] = Cardinality(Leases(t))
      BY <3>1 DEF LeaseInv
    <3>3. IsFiniteSet(Leases(t)') /\ Cardinality(Leases(t)') = Cardinality(Leases(t)) + 1
      BY <3>1, <3>2, FS_AddElement
    <3> SUFFICES ASSUME NEW j \in Instances
                 PROVE  /\ IsFiniteSet(Leases(j)') /\ active'[j] = Cardinality(Leases(j)')
                        /\ life'[j] \in {"unborn", "drained", "freed"} => Leases(j)' = {}
      BY DEF LeaseInv
    <3>4. CASE j = t
      BY <3>1, <3>2, <3>3, <3>4 DEF Typed
    <3>5. CASE j # t
      <4>1. active'[j] = active[j] /\ Leases(j)' = Leases(j) /\ life' = life
        BY <3>1, <3>5 DEF Typed
      <4>2. /\ IsFiniteSet(Leases(j)) /\ active[j] = Cardinality(Leases(j))
            /\ life[j] \in {"unborn", "drained", "freed"} => Leases(j) = {}
        BY DEF LeaseInv
      <4> QED
        BY <4>1, <4>2
    <3> QED
      BY <3>4, <3>5
  <2> QED
    BY <2>1, <2>2
<1>5. ASSUME NEW k \in Callbacks, Release(k) PROVE LeaseInv'
  <2> PICK t \in Instances : t = target[k]
    BY <1>5 DEF Release, Typed
  <2>1. /\ life' = life /\ k \in Leases(t)
        /\ active' = [active EXCEPT ![t] = @ - 1]
        /\ Leases(t)' = Leases(t) \ {k}
        /\ \A j \in Instances : j # t => Leases(j)' = Leases(j)
    BY <1>5 DEF Release, Leases, Typed
  <2>2. IsFiniteSet(Leases(t)) /\ active[t] = Cardinality(Leases(t))
    BY <2>1 DEF LeaseInv
  <2>3. IsFiniteSet(Leases(t)') /\ Cardinality(Leases(t)') = Cardinality(Leases(t)) - 1
    BY <2>1, <2>2, FS_RemoveElement
  <2> SUFFICES ASSUME NEW j \in Instances
               PROVE  /\ IsFiniteSet(Leases(j)') /\ active'[j] = Cardinality(Leases(j)')
                      /\ life'[j] \in {"unborn", "drained", "freed"} => Leases(j)' = {}
    BY DEF LeaseInv
  <2>4. CASE j = t
    <3>1. life[t] \notin {"unborn", "drained", "freed"}
      BY <2>1 DEF LeaseInv
    <3> QED
      BY <2>1, <2>2, <2>3, <2>4, <3>1 DEF Typed
  <2>5. CASE j # t
    <3>1. active'[j] = active[j] /\ Leases(j)' = Leases(j) /\ life' = life
      BY <2>1, <2>5 DEF Typed
    <3>2. /\ IsFiniteSet(Leases(j)) /\ active[j] = Cardinality(Leases(j))
          /\ life[j] \in {"unborn", "drained", "freed"} => Leases(j) = {}
      BY DEF LeaseInv
    <3> QED
      BY <3>1, <3>2
  <2> QED
    BY <2>4, <2>5
<1>6. ASSUME UNCHANGED vars PROVE LeaseInv'
  <2>1. active' = active /\ life' = life /\ \A j \in Instances : Leases(j)' = Leases(j)
    BY <1>6 DEF vars, Leases
  <2> QED
    BY <2>1, LeasesKept
<1> QED
  BY <1>1, <1>2, <1>3, <1>4, <1>5, <1>6 DEF Next, Thread, Finished

LEMMA LeaseAlways == Spec => [](Typed /\ HandleInv /\ LeaseInv)
  BY TypedInit, TypedStep, HandleInit, HandleStep, LeaseInit, LeaseStep, PTL DEF Spec

(***************************************************************************)
(* Every variable has its type; activeCallbacks is never negative.         *)
(***************************************************************************)
THEOREM TypeCorrect == Spec => []TypeOK
<1>1. ASSUME Typed, LeaseInv PROVE active \in [Instances -> Nat]
  BY <1>1, FS_CardinalityType DEF Typed, LeaseInv
<1>2. Typed /\ LeaseInv => TypeOK
  BY <1>1 DEF Typed, TypeOK
<1> QED
  BY <1>2, LeaseAlways, PTL

(***************************************************************************)
(* The destructor waits for every callback in flight: while one uses the   *)
(* module object, the drain has not ended.                                 *)
(***************************************************************************)
THEOREM OwnerOutlives == Spec => []OwnerOutlivesItsCallbacks
<1>1. Typed /\ LeaseInv => OwnerOutlivesItsCallbacks
  BY DEF Typed, LeaseInv, Leases, OwnerOutlivesItsCallbacks
<1> QED
  BY <1>1, LeaseAlways, PTL
=============================================================================
