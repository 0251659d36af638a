-------------------------- MODULE CreateCallProofs --------------------------
(***************************************************************************)
(* Theorems about CreateCall, for every set of attempts and of addresses:  *)
(*   - every variable has its type;                                        *)
(*   - a context has at most one owner, and none once a destroy was tried; *)
(*   - a context goes astray only from an attempt that timed out or was    *)
(*     answered by a stray, and is lost only where somebody gave it up.    *)
(***************************************************************************)
EXTENDS CreateCall, FiniteSetTheorems, TLAPS

Typed ==
  /\ stage \in [Attempts -> {"idle", "dispatching", "waiting", "expired", "returned"}]
  /\ key \in [Attempts -> Addresses \cup {NoAddress}]
  /\ pendingContexts \in [DOMAIN pendingContexts -> Attempts]
  /\ answers \in [Attempts -> SUBSET Attempts]
  /\ outcome \in [Attempts -> {"none", "created", "failed", "refused", "timeout"}]
  /\ callback \in [Attempts -> {"none", "open", "entered", "taken", "done"}]
  /\ ret \in [Attempts -> BOOLEAN]
  /\ context \in [Attempts -> {"none", "live", "destroyed", "undestroyed"}]
  /\ taken \in [Attempts -> SUBSET Attempts]
  /\ deliveryCtx \subseteq Attempts

(***************************************************************************)
(* How ownership passes on: a callback that still has its context gave it  *)
(* to nobody; it gives it to the one object it took out of the map; the    *)
(* attempt that waits on that object gives it to the module when it        *)
(* returns; and what a destroy was tried on nobody has.                    *)
(***************************************************************************)
NotCalled == \A c \in Attempts : stage[c] = "idle" => callback[c] = "none"

Unanswered ==
  \A c \in Attempts : callback[c] # "done" =>
    c \notin deliveryCtx /\ \A d \in Attempts : c \notin answers[d]

OneObject ==
  \A c, d, e \in Attempts :
    /\ d \in taken[c] /\ e \in taken[c] => d = e
    /\ c \in answers[d] /\ c \in answers[e] => d = e

PassedOn == \A c, d \in Attempts : c \in deliveryCtx /\ c \in answers[d] => stage[d] = "returned"

Gone ==
  \A c \in Attempts : context[c] \in {"destroyed", "undestroyed"} =>
    /\ callback[c] = "done" /\ c \notin deliveryCtx
    /\ \A d \in Attempts : c \in answers[d] => stage[d] = "returned"

Made == \A c \in deliveryCtx : context[c] = "live"

OwnerInv == Typed /\ NotCalled /\ Unanswered /\ OneObject /\ PassedOn /\ Gone /\ Made

LEMMA OwnerInit == Init => OwnerInv
  BY DEF Init, OwnerInv, Typed, NotCalled, Unanswered, OneObject, PassedOn, Gone, Made

LEMMA OwnerStep == OwnerInv /\ [Next]_vars => OwnerInv'
<1> SUFFICES ASSUME OwnerInv, [Next]_vars PROVE OwnerInv'
  OBVIOUS
<1> USE DEF OwnerInv, Typed, NotCalled, Unanswered, OneObject, PassedOn, Gone, Made
<1>1. ASSUME NEW c \in Attempts, Dispatch(c) PROVE OwnerInv'
  BY <1>1 DEF Dispatch, FreeAddresses
<1>2. ASSUME NEW c \in Attempts, DispatchOk(c) PROVE OwnerInv'
  BY <1>2 DEF DispatchOk
<1>3. ASSUME NEW c \in Attempts, DispatchFails(c) PROVE OwnerInv'
  BY <1>3 DEF DispatchFails, Erase
<1>4. ASSUME NEW c \in Attempts, Acquire(c) PROVE OwnerInv'
  <2>1. /\ stage[c] = "waiting" /\ stage' = [stage EXCEPT ![c] = "returned"]
        /\ \E o \in {"created", "failed"} : outcome' = [outcome EXCEPT ![c] = o]
        /\ UNCHANGED <<key, pendingContexts, answers, callback, ret, taken>>
    BY <1>4 DEF Acquire
  <2>2. \/ deliveryCtx' = {} /\ \E ok \in BOOLEAN : Destroy(MadeBy(answers[c]), ok)
        \/ deliveryCtx' = MadeBy(answers[c]) /\ \E ok \in BOOLEAN : Destroy({}, ok)
    BY <1>4 DEF Acquire
  <2>3. \A d \in Attempts : d \in answers[c] => context[d] \in {"none", "live"}
    BY <2>1
  <2> QED
    BY <2>1, <2>2, <2>3 DEF Destroy, MadeBy
<1>5. ASSUME NEW c \in Attempts, TimeOut(c) PROVE OwnerInv'
  BY <1>5 DEF TimeOut
<1>6. ASSUME NEW c \in Attempts, GiveUp(c) PROVE OwnerInv'
  BY <1>6 DEF GiveUp, Erase
<1>7. CASE DestroyHeld
  BY <1>7 DEF DestroyHeld, CreateNodeFree, Destroy
<1>8. ASSUME NEW c \in Attempts, NEW ok \in BOOLEAN, NEW made \in BOOLEAN, Answer(c, ok, made)
      PROVE OwnerInv'
  BY <1>8 DEF Answer
<1>9. ASSUME NEW c \in Attempts, TakeLate(c) PROVE OwnerInv'
  BY <1>9 DEF TakeLate, MadeBy, Destroy
<1>10. ASSUME NEW c \in Attempts, Take(c) PROVE OwnerInv'
  BY <1>10 DEF Take, Erase
<1>11. ASSUME NEW c \in Attempts, Resolve(c) PROVE OwnerInv'
  BY <1>11 DEF Resolve
<1>12. CASE UNCHANGED vars
  BY <1>12 DEF vars
<1> QED
  BY <1>1, <1>2, <1>3, <1>4, <1>5, <1>6, <1>7, <1>8, <1>9, <1>10, <1>11, <1>12
  DEF Next, Waiter, Reply, Done

LEMMA OwnerAlways == Spec => []OwnerInv
  BY OwnerInit, OwnerStep, PTL DEF Spec

-----------------------------------------------------------------------------
(***************************************************************************)
(* Every variable of CreateCall has its type, whatever the attempts and    *)
(* addresses.                                                              *)
(***************************************************************************)
THEOREM TypeCorrect == Spec => []Typed
  BY OwnerAlways, PTL DEF OwnerInv

\* Two things that are the same are at most one.
LEMMA AtMostOne ==
  ASSUME NEW S, \A x, y \in S : x = y
  PROVE  Cardinality(S) \in {0, 1} /\ (Cardinality(S) = 0 \/ S # {})
<1>1. CASE S = {}
  BY <1>1, FS_EmptySet
<1>2. CASE S # {}
  <2>1. PICK x \in S : S = {x}
    BY <1>2
  <2> QED
    BY <2>1, FS_Singleton
<1> QED
  BY <1>1, <1>2

(***************************************************************************)
(* At every moment a context made by logosdelivery_ctx_create belongs to   *)
(* its callback, to one waiting attempt or to the module, to one of them   *)
(* at most, and to none after a destroy was tried: no timeout, late        *)
(* callback or address used again makes createNodePrepared free it twice.  *)
(***************************************************************************)
THEOREM OneOwner == Spec => []OwnersExcludeEachOther
<1>1. OwnerInv => OwnersExcludeEachOther
  <2> SUFFICES ASSUME OwnerInv, NEW c \in Attempts
               PROVE  /\ Cardinality({d \in Attempts : c \in answers[d] /\ stage[d] # "returned"})
                           + (IF callback[c] \in {"entered", "taken"} THEN 1 ELSE 0)
                           + (IF c \in deliveryCtx THEN 1 ELSE 0) <= 1
                      /\ c \in deliveryCtx => context[c] = "live"
                      /\ callback[c] \in {"entered", "taken"} => context[c] \in {"none", "live"}
    BY DEF OwnersExcludeEachOther
  <2> DEFINE Waiting == {d \in Attempts : c \in answers[d] /\ stage[d] # "returned"}
  <2>1. \A x, y \in Waiting : x = y
    BY DEF OwnerInv, OneObject
  <2>2. Cardinality(Waiting) \in {0, 1} /\ (Cardinality(Waiting) = 0 \/ Waiting # {})
    <3> HIDE DEF Waiting
    <3> QED BY <2>1, AtMostOne
  <2>3. callback[c] \in {"entered", "taken"} => Waiting = {} /\ c \notin deliveryCtx
    BY DEF OwnerInv, Unanswered
  <2>4. c \in deliveryCtx => Waiting = {}
    BY DEF OwnerInv, PassedOn
  <2>5. Cardinality(Waiting) + (IF callback[c] \in {"entered", "taken"} THEN 1 ELSE 0)
          + (IF c \in deliveryCtx THEN 1 ELSE 0) <= 1
    <3> HIDE DEF Waiting
    <3> QED BY <2>2, <2>3, <2>4
  <2> QED
    BY <2>5 DEF OwnerInv, Typed, Gone, Made
<1> QED
  BY <1>1, OwnerAlways, PTL

-----------------------------------------------------------------------------
(***************************************************************************)
(* Where an attempt's object is.  createNodeMutex lets one attempt through *)
(* at a time, with no context held; its object is in the map, at its own   *)
(* address, or in one callback's hands, or answered.                       *)
(***************************************************************************)
InFlight(c) == stage[c] \notin {"idle", "returned"}

InOrder == \A c, d \in Attempts : stage[c] # "idle" /\ d < c => stage[d] = "returned"

NoneHeld == \A c \in Attempts : InFlight(c) => deliveryCtx = {}

OwnEntry == \A a \in DOMAIN pendingContexts :
              key[pendingContexts[a]] = a /\ InFlight(pendingContexts[a])

Untouched ==
  \A c \in Attempts : stage[c] = "idle" => answers[c] = {} /\ \A d \in Attempts : c \notin taken[d]

OneHand ==
  /\ \A a \in DOMAIN pendingContexts :
       answers[pendingContexts[a]] = {} /\ \A d \in Attempts : pendingContexts[a] \notin taken[d]
  /\ \A c, d \in Attempts : c \in taken[d] => answers[c] = {} /\ callback[d] = "taken"
  /\ \A c, d, e \in Attempts : c \in taken[d] /\ c \in taken[e] => d = e
  /\ \A d \in Attempts : callback[d] = "taken" => \E c \in Attempts : c \in taken[d]

Outcomes == \A c \in Attempts : outcome[c] # "none" => stage[c] = "returned"

ObjectInv == InOrder /\ NoneHeld /\ OwnEntry /\ Untouched /\ OneHand /\ Outcomes

(***************************************************************************)
(* What becomes of a context.  A callback can find the object of another   *)
(* attempt only if its own attempt is over, by a timeout or with a stray   *)
(* for an answer, at an address where one timed out; a context handed to   *)
(* an attempt that had already returned is lost, and that attempt had      *)
(* timed out or been refused; and no attempt with another end than         *)
(* failure has a context that a destroy failed on.                         *)
(***************************************************************************)
GaveUp(a) == \E e \in Attempts : outcome[e] = "timeout" /\ key[e] = a

Owed(c) == callback[c] \in {"open", "entered", "taken"}

\* Attempt c is over without its own answer.
GoneWithout(c) == outcome[c] = "timeout" \/ \E e \in answers[c] : e # c

OwedAfter == \A c \in Attempts :
               stage[c] = "returned" /\ Owed(c) => GaveUp(key[c]) /\ GoneWithout(c)

Stray(c, d) == stage[d] = "returned" /\ key[d] = key[c] /\ GaveUp(key[c]) /\ GoneWithout(d)

Strays ==
  /\ \A c, d \in Attempts : c \in taken[d] /\ d # c => Stray(c, d)
  /\ \A c, d \in Attempts : d \in answers[c] /\ d # c => Stray(c, d)

HandedTooLate == \A c, d \in Attempts : d \in taken[c] /\ stage[d] = "returned" => Unseen(d)

Discarded ==
  \A c, d \in Attempts : context[c] = "undestroyed" /\ c \in answers[d] => outcome[d] = "failed"

Safe(c) == context[c] = "live" => Owned(c) \/ \E d \in Attempts : c \in answers[d] /\ Unseen(d)

StrayInv == OwedAfter /\ Strays

LossInv == HandedTooLate /\ \A c \in Attempts : Safe(c)

LEMMA OneInFlight ==
  ASSUME InOrder
  PROVE  \A c, d \in Attempts : InFlight(c) /\ stage[d] # "idle" => d = c \/ stage[d] = "returned"
<1>1. \A c, d \in Attempts : c < d \/ d < c \/ c = d
  BY CreateCallAssumption
<1> QED
  BY <1>1 DEF InOrder, InFlight

LEMMA ObjectInit == Init => ObjectInv
  BY DEF Init, ObjectInv, InOrder, NoneHeld, InFlight, OwnEntry, Untouched, OneHand, Outcomes

LEMMA ObjectStep == OwnerInv /\ ObjectInv /\ [Next]_vars => ObjectInv'
<1> SUFFICES ASSUME OwnerInv, ObjectInv, [Next]_vars PROVE ObjectInv'
  OBVIOUS
<1> USE DEF ObjectInv, InOrder, NoneHeld, InFlight, OwnEntry, Untouched, OneHand, Outcomes
<1>1. Typed /\ NotCalled
  BY DEF OwnerInv
<1> USE DEF Typed
<1>2. \A c, d \in Attempts : InFlight(c) /\ InFlight(d) => c = d
  BY OneInFlight
<1>3. ASSUME NEW c \in Attempts, Dispatch(c) PROVE ObjectInv'
  <2>1. PICK a \in FreeAddresses :
          /\ key' = [key EXCEPT ![c] = a]
          /\ pendingContexts' = [x \in DOMAIN pendingContexts \cup {a} |->
                                   IF x = a THEN c ELSE pendingContexts[x]]
    BY <1>3 DEF Dispatch
  <2>2. /\ stage[c] = "idle" /\ stage' = [stage EXCEPT ![c] = "dispatching"]
        /\ deliveryCtx = {} /\ \A d \in Attempts : d < c => stage[d] = "returned"
        /\ callback' = [callback EXCEPT ![c] = "open"] /\ callback[c] = "none"
        /\ UNCHANGED <<answers, outcome, taken, deliveryCtx>>
    BY <1>1, <1>3 DEF Dispatch, NotCalled
  <2>3. InOrder'
    <3>1. ~(c < c) /\ stage'[c] = "dispatching" /\ \A d \in Attempts : d # c => stage'[d] = stage[d]
      BY <1>1, <2>2, CreateCallAssumption
    <3> QED
      BY <2>2, <3>1
  <2>6. NoneHeld' /\ Untouched' /\ Outcomes'
    BY <1>1, <2>2
  <2>4. OwnEntry'
    BY <1>1, <2>1, <2>2
  <2>5. OneHand'
    BY <1>1, <2>1, <2>2
  <2> QED
    BY <2>3, <2>4, <2>5, <2>6
<1>4. ASSUME NEW c \in Attempts, DispatchOk(c) \/ TimeOut(c) PROVE ObjectInv'
  <2>1. /\ InFlight(c) /\ \E k \in {"waiting", "expired"} : stage' = [stage EXCEPT ![c] = k]
        /\ UNCHANGED <<key, pendingContexts, answers, outcome, callback, taken, deliveryCtx>>
    BY <1>4 DEF DispatchOk, TimeOut
  <2>2. InOrder' /\ NoneHeld' /\ OwnEntry' /\ Untouched' /\ Outcomes'
    BY <1>1, <2>1
  <2>3. OneHand'
    BY <2>1
  <2> QED
    BY <2>2, <2>3
<1>5. ASSUME NEW c \in Attempts, DispatchFails(c) PROVE ObjectInv'
  BY <1>1, <1>5 DEF DispatchFails, Erase
<1>6. ASSUME NEW c \in Attempts, Acquire(c) PROVE ObjectInv'
  <2>1. /\ stage[c] = "waiting" /\ answers[c] # {} /\ stage' = [stage EXCEPT ![c] = "returned"]
        /\ \E o \in {"created", "failed"} : outcome' = [outcome EXCEPT ![c] = o]
        /\ UNCHANGED <<key, pendingContexts, answers, callback, taken>>
    BY <1>6 DEF Acquire
  <2>2. NoneHeld'
    BY <1>1, <1>2, <2>1
  <2>3. InOrder' /\ Untouched' /\ Outcomes'
    BY <1>1, <2>1
  <2>4. OwnEntry' /\ OneHand'
    BY <1>1, <2>1
  <2> QED
    BY <2>2, <2>3, <2>4
<1>7. ASSUME NEW c \in Attempts, GiveUp(c) PROVE ObjectInv'
  BY <1>1, <1>7 DEF GiveUp, Erase
<1>8. CASE DestroyHeld
  BY <1>8 DEF DestroyHeld, CreateNodeFree
<1>9. ASSUME NEW c \in Attempts, NEW ok \in BOOLEAN, NEW made \in BOOLEAN, Answer(c, ok, made)
      PROVE ObjectInv'
  BY <1>1, <1>9 DEF Answer
<1>10. ASSUME NEW c \in Attempts, TakeLate(c) PROVE ObjectInv'
  BY <1>1, <1>10 DEF TakeLate
<1>11. ASSUME NEW c \in Attempts, Take(c) PROVE ObjectInv'
  <2>1. PICK d \in Attempts : d = pendingContexts[key[c]] /\ key[c] \in DOMAIN pendingContexts
    BY <1>1, <1>11 DEF Take
  <2>2. /\ taken' = [taken EXCEPT ![c] = {d}]
        /\ pendingContexts' = [x \in DOMAIN pendingContexts \ {key[c]} |-> pendingContexts[x]]
        /\ callback[c] = "entered" /\ callback' = [callback EXCEPT ![c] = "taken"]
        /\ UNCHANGED <<stage, key, answers, outcome, deliveryCtx>>
    BY <1>11, <2>1 DEF Take, Erase
  <2>3. /\ answers[d] = {} /\ stage[d] # "idle"
        /\ \A e \in Attempts : d \notin taken[e]
        /\ \A x \in DOMAIN pendingContexts' : pendingContexts'[x] # d
    BY <1>1, <2>1, <2>2
  <2>4. InOrder' /\ NoneHeld' /\ Untouched' /\ Outcomes' /\ OwnEntry'
    BY <1>1, <2>1, <2>2, <2>3
  <2>5. OneHand'
    BY <1>1, <2>1, <2>2, <2>3
  <2> QED
    BY <2>4, <2>5
<1>12. ASSUME NEW c \in Attempts, Resolve(c) PROVE ObjectInv'
  <2>1. /\ callback[c] = "taken" /\ callback' = [callback EXCEPT ![c] = "done"]
        /\ taken' = [taken EXCEPT ![c] = {}]
        /\ answers' = [d \in Attempts |-> IF d \in taken[c] THEN answers[d] \cup {c} ELSE answers[d]]
        /\ UNCHANGED <<stage, key, pendingContexts, outcome, deliveryCtx>>
    BY <1>12 DEF Resolve
  <2>2. InOrder' /\ NoneHeld' /\ Untouched' /\ Outcomes' /\ OwnEntry'
    BY <1>1, <2>1
  <2>3. OneHand'
    BY <1>1, <2>1
  <2> QED
    BY <2>2, <2>3
<1>13. CASE UNCHANGED vars
  BY <1>13 DEF vars
<1> QED
  BY <1>3, <1>4, <1>5, <1>6, <1>7, <1>8, <1>9, <1>10, <1>11, <1>12, <1>13
  DEF Next, Waiter, Reply, Done

-----------------------------------------------------------------------------
\* What an attempt that is over is known by does not change any more.
LEMMA ReturnedIsFinal ==
  ASSUME Typed, Outcomes, [Next]_vars
  PROVE  \A e \in Attempts : stage[e] = "returned" =>
           stage'[e] = "returned" /\ key'[e] = key[e] /\ outcome'[e] = outcome[e]
<1> USE DEF Typed
<1>1. ASSUME NEW c \in Attempts, Waiter(c)
      PROVE  /\ stage[c] # "returned" /\ key' = key
             /\ \A e \in Attempts : e # c => stage'[e] = stage[e] /\ outcome'[e] = outcome[e]
  BY <1>1 DEF Waiter, DispatchOk, DispatchFails, Acquire, TimeOut, GiveUp
<1>2. ASSUME NEW c \in Attempts, Dispatch(c)
      PROVE  /\ stage[c] # "returned" /\ outcome' = outcome
             /\ \A e \in Attempts : e # c => stage'[e] = stage[e] /\ key'[e] = key[e]
  BY <1>2 DEF Dispatch
<1>3. ASSUME NEW c \in Attempts, Reply(c) \/ \E ok, made \in BOOLEAN : Answer(c, ok, made)
      PROVE  UNCHANGED <<stage, key, outcome>>
  BY <1>3 DEF Reply, TakeLate, Take, Resolve, Answer
<1> QED
  BY <1>1, <1>2, <1>3 DEF Next, DestroyHeld, Done, vars

LEMMA AnswersGrow ==
  ASSUME Typed, [Next]_vars
  PROVE  \A c, d \in Attempts : d \in answers[c] => d \in answers'[c]
<1> USE DEF Typed
<1>1. ASSUME NEW c \in Attempts, Resolve(c)
      PROVE  \A d, e \in Attempts : e \in answers[d] => e \in answers'[d]
  BY <1>1 DEF Resolve
<1> QED
  BY <1>1 DEF Next, Waiter, Reply, Dispatch, DispatchOk, DispatchFails, Acquire, TimeOut, GiveUp,
              TakeLate, Take, Answer, DestroyHeld, Done, vars

LEMMA StrayKept ==
  ASSUME Typed, Outcomes, [Next]_vars
  PROVE  /\ \A e \in Attempts : stage[e] = "returned" /\ GaveUp(key[e]) => GaveUp(key[e])'
         /\ \A e \in Attempts : stage[e] = "returned" /\ GoneWithout(e) => GoneWithout(e)'
         /\ \A c, d \in Attempts : Stray(c, d) /\ key'[c] = key[c] => Stray(c, d)'
<1>1. ASSUME NEW a, GaveUp(a) PROVE \E e \in Attempts : outcome'[e] = "timeout" /\ key'[e] = a
  BY <1>1, ReturnedIsFinal DEF GaveUp, Outcomes
<1>2. \A e \in Attempts : stage[e] = "returned" /\ GoneWithout(e) => GoneWithout(e)'
  BY ReturnedIsFinal, AnswersGrow DEF GoneWithout, Typed
<1> QED
  BY <1>1, <1>2, ReturnedIsFinal DEF GaveUp, Stray

\* The entry that a callback finds is its own, or its own attempt is over.
LEMMA FoundEntry ==
  ASSUME Typed, NotCalled, ObjectInv, NEW c \in Attempts, Take(c)
  PROVE  \E d \in Attempts :
           /\ d = pendingContexts[key[c]] /\ key[d] = key[c] /\ InFlight(d) /\ answers[d] = {}
           /\ taken' = [taken EXCEPT ![c] = {d}]
           /\ d # c => stage[c] = "returned"
<1>1. PICK d \in Attempts : d = pendingContexts[key[c]] /\ key[c] \in DOMAIN pendingContexts
  BY DEF Take, Typed
<1>2. key[d] = key[c] /\ InFlight(d) /\ answers[d] = {} /\ taken' = [taken EXCEPT ![c] = {d}]
  BY <1>1 DEF Take, ObjectInv, OwnEntry, OneHand
<1>3. stage[c] # "idle"
  BY DEF Take, NotCalled
<1>4. d # c => stage[c] = "returned"
  BY <1>2, <1>3, OneInFlight DEF ObjectInv
<1> QED
  BY <1>1, <1>2, <1>4

LEMMA StrayStep == OwnerInv /\ ObjectInv /\ StrayInv /\ [Next]_vars => StrayInv'
<1> SUFFICES ASSUME OwnerInv, ObjectInv, StrayInv, [Next]_vars PROVE StrayInv'
  OBVIOUS
<1>1. Typed /\ NotCalled /\ Unanswered /\ Outcomes
  BY DEF OwnerInv, ObjectInv
<1>2. /\ \A e \in Attempts : stage[e] = "returned" /\ GaveUp(key[e]) => GaveUp(key[e])'
      /\ \A e \in Attempts : stage[e] = "returned" /\ GoneWithout(e) => GoneWithout(e)'
      /\ \A c, d \in Attempts : Stray(c, d) /\ key'[c] = key[c] => Stray(c, d)'
  BY <1>1, StrayKept
<1> USE DEF Typed, StrayInv
<1>3. ASSUME NEW c \in Attempts, Dispatch(c) PROVE StrayInv'
  <2>1. /\ stage[c] = "idle" /\ stage' = [stage EXCEPT ![c] = "dispatching"]
        /\ \A d \in Attempts : d # c => key'[d] = key[d] /\ callback'[d] = callback[d]
        /\ UNCHANGED <<answers, taken>>
    BY <1>1, <1>3 DEF Dispatch
  <2>2. OwedAfter'
    BY <1>1, <1>2, <2>1 DEF OwedAfter, Owed
  <2>3. Strays'
    BY <1>1, <1>2, <2>1 DEF Strays, ObjectInv, Untouched
  <2> QED
    BY <2>2, <2>3
<1>4. ASSUME NEW c \in Attempts, DispatchOk(c) \/ DispatchFails(c) \/ TimeOut(c) PROVE StrayInv'
  <2>1. UNCHANGED <<key, answers, taken>>
    BY <1>4 DEF DispatchOk, DispatchFails, TimeOut
  <2>2. OwedAfter'
    BY <1>1, <1>2, <1>4, <2>1 DEF OwedAfter, Owed, DispatchOk, DispatchFails, TimeOut
  <2>3. Strays'
    BY <1>2, <2>1 DEF Strays
  <2> QED
    BY <2>2, <2>3
<1>5. ASSUME NEW c \in Attempts, Acquire(c) PROVE StrayInv'
  <2>1. /\ stage[c] = "waiting" /\ answers[c] # {} /\ stage' = [stage EXCEPT ![c] = "returned"]
        /\ \E o \in {"created", "failed"} : outcome' = [outcome EXCEPT ![c] = o]
        /\ UNCHANGED <<key, answers, callback, taken>>
    BY <1>5 DEF Acquire
  <2>2. ~Owed(c) \/ (GaveUp(key[c]) /\ \E e \in answers[c] : e # c)
    BY <1>1, <2>1 DEF Unanswered, Strays, Stray, Owed
  <2>3. /\ GaveUp(key[c]) => GaveUp(key[c])'
        /\ (\E e \in answers[c] : e # c) => GoneWithout(c)'
    BY <1>1, <2>1 DEF GaveUp, GoneWithout, Outcomes
  <2>4. OwedAfter'
    BY <1>1, <1>2, <2>1, <2>2, <2>3 DEF OwedAfter, Owed
  <2>5. Strays'
    BY <1>2, <2>1 DEF Strays
  <2> QED
    BY <2>4, <2>5
<1>6. ASSUME NEW c \in Attempts, GiveUp(c) PROVE StrayInv'
  <2>1. /\ stage' = [stage EXCEPT ![c] = "returned"]
        /\ outcome' = [outcome EXCEPT ![c] = "timeout"]
        /\ UNCHANGED <<key, answers, callback, taken>>
    BY <1>6 DEF GiveUp
  <2>2. GaveUp(key[c])' /\ GoneWithout(c)'
    BY <1>1, <2>1 DEF GaveUp, GoneWithout
  <2>3. OwedAfter'
    BY <1>1, <1>2, <2>1, <2>2 DEF OwedAfter, Owed
  <2>4. Strays'
    BY <1>2, <2>1 DEF Strays
  <2> QED
    BY <2>3, <2>4
<1>7. ASSUME NEW c \in Attempts,
             TakeLate(c) \/ \E ok, made \in BOOLEAN : Answer(c, ok, made)
      PROVE  StrayInv'
  <2>1. /\ UNCHANGED <<stage, key, answers, taken>> /\ Owed(c)
        /\ \E k \in {"entered", "done"} : callback' = [callback EXCEPT ![c] = k]
    BY <1>7 DEF TakeLate, Answer, Owed
  <2>2. OwedAfter'
    BY <1>1, <1>2, <2>1 DEF OwedAfter, Owed
  <2>3. Strays'
    BY <1>2, <2>1 DEF Strays
  <2> QED
    BY <2>2, <2>3
<1>8. ASSUME NEW c \in Attempts, Take(c) PROVE StrayInv'
  <2>1. /\ UNCHANGED <<stage, key, answers>> /\ callback[c] = "entered"
        /\ callback' = [callback EXCEPT ![c] = "taken"]
    BY <1>8 DEF Take
  <2>2. OwedAfter'
    BY <1>1, <1>2, <2>1 DEF OwedAfter, Owed
  <2>3. PICK d \in Attempts :
          /\ key[d] = key[c] /\ taken' = [taken EXCEPT ![c] = {d}]
          /\ d # c => stage[c] = "returned"
    BY <1>1, <1>8, FoundEntry
  <2>4. d # c => Stray(d, c)'
    <3>1. d # c => Stray(d, c)
      BY <2>1, <2>3 DEF Stray, OwedAfter, Owed
    <3> QED
      BY <1>2, <2>1, <3>1
  <2>5. Strays'
    BY <1>1, <1>2, <2>1, <2>3, <2>4 DEF Strays
  <2> QED
    BY <2>2, <2>5
<1>9. ASSUME NEW c \in Attempts, Resolve(c) PROVE StrayInv'
  <2>1. /\ UNCHANGED <<stage, key>>
        /\ callback[c] = "taken" /\ callback' = [callback EXCEPT ![c] = "done"]
        /\ taken' = [taken EXCEPT ![c] = {}]
    BY <1>9 DEF Resolve
  <2>2. \A e, f \in Attempts : f \in answers'[e] => f \in answers[e] \/ (f = c /\ e \in taken[c])
    BY <1>9 DEF Resolve
  <2>3. OwedAfter'
    BY <1>1, <1>2, <2>1 DEF OwedAfter, Owed
  <2>4. Strays'
    BY <1>1, <1>2, <2>1, <2>2 DEF Strays
  <2> QED
    BY <2>3, <2>4
<1>10. CASE DestroyHeld \/ UNCHANGED vars
  BY <1>2, <1>10 DEF DestroyHeld, vars, OwedAfter, Owed, Strays
<1> QED
  BY <1>3, <1>4, <1>5, <1>6, <1>7, <1>8, <1>9, <1>10 DEF Next, Waiter, Reply, Done

(***************************************************************************)
(* A context reaches another attempt than its own only at the address they *)
(* share, once its own attempt timed out or was answered by a stray, and   *)
(* after some attempt at that address timed out, however often the         *)
(* allocator uses addresses again.                                         *)
(***************************************************************************)
THEOREM StraysNeedATimeout == Spec => []StrayContextsFollowATimeout
<1>1. Init => StrayInv
  BY DEF Init, StrayInv, OwedAfter, Owed, Strays
<1>2. StrayInv => StrayContextsFollowATimeout
  BY DEF StrayInv, Strays, Stray, GaveUp, GoneWithout, StrayContextsFollowATimeout
<1> QED
  BY <1>1, <1>2, StrayStep, OwnerInit, OwnerStep, ObjectInit, ObjectStep, PTL DEF Spec

-----------------------------------------------------------------------------
LEMMA DiscardStep == OwnerInv /\ Outcomes /\ Discarded /\ [Next]_vars => Discarded'
<1> SUFFICES ASSUME Typed, Unanswered, OneObject, Gone, Outcomes, Discarded, [Next]_vars
             PROVE  Discarded'
  BY DEF OwnerInv
<1>1. \A e \in Attempts : outcome[e] = "failed" => outcome'[e] = "failed"
  BY ReturnedIsFinal DEF Outcomes
<1> USE DEF Typed, Discarded
<1>2. ASSUME NEW c \in Attempts, Acquire(c) PROVE Discarded'
  <2>1. \A d \in Attempts : context'[d] = "undestroyed" =>
          \/ context[d] = "undestroyed"
          \/ d \in answers[c] /\ outcome'[c] = "failed"
    BY <1>2 DEF Acquire, Destroy, MadeBy
  <2>2. answers' = answers
    BY <1>2 DEF Acquire
  <2> QED
    BY <1>1, <2>1, <2>2 DEF OneObject
<1>3. ASSUME NEW c \in Attempts, TakeLate(c) PROVE Discarded'
  BY <1>1, <1>3 DEF TakeLate, Destroy, MadeBy, Unanswered
<1>4. ASSUME NEW c \in Attempts, Resolve(c) PROVE Discarded'
  BY <1>1, <1>4 DEF Resolve, Gone
<1>5. ASSUME NEW c \in Attempts, NEW ok \in BOOLEAN, NEW made \in BOOLEAN, Answer(c, ok, made)
      PROVE  Discarded'
  BY <1>1, <1>5 DEF Answer
<1>6. CASE DestroyHeld
  BY <1>1, <1>6 DEF DestroyHeld, Destroy
<1>7. ASSUME UNCHANGED <<context, answers>> PROVE Discarded'
  BY <1>1, <1>7
<1> QED
  BY <1>2, <1>3, <1>4, <1>5, <1>6, <1>7
  DEF Next, Waiter, Reply, Dispatch, DispatchOk, DispatchFails, TimeOut, GiveUp, Take, Done, vars

LEMMA LossStep == OwnerInv /\ ObjectInv /\ LossInv /\ [Next]_vars => LossInv'
<1> SUFFICES ASSUME OwnerInv, ObjectInv, HandedTooLate, \A x \in Attempts : Safe(x), [Next]_vars
             PROVE  HandedTooLate' /\ \A x \in Attempts : Safe(x)'
  BY DEF LossInv
<1>1. Typed /\ NotCalled /\ Unanswered /\ OneObject /\ PassedOn /\ Outcomes
  BY DEF OwnerInv, ObjectInv
<1>2. \A e \in Attempts : stage[e] = "returned" =>
        stage'[e] = "returned" /\ key'[e] = key[e] /\ outcome'[e] = outcome[e]
  BY <1>1, ReturnedIsFinal
<1>3. \A d \in Attempts : Unseen(d) => Unseen(d)'
  BY <1>1, <1>2 DEF Unseen, Outcomes
<1> USE DEF Typed, Safe, Owned
<1>4. ASSUME NEW c \in Attempts, Dispatch(c) PROVE HandedTooLate' /\ \A x \in Attempts : Safe(x)'
  <2>1. /\ stage[c] = "idle" /\ stage' = [stage EXCEPT ![c] = "dispatching"]
        /\ callback[c] = "none" /\ callback' = [callback EXCEPT ![c] = "open"]
        /\ UNCHANGED <<answers, outcome, context, taken, deliveryCtx>>
    BY <1>1, <1>4 DEF Dispatch, NotCalled
  <2>2. HandedTooLate'
    BY <1>1, <1>3, <2>1 DEF HandedTooLate
  <2>3. \A x \in Attempts : Safe(x)'
    BY <1>1, <1>3, <2>1
  <2> QED
    BY <2>2, <2>3
<1>5. ASSUME NEW c \in Attempts, DispatchOk(c) \/ TimeOut(c)
      PROVE  HandedTooLate' /\ \A x \in Attempts : Safe(x)'
  <2>1. /\ stage[c] # "returned"
        /\ \E k \in {"waiting", "expired"} : stage' = [stage EXCEPT ![c] = k]
        /\ UNCHANGED <<answers, outcome, callback, context, taken, deliveryCtx>>
    BY <1>5 DEF DispatchOk, TimeOut
  <2>2. HandedTooLate'
    BY <1>1, <1>3, <2>1 DEF HandedTooLate
  <2>3. \A x \in Attempts : Safe(x)'
    BY <1>1, <1>3, <2>1
  <2> QED
    BY <2>2, <2>3
<1>6. ASSUME NEW c \in Attempts, DispatchFails(c) PROVE HandedTooLate' /\ \A x \in Attempts : Safe(x)'
  <2>1. /\ callback[c] \in {"open", "done"} /\ callback' = [callback EXCEPT ![c] = "done"]
        /\ stage' = [stage EXCEPT ![c] = "returned"]
        /\ outcome' = [outcome EXCEPT ![c] = "refused"]
        /\ UNCHANGED <<answers, context, taken, deliveryCtx>>
    BY <1>6 DEF DispatchFails
  <2>2. Unseen(c)'
    BY <1>1, <2>1 DEF Unseen
  <2>3. taken[c] = {}
    BY <1>1, <2>1 DEF ObjectInv, OneHand
  <2>4. HandedTooLate'
    BY <1>1, <1>3, <2>1, <2>2, <2>3 DEF HandedTooLate
  <2>5. \A x \in Attempts : Safe(x)'
    BY <1>1, <1>3, <2>1, <2>2, <2>3
  <2> QED
    BY <2>4, <2>5
<1>7. ASSUME NEW c \in Attempts, Acquire(c) PROVE HandedTooLate' /\ \A x \in Attempts : Safe(x)'
  <2>1. /\ stage[c] = "waiting" /\ answers[c] # {} /\ stage' = [stage EXCEPT ![c] = "returned"]
        /\ UNCHANGED <<answers, callback, taken>>
    BY <1>7 DEF Acquire
  <2>2. deliveryCtx = {} /\ \A d \in Attempts : c \notin taken[d]
    BY <1>1, <2>1 DEF ObjectInv, NoneHeld, InFlight, OneHand
  <2>3. HandedTooLate'
    BY <1>1, <1>3, <2>1, <2>2 DEF HandedTooLate
  <2>4. ASSUME NEW x \in Attempts, x \in answers[c], context'[x] = "live" PROVE x \in deliveryCtx'
    BY <1>7, <2>4 DEF Acquire, Destroy, MadeBy
  <2>5. \A x \in Attempts : x \notin answers[c] => context'[x] = context[x]
    BY <1>7 DEF Acquire, Destroy, MadeBy
  <2>6. \A x \in Attempts : Safe(x)'
    BY <1>1, <1>3, <2>1, <2>2, <2>4, <2>5
  <2> QED
    BY <2>3, <2>6
<1>8. ASSUME NEW c \in Attempts, GiveUp(c) PROVE HandedTooLate' /\ \A x \in Attempts : Safe(x)'
  <2>1. /\ InFlight(c) /\ stage' = [stage EXCEPT ![c] = "returned"]
        /\ outcome' = [outcome EXCEPT ![c] = "timeout"] /\ deliveryCtx' = {}
        /\ UNCHANGED <<answers, callback, context, taken>>
    BY <1>8 DEF GiveUp, InFlight
  <2>2. deliveryCtx = {}
    BY <2>1 DEF ObjectInv, NoneHeld
  <2>3. Unseen(c)'
    BY <1>1, <2>1 DEF Unseen
  <2>4. HandedTooLate'
    BY <1>1, <1>3, <2>1, <2>3 DEF HandedTooLate
  <2>5. \A x \in Attempts : Safe(x)'
    BY <1>1, <1>3, <2>1, <2>2, <2>3
  <2> QED
    BY <2>4, <2>5
<1>9. ASSUME NEW c \in Attempts, NEW ok \in BOOLEAN, NEW made \in BOOLEAN, Answer(c, ok, made)
      PROVE  HandedTooLate' /\ \A x \in Attempts : Safe(x)'
  <2>1. HandedTooLate'
    BY <1>1, <1>3, <1>9 DEF Answer, HandedTooLate
  <2>2. \A x \in Attempts : Safe(x)'
    BY <1>1, <1>3, <1>9 DEF Answer
  <2> QED
    BY <2>1, <2>2
<1>10. ASSUME NEW c \in Attempts, TakeLate(c) PROVE HandedTooLate' /\ \A x \in Attempts : Safe(x)'
  <2>1. HandedTooLate'
    BY <1>1, <1>3, <1>10 DEF TakeLate, HandedTooLate
  <2>2. \A x \in Attempts : Safe(x)'
    BY <1>1, <1>3, <1>10 DEF TakeLate, Destroy, MadeBy
  <2> QED
    BY <2>1, <2>2
<1>11. ASSUME NEW c \in Attempts, Take(c) PROVE HandedTooLate' /\ \A x \in Attempts : Safe(x)'
  <2>1. PICK d \in Attempts : InFlight(d) /\ taken' = [taken EXCEPT ![c] = {d}]
    BY <1>1, <1>11, FoundEntry
  <2>2. /\ callback' = [callback EXCEPT ![c] = "taken"]
        /\ UNCHANGED <<stage, answers, outcome, context, deliveryCtx>>
    BY <1>11 DEF Take
  <2>3. HandedTooLate'
    BY <1>1, <1>3, <2>1, <2>2 DEF HandedTooLate, InFlight
  <2>4. \A x \in Attempts : Safe(x)'
    BY <1>1, <1>3, <2>2
  <2> QED
    BY <2>3, <2>4
<1>12. ASSUME NEW c \in Attempts, Resolve(c) PROVE HandedTooLate' /\ \A x \in Attempts : Safe(x)'
  <2>1. /\ callback[c] = "taken" /\ callback' = [callback EXCEPT ![c] = "done"]
        /\ taken' = [taken EXCEPT ![c] = {}]
        /\ UNCHANGED <<stage, outcome, context, deliveryCtx>>
    BY <1>12 DEF Resolve
  <2>2. PICK d \in Attempts : d \in taken[c]
    BY <2>1 DEF ObjectInv, OneHand
  <2>3. c \in answers'[d] /\ \A x, e \in Attempts : x \in answers[e] => x \in answers'[e]
    BY <1>12, <2>2 DEF Resolve
  <2>4. HandedTooLate'
    BY <1>1, <1>3, <2>1 DEF HandedTooLate
  <2>5. stage[d] = "returned" => Unseen(d)
    BY <2>2 DEF HandedTooLate
  <2>6. Safe(c)'
    BY <1>3, <2>1, <2>3, <2>5
  <2>7. \A x \in Attempts : x # c => Safe(x)'
    BY <1>1, <1>3, <2>1, <2>3
  <2> QED
    BY <2>4, <2>6, <2>7
<1>13. CASE DestroyHeld
  <2>1. HandedTooLate'
    BY <1>1, <1>3, <1>13 DEF DestroyHeld, HandedTooLate
  <2>2. \A x \in Attempts : Safe(x)'
    BY <1>1, <1>3, <1>13 DEF DestroyHeld, Destroy
  <2> QED
    BY <2>1, <2>2
<1>14. CASE UNCHANGED vars
  BY <1>3, <1>14 DEF vars, HandedTooLate
<1> QED
  BY <1>4, <1>5, <1>6, <1>7, <1>8, <1>9, <1>10, <1>11, <1>12, <1>13, <1>14
  DEF Next, Waiter, Reply, Done

(***************************************************************************)
(* A context that exists and that nobody owns was given to a destroy that  *)
(* failed, by an attempt that reported failure or by its own late callback,*)
(* or came in for an attempt that timed out or was refused; no other order *)
(* of timeouts, callbacks and destroys loses one.                          *)
(***************************************************************************)
THEOREM LossesNeedGivingUp == Spec => []LostOnlyByGivingUp
<1>1. Init => LossInv /\ Discarded
  BY DEF Init, LossInv, HandedTooLate, Safe, Discarded
<1>2. ObjectInv => Outcomes
  BY DEF ObjectInv
<1>3. LossInv /\ Discarded => LostOnlyByGivingUp
  BY DEF LossInv, Safe, Discarded, Exists, LostOnlyByGivingUp
<1> QED
  BY <1>1, <1>2, <1>3, LossStep, DiscardStep, OwnerInit, OwnerStep, ObjectInit, ObjectStep, PTL
  DEF Spec
=============================================================================
