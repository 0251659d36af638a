--------------------------- MODULE ApiCallProofs ---------------------------
(***************************************************************************)
(* Theorems about ApiCall, for every set of calls and of addresses:        *)
(*   - its type invariant;                                                 *)
(*   - the bridge of a call counts its users;                              *)
(*   - entries, waiters and semaphores are released exactly once;          *)
(*   - an answer goes astray only from a call that timed out or was given  *)
(*     a stray one, at an address where a call timed out.                  *)
(***************************************************************************)
EXTENDS ApiCall, FiniteSetTheorems, TLAPS

InFlight(c) == stage[c] \notin {"idle", "returned"}

Typed ==
  /\ stage \in [Calls -> {"idle", "registered", "dispatched", "waiting",
                          "refused", "expired", "returned"}]
  /\ key \in [Calls -> Addresses \cup {NoAddress}]
  /\ DOMAIN pendingContexts \subseteq Addresses
  /\ pendingContexts \in [DOMAIN pendingContexts -> Calls]
  /\ payload \in [Calls -> SUBSET Calls]
  /\ outcome \in [Calls -> {"none", "answered", "refused", "expired"}]
  /\ references \in [Calls -> Int]
  /\ invoked \in [Calls -> BOOLEAN]
  /\ ffi \in [Calls -> {"none", "open", "closed"}]
  /\ callback \in [Calls -> {"none", "entered", "taken", "resolved", "done"}]
  /\ taken \in [Calls -> SUBSET Calls]

-----------------------------------------------------------------------------
(***************************************************************************)
(* The bridge.  Its count is right because callbackInvoked is: a call not  *)
(* yet invoked is still owed its callback, one that is has closed the C    *)
(* side when the callback entered.                                         *)
(***************************************************************************)
Invoked ==
  \A c \in Calls :
    /\ stage[c] \in {"idle", "registered"} => ffi[c] = "none" /\ callback[c] = "none"
    /\ callback[c] # "none" => ffi[c] = "closed" /\ invoked[c]
    /\ stage[c] = "dispatched" /\ ~invoked[c] => ffi[c] = "open"

BridgeInv == Typed /\ Invoked /\ BridgeCountsItsUsers

LEMMA BridgeInit == Init => BridgeInv
  BY DEF Init, BridgeInv, Typed, Invoked, BridgeCountsItsUsers

LEMMA BridgeStep == BridgeInv /\ [Next]_vars => BridgeInv'
<1> SUFFICES ASSUME BridgeInv, [Next]_vars PROVE BridgeInv'
  OBVIOUS
<1> USE DEF BridgeInv, Typed, Invoked, BridgeCountsItsUsers
<1>1. ASSUME NEW c \in Calls, Register(c) PROVE BridgeInv'
  BY <1>1 DEF Register, FreeAddresses, Bridge
<1>2. ASSUME NEW c \in Calls, Invoke(c) PROVE BridgeInv'
  BY <1>2 DEF Invoke
<1>3. ASSUME NEW c \in Calls, NoBridge(c) PROVE BridgeInv'
  BY <1>3 DEF NoBridge, Erase, Bridge
<1>4. ASSUME NEW c \in Calls, ReturnOk(c) PROVE BridgeInv'
  BY <1>4 DEF ReturnOk
<1>5. ASSUME NEW c \in Calls, ReturnError(c) PROVE BridgeInv'
  BY <1>5 DEF ReturnError
<1>6. ASSUME NEW c \in Calls, Acquire(c) PROVE BridgeInv'
  BY <1>6 DEF Acquire, Bridge
<1>7. ASSUME NEW c \in Calls, TimeOut(c) PROVE BridgeInv'
  BY <1>7 DEF TimeOut, Bridge
<1>8. ASSUME NEW c \in Calls, GiveUp(c) PROVE BridgeInv'
  BY <1>8 DEF GiveUp, Erase, Bridge
<1>9. ASSUME NEW c \in Calls, StaleWarning(c) PROVE BridgeInv'
  BY <1>9 DEF StaleWarning, Waiter
<1>10. ASSUME NEW c \in Calls, Enter(c) PROVE BridgeInv'
  BY <1>10 DEF Enter, Waiter
<1>11. ASSUME NEW c \in Calls, Take(c) PROVE BridgeInv'
  BY <1>11 DEF Take, Erase, Waiter, Bridge
<1>12. ASSUME NEW c \in Calls, Resolve(c) PROVE BridgeInv'
  BY <1>12 DEF Resolve, Waiter, Bridge
<1>13. ASSUME NEW c \in Calls, ReleaseBridge(c) PROVE BridgeInv'
  BY <1>13 DEF ReleaseBridge, Waiter
<1>14. ASSUME UNCHANGED vars PROVE BridgeInv'
  BY <1>14 DEF vars
<1> QED
  BY <1>1, <1>2, <1>3, <1>4, <1>5, <1>6, <1>7, <1>8, <1>9, <1>10, <1>11, <1>12, <1>13, <1>14
  DEF Next, Caller, Reply, Done

LEMMA BridgeAlways == Spec => []BridgeInv
  BY BridgeInit, BridgeStep, PTL DEF Spec

(***************************************************************************)
(* Every variable has its type: the bridge's count stays between 0 and 2   *)
(* because it counts two parties.                                          *)
(***************************************************************************)
THEOREM TypeCorrect == Spec => []TypeOK
<1>1. BridgeInv => TypeOK
  BY DEF BridgeInv, Typed, BridgeCountsItsUsers, TypeOK
<1> QED
  BY <1>1, BridgeAlways, PTL

(***************************************************************************)
(* The bridge counts the caller inside the C function and the callback     *)
(* that is owed or in progress, in every order in which they finish.       *)
(***************************************************************************)
THEOREM BridgeExact == Spec => []BridgeCountsItsUsers
<1>1. BridgeInv => BridgeCountsItsUsers
  BY DEF BridgeInv
<1> QED
  BY <1>1, BridgeAlways, PTL

-----------------------------------------------------------------------------
(***************************************************************************)
(* Entries and waiters.  Two calls in flight never share an address, so    *)
(* that the entry found at a call's address is its own; and a waiter is    *)
(* either in the map, or in one callback's hands, or answered, once.       *)
(***************************************************************************)
Placed ==
  \A c, d \in Calls : InFlight(c) /\ InFlight(d) /\ key[c] = key[d] => c = d

Untouched ==
  \A c \in Calls : stage[c] = "idle" => payload[c] = {} /\ \A d \in Calls : c \notin taken[d]

OneHand ==
  /\ \A a \in DOMAIN pendingContexts : payload[pendingContexts[a]] = {}
  /\ \A d \in Calls, a \in DOMAIN pendingContexts : pendingContexts[a] \notin taken[d]
  /\ \A c, d \in Calls : c \in taken[d] => payload[c] = {}
  /\ \A c, d, e \in Calls : c \in taken[d] /\ c \in taken[e] => d = e
  /\ \A c, d, e \in Calls : d \in payload[c] /\ e \in payload[c] => d = e

WaiterInv == NoEntryOutlivesItsCall /\ Placed /\ Untouched /\ OneHand

LEMMA WaiterInit == Init => WaiterInv
  BY DEF Init, WaiterInv, NoEntryOutlivesItsCall, Placed, InFlight, Untouched, OneHand

LEMMA WaiterStep == BridgeInv /\ WaiterInv /\ [Next]_vars => WaiterInv'
<1> SUFFICES ASSUME Typed, WaiterInv, [Next]_vars PROVE WaiterInv'
  BY DEF BridgeInv
<1> USE DEF WaiterInv, Typed, NoEntryOutlivesItsCall, Placed, InFlight, Untouched, OneHand
<1>1. ASSUME NEW c \in Calls, Register(c) PROVE WaiterInv'
  <2>1. PICK a \in FreeAddresses :
          /\ key' = [key EXCEPT ![c] = a]
          /\ pendingContexts' = [x \in DOMAIN pendingContexts \cup {a} |->
                                   IF x = a THEN c ELSE pendingContexts[x]]
    BY <1>1 DEF Register
  <2>2. \A d \in Calls : InFlight(d) => key[d] # a
    BY <2>1 DEF FreeAddresses, Alive
  <2>3. /\ stage[c] = "idle" /\ stage' = [stage EXCEPT ![c] = "registered"]
        /\ payload' = payload /\ taken' = taken
    BY <1>1 DEF Register
  <2>4. NoEntryOutlivesItsCall'
    BY <2>1, <2>3
  <2>5. Placed'
    BY <2>1, <2>2, <2>3
  <2>6. Untouched'
    BY <2>3
  <2>7. OneHand'
    BY <2>1, <2>3
  <2> QED
    BY <2>4, <2>5, <2>6, <2>7
<1>2. ASSUME NEW c \in Calls, Invoke(c) PROVE WaiterInv'
  BY <1>2 DEF Invoke
<1>3. ASSUME NEW c \in Calls, NoBridge(c) PROVE WaiterInv'
  <2>1. ASSUME key[c] \in DOMAIN pendingContexts PROVE pendingContexts[key[c]] = c
    BY <1>3, <2>1 DEF NoBridge
  <2> QED
    BY <1>3, <2>1 DEF NoBridge, Erase
<1>4. ASSUME NEW c \in Calls, ReturnOk(c) PROVE WaiterInv'
  BY <1>4 DEF ReturnOk
<1>5. ASSUME NEW c \in Calls, ReturnError(c) PROVE WaiterInv'
  BY <1>5 DEF ReturnError
<1>6. ASSUME NEW c \in Calls, Acquire(c) PROVE WaiterInv'
  BY <1>6 DEF Acquire
<1>7. ASSUME NEW c \in Calls, TimeOut(c) PROVE WaiterInv'
  BY <1>7 DEF TimeOut
<1>8. ASSUME NEW c \in Calls, GiveUp(c) PROVE WaiterInv'
  BY <1>8 DEF GiveUp, Erase
<1>9. ASSUME NEW c \in Calls, StaleWarning(c) \/ Enter(c) \/ ReleaseBridge(c) PROVE WaiterInv'
  BY <1>9 DEF StaleWarning, Enter, ReleaseBridge, Waiter
<1>10. ASSUME NEW c \in Calls, Take(c) PROVE WaiterInv'
  <2>1. CASE key[c] \notin DOMAIN pendingContexts
    BY <1>10, <2>1 DEF Take, Waiter
  <2>2. CASE key[c] \in DOMAIN pendingContexts
    <3> DEFINE d == pendingContexts[key[c]]
    <3>1. /\ taken' = [taken EXCEPT ![c] = {d}]
          /\ pendingContexts' = [x \in DOMAIN pendingContexts \ {key[c]} |-> pendingContexts[x]]
          /\ stage' = stage /\ key' = key /\ payload' = payload
      BY <1>10, <2>2 DEF Take, Erase, Waiter
    <3>2. /\ d \in Calls /\ payload[d] = {} /\ stage[d] # "idle"
          /\ \A e \in Calls : d \notin taken[e]
          /\ \A x \in DOMAIN pendingContexts' : pendingContexts'[x] # d
      BY <2>2, <3>1
    <3> HIDE DEF d
    <3>3. NoEntryOutlivesItsCall' /\ Placed'
      BY <3>1
    <3>4. Untouched' /\ OneHand'
      BY <3>1, <3>2
    <3> QED
      BY <3>3, <3>4
  <2> QED
    BY <2>1, <2>2
<1>11. ASSUME NEW c \in Calls, Resolve(c) PROVE WaiterInv'
  BY <1>11 DEF Resolve, Waiter
<1>12. ASSUME UNCHANGED vars PROVE WaiterInv'
  BY <1>12 DEF vars
<1> QED
  BY <1>1, <1>2, <1>3, <1>4, <1>5, <1>6, <1>7, <1>8, <1>9, <1>10, <1>11, <1>12
  DEF Next, Caller, Reply, Done

LEMMA WaiterAlways == Spec => [](BridgeInv /\ WaiterInv)
  BY BridgeInit, BridgeStep, WaiterInit, WaiterStep, PTL DEF Spec

(***************************************************************************)
(* No call leaves its entry behind when it returns, answered, refused or   *)
(* expired.                                                                *)
(***************************************************************************)
THEOREM EntriesAreLive == Spec => []NoEntryOutlivesItsCall
<1>1. WaiterInv => NoEntryOutlivesItsCall
  BY DEF WaiterInv
<1> QED
  BY <1>1, WaiterAlways, PTL

LEMMA AtMostOne ==
  ASSUME NEW S, \A x, y \in S : x = y
  PROVE  IsFiniteSet(S) /\ Cardinality(S) = (IF S = {} THEN 0 ELSE 1)
<1>1. CASE S = {}
  BY <1>1, FS_EmptySet
<1>2. CASE S # {}
  <2>1. PICK x \in S : TRUE
    BY <1>2
  <2>2. S = {x}
    BY <2>1
  <2> QED
    BY <1>2, <2>2, FS_Singleton
<1> QED
  BY <1>1, <1>2

(***************************************************************************)
(* A waiter's semaphore is released at most once: it is in the map once,   *)
(* or one callback holds it, or it was answered once.                      *)
(***************************************************************************)
THEOREM ReleasedOnce == Spec => []ResolvedOnce
<1>1. ASSUME Typed, WaiterInv, NEW c \in Calls
      PROVE  Cardinality(payload[c]) + Cardinality({d \in Calls : c \in taken[d]})
               + Cardinality({a \in DOMAIN pendingContexts : pendingContexts[a] = c}) <= 1
  <2> DEFINE T == {d \in Calls : c \in taken[d]}
             A == {a \in DOMAIN pendingContexts : pendingContexts[a] = c}
  <2> USE <1>1 DEF Typed, WaiterInv, OneHand, NoEntryOutlivesItsCall
  <2>1. Cardinality(payload[c]) = (IF payload[c] = {} THEN 0 ELSE 1)
    <3>1. \A x, y \in payload[c] : x = y
      OBVIOUS
    <3> QED
      BY <3>1, AtMostOne
  <2>2. Cardinality(T) = (IF T = {} THEN 0 ELSE 1)
    <3>1. \A x, y \in T : x = y
      OBVIOUS
    <3> QED
      BY <3>1, AtMostOne
  <2>3. Cardinality(A) = (IF A = {} THEN 0 ELSE 1)
    <3>1. \A x, y \in A : x = y
      OBVIOUS
    <3> QED
      BY <3>1, AtMostOne
  <2>4. /\ A # {} => payload[c] = {} /\ T = {}
        /\ T # {} => payload[c] = {}
    OBVIOUS
  <2> HIDE DEF T, A
  <2>5. Cardinality(payload[c]) + Cardinality(T) + Cardinality(A) <= 1
    BY <2>1, <2>2, <2>3, <2>4
  <2> QED
    BY <2>5 DEF T, A
<1>2. BridgeInv /\ WaiterInv => ResolvedOnce
  BY <1>1 DEF BridgeInv, ResolvedOnce
<1> QED
  BY <1>2, WaiterAlways, PTL

-----------------------------------------------------------------------------
(***************************************************************************)
(* Addresses used again.  A callback can find the entry of another call    *)
(* only if its own call is over and the callback was still owed, and that  *)
(* happens at an address where a call gave up: directly, or because the    *)
(* stray answer of an earlier one ended this call before its own answer.   *)
(***************************************************************************)
Owed(c) == ffi[c] = "open" \/ callback[c] \in {"entered", "taken"}

GaveUp(a) == \E e \in Calls : outcome[e] = "expired" /\ key[e] = a

\* Call c is over without its own answer.
GoneWithout(c) == outcome[c] = "expired" \/ \E e \in payload[c] : e # c

\* The answer of d may be in the hands of, or have been given to, call c.
Stray(c, d) == stage[d] = "returned" /\ key[d] = key[c] /\ GaveUp(key[c]) /\ GoneWithout(d)

Outcomes == \A c \in Calls : outcome[c] # "none" => stage[c] = "returned"

OwedAfter ==
  \A c \in Calls : /\ stage[c] = "refused" => ~Owed(c)
                   /\ stage[c] = "returned" /\ Owed(c) => GaveUp(key[c]) /\ GoneWithout(c)

OwnAnswer ==
  \A c \in Calls :
    c \in payload[c] => callback[c] \in {"resolved", "done"} \/ stage[c] \in {"refused", "returned"}

Strays ==
  /\ \A c, d \in Calls : c \in taken[d] => callback[d] = "taken" /\ (d # c => Stray(c, d))
  /\ \A c, d \in Calls : d \in payload[c] /\ d # c => Stray(c, d)

StrayInv == Outcomes /\ OwedAfter /\ OwnAnswer /\ Strays

\* What a call that is over is known by does not change any more.
LEMMA StrayKept ==
  ASSUME \A e \in Calls : stage[e] = "returned" =>
           stage'[e] = "returned" /\ key'[e] = key[e] /\ outcome'[e] = outcome[e],
         \A e \in Calls : stage[e] = "returned" => payload[e] \subseteq payload'[e],
         Outcomes
  PROVE  /\ \A e \in Calls : stage[e] = "returned" /\ GaveUp(key[e]) => GaveUp(key[e])'
         /\ \A e \in Calls : stage[e] = "returned" /\ GoneWithout(e) => GoneWithout(e)'
         /\ \A c, d \in Calls : Stray(c, d) /\ key'[c] = key[c] => Stray(c, d)'
<1>1. ASSUME NEW a, GaveUp(a) PROVE \E e \in Calls : outcome'[e] = "expired" /\ key'[e] = a
  BY <1>1 DEF GaveUp, Outcomes
<1>2. \A e \in Calls : stage[e] = "returned" /\ GoneWithout(e) => GoneWithout(e)'
  BY DEF GoneWithout
<1> QED
  BY <1>1, <1>2 DEF GaveUp, Stray

LEMMA StrayStep == BridgeInv /\ WaiterInv /\ StrayInv /\ [Next]_vars => StrayInv'
<1> SUFFICES ASSUME Typed, Invoked, WaiterInv, StrayInv, [Next]_vars PROVE StrayInv'
  BY DEF BridgeInv
<1> USE DEF Typed, StrayInv
<1>1. \A e \in Calls : stage[e] = "returned" =>
        stage'[e] = "returned" /\ key'[e] = key[e] /\ outcome'[e] = outcome[e]
  <2>1. ASSUME NEW c \in Calls, Caller(c)
        PROVE  /\ stage[c] # "returned" /\ \A e \in Calls : e # c => stage'[e] = stage[e]
               /\ key' = key /\ \A e \in Calls : e # c => outcome'[e] = outcome[e]
    BY <2>1 DEF Caller, Invoke, NoBridge, ReturnOk, ReturnError, Acquire, TimeOut, GiveUp
  <2>2. ASSUME NEW c \in Calls, Register(c)
        PROVE  /\ stage[c] # "returned" /\ \A e \in Calls : e # c => stage'[e] = stage[e]
               /\ \A e \in Calls : e # c => key'[e] = key[e]
               /\ outcome' = outcome
    BY <2>2 DEF Register
  <2>3. ASSUME NEW c \in Calls, StaleWarning(c) \/ Enter(c) \/ Reply(c)
        PROVE  UNCHANGED <<stage, key, outcome>>
    BY <2>3 DEF StaleWarning, Enter, Reply, Take, Resolve, ReleaseBridge, Waiter
  <2> QED
    BY <2>1, <2>2, <2>3 DEF Next, Done, vars
<1>12. \A e \in Calls : stage[e] = "returned" => payload[e] \subseteq payload'[e]
  <2>1. ASSUME NEW c \in Calls, NoBridge(c)
        PROVE  stage[c] # "returned" /\ \A e \in Calls : e # c => payload'[e] = payload[e]
    BY <2>1 DEF NoBridge
  <2>2. ASSUME NEW c \in Calls, Resolve(c) PROVE \A e \in Calls : payload[e] \subseteq payload'[e]
    BY <2>2 DEF Resolve
  <2> QED
    BY <2>1, <2>2 DEF Next, Caller, Reply, Register, Invoke, ReturnOk, ReturnError, Acquire, TimeOut,
       GiveUp, StaleWarning, Enter, Take, ReleaseBridge, Done, vars
<1>2. /\ \A e \in Calls : stage[e] = "returned" /\ GaveUp(key[e]) => GaveUp(key[e])'
      /\ \A e \in Calls : stage[e] = "returned" /\ GoneWithout(e) => GoneWithout(e)'
      /\ \A c, d \in Calls : Stray(c, d) /\ key'[c] = key[c] => Stray(c, d)'
  BY <1>1, <1>12, StrayKept
<1>3. ASSUME NEW c \in Calls, Register(c) PROVE StrayInv'
  <2>1. /\ stage[c] = "idle" /\ stage' = [stage EXCEPT ![c] = "registered"]
        /\ \A d \in Calls : d # c => key'[d] = key[d]
        /\ UNCHANGED <<payload, outcome, ffi, callback, taken>>
    BY <1>3 DEF Register
  <2>2. Outcomes' /\ OwnAnswer'
    BY <2>1 DEF Outcomes, OwnAnswer
  <2>3. OwedAfter'
    BY <1>2, <2>1 DEF OwedAfter, Owed
  <2>4. Strays'
    BY <1>2, <2>1 DEF Strays, WaiterInv, Untouched
  <2> QED
    BY <2>2, <2>3, <2>4
<1>4. ASSUME NEW c \in Calls, Invoke(c) \/ ReturnOk(c) \/ TimeOut(c) \/ ReturnError(c) PROVE StrayInv'
  <2>1. key' = key /\ UNCHANGED <<payload, outcome, callback, taken>>
    BY <1>4 DEF Invoke, ReturnOk, TimeOut, ReturnError
  <2>2. Outcomes' /\ OwnAnswer'
    BY <1>4, <2>1 DEF Outcomes, OwnAnswer, Invoke, ReturnOk, TimeOut, ReturnError
  <2>3. OwedAfter'
    BY <1>2, <1>4, <2>1 DEF OwedAfter, Owed, Invoked, Invoke, ReturnOk, TimeOut, ReturnError
  <2>4. Strays'
    BY <1>2, <2>1 DEF Strays
  <2> QED
    BY <2>2, <2>3, <2>4
<1>5. ASSUME NEW c \in Calls, NoBridge(c) PROVE StrayInv'
  <2>1. /\ key' = key /\ UNCHANGED <<outcome, ffi, callback, taken>>
        /\ stage[c] = "registered" /\ stage' = [stage EXCEPT ![c] = "refused"]
        /\ \A d \in Calls : payload'[d] = payload[d] \/ (d = c /\ payload'[d] = {c})
    BY <1>5 DEF NoBridge
  <2>2. Outcomes' /\ OwnAnswer'
    BY <2>1 DEF Outcomes, OwnAnswer
  <2>3. OwedAfter'
    BY <1>2, <2>1 DEF OwedAfter, Owed, Invoked
  <2>4. Strays'
    BY <1>2, <2>1 DEF Strays
  <2> QED
    BY <2>2, <2>3, <2>4
<1>6. ASSUME NEW c \in Calls, Acquire(c) PROVE StrayInv'
  <2>1. /\ key' = key /\ UNCHANGED <<payload, ffi, callback, taken>>
        /\ stage[c] = "waiting" /\ payload[c] # {} /\ stage' = [stage EXCEPT ![c] = "returned"]
        /\ outcome' = [outcome EXCEPT ![c] = "answered"]
    BY <1>6 DEF Acquire
  <2>2. Outcomes' /\ OwnAnswer'
    BY <2>1 DEF Outcomes, OwnAnswer
  <2>3. ~Owed(c) \/ (GaveUp(key[c]) /\ \E e \in payload[c] : e # c)
    BY <2>1 DEF OwnAnswer, Strays, Stray, Owed, Invoked
  <2>4. /\ GaveUp(key[c]) => GaveUp(key[c])'
        /\ (\E e \in payload[c] : e # c) => GoneWithout(c)'
    BY <2>1 DEF GaveUp, GoneWithout, Outcomes
  <2>5. OwedAfter'
    BY <1>2, <2>1, <2>3, <2>4 DEF OwedAfter, Owed
  <2>6. Strays'
    BY <1>2, <2>1 DEF Strays
  <2> QED
    BY <2>2, <2>5, <2>6
<1>7. ASSUME NEW c \in Calls, GiveUp(c) PROVE StrayInv'
  <2>1. /\ key' = key /\ UNCHANGED <<payload, ffi, callback, taken>>
        /\ stage[c] \in {"refused", "expired"} /\ stage' = [stage EXCEPT ![c] = "returned"]
        /\ outcome' = [outcome EXCEPT ![c] = stage[c]]
    BY <1>7 DEF GiveUp
  <2>2. Outcomes' /\ OwnAnswer'
    BY <2>1 DEF Outcomes, OwnAnswer
  <2>3. stage[c] = "expired" => GaveUp(key[c])' /\ GoneWithout(c)'
    BY <2>1 DEF GaveUp, GoneWithout
  <2>4. OwedAfter'
    BY <1>2, <2>1, <2>3 DEF OwedAfter, Owed
  <2>5. Strays'
    BY <1>2, <2>1 DEF Strays
  <2> QED
    BY <2>2, <2>4, <2>5
<1>8. ASSUME NEW c \in Calls, StaleWarning(c) \/ Enter(c) \/ ReleaseBridge(c) PROVE StrayInv'
  <2>1. UNCHANGED <<stage, key, outcome, payload, taken>>
    BY <1>8 DEF StaleWarning, Enter, ReleaseBridge, Waiter
  <2>2. Outcomes' /\ OwnAnswer'
    BY <1>8, <2>1 DEF Outcomes, OwnAnswer, StaleWarning, Enter, ReleaseBridge, Invoked
  <2>3. OwedAfter'
    BY <1>2, <1>8, <2>1 DEF OwedAfter, Owed, StaleWarning, Enter, ReleaseBridge
  <2>4. Strays'
    BY <1>2, <1>8, <2>1 DEF Strays, StaleWarning, Enter, ReleaseBridge, Invoked
  <2> QED
    BY <2>2, <2>3, <2>4
<1>9. ASSUME NEW c \in Calls, Take(c) PROVE StrayInv'
  <2>1. /\ UNCHANGED <<stage, key, outcome, payload, ffi>>
        /\ callback[c] = "entered"
        /\ \E k \in {"taken", "resolved"} : callback' = [callback EXCEPT ![c] = k]
    BY <1>9 DEF Take, Waiter
  <2>2. Outcomes' /\ OwnAnswer'
    BY <2>1 DEF Outcomes, OwnAnswer
  <2>3. OwedAfter'
    BY <1>2, <2>1 DEF OwedAfter, Owed
  <2>4. ASSUME key[c] \in DOMAIN pendingContexts, pendingContexts[key[c]] # c
        PROVE  Stray(pendingContexts[key[c]], c)
    <3> DEFINE d == pendingContexts[key[c]]
    <3>1. d \in Calls /\ key[d] = key[c] /\ InFlight(d)
      BY <2>4 DEF WaiterInv, NoEntryOutlivesItsCall, InFlight
    <3>2. stage[c] = "returned"
      BY <2>1, <2>4, <3>1 DEF WaiterInv, Placed, InFlight, Invoked
    <3> QED
      BY <2>1, <3>1, <3>2 DEF OwedAfter, Owed, Stray
  <2>5. CASE key[c] \in DOMAIN pendingContexts
    <3>1. PICK d \in Calls : d = pendingContexts[key[c]]
      BY <2>5
    <3>2. taken' = [taken EXCEPT ![c] = {d}] /\ callback' = [callback EXCEPT ![c] = "taken"]
      BY <1>9, <2>5, <3>1 DEF Take
    <3>3. ASSUME d # c PROVE Stray(d, c)'
      <4>1. Stray(d, c) /\ key'[d] = key[d]
        BY <2>1, <2>4, <2>5, <3>1, <3>3
      <4> QED
        BY <4>1, <1>2
    <3>4. \A e, f \in Calls : e \in taken'[f] =>
            callback'[f] = "taken" /\ (f # e => Stray(e, f)')
      BY <1>2, <2>1, <3>2, <3>3 DEF Strays
    <3>5. \A e, f \in Calls : f \in payload'[e] /\ f # e => Stray(e, f)'
      BY <1>2, <2>1 DEF Strays
    <3> QED
      BY <2>2, <2>3, <3>4, <3>5 DEF Strays
  <2>6. CASE key[c] \notin DOMAIN pendingContexts
    <3>1. Strays'
      BY <1>2, <1>9, <2>1, <2>6 DEF Strays, Take
    <3> QED
      BY <2>2, <2>3, <3>1
  <2> QED
    BY <2>5, <2>6
<1>10. ASSUME NEW c \in Calls, Resolve(c) PROVE StrayInv'
  <2>1. /\ UNCHANGED <<stage, key, outcome, ffi>>
        /\ callback[c] = "taken" /\ callback' = [callback EXCEPT ![c] = "resolved"]
        /\ taken' = [taken EXCEPT ![c] = {}]
    BY <1>10 DEF Resolve, Waiter
  <2>2. \A e, f \in Calls : f \in payload'[e] => f \in payload[e] \/ (f = c /\ e \in taken[c])
    BY <1>10 DEF Resolve
  <2>3. Outcomes'
    BY <2>1 DEF Outcomes
  <2>4. OwnAnswer'
    BY <2>1, <2>2 DEF OwnAnswer
  <2>5. OwedAfter'
    BY <1>2, <2>1 DEF OwedAfter, Owed
  <2>6. \A e, f \in Calls : e \in taken'[f] =>
          callback'[f] = "taken" /\ (f # e => Stray(e, f)')
    BY <1>2, <2>1 DEF Strays
  <2>7. \A e, f \in Calls : f \in payload'[e] /\ f # e => Stray(e, f)'
    BY <1>2, <2>1, <2>2 DEF Strays
  <2> QED
    BY <2>3, <2>4, <2>5, <2>6, <2>7 DEF Strays
<1>11. ASSUME UNCHANGED vars PROVE StrayInv'
  BY <1>2, <1>11 DEF vars, Outcomes, OwedAfter, Owed, OwnAnswer, Strays
<1> QED
  BY <1>3, <1>4, <1>5, <1>6, <1>7, <1>8, <1>9, <1>10, <1>11 DEF Next, Caller, Reply, Done

(***************************************************************************)
(* However addresses are used again: an answer given to another call comes *)
(* from one that timed out or was given a stray answer itself, at an       *)
(* address where some call timed out.                                      *)
(***************************************************************************)
THEOREM StraysNeedATimeout == Spec => []StrayAnswersFollowATimeout
<1>1. Init => StrayInv
  BY DEF Init, StrayInv, Outcomes, OwedAfter, Owed, OwnAnswer, Strays
<1>2. StrayInv => StrayAnswersFollowATimeout
  BY DEF StrayInv, Strays, Stray, GaveUp, GoneWithout, StrayAnswersFollowATimeout
<1> QED
  BY <1>1, <1>2, StrayStep, BridgeInit, BridgeStep, WaiterInit, WaiterStep, PTL DEF Spec
=============================================================================
