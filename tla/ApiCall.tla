------------------------------ MODULE ApiCall ------------------------------
(***************************************************************************)
(* callApiRetVoid / callApiRetValue and bindApiCall (api_call_handler.h):  *)
(* a blocking call on top of a C function that answers through a callback  *)
(* on another thread.  The waiter is found by the address of its heap      *)
(* object, kept in a map of pending calls; between the C function and the  *)
(* callback stands a reference-counted bridge.  Several host threads call  *)
(* at once; an answer may come while the C function still runs, much later,*)
(* after the waiter gave up, or never.                                     *)
(*                                                                         *)
(* An object is alive while its caller, the map or a callback holds it.    *)
(* Its address can then be given to a later call's object.                 *)
(***************************************************************************)
EXTENDS FiniteSets, Integers

CONSTANTS
  Calls,           \* calls made, each by its own host thread
  Addresses,       \* where their CallbackContext objects can be
  NoAddress

ASSUME ApiCallAssumption == NoAddress \notin Addresses

VARIABLES
  stage,            \* caller: idle, registered, dispatched, waiting, refused, expired, returned
  key,              \* address of the caller's CallbackContext
  pendingContexts,  \* pending map: address -> the call whose object is there
  payload,          \* calls whose answer was stored in this call's object
  outcome,          \* what the caller got
  references,       \* of the call's bridge; 0 is deleted
  invoked,          \* the bridge's callbackInvoked
  ffi,              \* the C side: none, open (owes the terminal callback), closed
  callback,         \* terminal callback: none, entered, taken, resolved, done
  taken             \* calls whose object that callback took out of the map

vars == <<stage, key, pendingContexts, payload, outcome,
          references, invoked, ffi, callback, taken>>

Waiter == <<stage, key, outcome>>
Bridge == <<references, invoked>>

Init ==
  /\ stage = [c \in Calls |-> "idle"]
  /\ key = [c \in Calls |-> NoAddress]
  /\ pendingContexts = [a \in {} |-> NoAddress]
  /\ payload = [c \in Calls |-> {}]
  /\ outcome = [c \in Calls |-> "none"]
  /\ references = [c \in Calls |-> 0]
  /\ invoked = [c \in Calls |-> FALSE]
  /\ ffi = [c \in Calls |-> "none"]
  /\ callback = [c \in Calls |-> "none"]
  /\ taken = [c \in Calls |-> {}]

Pending == {pendingContexts[a] : a \in DOMAIN pendingContexts}

Alive(c) ==
  \/ stage[c] \notin {"idle", "returned"}
  \/ c \in Pending
  \/ \E d \in Calls : c \in taken[d]

\* Mutant of FreeAddresses: one static context for all calls.
OneStaticContext == Addresses

FreeAddresses == Addresses \ {key[c] : c \in {d \in Calls : Alive(d)}}

Erase(a) ==
  pendingContexts' = [x \in DOMAIN pendingContexts \ {a} |-> pendingContexts[x]]

-----------------------------------------------------------------------------
(***************************************************************************)
(* The caller.                                                             *)
(***************************************************************************)
Register(c) ==
  /\ stage[c] = "idle"
  /\ \E a \in FreeAddresses :
       /\ key' = [key EXCEPT ![c] = a]
       /\ pendingContexts' = [x \in DOMAIN pendingContexts \cup {a} |->
                                IF x = a THEN c ELSE pendingContexts[x]]
  /\ stage' = [stage EXCEPT ![c] = "registered"]
  /\ UNCHANGED <<payload, outcome, Bridge, ffi, callback, taken>>

\* bindApiCall allocates the bridge for itself and for the callback.
Invoke(c) ==
  /\ stage[c] = "registered"
  /\ stage' = [stage EXCEPT ![c] = "dispatched"]
  /\ references' = [references EXCEPT ![c] = 2]
  /\ ffi' = [ffi EXCEPT ![c] = "open"]
  /\ UNCHANGED <<key, pendingContexts, payload, outcome, invoked, callback, taken>>

\* Without memory for a bridge the callback is run at once, on this thread.
NoBridge(c) ==
  /\ stage[c] = "registered"
  /\ stage' = [stage EXCEPT ![c] = "refused"]
  /\ payload' = [payload EXCEPT ![c] = IF key[c] \in DOMAIN pendingContexts THEN {c} ELSE @]
  /\ Erase(key[c])
  /\ UNCHANGED <<key, outcome, Bridge, ffi, callback, taken>>

ReturnOk(c) ==
  /\ stage[c] = "dispatched"
  /\ stage' = [stage EXCEPT ![c] = "waiting"]
  /\ references' = [references EXCEPT ![c] = @ - 1]
  /\ UNCHANGED <<key, pendingContexts, payload, outcome, invoked, ffi, callback, taken>>

\* The C function refuses: it has run its terminal callback already, or it never
\* runs one and the caller drops the callback's reference as well.
ReturnError(c) ==
  /\ stage[c] = "dispatched"
  /\ callback[c] = "done" \/ ~invoked[c]
  /\ stage' = [stage EXCEPT ![c] = "refused"]
  /\ ffi' = [ffi EXCEPT ![c] = "closed"]
  /\ references' = [references EXCEPT ![c] = IF invoked[c] THEN @ - 1 ELSE @ - 2]
  /\ UNCHANGED <<key, pendingContexts, payload, outcome, invoked, callback, taken>>

Acquire(c) ==
  /\ stage[c] = "waiting" /\ payload[c] # {}
  /\ stage' = [stage EXCEPT ![c] = "returned"]
  /\ outcome' = [outcome EXCEPT ![c] = "answered"]
  /\ UNCHANGED <<key, pendingContexts, payload, Bridge, ffi, callback, taken>>

\* Mutant of TimeOut: a wait without a timeout.
NeverTimesOut(c) == FALSE

\* The wait ends first; an answer may still slip in before the map is locked.
TimeOut(c) ==
  /\ stage[c] = "waiting" /\ payload[c] = {}
  /\ stage' = [stage EXCEPT ![c] = "expired"]
  /\ UNCHANGED <<key, pendingContexts, payload, outcome, Bridge, ffi, callback, taken>>

\* Mutant of GiveUp: the pending entry is left behind.
GiveUpKeepsEntry(c) ==
  /\ stage[c] \in {"refused", "expired"}
  /\ stage' = [stage EXCEPT ![c] = "returned"]
  /\ outcome' = [outcome EXCEPT ![c] = stage[c]]
  /\ UNCHANGED <<key, pendingContexts, payload, Bridge, ffi, callback, taken>>

GiveUp(c) ==
  /\ stage[c] \in {"refused", "expired"}
  /\ Erase(key[c])
  /\ stage' = [stage EXCEPT ![c] = "returned"]
  /\ outcome' = [outcome EXCEPT ![c] = stage[c]]
  /\ UNCHANGED <<key, payload, Bridge, ffi, callback, taken>>

-----------------------------------------------------------------------------
\* Mutant of StaleWarning: the bridge is released as after a terminal reply.
StaleWarningReleases(c) ==
  /\ ffi[c] = "open"
  /\ invoked' = [invoked EXCEPT ![c] = TRUE]
  /\ references' = [references EXCEPT ![c] = @ - 1]
  /\ UNCHANGED <<Waiter, pendingContexts, payload, ffi, callback, taken>>

(***************************************************************************)
(* The callback of call c, with the address of c's object as userData.     *)
(***************************************************************************)
\* RET_STALE_WARN does not end the call.
StaleWarning(c) ==
  /\ ffi[c] = "open"
  /\ invoked' = [invoked EXCEPT ![c] = TRUE]
  /\ UNCHANGED <<Waiter, pendingContexts, payload, references, ffi, callback, taken>>

Enter(c) ==
  /\ ffi[c] = "open"
  /\ ffi' = [ffi EXCEPT ![c] = "closed"]
  /\ invoked' = [invoked EXCEPT ![c] = TRUE]
  /\ callback' = [callback EXCEPT ![c] = "entered"]
  /\ UNCHANGED <<Waiter, pendingContexts, payload, references, taken>>

\* Mutant of Take: the entry found stays in the map.
TakeKeepsEntry(c) ==
  /\ callback[c] = "entered"
  /\ IF key[c] \in DOMAIN pendingContexts
     THEN /\ taken' = [taken EXCEPT ![c] = {pendingContexts[key[c]]}]
          /\ callback' = [callback EXCEPT ![c] = "taken"]
     ELSE /\ callback' = [callback EXCEPT ![c] = "resolved"]
          /\ UNCHANGED taken
  /\ UNCHANGED <<Waiter, pendingContexts, payload, Bridge, ffi>>

Take(c) ==
  /\ callback[c] = "entered"
  /\ IF key[c] \in DOMAIN pendingContexts
     THEN /\ taken' = [taken EXCEPT ![c] = {pendingContexts[key[c]]}]
          /\ Erase(key[c])
          /\ callback' = [callback EXCEPT ![c] = "taken"]
     ELSE /\ callback' = [callback EXCEPT ![c] = "resolved"]
          /\ UNCHANGED <<taken, pendingContexts>>
  /\ UNCHANGED <<Waiter, payload, Bridge, ffi>>

\* Store the answer in the object taken and release its semaphore.
Resolve(c) ==
  /\ callback[c] = "taken"
  /\ payload' = [d \in Calls |-> IF d \in taken[c] THEN payload[d] \cup {c} ELSE payload[d]]
  /\ taken' = [taken EXCEPT ![c] = {}]
  /\ callback' = [callback EXCEPT ![c] = "resolved"]
  /\ UNCHANGED <<Waiter, pendingContexts, Bridge, ffi>>

ReleaseBridge(c) ==
  /\ callback[c] = "resolved"
  /\ references' = [references EXCEPT ![c] = @ - 1]
  /\ callback' = [callback EXCEPT ![c] = "done"]
  /\ UNCHANGED <<Waiter, pendingContexts, payload, invoked, ffi, taken>>

-----------------------------------------------------------------------------
Caller(c) == \/ Invoke(c) \/ NoBridge(c) \/ ReturnOk(c) \/ ReturnError(c)
             \/ Acquire(c) \/ TimeOut(c) \/ GiveUp(c)

Reply(c) == Take(c) \/ Resolve(c) \/ ReleaseBridge(c)

Done == (\A c \in Calls : stage[c] = "returned") /\ UNCHANGED vars

Next ==
  \/ \E c \in Calls : Register(c) \/ Caller(c) \/ StaleWarning(c) \/ Enter(c) \/ Reply(c)
  \/ Done

Spec == Init /\ [][Next]_vars

\* Every thread inside the module runs on; nothing makes the C side call back.
FairSpec == Spec /\ \A c \in Calls : WF_vars(Caller(c)) /\ WF_vars(Reply(c))

-----------------------------------------------------------------------------
(***************************************************************************)
(* Every variable has its type.                                            *)
(***************************************************************************)
TypeOK ==
  /\ stage \in [Calls -> {"idle", "registered", "dispatched", "waiting",
                          "refused", "expired", "returned"}]
  /\ key \in [Calls -> Addresses \cup {NoAddress}]
  /\ DOMAIN pendingContexts \subseteq Addresses
  /\ pendingContexts \in [DOMAIN pendingContexts -> Calls]
  /\ payload \in [Calls -> SUBSET Calls]
  /\ outcome \in [Calls -> {"none", "answered", "refused", "expired"}]
  /\ references \in [Calls -> 0 .. 2]
  /\ invoked \in [Calls -> BOOLEAN]
  /\ ffi \in [Calls -> {"none", "open", "closed"}]
  /\ callback \in [Calls -> {"none", "entered", "taken", "resolved", "done"}]
  /\ taken \in [Calls -> SUBSET Calls]

(***************************************************************************)
(* The bridge of a call counts the parties that will still touch it: the   *)
(* caller while the C function runs, and the callback that is owed or in   *)
(* progress.  So it is never used after it is deleted, never deleted       *)
(* twice, and gone once both are through, in whatever order they finish    *)
(* (api_call_handler.h 39-67, 91-110).                                     *)
(***************************************************************************)
BridgeCountsItsUsers ==
  \A c \in Calls :
    references[c] = (IF stage[c] = "dispatched" THEN 1 ELSE 0)
                  + (IF ffi[c] = "open" \/ callback[c] \in {"entered", "taken", "resolved"}
                     THEN 1 ELSE 0)

(***************************************************************************)
(* The pending map never holds the object of a call that has returned: a   *)
(* refused or timed-out call takes its entry with it (186-195), at the     *)
(* address where it registered it.                                         *)
(***************************************************************************)
NoEntryOutlivesItsCall ==
  \A a \in DOMAIN pendingContexts :
    key[pendingContexts[a]] = a /\ stage[pendingContexts[a]] \notin {"idle", "returned"}

(***************************************************************************)
(* The binary semaphore of a call is released at most once, and a waiter   *)
(* found by one callback cannot be found by another (167-182).             *)
(***************************************************************************)
ResolvedOnce ==
  \A c \in Calls :
    Cardinality(payload[c]) + Cardinality({d \in Calls : c \in taken[d]})
      + Cardinality({a \in DOMAIN pendingContexts : pendingContexts[a] = c}) <= 1

(***************************************************************************)
(* A call that reports success carries the answer to its own request: the  *)
(* request id of this send, the response of this query (header 155, 185).  *)
(***************************************************************************)
AnswersAreOwn == \A c \in Calls : outcome[c] = "answered" => payload[c] = {c}

(***************************************************************************)
(* The only answer a call can get besides its own is that of a call which  *)
(* is over, because it timed out or was itself given a wrong answer, at an *)
(* address where some call timed out: calls in flight together never       *)
(* answer each other, and without a timeout nobody gets a wrong answer,    *)
(* whatever addresses are used again (154-155, 186-195).                   *)
(***************************************************************************)
StrayAnswersFollowATimeout ==
  \A c, d \in Calls :
    d \in payload[c] /\ d # c
      => /\ stage[d] = "returned" /\ key[d] = key[c]
         /\ outcome[d] = "expired" \/ \E e \in payload[d] : e # d
         /\ \E e \in Calls : outcome[e] = "expired" /\ key[e] = key[c]

(***************************************************************************)
(* Every call returns, even if the C side never calls back (192-196).      *)
(***************************************************************************)
EveryCallReturns == \A c \in Calls : stage[c] = "registered" ~> stage[c] = "returned"
=============================================================================
