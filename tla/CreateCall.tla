----------------------------- MODULE CreateCall -----------------------------
(***************************************************************************)
(* Who owns the context that logosdelivery_ctx_create makes: the wait of   *)
(* createNodePrepared with its own map of pending calls, its CALLBACK_     *)
(* TIMEOUT, and the callback that finds the waiter gone.  Attempts follow  *)
(* one another under createNodeMutex; their callbacks come on FFI threads  *)
(* at any time.  A context is named by the attempt it was made for.        *)
(***************************************************************************)
EXTENDS FiniteSets, Integers

CONSTANTS
  Attempts,        \* calls of createNodePrepared that reach the FFI, numbered in that order
  Addresses,       \* where their CallbackContext objects can be
  NoAddress

ASSUME CreateCallAssumption ==
  /\ Attempts \subseteq Nat
  /\ NoAddress \notin Addresses

VARIABLES
  stage,            \* attempt: idle, dispatching, waiting, expired, returned
  key,              \* address of the attempt's CallbackContext
  pendingContexts,  \* pending map: address -> attempt
  answers,          \* attempts whose answer this attempt's object received
  outcome,          \* what createNode came to: created, failed, refused, timeout
  callback,         \* the callback owed for it: none, open, entered, taken, done
  ret,              \* that callback's callerRet is RET_OK
  context,          \* the one made for it: none, live, destroyed, undestroyed
  taken,            \* attempts whose object that callback took out of the map
  deliveryCtx       \* the context the module holds, if any

vars == <<stage, key, pendingContexts, answers, outcome, callback, ret, context,
          taken, deliveryCtx>>

Init ==
  /\ stage = [c \in Attempts |-> "idle"]
  /\ key = [c \in Attempts |-> NoAddress]
  /\ pendingContexts = [a \in {} |-> NoAddress]
  /\ answers = [c \in Attempts |-> {}]
  /\ outcome = [c \in Attempts |-> "none"]
  /\ callback = [c \in Attempts |-> "none"]
  /\ ret = [c \in Attempts |-> FALSE]
  /\ context = [c \in Attempts |-> "none"]
  /\ taken = [c \in Attempts |-> {}]
  /\ deliveryCtx = {}

CreateNodeFree == \A c \in Attempts : stage[c] \in {"idle", "returned"}

Alive(c) ==
  \/ stage[c] \notin {"idle", "returned"}
  \/ \E a \in DOMAIN pendingContexts : pendingContexts[a] = c
  \/ \E d \in Attempts : c \in taken[d]

\* The allocator may give out the address of a dead object again.
FreeAddresses == Addresses \ {key[c] : c \in {d \in Attempts : Alive(d)}}

Erase(a) ==
  pendingContexts' = [x \in DOMAIN pendingContexts \ {a} |-> pendingContexts[x]]

\* logosdelivery_destroy with its result discarded: the handle is freed and
\* nobody tries again, so a context it failed on stays undestroyed.
Destroy(cs, ok) ==
  context' = [c \in Attempts |->
                IF c \in cs THEN IF ok THEN "destroyed" ELSE "undestroyed" ELSE context[c]]

MadeBy(cs) == {c \in cs : context[c] # "none"}

-----------------------------------------------------------------------------
(***************************************************************************)
(* createNodePrepared.                                                     *)
(***************************************************************************)
Dispatch(c) ==
  /\ stage[c] = "idle" /\ deliveryCtx = {}
  /\ \A d \in Attempts : d < c => stage[d] = "returned"
  /\ \E a \in FreeAddresses :
       /\ key' = [key EXCEPT ![c] = a]
       /\ pendingContexts' = [x \in DOMAIN pendingContexts \cup {a} |->
                                IF x = a THEN c ELSE pendingContexts[x]]
  /\ stage' = [stage EXCEPT ![c] = "dispatching"]
  /\ callback' = [callback EXCEPT ![c] = "open"]
  /\ UNCHANGED <<answers, outcome, ret, context, taken, deliveryCtx>>

DispatchOk(c) ==
  /\ stage[c] = "dispatching"
  /\ stage' = [stage EXCEPT ![c] = "waiting"]
  /\ UNCHANGED <<key, pendingContexts, answers, outcome, callback, ret, context, taken,
                 deliveryCtx>>

\* The FFI refuses the call; its callback came before that, or never comes.
\* Nobody looks at what it brought.
DispatchFails(c) ==
  /\ stage[c] = "dispatching" /\ callback[c] \in {"open", "done"}
  /\ callback' = [callback EXCEPT ![c] = "done"]
  /\ Erase(key[c])
  /\ stage' = [stage EXCEPT ![c] = "returned"]
  /\ outcome' = [outcome EXCEPT ![c] = "refused"]
  /\ UNCHANGED <<key, answers, ret, context, taken, deliveryCtx>>

\* Mutant of Acquire: the context is not compared with nullptr.
AcquireUnchecked(c) ==
  /\ stage[c] = "waiting" /\ answers[c] # {}
  /\ LET ok == \A d \in answers[c] : ret[d]
     IN  /\ outcome' = [outcome EXCEPT ![c] = IF ok THEN "created" ELSE "failed"]
         /\ deliveryCtx' = IF ok THEN answers[c] ELSE {}
         /\ Destroy(IF ok THEN {} ELSE MadeBy(answers[c]), TRUE)
  /\ stage' = [stage EXCEPT ![c] = "returned"]
  /\ UNCHANGED <<key, pendingContexts, answers, callback, ret, taken>>

\* The semaphore was released: take the context, or destroy it with its error.
Acquire(c) ==
  /\ stage[c] = "waiting" /\ answers[c] # {}
  /\ LET made == MadeBy(answers[c])
         ok   == made # {} /\ \A d \in answers[c] : ret[d]
     IN  /\ outcome' = [outcome EXCEPT ![c] = IF ok THEN "created" ELSE "failed"]
         /\ deliveryCtx' = IF ok THEN made ELSE {}
         /\ \E destroyed \in BOOLEAN : Destroy(IF ok THEN {} ELSE made, destroyed)
  /\ stage' = [stage EXCEPT ![c] = "returned"]
  /\ UNCHANGED <<key, pendingContexts, answers, callback, ret, taken>>

\* Mutant of TimeOut: a wait without a timeout.
NeverTimesOut(c) == FALSE

TimeOut(c) ==
  /\ stage[c] = "waiting" /\ answers[c] = {}
  /\ stage' = [stage EXCEPT ![c] = "expired"]
  /\ UNCHANGED <<key, pendingContexts, answers, outcome, callback, ret, context, taken,
                 deliveryCtx>>

GiveUp(c) ==
  /\ stage[c] = "expired"
  /\ Erase(key[c])
  /\ stage' = [stage EXCEPT ![c] = "returned"]
  /\ outcome' = [outcome EXCEPT ![c] = "timeout"]
  /\ deliveryCtx' = {}
  /\ UNCHANGED <<key, answers, callback, ret, context, taken>>

\* destroyDeliveryContext, from a destroy or a failed listener registration.
\* When it fails the module keeps the context, and nothing changes here.
DestroyHeld ==
  /\ CreateNodeFree /\ deliveryCtx # {}
  /\ Destroy(deliveryCtx, TRUE)
  /\ deliveryCtx' = {}
  /\ UNCHANGED <<stage, key, pendingContexts, answers, outcome, callback, ret, taken>>

-----------------------------------------------------------------------------
(***************************************************************************)
(* The callback of attempt c: a context, an error, or both.                *)
(***************************************************************************)
Answer(c, ok, made) ==
  /\ callback[c] = "open"
  /\ callback' = [callback EXCEPT ![c] = "entered"]
  /\ ret' = [ret EXCEPT ![c] = ok]
  /\ context' = [context EXCEPT ![c] = IF made THEN "live" ELSE "none"]
  /\ UNCHANGED <<stage, key, pendingContexts, answers, outcome, taken, deliveryCtx>>

\* Mutant of TakeLate: the late callback returns without a look at the context.
TakeLateIgnores(c) ==
  /\ callback[c] = "entered" /\ key[c] \notin DOMAIN pendingContexts
  /\ callback' = [callback EXCEPT ![c] = "done"]
  /\ UNCHANGED <<stage, key, pendingContexts, answers, outcome, ret, context, taken, deliveryCtx>>

\* Nobody waits any more: the late context is destroyed where it arrives.
TakeLate(c) ==
  /\ callback[c] = "entered" /\ key[c] \notin DOMAIN pendingContexts
  /\ \E destroyed \in BOOLEAN : Destroy(MadeBy({c}), destroyed)
  /\ callback' = [callback EXCEPT ![c] = "done"]
  /\ UNCHANGED <<stage, key, pendingContexts, answers, outcome, ret, taken, deliveryCtx>>

\* Mutant of Take: whichever waiter is in the map is taken.
TakeAnyWaiter(c) ==
  /\ callback[c] = "entered"
  /\ \E a \in DOMAIN pendingContexts :
       /\ taken' = [taken EXCEPT ![c] = {pendingContexts[a]}]
       /\ Erase(a)
  /\ callback' = [callback EXCEPT ![c] = "taken"]
  /\ UNCHANGED <<stage, key, answers, outcome, ret, context, deliveryCtx>>

Take(c) ==
  /\ callback[c] = "entered" /\ key[c] \in DOMAIN pendingContexts
  /\ taken' = [taken EXCEPT ![c] = {pendingContexts[key[c]]}]
  /\ Erase(key[c])
  /\ callback' = [callback EXCEPT ![c] = "taken"]
  /\ UNCHANGED <<stage, key, answers, outcome, ret, context, deliveryCtx>>

Resolve(c) ==
  /\ callback[c] = "taken"
  /\ answers' = [d \in Attempts |-> IF d \in taken[c] THEN answers[d] \cup {c} ELSE answers[d]]
  /\ taken' = [taken EXCEPT ![c] = {}]
  /\ callback' = [callback EXCEPT ![c] = "done"]
  /\ UNCHANGED <<stage, key, pendingContexts, outcome, ret, context, deliveryCtx>>

-----------------------------------------------------------------------------
Waiter(c) == DispatchOk(c) \/ DispatchFails(c) \/ Acquire(c) \/ TimeOut(c) \/ GiveUp(c)
Reply(c) == TakeLate(c) \/ Take(c) \/ Resolve(c)

Done == (\A c \in Attempts : stage[c] = "returned") /\ UNCHANGED vars

Next ==
  \/ \E c \in Attempts :
       \/ Dispatch(c) \/ Waiter(c) \/ Reply(c)
       \/ \E ok, made \in BOOLEAN : Answer(c, ok, made)
  \/ DestroyHeld
  \/ Done

Spec == Init /\ [][Next]_vars

\* Threads inside the module run on; the FFI may never answer.
FairSpec == Spec /\ \A c \in Attempts : WF_vars(Waiter(c)) /\ WF_vars(Reply(c))

-----------------------------------------------------------------------------
(***************************************************************************)
(* A context has at most one owner at a time, its callback, the waiter it  *)
(* was handed to, or the module, and no destroy was tried on one that has  *)
(* an owner: it is not used after, nor given to destroy a second time      *)
(* (cpp 1103-1129, 1164-1185, 356-371).                                    *)
(***************************************************************************)
OwnersExcludeEachOther ==
  \A c \in Attempts :
    /\ Cardinality({d \in Attempts : c \in answers[d] /\ stage[d] # "returned"})
         + (IF callback[c] \in {"entered", "taken"} THEN 1 ELSE 0)
         + (IF c \in deliveryCtx THEN 1 ELSE 0) <= 1
    /\ c \in deliveryCtx => context[c] = "live"
    /\ callback[c] \in {"entered", "taken"} => context[c] \in {"none", "live"}

Exists(c) == context[c] \in {"live", "undestroyed"}

Owned(c) ==
  \/ callback[c] \in {"entered", "taken"}
  \/ \E d \in Attempts : c \in answers[d] /\ stage[d] # "returned"
  \/ c \in deliveryCtx

\* Attempt d ended without a look at what its object had received.
Unseen(d) == outcome[d] \in {"timeout", "refused"}

(***************************************************************************)
(* A context that exists and has no owner got there in one of three ways:  *)
(* its one destroy failed and the result was discarded, and then createNode*)
(* reported no success with it; or it came in for an attempt that timed    *)
(* out, or for one whose dispatch was refused.  No other order of          *)
(* timeouts, callbacks and destroys loses one (cpp 1104-1116, 1133-1161,   *)
(* 1164-1178).                                                             *)
(***************************************************************************)
LostOnlyByGivingUp ==
  \A c \in Attempts :
    Exists(c) /\ ~Owned(c)
      => \/ context[c] = "undestroyed" /\ \A d \in Attempts : c \in answers[d] => outcome[d] = "failed"
         \/ context[c] = "live" /\ \E d \in Attempts : c \in answers[d] /\ Unseen(d)

(***************************************************************************)
(* A context reaches another attempt than its own only at the address they *)
(* share, once its own attempt timed out or was itself answered by such a  *)
(* stray, and after some attempt at that address timed out: without        *)
(* timeouts createNode never returns true for a configuration it was not   *)
(* called with (cpp 1086-1092, 1104-1116).                                 *)
(***************************************************************************)
StrayContextsFollowATimeout ==
  \A c, d \in Attempts :
    d \in answers[c] /\ d # c
      => /\ stage[d] = "returned" /\ key[d] = key[c]
         /\ outcome[d] = "timeout" \/ \E e \in answers[d] : e # d
         /\ \E e \in Attempts : outcome[e] = "timeout" /\ key[e] = key[c]

(***************************************************************************)
(* createNode returns even if the FFI never calls back (cpp 1149).         *)
(***************************************************************************)
CreateReturns == \A c \in Attempts : stage[c] = "dispatching" ~> stage[c] = "returned"

(***************************************************************************)
(* Every context a callback brings comes to an end the code can account    *)
(* for: a destroy was tried on it, which may have failed, the module has   *)
(* it, or it is with an attempt that gave up (cpp 1104-1185).              *)
(***************************************************************************)
ContextsComeToRest ==
  \A c \in Attempts :
    callback[c] = "entered" ~>
      \/ context[c] # "live" \/ c \in deliveryCtx
      \/ \E d \in Attempts : c \in answers[d] /\ Unseen(d)
=============================================================================
