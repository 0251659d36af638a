----------------------------- MODULE ApiWrappers -----------------------------
(***************************************************************************)
(* The methods that pass a call on to liblogosdelivery and wait for its    *)
(* callback, as ApiCall has it: what they ask before, how long they wait,  *)
(* and what they make of the outcome.  Times are in milliseconds.          *)
(***************************************************************************)
EXTENDS Integers

CONSTANTS
  CallbackTimeout,   \* CALLBACK_TIMEOUT, in seconds
  IntMax             \* INT_MAX

ASSUME WrappersAssumption == CallbackTimeout \in Nat /\ IntMax \in Nat \ {0}

Wrappers ==
  {"send", "subscribe", "unsubscribe", "storeQuery", "getConnectedPeersInfo", "channelCreate",
   "channelExists", "channelSend", "channelClose", "getAvailableNodeInfoIDs", "getNodeInfo",
   "getAvailableConfigs", "collectOpenMetricsText"}

\* static_cast<int>
AsInt(n) == ((n + IntMax + 1) % (2 * IntMax + 2)) - IntMax - 1

\* What storeQuery asks of its arguments before it hands them on.
IsQuery(query) ==
  /\ query.json # "" /\ query.peer # ""
  /\ query.timeoutMs > 0 /\ query.timeoutMs <= IntMax

\* Mutant of QuerySeconds: the query's own time, and not a moment longer.
QuerySecondsOnly(timeoutMs) ==
  IF timeoutMs \div 1000 > CallbackTimeout THEN timeoutMs \div 1000 ELSE CallbackTimeout

QuerySeconds(timeoutMs) ==
  IF timeoutMs \div 1000 + 5 > CallbackTimeout THEN timeoutMs \div 1000 + 5 ELSE CallbackTimeout

Seconds(wrapper, query) ==
  IF wrapper = "storeQuery" THEN QuerySeconds(query.timeoutMs) ELSE CallbackTimeout

Fails == [success |-> FALSE, isText |-> FALSE, text |-> ""]

\* The call liblogosdelivery gets, if it gets one.
Forwards(wrapper, context, query) == context /\ (wrapper = "storeQuery" => IsQuery(query))
FfiTimeout(query) == AsInt(query.timeoutMs)

\* What the host gets when the call, if there is one, ends in outcome: a scrape
\* of the metrics never fails, and has text or nothing.
Returns(wrapper, context, query, outcome) ==
  LET called == IF Forwards(wrapper, context, query) THEN outcome ELSE Fails
  IN  IF wrapper = "collectOpenMetricsText"
      THEN [success |-> TRUE,
            text |-> IF called.success /\ called.isText THEN called.text ELSE ""]
      ELSE called
=============================================================================
