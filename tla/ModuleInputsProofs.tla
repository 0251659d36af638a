------------------------- MODULE ModuleInputsProofs -------------------------
(***************************************************************************)
(* Theorems about what crosses the module's border, for all requests,      *)
(* configurations and queries that have the types of InputsAssumption:     *)
(*   - an admitted request is usable as it is;                             *)
(*   - defaults only fill a configuration, and only once;                  *)
(*   - a store query is answered before the module stops waiting;          *)
(*   - an array of bytes arrives whole or not at all;                      *)
(*   - well-formed base64 arrives whole, any other text up to its fault;   *)
(*   - a message's time is as near the sender's as a double is.            *)
(***************************************************************************)
EXTENDS ModuleInputs, FiniteSetTheorems, TLAPS

\* Nothing but these functions makes the results.
Computed ==
  /\ entry = "nodeAction" => input \in RawRequests /\ result = nodeActionScreens(input)
  /\ entry = "createNode" => /\ input.cfg \in Configs
                             /\ input.persistent \in BOOLEAN
                             /\ result = applyConfigDefaults(input.cfg, input.persistent)
  /\ entry = "storeQuery" => input.query \in Queries
  /\ entry = "event_callback" => input \in Events /\ result \in event_callback(input)

LEMMA ComputedAlways == Spec => []Computed
<1>1. Init => Computed
  BY DEF Init, Computed
<1>2. Computed /\ [Next]_vars => Computed'
  <2> SUFFICES ASSUME Computed, [Next]_vars PROVE Computed'
    OBVIOUS
  <2>1. CASE Requested
    BY <2>1 DEF Requested, Crosses, Computed
  <2>2. CASE Configured
    BY <2>2 DEF Configured, Crosses, Computed
  <2>3. CASE Called
    BY <2>3 DEF Called, Crosses, Computed, Wrappers
  <2>4. CASE Notified
    BY <2>4 DEF Notified, Crosses, Computed
  <2>5. CASE Done
    BY <2>5 DEF Done, Computed
  <2>6. CASE UNCHANGED vars
    BY <2>6 DEF vars, Computed
  <2> QED
    BY <2>1, <2>2, <2>3, <2>4, <2>5, <2>6 DEF Next
<1> QED
  BY <1>1, <1>2, PTL DEF Spec

-----------------------------------------------------------------------------
(***************************************************************************)
(* Requests.                                                               *)
(***************************************************************************)
LEMMA Usable ==
  ASSUME NEW request \in RawRequests, nodeActionScreens(request).accepted
  PROVE  LET command == nodeActionScreens(request).command
         IN  /\ command.operation_id.bytes # <<>>
             /\ Present(command.expected) =>
                  command.expected.epoch.number >= 0 /\ command.expected.sequence.number >= 0
             /\ Present(command.parameters) /\ command.parameters.keys # {} =>
                  /\ command.action.text = "initialize"
                  /\ ~command.parameters.config.nul
                  /\ command.parameters.config.size <= MaxConfigBytes
<1> DEFINE command == request.input
<1>1. IsCommand(command) /\ nodeActionScreens(request).command = command
  BY DEF nodeActionScreens, Rejected
<1>2. command.operation_id.bytes # <<>>
  <2>1. Len(command.operation_id.bytes) \in 1 .. MaxOperationIdBytes
    BY <1>1 DEF IsCommand, IsOperationId
  <2>2. Len(<<>>) = 0
    OBVIOUS
  <2> QED
    BY <2>1, <2>2, RequestsAssumption
<1>3. Present(command.expected) =>
        command.expected.epoch.number >= 0 /\ command.expected.sequence.number >= 0
  BY <1>1, InputsAssumption DEF IsCommand, IsSnapshot, IsUnsigned, CountsUp
<1>4. Present(command.parameters) /\ command.parameters.keys # {} =>
        /\ command.action.text = "initialize"
        /\ ~command.parameters.config.nul
        /\ command.parameters.config.size <= MaxConfigBytes
  BY <1>1 DEF IsCommand, FitsAction, IsConfig
<1> QED
  BY <1>1, <1>2, <1>3, <1>4

(***************************************************************************)
(* beginLifecycleAction gets no empty operation id, no negative number of a*)
(* snapshot and no configuration it could not pass on, whatever the limits *)
(* and whatever a host sends to nodeAction (cpp 1416-1528).                *)
(***************************************************************************)
THEOREM CommandsUsable == Spec => []CommandsAreUsable
<1>1. Computed => CommandsAreUsable
  BY Usable DEF Computed, CommandsAreUsable
<1> QED
  BY <1>1, ComputedAlways, PTL

-----------------------------------------------------------------------------
(***************************************************************************)
(* Store queries.                                                          *)
(***************************************************************************)
LEMMA SmallIsItself ==
  ASSUME NEW a \in Nat, NEW b \in Nat, a < b
  PROVE  a % b = a
  BY SMT

LEMMA SmallCast == ASSUME NEW n \in Int, n > 0, n <= IntMax PROVE AsInt(n) = n
<1>1. /\ n + IntMax + 1 \in Nat /\ 2 * IntMax + 2 \in Nat
      /\ n + IntMax + 1 < 2 * IntMax + 2
  BY WrappersAssumption
<1>2. (n + IntMax + 1) % (2 * IntMax + 2) = n + IntMax + 1
  BY <1>1, SmallIsItself
<1> QED
  BY <1>1, <1>2, WrappersAssumption DEF AsInt

LEMMA Longer == ASSUME NEW n \in Nat PROVE QuerySeconds(n) * 1000 > n
<1>1. n \div 1000 \in Nat /\ (n \div 1000 + 1) * 1000 > n
  OBVIOUS
<1> QED
  BY <1>1, WrappersAssumption DEF QuerySeconds

(***************************************************************************)
(* For every INT_MAX and CALLBACK_TIMEOUT a query that storeQuery lets     *)
(* through keeps its time in the cast to int, and the module waits longer  *)
(* than that (cpp 1651-1665).                                              *)
(***************************************************************************)
THEOREM QueriesAnswered == Spec => []QueriesAreAnswered
<1>1. Computed => QueriesAreAnswered
  <2> SUFFICES ASSUME Computed, entry = "storeQuery",
                      Forwards(entry, input.context, input.query)
               PROVE  /\ FfiTimeout(input.query) = input.query.timeoutMs
                      /\ Seconds(entry, input.query) * 1000 > input.query.timeoutMs
    BY DEF QueriesAreAnswered
  <2>1. /\ input.query.timeoutMs \in Int
        /\ input.query.timeoutMs > 0 /\ input.query.timeoutMs <= IntMax
    BY InputsAssumption DEF Computed, Forwards, IsQuery
  <2> QED
    BY <2>1, SmallCast, Longer DEF FfiTimeout, Seconds
<1> QED
  BY <1>1, ComputedAlways, PTL

-----------------------------------------------------------------------------
(***************************************************************************)
(* Configurations.                                                         *)
(***************************************************************************)
LEMMA Found ==
  ASSUME NEW object, DOMAIN object \subseteq Keys, NEW field, Spelled(object, field) # {}
  PROVE  FindKey(object, field) \in Spelled(object, field)
<1> DEFINE S == Spelled(object, field)
<1>1. \A key \in S : key.spelling \in 1 .. 4
  BY DEF Spelled, Keys, Spellings, Upper, Lower
<1>2. \E key \in S : \A other \in S : key.spelling <= other.spelling
  <2> HIDE DEF S
  <2>1. CASE \E key \in S : key.spelling = 1
    BY <1>1, <2>1
  <2>2. CASE (\E key \in S : key.spelling = 2) /\ ~(\E key \in S : key.spelling = 1)
    BY <1>1, <2>2
  <2>3. CASE (\E key \in S : key.spelling = 3) /\ ~(\E key \in S : key.spelling \in {1, 2})
    BY <1>1, <2>3
  <2>4. CASE \A key \in S : key.spelling = 4
    BY <2>4 DEF S
  <2> QED
    BY <1>1, <2>1, <2>2, <2>3, <2>4
<1> QED
  BY <1>2 DEF FindKey

LEMMA FillFills ==
  ASSUME NEW object, IsMembers(object), NEW persistent \in BOOLEAN
  PROVE  /\ FilledOnce(object, Fill(object, persistent))
         /\ IsMembers(Fill(object, persistent))
         /\ Fill(Fill(object, persistent), persistent) = Fill(object, persistent)
<1> DEFINE filled == Fill(object, persistent)
           added == Defaults(object, persistent)
<1>1. DOMAIN filled = DOMAIN object \cup added
  BY DEF Fill
<1>2. \A key \in added :
        /\ key \in Keys /\ key.field \in Ports \cup {Storage} /\ key = Key(key.field)
        /\ Spelled(object, key.field) = {}
  BY DEF Defaults, Key, Keys, Spellings, Upper, Camel, Lower
<1>3. \A key \in DOMAIN object : filled[key] = object[key]
  BY DEF Fill
<1>4. IsMembers(filled)
  BY <1>1, <1>2 DEF IsMembers, Fill
<1>5. \A other \in Keys : other.field \in Ports \cup {Storage} =>
        other.spelling \in AcceptedSpellings(other.field)
  BY DEF Keys, AcceptedSpellings, Layered, Ports, Storage
<1>6. AddsUnnamed(object, filled)
  <2> SUFFICES ASSUME NEW key \in added, NEW other \in DOMAIN object \cup added,
                      other.field = key.field
               PROVE  key.field \in Ports \cup {Storage} /\ other = key
    BY <1>1 DEF AddsUnnamed
  <2>1. other \notin DOMAIN object
    BY <1>2, <1>5 DEF Spelled, IsMembers
  <2> QED
    BY <1>2, <2>1
<1>7. NamesEveryPort(filled)
  <2> SUFFICES ASSUME NEW p \in Ports PROVE \E key \in DOMAIN filled : key.field = p
    BY DEF NamesEveryPort
  <2>1. CASE Spelled(object, p) = {}
    <3>1. Key(p) \in added /\ Key(p).field = p
      BY <2>1 DEF Defaults, Key
    <3> QED
      BY <1>1, <3>1
  <2>2. CASE Spelled(object, p) # {}
    BY <1>1, <2>2 DEF Spelled
  <2> QED
    BY <2>1, <2>2
<1>8. Defaults(filled, persistent) = {}
  <2>1. \A p \in Ports \cup {Storage} : Key(p) \in added => Key(p) \in Spelled(filled, p)
    BY <1>1, <1>2, <1>5 DEF Spelled, Key
  <2>2. \A p : Spelled(object, p) \subseteq Spelled(filled, p)
    BY <1>1 DEF Spelled
  <2> QED
    BY <2>1, <2>2 DEF Defaults
<1>9. Fill(filled, persistent) = filled
  BY <1>4, <1>8 DEF Fill, IsMembers
<1> QED
  BY <1>1, <1>3, <1>4, <1>6, <1>7, <1>9 DEF FilledOnce, Keeps

\* Which object is filled depends on the layered keys only, which stay.
LEMMA SameKey ==
  ASSUME NEW object, NEW other, NEW field, Spelled(object, field) = Spelled(other, field)
  PROVE  FindKey(object, field) = FindKey(other, field)
  BY DEF FindKey

LEMMA Unreplaced ==
  ASSUME NEW f, NEW k, f = [x \in DOMAIN f |-> f[x]]
  PROVE  [x \in DOMAIN f |-> IF x = k THEN f[k] ELSE f[x]] = f
<1>1. [x \in DOMAIN f |-> IF x = k THEN f[k] ELSE f[x]] = [x \in DOMAIN f |-> f[x]]
  BY SMT
<1> QED
  BY <1>1

LEMMA Rebuilt ==
  ASSUME NEW D, NEW g, NEW k, NEW v, NEW f, f = [x \in D |-> IF x = k THEN v ELSE g[x]]
  PROVE  f = [x \in DOMAIN f |-> f[x]]
  BY SMT

LEMMA Inside ==
  ASSUME NEW cfg, NEW persistent \in BOOLEAN, IsObject(cfg), WellFormed(cfg),
         \A key \in DOMAIN cfg.members : WellFormed(cfg.members[key]),
         HasKernelConf(cfg.members)
  PROVE  \E key \in DOMAIN cfg.members :
           LET before == cfg.members
               after == applyConfigDefaults(cfg, persistent).members
           IN  /\ key.field = "kernelConf" /\ IsObject(before[key])
               /\ DOMAIN after = DOMAIN before
               /\ FilledOnce(before[key].members, after[key].members)
               /\ \A other \in DOMAIN before \ {key} : after[other] = before[other]
               /\ after[key].members = before[key].members => after = before
               /\ applyConfigDefaults(applyConfigDefaults(cfg, persistent), persistent)
                    = applyConfigDefaults(cfg, persistent)
<1> DEFINE before == cfg.members
           key == FindKey(before, "kernelConf")
           filled == Fill(before[key].members, persistent)
           output == applyConfigDefaults(cfg, persistent)
           after == output.members
<1>1. IsMembers(before) /\ cfg = [type |-> "object", members |-> before]
  BY DEF WellFormed
<1>2. key \in DOMAIN before /\ key.field = "kernelConf" /\ IsObject(before[key])
  BY <1>1, Found DEF HasKernelConf, IsMembers, Spelled
<1>3. before[key] = [type |-> "object", members |-> before[key].members]
      /\ IsMembers(before[key].members)
  BY <1>2 DEF WellFormed
<1>4. output = [cfg EXCEPT !.members[key].members = Fill(@, persistent)]
  BY DEF applyConfigDefaults
<1>5. output = [type |-> "object", members |-> after] /\ DOMAIN after = DOMAIN before
      /\ after[key] = [type |-> "object", members |-> filled]
      /\ \A other \in DOMAIN before \ {key} : after[other] = before[other]
  <2> HIDE DEF key
  <2> QED BY <1>1, <1>2, <1>3, <1>4 DEF IsMembers
<1>6. after = [k \in DOMAIN before |-> IF k = key THEN after[key] ELSE before[k]]
  <2> HIDE DEF key
  <2> QED BY <1>1, <1>2, <1>3, <1>4 DEF IsMembers
<1>7. /\ FilledOnce(before[key].members, filled)
      /\ Fill(filled, persistent) = filled
  BY <1>3, FillFills
<1>8. after[key].members = before[key].members => after = before
  <2> SUFFICES ASSUME after[key].members = before[key].members PROVE after = before
    OBVIOUS
  <2> HIDE DEF key, output
  <2>1. after[key] = before[key]
    BY <1>3, <1>5
  <2>2. after = [k \in DOMAIN before |-> IF k = key THEN before[key] ELSE before[k]]
    BY <1>6, <2>1
  <2>3. before = [k \in DOMAIN before |-> before[k]]
    BY <1>1 DEF IsMembers
  <2> QED BY <2>2, <2>3, Unreplaced
<1>9. applyConfigDefaults(output, persistent) = output
  <2>1. FindKey(after, "kernelConf") = key
    <3>1. Spelled(after, "kernelConf") = Spelled(before, "kernelConf")
      BY <1>5 DEF Spelled
    <3> QED BY <3>1, SameKey
  <2>2. IsObject(output) /\ HasKernelConf(after)
    <3>1. Spelled(after, "kernelConf") = Spelled(before, "kernelConf")
      BY <1>5 DEF Spelled
    <3> QED BY <1>5, <2>1, <3>1 DEF HasKernelConf, IsObject
  <2>3. applyConfigDefaults(output, persistent)
          = [output EXCEPT !.members[key].members = Fill(@, persistent)]
    BY <2>1, <2>2 DEF applyConfigDefaults
  <2>4. [output EXCEPT !.members[key].members = Fill(@, persistent)] = output
    <3> HIDE DEF key, output, filled
    <3>1. [after[key] EXCEPT !.members = Fill(@, persistent)] = after[key]
      BY <1>5, <1>7
    <3>2. [after EXCEPT ![key].members = Fill(@, persistent)] = after
      <4> DEFINE whole == after
      <4>1. whole = [k \in DOMAIN before |-> IF k = key THEN whole[key] ELSE before[k]]
        BY <1>6
      <4> HIDE DEF whole
      <4>2. whole = [k \in DOMAIN whole |-> whole[k]]
        BY <4>1, Rebuilt
      <4>3. [whole EXCEPT ![key].members = Fill(@, persistent)]
              = [k \in DOMAIN whole |-> IF k = key THEN whole[key] ELSE whole[k]]
        BY <3>1 DEF whole
      <4>4. [whole EXCEPT ![key].members = Fill(@, persistent)] = whole
        BY <4>2, <4>3, Unreplaced
      <4> QED BY <4>4 DEF whole
    <3> QED BY <1>5, <3>2
  <2> QED BY <2>3, <2>4
<1> HIDE DEF key, output
<1>10. FilledOnce(before[key].members, after[key].members)
  BY <1>5, <1>7
<1> QED
  BY <1>2, <1>5, <1>8, <1>9, <1>10 DEF output

LEMMA Flat ==
  ASSUME NEW cfg, NEW persistent \in BOOLEAN, IsObject(cfg), WellFormed(cfg),
         ~HasKernelConf(cfg.members)
  PROVE  LET before == cfg.members
             after == applyConfigDefaults(cfg, persistent).members
         IN  /\ FilledOnce(before, after)
             /\ applyConfigDefaults(applyConfigDefaults(cfg, persistent), persistent)
                  = applyConfigDefaults(cfg, persistent)
<1> DEFINE before == cfg.members
           output == applyConfigDefaults(cfg, persistent)
           after == Fill(before, persistent)
<1>1. IsMembers(before) /\ cfg = [type |-> "object", members |-> before]
  BY DEF WellFormed
<1>2. /\ FilledOnce(before, after) /\ IsMembers(after)
      /\ Fill(after, persistent) = after
  BY <1>1, FillFills
<1>3. CASE ~KernelEntry(before) /\ IsFlatShape(before)
  <2>1. output = [type |-> "object", members |-> after]
    BY <1>1, <1>3 DEF applyConfigDefaults
  <2>2. \A field \in Layered : Spelled(after, field) = Spelled(before, field)
    BY DEF Spelled, Fill, Defaults, Key, Layered, Ports, Storage
  <2>3. /\ Spelled(after, "kernelConf") = Spelled(before, "kernelConf")
        /\ Spelled(after, "entryLayer") = Spelled(before, "entryLayer")
    BY <2>2 DEF Layered
  <2>4. \A field \in {"kernelConf", "entryLayer"} : Spelled(before, field) # {} =>
          /\ FindKey(after, field) = FindKey(before, field)
          /\ after[FindKey(after, field)] = before[FindKey(before, field)]
    <3> SUFFICES ASSUME NEW field \in {"kernelConf", "entryLayer"}, Spelled(before, field) # {}
                 PROVE  /\ FindKey(after, field) = FindKey(before, field)
                        /\ after[FindKey(after, field)] = before[FindKey(before, field)]
      OBVIOUS
    <3>1. FindKey(after, field) = FindKey(before, field)
      BY <2>3, SameKey
    <3>2. FindKey(before, field) \in DOMAIN before
      BY <1>1, Found DEF IsMembers, Spelled
    <3> QED
      BY <3>1, <3>2 DEF Fill
  <2>5. ~HasKernelConf(after) /\ ~KernelEntry(after)
    BY <1>3, <2>3, <2>4 DEF HasKernelConf, KernelEntry
  <2>6. IsFlatShape(after)
    BY <1>3 DEF IsFlatShape, Spelled, Fill
  <2>7. applyConfigDefaults(output, persistent) = [type |-> "object", members |-> after]
    BY <1>2, <2>1, <2>5, <2>6 DEF applyConfigDefaults, IsObject
  <2> QED
    BY <1>2, <2>1, <2>7
<1>4. CASE ~(~KernelEntry(before) /\ IsFlatShape(before))
  <2>1. output = cfg
    BY <1>4 DEF applyConfigDefaults
  <2>2. FilledOnce(before, before)
    BY DEF FilledOnce, Keeps, AddsUnnamed
  <2> QED
    BY <2>1, <2>2
<1> QED
  BY <1>3, <1>4

(***************************************************************************)
(* For every configuration, in every spelling and layering, createNode     *)
(* passes on what the host gave, adds only what it named nowhere, and adds *)
(* nothing to a configuration that went through before (cpp 535-626).      *)
(***************************************************************************)
THEOREM DefaultsFill == Spec => []DefaultsOnlyFill
<1>1. Computed => DefaultsOnlyFill
  <2> SUFFICES ASSUME Computed, entry = "createNode", IsObject(input.cfg) PROVE DefaultsOnlyFill
    BY DEF DefaultsOnlyFill
  <2> DEFINE cfg == input.cfg
             before == cfg.members
             after == result.members
             inside == {key \in DOMAIN before : IsObject(before[key]) /\ after[key] # before[key]}
  <2>1. /\ result = applyConfigDefaults(cfg, input.persistent) /\ input.persistent \in BOOLEAN
        /\ WellFormed(cfg) /\ \A key \in DOMAIN before : WellFormed(before[key])
    BY InputsAssumption DEF Computed
  <2>2. applyConfigDefaults(result, input.persistent) = result
    BY <2>1, Inside, Flat
  <2>3. CASE HasKernelConf(before)
    <3>1. PICK key \in DOMAIN before :
            /\ key.field = "kernelConf" /\ IsObject(before[key])
            /\ DOMAIN after = DOMAIN before
            /\ FilledOnce(before[key].members, after[key].members)
            /\ \A other \in DOMAIN before \ {key} : after[other] = before[other]
            /\ after[key].members = before[key].members => after = before
      BY <2>1, <2>3, Inside
    <3>2. CASE after[key] = before[key]
      <4>1. after = before /\ inside = {}
        BY <3>1, <3>2
      <4>2. FilledOnce(before, after)
        BY <4>1 DEF FilledOnce, Keeps, AddsUnnamed
      <4> QED
        BY <2>2, <4>1, <4>2 DEF DefaultsOnlyFill
    <3>3. CASE after[key] # before[key]
      <4>1. inside = {key}
        BY <3>1, <3>3
      <4> QED
        BY <2>2, <3>1, <4>1 DEF DefaultsOnlyFill
    <3> QED
      BY <3>2, <3>3
  <2>4. CASE ~HasKernelConf(before)
    <3>1. FilledOnce(before, after)
      BY <2>1, <2>4, Flat
    <3>2. inside = {}
      BY <3>1 DEF FilledOnce, Keeps
    <3> QED
      BY <2>2, <3>1, <3>2 DEF DefaultsOnlyFill
  <2> QED
    BY <2>3, <2>4
<1> QED
  BY <1>1, ComputedAlways, PTL

-----------------------------------------------------------------------------
(***************************************************************************)
(* Events.                                                                 *)
(***************************************************************************)
LEMMA LargeWraps ==
  ASSUME NEW a \in Nat, NEW b \in Nat, b <= a, a < 2 * b
  PROVE  a % b = a - b
  BY SMT

\* A JSON integer that is a byte as a std::int64_t is that byte.
LEMMA ByteIsItself ==
  ASSUME NEW n \in JsonIntegers, AsInt64(n) \in Nat
  PROVE  AsInt64(n) = n
<1> DEFINE half == 2 ^ (Width - 1)
           full == 2 ^ Width
<1>1. half \in Nat /\ full = 2 * half /\ full \in Nat /\ n \in Int /\ -half <= n /\ n < full
  <2>1. Width - 1 \in 0 .. Width /\ (Width - 1) + 1 = Width
    BY DecodingAssumption
  <2>2. half \in Nat \ {0} /\ full = 2 * half
    BY <2>1, PowersOfTwo
  <2> QED
    BY <2>2 DEF JsonIntegers
<1>2. AsInt64(n) = ((n + half) % full) - half
  BY DEF AsInt64
<1> HIDE DEF half, full
<1>3. CASE n + half < full
  <2>1. (n + half) % full = n + half
    BY <1>1, <1>3, SmallIsItself
  <2> QED
    BY <1>1, <1>2, <2>1
<1>4. CASE n + half >= full
  <2>1. (n + half) % full = n + half - full
    <3>1. PICK a \in Nat : a = n + half
      BY <1>1, <1>4
    <3>2. full <= a /\ a < 2 * full
      BY <1>1, <1>4, <3>1
    <3>3. a % full = a - full
      BY <1>1, <3>2, LargeWraps
    <3>4. (n + half) % full = a - full
      BY <3>1, <3>3, Zenon
    <3> QED
      BY <1>1, <3>1, <3>4
  <2> QED
    BY <1>1, <1>2, <2>1
<1> QED
  BY <1>1, <1>3, <1>4

\* A set of numbers has a least one: of the intervals up to them none is
\* within all others but the shortest.
LEMMA LeastNumber ==
  ASSUME NEW limit \in Nat, NEW T \in SUBSET (0 .. limit), T # {}
  PROVE  \E e \in T : \A d \in T : e <= d
<1> DEFINE all == 0 .. limit
           upTo == {0 .. e : e \in T}
<1>1. IsFiniteSet(all)
  BY FS_Interval
<1>2. upTo \subseteq FiniteSubsetsOf(all) /\ upTo # {}
  <2>1. \A e \in T : (0 .. e) \in SUBSET all
    OBVIOUS
  <2>2. FiniteSubsetsOf(all) = SUBSET all
    BY <1>1, FS_FiniteSubsetsOfFinite
  <2>3. \A part \in upTo : part \in FiniteSubsetsOf(all)
    BY <2>1, <2>2
  <2>4. upTo # {}
    OBVIOUS
  <2> QED
    BY <2>3, <2>4
<1>3. IsWellFoundedOn(StrictSubsetOrdering(all), FiniteSubsetsOf(all))
  BY FS_StrictSubsetOrderingWellFounded
<1>4. PICK least \in upTo : \A other \in upTo : <<other, least>> \notin StrictSubsetOrdering(all)
  BY <1>2, <1>3, WFMin
<1>5. PICK e \in T : least = 0 .. e
  OBVIOUS
<1>6. ASSUME NEW d \in T, d < e PROVE FALSE
  <2>1. 0 .. d \subseteq 0 .. e /\ 0 .. d # 0 .. e /\ 0 .. d \subseteq all /\ 0 .. e \subseteq all
    <3>1. d \in Nat /\ e \in Nat /\ e \in 0 .. e /\ e \notin 0 .. d
      BY <1>6
    <3> QED
      BY <1>6, <3>1
  <2>2. <<0 .. d, 0 .. e>> \in StrictSubsetOrdering(all)
    BY <2>1 DEF StrictSubsetOrdering
  <2> QED
    BY <1>4, <1>5, <2>2
<1> QED
  BY <1>6

\* A JSON integer has a spacing of doubles.
LEMMA Spaced ==
  ASSUME NEW n \in JsonIntegers
  PROVE  \/ Ulp(n) = 1
         \/ \E h \in Nat \ {0} : Ulp(n) = 2 * h /\ h * 2 ^ MantissaBits <= Magnitude(n)
<1> DEFINE mantissa == 2 ^ MantissaBits
           Fits(e) == Magnitude(n) < 2 ^ e * mantissa
           T == {e \in 0 .. Width : Fits(e)}
<1>1. Width \in Nat /\ mantissa \in Nat \ {0} /\ Magnitude(n) \in Nat /\ Magnitude(n) < 2 ^ Width
  <2>1. Width - 1 \in 0 .. Width /\ (Width - 1) + 1 = Width /\ Width \in 0 .. Width /\ MantissaBits \in 0 .. Width
    BY DecodingAssumption
  <2>2. 2 ^ (Width - 1) \in Nat \ {0} /\ 2 ^ Width = 2 * 2 ^ (Width - 1) /\ mantissa \in Nat \ {0}
    BY <2>1, PowersOfTwo
  <2> QED
    BY <2>1, <2>2 DEF JsonIntegers, Magnitude
<1>2. Width \in T
  <2>1. 2 ^ Width \in Nat /\ 2 ^ Width <= 2 ^ Width * mantissa /\ 2 ^ Width * mantissa \in Nat
    <3>1. 2 ^ Width \in Nat
      BY <1>1, PowersOfTwo
    <3>2. \A k \in Nat : k <= k * mantissa /\ k * mantissa \in Nat
      BY <1>1
    <3> QED
      BY <3>1, <3>2
  <2> QED
    BY <1>1, <2>1
<1>3. PICK e \in T : \A d \in T : e <= d
  BY <1>1, <1>2, LeastNumber
<1> DEFINE IsSpacing(u) ==
             Magnitude(n) < u * mantissa /\ (u > 1 => Magnitude(n) >= (u \div 2) * mantissa)
<1>4. ASSUME NEW d \in 0 .. Width
      PROVE  2 ^ d = 1 \/ \E h \in Nat \ {0} : h = 2 ^ (d - 1) /\ 2 ^ d = 2 * h /\ 2 ^ d \div 2 = h /\ d > 0
  <2>1. CASE d = 0
    <3>1. 2 ^ 0 = 1
      OBVIOUS
    <3> QED
      BY <2>1, <3>1
  <2>2. CASE d # 0
    <3>1. d - 1 \in 0 .. Width /\ (d - 1) + 1 = d
      BY <1>1, <2>2
    <3>2. 2 ^ (d - 1) \in Nat \ {0} /\ 2 ^ d = 2 * 2 ^ (d - 1)
      BY <3>1, PowersOfTwo
    <3>3. \A h \in Nat : (2 * h) \div 2 = h
      OBVIOUS
    <3> QED
      BY <1>1, <2>2, <3>2, <3>3
  <2> QED
    BY <2>1, <2>2
<1>5. IsSpacing(2 ^ e)
  <2>1. Magnitude(n) < 2 ^ e * mantissa /\ e \in 0 .. Width
    OBVIOUS
  <2>2. ASSUME NEW h \in Nat \ {0}, h = 2 ^ (e - 1), 2 ^ e \div 2 = h, e > 0
        PROVE  Magnitude(n) >= (2 ^ e \div 2) * mantissa
    <3>1. e - 1 \in 0 .. Width /\ ~(e <= e - 1)
      BY <1>1, <2>1, <2>2
    <3>2. ~(Magnitude(n) < h * mantissa)
      BY <1>3, <2>2, <3>1
    <3>3. h * mantissa \in Nat
      BY <1>1
    <3> QED
      BY <1>1, <2>2, <3>2, <3>3
  <2> QED
    BY <1>4, <2>1, <2>2
<1>6. Ulp(n) \in {2 ^ d : d \in 0 .. Width} /\ IsSpacing(Ulp(n))
  <2>1. \E u \in {2 ^ d : d \in 0 .. Width} : IsSpacing(u)
    BY <1>5
  <2>2. Ulp(n) = CHOOSE u \in {2 ^ d : d \in 0 .. Width} : IsSpacing(u)
    BY DEF Ulp
  <2> QED
    BY <2>1, <2>2
<1>7. PICK d \in 0 .. Width : Ulp(n) = 2 ^ d
  BY <1>6
<1>8. ASSUME NEW h \in Nat \ {0}, 2 ^ d = 2 * h, 2 ^ d \div 2 = h
      PROVE  h * mantissa <= Magnitude(n)
  <2>1. Ulp(n) > 1 /\ Ulp(n) \div 2 = h
    BY <1>7, <1>8
  <2>2. Magnitude(n) >= h * mantissa
    BY <1>6, <2>1
  <2>3. h * mantissa \in Nat
    BY <1>1
  <2> QED
    BY <1>1, <2>2, <2>3
<1> QED
  BY <1>4, <1>7, <1>8

LEMMA Between ==
  ASSUME NEW n \in Int, NEW u \in Nat \ {0}
  PROVE  n \div u \in Int /\ (n \div u) * u <= n /\ n < (n \div u) * u + u
  OBVIOUS

LEMMA Product ==
  ASSUME NEW m \in Nat, NEW a \in Nat, NEW b \in Nat, a <= b
  PROVE  m * a <= b * m
  OBVIOUS

\* A double is off by half a spacing at the most.
LEMMA Near ==
  ASSUME NEW n \in JsonIntegers
  PROVE  /\ AsDouble(n) \in Int
         /\ 2 ^ MantissaBits * Magnitude(AsDouble(n) - n) <= Magnitude(n)
<1> DEFINE mantissa == 2 ^ MantissaBits
           u == Ulp(n)
           low == (n \div u) * u
<1>1. mantissa \in Nat \ {0} /\ n \in Int /\ Magnitude(n) \in Nat
  <2>1. Width - 1 \in 0 .. Width /\ (Width - 1) + 1 = Width /\ MantissaBits \in 0 .. Width
    BY DecodingAssumption
  <2>2. 2 ^ (Width - 1) \in Nat \ {0} /\ 2 ^ Width = 2 * 2 ^ (Width - 1) /\ mantissa \in Nat \ {0}
    BY <2>1, PowersOfTwo
  <2> QED
    BY <2>1, <2>2 DEF JsonIntegers, Magnitude
<1>2. AsDouble(n) = IF 2 * (n - low) < u \/ (2 * (n - low) = u /\ (low \div u) % 2 = 0)
                    THEN low ELSE low + u
  BY DEF AsDouble
<1>3. u \in Nat \ {0}
  BY Spaced
<1>4. low \in Int /\ low <= n /\ n < low + u
  <2>1. n \div u \in Int /\ (n \div u) * u <= n /\ n < (n \div u) * u + u
    BY <1>1, <1>3, Between
  <2>2. (n \div u) * u \in Int
    BY <1>3, <2>1
  <2> QED
    BY <2>1, <2>2
<1>5. u = 1 \/ \E h \in Nat \ {0} : u = 2 * h /\ h * mantissa <= Magnitude(n)
  BY Spaced
<1> HIDE DEF mantissa, u, low
<1>6. AsDouble(n) \in Int
  BY <1>2, <1>3, <1>4
<1>7. CASE u = 1
  <2>1. AsDouble(n) = n
    BY <1>1, <1>2, <1>4, <1>7
  <2>2. Magnitude(AsDouble(n) - n) = 0
    BY <1>1, <2>1 DEF Magnitude
  <2>3. mantissa * 0 = 0
    BY <1>1
  <2> QED
    BY <1>1, <1>6, <2>2, <2>3 DEF mantissa
<1>8. ASSUME NEW h \in Nat \ {0}, u = 2 * h, h * mantissa <= Magnitude(n)
      PROVE  mantissa * Magnitude(AsDouble(n) - n) <= Magnitude(n)
  <2>1. Magnitude(AsDouble(n) - n) \in Nat /\ Magnitude(AsDouble(n) - n) <= h
    <3>1. CASE AsDouble(n) = low /\ 2 * (n - low) <= u
      BY <1>1, <1>4, <1>8, <3>1 DEF Magnitude
    <3>2. CASE AsDouble(n) = low + u /\ 2 * (n - low) >= u
      BY <1>1, <1>4, <1>8, <3>2 DEF Magnitude
    <3> QED
      BY <1>1, <1>2, <1>3, <1>4, <3>1, <3>2
  <2>2. PICK far \in Nat : far = Magnitude(AsDouble(n) - n)
    BY <2>1
  <2>3. mantissa * far <= h * mantissa /\ mantissa * far \in Nat /\ h * mantissa \in Nat
    BY <1>1, <1>8, <2>1, <2>2, Product
  <2>4. mantissa * far <= Magnitude(n)
    BY <1>1, <1>8, <2>3
  <2> QED
    BY <2>2, <2>4
<1> QED
  BY <1>5, <1>6, <1>7, <1>8 DEF mantissa

-----------------------------------------------------------------------------
(***************************************************************************)
(* base64.  Four sextets are three bytes; n sextets are m bytes, and four  *)
(* steps in one are three in the other.                                    *)
(***************************************************************************)
Octets == 0 .. 255

Packed(s1, s2, s3, s4) ==
  LET b1 == AsByte(s1, s2, 16)
      b2 == AsByte(s2, s3, 4)
      b3 == AsByte(s3, s4, 1)
  IN  /\ \A next \in Octets : AsSextet(b1, next, 1024) = s1
      /\ AsSextet(b1, b2, 16) = s2
      /\ s2 % 16 = 0 => AsSextet(b1, 0, 16) = s2
      /\ AsSextet(b2, b3, 64) = s3
      /\ s3 % 4 = 0 => AsSextet(b2, 0, 64) = s3
      /\ \A next \in Octets : AsSextet(b3, next, 256) = s4

LEMMA Quad ==
  ASSUME NEW s1 \in 0 .. 63, NEW s2 \in 0 .. 63, NEW s3 \in 0 .. 63, NEW s4 \in 0 .. 63
  PROVE  Packed(s1, s2, s3, s4)
<1> DEFINE b1 == AsByte(s1, s2, 16)
           b2 == AsByte(s2, s3, 4)
           b3 == AsByte(s3, s4, 1)
<1>1. PICK high2 \in 0 .. 3, low2 \in 0 .. 15 : s2 = 16 * high2 + low2
  <2>1. s2 \div 16 \in 0 .. 3 /\ s2 % 16 \in 0 .. 15 /\ s2 = 16 * (s2 \div 16) + (s2 % 16)
    OBVIOUS
  <2> QED
    BY <2>1
<1>2. PICK high3 \in 0 .. 15, low3 \in 0 .. 3 : s3 = 4 * high3 + low3
  <2>1. s3 \div 4 \in 0 .. 15 /\ s3 % 4 \in 0 .. 3 /\ s3 = 4 * (s3 \div 4) + (s3 % 4)
    OBVIOUS
  <2> QED
    BY <2>1
<1>3. b1 = 4 * s1 + high2
  BY <1>1 DEF AsByte
<1>4. b2 = 16 * low2 + high3
  <2>1. (64 * s2 + s3) \div 4 = 256 * high2 + (16 * low2 + high3)
    BY <1>1, <1>2
  <2>2. 16 * low2 + high3 \in 0 .. 255
    OBVIOUS
  <2>3. \A h \in 0 .. 3, low \in 0 .. 255 : (256 * h + low) % 256 = low
    OBVIOUS
  <2> QED
    BY <2>1, <2>2, <2>3 DEF AsByte
<1>5. b3 = 64 * low3 + s4
  BY <1>2 DEF AsByte
<1> HIDE DEF b1, b2, b3
<1>6. ASSUME NEW next \in 0 .. 255 PROVE AsSextet(b1, next, 1024) = s1
  BY <1>3 DEF AsSextet
<1>7. AsSextet(b1, b2, 16) = s2
  <2>1. (256 * b1 + b2) \div 16 = 64 * s1 + s2
    <3>1. PICK k \in Nat : k = 64 * s1 + s2
      OBVIOUS
    <3>2. 256 * b1 + b2 = 16 * k + high3
      BY <1>1, <1>3, <1>4, <3>1
    <3>3. (16 * k + high3) \div 16 = k
      OBVIOUS
    <3> QED
      BY <3>1, <3>2, <3>3
  <2>2. \A h, low \in 0 .. 63 : (64 * h + low) % 64 = low
    OBVIOUS
  <2> QED
    BY <2>1, <2>2 DEF AsSextet
<1>8. ASSUME s2 % 16 = 0 PROVE AsSextet(b1, 0, 16) = s2
  BY <1>1, <1>3, <1>8 DEF AsSextet
<1>9. AsSextet(b2, b3, 64) = s3
  <2>1. (256 * b2 + b3) \div 64 = 64 * low2 + s3
    <3>1. PICK k \in Nat : k = 64 * low2 + s3
      OBVIOUS
    <3>2. 256 * b2 + b3 = 64 * k + s4
      BY <1>2, <1>4, <1>5, <3>1
    <3>3. (64 * k + s4) \div 64 = k
      OBVIOUS
    <3> QED
      BY <3>1, <3>2, <3>3
  <2>2. \A h, low \in 0 .. 63 : (64 * h + low) % 64 = low
    OBVIOUS
  <2> QED
    BY <2>1, <2>2 DEF AsSextet
<1>10. ASSUME s3 % 4 = 0 PROVE AsSextet(b2, 0, 64) = s3
  BY <1>2, <1>4, <1>10 DEF AsSextet
<1>11. ASSUME NEW next \in 0 .. 255 PROVE AsSextet(b3, next, 256) = s4
  BY <1>5 DEF AsSextet
<1> QED
  BY <1>6, <1>7, <1>8, <1>9, <1>10, <1>11 DEF Packed, Octets, b1, b2, b3

Beginning(text, n) ==
  (\A i \in 1 .. n : text[i] \in Sextets) /\ (n < Len(text) => text[n + 1] \notin Sextets)

LEMMA ReadableIs ==
  ASSUME NEW text \in Seq(Nat)
  PROVE  /\ Readable(text) \in 0 .. Len(text) /\ Beginning(text, Readable(text))
         /\ \A n \in 0 .. Len(text) : Beginning(text, n) => Readable(text) = n
<1>1. \E n \in 0 .. Len(text) : Beginning(text, n)
  <2> DEFINE T == {n \in 0 .. Len(text) : n < Len(text) => text[n + 1] \notin Sextets}
  <2>1. Len(text) \in Nat /\ Len(text) \in T
    OBVIOUS
  <2>2. PICK n \in T : \A d \in T : n <= d
    BY <2>1, LeastNumber
  <2>3. ASSUME NEW i \in 1 .. n PROVE text[i] \in Sextets
    <3>1. i - 1 \in 0 .. Len(text) /\ i - 1 < Len(text) /\ ~(n <= i - 1) /\ (i - 1) + 1 = i
      BY <2>1
    <3>2. i - 1 \notin T
      BY <2>2, <3>1
    <3> QED
      BY <3>1, <3>2
  <2> QED
    BY <2>3 DEF Beginning
<1>2. Readable(text) = CHOOSE n \in 0 .. Len(text) : Beginning(text, n)
  BY DEF Readable, Beginning
<1>3. Readable(text) \in 0 .. Len(text) /\ Beginning(text, Readable(text))
  BY <1>1, <1>2
<1>4. ASSUME NEW n \in 0 .. Len(text), Beginning(text, n) PROVE Readable(text) = n
  BY <1>3, <1>4 DEF Beginning
<1> QED
  BY <1>3, <1>4

\* Bytes and sextets of quad p.
LEMMA QuadOf ==
  ASSUME NEW p \in Nat
  PROVE  /\ \A r \in 1 .. 3 : ((3 * p + r - 1) % 3) + 1 = r /\ (4 * (3 * p + r - 1)) \div 3 + 1 = 4 * p + r
         /\ \A r \in 1 .. 4 : ((4 * p + r - 1) % 4) + 1 = r
         /\ (3 * (4 * p + 1 - 1)) \div 4 + 1 = 3 * p + 1
         /\ (3 * (4 * p + 2 - 1)) \div 4 + 1 = 3 * p + 1
         /\ (3 * (4 * p + 3 - 1)) \div 4 + 1 = 3 * p + 2
         /\ (3 * (4 * p + 4 - 1)) \div 4 + 1 = 3 * p + 3
OBVIOUS

LEMMA DecodedBytes ==
  ASSUME NEW text \in Seq(Nat)
  PROVE  LET n == Readable(text)
             m == (3 * n) \div 4
             bytes == base64Decode(text)
         IN  /\ m \in Nat /\ DOMAIN bytes = 1 .. m
             /\ \A p \in Nat :
                  /\ 3 * p + 1 <= m => bytes[3 * p + 1] = AsByte(text[4 * p + 1], text[4 * p + 2], 16)
                  /\ 3 * p + 2 <= m => bytes[3 * p + 2] = AsByte(text[4 * p + 2], text[4 * p + 3], 4)
                  /\ 3 * p + 3 <= m => bytes[3 * p + 3] = AsByte(text[4 * p + 3], text[4 * p + 4], 1)
<1> DEFINE n == Readable(text)
           m == (3 * n) \div 4
           bytes == base64Decode(text)
<1>1. n \in Nat /\ m \in Nat
  BY ReadableIs
<1>2. bytes = [j \in 1 .. m |-> ByteAt(text, j, (4 * (j - 1)) \div 3 + 1)]
  BY DEF base64Decode
<1> HIDE DEF n, m, bytes
<1>3. ASSUME NEW p \in Nat, NEW r \in 1 .. 3, 3 * p + r <= m
      PROVE  bytes[3 * p + r] = AsByte(text[4 * p + r], text[4 * p + r + 1], BelowByte[r])
  <2> DEFINE j == 3 * p + r
  <2>1. j \in 1 .. m /\ j - 1 = 3 * p + r - 1
    BY <1>1, <1>3
  <2>2. ((j - 1) % 3) + 1 = r /\ (4 * (j - 1)) \div 3 + 1 = 4 * p + r
    BY <2>1, QuadOf
  <2>3. bytes[j] = ByteAt(text, j, 4 * p + r)
    BY <1>2, <2>1, <2>2
  <2>4. ByteAt(text, j, 4 * p + r)
          = AsByte(text[4 * p + r], text[4 * p + r + 1], BelowByte[((j - 1) % 3) + 1])
    BY DEF ByteAt
  <2> QED
    BY <2>2, <2>3, <2>4
<1>4. BelowByte[1] = 16 /\ BelowByte[2] = 4 /\ BelowByte[3] = 1
  BY DEF BelowByte
<1>5. ASSUME NEW p \in Nat
      PROVE  4 * p + 1 + 1 = 4 * p + 2 /\ 4 * p + 2 + 1 = 4 * p + 3 /\ 4 * p + 3 + 1 = 4 * p + 4
  OBVIOUS
<1>6. ASSUME NEW p \in Nat
      PROVE  /\ 3 * p + 1 <= m => bytes[3 * p + 1] = AsByte(text[4 * p + 1], text[4 * p + 2], 16)
             /\ 3 * p + 2 <= m => bytes[3 * p + 2] = AsByte(text[4 * p + 2], text[4 * p + 3], 4)
             /\ 3 * p + 3 <= m => bytes[3 * p + 3] = AsByte(text[4 * p + 3], text[4 * p + 4], 1)
  <2>1. ASSUME 3 * p + 1 <= m
        PROVE  bytes[3 * p + 1] = AsByte(text[4 * p + 1], text[4 * p + 2], 16)
    <3>1. bytes[3 * p + 1] = AsByte(text[4 * p + 1], text[4 * p + 1 + 1], BelowByte[1])
      BY <1>3, <2>1
    <3> QED
      BY <1>4, <1>5, <3>1
  <2>2. ASSUME 3 * p + 2 <= m
        PROVE  bytes[3 * p + 2] = AsByte(text[4 * p + 2], text[4 * p + 3], 4)
    <3>1. bytes[3 * p + 2] = AsByte(text[4 * p + 2], text[4 * p + 2 + 1], BelowByte[2])
      BY <1>3, <2>2
    <3> QED
      BY <1>4, <1>5, <3>1
  <2>3. ASSUME 3 * p + 3 <= m
        PROVE  bytes[3 * p + 3] = AsByte(text[4 * p + 3], text[4 * p + 4], 1)
    <3>1. bytes[3 * p + 3] = AsByte(text[4 * p + 3], text[4 * p + 3 + 1], BelowByte[3])
      BY <1>3, <2>3
    <3> QED
      BY <1>4, <1>5, <3>1
  <2> QED
    BY <2>1, <2>2, <2>3
<1>7. DOMAIN bytes = 1 .. m
  BY <1>2
<1> QED
  BY <1>1, <1>6, <1>7 DEF n, m, bytes

LEMMA DecodedIsBytes ==
  ASSUME NEW text \in Seq(Nat)
  PROVE  /\ base64Decode(text) \in Seq(Nat)
         /\ Len(base64Decode(text)) = (3 * Readable(text)) \div 4
         /\ \A j \in 1 .. (3 * Readable(text)) \div 4 : base64Decode(text)[j] \in 0 .. 255
<1> DEFINE n == Readable(text)
           m == (3 * n) \div 4
           bytes == base64Decode(text)
<1>1. n \in 0 .. Len(text) /\ (\A i \in 1 .. n : text[i] \in Sextets) /\ m \in Nat
  BY ReadableIs DEF Beginning
<1>2. bytes = [j \in 1 .. m |-> ByteAt(text, j, (4 * (j - 1)) \div 3 + 1)]
  BY DEF base64Decode
<1> HIDE DEF n, m, bytes
<1>3. ASSUME NEW j \in 1 .. m PROVE bytes[j] \in 0 .. 255
  <2> DEFINE i == (4 * (j - 1)) \div 3 + 1
  <2>1. i \in 1 .. n /\ i + 1 \in 1 .. n
    BY <1>1 DEF m
  <2>2. PICK s \in Nat : s = 64 * text[i] + text[i + 1]
    BY <1>1, <2>1 DEF Sextets
  <2>3. BelowByte[((j - 1) % 3) + 1] \in {16, 4, 1}
    <3>1. ((j - 1) % 3) + 1 \in {1, 2, 3}
      BY <1>1
    <3> QED
      BY <3>1 DEF BelowByte
  <2>4. bytes[j] = (s \div BelowByte[((j - 1) % 3) + 1]) % 256
    BY <1>2, <2>2 DEF ByteAt, AsByte
  <2>5. \A below \in {16, 4, 1} : (s \div below) % 256 \in 0 .. 255
    OBVIOUS
  <2> QED
    BY <2>3, <2>4, <2>5
<1>4. bytes \in [1 .. m -> Nat]
  <2>1. \A b \in 0 .. 255 : b \in Nat
    OBVIOUS
  <2>2. \A j \in 1 .. m : bytes[j] \in Nat
    BY <1>3, <2>1, Zenon
  <2> QED
    BY <1>2, <2>2, Zenon
<1>5. bytes \in Seq(Nat) /\ Len(bytes) = m
  BY <1>1, <1>4
<1> QED
  BY <1>3, <1>5 DEF n, m, bytes

ByteOrZero(bytes, i) == IF i <= Len(bytes) THEN bytes[i] ELSE 0

QuadOfBytes(bytes, p) ==
  LET m == Len(bytes)
      again == base64Encode(bytes)
  IN  /\ 3 * p + 1 <= m =>
           /\ again[4 * p + 1] = AsSextet(bytes[3 * p + 1], ByteOrZero(bytes, 3 * p + 2), 1024)
           /\ again[4 * p + 2] = AsSextet(bytes[3 * p + 1], ByteOrZero(bytes, 3 * p + 2), 16)
      /\ 3 * p + 2 <= m =>
           again[4 * p + 3] = AsSextet(bytes[3 * p + 2], ByteOrZero(bytes, 3 * p + 3), 64)
      /\ 3 * p + 3 <= m =>
           again[4 * p + 4] = AsSextet(bytes[3 * p + 3], ByteOrZero(bytes, 3 * p + 4), 256)

LEMMA EncodedSextets ==
  ASSUME NEW bytes \in Seq(Nat)
  PROVE  LET m == Len(bytes)
             again == base64Encode(bytes)
         IN  /\ DOMAIN again = 1 .. 4 * ((m + 2) \div 3)
             /\ \A k \in 1 .. 4 * ((m + 2) \div 3) : k > (4 * m + 2) \div 3 => again[k] = Pad
             /\ \A p \in Nat : QuadOfBytes(bytes, p)
<1> DEFINE m == Len(bytes)
           size == 4 * ((m + 2) \div 3)
           last == (4 * m + 2) \div 3
           again == base64Encode(bytes)
           Sextet(k, i) ==
             AsSextet(ByteOrZero(bytes, i), ByteOrZero(bytes, i + 1), BelowSextet[((k - 1) % 4) + 1])
<1>1. m \in Nat
  OBVIOUS
<1>2. again = [k \in 1 .. size |-> IF k <= last THEN Sextet(k, (3 * (k - 1)) \div 4 + 1) ELSE Pad]
  BY DEF base64Encode, ByteOrZero
<1> HIDE DEF m, again, Sextet
<1>3. ASSUME NEW p \in Nat, NEW r \in 1 .. 4, 4 * p + r <= last,
             NEW i, (3 * (4 * p + r - 1)) \div 4 + 1 = i
      PROVE  again[4 * p + r]
               = AsSextet(ByteOrZero(bytes, i), ByteOrZero(bytes, i + 1), BelowSextet[r])
  <2> DEFINE k == 4 * p + r
  <2>1. k \in 1 .. size /\ k <= last /\ k - 1 = 4 * p + r - 1
    BY <1>1, <1>3
  <2>2. ((k - 1) % 4) + 1 = r /\ (3 * (k - 1)) \div 4 + 1 = i
    BY <1>3, <2>1, QuadOf
  <2>3. again[k] = Sextet(k, i)
    BY <1>2, <2>1, <2>2
  <2> QED
    BY <2>2, <2>3 DEF Sextet
<1>4. BelowSextet[1] = 1024 /\ BelowSextet[2] = 16 /\ BelowSextet[3] = 64 /\ BelowSextet[4] = 256
  BY DEF BelowSextet
<1>5. ASSUME NEW p \in Nat
      PROVE  /\ 3 * p + 1 + 1 = 3 * p + 2 /\ 3 * p + 2 + 1 = 3 * p + 3 /\ 3 * p + 3 + 1 = 3 * p + 4
             /\ 3 * p + 1 <= m => 4 * p + 1 <= last /\ 4 * p + 2 <= last
             /\ 3 * p + 2 <= m => 4 * p + 3 <= last
             /\ 3 * p + 3 <= m => 4 * p + 4 <= last
  BY <1>1
<1> HIDE DEF size, last
<1>6. ASSUME NEW p \in Nat, 3 * p + 1 <= m
      PROVE  /\ again[4 * p + 1] = AsSextet(bytes[3 * p + 1], ByteOrZero(bytes, 3 * p + 2), 1024)
             /\ again[4 * p + 2] = AsSextet(bytes[3 * p + 1], ByteOrZero(bytes, 3 * p + 2), 16)
  <2>1. ByteOrZero(bytes, 3 * p + 1) = bytes[3 * p + 1]
    BY <1>6 DEF ByteOrZero, m
  <2>2. again[4 * p + 1]
          = AsSextet(ByteOrZero(bytes, 3 * p + 1), ByteOrZero(bytes, 3 * p + 1 + 1), BelowSextet[1])
    BY <1>3, <1>5, <1>6, QuadOf
  <2>3. again[4 * p + 2]
          = AsSextet(ByteOrZero(bytes, 3 * p + 1), ByteOrZero(bytes, 3 * p + 1 + 1), BelowSextet[2])
    <3>1. 4 * p + 2 <= last /\ (3 * (4 * p + 2 - 1)) \div 4 + 1 = 3 * p + 1 /\ 2 \in 1 .. 4
      BY <1>5, <1>6, QuadOf
    <3> QED
      BY <1>3, <3>1
  <2> QED
    BY <1>4, <1>5, <2>1, <2>2, <2>3
<1>7. ASSUME NEW p \in Nat, 3 * p + 2 <= m
      PROVE  again[4 * p + 3] = AsSextet(bytes[3 * p + 2], ByteOrZero(bytes, 3 * p + 3), 64)
  <2>1. ByteOrZero(bytes, 3 * p + 2) = bytes[3 * p + 2]
    BY <1>7 DEF ByteOrZero, m
  <2>2. again[4 * p + 3]
          = AsSextet(ByteOrZero(bytes, 3 * p + 2), ByteOrZero(bytes, 3 * p + 2 + 1), BelowSextet[3])
    BY <1>3, <1>5, <1>7, QuadOf
  <2> QED
    BY <1>4, <1>5, <2>1, <2>2
<1>8. ASSUME NEW p \in Nat, 3 * p + 3 <= m
      PROVE  again[4 * p + 4] = AsSextet(bytes[3 * p + 3], ByteOrZero(bytes, 3 * p + 4), 256)
  <2>1. ByteOrZero(bytes, 3 * p + 3) = bytes[3 * p + 3]
    BY <1>8 DEF ByteOrZero, m
  <2>2. again[4 * p + 4]
          = AsSextet(ByteOrZero(bytes, 3 * p + 3), ByteOrZero(bytes, 3 * p + 3 + 1), BelowSextet[4])
    <3>1. 4 * p + 4 <= last /\ (3 * (4 * p + 4 - 1)) \div 4 + 1 = 3 * p + 3 /\ 4 \in 1 .. 4
      BY <1>5, <1>8, QuadOf
    <3> QED
      BY <1>3, <3>1
  <2> QED
    BY <1>4, <1>5, <2>1, <2>2
<1>9. DOMAIN again = 1 .. size
  BY <1>2
<1>10. ASSUME NEW k \in 1 .. size, k > last PROVE again[k] = Pad
  <2>1. ~(k <= last)
    BY <1>1, <1>10 DEF last, size
  <2> QED
    BY <1>2, <2>1
<1> QED
  BY <1>6, <1>7, <1>8, <1>9, <1>10 DEF QuadOfBytes, m, size, last, again

LEMMA QuadReturns ==
  ASSUME NEW text \in Seq(Nat), NEW p \in Nat
  PROVE  LET m == (3 * Readable(text)) \div 4
             again == base64Encode(base64Decode(text))
         IN  /\ 3 * p + 1 <= m =>
                  /\ again[4 * p + 1] = text[4 * p + 1]
                  /\ 3 * p + 2 <= m \/ text[4 * p + 2] % 16 = 0 => again[4 * p + 2] = text[4 * p + 2]
             /\ 3 * p + 2 <= m =>
                  (3 * p + 3 <= m \/ text[4 * p + 3] % 4 = 0 => again[4 * p + 3] = text[4 * p + 3])
             /\ 3 * p + 3 <= m => again[4 * p + 4] = text[4 * p + 4]
<1>1. PICK m \in Nat :
        /\ m = (3 * Readable(text)) \div 4
        /\ 3 * p + 1 <= m => text[4 * p + 1] \in 0 .. 63 /\ text[4 * p + 2] \in 0 .. 63
        /\ 3 * p + 2 <= m => text[4 * p + 3] \in 0 .. 63
        /\ 3 * p + 3 <= m => text[4 * p + 4] \in 0 .. 63
  <2>1. Readable(text) \in Nat /\ \A i \in 1 .. Readable(text) : text[i] \in 0 .. 63
    BY ReadableIs DEF Beginning, Sextets
  <2> QED
    BY <2>1
<1>2. PICK bytes \in Seq(Nat) :
        bytes = base64Decode(text) /\ Len(bytes) = m /\ \A j \in 1 .. m : bytes[j] \in 0 .. 255
  BY <1>1, DecodedIsBytes
<1>3. PICK again : again = base64Encode(bytes)
  OBVIOUS
<1>4. PICK s1, s2, s3, s4 :
        /\ s1 \in Sextets /\ s2 \in Sextets /\ s3 \in Sextets /\ s4 \in Sextets
        /\ 3 * p + 1 <= m => s1 = text[4 * p + 1] /\ s2 = text[4 * p + 2]
        /\ 3 * p + 2 <= m => s3 = text[4 * p + 3]
        /\ 3 * p + 3 <= m => s4 = text[4 * p + 4]
  <2>1. /\ 0 \in Sextets
        /\ 3 * p + 1 <= m => text[4 * p + 1] \in Sextets /\ text[4 * p + 2] \in Sextets
        /\ 3 * p + 2 <= m => text[4 * p + 3] \in Sextets
        /\ 3 * p + 3 <= m => text[4 * p + 4] \in Sextets
    BY <1>1 DEF Sextets
  <2>2. \E x \in Sextets : 3 * p + 1 <= m => x = text[4 * p + 1]
    BY <2>1, Zenon
  <2>3. \E x \in Sextets : 3 * p + 1 <= m => x = text[4 * p + 2]
    BY <2>1, Zenon
  <2>4. \E x \in Sextets : 3 * p + 2 <= m => x = text[4 * p + 3]
    BY <2>1, Zenon
  <2>5. \E x \in Sextets : 3 * p + 3 <= m => x = text[4 * p + 4]
    BY <2>1, Zenon
  <2> QED
    BY <2>2, <2>3, <2>4, <2>5, Zenon
<1>5. (3 * p + 2 <= m => 3 * p + 1 <= m) /\ (3 * p + 3 <= m => 3 * p + 2 <= m)
  OBVIOUS
<1> DEFINE b1 == AsByte(s1, s2, 16)
           b2 == AsByte(s2, s3, 4)
           b3 == AsByte(s3, s4, 1)
           next2 == ByteOrZero(bytes, 3 * p + 2)
           next3 == ByteOrZero(bytes, 3 * p + 3)
           next4 == ByteOrZero(bytes, 3 * p + 4)
<1>6. /\ \A next \in Octets : AsSextet(b1, next, 1024) = s1
      /\ AsSextet(b1, b2, 16) = s2
      /\ s2 % 16 = 0 => AsSextet(b1, 0, 16) = s2
      /\ AsSextet(b2, b3, 64) = s3
      /\ s3 % 4 = 0 => AsSextet(b2, 0, 64) = s3
      /\ \A next \in Octets : AsSextet(b3, next, 256) = s4
  <2>1. Packed(s1, s2, s3, s4)
    BY <1>4, Quad DEF Sextets
  <2> QED
    BY <2>1, Zenon DEF Packed
<1>7. /\ 3 * p + 1 <= m => bytes[3 * p + 1] = b1
      /\ 3 * p + 2 <= m => bytes[3 * p + 2] = b2
      /\ 3 * p + 3 <= m => bytes[3 * p + 3] = b3
  <2>1. /\ 3 * p + 1 <= m => bytes[3 * p + 1] = AsByte(text[4 * p + 1], text[4 * p + 2], 16)
        /\ 3 * p + 2 <= m => bytes[3 * p + 2] = AsByte(text[4 * p + 2], text[4 * p + 3], 4)
        /\ 3 * p + 3 <= m => bytes[3 * p + 3] = AsByte(text[4 * p + 3], text[4 * p + 4], 1)
    BY <1>1, <1>2, DecodedBytes, Zenon
  <2> QED
    BY <1>4, <1>5, <2>1, Zenon
<1>8. /\ next2 \in Octets /\ next4 \in Octets
      /\ 3 * p + 2 <= m => next2 = bytes[3 * p + 2]
      /\ ~(3 * p + 2 <= m) => next2 = 0
      /\ 3 * p + 3 <= m => next3 = bytes[3 * p + 3]
      /\ ~(3 * p + 3 <= m) => next3 = 0
  <2>1. ASSUME NEW i \in Nat \ {0}
        PROVE  /\ ByteOrZero(bytes, i) \in Octets
               /\ i <= m => ByteOrZero(bytes, i) = bytes[i]
               /\ ~(i <= m) => ByteOrZero(bytes, i) = 0
    <3>1. CASE i <= m
      BY <1>2, <3>1 DEF ByteOrZero, Octets
    <3>2. CASE ~(i <= m)
      BY <1>2, <3>2 DEF ByteOrZero, Octets
    <3> QED
      BY <3>1, <3>2
  <2>2. 3 * p + 2 \in Nat \ {0} /\ 3 * p + 3 \in Nat \ {0} /\ 3 * p + 4 \in Nat \ {0}
    OBVIOUS
  <2> QED
    BY <2>1, <2>2, Zenon
<1>9. /\ 3 * p + 1 <= m =>
           /\ again[4 * p + 1] = AsSextet(bytes[3 * p + 1], next2, 1024)
           /\ again[4 * p + 2] = AsSextet(bytes[3 * p + 1], next2, 16)
      /\ 3 * p + 2 <= m => again[4 * p + 3] = AsSextet(bytes[3 * p + 2], next3, 64)
      /\ 3 * p + 3 <= m => again[4 * p + 4] = AsSextet(bytes[3 * p + 3], next4, 256)
  <2>1. QuadOfBytes(bytes, p)
    BY EncodedSextets
  <2> QED
    BY <1>2, <1>3, <2>1, Zenon DEF QuadOfBytes
<1> HIDE DEF b1, b2, b3, next2, next3, next4
<1>10. ASSUME 3 * p + 1 <= m PROVE again[4 * p + 1] = text[4 * p + 1]
  <2>1. bytes[3 * p + 1] = b1 /\ s1 = text[4 * p + 1]
    BY <1>4, <1>7, <1>10, Zenon
  <2>2. AsSextet(b1, next2, 1024) = s1
    BY <1>6, <1>8, SMT
  <2> QED
    BY <1>9, <1>10, <2>1, <2>2, Zenon
<1>11. ASSUME 3 * p + 1 <= m, 3 * p + 2 <= m \/ text[4 * p + 2] % 16 = 0
       PROVE  again[4 * p + 2] = text[4 * p + 2]
  <2>1. bytes[3 * p + 1] = b1 /\ s2 = text[4 * p + 2]
    BY <1>4, <1>7, <1>11, Zenon
  <2>2. AsSextet(b1, next2, 16) = s2
    <3>1. CASE 3 * p + 2 <= m
      BY <1>6, <1>7, <1>8, <3>1, Zenon
    <3>2. CASE ~(3 * p + 2 <= m)
      BY <1>6, <1>8, <1>11, <2>1, <3>2, Zenon
    <3> QED
      BY <3>1, <3>2
  <2> QED
    BY <1>9, <1>11, <2>1, <2>2, Zenon
<1>12. ASSUME 3 * p + 2 <= m, 3 * p + 3 <= m \/ text[4 * p + 3] % 4 = 0
       PROVE  again[4 * p + 3] = text[4 * p + 3]
  <2>1. bytes[3 * p + 2] = b2 /\ s3 = text[4 * p + 3]
    BY <1>4, <1>7, <1>12, Zenon
  <2>2. AsSextet(b2, next3, 64) = s3
    <3>1. CASE 3 * p + 3 <= m
      BY <1>6, <1>7, <1>8, <3>1, Zenon
    <3>2. CASE ~(3 * p + 3 <= m)
      BY <1>6, <1>8, <1>12, <2>1, <3>2, Zenon
    <3> QED
      BY <3>1, <3>2
  <2> QED
    BY <1>9, <1>12, <2>1, <2>2, Zenon
<1>13. ASSUME 3 * p + 3 <= m PROVE again[4 * p + 4] = text[4 * p + 4]
  <2>1. bytes[3 * p + 3] = b3 /\ s4 = text[4 * p + 4]
    BY <1>4, <1>7, <1>13, Zenon
  <2>2. AsSextet(b3, next4, 256) = s4
    BY <1>6, <1>8, SMT
  <2> QED
    BY <1>9, <1>13, <2>1, <2>2, Zenon
<1> QED
  BY <1>1, <1>2, <1>3, <1>10, <1>11, <1>12, <1>13, Zenon

\* A beginning of three bytes at a time is the text's, whatever ends it.
LEMMA BeginningReturns ==
  ASSUME NEW text \in Seq(Nat),
         NEW i \in 1 .. 4 * (((3 * Readable(text)) \div 4) \div 3)
  PROVE  base64Encode(base64Decode(text))[i] = text[i]
<1>1. PICK m \in Nat : m = (3 * Readable(text)) \div 4
  BY ReadableIs
<1>2. PICK p \in Nat : 3 * p + 3 <= m /\ i \in {4 * p + 1, 4 * p + 2, 4 * p + 3, 4 * p + 4}
  <2>1. i \in 1 .. 4 * (m \div 3) /\ (i - 1) \div 4 \in Nat
    BY <1>1
  <2>2. 3 * ((i - 1) \div 4) + 3 <= m
    BY <1>1, <2>1
  <2>3. i \in {4 * ((i - 1) \div 4) + 1, 4 * ((i - 1) \div 4) + 2,
               4 * ((i - 1) \div 4) + 3, 4 * ((i - 1) \div 4) + 4}
    BY <2>1
  <2> QED
    BY <2>1, <2>2, <2>3
<1>3. 3 * p + 1 <= m /\ 3 * p + 2 <= m /\ 3 * p + 3 <= m
  BY <1>2
<1> DEFINE again == base64Encode(base64Decode(text))
<1>4. /\ again[4 * p + 1] = text[4 * p + 1] /\ again[4 * p + 2] = text[4 * p + 2]
      /\ again[4 * p + 3] = text[4 * p + 3] /\ again[4 * p + 4] = text[4 * p + 4]
  BY <1>1, <1>3, QuadReturns
<1> QED
  BY <1>2, <1>4, Zenon

\* How many characters and bytes there are of q quads, of which the last is whole or padded.
LEMMA Lengths ==
  ASSUME NEW q \in Nat, NEW n \in Nat, n <= 4 * q, n > 4 * q - 3
  PROVE  LET m == (3 * n) \div 4
         IN  /\ m \in Nat /\ (m + 2) \div 3 = q /\ (4 * m + 2) \div 3 = n
             /\ \A p \in Nat :
                  /\ 4 * p + 1 <= n => 3 * p + 1 <= m
                  /\ 4 * p + 2 <= n => 3 * p + 1 <= m /\ (3 * p + 2 <= m \/ (n = 4 * p + 2 /\ n % 4 = 2))
                  /\ 4 * p + 3 <= n => 3 * p + 2 <= m /\ (3 * p + 3 <= m \/ (n = 4 * p + 3 /\ n % 4 = 3))
                  /\ 4 * p + 4 <= n => 3 * p + 3 <= m
<1>1. CASE n = 4 * q
  BY <1>1
<1>2. CASE n = 4 * q - 1
  BY <1>2
<1>3. CASE n = 4 * q - 2
  BY <1>3
<1> QED
  BY <1>1, <1>2, <1>3

LEMMA TextReturns ==
  ASSUME NEW text \in Seq(Nat), WellFormedText(text)
  PROVE  base64Encode(base64Decode(text)) = text
<1>1. PICK n \in 0 .. Len(text) :
        /\ n > Len(text) - 3
        /\ \A i \in 1 .. Len(text) : IF i <= n THEN text[i] \in Sextets ELSE text[i] = Pad
        /\ n % 4 = 2 => text[n] % 16 = 0
        /\ n % 4 = 3 => text[n] % 4 = 0
  BY DEF WellFormedText
<1>2. PICK q \in Nat : Len(text) = 4 * q
  <2>1. Len(text) \in Nat /\ Len(text) % 4 = 0
    BY DEF WellFormedText
  <2>2. Len(text) = 4 * (Len(text) \div 4) /\ Len(text) \div 4 \in Nat
    BY <2>1
  <2> QED
    BY <2>2
<1>3. Readable(text) = n
  <2>1. \A i \in 1 .. n : text[i] \in Sextets
    BY <1>1, <1>2
  <2>2. ASSUME n < Len(text) PROVE text[n + 1] \notin Sextets
    <3>1. text[n + 1] = Pad
      BY <1>1, <1>2, <2>2
    <3> QED
      BY <3>1 DEF Pad, Sextets
  <2> QED
    BY <2>1, <2>2, ReadableIs DEF Beginning
<1>4. n \in Nat /\ n <= 4 * q /\ n > 4 * q - 3
  BY <1>1, <1>2
<1>5. PICK m \in Nat : m = (3 * n) \div 4
  BY <1>4
<1>6. /\ (m + 2) \div 3 = q /\ (4 * m + 2) \div 3 = n
      /\ \A p \in Nat :
           /\ 4 * p + 1 <= n => 3 * p + 1 <= m
           /\ 4 * p + 2 <= n => 3 * p + 1 <= m /\ (3 * p + 2 <= m \/ (n = 4 * p + 2 /\ n % 4 = 2))
           /\ 4 * p + 3 <= n => 3 * p + 2 <= m /\ (3 * p + 3 <= m \/ (n = 4 * p + 3 /\ n % 4 = 3))
           /\ 4 * p + 4 <= n => 3 * p + 3 <= m
  BY <1>4, <1>5, Lengths
<1>7. PICK bytes \in Seq(Nat) : bytes = base64Decode(text) /\ Len(bytes) = m
  BY <1>3, <1>5, DecodedIsBytes
<1> DEFINE again == base64Encode(base64Decode(text))
<1>8. DOMAIN again = 1 .. 4 * q /\ \A k \in 1 .. 4 * q : k > n => again[k] = Pad
  BY <1>6, <1>7, EncodedSextets
<1>9. ASSUME NEW p \in Nat
      PROVE  /\ 4 * p + 1 <= n => again[4 * p + 1] = text[4 * p + 1]
             /\ 4 * p + 2 <= n => again[4 * p + 2] = text[4 * p + 2]
             /\ 4 * p + 3 <= n => again[4 * p + 3] = text[4 * p + 3]
             /\ 4 * p + 4 <= n => again[4 * p + 4] = text[4 * p + 4]
  <2>1. /\ 3 * p + 1 <= m => again[4 * p + 1] = text[4 * p + 1]
        /\ 3 * p + 1 <= m /\ (3 * p + 2 <= m \/ text[4 * p + 2] % 16 = 0) => again[4 * p + 2] = text[4 * p + 2]
        /\ 3 * p + 2 <= m /\ (3 * p + 3 <= m \/ text[4 * p + 3] % 4 = 0) => again[4 * p + 3] = text[4 * p + 3]
        /\ 3 * p + 3 <= m => again[4 * p + 4] = text[4 * p + 4]
    BY <1>3, <1>5, QuadReturns
  <2>2. n = 4 * p + 2 /\ n % 4 = 2 => text[4 * p + 2] % 16 = 0
    BY <1>1
  <2>3. n = 4 * p + 3 /\ n % 4 = 3 => text[4 * p + 3] % 4 = 0
    BY <1>1
  <2>4. /\ 4 * p + 1 <= n => 3 * p + 1 <= m
        /\ 4 * p + 2 <= n => 3 * p + 1 <= m /\ (3 * p + 2 <= m \/ (n = 4 * p + 2 /\ n % 4 = 2))
        /\ 4 * p + 3 <= n => 3 * p + 2 <= m /\ (3 * p + 3 <= m \/ (n = 4 * p + 3 /\ n % 4 = 3))
        /\ 4 * p + 4 <= n => 3 * p + 3 <= m
    BY <1>6
  <2> HIDE DEF again
  <2> QED
    BY <2>1, <2>2, <2>3, <2>4, Zenon
<1>10. ASSUME NEW k \in 1 .. 4 * q PROVE again[k] = text[k]
  <2>1. CASE k > n
    <3>1. text[k] = Pad
      BY <1>1, <1>2, <2>1
    <3> QED
      BY <1>8, <2>1, <3>1
  <2>2. CASE k <= n
    <3>1. PICK p \in Nat : k \in {4 * p + 1, 4 * p + 2, 4 * p + 3, 4 * p + 4}
      <4>1. /\ (k - 1) \div 4 \in Nat
            /\ k \in {4 * ((k - 1) \div 4) + 1, 4 * ((k - 1) \div 4) + 2,
                      4 * ((k - 1) \div 4) + 3, 4 * ((k - 1) \div 4) + 4}
        OBVIOUS
      <4> QED
        BY <4>1
    <3> HIDE DEF again
    <3> QED
      BY <1>9, <2>2, <3>1, Zenon
  <2> QED
    BY <1>4, <2>1, <2>2
<1>11. again = [k \in DOMAIN again |-> again[k]]
  BY DEF base64Encode
<1>12. text = [k \in 1 .. 4 * q |-> text[k]]
  BY <1>2
<1> HIDE DEF again
<1>13. again = text
  BY <1>8, <1>10, <1>11, <1>12, Zenon
<1> QED
  BY <1>13 DEF again

\* A payload in base64 is decoded, whatever kind of message it is of.
LEMMA Decoded ==
  ASSUME NEW event \in Events, NEW d \in event_callback(event), d.delivered,
         Text(event.members, "eventType") \in {"message_received", "channel_message_received"},
         Has(Carrier(event), "payload"), Is(Carrier(event)["payload"], "string")
  PROVE  LET text == Carrier(event)["payload"].characters
         IN  text \in Seq(Nat) /\ d.payload = base64Decode(text)
<1> DEFINE kind == Text(event.members, "eventType")
           message == Message(event).members
           text == Carrier(event)["payload"].characters
           texts == [name \in Names(kind) |-> Text(event.members, name)]
<1>1. Convertible(event)
  <2>1. ~Convertible(event) => d = Dropped
    BY DEF event_callback
  <2>2. Dropped.delivered = FALSE
    BY DEF Dropped
  <2> QED
    BY <2>1, <2>2, Zenon
<1>2. ASSUME NEW object, NEW arrays \in BOOLEAN, Has(object, "payload"), Is(object["payload"], "string")
      PROVE  DecodePayload(object, arrays) = base64Decode(object["payload"].characters)
  BY <1>2 DEF DecodePayload, Is
<1>3. event_callback(event) =
        IF kind = "message_received"
        THEN [delivered : {TRUE}, texts : {texts},
              payload : {DecodePayload(message, TRUE)}, timestamp : Timestamps(message)]
        ELSE {[delivered |-> TRUE, texts |-> texts,
               payload |-> IF kind = "channel_message_received"
                           THEN DecodePayload(event.members, FALSE) ELSE <<>>]}
  BY <1>1 DEF event_callback
<1>4. CASE kind = "message_received"
  <2>1. Carrier(event) = message
    BY <1>4 DEF Carrier
  <2>2. d.payload = DecodePayload(message, TRUE)
    <3> HIDE DEF kind, texts, message
    <3>1. d \in [delivered : {TRUE}, texts : {texts},
                 payload : {DecodePayload(message, TRUE)}, timestamp : Timestamps(message)]
      BY <1>3, <1>4, Zenon
    <3> QED
      BY <3>1
  <2>3. CharactersFit(message)
    BY <1>1, <1>4, InputsAssumption DEF Convertible, Is
  <2>4. text \in Seq(Nat)
    BY <2>1, <2>3 DEF CharactersFit
  <2> QED
    BY <1>2, <2>1, <2>2, <2>4
<1>5. CASE kind = "channel_message_received"
  <2>1. Carrier(event) = event.members
    BY <1>5 DEF Carrier
  <2>2. d.payload = DecodePayload(event.members, FALSE)
    <3> HIDE DEF kind, texts, message
    <3>1. kind # "message_received"
      BY <1>5
    <3>2. d = [delivered |-> TRUE, texts |-> texts,
               payload |-> IF kind = "channel_message_received"
                           THEN DecodePayload(event.members, FALSE) ELSE <<>>]
      BY <1>3, <3>1, Zenon
    <3> QED
      BY <1>5, <3>2
  <2>3. CharactersFit(event.members)
    BY <1>1, InputsAssumption DEF Convertible, Is
  <2>4. text \in Seq(Nat)
    BY <2>1, <2>3 DEF CharactersFit
  <2> QED
    BY <1>2, <2>1, <2>2, <2>4
<1> QED
  BY <1>4, <1>5

\* A received message comes from its event's "message" alone.
LEMMA Received ==
  ASSUME NEW event \in Events, NEW d \in event_callback(event), d.delivered, "timestamp" \in DOMAIN d
  PROVE  LET message == Message(event).members
         IN  /\ Convertible(event) /\ Text(event.members, "eventType") = "message_received"
             /\ d.payload = DecodePayload(message, TRUE) /\ d.timestamp \in Timestamps(message)
             /\ NumbersFit(message)
<1> DEFINE message == Message(event).members
           kind == Text(event.members, "eventType")
           texts == [name \in Names(kind) |-> Text(event.members, name)]
<1>1. Convertible(event)
  <2>1. ~Convertible(event) => d = Dropped
    BY DEF event_callback
  <2>2. Dropped.delivered = FALSE
    BY DEF Dropped
  <2> QED
    BY <2>1, <2>2, Zenon
<1>2. /\ kind = "message_received"
      /\ d.payload = DecodePayload(message, TRUE) /\ d.timestamp \in Timestamps(message)
  <2>1. event_callback(event) =
          IF kind = "message_received"
          THEN [delivered : {TRUE}, texts : {texts},
                payload : {DecodePayload(message, TRUE)}, timestamp : Timestamps(message)]
          ELSE {[delivered |-> TRUE, texts |-> texts,
                 payload |-> IF kind = "channel_message_received"
                             THEN DecodePayload(event.members, FALSE) ELSE <<>>]}
    BY <1>1 DEF event_callback
  <2> HIDE DEF kind, texts, message
  <2>2. ASSUME kind # "message_received" PROVE FALSE
    <3>1. PICK payload : d = [delivered |-> TRUE, texts |-> texts, payload |-> payload]
      BY <2>1, <2>2, Zenon
    <3> QED
      BY <3>1
  <2>3. d \in [delivered : {TRUE}, texts : {texts},
               payload : {DecodePayload(message, TRUE)}, timestamp : Timestamps(message)]
    BY <2>1, <2>2, Zenon
  <2> QED
    BY <2>2, <2>3
<1>3. NumbersFit(message)
  BY <1>1, <1>2, InputsAssumption DEF Convertible, Is
<1> QED
  BY <1>1, <1>2, <1>3

LEMMA AllOrNothing ==
  ASSUME NEW event \in Events, NEW d \in event_callback(event), d.delivered, "timestamp" \in DOMAIN d,
         Has(Message(event).members, "payload"),
         Is(Message(event).members["payload"], "array")
  PROVE  LET elements == Message(event).members["payload"].elements
         IN  d.payload \in {<<>>, [i \in DOMAIN elements |-> elements[i].number]}
<1> DEFINE message == Message(event).members
           elements == message["payload"].elements
<1>1. d.payload = decodeByteArrayPayload(elements)
  BY Received DEF DecodePayload, Is
<1>2. CASE \A i \in DOMAIN elements : IsByte(elements[i])
  <2>1. ASSUME NEW i \in DOMAIN elements PROVE AsInt64(elements[i].number) = elements[i].number
    <3>1. elements[i].type = "integer" /\ AsInt64(elements[i].number) \in Nat
      BY <1>2, DecodingAssumption DEF IsByte
    <3>2. elements[i].number \in JsonIntegers
      BY <3>1, Received DEF NumbersFit, Is
    <3> QED
      BY <3>1, <3>2, ByteIsItself
  <2> QED
    BY <1>1, <1>2, <2>1 DEF decodeByteArrayPayload
<1>3. CASE ~\A i \in DOMAIN elements : IsByte(elements[i])
  BY <1>1, <1>3 DEF decodeByteArrayPayload
<1> QED
  BY <1>2, <1>3

\* The cast drops the fraction and nothing else.
LEMMA TruncatedIsNear ==
  ASSUME NEW halves \in Int
  PROVE  /\ Magnitude(2 * Truncated(halves) - halves) < 2
         /\ Magnitude(2 * Truncated(halves)) <= Magnitude(halves)
BY DEF Truncated, Magnitude

LEMMA TimeIsNear ==
  ASSUME NEW event \in Events, NEW d \in event_callback(event), d.delivered, "timestamp" \in DOMAIN d,
         Has(Message(event).members, "timestamp"),
         WholePart(Message(event).members["timestamp"]) \in Int64
  PROVE  LET sent == Message(event).members["timestamp"]
         IN  IF Is(sent, "float")
             THEN /\ Magnitude(2 * d.timestamp - sent.halves) < 2
                  /\ Magnitude(2 * d.timestamp) <= Magnitude(sent.halves)
             ELSE 2 ^ MantissaBits * Magnitude(d.timestamp - sent.number) <= Magnitude(sent.number)
<1> DEFINE message == Message(event).members
           sent == message["timestamp"]
<1>1. d.timestamp = WholePart(sent)
  BY Received DEF Timestamps
<1>2. sent.type \in {"integer", "float"}
  BY Received DEF Convertible, Converts
<1>3. CASE Is(sent, "float")
  <2>1. sent.halves \in Int
    BY <1>3, Received DEF NumbersFit
  <2>2. d.timestamp = Truncated(sent.halves)
    BY <1>1, <1>3 DEF WholePart, Is
  <2> QED
    BY <1>3, <2>1, <2>2, TruncatedIsNear
<1>4. CASE ~Is(sent, "float")
  <2>1. sent.number \in JsonIntegers
    BY <1>2, <1>4, Received DEF NumbersFit, Is
  <2>2. d.timestamp = AsDouble(sent.number)
    BY <1>1, <1>4 DEF WholePart, Is
  <2> QED
    BY <1>4, <2>1, <2>2, Near
<1> QED
  BY <1>3, <1>4

(***************************************************************************)
(* The host gets all the numbers of a byte array or none, none of them     *)
(* changed, whatever JSON arrives.                                         *)
(***************************************************************************)
THEOREM ByteArraysWhole == Spec => []ByteArraysArrive
<1>1. Computed => ByteArraysArrive
  BY AllOrNothing DEF Computed, ByteArraysArrive
<1> QED
  BY <1>1, ComputedAlways, PTL

(***************************************************************************)
(* Decoding loses nothing of a text that is well formed, of whatever length*)
(* and padding, and gives a beginning of any other.                        *)
(***************************************************************************)
THEOREM Base64Whole == Spec => []Base64Arrives
<1>1. ASSUME Computed, entry = "event_callback", result.delivered,
             Text(input.members, "eventType") \in {"message_received", "channel_message_received"},
             Has(Carrier(input), "payload"), Is(Carrier(input)["payload"], "string")
      PROVE  LET text == Carrier(input)["payload"].characters
                 again == base64Encode(result.payload)
             IN  IF WellFormedText(text) THEN again = text
                 ELSE \A i \in 1 .. 4 * (Len(result.payload) \div 3) : again[i] = text[i]
  <2>1. PICK text \in Seq(Nat) :
          text = Carrier(input)["payload"].characters /\ result.payload = base64Decode(text)
    BY <1>1, Decoded DEF Computed
  <2>2. Len(base64Decode(text)) = (3 * Readable(text)) \div 4
    BY DecodedIsBytes
  <2>3. WellFormedText(text) => base64Encode(base64Decode(text)) = text
    BY TextReturns
  <2>4. \A i \in 1 .. 4 * (Len(base64Decode(text)) \div 3) : base64Encode(base64Decode(text))[i] = text[i]
    BY <2>2, BeginningReturns
  <2> QED
    BY <2>1, <2>3, <2>4, Zenon
<1>2. Computed => Base64Arrives
  BY <1>1 DEF Base64Arrives
<1> QED
  BY <1>2, ComputedAlways, PTL

(***************************************************************************)
(* A received message's time is the sender's to within the precision of a  *)
(* double, and but for the fraction of one that is no integer, wherever the*)
(* double is in std::int64_t's range.                                      *)
(***************************************************************************)
THEOREM TimestampsNear == Spec => []TimestampsAreNear
<1>1. Computed => TimestampsAreNear
  BY TimeIsNear DEF Computed, TimestampsAreNear
<1> QED
  BY <1>1, ComputedAlways, PTL
=============================================================================
