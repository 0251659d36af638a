# Verification of the Logos delivery module

TLA+ specifications of `delivery_module` (`src/delivery_module_plugin.{h,cpp}`,
`src/api_call_handler.h`): the module that runs a Logos delivery node for a host
process on top of the asynchronous C library `liblogosdelivery`. TLC checks the
specifications on small instances; TLAPS proves the theorems listed below for every
value of the constants.

In comments of the modules, `cpp N` is line N of `src/delivery_module_plugin.cpp`,
`header N` of `src/delivery_module_plugin.h`.

## 1. The system

| Component | State | Operations | Modelled by |
|---|---|---|---|
| Managed-node lifecycle (cpp 629-1555) | `lifecycleState`, generation, epoch, sequence, the pending action, all under `lifecycleMutex`; `deliveryCtx` and listeners under `createNodeMutex` | `nodeStatus`, `nodeAction`, legacy `createNode`/`start`/`stop`, initialize and destroy workers, start/stop callbacks | `NodeLifecycle` |
| Operation ledger (cpp 759-773, 808-856) | `lifecycleOperations`, `completedLifecycleOperationIds` (at most 128) | record, replay, conflict, settle, expire | `NodeLifecycle` |
| V1 contract (README.md, header comments) | node state, operation in flight, outcomes | accept, succeed, fail, no-op, refuse | `NodeContract`, `NodeLifecycleRefinement` |
| Blocking API calls (`api_call_handler.h`) | map of pending calls keyed by address, semaphore per call, reference-counted bridge | register, invoke, wait, time out, answer | `ApiCall` |
| Context creation (cpp 1075-1187) | its own map of pending calls, the created context | dispatch, wait, time out, late callback | `CreateCall` |
| Callback registry (cpp 237-313, header 371-442) | registry handle -> context, `activeCallbacks`, retained handles | construct, acquire, release, close, drain, free | `CallbackTeardown` |
| Threads and destructor (cpp 373-421, 1233-1271) | `createNodeMutex`, `lifecycleWorkerMutex`, two worker slots, event handlers on the stack of whoever emits | launch, join, detach, test and use the context, destroy | `ModuleThreads` |
| Lifecycle events (cpp 723-757, 1019) | events built under `lifecycleMutex`, emitted outside it | build, emit | `ModuleThreads` |
| Request validation (cpp 92-129, 1416-1528) | none | accept or reject a JSON request | `Requests` |
| Configuration defaults (cpp 527-627) | none | fill in ports and storage path | `ConfigDefaults` |
| Event decoding (cpp 143-178, 423-525) | none | FFI JSON to host event | `EventDecoding` |
| API wrappers (cpp 1557-1873) | none; read `deliveryCtx` without a lock | send, subscribe, storeQuery, channels, node info, metrics | `ApiWrappers`, `ApiCall`, `ModuleThreads` |
| `liblogosdelivery`, mocks, tests, build | - | - | external: environment actions only |

How they interact. Host threads call the public interface concurrently; FFI threads call
back at any time. A V1 `nodeAction` is admitted under `lifecycleMutex`, acknowledged, and
carried out by a worker thread (initialize, destroy; serialised by `createNodeMutex`) or by
an FFI call on the caller's thread (start, stop) whose completion comes in a callback. Both
ends meet again in `settleLifecycleAction`. The legacy surface shares the machine but does
not ask whether it is busy: it supersedes the pending operation. Creation and all other
blocking calls wait on a semaphore that an FFI callback finds through a map keyed by an
address. Callbacks that outlive a call reach the module through a process-wide registry,
and the destructor waits until the leases taken there are returned.

What is hard. Completions of superseded actions; state checked under one lock and used
under another or none; failure in the middle of registering, removing or destroying;
timeouts racing the answer; addresses used again; a destructor racing its callbacks; event
handlers that run inside the module, under its mutexes, and call it again; numbers that
change their width on the way through JSON, `double` and `int`.

What makes each part correct. Lifecycle: a settled outcome is final, the snapshot is a
sound compare-and-set, what it offers is what is admitted, state, context and listeners
agree, every accepted action settles. Ledger: remembers exactly the settled operations,
bounded, forgets no undecided one. API calls: each call returns once with its own answer,
bridge and waiter are released exactly once. Creation: a context has exactly one owner.
Teardown: no callback uses a dead or a wrong instance, and the destructor returns. Threads:
every event is heard once, acceptance before settlement; nobody waits for ever; the context
is alive when it is used. Inputs: what passes a check is what the next function takes for
granted, and conversions lose nothing the host can miss.

## 2. The modules

- **NodeLifecycle** - one action per critical section or FFI call. `Reject`, `NoOp`,
  `Accept`, `Resubmit` are the ways out of the strict part of `beginLifecycleAction`;
  `LegacyCheck`/`LegacyBegin` the unlocked pre-check and the superseding begin of
  `createNode`/`start`/`stop`. A dispatched action is a record in `calls`, named by its
  generation, that goes through stages: `accepted` -> `launched` -> `locked` -> `awaiting`
  -> `created` -> `done` (initialize), ... `unhooked` -> `done` (destroy), `calling` (start,
  stop). A thread about to enter `settleLifecycleAction` is a record in `settling` with the
  arguments it will pass and, in `from`, the dispatch it is completing; `SettleLive` and
  `DropStale` are the two outcomes of the generation check. `callbacks` are the completions
  the FFI owes. `listeners` abstracts the id vector and `eventListenersReady`. A worker stays
  `done`, holding `createNodeMutex`, until its settlement is through (the mutex is released
  when the function returns).
- **NodeContract** / **NodeLifecycleRefinement** - the abstract interface, and the mapping
  under which NodeLifecycle without legacy callers implements it: while an operation is
  pending the contract's node is where the operation found it.
- **ApiCall** - caller stages `registered` (in the map) -> `dispatched` (inside the C
  function) -> `waiting` -> `returned`, `expired` between the timed-out wait and the erase;
  callback stages `entered` -> `taken` -> `resolved` -> `done`. `callApiRetVoid` and
  `callApiRetValue` differ only in the value returned.
- **CreateCall** - the same pattern in `createNodePrepared`, plus the ownership of the
  created context. `logosdelivery_destroy` may fail: where its result is discarded (cpp 1109,
  1170) the context stays behind `undestroyed`; where it is looked at (cpp 356-371) the module
  keeps the context and may try again. A dispatch the FFI refuses (`DispatchFails`) may have
  had its callback before.
- **CallbackTeardown** - instances, opaque handles and callbacks; `waitForCallbacks` in its
  steps (lock, test, sleep), `releaseCallback` in its two (decrement, notify under lock).
- **ModuleThreads** - each thread is a stack of frames: level 0 is its own call
  (`nodeAction`, a worker, a callback, the destructor), the levels above are what event
  handlers called. `at[f]` is the frame's next step: a frame that emits goes `emitting` ->
  `handling` -> on, and during `handling` the handler may call `nodeAction` or destroy the
  module one level up. `dispatching` leads to `launch*Worker` (`joining` with
  `lifecycleWorkerMutex` held) or to `startPrepared`/`stopPrepared` (`binding`: tested, then
  `calling`: read again and used). A worker goes `locking` -> `working` -> `registering` or
  `clearing` -> `settling` -> `leaving` -> `ended` and holds `createNodeMutex` in between, its
  handlers included. The destructor is the stages of `DestructorStages`. The node itself is
  only its last settled state and the operation in flight: what an action does to it is
  NodeLifecycle's matter, and of that only the ways out are kept.
- **Requests**, **ConfigDefaults**, **ApiWrappers**, **EventDecoding** - the functions that
  keep no state, as operators. A JSON value is a record with its type and what the code
  reads of it; a key of a configuration is a field and a spelling; a base64 text is the
  sextets of its characters, `Pad`, or characters that are neither.
- **ModuleInputs** - one input at a time crosses the border into one of these functions; the
  properties relate what goes in to what comes out.
- **MCNodeLifecycle**, **MCModuleInputs** - the symmetry set and the inputs for TLC; the other
  modules are run as they are.
- **NodeLifecycleProofs** <- **NodeLedgerProofs** <- **NodeContractProofs** (each extends the
  one before), **ApiCallProofs**, **CreateCallProofs**, **CallbackTeardownProofs**,
  **ModuleThreadsProofs**, **ModuleInputsProofs** - theorems.

Abstractions. Messages, JSON, error texts and timestamps are left out; an error is the
action that failed. A request is its action and the snapshot it expects; an operation id or
address is a model value; a payload is the identity of the call it answers. `instance_id`
does not change during an instance's life and is left out of the snapshot. The FFI is a set
of environment actions: it may answer at any time, with success or error, or never; a call
it refuses it does not answer later, unless it already has. The check of `deliveryCtx` in
`startPrepared` and the FFI call after it are one step in NodeLifecycle and two in
ModuleThreads.

## 3. What the runs show

| Run | Question | Bounds |
|---|---|---|
| `lifecycle_v1` | For a V1 host: is the snapshot versioned, the ledger consistent, `supported_actions` exactly what is admitted, every settlement the right one's and final, state = context = listeners; and does that lifecycle implement `NodeContract`? | 2 ids, ledger capacity 1, sequence up to 7 |
| `lifecycle_mixed` | With a legacy caller: no orphan listeners; does every accepted operation settle if the FFI answers, do initialize and destroy settle if it does not, and does the lifecycle always come to rest? | 1 id, 1 legacy thread, sequence up to 4 |
| `api_call` | Exact accounting of bridges, map entries and waiters, whose answers can go astray, return | 3 calls, 2 addresses used again |
| `create_call` | One owner per context, which contexts can be lost or go astray, return, contexts come to rest | 3 attempts, 2 addresses used again |
| `teardown` | Callbacks against destructors and new instances; the drain ends | 2 instances, 2 handles, 3 callbacks |
| `module_threads` | Every event once, acceptance before settlement, workers' events in order, workers gone before the module, contexts used alive, nobody waits for ever | 1 host, 1 wrapper and 1 callback thread, a worker per operation, handlers one level deep, sequence up to 4 |
| `inputs` | Are admitted requests usable, defaults only filled in, store queries outwaited, byte arrays and base64 delivered whole, times as near as a double is? | every boundary value and its neighbours; ids of 2 bytes, 10-bit integers, doubles of 5 bits, base64 texts of up to 8 characters, whole, damaged and cut |

Bounds. `MaxSequence` stops new actions, never the completion of one begun: with 7 a V1
run takes initialize, start and stop (or destroy) through to their settlement, or two actions
among rejections and no-ops; a capacity of 1 makes every second settled operation expire
another, which at 128 takes 129. Two ids suffice for one operation in flight and one that is
rejected, replayed or expired meanwhile. With a legacy thread, 4 admits three superseding
actions. In ApiCall and CreateCall three calls at two addresses are the least in which an
address is used again while another call is still in flight; an allocator that reuses
addresses may also not do so, so these runs include the fresh ones. Three callbacks over two
instances are enough for a lease, a late arrival and one in between. In ModuleThreads a
sequence of 4 admits initialize with start or destroy after it and up to four calls at once,
from the host, from workers' handlers and from the callback thread's: every pair of threads
that share a mutex or a slot. A handler's call whose own event's handler calls again is one
level more than the run has; it meets the same mutexes in the same order, and the theorems of
`ModuleThreadsProofs` have no such bound. The functions
behind `inputs` compare with their limits and never count up to them, so a limit may be small.

Fairness. `FairSpec` of NodeLifecycle has weak fairness for the module's own steps: its
threads are scheduled, synchronous FFI calls return, the 30 s timeouts pass. That the FFI
calls back after every accepted start and stop is not in it but is the hypothesis
`FfiAnswers` of the properties that need it: `startPrepared` and `stopPrepared` wait without
a timeout, so the code settles them only through the callback. The host is never assumed to
act. In ApiCall and CreateCall only the waiter's and an entered callback's threads are fair;
in CallbackTeardown a destructor that began and callbacks that hold a lease. In ModuleThreads
handlers and synchronous FFI calls return, and some thread that can go on does: two
conditions, one for the callback thread, which liblogosdelivery may keep busy for ever, and
one for all the others, whose work is bounded, so that no thread is starved by this one.

### Disagreements with the documentation

Five runs find a property, taken from the repository's documentation, violated:

1. `lifecycle_stranded` - a legacy action that supersedes another saves the transient state
   as the one to restore (cpp 945). If its dispatch fails at once, the node rests in, for
   example, `starting` with nothing pending and no supported action.
2. `lifecycle_late_callback` - a start/stop callback settles whatever operation of its action
   is active (cpp 1029), so a superseded start's completion settles the next one.
3. `lifecycle_orphan_context` - `createNode` checks and begins in two critical sections (cpp
   1369-1378); a raced one settles at `uninitialized` with a live context.
4. `api_call_stray_answer` - a late answer resolves a later call at the same address.
5. `teardown_early_free` - the last callback decrements the count before it locks the mutex
   (header 396-398); a destructor testing in between frees the context.

1-3 need a host that mixes the legacy and the V1 surface, or two legacy threads; the passing
run `lifecycle_v1` and the theorems of `NodeContractProofs` show that a V1-only host meets none
of them. 4 needs a timeout and an
allocator that reuses the address: `StrayAnswersFollowATimeout` states that nothing else
leads there - the call whose answer went astray timed out or was itself given a stray, and
some call at that address timed out - and `StrayContextsFollowATimeout` the same of created
contexts.

Four more disagreements have no run of their own. First, a context whose callback finds the waiter
just before `try_acquire_for` gives up is reported as a timeout and never destroyed, although
header 107-108 promises `true` for it. It is one of the three ways to lose a context that
`LostOnlyByGivingUp` leaves open:

- the attempt it came in for had timed out (cpp 1149-1161);
- the dispatch of that attempt was refused, after its own callback had run or while an earlier
  attempt's context had come in at the same address: the error return does not look at what
  came in (cpp 1135-1145);
- the one destroy tried on it failed, and with the discarded result the handle is freed (cpp
  1109-1110, 1170-1171).

Second, README.md 127-129 says that every accepted action "returns a correlated
acknowledgement first and settles through `nodeChanged(event)`", while `nodeAction` emits and
dispatches before it returns (cpp 1533-1554), so a host can hear of the settlement before it
has the acknowledgement; what does hold is `AcceptedFirst`, that the *event* of acceptance
comes before that of settlement.

Third, README.md 133 and the header (62) say that the configuration is passed verbatim,
README.md 160-161 that `kernelConf` is used "as-is", architecture.md 29-30 that the module does
not interpret it. `applyConfigDefaults` adds ports and a storage path to both shapes (cpp
571-627), as the tests expect (test_delivery_module.cpp 376-410); what does hold is
`DefaultsOnlyFill`, that nothing the host gave is changed.

Fourth, api_reference.rst 27-28 says that `messageReceived` reports the `int64` timestamp the
message carries. It is read as a double (cpp 486): nanoseconds since the epoch need more than
its 53 bits, and the last int64 numbers round out of the range of the cast, which is then
undefined. `TimestampsAreNear` says how far off the time can be where its double is in range;
elsewhere nothing can be said.

`WrappersUseLiveContext` and `WorkersEndBeforeModule` each leave one case out, and say which:
a wrapper between whose test and use some thread took `createNodeMutex` may use a freed
context, and a worker launched after the destructor took the slots over is joined by nobody.

## 4. What is proved

Every invariant and action property of the passing runs, and the refinement of
`NodeContract`, is a theorem for arbitrary constants under the modules' named assumptions
(`LifecycleAssumption`, `ApiCallAssumption`, `CreateCallAssumption`, `TeardownAssumption`,
`ThreadsAssumption`, `RequestsAssumption`, `WrappersAssumption`, `DecodingAssumption`,
`PowersOfTwo`, `InputsAssumption`). So are the type invariants of ApiCall, CreateCall and
CallbackTeardown, which no run repeats. Where an invariant is not inductive the strengthening
is named below; TLC checked each on the run's instance before it was proved.

**Lifecycle, with legacy callers** (`NodeLifecycleProofs`, `NodeLedgerProofs`)

- `TypeCorrect`: `Spec => []TypeOK`, for any set of ids and legacy callers. Each action has a
  lemma; the ledger's expiry is the lemma `RetireType`.
- `ListenersHaveAContext`: `Spec => []NoOrphanListeners`. `MutexInv` says that at most one
  dispatched action is past taking `createNodeMutex`, and what context and listeners are at
  each of its stages.
- `LedgerCorrect`: `Spec => []LedgerConsistent`. A job settles the operation id it carries,
  guarded only by generation and action. `LedgerInv` adds `Numbered`: nothing has a generation
  beyond the current one, and what has the active generation has the active operation's id and
  action. `RetireTidies` is the lemma on the bounded deque.
- `SettledStaysFinal`: `Spec => SettledIsFinal`, from the same invariant.

**Lifecycle, for a V1 host** (`NodeContractProofs`). These theorems have `LegacyCallers = {}` as
a hypothesis, a host that uses nodeStatus/nodeAction only; three violation runs show what
a legacy caller breaks.

- One invariant, `InCharge`, carries all of them: an operation that was accepted is at any
  moment with exactly one of a call, an answer the FFI owes and a job (`OneCallEach`,
  `AnswersAwaited`, `JobsFit`), the transient state names its action (`ActiveNamed`), it started
  where the contract says (`SourceKept`), and context and listeners are what its stage needs
  (`ContextFits`). The lemma per action is `...InCharge`.
- `CompletionsCorrelate`, `ContextFollowsState`, `RunningIsHeard`, `OffersAreHonest`,
  `NeverStranded` follow from it at once. `CompletionsCorrelate` and `NeverStranded` are the
  properties that `lifecycle_late_callback` and `lifecycle_stranded` find violated when a
  legacy action supersedes one.
- `SnapshotsIdentify`: `SnapshotIsVersioned` relates a state to one the host saw earlier, so its
  proof goes through `StepKinds`: a step takes a new sequence number, or leaves everything a
  snapshot shows as it was.
- `ImplementsContract`: `Spec => KeepsContract`. `NodeActionMaps` and `SettleMaps` show which
  steps are the contract's, `StepMaps` that the others change nothing it can see.

**Blocking calls and creation** (`ApiCallProofs`, `CreateCallProofs`), for any number of calls and
addresses

- `TypeCorrect`, `BridgeExact`, `EntriesAreLive`, `ReleasedOnce`. `BridgeInv` adds that a call
  whose callback has not been invoked is still owed it, and one whose callback began has closed
  the C side (why the error path of `bindApiCall` may read `callbackInvoked`). `WaiterInv` adds
  that two calls in flight never share an address and that a waiter is in one place only.
- `StraysNeedATimeout` (ApiCall): an answer reaches another call only at the address they share,
  once its own call timed out or was itself given a stray, and after some call at that address
  timed out. The violation run `api_call_stray_answer` shows that it does get there.
- `OneOwner`: `Spec => []OwnersExcludeEachOther`. `OwnerInv` follows a context on its way: a
  callback that is not done gave it to nobody, one object has it then, and once the module has
  it that object's attempt has returned; what a destroy was tried on nobody has. CreateCall's
  `TypeCorrect` is part of it.
- `StraysNeedATimeout` (CreateCall): the same of created contexts. `LossesNeedGivingUp`: a context
  is lost in the three ways section 3 names and no other, whichever destroys fail; the lemma
  `Discarded` follows a failed destroy to the error createNode reports.

**Teardown** (`CallbackTeardownProofs`)

- `SenderReached`, because a handle's address is taken while its instance lives and retained
  from then on; `OwnerOutlives` and `TypeCorrect`, because `activeCallbacks` is the cardinality
  of the set of leases (`LeaseInv`), no lease is taken once the registry has dropped the
  instance, and the drain ends at zero.

**Threads** (`ModuleThreadsProofs`), for any number of host threads, wrapper calls and operations,
and handlers that call again to any depth

- `TypeCorrect`, from `FrameInv`: what a frame at each stage can be about (`Shaped`), that
  operations' numbers were given out (`Numbered`), and that one frame dispatches each (`OneHand`).
- `AcceptedIsHeardFirst`, from `OperationsInv`: `ChargeInv` says that while the module lives the
  operation on its way is the active one, is with one frame, and is owed an answer only once it
  was called for; `Announcements` that whoever may settle an operation has announced it, or emits
  the announcement first.
- `EventsAreAccountedFor`, from `EventsInv`: numbers that were given out, heard or held, once each.
- `QuietWrappersAreSafe` and `StartAndStopCallALiveNode`, from `SharedInv`. `MutexInv`: a worker
  past its lock, its handlers included, is the holder of `createNodeMutex`; `ContextInv`: the
  pointer is dangling only while that holder clears it. No lock protects `startPrepared` and
  `stopPrepared`: being the active operation keeps `destroy` from being accepted, so the second
  theorem needs `ChargeInv` too, and ends where the destructor begins.
- `WorkersSpeakInOrder`, from `InOrder` and `NestedEvents`. TLC's bound of one level of handlers
  hid that a stronger statement is false: calls nested in one worker's handlers may emit a
  later number before an earlier one. `WorkerEventsInOrder` therefore says what does hold at every
  depth, and the theorem proves it.
- `JoinedBeforeGone`, from `EndInv`: a worker that has not ended is in a slot, in the destructor's
  hands, or the thread the destructor runs on.

**Inputs** (`ModuleInputsProofs`)

- `CommandsUsable`, `QueriesAnswered`, `DefaultsFill`, `ByteArraysWhole`, `Base64Whole`,
  `TimestampsNear`, for all inputs of the types in `InputsAssumption` and all limits and widths.
  `Computed` says that results come from the functions only. For the defaults, `Found` shows that `findKey` finds what is there,
  `FillFills` that filling is right and idempotent in one object, `Inside` and `Flat` that the
  object chosen the second time is the one chosen the first. For events, `ByteIsItself` shows
  that an integer that is a byte after the cast to `std::int64_t` was one before, `Spaced` that
  every integer has a spacing of doubles, by the least exponent that is large enough, `Near`
  that rounding moves it by half of that at the most, and `TruncatedIsNear` that the cast of a
  double drops less than one. For base64, `Quad` shows of four sextets that
  the three bytes made of them give them back, `QuadReturns` the same of the quads of a text, the
  last one included, and `Lengths` that padding and the number of bytes agree. The provers know nothing of `^`, so
  `PowersOfTwo` states of the constant `Width` the two facts of arithmetic they need; they are
  true of every number, and TLC evaluates them on the run's.

Only model-checked: liveness (`EveryOperationSettles`, `WorkersSettle`, `EventuallyIdle`,
`EveryCallReturns`, `CreateReturns`, `ContextsComeToRest`, `DestructorReturns`,
`ThreadsReturn`), which like every use of fairness is outside the prover's reach.

## 5. Assumptions that come from outside the code

- The FFI makes at most one terminal callback per accepted call, and after refusing a call
  none except one it made before refusing.
- `logosdelivery_destroy` is synchronous (as cpp 1344-1346 says).
- A JSON integer is a `std::int64_t` or a `std::uint64_t`, as nlohmann::json keeps it; any other
  number is a double (`NumbersFit`), given in halves where a timestamp is one.
- base64 is read and written by Boost, modelled from how the module uses it: decoding stops at
  the first character that is not of the alphabet.
- `std::thread` construction and lock acquisition fail only where the code handles it.
- Event handlers return. Once the destructor has begun they begin no further action
  (`HandlerCalls` of ModuleThreads): the destructor ends the operation in flight, two of their
  calls could then be accepted at once, and the first would wait, in `lifecycleWorkerMutex`,
  for a worker whose handler waits for that mutex.
- A host destroys the module when none of its own threads is in a call. A destructor that a
  handler runs is modelled and cannot finish (`SelfDestructing`): the worker below it holds
  `createNodeMutex`, the callback below it a lease.

## 6. Plan and what is not modelled

Done: the lifecycle with its contract and refinement, blocking calls, creation, teardown,
threads with events, and the functions at the border; the theorems of section 4. Left:

1. Proofs: an abstract specification of events (each number once, acceptance before settlement)
   that ModuleThreads implements, from `OperationsInv` and `EventsInv`; the V1 theorems with
   legacy callers that call only while nothing is pending; for the liveness properties the
   safety part, that in every state that is not at rest the step fairness speaks of is enabled,
   as far as it can be said without ENABLED.
2. Legacy callers in ModuleThreads: `createNode` takes `createNodeMutex` on the caller's
   thread, which a handler must not do under a worker.

Not modelled: the text of acknowledgements, snapshots, errors and log lines; the JSON
parser; `liblogosdelivery` beyond the calls it answers; tests, mocks and build files.
