# TLA+ models of paho-mqtt-vast

A verification development for the MQTT binding of VA Smalltalk (VAST): a C connector library (`src/c/source`)
that carries the callbacks of the Paho MQTT C client into Smalltalk, and a Smalltalk layer (`src/source`) that wraps
the Paho structures and decides who frees their memory. The modules here are translated from that code, checked with
TLC on small instances and, where said below, proved with TLAPS for all values of the constants.

## 1. The system

    MQTTClient, MQTTClientBuilder, options, messages, properties        Smalltalk
      |  call engines (FFI)                 ^ asynchronous messages
    MQTTLibraryDispatcher                   | evaluated by the VM thread
      |                                     |
      |            MQTTMemoryTracker        |
    --|-------------------------------------|----------------------------------
      |             EsMqttUserPrims --> EsMqttLibrary                     C
      |                     |               |
      |             EsMqttCallbacks --> EsMqttAsyncMessages --> VM queue
      |                     ^           (EsWorkTask, EsWorkQueue,
    Paho MQTT C  -----------+            EsMqttAsyncArguments, EsProperties)

The C modules share memory between the VM thread and the threads of Paho. The Smalltalk classes share class variables
between the processes of the image, the finalizer and a monitor process. The two halves meet in the VM's queue of
asynchronous messages and in the native memory that Smalltalk objects point to.

### C components

| Component | State | Operations | Hard behaviour | Correct when |
|---|---|---|---|---|
| Synchronous work queue, `EsWorkQueue.c` | `state` (IDLE, BUSY, SHUTDOWN), `numTasks`; no container: a submitter spins until it may run its own task | submit, shutdown, free, getSize | lock-free; shutdown and free race submitters and each other | one task at a time, exact counter, nothing runs after shutdown, nobody inside a freed queue, a call is kept only by other calls |
| Work task, `EsWorkTask.c` | run function, user data, properties | new, run, free, accessors | a task is run by the thread that submits it | run once |
| Asynchronous messages, `EsMqttAsyncMessages.c` | target table (receiver, selector per callback type), its rwlock, `globalInfo` | module init and shutdown, newInit, send, submitToAsyncQueue, handlers, split of pointers | callbacks of several threads against registrations; failure of the post | whole targets, order, no loss, no duplicate, pointers that outlive the callback |
| Asynchronous arguments, `EsMqttAsyncArguments.c` | none: deep copies | copy of messages, properties, strings | ownership of what lies behind a pointer | a copy shares nothing Paho frees |
| Callbacks, `EsMqttCallbacks.c` | table of C callbacks | seven callbacks, register | arguments travel by position through a `va_list` | Smalltalk gets what Paho passed |
| Library life cycle, `EsMqttLibrary.c` | UNINIT, INIT, SHUTDOWN | init, shutdown | the state is published before the modules are initialised | whoever is past init finds a ready library |
| User primitives, `EsMqttUserPrims.c` | none | register, checkpoint, version | run on the VM thread, which also evaluates the queue | a checkpoint flushes the queue |
| Property dictionary, `EsProperties.c` | linked list of key and value pointers | new, free, atPut, at, atIndex, removeKey, getSize, includesKey, valueEquals | ownership of values, memory running out | an ordered map with unique keys; each value freed once |

### Smalltalk components

| Component | State | Operations | Hard behaviour | Correct when |
|---|---|---|---|---|
| Memory tracker, `MQTTMemoryTracker` | weak set of smart refs, table of weak refs by address, bin of refs to free, monitor process | track, remove, schedule, expunge, startUp, queries | collector, finalizer, monitor and application interleave; image restart | memory freed once, by its owner, in the end; no dangling weak ref |
| Native structures, `MQTTStructure` | address, `ownsMemory`, dispatcher | create, asWeakReference, free, freeRef, resetForImageStartup | free by hand and by finalizer, addresses used again | as above |
| Library dispatcher and call engines, `MQTTLibraryDispatcher`, `MQTT*CallEngine` | default instance, initialised flag, one shared engine of each kind | default, initialize, reset, call, release | initialisation by two processes; an engine swapped during a call | Paho initialised once before the first call |
| Client builder, `MQTTClientBuilder` | option dictionaries, client | build, connect, the structures of one connect | structures referred to by address only while a connect runs | what a connect reads is alive, and is freed once after it |
| Client, `MQTTClient` | handle, context, trace entry point | connect, disconnect, publish, wait, trace, free | tracing is global to the library; free against callbacks | a freed client has no handle; tracing can be stopped |
| Messages and properties, `MQTTMessage`, `MQTTProperties`, `MQTTProperty` | payload pointer, embedded properties, property array | payload:, properties, add:, free | memory given to Paho; embedded structures | each part freed by one side |
| Options, `MQTTClientConnectOptions`, `...Will...`, `...Ssl...`, `...Create...`, `...Init...` | fields that point to strings and structures | setters, nativeFree | nested ownership | everything a structure allocated is freed with it |

Not code to model: FFI tables (`MQTTPlatformFunctions`), constants, version strings, exceptions, persistence (a
structure of function pointers), tests, generated documentation, VM headers (`c/include/es`), build files.
External, and modelled only from how the code uses them: the Paho library, the VM's asynchronous queue and its
collector, the `plibsys` locks and threads, the allocator.

The hazards, one per place in the code, are listed in `PROJECT.json` with the properties that watch them.

## 2. Modules

| Module | Models | Composes or refines |
|---|---|---|
| `TaskQueue` | what the header promises of a work queue | abstract specification |
| `EsWorkQueue` | `EsWorkQueue.c`, `EsWorkTask_run` | implements `TaskQueue` |
| `EsWorkQueueProofs` | | theorems about `EsWorkQueue` |
| `HiLow` | the split of an address into two immediates, and the SmallIntegers that immediates travel as | used by `EsMqttAsyncHandlers` |
| `EsMqttAsyncHandlers` | what the arguments of each callback go through: the callback, its case of `newInit`, its handler | used by `EsMqttAsyncMessages` |
| `EsMqttAsyncHandlersProofs` | | theorems about both |
| `AsyncChannel` | what the connector promises to Smalltalk: a message looks its target up at one moment and is accepted at one moment or dropped | abstract specification |
| `EsMqttAsyncMessages` | callbacks, messages, targets, library state and primitives together | the composition of the C modules between Paho and the VM; implements `AsyncChannel` |
| `EsMqttAsyncMessagesProofs` | | theorems about it |
| `EsMqttAsyncChannelProofs` | | its order, and that it implements `AsyncChannel` |
| `EsMqttAsyncArguments` | the memory behind a message: `EsMqttAsyncArguments.c`, `EsWorkTask.c`, the allocations of `EsMqttAsyncMessages.c` | the calls of `EsMqttAsyncMessages`, seen as blocks of memory |
| `EsMqttAsyncArgumentsProofs` | | theorems about it |
| `PropertyMap` | what `EsProperties.h` promises | abstract specification |
| `EsProperties` | `EsProperties.c` and a client's strings | implements `PropertyMap` |
| `EsPropertiesProofs` | | theorems about it |
| `MQTTMemoryTracker` | the tracker, creation and free of structures, the transfer of a property to a list, collector, finalizer, monitor, startup | |
| `MQTTMemoryTrackerProofs` | | theorems about it |
| `MQTTClientBuilder` | connecting a client: dispatcher initialisation, builder, option structures, client handle | uses the ownership rules of `MQTTMemoryTracker` in one step (`Collect`) |
| `MQTTClientBuilderProofs` | | theorems about it |
| `MC...` | values of the constants for TLC | |

**EsWorkQueue.** One action per access to shared memory, per thread: `EnqueueInc` is the `I_INC`, `EnqueueCas` the
compare-and-exchange, `EnqueueIdle` the plain store of IDLE, and so on; `pc` says where a thread is. `task`, `runs` and
`ledger` follow each task. A thread that touches a freed queue goes to `undefined`. The queue is made with a structure of
function slots (`initWorkQueue`, overridden by `EsSyncWorkQueue_new`); every interface function goes where its slot says
(`Entry`), and a slot that nobody overrode leads to a function that does nothing (`Generic`). A task counts as waiting in
`TaskQueue` from the moment submit is called. A task that has run or was cancelled may be submitted again, without a bound: nothing in the
code counts submissions, and the state stays finite because a task's past does not matter. The client contract is the guard `SafeToFree`: without it (`RacyFree = TRUE`)
the code is wrong, see 4.

**EsMqttAsyncHandlers.** The seven callbacks, the seven cases of `newInit` and the seven handlers are operators of their own,
each with the arguments in the order the C code writes them down. An argument is a 64-bit slot: what it is, how many of its
bits are left, who owns the memory it points to, and the address if it is a copy. A slot read as an `I_32` keeps its low half, whatever
the other side stored there: that is what happens to the context of `connectionLost`, which `newInit` reads as an `I_32` where the
other cases read a pointer (`EsMqttAsyncMessages.c:485`). The copies answer something undefined for a slot that is not a whole pointer of
their type, so that a shifted or truncated argument shows. An immediate keeps the low word: a negative integer comes back as that
word, without its sign, from the model's `EsSmallIntegerToI32`. `Expected` says, from the prototypes of Paho, what Smalltalk is to
get. A `NULL` pointer is left to `EsMqttAsyncArguments`.

**EsMqttAsyncMessages.** A step is one access to the library state, `globalInfo`, the lock, the table or the VM queue. A primitive with an argument that is no type initialises the library and
is then refused (`BadCall`, `Refuse`). `Evaluate` is the VM taking the first message. `after` records which calls had
returned when a call began, so that real-time order can be stated. Undefined behaviour (a free of memory never
allocated, a read of a freed message, a `NULL` context) is recorded in `faults` and the process aborts or goes on. A message without a target is freed and then used: it keeps its
contents or other threads have written over it, and then the post carries anything, or there is no handler for its type. What is posted for it still goes
to the target `submitToAsyncQueue` stored in it a moment before. Shutdown waits in the model until nothing is inside, and nothing comes in afterwards: the
interface implies it, the code does not enforce it.
The types of the callbacks in use are a constant; the proofs are for all seven. The refinement mapping to `AsyncChannel`
lets a registration take effect when the writer stores the first half of the pair, for no reader gets in before the second,
and a lookup when the reader loads the second half.

**EsMqttAsyncArguments.** The blocks of a call have names: what Paho passes (`string`, `topic`, `message`, `payload`, `properties`,
`list`), the message and its task, the first copy that `newInit` makes and the copies the handler makes; `heap` says which
are allocated. A step is a part of a call between two points where Paho or Smalltalk can see it: Smalltalk may have
evaluated a message and freed its arguments before the callback that posted it returns. The contract, from how the code
uses Paho: a message answered with 1 belongs to the application from then on, on 0 Paho keeps it; strings, properties and
their list are Paho's again after the return; Smalltalk frees each argument it was posted with the `nativeFree` of its class
(`MQTTMessage.class.st:168`, `MQTTProperties.class.st:208`), which frees what lies behind it too; the note at `EsMqttAsyncArguments.h:16-19`
names `EsFreeMemory`, which frees the structure alone. `text` holds the bytes of strings, with `?` for a byte nobody wrote. Each allocation may fail: of the
message and the task, as the code handles it; of a copy, which aborts the process. `disconnected` is left out
(it copies its context, see 4), and so are locks and order.

**EsProperties.** Addresses of nodes and strings are explicit, so that unlinking, copying and freeing are what the C
code does; `Nth` is the walk with `next`. A copy that finds no memory leaves a node without a value; `uncopied` remembers for which keys.
`PropertyMap` allows such a pair, as the code has it. The queries are operators over the list. The memory for nodes is finite
(`NodesAssumption`), which bounds the walk; no bound on its size is assumed.

**MQTTMemoryTracker.** Creation is divided as the code is: the address (allocated by `Create`, or read by `AsWeakReference`), the object
(`Instance`), its `ownsMemory` (`OwnsMemory`, which raises if a startup has set it), and `Track`, which goes by the argument of `ownsMemory:` and
not by what a startup made of the object meanwhile. `critical` blocks exclude each other and nest. A block that does one thing is one step; the
expunge, which frees refs inside its block, holds `lock` over many. `Add` gives the memory of a property to a property list in three
steps; what the list makes of it is external. `proc` is where each process is in its call, with
the call's locals. `Collect` takes any tracked ref that no variable, argument, bin or finalizer reaches out of its weak
set; `Reclaim` lets the object go, so that `Refs` and `Blocks` bound only what exists at once. `heap` records the ref
a block was allocated for, which makes a second free visible even after the address was used again. Contract: a ref is
used by one process of the application. Three more things are asked of the application, each dropped by a constant: it borrows from
refs that own their memory (`Reborrows`), it adds such refs only to a property list (`AddsBorrowed`; `MQTTProperties>>add:` does not
test it), and it does not save the image while a process knows an address that no object has yet (`SavesAnytime`). See 4 for what
becomes of the properties without.

**MQTTClientBuilder.** Each process has a builder of its own and goes through `connectClient:` in the order of the methods it
calls: `GetClient`, the initialisation of the library if there is no default dispatcher, `BuildClient`, the build of the
connect, will and ssl structures, `Connect`, `FreeConnectOptionsStruct`. Two processes may be in the initialisation at once, for
nothing in `MQTTLibraryDispatcher class` excludes it. `owner` says who refers to the smart ref of a structure: the process whose
call holds it in a variable, `Forgotten` (the collector, and then the tracker, may take it), or nobody. `Collect` stands for what
`MQTTMemoryTracker` does with a forgotten ref in many steps. `texts` are the copies of strings that the setters put in native
memory, in the order the setters run. Every failure on the way is a disjunct: no shared library, OpenSSL, the native create, a success with a
`NULL` handle, a connect that Paho refuses, an exception in any setter of any of the structures, which leaves the texts copied so far, and a
will whose message is invalid, which is created, filled and freed again. The handler of `connectClient:` is a step of its own (`Exception`): until the
application's block has run, the call still holds what it had. `told` means that Paho's `global_init` was
called. After a startup a builder's dispatcher is `"stale"`: the class forgot it and the builder did not. A startup meets
processes between calls, which bounds the model and is not a promise of the code. Asynchronous call engines and
dispatchers that a client passes in are left out.

## 3. What the runs check

| Run | Instance | Shows |
|---|---|---|
| `workqueue` | 3 threads, 2 of them owners, 2 tasks (one without a function), 1 getSize; 204,118 states | all interface functions at once, from the making of the queue on, tasks submitted again and again: mutual exclusion, the counter, no use after free within the contract, terminal shutdown, no call kept by anything but other calls, refinement of `TaskQueue` with its liveness |
| `async` | 1 VM thread, 2 Paho threads, 2 types, 3 targets (one of them unregisters), 2 calls, 2 registrations, queue of 2, memory may run out; 115,348 states | targets are whole, order, no duplicate, each handler's arguments intact and copied, every call returns, everything posted is evaluated, refinement of `AsyncChannel` |
| `arguments` | 2 calls of 5 types, 3 texts (empty, plain, with a null inside), symmetric; 77,325 states | what Smalltalk reaches is alive as long as it holds it, no block is freed by two sides, what a call leaves is bounded, which part of a text arrives |
| `properties` | 3 keys, 3 nodes, 4 strings, 2 texts, symmetric addresses; 5,095 states | no node or value lost or freed twice, both interfaces agree but for keys whose copy failed, refinement of `PropertyMap` |
| `memory` | 1 application process and the monitor, 3 refs, 2 blocks, bin of size 0, 1 startup, 1 block given away before it; 289,819 states | each block freed once and by its owner, none leaked, what is collected owns its memory still, weak refs undefined in time, forgotten memory freed |
| `client` | 2 processes, 4 structures, one set of texts for each kind of option, 1 startup, symmetric; 1,236,371 states | memory has one owner on every path, texts go with their structure, the passwords are freed by the call itself, Paho is initialised before a dispatcher exists, one native client per builder |

The other runs each show one disagreement of the code with its comments (section 4).

Why the bounds are enough. Two submitters and an owner who submits too give every pair of operations a third thread to
disturb it, and the counter never needs more than the threads. Two calls on two Paho threads with two registrations
give a lookup torn by a registration, an overtaking message and a full queue (a third call only repeats them). Three
keys give a first, inner and last node, and the fourth string is the client's own. Three refs on two blocks are an
owner, its alias and another owner at an address used before; the bin of size 0 makes every creation an expunge, and a
larger one only delays it. In `arguments` calls share nothing but the queue, so that two of them give every pair of types and
a message that overtakes or outlives another; a trace is a string like that of a lost connection. Two processes race in the initialisation; four structures are one complete set of options
and one that a failed call left behind or another process uses. A build copies a binary password, or a topic name and a message, so that a setter may fail before,
between and after its copies; that each other field goes with its structure is what `TextsFreed` proves, for any sets of fields. In `async` the types
are the callback with the most arguments and the checkpoint; `HandlersPost` and `PointersArrive` are for all seven. `MaxCalls`, `MaxRegistrations`, `MaxGetSize`, `MaxStartups`, `MaxGiven` bound counters of the
environment, no counter of the code; `QueueSize` is the capacity of the VM queue. `Half` scales the 31-bit halves down (6 instead of 2^30), and the
proofs are for every `Half`.

Deadlock is checked in `properties`, `memory` and `client`. In `workqueue`, `async` and `arguments` everything may be done, freed or aborted, and the
system stops.

Fairness. `EsWorkQueue`: weak fairness of each thread's steps, which is the OS scheduler; no fairness between spinning
threads is assumed beyond that, and no thread has to begin a call. Spinning threads may therefore starve each other: submitters that keep coming can take
the queue between any two tries of a shutdown, or keep its flush waiting (`EsWorkQueue.c:284-295`), and TLC finds that behaviour when
asked for an unconditional return. `ReturnsUnlessOvertaken` says how far the code's promise goes: a call returns, or calls of
others return for ever; nothing else keeps it. The liveness of `TaskQueue` is as weak: a task that runs ends, and one that waits when the queue is
closed is cancelled, but no waiting task is promised a turn. `EsMqttAsyncMessages`: the same, and strong fairness of
`Evaluate`, for the VM returns to its interrupt points again and again between the primitives it runs.
`MQTTMemoryTracker`: strong fairness of the steps of a call that a process is in (a process waiting for `critical` gets
in when it is free again and again), of the finalizer for the same reason, and weak fairness of the collector for each ref
and of the monitor's timer. Nothing makes the application do anything. `MQTTClientBuilder` and `EsMqttAsyncArguments` have no liveness
property and no fairness.

Each property of a passing run has a mutant in `PROJECT.json`: a plausible bug in a modelled operation, defined next
to it, under which TLC finds the property violated.

## 4. Where the code and its comments disagree

| Run | What happens |
|---|---|
| `workqueue_free` | A free after a shutdown skips the wait for submitters and frees the queue under one that has been counted (`EsWorkQueue.c:295`, comment 304-305). |
| `async_lost` | A post that fails is answered as success, so Paho forgets a message Smalltalk never sees (`EsMqttAsyncMessages.c:442`, `EsMqttCallbacks.c:52`). |
| `async_free` | `EsMqttAsyncMessage_free` frees the argument array inside the message (`EsMqttAsyncMessages.c:539`): every checkpoint does. |
| `async_disconnected` | `disconnectedCallback` passes its context twice and shifts the rest (`EsMqttCallbacks.c:155`). |
| `properties_copy` | The second `atPut` of a key keeps the caller's pointer instead of a copy (`EsProperties.c:178`, `EsProperties.h:105-107`). |
| `client_parts` | The connect structure holds its will and ssl structures by address only, so that both may be collected before Paho reads them; `free` of the connect structure frees neither (`MQTTClientBuilder.class.st:111`, comments 257 and `MQTTClientConnectOptions.class.st:323`). |

`properties` shows what holds when the client avoids the last but one: it forgets a string that an update kept (`HandsOver`), and so
only `properties_copy` finds that one. `DispatcherMeansInitialized` in `client` is about dispatchers made
since the last startup: a builder saved with the image keeps its own and calls Paho through it without initialisation
(`MQTTClientBuilder.class.st:312`).

**What the tracker needs of the application.** With each of these the properties fail, as TLC finds when the constant is set:

- `Reborrows`: `NoDanglingWeakRefs`. `asWeakReference` of a weak ref whose owner is in the bin tracks the new ref, tracking empties
  the bin, and the new ref dangles (`MQTTStructure.class.st:301`). The others hold.
- `AddsBorrowed`: `FreesItsOwnMemory` and `CollectableOwn`. The smart ref of the property still owns the memory that is now Paho's
  (`MQTTProperties.class.st:57`).
- `SavesAnytime`: `FreesItsOwnMemory`, `NoDanglingWeakRefs` and `CollectableOwn`. An object made after the startup takes an address of the old
  process for its own.

**Disagreements that no run of their own shows:**

- The library's initialisation is called thread-safe (`EsMqttLibrary.h:41`), but a second thread that finds it INIT goes on before its modules are
  (`EsMqttLibrary.c:32`). The VM has one thread that runs primitives, and no instance here has two.
- The copy of a topic is promised (`EsMqttAsyncArguments.h:58-65`), but it ends with a byte that nobody writes, and loses what follows a null
  inside (`EsMqttAsyncArguments.c:76`). `TextsArrive` says exactly what arrives of a topic of each sort.
- `includesKey` is FALSE of a key whose copy failed, although the key exists (`EsProperties.h:115-118`), and `getSize` and `atIndex` have it. `ViewsAgree`
  excepts those keys, and says that they are the only ones.
- A copied set of properties shares its list with Paho (the TODO at `EsMqttAsyncArguments.c:49`, against the header's lines 12-15);
  `ArgumentsLiveOn` and `FreedByOneSide` except the list. What the header says of freeing, lines 16-19, frees too little; Smalltalk does otherwise.
- A context is posted as one SmallInteger of its low word (`EsMqttAsyncMessages.c:325`).
- Addresses from 2^62 on would lose bits in the split, and the overflow answer is dropped (`EsMqttAsyncMessages.c:200`). `AddressAssumption` excludes them;
  `OverflowIsReported` proves which they are.
- A message, its task and the first copy of its argument are never freed when a callback succeeds: `LeavesOnly` says that nothing else stays
  behind.

## 5. What is proved

All theorems hold for every value of the constants that satisfies the named assumptions of the modules.

- **EsWorkQueueProofs.** `IInv` is the type invariant, `OneHolder`, `NumTasksExact` and the bookkeeping that says which local
  state belongs to which place. The counter alone is not inductive: that a decrement meets a counter above 0 needs the
  set of counted threads, and that the plain store of IDLE does not overwrite another holder needs `OneHolder`. From it:
  `TypeCorrect`, `SingleConsumer`, `CountExact`, `ShutdownTerminal`, `SizeExact` (the last two are action properties).
  `FreeRunsLast` strengthens it for the contract (`RacyFree = FALSE`) and gives `FreeIsSafe`; `Refinement` maps each step to a step of
  `TaskQueue` or a stutter.
  The slots of the queue are evaluated in a lemma (`Slots`), which is what the rest knows of them.
- **EsMqttAsyncHandlersProofs.** Splitting an address below the limit, making SmallIntegers of the parts and joining them gives the address
  (`RoundTrip`, from `ImmediateRoundTrip`). `OverflowIsReported`: the split says that an address fits if and only if two halves
  stand for it. `CheckpointIdReturns`: any integer, negative ones too, that is taken out of a SmallInteger and put back gives a
  SmallInteger with the same low word. `HandlersPost`: for every callback type but `disconnected`, what the callback passes, `newInit` stores and the
  handler posts is, argument by argument and part by part, what the prototype has. `PointersArrive`: every pointer posted is a heap copy of a
  pointer of the call and its parts join to its address. For every width.
- **EsMqttAsyncMessagesProofs.** Assumes one VM thread. `IInv` is the type invariant, `Progress` (where a thread may be in which
  state of the library) and `Locking` (what a thread inside the lock knows of the table). `NoTornTarget` is not inductive without
  them: that a reader's first load is still in the table at its second follows from the lock, and that there is a lock
  from the order of initialisation. From it `TypeCorrect`, `TargetsAreWhole` and, with
  the theorems on the handlers, `PointersAreCopies` and `ArgumentsArrive`: whatever the threads do meanwhile, a message that waits for Smalltalk
  and has a target carries what the handler of its own call's type posts.
- **EsMqttAsyncChannelProofs.** Assumes one VM thread and adds `DInv` to `IInv`: `OneCaller` (a call is one thread's), `Requested`,
  `Fates` (when a call is open, posted or dropped, and that it began after answered calls) and `QueueOrder`. `RealTimeOrder` is not
  inductive alone: that a message appended last stands behind nothing it should precede needs to know that a call in
  `after` has been answered, so its message is not still to come. From it `KeepsRealTime`, `SeenOnce`, and `ConnectorImplementsChannel`: the
  initial states are the channel's, and each of the actions is one of the channel's or a stutter. A lookup is the channel's
  at the second load, where `Locking` says that both loads are of one target.
- **EsMqttAsyncArgumentsProofs.** `IInv` is the type invariant, `FreedByOneSide`, `PostedOnce` (a message waits in one place, and its call
  answered 1) and `EachCall`, which says of each call by its place: which blocks Paho passed, whether there is a message, which blocks
  are live, and that the copies hold the texts. `FreedByOneSide` is not inductive without it: that Smalltalk and Paho
  meet at no block follows from the answer and the type of the call. From it `TypeCorrect`, `CopiesLive`, `OneSideFrees`, `LeavesBounded`
  and, with the lemmas on `strlen` and the two copies (proved for texts of any length, by the least counterexample), `TextsAsPassed`: strings whole,
  topics without their end or cut at a null inside.
- **MQTTMemoryTrackerProofs.** `IInv` is the type invariant, `Locals` (which locals a call has at which place, and who holds the monitor),
  `Apart` (a ref to be freed is in one of the sets, the bin, the finalizer or one call, never in two), `Alive` and `Owned` (a
  block's owner refers to it and is on its way to free it). `FreesItsOwnMemory` needs `Apart`: another process with the same ref would free
  it first and the address could be in use again. From it `TypeCorrect`, `FreesOnce`, `NoLeaks`, `CollectsOwners`, all for an application that adds
  only what it owns and saves no image between an address and its object (`AddsBorrowed = FALSE`, `SavesAnytime = FALSE`). `NoneDangle` has also the
  hypothesis `Reborrows = FALSE`, the discipline of an application that borrows from owners and not from other
  weak refs, under which the run checks it too; it needs `Borrowed` besides: a weak ref in use is on the table under its address, or a free has
  just taken it from there, and the table is clear for an address before its memory goes.
- **MQTTClientBuilderProofs.** Six invariants, each with what its induction needs. `InitInv`: whoever is past `globalInitialize`, has
  set the flag or has made the default dispatcher has called `global_init`, which is why a race of two processes does no
  harm (`Initialized`). `ClientInv`: a process on its way to a native client has no handle (`OneClient`). `OwnerInv`: memory
  and ref come and go together (`MemoryOwned`). `OptionsInv`: a process holds exactly the structure its call is about, and a
  connect structure with an ssl pointer is complete and on its way to `free` (`FreedByTheCall`); without the place of the process
  the property is not inductive, for the unwinding of an exception forgets what the process holds, and no exception starts there. `TextsInv`: a string is a field of a structure that is there
  (`TextsFreed`). With `RestInv` they give `TypeCorrect`.
- **EsPropertiesProofs.** For any finite memory of nodes. `IInv` is the type invariant, `Listed` (some sequence `q` numbers the
  allocated nodes, each is linked to the next, and the head is the first), `UniqueKeys`, and that a container that does not
  exist has no nodes. `EveryNodeOnTheList` speaks of the walk, which says nothing of where a step may cut the chain; the
  numbering does: an update leaves it alone, an append adds to its end, a removal takes one element out (`SameList`, `Appended`,
  `Unlinked`). `WalkIs` ties the two: the walk, a recursive function, is the sequence followed by `Null`, by the least index at
  which they differ. From it `TypeCorrect`, `FreesEveryNode` and `ViewsAlwaysAgree`, with or without a client that keeps to the
  contract. `FreesEachValueOnce` and `ListImplementsPropertyMap` have the hypothesis `HandsOver = TRUE`, under which the run checks
  them too: the client forgets a string that an update kept. With `HandsOver = FALSE` the run `properties_copy` shows what becomes of it.

TLC confirmed the inductive invariants on the instances of section 3 before they were proved.

Only model-checked: all liveness (`ReturnsUnlessOvertaken`, `CallsReturn`, `PostedIsEvaluated`, `ForgottenMemoryIsFreed`, the fairness of
`TaskQueue`), which with `ENABLED` is out of the prover's reach.

## 6. What is not modelled

The bytes of a payload, which is not copied, and the entries of a property list; the payload of a message to publish; exceptions in the middle of a method of the tracker; calls into a
queue from its own tasks, or into a library being shut down; two processes using one ref; static refs, which nobody
frees and nothing undefines; a startup while a connect is under way; tracing, where `stopTracing` unbinds an entry point that Paho still has as its callback; keys of
`EsProperties` that the client overwrites. Those the code is exposed to in its own use are hazards in `PROJECT.json`, with the reason why no
property covers them; the rest is outside what the code is asked to do. The components
of section 1 that no module names are planned below or have no behaviour of their own.

## 7. Plan

1. Done: `EsWorkQueue` with `TaskQueue`; `EsMqttAsyncMessages` with `HiLow` and `AsyncChannel`; their proofs.
2. Done: `EsMqttAsyncArguments`; `EsProperties` with `PropertyMap`; `MQTTMemoryTracker` with the transfer to property lists.
3. Done: `MQTTClientBuilder` and its proofs. Left of the client side: tracing (`MQTTClient class>>trace:`, `stopTracing`), with the
   property that Paho never has an unbound entry point; static refs into the array of a property list.
4. Done: the safety properties of all modules are proved, and the refinements of `AsyncChannel`, `PropertyMap` and, but for its fairness,
   `TaskQueue`.
