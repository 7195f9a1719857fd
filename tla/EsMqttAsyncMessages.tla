------------------------ MODULE EsMqttAsyncMessages ------------------------
(***************************************************************************)
(* The way of a Paho callback into Smalltalk: EsMqttCallbacks.c,           *)
(* EsMqttAsyncMessages.c, EsMqttAsyncArguments.c, EsMqttLibrary.c and the  *)
(* primitives of EsMqttUserPrims.c.                                        *)
(*                                                                         *)
(* A Paho thread calls one of the C callbacks.  The callback builds a      *)
(* message, looks up the receiver and selector registered for its type     *)
(* under a reader lock, and posts them with copies of its arguments to the *)
(* asynchronous queue of the Smalltalk VM, all on the calling thread.  The *)
(* VM thread evaluates the queue between its bytecodes, registers targets  *)
(* under the writer lock, and posts checkpoints to flush the queue.        *)
(*                                                                         *)
(* A step is one access to shared memory (library state, globalInfo, lock, *)
(* target table, VM queue); a thread's own work goes with the next step.   *)
(* Undefined behaviour is recorded in `faults': the process then aborts or *)
(* goes on.  External, modelled from their use: the VM queue, the p_rwlock *)
(* (which does nothing when the lock pointer is NULL), the allocator and   *)
(* the Paho threads, which know only callback addresses that a             *)
(* registration answered.                                                  *)
(***************************************************************************)
EXTENDS Integers, Sequences, FiniteSets, EsMqttAsyncHandlers

CONSTANTS
  VMThreads,         \* the threads that run primitives and evaluate the queue
  PahoThreads,       \* the threads that Paho calls back from
  Types,             \* the callback types in use
  Objects,           \* the EsObject values there are
  Nil, Zero,         \* EsNil, and the 0 of static storage, which is not EsNil
  Targets,           \* the <<receiver, selector>> pairs Smalltalk registers
  HeapAddress,       \* where the copies of each call's arguments are allocated
  MaxCalls,          \* bound: callbacks and checkpoints in a behaviour
  MaxRegistrations,  \* bound: registrations in a behaviour
  QueueSize,         \* the capacity of the VM queue
  MayRunOut,         \* whether EsAllocateMemory may answer NULL
  NoThread           \* not a thread

\* A value that is not of the enumeration stands for all the others.
EsMqttCallbacks_IsValidCallbackType(k) == k \in CallbackTypes

Calls   == 1..MaxCalls
Threads == VMThreads \cup PahoThreads

ASSUME ThreadsAssumption ==
  VMThreads \cap PahoThreads = {} /\ NoThread \notin Threads
ASSUME TypesAssumption   == Types \subseteq CallbackTypes
ASSUME TargetsAssumption ==
  Nil \in Objects /\ Zero \in Objects \ {Nil} /\ Targets \subseteq Objects \X Objects
ASSUME BoundsAssumption  ==
  /\ MaxCalls \in Nat /\ MaxRegistrations \in Nat /\ QueueSize \in Nat
  /\ MayRunOut \in BOOLEAN
\* The copies lie below 2^62: the address space of a process is smaller.
ASSUME AddressAssumption ==
  HeapAddress \in [Calls -> Nat] /\ \A c \in Calls : Fits(HeapAddress[c] + 10)

VARIABLES
  libState,      \* _State of EsMqttLibrary.c
  globalInfo,    \* _DummyVMContext.globalInfo: "null" or "valid"
  lock,          \* _AsyncMessageTargetsLock: "null" or "made"
  writer,        \* the thread that holds the lock for writing
  readers,       \* the threads that hold it for reading
  receiver,      \* _AsyncMessageTargets[type * 2]
  selector,      \* _AsyncMessageTargets[type * 2 + 1]
  registered,    \* history: the pairs each type's entry held, between writers
  armed,         \* the types whose callback address Smalltalk was answered
  pc,            \* where each thread is
  call,          \* the call each thread is executing, 0 if none
  request,       \* the registration each thread is executing
  target,        \* submitToAsyncQueue's local receiver and selector
  msg,           \* the EsMqttAsyncMessage of each thread's call
  type,          \* the callback type of each call
  after,         \* history: the calls that had returned when this one began
  fate,          \* what became of each call's message
  result,        \* what each call answered
  queue,         \* the VM's asynchronous queue
  faults,        \* kinds of undefined behaviour met so far
  process,       \* "running" or "aborted"
  registrations  \* number of registrations so far (bounded)

library == <<libState, globalInfo, lock>>
table   == <<writer, readers, receiver, selector, registered, armed>>
locals  == <<call, request, target, msg>>
history == <<type, after, fate, result>>
fault   == <<faults, process>>
vars    == <<library, table, pc, locals, history, queue, fault, registrations>>

PCs == {"out", "init_cas", "init_info", "init_lock", "ready", "shut_info",
        "refuse", "set_lock", "set_receiver", "set_selector", "set_unlock",
        "new", "send", "get_lock", "get_receiver", "get_selector",
        "get_unlock", "post", "free"}

-----------------------------------------------------------------------------
(* Handlers and targets                                                    *)

\* What a handler makes of a message whose memory was written over.
Undefined == <<>>

\* The table of handlers has one for every type.
AsyncMessageHandlers ==
  [k \in CallbackTypes |-> [c \in Calls |-> handler(k, HeapAddress[c])]]
getAsyncMessageHandler(k) ==
  IF EsMqttCallbacks_IsValidCallbackType(k) THEN {AsyncMessageHandlers[k]} ELSE {}

\* The answer of getAsyncMessageTarget.
HasTarget(pair) == pair[1] # Nil /\ pair[2] # Nil

\* The callback whose address a registration answers, if there is one.
getCallbackTarget(k) == IF EsMqttCallbacks_IsValidCallbackType(k) THEN {k} ELSE {}

\* Only the first slot of the table is initialised to EsNil.
InitialTarget(k) == <<IF k = "trace" THEN Nil ELSE Zero, Zero>>

NoRequest == <<"none", <<Nil, Nil>>>>

Init ==
  /\ libState = "UNINIT" /\ globalInfo = "null" /\ lock = "null"
  /\ writer = NoThread /\ readers = {}
  /\ receiver = [k \in Types |-> InitialTarget(k)[1]]
  /\ selector = [k \in Types |-> InitialTarget(k)[2]]
  /\ registered = [k \in Types |-> {InitialTarget(k)}]
  /\ armed = {}
  /\ pc = [t \in Threads |-> "out"]
  /\ call = [t \in Threads |-> 0]
  /\ request = [t \in Threads |-> NoRequest]
  /\ target = [t \in Threads |-> <<Zero, Zero>>]
  /\ msg = [t \in Threads |-> "none"]
  /\ type = [c \in Calls |-> "none"]
  /\ after = [c \in Calls |-> {}]
  /\ fate = [c \in Calls |-> "new"]
  /\ result = [c \in Calls |-> "none"]
  /\ queue = <<>>
  /\ faults = {} /\ process = "running"
  /\ registrations = 0

At(t, at)   == process = "running" /\ pc[t] = at
Goto(t, to) == pc' = [pc EXCEPT ![t] = to]

\* A step that meets undefined behaviour of the given kind, or none.
Meets(kinds) ==
  /\ faults' = faults \cup kinds
  /\ process' \in IF kinds = {} THEN {process} ELSE {"running", "aborted"}

-----------------------------------------------------------------------------
(* EsMqttLibraryInit and EsMqttLibraryShutdown                             *)

\* Where a primitive goes on once the library is initialised, which is before
\* it looks at its arguments.
AfterInit(v) ==
  IF call[v] # 0 THEN "new"
  ELSE IF EsMqttCallbacks_IsValidCallbackType(request[v][1]) THEN "set_lock"
  ELSE "refuse"

InitCas(v) ==
  /\ At(v, "init_cas")
  /\ IF libState = "UNINIT"
     THEN libState' = "INIT" /\ Goto(v, "init_info")
     ELSE UNCHANGED libState /\ Goto(v, AfterInit(v))
  /\ UNCHANGED <<globalInfo, lock, table, locals, history, queue, fault,
                 registrations>>

\* EsMqttAsyncMessages_ModuleInit, first line.
InitInfo(v) ==
  /\ At(v, "init_info")
  /\ globalInfo' = "valid"
  /\ Goto(v, "init_lock")
  /\ UNCHANGED <<libState, lock, table, locals, history, queue, fault,
                 registrations>>

\* Second line.  The lock comes new, so nobody holds it.
InitLock(v) ==
  /\ At(v, "init_lock")
  /\ lock' = "made"
  /\ Goto(v, AfterInit(v))
  /\ UNCHANGED <<libState, globalInfo, table, locals, history, queue, fault,
                 registrations>>

\* The contract of the interface: nothing calls in once the library is shut
\* down, and it is shut down while nothing is inside.
MayEnter(t) == process = "running" /\ pc[t] = "out" /\ libState # "SHUTDOWN"

Shutdown(v) ==
  /\ MayEnter(v)
  /\ \A t \in Threads : pc[t] = "out"
  /\ libState = "INIT"
  /\ libState' = "SHUTDOWN"
  /\ Goto(v, "shut_info")
  /\ UNCHANGED <<globalInfo, lock, table, locals, history, queue, fault,
                 registrations>>

\* EsMqttAsyncMessages_ModuleShutdown.
ShutdownInfo(v) ==
  /\ At(v, "shut_info")
  /\ globalInfo' = "null"
  /\ Goto(v, "out")
  /\ UNCHANGED <<libState, lock, table, locals, history, queue, fault,
                 registrations>>

-----------------------------------------------------------------------------
(* EsMqttVastRegisterCallback: EsMqttCallbacks_Register, which stores the  *)
(* pair in two writes under the writer lock                                *)

Register(v, k, pair) ==
  /\ MayEnter(v)
  /\ registrations < MaxRegistrations
  /\ registrations' = registrations + 1
  /\ request' = [request EXCEPT ![v] = <<k, pair>>]
  /\ Goto(v, "init_cas")
  /\ UNCHANGED <<library, table, call, target, msg, history, queue, fault>>

\* Either primitive with arguments it fails for, or a number that is no type.
BadCall(v) == Register(v, "invalid", <<Nil, Nil>>)

\* Such a call fails or answers nil, and nothing is registered.
Refuse(v) ==
  /\ At(v, "refuse")
  /\ request' = [request EXCEPT ![v] = NoRequest]
  /\ Goto(v, "out")
  /\ UNCHANGED <<library, table, call, target, msg, history, queue, fault,
                 registrations>>

\* Mutant: a writer does not wait for the readers.
SetLockSkipsReaders(v) ==
  /\ At(v, "set_lock")
  /\ IF lock = "made"
     THEN writer = NoThread /\ writer' = v
     ELSE UNCHANGED writer
  /\ Goto(v, "set_receiver")
  /\ UNCHANGED <<library, readers, receiver, selector, registered, armed,
                 locals, history, queue, fault, registrations>>

\* p_rwlock_writer_lock waits for readers and writers to leave.
SetLock(v) ==
  /\ At(v, "set_lock")
  /\ IF lock = "made"
     THEN writer = NoThread /\ readers = {} /\ writer' = v
     ELSE UNCHANGED writer
  /\ Goto(v, "set_receiver")
  /\ UNCHANGED <<library, readers, receiver, selector, registered, armed,
                 locals, history, queue, fault, registrations>>

SetReceiver(v) ==
  /\ At(v, "set_receiver")
  /\ receiver' = [receiver EXCEPT ![request[v][1]] = request[v][2][1]]
  /\ Goto(v, "set_selector")
  /\ UNCHANGED <<library, writer, readers, selector, registered, armed, locals,
                 history, queue, fault, registrations>>

SetSelector(v) ==
  /\ At(v, "set_selector")
  /\ selector' = [selector EXCEPT ![request[v][1]] = request[v][2][2]]
  /\ Goto(v, "set_unlock")
  /\ UNCHANGED <<library, writer, readers, receiver, registered, armed, locals,
                 history, queue, fault, registrations>>

\* The primitive answers the callback's address, which Smalltalk gives Paho.
SetUnlock(v) ==
  /\ At(v, "set_unlock")
  /\ writer' = IF writer = v THEN NoThread ELSE writer
  /\ LET k == request[v][1] IN
     /\ registered' = [registered EXCEPT ![k] = @ \cup {request[v][2]}]
     /\ armed' = armed \cup getCallbackTarget(k)
  /\ request' = [request EXCEPT ![v] = NoRequest]
  /\ Goto(v, "out")
  /\ UNCHANGED <<library, readers, receiver, selector, call, target, msg,
                 history, queue, fault, registrations>>

-----------------------------------------------------------------------------
(* The callbacks and EsMqttVastCheckpoint: newInit, then send              *)

Returned == {c \in Calls : result[c] # "none" /\ \A t \in Threads : call[t] # c}

Begin(t, c, k, at) ==
  /\ MayEnter(t)
  /\ fate[c] = "new" /\ \A d \in 1..(c - 1) : fate[d] # "new"
  /\ call' = [call EXCEPT ![t] = c]
  /\ type' = [type EXCEPT ![c] = k]
  /\ fate' = [fate EXCEPT ![c] = "open"]
  /\ after' = [after EXCEPT ![c] = Returned]
  /\ Goto(t, at)
  /\ UNCHANGED <<library, table, request, target, msg, result, queue, fault,
                 registrations>>

\* Paho calls one of traceCallback .. publishedCallback.
Callback(p, c, k) == k \in armed \ {"checkpoint"} /\ Begin(p, c, k, "new")

Checkpoint(v, c) == "checkpoint" \in Types /\ Begin(v, c, "checkpoint", "init_cas")

\* Return from the callback or the primitive.
Answer(t, a) ==
  /\ result' = [result EXCEPT ![call[t]] = a]
  /\ call' = [call EXCEPT ![t] = 0]
  /\ Goto(t, "out")

\* A checkpoint sends even a NULL message; a callback gives up.
NewInit(t) ==
  /\ At(t, "new")
  /\ \/ /\ newInit(type[call[t]], HeapAddress[call[t]]) # NULL
        /\ msg' = [msg EXCEPT ![t] = "live"]
        /\ Goto(t, "send")
        /\ UNCHANGED <<call, result, fate>>
     \/ /\ (MayRunOut \/ newInit(type[call[t]], HeapAddress[call[t]]) = NULL)
        /\ type[call[t]] = "checkpoint"
        /\ msg' = [msg EXCEPT ![t] = "none"]
        /\ Goto(t, "send")
        /\ UNCHANGED <<call, result, fate>>
     \/ /\ (MayRunOut \/ newInit(type[call[t]], HeapAddress[call[t]]) = NULL)
        /\ type[call[t]] # "checkpoint"
        /\ fate' = [fate EXCEPT ![call[t]] = "dropped"]
        /\ Answer(t, "0")
        /\ UNCHANGED msg
  /\ UNCHANGED <<library, table, request, target, type, after, queue, fault,
                 registrations>>

\* EsMqttAsyncMessage_send is over.  The callback returns; the checkpoint keeps
\* the answer and goes on to free its message.
Sent(t, a) ==
  /\ target' = [target EXCEPT ![t] = <<Zero, Zero>>]
  /\ IF type[call[t]] = "checkpoint"
     THEN /\ result' = [result EXCEPT ![call[t]] = a]
          /\ Goto(t, "free")
          /\ UNCHANGED <<call, msg>>
     ELSE /\ Answer(t, a)
          /\ msg' = [msg EXCEPT ![t] = "none"]

\* EsWorkTask_newInit may fail; EsWorkTask_run calls submitToAsyncQueue on the
\* same thread, which has nothing to do for a NULL message.
Send(t) ==
  /\ At(t, "send")
  /\ \/ /\ MayRunOut
        /\ fate' = [fate EXCEPT ![call[t]] = "dropped"]
        /\ Sent(t, "0")
     \/ /\ msg[t] = "none"
        /\ fate' = [fate EXCEPT ![call[t]] = "dropped"]
        /\ Sent(t, "1")
     \/ /\ msg[t] # "none"
        /\ Goto(t, "get_lock")
        /\ UNCHANGED <<call, target, msg, result, fate>>
  /\ UNCHANGED <<library, table, request, type, after, queue, fault,
                 registrations>>

-----------------------------------------------------------------------------
(* submitToAsyncQueue                                                      *)

\* Mutant: the table is read without the lock.
GetLockSkipped(t) ==
  /\ At(t, "get_lock")
  /\ Goto(t, "get_receiver")
  /\ UNCHANGED <<library, table, locals, history, queue, fault, registrations>>

\* p_rwlock_reader_lock waits for the writer to leave.
GetLock(t) ==
  /\ At(t, "get_lock")
  /\ IF lock = "made"
     THEN writer = NoThread /\ readers' = readers \cup {t}
     ELSE UNCHANGED readers
  /\ Goto(t, "get_receiver")
  /\ UNCHANGED <<library, writer, receiver, selector, registered, armed,
                 locals, history, queue, fault, registrations>>

GetReceiver(t) ==
  /\ At(t, "get_receiver")
  /\ target' = [target EXCEPT ![t] = <<receiver[type[call[t]]], @[2]>>]
  /\ Goto(t, "get_selector")
  /\ UNCHANGED <<library, table, call, request, msg, history, queue, fault,
                 registrations>>

GetSelector(t) ==
  /\ At(t, "get_selector")
  /\ target' = [target EXCEPT ![t] = <<@[1], selector[type[call[t]]]>>]
  /\ Goto(t, "get_unlock")
  /\ UNCHANGED <<library, table, call, request, msg, history, queue, fault,
                 registrations>>

\* Mutant: a reader never leaves the lock.
GetUnlockForgotten(t) ==
  /\ At(t, "get_unlock")
  /\ Goto(t, "post")
  /\ UNCHANGED <<library, table, locals, history, queue, fault, registrations>>

\* Without a target the message is freed, an invalid free because of its
\* argument area, and then used: the branch does not return.
GetUnlock(t) ==
  /\ At(t, "get_unlock")
  /\ readers' = readers \ {t}
  /\ IF HasTarget(target[t])
     THEN Meets({}) /\ UNCHANGED msg
     ELSE Meets({"badFree", "freedMessage"}) /\ msg' = [msg EXCEPT ![t] = "freed"]
  /\ Goto(t, "post")
  /\ UNCHANGED <<library, writer, receiver, selector, registered, armed, call,
                 request, target, history, queue, registrations>>

\* The receiver and selector are stored in the message and the handler takes them,
\* the type and the arguments from it.  When it was freed before, other threads
\* may have overwritten it: the type with one that has no handler, or with another
\* type or other arguments, and then anything is posted (to the target just stored,
\* which the model keeps).
Arguments(t) ==
  {h[call[t]] : h \in getAsyncMessageHandler(type[call[t]])} \cup
    (IF HasTarget(target[t]) THEN {} ELSE {Undefined})

\* What the message carries.
Message(t, args) == [call |-> call[t], target |-> target[t], args |-> args]

\* Mutant: the message is posted again and again, even to a full queue.
PostRepeats(t) ==
  /\ At(t, "post")
  /\ \E args \in Arguments(t) : queue' = Append(queue, Message(t, args))
  /\ fate' = [fate EXCEPT ![call[t]] = "posted"]
  /\ UNCHANGED <<library, table, pc, locals, type, after, result, fault,
                 registrations>>

\* Mutant: the message goes to the front of the queue.
PostInFront(t) ==
  /\ At(t, "post")
  /\ Len(queue) < QueueSize
  /\ \E args \in Arguments(t) : queue' = <<Message(t, args)>> \o queue
  /\ fate' = [fate EXCEPT ![call[t]] = "posted"]
  /\ Sent(t, "1")
  /\ UNCHANGED <<library, table, request, type, after, fault, registrations>>

\* The handler posts, which fails when the queue is full or Smalltalk is in a
\* critical section; its answer is dropped, so send answers TRUE all the same.
Post(t) ==
  /\ At(t, "post")
  /\ Meets(IF globalInfo = "null" THEN {"nullContext"} ELSE {})
  /\ \/ /\ globalInfo = "valid" /\ Len(queue) < QueueSize
        /\ \E args \in Arguments(t) : queue' = Append(queue, Message(t, args))
        /\ fate' = [fate EXCEPT ![call[t]] = "posted"]
     \/ /\ fate' = [fate EXCEPT ![call[t]] = "lost"]
        /\ UNCHANGED queue
  /\ Sent(t, "1")
  /\ UNCHANGED <<library, table, request, type, after, registrations>>

\* The checkpoint frees its message: the argument area first, which is a part
\* of the message and not an allocation, and the message itself.
FreeMessage(v) ==
  /\ At(v, "free")
  /\ Meets(IF msg[v] = "none" THEN {} ELSE {"badFree"})
  /\ msg' = [msg EXCEPT ![v] = "none"]
  /\ call' = [call EXCEPT ![v] = 0]
  /\ Goto(v, "out")
  /\ UNCHANGED <<library, table, request, target, history, queue, registrations>>

-----------------------------------------------------------------------------
(* The VM, between two bytecodes                                           *)

Evaluate(v) ==
  /\ At(v, "out")
  /\ queue # <<>>
  /\ queue' = Tail(queue)
  /\ fate' = [fate EXCEPT ![Head(queue).call] = "evaluated"]
  /\ UNCHANGED <<library, table, pc, locals, type, after, result,
                 fault, registrations>>

-----------------------------------------------------------------------------
\* A step inside a call already begun.
Step(t) ==
  \/ InitCas(t) \/ InitInfo(t) \/ InitLock(t) \/ ShutdownInfo(t)
  \/ Refuse(t) \/ SetLock(t) \/ SetReceiver(t) \/ SetSelector(t) \/ SetUnlock(t)
  \/ NewInit(t) \/ Send(t)
  \/ GetLock(t) \/ GetReceiver(t) \/ GetSelector(t) \/ GetUnlock(t)
  \/ Post(t) \/ FreeMessage(t)

Next ==
  \/ \E t \in Threads : Step(t)
  \/ \E p \in PahoThreads, c \in Calls, k \in Types : Callback(p, c, k)
  \/ \E v \in VMThreads :
       \/ \E k \in Types, pair \in Targets : Register(v, k, pair)
       \/ \E c \in Calls : Checkpoint(v, c)
       \/ BadCall(v)
       \/ Shutdown(v) \/ Evaluate(v)

Spec == Init /\ [][Next]_vars

\* The scheduler runs every thread that can run, and the VM comes back to its
\* interrupt points again and again, where it evaluates what is queued.
FairSpec ==
  /\ Spec
  /\ \A t \in Threads : WF_vars(Step(t))
  /\ \A v \in VMThreads : SF_vars(Evaluate(v))

-----------------------------------------------------------------------------
(* Properties                                                              *)

\* What may wait in the VM's queue.
Messages == [call : Calls, target : Objects \X Objects,
             args : {handler(k, HeapAddress[c]) : k \in Types, c \in Calls} \cup {Undefined}]

\* The type invariant.
TypeOK ==
  /\ libState \in {"UNINIT", "INIT", "SHUTDOWN"}
  /\ globalInfo \in {"null", "valid"} /\ lock \in {"null", "made"}
  /\ writer \in Threads \cup {NoThread} /\ readers \subseteq Threads
  /\ receiver \in [Types -> Objects] /\ selector \in [Types -> Objects]
  /\ registered \in [Types -> SUBSET (Objects \X Objects)]
  /\ armed \subseteq Types
  /\ pc \in [Threads -> PCs]
  /\ call \in [Threads -> Calls \cup {0}]
  /\ request \in [Threads -> (Types \cup {"none", "invalid"}) \X (Objects \X Objects)]
  /\ target \in [Threads -> Objects \X Objects]
  /\ msg \in [Threads -> {"none", "live", "freed"}]
  /\ type \in [Calls -> Types \cup {"none"}]
  /\ after \in [Calls -> SUBSET Calls]
  /\ fate \in [Calls -> {"new", "open", "dropped", "lost", "posted", "evaluated"}]
  /\ result \in [Calls -> {"none", "0", "1"}]
  /\ queue \in Seq(Messages) /\ Len(queue) <= QueueSize
  /\ faults \subseteq {"badFree", "freedMessage", "nullContext"}
  /\ process \in {"running", "aborted"}
  /\ registrations \in 0..MaxRegistrations

-----------------------------------------------------------------------------
(* What every state of a library with one VM thread satisfies; TypeOK and  *)
(* the next two are together inductive                                     *)

InitPCs  == {"init_cas", "init_info", "init_lock"}
WritePCs == {"set_receiver", "set_selector", "set_unlock"}
ReadPCs  == {"get_receiver", "get_selector", "get_unlock"}
CallPCs  == {"new", "send", "get_lock", "post", "free"} \cup ReadPCs

\* Where the threads are, what they work on, and when the library is ready.
Ready == lock = "made" /\ globalInfo = "valid"
PastInit == {"refuse", "set_lock"} \cup WritePCs \cup (CallPCs \ {"free"})

Progress ==
  /\ \A t \in Threads :
       /\ pc[t] \in InitPCs \cup WritePCs \cup {"refuse", "set_lock", "shut_info"}
            => t \in VMThreads
       /\ pc[t] \in {"out", "shut_info", "refuse", "set_lock"} \cup WritePCs => call[t] = 0
       /\ pc[t] \in CallPCs => call[t] # 0
       /\ call[t] # 0 => fate[call[t]] # "new" /\ type[call[t]] \in Types
       /\ pc[t] \in InitPCs /\ call[t] = 0 => request[t][1] \in Types \cup {"invalid"}
       /\ pc[t] \in WritePCs \cup {"set_lock"} => request[t][1] \in Types
       /\ pc[t] \in {"init_info", "init_lock"} => libState = "INIT"
       /\ pc[t] = "init_lock" => globalInfo = "valid"
       /\ pc[t] = "shut_info" => libState = "SHUTDOWN"
       /\ pc[t] \in PastInit => Ready
  /\ libState = "UNINIT" => armed = {} /\ globalInfo = "null"
  /\ libState = "INIT" /\ armed # {} => Ready
  /\ libState = "INIT" /\ (\A v \in VMThreads : pc[v] \notin {"init_info", "init_lock"})
       => Ready
  /\ libState = "SHUTDOWN" => \A t \in Threads : pc[t] \in {"out", "shut_info"}
  /\ \A i \in 1..Len(queue) :
       fate[queue[i].call] # "new" /\ type[queue[i].call] \in Types

\* The lock excludes, the table is consistent whenever no writer is at work,
\* and a reader holds what the table holds.
Locking ==
  /\ \A t \in Threads :
       /\ pc[t] \in ReadPCs => t \in readers
       /\ pc[t] \in WritePCs => writer = t
       /\ pc[t] \in {"set_selector", "set_unlock"}
            => receiver[request[t][1]] = request[t][2][1]
       /\ pc[t] = "set_unlock" => selector[request[t][1]] = request[t][2][2]
       /\ pc[t] \in {"get_selector", "get_unlock"}
            => target[t][1] = receiver[type[call[t]]]
       /\ pc[t] = "get_unlock" => target[t][2] = selector[type[call[t]]]
       /\ pc[t] = "post" => target[t] \in registered[type[call[t]]]
  /\ writer # NoThread => readers = {} /\ pc[writer] \in WritePCs
  /\ \A k \in Types :
       \/ <<receiver[k], selector[k]>> \in registered[k]
       \/ /\ writer # NoThread
          /\ pc[writer] \in {"set_selector", "set_unlock"}
          /\ request[writer][1] = k

\* What the calls, their fates and the queue say of one another: a call is one
\* thread's and open until its message is posted or given up, ...
OpenPCs == InitPCs \cup (CallPCs \ {"free"})

OneCaller ==
  /\ \A t, u \in Threads : call[t] = call[u] /\ call[t] # 0 => t = u
  /\ \A t \in Threads : call[t] # 0 =>
       \/ pc[t] \in OpenPCs /\ fate[call[t]] = "open"
       \/ pc[t] = "free" /\ fate[call[t]] # "open"

\* ... what is registered is what Smalltalk asked for, ...
Requested ==
  \A t \in Threads : request[t][1] \in Types => request[t][2] \in Targets

\* ... a call is answered when its message is posted or given up, and it began
\* after calls that had been answered, ...
Fates ==
  \A c \in Calls :
    /\ fate[c] \in {"new", "open"} <=> result[c] = "none"
    /\ result[c] = "0" => fate[c] = "dropped"
    /\ \A d \in after[c] : result[d] # "none" /\ d # c

\* ... and the queue holds once what is posted, and nothing in it stands before
\* the message of a call that had returned when its own call began.
QueueOrder ==
  /\ \A c \in Calls : fate[c] = "posted" => \E i \in 1..Len(queue) : queue[i].call = c
  /\ \A i \in 1..Len(queue) : fate[queue[i].call] = "posted"
  /\ \A i, j \in 1..Len(queue) :
       /\ queue[i].call = queue[j].call => i = j
       /\ i < j => queue[j].call \notin after[queue[i].call]

-----------------------------------------------------------------------------
\* A message goes to a receiver and selector that stood together in the entry
\* of its type at one time, never to the receiver of one registration with the
\* selector of another, whatever registrations run during the lookup.
NoTornTarget ==
  \A i \in 1..Len(queue) : queue[i].target \in registered[type[queue[i].call]]

\* The queue keeps real time: when a call began after another had returned, its
\* message is not evaluated while the other's waits.  So the messages of one
\* Paho thread arrive in its order, and once a checkpoint is evaluated every
\* message posted before it was asked for has been: it flushes the queue.
RealTimeOrder ==
  \A c \in Calls : fate[c] = "evaluated" =>
    \A d \in after[c] : fate[d] # "posted"

\* A callback that answers 0, upon which Paho calls it again with the same
\* message, has posted nothing, and no call has two messages in the queue or one
\* there after one was evaluated: Smalltalk never sees a message twice.
NeverTwice ==
  /\ \A c \in Calls : result[c] = "0" => fate[c] = "dropped"
  /\ \A i, j \in 1..Len(queue) : queue[i].call = queue[j].call => i = j
  /\ \A i \in 1..Len(queue) : fate[queue[i].call] = "posted"

\* Every pointer in the queue is a heap copy of an argument of the call, not memory
\* that Paho takes back when the callback returns, and Smalltalk gets its address
\* back from the two parts.  (A message without a target was freed: see Arguments.)
PointersSurvive ==
  \A i \in 1..Len(queue) : HasTarget(queue[i].target) =>
    LET c == queue[i].call  args == queue[i].args IN
    \A n \in DOMAIN args : args[n].part = "high" =>
      PointerArrives(type[c], HeapAddress[c], args, n)

\* The handler of each type posts every argument of the callback of that type, in
\* the order of its prototype: a number as one immediate, a pointer as its high and
\* its low part, as the comment of the interface says, and of a context only the low
\* word.  (The disconnected callback is apart: see ArgumentsOfDisconnected.)
HandlersPostSignatures ==
  \A k \in CallbackTypes \ {"disconnected"}, c \in Calls :
    Names(handler(k, HeapAddress[c])) = Expected(k)

\* What is posted for a callback is what Paho passed to it, argument by argument,
\* through newInit and the handler of its type; for every type of callback.
ArgumentsIntact ==
  /\ HandlersPostSignatures
  /\ \A i \in 1..Len(queue) :
       LET k == type[queue[i].call] IN
       k # "disconnected" /\ HasTarget(queue[i].target) =>
         Names(queue[i].args) = Expected(k)

\* Every call of a callback or primitive comes to its end, unless undefined
\* behaviour stops the process: nobody waits for the lock for ever.
CallsReturn ==
  \A t \in Threads : pc[t] # "out" ~> (pc[t] = "out" \/ process = "aborted")

\* Every message that was posted is evaluated.
PostedIsEvaluated ==
  \A c \in Calls :
    fate[c] = "posted" ~> (fate[c] = "evaluated" \/ process = "aborted")

\* The refinement: a registration takes effect with its first store, for from
\* then on no reader gets in before the second; a callback looks its target up
\* with the second load, and is over for the channel when its message is posted.
EntryOf(k) ==
  IF /\ writer # NoThread
     /\ pc[writer] \in {"set_selector", "set_unlock"}
     /\ request[writer][1] = k
  THEN request[writer][2]
  ELSE <<receiver[k], selector[k]>>

SendingOf(t) ==
  IF call[t] # 0 /\ pc[t] # "free"
  THEN {[call |-> call[t], kind |-> type[call[t]]]} ELSE {}

FoundOf(t) == IF pc[t] \in {"get_unlock", "post"} THEN {target[t]} ELSE {}

Channel == INSTANCE AsyncChannel WITH
  Kinds    <- Types,
  Flush    <- "checkpoint",
  Entries  <- Objects \X Objects,
  Capacity <- QueueSize,
  entry    <- [k \in Types |-> EntryOf(k)],
  offered  <- armed,
  used     <- {c \in Calls : fate[c] # "new"},
  sending  <- [t \in Threads |-> SendingOf(t)],
  found    <- [t \in Threads |-> FoundOf(t)],
  pending  <- [i \in 1..Len(queue) |->
                 [call |-> queue[i].call, target |-> queue[i].target]]

\* The threads implement the channel: each registration, lookup and acceptance
\* is as if it happened at one moment, and each call posts once at most.
ImplementsChannel == Channel!Spec

-----------------------------------------------------------------------------
(* Properties the code does not have                                       *)

\* messageArrivedCallback answers 1 for a successful delivery, so a message it
\* answered 1 for is in the queue or evaluated.
SuccessMeansPosted ==
  \A c \in Calls : type[c] = "messageArrived" /\ result[c] = "1" =>
    fate[c] \in {"posted", "evaluated"}

\* The disconnected callback posts the context, the properties and the reason
\* code that it was called with.
ArgumentsOfDisconnected ==
  \A i \in 1..Len(queue) :
    type[queue[i].call] = "disconnected" /\ HasTarget(queue[i].target) =>
      Names(queue[i].args) = Expected("disconnected")

\* EsMqttAsyncMessage_free frees what was allocated, once, and nothing uses a
\* message after it is freed.
MessagesFreedSoundly == faults \cap {"badFree", "freedMessage"} = {}
=============================================================================
