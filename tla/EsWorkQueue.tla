---------------------------- MODULE EsWorkQueue ----------------------------
(***************************************************************************)
(* The synchronous work queue of c/source/EsWorkQueue.c.                   *)
(*                                                                         *)
(* There is no container: a thread that submits a task spins until a       *)
(* compare-and-exchange moves `state' from IDLE to BUSY and then runs the  *)
(* task itself, so the queue is the set of threads that spin.  `numTasks'  *)
(* counts the spinning submitters.  Every access to `state' and `numTasks' *)
(* is one step here, because the C code takes no lock: between any two of  *)
(* them every other thread may run.                                        *)
(*                                                                         *)
(* Client contract: an owner makes the queue, and calls begin only when    *)
(* that is done; a task may be submitted again, without any bound, but not *)
(* while it is submitted; only an owner initialises the queue, shuts it    *)
(* down or frees it, one owner frees it, and no call begins after the call *)
(* of EsWorkQueue_free began.  Calls already begun may still be anywhere   *)
(* inside the queue, within SafeToFree unless RacyFree is TRUE.            *)
(***************************************************************************)
EXTENDS Integers, FiniteSets

CONSTANTS
  Threads,       \* the OS threads that use the queue
  Owners,        \* those that may call EsWorkQueue_shutdown and _free
  Tasks,         \* the tasks there are to submit
  Runnable,      \* the tasks whose runFunc is not NULL
  RacyFree,      \* FALSE: the client keeps to SafeToFree below
  NoTask         \* not a task

ASSUME ThreadsAssumption == IsFiniteSet(Threads) /\ Owners \subseteq Threads
ASSUME TasksAssumption   == NoTask \notin Tasks /\ Runnable \subseteq Tasks
ASSUME ParamAssumption   == RacyFree \in BOOLEAN

VARIABLES
  state,         \* queue->state
  numTasks,      \* queue->numTasks
  memory,        \* "none", "live" once it is made, "freed" after free(self)
  pc,            \* where each thread is inside the queue's code
  op,            \* the interface function each thread is in
  task,          \* the argument of the submit call each thread is in
  size,          \* the last answer of EsWorkQueue_getSize to each thread
  runs,          \* how often each task's runFunc was called since its submission
  ledger,        \* what became of each task
  pending        \* history: submitters counted when EsWorkQueue_free was called
                 \* that are still inside

vars == <<state, numTasks, memory, pc, op, task, size, runs, ledger, pending>>

States == {"unset", "IDLE", "BUSY", "SHUTDOWN"}
Ops    == {"none", "init", "submit", "shutdown", "free", "getSize"}

\* Submitters between their I_INC and their I_DEC.
CountedPCs == {"enq_cas", "enq_check", "enq_dec", "enq_cancel"}
\* Counted submitters that have not moved the queue to BUSY.
WaitingPCs == {"enq_cas", "enq_check", "enq_cancel"}
\* Threads between their I_CMPXCHG to BUSY and their store of IDLE.
HoldingPCs == {"enq_dec", "enq_run", "enq_idle", "size_read", "size_idle"}
PCs == CountedPCs \cup HoldingPCs \cup
       {"out", "generic", "enq_inc", "shut_cas", "shut_check", "shut_flush", "free_self",
        "size_cas", "size_check", "undefined"}

\* Places whose next step reads or writes the queue's memory.
TouchingPCs == PCs \ {"out", "undefined", "generic", "enq_run"}

In(t, at)   == memory = "live" /\ pc[t] = at
Goto(t, to) == pc' = [pc EXCEPT ![t] = to]
Return(t)   == /\ Goto(t, "out")
               /\ op' = [op EXCEPT ![t] = "none"]

Waiting == {t \in Threads : pc[t] \in WaitingPCs}
Counted == {t \in Threads : pc[t] \in CountedPCs}
Holding == {t \in Threads : pc[t] \in HoldingPCs}

Init ==
  /\ state = "unset"
  /\ numTasks = 0
  /\ memory = "none"
  /\ pc = [t \in Threads |-> "out"]
  /\ op = [t \in Threads |-> "none"]
  /\ task = [t \in Threads |-> NoTask]
  /\ size = [t \in Threads |-> 0]
  /\ runs = [k \in Tasks |-> 0]
  /\ ledger = [k \in Tasks |-> "new"]
  /\ pending = {}

-----------------------------------------------------------------------------
(* The structure: its function slots, and the queue that fills them.       *)

\* The abstract queue, whose functions do nothing (but genericFree).
initWorkQueue ==
  [type |-> "UNDEFINED",
   init |-> "genericInit", shutDown |-> "genericShutdown", free |-> "genericFree",
   getProps |-> "genericGetProps", getNumTasks |-> "genericGetNumTasks",
   enqueue |-> "genericEnqueue", dequeue |-> "genericDequeue"]

\* Mutant: a new queue type, with the override of enqueue forgotten.
EnqueueNotOverridden ==
  [initWorkQueue EXCEPT !.type = "SYNCHRONOUS", !.shutDown = "syncShutdown",
                        !.getNumTasks = "syncGetNumTasks", !.free = "syncFree"]

\* Mutant: the override of free forgotten.
FreeNotOverridden ==
  [initWorkQueue EXCEPT !.type = "SYNCHRONOUS", !.shutDown = "syncShutdown",
                        !.enqueue = "syncEnqueue", !.getNumTasks = "syncGetNumTasks"]

EsSyncWorkQueue_new ==
  [initWorkQueue EXCEPT !.type = "SYNCHRONOUS", !.shutDown = "syncShutdown",
                        !.enqueue = "syncEnqueue", !.getNumTasks = "syncGetNumTasks",
                        !.free = "syncFree"]

\* Where each of the functions begins.  syncFree begins with syncShutdown;
\* genericFree frees.
Entry(f) ==
  CASE f = "syncEnqueue" -> "enq_inc"
    [] f \in {"syncShutdown", "syncFree"} -> "shut_cas"
    [] f = "syncGetNumTasks" -> "size_cas"
    [] f = "genericFree" -> "free_self"
    [] OTHER -> "generic"

queue == EsSyncWorkQueue_new

\* A failed calloc answers NULL, and leaves things as they were.
New(t) ==
  /\ memory = "none"
  /\ t \in Owners
  /\ memory' = "live"
  /\ state' = "IDLE"
  /\ numTasks' = 0
  /\ UNCHANGED <<pc, op, task, size, runs, ledger, pending>>

-----------------------------------------------------------------------------
(* The interface functions: each calls what is in its slot.                *)

\* The contract: the queue exists and nobody is freeing it.
MayCall(t) ==
  /\ memory = "live"
  /\ pc[t] = "out"
  /\ \A u \in Threads : op[u] # "free"

InitQueue(t) ==
  /\ MayCall(t)
  /\ t \in Owners
  /\ op' = [op EXCEPT ![t] = "init"]
  /\ Goto(t, Entry(queue.init))
  /\ UNCHANGED <<state, numTasks, memory, task, size, runs, ledger, pending>>

Submit(t, k) ==
  /\ MayCall(t)
  /\ ledger[k] # "submitted"
  /\ ledger' = [ledger EXCEPT ![k] = "submitted"]
  /\ runs' = [runs EXCEPT ![k] = 0]
  /\ task' = [task EXCEPT ![t] = k]
  /\ op' = [op EXCEPT ![t] = "submit"]
  /\ Goto(t, Entry(queue.enqueue))
  /\ UNCHANGED <<state, numTasks, memory, size, pending>>

Shutdown(t) ==
  /\ MayCall(t)
  /\ t \in Owners
  /\ op' = [op EXCEPT ![t] = "shutdown"]
  /\ Goto(t, Entry(queue.shutDown))
  /\ UNCHANGED <<state, numTasks, memory, task, size, runs, ledger, pending>>

\* Free may begin on an open queue whatever the submitters it has counted are
\* doing.  What the client must not do is free it under a submitter that has
\* not counted itself, under a shutdown in progress, or, once the queue is shut
\* down, under a submitter that has not been turned away yet.
SafeToFree ==
  /\ \A u \in Threads : pc[u] # "enq_inc" /\ op[u] # "shutdown"
  /\ state = "SHUTDOWN" => Counted = {}

Free(t) ==
  /\ MayCall(t)
  /\ t \in Owners
  /\ RacyFree \/ SafeToFree
  /\ pending' = Counted
  /\ op' = [op EXCEPT ![t] = "free"]
  /\ Goto(t, Entry(queue.free))
  /\ UNCHANGED <<state, numTasks, memory, task, size, runs, ledger>>

GetSize(t) ==
  /\ MayCall(t)
  /\ op' = [op EXCEPT ![t] = "getSize"]
  /\ Goto(t, Entry(queue.getNumTasks))
  /\ UNCHANGED <<state, numTasks, memory, task, size, runs, ledger, pending>>

\* A function of the abstract queue: it has no use for its arguments and
\* answers 0, if anything.
Generic(t) ==
  /\ pc[t] = "generic"
  /\ task' = [task EXCEPT ![t] = NoTask]
  /\ size' = [size EXCEPT ![t] = IF op[t] = "getSize" THEN 0 ELSE @]
  /\ Return(t)
  /\ UNCHANGED <<state, numTasks, memory, runs, ledger, pending>>

-----------------------------------------------------------------------------
(* syncEnqueue                                                             *)

\* Mutant: the submitter is not counted while it waits.
EnqueueIncForgotten(t) ==
  /\ In(t, "enq_inc")
  /\ Goto(t, "enq_cas")
  /\ UNCHANGED <<state, numTasks, memory, op, task, size, runs, ledger,
                 pending>>

EnqueueInc(t) ==
  /\ In(t, "enq_inc")
  /\ numTasks' = numTasks + 1
  /\ Goto(t, "enq_cas")
  /\ UNCHANGED <<state, memory, op, task, size, runs, ledger, pending>>

\* Mutant: the test of `state' and its store are not one atomic operation.
EnqueueCasAnyState(t) ==
  /\ In(t, "enq_cas")
  /\ state' = IF state # "SHUTDOWN" THEN "BUSY" ELSE state
  /\ Goto(t, IF state # "SHUTDOWN" THEN "enq_dec" ELSE "enq_check")
  /\ UNCHANGED <<numTasks, memory, op, task, size, runs, ledger, pending>>

\* I_CMPXCHG(&queue->state, IDLE, BUSY)
EnqueueCas(t) ==
  /\ In(t, "enq_cas")
  /\ state' = IF state = "IDLE" THEN "BUSY" ELSE state
  /\ Goto(t, IF state = "IDLE" THEN "enq_dec" ELSE "enq_check")
  /\ UNCHANGED <<numTasks, memory, op, task, size, runs, ledger, pending>>

EnqueueDec(t) ==
  /\ In(t, "enq_dec")
  /\ numTasks' = numTasks - 1
  /\ Goto(t, "enq_run")
  /\ UNCHANGED <<state, memory, op, task, size, runs, ledger, pending>>

\* EsWorkTask_run: nothing happens when the task has no function.
EnqueueRun(t) ==
  /\ pc[t] = "enq_run"
  /\ runs' = [runs EXCEPT ![task[t]] =
                IF task[t] \in Runnable THEN @ + 1 ELSE @]
  /\ Goto(t, "enq_idle")
  /\ UNCHANGED <<state, numTasks, memory, op, task, size, ledger, pending>>

\* Mutant: the runner forgets to hand the queue back.
EnqueueIdleForgotten(t) ==
  /\ In(t, "enq_idle")
  /\ ledger' = [ledger EXCEPT ![task[t]] = "done"]
  /\ task' = [task EXCEPT ![t] = NoTask]
  /\ Return(t)
  /\ UNCHANGED <<state, numTasks, memory, size, runs, pending>>

\* queue->state = IDLE, a plain store.
EnqueueIdle(t) ==
  /\ In(t, "enq_idle")
  /\ state' = "IDLE"
  /\ ledger' = [ledger EXCEPT ![task[t]] = "done"]
  /\ task' = [task EXCEPT ![t] = NoTask]
  /\ Return(t)
  /\ UNCHANGED <<numTasks, memory, size, runs, pending>>

\* The second read of `state', separate from the failed compare-and-exchange.
EnqueueCheck(t) ==
  /\ In(t, "enq_check")
  /\ Goto(t, IF state = "SHUTDOWN" THEN "enq_cancel" ELSE "enq_cas")
  /\ UNCHANGED <<state, numTasks, memory, op, task, size, runs, ledger,
                 pending>>

\* Mutant: the cancelled submitter stays counted.
EnqueueCancelKeepsCount(t) ==
  /\ In(t, "enq_cancel")
  /\ ledger' = [ledger EXCEPT ![task[t]] = "cancelled"]
  /\ task' = [task EXCEPT ![t] = NoTask]
  /\ Return(t)
  /\ pending' = pending \ {t}
  /\ UNCHANGED <<state, numTasks, memory, size, runs>>

EnqueueCancel(t) ==
  /\ In(t, "enq_cancel")
  /\ numTasks' = numTasks - 1
  /\ ledger' = [ledger EXCEPT ![task[t]] = "cancelled"]
  /\ task' = [task EXCEPT ![t] = NoTask]
  /\ Return(t)
  /\ pending' = pending \ {t}
  /\ UNCHANGED <<state, memory, size, runs>>

-----------------------------------------------------------------------------
(* syncShutdown, entered from EsWorkQueue_shutdown or from syncFree        *)

AfterShutdown(t) ==
  IF op[t] = "free"
  THEN Goto(t, "free_self") /\ UNCHANGED op
  ELSE Return(t)

\* Mutant: the shutdown does not wait for a task in progress.
ShutdownCasForced(t) ==
  /\ In(t, "shut_cas")
  /\ state' = "SHUTDOWN"
  /\ Goto(t, IF state # "SHUTDOWN" THEN "shut_flush" ELSE "shut_check")
  /\ UNCHANGED <<numTasks, memory, op, task, size, runs, ledger, pending>>

\* I_CMPXCHG(&queue->state, IDLE, SHUTDOWN)
ShutdownCas(t) ==
  /\ In(t, "shut_cas")
  /\ state' = IF state = "IDLE" THEN "SHUTDOWN" ELSE state
  /\ Goto(t, IF state = "IDLE" THEN "shut_flush" ELSE "shut_check")
  /\ UNCHANGED <<numTasks, memory, op, task, size, runs, ledger, pending>>

\* A queue already shut down: leave, without waiting for the flush.
ShutdownCheck(t) ==
  /\ In(t, "shut_check")
  /\ IF state = "SHUTDOWN"
     THEN AfterShutdown(t)
     ELSE Goto(t, "shut_cas") /\ UNCHANGED op
  /\ UNCHANGED <<state, numTasks, memory, task, size, runs, ledger, pending>>

\* while (queue->numTasks > 0) sleep: the loop leaves when it reads 0.
ShutdownFlush(t) ==
  /\ In(t, "shut_flush")
  /\ numTasks <= 0
  /\ AfterShutdown(t)
  /\ UNCHANGED <<state, numTasks, memory, task, size, runs, ledger, pending>>

FreeSelf(t) ==
  /\ In(t, "free_self")
  /\ memory' = "freed"
  /\ Return(t)
  /\ UNCHANGED <<state, numTasks, task, size, runs, ledger, pending>>

-----------------------------------------------------------------------------
(* syncGetNumTasks                                                         *)

\* Mutant: the count is read without taking the queue first.
GetSizeCasSkipped(t) ==
  /\ In(t, "size_cas")
  /\ Goto(t, IF state # "SHUTDOWN" THEN "size_read" ELSE "size_check")
  /\ UNCHANGED <<state, numTasks, memory, op, task, size, runs, ledger,
                 pending>>

GetSizeCas(t) ==
  /\ In(t, "size_cas")
  /\ state' = IF state = "IDLE" THEN "BUSY" ELSE state
  /\ Goto(t, IF state = "IDLE" THEN "size_read" ELSE "size_check")
  /\ UNCHANGED <<numTasks, memory, op, task, size, runs, ledger, pending>>

GetSizeRead(t) ==
  /\ In(t, "size_read")
  /\ size' = [size EXCEPT ![t] = numTasks]
  /\ Goto(t, "size_idle")
  /\ UNCHANGED <<state, numTasks, memory, op, task, runs, ledger, pending>>

GetSizeIdle(t) ==
  /\ In(t, "size_idle")
  /\ state' = "IDLE"
  /\ Return(t)
  /\ UNCHANGED <<numTasks, memory, task, size, runs, ledger, pending>>

GetSizeCheck(t) ==
  /\ In(t, "size_check")
  /\ IF state = "SHUTDOWN"
     THEN size' = [size EXCEPT ![t] = 0] /\ Return(t)
     ELSE Goto(t, "size_cas") /\ UNCHANGED <<op, size>>
  /\ UNCHANGED <<state, numTasks, memory, task, runs, ledger, pending>>

-----------------------------------------------------------------------------
\* A thread still inside the queue's code uses memory that free() took back:
\* what it does from there on is undefined, so it takes no further step.
UseAfterFree(t) ==
  /\ memory = "freed"
  /\ pc[t] \in TouchingPCs
  /\ Goto(t, "undefined")
  /\ UNCHANGED <<state, numTasks, memory, op, task, size, runs, ledger,
                 pending>>

\* The steps of a call once it is made.
Step(t) ==
  \/ Generic(t)
  \/ EnqueueInc(t) \/ EnqueueCas(t) \/ EnqueueDec(t) \/ EnqueueRun(t)
  \/ EnqueueIdle(t) \/ EnqueueCheck(t) \/ EnqueueCancel(t)
  \/ ShutdownCas(t) \/ ShutdownCheck(t) \/ ShutdownFlush(t) \/ FreeSelf(t)
  \/ GetSizeCas(t) \/ GetSizeRead(t) \/ GetSizeIdle(t) \/ GetSizeCheck(t)

Next ==
  \E t \in Threads :
    \/ New(t)
    \/ InitQueue(t)
    \/ \E k \in Tasks : Submit(t, k)
    \/ Shutdown(t)
    \/ Free(t)
    \/ GetSize(t)
    \/ Step(t)
    \/ UseAfterFree(t)

Spec == Init /\ [][Next]_vars

\* The OS schedules every thread that is inside a call; nobody has to make one,
\* and nobody stops making them.
FairSpec == Spec /\ \A t \in Threads : WF_vars(Step(t))

-----------------------------------------------------------------------------
(* Properties                                                              *)

TypeOK ==
  /\ state \in States
  /\ numTasks \in Nat
  /\ memory \in {"none", "live", "freed"}
  /\ pc \in [Threads -> PCs]
  /\ op \in [Threads -> Ops]
  /\ task \in [Threads -> Tasks \cup {NoTask}]
  /\ size \in [Threads -> Nat]
  /\ runs \in [Tasks -> Nat]
  /\ ledger \in [Tasks -> {"new", "submitted", "done", "cancelled"}]
  /\ pending \in SUBSET Threads

SubmitPCs   == {"enq_inc", "enq_cas", "enq_check", "enq_dec", "enq_run", "enq_idle",
                "enq_cancel"}
ShutdownPCs == {"shut_cas", "shut_check", "shut_flush"}
GetSizePCs  == {"size_cas", "size_check", "size_read", "size_idle"}

\* Where a thread can be, what it carries and what it has learnt about `state'.
Bookkeeping ==
  /\ \A t \in Threads :
       /\ op[t] = "none" => pc[t] = "out"
       /\ op[t] = "init" => pc[t] = "generic"
       /\ op[t] = "submit" => pc[t] \in SubmitPCs \cup {"undefined"}
       /\ op[t] = "shutdown" => pc[t] \in ShutdownPCs \cup {"undefined"}
       /\ op[t] = "free" => pc[t] \in ShutdownPCs \cup {"free_self", "undefined"}
       /\ op[t] = "getSize" => pc[t] \in GetSizePCs \cup {"undefined"}
       /\ op[t] = "submit" => task[t] \in Tasks /\ ledger[task[t]] = "submitted"
       /\ op[t] # "submit" => task[t] = NoTask
       /\ pc[t] \in {"shut_flush", "free_self", "enq_cancel"} => state = "SHUTDOWN"
       /\ pc[t] = "undefined" => memory = "freed"
  /\ \A t, u \in Threads :
       op[t] = "submit" /\ op[u] = "submit" /\ task[t] = task[u] => t = u
  /\ memory = "freed" => state = "SHUTDOWN"
  /\ memory = "none" => state = "unset" /\ \A t \in Threads : op[t] = "none"

\* "a single task can be executed at a time" (EsWorkQueue.c:249-250): one
\* thread holds the queue, and `state' is BUSY exactly while one does, although
\* the holder gives it back with a plain store.
OneHolder ==
  /\ \A t, u \in Holding : t = u
  /\ state = "BUSY" <=> Holding # {}

\* numTasks is the number of submitters between their increment and their
\* decrement, on every path (run, cancelled by shutdown) and interleaving.
NumTasksExact == memory = "live" => numTasks = Cardinality(Counted)

\* "A shutdown is performed first to ensure not tasks will attempt to use the
\* data structure" (EsWorkQueue.c:304-305): no thread inside a submit call meets
\* the freed queue, whether it waits, runs its task or is being cancelled.
NoTaskTouchesFreedQueue ==
  \A t \in Threads : op[t] = "submit" => pc[t] # "undefined"

\* The same promise for the submitters the queue had counted when it was freed:
\* all have left before the memory is returned.  The code breaks it when the
\* queue was shut down before (EsWorkQueue.c:295 leaves without the flush).
FreeWaitsForSubmitters == memory = "freed" => pending = {}

\* Why: a free that keeps to SafeToFree runs alone among the owners, and finds
\* no submitter counted when it gets past the shutdown.
FreeRunsLast ==
  /\ \A t, u \in Threads : op[t] = "free" /\ op[u] = "free" => t = u
  /\ \A t, u \in Threads :
       op[t] = "free" => /\ pc[u] # "enq_inc"
                         /\ op[u] # "shutdown"
                         /\ memory = "live"
  /\ \A t \in Threads :
       /\ op[t] = "free"
       /\ pc[t] = "free_self" \/ (state = "SHUTDOWN" /\ pc[t] # "shut_flush")
       => Counted = {}
  /\ memory = "freed" => \A u \in Threads : op[u] # "submit"

\* getSize does not count an executing task (EsWorkQueue.c:316): what it reads
\* is the number of submitters still waiting at that moment.
SizeCountsWaiting ==
  [][\A t \in Threads : pc[t] = "size_read" /\ pc'[t] = "size_idle"
       => size'[t] = Cardinality(Waiting)]_vars

\* SHUTDOWN is terminal (EsWorkQueue.c:231): no store brings the queue back, no
\* task starts after it, and "a task in progress is allowed to finish" first.
NothingRunsAfterShutdown ==
  [][state = "SHUTDOWN" =>
       state' = "SHUTDOWN" /\ \A k \in Tasks : runs'[k] <= runs[k]]_vars

\* The spinning has no order, so a shutdown or a submitter may be overtaken for
\* ever, and submitters that go on coming to be turned away may keep the flush of
\* a shutdown waiting.  Nothing else keeps anybody (EsWorkQueue.c:274, 288-295):
\* each submit, shutdown and free returns, unless calls of others go on returning
\* for ever.  So all return once no new ones are made.
ReturnsUnlessOvertaken ==
  \/ \A t \in Threads : op[t] \in {"submit", "shutdown", "free"} ~> pc[t] = "out"
  \/ []<><<\E t \in Threads : op[t] # "none" /\ op'[t] = "none">>_vars

\* The refinement: a task waits from the call of submit to the
\* compare-and-exchange that takes the queue for it, and runs until the queue is
\* given back.
PhaseOf(k) ==
  IF \E t \in Threads : task[t] = k /\ pc[t] \in HoldingPCs THEN "running"
  ELSE IF ledger[k] = "submitted" THEN "waiting"
  ELSE ledger[k]

phase == [k \in Tasks |-> PhaseOf(k)]
open  == state # "SHUTDOWN"

TQ == INSTANCE TaskQueue

\* The threads implement the promised queue, with what it promises to end.
ImplementsTaskQueue == TQ!FairSpec
=============================================================================
