------------------------- MODULE EsWorkQueueProofs -------------------------
(***************************************************************************)
(* What holds of the synchronous work queue for every number of threads,   *)
(* owners and tasks.                                                       *)
(***************************************************************************)
EXTENDS EsWorkQueue, FiniteSetTheorems, TLAPS

USE ThreadsAssumption, TasksAssumption, ParamAssumption

\* The inductive invariant of every behaviour, a racing free included.
IInv ==
  /\ TypeOK
  /\ Bookkeeping
  /\ OneHolder
  /\ NumTasksExact

-----------------------------------------------------------------------------
(* Moving one thread changes the set of counted submitters by that thread  *)
(* at most, and its cardinality by one at most.                            *)

\* The counted submitters are finitely many.
LEMMA CountedIsFinite == IsFiniteSet(Counted) /\ Cardinality(Counted) \in Nat
<1>1. IsFiniteSet(Counted)
  BY FS_Subset DEF Counted
<1>2. QED
  BY <1>1, FS_CardinalityType

\* A step between places of the same sort counts as before.
LEMMA CountSame ==
  ASSUME TypeOK, NEW t \in Threads, NEW to, Goto(t, to),
         (pc[t] \in CountedPCs) <=> (to \in CountedPCs)
  PROVE  Counted' = Counted
BY DEF TypeOK, Goto, Counted

\* A step to a counted place adds one (I_INC of numTasks).
LEMMA CountUp ==
  ASSUME TypeOK, NEW t \in Threads, NEW to, Goto(t, to),
         pc[t] \notin CountedPCs, to \in CountedPCs
  PROVE  Cardinality(Counted') = Cardinality(Counted) + 1
<1>1. Counted' = Counted \cup {t} /\ t \notin Counted
  BY DEF TypeOK, Goto, Counted
<1>2. QED
  BY <1>1, CountedIsFinite, FS_AddElement

\* A step from a counted place takes one away (I_DEC), so there was one.
LEMMA CountDown ==
  ASSUME TypeOK, NEW t \in Threads, NEW to, Goto(t, to),
         pc[t] \in CountedPCs, to \notin CountedPCs
  PROVE  Cardinality(Counted') = Cardinality(Counted) - 1 /\ Cardinality(Counted) >= 1
<1>1. Counted' = Counted \ {t} /\ t \in Counted
  BY DEF TypeOK, Goto, Counted
<1>2. Cardinality(Counted) # 0
  BY <1>1, CountedIsFinite, FS_EmptySet
<1>3. Cardinality(Counted \ {t}) = Cardinality(Counted) - 1
  BY <1>1, CountedIsFinite, FS_RemoveElement
<1>4. QED
  BY <1>1, <1>2, <1>3, CountedIsFinite

-----------------------------------------------------------------------------
(* The inductive step, one lemma per operation.                            *)

\* Where the calls go: the synchronous queue overrides all slots but init (and
\* two that are not called).
LEMMA Slots ==
  /\ Entry(queue.init) = "generic" /\ Entry(queue.enqueue) = "enq_inc"
  /\ Entry(queue.shutDown) = "shut_cas" /\ Entry(queue.free) = "shut_cas"
  /\ Entry(queue.getNumTasks) = "size_cas"
BY DEF Entry, queue, EsSyncWorkQueue_new, initWorkQueue

\* The invariant holds before the queue is made.
LEMMA InitIInv == Init => IInv
<1>1. ASSUME Init PROVE Counted = {}
  BY <1>1 DEF Init, Counted, CountedPCs
<1>2. QED
  BY <1>1, FS_EmptySet
  DEF Init, IInv, TypeOK, Bookkeeping, OneHolder, NumTasksExact, Holding, HoldingPCs,
      PCs, CountedPCs, Ops, States

\* Making the queue: nobody is in it.
LEMMA NewIInv ==
  ASSUME IInv, NEW t \in Threads, New(t)
  PROVE  IInv'
<1> USE DEF IInv, New
<1>1. \A u \in Threads : op[u] = "none" /\ pc[u] = "out"
  BY DEF Bookkeeping
<1>2. Counted' = {} /\ Holding' = {}
  BY <1>1 DEF Counted, CountedPCs, Holding, HoldingPCs
<1>3. NumTasksExact'
  BY <1>2, FS_EmptySet DEF NumTasksExact
<1>4. TypeOK'
  BY DEF TypeOK, States
<1>5. Bookkeeping'
  BY <1>1 DEF TypeOK, Bookkeeping
<1>6. OneHolder'
  BY <1>2 DEF OneHolder
<1>7. QED
  BY <1>3, <1>4, <1>5, <1>6

\* Calls and submit steps that leave `numTasks' alone.
LEMMA CallsIInv ==
  ASSUME IInv, NEW t \in Threads,
         \/ InitQueue(t) \/ (\E k \in Tasks : Submit(t, k)) \/ Shutdown(t) \/ Free(t)
         \/ GetSize(t)
  PROVE  IInv'
<1> USE DEF IInv, MayCall, Goto
<1> USE Slots DEF InitQueue, Submit, Shutdown, Free, GetSize
<1>1. Counted' = Counted
  BY CountSame DEF TypeOK, CountedPCs
<1>2. NumTasksExact'
  BY <1>1 DEF NumTasksExact
<1>3. TypeOK'
  BY CountedIsFinite DEF TypeOK, PCs, Ops, Counted
<1>4. Bookkeeping'
  <2>1. CASE \E k \in Tasks : Submit(t, k)
    BY <2>1 DEF TypeOK, Bookkeeping, SubmitPCs, ShutdownPCs, GetSizePCs
  <2>2. CASE InitQueue(t) \/ Shutdown(t) \/ Free(t) \/ GetSize(t)
    BY <2>2 DEF TypeOK, Bookkeeping, SubmitPCs, ShutdownPCs, GetSizePCs
  <2>3. QED
    BY <2>1, <2>2
<1>5. OneHolder'
  BY DEF TypeOK, OneHolder, Holding, HoldingPCs
<1>6. QED
  BY <1>2, <1>3, <1>4, <1>5

\* The function in the slot of init.
LEMMA GenericIInv ==
  ASSUME IInv, NEW t \in Threads, Generic(t)
  PROVE  op[t] = "init" /\ task' = task /\ size' = size /\ IInv'
<1> USE DEF IInv, Generic, Return
<1>1. op[t] = "init"
  BY DEF TypeOK, Ops, Bookkeeping, SubmitPCs, ShutdownPCs, GetSizePCs
<1>2. task' = task /\ size' = size
  BY <1>1 DEF TypeOK, Bookkeeping
<1>3. Counted' = Counted
  BY CountSame DEF CountedPCs
<1>4. NumTasksExact'
  BY <1>3 DEF NumTasksExact
<1>5. TypeOK'
  BY <1>2 DEF TypeOK, Goto, PCs, Ops
<1>6. Bookkeeping'
  BY <1>2 DEF TypeOK, Bookkeeping, Goto
<1>7. OneHolder'
  BY DEF TypeOK, OneHolder, Holding, HoldingPCs, Goto
<1>8. QED
  BY <1>1, <1>2, <1>4, <1>5, <1>6, <1>7

\* The increment and the two decrements.
LEMMA CountingIInv ==
  ASSUME IInv, NEW t \in Threads,
         EnqueueInc(t) \/ EnqueueDec(t) \/ EnqueueCancel(t)
  PROVE  IInv'
<1> USE DEF IInv, In, Return
<1>1. memory = "live" /\ numTasks = Cardinality(Counted)
  BY DEF NumTasksExact, EnqueueInc, EnqueueDec, EnqueueCancel
<1>2. NumTasksExact' /\ numTasks' \in Nat
  <2>1. CASE EnqueueInc(t)
    <3>1. Cardinality(Counted') = Cardinality(Counted) + 1
      BY <2>1, CountUp DEF EnqueueInc, CountedPCs
    <3>2. QED
      BY <1>1, <2>1, <3>1, CountedIsFinite DEF NumTasksExact, EnqueueInc
  <2>2. CASE EnqueueDec(t)
    <3>1. Cardinality(Counted') = Cardinality(Counted) - 1 /\ Cardinality(Counted) >= 1
      BY <2>2, CountDown DEF EnqueueDec, CountedPCs
    <3>2. QED
      BY <1>1, <2>2, <3>1, CountedIsFinite DEF NumTasksExact, EnqueueDec
  <2>3. CASE EnqueueCancel(t)
    <3>1. Cardinality(Counted') = Cardinality(Counted) - 1 /\ Cardinality(Counted) >= 1
      BY <2>3, CountDown DEF EnqueueCancel, CountedPCs
    <3>2. QED
      BY <1>1, <2>3, <3>1, CountedIsFinite DEF NumTasksExact, EnqueueCancel
  <2>4. QED
    BY <2>1, <2>2, <2>3
<1>3. TypeOK'
  <2>1. CASE EnqueueInc(t) \/ EnqueueDec(t)
    BY <1>2, <2>1 DEF TypeOK, EnqueueInc, EnqueueDec, Goto, PCs, CountedPCs, HoldingPCs
  <2>2. CASE EnqueueCancel(t)
    BY <1>2, <2>2 DEF TypeOK, Bookkeeping, EnqueueCancel, Goto, PCs, Ops
  <2>3. QED
    BY <2>1, <2>2
<1>4. Bookkeeping'
  <2>1. CASE EnqueueInc(t) \/ EnqueueDec(t)
    BY <2>1 DEF TypeOK, Bookkeeping, EnqueueInc, EnqueueDec, Goto, SubmitPCs, ShutdownPCs,
                GetSizePCs
  <2>2. CASE EnqueueCancel(t)
    BY <2>2 DEF TypeOK, Bookkeeping, EnqueueCancel, Goto, SubmitPCs, ShutdownPCs, GetSizePCs
  <2>3. QED
    BY <2>1, <2>2
<1>5. OneHolder'
  BY DEF TypeOK, OneHolder, Holding, HoldingPCs, EnqueueInc, EnqueueDec, EnqueueCancel, Goto
<1>6. QED
  BY <1>2, <1>3, <1>4, <1>5

\* The other steps of a submit.
LEMMA EnqueueIInv ==
  ASSUME IInv, NEW t \in Threads,
         EnqueueCas(t) \/ EnqueueRun(t) \/ EnqueueIdle(t) \/ EnqueueCheck(t)
  PROVE  IInv'
<1> USE DEF IInv, In, Return, EnqueueCas, EnqueueRun, EnqueueIdle, EnqueueCheck
<1>1. Counted' = Counted
  <2>1. PICK to \in PCs : Goto(t, to) /\ (pc[t] \in CountedPCs <=> to \in CountedPCs)
    BY DEF PCs, CountedPCs, HoldingPCs
  <2>2. QED
    BY <2>1, CountSame
<1>2. NumTasksExact'
  BY <1>1 DEF NumTasksExact
<1>3. TypeOK'
  <2>1. op[t] = "submit" => task[t] \in Tasks
    BY DEF Bookkeeping
  <2>2. QED
    BY <2>1 DEF TypeOK, Bookkeeping, Goto, PCs, Ops, States, CountedPCs, HoldingPCs
<1>4. Bookkeeping'
  BY DEF TypeOK, Bookkeeping, Goto, SubmitPCs, ShutdownPCs, GetSizePCs, OneHolder, Holding,
         HoldingPCs
<1>5. OneHolder'
  BY DEF TypeOK, Bookkeeping, OneHolder, Holding, HoldingPCs, Goto
<1>6. QED
  BY <1>2, <1>3, <1>4, <1>5

\* Shutdown and free.
LEMMA ShutdownIInv ==
  ASSUME IInv, NEW t \in Threads,
         ShutdownCas(t) \/ ShutdownCheck(t) \/ ShutdownFlush(t) \/ FreeSelf(t)
  PROVE  IInv'
<1> USE DEF IInv, In, Return, AfterShutdown, ShutdownCas, ShutdownCheck, ShutdownFlush,
            FreeSelf
<1>1. Counted' = Counted
  <2>1. PICK to \in PCs : Goto(t, to) /\ (pc[t] \in CountedPCs <=> to \in CountedPCs)
    BY DEF PCs, CountedPCs, HoldingPCs
  <2>2. QED
    BY <2>1, CountSame
<1>2. NumTasksExact'
  BY <1>1 DEF NumTasksExact
<1>3. TypeOK'
  BY DEF TypeOK, Goto, PCs, Ops, States
<1>4. Bookkeeping'
  BY DEF TypeOK, Bookkeeping, Goto, SubmitPCs, ShutdownPCs, GetSizePCs, OneHolder, Holding,
         HoldingPCs
<1>5. OneHolder'
  BY DEF TypeOK, Bookkeeping, OneHolder, Holding, HoldingPCs, Goto
<1>6. QED
  BY <1>2, <1>3, <1>4, <1>5

\* EsWorkQueue_getSize keeps it.
LEMMA GetSizeIInv ==
  ASSUME IInv, NEW t \in Threads,
         GetSizeCas(t) \/ GetSizeRead(t) \/ GetSizeIdle(t) \/ GetSizeCheck(t)
  PROVE  IInv'
<1> USE DEF IInv, In, Return, GetSizeCas, GetSizeRead, GetSizeIdle, GetSizeCheck
<1>1. Counted' = Counted
  <2>1. PICK to \in PCs : Goto(t, to) /\ (pc[t] \in CountedPCs <=> to \in CountedPCs)
    BY DEF PCs, CountedPCs, HoldingPCs
  <2>2. QED
    BY <2>1, CountSame
<1>2. NumTasksExact'
  BY <1>1 DEF NumTasksExact
<1>3. TypeOK'
  BY DEF TypeOK, Goto, PCs, Ops, States, CountedPCs, HoldingPCs
<1>4. Bookkeeping'
  BY DEF TypeOK, Bookkeeping, Goto, SubmitPCs, ShutdownPCs, GetSizePCs, OneHolder, Holding,
         HoldingPCs
<1>5. OneHolder'
  BY DEF TypeOK, Bookkeeping, OneHolder, Holding, HoldingPCs, Goto
<1>6. QED
  BY <1>2, <1>3, <1>4, <1>5

\* A freed queue is shut down, so nobody holds it: leaving it behind disturbs
\* neither the count, which is gone, nor the holders.
LEMMA UseAfterFreeIInv ==
  ASSUME IInv, NEW t \in Threads, UseAfterFree(t)
  PROVE  IInv'
<1> USE DEF IInv, UseAfterFree
<1>1. Holding = {}
  BY DEF OneHolder, Bookkeeping
<1>2. OneHolder'
  BY <1>1 DEF TypeOK, OneHolder, Holding, HoldingPCs, Goto
<1>3. NumTasksExact'
  BY DEF NumTasksExact
<1>4. TypeOK'
  BY DEF TypeOK, Goto, PCs
<1>5. Bookkeeping'
  BY DEF TypeOK, Bookkeeping, Goto, SubmitPCs, ShutdownPCs, GetSizePCs, TouchingPCs
<1>6. QED
  BY <1>2, <1>3, <1>4, <1>5

\* Every step of the system keeps it.
LEMMA NextIInv == IInv /\ [Next]_vars => IInv'
<1>1. ASSUME IInv, UNCHANGED vars PROVE IInv'
  BY <1>1 DEF vars, IInv, TypeOK, Bookkeeping, OneHolder, NumTasksExact, Holding, Counted
<1>2. ASSUME IInv, Next PROVE IInv'
  BY <1>2, NewIInv, CallsIInv, GenericIInv, CountingIInv, EnqueueIInv, ShutdownIInv,
     GetSizeIInv, UseAfterFreeIInv
  DEF Next, Step
<1>3. QED
  BY <1>1, <1>2

\* It holds in every reachable state.
LEMMA Invariant == Spec => []IInv
BY InitIInv, NextIInv, PTL DEF Spec

-----------------------------------------------------------------------------
(* What follows for every behaviour.                                       *)

\* Every variable keeps its type; in particular numTasks, an I_32 that is only
\* incremented and decremented (EsWorkQueue.c:258-266), never goes below 0.
THEOREM TypeCorrect == Spec => []TypeOK
BY Invariant, PTL DEF IInv

\* Tasks are consumed one at a time (EsWorkQueue.c:249-250), although the
\* consumer gives the queue back with a plain store.
THEOREM SingleConsumer == Spec => []OneHolder
BY Invariant, PTL DEF IInv

\* numTasks counts the submitters that wait, on every path through syncEnqueue.
THEOREM CountExact == Spec => []NumTasksExact
BY Invariant, PTL DEF IInv

\* No store brings a shut-down queue back and no task runs in one: the only
\* stores of IDLE are by the holder, and a holder excludes SHUTDOWN.
THEOREM ShutdownTerminal == Spec => NothingRunsAfterShutdown
<1>1. ASSUME IInv, [Next]_vars, state = "SHUTDOWN"
      PROVE  state' = "SHUTDOWN" /\ \A k \in Tasks : runs'[k] <= runs[k]
  <2>0. runs \in [Tasks -> Nat]
    BY <1>1 DEF IInv, TypeOK
  <2>1. \A t \in Threads : pc[t] \notin HoldingPCs
    BY <1>1 DEF IInv, OneHolder, Holding
  <2>2. CASE UNCHANGED vars
    BY <1>1, <2>0, <2>2 DEF vars
  <2>3. CASE Next
    <3>1. PICK t \in Threads :
             \/ New(t) \/ InitQueue(t)
             \/ \E k \in Tasks : Submit(t, k)
             \/ Shutdown(t) \/ Free(t) \/ GetSize(t) \/ Step(t) \/ UseAfterFree(t)
      BY <2>3 DEF Next
    <3>2. ~New(t)
      BY <1>1 DEF New, IInv, Bookkeeping
    <3>3. ASSUME NEW k \in Tasks, Submit(t, k)
          PROVE  state' = "SHUTDOWN" /\ \A j \in Tasks : runs'[j] <= runs[j]
      BY <1>1, <2>0, <3>3 DEF Submit
    <3>4. CASE \/ InitQueue(t) \/ Shutdown(t) \/ Free(t) \/ GetSize(t)
               \/ Step(t) \/ UseAfterFree(t)
      <4>1. state' = "SHUTDOWN" /\ runs' = runs
        BY <1>1, <2>1, <3>4
        DEF InitQueue, Generic, Shutdown, Free, GetSize, UseAfterFree, Step, In,
            HoldingPCs,
            EnqueueInc, EnqueueCas, EnqueueDec, EnqueueRun, EnqueueIdle, EnqueueCheck,
            EnqueueCancel, ShutdownCas, ShutdownCheck, ShutdownFlush, FreeSelf,
            GetSizeCas, GetSizeRead, GetSizeIdle, GetSizeCheck
      <4>2. QED
        BY <2>0, <4>1
    <3>5. QED
      BY <3>1, <3>2, <3>3, <3>4
  <2>4. QED
    BY <1>1, <2>2, <2>3
<1>2. QED
  BY <1>1, Invariant, PTL DEF Spec, NothingRunsAfterShutdown

\* The answer of getSize never includes an executing task: its reader holds the
\* queue, so no runner stands between its compare-and-exchange and its decrement.
THEOREM SizeExact == Spec => SizeCountsWaiting
<1>1. ASSUME IInv, [Next]_vars, NEW t \in Threads, pc[t] = "size_read", pc'[t] = "size_idle"
      PROVE  size'[t] = Cardinality(Waiting)
  <2>1. memory = "live"
    <3>1. t \in Holding
      BY <1>1 DEF Holding, HoldingPCs
    <3>2. QED
      BY <1>1, <3>1 DEF IInv, TypeOK, Bookkeeping, OneHolder
  <2>2. \A u \in Threads : pc[u] # "enq_dec"
    BY <1>1 DEF IInv, OneHolder, Holding, HoldingPCs
  <2>3. Waiting = Counted
    BY <2>2 DEF Waiting, Counted, WaitingPCs, CountedPCs
  <2>4. size'[t] = numTasks
    <3>1. PICK u \in Threads :
             \/ New(u) \/ InitQueue(u)
             \/ \E k \in Tasks : Submit(u, k)
             \/ Shutdown(u) \/ Free(u) \/ GetSize(u) \/ Step(u) \/ UseAfterFree(u)
      BY <1>1 DEF Next, vars
    <3>2. pc'[u] # pc[u] /\ u = t
      BY <1>1, <3>1
      DEF IInv, TypeOK, New, InitQueue, Generic, Submit, Shutdown, Free, GetSize,
          UseAfterFree, Step, In, MayCall, Goto, Return, AfterShutdown, TouchingPCs,
          EnqueueInc, EnqueueCas, EnqueueDec, EnqueueRun, EnqueueIdle, EnqueueCheck,
          EnqueueCancel, ShutdownCas, ShutdownCheck, ShutdownFlush, FreeSelf,
          GetSizeCas, GetSizeRead, GetSizeIdle, GetSizeCheck
    <3>3. GetSizeRead(t)
      BY <1>1, <2>1, <3>1, <3>2
      DEF New, InitQueue, Generic, Submit, Shutdown, Free, GetSize, UseAfterFree, Step, In,
          MayCall, EnqueueInc, EnqueueCas, EnqueueDec, EnqueueRun, EnqueueIdle, EnqueueCheck,
          EnqueueCancel, ShutdownCas, ShutdownCheck, ShutdownFlush, FreeSelf,
          GetSizeCas, GetSizeIdle, GetSizeCheck
    <3>4. QED
      BY <1>1, <3>3 DEF GetSizeRead, IInv, TypeOK
  <2>5. QED
    BY <2>1, <2>3, <2>4, <1>1 DEF IInv, NumTasksExact
<1>2. ASSUME IInv, [Next]_vars
      PROVE  [\A t \in Threads : pc[t] = "size_read" /\ pc'[t] = "size_idle"
                => size'[t] = Cardinality(Waiting)]_vars
  BY <1>1, <1>2
<1>3. QED
  BY <1>2, Invariant, PTL DEF Spec, SizeCountsWaiting

-----------------------------------------------------------------------------
(* Freeing the queue under the client contract SafeToFree.                 *)

\* The strengthening for free holds at first.
LEMMA FreeInit == Init => FreeRunsLast
BY DEF Init, FreeRunsLast

\* Each step keeps FreeRunsLast: no call begins beside a free, and the flush of
\* the free leaves only when no submitter is counted.
LEMMA FreeNext ==
  ASSUME RacyFree = FALSE, IInv, FreeRunsLast, [Next]_vars
  PROVE  FreeRunsLast'
<1> USE DEF FreeRunsLast
<1>1. CASE UNCHANGED vars
  BY <1>1 DEF vars, Counted
<1>2. ASSUME NEW t \in Threads,
             \/ InitQueue(t) \/ (\E k \in Tasks : Submit(t, k)) \/ Shutdown(t)
             \/ Free(t) \/ GetSize(t)
      PROVE  FreeRunsLast'
  <2>1. Counted' = Counted
    BY <1>2, CountSame, Slots
    DEF IInv, InitQueue, Submit, Shutdown, Free, GetSize, MayCall, TypeOK, CountedPCs, Goto
  <2>2. QED
    BY <1>2, <2>1, Slots
    DEF IInv, TypeOK, InitQueue, Submit, Shutdown, Free, GetSize, MayCall, SafeToFree, Goto
<1>3. ASSUME NEW t \in Threads,
             EnqueueInc(t) \/ EnqueueCas(t) \/ EnqueueDec(t) \/ EnqueueRun(t)
               \/ EnqueueIdle(t) \/ EnqueueCheck(t) \/ EnqueueCancel(t)
      PROVE  FreeRunsLast'
  <2>1. pc[t] # "enq_inc" => Counted' \subseteq Counted
    BY <1>3
    DEF IInv, TypeOK, EnqueueInc, EnqueueCas, EnqueueDec, EnqueueRun, EnqueueIdle,
        EnqueueCheck, EnqueueCancel, In, Goto, Return, Counted, CountedPCs
  <2>2. op[t] = "submit"
    BY <1>3
    DEF IInv, TypeOK, Bookkeeping, Ops, EnqueueInc, EnqueueCas, EnqueueDec, EnqueueRun,
        EnqueueIdle, EnqueueCheck, EnqueueCancel, In, ShutdownPCs, GetSizePCs
  <2>3. \A u \in Threads : op'[u] = "free" => op[u] = "free" /\ pc'[u] = pc[u]
    BY <1>3, <2>2
    DEF IInv, TypeOK, EnqueueInc, EnqueueCas, EnqueueDec, EnqueueRun, EnqueueIdle,
        EnqueueCheck, EnqueueCancel, In, Goto, Return
  <2>4. /\ memory' = memory
        /\ state' = "SHUTDOWN" => state = "SHUTDOWN"
        /\ \A u \in Threads : pc'[u] = "enq_inc" => pc[u] = "enq_inc"
        /\ \A u \in Threads : op'[u] \in {op[u], "none"}
    BY <1>3
    DEF IInv, TypeOK, EnqueueInc, EnqueueCas, EnqueueDec, EnqueueRun, EnqueueIdle,
        EnqueueCheck, EnqueueCancel, In, Goto, Return
  <2>5. pc[t] = "enq_inc" => \A u \in Threads : op'[u] # "free"
    BY <2>3
  <2>6. QED
    BY <2>1, <2>3, <2>4, <2>5
<1>4. ASSUME NEW t \in Threads, ShutdownCas(t) \/ ShutdownCheck(t)
      PROVE  FreeRunsLast'
  <2>1. Counted' = Counted
    <3>1. PICK to \in PCs : Goto(t, to) /\ (pc[t] \in CountedPCs <=> to \in CountedPCs)
      BY <1>4
      DEF ShutdownCas, ShutdownCheck, AfterShutdown, In, Return, PCs, CountedPCs
    <3>2. QED
      BY <3>1, CountSame DEF IInv
  <2>2. op[t] \in {"shutdown", "free"}
    BY <1>4
    DEF IInv, TypeOK, Bookkeeping, Ops, ShutdownCas, ShutdownCheck, In, SubmitPCs, GetSizePCs
  <2>3. QED
    BY <1>4, <2>1, <2>2
    DEF IInv, TypeOK, ShutdownCas, ShutdownCheck, AfterShutdown, In, Return, Goto
<1>5. ASSUME NEW t \in Threads, ShutdownFlush(t)
      PROVE  FreeRunsLast'
  <2>1. Counted = {}
    <3>1. Cardinality(Counted) = 0
      BY <1>5, CountedIsFinite DEF IInv, NumTasksExact, ShutdownFlush, In
    <3>2. QED
      BY <3>1, CountedIsFinite, FS_EmptySet
  <2>2. Counted' = {}
    BY <1>5, <2>1
    DEF IInv, TypeOK, ShutdownFlush, AfterShutdown, In, Return, Goto, Counted, CountedPCs
  <2>3. QED
    BY <1>5, <2>2 DEF IInv, TypeOK, ShutdownFlush, AfterShutdown, In, Return, Goto
<1>6. ASSUME NEW t \in Threads, FreeSelf(t)
      PROVE  FreeRunsLast'
  <2>1. op[t] = "free"
    BY <1>6
    DEF IInv, TypeOK, Bookkeeping, Ops, FreeSelf, In, SubmitPCs, ShutdownPCs, GetSizePCs
  <2>2. Counted = {} /\ Holding = {} /\ memory = "live"
    BY <1>6, <2>1 DEF IInv, Bookkeeping, OneHolder, FreeSelf, In
  <2>3. \A u \in Threads : op[u] # "submit"
    BY <2>1, <2>2
    DEF IInv, Bookkeeping, SubmitPCs, Counted, CountedPCs, Holding, HoldingPCs
  <2>4. \A u \in Threads : op'[u] \notin {"free", "submit"}
    BY <1>6, <2>1, <2>3 DEF IInv, TypeOK, FreeSelf, Return
  <2>5. QED
    BY <2>4
<1>7. ASSUME NEW t \in Threads,
             GetSizeCas(t) \/ GetSizeRead(t) \/ GetSizeIdle(t) \/ GetSizeCheck(t)
      PROVE  FreeRunsLast'
  <2>1. Counted' = Counted
    <3>1. PICK to \in PCs : Goto(t, to) /\ (pc[t] \in CountedPCs <=> to \in CountedPCs)
      BY <1>7
      DEF GetSizeCas, GetSizeRead, GetSizeIdle, GetSizeCheck, In, Return, PCs, CountedPCs,
          HoldingPCs
    <3>2. QED
      BY <3>1, CountSame DEF IInv
  <2>2. op[t] = "getSize"
    BY <1>7
    DEF IInv, TypeOK, Bookkeeping, Ops, GetSizeCas, GetSizeRead, GetSizeIdle, GetSizeCheck,
        In, SubmitPCs, ShutdownPCs
  <2>3. QED
    BY <1>7, <2>1, <2>2
    DEF IInv, TypeOK, GetSizeCas, GetSizeRead, GetSizeIdle, GetSizeCheck, In, Return, Goto
<1>8. ASSUME NEW t \in Threads, UseAfterFree(t)
      PROVE  FreeRunsLast'
  BY <1>8 DEF IInv, TypeOK, UseAfterFree, Goto
<1>9. ASSUME NEW t \in Threads, New(t)
      PROVE  FreeRunsLast'
  BY <1>9 DEF New, IInv, Bookkeeping
<1>10. ASSUME NEW t \in Threads, Generic(t)
       PROVE  FreeRunsLast'
  <2>1. op[t] = "init"
    BY <1>10, GenericIInv
  <2>2. Counted' = Counted
    BY <1>10, CountSame DEF IInv, Generic, Return, CountedPCs
  <2>3. QED
    BY <1>10, <2>1, <2>2 DEF IInv, TypeOK, Generic, Return, Goto
<1>11. QED
  BY <1>1, <1>2, <1>3, <1>4, <1>5, <1>6, <1>7, <1>8, <1>9, <1>10 DEF Next, Step

\* Under the contract no submitter, waiting, running or cancelled, meets the
\* freed queue (EsWorkQueue.c:304-305).
THEOREM FreeIsSafe ==
  ASSUME RacyFree = FALSE
  PROVE  Spec => []NoTaskTouchesFreedQueue
<1>1. IInv /\ FreeRunsLast /\ [Next]_vars => FreeRunsLast'
  BY FreeNext
<1>2. IInv /\ FreeRunsLast => NoTaskTouchesFreedQueue
  BY DEF IInv, Bookkeeping, FreeRunsLast, NoTaskTouchesFreedQueue
<1>3. QED
  BY <1>1, <1>2, FreeInit, Invariant, PTL DEF Spec

-----------------------------------------------------------------------------
(* The threads implement the promised queue (safety).                      *)

\* Where the task of a submitting thread is.
LEMMA PhaseOfCarried ==
  ASSUME IInv, NEW t \in Threads, op[t] = "submit"
  PROVE  /\ task[t] \in Tasks
         /\ pc[t] \in HoldingPCs => PhaseOf(task[t]) = "running"
         /\ pc[t] \notin HoldingPCs => PhaseOf(task[t]) = "waiting"
<1>1. task[t] \in Tasks /\ ledger[task[t]] = "submitted"
  BY DEF IInv, Bookkeeping
<1>2. \A u \in Threads : task[u] = task[t] => u = t
  BY <1>1 DEF IInv, Bookkeeping
<1>3. QED
  BY <1>1, <1>2 DEF PhaseOf

\* A step of t leaves the phase of every task t does not carry.
LEMMA PhaseOfOthers ==
  ASSUME IInv, NEW t \in Threads, NEW j \in Tasks, task[t] # j, task'[t] # j,
         \A u \in Threads \ {t} : pc'[u] = pc[u] /\ task'[u] = task[u],
         ledger'[j] = ledger[j]
  PROVE  PhaseOf(j)' = PhaseOf(j)
<1>1. \A u \in Threads : task[u] = j <=> task'[u] = j
  OBVIOUS
<1>2. \A u \in Threads : task[u] = j => pc'[u] = pc[u]
  OBVIOUS
<1>3. QED
  BY <1>1, <1>2 DEF PhaseOf

\* A step of a thread that submits nothing leaves every phase.
LEMMA PhaseStutter ==
  ASSUME IInv, NEW t \in Threads, op[t] # "submit", task' = task, ledger' = ledger,
         \A u \in Threads \ {t} : pc'[u] = pc[u]
  PROVE  phase' = phase
<1>1. task[t] = NoTask /\ task'[t] = NoTask
  BY DEF IInv, Bookkeeping
<1>2. \A j \in Tasks : PhaseOf(j)' = PhaseOf(j)
  BY <1>1, PhaseOfOthers
<1>3. QED
  BY <1>2 DEF phase

\* A step of a submitting thread moves its own task at most.
LEMMA PhaseMove ==
  ASSUME IInv, NEW t \in Threads, NEW k \in Tasks, task[t] = k, NEW to,
         \A u \in Threads \ {t} : pc'[u] = pc[u] /\ task'[u] = task[u],
         task'[t] \in {k, NoTask},
         \A j \in Tasks \ {k} : ledger'[j] = ledger[j],
         PhaseOf(k)' = to
  PROVE  phase' = [phase EXCEPT ![k] = to]
<1>1. \A j \in Tasks \ {k} : PhaseOf(j)' = PhaseOf(j)
  BY PhaseOfOthers
<1>2. QED
  BY <1>1 DEF phase

\* While the queue is not taken, no task runs.
LEMMA NoneRunning ==
  ASSUME IInv, Holding = {}
  PROVE  TQ!Running = {}
<1>1. \A k \in Tasks : PhaseOf(k) # "running"
  BY DEF PhaseOf, Holding, IInv, TypeOK
<1>2. QED
  BY <1>1 DEF TQ!Running, phase

\* The steps of a submit move its task along the abstract life cycle.
LEMMA SubmitStep ==
  ASSUME IInv, IInv', NEW t \in Threads,
         EnqueueInc(t) \/ EnqueueCas(t) \/ EnqueueDec(t) \/ EnqueueRun(t)
           \/ EnqueueIdle(t) \/ EnqueueCheck(t) \/ EnqueueCancel(t)
  PROVE  [TQ!Next]_TQ!vars
<1> USE DEF In
<1>1. op[t] = "submit"
  BY DEF IInv, TypeOK, Bookkeeping, Ops, EnqueueInc, EnqueueCas, EnqueueDec, EnqueueRun,
         EnqueueIdle, EnqueueCheck, EnqueueCancel, ShutdownPCs, GetSizePCs
<1>2. PICK k \in Tasks : k = task[t]
  BY <1>1, PhaseOfCarried
<1>3. phase[k] = PhaseOf(k)
  BY <1>2 DEF phase
<1>4. ASSUME EnqueueInc(t) \/ EnqueueCas(t) \/ EnqueueDec(t) \/ EnqueueRun(t)
               \/ EnqueueCheck(t)
      PROVE  /\ op'[t] = "submit" /\ task' = task /\ ledger' = ledger
             /\ \A u \in Threads \ {t} : pc'[u] = pc[u]
  BY <1>1, <1>4
  DEF IInv, TypeOK, EnqueueInc, EnqueueCas, EnqueueDec, EnqueueRun, EnqueueCheck, Goto
<1>5. ledger[k] = "submitted"
  BY <1>1, <1>2 DEF IInv, Bookkeeping
<1>6. CASE EnqueueCas(t) /\ state = "IDLE"
  <2>1. phase[k] = "waiting"
    BY <1>1, <1>2, <1>3, <1>6, PhaseOfCarried DEF EnqueueCas, HoldingPCs
  <2>2. pc'[t] = "enq_dec"
    BY <1>6 DEF EnqueueCas, IInv, TypeOK, Goto
  <2>3. \A u \in Threads : task'[u] = k => u = t
    BY <1>1, <1>2, <1>4, <1>6 DEF IInv, Bookkeeping
  <2>4. PhaseOf(k)' = "running"
    BY <1>2, <1>4, <1>6, <2>2, <2>3 DEF PhaseOf, WaitingPCs, HoldingPCs
  <2>5. phase' = [phase EXCEPT ![k] = "running"]
    BY <1>2, <1>4, <1>6, <2>4, PhaseMove
  <2>6. Holding = {}
    BY <1>6 DEF IInv, OneHolder
  <2>7. QED
    BY <1>2, <1>6, <2>1, <2>5, <2>6, NoneRunning
    DEF TQ!Next, TQ!Start, TQ!Move, EnqueueCas, open
<1>7. CASE \/ EnqueueCas(t) /\ state # "IDLE"
          \/ EnqueueInc(t) \/ EnqueueDec(t) \/ EnqueueRun(t) \/ EnqueueCheck(t)
  <2>1. pc[t] \in HoldingPCs <=> pc'[t] \in HoldingPCs
    BY <1>7
    DEF EnqueueCas, EnqueueInc, EnqueueDec, EnqueueRun, EnqueueCheck, IInv, TypeOK, Goto,
        HoldingPCs
  <2>2. PhaseOf(k)' = PhaseOf(k)
    <3>1. (\E u \in Threads : task[u] = k /\ pc[u] \in HoldingPCs)
            <=> (\E u \in Threads : task'[u] = k /\ pc'[u] \in HoldingPCs)
      BY <1>4, <1>7, <2>1
    <3>2. QED
      BY <1>4, <1>7, <3>1 DEF PhaseOf
  <2>3. phase' = phase
    <3>1. \A j \in Tasks \ {k} : task[t] # j /\ task'[t] # j
      BY <1>2, <1>4, <1>7
    <3>2. \A j \in Tasks \ {k} : PhaseOf(j)' = PhaseOf(j)
      BY <1>4, <1>7, <3>1, PhaseOfOthers
    <3>3. QED
      BY <2>2, <3>2 DEF phase
  <2>4. open' = open
    BY <1>7 DEF EnqueueCas, EnqueueInc, EnqueueDec, EnqueueRun, EnqueueCheck, open
  <2>5. QED
    BY <2>3, <2>4 DEF TQ!vars
<1>8. CASE EnqueueIdle(t) \/ EnqueueCancel(t)
  <2>1. /\ task'[t] = NoTask
        /\ \A u \in Threads \ {t} : pc'[u] = pc[u] /\ task'[u] = task[u]
        /\ \A j \in Tasks \ {k} : ledger'[j] = ledger[j]
    BY <1>2, <1>8 DEF IInv, TypeOK, EnqueueIdle, EnqueueCancel, Goto, Return
  <2>2. \A u \in Threads : task'[u] # k
    BY <1>1, <1>2, <2>1, TasksAssumption DEF IInv, Bookkeeping
  <2>3. CASE EnqueueIdle(t)
    <3>1. PhaseOf(k)' = "done"
      BY <1>2, <2>2, <2>3 DEF PhaseOf, EnqueueIdle, IInv, TypeOK
    <3>2. phase' = [phase EXCEPT ![k] = "done"]
      BY <1>2, <2>1, <3>1, PhaseMove
    <3>3. phase[k] = "running"
      BY <1>1, <1>2, <1>3, <2>3, PhaseOfCarried DEF EnqueueIdle, HoldingPCs
    <3>4. open' = open
      <4>1. t \in Holding
        BY <2>3 DEF EnqueueIdle, Holding, HoldingPCs
      <4>2. QED
        BY <2>3, <4>1 DEF EnqueueIdle, IInv, OneHolder, open
    <3>5. QED
      BY <1>2, <3>2, <3>3, <3>4 DEF TQ!Next, TQ!Finish, TQ!Move
  <2>4. CASE EnqueueCancel(t)
    <3>1. PhaseOf(k)' = "cancelled"
      BY <1>2, <2>2, <2>4 DEF PhaseOf, EnqueueCancel, IInv, TypeOK
    <3>2. phase' = [phase EXCEPT ![k] = "cancelled"]
      BY <1>2, <2>1, <3>1, PhaseMove
    <3>3. phase[k] = "waiting"
      BY <1>1, <1>2, <1>3, <2>4, PhaseOfCarried DEF EnqueueCancel, HoldingPCs
    <3>4. ~open /\ open' = open
      BY <2>4 DEF EnqueueCancel, IInv, Bookkeeping, open
    <3>5. QED
      BY <1>2, <3>2, <3>3, <3>4 DEF TQ!Next, TQ!Cancel, TQ!Move
  <2>5. QED
    BY <1>8, <2>3, <2>4
<1>9. QED
  BY <1>6, <1>7, <1>8

\* Every other step of a call stutters, but for the one that closes the queue.
LEMMA OtherStep ==
  ASSUME IInv, FreeRunsLast, NEW t \in Threads,
         \/ InitQueue(t) \/ Shutdown(t) \/ Free(t) \/ GetSize(t) \/ Generic(t)
         \/ ShutdownCas(t) \/ ShutdownCheck(t) \/ ShutdownFlush(t) \/ FreeSelf(t)
         \/ GetSizeCas(t) \/ GetSizeRead(t) \/ GetSizeIdle(t) \/ GetSizeCheck(t)
         \/ UseAfterFree(t)
  PROVE  [TQ!Next]_TQ!vars
<1> USE DEF In
<1>1. op[t] # "submit"
  BY DEF IInv, Bookkeeping, FreeRunsLast, MayCall, SubmitPCs, InitQueue, Shutdown, Free,
         GetSize, Generic, ShutdownCas, ShutdownCheck, ShutdownFlush, FreeSelf, GetSizeCas,
         GetSizeRead, GetSizeIdle, GetSizeCheck, UseAfterFree
<1>2. task' = task /\ ledger' = ledger /\ \A u \in Threads \ {t} : pc'[u] = pc[u]
  BY GenericIInv
  DEF IInv, TypeOK, Goto, Return, AfterShutdown, InitQueue, Shutdown, Free, GetSize, Generic,
      ShutdownCas, ShutdownCheck, ShutdownFlush, FreeSelf, GetSizeCas, GetSizeRead,
      GetSizeIdle, GetSizeCheck, UseAfterFree
<1>3. phase' = phase
  BY <1>1, <1>2, PhaseStutter
<1>4. CASE ShutdownCas(t) /\ state = "IDLE"
  <2>1. TQ!Running = {}
    BY <1>4, NoneRunning DEF IInv, OneHolder
  <2>2. QED
    BY <1>3, <1>4, <2>1 DEF ShutdownCas, open, TQ!Next, TQ!Close
<1>5. CASE ~(ShutdownCas(t) /\ state = "IDLE")
  <2>1. GetSizeIdle(t) => t \in Holding
    BY DEF GetSizeIdle, Holding, HoldingPCs
  <2>2. open' = open
    BY <1>5, <2>1
    DEF IInv, OneHolder, open, InitQueue, Shutdown, Free, GetSize, Generic, ShutdownCas,
        ShutdownCheck, ShutdownFlush, FreeSelf, GetSizeCas, GetSizeRead, GetSizeIdle,
        GetSizeCheck, UseAfterFree
  <2>3. QED
    BY <1>3, <2>2 DEF TQ!vars
<1>6. QED
  BY <1>4, <1>5

\* Making the queue is not visible either: the promised queue is open at first.
LEMMA NewStep ==
  ASSUME IInv, NEW t \in Threads, New(t)
  PROVE  UNCHANGED TQ!vars
BY DEF New, IInv, Bookkeeping, TQ!vars, phase, PhaseOf, open

\* From the call of submit on, the task waits.
LEMMA SubmitCall ==
  ASSUME IInv, IInv', NEW t \in Threads, NEW k \in Tasks, Submit(t, k)
  PROVE  TQ!Next
<1>1. \A u \in Threads : task[u] # k
  BY DEF IInv, Bookkeeping, Submit, TasksAssumption
<1>2. /\ task'[t] = k /\ pc'[t] = "enq_inc" /\ ledger'[k] = "submitted"
      /\ ledger[k] \in {"new", "done", "cancelled"}
      /\ \A u \in Threads \ {t} : pc'[u] = pc[u] /\ task'[u] = task[u]
      /\ \A j \in Tasks \ {k} : ledger'[j] = ledger[j]
  BY Slots DEF IInv, TypeOK, Submit, Goto
<1>3. PhaseOf(k)' = "waiting" /\ PhaseOf(k) \in {"new", "done", "cancelled"}
  BY <1>1, <1>2 DEF PhaseOf, HoldingPCs
<1>4. \A j \in Tasks \ {k} : PhaseOf(j)' = PhaseOf(j)
  <2>1. task[t] = NoTask
    BY DEF IInv, Bookkeeping, Submit, MayCall, SubmitPCs
  <2>2. QED
    BY <1>2, <2>1, PhaseOfOthers
<1>5. /\ phase' = [phase EXCEPT ![k] = "waiting"]
      /\ phase[k] \in {"new", "done", "cancelled"}
  BY <1>3, <1>4 DEF phase
<1>6. open' = open
  BY DEF Submit, open
<1>7. QED
  BY <1>5, <1>6 DEF TQ!Next, TQ!Submit, TQ!Move

\* The C queue does nothing the promised queue would not do: one task at a
\* time, none twice a submission, none after shutdown, and only then cancelled.
THEOREM Refinement ==
  ASSUME RacyFree = FALSE
  PROVE  Spec => TQ!Spec
<1>1. Init => TQ!Init
  BY DEF Init, TQ!Init, phase, PhaseOf, open
<1>2. IInv /\ IInv' /\ FreeRunsLast /\ [Next]_vars => [TQ!Next]_TQ!vars
  <2>1. ASSUME IInv, UNCHANGED vars PROVE UNCHANGED TQ!vars
    BY <2>1 DEF vars, TQ!vars, phase, PhaseOf, open
  <2>2. QED
    BY <2>1, SubmitStep, OtherStep, NewStep, SubmitCall DEF Next, Step
<1>3. IInv /\ FreeRunsLast /\ [Next]_vars => FreeRunsLast'
  BY FreeNext
<1>4. QED
  BY <1>1, <1>2, <1>3, FreeInit, Invariant, PTL DEF Spec, TQ!Spec
=============================================================================
