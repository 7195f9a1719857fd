---------------------- MODULE EsMqttAsyncChannelProofs ----------------------
(***************************************************************************)
(* Proofs about the calls of EsMqttAsyncMessages and their messages, for a *)
(* library that one VM thread initialises: the queue keeps real time, no   *)
(* message is seen twice, and the threads implement AsyncChannel.          *)
(***************************************************************************)
EXTENDS EsMqttAsyncMessagesProofs, SequenceTheorems

DInv == OneCaller /\ Requested /\ Fates /\ QueueOrder

-----------------------------------------------------------------------------
(* What a step can do to the calls                                         *)

\* It leaves them alone, wherever in a call it takes its thread, ...
Unnoticed ==
  /\ UNCHANGED <<call, fate, result, after, queue>>
  /\ \A u \in Threads : call[u] # 0 =>
       (pc[u] \in OpenPCs /\ pc'[u] \in OpenPCs) \/ pc'[u] = pc[u]

\* ... begins one, ...
Begins(t, c) ==
  /\ fate[c] = "new" /\ call[t] = 0
  /\ call' = [call EXCEPT ![t] = c]
  /\ fate' = [fate EXCEPT ![c] = "open"]
  /\ after' = [after EXCEPT ![c] = Returned]
  /\ \E at \in {"new", "init_cas"} : pc' = [pc EXCEPT ![t] = at]
  /\ UNCHANGED <<result, queue>>

\* ... closes one, with or without a message in the queue, ...
Closes(t, f, a) ==
  /\ call[t] \in Calls /\ pc[t] \in OpenPCs
  /\ f \in {"dropped", "lost", "posted"} /\ a \in {"0", "1"}
  /\ a = "0" => f = "dropped"
  /\ fate' = [fate EXCEPT ![call[t]] = f]
  /\ result' = [result EXCEPT ![call[t]] = a]
  /\ after' = after
  /\ \/ pc' = [pc EXCEPT ![t] = "out"] /\ call' = [call EXCEPT ![t] = 0]
     \/ pc' = [pc EXCEPT ![t] = "free"] /\ call' = call

Posts(t) ==
  \E m \in Messages : m.call = call[t] /\ queue' = Append(queue, m)

\* ... frees the message of one, or evaluates a message.
Frees(t) ==
  /\ UNCHANGED <<fate, result, after, queue>>
  /\ pc' = [pc EXCEPT ![t] = "out"] /\ call' = [call EXCEPT ![t] = 0]

Takes ==
  /\ UNCHANGED <<pc, call, result, after>>
  /\ queue # <<>>
  /\ queue' = Tail(queue)
  /\ fate' = [fate EXCEPT ![Head(queue).call] = "evaluated"]

CallStep ==
  \/ Unnoticed
  \/ \E t \in Threads, c \in Calls : Begins(t, c)
  \/ \E t \in Threads, f \in {"dropped", "lost"}, a \in {"0", "1"} :
       Closes(t, f, a) /\ UNCHANGED queue
  \/ \E t \in Threads, a \in {"0", "1"} : Closes(t, "posted", a) /\ Posts(t)
  \/ \E t \in Threads : Frees(t)
  \/ Takes

\* The end of EsMqttAsyncMessage_send closes the call.
LEMMA SentCloses ==
  ASSUME IInv, NEW t \in Threads, call[t] \in Calls, pc[t] \in OpenPCs,
         NEW f \in {"dropped", "lost", "posted"}, NEW a \in {"0", "1"},
         a = "0" => f = "dropped", fate' = [fate EXCEPT ![call[t]] = f],
         after' = after, Sent(t, a)
  PROVE  Closes(t, f, a)
BY DEF Sent, Answer, Goto, Closes

\* A step inside a call of Paho or Smalltalk does one of these to the calls.
LEMMA CallStepOfStep ==
  ASSUME IInv, NEW t \in Threads, Step(t)
  PROVE  CallStep
<1>. USE DEF At, Goto, library, table, locals, history, fault
<1>1. CASE InitCas(t)
  <2>1. pc[t] \in InitPCs /\ (call[t] # 0 => AfterInit(t) = "new")
    BY <1>1 DEF InitCas, InitPCs, AfterInit
  <2>2. Unnoticed
    BY <1>1, <2>1 DEF IInv, TypeOK, InitCas, Unnoticed, OpenPCs, InitPCs, CallPCs
  <2>. QED
    BY <2>2 DEF CallStep
<1>2. CASE InitInfo(t)
  <2>1. Unnoticed
    BY <1>2 DEF IInv, TypeOK, InitInfo, Unnoticed, OpenPCs, InitPCs, CallPCs
  <2>. QED
    BY <2>1 DEF CallStep
<1>3. CASE InitLock(t)
  <2>1. call[t] # 0 => AfterInit(t) = "new"
    BY DEF AfterInit
  <2>2. Unnoticed
    BY <1>3, <2>1 DEF IInv, TypeOK, InitLock, Unnoticed, OpenPCs, InitPCs, CallPCs
  <2>. QED
    BY <2>2 DEF CallStep
<1>4. CASE ShutdownInfo(t) \/ Refuse(t) \/ SetLock(t) \/ SetReceiver(t) \/ SetSelector(t)
           \/ SetUnlock(t)
  <2>1. call[t] = 0
    BY <1>4 DEF IInv, Progress, ShutdownInfo, Refuse, SetLock, SetReceiver, SetSelector,
       SetUnlock, WritePCs
  <2>2. /\ UNCHANGED <<call, fate, result, after, queue>>
        /\ \A u \in Threads : u # t => pc'[u] = pc[u]
    BY <1>4 DEF IInv, TypeOK, ShutdownInfo, Refuse, SetLock, SetReceiver, SetSelector,
       SetUnlock
  <2>. QED
    BY <2>1, <2>2 DEF CallStep, Unnoticed
<1>5. CASE GetLock(t) \/ GetReceiver(t) \/ GetSelector(t) \/ GetUnlock(t)
  <2>1. /\ UNCHANGED <<call, fate, result, after, queue>>
        /\ \A u \in Threads : u # t => pc'[u] = pc[u]
        /\ pc[t] \in OpenPCs /\ pc'[t] \in OpenPCs
    BY <1>5 DEF IInv, TypeOK, GetLock, GetReceiver, GetSelector, GetUnlock, OpenPCs, CallPCs,
       ReadPCs
  <2>. QED
    BY <2>1 DEF CallStep, Unnoticed
<1>6. CASE NewInit(t)
  <2>1. call[t] \in Calls /\ pc[t] \in OpenPCs /\ pc[t] = "new"
    BY <1>6 DEF IInv, TypeOK, Progress, NewInit, OpenPCs, CallPCs
  <2>2. CASE Goto(t, "send") /\ UNCHANGED <<call, result, fate>>
    <3>1. Unnoticed
      BY <1>6, <2>1, <2>2 DEF IInv, TypeOK, NewInit, Unnoticed, OpenPCs, CallPCs
    <3>. QED
      BY <3>1 DEF CallStep
  <2>3. CASE fate' = [fate EXCEPT ![call[t]] = "dropped"] /\ Answer(t, "0")
    <3>1. Closes(t, "dropped", "0") /\ UNCHANGED queue
      BY <1>6, <2>1, <2>3 DEF NewInit, Answer, Closes
    <3>. QED
      BY <3>1 DEF CallStep
  <2>. QED
    BY <1>6, <2>2, <2>3 DEF NewInit
<1>7. CASE Send(t)
  <2>1. call[t] \in Calls /\ pc[t] \in OpenPCs /\ pc[t] = "send"
    BY <1>7 DEF IInv, TypeOK, Progress, Send, OpenPCs, CallPCs
  <2>2. CASE Goto(t, "get_lock") /\ UNCHANGED <<call, target, msg, result, fate>>
    <3>1. Unnoticed
      BY <1>7, <2>1, <2>2 DEF IInv, TypeOK, Send, Unnoticed, OpenPCs, CallPCs
    <3>. QED
      BY <3>1 DEF CallStep
  <2>3. CASE \E a \in {"0", "1"} : fate' = [fate EXCEPT ![call[t]] = "dropped"] /\ Sent(t, a)
    <3>1. PICK a \in {"0", "1"} : fate' = [fate EXCEPT ![call[t]] = "dropped"] /\ Sent(t, a)
      BY <2>3
    <3>2. after' = after /\ queue' = queue
      BY <1>7 DEF Send
    <3>3. Closes(t, "dropped", a)
      BY <2>1, <3>1, <3>2, SentCloses
    <3>. QED
      BY <3>2, <3>3 DEF CallStep
  <2>. QED
    BY <1>7, <2>2, <2>3 DEF Send
<1>8. CASE Post(t)
  <2>1. call[t] \in Calls /\ type[call[t]] \in Types /\ pc[t] \in OpenPCs
    BY <1>8 DEF IInv, TypeOK, Progress, Post, OpenPCs, CallPCs
  <2>2. after' = after /\ Sent(t, "1")
    BY <1>8 DEF Post
  <2>3. CASE fate' = [fate EXCEPT ![call[t]] = "lost"] /\ UNCHANGED queue
    <3>1. Closes(t, "lost", "1")
      BY <2>1, <2>2, <2>3, SentCloses
    <3>. QED
      BY <2>3, <3>1 DEF CallStep
  <2>4. CASE /\ fate' = [fate EXCEPT ![call[t]] = "posted"]
             /\ \E args \in Arguments(t) : queue' = Append(queue, Message(t, args))
    <3>1. Closes(t, "posted", "1")
      BY <2>1, <2>2, <2>4, SentCloses
    <3>2. PICK args \in Arguments(t) : queue' = Append(queue, Message(t, args))
      BY <2>4
    <3>3. Posts(t)
      BY <2>1, <3>2, PostedMessage DEF IInv, Posts
    <3>. QED
      BY <3>1, <3>3 DEF CallStep
  <2>. QED
    BY <1>8, <2>3, <2>4 DEF Post
<1>9. CASE FreeMessage(t)
  <2>1. Frees(t)
    BY <1>9 DEF FreeMessage, Frees
  <2>. QED
    BY <2>1 DEF CallStep
<1>. QED
  BY <1>1, <1>2, <1>3, <1>4, <1>5, <1>6, <1>7, <1>8, <1>9 DEF Step

\* Every step does one of these to the calls.
LEMMA CallStepOfNext ==
  ASSUME IInv, [Next]_vars
  PROVE  CallStep
<1>. USE DEF Goto, MayEnter, library, table, locals, history, fault
<1>1. ASSUME NEW t \in Threads, NEW c \in Calls, NEW k,
             NEW at \in {"new", "init_cas"}, Begin(t, c, k, at)
      PROVE  CallStep
  <2>1. Begins(t, c)
    BY <1>1 DEF IInv, Progress, Begin, Begins
  <2>. QED
    BY <2>1 DEF CallStep
<1>2. ASSUME NEW v \in VMThreads, NEW k, NEW pair, Register(v, k, pair)
      PROVE  Unnoticed
  BY <1>2 DEF IInv, TypeOK, Progress, Register, Unnoticed, Threads
<1>3. ASSUME NEW v \in VMThreads, Shutdown(v)
      PROVE  Unnoticed
  BY <1>3 DEF IInv, TypeOK, Progress, Shutdown, Unnoticed, Threads
<1>4. CASE UNCHANGED vars
  BY <1>4 DEF vars, CallStep, Unnoticed
<1>5. CASE \E t \in Threads : Step(t)
  BY <1>5, CallStepOfStep
<1>6. CASE \E p \in PahoThreads, c \in Calls, k \in Types : Callback(p, c, k)
  BY <1>1, <1>6 DEF Callback, Threads
<1>7. CASE \E v \in VMThreads, c \in Calls : Checkpoint(v, c)
  BY <1>1, <1>7 DEF Checkpoint, Threads
<1>8. CASE \E v \in VMThreads : Evaluate(v)
  BY <1>8 DEF Evaluate, CallStep, Takes
<1>. QED
  BY <1>2, <1>3, <1>4, <1>5, <1>6, <1>7, <1>8 DEF Next, BadCall, CallStep

-----------------------------------------------------------------------------
(* The invariant of the calls                                              *)

\* A call has one caller, at a place that tells whether it is still open.
LEMMA OneCallerNext ==
  ASSUME IInv, DInv, CallStep
  PROVE  OneCaller'
<1>0. "free" \notin OpenPCs /\ \A u \in Threads : call[u] \in Calls \cup {0}
  BY DEF IInv, TypeOK, OpenPCs, InitPCs
<1>1. CASE Unnoticed
  BY <1>0, <1>1 DEF DInv, OneCaller, Unnoticed
<1>2. ASSUME NEW t \in Threads, NEW c \in Calls, Begins(t, c)
      PROVE  OneCaller'
  <2>1. /\ \A u \in Threads : call[u] # c /\ (u # t => call'[u] = call[u] /\ pc'[u] = pc[u])
        /\ call'[t] = c /\ c # 0 /\ pc'[t] \in OpenPCs /\ fate'[c] = "open"
        /\ \A d \in Calls : d # c => fate'[d] = fate[d]
    BY <1>2 DEF IInv, TypeOK, Progress, Begins, Calls, OpenPCs, InitPCs, CallPCs
  <2>2. \A u, w \in Threads : call'[u] = call'[w] /\ call'[u] # 0 => u = w
    BY <2>1 DEF DInv, OneCaller
  <2>. QED
    BY <1>0, <2>1, <2>2 DEF DInv, OneCaller
<1>3. ASSUME NEW t \in Threads, NEW f \in {"dropped", "lost", "posted"}, NEW a \in {"0", "1"},
             Closes(t, f, a)
      PROVE  OneCaller'
  <2>1. /\ call[t] \in Calls /\ fate'[call[t]] # "open"
        /\ \A d \in Calls : d # call[t] => fate'[d] = fate[d]
    BY <1>3 DEF IInv, TypeOK, Closes
  <2>2. /\ \A u \in Threads : u # t => call'[u] = call[u] /\ pc'[u] = pc[u]
        /\ call'[t] = 0 \/ (call'[t] = call[t] /\ pc'[t] = "free")
    <3>1. CASE pc' = [pc EXCEPT ![t] = "out"] /\ call' = [call EXCEPT ![t] = 0]
      BY <3>1 DEF IInv, TypeOK
    <3>2. CASE pc' = [pc EXCEPT ![t] = "free"] /\ call' = call
      BY <3>2 DEF IInv, TypeOK
    <3>. QED
      BY <1>3, <3>1, <3>2 DEF Closes
  <2>3. \A u, w \in Threads : call'[u] = call'[w] /\ call'[u] # 0 => u = w
    BY <2>2 DEF DInv, OneCaller
  <2>4. \A u \in Threads : u # t => call[u] # call[t]
    BY <2>1 DEF DInv, OneCaller, Calls
  <2>. QED
    BY <1>0, <2>1, <2>2, <2>3, <2>4 DEF DInv, OneCaller
<1>4. ASSUME NEW t \in Threads, Frees(t)
      PROVE  OneCaller'
  BY <1>4 DEF IInv, TypeOK, DInv, OneCaller, Frees
<1>5. CASE Takes
  <2>1. /\ Head(queue) = queue[1] /\ 1 \in 1..Len(queue)
        /\ queue[1].call \in Calls /\ fate[queue[1].call] = "posted"
    <3>1. Head(queue) = queue[1] /\ 1 \in 1..Len(queue)
      BY <1>5 DEF IInv, TypeOK, Takes
    <3>. QED
      BY <3>1, QueuedCall DEF IInv, DInv, QueueOrder
  <2>. QED
    BY <1>5, <2>1 DEF IInv, TypeOK, DInv, OneCaller, Takes
<1>. QED
  BY <1>1, <1>2, <1>3, <1>4, <1>5 DEF CallStep

\* A call is answered when it is closed, and began after answered calls.
LEMMA FatesNext ==
  ASSUME IInv, DInv, CallStep
  PROVE  Fates'
<1>1. CASE Unnoticed
  BY <1>1 DEF DInv, Fates, Unnoticed
<1>2. ASSUME NEW t \in Threads, NEW c \in Calls, Begins(t, c)
      PROVE  Fates'
  <2>1. \A d \in Returned : d \in Calls /\ result[d] # "none" /\ d # c
    BY <1>2 DEF DInv, Fates, Returned, Begins
  <2>. QED
    BY <1>2, <2>1 DEF IInv, TypeOK, DInv, Fates, Begins
<1>3. ASSUME NEW t \in Threads, NEW f \in {"dropped", "lost", "posted"}, NEW a \in {"0", "1"},
             Closes(t, f, a)
      PROVE  Fates'
  BY <1>3 DEF IInv, TypeOK, DInv, Fates, Closes
<1>4. ASSUME NEW t \in Threads, Frees(t)
      PROVE  Fates'
  BY <1>4 DEF DInv, Fates, Frees
<1>5. CASE Takes
  <2>1. /\ Head(queue) = queue[1] /\ 1 \in 1..Len(queue)
        /\ queue[1].call \in Calls /\ fate[queue[1].call] = "posted"
    <3>1. Head(queue) = queue[1] /\ 1 \in 1..Len(queue)
      BY <1>5 DEF IInv, TypeOK, Takes
    <3>. QED
      BY <3>1, QueuedCall DEF IInv, DInv, QueueOrder
  <2>. QED
    BY <1>5, <2>1 DEF IInv, TypeOK, DInv, Fates, Takes
<1>. QED
  BY <1>1, <1>2, <1>3, <1>4, <1>5 DEF CallStep

\* The call that a step closes was open, unanswered and not in the queue.
LEMMA ClosedWasOpen ==
  ASSUME IInv, DInv, NEW t \in Threads, NEW f, NEW a, Closes(t, f, a)
  PROVE  /\ fate[call[t]] = "open" /\ result[call[t]] = "none"
         /\ \A i \in 1..Len(queue) : queue[i].call # call[t]
         /\ \A c \in Calls : call[t] \notin after[c]
<1>1. call[t] \in Calls /\ call[t] # 0 /\ pc[t] \in OpenPCs /\ "free" \notin OpenPCs
  BY DEF Closes, Calls, OpenPCs, InitPCs
<1>2. fate[call[t]] = "open"
  BY <1>1 DEF DInv, OneCaller
<1>. QED
  BY <1>1, <1>2 DEF IInv, TypeOK, DInv, Fates, QueueOrder

\* The queue holds once what is posted, in an order that real time allows.
LEMMA QueueOrderNext ==
  ASSUME IInv, DInv, CallStep
  PROVE  QueueOrder'
<1>1. CASE Unnoticed
  BY <1>1 DEF DInv, QueueOrder, Unnoticed
<1>2. ASSUME NEW t \in Threads, NEW c \in Calls, Begins(t, c)
      PROVE  QueueOrder'
  <2>1. \A i \in 1..Len(queue) : queue[i].call \in Calls /\ queue[i].call # c
    BY <1>2, QueuedCall DEF IInv, DInv, QueueOrder, Begins
  <2>2. queue' = queue /\ \A d \in Calls : d # c => fate'[d] = fate[d] /\ after'[d] = after[d]
    BY <1>2 DEF IInv, TypeOK, Begins
  <2>3. fate'[c] = "open"
    BY <1>2 DEF IInv, TypeOK, Begins
  <2>. QED
    BY <2>1, <2>2, <2>3 DEF DInv, QueueOrder
<1>3. ASSUME NEW t \in Threads, NEW f \in {"dropped", "lost"}, NEW a \in {"0", "1"},
             Closes(t, f, a), UNCHANGED queue
      PROVE  QueueOrder'
  <2>1. \A i \in 1..Len(queue) : queue[i].call \in Calls /\ queue[i].call # call[t]
    BY <1>3, QueuedCall, ClosedWasOpen DEF IInv
  <2>2. /\ after' = after /\ fate'[call[t]] = f /\ call[t] \in Calls
        /\ \A d \in Calls : d # call[t] => fate'[d] = fate[d]
    BY <1>3 DEF IInv, TypeOK, Closes
  <2>. QED
    BY <1>3, <2>1, <2>2 DEF DInv, QueueOrder
<1>4. ASSUME NEW t \in Threads, NEW a \in {"0", "1"}, Closes(t, "posted", a), Posts(t)
      PROVE  QueueOrder'
  <2>1. PICK m \in Messages : m.call = call[t] /\ queue' = Append(queue, m)
    BY <1>4 DEF Posts
  <2>2. /\ Len(queue') = Len(queue) + 1 /\ Len(queue) \in Nat
        /\ \A i \in 1..Len(queue) : queue'[i] = queue[i]
        /\ queue'[Len(queue) + 1] = m
    BY <2>1 DEF IInv, TypeOK
  <2>3. /\ \A i \in 1..Len(queue) : queue[i].call \in Calls /\ queue[i].call # call[t]
        /\ \A c \in Calls : call[t] \notin after[c]
        /\ after' = after /\ fate'[call[t]] = "posted" /\ call[t] \in Calls
        /\ \A d \in Calls : d # call[t] => fate'[d] = fate[d]
    <3>1. /\ \A i \in 1..Len(queue) : queue[i].call \in Calls /\ queue[i].call # call[t]
          /\ \A c \in Calls : call[t] \notin after[c]
      BY <1>4, QueuedCall, ClosedWasOpen DEF IInv
    <3>. QED
      BY <1>4, <3>1 DEF IInv, TypeOK, Closes
  <2>4. ASSUME NEW c \in Calls, fate'[c] = "posted"
        PROVE  \E i \in 1..Len(queue') : queue'[i].call = c
    <3>1. CASE c = call[t]
      BY <2>1, <2>2, <3>1
    <3>2. CASE c # call[t]
      <4>1. PICK i \in 1..Len(queue) : queue[i].call = c
        BY <2>3, <2>4, <3>2 DEF DInv, QueueOrder
      <4>2. i \in 1..Len(queue') /\ queue'[i].call = c
        BY <2>2, <4>1
      <4>. QED
        BY <4>2
    <3>. QED
      BY <3>1, <3>2
  <2>5. ASSUME NEW i \in 1..Len(queue')
        PROVE  fate'[queue'[i].call] = "posted"
    <3>1. i \in 1..Len(queue) \/ i = Len(queue) + 1
      BY <2>2
    <3>. QED
      BY <2>1, <2>2, <2>3, <3>1 DEF DInv, QueueOrder
  <2>6. ASSUME NEW i \in 1..Len(queue'), NEW j \in 1..Len(queue')
        PROVE  /\ queue'[i].call = queue'[j].call => i = j
               /\ i < j => queue'[j].call \notin after[queue'[i].call]
    <3>1. i \in 1..Len(queue) \/ i = Len(queue) + 1
      BY <2>2
    <3>2. j \in 1..Len(queue) \/ j = Len(queue) + 1
      BY <2>2
    <3>3. CASE i \in 1..Len(queue) /\ j \in 1..Len(queue)
      BY <2>2, <3>3 DEF DInv, QueueOrder
    <3>4. CASE i \in 1..Len(queue) /\ j = Len(queue) + 1
      BY <2>1, <2>2, <2>3, <3>4
    <3>5. CASE i = Len(queue) + 1
      BY <2>1, <2>2, <2>3, <3>2, <3>5
    <3>. QED
      BY <3>1, <3>2, <3>3, <3>4, <3>5
  <2>. QED
    BY <2>3, <2>4, <2>5, <2>6 DEF QueueOrder
<1>5. ASSUME NEW t \in Threads, Frees(t)
      PROVE  QueueOrder'
  BY <1>5 DEF DInv, QueueOrder, Frees
<1>6. CASE Takes
  <2>1. /\ Head(queue) = queue[1] /\ 1 \in 1..Len(queue) /\ Len(queue) \in Nat
        /\ Len(queue') = Len(queue) - 1
        /\ \A i \in 1..Len(queue') : i + 1 \in 1..Len(queue) /\ queue'[i] = queue[i + 1]
        /\ \A i \in 2..Len(queue) : i - 1 \in 1..Len(queue') /\ queue'[i - 1] = queue[i]
    BY <1>6 DEF IInv, TypeOK, Takes
  <2>2. queue[1].call \in Calls /\ \A i \in 1..Len(queue) : queue[i].call \in Calls
    BY <2>1, QueuedCall DEF IInv
  <2>3. /\ after' = after /\ fate'[queue[1].call] = "evaluated"
        /\ \A d \in Calls : d # queue[1].call => fate'[d] = fate[d]
    BY <1>6, <2>1, <2>2 DEF IInv, TypeOK, Takes
  <2>4. ASSUME NEW c \in Calls, fate'[c] = "posted"
        PROVE  \E i \in 1..Len(queue') : queue'[i].call = c
    <3>1. c # queue[1].call /\ fate[c] = "posted"
      BY <2>3, <2>4
    <3>2. PICK i \in 1..Len(queue) : queue[i].call = c
      BY <3>1 DEF DInv, QueueOrder
    <3>3. i - 1 \in 1..Len(queue') /\ queue'[i - 1].call = c
      BY <2>1, <3>1, <3>2
    <3>. QED
      BY <3>3
  <2>5. ASSUME NEW i \in 1..Len(queue')
        PROVE  fate'[queue'[i].call] = "posted"
    <3>1. i + 1 \in 1..Len(queue) /\ queue'[i] = queue[i + 1] /\ i + 1 # 1
      BY <2>1
    <3>2. queue[i + 1].call # queue[1].call
      BY <2>1, <3>1 DEF DInv, QueueOrder
    <3>. QED
      BY <2>2, <2>3, <3>1, <3>2 DEF DInv, QueueOrder
  <2>6. ASSUME NEW i \in 1..Len(queue'), NEW j \in 1..Len(queue')
        PROVE  /\ queue'[i].call = queue'[j].call => i = j
               /\ i < j => queue'[j].call \notin after[queue'[i].call]
    <3>1. /\ i + 1 \in 1..Len(queue) /\ queue'[i] = queue[i + 1]
          /\ j + 1 \in 1..Len(queue) /\ queue'[j] = queue[j + 1]
      BY <2>1
    <3>2. /\ queue[i + 1].call = queue[j + 1].call => i + 1 = j + 1
          /\ i + 1 < j + 1 => queue[j + 1].call \notin after[queue[i + 1].call]
      BY <3>1 DEF DInv, QueueOrder
    <3>. QED
      BY <3>1, <3>2
  <2>. QED
    BY <2>3, <2>4, <2>5, <2>6 DEF QueueOrder
<1>. QED
  BY <1>1, <1>2, <1>3, <1>4, <1>5, <1>6 DEF CallStep

\* A registration that runs is one that Smalltalk asked for.
LEMMA RequestedNext ==
  ASSUME IInv, Requested, [Next]_vars
  PROVE  Requested'
<1>. USE DEF library, table, locals, history, fault
<1>1. NoRequest[1] \notin Types /\ "invalid" \notin Types
  BY TypesAssumption DEF NoRequest, CallbackTypes
<1>2. ASSUME NEW t \in Threads, Step(t), ~Refuse(t), ~SetUnlock(t)
      PROVE  UNCHANGED request
  BY <1>2 DEF Step, InitCas, InitInfo, InitLock, ShutdownInfo, SetLock, SetReceiver,
     SetSelector, NewInit, Send, GetLock, GetReceiver, GetSelector, GetUnlock, Post, FreeMessage
<1>3. ASSUME NEW t \in Threads, Refuse(t) \/ SetUnlock(t)
      PROVE  request' = [request EXCEPT ![t] = NoRequest]
  BY <1>3 DEF Refuse, SetUnlock
<1>4. ASSUME NEW v \in VMThreads, NEW k, NEW pair, Register(v, k, pair),
             k \in Types => pair \in Targets
      PROVE  Requested'
  <2>1. request' = [request EXCEPT ![v] = <<k, pair>>]
    BY <1>4 DEF Register
  <2>. QED
    BY <1>4, <2>1 DEF IInv, TypeOK, Requested
<1>5. CASE UNCHANGED request
  BY <1>5 DEF Requested
<1>6. ASSUME NEW t \in Threads, request' = [request EXCEPT ![t] = NoRequest]
      PROVE  Requested'
  BY <1>1, <1>6 DEF IInv, TypeOK, Requested
<1>7. CASE \E t \in Threads : Step(t)
  BY <1>2, <1>3, <1>5, <1>6, <1>7
<1>8. CASE \E p \in PahoThreads, c \in Calls, k \in Types : Callback(p, c, k)
  BY <1>5, <1>8 DEF Callback, Begin
<1>9. CASE \E v \in VMThreads, c \in Calls : Checkpoint(v, c)
  BY <1>5, <1>9 DEF Checkpoint, Begin
<1>10. CASE \E v \in VMThreads : Shutdown(v) \/ Evaluate(v)
  BY <1>5, <1>10 DEF Shutdown, Evaluate
<1>11. CASE UNCHANGED vars
  BY <1>5, <1>11 DEF vars
<1>. QED
  BY <1>1, <1>4, <1>7, <1>8, <1>9, <1>10, <1>11 DEF Next, BadCall

\* The invariant of the calls holds in every state.
LEMMA CallInvariant ==
  ASSUME NEW vm, VMThreads = {vm}
  PROVE  Spec => []DInv
<1>1. Init => DInv
  <2>1. NoRequest[1] \notin Types
    BY TypesAssumption DEF NoRequest, CallbackTypes
  <2>. QED
    BY <2>1 DEF Init, DInv, OneCaller, Requested, Fates, QueueOrder
<1>2. IInv /\ DInv /\ [Next]_vars => DInv'
  BY CallStepOfNext, OneCallerNext, FatesNext, QueueOrderNext, RequestedNext DEF DInv
<1>. QED
  BY Invariant, <1>1, <1>2, PTL DEF Spec

-----------------------------------------------------------------------------
\* No step evaluates a message before one of a call that had returned when its
\* own call began, and none posts a message of such a call later.
LEMMA InRealTime ==
  ASSUME IInv, DInv, RealTimeOrder, CallStep
  PROVE  RealTimeOrder'
<1>1. CASE Unnoticed
  BY <1>1 DEF RealTimeOrder, Unnoticed
<1>2. ASSUME NEW t \in Threads, NEW c \in Calls, Begins(t, c)
      PROVE  RealTimeOrder'
  BY <1>2 DEF IInv, TypeOK, RealTimeOrder, Begins
<1>3. ASSUME NEW t \in Threads, NEW f \in {"dropped", "lost", "posted"}, NEW a \in {"0", "1"},
             Closes(t, f, a)
      PROVE  RealTimeOrder'
  <2>1. \A c \in Calls : call[t] \notin after[c]
    BY <1>3, ClosedWasOpen
  <2>2. /\ after' = after /\ fate'[call[t]] # "evaluated" /\ call[t] \in Calls
        /\ \A d \in Calls : d # call[t] => fate'[d] = fate[d]
    BY <1>3 DEF IInv, TypeOK, Closes
  <2>3. \A c \in Calls : after[c] \subseteq Calls
    BY DEF IInv, TypeOK
  <2>. QED
    BY <2>1, <2>2, <2>3 DEF RealTimeOrder
<1>4. ASSUME NEW t \in Threads, Frees(t)
      PROVE  RealTimeOrder'
  BY <1>4 DEF RealTimeOrder, Frees
<1>5. CASE Takes
  <2>1. Head(queue) = queue[1] /\ 1 \in 1..Len(queue) /\ Len(queue) \in Nat
    BY <1>5 DEF IInv, TypeOK, Takes
  <2>2. queue[1].call \in Calls
    BY <2>1, QueuedCall DEF IInv
  <2>3. \A d \in after[queue[1].call] : d \in Calls /\ d # queue[1].call
    BY <2>2 DEF IInv, TypeOK, DInv, Fates
  <2>4. ASSUME NEW d \in after[queue[1].call], fate[d] = "posted"
        PROVE  FALSE
    <3>1. PICK j \in 1..Len(queue) : queue[j].call = d
      BY <2>3, <2>4 DEF DInv, QueueOrder
    <3>2. 1 < j
      BY <2>1, <2>3, <3>1
    <3>. QED
      BY <2>1, <3>1, <3>2 DEF DInv, QueueOrder
  <2>. QED
    BY <1>5, <2>1, <2>2, <2>3, <2>4 DEF IInv, TypeOK, RealTimeOrder, Takes
<1>. QED
  BY <1>1, <1>2, <1>3, <1>4, <1>5 DEF CallStep

\* The queue keeps real time for any number of threads and calls: a checkpoint
\* that is evaluated has flushed every message posted before it was asked for.
THEOREM KeepsRealTime ==
  ASSUME NEW vm, VMThreads = {vm}
  PROVE  Spec => []RealTimeOrder
<1>1. Init => RealTimeOrder
  BY DEF Init, RealTimeOrder
<1>2. IInv /\ DInv /\ RealTimeOrder /\ [Next]_vars => RealTimeOrder'
  BY CallStepOfNext, InRealTime
<1>. QED
  BY Invariant, CallInvariant, <1>1, <1>2, PTL DEF Spec

\* Smalltalk sees no message twice: what a callback refused was not posted, and
\* what was posted is in the queue once and never after it was evaluated.
THEOREM SeenOnce ==
  ASSUME NEW vm, VMThreads = {vm}
  PROVE  Spec => []NeverTwice
<1>1. DInv => NeverTwice
  BY DEF DInv, Fates, QueueOrder, NeverTwice
<1>. QED
  BY CallInvariant, <1>1, PTL
-----------------------------------------------------------------------------
(* The threads implement the channel                                       *)

StoringPCs == {"set_selector", "set_unlock"}
FoundPCs   == {"get_unlock", "post"}

\* The entries of the table look the same unless a registration stores.
LEMMA EntriesKept ==
  ASSUME TypeOK, UNCHANGED <<receiver, selector>>,
         \A t \in Threads : pc[t] \in StoringPCs <=> pc'[t] \in StoringPCs,
         \A t \in Threads : pc[t] \in StoringPCs => request'[t] = request[t],
         \A t \in Threads : pc[t] \in StoringPCs => (writer = t <=> writer' = t),
         writer' \in Threads \cup {NoThread}
  PROVE  \A k \in Types : EntryOf(k)' = EntryOf(k)
BY ThreadsAssumption DEF TypeOK, EntryOf, StoringPCs

\* The message a thread is sending changes with its call only.
LEMMA SendingKept ==
  ASSUME NEW t \in Threads, call'[t] = call[t], pc'[t] = "free" <=> pc[t] = "free",
         call[t] # 0 => type'[call[t]] = type[call[t]]
  PROVE  SendingOf(t)' = SendingOf(t)
BY DEF SendingOf

\* A target is found with the second load.
LEMMA FoundKept ==
  ASSUME NEW t \in Threads, pc'[t] \in FoundPCs <=> pc[t] \in FoundPCs,
         pc[t] \in FoundPCs => target'[t] = target[t]
  PROVE  FoundOf(t)' = FoundOf(t)
BY DEF FoundOf, FoundPCs

\* A step that moves one thread on and touches neither the table nor the calls
\* nor the queue.
Moves(t) ==
  /\ UNCHANGED <<receiver, selector, armed, call, type, fate, queue>>
  /\ \A u \in Threads : u # t =>
       pc'[u] = pc[u] /\ request'[u] = request[u] /\ target'[u] = target[u]
  /\ \A u \in Threads : u # t => (writer = u <=> writer' = u)
  /\ writer' \in Threads \cup {NoThread}
  /\ pc[t] = "free" <=> pc'[t] = "free"
  /\ pc[t] \in FoundPCs => target'[t] = target[t]
  /\ pc[t] \in FoundPCs <=> pc'[t] \in FoundPCs

\* Such a step is not visible to the channel, if the thread stores nothing.
LEMMA Stutter ==
  ASSUME IInv, NEW t \in Threads, Moves(t),
         pc[t] \notin StoringPCs, pc'[t] \notin StoringPCs
  PROVE  UNCHANGED Channel!vars
<1>1. \A k \in Types : EntryOf(k)' = EntryOf(k)
  <2>1. \A u \in Threads : pc[u] \in StoringPCs <=> pc'[u] \in StoringPCs
    BY DEF Moves
  <2>2. \A u \in Threads : pc[u] \in StoringPCs =>
          request'[u] = request[u] /\ (writer = u <=> writer' = u)
    BY DEF Moves
  <2>. QED
    BY <2>1, <2>2, EntriesKept DEF IInv, Moves
<1>2. \A u \in Threads : SendingOf(u)' = SendingOf(u) /\ FoundOf(u)' = FoundOf(u)
  <2>1. \A u \in Threads : SendingOf(u)' = SendingOf(u)
    BY SendingKept DEF Moves
  <2>2. \A u \in Threads : FoundOf(u)' = FoundOf(u)
    BY FoundKept DEF Moves
  <2>. QED
    BY <2>1, <2>2
<1>. QED
  BY <1>1, <1>2 DEF Channel!vars, Moves

\* What the channel sees of the state.
Entry   == [k \in Types |-> EntryOf(k)]
Used    == {c \in Calls : fate[c] # "new"}
Sending == [t \in Threads |-> SendingOf(t)]
Found   == [t \in Threads |-> FoundOf(t)]
Pending == [i \in 1..Len(queue) |->
              [call |-> queue[i].call, target |-> queue[i].target]]

\* The steps that only move a thread on are not visible.
LEMMA MovingStep ==
  ASSUME IInv, NEW t \in Threads,
         \/ InitCas(t) \/ InitInfo(t) \/ InitLock(t) \/ ShutdownInfo(t) \/ Refuse(t)
         \/ SetLock(t) \/ GetLock(t) \/ GetReceiver(t) \/ GetUnlock(t)
  PROVE  UNCHANGED Channel!vars
<1>. USE DEF At, Goto, library, table, locals, history, fault
<1>1. CASE InitCas(t) \/ InitInfo(t) \/ InitLock(t) \/ ShutdownInfo(t) \/ Refuse(t)
  <2>1. pc'[t] \notin {"free"} \cup FoundPCs \cup StoringPCs
    BY <1>1 DEF IInv, TypeOK, InitCas, InitInfo, InitLock, ShutdownInfo, Refuse, AfterInit,
       FoundPCs, StoringPCs
  <2>2. pc[t] \notin {"free"} \cup FoundPCs \cup StoringPCs
    BY <1>1 DEF InitCas, InitInfo, InitLock, ShutdownInfo, Refuse, FoundPCs, StoringPCs
  <2>3. Moves(t)
    BY <1>1, <2>1, <2>2 DEF IInv, TypeOK, Moves, InitCas, InitInfo, InitLock, ShutdownInfo,
       Refuse
  <2>. QED
    BY <2>1, <2>2, <2>3, Stutter
<1>2. CASE SetLock(t)
  <2>1. Moves(t)
    BY <1>2, ThreadsAssumption DEF IInv, TypeOK, Progress, PastInit, Ready, Moves, SetLock,
       FoundPCs
  <2>2. pc[t] \notin StoringPCs /\ pc'[t] \notin StoringPCs
    BY <1>2 DEF IInv, TypeOK, SetLock, StoringPCs
  <2>. QED
    BY <2>1, <2>2, Stutter
<1>3. CASE GetLock(t) \/ GetReceiver(t) \/ GetUnlock(t)
  <2>1. Moves(t)
    BY <1>3 DEF IInv, TypeOK, Moves, GetLock, GetReceiver, GetUnlock, FoundPCs
  <2>2. pc[t] \notin StoringPCs /\ pc'[t] \notin StoringPCs
    BY <1>3 DEF IInv, TypeOK, GetLock, GetReceiver, GetUnlock, StoringPCs
  <2>. QED
    BY <2>1, <2>2, Stutter
<1>. QED
  BY <1>1, <1>2, <1>3

\* The first store is the registration, as no reader gets in before the second.
LEMMA SetReceiverStep ==
  ASSUME IInv, DInv, NEW t \in Threads, SetReceiver(t)
  PROVE  \E k \in Types, pair \in Targets : Channel!Register(k, pair)
<1>. USE DEF At, Goto, library, table, locals, history, fault
<1>1. writer = t /\ request[t][1] \in Types /\ request[t][2] \in Targets /\ pc[t] = "set_receiver"
  BY DEF IInv, Progress, Locking, DInv, Requested, SetReceiver, WritePCs
<1>2. PICK k \in Types, pair \in Targets : request[t] = <<k, pair>>
  BY <1>1 DEF IInv, TypeOK
<1>3. /\ writer' = t /\ selector' = selector /\ request' = request
      /\ pc'[t] = "set_selector"
      /\ \A j \in Types : j # k => receiver'[j] = receiver[j]
  BY <1>1, <1>2 DEF IInv, TypeOK, SetReceiver
<1>4. Entry' = [Entry EXCEPT ![k] = pair]
  <2>1. EntryOf(k)' = pair
    BY <1>1, <1>2, <1>3, ThreadsAssumption DEF EntryOf
  <2>2. \A j \in Types : j # k => EntryOf(j)' = EntryOf(j)
    BY <1>1, <1>2, <1>3 DEF EntryOf
  <2>. QED
    BY <2>1, <2>2 DEF Entry
<1>5. \A u \in Threads : SendingOf(u)' = SendingOf(u) /\ FoundOf(u)' = FoundOf(u)
  BY DEF IInv, TypeOK, SetReceiver, SendingOf, FoundOf
<1>6. UNCHANGED <<armed, Used, Sending, Found, Pending>>
  BY <1>5 DEF SetReceiver, Used, Sending, Found, Pending
<1>. QED
  BY <1>2, <1>4, <1>6 DEF Channel!Register, Entry, Used, Sending, Found, Pending

\* The second store is not visible.
LEMMA SetSelectorStep ==
  ASSUME IInv, NEW t \in Threads, SetSelector(t)
  PROVE  UNCHANGED Channel!vars
<1>. USE DEF At, Goto, library, table, locals, history, fault
<1>1. writer = t /\ request[t][1] \in Types /\ pc[t] = "set_selector"
  BY DEF IInv, Progress, Locking, SetSelector, WritePCs
<1>2. /\ writer' = t /\ receiver' = receiver /\ request' = request
      /\ pc'[t] = "set_unlock"
      /\ \A j \in Types : j # request[t][1] => selector'[j] = selector[j]
  BY <1>1 DEF IInv, TypeOK, SetSelector
<1>3. \A j \in Types : EntryOf(j)' = EntryOf(j)
  BY <1>1, <1>2, ThreadsAssumption DEF EntryOf
<1>4. \A u \in Threads : SendingOf(u)' = SendingOf(u) /\ FoundOf(u)' = FoundOf(u)
  BY DEF IInv, TypeOK, SetSelector, SendingOf, FoundOf
<1>. QED
  BY <1>3, <1>4 DEF Channel!vars, SetSelector

\* The callback is handed out when the lock is left, with its target in place.
LEMMA SetUnlockStep ==
  ASSUME IInv, DInv, NEW t \in Threads, SetUnlock(t)
  PROVE  \E k \in Types : Channel!Offer(k)
<1>. USE DEF At, Goto, library, table, locals, history, fault
<1>1. writer = t /\ request[t][1] \in Types /\ request[t][2] \in Targets /\ pc[t] = "set_unlock"
  BY DEF IInv, Progress, Locking, DInv, Requested, SetUnlock, WritePCs
<1>2. PICK k \in Types, pair \in Targets : request[t] = <<k, pair>>
  BY <1>1 DEF IInv, TypeOK
<1>3. pair = <<receiver[k], selector[k]>>
  <2>1. pair \in Objects \X Objects
    BY TargetsAssumption
  <2>. QED
    BY <1>1, <1>2, <2>1 DEF IInv, Locking
<1>4. /\ writer' = NoThread /\ receiver' = receiver /\ selector' = selector
      /\ armed' = armed \cup {k}
  BY <1>1, <1>2, ValidType DEF SetUnlock, getCallbackTarget
<1>5. EntryOf(k) = pair
  BY <1>1, <1>2, ThreadsAssumption DEF EntryOf
<1>6. \A j \in Types : EntryOf(j)' = EntryOf(j)
  BY <1>1, <1>2, <1>3, <1>4 DEF EntryOf
<1>7. \A u \in Threads : SendingOf(u)' = SendingOf(u) /\ FoundOf(u)' = FoundOf(u)
  BY DEF IInv, TypeOK, SetUnlock, SendingOf, FoundOf
<1>8. UNCHANGED <<Entry, Used, Sending, Found, Pending>>
  BY <1>6, <1>7 DEF SetUnlock, Entry, Used, Sending, Found, Pending
<1>9. Entry[k] \in Targets
  BY <1>2, <1>5 DEF Entry
<1>. QED
  BY <1>4, <1>8, <1>9 DEF Channel!Offer, Entry, Used, Sending, Found, Pending

\* A target is looked up with the second load: a reader keeps the writer out.
LEMMA GetSelectorStep ==
  ASSUME IInv, NEW t \in Threads, GetSelector(t)
  PROVE  Channel!Look(t)
<1>. USE DEF At, Goto, library, table, locals, history, fault
<1>1. /\ call[t] \in Calls /\ type[call[t]] \in Types /\ call[t] # 0
      /\ writer = NoThread /\ target[t][1] = receiver[type[call[t]]]
  BY DEF IInv, TypeOK, Progress, Locking, GetSelector, CallPCs, ReadPCs, Calls
<1>. DEFINE s == [call |-> call[t], kind |-> type[call[t]]]
<1>2. s \in Sending[t] /\ Found[t] = {}
  BY <1>1 DEF GetSelector, Sending, SendingOf, Found, FoundOf
<1>3. FoundOf(t)' = {Entry[s.kind]}
  <2>1. target'[t] = <<receiver[type[call[t]]], selector[type[call[t]]]>>
    BY <1>1 DEF IInv, TypeOK, GetSelector
  <2>2. pc'[t] = "get_unlock"
    BY DEF IInv, TypeOK, GetSelector
  <2>. QED
    BY <1>1, <2>1, <2>2 DEF FoundOf, Entry, EntryOf
<1>4. \A u \in Threads : u # t => FoundOf(u)' = FoundOf(u)
  BY DEF IInv, TypeOK, GetSelector, FoundOf
<1>5. Found' = [Found EXCEPT ![t] = {Entry[s.kind]}]
  BY <1>3, <1>4 DEF Found
<1>6. \A u \in Threads : SendingOf(u)' = SendingOf(u)
  BY DEF IInv, TypeOK, GetSelector, SendingOf
<1>7. \A k \in Types : EntryOf(k)' = EntryOf(k)
  BY <1>1 DEF GetSelector, EntryOf
<1>8. UNCHANGED <<Entry, armed, Used, Sending, Pending>>
  BY <1>6, <1>7 DEF GetSelector, Entry, Used, Sending, Pending
<1>. HIDE DEF s
<1>. QED
  BY <1>2, <1>5, <1>8 DEF Channel!Look, Entry, Used, Sending, Found, Pending

\* A call that closes is over for the channel.
LEMMA ClosedIsDone ==
  ASSUME IInv, DInv, NEW t \in Threads, NEW f, NEW a, Closes(t, f, a),
         UNCHANGED <<writer, receiver, selector, armed, request, type>>,
         \A u \in Threads : u # t => target'[u] = target[u]
  PROVE  Channel!Done(t) /\ UNCHANGED <<Entry, armed, Used>>
<1>1. /\ call[t] \in Calls /\ call[t] # 0 /\ pc[t] \in OpenPCs
      /\ pc[t] # "free" /\ pc[t] \notin StoringPCs
  BY DEF Closes, Calls, OpenPCs, InitPCs, CallPCs, ReadPCs, StoringPCs
<1>2. /\ \A u \in Threads : u # t => pc'[u] = pc[u] /\ call'[u] = call[u]
      /\ pc'[t] \in {"out", "free"} /\ (call'[t] = 0 \/ pc'[t] = "free")
  <2>1. CASE pc' = [pc EXCEPT ![t] = "out"] /\ call' = [call EXCEPT ![t] = 0]
    BY <2>1 DEF IInv, TypeOK
  <2>2. CASE pc' = [pc EXCEPT ![t] = "free"] /\ call' = call
    BY <2>2 DEF IInv, TypeOK
  <2>. QED
    BY <2>1, <2>2 DEF Closes
<1>3. \A u \in Threads : pc[u] \in StoringPCs <=> pc'[u] \in StoringPCs
  BY <1>1, <1>2 DEF StoringPCs
<1>4. Entry' = Entry
  <2>1. \A k \in Types : EntryOf(k)' = EntryOf(k)
    BY <1>3, EntriesKept DEF IInv, TypeOK
  <2>. QED
    BY <2>1 DEF Entry
<1>5. Sending[t] # {} /\ SendingOf(t)' = {} /\ FoundOf(t)' = {}
  BY <1>1, <1>2 DEF Sending, SendingOf, FoundOf
<1>6. \A u \in Threads : u # t => SendingOf(u)' = SendingOf(u) /\ FoundOf(u)' = FoundOf(u)
  BY <1>2, SendingKept, FoundKept
<1>7. Sending' = [Sending EXCEPT ![t] = {}] /\ Found' = [Found EXCEPT ![t] = {}]
  BY <1>5, <1>6 DEF Sending, Found
<1>8. Used' = Used
  <2>1. f # "new" /\ fate[call[t]] = "open" /\ fate' = [fate EXCEPT ![call[t]] = f]
    BY ClosedWasOpen DEF Closes
  <2>2. \A c \in Calls : fate'[c] # "new" <=> fate[c] # "new"
    BY <2>1 DEF IInv, TypeOK
  <2>. QED
    BY <2>2 DEF Used
<1>. QED
  BY <1>4, <1>5, <1>7, <1>8 DEF Channel!Done, Sending, Found

\* A message given up is dropped, whoever is at fault.
LEMMA Dropped ==
  ASSUME IInv, DInv, NEW t \in Threads, NEW f, NEW a, Closes(t, f, a),
         UNCHANGED <<writer, receiver, selector, armed, request, type, queue>>,
         \A u \in Threads : u # t => target'[u] = target[u]
  PROVE  Channel!Drop(t)
BY ClosedIsDone DEF Channel!Drop, Entry, Used

\* The allocation of the message fails, or goes on.
LEMMA NewInitStep ==
  ASSUME IInv, DInv, NEW t \in Threads, NewInit(t)
  PROVE  Channel!Drop(t) \/ UNCHANGED Channel!vars
<1>. USE DEF At, Goto, library, table, locals, history, fault
<1>1. call[t] \in Calls /\ pc[t] = "new"
  BY DEF IInv, TypeOK, Progress, NewInit, CallPCs
<1>2. CASE Goto(t, "send") /\ UNCHANGED <<call, result, fate>>
  <2>1. Moves(t)
    BY <1>1, <1>2 DEF IInv, TypeOK, NewInit, Moves, FoundPCs
  <2>2. pc[t] \notin StoringPCs /\ pc'[t] \notin StoringPCs
    BY <1>1, <1>2 DEF IInv, TypeOK, StoringPCs
  <2>. QED
    BY <2>1, <2>2, Stutter
<1>3. CASE fate' = [fate EXCEPT ![call[t]] = "dropped"] /\ Answer(t, "0")
  <2>1. Closes(t, "dropped", "0")
    BY <1>1, <1>3 DEF NewInit, Answer, Closes, OpenPCs, CallPCs
  <2>2. UNCHANGED <<writer, receiver, selector, armed, request, type, queue, target>>
    BY DEF NewInit
  <2>. QED
    BY <2>1, <2>2, Dropped
<1>. QED
  BY <1>2, <1>3 DEF NewInit

\* A task that cannot be made or has no message drops it, or goes on.
LEMMA SendStep ==
  ASSUME IInv, DInv, NEW t \in Threads, Send(t)
  PROVE  Channel!Drop(t) \/ UNCHANGED Channel!vars
<1>. USE DEF At, Goto, library, table, locals, history, fault
<1>1. call[t] \in Calls /\ pc[t] = "send" /\ pc[t] \in OpenPCs
  BY DEF IInv, TypeOK, Progress, Send, OpenPCs, CallPCs
<1>2. CASE Goto(t, "get_lock") /\ UNCHANGED <<call, target, msg, result, fate>>
  <2>1. Moves(t)
    BY <1>1, <1>2 DEF IInv, TypeOK, Send, Moves, FoundPCs
  <2>2. pc[t] \notin StoringPCs /\ pc'[t] \notin StoringPCs
    BY <1>1, <1>2 DEF IInv, TypeOK, StoringPCs
  <2>. QED
    BY <2>1, <2>2, Stutter
<1>3. CASE \E a \in {"0", "1"} : fate' = [fate EXCEPT ![call[t]] = "dropped"] /\ Sent(t, a)
  <2>1. PICK a \in {"0", "1"} : fate' = [fate EXCEPT ![call[t]] = "dropped"] /\ Sent(t, a)
    BY <1>3
  <2>2. after' = after
    BY DEF Send
  <2>3. Closes(t, "dropped", a)
    BY <1>1, <2>1, <2>2, SentCloses
  <2>4. /\ UNCHANGED <<writer, receiver, selector, armed, request, type, queue>>
        /\ \A u \in Threads : u # t => target'[u] = target[u]
    BY <2>1 DEF IInv, TypeOK, Send, Sent
  <2>. QED
    BY <2>3, <2>4, Dropped
<1>. QED
  BY <1>2, <1>3 DEF Send

\* The VM accepts the message, at the target that was looked up, or loses it.
LEMMA PostStep ==
  ASSUME IInv, DInv, NEW t \in Threads, Post(t)
  PROVE  Channel!Accept(t) \/ Channel!Drop(t)
<1>. USE DEF At, Goto, library, table, locals, history, fault
<1>1. /\ call[t] \in Calls /\ type[call[t]] \in Types /\ call[t] # 0
      /\ pc[t] = "post" /\ pc[t] \in OpenPCs
  BY DEF IInv, TypeOK, Progress, Post, OpenPCs, CallPCs, Calls
<1>2. after' = after /\ Sent(t, "1")
  BY DEF Post
<1>3. /\ UNCHANGED <<writer, receiver, selector, armed, request, type>>
      /\ \A u \in Threads : u # t => target'[u] = target[u]
  BY <1>2 DEF IInv, TypeOK, Post, Sent
<1>4. CASE fate' = [fate EXCEPT ![call[t]] = "lost"] /\ UNCHANGED queue
  <2>1. Closes(t, "lost", "1")
    BY <1>1, <1>2, <1>4, SentCloses
  <2>. QED
    BY <1>3, <1>4, <2>1, Dropped
<1>5. CASE /\ Len(queue) < QueueSize
           /\ fate' = [fate EXCEPT ![call[t]] = "posted"]
           /\ \E args \in Arguments(t) : queue' = Append(queue, Message(t, args))
  <2>1. Closes(t, "posted", "1")
    BY <1>1, <1>2, <1>5, SentCloses
  <2>2. Channel!Done(t) /\ UNCHANGED <<Entry, armed, Used>>
    BY <1>3, <2>1, ClosedIsDone
  <2>. PICK args \in Arguments(t) : queue' = Append(queue, Message(t, args))
    BY <1>5
  <2>. DEFINE s == [call |-> call[t], kind |-> type[call[t]]]
              m == Message(t, args)
              n == [call |-> s.call, target |-> target[t]]
  <2>3. s \in Sending[t] /\ target[t] \in Found[t]
    BY <1>1 DEF Sending, SendingOf, Found, FoundOf
  <2>4. [call |-> m.call, target |-> m.target] = n
    BY <1>1, PostedMessage DEF IInv
  <2>5. queue' = Append(queue, m)
    OBVIOUS
  <2>. HIDE DEF m
  <2>6. /\ Len(queue') = Len(queue) + 1 /\ Len(queue) \in Nat
        /\ \A i \in 1..Len(queue) : queue'[i] = queue[i]
        /\ queue'[Len(queue) + 1] = m
    BY <2>5 DEF IInv, TypeOK
  <2>. HIDE DEF s, n
  <2>7. Len(Pending) = Len(queue) /\ Pending \in Seq({Pending[i] : i \in 1..Len(queue)})
    BY <2>6 DEF Pending
  <2>8. Pending' = Append(Pending, n)
    <3>1. Len(Pending') = Len(queue) + 1
      BY <2>6 DEF Pending
    <3>2. \A i \in 1..Len(queue) : Pending'[i] = Pending[i]
      BY <2>6 DEF Pending
    <3>3. Pending'[Len(queue) + 1] = n
      BY <2>4, <2>6 DEF Pending
    <3>. QED
      BY <2>6, <2>7, <3>1, <3>2, <3>3 DEF Pending
  <2>9. Channel!Accept(t)
    BY <1>5, <2>2, <2>3, <2>7, <2>8 DEF Channel!Accept, Entry, Used, Sending, Found, Pending, n
  <2>. QED
    BY <2>9
<1>. QED
  BY <1>4, <1>5 DEF Post

\* The checkpoint frees a message that is over for the channel.
LEMMA FreeMessageStep ==
  ASSUME IInv, NEW t \in Threads, FreeMessage(t)
  PROVE  UNCHANGED Channel!vars
<1>. USE DEF At, Goto, library, table, locals, history, fault
<1>1. /\ pc[t] = "free" /\ pc'[t] = "out" /\ call'[t] = 0
      /\ \A u \in Threads : u # t => pc'[u] = pc[u] /\ call'[u] = call[u]
  BY DEF IInv, TypeOK, FreeMessage
<1>2. UNCHANGED <<writer, receiver, selector, armed, request, target, type, fate, queue>>
  BY DEF FreeMessage
<1>3. \A k \in Types : EntryOf(k)' = EntryOf(k)
  BY <1>1, <1>2, EntriesKept DEF IInv, TypeOK, StoringPCs
<1>4. \A u \in Threads : SendingOf(u)' = SendingOf(u) /\ FoundOf(u)' = FoundOf(u)
  BY <1>1, <1>2 DEF SendingOf, FoundOf
<1>. QED
  BY <1>2, <1>3, <1>4 DEF Channel!vars

\* A callback or a checkpoint begins a call of the channel.
LEMMA BeginStep ==
  ASSUME IInv, NEW t \in Threads, NEW c \in Calls, NEW k \in armed \cup {"checkpoint"},
         NEW at \in {"new", "init_cas"}, Begin(t, c, k, at)
  PROVE  Channel!Begin(t, c, k)
<1>. USE DEF MayEnter, Goto, library, table, locals, history, fault
<1>1. /\ pc[t] = "out" /\ call[t] = 0 /\ fate[c] = "new" /\ c # 0
      /\ \A u \in Threads : call[u] # c
  BY DEF IInv, Progress, Begin, Calls
<1>2. /\ call'[t] = c /\ type'[c] = k /\ pc'[t] = at
      /\ \A u \in Threads : u # t => pc'[u] = pc[u] /\ call'[u] = call[u]
      /\ \A d \in Calls : d # c => type'[d] = type[d]
  BY DEF IInv, TypeOK, Begin
<1>3. UNCHANGED <<writer, receiver, selector, armed, request, target, queue>>
  BY DEF Begin
<1>4. \A j \in Types : EntryOf(j)' = EntryOf(j)
  BY <1>1, <1>2, <1>3, EntriesKept DEF IInv, TypeOK, StoringPCs
<1>5. \A u \in Threads : FoundOf(u)' = FoundOf(u)
  BY <1>1, <1>2, <1>3 DEF FoundOf
<1>6. Sending[t] = {} /\ SendingOf(t)' = {[call |-> c, kind |-> k]}
  BY <1>1, <1>2 DEF Sending, SendingOf
<1>7. \A u \in Threads : u # t => SendingOf(u)' = SendingOf(u)
  <2>1. \A u \in Threads : u # t =>
          /\ call'[u] = call[u] /\ pc'[u] = pc[u]
          /\ call[u] # 0 => type'[call[u]] = type[call[u]]
    BY <1>1, <1>2 DEF IInv, TypeOK
  <2>. QED
    BY <2>1, SendingKept
<1>8. Sending' = [Sending EXCEPT ![t] = {[call |-> c, kind |-> k]}]
  BY <1>6, <1>7 DEF Sending
<1>9. Used' = Used \cup {c} /\ c \notin Used
  BY <1>1 DEF IInv, TypeOK, Begin, Used
<1>10. UNCHANGED <<Entry, armed, Found, Pending>>
  BY <1>3, <1>4, <1>5 DEF Entry, Found, Pending
<1>. QED
  BY <1>6, <1>8, <1>9, <1>10 DEF Channel!Begin, Entry, Used, Sending, Found, Pending

\* The primitives enter unseen.
LEMMA EnterStep ==
  ASSUME IInv, NEW v \in VMThreads,
         Shutdown(v) \/ \E k, pair : Register(v, k, pair)
  PROVE  UNCHANGED Channel!vars
<1>. USE DEF MayEnter, Goto, library, table, locals, history, fault
<1>1. v \in Threads /\ pc[v] = "out" /\ pc'[v] \in {"init_cas", "shut_info"}
  BY DEF IInv, TypeOK, Shutdown, Register, Threads
<1>2. Moves(v)
  BY <1>1 DEF IInv, TypeOK, Shutdown, Register, Moves, FoundPCs
<1>3. pc[v] \notin StoringPCs /\ pc'[v] \notin StoringPCs
  BY <1>1 DEF StoringPCs
<1>. QED
  BY <1>1, <1>2, <1>3, Stutter

\* The VM evaluates what the channel takes.
LEMMA EvaluateStep ==
  ASSUME IInv, DInv, NEW v \in VMThreads, Evaluate(v)
  PROVE  Channel!Take
<1>. USE DEF library, table, locals, history, fault
<1>1. queue # <<>> /\ queue' = Tail(queue)
  BY DEF Evaluate
<1>2. /\ Head(queue) = queue[1] /\ 1 \in 1..Len(queue) /\ Len(queue) \in Nat
      /\ Len(queue') = Len(queue) - 1
      /\ \A i \in 1..Len(queue') : i + 1 \in 1..Len(queue) /\ queue'[i] = queue[i + 1]
  BY <1>1 DEF IInv, TypeOK
<1>3. UNCHANGED <<Entry, armed, Sending, Found>>
  BY DEF Evaluate, Entry, EntryOf, Sending, SendingOf, Found, FoundOf
<1>4. Used' = Used
  <2>1. queue[1].call \in Calls /\ fate[queue[1].call] = "posted"
    BY <1>2, QueuedCall DEF IInv, DInv, QueueOrder
  <2>2. \A c \in Calls : fate'[c] # "new" <=> fate[c] # "new"
    BY <1>2, <2>1 DEF IInv, TypeOK, Evaluate
  <2>. QED
    BY <2>2 DEF Used
<1>5. Pending # <<>> /\ Pending' = Tail(Pending)
  <2>. DEFINE S == {Pending[i] : i \in 1..Len(queue)}
  <2>1. Len(Pending) = Len(queue) /\ Pending \in Seq(S)
    BY <1>2 DEF Pending
  <2>2. Pending # <<>>
    BY <1>2, <2>1
  <2>3. /\ Len(Tail(Pending)) = Len(queue) - 1
        /\ \A i \in 1..(Len(queue) - 1) : Tail(Pending)[i] = Pending[i + 1]
        /\ Tail(Pending) \in Seq(S)
    BY <1>2, <2>1, <2>2
  <2>4. /\ Pending' \in Seq(S) /\ Len(Pending') = Len(queue) - 1
        /\ \A i \in 1..(Len(queue) - 1) : Pending'[i] = Pending[i + 1]
    <3>. DEFINE L == Len(queue) - 1
    <3>1. Len(queue') = L /\ L \in Nat
      BY <1>2
    <3>2. Pending' = [i \in 1..L |-> [call |-> queue'[i].call, target |-> queue'[i].target]]
      BY <3>1 DEF Pending
    <3>3. \A i \in 1..L : i + 1 \in 1..Len(queue) /\ queue'[i] = queue[i + 1]
      BY <1>2, <3>1
    <3>. HIDE DEF L
    <3>4. \A i \in 1..L : Pending'[i] = Pending[i + 1]
      BY <3>2, <3>3 DEF Pending
    <3>. HIDE DEF S
    <3>5. \A i \in 1..L : Pending[i + 1] \in S
      BY <3>3 DEF S
    <3>6. Pending' \in [1..L -> S]
      BY <3>2, <3>4, <3>5
    <3>7. Pending' \in Seq(S) /\ Len(Pending') = L
      BY <3>1, <3>6
    <3>. QED
      BY <3>4, <3>7 DEF L
  <2>. HIDE DEF S
  <2>5. Pending' = Tail(Pending)
    BY <2>3, <2>4, SeqEqual
  <2>. QED
    BY <2>2, <2>5
<1>. QED
  BY <1>3, <1>4, <1>5 DEF Channel!Take, Entry, Used, Sending, Found, Pending

\* The connector does nothing that the channel does not promise: registrations,
\* lookups and acceptances are as if each happened at one moment, for any number
\* of Paho threads; no message is posted twice, made up, or taken out of order.
THEOREM ConnectorImplementsChannel ==
  ASSUME NEW vm, VMThreads = {vm}
  PROVE  Spec => ImplementsChannel
<1>1. Init => Channel!Init
  <2>. SUFFICES ASSUME Init PROVE Channel!Init
    OBVIOUS
  <2>1. \A k \in Types : EntryOf(k) \in Objects \X Objects
    BY TargetsAssumption DEF Init, EntryOf, InitialTarget
  <2>2. \A t \in Threads : SendingOf(t) = {} /\ FoundOf(t) = {}
    BY DEF Init, SendingOf, FoundOf
  <2>3. queue = <<>> /\ Len(queue) = 0
    BY DEF Init
  <2>4. Pending = <<>>
    BY <2>3 DEF Pending
  <2>. QED
    BY <2>1, <2>2, <2>4 DEF Init, Channel!Init, Pending
<1>2. IInv /\ DInv /\ [Next]_vars => [Channel!Next]_Channel!vars
  <2>. SUFFICES ASSUME IInv, DInv, [Next]_vars
                PROVE  [Channel!Next]_Channel!vars
    OBVIOUS
  <2>1. CASE \E t \in Threads : Step(t)
    <3>1. PICK t \in Threads : Step(t)
      BY <2>1
    <3>2. CASE \/ InitCas(t) \/ InitInfo(t) \/ InitLock(t) \/ ShutdownInfo(t) \/ Refuse(t)
               \/ SetLock(t) \/ GetLock(t) \/ GetReceiver(t) \/ GetUnlock(t)
      BY <3>2, MovingStep
    <3>3. CASE SetReceiver(t) \/ SetUnlock(t)
      BY <3>3, SetReceiverStep, SetUnlockStep DEF Channel!Next
    <3>4. CASE SetSelector(t) \/ FreeMessage(t)
      BY <3>4, SetSelectorStep, FreeMessageStep
    <3>5. CASE NewInit(t) \/ Send(t) \/ GetSelector(t) \/ Post(t)
      BY <3>5, NewInitStep, SendStep, GetSelectorStep, PostStep DEF Channel!Next
    <3>. QED
      BY <3>1, <3>2, <3>3, <3>4, <3>5 DEF Step
  <2>2. CASE \E p \in PahoThreads, c \in Calls, k \in Types : Callback(p, c, k)
    <3>1. PICK p \in PahoThreads, c \in Calls, k \in Types : Callback(p, c, k)
      BY <2>2
    <3>2. Channel!Begin(p, c, k)
      BY <3>1, BeginStep DEF Callback, Threads
    <3>. QED
      BY <3>1, <3>2 DEF Channel!Next, Threads
  <2>3. CASE \E v \in VMThreads, c \in Calls : Checkpoint(v, c)
    <3>1. PICK v \in VMThreads, c \in Calls : Checkpoint(v, c)
      BY <2>3
    <3>2. Channel!Begin(v, c, "checkpoint") /\ "checkpoint" \in Types
      BY <3>1, BeginStep DEF Checkpoint, Threads
    <3>. QED
      BY <3>1, <3>2 DEF Channel!Next, Threads
  <2>4. CASE \E v \in VMThreads : \/ Shutdown(v) \/ BadCall(v)
                                  \/ \E k \in Types, pair \in Targets : Register(v, k, pair)
    BY <2>4, EnterStep DEF BadCall
  <2>5. CASE \E v \in VMThreads : Evaluate(v)
    BY <2>5, EvaluateStep DEF Channel!Next
  <2>6. CASE UNCHANGED vars
    <3>1. \A t \in Threads : SendingOf(t)' = SendingOf(t) /\ FoundOf(t)' = FoundOf(t)
      BY <2>6 DEF vars, locals, history, SendingOf, FoundOf
    <3>2. \A k \in Types : EntryOf(k)' = EntryOf(k)
      BY <2>6 DEF vars, table, locals, EntryOf
    <3>. QED
      BY <2>6, <3>1, <3>2 DEF vars, table, history, Channel!vars
  <2>. QED
    BY <2>1, <2>2, <2>3, <2>4, <2>5, <2>6 DEF Next
<1>. QED
  BY Invariant, CallInvariant, <1>1, <1>2, PTL DEF Spec, ImplementsChannel, Channel!Spec

=============================================================================
