---------------------- MODULE EsMqttAsyncMessagesProofs ----------------------
(***************************************************************************)
(* Proofs about EsMqttAsyncMessages, for a library that one VM thread      *)
(* initialises: any number of Paho threads, callback types, targets, calls *)
(* and registrations, and a queue of any size.                             *)
(***************************************************************************)
EXTENDS EsMqttAsyncMessages, EsMqttAsyncHandlersProofs

IInv == TypeOK /\ Progress /\ Locking

\* What waits in the queue is the message of a call.
LEMMA QueuedCall ==
  ASSUME TypeOK, NEW i \in 1..Len(queue)
  PROVE  queue[i] \in Messages /\ queue[i].call \in Calls
<1>1. queue[i] \in Messages
  BY DEF TypeOK
<1>2. \A args : \A m \in [call : Calls, target : Objects \X Objects, args : args] :
        m.call \in Calls
  OBVIOUS
<1>. QED
  BY <1>1, <1>2 DEF Messages

\* What a registration asks for is a type that is in use or refused.
LEMMA ValidType ==
  ASSUME NEW k \in Types \cup {"invalid"}
  PROVE  EsMqttCallbacks_IsValidCallbackType(k) <=> k \in Types
  BY TypesAssumption DEF EsMqttCallbacks_IsValidCallbackType, CallbackTypes

\* Where AfterInit sends a primitive is a place its request is meant for.
LEMMA AfterInitGoesTo ==
  ASSUME IInv, NEW t \in Threads, pc[t] \in InitPCs
  PROVE  /\ AfterInit(t) \in {"new", "set_lock", "refuse"}
         /\ AfterInit(t) = "new" <=> call[t] # 0
         /\ AfterInit(t) = "set_lock" => request[t][1] \in Types
  BY ValidType DEF IInv, Progress, AfterInit

\* InitCas keeps the invariant.
LEMMA InitCasIInv ==
  ASSUME NEW vm, VMThreads = {vm}, IInv, NEW t \in Threads, InitCas(t)
  PROVE  IInv'
<1>. USE DEF At, Goto, library, table, locals, history, fault
<1>0. pc[t] \in InitPCs
  BY DEF InitCas, InitPCs
<1>1. TypeOK'
  <2>1. pc' \in [Threads -> PCs]
    <3>1. PICK to \in {"init_info", "new", "set_lock", "refuse"} : pc' = [pc EXCEPT ![t] = to]
      BY <1>0, AfterInitGoesTo DEF InitCas
    <3>. QED
      BY <3>1 DEF IInv, TypeOK, PCs
  <2>. QED
    BY <2>1 DEF IInv, TypeOK, InitCas
<1>2. Progress'
  BY <1>0, AfterInitGoesTo DEF IInv, TypeOK, Progress, Ready, InitCas, PCs, InitPCs, WritePCs,
     ReadPCs, CallPCs, PastInit
<1>3. Locking'
  BY <1>0, AfterInitGoesTo DEF IInv, TypeOK, Progress, Locking, InitCas, PCs, InitPCs, WritePCs,
     ReadPCs, CallPCs, PastInit
<1>. QED
  BY <1>1, <1>2, <1>3 DEF IInv

\* InitInfo keeps the invariant.
LEMMA InitInfoIInv ==
  ASSUME NEW vm, VMThreads = {vm}, IInv, NEW t \in Threads, InitInfo(t)
  PROVE  IInv'
<1>. USE DEF At, Goto, library, table, locals, history, fault
<1>1. TypeOK'
  BY DEF IInv, TypeOK, Progress, InitInfo, PCs, InitPCs, WritePCs, ReadPCs, CallPCs,
     PastInit
<1>2. Progress'
  BY DEF IInv, TypeOK, Progress, Ready, InitInfo, PCs, InitPCs, WritePCs, ReadPCs,
     CallPCs, PastInit
<1>3. Locking'
  BY DEF IInv, TypeOK, Progress, Locking, InitInfo, PCs, InitPCs, WritePCs, ReadPCs,
     CallPCs, PastInit
<1>. QED
  BY <1>1, <1>2, <1>3 DEF IInv

\* InitLock keeps the invariant.
LEMMA InitLockIInv ==
  ASSUME NEW vm, VMThreads = {vm}, IInv, NEW t \in Threads, InitLock(t)
  PROVE  IInv'
<1>. USE DEF At, Goto, library, table, locals, history, fault
<1>0. pc[t] \in InitPCs
  BY DEF InitLock, InitPCs
<1>1. TypeOK'
  BY <1>0, AfterInitGoesTo DEF IInv, TypeOK, Progress, InitLock, PCs, InitPCs, WritePCs, ReadPCs,
     CallPCs, PastInit
<1>2. Progress'
  BY <1>0, AfterInitGoesTo DEF IInv, TypeOK, Progress, Ready, InitLock, PCs, InitPCs, WritePCs,
     ReadPCs, CallPCs, PastInit
<1>3. Locking'
  BY <1>0, AfterInitGoesTo DEF IInv, TypeOK, Progress, Locking, InitLock, PCs, InitPCs, WritePCs,
     ReadPCs, CallPCs, PastInit
<1>. QED
  BY <1>1, <1>2, <1>3 DEF IInv

\* ShutdownInfo keeps the invariant.
LEMMA ShutdownInfoIInv ==
  ASSUME NEW vm, VMThreads = {vm}, IInv, NEW t \in Threads, ShutdownInfo(t)
  PROVE  IInv'
<1>. USE DEF At, Goto, library, table, locals, history, fault
<1>1. TypeOK'
  BY DEF IInv, TypeOK, Progress, ShutdownInfo, PCs, InitPCs, WritePCs, ReadPCs, CallPCs,
     PastInit
<1>2. Progress'
  BY DEF IInv, TypeOK, Progress, Ready, ShutdownInfo, PCs, InitPCs, WritePCs, ReadPCs,
     CallPCs, PastInit
<1>3. Locking'
  BY DEF IInv, TypeOK, Progress, Locking, ShutdownInfo, PCs, InitPCs, WritePCs, ReadPCs,
     CallPCs, PastInit
<1>. QED
  BY <1>1, <1>2, <1>3 DEF IInv

\* Refuse keeps the invariant.
LEMMA RefuseIInv ==
  ASSUME NEW vm, VMThreads = {vm}, IInv, NEW t \in Threads, Refuse(t)
  PROVE  IInv'
<1>. USE DEF At, Goto, library, table, locals, history, fault
<1>1. NoRequest \in (Types \cup {"none", "invalid"}) \X (Objects \X Objects)
  BY TargetsAssumption DEF NoRequest
<1>2. TypeOK'
  BY <1>1 DEF IInv, TypeOK, Refuse, PCs
<1>3. Progress'
  BY DEF IInv, TypeOK, Progress, Ready, Refuse, PCs, InitPCs, WritePCs, ReadPCs, CallPCs,
     PastInit
<1>4. Locking'
  <2>1. \A u \in Threads : pc[u] \in WritePCs => u # t
    BY DEF Refuse, WritePCs
  <2>. QED
    BY <2>1, ThreadsAssumption DEF IInv, TypeOK, Progress, Locking, Refuse, PCs, InitPCs,
       WritePCs, ReadPCs, CallPCs, PastInit
<1>. QED
  BY <1>2, <1>3, <1>4 DEF IInv

\* SetLock keeps the invariant.
LEMMA SetLockIInv ==
  ASSUME NEW vm, VMThreads = {vm}, IInv, NEW t \in Threads, SetLock(t)
  PROVE  IInv'
<1>. USE DEF At, Goto, library, table, locals, history, fault
<1>1. TypeOK'
  BY DEF IInv, TypeOK, Progress, SetLock, PCs, InitPCs, WritePCs, ReadPCs, CallPCs, PastInit
<1>2. Progress'
  BY DEF IInv, TypeOK, Progress, Ready, SetLock, PCs, InitPCs, WritePCs, ReadPCs,
     CallPCs, PastInit
<1>3. Locking'
  BY DEF IInv, TypeOK, Progress, Ready, Locking, SetLock, PCs, InitPCs, WritePCs,
     ReadPCs, CallPCs, PastInit
<1>. QED
  BY <1>1, <1>2, <1>3 DEF IInv

\* SetReceiver keeps the invariant.
LEMMA SetReceiverIInv ==
  ASSUME NEW vm, VMThreads = {vm}, IInv, NEW t \in Threads, SetReceiver(t)
  PROVE  IInv'
<1>. USE DEF At, Goto, library, table, locals, history, fault
<1>1. TypeOK'
  BY DEF IInv, TypeOK, Progress, SetReceiver, PCs, InitPCs, WritePCs, ReadPCs, CallPCs,
     PastInit
<1>2. Progress'
  BY DEF IInv, TypeOK, Progress, Ready, SetReceiver, PCs, InitPCs, WritePCs, ReadPCs,
     CallPCs, PastInit
<1>3. writer = t /\ readers = {} /\ request[t][1] \in Types
  BY ThreadsAssumption DEF IInv, TypeOK, Progress, Locking, SetReceiver, PCs, InitPCs,
     WritePCs, ReadPCs, CallPCs, PastInit
<1>4. Locking'
  <2>1. \A u \in Threads : u # t => pc[u] \notin ReadPCs \cup WritePCs
    BY <1>3 DEF IInv, Locking
  <2>2. \A u \in Threads : pc'[u] = "post" => target'[u] \in registered[type[call[u]]]'
    BY DEF IInv, TypeOK, Locking, SetReceiver, PCs, InitPCs, WritePCs, ReadPCs, CallPCs,
       PastInit
  <2>3. receiver'[request[t][1]] = request[t][2][1]
    BY <1>3 DEF IInv, TypeOK, SetReceiver
  <2>4. pc' = [pc EXCEPT ![t] = "set_selector"] /\ writer' = t /\ readers' = {}
    BY <1>3 DEF SetReceiver
  <2>5. \A k \in Types : k = request[t][1] \/ <<receiver'[k], selector'[k]>> \in registered'[k]
    BY <1>3 DEF IInv, TypeOK, Locking, SetReceiver, PCs, InitPCs, WritePCs, ReadPCs,
       CallPCs, PastInit
  <2>. QED
    BY <1>3, <2>1, <2>2, <2>3, <2>4, <2>5, ThreadsAssumption DEF IInv, TypeOK, Progress,
       Locking, SetReceiver, PCs, InitPCs, WritePCs, ReadPCs, CallPCs, PastInit
<1>. QED
  BY <1>1, <1>2, <1>4 DEF IInv

\* SetSelector keeps the invariant.
LEMMA SetSelectorIInv ==
  ASSUME NEW vm, VMThreads = {vm}, IInv, NEW t \in Threads, SetSelector(t)
  PROVE  IInv'
<1>. USE DEF At, Goto, library, table, locals, history, fault
<1>1. TypeOK'
  BY DEF IInv, TypeOK, Progress, SetSelector, PCs, InitPCs, WritePCs, ReadPCs, CallPCs,
     PastInit
<1>2. Progress'
  BY DEF IInv, TypeOK, Progress, Ready, SetSelector, PCs, InitPCs, WritePCs, ReadPCs,
     CallPCs, PastInit
<1>3. writer = t /\ readers = {} /\ request[t][1] \in Types
  BY ThreadsAssumption DEF IInv, TypeOK, Progress, Locking, SetSelector, PCs, InitPCs,
     WritePCs, ReadPCs, CallPCs, PastInit
<1>4. Locking'
  <2>1. \A u \in Threads : u # t => pc[u] \notin ReadPCs \cup WritePCs
    BY <1>3 DEF IInv, Locking
  <2>2. \A u \in Threads : pc'[u] = "post" => target'[u] \in registered[type[call[u]]]'
    BY DEF IInv, TypeOK, Locking, SetSelector, PCs, InitPCs, WritePCs, ReadPCs, CallPCs,
       PastInit
  <2>3. /\ receiver'[request[t][1]] = request[t][2][1]
        /\ selector'[request[t][1]] = request[t][2][2]
    BY <1>3 DEF IInv, TypeOK, Locking, SetSelector
  <2>4. pc' = [pc EXCEPT ![t] = "set_unlock"] /\ writer' = t /\ readers' = {}
    BY <1>3 DEF SetSelector
  <2>5. \A k \in Types : k = request[t][1] \/ <<receiver'[k], selector'[k]>> \in registered'[k]
    BY <1>3 DEF IInv, TypeOK, Locking, SetSelector, PCs, InitPCs, WritePCs, ReadPCs,
       CallPCs, PastInit
  <2>. QED
    BY <1>3, <2>1, <2>2, <2>3, <2>4, <2>5, ThreadsAssumption DEF IInv, TypeOK, Progress,
       Locking, SetSelector, PCs, InitPCs, WritePCs, ReadPCs, CallPCs, PastInit
<1>. QED
  BY <1>1, <1>2, <1>4 DEF IInv

\* SetUnlock keeps the invariant.
LEMMA SetUnlockIInv ==
  ASSUME NEW vm, VMThreads = {vm}, IInv, NEW t \in Threads, SetUnlock(t)
  PROVE  IInv'
<1>. USE DEF At, Goto, library, table, locals, history, fault
<1>1. /\ writer = t /\ readers = {} /\ request[t][1] \in Types
      /\ Ready /\ libState # "UNINIT" /\ call[t] = 0
  BY ThreadsAssumption DEF IInv, TypeOK, Progress, Ready, Locking, SetUnlock, PCs,
     InitPCs, WritePCs, ReadPCs, CallPCs, PastInit
<1>2. PICK k \in Types, pair \in Objects \X Objects : request[t] = <<k, pair>>
  BY <1>1 DEF IInv, TypeOK
<1>3. pair = <<receiver[k], selector[k]>>
  BY <1>2 DEF IInv, Locking, SetUnlock
<1>4. /\ registered' = [registered EXCEPT ![k] = @ \cup {pair}]
      /\ armed' = armed \cup {k}
      /\ writer' = NoThread
      /\ request' = [request EXCEPT ![t] = NoRequest]
      /\ pc' = [pc EXCEPT ![t] = "out"]
      /\ UNCHANGED <<library, readers, receiver, selector, call, target, msg,
                      history, queue, fault, registrations>>
  BY <1>1, <1>2, ValidType DEF SetUnlock, getCallbackTarget
<1>5. TypeOK'
  <2>1. NoRequest \in (Types \cup {"none", "invalid"}) \X (Objects \X Objects)
    BY TargetsAssumption DEF NoRequest
  <2>. QED
    BY <1>2, <1>4, <2>1 DEF IInv, TypeOK, PCs
<1>6. Progress'
  BY <1>1, <1>2, <1>4 DEF IInv, TypeOK, Progress, Ready, PCs, InitPCs, WritePCs, ReadPCs,
     CallPCs, PastInit
<1>7. Locking'
  <2>1. \A u \in Threads : u # t => pc[u] \notin ReadPCs \cup WritePCs
    BY <1>1 DEF IInv, Locking
  <2>2. <<receiver[k], selector[k]>> \in registered'[k]
    BY <1>3, <1>4 DEF IInv, TypeOK
  <2>3. \A j \in Types : registered[j] \subseteq registered'[j]
    BY <1>4 DEF IInv, TypeOK
  <2>4. \A u \in Threads : call[u] # 0 => type[call[u]] \in Types
    BY DEF IInv, Progress
  <2>5. \A j \in Types : <<receiver[j], selector[j]>> \in registered'[j]
    BY <1>1, <1>2, <2>2, <2>3 DEF IInv, Locking
  <2>6. \A u \in Threads : pc'[u] = "post" => target[u] \in registered'[type[call[u]]]
    BY <1>4, <2>3, <2>4 DEF IInv, TypeOK, Progress, Locking, CallPCs
  <2>. QED
    BY <1>1, <1>4, <2>1, <2>5, <2>6 DEF IInv, TypeOK, Locking, PCs, InitPCs, WritePCs,
       ReadPCs, CallPCs, PastInit
<1>. QED
  BY <1>5, <1>6, <1>7 DEF IInv

\* What the end of EsMqttAsyncMessage_send does to the thread and its call.
SentTo(t, to) ==
  /\ pc' = [pc EXCEPT ![t] = to]
  /\ call' = [call EXCEPT ![t] = IF to = "out" THEN 0 ELSE call[t]]
  /\ msg' \in [Threads -> {"none", "live", "freed"}]
  /\ target' \in [Threads -> Objects \X Objects]
  /\ \A u \in Threads : u # t => target'[u] = target[u]
  /\ result' \in [Calls -> {"none", "0", "1"}]

\* It returns from a callback and goes on to the free of a checkpoint.
LEMMA SentGoesTo ==
  ASSUME IInv, NEW t \in Threads, call[t] \in Calls, NEW a \in {"0", "1"}, Sent(t, a)
  PROVE  \E to \in {"out", "free"} : SentTo(t, to)
<1>1. target' = [target EXCEPT ![t] = <<Zero, Zero>>] /\ <<Zero, Zero>> \in Objects \X Objects
  BY TargetsAssumption DEF Sent
<1>2. CASE type[call[t]] = "checkpoint"
  <2>1. SentTo(t, "free")
    <3>1. call' = [call EXCEPT ![t] = call[t]] /\ msg' = msg
      BY <1>2 DEF IInv, TypeOK, Sent
    <3>2. result' = [result EXCEPT ![call[t]] = a] /\ pc' = [pc EXCEPT ![t] = "free"]
      BY <1>2 DEF Sent, Goto
    <3>. QED
      BY <1>1, <3>1, <3>2 DEF IInv, TypeOK, SentTo
  <2>. QED
    BY <2>1
<1>3. CASE type[call[t]] # "checkpoint"
  <2>1. SentTo(t, "out")
    <3>1. /\ call' = [call EXCEPT ![t] = 0] /\ msg' = [msg EXCEPT ![t] = "none"]
          /\ result' = [result EXCEPT ![call[t]] = a] /\ pc' = [pc EXCEPT ![t] = "out"]
      BY <1>3 DEF Sent, Answer, Goto
    <3>. QED
      BY <1>1, <3>1 DEF IInv, TypeOK, SentTo
  <2>. QED
    BY <2>1
<1>. QED
  BY <1>2, <1>3

\* NewInit keeps the invariant.
LEMMA NewInitIInv ==
  ASSUME NEW vm, VMThreads = {vm}, IInv, NEW t \in Threads, NewInit(t)
  PROVE  IInv'
<1>. USE DEF At, Goto, library, table, locals, history, fault
<1>1. call[t] \in Calls /\ type[call[t]] \in Types /\ pc[t] = "new"
  BY DEF IInv, TypeOK, Progress, NewInit, CallPCs
<1>2. PICK to \in {"send", "out"} :
        /\ pc' = [pc EXCEPT ![t] = to]
        /\ call' = [call EXCEPT ![t] = IF to = "out" THEN 0 ELSE call[t]]
        /\ msg' \in [Threads -> {"none", "live", "freed"}]
        /\ target' \in [Threads -> Objects \X Objects]
        /\ \A u \in Threads : u # t => target'[u] = target[u]
        /\ fate' \in [Calls -> {"new", "open", "dropped", "lost", "posted", "evaluated"}]
        /\ \A c \in Calls : fate[c] # "new" => fate'[c] # "new"
        /\ result' \in [Calls -> {"none", "0", "1"}]
        /\ UNCHANGED <<library, table, request, type, after, registrations, queue, fault>>
  <2>1. CASE /\ msg' = [msg EXCEPT ![t] = "live"]
             /\ Goto(t, "send") /\ UNCHANGED <<call, result, fate>>
    BY <2>1 DEF IInv, TypeOK, NewInit
  <2>2. CASE /\ msg' = [msg EXCEPT ![t] = "none"]
             /\ Goto(t, "send") /\ UNCHANGED <<call, result, fate>>
    BY <2>2 DEF IInv, TypeOK, NewInit
  <2>3. CASE /\ fate' = [fate EXCEPT ![call[t]] = "dropped"]
             /\ Answer(t, "0")
             /\ UNCHANGED msg
    BY <1>1, <2>3 DEF IInv, TypeOK, NewInit, Answer
  <2>. QED
    BY <2>1, <2>2, <2>3 DEF NewInit
<1>3. TypeOK'
  BY <1>1, <1>2 DEF IInv, TypeOK, PCs
<1>4. Progress'
  BY <1>1, <1>2, QueuedCall DEF IInv, TypeOK, Progress, Ready, PCs, InitPCs, WritePCs,
     ReadPCs, CallPCs, PastInit
<1>5. Locking'
  BY <1>1, <1>2 DEF IInv, TypeOK, Progress, Locking, PCs, InitPCs, WritePCs, ReadPCs,
     CallPCs, PastInit
<1>. QED
  BY <1>3, <1>4, <1>5 DEF IInv

\* Send keeps the invariant.
LEMMA SendIInv ==
  ASSUME NEW vm, VMThreads = {vm}, IInv, NEW t \in Threads, Send(t)
  PROVE  IInv'
<1>. USE DEF At, Goto, library, table, locals, history, fault
<1>1. call[t] \in Calls /\ type[call[t]] \in Types /\ pc[t] = "send"
  BY DEF IInv, TypeOK, Progress, Send, CallPCs
<1>2. PICK to \in {"get_lock", "out", "free"} :
        /\ pc' = [pc EXCEPT ![t] = to]
        /\ call' = [call EXCEPT ![t] = IF to = "out" THEN 0 ELSE call[t]]
        /\ msg' \in [Threads -> {"none", "live", "freed"}]
        /\ target' \in [Threads -> Objects \X Objects]
        /\ \A u \in Threads : u # t => target'[u] = target[u]
        /\ fate' \in [Calls -> {"new", "open", "dropped", "lost", "posted", "evaluated"}]
        /\ \A c \in Calls : fate[c] # "new" => fate'[c] # "new"
        /\ result' \in [Calls -> {"none", "0", "1"}]
        /\ UNCHANGED <<library, table, request, type, after, registrations, queue, fault>>
  <2>1. CASE msg[t] # "none" /\ Goto(t, "get_lock") /\ UNCHANGED <<call, target, msg, result, fate>>
    BY <2>1 DEF IInv, TypeOK, Send
  <2>2. CASE \E a \in {"0", "1"} : fate' = [fate EXCEPT ![call[t]] = "dropped"] /\ Sent(t, a)
    <3>1. PICK a \in {"0", "1"} : fate' = [fate EXCEPT ![call[t]] = "dropped"] /\ Sent(t, a)
      BY <2>2
    <3>2. PICK to \in {"out", "free"} : SentTo(t, to)
      BY <1>1, <3>1, SentGoesTo
    <3>. QED
      BY <1>1, <3>1, <3>2 DEF IInv, TypeOK, Send, SentTo
  <2>. QED
    BY <2>1, <2>2 DEF Send
<1>3. TypeOK'
  BY <1>1, <1>2 DEF IInv, TypeOK, PCs
<1>4. Progress'
  BY <1>1, <1>2, QueuedCall DEF IInv, TypeOK, Progress, Ready, PCs, InitPCs, WritePCs,
     ReadPCs, CallPCs, PastInit
<1>5. Locking'
  BY <1>1, <1>2 DEF IInv, TypeOK, Progress, Locking, PCs, InitPCs, WritePCs, ReadPCs,
     CallPCs, PastInit
<1>. QED
  BY <1>3, <1>4, <1>5 DEF IInv

\* GetLock keeps the invariant.
LEMMA GetLockIInv ==
  ASSUME NEW vm, VMThreads = {vm}, IInv, NEW t \in Threads, GetLock(t)
  PROVE  IInv'
<1>. USE DEF At, Goto, library, table, locals, history, fault
<1>1. TypeOK'
  BY DEF IInv, TypeOK, Progress, GetLock, PCs, InitPCs, WritePCs, ReadPCs, CallPCs, PastInit
<1>2. Progress'
  BY DEF IInv, TypeOK, Progress, Ready, GetLock, PCs, InitPCs, WritePCs, ReadPCs,
     CallPCs, PastInit
<1>3. Locking'
  BY DEF IInv, TypeOK, Progress, Ready, Locking, GetLock, PCs, InitPCs, WritePCs,
     ReadPCs, CallPCs, PastInit
<1>. QED
  BY <1>1, <1>2, <1>3 DEF IInv

\* GetReceiver keeps the invariant.
LEMMA GetReceiverIInv ==
  ASSUME NEW vm, VMThreads = {vm}, IInv, NEW t \in Threads, GetReceiver(t)
  PROVE  IInv'
<1>. USE DEF At, Goto, library, table, locals, history, fault
<1>1. TypeOK'
  BY DEF IInv, TypeOK, Progress, GetReceiver, PCs, InitPCs, WritePCs, ReadPCs, CallPCs,
     PastInit
<1>2. Progress'
  BY DEF IInv, TypeOK, Progress, Ready, GetReceiver, PCs, InitPCs, WritePCs, ReadPCs,
     CallPCs, PastInit
<1>3. Locking'
  BY DEF IInv, TypeOK, Progress, Locking, GetReceiver, PCs, InitPCs, WritePCs, ReadPCs,
     CallPCs, PastInit
<1>. QED
  BY <1>1, <1>2, <1>3 DEF IInv

\* GetSelector keeps the invariant.
LEMMA GetSelectorIInv ==
  ASSUME NEW vm, VMThreads = {vm}, IInv, NEW t \in Threads, GetSelector(t)
  PROVE  IInv'
<1>. USE DEF At, Goto, library, table, locals, history, fault
<1>1. TypeOK'
  BY DEF IInv, TypeOK, Progress, GetSelector, PCs, InitPCs, WritePCs, ReadPCs, CallPCs,
     PastInit
<1>2. Progress'
  BY DEF IInv, TypeOK, Progress, Ready, GetSelector, PCs, InitPCs, WritePCs, ReadPCs,
     CallPCs, PastInit
<1>3. Locking'
  BY DEF IInv, TypeOK, Progress, Locking, GetSelector, PCs, InitPCs, WritePCs, ReadPCs,
     CallPCs, PastInit
<1>. QED
  BY <1>1, <1>2, <1>3 DEF IInv

\* GetUnlock keeps the invariant.
LEMMA GetUnlockIInv ==
  ASSUME NEW vm, VMThreads = {vm}, IInv, NEW t \in Threads, GetUnlock(t)
  PROVE  IInv'
<1>. USE DEF At, Goto, library, table, locals, history, fault
<1>1. /\ call[t] \in Calls /\ type[call[t]] \in Types
      /\ t \in readers /\ writer = NoThread /\ pc[t] = "get_unlock"
  BY DEF IInv, TypeOK, Progress, Locking, GetUnlock, CallPCs, ReadPCs
<1>2. /\ pc' = [pc EXCEPT ![t] = "post"]
      /\ readers' = readers \ {t}
      /\ msg' \in [Threads -> {"none", "live", "freed"}]
      /\ faults' \subseteq {"badFree", "freedMessage", "nullContext"}
      /\ process' \in {"running", "aborted"}
      /\ UNCHANGED <<library, writer, receiver, selector, registered, armed, call,
                      request, target, history, queue, registrations>>
  <2>1. CASE Meets({}) /\ UNCHANGED msg
    BY <2>1 DEF IInv, TypeOK, GetUnlock, Meets
  <2>2. CASE Meets({"badFree", "freedMessage"}) /\ msg' = [msg EXCEPT ![t] = "freed"]
    BY <2>2 DEF IInv, TypeOK, GetUnlock, Meets
  <2>. QED
    BY <2>1, <2>2 DEF GetUnlock
<1>3. TypeOK'
  BY <1>1, <1>2 DEF IInv, TypeOK, PCs
<1>4. Progress'
  BY <1>1, <1>2, QueuedCall DEF IInv, TypeOK, Progress, Ready, PCs, InitPCs, WritePCs,
     ReadPCs, CallPCs, PastInit
<1>5. target[t] \in registered[type[call[t]]]
  <2>1. target[t] = <<receiver[type[call[t]]], selector[type[call[t]]]>>
    BY DEF IInv, TypeOK, Locking, GetUnlock
  <2>. QED
    BY <1>1, <2>1 DEF IInv, Locking
<1>6. Locking'
  BY <1>1, <1>2, <1>5 DEF IInv, TypeOK, Progress, Locking, PCs, InitPCs, WritePCs,
     ReadPCs, CallPCs, PastInit
<1>. QED
  BY <1>3, <1>4, <1>6 DEF IInv

\* What is posted is a message of the call, with what the handler made of it unless
\* there was no target.
LEMMA PostedMessage ==
  ASSUME TypeOK, NEW t \in Threads, call[t] \in Calls, type[call[t]] \in Types,
         NEW args \in Arguments(t)
  PROVE  /\ Message(t, args) \in Messages
         /\ Message(t, args).call = call[t]
         /\ Message(t, args).target = target[t]
         /\ Message(t, args).args = args
         /\ HasTarget(target[t]) =>
              args = handler(type[call[t]], HeapAddress[call[t]])
<1>. DEFINE k == type[call[t]]  c == call[t]
<1>1. EsMqttCallbacks_IsValidCallbackType(k) /\ k \in CallbackTypes
  BY TypesAssumption DEF EsMqttCallbacks_IsValidCallbackType
<1>2. AsyncMessageHandlers[k][c] = handler(k, HeapAddress[c])
  BY <1>1 DEF AsyncMessageHandlers
<1>3. {h[c] : h \in getAsyncMessageHandler(k)} = {handler(k, HeapAddress[c])}
  BY <1>1, <1>2 DEF getAsyncMessageHandler
<1>4. /\ args = handler(k, HeapAddress[c]) \/ args = Undefined
      /\ HasTarget(target[t]) => args = handler(k, HeapAddress[c])
  BY <1>3 DEF Arguments
<1>5. args \in {handler(l, HeapAddress[d]) : l \in Types, d \in Calls} \cup {Undefined}
  BY <1>4
<1>6. target[t] \in Objects \X Objects
  BY DEF TypeOK
<1>. QED
  BY <1>4, <1>5, <1>6 DEF Message, Messages

\* Post keeps the invariant.
LEMMA PostIInv ==
  ASSUME NEW vm, VMThreads = {vm}, IInv, NEW t \in Threads, Post(t)
  PROVE  IInv'
<1>. USE DEF At, Goto, library, table, locals, history, fault
<1>1. call[t] \in Calls /\ type[call[t]] \in Types
  BY DEF IInv, TypeOK, Progress, Post, CallPCs
<1>2. PICK to \in {"out", "free"} : SentTo(t, to)
  BY <1>1, SentGoesTo DEF Post
<1>3. /\ faults' \subseteq {"badFree", "freedMessage", "nullContext"}
      /\ process' \in {"running", "aborted"}
      /\ UNCHANGED <<library, table, request, type, after, registrations>>
  BY DEF IInv, TypeOK, Post, Meets
<1>4. /\ fate' \in [Calls -> {"new", "open", "dropped", "lost", "posted", "evaluated"}]
      /\ \A c \in Calls : fate[c] # "new" => fate'[c] # "new"
  BY <1>1 DEF IInv, TypeOK, Post
<1>5. /\ queue' \in Seq(Messages) /\ Len(queue') <= QueueSize
      /\ \A i \in 1..Len(queue') :
           fate'[queue'[i].call] # "new" /\ type[queue'[i].call] \in Types
  <2>1. CASE UNCHANGED queue
    BY <1>4, <2>1, QueuedCall DEF IInv, TypeOK, Progress
  <2>2. CASE /\ Len(queue) < QueueSize
             /\ \E args \in Arguments(t) : queue' = Append(queue, Message(t, args))
             /\ fate' = [fate EXCEPT ![call[t]] = "posted"]
    <3>. PICK args \in Arguments(t) : queue' = Append(queue, Message(t, args))
      BY <2>2
    <3>. DEFINE m == Message(t, args)
    <3>1. m \in Messages
      BY <1>1, PostedMessage DEF IInv
    <3>2. m.call = call[t]
      BY <1>1, PostedMessage DEF IInv
    <3>3. queue' = Append(queue, m)
      OBVIOUS
    <3>. HIDE DEF m
    <3>4. /\ queue' \in Seq(Messages) /\ Len(queue') = Len(queue) + 1 /\ Len(queue) \in Nat
          /\ \A i \in 1..Len(queue) : queue'[i] = queue[i]
          /\ queue'[Len(queue) + 1] = m
      BY <3>1, <3>3 DEF IInv, TypeOK
    <3>5. Len(queue') <= QueueSize
      BY <2>2, <3>4, BoundsAssumption
    <3>6. fate'[m.call] # "new" /\ type[m.call] \in Types
      BY <1>1, <2>2, <3>2 DEF IInv, TypeOK
    <3>7. \A i \in 1..Len(queue) : queue[i] \in Messages /\ queue[i].call \in Calls
      BY QueuedCall DEF IInv
    <3>8. \A i \in 1..Len(queue) :
            fate'[queue'[i].call] # "new" /\ type[queue'[i].call] \in Types
      BY <1>4, <3>4, <3>7 DEF IInv, Progress
    <3>. QED
      BY <3>4, <3>5, <3>6, <3>8
  <2>. QED
    BY <2>1, <2>2 DEF Post
<1>6. TypeOK'
  BY <1>1, <1>2, <1>3, <1>4, <1>5 DEF IInv, TypeOK, SentTo, PCs
<1>7. pc[t] = "post"
  BY DEF Post
<1>8. Progress'
  BY <1>1, <1>2, <1>3, <1>4, <1>5, <1>7 DEF IInv, TypeOK, Progress, Ready, SentTo, PCs,
     InitPCs, WritePCs, ReadPCs, CallPCs, PastInit
<1>9. Locking'
  BY <1>1, <1>2, <1>3, <1>7 DEF IInv, TypeOK, Progress, Locking, SentTo, PCs, InitPCs,
     WritePCs, ReadPCs, CallPCs, PastInit
<1>. QED
  BY <1>6, <1>8, <1>9 DEF IInv

\* FreeMessage keeps the invariant.
LEMMA FreeMessageIInv ==
  ASSUME NEW vm, VMThreads = {vm}, IInv, NEW t \in Threads, FreeMessage(t)
  PROVE  IInv'
<1>. USE DEF At, Goto, library, table, locals, history, fault
<1>1. TypeOK'
  BY DEF IInv, TypeOK, Progress, FreeMessage, Meets, PCs, InitPCs, WritePCs, ReadPCs,
     CallPCs, PastInit
<1>2. Progress'
  BY DEF IInv, TypeOK, Progress, Ready, FreeMessage, Meets, PCs, InitPCs, WritePCs,
     ReadPCs, CallPCs, PastInit
<1>3. Locking'
  BY DEF IInv, TypeOK, Progress, Locking, FreeMessage, Meets, PCs, InitPCs, WritePCs,
     ReadPCs, CallPCs, PastInit
<1>. QED
  BY <1>1, <1>2, <1>3 DEF IInv

\* Register keeps the invariant.
LEMMA RegisterIInv ==
  ASSUME NEW vm, VMThreads = {vm}, IInv, NEW v \in VMThreads,
         NEW k \in Types \cup {"invalid"}, NEW pair \in Objects \X Objects,
         Register(v, k, pair)
  PROVE  IInv'
<1>. USE DEF Goto, MayEnter, library, table, locals, history, fault
<1>1. v \in Threads
  BY DEF Threads
<1>2. TypeOK'
  BY <1>1, TargetsAssumption, BoundsAssumption DEF IInv, TypeOK, Register, PCs
<1>3. Progress'
  BY <1>1 DEF IInv, TypeOK, Progress, Ready, Register, PCs, InitPCs, WritePCs, ReadPCs,
     CallPCs, PastInit
<1>4. Locking'
  BY <1>1, ThreadsAssumption DEF IInv, TypeOK, Progress, Locking, Register, PCs, InitPCs,
     WritePCs, ReadPCs, CallPCs, PastInit
<1>. QED
  BY <1>2, <1>3, <1>4 DEF IInv

\* Shutdown keeps the invariant.
LEMMA ShutdownIInv ==
  ASSUME NEW vm, VMThreads = {vm}, IInv, NEW v \in VMThreads, Shutdown(v)
  PROVE  IInv'
<1>. USE DEF Goto, MayEnter, library, table, locals, history, fault
<1>1. v \in Threads
  BY DEF Threads
<1>2. TypeOK'
  BY <1>1, TargetsAssumption, BoundsAssumption DEF IInv, TypeOK, Shutdown, PCs
<1>3. Progress'
  BY <1>1 DEF IInv, TypeOK, Progress, Ready, Shutdown, PCs, InitPCs, WritePCs, ReadPCs,
     CallPCs, PastInit
<1>4. Locking'
  BY <1>1, ThreadsAssumption DEF IInv, TypeOK, Progress, Locking, Shutdown, PCs, InitPCs,
     WritePCs, ReadPCs, CallPCs, PastInit
<1>. QED
  BY <1>2, <1>3, <1>4 DEF IInv

\* The begin of a callback or a checkpoint keeps the invariant.
LEMMA BeginIInv ==
  ASSUME NEW vm, VMThreads = {vm}, IInv, NEW t \in Threads, NEW c \in Calls,
         NEW k \in Types, NEW at \in {"new", "init_cas"}, Begin(t, c, k, at),
         at = "init_cas" => t \in VMThreads, at = "new" => armed # {}
  PROVE  IInv'
<1>. USE DEF Goto, MayEnter, library, table, locals, history, fault
<1>1. Returned \in SUBSET Calls
  BY DEF Returned
<1>2. TypeOK'
  BY <1>1 DEF IInv, TypeOK, Begin, PCs
<1>3. Progress'
  <2>1. at = "new" => Ready
    BY DEF IInv, TypeOK, Progress, Begin
  <2>2. \A u \in Threads : call[u] # c
    BY DEF IInv, Progress, Begin, Calls
  <2>. QED
    BY <2>1, <2>2, QueuedCall DEF IInv, TypeOK, Progress, Ready, Begin, PCs, InitPCs,
       WritePCs, ReadPCs, CallPCs, PastInit
<1>4. Locking'
  <2>1. \A u \in Threads : call[u] # c
    BY DEF IInv, Progress, Begin, Calls
  <2>2. \A u \in Threads : pc[u] \in CallPCs =>
          call'[u] = call[u] /\ type'[call[u]] = type[call[u]]
    BY <2>1 DEF IInv, TypeOK, Begin, CallPCs, ReadPCs
  <2>. QED
    BY <2>2, ThreadsAssumption DEF IInv, TypeOK, Progress, Locking, Begin, PCs, InitPCs,
       WritePCs, ReadPCs, CallPCs, PastInit
<1>. QED
  BY <1>2, <1>3, <1>4 DEF IInv

\* The evaluation of a message keeps the invariant.
LEMMA EvaluateIInv ==
  ASSUME NEW vm, VMThreads = {vm}, IInv, NEW v \in VMThreads, Evaluate(v)
  PROVE  IInv'
<1>. USE DEF At, library, table, locals, history, fault
<1>1. Len(queue) \in Nat /\ Len(queue) > 0 /\ Head(queue) = queue[1]
  BY DEF IInv, TypeOK, Evaluate
<1>2. Head(queue).call \in Calls
  BY <1>1, QueuedCall DEF IInv
<1>3. /\ queue' \in Seq(Messages) /\ Len(queue') = Len(queue) - 1
      /\ \A i \in 1..Len(queue') : i + 1 \in 1..Len(queue) /\ queue'[i] = queue[i + 1]
  BY <1>1 DEF IInv, TypeOK, Evaluate
<1>4. /\ fate' \in [Calls -> {"new", "open", "dropped", "lost", "posted", "evaluated"}]
      /\ \A c \in Calls : fate[c] # "new" => fate'[c] # "new"
  BY <1>2 DEF IInv, TypeOK, Evaluate
<1>5. UNCHANGED <<library, table, pc, locals, type, after, result, fault, registrations>>
  BY DEF Evaluate
<1>6. TypeOK'
  BY <1>1, <1>3, <1>4, <1>5, BoundsAssumption DEF IInv, TypeOK
<1>7. Progress'
  <2>1. \A i \in 1..Len(queue') :
          fate'[queue'[i].call] # "new" /\ type[queue'[i].call] \in Types
    BY <1>3, <1>4, QueuedCall DEF IInv, Progress
  <2>. QED
    BY <1>4, <1>5, <2>1 DEF IInv, TypeOK, Progress, Ready
<1>8. Locking'
  BY <1>5 DEF IInv, Locking
<1>. QED
  BY <1>6, <1>7, <1>8 DEF IInv

\* The initial state satisfies the invariant.
LEMMA InitIInv == Init => IInv
<1>. SUFFICES ASSUME Init PROVE IInv
  OBVIOUS
<1>1. \A k \in Types : InitialTarget(k) \in Objects \X Objects
  BY TargetsAssumption DEF InitialTarget
<1>2. NoRequest \in (Types \cup {"none", "invalid"}) \X (Objects \X Objects)
  BY TargetsAssumption DEF NoRequest
<1>3. <<Zero, Zero>> \in Objects \X Objects
  BY TargetsAssumption
<1>4. queue = <<>> /\ queue \in Seq(Messages) /\ Len(queue) = 0
  BY DEF Init
<1>5. TypeOK
  <2>1. receiver \in [Types -> Objects] /\ selector \in [Types -> Objects]
    BY <1>1 DEF Init
  <2>2. registered \in [Types -> SUBSET (Objects \X Objects)]
    BY <1>1 DEF Init
  <2>3. request \in [Threads -> (Types \cup {"none", "invalid"}) \X (Objects \X Objects)]
    BY <1>2 DEF Init
  <2>4. target \in [Threads -> Objects \X Objects]
    BY <1>3 DEF Init
  <2>. QED
    BY <1>4, <2>1, <2>2, <2>3, <2>4, BoundsAssumption DEF Init, TypeOK, PCs
<1>6. Progress
  BY <1>4 DEF Init, Progress, PCs, InitPCs, WritePCs, ReadPCs, CallPCs, PastInit
<1>7. Locking
  <2>1. \A k \in Types : <<receiver[k], selector[k]>> \in registered[k]
    BY <1>1 DEF Init
  <2>. QED
    BY <2>1 DEF Init, Locking, PCs, InitPCs, WritePCs, ReadPCs, CallPCs, PastInit
<1>. QED
  BY <1>5, <1>6, <1>7 DEF IInv

\* The invariant is inductive.
LEMMA NextIInv ==
  ASSUME NEW vm, VMThreads = {vm}, IInv, [Next]_vars
  PROVE  IInv'
<1>1. CASE \E t \in Threads : Step(t)
  <2>1. PICK t \in Threads : Step(t)
    BY <1>1
  <2>2. CASE InitCas(t)
    BY <2>2, InitCasIInv
  <2>3. CASE InitInfo(t)
    BY <2>3, InitInfoIInv
  <2>4. CASE InitLock(t)
    BY <2>4, InitLockIInv
  <2>5. CASE ShutdownInfo(t)
    BY <2>5, ShutdownInfoIInv
  <2>6. CASE SetLock(t)
    BY <2>6, SetLockIInv
  <2>7. CASE SetReceiver(t)
    BY <2>7, SetReceiverIInv
  <2>8. CASE SetSelector(t)
    BY <2>8, SetSelectorIInv
  <2>9. CASE SetUnlock(t)
    BY <2>9, SetUnlockIInv
  <2>10. CASE NewInit(t)
    BY <2>10, NewInitIInv
  <2>11. CASE Send(t)
    BY <2>11, SendIInv
  <2>12. CASE GetLock(t)
    BY <2>12, GetLockIInv
  <2>13. CASE GetReceiver(t)
    BY <2>13, GetReceiverIInv
  <2>14. CASE GetSelector(t)
    BY <2>14, GetSelectorIInv
  <2>15. CASE GetUnlock(t)
    BY <2>15, GetUnlockIInv
  <2>16. CASE Post(t)
    BY <2>16, PostIInv
  <2>17. CASE FreeMessage(t)
    BY <2>17, FreeMessageIInv
  <2>18. CASE Refuse(t)
    BY <2>18, RefuseIInv
  <2>. QED
    BY <2>1, <2>2, <2>3, <2>4, <2>5, <2>6, <2>7, <2>8, <2>9, <2>10, <2>11, <2>12, <2>13,
       <2>14, <2>15, <2>16, <2>17, <2>18
    DEF Step
<1>2. CASE \E p \in PahoThreads, c \in Calls, k \in Types : Callback(p, c, k)
  <2>1. PICK p \in PahoThreads, c \in Calls, k \in Types : Callback(p, c, k)
    BY <1>2
  <2>2. p \in Threads /\ armed # {} /\ Begin(p, c, k, "new")
    BY <2>1 DEF Callback, Threads
  <2>. QED
    BY <2>2, BeginIInv
<1>3. CASE \E v \in VMThreads, k \in Types, pair \in Targets : Register(v, k, pair)
  BY <1>3, RegisterIInv, TargetsAssumption
<1>4. CASE \E v \in VMThreads, c \in Calls : Checkpoint(v, c)
  <2>1. PICK v \in VMThreads, c \in Calls : Checkpoint(v, c)
    BY <1>4
  <2>2. v \in Threads /\ "checkpoint" \in Types /\ Begin(v, c, "checkpoint", "init_cas")
    BY <2>1 DEF Checkpoint, Threads
  <2>. QED
    BY <2>2, BeginIInv
<1>5. CASE \E v \in VMThreads : Shutdown(v)
  BY <1>5, ShutdownIInv
<1>6. CASE \E v \in VMThreads : Evaluate(v)
  BY <1>6, EvaluateIInv
<1>7. CASE UNCHANGED vars
  BY <1>7 DEF IInv, TypeOK, Progress, Locking, Ready, vars, library, table,
             locals, history, fault
<1>8. CASE \E v \in VMThreads : BadCall(v)
  BY <1>8, RegisterIInv, TargetsAssumption DEF BadCall
<1>. QED
  BY <1>1, <1>2, <1>3, <1>4, <1>5, <1>6, <1>7, <1>8 DEF Next

\* The invariant holds in every state of a library with one VM thread.
LEMMA Invariant ==
  ASSUME NEW vm, VMThreads = {vm}
  PROVE  Spec => []IInv
<1>1. IInv /\ [Next]_vars => IInv'
  BY NextIInv
<1>. QED
  BY InitIInv, <1>1, PTL DEF Spec

\* Every variable keeps its type, whatever the threads do; in particular the
\* VM's queue never holds more than it can.
THEOREM TypeCorrect ==
  ASSUME NEW vm, VMThreads = {vm}
  PROVE  Spec => []TypeOK
<1>1. IInv => TypeOK
  BY DEF IInv
<1>. QED
  BY Invariant, <1>1, PTL

\* A step leaves the queue alone unless it posts or evaluates, and never takes a
\* pair from the history of the table or changes the type of a call that began.
LEMMA StepFrame ==
  ASSUME IInv, [Next]_vars
  PROVE  /\ \/ UNCHANGED queue
            \/ \E t \in Threads : Post(t)
            \/ \E v \in VMThreads : Evaluate(v)
         /\ \A k \in Types : registered[k] \subseteq registered'[k]
         /\ \A c \in Calls : fate[c] # "new" => type'[c] = type[c]
<1>. USE DEF library, table, locals, history, fault
<1>1. ASSUME NEW t \in Threads, Step(t), ~Post(t), ~SetUnlock(t)
      PROVE  UNCHANGED <<queue, registered, type>>
  BY <1>1 DEF Step, InitCas, InitInfo, InitLock, ShutdownInfo, SetLock, SetReceiver,
     SetSelector, Refuse, NewInit, Send, GetLock, GetReceiver, GetSelector, GetUnlock, FreeMessage
<1>2. ASSUME NEW t \in Threads, SetUnlock(t)
      PROVE  /\ UNCHANGED <<queue, type>>
             /\ \A k \in Types : registered[k] \subseteq registered'[k]
  BY <1>2 DEF IInv, TypeOK, SetUnlock
<1>3. ASSUME NEW t \in Threads, Post(t)
      PROVE  UNCHANGED <<registered, type>>
  BY <1>3 DEF Post
<1>4. ASSUME NEW t, NEW c \in Calls, NEW k, NEW at, Begin(t, c, k, at)
      PROVE  /\ UNCHANGED <<queue, registered>>
             /\ \A d \in Calls : fate[d] # "new" => type'[d] = type[d]
  BY <1>4 DEF IInv, TypeOK, Begin
<1>5. ASSUME NEW v \in VMThreads, Evaluate(v)
      PROVE  UNCHANGED <<registered, type>>
  BY <1>5 DEF Evaluate
<1>6. ASSUME NEW v \in VMThreads, Shutdown(v)
      PROVE  UNCHANGED <<queue, registered, type>>
  BY <1>6 DEF Shutdown
<1>7. ASSUME NEW v, NEW k, NEW pair, Register(v, k, pair)
      PROVE  UNCHANGED <<queue, registered, type>>
  BY <1>7 DEF Register
<1>8. CASE UNCHANGED vars
  BY <1>8 DEF vars
<1>9. CASE \E t \in Threads : Step(t)
  BY <1>1, <1>2, <1>3, <1>9
<1>10. CASE \E p \in PahoThreads, c \in Calls, k \in Types : Callback(p, c, k)
  BY <1>4, <1>10 DEF Callback
<1>11. CASE \E v \in VMThreads, c \in Calls : Checkpoint(v, c)
  BY <1>4, <1>11 DEF Checkpoint
<1>. QED
  BY <1>5, <1>6, <1>7, <1>8, <1>9, <1>10, <1>11 DEF Next, BadCall

\* A step that posts, posts to the target of one registration: the readers and
\* the writer of the table exclude one another.
LEMMA PostedTarget ==
  ASSUME IInv, NoTornTarget, [Next]_vars
  PROVE  NoTornTarget'
<1>1. \A i \in 1..Len(queue) : queue[i].target \in registered'[type'[queue[i].call]]
  <2>1. \A i \in 1..Len(queue) : /\ queue[i].call \in Calls
                                  /\ fate[queue[i].call] # "new"
                                  /\ type[queue[i].call] \in Types
    BY QueuedCall DEF IInv, Progress
  <2>. QED
    BY <2>1, StepFrame DEF NoTornTarget
<1>2. CASE UNCHANGED queue
  BY <1>1, <1>2 DEF NoTornTarget
<1>3. CASE \E v \in VMThreads : Evaluate(v)
  <2>1. queue' = Tail(queue) /\ queue # <<>> /\ queue \in Seq(Messages)
    BY <1>3 DEF Evaluate, IInv, TypeOK
  <2>2. \A i \in 1..Len(queue') : i + 1 \in 1..Len(queue) /\ queue'[i] = queue[i + 1]
    BY <2>1
  <2>. QED
    BY <1>1, <2>2 DEF NoTornTarget
<1>4. CASE \E t \in Threads : Post(t) /\ queue' # queue
  <2>1. PICK t \in Threads : Post(t) /\ queue' # queue
    BY <1>4
  <2>2. /\ call[t] \in Calls /\ type[call[t]] \in Types
        /\ target[t] \in registered[type[call[t]]]
    BY <2>1 DEF IInv, TypeOK, Progress, Locking, Post, At, CallPCs
  <2>. PICK args \in Arguments(t) : queue' = Append(queue, Message(t, args))
    BY <2>1 DEF Post
  <2>. DEFINE m == Message(t, args)
  <2>3. m.call = call[t] /\ m.target = target[t]
    BY <2>2, PostedMessage DEF IInv
  <2>4. queue' = Append(queue, m)
    OBVIOUS
  <2>. HIDE DEF m
  <2>5. /\ Len(queue') = Len(queue) + 1 /\ Len(queue) \in Nat
        /\ \A i \in 1..Len(queue) : queue'[i] = queue[i]
        /\ queue'[Len(queue) + 1] = m
    BY <2>4 DEF IInv, TypeOK
  <2>6. UNCHANGED <<registered, type>>
    BY <2>1 DEF Post, table, history
  <2>7. queue'[Len(queue) + 1].target \in registered'[type'[queue'[Len(queue) + 1].call]]
    BY <2>2, <2>3, <2>5, <2>6
  <2>. QED
    BY <1>1, <2>5, <2>7 DEF NoTornTarget
<1>. QED
  BY <1>2, <1>3, <1>4, StepFrame

\* Every message goes to a receiver and a selector that one registration stored
\* together, for any number of callbacks during any registrations.
THEOREM TargetsAreWhole ==
  ASSUME NEW vm, VMThreads = {vm}
  PROVE  Spec => []NoTornTarget
<1>1. Init => NoTornTarget
  BY DEF Init, NoTornTarget
<1>2. IInv /\ NoTornTarget /\ [Next]_vars => NoTornTarget'
  BY PostedTarget
<1>. QED
  BY Invariant, <1>1, <1>2, PTL DEF Spec

\* The arguments of a queued message are what the handler of its type made of
\* the arguments of its call, if it goes to a target.
Handled == \A i \in 1..Len(queue) : HasTarget(queue[i].target) =>
             queue[i].args = handler(type[queue[i].call], HeapAddress[queue[i].call])

\* A step that posts, posts what the handler makes.
LEMMA PostedArguments ==
  ASSUME IInv, Handled, [Next]_vars
  PROVE  Handled'
<1>1. \A i \in 1..Len(queue) : type'[queue[i].call] = type[queue[i].call]
  BY QueuedCall, StepFrame DEF IInv, Progress
<1>2. CASE UNCHANGED queue
  BY <1>1, <1>2 DEF Handled
<1>3. CASE \E v \in VMThreads : Evaluate(v)
  <2>1. queue' = Tail(queue) /\ queue # <<>> /\ queue \in Seq(Messages)
    BY <1>3 DEF Evaluate, IInv, TypeOK
  <2>2. \A i \in 1..Len(queue') : i + 1 \in 1..Len(queue) /\ queue'[i] = queue[i + 1]
    BY <2>1
  <2>. QED
    BY <1>1, <2>2 DEF Handled
<1>4. CASE \E t \in Threads : Post(t) /\ queue' # queue
  <2>1. PICK t \in Threads : Post(t) /\ queue' # queue
    BY <1>4
  <2>2. call[t] \in Calls /\ type[call[t]] \in Types
    BY <2>1 DEF IInv, TypeOK, Progress, Post, At, CallPCs
  <2>. PICK args \in Arguments(t) : queue' = Append(queue, Message(t, args))
    BY <2>1 DEF Post
  <2>. DEFINE m == Message(t, args)
  <2>3. HasTarget(m.target) => m.args = handler(type[m.call], HeapAddress[m.call])
    BY <2>2, PostedMessage DEF IInv
  <2>4. queue' = Append(queue, m)
    OBVIOUS
  <2>. HIDE DEF m
  <2>5. /\ Len(queue') = Len(queue) + 1 /\ Len(queue) \in Nat
        /\ \A i \in 1..Len(queue) : queue'[i] = queue[i]
        /\ queue'[Len(queue) + 1] = m
    BY <2>4 DEF IInv, TypeOK
  <2>6. type' = type
    BY <2>1 DEF Post, history
  <2>. QED
    BY <1>1, <2>3, <2>5, <2>6 DEF Handled
<1>. QED
  BY <1>2, <1>3, <1>4, StepFrame

\* Every pointer that waits for Smalltalk, of any callback type, is a heap copy
\* and its address survives the split into two immediates.
THEOREM PointersAreCopies ==
  ASSUME NEW vm, VMThreads = {vm}
  PROVE  Spec => []PointersSurvive
<1>1. Init => Handled
  BY DEF Init, Handled
<1>2. IInv /\ Handled /\ [Next]_vars => Handled'
  BY PostedArguments
<1>3. IInv /\ Handled => PointersSurvive
  <2>. SUFFICES ASSUME IInv, Handled, NEW i \in 1..Len(queue), HasTarget(queue[i].target),
                       NEW n \in DOMAIN queue[i].args, queue[i].args[n].part = "high"
                PROVE  PointerArrives(type[queue[i].call], HeapAddress[queue[i].call],
                                      queue[i].args, n)
    BY DEF PointersSurvive
  <2>1. queue[i].call \in Calls /\ type[queue[i].call] \in CallbackTypes
    BY QueuedCall, TypesAssumption DEF IInv, Progress
  <2>2. queue[i].args = handler(type[queue[i].call], HeapAddress[queue[i].call])
    BY DEF Handled
  <2>3. HeapAddress[queue[i].call] \in Nat /\ Fits(HeapAddress[queue[i].call] + 10)
    BY <2>1, AddressAssumption
  <2>. QED
    BY <2>1, <2>2, <2>3, PointersArrive
<1>. QED
  BY Invariant, <1>1, <1>2, <1>3, PTL DEF Spec

\* Every handler but that of disconnected posts the arguments of the callback, and
\* they wait for Smalltalk so, for callbacks of all types in any mixture.
THEOREM ArgumentsArrive ==
  ASSUME NEW vm, VMThreads = {vm}
  PROVE  Spec => []ArgumentsIntact
<1>1. Init => Handled
  BY DEF Init, Handled
<1>2. IInv /\ Handled /\ [Next]_vars => Handled'
  BY PostedArguments
<1>3. HandlersPostSignatures
  BY HandlersPost DEF HandlersPostSignatures
<1>4. IInv /\ Handled => ArgumentsIntact
  <2>. SUFFICES ASSUME IInv, Handled, NEW i \in 1..Len(queue),
                       type[queue[i].call] # "disconnected", HasTarget(queue[i].target)
                PROVE  Names(queue[i].args) = Expected(type[queue[i].call])
    BY <1>3 DEF ArgumentsIntact
  <2>1. type[queue[i].call] \in CallbackTypes
    BY TypesAssumption DEF IInv, Progress
  <2>2. queue[i].args = handler(type[queue[i].call], HeapAddress[queue[i].call])
    BY DEF Handled
  <2>. QED
    BY <2>1, <2>2, HandlersPost
<1>. QED
  BY Invariant, <1>1, <1>2, <1>4, PTL DEF Spec

=============================================================================
