------------------------ MODULE EsMqttAsyncArguments ------------------------
(***************************************************************************)
(* The memory behind the arguments of a callback: EsMqttAsyncArguments.c,  *)
(* EsWorkTask.c, and the allocations of EsMqttAsyncMessages.c.             *)
(*                                                                         *)
(* The arguments are copied twice, first into the message (all but the     *)
(* topic) and then for the post.  The blocks of a call have names: those   *)
(* Paho passes, the message and its task, the first copy and the second    *)
(* copies.  A step is what a call does between two points where Smalltalk  *)
(* or Paho can see it; Smalltalk may have evaluated a message and freed    *)
(* its arguments before the callback that posted it returns.               *)
(*                                                                         *)
(* The disconnected callback is left out (it copies its context), locks    *)
(* and order are in EsMqttAsyncMessages.  External: Paho, which takes its  *)
(* memory back when a callback returns, except a message that was          *)
(* answered 1, and Smalltalk, which frees what it was posted.              *)
(***************************************************************************)
EXTENDS Integers, Sequences

CONSTANTS
  Calls,     \* the callbacks and checkpoints there are
  Kinds,     \* their types
  Texts      \* strings as Paho holds them: bytes up to the last, a "0"

PahoBlocks == {"string", "topic", "message", "payload", "properties", "list"}
Copies     == {"copy", "topicCopy"}
Names      == PahoBlocks \cup Copies \cup {"asyncMessage", "task", "first"}
TextNames  == {"string", "first", "copy", "topic", "topicCopy"}

VoidKinds == {"trace", "connectionLost", "deliveryComplete", "published"}

ASSUME KindsAssumption == Kinds \subseteq VoidKinds \cup {"messageArrived", "checkpoint"}
ASSUME TextsAssumption ==
  \A s \in Texts : s \in Seq({"x", "y", "0"}) /\ s # <<>> /\ s[Len(s)] = "0"

VARIABLES
  kind,      \* the type of each call
  given,     \* the pointers of each call that are not NULL
  pc,        \* where each call is
  heap,      \* each call's blocks: "none", "live" or "freed"
  text,      \* the bytes of its strings
  task,      \* the EsWorkTask of each call
  answer,    \* what each call answered
  posted,    \* the messages in the VM's queue
  held,      \* the messages whose arguments Smalltalk holds
  lost,      \* history: the calls whose post was refused
  misused,   \* history: <<call, block>> used or freed when not live
  process    \* "running" or "aborted"

call    == <<kind, given>>
outside == <<posted, held>>
vars    == <<call, pc, heap, text, task, answer, outside, lost, misused, process>>

-----------------------------------------------------------------------------
(* Strings                                                                 *)

strlen(s) ==
  CHOOSE n \in 0..Len(s) :
    /\ n < Len(s) => s[n + 1] = "0"
    /\ \A i \in 1..n : s[i] # "0"

EsCopyString(s) == SubSeq(s, 1, strlen(s)) \o <<"0">>

\* What Paho passes as topicLen: 0, or the length if there are nulls inside.
topicLen(s) == IF strlen(s) = Len(s) - 1 THEN 0 ELSE Len(s) - 1

\* Mutant: the length is taken as it is.
CopyTopicOfLen(s, len) ==
  [i \in 1..(len + 1) |-> IF i > len THEN "?" ELSE IF i > strlen(s) THEN "0" ELSE s[i]]

\* strncpy stops at a null, fills up with nulls, and writes no terminator: the
\* last byte of the block is as the allocator left it.
EsCopyTopicString(s, len) ==
  LET actualLen == IF len = 0 THEN strlen(s) ELSE len IN
  [i \in 1..(actualLen + 1) |->
     IF i > actualLen THEN "?" ELSE IF i > strlen(s) THEN "0" ELSE s[i]]

-----------------------------------------------------------------------------
(* Tasks                                                                   *)

\* calloc: all the fields are NULL.
EsWorkTask_new ==
  [props |-> "null", freeUserDataFunc |-> "null", runFunc |-> "null",
   userData |-> "null"]

EsWorkTask_setRunFunc(t, f)          == [t EXCEPT !.runFunc = f]
EsWorkTask_setFreeUserDataFunc(t, f) == [t EXCEPT !.freeUserDataFunc = f]
EsWorkTask_setUserData(t, d)         == [t EXCEPT !.userData = d]

\* Mutant: the function and its argument change places.
TaskSwapsArguments(f, d) ==
  EsWorkTask_setUserData(EsWorkTask_setRunFunc(EsWorkTask_new, d), f)

EsWorkTask_newInit(f, d) ==
  EsWorkTask_setUserData(EsWorkTask_setRunFunc(EsWorkTask_new, f), d)

\* What EsWorkTask_free frees besides the task and its properties.
EsWorkTask_free(t) == IF t.freeUserDataFunc # "null" THEN {t.userData} ELSE {}

-----------------------------------------------------------------------------
(* Calls                                                                   *)

\* The pointers Paho may pass to a callback of type k, with what is behind
\* them.  A cause may be NULL, and so may the properties and their list.
MayPass(k) ==
  CASE k \in {"trace", "connectionLost"} -> {{}, {"string"}}
    [] k = "messageArrived" -> {{"topic", "message", "payload"}}
    [] k = "published" -> {{}, {"properties"}, {"properties", "list"}}
    [] OTHER -> {{}}

\* The argument that newInit copies, if it is not NULL.
Pointer(c) == given[c] \cap {"string", "message", "properties"}

Init ==
  /\ kind = [c \in Calls |-> "none"]
  /\ given = [c \in Calls |-> {}]
  /\ pc = [c \in Calls |-> "idle"]
  /\ heap = [c \in Calls |-> [n \in Names |-> "none"]]
  /\ text = [c \in Calls |-> [n \in TextNames |-> <<>>]]
  /\ task = [c \in Calls |-> EsWorkTask_new]
  /\ answer = [c \in Calls |-> "none"]
  /\ posted = <<>> /\ held = {}
  /\ lost = {} /\ misused = {}
  /\ process = "running"

At(c, at)   == process = "running" /\ pc[c] = at
Goto(c, to) == pc' = [pc EXCEPT ![c] = to]

Live(c)          == {n \in Names : heap[c][n] = "live"}
With(c, ns, st)  == [heap EXCEPT ![c] = [n \in Names |-> IF n \in ns THEN st ELSE @[n]]]

\* A step that uses the blocks ns of call c.
Uses(c, ns) ==
  LET bad == {<<c, n>> : n \in ns \ Live(c)} IN
  /\ misused' = misused \cup bad
  /\ process' \in IF bad = {} THEN {process} ELSE {"running", "aborted"}

\* A copy that finds no memory is written to all the same, at address NULL.
Aborts ==
  /\ process' = "aborted"
  /\ UNCHANGED <<call, pc, heap, text, task, answer, outside, lost, misused>>

Begin(c, k, ps, s) ==
  /\ At(c, "idle")
  /\ kind' = [kind EXCEPT ![c] = k]
  /\ given' = [given EXCEPT ![c] = ps]
  /\ heap' = With(c, ps, "live")
  /\ text' = [text EXCEPT ![c] = [n \in TextNames |-> IF n \in ps THEN s ELSE <<>>]]
  /\ Goto(c, "new")
  /\ UNCHANGED <<task, answer, outside, lost, misused, process>>

\* Back to Paho, or on to the free of a checkpoint's message.
Return(c, a) ==
  /\ answer' = [answer EXCEPT ![c] = a]
  /\ Goto(c, IF kind[c] = "checkpoint" THEN "free" ELSE "returned")

\* No memory for the message: a checkpoint sends it all the same.
NewFails(c) ==
  /\ At(c, "new")
  /\ IF kind[c] = "checkpoint"
     THEN Goto(c, "send") /\ UNCHANGED answer
     ELSE Return(c, "0")
  /\ UNCHANGED <<call, heap, text, task, outside, lost, misused, process>>

\* The message and the first copy.
NewInit(c) ==
  /\ At(c, "new")
  /\ \/ /\ Uses(c, given[c] \ {"topic", "list"})
        /\ heap' = With(c, {"asyncMessage"} \cup IF Pointer(c) # {} THEN {"first"} ELSE {},
                        "live")
        /\ text' = IF "string" \in given[c]
                   THEN [text EXCEPT ![c]["first"] = EsCopyString(text[c]["string"])]
                   ELSE text
        /\ Goto(c, "send")
        /\ UNCHANGED <<call, task, answer, outside, lost>>
     \/ Pointer(c) # {} /\ Aborts

\* The task; without memory for it nobody frees the message.
Send(c) ==
  /\ At(c, "send")
  /\ \/ /\ Return(c, "0")
        /\ UNCHANGED <<heap, task>>
     \/ /\ heap' = With(c, {"task"}, "live")
        /\ task' = [task EXCEPT ![c] =
                      EsWorkTask_newInit("submitToAsyncQueue",
                        IF "asyncMessage" \in Live(c) THEN "asyncMessage" ELSE "null")]
        /\ Goto(c, "run")
        /\ UNCHANGED answer
  /\ UNCHANGED <<call, text, outside, lost, misused, process>>

\* EsWorkTask_run runs submitToAsyncQueue, which has nothing to do for NULL.
Run(c) ==
  /\ At(c, "run")
  /\ IF task[c].runFunc # "null" /\ task[c].userData # "null"
     THEN Goto(c, "find") /\ UNCHANGED answer
     ELSE Return(c, "1")
  /\ UNCHANGED <<call, heap, text, task, outside, lost, misused, process>>

\* There is a target, or the message and the task are freed and it goes on.
Find(c) ==
  /\ At(c, "find")
  /\ \/ UNCHANGED heap
     \/ heap' = With(c, {"asyncMessage", "task"} \cup EsWorkTask_free(task[c]), "freed")
  /\ Goto(c, "handle")
  /\ UNCHANGED <<call, text, task, answer, outside, lost, misused, process>>

\* The handler reads the message and makes the second copies, of the first copy
\* and of the topic that Paho passed.  A copied message has the payload of the
\* original; copied properties have its list.
Handle(c) ==
  /\ At(c, "handle")
  /\ \/ /\ Uses(c, {"asyncMessage"}
                   \cup (IF Pointer(c) # {} THEN {"first"} ELSE {})
                   \cup (given[c] \cap {"payload", "topic"}))
        /\ heap' = With(c, (IF Pointer(c) # {} THEN {"copy"} ELSE {})
                           \cup (IF "topic" \in given[c] THEN {"topicCopy"} ELSE {}), "live")
        /\ text' = [text EXCEPT
             ![c]["copy"] = IF "string" \in given[c]
                            THEN EsCopyString(text[c]["first"]) ELSE <<>>,
             ![c]["topicCopy"] = IF "topic" \in given[c]
               THEN EsCopyTopicString(text[c]["topic"], topicLen(text[c]["topic"]))
               ELSE <<>>]
        /\ Goto(c, "post")
        /\ UNCHANGED <<call, task, answer, outside, lost>>
     \/ Pointer(c) # {} /\ Aborts

\* Mutant: the answer of the post is handed on to Paho the wrong way round.
PostAnswersInverted(c) ==
  /\ At(c, "post")
  /\ \/ posted' = Append(posted, c) /\ UNCHANGED lost /\ Return(c, "0")
     \/ lost' = lost \cup {c} /\ UNCHANGED posted /\ Return(c, "1")
  /\ UNCHANGED <<call, heap, text, task, held, misused, process>>

\* The post may be refused; the answer is 1 all the same.
Post(c) ==
  /\ At(c, "post")
  /\ \/ posted' = Append(posted, c) /\ UNCHANGED lost
     \/ lost' = lost \cup {c} /\ UNCHANGED posted
  /\ Return(c, "1")
  /\ UNCHANGED <<call, heap, text, task, held, misused, process>>

\* Mutant: the checkpoint forgets to free its message.
FreeForgotten(c) ==
  /\ At(c, "free")
  /\ Goto(c, "returned")
  /\ UNCHANGED <<call, heap, text, task, answer, outside, lost, misused, process>>

\* The checkpoint frees its message, if it has one.
FreeMessage(c) ==
  /\ At(c, "free")
  /\ IF heap[c]["asyncMessage"] = "none"
     THEN UNCHANGED <<heap, misused, process>>
     ELSE Uses(c, {"asyncMessage"}) /\ heap' = With(c, {"asyncMessage"}, "freed")
  /\ Goto(c, "returned")
  /\ UNCHANGED <<call, text, task, answer, outside, lost>>

-----------------------------------------------------------------------------
(* Paho and Smalltalk                                                      *)

\* A message answered 1 belongs to the application, all else to Paho again.
TakeBack(c) ==
  /\ At(c, "returned")
  /\ LET ps == IF kind[c] = "messageArrived" /\ answer[c] = "1" THEN {} ELSE given[c] IN
     Uses(c, ps) /\ heap' = With(c, ps, "freed")
  /\ Goto(c, "over")
  /\ UNCHANGED <<call, text, task, answer, outside, lost>>

Evaluate ==
  /\ process = "running"
  /\ posted # <<>>
  /\ posted' = Tail(posted)
  /\ held' = held \cup {Head(posted)}
  /\ UNCHANGED <<call, pc, heap, text, task, answer, lost, misused, process>>

\* What is reached from the arguments of call c: the copies, and what a copied
\* message or property set points to.
Reached(c) ==
  (IF Pointer(c) # {} THEN {"copy"} ELSE {})
  \cup (IF "topic" \in given[c] THEN {"topicCopy"} ELSE {})
  \cup (given[c] \cap {"payload", "list"})

\* Smalltalk frees a message it owns with MQTTClient_freeMessage, which frees the
\* payload first.
MQTTMessage_nativeFree(c) == {"copy"} \cup (given[c] \cap {"payload"})

\* And properties with MQTTProperties_free, which frees the list, then basicFree.
MQTTProperties_nativeFree(c) == {"copy"} \cup (given[c] \cap {"list"})

\* Mutant: a message or property set was posted as it was passed.
OwnedWithoutCopy(c) ==
  (IF "string" \in given[c] THEN {"copy"} ELSE {})
  \cup (IF "topic" \in given[c] THEN {"topicCopy"} ELSE {})
  \cup (given[c] \cap {"payload", "list", "message", "properties"})

\* What Smalltalk owns of a posted message: texts, and structures with what is in
\* them.  (EsMqttAsyncArguments.h:18 speaks of EsFreeMemory for all, which would
\* leave the payload.)
Owned(c) ==
  (IF "string" \in given[c] THEN {"copy"} ELSE {})
  \cup (IF "topic" \in given[c] THEN {"topicCopy"} ELSE {})
  \cup (IF "message" \in given[c] THEN MQTTMessage_nativeFree(c) ELSE {})
  \cup (IF "properties" \in given[c] THEN MQTTProperties_nativeFree(c) ELSE {})

Release(c) ==
  /\ process = "running"
  /\ c \in held
  /\ held' = held \ {c}
  /\ Uses(c, Owned(c))
  /\ heap' = With(c, Owned(c), "freed")
  /\ UNCHANGED <<call, pc, text, task, answer, posted, lost>>

Next ==
  \/ \E c \in Calls :
       \/ \E k \in Kinds, s \in Texts : \E ps \in MayPass(k) : Begin(c, k, ps, s)
       \/ NewFails(c) \/ NewInit(c) \/ Send(c) \/ Run(c) \/ Find(c)
       \/ Handle(c) \/ Post(c) \/ FreeMessage(c) \/ TakeBack(c) \/ Release(c)
  \/ Evaluate

Spec == Init /\ [][Next]_vars

-----------------------------------------------------------------------------
(* Properties                                                              *)

\* The type invariant.
TypeOK ==
  /\ kind \in [Calls -> Kinds \cup {"none"}]
  /\ given \in [Calls -> SUBSET PahoBlocks]
  /\ pc \in [Calls -> {"idle", "new", "send", "run", "find", "handle", "post",
                       "free", "returned", "over"}]
  /\ heap \in [Calls -> [Names -> {"none", "live", "freed"}]]
  /\ text \in [Calls -> [TextNames -> Seq({"x", "y", "0", "?"})]]
  /\ task \in [Calls -> [props : {"null"}, freeUserDataFunc : {"null"},
                         runFunc : {"null", "submitToAsyncQueue"},
                         userData : {"null", "asyncMessage"}]]
  /\ answer \in [Calls -> {"none", "0", "1"}]
  /\ posted \in Seq(Calls) /\ held \subseteq Calls
  /\ lost \subseteq Calls
  /\ misused \subseteq Calls \X Names
  /\ process \in {"running", "aborted"}

Waiting == held \cup {posted[i] : i \in 1..Len(posted)}

-----------------------------------------------------------------------------
(* What every state satisfies; with TypeOK, these are together inductive.  *)

AfterPCs == {"free", "returned", "over"}

\* A message waits once; a post is accepted or refused, and answered 1.
PostedOnce ==
  /\ \A i \in 1..Len(posted) : posted[i] \notin held
  /\ \A i, j \in 1..Len(posted) : posted[i] = posted[j] => i = j
  /\ \A c \in Waiting \cup lost : pc[c] \in AfterPCs /\ answer[c] = "1"
  /\ \A c \in lost : c \notin Waiting

\* What Paho passes to a callback of each type.
Passed(c) ==
  IF pc[c] = "idle" THEN given[c] = {}
                    ELSE kind[c] \in Kinds /\ given[c] \in MayPass(kind[c])

\* The message, with the first copy, and which call may lack one.
MessageMade(c) ==
  LET made == heap[c]["asyncMessage"] # "none" IN
  /\ pc[c] \in {"idle", "new"} => ~made
  /\ pc[c] \in {"find", "handle", "post"} \/ c \in Waiting => made
  /\ pc[c] \in {"send", "run"} => made \/ kind[c] = "checkpoint"
  /\ pc[c] = "send" => heap[c]["asyncMessage"] # "freed"
  /\ pc[c] = "run" => task[c].runFunc = "submitToAsyncQueue"
                      /\ (task[c].userData # "null" <=> made)
  /\ task[c].userData # "null" => made
  /\ pc[c] = "free" => kind[c] = "checkpoint"
  /\ pc[c] \in {"returned", "over"} /\ kind[c] = "checkpoint" =>
       heap[c]["asyncMessage"] # "live"
  /\ heap[c]["first"] = "live" <=> made /\ Pointer(c) # {}

\* Which blocks a call has, and which of them are Paho's again.
BlocksKept(c) ==
  /\ Live(c) \subseteq given[c] \cup Copies \cup {"asyncMessage", "task", "first"}
  /\ Copies \cap Live(c) \subseteq Reached(c)
  /\ pc[c] # "over" => given[c] \ {"payload", "list"} \subseteq Live(c)
  /\ pc[c] # "over" /\ answer[c] # "1" => given[c] \cap {"payload"} \subseteq Live(c)
  /\ answer[c] = "none" <=> pc[c] \notin AfterPCs
  /\ pc[c] = "over" /\ ~(kind[c] = "messageArrived" /\ answer[c] = "1") =>
       given[c] \cap Live(c) = {}

\* The copies live from the handler to the release, as does the payload.
CopiesKept(c) ==
  /\ pc[c] = "post" \/ c \in Waiting => Reached(c) \ {"list"} \subseteq Live(c)
  /\ pc[c] \notin AfterPCs \cup {"post"} => Copies \cap Live(c) = {}
  /\ pc[c] \in AfterPCs /\ c \notin Waiting \cup lost =>
       /\ Copies \cap Live(c) = {}
       /\ answer[c] = "1" => "payload" \notin Live(c)

\* What was copied is what was passed.
TextsKept(c) ==
  LET t == text[c] IN
  /\ "string" \in given[c] => t["string"] \in Texts
  /\ "topic" \in given[c] => t["topic"] \in Texts
  /\ "string" \in given[c] /\ heap[c]["asyncMessage"] # "none" =>
       t["first"] = EsCopyString(t["string"])
  /\ pc[c] = "post" \/ c \in Waiting =>
       /\ "string" \in given[c] => t["copy"] = EsCopyString(t["first"])
       /\ "topic" \in given[c] =>
            t["topicCopy"] = EsCopyTopicString(t["topic"], topicLen(t["topic"]))

Kept(c) == Passed(c) /\ MessageMade(c) /\ BlocksKept(c) /\ CopiesKept(c) /\ TextsKept(c)

EachCall == \A c \in Calls : Kept(c)

-----------------------------------------------------------------------------
(* What may become of the text s that Paho passes in the copy d.           *)

\* There is a null before the end.
NullInside(s) == strlen(s) < Len(s) - 1

\* The first n bytes are the same.
SameUpTo(s, d, n) == Len(d) >= n /\ \A i \in 1..n : d[i] = s[i]

\* All of it up to the end, and the end.
ArrivesWhole(s, d) == Len(d) = strlen(s) + 1 /\ SameUpTo(s, d, Len(d))

\* All of it, but no end in the block: one byte of it was never written.
ArrivesWithoutEnd(s, d) ==
  /\ SameUpTo(s, d, Len(s) - 1)
  /\ Len(d) = Len(s) /\ strlen(d) = Len(d)

\* What is before the first null; nulls where the rest should be.
ArrivesCut(s, d) ==
  /\ SameUpTo(s, d, strlen(s))
  /\ Len(d) = Len(s) /\ strlen(d) = strlen(s)
  /\ \A i \in (strlen(s) + 1)..(Len(s) - 1) : d[i] = "0"

-----------------------------------------------------------------------------
\* "Copies of the data must be made" because messages are received later
\* (EsMqttAsyncArguments.h:12-15): what Smalltalk reaches from a message that
\* waits or is held is alive, whether the callback has returned or not.  The
\* payload is Paho's own and lives on only because the callback answers 1.  (The
\* list of a property set is apart: it is not copied, EsMqttAsyncArguments.c:49,
\* and Paho frees it when the callback returns.)
ArgumentsLiveOn ==
  \A c \in Waiting : Reached(c) \ {"list"} \subseteq Live(c)

\* Each block has one side that frees it: no payload, string, topic or copy is
\* freed by Smalltalk and by Paho or the task, or used after it was freed, also
\* when Smalltalk frees it before the callback returns.
FreedByOneSide ==
  \A m \in misused : m[2] \in {"asyncMessage", "list"}

\* What a call leaves when it and its message are over is bounded: the message,
\* the task and the first copy; the task alone after a checkpoint; and what was
\* to be posted if the post was refused.  Nothing posted is left.
LeavesOnly ==
  \A c \in Calls : pc[c] = "over" /\ c \notin Waiting =>
    Live(c) \subseteq
      {"task"}
      \cup (IF kind[c] = "checkpoint" THEN {} ELSE {"asyncMessage", "first"})
      \cup (IF kind[c] = "messageArrived" /\ answer[c] = "1"
            THEN {"topic", "message"} ELSE {})
      \cup (IF c \in lost THEN Copies \cup {"payload"} ELSE {})

\* What arrives of a text.  A string arrives whole, with its end, through two
\* copies.  A topic does not, although EsMqttAsyncArguments.h:58-65 promises "a
\* heap-allocated copy of the topic string": without a null inside it has all its
\* bytes but no end, so that a reader without its length goes on past the block;
\* with a null inside there is room for all of it, but strncpy stops at the null,
\* the rest reads as nulls, and so does the length.
TextsArrive ==
  \A c \in Waiting :
    LET t == text[c] IN
    /\ "string" \in given[c] => ArrivesWhole(t["string"], t["copy"])
    /\ "topic" \in given[c]  =>
         IF NullInside(t["topic"]) THEN ArrivesCut(t["topic"], t["topicCopy"])
                                   ELSE ArrivesWithoutEnd(t["topic"], t["topicCopy"])
=============================================================================
