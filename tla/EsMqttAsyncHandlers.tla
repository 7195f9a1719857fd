------------------------ MODULE EsMqttAsyncHandlers ------------------------
(***************************************************************************)
(* What the arguments of a callback go through on their way into Smalltalk *)
(* (EsMqttCallbacks.c, EsMqttAsyncMessages.c): the callback passes them to *)
(* a variadic function, which stores them in a message, copying some; the  *)
(* handler of the type copies some again and posts them as immediates.     *)
(*                                                                         *)
(* An argument is a 64-bit slot: what it is, how many of its bits are      *)
(* left, whose memory it points to and at what address, which is 0 for     *)
(* whatever is not a copy.  A pointer may be NULL; its copy is then NULL   *)
(* too, which is left to EsMqttAsyncArguments.  base is where the copies   *)
(* of a call are allocated: the handler's at base + 1 up to base + 5, by   *)
(* the position of the argument, and newInit's five further up.            *)
(***************************************************************************)
EXTENDS Integers, Sequences, HiLow

CallbackTypes == {"trace", "connectionLost", "disconnected", "messageArrived",
                  "deliveryComplete", "published", "checkpoint"}

\* The arguments of a callback of type k, in the order of its prototype.
Signature(k) ==
  CASE k = "trace"            -> <<"level", "string">>
    [] k = "connectionLost"   -> <<"context", "cause">>
    [] k = "disconnected"     -> <<"context", "properties", "reasonCode">>
    [] k = "messageArrived"   -> <<"context", "topicName", "topicLen", "message">>
    [] k = "deliveryComplete" -> <<"context", "token">>
    [] k = "published"        -> <<"context", "token", "packetType",
                                   "properties", "reasonCode">>
    [] k = "checkpoint"       -> <<"id">>

Pointers == {"string", "cause", "properties", "topicName", "message"}

\* An argument as Paho passes it.
Arg(is) == [is |-> is, bits |-> IF is \in Pointers \cup {"context"} THEN 64 ELSE 32,
            owner |-> "paho", at |-> 0]

-----------------------------------------------------------------------------
(* The callbacks, and the primitive for the last: what each passes on      *)

traceCallback ==
  [argCount |-> 2, list |-> <<Arg("level"), Arg("string")>>]
connectionLostCallback ==
  [argCount |-> 2, list |-> <<Arg("context"), Arg("cause")>>]
\* The context is passed twice, and counted once.
disconnectedCallback ==
  [argCount |-> 3, list |-> <<Arg("context"), Arg("context"), Arg("properties"),
                              Arg("reasonCode")>>]
messageArrivedCallback ==
  [argCount |-> 4, list |-> <<Arg("context"), Arg("topicName"), Arg("topicLen"),
                              Arg("message")>>]
deliveryCompleteCallback ==
  [argCount |-> 2, list |-> <<Arg("context"), Arg("token")>>]
publishedCallback ==
  [argCount |-> 5, list |-> <<Arg("context"), Arg("token"), Arg("packetType"),
                              Arg("properties"), Arg("reasonCode")>>]
EsMqttVastCheckpoint ==
  [argCount |-> 1, list |-> <<Arg("id")>>]

Passed(k) ==
  CASE k = "trace"            -> traceCallback
    [] k = "connectionLost"   -> connectionLostCallback
    [] k = "disconnected"     -> disconnectedCallback
    [] k = "messageArrived"   -> messageArrivedCallback
    [] k = "deliveryComplete" -> deliveryCompleteCallback
    [] k = "published"        -> publishedCallback
    [] k = "checkpoint"       -> EsMqttVastCheckpoint

-----------------------------------------------------------------------------
(* EsMqttAsyncMessage_newInit                                              *)

\* A slot read or stored as an I_32, an enumeration or a token keeps its low
\* half.  One read as a pointer keeps what it has.
AsI32(w) == [w EXCEPT !.bits = 32]

\* A heap copy of what a slot points to, when the slot is such a pointer still.
Copy(w, pointers, at) ==
  [is    |-> IF w.is \in pointers /\ w.bits = 64 THEN w.is ELSE "undefined",
   bits  |-> 64, owner |-> "heap", at |-> at]
EsCopyString(w, at)     == Copy(w, {"string", "cause", "topicName"}, at)
EsCopyProperties(w, at) == Copy(w, {"properties"}, at)
EsCopyMessage(w, at)    == Copy(w, {"message"}, at)
EsCopyTopicString(w, len, at) ==
  Copy(w, IF len.is = "topicLen" THEN {"topicName"} ELSE {}, at)

NULL == <<>>

\* The arguments stored in the message, or no message for a wrong argCount.
newInit(k, base) ==
  LET arg   == Passed(k).list
      count == Passed(k).argCount
      at(i) == base + 5 + i
  IN CASE k = "trace" /\ count = 2 ->
            <<AsI32(arg[1]), EsCopyString(arg[2], at(2))>>
       [] k = "connectionLost" /\ count = 2 ->
            <<AsI32(arg[1]), EsCopyString(arg[2], at(2))>>
       [] k = "disconnected" /\ count = 3 ->
            <<arg[1], EsCopyProperties(arg[2], at(2)), AsI32(arg[3])>>
       [] k = "messageArrived" /\ count = 4 ->
            <<arg[1], arg[2], AsI32(arg[3]), EsCopyMessage(arg[4], at(4))>>
       [] k = "deliveryComplete" /\ count = 2 ->
            <<arg[1], AsI32(arg[2])>>
       [] k = "published" /\ count = 5 ->
            <<arg[1], AsI32(arg[2]), AsI32(arg[3]), EsCopyProperties(arg[4], at(4)),
              AsI32(arg[5])>>
       [] k = "checkpoint" /\ count = 1 -> <<AsI32(arg[1])>>
       [] OTHER -> NULL

-----------------------------------------------------------------------------
(* The handlers: what each posts for the arguments of a message            *)

\* An integer, or the low word of something longer.
Immediate(w) == [is |-> w.is, part |-> "low", owner |-> "nobody",
                 object |-> EsI32ToSmallInteger(w.at)]

\* The two parts of a pointer.
Part(w, part, object) ==
  [is |-> IF w.bits = 64 THEN w.is ELSE "undefined", part |-> part, owner |-> w.owner,
   object |-> object]
HighOf(w) == Part(w, "high", Immediates(w.at).high)
LowOf(w)  == Part(w, "low", Immediates(w.at).low)

\* The queue takes argCount arguments, whatever was passed.
EsMqttPostAsyncMessage(argCount, objects) ==
  [n \in 1..argCount |->
     IF n <= Len(objects) THEN objects[n]
     ELSE [is |-> "undefined", part |-> "low", owner |-> "nobody", object |-> 1]]

traceHandler(args, base) ==
  LET traceStrCopy == EsCopyString(args[2], base + 2) IN
  EsMqttPostAsyncMessage(3,
    <<Immediate(AsI32(args[1])), HighOf(traceStrCopy), LowOf(traceStrCopy)>>)

connectionLostHandler(args, base) ==
  LET causeCopy == EsCopyString(args[2], base + 2) IN
  EsMqttPostAsyncMessage(3, <<Immediate(args[1]), HighOf(causeCopy), LowOf(causeCopy)>>)

disconnectedHandler(args, base) ==
  LET propertiesCopy == EsCopyProperties(args[2], base + 2) IN
  EsMqttPostAsyncMessage(4,
    <<Immediate(args[1]), HighOf(propertiesCopy), LowOf(propertiesCopy), Immediate(AsI32(args[3]))>>)

\* Mutant: the topic name is posted as Paho gave it, like newInit captured it.
TopicNotCopied(args, base) ==
  LET clientMessageCopy == EsCopyMessage(args[4], base + 4) IN
  EsMqttPostAsyncMessage(6,
    <<Immediate(args[1]), HighOf(args[2]), LowOf(args[2]), Immediate(AsI32(args[3])),
      HighOf(clientMessageCopy), LowOf(clientMessageCopy)>>)

messageArrivedHandler(args, base) ==
  LET clientMessageCopy == EsCopyMessage(args[4], base + 4)
      topicNameCopy     == EsCopyTopicString(args[2], args[3], base + 2)
  IN EsMqttPostAsyncMessage(6,
       <<Immediate(args[1]), HighOf(topicNameCopy), LowOf(topicNameCopy), Immediate(AsI32(args[3])),
         HighOf(clientMessageCopy), LowOf(clientMessageCopy)>>)

deliveryCompleteHandler(args, base) ==
  EsMqttPostAsyncMessage(2, <<Immediate(args[1]), Immediate(AsI32(args[2]))>>)

\* Mutant: the parts of the properties change places.
PropertiesLowFirst(args, base) ==
  LET propertiesCopy == EsCopyProperties(args[4], base + 4) IN
  EsMqttPostAsyncMessage(6,
    <<Immediate(args[1]), Immediate(AsI32(args[2])), Immediate(AsI32(args[3])), LowOf(propertiesCopy),
      HighOf(propertiesCopy), Immediate(AsI32(args[5]))>>)

publishedHandler(args, base) ==
  LET propertiesCopy == EsCopyProperties(args[4], base + 4) IN
  EsMqttPostAsyncMessage(6,
    <<Immediate(args[1]), Immediate(AsI32(args[2])), Immediate(AsI32(args[3])), HighOf(propertiesCopy),
      LowOf(propertiesCopy), Immediate(AsI32(args[5]))>>)

checkpointHandler(args, base) ==
  EsMqttPostAsyncMessage(1, <<Immediate(AsI32(args[1]))>>)

\* What the handler of its type posts for a message of a call of type k.
handler(k, base) ==
  LET args == newInit(k, base) IN
  CASE k = "trace"            -> traceHandler(args, base)
    [] k = "connectionLost"   -> connectionLostHandler(args, base)
    [] k = "disconnected"     -> disconnectedHandler(args, base)
    [] k = "messageArrived"   -> messageArrivedHandler(args, base)
    [] k = "deliveryComplete" -> deliveryCompleteHandler(args, base)
    [] k = "published"        -> publishedHandler(args, base)
    [] k = "checkpoint"       -> checkpointHandler(args, base)

-----------------------------------------------------------------------------
(* What Smalltalk is to get                                                *)

\* Each argument as one immediate, a pointer as its high and its low part.
Parts(is) ==
  IF is \in Pointers
  THEN <<[is |-> is, part |-> "high"], [is |-> is, part |-> "low"]>>
  ELSE <<[is |-> is, part |-> "low"]>>

PartsOf(k, i) == IF i \in DOMAIN Signature(k) THEN Parts(Signature(k)[i]) ELSE <<>>

\* No callback has more than five arguments.
Expected(k) ==
  PartsOf(k, 1) \o PartsOf(k, 2) \o PartsOf(k, 3) \o PartsOf(k, 4) \o PartsOf(k, 5)

Names(objects) ==
  [n \in DOMAIN objects |-> [is |-> objects[n].is, part |-> objects[n].part]]

\* The high part at n and the low part after it are of one heap copy that was made
\* of a pointer of the call, and joined they are its address.
PointerArrives(k, base, objects, n) ==
  /\ n + 1 \in DOMAIN objects /\ objects[n + 1].part = "low"
  /\ objects[n].owner = "heap" /\ objects[n + 1].owner = "heap"
  /\ \E m \in DOMAIN Signature(k) :
       /\ Signature(k)[m] \in Pointers
       /\ Join([high |-> objects[n].object, low |-> objects[n + 1].object]) = base + m
=============================================================================
