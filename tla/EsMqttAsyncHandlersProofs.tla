--------------------- MODULE EsMqttAsyncHandlersProofs ---------------------
(***************************************************************************)
(* An address survives the split into two SmallIntegers, for every width   *)
(* of the halves, and the handler of each callback type posts the          *)
(* arguments of the callback.                                              *)
(***************************************************************************)
EXTENDS EsMqttAsyncHandlers, TLAPS

\* Division leaves a quotient and a remainder.
LEMMA Division ==
  ASSUME NEW u \in Nat, NEW d \in Nat \ {0}
  PROVE  /\ u \div d \in Nat
         /\ u % d \in 0..(d - 1)
         /\ u = d * (u \div d) + (u % d)
  OBVIOUS

\* The quotient of a number below d * d is below d.
LEMMA QuotientBound ==
  ASSUME NEW u \in Nat, NEW d \in Nat \ {0}, u < d * d
  PROVE  u \div d < d
<1>1. /\ u \div d \in Nat
      /\ u % d \in 0..(d - 1)
      /\ u = d * (u \div d) + (u % d)
  BY Division
<1>2. SUFFICES ASSUME u \div d >= d PROVE FALSE
  BY <1>1
<1>3. d * (u \div d) >= d * d
  BY <1>1, <1>2
<1>. QED
  BY <1>1, <1>3

\* A remainder by d of a number below d is the number.
LEMMA SmallRemainder ==
  ASSUME NEW q \in Nat, NEW d \in Nat \ {0}, q < d
  PROVE  q % d = q
  OBVIOUS

\* An integer without a sign that fits a SmallInteger comes back from it.
THEOREM ImmediateRoundTrip ==
  ASSUME NEW v \in 0..(Half - 1)
  PROVE  EsSmallIntegerToI32(EsI32ToSmallInteger(v)) = v
<1>1. Half \in Nat \ {0} /\ Word = 2 * Half /\ Word \in Nat \ {0}
  BY HalfAssumption DEF Word
<1>2. v % Word = v /\ (v * 2) % Word = v * 2
  BY <1>1, SmallRemainder
<1>3. (v * 2 + 1) % Word = v * 2 + 1
  BY <1>1, SmallRemainder
<1>4. (v * 2 + 1) \div 2 = v
  OBVIOUS
<1>. QED
  BY <1>2, <1>3, <1>4 DEF EsI32ToSmallInteger, EsSmallIntegerToI32

\* The remainders of n and of 2 * n + 1, of any sign.
LEMMA OddRemainder ==
  ASSUME NEW n \in Int
  PROVE  /\ n % Half \in 0..(Half - 1)
         /\ (n * 2 + 1) % Word = (n % Half) * 2 + 1
<1>. DEFINE q == n \div Half  r == n % Half
<1>1. Half \in Nat \ {0} /\ Word = 2 * Half
  BY HalfAssumption DEF Word
<1>2. q \in Int /\ r \in 0..(Half - 1) /\ n = Half * q + r
  BY <1>1
<1>. HIDE DEF q, r
<1>3. n * 2 + 1 = Word * q + (r * 2 + 1) /\ r * 2 + 1 \in 0..(Word - 1)
  <2>1. Word * q = 2 * (Half * q)
    BY <1>1, <1>2
  <2>2. Half * q \in Int
    BY <1>1, <1>2
  <2>. QED
    BY <1>1, <1>2, <2>1, <2>2
<1>4. (n * 2 + 1) % Word = r * 2 + 1
  <2>1. \A m, x \in Int, w \in Nat \ {0} : \A y \in 0..(w - 1) :
          m = w * x + y => m % w = y
    OBVIOUS
  <2>2. Word \in Nat \ {0} /\ n * 2 + 1 \in Int
    BY <1>1
  <2>. QED
    BY <1>2, <1>3, <2>1, <2>2
<1>. QED
  BY <1>2, <1>4 DEF r

\* A SmallInteger of any sign and size that is taken out and put back, as the id of
\* a checkpoint is, has the low word it had.
THEOREM CheckpointIdReturns ==
  ASSUME NEW n \in Int
  PROVE  EsI32ToSmallInteger(EsSmallIntegerToI32(n * 2 + 1)) = (n * 2 + 1) % Word
<1>. DEFINE r == n % Half
<1>1. r \in 0..(Half - 1) /\ (n * 2 + 1) % Word = r * 2 + 1
  BY OddRemainder
<1>. HIDE DEF r
<1>2. (r * 2 + 1) \div 2 = r
  BY <1>1
<1>3. EsSmallIntegerToI32(n * 2 + 1) = r
  BY <1>1, <1>2 DEF EsSmallIntegerToI32
<1>4. Half \in Nat \ {0} /\ Word = 2 * Half /\ Word \in Nat \ {0}
  BY HalfAssumption DEF Word
<1>5. r % Word = r /\ (r * 2) % Word = r * 2
  BY <1>1, <1>4, SmallRemainder
<1>. QED
  BY <1>1, <1>3, <1>5 DEF EsI32ToSmallInteger

\* Smalltalk joins the immediates of every address that fits (every address of a
\* process) to the address that the handler split.
THEOREM RoundTrip ==
  ASSUME NEW u \in Nat, Fits(u)
  PROVE  Join(Immediates(u)) = u
<1>1. Half \in Nat \ {0}
  BY HalfAssumption
<1>2. /\ u \div Half \in Nat
      /\ u % Half \in 0..(Half - 1)
      /\ u = Half * (u \div Half) + (u % Half)
  BY <1>1, Division
<1>3. u \div Half < Half
  BY <1>1, QuotientBound DEF Fits
<1>4. High(u) = u \div Half
  BY <1>1, <1>2, <1>3, SmallRemainder DEF High
<1>5. High(u) \in 0..(Half - 1) /\ Low(u) \in 0..(Half - 1)
  BY <1>1, <1>2, <1>3, <1>4 DEF Low
<1>6. High(u) * Half + Low(u) = u
  BY <1>1, <1>2, <1>4 DEF Low
<1>7. /\ EsSmallIntegerToI32(Immediates(u).high) = High(u)
      /\ EsSmallIntegerToI32(Immediates(u).low) = Low(u)
  BY <1>5, ImmediateRoundTrip DEF Immediates, hiLowFromPointer
<1>. QED
  BY <1>6, <1>7 DEF Join

\* The answer of hiLowFrom64 is exact: it says that an address fits when and only
\* when two halves stand for it.
THEOREM OverflowIsReported ==
  ASSUME NEW u \in Nat
  PROVE  hiLowFrom64(u).fits <=> \E h, l \in 0..(Half - 1) : h * Half + l = u
<1>1. Half \in Nat \ {0} /\ Half * Half \in Nat
  BY HalfAssumption
<1>2. hiLowFrom64(u).fits <=> u < Half * Half
  BY DEF hiLowFrom64, Fits
<1>3. ASSUME u < Half * Half
      PROVE  \E h, l \in 0..(Half - 1) : h * Half + l = u
  <2>1. /\ u \div Half \in Nat
        /\ u % Half \in 0..(Half - 1)
        /\ u = Half * (u \div Half) + (u % Half)
    BY <1>1, Division
  <2>2. u \div Half \in 0..(Half - 1)
    BY <1>1, <1>3, <2>1, QuotientBound
  <2>3. (u \div Half) * Half + (u % Half) = u
    BY <1>1, <2>1
  <2>. QED
    BY <2>1, <2>2, <2>3
<1>4. ASSUME NEW h \in 0..(Half - 1), NEW l \in 0..(Half - 1), h * Half + l = u
      PROVE  u < Half * Half
  <2>1. h * Half <= (Half - 1) * Half
    BY <1>1
  <2>2. (Half - 1) * Half = Half * Half - Half
    BY <1>1
  <2>3. Half \in Int /\ h * Half \in Int
    BY <1>1
  <2>. QED
    BY <1>1, <1>4, <2>1, <2>2, <2>3
<1>. QED
  BY <1>2, <1>3, <1>4

-----------------------------------------------------------------------------
(* What becomes of one argument                                            *)

FromPaho(is, bits) == [is |-> is, bits |-> bits, owner |-> "paho", at |-> 0]
OnHeap(is, at)     == [is |-> is, bits |-> 64, owner |-> "heap", at |-> at]
Number(is)         == [is |-> is, part |-> "low", owner |-> "nobody",
                       object |-> EsI32ToSmallInteger(0)]
HighPart(is, at)   == [is |-> is, part |-> "high", owner |-> "heap",
                       object |-> Immediates(at).high]
LowPart(is, at)    == [is |-> is, part |-> "low", owner |-> "heap",
                       object |-> Immediates(at).low]

\* The arguments of Paho, read as integers or posted as they are.
LEMMA Numbers ==
  ASSUME NEW is, NEW bits
  PROVE  /\ AsI32(FromPaho(is, bits)) = FromPaho(is, 32)
         /\ Immediate(FromPaho(is, bits)) = Number(is)
  BY DEF AsI32, Immediate, FromPaho, Number

\* Copies of pointers that nothing was taken from, and copies of copies.
LEMMA Copies ==
  ASSUME NEW at, NEW bt
  PROVE  /\ EsCopyString(FromPaho("string", 64), at) = OnHeap("string", at)
         /\ EsCopyString(OnHeap("string", bt), at) = OnHeap("string", at)
         /\ EsCopyString(FromPaho("cause", 64), at) = OnHeap("cause", at)
         /\ EsCopyString(OnHeap("cause", bt), at) = OnHeap("cause", at)
         /\ EsCopyProperties(FromPaho("properties", 64), at) = OnHeap("properties", at)
         /\ EsCopyProperties(OnHeap("properties", bt), at) = OnHeap("properties", at)
         /\ EsCopyMessage(FromPaho("message", 64), at) = OnHeap("message", at)
         /\ EsCopyMessage(OnHeap("message", bt), at) = OnHeap("message", at)
         /\ EsCopyTopicString(FromPaho("topicName", 64), FromPaho("topicLen", 32), at)
              = OnHeap("topicName", at)
  BY DEF EsCopyString, EsCopyProperties, EsCopyMessage, EsCopyTopicString, Copy, FromPaho,
     OnHeap

\* The two parts of a copy.
LEMMA PartsOfCopy ==
  ASSUME NEW is, NEW at
  PROVE  /\ HighOf(OnHeap(is, at)) = HighPart(is, at)
         /\ LowOf(OnHeap(is, at)) = LowPart(is, at)
  BY DEF HighOf, LowOf, Part, OnHeap, HighPart, LowPart

\* The queue gets the arguments that are counted, each as it was given.
LEMMA PostOne ==
  ASSUME NEW a
  PROVE  EsMqttPostAsyncMessage(1, <<a>>) = <<a>>
  BY DEF EsMqttPostAsyncMessage

\* The same for two.
LEMMA PostTwo ==
  ASSUME NEW a, NEW b
  PROVE  EsMqttPostAsyncMessage(2, <<a, b>>) = <<a, b>>
  BY DEF EsMqttPostAsyncMessage

\* The same for three.
LEMMA PostThree ==
  ASSUME NEW a, NEW b, NEW c
  PROVE  EsMqttPostAsyncMessage(3, <<a, b, c>>) = <<a, b, c>>
  BY DEF EsMqttPostAsyncMessage

\* The same for four.
LEMMA PostFour ==
  ASSUME NEW a, NEW b, NEW c, NEW d
  PROVE  EsMqttPostAsyncMessage(4, <<a, b, c, d>>) = <<a, b, c, d>>
  BY DEF EsMqttPostAsyncMessage

\* The same for six.
LEMMA PostSix ==
  ASSUME NEW a, NEW b, NEW c, NEW d, NEW e, NEW f
  PROVE  EsMqttPostAsyncMessage(6, <<a, b, c, d, e, f>>) = <<a, b, c, d, e, f>>
  BY DEF EsMqttPostAsyncMessage

-----------------------------------------------------------------------------
(* What the handler of each type posts                                     *)

\* traceHandler.
LEMMA TracePosts ==
  ASSUME NEW base
  PROVE  handler("trace", base) =
           <<Number("level"), HighPart("string", base + 2), LowPart("string", base + 2)>>
<1>1. /\ Passed("trace") = traceCallback
      /\ traceCallback.argCount = 2
      /\ traceCallback.list[1] = FromPaho("level", 32)
      /\ traceCallback.list[2] = FromPaho("string", 64)
  BY DEF Passed, traceCallback, Arg, Pointers, FromPaho
<1>2. newInit("trace", base) =
        <<FromPaho("level", 32), OnHeap("string", base + 5 + 2)>>
  BY <1>1, Numbers, Copies DEF newInit
<1>. DEFINE args == newInit("trace", base)
<1>3. /\ args[1] = FromPaho("level", 32)
      /\ args[2] = OnHeap("string", base + 5 + 2)
  BY <1>2
<1>. HIDE DEF args
<1>4. traceHandler(args, base) =
        <<Number("level"), HighPart("string", base + 2), LowPart("string", base + 2)>>
  BY <1>3, Numbers, Copies, PartsOfCopy, PostThree DEF traceHandler
<1>5. handler("trace", base) = traceHandler(args, base)
  BY DEF handler, args
<1>. QED
  BY <1>4, <1>5

\* connectionLostHandler.
LEMMA ConnectionLostPosts ==
  ASSUME NEW base
  PROVE  handler("connectionLost", base) =
           <<Number("context"), HighPart("cause", base + 2), LowPart("cause", base + 2)>>
<1>1. /\ Passed("connectionLost") = connectionLostCallback
      /\ connectionLostCallback.argCount = 2
      /\ connectionLostCallback.list[1] = FromPaho("context", 64)
      /\ connectionLostCallback.list[2] = FromPaho("cause", 64)
  BY DEF Passed, connectionLostCallback, Arg, Pointers, FromPaho
<1>2. newInit("connectionLost", base) =
        <<FromPaho("context", 32), OnHeap("cause", base + 5 + 2)>>
  BY <1>1, Numbers, Copies DEF newInit
<1>. DEFINE args == newInit("connectionLost", base)
<1>3. /\ args[1] = FromPaho("context", 32)
      /\ args[2] = OnHeap("cause", base + 5 + 2)
  BY <1>2
<1>. HIDE DEF args
<1>4. connectionLostHandler(args, base) =
        <<Number("context"), HighPart("cause", base + 2), LowPart("cause", base + 2)>>
  BY <1>3, Numbers, Copies, PartsOfCopy, PostThree DEF connectionLostHandler
<1>5. handler("connectionLost", base) = connectionLostHandler(args, base)
  BY DEF handler, args
<1>. QED
  BY <1>4, <1>5

\* messageArrivedHandler.
LEMMA MessageArrivedPosts ==
  ASSUME NEW base
  PROVE  handler("messageArrived", base) =
           <<Number("context"), HighPart("topicName", base + 2),
             LowPart("topicName", base + 2), Number("topicLen"),
             HighPart("message", base + 4), LowPart("message", base + 4)>>
<1>1. /\ Passed("messageArrived") = messageArrivedCallback
      /\ messageArrivedCallback.argCount = 4
      /\ messageArrivedCallback.list[1] = FromPaho("context", 64)
      /\ messageArrivedCallback.list[2] = FromPaho("topicName", 64)
      /\ messageArrivedCallback.list[3] = FromPaho("topicLen", 32)
      /\ messageArrivedCallback.list[4] = FromPaho("message", 64)
  BY DEF Passed, messageArrivedCallback, Arg, Pointers, FromPaho
<1>2. newInit("messageArrived", base) =
        <<FromPaho("context", 64), FromPaho("topicName", 64), FromPaho("topicLen", 32),
          OnHeap("message", base + 5 + 4)>>
  BY <1>1, Numbers, Copies DEF newInit
<1>. DEFINE args == newInit("messageArrived", base)
<1>3. /\ args[1] = FromPaho("context", 64)
      /\ args[2] = FromPaho("topicName", 64)
      /\ args[3] = FromPaho("topicLen", 32)
      /\ args[4] = OnHeap("message", base + 5 + 4)
  BY <1>2
<1>. HIDE DEF args
<1>4. messageArrivedHandler(args, base) =
        <<Number("context"), HighPart("topicName", base + 2),
          LowPart("topicName", base + 2), Number("topicLen"),
          HighPart("message", base + 4), LowPart("message", base + 4)>>
  BY <1>3, Numbers, Copies, PartsOfCopy, PostSix DEF messageArrivedHandler
<1>5. handler("messageArrived", base) = messageArrivedHandler(args, base)
  BY DEF handler, args
<1>. QED
  BY <1>4, <1>5

\* deliveryCompleteHandler.
LEMMA DeliveryCompletePosts ==
  ASSUME NEW base
  PROVE  handler("deliveryComplete", base) =
           <<Number("context"), Number("token")>>
<1>1. /\ Passed("deliveryComplete") = deliveryCompleteCallback
      /\ deliveryCompleteCallback.argCount = 2
      /\ deliveryCompleteCallback.list[1] = FromPaho("context", 64)
      /\ deliveryCompleteCallback.list[2] = FromPaho("token", 32)
  BY DEF Passed, deliveryCompleteCallback, Arg, Pointers, FromPaho
<1>2. newInit("deliveryComplete", base) =
        <<FromPaho("context", 64), FromPaho("token", 32)>>
  BY <1>1, Numbers, Copies DEF newInit
<1>. DEFINE args == newInit("deliveryComplete", base)
<1>3. /\ args[1] = FromPaho("context", 64)
      /\ args[2] = FromPaho("token", 32)
  BY <1>2
<1>. HIDE DEF args
<1>4. deliveryCompleteHandler(args, base) =
        <<Number("context"), Number("token")>>
  BY <1>3, Numbers, Copies, PartsOfCopy, PostTwo DEF deliveryCompleteHandler
<1>5. handler("deliveryComplete", base) = deliveryCompleteHandler(args, base)
  BY DEF handler, args
<1>. QED
  BY <1>4, <1>5

\* publishedHandler.
LEMMA PublishedPosts ==
  ASSUME NEW base
  PROVE  handler("published", base) =
           <<Number("context"), Number("token"), Number("packetType"),
             HighPart("properties", base + 4), LowPart("properties", base + 4),
             Number("reasonCode")>>
<1>1. /\ Passed("published") = publishedCallback
      /\ publishedCallback.argCount = 5
      /\ publishedCallback.list[1] = FromPaho("context", 64)
      /\ publishedCallback.list[2] = FromPaho("token", 32)
      /\ publishedCallback.list[3] = FromPaho("packetType", 32)
      /\ publishedCallback.list[4] = FromPaho("properties", 64)
      /\ publishedCallback.list[5] = FromPaho("reasonCode", 32)
  BY DEF Passed, publishedCallback, Arg, Pointers, FromPaho
<1>2. newInit("published", base) =
        <<FromPaho("context", 64), FromPaho("token", 32), FromPaho("packetType", 32),
          OnHeap("properties", base + 5 + 4), FromPaho("reasonCode", 32)>>
  BY <1>1, Numbers, Copies DEF newInit
<1>. DEFINE args == newInit("published", base)
<1>3. /\ args[1] = FromPaho("context", 64)
      /\ args[2] = FromPaho("token", 32)
      /\ args[3] = FromPaho("packetType", 32)
      /\ args[4] = OnHeap("properties", base + 5 + 4)
      /\ args[5] = FromPaho("reasonCode", 32)
  BY <1>2
<1>. HIDE DEF args
<1>4. publishedHandler(args, base) =
        <<Number("context"), Number("token"), Number("packetType"),
          HighPart("properties", base + 4), LowPart("properties", base + 4),
          Number("reasonCode")>>
  BY <1>3, Numbers, Copies, PartsOfCopy, PostSix DEF publishedHandler
<1>5. handler("published", base) = publishedHandler(args, base)
  BY DEF handler, args
<1>. QED
  BY <1>4, <1>5

\* checkpointHandler.
LEMMA CheckpointPosts ==
  ASSUME NEW base
  PROVE  handler("checkpoint", base) =
           <<Number("id")>>
<1>1. /\ Passed("checkpoint") = EsMqttVastCheckpoint
      /\ EsMqttVastCheckpoint.argCount = 1
      /\ EsMqttVastCheckpoint.list[1] = FromPaho("id", 32)
  BY DEF Passed, EsMqttVastCheckpoint, Arg, Pointers, FromPaho
<1>2. newInit("checkpoint", base) =
        <<FromPaho("id", 32)>>
  BY <1>1, Numbers, Copies DEF newInit
<1>. DEFINE args == newInit("checkpoint", base)
<1>3. /\ args[1] = FromPaho("id", 32)
  BY <1>2
<1>. HIDE DEF args
<1>4. checkpointHandler(args, base) =
        <<Number("id")>>
  BY <1>3, Numbers, Copies, PartsOfCopy, PostOne DEF checkpointHandler
<1>5. handler("checkpoint", base) = checkpointHandler(args, base)
  BY DEF handler, args
<1>. QED
  BY <1>4, <1>5

\* disconnectedHandler.  Its message holds the context where the properties should
\* be, and the properties' low half where the reason code should.
LEMMA DisconnectedPosts ==
  ASSUME NEW base
  PROVE  handler("disconnected", base) =
           <<Number("context"), HighPart("undefined", base + 2),
             LowPart("undefined", base + 2), Number("properties")>>
<1>1. /\ Passed("disconnected") = disconnectedCallback
      /\ disconnectedCallback.argCount = 3
      /\ disconnectedCallback.list[1] = FromPaho("context", 64)
      /\ disconnectedCallback.list[2] = FromPaho("context", 64)
      /\ disconnectedCallback.list[3] = FromPaho("properties", 64)
  BY DEF Passed, disconnectedCallback, Arg, Pointers, FromPaho
<1>2. \A at, bt :
        /\ EsCopyProperties(FromPaho("context", 64), at) = OnHeap("undefined", at)
        /\ EsCopyProperties(OnHeap("undefined", bt), at) = OnHeap("undefined", at)
  BY DEF EsCopyProperties, Copy, FromPaho, OnHeap
<1>3. newInit("disconnected", base) =
        <<FromPaho("context", 64), OnHeap("undefined", base + 5 + 2),
          FromPaho("properties", 32)>>
  BY <1>1, <1>2, Numbers DEF newInit
<1>. DEFINE args == newInit("disconnected", base)
<1>4. /\ args[1] = FromPaho("context", 64)
      /\ args[2] = OnHeap("undefined", base + 5 + 2)
      /\ args[3] = FromPaho("properties", 32)
  BY <1>3
<1>. HIDE DEF args
<1>5. disconnectedHandler(args, base) =
        <<Number("context"), HighPart("undefined", base + 2),
          LowPart("undefined", base + 2), Number("properties")>>
  BY <1>2, <1>4, Numbers, PartsOfCopy, PostFour DEF disconnectedHandler
<1>6. handler("disconnected", base) = disconnectedHandler(args, base)
  BY DEF handler, args
<1>. QED
  BY <1>5, <1>6

-----------------------------------------------------------------------------
(* What Smalltalk is to get                                                *)

\* Two tuples one after the other, for the lengths that occur.
LEMMA Concatenation ==
  ASSUME NEW S, NEW s \in Seq(S), NEW t \in Seq(S), NEW u \in Seq(S),
         Len(u) = Len(s) + Len(t),
         \A i \in 1..Len(s) : u[i] = s[i],
         \A i \in 1..Len(t) : u[Len(s) + i] = t[i]
  PROVE  s \o t = u
  OBVIOUS

\* 1 and 1.
LEMMA Concat11 ==
  ASSUME NEW a, NEW b
  PROVE  <<a>> \o <<b>> = <<a, b>>
<1>. DEFINE S == {a, b}  s == <<a>>  t == <<b>>  u == <<a, b>>
<1>1. s \in Seq(S) /\ t \in Seq(S) /\ u \in Seq(S)
  OBVIOUS
<1>2. Len(s) = 1 /\ Len(t) = 1 /\ Len(u) = Len(s) + Len(t)
  OBVIOUS
<1>3. \A i \in 1..Len(s) : u[i] = s[i]
  OBVIOUS
<1>4. \A i \in 1..Len(t) : u[Len(s) + i] = t[i]
  OBVIOUS
<1>. HIDE DEF S, s, t, u
<1>5. s \o t = u
  BY <1>1, <1>2, <1>3, <1>4, Concatenation
<1>. QED
  BY <1>5 DEF s, t, u

\* 2 and 1.
LEMMA Concat21 ==
  ASSUME NEW a, NEW b, NEW c
  PROVE  <<a, b>> \o <<c>> = <<a, b, c>>
<1>. DEFINE S == {a, b, c}  s == <<a, b>>  t == <<c>>  u == <<a, b, c>>
<1>1. s \in Seq(S) /\ t \in Seq(S) /\ u \in Seq(S)
  OBVIOUS
<1>2. Len(s) = 2 /\ Len(t) = 1 /\ Len(u) = Len(s) + Len(t)
  OBVIOUS
<1>3. \A i \in 1..Len(s) : u[i] = s[i]
  OBVIOUS
<1>4. \A i \in 1..Len(t) : u[Len(s) + i] = t[i]
  OBVIOUS
<1>. HIDE DEF S, s, t, u
<1>5. s \o t = u
  BY <1>1, <1>2, <1>3, <1>4, Concatenation
<1>. QED
  BY <1>5 DEF s, t, u

\* 3 and 1.
LEMMA Concat31 ==
  ASSUME NEW a, NEW b, NEW c, NEW d
  PROVE  <<a, b, c>> \o <<d>> = <<a, b, c, d>>
<1>. DEFINE S == {a, b, c, d}  s == <<a, b, c>>  t == <<d>>  u == <<a, b, c, d>>
<1>1. s \in Seq(S) /\ t \in Seq(S) /\ u \in Seq(S)
  OBVIOUS
<1>2. Len(s) = 3 /\ Len(t) = 1 /\ Len(u) = Len(s) + Len(t)
  OBVIOUS
<1>3. \A i \in 1..Len(s) : u[i] = s[i]
  OBVIOUS
<1>4. \A i \in 1..Len(t) : u[Len(s) + i] = t[i]
  OBVIOUS
<1>. HIDE DEF S, s, t, u
<1>5. s \o t = u
  BY <1>1, <1>2, <1>3, <1>4, Concatenation
<1>. QED
  BY <1>5 DEF s, t, u

\* 5 and 1.
LEMMA Concat51 ==
  ASSUME NEW a, NEW b, NEW c, NEW d, NEW e, NEW f
  PROVE  <<a, b, c, d, e>> \o <<f>> = <<a, b, c, d, e, f>>
<1>. DEFINE S == {a, b, c, d, e, f}  s == <<a, b, c, d, e>>  t == <<f>>  u == <<a, b, c, d, e, f>>
<1>1. s \in Seq(S) /\ t \in Seq(S) /\ u \in Seq(S)
  OBVIOUS
<1>2. Len(s) = 5 /\ Len(t) = 1 /\ Len(u) = Len(s) + Len(t)
  OBVIOUS
<1>3. \A i \in 1..Len(s) : u[i] = s[i]
  OBVIOUS
<1>4. \A i \in 1..Len(t) : u[Len(s) + i] = t[i]
  OBVIOUS
<1>. HIDE DEF S, s, t, u
<1>5. s \o t = u
  BY <1>1, <1>2, <1>3, <1>4, Concatenation
<1>. QED
  BY <1>5 DEF s, t, u

\* 1 and 2.
LEMMA Concat12 ==
  ASSUME NEW a, NEW b, NEW c
  PROVE  <<a>> \o <<b, c>> = <<a, b, c>>
<1>. DEFINE S == {a, b, c}  s == <<a>>  t == <<b, c>>  u == <<a, b, c>>
<1>1. s \in Seq(S) /\ t \in Seq(S) /\ u \in Seq(S)
  OBVIOUS
<1>2. Len(s) = 1 /\ Len(t) = 2 /\ Len(u) = Len(s) + Len(t)
  OBVIOUS
<1>3. \A i \in 1..Len(s) : u[i] = s[i]
  OBVIOUS
<1>4. \A i \in 1..Len(t) : u[Len(s) + i] = t[i]
  OBVIOUS
<1>. HIDE DEF S, s, t, u
<1>5. s \o t = u
  BY <1>1, <1>2, <1>3, <1>4, Concatenation
<1>. QED
  BY <1>5 DEF s, t, u

\* 3 and 2.
LEMMA Concat32 ==
  ASSUME NEW a, NEW b, NEW c, NEW d, NEW e
  PROVE  <<a, b, c>> \o <<d, e>> = <<a, b, c, d, e>>
<1>. DEFINE S == {a, b, c, d, e}  s == <<a, b, c>>  t == <<d, e>>  u == <<a, b, c, d, e>>
<1>1. s \in Seq(S) /\ t \in Seq(S) /\ u \in Seq(S)
  OBVIOUS
<1>2. Len(s) = 3 /\ Len(t) = 2 /\ Len(u) = Len(s) + Len(t)
  OBVIOUS
<1>3. \A i \in 1..Len(s) : u[i] = s[i]
  OBVIOUS
<1>4. \A i \in 1..Len(t) : u[Len(s) + i] = t[i]
  OBVIOUS
<1>. HIDE DEF S, s, t, u
<1>5. s \o t = u
  BY <1>1, <1>2, <1>3, <1>4, Concatenation
<1>. QED
  BY <1>5 DEF s, t, u

\* 4 and 2.
LEMMA Concat42 ==
  ASSUME NEW a, NEW b, NEW c, NEW d, NEW e, NEW f
  PROVE  <<a, b, c, d>> \o <<e, f>> = <<a, b, c, d, e, f>>
<1>. DEFINE S == {a, b, c, d, e, f}  s == <<a, b, c, d>>  t == <<e, f>>  u == <<a, b, c, d, e, f>>
<1>1. s \in Seq(S) /\ t \in Seq(S) /\ u \in Seq(S)
  OBVIOUS
<1>2. Len(s) = 4 /\ Len(t) = 2 /\ Len(u) = Len(s) + Len(t)
  OBVIOUS
<1>3. \A i \in 1..Len(s) : u[i] = s[i]
  OBVIOUS
<1>4. \A i \in 1..Len(t) : u[Len(s) + i] = t[i]
  OBVIOUS
<1>. HIDE DEF S, s, t, u
<1>5. s \o t = u
  BY <1>1, <1>2, <1>3, <1>4, Concatenation
<1>. QED
  BY <1>5 DEF s, t, u

\* 1 and none.
LEMMA Concat10 ==
  ASSUME NEW a
  PROVE  <<a>> \o <<>> = <<a>>
  OBVIOUS

\* 2 and none.
LEMMA Concat20 ==
  ASSUME NEW a, NEW b
  PROVE  <<a, b>> \o <<>> = <<a, b>>
  OBVIOUS

\* 3 and none.
LEMMA Concat30 ==
  ASSUME NEW a, NEW b, NEW c
  PROVE  <<a, b, c>> \o <<>> = <<a, b, c>>
  OBVIOUS

\* 6 and none.
LEMMA Concat60 ==
  ASSUME NEW a, NEW b, NEW c, NEW d, NEW e, NEW f
  PROVE  <<a, b, c, d, e, f>> \o <<>> = <<a, b, c, d, e, f>>
  OBVIOUS

Lo(is)  == [is |-> is, part |-> "low"]
Hi(is) == [is |-> is, part |-> "high"]

\* The parts of the arguments of trace.
LEMMA TraceExpected ==
  Expected("trace") =
    <<Lo("level"), Hi("string"), Lo("string")>>
<1>1. /\ PartsOf("trace", 1) = <<Lo("level")>>
      /\ PartsOf("trace", 2) = <<Hi("string"), Lo("string")>>
      /\ PartsOf("trace", 3) = <<>>
      /\ PartsOf("trace", 4) = <<>>
      /\ PartsOf("trace", 5) = <<>>
  BY DEF PartsOf, Parts, Signature, Pointers, Lo, Hi
<1>2. <<Lo("level")>>
          \o <<Hi("string"), Lo("string")>>
        = <<Lo("level"), Hi("string"), Lo("string")>>
  BY Concat12
<1>3. <<Lo("level"), Hi("string"), Lo("string")>> \o <<>>
        = <<Lo("level"), Hi("string"), Lo("string")>>
  BY Concat30
<1>. QED
  BY <1>1, <1>2, <1>3 DEF Expected

\* traceHandler posts them.
LEMMA TraceNames ==
  ASSUME NEW base
  PROVE  Names(handler("trace", base)) = Expected("trace")
<1>. DEFINE posted == <<Number("level"), HighPart("string", base + 2),
                      LowPart("string", base + 2)>>
<1>1. Names(posted) =
        <<Lo("level"), Hi("string"), Lo("string")>>
  BY DEF Names, Number, HighPart, LowPart, Lo, Hi
<1>. HIDE DEF posted
<1>2. handler("trace", base) = posted
  BY TracePosts DEF posted
<1>. QED
  BY <1>1, <1>2, TraceExpected

\* The parts of the arguments of connectionLost.
LEMMA ConnectionLostExpected ==
  Expected("connectionLost") =
    <<Lo("context"), Hi("cause"), Lo("cause")>>
<1>1. /\ PartsOf("connectionLost", 1) = <<Lo("context")>>
      /\ PartsOf("connectionLost", 2) = <<Hi("cause"), Lo("cause")>>
      /\ PartsOf("connectionLost", 3) = <<>>
      /\ PartsOf("connectionLost", 4) = <<>>
      /\ PartsOf("connectionLost", 5) = <<>>
  BY DEF PartsOf, Parts, Signature, Pointers, Lo, Hi
<1>2. <<Lo("context")>>
          \o <<Hi("cause"), Lo("cause")>>
        = <<Lo("context"), Hi("cause"), Lo("cause")>>
  BY Concat12
<1>3. <<Lo("context"), Hi("cause"), Lo("cause")>> \o <<>>
        = <<Lo("context"), Hi("cause"), Lo("cause")>>
  BY Concat30
<1>. QED
  BY <1>1, <1>2, <1>3 DEF Expected

\* connectionLostHandler posts them.
LEMMA ConnectionLostNames ==
  ASSUME NEW base
  PROVE  Names(handler("connectionLost", base)) = Expected("connectionLost")
<1>. DEFINE posted == <<Number("context"), HighPart("cause", base + 2),
                      LowPart("cause", base + 2)>>
<1>1. Names(posted) =
        <<Lo("context"), Hi("cause"), Lo("cause")>>
  BY DEF Names, Number, HighPart, LowPart, Lo, Hi
<1>. HIDE DEF posted
<1>2. handler("connectionLost", base) = posted
  BY ConnectionLostPosts DEF posted
<1>. QED
  BY <1>1, <1>2, ConnectionLostExpected

\* The parts of the arguments of messageArrived.
LEMMA MessageArrivedExpected ==
  Expected("messageArrived") =
    <<Lo("context"), Hi("topicName"), Lo("topicName"), Lo("topicLen"), Hi("message"),
      Lo("message")>>
<1>1. /\ PartsOf("messageArrived", 1) = <<Lo("context")>>
      /\ PartsOf("messageArrived", 2) = <<Hi("topicName"), Lo("topicName")>>
      /\ PartsOf("messageArrived", 3) = <<Lo("topicLen")>>
      /\ PartsOf("messageArrived", 4) = <<Hi("message"), Lo("message")>>
      /\ PartsOf("messageArrived", 5) = <<>>
  BY DEF PartsOf, Parts, Signature, Pointers, Lo, Hi
<1>2. <<Lo("context")>>
          \o <<Hi("topicName"), Lo("topicName")>>
        = <<Lo("context"), Hi("topicName"), Lo("topicName")>>
  BY Concat12
<1>3. <<Lo("context"), Hi("topicName"), Lo("topicName")>>
          \o <<Lo("topicLen")>>
        = <<Lo("context"), Hi("topicName"), Lo("topicName"), Lo("topicLen")>>
  BY Concat31
<1>4. <<Lo("context"), Hi("topicName"), Lo("topicName"), Lo("topicLen")>>
          \o <<Hi("message"), Lo("message")>>
        = <<Lo("context"), Hi("topicName"), Lo("topicName"), Lo("topicLen"), Hi("message"),
          Lo("message")>>
  BY Concat42
<1>5. <<Lo("context"), Hi("topicName"), Lo("topicName"), Lo("topicLen"), Hi("message"),
       Lo("message")>> \o <<>>
        = <<Lo("context"), Hi("topicName"), Lo("topicName"), Lo("topicLen"),
            Hi("message"), Lo("message")>>
  BY Concat60
<1>. QED
  BY <1>1, <1>2, <1>3, <1>4, <1>5 DEF Expected

\* messageArrivedHandler posts them.
LEMMA MessageArrivedNames ==
  ASSUME NEW base
  PROVE  Names(handler("messageArrived", base)) = Expected("messageArrived")
<1>. DEFINE posted == <<Number("context"), HighPart("topicName", base + 2),
                      LowPart("topicName", base + 2), Number("topicLen"),
                      HighPart("message", base + 4), LowPart("message", base + 4)>>
<1>1. Names(posted) =
        <<Lo("context"), Hi("topicName"), Lo("topicName"), Lo("topicLen"), Hi("message"),
          Lo("message")>>
  BY DEF Names, Number, HighPart, LowPart, Lo, Hi
<1>. HIDE DEF posted
<1>2. handler("messageArrived", base) = posted
  BY MessageArrivedPosts DEF posted
<1>. QED
  BY <1>1, <1>2, MessageArrivedExpected

\* The parts of the arguments of deliveryComplete.
LEMMA DeliveryCompleteExpected ==
  Expected("deliveryComplete") =
    <<Lo("context"), Lo("token")>>
<1>1. /\ PartsOf("deliveryComplete", 1) = <<Lo("context")>>
      /\ PartsOf("deliveryComplete", 2) = <<Lo("token")>>
      /\ PartsOf("deliveryComplete", 3) = <<>>
      /\ PartsOf("deliveryComplete", 4) = <<>>
      /\ PartsOf("deliveryComplete", 5) = <<>>
  BY DEF PartsOf, Parts, Signature, Pointers, Lo, Hi
<1>2. <<Lo("context")>>
          \o <<Lo("token")>>
        = <<Lo("context"), Lo("token")>>
  BY Concat11
<1>3. <<Lo("context"), Lo("token")>> \o <<>>
        = <<Lo("context"), Lo("token")>>
  BY Concat20
<1>. QED
  BY <1>1, <1>2, <1>3 DEF Expected

\* deliveryCompleteHandler posts them.
LEMMA DeliveryCompleteNames ==
  ASSUME NEW base
  PROVE  Names(handler("deliveryComplete", base)) = Expected("deliveryComplete")
<1>. DEFINE posted == <<Number("context"), Number("token")>>
<1>1. Names(posted) =
        <<Lo("context"), Lo("token")>>
  BY DEF Names, Number, HighPart, LowPart, Lo, Hi
<1>. HIDE DEF posted
<1>2. handler("deliveryComplete", base) = posted
  BY DeliveryCompletePosts DEF posted
<1>. QED
  BY <1>1, <1>2, DeliveryCompleteExpected

\* The parts of the arguments of published.
LEMMA PublishedExpected ==
  Expected("published") =
    <<Lo("context"), Lo("token"), Lo("packetType"), Hi("properties"), Lo("properties"),
      Lo("reasonCode")>>
<1>1. /\ PartsOf("published", 1) = <<Lo("context")>>
      /\ PartsOf("published", 2) = <<Lo("token")>>
      /\ PartsOf("published", 3) = <<Lo("packetType")>>
      /\ PartsOf("published", 4) = <<Hi("properties"), Lo("properties")>>
      /\ PartsOf("published", 5) = <<Lo("reasonCode")>>
  BY DEF PartsOf, Parts, Signature, Pointers, Lo, Hi
<1>2. <<Lo("context")>>
          \o <<Lo("token")>>
        = <<Lo("context"), Lo("token")>>
  BY Concat11
<1>3. <<Lo("context"), Lo("token")>>
          \o <<Lo("packetType")>>
        = <<Lo("context"), Lo("token"), Lo("packetType")>>
  BY Concat21
<1>4. <<Lo("context"), Lo("token"), Lo("packetType")>>
          \o <<Hi("properties"), Lo("properties")>>
        = <<Lo("context"), Lo("token"), Lo("packetType"), Hi("properties"),
          Lo("properties")>>
  BY Concat32
<1>5. <<Lo("context"), Lo("token"), Lo("packetType"), Hi("properties"), Lo("properties")>>
          \o <<Lo("reasonCode")>>
        = <<Lo("context"), Lo("token"), Lo("packetType"), Hi("properties"),
          Lo("properties"), Lo("reasonCode")>>
  BY Concat51
<1>. QED
  BY <1>1, <1>2, <1>3, <1>4, <1>5 DEF Expected

\* publishedHandler posts them.
LEMMA PublishedNames ==
  ASSUME NEW base
  PROVE  Names(handler("published", base)) = Expected("published")
<1>. DEFINE posted == <<Number("context"), Number("token"), Number("packetType"),
                      HighPart("properties", base + 4), LowPart("properties", base + 4),
                      Number("reasonCode")>>
<1>1. Names(posted) =
        <<Lo("context"), Lo("token"), Lo("packetType"), Hi("properties"),
          Lo("properties"), Lo("reasonCode")>>
  BY DEF Names, Number, HighPart, LowPart, Lo, Hi
<1>. HIDE DEF posted
<1>2. handler("published", base) = posted
  BY PublishedPosts DEF posted
<1>. QED
  BY <1>1, <1>2, PublishedExpected

\* The parts of the arguments of checkpoint.
LEMMA CheckpointExpected ==
  Expected("checkpoint") =
    <<Lo("id")>>
<1>1. /\ PartsOf("checkpoint", 1) = <<Lo("id")>>
      /\ PartsOf("checkpoint", 2) = <<>>
      /\ PartsOf("checkpoint", 3) = <<>>
      /\ PartsOf("checkpoint", 4) = <<>>
      /\ PartsOf("checkpoint", 5) = <<>>
  BY DEF PartsOf, Parts, Signature, Pointers, Lo, Hi
<1>2. <<Lo("id")>> \o <<>>
        = <<Lo("id")>>
  BY Concat10
<1>. QED
  BY <1>1, <1>2 DEF Expected

\* checkpointHandler posts them.
LEMMA CheckpointNames ==
  ASSUME NEW base
  PROVE  Names(handler("checkpoint", base)) = Expected("checkpoint")
<1>. DEFINE posted == <<Number("id")>>
<1>1. Names(posted) =
        <<Lo("id")>>
  BY DEF Names, Number, HighPart, LowPart, Lo, Hi
<1>. HIDE DEF posted
<1>2. handler("checkpoint", base) = posted
  BY CheckpointPosts DEF posted
<1>. QED
  BY <1>1, <1>2, CheckpointExpected

\* The handler of every type but disconnected posts each argument of the callback,
\* in the order of its prototype, and a pointer as its high and its low part.
THEOREM HandlersPost ==
  ASSUME NEW k \in CallbackTypes \ {"disconnected"}, NEW base
  PROVE  Names(handler(k, base)) = Expected(k)
  BY TraceNames, ConnectionLostNames, MessageArrivedNames, DeliveryCompleteNames,
     PublishedNames, CheckpointNames DEF CallbackTypes

-----------------------------------------------------------------------------
(* Where the pointers come from                                            *)

\* The parts of an address join to it.
LEMMA PartsJoin ==
  ASSUME NEW is, NEW at \in Nat, Fits(at)
  PROVE  Join([high |-> HighPart(is, at).object, low |-> LowPart(is, at).object]) = at
<1>1. Join(Immediates(at)) = at
  BY RoundTrip
<1>. QED
  BY <1>1 DEF Join, HighPart, LowPart

\* The addresses next to the base fit when the last of them does.
LEMMA NearBase ==
  ASSUME NEW base \in Nat, Fits(base + 10), NEW m \in 1..5
  PROVE  base + m \in Nat /\ Fits(base + m)
<1>1. Half * Half \in Nat
  BY HalfAssumption
<1>. QED
  BY <1>1 DEF Fits

\* A pointer that was posted in two parts.
LEMMA TwoParts ==
  ASSUME NEW k, NEW base \in Nat, Fits(base + 10), NEW objects, NEW n, NEW is, NEW m \in 1..5,
         n + 1 \in DOMAIN objects,
         objects[n] = HighPart(is, base + m), objects[n + 1] = LowPart(is, base + m),
         m \in DOMAIN Signature(k), Signature(k)[m] \in Pointers
  PROVE  PointerArrives(k, base, objects, n)
<1>1. base + m \in Nat /\ Fits(base + m)
  BY NearBase
<1>2. Join([high |-> objects[n].object, low |-> objects[n + 1].object]) = base + m
  BY <1>1, PartsJoin
<1>3. objects[n].owner = "heap" /\ objects[n + 1].owner = "heap" /\ objects[n + 1].part = "low"
  BY DEF HighPart, LowPart
<1>. QED
  BY <1>2, <1>3 DEF PointerArrives

\* The pointers of traceHandler.
LEMMA TracePointers ==
  ASSUME NEW base \in Nat, Fits(base + 10), NEW n \in DOMAIN handler("trace", base),
         handler("trace", base)[n].part = "high"
  PROVE  PointerArrives("trace", base, handler("trace", base), n)
<1>. DEFINE objects == handler("trace", base)
<1>1. /\ DOMAIN objects = 1..3
      /\ objects[1] = Number("level")
      /\ objects[2] = HighPart("string", base + 2)
      /\ objects[3] = LowPart("string", base + 2)
  BY TracePosts
<1>. HIDE DEF objects
<1>2. n = 2
  BY <1>1 DEF objects, Number, LowPart
<1>3. /\ 2 \in DOMAIN Signature("trace") /\ Signature("trace")[2] \in Pointers
      /\ 2 \in 1..5
  BY DEF Signature, Pointers
<1>4. PointerArrives("trace", base, objects, n)
  <2>1. /\ n + 1 \in DOMAIN objects
        /\ objects[n] = HighPart("string", base + 2)
        /\ objects[n + 1] = LowPart("string", base + 2)
    BY <1>1, <1>2
  <2>. QED
    BY <1>3, <2>1, TwoParts
<1>. QED
  BY <1>4 DEF objects

\* The pointers of connectionLostHandler.
LEMMA ConnectionLostPointers ==
  ASSUME NEW base \in Nat, Fits(base + 10), NEW n \in DOMAIN handler("connectionLost", base),
         handler("connectionLost", base)[n].part = "high"
  PROVE  PointerArrives("connectionLost", base, handler("connectionLost", base), n)
<1>. DEFINE objects == handler("connectionLost", base)
<1>1. /\ DOMAIN objects = 1..3
      /\ objects[1] = Number("context")
      /\ objects[2] = HighPart("cause", base + 2)
      /\ objects[3] = LowPart("cause", base + 2)
  BY ConnectionLostPosts
<1>. HIDE DEF objects
<1>2. n = 2
  BY <1>1 DEF objects, Number, LowPart
<1>3. /\ 2 \in DOMAIN Signature("connectionLost") /\ Signature("connectionLost")[2] \in Pointers
      /\ 2 \in 1..5
  BY DEF Signature, Pointers
<1>4. PointerArrives("connectionLost", base, objects, n)
  <2>1. /\ n + 1 \in DOMAIN objects
        /\ objects[n] = HighPart("cause", base + 2)
        /\ objects[n + 1] = LowPart("cause", base + 2)
    BY <1>1, <1>2
  <2>. QED
    BY <1>3, <2>1, TwoParts
<1>. QED
  BY <1>4 DEF objects

\* The pointers of disconnectedHandler.
LEMMA DisconnectedPointers ==
  ASSUME NEW base \in Nat, Fits(base + 10), NEW n \in DOMAIN handler("disconnected", base),
         handler("disconnected", base)[n].part = "high"
  PROVE  PointerArrives("disconnected", base, handler("disconnected", base), n)
<1>. DEFINE objects == handler("disconnected", base)
<1>1. /\ DOMAIN objects = 1..4
      /\ objects[1] = Number("context")
      /\ objects[2] = HighPart("undefined", base + 2)
      /\ objects[3] = LowPart("undefined", base + 2)
      /\ objects[4] = Number("properties")
  BY DisconnectedPosts
<1>. HIDE DEF objects
<1>2. n = 2
  BY <1>1 DEF objects, Number, LowPart
<1>3. /\ 2 \in DOMAIN Signature("disconnected") /\ Signature("disconnected")[2] \in Pointers
      /\ 2 \in 1..5
  BY DEF Signature, Pointers
<1>4. PointerArrives("disconnected", base, objects, n)
  <2>1. /\ n + 1 \in DOMAIN objects
        /\ objects[n] = HighPart("undefined", base + 2)
        /\ objects[n + 1] = LowPart("undefined", base + 2)
    BY <1>1, <1>2
  <2>. QED
    BY <1>3, <2>1, TwoParts
<1>. QED
  BY <1>4 DEF objects

\* The pointers of messageArrivedHandler.
LEMMA MessageArrivedPointers ==
  ASSUME NEW base \in Nat, Fits(base + 10), NEW n \in DOMAIN handler("messageArrived", base),
         handler("messageArrived", base)[n].part = "high"
  PROVE  PointerArrives("messageArrived", base, handler("messageArrived", base), n)
<1>. DEFINE objects == handler("messageArrived", base)
<1>1. /\ DOMAIN objects = 1..6
      /\ objects[1] = Number("context")
      /\ objects[2] = HighPart("topicName", base + 2)
      /\ objects[3] = LowPart("topicName", base + 2)
      /\ objects[4] = Number("topicLen")
      /\ objects[5] = HighPart("message", base + 4)
      /\ objects[6] = LowPart("message", base + 4)
  BY MessageArrivedPosts
<1>. HIDE DEF objects
<1>2. n = 2 \/ n = 5
  BY <1>1 DEF objects, Number, LowPart
<1>3. /\ 2 \in DOMAIN Signature("messageArrived") /\ Signature("messageArrived")[2] \in Pointers
      /\ 2 \in 1..5
  BY DEF Signature, Pointers
<1>5. /\ 4 \in DOMAIN Signature("messageArrived") /\ Signature("messageArrived")[4] \in Pointers
      /\ 4 \in 1..5
  BY DEF Signature, Pointers
<1>4. PointerArrives("messageArrived", base, objects, n)
  <2>1. CASE n = 2
    <3>1. /\ n + 1 \in DOMAIN objects
          /\ objects[n] = HighPart("topicName", base + 2)
          /\ objects[n + 1] = LowPart("topicName", base + 2)
      BY <1>1, <2>1
    <3>. QED
      BY <1>3, <3>1, TwoParts
  <2>2. CASE n = 5
    <3>1. /\ n + 1 \in DOMAIN objects
          /\ objects[n] = HighPart("message", base + 4)
          /\ objects[n + 1] = LowPart("message", base + 4)
      BY <1>1, <2>2
    <3>. QED
      BY <1>5, <3>1, TwoParts
  <2>. QED
    BY <1>2, <2>1, <2>2
<1>. QED
  BY <1>4 DEF objects

\* The pointers of deliveryCompleteHandler.
LEMMA DeliveryCompletePointers ==
  ASSUME NEW base \in Nat, Fits(base + 10), NEW n \in DOMAIN handler("deliveryComplete", base),
         handler("deliveryComplete", base)[n].part = "high"
  PROVE  PointerArrives("deliveryComplete", base, handler("deliveryComplete", base), n)
<1>. DEFINE objects == handler("deliveryComplete", base)
<1>1. /\ DOMAIN objects = 1..2
      /\ objects[1] = Number("context")
      /\ objects[2] = Number("token")
  BY DeliveryCompletePosts
<1>. HIDE DEF objects
<1>. QED
  BY <1>1 DEF objects, Number

\* The pointers of publishedHandler.
LEMMA PublishedPointers ==
  ASSUME NEW base \in Nat, Fits(base + 10), NEW n \in DOMAIN handler("published", base),
         handler("published", base)[n].part = "high"
  PROVE  PointerArrives("published", base, handler("published", base), n)
<1>. DEFINE objects == handler("published", base)
<1>1. /\ DOMAIN objects = 1..6
      /\ objects[1] = Number("context")
      /\ objects[2] = Number("token")
      /\ objects[3] = Number("packetType")
      /\ objects[4] = HighPart("properties", base + 4)
      /\ objects[5] = LowPart("properties", base + 4)
      /\ objects[6] = Number("reasonCode")
  BY PublishedPosts
<1>. HIDE DEF objects
<1>2. n = 4
  BY <1>1 DEF objects, Number, LowPart
<1>3. /\ 4 \in DOMAIN Signature("published") /\ Signature("published")[4] \in Pointers
      /\ 4 \in 1..5
  BY DEF Signature, Pointers
<1>4. PointerArrives("published", base, objects, n)
  <2>1. /\ n + 1 \in DOMAIN objects
        /\ objects[n] = HighPart("properties", base + 4)
        /\ objects[n + 1] = LowPart("properties", base + 4)
    BY <1>1, <1>2
  <2>. QED
    BY <1>3, <2>1, TwoParts
<1>. QED
  BY <1>4 DEF objects

\* The pointers of checkpointHandler.
LEMMA CheckpointPointers ==
  ASSUME NEW base \in Nat, Fits(base + 10), NEW n \in DOMAIN handler("checkpoint", base),
         handler("checkpoint", base)[n].part = "high"
  PROVE  PointerArrives("checkpoint", base, handler("checkpoint", base), n)
<1>. DEFINE objects == handler("checkpoint", base)
<1>1. /\ DOMAIN objects = 1..1
      /\ objects[1] = Number("id")
  BY CheckpointPosts
<1>. HIDE DEF objects
<1>. QED
  BY <1>1 DEF objects, Number

\* Every pointer that a handler posts is a heap copy, and its address survives the
\* split into two immediates.
THEOREM PointersArrive ==
  ASSUME NEW k \in CallbackTypes, NEW base \in Nat, Fits(base + 10),
         NEW n \in DOMAIN handler(k, base), handler(k, base)[n].part = "high"
  PROVE  PointerArrives(k, base, handler(k, base), n)
  BY TracePointers, ConnectionLostPointers, DisconnectedPointers, MessageArrivedPointers,
     DeliveryCompletePointers, PublishedPointers, CheckpointPointers DEF CallbackTypes

=============================================================================
