--------------------- MODULE EsMqttAsyncArgumentsProofs ---------------------
(***************************************************************************)
(* Proofs about EsMqttAsyncArguments: any number of calls of any of the    *)
(* types, with texts of any length.                                        *)
(***************************************************************************)
EXTENDS EsMqttAsyncArguments, SequenceTheorems, WellFoundedInduction, TLAPS

Bytes == {"x", "y", "0", "?"}

-----------------------------------------------------------------------------
(* Strings.                                                                *)

\* A set of numbers has a least one.
LEMMA Least ==
  ASSUME NEW T \in SUBSET Nat, T # {}
  PROVE  \E m \in T : \A n \in T : m <= n
<1>. DEFINE R == {ss \in Nat \X Nat : ss[1] < ss[2]}
<1>1. IsWellFoundedOn(R, Nat)
  BY NatLessThanWellFounded DEF OpToRel
<1>. HIDE DEF R
<1>2. PICK m \in T : \A n \in T : ~ (<<n, m>> \in R)
  BY <1>1, WFMin
<1>3. \A n \in T : ~(n < m)
  BY <1>2 DEF R
<1>4. \A n \in T : m <= n
  BY <1>3
<1>. QED
  BY <1>4

\* A string ends at its first null, or where its bytes end.
LEMMA Strlen ==
  ASSUME NEW s \in Seq(Bytes)
  PROVE  /\ strlen(s) \in 0..Len(s)
         /\ strlen(s) < Len(s) => s[strlen(s) + 1] = "0"
         /\ \A i \in 1..strlen(s) : s[i] # "0"
<1>1. Len(s) \in Nat
  OBVIOUS
<1>. DEFINE T == {n \in 0..Len(s) : n < Len(s) => s[n + 1] = "0"}
<1>2. T \in SUBSET Nat /\ Len(s) \in T
  BY <1>1
<1>. HIDE DEF T
<1>3. PICK m \in T : \A n \in T : m <= n
  BY <1>2, Least
<1>4. m \in 0..Len(s) /\ (m < Len(s) => s[m + 1] = "0")
  BY <1>3 DEF T
<1>5. \A i \in 1..m : s[i] # "0"
  <2>. SUFFICES ASSUME NEW i \in 1..m, s[i] = "0" PROVE FALSE
    OBVIOUS
  <2>1. i - 1 \in T
    BY <1>1, <1>4 DEF T
  <2>2. m <= i - 1
    BY <1>3, <2>1
  <2>. QED
    BY <1>1, <1>4, <2>2
<1>6. \E n \in 0..Len(s) : /\ n < Len(s) => s[n + 1] = "0"
                           /\ \A i \in 1..n : s[i] # "0"
  BY <1>4, <1>5
<1>. QED
  BY <1>6 DEF strlen

\* There is only one such end.
LEMMA StrlenIs ==
  ASSUME NEW s \in Seq(Bytes), NEW n \in 0..Len(s), n < Len(s) => s[n + 1] = "0",
         \A i \in 1..n : s[i] # "0"
  PROVE  strlen(s) = n
<1>1. Len(s) \in Nat
  OBVIOUS
<1>2. /\ strlen(s) \in 0..Len(s) /\ (strlen(s) < Len(s) => s[strlen(s) + 1] = "0")
      /\ \A i \in 1..strlen(s) : s[i] # "0"
  BY Strlen
<1>3. ~(strlen(s) < n)
  BY <1>1, <1>2
<1>4. ~(n < strlen(s))
  BY <1>1, <1>2
<1>. QED
  BY <1>1, <1>2, <1>3, <1>4

\* The copy of a string is the string up to its end, and the end.
LEMMA CopyString ==
  ASSUME NEW s \in Seq(Bytes)
  PROVE  /\ EsCopyString(s) \in Seq(Bytes) /\ Len(EsCopyString(s)) = strlen(s) + 1
         /\ strlen(EsCopyString(s)) = strlen(s) /\ strlen(s) \in Nat
         /\ \A i \in 1..(strlen(s) + 1) :
              EsCopyString(s)[i] = IF i <= strlen(s) THEN s[i] ELSE "0"
<1>. DEFINE n == strlen(s)
            t == EsCopyString(s)
<1>1. Len(s) \in Nat /\ n \in 0..Len(s) /\ n \in Nat /\ \A i \in 1..n : s[i] # "0"
  BY Strlen
<1>2. /\ SubSeq(s, 1, n) \in Seq(Bytes) /\ Len(SubSeq(s, 1, n)) = n
      /\ \A i \in 1..n : SubSeq(s, 1, n)[i] = s[i]
  <2>1. \A i \in 1..n : s[i] \in Bytes
    BY <1>1
  <2>2. /\ SubSeq(s, 1, n) \in Seq(Bytes)
        /\ Len(SubSeq(s, 1, n)) = IF 1 <= n THEN n - 1 + 1 ELSE 0
        /\ \A i \in 1 .. n - 1 + 1 : SubSeq(s, 1, n)[i] = s[1 + i - 1]
    BY <1>1, <2>1, SubSeqProperties
  <2>. QED
    BY <1>1, <2>2
<1>3. <<"0">> \in Seq(Bytes) /\ Len(<<"0">>) = 1 /\ <<"0">>[1] = "0"
  BY DEF Bytes
<1>4. t \in Seq(Bytes) /\ Len(t) = n + 1
  BY <1>1, <1>2, <1>3, ConcatProperties DEF EsCopyString
<1>5. \A i \in 1..(n + 1) : t[i] = IF i <= n THEN s[i] ELSE "0"
  <2>. SUFFICES ASSUME NEW i \in 1..(n + 1) PROVE t[i] = IF i <= n THEN s[i] ELSE "0"
    OBVIOUS
  <2>1. t[i] = IF i <= n THEN SubSeq(s, 1, n)[i] ELSE <<"0">>[i - n]
    BY <1>1, <1>2, <1>3, ConcatProperties DEF EsCopyString
  <2>2. i > n => i - n = 1
    BY <1>1
  <2>3. CASE i <= n
    BY <1>1, <1>2, <2>1, <2>3
  <2>4. CASE i > n
    BY <1>1, <1>3, <2>1, <2>2, <2>4
  <2>. QED
    BY <1>1, <2>3, <2>4
<1>6. strlen(t) = n
  <2>1. /\ n \in 0..Len(t) /\ (n < Len(t) => t[n + 1] = "0")
        /\ \A i \in 1..n : t[i] # "0"
    BY <1>1, <1>4, <1>5
  <2>. QED
    BY <1>4, <2>1, StrlenIs
<1>. QED
  BY <1>1, <1>4, <1>5, <1>6

\* What Paho holds are strings with an end.
LEMMA TextsAreBytes ==
  ASSUME NEW s \in Texts
  PROVE  /\ s \in Seq(Bytes) /\ Len(s) \in Nat \ {0} /\ strlen(s) \in 0..(Len(s) - 1)
         /\ s[strlen(s) + 1] = "0" /\ \A i \in 1..strlen(s) : s[i] # "0"
         /\ \A i \in 1..Len(s) : s[i] # "?"
<1>1. s \in Seq({"x", "y", "0"}) /\ s # <<>> /\ s[Len(s)] = "0"
  BY TextsAssumption
<1>2. s \in Seq(Bytes) /\ Len(s) \in Nat \ {0}
  <2>1. {"x", "y", "0"} \subseteq Bytes
    BY DEF Bytes
  <2>2. s \in Seq(Bytes)
    BY <1>1, <2>1, SeqMonotonic
  <2>. QED
    BY <1>1, <2>2, EmptySeq
<1>3. strlen(s) # Len(s)
  BY <1>1, <1>2, Strlen
<1>4. \A i \in 1..Len(s) : s[i] \in {"x", "y", "0"}
  BY <1>1
<1>. QED
  BY <1>2, <1>3, <1>4, Strlen

\* The copy of a topic: without its end, or cut at the first null.
LEMMA CopyTopic ==
  ASSUME NEW s \in Texts
  PROVE  /\ EsCopyTopicString(s, topicLen(s)) \in Seq(Bytes)
         /\ IF NullInside(s) THEN ArrivesCut(s, EsCopyTopicString(s, topicLen(s)))
                             ELSE ArrivesWithoutEnd(s, EsCopyTopicString(s, topicLen(s)))
<1>. DEFINE n == strlen(s)
            a == Len(s) - 1
            t == EsCopyTopicString(s, topicLen(s))
<1>1. /\ s \in Seq(Bytes) /\ Len(s) \in Nat \ {0} /\ n \in 0..a /\ a \in Nat
      /\ s[n + 1] = "0" /\ \A i \in 1..n : s[i] # "0"
      /\ \A i \in 1..Len(s) : s[i] # "?"
  BY TextsAreBytes
<1>2. (IF topicLen(s) = 0 THEN n ELSE topicLen(s)) = a
  BY <1>1 DEF topicLen
<1>3. t = [i \in 1..(a + 1) |-> IF i > a THEN "?" ELSE IF i > n THEN "0" ELSE s[i]]
  BY <1>2 DEF EsCopyTopicString
<1>. HIDE DEF t
<1>4. \A i \in 1..n : s[i] \in Bytes
  BY <1>1
<1>5. t \in [1..(a + 1) -> Bytes]
  BY <1>1, <1>3, <1>4 DEF Bytes
<1>6. t \in Seq(Bytes) /\ Len(t) = a + 1 /\ Len(t) = Len(s)
  BY <1>1, <1>5
<1>7. /\ \A i \in 1..n : t[i] = s[i]
      /\ \A i \in (n + 1)..a : t[i] = "0"
      /\ t[a + 1] = "?"
  BY <1>1, <1>3
<1>8. CASE NullInside(s)
  <2>1. n < a
    BY <1>1, <1>8 DEF NullInside
  <2>2. t[n + 1] = "0" /\ n \in 0..Len(t) /\ \A i \in 1..n : t[i] # "0"
    BY <1>1, <1>6, <1>7, <2>1
  <2>3. strlen(t) = n
    BY <1>6, <2>2, StrlenIs
  <2>4. ArrivesCut(s, t)
    BY <1>1, <1>6, <1>7, <2>3 DEF ArrivesCut, SameUpTo
  <2>. QED
    BY <1>6, <1>8, <2>4 DEF t
<1>9. CASE ~NullInside(s)
  <2>1. n = a
    BY <1>1, <1>9 DEF NullInside
  <2>2. a + 1 \in 0..Len(t) /\ ~(a + 1 < Len(t)) /\ \A i \in 1..(a + 1) : t[i] # "0"
    BY <1>1, <1>6, <1>7, <2>1
  <2>3. strlen(t) = a + 1
    BY <1>6, <2>2, StrlenIs
  <2>4. ArrivesWithoutEnd(s, t)
    BY <1>1, <1>6, <1>7, <2>1, <2>3 DEF ArrivesWithoutEnd, SameUpTo
  <2>. QED
    BY <1>6, <1>9, <2>4 DEF t
<1>. QED
  BY <1>8, <1>9

-----------------------------------------------------------------------------
(* The inductive invariant.                                                *)

IInv == TypeOK /\ FreedByOneSide /\ PostedOnce /\ EachCall

\* Which pointers come together.
LEMMA PassedBlocks ==
  ASSUME NEW c \in Calls, Passed(c)
  PROVE  /\ given[c] \subseteq PahoBlocks
         /\ kind[c] = "checkpoint" => given[c] = {}
         /\ pc[c] # "idle" /\ kind[c] = "messageArrived" =>
              given[c] = {"topic", "message", "payload"}
         /\ given[c] \cap {"topic", "message", "payload"} # {} => kind[c] = "messageArrived"
<1>1. CASE given[c] = {}
  <2>1. pc[c] = "idle" \/ given[c] \in MayPass(kind[c])
    BY DEF Passed
  <2>. QED
    BY <1>1, <2>1 DEF MayPass
<1>2. CASE given[c] # {}
  <2>1. kind[c] \in VoidKinds \cup {"messageArrived", "checkpoint"} /\ given[c] \in MayPass(kind[c])
    BY <1>2, KindsAssumption DEF Passed
  <2>. QED
    BY <1>2, <2>1 DEF MayPass, PahoBlocks, VoidKinds
<1>. QED
  BY <1>1, <1>2

\* How a step changes the blocks of a call.
LEMMA Blocks ==
  ASSUME TypeOK, NEW c \in Calls, NEW ns, NEW st \in {"none", "live", "freed"},
         heap' = With(c, ns, st)
  PROVE  /\ heap' \in [Calls -> [Names -> {"none", "live", "freed"}]]
         /\ \A d \in Calls : d # c => heap'[d] = heap[d]
         /\ \A n \in Names : heap'[c][n] = IF n \in ns THEN st ELSE heap[c][n]
BY DEF With, TypeOK

\* A step that uses live blocks, or those that both sides may free.
LEMMA UsesLive ==
  ASSUME TypeOK, FreedByOneSide, NEW c \in Calls, NEW ns \in SUBSET Names, Uses(c, ns),
         \A n \in ns : n \in Live(c) \cup {"asyncMessage", "list"}
  PROVE  FreedByOneSide' /\ misused' \subseteq Calls \X Names /\ process' \in {"running", "aborted"}
<1>1. misused' = misused \cup {<<c, n>> : n \in ns \ Live(c)}
  BY DEF Uses
<1>2. process' \in {"running", "aborted"}
  BY DEF Uses, TypeOK
<1>3. misused' \subseteq Calls \X Names
  BY <1>1 DEF TypeOK
<1>4. FreedByOneSide'
  BY <1>1 DEF FreedByOneSide
<1>. QED
  BY <1>2, <1>3, <1>4

\* A call that a step has nothing to do with.
SameCall(d) ==
  /\ kind'[d] = kind[d] /\ given'[d] = given[d] /\ pc'[d] = pc[d] /\ heap'[d] = heap[d]
  /\ text'[d] = text[d] /\ task'[d] = task[d] /\ answer'[d] = answer[d]
  /\ d \in Waiting' <=> d \in Waiting
  /\ d \in lost' <=> d \in lost

\* A call that a step has nothing to do with keeps what holds of it.
LEMMA Elsewhere ==
  ASSUME NEW d \in Calls, Kept(d), SameCall(d)
  PROVE  Kept(d)'
<1>. USE DEF SameCall
<1>1. /\ Live(d)' = Live(d) /\ Pointer(d)' = Pointer(d) /\ Reached(d)' = Reached(d)
  BY DEF Live, Pointer, Reached
<1>2. Passed(d)'
  BY DEF Kept, Passed
<1>3. MessageMade(d)'
  BY <1>1 DEF Kept, MessageMade
<1>4. BlocksKept(d)'
  BY <1>1 DEF Kept, BlocksKept
<1>5. CopiesKept(d)'
  BY <1>1 DEF Kept, CopiesKept
<1>6. TextsKept(d)'
  BY DEF Kept, TextsKept
<1>. QED
  BY <1>2, <1>3, <1>4, <1>5, <1>6 DEF Kept

\* A step of one call.
LEMMA OneCall ==
  ASSUME IInv, NEW c \in Calls, TypeOK', FreedByOneSide', PostedOnce', Kept(c)',
         \A d \in Calls : d # c => SameCall(d)
  PROVE  IInv'
<1>1. EachCall'
  BY Elsewhere DEF IInv, EachCall
<1>. QED
  BY <1>1 DEF IInv

\* A step after which the same messages wait.
LEMMA SamePosts ==
  ASSUME PostedOnce, UNCHANGED <<posted, held, lost>>,
         \A c \in Waiting \cup lost : pc'[c] \in AfterPCs /\ answer'[c] = "1"
  PROVE  PostedOnce' /\ Waiting' = Waiting
<1>1. Waiting' = Waiting
  BY DEF Waiting
<1>. QED
  BY <1>1 DEF PostedOnce

\* What holds of a call before its post.
LEMMA NotPosted ==
  ASSUME IInv, NEW c \in Calls, pc[c] \notin AfterPCs
  PROVE  c \notin Waiting /\ c \notin lost /\ answer[c] = "none" /\ Kept(c)
BY DEF IInv, PostedOnce, EachCall, Kept, BlocksKept

\* The program aborts: nothing else changes.
LEMMA AbortsIInv ==
  ASSUME IInv, Aborts
  PROVE  IInv'
<1>1. UNCHANGED <<call, pc, heap, text, task, answer, outside, lost, misused>>
      /\ process' = "aborted"
  BY DEF Aborts
<1>2. \A d \in Calls : SameCall(d)
  BY <1>1 DEF SameCall, call, outside, Waiting
<1>3. EachCall'
  BY <1>2, Elsewhere DEF IInv, EachCall
<1>4. TypeOK' /\ FreedByOneSide'
  BY <1>1 DEF IInv, TypeOK, FreedByOneSide, call, outside
<1>5. PostedOnce'
  BY <1>1 DEF IInv, PostedOnce, Waiting, outside
<1>. QED
  BY <1>3, <1>4, <1>5 DEF IInv

\* Paho calls: what it passes is live.
LEMMA BeginIInv ==
  ASSUME IInv, NEW c \in Calls, NEW k \in Kinds, NEW s \in Texts, NEW ps \in MayPass(k),
         Begin(c, k, ps, s)
  PROVE  IInv'
<1>1. /\ pc[c] = "idle" /\ pc' = [pc EXCEPT ![c] = "new"]
      /\ kind' = [kind EXCEPT ![c] = k] /\ given' = [given EXCEPT ![c] = ps]
      /\ heap' = With(c, ps, "live")
      /\ text' = [text EXCEPT ![c] = [n \in TextNames |-> IF n \in ps THEN s ELSE <<>>]]
      /\ UNCHANGED <<task, answer, outside, lost, misused, process>>
  BY DEF Begin, At, Goto
<1>2. c \notin Waiting /\ c \notin lost /\ answer[c] = "none" /\ Kept(c)
  BY <1>1, NotPosted DEF AfterPCs
<1>3. /\ heap' \in [Calls -> [Names -> {"none", "live", "freed"}]]
      /\ \A d \in Calls : d # c => heap'[d] = heap[d]
      /\ \A n \in Names : heap'[c][n] = IF n \in ps THEN "live" ELSE heap[c][n]
  BY <1>1, Blocks DEF IInv
<1>4. ps \subseteq PahoBlocks
  BY KindsAssumption DEF MayPass, PahoBlocks, VoidKinds
<1>5. TypeOK'
  <2>1. [n \in TextNames |-> IF n \in ps THEN s ELSE <<>>] \in [TextNames -> Seq(Bytes)]
    BY TextsAreBytes
  <2>2. text' \in [Calls -> [TextNames -> Seq(Bytes)]]
    BY <1>1, <2>1 DEF IInv, TypeOK, Bytes
  <2>. QED
    BY <1>1, <1>3, <1>4, <2>2 DEF IInv, TypeOK, outside, Bytes
<1>6. FreedByOneSide'
  BY <1>1 DEF IInv, FreedByOneSide
<1>7. PostedOnce' /\ Waiting' = Waiting
  BY <1>1, <1>2, SamePosts DEF IInv, PostedOnce, TypeOK, outside
<1>8. \A d \in Calls : d # c => SameCall(d)
  BY <1>1, <1>3, <1>7 DEF IInv, TypeOK, SameCall
<1>9. /\ pc'[c] = "new" /\ kind'[c] = k /\ given'[c] = ps /\ task'[c] = task[c]
      /\ answer'[c] = "none" /\ c \notin Waiting' /\ c \notin lost'
      /\ \A n \in TextNames : text'[c][n] = IF n \in ps THEN s ELSE <<>>
  BY <1>1, <1>2, <1>7 DEF IInv, TypeOK
<1>10. Kept(c)'
  <2>1. \A n \in Names : n \in Live(c)' <=> n \in ps \/ n \in Live(c)
    BY <1>3 DEF Live
  <2>2. Live(c) \subseteq {"task"}
    BY <1>1, <1>2 DEF Kept, BlocksKept, MessageMade, CopiesKept, Live, Passed, AfterPCs
  <2>3. Passed(c)'
    BY <1>9 DEF Passed
  <2>4. MessageMade(c)'
    <3>1. /\ heap[c]["asyncMessage"] = "none" /\ heap[c]["first"] # "live"
          /\ task[c].userData = "null"
      BY <1>1, <1>2 DEF Kept, MessageMade
    <3>2. "asyncMessage" \in Names \ ps /\ "first" \in Names \ ps
      BY <1>4 DEF Names, PahoBlocks
    <3>3. heap'[c]["asyncMessage"] = "none" /\ heap'[c]["first"] # "live"
      BY <1>3, <3>1, <3>2
    <3>. QED
      BY <1>9, <3>1, <3>3 DEF MessageMade
  <2>5. \A n \in Live(c)' : n \in ps \cup {"task"}
    BY <2>1, <2>2 DEF Live
  <2>6. \A n \in ps : n \in Live(c)'
    BY <1>4, <2>1 DEF Names
  <2>7. BlocksKept(c)'
    BY <1>4, <1>9, <2>5, <2>6 DEF BlocksKept, Copies, PahoBlocks, AfterPCs
  <2>8. CopiesKept(c)'
    BY <1>4, <1>9, <2>5 DEF CopiesKept, Copies, PahoBlocks, AfterPCs
  <2>9. TextsKept(c)'
    BY <1>1, <1>2, <1>3, <1>4, <1>9 DEF TextsKept, TextNames, Kept, MessageMade, Names, PahoBlocks
  <2>. QED
    BY <2>3, <2>4, <2>7, <2>8, <2>9 DEF Kept
<1>. QED
  BY <1>5, <1>6, <1>7, <1>8, <1>10, OneCall

\* No message: the callback answers 0, and a checkpoint goes on without one.
LEMMA NewFailsIInv ==
  ASSUME IInv, NEW c \in Calls, NewFails(c)
  PROVE  IInv'
<1>1. /\ pc[c] = "new" /\ UNCHANGED <<call, heap, text, task, outside, lost, misused, process>>
  BY DEF NewFails, At
<1>2. c \notin Waiting /\ c \notin lost /\ answer[c] = "none" /\ Kept(c)
  BY <1>1, NotPosted DEF AfterPCs
<1>3. PICK to \in {"send", "returned"}, a \in {"none", "0"} :
        /\ pc' = [pc EXCEPT ![c] = to] /\ answer' = [answer EXCEPT ![c] = a]
        /\ to = "send" => kind[c] = "checkpoint" /\ a = "none"
        /\ to = "returned" => kind[c] # "checkpoint" /\ a = "0"
  <2>1. CASE kind[c] = "checkpoint"
    <3>1. pc' = [pc EXCEPT ![c] = "send"] /\ answer' = [answer EXCEPT ![c] = "none"]
      BY <1>2, <2>1 DEF NewFails, Goto, IInv, TypeOK
    <3>. QED
      BY <2>1, <3>1
  <2>2. CASE kind[c] # "checkpoint"
    <3>1. pc' = [pc EXCEPT ![c] = "returned"] /\ answer' = [answer EXCEPT ![c] = "0"]
      BY <2>2 DEF NewFails, Return, Goto
    <3>. QED
      BY <2>2, <3>1
  <2>. QED
    BY <2>1, <2>2
<1>4. TypeOK' /\ FreedByOneSide'
  BY <1>1, <1>3 DEF IInv, TypeOK, FreedByOneSide, call, outside
<1>5. PostedOnce' /\ Waiting' = Waiting
  BY <1>1, <1>2, <1>3, SamePosts DEF IInv, PostedOnce, TypeOK, outside
<1>6. \A d \in Calls : d # c => SameCall(d)
  BY <1>1, <1>3, <1>5 DEF IInv, TypeOK, SameCall, call
<1>7. /\ pc'[c] = to /\ answer'[c] = a /\ c \notin Waiting' /\ c \notin lost'
      /\ UNCHANGED <<kind, given, heap, text, task>>
      /\ Live(c)' = Live(c) /\ Pointer(c)' = Pointer(c) /\ Reached(c)' = Reached(c)
  BY <1>1, <1>2, <1>3, <1>5 DEF IInv, TypeOK, call, Live, Pointer, Reached
<1>8. Kept(c)'
  <2>1. Passed(c)'
    BY <1>1, <1>2, <1>3, <1>7 DEF Kept, Passed
  <2>2. MessageMade(c)'
    BY <1>1, <1>2, <1>3, <1>7 DEF Kept, MessageMade
  <2>3. BlocksKept(c)'
    BY <1>1, <1>2, <1>3, <1>7 DEF Kept, BlocksKept, AfterPCs
  <2>4. CopiesKept(c)'
    BY <1>1, <1>2, <1>3, <1>7 DEF Kept, CopiesKept, AfterPCs
  <2>5. TextsKept(c)'
    BY <1>1, <1>2, <1>3, <1>7 DEF Kept, TextsKept
  <2>. QED
    BY <2>1, <2>2, <2>3, <2>4, <2>5 DEF Kept
<1>. QED
  BY <1>4, <1>5, <1>6, <1>8, OneCall

\* The message and the first copy are made of what Paho has just passed.
LEMMA NewInitIInv ==
  ASSUME IInv, NEW c \in Calls, NewInit(c)
  PROVE  IInv'
<1>1. CASE Aborts
  BY <1>1, AbortsIInv
<1>2. CASE ~Aborts
  <2>. DEFINE ns == {"asyncMessage"} \cup IF Pointer(c) # {} THEN {"first"} ELSE {}
  <2>1. /\ pc[c] = "new" /\ Uses(c, given[c] \ {"topic", "list"}) /\ heap' = With(c, ns, "live")
        /\ text' = IF "string" \in given[c]
                   THEN [text EXCEPT ![c]["first"] = EsCopyString(text[c]["string"])]
                   ELSE text
        /\ pc' = [pc EXCEPT ![c] = "send"]
        /\ UNCHANGED <<call, task, answer, outside, lost>>
    BY <1>2 DEF NewInit, At, Goto
  <2>2. c \notin Waiting /\ c \notin lost /\ answer[c] = "none" /\ Kept(c)
    BY <2>1, NotPosted DEF AfterPCs
  <2>3. given[c] \subseteq PahoBlocks
    BY <2>2, PassedBlocks DEF Kept
  <2>4. /\ heap' \in [Calls -> [Names -> {"none", "live", "freed"}]]
        /\ \A d \in Calls : d # c => heap'[d] = heap[d]
        /\ \A n \in Names : heap'[c][n] = IF n \in ns THEN "live" ELSE heap[c][n]
    <3>. HIDE DEF ns
    <3>. QED
      BY <2>1, Blocks DEF IInv
  <2>5. FreedByOneSide' /\ misused' \subseteq Calls \X Names /\ process' \in {"running", "aborted"}
    <3>1. given[c] \ {"topic", "list"} \in SUBSET Names
      BY <2>3 DEF Names
    <3>2. \A n \in given[c] \ {"topic", "list"} : n \in Live(c)
      BY <2>1, <2>2 DEF Kept, BlocksKept
    <3>3. TypeOK /\ FreedByOneSide
      BY DEF IInv
    <3>. QED
      BY <2>1, <3>1, <3>2, <3>3, UsesLive
  <2>6. /\ text' \in [Calls -> [TextNames -> Seq(Bytes)]]
        /\ \A d \in Calls : d # c => text'[d] = text[d]
        /\ \A n \in TextNames : n # "first" => text'[c][n] = text[c][n]
        /\ "string" \in given[c] => text'[c]["first"] = EsCopyString(text[c]["string"])
    <3>1. text \in [Calls -> [TextNames -> Seq(Bytes)]] /\ "first" \in TextNames
          /\ "string" \in TextNames
      BY DEF IInv, TypeOK, Bytes, TextNames
    <3>2. EsCopyString(text[c]["string"]) \in Seq(Bytes)
      BY <3>1, CopyString
    <3>. QED
      BY <2>1, <3>1, <3>2
  <2>7. TypeOK'
    BY <2>1, <2>4, <2>5, <2>6 DEF IInv, TypeOK, call, outside, Bytes
  <2>8. PostedOnce' /\ Waiting' = Waiting
    BY <2>1, <2>2, SamePosts DEF IInv, PostedOnce, TypeOK, outside
  <2>9. \A d \in Calls : d # c => SameCall(d)
    BY <2>1, <2>4, <2>6, <2>8 DEF IInv, TypeOK, SameCall, call
  <2>10. /\ pc'[c] = "send" /\ answer'[c] = "none" /\ c \notin Waiting' /\ c \notin lost'
         /\ UNCHANGED <<kind, given, task>>
         /\ Pointer(c)' = Pointer(c) /\ Reached(c)' = Reached(c)
    BY <2>1, <2>2, <2>8 DEF IInv, TypeOK, call, Pointer, Reached
  <2>11. Kept(c)'
    <3>1. \A n : n \in Live(c)' <=> n \in Live(c) \/ n \in ns
      BY <2>4 DEF Live, Names
    <3>2. Passed(c)'
      BY <2>1, <2>2, <2>10 DEF Kept, Passed
    <3>3. MessageMade(c)'
      <4>1. /\ heap'[c]["asyncMessage"] = "live"
            /\ heap'[c]["first"] = "live" <=> Pointer(c) # {} \/ heap[c]["first"] = "live"
        BY <2>4 DEF Names
      <4>2. heap[c]["first"] # "live" /\ kind'[c] = kind[c]
        BY <2>1, <2>2, <2>10 DEF Kept, MessageMade
      <4>. QED
        BY <2>10, <4>1, <4>2 DEF MessageMade
    <3>4. BlocksKept(c)'
      BY <2>1, <2>2, <2>10, <3>1 DEF Kept, BlocksKept, AfterPCs, Copies
    <3>5. CopiesKept(c)'
      BY <2>1, <2>2, <2>10, <3>1 DEF Kept, CopiesKept, AfterPCs, Copies
    <3>6. TextsKept(c)'
      BY <2>1, <2>2, <2>6, <2>10 DEF Kept, TextsKept, TextNames
    <3>. QED
      BY <3>2, <3>3, <3>4, <3>5, <3>6 DEF Kept
  <2>. QED
    BY <2>5, <2>7, <2>8, <2>9, <2>11, OneCall
<1>. QED
  BY <1>1, <1>2

\* A new task has what it is made with and no function that frees it.
LEMMA NewTask ==
  ASSUME NEW f, NEW d
  PROVE  EsWorkTask_newInit(f, d)
           = [props |-> "null", freeUserDataFunc |-> "null", runFunc |-> f, userData |-> d]
<1>1. EsWorkTask_setRunFunc(EsWorkTask_new, f)
        = [props |-> "null", freeUserDataFunc |-> "null", runFunc |-> f, userData |-> "null"]
  BY DEF EsWorkTask_setRunFunc, EsWorkTask_new
<1>. HIDE DEF EsWorkTask_setRunFunc
<1>2. EsWorkTask_newInit(f, d)
        = [EsWorkTask_setRunFunc(EsWorkTask_new, f) EXCEPT !.userData = d]
  BY DEF EsWorkTask_newInit, EsWorkTask_setUserData
<1>. QED
  BY <1>1, <1>2

\* The task gets the message, if there is one.
LEMMA SendIInv ==
  ASSUME IInv, NEW c \in Calls, Send(c)
  PROVE  IInv'
<1>1. pc[c] = "send" /\ UNCHANGED <<call, text, outside, lost, misused, process>>
  BY DEF Send, At
<1>2. c \notin Waiting /\ c \notin lost /\ answer[c] = "none" /\ Kept(c)
  BY <1>1, NotPosted DEF AfterPCs
<1>3. CASE Return(c, "0") /\ UNCHANGED <<heap, task>>
  <2>1. PICK to \in {"free", "returned"} :
          /\ pc' = [pc EXCEPT ![c] = to] /\ answer' = [answer EXCEPT ![c] = "0"]
          /\ to = "free" <=> kind[c] = "checkpoint"
    BY <1>3 DEF Return, Goto
  <2>2. TypeOK' /\ FreedByOneSide'
    BY <1>1, <1>3, <2>1 DEF IInv, TypeOK, FreedByOneSide, call, outside
  <2>3. PostedOnce' /\ Waiting' = Waiting
    BY <1>1, <1>2, <2>1, SamePosts DEF IInv, PostedOnce, TypeOK, outside
  <2>4. \A d \in Calls : d # c => SameCall(d)
    BY <1>1, <1>3, <2>1, <2>3 DEF IInv, TypeOK, SameCall, call
  <2>5. /\ pc'[c] = to /\ answer'[c] = "0" /\ c \notin Waiting' /\ c \notin lost'
        /\ UNCHANGED <<kind, given, heap, text, task>>
        /\ Live(c)' = Live(c) /\ Pointer(c)' = Pointer(c) /\ Reached(c)' = Reached(c)
    BY <1>1, <1>2, <1>3, <2>1, <2>3 DEF IInv, TypeOK, call, Live, Pointer, Reached
  <2>6. Kept(c)'
    <3>1. Passed(c)'
      BY <1>1, <1>2, <2>5 DEF Kept, Passed
    <3>2. MessageMade(c)'
      BY <1>1, <1>2, <2>1, <2>5 DEF Kept, MessageMade
    <3>3. BlocksKept(c)'
      BY <1>1, <1>2, <2>5 DEF Kept, BlocksKept, AfterPCs
    <3>4. CopiesKept(c)'
      BY <1>1, <1>2, <2>5 DEF Kept, CopiesKept, AfterPCs
    <3>5. TextsKept(c)'
      BY <1>1, <1>2, <2>5 DEF Kept, TextsKept
    <3>. QED
      BY <3>1, <3>2, <3>3, <3>4, <3>5 DEF Kept
  <2>. QED
    BY <2>2, <2>3, <2>4, <2>6, OneCall
<1>4. CASE ~(Return(c, "0") /\ UNCHANGED <<heap, task>>)
  <2>1. PICK d \in {"asyncMessage", "null"} :
          /\ d = IF "asyncMessage" \in Live(c) THEN "asyncMessage" ELSE "null"
          /\ heap' = With(c, {"task"}, "live")
          /\ task' = [task EXCEPT ![c] = EsWorkTask_newInit("submitToAsyncQueue", d)]
          /\ pc' = [pc EXCEPT ![c] = "run"] /\ UNCHANGED answer
    BY <1>4 DEF Send, Goto
  <2>2. /\ heap' \in [Calls -> [Names -> {"none", "live", "freed"}]]
        /\ \A e \in Calls : e # c => heap'[e] = heap[e]
        /\ \A n \in Names : heap'[c][n] = IF n \in {"task"} THEN "live" ELSE heap[c][n]
    <3>1. TypeOK /\ heap' = With(c, {"task"}, "live")
      BY <2>1 DEF IInv
    <3>. QED
      BY <3>1, Blocks
  <2>3. /\ task' \in [Calls -> [props : {"null"}, freeUserDataFunc : {"null"},
                                runFunc : {"null", "submitToAsyncQueue"},
                                userData : {"null", "asyncMessage"}]]
        /\ \A e \in Calls : e # c => task'[e] = task[e]
        /\ task'[c].runFunc = "submitToAsyncQueue" /\ task'[c].userData = d
    <3>. DEFINE t == EsWorkTask_newInit("submitToAsyncQueue", d)
    <3>1. t = [props |-> "null", freeUserDataFunc |-> "null", runFunc |-> "submitToAsyncQueue",
               userData |-> d]
      BY NewTask
    <3>. HIDE DEF t
    <3>2. /\ t \in [props : {"null"}, freeUserDataFunc : {"null"},
                    runFunc : {"null", "submitToAsyncQueue"}, userData : {"null", "asyncMessage"}]
          /\ t.runFunc = "submitToAsyncQueue" /\ t.userData = d
      BY <3>1
    <3>3. task' = [task EXCEPT ![c] = t]
      BY <2>1 DEF t
    <3>4. task'[c] = t /\ \A e \in Calls : e # c => task'[e] = task[e]
      BY <3>3 DEF IInv, TypeOK
    <3>. QED
      BY <3>2, <3>3, <3>4 DEF IInv, TypeOK
  <2>4. TypeOK' /\ FreedByOneSide'
    BY <1>1, <2>1, <2>2, <2>3 DEF IInv, TypeOK, FreedByOneSide, call, outside
  <2>5. PostedOnce' /\ Waiting' = Waiting
    BY <1>1, <1>2, <2>1, SamePosts DEF IInv, PostedOnce, TypeOK, outside
  <2>6. \A e \in Calls : e # c => SameCall(e)
    BY <1>1, <2>1, <2>2, <2>3, <2>5 DEF IInv, TypeOK, SameCall, call
  <2>7. /\ pc'[c] = "run" /\ answer'[c] = "none" /\ c \notin Waiting' /\ c \notin lost'
        /\ UNCHANGED <<kind, given, text>>
        /\ Pointer(c)' = Pointer(c) /\ Reached(c)' = Reached(c)
    BY <1>1, <1>2, <2>1, <2>5 DEF IInv, TypeOK, call, Pointer, Reached
  <2>8. Kept(c)'
    <3>1. \A n : n \in Live(c)' <=> n \in Live(c) \/ n = "task"
      BY <2>2 DEF Live, Names
    <3>2. Passed(c)'
      BY <1>1, <1>2, <2>7 DEF Kept, Passed
    <3>3. /\ heap'[c]["asyncMessage"] = heap[c]["asyncMessage"]
          /\ heap'[c]["first"] = heap[c]["first"]
          /\ d # "null" <=> heap[c]["asyncMessage"] = "live"
      BY <2>1, <2>2 DEF Names, Live
    <3>4. heap[c]["asyncMessage"] \in {"none", "live"}
      BY <1>1, <1>2 DEF Kept, MessageMade, IInv, TypeOK, Names
    <3>5. MessageMade(c)'
      BY <1>1, <1>2, <2>3, <2>7, <3>3, <3>4 DEF Kept, MessageMade
    <3>6. BlocksKept(c)'
      BY <1>1, <1>2, <2>7, <3>1 DEF Kept, BlocksKept, AfterPCs, Copies
    <3>7. CopiesKept(c)'
      BY <1>1, <1>2, <2>7, <3>1 DEF Kept, CopiesKept, AfterPCs, Copies
    <3>8. TextsKept(c)'
      BY <1>1, <1>2, <2>7, <3>3 DEF Kept, TextsKept
    <3>. QED
      BY <3>2, <3>5, <3>6, <3>7, <3>8 DEF Kept
  <2>. QED
    BY <2>4, <2>5, <2>6, <2>8, OneCall
<1>. QED
  BY <1>3, <1>4

\* The task runs; one without a message, of a checkpoint, has nothing to do.
LEMMA RunIInv ==
  ASSUME IInv, NEW c \in Calls, Run(c)
  PROVE  IInv'
<1>1. /\ pc[c] = "run" /\ UNCHANGED <<call, heap, text, task, outside, lost, misused, process>>
  BY DEF Run, At
<1>2. c \notin Waiting /\ c \notin lost /\ answer[c] = "none" /\ Kept(c)
  BY <1>1, NotPosted DEF AfterPCs
<1>3. PICK to \in {"find", "free"}, a \in {"none", "1"} :
        /\ pc' = [pc EXCEPT ![c] = to] /\ answer' = [answer EXCEPT ![c] = a]
        /\ to = "find" => task[c].userData # "null" /\ a = "none"
        /\ to = "free" => kind[c] = "checkpoint" /\ given[c] = {} /\ a = "1"
  <2>1. CASE task[c].userData # "null"
    <3>1. task[c].runFunc # "null"
      BY <1>1, <1>2 DEF Kept, MessageMade
    <3>2. Goto(c, "find") /\ UNCHANGED answer
      BY <2>1, <3>1 DEF Run
    <3>3. pc' = [pc EXCEPT ![c] = "find"] /\ answer' = [answer EXCEPT ![c] = "none"]
      BY <1>2, <3>2 DEF Goto, IInv, TypeOK
    <3>. QED
      BY <2>1, <3>3
  <2>2. CASE task[c].userData = "null"
    <3>1. kind[c] = "checkpoint"
      BY <1>1, <1>2, <2>2 DEF Kept, MessageMade
    <3>2. given[c] = {}
      BY <1>2, <3>1, PassedBlocks DEF Kept
    <3>3. pc' = [pc EXCEPT ![c] = "free"] /\ answer' = [answer EXCEPT ![c] = "1"]
      BY <2>2, <3>1 DEF Run, Return, Goto
    <3>. QED
      BY <3>1, <3>2, <3>3
  <2>. QED
    BY <2>1, <2>2
<1>4. TypeOK' /\ FreedByOneSide'
  BY <1>1, <1>3 DEF IInv, TypeOK, FreedByOneSide, call, outside
<1>5. PostedOnce' /\ Waiting' = Waiting
  BY <1>1, <1>2, <1>3, SamePosts DEF IInv, PostedOnce, TypeOK, outside
<1>6. \A d \in Calls : d # c => SameCall(d)
  BY <1>1, <1>3, <1>5 DEF IInv, TypeOK, SameCall, call
<1>7. /\ pc'[c] = to /\ answer'[c] = a /\ c \notin Waiting' /\ c \notin lost'
      /\ UNCHANGED <<kind, given, heap, text, task>>
      /\ Live(c)' = Live(c) /\ Pointer(c)' = Pointer(c) /\ Reached(c)' = Reached(c)
  BY <1>1, <1>2, <1>3, <1>5 DEF IInv, TypeOK, call, Live, Pointer, Reached
<1>8. Kept(c)'
  <2>1. Passed(c)'
    BY <1>1, <1>2, <1>3, <1>7 DEF Kept, Passed
  <2>2. MessageMade(c)'
    BY <1>1, <1>2, <1>3, <1>7 DEF Kept, MessageMade
  <2>3. BlocksKept(c)'
    BY <1>1, <1>2, <1>3, <1>7 DEF Kept, BlocksKept, AfterPCs
  <2>4. CopiesKept(c)'
    <3>1. Copies \cap Live(c) = {}
      BY <1>1, <1>2 DEF Kept, CopiesKept, AfterPCs
    <3>2. to = "free" => "payload" \notin Live(c)
      BY <1>2, <1>3 DEF Kept, BlocksKept, Copies
    <3>. QED
      BY <1>3, <1>7, <3>1, <3>2 DEF CopiesKept, AfterPCs
  <2>5. TextsKept(c)'
    BY <1>1, <1>2, <1>3, <1>7 DEF Kept, TextsKept
  <2>. QED
    BY <2>1, <2>2, <2>3, <2>4, <2>5 DEF Kept
<1>. QED
  BY <1>4, <1>5, <1>6, <1>8, OneCall

\* The lookup keeps the message, or the message and its task are freed.
LEMMA FindIInv ==
  ASSUME IInv, NEW c \in Calls, Find(c)
  PROVE  IInv'
<1>1. /\ pc[c] = "find" /\ pc' = [pc EXCEPT ![c] = "handle"]
      /\ UNCHANGED <<call, text, task, answer, outside, lost, misused, process>>
  BY DEF Find, At, Goto
<1>2. c \notin Waiting /\ c \notin lost /\ answer[c] = "none" /\ Kept(c)
  BY <1>1, NotPosted DEF AfterPCs
<1>3. PICK ns \in {{}, {"asyncMessage", "task"}} : heap' = With(c, ns, "freed")
  <2>1. CASE UNCHANGED heap
    <3>1. heap = With(c, {}, "freed")
      BY DEF IInv, TypeOK, With
    <3>. QED
      BY <2>1, <3>1
  <2>2. CASE ~UNCHANGED heap
    <3>1. heap' = With(c, {"asyncMessage", "task"} \cup EsWorkTask_free(task[c]), "freed")
      BY <2>2 DEF Find
    <3>2. EsWorkTask_free(task[c]) = {}
      BY DEF IInv, TypeOK, EsWorkTask_free
    <3>3. heap' = With(c, {"asyncMessage", "task"}, "freed")
      BY <3>1, <3>2
    <3>. QED
      BY <3>3
  <2>. QED
    BY <2>1, <2>2
<1>4. /\ heap' \in [Calls -> [Names -> {"none", "live", "freed"}]]
      /\ \A d \in Calls : d # c => heap'[d] = heap[d]
      /\ \A n \in Names : heap'[c][n] = IF n \in ns THEN "freed" ELSE heap[c][n]
  BY <1>3, Blocks DEF IInv
<1>5. TypeOK' /\ FreedByOneSide'
  BY <1>1, <1>4 DEF IInv, TypeOK, FreedByOneSide, call, outside
<1>6. PostedOnce' /\ Waiting' = Waiting
  BY <1>1, <1>2, SamePosts DEF IInv, PostedOnce, TypeOK, outside
<1>7. \A d \in Calls : d # c => SameCall(d)
  BY <1>1, <1>4, <1>6 DEF IInv, TypeOK, SameCall, call
<1>8. /\ pc'[c] = "handle" /\ answer'[c] = "none" /\ c \notin Waiting' /\ c \notin lost'
      /\ UNCHANGED <<kind, given, text, task>>
      /\ Pointer(c)' = Pointer(c) /\ Reached(c)' = Reached(c)
  BY <1>1, <1>2, <1>6 DEF IInv, TypeOK, call, Pointer, Reached
<1>9. Kept(c)'
  <2>1. \A n : n \in Live(c)' <=> n \in Live(c) \ ns
    BY <1>4 DEF Live, Names
  <2>2. Passed(c)'
    BY <1>1, <1>2, <1>8 DEF Kept, Passed
  <2>3. /\ heap[c]["asyncMessage"] # "none" /\ heap'[c]["asyncMessage"] # "none"
        /\ heap'[c]["first"] = heap[c]["first"]
    <3>1. heap[c]["asyncMessage"] # "none"
      BY <1>1, <1>2 DEF Kept, MessageMade
    <3>. QED
      BY <1>4, <3>1 DEF Names
  <2>4. MessageMade(c)'
    BY <1>1, <1>2, <1>8, <2>3 DEF Kept, MessageMade
  <2>5. BlocksKept(c)'
    <3>1. given[c] \subseteq PahoBlocks
      BY <1>2, PassedBlocks DEF Kept
    <3>2. ns \cap given[c] = {}
      BY <3>1 DEF PahoBlocks
    <3>. QED
      BY <1>1, <1>2, <1>8, <2>1, <3>2 DEF Kept, BlocksKept, AfterPCs
  <2>6. CopiesKept(c)'
    BY <1>1, <1>2, <1>8, <2>1 DEF Kept, CopiesKept, AfterPCs
  <2>7. TextsKept(c)'
    BY <1>1, <1>2, <1>8, <2>3 DEF Kept, TextsKept
  <2>. QED
    BY <2>2, <2>4, <2>5, <2>6, <2>7 DEF Kept
<1>. QED
  BY <1>5, <1>6, <1>7, <1>9, OneCall

\* What the handler reads is live, and it leaves live copies.
LEMMA HandleIInv ==
  ASSUME IInv, NEW c \in Calls, Handle(c)
  PROVE  IInv'
<1>1. CASE Aborts
  BY <1>1, AbortsIInv
<1>2. CASE ~Aborts
  <2>. DEFINE us == {"asyncMessage"} \cup (IF Pointer(c) # {} THEN {"first"} ELSE {})
                      \cup (given[c] \cap {"payload", "topic"})
              ns == (IF Pointer(c) # {} THEN {"copy"} ELSE {})
                      \cup (IF "topic" \in given[c] THEN {"topicCopy"} ELSE {})
              t == text[c]
              copy == IF "string" \in given[c] THEN EsCopyString(t["first"]) ELSE <<>>
              top == IF "topic" \in given[c]
                     THEN EsCopyTopicString(t["topic"], topicLen(t["topic"])) ELSE <<>>
  <2>1. /\ pc[c] = "handle" /\ Uses(c, us) /\ heap' = With(c, ns, "live")
        /\ text' = [text EXCEPT ![c]["copy"] = copy, ![c]["topicCopy"] = top]
        /\ pc' = [pc EXCEPT ![c] = "post"]
        /\ UNCHANGED <<call, task, answer, outside, lost>>
    BY <1>2 DEF Handle, At, Goto
  <2>2. c \notin Waiting /\ c \notin lost /\ answer[c] = "none" /\ Kept(c)
    BY <2>1, NotPosted DEF AfterPCs
  <2>3. given[c] \subseteq PahoBlocks
    BY <2>2, PassedBlocks DEF Kept
  <2>4. /\ heap' \in [Calls -> [Names -> {"none", "live", "freed"}]]
        /\ \A d \in Calls : d # c => heap'[d] = heap[d]
        /\ \A n \in Names : heap'[c][n] = IF n \in ns THEN "live" ELSE heap[c][n]
    <3>. HIDE DEF ns
    <3>. QED
      BY <2>1, Blocks DEF IInv
  <2>5. FreedByOneSide' /\ misused' \subseteq Calls \X Names /\ process' \in {"running", "aborted"}
    <3>1. us \in SUBSET Names
      BY <2>3 DEF Names, PahoBlocks
    <3>2. \A n \in us : n \in Live(c) \cup {"asyncMessage", "list"}
      <4>1. given[c] \cap {"payload", "topic"} \subseteq Live(c)
        BY <2>1, <2>2 DEF Kept, BlocksKept
      <4>2. Pointer(c) # {} => "first" \in Live(c)
        BY <2>1, <2>2 DEF Kept, MessageMade, Live, Names
      <4>. QED
        BY <4>1, <4>2
    <3>3. TypeOK /\ FreedByOneSide
      BY DEF IInv
    <3>. HIDE DEF us
    <3>. QED
      BY <2>1, <3>1, <3>2, <3>3, UsesLive
  <2>6. /\ text' \in [Calls -> [TextNames -> Seq(Bytes)]]
        /\ \A d \in Calls : d # c => text'[d] = text[d]
        /\ \A n \in TextNames : n \notin Copies => text'[c][n] = text[c][n]
        /\ text'[c]["copy"] = copy /\ text'[c]["topicCopy"] = top
    <3>1. text \in [Calls -> [TextNames -> Seq(Bytes)]]
      BY DEF IInv, TypeOK, Bytes
    <3>2. copy \in Seq(Bytes)
      <4>1. t["first"] \in Seq(Bytes)
        BY <3>1 DEF TextNames
      <4>. QED
        BY <4>1, CopyString
    <3>3. top \in Seq(Bytes)
      <4>1. "topic" \in given[c] => t["topic"] \in Texts
        BY <2>2 DEF Kept, TextsKept
      <4>. QED
        BY <4>1, CopyTopic
    <3>. HIDE DEF copy, top
    <3>. QED
      BY <2>1, <3>1, <3>2, <3>3 DEF TextNames, Copies
  <2>7. TypeOK'
    BY <2>1, <2>4, <2>5, <2>6 DEF IInv, TypeOK, call, outside, Bytes
  <2>8. PostedOnce' /\ Waiting' = Waiting
    BY <2>1, <2>2, SamePosts DEF IInv, PostedOnce, TypeOK, outside
  <2>9. \A d \in Calls : d # c => SameCall(d)
    BY <2>1, <2>4, <2>6, <2>8 DEF IInv, TypeOK, SameCall, call
  <2>10. /\ pc'[c] = "post" /\ answer'[c] = "none" /\ c \notin Waiting' /\ c \notin lost'
         /\ UNCHANGED <<kind, given, task>>
         /\ Pointer(c)' = Pointer(c) /\ Reached(c)' = Reached(c)
    BY <2>1, <2>2, <2>8 DEF IInv, TypeOK, call, Pointer, Reached
  <2>11. Kept(c)'
    <3>1. /\ \A n : n \in Live(c)' <=> n \in Live(c) \/ n \in ns
          /\ ns \subseteq Copies /\ ns \subseteq Reached(c)
          /\ Reached(c) \subseteq ns \cup (given[c] \cap {"payload", "list"})
      BY <2>4 DEF Live, Names, Copies, Reached
    <3>2. Passed(c)'
      BY <2>1, <2>2, <2>10 DEF Kept, Passed
    <3>3. /\ heap'[c]["asyncMessage"] = heap[c]["asyncMessage"]
          /\ heap'[c]["first"] = heap[c]["first"]
      BY <2>4 DEF Names
    <3>4. MessageMade(c)'
      BY <2>1, <2>2, <2>10, <3>3 DEF Kept, MessageMade
    <3>. HIDE DEF ns
    <3>5. BlocksKept(c)'
      BY <2>1, <2>2, <2>10, <3>1 DEF Kept, BlocksKept, AfterPCs
    <3>6. CopiesKept(c)'
      BY <2>1, <2>2, <2>10, <3>1 DEF Kept, CopiesKept, BlocksKept, AfterPCs
    <3>7. TextsKept(c)'
      <4>1. /\ text'[c]["string"] = t["string"] /\ text'[c]["first"] = t["first"]
            /\ text'[c]["topic"] = t["topic"]
        BY <2>6 DEF TextNames, Copies
      <4>2. /\ "string" \in given[c] => text'[c]["copy"] = EsCopyString(t["first"])
            /\ "topic" \in given[c] =>
                 text'[c]["topicCopy"] = EsCopyTopicString(t["topic"], topicLen(t["topic"]))
        BY <2>6
      <4>. HIDE DEF copy, top
      <4>. QED
        BY <2>1, <2>2, <2>10, <3>3, <4>1, <4>2 DEF Kept, TextsKept
    <3>. QED
      BY <3>2, <3>4, <3>5, <3>6, <3>7 DEF Kept
  <2>. QED
    BY <2>5, <2>7, <2>8, <2>9, <2>11, OneCall
<1>. QED
  BY <1>1, <1>2

\* The post is accepted or refused, once, and answered 1.
LEMMA PostIInv ==
  ASSUME IInv, NEW c \in Calls, Post(c)
  PROVE  IInv'
<1>1. /\ pc[c] = "post" /\ UNCHANGED <<call, heap, text, task, held, misused, process>>
  BY DEF Post, At
<1>2. c \notin Waiting /\ c \notin lost /\ answer[c] = "none" /\ Kept(c)
  BY <1>1, NotPosted DEF AfterPCs
<1>3. PICK to \in {"free", "returned"} :
        /\ pc' = [pc EXCEPT ![c] = to] /\ answer' = [answer EXCEPT ![c] = "1"]
        /\ to = "free" <=> kind[c] = "checkpoint"
  BY DEF Post, Return, Goto
<1>4. posted \in Seq(Calls) /\ Len(posted) \in Nat
  BY DEF IInv, TypeOK
<1>5. PICK ps \in SUBSET {c} :
        /\ Waiting' = Waiting \cup ps /\ lost' = lost \cup ({c} \ ps)
        /\ posted' = IF c \in ps THEN Append(posted, c) ELSE posted
  <2>1. CASE posted' = Append(posted, c) /\ UNCHANGED lost
    <3>1. \A x : x \in Waiting' <=> x \in Waiting \/ x = c
      <4>1. /\ Len(posted') = Len(posted) + 1 /\ posted'[Len(posted) + 1] = c
            /\ \A i \in 1..Len(posted) : posted'[i] = posted[i]
        BY <1>4, <2>1
      <4>. QED
        BY <1>1, <1>4, <4>1 DEF Waiting
    <3>2. Waiting' = Waiting \cup {c}
      BY <3>1
    <3>. QED
      BY <2>1, <3>2
  <2>2. CASE lost' = lost \cup {c} /\ UNCHANGED posted
    <3>1. Waiting' = Waiting
      BY <1>1, <2>2 DEF Waiting
    <3>. QED
      BY <2>2, <3>1
  <2>. QED
    BY <2>1, <2>2 DEF Post
<1>6. TypeOK' /\ FreedByOneSide'
  <2>1. posted' \in Seq(Calls) /\ lost' \subseteq Calls
    BY <1>4, <1>5 DEF IInv, TypeOK
  <2>2. FreedByOneSide'
    BY <1>1 DEF IInv, FreedByOneSide
  <2>. QED
    BY <1>1, <1>3, <2>1, <2>2 DEF IInv, TypeOK, call
<1>7. PostedOnce'
  <2>1. pc'[c] \in AfterPCs /\ answer'[c] = "1" /\ held' = held /\ c \notin held
    BY <1>1, <1>2, <1>3 DEF IInv, TypeOK, AfterPCs, Waiting
  <2>2. \A d \in Calls : d # c => pc'[d] = pc[d] /\ answer'[d] = answer[d]
    BY <1>3 DEF IInv, TypeOK
  <2>3. Waiting \subseteq Calls /\ lost \subseteq Calls
    BY DEF Waiting, IInv, TypeOK
  <2>4. \A d \in Waiting' \cup lost' : pc'[d] \in AfterPCs /\ answer'[d] = "1"
    BY <1>5, <2>1, <2>2, <2>3 DEF IInv, PostedOnce
  <2>5. \A d \in lost' : d \notin Waiting'
    BY <1>2, <1>5 DEF IInv, PostedOnce
  <2>6. /\ \A i \in 1..Len(posted) : posted[i] \notin held /\ posted[i] # c
        /\ \A i, j \in 1..Len(posted) : posted[i] = posted[j] => i = j
    BY <1>2 DEF IInv, PostedOnce, Waiting
  <2>7. /\ \A i \in 1..Len(posted') : posted'[i] \notin held'
        /\ \A i, j \in 1..Len(posted') : posted'[i] = posted'[j] => i = j
    <3>1. CASE c \in ps
      <4>1. /\ Len(posted') = Len(posted) + 1 /\ posted'[Len(posted) + 1] = c
            /\ \A i \in 1..Len(posted) : posted'[i] = posted[i]
        BY <1>4, <1>5, <3>1
      <4>. QED
        BY <1>4, <2>1, <2>6, <4>1
    <3>2. CASE c \notin ps
      BY <1>5, <2>1, <2>6, <3>2
    <3>. QED
      BY <3>1, <3>2
  <2>. QED
    BY <2>4, <2>5, <2>7 DEF PostedOnce
<1>8. \A d \in Calls : d # c => SameCall(d)
  BY <1>1, <1>3, <1>5 DEF IInv, TypeOK, SameCall, call
<1>9. /\ pc'[c] = to /\ answer'[c] = "1" /\ (c \in Waiting' \/ c \in lost')
      /\ UNCHANGED <<kind, given, heap, text, task>>
      /\ Live(c)' = Live(c) /\ Pointer(c)' = Pointer(c) /\ Reached(c)' = Reached(c)
  BY <1>1, <1>3, <1>5 DEF IInv, TypeOK, call, Live, Pointer, Reached
<1>10. Kept(c)'
  <2>1. Passed(c)'
    BY <1>1, <1>2, <1>9 DEF Kept, Passed
  <2>2. MessageMade(c)'
    BY <1>1, <1>2, <1>3, <1>9 DEF Kept, MessageMade
  <2>3. BlocksKept(c)'
    BY <1>1, <1>2, <1>9 DEF Kept, BlocksKept, AfterPCs
  <2>4. CopiesKept(c)'
    BY <1>1, <1>2, <1>9 DEF Kept, CopiesKept, AfterPCs
  <2>5. TextsKept(c)'
    BY <1>1, <1>2, <1>9 DEF Kept, TextsKept
  <2>. QED
    BY <2>1, <2>2, <2>3, <2>4, <2>5 DEF Kept
<1>. QED
  BY <1>6, <1>7, <1>8, <1>10, OneCall

\* The checkpoint frees its own message.
LEMMA FreeMessageIInv ==
  ASSUME IInv, NEW c \in Calls, FreeMessage(c)
  PROVE  IInv'
<1>1. /\ pc[c] = "free" /\ pc' = [pc EXCEPT ![c] = "returned"]
      /\ UNCHANGED <<call, text, task, answer, outside, lost>>
  BY DEF FreeMessage, At, Goto
<1>2. Kept(c) /\ TypeOK /\ FreedByOneSide
  BY DEF IInv, EachCall
<1>3. kind[c] = "checkpoint" /\ given[c] = {}
  BY <1>1, <1>2, PassedBlocks DEF Kept, MessageMade
<1>4. PICK ns \in {{}, {"asyncMessage"}} :
        /\ heap' = With(c, ns, "freed")
        /\ ns = {} => heap[c]["asyncMessage"] = "none" /\ UNCHANGED <<misused, process>>
        /\ ns # {} => heap[c]["asyncMessage"] # "none" /\ Uses(c, {"asyncMessage"})
  <2>1. CASE heap[c]["asyncMessage"] = "none"
    <3>1. heap = With(c, {}, "freed")
      BY DEF IInv, TypeOK, With
    <3>. QED
      BY <2>1, <3>1 DEF FreeMessage
  <2>2. CASE heap[c]["asyncMessage"] # "none"
    BY <2>2 DEF FreeMessage
  <2>. QED
    BY <2>1, <2>2
<1>5. /\ heap' \in [Calls -> [Names -> {"none", "live", "freed"}]]
      /\ \A d \in Calls : d # c => heap'[d] = heap[d]
      /\ \A n \in Names : heap'[c][n] = IF n \in ns THEN "freed" ELSE heap[c][n]
  BY <1>4, Blocks DEF IInv
<1>6. FreedByOneSide' /\ misused' \subseteq Calls \X Names /\ process' \in {"running", "aborted"}
  <2>1. CASE ns = {}
    BY <1>4, <2>1 DEF IInv, TypeOK, FreedByOneSide
  <2>2. CASE ns # {}
    <3>1. Uses(c, {"asyncMessage"})
      BY <1>4, <2>2
    <3>2. {"asyncMessage"} \in SUBSET Names
      BY DEF Names
    <3>3. \A n \in {"asyncMessage"} : n \in Live(c) \cup {"asyncMessage", "list"}
      OBVIOUS
    <3>. QED
      BY <1>2, <3>1, <3>2, <3>3, UsesLive
  <2>. QED
    BY <2>1, <2>2
<1>7. TypeOK'
  BY <1>1, <1>5, <1>6 DEF IInv, TypeOK, call, outside
<1>8. PostedOnce' /\ Waiting' = Waiting
  BY <1>1, SamePosts DEF IInv, PostedOnce, TypeOK, outside, AfterPCs
<1>9. \A d \in Calls : d # c => SameCall(d)
  BY <1>1, <1>5, <1>8 DEF IInv, TypeOK, SameCall, call
<1>10. /\ pc'[c] = "returned" /\ answer'[c] = answer[c] /\ (c \in Waiting' <=> c \in Waiting)
       /\ (c \in lost' <=> c \in lost) /\ UNCHANGED <<kind, given, text, task>>
       /\ Pointer(c)' = Pointer(c) /\ Reached(c)' = Reached(c) /\ Reached(c) = {}
  BY <1>1, <1>3, <1>8 DEF IInv, TypeOK, call, Pointer, Reached
<1>11. Kept(c)'
  <2>1. \A n : n \in Live(c)' <=> n \in Live(c) \ ns
    BY <1>5 DEF Live, Names
  <2>2. Passed(c)'
    BY <1>1, <1>2, <1>10 DEF Kept, Passed
  <2>3. MessageMade(c)'
    <3>1. /\ heap'[c]["asyncMessage"] # "live" /\ heap'[c]["first"] = heap[c]["first"]
          /\ heap'[c]["asyncMessage"] = "none" <=> heap[c]["asyncMessage"] = "none"
      BY <1>4, <1>5 DEF Names
    <3>. QED
      BY <1>1, <1>2, <1>10, <3>1 DEF Kept, MessageMade
  <2>4. BlocksKept(c)'
    BY <1>1, <1>2, <1>3, <1>10, <2>1 DEF Kept, BlocksKept, AfterPCs
  <2>5. CopiesKept(c)'
    BY <1>1, <1>2, <1>10, <2>1 DEF Kept, CopiesKept, AfterPCs
  <2>6. TextsKept(c)'
    BY <1>3, <1>10 DEF TextsKept
  <2>. QED
    BY <2>2, <2>3, <2>4, <2>5, <2>6 DEF Kept
<1>. QED
  BY <1>6, <1>7, <1>8, <1>9, <1>11, OneCall

\* Paho frees what is its own, of which all but a list is live.
LEMMA TakeBackIInv ==
  ASSUME IInv, NEW c \in Calls, TakeBack(c)
  PROVE  IInv'
<1>. DEFINE ps == IF kind[c] = "messageArrived" /\ answer[c] = "1" THEN {} ELSE given[c]
<1>1. /\ pc[c] = "returned" /\ Uses(c, ps) /\ heap' = With(c, ps, "freed")
      /\ pc' = [pc EXCEPT ![c] = "over"]
      /\ UNCHANGED <<call, text, task, answer, outside, lost>>
  BY DEF TakeBack, At, Goto
<1>2. Kept(c) /\ TypeOK /\ FreedByOneSide
  BY DEF IInv, EachCall
<1>3. /\ given[c] \subseteq PahoBlocks /\ ps \subseteq given[c]
      /\ "payload" \in given[c] => kind[c] = "messageArrived"
  BY <1>2, PassedBlocks DEF Kept
<1>4. FreedByOneSide' /\ misused' \subseteq Calls \X Names /\ process' \in {"running", "aborted"}
  <2>1. ps \in SUBSET Names
    BY <1>3 DEF Names
  <2>2. \A n \in ps : n \in Live(c) \cup {"asyncMessage", "list"}
    BY <1>1, <1>2, <1>3 DEF Kept, BlocksKept
  <2>. HIDE DEF ps
  <2>. QED
    BY <1>1, <1>2, <2>1, <2>2, UsesLive
<1>5. /\ heap' \in [Calls -> [Names -> {"none", "live", "freed"}]]
      /\ \A d \in Calls : d # c => heap'[d] = heap[d]
      /\ \A n \in Names : heap'[c][n] = IF n \in ps THEN "freed" ELSE heap[c][n]
  <2>. HIDE DEF ps
  <2>. QED
    BY <1>1, <1>2, Blocks
<1>6. TypeOK'
  BY <1>1, <1>4, <1>5 DEF IInv, TypeOK, call, outside
<1>7. PostedOnce' /\ Waiting' = Waiting
  BY <1>1, SamePosts DEF IInv, PostedOnce, TypeOK, outside, AfterPCs
<1>8. \A d \in Calls : d # c => SameCall(d)
  BY <1>1, <1>5, <1>7 DEF IInv, TypeOK, SameCall, call
<1>9. /\ pc'[c] = "over" /\ answer'[c] = answer[c] /\ (c \in Waiting' <=> c \in Waiting)
      /\ (c \in lost' <=> c \in lost) /\ UNCHANGED <<kind, given, text, task>>
      /\ Pointer(c)' = Pointer(c) /\ Reached(c)' = Reached(c)
  BY <1>1, <1>7 DEF IInv, TypeOK, call, Pointer, Reached
<1>10. Kept(c)'
  <2>1. \A n : n \in Live(c)' <=> n \in Live(c) \ ps
    BY <1>5 DEF Live, Names
  <2>2. "asyncMessage" \notin ps /\ "first" \notin ps /\ ps \cap Copies = {}
    BY <1>3 DEF PahoBlocks, Copies
  <2>3. Passed(c)'
    BY <1>1, <1>2, <1>9 DEF Kept, Passed
  <2>4. /\ heap'[c]["asyncMessage"] = heap[c]["asyncMessage"]
        /\ heap'[c]["first"] = heap[c]["first"]
    BY <1>5, <2>2 DEF Names
  <2>5. MessageMade(c)'
    BY <1>1, <1>2, <1>9, <2>4 DEF Kept, MessageMade
  <2>6. BlocksKept(c)'
    BY <1>1, <1>2, <1>9, <2>1 DEF Kept, BlocksKept, AfterPCs
  <2>7. CopiesKept(c)'
    <3>1. c \in Waiting => "payload" \notin ps
      BY <1>3 DEF IInv, PostedOnce
    <3>2. Reached(c) \ {"list"} \subseteq Copies \cup {"payload"}
      BY DEF Reached, Copies
    <3>3. /\ pc'[c] = "post" \/ c \in Waiting' => Reached(c) \ {"list"} \subseteq Live(c)'
      <4>1. c \in Waiting => Reached(c) \ {"list"} \subseteq Live(c)
        BY <1>2 DEF Kept, CopiesKept
      <4>. HIDE DEF ps
      <4>. QED
        BY <1>9, <2>1, <2>2, <3>1, <3>2, <4>1
    <3>4. pc'[c] \in AfterPCs /\ c \notin Waiting' \cup lost' =>
            /\ Copies \cap Live(c)' = {}
            /\ answer'[c] = "1" => "payload" \notin Live(c)'
      BY <1>1, <1>2, <1>9, <2>1 DEF Kept, CopiesKept, AfterPCs
    <3>. QED
      BY <1>9, <3>3, <3>4 DEF CopiesKept, AfterPCs
  <2>8. TextsKept(c)'
    BY <1>1, <1>2, <1>9, <2>4 DEF Kept, TextsKept
  <2>. QED
    BY <2>3, <2>5, <2>6, <2>7, <2>8 DEF Kept
<1>. QED
  BY <1>4, <1>6, <1>7, <1>8, <1>10, OneCall

\* Smalltalk evaluates a message: it holds what waited in the queue.
LEMMA EvaluateIInv ==
  ASSUME IInv, Evaluate
  PROVE  IInv'
<1>. DEFINE x == Head(posted)
<1>1. /\ posted # <<>> /\ posted' = Tail(posted) /\ held' = held \cup {x}
      /\ UNCHANGED <<call, pc, heap, text, task, answer, lost, misused, process>>
  BY DEF Evaluate
<1>2. posted \in Seq(Calls) /\ Len(posted) \in Nat \ {0}
  BY <1>1, EmptySeq DEF IInv, TypeOK
<1>3. /\ x = posted[1] /\ x \in Calls /\ posted' \in Seq(Calls) /\ Len(posted') = Len(posted) - 1
      /\ \A i \in 1..Len(posted') : posted'[i] = posted[i + 1]
  BY <1>1, <1>2, HeadTailProperties
<1>. HIDE DEF x
<1>4. Waiting' = Waiting
  <2>1. \A y : y \in Waiting' <=>
               y \in held \/ y = x \/ \E i \in 1..Len(posted') : y = posted[i + 1]
    BY <1>1, <1>3 DEF Waiting
  <2>2. \A y : y \in Waiting => y \in Waiting'
    <3>. SUFFICES ASSUME NEW y, NEW i \in 1..Len(posted), y = posted[i] PROVE y \in Waiting'
      BY <2>1 DEF Waiting
    <3>1. CASE i = 1
      BY <1>3, <2>1, <3>1
    <3>2. CASE i # 1
      <4>1. i - 1 \in 1..Len(posted') /\ (i - 1) + 1 = i
        BY <1>2, <1>3, <3>2
      <4>. QED
        BY <2>1, <4>1
    <3>. QED
      BY <3>1, <3>2
  <2>3. \A y : y \in Waiting' => y \in Waiting
    <3>1. \A i \in 1..Len(posted') : i + 1 \in 1..Len(posted)
      BY <1>2, <1>3
    <3>2. 1 \in 1..Len(posted)
      BY <1>2
    <3>. QED
      BY <1>3, <2>1, <3>1, <3>2 DEF Waiting
  <2>. QED
    BY <2>2, <2>3
<1>5. TypeOK' /\ FreedByOneSide'
  <2>1. held' \subseteq Calls
    BY <1>1, <1>3 DEF IInv, TypeOK
  <2>2. FreedByOneSide'
    BY <1>1 DEF IInv, FreedByOneSide
  <2>. QED
    BY <1>1, <1>3, <2>1, <2>2 DEF IInv, TypeOK, call
<1>6. PostedOnce'
  <2>1. /\ \A i \in 1..Len(posted) : posted[i] \notin held
        /\ \A i, j \in 1..Len(posted) : posted[i] = posted[j] => i = j
    BY DEF IInv, PostedOnce
  <2>2. \A i \in 1..Len(posted') : i + 1 \in 1..Len(posted) /\ i + 1 # 1
    BY <1>2, <1>3
  <2>3. 1 \in 1..Len(posted)
    BY <1>2
  <2>4. \A i \in 1..Len(posted') : posted'[i] \notin held'
    BY <1>1, <1>3, <2>1, <2>2, <2>3
  <2>5. \A i, j \in 1..Len(posted') : posted'[i] = posted'[j] => i = j
    BY <1>2, <1>3, <2>1, <2>2
  <2>6. \A c \in Waiting \cup lost : pc'[c] \in AfterPCs /\ answer'[c] = "1"
    BY <1>1 DEF IInv, PostedOnce
  <2>7. \A c \in lost : c \notin Waiting
    BY DEF IInv, PostedOnce
  <2>. QED
    BY <1>1, <1>4, <2>4, <2>5, <2>6, <2>7 DEF PostedOnce
<1>7. \A d \in Calls : SameCall(d)
  BY <1>1, <1>4 DEF SameCall, call
<1>8. EachCall'
  BY <1>7, Elsewhere DEF IInv, EachCall
<1>. QED
  BY <1>5, <1>6, <1>8 DEF IInv

\* What Smalltalk frees is what it reaches: a payload comes with a message and a
\* list with properties.
LEMMA OwnedIsReached ==
  ASSUME NEW c \in Calls, Passed(c)
  PROVE  Owned(c) = Reached(c)
<1>1. /\ "payload" \in given[c] => "message" \in given[c]
      /\ "list" \in given[c] => "properties" \in given[c]
  <2>1. given[c] = {} \/ given[c] \in MayPass(kind[c])
    <3>1. CASE pc[c] = "idle"
      BY <3>1 DEF Passed
    <3>2. CASE pc[c] # "idle"
      BY <3>2 DEF Passed
    <3>. QED
      BY <3>1, <3>2
  <2>2. given[c] \in {{}, {"string"}, {"topic", "message", "payload"}, {"properties"},
                      {"properties", "list"}}
    BY <2>1 DEF MayPass
  <2>. QED
    BY <2>2
<1>2. given[c] \cap {"payload", "list"}
        = (given[c] \cap {"payload"}) \cup (given[c] \cap {"list"})
  OBVIOUS
<1>. QED
  BY <1>1, <1>2 DEF Owned, Reached, Pointer, MQTTMessage_nativeFree, MQTTProperties_nativeFree

\* Smalltalk frees what it reaches, which is live but for the list.
LEMMA ReleaseIInv ==
  ASSUME IInv, NEW c \in Calls, Release(c)
  PROVE  IInv'
<1>2. Kept(c) /\ TypeOK /\ FreedByOneSide
  BY DEF IInv, EachCall
<1>1. /\ c \in held /\ held' = held \ {c} /\ Uses(c, Reached(c))
      /\ heap' = With(c, Reached(c), "freed")
      /\ UNCHANGED <<call, pc, text, task, answer, posted, lost>>
  <2>1. Owned(c) = Reached(c)
    BY <1>2, OwnedIsReached DEF Kept
  <2>. QED
    BY <2>1 DEF Release
<1>3. c \in Waiting /\ c \notin lost /\ pc[c] \in AfterPCs /\ answer[c] = "1"
  BY <1>1 DEF IInv, PostedOnce, Waiting
<1>4. /\ given[c] \subseteq PahoBlocks /\ Reached(c) \subseteq Names
      /\ Reached(c) \subseteq Copies \cup {"payload", "list"}
  BY <1>2, PassedBlocks DEF Kept, Reached, Copies, Names, PahoBlocks
<1>5. FreedByOneSide' /\ misused' \subseteq Calls \X Names /\ process' \in {"running", "aborted"}
  <2>1. \A n \in Reached(c) : n \in Live(c) \cup {"asyncMessage", "list"}
    BY <1>2, <1>3 DEF Kept, CopiesKept
  <2>. QED
    BY <1>1, <1>2, <1>4, <2>1, UsesLive
<1>6. /\ heap' \in [Calls -> [Names -> {"none", "live", "freed"}]]
      /\ \A d \in Calls : d # c => heap'[d] = heap[d]
      /\ \A n \in Names : heap'[c][n] = IF n \in Reached(c) THEN "freed" ELSE heap[c][n]
  BY <1>1, <1>2, Blocks
<1>7. TypeOK'
  BY <1>1, <1>5, <1>6 DEF IInv, TypeOK, call
<1>8. Waiting' = Waiting \ {c}
  BY <1>1 DEF IInv, PostedOnce, Waiting
<1>9. PostedOnce'
  BY <1>1, <1>8 DEF IInv, PostedOnce
<1>10. \A d \in Calls : d # c => SameCall(d)
  BY <1>1, <1>6, <1>8 DEF SameCall, call
<1>11. /\ pc'[c] = pc[c] /\ answer'[c] = "1" /\ c \notin Waiting' /\ c \notin lost'
       /\ UNCHANGED <<kind, given, text, task>>
       /\ Pointer(c)' = Pointer(c) /\ Reached(c)' = Reached(c)
  BY <1>1, <1>3, <1>8 DEF call, Pointer, Reached
<1>12. Kept(c)'
  <2>1. \A n : n \in Live(c)' <=> n \in Live(c) \ Reached(c)
    BY <1>6 DEF Live, Names
  <2>2. Passed(c)'
    BY <1>2, <1>11 DEF Kept, Passed
  <2>3. /\ heap'[c]["asyncMessage"] = heap[c]["asyncMessage"]
        /\ heap'[c]["first"] = heap[c]["first"]
    BY <1>4, <1>6 DEF Names, Copies
  <2>4. MessageMade(c)'
    BY <1>2, <1>11, <2>3 DEF Kept, MessageMade
  <2>5. BlocksKept(c)'
    <3>1. given[c] \cap Copies = {}
      BY <1>4 DEF PahoBlocks, Copies
    <3>. QED
      BY <1>2, <1>3, <1>4, <1>11, <2>1, <3>1 DEF Kept, BlocksKept
  <2>6. CopiesKept(c)'
    <3>1. Copies \cap Live(c)' = {}
      BY <1>2, <2>1 DEF Kept, BlocksKept
    <3>2. "payload" \notin Live(c)'
      <4>1. "payload" \in Live(c) => "payload" \in given[c]
        BY <1>2 DEF Kept, BlocksKept, Copies
      <4>2. "payload" \in given[c] => "payload" \in Reached(c)
        BY DEF Reached
      <4>. QED
        BY <2>1, <4>1, <4>2
    <3>. QED
      BY <1>3, <1>11, <3>1, <3>2 DEF CopiesKept, AfterPCs
  <2>7. TextsKept(c)'
    BY <1>2, <1>3, <1>11, <2>3 DEF Kept, TextsKept, AfterPCs
  <2>. QED
    BY <2>2, <2>4, <2>5, <2>6, <2>7 DEF Kept
<1>. QED
  BY <1>5, <1>7, <1>9, <1>10, <1>12, OneCall

\* No call has begun.
LEMMA InitIInv ==
  ASSUME Init
  PROVE  IInv
<1>1. Waiting = {} /\ lost = {} /\ \A c \in Calls : Live(c) = {}
  BY DEF Init, Waiting, Live
<1>2. TypeOK
  BY DEF Init, TypeOK, EsWorkTask_new
<1>3. PostedOnce /\ FreedByOneSide
  BY <1>1 DEF Init, PostedOnce, FreedByOneSide
<1>4. ASSUME NEW c \in Calls PROVE Kept(c)
  <2>1. /\ pc[c] = "idle" /\ given[c] = {} /\ answer[c] = "none" /\ task[c].userData = "null"
        /\ heap[c]["asyncMessage"] = "none" /\ heap[c]["first"] = "none"
    BY DEF Init, EsWorkTask_new, Names
  <2>2. Passed(c) /\ MessageMade(c)
    BY <1>1, <2>1 DEF Passed, MessageMade
  <2>3. BlocksKept(c) /\ CopiesKept(c) /\ TextsKept(c)
    BY <1>1, <2>1 DEF BlocksKept, CopiesKept, TextsKept, AfterPCs
  <2>. QED
    BY <2>2, <2>3 DEF Kept
<1>. QED
  BY <1>2, <1>3, <1>4 DEF IInv, EachCall

\* Every step keeps the invariant.
LEMMA NextIInv ==
  ASSUME IInv, [Next]_vars
  PROVE  IInv'
<1>1. ASSUME NEW c \in Calls, NEW k \in Kinds, NEW s \in Texts, NEW ps \in MayPass(k),
             Begin(c, k, ps, s)
      PROVE  IInv'
  BY <1>1, BeginIInv
<1>2. ASSUME NEW c \in Calls,
             \/ NewFails(c) \/ NewInit(c) \/ Send(c) \/ Run(c) \/ Find(c)
             \/ Handle(c) \/ Post(c) \/ FreeMessage(c) \/ TakeBack(c) \/ Release(c)
      PROVE  IInv'
  BY <1>2, NewFailsIInv, NewInitIInv, SendIInv, RunIInv, FindIInv, HandleIInv, PostIInv,
     FreeMessageIInv, TakeBackIInv, ReleaseIInv
<1>3. CASE Evaluate
  BY <1>3, EvaluateIInv
<1>4. CASE UNCHANGED vars
  <2>1. UNCHANGED <<call, pc, heap, text, task, answer, outside, lost, misused, process>>
    BY <1>4 DEF vars
  <2>2. \A d \in Calls : SameCall(d)
    BY <2>1 DEF SameCall, call, outside, Waiting
  <2>3. EachCall'
    BY <2>2, Elsewhere DEF IInv, EachCall
  <2>4. TypeOK' /\ FreedByOneSide'
    BY <2>1 DEF IInv, TypeOK, FreedByOneSide, call, outside
  <2>5. PostedOnce'
    BY <2>1, SamePosts DEF IInv, PostedOnce, outside
  <2>. QED
    BY <2>3, <2>4, <2>5 DEF IInv
<1>. QED
  BY <1>1, <1>2, <1>3, <1>4 DEF Next

\* The inductive invariant.
THEOREM Invariant == Spec => []IInv
<1>1. Init => IInv
  BY InitIInv
<1>2. IInv /\ [Next]_vars => IInv'
  BY NextIInv
<1>. QED
  BY <1>1, <1>2, PTL DEF Spec

-----------------------------------------------------------------------------
(* The properties.                                                         *)

\* The type invariant.
THEOREM TypeCorrect == Spec => []TypeOK
<1>1. IInv => TypeOK
  BY DEF IInv
<1>. QED
  BY <1>1, Invariant, PTL

\* What Smalltalk reaches from a message that waits or is held is alive.
THEOREM CopiesLive == Spec => []ArgumentsLiveOn
<1>1. IInv => ArgumentsLiveOn
  <2>. SUFFICES ASSUME IInv, NEW c \in Waiting PROVE Reached(c) \ {"list"} \subseteq Live(c)
    BY DEF ArgumentsLiveOn
  <2>1. c \in Calls
    BY DEF IInv, TypeOK, Waiting
  <2>. QED
    BY <2>1 DEF IInv, EachCall, Kept, CopiesKept
<1>. QED
  BY <1>1, Invariant, PTL

\* No block but a checkpoint's message and a list is freed by both sides.
THEOREM OneSideFrees == Spec => []FreedByOneSide
<1>1. IInv => FreedByOneSide
  BY DEF IInv
<1>. QED
  BY <1>1, Invariant, PTL

\* What a call leaves behind is bounded.
THEOREM LeavesBounded == Spec => []LeavesOnly
<1>1. IInv => LeavesOnly
  <2>. DEFINE Left(c) ==
          {"task"}
          \cup (IF kind[c] = "checkpoint" THEN {} ELSE {"asyncMessage", "first"})
          \cup (IF kind[c] = "messageArrived" /\ answer[c] = "1"
                THEN {"topic", "message"} ELSE {})
          \cup (IF c \in lost THEN Copies \cup {"payload"} ELSE {})
  <2>1. ASSUME IInv, NEW c \in Calls, pc[c] = "over", c \notin Waiting, NEW n \in Live(c)
        PROVE  n \in Left(c)
    <3>1. Kept(c) /\ pc[c] \in AfterPCs /\ answer[c] \in {"0", "1"}
      BY <2>1 DEF IInv, TypeOK, EachCall, Kept, BlocksKept, AfterPCs
    <3>2. n \in given[c] \cup Copies \cup {"asyncMessage", "task", "first"}
      BY <2>1, <3>1 DEF Kept, BlocksKept
    <3>3. CASE n \in {"asyncMessage", "first"}
      <4>1. kind[c] = "checkpoint" => given[c] = {} /\ heap[c]["asyncMessage"] # "live"
        BY <2>1, <3>1, PassedBlocks DEF Kept, MessageMade
      <4>2. kind[c] = "checkpoint" => heap[c]["first"] # "live"
        BY <3>1, <4>1 DEF Kept, MessageMade, Pointer
      <4>3. heap[c][n] = "live"
        BY DEF Live
      <4>4. kind[c] # "checkpoint"
        BY <3>3, <4>1, <4>2, <4>3
      <4>. QED
        BY <3>3, <4>4
    <3>4. CASE n = "task"
      BY <3>4
    <3>5. CASE n \in Copies
      <4>1. c \in lost
        BY <2>1, <3>1, <3>5 DEF Kept, CopiesKept
      <4>. QED
        BY <3>5, <4>1
    <3>6. CASE n \in given[c]
      <4>1. kind[c] = "messageArrived" /\ answer[c] = "1"
        BY <2>1, <3>1, <3>6 DEF Kept, BlocksKept
      <4>2. n \in {"topic", "message", "payload"}
        BY <2>1, <3>1, <3>6, <4>1, PassedBlocks DEF Kept
      <4>3. n = "payload" => c \in lost
        BY <2>1, <3>1, <4>1 DEF Kept, CopiesKept
      <4>. QED
        BY <4>1, <4>2, <4>3
    <3>. QED
      BY <3>2, <3>3, <3>4, <3>5, <3>6
  <2>. QED
    BY <2>1 DEF LeavesOnly
<1>. QED
  BY <1>1, Invariant, PTL

\* A string arrives whole, through both copies; a topic without its end, or cut at
\* the first null inside it.
THEOREM TextsAsPassed == Spec => []TextsArrive
<1>1. IInv => TextsArrive
  <2>. SUFFICES ASSUME IInv, NEW c \in Waiting
                PROVE  LET t == text[c] IN
                       /\ "string" \in given[c] => ArrivesWhole(t["string"], t["copy"])
                       /\ "topic" \in given[c]  =>
                            IF NullInside(t["topic"])
                            THEN ArrivesCut(t["topic"], t["topicCopy"])
                            ELSE ArrivesWithoutEnd(t["topic"], t["topicCopy"])
    BY DEF TextsArrive
  <2>. DEFINE t == text[c]
  <2>1. c \in Calls /\ Kept(c) /\ pc[c] \in AfterPCs /\ answer[c] = "1"
    BY DEF IInv, TypeOK, Waiting, EachCall, PostedOnce
  <2>2. /\ "string" \in given[c] => t["string"] \in Texts
        /\ "topic" \in given[c] => t["topic"] \in Texts
        /\ "string" \in given[c] => t["copy"] = EsCopyString(t["first"])
        /\ "topic" \in given[c] =>
             t["topicCopy"] = EsCopyTopicString(t["topic"], topicLen(t["topic"]))
    BY <2>1 DEF Kept, TextsKept
  <2>3. "string" \in given[c] => t["first"] = EsCopyString(t["string"])
    <3>1. "string" \in given[c] => heap[c]["asyncMessage"] # "none"
      BY <2>1 DEF Kept, MessageMade
    <3>. QED
      BY <2>1, <3>1 DEF Kept, TextsKept
  <2>. HIDE DEF t
  <2>4. ASSUME "string" \in given[c]
        PROVE  ArrivesWhole(t["string"], t["copy"])
    <3>. DEFINE s == t["string"]
                f == EsCopyString(s)
                g == EsCopyString(f)
                n == strlen(s)
    <3>1. s \in Seq(Bytes) /\ s[n + 1] = "0"
      BY <2>2, <2>4, TextsAreBytes
    <3>2. t["copy"] = g
      BY <2>2, <2>3, <2>4
    <3>. HIDE DEF s
    <3>3. /\ f \in Seq(Bytes) /\ strlen(f) = n /\ n \in Nat
          /\ \A i \in 1..(n + 1) : f[i] = IF i <= n THEN s[i] ELSE "0"
      BY <3>1, CopyString
    <3>. HIDE DEF f
    <3>4. /\ Len(g) = n + 1
          /\ \A i \in 1..(n + 1) : g[i] = IF i <= n THEN f[i] ELSE "0"
      BY <3>3, CopyString
    <3>. HIDE DEF g, n
    <3>5. ASSUME NEW i \in 1..(n + 1) PROVE g[i] = s[i]
      <4>1. i <= n \/ i = n + 1
        BY <3>3
      <4>. QED
        BY <3>1, <3>3, <3>4, <4>1
    <3>6. ArrivesWhole(s, g)
      BY <3>3, <3>4, <3>5 DEF ArrivesWhole, SameUpTo, n
    <3>. QED
      BY <3>2, <3>6 DEF s
  <2>5. ASSUME "topic" \in given[c]
        PROVE  IF NullInside(t["topic"])
               THEN ArrivesCut(t["topic"], t["topicCopy"])
               ELSE ArrivesWithoutEnd(t["topic"], t["topicCopy"])
    <3>1. t["topic"] \in Texts
      BY <2>2, <2>5
    <3>2. t["topicCopy"] = EsCopyTopicString(t["topic"], topicLen(t["topic"]))
      BY <2>2, <2>5
    <3>. QED
      BY <3>1, <3>2, CopyTopic
  <2>. QED
    BY <2>4, <2>5 DEF t
<1>. QED
  BY <1>1, Invariant, PTL

=============================================================================
