---------------------- MODULE MQTTClientBuilderProofs ----------------------
(***************************************************************************)
(* Theorems about MQTTClientBuilder, for any processes, structures, inputs *)
(* and number of startups.  The invariants need little of one another and  *)
(* are proved apart; the one about the connect options rests on what the   *)
(* locals of a call hold at each place.                                    *)
(***************************************************************************)
EXTENDS MQTTClientBuilder, TLAPS

-----------------------------------------------------------------------------
\* What a step of buildWillOptionsStruct does to the call and to the rest.
LEMMA BuildWillMoves ==
  ASSUME NEW u \in Users, BuildWillOptionsStruct(u)
  PROVE  /\ UNCHANGED <<library, handles, startups>>
         /\ \/ Goto(u, "sslOptions")
            \/ \E s \in Structs, place \in {"freeWill", "exception"} :
                 Hold(u, place, proc[u].struct, s)
BY DEF BuildWillOptionsStruct

-----------------------------------------------------------------------------
(* Initialisation of the library.                                          *)

\* Once told, Paho stays told until a startup, when nobody is under way.
InitInv ==
  /\ proc \in [Users -> Frames]
  /\ dispatcher \in [Users -> {"nil", "current", "stale"}]
  /\ initialized \in BOOLEAN /\ default \in BOOLEAN /\ told \in BOOLEAN
  /\ initialized => told
  /\ default => told
  /\ \A u \in Users : At(u, "openSSL") \/ At(u, "newDispatcher") => told
  /\ \A u \in Users : dispatcher[u] = "current" => told

\* InitInv holds in every reachable state: whoever sets the flag or makes a
\* dispatcher has called global_init before.
THEOREM InitInvariant == Spec => []InitInv
<1>1. Init => InitInv
  <2> SUFFICES ASSUME Init PROVE InitInv
    OBVIOUS
  <2>1. Resting \in Frames
    BY DEF Resting, Frames, Places
  <2>2. proc \in [Users -> Frames]
    BY <2>1 DEF Init
  <2>3. \A u \in Users : At(u, "idle") /\ dispatcher[u] = "nil"
    BY DEF Init, At, Resting
  <2>4. dispatcher \in [Users -> {"nil", "current", "stale"}]
    BY DEF Init
  <2>5. initialized = FALSE /\ default = FALSE /\ told = FALSE
    BY DEF Init
  <2> QED
    BY <2>2, <2>3, <2>4, <2>5 DEF InitInv, At
<1>2. InitInv /\ [Next]_vars => InitInv'
  <2> SUFFICES ASSUME InitInv, [Next]_vars PROVE InitInv'
    OBVIOUS
  <2> USE DEF InitInv, At, Goto, Rest, Resting, Hold, library, handles, structs, Frames, Places
  <2>1. ASSUME NEW u \in Users, ConnectClient(u) PROVE InitInv'
    BY <2>1 DEF ConnectClient
  <2>2. ASSUME NEW u \in Users, GetClient(u) PROVE InitInv'
    BY <2>2 DEF GetClient
  <2>3. ASSUME NEW u \in Users, InitializeLibrary(u) PROVE InitInv'
    BY <2>3 DEF InitializeLibrary
  <2>4. ASSUME NEW u \in Users, GlobalInitialize(u) PROVE InitInv'
    BY <2>4 DEF GlobalInitialize
  <2>5. ASSUME NEW u \in Users, InitializeOpenSSL(u) PROVE InitInv'
    <3>1. told /\ UNCHANGED <<told, default, dispatcher>>
      BY <2>5 DEF InitializeOpenSSL
    <3>2. CASE UNCHANGED initialized /\ Goto(u, "exception")
      BY <2>5, <3>1, <3>2
    <3>3. CASE initialized' = TRUE /\ Goto(u, "newDispatcher")
      BY <2>5, <3>1, <3>3
    <3> QED
      BY <2>5, <3>2, <3>3 DEF InitializeOpenSSL
  <2>6. ASSUME NEW u \in Users, NewDispatcher(u) PROVE InitInv'
    BY <2>6 DEF NewDispatcher
  <2>7. ASSUME NEW u \in Users, BuildCreateOptionsStruct(u) PROVE InitInv'
    BY <2>7 DEF BuildCreateOptionsStruct
  <2>8. ASSUME NEW u \in Users, BuildClient(u) PROVE InitInv'
    BY <2>8 DEF BuildClient
  <2>9. ASSUME NEW u \in Users, IsConnected(u) PROVE InitInv'
    BY <2>9 DEF IsConnected
  <2>10. ASSUME NEW u \in Users, BuildConnectOptionsStruct(u) PROVE InitInv'
    BY <2>10 DEF BuildConnectOptionsStruct
  <2>11. ASSUME NEW u \in Users, BuildWillOptionsStruct(u) PROVE InitInv'
    BY <2>11, BuildWillMoves
  <2>12. ASSUME NEW u \in Users, BuildSslOptionsStruct(u) PROVE InitInv'
    BY <2>12 DEF BuildSslOptionsStruct
  <2>13. ASSUME NEW u \in Users, Connect(u) PROVE InitInv'
    BY <2>13 DEF Connect
  <2>14. ASSUME NEW u \in Users, FreeConnectOptionsStruct(u) PROVE InitInv'
    BY <2>14 DEF FreeConnectOptionsStruct
  <2>15. ASSUME NEW u \in Users, Disconnect(u) \/ FreeClient(u) PROVE InitInv'
    BY <2>15 DEF Disconnect, FreeClient
  <2>16. ASSUME NEW s \in Structs, Collect(s) PROVE InitInv'
    BY <2>16 DEF Collect
  <2>17. CASE StartUp
    BY <2>17 DEF StartUp
  <2>18. ASSUME NEW u \in Users, FreeWillOptionsStruct(u) \/ Exception(u) PROVE InitInv'
    BY <2>18 DEF FreeWillOptionsStruct, Exception
  <2>19. CASE UNCHANGED vars
    BY <2>19 DEF vars
  <2> QED
    BY <2>1, <2>2, <2>3, <2>4, <2>5, <2>6, <2>7, <2>8, <2>9, <2>10, <2>11, <2>12,
       <2>13, <2>14, <2>15, <2>16, <2>17, <2>18, <2>19 DEF Next, Step
<1> QED
  BY <1>1, <1>2, PTL DEF Spec

\* A dispatcher is made only after globalInitialize has called global_init
\* (MQTTLibraryDispatcher.class.st:79-85), for any number of processes.
THEOREM Initialized == Spec => []DispatcherMeansInitialized
<1>1. InitInv => DispatcherMeansInitialized
  BY DEF InitInv, DispatcherMeansInitialized
<1> QED
  BY <1>1, InitInvariant, PTL

-----------------------------------------------------------------------------
(* One native client per builder.                                          *)

Making == {"initialize", "globalInitialize", "openSSL", "newDispatcher", "create",
           "nativeCreate"}

\* A process makes a client only when its builder has none.
ClientInv ==
  /\ proc \in [Users -> Frames]
  /\ client \in [Users -> {"nil", "handle", "undefined"}]
  /\ clients \in [Users -> Nat]
  /\ \A u \in Users : proc[u].at \in Making => client[u] = "nil"
  /\ \A u \in Users : clients[u] = IF client[u] = "handle" THEN 1 ELSE 0

\* ClientInv holds in every reachable state: a process that makes a client has
\* none (MQTTClientBuilder.class.st, getClient).
THEOREM ClientInvariant == Spec => []ClientInv
<1>1. Init => ClientInv
  <2> SUFFICES ASSUME Init PROVE ClientInv
    OBVIOUS
  <2>1. Resting \in Frames /\ Resting.at = "idle"
    BY DEF Resting, Frames, Places
  <2>2. proc \in [Users -> Frames]
    BY <2>1 DEF Init
  <2>3. \A u \in Users : proc[u].at = "idle" /\ client[u] = "nil" /\ clients[u] = 0
    BY <2>1 DEF Init
  <2>4. client \in [Users -> {"nil", "handle", "undefined"}] /\ clients \in [Users -> Nat]
    BY DEF Init
  <2> QED
    BY <2>2, <2>3, <2>4 DEF ClientInv, Making
<1>2. ClientInv /\ [Next]_vars => ClientInv'
  <2> SUFFICES ASSUME ClientInv, [Next]_vars PROVE ClientInv'
    OBVIOUS
  <2> USE DEF ClientInv, Making, At, Goto, Rest, Resting, Hold, library, handles,
              structs, Frames, Places
  <2>1. ASSUME NEW u \in Users, ConnectClient(u) PROVE ClientInv'
    BY <2>1 DEF ConnectClient
  <2>2. ASSUME NEW u \in Users, GetClient(u) PROVE ClientInv'
    BY <2>2 DEF GetClient
  <2>3. ASSUME NEW u \in Users, InitializeLibrary(u) PROVE ClientInv'
    BY <2>3 DEF InitializeLibrary
  <2>4. ASSUME NEW u \in Users, GlobalInitialize(u) PROVE ClientInv'
    BY <2>4 DEF GlobalInitialize
  <2>5. ASSUME NEW u \in Users, InitializeOpenSSL(u) PROVE ClientInv'
    BY <2>5 DEF InitializeOpenSSL
  <2>6. ASSUME NEW u \in Users, NewDispatcher(u) PROVE ClientInv'
    BY <2>6 DEF NewDispatcher
  <2>7. ASSUME NEW u \in Users, BuildCreateOptionsStruct(u) PROVE ClientInv'
    BY <2>7 DEF BuildCreateOptionsStruct
  <2>8. ASSUME NEW u \in Users, BuildClient(u) PROVE ClientInv'
    <3>1. clients[u] = 0 /\ client[u] = "nil"
      BY <2>8 DEF BuildClient
    <3>2. CASE /\ UNCHANGED <<client, clients>>
               /\ Hold(u, "exception", None, None) \/ Goto(u, "exception")
      BY <3>2
    <3>3. CASE /\ client' = [client EXCEPT ![u] = "handle"]
               /\ clients' = [clients EXCEPT ![u] = @ + 1]
               /\ Hold(u, "isConnected", None, None)
      <4>1. clients' = [clients EXCEPT ![u] = 1]
        BY <3>1, <3>3
      <4> QED
        BY <3>3, <4>1
    <3> QED
      BY <2>8, <3>2, <3>3 DEF BuildClient
  <2>9. ASSUME NEW u \in Users, IsConnected(u) PROVE ClientInv'
    BY <2>9 DEF IsConnected
  <2>10. ASSUME NEW u \in Users, BuildConnectOptionsStruct(u) PROVE ClientInv'
    BY <2>10 DEF BuildConnectOptionsStruct
  <2>11. ASSUME NEW u \in Users, BuildWillOptionsStruct(u) PROVE ClientInv'
    BY <2>11, BuildWillMoves
  <2>12. ASSUME NEW u \in Users, BuildSslOptionsStruct(u) PROVE ClientInv'
    BY <2>12 DEF BuildSslOptionsStruct
  <2>13. ASSUME NEW u \in Users, Connect(u) PROVE ClientInv'
    BY <2>13 DEF Connect
  <2>14. ASSUME NEW u \in Users, FreeConnectOptionsStruct(u) PROVE ClientInv'
    BY <2>14 DEF FreeConnectOptionsStruct
  <2>15. ASSUME NEW u \in Users, Disconnect(u) PROVE ClientInv'
    BY <2>15 DEF Disconnect
  <2>16. ASSUME NEW u \in Users, FreeClient(u) PROVE ClientInv'
    BY <2>16 DEF FreeClient
  <2>17. ASSUME NEW s \in Structs, Collect(s) PROVE ClientInv'
    BY <2>17 DEF Collect
  <2>18. CASE StartUp
    BY <2>18 DEF StartUp
  <2>19. ASSUME NEW u \in Users, FreeWillOptionsStruct(u) \/ Exception(u) PROVE ClientInv'
    BY <2>19 DEF FreeWillOptionsStruct, Exception
  <2>20. CASE UNCHANGED vars
    BY <2>20 DEF vars
  <2> QED
    BY <2>1, <2>2, <2>3, <2>4, <2>5, <2>6, <2>7, <2>8, <2>9, <2>10, <2>11, <2>12, <2>13,
       <2>14, <2>15, <2>16, <2>17, <2>18, <2>19, <2>20
    DEF Next, Step
<1> QED
  BY <1>1, <1>2, PTL DEF Spec

\* getClient never makes a second native client beside a live one, and free
\* leaves none without a handle (MQTTClientBuilder.class.st:345-346).
THEOREM OneClient == Spec => []OneClientPerBuilder
<1>1. ClientInv => OneClientPerBuilder
  BY DEF ClientInv, OneClientPerBuilder
<1> QED
  BY <1>1, ClientInvariant, PTL

-----------------------------------------------------------------------------
(* The owner of each structure.                                            *)

OwnerInv ==
  /\ kind \in [Structs -> {"none", "create", "connect", "will", "ssl"}]
  /\ owner \in [Structs -> Users \cup {None, Forgotten}]
  /\ MemoryHasItsOwner

\* Creation gives the memory and the ref at once.
LEMMA CreateKeepsOwner ==
  ASSUME OwnerInv, NEW s \in Structs, NEW k \in {"create", "connect", "will", "ssl"},
         NEW holder \in Users \cup {Forgotten}, NEW given, Create(s, k, holder, given)
  PROVE  OwnerInv'
BY NoneAssumption DEF OwnerInv, MemoryHasItsOwner, Create

\* free takes both away, and from nobody else: nativeFree has static refs to
\* the parts.
LEMMA FreeKeepsOwner ==
  ASSUME OwnerInv, NEW s, Free(s)
  PROVE  OwnerInv'
BY DEF OwnerInv, MemoryHasItsOwner, Free, AlsoFreed

\* An exception drops references, not memory.
LEMMA ExceptionKeepsOwner ==
  ASSUME OwnerInv, NEW u \in Users, Exception(u)
  PROVE  OwnerInv'
BY NoneAssumption DEF OwnerInv, MemoryHasItsOwner, Exception

\* OwnerInv holds in every reachable state: creation, free, exceptions and the
\* tracker keep memory and ref together.
THEOREM OwnerInvariant == Spec => []OwnerInv
<1>1. Init => OwnerInv
  BY DEF Init, OwnerInv, MemoryHasItsOwner
<1>2. OwnerInv /\ [Next]_vars => OwnerInv'
  <2> SUFFICES ASSUME OwnerInv, [Next]_vars PROVE OwnerInv'
    OBVIOUS
  <2>1. ASSUME UNCHANGED <<kind, owner>> PROVE OwnerInv'
    BY <2>1 DEF OwnerInv, MemoryHasItsOwner
  <2>2. ASSUME NEW u \in Users, ConnectClient(u) PROVE OwnerInv'
    BY <2>2, <2>1 DEF ConnectClient, structs
  <2>3. ASSUME NEW u \in Users, GetClient(u) PROVE OwnerInv'
    BY <2>3, <2>1 DEF GetClient, structs
  <2>4. ASSUME NEW u \in Users, GlobalInitialize(u) PROVE OwnerInv'
    BY <2>4, <2>1 DEF GlobalInitialize, structs
  <2>5. ASSUME NEW u \in Users, NewDispatcher(u) PROVE OwnerInv'
    BY <2>5, <2>1 DEF NewDispatcher, structs
  <2>6. ASSUME NEW u \in Users, IsConnected(u) PROVE OwnerInv'
    BY <2>6, <2>1 DEF IsConnected, structs
  <2>7. ASSUME NEW u \in Users, Connect(u) PROVE OwnerInv'
    BY <2>7, <2>1 DEF Connect, structs
  <2>8. ASSUME NEW u \in Users, Disconnect(u) PROVE OwnerInv'
    BY <2>8, <2>1 DEF Disconnect, structs
  <2>9. ASSUME NEW u \in Users, FreeClient(u) PROVE OwnerInv'
    BY <2>9, <2>1 DEF FreeClient, structs
  <2>10. ASSUME NEW u \in Users, InitializeLibrary(u) PROVE OwnerInv'
    BY <2>10, <2>1 DEF InitializeLibrary, structs
  <2>11. ASSUME NEW u \in Users, InitializeOpenSSL(u) PROVE OwnerInv'
    BY <2>11, <2>1 DEF InitializeOpenSSL, structs
  <2>12. ASSUME NEW u \in Users, BuildCreateOptionsStruct(u) PROVE OwnerInv'
    BY <2>12, <2>1, CreateKeepsOwner DEF BuildCreateOptionsStruct, structs
  <2>13. ASSUME NEW u \in Users, BuildClient(u) PROVE OwnerInv'
    BY <2>13, <2>1, FreeKeepsOwner DEF BuildClient, structs
  <2>14. ASSUME NEW u \in Users, BuildConnectOptionsStruct(u) PROVE OwnerInv'
    BY <2>14, CreateKeepsOwner DEF BuildConnectOptionsStruct
  <2>15. ASSUME NEW u \in Users, BuildWillOptionsStruct(u) PROVE OwnerInv'
    BY <2>15, <2>1, CreateKeepsOwner DEF BuildWillOptionsStruct, structs
  <2>16. ASSUME NEW u \in Users, BuildSslOptionsStruct(u) PROVE OwnerInv'
    BY <2>16, CreateKeepsOwner DEF BuildSslOptionsStruct
  <2>17. ASSUME NEW u \in Users, FreeConnectOptionsStruct(u) PROVE OwnerInv'
    BY <2>17, FreeKeepsOwner DEF FreeConnectOptionsStruct
  <2>18. ASSUME NEW s \in Structs, Collect(s) PROVE OwnerInv'
    BY <2>18, FreeKeepsOwner DEF Collect
  <2>19. CASE StartUp
    BY <2>19 DEF StartUp, OwnerInv, MemoryHasItsOwner
  <2>20. ASSUME NEW u \in Users, FreeWillOptionsStruct(u) PROVE OwnerInv'
    BY <2>20, FreeKeepsOwner DEF FreeWillOptionsStruct
  <2>21. ASSUME NEW u \in Users, Exception(u) PROVE OwnerInv'
    BY <2>21, ExceptionKeepsOwner
  <2>22. CASE UNCHANGED vars
    BY <2>22, <2>1 DEF vars, structs
  <2> QED
    BY <2>1, <2>2, <2>3, <2>4, <2>5, <2>6, <2>7, <2>8, <2>9, <2>10, <2>11, <2>12, <2>13,
       <2>14, <2>15, <2>16, <2>17, <2>18, <2>19, <2>20, <2>21, <2>22
    DEF Next, Step
<1> QED
  BY <1>1, <1>2, PTL DEF Spec

\* Every native structure is freed by one ref, whatever fails and whenever the
\* collector runs (MQTTStructure.class.st:93-95).
THEOREM MemoryOwned == Spec => []MemoryHasItsOwner
<1>1. OwnerInv => MemoryHasItsOwner
  BY DEF OwnerInv
<1> QED
  BY <1>1, OwnerInvariant, PTL

-----------------------------------------------------------------------------
(* Who frees the connect options.                                          *)

Connecting == {"connect", "free"}
Built      == {"willOptions", "freeWill", "sslOptions"} \cup Connecting
Holding    == {"nativeCreate", "exception"} \cup Built

\* What the locals of a call may hold at each place.
Fits(place, struct, part) ==
  /\ place \notin Holding => struct = None /\ part = None
  /\ place \in Built => struct # None
  /\ part # None => part # struct /\ place \in {"freeWill", "exception"}

\* A process owns the structures in its locals and no others; and a connect
\* structure is complete only while its process is about to pass it and free
\* it, where no exception can make the process forget it.
OptionsInv ==
  /\ proc \in [Users -> Frames]
  /\ owner \in [Structs -> Users \cup {None, Forgotten}]
  /\ ssl \in [Structs -> Structs \cup {None}]
  /\ \A u \in Users : \A s \in Structs :
       owner[s] = u <=> s \in {proc[u].struct, proc[u].part}
  /\ \A u \in Users : Fits(proc[u].at, proc[u].struct, proc[u].part)
  /\ \A s \in Structs :
       ssl[s] # None => \E u \in Users : s = proc[u].struct /\ proc[u].at \in Connecting

\* Goto and Rest leave, or empty, the locals.
LEMMA GotoHolds ==
  ASSUME OptionsInv, NEW u \in Users, NEW place
  PROVE  /\ Goto(u, place) => Hold(u, place, proc[u].struct, proc[u].part)
         /\ Rest(u) => Hold(u, "idle", None, None)
<1>1. proc[u] \in [at : Places, struct : Structs \cup {None}, part : Structs \cup {None}]
  BY DEF OptionsInv, Frames
<1>2. [proc[u] EXCEPT !.at = place]
        = [at |-> place, struct |-> proc[u].struct, part |-> proc[u].part]
  BY <1>1
<1>3. Goto(u, place) => proc' = [proc EXCEPT ![u] = [proc[u] EXCEPT !.at = place]]
  BY DEF Goto
<1> QED
  BY <1>2, <1>3 DEF Hold, Rest, Resting

\* A complete structure is in the local of a process that connects.
LEMMA CompleteIsHeld ==
  ASSUME OptionsInv, NEW u \in Users, NEW s \in Structs, ssl[s] # None, owner[s] = u
  PROVE  s = proc[u].struct /\ proc[u].at \in Connecting
BY DEF OptionsInv

\* A step of one process that changes its locals and what it owns alike.
LEMMA HoldKeepsOptions ==
  ASSUME OptionsInv, NEW u \in Users, NEW place \in Places,
         NEW struct \in Structs \cup {None}, NEW part \in Structs \cup {None},
         Hold(u, place, struct, part), Fits(place, struct, part),
         owner' \in [Structs -> Users \cup {None, Forgotten}],
         ssl' \in [Structs -> Structs \cup {None}],
         \A s \in Structs : owner'[s] = u <=> s \in {struct, part},
         \A s \in Structs : \A v \in Users \ {u} : owner'[s] = v <=> owner[s] = v,
         \A s \in Structs :
           ssl'[s] # None => \/ ssl[s] # None /\ owner[s] # u
                             \/ s = struct /\ place \in Connecting
  PROVE  OptionsInv'
<1> DEFINE f == [at |-> place, struct |-> struct, part |-> part]
<1>1. f \in Frames /\ f.at = place /\ f.struct = struct /\ f.part = part
  BY DEF Frames
<1>2. proc'[u] = f /\ \A v \in Users \ {u} : proc'[v] = proc[v]
  BY DEF OptionsInv, Hold
<1>3. proc' \in [Users -> Frames]
  BY <1>1 DEF OptionsInv, Hold
<1> HIDE DEF f
<1>4. ASSUME NEW v \in Users, NEW s \in Structs
      PROVE  owner'[s] = v <=> s \in {proc'[v].struct, proc'[v].part}
  <2>1. CASE v = u
    BY <2>1, <1>1, <1>2
  <2>2. CASE v # u
    BY <2>2, <1>2 DEF OptionsInv
  <2> QED
    BY <2>1, <2>2
<1>5. ASSUME NEW v \in Users PROVE Fits(proc'[v].at, proc'[v].struct, proc'[v].part)
  <2>1. CASE v = u
    BY <2>1, <1>1, <1>2
  <2>2. CASE v # u
    BY <2>2, <1>2 DEF OptionsInv
  <2> QED
    BY <2>1, <2>2
<1>6. ASSUME NEW s \in Structs, ssl'[s] # None
      PROVE  \E v \in Users : s = proc'[v].struct /\ proc'[v].at \in Connecting
  <2>1. CASE s = struct /\ place \in Connecting
    BY <2>1, <1>1, <1>2
  <2>2. CASE ssl[s] # None /\ owner[s] # u
    <3>1. PICK v \in Users : s = proc[v].struct /\ proc[v].at \in Connecting
      BY <2>2 DEF OptionsInv
    <3>2. owner[s] = v
      BY <3>1 DEF OptionsInv
    <3> QED
      BY <2>2, <3>1, <3>2, <1>2
  <2> QED
    BY <1>6, <2>1, <2>2
<1>7. \A v \in Users : \A s \in Structs :
        owner'[s] = v <=> s \in {proc'[v].struct, proc'[v].part}
  BY <1>4
<1>8. \A v \in Users : Fits(proc'[v].at, proc'[v].struct, proc'[v].part)
  BY <1>5
<1>9. \A s \in Structs :
        ssl'[s] # None => \E v \in Users : s = proc'[v].struct /\ proc'[v].at \in Connecting
  BY <1>6
<1> QED
  BY <1>3, <1>7, <1>8, <1>9 DEF OptionsInv, Fits

\* A step of a process that holds nothing before it and nothing after it.
LEMMA StepKeepsOptions ==
  ASSUME OptionsInv, NEW u \in Users, NEW place \in Places \ Built,
         proc[u].at \notin Holding, Goto(u, place), UNCHANGED <<owner, ssl>>
  PROVE  OptionsInv'
<1>1. proc[u].struct = None /\ proc[u].part = None
  BY DEF OptionsInv, Fits
<1>2. Hold(u, place, None, None)
  BY <1>1, GotoHolds
<1>3. \A s \in Structs : owner[s] # u
  BY <1>1, NoneAssumption DEF OptionsInv
<1>4. Fits(place, None, None)
  BY DEF Fits
<1>5. /\ \A s \in Structs : owner'[s] = u <=> s \in {None, None}
      /\ \A s \in Structs : \A v \in Users \ {u} : owner'[s] = v <=> owner[s] = v
  BY <1>3, NoneAssumption
<1>6. \A s \in Structs :
        ssl'[s] # None => \/ ssl[s] # None /\ owner[s] # u
                          \/ s = None /\ place \in Connecting
  BY <1>3
<1>7. /\ owner' \in [Structs -> Users \cup {None, Forgotten}]
      /\ ssl' \in [Structs -> Structs \cup {None}]
  BY DEF OptionsInv
<1> QED
  BY <1>2, <1>4, <1>5, <1>6, <1>7, HoldKeepsOptions

\* A process that is not yet connecting creates a structure, which it keeps in
\* its locals with the one it had.
LEMMA TakeKeepsOptions ==
  ASSUME OptionsInv, NEW u \in Users, NEW s \in Structs, NEW place \in Places,
         NEW struct \in Structs \cup {None}, NEW part \in Structs \cup {None},
         proc[u].at \notin Connecting, owner[s] = None, UNCHANGED ssl,
         owner' = [owner EXCEPT ![s] = u],
         proc[u].part = None, {struct, part} \ {None} = {proc[u].struct, s} \ {None},
         Hold(u, place, struct, part), Fits(place, struct, part)
  PROVE  OptionsInv'
<1>1. /\ owner' \in [Structs -> Users \cup {None, Forgotten}]
      /\ ssl' \in [Structs -> Structs \cup {None}]
  BY DEF OptionsInv
<1>2. \A t \in Structs : owner[t] = u <=> t \in {proc[u].struct}
  BY NoneAssumption DEF OptionsInv
<1>3. \A t \in Structs : owner'[t] = IF t = s THEN u ELSE owner[t]
  BY DEF OptionsInv
<1>4. \A t \in Structs : owner'[t] = u <=> t \in {struct, part}
  BY <1>2, <1>3, NoneAssumption
<1>5. \A t \in Structs : \A v \in Users \ {u} : owner'[t] = v <=> owner[t] = v
  BY <1>3, NoneAssumption
<1>6. \A t \in Structs : ssl'[t] # None => ssl[t] # None /\ owner[t] # u
  BY CompleteIsHeld
<1> QED
  BY <1>1, <1>4, <1>5, <1>6, HoldKeepsOptions

\* A process hands a structure it creates to its connect structure.
LEMMA HandKeepsOptions ==
  ASSUME OptionsInv, NEW u \in Users, NEW s \in Structs,
         NEW place \in {"sslOptions", "connect"},
         proc[u].at \in {"willOptions", "sslOptions"}, owner[s] = None,
         owner' = [owner EXCEPT ![s] = Forgotten], Goto(u, place),
         \/ UNCHANGED ssl
         \/ place = "connect" /\ ssl' = [ssl EXCEPT ![proc[u].struct] = s]
  PROVE  OptionsInv'
<1>1. /\ owner' \in [Structs -> Users \cup {None, Forgotten}]
      /\ ssl' \in [Structs -> Structs \cup {None}]
  BY DEF OptionsInv
<1>2. /\ proc[u].struct \in Structs /\ proc[u].part = None
  BY DEF OptionsInv, Frames, Fits, Built, Holding, Connecting
<1>3. Hold(u, place, proc[u].struct, None)
  BY <1>2, GotoHolds
<1>4. Fits(place, proc[u].struct, None) /\ place \in Places
  BY <1>2, NoneAssumption DEF Fits, Built, Holding, Connecting, Places
<1>5. \A t \in Structs : owner'[t] = IF t = s THEN Forgotten ELSE owner[t]
  BY DEF OptionsInv
<1>6. \A t \in Structs : \A v \in Users : owner'[t] = v <=> owner[t] = v
  BY <1>5, NoneAssumption
<1>7. \A t \in Structs : owner'[t] = u <=> t \in {proc[u].struct, None}
  BY <1>2, <1>6, NoneAssumption DEF OptionsInv
<1>8. \A t \in Structs : ssl[t] # None => owner[t] # u
  BY CompleteIsHeld DEF Connecting
<1>9. \A t \in Structs : ssl'[t] # None =>
        \/ ssl[t] # None /\ owner[t] # u
        \/ t = proc[u].struct /\ place \in Connecting
  BY <1>8 DEF OptionsInv, Connecting
<1> QED
  BY <1>1, <1>2, <1>3, <1>4, <1>6, <1>7, <1>9, HoldKeepsOptions

\* A process frees one of the structures in its locals, or has none to free.
LEMMA DropKeepsOptions ==
  ASSUME OptionsInv, NEW u \in Users, NEW s \in {proc[u].struct, proc[u].part},
         NEW place \in Places, NEW struct \in Structs \cup {None},
         struct # s \/ s = None,
         {struct} \ {None} = {proc[u].struct, proc[u].part} \ {s, None},
         proc[u].at \in Connecting => s = proc[u].struct,
         owner' = [owner EXCEPT ![s] = None], ssl' = [ssl EXCEPT ![s] = None],
         Hold(u, place, struct, None), Fits(place, struct, None)
  PROVE  OptionsInv'
<1>1. /\ owner' \in [Structs -> Users \cup {None, Forgotten}]
      /\ ssl' \in [Structs -> Structs \cup {None}]
  BY DEF OptionsInv
<1>2. /\ \A t \in Structs : owner'[t] = IF t = s THEN None ELSE owner[t]
      /\ \A t \in Structs : ssl'[t] = IF t = s THEN None ELSE ssl[t]
  BY DEF OptionsInv
<1>3. \A t \in Structs : owner[t] = u <=> t \in {proc[u].struct, proc[u].part}
  BY DEF OptionsInv
<1>4. \A t \in Structs : owner'[t] = u <=> t \in {struct, None}
  BY <1>2, <1>3, NoneAssumption
<1>5. \A t \in Structs : \A v \in Users \ {u} : owner'[t] = v <=> owner[t] = v
  BY <1>2, <1>3, NoneAssumption
<1>6. \A t \in Structs : ssl'[t] # None => ssl[t] # None /\ owner[t] # u
  BY <1>2, CompleteIsHeld
<1> QED
  BY <1>1, <1>4, <1>5, <1>6, HoldKeepsOptions

\* An exception, which is raised before the structure is complete.
LEMMA ExceptionKeepsOptions ==
  ASSUME OptionsInv, NEW u \in Users, Exception(u)
  PROVE  OptionsInv'
<1>1. /\ owner' \in [Structs -> Users \cup {None, Forgotten}]
      /\ ssl' \in [Structs -> Structs \cup {None}]
  BY DEF OptionsInv, Exception, structs
<1>2. Hold(u, "idle", None, None)
  BY GotoHolds DEF Exception
<1>3. Fits("idle", None, None) /\ "idle" \in Places
  BY DEF Fits, Built, Holding, Connecting, Places
<1>4. \A t \in Structs : owner'[t] = IF owner[t] = u THEN Forgotten ELSE owner[t]
  BY DEF Exception
<1>5. \A t \in Structs : owner'[t] = u <=> t \in {None, None}
  BY <1>4, NoneAssumption
<1>6. \A t \in Structs : \A v \in Users \ {u} : owner'[t] = v <=> owner[t] = v
  BY <1>4, NoneAssumption
<1>7. \A t \in Structs : ssl'[t] # None => ssl[t] # None /\ owner[t] # u
  BY CompleteIsHeld DEF Exception, At, Connecting
<1> QED
  BY <1>1, <1>2, <1>3, <1>5, <1>6, <1>7, HoldKeepsOptions

\* OptionsInv holds in every reachable state: a process holds at most the one
\* structure its call is about, and a complete one until it frees it.
THEOREM OptionsInvariant == Spec => []OptionsInv
<1>1. Init => OptionsInv
  <2> SUFFICES ASSUME Init PROVE OptionsInv
    OBVIOUS
  <2>1. Resting \in Frames /\ Resting.at = "idle"
        /\ Resting.struct = None /\ Resting.part = None
    BY DEF Resting, Frames, Places
  <2>2. proc \in [Users -> Frames]
    BY <2>1 DEF Init
  <2>3. \A u \in Users :
          proc[u].at = "idle" /\ proc[u].struct = None /\ proc[u].part = None
    BY <2>1 DEF Init
  <2>4. \A s \in Structs : owner[s] = None /\ ssl[s] = None
    BY DEF Init
  <2> QED
    BY <2>2, <2>3, <2>4, NoneAssumption
    DEF Init, OptionsInv, Fits, Connecting, Built, Holding
<1>2. OptionsInv /\ [Next]_vars => OptionsInv'
  <2> SUFFICES ASSUME OptionsInv, [Next]_vars PROVE OptionsInv'
    OBVIOUS
  <2> USE DEF At, structs
  <2>1. ASSUME UNCHANGED <<proc, owner, ssl>> PROVE OptionsInv'
    BY <2>1 DEF OptionsInv
  <2>2. ASSUME NEW u \in Users, ConnectClient(u) PROVE OptionsInv'
    BY <2>2, StepKeepsOptions DEF ConnectClient, Places, Connecting, Built, Holding
  <2>3. ASSUME NEW u \in Users, GetClient(u) PROVE OptionsInv'
    BY <2>3, StepKeepsOptions DEF GetClient, Places, Connecting, Built, Holding
  <2>4. ASSUME NEW u \in Users, GlobalInitialize(u) PROVE OptionsInv'
    BY <2>4, StepKeepsOptions DEF GlobalInitialize, Places, Connecting, Built, Holding
  <2>5. ASSUME NEW u \in Users, IsConnected(u) PROVE OptionsInv'
    BY <2>5, StepKeepsOptions
    DEF IsConnected, Places, Connecting, Built, Holding
  <2>6. ASSUME NEW u \in Users, InitializeLibrary(u) PROVE OptionsInv'
    BY <2>6, StepKeepsOptions DEF InitializeLibrary, Places, Connecting, Built, Holding
  <2>7. ASSUME NEW u \in Users, InitializeOpenSSL(u) PROVE OptionsInv'
    BY <2>7, StepKeepsOptions DEF InitializeOpenSSL, Places, Connecting, Built, Holding
  <2>8. ASSUME NEW u \in Users, NewDispatcher(u) PROVE OptionsInv'
    BY <2>8, StepKeepsOptions DEF NewDispatcher, Places, Connecting, Built, Holding
  <2>9. ASSUME NEW u \in Users, BuildCreateOptionsStruct(u) PROVE OptionsInv'
    <3>1. CASE Goto(u, "nativeCreate") /\ UNCHANGED structs
      BY <2>9, <3>1, StepKeepsOptions
      DEF BuildCreateOptionsStruct, Places, Connecting, Built, Holding
    <3>2. CASE \E s \in Structs :
                 /\ Create(s, "create", u, {})
                 /\ Hold(u, "nativeCreate", s, None) \/ Hold(u, "exception", s, None)
                 /\ UNCHANGED <<will, ssl>>
      <4>1. proc[u].struct = None /\ proc[u].part = None /\ proc[u].at \notin Connecting
        BY <2>9 DEF BuildCreateOptionsStruct, OptionsInv, Fits, Connecting, Built, Holding
      <4>2. \A s \in Structs, place \in {"nativeCreate", "exception"} :
              Fits(place, s, None) /\ place \in Places
        BY DEF Fits, Connecting, Built, Holding, Places
      <4>3. PICK s \in Structs, place \in {"nativeCreate", "exception"} :
              /\ owner[s] = None /\ owner' = [owner EXCEPT ![s] = u]
              /\ Hold(u, place, s, None) /\ UNCHANGED ssl
        BY <3>2 DEF Create
      <4> QED
        BY <4>1, <4>2, <4>3, TakeKeepsOptions
    <3> QED
      BY <2>9, <3>1, <3>2 DEF BuildCreateOptionsStruct
  <2>10. ASSUME NEW u \in Users, BuildClient(u) PROVE OptionsInv'
    <3>1. proc[u].part = None /\ proc[u].struct \in Structs \cup {None}
      BY <2>10 DEF BuildClient, OptionsInv, Fits, Frames
    <3>2. CASE UNCHANGED structs /\ Goto(u, "exception")
      <4>1. Hold(u, "exception", proc[u].struct, None)
        BY <3>1, <3>2, GotoHolds
      <4>2. Fits("exception", proc[u].struct, None) /\ "exception" \in Places
        BY DEF Fits, Connecting, Built, Holding, Places
      <4>3. \A s \in Structs : ssl'[s] # None => ssl[s] # None /\ owner[s] # u
        BY <2>10, <3>2, CompleteIsHeld DEF BuildClient, Connecting
      <4>4. /\ owner' \in [Structs -> Users \cup {None, Forgotten}]
            /\ ssl' \in [Structs -> Structs \cup {None}]
            /\ \A s \in Structs : owner'[s] = u <=> s \in {proc[u].struct, None}
            /\ \A s \in Structs : \A v \in Users \ {u} : owner'[s] = v <=> owner[s] = v
        BY <3>1, <3>2 DEF OptionsInv
      <4> QED
        BY <3>1, <4>1, <4>2, <4>3, <4>4, HoldKeepsOptions
    <3>3. CASE /\ Hold(u, "isConnected", None, None) \/ Hold(u, "exception", None, None)
               /\ IF proc[u].struct = None THEN UNCHANGED structs ELSE Free(proc[u].struct)
      <4>1. \A place \in {"isConnected", "exception"} :
              Fits(place, None, None) /\ place \in Places
        BY DEF Fits, Connecting, Built, Holding, Places
      <4>2. /\ owner' = [owner EXCEPT ![proc[u].struct] = None]
            /\ ssl' = [ssl EXCEPT ![proc[u].struct] = None]
        BY <3>3, NoneAssumption DEF Free, OptionsInv
      <4>3. proc[u].at \notin Connecting
        BY <2>10 DEF BuildClient, Connecting
      <4> QED
        BY <3>1, <3>3, <4>1, <4>2, <4>3, DropKeepsOptions
    <3> QED
      BY <2>10, <3>2, <3>3 DEF BuildClient
  <2>11. ASSUME NEW u \in Users, BuildConnectOptionsStruct(u) PROVE OptionsInv'
    <3>1. proc[u].struct = None /\ proc[u].part = None /\ proc[u].at \notin Connecting
      BY <2>11 DEF BuildConnectOptionsStruct, OptionsInv, Fits, Connecting, Built, Holding
    <3>2. \A s \in Structs, place \in {"willOptions", "exception"} :
            Fits(place, s, None) /\ place \in Places
      BY NoneAssumption DEF Fits, Connecting, Built, Holding, Places
    <3>3. \E s \in Structs, place \in {"willOptions", "exception"} :
            /\ owner[s] = None /\ owner' = [owner EXCEPT ![s] = u]
            /\ Hold(u, place, s, None) /\ UNCHANGED ssl
      BY <2>11 DEF BuildConnectOptionsStruct, Create
    <3> QED
      BY <3>1, <3>2, <3>3, TakeKeepsOptions
  <2>12. ASSUME NEW u \in Users, NEW s \in Structs, NEW place \in {"freeWill", "exception"},
                proc[u].at \in {"willOptions", "sslOptions"},
                owner[s] = None, owner' = [owner EXCEPT ![s] = u], UNCHANGED ssl,
                Hold(u, place, proc[u].struct, s)
         PROVE  OptionsInv'
    <3>1. /\ proc[u].struct \in Structs /\ proc[u].part = None
          /\ proc[u].at \notin Connecting /\ place \in Places
      BY <2>12 DEF OptionsInv, Frames, Fits, Connecting, Built, Holding, Places
    <3>2. s # proc[u].struct
      BY <2>12, <3>1, NoneAssumption DEF OptionsInv
    <3>3. Fits(place, proc[u].struct, s)
      BY <2>12, <3>1, <3>2, NoneAssumption DEF Fits, Connecting, Built, Holding
    <3> QED
      BY <2>12, <3>1, <3>3, TakeKeepsOptions
  <2>13. ASSUME NEW u \in Users, BuildWillOptionsStruct(u) PROVE OptionsInv'
    <3>1. CASE Goto(u, "sslOptions") /\ UNCHANGED structs
      <4>1. /\ proc[u].struct \in Structs /\ proc[u].part = None
            /\ proc[u].at \notin Connecting
        BY <2>13 DEF BuildWillOptionsStruct, OptionsInv, Frames, Fits, Connecting, Built,
           Holding
      <4>2. Hold(u, "sslOptions", proc[u].struct, None)
        BY <3>1, <4>1, GotoHolds
      <4>3. Fits("sslOptions", proc[u].struct, None) /\ "sslOptions" \in Places
        BY <4>1, NoneAssumption DEF Fits, Connecting, Built, Holding, Places
      <4>4. \A s \in Structs : ssl'[s] # None => ssl[s] # None /\ owner[s] # u
        BY <3>1, <4>1, CompleteIsHeld
      <4>5. /\ owner' \in [Structs -> Users \cup {None, Forgotten}]
            /\ ssl' \in [Structs -> Structs \cup {None}]
            /\ \A s \in Structs : owner'[s] = u <=> s \in {proc[u].struct, None}
            /\ \A s \in Structs : \A v \in Users \ {u} : owner'[s] = v <=> owner[s] = v
        BY <3>1, <4>1 DEF OptionsInv
      <4> QED
        BY <4>1, <4>2, <4>3, <4>4, <4>5, HoldKeepsOptions
    <3>2. CASE \E s \in Structs, given \in WillInputs :
                 /\ Create(s, "will", Forgotten, given)
                 /\ Goto(u, "sslOptions") /\ UNCHANGED ssl
      BY <2>13, <3>2, HandKeepsOptions DEF BuildWillOptionsStruct, Create
    <3>3. CASE \E s \in Structs, place \in {"freeWill", "exception"} :
                 /\ owner[s] = None /\ owner' = [owner EXCEPT ![s] = u]
                 /\ Hold(u, place, proc[u].struct, s) /\ UNCHANGED ssl
      BY <2>13, <3>3, <2>12 DEF BuildWillOptionsStruct
    <3> QED
      BY <2>13, <3>1, <3>2, <3>3 DEF BuildWillOptionsStruct, Create
  <2>14. ASSUME NEW u \in Users, BuildSslOptionsStruct(u) PROVE OptionsInv'
    <3>1. CASE \E s \in Structs, given \in SslInputs :
                 /\ Create(s, "ssl", Forgotten, given)
                 /\ ssl' = [ssl EXCEPT ![proc[u].struct] = s]
                 /\ Goto(u, "connect")
      BY <2>14, <3>1, HandKeepsOptions DEF BuildSslOptionsStruct, Create
    <3>2. CASE \E s \in Structs :
                 /\ owner[s] = None /\ owner' = [owner EXCEPT ![s] = u]
                 /\ Hold(u, "exception", proc[u].struct, s) /\ UNCHANGED ssl
      BY <2>14, <3>2, <2>12 DEF BuildSslOptionsStruct
    <3> QED
      BY <2>14, <3>1, <3>2 DEF BuildSslOptionsStruct, Create
  <2>15. ASSUME NEW u \in Users, Connect(u) PROVE OptionsInv'
    <3>1. proc[u].struct \in Structs /\ proc[u].part = None
      BY <2>15 DEF Connect, OptionsInv, Frames, Fits, Connecting, Built, Holding
    <3>2. Hold(u, "free", proc[u].struct, None)
      BY <2>15, <3>1, GotoHolds DEF Connect
    <3>3. Fits("free", proc[u].struct, None) /\ "free" \in Places /\ "free" \in Connecting
      BY <3>1, NoneAssumption DEF Fits, Connecting, Built, Holding, Places
    <3>4. \A s \in Structs :
            ssl'[s] # None => \/ ssl[s] # None /\ owner[s] # u
                              \/ s = proc[u].struct /\ "free" \in Connecting
      BY <2>15, <3>3, CompleteIsHeld DEF Connect
    <3>5. /\ owner' \in [Structs -> Users \cup {None, Forgotten}]
          /\ ssl' \in [Structs -> Structs \cup {None}]
          /\ \A s \in Structs : owner'[s] = u <=> s \in {proc[u].struct, None}
          /\ \A s \in Structs : \A v \in Users \ {u} : owner'[s] = v <=> owner[s] = v
      BY <2>15, <3>1 DEF Connect, OptionsInv
    <3> QED
      BY <3>1, <3>2, <3>3, <3>4, <3>5, HoldKeepsOptions
  <2>16. ASSUME NEW u \in Users, FreeWillOptionsStruct(u) PROVE OptionsInv'
    <3>1. /\ proc[u].struct \in Structs /\ proc[u].part \in Structs \cup {None}
          /\ proc[u].part # proc[u].struct /\ proc[u].at \notin Connecting
      BY <2>16, NoneAssumption
      DEF FreeWillOptionsStruct, OptionsInv, Frames, Fits, Connecting, Built, Holding
    <3>2. Fits("exception", proc[u].struct, None) /\ "exception" \in Places
      BY DEF Fits, Connecting, Built, Holding, Places
    <3>3. {proc[u].struct} \ {None} = {proc[u].struct, proc[u].part} \ {proc[u].part, None}
      BY <3>1, NoneAssumption
    <3> QED
      BY <2>16, <3>1, <3>2, <3>3, DropKeepsOptions DEF FreeWillOptionsStruct, Free
  <2>17. ASSUME NEW u \in Users, FreeConnectOptionsStruct(u) PROVE OptionsInv'
    <3>1. proc[u].struct \in Structs /\ proc[u].part = None
      BY <2>17
      DEF FreeConnectOptionsStruct, OptionsInv, Frames, Fits, Connecting, Built, Holding
    <3>2. Hold(u, "idle", None, None)
      BY <2>17, GotoHolds DEF FreeConnectOptionsStruct
    <3>3. Fits("idle", None, None) /\ "idle" \in Places
      BY DEF Fits, Connecting, Built, Holding, Places
    <3>4. {None} \ {None} = {proc[u].struct, proc[u].part} \ {proc[u].struct, None}
      BY <3>1
    <3> QED
      BY <2>17, <3>1, <3>2, <3>3, <3>4, NoneAssumption, DropKeepsOptions
      DEF FreeConnectOptionsStruct, Free
  <2>18. ASSUME NEW u \in Users, Disconnect(u) \/ FreeClient(u) PROVE OptionsInv'
    BY <2>18, <2>1 DEF Disconnect, FreeClient
  <2>19. ASSUME NEW s \in Structs, Collect(s) PROVE OptionsInv'
    <3>1. /\ \A t \in Structs : owner'[t] = IF t = s THEN None ELSE owner[t]
          /\ \A t \in Structs : ssl'[t] = IF t = s THEN None ELSE ssl[t]
          /\ owner' \in [Structs -> Users \cup {None, Forgotten}]
          /\ ssl' \in [Structs -> Structs \cup {None}]
          /\ owner[s] = Forgotten /\ proc' = proc
      BY <2>19 DEF Collect, Free, OptionsInv
    <3>2. \A t \in Structs : \A u \in Users : owner'[t] = u <=> owner[t] = u
      BY <3>1, NoneAssumption
    <3> QED
      BY <3>1, <3>2 DEF OptionsInv
  <2>20. CASE StartUp
    <3>1. \A u \in Users : proc[u].struct = None /\ proc[u].part = None
      BY <2>20 DEF StartUp, OptionsInv, Fits, Connecting, Built, Holding
    <3> QED
      BY <2>20, <3>1, NoneAssumption DEF StartUp, OptionsInv
  <2>21. ASSUME NEW u \in Users, Exception(u) PROVE OptionsInv'
    BY <2>21, ExceptionKeepsOptions
  <2>22. CASE UNCHANGED vars
    BY <2>22, <2>1 DEF vars
  <2> QED
    BY <2>2, <2>3, <2>4, <2>5, <2>6, <2>7, <2>8, <2>9, <2>10, <2>11, <2>13,
       <2>14, <2>15, <2>16, <2>17, <2>18, <2>19, <2>20, <2>21, <2>22
    DEF Next, Step
<1> QED
  BY <1>1, <1>2, PTL DEF Spec

\* `ensure:' frees the structure that holds the passwords before connectClient:
\* answers, whatever Paho answers (MQTTClientBuilder.class.st:256-258).
THEOREM FreedByTheCall == Spec => []ConnectOptionsFreedByTheCall
<1>1. OptionsInv => ConnectOptionsFreedByTheCall
  BY NoneAssumption DEF OptionsInv, ConnectOptionsFreedByTheCall
<1> QED
  BY <1>1, OptionsInvariant, PTL

-----------------------------------------------------------------------------
(* The strings of the structures.                                          *)

Kinds == {"none", "create", "connect", "will", "ssl"}

\* A copy of a string is a field of the structure it is in, while that is there.
TextsInv ==
  /\ kind \in [Structs -> Kinds]
  /\ \A t \in texts : t \in Structs \X Texts(kind[t[1]])

\* Only a structure that is there has strings.
LEMMA NoTexts ==
  ASSUME NEW k \in Kinds
  PROVE  /\ k \in {"none", "create"} => Texts(k) = {}
         /\ Texts(k) \subseteq UNION {Texts(l) : l \in {"connect", "will", "ssl"}}
<1>1. CASE k \in {"none", "create"}
  BY <1>1 DEF Texts
<1>2. CASE k \in {"connect", "will", "ssl"}
  BY <1>2
<1> QED
  BY <1>1, <1>2 DEF Kinds

\* A setter that raises an exception has left no copy that was not asked for.
LEMMA CopiedOfGiven ==
  ASSUME NEW k, NEW given, NEW copied \in CopiedOf(k, given)
  PROVE  copied \subseteq given
BY DEF CopiedOf

\* The setters copy to fields that nativeFree of that kind frees.
LEMMA CreateKeepsTexts ==
  ASSUME TextsInv, NEW s \in Structs, NEW k \in Kinds, NEW holder,
         NEW given \in SUBSET Texts(k), Create(s, k, holder, given)
  PROVE  TextsInv'
<1>1. /\ kind[s] = "none" /\ kind' = [kind EXCEPT ![s] = k]
      /\ texts' = texts \cup ({s} \X given)
  BY DEF Create
<1>2. \A t \in texts : t[1] # s
  BY <1>1, NoTexts DEF TextsInv, Kinds
<1>3. kind' \in [Structs -> Kinds] /\ kind'[s] = k /\ \A r \in Structs \ {s} : kind'[r] = kind[r]
  BY <1>1 DEF TextsInv
<1>4. \A t \in texts : t \in Structs \X Texts(kind'[t[1]])
  BY <1>2, <1>3 DEF TextsInv
<1>5. \A t \in {s} \X given : t \in Structs \X Texts(kind'[t[1]])
  BY <1>3
<1> QED
  BY <1>1, <1>3, <1>4, <1>5 DEF TextsInv

\* nativeFree frees all the strings of its structure.
LEMMA FreeKeepsTexts ==
  ASSUME TextsInv, NEW s, Free(s)
  PROVE  TextsInv'
<1>1. /\ kind' = [t \in Structs |-> IF t = s THEN "none" ELSE kind[t]]
      /\ texts' = texts \ ({s} \X Texts(kind[s]))
  BY DEF Free, AlsoFreed, FreedTexts
<1>2. \A t \in texts' : t \in texts /\ t[1] \in Structs /\ t[1] # s
  BY <1>1 DEF TextsInv
<1>3. \A t \in texts' : kind'[t[1]] = kind[t[1]]
  BY <1>1, <1>2
<1>4. kind' \in [Structs -> Kinds]
  BY <1>1 DEF TextsInv, Kinds
<1> QED
  BY <1>2, <1>3, <1>4 DEF TextsInv

\* TextsInv holds in every reachable state: strings come with their structure
\* and go with it.
THEOREM TextsInvariant == Spec => []TextsInv
<1>1. Init => TextsInv
  BY DEF Init, TextsInv, Kinds
<1>2. TextsInv /\ [Next]_vars => TextsInv'
  <2> SUFFICES ASSUME TextsInv, [Next]_vars PROVE TextsInv'
    OBVIOUS
  <2>1. ASSUME UNCHANGED <<kind, texts>> PROVE TextsInv'
    BY <2>1 DEF TextsInv
  <2>2. ASSUME NEW u \in Users,
               \/ ConnectClient(u) \/ GetClient(u) \/ GlobalInitialize(u) \/ NewDispatcher(u)
               \/ IsConnected(u) \/ Connect(u) \/ Disconnect(u) \/ FreeClient(u)
               \/ InitializeLibrary(u) \/ InitializeOpenSSL(u) \/ Exception(u)
        PROVE  TextsInv'
    BY <2>2, <2>1 DEF ConnectClient, GetClient, GlobalInitialize, NewDispatcher, IsConnected,
       Connect, Disconnect, FreeClient, InitializeLibrary, InitializeOpenSSL, Exception, structs
  <2>3. ASSUME NEW u \in Users, BuildCreateOptionsStruct(u) PROVE TextsInv'
    BY <2>3, <2>1, CreateKeepsTexts DEF BuildCreateOptionsStruct, structs, Kinds
  <2>4. ASSUME NEW u \in Users, BuildClient(u) PROVE TextsInv'
    BY <2>4, <2>1, FreeKeepsTexts DEF BuildClient, structs
  <2>5. ASSUME NEW u \in Users, BuildConnectOptionsStruct(u) PROVE TextsInv'
    <3>1. PICK s \in Structs, given \in ConnectInputs :
            \E copied \in {given} \cup CopiedOf("connect", given) :
              Create(s, "connect", u, copied)
      BY <2>5 DEF BuildConnectOptionsStruct
    <3>2. \A copied \in {given} \cup CopiedOf("connect", given) :
            copied \in SUBSET Texts("connect")
      BY InputsAssumption, CopiedOfGiven
    <3> QED
      BY <3>1, <3>2, CreateKeepsTexts DEF Kinds
  <2>6. ASSUME NEW u \in Users, BuildWillOptionsStruct(u) PROVE TextsInv'
    <3>1. CASE UNCHANGED <<kind, texts>>
      BY <2>1, <3>1
    <3>2. ASSUME NEW s \in Structs, NEW given \in WillInputs,
                 NEW copied \in {given, given \cap {"topicName"}} \cup CopiedOf("will", given),
                 NEW holder \in {u, Forgotten}, Create(s, "will", holder, copied)
          PROVE  TextsInv'
      <4>1. copied \in SUBSET Texts("will")
        BY InputsAssumption, CopiedOfGiven
      <4> QED
        BY <3>2, <4>1, CreateKeepsTexts DEF Kinds
    <3> QED
      BY <2>6, <3>1, <3>2 DEF BuildWillOptionsStruct, structs
  <2>7. ASSUME NEW u \in Users, BuildSslOptionsStruct(u) PROVE TextsInv'
    <3>1. PICK s \in Structs, given \in SslInputs, holder \in {u, Forgotten} :
            \E copied \in {given} \cup CopiedOf("ssl", given) :
              Create(s, "ssl", holder, copied)
      BY <2>7 DEF BuildSslOptionsStruct
    <3>2. \A copied \in {given} \cup CopiedOf("ssl", given) : copied \in SUBSET Texts("ssl")
      BY InputsAssumption, CopiedOfGiven
    <3> QED
      BY <3>1, <3>2, CreateKeepsTexts DEF Kinds
  <2>8. ASSUME NEW u \in Users, FreeConnectOptionsStruct(u) \/ FreeWillOptionsStruct(u)
        PROVE  TextsInv'
    BY <2>8, FreeKeepsTexts DEF FreeConnectOptionsStruct, FreeWillOptionsStruct
  <2>9. ASSUME NEW s \in Structs, Collect(s) PROVE TextsInv'
    BY <2>9, FreeKeepsTexts DEF Collect
  <2>10. CASE StartUp
    BY <2>10 DEF StartUp, TextsInv, Kinds
  <2>11. CASE UNCHANGED vars
    BY <2>11, <2>1 DEF vars, structs
  <2> QED
    BY <2>2, <2>3, <2>4, <2>5, <2>6, <2>7, <2>8, <2>9, <2>10, <2>11 DEF Next, Step
<1> QED
  BY <1>1, <1>2, PTL DEF Spec

\* Freeing a structure frees the strings that were copied for it and no others
\* (MQTTClientBuilder.class.st:331-332).
THEOREM TextsFreed == Spec => []TextsGoWithTheirStruct
<1>1. TextsInv => TextsGoWithTheirStruct
  BY NoTexts DEF TextsInv, TextsGoWithTheirStruct, Kinds
<1> QED
  BY <1>1, TextsInvariant, PTL

-----------------------------------------------------------------------------
(* Types.                                                                  *)

\* What the other invariants leave open.
RestInv ==
  /\ connected \in SUBSET Users
  /\ will \in [Structs -> Structs \cup {None}]
  /\ startups \in 0 .. MaxStartups

\* RestInv holds in every reachable state: the connected, the wills and the
\* startups keep their types.
THEOREM RestInvariant == Spec => []RestInv
<1>1. Init => RestInv
  BY StartupsAssumption DEF Init, RestInv
<1>2. RestInv /\ [Next]_vars => RestInv'
  <2> SUFFICES ASSUME RestInv, [Next]_vars PROVE RestInv'
    OBVIOUS
  <2> USE DEF RestInv, handles, structs
  <2>1. ASSUME NEW u \in Users,
               \/ ConnectClient(u) \/ GetClient(u) \/ GlobalInitialize(u) \/ NewDispatcher(u)
               \/ IsConnected(u) \/ Connect(u) \/ Disconnect(u) \/ FreeClient(u)
        PROVE  RestInv'
    BY <2>1 DEF ConnectClient, GetClient, GlobalInitialize, NewDispatcher, IsConnected,
       Connect, Disconnect, FreeClient
  <2>2. ASSUME NEW u \in Users,
               \/ InitializeLibrary(u) \/ InitializeOpenSSL(u) \/ BuildCreateOptionsStruct(u)
               \/ BuildConnectOptionsStruct(u) \/ BuildSslOptionsStruct(u) \/ Exception(u)
        PROVE  RestInv'
    BY <2>2 DEF InitializeLibrary, InitializeOpenSSL, BuildCreateOptionsStruct,
       BuildConnectOptionsStruct, BuildSslOptionsStruct, Exception
  <2>3. ASSUME NEW u \in Users, BuildWillOptionsStruct(u) PROVE RestInv'
    BY <2>3 DEF BuildWillOptionsStruct
  <2>4. ASSUME NEW s, Free(s), UNCHANGED <<connected, startups>> PROVE RestInv'
    BY <2>4 DEF Free
  <2>5. ASSUME NEW u \in Users,
               BuildClient(u) \/ FreeWillOptionsStruct(u) \/ FreeConnectOptionsStruct(u)
        PROVE  RestInv'
    BY <2>5, <2>4 DEF BuildClient, FreeWillOptionsStruct, FreeConnectOptionsStruct
  <2>6. ASSUME NEW s \in Structs, Collect(s) PROVE RestInv'
    BY <2>6, <2>4 DEF Collect
  <2>7. CASE StartUp
    BY <2>7, StartupsAssumption DEF StartUp
  <2>8. CASE UNCHANGED vars
    BY <2>8 DEF vars
  <2> QED
    BY <2>1, <2>2, <2>3, <2>5, <2>6, <2>7, <2>8 DEF Next, Step
<1> QED
  BY <1>1, <1>2, PTL DEF Spec

\* Every variable keeps its type: the six invariants together.
THEOREM TypeCorrect == Spec => []TypeOK
<1>1. ASSUME InitInv, ClientInv, OwnerInv, OptionsInv, TextsInv, RestInv
      PROVE  TypeOK
  <2>1. clients \in [Users -> {0, 1}]
    BY <1>1 DEF ClientInv
  <2>2. texts \in SUBSET (Structs \X UNION {Texts(k) : k \in {"connect", "will", "ssl"}})
    BY <1>1, NoTexts DEF TextsInv
  <2> QED
    BY <1>1, <2>1, <2>2 DEF InitInv, ClientInv, OwnerInv, OptionsInv, RestInv, TypeOK
<1> QED
  BY <1>1, InitInvariant, ClientInvariant, OwnerInvariant, OptionsInvariant, TextsInvariant,
     RestInvariant, PTL
=============================================================================
