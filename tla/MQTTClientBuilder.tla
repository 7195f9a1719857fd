------------------------- MODULE MQTTClientBuilder -------------------------
(***************************************************************************)
(* Connecting a client: source/MQTTAppClient/MQTTClientBuilder.class.st,   *)
(* with what it calls in MQTTLibraryDispatcher, MQTTClient and the option  *)
(* structures of MQTTAppOptions.                                           *)
(*                                                                         *)
(* Each process of the application has a builder of its own, and they      *)
(* share the library.  An option structure is native memory with a smart   *)
(* ref: while a variable of the process refers to that ref it is `held' by *)
(* the process; afterwards it is forgotten, and the memory tracker frees   *)
(* it at any time (see MQTTMemoryTracker).  A connect structure refers to  *)
(* its will and ssl structures by address only.                            *)
(***************************************************************************)
EXTENDS Naturals, Sequences

CONSTANTS
  Users,         \* the processes, each with its builder
  Structs,       \* the option structures there may be at once
  ConnectInputs, \* the sets of texts connectOptions may ask for
  WillInputs,    \* those willOptions may ask for
  SslInputs,     \* those sslOptions may ask for
  MaxStartups,   \* bound: startups of a saved image
  None, Forgotten

\* The pointer fields that nativeFree frees, of each kind of structure.
Texts(k) ==
  CASE k = "connect" -> {"username", "password", "serverURIs", "binarypwd"}
    [] k = "will"    -> {"topicName", "message", "payload"}
    [] k = "ssl"     -> {"trustStore", "keyStore", "privateKey", "privateKeyPassword",
                         "enabledCipherSuites", "CApath"}
    [] OTHER         -> {}

\* The order in which those of them that are asked for are copied.
CopyOrder(k) ==
  CASE k = "connect" -> <<"username", "password", "binarypwd", "serverURIs">>
    [] k = "will"    -> <<"topicName", "message", "payload">>
    [] k = "ssl"     -> <<"trustStore", "keyStore", "privateKey", "privateKeyPassword",
                          "enabledCipherSuites", "CApath">>
    [] OTHER         -> << >>

\* What has been copied when a setter raises an exception.
CopiedOf(k, given) ==
  {given \cap {CopyOrder(k)[i] : i \in 1 .. n} : n \in 0 .. Len(CopyOrder(k))}

ASSUME InputsAssumption ==
  /\ ConnectInputs \subseteq SUBSET Texts("connect")
  /\ WillInputs \subseteq SUBSET Texts("will")
  /\ SslInputs \subseteq SUBSET Texts("ssl")
ASSUME NoneAssumption ==
  None \notin Structs \cup Users /\ Forgotten \notin Users \cup {None}
ASSUME StartupsAssumption == MaxStartups \in Nat

VARIABLES
  initialized, \* IsLibraryInitialized
  default,     \* Default is a dispatcher
  told,        \* global_init has told Paho to leave OpenSSL alone
  dispatcher,  \* of each builder: "nil", "current", or "stale" after a startup
  client,      \* of each builder: "nil", "handle", or "undefined"
  clients,     \* how many native clients each builder has made and not freed
  connected,   \* the builders whose native client is connected
  kind,        \* of the native memory of each structure; "none" if it is free
  owner,       \* of its smart ref: a user who holds it, Forgotten, or None
  texts,       \* the copies of strings in native memory, per structure
  will, ssl,   \* the pointers in each connect structure
  proc,        \* where each process is in connectClient:, the structure it builds, and
               \* the will or ssl structure for it that could not be completed
  startups

library == <<initialized, default, told>>
handles == <<dispatcher, client, clients, connected>>
structs == <<kind, owner, texts, will, ssl>>
vars    == <<library, handles, structs, proc, startups>>

Places == {"idle", "getClient", "initialize", "globalInitialize", "openSSL",
           "newDispatcher", "create", "nativeCreate", "isConnected",
           "connectOptions", "willOptions", "freeWill", "sslOptions", "connect", "free",
           "exception"}
Frames  == [at : Places, struct : Structs \cup {None}, part : Structs \cup {None}]
Resting == [at |-> "idle", struct |-> None, part |-> None]

Init ==
  /\ initialized = FALSE /\ default = FALSE /\ told = FALSE
  /\ dispatcher = [u \in Users |-> "nil"]
  /\ client = [u \in Users |-> "nil"]
  /\ clients = [u \in Users |-> 0]
  /\ connected = {}
  /\ kind = [s \in Structs |-> "none"]
  /\ owner = [s \in Structs |-> None]
  /\ texts = {}
  /\ will = [s \in Structs |-> None]
  /\ ssl = [s \in Structs |-> None]
  /\ proc = [u \in Users |-> Resting]
  /\ startups = 0

At(u, place)   == proc[u].at = place
Goto(u, place) == proc' = [proc EXCEPT ![u].at = place]
Rest(u)        == proc' = [proc EXCEPT ![u] = Resting]

Hold(u, place, struct, part) ==
  proc' = [proc EXCEPT ![u] = [at |-> place, struct |-> struct, part |-> part]]

\* The handler of connectClient: answers false after the application's block, when
\* the call is unwound: what it held is forgotten.
Exception(u) ==
  /\ At(u, "exception")
  /\ Rest(u)
  /\ owner' = [s \in Structs |-> IF owner[s] = u THEN Forgotten ELSE owner[s]]
  /\ UNCHANGED <<library, handles, kind, texts, will, ssl, startups>>

-----------------------------------------------------------------------------
(* Option structures.                                                      *)

\* create: and the setters that copy a string to native memory.
Create(s, k, holder, given) ==
  /\ kind[s] = "none" /\ owner[s] = None
  /\ kind' = [kind EXCEPT ![s] = k]
  /\ owner' = [owner EXCEPT ![s] = holder]
  /\ texts' = texts \cup ({s} \X given)

\* Mutant: the binary password is left behind.
FreedTextsButBinary(s) == {s} \X (Texts(kind[s]) \ {"binarypwd"})

\* The strings nativeFree frees before the structure.
FreedTexts(s) == {s} \X Texts(kind[s])

\* Mutant: what the comment says.
AlsoFreedAsCommented(s) == {will[s], ssl[s]} \ {None}

\* nativeFree gets will and ssl as static refs: freeing those frees no memory.
AlsoFreed(s) == {}

\* MQTTStructure>>free of the smart ref of s.
Free(s) ==
  /\ kind' = [t \in Structs |-> IF t \in AlsoFreed(s) \cup {s} THEN "none" ELSE kind[t]]
  /\ texts' = texts \ (UNION {FreedTexts(t) : t \in AlsoFreed(s) \cup {s}})
  /\ owner' = [owner EXCEPT ![s] = None]
  /\ will' = [will EXCEPT ![s] = None]
  /\ ssl' = [ssl EXCEPT ![s] = None]

\* The collector, the finalizer and the tracker, on a ref nobody refers to.
Collect(s) ==
  /\ owner[s] = Forgotten
  /\ Free(s)
  /\ UNCHANGED <<library, handles, proc, startups>>

-----------------------------------------------------------------------------
(* The library: MQTTLibraryDispatcher class.                               *)

\* A process calls connectClient:.
ConnectClient(u) ==
  /\ At(u, "idle")
  /\ Goto(u, "getClient")
  /\ UNCHANGED <<library, handles, structs, startups>>

\* Mutant: a client that is not connected is replaced.
GetClientRenews(u) ==
  /\ At(u, "getClient")
  /\ client' = [client EXCEPT ![u] = IF u \in connected THEN @ ELSE "nil"]
  /\ IF client'[u] = "handle"
       THEN Goto(u, "isConnected") /\ UNCHANGED dispatcher
       ELSE IF dispatcher[u] # "nil" \/ default
         THEN /\ dispatcher' = [dispatcher EXCEPT ![u] = IF @ = "nil" THEN "current" ELSE @]
              /\ Goto(u, "create")
         ELSE Goto(u, "initialize") /\ UNCHANGED dispatcher
  /\ UNCHANGED <<library, clients, connected, structs, startups>>

\* getClient drops an undefined handle; a new client needs the dispatcher of
\* the builder, which is the default one the first time.
GetClient(u) ==
  /\ At(u, "getClient")
  /\ client' = [client EXCEPT ![u] = IF @ = "undefined" THEN "nil" ELSE @]
  /\ IF client'[u] = "handle"
       THEN Goto(u, "isConnected") /\ UNCHANGED dispatcher
       ELSE IF dispatcher[u] # "nil" \/ default
         THEN /\ dispatcher' = [dispatcher EXCEPT ![u] = IF @ = "nil" THEN "current" ELSE @]
              /\ Goto(u, "create")
         ELSE Goto(u, "initialize") /\ UNCHANGED dispatcher
  /\ UNCHANGED <<library, clients, connected, structs, startups>>

\* Mutant: the flag is set first, to keep others out.
InitializeLibraryEarly(u) ==
  /\ At(u, "initialize")
  /\ \/ /\ initialized' = TRUE
        /\ Goto(u, IF initialized THEN "newDispatcher" ELSE "globalInitialize")
     \/ ~initialized /\ Goto(u, "exception") /\ UNCHANGED initialized
  /\ UNCHANGED <<default, told, handles, structs, startups>>

\* initializeLibrary; statusCheck finds no shared library, or all is well.
InitializeLibrary(u) ==
  /\ At(u, "initialize")
  /\ \/ Goto(u, IF initialized THEN "newDispatcher" ELSE "globalInitialize")
     \/ ~initialized /\ Goto(u, "exception")
  /\ UNCHANGED <<library, handles, structs, startups>>

\* MQTTClientInitOptions class>>globalInitialize, whose structure is created,
\* passed to global_init and freed in one method.
GlobalInitialize(u) ==
  /\ At(u, "globalInitialize")
  /\ told' = TRUE
  /\ Goto(u, "openSSL")
  /\ UNCHANGED <<initialized, default, handles, structs, startups>>

\* The initialisation of OpenSSL, external, may signal an error.
InitializeOpenSSL(u) ==
  /\ At(u, "openSSL")
  /\ \/ initialized' = TRUE /\ Goto(u, "newDispatcher")
     \/ UNCHANGED initialized /\ Goto(u, "exception")
  /\ UNCHANGED <<default, told, handles, structs, startups>>

NewDispatcher(u) ==
  /\ At(u, "newDispatcher")
  /\ default' = TRUE
  /\ dispatcher' = [dispatcher EXCEPT ![u] = "current"]
  /\ Goto(u, "create")
  /\ UNCHANGED <<initialized, told, client, clients, connected, structs, startups>>

-----------------------------------------------------------------------------
(* buildClient.                                                            *)

\* A builder with an mqttVersion passes options to the native function, unless their
\* setter raises an exception.
BuildCreateOptionsStruct(u) ==
  /\ At(u, "create")
  /\ \/ /\ Goto(u, "nativeCreate")
        /\ UNCHANGED structs
     \/ \E s \in Structs :
          /\ Create(s, "create", u, {})
          /\ Hold(u, "nativeCreate", s, None) \/ Hold(u, "exception", s, None)
          /\ UNCHANGED <<will, ssl>>
  /\ UNCHANGED <<library, handles, startups>>

\* The native call, and free of the options unless it failed.  If it succeeded but
\* gave no handle, the builder answers nil and its caller signals.
BuildClient(u) ==
  /\ At(u, "nativeCreate")
  /\ \/ /\ \/ /\ client' = [client EXCEPT ![u] = "handle"]
              /\ clients' = [clients EXCEPT ![u] = @ + 1]
              /\ Hold(u, "isConnected", None, None)
           \/ UNCHANGED <<client, clients>> /\ Hold(u, "exception", None, None)
        /\ IF proc[u].struct = None THEN UNCHANGED structs ELSE Free(proc[u].struct)
     \/ UNCHANGED <<client, clients, structs>> /\ Goto(u, "exception")
  /\ UNCHANGED <<library, dispatcher, connected, startups>>

-----------------------------------------------------------------------------
(* buildConnectOptionsStruct and the rest of connectClient:.               *)

IsConnected(u) ==
  /\ At(u, "isConnected")
  /\ Goto(u, IF u \in connected THEN "idle" ELSE "connectOptions")
  /\ UNCHANGED <<library, handles, structs, startups>>

\* The fields of the structure itself.  A setter raises an exception when it cannot
\* convert its value, as when serverURIs holds anything but strings.
BuildConnectOptionsStruct(u) ==
  /\ At(u, "connectOptions")
  /\ \E s \in Structs, given \in ConnectInputs :
       \/ /\ Create(s, "connect", u, given)
          /\ Hold(u, "willOptions", s, None)
       \/ \E copied \in CopiedOf("connect", given) :
            /\ Create(s, "connect", u, copied)
            /\ Hold(u, "exception", s, None)
  /\ UNCHANGED <<library, handles, will, ssl, startups>>

\* No options, no will; otherwise the connect structure gets its address.  With a
\* message that is neither string nor bytes, the will that has its topicName is freed.
BuildWillOptionsStruct(u) ==
  /\ At(u, "willOptions")
  /\ \/ /\ Goto(u, "sslOptions")
        /\ UNCHANGED structs
     \/ \E s \in Structs, given \in WillInputs :
          /\ Create(s, "will", Forgotten, given)
          /\ will' = [will EXCEPT ![proc[u].struct] = s]
          /\ Goto(u, "sslOptions")
          /\ UNCHANGED ssl
     \/ \E s \in Structs, given \in WillInputs :
          /\ \/ /\ Create(s, "will", u, given \cap {"topicName"})
                /\ Hold(u, "freeWill", proc[u].struct, s)
             \/ \E copied \in CopiedOf("will", given) :
                  /\ Create(s, "will", u, copied)
                  /\ Hold(u, "exception", proc[u].struct, s)
          /\ UNCHANGED <<will, ssl>>
  /\ UNCHANGED <<library, handles, startups>>

FreeWillOptionsStruct(u) ==
  /\ At(u, "freeWill")
  /\ Free(proc[u].part)
  /\ Hold(u, "exception", proc[u].struct, None)
  /\ UNCHANGED <<library, handles, startups>>

BuildSslOptionsStruct(u) ==
  /\ At(u, "sslOptions")
  /\ \E s \in Structs, given \in SslInputs :
       \/ /\ Create(s, "ssl", Forgotten, given)
          /\ ssl' = [ssl EXCEPT ![proc[u].struct] = s]
          /\ Goto(u, "connect")
       \/ \E copied \in CopiedOf("ssl", given) :
            /\ Create(s, "ssl", u, copied)
            /\ Hold(u, "exception", proc[u].struct, s)
            /\ UNCHANGED ssl
  /\ UNCHANGED <<library, handles, will, startups>>

\* Mutant: without `ensure:'.
ConnectWithoutEnsure(u) ==
  /\ At(u, "connect")
  /\ \/ /\ connected' = connected \cup {u}
        /\ Goto(u, "free")
     \/ UNCHANGED connected /\ Goto(u, "exception")
  /\ UNCHANGED <<library, dispatcher, client, clients, structs, startups>>

\* MQTTClient>>connect:, which raises an exception unless Paho connects; the
\* structure is freed either way.
Connect(u) ==
  /\ At(u, "connect")
  /\ connected' \in {connected, connected \cup {u}}
  /\ Goto(u, "free")
  /\ UNCHANGED <<library, dispatcher, client, clients, structs, startups>>

FreeConnectOptionsStruct(u) ==
  /\ At(u, "free")
  /\ Free(proc[u].struct)
  /\ Rest(u)
  /\ UNCHANGED <<library, handles, startups>>

-----------------------------------------------------------------------------
(* The client, between calls.                                              *)

\* MQTTClient>>disconnect:, which may fail, or the network does it.
Disconnect(u) ==
  /\ At(u, "idle")
  /\ u \in connected
  /\ connected' = connected \ {u}
  /\ UNCHANGED <<library, dispatcher, client, clients, structs, proc, startups>>

\* Mutant: the handle does not own the client.
FreeClientUnowned(u) ==
  /\ At(u, "idle")
  /\ client[u] = "handle"
  /\ client' = [client EXCEPT ![u] = "undefined"]
  /\ connected' = connected \ {u}
  /\ UNCHANGED <<library, dispatcher, clients, structs, proc, startups>>

\* free of the client, and its nativeFree.
FreeClient(u) ==
  /\ At(u, "idle")
  /\ client[u] = "handle"
  /\ client' = [client EXCEPT ![u] = "undefined"]
  /\ clients' = [clients EXCEPT ![u] = @ - 1]
  /\ connected' = connected \ {u}
  /\ UNCHANGED <<library, dispatcher, structs, proc, startups>>

\* MQTTApp class>>startUp of an image saved between calls: native memory is
\* gone, every structure is undefined, the library counts as uninitialised.
\* A builder keeps its dispatcher.
StartUp ==
  /\ startups < MaxStartups
  /\ \A u \in Users : At(u, "idle")
  /\ startups' = startups + 1
  /\ initialized' = FALSE /\ default' = FALSE /\ told' = FALSE
  /\ dispatcher' = [u \in Users |-> IF dispatcher[u] = "nil" THEN "nil" ELSE "stale"]
  /\ client' = [u \in Users |-> IF client[u] = "nil" THEN "nil" ELSE "undefined"]
  /\ clients' = [u \in Users |-> 0]
  /\ connected' = {}
  /\ kind' = [s \in Structs |-> "none"]
  /\ owner' = [s \in Structs |-> None]
  /\ texts' = {}
  /\ will' = [s \in Structs |-> None]
  /\ ssl' = [s \in Structs |-> None]
  /\ UNCHANGED proc

-----------------------------------------------------------------------------
Step(u) ==
  \/ GetClient(u) \/ InitializeLibrary(u) \/ GlobalInitialize(u)
  \/ InitializeOpenSSL(u) \/ NewDispatcher(u)
  \/ BuildCreateOptionsStruct(u) \/ BuildClient(u) \/ IsConnected(u)
  \/ BuildConnectOptionsStruct(u) \/ BuildWillOptionsStruct(u)
  \/ FreeWillOptionsStruct(u) \/ BuildSslOptionsStruct(u) \/ Connect(u)
  \/ FreeConnectOptionsStruct(u) \/ Exception(u)

Next ==
  \/ \E u \in Users : ConnectClient(u) \/ Step(u) \/ Disconnect(u) \/ FreeClient(u)
  \/ \E s \in Structs : Collect(s)
  \/ StartUp

Spec == Init /\ [][Next]_vars

-----------------------------------------------------------------------------
(* Properties.                                                             *)

\* Types.
TypeOK ==
  /\ initialized \in BOOLEAN /\ default \in BOOLEAN /\ told \in BOOLEAN
  /\ dispatcher \in [Users -> {"nil", "current", "stale"}]
  /\ client \in [Users -> {"nil", "handle", "undefined"}]
  /\ clients \in [Users -> {0, 1}]
  /\ connected \in SUBSET Users
  /\ kind \in [Structs -> {"none", "create", "connect", "will", "ssl"}]
  /\ owner \in [Structs -> Users \cup {None, Forgotten}]
  /\ texts \in SUBSET (Structs \X UNION {Texts(k) : k \in {"connect", "will", "ssl"}})
  /\ will \in [Structs -> Structs \cup {None}]
  /\ ssl \in [Structs -> Structs \cup {None}]
  /\ proc \in [Users -> Frames]
  /\ startups \in 0 .. MaxStartups

\* Native memory of a structure has exactly one smart ref that will free it,
\* on every path through connectClient: and whenever the tracker steps in:
\* nothing leaks, and no ref outlives its memory and frees it again.
MemoryHasItsOwner ==
  \A s \in Structs : kind[s] = "none" <=> owner[s] = None

\* The copies of strings are freed with their structure, none is left behind
\* (MQTTClientBuilder.class.st:331-332, `and internal string data').
TextsGoWithTheirStruct ==
  \A t \in texts : kind[t[1]] # "none" /\ t[2] \in Texts(kind[t[1]])

\* A connect structure that was handed to Paho, with the passwords in it, is
\* freed by connectClient: itself and never left to the collector.
ConnectOptionsFreedByTheCall ==
  \A s \in Structs : kind[s] = "connect" /\ owner[s] = Forgotten => ssl[s] = None

\* A dispatcher made since the last startup implies that Paho was told not to
\* initialise OpenSSL, whoever initialises the library at the same time and
\* whichever step of it fails (MQTTLibraryDispatcher.class.st:74-76).
DispatcherMeansInitialized ==
  \A u \in Users : dispatcher[u] = "current" => told

\* A builder has a native client exactly while it has a handle to it: it never
\* makes a second one, and none is left without a handle.
OneClientPerBuilder ==
  \A u \in Users : clients[u] = IF client[u] = "handle" THEN 1 ELSE 0

\* The will and ssl structures live as long as the connect structure that
\* points to them, to be freed with it (MQTTClientBuilder.class.st:257, 331;
\* MQTTClientConnectOptions.class.st:323).
ConnectOptionsHoldTheirParts ==
  \A s \in Structs : \A part \in {will[s], ssl[s]} \ {None} : kind[part] # "none"
=============================================================================
