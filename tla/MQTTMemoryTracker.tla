------------------------- MODULE MQTTMemoryTracker -------------------------
(***************************************************************************)
(* Who frees native memory: source/MQTTApp/MQTTMemoryTracker.class.st and  *)
(* the ownership half of MQTTStructure.class.st, with add: of              *)
(* source/MQTTAppProperties/MQTTProperties.class.st.                       *)
(*                                                                         *)
(* A structure is a Smalltalk object (a ref) that holds a native address.  *)
(* A smart ref owns the memory at its address, a weak ref borrows it.  The *)
(* tracker holds both in weak sets, which the garbage collector empties of *)
(* refs nobody can reach; a finalizer then puts the ref in a bin, and the  *)
(* bin is emptied by whichever process tracks the next ref while the bin   *)
(* is over its size, or by a monitor process every 60 seconds.  Emptying   *)
(* frees the refs, and the free of a smart ref first makes the weak refs   *)
(* to its address undefined.  A property that is added to a property list  *)
(* is given away: nobody in Smalltalk owns its memory any more.            *)
(*                                                                         *)
(* Blocks marked `critical' exclude each other and may nest.  What is      *)
(* outside them is divided into steps, between which others may run.       *)
(***************************************************************************)
EXTENDS Naturals, FiniteSets

CONSTANTS
  Users,          \* the processes of the application
  monitor,        \* the process that startExpungeableMonitor makes
  Refs,           \* the Smalltalk objects there may be at once
  Blocks,         \* the blocks of native memory there may be at once
  ExpungeMaxSize, \* the size above which the bin is emptied
  Reborrows,      \* TRUE: the application also borrows from weak refs
  AddsBorrowed,   \* TRUE: it also adds weak refs to property lists
  SavesAnytime,   \* TRUE: it also saves images in the middle of a creation, where
                  \* only a process knows an address and no object has it yet
  MaxStartups,    \* bound: startups of a saved image
  MaxGiven,       \* bound: blocks that belong to property lists at once; none is
                  \* given away after the last startup
  None, Given, Undefined

Processes == Users \cup {monitor}

ASSUME UsersAssumption  == monitor \notin Users
ASSUME BoundsAssumption == ExpungeMaxSize \in Nat /\ MaxStartups \in Nat /\ MaxGiven \in Nat
ASSUME ApplicationAssumption ==
  Reborrows \in BOOLEAN /\ AddsBorrowed \in BOOLEAN /\ SavesAnytime \in BOOLEAN
ASSUME NoneAssumption ==
  /\ None \notin Refs /\ None \notin Processes /\ Undefined \notin Blocks
  /\ Given \notin Refs \cup {None}

VARIABLES
  heap,        \* the ref each block was allocated for, Given if it went to a
               \* property list, None if it is free
  kind,        \* of each ref: "none" (no such object), "new" (being made: its
               \* ownsMemory is nil), "smart" (it is true) or "weak" (it is false)
  addr,        \* the address each ref refers to, or Undefined
  smart,       \* SmartReferences
  weak,        \* WeakReferences: address -> refs
  bin,         \* ExpungeableReferences
  finalizing,  \* refs the collector took from a set, not yet scheduled
  running,     \* ExpungeableMonitor is not nil
  lock,        \* the process inside an expunge, which is `critical' throughout
  held,        \* the refs each process of the application has in its variables
  proc,        \* where each process is, and the locals of its call
  startups

vars == <<heap, kind, addr, smart, weak, bin, finalizing, running, lock, held,
          proc, startups>>

native  == <<heap, startups>>
objects == <<kind, addr>>
tracker == <<smart, weak, bin, finalizing, running>>

Places == {"idle", "instance", "own", "check", "track", "expunge", "next", "free",
           "aliases", "freeRef", "native", "finish", "add", "disown"}

\* new: the ref being created.   owns: takeOwnership, whether it shall own its
\* memory.   ref: the ref being freed.   todo: the rest of the bin being emptied.
\* aliases: the weak refs to free.   gives: whether ref is being given away instead.
Resting == [at |-> "idle", new |-> None, owns |-> FALSE, ref |-> None, todo |-> {},
            aliases |-> {}, gives |-> FALSE]

Init ==
  /\ heap = [b \in Blocks |-> None]
  /\ kind = [r \in Refs |-> "none"]
  /\ addr = [r \in Refs |-> Undefined]
  /\ smart = {}
  /\ weak = [a \in Blocks |-> {}]
  /\ bin = {}
  /\ finalizing = {}
  /\ running = FALSE
  /\ lock = None
  /\ held = [u \in Users |-> {}]
  /\ proc = [p \in Processes |-> Resting]
  /\ startups = 0

At(p, place)     == proc[p].at = place
Goto(p, place)   == proc' = [proc EXCEPT ![p].at = place]
MayEnter(p)      == lock \in {None, p}
Tracked          == smart \cup UNION {weak[a] : a \in Blocks}
InUse(p)         == {proc[p].new, proc[p].ref} \cup proc[p].todo \cup proc[p].aliases

\* Strongly reachable: by a variable, an argument, the bin or the finalizer.
Reachable(r) ==
  \/ r \in bin \cup finalizing
  \/ \E u \in Users : r \in held[u]
  \/ \E p \in Processes : r \in InUse(p)

Untracked(S) == [a \in Blocks |-> weak[a] \ S]

-----------------------------------------------------------------------------
(* Creation: buildInstanceFromAddress:takeOwnership: and ownsMemory:.      *)

\* privateCalloc:.  Only the process knows the address, for the ref to be made.
Create(u, r, b) ==
  /\ At(u, "idle")
  /\ kind[r] = "none" /\ heap[b] = None
  /\ heap' = [heap EXCEPT ![b] = r]
  /\ kind' = [kind EXCEPT ![r] = "new"]
  /\ addr' = [addr EXCEPT ![r] = b]
  /\ held' = [held EXCEPT ![u] = @ \cup {r}]
  /\ proc' = [proc EXCEPT ![u].at = "instance", ![u].new = r, ![u].owns = TRUE]
  /\ UNCHANGED <<tracker, lock, startups>>

\* asWeakReference reads the address of a ref that the process holds and, unless
\* it reborrows, that owns its memory: then nobody else frees it meanwhile.
AsWeakReference(u, r, w) ==
  /\ At(u, "idle")
  /\ r \in held[u] /\ addr[r] # Undefined
  /\ kind[r] = "smart" \/ Reborrows
  /\ kind[w] = "none"
  /\ addr' = [addr EXCEPT ![w] = addr[r]]
  /\ kind' = [kind EXCEPT ![w] = "new"]
  /\ held' = [held EXCEPT ![u] = @ \cup {w}]
  /\ proc' = [proc EXCEPT ![u].at = "instance", ![u].new = w]
  /\ UNCHANGED <<native, tracker, lock>>

\* address: makes the object, which a startup finds from now on.
Instance(u) ==
  /\ At(u, "instance")
  /\ Goto(u, "own")
  /\ UNCHANGED <<native, objects, tracker, lock, held>>

\* The assignment of ownsMemory:.  It raises an exception if ownsMemory is not nil
\* any more, because a startup has set it.
OwnsMemory(u) ==
  LET r == proc[u].new IN
  /\ At(u, "own")
  /\ IF kind[r] = "new"
       THEN /\ kind' = [kind EXCEPT ![r] = IF proc[u].owns THEN "smart" ELSE "weak"]
            /\ Goto(u, "check")
       ELSE proc' = [proc EXCEPT ![u] = Resting] /\ UNCHANGED kind
  /\ UNCHANGED <<native, addr, tracker, lock, held>>

\* expungeReferencesIfRequired reads the size of the bin outside `critical'.
Check(u) ==
  /\ At(u, "check")
  /\ Goto(u, IF Cardinality(bin) > ExpungeMaxSize THEN "expunge" ELSE "track")
  /\ UNCHANGED <<native, objects, tracker, lock, held>>

\* trackSmartReference: or trackWeakReference:, as the argument of ownsMemory: was,
\* even if a startup has made the ref weak and undefined meanwhile.  A weak ref has
\* then no address to be found under.
Track(u) ==
  LET r == proc[u].new IN
  /\ At(u, "track")
  /\ MayEnter(u)
  /\ IF proc[u].owns
       THEN smart' = smart \cup {r} /\ UNCHANGED weak
       ELSE /\ weak' = IF addr[r] = Undefined THEN weak
                                              ELSE [weak EXCEPT ![addr[r]] = @ \cup {r}]
            /\ UNCHANGED smart
  /\ proc' = [proc EXCEPT ![u].at = "idle", ![u].new = None, ![u].owns = FALSE]
  /\ UNCHANGED <<native, objects, bin, finalizing, running, lock, held>>

-----------------------------------------------------------------------------
(* MQTTStructure>>free, by the application or while a bin is emptied.      *)

\* What follows once the weak refs to the address are undefined.
AfterAliases(p) == IF proc[p].gives THEN "disown" ELSE "native"

Free(u, r) ==
  /\ At(u, "idle")
  /\ r \in held[u]
  /\ proc' = [proc EXCEPT ![u].at = "free", ![u].ref = r]
  /\ UNCHANGED <<native, objects, tracker, lock, held>>

\* Mutant: the ref stays in SmartReferences.
FreeSmartKeepsEntry(p) ==
  /\ At(p, "free")
  /\ kind[proc[p].ref] = "smart"
  /\ Goto(p, IF addr[proc[p].ref] = Undefined THEN "finish" ELSE "aliases")
  /\ UNCHANGED <<native, objects, tracker, lock, held>>

\* removeSmartReference:, so that the collector does not find it again.
FreeSmart(p) ==
  LET r == proc[p].ref IN
  /\ At(p, "free")
  /\ kind[r] = "smart"
  /\ MayEnter(p)
  /\ smart' = smart \ {r}
  /\ Goto(p, IF addr[r] = Undefined THEN "finish" ELSE "aliases")
  /\ UNCHANGED <<native, objects, weak, bin, finalizing, running, lock, held>>

\* Mutant: the weak ref stays in the table.
FreeWeakKeepsEntry(p) ==
  /\ At(p, "free")
  /\ kind[proc[p].ref] = "weak"
  /\ Goto(p, "finish")
  /\ UNCHANGED <<native, objects, tracker, lock, held>>

\* removeWeakReference: finds the ref by its address, or by a search once it
\* has none.
FreeWeak(p) ==
  LET r == proc[p].ref IN
  /\ At(p, "free")
  /\ kind[r] = "weak"
  /\ MayEnter(p)
  /\ weak' = Untracked({r})
  /\ Goto(p, "finish")
  /\ UNCHANGED <<native, objects, smart, bin, finalizing, running, lock, held>>

\* Mutant: memory is freed without regard to its weak refs.
AliasesKept(p) ==
  /\ At(p, "aliases")
  /\ Goto(p, AfterAliases(p))
  /\ UNCHANGED <<native, objects, tracker, lock, held>>

\* The `critical' block of removeAndFreeWeakReferencesTo:.
TakeAliases(p) ==
  LET r == proc[p].ref
      mine == /\ kind[r] = "smart"
              /\ addr[r] # Undefined
              /\ \A s \in smart : addr[s] # addr[r] IN
  /\ At(p, "aliases")
  /\ MayEnter(p)
  /\ IF mine THEN /\ weak' = [weak EXCEPT ![addr[r]] = {}]
                  /\ proc' = [proc EXCEPT ![p].at = "freeRef",
                                          ![p].aliases = weak[addr[r]]]
             ELSE Goto(p, AfterAliases(p)) /\ UNCHANGED weak
  /\ UNCHANGED <<native, objects, smart, bin, finalizing, running, lock, held>>

\* freeRef to each weak ref, outside `critical'.
FreeRef(p) ==
  /\ At(p, "freeRef")
  /\ IF proc[p].aliases = {}
       THEN Goto(p, AfterAliases(p)) /\ UNCHANGED addr
       ELSE \E w \in proc[p].aliases :
              /\ addr' = [addr EXCEPT ![w] = Undefined]
              /\ proc' = [proc EXCEPT ![p].aliases = @ \ {w}]
  /\ UNCHANGED <<native, kind, tracker, lock, held>>

NativeFree(p) ==
  LET r == proc[p].ref IN
  /\ At(p, "native")
  /\ heap' = IF addr[r] = Undefined THEN heap
                                    ELSE [heap EXCEPT ![addr[r]] = None]
  /\ Goto(p, "finish")
  /\ UNCHANGED <<objects, tracker, lock, held, startups>>

\* ownsMemory is false from now on and the ref is undefined; the process goes
\* on with the bin if it is emptying it.
FinishFree(p) ==
  LET r == proc[p].ref IN
  /\ At(p, "finish")
  /\ kind' = [kind EXCEPT ![r] = "weak"]
  /\ addr' = [addr EXCEPT ![r] = Undefined]
  /\ proc' = [proc EXCEPT ![p].at = IF lock = p THEN "next" ELSE "idle",
                          ![p].ref = None]
  /\ UNCHANGED <<native, tracker, lock, held>>

-----------------------------------------------------------------------------
(* MQTTProperties>>add:.                                                   *)

\* Paho takes the property, and its memory is the list's.  (If Paho does not,
\* nothing changes.)  What the list makes of it is external.  The code adds a weak
\* ref just as well, whose owner then goes on owning the memory.
Add(u, r) ==
  /\ At(u, "idle")
  /\ r \in held[u] /\ addr[r] # Undefined
  /\ kind[r] = "smart" \/ AddsBorrowed
  /\ Cardinality({b \in Blocks : heap[b] = Given}) < MaxGiven
  /\ startups < MaxStartups
  /\ heap' = [heap EXCEPT ![addr[r]] = Given]
  /\ proc' = [proc EXCEPT ![u].at = "add", ![u].ref = r, ![u].gives = TRUE]
  /\ UNCHANGED <<objects, tracker, lock, held, startups>>

\* removeSmartReference:, after which removeAndFreeWeakReferencesTo: finds no
\* owner but this one.
RemoveAdded(u) ==
  /\ At(u, "add")
  /\ MayEnter(u)
  /\ smart' = smart \ {proc[u].ref}
  /\ Goto(u, "aliases")
  /\ UNCHANGED <<native, objects, weak, bin, finalizing, running, lock, held>>

\* Mutant: the property goes on owning its memory.
DisownForgotten(u) ==
  /\ At(u, "disown")
  /\ proc' = [proc EXCEPT ![u] = Resting]
  /\ UNCHANGED <<native, objects, tracker, lock, held>>

\* basicOwnsMemory: false.
Disown(u) ==
  /\ At(u, "disown")
  /\ kind' = [kind EXCEPT ![proc[u].ref] = "weak"]
  /\ proc' = [proc EXCEPT ![u] = Resting]
  /\ UNCHANGED <<native, addr, tracker, lock, held>>

-----------------------------------------------------------------------------
(* expungeReferences.                                                      *)

\* The loop of the monitor, after its delay.
MonitorWakes ==
  /\ running
  /\ At(monitor, "idle")
  /\ Goto(monitor, "expunge")
  /\ UNCHANGED <<native, objects, tracker, lock, held>>

\* Mutant: the new collection is made before the old one is read.
ExpungeSwapsFirst(p) ==
  /\ At(p, "expunge")
  /\ lock = None
  /\ lock' = p
  /\ bin' = {}
  /\ Goto(p, "next")
  /\ UNCHANGED <<native, objects, smart, weak, finalizing, running, held>>

Expunge(p) ==
  /\ At(p, "expunge")
  /\ lock = None
  /\ lock' = p
  /\ bin' = {}
  /\ proc' = [proc EXCEPT ![p].at = "next", ![p].todo = bin]
  /\ UNCHANGED <<native, objects, smart, weak, finalizing, running, held>>

\* finalizeOSObject: frees the next ref unless it is undefined by now.
ExpungeNext(p) ==
  /\ At(p, "next")
  /\ \E r \in proc[p].todo :
       proc' = IF addr[r] = Undefined
                 THEN [proc EXCEPT ![p].todo = @ \ {r}]
                 ELSE [proc EXCEPT ![p].todo = @ \ {r}, ![p].ref = r, ![p].at = "free"]
  /\ UNCHANGED <<native, objects, tracker, lock, held>>

ExpungeEnds(p) ==
  /\ At(p, "next")
  /\ proc[p].todo = {}
  /\ lock' = None
  /\ Goto(p, IF p = monitor THEN "idle" ELSE "track")
  /\ UNCHANGED <<native, objects, tracker, held>>

-----------------------------------------------------------------------------
(* The application's variables, the collector and the finalizer.           *)

Forget(u, r) ==
  /\ At(u, "idle")
  /\ r \in held[u]
  /\ held' = [held EXCEPT ![u] = @ \ {r}]
  /\ UNCHANGED <<native, objects, tracker, lock, proc>>

\* smartReferenceFor: answers a smart ref with the address of a weak ref; the
\* application keeps each ref to one of its processes.
SmartReferenceFor(u, w) ==
  /\ At(u, "idle") /\ MayEnter(u)
  /\ w \in held[u] /\ addr[w] # Undefined
  /\ \E s \in smart :
       /\ addr[s] = addr[w]
       /\ \A v \in Users \ {u} : s \notin held[v]
       /\ held' = [held EXCEPT ![u] = @ \cup {s}]
  /\ UNCHANGED <<native, objects, tracker, lock, proc>>

\* External: the collector takes an unreachable ref out of its weak set and
\* hands it to the finalizer.
Collect(r) ==
  /\ r \in Tracked
  /\ ~Reachable(r)
  /\ smart' = smart \ {r}
  /\ weak' = Untracked({r})
  /\ finalizing' = finalizing \cup {r}
  /\ UNCHANGED <<native, objects, bin, running, lock, held, proc>>

\* Mutant: nobody starts the monitor.
ScheduleWithoutMonitor(r) ==
  /\ r \in finalizing
  /\ finalizing' = finalizing \ {r}
  /\ lock = None
  /\ bin' = bin \cup (IF addr[r] = Undefined THEN {} ELSE {r})
  /\ UNCHANGED <<native, objects, smart, weak, running, lock, held, proc>>

ScheduleExpunge(r) ==
  /\ r \in finalizing
  /\ finalizing' = finalizing \ {r}
  /\ IF addr[r] = Undefined
       THEN UNCHANGED <<bin, running>>
       ELSE lock = None /\ bin' = bin \cup {r} /\ running' = TRUE
  /\ UNCHANGED <<native, objects, smart, weak, lock, held, proc>>

\* External: an object nobody refers to, and no weak set tracks, is gone.
Reclaim(r) ==
  /\ kind[r] # "none"
  /\ ~Reachable(r) /\ r \notin Tracked
  /\ kind' = [kind EXCEPT ![r] = "none"]
  /\ addr' = [addr EXCEPT ![r] = Undefined]
  /\ UNCHANGED <<native, tracker, lock, held, proc>>

\* The refs whose address only a process knows.
Unmade == {proc[u].new : u \in {v \in Users : At(v, "instance")}}

\* MQTTApp class>>startUp of a saved image: native memory is gone, the tracker
\* starts anew without a monitor, and every instance loses its address.  The
\* processes of the application go on where the image was saved.
StartUp ==
  /\ startups < MaxStartups
  /\ Unmade = {} \/ SavesAnytime
  /\ startups' = startups + 1
  /\ heap' = [b \in Blocks |-> None]
  /\ smart' = {}
  /\ weak' = [a \in Blocks |-> {}]
  /\ bin' = {}
  /\ running' = FALSE
  /\ proc' = [proc EXCEPT ![monitor] = Resting]
  /\ lock' = IF lock = monitor THEN None ELSE lock
  /\ kind' = [r \in Refs |->
                IF kind[r] = "none" \/ r \in Unmade THEN kind[r] ELSE "weak"]
  /\ addr' = [r \in Refs |-> IF r \in Unmade THEN addr[r] ELSE Undefined]
  /\ UNCHANGED <<finalizing, held>>

-----------------------------------------------------------------------------
\* A step of a call that a process has begun.
Step(p) ==
  \/ p \in Users /\ (Instance(p) \/ OwnsMemory(p) \/ Check(p) \/ Track(p))
  \/ p \in Users /\ (RemoveAdded(p) \/ Disown(p))
  \/ FreeSmart(p) \/ FreeWeak(p) \/ TakeAliases(p) \/ FreeRef(p) \/ NativeFree(p)
  \/ FinishFree(p) \/ Expunge(p) \/ ExpungeNext(p) \/ ExpungeEnds(p)

Next ==
  \/ \E u \in Users, r \in Refs :
       \/ Free(u, r) \/ Add(u, r) \/ Forget(u, r) \/ SmartReferenceFor(u, r)
       \/ \E b \in Blocks : Create(u, r, b)
       \/ \E w \in Refs : AsWeakReference(u, r, w)
  \/ \E p \in Processes : Step(p)
  \/ \E r \in Refs : Collect(r) \/ ScheduleExpunge(r) \/ Reclaim(r)
  \/ MonitorWakes
  \/ StartUp

Spec == Init /\ [][Next]_vars

\* The VM schedules every process, collects garbage and runs finalizers; a
\* process that waits for `critical' is let in when it is free again and again.
Fairness ==
  /\ \A p \in Processes : SF_vars(Step(p))
  /\ \A r \in Refs : WF_vars(Collect(r)) /\ SF_vars(ScheduleExpunge(r))
  /\ WF_vars(MonitorWakes)

FairSpec == Spec /\ Fairness

-----------------------------------------------------------------------------
(* Properties.                                                             *)

Frames == [at : Places, new : Refs \cup {None}, owns : BOOLEAN, ref : Refs \cup {None},
           todo : SUBSET Refs, aliases : SUBSET Refs, gives : BOOLEAN]

\* Types; and a weak ref is filed under its own address.
TypeOK ==
  /\ heap \in [Blocks -> Refs \cup {Given, None}]
  /\ kind \in [Refs -> {"none", "new", "smart", "weak"}]
  /\ addr \in [Refs -> Blocks \cup {Undefined}]
  /\ smart \in SUBSET Refs
  /\ weak \in [Blocks -> SUBSET Refs]
  /\ \A b \in Blocks : \A w \in weak[b] : kind[w] = "weak" /\ addr[w] = b
  /\ bin \in SUBSET Refs /\ finalizing \in SUBSET Refs
  /\ running \in BOOLEAN
  /\ lock \in Processes \cup {None}
  /\ held \in [Users -> SUBSET Refs]
  /\ proc \in [Processes -> Frames]
  /\ startups \in 0 .. MaxStartups

-----------------------------------------------------------------------------
(* What every state satisfies; with TypeOK, these are together inductive.  *)

MakePCs  == {"instance", "own"}
TrackPCs == {"instance", "own", "check", "track", "expunge"}
FreePCs  == {"free", "aliases", "freeRef", "native", "finish", "add", "disown"}
DonePCs  == {"aliases", "freeRef", "native", "finish", "disown"}

\* Where a process is tells which locals of its call are set.
Locals ==
  \A p \in Processes :
    LET q == proc[p] IN
    /\ q.new # None => p \in Users
    /\ p \in Users => (q.new # None <=> q.at \in TrackPCs \/ lock = p)
    /\ q.ref # None <=> q.at \in FreePCs
    /\ p = monitor => q.at \notin {"instance", "own", "check", "track"}
    /\ q.owns => q.new # None
    /\ lock = p => q.at \in {"next"} \cup (FreePCs \ {"add", "disown"}) /\ ~q.gives
    /\ q.at = "next" \/ q.todo # {} => lock = p
    /\ p = monitor /\ q.at \in FreePCs => lock = p
    /\ q.aliases # {} => q.at = "freeRef"
    /\ q.gives => q.at \in {"add", "aliases", "freeRef", "disown"}
    /\ q.at \in {"add", "disown"} => q.gives

\* A ref is with one process, or with the collector, the finalizer and the bin:
\* nobody else can make it undefined or free what it owns.
Apart ==
  /\ \A u, v \in Users : u # v => \A r \in held[u] : r \notin held[v]
  /\ \A r \in bin : r \notin finalizing
  /\ \A r \in bin \cup finalizing : r \notin Tracked /\ \A u \in Users : r \notin held[u]
  /\ \A p \in Processes : \A r \in proc[p].todo :
       r \notin bin \cup finalizing \cup Tracked /\ \A u \in Users : r \notin held[u]
  /\ \A p \in Processes :
       LET q == proc[p] IN
       /\ q.new # None => q.new \in held[p] /\ q.new \notin Tracked
       /\ q.ref # None /\ lock # p => q.ref \in held[p]
       /\ q.ref # None /\ lock = p =>
            /\ q.ref \notin bin \cup finalizing \cup q.todo \cup Tracked
            /\ \A u \in Users : q.ref \notin held[u]
       /\ q.at \in DonePCs => q.ref \notin Tracked \/ addr[q.ref] = Undefined

\* What somebody can still reach exists, and the refs that a free takes from
\* the table borrow the address it frees.
Alive ==
  /\ \A r \in Refs : Reachable(r) \/ r \in Tracked => kind[r] # "none"
  /\ \A r \in smart : kind[r] = "smart" \/ addr[r] = Undefined
  /\ \A p \in Processes : \A w \in proc[p].aliases :
       /\ kind[w] = "weak" /\ w \notin Tracked
       /\ addr[w] \in {Undefined, addr[proc[p].ref]}
       /\ \A o \in Processes : w # proc[o].new

\* A ref is made by one process, as what it shall be: a startup alone makes it weak
\* and undefined.
Made ==
  /\ \A r \in Refs : kind[r] = "new" =>
       /\ addr[r] # Undefined
       /\ \E u \in Users : proc[u].new = r /\ proc[u].at \in MakePCs
  /\ \A u \in Users :
       LET q == proc[u]
           r == q.new IN
       r # None =>
         /\ ~q.owns => kind[r] \in {"new", "weak"} /\ \A b \in Blocks : heap[b] # r
         /\ q.owns /\ addr[r] # Undefined => kind[r] \in {"new", "smart"} /\ heap[addr[r]] = r
         /\ q.at \in MakePCs => kind[r] = "new" \/ (kind[r] = "weak" /\ addr[r] = Undefined)
         /\ q.at \notin MakePCs => kind[r] # "new"

\* Every block has the owner it was allocated for, unless it is freed or given
\* away by the very process that frees the ref; and the owner is on its way.
Ending(r) == \E p \in Processes : proc[p].ref = r /\ (At(p, "finish") \/ proc[p].gives)

OnItsWay(r) ==
  \/ r \in smart \cup bin \cup finalizing
  \/ \E p \in Processes : r \in {proc[p].new, proc[p].ref} \cup proc[p].todo

Owned ==
  /\ \A r \in Refs :
       /\ kind[r] = "none" => addr[r] = Undefined
       /\ kind[r] = "smart" => addr[r] # Undefined /\ (heap[addr[r]] = r \/ Ending(r))
  /\ \A b \in Blocks : heap[b] \in Refs =>
       kind[heap[b]] \in {"new", "smart"} /\ addr[heap[b]] = b /\ OnItsWay(heap[b])
  /\ \A p \in Processes :
       LET q == proc[p] IN
       /\ q.at = "finish" => \A b \in Blocks : heap[b] # q.ref
       /\ q.gives /\ addr[q.ref] # Undefined => heap[addr[q.ref]] = Given
       /\ q.at \in {"add", "aliases", "freeRef", "native", "disown"} /\ addr[q.ref] # Undefined
            => kind[q.ref] = "smart"

\* Before a weak ref is on the table, its process keeps the owner.
OwnerKept ==
  \A u \in Users :
    LET w == proc[u].new IN
    w # None /\ ~proc[u].owns /\ addr[w] # Undefined => heap[addr[w]] \in held[u]

\* A weak ref in use is on the table, where the free of its memory finds it, or
\* was taken from it by a free.
Findable ==
  \A u \in Users : \A w \in held[u] \ {proc[u].ref} :
    kind[w] = "weak" /\ addr[w] # Undefined =>
      \/ w = proc[u].new
      \/ heap[addr[w]] = Given
      \/ /\ heap[addr[w]] # None
         /\ w \in weak[addr[w]] \/ \E p \in Processes : w \in proc[p].aliases

\* From then on nothing borrows the memory that is freed.
Cleared ==
  \A p \in Processes :
    LET q == proc[p] IN
    q.at \in {"freeRef", "native"} /\ ~q.gives /\ addr[q.ref] # Undefined
      => weak[addr[q.ref]] = {}

\* If the application does not reborrow.
Borrowed == OwnerKept /\ Findable /\ Cleared

-----------------------------------------------------------------------------
\* Native memory is freed by the ref it was allocated for and once: a second
\* free, or one by a ref that outlived its memory, would take a block from
\* whoever got it since (MQTTStructure.class.st:93-95), and the free of an added
\* property would take it from the list (MQTTProperties.class.st:45-46).
FreesItsOwnMemory ==
  \A p \in Processes :
    LET r == proc[p].ref IN
    At(p, "native") /\ addr[r] # Undefined => heap[addr[r]] = r

\* No leak: the owner of a block is a smart ref, or one being made, that
\* somebody will free, because a process holds it or is freeing it, the bin or the
\* finalizer has it, or the collector will find it in SmartReferences.
OwnersAreKept ==
  \A b \in Blocks :
    heap[b] \in Refs =>
      /\ kind[heap[b]] \in {"new", "smart"} /\ addr[heap[b]] = b
      /\ Reachable(heap[b]) \/ heap[b] \in smart

\* A weak ref that a process holds, and is not freeing, never outlives the memory it borrows:
\* createWeakReferenceTo: (MQTTStructure.class.st:144-150) says that a
\* dangling weak ref is undefined, so that native memory is untouched.
NoDanglingWeakRefs ==
  \A u \in Users : \A w \in held[u] \ {proc[u].ref} :
    kind[w] = "weak" /\ addr[w] # Undefined => heap[addr[w]] # None

\* What the collector may take from SmartReferences, and what it took, is the
\* owner of its memory still: removeSmartReference: is for refs freed by hand
\* (MQTTMemoryTracker.class.st:174-177: `otherwise the finalizer may attempt to free
\* it again').  Only a property that Paho took this moment is still there.
CollectableOwn ==
  \A r \in smart \cup bin \cup finalizing \cup UNION {proc[p].todo : p \in Processes} :
    kind[r] = "smart" /\ addr[r] # Undefined =>
      heap[addr[r]] = r \/ \E u \in Users : At(u, "add") /\ proc[u].ref = r

\* Memory whose owner the application forgot is freed in the end, whether or
\* not anything is allocated again: that is what the monitor is for.
ForgottenMemoryIsFreed ==
  \A b \in Blocks : []<>(heap[b] \notin Refs \/ \E u \in Users : heap[b] \in held[u])
=============================================================================
