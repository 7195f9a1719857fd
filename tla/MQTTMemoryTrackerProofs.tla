---------------------- MODULE MQTTMemoryTrackerProofs ----------------------
(***************************************************************************)
(* Proofs about MQTTMemoryTracker: any number of processes, refs and       *)
(* blocks, a bin of any size, and any number of startups.                  *)
(***************************************************************************)
EXTENDS MQTTMemoryTracker, TLAPS

IInv == TypeOK /\ Locals /\ Apart /\ Alive /\ Made /\ Owned

\* What the tracker knows, element by element.
LEMMA TrackedMembers ==
  \A r : r \in Tracked <=> r \in smart \/ \E a \in Blocks : r \in weak[a]
BY DEF Tracked

\* The locals of a call, field by field.
LEMMA FrameFields ==
  ASSUME TypeOK, NEW p \in Processes
  PROVE  /\ proc[p] \in Frames /\ proc[p].at \in Places /\ proc[p].gives \in BOOLEAN
         /\ proc[p].owns \in BOOLEAN
         /\ proc[p].new \in Refs \cup {None} /\ proc[p].ref \in Refs \cup {None}
         /\ proc[p].todo \subseteq Refs /\ proc[p].aliases \subseteq Refs
BY DEF TypeOK, Frames

\* Everything of a call but where it is.
SameLocals(o) ==
  /\ proc'[o].new = proc[o].new /\ proc'[o].owns = proc[o].owns
  /\ proc'[o].ref = proc[o].ref
  /\ proc'[o].todo = proc[o].todo /\ proc'[o].aliases = proc[o].aliases
  /\ proc'[o].gives = proc[o].gives

Others(p) == \A o \in Processes : o # p => proc'[o] = proc[o]

\* How the steps change the locals of a process.
LEMMA Moves ==
  ASSUME TypeOK, NEW p \in Processes, NEW to \in Places,
         proc' = [proc EXCEPT ![p].at = to]
  PROVE  /\ proc' \in [Processes -> Frames] /\ Others(p) /\ SameLocals(p)
         /\ proc'[p].at = to
<1>1. proc' = [proc EXCEPT ![p] = [proc[p] EXCEPT !.at = to]] /\ proc[p] \in Frames
  BY FrameFields DEF TypeOK, Frames
<1>2. [proc[p] EXCEPT !.at = to] \in Frames
  BY <1>1 DEF Frames
<1>. QED
  BY <1>1, <1>2 DEF TypeOK, Frames, SameLocals, Others

\* A process that creates a ref notes it.
LEMMA Creates ==
  ASSUME TypeOK, NEW p \in Processes, NEW q \in Frames, proc' = [proc EXCEPT ![p] = q]
  PROVE  proc' \in [Processes -> Frames] /\ Others(p) /\ proc'[p] = q
BY DEF TypeOK, Others

\* What is being made goes on being made; what is made already need not.
SameMaking ==
  \A u \in Users :
    \/ /\ proc'[u].new = proc[u].new /\ proc'[u].owns = proc[u].owns
       /\ proc'[u].at \in MakePCs <=> proc[u].at \in MakePCs
    \/ /\ proc'[u].new = None
       /\ proc[u].at \notin MakePCs \/ kind[proc[u].new] # "new"

SameUnmade ==
  /\ \A r \in Refs : kind'[r] = "new" => kind[r] = "new"
  /\ \A u \in Users : proc[u].new # None =>
       /\ kind'[proc[u].new] = kind[proc[u].new] /\ addr'[proc[u].new] = addr[proc[u].new]
       /\ \A b \in Blocks : heap[b] = proc[u].new => heap'[b] = heap[b]
  /\ \A b \in Blocks : heap'[b] = heap[b] \/ heap'[b] \notin Refs

\* A step that makes nothing leaves what is made as it is.
LEMMA MadeSame ==
  ASSUME IInv, SameMaking, SameUnmade
  PROVE  Made'
<1>1. \A u \in Users : u \in Processes /\ proc[u].new \in Refs \cup {None}
  BY FrameFields DEF IInv, Processes
<1>2. \A r \in Refs : kind'[r] = "new" =>
        addr'[r] # Undefined /\ \E u \in Users : proc'[u].new = r /\ proc'[u].at \in MakePCs
  <2>. SUFFICES ASSUME NEW r \in Refs, kind'[r] = "new"
                PROVE  addr'[r] # Undefined
                       /\ \E u \in Users : proc'[u].new = r /\ proc'[u].at \in MakePCs
    OBVIOUS
  <2>1. kind[r] = "new" /\ r # None
    BY NoneAssumption DEF SameUnmade
  <2>2. /\ addr[r] # Undefined
        /\ \E u \in Users : proc[u].new = r /\ proc[u].at \in MakePCs
    BY <2>1 DEF IInv, Made
  <2>3. PICK u \in Users : proc[u].new = r /\ proc[u].at \in MakePCs
    BY <2>2
  <2>4. addr'[r] = addr[r]
    BY <2>1, <2>3 DEF SameUnmade
  <2>5. proc'[u].new = proc[u].new /\ (proc'[u].at \in MakePCs <=> proc[u].at \in MakePCs)
    BY <2>1, <2>3 DEF SameMaking
  <2>. QED
    BY <2>2, <2>3, <2>4, <2>5
<1>3. ASSUME NEW u \in Users, proc'[u].new # None
      PROVE  LET q == proc'[u]
                 r == q.new IN
             /\ ~q.owns => kind'[r] \in {"new", "weak"} /\ \A b \in Blocks : heap'[b] # r
             /\ q.owns /\ addr'[r] # Undefined =>
                  kind'[r] \in {"new", "smart"} /\ heap'[addr'[r]] = r
             /\ q.at \in MakePCs => kind'[r] = "new" \/ (kind'[r] = "weak" /\ addr'[r] = Undefined)
             /\ q.at \notin MakePCs => kind'[r] # "new"
  <2>. DEFINE r == proc[u].new
  <2>1. /\ proc'[u].new = r /\ r # None /\ r \in Refs /\ proc'[u].owns = proc[u].owns
        /\ proc'[u].at \in MakePCs <=> proc[u].at \in MakePCs
    BY <1>1, <1>3 DEF SameMaking
  <2>2. kind'[r] = kind[r] /\ addr'[r] = addr[r]
    BY <2>1 DEF SameUnmade
  <2>3. /\ ~proc[u].owns => kind[r] \in {"new", "weak"} /\ \A b \in Blocks : heap[b] # r
        /\ proc[u].owns /\ addr[r] # Undefined => kind[r] \in {"new", "smart"} /\ heap[addr[r]] = r
        /\ proc[u].at \in MakePCs => kind[r] = "new" \/ (kind[r] = "weak" /\ addr[r] = Undefined)
        /\ proc[u].at \notin MakePCs => kind[r] # "new"
    BY <2>1 DEF IInv, Made
  <2>4. ~proc[u].owns => \A b \in Blocks : heap'[b] # r
    BY <2>1, <2>3 DEF SameUnmade
  <2>5. proc[u].owns /\ addr[r] # Undefined => heap'[addr[r]] = r
    <3>1. addr[r] \in Blocks \cup {Undefined}
      BY <2>1 DEF IInv, TypeOK
    <3>. QED
      BY <2>1, <2>3, <3>1 DEF SameUnmade
  <2>. HIDE DEF r
  <2>. QED
    BY <2>1, <2>2, <2>3, <2>4, <2>5
<1>. QED
  BY <1>2, <1>3 DEF Made

\* The ref that a process frees is in nobody else's hands.
LEMMA RefAlone ==
  ASSUME IInv, NEW p \in Processes, proc[p].at \in FreePCs
  PROVE  /\ proc[p].ref \in Refs /\ proc[p].ref # None
         /\ kind[proc[p].ref] # "none"
         /\ proc[p].ref \notin bin \cup finalizing
         /\ \A o \in Processes : /\ proc[o].new # proc[p].ref
                                 /\ proc[p].ref \notin proc[o].todo
                                 /\ o # p => proc[o].ref # proc[p].ref
         /\ \A u \in Users : u # p => proc[p].ref \notin held[u]
<1>1. proc[p].ref \in Refs /\ proc[p].ref # None
  BY FrameFields DEF IInv, Locals
<1>2. Reachable(proc[p].ref)
  BY DEF Reachable, InUse
<1>3. CASE lock = p
  <2>1. \A u \in Users : proc[p].ref \notin held[u]
    BY <1>1, <1>3 DEF IInv, Apart
  <2>2. proc[p].ref \notin bin \cup finalizing \cup proc[p].todo
    BY <1>1, <1>3 DEF IInv, Apart
  <2>3. \A o \in Processes : o # p => proc[o].todo = {}
    BY <1>3 DEF IInv, Locals
  <2>4. \A o \in Processes : proc[o].new # None => o \in Users /\ proc[o].new \in held[o]
    BY DEF IInv, Locals, Apart
  <2>5. \A o \in Processes : o # p /\ proc[o].ref # None => o \in Users /\ proc[o].ref \in held[o]
    BY <1>3 DEF IInv, Locals, Apart, Processes
  <2>. QED
    BY <1>1, <1>2, <2>1, <2>2, <2>3, <2>4, <2>5 DEF IInv, Alive
<1>4. CASE lock # p
  <2>1. p \in Users /\ proc[p].ref \in held[p] /\ proc[p].new = None
    BY <1>1, <1>4 DEF IInv, Locals, Apart, Processes, TrackPCs, FreePCs
  <2>2. proc[p].ref \notin bin \cup finalizing
    BY <2>1 DEF IInv, Apart
  <2>3. \A o \in Processes : proc[p].ref \notin proc[o].todo
    BY <2>1 DEF IInv, Apart
  <2>4. \A u \in Users : u # p => proc[p].ref \notin held[u]
    BY <2>1 DEF IInv, Apart
  <2>5. \A o \in Processes : proc[o].new # None => o \in Users /\ proc[o].new \in held[o]
    BY DEF IInv, Locals, Apart
  <2>6. \A o \in Processes : o # p /\ proc[o].ref # None =>
          \/ o \in Users /\ proc[o].ref \in held[o]
          \/ proc[o].ref \notin held[p]
    BY <2>1 DEF IInv, Locals, Apart, Processes
  <2>. QED
    BY <1>1, <1>2, <2>1, <2>2, <2>3, <2>4, <2>5, <2>6 DEF IInv, Alive
<1>. QED
  BY <1>3, <1>4

\* So is the ref that a process creates.
LEMMA NewAlone ==
  ASSUME IInv, NEW u \in Users, proc[u].new # None
  PROVE  /\ proc[u].new \in Refs /\ proc[u].new \in held[u]
         /\ kind[proc[u].new] # "none" /\ proc[u].new \notin Tracked
         /\ proc[u].new \notin bin \cup finalizing
         /\ \A o \in Processes : /\ proc[o].ref # proc[u].new
                                 /\ proc[u].new \notin proc[o].todo
                                 /\ proc[u].new \notin proc[o].aliases
                                 /\ o # u => proc[o].new # proc[u].new
         /\ \A v \in Users : v # u => proc[u].new \notin held[v]
<1>1. u \in Processes
  BY DEF Processes
<1>2. /\ proc[u].new \in Refs /\ proc[u].new \in held[u] /\ proc[u].new \notin Tracked
      /\ Reachable(proc[u].new)
  BY <1>1 DEF IInv, TypeOK, Apart, Reachable, InUse
<1>3. /\ proc[u].new \notin bin \cup finalizing
      /\ \A v \in Users : v # u => proc[u].new \notin held[v]
      /\ \A o \in Processes : proc[u].new \notin proc[o].todo
  BY <1>2 DEF IInv, Apart
<1>4. \A o \in Processes : proc[u].new \notin proc[o].aliases
  BY <1>1 DEF IInv, Alive
<1>5. \A o \in Processes : o # u /\ proc[o].new # None => o \in Users /\ proc[o].new \in held[o]
  BY DEF IInv, Locals, Apart
<1>6. \A o \in Processes : proc[o].ref # proc[u].new
  <2>. SUFFICES ASSUME NEW o \in Processes, proc[o].ref = proc[u].new PROVE FALSE
    OBVIOUS
  <2>1. proc[o].at \in FreePCs
    BY DEF IInv, Locals
  <2>. QED
    BY <1>1, <2>1, RefAlone
<1>. QED
  BY <1>2, <1>3, <1>4, <1>5, <1>6 DEF IInv, Alive

\* A ref that nobody reaches or tracks is nowhere.
LEMMA Fresh ==
  ASSUME IInv, NEW r \in Refs, kind[r] = "none"
  PROVE  /\ r \notin Tracked /\ r \notin bin \cup finalizing
         /\ \A u \in Users : r \notin held[u]
         /\ \A o \in Processes : /\ proc[o].new # r /\ proc[o].ref # r
                                 /\ r \notin proc[o].todo /\ r \notin proc[o].aliases
         /\ \A b \in Blocks : heap[b] # r
BY DEF IInv, Alive, Reachable, InUse, Owned

\* A step that leaves memory and the refs' hands alone and moves a process from
\* a place where it frees nothing to another such place.
LEMMA MoveIInv ==
  ASSUME IInv, NEW p \in Processes, NEW to \in {"own", "check", "track", "expunge"},
         UNCHANGED <<native, objects, tracker, lock, held>>,
         proc' = [proc EXCEPT ![p].at = to],
         proc[p].at \in MakePCs <=> to \in MakePCs,
         \/ proc[p].at \in TrackPCs /\ p # monitor
         \/ p = monitor /\ proc[p].at = "idle" /\ to = "expunge"
  PROVE  IInv'
<1>. USE DEF native, objects, tracker
<1>1. /\ Others(p) /\ SameLocals(p) /\ proc'[p].at = to /\ lock # p
      /\ proc[p].at \notin FreePCs /\ proc[p].at # "next"
  BY DEF IInv, TypeOK, Others, SameLocals, Locals, TrackPCs, FreePCs
<1>2. TypeOK'
  BY DEF IInv, TypeOK, Frames, Places
<1>3. Locals'
  BY <1>1, UsersAssumption DEF IInv, TypeOK, Locals, TrackPCs, FreePCs, SameLocals, Others
<1>4. Apart'
  BY <1>1 DEF IInv, Apart, Tracked, DonePCs, SameLocals, Others
<1>5. Alive'
  <2>1. \A r \in Refs : Reachable(r)' <=> Reachable(r)
    BY <1>1 DEF SameLocals, Others, Reachable, InUse
  <2>2. Tracked' = Tracked
    BY DEF Tracked
  <2>. QED
    BY <1>1, <2>1, <2>2 DEF IInv, Alive, SameLocals, Others
<1>6. Owned'
  <2>1. \A r \in Refs : Ending(r) => Ending(r)'
    BY <1>1 DEF SameLocals, Others, Ending, At, FreePCs
  <2>2. \A r \in Refs : OnItsWay(r) => OnItsWay(r)'
    BY <1>1 DEF SameLocals, Others, OnItsWay
  <2>. QED
    BY <1>1, <2>1, <2>2 DEF IInv, TypeOK, Owned, SameLocals, Others
<1>7. Made'
  <2>1. SameMaking
    BY <1>1 DEF SameMaking, SameLocals, Others, Processes
  <2>2. SameUnmade
    BY DEF SameUnmade
  <2>. QED
    BY <2>1, <2>2, MadeSame
<1>. QED
  BY <1>2, <1>3, <1>4, <1>5, <1>6, <1>7 DEF IInv

\* Check and the monitor's delay are such steps.
LEMMA CheckIInv ==
  ASSUME IInv, NEW u \in Users, Check(u)
  PROVE  IInv'
<1>1. PICK to \in {"expunge", "track"} : proc' = [proc EXCEPT ![u].at = to]
  BY DEF Check, Goto
<1>2. u \in Processes /\ u # monitor /\ proc[u].at \in TrackPCs
  BY UsersAssumption DEF Check, At, Processes, TrackPCs
<1>. QED
  BY <1>1, <1>2, MoveIInv DEF Check, At, TrackPCs, MakePCs

\* So is the making of an object.
LEMMA InstanceIInv ==
  ASSUME IInv, NEW u \in Users, Instance(u)
  PROVE  IInv'
<1>1. u \in Processes /\ u # monitor /\ proc[u].at = "instance"
  BY UsersAssumption DEF Instance, At, Processes
<1>2. proc' = [proc EXCEPT ![u].at = "own"]
  BY DEF Instance, Goto
<1>. QED
  BY <1>1, <1>2, MoveIInv DEF Instance, TrackPCs, MakePCs

\* The monitor has no locals when it wakes.
LEMMA MonitorWakesIInv ==
  ASSUME IInv, MonitorWakes
  PROVE  IInv'
BY MoveIInv DEF MonitorWakes, At, Goto, Processes, MakePCs

\* A process begins to make a ref, which it has yet to track.
Introduces(u, r, a, owner) ==
  /\ UNCHANGED <<tracker, lock, startups>>
  /\ kind' = [kind EXCEPT ![r] = "new"] /\ addr' = [addr EXCEPT ![r] = a]
  /\ held' = [held EXCEPT ![u] = @ \cup {r}]
  /\ proc' \in [Processes -> Frames] /\ Others(u)
  /\ proc'[u].at = "instance" /\ proc'[u].new = r /\ proc'[u].owns = owner
  /\ proc'[u].ref = proc[u].ref /\ proc'[u].todo = proc[u].todo
  /\ proc'[u].aliases = proc[u].aliases /\ proc'[u].gives = proc[u].gives

\* Creating and borrowing are such steps.
LEMMA CreateIntroduces ==
  ASSUME TypeOK, NEW u \in Users, NEW r \in Refs, NEW b \in Blocks, Create(u, r, b)
  PROVE  Introduces(u, r, b, TRUE)
<1>. DEFINE q == [proc[u] EXCEPT !.at = "instance", !.new = r, !.owns = TRUE]
<1>1. u \in Processes /\ proc[u] \in Frames
  BY FrameFields DEF Processes
<1>2. proc' = [proc EXCEPT ![u] = q] /\ q \in Frames
  BY <1>1 DEF Create, TypeOK, Frames, Places
<1>3. /\ q.at = "instance" /\ q.new = r /\ q.owns = TRUE /\ q.ref = proc[u].ref
      /\ q.todo = proc[u].todo /\ q.aliases = proc[u].aliases /\ q.gives = proc[u].gives
  BY <1>1 DEF Frames
<1>. HIDE DEF q
<1>4. proc' \in [Processes -> Frames] /\ Others(u) /\ proc'[u] = q
  BY <1>1, <1>2, Creates
<1>. QED
  BY <1>3, <1>4 DEF Create, Introduces

\* The frame of an idle process is not to own anything.
LEMMA AsWeakReferenceIntroduces ==
  ASSUME IInv, NEW u \in Users, NEW r \in Refs, NEW w \in Refs, AsWeakReference(u, r, w)
  PROVE  Introduces(u, w, addr[r], FALSE)
<1>. DEFINE q == [proc[u] EXCEPT !.at = "instance", !.new = w]
<1>1. u \in Processes /\ proc[u] \in Frames /\ TypeOK
  BY FrameFields DEF Processes, IInv
<1>2. proc' = [proc EXCEPT ![u] = q] /\ q \in Frames
  BY <1>1 DEF AsWeakReference, TypeOK, Frames, Places
<1>3. proc[u].owns = FALSE
  <2>1. proc[u].at = "idle" /\ proc[u].owns \in BOOLEAN
    BY <1>1, FrameFields DEF AsWeakReference, At
  <2>. QED
    BY <1>1, <2>1 DEF IInv, Locals, TrackPCs, FreePCs
<1>4. /\ q.at = "instance" /\ q.new = w /\ q.owns = FALSE /\ q.ref = proc[u].ref
      /\ q.todo = proc[u].todo /\ q.aliases = proc[u].aliases /\ q.gives = proc[u].gives
  BY <1>1, <1>3 DEF Frames
<1>. HIDE DEF q
<1>5. proc' \in [Processes -> Frames] /\ Others(u) /\ proc'[u] = q
  BY <1>1, <1>2, Creates
<1>. QED
  BY <1>4, <1>5 DEF AsWeakReference, Introduces, native

\* Then the ref is in the hands of that process only.
LEMMA NewRef ==
  ASSUME IInv, NEW u \in Users, NEW r \in Refs, NEW a \in Blocks, NEW o \in BOOLEAN,
         Introduces(u, r, a, o), proc[u].at = "idle", kind[r] = "none",
         heap' \in [Blocks -> Refs \cup {Given, None}]
  PROVE  TypeOK' /\ Locals' /\ Apart' /\ Alive'
<1>. USE DEF tracker
<1>1. u \in Processes /\ u # monitor /\ proc[u].at = "idle" /\ kind[r] = "none"
  BY UsersAssumption DEF Processes
<1>2. /\ UNCHANGED <<tracker, lock, startups>>
      /\ Others(u) /\ proc'[u].at = "instance" /\ proc'[u].new = r /\ proc'[u].owns = o
      /\ proc'[u].ref = proc[u].ref /\ proc'[u].todo = proc[u].todo
      /\ proc'[u].aliases = proc[u].aliases /\ proc'[u].gives = proc[u].gives
  BY <1>1 DEF Introduces
<1>3. /\ kind'[r] = "new" /\ addr'[r] = a
      /\ \A s \in Refs : s # r => kind'[s] = kind[s] /\ addr'[s] = addr[s]
      /\ held'[u] = held[u] \cup {r} /\ \A v \in Users : v # u => held'[v] = held[v]
  BY DEF Introduces, IInv, TypeOK
<1>4. /\ proc[u].ref = None /\ proc[u].new = None /\ proc[u].todo = {} /\ proc[u].aliases = {}
      /\ ~proc[u].gives /\ lock # u /\ r # None
  BY <1>1, NoneAssumption DEF IInv, Locals, FreePCs, TrackPCs
<1>5. TypeOK'
  <2>1. \A c \in Blocks : r \notin weak[c]
    BY <1>1, Fresh, TrackedMembers
  <2>2. /\ kind' \in [Refs -> {"none", "new", "smart", "weak"}]
        /\ addr' \in [Refs -> Blocks \cup {Undefined}]
        /\ held' \in [Users -> SUBSET Refs]
    BY DEF Introduces, IInv, TypeOK
  <2>3. proc' \in [Processes -> Frames]
    BY DEF Introduces
  <2>. QED
    BY <1>2, <1>3, <2>1, <2>2, <2>3 DEF IInv, TypeOK
<1>6. Locals'
  BY <1>1, <1>2, <1>4 DEF IInv, Locals, TrackPCs, FreePCs, SameLocals, Others
<1>7. Tracked' = Tracked
  BY <1>2 DEF Tracked
<1>8. Apart'
  <2>1. \A v, w \in Users : v # w => \A s \in held'[v] : s \notin held'[w]
    BY <1>1, <1>3, Fresh DEF IInv, Apart
  <2>2. \A s \in bin \cup finalizing : s \notin Tracked /\ \A v \in Users : s \notin held'[v]
    BY <1>1, <1>3, Fresh DEF IInv, Apart
  <2>3. \A p \in Processes :
          /\ proc'[p].todo = proc[p].todo /\ proc'[p].ref = proc[p].ref
          /\ proc'[p].at \in DonePCs => proc[p].at \in DonePCs /\ proc[p].ref \in Refs \ {r}
          /\ p # u => proc'[p].new = proc[p].new
    <3>1. \A p \in Processes :
            /\ proc'[p].todo = proc[p].todo /\ proc'[p].ref = proc[p].ref
            /\ proc'[p].at \in DonePCs => proc[p].at \in DonePCs
            /\ p # u => proc'[p].new = proc[p].new
      BY <1>2 DEF Others, DonePCs
    <3>2. \A p \in Processes : proc[p].at \in DonePCs => proc[p].ref \in Refs \ {r}
      BY <1>1, Fresh, FrameFields DEF IInv, Locals, FreePCs, DonePCs
    <3>. QED
      BY <3>1, <3>2
  <2>4. \A p \in Processes : \A s \in proc[p].todo :
          s \notin bin \cup finalizing \cup Tracked /\ \A v \in Users : s \notin held'[v]
    BY <1>1, <1>3, Fresh DEF IInv, Apart
  <2>5. \A p \in Processes :
          proc'[p].new # None => proc'[p].new \in held'[p] /\ proc'[p].new \notin Tracked
    <3>1. proc'[u].new \in held'[u] /\ proc'[u].new \notin Tracked
      BY <1>1, <1>2, <1>3, Fresh
    <3>2. \A p \in Processes :
            proc[p].new # None =>
              p \in Users /\ proc[p].new \in held[p] /\ proc[p].new \notin Tracked
      BY DEF IInv, Locals, Apart
    <3>. QED
      BY <1>3, <2>3, <3>1, <3>2
  <2>6. \A p \in Processes :
          /\ proc[p].ref # None /\ lock # p => proc[p].ref \in held'[p]
          /\ \A v \in Users : proc[p].ref # None /\ lock = p => proc[p].ref \notin held'[v]
    <3>1. \A p \in Processes : proc[p].ref # None /\ lock # p => p \in Users
      BY DEF IInv, Locals, Processes
    <3>2. \A p \in Processes : proc[p].ref # r
      BY <1>1, Fresh
    <3>. QED
      BY <1>3, <3>1, <3>2 DEF IInv, Apart
  <2>7. \A p \in Processes :
          proc'[p].at \in DonePCs => proc'[p].ref \notin Tracked \/ addr'[proc'[p].ref] = Undefined
    BY <1>3, <2>3 DEF IInv, Apart
  <2>. QED
    BY <1>2, <1>7, <2>1, <2>2, <2>3, <2>4, <2>5, <2>6, <2>7 DEF IInv, Apart
<1>9. Alive'
  <2>1. \A s \in Refs : Reachable(s)' => s = r \/ Reachable(s)
    BY <1>2, <1>3, <1>4 DEF SameLocals, Others, Reachable, InUse
  <2>. QED
    <3>1. \A s \in Refs : Reachable(s)' \/ s \in Tracked' => kind'[s] # "none"
      BY <1>3, <1>7, <2>1 DEF IInv, Alive
    <3>2. \A s \in smart' : kind'[s] = "smart" \/ addr'[s] = Undefined
      <4>1. r \notin smart
        BY <1>1, Fresh, TrackedMembers
      <4>. QED
        BY <1>2, <1>3, <4>1 DEF IInv, TypeOK, Alive
    <3>3. \A p \in Processes : \A w \in proc'[p].aliases :
            /\ w \in proc[p].aliases /\ w # r /\ w \in Refs /\ proc'[p].ref = proc[p].ref
            /\ proc[p].ref # None /\ proc[p].ref # r /\ proc[p].ref \in Refs
      <4>1. \A p \in Processes : proc'[p].aliases = proc[p].aliases /\ proc'[p].ref = proc[p].ref
        BY <1>2 DEF SameLocals, Others
      <4>. QED
        BY <1>1, <4>1, Fresh, FrameFields DEF IInv, Locals, FreePCs
    <3>4. \A p \in Processes : proc'[p].new = proc[p].new \/ proc'[p].new = r
      BY <1>2 DEF SameLocals, Others
    <3>5. \A p \in Processes : \A w \in proc'[p].aliases :
            /\ kind'[w] = "weak" /\ w \notin Tracked'
            /\ addr'[w] \in {Undefined, addr'[proc'[p].ref]}
            /\ \A q \in Processes : w # proc'[q].new
      BY <1>3, <1>7, <3>3, <3>4 DEF IInv, Alive
    <3>. QED
      BY <3>1, <3>2, <3>5 DEF Alive
<1>. QED
  BY <1>5, <1>6, <1>8, <1>9

\* And it alone is being made, as what it shall be.
LEMMA NewMade ==
  ASSUME IInv, NEW u \in Users, NEW r \in Refs, NEW a \in Blocks, NEW o \in BOOLEAN,
         Introduces(u, r, a, o), proc[u].at = "idle", kind[r] = "none",
         \A b \in Blocks : heap'[b] = heap[b] \/ (heap[b] = None /\ heap'[b] = r /\ o /\ b = a),
         o => heap'[a] = r
  PROVE  Made'
<1>1. /\ u \in Processes /\ proc[u].new = None /\ r # None
      /\ \A v \in Users : v # u => proc'[v] = proc[v]
      /\ proc'[u].at = "instance" /\ proc'[u].new = r /\ proc'[u].owns = o
  BY NoneAssumption DEF Introduces, Others, Processes, IInv, Locals, TrackPCs, FreePCs
<1>2. /\ kind'[r] = "new" /\ addr'[r] = a /\ a # Undefined
      /\ \A s \in Refs : s # r => kind'[s] = kind[s] /\ addr'[s] = addr[s]
  BY NoneAssumption DEF Introduces, IInv, TypeOK
<1>3. /\ \A v \in Users : proc[v].new # r /\ proc[v].new \in Refs \cup {None}
      /\ \A b \in Blocks : heap[b] # r
  BY Fresh, FrameFields DEF IInv, Processes
<1>4. \A s \in Refs : kind'[s] = "new" =>
        addr'[s] # Undefined /\ \E v \in Users : proc'[v].new = s /\ proc'[v].at \in MakePCs
  <2>. SUFFICES ASSUME NEW s \in Refs, kind'[s] = "new"
                PROVE  addr'[s] # Undefined
                       /\ \E v \in Users : proc'[v].new = s /\ proc'[v].at \in MakePCs
    OBVIOUS
  <2>1. CASE s = r
    BY <1>1, <1>2, <2>1 DEF MakePCs
  <2>2. CASE s # r
    <3>1. /\ kind[s] = "new" /\ addr'[s] = addr[s] /\ s # None
      BY <1>2, <2>2, NoneAssumption
    <3>2. addr[s] # Undefined /\ \E v \in Users : proc[v].new = s /\ proc[v].at \in MakePCs
      BY <3>1 DEF IInv, Made
    <3>. QED
      BY <1>1, <3>1, <3>2
  <2>. QED
    BY <2>1, <2>2
<1>5. ASSUME NEW v \in Users, proc'[v].new # None
      PROVE  LET q == proc'[v]
                 s == q.new IN
             /\ ~q.owns => kind'[s] \in {"new", "weak"} /\ \A b \in Blocks : heap'[b] # s
             /\ q.owns /\ addr'[s] # Undefined =>
                  kind'[s] \in {"new", "smart"} /\ heap'[addr'[s]] = s
             /\ q.at \in MakePCs => kind'[s] = "new" \/ (kind'[s] = "weak" /\ addr'[s] = Undefined)
             /\ q.at \notin MakePCs => kind'[s] # "new"
  <2>1. CASE v = u
    BY <1>1, <1>2, <1>3, <2>1 DEF MakePCs
  <2>2. CASE v # u
    <3>. DEFINE s == proc[v].new
    <3>1. proc'[v] = proc[v] /\ s # None /\ s \in Refs /\ s # r
      BY <1>1, <1>3, <1>5, <2>2
    <3>2. kind'[s] = kind[s] /\ addr'[s] = addr[s] /\ addr[s] \in Blocks \cup {Undefined}
      BY <1>2, <3>1 DEF IInv, TypeOK
    <3>3. /\ ~proc[v].owns => kind[s] \in {"new", "weak"} /\ \A b \in Blocks : heap[b] # s
          /\ proc[v].owns /\ addr[s] # Undefined =>
               kind[s] \in {"new", "smart"} /\ heap[addr[s]] = s
          /\ proc[v].at \in MakePCs => kind[s] = "new" \/ (kind[s] = "weak" /\ addr[s] = Undefined)
          /\ proc[v].at \notin MakePCs => kind[s] # "new"
      BY <3>1 DEF IInv, Made
    <3>4. /\ \A b \in Blocks : heap[b] # s => heap'[b] # s
          /\ addr[s] # Undefined /\ heap[addr[s]] = s => heap'[addr[s]] = s
      BY <3>1, <3>2
    <3>. HIDE DEF s
    <3>. QED
      BY <3>1, <3>2, <3>3, <3>4 DEF s
  <2>. QED
    BY <2>1, <2>2
<1>. QED
  BY <1>4, <1>5 DEF Made

\* A new smart ref owns the new block, which nobody else has.
LEMMA CreateIInv ==
  ASSUME IInv, NEW u \in Users, NEW r \in Refs, NEW b \in Blocks, Create(u, r, b)
  PROVE  IInv'
<1>. USE DEF tracker
<1>1. u \in Processes /\ u # monitor /\ proc[u].at = "idle" /\ kind[r] = "none" /\ heap[b] = None
  BY UsersAssumption DEF Create, At, Processes
<1>2. /\ UNCHANGED <<tracker, lock, startups>>
      /\ Others(u) /\ proc'[u].at = "instance" /\ proc'[u].new = r
      /\ proc'[u].ref = proc[u].ref /\ proc'[u].todo = proc[u].todo
      /\ proc'[u].aliases = proc[u].aliases /\ proc'[u].gives = proc[u].gives
      /\ Introduces(u, r, b, TRUE)
  <2>1. TypeOK
    BY DEF IInv
  <2>2. Introduces(u, r, b, TRUE)
    BY <2>1, CreateIntroduces
  <2>. QED
    BY <2>2 DEF Introduces
<1>3. /\ heap'[b] = r /\ \A c \in Blocks : c # b => heap'[c] = heap[c]
      /\ kind'[r] = "new" /\ addr'[r] = b
      /\ \A s \in Refs : s # r => kind'[s] = kind[s] /\ addr'[s] = addr[s]
  BY DEF IInv, TypeOK, Create
<1>4. /\ proc[u].ref = None /\ proc[u].new = None /\ proc[u].todo = {} /\ proc[u].aliases = {}
      /\ ~proc[u].gives /\ lock # u /\ r # None
  BY <1>1, NoneAssumption DEF IInv, Locals, FreePCs, TrackPCs
<1>5. TypeOK' /\ Locals' /\ Apart' /\ Alive'
  <2>1. heap' \in [Blocks -> Refs \cup {Given, None}]
    BY DEF IInv, TypeOK, Create
  <2>. QED
    BY <1>1, <1>2, <2>1, NewRef
<1>6. Owned'
  <2>1. \A s \in Refs : Ending(s) => Ending(s)'
    BY <1>1, <1>2 DEF SameLocals, Others, Ending, At
  <2>2. \A s \in Refs : OnItsWay(s) => OnItsWay(s)'
    BY <1>2, <1>4, NoneAssumption DEF SameLocals, Others, OnItsWay
  <2>3. OnItsWay(r)'
    BY <1>1, <1>2 DEF OnItsWay
  <2>. QED
    <3>1. \A s \in Refs :
            /\ kind'[s] = "none" => addr'[s] = Undefined
            /\ kind'[s] = "smart" => addr'[s] # Undefined /\ (heap'[addr'[s]] = s \/ Ending(s)')
      BY <1>1, <1>3, <2>1, NoneAssumption DEF IInv, TypeOK, Owned
    <3>2. \A c \in Blocks : heap'[c] \in Refs =>
            kind'[heap'[c]] \in {"new", "smart"} /\ addr'[heap'[c]] = c /\ OnItsWay(heap[c])'
      BY <1>1, <1>3, <2>2, <2>3, Fresh DEF IInv, Owned
    <3>3. \A p \in Processes :
            /\ proc'[p].ref = proc[p].ref /\ proc'[p].gives = proc[p].gives
            /\ proc'[p].at \in FreePCs => proc'[p].at = proc[p].at /\ proc[p].ref \in Refs \ {r}
      BY <1>1, <1>2, Fresh, FrameFields DEF IInv, Locals, Others, FreePCs
    <3>4. \A p \in Processes : proc'[p].gives => proc'[p].at \in FreePCs
      BY <1>4, <1>2 DEF IInv, Locals, SameLocals, Others, FreePCs
    <3>5. \A p \in Processes :
            LET q == proc'[p] IN
            /\ q.at = "finish" => \A c \in Blocks : heap'[c] # q.ref
            /\ q.gives /\ addr'[q.ref] # Undefined => heap'[addr'[q.ref]] = Given
            /\ q.at \in {"add", "aliases", "freeRef", "native", "disown"}
                 /\ addr'[q.ref] # Undefined
                 => kind'[q.ref] = "smart"
      BY <1>1, <1>3, <3>3, <3>4, NoneAssumption DEF IInv, TypeOK, Owned, FreePCs
    <3>. QED
      BY <3>1, <3>2, <3>5 DEF Owned
<1>7. Made'
  <2>1. \A c \in Blocks : heap'[c] = heap[c] \/ (heap[c] = None /\ heap'[c] = r /\ TRUE /\ c = b)
    BY <1>1, <1>3
  <2>2. TRUE => heap'[b] = r
    BY <1>3
  <2>. QED
    BY <1>1, <1>2, <2>1, <2>2, NewMade
<1>. QED
  BY <1>5, <1>6, <1>7 DEF IInv

-----------------------------------------------------------------------------
(* The steps of a free.                                                    *)

\* A step of a call leaves everything in the same hands.
SameHands(p) ==
  /\ UNCHANGED <<bin, finalizing, held, lock>>
  /\ Others(p) /\ proc' \in [Processes -> Frames]
  /\ proc'[p].new = proc[p].new /\ proc'[p].ref = proc[p].ref
  /\ proc'[p].todo = proc[p].todo /\ proc'[p].gives = proc[p].gives
  /\ proc'[p].owns = proc[p].owns

\* Then the locals fit where the process is.
LEMMA FreeLocals ==
  ASSUME IInv, NEW p \in Processes, SameHands(p),
         proc[p].at \in FreePCs, proc'[p].at \in FreePCs,
         proc'[p].aliases # {} => proc'[p].at = "freeRef",
         proc[p].gives => proc'[p].at \in {"add", "aliases", "freeRef", "disown"},
         proc'[p].at \in {"add", "disown"} => proc[p].gives
  PROVE  Locals'
BY UsersAssumption DEF IInv, Locals, SameHands, Others, FreePCs, TrackPCs

\* A free leaves every ref where it was, or takes its own from the table.
LEMMA FreeApart ==
  ASSUME IInv, NEW p \in Processes, SameHands(p),
         \A r : r \in Tracked' => r \in Tracked,
         \A r \in Refs : addr[r] = Undefined => addr'[r] = Undefined,
         proc'[p].at \in DonePCs =>
           proc[p].ref \notin Tracked' \/ addr'[proc[p].ref] = Undefined
  PROVE  Apart'
<1>1. \A o \in Processes :
        /\ proc'[o].new = proc[o].new /\ proc'[o].ref = proc[o].ref /\ proc'[o].todo = proc[o].todo
        /\ o # p => proc'[o].at = proc[o].at
  BY DEF SameHands, Others
<1>2. \A o \in Processes : proc[o].at \in DonePCs => proc[o].ref \in Refs
  BY FrameFields DEF IInv, Locals, FreePCs, DonePCs
<1>. QED
  BY <1>1, <1>2 DEF IInv, Apart, SameHands

\* The refs taken from the table exist, and borrow the address that is freed.
LEMMA FreeAlive ==
  ASSUME IInv, NEW p \in Processes, SameHands(p), kind' = kind,
         \A r : r \in Tracked' => r \in Tracked,
         \A r \in smart' : r \in smart,
         \A r \in Refs : addr[r] = Undefined => addr'[r] = Undefined,
         \A o \in Processes : \A w \in proc'[o].aliases :
           /\ kind[w] = "weak" /\ w \notin Tracked'
           /\ addr'[w] \in {Undefined, addr'[proc[o].ref]}
           /\ \A q \in Processes : w # proc[q].new
  PROVE  Alive'
<1>1. \A o \in Processes :
        proc'[o].new = proc[o].new /\ proc'[o].ref = proc[o].ref /\ proc'[o].todo = proc[o].todo
  BY DEF SameHands, Others
<1>2. \A r \in Refs : Reachable(r)' => Reachable(r) \/ \E o \in Processes : r \in proc'[o].aliases
  BY <1>1 DEF SameHands, Reachable, InUse
<1>3. \A r \in smart' : kind'[r] = "smart" \/ addr'[r] = Undefined
  BY DEF IInv, TypeOK, Alive
<1>. QED
  BY <1>1, <1>2, <1>3 DEF IInv, Alive

\* A free touches nothing that is being made.
LEMMA FreeMade ==
  ASSUME IInv, NEW p \in Processes, SameHands(p), kind' = kind,
         proc[p].at \in FreePCs, proc'[p].at \in FreePCs,
         \A r \in Refs : addr'[r] = addr[r] \/ \A o \in Processes : r # proc[o].new,
         \A b \in Blocks :
           heap'[b] = heap[b] \/ (heap[b] = proc[p].ref /\ heap'[b] \notin Refs)
  PROVE  Made'
<1>1. \A u \in Users : u \in Processes /\ proc[u].new \in Refs \cup {None}
  BY FrameFields DEF IInv, Processes
<1>2. \A u \in Users : proc[p].ref # proc[u].new
  BY <1>1, RefAlone
<1>3. SameMaking
  <2>1. /\ proc'[p].at \notin MakePCs /\ proc[p].at \notin MakePCs
        /\ proc'[p].new = proc[p].new /\ proc'[p].owns = proc[p].owns
        /\ \A o \in Processes : o # p => proc'[o] = proc[o]
    BY DEF FreePCs, MakePCs, SameHands, Others
  <2>. QED
    BY <1>1, <2>1 DEF SameMaking
<1>4. SameUnmade
  BY <1>1, <1>2 DEF SameUnmade
<1>. QED
  BY <1>3, <1>4, MadeSame

\* No memory is freed, and only weak refs become undefined.
LEMMA FreeOwned ==
  ASSUME IInv, NEW p \in Processes, SameHands(p), heap' = heap, kind' = kind,
         \A r \in Refs : addr'[r] = addr[r] \/ (kind[r] = "weak" /\ addr'[r] = Undefined),
         \A r \in smart \ smart' : proc[p].ref = r,
         proc[p].at # "finish",
         proc[p].at \in FreePCs,
         proc'[p].at = "finish" => \A b \in Blocks : heap[b] # proc[p].ref,
         proc'[p].at \in {"add", "aliases", "freeRef", "native", "disown"}
           /\ addr[proc[p].ref] # Undefined => kind[proc[p].ref] = "smart"
  PROVE  Owned'
<1>1. \A o \in Processes :
        /\ proc'[o].new = proc[o].new /\ proc'[o].ref = proc[o].ref /\ proc'[o].todo = proc[o].todo
        /\ proc'[o].gives = proc[o].gives
        /\ o # p => proc'[o].at = proc[o].at
  BY DEF SameHands, Others
<1>2. \A r \in Refs : Ending(r) => Ending(r)'
  BY <1>1 DEF Ending, At
<1>3. \A r \in Refs : OnItsWay(r) => OnItsWay(r)'
  BY <1>1 DEF SameHands, OnItsWay
<1>4. \A r \in Refs :
        /\ kind'[r] = "none" => addr'[r] = Undefined
        /\ kind'[r] = "smart" => addr'[r] # Undefined /\ (heap'[addr'[r]] = r \/ Ending(r)')
  BY <1>2 DEF IInv, Owned
<1>5. \A b \in Blocks : heap'[b] \in Refs =>
        kind'[heap'[b]] \in {"new", "smart"} /\ addr'[heap'[b]] = b /\ OnItsWay(heap[b])'
  BY <1>3 DEF IInv, Owned
<1>6. \A o \in Processes : proc'[o].at \in FreePCs \/ proc[o].gives => proc[o].ref \in Refs
  BY <1>1, FrameFields DEF IInv, Locals, FreePCs
<1>7. \A o \in Processes :
        LET q == proc'[o] IN
        /\ q.at = "finish" => \A b \in Blocks : heap'[b] # q.ref
        /\ q.gives /\ addr'[q.ref] # Undefined => heap'[addr'[q.ref]] = Given
        /\ q.at \in {"add", "aliases", "freeRef", "native", "disown"} /\ addr'[q.ref] # Undefined
             => kind'[q.ref] = "smart"
  BY <1>1, <1>6 DEF IInv, Owned, FreePCs
<1>. QED
  BY <1>4, <1>5, <1>7 DEF Owned

\* The smart ref leaves the table, and its owner goes on to free it.
LEMMA FreeSmartIInv ==
  ASSUME IInv, NEW p \in Processes, FreeSmart(p)
  PROVE  IInv'
<1>. DEFINE r == proc[p].ref
<1>. USE DEF native, objects
<1>1. /\ proc[p].at = "free" /\ kind[r] = "smart" /\ smart' = smart \ {r}
      /\ UNCHANGED <<native, objects, weak, bin, finalizing, running, lock, held>>
      /\ r \in Refs /\ r # None /\ proc[p].aliases = {} /\ ~proc[p].gives
  BY FrameFields DEF FreeSmart, At, IInv, Locals, FreePCs
<1>2. addr[r] # Undefined
  BY <1>1 DEF IInv, Owned
<1>3. /\ SameHands(p) /\ proc'[p].at = "aliases" /\ proc'[p].aliases = {}
  BY <1>1, <1>2, Moves DEF FreeSmart, Goto, IInv, Places, SameHands, SameLocals
<1>4. \A s : s \in Tracked' <=> s \in Tracked /\ s # r
  <2>1. \A a \in Blocks : r \notin weak[a]
    BY <1>1 DEF IInv, TypeOK
  <2>2. \A s : s \in Tracked' <=> s \in smart' \/ \E a \in Blocks : s \in weak[a]
    BY <1>1 DEF Tracked
  <2>. QED
    BY <1>1, <2>1, <2>2, TrackedMembers
<1>5. TypeOK'
  BY <1>1, <1>3 DEF IInv, TypeOK, SameHands
<1>6. Locals'
  BY <1>1, <1>3, FreeLocals DEF FreePCs
<1>7. Apart'
  BY <1>1, <1>3, <1>4, FreeApart
<1>8. Alive'
  <2>1. \A o \in Processes : \A w \in proc'[o].aliases :
           /\ kind[w] = "weak" /\ w \notin Tracked'
           /\ addr'[w] \in {Undefined, addr'[proc[o].ref]}
           /\ \A q \in Processes : w # proc[q].new
    BY <1>1, <1>3, <1>4 DEF IInv, Alive, SameHands, Others
  <2>. QED
    BY <1>1, <1>3, <1>4, <2>1, FreeAlive
<1>9. Owned'
  <2>1. /\ heap' = heap /\ kind' = kind /\ addr' = addr /\ \A s \in smart \ smart' : r = s
        /\ proc[p].at # "finish" /\ proc[p].at \in FreePCs /\ proc'[p].at # "finish"
    BY <1>1, <1>3 DEF FreePCs
  <2>. QED
    BY <1>1, <1>3, <2>1, FreeOwned
<1>10. Made'
  BY <1>1, <1>3, FreeMade DEF FreePCs
<1>. QED
  BY <1>5, <1>6, <1>7, <1>8, <1>9, <1>10 DEF IInv

\* The weak ref leaves the table: it owns nothing, so the free is over.
LEMMA FreeWeakIInv ==
  ASSUME IInv, NEW p \in Processes, FreeWeak(p)
  PROVE  IInv'
<1>. DEFINE r == proc[p].ref
<1>. USE DEF native, objects
<1>1. /\ proc[p].at = "free" /\ kind[r] = "weak" /\ weak' = Untracked({r})
      /\ UNCHANGED <<native, objects, smart, bin, finalizing, running, lock, held>>
      /\ r \in Refs /\ r # None /\ proc[p].aliases = {} /\ ~proc[p].gives
  BY FrameFields DEF FreeWeak, At, IInv, Locals, FreePCs
<1>2. /\ SameHands(p) /\ proc'[p].at = "finish" /\ proc'[p].aliases = {}
  BY <1>1, Moves DEF FreeWeak, Goto, IInv, Places, SameHands, SameLocals
<1>3. \A s : s \in Tracked' => s \in Tracked /\ (s = r => addr[r] = Undefined)
  <2>1. r \in smart => addr[r] = Undefined
    BY <1>1 DEF IInv, Alive
  <2>2. \A s : s \in Tracked' <=> s \in smart \/ \E a \in Blocks : s \in weak'[a]
    BY <1>1 DEF Tracked
  <2>3. \A a \in Blocks : weak'[a] = weak[a] \ {r}
    BY <1>1 DEF Untracked
  <2>. QED
    BY <2>1, <2>2, <2>3, TrackedMembers
<1>4. TypeOK'
  <2>1. weak' \in [Blocks -> SUBSET Refs] /\ \A b \in Blocks : \A w \in weak'[b] : w \in weak[b]
    BY <1>1 DEF IInv, TypeOK, Untracked
  <2>2. \A b \in Blocks : \A w \in weak'[b] : kind'[w] = "weak" /\ addr'[w] = b
    BY <1>1, <2>1 DEF IInv, TypeOK
  <2>3. proc' \in [Processes -> Frames]
    BY <1>2 DEF SameHands
  <2>. QED
    BY <1>1, <2>1, <2>2, <2>3 DEF IInv, TypeOK
<1>5. Locals'
  BY <1>1, <1>2, FreeLocals DEF FreePCs
<1>6. Apart'
  BY <1>1, <1>2, <1>3, FreeApart
<1>7. Alive'
  <2>1. \A o \in Processes : \A w \in proc'[o].aliases :
           /\ kind[w] = "weak" /\ w \notin Tracked'
           /\ addr'[w] \in {Undefined, addr'[proc[o].ref]}
           /\ \A q \in Processes : w # proc[q].new
    BY <1>1, <1>2, <1>3 DEF IInv, Alive, SameHands, Others
  <2>. QED
    BY <1>1, <1>2, <1>3, <2>1, FreeAlive
<1>8. Owned'
  <2>1. \A b \in Blocks : heap[b] # r
    BY <1>1 DEF IInv, Owned
  <2>2. /\ heap' = heap /\ kind' = kind /\ addr' = addr /\ smart' = smart
        /\ proc[p].at # "finish" /\ proc[p].at \in FreePCs
    BY <1>1 DEF FreePCs
  <2>. QED
    BY <1>2, <2>1, <2>2, FreeOwned
<1>9. Made'
  BY <1>1, <1>2, FreeMade DEF FreePCs
<1>. QED
  BY <1>4, <1>5, <1>6, <1>7, <1>8, <1>9 DEF IInv

\* The ref that was given away leaves the table.
LEMMA RemoveAddedIInv ==
  ASSUME IInv, NEW u \in Users, RemoveAdded(u)
  PROVE  IInv'
<1>. DEFINE r == proc[u].ref
<1>. USE DEF native, objects
<1>1. /\ u \in Processes /\ proc[u].at = "add" /\ smart' = smart \ {r}
      /\ UNCHANGED <<native, objects, weak, bin, finalizing, running, lock, held>>
      /\ r \in Refs /\ r # None /\ proc[u].aliases = {}
  BY FrameFields DEF RemoveAdded, At, IInv, Locals, FreePCs, Processes
<1>2. addr[r] # Undefined => kind[r] = "smart"
  BY <1>1 DEF IInv, Owned
<1>3. /\ SameHands(u) /\ proc'[u].at = "aliases" /\ proc'[u].aliases = {}
  BY <1>1, Moves DEF RemoveAdded, Goto, IInv, Places, SameHands, SameLocals
<1>4. \A s : s \in Tracked' <=> s \in Tracked /\ s # r
  <2>1. \A a \in Blocks : r \notin weak[a]
    BY <1>1, <1>2, NoneAssumption DEF IInv, TypeOK
  <2>2. \A s : s \in Tracked' <=> s \in smart' \/ \E a \in Blocks : s \in weak[a]
    BY <1>1 DEF Tracked
  <2>. QED
    BY <1>1, <2>1, <2>2, TrackedMembers
<1>5. TypeOK'
  BY <1>1, <1>3 DEF IInv, TypeOK, SameHands
<1>6. Locals'
  BY <1>1, <1>3, FreeLocals DEF FreePCs
<1>7. Apart'
  BY <1>1, <1>3, <1>4, FreeApart
<1>8. Alive'
  <2>1. \A o \in Processes : \A w \in proc'[o].aliases :
           /\ kind[w] = "weak" /\ w \notin Tracked'
           /\ addr'[w] \in {Undefined, addr'[proc[o].ref]}
           /\ \A q \in Processes : w # proc[q].new
    BY <1>1, <1>3, <1>4 DEF IInv, Alive, SameHands, Others
  <2>. QED
    BY <1>1, <1>3, <1>4, <2>1, FreeAlive
<1>9. Owned'
  <2>1. /\ heap' = heap /\ kind' = kind /\ addr' = addr /\ \A s \in smart \ smart' : r = s
        /\ proc[u].at # "finish" /\ proc[u].at \in FreePCs /\ proc'[u].at # "finish"
    BY <1>1, <1>3 DEF FreePCs
  <2>. QED
    BY <1>1, <1>2, <1>3, <2>1, FreeOwned
<1>10. Made'
  BY <1>1, <1>3, FreeMade DEF FreePCs
<1>. QED
  BY <1>5, <1>6, <1>7, <1>8, <1>9, <1>10 DEF IInv

\* How the steps of the weak refs change the locals of a process.
LEMMA Takes ==
  ASSUME TypeOK, NEW p \in Processes, NEW to \in Places, NEW S \in SUBSET Refs,
         proc' = [proc EXCEPT ![p].at = to, ![p].aliases = S]
  PROVE  /\ proc' \in [Processes -> Frames] /\ Others(p)
         /\ proc'[p].at = to /\ proc'[p].aliases = S
         /\ proc'[p].new = proc[p].new /\ proc'[p].ref = proc[p].ref
         /\ proc'[p].todo = proc[p].todo /\ proc'[p].gives = proc[p].gives
         /\ proc'[p].owns = proc[p].owns
<1>1. proc' = [proc EXCEPT ![p] = [proc[p] EXCEPT !.at = to, !.aliases = S]]
      /\ proc[p] \in Frames
  BY FrameFields DEF TypeOK, Frames
<1>2. [proc[p] EXCEPT !.at = to, !.aliases = S] \in Frames
  BY <1>1 DEF Frames
<1>. QED
  BY <1>1, <1>2 DEF TypeOK, Frames, Others

\* One alias less.
LEMMA Drops ==
  ASSUME TypeOK, NEW p \in Processes, NEW w,
         proc' = [proc EXCEPT ![p].aliases = @ \ {w}]
  PROVE  /\ proc' \in [Processes -> Frames] /\ Others(p)
         /\ proc'[p].at = proc[p].at /\ proc'[p].aliases = proc[p].aliases \ {w}
         /\ proc'[p].new = proc[p].new /\ proc'[p].ref = proc[p].ref
         /\ proc'[p].todo = proc[p].todo /\ proc'[p].gives = proc[p].gives
         /\ proc'[p].owns = proc[p].owns
<1>. DEFINE q == [proc[p] EXCEPT !.aliases = proc[p].aliases \ {w}]
<1>1. proc' = [proc EXCEPT ![p] = q] /\ proc[p] \in Frames
  BY FrameFields DEF TypeOK, Frames
<1>2. q \in Frames
  BY <1>1 DEF Frames
<1>3. /\ q.at = proc[p].at /\ q.aliases = proc[p].aliases \ {w} /\ q.new = proc[p].new
      /\ q.ref = proc[p].ref /\ q.todo = proc[p].todo /\ q.gives = proc[p].gives
      /\ q.owns = proc[p].owns
  BY <1>1 DEF Frames
<1>. HIDE DEF q
<1>. QED
  BY <1>1, <1>2, <1>3 DEF TypeOK, Others

\* What is taken from the table borrows the address that is freed.
LEMMA TakeAliasesIInv ==
  ASSUME IInv, NEW p \in Processes, TakeAliases(p)
  PROVE  IInv'
<1>. DEFINE r == proc[p].ref
<1>. USE DEF native, objects
<1>1. /\ proc[p].at = "aliases"
      /\ UNCHANGED <<native, objects, smart, bin, finalizing, running, lock, held>>
      /\ r \in Refs /\ r # None /\ proc[p].aliases = {}
      /\ addr[r] # Undefined => kind[r] = "smart"
  <2>1. /\ proc[p].at = "aliases"
        /\ UNCHANGED <<native, objects, smart, bin, finalizing, running, lock, held>>
    BY DEF TakeAliases, At
  <2>2. r \in Refs /\ r # None /\ proc[p].aliases = {}
    BY <2>1, FrameFields DEF IInv, Locals, FreePCs
  <2>. QED
    BY <2>1, <2>2 DEF IInv, Owned
<1>2. PICK S \in SUBSET Refs :
        /\ SameHands(p) /\ proc'[p].at \in {"freeRef", AfterAliases(p)} /\ proc'[p].aliases = S
        /\ S # {} => proc'[p].at = "freeRef"
        /\ \A w \in S : addr[r] # Undefined /\ w \in weak[addr[r]] /\ weak'[addr[r]] = {}
        /\ weak' \in [Blocks -> SUBSET Refs] /\ \A b \in Blocks : \A w \in weak'[b] : w \in weak[b]
  <2>1. CASE UNCHANGED weak /\ Goto(p, AfterAliases(p))
    <3>1. AfterAliases(p) \in Places /\ TypeOK
      BY DEF AfterAliases, Places, IInv
    <3>2. SameHands(p) /\ proc'[p].at = AfterAliases(p) /\ proc'[p].aliases = {}
      BY <1>1, <2>1, <3>1, Moves DEF Goto, SameHands, SameLocals
    <3>3. weak' \in [Blocks -> SUBSET Refs] /\ \A b \in Blocks : \A w \in weak'[b] : w \in weak[b]
      BY <2>1 DEF IInv, TypeOK
    <3>. QED
      BY <3>2, <3>3
  <2>2. CASE /\ addr[r] # Undefined
             /\ weak' = [weak EXCEPT ![addr[r]] = {}]
             /\ proc' = [proc EXCEPT ![p].at = "freeRef", ![p].aliases = weak[addr[r]]]
    <3>1. addr[r] \in Blocks /\ weak[addr[r]] \in SUBSET Refs
      BY <1>1, <2>2 DEF IInv, TypeOK
    <3>2. /\ weak' \in [Blocks -> SUBSET Refs] /\ weak'[addr[r]] = {}
          /\ \A b \in Blocks : \A w \in weak'[b] : w \in weak[b]
      BY <2>2, <3>1 DEF IInv, TypeOK
    <3>3. SameHands(p) /\ proc'[p].at = "freeRef" /\ proc'[p].aliases = weak[addr[r]]
      <4>1. TypeOK /\ "freeRef" \in Places
        BY DEF IInv, Places
      <4>2. PICK A \in SUBSET Refs : A = weak[addr[r]]
        BY <3>1
      <4>3. proc' = [proc EXCEPT ![p].at = "freeRef", ![p].aliases = A]
        BY <2>2, <4>2
      <4>4. /\ proc' \in [Processes -> Frames] /\ Others(p)
            /\ proc'[p].at = "freeRef" /\ proc'[p].aliases = A
            /\ proc'[p].new = proc[p].new /\ proc'[p].ref = proc[p].ref
            /\ proc'[p].todo = proc[p].todo /\ proc'[p].gives = proc[p].gives
            /\ proc'[p].owns = proc[p].owns
        BY <4>1, <4>3, Takes
      <4>. QED
        BY <1>1, <4>2, <4>4 DEF SameHands
    <3>. QED
      BY <2>2, <3>1, <3>2, <3>3
  <2>. QED
    BY <2>1, <2>2 DEF TakeAliases
<1>3. \A s : s \in Tracked' => s \in Tracked
  <2>1. \A s : s \in Tracked' <=> s \in smart \/ \E a \in Blocks : s \in weak'[a]
    BY <1>1 DEF Tracked
  <2>. QED
    BY <1>2, <2>1, TrackedMembers
<1>4. \A w \in S : /\ kind[w] = "weak" /\ w \notin Tracked' /\ addr[w] = addr[r]
                   /\ \A q \in Processes : w # proc[q].new
  <2>. SUFFICES ASSUME NEW w \in S
                PROVE  /\ kind[w] = "weak" /\ w \notin Tracked' /\ addr[w] = addr[r]
                       /\ \A q \in Processes : w # proc[q].new
    OBVIOUS
  <2>1. /\ w \in Refs /\ addr[r] \in Blocks /\ w \in weak[addr[r]] /\ weak'[addr[r]] = {}
    BY <1>1, <1>2 DEF IInv, TypeOK
  <2>2. kind[w] = "weak" /\ addr[w] = addr[r]
    BY <2>1 DEF IInv, TypeOK
  <2>3. w \in Tracked
    BY <2>1, TrackedMembers
  <2>4. w \notin Tracked'
    <3>1. \A s : s \in Tracked' <=> s \in smart \/ \E a \in Blocks : s \in weak'[a]
      BY <1>1 DEF Tracked
    <3>2. w \notin smart
      BY <2>1, <2>2, NoneAssumption DEF IInv, Alive
    <3>3. \A a \in Blocks : w \in weak'[a] => a = addr[r]
      BY <1>2, <2>2 DEF IInv, TypeOK
    <3>. QED
      BY <2>1, <3>1, <3>2, <3>3
  <2>5. \A q \in Processes : w # proc[q].new
    BY <2>1, <2>3, NoneAssumption DEF IInv, Apart
  <2>. QED
    BY <2>2, <2>4, <2>5
<1>5. TypeOK'
  <2>1. \A b \in Blocks : \A w \in weak'[b] : kind'[w] = "weak" /\ addr'[w] = b
    BY <1>1, <1>2 DEF IInv, TypeOK
  <2>2. proc' \in [Processes -> Frames]
    BY <1>2 DEF SameHands
  <2>. QED
    BY <1>1, <1>2, <2>1, <2>2 DEF IInv, TypeOK
<1>6. proc[p].gives \in BOOLEAN
  BY FrameFields DEF IInv
<1>7. Locals'
  BY <1>1, <1>2, <1>6, FreeLocals DEF FreePCs, AfterAliases
<1>8. Apart'
  <2>1. r \notin Tracked \/ addr[r] = Undefined
    BY <1>1 DEF IInv, Apart, DonePCs
  <2>2. addr' = addr
    BY <1>1
  <2>. QED
    BY <1>2, <1>3, <2>1, <2>2, FreeApart
<1>9. Alive'
  <2>1. \A o \in Processes : \A w \in proc'[o].aliases :
           /\ kind[w] = "weak" /\ w \notin Tracked'
           /\ addr'[w] \in {Undefined, addr'[proc[o].ref]}
           /\ \A q \in Processes : w # proc[q].new
    <3>1. \A o \in Processes : o # p => proc'[o].aliases = proc[o].aliases
      BY <1>2 DEF SameHands, Others
    <3>2. addr' = addr
      BY <1>1
    <3>. QED
      BY <1>2, <1>3, <1>4, <3>1, <3>2 DEF IInv, Alive
  <2>. QED
    BY <1>1, <1>2, <1>3, <2>1, FreeAlive
<1>10. Owned'
  <2>1. /\ heap' = heap /\ kind' = kind /\ addr' = addr /\ smart' = smart
        /\ proc[p].at # "finish" /\ proc[p].at \in FreePCs /\ proc'[p].at # "finish"
    BY <1>1, <1>2 DEF FreePCs, AfterAliases
  <2>. QED
    BY <1>1, <1>2, <2>1, FreeOwned
<1>11. Made'
  <2>1. heap' = heap /\ kind' = kind /\ addr' = addr /\ proc[p].at \in FreePCs
    BY <1>1 DEF FreePCs
  <2>2. proc'[p].at \in FreePCs
    BY <1>2 DEF FreePCs, AfterAliases
  <2>. QED
    BY <1>2, <2>1, <2>2, FreeMade
<1>. QED
  BY <1>5, <1>7, <1>8, <1>9, <1>10, <1>11 DEF IInv

\* An alias loses its address; it is a weak ref, and on no table.
LEMMA FreeRefIInv ==
  ASSUME IInv, NEW p \in Processes, FreeRef(p)
  PROVE  IInv'
<1>. DEFINE r == proc[p].ref
<1>. USE DEF native
<1>1. /\ proc[p].at = "freeRef"
      /\ UNCHANGED <<native, kind, tracker, lock, held>>
      /\ r \in Refs /\ r # None /\ proc[p].aliases \subseteq Refs
      /\ proc[p].gives \in BOOLEAN
  <2>1. proc[p].at = "freeRef" /\ UNCHANGED <<native, kind, tracker, lock, held>>
    BY DEF FreeRef, At
  <2>. QED
    BY <2>1, FrameFields DEF IInv, Locals, FreePCs
<1>2. /\ addr[r] # Undefined => kind[r] = "smart"
      /\ r \notin Tracked \/ addr[r] = Undefined
  <2>1. addr[r] # Undefined => kind[r] = "smart"
    BY <1>1 DEF IInv, Owned
  <2>2. r \notin Tracked \/ addr[r] = Undefined
    BY <1>1 DEF IInv, Apart, DonePCs
  <2>. QED
    BY <2>1, <2>2
<1>3. /\ SameHands(p) /\ proc'[p].at \in {"freeRef", AfterAliases(p)}
      /\ proc'[p].aliases # {} => proc'[p].at = "freeRef"
      /\ \A w \in proc'[p].aliases : w \in proc[p].aliases
      /\ \A s \in Refs : \/ addr'[s] = addr[s]
                         \/ s \in proc[p].aliases /\ addr'[s] = Undefined
      /\ addr' \in [Refs -> Blocks \cup {Undefined}]
  <2>1. CASE proc[p].aliases = {} /\ UNCHANGED addr /\ Goto(p, AfterAliases(p))
    <3>1. AfterAliases(p) \in Places /\ TypeOK
      BY DEF AfterAliases, Places, IInv
    <3>2. SameHands(p) /\ proc'[p].at = AfterAliases(p) /\ proc'[p].aliases = {}
      BY <1>1, <2>1, <3>1, Moves DEF Goto, SameHands, SameLocals, tracker
    <3>. QED
      BY <2>1, <3>2 DEF IInv, TypeOK
  <2>2. ASSUME NEW w \in proc[p].aliases, addr' = [addr EXCEPT ![w] = Undefined],
               proc' = [proc EXCEPT ![p].aliases = @ \ {w}]
        PROVE  /\ SameHands(p) /\ proc'[p].at = "freeRef"
               /\ \A x \in proc'[p].aliases : x \in proc[p].aliases
               /\ \A s \in Refs : \/ addr'[s] = addr[s]
                                  \/ s \in proc[p].aliases /\ addr'[s] = Undefined
               /\ addr' \in [Refs -> Blocks \cup {Undefined}]
    <3>1. SameHands(p) /\ proc'[p].at = "freeRef" /\ proc'[p].aliases = proc[p].aliases \ {w}
      BY <1>1, <2>2, Drops DEF IInv, SameHands, tracker
    <3>. QED
      BY <1>1, <2>2, <3>1 DEF IInv, TypeOK
  <2>. QED
    BY <2>1, <2>2 DEF FreeRef
<1>4. Tracked' = Tracked
  BY <1>1 DEF Tracked, tracker
<1>5. \A w \in proc[p].aliases : w \in Refs /\ kind[w] = "weak" /\ w \notin Tracked
  BY <1>1 DEF IInv, Alive
<1>6. TypeOK'
  <2>1. \A b \in Blocks : \A w \in weak[b] : w \in Refs /\ w \in Tracked
    BY TrackedMembers DEF IInv, TypeOK
  <2>2. \A b \in Blocks : \A w \in weak'[b] : kind'[w] = "weak" /\ addr'[w] = b
    BY <1>1, <1>3, <1>5, <2>1 DEF IInv, TypeOK, tracker
  <2>3. proc' \in [Processes -> Frames]
    BY <1>3 DEF SameHands
  <2>. QED
    BY <1>1, <1>3, <2>2, <2>3 DEF IInv, TypeOK, tracker
<1>7. Locals'
  BY <1>1, <1>3, FreeLocals DEF FreePCs, AfterAliases
<1>8. Apart'
  <2>1. \A s \in Refs : addr[s] = Undefined => addr'[s] = Undefined
    BY <1>3
  <2>. QED
    BY <1>1, <1>2, <1>3, <1>4, <2>1, FreeApart
<1>9. Alive'
  <2>1. ASSUME NEW o \in Processes, NEW w \in proc'[o].aliases
        PROVE  /\ kind[w] = "weak" /\ w \notin Tracked'
               /\ addr'[w] \in {Undefined, addr'[proc[o].ref]}
               /\ \A q \in Processes : w # proc[q].new
    <3>1. w \in proc[o].aliases
      BY <1>3 DEF SameHands, Others
    <3>2. /\ kind[w] = "weak" /\ w \notin Tracked /\ \A q \in Processes : w # proc[q].new
          /\ addr[w] \in {Undefined, addr[proc[o].ref]}
      BY <3>1 DEF IInv, Alive
    <3>3. w \in Refs /\ proc[o].ref \in Refs /\ proc[o].at = "freeRef"
      BY <3>1, FrameFields DEF IInv, Locals, FreePCs
    <3>4. addr[proc[o].ref] # Undefined => kind[proc[o].ref] = "smart"
      BY <3>3 DEF IInv, Owned
    <3>5. addr'[proc[o].ref] = addr[proc[o].ref]
      BY <1>3, <1>5, <3>3, <3>4
    <3>6. addr'[w] \in {Undefined, addr[w]}
      BY <1>3, <3>3
    <3>. QED
      BY <1>4, <3>2, <3>5, <3>6
  <2>2. \A s \in Refs : addr[s] = Undefined => addr'[s] = Undefined
    BY <1>3
  <2>. QED
    BY <1>1, <1>3, <1>4, <2>1, <2>2, FreeAlive DEF tracker
<1>10. Owned'
  <2>1. /\ heap' = heap /\ kind' = kind /\ smart' = smart
        /\ proc[p].at # "finish" /\ proc[p].at \in FreePCs /\ proc'[p].at # "finish"
    BY <1>1, <1>3 DEF FreePCs, AfterAliases, tracker
  <2>2. \A s \in Refs : addr'[s] = addr[s] \/ (kind[s] = "weak" /\ addr'[s] = Undefined)
    BY <1>3, <1>5
  <2>. QED
    BY <1>1, <1>2, <1>3, <2>1, <2>2, FreeOwned
<1>11. Made'
  <2>1. heap' = heap /\ kind' = kind /\ proc[p].at \in FreePCs /\ proc'[p].at \in FreePCs
    BY <1>1, <1>3 DEF FreePCs, AfterAliases
  <2>2. \A s \in Refs : addr'[s] = addr[s] \/ \A o \in Processes : s # proc[o].new
    BY <1>3 DEF IInv, Alive
  <2>. QED
    BY <1>3, <2>1, <2>2, FreeMade
<1>. QED
  BY <1>6, <1>7, <1>8, <1>9, <1>10, <1>11 DEF IInv

\* What a ref frees is the block that was allocated for it.
LEMMA FreesOwn ==
  ASSUME IInv, NEW p \in Processes, proc[p].at \in {"aliases", "freeRef", "native"},
         ~proc[p].gives, addr[proc[p].ref] # Undefined
  PROVE  kind[proc[p].ref] = "smart" /\ heap[addr[proc[p].ref]] = proc[p].ref
<1>1. proc[p].at \in FreePCs
  BY DEF FreePCs
<1>2. proc[p].ref \in Refs /\ \A o \in Processes : o # p => proc[o].ref # proc[p].ref
  BY <1>1, RefAlone
<1>3. kind[proc[p].ref] = "smart"
  BY <1>2 DEF IInv, Owned
<1>4. ~Ending(proc[p].ref)
  BY <1>1, <1>2 DEF Ending, At
<1>. QED
  BY <1>2, <1>3, <1>4 DEF IInv, Owned

\* The freed block was the ref's own, so no other owner loses his.
LEMMA NativeFreeIInv ==
  ASSUME IInv, NEW p \in Processes, NativeFree(p)
  PROVE  IInv'
<1>. DEFINE r == proc[p].ref
<1>. USE DEF objects
<1>1. /\ proc[p].at = "native"
      /\ UNCHANGED <<objects, tracker, lock, held, startups>>
      /\ r \in Refs /\ r # None /\ proc[p].aliases = {} /\ ~proc[p].gives
  <2>1. proc[p].at = "native" /\ UNCHANGED <<objects, tracker, lock, held, startups>>
    BY DEF NativeFree, At
  <2>. QED
    BY <2>1, FrameFields DEF IInv, Locals, FreePCs
<1>2. SameHands(p) /\ proc'[p].at = "finish" /\ proc'[p].aliases = {}
  <2>1. TypeOK /\ "finish" \in Places
    BY DEF IInv, Places
  <2>. QED
    BY <1>1, <2>1, Moves DEF NativeFree, Goto, SameHands, SameLocals, tracker
<1>3. Tracked' = Tracked
  BY <1>1 DEF Tracked, tracker
<1>4. /\ heap' \in [Blocks -> Refs \cup {Given, None}]
      /\ \A b \in Blocks : heap'[b] = IF b = addr[r] THEN None ELSE heap[b]
  <2>1. addr[r] \in Blocks \/ addr[r] = Undefined
    BY <1>1 DEF IInv, TypeOK
  <2>. QED
    BY <2>1, NoneAssumption DEF NativeFree, IInv, TypeOK
<1>5. \A b \in Blocks : b = addr[r] => heap[b] = r /\ kind[r] = "smart"
  BY <1>1, FreesOwn, NoneAssumption
<1>6. TypeOK'
  <2>1. proc' \in [Processes -> Frames]
    BY <1>2 DEF SameHands
  <2>. QED
    BY <1>1, <1>4, <2>1 DEF IInv, TypeOK, tracker
<1>7. Locals'
  BY <1>1, <1>2, FreeLocals DEF FreePCs
<1>8. Apart'
  <2>1. r \notin Tracked \/ addr[r] = Undefined
    BY <1>1 DEF IInv, Apart, DonePCs
  <2>2. addr' = addr
    BY <1>1
  <2>. QED
    BY <1>2, <1>3, <2>1, <2>2, FreeApart
<1>9. Alive'
  <2>1. \A o \in Processes : \A w \in proc'[o].aliases :
           /\ kind[w] = "weak" /\ w \notin Tracked'
           /\ addr'[w] \in {Undefined, addr'[proc[o].ref]}
           /\ \A q \in Processes : w # proc[q].new
    BY <1>1, <1>2, <1>3 DEF IInv, Alive, SameHands, Others
  <2>. QED
    BY <1>1, <1>2, <1>3, <2>1, FreeAlive DEF tracker
<1>10. Owned'
  <2>1. \A o \in Processes :
          /\ proc'[o].new = proc[o].new /\ proc'[o].ref = proc[o].ref
          /\ proc'[o].todo = proc[o].todo /\ proc'[o].gives = proc[o].gives
          /\ o # p => proc'[o].at = proc[o].at
    BY <1>2 DEF SameHands, Others
  <2>2. \A s \in Refs : Ending(s) => Ending(s)'
    BY <1>1, <2>1 DEF Ending, At
  <2>3. \A s \in Refs : OnItsWay(s) => OnItsWay(s)'
    BY <1>1, <2>1 DEF OnItsWay, tracker
  <2>4. \A s \in Refs : s = r => Ending(s)'
    BY <1>2, <2>1 DEF Ending, At
  <2>5. \A s \in Refs :
          /\ kind'[s] = "none" => addr'[s] = Undefined
          /\ kind'[s] = "smart" => addr'[s] # Undefined /\ (heap'[addr'[s]] = s \/ Ending(s)')
    <3>1. ASSUME NEW s \in Refs, kind[s] = "smart"
          PROVE  addr[s] # Undefined /\ (heap'[addr[s]] = s \/ Ending(s)')
      <4>1. addr[s] # Undefined /\ addr[s] \in Blocks /\ (heap[addr[s]] = s \/ Ending(s))
        BY <3>1 DEF IInv, TypeOK, Owned
      <4>2. CASE addr[s] = addr[r]
        BY <1>5, <2>2, <2>4, <4>1, <4>2
      <4>3. CASE addr[s] # addr[r]
        BY <1>4, <2>2, <4>1, <4>3
      <4>. QED
        BY <4>2, <4>3
    <3>. QED
      BY <1>1, <3>1 DEF IInv, Owned
  <2>6. \A b \in Blocks : heap'[b] \in Refs =>
          /\ kind'[heap'[b]] \in {"new", "smart"} /\ addr'[heap'[b]] = b
          /\ OnItsWay(heap[b])' /\ heap'[b] = heap[b]
    BY <1>1, <1>4, <2>3, NoneAssumption DEF IInv, Owned
  <2>7. \A o \in Processes : proc[o].gives => proc[o].ref \in Refs
    BY FrameFields DEF IInv, Locals, FreePCs
  <2>8. \A o \in Processes : proc'[o].at = "finish" => \A b \in Blocks : heap'[b] # proc'[o].ref
    <3>1. \A b \in Blocks : heap'[b] # r
      BY <1>1, <1>4, NoneAssumption DEF IInv, Owned
    <3>. QED
      BY <1>4, <2>1, <3>1, FrameFields, NoneAssumption DEF IInv, Owned, Locals, FreePCs
  <2>9. \A o \in Processes :
          proc'[o].gives /\ addr'[proc'[o].ref] # Undefined => heap'[addr'[proc'[o].ref]] = Given
    <3>1. ASSUME NEW o \in Processes, proc[o].gives, addr[proc[o].ref] # Undefined
          PROVE  heap'[addr[proc[o].ref]] = Given
      <4>1. addr[proc[o].ref] \in Blocks /\ heap[addr[proc[o].ref]] = Given
        BY <2>7, <3>1 DEF IInv, TypeOK, Owned
      <4>2. addr[proc[o].ref] # addr[r]
        BY <1>1, <1>5, <4>1, NoneAssumption
      <4>. QED
        BY <1>4, <4>1, <4>2
    <3>. QED
      BY <1>1, <2>1, <3>1
  <2>10. \A o \in Processes :
           /\ proc'[o].at \in {"add", "aliases", "freeRef", "native", "disown"}
           /\ addr'[proc'[o].ref] # Undefined
           => kind'[proc'[o].ref] = "smart"
    BY <1>1, <1>2, <2>1 DEF IInv, Owned
  <2>. QED
    BY <2>5, <2>6, <2>8, <2>9, <2>10 DEF Owned
<1>11. Made'
  <2>1. \A b \in Blocks : heap'[b] = heap[b] \/ (heap[b] = r /\ heap'[b] \notin Refs)
    BY <1>4, <1>5, NoneAssumption
  <2>2. kind' = kind /\ addr' = addr /\ proc[p].at \in FreePCs /\ proc'[p].at \in FreePCs
    BY <1>1, <1>2 DEF FreePCs
  <2>. QED
    BY <1>2, <2>1, <2>2, FreeMade
<1>. QED
  BY <1>6, <1>7, <1>8, <1>9, <1>10, <1>11 DEF IInv

\* When a call ends, the ref it freed or gave away is a weak one of no block.
LEMMA Ends ==
  ASSUME IInv, NEW p \in Processes, proc[p].at \in {"finish", "disown"},
         UNCHANGED <<native, tracker, lock, held>>,
         kind' = [kind EXCEPT ![proc[p].ref] = "weak"],
         addr' = [addr EXCEPT ![proc[p].ref] = Undefined] \/ addr' = addr,
         proc' \in [Processes -> Frames], Others(p),
         proc'[p].new = proc[p].new, proc'[p].ref = None, proc'[p].todo = proc[p].todo,
         proc'[p].aliases = {}, ~proc'[p].gives, proc'[p].at \notin FreePCs,
         proc'[p].at \notin MakePCs, proc'[p].owns = proc[p].owns
  PROVE  TypeOK' /\ Apart' /\ Alive' /\ Owned' /\ Made'
<1>. DEFINE r == proc[p].ref
<1>. USE DEF native, tracker
<1>1. proc[p].at \in FreePCs /\ proc[p].at \in DonePCs
  BY DEF FreePCs, DonePCs
<1>2. /\ r \in Refs /\ r # None /\ (r \notin Tracked \/ addr[r] = Undefined)
      /\ \A o \in Processes : proc[o].new # r /\ (o # p => proc[o].ref # r)
  BY <1>1, RefAlone DEF IInv, Apart
<1>3. Tracked' = Tracked
  BY DEF Tracked
<1>4. /\ \A s \in Refs : s # r => kind'[s] = kind[s] /\ addr'[s] = addr[s]
      /\ kind'[r] = "weak" /\ addr'[r] \in {addr[r], Undefined}
      /\ kind' \in [Refs -> {"none", "new", "smart", "weak"}]
      /\ addr' \in [Refs -> Blocks \cup {Undefined}]
  BY <1>2 DEF IInv, TypeOK
<1>5. \A o \in Processes :
        /\ proc'[o].new = proc[o].new /\ proc'[o].todo = proc[o].todo
        /\ o # p => /\ proc'[o].at = proc[o].at /\ proc'[o].ref = proc[o].ref
                    /\ proc'[o].aliases = proc[o].aliases /\ proc'[o].gives = proc[o].gives
  BY DEF Others
<1>6. TypeOK'
  <2>1. \A b \in Blocks : \A w \in weak[b] : w \in Refs /\ w # r
    BY <1>2, TrackedMembers, NoneAssumption DEF IInv, TypeOK
  <2>2. \A b \in Blocks : \A w \in weak'[b] : kind'[w] = "weak" /\ addr'[w] = b
    BY <1>4, <2>1 DEF IInv, TypeOK
  <2>. QED
    BY <1>4, <2>2 DEF IInv, TypeOK
<1>7. Apart'
  <2>1. \A o \in Processes :
          /\ proc'[o].ref # None => proc'[o].ref = proc[o].ref
          /\ proc'[o].at \in DonePCs => proc[o].at \in DonePCs /\ proc'[o].ref = proc[o].ref
    BY <1>5 DEF DonePCs, FreePCs
  <2>2. \A s \in Refs : addr[s] = Undefined => addr'[s] = Undefined
    BY <1>4
  <2>3. \A o \in Processes : proc[o].at \in DonePCs => proc[o].ref \in Refs
    BY FrameFields DEF IInv, Locals, FreePCs, DonePCs
  <2>. QED
    BY <1>3, <1>5, <2>1, <2>2, <2>3 DEF IInv, Apart
<1>8. Alive'
  <2>1. \A s \in Refs : Reachable(s)' => Reachable(s)
    BY <1>5, NoneAssumption DEF Reachable, InUse
  <2>2. r \in smart => addr[r] = Undefined
    BY <1>2, TrackedMembers
  <2>3. \A s \in Refs : Reachable(s)' \/ s \in Tracked' => kind'[s] # "none"
    BY <1>3, <1>4, <2>1 DEF IInv, Alive
  <2>4. \A s \in smart' : kind'[s] = "smart" \/ addr'[s] = Undefined
    BY <1>4, <2>2 DEF IInv, TypeOK, Alive
  <2>5. ASSUME NEW o \in Processes, NEW w \in proc'[o].aliases
        PROVE  /\ kind'[w] = "weak" /\ w \notin Tracked'
               /\ addr'[w] \in {Undefined, addr'[proc'[o].ref]}
               /\ \A q \in Processes : w # proc'[q].new
    <3>1. o # p /\ w \in proc[o].aliases /\ proc'[o].ref = proc[o].ref
      BY <1>5
    <3>2. w \in Refs /\ proc[o].ref \in Refs
      BY <3>1, FrameFields DEF IInv, Locals, FreePCs
    <3>3. /\ kind[w] = "weak" /\ w \notin Tracked /\ \A q \in Processes : w # proc[q].new
          /\ addr[w] \in {Undefined, addr[proc[o].ref]}
      BY <3>1 DEF IInv, Alive
    <3>4. proc[o].ref # r
      BY <1>2, <3>1
    <3>5. addr'[w] \in {Undefined, addr[w]} /\ addr'[proc[o].ref] = addr[proc[o].ref]
      BY <1>4, <3>2, <3>4
    <3>6. kind'[w] = "weak" /\ w \notin Tracked' /\ \A q \in Processes : w # proc'[q].new
      BY <1>3, <1>4, <1>5, <3>2, <3>3
    <3>. QED
      BY <3>1, <3>3, <3>5, <3>6
  <2>. QED
    BY <2>3, <2>4, <2>5 DEF Alive
<1>9. Owned'
  <2>1. \A s \in Refs : s # r /\ Ending(s) => Ending(s)'
    BY <1>5 DEF Ending, At
  <2>2. \A s \in Refs : s # r /\ OnItsWay(s) => OnItsWay(s)'
    BY <1>5 DEF OnItsWay
  <2>3. \A b \in Blocks : heap[b] # r
    <3>1. CASE proc[p].at = "finish"
      BY <3>1 DEF IInv, Owned
    <3>2. CASE proc[p].at = "disown"
      <4>1. proc[p].gives
        BY <3>2 DEF IInv, Locals
      <4>. QED
        BY <1>2, <4>1, NoneAssumption DEF IInv, TypeOK, Owned
    <3>. QED
      BY <3>1, <3>2
  <2>4. \A s \in Refs :
          /\ kind'[s] = "none" => addr'[s] = Undefined
          /\ kind'[s] = "smart" => addr'[s] # Undefined /\ (heap'[addr'[s]] = s \/ Ending(s)')
    BY <1>4, <2>1 DEF IInv, Owned
  <2>5. \A b \in Blocks : heap'[b] \in Refs =>
          kind'[heap'[b]] \in {"new", "smart"} /\ addr'[heap'[b]] = b /\ OnItsWay(heap[b])'
    BY <1>4, <2>2, <2>3 DEF IInv, Owned
  <2>6. \A o \in Processes : proc'[o].gives \/ proc'[o].at \in FreePCs =>
          /\ proc[o].ref \in Refs \ {r} /\ proc'[o].ref = proc[o].ref
          /\ proc'[o].at = proc[o].at /\ proc'[o].gives = proc[o].gives
    BY <1>2, <1>5, FrameFields DEF IInv, Locals, FreePCs
  <2>7. \A o \in Processes :
          LET q == proc'[o] IN
          /\ q.at = "finish" => \A b \in Blocks : heap'[b] # q.ref
          /\ q.gives /\ addr'[q.ref] # Undefined => heap'[addr'[q.ref]] = Given
          /\ q.at \in {"add", "aliases", "freeRef", "native", "disown"} /\ addr'[q.ref] # Undefined
               => kind'[q.ref] = "smart"
    BY <1>4, <2>6 DEF IInv, Owned, FreePCs
  <2>. QED
    BY <2>4, <2>5, <2>7 DEF Owned
<1>10. Made'
  <2>1. \A u \in Users : u \in Processes /\ proc[u].new \in Refs \cup {None}
    BY FrameFields DEF IInv, Processes
  <2>2. SameMaking
    <3>1. /\ proc'[p].at \notin MakePCs /\ proc[p].at \notin MakePCs
          /\ proc'[p].new = proc[p].new /\ proc'[p].owns = proc[p].owns
          /\ \A o \in Processes : o # p => proc'[o] = proc[o]
      BY DEF MakePCs, Others
    <3>. QED
      BY <2>1, <3>1 DEF SameMaking
  <2>3. SameUnmade
    BY <1>2, <1>4, <2>1 DEF SameUnmade
  <2>. QED
    BY <2>2, <2>3, MadeSame
<1>. QED
  BY <1>6, <1>7, <1>8, <1>9, <1>10

\* The freed ref becomes a weak one without an address.
LEMMA FinishFreeIInv ==
  ASSUME IInv, NEW p \in Processes, FinishFree(p)
  PROVE  IInv'
<1>1. /\ proc[p].at = "finish" /\ proc[p].aliases = {} /\ ~proc[p].gives
      /\ UNCHANGED <<native, tracker, lock, held>>
      /\ kind' = [kind EXCEPT ![proc[p].ref] = "weak"]
      /\ addr' = [addr EXCEPT ![proc[p].ref] = Undefined]
  BY DEF FinishFree, At, IInv, Locals
<1>2. PICK to \in Places :
        /\ to = IF lock = p THEN "next" ELSE "idle"
        /\ proc' = [proc EXCEPT ![p].at = to, ![p].ref = None]
  BY DEF FinishFree, Places
<1>3. /\ proc' \in [Processes -> Frames] /\ Others(p)
      /\ proc'[p].at = to /\ proc'[p].ref = None
      /\ proc'[p].new = proc[p].new /\ proc'[p].todo = proc[p].todo
      /\ proc'[p].aliases = proc[p].aliases /\ proc'[p].gives = proc[p].gives
      /\ proc'[p].owns = proc[p].owns
  <2>1. TypeOK
    BY DEF IInv
  <2>2. /\ proc' = [proc EXCEPT ![p] = [proc[p] EXCEPT !.at = to, !.ref = None]]
        /\ proc[p] \in Frames
    BY <1>2, <2>1, FrameFields DEF TypeOK, Frames
  <2>3. [proc[p] EXCEPT !.at = to, !.ref = None] \in Frames
    BY <2>2 DEF Frames
  <2>. QED
    BY <2>1, <2>2, <2>3 DEF TypeOK, Frames, Others
<1>4. TypeOK' /\ Apart' /\ Alive' /\ Owned' /\ Made'
  <2>1. proc'[p].at \notin FreePCs /\ proc'[p].at \notin MakePCs
    BY <1>2, <1>3 DEF FreePCs, MakePCs
  <2>2. proc'[p].aliases = {} /\ ~proc'[p].gives
    BY <1>1, <1>3
  <2>. QED
    BY <1>1, <1>3, <2>1, <2>2, Ends
<1>5. Locals'
  BY <1>1, <1>2, <1>3, UsersAssumption DEF IInv, Locals, Others, FreePCs, TrackPCs
<1>. QED
  BY <1>4, <1>5 DEF IInv

\* The ref that was given away becomes a weak one.
LEMMA DisownIInv ==
  ASSUME IInv, NEW u \in Users, Disown(u)
  PROVE  IInv'
<1>1. /\ u \in Processes /\ proc[u].at = "disown" /\ lock # u
      /\ UNCHANGED <<native, tracker, lock, held>>
      /\ kind' = [kind EXCEPT ![proc[u].ref] = "weak"] /\ addr' = addr
      /\ proc[u].new = None /\ proc[u].todo = {} /\ proc[u].owns = FALSE
  <2>1. /\ u \in Processes /\ proc[u].at = "disown" /\ proc[u].owns \in BOOLEAN
        /\ UNCHANGED <<native, tracker, lock, held>>
        /\ kind' = [kind EXCEPT ![proc[u].ref] = "weak"] /\ addr' = addr
    BY FrameFields DEF Disown, At, IInv, Processes
  <2>. QED
    BY <2>1 DEF IInv, Locals, FreePCs, TrackPCs
<1>2. /\ proc' \in [Processes -> Frames] /\ Others(u) /\ proc'[u] = Resting
  BY <1>1 DEF Disown, IInv, TypeOK, Frames, Places, Resting, Others
<1>3. TypeOK' /\ Apart' /\ Alive' /\ Owned' /\ Made'
  <2>1. /\ proc'[u].at \notin FreePCs /\ proc'[u].new = None /\ proc'[u].ref = None
        /\ proc'[u].todo = {} /\ proc'[u].aliases = {} /\ ~proc'[u].gives
        /\ proc'[u].at \notin MakePCs /\ proc'[u].owns = FALSE
    BY <1>2 DEF FreePCs, MakePCs, Resting
  <2>. QED
    BY <1>1, <1>2, <2>1, Ends
<1>4. Locals'
  BY <1>1, <1>2, UsersAssumption DEF IInv, Locals, Others, FreePCs, TrackPCs, Resting
<1>. QED
  BY <1>3, <1>4 DEF IInv

\* A new weak ref is nowhere but with its maker.
LEMMA AsWeakReferenceIInv ==
  ASSUME IInv, NEW u \in Users, NEW r \in Refs, NEW w \in Refs, AsWeakReference(u, r, w)
  PROVE  IInv'
<1>. USE DEF tracker, native
<1>1. /\ u \in Processes /\ proc[u].at = "idle" /\ kind[w] = "none"
      /\ UNCHANGED <<tracker, lock, native>>
  BY DEF AsWeakReference, At, Processes
<1>2. addr[r] \in Blocks
  BY DEF AsWeakReference, IInv, TypeOK
<1>3. Introduces(u, w, addr[r], FALSE)
  BY AsWeakReferenceIntroduces
<1>4. TypeOK' /\ Locals' /\ Apart' /\ Alive'
  <2>1. heap' \in [Blocks -> Refs \cup {Given, None}]
    BY <1>1 DEF IInv, TypeOK
  <2>. QED
    BY <1>1, <1>2, <1>3, <2>1, NewRef
<1>5. /\ Others(u) /\ proc'[u].at = "instance" /\ proc'[u].new = w
      /\ proc'[u].ref = proc[u].ref /\ proc'[u].todo = proc[u].todo
      /\ proc'[u].gives = proc[u].gives
  BY <1>3 DEF Introduces
<1>6. /\ \A s \in Refs : s # w => kind'[s] = kind[s] /\ addr'[s] = addr[s]
      /\ kind'[w] = "new"
  BY <1>3 DEF IInv, TypeOK, Introduces
<1>7. proc[u].new = None /\ proc[u].ref = None /\ ~proc[u].gives
  BY <1>1 DEF IInv, Locals, FreePCs, TrackPCs
<1>8. Owned'
  <2>1. \A s \in Refs : Ending(s) => Ending(s)'
    BY <1>1, <1>5 DEF Others, Ending, At
  <2>2. \A s \in Refs : OnItsWay(s) => OnItsWay(s)'
    BY <1>1, <1>5, <1>7, NoneAssumption DEF Others, OnItsWay
  <2>3. \A s \in Refs :
          /\ kind'[s] = "none" => addr'[s] = Undefined
          /\ kind'[s] = "smart" => addr'[s] # Undefined /\ (heap'[addr'[s]] = s \/ Ending(s)')
    BY <1>1, <1>6, <2>1 DEF IInv, Owned
  <2>4. \A c \in Blocks : heap'[c] \in Refs =>
          kind'[heap'[c]] \in {"new", "smart"} /\ addr'[heap'[c]] = c /\ OnItsWay(heap[c])'
    BY <1>1, <1>6, <2>2, Fresh DEF IInv, Owned
  <2>5. \A p \in Processes :
          /\ proc'[p].ref = proc[p].ref /\ proc'[p].gives = proc[p].gives
          /\ proc'[p].at \in FreePCs => proc'[p].at = proc[p].at /\ proc[p].ref \in Refs \ {w}
    BY <1>1, <1>5, Fresh, FrameFields DEF IInv, Locals, Others, FreePCs
  <2>6. \A p \in Processes : proc'[p].gives => proc'[p].at \in FreePCs
    BY <1>5, <1>7 DEF IInv, Locals, Others, FreePCs
  <2>7. \A p \in Processes :
          LET q == proc'[p] IN
          /\ q.at = "finish" => \A c \in Blocks : heap'[c] # q.ref
          /\ q.gives /\ addr'[q.ref] # Undefined => heap'[addr'[q.ref]] = Given
          /\ q.at \in {"add", "aliases", "freeRef", "native", "disown"} /\ addr'[q.ref] # Undefined
               => kind'[q.ref] = "smart"
    BY <1>1, <1>6, <2>5, <2>6 DEF IInv, Owned, FreePCs
  <2>. QED
    BY <2>3, <2>4, <2>7 DEF Owned
<1>9. Made'
  <2>1. \A b \in Blocks : heap'[b] = heap[b]
    BY <1>1
  <2>. QED
    BY <1>1, <1>2, <1>3, <2>1, NewMade
<1>. QED
  BY <1>4, <1>8, <1>9 DEF IInv

\* What a step of ownsMemory: leaves alone.
LEMMA OwnsMemorySame ==
  ASSUME IInv, NEW u \in Users, OwnsMemory(u)
  PROVE  /\ u \in Processes /\ u # monitor /\ proc[u].at = "own" /\ lock # u
         /\ UNCHANGED <<native, addr, tracker, lock, held>> /\ Tracked' = Tracked
         /\ proc[u].ref = None /\ proc[u].todo = {} /\ proc[u].aliases = {} /\ ~proc[u].gives
         /\ proc' \in [Processes -> Frames] /\ Others(u)
         /\ proc'[u].ref = None /\ proc'[u].todo = {} /\ proc'[u].aliases = {} /\ ~proc'[u].gives
         /\ kind' \in [Refs -> {"none", "new", "smart", "weak"}]
         /\ \/ /\ kind[proc[u].new] = "new"
               /\ proc'[u].at = "check" /\ proc'[u].new = proc[u].new
               /\ proc'[u].owns = proc[u].owns
               /\ kind'[proc[u].new] = IF proc[u].owns THEN "smart" ELSE "weak"
               /\ \A s \in Refs : s # proc[u].new => kind'[s] = kind[s]
            \/ /\ kind[proc[u].new] = "weak" /\ addr[proc[u].new] = Undefined
               /\ proc'[u].at = "idle" /\ proc'[u].new = None /\ ~proc'[u].owns
               /\ kind' = kind
<1>1. /\ u \in Processes /\ u # monitor /\ proc[u].at = "own"
      /\ UNCHANGED <<native, addr, tracker, lock, held>>
  BY UsersAssumption DEF OwnsMemory, At, Processes
<1>2. /\ lock # u /\ proc[u].ref = None /\ proc[u].todo = {} /\ proc[u].aliases = {}
      /\ ~proc[u].gives /\ proc[u].new # None
  BY <1>1 DEF IInv, Locals, FreePCs, TrackPCs
<1>3. Tracked' = Tracked
  BY <1>1 DEF Tracked, tracker
<1>4. proc[u].new \in Refs
  BY <1>2, NewAlone
<1>5. CASE kind[proc[u].new] = "new"
  <2>1. /\ kind' = [kind EXCEPT ![proc[u].new] = IF proc[u].owns THEN "smart" ELSE "weak"]
        /\ proc' = [proc EXCEPT ![u].at = "check"]
    BY <1>5 DEF OwnsMemory, Goto
  <2>2. TypeOK /\ "check" \in Places
    BY DEF IInv, Places
  <2>3. proc' \in [Processes -> Frames] /\ Others(u) /\ SameLocals(u) /\ proc'[u].at = "check"
    BY <1>1, <2>1, <2>2, Moves
  <2>. QED
    BY <1>1, <1>2, <1>3, <1>4, <1>5, <2>1, <2>3 DEF SameLocals, IInv, TypeOK
<1>6. CASE kind[proc[u].new] # "new"
  <2>1. kind' = kind /\ proc' = [proc EXCEPT ![u] = Resting]
    BY <1>6 DEF OwnsMemory
  <2>2. Resting \in Frames /\ TypeOK
    BY DEF Resting, Frames, Places, IInv
  <2>3. proc' \in [Processes -> Frames] /\ Others(u) /\ proc'[u] = Resting
    BY <1>1, <2>1, <2>2, Creates
  <2>4. kind[proc[u].new] = "weak" /\ addr[proc[u].new] = Undefined
    BY <1>1, <1>2, <1>6 DEF IInv, Made, MakePCs
  <2>. QED
    BY <1>1, <1>2, <1>3, <2>1, <2>3, <2>4 DEF Resting, IInv, TypeOK
<1>. QED
  BY <1>5, <1>6

\* The ref is what it was to be, or was made weak and undefined by a startup.
LEMMA OwnsMemoryIInv ==
  ASSUME IInv, NEW u \in Users, OwnsMemory(u)
  PROVE  IInv'
<1>. USE DEF native, tracker
<1>1. /\ u \in Processes /\ u # monitor /\ proc[u].at = "own" /\ lock # u
      /\ UNCHANGED <<native, addr, tracker, lock, held>> /\ Tracked' = Tracked
      /\ proc[u].ref = None /\ proc[u].todo = {} /\ proc[u].aliases = {} /\ ~proc[u].gives
      /\ proc' \in [Processes -> Frames] /\ Others(u)
      /\ proc'[u].ref = None /\ proc'[u].todo = {} /\ proc'[u].aliases = {} /\ ~proc'[u].gives
      /\ kind' \in [Refs -> {"none", "new", "smart", "weak"}]
  BY OwnsMemorySame
<1>2. proc[u].new # None
  BY <1>1 DEF IInv, Locals, TrackPCs
<1>3. PICK r \in Refs : r = proc[u].new
  BY <1>2, NewAlone
<1>4. \/ /\ kind[r] = "new" /\ proc'[u].at = "check" /\ proc'[u].new = r
         /\ proc'[u].owns = proc[u].owns
         /\ kind'[r] = IF proc[u].owns THEN "smart" ELSE "weak"
         /\ \A s \in Refs : s # r => kind'[s] = kind[s]
      \/ /\ kind[r] = "weak" /\ addr[r] = Undefined
         /\ proc'[u].at = "idle" /\ proc'[u].new = None /\ ~proc'[u].owns /\ kind' = kind
  BY <1>3, OwnsMemorySame
<1>5. r # None
  BY <1>2, <1>3
<1>6. /\ r \in Refs /\ r \in held[u] /\ r \notin Tracked /\ r \notin bin \cup finalizing
      /\ \A o \in Processes : /\ proc[o].ref # r /\ r \notin proc[o].todo
                              /\ r \notin proc[o].aliases
                              /\ o # u => proc[o].new # r
  BY <1>2, <1>3, NewAlone
<1>7. /\ ~proc[u].owns => kind[r] \in {"new", "weak"} /\ \A b \in Blocks : heap[b] # r
      /\ proc[u].owns /\ addr[r] # Undefined => kind[r] \in {"new", "smart"} /\ heap[addr[r]] = r
      /\ kind[r] = "new" => addr[r] # Undefined
  <2>2. /\ ~proc[u].owns => kind[r] \in {"new", "weak"} /\ \A b \in Blocks : heap[b] # r
        /\ proc[u].owns /\ addr[r] # Undefined => kind[r] \in {"new", "smart"} /\ heap[addr[r]] = r
    BY <1>2, <1>3 DEF IInv, Made
  <2>3. kind[r] = "new" => addr[r] # Undefined
    BY <1>6 DEF IInv, Made
  <2>. QED
    BY <2>2, <2>3
<1>8. \A s \in Refs : s # r => kind'[s] = kind[s]
  BY <1>4
<1>9. \A o \in Processes : o # u => proc'[o] = proc[o]
  BY <1>1 DEF Others
<1>10. TypeOK'
  <2>1. \A b \in Blocks : \A w \in weak[b] : w \in Refs /\ w # r
    BY <1>6, TrackedMembers DEF IInv, TypeOK
  <2>2. \A b \in Blocks : \A w \in weak'[b] : kind'[w] = "weak" /\ addr'[w] = b
    BY <1>1, <1>8, <2>1 DEF IInv, TypeOK
  <2>. QED
    BY <1>1, <2>2 DEF IInv, TypeOK
<1>11. Locals'
  BY <1>1, <1>4, <1>5, <1>9, UsersAssumption DEF IInv, Locals, FreePCs, TrackPCs
<1>12. \A o \in Processes :
         /\ proc'[o].ref = proc[o].ref /\ proc'[o].todo = proc[o].todo
         /\ proc'[o].aliases = proc[o].aliases /\ proc'[o].gives = proc[o].gives
         /\ proc'[o].at \in FreePCs \cup DonePCs => proc'[o].at = proc[o].at
         /\ proc'[o].new = proc[o].new \/ (o = u /\ proc'[o].new = None)
  <2>1. /\ proc'[u].ref = proc[u].ref /\ proc'[u].todo = proc[u].todo
        /\ proc'[u].aliases = proc[u].aliases /\ proc'[u].gives = proc[u].gives
        /\ proc'[u].at \notin FreePCs \cup DonePCs
        /\ proc'[u].new = proc[u].new \/ proc'[u].new = None
    <3>1. proc[u].gives \in BOOLEAN /\ proc'[u].gives \in BOOLEAN
      BY <1>1, FrameFields DEF IInv, Frames
    <3>. QED
      BY <1>1, <1>4, <1>3, <3>1 DEF FreePCs, DonePCs
  <2>. QED
    BY <1>9, <2>1
<1>13. Apart'
  BY <1>1, <1>12 DEF IInv, Apart
<1>14. Alive'
  <2>1. \A s \in Refs : Reachable(s)' => Reachable(s)
    BY <1>1, <1>12, NoneAssumption DEF Reachable, InUse
  <2>2. kind'[r] # "none"
    BY <1>4
  <2>3. \A s \in Refs : Reachable(s)' \/ s \in Tracked' => kind'[s] # "none"
    BY <1>1, <1>8, <2>1, <2>2 DEF IInv, Alive
  <2>4. \A s \in smart' : kind'[s] = "smart" \/ addr'[s] = Undefined
    <3>1. \A s \in smart : s \in Refs /\ s # r
      BY <1>6, TrackedMembers DEF IInv, TypeOK
    <3>. QED
      BY <1>1, <1>8, <3>1 DEF IInv, Alive
  <2>5. ASSUME NEW p \in Processes, NEW w \in proc'[p].aliases
        PROVE  /\ kind'[w] = "weak" /\ w \notin Tracked'
               /\ addr'[w] \in {Undefined, addr'[proc'[p].ref]}
               /\ \A o \in Processes : w # proc'[o].new
    <3>1. w \in proc[p].aliases /\ w # r /\ w \in Refs
      BY <1>6, <1>12, FrameFields DEF IInv
    <3>2. /\ kind[w] = "weak" /\ w \notin Tracked /\ addr[w] \in {Undefined, addr[proc[p].ref]}
          /\ \A o \in Processes : w # proc[o].new
      BY <3>1 DEF IInv, Alive
    <3>. QED
      BY <1>1, <1>8, <1>12, <3>1, <3>2, NoneAssumption
  <2>. QED
    BY <2>3, <2>4, <2>5 DEF Alive
<1>15. Owned'
  <2>1. \A s \in Refs : Ending(s) => Ending(s)'
    BY <1>1, <1>12, <1>9 DEF Ending, At
  <2>2. heap[addr[r]] = r \/ kind'[r] # "smart"
    BY <1>4, <1>7
  <2>3. \A b \in Blocks : heap[b] = r => kind'[r] = "smart" /\ OnItsWay(r)'
    <3>1. ASSUME NEW b \in Blocks, heap[b] = r
          PROVE  kind'[r] = "smart" /\ proc'[u].new = r
      <4>1. addr[r] = b /\ b # Undefined
        BY <1>6, <3>1, NoneAssumption DEF IInv, Owned
      <4>2. proc[u].owns
        BY <1>7, <3>1
      <4>. QED
        BY <1>4, <4>1, <4>2
    <3>. QED
      BY <1>1, <3>1 DEF OnItsWay
  <2>4. \A s \in Refs : s # r /\ OnItsWay(s) => OnItsWay(s)'
    <3>1. \A s \in Refs : s # r => \A o \in Processes : s = proc[o].new => s = proc'[o].new
      BY <1>9, <1>3
    <3>. QED
      BY <1>1, <1>12, <3>1 DEF OnItsWay
  <2>5. \A s \in Refs :
          /\ kind'[s] = "none" => addr'[s] = Undefined
          /\ kind'[s] = "smart" => addr'[s] # Undefined /\ (heap'[addr'[s]] = s \/ Ending(s)')
    <3>1. kind'[r] = "smart" => addr[r] # Undefined
      BY <1>4, <1>7
    <3>2. kind'[r] # "none"
      BY <1>4
    <3>. QED
      BY <1>1, <1>8, <2>1, <2>2, <3>1, <3>2 DEF IInv, Owned
  <2>6. \A c \in Blocks : heap'[c] \in Refs =>
          kind'[heap'[c]] \in {"new", "smart"} /\ addr'[heap'[c]] = c /\ OnItsWay(heap[c])'
    BY <1>1, <1>8, <2>3, <2>4 DEF IInv, Owned
  <2>7. \A p \in Processes : proc'[p].gives \/ proc'[p].at \in FreePCs =>
          /\ p # u /\ proc[p].ref \in Refs \ {r}
    BY <1>1, <1>6, <1>12, FrameFields DEF IInv, Locals, FreePCs
  <2>8. \A p \in Processes :
          LET q == proc'[p] IN
          /\ q.at = "finish" => \A c \in Blocks : heap'[c] # q.ref
          /\ q.gives /\ addr'[q.ref] # Undefined => heap'[addr'[q.ref]] = Given
          /\ q.at \in {"add", "aliases", "freeRef", "native", "disown"} /\ addr'[q.ref] # Undefined
               => kind'[q.ref] = "smart"
    BY <1>1, <1>8, <1>9, <2>7 DEF IInv, Owned, FreePCs
  <2>. QED
    BY <2>5, <2>6, <2>8 DEF Owned
<1>16. Made'
  <2>1. \A v \in Users : v \in Processes /\ proc[v].new \in Refs \cup {None}
    BY FrameFields DEF IInv, Processes
  <2>2. \A s \in Refs : kind'[s] = "new" =>
          addr'[s] # Undefined /\ \E v \in Users : proc'[v].new = s /\ proc'[v].at \in MakePCs
    <3>. SUFFICES ASSUME NEW s \in Refs, kind'[s] = "new"
                  PROVE  addr'[s] # Undefined
                         /\ \E v \in Users : proc'[v].new = s /\ proc'[v].at \in MakePCs
      OBVIOUS
    <3>1. s # r /\ kind[s] = "new"
      BY <1>4, <1>8
    <3>2. addr[s] # Undefined /\ \E v \in Users : proc[v].new = s /\ proc[v].at \in MakePCs
      BY <3>1 DEF IInv, Made
    <3>. QED
      BY <1>1, <1>9, <2>1, <3>1, <3>2, <1>3
  <2>3. ASSUME NEW v \in Users, proc'[v].new # None
        PROVE  LET q == proc'[v]
                   t == q.new IN
               /\ ~q.owns => kind'[t] \in {"new", "weak"} /\ \A b \in Blocks : heap'[b] # t
               /\ q.owns /\ addr'[t] # Undefined =>
                    kind'[t] \in {"new", "smart"} /\ heap'[addr'[t]] = t
               /\ q.at \in MakePCs =>
                    kind'[t] = "new" \/ (kind'[t] = "weak" /\ addr'[t] = Undefined)
               /\ q.at \notin MakePCs => kind'[t] # "new"
    <3>1. CASE v = u
      BY <1>1, <1>4, <1>7, <2>3, <3>1 DEF MakePCs
    <3>2. CASE v # u
      <4>1. proc'[v] = proc[v] /\ proc[v].new # None /\ proc[v].new \in Refs /\ proc[v].new # r
        BY <1>6, <1>9, <2>1, <2>3, <3>2
      <4>2. kind'[proc[v].new] = kind[proc[v].new]
        BY <1>8, <4>1
      <4>. QED
        BY <1>1, <4>1, <4>2 DEF IInv, Made
    <3>. QED
      BY <3>1, <3>2
  <2>. QED
    BY <2>2, <2>3 DEF Made
<1>. QED
  BY <1>10, <1>11, <1>13, <1>14, <1>15, <1>16 DEF IInv

\* A held ref is not being freed by anybody but its holder, nor a new one by it.
LEMMA HeldAlone ==
  ASSUME IInv, NEW u \in Users, NEW r \in held[u]
  PROVE  /\ r \in Refs /\ r # None
         /\ \A o \in Processes : proc[o].ref = r => o = u /\ lock # u /\ proc[u].new = None
         /\ \A v \in Users : r \in held[v] => v = u
<1>1. r \in Refs /\ r # None
  BY NoneAssumption DEF IInv, TypeOK
<1>2. \A v \in Users : r \in held[v] => v = u
  BY DEF IInv, Apart
<1>3. ASSUME NEW o \in Processes, proc[o].ref = r
      PROVE  o = u /\ lock # u /\ proc[u].new = None
  <2>1. lock # o
    BY <1>1, <1>3 DEF IInv, Apart
  <2>2. o \in Users /\ r \in held[o]
    BY <1>1, <1>3, <2>1 DEF IInv, Apart, Locals, Processes
  <2>. QED
    BY <1>1, <1>2, <1>3, <2>1, <2>2 DEF IInv, Locals, FreePCs, TrackPCs
<1>. QED
  BY <1>1, <1>2, <1>3

\* A process begins to free, or to give away, a ref that it holds.
Begins(u, r, to) ==
  /\ UNCHANGED <<objects, tracker, lock, held>>
  /\ Others(u) /\ proc' \in [Processes -> Frames]
  /\ proc'[u].at = to /\ proc'[u].ref = r /\ (proc'[u].gives <=> to = "add")
  /\ proc'[u].new = proc[u].new /\ proc'[u].todo = proc[u].todo
  /\ proc'[u].aliases = proc[u].aliases /\ proc'[u].owns = proc[u].owns

\* To begin a free changes nobody's hands: the process holds the ref already.
LEMMA BeginsOnly ==
  ASSUME IInv, NEW u \in Users, NEW r \in Refs, NEW to \in {"free", "add"},
         Begins(u, r, to), proc[u].at = "idle", r \in held[u],
         \A b \in Blocks : heap'[b] = heap[b] \/ (heap[b] = r /\ heap'[b] \notin Refs)
  PROVE  /\ Locals' /\ Apart' /\ Alive' /\ Made'
         /\ proc[u].ref = None /\ ~proc[u].gives
         /\ \A o \in Processes : proc[o].ref # r
<1>1. /\ u \in Processes /\ u # monitor /\ r # None
      /\ proc[u].ref = None /\ proc[u].new = None /\ proc[u].todo = {} /\ proc[u].aliases = {}
      /\ ~proc[u].gives /\ lock # u
  BY UsersAssumption, NoneAssumption DEF IInv, Locals, FreePCs, TrackPCs, Processes
<1>2. Locals'
  <2>1. /\ lock' = lock /\ \A o \in Processes : o # u => proc'[o] = proc[o]
        /\ proc'[u].new = None /\ proc'[u].ref = r /\ proc'[u].todo = {} /\ proc'[u].aliases = {}
        /\ (proc'[u].at = "free" /\ ~proc'[u].gives) \/ (proc'[u].at = "add" /\ proc'[u].gives)
        /\ proc'[u].owns = proc[u].owns
    BY <1>1 DEF Begins, Others
  <2>. QED
    BY <1>1, <2>1 DEF IInv, Locals, FreePCs, TrackPCs
<1>3. /\ Tracked' = Tracked /\ UNCHANGED <<kind, addr, smart, bin, finalizing, held, lock>>
  BY DEF Tracked, Begins, tracker, objects
<1>4. \A o \in Processes :
        /\ proc'[o].new = proc[o].new /\ proc'[o].todo = proc[o].todo
        /\ proc'[o].aliases = proc[o].aliases
        /\ proc'[o].ref = proc[o].ref \/ (o = u /\ proc'[o].ref = r)
        /\ proc'[o].at \in DonePCs => proc[o].at \in DonePCs /\ proc'[o].ref = proc[o].ref
  BY DEF Begins, Others, DonePCs
<1>5. Apart'
  BY <1>1, <1>3, <1>4 DEF IInv, Apart
<1>6. \A o \in Processes : proc[o].ref # r
  BY <1>1 DEF IInv, Locals, Apart, Processes
<1>7. Alive'
  <2>1. \A s \in Refs : Reachable(s)' => Reachable(s)
    BY <1>1, <1>3, <1>4 DEF Reachable, InUse
  <2>2. \A o \in Processes : proc'[o].aliases # {} => proc'[o].ref = proc[o].ref
    BY <1>1, <1>4
  <2>. QED
    BY <1>3, <1>4, <2>1, <2>2 DEF IInv, Alive
<1>8. Made'
  <2>1. \A v \in Users : v \in Processes /\ proc[v].new \in Refs \cup {None} /\ proc[v].new # r
    <3>1. \A v \in Users : v \in Processes /\ proc[v].new \in Refs \cup {None}
      BY FrameFields DEF IInv, Processes
    <3>2. \A v \in Users : proc[v].new # None => proc[v].new \in held[v]
      BY <3>1 DEF IInv, Apart
    <3>. QED
      BY <1>1, <3>1, <3>2 DEF IInv, Apart
  <2>2. SameMaking
    <3>1. /\ proc'[u].at \notin MakePCs /\ proc[u].at \notin MakePCs
          /\ proc'[u].new = proc[u].new /\ proc'[u].owns = proc[u].owns
          /\ \A o \in Processes : o # u => proc'[o] = proc[o]
      BY DEF MakePCs, Begins, Others
    <3>. QED
      BY <2>1, <3>1 DEF SameMaking
  <2>3. SameUnmade
    BY <1>3, <2>1 DEF SameUnmade
  <2>. QED
    BY <2>2, <2>3, MadeSame
<1>. QED
  BY <1>1, <1>2, <1>5, <1>6, <1>7, <1>8

\* Memory is untouched when a free begins.
LEMMA FreeIInv ==
  ASSUME IInv, NEW u \in Users, NEW r \in Refs, Free(u, r)
  PROVE  IInv'
<1>. USE DEF native, objects, tracker
<1>1. /\ u \in Processes /\ proc[u].at = "idle" /\ r \in held[u] /\ ~proc[u].gives
      /\ UNCHANGED <<native, objects, tracker, lock, held>>
  BY DEF Free, At, Processes, IInv, Locals
<1>2. Begins(u, r, "free")
  <2>1. /\ proc' = [proc EXCEPT ![u] = [proc[u] EXCEPT !.at = "free", !.ref = r]]
        /\ proc[u] \in Frames
    BY <1>1, FrameFields DEF Free, IInv, TypeOK, Frames
  <2>2. [proc[u] EXCEPT !.at = "free", !.ref = r] \in Frames
    BY <2>1 DEF Frames, Places
  <2>3. /\ proc' \in [Processes -> Frames] /\ Others(u)
        /\ proc'[u] = [proc[u] EXCEPT !.at = "free", !.ref = r]
    BY <1>1, <2>1, <2>2 DEF IInv, TypeOK, Others
  <2>4. /\ proc'[u].at = "free" /\ proc'[u].ref = r /\ proc'[u].gives = proc[u].gives
        /\ proc'[u].new = proc[u].new /\ proc'[u].todo = proc[u].todo
        /\ proc'[u].aliases = proc[u].aliases /\ proc'[u].owns = proc[u].owns
    BY <2>1, <2>3 DEF Frames
  <2>. QED
    BY <1>1, <2>3, <2>4 DEF Begins
<1>3. /\ Locals' /\ Apart' /\ Alive' /\ Made' /\ proc[u].ref = None
  BY <1>1, <1>2, BeginsOnly
<1>4. TypeOK'
  BY <1>1, <1>2 DEF IInv, TypeOK, Begins
<1>5. Owned'
  <2>1. \A s \in Refs : Ending(s) => Ending(s)'
    BY <1>1, <1>2 DEF Begins, Others, Ending, At
  <2>2. \A s \in Refs : OnItsWay(s) => OnItsWay(s)'
    BY <1>1, <1>2, <1>3, NoneAssumption DEF Begins, Others, OnItsWay
  <2>3. \A o \in Processes : proc'[o].gives \/ proc'[o].at \in FreePCs \ {"free"} =>
          proc'[o] = proc[o]
    BY <1>2 DEF Begins, Others
  <2>. QED
    BY <1>1, <2>1, <2>2, <2>3 DEF IInv, Owned, FreePCs
<1>. QED
  BY <1>3, <1>4, <1>5 DEF IInv

\* The block goes to the list while the ref is being given away.
LEMMA AddIInv ==
  ASSUME IInv, AddsBorrowed = FALSE, NEW u \in Users, NEW r \in Refs, Add(u, r)
  PROVE  IInv'
<1>. USE DEF objects, tracker
<1>1. /\ u \in Processes /\ proc[u].at = "idle" /\ r \in held[u]
      /\ kind[r] = "smart" /\ addr[r] # Undefined /\ addr[r] \in Blocks
      /\ heap' = [heap EXCEPT ![addr[r]] = Given]
      /\ UNCHANGED <<objects, tracker, lock, held, startups>>
  BY DEF Add, At, Processes, IInv, TypeOK
<1>2. Begins(u, r, "add")
  <2>1. /\ proc' = [proc EXCEPT ![u] = [proc[u] EXCEPT !.at = "add", !.ref = r, !.gives = TRUE]]
        /\ proc[u] \in Frames
    BY <1>1, FrameFields DEF Add, IInv, TypeOK, Frames
  <2>2. [proc[u] EXCEPT !.at = "add", !.ref = r, !.gives = TRUE] \in Frames
    BY <2>1 DEF Frames, Places
  <2>3. /\ proc' \in [Processes -> Frames] /\ Others(u)
        /\ proc'[u] = [proc[u] EXCEPT !.at = "add", !.ref = r, !.gives = TRUE]
    BY <1>1, <2>1, <2>2 DEF IInv, TypeOK, Others
  <2>4. /\ proc'[u].at = "add" /\ proc'[u].ref = r /\ proc'[u].gives = TRUE
        /\ proc'[u].new = proc[u].new /\ proc'[u].todo = proc[u].todo
        /\ proc'[u].aliases = proc[u].aliases /\ proc'[u].owns = proc[u].owns
    BY <2>1, <2>3 DEF Frames
  <2>. QED
    BY <1>1, <2>3, <2>4 DEF Begins
<1>3. /\ heap'[addr[r]] = Given /\ \A b \in Blocks : b # addr[r] => heap'[b] = heap[b]
      /\ heap' \in [Blocks -> Refs \cup {Given, None}]
  BY <1>1 DEF IInv, TypeOK
<1>4. TypeOK'
  BY <1>1, <1>2, <1>3 DEF IInv, TypeOK, Begins
<1>5. heap[addr[r]] = r
  <2>1. \A o \in Processes : proc[o].ref # r
    BY <1>1, HeldAlone DEF IInv, Locals, FreePCs
  <2>2. ~Ending(r)
    BY <2>1 DEF Ending
  <2>. QED
    BY <1>1, <2>2 DEF IInv, Owned
<1>6. /\ Locals' /\ Apart' /\ Alive' /\ Made' /\ proc[u].ref = None
      /\ \A o \in Processes : proc[o].ref # r
  <2>1. \A b \in Blocks : heap'[b] = heap[b] \/ (heap[b] = r /\ heap'[b] \notin Refs)
    BY <1>3, <1>5, NoneAssumption
  <2>. QED
    BY <1>1, <1>2, <2>1, BeginsOnly
<1>7. Owned'
  <2>1. \A s \in Refs : Ending(s) => Ending(s)'
    BY <1>1, <1>2, <1>6, NoneAssumption DEF Begins, Others, Ending, At
  <2>2. \A s \in Refs : OnItsWay(s) => OnItsWay(s)'
    BY <1>1, <1>2, <1>6, NoneAssumption DEF Begins, Others, OnItsWay
  <2>3. \A s \in Refs : s = r => Ending(s)'
    BY <1>1, <1>2 DEF Begins, Ending
  <2>4. \A s \in Refs :
          /\ kind'[s] = "none" => addr'[s] = Undefined
          /\ kind'[s] = "smart" => addr'[s] # Undefined /\ (heap'[addr'[s]] = s \/ Ending(s)')
    <3>1. ASSUME NEW s \in Refs, kind[s] = "smart"
          PROVE  addr[s] # Undefined /\ (heap'[addr[s]] = s \/ Ending(s)')
      <4>1. addr[s] # Undefined /\ addr[s] \in Blocks /\ (heap[addr[s]] = s \/ Ending(s))
        BY <3>1 DEF IInv, TypeOK, Owned
      <4>2. CASE addr[s] = addr[r]
        BY <1>5, <2>1, <2>3, <4>1, <4>2
      <4>3. CASE addr[s] # addr[r]
        BY <1>3, <2>1, <4>1, <4>3
      <4>. QED
        BY <4>2, <4>3
    <3>. QED
      BY <1>1, <3>1 DEF IInv, Owned
  <2>5. \A b \in Blocks : heap'[b] \in Refs =>
          /\ kind'[heap'[b]] \in {"new", "smart"} /\ addr'[heap'[b]] = b
          /\ OnItsWay(heap[b])' /\ heap'[b] = heap[b]
    BY <1>1, <1>3, <2>2, NoneAssumption DEF IInv, Owned
  <2>6. \A o \in Processes : proc'[o].gives \/ proc'[o].at \in FreePCs =>
          \/ o = u
          \/ proc'[o] = proc[o] /\ proc[o].ref \in Refs
    BY <1>2, FrameFields DEF Begins, Others, IInv, Locals, FreePCs
  <2>7. /\ proc'[u].at = "add" /\ proc'[u].ref = r
    BY <1>2 DEF Begins
  <2>8. ASSUME NEW o \in Processes, proc'[o].at = "finish", NEW b \in Blocks
        PROVE  heap'[b] # proc'[o].ref
    <3>1. proc'[o] = proc[o] /\ proc[o].ref \in Refs
      BY <2>6, <2>7, <2>8 DEF FreePCs
    <3>2. heap[b] # proc[o].ref
      BY <2>8, <3>1 DEF IInv, Owned
    <3>. QED
      BY <1>3, <3>1, <3>2, NoneAssumption
  <2>9. ASSUME NEW o \in Processes, proc'[o].gives, addr'[proc'[o].ref] # Undefined
        PROVE  heap'[addr'[proc'[o].ref]] = Given
    <3>1. CASE o = u
      BY <1>1, <1>3, <2>7, <3>1
    <3>2. CASE proc'[o] = proc[o] /\ proc[o].ref \in Refs
      <4>1. addr[proc[o].ref] \in Blocks /\ heap[addr[proc[o].ref]] = Given
        BY <1>1, <2>9, <3>2 DEF IInv, TypeOK, Owned
      <4>. QED
        BY <1>1, <1>3, <3>2, <4>1
    <3>. QED
      BY <2>6, <2>9, <3>1, <3>2
  <2>10. ASSUME NEW o \in Processes,
                proc'[o].at \in {"add", "aliases", "freeRef", "native", "disown"},
                addr'[proc'[o].ref] # Undefined
         PROVE  kind'[proc'[o].ref] = "smart"
    <3>1. CASE o = u
      BY <1>1, <2>7, <3>1
    <3>2. CASE proc'[o] = proc[o]
      BY <1>1, <2>10, <3>2 DEF IInv, Owned
    <3>. QED
      BY <2>6, <2>10, <3>1, <3>2 DEF FreePCs
  <2>. QED
    BY <2>4, <2>5, <2>8, <2>9, <2>10 DEF Owned
<1>. QED
  BY <1>6, <1>4, <1>7 DEF IInv

-----------------------------------------------------------------------------
(* The variables of the application, and the end of a creation.            *)

\* A block stays on its owner's way without the variable that is forgotten.
LEMMA ForgetIInv ==
  ASSUME IInv, NEW u \in Users, NEW r \in Refs, Forget(u, r)
  PROVE  IInv'
<1>. USE DEF native, objects, tracker
<1>1. /\ u \in Processes /\ proc[u].at = "idle"
      /\ UNCHANGED <<native, objects, tracker, lock, proc>>
      /\ held'[u] = held[u] \ {r} /\ \A v \in Users : v # u => held'[v] = held[v]
      /\ held' \in [Users -> SUBSET Refs]
  BY DEF Forget, At, Processes, IInv, TypeOK
<1>2. proc[u].new = None /\ proc[u].ref = None
  BY <1>1 DEF IInv, Locals, FreePCs, TrackPCs
<1>3. Tracked' = Tracked
  BY <1>1 DEF Tracked
<1>4. TypeOK' /\ Locals'
  BY <1>1 DEF IInv, TypeOK, Locals
<1>5. Apart'
  <2>1. \A v \in Users : \A s \in held'[v] : s \in held[v]
    BY <1>1
  <2>2. \A p \in Processes : (proc[p].new # None \/ (proc[p].ref # None /\ lock # p)) =>
          p \in Users /\ held'[p] = held[p]
    BY <1>1, <1>2 DEF IInv, Locals, Processes
  <2>. QED
    BY <1>1, <1>3, <2>1, <2>2 DEF IInv, Apart
<1>6. Alive'
  <2>1. \A s \in Refs : Reachable(s)' => Reachable(s)
    BY <1>1 DEF Reachable, InUse
  <2>. QED
    BY <1>1, <1>3, <2>1 DEF IInv, Alive
<1>7. Owned'
  BY <1>1 DEF IInv, Owned, Ending, At, OnItsWay
<1>8. Made'
  BY <1>1 DEF IInv, Made
<1>. QED
  BY <1>4, <1>5, <1>6, <1>7, <1>8 DEF IInv

\* The ref that is answered was in no other process's hands.
LEMMA SmartReferenceForIInv ==
  ASSUME IInv, NEW u \in Users, NEW w \in Refs, SmartReferenceFor(u, w)
  PROVE  IInv'
<1>. USE DEF native, objects, tracker
<1>1. PICK r \in smart : /\ \A v \in Users \ {u} : r \notin held[v]
                         /\ held' = [held EXCEPT ![u] = @ \cup {r}]
  BY DEF SmartReferenceFor
<1>2. /\ u \in Processes /\ proc[u].at = "idle"
      /\ UNCHANGED <<native, objects, tracker, lock, proc>>
      /\ held'[u] = held[u] \cup {r} /\ \A v \in Users : v # u => held'[v] = held[v]
      /\ held' \in [Users -> SUBSET Refs]
  BY <1>1 DEF SmartReferenceFor, At, Processes, IInv, TypeOK
<1>3. proc[u].new = None /\ proc[u].ref = None
  BY <1>2 DEF IInv, Locals, FreePCs, TrackPCs
<1>4. Tracked' = Tracked /\ r \in Tracked
  BY <1>2, TrackedMembers DEF Tracked
<1>5. TypeOK' /\ Locals'
  BY <1>2 DEF IInv, TypeOK, Locals
<1>6. Apart'
  <2>1. /\ r \notin bin \cup finalizing
        /\ \A p \in Processes : /\ r \notin proc[p].todo
                                /\ proc[p].ref # None /\ lock = p => proc[p].ref # r
    BY <1>4 DEF IInv, Apart
  <2>2. \A v \in Users : \A s \in held'[v] : s \in held[v] \/ (v = u /\ s = r)
    BY <1>2
  <2>3. \A v \in Users : \A s \in held[v] : s \in held'[v]
    BY <1>2
  <2>4. \A v, x \in Users : v # x => \A s \in held'[v] : s \notin held'[x]
    BY <1>1, <2>2 DEF IInv, Apart
  <2>5. \A p \in Processes : (proc[p].new # None \/ (proc[p].ref # None /\ lock # p)) => p \in Users
    BY DEF IInv, Locals, Processes
  <2>. QED
    BY <1>2, <1>4, <2>1, <2>2, <2>3, <2>4, <2>5 DEF IInv, Apart
<1>7. Alive'
  <2>1. \A s \in Refs : Reachable(s)' => Reachable(s) \/ s \in Tracked
    BY <1>2, <1>4 DEF Reachable, InUse
  <2>. QED
    BY <1>2, <1>4, <2>1 DEF IInv, Alive
<1>8. Owned'
  BY <1>2 DEF IInv, Owned, Ending, At, OnItsWay
<1>9. Made'
  BY <1>2 DEF IInv, Made
<1>. QED
  BY <1>5, <1>6, <1>7, <1>8, <1>9 DEF IInv

\* From a process's hands a new ref comes on the table, under its address.
LEMMA TrackIInv ==
  ASSUME IInv, NEW u \in Users, Track(u)
  PROVE  IInv'
<1>. DEFINE r == proc[u].new
<1>. USE DEF native, objects
<1>1. /\ u \in Processes /\ u # monitor /\ proc[u].at = "track" /\ lock # u
      /\ UNCHANGED <<native, objects, bin, finalizing, running, lock, held>>
      /\ proc[u].ref = None /\ r # None /\ proc[u].aliases = {} /\ ~proc[u].gives
  BY UsersAssumption DEF Track, At, Processes, IInv, Locals, FreePCs, TrackPCs
<1>2. /\ r \in Refs /\ r \in held[u] /\ kind[r] # "none" /\ r \notin bin \cup finalizing
      /\ \A o \in Processes : /\ proc[o].ref # r /\ r \notin proc[o].todo
                              /\ r \notin proc[o].aliases
                              /\ o # u => proc[o].new # r
  BY <1>1, NewAlone
<1>3. /\ proc' \in [Processes -> Frames] /\ Others(u)
      /\ proc'[u].at = "idle" /\ proc'[u].new = None /\ proc'[u].owns = FALSE
      /\ proc'[u].ref = None /\ proc'[u].todo = proc[u].todo
      /\ proc'[u].aliases = {} /\ proc'[u].gives = proc[u].gives
  <2>. DEFINE q == [proc[u] EXCEPT !.at = "idle", !.new = None, !.owns = FALSE]
  <2>1. proc' = [proc EXCEPT ![u] = q] /\ proc[u] \in Frames
    BY <1>1, FrameFields DEF Track, IInv, TypeOK, Frames
  <2>2. q \in Frames
    BY <2>1 DEF Frames, Places
  <2>3. /\ q.at = "idle" /\ q.new = None /\ q.owns = FALSE /\ q.ref = proc[u].ref
        /\ q.todo = proc[u].todo /\ q.aliases = proc[u].aliases /\ q.gives = proc[u].gives
    BY <2>1 DEF Frames
  <2>. HIDE DEF q
  <2>4. proc' \in [Processes -> Frames] /\ Others(u) /\ proc'[u] = q
    BY <1>1, <2>1, <2>2, Creates DEF IInv
  <2>. QED
    BY <1>1, <2>3, <2>4
<1>4. /\ smart' \in SUBSET Refs /\ weak' \in [Blocks -> SUBSET Refs]
      /\ \A s \in smart' : s \in smart \/ (s = r /\ (kind[r] = "smart" \/ addr[r] = Undefined))
      /\ \A s \in smart : s \in smart'
      /\ \A b \in Blocks : \A s \in weak'[b] :
           s \in weak[b] \/ (s = r /\ kind[r] = "weak" /\ addr[r] = b)
      /\ kind[r] = "smart" => r \in smart'
      /\ \A b \in Blocks : heap[b] = r => kind[r] = "smart"
  <2>1. /\ kind[r] \in {"smart", "weak"}
        /\ ~proc[u].owns => kind[r] = "weak" /\ \A b \in Blocks : heap[b] # r
        /\ proc[u].owns /\ addr[r] # Undefined => kind[r] = "smart"
    <3>1. /\ ~proc[u].owns => kind[r] \in {"new", "weak"} /\ \A b \in Blocks : heap[b] # r
          /\ proc[u].owns /\ addr[r] # Undefined => kind[r] \in {"new", "smart"}
          /\ kind[r] # "new"
      BY <1>1 DEF IInv, Made, MakePCs
    <3>2. kind[r] \in {"none", "new", "smart", "weak"}
      BY <1>2 DEF IInv, TypeOK
    <3>. QED
      BY <1>2, <3>1, <3>2
  <2>2. \A b \in Blocks : heap[b] = r => kind[r] = "smart"
    BY <1>2, <2>1 DEF IInv, Owned
  <2>3. CASE proc[u].owns
    <3>1. smart' = smart \cup {r} /\ weak' = weak
      BY <2>3 DEF Track
    <3>. QED
      BY <1>2, <2>1, <2>2, <2>3, <3>1 DEF IInv, TypeOK
  <2>4. CASE ~proc[u].owns
    <3>1. kind[r] = "weak" /\ smart' = smart
      BY <2>1, <2>4 DEF Track
    <3>2. weak' = IF addr[r] = Undefined THEN weak ELSE [weak EXCEPT ![addr[r]] = @ \cup {r}]
      BY <2>4 DEF Track
    <3>. QED
      BY <1>2, <2>2, <3>1, <3>2 DEF IInv, TypeOK
  <2>. QED
    BY <2>3, <2>4
<1>5. \A s : s \in Tracked' => s \in Tracked \/ s = r
  <2>1. \A s : s \in Tracked' <=> s \in smart' \/ \E a \in Blocks : s \in weak'[a]
    BY DEF Tracked
  <2>. QED
    BY <1>4, <2>1, TrackedMembers
<1>6. TypeOK'
  <2>1. \A b \in Blocks : \A s \in weak'[b] : kind'[s] = "weak" /\ addr'[s] = b
    BY <1>1, <1>4 DEF IInv, TypeOK
  <2>. QED
    BY <1>1, <1>3, <1>4, <2>1 DEF IInv, TypeOK
<1>7. Locals'
  BY <1>1, <1>3 DEF IInv, Locals, Others, FreePCs, TrackPCs
<1>8. \A o \in Processes :
        /\ proc'[o].ref = proc[o].ref /\ proc'[o].todo = proc[o].todo
        /\ proc'[o].aliases = proc[o].aliases /\ proc'[o].gives = proc[o].gives
        /\ proc'[o].at \in FreePCs \cup DonePCs => proc'[o].at = proc[o].at
        /\ proc'[o].new = proc[o].new \/ (o = u /\ proc'[o].new = None)
  <2>1. \A o \in Processes : o # u => proc'[o] = proc[o]
    BY <1>3 DEF Others
  <2>2. /\ proc'[u].ref = proc[u].ref /\ proc'[u].todo = proc[u].todo /\ proc'[u].new = None
        /\ proc'[u].aliases = proc[u].aliases /\ proc'[u].at \notin FreePCs \cup DonePCs
    BY <1>1, <1>3 DEF FreePCs, DonePCs
  <2>. QED
    BY <1>3, <2>1, <2>2
<1>9. Apart'
  <2>1. \A o \in Processes : proc'[o].new # None => proc'[o].new # r
    BY <1>2, <1>3 DEF Others
  <2>2. /\ \A v, x \in Users : v # x => \A s \in held[v] : s \notin held[x]
        /\ \A s \in bin : s \notin finalizing
        /\ \A s \in bin \cup finalizing : s \notin Tracked' /\ \A v \in Users : s \notin held[v]
        /\ \A p \in Processes : \A s \in proc[p].todo :
             s \notin bin \cup finalizing \cup Tracked' /\ \A v \in Users : s \notin held[v]
    BY <1>2, <1>5 DEF IInv, Apart
  <2>3. \A p \in Processes :
          LET q == proc'[p] IN
          /\ q.new # None => q.new \in held[p] /\ q.new \notin Tracked'
          /\ q.ref # None /\ lock # p => q.ref \in held[p]
          /\ q.ref # None /\ lock = p =>
               /\ q.ref \notin bin \cup finalizing \cup q.todo \cup Tracked'
               /\ \A v \in Users : q.ref \notin held[v]
          /\ q.at \in DonePCs => q.ref \notin Tracked' \/ addr[q.ref] = Undefined
    BY <1>2, <1>5, <1>8, <2>1 DEF IInv, Apart
  <2>. QED
    BY <1>1, <1>8, <2>2, <2>3 DEF Apart
<1>10. Alive'
  <2>1. \A s \in Refs : Reachable(s)' => Reachable(s)
    BY <1>1, <1>8, NoneAssumption DEF Reachable, InUse
  <2>2. \A s \in Refs : Reachable(s)' \/ s \in Tracked' => kind'[s] # "none"
    BY <1>1, <1>2, <1>5, <2>1 DEF IInv, Alive
  <2>3. \A s \in smart' : kind'[s] = "smart" \/ addr'[s] = Undefined
    BY <1>1, <1>4 DEF IInv, Alive
  <2>4. ASSUME NEW p \in Processes, NEW w \in proc'[p].aliases
        PROVE  /\ kind'[w] = "weak" /\ w \notin Tracked'
               /\ addr'[w] \in {Undefined, addr'[proc'[p].ref]}
               /\ \A o \in Processes : w # proc'[o].new
    <3>1. w \in proc[p].aliases /\ w # r /\ w \in Refs
      BY <1>2, <1>8, FrameFields DEF IInv
    <3>2. /\ kind[w] = "weak" /\ w \notin Tracked /\ addr[w] \in {Undefined, addr[proc[p].ref]}
          /\ \A o \in Processes : w # proc[o].new
      BY <3>1 DEF IInv, Alive
    <3>. QED
      BY <1>1, <1>5, <1>8, <3>1, <3>2, NoneAssumption
  <2>. QED
    BY <2>2, <2>3, <2>4 DEF Alive
<1>11. Owned'
  <2>1. \A s \in Refs : Ending(s) => Ending(s)'
    BY <1>1, <1>3 DEF Others, Ending, At
  <2>2. \A s \in Refs : s # r \/ kind[r] = "smart" => (OnItsWay(s) => OnItsWay(s)')
    BY <1>1, <1>3, <1>4 DEF Others, OnItsWay
  <2>3. \A s \in Refs :
          /\ kind'[s] = "none" => addr'[s] = Undefined
          /\ kind'[s] = "smart" => addr'[s] # Undefined /\ (heap'[addr'[s]] = s \/ Ending(s)')
    BY <1>1, <2>1 DEF IInv, Owned
  <2>4. \A c \in Blocks : heap'[c] \in Refs =>
          kind'[heap'[c]] \in {"new", "smart"} /\ addr'[heap'[c]] = c /\ OnItsWay(heap[c])'
    BY <1>1, <1>4, <2>2 DEF IInv, Owned
  <2>5. \A p \in Processes :
          LET q == proc'[p] IN
          /\ q.at = "finish" => \A c \in Blocks : heap'[c] # q.ref
          /\ q.gives /\ addr'[q.ref] # Undefined => heap'[addr'[q.ref]] = Given
          /\ q.at \in {"add", "aliases", "freeRef", "native", "disown"} /\ addr'[q.ref] # Undefined
               => kind'[q.ref] = "smart"
    BY <1>1, <1>8 DEF IInv, Owned, FreePCs
  <2>. QED
    BY <1>1, <2>3, <2>4, <2>5 DEF Owned
<1>12. Made'
  <2>1. \A v \in Users : v \in Processes
    BY DEF Processes
  <2>2. SameMaking
    BY <1>1, <1>3, <2>1 DEF SameMaking, Others, MakePCs
  <2>3. SameUnmade
    BY <1>1 DEF SameUnmade
  <2>. QED
    BY <2>2, <2>3, MadeSame
<1>. QED
  BY <1>6, <1>7, <1>9, <1>10, <1>11, <1>12 DEF IInv

-----------------------------------------------------------------------------
(* Emptying the bin.                                                       *)

\* The whole bin goes into the hands of one process.
LEMMA ExpungeIInv ==
  ASSUME IInv, NEW p \in Processes, Expunge(p)
  PROVE  IInv'
<1>. USE DEF native, objects
<1>1. /\ proc[p].at = "expunge" /\ lock = None /\ lock' = p /\ bin' = {} /\ p # None
      /\ UNCHANGED <<native, objects, smart, weak, finalizing, running, held>>
      /\ proc[p].ref = None /\ proc[p].aliases = {} /\ ~proc[p].gives /\ proc[p].todo = {}
      /\ bin \subseteq Refs
  <2>1. /\ proc[p].at = "expunge" /\ lock = None /\ lock' = p /\ bin' = {} /\ p # None
        /\ UNCHANGED <<native, objects, smart, weak, finalizing, running, held>>
    BY NoneAssumption DEF Expunge, At
  <2>. QED
    BY <2>1 DEF IInv, TypeOK, Locals, FreePCs
<1>2. /\ proc' \in [Processes -> Frames] /\ Others(p)
      /\ proc'[p].at = "next" /\ proc'[p].todo = bin
      /\ proc'[p].new = proc[p].new /\ proc'[p].ref = proc[p].ref
      /\ proc'[p].aliases = proc[p].aliases /\ proc'[p].gives = proc[p].gives
      /\ proc'[p].owns = proc[p].owns
  <2>1. /\ proc' = [proc EXCEPT ![p] = [proc[p] EXCEPT !.at = "next", !.todo = bin]]
        /\ proc[p] \in Frames
    BY FrameFields DEF Expunge, IInv, TypeOK, Frames
  <2>2. [proc[p] EXCEPT !.at = "next", !.todo = bin] \in Frames
    BY <1>1, <2>1 DEF Frames, Places
  <2>3. /\ proc' \in [Processes -> Frames] /\ Others(p)
        /\ proc'[p] = [proc[p] EXCEPT !.at = "next", !.todo = bin]
    BY <2>1, <2>2 DEF IInv, TypeOK, Others
  <2>. QED
    BY <2>1, <2>3 DEF Frames
<1>3. Tracked' = Tracked
  BY <1>1 DEF Tracked
<1>4. TypeOK'
  BY <1>1, <1>2 DEF IInv, TypeOK
<1>5. Locals'
  BY <1>1, <1>2, UsersAssumption, NoneAssumption DEF IInv, Locals, Others, FreePCs, TrackPCs
<1>6. \A o \in Processes :
        /\ proc'[o].new = proc[o].new /\ proc'[o].ref = proc[o].ref
        /\ proc'[o].aliases = proc[o].aliases /\ proc'[o].gives = proc[o].gives
        /\ o # p => proc'[o].todo = {} /\ proc'[o].at = proc[o].at /\ lock' # o
        /\ proc'[o].at \in FreePCs \cup DonePCs => proc'[o].at = proc[o].at
        /\ lock # o
  BY <1>1, <1>2, NoneAssumption DEF IInv, Locals, Others, FreePCs, DonePCs
<1>7. Apart'
  <2>1. \A o \in Processes : \A s \in proc'[o].todo :
          s \notin bin' \cup finalizing' \cup Tracked' /\ \A u \in Users : s \notin held'[u]
    BY <1>1, <1>2, <1>3, <1>6 DEF IInv, Apart
  <2>. QED
    BY <1>1, <1>3, <1>6, <2>1 DEF IInv, Apart
<1>8. Alive'
  <2>1. \A s \in Refs : Reachable(s)' => Reachable(s)
    BY <1>1, <1>2, <1>6 DEF Reachable, InUse
  <2>. QED
    BY <1>1, <1>3, <1>6, <2>1 DEF IInv, Alive
<1>9. Owned'
  <2>1. \A s \in Refs : Ending(s) => Ending(s)'
    BY <1>1, <1>2 DEF Others, Ending, At
  <2>2. \A s \in Refs : OnItsWay(s) => OnItsWay(s)'
    <3>1. \A o \in Processes : proc[o].todo = {}
      BY <1>1, <1>6, NoneAssumption DEF IInv, Locals
    <3>. QED
      BY <1>1, <1>2, <1>6, <3>1 DEF OnItsWay
  <2>. QED
    BY <1>1, <1>6, <2>1, <2>2 DEF IInv, Owned, FreePCs
<1>10. Made'
  <2>1. \A u \in Users : u \in Processes
    BY DEF Processes
  <2>2. SameMaking
    BY <1>1, <1>2, <2>1 DEF SameMaking, Others, MakePCs
  <2>3. SameUnmade
    BY <1>1 DEF SameUnmade
  <2>. QED
    BY <2>2, <2>3, MadeSame
<1>. QED
  BY <1>4, <1>5, <1>7, <1>8, <1>9, <1>10 DEF IInv

\* A ref goes from the rest of the bin to its free.
LEMMA ExpungeNextIInv ==
  ASSUME IInv, NEW p \in Processes, ExpungeNext(p)
  PROVE  IInv'
<1>. USE DEF native, objects, tracker
<1>1. /\ proc[p].at = "next" /\ lock = p /\ UNCHANGED <<native, objects, tracker, lock, held>>
      /\ proc[p].ref = None /\ proc[p].aliases = {} /\ ~proc[p].gives
  <2>1. proc[p].at = "next" /\ UNCHANGED <<native, objects, tracker, lock, held>>
    BY DEF ExpungeNext, At
  <2>. QED
    BY <2>1 DEF IInv, Locals, FreePCs
<1>2. PICK r \in proc[p].todo :
        proc' = IF addr[r] = Undefined
                  THEN [proc EXCEPT ![p].todo = @ \ {r}]
                  ELSE [proc EXCEPT ![p].todo = @ \ {r}, ![p].ref = r, ![p].at = "free"]
  BY DEF ExpungeNext
<1>3. r \in Refs /\ r # None /\ proc[p] \in Frames
  BY FrameFields, NoneAssumption DEF IInv
<1>4. /\ proc' \in [Processes -> Frames] /\ Others(p)
      /\ proc'[p].todo = proc[p].todo \ {r}
      /\ proc'[p].new = proc[p].new
      /\ proc'[p].aliases = proc[p].aliases /\ proc'[p].gives = proc[p].gives
      /\ proc'[p].owns = proc[p].owns
      /\ \/ addr[r] = Undefined /\ proc'[p].at = "next" /\ proc'[p].ref = None
         \/ addr[r] # Undefined /\ proc'[p].at = "free" /\ proc'[p].ref = r
  <2>1. CASE addr[r] = Undefined
    <3>. DEFINE q == [proc[p] EXCEPT !.todo = proc[p].todo \ {r}]
    <3>1. proc' = [proc EXCEPT ![p] = q]
      BY <1>2, <1>3, <2>1 DEF IInv, TypeOK, Frames
    <3>2. q \in Frames
      BY <1>3 DEF Frames
    <3>3. /\ q.at = "next" /\ q.todo = proc[p].todo \ {r} /\ q.ref = None /\ q.new = proc[p].new
          /\ q.aliases = proc[p].aliases /\ q.gives = proc[p].gives
          /\ q.owns = proc[p].owns
      BY <1>1, <1>3 DEF Frames
    <3>. HIDE DEF q
    <3>. QED
      BY <2>1, <3>1, <3>2, <3>3 DEF IInv, TypeOK, Others
  <2>2. CASE addr[r] # Undefined
    <3>. DEFINE q == [proc[p] EXCEPT !.todo = proc[p].todo \ {r}, !.ref = r, !.at = "free"]
    <3>1. proc' = [proc EXCEPT ![p] = q]
      BY <1>2, <1>3, <2>2 DEF IInv, TypeOK, Frames
    <3>2. q \in Frames
      BY <1>3 DEF Frames, Places
    <3>3. /\ q.at = "free" /\ q.todo = proc[p].todo \ {r} /\ q.ref = r /\ q.new = proc[p].new
          /\ q.aliases = proc[p].aliases /\ q.gives = proc[p].gives
          /\ q.owns = proc[p].owns
      BY <1>3 DEF Frames
    <3>. HIDE DEF q
    <3>. QED
      BY <2>2, <3>1, <3>2, <3>3 DEF IInv, TypeOK, Others
  <2>. QED
    BY <2>1, <2>2
<1>5. Tracked' = Tracked
  BY <1>1 DEF Tracked
<1>6. TypeOK'
  BY <1>1, <1>4 DEF IInv, TypeOK
<1>7. Locals'
  BY <1>1, <1>3, <1>4, UsersAssumption DEF IInv, Locals, Others, FreePCs, TrackPCs
<1>8. \A o \in Processes :
        /\ proc'[o].new = proc[o].new
        /\ proc'[o].aliases = proc[o].aliases /\ proc'[o].gives = proc[o].gives
        /\ \A s \in proc'[o].todo : s \in proc[o].todo /\ (o = p => s # r)
        /\ proc'[o].at \in DonePCs \cup (FreePCs \ {"free"}) => proc'[o] = proc[o]
        /\ o # p => proc'[o] = proc[o] /\ lock # o
  BY <1>1, <1>4 DEF Others, FreePCs, DonePCs
<1>9. Apart'
  <2>1. /\ r \notin bin \cup finalizing \cup Tracked /\ \A u \in Users : r \notin held[u]
    BY DEF IInv, Apart
  <2>2. \A o \in Processes :
          LET q == proc'[o] IN
          /\ q.new # None => q.new \in held[o] /\ q.new \notin Tracked
          /\ q.ref # None /\ lock # o => q.ref \in held[o]
          /\ q.ref # None /\ lock = o =>
               /\ q.ref \notin bin \cup finalizing \cup q.todo \cup Tracked
               /\ \A u \in Users : q.ref \notin held[u]
          /\ q.at \in DonePCs => q.ref \notin Tracked \/ addr[q.ref] = Undefined
    <3>1. ASSUME NEW o \in Processes, o # p
          PROVE  LET q == proc'[o] IN
                 /\ q.new # None => q.new \in held[o] /\ q.new \notin Tracked
                 /\ q.ref # None /\ lock # o => q.ref \in held[o]
                 /\ q.ref # None /\ lock = o =>
                      /\ q.ref \notin bin \cup finalizing \cup q.todo \cup Tracked
                      /\ \A u \in Users : q.ref \notin held[u]
                 /\ q.at \in DonePCs => q.ref \notin Tracked \/ addr[q.ref] = Undefined
      BY <1>8, <3>1 DEF IInv, Apart
    <3>2. proc'[p].new # None => proc'[p].new \in held[p] /\ proc'[p].new \notin Tracked
      BY <1>4 DEF IInv, Apart
    <3>3. proc'[p].ref # None =>
            /\ proc'[p].ref \notin bin \cup finalizing \cup proc'[p].todo \cup Tracked
            /\ \A u \in Users : proc'[p].ref \notin held[u]
      BY <1>4, <2>1
    <3>4. proc'[p].at \notin DonePCs
      BY <1>4 DEF DonePCs
    <3>. QED
      BY <1>1, <3>1, <3>2, <3>3, <3>4
  <2>3. \A o \in Processes : \A s \in proc'[o].todo :
          s \notin bin \cup finalizing \cup Tracked /\ \A u \in Users : s \notin held[u]
    BY <1>8 DEF IInv, Apart
  <2>. QED
    BY <1>1, <1>5, <2>2, <2>3 DEF IInv, Apart
<1>10. Alive'
  <2>1. \A s \in Refs : Reachable(s)' => Reachable(s)
    BY <1>1, <1>3, <1>4, <1>8 DEF Reachable, InUse
  <2>2. \A o \in Processes : proc'[o].aliases # {} => proc'[o].ref = proc[o].ref
    BY <1>1, <1>4, <1>8
  <2>. QED
    BY <1>1, <1>5, <1>8, <2>1, <2>2 DEF IInv, Alive
<1>11. Owned'
  <2>1. \A s \in Refs : Ending(s) => Ending(s)'
    BY <1>1, <1>8 DEF Ending, At
  <2>2. \A s \in Refs : OnItsWay(s) /\ addr[s] # Undefined => OnItsWay(s)'
    BY <1>1, <1>4, <1>8, NoneAssumption DEF OnItsWay
  <2>3. \A s \in Refs :
          /\ kind'[s] = "none" => addr'[s] = Undefined
          /\ kind'[s] = "smart" => addr'[s] # Undefined /\ (heap'[addr'[s]] = s \/ Ending(s)')
    BY <1>1, <2>1 DEF IInv, Owned
  <2>4. \A c \in Blocks : heap'[c] \in Refs =>
          kind'[heap'[c]] \in {"new", "smart"} /\ addr'[heap'[c]] = c /\ OnItsWay(heap[c])'
    BY <1>1, <2>2, NoneAssumption DEF IInv, Owned
  <2>5. \A o \in Processes :
          LET q == proc'[o] IN
          /\ q.at = "finish" => \A c \in Blocks : heap'[c] # q.ref
          /\ q.gives /\ addr'[q.ref] # Undefined => heap'[addr'[q.ref]] = Given
          /\ q.at \in {"add", "aliases", "freeRef", "native", "disown"} /\ addr'[q.ref] # Undefined
               => kind'[q.ref] = "smart"
    <3>1. \A o \in Processes : proc'[o].gives => proc'[o] = proc[o]
      BY <1>1, <1>4, <1>8
    <3>. QED
      BY <1>1, <1>8, <3>1 DEF IInv, Owned, FreePCs
  <2>. QED
    BY <1>1, <2>3, <2>4, <2>5 DEF Owned
<1>12. Made'
  <2>1. \A u \in Users : u \in Processes
    BY DEF Processes
  <2>2. SameMaking
    BY <1>1, <1>4, <2>1 DEF SameMaking, Others, MakePCs
  <2>3. SameUnmade
    BY <1>1 DEF SameUnmade
  <2>. QED
    BY <2>2, <2>3, MadeSame
<1>. QED
  BY <1>6, <1>7, <1>9, <1>10, <1>11, <1>12 DEF IInv

\* The rest of the bin is empty, so the process keeps nothing of it.
LEMMA ExpungeEndsIInv ==
  ASSUME IInv, NEW p \in Processes, ExpungeEnds(p)
  PROVE  IInv'
<1>. USE DEF native, objects, tracker
<1>1. /\ proc[p].at = "next" /\ lock = p /\ lock' = None /\ proc[p].todo = {} /\ p # None
      /\ UNCHANGED <<native, objects, tracker, held>>
      /\ proc[p].ref = None /\ proc[p].aliases = {} /\ ~proc[p].gives
  <2>1. /\ proc[p].at = "next" /\ lock' = None /\ proc[p].todo = {} /\ p # None
        /\ UNCHANGED <<native, objects, tracker, held>>
    BY NoneAssumption DEF ExpungeEnds, At
  <2>. QED
    BY <2>1 DEF IInv, Locals, FreePCs
<1>2. PICK to \in Places : /\ to = IF p = monitor THEN "idle" ELSE "track"
                           /\ proc' = [proc EXCEPT ![p].at = to]
  BY DEF ExpungeEnds, Goto, Places
<1>3. proc' \in [Processes -> Frames] /\ Others(p) /\ SameLocals(p) /\ proc'[p].at = to
  BY <1>2, Moves DEF IInv
<1>4. Tracked' = Tracked
  BY <1>1 DEF Tracked
<1>5. TypeOK'
  BY <1>1, <1>3 DEF IInv, TypeOK
<1>6. Locals'
  BY <1>1, <1>2, <1>3, UsersAssumption, NoneAssumption
  DEF IInv, Locals, Others, SameLocals, FreePCs, TrackPCs, Processes
<1>7. \A o \in Processes :
        /\ proc'[o].new = proc[o].new /\ proc'[o].ref = proc[o].ref /\ proc'[o].todo = proc[o].todo
        /\ proc'[o].aliases = proc[o].aliases /\ proc'[o].gives = proc[o].gives
        /\ proc'[o].at \in FreePCs \cup DonePCs => proc'[o].at = proc[o].at /\ o # p
        /\ lock' # o /\ (o # p => lock # o /\ proc'[o].at = proc[o].at)
  BY <1>1, <1>2, <1>3, NoneAssumption DEF Others, SameLocals, FreePCs, DonePCs
<1>8. Apart'
  BY <1>1, <1>4, <1>7 DEF IInv, Apart
<1>9. Alive'
  <2>1. \A s \in Refs : Reachable(s)' => Reachable(s)
    BY <1>1, <1>7 DEF Reachable, InUse
  <2>. QED
    BY <1>1, <1>4, <1>7, <2>1 DEF IInv, Alive
<1>10. Owned'
  <2>1. \A s \in Refs : Ending(s) => Ending(s)'
    BY <1>1, <1>7 DEF Ending, At
  <2>2. \A s \in Refs : OnItsWay(s) => OnItsWay(s)'
    BY <1>1, <1>7 DEF OnItsWay
  <2>. QED
    BY <1>1, <1>7, <2>1, <2>2 DEF IInv, Owned, FreePCs
<1>11. Made'
  <2>1. \A u \in Users : u \in Processes
    BY DEF Processes
  <2>2. SameMaking
    BY <1>1, <1>2, <1>3, <2>1 DEF SameMaking, Others, SameLocals, MakePCs
  <2>3. SameUnmade
    BY <1>1 DEF SameUnmade
  <2>. QED
    BY <2>2, <2>3, MadeSame
<1>. QED
  BY <1>5, <1>6, <1>8, <1>9, <1>10, <1>11 DEF IInv

-----------------------------------------------------------------------------
(* The collector, the finalizer and the startup.                           *)

\* Nobody reaches the ref that the finalizer gets.
LEMMA CollectIInv ==
  ASSUME IInv, NEW r \in Refs, Collect(r)
  PROVE  IInv'
<1>. USE DEF native, objects
<1>1. /\ r \in Tracked /\ ~Reachable(r)
      /\ smart' = smart \ {r} /\ weak' = Untracked({r}) /\ finalizing' = finalizing \cup {r}
      /\ UNCHANGED <<native, objects, bin, running, lock, held, proc>>
  BY DEF Collect
<1>2. \A s : s \in Tracked' <=> s \in Tracked /\ s # r
  <2>1. \A s : s \in Tracked' <=> s \in smart' \/ \E a \in Blocks : s \in weak'[a]
    BY DEF Tracked
  <2>2. \A a \in Blocks : \A s : s \in weak'[a] <=> s \in weak[a] /\ s # r
    BY <1>1 DEF Untracked
  <2>3. \A s : s \in smart' <=> s \in smart /\ s # r
    BY <1>1
  <2>. QED
    BY <2>1, <2>2, <2>3, TrackedMembers
<1>3. /\ r \notin bin \cup finalizing /\ \A u \in Users : r \notin held[u]
      /\ \A p \in Processes : r \notin proc[p].todo /\ r # proc[p].new /\ r # proc[p].ref
                              /\ r \notin proc[p].aliases
  BY <1>1 DEF Reachable, InUse
<1>4. TypeOK'
  <2>1. weak' \in [Blocks -> SUBSET Refs] /\ \A b \in Blocks : \A w \in weak'[b] : w \in weak[b]
    BY <1>1 DEF IInv, TypeOK, Untracked
  <2>2. \A b \in Blocks : \A w \in weak'[b] : kind'[w] = "weak" /\ addr'[w] = b
    BY <1>1, <2>1 DEF IInv, TypeOK
  <2>. QED
    BY <1>1, <2>1, <2>2 DEF IInv, TypeOK
<1>5. Locals'
  BY <1>1 DEF IInv, Locals
<1>6. Apart'
  BY <1>1, <1>2, <1>3 DEF IInv, Apart
<1>7. Alive'
  <2>1. \A s \in Refs : Reachable(s)' => Reachable(s) \/ s = r
    BY <1>1 DEF Reachable, InUse
  <2>. QED
    BY <1>1, <1>2, <2>1 DEF IInv, Alive
<1>8. Owned'
  <2>1. \A s \in Refs : Ending(s) => Ending(s)'
    BY <1>1 DEF Ending, At
  <2>2. \A s \in Refs : OnItsWay(s) => OnItsWay(s)'
    BY <1>1 DEF OnItsWay
  <2>. QED
    BY <1>1, <2>1, <2>2 DEF IInv, Owned
<1>9. Made'
  BY <1>1 DEF IInv, Made
<1>. QED
  BY <1>4, <1>5, <1>6, <1>7, <1>8, <1>9 DEF IInv

\* The ref goes from the finalizer to the bin, if it has an address.
LEMMA ScheduleExpungeIInv ==
  ASSUME IInv, NEW r \in Refs, ScheduleExpunge(r)
  PROVE  IInv'
<1>. USE DEF native, objects
<1>1. /\ r \in finalizing /\ finalizing' = finalizing \ {r}
      /\ UNCHANGED <<native, objects, smart, weak, lock, held, proc>>
      /\ bin' \in SUBSET Refs /\ running' \in BOOLEAN
      /\ \A s \in bin' : s \in bin \/ s = r
      /\ \A s \in bin : s \in bin'
      /\ addr[r] = Undefined \/ r \in bin'
  <2>1. CASE addr[r] = Undefined
    BY <2>1 DEF ScheduleExpunge, IInv, TypeOK
  <2>2. CASE addr[r] # Undefined
    BY <2>2 DEF ScheduleExpunge, IInv, TypeOK
  <2>. QED
    BY <2>1, <2>2
<1>2. Tracked' = Tracked
  BY <1>1 DEF Tracked
<1>3. TypeOK'
  BY <1>1 DEF IInv, TypeOK
<1>4. Locals'
  BY <1>1 DEF IInv, Locals
<1>5. Apart'
  BY <1>1, <1>2 DEF IInv, Apart
<1>6. Alive'
  <2>1. \A s \in Refs : Reachable(s)' => Reachable(s)
    BY <1>1 DEF Reachable, InUse
  <2>. QED
    BY <1>1, <1>2, <2>1 DEF IInv, Alive
<1>7. Owned'
  <2>1. \A s \in Refs : Ending(s) => Ending(s)'
    BY <1>1 DEF Ending, At
  <2>2. \A s \in Refs : OnItsWay(s) /\ addr[s] # Undefined => OnItsWay(s)'
    BY <1>1 DEF OnItsWay
  <2>3. \A c \in Blocks : heap'[c] \in Refs =>
          kind'[heap'[c]] \in {"new", "smart"} /\ addr'[heap'[c]] = c /\ OnItsWay(heap[c])'
    BY <1>1, <2>2, NoneAssumption DEF IInv, Owned
  <2>. QED
    BY <1>1, <2>1, <2>3 DEF IInv, Owned
<1>8. Made'
  BY <1>1 DEF IInv, Made
<1>. QED
  BY <1>3, <1>4, <1>5, <1>6, <1>7, <1>8 DEF IInv

\* A ref that nobody reaches or tracks owns no memory.
LEMMA ReclaimIInv ==
  ASSUME IInv, NEW r \in Refs, Reclaim(r)
  PROVE  IInv'
<1>. USE DEF native, tracker
<1>1. /\ ~Reachable(r) /\ r \notin Tracked /\ UNCHANGED <<native, tracker, lock, held, proc>>
      /\ kind' = [kind EXCEPT ![r] = "none"] /\ addr' = [addr EXCEPT ![r] = Undefined]
  BY DEF Reclaim
<1>2. /\ kind'[r] = "none" /\ addr'[r] = Undefined
      /\ \A s \in Refs : s # r => kind'[s] = kind[s] /\ addr'[s] = addr[s]
      /\ kind' \in [Refs -> {"none", "new", "smart", "weak"}]
      /\ addr' \in [Refs -> Blocks \cup {Undefined}]
  BY <1>1 DEF IInv, TypeOK
<1>3. /\ \A p \in Processes : /\ r # proc[p].new /\ r # proc[p].ref
                              /\ r \notin proc[p].todo /\ r \notin proc[p].aliases
      /\ r \notin smart \cup bin \cup finalizing
  BY <1>1, TrackedMembers DEF Reachable, InUse
<1>4. Tracked' = Tracked
  BY <1>1 DEF Tracked
<1>5. \A s : s \in Tracked => s \in Refs
  BY TrackedMembers DEF IInv, TypeOK
<1>6. TypeOK'
  <2>1. \A b \in Blocks : \A w \in weak[b] : w \in Refs /\ w # r
    BY <1>1, TrackedMembers DEF IInv, TypeOK
  <2>2. \A b \in Blocks : \A w \in weak'[b] : kind'[w] = "weak" /\ addr'[w] = b
    BY <1>1, <1>2, <2>1 DEF IInv, TypeOK
  <2>. QED
    BY <1>1, <1>2, <2>2 DEF IInv, TypeOK
<1>7. Locals'
  BY <1>1 DEF IInv, Locals
<1>8. Apart'
  <2>1. \A p \in Processes : proc[p].at \in DonePCs => proc[p].ref \in Refs \ {r}
    BY <1>3, FrameFields DEF IInv, Locals, FreePCs, DonePCs
  <2>. QED
    BY <1>1, <1>2, <1>4, <2>1 DEF IInv, Apart
<1>9. Alive'
  <2>1. \A s \in Refs : Reachable(s)' => Reachable(s)
    BY <1>1 DEF Reachable, InUse
  <2>2. \A s \in Refs : Reachable(s)' \/ s \in Tracked' => kind'[s] # "none"
    BY <1>1, <1>2, <1>4, <2>1 DEF IInv, Alive
  <2>3. \A s \in smart' : kind'[s] = "smart" \/ addr'[s] = Undefined
    BY <1>1, <1>2, <1>3 DEF IInv, TypeOK, Alive
  <2>4. \A p \in Processes : \A w \in proc[p].aliases :
          w \in Refs /\ w # r /\ proc[p].ref \in Refs /\ proc[p].ref # r
    BY <1>3, FrameFields DEF IInv, Locals, FreePCs
  <2>5. \A p \in Processes : \A w \in proc'[p].aliases :
          /\ kind'[w] = "weak" /\ w \notin Tracked'
          /\ addr'[w] \in {Undefined, addr'[proc'[p].ref]}
          /\ \A o \in Processes : w # proc'[o].new
    BY <1>1, <1>2, <1>4, <2>4 DEF IInv, Alive
  <2>. QED
    BY <2>2, <2>3, <2>5 DEF Alive
<1>10. Owned'
  <2>1. \A s \in Refs : Ending(s) => Ending(s)'
    BY <1>1 DEF Ending, At
  <2>2. \A s \in Refs : OnItsWay(s) => OnItsWay(s)' /\ s # r
    BY <1>1, <1>3 DEF OnItsWay
  <2>3. \A s \in Refs :
          /\ kind'[s] = "none" => addr'[s] = Undefined
          /\ kind'[s] = "smart" => addr'[s] # Undefined /\ (heap'[addr'[s]] = s \/ Ending(s)')
    BY <1>1, <1>2, <2>1 DEF IInv, Owned
  <2>4. \A c \in Blocks : heap'[c] \in Refs =>
          kind'[heap'[c]] \in {"new", "smart"} /\ addr'[heap'[c]] = c /\ OnItsWay(heap[c])'
    BY <1>1, <1>2, <2>2 DEF IInv, Owned
  <2>5. \A o \in Processes : proc[o].gives \/ proc[o].at \in FreePCs => proc[o].ref \in Refs \ {r}
    BY <1>3, FrameFields DEF IInv, Locals, FreePCs
  <2>6. \A o \in Processes :
          LET q == proc[o] IN
          /\ q.at = "finish" => \A c \in Blocks : heap'[c] # q.ref
          /\ q.gives /\ addr'[q.ref] # Undefined => heap'[addr'[q.ref]] = Given
          /\ q.at \in {"add", "aliases", "freeRef", "native", "disown"} /\ addr'[q.ref] # Undefined
               => kind'[q.ref] = "smart"
    BY <1>1, <1>2, <2>5 DEF IInv, Owned, FreePCs
  <2>. QED
    BY <1>1, <2>3, <2>4, <2>6 DEF Owned
<1>11. Made'
  <2>1. \A u \in Users : u \in Processes /\ proc[u].new \in Refs \cup {None}
    BY FrameFields DEF IInv, Processes
  <2>2. SameMaking
    BY <1>1, <2>1 DEF SameMaking
  <2>3. SameUnmade
    BY <1>1, <1>2, <1>3, <2>1 DEF SameUnmade
  <2>. QED
    BY <2>2, <2>3, MadeSame
<1>. QED
  BY <1>6, <1>7, <1>8, <1>9, <1>10, <1>11 DEF IInv

\* After a startup nothing has an address.
LEMMA StartUpIInv ==
  ASSUME IInv, SavesAnytime = FALSE, StartUp
  PROVE  IInv'
<1>1. /\ \A b \in Blocks : heap'[b] = None /\ weak'[b] = {}
      /\ \A r \in Refs : /\ kind'[r] = IF kind[r] = "none" THEN "none" ELSE "weak"
                         /\ addr'[r] = Undefined
      /\ smart' = {} /\ bin' = {} /\ finalizing' = finalizing /\ held' = held
      /\ proc' = [proc EXCEPT ![monitor] = Resting]
      /\ lock' = IF lock = monitor THEN None ELSE lock
  <2>1. Unmade = {}
    BY DEF StartUp
  <2>. QED
    BY <2>1 DEF StartUp
<1>2. /\ proc' \in [Processes -> Frames] /\ proc'[monitor] = Resting
      /\ \A o \in Processes : o # monitor => proc'[o] = proc[o]
      /\ monitor \in Processes /\ monitor # None
  <2>1. Resting \in Frames
    BY DEF Resting, Frames, Places
  <2>. QED
    BY <1>1, <2>1, NoneAssumption DEF IInv, TypeOK, Processes
<1>3. /\ proc'[monitor].at = "idle" /\ proc'[monitor].new = None /\ proc'[monitor].ref = None
      /\ proc'[monitor].todo = {} /\ proc'[monitor].aliases = {} /\ ~proc'[monitor].gives
      /\ ~proc'[monitor].owns
  BY <1>2 DEF Resting
<1>4. \A s : s \notin Tracked'
  <2>1. \A s : s \in Tracked' <=> s \in smart' \/ \E a \in Blocks : s \in weak'[a]
    BY DEF Tracked
  <2>. QED
    BY <1>1, <2>1
<1>5. TypeOK'
  <2>1. /\ heap' \in [Blocks -> Refs \cup {Given, None}]
        /\ kind' \in [Refs -> {"none", "new", "smart", "weak"}]
        /\ addr' \in [Refs -> Blocks \cup {Undefined}] /\ weak' \in [Blocks -> SUBSET Refs]
        /\ smart' \in SUBSET Refs /\ bin' \in SUBSET Refs /\ finalizing' \in SUBSET Refs
        /\ running' \in BOOLEAN /\ held' \in [Users -> SUBSET Refs]
    BY DEF StartUp, IInv, TypeOK
  <2>2. lock' \in Processes \cup {None}
    BY <1>1 DEF IInv, TypeOK
  <2>3. startups' \in 0 .. MaxStartups
    BY BoundsAssumption DEF StartUp, IInv, TypeOK
  <2>4. \A b \in Blocks : \A w \in weak'[b] : kind'[w] = "weak" /\ addr'[w] = b
    BY <1>1
  <2>. QED
    BY <1>2, <2>1, <2>2, <2>3, <2>4 DEF TypeOK
<1>6. \A o \in Processes : o # monitor => (lock' = o <=> lock = o)
  BY <1>1, NoneAssumption
<1>7. lock' # monitor
  BY <1>1, <1>2
<1>8. Locals'
  BY <1>2, <1>3, <1>6, <1>7, UsersAssumption DEF IInv, Locals, FreePCs, TrackPCs
<1>9. Apart'
  <2>1. \A o \in Processes :
          /\ \A s \in proc'[o].todo : s \in proc[o].todo
          /\ proc'[o].new # None => proc'[o].new = proc[o].new
          /\ proc'[o].ref # None => proc'[o].ref = proc[o].ref /\ (lock' = o <=> lock = o)
    BY <1>2, <1>3, <1>6
  <2>. QED
    BY <1>1, <1>4, <2>1 DEF IInv, Apart
<1>10. Alive'
  <2>1. \A s \in Refs : Reachable(s)' => Reachable(s)
    BY <1>1, <1>2, <1>3, NoneAssumption DEF Reachable, InUse
  <2>2. ASSUME NEW o \in Processes, NEW w \in proc'[o].aliases
        PROVE  /\ kind'[w] = "weak" /\ addr'[w] = Undefined
               /\ \A q \in Processes : w # proc'[q].new
    <3>1. w \in proc[o].aliases /\ w \in Refs
      BY <1>2, <1>3, FrameFields DEF IInv
    <3>2. kind[w] = "weak" /\ \A q \in Processes : w # proc[q].new
      BY <3>1 DEF IInv, Alive
    <3>. QED
      BY <1>1, <1>2, <1>3, <3>1, <3>2, NoneAssumption
  <2>. QED
    BY <1>1, <1>4, <2>1, <2>2 DEF IInv, Alive
<1>11. Owned'
  <2>1. \A s \in Refs : kind'[s] # "smart" /\ addr'[s] = Undefined
    BY <1>1
  <2>2. \A b \in Blocks : heap'[b] = None /\ heap'[b] \notin Refs
    BY <1>1, NoneAssumption
  <2>3. \A o \in Processes : proc'[o].gives \/ proc'[o].at \in FreePCs => proc'[o].ref \in Refs
    BY <1>2, <1>3, FrameFields DEF IInv, Locals, FreePCs
  <2>. QED
    BY <2>1, <2>2, <2>3 DEF Owned, FreePCs
<1>12. Made'
  <2>1. \A s \in Refs : kind'[s] # "new" /\ addr'[s] = Undefined
    BY <1>1
  <2>2. ASSUME NEW u \in Users, proc'[u].new # None
        PROVE  kind'[proc'[u].new] = "weak" /\ proc'[u].new \in Refs
    <3>1. proc'[u].new = proc[u].new
      BY <1>2, UsersAssumption DEF Processes
    <3>2. proc[u].new \in Refs /\ kind[proc[u].new] # "none"
      BY <2>2, <3>1, NewAlone
    <3>. QED
      BY <1>1, <3>1, <3>2
  <2>3. \A b \in Blocks : heap'[b] = None
    BY <1>1
  <2>. QED
    BY <2>1, <2>2, <2>3 DEF Made
<1>. QED
  BY <1>5, <1>8, <1>9, <1>10, <1>11, <1>12 DEF IInv

-----------------------------------------------------------------------------
(* The invariant.                                                          *)

\* There is nothing at first.
LEMMA InitIInv ==
  ASSUME Init
  PROVE  IInv
<1>1. /\ \A p \in Processes : /\ proc[p].at = "idle" /\ proc[p].new = None /\ proc[p].ref = None
                              /\ proc[p].todo = {} /\ proc[p].aliases = {} /\ ~proc[p].gives
                              /\ ~proc[p].owns
      /\ proc \in [Processes -> Frames]
  BY DEF Init, Resting, Frames, Places
<1>2. \A s : s \notin Tracked
  BY TrackedMembers DEF Init
<1>3. TypeOK
  <2>1. /\ heap \in [Blocks -> Refs \cup {Given, None}]
        /\ kind \in [Refs -> {"none", "new", "smart", "weak"}]
        /\ addr \in [Refs -> Blocks \cup {Undefined}]
        /\ weak \in [Blocks -> SUBSET Refs] /\ \A b \in Blocks : weak[b] = {}
        /\ held \in [Users -> SUBSET Refs]
    BY DEF Init
  <2>2. /\ smart = {} /\ bin = {} /\ finalizing = {} /\ running = FALSE /\ lock = None
        /\ startups \in 0 .. MaxStartups
    BY BoundsAssumption DEF Init
  <2>. QED
    BY <1>1, <2>1, <2>2 DEF TypeOK
<1>4. Locals
  BY <1>1, NoneAssumption DEF Init, Locals, FreePCs, TrackPCs
<1>5. Apart
  BY <1>1, <1>2 DEF Init, Apart, DonePCs
<1>6. Alive
  BY <1>1, <1>2, NoneAssumption DEF Init, Alive, Reachable, InUse
<1>7. Owned
  BY <1>1, NoneAssumption DEF Init, Owned
<1>8. Made
  <2>1. \A u \in Users : proc[u].new = None
    BY <1>1 DEF Processes
  <2>2. \A r \in Refs : kind[r] = "none"
    BY DEF Init
  <2>. QED
    BY <2>1, <2>2 DEF Made
<1>. QED
  BY <1>3, <1>4, <1>5, <1>6, <1>7, <1>8 DEF IInv

\* The steps of a call.
LEMMA StepIInv ==
  ASSUME IInv, NEW p \in Processes, Step(p)
  PROVE  IInv'
<1>1. CASE p \in Users /\ (Check(p) \/ Track(p) \/ RemoveAdded(p) \/ Disown(p))
  BY <1>1, CheckIInv, TrackIInv, RemoveAddedIInv, DisownIInv
<1>2. CASE p \in Users /\ (Instance(p) \/ OwnsMemory(p))
  BY <1>2, InstanceIInv, OwnsMemoryIInv
<1>3. CASE FreeSmart(p) \/ FreeWeak(p) \/ TakeAliases(p) \/ FreeRef(p)
  BY <1>3, FreeSmartIInv, FreeWeakIInv, TakeAliasesIInv, FreeRefIInv
<1>4. CASE NativeFree(p) \/ FinishFree(p)
  BY <1>4, NativeFreeIInv, FinishFreeIInv
<1>5. CASE Expunge(p) \/ ExpungeNext(p) \/ ExpungeEnds(p)
  BY <1>5, ExpungeIInv, ExpungeNextIInv, ExpungeEndsIInv
<1>. QED
  BY <1>1, <1>3, <1>4, <1>5, <1>2 DEF Step

\* Every step.
LEMMA NextIInv ==
  ASSUME IInv, AddsBorrowed = FALSE, SavesAnytime = FALSE, [Next]_vars
  PROVE  IInv'
<1>1. CASE \E u \in Users, r \in Refs :
             \/ Free(u, r) \/ Add(u, r) \/ Forget(u, r) \/ SmartReferenceFor(u, r)
             \/ \E b \in Blocks : Create(u, r, b)
             \/ \E w \in Refs : AsWeakReference(u, r, w)
  BY <1>1, FreeIInv, AddIInv, ForgetIInv, SmartReferenceForIInv, CreateIInv, AsWeakReferenceIInv
<1>2. CASE \E p \in Processes : Step(p)
  BY <1>2, StepIInv
<1>3. CASE \E r \in Refs : Collect(r) \/ ScheduleExpunge(r) \/ Reclaim(r)
  BY <1>3, CollectIInv, ScheduleExpungeIInv, ReclaimIInv
<1>4. CASE MonitorWakes
  BY <1>4, MonitorWakesIInv
<1>5. CASE StartUp
  BY <1>5, StartUpIInv
<1>6. CASE UNCHANGED vars
  BY <1>6 DEF IInv, TypeOK, Locals, Apart, Alive, Made, Owned, Tracked, Reachable, InUse, Ending,
              OnItsWay, At, vars
<1>. QED
  BY <1>1, <1>2, <1>3, <1>4, <1>5, <1>6 DEF Next

\* The inductive invariant holds throughout, for any application that adds only
\* what it owns and saves its image in the middle of no creation.
THEOREM Invariant ==
  ASSUME AddsBorrowed = FALSE, SavesAnytime = FALSE
  PROVE  Spec => []IInv
<1>1. Init => IInv
  BY InitIInv
<1>2. IInv /\ [Next]_vars => IInv'
  BY NextIInv
<1>. QED
  BY <1>1, <1>2, PTL DEF Spec

-----------------------------------------------------------------------------
(* What somebody borrows, if only owners lend.                             *)

\* No new weak ref is begun, and owners stay where they are.
LEMMA KeepsOwner ==
  ASSUME IInv, OwnerKept, heap' = heap,
         \A u \in Users : proc'[u].new # None =>
           /\ proc'[u].new = proc[u].new /\ proc'[u].owns = proc[u].owns
           /\ \A s \in held[u] : s \in held'[u]
           /\ addr'[proc[u].new] # Undefined => addr'[proc[u].new] = addr[proc[u].new]
  PROVE  OwnerKept'
<1>. SUFFICES ASSUME NEW u \in Users, proc'[u].new # None, ~proc'[u].owns,
                     addr'[proc'[u].new] # Undefined
              PROVE  heap'[addr'[proc'[u].new]] \in held'[u]
  BY DEF OwnerKept
<1>1. /\ proc'[u].new = proc[u].new /\ ~proc[u].owns /\ addr'[proc[u].new] = addr[proc[u].new]
      /\ \A s \in held[u] : s \in held'[u]
  OBVIOUS
<1>2. heap[addr[proc[u].new]] \in held[u]
  BY <1>1 DEF OwnerKept
<1>. QED
  BY <1>1, <1>2

\* No weak ref comes into use, and those in use stay where they are found.
LEMMA KeepsFindable ==
  ASSUME IInv, Findable, heap' = heap,
         \A u \in Users : \A w \in held'[u] :
           w # proc'[u].ref /\ kind'[w] = "weak" /\ addr'[w] # Undefined =>
             /\ w \in held[u] /\ w # proc[u].ref /\ kind[w] = "weak" /\ addr'[w] = addr[w]
             /\ w = proc[u].new => w = proc'[u].new
             /\ w \in weak[addr[w]] =>
                  w \in weak'[addr[w]] \/ \E p \in Processes : w \in proc'[p].aliases
             /\ \A p \in Processes : w \in proc[p].aliases => w \in proc'[p].aliases
  PROVE  Findable'
<1>. SUFFICES ASSUME NEW u \in Users, NEW w \in held'[u], w # proc'[u].ref,
                     kind'[w] = "weak", addr'[w] # Undefined
              PROVE  \/ w = proc'[u].new
                     \/ heap'[addr'[w]] = Given
                     \/ /\ heap'[addr'[w]] # None
                        /\ \/ w \in weak'[addr'[w]]
                           \/ \E p \in Processes : w \in proc'[p].aliases
  BY DEF Findable
<1>1. /\ w \in held[u] /\ w # proc[u].ref /\ kind[w] = "weak" /\ addr'[w] = addr[w]
      /\ w = proc[u].new => w = proc'[u].new
      /\ w \in weak[addr[w]] =>
           w \in weak'[addr[w]] \/ \E p \in Processes : w \in proc'[p].aliases
      /\ \A p \in Processes : w \in proc[p].aliases => w \in proc'[p].aliases
  OBVIOUS
<1>2. \/ w = proc[u].new
      \/ heap[addr[w]] = Given
      \/ /\ heap[addr[w]] # None
         /\ w \in weak[addr[w]] \/ \E p \in Processes : w \in proc[p].aliases
  BY <1>1 DEF Findable
<1>. QED
  BY <1>1, <1>2

\* Nobody comes to free a block, and nothing comes on the table.
LEMMA KeepsCleared ==
  ASSUME IInv, Cleared,
         \A p \in Processes :
           proc'[p].at \in {"freeRef", "native"} /\ ~proc'[p].gives
           /\ addr'[proc'[p].ref] # Undefined =>
             /\ proc[p].at \in {"freeRef", "native"} /\ ~proc[p].gives
             /\ addr'[proc'[p].ref] = addr[proc[p].ref]
             /\ \A w \in weak'[addr[proc[p].ref]] : w \in weak[addr[proc[p].ref]]
  PROVE  Cleared'
BY DEF Cleared

\* Steps that neither touch what is borrowed nor come to free it.
LEMMA QuietBorrowed ==
  ASSUME IInv, Borrowed, UNCHANGED <<heap, kind, addr, weak, held>>,
         \A o \in Processes :
           /\ proc'[o].new = proc[o].new /\ proc'[o].aliases = proc[o].aliases
           /\ proc'[o].owns = proc[o].owns /\ proc'[o].gives = proc[o].gives
           /\ proc'[o].ref = proc[o].ref \/ proc[o].ref = None
           /\ proc'[o].at \in {"freeRef", "native"} =>
                proc[o].at \in {"freeRef", "native"} /\ proc'[o].ref = proc[o].ref
  PROVE  Borrowed'
<1>1. \A u \in Users : u \in Processes
  BY DEF Processes
<1>2. OwnerKept'
  BY <1>1, KeepsOwner DEF Borrowed
<1>3. Findable'
  <2>1. \A u \in Users : \A w \in held[u] : w # None
    BY HeldAlone
  <2>2. \A u \in Users : \A w \in held'[u] :
           w # proc'[u].ref /\ kind'[w] = "weak" /\ addr'[w] # Undefined =>
             /\ w \in held[u] /\ w # proc[u].ref /\ kind[w] = "weak" /\ addr'[w] = addr[w]
             /\ w = proc[u].new => w = proc'[u].new
             /\ w \in weak[addr[w]] =>
                  w \in weak'[addr[w]] \/ \E p \in Processes : w \in proc'[p].aliases
             /\ \A p \in Processes : w \in proc[p].aliases => w \in proc'[p].aliases
    BY <1>1, <2>1
  <2>. QED
    BY <2>2, KeepsFindable DEF Borrowed
<1>4. Cleared'
  BY KeepsCleared DEF Borrowed
<1>. QED
  BY <1>2, <1>3, <1>4 DEF Borrowed

\* The locals of a process that moves.
LEMMA MovesOnly ==
  ASSUME TypeOK, NEW p \in Processes, NEW to \in Places,
         proc' = [proc EXCEPT ![p].at = to]
  PROVE  \A o \in Processes :
           /\ proc'[o].new = proc[o].new /\ proc'[o].ref = proc[o].ref
           /\ proc'[o].todo = proc[o].todo /\ proc'[o].aliases = proc[o].aliases
           /\ proc'[o].gives = proc[o].gives /\ proc'[o].owns = proc[o].owns
           /\ proc'[o].at = IF o = p THEN to ELSE proc[o].at
<1>1. Others(p) /\ SameLocals(p) /\ proc'[p].at = to
  BY Moves
<1>. QED
  BY <1>1 DEF SameLocals, Others

\* A process that moves, but not to where it frees memory.
LEMMA MovesBorrowed ==
  ASSUME IInv, Borrowed, NEW p \in Processes, NEW to \in Places \ {"freeRef", "native"},
         UNCHANGED <<heap, kind, addr, weak, held>>,
         proc' = [proc EXCEPT ![p].at = to]
  PROVE  Borrowed'
<1>1. \A o \in Processes :
        /\ proc'[o].new = proc[o].new /\ proc'[o].ref = proc[o].ref
        /\ proc'[o].todo = proc[o].todo /\ proc'[o].aliases = proc[o].aliases
        /\ proc'[o].gives = proc[o].gives /\ proc'[o].owns = proc[o].owns
        /\ proc'[o].at = IF o = p THEN to ELSE proc[o].at
  BY MovesOnly DEF IInv
<1>. QED
  BY <1>1, QuietBorrowed

\* The steps that only move a process, as far as borrowing goes.
LEMMA MovingBorrowed ==
  ASSUME IInv, Borrowed, NEW p \in Processes,
         \/ p \in Users /\ (Instance(p) \/ Check(p) \/ RemoveAdded(p))
         \/ FreeSmart(p)
         \/ ExpungeEnds(p)
         \/ p = monitor /\ MonitorWakes
  PROVE  Borrowed'
<1>1. UNCHANGED <<heap, kind, addr, weak, held>>
  BY DEF Instance, Check, RemoveAdded, FreeSmart, ExpungeEnds, MonitorWakes, native, objects,
        tracker
<1>2. PICK to \in Places \ {"freeRef", "native"} : proc' = [proc EXCEPT ![p].at = to]
  BY DEF Instance, Check, RemoveAdded, FreeSmart, ExpungeEnds, MonitorWakes, Goto, Places
<1>. QED
  BY <1>1, <1>2, MovesBorrowed

\* To begin a free touches nothing.
LEMMA FreeBorrowed ==
  ASSUME IInv, Borrowed, NEW u \in Users, NEW r \in Refs, Free(u, r)
  PROVE  Borrowed'
<1>1. /\ u \in Processes /\ UNCHANGED <<heap, kind, addr, weak, held>> /\ proc[u] \in Frames
      /\ proc[u].at = "idle" /\ proc[u].ref = None
  BY FrameFields DEF Free, At, native, objects, tracker, Processes, IInv, Locals, FreePCs
<1>2. proc' = [proc EXCEPT ![u] = [proc[u] EXCEPT !.at = "free", !.ref = r]]
  BY <1>1 DEF Free, IInv, TypeOK, Frames
<1>3. /\ \A o \in Processes : o # u => proc'[o] = proc[o]
      /\ proc'[u] = [proc[u] EXCEPT !.at = "free", !.ref = r]
  BY <1>1, <1>2 DEF IInv, TypeOK
<1>4. /\ proc'[u].new = proc[u].new /\ proc'[u].aliases = proc[u].aliases
      /\ proc'[u].owns = proc[u].owns /\ proc'[u].gives = proc[u].gives /\ proc'[u].at = "free"
  BY <1>1, <1>3 DEF Frames
<1>. QED
  BY <1>1, <1>3, <1>4, QuietBorrowed

\* Nor does it to take the bin.
LEMMA ExpungeBorrowed ==
  ASSUME IInv, Borrowed, NEW p \in Processes, Expunge(p)
  PROVE  Borrowed'
<1>1. /\ UNCHANGED <<heap, kind, addr, weak, held>> /\ proc[p] \in Frames
  BY FrameFields DEF Expunge, native, objects, IInv
<1>2. proc' = [proc EXCEPT ![p] = [proc[p] EXCEPT !.at = "next", !.todo = bin]]
  BY <1>1 DEF Expunge, IInv, TypeOK, Frames
<1>3. /\ \A o \in Processes : o # p => proc'[o] = proc[o]
      /\ proc'[p] = [proc[p] EXCEPT !.at = "next", !.todo = bin]
  BY <1>1, <1>2 DEF IInv, TypeOK
<1>4. /\ proc'[p].new = proc[p].new /\ proc'[p].aliases = proc[p].aliases
      /\ proc'[p].owns = proc[p].owns /\ proc'[p].gives = proc[p].gives
      /\ proc'[p].at = "next" /\ proc'[p].ref = proc[p].ref
  BY <1>1, <1>3 DEF Frames
<1>. QED
  BY <1>1, <1>3, <1>4, QuietBorrowed

\* Nor to take a ref from it.
LEMMA ExpungeNextBorrowed ==
  ASSUME IInv, Borrowed, NEW p \in Processes, ExpungeNext(p)
  PROVE  Borrowed'
<1>1. /\ UNCHANGED <<heap, kind, addr, weak, held>> /\ proc[p] \in Frames
      /\ proc[p].at = "next" /\ proc[p].ref = None
  BY FrameFields DEF ExpungeNext, At, native, objects, tracker, IInv, Locals, FreePCs
<1>2. PICK r \in proc[p].todo :
        proc' = IF addr[r] = Undefined
                  THEN [proc EXCEPT ![p].todo = @ \ {r}]
                  ELSE [proc EXCEPT ![p].todo = @ \ {r}, ![p].ref = r, ![p].at = "free"]
  BY DEF ExpungeNext
<1>3. /\ \A o \in Processes : o # p => proc'[o] = proc[o]
      /\ proc'[p].new = proc[p].new /\ proc'[p].aliases = proc[p].aliases
      /\ proc'[p].owns = proc[p].owns /\ proc'[p].gives = proc[p].gives
      /\ proc'[p].at \in {"next", "free"}
  <2>1. CASE addr[r] = Undefined
    BY <1>1, <1>2, <2>1 DEF IInv, TypeOK, Frames
  <2>2. CASE addr[r] # Undefined
    BY <1>1, <1>2, <2>2 DEF IInv, TypeOK, Frames
  <2>. QED
    BY <2>1, <2>2
<1>. QED
  BY <1>1, <1>3, QuietBorrowed

\* The bin lends nothing.
LEMMA ScheduleExpungeBorrowed ==
  ASSUME IInv, Borrowed, NEW r \in Refs, ScheduleExpunge(r)
  PROVE  Borrowed'
<1>1. UNCHANGED <<heap, kind, addr, weak, held, proc>>
  BY DEF ScheduleExpunge, native, objects
<1>. QED
  BY <1>1, QuietBorrowed

\* No weak ref is being made meanwhile, so no owner is needed.
LEMMA ForgetBorrowed ==
  ASSUME IInv, Borrowed, NEW u \in Users, NEW r \in Refs, Forget(u, r)
  PROVE  Borrowed'
<1>1. /\ proc[u].at = "idle" /\ UNCHANGED <<heap, kind, addr, weak, proc>>
      /\ \A v \in Users : (v # u => held'[v] = held[v]) /\ \A w \in held'[v] : w \in held[v]
  BY DEF Forget, At, native, objects, tracker, IInv, TypeOK
<1>2. proc[u].new = None
  BY <1>1 DEF IInv, Locals, TrackPCs, FreePCs, Processes
<1>3. OwnerKept'
  <2>1. \A v \in Users : proc'[v].new # None => v # u
    BY <1>1, <1>2
  <2>. QED
    BY <1>1, <2>1, KeepsOwner DEF Borrowed
<1>4. Findable'
  BY <1>1, KeepsFindable DEF Borrowed
<1>5. Cleared'
  BY <1>1, KeepsCleared DEF Borrowed
<1>. QED
  BY <1>3, <1>4, <1>5 DEF Borrowed

\* The ref that is answered is an owner.
LEMMA SmartReferenceForBorrowed ==
  ASSUME IInv, Borrowed, NEW u \in Users, NEW w \in Refs, SmartReferenceFor(u, w)
  PROVE  Borrowed'
<1>1. PICK r \in smart : held' = [held EXCEPT ![u] = @ \cup {r}]
  BY DEF SmartReferenceFor
<1>2. /\ UNCHANGED <<heap, kind, addr, weak, proc>>
      /\ kind[r] = "weak" => addr[r] = Undefined
      /\ \A v \in Users : /\ \A s \in held[v] : s \in held'[v]
                          /\ \A s \in held'[v] : s \in held[v] \/ s = r
  BY <1>1 DEF SmartReferenceFor, native, objects, tracker, IInv, TypeOK, Alive
<1>3. OwnerKept'
  BY <1>2, KeepsOwner DEF Borrowed
<1>4. Findable'
  BY <1>2, KeepsFindable DEF Borrowed
<1>5. Cleared'
  BY <1>2, KeepsCleared DEF Borrowed
<1>. QED
  BY <1>3, <1>4, <1>5 DEF Borrowed

\* A weak ref that somebody holds is not collected.
LEMMA CollectBorrowed ==
  ASSUME IInv, Borrowed, NEW r \in Refs, Collect(r)
  PROVE  Borrowed'
<1>1. /\ UNCHANGED <<heap, kind, addr, held, proc>> /\ ~Reachable(r) /\ weak' = Untracked({r})
  BY DEF Collect, native, objects
<1>2. \A b \in Blocks : \A s : s \in weak'[b] <=> s \in weak[b] /\ s # r
  BY <1>1 DEF Untracked
<1>3. OwnerKept'
  BY <1>1, KeepsOwner DEF Borrowed
<1>4. Findable'
  <2>1. \A u \in Users : \A w \in held[u] :
          w # r /\ (addr[w] # Undefined => addr[w] \in Blocks)
    BY <1>1 DEF Reachable, IInv, TypeOK
  <2>2. \A u \in Users : \A w \in held'[u] : w \in held[u] /\ addr'[w] = addr[w] /\
          (addr[w] # Undefined /\ w \in weak[addr[w]] => w \in weak'[addr[w]])
    BY <1>1, <1>2, <2>1
  <2>. QED
    BY <1>1, <2>2, KeepsFindable DEF Borrowed
<1>5. Cleared'
  <2>1. \A p \in Processes : proc[p].at \in {"freeRef", "native"} /\ addr[proc[p].ref] # Undefined
          => addr[proc[p].ref] \in Blocks
    BY FrameFields DEF IInv, TypeOK, Locals, FreePCs
  <2>. QED
    BY <1>1, <1>2, <2>1, KeepsCleared DEF Borrowed
<1>. QED
  BY <1>3, <1>4, <1>5 DEF Borrowed

\* What is reclaimed was in nobody's use.
LEMMA ReclaimBorrowed ==
  ASSUME IInv, Borrowed, NEW r \in Refs, Reclaim(r)
  PROVE  Borrowed'
<1>1. /\ UNCHANGED <<heap, weak, held, proc>> /\ ~Reachable(r)
      /\ kind'[r] = "none" /\ addr'[r] = Undefined
      /\ \A s \in Refs : s # r => kind'[s] = kind[s] /\ addr'[s] = addr[s]
  BY DEF Reclaim, native, tracker, IInv, TypeOK
<1>2. OwnerKept'
  <2>1. \A u \in Users : u \in Processes /\ proc[u].new \in Refs \cup {None} /\ proc[u].new # r
    BY <1>1, FrameFields DEF IInv, Processes, Reachable, InUse
  <2>. QED
    BY <1>1, <2>1, KeepsOwner DEF Borrowed
<1>3. Findable'
  <2>1. \A u \in Users : \A w \in held[u] : w # r /\ w \in Refs
    BY <1>1 DEF Reachable, IInv, TypeOK
  <2>. QED
    BY <1>1, <2>1, KeepsFindable DEF Borrowed
<1>4. Cleared'
  <2>1. \A p \in Processes : proc[p].at \in {"freeRef", "native"}
          => proc[p].ref \in Refs /\ proc[p].ref # r
    BY <1>1, FrameFields DEF IInv, Locals, FreePCs, Reachable, InUse
  <2>. QED
    BY <1>1, <2>1, KeepsCleared DEF Borrowed
<1>. QED
  BY <1>2, <1>3, <1>4 DEF Borrowed

\* Without addresses there is nothing to borrow, and no process alone knows one.
LEMMA StartUpBorrowed ==
  ASSUME IInv, Borrowed, SavesAnytime = FALSE, StartUp
  PROVE  Borrowed'
<1>1. /\ \A r \in Refs : addr'[r] = Undefined
      /\ \A u \in Users : held'[u] \subseteq Refs
      /\ proc' = [proc EXCEPT ![monitor] = Resting]
  <2>1. Unmade = {}
    BY DEF StartUp
  <2>. QED
    BY <2>1 DEF StartUp, IInv, TypeOK
<1>2. \A o \in Processes : proc'[o].new \in Refs \cup {None} /\
        (proc'[o].at \in {"freeRef", "native"} => proc'[o].ref \in Refs)
  BY StartUpIInv, <1>1, FrameFields DEF IInv, TypeOK, Locals, FreePCs, Resting, Frames
<1>. QED
  BY <1>1, <1>2 DEF Borrowed, OwnerKept, Findable, Cleared, Processes

\* The new block was free, so nobody borrows it.
LEMMA CreateBorrowed ==
  ASSUME IInv, Borrowed, NEW u \in Users, NEW r \in Refs, NEW b \in Blocks, Create(u, r, b)
  PROVE  Borrowed'
<1>1. /\ u \in Processes /\ proc[u].at = "idle" /\ kind[r] = "none" /\ heap[b] = None
      /\ UNCHANGED weak /\ kind'[r] = "new"
      /\ heap'[b] = r /\ \A c \in Blocks : c # b => heap'[c] = heap[c]
      /\ \A s \in Refs : s # r => kind'[s] = kind[s] /\ addr'[s] = addr[s]
      /\ \A v \in Users : /\ \A s \in held[v] : s \in held'[v]
                          /\ \A s \in held'[v] : s \in held[v] \/ s = r
      /\ \A v \in Users : held'[v] \subseteq Refs
  <2>1. /\ u \in Processes /\ proc[u].at = "idle" /\ kind[r] = "none" /\ heap[b] = None
        /\ UNCHANGED weak /\ heap' = [heap EXCEPT ![b] = r]
        /\ kind' = [kind EXCEPT ![r] = "new"] /\ addr' = [addr EXCEPT ![r] = b]
        /\ held' = [held EXCEPT ![u] = @ \cup {r}]
    BY DEF Create, At, tracker, Processes
  <2>2. /\ kind'[r] = "new" /\ heap'[b] = r
        /\ \A c \in Blocks : c # b => heap'[c] = heap[c]
        /\ \A s \in Refs : s # r => kind'[s] = kind[s] /\ addr'[s] = addr[s]
    BY <2>1 DEF IInv, TypeOK
  <2>3. \A v \in Users : /\ \A s \in held[v] : s \in held'[v]
                         /\ \A s \in held'[v] : s \in held[v] \/ s = r
                         /\ held'[v] \subseteq Refs
    BY <2>1 DEF IInv, TypeOK
  <2>. QED
    BY <2>1, <2>2, <2>3
<1>2. /\ Others(u) /\ proc'[u].at = "instance" /\ proc'[u].new = r /\ proc'[u].owns
      /\ proc'[u].ref = proc[u].ref /\ proc'[u].todo = proc[u].todo
      /\ proc'[u].aliases = proc[u].aliases /\ proc'[u].gives = proc[u].gives
  BY CreateIntroduces DEF IInv, Introduces
<1>3. \A o \in Processes :
        /\ proc'[o].ref = proc[o].ref /\ proc'[o].aliases = proc[o].aliases
        /\ proc'[o].gives = proc[o].gives
        /\ \/ proc'[o].new = proc[o].new /\ proc'[o].owns = proc[o].owns
           \/ o = u /\ proc[o].new = None /\ proc'[o].new = r /\ proc'[o].owns
        /\ proc'[o].at \in FreePCs => proc'[o].at = proc[o].at
  BY <1>1, <1>2 DEF Others, FreePCs, IInv, Locals, TrackPCs
<1>4. proc[u].new = None /\ r # None
  BY <1>1, NoneAssumption DEF IInv, Locals, TrackPCs, FreePCs
<1>5. OwnerKept'
  <2>. SUFFICES ASSUME NEW v \in Users, proc'[v].new # None,
                       ~proc'[v].owns, addr'[proc'[v].new] # Undefined
                PROVE  heap'[addr'[proc'[v].new]] \in held'[v]
    BY DEF OwnerKept
  <2>1. v \in Processes
    BY DEF Processes
  <2>2. /\ proc'[v].new = proc[v].new /\ proc[v].new # r /\ proc[v].new \in Refs
        /\ ~proc[v].owns
    BY <1>1, <1>3, <2>1, FrameFields, Fresh DEF IInv
  <2>3. /\ addr'[proc[v].new] = addr[proc[v].new]
        /\ addr[proc[v].new] \in Blocks
    BY <1>1, <2>2 DEF IInv, TypeOK
  <2>4. heap[addr[proc[v].new]] \in held[v]
    BY <2>2, <2>3 DEF Borrowed, OwnerKept
  <2>5. heap[addr[proc[v].new]] # None
    BY <2>4, HeldAlone
  <2>. QED
    BY <1>1, <2>2, <2>4, <2>5, <2>3
<1>6. Findable'
  <2>. SUFFICES ASSUME NEW v \in Users, NEW w \in held'[v], w # proc'[v].ref,
                       kind'[w] = "weak", addr'[w] # Undefined
                PROVE  \/ w = proc'[v].new
                       \/ heap'[addr'[w]] = Given
                       \/ /\ heap'[addr'[w]] # None
                          /\ \/ w \in weak'[addr'[w]]
                             \/ \E p \in Processes : w \in proc'[p].aliases
    BY DEF Findable
  <2>1. v \in Processes /\ w # r /\ w \in held[v] /\ w \in Refs
    BY <1>1 DEF Processes
  <2>2. w # proc[v].ref /\ kind[w] = "weak" /\ addr'[w] = addr[w] /\ addr[w] \in Blocks
    BY <1>1, <1>3, <2>1 DEF IInv, TypeOK
  <2>3. w # None
    BY <2>1, NoneAssumption
  <2>4. w = proc[v].new => w = proc'[v].new
    BY <1>3, <2>1, <2>3
  <2>5. \/ w = proc[v].new
        \/ heap[addr[w]] = Given
        \/ /\ heap[addr[w]] # None
           /\ w \in weak[addr[w]] \/ \E p \in Processes : w \in proc[p].aliases
    BY <2>1, <2>2 DEF Borrowed, Findable
  <2>6. addr[w] # b \/ w = proc[v].new
    BY <1>1, <2>5, NoneAssumption
  <2>. QED
    BY <1>1, <1>3, <2>1, <2>2, <2>4, <2>5, <2>6
<1>7. Cleared'
  <2>1. \A o \in Processes : proc'[o].at \in {"freeRef", "native"} =>
          /\ proc[o].at \in {"freeRef", "native"} /\ proc[o].ref \in Refs /\ proc[o].ref # r
    BY <1>1, <1>3, Fresh, FrameFields DEF IInv, Locals, FreePCs
  <2>. QED
    BY <1>1, <1>3, <2>1, KeepsCleared DEF Borrowed
<1>. QED
  BY <1>5, <1>6, <1>7 DEF Borrowed

\* Only an owner is borrowed from, and only its holder can free it.
LEMMA AsWeakReferenceBorrowed ==
  ASSUME IInv, Borrowed, Reborrows = FALSE,
         NEW u \in Users, NEW r \in Refs, NEW w \in Refs, AsWeakReference(u, r, w)
  PROVE  Borrowed'
<1>1. /\ u \in Processes /\ proc[u].at = "idle" /\ kind[w] = "none" /\ kind[r] = "smart"
      /\ r \in held[u] /\ UNCHANGED <<weak, heap>> /\ addr[r] # Undefined
      /\ kind'[w] = "new" /\ addr'[w] = addr[r]
      /\ \A s \in Refs : s # w => kind'[s] = kind[s] /\ addr'[s] = addr[s]
      /\ \A v \in Users : /\ \A s \in held[v] : s \in held'[v]
                          /\ \A s \in held'[v] : s \in held[v] \/ (s = w /\ v = u)
  BY DEF AsWeakReference, At, tracker, native, IInv, TypeOK, Processes
<1>2. /\ Others(u) /\ proc'[u].at = "instance" /\ proc'[u].new = w
      /\ proc'[u].ref = proc[u].ref /\ proc'[u].todo = proc[u].todo
      /\ proc'[u].aliases = proc[u].aliases /\ proc'[u].gives = proc[u].gives
  BY AsWeakReferenceIntroduces DEF Introduces
<1>3. proc[u].new = None /\ proc[u].ref = None
  BY <1>1 DEF IInv, Locals, TrackPCs, FreePCs
<1>4. \A o \in Processes :
        /\ proc'[o].ref = proc[o].ref /\ proc'[o].aliases = proc[o].aliases
        /\ proc'[o].gives = proc[o].gives
        /\ \/ proc'[o].new = proc[o].new /\ proc'[o].owns = proc[o].owns
           \/ o = u /\ proc[o].new = None /\ proc'[o].new = w
        /\ proc'[o].at \in FreePCs => proc'[o].at = proc[o].at
  BY <1>1, <1>2, <1>3 DEF Others, FreePCs
<1>5. heap[addr[r]] = r
  <2>1. \A o \in Processes : proc[o].ref # r
    BY <1>1, <1>3, HeldAlone
  <2>. QED
    BY <1>1, <2>1 DEF IInv, Owned, Ending
<1>6. OwnerKept'
  <2>. SUFFICES ASSUME NEW v \in Users, proc'[v].new # None,
                       ~proc'[v].owns, addr'[proc'[v].new] # Undefined
                PROVE  heap'[addr'[proc'[v].new]] \in held'[v]
    BY DEF OwnerKept
  <2>1. CASE proc'[v].new = w
    <3>1. v = u
      <4>1. v # u => proc'[v].new = proc[v].new
        BY <1>2 DEF Others, Processes
      <4>. QED
        BY <1>1, <2>1, <4>1, Fresh DEF Processes
    <3>. QED
      BY <1>1, <1>5, <2>1, <3>1
  <2>2. CASE proc'[v].new # w
    <3>1. proc'[v].new = proc[v].new /\ proc[v].new \in Refs /\ ~proc[v].owns
      BY <1>4, <2>2, FrameFields DEF IInv, Processes
    <3>2. addr'[proc[v].new] = addr[proc[v].new]
      BY <1>1, <2>2, <3>1
    <3>. QED
      BY <1>1, <3>1, <3>2 DEF Borrowed, OwnerKept
  <2>. QED
    BY <2>1, <2>2
<1>7. Findable'
  <2>. SUFFICES ASSUME NEW v \in Users, NEW x \in held'[v], x # proc'[v].ref,
                       kind'[x] = "weak", addr'[x] # Undefined
                PROVE  \/ x = proc'[v].new
                       \/ heap'[addr'[x]] = Given
                       \/ /\ heap'[addr'[x]] # None
                          /\ \/ x \in weak'[addr'[x]]
                             \/ \E p \in Processes : x \in proc'[p].aliases
    BY DEF Findable
  <2>1. CASE x \in held[v]
    <3>1. v \in Processes /\ x # w /\ x \in Refs /\ x # None
      BY <1>1, <2>1, Fresh, HeldAlone DEF Processes
    <3>2. x # proc[v].ref /\ kind[x] = "weak" /\ addr'[x] = addr[x]
      BY <1>1, <1>4, <3>1
    <3>3. x = proc[v].new => x = proc'[v].new
      BY <1>4, <3>1
    <3>4. \/ x = proc[v].new
          \/ heap[addr[x]] = Given
          \/ /\ heap[addr[x]] # None
             /\ x \in weak[addr[x]] \/ \E p \in Processes : x \in proc[p].aliases
      BY <2>1, <3>2 DEF Borrowed, Findable
    <3>. QED
      BY <1>1, <1>4, <3>2, <3>3, <3>4
  <2>. QED
    BY <1>1, <1>2, <2>1
<1>8. Cleared'
  <2>1. \A o \in Processes : proc'[o].at \in {"freeRef", "native"} =>
          /\ proc[o].at \in {"freeRef", "native"} /\ proc[o].ref \in Refs /\ proc[o].ref # w
    BY <1>1, <1>4, Fresh, FrameFields DEF IInv, Locals, FreePCs
  <2>. QED
    BY <1>1, <1>4, <2>1, KeepsCleared DEF Borrowed
<1>. QED
  BY <1>6, <1>7, <1>8 DEF Borrowed

\* The new weak ref is the process's own still, or has no address.
LEMMA OwnsMemoryBorrowed ==
  ASSUME IInv, Borrowed, NEW u \in Users, OwnsMemory(u)
  PROVE  Borrowed'
<1>1. PICK r \in Refs : r = proc[u].new
  <2>1. proc[u].new # None
    BY DEF OwnsMemory, At, IInv, Locals, TrackPCs, Processes
  <2>. QED
    BY <2>1, NewAlone
<1>2. /\ u \in Processes /\ proc[u].at = "own"
      /\ UNCHANGED <<heap, addr, weak, held>>
      /\ proc[u].aliases = {} /\ proc[u].ref = None /\ Others(u)
      /\ proc'[u].ref = None /\ proc'[u].aliases = {} /\ proc'[u].at \in {"check", "idle"}
      /\ \/ /\ proc'[u].new = r /\ proc'[u].owns = proc[u].owns
            /\ \A s \in Refs : s # r => kind'[s] = kind[s]
         \/ addr[r] = Undefined /\ proc'[u].new = None /\ kind' = kind
  BY <1>1, OwnsMemorySame DEF native, tracker
<1>3. \A o \in Processes : proc'[o].ref = proc[o].ref /\ proc'[o].aliases = proc[o].aliases
  BY <1>2 DEF Others
<1>4. OwnerKept'
  <2>1. \A v \in Users : v \in Processes /\ (v # u => proc'[v] = proc[v])
    BY <1>2 DEF Others, Processes
  <2>. QED
    BY <1>1, <1>2, <2>1, KeepsOwner DEF Borrowed
<1>5. Findable'
  <2>. SUFFICES ASSUME NEW v \in Users, NEW w \in held'[v], w # proc'[v].ref,
                       kind'[w] = "weak", addr'[w] # Undefined
                PROVE  \/ w = proc'[v].new
                       \/ heap'[addr'[w]] = Given
                       \/ /\ heap'[addr'[w]] # None
                          /\ \/ w \in weak'[addr'[w]]
                             \/ \E p \in Processes : w \in proc'[p].aliases
    BY DEF Findable
  <2>1. v \in Processes /\ w \in held[v] /\ w \in Refs /\ w # None /\ w # proc[v].ref
    BY <1>2, <1>3, HeldAlone DEF Processes
  <2>2. CASE w = r
    <3>1. r \in held[u]
      BY <1>1, <2>1, <2>2, NewAlone
    <3>2. v = u
      BY <2>1, <2>2, <3>1, HeldAlone
    <3>. QED
      BY <1>2, <2>2, <3>2
  <2>3. CASE w # r
    <3>1. kind[w] = "weak" /\ addr[w] # Undefined
      BY <1>2, <2>1, <2>3
    <3>2. \/ w = proc[v].new
          \/ heap[addr[w]] = Given
          \/ /\ heap[addr[w]] # None
             /\ w \in weak[addr[w]] \/ \E p \in Processes : w \in proc[p].aliases
      BY <2>1, <3>1 DEF Borrowed, Findable
    <3>3. w = proc[v].new => w = proc'[v].new
      BY <1>1, <1>2, <2>1, <2>3 DEF Others
    <3>. QED
      BY <1>2, <1>3, <3>2, <3>3
  <2>. QED
    BY <2>2, <2>3
<1>6. Cleared'
  <2>1. \A o \in Processes : proc'[o].at \in {"freeRef", "native"} => proc'[o] = proc[o]
    BY <1>2 DEF Others
  <2>. QED
    BY <1>2, <2>1, KeepsCleared DEF Borrowed
<1>. QED
  BY <1>4, <1>5, <1>6 DEF Borrowed

\* A weak ref comes on the table while its process keeps the owner: nobody
\* frees that one.
LEMMA TrackBorrowed ==
  ASSUME IInv, Borrowed, NEW u \in Users, Track(u)
  PROVE  Borrowed'
<1>. DEFINE r == proc[u].new
<1>1. /\ u \in Processes /\ proc[u].at = "track" /\ lock # u
      /\ UNCHANGED <<heap, kind, addr, held>>
      /\ proc[u].ref = None /\ r # None /\ r \in Refs
      /\ kind[r] = "weak" /\ addr[r] # Undefined => ~proc[u].owns
      /\ ~proc[u].owns => kind[r] = "weak"
  <2>1. u \in Processes /\ proc[u].at = "track" /\ UNCHANGED <<heap, kind, addr, held>>
    BY DEF Track, At, Processes, native, objects
  <2>2. lock # u /\ proc[u].ref = None /\ r # None
    BY <2>1 DEF IInv, Locals, FreePCs, TrackPCs
  <2>3. /\ ~proc[u].owns => kind[r] \in {"new", "weak"}
        /\ proc[u].owns /\ addr[r] # Undefined => kind[r] \in {"new", "smart"}
        /\ kind[r] # "new"
    BY <2>1, <2>2 DEF IInv, Made, MakePCs
  <2>. QED
    BY <2>1, <2>2, <2>3, NewAlone
<1>2. \A o \in Processes :
        /\ o # u => proc'[o] = proc[o]
        /\ proc'[o].ref = proc[o].ref /\ proc'[o].aliases = proc[o].aliases
        /\ proc'[o].gives = proc[o].gives
        /\ proc'[u].at = "idle" /\ proc'[u].new = None
  BY <1>1 DEF Track, IInv, TypeOK, Frames
<1>3. \A b \in Blocks :
        /\ \A s \in weak[b] : s \in weak'[b]
        /\ \A s \in weak'[b] : s \in weak[b] \/ (s = r /\ kind[r] = "weak" /\ addr[r] = b)
  <2>1. CASE proc[u].owns
    BY <2>1 DEF Track
  <2>2. CASE ~proc[u].owns
    <3>1. weak' = IF addr[r] = Undefined THEN weak ELSE [weak EXCEPT ![addr[r]] = @ \cup {r}]
      BY <2>2 DEF Track
    <3>2. kind[r] = "weak"
      BY <1>1, <2>2
    <3>. QED
      BY <3>1, <3>2 DEF IInv, TypeOK
  <2>. QED
    BY <2>1, <2>2
<1>4. kind[r] = "weak" /\ addr[r] # Undefined =>
        addr[r] \in Blocks /\ r \in weak'[addr[r]] /\ heap[addr[r]] \in held[u]
  <2>. SUFFICES ASSUME kind[r] = "weak", addr[r] # Undefined
                PROVE  addr[r] \in Blocks /\ r \in weak'[addr[r]] /\ heap[addr[r]] \in held[u]
    OBVIOUS
  <2>1. addr[r] \in Blocks /\ weak' = [weak EXCEPT ![addr[r]] = @ \cup {r}] /\ ~proc[u].owns
    BY <1>1 DEF Track, IInv, TypeOK
  <2>. QED
    BY <1>1, <2>1 DEF IInv, TypeOK, Borrowed, OwnerKept
<1>5. OwnerKept'
  BY <1>1, <1>2, KeepsOwner DEF Borrowed, Processes
<1>6. Findable'
  <2>. SUFFICES ASSUME NEW v \in Users, NEW w \in held'[v], w # proc'[v].ref,
                       kind'[w] = "weak", addr'[w] # Undefined
                PROVE  \/ w = proc'[v].new
                       \/ heap'[addr'[w]] = Given
                       \/ /\ heap'[addr'[w]] # None
                          /\ \/ w \in weak'[addr'[w]]
                             \/ \E p \in Processes : w \in proc'[p].aliases
    BY DEF Findable
  <2>1. /\ v \in Processes /\ w \in held[v] /\ w # proc[v].ref
        /\ kind[w] = "weak" /\ addr[w] # Undefined
    BY <1>1, <1>2 DEF Processes
  <2>2. \/ w = proc[v].new
        \/ heap[addr[w]] = Given
        \/ /\ heap[addr[w]] # None
           /\ w \in weak[addr[w]] \/ \E p \in Processes : w \in proc[p].aliases
    BY <2>1 DEF Borrowed, Findable
  <2>3. CASE w = r
    <3>1. heap[addr[r]] # None
      BY <1>4, <2>1, <2>3, HeldAlone
    <3>. QED
      BY <1>1, <1>4, <2>1, <2>3, <3>1
  <2>4. CASE w # r
    <3>1. w = proc[v].new => w = proc'[v].new
      BY <1>2, <2>1, <2>4
    <3>2. addr[w] \in Blocks
      BY <2>1 DEF IInv, TypeOK
    <3>. QED
      BY <1>1, <1>2, <1>3, <2>1, <2>2, <3>1, <3>2
  <2>. QED
    BY <2>3, <2>4
<1>7. Cleared'
  <2>. SUFFICES ASSUME NEW p \in Processes, proc'[p].at \in {"freeRef", "native"},
                       ~proc'[p].gives, addr'[proc'[p].ref] # Undefined
                PROVE  weak'[addr'[proc'[p].ref]] = {}
    BY DEF Cleared
  <2>1. /\ p # u /\ proc[p].at \in {"freeRef", "native"} /\ ~proc[p].gives
        /\ proc'[p].ref = proc[p].ref /\ addr[proc[p].ref] # Undefined
    BY <1>1, <1>2
  <2>2. weak[addr[proc[p].ref]] = {} /\ heap[addr[proc[p].ref]] = proc[p].ref
    BY <2>1, FreesOwn DEF Borrowed, Cleared
  <2>3. addr[proc[p].ref] \in Blocks
    BY <2>1, FrameFields DEF IInv, TypeOK, Locals, FreePCs
  <2>4. ~(kind[r] = "weak" /\ addr[r] # Undefined /\ addr[r] = addr[proc[p].ref])
    BY <1>4, <2>1, <2>2, HeldAlone
  <2>. QED
    BY <1>1, <1>3, <2>1, <2>2, <2>3, <2>4, NoneAssumption
<1>. QED
  BY <1>5, <1>6, <1>7 DEF Borrowed

\* A weak ref that its holder frees is not one that he uses.
LEMMA FreeWeakBorrowed ==
  ASSUME IInv, Borrowed, NEW p \in Processes, FreeWeak(p)
  PROVE  Borrowed'
<1>. DEFINE r == proc[p].ref
<1>1. /\ UNCHANGED <<heap, kind, addr, held>> /\ weak' = Untracked({r})
      /\ proc' = [proc EXCEPT ![p].at = "finish"]
  BY DEF FreeWeak, Goto, native, objects
<1>2. \A o \in Processes :
        /\ proc'[o].new = proc[o].new /\ proc'[o].ref = proc[o].ref
        /\ proc'[o].aliases = proc[o].aliases /\ proc'[o].gives = proc[o].gives
        /\ proc'[o].owns = proc[o].owns
        /\ proc'[o].at = IF o = p THEN "finish" ELSE proc[o].at
  <2>1. PICK to \in Places : to = "finish" /\ proc' = [proc EXCEPT ![p].at = to]
    BY <1>1 DEF Places
  <2>2. TypeOK
    BY DEF IInv
  <2>. QED
    BY <2>1, <2>2, MovesOnly
<1>3. \A b \in Blocks : \A s : s \in weak'[b] <=> s \in weak[b] /\ s # r
  BY <1>1 DEF Untracked
<1>4. OwnerKept'
  BY <1>1, <1>2, KeepsOwner DEF Borrowed, Processes
<1>5. Findable'
  <2>1. \A u \in Users : \A w \in held[u] :
          (w # proc[u].ref => w # r) /\ (addr[w] # Undefined => addr[w] \in Blocks)
    BY HeldAlone DEF IInv, TypeOK
  <2>2. \A u \in Users : \A w \in held'[u] :
           w # proc'[u].ref /\ kind'[w] = "weak" /\ addr'[w] # Undefined =>
             /\ w \in held[u] /\ w # proc[u].ref /\ kind[w] = "weak" /\ addr'[w] = addr[w]
             /\ w = proc[u].new => w = proc'[u].new
             /\ w \in weak[addr[w]] => w \in weak'[addr[w]]
             /\ \A o \in Processes : w \in proc[o].aliases => w \in proc'[o].aliases
    BY <1>1, <1>2, <1>3, <2>1 DEF Processes
  <2>. QED
    BY <1>1, <2>2, KeepsFindable DEF Borrowed
<1>6. Cleared'
  <2>1. \A o \in Processes : proc[o].at \in {"freeRef", "native"} /\ addr[proc[o].ref] # Undefined
          => addr[proc[o].ref] \in Blocks
    BY FrameFields DEF IInv, TypeOK, Locals, FreePCs
  <2>2. ASSUME NEW o \in Processes, proc'[o].at \in {"freeRef", "native"}, ~proc'[o].gives,
               addr'[proc'[o].ref] # Undefined
        PROVE  /\ proc[o].at \in {"freeRef", "native"} /\ ~proc[o].gives
               /\ addr'[proc'[o].ref] = addr[proc[o].ref]
               /\ \A w \in weak'[addr[proc[o].ref]] : w \in weak[addr[proc[o].ref]]
    <3>1. /\ proc[o].at \in {"freeRef", "native"} /\ ~proc[o].gives
          /\ addr'[proc'[o].ref] = addr[proc[o].ref] /\ addr[proc[o].ref] # Undefined
      BY <1>1, <1>2, <2>2
    <3>2. addr[proc[o].ref] \in Blocks
      BY <2>1, <3>1
    <3>. QED
      BY <1>3, <3>1, <3>2
  <2>. QED
    BY <2>2, KeepsCleared DEF Borrowed
<1>. QED
  BY <1>4, <1>5, <1>6 DEF Borrowed

\* The owner of a block finds no other owner of it in SmartReferences.
LEMMA OnlyOwner ==
  ASSUME IInv, NEW p \in Processes, proc[p].at = "aliases", ~proc[p].gives,
         addr[proc[p].ref] # Undefined
  PROVE  kind[proc[p].ref] = "smart" /\ \A s \in smart : addr[s] # addr[proc[p].ref]
<1>. DEFINE r == proc[p].ref
<1>1. kind[r] = "smart" /\ heap[addr[r]] = r
  BY FreesOwn
<1>2. r \in Refs /\ r \notin Tracked
  BY NoneAssumption, FrameFields DEF IInv, Locals, FreePCs, Apart, DonePCs
<1>3. ASSUME NEW s \in smart, addr[s] = addr[r]
      PROVE  FALSE
  <2>1. s \in Refs /\ kind[s] = "smart" /\ s \in Tracked /\ addr[s] # Undefined
    BY <1>3, TrackedMembers DEF IInv, TypeOK, Alive
  <2>2. s # r
    BY <1>2, <2>1
  <2>3. heap[addr[s]] # s
    BY <1>1, <1>3, <2>2
  <2>4. PICK o \in Processes : proc[o].ref = s /\ (At(o, "finish") \/ proc[o].gives)
    BY <2>1, <2>3 DEF IInv, Owned, Ending
  <2>5. CASE At(o, "finish")
    BY <2>1, <2>4, <2>5 DEF At, IInv, Apart, DonePCs
  <2>6. CASE proc[o].gives
    BY <1>1, <1>2, <1>3, <2>4, <2>6, NoneAssumption DEF IInv, Owned
  <2>. QED
    BY <2>4, <2>5, <2>6
<1>. QED
  BY <1>1, <1>3

\* What a free takes from the table it has in its own hands.
LEMMA TakeAliasesBorrowed ==
  ASSUME IInv, Borrowed, NEW p \in Processes, TakeAliases(p)
  PROVE  Borrowed'
<1>. DEFINE r == proc[p].ref
<1>1. /\ proc[p].at = "aliases" /\ UNCHANGED <<heap, kind, addr, held>>
      /\ proc[p].aliases = {} /\ r \in Refs /\ proc[p].gives \in BOOLEAN
  <2>1. proc[p].at = "aliases" /\ UNCHANGED <<heap, kind, addr, held>>
    BY DEF TakeAliases, At, native, objects
  <2>. QED
    BY <2>1, FrameFields DEF IInv, Locals, FreePCs
<1>2. CASE UNCHANGED weak /\ Goto(p, AfterAliases(p)) /\ (proc[p].gives \/ addr[r] = Undefined)
  <2>1. CASE proc[p].gives
    <3>1. "disown" \in Places \ {"freeRef", "native"}
      BY DEF Places
    <3>2. proc' = [proc EXCEPT ![p].at = "disown"]
      BY <1>2, <2>1 DEF Goto, AfterAliases
    <3>. QED
      BY <1>1, <1>2, <3>1, <3>2, MovesBorrowed
  <2>2. CASE ~proc[p].gives
    <3>1. proc' = [proc EXCEPT ![p].at = "native"] /\ addr[r] = Undefined
      BY <1>2, <2>2 DEF Goto, AfterAliases
    <3>2. \A o \in Processes :
            /\ proc'[o].new = proc[o].new /\ proc'[o].ref = proc[o].ref
            /\ proc'[o].aliases = proc[o].aliases /\ proc'[o].gives = proc[o].gives
            /\ proc'[o].owns = proc[o].owns
            /\ proc'[o].at = IF o = p THEN "native" ELSE proc[o].at
      <4>1. PICK to \in Places : to = "native" /\ proc' = [proc EXCEPT ![p].at = to]
        BY <3>1 DEF Places
      <4>2. TypeOK
        BY DEF IInv
      <4>. QED
        BY <4>1, <4>2, MovesOnly
    <3>3. OwnerKept'
      BY <1>1, <3>2, KeepsOwner DEF Borrowed, Processes
    <3>4. Findable'
      BY <1>1, <1>2, <3>2, KeepsFindable DEF Borrowed, Processes
    <3>5. Cleared'
      BY <1>1, <1>2, <3>1, <3>2, KeepsCleared DEF Borrowed
    <3>. QED
      BY <3>3, <3>4, <3>5 DEF Borrowed
  <2>. QED
    BY <1>1, <2>1, <2>2
<1>3. CASE /\ addr[r] # Undefined
           /\ weak' = [weak EXCEPT ![addr[r]] = {}]
           /\ proc' = [proc EXCEPT ![p].at = "freeRef", ![p].aliases = weak[addr[r]]]
  <2>1. /\ addr[r] \in Blocks /\ weak'[addr[r]] = {}
        /\ \A b \in Blocks : b # addr[r] => weak'[b] = weak[b]
    BY <1>1, <1>3 DEF IInv, TypeOK
  <2>2. PICK S \in SUBSET Refs : S = weak[addr[r]]
    BY <2>1 DEF IInv, TypeOK
  <2>3. /\ Others(p) /\ proc'[p].at = "freeRef" /\ proc'[p].aliases = S
        /\ proc'[p].new = proc[p].new /\ proc'[p].ref = r /\ proc'[p].gives = proc[p].gives
        /\ proc'[p].owns = proc[p].owns
    <3>1. proc' = [proc EXCEPT ![p].at = "freeRef", ![p].aliases = S]
      BY <1>3, <2>2
    <3>2. TypeOK /\ "freeRef" \in Places
      BY DEF IInv, Places
    <3>3. /\ proc' \in [Processes -> Frames] /\ Others(p)
          /\ proc'[p].at = "freeRef" /\ proc'[p].aliases = S
          /\ proc'[p].new = proc[p].new /\ proc'[p].ref = proc[p].ref
          /\ proc'[p].todo = proc[p].todo /\ proc'[p].gives = proc[p].gives
          /\ proc'[p].owns = proc[p].owns
      BY <3>1, <3>2, Takes
    <3>. QED
      BY <3>1, <3>3
  <2>4. \A o \in Processes :
          /\ proc'[o].new = proc[o].new /\ proc'[o].ref = proc[o].ref
          /\ proc'[o].gives = proc[o].gives /\ proc'[o].owns = proc[o].owns
          /\ o # p => proc'[o].at = proc[o].at /\ proc'[o].aliases = proc[o].aliases
    BY <2>3 DEF Others
  <2>5. OwnerKept'
    BY <1>1, <2>4, KeepsOwner DEF Borrowed, Processes
  <2>6. Findable'
    <3>1. \A u \in Users : \A w \in held[u] : addr[w] # Undefined => addr[w] \in Blocks
      BY DEF IInv, TypeOK
    <3>2. \A u \in Users : \A w \in held'[u] :
             w # proc'[u].ref /\ kind'[w] = "weak" /\ addr'[w] # Undefined =>
               /\ w \in held[u] /\ w # proc[u].ref /\ kind[w] = "weak" /\ addr'[w] = addr[w]
               /\ w = proc[u].new => w = proc'[u].new
               /\ w \in weak[addr[w]] => w \in weak'[addr[w]] \/ w \in proc'[p].aliases
               /\ \A o \in Processes : w \in proc[o].aliases => w \in proc'[o].aliases
      BY <1>1, <2>1, <2>2, <2>3, <2>4, <3>1 DEF Processes
    <3>. QED
      BY <1>1, <3>2, KeepsFindable DEF Borrowed
  <2>7. Cleared'
    <3>. SUFFICES ASSUME NEW o \in Processes, proc'[o].at \in {"freeRef", "native"},
                         ~proc'[o].gives, addr'[proc'[o].ref] # Undefined
                  PROVE  weak'[addr'[proc'[o].ref]] = {}
      BY DEF Cleared
    <3>1. CASE o = p
      BY <1>1, <2>1, <2>3, <3>1
    <3>2. CASE o # p
      <4>1. /\ proc[o].at \in {"freeRef", "native"} /\ ~proc[o].gives
            /\ addr[proc[o].ref] # Undefined /\ addr'[proc'[o].ref] = addr[proc[o].ref]
        BY <1>1, <2>4, <3>2
      <4>2. weak[addr[proc[o].ref]] = {}
        BY <4>1 DEF Borrowed, Cleared
      <4>3. addr[proc[o].ref] \in Blocks
        BY <4>1, FrameFields DEF IInv, TypeOK, Locals, FreePCs
      <4>. QED
        BY <2>1, <4>1, <4>2, <4>3
    <3>. QED
      BY <3>1, <3>2
  <2>. QED
    BY <2>5, <2>6, <2>7 DEF Borrowed
<1>4. \/ UNCHANGED weak /\ Goto(p, AfterAliases(p)) /\ (proc[p].gives \/ addr[r] = Undefined)
      \/ /\ addr[r] # Undefined
         /\ weak' = [weak EXCEPT ![addr[r]] = {}]
         /\ proc' = [proc EXCEPT ![p].at = "freeRef", ![p].aliases = weak[addr[r]]]
  <2>. DEFINE mine == /\ kind[r] = "smart"
                      /\ addr[r] # Undefined
                      /\ \A s \in smart : addr[s] # addr[r]
  <2>1. mine \/ proc[p].gives \/ addr[r] = Undefined
    BY <1>1, OnlyOwner
  <2>2. \/ /\ mine
           /\ weak' = [weak EXCEPT ![addr[r]] = {}]
           /\ proc' = [proc EXCEPT ![p].at = "freeRef", ![p].aliases = weak[addr[r]]]
        \/ ~mine /\ UNCHANGED weak /\ Goto(p, AfterAliases(p))
    BY DEF TakeAliases
  <2>. QED
    BY <2>1, <2>2
<1>. QED
  BY <1>2, <1>3, <1>4

\* A weak ref that is made undefined borrows nothing any more.
LEMMA FreeRefBorrowed ==
  ASSUME IInv, Borrowed, NEW p \in Processes, FreeRef(p)
  PROVE  Borrowed'
<1>1. proc[p].at = "freeRef" /\ UNCHANGED <<heap, kind, weak, held>>
  BY DEF FreeRef, At, native, tracker
<1>2. CASE UNCHANGED addr /\ Goto(p, AfterAliases(p))
  <2>1. PICK to \in Places : proc' = [proc EXCEPT ![p].at = to]
    BY <1>2 DEF Goto, AfterAliases, Places
  <2>2. TypeOK
    BY DEF IInv
  <2>3. \A o \in Processes :
          /\ proc'[o].new = proc[o].new /\ proc'[o].ref = proc[o].ref
          /\ proc'[o].aliases = proc[o].aliases /\ proc'[o].gives = proc[o].gives
          /\ proc'[o].owns = proc[o].owns
          /\ o # p => proc'[o].at = proc[o].at
    BY <2>1, <2>2, MovesOnly
  <2>4. \A o \in Processes : proc'[o].at \in {"freeRef", "native"} =>
          proc[o].at \in {"freeRef", "native"}
    BY <1>1, <2>3
  <2>. QED
    BY <1>1, <1>2, <2>3, <2>4, QuietBorrowed
<1>3. ASSUME NEW x \in proc[p].aliases, addr' = [addr EXCEPT ![x] = Undefined],
             proc' = [proc EXCEPT ![p].aliases = @ \ {x}]
      PROVE  Borrowed'
  <2>1. \A s \in Refs : addr'[s] # Undefined => s # x /\ addr'[s] = addr[s]
    BY <1>3 DEF IInv, TypeOK
  <2>2. \A o \in Processes :
          /\ proc'[o].new = proc[o].new /\ proc'[o].ref = proc[o].ref
          /\ proc'[o].gives = proc[o].gives /\ proc'[o].at = proc[o].at
          /\ proc'[o].owns = proc[o].owns
          /\ \A s \in proc[o].aliases : s # x => s \in proc'[o].aliases
    <3>1. TypeOK
      BY DEF IInv
    <3>2. /\ Others(p)
          /\ proc'[p].at = proc[p].at /\ proc'[p].aliases = proc[p].aliases \ {x}
          /\ proc'[p].new = proc[p].new /\ proc'[p].ref = proc[p].ref
          /\ proc'[p].gives = proc[p].gives /\ proc'[p].owns = proc[p].owns
      BY <1>3, <3>1, Drops
    <3>. QED
      BY <3>2 DEF Others
  <2>3. OwnerKept'
    <3>1. \A u \in Users : u \in Processes /\ (proc[u].new # None => proc[u].new \in Refs)
      BY FrameFields DEF IInv, Processes
    <3>. QED
      BY <1>1, <2>1, <2>2, <3>1, KeepsOwner DEF Borrowed
  <2>4. Findable'
    <3>1. \A u \in Users : \A w \in held[u] : w \in Refs
      BY HeldAlone
    <3>2. \A u \in Users : \A w \in held'[u] :
             w # proc'[u].ref /\ kind'[w] = "weak" /\ addr'[w] # Undefined =>
               /\ w \in held[u] /\ w # proc[u].ref /\ kind[w] = "weak" /\ addr'[w] = addr[w]
               /\ w = proc[u].new => w = proc'[u].new
               /\ w \in weak[addr[w]] => w \in weak'[addr[w]]
               /\ \A o \in Processes : w \in proc[o].aliases => w \in proc'[o].aliases
      BY <1>1, <2>1, <2>2, <3>1 DEF Processes
    <3>. QED
      BY <1>1, <3>2, KeepsFindable DEF Borrowed
  <2>5. Cleared'
    <3>1. \A o \in Processes : proc[o].at \in {"freeRef", "native"} => proc[o].ref \in Refs
      BY FrameFields DEF IInv, Locals, FreePCs
    <3>2. \A o \in Processes :
            proc'[o].at \in {"freeRef", "native"} /\ ~proc'[o].gives
            /\ addr'[proc'[o].ref] # Undefined =>
              /\ proc[o].at \in {"freeRef", "native"} /\ ~proc[o].gives
              /\ addr'[proc'[o].ref] = addr[proc[o].ref]
              /\ \A w \in weak'[addr[proc[o].ref]] : w \in weak[addr[proc[o].ref]]
      BY <1>1, <2>1, <2>2, <3>1
    <3>. QED
      BY <3>2, KeepsCleared DEF Borrowed
  <2>. QED
    BY <2>3, <2>4, <2>5 DEF Borrowed
<1>. QED
  BY <1>2, <1>3 DEF FreeRef

\* Nobody borrows the block that is freed: its weak refs were found.
LEMMA NativeFreeBorrowed ==
  ASSUME IInv, Borrowed, NEW p \in Processes, NativeFree(p)
  PROVE  Borrowed'
<1>. DEFINE r == proc[p].ref
<1>1. /\ proc[p].at = "native" /\ UNCHANGED <<kind, addr, weak, held>>
      /\ proc' = [proc EXCEPT ![p].at = "finish"]
      /\ r \in Refs /\ proc[p].aliases = {} /\ ~proc[p].gives
  <2>1. /\ proc[p].at = "native" /\ UNCHANGED <<kind, addr, weak, held>>
        /\ proc' = [proc EXCEPT ![p].at = "finish"]
    BY DEF NativeFree, At, Goto, objects, tracker
  <2>. QED
    BY <2>1, FrameFields DEF IInv, Locals, FreePCs
<1>2. \A b \in Blocks : heap'[b] = IF b = addr[r] THEN None ELSE heap[b]
  <2>1. addr[r] \in Blocks \/ addr[r] = Undefined
    BY <1>1 DEF IInv, TypeOK
  <2>. QED
    BY <2>1, NoneAssumption DEF NativeFree, IInv, TypeOK
<1>3. \A o \in Processes :
        /\ proc'[o].new = proc[o].new /\ proc'[o].ref = proc[o].ref
        /\ proc'[o].aliases = proc[o].aliases /\ proc'[o].gives = proc[o].gives
        /\ proc'[o].owns = proc[o].owns
        /\ proc'[o].at = IF o = p THEN "finish" ELSE proc[o].at
  <2>1. PICK to \in Places : to = "finish" /\ proc' = [proc EXCEPT ![p].at = to]
    BY <1>1 DEF Places
  <2>2. TypeOK
    BY DEF IInv
  <2>. QED
    BY <2>1, <2>2, MovesOnly
<1>4. \A b \in Blocks : b = addr[r] => heap[b] = r /\ weak[b] = {}
  BY <1>1, FreesOwn, NoneAssumption DEF Borrowed, Cleared
<1>5. OwnerKept'
  <2>. SUFFICES ASSUME NEW v \in Users, proc'[v].new # None,
                       ~proc'[v].owns, addr'[proc'[v].new] # Undefined
                PROVE  heap'[addr'[proc'[v].new]] \in held'[v]
    BY DEF OwnerKept
  <2>. DEFINE w == proc[v].new
  <2>1. v \in Processes /\ proc'[v].new = w /\ w # None /\ w \in Refs
    BY <1>3, FrameFields DEF IInv, Processes
  <2>2. ~proc[v].owns /\ addr'[w] = addr[w] /\ addr[w] \in Blocks
    BY <1>1, <1>3, <2>1 DEF IInv, TypeOK
  <2>3. heap[addr[w]] \in held[v]
    BY <2>1, <2>2, NoneAssumption DEF Borrowed, OwnerKept
  <2>4. addr[w] # addr[r]
    BY <1>4, <2>1, <2>2, <2>3, HeldAlone
  <2>. QED
    BY <1>1, <1>2, <2>1, <2>2, <2>3, <2>4
<1>6. Findable'
  <2>. SUFFICES ASSUME NEW v \in Users, NEW w \in held'[v], w # proc'[v].ref,
                       kind'[w] = "weak", addr'[w] # Undefined
                PROVE  \/ w = proc'[v].new
                       \/ heap'[addr'[w]] = Given
                       \/ /\ heap'[addr'[w]] # None
                          /\ \/ w \in weak'[addr'[w]]
                             \/ \E o \in Processes : w \in proc'[o].aliases
    BY DEF Findable
  <2>1. /\ v \in Processes /\ w \in held[v] /\ w # proc[v].ref /\ kind[w] = "weak"
        /\ addr'[w] = addr[w] /\ addr[w] \in Blocks
    BY <1>1, <1>3 DEF Processes, IInv, TypeOK
  <2>2. \/ w = proc[v].new
        \/ heap[addr[w]] = Given
        \/ /\ heap[addr[w]] # None
           /\ w \in weak[addr[w]] \/ \E o \in Processes : w \in proc[o].aliases
    BY <1>1, <2>1 DEF Borrowed, Findable
  <2>3. CASE addr[w] # addr[r]
    BY <1>1, <1>2, <1>3, <2>1, <2>2, <2>3
  <2>4. CASE addr[w] = addr[r]
    <3>1. heap[addr[w]] = r /\ weak[addr[w]] = {} /\ heap[addr[w]] # Given
      BY <1>1, <1>4, <2>1, <2>4, NoneAssumption
    <3>2. ASSUME NEW o \in Processes, w \in proc[o].aliases
          PROVE  FALSE
      <4>1. /\ proc[o].at = "freeRef" /\ o # p /\ addr[proc[o].ref] = addr[w]
            /\ addr[w] # Undefined /\ proc[o].gives \in BOOLEAN
        BY <1>1, <2>1, <3>2, FrameFields, NoneAssumption DEF IInv, Locals, Alive
      <4>2. CASE proc[o].gives
        BY <3>1, <4>1, <4>2 DEF IInv, Owned
      <4>3. CASE ~proc[o].gives
        <5>1. proc[o].ref = r
          BY <3>1, <4>1, <4>3, FreesOwn
        <5>2. proc[p].at \in FreePCs
          BY <1>1 DEF FreePCs
        <5>. QED
          BY <4>1, <5>1, <5>2, RefAlone
      <4>. QED
        BY <4>1, <4>2, <4>3
    <3>. QED
      BY <1>3, <2>1, <2>2, <3>1, <3>2
  <2>. QED
    BY <2>3, <2>4
<1>7. Cleared'
  BY <1>1, <1>3, KeepsCleared DEF Borrowed
<1>. QED
  BY <1>5, <1>6, <1>7 DEF Borrowed

\* The freed ref has no address any more.
LEMMA FinishFreeBorrowed ==
  ASSUME IInv, Borrowed, NEW p \in Processes, FinishFree(p)
  PROVE  Borrowed'
<1>. DEFINE r == proc[p].ref
<1>1. /\ proc[p].at = "finish" /\ UNCHANGED <<heap, weak, held>> /\ r \in Refs
      /\ proc[p].aliases = {}
  <2>1. proc[p].at = "finish" /\ UNCHANGED <<heap, weak, held>>
    BY DEF FinishFree, At, native, tracker
  <2>. QED
    BY <2>1, FrameFields DEF IInv, Locals, FreePCs
<1>2. /\ addr'[r] = Undefined
      /\ \A s \in Refs : s # r => kind'[s] = kind[s] /\ addr'[s] = addr[s]
  BY <1>1 DEF FinishFree, IInv, TypeOK
<1>3. \A o \in Processes :
        /\ proc'[o].new = proc[o].new /\ proc'[o].aliases = proc[o].aliases
        /\ proc'[o].owns = proc[o].owns
        /\ o # p => proc'[o] = proc[o]
        /\ proc'[p].at \in {"idle", "next"}
  BY DEF FinishFree, IInv, TypeOK, Frames
<1>4. OwnerKept'
  <2>1. \A u \in Users : u \in Processes /\ (proc[u].new # None => proc[u].new \in Refs)
    BY FrameFields DEF IInv, Processes
  <2>. QED
    BY <1>1, <1>2, <1>3, <2>1, KeepsOwner DEF Borrowed
<1>5. Findable'
  <2>1. \A u \in Users : \A w \in held[u] : w \in Refs
    BY HeldAlone
  <2>2. \A u \in Users : \A w \in held'[u] :
           w # proc'[u].ref /\ kind'[w] = "weak" /\ addr'[w] # Undefined =>
             /\ w \in held[u] /\ w # proc[u].ref /\ kind[w] = "weak" /\ addr'[w] = addr[w]
             /\ w = proc[u].new => w = proc'[u].new
             /\ w \in weak[addr[w]] => w \in weak'[addr[w]]
             /\ \A o \in Processes : w \in proc[o].aliases => w \in proc'[o].aliases
    BY <1>1, <1>2, <1>3, <2>1 DEF Processes
  <2>. QED
    BY <1>1, <2>2, KeepsFindable DEF Borrowed
<1>6. Cleared'
  <2>1. \A o \in Processes : proc[o].at \in {"freeRef", "native"} /\ o # p =>
          proc[o].ref \in Refs /\ proc[o].ref # r
    BY <1>1, FrameFields, RefAlone DEF IInv, Locals, FreePCs
  <2>2. \A o \in Processes :
          proc'[o].at \in {"freeRef", "native"} /\ ~proc'[o].gives
          /\ addr'[proc'[o].ref] # Undefined =>
            /\ proc[o].at \in {"freeRef", "native"} /\ ~proc[o].gives
            /\ addr'[proc'[o].ref] = addr[proc[o].ref]
            /\ \A w \in weak'[addr[proc[o].ref]] : w \in weak[addr[proc[o].ref]]
    BY <1>1, <1>2, <1>3, <2>1
  <2>. QED
    BY <2>2, KeepsCleared DEF Borrowed
<1>. QED
  BY <1>4, <1>5, <1>6 DEF Borrowed

\* The list keeps what its weak refs borrow.
LEMMA AddBorrowed ==
  ASSUME IInv, Borrowed, AddsBorrowed = FALSE, NEW u \in Users, NEW r \in Refs, Add(u, r)
  PROVE  Borrowed'
<1>1. /\ u \in Processes /\ proc[u].at = "idle" /\ r \in held[u] /\ kind[r] = "smart"
      /\ addr[r] \in Blocks /\ heap' = [heap EXCEPT ![addr[r]] = Given]
      /\ UNCHANGED <<kind, addr, weak, held>>
  BY DEF Add, At, Processes, IInv, TypeOK, objects, tracker
<1>2. proc[u].new = None /\ proc[u].ref = None
  BY <1>1 DEF IInv, Locals, FreePCs, TrackPCs
<1>3. \A b \in Blocks : heap'[b] = IF b = addr[r] THEN Given ELSE heap[b]
  BY <1>1 DEF IInv, TypeOK
<1>4. \A o \in Processes :
        /\ o # u => proc'[o] = proc[o]
        /\ proc'[o].new = proc[o].new /\ proc'[o].aliases = proc[o].aliases
        /\ proc'[o].owns = proc[o].owns
        /\ proc'[u].at = "add" /\ proc'[u].ref = r
  <2>1. proc' = [proc EXCEPT ![u] = [proc[u] EXCEPT !.at = "add", !.ref = r, !.gives = TRUE]]
        /\ proc[u] \in Frames
    BY <1>1, FrameFields DEF Add, IInv, TypeOK, Frames
  <2>2. /\ \A o \in Processes : o # u => proc'[o] = proc[o]
        /\ proc'[u] = [proc[u] EXCEPT !.at = "add", !.ref = r, !.gives = TRUE]
    BY <1>1, <2>1 DEF IInv, TypeOK
  <2>. DEFINE q == [proc[u] EXCEPT !.at = "add", !.ref = r, !.gives = TRUE]
  <2>3. q.at = "add" /\ q.ref = r /\ q.new = proc[u].new /\ q.aliases = proc[u].aliases
        /\ q.owns = proc[u].owns
    BY <2>1 DEF Frames
  <2>. HIDE DEF q
  <2>4. \A o \in Processes : o # u => proc'[o] = proc[o]
    BY <2>2
  <2>5. proc'[u] = q
    BY <2>2 DEF q
  <2>. QED
    BY <2>3, <2>4, <2>5
<1>5. heap[addr[r]] = r
  <2>1. \A o \in Processes : proc[o].ref # r
    BY <1>1, <1>2, HeldAlone
  <2>. QED
    BY <1>1, <2>1, NoneAssumption DEF IInv, Owned, Ending
<1>6. OwnerKept'
  <2>. SUFFICES ASSUME NEW v \in Users, proc'[v].new # None,
                       ~proc'[v].owns, addr'[proc'[v].new] # Undefined
                PROVE  heap'[addr'[proc'[v].new]] \in held'[v]
    BY DEF OwnerKept
  <2>. DEFINE w == proc[v].new
  <2>1. v \in Processes /\ proc'[v].new = w /\ w # None /\ w \in Refs
    BY <1>4, FrameFields DEF IInv, Processes
  <2>2. ~proc[v].owns /\ addr'[w] = addr[w] /\ addr[w] \in Blocks
    BY <1>1, <1>4, <2>1 DEF IInv, TypeOK
  <2>3. heap[addr[w]] \in held[v]
    BY <2>1, <2>2, NoneAssumption DEF Borrowed, OwnerKept
  <2>4. addr[w] # addr[r]
    BY <1>1, <1>2, <1>5, <2>1, <2>3, HeldAlone
  <2>. QED
    BY <1>1, <1>3, <2>1, <2>2, <2>3, <2>4
<1>7. Findable'
  <2>. SUFFICES ASSUME NEW v \in Users, NEW w \in held'[v], w # proc'[v].ref,
                       kind'[w] = "weak", addr'[w] # Undefined
                PROVE  \/ w = proc'[v].new
                       \/ heap'[addr'[w]] = Given
                       \/ /\ heap'[addr'[w]] # None
                          /\ \/ w \in weak'[addr'[w]]
                             \/ \E o \in Processes : w \in proc'[o].aliases
    BY DEF Findable
  <2>1. v \in Processes /\ w \in held[v] /\ w # None /\ kind[w] = "weak"
    BY <1>1, HeldAlone DEF Processes
  <2>2. w # proc[v].ref /\ addr'[w] = addr[w] /\ addr[w] \in Blocks
    BY <1>1, <1>2, <1>4, <2>1 DEF IInv, TypeOK
  <2>3. \/ w = proc[v].new
        \/ heap[addr[w]] = Given
        \/ /\ heap[addr[w]] # None
           /\ w \in weak[addr[w]] \/ \E o \in Processes : w \in proc[o].aliases
    BY <2>1, <2>2, NoneAssumption DEF Borrowed, Findable
  <2>. QED
    BY <1>1, <1>3, <1>4, <2>1, <2>2, <2>3
<1>8. Cleared'
  <2>1. \A o \in Processes : proc'[o].at \in {"freeRef", "native"} => proc'[o] = proc[o]
    BY <1>4
  <2>. QED
    BY <1>1, <2>1, KeepsCleared DEF Borrowed
<1>. QED
  BY <1>6, <1>7, <1>8 DEF Borrowed

\* What was given away is as good as any other weak ref of the list's memory.
LEMMA DisownBorrowed ==
  ASSUME IInv, Borrowed, NEW u \in Users, Disown(u)
  PROVE  Borrowed'
<1>. DEFINE r == proc[u].ref
<1>1. /\ u \in Processes /\ proc[u].at = "disown" /\ UNCHANGED <<heap, addr, weak, held>>
      /\ kind' = [kind EXCEPT ![r] = "weak"] /\ proc[u].aliases = {} /\ proc[u].new = None
      /\ proc[u].gives
  BY DEF Disown, At, IInv, Locals, FreePCs, TrackPCs, Processes, native, tracker
<1>2. r \in Refs /\ \A o \in Processes : proc[o].new # r
  BY <1>1, RefAlone DEF FreePCs
<1>3. \A s \in Refs : s # r => kind'[s] = kind[s]
  BY <1>1 DEF IInv, TypeOK
<1>4. \A o \in Processes :
        /\ proc'[o].new = proc[o].new /\ proc'[o].aliases = proc[o].aliases
        /\ o # u => proc'[o] = proc[o]
        /\ proc'[u].at = "idle"
  BY <1>1 DEF Disown, IInv, TypeOK, Resting
<1>5. OwnerKept'
  BY <1>1, <1>4, KeepsOwner DEF Borrowed, Processes
<1>6. Findable'
  <2>. SUFFICES ASSUME NEW v \in Users, NEW w \in held'[v], w # proc'[v].ref,
                       kind'[w] = "weak", addr'[w] # Undefined
                PROVE  \/ w = proc'[v].new
                       \/ heap'[addr'[w]] = Given
                       \/ /\ heap'[addr'[w]] # None
                          /\ \/ w \in weak'[addr'[w]]
                             \/ \E o \in Processes : w \in proc'[o].aliases
    BY DEF Findable
  <2>1. v \in Processes /\ w \in held[v] /\ w \in Refs /\ addr[w] # Undefined
    BY <1>1, HeldAlone DEF Processes
  <2>2. CASE w = r
    BY <1>1, <2>1, <2>2 DEF IInv, Owned
  <2>3. CASE w # r
    <3>1. w # proc[v].ref /\ kind[w] = "weak"
      BY <1>3, <1>4, <2>1, <2>3
    <3>2. \/ w = proc[v].new
          \/ heap[addr[w]] = Given
          \/ /\ heap[addr[w]] # None
             /\ w \in weak[addr[w]] \/ \E o \in Processes : w \in proc[o].aliases
      BY <2>1, <3>1, NoneAssumption DEF Borrowed, Findable
    <3>. QED
      BY <1>1, <1>4, <2>1, <3>2
  <2>. QED
    BY <2>2, <2>3
<1>7. Cleared'
  <2>1. \A o \in Processes : proc'[o].at \in {"freeRef", "native"} => proc'[o] = proc[o]
    BY <1>4
  <2>. QED
    BY <1>1, <2>1, KeepsCleared DEF Borrowed
<1>. QED
  BY <1>5, <1>6, <1>7 DEF Borrowed

\* Nothing is borrowed at first.
LEMMA InitBorrowed ==
  ASSUME Init
  PROVE  Borrowed
BY DEF Init, Resting, Borrowed, OwnerKept, Findable, Cleared, Processes

\* The steps of a call.
LEMMA StepBorrowed ==
  ASSUME IInv, Borrowed, NEW p \in Processes, Step(p)
  PROVE  Borrowed'
<1>1. CASE p \in Users /\ (Instance(p) \/ Check(p) \/ RemoveAdded(p))
  BY <1>1, MovingBorrowed
<1>2. CASE p \in Users /\ (OwnsMemory(p) \/ Track(p) \/ Disown(p))
  BY <1>2, OwnsMemoryBorrowed, TrackBorrowed, DisownBorrowed
<1>3. CASE FreeSmart(p) \/ FreeWeak(p) \/ TakeAliases(p) \/ FreeRef(p)
  BY <1>3, MovingBorrowed, FreeWeakBorrowed, TakeAliasesBorrowed, FreeRefBorrowed
<1>4. CASE NativeFree(p) \/ FinishFree(p)
  BY <1>4, NativeFreeBorrowed, FinishFreeBorrowed
<1>5. CASE Expunge(p) \/ ExpungeNext(p) \/ ExpungeEnds(p)
  BY <1>5, ExpungeBorrowed, ExpungeNextBorrowed, MovingBorrowed
<1>. QED
  BY <1>1, <1>2, <1>3, <1>4, <1>5 DEF Step

\* Every step of an application that borrows from owners only, adds only what it
\* owns and saves its image in the middle of no creation.
LEMMA NextBorrowed ==
  ASSUME AddsBorrowed = FALSE, SavesAnytime = FALSE, Reborrows = FALSE, IInv, Borrowed, [Next]_vars
  PROVE  Borrowed'
<1>1. CASE \E u \in Users, r \in Refs :
             \/ Free(u, r) \/ Add(u, r) \/ Forget(u, r) \/ SmartReferenceFor(u, r)
             \/ \E b \in Blocks : Create(u, r, b)
             \/ \E w \in Refs : AsWeakReference(u, r, w)
  BY <1>1, FreeBorrowed, AddBorrowed, ForgetBorrowed, SmartReferenceForBorrowed,
     CreateBorrowed, AsWeakReferenceBorrowed
<1>2. CASE \E p \in Processes : Step(p)
  BY <1>2, StepBorrowed
<1>3. CASE \E r \in Refs : Collect(r) \/ ScheduleExpunge(r) \/ Reclaim(r)
  BY <1>3, CollectBorrowed, ScheduleExpungeBorrowed, ReclaimBorrowed
<1>4. CASE MonitorWakes
  BY <1>4, MovingBorrowed DEF Processes
<1>5. CASE StartUp
  BY <1>5, StartUpBorrowed
<1>6. CASE UNCHANGED vars
  BY <1>6 DEF Borrowed, OwnerKept, Findable, Cleared, vars
<1>. QED
  BY <1>1, <1>2, <1>3, <1>4, <1>5, <1>6 DEF Next

-----------------------------------------------------------------------------
(* The properties.                                                         *)

\* Types, and the address under which every weak ref is filed.
THEOREM TypeCorrect ==
  ASSUME AddsBorrowed = FALSE, SavesAnytime = FALSE
  PROVE  Spec => []TypeOK
<1>1. IInv => TypeOK
  BY DEF IInv
<1>2. Spec => []IInv
  BY Invariant
<1>. QED
  BY <1>1, <1>2, PTL

\* A native free takes the block that was allocated for the ref, whatever the
\* application, the collector, the finalizer and the monitor do meanwhile, if weak
\* refs are not added to lists and images not saved in the middle of a creation.
THEOREM FreesOnce ==
  ASSUME AddsBorrowed = FALSE, SavesAnytime = FALSE
  PROVE  Spec => []FreesItsOwnMemory
<1>1. IInv => FreesItsOwnMemory
  <2>. SUFFICES ASSUME IInv, NEW p \in Processes, At(p, "native"), addr[proc[p].ref] # Undefined
                PROVE  heap[addr[proc[p].ref]] = proc[p].ref
    BY DEF FreesItsOwnMemory
  <2>1. proc[p].at = "native" /\ ~proc[p].gives
    BY DEF At, IInv, Locals
  <2>. QED
    BY <2>1, FreesOwn
<1>2. Spec => []IInv
  BY Invariant
<1>. QED
  BY <1>1, <1>2, PTL

\* No allocated block is without an owner that is on its way to be freed.
THEOREM NoLeaks ==
  ASSUME AddsBorrowed = FALSE, SavesAnytime = FALSE
  PROVE  Spec => []OwnersAreKept
<1>1. IInv => OwnersAreKept
  <2>1. ASSUME IInv, NEW b \in Blocks, heap[b] \in Refs
        PROVE  Reachable(heap[b]) \/ heap[b] \in smart
    BY <2>1 DEF IInv, Owned, OnItsWay, Reachable, InUse
  <2>. QED
    BY <2>1 DEF IInv, Owned, OwnersAreKept
<1>2. Spec => []IInv
  BY Invariant
<1>. QED
  BY <1>1, <1>2, PTL

\* A ref that was freed by hand, and had memory of its own, is not where the collector
\* or the bin would free it again: what they have owns its memory still.
THEOREM CollectsOwners ==
  ASSUME AddsBorrowed = FALSE, SavesAnytime = FALSE
  PROVE  Spec => []CollectableOwn
<1>1. IInv => CollectableOwn
  <2>. SUFFICES ASSUME IInv,
                       NEW r \in smart \cup bin \cup finalizing
                                 \cup UNION {proc[p].todo : p \in Processes},
                       kind[r] = "smart", addr[r] # Undefined, heap[addr[r]] # r
                PROVE  \E u \in Users : At(u, "add") /\ proc[u].ref = r
    BY DEF CollectableOwn
  <2>1. r \in Refs /\ r # None
    BY FrameFields, NoneAssumption DEF IInv, TypeOK
  <2>2. PICK o \in Processes : proc[o].ref = r /\ (At(o, "finish") \/ proc[o].gives)
    BY <2>1 DEF IInv, Owned, Ending
  <2>3. proc[o].at \in FreePCs
    BY <2>1, <2>2 DEF IInv, Locals
  <2>4. r \in smart
    <3>1. r \notin bin \cup finalizing /\ \A p \in Processes : r \notin proc[p].todo
      BY <2>2, <2>3, RefAlone
    <3>. QED
      BY <3>1
  <2>5. proc[o].at \notin DonePCs
    BY <2>2, <2>4, TrackedMembers DEF IInv, Apart
  <2>6. proc[o].at = "add"
    BY <2>2, <2>5 DEF At, DonePCs, IInv, Locals
  <2>7. o \in Users
    BY <2>3, <2>6 DEF IInv, Locals, Processes
  <2>. QED
    BY <2>2, <2>6, <2>7 DEF At
<1>2. Spec => []IInv
  BY Invariant
<1>. QED
  BY <1>1, <1>2, PTL

\* If the application borrows from owners only as well, no weak ref that a process
\* holds, and is not freeing, outlives the memory it borrows.
THEOREM NoneDangle ==
  ASSUME AddsBorrowed = FALSE, SavesAnytime = FALSE, Reborrows = FALSE
  PROVE  Spec => []NoDanglingWeakRefs
<1>1. Init => IInv /\ Borrowed
  BY InitIInv, InitBorrowed
<1>2. (IInv /\ Borrowed) /\ [Next]_vars => (IInv /\ Borrowed)'
  BY NextIInv, NextBorrowed
<1>3. IInv /\ Borrowed => NoDanglingWeakRefs
  <2>. SUFFICES ASSUME IInv, Borrowed, NEW u \in Users, NEW w \in held[u], w # proc[u].ref,
                       kind[w] = "weak", addr[w] # Undefined
                PROVE  heap[addr[w]] # None
    BY DEF NoDanglingWeakRefs
  <2>1. w # None
    BY HeldAlone
  <2>2. CASE w = proc[u].new
    <3>1. ~proc[u].owns
      BY <2>1, <2>2 DEF IInv, Made
    <3>2. heap[addr[w]] \in held[u]
      BY <2>1, <2>2, <3>1 DEF Borrowed, OwnerKept
    <3>. QED
      BY <3>2, HeldAlone
  <2>3. CASE w # proc[u].new
    BY <2>3, NoneAssumption DEF Borrowed, Findable
  <2>. QED
    BY <2>2, <2>3
<1>. QED
  BY <1>1, <1>2, <1>3, PTL DEF Spec

=============================================================================
