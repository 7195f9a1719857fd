---------------------------- MODULE AsyncChannel ----------------------------
(***************************************************************************)
(* What the connector promises to Smalltalk, without locks, loads, stores  *)
(* or memory: a registration takes effect at one moment; a callback whose  *)
(* address was handed out, or a checkpoint, looks its target up at one     *)
(* moment while it runs; and its message is accepted at one moment while   *)
(* it runs, at most once, or dropped.  Smalltalk takes the messages in the *)
(* order of their acceptance.                                              *)
(***************************************************************************)
EXTENDS Sequences, Naturals

CONSTANTS
  Threads, Calls, Kinds,
  Flush,      \* the kind that needs no registration: the checkpoint
  Targets,    \* what may be registered for a kind
  Entries,    \* what an entry of the table may hold, registered or not
  Capacity    \* of the VM's queue

VARIABLES
  entry,      \* the target of each kind
  offered,    \* the kinds whose callback was handed out
  used,       \* the calls that began
  sending,    \* the call each thread is in and its kind, if any
  found,      \* the target each thread has looked up, if any
  pending     \* the messages accepted and not yet taken

vars == <<entry, offered, used, sending, found, pending>>

Init ==
  /\ entry \in [Kinds -> Entries]
  /\ offered = {} /\ used = {}
  /\ sending = [t \in Threads |-> {}]
  /\ found = [t \in Threads |-> {}]
  /\ pending = <<>>

Register(k, pair) ==
  /\ entry' = [entry EXCEPT ![k] = pair]
  /\ UNCHANGED <<offered, used, sending, found, pending>>

\* A callback is handed out only once its kind has a registered target.
Offer(k) ==
  /\ entry[k] \in Targets
  /\ offered' = offered \cup {k}
  /\ UNCHANGED <<entry, used, sending, found, pending>>

Begin(t, c, k) ==
  /\ sending[t] = {}
  /\ c \notin used
  /\ k \in offered \cup {Flush}
  /\ sending' = [sending EXCEPT ![t] = {[call |-> c, kind |-> k]}]
  /\ used' = used \cup {c}
  /\ UNCHANGED <<entry, offered, found, pending>>

Look(t) ==
  \E s \in sending[t] :
    /\ found[t] = {}
    /\ found' = [found EXCEPT ![t] = {entry[s.kind]}]
    /\ UNCHANGED <<entry, offered, used, sending, pending>>

Done(t) ==
  /\ sending[t] # {}
  /\ sending' = [sending EXCEPT ![t] = {}]
  /\ found' = [found EXCEPT ![t] = {}]

Accept(t) ==
  \E s \in sending[t], pair \in found[t] :
    /\ Len(pending) < Capacity
    /\ pending' = Append(pending, [call |-> s.call, target |-> pair])
    /\ Done(t)
    /\ UNCHANGED <<entry, offered, used>>

Drop(t) == Done(t) /\ UNCHANGED <<entry, offered, used, pending>>

Take ==
  /\ pending # <<>>
  /\ pending' = Tail(pending)
  /\ UNCHANGED <<entry, offered, used, sending, found>>

Next ==
  \/ \E k \in Kinds : Offer(k) \/ \E pair \in Targets : Register(k, pair)
  \/ \E t \in Threads :
       \/ \E c \in Calls, k \in Kinds : Begin(t, c, k)
       \/ Look(t) \/ Accept(t) \/ Drop(t)
  \/ Take

Spec == Init /\ [][Next]_vars
=============================================================================
