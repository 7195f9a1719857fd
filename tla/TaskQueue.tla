----------------------------- MODULE TaskQueue -----------------------------
(***************************************************************************)
(* What EsWorkQueue.h and the comments of EsWorkQueue.c promise, without   *)
(* threads, counters or spinning: tasks are consumed one at a time, once   *)
(* for each submission; shutdown lets the one in progress finish; and one  *)
(* that waits when the queue is shut down is cancelled, never run.         *)
(***************************************************************************)
CONSTANT Tasks

VARIABLES
  phase,   \* where each task is
  open     \* FALSE once the queue is shut down

vars == <<phase, open>>

Running == {k \in Tasks : phase[k] = "running"}

Move(k, from, to) ==
  /\ phase[k] = from
  /\ phase' = [phase EXCEPT ![k] = to]

Init ==
  /\ phase = [k \in Tasks |-> "new"]
  /\ open = TRUE

Submit(k) == /\ \E p \in {"new", "done", "cancelled"} : Move(k, p, "waiting")
             /\ UNCHANGED open
Start(k)  == open /\ Running = {} /\ Move(k, "waiting", "running") /\ UNCHANGED open
Finish(k) == Move(k, "running", "done") /\ UNCHANGED open
Cancel(k) == ~open /\ Move(k, "waiting", "cancelled") /\ UNCHANGED open
Close     == open /\ Running = {} /\ open' = FALSE /\ UNCHANGED phase

Next == Close \/ \E k \in Tasks : Submit(k) \/ Start(k) \/ Finish(k) \/ Cancel(k)

Spec == Init /\ [][Next]_vars

\* A task that runs comes to its end, and one that waits when the queue is closed
\* is cancelled.  Which of the waiting tasks starts, and when, is not promised.
FairSpec ==
  Spec /\ \A k \in Tasks : WF_vars(Cancel(k)) /\ WF_vars(Finish(k))
=============================================================================
