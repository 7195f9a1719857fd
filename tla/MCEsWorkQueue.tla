--------------------------- MODULE MCEsWorkQueue ---------------------------
(* Three threads, of which one or two own the queue, and two tasks, one of *)
(* them without a function.                                                *)
EXTENDS EsWorkQueue

CONSTANTS t1, t2, t3, k1, k2

MCThreads  == {t1, t2, t3}
MCOneOwner == {t1}
MCTwoOwners == {t1, t2}
MCTasks    == {k1, k2}
MCRunnable == {k1}
=============================================================================
