----------------------- MODULE MCEsMqttAsyncMessages -----------------------
(***************************************************************************)
(* Small instances of EsMqttAsyncMessages for TLC.                         *)
(***************************************************************************)
EXTENDS EsMqttAsyncMessages

CONSTANTS v1, p1, p2, a, b

MCOneVMThread    == {v1}
MCOnePahoThread  == {p1}
MCTwoPahoThreads == {p1, p2}
MCTypes        == {"messageArrived", "checkpoint"}
MCDisconnected == {"disconnected"}

MCObjects == {a, b, Nil, Zero}

\* Two handlers of Smalltalk, and a registration taken back.
MCTargets == {<<a, a>>, <<b, b>>, <<Nil, Nil>>}
MCOneTarget == {<<a, a>>}

MCHeapAddress == [c \in Calls |-> 11 * c - 10]
=============================================================================
