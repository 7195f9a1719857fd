----------------------- MODULE MCEsMqttAsyncArguments -----------------------
(* Two calls of all types of the module, an empty text, a text and a text  *)
(* with a null inside.                                                     *)
EXTENDS EsMqttAsyncArguments, TLC

CONSTANTS c1, c2

MCCalls == {c1, c2}
MCKinds == {"connectionLost", "messageArrived", "deliveryComplete", "published",
            "checkpoint"}
MCTexts == {<<"0">>, <<"x", "y", "0">>, <<"x", "0", "y", "0">>}
MCSymmetry == Permutations(MCCalls)
=============================================================================
