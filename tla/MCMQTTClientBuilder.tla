------------------------ MODULE MCMQTTClientBuilder ------------------------
(* Two processes that share the library; room for one complete set of     *)
(* options and one more structure, which a failed call may leave behind.   *)
EXTENDS MQTTClientBuilder, TLC

CONSTANTS u1, u2, s1, s2, s3, s4

MCUsers   == {u1, u2}
MCStructs == {s1, s2, s3, s4}
MCConnectInputs == {{"binarypwd"}}
MCWillInputs    == {{"topicName", "message"}}
MCSslInputs     == {{}}
Symmetry == Permutations(MCUsers) \cup Permutations(MCStructs)
=============================================================================
