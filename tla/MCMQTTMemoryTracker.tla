------------------------ MODULE MCMQTTMemoryTracker ------------------------
(* One process of the application beside the monitor; room for an owner,  *)
(* an alias and another owner, in two blocks that are used again; a bin    *)
(* that is emptied as soon as it holds a ref.                              *)
EXTENDS MQTTMemoryTracker

CONSTANTS u1, r1, r2, r3, b1, b2

MCUsers  == {u1}
MCRefs   == {r1, r2, r3}
MCBlocks == {b1, b2}
=============================================================================
