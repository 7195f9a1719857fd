--------------------------- MODULE MCEsProperties ---------------------------
(* Three keys on as many nodes, so that a list has a first, an inner and a *)
(* last node; two texts; strings for the copies and for the client.        *)
EXTENDS EsProperties, TLC

CONSTANTS n1, n2, n3, b1, b2, b3, b4

MCNodes  == {n1, n2, n3}
MCBlocks == {b1, b2, b3, b4}

\* Addresses are interchangeable; no property is a liveness property.
MCSymmetry == Permutations(MCNodes) \cup Permutations(MCBlocks)
=============================================================================
