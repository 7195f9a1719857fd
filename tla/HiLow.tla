------------------------------- MODULE HiLow -------------------------------
(***************************************************************************)
(* The split of a 64-bit address into two immediates that                  *)
(* c/source/EsMqttAsyncMessages.c makes because an address may not fit a   *)
(* SmallInteger, and the SmallIntegers of esuser.h that the halves travel  *)
(* as.  Half is 2^31 in the code: the low 31 bits, the 31 bits above them, *)
(* and two bits that must be 0.                                            *)
(***************************************************************************)
EXTENDS Integers

CONSTANT Half

ASSUME HalfAssumption == Half \in Nat \ {0}

\* The masks and shifts of hiLowFrom64, as arithmetic.
High(u) == (u \div Half) % Half
Low(u)  == u % Half
Fits(u) == u < Half * Half

hiLowFrom64(u)      == [high |-> High(u), low |-> Low(u), fits |-> Fits(u)]
\* The overflow answer is dropped by every caller.
hiLowFromPointer(p) == [high |-> High(p), low |-> Low(p)]

\* An integer travels as a SmallInteger: shifted by one in an unsigned 32-bit
\* word, with the tag in the bit that the shift leaves free.
Word == 2 * Half
EsI32ToSmallInteger(i) == (((i % Word) * 2) % Word) + 1
EsSmallIntegerToI32(o) == (o % Word) \div 2

\* What a handler posts for a pointer.
Immediates(p) ==
  LET parts == hiLowFromPointer(p) IN
  [high |-> EsI32ToSmallInteger(parts.high), low |-> EsI32ToSmallInteger(parts.low)]

\* How Smalltalk puts the two parts together again.
Join(parts) ==
  EsSmallIntegerToI32(parts.high) * Half + EsSmallIntegerToI32(parts.low)
=============================================================================
