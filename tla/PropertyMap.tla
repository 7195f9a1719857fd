---------------------------- MODULE PropertyMap ----------------------------
(***************************************************************************)
(* What EsProperties.h promises: "a sequenceable collection of pairs with  *)
(* the constraint that each has a unique key member".  A pair whose text   *)
(* could not be copied for want of memory keeps its place without a text.  *)
(***************************************************************************)
EXTENDS Naturals, Sequences, SequencesExt

CONSTANTS Keys, Texts, Null

VARIABLE entries  \* the pairs, in the order in which their keys came

Pairs == [key : Keys, text : Texts \cup {Null}]
Includes(k) == \E i \in DOMAIN entries : entries[i].key = k

Init == entries = <<>>

\* A new key goes to the end.
Add(k, t) ==
  /\ ~Includes(k)
  /\ entries' = Append(entries, [key |-> k, text |-> t])

\* A known key keeps its place; an update needs no memory, so t is a text.
Update(k, t) ==
  /\ t # Null
  /\ \E i \in DOMAIN entries :
       /\ entries[i].key = k
       /\ entries' = [entries EXCEPT ![i].text = t]

RemoveKey(k) ==
  \E i \in DOMAIN entries : entries[i].key = k /\ entries' = RemoveAt(entries, i)

Clear == entries' = <<>>

Next ==
  \/ Clear
  \/ \E k \in Keys : RemoveKey(k)
  \/ \E k \in Keys, t \in Texts \cup {Null} : Add(k, t) \/ Update(k, t)

Spec == Init /\ [][Next]_entries
=============================================================================
