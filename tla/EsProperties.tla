---------------------------- MODULE EsProperties ----------------------------
(***************************************************************************)
(* The key/value container of c/source/EsProperties.c: a linked list of    *)
(* nodes, each with a pointer to a key, a pointer to a value and the next  *)
(* node.  Keys are compared by their text and never copied, so a key is    *)
(* its text here; a value is a block of memory, for who owns the block is  *)
(* the question: the list frees the values it holds, and the client frees  *)
(* the strings it made and those EsProperties_removeKey gives it.          *)
(*                                                                         *)
(* One client uses the container, one call at a time: it has no lock.      *)
(* Calls with NULL for an argument or for the container do nothing.        *)
(***************************************************************************)
EXTENDS Naturals, FiniteSets, Functions, FiniteSetsExt

CONSTANTS
  Keys,       \* the texts of keys
  Texts,      \* the texts of values
  Nodes,      \* addresses that malloc may give a node
  Blocks,     \* addresses that malloc may give a string (bounds the strings)
  HandsOver,  \* TRUE: the client forgets a string that an update kept
              \* FALSE: it goes on owning it, as EsProperties.h:107 tells it to
  Null

ASSUME NullAssumption == Null \notin Texts \cup Nodes \cup Blocks
ASSUME HandsOverAssumption == HandsOver \in BOOLEAN
ASSUME NodesAssumption == IsFiniteSet(Nodes)

VARIABLES
  exists,   \* the container was created and not freed
  head,     \* props->head
  node,     \* the allocated nodes: address -> [key, value, next]
  text,     \* the allocated strings: address -> text
  owner,    \* who is to free each allocated string: "client" or "list"
  uncopied  \* history: the keys whose value found no memory and was not put again

vars == <<exists, head, node, text, owner, uncopied>>

-----------------------------------------------------------------------------
(* Walking the list.                                                       *)

\* The node that a cursor reaches after i steps, Null once past the end.
Nth[i \in 0 .. Cardinality(Nodes)] ==
  IF i = 0 THEN head
  ELSE IF Nth[i - 1] = Null THEN Null
  ELSE node[Nth[i - 1]].next

getSize == Cardinality({i \in DOMAIN Nth : Nth[i] # Null})

\* Mutant: a node without a value is passed by.
StepsToValue(k) ==
  Min({i \in 0 .. getSize : Nth[i] = Null \/ (node[Nth[i]].key = k /\ node[Nth[i]].value # Null)})

\* Steps to the first node with the key, or to the end.
StepsTo(k) == Min({i \in 0 .. getSize : Nth[i] = Null \/ node[Nth[i]].key = k})

propertyNodeAt(k) == Nth[StepsTo(k)]
propertyNodeBeforeNodeAt(k) == IF StepsTo(k) = 0 THEN Null ELSE Nth[StepsTo(k) - 1]

atIndex(i) ==
  IF i < getSize THEN [key |-> node[Nth[i]].key, value |-> node[Nth[i]].value]
                 ELSE [key |-> Null, value |-> Null]
at(k) == IF propertyNodeAt(k) = Null THEN Null ELSE node[propertyNodeAt(k)].value
includesKey(k) == at(k) # Null
valueEquals(k, t) == at(k) # Null /\ text[at(k)] = t

-----------------------------------------------------------------------------
Init ==
  /\ exists = FALSE
  /\ head = Null
  /\ node = <<>>
  /\ text = <<>>
  /\ owner = <<>>
  /\ uncopied = {}

Drop(f, S) == Restrict(f, DOMAIN f \ S)
Extend(f, a, v) == [x \in DOMAIN f \cup {a} |-> IF x = a THEN v ELSE f[x]]

New ==
  /\ ~exists
  /\ exists' = TRUE
  /\ head' = Null
  /\ UNCHANGED <<node, text, owner, uncopied>>

\* The walk frees every value (free(NULL) does nothing) and every node.
Free ==
  LET walked == {Nth[i] : i \in 0 .. getSize} \ {Null}
      held   == {node[n].value : n \in walked} IN
  /\ exists
  /\ exists' = FALSE
  /\ head' = Null
  /\ node' = Drop(node, walked)
  /\ text' = Drop(text, held)
  /\ owner' = Drop(owner, held)
  /\ uncopied' = {}

\* The key is known: the node keeps the pointer it is given, without a copy,
\* and the value it had is forgotten.
UpdateExisting(k, b) ==
  /\ propertyNodeAt(k) # Null
  /\ node' = [node EXCEPT ![propertyNodeAt(k)].value = b]
  /\ owner' = IF HandsOver THEN [owner EXCEPT ![b] = "list"] ELSE owner
  /\ uncopied' = uncopied \ {k}
  /\ UNCHANGED <<exists, head, text>>

\* Mutant: newProperty keeps the pointer it is given.
AppendPointer(k, b) ==
  /\ propertyNodeAt(k) = Null
  /\ \E n \in Nodes \ DOMAIN node :
       LET linked == Extend(node, n, [key |-> k, value |-> b, next |-> Null]) IN
       IF head = Null
         THEN head' = n /\ node' = linked
         ELSE node' = [linked EXCEPT ![Nth[getSize - 1]].next = n] /\ UNCHANGED head
  /\ UNCHANGED <<exists, text, owner, uncopied>>

\* Mutant: the new node goes to the front.
AppendInFront(k, b) ==
  /\ propertyNodeAt(k) = Null
  /\ \E n \in Nodes \ DOMAIN node, c \in Blocks \ DOMAIN text :
       /\ node' = Extend(node, n, [key |-> k, value |-> c, next |-> head])
       /\ head' = n
       /\ text' = Extend(text, c, text[b])
       /\ owner' = Extend(owner, c, "list")
  /\ UNCHANGED <<exists, uncopied>>

\* The key is new: newProperty makes a node with a copy of the value, which
\* is Null when strdup finds no memory, and the node goes to the end.
AppendNew(k, b) ==
  /\ propertyNodeAt(k) = Null
  /\ \E n \in Nodes \ DOMAIN node, c \in (Blocks \ DOMAIN text) \cup {Null} :
       LET linked == Extend(node, n, [key |-> k, value |-> c, next |-> Null]) IN
       /\ IF head = Null
            THEN head' = n /\ node' = linked
            ELSE /\ node' = [linked EXCEPT ![Nth[getSize - 1]].next = n]
                 /\ UNCHANGED head
       /\ IF c = Null
            THEN uncopied' = uncopied \cup {k} /\ UNCHANGED <<text, owner>>
            ELSE /\ text' = Extend(text, c, text[b])
                 /\ owner' = Extend(owner, c, "list")
                 /\ UNCHANGED uncopied
  /\ UNCHANGED exists

\* newProperty finds no memory for the node: NULL is linked, nothing changes.
AtPut(k, b) ==
  /\ exists
  /\ b \in DOMAIN text /\ owner[b] = "client"
  /\ UpdateExisting(k, b) \/ AppendNew(k, b)

\* Mutant: the node is freed without being unlinked.
RemoveWithoutUnlink(k) ==
  /\ exists
  /\ propertyNodeAt(k) # Null
  /\ node' = Drop(node, {propertyNodeAt(k)})
  /\ UNCHANGED <<exists, head, text, owner, uncopied>>

\* Mutant: next is reset before it is used, so the rest of the list is lost.
RemoveLosesRest(k) ==
  LET n == propertyNodeAt(k)
      before == propertyNodeBeforeNodeAt(k) IN
  /\ exists
  /\ n # Null
  /\ IF before # Null
       THEN /\ node' = Drop([node EXCEPT ![before].next = Null], {n})
            /\ UNCHANGED head
       ELSE head' = Null /\ node' = Drop(node, {n})
  /\ uncopied' = uncopied \ {k}
  /\ UNCHANGED <<exists, text, owner>>

\* The node is unlinked and freed; its value is the client's from now on.
RemoveKey(k) ==
  LET n == propertyNodeAt(k)
      before == propertyNodeBeforeNodeAt(k) IN
  /\ exists
  /\ n # Null
  /\ IF before # Null
       THEN /\ node' = Drop([node EXCEPT ![before].next = node[n].next], {n})
            /\ UNCHANGED head
       ELSE head' = node[n].next /\ node' = Drop(node, {n})
  /\ owner' = IF node[n].value \in DOMAIN owner
                THEN [owner EXCEPT ![node[n].value] = "client"] ELSE owner
  /\ uncopied' = uncopied \ {k}
  /\ UNCHANGED <<exists, text>>

\* External: the client makes a string, writes in it again, and frees it.
ClientMakes(b, t) ==
  /\ b \notin DOMAIN text
  /\ text' = Extend(text, b, t)
  /\ owner' = Extend(owner, b, "client")
  /\ UNCHANGED <<exists, head, node, uncopied>>

ClientWrites(b, t) ==
  /\ b \in DOMAIN text /\ owner[b] = "client"
  /\ text' = [text EXCEPT ![b] = t]
  /\ UNCHANGED <<exists, head, node, owner, uncopied>>

ClientFrees(b) ==
  /\ b \in DOMAIN text /\ owner[b] = "client"
  /\ text' = Drop(text, {b})
  /\ owner' = Drop(owner, {b})
  /\ UNCHANGED <<exists, head, node, uncopied>>

Next ==
  \/ New
  \/ Free
  \/ \E k \in Keys, b \in Blocks : AtPut(k, b)
  \/ \E k \in Keys : RemoveKey(k)
  \/ \E b \in Blocks, t \in Texts : ClientMakes(b, t) \/ ClientWrites(b, t)
  \/ \E b \in Blocks : ClientFrees(b)

Spec == Init /\ [][Next]_vars

-----------------------------------------------------------------------------
(* Properties.                                                             *)

\* Types: the list is made of allocated nodes, whatever their values.
TypeOK ==
  /\ exists \in BOOLEAN
  /\ head \in DOMAIN node \cup {Null}
  /\ DOMAIN node \subseteq Nodes
  /\ \A n \in DOMAIN node :
       node[n] \in [key : Keys, value : Blocks \cup {Null},
                    next : DOMAIN node \cup {Null}]
  /\ DOMAIN text \subseteq Blocks
  /\ \A b \in DOMAIN text : text[b] \in Texts
  /\ DOMAIN owner = DOMAIN text
  /\ \A b \in DOMAIN owner : owner[b] \in {"client", "list"}
  /\ uncopied \subseteq Keys

\* Unlinking and appending lose no node and make no cycle: the walk from the
\* head meets every allocated node once, so EsProperties_free frees them all
\* and no loop over the list fails to end.
EveryNodeOnTheList ==
  /\ {Nth[i] : i \in 0 .. getSize} \ {Null} = DOMAIN node
  /\ getSize = Cardinality(DOMAIN node)
  /\ Nth[getSize] = Null

\* When the client forgets what an update kept, every value on the list is
\* allocated, belongs to the list and is there once: EsProperties_free frees
\* each value once and EsProperties_at never answers freed memory.
EachValueFreedOnce ==
  LET valued == {n \in DOMAIN node : node[n].value # Null} IN
  /\ \A n \in valued : /\ node[n].value \in DOMAIN text
                       /\ owner[node[n].value] = "list"
  /\ \A m, n \in valued : node[m].value = node[n].value => m = n

\* The map and the sequence interface of the header tell the same story but for
\* the keys whose value was not copied for want of memory: each listed key stands
\* at one index and at answers the value listed there, the index past the last
\* has no pair, and includesKey is TRUE of the listed keys, but FALSE, although
\* "key exists" (EsProperties.h:115-118), of each that strdup failed for, until
\* its next atPut, which takes it for a known key.
ViewsAgree ==
  LET listed == {atIndex(i).key : i \in 0 .. getSize - 1} IN
  /\ Cardinality(listed) = getSize
  /\ \A i \in 0 .. getSize - 1 : at(atIndex(i).key) = atIndex(i).value
  /\ \A k \in Keys : includesKey(k) <=> k \in listed \ uncopied
  /\ uncopied \subseteq listed
  /\ atIndex(getSize).key = Null

\* EsProperties.h:107 and 110: the value is copied internally, so that no
\* string of the client is on the list, and the client may free it.
ValuesAreCopies ==
  \A n \in DOMAIN node :
    node[n].value # Null =>
      node[n].value \in DOMAIN text /\ owner[node[n].value] = "list"

TextOf(v) == IF v = Null THEN Null ELSE text[v]

\* The pairs of the list, without their addresses.
entries == [i \in 1 .. getSize |-> [key |-> atIndex(i - 1).key,
                                    text |-> TextOf(atIndex(i - 1).value)]]

Map == INSTANCE PropertyMap

\* The list is the ordered map of the header: nodes, blocks and what the
\* client does with its own strings are invisible.
ImplementsPropertyMap == Map!Spec
=============================================================================
