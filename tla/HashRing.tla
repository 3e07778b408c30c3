------------------------------ MODULE HashRing ------------------------------
(***************************************************************************)
(* ConsistentHashRing of src/src/nodes/queue_node.py: a sorted list of     *)
(* positions, the node each belongs to, and the look-up of a key's owner.  *)
(*                                                                         *)
(* The hash is a function without collisions (MD5) into 0..MaxHash, any    *)
(* such function.  A node may be added twice: the ids a QueueNode takes    *)
(* from the URLs of its peers need not differ.  MaxRing bounds the list.   *)
(***************************************************************************)
EXTENDS Integers, Sequences, SequencesExt, FiniteSets

CONSTANTS RingNode, VirtualNodes, MaxHash, MaxRing, NoNode

ASSUME RingAssumption ==
  /\ VirtualNodes \in Nat \ {0}
  /\ MaxHash \in Nat
  /\ MaxRing \in Nat
  /\ NoNode \notin RingNode

VARIABLES
  position,  \* _hash of a node's i-th virtual node
  ring,      \* _ring, sorted
  owner,     \* _map, NoNode where it has no key
  adds       \* how often each node was added since it was last removed

ringVars == <<position, ring, owner, adds>>

Hashes == 0..MaxHash
Virtual == RingNode \X (1..VirtualNodes)

RingInit ==
  /\ position \in [Virtual -> Hashes]
  /\ \A v, w \in Virtual : position[v] = position[w] => v = w
  /\ ring = <<>>
  /\ owner = [h \in Hashes |-> NoNode]
  /\ adds = [n \in RingNode |-> 0]

PositionsOf(n) == {position[<<n, i>>] : i \in 1..VirtualNodes}

\* How many of the sorted list are less than h: bisect_left
Below(list, h) == Cardinality({i \in 1..Len(list) : list[i] < h})

Insort(list, h) == InsertAt(list, Below(list, h) + 1, h)

\* list.remove
Without(list, h) == RemoveAt(list, Below(list, h) + 1)

\* The list after the loop of add_node, and after that of remove_node, of n
Inserted(n) ==
  LET list[i \in 0..VirtualNodes] ==
        IF i = 0 THEN ring ELSE Insort(list[i - 1], position[<<n, i>>])
  IN list[VirtualNodes]

Removed(n) ==
  LET list[i \in 0..VirtualNodes] ==
        IF i = 0 THEN ring ELSE Without(list[i - 1], position[<<n, i>>])
  IN list[VirtualNodes]

\* add_node
AddNode(n) ==
  /\ Len(ring) + VirtualNodes <= MaxRing
  /\ adds' = [adds EXCEPT ![n] = @ + 1]
  /\ ring' = Inserted(n)
  /\ owner' = [h \in Hashes |-> IF h \in PositionsOf(n) THEN n ELSE owner[h]]
  /\ UNCHANGED position

\* the first virtual node only
BugRemoveNode(n) ==
  /\ owner[position[<<n, 1>>]] # NoNode
  /\ adds' = [adds EXCEPT ![n] = 0]
  /\ ring' = Without(ring, position[<<n, 1>>])
  /\ owner' = [owner EXCEPT ![position[<<n, 1>>]] = NoNode]
  /\ UNCHANGED position

\* remove_node of a node that is on the ring.  Of a position that is there twice it
\* leaves one.
RemoveNode(n) ==
  /\ \E h \in PositionsOf(n) : owner[h] # NoNode
  /\ adds' = [adds EXCEPT ![n] = 0]
  /\ ring' = Removed(n)
  /\ owner' = [h \in Hashes |-> IF h \in PositionsOf(n) THEN NoNode ELSE owner[h]]
  /\ UNCHANGED position

\* get_node of a key with hash h, NoNode if there is none
GetNode(list, map, h) ==
  IF list = <<>> THEN NoNode
  ELSE map[list[IF Below(list, h) = Len(list) THEN 1 ELSE Below(list, h) + 1]]

RingNext == \E n \in RingNode : AddNode(n) \/ RemoveNode(n)

RingSpec == RingInit /\ [][RingNext]_ringVars

-----------------------------------------------------------------------------
(* Properties *)

OnRing == {n \in RingNode : adds[n] > 0}
Points == UNION {PositionsOf(n) : n \in OnRing}

\* The owner of a key by definition: who has the first position at or after it, going
\* round
Successor(h) ==
  LET after == {x \in Points : x >= h}
      least(S) == CHOOSE x \in S : \A y \in S : x <= y
      at == IF after # {} THEN least(after) ELSE least(Points)
  IN CHOOSE n \in OnRing : at \in PositionsOf(n)

\* remove_node of a node that was added twice left positions that belong to nobody.
Spoilt == \E i \in 1..Len(ring) : owner[ring[i]] = NoNode

\* The owner of every key is the clockwise next of the nodes on the ring, whichever
\* were added and removed in whichever order: nodes that know the same peers agree
\* on it, added twice or not (add_node, remove_node, get_node).
OwnerIsSuccessor ==
  Points # {} /\ ~Spoilt => \A h \in Hashes : GetNode(ring, owner, h) = Successor(h)

\* Consistency: when a node comes or goes, keys move to it or from it only (add_node,
\* remove_node).  It follows from OwnerIsSuccessor and is proved from it, not run.
OnlyItsKeysMove ==
  [][\A n \in RingNode : \A h \in Hashes :
       ~Spoilt /\ ~Spoilt' /\ OnRing # {} /\ OnRing' # {} /\ adds'[n] # adds[n] =>
         \/ GetNode(ring, owner, h)' = GetNode(ring, owner, h)
         \/ n \in {GetNode(ring, owner, h), GetNode(ring, owner, h)'}]_ringVars
=============================================================================
