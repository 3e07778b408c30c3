---------------------------- MODULE WaitForGraph ----------------------------
(***************************************************************************)
(* What LockManager._find_cycles can report of a wait-for graph.  A graph  *)
(* maps each client to the clients it waits for; a cycle is the path the   *)
(* search was on, and the edge that closed it leads from its last client   *)
(* back to its first.                                                      *)
(***************************************************************************)
EXTENDS Integers, Sequences, FiniteSets

CONSTANT Client

\* The clients of a wait-for graph, which is a dict
ASSUME ClientAssumption == IsFiniteSet(Client)

Graphs == [Client -> SUBSET Client]

\* The client after the i-th one on a cycle p
After(p, i) == IF i = Len(p) THEN p[1] ELSE p[i + 1]

Members(p) == {p[i] : i \in 1..Len(p)}
Edges(p) == {<<p[i], After(p, i)>> : i \in 1..Len(p)}
Closing(p) == <<p[Len(p)], p[1]>>

Paths == UNION {[1..k -> Client] : k \in 1..Cardinality(Client)}

IsCycle(g, p) ==
  /\ \A i, j \in 1..Len(p) : p[i] = p[j] => i = j
  /\ \A e \in Edges(p) : e[2] \in g[e[1]]

Cycles(g) == {p \in Paths : IsCycle(g, p)}

\* A depth-first search reports cycles only, none twice, and at least enough of
\* them to break: without the edges that closed those the graph is acyclic.
Reports(g, found) ==
  /\ found \subseteq Cycles(g)
  /\ \A p, q \in found : Members(p) = Members(q) => p = q
  /\ \A p \in Cycles(g) : \E q \in found : Closing(q) \in Edges(p)
=============================================================================
