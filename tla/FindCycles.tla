----------------------------- MODULE FindCycles -----------------------------
(***************************************************************************)
(* The depth-first search of LockManager._find_cycles, one step per turn   *)
(* of its loops.  `path' is the call stack of dfs: the client of each call *)
(* and the neighbours its loop has yet to see.  The order in which a set   *)
(* is iterated is arbitrary.                                               *)
(*                                                                         *)
(* MaxDepth is the number of nested calls the interpreter allows.  One     *)
(* more raises RecursionError, which ends the search, and the detection    *)
(* loop with it: no step is taken any more.                                *)
(***************************************************************************)
EXTENDS WaitForGraph

CONSTANT MaxDepth

ASSUME DepthAssumption == MaxDepth \in Nat \ {0}

VARIABLES
  graph,     \* _wait_for
  path,      \* path, with what is left of each call's loop
  visited,   \* visited
  cycles     \* cycles

searchVars == <<graph, path, visited, cycles>>

SearchInit ==
  /\ graph \in Graphs
  /\ path = <<>>
  /\ visited = {}
  /\ cycles = {}

Enter(c) ==
  /\ path' = Append(path, [client |-> c, left |-> graph[c]])
  /\ visited' = visited \cup {c}

\* The outer loop: a client not seen yet.  Those that wait for nobody are no keys
\* of _wait_for and make no difference.
Root(c) ==
  /\ path = <<>>
  /\ c \notin visited
  /\ Enter(c)
  /\ UNCHANGED <<graph, cycles>>

Top == path[Len(path)]
Clients(p) == [i \in 1..Len(p) |-> p[i].client]

\* The loop of the innermost call is done with nb.
Seen(nb) == [path EXCEPT ![Len(path)].left = @ \ {nb}]

OnPath(nb) == \E i \in 1..Len(path) : path[i].client = nb

\* a call does not mark its client
BugDescend(nb) ==
  /\ nb \notin visited
  /\ Len(path) < MaxDepth
  /\ path' = Append(Seen(nb), [client |-> nb, left |-> graph[nb]])
  /\ UNCHANGED <<visited, cycles>>

Descend(nb) ==
  /\ nb \notin visited
  /\ Len(path) < MaxDepth
  /\ path' = Append(Seen(nb), [client |-> nb, left |-> graph[nb]])
  /\ visited' = visited \cup {nb}
  /\ UNCHANGED cycles

\* the whole path is reported, not its part from nb on
BugClose(nb) ==
  /\ nb \in visited
  /\ OnPath(nb)
  /\ cycles' = cycles \cup {Clients(path)}
  /\ path' = Seen(nb)
  /\ UNCHANGED visited

Close(nb) ==
  /\ nb \in visited
  /\ OnPath(nb)
  /\ LET start == CHOOSE i \in 1..Len(path) : path[i].client = nb
     IN cycles' = cycles \cup {SubSeq(Clients(path), start, Len(path))}
  /\ path' = Seen(nb)
  /\ UNCHANGED visited

Pass(nb) ==
  /\ nb \in visited
  /\ ~OnPath(nb)
  /\ path' = Seen(nb)
  /\ UNCHANGED <<visited, cycles>>

Neighbour ==
  /\ path # <<>>
  /\ \E nb \in Top.left : Descend(nb) \/ Close(nb) \/ Pass(nb)
  /\ UNCHANGED graph

Return ==
  /\ path # <<>>
  /\ Top.left = {}
  /\ path' = SubSeq(path, 1, Len(path) - 1)
  /\ UNCHANGED <<graph, visited, cycles>>

SearchNext == (\E c \in Client : Root(c)) \/ Neighbour \/ Return

\* A call of _find_cycles runs to its end.
SearchSpec == SearchInit /\ [][SearchNext]_searchVars /\ WF_searchVars(SearchNext)

-----------------------------------------------------------------------------
Done == path = <<>> /\ visited = Client

\* At its end the search has reported what Reports allows, whatever the graph and
\* the order of iteration: only real cycles, and a graph with a deadlock in it is
\* never taken for one without (_find_cycles).
SearchReports == Done => Reports(graph, cycles)

\* A search that has begun ends, cycles or not, wherever a call's loop goes next: no
\* client is entered twice, and the path is no deeper than there are clients (dfs).
SearchEnds == path # <<>> ~> Done
=============================================================================
