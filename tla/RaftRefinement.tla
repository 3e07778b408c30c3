--------------------------- MODULE RaftRefinement ---------------------------
(***************************************************************************)
(* Raft implements ReplicatedLog: what the servers know to be committed    *)
(* behaves like prefixes of one growing sequence.                          *)
(***************************************************************************)
EXTENDS Raft

\* The longest prefix any server knows to be committed.
LongestCommitted ==
  Committed(CHOOSE n \in Server : \A s \in Server : commitIndex[s] <= commitIndex[n])

RL == INSTANCE ReplicatedLog WITH
        Value <- [term: 1..MaxTerm, command: Command],
        MaxLen <- MaxLog,
        chosen <- LongestCommitted,
        replica <- [n \in Server |-> Committed(n)]

\* A committed entry is never lost, replaced or reordered on any server; what a new
\* leader commits comes after everything committed before it, whether it had heard
\* of that or not (_advance_commit_index, handle_append_entries).
ImplementsReplicatedLog == RL!RLSpec
=============================================================================
