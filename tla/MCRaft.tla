------------------------------- MODULE MCRaft -------------------------------
(* Model checking Raft: small constants, symmetry, and the end of the bounds. *)
EXTENDS RaftRefinement, TLC

\* The servers whose election timer fires in a run.
CONSTANT Electable

Symmetry == Permutations(Electable) \cup Permutations(Server \ Electable)

\* What no later step reads is left out of the fingerprint: next_index and
\* match_index of a server that does not lead (_become_leader resets both), the
\* replies of a vote round that is already stale, and a vote request that has
\* been answered.
MCView ==
  <<currentTerm, votedFor, state, log, commitIndex, electionTerm, replicating, late,
    [n \in Server |-> IF state[n] = Leader THEN <<nextIndex[n], matchIndex[n]>> ELSE <<>>],
    [n \in Server |-> [p \in Server |->
       IF reply[n][p] = Nil THEN <<request[n][p]>>
       ELSE IF replicating[n] THEN <<request[n][p], reply[n][p]>>
       ELSE IF VotesAreStale(n) THEN <<>>
       ELSE <<Nil, reply[n][p]>>]]>>

\* The bound on terms is reached, nobody leads and nothing is under way: only
\* the bounds stop the system here, so it may stutter.
BoundReached ==
  /\ \A n \in Server : state[n] # Leader /\ electionTerm[n] = 0
  /\ \A n \in Electable : currentTerm[n] = MaxTerm
  /\ UNCHANGED vars

MCNext ==
  \/ Next /\ \A n \in Server \ Electable : state'[n] # Candidate
  \/ BoundReached
MCSpec == Init /\ [][MCNext]_vars
=============================================================================
