---------------------------- MODULE MCRaftService ----------------------------
(* Model checking RaftService. *)
EXTENDS RaftService, TLC

\* Two servers whose election timer fires in a run, in turn: Odd stands in terms 1 and
\* 3, Even in 2 and 4.
CONSTANTS Odd, Even

MayStand(n) == currentTerm[n] < MaxTerm /\ n = IF currentTerm[n] % 2 = 0 THEN Odd ELSE Even

\* As in MCRaft: what no later step reads.
MCView ==
  <<currentTerm, votedFor, state, log, commitIndex, electionTerm, replicating, late, serviceVars,
    [n \in Server |-> IF state[n] = Leader THEN <<nextIndex[n], matchIndex[n]>> ELSE <<>>],
    [n \in Server |-> [p \in Server |->
       IF reply[n][p] = Nil THEN <<request[n][p]>>
       ELSE IF replicating[n] THEN <<request[n][p], reply[n][p]>>
       ELSE IF VotesAreStale(n) THEN <<>>
       ELSE <<Nil, reply[n][p]>>]]>>

BoundReached ==
  /\ \A n \in Server : state[n] # Leader /\ electionTerm[n] = 0
  /\ \A n \in Server : ~MayStand(n)
  /\ UNCHANGED allVars

MCNext ==
  \/ ServiceNext /\ \A n \in Server : electionTerm'[n] \in {electionTerm[n], 0} \/ MayStand(n)
  \/ BoundReached
MCSpec == ServiceInit /\ [][MCNext]_allVars

-----------------------------------------------------------------------------
(* What else the code or its documents say and the code does not do.  No run     *)
(* checks these; the README says with which constants TLC refutes each.          *)

\* No client of a server is left waiting for a command that this server knows to
\* be committed (docstring of append_command).
CommittedIsAnswered ==
  \A n \in Server : \A i \in Indices :
    i <= commitIndex[n] /\ pending[n][i] # Nil => At(log[n], i) # pending[n][i]
=============================================================================
