---------------------------- MODULE MCRaftRestart ----------------------------
(* Model checking Raft with crashes. *)
EXTENDS RaftRestart, TLC

\* The servers whose election timer fires in a run, and those that may crash.
CONSTANTS Electable, Crashing

\* As in MCRaft: only the bounds stop the system.
BoundReached ==
  /\ \A n \in Server : state[n] # Leader /\ electionTerm[n] = 0
  /\ \A n \in Electable : currentTerm[n] = MaxTerm
  /\ UNCHANGED <<vars, restarts>>

\* Every server that stands for election has had its last one.
ElectionsOver == \A n \in Electable : currentTerm[n] = MaxTerm /\ electionTerm[n] = 0

\* A voter that crashes before the elections are over can elect two leaders of one
\* term; what follows them is checked with crashes after them.
MCNext ==
  \/ Next /\ UNCHANGED restarts /\ \A n \in Server \ Electable : state'[n] # Candidate
  \/ \E n \in Crashing : ElectionsOver /\ Restart(n)
  \/ BoundReached
MCSpec == RestartInit /\ [][MCNext]_<<vars, restarts>>

MCFairSpec == MCSpec /\ \A n \in Electable : Fairness(n)
=============================================================================
