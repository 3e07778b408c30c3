----------------------------- MODULE RaftRestart -----------------------------
(***************************************************************************)
(* Raft when servers crash and are started again (docker-compose restarts  *)
(* every node unless it was stopped).  RaftNode writes nothing to disk:    *)
(* what the class calls persistent is made anew by __init__.               *)
(*                                                                         *)
(* The calls of a crashed server end with it: a request already on its way *)
(* may still be handled.  A call made to it is lost, or reaches the server *)
(* after the restart.  MaxRestarts bounds the crashes of a behaviour.      *)
(***************************************************************************)
EXTENDS Raft

CONSTANT MaxRestarts

VARIABLE restarts   \* crashes so far

RestartInit == Init /\ restarts = 0

\* The process dies and __init__ runs again.
Restart(n) ==
  /\ restarts < MaxRestarts
  /\ restarts' = restarts + 1
  /\ currentTerm' = [currentTerm EXCEPT ![n] = 0]
  /\ votedFor' = [votedFor EXCEPT ![n] = Nil]
  /\ state' = [state EXCEPT ![n] = Follower]
  /\ log' = [log EXCEPT ![n] = <<>>]
  /\ commitIndex' = [commitIndex EXCEPT ![n] = -1]
  /\ nextIndex' = [nextIndex EXCEPT ![n] = [p \in Server |-> 0]]
  /\ matchIndex' = [matchIndex EXCEPT ![n] = [p \in Server |-> -1]]
  /\ electionTerm' = [electionTerm EXCEPT ![n] = 0]
  /\ replicating' = [replicating EXCEPT ![n] = FALSE]
  /\ request' = [request EXCEPT ![n] = NoCalls]
  /\ reply' = [reply EXCEPT ![n] = NoCalls]
  /\ GiveUp(n, late)

RestartNext ==
  \/ Next /\ UNCHANGED restarts
  \/ \E n \in Server : Restart(n)

RestartSpec == RestartInit /\ [][RestartNext]_<<vars, restarts>>
=============================================================================
