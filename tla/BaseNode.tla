------------------------------ MODULE BaseNode ------------------------------
(***************************************************************************)
(* src/src/nodes/base_node.py: a node that starts its parts one after the  *)
(* other, pings its peers through one HTTP session while it runs, and      *)
(* stops the parts in another order; and the process it lives in, which    *)
(* may crash at any moment and start afresh.  Peers come and go.           *)
(*                                                                         *)
(* start() and stop() suspend between their steps, so the parts that run   *)
(* already or still go on meanwhile.                                       *)
(***************************************************************************)
EXTENDS FailureDetector

VARIABLES
  pc,        \* the next step of start() or stop(), or where the node rests
  session,   \* the session of MessagePassing is open
  raft,      \* the tasks of RaftNode run
  hook,      \* what _on_start started runs
  up         \* the peers that serve requests

partVars == <<session, raft, hook>>
nodeVars == <<detectorVars, pc, partVars, up>>

NodeInit ==
  /\ DetectorInit
  /\ pc = "down"
  /\ session = FALSE
  /\ raft = FALSE
  /\ hook = FALSE
  /\ up = Peer

\* main.startup calls start().
Boot ==
  /\ pc = "down"
  /\ pc' = "start mp"
  /\ UNCHANGED <<detectorVars, partVars, up>>

From(a, b) == pc = a /\ pc' = b

\* start()
StartStep ==
  \/ /\ From("start mp", "start raft")
     /\ session' = TRUE
     /\ UNCHANGED <<detectorVars, raft, hook>>
  \/ /\ From("start raft", "start detector")
     /\ raft' = TRUE
     /\ UNCHANGED <<detectorVars, session, hook>>
  \/ /\ From("start detector", "on_start")
     /\ StartDetector
     /\ UNCHANGED partVars
  \/ /\ From("on_start", "started")
     /\ hook' = TRUE
     /\ UNCHANGED <<detectorVars, session, raft>>

\* main.cleanup calls stop().
Shutdown ==
  /\ From("started", "stop detector")
  /\ UNCHANGED <<detectorVars, partVars, up>>

\* the session is closed first
BugStopStep ==
  \/ /\ From("stop detector", "stop mp")
     /\ session' = FALSE
     /\ UNCHANGED <<detectorVars, raft, hook>>
  \/ /\ From("stop mp", "stop raft")
     /\ StopDetector
     /\ UNCHANGED partVars
  \/ /\ From("stop raft", "on_stop")
     /\ raft' = FALSE
     /\ UNCHANGED <<detectorVars, session, hook>>
  \/ /\ From("on_stop", "stopped")
     /\ hook' = FALSE
     /\ UNCHANGED <<detectorVars, session, raft>>

\* stop()
StopStep ==
  \/ /\ From("stop detector", "stop raft")
     /\ StopDetector
     /\ UNCHANGED partVars
  \/ /\ From("stop raft", "stop mp")
     /\ raft' = FALSE
     /\ UNCHANGED <<detectorVars, session, hook>>
  \/ /\ From("stop mp", "on_stop")
     /\ session' = FALSE
     /\ UNCHANGED <<detectorVars, raft, hook>>
  \/ /\ From("on_stop", "stopped")
     /\ hook' = FALSE
     /\ UNCHANGED <<detectorVars, session, raft>>

\* The process ends, of itself or not, and everything in it.
Exit ==
  /\ pc # "down"
  /\ pc' = "down"
  /\ running' = FALSE
  /\ probe' = [p \in Peer |-> "none"]
  /\ misses' = [p \in Peer |-> 0]
  /\ status' = [p \in Peer |-> Alive]
  /\ notices' = <<>>
  /\ told' = [p \in Peer |-> Recover]
  /\ silent' = [p \in Peer |-> 0]
  /\ session' = FALSE
  /\ raft' = FALSE
  /\ hook' = FALSE
  /\ UNCHANGED up

\* _ping_peer: the peer answers in time, if it is up, ...
PingAnswered(p) ==
  /\ session
  /\ p \in up
  /\ PingEnds(p, TRUE)
  /\ UNCHANGED <<pc, partVars, up>>

\* ... or not: it is down or slow, or there is no session to send with.
PingFailed(p) ==
  /\ PingEnds(p, FALSE)
  /\ UNCHANGED <<pc, partVars, up>>

\* The rest of the detector.  News of a peer come from a peer that is up.
DetectorStep ==
  /\ \/ Round
     \/ RunNotice
     \/ \E p \in Peer : ProbeStep(p)
     \/ \E p \in up : RecordAlive(p)
  /\ UNCHANGED <<pc, partVars, up>>

PeerChanges ==
  /\ \E p \in Peer : up' = IF p \in up THEN up \ {p} ELSE up \cup {p}
  /\ UNCHANGED <<detectorVars, pc, partVars>>

NodeNext ==
  \/ Boot \/ Shutdown \/ Exit \/ PeerChanges
  \/ (StartStep \/ StopStep) /\ UNCHANGED up
  \/ DetectorStep
  \/ \E p \in Peer : PingAnswered(p) \/ PingFailed(p)

NodeSpec == NodeInit /\ [][NodeNext]_nodeVars

\* The event loop runs on: sleeps end, pings end (send has a timeout), tasks are
\* resumed.  A peer that is up answers some of the pings that keep coming.
NodeFairness ==
  /\ WF_nodeVars(Round /\ UNCHANGED <<pc, partVars, up>>)
  /\ WF_nodeVars(RunNotice /\ UNCHANGED <<pc, partVars, up>>)
  /\ \A p \in Peer :
       /\ WF_nodeVars(PingAnswered(p) \/ PingFailed(p))
       /\ WF_nodeVars(ProbeStep(p) /\ UNCHANGED <<pc, partVars, up>>)
       /\ SF_nodeVars(PingAnswered(p))

-----------------------------------------------------------------------------
(* Properties *)

\* Every variable keeps the shape the code gives it.
NodeTypeOK ==
  /\ DetectorTypeOK
  /\ pc \in {"down", "start mp", "start raft", "start detector", "on_start", "started",
             "stop detector", "stop raft", "stop mp", "on_stop", "stopped"}
  /\ {session, raft, hook} \subseteq BOOLEAN
  /\ up \subseteq Peer

\* No ping is out without a session to carry it: the node's own start and stop are
\* never taken for the silence of its peers (start, stop).
PingsHaveSession ==
  \A p \in Peer : probe[p] # "none" => session

\* A peer that stays down is presumed dead for good, and a suspicion was reported
\* last, unless the node itself goes down (_heartbeat_loop).
DeathsAreSeen ==
  \A p \in Peer :
    <>[](running /\ p \notin up) => <>[](status[p] = Gone /\ told[p] = Suspect)

\* A peer that stays up is found alive again and again, and reported so, however
\* often its answers come late ("Recovery is immediate on the first successful
\* response").
RecoveriesAreSeen ==
  \A p \in Peer :
    <>[](running /\ p \in up) => []<>(status[p] = Alive /\ told[p] = Recover)
=============================================================================
