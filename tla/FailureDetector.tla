--------------------------- MODULE FailureDetector ---------------------------
(***************************************************************************)
(* src/src/communication/failure_detector.py: rounds of probes, one per    *)
(* peer, that are sent together and end in any order, and the status of    *)
(* each peer that follows from the probes it missed.                       *)
(*                                                                         *)
(* A probe suspends once, in its ping: it is sent, the ping has a result,  *)
(* and later the coroutine resumes and uses it.  record_alive may come in  *)
(* between.  Callbacks are tasks of their own, started in the order in     *)
(* which they were created.                                                *)
(*                                                                         *)
(* Misses are counted no further than DeadThreshold: nothing tells larger  *)
(* counts apart.                                                           *)
(***************************************************************************)
EXTENDS Integers, Sequences, FiniteSets

CONSTANTS Peer, SuspectThreshold, DeadThreshold

\* the defaults of __init__ are 3 and 6
ASSUME ThresholdAssumption ==
  /\ SuspectThreshold \in Nat \ {0}
  /\ DeadThreshold \in Nat
  /\ SuspectThreshold < DeadThreshold

VARIABLES
  running,  \* the task of _heartbeat_loop has been started and not been cancelled
  probe,    \* what the _probe of each peer is doing
  misses,   \* _miss_counts
  status,   \* _status
  notices,  \* the tasks of _on_suspect and _on_recover that have yet to run
  told,     \* the callback that ran last for each peer
  silent    \* history: probes of the peer sent and failed since its last sign of
            \* life; -1 if that came while a probe was out

detectorVars == <<running, probe, misses, status, notices, told, silent>>

Alive == "alive"
Suspected == "suspected"
Gone == "dead"

Suspect == "suspect"
Recover == "recover"

Notice == [peer : Peer, call : {Suspect, Recover}]

DetectorInit ==
  /\ running = FALSE
  /\ probe = [p \in Peer |-> "none"]
  /\ misses = [p \in Peer |-> 0]
  /\ status = [p \in Peer |-> Alive]
  /\ notices = <<>>
  /\ told = [p \in Peer |-> Recover]
  /\ silent = [p \in Peer |-> 0]

StartDetector ==
  /\ running' = TRUE
  /\ UNCHANGED <<probe, misses, status, notices, told, silent>>

\* The loop and the probes it awaits are cancelled; callbacks are not.
StopDetector ==
  /\ running' = FALSE
  /\ probe' = [p \in Peer |-> "none"]
  /\ UNCHANGED <<misses, status, notices, told, silent>>

\* the dead are left alone
BugRound ==
  /\ running
  /\ \A p \in Peer : probe[p] = "none"
  /\ notices = <<>>
  /\ probe' = [p \in Peer |-> IF status[p] = Gone THEN "none" ELSE "sent"]
  /\ UNCHANGED <<running, misses, status, notices, told, silent>>

\* The next round begins when every probe of the last one has ended.  Callbacks
\* created before the sleep run before its end.
Round ==
  /\ running
  /\ \A p \in Peer : probe[p] = "none"
  /\ notices = <<>>
  /\ probe' = [p \in Peer |-> "sent"]
  /\ UNCHANGED <<running, misses, status, notices, told, silent>>

\* The ping has its result.
PingEnds(p, alive) ==
  /\ probe[p] = "sent"
  /\ probe' = [probe EXCEPT ![p] = IF alive THEN "answered" ELSE "failed"]
  /\ UNCHANGED <<running, misses, status, notices, told, silent>>

\* a peer presumed dead is suspected all the same
BugStatusAfter(n) ==
  IF n >= SuspectThreshold THEN Suspected ELSE IF n >= DeadThreshold THEN Gone ELSE Alive
StatusAfter(n) ==
  IF n >= DeadThreshold THEN Gone ELSE IF n >= SuspectThreshold THEN Suspected ELSE Alive

Missed(n) == IF n < DeadThreshold THEN n + 1 ELSE n

Notify(p, calls) == notices' = notices \o [i \in 1..Len(calls) |-> [peer |-> p, call |-> calls[i]]]

\* every change to anything but ALIVE is reported
BugProbeMissed(p) ==
  /\ probe[p] = "failed"
  /\ probe' = [probe EXCEPT ![p] = "none"]
  /\ misses' = [misses EXCEPT ![p] = Missed(@)]
  /\ silent' = [silent EXCEPT ![p] = Missed(@)]
  /\ status' = [status EXCEPT ![p] = StatusAfter(misses'[p])]
  /\ Notify(p, IF status'[p] # status[p] THEN <<Suspect>> ELSE <<>>)
  /\ UNCHANGED <<running, told>>

\* _probe resumes after a ping that brought nothing.
ProbeMissed(p) ==
  /\ probe[p] = "failed"
  /\ probe' = [probe EXCEPT ![p] = "none"]
  /\ misses' = [misses EXCEPT ![p] = Missed(@)]
  /\ silent' = [silent EXCEPT ![p] = Missed(@)]
  /\ status' = [status EXCEPT ![p] = StatusAfter(misses'[p])]
  /\ Notify(p, IF status'[p] = Suspected /\ status[p] # Suspected THEN <<Suspect>> ELSE <<>>)
  /\ UNCHANGED <<running, told>>

\* one sign of life makes up for one miss
BugRevived(p) ==
  /\ misses' = [misses EXCEPT ![p] = @ - 1]
  /\ status' = [status EXCEPT ![p] = Alive]
  /\ Notify(p, IF status[p] # Alive THEN <<Recover>> ELSE <<>>)
Revived(p) ==
  /\ misses' = [misses EXCEPT ![p] = 0]
  /\ status' = [status EXCEPT ![p] = Alive]
  /\ Notify(p, IF status[p] # Alive THEN <<Recover>> ELSE <<>>)

\* the misses are left as they are
BugProbeAnswered(p) ==
  /\ probe[p] = "answered"
  /\ probe' = [probe EXCEPT ![p] = "none"]
  /\ silent' = [silent EXCEPT ![p] = 0]
  /\ status' = [status EXCEPT ![p] = Alive]
  /\ Notify(p, IF status[p] # Alive THEN <<Recover>> ELSE <<>>)
  /\ UNCHANGED <<running, misses, told>>

ProbeAnswered(p) ==
  /\ probe[p] = "answered"
  /\ probe' = [probe EXCEPT ![p] = "none"]
  /\ silent' = [silent EXCEPT ![p] = 0]
  /\ Revived(p)
  /\ UNCHANGED <<running, told>>

\* record_alive, whatever the probe of the peer is doing
RecordAlive(p) ==
  /\ silent' = [silent EXCEPT ![p] = IF probe[p] = "none" THEN 0 ELSE -1]
  /\ Revived(p)
  /\ UNCHANGED <<running, probe, told>>

\* A callback runs: _on_peer_suspect and _on_peer_recover only log.
RunNotice ==
  /\ notices # <<>>
  /\ told' = [told EXCEPT ![Head(notices).peer] = Head(notices).call]
  /\ notices' = Tail(notices)
  /\ UNCHANGED <<running, probe, misses, status, silent>>

ProbeStep(p) == ProbeMissed(p) \/ ProbeAnswered(p)

-----------------------------------------------------------------------------
(* Properties *)

\* Every variable keeps the shape the code gives it.
DetectorTypeOK ==
  /\ running \in BOOLEAN
  /\ probe \in [Peer -> {"none", "sent", "answered", "failed"}]
  /\ misses \in [Peer -> 0..DeadThreshold]
  /\ status \in [Peer -> {Alive, Suspected, Gone}]
  /\ notices \in Seq(Notice)
  /\ told \in [Peer -> {Suspect, Recover}]
  /\ silent \in [Peer -> -1..DeadThreshold]

\* A peer is suspected, or presumed dead, only after that many probes in a row were
\* sent and failed, but for one: the result of a probe that was out when
\* record_alive came counts although it is older (_probe reads _miss_counts after
\* its await).
SuspectsAreSilent ==
  \A p \in Peer :
    /\ status[p] = Suspected => silent[p] >= SuspectThreshold - 1
    /\ status[p] = Gone => silent[p] >= DeadThreshold - 1

\* The callbacks of a peer: the one that ran last, at 0, and the ones to come
Turns(p) == {0} \cup {i \in 1..Len(notices) : notices[i].peer = p}
Call(p, i) == IF i = 0 THEN told[p] ELSE notices[i].call

Alternate(p) ==
  \A i \in Turns(p) :
    /\ \A j \in Turns(p) : i < j /\ (\A k \in Turns(p) : k <= i \/ j <= k) => Call(p, i) # Call(p, j)
    /\ (\A j \in Turns(p) : j <= i) => (Call(p, i) = Recover <=> status[p] = Alive)

\* on_suspect and on_recover are called in turn for a peer, and the last call says
\* what its status is, although they are tasks that run later, on_suspect is not
\* called on the way from SUSPECTED to DEAD, and record_alive calls on_recover
\* beside the probes (_probe, record_alive).
CallsAlternate == \A p \in Peer : Alternate(p)
=============================================================================
