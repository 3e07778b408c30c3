--------------------------- MODULE BaseNodeProofs ---------------------------
(***************************************************************************)
(* Proofs about BaseNode and its FailureDetector, for any peers and        *)
(* thresholds.                                                             *)
(*                                                                         *)
(* Only two ideas are needed.  A peer's status is that of its misses, and  *)
(* its silence is at most one probe shorter than they say (Counted).  And  *)
(* the detector lives within the life of the session, because start() and  *)
(* stop() are nested in that respect (Nested).                             *)
(***************************************************************************)
EXTENDS BaseNode, SequenceTheorems, TLAPS

Steps == {"down", "start mp", "start raft", "start detector", "on_start", "started",
          "stop detector", "stop raft", "stop mp", "on_stop", "stopped"}

Counted ==
  \A p \in Peer : status[p] = StatusAfter(misses[p]) /\ silent[p] >= misses[p] - 1

\* where start() and stop() have the detector running, and the session open
Watching == {"on_start", "started", "stop detector"}
Connected == Watching \cup {"start raft", "start detector", "stop raft", "stop mp"}

Active == running \/ \E p \in Peer : probe[p] # "none"

Nested ==
  /\ Active => pc \in Watching
  /\ pc \in Connected => session

NodeInv == NodeTypeOK /\ Counted /\ Nested

-----------------------------------------------------------------------------
(* The detector *)

\* A counter stays within its bound.
LEMMA MissedInRange ==
  /\ \A n \in 0..DeadThreshold : Missed(n) \in 0..DeadThreshold
  /\ \A n \in -1..DeadThreshold : Missed(n) \in -1..DeadThreshold
  /\ \A n \in Int : StatusAfter(n) \in {Alive, Suspected, Gone}
BY ThresholdAssumption DEF Missed, StatusAfter

\* A task for a callback is put behind those that are there.
LEMMA NotifyType ==
  ASSUME DetectorTypeOK, NEW p \in Peer, NEW calls \in Seq({Suspect, Recover}), Notify(p, calls)
  PROVE  notices' \in Seq(Notice)
<1>1. [i \in 1..Len(calls) |-> [peer |-> p, call |-> calls[i]]] \in Seq(Notice)
  <2>1. Len(calls) \in Nat /\ \A i \in 1..Len(calls) : calls[i] \in {Suspect, Recover}
    OBVIOUS
  <2>2. \A i \in 1..Len(calls) : [peer |-> p, call |-> calls[i]] \in Notice
    BY <2>1 DEF Notice
  <2> QED
    BY <2>1, <2>2, IsASeq
<1> QED
  BY <1>1, ConcatProperties DEF Notify, DetectorTypeOK

\* Both callbacks are members of the set of callbacks.
LEMMA CallsType ==
  <<>> \in Seq({Suspect, Recover})
  /\ <<Suspect>> \in Seq({Suspect, Recover})
  /\ <<Recover>> \in Seq({Suspect, Recover})
OBVIOUS

DetectorInv == DetectorTypeOK /\ Counted

\* A miss counts in both books at once.
LEMMA ProbeMissedInv ==
  ASSUME DetectorInv, NEW p \in Peer, ProbeMissed(p)
  PROVE  DetectorInv'
<1>1. notices' \in Seq(Notice)
  BY CallsType, NotifyType DEF DetectorInv, ProbeMissed
<1>2. /\ misses[p] \in 0..DeadThreshold
      /\ silent[p] \in -1..DeadThreshold
      /\ DeadThreshold \in Nat
  BY ThresholdAssumption DEF DetectorInv, DetectorTypeOK
<1>3. misses' = [misses EXCEPT ![p] = Missed(misses[p])]
  BY DEF ProbeMissed
<1>4. misses'[p] = Missed(misses[p])
  BY <1>3 DEF DetectorInv, DetectorTypeOK
<1>5. status' = [status EXCEPT ![p] = StatusAfter(Missed(misses[p]))]
  BY <1>4 DEF ProbeMissed
<1>6. silent' = [silent EXCEPT ![p] = Missed(silent[p])]
  BY DEF ProbeMissed
<1>7. DetectorTypeOK'
  <2>1. StatusAfter(Missed(misses[p])) \in {Alive, Suspected, Gone}
    BY <1>2, MissedInRange
  <2>2. /\ Missed(misses[p]) \in 0..DeadThreshold
        /\ Missed(silent[p]) \in -1..DeadThreshold
    BY <1>2, MissedInRange
  <2>3. /\ probe' = [probe EXCEPT ![p] = "none"]
        /\ UNCHANGED <<running, told>>
    BY DEF ProbeMissed
  <2> QED
    BY <1>1, <1>3, <1>5, <1>6, <2>1, <2>2, <2>3 DEF DetectorInv, DetectorTypeOK
<1>8. Missed(silent[p]) >= Missed(misses[p]) - 1
  BY <1>2 DEF Missed, DetectorInv, Counted
<1> QED
  BY <1>3, <1>5, <1>6, <1>7, <1>8 DEF DetectorInv, DetectorTypeOK, Counted

\* A sign of life, by a probe or from outside, clears both books; from outside it
\* may leave the probe that is out to count against the peer.
LEMMA RevivedInv ==
  ASSUME DetectorInv, NEW p \in Peer, Revived(p),
         NEW s \in {-1, 0}, silent' = [silent EXCEPT ![p] = s],
         probe' = [probe EXCEPT ![p] = "none"] \/ UNCHANGED probe,
         UNCHANGED <<running, told>>
  PROVE  DetectorInv'
<1>1. notices' \in Seq(Notice)
  BY CallsType, NotifyType DEF DetectorInv, Revived
<1>2. DeadThreshold \in Nat /\ StatusAfter(0) = Alive
  BY ThresholdAssumption DEF StatusAfter
<1>3. DetectorTypeOK'
  BY <1>1, <1>2 DEF DetectorInv, DetectorTypeOK, Revived
<1> QED
  BY <1>2, <1>3 DEF DetectorInv, DetectorTypeOK, Counted, Revived

\* The steps that count nothing: a round, the result of a ping, a callback.
LEMMA OtherDetectorInv ==
  ASSUME DetectorInv,
         \/ Round
         \/ RunNotice
         \/ \E p \in Peer, alive \in BOOLEAN : PingEnds(p, alive)
         \/ StartDetector
         \/ StopDetector
  PROVE  DetectorInv'
<1>1. CASE RunNotice
  <2>1. Head(notices) \in Notice /\ notices' \in Seq(Notice)
    BY <1>1, HeadTailProperties DEF RunNotice, DetectorInv, DetectorTypeOK
  <2>2. told' \in [Peer -> {Suspect, Recover}]
    BY <1>1, <2>1 DEF RunNotice, DetectorInv, DetectorTypeOK, Notice
  <2> QED
    BY <1>1, <2>1, <2>2 DEF RunNotice, DetectorInv, DetectorTypeOK, Counted
<1>2. CASE Round
  BY <1>2 DEF Round, DetectorInv, DetectorTypeOK, Counted
<1>3. CASE \E p \in Peer, alive \in BOOLEAN : PingEnds(p, alive)
  BY <1>3 DEF PingEnds, DetectorInv, DetectorTypeOK, Counted
<1>4. CASE StartDetector
  BY <1>4 DEF StartDetector, DetectorInv, DetectorTypeOK, Counted
<1>5. CASE StopDetector
  BY <1>5 DEF StopDetector, DetectorInv, DetectorTypeOK, Counted
<1> QED
  BY <1>1, <1>2, <1>3, <1>4, <1>5

\* What a probe or the other parts of the node do to the detector
LEMMA DetectorStepInv ==
  ASSUME DetectorInv, up \subseteq Peer, DetectorStep
  PROVE  DetectorInv'
<1>1. ASSUME NEW p \in Peer, ProbeAnswered(p) PROVE DetectorInv'
  BY <1>1, RevivedInv DEF ProbeAnswered
<1>2. ASSUME NEW p \in up, RecordAlive(p) PROVE DetectorInv'
  BY <1>2, RevivedInv DEF RecordAlive
<1> QED
  BY <1>1, <1>2, ProbeMissedInv, OtherDetectorInv DEF DetectorStep, ProbeStep

-----------------------------------------------------------------------------
(* The node *)

NodeParts == pc \in Steps /\ {session, raft, hook} \subseteq BOOLEAN /\ up \subseteq Peer

\* The invariant, part by part, before and after a step
LEMMA InvParts ==
  /\ NodeInv <=> DetectorInv /\ NodeParts /\ Nested
  /\ NodeInv' <=> DetectorInv' /\ NodeParts' /\ Nested'
BY DEF NodeInv, NodeTypeOK, DetectorInv, NodeParts, Steps

\* What a process starts from
LEMMA FreshValues ==
  /\ DeadThreshold \in Nat
  /\ StatusAfter(0) = Alive
  /\ 0 \in -1..DeadThreshold /\ 0 \in 0..DeadThreshold
  /\ <<>> \in Seq(Notice)
BY ThresholdAssumption DEF StatusAfter

\* A process that has not been started
LEMMA FreshInv == NodeInit => NodeInv
<1> SUFFICES ASSUME NodeInit PROVE NodeInv
  OBVIOUS
<1>1. DetectorTypeOK
  BY FreshValues DEF NodeInit, DetectorInit, DetectorTypeOK
<1>2. Counted
  BY FreshValues DEF NodeInit, DetectorInit, Counted
<1>3. NodeParts /\ Nested
  BY DEF NodeInit, DetectorInit, NodeParts, Steps, Nested, Active, Watching, Connected
<1> QED
  BY <1>1, <1>2, <1>3, InvParts DEF DetectorInv

\* A process that ends is one that has not been started.
LEMMA ExitInv == NodeInv /\ Exit => NodeInv'
<1> SUFFICES ASSUME NodeInv, Exit PROVE NodeInv'
  OBVIOUS
<1>1. DetectorTypeOK'
  BY FreshValues DEF Exit, DetectorTypeOK
<1>2. Counted'
  BY FreshValues DEF Exit, Counted
<1>3. NodeParts' /\ Nested'
  BY InvParts DEF Exit, NodeParts, Steps, Nested, Active, Watching, Connected
<1> QED
  BY <1>1, <1>2, <1>3, InvParts DEF DetectorInv

\* A detector that does nothing
LEMMA IdleDetector == DetectorInv /\ UNCHANGED detectorVars => DetectorInv'
BY DEF detectorVars, DetectorInv, DetectorTypeOK, Counted

\* start() opens the session before, and stop() closes it after, all that the
\* detector does.
LEMMA StartStopInv ==
  ASSUME NodeInv, StartStep \/ StopStep, UNCHANGED up
  PROVE  NodeInv'
<1>1. DetectorInv /\ NodeParts /\ Nested
  BY InvParts
<1>2. DetectorInv'
  BY <1>1, IdleDetector, OtherDetectorInv DEF StartStep, StopStep
<1>3. NodeParts'
  BY <1>1 DEF StartStep, StopStep, From, NodeParts, Steps, partVars
<1>4. CASE UNCHANGED detectorVars /\ pc # "stop detector"
  <2>1. Active' <=> Active
    BY <1>4 DEF Active, detectorVars
  <2>2. pc \in Watching => pc' \in Watching
    BY <1>4 DEF StartStep, StopStep, From, Watching
  <2>3. pc' \in Connected => session'
    BY <1>1 DEF StartStep, StopStep, From, Nested, Watching, Connected, partVars
  <2> QED
    BY <1>1, <1>2, <1>3, <2>1, <2>2, <2>3, InvParts DEF Nested
<1>5. CASE From("start detector", "on_start") /\ UNCHANGED partVars
  <2>1. pc' \in Watching /\ pc \in Connected /\ session' = session
    BY <1>5 DEF From, Watching, Connected, partVars
  <2> QED
    BY <1>1, <1>2, <1>3, <2>1, InvParts DEF Nested
<1>6. CASE From("stop detector", "stop raft") /\ StopDetector /\ UNCHANGED partVars
  <2>1. ~Active'
    BY <1>6 DEF StopDetector, Active
  <2>2. pc \in Connected /\ session' = session
    BY <1>6 DEF From, Watching, Connected, partVars
  <2> QED
    BY <1>1, <1>2, <1>3, <2>1, <2>2, InvParts DEF Nested
<1> QED
  BY <1>4, <1>5, <1>6 DEF StartStep, StopStep, From

\* Probes are sent only while the detector runs.
LEMMA ActiveStays ==
  ASSUME DetectorStep \/ (\E p \in Peer : PingAnswered(p) \/ PingFailed(p)),
         probe \in [Peer -> {"none", "sent", "answered", "failed"}], Active'
  PROVE  Active
<1>1. CASE Round
  BY <1>1 DEF Round, Active
<1>2. CASE RunNotice
  BY <1>2 DEF RunNotice, Active
<1>3. ASSUME NEW q \in Peer, ProbeStep(q) PROVE Active
  BY <1>3 DEF ProbeStep, ProbeMissed, ProbeAnswered, Active
<1>4. ASSUME NEW q, RecordAlive(q) PROVE Active
  BY <1>4 DEF RecordAlive, Active
<1>5. ASSUME NEW q \in Peer, NEW alive, PingEnds(q, alive) PROVE Active
  BY <1>5 DEF PingEnds, Active
<1> QED
  BY <1>1, <1>2, <1>3, <1>4, <1>5 DEF DetectorStep, PingAnswered, PingFailed

\* What the detector does leaves start() and stop() where they are.
LEMMA RunningInv ==
  ASSUME NodeInv, DetectorStep \/ (\E p \in Peer : PingAnswered(p) \/ PingFailed(p))
  PROVE  NodeInv'
<1>1. DetectorInv /\ NodeParts /\ Nested
  BY InvParts
<1>2. UNCHANGED <<pc, session, raft, hook, up>>
  BY DEF DetectorStep, PingAnswered, PingFailed, partVars
<1>3. DetectorInv'
  <2>1. ASSUME NEW p \in Peer, PingAnswered(p) \/ PingFailed(p) PROVE DetectorInv'
    BY <1>1, <2>1, OtherDetectorInv DEF PingAnswered, PingFailed
  <2> QED
    BY <1>1, <2>1, DetectorStepInv DEF NodeParts
<1>4. Active' => Active
  BY <1>1, ActiveStays DEF DetectorInv, DetectorTypeOK
<1>5. NodeParts' /\ Nested'
  BY <1>1, <1>2, <1>4 DEF NodeParts, Nested
<1> QED
  BY <1>3, <1>5, InvParts

\* Every step of the node keeps the invariant.
LEMMA NodeInvNext == NodeInv /\ [NodeNext]_nodeVars => NodeInv'
<1> SUFFICES ASSUME NodeInv, [NodeNext]_nodeVars PROVE NodeInv'
  OBVIOUS
<1>1. DetectorInv /\ NodeParts /\ Nested
  BY InvParts
<1>2. ASSUME UNCHANGED detectorVars, NodeParts', Nested' PROVE NodeInv'
  BY <1>1, <1>2, IdleDetector, InvParts
<1>3. CASE Boot \/ Shutdown \/ PeerChanges \/ UNCHANGED nodeVars
  <2>1. UNCHANGED detectorVars
    BY <1>3 DEF Boot, Shutdown, PeerChanges, nodeVars
  <2>2. Active' <=> Active
    BY <2>1 DEF detectorVars, Active
  <2>3. NodeParts'
    BY <1>1, <1>3 DEF Boot, Shutdown, PeerChanges, From, nodeVars, partVars, NodeParts, Steps
  <2>4. Nested'
    BY <1>1, <1>3, <2>2
       DEF Boot, Shutdown, PeerChanges, From, nodeVars, partVars, Nested, Watching, Connected
  <2> QED
    BY <1>2, <2>1, <2>3, <2>4
<1> QED
  BY <1>3, ExitInv, StartStopInv, RunningInv DEF NodeNext

\* The inductive invariant
LEMMA NodeInvariant == NodeSpec => []NodeInv
BY FreshInv, NodeInvNext, PTL DEF NodeSpec

-----------------------------------------------------------------------------
(* The callbacks *)

\* What a probe reports: nothing, or one call
LEMMA NotifyMeans ==
  ASSUME DetectorTypeOK, NEW p \in Peer, NEW c \in {Suspect, Recover}
  PROVE  /\ Notify(p, <<>>) => UNCHANGED notices
         /\ Notify(p, <<c>>) => notices' = Append(notices, [peer |-> p, call |-> c])
<1>1. notices \in Seq(Notice) /\ [peer |-> p, call |-> c] \in Notice
  BY DEF DetectorTypeOK, Notice
<1>2. [i \in 1..Len(<<>>) |-> [peer |-> p, call |-> <<>>[i]]] = <<>>
  OBVIOUS
<1>3. [i \in 1..Len(<<c>>) |-> [peer |-> p, call |-> <<c>>[i]]] = <<[peer |-> p, call |-> c]>>
  OBVIOUS
<1> QED
  BY <1>1, <1>2, <1>3, ConcatEmptySeq, AppendIsConcat DEF Notify

\* Calls go on in turn if nothing is said of a peer and it does not come or go, ...
LEMMA AlternateStays ==
  ASSUME DetectorTypeOK, NEW p \in Peer, Alternate(p), UNCHANGED told,
         status'[p] = Alive <=> status[p] = Alive,
         \/ UNCHANGED notices
         \/ \E n \in Notice : n.peer # p /\ notices' = Append(notices, n)
  PROVE  Alternate(p)'
<1>1. notices \in Seq(Notice)
  BY DEF DetectorTypeOK
<1>2. Turns(p)' = Turns(p) /\ \A i \in Turns(p) : Call(p, i)' = Call(p, i)
  <2>1. CASE UNCHANGED notices
    BY <2>1 DEF Turns, Call
  <2>2. ASSUME NEW n \in Notice, n.peer # p, notices' = Append(notices, n)
        PROVE  Turns(p)' = Turns(p) /\ \A i \in Turns(p) : Call(p, i)' = Call(p, i)
    BY <1>1, <2>2 DEF Turns, Call
  <2> QED
    BY <2>1, <2>2
<1> QED
  BY <1>2 DEF Alternate

\* ... and if what is said is news.
LEMMA AlternateGrows ==
  ASSUME DetectorTypeOK, NEW p \in Peer, Alternate(p), UNCHANGED told,
         NEW c \in {Suspect, Recover}, notices' = Append(notices, [peer |-> p, call |-> c]),
         c = Recover <=> status'[p] = Alive,
         status'[p] = Alive <=> status[p] # Alive
  PROVE  Alternate(p)'
<1>0. PICK last \in Nat \ {0} : last = Len(notices) + 1
  BY DEF DetectorTypeOK
<1>1. notices \in Seq(Notice) /\ last \in Nat \ {0} /\ last = Len(notices) + 1
  BY <1>0 DEF DetectorTypeOK
<1>2. Turns(p)' = Turns(p) \cup {last}
  BY <1>1 DEF Turns
<1>3. \A i \in Turns(p) : i \in Nat /\ i < last /\ Call(p, i)' = Call(p, i)
  BY <1>1 DEF Turns, Call
<1>4. Call(p, last)' = c
  <2>1. [peer |-> p, call |-> c] \in Notice
    BY DEF Notice
  <2>2. notices'[last] = [peer |-> p, call |-> c]
    BY <1>1, <2>1, AppendProperties
  <2> QED
    BY <1>1, <2>2 DEF Call
<1>5. ASSUME NEW i \in Turns(p) PROVE Call(p, i) \in {Suspect, Recover}
  <2>1. i # 0 => notices[i] \in Notice
    BY <1>1, <1>5 DEF Turns
  <2>2. told[p] \in {Suspect, Recover}
    BY DEF DetectorTypeOK
  <2> QED
    BY <2>1, <2>2 DEF Call, Notice
<1>6. ASSUME NEW i \in Turns(p)', NEW j \in Turns(p)',
             i < j, \A k \in Turns(p)' : k <= i \/ j <= k
      PROVE  Call(p, i)' # Call(p, j)'
  <2>1. CASE j \in Turns(p)
    <3>1. i \in Turns(p)
      BY <1>1, <1>2, <1>3, <1>6, <2>1
    <3> QED
      BY <1>2, <1>3, <1>6, <2>1, <3>1 DEF Alternate
  <2>2. CASE j = last
    <3>1. i \in Turns(p) /\ \A k \in Turns(p) : k <= i
      BY <1>1, <1>2, <1>3, <1>6, <2>2
    <3>2. Call(p, i) = Recover <=> status[p] = Alive
      BY <3>1 DEF Alternate
    <3> QED
      BY <1>3, <1>4, <1>5, <2>2, <3>1, <3>2 DEF Suspect, Recover
  <2> QED
    BY <1>2, <2>1, <2>2
<1>7. ASSUME NEW i \in Turns(p)', \A j \in Turns(p)' : j <= i
      PROVE  Call(p, i)' = Recover <=> status'[p] = Alive
  <2>1. i = last
    BY <1>1, <1>2, <1>3, <1>7
  <2> QED
    BY <1>4, <2>1
<1> QED
  BY <1>6, <1>7 DEF Alternate

\* A callback runs: all turns move up, and the first takes the place of the one
\* that ran before it.
LEMMA AlternateShifts ==
  ASSUME DetectorTypeOK, NEW p \in Peer, Alternate(p), RunNotice
  PROVE  Alternate(p)'
<1>1. /\ notices \in Seq(Notice)
      /\ notices # <<>>
      /\ notices' = Tail(notices)
      /\ UNCHANGED status
      /\ told' = [told EXCEPT ![notices[1].peer] = notices[1].call]
      /\ Len(notices) \in Nat \ {0}
  <2>1. notices \in Seq(Notice) /\ notices # <<>>
    BY DEF DetectorTypeOK, RunNotice
  <2>2. Head(notices) = notices[1] /\ Len(notices) \in Nat \ {0}
    BY <2>1
  <2> QED
    BY <2>1, <2>2 DEF RunNotice
<1>2. /\ Len(notices') = Len(notices) - 1
      /\ \A i \in 1..Len(notices') : notices'[i] = notices[i + 1]
  BY <1>1
<1>3. \A i \in Turns(p)' : i \in Nat
  BY DEF Turns
<1>4. CASE notices[1].peer = p
  <2>1. \A i \in Turns(p)' : i + 1 \in Turns(p) /\ Call(p, i)' = Call(p, i + 1)
    BY <1>1, <1>2, <1>4 DEF Turns, Call, DetectorTypeOK
  <2>2. \A j \in Turns(p) : j \in Nat /\ (j = 0 \/ (j - 1) \in Turns(p)')
    BY <1>1, <1>2, <1>4 DEF Turns
  <2>3. ASSUME NEW i \in Turns(p)', NEW j \in Turns(p)',
               i < j, \A k \in Turns(p)' : k <= i \/ j <= k
        PROVE  Call(p, i)' # Call(p, j)'
    <3>1. \A k \in Turns(p) : k <= i + 1 \/ j + 1 <= k
      BY <1>3, <2>2, <2>3
    <3> QED
      BY <1>3, <2>1, <2>3, <3>1 DEF Alternate
  <2>4. ASSUME NEW i \in Turns(p)', \A j \in Turns(p)' : j <= i
        PROVE  Call(p, i)' = Recover <=> status'[p] = Alive
    <3>1. \A j \in Turns(p) : j <= i + 1
      BY <1>3, <2>2, <2>4
    <3> QED
      BY <1>1, <2>1, <2>4, <3>1 DEF Alternate
  <2> QED
    BY <2>3, <2>4 DEF Alternate
<1>5. CASE notices[1].peer # p
  <2> DEFINE Old(i) == IF i = 0 THEN 0 ELSE i + 1
  <2>1. \A i \in Turns(p)' : Old(i) \in Turns(p) /\ Call(p, i)' = Call(p, Old(i))
    BY <1>1, <1>2, <1>5 DEF Turns, Call, DetectorTypeOK
  <2>2. \A j \in Turns(p) : j \in Nat /\ (j = 0 \/ (j > 1 /\ (j - 1) \in Turns(p)'))
    BY <1>1, <1>2, <1>5 DEF Turns
  <2>3. ASSUME NEW i \in Turns(p)', NEW j \in Turns(p)',
               i < j, \A k \in Turns(p)' : k <= i \/ j <= k
        PROVE  Call(p, i)' # Call(p, j)'
    <3>1. \A k \in Turns(p) : k <= Old(i) \/ Old(j) <= k
      BY <1>3, <2>2, <2>3
    <3>2. Old(i) < Old(j)
      BY <1>3, <2>3
    <3> QED
      BY <2>1, <2>3, <3>1, <3>2 DEF Alternate
  <2>4. ASSUME NEW i \in Turns(p)', \A j \in Turns(p)' : j <= i
        PROVE  Call(p, i)' = Recover <=> status'[p] = Alive
    <3>1. \A j \in Turns(p) : j <= Old(i)
      BY <1>3, <2>2, <2>4
    <3> QED
      BY <1>1, <2>1, <2>4, <3>1 DEF Alternate
  <2> QED
    BY <2>3, <2>4 DEF Alternate
<1> QED
  BY <1>4, <1>5

\* A miss is reported when it makes a peer that was ALIVE a suspect, and only then.
LEMMA MissAlternates ==
  ASSUME DetectorInv, NEW q \in Peer, ProbeMissed(q), NEW p \in Peer, Alternate(p)
  PROVE  Alternate(p)'
<1>1. /\ DetectorTypeOK
      /\ misses[q] \in 0..DeadThreshold
      /\ status[q] = StatusAfter(misses[q])
  BY DEF DetectorInv, DetectorTypeOK, Counted
<1>2. status' = [status EXCEPT ![q] = StatusAfter(Missed(misses[q]))] /\ UNCHANGED told
  BY <1>1 DEF ProbeMissed, DetectorTypeOK
<1>3. status'[q] = StatusAfter(Missed(misses[q])) /\ (p # q => status'[p] = status[p])
  BY <1>1, <1>2 DEF DetectorTypeOK
<1>4. CASE status'[q] = Suspected /\ status[q] # Suspected
  <2>1. status[q] = Alive
    BY <1>1, <1>3, <1>4, ThresholdAssumption DEF StatusAfter, Missed, Alive, Suspected, Gone
  <2>2. notices' = Append(notices, [peer |-> q, call |-> Suspect])
    BY <1>1, <1>4, NotifyMeans DEF ProbeMissed
  <2>3. CASE p = q
    BY <1>1, <1>2, <1>4, <2>1, <2>2, <2>3, AlternateGrows DEF Alive, Suspected, Suspect, Recover
  <2>4. CASE p # q
    <3>1. [peer |-> q, call |-> Suspect] \in Notice
      BY DEF Notice
    <3> QED
      BY <1>1, <1>2, <1>3, <2>2, <2>4, <3>1, AlternateStays
  <2> QED
    BY <2>3, <2>4
<1>5. CASE ~(status'[q] = Suspected /\ status[q] # Suspected)
  <2>1. UNCHANGED notices
    BY <1>1, <1>5, NotifyMeans DEF ProbeMissed
  <2>2. status'[q] = Alive <=> status[q] = Alive
    BY <1>1, <1>3, <1>5, ThresholdAssumption DEF StatusAfter, Missed, Alive, Suspected, Gone
  <2> QED
    BY <1>1, <1>2, <1>3, <2>1, <2>2, AlternateStays
<1> QED
  BY <1>4, <1>5

\* A sign of life is reported when the peer was not ALIVE, and only then.
LEMMA RevivalAlternates ==
  ASSUME DetectorInv, NEW q \in Peer, Revived(q), UNCHANGED told, NEW p \in Peer, Alternate(p)
  PROVE  Alternate(p)'
<1>1. DetectorTypeOK
  BY DEF DetectorInv
<1>2. status'[q] = Alive /\ (p # q => status'[p] = status[p])
  BY <1>1 DEF Revived, DetectorTypeOK
<1>3. CASE status[q] # Alive
  <2>1. notices' = Append(notices, [peer |-> q, call |-> Recover])
    BY <1>1, <1>3, NotifyMeans DEF Revived
  <2>2. CASE p = q
    BY <1>1, <1>2, <1>3, <2>1, <2>2, AlternateGrows
  <2>3. CASE p # q
    <3>1. [peer |-> q, call |-> Recover] \in Notice
      BY DEF Notice
    <3> QED
      BY <1>1, <1>2, <2>1, <2>3, <3>1, AlternateStays
  <2> QED
    BY <2>2, <2>3
<1>4. CASE status[q] = Alive
  <2>1. UNCHANGED notices
    BY <1>1, <1>4, NotifyMeans DEF Revived
  <2> QED
    BY <1>1, <1>2, <1>4, <2>1, AlternateStays
<1> QED
  BY <1>3, <1>4

\* The callbacks are in order from the start.
LEMMA AlternateInit == NodeInit => CallsAlternate
BY DEF NodeInit, DetectorInit, CallsAlternate, Alternate, Turns, Call, Alive, Recover

\* Every step of the node keeps the callbacks of every peer in order.
LEMMA AlternateNext == NodeInv /\ CallsAlternate /\ [NodeNext]_nodeVars => CallsAlternate'
<1> SUFFICES ASSUME NodeInv, CallsAlternate, [NodeNext]_nodeVars, NEW p \in Peer
             PROVE  Alternate(p)'
  BY DEF CallsAlternate
<1>1. DetectorInv /\ DetectorTypeOK /\ Alternate(p) /\ up \subseteq Peer
  BY InvParts DEF CallsAlternate, DetectorInv, NodeParts
<1>2. CASE UNCHANGED <<status, notices, told>>
  BY <1>1, <1>2, AlternateStays
<1>3. CASE Exit
  BY <1>3 DEF Exit, Alternate, Turns, Call, Alive, Recover
<1>4. CASE DetectorStep
  <2>1. ASSUME NEW q \in Peer, ProbeStep(q) PROVE Alternate(p)'
    BY <1>1, <2>1, MissAlternates, RevivalAlternates DEF ProbeStep, ProbeAnswered
  <2>2. ASSUME NEW q \in up, RecordAlive(q) PROVE Alternate(p)'
    BY <1>1, <2>2, RevivalAlternates DEF RecordAlive
  <2>3. CASE Round
    BY <1>2, <2>3 DEF Round
  <2> QED
    BY <1>1, <1>4, <2>1, <2>2, <2>3, AlternateShifts DEF DetectorStep
<1>5. CASE Boot \/ Shutdown \/ PeerChanges \/ UNCHANGED nodeVars
  BY <1>2, <1>5 DEF Boot, Shutdown, PeerChanges, nodeVars, detectorVars
<1>6. CASE StartStep \/ StopStep
  BY <1>2, <1>6 DEF StartStep, StopStep, StartDetector, StopDetector, detectorVars
<1>7. CASE \E q \in Peer : PingAnswered(q) \/ PingFailed(q)
  BY <1>2, <1>7 DEF PingAnswered, PingFailed, PingEnds
<1> QED
  BY <1>3, <1>4, <1>5, <1>6, <1>7 DEF NodeNext

-----------------------------------------------------------------------------
(* Theorems *)

\* Every variable of the node and its detector keeps the shape the code gives it.
THEOREM NodeTypeCorrect == NodeSpec => []NodeTypeOK
<1>1. NodeInv => NodeTypeOK
  BY DEF NodeInv
<1> QED
  BY <1>1, NodeInvariant, PTL

\* A suspicion stands for that many probes in a row, but one, that were sent and
\* failed, whatever record_alive does between a ping and its use (_probe).
THEOREM SuspicionsAreGrounded == NodeSpec => []SuspectsAreSilent
<1>1. NodeInv => SuspectsAreSilent
  <2> SUFFICES ASSUME NodeInv, NEW p \in Peer
               PROVE  /\ status[p] = Suspected => silent[p] >= SuspectThreshold - 1
                      /\ status[p] = Gone => silent[p] >= DeadThreshold - 1
    BY DEF SuspectsAreSilent
  <2>1. misses[p] \in 0..DeadThreshold /\ silent[p] \in -1..DeadThreshold
    BY DEF NodeInv, NodeTypeOK, DetectorTypeOK
  <2>2. silent[p] >= misses[p] - 1 /\ status[p] = StatusAfter(misses[p])
    BY DEF NodeInv, Counted
  <2> QED
    BY <2>1, <2>2, ThresholdAssumption DEF StatusAfter, Alive, Suspected, Gone
<1> QED
  BY <1>1, NodeInvariant, PTL

\* No ping is out without a session, in any order in which start(), stop(), a crash
\* and the pings come (start, stop).
THEOREM PingsAreCarried == NodeSpec => []PingsHaveSession
<1>1. NodeInv => PingsHaveSession
  BY DEF NodeInv, Nested, Active, Watching, Connected, PingsHaveSession
<1> QED
  BY <1>1, NodeInvariant, PTL

\* on_suspect and on_recover are called in turn and end with the status the peer has,
\* however long the tasks that call them are in coming (_probe, record_alive).
THEOREM CallbacksTakeTurns == NodeSpec => []CallsAlternate
BY AlternateInit, AlternateNext, NodeInvariant, PTL DEF NodeSpec
=============================================================================
