----------------------------- MODULE RaftProofs -----------------------------
(***************************************************************************)
(* Theorems about Raft, for any finite set of servers, any commands and    *)
(* any bounds: its types and calls, and at most one leader per term.       *)
(*                                                                         *)
(* votedFor forgets a vote when its server moves to a newer term, so the   *)
(* votes of a leader cannot be read off the state.  What can be read off   *)
(* it, and is inductive, is that they are not to be had again: each voter  *)
(* is past the term or still votes for the leader, and no other open vote  *)
(* round of that term holds a vote of its (ElectionInv).                   *)
(***************************************************************************)
EXTENDS Raft, FiniteSetTheorems, SequenceTheorems, TLAPS

-----------------------------------------------------------------------------
(* The inductive invariants *)

\* The calls of server n are those of its one open round: a vote round of a term
\* it has reached, or a replication round of its present leadership.
CallsOf(n) ==
  /\ \A p \in Server :
       /\ reply[n][p] # Nil => request[n][p] # Nil
       /\ request[n][p] # Nil =>
            /\ p # n /\ request[n][p].from = n /\ request[n][p].to = p
            /\ replicating[n] \/ electionTerm[n] # 0
       /\ request[n][p] # Nil /\ replicating[n] =>
            request[n][p].type = "append" /\ request[n][p].term = currentTerm[n]
       /\ request[n][p] # Nil /\ electionTerm[n] # 0 =>
            request[n][p].type = "vote" /\ request[n][p].term = electionTerm[n]
  /\ replicating[n] => state[n] = Leader
  /\ electionTerm[n] # 0 => state[n] # Leader
  /\ electionTerm[n] <= currentTerm[n]

Calls == \A n \in Server : CallsOf(n)

TypeInv == TypeOK /\ Calls

-----------------------------------------------------------------------------
(* Lemmas about logs and messages *)

\* What an index is, in arithmetic.
LEMMA IndexIsInt == \A i : i \in Index <=> i \in Int /\ i >= -1
BY DEF Index

\* Merging the entries of a call into a log yields a log.
LEMMA MergeType ==
  ASSUME NEW l \in Seq(Entry), NEW entries \in Seq(Entry),
         NEW at \in Nat, at <= Len(l)
  PROVE  Merge(l, at, entries) \in Seq(Entry)
<1> DEFINE end == at + Len(entries)
           Conflict(i) == at < i /\ i <= end /\ i <= Len(l) /\ l[i].term # entries[i - at].term
           len == IF end > Len(l) \/ \E i \in 1..end : Conflict(i) THEN end ELSE Len(l)
           val(i) == IF i <= Len(l) /\ \A j \in 1..i : ~Conflict(j) THEN l[i] ELSE entries[i - at]
<1>1. len \in Nat
  OBVIOUS
<1>2. ASSUME NEW i \in 1..len PROVE val(i) \in Entry
  <2>1. CASE i <= Len(l) /\ \A j \in 1..i : ~Conflict(j)
    BY <2>1
  <2>2. CASE ~(i <= Len(l)) 
    BY <2>2
  <2>3. CASE ~(\A j \in 1..i : ~Conflict(j))
    <3>1. PICK j \in 1..i : Conflict(j)
      BY <2>3
    <3>2. i - at \in 1..Len(entries)
      BY <3>1
    <3> HIDE DEF Conflict
    <3>3. val(i) = entries[i - at]
      BY <2>3
    <3> QED BY <3>2, <3>3
  <2> QED BY <2>1, <2>2, <2>3
<1>3. Merge(l, at, entries) = [i \in 1..len |-> val(i)]
  BY DEF Merge
<1> HIDE DEF val, len
<1>4. [i \in 1..len |-> val(i)] \in Seq(Entry)
  BY <1>1, <1>2
<1> QED BY <1>3, <1>4

\* Every entry of a log has a term, its last one too.
LEMMA LogEntryType ==
  ASSUME NEW l \in Seq(Entry)
  PROVE  /\ l # <<>> => Len(l) \in 1..Len(l)
         /\ \A i \in 1..Len(l) : l[i].term \in Nat
<1>1. l # <<>> => Len(l) \in Nat \ {0}
  BY EmptySeq
<1>2. \A i \in 1..Len(l) : l[i] \in Entry
  OBVIOUS
<1>3. \A e \in Entry : e.term \in Nat
  BY DEF Entry
<1> QED BY <1>1, <1>2, <1>3

\* The empty table of calls is one of requests and one of replies.
LEMMA NoCallsType ==
  /\ NoCalls \in [Server -> Request \cup {Nil}]
  /\ NoCalls \in [Server -> Reply \cup {Nil}]
BY DEF NoCalls

\* What a round leaves unanswered are requests.
LEMMA UnansweredType ==
  ASSUME TypeOK, NEW n \in Server
  PROVE  Unanswered(n) \subseteq Request
BY DEF TypeOK, Unanswered, Peers

\* A call for a vote is a request.
LEMMA AskVoteType ==
  ASSUME TypeOK, NEW n \in Server, NEW p \in Server, NEW t \in Nat
  PROVE  AskVote(n, p, t) \in Request
<1>1. LastIndex(log[n]) \in Index
  BY DEF TypeOK, LastIndex, Index
<1>2. LastTerm(log[n]) \in Nat
  BY LogEntryType DEF TypeOK, LastTerm, Entry
<1> QED BY <1>1, <1>2 DEF AskVote, Request, VoteRequest

\* A call to append is a request, where nextIndex lies in the log.
LEMMA AskAppendType ==
  ASSUME TypeOK, NEW n \in Server, NEW p \in Server, ~OutOfLog(n, p)
  PROVE  AskAppend(n, p) \in Request
<1> DEFINE prev == nextIndex[n][p] - 1
<1>0. /\ nextIndex[n][p] \in Nat /\ log[n] \in Seq(Entry)
      /\ currentTerm[n] \in Nat /\ commitIndex[n] \in Index
  BY DEF TypeOK
<1>1. prev \in Index
  BY <1>0 DEF Index
<1>2. (IF prev >= 0 /\ log[n] # <<>> THEN At(log[n], prev).term ELSE 0) \in Nat
  BY <1>0, LogEntryType DEF OutOfLog, At
<1>3. SubSeq(log[n], nextIndex[n][p] + 1, Len(log[n])) \in Seq(Entry)
  BY <1>0
<1> QED BY <1>0, <1>1, <1>2, <1>3 DEF AskAppend, Request, AppendRequest

\* What a handler answers is a reply.
LEMMA AnswerType ==
  ASSUME TypeOK, NEW n \in Server, NEW m \in Request
  PROVE  Answer(n, m) \in Reply
<1>1. m.term \in Nat
  BY DEF Request, VoteRequest, AppendRequest
<1>2. TermSeen(n, m.term) \in Nat
  BY <1>1 DEF TypeOK, TermSeen
<1>3. Grants(n, m) \in BOOLEAN /\ Accepts(n, m) \in BOOLEAN
  BY DEF Grants, Accepts
<1> QED BY <1>2, <1>3 DEF Answer, Reply

-----------------------------------------------------------------------------
(* Type correctness *)

\* Dropping the calls of a deposed leader keeps the types of the call tables.
LEMMA CancelHeartbeatType ==
  ASSUME TypeOK, NEW n \in Server, NEW t \in Nat,
         NEW r \in [Server -> [Server -> Reply \cup {Nil}]],
         NEW l \in SUBSET Request,
         CancelHeartbeat(n, t, r, l)
  PROVE  /\ replicating' \in [Server -> BOOLEAN]
         /\ request' \in [Server -> [Server -> Request \cup {Nil}]]
         /\ reply' \in [Server -> [Server -> Reply \cup {Nil}]]
         /\ late' \subseteq Request
<1>1. CASE Newer(n, t) /\ replicating[n]
  <2>1. /\ replicating' = [replicating EXCEPT ![n] = FALSE]
        /\ request' = [request EXCEPT ![n] = NoCalls]
        /\ reply' = [r EXCEPT ![n] = NoCalls]
        /\ GiveUp(n, l)
    BY <1>1 DEF CancelHeartbeat
  <2>2. late' \subseteq Request
    BY <2>1, UnansweredType DEF GiveUp
  <2> QED
    BY <2>1, <2>2, NoCallsType DEF TypeOK
<1>2. CASE ~(Newer(n, t) /\ replicating[n])
  BY <1>2 DEF CancelHeartbeat, TypeOK
<1> QED BY <1>1, <1>2

\* Stepping down keeps the types of the term, the vote and the role.
LEMMA StepDownType ==
  ASSUME TypeOK, NEW n \in Server, NEW t \in Nat
  PROVE  /\ TermSeen(n, t) \in Nat
         /\ VoteIn(n, t) \in Server \cup {Nil}
         /\ RoleIn(n, t) \in {Follower, Candidate, Leader}
BY DEF TypeOK, TermSeen, VoteIn, RoleIn

\* handle_request_vote keeps the types of the state of its server.
LEMMA HandleVoteType ==
  ASSUME TypeOK, NEW n \in Server, NEW m \in VoteRequest, HandleRequestVote(n, m)
  PROVE  /\ currentTerm' \in [Server -> Nat]
         /\ votedFor' \in [Server -> Server \cup {Nil}]
         /\ state' \in [Server -> {Follower, Candidate, Leader}]
         /\ log' \in [Server -> Seq(Entry)]
         /\ commitIndex' \in [Server -> Index]
<1>1. m.term \in Nat /\ m.from \in Server
  BY DEF VoteRequest
<1> QED BY <1>1, StepDownType DEF HandleRequestVote, TypeOK, logVars

\* handle_append_entries keeps the types of the state of its server.
LEMMA HandleAppendType ==
  ASSUME TypeOK, NEW n \in Server, NEW m \in AppendRequest, HandleAppendEntries(n, m)
  PROVE  /\ currentTerm' \in [Server -> Nat]
         /\ votedFor' \in [Server -> Server \cup {Nil}]
         /\ state' \in [Server -> {Follower, Candidate, Leader}]
         /\ log' \in [Server -> Seq(Entry)]
         /\ commitIndex' \in [Server -> Index]
<1>1. /\ m.term \in Nat /\ m.prevIndex \in Index
      /\ m.entries \in Seq(Entry) /\ m.commit \in Index
  BY DEF AppendRequest
<1>2. CASE RejectStaleLeader(n, m)
  BY <1>2 DEF RejectStaleLeader, TypeOK, serverVars, logVars
<1>3. ASSUME FollowLeader(n, m)
      PROVE  /\ currentTerm' \in [Server -> Nat]
             /\ votedFor' \in [Server -> Server \cup {Nil}]
             /\ state' \in [Server -> {Follower, Candidate, Leader}]
  BY <1>1, <1>3, StepDownType DEF FollowLeader, TypeOK
<1>4. CASE RejectGap(n, m)
  BY <1>3, <1>4 DEF RejectGap, TypeOK, logVars
<1>5. CASE RejectConflict(n, m)
  <2>1. Prefix(log[n], m.prevIndex) \in Seq(Entry)
    BY <1>1, <1>5 DEF RejectConflict, Disagrees, Prefix, Index, TypeOK
  <2> QED BY <1>3, <1>5, <2>1 DEF RejectConflict, TypeOK
<1>6. CASE AcceptEntries(n, m)
  <2> DEFINE l == Merge(log[n], m.prevIndex + 1, m.entries)
  <2>1. log[n] \in Seq(Entry) /\ commitIndex[n] \in Index
    BY DEF TypeOK
  <2>2. m.prevIndex + 1 \in Nat /\ m.prevIndex + 1 <= Len(log[n])
    BY <1>1, <1>6, <2>1 DEF AcceptEntries, Accepts, Misses, Index
  <2>3. l \in Seq(Entry)
    BY <1>1, <2>1, <2>2, MergeType
  <2> HIDE DEF l
  <2>4. CommitAfter(n, m, l) \in Index
    BY <1>1, <2>1, <2>3 DEF CommitAfter, LastIndex, Index
  <2>5. FollowLeader(n, m) /\ log' = [log EXCEPT ![n] = l]
        /\ commitIndex' = [commitIndex EXCEPT ![n] = CommitAfter(n, m, l)]
    BY <1>6 DEF AcceptEntries, l
  <2> QED BY <1>3, <2>3, <2>4, <2>5 DEF TypeOK
<1> QED BY <1>2, <1>4, <1>5, <1>6 DEF HandleAppendEntries

\* Either handler does.
LEMMA HandleType ==
  ASSUME TypeOK, NEW n \in Server, NEW m \in Request, Handle(n, m)
  PROVE  /\ currentTerm' \in [Server -> Nat]
         /\ votedFor' \in [Server -> Server \cup {Nil}]
         /\ state' \in [Server -> {Follower, Candidate, Leader}]
         /\ log' \in [Server -> Seq(Entry)]
         /\ commitIndex' \in [Server -> Index]
<1>1. CASE m.type = "vote" /\ HandleRequestVote(n, m)
  <2>1. m \in VoteRequest
    BY <1>1 DEF Request, AppendRequest
  <2> QED BY <1>1, <2>1, HandleVoteType
<1>2. CASE m.type = "append" /\ HandleAppendEntries(n, m)
  <2>1. m \in AppendRequest
    BY <1>2 DEF Request, VoteRequest
  <2> QED BY <1>2, <2>1, HandleAppendType
<1> QED BY <1>1, <1>2 DEF Handle

\* Processing an answer to AppendEntries keeps the types.
LEMMA ReceiveAppendReplyType ==
  ASSUME TypeInv, NEW n \in Server, NEW p \in Server, ReceiveAppendReply(n, p)
  PROVE  TypeOK'
<1> DEFINE t == reply[n][p].term
           m == request[n][p]
<1>1. /\ t \in Nat
      /\ m \in AppendRequest
  <2>1. reply[n][p] \in Reply /\ m \in Request /\ m.type = "append"
    BY DEF ReceiveAppendReply, TypeInv, TypeOK, Calls, CallsOf
  <2> QED BY <2>1 DEF Reply, Request, VoteRequest
<1>2. /\ currentTerm' \in [Server -> Nat]
      /\ votedFor' \in [Server -> Server \cup {Nil}]
      /\ state' \in [Server -> {Follower, Candidate, Leader}]
  BY <1>1, StepDownType DEF ReceiveAppendReply, TypeInv, TypeOK
<1>3. /\ nextIndex' \in [Server -> [Server -> Nat]]
      /\ matchIndex' \in [Server -> [Server -> Index]]
  <2>1. m.prevIndex \in Index /\ m.entries \in Seq(Entry)
    BY <1>1 DEF AppendRequest
  <2>2. /\ m.prevIndex + Len(m.entries) \in Index
        /\ m.prevIndex + Len(m.entries) + 1 \in Nat
        /\ (IF m.prevIndex > 0 THEN m.prevIndex ELSE 0) \in Nat
    <3>1. \A i \in Index, k \in Nat : /\ i + k \in Index
                                      /\ i + k + 1 \in Nat
                                      /\ (IF i > 0 THEN i ELSE 0) \in Nat
      BY IndexIsInt
    <3>2. Len(m.entries) \in Nat
      BY <2>1
    <3> QED BY <2>1, <3>1, <3>2
  <2>3. /\ nextIndex \in [Server -> [Server -> Nat]]
        /\ matchIndex \in [Server -> [Server -> Index]]
    BY DEF TypeInv, TypeOK
  <2>4. CASE UNCHANGED leaderVars
    BY <2>3, <2>4 DEF leaderVars
  <2>5. CASE AppendAccepted(n, p)
    BY <2>2, <2>3, <2>5 DEF AppendAccepted
  <2>6. CASE AppendRejected(n, p)
    BY <2>2, <2>3, <2>6 DEF AppendRejected
  <2> QED BY <2>4, <2>5, <2>6 DEF ReceiveAppendReply
<1>4. /\ replicating' \in [Server -> BOOLEAN]
      /\ request' \in [Server -> [Server -> Request \cup {Nil}]]
      /\ reply' \in [Server -> [Server -> Reply \cup {Nil}]]
      /\ late' \subseteq Request
  <2>1. CASE Newer(n, t)
    <3>1. CancelHeartbeat(n, t, reply, late)
      BY <2>1 DEF ReceiveAppendReply
    <3> QED BY <1>1, <3>1, CancelHeartbeatType DEF TypeInv, TypeOK
  <2>2. CASE ~Newer(n, t)
    <3>1. /\ request' = [request EXCEPT ![n][p] = Nil]
          /\ reply' = [reply EXCEPT ![n][p] = Nil]
          /\ UNCHANGED <<replicating, late>>
      BY <2>2 DEF ReceiveAppendReply
    <3> QED BY <3>1 DEF TypeInv, TypeOK
  <2> QED BY <2>1, <2>2
<1>5. UNCHANGED <<log, commitIndex, electionTerm>>
  BY DEF ReceiveAppendReply, logVars
<1> QED BY <1>2, <1>3, <1>4, <1>5 DEF TypeInv, TypeOK

\* Starting a vote round keeps the types.
LEMMA StartElectionType ==
  ASSUME TypeOK, NEW n \in Server, StartElection(n)
  PROVE  TypeOK'
<1> DEFINE t == currentTerm[n] + 1
           calls == [p \in Server |-> IF p = n THEN Nil ELSE AskVote(n, p, t)]
<1>1. t \in Nat
  BY DEF TypeOK
<1>2. calls \in [Server -> Request \cup {Nil}]
  BY <1>1, AskVoteType
<1>3. /\ currentTerm' = [currentTerm EXCEPT ![n] = t]
      /\ electionTerm' = [electionTerm EXCEPT ![n] = t]
      /\ request' = [request EXCEPT ![n] = calls]
      /\ votedFor' = [votedFor EXCEPT ![n] = n]
      /\ state' = [state EXCEPT ![n] = Candidate]
      /\ UNCHANGED <<log, commitIndex, nextIndex, matchIndex, replicating, reply, late>>
  BY DEF StartElection, logVars, leaderVars
<1> HIDE DEF t, calls
<1> QED BY <1>1, <1>2, <1>3 DEF TypeOK

\* Starting a replication round keeps the types.
LEMMA StartReplicationType ==
  ASSUME TypeOK, NEW n \in Server, StartReplication(n)
  PROVE  TypeOK'
<1> DEFINE calls == [p \in Server |-> IF p = n \/ OutOfLog(n, p) THEN Nil ELSE AskAppend(n, p)]
<1>1. calls \in [Server -> Request \cup {Nil}]
  BY AskAppendType
<1>2. /\ request' = [request EXCEPT ![n] = calls]
      /\ replicating' = [replicating EXCEPT ![n] = TRUE]
      /\ UNCHANGED <<currentTerm, votedFor, state, log, commitIndex, nextIndex,
                     matchIndex, electionTerm, reply, late>>
  BY DEF StartReplication, serverVars, logVars, leaderVars
<1> HIDE DEF calls
<1> QED BY <1>1, <1>2 DEF TypeOK

\* Counting the votes keeps the types.
LEMMA FinishElectionType ==
  ASSUME TypeOK, NEW n \in Server, FinishElection(n)
  PROVE  TypeOK'
<1>1. /\ electionTerm' = [electionTerm EXCEPT ![n] = 0]
      /\ request' = [request EXCEPT ![n] = NoCalls]
      /\ reply' = [reply EXCEPT ![n] = NoCalls]
      /\ GiveUp(n, late)
      /\ UNCHANGED <<log, commitIndex, replicating>>
  BY DEF FinishElection, logVars
<1>2. late' \subseteq Request
  BY <1>1, UnansweredType DEF GiveUp, TypeOK
<1>3. /\ currentTerm' \in [Server -> Nat]
      /\ votedFor' \in [Server -> Server \cup {Nil}]
      /\ state' \in [Server -> {Follower, Candidate, Leader}]
      /\ nextIndex' \in [Server -> [Server -> Nat]]
      /\ matchIndex' \in [Server -> [Server -> Index]]
  <2>1. CASE DiscardVotes(n)
    BY <2>1 DEF DiscardVotes, TypeOK, serverVars, leaderVars
  <2>2. CASE VotesShowNewerTerm(n)
    <3>1. PICK p \in Peers(n) : /\ reply[n][p] # Nil
                                /\ currentTerm' = [currentTerm EXCEPT ![n] = reply[n][p].term]
      BY <2>2 DEF VotesShowNewerTerm
    <3>2. reply[n][p].term \in Nat
      BY <3>1 DEF TypeOK, Peers, Reply
    <3> QED BY <2>2, <3>1, <3>2 DEF VotesShowNewerTerm, TypeOK, leaderVars
  <2>3. CASE CountVotes(n)
    <3>1. UNCHANGED <<currentTerm, votedFor>>
      BY <2>3 DEF CountVotes
    <3>2. CASE BecomeLeader(n)
      BY <3>1, <3>2 DEF BecomeLeader, TypeOK, Index
    <3>3. CASE UNCHANGED <<state, leaderVars>>
      BY <3>1, <3>3 DEF TypeOK, leaderVars
    <3> QED BY <2>3, <3>2, <3>3 DEF CountVotes
  <2> QED BY <2>1, <2>2, <2>3 DEF FinishElection
<1> QED BY <1>1, <1>2, <1>3, NoCallsType DEF TypeOK

\* Ending a replication round keeps the types.
LEMMA FinishReplicationType ==
  ASSUME TypeOK, NEW n \in Server, FinishReplication(n)
  PROVE  TypeOK'
<1>1. /\ replicating' = [replicating EXCEPT ![n] = FALSE]
      /\ request' = [request EXCEPT ![n] = NoCalls]
      /\ reply' = [reply EXCEPT ![n] = NoCalls]
      /\ GiveUp(n, late)
      /\ UNCHANGED <<currentTerm, votedFor, state, log, nextIndex, matchIndex, electionTerm>>
  BY DEF FinishReplication, serverVars, leaderVars
<1>2. late' \subseteq Request
  BY <1>1, UnansweredType DEF GiveUp, TypeOK
<1>3. commitIndex' \in [Server -> Index]
  <2>1. CASE UNCHANGED commitIndex
    BY <2>1 DEF TypeOK
  <2>2. ASSUME NEW i \in NewCommits(n), commitIndex' = [commitIndex EXCEPT ![n] = i]
        PROVE  commitIndex' \in [Server -> Index]
    <3>1. i \in Index
      <4>1. commitIndex[n] \in Int /\ commitIndex[n] >= -1
        BY IndexIsInt DEF TypeOK
      <4>2. LastIndex(log[n]) \in Int
        BY DEF TypeOK, LastIndex
      <4> QED BY <4>1, <4>2, IndexIsInt DEF NewCommits
    <3> QED BY <2>2, <3>1 DEF TypeOK
  <2> QED BY <2>1, <2>2 DEF FinishReplication, AdvanceCommitIndex
<1> QED BY <1>1, <1>2, <1>3, NoCallsType DEF TypeOK

\* Appending a command on the leader keeps the types.
LEMMA ClientAppendType ==
  ASSUME TypeOK, NEW n \in Server, NEW c \in Command, ClientAppend(n, c)
  PROVE  TypeOK'
<1>1. [term |-> currentTerm[n], command |-> c] \in Entry
  BY DEF TypeOK, Entry
<1>2. log' \in [Server -> Seq(Entry)]
  BY <1>1 DEF ClientAppend, TypeOK
<1> QED BY <1>2 DEF ClientAppend, TypeOK, serverVars, leaderVars, roundVars

\* Handling an open call keeps the types.
LEMMA ReceiveType ==
  ASSUME TypeOK, NEW n \in Server, NEW p \in Server, Receive(n, p)
  PROVE  TypeOK'
<1> DEFINE m == request[n][p]
           r == [reply EXCEPT ![n][p] = Answer(p, m)]
<1>1. m \in Request /\ m.term \in Nat
  BY DEF Receive, TypeOK, Request, VoteRequest, AppendRequest
<1>2. r \in [Server -> [Server -> Reply \cup {Nil}]]
  BY <1>1, AnswerType DEF TypeOK
<1>3. Handle(p, m) /\ CancelHeartbeat(p, m.term, r, late)
      /\ UNCHANGED <<nextIndex, matchIndex, electionTerm>>
  BY DEF Receive, leaderVars
<1> HIDE DEF m, r
<1>4. late \in SUBSET Request
  BY DEF TypeOK
<1>5. /\ replicating' \in [Server -> BOOLEAN]
      /\ request' \in [Server -> [Server -> Request \cup {Nil}]]
      /\ reply' \in [Server -> [Server -> Reply \cup {Nil}]]
      /\ late' \subseteq Request
  BY <1>1, <1>2, <1>3, <1>4, CancelHeartbeatType
<1>6. /\ currentTerm' \in [Server -> Nat]
      /\ votedFor' \in [Server -> Server \cup {Nil}]
      /\ state' \in [Server -> {Follower, Candidate, Leader}]
      /\ log' \in [Server -> Seq(Entry)]
      /\ commitIndex' \in [Server -> Index]
  BY <1>1, <1>3, HandleType
<1> QED BY <1>3, <1>5, <1>6 DEF TypeOK

\* Handling a call whose caller has given up keeps the types.
LEMMA ReceiveLateType ==
  ASSUME TypeOK, NEW m \in late, ReceiveLate(m)
  PROVE  TypeOK'
<1>1. m \in Request /\ m.term \in Nat /\ m.to \in Server
  BY DEF TypeOK, Request, VoteRequest, AppendRequest
<1>2. Handle(m.to, m) /\ CancelHeartbeat(m.to, m.term, reply, late \ {m})
      /\ UNCHANGED <<nextIndex, matchIndex, electionTerm>>
  BY DEF ReceiveLate, leaderVars
<1>3. late \ {m} \in SUBSET Request /\ reply \in [Server -> [Server -> Reply \cup {Nil}]]
  BY DEF TypeOK
<1>4. /\ replicating' \in [Server -> BOOLEAN]
      /\ request' \in [Server -> [Server -> Request \cup {Nil}]]
      /\ reply' \in [Server -> [Server -> Reply \cup {Nil}]]
      /\ late' \subseteq Request
  BY <1>1, <1>2, <1>3, CancelHeartbeatType
<1>5. /\ currentTerm' \in [Server -> Nat]
      /\ votedFor' \in [Server -> Server \cup {Nil}]
      /\ state' \in [Server -> {Follower, Candidate, Leader}]
      /\ log' \in [Server -> Seq(Entry)]
      /\ commitIndex' \in [Server -> Index]
  BY <1>1, <1>2, HandleType
<1> QED BY <1>2, <1>4, <1>5 DEF TypeOK

\* The servers as created have their types.
LEMMA InitType == Init => TypeOK
<1> SUFFICES ASSUME Init PROVE TypeOK
  OBVIOUS
<1>1. <<>> \in Seq(Entry)
  BY EmptySeq
<1> QED BY <1>1, NoCallsType DEF Init, TypeOK, Index

\* Every step keeps the types.
LEMMA StepType ==
  ASSUME TypeInv, [Next]_vars
  PROVE  TypeOK'
<1>0. TypeOK
  BY DEF TypeInv
<1>1. CASE UNCHANGED vars
  BY <1>0, <1>1 DEF TypeOK, vars, serverVars, logVars, leaderVars, roundVars
<1>2. ASSUME NEW n \in Server, StartElection(n) PROVE TypeOK'
  BY <1>0, <1>2, StartElectionType
<1>3. ASSUME NEW n \in Server, FinishElection(n) PROVE TypeOK'
  BY <1>0, <1>3, FinishElectionType
<1>4. ASSUME NEW n \in Server, StartReplication(n) PROVE TypeOK'
  BY <1>0, <1>4, StartReplicationType
<1>5. ASSUME NEW n \in Server, FinishReplication(n) PROVE TypeOK'
  BY <1>0, <1>5, FinishReplicationType
<1>6. ASSUME NEW n \in Server, NEW c \in Command, ClientAppend(n, c) PROVE TypeOK'
  BY <1>0, <1>6, ClientAppendType
<1>7. ASSUME NEW n \in Server, NEW p \in Peers(n), ReceiveAppendReply(n, p) PROVE TypeOK'
  BY <1>7, ReceiveAppendReplyType DEF Peers
<1>8. ASSUME NEW n \in Server, NEW p \in Peers(n), Receive(n, p) PROVE TypeOK'
  BY <1>0, <1>8, ReceiveType DEF Peers
<1>9. ASSUME NEW m \in late, ReceiveLate(m) PROVE TypeOK'
  BY <1>0, <1>9, ReceiveLateType
<1> QED BY <1>1, <1>2, <1>3, <1>4, <1>5, <1>6, <1>7, <1>8, <1>9 DEF Next

-----------------------------------------------------------------------------
(* Calls belong to the round that waits for them *)

\* What handling a request changes in the handler's election state.
LEMMA HandleRole ==
  ASSUME TypeOK, NEW n \in Server, NEW m \in Request, Handle(n, m)
  PROVE  /\ currentTerm' = [currentTerm EXCEPT ![n] = TermSeen(n, m.term)]
         /\ votedFor' = [votedFor EXCEPT ![n] =
                           IF m.type = "vote" /\ Grants(n, m) THEN m.from
                           ELSE VoteIn(n, m.term)]
         /\ \A k \in Server \ {n} : state'[k] = state[k]
         /\ Newer(n, m.term) => state'[n] = Follower
         /\ state'[n] = state[n] \/ state'[n] = Follower
         /\ state[n] = Leader /\ ~Newer(n, m.term) => state'[n] = Leader
<1>0. m.term \in Nat /\ currentTerm \in [Server -> Nat] /\ state \in [Server -> {Follower, Candidate, Leader}]
      /\ votedFor \in [Server -> Server \cup {Nil}]
  BY DEF TypeOK, Request, VoteRequest, AppendRequest
<1>1. CASE m.type = "vote" /\ HandleRequestVote(n, m)
  BY <1>0, <1>1 DEF HandleRequestVote, RoleIn
<1>2. CASE m.type = "append" /\ HandleAppendEntries(n, m)
  <2>1. CASE FollowLeader(n, m)
    BY <1>0, <1>2, <2>1 DEF FollowLeader, RoleIn, Candidate, Leader, Follower
  <2>2. CASE RejectStaleLeader(n, m)
    <3>1. ~Newer(n, m.term)
      BY <1>0, <2>2 DEF RejectStaleLeader, LeaderIsStale, Newer
    <3> QED BY <1>0, <1>2, <2>2, <3>1 DEF RejectStaleLeader, serverVars, TermSeen, VoteIn
  <2> QED BY <1>2, <2>1, <2>2 DEF HandleAppendEntries, RejectGap, RejectConflict, AcceptEntries
<1> QED BY <1>1, <1>2 DEF Handle

\* What stepping down changes in the calls: nothing, or it drops those of n.
LEMMA CancelRole ==
  ASSUME TypeOK, NEW n \in Server, NEW t \in Nat,
         NEW r \in [Server -> [Server -> Reply \cup {Nil}]], NEW l,
         CancelHeartbeat(n, t, r, l)
  PROVE  /\ \A k \in Server \ {n} : /\ replicating'[k] = replicating[k]
                                    /\ request'[k] = request[k]
                                    /\ reply'[k] = r[k]
         /\ \/ /\ Newer(n, t) /\ replicating[n] /\ ~replicating'[n]
               /\ \A p \in Server : request'[n][p] = Nil /\ reply'[n][p] = Nil
            \/ /\ ~(Newer(n, t) /\ replicating[n]) /\ replicating'[n] = replicating[n]
               /\ request'[n] = request[n] /\ reply'[n] = r[n]
<1>0. /\ replicating \in [Server -> BOOLEAN]
      /\ request \in [Server -> [Server -> Request \cup {Nil}]]
  BY DEF TypeOK
<1>1. CASE Newer(n, t) /\ replicating[n]
  <2>1. /\ replicating' = [replicating EXCEPT ![n] = FALSE]
        /\ request' = [request EXCEPT ![n] = NoCalls]
        /\ reply' = [r EXCEPT ![n] = NoCalls]
    BY <1>1 DEF CancelHeartbeat
  <2> QED BY <1>0, <1>1, <2>1 DEF NoCalls
<1>2. CASE ~(Newer(n, t) /\ replicating[n])
  <2>1. reply' = r /\ UNCHANGED <<replicating, request>>
    BY <1>2 DEF CancelHeartbeat
  <2> QED BY <1>2, <2>1
<1> QED BY <1>1, <1>2

\* A server whose role and calls stand, but for answers, keeps its calls in order.
LEMMA CallsKept ==
  ASSUME NEW k \in Server, CallsOf(k),
         currentTerm'[k] = currentTerm[k], state'[k] = state[k],
         electionTerm'[k] = electionTerm[k], replicating'[k] = replicating[k],
         request'[k] = request[k],
         \A p \in Server : reply'[k][p] # Nil => request[k][p] # Nil
  PROVE  CallsOf(k)'
BY DEF CallsOf

\* Starting a vote round keeps the calls in order.
LEMMA StartElectionCalls ==
  ASSUME TypeInv, NEW n \in Server, StartElection(n)
  PROVE  Calls'
<1>1. /\ electionTerm[n] = 0 /\ state[n] # Leader
      /\ currentTerm' = [currentTerm EXCEPT ![n] = currentTerm[n] + 1]
      /\ electionTerm' = [electionTerm EXCEPT ![n] = currentTerm[n] + 1]
      /\ request' = [request EXCEPT ![n] =
                       [p \in Server |-> IF p = n THEN Nil ELSE AskVote(n, p, currentTerm[n] + 1)]]
      /\ state' = [state EXCEPT ![n] = Candidate]
      /\ UNCHANGED <<replicating, reply>>
  BY DEF StartElection
<1>2. \A p \in Server : reply[n][p] = Nil
  BY <1>1 DEF TypeInv, Calls, CallsOf
<1>3. TypeOK /\ Calls
  BY DEF TypeInv
<1>4. CallsOf(n)'
  <2>1. ~replicating[n]
    BY <1>1, <1>3 DEF Calls, CallsOf
  <2> QED BY <1>1, <1>2, <1>3, <2>1 DEF CallsOf, AskVote, TypeOK, Candidate, Leader
<1>5. ASSUME NEW k \in Server, k # n PROVE CallsOf(k)'
  BY <1>1, <1>3, <1>5 DEF Calls, CallsOf, TypeOK
<1> QED BY <1>4, <1>5 DEF Calls

\* Starting a replication round keeps the calls in order.
LEMMA StartReplicationCalls ==
  ASSUME TypeInv, NEW n \in Server, StartReplication(n)
  PROVE  Calls'
<1>1. /\ ~replicating[n] /\ state[n] = Leader
      /\ replicating' = [replicating EXCEPT ![n] = TRUE]
      /\ request' = [request EXCEPT ![n] =
            [p \in Server |-> IF p = n \/ OutOfLog(n, p) THEN Nil ELSE AskAppend(n, p)]]
      /\ UNCHANGED <<currentTerm, state, electionTerm, reply>>
  BY DEF StartReplication, serverVars
<1>2. TypeOK /\ Calls
  BY DEF TypeInv
<1>3. electionTerm[n] = 0 /\ \A p \in Server : reply[n][p] = Nil
  BY <1>1, <1>2 DEF Calls, CallsOf
<1>4. CallsOf(n)'
  BY <1>1, <1>2, <1>3 DEF CallsOf, AskAppend, TypeOK
<1>5. ASSUME NEW k \in Server, k # n PROVE CallsOf(k)'
  BY <1>1, <1>2, <1>5 DEF Calls, CallsOf, TypeOK
<1> QED BY <1>4, <1>5 DEF Calls

\* Counting the votes keeps the calls in order.
LEMMA FinishElectionCalls ==
  ASSUME TypeInv, NEW n \in Server, FinishElection(n)
  PROVE  Calls'
<1>1. /\ electionTerm[n] # 0
      /\ electionTerm' = [electionTerm EXCEPT ![n] = 0]
      /\ request' = [request EXCEPT ![n] = NoCalls]
      /\ reply' = [reply EXCEPT ![n] = NoCalls]
      /\ UNCHANGED replicating
  BY DEF FinishElection
<1>2. TypeOK /\ Calls
  BY DEF TypeInv
<1>3. /\ ~replicating[n]
      /\ \A k \in Server \ {n} : currentTerm'[k] = currentTerm[k] /\ state'[k] = state[k]
      /\ currentTerm'[n] \in Nat
  <2>1. ~replicating[n]
    BY <1>1, <1>2 DEF Calls, CallsOf
  <2>2. TypeOK'
    BY <1>2, FinishElectionType
  <2>3. CASE DiscardVotes(n)
    BY <2>1, <2>2, <2>3 DEF DiscardVotes, serverVars, TypeOK
  <2>4. CASE VotesShowNewerTerm(n)
    BY <1>2, <2>1, <2>2, <2>4 DEF VotesShowNewerTerm, TypeOK
  <2>5. CASE CountVotes(n)
    <3>1. /\ UNCHANGED currentTerm
          /\ state' = [state EXCEPT ![n] = Leader] \/ UNCHANGED state
      BY <2>5 DEF CountVotes, BecomeLeader
    <3> QED BY <1>2, <2>1, <3>1 DEF TypeOK
  <2>6. DiscardVotes(n) \/ VotesShowNewerTerm(n) \/ CountVotes(n)
    BY DEF FinishElection
  <2> QED BY <2>3, <2>4, <2>5, <2>6
<1>4. CallsOf(n)'
  BY <1>1, <1>2, <1>3 DEF CallsOf, NoCalls, TypeOK
<1>5. ASSUME NEW k \in Server, k # n PROVE CallsOf(k)'
  <2>1. CallsOf(k) /\ \A q \in Server : reply[k][q] # Nil => request[k][q] # Nil
    BY <1>2 DEF Calls, CallsOf
  <2> QED BY <1>1, <1>2, <1>3, <1>5, <2>1, CallsKept DEF TypeOK
<1> QED BY <1>4, <1>5 DEF Calls

\* Ending a replication round keeps the calls in order.
LEMMA FinishReplicationCalls ==
  ASSUME TypeInv, NEW n \in Server, FinishReplication(n)
  PROVE  Calls'
<1>1. /\ replicating[n]
      /\ replicating' = [replicating EXCEPT ![n] = FALSE]
      /\ request' = [request EXCEPT ![n] = NoCalls]
      /\ reply' = [reply EXCEPT ![n] = NoCalls]
      /\ UNCHANGED <<currentTerm, state, electionTerm>>
  BY DEF FinishReplication, serverVars
<1>2. TypeOK /\ Calls
  BY DEF TypeInv
<1>3. ASSUME NEW k \in Server, k # n PROVE CallsOf(k)'
  BY <1>1, <1>2, <1>3, CallsKept DEF Calls, CallsOf, TypeOK
<1>4. CallsOf(n)'
  BY <1>1, <1>2 DEF Calls, CallsOf, TypeOK, NoCalls
<1> QED BY <1>3, <1>4 DEF Calls

\* Processing an answer keeps the calls in order: one of a newer term drops them.
LEMMA ReceiveAppendReplyCalls ==
  ASSUME TypeInv, NEW n \in Server, NEW p \in Server, ReceiveAppendReply(n, p)
  PROVE  Calls'
<1> DEFINE t == reply[n][p].term
<1>1. /\ replicating[n] /\ reply[n][p] # Nil
      /\ currentTerm' = [currentTerm EXCEPT ![n] = TermSeen(n, t)]
      /\ state' = [state EXCEPT ![n] = RoleIn(n, t)]
      /\ UNCHANGED electionTerm
  BY DEF ReceiveAppendReply
<1>2. TypeOK /\ Calls
  BY DEF TypeInv
<1>3. t \in Nat
  BY <1>1, <1>2 DEF TypeOK, Reply
<1>4. state[n] = Leader /\ electionTerm[n] = 0
  BY <1>1, <1>2 DEF Calls, CallsOf
<1>5. CASE Newer(n, t)
  <2>1. CancelHeartbeat(n, t, reply, late)
    BY <1>5 DEF ReceiveAppendReply
  <2>2. /\ \A k \in Server \ {n} : /\ replicating'[k] = replicating[k]
                                   /\ request'[k] = request[k]
                                   /\ reply'[k] = reply[k]
        /\ ~replicating'[n]
        /\ \A q \in Server : request'[n][q] = Nil /\ reply'[n][q] = Nil
    <3>1. reply \in [Server -> [Server -> Reply \cup {Nil}]]
      BY <1>2 DEF TypeOK
    <3> HIDE DEF t
    <3> QED BY <1>1, <1>2, <1>3, <1>5, <2>1, <3>1, CancelRole
  <2> HIDE DEF t
  <2>3. ASSUME NEW k \in Server, k # n PROVE CallsOf(k)'
    <3>1. CallsOf(k) /\ \A q \in Server : reply'[k][q] # Nil => request[k][q] # Nil
      BY <1>2, <2>2, <2>3 DEF Calls, CallsOf
    <3> QED BY <1>1, <1>2, <2>2, <2>3, <3>1, CallsKept DEF TypeOK
  <2>4. CallsOf(n)'
    <3>1. electionTerm'[n] = 0 /\ currentTerm'[n] \in Nat
      BY <1>1, <1>2, <1>3, <1>4 DEF TermSeen, TypeOK
    <3> QED BY <2>2, <3>1 DEF CallsOf
  <2> QED BY <2>3, <2>4 DEF Calls
<1>6. CASE ~Newer(n, t)
  <2>1. /\ request' = [request EXCEPT ![n][p] = Nil]
        /\ reply' = [reply EXCEPT ![n][p] = Nil]
        /\ UNCHANGED replicating
    BY <1>6 DEF ReceiveAppendReply
  <2>2. UNCHANGED <<currentTerm, state>>
    BY <1>1, <1>2, <1>6 DEF TermSeen, RoleIn, TypeOK
  <2> HIDE DEF t
  <2>3. ASSUME NEW k \in Server, k # n PROVE CallsOf(k)'
    <3>1. CallsOf(k) /\ \A q \in Server : reply[k][q] # Nil => request[k][q] # Nil
      BY <1>2 DEF Calls, CallsOf
    <3>2. request'[k] = request[k] /\ reply'[k] = reply[k]
      BY <1>2, <2>1, <2>3 DEF TypeOK
    <3> QED BY <1>1, <1>2, <2>1, <2>2, <2>3, <3>1, <3>2, CallsKept
  <2>4. CallsOf(n)'
    <3>1. \A q \in Server : /\ request'[n][q] = IF q = p THEN Nil ELSE request[n][q]
                            /\ reply'[n][q] = IF q = p THEN Nil ELSE reply[n][q]
      BY <1>2, <2>1 DEF TypeOK
    <3> QED BY <1>1, <1>2, <2>1, <2>2, <3>1 DEF Calls, CallsOf
  <2> QED BY <2>3, <2>4 DEF Calls
<1> QED BY <1>5, <1>6

\* A request is handled; the reply table has become r besides.
LEMMA HandleCalls ==
  ASSUME TypeInv, NEW n \in Server, NEW m \in Request, NEW l,
         NEW r \in [Server -> [Server -> Reply \cup {Nil}]],
         \A k, p \in Server : r[k][p] # Nil => request[k][p] # Nil,
         Handle(n, m), CancelHeartbeat(n, m.term, r, l), UNCHANGED electionTerm
  PROVE  Calls'
<1>0. TypeOK /\ Calls /\ m.term \in Nat
  BY DEF TypeInv, Request, VoteRequest, AppendRequest
<1>1. /\ currentTerm' = [currentTerm EXCEPT ![n] = TermSeen(n, m.term)]
      /\ \A k \in Server \ {n} : state'[k] = state[k]
      /\ state'[n] = state[n] \/ state'[n] = Follower
      /\ state[n] = Leader /\ ~Newer(n, m.term) => state'[n] = Leader
  BY <1>0, HandleRole
<1>2. /\ \A k \in Server \ {n} : /\ replicating'[k] = replicating[k]
                                 /\ request'[k] = request[k]
                                 /\ reply'[k] = r[k]
      /\ \/ /\ Newer(n, m.term) /\ replicating[n] /\ ~replicating'[n]
            /\ \A p \in Server : request'[n][p] = Nil /\ reply'[n][p] = Nil
         \/ /\ ~(Newer(n, m.term) /\ replicating[n]) /\ replicating'[n] = replicating[n]
            /\ request'[n] = request[n] /\ reply'[n] = r[n]
  BY <1>0, CancelRole
<1>3. ASSUME NEW k \in Server, k # n PROVE CallsOf(k)'
  BY <1>0, <1>1, <1>2, <1>3, CallsKept DEF Calls, TypeOK
<1>4. CallsOf(n)'
  <2>1. currentTerm'[n] >= currentTerm[n] /\ electionTerm[n] <= currentTerm'[n]
        /\ (~Newer(n, m.term) => currentTerm'[n] = currentTerm[n])
    BY <1>0, <1>1 DEF TermSeen, Newer, TypeOK, Calls, CallsOf
  <2>2. electionTerm[n] # 0 => state'[n] # Leader
    BY <1>0, <1>1 DEF Calls, CallsOf, Follower, Leader
  <2>3. CASE ~replicating'[n] /\ \A p \in Server : request'[n][p] = Nil /\ reply'[n][p] = Nil
    BY <2>1, <2>2, <2>3 DEF CallsOf
  <2>4. CASE /\ ~(Newer(n, m.term) /\ replicating[n]) /\ replicating'[n] = replicating[n]
             /\ request'[n] = request[n] /\ reply'[n] = r[n]
    BY <1>0, <1>1, <2>1, <2>2, <2>4 DEF Calls, CallsOf
  <2> QED BY <1>2, <2>3, <2>4
<1> QED BY <1>3, <1>4 DEF Calls

\* Handling an open call keeps the calls in order.
LEMMA ReceiveCalls ==
  ASSUME TypeInv, NEW n \in Server, NEW p \in Server, Receive(n, p)
  PROVE  Calls'
<1> DEFINE m == request[n][p]
           r == [reply EXCEPT ![n][p] = Answer(p, m)]
<1>0. TypeOK /\ Calls
  BY DEF TypeInv
<1>1. m \in Request /\ m # Nil
  BY <1>0 DEF Receive, TypeOK
<1>2. r \in [Server -> [Server -> Reply \cup {Nil}]]
  BY <1>0, <1>1, AnswerType DEF TypeOK
<1>3. \A k, q \in Server : r[k][q] # Nil => request[k][q] # Nil
  BY <1>0, <1>1 DEF TypeOK, Calls, CallsOf
<1>4. Handle(p, m) /\ CancelHeartbeat(p, m.term, r, late) /\ UNCHANGED electionTerm
  BY DEF Receive
<1> HIDE DEF m, r
<1> QED BY <1>1, <1>2, <1>3, <1>4, HandleCalls

\* Handling a call whose caller has given up keeps the calls in order.
LEMMA ReceiveLateCalls ==
  ASSUME TypeInv, NEW m \in late, ReceiveLate(m)
  PROVE  Calls'
<1>1. m \in Request /\ m.to \in Server
  BY DEF TypeInv, TypeOK, Request, VoteRequest, AppendRequest
<1>2. /\ reply \in [Server -> [Server -> Reply \cup {Nil}]]
      /\ \A k, q \in Server : reply[k][q] # Nil => request[k][q] # Nil
  BY DEF TypeInv, TypeOK, Calls, CallsOf
<1>3. Handle(m.to, m) /\ CancelHeartbeat(m.to, m.term, reply, late \ {m}) /\ UNCHANGED electionTerm
  BY DEF ReceiveLate
<1> QED BY <1>1, <1>2, <1>3, HandleCalls

\* Every step keeps the calls in order.
LEMMA StepCalls ==
  ASSUME TypeInv, [Next]_vars
  PROVE  Calls'
<1>1. CASE UNCHANGED vars
  BY <1>1 DEF TypeInv, Calls, CallsOf, vars, serverVars, roundVars
<1>2. ASSUME NEW n \in Server, StartElection(n) PROVE Calls'
  BY <1>2, StartElectionCalls
<1>3. ASSUME NEW n \in Server, FinishElection(n) PROVE Calls'
  BY <1>3, FinishElectionCalls
<1>4. ASSUME NEW n \in Server, StartReplication(n) PROVE Calls'
  BY <1>4, StartReplicationCalls
<1>5. ASSUME NEW n \in Server, FinishReplication(n) PROVE Calls'
  BY <1>5, FinishReplicationCalls
<1>6. ASSUME NEW n \in Server, NEW c \in Command, ClientAppend(n, c) PROVE Calls'
  BY <1>6 DEF ClientAppend, TypeInv, Calls, CallsOf, serverVars, roundVars
<1>7. ASSUME NEW n \in Server, NEW p \in Peers(n), ReceiveAppendReply(n, p) PROVE Calls'
  BY <1>7, ReceiveAppendReplyCalls DEF Peers
<1>8. ASSUME NEW n \in Server, NEW p \in Peers(n), Receive(n, p) PROVE Calls'
  BY <1>8, ReceiveCalls DEF Peers
<1>9. ASSUME NEW m \in late, ReceiveLate(m) PROVE Calls'
  BY <1>9, ReceiveLateCalls
<1> QED BY <1>1, <1>2, <1>3, <1>4, <1>5, <1>6, <1>7, <1>8, <1>9 DEF Next

\* No calls to begin with.
LEMMA InitCalls == Init => Calls
BY DEF Init, Calls, CallsOf, NoCalls

\* Types and the order of calls together are an invariant.
LEMMA TypeInvariance == Spec => []TypeInv
<1>1. Init => TypeInv
  BY InitType, InitCalls DEF TypeInv
<1>2. TypeInv /\ [Next]_vars => TypeInv'
  BY StepType, StepCalls DEF TypeInv
<1> QED BY <1>1, <1>2, PTL DEF Spec

\* Every variable keeps its type; in particular _replicate_to_peer never computes
\* a negative index.
THEOREM TypeCorrectness == Spec => []TypeOK
<1>1. TypeInv => TypeOK
  BY DEF TypeInv
<1> QED BY <1>1, TypeInvariance, PTL

\* A reply that is still awaited when it arrives is one to a request of the
\* leadership that processes it, although _replicate_to_peer does not compare
\* terms: the cancelled heartbeat task never leaves an older one behind.
THEOREM NoStaleReplies == Spec => []RepliesAreOfThisTerm
<1>1. TypeInv => RepliesAreOfThisTerm
  BY DEF TypeInv, Calls, CallsOf, RepliesAreOfThisTerm, Peers
<1> QED BY <1>1, TypeInvariance, PTL

-----------------------------------------------------------------------------
(* Elections *)

\* q will not vote in term t, unless for a.
Bound(q, a, t) ==
  currentTerm[q] > t \/ (currentTerm[q] = t /\ votedFor[q] = a)

\* The open vote round of b holds a vote of q for term t.
HasVote(b, q, t) ==
  /\ electionTerm[b] # 0 /\ electionTerm[b] = t
  /\ reply[b][q] # Nil /\ reply[b][q].ok

Quorum == {Q \in SUBSET Server : Cardinality(Q) >= Majority}

\* Who runs or leads has voted for itself.
OwnVote == \A n \in Server : state[n] \in {Candidate, Leader} => votedFor[n] = n

\* Whose vote a round holds is bound to it.
VotesBind ==
  \A b, q \in Server : HasVote(b, q, electionTerm[b]) => Bound(q, b, electionTerm[b])

\* No server has votes in two rounds of one term.
VotesExclude ==
  \A a, b, q \in Server :
    HasVote(a, q, electionTerm[a]) /\ HasVote(b, q, electionTerm[a]) => a = b

\* Q has elected a in its current term.
ElectedBy(a, Q) ==
  \A q \in Q : /\ Bound(q, a, currentTerm[a])
               /\ \A b \in Server \ {a} : ~HasVote(b, q, currentTerm[a])

\* Every leader has a majority that elected it.
LeadersElected ==
  \A a \in Server : state[a] = Leader => \E Q \in Quorum : ElectedBy(a, Q)

ElectionInv ==
  /\ OwnVote
  /\ VotesBind
  /\ VotesExclude
  /\ LeadersElected
  /\ ElectionSafety

-----------------------------------------------------------------------------
\* Two majorities share a server.
LEMMA QuorumsMeet ==
  ASSUME NEW Q1 \in Quorum, NEW Q2 \in Quorum
  PROVE  \E q \in Server : q \in Q1 /\ q \in Q2
<1>1. IsFiniteSet(Server) /\ Q1 \subseteq Server /\ Q2 \subseteq Server
  BY ServerAssumption DEF Quorum
<1>2. Cardinality(Server) \in Nat
  BY <1>1, FS_CardinalityType
<1>3. Cardinality(Q1) \in Nat /\ Cardinality(Q2) \in Nat
  BY <1>1, FS_Subset, FS_CardinalityType
<1>4. Cardinality(Q1) + Cardinality(Q2) > Cardinality(Server)
  BY <1>2, <1>3 DEF Quorum, Majority
<1>5. Q1 \cap Q2 # {}
  BY <1>1, <1>4, FS_MajoritiesIntersect
<1> QED BY <1>1, <1>5

-----------------------------------------------------------------------------
(* Votes stand *)

\* The term and the vote of q only move on.
VotesKept(q) ==
  /\ currentTerm'[q] >= currentTerm[q]
  /\ currentTerm'[q] = currentTerm[q] /\ votedFor[q] # Nil => votedFor'[q] = votedFor[q]

\* Handling a call moves the term only forward, and keeps a vote within a term.
LEMMA HandleVotes ==
  ASSUME TypeOK, NEW n \in Server, NEW m \in Request, Handle(n, m), NEW q \in Server
  PROVE  VotesKept(q)
<1>1. /\ m.term \in Nat
      /\ currentTerm \in [Server -> Nat]
      /\ votedFor \in [Server -> Server \cup {Nil}]
  BY DEF TypeOK, Request, VoteRequest, AppendRequest
<1>2. /\ currentTerm' = [currentTerm EXCEPT ![n] = TermSeen(n, m.term)]
      /\ votedFor' = [votedFor EXCEPT ![n] =
                        IF m.type = "vote" /\ Grants(n, m) THEN m.from
                        ELSE VoteIn(n, m.term)]
  BY HandleRole
<1>3. CASE q # n
  BY <1>1, <1>2, <1>3 DEF VotesKept
<1>4. CASE q = n /\ Newer(n, m.term)
  BY <1>1, <1>2, <1>4 DEF VotesKept, TermSeen, Newer
<1>5. CASE q = n /\ ~Newer(n, m.term)
  <2>1. currentTerm'[n] = currentTerm[n] /\ VoteIn(n, m.term) = votedFor[n]
    BY <1>1, <1>2, <1>5 DEF TermSeen, VoteIn
  <2>2. Grants(n, m) /\ votedFor[n] # Nil => m.from = votedFor[n]
    BY <2>1 DEF Grants
  <2> QED BY <1>1, <1>2, <1>5, <2>1, <2>2 DEF VotesKept
<1> QED BY <1>3, <1>4, <1>5

\* So does every step.
LEMMA StepVotes ==
  ASSUME TypeInv, [Next]_vars, NEW q \in Server
  PROVE  VotesKept(q)
<1>0. TypeOK /\ currentTerm \in [Server -> Nat] /\ votedFor \in [Server -> Server \cup {Nil}]
  BY DEF TypeInv, TypeOK
<1> DEFINE Same == UNCHANGED <<currentTerm, votedFor>>
<1>1. Same => VotesKept(q)
  BY <1>0 DEF VotesKept
<1>2. CASE UNCHANGED vars
  BY <1>1, <1>2 DEF vars, serverVars
<1>3. ASSUME NEW n \in Server, StartElection(n) PROVE VotesKept(q)
  BY <1>0, <1>3 DEF StartElection, VotesKept
<1>4. ASSUME NEW n \in Server, FinishElection(n) PROVE VotesKept(q)
  <2>1. CASE DiscardVotes(n)
    BY <1>1, <2>1 DEF DiscardVotes, serverVars
  <2>2. CASE VotesShowNewerTerm(n)
    <3>1. PICK p \in Peers(n) :
            /\ reply[n][p] # Nil /\ Newer(n, reply[n][p].term)
            /\ currentTerm' = [currentTerm EXCEPT ![n] = reply[n][p].term]
      BY <2>2 DEF VotesShowNewerTerm
    <3>2. reply[n][p].term \in Nat
      BY <3>1 DEF TypeInv, TypeOK, Peers, Reply
    <3>3. votedFor' = [votedFor EXCEPT ![n] = Nil]
      BY <2>2 DEF VotesShowNewerTerm
    <3> QED BY <1>0, <3>1, <3>2, <3>3 DEF VotesKept, Newer
  <2>3. CASE CountVotes(n)
    BY <1>1, <2>3 DEF CountVotes
  <2> QED BY <1>4, <2>1, <2>2, <2>3 DEF FinishElection
<1>5. ASSUME NEW n \in Server, StartReplication(n) PROVE VotesKept(q)
  BY <1>1, <1>5 DEF StartReplication, serverVars
<1>6. ASSUME NEW n \in Server, FinishReplication(n) PROVE VotesKept(q)
  BY <1>1, <1>6 DEF FinishReplication, serverVars
<1>7. ASSUME NEW n \in Server, NEW c \in Command, ClientAppend(n, c) PROVE VotesKept(q)
  BY <1>1, <1>7 DEF ClientAppend, serverVars
<1>8. ASSUME NEW n \in Server, NEW p \in Peers(n), ReceiveAppendReply(n, p) PROVE VotesKept(q)
  <2> DEFINE t == reply[n][p].term
  <2>1. t \in Nat
    BY <1>8 DEF ReceiveAppendReply, TypeInv, TypeOK, Peers, Reply
  <2>2. /\ currentTerm' = [currentTerm EXCEPT ![n] = TermSeen(n, t)]
        /\ votedFor' = [votedFor EXCEPT ![n] = VoteIn(n, t)]
    BY <1>8 DEF ReceiveAppendReply
  <2> HIDE DEF t
  <2> QED BY <1>0, <2>1, <2>2 DEF VotesKept, TermSeen, VoteIn, Newer
<1>9. ASSUME NEW n \in Server, NEW p \in Peers(n), Receive(n, p) PROVE VotesKept(q)
  <2>1. request[n][p] \in Request /\ Handle(p, request[n][p]) /\ p \in Server
    BY <1>0, <1>9 DEF Receive, TypeOK, Peers
  <2> QED BY <1>0, <2>1, HandleVotes
<1>10. ASSUME NEW m \in late, ReceiveLate(m) PROVE VotesKept(q)
  <2>1. m \in Request /\ m.to \in Server /\ Handle(m.to, m)
    BY <1>0, <1>10 DEF ReceiveLate, TypeOK, Request, VoteRequest, AppendRequest
  <2> QED BY <1>0, <2>1, HandleVotes
<1> QED BY <1>2, <1>3, <1>4, <1>5, <1>6, <1>7, <1>8, <1>9, <1>10 DEF Next

\* Terms never go back, and a vote stands for the rest of its term.
THEOREM VotesAreKept == Spec => VotesStand
<1>1. TypeInv /\ [Next]_vars =>
        [\A n \in Server :
           /\ currentTerm'[n] >= currentTerm[n]
           /\ currentTerm'[n] = currentTerm[n] /\ votedFor[n] # Nil
                => votedFor'[n] = votedFor[n]]_vars
  BY StepVotes DEF VotesKept
<1> QED BY <1>1, TypeInvariance, PTL DEF Spec, VotesStand

-----------------------------------------------------------------------------
(* The election invariant is inductive *)

\* A server bound in a term stays bound in it.
LEMMA BoundStable ==
  ASSUME TypeInv, [Next]_vars, NEW q \in Server, NEW a \in Server, NEW t \in Nat, Bound(q, a, t)
  PROVE  Bound(q, a, t)'
<1>1. VotesKept(q)
  BY StepVotes
<1>2. currentTerm[q] \in Nat /\ currentTerm'[q] \in Nat /\ votedFor[q] \in Server \cup {Nil}
  BY StepType DEF TypeInv, TypeOK
<1>3. a # Nil
  BY NilAssumption
<1> QED BY <1>1, <1>2, <1>3 DEF Bound, VotesKept

\* A server that is bound in a term grants no other server its vote in it.
LEMMA BoundRefuses ==
  ASSUME TypeOK, NEW q \in Server, NEW a \in Server, NEW m \in Request,
         Bound(q, a, m.term), Grants(q, m)
  PROVE  m.from = a
<1>1. m.term \in Nat /\ currentTerm[q] \in Nat
  BY DEF TypeOK, Request, VoteRequest, AppendRequest
<1>2. currentTerm[q] = m.term /\ votedFor[q] = a /\ ~Newer(q, m.term)
  BY <1>1 DEF Bound, Grants, TermSeen, Newer
<1>3. a # Nil
  BY NilAssumption
<1> QED BY <1>2, <1>3 DEF Grants, VoteIn

\* Steps that bring no new vote to an open round and no new leader.
NoNewVotes ==
  \A b, q \in Server :
    electionTerm'[b] # 0 /\ reply'[b][q] # Nil /\ reply'[b][q].ok
      => /\ electionTerm'[b] = electionTerm[b]
         /\ reply[b][q] # Nil /\ reply[b][q].ok

NoNewLeaders ==
  \A a \in Server :
    state'[a] = Leader => state[a] = Leader /\ currentTerm'[a] = currentTerm[a]

\* Voters stay bound to the rounds that hold their votes while no vote comes in.
LEMMA VotesBindKept ==
  ASSUME TypeInv, [Next]_vars, VotesBind, NoNewVotes
  PROVE  VotesBind'
<1> SUFFICES ASSUME NEW b \in Server, NEW q \in Server, HasVote(b, q, electionTerm[b])'
             PROVE  Bound(q, b, electionTerm[b])'
  BY DEF VotesBind
<1>1. electionTerm'[b] = electionTerm[b] /\ HasVote(b, q, electionTerm[b])
  BY DEF NoNewVotes, HasVote
<1>2. electionTerm[b] \in Nat
  BY DEF TypeInv, TypeOK
<1>3. Bound(q, b, electionTerm[b])
  BY <1>1 DEF VotesBind
<1> DEFINE t == electionTerm[b]
<1>4. \A u \in Nat : Bound(q, b, u) => (currentTerm'[q] > u \/ (currentTerm'[q] = u /\ votedFor'[q] = b))
  BY BoundStable DEF Bound
<1> QED BY <1>1, <1>2, <1>3, <1>4 DEF Bound

\* No voter counts for two rounds of a term while no vote comes in.
LEMMA VotesExcludeKept ==
  ASSUME VotesExclude, NoNewVotes
  PROVE  VotesExclude'
BY DEF VotesExclude, NoNewVotes, HasVote

\* Who was elected in a term stays elected in it, whatever votes come in.
LEMMA ElectedKept ==
  ASSUME TypeInv, [Next]_vars, NEW a \in Server, NEW Q \in Quorum, ElectedBy(a, Q),
         currentTerm'[a] = currentTerm[a],
         \A b \in Server, q \in Q :
           HasVote(b, q, currentTerm[a])' => b = a \/ HasVote(b, q, currentTerm[a])
  PROVE  ElectedBy(a, Q)'
<1>1. currentTerm[a] \in Nat /\ Q \subseteq Server
  BY DEF TypeInv, TypeOK, Quorum
<1>2. \A q \in Q : Bound(q, a, currentTerm[a])'
  <2> SUFFICES ASSUME NEW q \in Q
               PROVE  currentTerm'[q] > currentTerm'[a]
                      \/ (currentTerm'[q] = currentTerm'[a] /\ votedFor'[q] = a)
    BY DEF Bound
  <2>1. \A u \in Nat : Bound(q, a, u) => (currentTerm'[q] > u \/ (currentTerm'[q] = u /\ votedFor'[q] = a))
    BY <1>1, BoundStable DEF Bound
  <2> QED BY <1>1, <2>1 DEF ElectedBy
<1> QED BY <1>2 DEF ElectedBy

\* A step that brings neither a vote nor a leader keeps the election invariant.
LEMMA ElectionKept ==
  ASSUME TypeInv, ElectionInv, [Next]_vars, NoNewVotes, NoNewLeaders, OwnVote'
  PROVE  ElectionInv'
<1>1. VotesBind' /\ VotesExclude'
  BY VotesBindKept, VotesExcludeKept DEF ElectionInv
<1>2. LeadersElected'
  <2> SUFFICES ASSUME NEW a \in Server, state'[a] = Leader
               PROVE  \E Q \in Quorum : ElectedBy(a, Q)'
    BY DEF LeadersElected, Quorum, Majority
  <2>1. state[a] = Leader /\ currentTerm'[a] = currentTerm[a]
    BY DEF NoNewLeaders
  <2>2. PICK Q \in Quorum : ElectedBy(a, Q)
    BY <2>1 DEF ElectionInv, LeadersElected
  <2>3. \A b \in Server, q \in Q :
          HasVote(b, q, currentTerm[a])' => b = a \/ HasVote(b, q, currentTerm[a])
    BY <2>1 DEF NoNewVotes, HasVote, Quorum
  <2> QED BY <2>1, <2>2, <2>3, ElectedKept
<1>3. ElectionSafety'
  BY DEF ElectionInv, ElectionSafety, NoNewLeaders
<1> QED BY <1>1, <1>2, <1>3 DEF ElectionInv

\* Handling a request makes no server a candidate or a leader, and a candidate or
\* leader it leaves as such keeps its vote.
LEMMA HandleElection ==
  ASSUME TypeOK, OwnVote, NEW n \in Server, NEW m \in Request, Handle(n, m)
  PROVE  NoNewLeaders /\ OwnVote'
<1>1. /\ m.term \in Nat
      /\ currentTerm \in [Server -> Nat]
      /\ votedFor \in [Server -> Server \cup {Nil}]
  BY DEF TypeOK, Request, VoteRequest, AppendRequest
<1>2. /\ currentTerm' = [currentTerm EXCEPT ![n] = TermSeen(n, m.term)]
      /\ votedFor' = [votedFor EXCEPT ![n] =
                        IF m.type = "vote" /\ Grants(n, m) THEN m.from
                        ELSE VoteIn(n, m.term)]
      /\ \A k \in Server \ {n} : state'[k] = state[k]
      /\ Newer(n, m.term) => state'[n] = Follower
      /\ state'[n] = state[n] \/ state'[n] = Follower
  BY HandleRole
<1>3. state'[n] \in {Candidate, Leader} => ~Newer(n, m.term) /\ state'[n] = state[n]
  BY <1>2 DEF Follower, Candidate, Leader
<1>4. NoNewLeaders
  BY <1>1, <1>2, <1>3 DEF NoNewLeaders, TermSeen, Leader
<1>5. ASSUME state'[n] \in {Candidate, Leader} PROVE votedFor'[n] = n
  <2>1. ~Newer(n, m.term) /\ votedFor[n] = n /\ n # Nil
    BY <1>3, <1>5, NilAssumption DEF OwnVote
  <2>2. VoteIn(n, m.term) = n
    BY <2>1 DEF VoteIn
  <2>3. Grants(n, m) => m.from = n
    BY <2>1, <2>2 DEF Grants
  <2> QED BY <1>1, <1>2, <2>2, <2>3
<1>6. OwnVote'
  BY <1>1, <1>2, <1>5 DEF OwnVote
<1> QED BY <1>4, <1>6

\* Starting a vote round keeps the election invariant.
LEMMA StartElectionInv ==
  ASSUME TypeInv, ElectionInv, NEW n \in Server, StartElection(n)
  PROVE  ElectionInv'
<1>0. [Next]_vars
  BY DEF Next
<1>1. /\ state[n] # Leader
      /\ electionTerm' = [electionTerm EXCEPT ![n] = currentTerm[n] + 1]
      /\ currentTerm' = [currentTerm EXCEPT ![n] = currentTerm[n] + 1]
      /\ votedFor' = [votedFor EXCEPT ![n] = n]
      /\ state' = [state EXCEPT ![n] = Candidate]
      /\ UNCHANGED reply
  BY DEF StartElection
<1>2. TypeOK /\ OwnVote
  BY DEF TypeInv, ElectionInv
<1>3. \A p \in Server : reply[n][p] = Nil
  BY DEF StartElection, TypeInv, Calls, CallsOf
<1>4. NoNewVotes
  BY <1>1, <1>2, <1>3 DEF NoNewVotes, TypeOK
<1>5. NoNewLeaders
  BY <1>1, <1>2 DEF NoNewLeaders, TypeOK, Candidate, Leader
<1>6. OwnVote'
  BY <1>1, <1>2 DEF OwnVote, TypeOK
<1> QED BY <1>0, <1>4, <1>5, <1>6, ElectionKept

\* Counting the votes keeps it: a new leader has a majority, which meets that of
\* any other leader of its term.
LEMMA FinishElectionInv ==
  ASSUME TypeInv, ElectionInv, NEW n \in Server, FinishElection(n)
  PROVE  ElectionInv'
<1>0. [Next]_vars /\ TypeOK /\ OwnVote
  BY DEF Next, TypeInv, ElectionInv
<1>1. /\ electionTerm[n] # 0
      /\ electionTerm' = [electionTerm EXCEPT ![n] = 0]
      /\ reply' = [reply EXCEPT ![n] = NoCalls]
  BY DEF FinishElection
<1>2. NoNewVotes
  BY <1>0, <1>1 DEF NoNewVotes, TypeOK
<1>3. CASE DiscardVotes(n)
  <2>1. UNCHANGED <<currentTerm, votedFor, state>>
    BY <1>3 DEF DiscardVotes, serverVars
  <2>2. NoNewLeaders /\ OwnVote'
    BY <1>0, <2>1 DEF NoNewLeaders, OwnVote
  <2> QED BY <1>0, <1>2, <2>2, ElectionKept
<1>4. CASE VotesShowNewerTerm(n)
  <2>1. /\ votedFor' = [votedFor EXCEPT ![n] = Nil]
        /\ state' = [state EXCEPT ![n] = Follower]
        /\ \A k \in Server \ {n} : currentTerm'[k] = currentTerm[k]
    BY <1>0, <1>4 DEF VotesShowNewerTerm, TypeOK
  <2>2. NoNewLeaders /\ OwnVote'
    BY <1>0, <2>1 DEF NoNewLeaders, OwnVote, TypeOK, Follower, Candidate, Leader
  <2> QED BY <1>0, <1>2, <2>2, ElectionKept
<1>5. CASE CountVotes(n)
  <2>1. /\ ~VotesAreStale(n)
        /\ UNCHANGED <<currentTerm, votedFor>>
    BY <1>5 DEF CountVotes
  <2>2. /\ state[n] = Candidate /\ votedFor[n] = n
        /\ electionTerm[n] = currentTerm[n] /\ currentTerm[n] \in Nat
    BY <1>0, <2>1 DEF VotesAreStale, OwnVote, TypeOK
  <2>3. PICK granted \in SUBSET {p \in Peers(n) : reply[n][p] # Nil /\ reply[n][p].ok} :
          IF WinsVote(n, granted) THEN BecomeLeader(n)
          ELSE UNCHANGED <<state, leaderVars>>
    BY <1>5 DEF CountVotes
  <2>4. CASE ~WinsVote(n, granted)
    <3>1. NoNewLeaders /\ OwnVote'
      BY <1>0, <2>1, <2>3, <2>4 DEF NoNewLeaders, OwnVote
    <3> QED BY <1>0, <1>2, <3>1, ElectionKept
  <2>5. CASE WinsVote(n, granted)
    <3> DEFINE Q == granted \cup {n}
               t == currentTerm[n]
    <3>1. state' = [state EXCEPT ![n] = Leader]
      BY <2>3, <2>5 DEF BecomeLeader
    <3>2. Q \in Quorum
      BY <2>5 DEF WinsVote, Quorum, Peers
    <3>3. \A q \in granted : q \in Server /\ HasVote(n, q, t)
      BY <1>1, <2>2 DEF HasVote, Peers
    <3>4. ElectedBy(n, Q)
      <4>1. ASSUME NEW q \in Q PROVE Bound(q, n, t)
        <5>1. CASE q = n
          BY <2>2, <5>1 DEF Bound
        <5>2. CASE q \in granted
          BY <2>2, <3>3, <5>2 DEF ElectionInv, VotesBind
        <5> QED BY <5>1, <5>2
      <4>2. ASSUME NEW q \in Q, NEW b \in Server \ {n}, HasVote(b, q, t) PROVE FALSE
        <5>1. CASE q = n
          <6>1. electionTerm[b] = t
            BY <4>2 DEF HasVote
          <6>2. Bound(n, b, t)
            BY <4>2, <5>1, <6>1 DEF ElectionInv, VotesBind
          <6> QED BY <2>2, <6>2 DEF Bound
        <5>2. CASE q \in granted
          BY <2>2, <3>3, <4>2, <5>2 DEF ElectionInv, VotesExclude
        <5> QED BY <5>1, <5>2
      <4> QED BY <4>1, <4>2 DEF ElectedBy
    <3>5. \A a \in Server \ {n} : state[a] = Leader => currentTerm[a] # t
      <4> SUFFICES ASSUME NEW a \in Server \ {n}, state[a] = Leader, currentTerm[a] = t
                   PROVE  FALSE
        OBVIOUS
      <4>1. PICK R \in Quorum : ElectedBy(a, R)
        BY DEF ElectionInv, LeadersElected
      <4>2. PICK q \in Server : q \in R /\ q \in Q
        BY <3>2, QuorumsMeet
      <4>3. Bound(q, a, t) /\ ~HasVote(n, q, t)
        BY <4>1, <4>2 DEF ElectedBy
      <4>4. CASE q = n
        BY <2>2, <4>3, <4>4 DEF Bound
      <4>5. CASE q \in granted
        BY <3>3, <4>3, <4>5
      <4> QED BY <4>2, <4>4, <4>5
    <3>6. OwnVote'
      BY <1>0, <2>1, <2>2, <3>1 DEF OwnVote, TypeOK
    <3>7. VotesBind' /\ VotesExclude'
      BY <1>0, <1>2, VotesBindKept, VotesExcludeKept DEF ElectionInv
    <3>8. ElectionSafety'
      BY <1>0, <2>1, <3>1, <3>5 DEF ElectionInv, ElectionSafety, TypeOK
    <3>9. LeadersElected'
      <4> SUFFICES ASSUME NEW a \in Server, state'[a] = Leader
                   PROVE  \E R \in Quorum : ElectedBy(a, R)'
        BY DEF LeadersElected, Quorum, Majority
      <4>1. PICK R \in Quorum : ElectedBy(a, R)
        <5>1. CASE a = n
          BY <3>2, <3>4, <5>1
        <5>2. CASE a # n
          BY <1>0, <3>1, <5>2 DEF ElectionInv, LeadersElected, TypeOK
        <5> QED BY <5>1, <5>2
      <4>2. \A b \in Server, q \in R :
              HasVote(b, q, currentTerm[a])' => b = a \/ HasVote(b, q, currentTerm[a])
        BY <1>2, <2>1 DEF NoNewVotes, HasVote, Quorum
      <4> QED BY <1>0, <2>1, <4>1, <4>2, ElectedKept
    <3> QED BY <3>6, <3>7, <3>8, <3>9 DEF ElectionInv
  <2> QED BY <2>4, <2>5
<1> QED BY <1>3, <1>4, <1>5 DEF FinishElection

\* The only step that brings a vote.
LEMMA ReceiveInv ==
  ASSUME TypeInv, ElectionInv, NEW n \in Server, NEW p \in Peers(n), Receive(n, p)
  PROVE  ElectionInv'
<1> DEFINE m == request[n][p]
           r == [reply EXCEPT ![n][p] = Answer(p, m)]
<1>0. [Next]_vars /\ TypeOK /\ Calls /\ OwnVote /\ p \in Server /\ p # n
  BY DEF Next, TypeInv, ElectionInv, Peers
<1>1. m \in Request /\ m # Nil /\ reply[n][p] = Nil /\ m.term \in Nat
  BY <1>0 DEF Receive, TypeOK, Request, VoteRequest, AppendRequest
<1>2. r \in [Server -> [Server -> Reply \cup {Nil}]]
  BY <1>0, <1>1, AnswerType DEF TypeOK
<1>3. /\ Handle(p, m) /\ CancelHeartbeat(p, m.term, r, late)
      /\ UNCHANGED electionTerm
  BY DEF Receive
<1>4. NoNewLeaders /\ OwnVote'
  BY <1>0, <1>1, <1>3, HandleElection
<1>5. \A b, q \in Server : reply'[b][q] # Nil => reply'[b][q] = r[b][q]
  <2> HIDE DEF m, r
  <2> QED BY <1>0, <1>1, <1>2, <1>3, CancelRole
<1>6. \A b, q \in Server : ~(b = n /\ q = p) => r[b][q] = reply[b][q]
  BY <1>0 DEF TypeOK
<1>7. r[n][p] = Answer(p, m)
  BY <1>0 DEF TypeOK
\* A new vote is p's for n, in the term n's round asks for.
<1>8. ASSUME NEW b \in Server, NEW q \in Server, HasVote(b, q, electionTerm[b])',
             ~HasVote(b, q, electionTerm[b])
      PROVE  b = n /\ q = p /\ Grants(p, m) /\ m.from = n /\ m.term = electionTerm[n]
  <2>1. electionTerm[b] # 0 /\ reply'[b][q] # Nil /\ reply'[b][q].ok
    BY <1>3, <1>8 DEF HasVote
  <2>2. b = n /\ q = p
    BY <1>5, <1>6, <1>8, <2>1 DEF HasVote
  <2>3. m.type = "vote" /\ m.from = n /\ m.term = electionTerm[n]
    BY <1>0, <1>1, <2>1, <2>2 DEF Calls, CallsOf
  <2>4. Answer(p, m).ok
    BY <1>5, <1>7, <2>1, <2>2
  <2> QED BY <2>2, <2>3, <2>4 DEF Answer
<1>9. VotesBind'
  <2> SUFFICES ASSUME NEW b \in Server, NEW q \in Server, HasVote(b, q, electionTerm[b])'
               PROVE  Bound(q, b, electionTerm[b])'
    BY DEF VotesBind
  <2>1. electionTerm'[b] = electionTerm[b] /\ electionTerm[b] \in Nat
    BY <1>0, <1>3 DEF TypeOK
  <2>2. CASE HasVote(b, q, electionTerm[b])
    <3>1. Bound(q, b, electionTerm[b])
      BY <2>2 DEF ElectionInv, VotesBind
    <3>2. \A u \in Nat : Bound(q, b, u) =>
            (currentTerm'[q] > u \/ (currentTerm'[q] = u /\ votedFor'[q] = b))
      BY <1>0, BoundStable DEF Bound
    <3> QED BY <2>1, <3>1, <3>2 DEF Bound
  <2>3. CASE ~HasVote(b, q, electionTerm[b])
    <3>1. b = n /\ q = p /\ Grants(p, m) /\ m.from = n /\ m.term = electionTerm[n]
      BY <1>8, <2>3
    <3>2. m.type = "vote"
      BY <1>0, <1>1, <2>1, <3>1 DEF Calls, CallsOf, HasVote
    <3>3. /\ currentTerm' = [currentTerm EXCEPT ![p] = TermSeen(p, m.term)]
          /\ votedFor' = [votedFor EXCEPT ![p] =
                            IF m.type = "vote" /\ Grants(p, m) THEN m.from
                            ELSE VoteIn(p, m.term)]
      BY <1>0, <1>1, <1>3, HandleRole
    <3>4. currentTerm'[p] = m.term /\ votedFor'[p] = n
      BY <1>0, <3>1, <3>2, <3>3 DEF TypeOK, Grants
    <3> QED BY <2>1, <3>1, <3>4 DEF Bound
  <2> QED BY <2>2, <2>3
<1>10. VotesExclude'
  <2> SUFFICES ASSUME NEW a \in Server, NEW b \in Server, NEW q \in Server,
                      HasVote(a, q, electionTerm[a])', HasVote(b, q, electionTerm[a])'
               PROVE  a = b
    BY DEF VotesExclude
  <2>1. electionTerm[a] = electionTerm[b] /\ HasVote(b, q, electionTerm[b])'
        /\ electionTerm'[a] = electionTerm[a]
    BY <1>3 DEF HasVote
  \* q already had bound itself to the other one
  <2>2. ASSUME NEW c \in Server, NEW d \in Server,
               ~HasVote(c, q, electionTerm[c]), HasVote(c, q, electionTerm[c])',
               HasVote(d, q, electionTerm[d]), electionTerm[c] = electionTerm[d]
        PROVE  c = d
    <3>1. c = n /\ q = p /\ Grants(p, m) /\ m.from = n /\ m.term = electionTerm[n]
      BY <1>8, <2>2
    <3>2. Bound(p, d, m.term)
      BY <2>2, <3>1 DEF ElectionInv, VotesBind
    <3> QED BY <1>0, <1>1, <3>1, <3>2, BoundRefuses
  <2>3. CASE HasVote(a, q, electionTerm[a]) /\ HasVote(b, q, electionTerm[b])
    BY <2>1, <2>3 DEF ElectionInv, VotesExclude
  <2>4. CASE ~HasVote(a, q, electionTerm[a]) /\ HasVote(b, q, electionTerm[b])
    BY <2>1, <2>2, <2>4
  <2>5. CASE HasVote(a, q, electionTerm[a]) /\ ~HasVote(b, q, electionTerm[b])
    BY <2>1, <2>2, <2>5
  <2>6. CASE ~HasVote(a, q, electionTerm[a]) /\ ~HasVote(b, q, electionTerm[b])
    BY <1>8, <2>1, <2>6
  <2> QED BY <2>3, <2>4, <2>5, <2>6
<1>11. LeadersElected'
  <2> SUFFICES ASSUME NEW a \in Server, state'[a] = Leader
               PROVE  \E Q \in Quorum : ElectedBy(a, Q)'
    BY DEF LeadersElected, Quorum, Majority
  <2>1. state[a] = Leader /\ currentTerm'[a] = currentTerm[a]
    BY <1>4 DEF NoNewLeaders
  <2>2. PICK Q \in Quorum : ElectedBy(a, Q)
    BY <2>1 DEF ElectionInv, LeadersElected
  <2>3. ASSUME NEW b \in Server, NEW q \in Q, HasVote(b, q, currentTerm[a])',
               ~HasVote(b, q, currentTerm[a])
        PROVE  b = a
    <3>1. q \in Server /\ electionTerm[b] = currentTerm[a]
          /\ HasVote(b, q, electionTerm[b])' /\ ~HasVote(b, q, electionTerm[b])
      BY <1>3, <2>1, <2>3 DEF HasVote, Quorum
    <3>2. b = n /\ q = p /\ Grants(p, m) /\ m.from = n /\ m.term = currentTerm[a]
      BY <1>8, <3>1
    <3>3. Bound(p, a, m.term)
      BY <2>2, <3>2 DEF ElectedBy
    <3> QED BY <1>0, <1>1, <3>2, <3>3, BoundRefuses
  <2> QED BY <1>0, <2>1, <2>2, <2>3, ElectedKept
<1>12. ElectionSafety'
  BY <1>4 DEF ElectionInv, ElectionSafety, NoNewLeaders
<1> QED BY <1>4, <1>9, <1>10, <1>11, <1>12 DEF ElectionInv

\* A call whose caller has given up keeps the election invariant.
LEMMA ReceiveLateInv ==
  ASSUME TypeInv, ElectionInv, NEW m \in late, ReceiveLate(m)
  PROVE  ElectionInv'
<1>0. [Next]_vars /\ TypeOK /\ OwnVote
  BY DEF Next, TypeInv, ElectionInv
<1>1. m \in Request /\ m.to \in Server /\ m.term \in Nat
  BY <1>0 DEF TypeOK, Request, VoteRequest, AppendRequest
<1>2. Handle(m.to, m) /\ CancelHeartbeat(m.to, m.term, reply, late \ {m})
      /\ UNCHANGED electionTerm
  BY DEF ReceiveLate
<1>3. NoNewLeaders /\ OwnVote'
  BY <1>0, <1>1, <1>2, HandleElection
<1>4. \A b, q \in Server : reply'[b][q] # Nil => reply'[b][q] = reply[b][q]
  <2>1. reply \in [Server -> [Server -> Reply \cup {Nil}]]
    BY <1>0 DEF TypeOK
  <2> QED BY <1>0, <1>1, <1>2, <2>1, CancelRole
<1>5. NoNewVotes
  BY <1>2, <1>4 DEF NoNewVotes
<1> QED BY <1>0, <1>3, <1>5, ElectionKept

\* Processing an answer to AppendEntries keeps the election invariant.
LEMMA ReceiveAppendReplyInv ==
  ASSUME TypeInv, ElectionInv, NEW n \in Server, NEW p \in Peers(n), ReceiveAppendReply(n, p)
  PROVE  ElectionInv'
<1> DEFINE t == reply[n][p].term
<1>0. [Next]_vars /\ TypeOK /\ OwnVote /\ p \in Server
  BY DEF Next, TypeInv, ElectionInv, Peers
<1>1. /\ t \in Nat /\ state[n] = Leader
      /\ currentTerm' = [currentTerm EXCEPT ![n] = TermSeen(n, t)]
      /\ votedFor' = [votedFor EXCEPT ![n] = VoteIn(n, t)]
      /\ state' = [state EXCEPT ![n] = RoleIn(n, t)]
      /\ UNCHANGED electionTerm
  BY <1>0 DEF ReceiveAppendReply, TypeInv, Calls, CallsOf, TypeOK, Reply
<1>2. \A b, q \in Server : reply'[b][q] # Nil => reply'[b][q] = reply[b][q]
  <2>1. reply \in [Server -> [Server -> Reply \cup {Nil}]]
    BY <1>0 DEF TypeOK
  <2>2. CASE Newer(n, t)
    <3>1. CancelHeartbeat(n, t, reply, late)
      BY <2>2 DEF ReceiveAppendReply
    <3>2. replicating[n]
      BY DEF ReceiveAppendReply
    <3> HIDE DEF t
    <3>3. /\ \A k \in Server \ {n} : reply'[k] = reply[k]
          /\ \A q \in Server : reply'[n][q] = Nil
      BY <1>0, <1>1, <2>1, <2>2, <3>1, <3>2, CancelRole
    <3> QED BY <3>3
  <2>3. CASE ~Newer(n, t)
    <3>1. reply' = [reply EXCEPT ![n][p] = Nil]
      BY <2>3 DEF ReceiveAppendReply
    <3> QED BY <1>0, <2>1, <3>1
  <2> QED BY <2>2, <2>3
<1> HIDE DEF t
<1>3. NoNewVotes
  BY <1>1, <1>2 DEF NoNewVotes
<1>4. NoNewLeaders /\ OwnVote'
  BY <1>0, <1>1 DEF NoNewLeaders, OwnVote, TypeOK, TermSeen, VoteIn, RoleIn, Follower, Candidate, Leader
<1> QED BY <1>0, <1>3, <1>4, ElectionKept

\* The steps of a leader that concern its log only.
LEMMA LeaderStepInv ==
  ASSUME TypeInv, ElectionInv, [Next]_vars, UNCHANGED <<serverVars, electionTerm>>,
         \A b, q \in Server : reply'[b][q] # Nil => reply'[b][q] = reply[b][q]
  PROVE  ElectionInv'
<1>1. NoNewVotes
  BY DEF NoNewVotes
<1>2. NoNewLeaders /\ OwnVote'
  BY DEF NoNewLeaders, OwnVote, ElectionInv, serverVars
<1> QED BY <1>1, <1>2, ElectionKept

\* The election invariant is inductive.
LEMMA StepElection ==
  ASSUME TypeInv, ElectionInv, [Next]_vars
  PROVE  ElectionInv'
<1>0. TypeOK
  BY DEF TypeInv
<1>1. CASE UNCHANGED vars
  BY <1>1, LeaderStepInv DEF vars, serverVars, roundVars
<1>2. ASSUME NEW n \in Server, StartElection(n) PROVE ElectionInv'
  BY <1>2, StartElectionInv
<1>3. ASSUME NEW n \in Server, FinishElection(n) PROVE ElectionInv'
  BY <1>3, FinishElectionInv
<1>4. ASSUME NEW n \in Server, StartReplication(n) PROVE ElectionInv'
  BY <1>4, LeaderStepInv DEF StartReplication
<1>5. ASSUME NEW n \in Server, FinishReplication(n) PROVE ElectionInv'
  <2>1. \A b, q \in Server : reply'[b][q] # Nil => reply'[b][q] = reply[b][q]
    BY <1>0, <1>5 DEF FinishReplication, TypeOK, NoCalls
  <2> QED BY <1>5, <2>1, LeaderStepInv DEF FinishReplication
<1>6. ASSUME NEW n \in Server, NEW c \in Command, ClientAppend(n, c) PROVE ElectionInv'
  BY <1>6, LeaderStepInv DEF ClientAppend, roundVars
<1>7. ASSUME NEW n \in Server, NEW p \in Peers(n), ReceiveAppendReply(n, p) PROVE ElectionInv'
  BY <1>7, ReceiveAppendReplyInv
<1>8. ASSUME NEW n \in Server, NEW p \in Peers(n), Receive(n, p) PROVE ElectionInv'
  BY <1>8, ReceiveInv
<1>9. ASSUME NEW m \in late, ReceiveLate(m) PROVE ElectionInv'
  BY <1>9, ReceiveLateInv
<1> QED BY <1>1, <1>2, <1>3, <1>4, <1>5, <1>6, <1>7, <1>8, <1>9 DEF Next

\* The election invariant holds of the servers as created.
LEMMA InitElection == Init => ElectionInv
BY DEF Init, ElectionInv, OwnVote, VotesBind, VotesExclude, LeadersElected, ElectionSafety,
       HasVote, Follower, Candidate, Leader

\* Elections exclude each other in every state the code reaches.
LEMMA ElectionInvariance == Spec => []ElectionInv
<1>1. Init => ElectionInv
  BY InitElection
<1>2. TypeInv /\ ElectionInv /\ [Next]_vars => ElectionInv'
  BY StepElection
<1> QED BY <1>1, <1>2, TypeInvariance, PTL DEF Spec

\* At most one server leads in a term, whatever calls fail, are late or overtake
\* each other (_start_election, handle_request_vote, _step_down).
THEOREM AtMostOneLeader == Spec => []ElectionSafety
<1>1. ElectionInv => ElectionSafety
  BY DEF ElectionInv
<1> QED BY <1>1, ElectionInvariance, PTL
=============================================================================
