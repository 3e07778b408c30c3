-------------------------------- MODULE Raft --------------------------------
(***************************************************************************)
(* The consensus engine of src/src/consensus/raft.py: leader election, log *)
(* replication and the commit rule of one RaftNode per server, and the     *)
(* HTTP calls that connect them (communication/message_passing.py).        *)
(*                                                                         *)
(* Atomicity.  A RaftNode is single-threaded asyncio code and never holds  *)
(* self._lock across a suspension: _start_election and _replicate_to_all   *)
(* release it for the whole broadcast.  Every critical section is one step *)
(* here; a broadcast is a "round" that is open between two of them.  A     *)
(* server has at most one vote round (there is one timer loop) and at most *)
(* one replication round (there is one heartbeat task).                    *)
(*                                                                         *)
(* Calls.  request[n][p] and reply[n][p] are the HTTP exchange of n's open *)
(* round with peer p.  An exchange can fail at any point (send returns     *)
(* None): the request never arrives, the reply is lost, or the request is  *)
(* handled after the caller has given up.  The last kind waits in `late'.  *)
(* HTTP never hands a request to a handler twice.                          *)
(*                                                                         *)
(* Indices are those of the Python lists, from 0; -1 stands for "none".    *)
(* Bounds: MaxTerm (elections), MaxLog (entries of a leader's log),        *)
(* MaxLate (late requests, no two of them equal).                          *)
(***************************************************************************)
EXTENDS Integers, Sequences, FiniteSets

CONSTANTS Server, Command, Nil, MaxTerm, MaxLog, MaxLate

ASSUME ServerAssumption == IsFiniteSet(Server) /\ Server # {}
ASSUME NilAssumption == Nil \notin Server
ASSUME BoundsAssumption == MaxTerm \in Nat /\ MaxLog \in Nat /\ MaxLate \in Nat

VARIABLES
  currentTerm,   \* current_term
  votedFor,      \* voted_for, Nil for None
  state,         \* state
  log,           \* log: the term and command of every entry
  commitIndex,   \* commit_index
  nextIndex,     \* next_index, per peer
  matchIndex,    \* match_index, per peer
  electionTerm,  \* the local `term' of an open vote round, 0 when none is open
  replicating,   \* a replication round is open
  request,       \* the request of the caller's open round to each peer, or Nil
  reply,         \* the peer's answer to it, or Nil
  late           \* requests that outlived their caller's round

serverVars == <<currentTerm, votedFor, state>>
logVars == <<log, commitIndex>>
leaderVars == <<nextIndex, matchIndex>>
roundVars == <<electionTerm, replicating, request, reply, late>>
vars == <<serverVars, logVars, leaderVars, roundVars>>

Follower == "follower"
Candidate == "candidate"
Leader == "leader"

Peers(n) == Server \ {n}

\* Mutants are the definitions named Bug...: each is the definition after it as a
\* plausible slip would have written it.  No specification uses them.
BugMajority == Cardinality(Server) \div 2

\* (len(peers) + 1) // 2 + 1
Majority == Cardinality(Server) \div 2 + 1

-----------------------------------------------------------------------------
(* Logs *)

Entry == [term: Nat, command: Command]

\* log[i] and log[:k] of the Python list
At(l, i) == l[i + 1]
Prefix(l, k) == SubSeq(l, 1, k)

LastIndex(l) == Len(l) - 1
LastTerm(l) == IF l = <<>> THEN 0 ELSE l[Len(l)].term

IsPrefixOf(k, l) == Len(k) <= Len(l) /\ k = Prefix(l, Len(k))

\* an entry that is there is kept, whatever its term
BugMerge(l, at, entries) ==
  l \o SubSeq(entries, Len(l) - at + 1, Len(entries))

\* The loop of handle_append_entries: an entry already present is kept, the first
\* one of another term truncates the log, and from there on all come from entries.
Merge(l, at, entries) ==
  LET end == at + Len(entries)
      Conflict(i) == at < i /\ i <= end /\ i <= Len(l) /\ l[i].term # entries[i - at].term
      len == IF end > Len(l) \/ \E i \in 1..end : Conflict(i) THEN end ELSE Len(l)
  IN [i \in 1..len |->
        IF i <= Len(l) /\ \A j \in 1..i : ~Conflict(j) THEN l[i] ELSE entries[i - at]]

-----------------------------------------------------------------------------
(* Messages *)

Index == Nat \cup {-1}

VoteRequest == [type: {"vote"}, from: Server, to: Server, term: Nat,
                lastIndex: Index, lastTerm: Nat]
AppendRequest == [type: {"append"}, from: Server, to: Server, term: Nat,
                  prevIndex: Index, prevTerm: Nat, entries: Seq(Entry), commit: Index]
Request == VoteRequest \cup AppendRequest
Reply == [term: Nat, ok: BOOLEAN]     \* ok: vote_granted, or success

NoCalls == [p \in Server |-> Nil]

AskVote(n, p, t) ==
  [type |-> "vote", from |-> n, to |-> p, term |-> t,
   lastIndex |-> LastIndex(log[n]), lastTerm |-> LastTerm(log[n])]

\* _replicate_to_peer reads log[next_index - 1]: past the end of the log that is
\* an IndexError, which the gather swallows, and nothing is sent.
OutOfLog(n, p) == nextIndex[n][p] > Len(log[n]) /\ log[n] # <<>>

AskAppend(n, p) ==
  LET prev == nextIndex[n][p] - 1
  IN [type |-> "append", from |-> n, to |-> p, term |-> currentTerm[n],
      prevIndex |-> prev,
      prevTerm |-> IF prev >= 0 /\ log[n] # <<>> THEN At(log[n], prev).term ELSE 0,
      entries |-> SubSeq(log[n], nextIndex[n][p] + 1, Len(log[n])),
      commit |-> commitIndex[n]]

\* The requests of n's open round that no handler has seen yet.
Unanswered(n) ==
  {request[n][p] : p \in {q \in Peers(n) : request[n][q] # Nil /\ reply[n][q] = Nil}}

\* n's round is over: each request still under way is lost or arrives late.
\* l is `late' after what the step does besides.
GiveUp(n, l) ==
  \E left \in SUBSET Unanswered(n) :
    /\ Cardinality(l \cup left) <= MaxLate
    /\ late' = l \cup left

-----------------------------------------------------------------------------
Init ==
  /\ currentTerm = [n \in Server |-> 0]
  /\ votedFor = [n \in Server |-> Nil]
  /\ state = [n \in Server |-> Follower]
  /\ log = [n \in Server |-> <<>>]
  /\ commitIndex = [n \in Server |-> -1]
  /\ nextIndex = [n \in Server |-> [p \in Server |-> 0]]
  /\ matchIndex = [n \in Server |-> [p \in Server |-> -1]]
  /\ electionTerm = [n \in Server |-> 0]
  /\ replicating = [n \in Server |-> FALSE]
  /\ request = [n \in Server |-> NoCalls]
  /\ reply = [n \in Server |-> NoCalls]
  /\ late = {}

-----------------------------------------------------------------------------
(* _step_down: a message of a newer term t makes n a follower of that term. *)

Newer(n, t) == t > currentTerm[n]
TermSeen(n, t) == IF Newer(n, t) THEN t ELSE currentTerm[n]
BugVoteIn(n, t) == IF t >= currentTerm[n] THEN Nil ELSE votedFor[n]
VoteIn(n, t) == IF Newer(n, t) THEN Nil ELSE votedFor[n]
RoleIn(n, t) == IF Newer(n, t) THEN Follower ELSE state[n]

\* the heartbeat task is left running
BugCancelHeartbeat(n, t, r, l) ==
  /\ reply' = r
  /\ late' = l
  /\ UNCHANGED <<replicating, request>>

\* Stepping down cancels the heartbeat task, hence the replication round and
\* its calls: no reply to them is ever processed.  r and l are `reply' and
\* `late' after what the step does besides.
CancelHeartbeat(n, t, r, l) ==
  IF Newer(n, t) /\ replicating[n]
  THEN /\ replicating' = [replicating EXCEPT ![n] = FALSE]
       /\ request' = [request EXCEPT ![n] = NoCalls]
       /\ reply' = [r EXCEPT ![n] = NoCalls]
       /\ GiveUp(n, l)
  ELSE /\ reply' = r
       /\ late' = l
       /\ UNCHANGED <<replicating, request>>

-----------------------------------------------------------------------------
(* Elections *)

\* The timer fires on a server that is not the leader (_election_timer_loop)
\* and _start_election sends the requests.
StartElection(n) ==
  /\ state[n] # Leader
  /\ electionTerm[n] = 0
  /\ currentTerm[n] < MaxTerm
  /\ LET t == currentTerm[n] + 1
     IN /\ currentTerm' = [currentTerm EXCEPT ![n] = t]
        /\ electionTerm' = [electionTerm EXCEPT ![n] = t]
        /\ request' = [request EXCEPT ![n] =
                         [p \in Server |-> IF p = n THEN Nil ELSE AskVote(n, p, t)]]
  /\ votedFor' = [votedFor EXCEPT ![n] = n]
  /\ state' = [state EXCEPT ![n] = Candidate]
  /\ UNCHANGED <<logVars, leaderVars, replicating, reply, late>>

\* The candidate has moved on while it waited for the votes.
VotesAreStale(n) == state[n] # Candidate \/ currentTerm[n] # electionTerm[n]

WinsVote(n, granted) == Cardinality(granted \cup {n}) >= Majority

\* next_index starts at the last entry, not after it
BugBecomeLeader(n) ==
  /\ state' = [state EXCEPT ![n] = Leader]
  /\ nextIndex' = [nextIndex EXCEPT ![n] = [p \in Server |-> LastIndex(log[n])]]
  /\ matchIndex' = [matchIndex EXCEPT ![n] = [p \in Server |-> -1]]

\* _become_leader
BecomeLeader(n) ==
  /\ state' = [state EXCEPT ![n] = Leader]
  /\ nextIndex' = [nextIndex EXCEPT ![n] = [p \in Server |-> Len(log[n])]]
  /\ matchIndex' = [matchIndex EXCEPT ![n] = [p \in Server |-> -1]]

\* _start_election after the broadcast.  The replies that have arrived are any
\* of those that were sent; the first one of a newer term ends the count.
DiscardVotes(n) ==
  /\ VotesAreStale(n)
  /\ UNCHANGED <<serverVars, leaderVars>>

VotesShowNewerTerm(n) ==
  /\ ~VotesAreStale(n)
  /\ \E p \in Peers(n) :
       /\ reply[n][p] # Nil
       /\ Newer(n, reply[n][p].term)
       /\ currentTerm' = [currentTerm EXCEPT ![n] = reply[n][p].term]
  /\ votedFor' = [votedFor EXCEPT ![n] = Nil]
  /\ state' = [state EXCEPT ![n] = Follower]
  /\ UNCHANGED leaderVars

CountVotes(n) ==
  /\ ~VotesAreStale(n)
  /\ \E granted \in SUBSET {p \in Peers(n) : reply[n][p] # Nil /\ reply[n][p].ok} :
       IF WinsVote(n, granted) THEN BecomeLeader(n)
       ELSE UNCHANGED <<state, leaderVars>>
  /\ UNCHANGED <<currentTerm, votedFor>>

FinishElection(n) ==
  /\ electionTerm[n] # 0
  /\ DiscardVotes(n) \/ VotesShowNewerTerm(n) \/ CountVotes(n)
  /\ electionTerm' = [electionTerm EXCEPT ![n] = 0]
  /\ request' = [request EXCEPT ![n] = NoCalls]
  /\ reply' = [reply EXCEPT ![n] = NoCalls]
  /\ GiveUp(n, late)
  /\ UNCHANGED <<logVars, replicating>>

\* handle_request_vote
LogUpToDate(n, m) ==
  \/ m.lastTerm > LastTerm(log[n])
  \/ m.lastTerm = LastTerm(log[n]) /\ m.lastIndex >= LastIndex(log[n])

Grants(n, m) ==
  /\ m.term = TermSeen(n, m.term)
  /\ VoteIn(n, m.term) \in {Nil, m.from}
  /\ LogUpToDate(n, m)

HandleRequestVote(n, m) ==
  /\ currentTerm' = [currentTerm EXCEPT ![n] = TermSeen(n, m.term)]
  /\ votedFor' = [votedFor EXCEPT ![n] =
                    IF Grants(n, m) THEN m.from ELSE VoteIn(n, m.term)]
  /\ state' = [state EXCEPT ![n] = RoleIn(n, m.term)]
  /\ UNCHANGED logVars

-----------------------------------------------------------------------------
(* Replication *)

\* A heartbeat: one request per peer, carrying all the peer is believed to lack.
StartReplication(n) ==
  /\ state[n] = Leader
  /\ ~replicating[n]
  /\ replicating' = [replicating EXCEPT ![n] = TRUE]
  /\ request' = [request EXCEPT ![n] =
                   [p \in Server |-> IF p = n \/ OutOfLog(n, p) THEN Nil ELSE AskAppend(n, p)]]
  /\ UNCHANGED <<serverVars, logVars, leaderVars, electionTerm, reply, late>>

\* handle_append_entries
LeaderIsStale(n, m) == m.term < currentTerm[n]
Misses(n, m) == m.prevIndex >= 0 /\ Len(log[n]) <= m.prevIndex

Disagrees(n, m) ==
  /\ m.prevIndex >= 0
  /\ Len(log[n]) > m.prevIndex
  /\ At(log[n], m.prevIndex).term # m.prevTerm

Accepts(n, m) == ~(LeaderIsStale(n, m) \/ Misses(n, m) \/ Disagrees(n, m))

FollowLeader(n, m) ==
  /\ ~LeaderIsStale(n, m)
  /\ currentTerm' = [currentTerm EXCEPT ![n] = TermSeen(n, m.term)]
  /\ votedFor' = [votedFor EXCEPT ![n] = VoteIn(n, m.term)]
  /\ state' = [state EXCEPT ![n] = IF @ = Candidate THEN Follower
                                   ELSE RoleIn(n, m.term)]

CommitAfter(n, m, l) ==
  IF m.commit > commitIndex[n]
  THEN IF m.commit < LastIndex(l) THEN m.commit ELSE LastIndex(l)
  ELSE commitIndex[n]

RejectStaleLeader(n, m) ==
  /\ LeaderIsStale(n, m)
  /\ UNCHANGED <<serverVars, logVars>>

RejectGap(n, m) ==
  /\ FollowLeader(n, m)
  /\ Misses(n, m)
  /\ UNCHANGED logVars

RejectConflict(n, m) ==
  /\ FollowLeader(n, m)
  /\ Disagrees(n, m)
  /\ log' = [log EXCEPT ![n] = Prefix(@, m.prevIndex)]
  /\ UNCHANGED commitIndex

AcceptEntries(n, m) ==
  /\ FollowLeader(n, m)
  /\ Accepts(n, m)
  /\ LET l == Merge(log[n], m.prevIndex + 1, m.entries)
     IN /\ log' = [log EXCEPT ![n] = l]
        /\ commitIndex' = [commitIndex EXCEPT ![n] = CommitAfter(n, m, l)]

HandleAppendEntries(n, m) ==
  \/ RejectStaleLeader(n, m)
  \/ RejectGap(n, m)
  \/ RejectConflict(n, m)
  \/ AcceptEntries(n, m)

\* match_index is one too far
BugAppendAccepted(n, p) ==
  LET m == request[n][p]
      match == m.prevIndex + 1 + Len(m.entries)
  IN /\ matchIndex' = [matchIndex EXCEPT ![n][p] = IF match > @ THEN match ELSE @]
     /\ nextIndex' = [nextIndex EXCEPT ![n][p] = match]

\* next_index is tried again as it was
BugAppendRejected(n, p) == UNCHANGED leaderVars

\* _replicate_to_peer after the send: the reply of one peer.  Its slot is empty
\* afterwards.
AppendAccepted(n, p) ==
  LET m == request[n][p]
      match == m.prevIndex + Len(m.entries)
  IN /\ matchIndex' = [matchIndex EXCEPT ![n][p] = IF match > @ THEN match ELSE @]
     /\ nextIndex' = [nextIndex EXCEPT ![n][p] = match + 1]

AppendRejected(n, p) ==
  LET prev == request[n][p].prevIndex
  IN /\ nextIndex' = [nextIndex EXCEPT ![n][p] = IF prev > 0 THEN prev ELSE 0]
     /\ UNCHANGED matchIndex

ReceiveAppendReply(n, p) ==
  /\ replicating[n]
  /\ reply[n][p] # Nil
  /\ LET t == reply[n][p].term
     IN /\ currentTerm' = [currentTerm EXCEPT ![n] = TermSeen(n, t)]
        /\ votedFor' = [votedFor EXCEPT ![n] = VoteIn(n, t)]
        /\ state' = [state EXCEPT ![n] = RoleIn(n, t)]
        /\ IF Newer(n, t) \/ state[n] # Leader THEN UNCHANGED leaderVars
           ELSE IF reply[n][p].ok THEN AppendAccepted(n, p)
           ELSE AppendRejected(n, p)
        /\ IF Newer(n, t) THEN CancelHeartbeat(n, t, reply, late)
           ELSE /\ request' = [request EXCEPT ![n][p] = Nil]
                /\ reply' = [reply EXCEPT ![n][p] = Nil]
                /\ UNCHANGED <<replicating, late>>
  /\ UNCHANGED <<logVars, electionTerm>>

\* _advance_commit_index: the last entry of the current term that a majority
\* holds.
Acked(n, i) == Cardinality({p \in Peers(n) : matchIndex[n][p] >= i}) + 1 >= Majority

BugCommittable(n, i) == Acked(n, i)
Committable(n, i) == At(log[n], i).term = currentTerm[n] /\ Acked(n, i)

NewCommits(n) == {i \in commitIndex[n] + 1 .. LastIndex(log[n]) : Committable(n, i)}

AdvanceCommitIndex(n) ==
  IF state[n] # Leader \/ NewCommits(n) = {} THEN UNCHANGED commitIndex
  ELSE \E i \in NewCommits(n) :
         /\ \A j \in NewCommits(n) : j <= i
         /\ commitIndex' = [commitIndex EXCEPT ![n] = i]

\* _replicate_to_all after the gather; the exchanges still open have failed.
FinishReplication(n) ==
  /\ replicating[n]
  /\ replicating' = [replicating EXCEPT ![n] = FALSE]
  /\ request' = [request EXCEPT ![n] = NoCalls]
  /\ reply' = [reply EXCEPT ![n] = NoCalls]
  /\ GiveUp(n, late)
  /\ AdvanceCommitIndex(n)
  /\ UNCHANGED <<serverVars, log, leaderVars, electionTerm>>

\* append_command up to the registration of the future
ClientAppend(n, c) ==
  /\ state[n] = Leader
  /\ Len(log[n]) < MaxLog
  /\ log' = [log EXCEPT ![n] = Append(@, [term |-> currentTerm[n], command |-> c])]
  /\ UNCHANGED <<serverVars, commitIndex, leaderVars, roundVars>>

-----------------------------------------------------------------------------
(* Delivery *)

Handle(n, m) ==
  \/ m.type = "vote" /\ HandleRequestVote(n, m)
  \/ m.type = "append" /\ HandleAppendEntries(n, m)

Answer(n, m) ==
  [term |-> TermSeen(n, m.term),
   ok |-> IF m.type = "vote" THEN Grants(n, m) ELSE Accepts(n, m)]

\* p handles the request n is waiting for.
Receive(n, p) ==
  /\ request[n][p] # Nil
  /\ reply[n][p] = Nil
  /\ LET m == request[n][p]
     IN /\ Handle(p, m)
        /\ CancelHeartbeat(p, m.term, [reply EXCEPT ![n][p] = Answer(p, m)], late)
  /\ UNCHANGED <<leaderVars, electionTerm>>

\* A request is handled whose caller no longer listens.
ReceiveLate(m) ==
  /\ m \in late
  /\ Handle(m.to, m)
  /\ CancelHeartbeat(m.to, m.term, reply, late \ {m})
  /\ UNCHANGED <<leaderVars, electionTerm>>

Next ==
  \/ \E n \in Server :
       \/ StartElection(n)
       \/ FinishElection(n)
       \/ StartReplication(n)
       \/ FinishReplication(n)
       \/ \E c \in Command : ClientAppend(n, c)
       \/ \E p \in Peers(n) : ReceiveAppendReply(n, p) \/ Receive(n, p)
  \/ \E m \in late : ReceiveLate(m)

Spec == Init /\ [][Next]_vars

-----------------------------------------------------------------------------
(* Fairness.  While it leads, the heartbeat task ticks and its gather returns   *)
(* (every send has a timeout).  A call that is made again at every heartbeat is *)
(* in the end answered, and the answer received before the round is over: the   *)
(* network may lose any number of calls, but not all of them.                   *)

Fairness(n) ==
  /\ WF_vars(StartReplication(n))
  /\ WF_vars(FinishReplication(n))
  /\ \A p \in Peers(n) : SF_vars(Receive(n, p)) /\ SF_vars(ReceiveAppendReply(n, p))

-----------------------------------------------------------------------------
(* Properties *)

\* Every variable keeps the shape the code gives it.
TypeOK ==
  /\ currentTerm \in [Server -> Nat]
  /\ votedFor \in [Server -> Server \cup {Nil}]
  /\ state \in [Server -> {Follower, Candidate, Leader}]
  /\ log \in [Server -> Seq(Entry)]
  /\ commitIndex \in [Server -> Index]
  /\ nextIndex \in [Server -> [Server -> Nat]]
  /\ matchIndex \in [Server -> [Server -> Index]]
  /\ electionTerm \in [Server -> Nat]
  /\ replicating \in [Server -> BOOLEAN]
  /\ request \in [Server -> [Server -> Request \cup {Nil}]]
  /\ reply \in [Server -> [Server -> Reply \cup {Nil}]]
  /\ late \subseteq Request

\* At most one leader per term: a vote round and a late vote request of an
\* earlier one never elect two servers (handle_request_vote, _start_election).
ElectionSafety ==
  \A a, b \in Server :
    state[a] = Leader /\ state[b] = Leader /\ currentTerm[a] = currentTerm[b] => a = b

\* Logs that hold the same term at an index agree up to it, whatever requests
\* were lost, late or overtaken (handle_append_entries).
LogMatching ==
  \A a, b \in Server : \A i \in 1..Len(log[a]) :
    i <= Len(log[b]) /\ log[a][i].term = log[b][i].term
      => Prefix(log[a], i) = Prefix(log[b], i)

Committed(n) ==
  Prefix(log[n], IF commitIndex[n] < Len(log[n]) THEN commitIndex[n] + 1 ELSE Len(log[n]))

\* A leader holds everything that any server of its term or an earlier one
\* knows to be committed (the log check of votes, the term check of commits).
LeaderCompleteness ==
  \A n, s \in Server :
    state[n] = Leader /\ currentTerm[s] <= currentTerm[n]
      => IsPrefixOf(Committed(s), log[n])

\* What a leader counts as acknowledged is in the follower's log as long as the
\* follower is in the leader's term, and next_index stays beyond it and within the
\* leader's log (no IndexError): no truncation by a late request, no reply
\* of another round taken for one of this leadership (_replicate_to_peer).
MatchIndexSound ==
  \A n \in Server : \A p \in Peers(n) :
    state[n] = Leader /\ currentTerm[p] = currentTerm[n]
      => /\ matchIndex[n][p] < nextIndex[n][p] /\ nextIndex[n][p] <= Len(log[n])
         /\ IsPrefixOf(Prefix(log[n], matchIndex[n][p] + 1), log[p])

\* A reply that is still awaited belongs to the round and the leadership that
\* will use it: _replicate_to_peer checks the state but not the term when it
\* resumes, and relies on _step_down having cancelled it.
RepliesAreOfThisTerm ==
  \A n \in Server :
    /\ ~(replicating[n] /\ electionTerm[n] # 0)
    /\ replicating[n] =>
         /\ state[n] = Leader
         /\ \A p \in Peers(n) : request[n][p] # Nil =>
              request[n][p].type = "append" /\ request[n][p].term = currentTerm[n]

\* Terms never go back and a vote, once given, stands for the rest of its term,
\* across step-downs and late requests (_step_down, handle_request_vote).
VotesStand ==
  [][\A n \in Server :
       /\ currentTerm'[n] >= currentTerm[n]
       /\ currentTerm'[n] = currentTerm[n] /\ votedFor[n] # Nil
            => votedFor'[n] = votedFor[n]]_vars

\* A leader nobody deposes (here: of the last term) brings every follower to
\* hold its log, however their logs have diverged and however many heartbeats
\* fail on the way, and, once it has an entry of its own term, to know all of it
\* committed (the next_index probing of _replicate_to_peer, leader_commit).
LeaderPrevails ==
  \A n \in Server :
    state[n] = Leader /\ currentTerm[n] = MaxTerm
      ~> \A p \in Server :
           /\ IsPrefixOf(log[n], log[p])
           /\ LastTerm(log[n]) = MaxTerm => commitIndex[p] = LastIndex(log[n])
=============================================================================
