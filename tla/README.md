# Verification of the Distributed Synchronization System

TLA+ modules that model the core of this repository, the TLC configurations that check
them on small instances, and theorems about them that TLAPS proves for every instance.
Paths below are relative to the project root, as in `PROJECT.json`: the Python packages
are under `src/src/`, the entry point is `src/main.py`.

Contents: 1 the system · 2 the modules · 3 what is checked · 4 bounds · 5 fairness ·
6 what is proved · 7 where code and documents disagree · 8 what is not modelled · 9 plan

## 1. The system

A node is one Python process with one asyncio event loop. It serves an HTTP API
(`main.py`) and holds one instance each of the lock manager, the queue and the cache. Nodes
talk to each other by HTTP calls with a timeout of 0.5 s (`message_passing.py`); the queue
nodes also share one Redis.

| Component | State | Operations | Talks to |
|---|---|---|---|
| Raft (`consensus/raft.py`) | term, vote, role, log, commit index, next and match index; two open "rounds" of calls | election, heartbeat and replication, handlers of both requests, commit, step down | the other servers, by calls that are lost or come late |
| Raft's client side (same file) | `_pending` futures per index, `_apply_event`, `last_applied` | `append_command` and its timeout, resolution on commit, `_apply_loop` | lock manager (`apply_callback`) |
| Lock manager (`nodes/lock_manager.py`) | per lock: writer, readers, queue; wait-for graph; all requests ever queued | acquire, release, `_on_commit`, deadlock detection and resolution | Raft log; its own timer |
| Deadlock search (`_find_cycles`) | visited set, recursion stack, cycles | one search | the wait-for graph |
| Queue (`nodes/queue_node.py`) | in Redis: message hashes with a TTL, pending list, in-flight set with deadlines | produce (store or forward, local fallback), consume, acknowledge, redelivery loop on every node | Redis, one command at a time; the other nodes |
| Cache (`nodes/cache_node.py`) | LRU cache with MESI states; one asyncio lock | read, write, invalidate, peek, DELETE | the other nodes, while holding its lock |
| Message passing | HTTP session | `send`, `broadcast` | all of the above |
| Failure detector (`communication/failure_detector.py`) | misses and status per peer; probes under way; callback tasks | round of probes, `record_alive`, callbacks | the peers' `/health`; `BaseNode`, whose callbacks only log today |
| Node life cycle (`nodes/base_node.py`) | which of the parts run; the HTTP session | `start`, `stop` | message passing, Raft, failure detector |
| Hash ring (`ConsistentHashRing`) | sorted positions and their owners | `add_node`, `remove_node`, `get_node` | queue |
| Audit log (`security/audit_logger.py`) | a file with a hash chain; number and hash of the last entry, per process | `log`, restart, `verify_integrity` | every HTTP handler that changes something |
| Histogram (`utils/metrics.py`) | count and bucket counts | `observe`, `p99` | metrics endpoint |
| Message encoding, authentication, configuration | none | `_flatten`, `_unflatten`; check; read | queue; HTTP handlers |

What is hard in it:

* *Asyncio interleavings.* Raft releases its lock while it awaits a broadcast and acts on
  state that may be of another term when it resumes; `peek` reads an entry that a write
  holding the lock is about to replace; the redelivery loops of all nodes and the handlers
  interleave at every Redis command.
* *Calls.* A call can be lost, answered late, or handled after its caller gave up. The caches
  call each other with their locks held.
* *Crashes.* Raft keeps nothing on disk; the queue has several Redis commands per operation
  and no transaction.
* *Order.* Entries are committed several at a time; the apply loop skips; every replica
  detects deadlocks on its own timer. Callbacks of the failure detector are tasks of their
  own; the parts of a node are started in one order and stopped in another.
* *Half-done writes.* A line of the audit log may be cut short, and the next one is written
  behind it.

What makes each part correct is stated as properties in section 3. `PROJECT.json` lists the
hazards line by line.

## 2. The modules

| Module | What it models |
|---|---|
| `Raft` | `RaftNode`: elections, votes, replication rounds, the consistency check and truncation, the commit rule, step-down with cancellation of the heartbeat task, and the calls |
| `ReplicatedLog` | What the cluster promises: one growing sequence of committed entries, of which each server knows a growing prefix |
| `RaftRefinement` | The mapping under which `Raft` implements `ReplicatedLog` |
| `CommandFeed` | What a state machine may expect of consensus: one sequence of commands, handed to each replica in order, none twice, with gaps |
| `RaftService` | `Raft` with its clients: futures, timeouts, the apply event and the apply loop. Shown to implement `CommandFeed` |
| `RaftRestart` | `Raft` with servers that crash and come back as `__init__` makes them |
| `WaitForGraph` | Cycles of a wait-for graph and what a depth-first search may report of them |
| `FindCycles` | `_find_cycles` step by step; checked and proved to report as `WaitForGraph` says |
| `LockManager` | The lock table of every replica, with the detector, built on a `CommandFeed` (`Feed`): its `Submit` extends the feed and its `Apply` is handed one of its commands. Composes `WaitForGraph` |
| `QueueNode` | The queue, one step per Redis command |
| `CacheNode` | The caches and their calls |
| `FailureDetector` | Rounds of probes, the status of each peer, and the callbacks as tasks that run later |
| `BaseNode` | A node that starts and stops its parts step by step, pings through its session, crashes and starts afresh; peers that come and go. Composes `FailureDetector` |
| `AuditLog` | The log file, the processes that append to it, writes that fail or are torn, crashes, and the requests whose answers depend on them |
| `HashRing` | The ring under any placement of the virtual nodes |
| `Histogram` | Bucket counts and the percentile read off them |
| `MCParts` | The search, the ring, the histogram and the audit log side by side: a behaviour is one of one of them |
| `RaftProofs`, `RaftLogProofs`, `RaftServiceProofs` | Theorems about Raft and its clients, each module built on the one before |
| `LockManagerProofs` | Theorems about the lock table and the search for cycles |
| `QueueNodeProofs`, `CacheNodeProofs`, `BaseNodeProofs` | Theorems about the queue, the cache, and the life of a node with its failure detector |
| `PartsProofs` | Theorems about three parts that share nothing: the audit log, the ring and the histogram |
| `MC...` | What TLC needs: symmetry, the end of the bounds, restrictions of an instance. Some end with claims of the documents that TLC refutes (section 7) |

**State and actions against the code.** Variables carry the names of the attributes they stand
for, and actions the names of the functions; a critical section between two awaits that can
really suspend is one action. Some examples:

* A vote or replication *round* in `Raft` is what lies between the `await` of a broadcast and
  the code after it: `StartElection` / `FinishElection`, `StartReplication` /
  `FinishReplication`. `request` and `reply` are the HTTP exchanges in between; a request
  whose caller is gone moves to `late` and may be handled at any time or never.
* `consume` in `QueueNode` is `Consume` (RPOP), `ConsumeRead` (HGETALL), `ConsumeMark`
  (HSET), `ConsumeZadd` (ZADD); `call[h]` is where handler `h` is. The redelivery loop of
  node `n` is `loop[n]`, with the list it read once and the hash it read last.
* `op[n]` in `CacheNode` is the operation that holds the lock of node `n` and awaits its
  peers; what needs no call is one step; `Peek` needs no lock.
* A probe of `FailureDetector` is "sent", has its ping "answered" or "failed", and resumes
  (`ProbeAnswered`, `ProbeMissed`); `RecordAlive` may come at each of these points. `notices`
  are the tasks created for callbacks and not yet run.
* `AuditLog` keeps the operation of a handler (`Operate`) apart from the entry it writes
  before it answers (`Record`): a crash may come between.

**Abstractions.** Raft: a command is a value; heartbeat and replication are one mechanism, as
in the code; timers may fire at any time. LockManager: a timestamp is the place of the
command in the log, a request is known by that place; a detection tick that finds nothing
has no effect and is no step. QueueNode: one queue; deadlines and the day after which Redis
drops a hash pass at any moment; which messages have another owner is a constant. CacheNode:
values are numbers of writes; the entry's version, which nothing reads, is left out; the
backing store is the stub the code has. FailureDetector: misses are counted up to the dead
threshold; times are left out. AuditLog: what an entry says is left out, a hash is the number
of the entry it belongs to; a line that cannot be parsed is `Rubble`. HashRing: MD5 is any
injective function. Histogram: a value is the least bucket that takes it. Logging, metrics and JSON are left out everywhere.

## 3. What is checked

Twelve runs. Every property of a passing run has a mutant in `PROJECT.json`: a plausible
bug, written beside the definition it replaces as `Bug...`, with which TLC finds the
property violated.

| Run | Properties | What it shows |
|---|---|---|
| `raft_safety` | `TypeOK` | |
| | `ElectionSafety`, `VotesStand` | no two leaders in a term, although a candidate counts votes that arrived while its state moved on; votes are never taken back |
| | `LogMatching` | logs that hold the same term at an index agree up to it, through truncation and a late request |
| | `RepliesAreOfThisTerm` | the code checks only `state == LEADER` when a reply arrives; that is enough because `_step_down` cancels the round |
| | `MatchIndexSound` | what a leader counts as acknowledged really is in the follower's log, and `next_index` never runs out of the leader's own log |
| | `ImplementsReplicatedLog` | `Raft` implements `ReplicatedLog`. A leader that commits may learn in the same step of entries that were committed before it, so the abstract `Commit` gives it all of them |
| `raft_live` | `LeaderPrevails` | a leader nobody deposes brings every follower to its log and commit index, diverged ones and one that restarted empty |
| `service` | `LeaderCompleteness` | committed entries are never lost, with the four terms that the classic counterexample needs |
| | `AnswersDurable` | a client told "committed" was told so of its own command, although `_pending` outlives the leadership |
| | `StateMachineSafety` | what a server was ever handed for an index is committed there |
| | `ImplementsCommandFeed` | the apply loop hands entries over in order and none twice, although the event may be set too often and the callback stands outside the loop: it implements `CommandFeed`, which `LockManager` is built on |
| `base_node` | `NodeTypeOK`, `SuspectsAreSilent` | nobody is suspected or presumed dead but for so many failed probes in a row, less one for the probe that was out when `record_alive` came |
| | `CallsAlternate` | `on_suspect` and `on_recover` are called in turn for a peer, and the last says what its status is |
| | `PingsHaveSession` | no ping is out without a session: a node never takes its own start or stop for the silence of its peers |
| | `DeathsAreSeen`, `RecoveriesAreSeen` | who stays down is presumed dead for good, who stays up is found alive again and again |
| `parts` | `SearchReports` | the search is right on every graph of three clients and every order of iteration |
| | `SearchEnds` | it ends, nested no deeper than there are clients: marking a client before the descent keeps the search within a recursion limit (`MaxDepth`) of that many calls, beyond which the code would end with a RecursionError |
| | `OwnerIsSuccessor` | a key belongs to the clockwise next node, through nodes that are added (twice) and removed in any order. That only its keys move when a node comes or goes follows, and is proved (`OnlyItsKeysMove`, section 6) |
| | `P99IsALowerBound` | what `p99` reports is never above the percentile, and something was observed up to it |
| | `ChainHolds` | until a write fails the log of one process verifies over any number of crashes between writes |
| | `AnsweredIsRecorded` | an answered request is on record, but for one entry to each torn line |
| | `LossIsSeen` | a log of one process that verifies does not with lines missing (other than the newest), repeated or in another order |
| `lock_table` | `TypeOK`, `HoldersExclude`, `ReadersWaitForWriters` | a writer is alone, through grants, gaps and aborts; no reader is left queued at a lock that readers may have |
| | `HoldersAsked` | who holds a lock has asked for it in that mode |
| | `CommandsKeepBooks` | without aborts, no lock is left free with clients queued for it, and no edge of the graph is false |
| | `DropsAreBehindWriters` | a queued request loses its place only when it is granted, or to a writer before it that is granted: the `break` of the grant loop costs those behind it their place, nothing else does. The exception is a victim's own request for a lock it holds to itself |
| `queue_shared` | `NotLost` | without faults an accepted message is queued, in flight or in somebody's hand until it is acknowledged or given up, with two loops, a duplicate from the forward fallback, and stale lists |
| | `InFlightEnds` | nothing stays in flight |
| | `GetsThrough` | as long as somebody polls, an accepted message comes to be acknowledged or is counted out, with two loops that redeliver it and nobody who must acknowledge |
| `queue_faults` | `TypeOK` | with two loops, two messages, and one fault: a handler or a loop that ends half-way, or a hash that expires |
| | `LossesAreFaults` | a fault costs at most one message, whatever the other handlers and loops are doing and wherever it hits |
| | `GivenUpLate` | no message is given up before its deliveries, counted once by every loop (and once more by a loop that failed after it had counted), exceed the retries it has |
| `cache` | `TypeOK` | capacity and one entry per key, through late installs and evictions |
| | `TwoDirtyIsPassing` | two writers that time out on each other leave at most a passing state with two dirty copies |
| | `OperationsEnd` | two writers that wait for each other's lock both go on |
| `service_skip` | `AppliesAll` | *violated:* entries committed together are skipped by the apply loop |
| `lock_replicas` | `ReplicasAgree` | *violated:* replicas with the same log end with different holders |
| `cache_stale` | `Coherent` | *violated:* a stale copy stays valid with nothing under way |

`CHECK_DEADLOCK FALSE` stands in the queue, cache and `parts` configurations: there the
counters of writes, deliveries, observations and faults run out, or the search is over, and
nothing has to happen. The Raft and
lock instances stutter explicitly where only a bound has stopped them, and nowhere else.

## 4. Bounds

* `MaxTerm`, `MaxLog`, `MaxLate`, `MaxRestarts` (Raft). Two terms and two entries are the least
  in which logs diverge, are truncated and are rebuilt; one late request overtakes or is
  overtaken by each kind of step. Losing a committed entry by a wrong commit rule takes
  four terms (append, diverge, re-elect and replicate, overwrite); `service` has them
  with one entry and two servers that stand for election in turn (`Odd`, `Even`). Three servers are the least with a majority that excludes one. `Electable`
  restricts who stands for election where two candidates suffice.
* `MCView` drops from the fingerprint what no later step reads: `next_index` of followers and
  replies of stale vote rounds.
* `MaxCommands` (locks): four commands of three clients: hold, two waiters of different modes,
  release; and, with two locks, the cycle a X, b Y, a Y, b X. The theorems of section 6 cover
  longer logs.
* `MaxRetries = 1`, `MaxDeliveries = 3` (`queue_shared`): one retry and a delivery more than is allowed.
  Two loops and two handlers give every pair of actors on one message.
* `MaxRetries = 2`, `MaxDeliveries = 1`, `MaxFaults = 1` (`queue_faults`): two loops can count the one delivery
  of a message twice, and a third time after a fault, which is the least with which it is given up.
  Two messages, one of which may lose its hash, let a fault in one hit the other. An
  expired hash counts as a fault. The theorems of section 6 cover more loops, faults and deliveries.
* `MaxDepth = 3` (`parts`): as many nested calls as clients. With fewer `SearchEnds` does not hold, and
  no more are ever made; Python's limit is 1000 calls, so a wait-for path of about that many clients
  does end the detector, which `SearchEnds` does not exclude.
* `MaxWrites = 3`, `MaxFaults = 1` (cache): two racing writes and a later one, a lost call or a
  restart. `TwoDirtyIsPassing` speaks of states before any fault.
* `SuspectThreshold = 2`, `DeadThreshold = 3` (`base_node`): one miss changes nothing, the next
  does, and DEAD is a step of its own. Two peers have probes that end in either order and
  callbacks that mix; the theorems of section 6 cover any peers and thresholds.
* `parts`: three ring nodes with two virtual nodes each on six positions, so that every
  placement fills the ring and wraps; `MaxRing = 8` lets one node be added twice. Five
  observations in four buckets: three are enough for `p99` to fall below the median. Four audit entries with three faults: a torn line, one written behind it, and
  another torn one.
* `raft_live` lets a server crash only after the elections: earlier crashes can elect two
  leaders of one term (section 7), and then neither prevails.

## 5. Fairness

* Raft (`Fairness`): the heartbeat task of a leader ticks and its gather returns, because every
  `send` has a timeout (weak fairness). Of a call that is repeated at every heartbeat some
  attempt is answered (strong fairness of `Receive` and `ReceiveAppendReply`); any number of
  calls may be lost. Nothing is assumed of elections: `LeaderPrevails` starts from a leader
  that no other can depose.
* Search: `_find_cycles` runs without suspension to its end.
* Queue (`QueueFairness`): a handler that has begun goes on, Redis answers, the loops run and time
  passes. Nobody has to consume or acknowledge.
  `Polling` is assumed of `GetsThrough` only in so far as it speaks of a queue somebody
  polls; TLC checks `InFlightEnds` under it too, where it does not matter.
* Cache (`CacheFairness`): a call is answered or times out, and the caller then goes on. No peer has to
  answer and no INVALIDATE has to be handled.
* Failure detector (`NodeFairness`): the event loop runs on, so rounds begin, callbacks run, and
  a ping ends because `send` has a timeout (weak fairness). A peer that is up answers some of
  the pings that keep coming (strong fairness of `PingAnswered`); without that no detector of
  this kind could tell it from a dead one. Nothing is assumed of peers, starts, stops and crashes.
* Locks (`LockFairness`, for the refuted claim `WaitsEnd`): the apply loop and the detector run.

## 6. What is proved

For any finite set of servers, any bounds, any clients, locks and replicas:

* `RaftProofs!TypeCorrectness` (`TypeOK`), `RaftProofs!NoStaleReplies`
  (`RepliesAreOfThisTerm`). `TypeOK` is not inductive: the type of what is done with a reply depends
  on whose reply it is. The strengthening is `TypeInv == TypeOK /\ Calls`: the open calls of a
  server are those of its one round, in the term of that round.
* `RaftProofs!VotesAreKept` (`VotesStand`) and `AtMostOneLeader` (`ElectionSafety`).
  A vote is forgotten when its server moves to a newer term, so "a majority voted for the
  leader" is no invariant. What is: every server of some majority is past the leader's term or
  still votes for the leader (`Bound`), and no other open vote round of that term holds its
  vote (`LeadersElected`); votes in an open round bind their voters (`VotesBind`) and are not
  held by two rounds (`VotesExclude`). Two majorities share a server (`QuorumsMeet`).
* `RaftLogProofs!LogsAgree` (`LogMatching`). Truncation erases what a deposed leader had, so
  no formula about the present logs alone is inductive. The invariant says that a record
  exists (`HistInv == \E L, W : LogInv(L, W)`): `L[t]` is the last log the leader of term t
  had as leader, `W[t]` who that was. Every log and every call under way, late ones included,
  is made of parts of `L` (`LogsFollow`, `CallsFollow`). A step that appends or elects extends
  the record; every other step keeps it. No history variable is added to the model.
* `RaftLogProofs!AcknowledgedIsHeld` (`MatchIndexSound`) and `LeadersHoldCommitted`
  (`LeaderCompleteness`). The record grows by `V[q][t]`, the log of server q as it was last in
  term t. What a leader counts as acknowledged is in `V` (`AckInv`). If a majority has, or may still
  get, the first k entries of the leader of term T, and the last of them is of term T (`Choosable`),
  then all later leaders have them, whoever acknowledged them has not lost them and
  votes only for those who have them (`ChoiceInv`). Every commit index is backed by such
  entries (`Certified`). This is where the rule that a leader commits only entries of its own
  term is needed. `BallotInv` carries what a candidate says of its log to the voter.
* `RaftServiceProofs!RaftImplementsLog` (`ImplementsReplicatedLog`): every step of `Raft` is a
  step of `ReplicatedLog` or stutters. `CommitsAgree` and `CommitsKept` say that what
  two servers know is the same and no step takes it back; `Bounded` that the entries are
  among those the abstract log may hold; `Known` that a server exists that knows the most,
  so that the mapping, which chooses it, is well defined.
* `RaftServiceProofs!AnswersStand` (`AnswersDurable`), `StateMachinesAgree` (`StateMachineSafety`) and
  `ServiceImplementsFeed` (`ImplementsCommandFeed`). Every service step is a step of `Raft` or
  leaves it alone (`ServiceHasRaft`), so what is proved of `Raft` holds. `ServiceInv` adds: the apply event
  is set only where there is news, whatever was handed over is still in the log at its index,
  and the future that a leader keeps at the index of an entry of its own term is that
  entry's. Of futures at other indices nothing holds: `_pending` survives a loss of
  leadership. That they do no harm is the point of `AnswersStand`.
* `LockManagerProofs!LockTypes`, `MutualExclusion`, `NoReaderIsForgotten`: the inductive invariant
  (`LockInvariant`) says of every lock that it is `Sound`: well-typed, a writer excludes
  readers, a queued reader has a writer to wait for. It is followed through grant, queueing,
  release and abort, one lemma each, so that the proof of a step is about one lock.
* `LockManagerProofs!GrantsAreAskedFor` (`HoldersAsked`): the claims of a lock (who holds it or is
  queued, in which mode) are all backed by an acquire command the replica was handed; a
  queue only grants claims it already has.
* `LockManagerProofs!BooksAreKept` (`CommandsKeepBooks`): a release serves a queue if anybody
  is in it (the head can be granted), and a wait-for edge to a client that is still there is
  still backed by the lock it was added for.
* `LockManagerProofs!PlacesAreKept` (`DropsAreBehindWriters`): a queued request is the command at its
  place in the log (`QueuesPlaced`), so no two have one place, and the writer at the head is
  before all others (`GrantWaitingServes`). Releases and aborts only shrink a queue, and only in that loop.
* `LockManagerProofs!LockTableIsFed`: `LockSpec` implies the `FeedSpec` of `CommandFeed`, which
  `ServiceImplementsFeed` shows `RaftService` to implement. So the lock table sits on Raft
  without asking more of it than it does.
* `LockManagerProofs!SearchIsSound` (`SearchReports`), for any finite set of clients, any graph
  and any order of the loops. Like the logs of Raft, the invariant (`SearchInv`) says that
  records exist. `T[c]` is the path on which the search came to c; a path begins with those
  of the clients on it (`Trail`), and each reported cycle is the end of one (`Found`), so that a
  set of clients is reported once. `F` is the order in which the search was done with the
  clients: an edge it has looked at closed a cycle, or leads to a client done with before, or
  is the one it is on (`Ranked`). On a cycle with no edge of the first kind no client could
  have been done with first (`CyclesAreBroken`).

* `BaseNodeProofs!NodeTypeCorrect` (`NodeTypeOK`), `SuspicionsAreGrounded` (`SuspectsAreSilent`),
  `PingsAreCarried` (`PingsHaveSession`), `CallbacksTakeTurns` (`CallsAlternate`). Two facts carry
  them. `Counted`: the status of a peer is that of its misses, and its silence is at most one
  probe shorter than they say. `Nested`: the detector runs, or has a probe out, only between
  its start and its stop, and these lie within the life of the session. That callbacks take
  turns is inductive as it stands; its proof follows the queue of tasks as it grows at one
  end and shrinks at the other.
* `PartsProofs!AuditTypeCorrect` (`AuditTypeOK`), `AnswersAreOnRecord` (`AnsweredIsRecorded`) and
  `RestartsKeepTheChain` (`ChainHolds`), for any number of processes, requests and faults. "No
  more answers are missing than lines were torn" is not inductive: the entry is lost one
  write after the line was torn. `Accounted` books it ahead: what is missing, and one more if
  the last line is cut short, is at most what was torn, and the line cut short was nobody's
  answer. For the chain (`Intact`): a process that runs knows number and hash of the last line.
* `PartsProofs!LossesAreSeen` (`LossIsSeen`): of a single process every line has a
  name of its own as long as the chain holds (`Named`), so a selection of lines that verifies
  can only be a beginning; the first place where it is not would name a line that is not there.
* `PartsProofs!OwnersAreSuccessors` (`OwnerIsSuccessor`) and `KeysStay` (`OnlyItsKeysMove`), for any
  nodes, number of virtual nodes and placement. The list alone cannot carry them: a node
  added twice and removed once leaves positions that no node owns (`Spoilt`), and such a list
  is no function of the nodes on the ring. `RingInv` speaks of both the list and the map: the list is
  sorted, a position is mapped only to a node on the ring that has it, and all positions of
  such a node are mapped and listed. A list that is not spoilt then holds just the positions
  of the nodes on the ring, and `bisect_left` finds the first at or after a key's, going round. That keys
  stay follows: the owner of a key is whoever has the next position, and nobody else's
  position moves. The loops of `add_node` and `remove_node` are followed turn by turn (`LoopExists`,
  `Turns`): each turn inserts into, or takes out of, a sorted list.
* `PartsProofs!OnceIsMapped`: both are stated for a ring that is not spoilt. As long as no node
  is added while it is on the ring, it never is: every position is in the list once
  (`NoneLeft`), so that removals leave nothing behind, and every owner is the next.
* `PartsProofs!P99IsBelow` (`P99IsALowerBound`), for any number of buckets and observations. A bucket's count
  is no less than what was observed in it, and above zero only if something was observed in
  it or below (`HistogramInv`); so a running total over counts is no less than one over
  observations (`TotalBounds`) and gets to 99 % no later.
* `QueueNodeProofs!QueueTypes` (`TypeOK`), for any handlers, loops, messages and faults.
* `QueueNodeProofs!LossesAreCounted` (`LossesAreFaults`, and `NotLost` while `faults = 0`), for any finite number of
  loops, any set of forwarded messages, hashes that expire, and acknowledgements at any time. Neither is
  inductive: a consumer drops a message whose hash it cannot read, and a loop removes a message for
  good when it has no retries left. So a set of messages is said to exist, no larger than `faults`,
  outside of which `KeepInv` holds: whatever is in the queue, or in the hands of somebody who
  will read or rewrite its hash, has a hash with a retry count, a
  loop about to give up has it on record, and all this begins before the producer is
  answered (`Stored`). A handler or a loop that fails and a hash that expires each put one message
  more into the set, the one they had in hand (`FaultKeeps`); every other step is `Careful` of the messages outside it. Any number of loops may take a message out of flight at once: each of them
  puts it back.
* `QueueNodeProofs!GivenUpIsLate` (`GivenUpLate`), under the same conditions. A retry count is one
  that some loop wrote back, perhaps long after it read it. The invariant (`LateInv`) gives every
  count a reason (`CountedBy`): a loop that adds one does so for a message it found overdue, after a delivery
  for which it has not counted yet, unless it failed in between. The counts of a message are so no more than
  the pairs of a loop and a delivery, and the faults.
* `CacheNodeProofs!CacheTypes` (`TypeOK`) and `TwoDirtyPasses` (`TwoDirtyIsPassing`), for any
  nodes, keys, capacity, writes and faults (the latter while `faults = 0`). That two nodes have a
  key as Modified only while an INVALIDATE is under way is not inductive: a writer may finish
  next. `ClaimsMeet` says it of nodes that have the key as Modified *or are writing it*: of
  two, whoever began later sent an INVALIDATE that the other does not handle before its own
  write has ended, and then gives up its claim. This needs that nobody holds a key as
  Exclusive, or a write without calls would be a claim of its own (`NoExclusive`: the code never
  sets that state). The part on one cache (`PutCached`, `TouchCached`, `SetCached`) says what
  `LRUCache` does to the entries.

Assumptions: those the modules state about their constants (`Server` is finite and not empty,
`Node` of the queue is finite, `Client` is finite, which only `SearchIsSound` needs, `Nil` is no server and no client, bounds
are naturals, a node of the ring has a virtual node and the histogram a bucket). TLC evaluates them in the runs.
Of `RingInit` they use that no two virtual nodes have the same hash.
The condition of `OnceIsMapped` stands in the theorem.

Every invariant and every action property that a passing run checks is stated by a theorem. Only proved, because
TLC needs no run for them: `AuditTypeOK`, `OnceIsMapped`, `OnlyItsKeysMove`. Out of the provers' reach, and so with
TLC alone: everything under fairness (`LeaderPrevails`, `SearchEnds`, `InFlightEnds`,
`GetsThrough`, `OperationsEnd`, `DeathsAreSeen`, `RecoveriesAreSeen`) and ENABLED. The library's rules
for induction over data and for recursive functions take an operator as parameter, which no
installed prover can instantiate. Where a proof needs a least or a greatest number (the
first line out of place, the server that knows the most), or goes through the turns of a
loop, it has it from the rule for sets (`WFMin` of `WellFoundedInduction`): a turn that
broke what the turns before kept would have a first (`Turns`), and so would the turn up to
which the values of a loop do not exist (`LoopExists`). The folds of the community modules have
no such proof; the loops of the ring and the histogram are written as recursive functions
for that reason. No module has a recursive operator.

## 7. Where code and documents disagree

Three runs show a disagreement each (section 3, *violated*); `PROJECT.json` quotes both
sides. TLC refutes the following with the same modules; no run is kept for them. Constants
not named are as in the run of that component (`queue_shared` for the queue); all of these need
at most one fault.

| Claim | Said in | Line of the code | Refuted with |
|---|---|---|---|
| `ElectionSafety` under restarts | `src/docs/architecture.md:74` | `raft.py:84`, vote and term are not saved | `RaftRestart`, `RestartSpec`, `MaxTerm = 1`, `MaxLog = 0`, `MaxRestarts = 1` |
| `LeaderCompleteness` under restarts | `src/docs/architecture.md:76` | `raft.py:85`, the log is not saved | `RaftRestart`, `RestartSpec`, `MaxTerm = 2`, `MaxLog = 1`, `MaxRestarts = 1` |
| `CommittedIsAnswered` | `raft.py:300` | `raft.py:301`, one future per commit step | `MCRaftService`, `MaxTerm = 1`, `MaxLog = 2` |
| `GrantOrQueue` | `src/docs/architecture.md:218` | `lock_manager.py:183`, `break` drops the queue | `MCPoliteSpec`, 3 clients, 1 lock, 1 replica, `MaxCommands = 4` |
| `FreeLocksAreGranted` | `lock_manager.py:230` | `lock_manager.py:241`, a reader's abort grants nobody | `MCPoliteSpec`, 2 clients, 2 locks, 1 replica, `MaxCommands = 4` |
| `DeadlocksAreSeen` | `lock_manager.py:11` | `lock_manager.py:174`, a release wipes all edges | as above, `MaxCommands = 6` |
| `ReleasedStaysReleased` | `lock_manager.py:100`, `src/docs/api_spec.yaml:163` | `lock_manager.py:179`, a release leaves the queue alone | `MCPoliteSpec`, 2 clients, 1 lock, `MaxCommands = 4` |
| `LeasesExclude` | `lock_manager.py:9`, `src/docs/api_spec.yaml:147` | `lock_manager.py:97`, always "acquired" | `MCPoliteSpec`, 2 clients, 1 lock, `MaxCommands = 2` |
| `WaitsEnd` | `src/docs/architecture.md:204` | `lock_manager.py:42`, the timeout is never read | `MCFairSpec`, 2 clients, 1 lock, `MaxCommands = 2` |
| `NotLost` with a crash | `src/docs/architecture.md:205` | `queue_node.py:196`, `:260`, two commands apart | `QueueSpec`, 1 node, 2 handlers, `Forwarded = {}`, `MaxFaults = 1` |
| `RetriesBounded` | `src/docs/architecture.md:133` | `queue_node.py:246`, two loops read the same count | `QueueSpec`, 2 nodes, 2 handlers, 1 message, `Forwarded = {}`, `MaxRetries = 1`, `MaxDeliveries = 3`, `MaxFaults = 0` (or 1 node and `Forwarded = {m1}`) |
| `SettledStays` | `src/docs/architecture.md:133`, redelivered if not acknowledged in time, `queue_node.py:219` | `queue_node.py:259`, redelivers what it read as expired, whatever came since | as `RetriesBounded` |
| `InFlightEnds` after a Redis error | `queue_node.py:229` | `queue_node.py:234`, only CancelledError is caught | `MCFairSpec`, 1 node, 1 handler, `MaxFaults = 1` |
| `CompletedStays` | `src/docs/architecture.md:123` | `queue_node.py:259`, a stale hash is written back | `QueueSpec`, 1 node, 1 handler |
| `OutcomeRecorded` | `src/docs/architecture.md:127` | `queue_node.py:253`, another delivery is removed | `QueueSpec`, 2 nodes, 1 handler |
| `WriterIsAlone` | `cache_node.py:7`, `src/docs/architecture.md:145` | `cache_node.py:194`, the old copy can be peeked at | `CacheSpec`, 2 nodes, 1 key, `MaxFaults = 0` |
| `P99IsThePercentile`, `P99IsAboveTheMedian` | `metrics.py:85` | `metrics.py:91`, adds up counts that are cumulative already | `MCParts`, as in `parts` |
| `RingIsMapped` | `queue_node.py:69`, a list and its map | `queue_node.py:85`, `:86`, an id added twice and removed once | `MCParts`, as in `parts` |
| `LogVerifies` | `audit_logger.py:50`, with `src/docs/deployment_guide.md:55`, three nodes in one directory | `audit_logger.py:99`, each chains to its own last entry | `MCParts`, `Writer = {w1, w2}`, `MaxFaults = 0` |
| `LogRecovers` | `audit_logger.py:50` | `audit_logger.py:102`, the hash moves on before the write | `MCParts`, `MaxFaults = 1` |

Some more were met while reading, and need no model checker:

* `_on_stop` says "Hook called before infrastructure is stopped" (`base_node.py:82`); `stop` calls
  it last (`base_node.py:68`).
* `_unflatten` says "Restore types" (`queue_node.py:302`), but nothing tells a string from a
  value: a text field that reads like a number or a boolean comes back as one.
* `_node_id_to_url` finds a node by `in` (`queue_node.py:291`): the id `node1` is also found in the
  URL of `node10`.
* A queue whose name contains ":" is not found by the redelivery loop (`queue_node.py:242`).
* `record_alive` has no caller: the failure detector hears only of its own probes.

## 8. What is not modelled

* Message encoding, and the mapping of URLs to node ids: only their effect is in `QueueNode`
  (which messages are forwarded; hashes that cannot be decoded). They work on the characters
  of strings; see section 7.
* Metrics other than the histogram: counters and gauges that nothing in the system reads back.
* Authentication, roles and TLS: stateless. Configuration: constants. HTTP routing and JSON:
  no state. Tests, benchmarks, deployment files and documents are read for what they say.

## 9. Plan

1. Done: all parts of section 2. Proved: Raft, its refinement and its clients, the lock table
   and its search for cycles, the queue, the cache, the failure detector and the life of a
   node, the audit log, the ring and the histogram.
2. An abstract at-least-once queue, which `QueueNode` implements as long as nothing fails.
3. The conditions under which the liveness properties hold, one fairness assumption fewer at a
   time: which of them need every conjunct of section 5 is checked for none yet.
