----------------------------- MODULE QueueNode -----------------------------
(***************************************************************************)
(* The queue of src/src/nodes/queue_node.py: handlers that produce,        *)
(* consume and acknowledge, and on every node a loop that redelivers what  *)
(* was not acknowledged in time.  They share nothing but Redis, which runs *)
(* one command at a time, so every awaited Redis command is a step of its  *)
(* own and anything may happen between two of them.                        *)
(*                                                                         *)
(* One queue: queues do not touch each other.  Time is abstract: the       *)
(* deadline of a message in flight passes at some moment, and so does the  *)
(* day after which Redis drops the hash of a message in Lapsing.  The ring *)
(* is the set Forwarded of messages whose owner is not the node that       *)
(* produces them.                                                          *)
(*                                                                         *)
(* MaxDeliveries bounds how often a message is handed out, MaxFaults how   *)
(* many handlers and loops fail and hashes expire.                         *)
(***************************************************************************)
EXTENDS Integers, Sequences, SequencesExt, FiniteSets

CONSTANTS Node, Handler, Message, Forwarded, Lapsing, MaxRetries, MaxDeliveries, MaxFaults

ASSUME QueueAssumption ==
  /\ IsFiniteSet(Node)
  /\ Forwarded \subseteq Message
  /\ Lapsing \subseteq Message
  /\ MaxRetries \in Nat
  /\ MaxDeliveries \in Nat
  /\ MaxFaults \in Nat

VARIABLES
  hash,       \* queue:Q:msg:M, its status and retry_count
  ttl,        \* the messages whose hash has an expiry time
  pending,    \* queue:Q:pending, its head on the left
  inFlight,   \* queue:Q:in_flight
  due,        \* those of inFlight whose ack_deadline has passed
  call,       \* what each handler is doing
  loop,       \* what each node's _redelivery_loop is doing
  forward,    \* how far the /queue/store call for a message has come
  faults,     \* faults so far
  accepted,   \* messages whose producer was told "produced"
  acked,      \* messages a consumer has acknowledged
  givenUp,    \* messages a loop has counted out
  delivered,  \* how often a message was handed out
  settled     \* messages that an acknowledgement took out of flight in time

redis == <<hash, ttl, pending, inFlight, due>>
history == <<accepted, acked, givenUp, delivered, settled>>
vars == <<redis, call, loop, forward, faults, history>>

Pending == "pending"
InFlight == "in_flight"
Completed == "completed"
Failed == "failed"

\* A hash that only acknowledge() has written to has no retry_count.
Unset == -1
Hash == [status : {Pending, InFlight, Completed, Failed}, retries : Nat \cup {Unset}]
Absent == [status |-> "absent", retries |-> Unset]

Idle == [at |-> "idle"]
StoreStep == {"forward", "hset", "lpush", "expire"}
ConsumeStep == {"read", "mark", "zadd"}
AckStep == {"complete", "zrem"}
Call == {Idle} \cup
        [at : StoreStep, msg : Message, remote : BOOLEAN] \cup
        [at : ConsumeStep, msg : Message, retries : Nat] \cup
        [at : AckStep, msg : Message]

Asleep == [at |-> "sleep", todo |-> {}]
Dead == [at |-> "dead", todo |-> {}]
Loop == [at : {"sleep", "read", "dead"}, todo : SUBSET Message] \cup
        [at : {"save", "zrem", "lpush"}, todo : SUBSET Message, msg : Message, retries : Nat]

-----------------------------------------------------------------------------
Init ==
  /\ hash = [m \in Message |-> Absent]
  /\ ttl = {}
  /\ pending = <<>>
  /\ inFlight = {}
  /\ due = {}
  /\ call = [h \in Handler |-> Idle]
  /\ loop = [n \in Node |-> Asleep]
  /\ forward = [m \in Message |-> "no"]
  /\ faults = 0
  /\ accepted = {}
  /\ acked = {}
  /\ givenUp = {}
  /\ delivered = [m \in Message |-> 0]
  /\ settled = {}

Goes(h, to) == call' = [call EXCEPT ![h] = to]
At(h, step) == call[h].at = step

-----------------------------------------------------------------------------
(* produce *)

Storing(m, remote) == [at |-> "hset", msg |-> m, remote |-> remote]

\* A message is new: its id is a fresh uuid.
New(m) ==
  /\ forward[m] = "no"
  /\ m \notin accepted
  /\ hash[m] = Absent
  /\ {h \in Handler : call[h] # Idle /\ call[h].msg = m} = {}

\* produce, up to its first await: the node stores the message or forwards it.
Produce(h, m) ==
  /\ call[h] = Idle
  /\ New(m)
  /\ IF m \in Forwarded
       THEN /\ Goes(h, [at |-> "forward", msg |-> m, remote |-> FALSE])
            /\ forward' = [forward EXCEPT ![m] = "sent"]
       ELSE /\ Goes(h, Storing(m, FALSE))
            /\ UNCHANGED forward
  /\ UNCHANGED <<redis, loop, faults, history>>

\* queue_store_internal on the owner, however late
ReceiveStore(h, m) ==
  /\ call[h] = Idle
  /\ forward[m] = "sent"
  /\ forward' = [forward EXCEPT ![m] = "storing"]
  /\ Goes(h, Storing(m, TRUE))
  /\ UNCHANGED <<redis, loop, faults, history>>

ForwardAnswered(h) ==
  /\ At(h, "forward")
  /\ forward[call[h].msg] = "stored"
  /\ accepted' = accepted \cup {call[h].msg}
  /\ Goes(h, Idle)
  /\ UNCHANGED <<redis, loop, forward, faults, acked, givenUp, delivered, settled>>

\* send() gave up; the owner may store the message all the same.
ForwardFailed(h) ==
  /\ At(h, "forward")
  /\ Goes(h, Storing(call[h].msg, FALSE))
  /\ UNCHANGED <<redis, loop, forward, faults, history>>

\* _store_message, its three commands
StoreHash(h) ==
  /\ At(h, "hset")
  /\ hash' = [hash EXCEPT ![call[h].msg] = [status |-> Pending, retries |-> 0]]
  /\ Goes(h, [call[h] EXCEPT !.at = "lpush"])
  /\ UNCHANGED <<ttl, pending, inFlight, due, loop, forward, faults, history>>

StorePush(h) ==
  /\ At(h, "lpush")
  /\ pending' = <<call[h].msg>> \o pending
  /\ Goes(h, [call[h] EXCEPT !.at = "expire"])
  /\ UNCHANGED <<hash, ttl, inFlight, due, loop, forward, faults, history>>

StoreExpire(h) ==
  /\ At(h, "expire")
  /\ LET m == call[h].msg
     IN /\ ttl' = IF hash[m] = Absent THEN ttl ELSE ttl \cup {m}
        /\ IF call[h].remote
             THEN forward' = [forward EXCEPT ![m] = "stored"] /\ UNCHANGED accepted
             ELSE accepted' = accepted \cup {m} /\ UNCHANGED forward
  /\ Goes(h, Idle)
  /\ UNCHANGED <<hash, pending, inFlight, due, loop, faults, acked, givenUp, delivered, settled>>

-----------------------------------------------------------------------------
(* consume *)

Consume(h) ==
  /\ call[h] = Idle
  /\ pending # <<>>
  /\ delivered[Last(pending)] < MaxDeliveries
  /\ Goes(h, [at |-> "read", msg |-> Last(pending), retries |-> 0])
  /\ pending' = Front(pending)
  /\ UNCHANGED <<hash, ttl, inFlight, due, loop, forward, faults, history>>

\* an empty hash is not told from a message
BugConsumeRead(h) ==
  /\ At(h, "read")
  /\ Goes(h, [call[h] EXCEPT !.at = "mark", !.retries = hash[call[h].msg].retries])
  /\ UNCHANGED <<redis, loop, forward, faults, history>>

\* Without its hash the message is taken for an empty queue; a hash without the
\* fields of a Message raises.
ConsumeRead(h) ==
  /\ At(h, "read")
  /\ LET found == hash[call[h].msg]
     IN Goes(h, IF found.retries = Unset THEN Idle
                ELSE [call[h] EXCEPT !.at = "mark", !.retries = found.retries])
  /\ UNCHANGED <<redis, loop, forward, faults, history>>

ConsumeMark(h) ==
  /\ At(h, "mark")
  /\ hash' = [hash EXCEPT ![call[h].msg] = [status |-> InFlight, retries |-> call[h].retries]]
  /\ Goes(h, [call[h] EXCEPT !.at = "zadd"])
  /\ UNCHANGED <<ttl, pending, inFlight, due, loop, forward, faults, history>>

\* The message goes out with a new deadline, in place of the one it may have.
ConsumeZadd(h) ==
  /\ At(h, "zadd")
  /\ LET m == call[h].msg
     IN /\ inFlight' = inFlight \cup {m}
        /\ due' = due \ {m}
        /\ delivered' = [delivered EXCEPT ![m] = @ + 1]
  /\ Goes(h, Idle)
  /\ UNCHANGED <<hash, ttl, pending, loop, forward, faults, accepted, acked, givenUp, settled>>

-----------------------------------------------------------------------------
(* acknowledge *)

\* A consumer acknowledges what was handed out, in time or not, once or twice.
Acknowledge(h, m) ==
  /\ call[h] = Idle
  /\ delivered[m] > 0
  /\ Goes(h, [at |-> "complete", msg |-> m])
  /\ UNCHANGED <<redis, loop, forward, faults, history>>

AckComplete(h) ==
  /\ At(h, "complete")
  /\ LET m == call[h].msg
     IN /\ hash' = [hash EXCEPT ![m].status = Completed]
        /\ acked' = acked \cup {m}
  /\ Goes(h, [call[h] EXCEPT !.at = "zrem"])
  /\ UNCHANGED <<ttl, pending, inFlight, due, loop, forward, faults, accepted, givenUp, delivered, settled>>

AckZrem(h) ==
  /\ At(h, "zrem")
  /\ LET m == call[h].msg
     IN /\ inFlight' = inFlight \ {m}
        /\ due' = due \ {m}
        /\ settled' = settled \cup ({m} \cap (inFlight \ due))
  /\ Goes(h, Idle)
  /\ UNCHANGED <<hash, ttl, pending, loop, forward, faults, accepted, acked, givenUp, delivered>>

-----------------------------------------------------------------------------
(* _redelivery_loop and _check_and_redeliver *)

Moves(n, to) == loop' = [loop EXCEPT ![n] = to]
LoopAt(n, step) == loop[n].at = step

\* The loop goes on to the next expired message, or back to sleep.
NextExpired(todo) == [at |-> IF todo = {} THEN "sleep" ELSE "read", todo |-> todo]

\* The list of expired messages is read once per round.
Scan(n) ==
  /\ LoopAt(n, "sleep")
  /\ due # {}
  /\ Moves(n, NextExpired(due))
  /\ UNCHANGED <<redis, call, forward, faults, history>>

\* No hash: the message is skipped, and stays in flight.  A hash that is no Message
\* raises, which ends the loop for good.
ReadExpired(n, m) ==
  /\ LoopAt(n, "read")
  /\ m \in loop[n].todo
  /\ LET rest == loop[n].todo \ {m}
     IN Moves(n, IF hash[m] = Absent THEN NextExpired(rest)
                 ELSE IF hash[m].retries = Unset THEN Dead
                 ELSE [at |-> "save", todo |-> rest, msg |-> m, retries |-> hash[m].retries])
  /\ UNCHANGED <<redis, call, forward, faults, history>>

\* the count is compared after it has been incremented
BugGivesUp(n) == loop[n].retries + 1 >= MaxRetries
GivesUp(n) == loop[n].retries >= MaxRetries

\* What was read is written back, with one retry more or as failed.
SaveExpired(n) ==
  /\ LoopAt(n, "save")
  /\ hash' = [hash EXCEPT ![loop[n].msg] =
       IF GivesUp(n) THEN [status |-> Failed, retries |-> loop[n].retries]
                     ELSE [status |-> Pending, retries |-> loop[n].retries + 1]]
  /\ givenUp' = IF GivesUp(n) THEN givenUp \cup {loop[n].msg} ELSE givenUp
  /\ Moves(n, [loop[n] EXCEPT !.at = "zrem"])
  /\ UNCHANGED <<ttl, pending, inFlight, due, call, forward, faults, accepted, acked, delivered, settled>>

\* a failed message is left in flight
BugRemoveExpired(n) ==
  /\ LoopAt(n, "zrem")
  /\ inFlight' = IF GivesUp(n) THEN inFlight ELSE inFlight \ {loop[n].msg}
  /\ due' = IF GivesUp(n) THEN due ELSE due \ {loop[n].msg}
  /\ Moves(n, IF GivesUp(n) THEN NextExpired(loop[n].todo) ELSE [loop[n] EXCEPT !.at = "lpush"])
  /\ UNCHANGED <<hash, ttl, pending, call, forward, faults, history>>

\* all that is due is taken out of flight at once
BugClearExpired(n) ==
  /\ LoopAt(n, "zrem")
  /\ inFlight' = (inFlight \ due) \ {loop[n].msg}
  /\ due' = {}
  /\ Moves(n, IF GivesUp(n) THEN NextExpired(loop[n].todo) ELSE [loop[n] EXCEPT !.at = "lpush"])
  /\ UNCHANGED <<hash, ttl, pending, call, forward, faults, history>>

RemoveExpired(n) ==
  /\ LoopAt(n, "zrem")
  /\ inFlight' = inFlight \ {loop[n].msg}
  /\ due' = due \ {loop[n].msg}
  /\ Moves(n, IF GivesUp(n) THEN NextExpired(loop[n].todo) ELSE [loop[n] EXCEPT !.at = "lpush"])
  /\ UNCHANGED <<hash, ttl, pending, call, forward, faults, history>>

\* what was handed out meanwhile is not pushed a second time
BugPushAgain(n) ==
  /\ LoopAt(n, "lpush")
  /\ pending' = IF hash[loop[n].msg].status = Pending THEN <<loop[n].msg>> \o pending ELSE pending
  /\ Moves(n, NextExpired(loop[n].todo))
  /\ UNCHANGED <<hash, ttl, inFlight, due, call, forward, faults, history>>

PushAgain(n) ==
  /\ LoopAt(n, "lpush")
  /\ pending' = <<loop[n].msg>> \o pending
  /\ Moves(n, NextExpired(loop[n].todo))
  /\ UNCHANGED <<hash, ttl, inFlight, due, call, forward, faults, history>>

-----------------------------------------------------------------------------
(* Time and faults *)

PassDeadline(m) ==
  /\ m \in inFlight \ due
  /\ due' = due \cup {m}
  /\ UNCHANGED <<hash, ttl, pending, inFlight, call, loop, forward, faults, history>>

Fault == faults < MaxFaults /\ faults' = faults + 1

\* Redis drops the hash of a message after a day, and nothing else of it.
Lapse(m) ==
  /\ Fault
  /\ m \in Lapsing \cap ttl
  /\ ttl' = ttl \ {m}
  /\ hash' = [hash EXCEPT ![m] = Absent]
  /\ UNCHANGED <<pending, inFlight, due, call, loop, forward, history>>

\* A handler ends half-way: its node crashed, or Redis did not answer.
Abandon(h) ==
  /\ Fault
  /\ call[h] # Idle
  /\ Goes(h, Idle)
  /\ UNCHANGED <<redis, loop, forward, history>>

\* Redis did not answer the loop, which stops at any error ...
LoopFails(n) ==
  /\ Fault
  /\ ~LoopAt(n, "dead")
  /\ Moves(n, Dead)
  /\ UNCHANGED <<redis, call, forward, history>>

\* ... until its node is started again.
Restart(n) ==
  /\ Fault
  /\ loop[n] # Asleep
  /\ Moves(n, Asleep)
  /\ UNCHANGED <<redis, call, forward, history>>

HandlerStep(h) ==
  \/ ForwardAnswered(h) \/ ForwardFailed(h)
  \/ StoreHash(h) \/ StorePush(h) \/ StoreExpire(h)
  \/ ConsumeRead(h) \/ ConsumeMark(h) \/ ConsumeZadd(h)
  \/ AckComplete(h) \/ AckZrem(h)

LoopStep(n) ==
  \/ Scan(n)
  \/ \E m \in Message : ReadExpired(n, m)
  \/ SaveExpired(n) \/ RemoveExpired(n) \/ PushAgain(n)

QueueNext ==
  \/ \E h \in Handler :
       \/ Consume(h) \/ HandlerStep(h) \/ Abandon(h)
       \/ \E m \in Message : Produce(h, m) \/ ReceiveStore(h, m) \/ Acknowledge(h, m)
  \/ \E n \in Node : LoopStep(n) \/ LoopFails(n) \/ Restart(n)
  \/ \E m \in Message : PassDeadline(m) \/ Lapse(m)

QueueSpec == Init /\ [][QueueNext]_vars

\* Handlers and loops run on, and time passes; nobody has to acknowledge.
QueueFairness ==
  /\ \A h \in Handler : WF_vars(HandlerStep(h))
  /\ \A n \in Node : WF_vars(LoopStep(n))
  /\ \A m \in Message : WF_vars(PassDeadline(m))

\* Somebody keeps asking for messages.
Polling == WF_vars(\E h \in Handler : Consume(h))

-----------------------------------------------------------------------------
(* Properties *)

\* Every variable keeps the shape the code gives it.
TypeOK ==
  /\ hash \in [Message -> Hash \cup {Absent}]
  /\ ttl \subseteq Message
  /\ pending \in Seq(Message)
  /\ inFlight \subseteq Message
  /\ due \subseteq inFlight
  /\ call \in [Handler -> Call]
  /\ loop \in [Node -> Loop]
  /\ forward \in [Message -> {"no", "sent", "storing", "stored"}]
  /\ faults \in 0..MaxFaults
  /\ accepted \subseteq Message
  /\ acked \subseteq Message
  /\ givenUp \subseteq Message
  /\ delivered \in [Message -> Nat]
  /\ settled \subseteq acked

\* A handler or a loop is about to put the message into the queue or in flight.
InHand(m) ==
  \/ \E h \in Handler : call[h].at \in ConsumeStep \cup {"lpush"} /\ call[h].msg = m
  \/ \E n \in Node : loop[n].at \in {"zrem", "lpush"} /\ ~GivesUp(n) /\ loop[n].msg = m

\* In the queue, in flight or about to be
UnderWay(m) == m \in Range(pending) \/ m \in inFlight \/ InHand(m)

\* No message whose producer was told "produced" is lost: it stays under way until
\* it is acknowledged or has used up its retries, although several loops redeliver
\* from stale lists and anyone's zrem takes away anyone's entry (consume,
\* _check_and_redeliver).
NotLost == \A m \in accepted : UnderWay(m) \/ m \in acked \cup givenUp

\* A fault costs at most one message: of those whose producer was told "produced" no
\* more are lost than handlers and loops have failed and hashes expired, although
\* between rpop and zadd, and between zrem and lpush, a message is in no list, a loop
\* that starts again knows only the lists it finds, and the other loops are at work on
\* the same messages (consume, _check_and_redeliver).
Lost == {m \in accepted : ~UnderWay(m) /\ m \notin acked \cup givenUp}
LossesAreFaults == Cardinality(Lost) <= faults

\* No message is given up early ("max 3x retry", from below): when it is, the loops,
\* each counting every delivery once, have more than MESSAGE_MAX_RETRIES to count; a
\* loop that fails after it has counted may count once more.  Each compares and writes
\* back a count it read earlier, so their retries may add up, but to no more than this
\* (_check_and_redeliver).
GivenUpLate ==
  \A m \in givenUp : Cardinality(Node) * delivered[m] + faults > MaxRetries

\* Nothing stays in flight: it is acknowledged or redelivered ("Redeliver messages
\* whose ack deadline has expired").
InFlightEnds == \A m \in Message : m \in inFlight ~> m \notin inFlight

\* A message whose producer was told "produced" gets through: as long as somebody
\* polls the queue it comes to be acknowledged or is counted out, although nobody
\* need ever acknowledge anything and several loops redeliver it ("At-Least-Once").
\* The last disjunct is the bound of the model.
GetsThrough ==
  \A m \in Message :
    m \in accepted ~> m \in acked \cup givenUp \/ delivered[m] >= MaxDeliveries
=============================================================================
