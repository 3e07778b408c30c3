----------------------------- MODULE CacheNode -----------------------------
(***************************************************************************)
(* The caches of src/src/nodes/cache_node.py: one LRU cache per node, kept *)
(* coherent by calls between the nodes.                                    *)
(*                                                                         *)
(* read, write and invalidate hold the node's lock from beginning to end,  *)
(* the calls to the peers included; peek takes no lock.  So a node has at  *)
(* most one operation under way, `op', what needs no call is one step, and *)
(* an INVALIDATE waits, possibly past the moment its sender gave up, while *)
(* the receiver is busy.                                                   *)
(*                                                                         *)
(* Values are the numbers of the writes.  There is no backing store: the   *)
(* code simulates one that is always empty.                                *)
(*                                                                         *)
(* MaxWrites bounds the writes, MaxFaults the lost calls and restarts.     *)
(***************************************************************************)
EXTENDS Integers, Sequences, SequencesExt, FiniteSets

CONSTANTS Node, Key, Capacity, MaxWrites, MaxFaults

ASSUME CacheAssumption ==
  /\ \A n \in Node : Node # {n}
  /\ Capacity \in Nat \ {0}
  /\ MaxWrites \in Nat
  /\ MaxFaults \in Nat

VARIABLES
  cache,      \* the OrderedDict of each node, least recently used entry first
  op,         \* the operation that holds each node's lock
  invals,     \* INVALIDATE calls not yet handled
  writes,     \* writes so far
  faults      \* faults so far

vars == <<cache, op, invals, writes, faults>>

State == {"M", "E", "S", "I"}
Value == 1..MaxWrites
None == 0
Entry == [key : Key, state : State, value : Value]

Idle == [kind |-> "idle"]
Reading == [kind : {"read"}, key : Key, ask : SUBSET Node, got : Value \cup {None}]
Writing == [kind : {"write"}, key : Key, value : Value, waiting : SUBSET Node, missed : BOOLEAN]

Invalidate == [from : Node, to : Node, key : Key, value : Value]

-----------------------------------------------------------------------------
(* LRUCache *)

Has(c, k) == \E e \in Range(c) : e.key = k
Place(c, k) == CHOOSE i \in DOMAIN c : c[i].key = k
Get(c, k) == c[Place(c, k)]
Valid(c, k) == \E e \in Range(c) : e.key = k /\ e.state # "I"
Without(c, k) == IF Has(c, k) THEN RemoveAt(c, Place(c, k)) ELSE c

\* get: what was looked up becomes the most recently used entry, even if invalid.
Touch(c, k) == IF Has(c, k) THEN Append(Without(c, k), Get(c, k)) ELSE c

\* a full cache takes one entry more
BugPut(c, e) == Append(Without(c, e.key), e)

\* put: a new key pushes out the least recently used one, whatever its state.
Put(c, e) ==
  Append(IF Has(c, e.key) \/ Len(c) < Capacity THEN Without(c, e.key) ELSE Tail(c), e)

Set(c, k, state) == IF Has(c, k) THEN Put(c, [Get(c, k) EXCEPT !.state = state]) ELSE c

-----------------------------------------------------------------------------
Init ==
  /\ cache = [n \in Node |-> <<>>]
  /\ op = [n \in Node |-> Idle]
  /\ invals = {}
  /\ writes = 0
  /\ faults = 0

Peers(n) == Node \ {n}
Holds(n, c) == cache' = [cache EXCEPT ![n] = c]
Does(n, o) == op' = [op EXCEPT ![n] = o]

(* read *)

\* A hit has no effect but on the order of the entries.
ReadHit(n, k) ==
  /\ op[n] = Idle
  /\ Valid(cache[n], k)
  /\ Holds(n, Touch(cache[n], k))
  /\ UNCHANGED <<op, invals, writes, faults>>

ReadMiss(n, k) ==
  /\ op[n] = Idle
  /\ ~Valid(cache[n], k)
  /\ Holds(n, Touch(cache[n], k))
  /\ Does(n, [kind |-> "read", key |-> k, ask |-> Peers(n), got |-> None])
  /\ UNCHANGED <<invals, writes, faults>>

\* The next peer, if any; when nobody has the key nothing is cached.
AskOn(n, p) ==
  LET left == op[n].ask \ {p}
  IN Does(n, IF left = {} THEN Idle ELSE [op[n] EXCEPT !.ask = left])

Asks(n, p) == op[n].kind = "read" /\ op[n].got = None /\ p \in op[n].ask

\* _fetch_from_peers: peer p answers from its cache as it is, lock or no lock.
Peek(n, p) ==
  /\ Asks(n, p)
  /\ IF Valid(cache[p], op[n].key)
       THEN Does(n, [op[n] EXCEPT !.got = Get(cache[p], op[n].key).value])
       ELSE AskOn(n, p)
  /\ UNCHANGED <<cache, invals, writes, faults>>

\* No answer within RPC_TIMEOUT
PeekFails(n, p) ==
  /\ Asks(n, p)
  /\ AskOn(n, p)
  /\ UNCHANGED <<cache, invals, writes, faults>>

\* The answer arrives and is cached as SHARED.
Install(n) ==
  /\ op[n].kind = "read"
  /\ op[n].got # None
  /\ Holds(n, Put(cache[n], [key |-> op[n].key, state |-> "S", value |-> op[n].got]))
  /\ Does(n, Idle)
  /\ UNCHANGED <<invals, writes, faults>>

(* write *)

Owned(c, k) == \E e \in Range(c) : e.key = k /\ e.state \in {"M", "E"}

NewWrite(n) == op[n] = Idle /\ writes < MaxWrites /\ writes' = writes + 1

\* M or E: no call
WriteOwned(n, k) ==
  /\ NewWrite(n)
  /\ Owned(cache[n], k)
  /\ Holds(n, Put(cache[n], [key |-> k, state |-> "M", value |-> writes']))
  /\ UNCHANGED <<op, invals, faults>>

\* S or I: INVALIDATE to all peers first
WriteBroadcast(n, k) ==
  /\ NewWrite(n)
  /\ ~Owned(cache[n], k)
  /\ Holds(n, Touch(cache[n], k))
  /\ invals' = invals \cup [from : {n}, to : Peers(n), key : {k}, value : {writes'}]
  /\ Does(n, [kind |-> "write", key |-> k, value |-> writes', waiting |-> Peers(n), missed |-> FALSE])
  /\ UNCHANGED faults

Awaits(n, p) == op[n].kind = "write" /\ p \in op[n].waiting

\* No answer within RPC_TIMEOUT; the call may be handled all the same.
BugGiveUp(n, p) == FALSE /\ UNCHANGED vars

GiveUp(n, p) ==
  /\ Awaits(n, p)
  /\ Does(n, [op[n] EXCEPT !.waiting = @ \ {p}, !.missed = TRUE])
  /\ UNCHANGED <<cache, invals, writes, faults>>

\* What became of the calls is not looked at.
FinishWrite(n) ==
  /\ op[n].kind = "write"
  /\ op[n].waiting = {}
  /\ Holds(n, Put(cache[n], [key |-> op[n].key, state |-> "M", value |-> op[n].value]))
  /\ Does(n, Idle)
  /\ UNCHANGED <<invals, writes, faults>>

(* invalidate *)

\* a peer that is writing the key itself answers without waiting for its lock
BugReceive(i) ==
  /\ i \in invals
  /\ invals' = invals \ {i}
  /\ Holds(i.to, Set(cache[i.to], i.key, "I"))
  /\ op' = IF Awaits(i.from, i.to) /\ op[i.from].value = i.value
           THEN [op EXCEPT ![i.from].waiting = @ \ {i.to}] ELSE op
  /\ UNCHANGED <<writes, faults>>

\* The INVALIDATE gets the lock.  A dirty value is "written back", which stores it
\* nowhere.  If the sender is still waiting it has its answer.
Receive(i) ==
  /\ i \in invals
  /\ op[i.to] = Idle
  /\ invals' = invals \ {i}
  /\ Holds(i.to, Set(cache[i.to], i.key, "I"))
  /\ op' = IF Awaits(i.from, i.to) /\ op[i.from].value = i.value
           THEN [op EXCEPT ![i.from].waiting = @ \ {i.to}] ELSE op
  /\ UNCHANGED <<writes, faults>>

\* DELETE /cache/{key} invalidates on this node only.
Delete(n, k) ==
  /\ op[n] = Idle
  /\ Has(cache[n], k)
  /\ Holds(n, Set(cache[n], k, "I"))
  /\ UNCHANGED <<op, invals, writes, faults>>

(* Faults *)

Fault == faults < MaxFaults /\ faults' = faults + 1

\* A call that is never handled
Lose(i) ==
  /\ Fault
  /\ i \in invals
  /\ invals' = invals \ {i}
  /\ UNCHANGED <<cache, op, writes>>

\* A node comes back empty, without what it was doing or was asked to do.
Restart(n) ==
  /\ Fault
  /\ Holds(n, <<>>)
  /\ Does(n, Idle)
  /\ invals' = {i \in invals : i.to # n}
  /\ UNCHANGED writes

CacheNext ==
  \/ \E n \in Node :
       \/ Install(n) \/ FinishWrite(n) \/ Restart(n)
       \/ \E k \in Key :
            ReadHit(n, k) \/ ReadMiss(n, k) \/ WriteOwned(n, k) \/ WriteBroadcast(n, k) \/ Delete(n, k)
       \/ \E p \in Node : Peek(n, p) \/ PeekFails(n, p) \/ GiveUp(n, p)
  \/ \E i \in invals : Receive(i) \/ Lose(i)

CacheSpec == Init /\ [][CacheNext]_vars

\* An operation goes on: a call is answered or times out.  No peer has to answer.
CacheFairness ==
  \A n \in Node :
    /\ WF_vars(Install(n) \/ FinishWrite(n))
    /\ \A p \in Node : WF_vars(Peek(n, p) \/ PeekFails(n, p)) /\ WF_vars(GiveUp(n, p))

-----------------------------------------------------------------------------
(* Properties *)

Dirty(n, k) == \E e \in Range(cache[n]) : e.key = k /\ e.state = "M"

\* Every variable keeps the shape the code gives it; a cache holds at most Capacity
\* entries, one per key.
TypeOK ==
  /\ cache \in [Node -> Seq(Entry)]
  /\ \A n \in Node :
       /\ Len(cache[n]) <= Capacity
       /\ \A i, j \in DOMAIN cache[n] : cache[n][i].key = cache[n][j].key => i = j
  /\ op \in [Node -> {Idle} \cup Reading \cup Writing]
  /\ invals \subseteq Invalidate
  /\ writes \in 0..MaxWrites
  /\ faults \in 0..MaxFaults

\* As long as no call is lost and no node restarts, two nodes hold a key as Modified
\* only while an INVALIDATE is on its way to one of them, even if both wrote at once
\* and gave up on each other; nobody's own write finishes over an INVALIDATE that it
\* has not handled and that is gone (write, invalidate).
TwoDirtyIsPassing ==
  faults = 0 => \A n, m \in Node : \A k \in Key :
    n # m /\ Dirty(n, k) /\ Dirty(m, k) =>
      \E i \in invals : i.key = k /\ i.to \in {n, m}

\* Every operation ends and frees the lock, even if two writers wait for each other's
\* (write, broadcast).
OperationsEnd == \A n \in Node : op[n] # Idle ~> op[n] = Idle

(* What the documents say and the code does not do *)

Quiet == invals = {} /\ \A n \in Node : op[n] = Idle

\* With nothing under way all valid copies of a key agree ("ensures no stale data").
Coherent ==
  Quiet => \A n, m \in Node : \A k \in Key :
             Valid(cache[n], k) /\ Valid(cache[m], k) =>
               Get(cache[n], k).value = Get(cache[m], k).value
=============================================================================
