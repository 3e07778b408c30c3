---------------------------- MODULE LockManager ----------------------------
(***************************************************************************)
(* The lock table of src/src/nodes/lock_manager.py: one LockManager per    *)
(* replica, driven by the committed commands of the Raft log and by a      *)
(* deadlock detector that every replica runs on a timer of its own.        *)
(*                                                                         *)
(* Consensus is a CommandFeed, which RaftService implements: one sequence  *)
(* of committed commands (`log'), handed to each replica in order, each at *)
(* most once, but with gaps.                                               *)
(*                                                                         *)
(* Atomicity.  _on_commit and the detection loop hold self._lock and never *)
(* suspend inside, so a command is one step.  A detection tick is split    *)
(* into its search and one step per cycle; `found' is not empty while it   *)
(* has the lock, and no command is applied meanwhile.                      *)
(*                                                                         *)
(* A command's timestamp is its place in the log (one leader's clock).     *)
(* MaxCommands bounds the log.                                             *)
(***************************************************************************)
EXTENDS WaitForGraph

CONSTANTS Replica, Lock, Nil, MaxCommands

ASSUME LockNilAssumption == Nil \notin Client
ASSUME LockBoundAssumption == MaxCommands \in Nat

VARIABLES
  log,        \* the committed commands
  told,       \* the leases clients hold by what acquire and release answered
  applied,    \* the places of the log a replica has been handed
  locks,      \* _locks
  created,    \* the keys of _locks
  waitFor,    \* _wait_for
  queuedAt,   \* _client_requests: the time of each client's youngest, 0 if none
  found       \* the cycles a detection tick has yet to resolve

tableVars == <<created, locks, waitFor, queuedAt>>
vars == <<log, told, applied, tableVars, found>>

Shared == "shared"
Exclusive == "exclusive"
Mode == {Shared, Exclusive}

\* A queue holds its requests in the order of the log, at which place each was
\* applied; each place is applied once.
LockRequest == [client : Client, mode : Mode, at : Nat]
LockState == [exclusive : Client \cup {Nil}, shared : SUBSET Client, queue : SUBSET LockRequest]

Acquire == [type : {"acquire"}, lock : Lock, client : Client, mode : Mode]
Release == [type : {"release"}, lock : Lock, client : Client]
Command == Acquire \cup Release

Feed == INSTANCE CommandFeed WITH
          Value <- Command, MaxLength <- MaxCommands, feed <- log, handed <- applied,
          calls <- [r \in Replica |-> Cardinality(applied[r])]

-----------------------------------------------------------------------------
(* One lock *)

Free == [exclusive |-> Nil, shared |-> {}, queue |-> {}]

IsFree(ls) == ls.shared = {} /\ ls.exclusive = Nil

\* a writer, too, only looks for a writer
BugCanAcquire(ls, mode) == ls.exclusive = Nil
CanAcquire(ls, mode) ==
  \/ mode = Shared /\ ls.exclusive = Nil
  \/ mode = Exclusive /\ IsFree(ls)

\* None is not told from a holder
BugHolders(ls) == ls.shared \cup {ls.exclusive}
Holders(ls) == ls.shared \cup ({ls.exclusive} \ {Nil})

Grant(ls, c, mode) ==
  IF mode = Shared THEN [ls EXCEPT !.shared = @ \cup {c}] ELSE [ls EXCEPT !.exclusive = c]

Enqueue(ls, c, mode, i) ==
  [ls EXCEPT !.queue = @ \cup {[client |-> c, mode |-> mode, at |-> i]}]

Writers(q) == {w \in q : w.mode = Exclusive}
BugReaders(q) == {w.client : w \in q}
Readers(q) == {w.client : w \in q \ Writers(q)}

\* The head of the queue, if it is a writer
WriterAtHead(q) == {w \in Writers(q) : \A o \in q : w.at <= o.at}

\* a writer at the head hides the readers behind it, and the other way round
BugGrantWaiting(ls) ==
  IF ls.exclusive # Nil THEN ls
  ELSE IF ls.shared = {} /\ WriterAtHead(ls.queue) # {}
    THEN LET w == CHOOSE w \in WriterAtHead(ls.queue) : TRUE
         IN [ls EXCEPT !.exclusive = w.client, !.queue = @ \ {w}]
  ELSE IF Writers(ls.queue) = {}
    THEN [ls EXCEPT !.shared = @ \cup Readers(ls.queue), !.queue = {}]
    ELSE ls

\* the loop breaks after any request it grants
BugBreak(ls) ==
  LET Heads(q) == {w \in q : \A o \in q : w.at <= o.at}
      readers == ls.queue \ Writers(ls.queue)
      next == IF ls.shared = {} THEN Heads(ls.queue) ELSE Heads(readers)
  IN IF ls.exclusive # Nil \/ next = {} THEN ls
     ELSE LET w == CHOOSE w \in next : TRUE
          IN Grant([ls EXCEPT !.queue = {o \in @ : o.at < w.at}], w.client, w.mode)

\* The loop at the end of _apply_release.  A writer can only be granted at the head
\* of the queue; the loop then breaks, and what it had collected so far, nothing,
\* becomes the queue.  Otherwise all readers are granted and the writers stay.
GrantWaiting(ls) ==
  IF ls.exclusive # Nil THEN ls
  ELSE IF ls.shared = {} /\ WriterAtHead(ls.queue) # {}
    THEN LET w == CHOOSE w \in WriterAtHead(ls.queue) : TRUE
         IN [ls EXCEPT !.exclusive = w.client, !.queue = {}]
    ELSE [ls EXCEPT !.shared = @ \cup Readers(ls.queue), !.queue = Writers(@)]

Released(ls, c) ==
  GrantWaiting([ls EXCEPT !.exclusive = IF @ = c THEN Nil ELSE @, !.shared = @ \ {c}])

\* _resolve_deadlock: the victim's exclusive lock is released like any other, its
\* shared one is only discarded.  Its own requests stay in the queues.
Aborted(ls, v) ==
  [(IF ls.exclusive = v THEN Released(ls, v) ELSE ls) EXCEPT !.shared = @ \ {v}]

-----------------------------------------------------------------------------
LockInit ==
  /\ Feed!FeedInit
  /\ told = {}
  /\ locks = [r \in Replica |-> [l \in Lock |-> Free]]
  /\ created = [r \in Replica |-> {}]
  /\ waitFor = [r \in Replica |-> [c \in Client |-> {}]]
  /\ queuedAt = [r \in Replica |-> [c \in Client |-> 0]]
  /\ found = [r \in Replica |-> {}]

\* The answers of acquire() and release() do not depend on the lock table: "acquired"
\* and "released" for every command that a leader took.
Answer(cmd) ==
  told' = IF cmd.type = "acquire"
          THEN told \cup {[lock |-> cmd.lock, client |-> cmd.client, mode |-> cmd.mode]}
          ELSE {t \in told : t.lock # cmd.lock \/ t.client # cmd.client}

Submit(cmd) ==
  /\ Feed!Extend(<<cmd>>)
  /\ Answer(cmd)
  /\ UNCHANGED <<tableVars, found>>

\* _apply_acquire of the command at place i of the log
ApplyAcquire(r, i) ==
  LET cmd == log[i]
      ls == locks[r][cmd.lock]
  IN /\ cmd.type = "acquire"
     /\ created' = [created EXCEPT ![r] = @ \cup {cmd.lock}]
     /\ \/ /\ CanAcquire(ls, cmd.mode)
           /\ locks' = [locks EXCEPT ![r][cmd.lock] = Grant(ls, cmd.client, cmd.mode)]
           /\ UNCHANGED <<waitFor, queuedAt>>
        \/ /\ ~CanAcquire(ls, cmd.mode)
           /\ locks' = [locks EXCEPT ![r][cmd.lock] = Enqueue(ls, cmd.client, cmd.mode, i)]
           /\ waitFor' = [waitFor EXCEPT ![r][cmd.client] = @ \cup Holders(ls)]
           /\ queuedAt' = [queuedAt EXCEPT ![r][cmd.client] = i]

\* a release leaves the edges to the client in place
BugWithoutClient(g, c) == [g EXCEPT ![c] = {}]

\* Releasing any lock, held or not, takes the client out of the graph.
WithoutClient(g, c) == [d \in Client |-> IF d = c THEN {} ELSE g[d] \ {c}]

\* _apply_release of the command at place i of the log
ApplyRelease(r, i) ==
  LET cmd == log[i]
  IN /\ cmd.type = "release"
     /\ \/ /\ cmd.lock \notin created[r]
           /\ UNCHANGED <<locks, waitFor>>
        \/ /\ cmd.lock \in created[r]
           /\ locks' = [locks EXCEPT ![r][cmd.lock] = Released(@, cmd.client)]
           /\ waitFor' = [waitFor EXCEPT ![r] = WithoutClient(@, cmd.client)]
     /\ UNCHANGED <<created, queuedAt>>

\* _on_commit
Apply(r) ==
  /\ found[r] = {}
  /\ \E i \in 1..Len(log) : Feed!Hand(r, i) /\ (ApplyAcquire(r, i) \/ ApplyRelease(r, i))
  /\ UNCHANGED <<told, found>>

\* A tick of _deadlock_detection_loop that finds something.
Detect(r) ==
  /\ found[r] = {}
  /\ \E ps \in SUBSET Cycles(waitFor[r]) :
       /\ ps # {}
       /\ Reports(waitFor[r], ps)
       /\ found' = [found EXCEPT ![r] = {Members(p) : p \in ps}]
  /\ UNCHANGED <<log, told, applied, tableVars>>

\* The client of the youngest request that anyone in the cycle ever had queued
Victims(r, cycle) ==
  {v \in cycle : queuedAt[r][v] # 0 /\ \A w \in cycle : queuedAt[r][w] <= queuedAt[r][v]}

\* _resolve_deadlock for one cycle
Resolve(r, cycle) ==
  /\ cycle \in found[r]
  /\ found' = [found EXCEPT ![r] = @ \ {cycle}]
  /\ \/ /\ Victims(r, cycle) = {}
        /\ UNCHANGED <<locks, waitFor>>
     \/ \E v \in Victims(r, cycle) :
          /\ locks' = [locks EXCEPT ![r] = [l \in Lock |-> Aborted(@[l], v)]]
          /\ waitFor' = [waitFor EXCEPT ![r] =
               IF \E l \in Lock : locks[r][l].exclusive = v THEN WithoutClient(@, v) ELSE @]
  /\ UNCHANGED <<log, told, applied, created, queuedAt>>

LockNext ==
  \/ \E cmd \in Command : Submit(cmd)
  \/ \E r \in Replica :
       \/ Apply(r)
       \/ Detect(r)
       \/ \E cycle \in SUBSET Client : Resolve(r, cycle)

LockSpec == LockInit /\ [][LockNext]_vars

\* The apply loop and the detector of every replica keep running; no client has to
\* do anything.
LockFairness ==
  \A r \in Replica :
    /\ WF_vars(Apply(r))
    /\ WF_vars(Detect(r))
    /\ WF_vars(\E cycle \in SUBSET Client : Resolve(r, cycle))

-----------------------------------------------------------------------------
(* Properties *)

\* Every variable keeps the shape the code gives it.
TypeOK ==
  /\ log \in Seq(Command)
  /\ told \subseteq [lock : Lock, client : Client, mode : Mode]
  /\ applied \in [Replica -> SUBSET (Nat \ {0})]
  /\ locks \in [Replica -> [Lock -> LockState]]
  /\ created \in [Replica -> SUBSET Lock]
  /\ waitFor \in [Replica -> Graphs]
  /\ queuedAt \in [Replica -> [Client -> Nat]]
  /\ found \in [Replica -> SUBSET SUBSET Client]

\* On no replica does a lock have a writer and readers, whichever commands, grants
\* from the queue and aborts have passed (can_acquire_shared, is_free).
HoldersExclude ==
  \A r \in Replica : \A l \in Lock :
    locks[r][l].exclusive # Nil => locks[r][l].shared = {}

Waits(ls, c, mode) == \E w \in ls.queue : w.client = c /\ w.mode = mode
WaitsIn(ls, c) == \E w \in ls.queue : w.client = c

\* Readers only ever wait for a writer: no release, abort or gap in the log leaves
\* a reader queued at a lock that other readers may have (_apply_release).
ReadersWaitForWriters ==
  \A r \in Replica : \A l \in Lock :
    (\E c \in Client : Waits(locks[r][l], c, Shared)) => locks[r][l].exclusive # Nil

\* A replica's books are right: no lock is free with clients queued for it, and an
\* edge of the wait-for graph stands for a client that is queued for a lock the
\* other one holds.
Books(r) ==
  /\ \A l \in Lock : IsFree(locks[r][l]) => locks[r][l].queue = {}
  /\ \A c, h \in Client : h \in waitFor[r][c] =>
       \E l \in Lock : h \in Holders(locks[r][l]) /\ WaitsIn(locks[r][l], c)

\* Commands keep the books right: as long as nothing was aborted, no command leaves a
\* lock free with clients queued for it, and no innocent client is taken to be
\* deadlocked, although edges are added on queueing only and one release wipes all of a
\* client's (_apply_acquire, _apply_release).  This is not to say that every waiter has
\* its turn: see DropsAreBehindWriters.
CommandsKeepBooks ==
  [][\A r \in Replica : Books(r) /\ applied'[r] # applied[r] => Books(r)']_vars

Granted(ls, w) == w.client \in IF w.mode = Exclusive THEN {ls.exclusive} ELSE ls.shared

\* A request leaves a queue only in the step that grants it, or that grants a writer
\* before it: the break of the grant loop costs those behind a writer their place, but
\* no other command, grant, abort or gap in the log costs anyone his.  The one exception
\* is a victim that asked again for a lock it holds to itself: the request is granted
\* and discarded in the same step (_apply_release, _resolve_deadlock).
DropsAreBehindWriters ==
  [][\A r \in Replica : \A l \in Lock : \A w \in locks[r][l].queue \ locks'[r][l].queue :
       \/ Granted(locks'[r][l], w)
       \/ \E u \in Writers(locks[r][l].queue) : u.at < w.at /\ Granted(locks'[r][l], u)
       \/ w.client = locks[r][l].exclusive /\ UNCHANGED applied[r]]_vars

\* Who holds a lock in a mode has asked for that: a grant from the queue or after an
\* abort never reaches another client or another mode (_apply_release).
HoldersAsked ==
  \A r \in Replica : \A l \in Lock : \A c \in Holders(locks[r][l]) :
    \E i \in applied[r] :
      log[i] = [type |-> "acquire", lock |-> l, client |-> c,
                mode |-> IF c = locks[r][l].exclusive THEN Exclusive ELSE Shared]

(* What the code says of itself and does not do *)

\* Replicas that were handed the same commands and have no deadlock left to resolve
\* agree on the holders ("all lock operations replicated through Raft log for strong
\* consistency").
Settled(r) == found[r] = {} /\ Cycles(waitFor[r]) = {}
ReplicasAgree ==
  \A r, s \in Replica : applied[r] = applied[s] /\ Settled(r) /\ Settled(s) =>
    \A l \in Lock : Holders(locks[r][l]) = Holders(locks[s][l])
=============================================================================
