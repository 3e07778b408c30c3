---------------------------- MODULE MCLockManager ----------------------------
(* Model checking LockManager. *)
EXTENDS LockManager, TLC

Symmetry == Permutations(Client) \cup Permutations(Lock) \cup Permutations(Replica)

Prompt == \A r \in Replica : applied[r] = 1..Len(log)

\* The log is full and has been applied: only the bound stops the system.
Finished ==
  /\ Len(log) = MaxCommands
  /\ \A r \in Replica : Len(log) \in applied[r]
  /\ UNCHANGED vars

MCSpec == LockInit /\ [][LockNext \/ Finished]_vars
MCFairSpec == MCSpec /\ LockFairness

\* Clients that ask for a lock once and then release it, whether they have been
\* granted it or give up.
Asked(c, l) ==
  \E i \in 1..Len(log) :
    /\ log[i].type = "acquire" /\ log[i].client = c /\ log[i].lock = l
    /\ \A j \in i..Len(log) : log[j] # [type |-> "release", lock |-> l, client |-> c]
Polite ==
  LET cmd == log'[Len(log')] IN (cmd.type = "release") <=> Asked(cmd.client, cmd.lock)
MCPoliteSpec ==
  LockInit /\ [][(LockNext /\ (log' # log => Prompt /\ Polite)) \/ Finished]_vars

-----------------------------------------------------------------------------
(* What else the code or its documents say and the code does not do.  No run     *)
(* checks these; the README says with which constants TLC refutes each.          *)

\* Every request is granted or queued: a command leaves those who were waiting
\* in the queue, or makes them holders ("grant or queue").
GrantOrQueue ==
  [][\A r \in Replica : applied'[r] # applied[r] =>
       \A l \in Lock : \A c \in Client :
         WaitsIn(locks[r][l], c) =>
           WaitsIn(locks'[r][l], c) \/ c \in Holders(locks'[r][l])]_vars

\* Resolving a deadlock lets somebody go on: no lock is left free while clients
\* wait for it ("to break deadlock", _resolve_deadlock).
FreeLocksAreGranted ==
  \A r \in Replica : \A l \in Lock :
    IsFree(locks[r][l]) => locks[r][l].queue = {}

\* A circular wait, of clients that have not given up, shows in the wait-for graph
\* ("Deadlock Detection: Wait-For Graph with DFS cycle detection").
WaitGraph(r) ==
  [c \in Client |-> {h \in Client \ {c} : \E l \in Lock : \E mode \in Mode :
                       /\ h \in Holders(locks[r][l])
                       /\ Waits(locks[r][l], c, mode)
                       /\ [lock |-> l, client |-> c, mode |-> mode] \in told}]

DeadlocksAreSeen ==
  \A r \in Replica :
    applied[r] = 1..Len(log) /\ Cycles(WaitGraph(r)) # {} => Cycles(waitFor[r]) # {}

\* A client that released a lock, and has not asked for it again since, does not
\* hold it (release).
ReleasedStaysReleased ==
  \A r \in Replica : \A l \in Lock : \A c \in Holders(locks[r][l]) :
    \E i \in applied[r] :
      /\ log[i].type = "acquire" /\ log[i].lock = l /\ log[i].client = c
      /\ \A j \in applied[r] : j > i => log[j] # [type |-> "release", lock |-> l, client |-> c]

\* No two clients have been told that they have a lock which one of them has to
\* itself ("single holder, blocks all others").
LeasesExclude ==
  \A t, u \in told :
    t.lock = u.lock /\ t.mode = Exclusive => t.client = u.client

\* Whoever waits has it in the end, or is turned away, even if the holder has
\* crashed ("Lock timeout auto-release").
WaitsEnd ==
  \A r \in Replica : \A l \in Lock : \A c \in Client :
    WaitsIn(locks[r][l], c) ~> ~WaitsIn(locks[r][l], c)
=============================================================================
