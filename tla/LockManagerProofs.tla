------------------------- MODULE LockManagerProofs -------------------------
(***************************************************************************)
(* Proofs about LockManager, for any replicas, locks, clients and length of*)
(* the log.  The arguments are local to one lock: what a lock may look     *)
(* like (Sound), and whose requests it stands for (Claims), is followed    *)
(* through the things that happen to it: a grant, a queued request, a      *)
(* release and an abort.                                                   *)
(*                                                                         *)
(* Two things a step does to the tables follow: commands keep a replica's  *)
(* books right, and a place in a queue is lost only behind a writer.       *)
(*                                                                         *)
(* The last part is about FindCycles, the search of the deadlock detector: *)
(* what a detection tick takes for the cycles of the wait-for graph, a set *)
(* that Reports allows, is what the search reports.                        *)
(***************************************************************************)
EXTENDS LockManager, FindCycles, FiniteSetTheorems, FunctionTheorems, SequenceTheorems,
        WellFoundedInduction, TLAPS

\* What one lock may look like.
Sound(ls) ==
  /\ ls \in LockState
  /\ ls.exclusive # Nil => ls.shared = {}
  /\ (\E w \in ls.queue : w.mode = Shared) => ls.exclusive # Nil

\* A lock nobody holds or waits for is sound (LockState as it is created).
LEMMA FreeSound == Sound(Free)
BY DEF Sound, Free, LockState

\* A request that can be granted leaves no reader behind a reader.
LEMMA GrantSound ==
  ASSUME NEW ls, Sound(ls), NEW c \in Client, NEW mode \in Mode, CanAcquire(ls, mode)
  PROVE  Sound(Grant(ls, c, mode))
BY LockNilAssumption
   DEF Sound, Grant, CanAcquire, IsFree, LockState, LockRequest, Mode, Shared, Exclusive

\* A reader is queued only where it cannot be granted, that is behind a writer.
LEMMA EnqueueSound ==
  ASSUME NEW ls, Sound(ls), NEW c \in Client, NEW mode \in Mode, NEW i \in Nat,
         ~CanAcquire(ls, mode)
  PROVE  Sound(Enqueue(ls, c, mode, i))
BY DEF Sound, Enqueue, CanAcquire, IsFree, LockState, LockRequest, Mode, Shared, Exclusive

\* The loop over the queue mends a lock whose writer has gone.
LEMMA GrantWaitingSound ==
  ASSUME NEW ls \in LockState, ls.exclusive # Nil => Sound(ls)
  PROVE  Sound(GrantWaiting(ls))
<1>1. CASE ls.exclusive # Nil
  BY <1>1 DEF GrantWaiting
<1>2. CASE ls.exclusive = Nil /\ ls.shared = {} /\ WriterAtHead(ls.queue) # {}
  <2> DEFINE w == CHOOSE w \in WriterAtHead(ls.queue) : TRUE
  <2>1. w \in WriterAtHead(ls.queue)
    BY <1>2
  <2>2. w.client \in Client
    BY <2>1 DEF WriterAtHead, Writers, LockState, LockRequest
  <2>3. GrantWaiting(ls) = [ls EXCEPT !.exclusive = w.client, !.queue = {}]
    BY <1>2 DEF GrantWaiting
  <2> HIDE DEF w
  <2> QED
    BY <1>2, <2>2, <2>3 DEF Sound, LockState
<1>3. CASE ls.exclusive = Nil /\ ~(ls.shared = {} /\ WriterAtHead(ls.queue) # {})
  <2>1. GrantWaiting(ls) = [ls EXCEPT !.shared = @ \cup Readers(ls.queue), !.queue = Writers(@)]
    BY <1>3 DEF GrantWaiting
  <2>2. Readers(ls.queue) \subseteq Client
    BY DEF Readers, Writers, LockState, LockRequest
  <2>3. /\ Writers(ls.queue) \subseteq ls.queue
        /\ \A w \in Writers(ls.queue) : w.mode # Shared
    BY DEF Writers, Shared, Exclusive
  <2> QED
    BY <1>3, <2>1, <2>2, <2>3 DEF Sound, LockState
<1> QED
  BY <1>1, <1>2, <1>3

\* A release leaves a sound lock: the loop over the queue repairs what it frees.
LEMMA ReleasedSound ==
  ASSUME NEW ls, Sound(ls), NEW c \in Client
  PROVE  Sound(Released(ls, c))
<1> DEFINE un == [ls EXCEPT !.exclusive = IF @ = c THEN Nil ELSE @, !.shared = @ \ {c}]
<1>1. un \in LockState
  BY DEF Sound, LockState
<1>2. un.exclusive # Nil => Sound(un)
  BY <1>1 DEF Sound, LockState
<1> QED
  BY <1>1, <1>2, GrantWaitingSound DEF Released

\* So does an abort, which releases only what the client holds as the writer.
LEMMA AbortedSound ==
  ASSUME NEW ls, Sound(ls), NEW c \in Client
  PROVE  Sound(Aborted(ls, c))
<1> DEFINE rest == IF ls.exclusive = c THEN Released(ls, c) ELSE ls
<1>1. Sound(rest)
  BY ReleasedSound
<1>2. Aborted(ls, c) = [rest EXCEPT !.shared = @ \ {c}]
  BY DEF Aborted
<1> HIDE DEF rest
<1> QED
  BY <1>1, <1>2 DEF Sound, LockState

-----------------------------------------------------------------------------
LocksSound == \A r \in Replica : \A l \in Lock : Sound(locks[r][l])
LockInv == TypeOK /\ LocksSound

\* The empty lock tables are sound.
LEMMA LockInvInit == LockInit => LockInv
BY FreeSound DEF LockInit, Feed!FeedInit, LockInv, LocksSound, TypeOK, Sound, Command, Graphs

\* What the type invariant says of a command in the log
LEMMA CommandParts ==
  ASSUME TypeOK, NEW i \in 1..Len(log)
  PROVE  /\ log[i] \in Command
         /\ log[i].lock \in Lock
         /\ log[i].client \in Client
         /\ log[i].type = "acquire" => log[i].mode \in Mode
         /\ i \in Nat \ {0}
BY DEF TypeOK, Command, Acquire, Release

\* What consensus does when a command is committed.
LEMMA SubmitStep ==
  ASSUME TypeOK, NEW cmd \in Command, Submit(cmd)
  PROVE  /\ log' = Append(log, cmd)
         /\ Answer(cmd)
         /\ UNCHANGED <<applied, locks, created, waitFor, queuedAt, found>>
<1>1. Append(log, cmd) = log \o <<cmd>>
  BY AppendIsConcat DEF TypeOK
<1> QED
  BY <1>1 DEF Submit, Feed!Extend, tableVars

\* What consensus does when a replica is handed a command.
LEMMA ApplyStep ==
  ASSUME NEW r \in Replica, Apply(r)
  PROVE  /\ UNCHANGED <<log, told, found>>
         /\ \E i \in 1..Len(log) :
              /\ applied' = [applied EXCEPT ![r] = @ \cup {i}]
              /\ ApplyAcquire(r, i) \/ ApplyRelease(r, i)
BY DEF Apply, Feed!Hand

\* Appending a command to the log leaves the lock tables alone.
LEMMA SubmitInv ==
  ASSUME LockInv, NEW cmd \in Command, Submit(cmd)
  PROVE  LockInv'
<1>1. cmd.lock \in Lock /\ cmd.client \in Client /\ (cmd.type = "acquire" => cmd.mode \in Mode)
  BY DEF Command, Acquire, Release
<1>2. told' \subseteq [lock : Lock, client : Client, mode : Mode]
  BY <1>1, SubmitStep DEF LockInv, TypeOK, Answer
<1>3. log' = Append(log, cmd) /\ log \in Seq(Command)
  BY SubmitStep DEF LockInv, TypeOK
<1>4. log' \in Seq(Command)
  BY <1>3, AppendProperties
<1> QED
  BY <1>2, <1>4, SubmitStep DEF LockInv, TypeOK, LocksSound

\* Applying a command, in whatever order, keeps every lock of the replica sound.
LEMMA ApplyInv ==
  ASSUME LockInv, NEW r \in Replica, Apply(r)
  PROVE  LockInv'
<1>1. PICK i \in 1..Len(log) :
        /\ applied' = [applied EXCEPT ![r] = @ \cup {i}]
        /\ ApplyAcquire(r, i) \/ ApplyRelease(r, i)
  BY ApplyStep
<1> DEFINE cmd == log[i]
           ls == locks[r][cmd.lock]
<1>2. /\ cmd.lock \in Lock /\ cmd.client \in Client
      /\ cmd.type = "acquire" => cmd.mode \in Mode
      /\ i \in Nat \ {0}
  BY CommandParts DEF LockInv
<1>3. Sound(ls) /\ ls \in LockState
  BY <1>2 DEF LockInv, LocksSound, Sound
<1>4. applied' \in [Replica -> SUBSET (Nat \ {0})]
  BY <1>1, <1>2 DEF LockInv, TypeOK
<1>5. UNCHANGED <<log, told, found>>
  BY ApplyStep
<1>6. CASE ApplyAcquire(r, i) /\ CanAcquire(ls, cmd.mode)
  <2>1. Sound(Grant(ls, cmd.client, cmd.mode))
    BY <1>2, <1>3, <1>6, GrantSound DEF ApplyAcquire
  <2>2. /\ locks' = [locks EXCEPT ![r][cmd.lock] = Grant(ls, cmd.client, cmd.mode)]
        /\ created' = [created EXCEPT ![r] = @ \cup {cmd.lock}]
        /\ UNCHANGED <<waitFor, queuedAt>>
    BY <1>6 DEF ApplyAcquire
  <2> QED
    BY <1>2, <1>4, <1>5, <2>1, <2>2 DEF LockInv, TypeOK, LocksSound, Sound
<1>7. CASE ApplyAcquire(r, i) /\ ~CanAcquire(ls, cmd.mode)
  <2>1. Sound(Enqueue(ls, cmd.client, cmd.mode, i))
    BY <1>2, <1>3, <1>7, EnqueueSound DEF ApplyAcquire
  <2>2. /\ locks' = [locks EXCEPT ![r][cmd.lock] = Enqueue(ls, cmd.client, cmd.mode, i)]
        /\ created' = [created EXCEPT ![r] = @ \cup {cmd.lock}]
        /\ waitFor' = [waitFor EXCEPT ![r][cmd.client] = @ \cup Holders(ls)]
        /\ queuedAt' = [queuedAt EXCEPT ![r][cmd.client] = i]
    BY <1>7 DEF ApplyAcquire
  <2>3. Holders(ls) \subseteq Client
    BY <1>3 DEF Holders, LockState
  <2>4. waitFor' \in [Replica -> Graphs]
    BY <1>2, <2>2, <2>3 DEF LockInv, TypeOK, Graphs
  <2>5. queuedAt' \in [Replica -> [Client -> Nat]]
    BY <1>2, <2>2 DEF LockInv, TypeOK
  <2>6. locks' \in [Replica -> [Lock -> LockState]] /\ LocksSound'
    BY <1>2, <2>1, <2>2 DEF LockInv, TypeOK, LocksSound, Sound
  <2>7. created' \in [Replica -> SUBSET Lock]
    BY <1>2, <2>2 DEF LockInv, TypeOK
  <2> HIDE DEF cmd, ls
  <2> QED
    BY <1>4, <1>5, <2>4, <2>5, <2>6, <2>7 DEF LockInv, TypeOK
<1>8. CASE ApplyRelease(r, i) /\ cmd.lock \notin created[r]
  <2>1. UNCHANGED tableVars
    BY <1>8 DEF ApplyRelease, tableVars
  <2> QED
    BY <1>4, <1>5, <2>1 DEF LockInv, TypeOK, LocksSound, tableVars
<1>9. CASE ApplyRelease(r, i) /\ cmd.lock \in created[r]
  <2>1. Sound(Released(ls, cmd.client))
    BY <1>2, <1>3, ReleasedSound
  <2>2. /\ locks' = [locks EXCEPT ![r][cmd.lock] = Released(ls, cmd.client)]
        /\ waitFor' = [waitFor EXCEPT ![r] = WithoutClient(@, cmd.client)]
        /\ UNCHANGED <<created, queuedAt>>
    BY <1>9 DEF ApplyRelease
  <2>3. waitFor' \in [Replica -> Graphs]
    BY <2>2 DEF LockInv, TypeOK, Graphs, WithoutClient
  <2> QED
    BY <1>2, <1>4, <1>5, <2>1, <2>2, <2>3 DEF LockInv, TypeOK, LocksSound, Sound
<1> QED
  BY <1>1, <1>6, <1>7, <1>8, <1>9

\* A search for cycles leaves the lock tables alone.
LEMMA DetectInv ==
  ASSUME LockInv, NEW r \in Replica, Detect(r)
  PROVE  LockInv'
<1>1. PICK ps \in SUBSET Cycles(waitFor[r]) :
        found' = [found EXCEPT ![r] = {Members(p) : p \in ps}]
  BY DEF Detect
<1>2. \A p \in Paths : Members(p) \subseteq Client
  BY DEF Paths, Members
<1>3. \A p \in ps : Members(p) \in SUBSET Client
  BY <1>2 DEF Cycles
<1>4. found' \in [Replica -> SUBSET SUBSET Client]
  BY <1>1, <1>3 DEF LockInv, TypeOK
<1> QED
  BY <1>4 DEF LockInv, TypeOK, LocksSound, Detect, tableVars

\* Aborting a victim keeps every lock of the replica sound.
LEMMA ResolveInv ==
  ASSUME LockInv, NEW r \in Replica, NEW cycle \in SUBSET Client, Resolve(r, cycle)
  PROVE  LockInv'
<1>1. found' \in [Replica -> SUBSET SUBSET Client]
  BY DEF LockInv, TypeOK, Resolve
<1>2. UNCHANGED <<log, told, applied, created, queuedAt>>
  BY DEF Resolve
<1>3. CASE UNCHANGED <<locks, waitFor>>
  BY <1>1, <1>2, <1>3 DEF LockInv, TypeOK, LocksSound
<1>4. ASSUME NEW v \in Victims(r, cycle),
             locks' = [locks EXCEPT ![r] = [l \in Lock |-> Aborted(@[l], v)]],
             waitFor' = [waitFor EXCEPT ![r] =
               IF \E l \in Lock : locks[r][l].exclusive = v THEN WithoutClient(@, v) ELSE @]
      PROVE  LockInv'
  <2>1. v \in Client
    BY DEF Victims
  <2>2. \A l \in Lock : Sound(Aborted(locks[r][l], v))
    BY <2>1, AbortedSound DEF LockInv, LocksSound
  <2>3. waitFor' \in [Replica -> Graphs]
    BY <1>4 DEF LockInv, TypeOK, Graphs, WithoutClient
  <2>4. locks' \in [Replica -> [Lock -> LockState]] /\ LocksSound'
    BY <1>4, <2>2 DEF LockInv, TypeOK, LocksSound, Sound
  <2> QED
    BY <1>1, <1>2, <2>3, <2>4 DEF LockInv, TypeOK
<1> QED
  BY <1>3, <1>4 DEF Resolve

\* The lock invariant is inductive.
LEMMA LockInvNext == LockInv /\ [LockNext]_vars => LockInv'
<1> SUFFICES ASSUME LockInv, [LockNext]_vars PROVE LockInv'
  OBVIOUS
<1>1. CASE UNCHANGED vars
  BY <1>1 DEF LockInv, TypeOK, LocksSound, vars, tableVars
<1>2. CASE LockNext
  BY <1>2, SubmitInv, ApplyInv, DetectInv, ResolveInv DEF LockNext
<1> QED
  BY <1>1, <1>2

\* Every lock of every replica is well-typed and sound, always: a writer shares
\* with nobody, and a reader is queued only where a writer holds the lock.
THEOREM LockInvariant == LockSpec => []LockInv
BY LockInvInit, LockInvNext, PTL DEF LockSpec

\* Every variable keeps its type, on every replica.
THEOREM LockTypes == LockSpec => []TypeOK
BY LockInvariant, PTL DEF LockInv

\* No replica ever has a writer and readers on one lock, whichever commands it is
\* handed, or not, and whatever it aborts (_apply_acquire, _apply_release,
\* _resolve_deadlock).
THEOREM MutualExclusion == LockSpec => []HoldersExclude
<1>1. LockInv => HoldersExclude
  BY DEF LockInv, LocksSound, Sound, HoldersExclude
<1> QED
  BY <1>1, LockInvariant, PTL

\* A reader is only queued where a writer holds the lock.
THEOREM NoReaderIsForgotten == LockSpec => []ReadersWaitForWriters
<1>1. LockInv => ReadersWaitForWriters
  BY DEF LockInv, LocksSound, Sound, ReadersWaitForWriters, Waits
<1> QED
  BY <1>1, LockInvariant, PTL

-----------------------------------------------------------------------------
(* Grants only go to those who asked *)

\* The requests a lock stands for: granted ones, and those in its queue
Claims(ls) ==
  {<<c, Shared>> : c \in ls.shared}
    \cup {<<c, Exclusive>> : c \in {ls.exclusive} \ {Nil}}
    \cup {<<w.client, w.mode>> : w \in ls.queue}

\* A grant adds the claim it grants and no other.
LEMMA GrantClaims ==
  ASSUME NEW ls \in LockState, NEW c \in Client, NEW mode \in Mode
  PROVE  Claims(Grant(ls, c, mode)) \subseteq Claims(ls) \cup {<<c, mode>>}
<1>1. CASE mode = Shared
  BY <1>1 DEF Claims, Grant, LockState
<1>2. CASE mode = Exclusive
  BY <1>2 DEF Claims, Grant, LockState, Shared, Exclusive
<1> QED
  BY <1>1, <1>2 DEF Mode

\* A queued request adds the claim it asks for and no other.
LEMMA EnqueueClaims ==
  ASSUME NEW ls \in LockState, NEW c \in Client, NEW mode \in Mode, NEW i \in Nat
  PROVE  Claims(Enqueue(ls, c, mode, i)) \subseteq Claims(ls) \cup {<<c, mode>>}
BY DEF Claims, Enqueue, LockState

\* The loop over the queue makes holders only of those who waited.
LEMMA GrantWaitingClaims ==
  ASSUME NEW ls \in LockState
  PROVE  Claims(GrantWaiting(ls)) \subseteq Claims(ls)
<1>1. CASE ls.exclusive # Nil
  BY <1>1 DEF GrantWaiting
<1>2. CASE ls.exclusive = Nil /\ ls.shared = {} /\ WriterAtHead(ls.queue) # {}
  <2> DEFINE w == CHOOSE w \in WriterAtHead(ls.queue) : TRUE
  <2>1. w \in WriterAtHead(ls.queue)
    BY <1>2
  <2>2. w \in ls.queue /\ w.mode = Exclusive
    BY <2>1 DEF WriterAtHead, Writers
  <2>3. GrantWaiting(ls) = [ls EXCEPT !.exclusive = w.client, !.queue = {}]
    BY <1>2 DEF GrantWaiting
  <2> HIDE DEF w
  <2> QED
    BY <1>2, <2>2, <2>3 DEF Claims, LockState
<1>3. CASE ls.exclusive = Nil /\ ~(ls.shared = {} /\ WriterAtHead(ls.queue) # {})
  <2>1. GrantWaiting(ls) = [ls EXCEPT !.shared = @ \cup Readers(ls.queue), !.queue = Writers(@)]
    BY <1>3 DEF GrantWaiting
  <2>2. \A c \in Readers(ls.queue) : \E w \in ls.queue : w.client = c /\ w.mode = Shared
    BY DEF Readers, Writers, LockState, LockRequest, Mode
  <2>3. Writers(ls.queue) \subseteq ls.queue
    BY DEF Writers
  <2> QED
    BY <2>1, <2>2, <2>3 DEF Claims, LockState
<1> QED
  BY <1>1, <1>2, <1>3

\* A release adds no claim.
LEMMA ReleasedClaims ==
  ASSUME NEW ls \in LockState, NEW c \in Client
  PROVE  Claims(Released(ls, c)) \subseteq Claims(ls)
<1> DEFINE un == [ls EXCEPT !.exclusive = IF @ = c THEN Nil ELSE @, !.shared = @ \ {c}]
<1>1. un \in LockState
  BY DEF LockState
<1>2. Claims(un) \subseteq Claims(ls)
  BY DEF Claims, LockState
<1> QED
  BY <1>1, <1>2, GrantWaitingClaims DEF Released

\* An abort adds no claim.
LEMMA AbortedClaims ==
  ASSUME NEW ls, Sound(ls), NEW c \in Client
  PROVE  Claims(Aborted(ls, c)) \subseteq Claims(ls)
<1> DEFINE rest == IF ls.exclusive = c THEN Released(ls, c) ELSE ls
<1>1. rest \in LockState /\ Claims(rest) \subseteq Claims(ls)
  BY ReleasedSound, ReleasedClaims DEF Sound
<1>2. Aborted(ls, c) = [rest EXCEPT !.shared = @ \ {c}]
  BY DEF Aborted
<1> HIDE DEF rest
<1>3. Claims(Aborted(ls, c)) \subseteq Claims(rest)
  BY <1>1, <1>2 DEF Claims, LockState
<1> QED
  BY <1>1, <1>3

\* A replica was handed the acquire command of a claim.
Backed(r, l, claim) ==
  \E i \in applied[r] :
    /\ i \in 1..Len(log)
    /\ log[i] = [type |-> "acquire", lock |-> l, client |-> claim[1], mode |-> claim[2]]

ClaimsBacked ==
  \A r \in Replica : \A l \in Lock : \A claim \in Claims(locks[r][l]) : Backed(r, l, claim)

\* No claims to begin with.
LEMMA ClaimsInit == LockInit => ClaimsBacked
BY DEF LockInit, ClaimsBacked, Claims, Free

\* Whatever happens, what a replica was handed stays in the log.
LEMMA BackedStays ==
  ASSUME LockInv, [LockNext]_vars, NEW r \in Replica, NEW l, NEW claim, Backed(r, l, claim)
  PROVE  Backed(r, l, claim)'
<1>1. PICK i \in applied[r] :
        /\ i \in 1..Len(log)
        /\ log[i] = [type |-> "acquire", lock |-> l, client |-> claim[1], mode |-> claim[2]]
  BY DEF Backed
<1>2. i \in applied'[r]
  <2>1. CASE UNCHANGED applied
    BY <1>1, <2>1
  <2>2. ASSUME NEW s \in Replica, Apply(s) PROVE i \in applied'[r]
    <3>1. PICK j \in 1..Len(log) : applied' = [applied EXCEPT ![s] = @ \cup {j}]
      BY <2>2, ApplyStep
    <3>2. applied \in [Replica -> SUBSET (Nat \ {0})]
      BY DEF LockInv, TypeOK
    <3> QED
      BY <1>1, <3>1, <3>2
  <2>3. ASSUME NEW cmd \in Command, Submit(cmd) PROVE i \in applied'[r]
    BY <1>1, <2>3, SubmitStep DEF LockInv
  <2> QED
    BY <2>1, <2>2, <2>3 DEF LockNext, vars, Detect, Resolve
<1>3. i \in 1..Len(log') /\ log'[i] = log[i]
  <2>1. CASE log' = log
    BY <1>1, <2>1
  <2>2. ASSUME NEW cmd \in Command, Submit(cmd)
        PROVE  i \in 1..Len(log') /\ log'[i] = log[i]
    <3>1. log \in Seq(Command) /\ log' = Append(log, cmd)
      BY <2>2, SubmitStep DEF LockInv, TypeOK
    <3>2. Len(log') = Len(log) + 1 /\ \A k \in 1..Len(log) : log'[k] = log[k]
      BY <3>1, AppendProperties
    <3>3. Len(log) \in Nat
      BY <3>1, LenProperties
    <3> QED
      BY <1>1, <3>2, <3>3
  <2>3. (\E cmd \in Command : Submit(cmd)) \/ log' = log
    <3>1. \A q \in Replica : Apply(q) => log' = log
      BY ApplyStep
    <3> QED
      BY <3>1 DEF LockNext, vars, Detect, Resolve
  <2> QED
    BY <2>1, <2>2, <2>3
<1> QED
  BY <1>1, <1>2, <1>3 DEF Backed

\* A command adds no claim but the one it asks for.
LEMMA ApplyClaims ==
  ASSUME LockInv, ClaimsBacked, NEW s \in Replica, Apply(s)
  PROVE  ClaimsBacked'
<1>1. PICK i \in 1..Len(log) :
        /\ applied' = [applied EXCEPT ![s] = @ \cup {i}]
        /\ ApplyAcquire(s, i) \/ ApplyRelease(s, i)
  BY ApplyStep
<1> DEFINE cmd == log[i]
           ls == locks[s][cmd.lock]
<1>2. /\ cmd \in Command
      /\ cmd.lock \in Lock /\ cmd.client \in Client
      /\ cmd.type = "acquire" => cmd.mode \in Mode
      /\ i \in Nat
  BY CommandParts DEF LockInv
<1>3. ls \in LockState /\ Sound(ls)
  BY <1>2 DEF LockInv, LocksSound, Sound
<1>4. UNCHANGED log /\ [LockNext]_vars
  BY ApplyStep DEF LockNext
<1>5. SUFFICES ASSUME NEW r \in Replica, NEW l \in Lock, NEW claim \in Claims(locks'[r][l])
               PROVE  Backed(r, l, claim)'
  BY DEF ClaimsBacked
<1>6. CASE claim \in Claims(locks[r][l])
  BY <1>4, <1>6, BackedStays DEF ClaimsBacked
<1>7. CASE claim \notin Claims(locks[r][l])
  <2>1. r = s /\ l = cmd.lock
    BY <1>1, <1>2, <1>7 DEF ApplyAcquire, ApplyRelease, LockInv, TypeOK
  <2>2. ~ApplyRelease(s, i)
    <3>1. CASE UNCHANGED locks
      BY <1>7, <3>1
    <3>2. CASE locks' = [locks EXCEPT ![s][cmd.lock] = Released(@, cmd.client)]
      BY <1>2, <1>3, <1>7, <2>1, <3>2, ReleasedClaims DEF LockInv, TypeOK
    <3> QED
      BY <1>7, <3>1, <3>2 DEF ApplyRelease
  <2>3. ApplyAcquire(s, i) /\ cmd.type = "acquire" /\ cmd.mode \in Mode
    BY <1>1, <1>2, <2>2 DEF ApplyAcquire
  <2>4. \/ locks'[r][l] = Grant(ls, cmd.client, cmd.mode)
        \/ locks'[r][l] = Enqueue(ls, cmd.client, cmd.mode, i)
    BY <1>2, <2>1, <2>3 DEF ApplyAcquire, LockInv, TypeOK
  <2>5. claim = <<cmd.client, cmd.mode>>
    BY <1>2, <1>3, <1>5, <1>7, <2>1, <2>3, <2>4, GrantClaims, EnqueueClaims
  <2>6. cmd = [type |-> "acquire", lock |-> l, client |-> claim[1], mode |-> claim[2]]
    BY <1>2, <2>1, <2>3, <2>5 DEF Command, Acquire, Release
  <2>7. i \in applied'[r]
    BY <1>1, <2>1 DEF LockInv, TypeOK
  <2> QED
    BY <1>4, <2>6, <2>7 DEF Backed
<1> QED
  BY <1>6, <1>7

\* Claims stay backed by applied commands at every step.
LEMMA ClaimsNext == LockInv /\ ClaimsBacked /\ [LockNext]_vars => ClaimsBacked'
<1> SUFFICES ASSUME LockInv, ClaimsBacked, [LockNext]_vars PROVE ClaimsBacked'
  OBVIOUS
<1>1. CASE UNCHANGED locks
  BY <1>1, BackedStays DEF ClaimsBacked
<1>2. ASSUME NEW s \in Replica, Apply(s) PROVE ClaimsBacked'
  BY <1>2, ApplyClaims
<1>3. ASSUME NEW s \in Replica, NEW v \in Client,
             locks' = [locks EXCEPT ![s] = [l \in Lock |-> Aborted(@[l], v)]]
      PROVE  ClaimsBacked'
  <2>1. \A r \in Replica : \A l \in Lock : Claims(locks'[r][l]) \subseteq Claims(locks[r][l])
    BY <1>3, AbortedClaims DEF LockInv, TypeOK, LocksSound
  <2> QED
    BY <2>1, BackedStays DEF ClaimsBacked
<1>4. ASSUME NEW s \in Replica, NEW cycle \in SUBSET Client, Resolve(s, cycle)
      PROVE  ClaimsBacked'
  BY <1>1, <1>3, <1>4 DEF Resolve, Victims
<1> QED
  BY <1>1, <1>2, <1>4 DEF LockNext, vars, tableVars, Submit, Detect

\* Who holds a lock has asked for it, in the mode it holds it: no grant from the
\* queue, at a release or an abort, goes astray (_apply_release).
THEOREM GrantsAreAskedFor == LockSpec => []HoldersAsked
<1>1. LockInv /\ ClaimsBacked => HoldersAsked
  <2> SUFFICES ASSUME LockInv, ClaimsBacked,
                      NEW r \in Replica, NEW l \in Lock, NEW c \in Holders(locks[r][l])
               PROVE  \E i \in applied[r] :
                        log[i] = [type |-> "acquire", lock |-> l, client |-> c,
                                  mode |-> IF c = locks[r][l].exclusive THEN Exclusive ELSE Shared]
    BY DEF HoldersAsked
  <2> DEFINE mode == IF c = locks[r][l].exclusive THEN Exclusive ELSE Shared
  <2>1. <<c, mode>> \in Claims(locks[r][l])
    <3>1. c # Nil
      BY LockNilAssumption DEF Holders, LockInv, LocksSound, Sound, LockState
    <3> QED
      BY <3>1 DEF Claims, Holders
  <2>2. Backed(r, l, <<c, mode>>)
    BY <2>1 DEF ClaimsBacked
  <2> QED
    BY <2>2 DEF Backed
<1> QED
  BY <1>1, LockInvariant, ClaimsInit, ClaimsNext, PTL DEF LockSpec

-----------------------------------------------------------------------------
(* Commands keep the books *)

\* A non-empty set of numbers has a least one: the head of a queue.
LEMMA LeastExists ==
  ASSUME NEW S \in SUBSET Nat, S # {}
  PROVE  \E least \in S : \A k \in S : least <= k
<1>1. PICK least \in S : \A k \in S : <<k, least>> \notin OpToRel(<, Nat)
  BY WFMin, NatLessThanWellFounded
<1>2. \A k \in S : ~(k < least)
  BY <1>1 DEF OpToRel
<1> QED
  BY <1>2

\* A release never leaves a lock free with clients queued for it.
LEMMA ReleasedServes ==
  ASSUME NEW ls, Sound(ls), NEW c \in Client, IsFree(Released(ls, c))
  PROVE  Released(ls, c).queue = {}
<1> DEFINE un == [ls EXCEPT !.exclusive = IF @ = c THEN Nil ELSE @, !.shared = @ \ {c}]
<1>1. un \in LockState /\ Released(ls, c) = GrantWaiting(un)
  BY DEF Sound, LockState, Released
<1> HIDE DEF un
<1>2. CASE un.exclusive # Nil
  BY <1>1, <1>2 DEF GrantWaiting, IsFree
<1>3. CASE un.exclusive = Nil /\ un.shared = {} /\ WriterAtHead(un.queue) # {}
  BY <1>1, <1>3 DEF GrantWaiting, LockState
<1>4. CASE un.exclusive = Nil /\ ~(un.shared = {} /\ WriterAtHead(un.queue) # {})
  <2>1. GrantWaiting(un) = [un EXCEPT !.shared = @ \cup Readers(un.queue), !.queue = Writers(@)]
    BY <1>4 DEF GrantWaiting
  <2>2. un.shared = {} /\ Readers(un.queue) = {}
    BY <1>1, <2>1 DEF IsFree, LockState
  <2>3. Writers(un.queue) = un.queue
    BY <2>2 DEF Readers, Writers
  <2>4. ASSUME NEW w \in un.queue PROVE FALSE
    <3> DEFINE ats == {o.at : o \in un.queue}
    <3>1. ats \in SUBSET Nat /\ w.at \in ats
      BY <1>1 DEF LockState, LockRequest
    <3>2. PICK least \in ats : \A k \in ats : least <= k
      BY <3>1, LeastExists
    <3>3. PICK o \in un.queue : o.at = least
      OBVIOUS
    <3>4. o \in WriterAtHead(un.queue)
      BY <2>3, <3>2, <3>3 DEF WriterAtHead
    <3> QED
      BY <1>4, <2>2, <3>4
  <2> QED
    BY <1>1, <2>1, <2>3, <2>4 DEF LockState
<1> QED
  BY <1>2, <1>3, <1>4

\* A release by c leaves every other holder in place, and in the queue whoever waits
\* for it.
LEMMA ReleasedKeepsWaits ==
  ASSUME NEW ls, Sound(ls), NEW c \in Client,
         NEW h \in Holders(ls), h # c, NEW d, WaitsIn(ls, d)
  PROVE  h \in Holders(Released(ls, c)) /\ WaitsIn(Released(ls, c), d)
<1> DEFINE un == [ls EXCEPT !.exclusive = IF @ = c THEN Nil ELSE @, !.shared = @ \ {c}]
<1>1. /\ Released(ls, c) = GrantWaiting(un)
      /\ un.queue = ls.queue
      /\ un.shared = ls.shared \ {c}
      /\ un.exclusive = IF ls.exclusive = c THEN Nil ELSE ls.exclusive
      /\ un \in LockState
  BY DEF Released, Sound, LockState
<1> HIDE DEF un
<1>2. h \in Holders(un)
  BY <1>1 DEF Holders
<1>3. CASE un.exclusive # Nil
  BY <1>1, <1>2, <1>3 DEF GrantWaiting, WaitsIn
<1>4. CASE un.exclusive = Nil
  <2>1. h \in un.shared
    BY <1>2, <1>4 DEF Holders
  <2>2. GrantWaiting(un) = [un EXCEPT !.shared = @ \cup Readers(un.queue), !.queue = Writers(@)]
    BY <1>4, <2>1 DEF GrantWaiting
  <2>3. \A w \in ls.queue : w.mode = Exclusive
    BY <1>1, <2>1 DEF Sound, LockState, LockRequest, Mode
  <2>4. Writers(un.queue) = ls.queue
    BY <1>1, <2>3 DEF Writers
  <2>5. /\ un.shared \subseteq Released(ls, c).shared
        /\ Released(ls, c).queue = ls.queue
    BY <1>1, <2>2, <2>4 DEF LockState
  <2> QED
    BY <2>1, <2>5 DEF Holders, WaitsIn
<1> QED
  BY <1>3, <1>4

\* Applying a command to a replica whose books are right leaves them right.
LEMMA ApplyKeepsBooks ==
  ASSUME LockInv, NEW r \in Replica, Apply(r), Books(r)
  PROVE  Books(r)'
<1>1. PICK i \in 1..Len(log) : ApplyAcquire(r, i) \/ ApplyRelease(r, i)
  BY DEF Apply
<1> DEFINE cmd == log[i]
           ls == locks[r][cmd.lock]
<1>2. /\ cmd.lock \in Lock /\ cmd.client \in Client
      /\ cmd.type = "acquire" => cmd.mode \in Mode
  BY CommandParts DEF LockInv
<1>3. ls \in LockState /\ Sound(ls)
  BY <1>2 DEF LockInv, LocksSound, Sound
<1>4. CASE ApplyAcquire(r, i) /\ CanAcquire(ls, cmd.mode)
  <2> DEFINE ns == Grant(ls, cmd.client, cmd.mode)
  <2>1. /\ locks' = [locks EXCEPT ![r][cmd.lock] = ns]
        /\ UNCHANGED waitFor
        /\ cmd.mode \in Mode
    BY <1>2, <1>4 DEF ApplyAcquire
  <2>2. /\ ~IsFree(ns)
        /\ Holders(ls) \subseteq Holders(ns)
        /\ ns.queue = ls.queue
    BY <1>2, <1>3, <1>4, <2>1, LockNilAssumption
       DEF Grant, IsFree, Holders, CanAcquire, Mode, LockState, Shared, Exclusive
  <2> HIDE DEF ns
  <2>3. \A l \in Lock : locks'[r][l] = IF l = cmd.lock THEN ns ELSE locks[r][l]
    BY <1>2, <2>1 DEF LockInv, TypeOK
  <2> QED
    BY <2>1, <2>2, <2>3 DEF Books, WaitsIn
<1>5. CASE ApplyAcquire(r, i) /\ ~CanAcquire(ls, cmd.mode)
  <2> DEFINE ns == Enqueue(ls, cmd.client, cmd.mode, i)
  <2>1. /\ locks' = [locks EXCEPT ![r][cmd.lock] = ns]
        /\ waitFor' = [waitFor EXCEPT ![r][cmd.client] = @ \cup Holders(ls)]
        /\ cmd.mode \in Mode
    BY <1>2, <1>5 DEF ApplyAcquire
  <2> DEFINE w == [client |-> cmd.client, mode |-> cmd.mode, at |-> i]
  <2>2. /\ ns.exclusive = ls.exclusive /\ ns.shared = ls.shared
        /\ ns.queue = ls.queue \cup {w}
    BY <1>3 DEF Enqueue, LockState
  <2> HIDE DEF ns
  <2>3. ~IsFree(ls)
    BY <1>5, <2>1 DEF CanAcquire, IsFree, Mode
  <2>4. /\ ~IsFree(ns)
        /\ Holders(ns) = Holders(ls)
        /\ ls.queue \subseteq ns.queue
        /\ WaitsIn(ns, cmd.client)
    <3>1. w \in ns.queue /\ w.client = cmd.client
      BY <2>2
    <3> HIDE DEF w, ls, cmd
    <3>2. WaitsIn(ns, cmd.client)
      BY <3>1 DEF WaitsIn
    <3>3. ~IsFree(ns)
      BY <2>2, <2>3 DEF IsFree
    <3>4. Holders(ns) = Holders(ls)
      BY <2>2 DEF Holders
    <3> QED
      BY <2>2, <3>2, <3>3, <3>4
  <2>5. \A l \in Lock : locks'[r][l] = IF l = cmd.lock THEN ns ELSE locks[r][l]
    BY <1>2, <2>1 DEF LockInv, TypeOK
  <2>6. \A c \in Client :
          waitFor'[r][c] = IF c = cmd.client THEN waitFor[r][c] \cup Holders(ls) ELSE waitFor[r][c]
    BY <1>2, <2>1 DEF LockInv, TypeOK, Graphs
  <2>7. ASSUME NEW c \in Client, NEW h \in Client, h \in waitFor'[r][c]
        PROVE  \E l \in Lock : h \in Holders(locks'[r][l]) /\ WaitsIn(locks'[r][l], c)
    <3>1. CASE h \in waitFor[r][c]
      BY <2>4, <2>5, <3>1 DEF Books, WaitsIn
    <3>2. CASE c = cmd.client /\ h \in Holders(ls)
      BY <1>2, <2>4, <2>5, <3>2
    <3> QED
      BY <2>6, <2>7, <3>1, <3>2
  <2> QED
    BY <2>4, <2>5, <2>7 DEF Books
<1>6. CASE ApplyRelease(r, i) /\ cmd.lock \notin created[r]
  BY <1>6 DEF ApplyRelease, Books
<1>7. CASE ApplyRelease(r, i) /\ cmd.lock \in created[r]
  <2> DEFINE ns == Released(ls, cmd.client)
  <2>1. /\ locks' = [locks EXCEPT ![r][cmd.lock] = ns]
        /\ waitFor' = [waitFor EXCEPT ![r] = WithoutClient(@, cmd.client)]
    BY <1>7 DEF ApplyRelease
  <2>2. IsFree(ns) => ns.queue = {}
    BY <1>2, <1>3, ReleasedServes
  <2>3. \A h \in Holders(ls), d \in Client :
          h # cmd.client /\ WaitsIn(ls, d) => h \in Holders(ns) /\ WaitsIn(ns, d)
    BY <1>2, <1>3, ReleasedKeepsWaits
  <2> HIDE DEF ns
  <2>4. \A l \in Lock : locks'[r][l] = IF l = cmd.lock THEN ns ELSE locks[r][l]
    BY <1>2, <2>1 DEF LockInv, TypeOK
  <2>5. \A c \in Client :
          waitFor'[r][c] = IF c = cmd.client THEN {} ELSE waitFor[r][c] \ {cmd.client}
    BY <2>1 DEF LockInv, TypeOK, WithoutClient
  <2>6. ASSUME NEW c \in Client, NEW h \in Client, h \in waitFor'[r][c]
        PROVE  \E l \in Lock : h \in Holders(locks'[r][l]) /\ WaitsIn(locks'[r][l], c)
    <3>1. c # cmd.client /\ h # cmd.client /\ h \in waitFor[r][c]
      BY <2>5, <2>6
    <3>2. PICK l \in Lock : h \in Holders(locks[r][l]) /\ WaitsIn(locks[r][l], c)
      BY <3>1 DEF Books
    <3> QED
      BY <2>3, <2>4, <3>1, <3>2
  <2> QED
    BY <2>2, <2>4, <2>6 DEF Books
<1> QED
  BY <1>1, <1>4, <1>5, <1>6, <1>7

\* Commands alone never leave a lock free with clients queued for it nor make up a
\* deadlock: a replica whose books are right has them right after any command
\* (_apply_acquire, _apply_release).
THEOREM BooksAreKept == LockSpec => CommandsKeepBooks
<1>1. LockInv /\ [LockNext]_vars =>
        [\A r \in Replica : Books(r) /\ applied'[r] # applied[r] => Books(r)']_vars
  <2> SUFFICES ASSUME LockInv, LockNext,
                      NEW r \in Replica, Books(r), applied'[r] # applied[r]
               PROVE  Books(r)'
    OBVIOUS
  <2>1. Apply(r)
    BY SubmitStep, ApplyStep DEF LockNext, Detect, Resolve, LockInv, TypeOK
  <2> QED
    BY <2>1, ApplyKeepsBooks
<1> QED
  BY <1>1, LockInvariant, PTL DEF LockSpec, CommandsKeepBooks

-----------------------------------------------------------------------------
(* Nobody loses his place but behind a writer *)

\* The request is that of the command at its place.
Placed(w) ==
  /\ w.at \in 1..Len(log)
  /\ log[w.at].type = "acquire" /\ log[w.at].client = w.client /\ log[w.at].mode = w.mode

QueuesPlaced == \A r \in Replica : \A l \in Lock : \A w \in locks[r][l].queue : Placed(w)

\* Why a lock that was in state ls and is in state new no longer has w in its queue
Served(ls, new, w) ==
  \/ Granted(new, w)
  \/ \E u \in Writers(ls.queue) : u.at < w.at /\ Granted(new, u)

\* The loop over the queue drops only what it serves or what is behind a writer it
\* serves, and takes nobody in; no two requests have one place.
LEMMA GrantWaitingServes ==
  ASSUME NEW ls \in LockState, \A u, w \in ls.queue : u.at = w.at => u = w
  PROVE  /\ GrantWaiting(ls).queue \subseteq ls.queue
         /\ \A w \in ls.queue \ GrantWaiting(ls).queue : Served(ls, GrantWaiting(ls), w)
<1>1. CASE ls.exclusive # Nil
  BY <1>1 DEF GrantWaiting
<1>2. CASE ls.exclusive = Nil /\ ls.shared = {} /\ WriterAtHead(ls.queue) # {}
  <2> DEFINE u == CHOOSE u \in WriterAtHead(ls.queue) : TRUE
  <2>1. u \in WriterAtHead(ls.queue)
    BY <1>2
  <2>2. GrantWaiting(ls) = [ls EXCEPT !.exclusive = u.client, !.queue = {}]
    BY <1>2 DEF GrantWaiting
  <2> HIDE DEF u
  <2>3. u \in Writers(ls.queue) /\ u.mode = Exclusive /\ \A o \in ls.queue : u.at <= o.at
    BY <2>1 DEF WriterAtHead, Writers
  <2>4. GrantWaiting(ls).exclusive = u.client /\ GrantWaiting(ls).queue = {}
    BY <2>2 DEF LockState
  <2>5. Granted(GrantWaiting(ls), u)
    BY <2>3, <2>4 DEF Granted
  <2>6. ASSUME NEW w \in ls.queue PROVE Served(ls, GrantWaiting(ls), w)
    <3>1. CASE w = u
      BY <2>5, <3>1 DEF Served
    <3>2. CASE w # u
      <4>1. u \in ls.queue /\ u.at \in Nat /\ w.at \in Nat
        BY <2>3 DEF Writers, LockState, LockRequest
      <4>2. u.at < w.at
        BY <2>3, <3>2, <4>1
      <4> QED
        BY <2>3, <2>5, <4>2 DEF Served
    <3> QED
      BY <3>1, <3>2
  <2> QED
    BY <2>4, <2>6
<1>3. CASE ls.exclusive = Nil /\ ~(ls.shared = {} /\ WriterAtHead(ls.queue) # {})
  <2>1. GrantWaiting(ls) = [ls EXCEPT !.shared = @ \cup Readers(ls.queue), !.queue = Writers(@)]
    BY <1>3 DEF GrantWaiting
  <2>2. /\ GrantWaiting(ls).queue = Writers(ls.queue)
        /\ GrantWaiting(ls).shared = ls.shared \cup Readers(ls.queue)
    BY <2>1 DEF LockState
  <2>3. ASSUME NEW w \in ls.queue \ Writers(ls.queue) PROVE Served(ls, GrantWaiting(ls), w)
    <3>1. w.mode # Exclusive /\ w.client \in Readers(ls.queue)
      BY DEF Writers, Readers
    <3> QED
      BY <2>2, <3>1 DEF Served, Granted
  <2> QED
    BY <2>2, <2>3 DEF Writers
<1> QED
  BY <1>1, <1>2, <1>3

\* So does a release.
LEMMA ReleasedServesQueue ==
  ASSUME NEW ls, Sound(ls), NEW c \in Client, \A u, w \in ls.queue : u.at = w.at => u = w
  PROVE  /\ Released(ls, c) \in LockState
         /\ Released(ls, c).queue \subseteq ls.queue
         /\ \A w \in ls.queue \ Released(ls, c).queue : Served(ls, Released(ls, c), w)
<1> DEFINE un == [ls EXCEPT !.exclusive = IF @ = c THEN Nil ELSE @, !.shared = @ \ {c}]
<1>1. un \in LockState /\ un.queue = ls.queue
  BY DEF Sound, LockState
<1>2. Released(ls, c) = GrantWaiting(un)
  BY DEF Released
<1> HIDE DEF un
<1>3. \A w : Served(un, Released(ls, c), w) <=> Served(ls, Released(ls, c), w)
  BY <1>1 DEF Served
<1>4. GrantWaiting(un) \in LockState
  BY <1>2, ReleasedSound DEF Sound
<1> QED
  BY <1>1, <1>2, <1>3, <1>4, GrantWaitingServes

\* So does an abort, but for what the victim itself has queued behind its own lock.
LEMMA AbortedServesQueue ==
  ASSUME NEW ls, Sound(ls), NEW v \in Client, \A u, w \in ls.queue : u.at = w.at => u = w
  PROVE  /\ Aborted(ls, v).queue \subseteq ls.queue
         /\ \A w \in ls.queue \ Aborted(ls, v).queue :
              Served(ls, Aborted(ls, v), w) \/ (w.client = v /\ v = ls.exclusive)
<1>1. CASE ls.exclusive = v
  <2>1. PICK rest : rest = Released(ls, v)
    OBVIOUS
  <2>2. /\ rest \in LockState /\ rest.queue \subseteq ls.queue
        /\ \A w \in ls.queue \ rest.queue : Served(ls, rest, w)
    BY <2>1, ReleasedServesQueue
  <2>3. Aborted(ls, v) = [rest EXCEPT !.shared = @ \ {v}]
    BY <1>1, <2>1 DEF Aborted
  <2>4. /\ Aborted(ls, v).queue = rest.queue
        /\ Aborted(ls, v).exclusive = rest.exclusive
        /\ Aborted(ls, v).shared = rest.shared \ {v}
    BY <2>2, <2>3 DEF LockState
  <2>5. ASSUME NEW w, Granted(rest, w) PROVE Granted(Aborted(ls, v), w) \/ (w.client = v /\ w.mode # Exclusive)
    BY <2>4, <2>5 DEF Granted
  <2>6. ASSUME NEW w \in ls.queue \ rest.queue, w.client # v PROVE Served(ls, Aborted(ls, v), w)
    <3>1. CASE Granted(rest, w)
      BY <2>5, <2>6, <3>1 DEF Served
    <3>2. ASSUME NEW u \in Writers(ls.queue), u.at < w.at, Granted(rest, u)
          PROVE  Served(ls, Aborted(ls, v), w)
      <4>1. u.mode = Exclusive
        BY DEF Writers
      <4> QED
        BY <2>5, <3>2, <4>1 DEF Served
    <3> QED
      BY <2>2, <2>6, <3>1, <3>2 DEF Served
  <2> QED
    BY <1>1, <2>2, <2>4, <2>6
<1>2. CASE ls.exclusive # v
  <2>1. Aborted(ls, v) = [ls EXCEPT !.shared = @ \ {v}]
    BY <1>2 DEF Aborted
  <2>2. Aborted(ls, v).queue = ls.queue
    BY <2>1 DEF Sound, LockState
  <2> QED
    BY <2>2
<1> QED
  BY <1>1, <1>2

\* Requests with one place are one request.
LEMMA PlacesDiffer ==
  ASSUME LockInv, QueuesPlaced, NEW r \in Replica, NEW l \in Lock
  PROVE  /\ Sound(locks[r][l])
         /\ \A u, w \in locks[r][l].queue : u.at = w.at => u = w
<1>1. Sound(locks[r][l])
  BY DEF LockInv, LocksSound
<1>2. ASSUME NEW u \in locks[r][l].queue, NEW w \in locks[r][l].queue, u.at = w.at PROVE u = w
  <2>1. u \in LockRequest /\ w \in LockRequest
    BY <1>1 DEF Sound, LockState
  <2>2. u.client = w.client /\ u.mode = w.mode
    BY <1>2 DEF QueuesPlaced, Placed
  <2> QED
    BY <1>2, <2>1, <2>2 DEF LockRequest
<1> QED
  BY <1>1, <1>2

\* What a step does to the locks: nothing, a command at one of them, or an abort
LEMMA LockSteps ==
  ASSUME LockInv, LockNext
  PROVE  \/ UNCHANGED locks
         \/ \E r \in Replica : Apply(r)
         \/ /\ UNCHANGED <<log, applied>>
            /\ \E r \in Replica, v \in Client :
                 locks' = [locks EXCEPT ![r] = [l \in Lock |-> Aborted(@[l], v)]]
BY DEF LockNext, Submit, Detect, Resolve, Victims, tableVars

\* What a command does to a lock of its replica
LEMMA ApplySteps ==
  ASSUME LockInv, NEW s \in Replica, Apply(s), NEW r \in Replica, NEW l \in Lock
  PROVE  \/ locks'[r][l] = locks[r][l]
         \/ \E c \in Client : locks'[r][l] = Released(locks[r][l], c)
         \/ locks'[r][l].queue = locks[r][l].queue
         \/ \E i \in 1..Len(log), c \in Client, mode \in Mode :
              /\ log[i].type = "acquire" /\ log[i].client = c /\ log[i].mode = mode
              /\ locks'[r][l] = Enqueue(locks[r][l], c, mode, i)
<1>1. PICK i \in 1..Len(log) : ApplyAcquire(s, i) \/ ApplyRelease(s, i)
  BY ApplyStep
<1> DEFINE cmd == log[i]
<1>2. /\ cmd.lock \in Lock /\ cmd.client \in Client
      /\ cmd.type = "acquire" => cmd.mode \in Mode
  BY CommandParts DEF LockInv
<1>3. locks \in [Replica -> [Lock -> LockState]]
  BY DEF LockInv, TypeOK
<1>4. CASE ApplyRelease(s, i)
  <2>1. UNCHANGED locks \/ locks' = [locks EXCEPT ![s][cmd.lock] = Released(@, cmd.client)]
    BY <1>4 DEF ApplyRelease
  <2> HIDE DEF cmd
  <2>2. locks'[r][l] = locks[r][l] \/ locks'[r][l] = Released(locks[r][l], cmd.client)
    <3>1. CASE UNCHANGED locks
      BY <3>1
    <3>2. CASE locks' = [locks EXCEPT ![s][cmd.lock] = Released(@, cmd.client)]
      BY <1>2, <3>2, <1>3, SMT
    <3> QED
      BY <2>1, <3>1, <3>2
  <2> QED
    BY <1>2, <2>2
<1>5. CASE ApplyAcquire(s, i)
  <2>1. /\ cmd.type = "acquire" /\ cmd.mode \in Mode
        /\ \/ locks' = [locks EXCEPT ![s][cmd.lock] = Grant(locks[s][cmd.lock], cmd.client, cmd.mode)]
           \/ locks' = [locks EXCEPT ![s][cmd.lock] = Enqueue(locks[s][cmd.lock], cmd.client, cmd.mode, i)]
    BY <1>2, <1>5 DEF ApplyAcquire
  <2> HIDE DEF cmd
  <2>2. \/ locks'[r][l] = locks[r][l]
        \/ locks'[r][l] = Grant(locks[r][l], cmd.client, cmd.mode)
        \/ locks'[r][l] = Enqueue(locks[r][l], cmd.client, cmd.mode, i)
    <3> DEFINE g == Grant(locks[s][cmd.lock], cmd.client, cmd.mode)
               e == Enqueue(locks[s][cmd.lock], cmd.client, cmd.mode, i)
    <3>1. ASSUME NEW new, locks' = [locks EXCEPT ![s][cmd.lock] = new]
          PROVE  locks'[r][l] = IF r = s /\ l = cmd.lock THEN new ELSE locks[r][l]
      BY <1>2, <3>1, <1>3
    <3>2. CASE locks' = [locks EXCEPT ![s][cmd.lock] = g]
      <4> HIDE DEF g
      <4>1. locks'[r][l] = IF r = s /\ l = cmd.lock THEN g ELSE locks[r][l]
        BY <3>1, <3>2
      <4> QED
        BY <4>1 DEF g
    <3>3. CASE locks' = [locks EXCEPT ![s][cmd.lock] = e]
      <4> HIDE DEF e
      <4>1. locks'[r][l] = IF r = s /\ l = cmd.lock THEN e ELSE locks[r][l]
        BY <3>1, <3>3
      <4> QED
        BY <4>1 DEF e
    <3> QED
      BY <2>1, <3>2, <3>3
  <2>3. Grant(locks[r][l], cmd.client, cmd.mode).queue = locks[r][l].queue
    <3>1. locks[r][l] \in LockState
      BY DEF LockInv, LocksSound, Sound
    <3> QED
      BY <3>1 DEF Grant, LockState
  <2>4. /\ i \in 1..Len(log) /\ cmd.client \in Client /\ cmd.mode \in Mode
        /\ log[i].type = "acquire" /\ log[i].client = cmd.client /\ log[i].mode = cmd.mode
    BY <1>2, <2>1 DEF cmd
  <2> QED
    BY <2>2, <2>3, <2>4
<1> QED
  BY <1>1, <1>4, <1>5

\* Every queued request stays that of the command at its place.
LEMMA PlacesNext == LockInv /\ QueuesPlaced /\ [LockNext]_vars => QueuesPlaced'
<1> SUFFICES ASSUME LockInv, QueuesPlaced, [LockNext]_vars,
                    NEW r \in Replica, NEW l \in Lock, NEW w \in locks'[r][l].queue
             PROVE  Placed(w)'
  BY DEF QueuesPlaced
<1>1. ASSUME NEW x, Placed(x) PROVE Placed(x)'
  <2>1. CASE log' = log
    BY <1>1, <2>1 DEF Placed
  <2>2. ASSUME NEW cmd \in Command, Submit(cmd) PROVE Placed(x)'
    <3>1. log \in Seq(Command) /\ log' = Append(log, cmd)
      BY <2>2, SubmitStep DEF LockInv, TypeOK
    <3>2. Len(log') = Len(log) + 1 /\ \A k \in 1..Len(log) : log'[k] = log[k]
      BY <3>1, AppendProperties
    <3>3. Len(log) \in Nat
      BY <3>1, LenProperties
    <3> QED
      BY <1>1, <3>2, <3>3 DEF Placed
  <2>3. (\E cmd \in Command : Submit(cmd)) \/ log' = log
    <3>1. \A q \in Replica : Apply(q) => log' = log
      BY ApplyStep
    <3> QED
      BY <3>1 DEF LockNext, vars, Detect, Resolve
  <2> QED
    BY <2>1, <2>2, <2>3
<1>2. Sound(locks[r][l]) /\ \A u, x \in locks[r][l].queue : u.at = x.at => u = x
  BY PlacesDiffer
<1>3. CASE w \in locks[r][l].queue
  BY <1>1, <1>3 DEF QueuesPlaced
<1>4. CASE w \notin locks[r][l].queue
  <2>1. LockNext /\ locks'[r][l].queue # locks[r][l].queue
    BY <1>4 DEF vars, tableVars
  <2>2. \A c \in Client : locks'[r][l] # Released(locks[r][l], c)
    BY <1>2, <1>4, ReleasedServesQueue
  <2>3. \E s \in Replica : Apply(s)
    <3>1. ASSUME NEW s \in Replica, NEW v \in Client,
                 locks' = [locks EXCEPT ![s] = [k \in Lock |-> Aborted(@[k], v)]]
          PROVE  FALSE
      <4>1. locks'[r][l] = locks[r][l] \/ locks'[r][l] = Aborted(locks[r][l], v)
        BY <3>1 DEF LockInv, TypeOK
      <4> QED
        BY <1>2, <1>4, <2>1, <4>1, AbortedServesQueue
    <3> QED
      BY <2>1, <3>1, LockSteps
  <2>4. PICK i \in 1..Len(log), c \in Client, mode \in Mode :
          /\ log[i].type = "acquire" /\ log[i].client = c /\ log[i].mode = mode
          /\ locks'[r][l] = Enqueue(locks[r][l], c, mode, i)
    BY <2>1, <2>2, <2>3, ApplySteps
  <2>5. w = [client |-> c, mode |-> mode, at |-> i]
    BY <1>2, <1>4, <2>4 DEF Enqueue, Sound, LockState
  <2>6. Placed(w)
    BY <2>4, <2>5 DEF Placed
  <2> QED
    BY <1>1, <2>6
<1> QED
  BY <1>3, <1>4

\* A request leaves a queue only when it is granted or a writer before it is, or when
\* it is its holder's own and that is aborted: the break of the grant loop is the one
\* way to lose a place (_apply_release, _resolve_deadlock).
THEOREM PlacesAreKept == LockSpec => DropsAreBehindWriters
<1>1. LockInit => QueuesPlaced
  BY DEF LockInit, QueuesPlaced, Free
<1>2. LockInv /\ QueuesPlaced /\ [LockNext]_vars =>
        [\A r \in Replica : \A l \in Lock : \A w \in locks[r][l].queue \ locks'[r][l].queue :
           \/ Granted(locks'[r][l], w)
           \/ \E u \in Writers(locks[r][l].queue) : u.at < w.at /\ Granted(locks'[r][l], u)
           \/ w.client = locks[r][l].exclusive /\ UNCHANGED applied[r]]_vars
  <2> SUFFICES ASSUME LockInv, QueuesPlaced, LockNext,
                      NEW r \in Replica, NEW l \in Lock,
                      NEW w \in locks[r][l].queue \ locks'[r][l].queue
               PROVE  Served(locks[r][l], locks'[r][l], w)
                        \/ (w.client = locks[r][l].exclusive /\ UNCHANGED applied[r])
    BY DEF Served
  <2>1. Sound(locks[r][l]) /\ \A u, x \in locks[r][l].queue : u.at = x.at => u = x
    BY PlacesDiffer
  <2>2. ASSUME NEW s \in Replica, Apply(s) PROVE Served(locks[r][l], locks'[r][l], w)
    <3>1. ASSUME NEW c \in Client, locks'[r][l] = Released(locks[r][l], c)
          PROVE  Served(locks[r][l], locks'[r][l], w)
      BY <2>1, <3>1, ReleasedServesQueue
    <3>2. \A c, mode, i : Enqueue(locks[r][l], c, mode, i).queue
                            = locks[r][l].queue \cup {[client |-> c, mode |-> mode, at |-> i]}
      BY <2>1 DEF Enqueue, Sound, LockState
    <3> QED
      BY <2>2, <3>1, <3>2, ApplySteps
  <2>3. ASSUME NEW s \in Replica, NEW v \in Client,
               locks' = [locks EXCEPT ![s] = [k \in Lock |-> Aborted(@[k], v)]]
        PROVE  Served(locks[r][l], locks'[r][l], w) \/ w.client = locks[r][l].exclusive
    <3>1. locks'[r][l] = Aborted(locks[r][l], v)
      BY <2>3 DEF LockInv, TypeOK
    <3> QED
      BY <2>1, <3>1, AbortedServesQueue
  <2> QED
    BY <2>2, <2>3, LockSteps
<1> QED
  BY <1>1, <1>2, PlacesNext, LockInvariant, PTL DEF LockSpec, DropsAreBehindWriters

-----------------------------------------------------------------------------
(* What the lock table asks of consensus *)

\* The lock table needs no more of consensus than a CommandFeed gives, which is what
\* RaftService implements: whatever commands are submitted, and whatever a replica does
\* with those it is handed, they are those of one growing sequence, in order, none twice
\* (acquire, release, _on_commit).
THEOREM LockTableIsFed == LockSpec => Feed!FeedSpec
<1>1. LockInit => Feed!FeedInit
  BY DEF LockInit
<1>2. LockInv /\ [LockNext]_vars => [Feed!FeedNext]_(Feed!feedVars)
  <2> SUFFICES ASSUME LockInv, [LockNext]_vars PROVE [Feed!FeedNext]_(Feed!feedVars)
    OBVIOUS
  <2>1. ASSUME NEW cmd \in Command, Submit(cmd) PROVE Feed!FeedNext
    <3>1. PICK batch : batch = <<cmd>>
      OBVIOUS
    <3>2. batch \in [1..1 -> Command] /\ Len(batch) = 1
      BY <3>1
    <3>3. Feed!Extend(batch)
      BY <2>1, <3>1 DEF Submit
    <3>4. Len(log) + 1 <= MaxCommands
      BY <3>2, <3>3 DEF Feed!Extend
    <3>5. Len(log) \in Nat /\ MaxCommands \in Nat
      BY LockBoundAssumption, LenProperties DEF LockInv, TypeOK
    <3>6. 1 \in 1..MaxCommands
      BY <3>4, <3>5
    <3> QED
      BY <3>2, <3>3, <3>6 DEF Feed!FeedNext
  <2>2. ASSUME NEW r \in Replica, Apply(r) PROVE Feed!FeedNext
    BY <2>2 DEF Apply, Feed!FeedNext
  <2>3. CASE UNCHANGED <<log, applied>>
    BY <2>3 DEF Feed!feedVars
  <2> QED
    BY <2>1, <2>2, <2>3 DEF LockNext, vars, Detect, Resolve
<1> QED
  BY <1>1, <1>2, LockInvariant, PTL DEF LockSpec, Feed!FeedSpec

-----------------------------------------------------------------------------
(* The search for cycles *)

Frame == [client : Client, left : SUBSET Client]

\* The loops of the search are about neighbours.
SearchType ==
  /\ graph \in Graphs
  /\ path \in Seq(Frame)
  /\ visited \in SUBSET Client
  /\ \A i \in 1..Len(path) : path[i].left \subseteq graph[path[i].client]

Trails == [Client -> Seq(Client)]

\* T[c] is the path as it was when the search came to c: a path of the graph that ends in
\* c and begins with the paths on which it came to the others on it.
Trail(T, c) ==
  /\ Len(T[c]) >= 1 /\ T[c][Len(T[c])] = c
  /\ \A i, j \in 1..Len(T[c]) : T[c][i] = T[c][j] => i = j
  /\ \A i \in 1..Len(T[c]) :
       /\ T[c][i] \in visited
       /\ Len(T[T[c][i]]) = i
       /\ \A j \in 1..i : T[T[c][i]][j] = T[c][j]
  /\ \A i \in 1..Len(T[c]) - 1 : T[c][i + 1] \in graph[T[c][i]]

\* The path is that of its innermost call.
OnTrail(T) ==
  path # <<>> =>
    /\ Top.client \in visited
    /\ Len(T[Top.client]) = Len(path)
    /\ \A i \in 1..Len(path) : T[Top.client][i] = path[i].client

\* p is what follows on the path t from the place s on.
Cut(p, t, s) ==
  /\ p \in Seq(Client)
  /\ Len(p) = Len(t) - s + 1
  /\ \A i \in 1..Len(p) : p[i] = t[s + i - 1]

\* A reported cycle is the end of the path to some client, which waits for its first.
Found(T) ==
  \A p \in cycles : \E c \in visited : \E s \in 1..Len(T[c]) :
    Cut(p, T[c], s) /\ T[c][s] \in graph[c]

TrailInv(T) == (\A c \in visited : Trail(T, c)) /\ OnTrail(T) /\ Found(T)

\* The edge from u to x closed a cycle that was reported.
Broken(u, x) == \E q \in cycles : Closing(q) = <<u, x>>

\* The search is done with c.
Finished(c) == c \in visited /\ ~OnPath(c)

\* F orders the clients as the search was done with them, K is beyond them: an edge that
\* was looked at is broken, or leads to a client that was done with before, or is the one
\* the search is on.
Ranked(F, K) ==
  /\ \A u \in Client : Finished(u) =>
       F[u] < K /\ \A x \in graph[u] : Broken(u, x) \/ (Finished(x) /\ F[x] < F[u])
  /\ \A i \in 1..Len(path) : \A x \in graph[path[i].client] \ path[i].left :
       Broken(path[i].client, x) \/ Finished(x) \/ (i < Len(path) /\ x = path[i + 1].client)

SearchInv ==
  /\ SearchType
  /\ \E T \in Trails : TrailInv(T)
  /\ \E F \in [Client -> Nat], K \in Nat : Ranked(F, K)

\* Where the path is not empty it has a top.
LEMMA TopParts ==
  ASSUME SearchType, path # <<>>
  PROVE  /\ Len(path) \in Nat \ {0} /\ Len(path) \in 1..Len(path)
         /\ Top \in Frame /\ Top.client \in Client /\ Top.left \subseteq graph[Top.client]
<1>1. Len(path) \in Nat \ {0}
  BY EmptySeq DEF SearchType
<1>2. Len(path) \in 1..Len(path)
  BY <1>1
<1>3. path[Len(path)] \in Frame
  BY <1>2, ElementOfSeq DEF SearchType
<1> QED
  BY <1>1, <1>2, <1>3 DEF Top, Frame, SearchType

\* The path as a sequence
LEMMA PathParts ==
  ASSUME SearchType
  PROVE  /\ Len(path) \in Nat
         /\ \A i \in 1..Len(path) : path[i] \in Frame /\ path[i].client \in Client
         /\ graph \in [Client -> SUBSET Client]
         /\ path = <<>> <=> Len(path) = 0
<1>1. Len(path) \in Nat
  BY LenProperties DEF SearchType
<1>2. \A i \in 1..Len(path) : path[i] \in Frame
  BY ElementOfSeq DEF SearchType
<1>3. path = <<>> <=> Len(path) = 0
  BY EmptySeq DEF SearchType
<1> QED
  BY <1>1, <1>2, <1>3 DEF Frame, SearchType, Graphs

\* No client is on the path twice.
LEMMA PathOnce ==
  ASSUME SearchType, NEW T \in Trails, TrailInv(T),
         NEW i \in 1..Len(path), NEW j \in 1..Len(path), path[i].client = path[j].client
  PROVE  i = j
<1>1. path # <<>>
  BY PathParts
<1>2. Trail(T, Top.client) /\ Len(T[Top.client]) = Len(path)
      /\ T[Top.client][i] = path[i].client /\ T[Top.client][j] = path[j].client
  BY <1>1 DEF TrailInv, OnTrail
<1> QED
  BY <1>2 DEF Trail

-----------------------------------------------------------------------------
(* A call for a client that was not seen yet *)

\* Root and Descend come to c: the path was empty, or its top has an edge to c.
Comes(c) ==
  /\ c \in Client \ visited
  /\ visited' = visited \cup {c}
  /\ UNCHANGED <<graph, cycles>>
  /\ path' \in Seq(Frame)
  /\ Len(path') = Len(path) + 1
  /\ path'[Len(path) + 1] = [client |-> c, left |-> graph[c]]
  /\ \A i \in 1..Len(path) :
       /\ path'[i].client = path[i].client
       /\ path'[i].left \subseteq path[i].left
       /\ \/ path'[i].left = path[i].left
          \/ i = Len(path) /\ path'[i].left = path[i].left \ {c}
  /\ path # <<>> => c \in graph[Top.client]

\* The path grows by a call for c.
LEMMA Pushed ==
  ASSUME NEW p \in Seq(Frame), NEW f \in Frame
  PROVE  /\ Append(p, f) \in Seq(Frame)
         /\ Len(Append(p, f)) = Len(p) + 1
         /\ Append(p, f)[Len(p) + 1] = f
         /\ \A i \in 1..Len(p) : Append(p, f)[i] = p[i]
BY AppendProperties, LenProperties

\* The loop of the innermost call goes on to its next neighbour.
LEMMA SeenParts ==
  ASSUME SearchType, path # <<>>, NEW nb
  PROVE  /\ Seen(nb) \in Seq(Frame)
         /\ Len(Seen(nb)) = Len(path)
         /\ \A i \in 1..Len(path) :
              /\ Seen(nb)[i].client = path[i].client
              /\ Seen(nb)[i].left = IF i = Len(path) THEN path[i].left \ {nb} ELSE path[i].left
<1>1. Top \in Frame /\ Len(path) \in 1..Len(path)
  BY TopParts
<1>2. PICK f : f = [client |-> Top.client, left |-> Top.left \ {nb}]
  OBVIOUS
<1>3. f \in Frame
  BY <1>1, <1>2 DEF Frame
<1>4. Seen(nb) = [path EXCEPT ![Len(path)] = f]
  <2>1. \A x \in Frame : [x EXCEPT !.left = x.left \ {nb}] = [client |-> x.client, left |-> x.left \ {nb}]
    BY DEF Frame
  <2>2. [path[Len(path)] EXCEPT !.left = @ \ {nb}] = f
    BY <1>1, <1>2, <2>1 DEF Top
  <2> QED
    BY <2>2 DEF Seen
<1>5. /\ Seen(nb) \in Seq(Frame)
      /\ Len(Seen(nb)) = Len(path)
      /\ \A i \in 1..Len(path) : Seen(nb)[i] = IF i = Len(path) THEN f ELSE path[i]
  BY <1>1, <1>3, <1>4, ExceptSeq DEF SearchType
<1>6. f.client = path[Len(path)].client /\ f.left = path[Len(path)].left \ {nb}
  BY <1>2 DEF Top
<1>7. ASSUME NEW i \in 1..Len(path)
      PROVE  /\ Seen(nb)[i].client = path[i].client
             /\ Seen(nb)[i].left = IF i = Len(path) THEN path[i].left \ {nb} ELSE path[i].left
  <2>1. CASE i = Len(path)
    BY <1>5, <1>6, <2>1
  <2>2. CASE i # Len(path)
    BY <1>5, <2>2
  <2> QED
    BY <2>1, <2>2
<1> QED
  BY <1>5, <1>7

\* Root and Descend come to a client.
LEMMA EnterComes ==
  ASSUME SearchType, NEW c \in Client,
         \/ Root(c)
         \/ path # <<>> /\ c \in Top.left /\ Descend(c) /\ UNCHANGED graph
  PROVE  Comes(c)
<1>1. PICK f : f = [client |-> c, left |-> graph[c]]
  OBVIOUS
<1>2. f \in Frame
  BY <1>1, PathParts DEF Frame
<1>3. CASE Root(c)
  <2>1. /\ c \in Client \ visited /\ visited' = visited \cup {c} /\ UNCHANGED <<graph, cycles>>
        /\ path' = Append(path, f) /\ path = <<>>
    BY <1>1, <1>3 DEF Root, Enter
  <2>2. /\ path' \in Seq(Frame)
        /\ Len(path') = Len(path) + 1
        /\ path'[Len(path) + 1] = f
        /\ \A i \in 1..Len(path) : path'[i] = path[i]
    BY <1>2, <2>1, Pushed DEF SearchType
  <2> QED
    BY <1>1, <2>1, <2>2 DEF Comes
<1>4. CASE path # <<>> /\ c \in Top.left /\ Descend(c) /\ UNCHANGED graph
  <2>1. /\ c \in Client \ visited /\ visited' = visited \cup {c} /\ UNCHANGED <<graph, cycles>>
        /\ path' = Append(Seen(c), f) /\ c \in graph[Top.client]
    BY <1>1, <1>4, TopParts DEF Descend
  <2>2. /\ Seen(c) \in Seq(Frame)
        /\ Len(Seen(c)) = Len(path)
        /\ \A i \in 1..Len(path) :
             /\ Seen(c)[i].client = path[i].client
             /\ Seen(c)[i].left = IF i = Len(path) THEN path[i].left \ {c} ELSE path[i].left
    BY <1>4, SeenParts
  <2>3. /\ path' \in Seq(Frame)
        /\ Len(path') = Len(path) + 1
        /\ path'[Len(path) + 1] = f
        /\ \A i \in 1..Len(path) : path'[i] = Seen(c)[i]
    BY <1>2, <2>1, <2>2, Pushed
  <2>4. \A i \in 1..Len(path) :
          /\ path'[i].client = path[i].client
          /\ \/ path'[i].left = path[i].left
             \/ i = Len(path) /\ path'[i].left = path[i].left \ {c}
    BY <2>2, <2>3
  <2> QED
    BY <1>1, <2>1, <2>3, <2>4 DEF Comes
<1> QED
  BY <1>3, <1>4

\* Types after it
LEMMA ComesType ==
  ASSUME SearchType, NEW c \in Client, Comes(c)
  PROVE  SearchType'
<1>1. ASSUME NEW i \in 1..Len(path') PROVE path'[i].left \subseteq graph[path'[i].client]
  <2>1. i \in 1..Len(path) \/ i = Len(path) + 1
    BY PathParts DEF Comes
  <2>2. CASE i = Len(path) + 1
    BY <2>2 DEF Comes
  <2>3. CASE i \in 1..Len(path)
    BY <2>3 DEF Comes, SearchType
  <2> QED
    BY <2>1, <2>2, <2>3
<1> QED
  BY <1>1 DEF Comes, SearchType

\* The trail of c is that of the top, and c.
LEMMA ComesTrail ==
  ASSUME SearchType, SearchType', NEW T \in Trails, TrailInv(T), NEW c \in Client, Comes(c)
  PROVE  \E T2 \in Trails : TrailInv(T2)'
<1>1. PICK t : /\ t \in Seq(Client)
               /\ Len(t) = Len(path) + 1
               /\ t[Len(path) + 1] = c
               /\ \A i \in 1..Len(path) : t[i] = path[i].client
  <2>1. CASE path = <<>>
    <3>1. <<c>> \in Seq(Client) /\ Len(<<c>>) = 1 /\ <<c>>[1] = c /\ Len(path) = 0
      BY <2>1
    <3>2. PICK t : t = <<c>>
      OBVIOUS
    <3>3. t \in Seq(Client) /\ Len(t) = Len(path) + 1 /\ t[Len(path) + 1] = c /\ ~\E i \in 1..Len(path) : TRUE
      BY <3>1, <3>2
    <3> QED
      BY <3>3
  <2>2. CASE path # <<>>
    <3>1. /\ T[Top.client] \in Seq(Client)
          /\ Len(T[Top.client]) = Len(path)
          /\ \A i \in 1..Len(path) : T[Top.client][i] = path[i].client
      BY <2>2, TopParts DEF Trails, TrailInv, OnTrail
    <3>2. /\ Append(T[Top.client], c) \in Seq(Client)
          /\ Len(Append(T[Top.client], c)) = Len(path) + 1
          /\ Append(T[Top.client], c)[Len(path) + 1] = c
          /\ \A i \in 1..Len(path) : Append(T[Top.client], c)[i] = T[Top.client][i]
      BY <3>1, AppendProperties, LenProperties
    <3>3. \A i \in 1..Len(path) : Append(T[Top.client], c)[i] = path[i].client
      BY <3>1, <3>2
    <3> QED
      BY <3>2, <3>3
  <2> QED
    BY <2>1, <2>2
<1>2. PICK T2 : T2 = [T EXCEPT ![c] = t]
  OBVIOUS
<1>3. T2 \in Trails /\ T2[c] = t /\ \A d \in visited : T2[d] = T[d]
  BY <1>1, <1>2 DEF Trails, Comes, SearchType
<1>4. Len(path) \in Nat
  BY PathParts
<1>5. ASSUME NEW d \in visited PROVE Trail(T2, d)'
  <2>1. Trail(T, d) /\ T2[d] = T[d]
    BY <1>3 DEF TrailInv
  <2>2. \A i \in 1..Len(T[d]) : T[d][i] \in visited /\ T2[T[d][i]] = T[T[d][i]]
    BY <1>3, <2>1 DEF Trail
  <2>3. visited \subseteq visited' /\ graph' = graph
    BY DEF Comes
  <2> QED
    BY <2>1, <2>2, <2>3 DEF Trail
<1>6. Trail(T2, c)'
  <2>1. ASSUME NEW i \in 1..Len(path)
        PROVE  /\ path[i].client \in visited
               /\ Len(T[path[i].client]) = i
               /\ \A j \in 1..i : T[path[i].client][j] = path[j].client
    <3>1. path # <<>>
      BY PathParts
    <3>2. /\ Trail(T, Top.client)
          /\ Len(T[Top.client]) = Len(path)
          /\ \A j \in 1..Len(path) : T[Top.client][j] = path[j].client
      BY <3>1 DEF TrailInv, OnTrail
    <3>3. \A j \in 1..i : j \in 1..Len(path)
      BY <1>4
    <3>4. PICK v : v = T[Top.client]
      OBVIOUS
    <3>5. v[i] \in visited /\ Len(T[v[i]]) = i /\ \A j \in 1..i : T[v[i]][j] = v[j]
      BY <3>2, <3>4 DEF Trail
    <3>6. \A j \in 1..i : v[j] = path[j].client
      BY <3>2, <3>3, <3>4
    <3>7. v[i] = path[i].client
      BY <3>2, <3>4
    <3> QED
      BY <3>5, <3>6, <3>7
  <2>2. \A i \in 1..Len(path) + 1 : i \in 1..Len(path) \/ i = Len(path) + 1
    BY <1>4
  <2>3. \A i \in 1..Len(path) : t[i] \in visited /\ t[i] # c /\ T2[t[i]] = T[t[i]]
    BY <1>1, <1>3, <2>1 DEF Comes
  <2>4. \A i, j \in 1..Len(t) : t[i] = t[j] => i = j
    BY <1>1, <2>2, <2>3, PathOnce
  <2>5. ASSUME NEW i \in 1..Len(t)
        PROVE  t[i] \in visited' /\ Len(T2[t[i]]) = i /\ \A j \in 1..i : T2[t[i]][j] = t[j]
    <3>1. CASE i = Len(path) + 1
      BY <1>1, <1>3, <3>1 DEF Comes
    <3>2. CASE i \in 1..Len(path)
      <4>1. \A j \in 1..i : j \in 1..Len(path)
        BY <1>4, <3>2
      <4> QED
        BY <1>1, <2>1, <2>3, <3>2, <4>1 DEF Comes
    <3> QED
      BY <1>1, <2>2, <3>1, <3>2
  <2>6. ASSUME NEW i \in 1..Len(t) - 1 PROVE t[i + 1] \in graph'[t[i]]
    <3>1. i \in 1..Len(path) /\ path # <<>>
      BY <1>1, <1>4, PathParts
    <3>2. CASE i = Len(path)
      BY <1>1, <3>1, <3>2 DEF Comes, Top
    <3>3. CASE i # Len(path)
      <4>1. i + 1 \in 1..Len(path) /\ i \in 1..Len(path) - 1
        BY <1>4, <3>1, <3>3
      <4>2. /\ Trail(T, Top.client)
            /\ Len(T[Top.client]) = Len(path)
            /\ T[Top.client][i] = path[i].client /\ T[Top.client][i + 1] = path[i + 1].client
        BY <3>1, <4>1 DEF TrailInv, OnTrail
      <4>3. T[Top.client][i + 1] \in graph[T[Top.client][i]]
        BY <4>1, <4>2 DEF Trail
      <4> QED
        BY <1>1, <3>1, <4>1, <4>2, <4>3 DEF Comes
    <3> QED
      BY <3>2, <3>3
  <2>7. Len(t) >= 1 /\ t[Len(t)] = c
    BY <1>1, <1>4
  <2> QED
    BY <1>3, <2>4, <2>5, <2>6, <2>7 DEF Trail
<1>7. OnTrail(T2)'
  <2>1. \A i \in 1..Len(path) + 1 : t[i] = path'[i].client
    <3>1. \A i \in 1..Len(path) + 1 : i \in 1..Len(path) \/ i = Len(path) + 1
      BY <1>4
    <3> QED
      BY <1>1, <3>1 DEF Comes
  <2>2. Top'.client = c
    BY DEF Top, Comes
  <2> QED
    BY <1>1, <1>3, <2>1, <2>2 DEF OnTrail, Comes
<1>8. Found(T2)'
  BY <1>3 DEF TrailInv, Found, Comes
<1> QED
  BY <1>3, <1>5, <1>6, <1>7, <1>8 DEF TrailInv, Comes

\* Nobody is done with by a call, and the edge to c is the one the search is on.
LEMMA ComesRank ==
  ASSUME SearchType, NEW T \in Trails, TrailInv(T), NEW F, NEW K, Ranked(F, K),
         NEW c \in Client, Comes(c)
  PROVE  Ranked(F, K)'
<1>1. Len(path) \in Nat
  BY PathParts
<1>2. \A d : OnPath(d)' <=> OnPath(d) \/ d = c
  <2>1. ASSUME NEW d, NEW i \in 1..Len(path'), path'[i].client = d PROVE OnPath(d) \/ d = c
    <3>1. i \in 1..Len(path) \/ i = Len(path) + 1
      BY <1>1, <2>1 DEF Comes
    <3> QED
      BY <2>1, <3>1 DEF Comes, OnPath
  <2>2. ASSUME NEW d, NEW i \in 1..Len(path), path[i].client = d PROVE OnPath(d)'
    <3>1. i \in 1..Len(path')
      BY <1>1 DEF Comes
    <3> QED
      BY <2>2, <3>1 DEF Comes, OnPath
  <2>3. OnPath(c)'
    <3>1. Len(path) + 1 \in 1..Len(path')
      BY <1>1 DEF Comes
    <3> QED
      BY <3>1 DEF Comes, OnPath
  <2> QED
    BY <2>1, <2>2, <2>3 DEF OnPath
<1>3. \A d : Finished(d)' <=> Finished(d)
  BY <1>2 DEF Finished, Comes
<1>4. \A u, x : Broken(u, x)' <=> Broken(u, x)
  BY DEF Broken, Comes
<1>5. ASSUME NEW u \in Client, Finished(u)'
      PROVE  F[u] < K /\ \A x \in graph'[u] : Broken(u, x)' \/ (Finished(x)' /\ F[x] < F[u])
  BY <1>3, <1>4, <1>5 DEF Ranked, Comes
<1>6. ASSUME NEW i \in 1..Len(path'), NEW x \in graph'[path'[i].client] \ path'[i].left
      PROVE  \/ Broken(path[i].client, x)'
             \/ Finished(x)'
             \/ i < Len(path') /\ x = path'[i + 1].client
  <2>1. i \in 1..Len(path) \/ i = Len(path) + 1
    BY <1>1 DEF Comes
  <2>2. CASE i = Len(path) + 1
    BY <2>2 DEF Comes
  <2>3. CASE i \in 1..Len(path) /\ x \notin path[i].left
    <3>1. Broken(path[i].client, x) \/ Finished(x) \/ (i < Len(path) /\ x = path[i + 1].client)
      BY <2>3 DEF Ranked, Comes
    <3>2. i < Len(path) => i + 1 \in 1..Len(path) /\ i < Len(path')
      BY <1>1 DEF Comes
    <3> QED
      BY <1>3, <1>4, <2>3, <3>1, <3>2 DEF Comes, Broken
  <2>4. CASE i \in 1..Len(path) /\ x \in path[i].left
    <3>1. i = Len(path) /\ x = c
      BY <2>4 DEF Comes
    <3>2. i < Len(path') /\ path'[i + 1].client = c
      BY <1>1, <3>1 DEF Comes
    <3> QED
      BY <3>1, <3>2
  <2> QED
    BY <2>1, <2>2, <2>3, <2>4
<1> QED
  BY <1>5, <1>6 DEF Ranked

\* A call keeps the invariant.
LEMMA ComesKeeps ==
  ASSUME SearchInv, NEW c \in Client, Comes(c)
  PROVE  SearchInv'
<1>1. SearchType'
  BY ComesType DEF SearchInv
<1>2. \E T \in Trails : TrailInv(T)'
  BY <1>1, ComesTrail DEF SearchInv
<1>3. \E F \in [Client -> Nat], K \in Nat : Ranked(F, K)'
  BY ComesRank DEF SearchInv
<1> QED
  BY <1>1, <1>2, <1>3 DEF SearchInv

-----------------------------------------------------------------------------
(* A neighbour that was seen before *)

\* Close and Pass: the loop is done with nb, which is on the path and closes a cycle or
\* is not and was done with.
LEMMA LoopKeeps ==
  ASSUME SearchInv, path # <<>>, NEW nb \in Top.left, Close(nb) \/ Pass(nb), UNCHANGED graph
  PROVE  SearchInv'
<1>1. /\ nb \in visited /\ UNCHANGED visited
      /\ path' = Seen(nb)
      /\ cycles \subseteq cycles'
  BY DEF Close, Pass
<1>2. /\ path' \in Seq(Frame)
      /\ Len(path') = Len(path)
      /\ \A i \in 1..Len(path) :
           /\ path'[i].client = path[i].client
           /\ path'[i].left = IF i = Len(path) THEN path[i].left \ {nb} ELSE path[i].left
  BY <1>1, SeenParts DEF SearchInv
<1>3. SearchType'
  <2>1. \A i \in 1..Len(path) : path'[i].left \subseteq path[i].left
    BY <1>2
  <2> QED
    BY <1>1, <1>2, <2>1 DEF SearchInv, SearchType
<1>4. Len(path) \in Nat \ {0} /\ Len(path) \in 1..Len(path) /\ nb \in graph[Top.client] /\ Top.client \in Client
  BY TopParts DEF SearchInv
<1>5. Top'.client = Top.client /\ path' # <<>>
  <2>1. path' # <<>>
    BY <1>2, <1>4
  <2> QED
    BY <1>2, <1>4, <2>1 DEF Top
<1>6. ASSUME Close(nb)
      PROVE  \E s \in 1..Len(path), p \in Seq(Client) :
               /\ path[s].client = nb
               /\ cycles' = cycles \cup {p}
               /\ Len(p) = Len(path) - s + 1
               /\ \A i \in 1..Len(p) : p[i] = path[s + i - 1].client
  <2>1. PICK s : s = CHOOSE i \in 1..Len(path) : path[i].client = nb
    OBVIOUS
  <2>2. s \in 1..Len(path) /\ path[s].client = nb
    BY <1>6, <2>1 DEF Close, OnPath
  <2>3. PICK p : p = SubSeq(Clients(path), s, Len(path))
    OBVIOUS
  <2>4. cycles' = cycles \cup {p}
    BY <1>6, <2>1, <2>3 DEF Close
  <2>5. \A i \in 1..Len(path) : Clients(path)[i] = path[i].client /\ path[i].client \in Client
    BY PathParts DEF Clients, SearchInv
  <2>6. \A i \in s..Len(path) : Clients(path)[i] \in Client
    BY <1>4, <2>2, <2>5
  <2>7. s \in Int /\ Len(path) \in Int /\ s <= Len(path)
    BY <1>4, <2>2
  <2>8. /\ p \in Seq(Client)
        /\ Len(p) = IF s <= Len(path) THEN Len(path) - s + 1 ELSE 0
        /\ \A i \in 1..Len(path) - s + 1 : p[i] = Clients(path)[s + i - 1]
    BY <2>3, <2>6, <2>7, SubSeqProperties
  <2>9. ASSUME NEW i \in 1..Len(path) - s + 1 PROVE p[i] = path[s + i - 1].client
    <3>1. s + i - 1 \in 1..Len(path)
      BY <1>4, <2>2
    <3> QED
      BY <2>5, <2>8, <3>1
  <2> QED
    BY <2>2, <2>4, <2>7, <2>8, <2>9
<1>7. PICK T \in Trails : TrailInv(T)
  BY DEF SearchInv
<1>8. TrailInv(T)'
  <2>1. \A c \in visited' : Trail(T, c)'
    BY <1>1, <1>7 DEF TrailInv, Trail
  <2>2. OnTrail(T)'
    BY <1>1, <1>2, <1>5, <1>7 DEF TrailInv, OnTrail
  <2>3. Found(T)'
    <3>1. CASE Pass(nb)
      BY <1>1, <1>7, <3>1 DEF Pass, TrailInv, Found
    <3>2. CASE Close(nb)
      <4>1. PICK s \in 1..Len(path), p \in Seq(Client) :
               /\ path[s].client = nb
               /\ cycles' = cycles \cup {p}
               /\ Len(p) = Len(path) - s + 1
               /\ \A i \in 1..Len(p) : p[i] = path[s + i - 1].client
        BY <1>6, <3>2
      <4>2. /\ Top.client \in visited
            /\ Len(T[Top.client]) = Len(path)
            /\ \A i \in 1..Len(path) : T[Top.client][i] = path[i].client
        BY <1>7 DEF TrailInv, OnTrail
      <4>3. Cut(p, T[Top.client], s)
        <5>1. \A i \in 1..Len(p) : s + i - 1 \in 1..Len(path)
          BY <1>4, <4>1
        <5> QED
          BY <4>1, <4>2, <5>1 DEF Cut
      <4>4. s \in 1..Len(T[Top.client]) /\ T[Top.client][s] \in graph[Top.client]
        BY <1>4, <4>1, <4>2
      <4>5. ASSUME NEW q \in cycles'
            PROVE  \E c \in visited : \E r \in 1..Len(T[c]) : Cut(q, T[c], r) /\ T[c][r] \in graph[c]
        <5>1. CASE q \in cycles
          BY <1>7, <5>1 DEF TrailInv, Found
        <5>2. CASE q = p
          BY <4>2, <4>3, <4>4, <5>2
        <5> QED
          BY <4>1, <5>1, <5>2
      <4> QED
        BY <1>1, <4>5 DEF Found, Cut
    <3> QED
      BY <3>1, <3>2
  <2> QED
    BY <2>1, <2>2, <2>3 DEF TrailInv
<1>9. PICK F \in [Client -> Nat], K \in Nat : Ranked(F, K)
  BY DEF SearchInv
<1>10. Ranked(F, K)'
  <2>0. PICK u \in Client : u = Top.client
    BY <1>4
  <2>1. \A d : Finished(d)' <=> Finished(d)
    BY <1>1, <1>2 DEF Finished, OnPath
  <2>2. \A v, x : Broken(v, x) => Broken(v, x)'
    BY <1>1 DEF Broken
  <2>3. Broken(u, nb)' \/ Finished(nb)
    <3>1. CASE Pass(nb)
      BY <3>1 DEF Pass, Finished
    <3>2. CASE Close(nb)
      <4>1. PICK s \in 1..Len(path), p \in Seq(Client) :
               /\ path[s].client = nb
               /\ cycles' = cycles \cup {p}
               /\ Len(p) = Len(path) - s + 1
               /\ \A i \in 1..Len(p) : p[i] = path[s + i - 1].client
        BY <1>6, <3>2
      <4>2. 1 \in 1..Len(p) /\ Len(p) \in 1..Len(p) /\ s + 1 - 1 = s /\ s + Len(p) - 1 = Len(path)
        BY <1>4, <4>1
      <4>3. p[1] = nb /\ p[Len(p)] = Top.client
        BY <4>1, <4>2 DEF Top
      <4> QED
        BY <2>0, <4>1, <4>3 DEF Broken, Closing
    <3> QED
      BY <3>1, <3>2
  <2>4. ASSUME NEW v \in Client, Finished(v)'
        PROVE  F[v] < K /\ \A x \in graph'[v] : Broken(v, x)' \/ (Finished(x)' /\ F[x] < F[v])
    BY <1>9, <2>1, <2>2, <2>4 DEF Ranked
  <2>5. ASSUME NEW i \in 1..Len(path'), NEW x \in graph'[path'[i].client] \ path'[i].left
        PROVE  \/ Broken(path[i].client, x)'
               \/ Finished(x)'
               \/ i < Len(path') /\ x = path'[i + 1].client
    <3>1. CASE x \notin path[i].left
      <4>1. Broken(path[i].client, x) \/ Finished(x) \/ (i < Len(path) /\ x = path[i + 1].client)
        BY <1>2, <1>9, <3>1 DEF Ranked
      <4>2. i < Len(path) => i + 1 \in 1..Len(path)
        BY <1>2, <1>4
      <4> QED
        BY <1>2, <2>1, <2>2, <4>1, <4>2 DEF Broken
    <3>2. CASE x \in path[i].left
      <4>1. i = Len(path) /\ x = nb
        BY <1>2, <3>2
      <4> QED
        BY <1>2, <2>0, <2>1, <2>3, <4>1 DEF Top, Broken
    <3> QED
      BY <3>1, <3>2
  <2> QED
    BY <2>4, <2>5 DEF Ranked
<1> QED
  BY <1>3, <1>7, <1>8, <1>9, <1>10 DEF SearchInv

-----------------------------------------------------------------------------
(* A call that returns *)

\* Its client is done with, after all those that were.
LEMMA ReturnKeeps ==
  ASSUME SearchInv, Return
  PROVE  SearchInv'
<1>1. /\ path # <<>> /\ Top.left = {}
      /\ path' = SubSeq(path, 1, Len(path) - 1)
      /\ UNCHANGED <<graph, visited, cycles>>
  BY DEF Return
<1>2. PICK n, u : n = Len(path) /\ u = Top.client
  OBVIOUS
<1>3. /\ n \in Nat \ {0} /\ n \in 1..n /\ u \in Client /\ path[n].client = u /\ path[n].left = {}
      /\ \A i \in 1..n : path[i] \in Frame
  BY <1>1, <1>2, TopParts, PathParts DEF Top, SearchInv
<1>4. /\ path' \in Seq(Frame)
      /\ Len(path') = n - 1
      /\ \A i \in 1..n - 1 : i \in 1..n /\ path'[i] = path[i]
  <2>1. 1 \in Int /\ n - 1 \in Int /\ \A i \in 1..n - 1 : i \in 1..n /\ path[i] \in Frame
    BY <1>3
  <2>2. /\ path' \in Seq(Frame)
        /\ Len(path') = IF 1 <= n - 1 THEN (n - 1) - 1 + 1 ELSE 0
        /\ \A i \in 1..(n - 1) - 1 + 1 : path'[i] = path[1 + i - 1]
    BY <1>1, <1>2, <2>1, SubSeqProperties
  <2>3. \A i \in 1..n - 1 : i \in 1..(n - 1) - 1 + 1 /\ 1 + i - 1 = i
    BY <1>3
  <2>4. Len(path') = n - 1
    BY <1>3, <2>2
  <2> QED
    BY <2>1, <2>2, <2>3, <2>4
<1>5. SearchType'
  BY <1>1, <1>2, <1>4 DEF SearchInv, SearchType
<1>6. PICK T \in Trails : TrailInv(T)
  BY DEF SearchInv
<1>7. TrailInv(T)'
  <2>1. \A c \in visited' : Trail(T, c)'
    BY <1>1, <1>6 DEF TrailInv, Trail
  <2>2. Found(T)'
    BY <1>1, <1>6 DEF TrailInv, Found, Cut
  <2>3. ASSUME path' # <<>>
        PROVE  /\ Top'.client \in visited'
               /\ Len(T[Top'.client]) = Len(path')
               /\ \A i \in 1..Len(path') : T[Top'.client][i] = path'[i].client
    <3>1. n - 1 \in 1..n - 1 /\ n - 1 \in 1..n
      <4>1. Len(path') \in Nat \ {0}
        BY <1>4, <2>3, EmptySeq
      <4> QED
        BY <1>3, <1>4, <4>1
    <3>2. Top'.client = path[n - 1].client
      BY <1>4, <3>1 DEF Top
    <3>3. /\ Trail(T, u)
          /\ Len(T[u]) = n
          /\ \A i \in 1..n : T[u][i] = path[i].client
      BY <1>1, <1>2, <1>6 DEF TrailInv, OnTrail
    <3>4. /\ T[u][n - 1] \in visited
          /\ Len(T[T[u][n - 1]]) = n - 1
          /\ \A j \in 1..n - 1 : T[T[u][n - 1]][j] = T[u][j]
      BY <3>1, <3>3 DEF Trail
    <3>5. T[u][n - 1] = Top'.client
      BY <3>1, <3>2, <3>3
    <3>6. ASSUME NEW i \in 1..n - 1 PROVE T[Top'.client][i] = path'[i].client
      BY <1>4, <3>3, <3>4, <3>5
    <3> QED
      BY <1>1, <1>4, <3>4, <3>5, <3>6
  <2> QED
    BY <2>1, <2>2, <2>3 DEF TrailInv, OnTrail
<1>8. PICK F \in [Client -> Nat], K \in Nat : Ranked(F, K)
  BY DEF SearchInv
<1>9. \A i \in 1..n - 1 : path[i].client # u
  <2>1. ASSUME NEW i \in 1..n - 1, path[i].client = u PROVE FALSE
    <3>1. i \in 1..Len(path) /\ n \in 1..Len(path)
      BY <1>2, <1>3
    <3>2. i = n
      BY <1>3, <1>6, <2>1, <3>1, PathOnce DEF SearchInv
    <3> QED
      BY <1>3, <3>2
  <2> QED
    BY <2>1
<1>10. \A d : Finished(d)' <=> Finished(d) \/ d = u
  <2>1. \A i \in 1..n : i \in 1..n - 1 \/ i = n
    BY <1>3
  <2>2. \A d : OnPath(d) <=> OnPath(d)' \/ d = u
    BY <1>2, <1>3, <1>4, <2>1 DEF OnPath
  <2>3. ~OnPath(u)'
    BY <1>4, <1>9 DEF OnPath
  <2>4. u \in visited
    BY <1>1, <1>2, <1>6 DEF TrailInv, OnTrail
  <2> QED
    BY <1>1, <2>2, <2>3, <2>4 DEF Finished
<1>11. ~Finished(u)
  BY <1>2, <1>3 DEF Finished, OnPath
<1>12. \A v, x : Broken(v, x)' <=> Broken(v, x)
  BY <1>1 DEF Broken
<1>13. PICK G : G = [F EXCEPT ![u] = K]
  OBVIOUS
<1>14. /\ G \in [Client -> Nat]
       /\ G[u] = K
       /\ \A d \in Client \ {u} : G[d] = F[d]
  BY <1>3, <1>13
<1>15. graph \in [Client -> SUBSET Client]
  BY PathParts DEF SearchInv
<1>16. Ranked(G, K + 1)'
  <2>1. ASSUME NEW v \in Client, Finished(v)'
        PROVE  G[v] < K + 1 /\ \A x \in graph'[v] : Broken(v, x)' \/ (Finished(x)' /\ G[x] < G[v])
    <3>1. CASE v # u
      <4>1. Finished(v) /\ F[v] < K /\ G[v] = F[v]
        BY <1>8, <1>10, <1>14, <2>1, <3>1 DEF Ranked
      <4>2. ASSUME NEW x \in graph[v] PROVE Broken(v, x) \/ (Finished(x) /\ G[x] < G[v])
        <5>1. Broken(v, x) \/ (Finished(x) /\ F[x] < F[v])
          BY <1>8, <4>1 DEF Ranked
        <5>2. Finished(x) => G[x] = F[x]
          BY <1>11, <1>14, <1>15
        <5> QED
          BY <4>1, <5>1, <5>2
      <4>3. G[v] < K + 1
        BY <1>14, <4>1
      <4> QED
        BY <1>1, <1>10, <1>12, <4>2, <4>3
    <3>2. CASE v = u
      <4>1. ASSUME NEW x \in graph[u] PROVE Broken(u, x) \/ (Finished(x) /\ G[x] < G[u])
        <5>1. x \in graph[path[n].client] \ path[n].left
          BY <1>3
        <5>2. Broken(u, x) \/ Finished(x)
          <6>1. n \in 1..Len(path) /\ ~(n < Len(path))
            BY <1>2, <1>3
          <6> QED
            BY <1>3, <1>8, <5>1, <6>1 DEF Ranked
        <5>3. ASSUME Finished(x) PROVE G[x] < G[u]
          <6>1. x \in Client /\ x # u
            BY <1>3, <1>11, <1>15, <5>3
          <6>2. F[x] < K
            BY <1>8, <5>3, <6>1 DEF Ranked
          <6> QED
            BY <1>14, <6>1, <6>2
        <5> QED
          BY <5>2, <5>3
      <4>2. G[u] < K + 1
        BY <1>8, <1>14
      <4> QED
        BY <1>1, <1>10, <1>12, <3>2, <4>1, <4>2
    <3> QED
      BY <3>1, <3>2
  <2>2. ASSUME NEW i \in 1..Len(path'), NEW x \in graph'[path'[i].client] \ path'[i].left
        PROVE  \/ Broken(path[i].client, x)'
               \/ Finished(x)'
               \/ i < Len(path') /\ x = path'[i + 1].client
    <3>1. i \in 1..n - 1 /\ i \in 1..Len(path) /\ path'[i] = path[i]
      BY <1>2, <1>4
    <3>2. Broken(path[i].client, x) \/ Finished(x) \/ (i < Len(path) /\ x = path[i + 1].client)
      BY <1>1, <1>8, <3>1 DEF Ranked
    <3>3. CASE i = n - 1
      <4>1. i + 1 = n
        BY <1>3, <3>3
      <4> QED
        BY <1>2, <1>3, <1>10, <1>12, <3>1, <3>2, <4>1 DEF Broken
    <3>4. CASE i # n - 1
      <4>1. i + 1 \in 1..n - 1 /\ i < Len(path')
        BY <1>3, <1>4, <3>1, <3>4
      <4> QED
        BY <1>4, <1>10, <1>12, <3>1, <3>2, <4>1 DEF Broken
    <3> QED
      BY <3>3, <3>4
  <2> QED
    BY <2>1, <2>2 DEF Ranked
<1>17. K + 1 \in Nat
  BY <1>8
<1> QED
  BY <1>5, <1>6, <1>7, <1>14, <1>16, <1>17 DEF SearchInv
-----------------------------------------------------------------------------
(* The search from its beginning to its end *)

\* Nobody was seen yet.
LEMMA SearchBegins == SearchInit => SearchInv
<1> SUFFICES ASSUME SearchInit PROVE SearchInv
  OBVIOUS
<1>1. Len(path) = 0 /\ path \in Seq(Frame) /\ path = <<>> /\ visited = {} /\ cycles = {}
  BY DEF SearchInit
<1>2. SearchType
  BY <1>1 DEF SearchInit, SearchType
<1>3. [c \in Client |-> <<>>] \in Trails /\ TrailInv([c \in Client |-> <<>>])
  BY <1>1 DEF Trails, TrailInv, OnTrail, Found
<1>4. [c \in Client |-> 0] \in [Client -> Nat] /\ Ranked([c \in Client |-> 0], 0)
  BY <1>1 DEF Ranked, Finished
<1> QED
  BY <1>2, <1>3, <1>4 DEF SearchInv

LEMMA SearchInvNext == SearchInv /\ [SearchNext]_searchVars => SearchInv'
<1> SUFFICES ASSUME SearchInv, [SearchNext]_searchVars PROVE SearchInv'
  OBVIOUS
<1>1. CASE \E c \in Client : Root(c)
  <2>1. PICK c \in Client : Root(c)
    BY <1>1
  <2>2. Comes(c)
    BY <2>1, EnterComes DEF SearchInv
  <2> QED
    BY <2>2, ComesKeeps
<1>2. CASE Neighbour
  <2>1. PICK nb \in Top.left : Descend(nb) \/ Close(nb) \/ Pass(nb)
    BY <1>2 DEF Neighbour
  <2>2. path # <<>> /\ UNCHANGED graph
    BY <1>2 DEF Neighbour
  <2>3. CASE Descend(nb)
    <3>1. nb \in Client
      BY <2>2, TopParts, PathParts DEF SearchInv
    <3>2. Comes(nb)
      BY <2>2, <2>3, <3>1, EnterComes DEF SearchInv
    <3> QED
      BY <3>1, <3>2, ComesKeeps
  <2>4. CASE Close(nb) \/ Pass(nb)
    BY <2>2, <2>4, LoopKeeps
  <2> QED
    BY <2>1, <2>3, <2>4
<1>3. CASE Return
  BY <1>3, ReturnKeeps
<1>4. CASE UNCHANGED searchVars
  <2>1. UNCHANGED <<graph, path, visited, cycles>>
    BY <1>4 DEF searchVars
  <2>2. SearchType'
    BY <2>1 DEF SearchInv, SearchType
  <2>3. \E T \in Trails : TrailInv(T)'
    BY <2>1 DEF SearchInv, TrailInv, Trail, OnTrail, Found, Top
  <2>4. \E F \in [Client -> Nat], K \in Nat : Ranked(F, K)'
    <3>1. PICK F \in [Client -> Nat], K \in Nat : Ranked(F, K)
      BY DEF SearchInv
    <3>2. Ranked(F, K)'
      BY <2>1, <3>1 DEF Ranked, Finished, OnPath, Broken
    <3> QED
      BY <3>1, <3>2
  <2> QED
    BY <2>2, <2>3, <2>4 DEF SearchInv
<1> QED
  BY <1>1, <1>2, <1>3, <1>4 DEF SearchNext

-----------------------------------------------------------------------------
(* What the search has reported at its end *)

\* p ends the path to c: it is the cycle from the place s on.
EndOf(p, T, c, s) ==
  /\ Trail(T, c) /\ T[c][s] \in graph[c] /\ Cut(p, T[c], s)
  /\ s \in 1..Len(T[c]) /\ Len(T[c]) \in Nat
  /\ Len(p) \in Nat \ {0} /\ Len(p) \in 1..Len(p)
  /\ \A i \in 1..Len(p) : s + i - 1 \in 1..Len(T[c])
  /\ s + Len(p) - 1 = Len(T[c])
  /\ p[Len(p)] = c

\* A reported cycle with the path it is the end of.
LEMMA FoundParts ==
  ASSUME SearchType, NEW T \in Trails, TrailInv(T), NEW p \in cycles
  PROVE  \E c \in visited, s \in Nat : EndOf(p, T, c, s)
<1>1. PICK c \in visited : \E s \in 1..Len(T[c]) : Cut(p, T[c], s) /\ T[c][s] \in graph[c]
  BY DEF TrailInv, Found
<1>2. PICK s \in 1..Len(T[c]) : Cut(p, T[c], s) /\ T[c][s] \in graph[c]
  BY <1>1
<1>3. Trail(T, c) /\ T[c] \in Seq(Client)
  BY DEF TrailInv, Trails, SearchType
<1>4. PICK n : n = Len(T[c])
  OBVIOUS
<1>5. n \in Nat /\ s \in 1..n
  BY <1>3, <1>4, LenProperties
<1>6. Len(p) = n - s + 1
  BY <1>2, <1>4 DEF Cut
<1>7. Len(p) \in Nat \ {0} /\ Len(p) \in 1..Len(p) /\ s + Len(p) - 1 = n
  BY <1>5, <1>6
<1>8. \A i \in 1..Len(p) : s + i - 1 \in 1..n
  BY <1>5, <1>6
<1>9. p[Len(p)] = c
  <2>1. p[Len(p)] = T[c][s + Len(p) - 1]
    BY <1>2, <1>7 DEF Cut
  <2>2. T[c][n] = c
    BY <1>3, <1>4 DEF Trail
  <2> QED
    BY <1>7, <2>1, <2>2
<1>10. EndOf(p, T, c, s)
  BY <1>2, <1>3, <1>4, <1>5, <1>7, <1>8, <1>9 DEF EndOf
<1>11. s \in Nat
  BY <1>5
<1> QED
  BY <1>10, <1>11

\* Whatever is reported is a cycle.
LEMMA FoundAreCycles ==
  ASSUME IsFiniteSet(Client), SearchType, NEW T \in Trails, TrailInv(T)
  PROVE  cycles \subseteq Cycles(graph)
<1> SUFFICES ASSUME NEW p \in cycles PROVE p \in Cycles(graph)
  OBVIOUS
<1>1. PICK c \in visited, s \in Nat : EndOf(p, T, c, s)
  BY FoundParts
<1>2. p \in [1..Len(p) -> Client]
  BY <1>1, LenProperties DEF Cut, EndOf
<1>3. \A i, j \in 1..Len(p) : p[i] = p[j] => i = j
  <2> SUFFICES ASSUME NEW i \in 1..Len(p), NEW j \in 1..Len(p), p[i] = p[j] PROVE i = j
    OBVIOUS
  <2>1. T[c][s + i - 1] = T[c][s + j - 1]
    BY <1>1 DEF Cut, EndOf
  <2>2. s + i - 1 = s + j - 1
    BY <1>1, <2>1 DEF Trail, EndOf
  <2> QED
    BY <1>1, <2>2 DEF EndOf
<1>4. Len(p) <= Cardinality(Client)
  <2>1. IsFiniteSet(1..Len(p)) /\ Cardinality(1..Len(p)) = Len(p)
    <3>1. PICK m : m = Len(p)
      OBVIOUS
    <3>2. m \in Int /\ 1 \in Int /\ ~(1 > m) /\ m - 1 + 1 = m
      BY <1>1, <3>1 DEF EndOf
    <3>3. IsFiniteSet(1..m) /\ Cardinality(1..m) = m
      BY <3>2, FS_Interval
    <3> QED
      BY <3>1, <3>3
  <2>2. p \in Injection(1..Len(p), Client)
    BY <1>2, <1>3, Fun_IsInj
  <2> QED
    BY <2>1, <2>2, FS_Injection
<1>5. p \in Paths
  <2>1. Cardinality(Client) \in Nat
    BY FS_CardinalityType
  <2>2. Len(p) \in 1..Cardinality(Client)
    BY <1>1, <1>4, <2>1 DEF EndOf
  <2> QED
    BY <1>2, <2>2 DEF Paths
<1>6. ASSUME NEW i \in 1..Len(p) PROVE After(p, i) \in graph[p[i]]
  <2>1. CASE i = Len(p)
    <3>1. 1 \in 1..Len(p) /\ s + 1 - 1 = s
      BY <1>1 DEF EndOf
    <3>2. p[1] = T[c][s]
      BY <1>1, <3>1 DEF Cut, EndOf
    <3> QED
      BY <1>1, <2>1, <3>2 DEF After, EndOf
  <2>2. CASE i # Len(p)
    <3>1. i + 1 \in 1..Len(p) /\ s + (i + 1) - 1 = (s + i - 1) + 1 /\ s + i - 1 \in 1..Len(T[c]) - 1
      BY <1>1, <2>2 DEF EndOf
    <3>2. p[i] = T[c][s + i - 1] /\ p[i + 1] = T[c][(s + i - 1) + 1]
      BY <1>1, <3>1 DEF Cut, EndOf
    <3>3. T[c][(s + i - 1) + 1] \in graph[T[c][s + i - 1]]
      BY <1>1, <3>1 DEF Trail, EndOf
    <3> QED
      BY <2>2, <3>2, <3>3 DEF After
  <2> QED
    BY <2>1, <2>2
<1>7. \A e \in Edges(p) : e[2] \in graph[e[1]]
  BY <1>6 DEF Edges
<1> QED
  BY <1>3, <1>5, <1>7 DEF Cycles, IsCycle

\* A cycle ends where the search stood: of the same clients there is one.
LEMMA FoundOnce ==
  ASSUME SearchType, NEW T \in Trails, TrailInv(T),
         NEW p \in cycles, NEW q \in cycles, Members(p) = Members(q)
  PROVE  p = q
<1>1. PICK c \in visited, s \in Nat : EndOf(p, T, c, s)
  BY FoundParts
<1>2. PICK d \in visited, r \in Nat : EndOf(q, T, d, r)
  BY FoundParts
<1>3. c = d
  <2>1. PICK j \in 1..Len(q) : q[j] = c
    BY <1>1 DEF Members, EndOf
  <2>2. PICK i \in 1..Len(p) : p[i] = d
    BY <1>2 DEF Members, EndOf
  <2>3. T[d][r + j - 1] = c /\ r + j - 1 \in 1..Len(T[d])
    BY <1>2, <2>1 DEF Cut, EndOf
  <2>4. T[c][s + i - 1] = d /\ s + i - 1 \in 1..Len(T[c])
    BY <1>1, <2>2 DEF Cut, EndOf
  <2>5. Len(T[c]) = r + j - 1
    BY <1>2, <2>3 DEF Trail, EndOf
  <2>6. Len(T[d]) = s + i - 1
    BY <1>1, <2>4 DEF Trail, EndOf
  <2>7. r + j - 1 = Len(T[d])
    BY <1>1, <1>2, <2>3, <2>4, <2>5, <2>6 DEF EndOf
  <2>8. T[d][Len(T[d])] = d
    BY <1>2 DEF Trail, EndOf
  <2> QED
    BY <2>3, <2>7, <2>8
<1>4. s = r
  <2>1. p[1] = T[c][s] /\ q[1] = T[c][r] /\ 1 \in 1..Len(p) /\ 1 \in 1..Len(q)
    <3>1. 1 \in 1..Len(p) /\ 1 \in 1..Len(q) /\ s + 1 - 1 = s /\ r + 1 - 1 = r
      BY <1>1, <1>2 DEF EndOf
    <3> QED
      BY <1>1, <1>2, <1>3, <3>1 DEF Cut, EndOf
  <2>2. PICK j \in 1..Len(q) : q[j] = p[1]
    BY <2>1 DEF Members
  <2>3. PICK i \in 1..Len(p) : p[i] = q[1]
    BY <2>1 DEF Members
  <2>4. T[c][r + j - 1] = T[c][s] /\ r + j - 1 \in 1..Len(T[c])
    BY <1>2, <1>3, <2>1, <2>2 DEF Cut, EndOf
  <2>5. T[c][s + i - 1] = T[c][r] /\ s + i - 1 \in 1..Len(T[c])
    BY <1>1, <1>3, <2>1, <2>3 DEF Cut, EndOf
  <2>6. r + j - 1 = s
    BY <1>1, <2>4 DEF Trail, EndOf
  <2>7. s + i - 1 = r
    BY <1>1, <1>2, <1>3, <2>5 DEF Trail, EndOf
  <2> QED
    BY <1>1, <1>2, <2>6, <2>7 DEF EndOf
<1>5. Len(p) = Len(q)
  BY <1>1, <1>2, <1>3, <1>4 DEF EndOf
<1>6. \A i \in 1..Len(p) : p[i] = q[i]
  <2>1. Cut(p, T[c], s) /\ Cut(q, T[c], s)
    BY <1>1, <1>2, <1>3, <1>4 DEF EndOf
  <2> QED
    BY <1>5, <2>1 DEF Cut
<1>7. p \in Seq(Client) /\ q \in Seq(Client)
  BY <1>1, <1>2 DEF Cut, EndOf
<1> QED
  BY <1>5, <1>6, <1>7, SeqEqual

\* Where all edges of a cycle led to clients that were done with before, none of them
\* would have been the first: one closed a cycle.
LEMMA CyclesAreBroken ==
  ASSUME SearchType, NEW F \in [Client -> Nat], NEW K \in Nat, Ranked(F, K), Done,
         NEW p \in Cycles(graph)
  PROVE  \E q \in cycles : Closing(q) \in Edges(p)
<1>1. PICK n \in 1..Cardinality(Client) : p \in [1..n -> Client]
  BY DEF Cycles, Paths
<1>2. IsCycle(graph, p)
  BY DEF Cycles
<1>3. Len(p) = n /\ n \in Nat \ {0}
  BY <1>1
<1>4. ASSUME NEW i \in 1..n
      PROVE  /\ p[i] \in Client /\ \E k \in 1..n : After(p, i) = p[k]
             /\ <<p[i], After(p, i)>> \in Edges(p) /\ After(p, i) \in graph[p[i]]
  <2>1. <<p[i], After(p, i)>> \in Edges(p)
    BY <1>3 DEF Edges
  <2>2. \E k \in 1..n : After(p, i) = p[k]
    <3>1. i = n \/ i + 1 \in 1..n
      BY <1>3
    <3>2. 1 \in 1..n
      BY <1>3
    <3> QED
      BY <1>3, <3>1, <3>2 DEF After
  <2> QED
    BY <1>1, <1>2, <2>1, <2>2 DEF IsCycle
<1>5. \A u \in Client : Finished(u)
  BY DEF Done, Finished, OnPath
<1>6. PICK S : S = {F[p[i]] : i \in 1..n}
  OBVIOUS
<1>7. S \in SUBSET Nat /\ S # {}
  <2>1. \A i \in 1..n : F[p[i]] \in Nat
    BY <1>4
  <2>2. 1 \in 1..n
    BY <1>3
  <2> QED
    BY <1>6, <2>1, <2>2
<1>8. PICK least \in S : \A k \in S : least <= k
  BY <1>7, LeastExists
<1>9. PICK i \in 1..n : F[p[i]] = least
  BY <1>6, <1>8
<1>10. ~(F[After(p, i)] < F[p[i]])
  <2>1. F[After(p, i)] \in S
    BY <1>4, <1>6
  <2>2. F[p[i]] <= F[After(p, i)] /\ F[p[i]] \in Nat /\ F[After(p, i)] \in Nat
    BY <1>7, <1>8, <1>9, <2>1
  <2> QED
    BY <2>2
<1>11. Broken(p[i], After(p, i))
  BY <1>4, <1>5, <1>10 DEF Ranked
<1> QED
  BY <1>4, <1>11 DEF Broken

\* At its end the search has reported cycles only, none twice, and enough of them to break,
\* whatever the graph and the order of its loops: a graph with a deadlock in it is never
\* taken for one without (_find_cycles).
THEOREM SearchIsSound == SearchSpec => []SearchReports
<1>1. SearchInv => SearchReports
  <2> SUFFICES ASSUME SearchInv, Done PROVE Reports(graph, cycles)
    BY DEF SearchReports
  <2>1. PICK T \in Trails : TrailInv(T)
    BY DEF SearchInv
  <2>2. PICK F \in [Client -> Nat], K \in Nat : Ranked(F, K)
    BY DEF SearchInv
  <2>3. cycles \subseteq Cycles(graph)
    BY <2>1, ClientAssumption, FoundAreCycles DEF SearchInv
  <2>4. \A p, q \in cycles : Members(p) = Members(q) => p = q
    BY <2>1, FoundOnce DEF SearchInv
  <2>5. \A p \in Cycles(graph) : \E q \in cycles : Closing(q) \in Edges(p)
    BY <2>2, CyclesAreBroken DEF SearchInv
  <2> QED
    BY <2>3, <2>4, <2>5 DEF Reports
<1> QED
  BY <1>1, SearchBegins, SearchInvNext, PTL DEF SearchSpec
=============================================================================
