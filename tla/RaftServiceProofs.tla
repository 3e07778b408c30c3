--------------------------- MODULE RaftServiceProofs ---------------------------
(***************************************************************************)
(* Raft implements ReplicatedLog, and what RaftService does on top of it   *)
(* keeps its promises, for any finite set of servers and any bounds.       *)
(*                                                                         *)
(* Both rest on what RaftLogProofs shows of commit indices: any two        *)
(* servers agree on what they know to be committed, and no step takes it   *)
(* back.                                                                   *)
(***************************************************************************)
EXTENDS RaftService, RaftLogProofs, WellFoundedInduction

-----------------------------------------------------------------------------
(* Greatest numbers *)

\* The order of the natural numbers is well-founded.
LEMMA LessIsWellFounded == IsWellFoundedOn({ss \in Nat \X Nat : ss[1] < ss[2]}, Nat)
BY NatLessThanWellFounded, Zenon DEF OpToRel

\* A set of natural numbers has a least element,
LEMMA Least ==
  ASSUME NEW S \in SUBSET Nat, S # {}
  PROVE  \E x \in S : \A y \in S : x <= y
<1>1. PICK x \in S : \A y \in S : ~ (<<y, x>> \in {ss \in Nat \X Nat : ss[1] < ss[2]})
  BY LessIsWellFounded, WFMin
<1>2. ASSUME NEW y \in S PROVE x <= y
  <2>1. <<y, x>> \notin {ss \in Nat \X Nat : ss[1] < ss[2]}
    BY <1>1
  <2>2. ~ (y < x)
    BY <2>1
  <2> QED BY <2>2
<1> QED BY <1>2

\* and one with a bound a greatest.
LEMMA Greatest ==
  ASSUME NEW b \in Nat, NEW S \in SUBSET Nat, S # {}, \A x \in S : x <= b
  PROVE  \E x \in S : \A y \in S : y <= x
<1> DEFINE U == {u \in Nat : \A x \in S : x <= u}
<1>1. U \in SUBSET Nat /\ b \in U
  OBVIOUS
<1>2. PICK u \in U : \A v \in U : u <= v
  <2> HIDE DEF U
  <2>1. U # {}
    BY <1>1
  <2> QED BY <1>1, <2>1, Least
<1>3. u \in Nat /\ \A x \in S : x <= u
  BY <1>2
<1>4. u \in S
  <2> SUFFICES ASSUME u \notin S PROVE FALSE
    OBVIOUS
  <2>1. \A x \in S : x <= u - 1
    BY <1>3
  <2>2. u - 1 \in Nat
    <3>1. PICK x : x \in S
      OBVIOUS
    <3>2. x \in Nat /\ x <= u - 1
      BY <2>1, <3>1
    <3> QED BY <1>3, <3>2
  <2>3. u <= u - 1
    BY <1>2, <2>1, <2>2
  <2> QED BY <1>3, <2>3
<1> QED BY <1>3, <1>4

-----------------------------------------------------------------------------
(* Terms and logs stay within their bounds *)

TermsBounded ==
  /\ \A n \in Server : currentTerm[n] <= MaxTerm
  /\ \A m \in InFlight : m.term <= MaxTerm
  /\ \A n, p \in Server : reply[n][p] # Nil => reply[n][p].term <= MaxTerm

\* A server's term is one it has seen, or the next one.
LEMMA StepTerm ==
  ASSUME TypeInv, [Next]_vars, NEW s \in Server
  PROVE  \/ currentTerm'[s] = currentTerm[s]
         \/ currentTerm[s] < MaxTerm /\ currentTerm'[s] = currentTerm[s] + 1
         \/ \E m \in InFlight : currentTerm'[s] = m.term
         \/ \E n, p \in Server : reply[n][p] # Nil /\ currentTerm'[s] = reply[n][p].term
<1>0. TypeOK /\ currentTerm \in [Server -> Nat]
  BY DEF TypeInv, TypeOK
<1> DEFINE Same == currentTerm'[s] = currentTerm[s]
           Told == \E m \in InFlight : currentTerm'[s] = m.term
           Answered == \E n, p \in Server : reply[n][p] # Nil /\ currentTerm'[s] = reply[n][p].term
<1>1. UNCHANGED currentTerm => Same
  OBVIOUS
<1>2. ASSUME NEW n \in Server, StartElection(n)
      PROVE  Same \/ (currentTerm[s] < MaxTerm /\ currentTerm'[s] = currentTerm[s] + 1)
  <2>1. currentTerm[n] < MaxTerm /\ currentTerm' = [currentTerm EXCEPT ![n] = currentTerm[n] + 1]
    BY <1>2 DEF StartElection
  <2> QED BY <1>0, <2>1
<1>3. ASSUME NEW n \in Server, FinishElection(n) PROVE Same \/ Answered
  <2>1. CASE DiscardVotes(n) \/ CountVotes(n)
    BY <1>1, <2>1 DEF DiscardVotes, CountVotes, serverVars
  <2>2. CASE VotesShowNewerTerm(n)
    <3>1. PICK p \in Peers(n) : /\ reply[n][p] # Nil
                                /\ currentTerm' = [currentTerm EXCEPT ![n] = reply[n][p].term]
      BY <2>2 DEF VotesShowNewerTerm
    <3>2. p \in Server
      BY DEF Peers
    <3> QED BY <1>0, <3>1, <3>2
  <2> QED BY <1>3, <2>1, <2>2 DEF FinishElection
<1>4. ASSUME NEW n \in Server, NEW p \in Peers(n), ReceiveAppendReply(n, p) PROVE Same \/ Answered
  <2>1. /\ reply[n][p] # Nil /\ p \in Server
        /\ currentTerm' = [currentTerm EXCEPT ![n] = TermSeen(n, reply[n][p].term)]
    BY <1>4 DEF ReceiveAppendReply, Peers
  <2> QED BY <1>0, <2>1 DEF TermSeen
<1>5. ASSUME NEW n \in Server, NEW m \in InFlight, Handle(n, m) PROVE Same \/ Told
  <2>1. \/ UNCHANGED currentTerm
        \/ currentTerm' = [currentTerm EXCEPT ![n] = TermSeen(n, m.term)]
    BY <1>5 DEF Handle, HandleRequestVote, HandleAppendEntries, RejectStaleLeader, RejectGap,
       RejectConflict, AcceptEntries, FollowLeader, serverVars
  <2> QED BY <1>0, <2>1 DEF TermSeen
<1>6. ASSUME NEW n \in Server, NEW p \in Peers(n), Receive(n, p) PROVE Same \/ Told
  BY <1>5, <1>6, Delivery
<1>7. ASSUME NEW m \in late, ReceiveLate(m) PROVE Same \/ Told
  BY <1>5, <1>7, Delivery
<1> QED BY <1>1, <1>2, <1>3, <1>4, <1>6, <1>7 DEF Next, vars, serverVars, StartReplication,
         FinishReplication, ClientAppend

\* So no step leaves the bound on terms.
LEMMA StepTermsBounded ==
  ASSUME TypeInv, [Next]_vars, TermsBounded
  PROVE  TermsBounded'
<1>0. /\ TypeOK /\ MaxTerm \in Nat /\ currentTerm \in [Server -> Nat]
  BY BoundsAssumption DEF TypeInv, TypeOK
<1>1. ASSUME NEW s \in Server PROVE currentTerm'[s] <= MaxTerm
  <2>1. currentTerm[s] \in Nat /\ currentTerm[s] <= MaxTerm
    BY <1>0 DEF TermsBounded
  <2>2. \/ currentTerm'[s] = currentTerm[s]
        \/ currentTerm[s] < MaxTerm /\ currentTerm'[s] = currentTerm[s] + 1
        \/ \E m \in InFlight : currentTerm'[s] = m.term
        \/ \E n, p \in Server : reply[n][p] # Nil /\ currentTerm'[s] = reply[n][p].term
    BY StepTerm
  <2> QED BY <1>0, <2>1, <2>2 DEF TermsBounded
<1>2. ASSUME NEW m \in InFlight' PROVE m.term <= MaxTerm
  <2>1. CASE m \in InFlight
    BY <2>1 DEF TermsBounded
  <2>2. CASE m \notin InFlight
    <3>1. PICK n \in Server : \E p \in Peers(n) :
            \/ StartElection(n) /\ m = AskVote(n, p, currentTerm[n] + 1)
            \/ StartReplication(n) /\ ~OutOfLog(n, p) /\ m = AskAppend(n, p)
      BY <2>2, StepFlight
    <3>2. currentTerm[n] \in Nat /\ currentTerm[n] <= MaxTerm
      BY <1>0 DEF TermsBounded
    <3>3. m.term = currentTerm[n] \/ (currentTerm[n] < MaxTerm /\ m.term = currentTerm[n] + 1)
      BY <3>1 DEF StartElection, AskVote, AskAppend
    <3> QED BY <1>0, <3>2, <3>3
  <2> QED BY <2>1, <2>2
<1>3. ASSUME NEW n \in Server, NEW p \in Server, reply'[n][p] # Nil PROVE reply'[n][p].term <= MaxTerm
  <2>1. CASE reply'[n][p] = reply[n][p]
    BY <1>3, <2>1 DEF TermsBounded
  <2>2. CASE p \in Peers(n) /\ Receive(n, p) /\ reply'[n][p] = Answer(p, request[n][p])
    <3>1. request[n][p] \in InFlight
      BY <2>2, Delivery
    <3>2. reply'[n][p].term = TermSeen(p, request[n][p].term)
      BY <2>2 DEF Answer
    <3> QED BY <3>1, <3>2 DEF TermsBounded, TermSeen
  <2> QED BY <1>3, <2>1, <2>2, StepReplies
<1> QED BY <1>1, <1>2, <1>3 DEF TermsBounded

InBounds(l) == Len(l) <= MaxLog /\ \A i \in 1..Len(l) : l[i].term \in 1..MaxTerm

\* The logs are within the bounds, those that leaders had when they stopped to lead too.
Bounded ==
  /\ TermsBounded
  /\ \E L \in Record, W \in Leaders :
       /\ LogInv(L, W)
       /\ W[0] = Nil
       /\ \A t \in Nat : InBounds(L[t])
       /\ \A n \in Server : InBounds(log[n])

\* A log within the bounds stays there.
LEMMA LogStaysBounded ==
  ASSUME TypeInv, [Next]_vars, TermsBounded, NEW L \in Record, NEW W \in Leaders, LogInv(L, W),
         W[0] = Nil, \A t \in Nat : InBounds(L[t]),
         NEW s \in Server, InBounds(log[s])
  PROVE  InBounds(log'[s])
<1>0. TypeOK /\ log[s] \in Seq(Entry) /\ Len(log[s]) \in Nat /\ MaxLog \in Nat /\ MaxTerm \in Nat
  BY BoundsAssumption DEF TypeInv, TypeOK
<1>1. ASSUME NEW c \in Command, ClientAppend(s, c) PROVE InBounds(log'[s])
  <2> DEFINE e == [term |-> currentTerm[s], command |-> c]
  <2>1. e \in Entry /\ log'[s] = Append(log[s], e) /\ state[s] = Leader /\ Len(log[s]) < MaxLog
    BY <1>0, <1>1 DEF ClientAppend, TypeOK, Entry
  <2>2. e.term \in 1..MaxTerm
    <3>1. currentTerm[s] \in Nat /\ currentTerm[s] <= MaxTerm
      BY <1>0 DEF TypeOK, TermsBounded
    <3>2. currentTerm[s] # 0
      BY <2>1, NilAssumption DEF LogInv, Winners
    <3> QED BY <1>0, <3>1, <3>2
  <2> HIDE DEF e
  <2>3. /\ Len(log'[s]) = Len(log[s]) + 1
        /\ \A i \in 1..Len(log[s]) : log'[s][i] = log[s][i]
        /\ log'[s][Len(log[s]) + 1] = e
    BY <1>0, <2>1
  <2> QED BY <1>0, <2>1, <2>2, <2>3 DEF InBounds
<1>2. ASSUME NEW m \in Appends, m.to = s, HandleAppendEntries(s, m) PROVE InBounds(log'[s])
  <2>1. /\ L[m.term] \in Seq(Entry) /\ Part(m, L[m.term]) /\ Coherent(log[s], L[m.term])
        /\ m \in AppendRequest /\ m.term \in Nat /\ log'[s] \in Seq(Entry)
    BY <1>2, HandledLog, HandleTerm
  <2>2. \/ log'[s] = log[s]
        \/ Agree(log'[s], L[m.term], Len(log'[s]))
        \/ \E k \in Nat : k <= Len(log[s]) /\ log'[s] = Prefix(log[s], k)
    BY <1>0, <1>2, <2>1, AppendEffect
  <2>3. ASSUME NEW w \in Seq(Entry), InBounds(w), Agree(log'[s], w, Len(log'[s]))
        PROVE  InBounds(log'[s])
    BY <1>0, <2>1, <2>3 DEF InBounds, Agree
  <2>4. ASSUME NEW k \in Nat, k <= Len(log[s]), log'[s] = Prefix(log[s], k)
        PROVE  Agree(log'[s], log[s], Len(log'[s]))
    BY <1>0, <2>4, PrefixIs DEF Agree
  <2>5. CASE log'[s] = log[s]
    BY <1>0, <2>5
  <2>6. CASE Agree(log'[s], L[m.term], Len(log'[s]))
    <3>1. InBounds(L[m.term])
      BY <1>0, <2>1
    <3> QED BY <2>1, <2>3, <2>6, <3>1
  <2>7. CASE \E k \in Nat : k <= Len(log[s]) /\ log'[s] = Prefix(log[s], k)
    <3>1. Agree(log'[s], log[s], Len(log'[s])) /\ InBounds(log[s]) /\ log[s] \in Seq(Entry)
      BY <1>0, <2>4, <2>7
    <3> QED BY <2>3, <3>1
  <2> QED BY <2>2, <2>5, <2>6, <2>7
<1> QED BY <1>1, <1>2, StepLog

\* No step leaves the bounds.
LEMMA StepBounded ==
  ASSUME TypeInv, ElectionInv, [Next]_vars, Bounded
  PROVE  Bounded'
<1>1. PICK L \in Record, W \in Leaders :
        /\ LogInv(L, W) /\ W[0] = Nil
        /\ \A t \in Nat : InBounds(L[t])
        /\ \A n \in Server : InBounds(log[n])
  BY DEF Bounded
<1>2. PICK L2 \in Record, W2 \in Leaders : NextRecord(L, W, L2, W2) /\ LogInv(L2, W2)'
  BY <1>1, StepRecord DEF Bounded
<1>3. \A n \in Server : InBounds(log'[n])
  BY <1>1, LogStaysBounded DEF Bounded
<1>4. \A t \in Nat : InBounds(L2[t])
  BY <1>1, <1>2, <1>3 DEF NextRecord
<1>5. W2[0] = Nil
  <2>1. ASSUME NEW n \in Server, Wins(n) PROVE currentTerm[n] # 0
    BY <2>1 DEF Wins, FinishElection, VotesAreStale
  <2>2. \A n \in Server : n # Nil
    BY NilAssumption
  <2>3. 0 \in Nat
    OBVIOUS
  <2> QED BY <1>1, <1>2, <2>1, <2>2, <2>3 DEF NextRecord
<1>6. TermsBounded'
  BY StepTermsBounded DEF Bounded
<1> QED BY <1>2, <1>3, <1>4, <1>5, <1>6 DEF Bounded, InBounds

\* The bounds hold throughout.
LEMMA BoundedInvariance == Spec => []Bounded
<1>1. ASSUME Init PROVE Bounded
  <2>1. PICK L, W : L = [t \in Nat |-> <<>>] /\ W = [t \in Nat |-> Nil]
    OBVIOUS
  <2>2. L \in Record /\ W \in Leaders /\ LogInv(L, W)
    BY <1>1, <2>1, InitLog
  <2>3. Len(<<>>) = 0 /\ MaxLog \in Nat /\ MaxTerm \in Nat
    BY EmptySeq, BoundsAssumption
  <2>4. InBounds(<<>>)
    BY <2>3 DEF InBounds
  <2>5. \A s \in Server : /\ log[s] = <<>> /\ currentTerm[s] = 0
                           /\ \A p \in Server : request[s][p] = Nil /\ reply[s][p] = Nil
    BY <1>1 DEF Init, NoCalls
  <2>6. TermsBounded
    BY <1>1, <2>3, <2>5 DEF TermsBounded, InFlight, Init
  <2> QED BY <2>1, <2>2, <2>4, <2>5, <2>6 DEF Bounded
<1>2. TypeInv /\ ElectionInv /\ Bounded /\ [Next]_vars => Bounded'
  BY StepBounded
<1> QED BY <1>1, <1>2, TypeInvariance, ElectionInvariance, PTL DEF Spec

-----------------------------------------------------------------------------
(* Raft implements ReplicatedLog *)

\* Logs of the same length that agree to their end are the same.
LEMMA SameLog ==
  ASSUME NEW l \in Seq(Entry), NEW w \in Seq(Entry), Len(l) = Len(w),
         \A i \in 1..Len(l) : l[i] = w[i]
  PROVE  l = w
BY SeqEqual

\* A log that another one begins with is continued by the rest of it.
LEMMA RestOf ==
  ASSUME NEW l \in Seq(Entry), NEW w \in Seq(Entry), Len(l) < Len(w),
         \A i \in 1..Len(l) : l[i] = w[i], InBounds(w)
  PROVE  \E k \in 1..MaxLog - Len(l) : \E batch \in [1..k -> [term : 1..MaxTerm, command : Command]] :
           Len(batch) = k /\ w = l \o batch
<1> DEFINE n == Len(l)
           k == Len(w) - Len(l)
           batch == [i \in 1..k |-> w[n + i]]
<1>1. n \in Nat /\ Len(w) \in Nat /\ k \in Nat /\ k >= 1 /\ n + k = Len(w) /\ MaxLog \in Nat
  BY BoundsAssumption
<1>2. k \in 1..MaxLog - Len(l)
  BY <1>1 DEF InBounds
<1>3. ASSUME NEW i \in 1..Len(w) PROVE w[i] \in [term : 1..MaxTerm, command : Command]
  <2>1. w[i] \in Entry
    BY <1>3, ElementOfSeq
  <2> QED BY <2>1 DEF InBounds, Entry
<1>4. batch \in [1..k -> [term : 1..MaxTerm, command : Command]]
  BY <1>1, <1>3
<1>5. batch \in Seq(Entry) /\ Len(batch) = k
  <2>1. \A i \in 1..k : batch[i] \in Entry
    BY <1>1, ElementOfSeq
  <2> QED BY <1>1, <2>1, IsASeq
<1> HIDE DEF batch
<1>6. /\ l \o batch \in Seq(Entry) /\ Len(l \o batch) = Len(w)
      /\ \A i \in 1..Len(w) : (l \o batch)[i] = IF i <= n THEN l[i] ELSE batch[i - n]
  <2>1. /\ l \o batch \in Seq(Entry) /\ Len(l \o batch) = Len(l) + Len(batch)
        /\ \A i \in 1..Len(l) + Len(batch) :
             (l \o batch)[i] = IF i <= Len(l) THEN l[i] ELSE batch[i - Len(l)]
    BY <1>5, ConcatProperties
  <2>2. Len(l) + Len(batch) = Len(w)
    BY <1>1, <1>5
  <2> QED BY <2>1, <2>2
<1>7. \A i \in 1..Len(w) : (l \o batch)[i] = w[i]
  <2> SUFFICES ASSUME NEW i \in 1..Len(w) PROVE (l \o batch)[i] = w[i]
    OBVIOUS
  <2>0. (l \o batch)[i] = IF i <= n THEN l[i] ELSE batch[i - n]
    BY <1>6
  <2>1. CASE i <= n
    <3>1. i \in 1..Len(l)
      BY <1>1, <2>1
    <3> QED BY <2>0, <2>1, <3>1
  <2>2. CASE i > n
    <3>1. PICK j \in 1..k : j = i - n /\ n + j = i
      BY <1>1, <2>2
    <3>2. batch[j] = w[n + j]
      BY DEF batch
    <3>3. (l \o batch)[i] = batch[j]
      BY <1>1, <2>0, <2>2, <3>1
    <3>4. w[n + j] = w[i]
      BY <3>1
    <3> QED BY <3>2, <3>3, <3>4
  <2>3. i \in Int /\ n \in Int
    BY <1>1
  <2>4. i <= n \/ i > n
    <3> HIDE DEF n
    <3> QED BY <2>3
  <2> QED BY <2>1, <2>2, <2>4
<1>8. w = l \o batch
  BY <1>6, <1>7, SameLog
<1> QED BY <1>2, <1>4, <1>5, <1>8

\* What servers know committed is that much of their logs, and one knows the most.
Known ==
  /\ \A n \in Server :
       /\ Committed(n) \in Seq(Entry)
       /\ commitIndex[n] \in Int /\ Len(Committed(n)) = commitIndex[n] + 1
       /\ Len(Committed(n)) <= Len(log[n])
       /\ \A i \in 1..Len(Committed(n)) : Committed(n)[i] = log[n][i]
  /\ \E n \in Server : /\ LongestCommitted = Committed(n)
                        /\ \A s \in Server : commitIndex[s] <= commitIndex[n]

\* One server knows the most, as the logs are bounded.
LEMMA MostCommitted ==
  ASSUME TypeOK, CommitsAgree, \A n \in Server : InBounds(log[n])
  PROVE  \E n \in Server : \A s \in Server : commitIndex[s] <= commitIndex[n]
<1> DEFINE S == {commitIndex[n] + 1 : n \in Server}
<1>1. ASSUME NEW n \in Server
      PROVE  /\ commitIndex[n] \in Int /\ commitIndex[n] >= -1
             /\ commitIndex[n] + 1 <= MaxLog
  <2>1. commitIndex[n] \in Index /\ log[n] \in Seq(Entry)
    BY DEF TypeOK
  <2>2. commitIndex[n] \in Int /\ commitIndex[n] >= -1
    BY <2>1, IndexIsInt
  <2>3. commitIndex[n] + 1 <= Len(log[n]) /\ Len(log[n]) <= MaxLog
    BY <2>2 DEF CommitsAgree, Agree, InBounds
  <2> QED BY <2>1, <2>2, <2>3, BoundsAssumption
<1>2. S \in SUBSET Nat /\ S # {} /\ \A x \in S : x <= MaxLog
  BY <1>1, ServerAssumption
<1>3. PICK x \in S : \A y \in S : y <= x
  <2> HIDE DEF S
  <2> QED BY <1>2, BoundsAssumption, Greatest
<1>4. PICK n \in Server : x = commitIndex[n] + 1
  BY <1>3
<1>5. ASSUME NEW s \in Server PROVE commitIndex[s] <= commitIndex[n]
  <2>1. commitIndex[s] + 1 <= commitIndex[n] + 1
    BY <1>3, <1>4
  <2> QED BY <1>1, <2>1
<1> QED BY <1>5

LEMMA WhatIsKnown ==
  ASSUME TypeOK, CommitsAgree, \A n \in Server : InBounds(log[n])
  PROVE  Known
<1>1. ASSUME NEW n \in Server
      PROVE  /\ Committed(n) \in Seq(Entry)
             /\ commitIndex[n] \in Int /\ Len(Committed(n)) = commitIndex[n] + 1
             /\ Len(Committed(n)) <= Len(log[n])
             /\ \A i \in 1..Len(Committed(n)) : Committed(n)[i] = log[n][i]
  <2> DEFINE c == commitIndex[n]
  <2>1. c \in Index /\ log[n] \in Seq(Entry)
    BY DEF TypeOK
  <2>2. c \in Int /\ c >= -1 /\ c + 1 <= Len(log[n])
    BY <2>1, IndexIsInt DEF CommitsAgree, Agree
  <2>3. c + 1 \in Nat /\ c < Len(log[n])
    BY <2>1, <2>2
  <2>4. Committed(n) = Prefix(log[n], c + 1)
    BY <2>3 DEF Committed
  <2> HIDE DEF c
  <2>5. /\ Committed(n) \in Seq(Entry) /\ Len(Committed(n)) = c + 1
        /\ \A i \in 1..c + 1 : Committed(n)[i] = log[n][i]
    BY <2>1, <2>2, <2>3, <2>4, PrefixIs
  <2> QED BY <2>2, <2>5 DEF c
<1>2. \E n \in Server : /\ LongestCommitted = Committed(n)
                         /\ \A s \in Server : commitIndex[s] <= commitIndex[n]
  BY MostCommitted DEF LongestCommitted
<1> QED BY <1>1, <1>2 DEF Known

\* It is so throughout.
LEMMA KnownInvariance == Spec => []Known
<1>1. TypeInv /\ CommitsAgree /\ Bounded => Known
  BY WhatIsKnown DEF TypeInv, Bounded
<1> QED BY <1>1, TypeInvariance, AgreementInvariance, BoundedInvariance, PTL

\* A step changes the commit index of one server only.
LEMMA OneCommits ==
  ASSUME TypeInv, [Next]_vars
  PROVE  \E n \in Server : \A q \in Server \ {n} : commitIndex'[q] = commitIndex[q]
<1>0. TypeOK /\ commitIndex \in [Server -> Index] /\ Server # {}
  BY ServerAssumption DEF TypeInv, TypeOK
<1> DEFINE Goal == \E n \in Server : \A q \in Server \ {n} : commitIndex'[q] = commitIndex[q]
<1>1. UNCHANGED commitIndex => Goal
  BY <1>0
<1>2. ASSUME NEW n \in Server, FinishReplication(n) PROVE Goal
  BY <1>0, <1>2 DEF FinishReplication, AdvanceCommitIndex
<1>3. ASSUME NEW n \in Server, NEW m, Handle(n, m) PROVE Goal
  BY <1>0, <1>3 DEF Handle, HandleRequestVote, HandleAppendEntries, RejectStaleLeader, RejectGap,
     RejectConflict, AcceptEntries, logVars
<1>4. ASSUME NEW n \in Server, NEW p \in Peers(n), Receive(n, p) PROVE Goal
  BY <1>3, <1>4, Delivery
<1>5. ASSUME NEW m \in late, ReceiveLate(m) PROVE Goal
  BY <1>3, <1>5, Delivery
<1> QED BY <1>1, <1>2, <1>4, <1>5 DEF Next, vars, logVars, StartElection, FinishElection,
         StartReplication, ClientAppend, ReceiveAppendReply

\* More is committed, or s learns of more that was.
CommitsMore ==
  /\ LongestCommitted \in Seq(Entry)
  /\ \E k \in 1..MaxLog - Len(LongestCommitted) :
       \E batch \in [1..k -> [term : 1..MaxTerm, command : Command]] :
          Len(batch) = k /\ LongestCommitted' = LongestCommitted \o batch
  /\ LongestCommitted' # LongestCommitted

LearnsMore(s) ==
  \E k \in Len(Committed(s)) + 1 .. Len(LongestCommitted) :
    Committed(s)' = SubSeq(LongestCommitted, 1, k)

\* What a step makes of the committed entries.
LEMMA StepKnown ==
  ASSUME CommitsAgree, CommitsAgree', Known, Known', CommitsKept,
         \A n \in Server : InBounds(log'[n]), \A n \in Server : log'[n] \in Seq(Entry),
         NEW s \in Server, \A q \in Server \ {s} : commitIndex'[q] = commitIndex[q]
  PROVE  /\ \A q \in Server \ {s} : Committed(q)' = Committed(q)
         /\ \/ LongestCommitted' = LongestCommitted /\ Committed(s)' = Committed(s)
            \/ /\ LongestCommitted' = LongestCommitted /\ LearnsMore(s)
               /\ Committed(s)' # Committed(s)
            \/ /\ CommitsMore /\ Committed(s)' = LongestCommitted'
               /\ Committed(s)' # Committed(s)
<1>1. PICK x \in Server : /\ LongestCommitted = Committed(x)
                          /\ \A q \in Server : commitIndex[q] <= commitIndex[x]
  BY DEF Known
<1>2. PICK y \in Server : /\ LongestCommitted' = Committed(y)'
                          /\ \A q \in Server : commitIndex'[q] <= commitIndex'[y]
  BY DEF Known
<1>3. PICK K, K2 : /\ K = [n \in Server |-> Committed(n)]
                   /\ K2 = [n \in Server |-> Committed(n)']
  OBVIOUS
<1>4. \A n \in Server : /\ K[n] = Committed(n) /\ K2[n] = Committed(n)'
                        /\ K[n] \in Seq(Entry) /\ K2[n] \in Seq(Entry)
                        /\ commitIndex[n] \in Int /\ commitIndex'[n] \in Int
                        /\ Len(K[n]) = commitIndex[n] + 1 /\ Len(K2[n]) = commitIndex'[n] + 1
                        /\ Len(K2[n]) <= Len(log'[n])
                        /\ Len(K[n]) \in Nat /\ Len(K2[n]) \in Nat
                        /\ \A i \in 1..Len(K[n]) : K[n][i] = log[n][i]
                        /\ \A i \in 1..Len(K2[n]) : K2[n][i] = log'[n][i]
  BY <1>3 DEF Known
<1>5. ASSUME NEW a \in Server, NEW b \in Server, commitIndex'[a] <= commitIndex'[b]
      PROVE  \A i \in 1..Len(K2[a]) : K2[a][i] = K2[b][i]
  <2>1. Agree(log'[a], log'[b], commitIndex'[a] + 1)
    BY <1>5 DEF CommitsAgree, Agree
  <2>2. Len(K2[a]) <= Len(K2[b])
    BY <1>4, <1>5
  <2> QED BY <1>4, <2>1, <2>2 DEF Agree
<1>6. ASSUME NEW a \in Server
      PROVE  \A i \in 1..Len(K[a]) : K[a][i] = K2[a][i]
  <2>1. Agree(log[a], log'[a], commitIndex[a] + 1) /\ commitIndex[a] <= commitIndex'[a]
    BY DEF CommitsKept
  <2>2. Len(K[a]) <= Len(K2[a])
    BY <1>4, <2>1
  <2> QED BY <1>4, <2>1, <2>2 DEF Agree
<1>7. ASSUME NEW a \in Server, commitIndex'[a] = commitIndex[a] PROVE K2[a] = K[a]
  <2>1. Len(K[a]) = Len(K2[a]) /\ K[a] \in Seq(Entry) /\ K2[a] \in Seq(Entry)
    BY <1>4, <1>7
  <2>2. \A i \in 1..Len(K[a]) : K[a][i] = K2[a][i]
    BY <1>6
  <2> QED BY <2>1, <2>2, SameLog
<1>8. ASSUME NEW a \in Server, NEW b \in Server, commitIndex'[a] = commitIndex'[b] PROVE K2[a] = K2[b]
  <2>1. Len(K2[a]) = Len(K2[b]) /\ K2[a] \in Seq(Entry) /\ K2[b] \in Seq(Entry)
        /\ commitIndex'[a] <= commitIndex'[b]
    BY <1>4, <1>8
  <2>2. \A i \in 1..Len(K2[a]) : K2[a][i] = K2[b][i]
    BY <1>5, <2>1
  <2> QED BY <2>1, <2>2, SameLog
<1>9. \A q \in Server \ {s} : K2[q] = K[q]
  BY <1>7
<1>10. commitIndex[s] <= commitIndex'[s]
  BY DEF CommitsKept
<1>11. CASE commitIndex'[s] <= commitIndex[x]
  <2>1. commitIndex'[x] = commitIndex[x]
    BY <1>1, <1>4, <1>10, <1>11
  <2>2. commitIndex'[y] = commitIndex'[x]
    <3>1. commitIndex'[x] <= commitIndex'[y] /\ commitIndex[y] <= commitIndex[x]
      BY <1>1, <1>2
    <3> QED BY <1>4, <1>11, <2>1, <3>1
  <2>3. K2[y] = K[x]
    BY <1>7, <1>8, <2>1, <2>2
  <2>4. CASE commitIndex'[s] = commitIndex[s]
    <3>1. K2[s] = K[s]
      BY <1>7, <2>4
    <3>2. LongestCommitted' = LongestCommitted /\ Committed(s)' = Committed(s)
      BY <1>1, <1>2, <1>4, <2>3, <3>1
    <3>3. \A q \in Server \ {s} : Committed(q)' = Committed(q)
      BY <1>4, <1>9
    <3> QED BY <3>2, <3>3
  <2>5. CASE commitIndex'[s] # commitIndex[s]
    <3>1. PICK k : k = Len(K2[s])
      OBVIOUS
    <3>2. k \in Len(K[s]) + 1 .. Len(K[x])
      <4>1. /\ k = commitIndex'[s] + 1 /\ Len(K[s]) = commitIndex[s] + 1
            /\ Len(K[x]) = commitIndex[x] + 1
            /\ commitIndex'[s] \in Int /\ commitIndex[s] \in Int /\ commitIndex[x] \in Int
        BY <1>4, <3>1
      <4> QED BY <1>10, <1>11, <2>5, <4>1
    <3>3. \A i \in 1..Len(K2[s]) : K2[s][i] = K2[x][i]
      BY <1>5, <1>11, <2>1
    <3>4. K2[x] = K[x]
      BY <1>7, <2>1
    <3>5. /\ SubSeq(K[x], 1, k) \in Seq(Entry) /\ Len(SubSeq(K[x], 1, k)) = k
          /\ \A i \in 1..k : SubSeq(K[x], 1, k)[i] = K[x][i]
      <4>1. k \in Nat /\ k <= Len(K[x]) /\ K[x] \in Seq(Entry)
        BY <1>4, <3>1, <3>2
      <4> QED BY <4>1, PrefixIs DEF Prefix
    <3>6. K2[s] = SubSeq(K[x], 1, k)
      BY <1>4, <3>1, <3>3, <3>4, <3>5, SameLog
    <3>7. LearnsMore(s)
      BY <1>1, <1>4, <3>2, <3>6 DEF LearnsMore
    <3>8. LongestCommitted' = LongestCommitted
      BY <1>1, <1>2, <1>4, <2>3
    <3>9. \A q \in Server \ {s} : Committed(q)' = Committed(q)
      BY <1>4, <1>9
    <3>10. Committed(s)' # Committed(s)
      <4>1. Len(K2[s]) # Len(K[s])
        BY <1>4, <3>1, <3>2
      <4> QED BY <1>4, <4>1
    <3> QED BY <3>7, <3>8, <3>9, <3>10
  <2> QED BY <2>4, <2>5
<1>12. CASE commitIndex'[s] > commitIndex[x]
  <2>1. y = s
    <3> SUFFICES ASSUME y # s PROVE FALSE
      OBVIOUS
    <3>1. commitIndex'[y] = commitIndex[y] /\ commitIndex[y] <= commitIndex[x]
          /\ commitIndex'[s] <= commitIndex'[y]
      BY <1>1, <1>2
    <3> QED BY <1>4, <1>12, <3>1
  <2>2. commitIndex'[x] <= commitIndex'[s]
    BY <1>2, <2>1
  <2>3. Len(K[x]) < Len(K2[s])
    BY <1>4, <1>12
  <2>4. \A i \in 1..Len(K[x]) : K[x][i] = K2[s][i]
    <3>1. \A i \in 1..Len(K[x]) : K[x][i] = K2[x][i]
      BY <1>6
    <3>2. \A i \in 1..Len(K2[x]) : K2[x][i] = K2[s][i]
      BY <1>5, <2>2
    <3>3. Len(K[x]) <= Len(K2[x])
      <4>1. commitIndex[x] <= commitIndex'[x]
        BY DEF CommitsKept
      <4> QED BY <1>4, <4>1
    <3> QED BY <1>4, <3>1, <3>2, <3>3
  <2>5. InBounds(K2[s])
    <3>1. /\ InBounds(log'[s]) /\ Len(K2[s]) <= Len(log'[s]) /\ Len(log'[s]) \in Nat
          /\ \A i \in 1..Len(K2[s]) : K2[s][i] = log'[s][i]
      BY <1>4
    <3>2. Len(K2[s]) \in Nat /\ MaxLog \in Nat
      BY <1>4, BoundsAssumption
    <3>3. PICK l, w : l = K2[s] /\ w = log'[s]
      OBVIOUS
    <3>4. InBounds(l)
      BY <3>1, <3>2, <3>3 DEF InBounds
    <3> QED BY <3>3, <3>4
  <2>6. \E k \in 1..MaxLog - Len(K[x]) : \E batch \in [1..k -> [term : 1..MaxTerm, command : Command]] :
          Len(batch) = k /\ K2[s] = K[x] \o batch
    BY <1>4, <2>3, <2>4, <2>5, RestOf
  <2>7. K2[s] # K[x]
    BY <1>4, <2>3
  <2>8. LongestCommitted = K[x] /\ LongestCommitted' = K2[s] /\ Committed(s)' = K2[s]
        /\ K[x] \in Seq(Entry)
    BY <1>1, <1>2, <1>4, <2>1
  <2>9. \A q \in Server \ {s} : Committed(q)' = Committed(q)
    BY <1>4, <1>9
  <2>10. CommitsMore
    BY <2>6, <2>7, <2>8 DEF CommitsMore
  <2>11. Committed(s)' = LongestCommitted'
    BY <2>8
  <2>12. Committed(s)' # Committed(s)
    <3>1. commitIndex[s] <= commitIndex[x] /\ commitIndex'[s] > commitIndex[x]
      BY <1>1, <1>12
    <3>2. Len(K2[s]) # Len(K[s])
      BY <1>4, <3>1
    <3> QED BY <1>4, <3>2
  <2> QED BY <2>9, <2>10, <2>11, <2>12
<1> QED BY <1>4, <1>11, <1>12

\* Steps of Raft are steps of ReplicatedLog.
LEMMA StepImplements ==
  ASSUME TypeInv, CommitHist, Bounded, CommitsAgree, Known,
         TypeInv', Bounded', CommitsAgree', Known', [Next]_vars
  PROVE  [RL!RLNext]_(RL!rlVars)
<1>1. PICK s \in Server : \A q \in Server \ {s} : commitIndex'[q] = commitIndex[q]
  BY OneCommits
<1>2. /\ \A n \in Server : InBounds(log'[n])
      /\ \A n \in Server : log'[n] \in Seq(Entry)
  BY DEF Bounded, InBounds, TypeInv, TypeOK
<1>3. CommitsKept
  BY StepKeepsCommits
<1>4. /\ \A q \in Server \ {s} : Committed(q)' = Committed(q)
      /\ \/ LongestCommitted' = LongestCommitted /\ Committed(s)' = Committed(s)
         \/ /\ LongestCommitted' = LongestCommitted /\ LearnsMore(s)
            /\ Committed(s)' # Committed(s)
         \/ /\ CommitsMore /\ Committed(s)' = LongestCommitted'
            /\ Committed(s)' # Committed(s)
  BY <1>1, <1>2, <1>3, StepKnown
<1>5. CASE LongestCommitted' = LongestCommitted /\ Committed(s)' = Committed(s)
  <2>1. [n \in Server |-> Committed(n)]' = [n \in Server |-> Committed(n)]
    BY <1>4, <1>5
  <2> QED BY <1>5, <2>1 DEF RL!rlVars
<1>6. CASE LongestCommitted' = LongestCommitted /\ LearnsMore(s) /\ Committed(s)' # Committed(s)
  <2>1. PICK k \in Len(Committed(s)) + 1 .. Len(LongestCommitted) :
          Committed(s)' = SubSeq(LongestCommitted, 1, k)
    BY <1>6 DEF LearnsMore
  <2>2. [n \in Server |-> Committed(n)]' =
          [[n \in Server |-> Committed(n)] EXCEPT ![s] = SubSeq(LongestCommitted, 1, k)]
    BY <1>4, <2>1
  <2>3. RL!Learn(s)
    BY <1>6, <2>1, <2>2 DEF RL!Learn
  <2>4. [n \in Server |-> Committed(n)]' # [n \in Server |-> Committed(n)]
    <3>1. [n \in Server |-> Committed(n)]'[s] # [n \in Server |-> Committed(n)][s]
      BY <1>6
    <3> QED BY <3>1
  <2> QED BY <2>3, <2>4 DEF RL!RLNext
<1>7. CASE CommitsMore /\ Committed(s)' = LongestCommitted' /\ Committed(s)' # Committed(s)
  <2>1. [n \in Server |-> Committed(n)]' =
          [[n \in Server |-> Committed(n)] EXCEPT ![s] = LongestCommitted']
    <3>1. /\ \A q \in Server \ {s} : Committed(q)' = Committed(q)
          /\ Committed(s)' = LongestCommitted'
      BY <1>4, <1>7
    <3> QED BY <3>1
  <2>2. \E batch \in RL!Batches(MaxLog - Len(LongestCommitted)) :
          LongestCommitted' = LongestCommitted \o batch
    BY <1>7 DEF CommitsMore, RL!Batches
  <2>3. RL!Commit(s)
    BY <1>7, <2>1, <2>2 DEF RL!Commit, CommitsMore
  <2>4. [n \in Server |-> Committed(n)]' # [n \in Server |-> Committed(n)]
    <3>1. [n \in Server |-> Committed(n)]'[s] # [n \in Server |-> Committed(n)][s]
      BY <1>7
    <3> QED BY <3>1
  <2> QED BY <2>3, <2>4 DEF RL!RLNext
<1> QED BY <1>4, <1>5, <1>6, <1>7

\* Nothing is committed in the beginning.
LEMMA InitImplements ==
  ASSUME Init, Known
  PROVE  RL!RLInit
<1>1. \A n \in Server : Committed(n) = <<>>
  BY EmptySeq DEF Init, Known
<1>2. LongestCommitted = <<>>
  BY <1>1 DEF Known
<1> QED BY <1>1, <1>2 DEF RL!RLInit

\* Raft implements ReplicatedLog: a committed entry is never lost, replaced or
\* reordered on any server, and what a new leader commits comes after everything
\* committed before (_advance_commit_index, handle_append_entries).
THEOREM RaftImplementsLog == Spec => ImplementsReplicatedLog
<1>1. Init /\ Known => RL!RLInit
  BY InitImplements
<1>2. TypeInv /\ CommitHist /\ Bounded /\ CommitsAgree /\ Known
        /\ TypeInv' /\ Bounded' /\ CommitsAgree' /\ Known' /\ [Next]_vars
        => [RL!RLNext]_(RL!rlVars)
  BY StepImplements
<1> QED BY <1>1, <1>2, TypeInvariance, CommitInvariance, BoundedInvariance, AgreementInvariance,
          KnownInvariance, PTL DEF Spec, ImplementsReplicatedLog, RL!RLSpec


-----------------------------------------------------------------------------
(* The users' side: futures, answers and the apply loop *)

ServiceType ==
  /\ pending \in [Server -> [Indices -> Entry \cup {Nil}]]
  /\ applyEvent \in [Server -> BOOLEAN]
  /\ lastApplied \in [Server -> Index]
  /\ applied \in [Server -> Seq([index : Nat, entry : Entry])]

\* The loop is woken only when there is news, and hands out entries it has.
AppliedInv ==
  \A n \in Server :
    /\ lastApplied[n] <= commitIndex[n]
    /\ applyEvent[n] => lastApplied[n] < commitIndex[n]
    /\ \A k \in 1..Len(applied[n]) :
         /\ applied[n][k].index <= lastApplied[n]
         /\ applied[n][k].entry = At(log[n], applied[n][k].index)

\* The future a leader keeps for an entry of its own term is that entry's.
PendingInv ==
  \A n \in Server : \A i \in Indices :
    state[n] = Leader /\ i < Len(log[n]) /\ At(log[n], i).term = currentTerm[n]
      => pending[n][i] \in {Nil, At(log[n], i)}

\* A client was told of an entry that its server knows to be committed.
AnswersInv ==
  \A a \in answers :
    /\ a.server \in Server /\ a.index \in Nat
    /\ a.index <= commitIndex[a.server]
    /\ a.entry = At(log[a.server], a.index)

ServiceInv == ServiceType /\ AppliedInv /\ PendingInv /\ AnswersInv

\* A step of the service is a step of Raft or leaves it alone.
LEMMA ServiceIsRaft == [ServiceNext]_allVars => [Next]_vars
BY DEF ServiceNext, allVars, Replicated, Apply, TimeOut, Submit, Next

\* So all that holds of Raft holds of the service.
LEMMA ServiceHasRaft == ServiceSpec => Spec
<1>1. ServiceInit => Init
  BY DEF ServiceInit
<1> QED BY <1>1, ServiceIsRaft, PTL DEF ServiceSpec, Spec

\* The steps, as far as the service's own variables can tell them apart.
Delivered(m) == m \in InFlight /\ m.to \in Server /\ Handle(m.to, m) /\ Notify(m.to, m)

LEMMA ServiceStep ==
  ASSUME TypeInv, [ServiceNext]_allVars
  PROVE  \/ UNCHANGED serviceVars /\ UNCHANGED logVars
         \/ \E n \in Server : Replicated(n)
         \/ \E n \in Server : Apply(n)
         \/ \E n \in Server : TimeOut(n)
         \/ \E n \in Server : \E c \in Command : Submit(n, c)
         \/ \E m : Delivered(m)
<1>1. ASSUME NEW n \in Server, NEW p \in Peers(n), Receive(n, p), Notify(p, request[n][p])
      PROVE  Delivered(request[n][p])
  BY <1>1, Delivery DEF Delivered
<1>2. ASSUME NEW m \in late, ReceiveLate(m), Notify(m.to, m) PROVE Delivered(m)
  BY <1>2, Delivery DEF Delivered
<1> QED BY <1>1, <1>2 DEF ServiceNext, allVars, vars, logVars, StartElection, FinishElection,
         StartReplication, ReceiveAppendReply


\* What is known of Raft in each of its states.
RaftInv == TypeInv /\ ElectionInv /\ CommitHist /\ Bounded /\ CommitsAgree /\ Known

LEMMA RaftInvariance == Spec => []RaftInv
BY TypeInvariance, ElectionInvariance, CommitInvariance, BoundedInvariance, AgreementInvariance,
   KnownInvariance, PTL DEF RaftInv

\* Commit indices lie within the logs, logs within the bounds.
LEMMA IndexInLog ==
  ASSUME RaftInv, NEW n \in Server
  PROVE  /\ log[n] \in Seq(Entry) /\ Len(log[n]) \in Nat /\ Len(log[n]) <= MaxLog
         /\ commitIndex[n] \in Int /\ commitIndex[n] >= -1 /\ commitIndex[n] < Len(log[n])
<1>1. log[n] \in Seq(Entry) /\ commitIndex[n] \in Index
  BY DEF RaftInv, TypeInv, TypeOK
<1>2. InBounds(log[n])
  BY DEF RaftInv, Bounded
<1>3. commitIndex[n] \in Int /\ commitIndex[n] >= -1
  BY <1>1, IndexIsInt
<1>4. commitIndex[n] + 1 <= Len(log[n])
  BY <1>3 DEF RaftInv, CommitsAgree, Agree
<1> QED BY <1>1, <1>2, <1>3, <1>4 DEF InBounds

\* What a server knows to be committed stays at its place in the log.
LEMMA EntryStays ==
  ASSUME RaftInv, CommitsKept, NEW n \in Server, NEW i \in Nat, i <= commitIndex[n]
  PROVE  At(log'[n], i) = At(log[n], i)
<1>1. commitIndex[n] \in Int
  BY IndexInLog
<1>2. i + 1 \in 1..commitIndex[n] + 1
  BY <1>1
<1> QED BY <1>2 DEF CommitsKept, Agree, At

\* The loop wakes to news: the callback gets what stands at the commit index.
LEMMA ApplyHands ==
  ASSUME RaftInv, ServiceType, AppliedInv, NEW n \in Server, Apply(n)
  PROVE  /\ commitIndex[n] \in Nat /\ commitIndex[n] < Len(log[n])
         /\ lastApplied[n] < commitIndex[n]
         /\ At(log[n], commitIndex[n]) \in Entry
         /\ lastApplied' = [lastApplied EXCEPT ![n] = commitIndex[n]]
         /\ applied' = [applied EXCEPT ![n] =
              Append(@, [index |-> commitIndex[n], entry |-> At(log[n], commitIndex[n])])]
<1>1. lastApplied[n] < commitIndex[n]
  BY DEF Apply, AppliedInv
<1>2. lastApplied[n] \in Int /\ lastApplied[n] >= -1
  BY IndexIsInt DEF ServiceType
<1>3. commitIndex[n] \in Nat /\ commitIndex[n] < Len(log[n])
  BY <1>1, <1>2, IndexInLog
<1>4. At(log[n], commitIndex[n]) \in Entry
  <2>1. log[n] \in Seq(Entry) /\ commitIndex[n] + 1 \in 1..Len(log[n])
    BY <1>3, IndexInLog
  <2> QED BY <2>1 DEF At
<1> QED BY <1>1, <1>3, <1>4 DEF Apply

\* A leader's command goes to the end of its log.
LEMMA SubmitAppends ==
  ASSUME RaftInv, NEW n \in Server, NEW c \in Command, Submit(n, c)
  PROVE  LET e == [term |-> currentTerm[n], command |-> c]
             i == Len(log[n])
         IN /\ e \in Entry /\ i \in Indices /\ At(log'[n], i) = e
            /\ log' = [log EXCEPT ![n] = Append(@, e)]
            /\ Len(log'[n]) = i + 1
            /\ \A j \in 0..i - 1 : At(log'[n], j) = At(log[n], j)
            /\ pending' = [pending EXCEPT ![n][i] = e]
            /\ UNCHANGED <<commitIndex, currentTerm, state>>
<1> DEFINE e == [term |-> currentTerm[n], command |-> c]
           i == Len(log[n])
<1>0. log \in [Server -> Seq(Entry)] /\ currentTerm[n] \in Nat /\ i \in Nat /\ MaxLog \in Nat
  BY BoundsAssumption DEF RaftInv, TypeInv, TypeOK
<1>1. /\ log' = [log EXCEPT ![n] = Append(@, e)] /\ i < MaxLog
      /\ UNCHANGED <<commitIndex, currentTerm, state>>
  BY DEF Submit, ClientAppend, serverVars
<1>2. e \in Entry /\ i \in Indices
  BY <1>0, <1>1 DEF Entry, Indices
<1>3. pending' = [pending EXCEPT ![n][i] = At(log'[n], i)]
  BY DEF Submit
<1> HIDE DEF e
<1>4. log'[n] = Append(log[n], e)
  BY <1>0, <1>1
<1>5. /\ Len(log'[n]) = i + 1 /\ log'[n][i + 1] = e
      /\ \A j \in 1..i : log'[n][j] = log[n][j]
  BY <1>0, <1>2, <1>4
<1>6. \A j \in 0..i - 1 : At(log'[n], j) = At(log[n], j)
  BY <1>0, <1>5 DEF At
<1> QED BY <1>1, <1>2, <1>3, <1>5, <1>6 DEF At, e

\* The service's variables keep their types.
LEMMA StepServiceType ==
  ASSUME RaftInv, ServiceType, AppliedInv, [ServiceNext]_allVars
  PROVE  ServiceType'
<1>1. CASE UNCHANGED serviceVars
  BY <1>1 DEF ServiceType, serviceVars
<1>2. ASSUME NEW n \in Server, Replicated(n) PROVE ServiceType'
  <2>1. UNCHANGED <<lastApplied, applied>> /\ Commit(n)
    BY <1>2 DEF Replicated
  <2>2. PICK i : i = commitIndex'[n]
    OBVIOUS
  <2>3. applyEvent' \in [Server -> BOOLEAN]
    <3>1. applyEvent' = applyEvent \/ applyEvent' = [applyEvent EXCEPT ![n] = TRUE]
      BY <2>1 DEF Commit
    <3> QED BY <3>1 DEF ServiceType
  <2>4. pending' \in [Server -> [Indices -> Entry \cup {Nil}]]
    <3>1. pending' = pending \/ pending' = [pending EXCEPT ![n][i] = Nil]
      BY <2>1, <2>2 DEF Commit
    <3>2. pending \in [Server -> [Indices -> Entry \cup {Nil}]]
      BY DEF ServiceType
    <3>3. [pending[n] EXCEPT ![i] = Nil] \in [Indices -> Entry \cup {Nil}]
      BY <3>2
    <3> QED BY <3>1, <3>2, <3>3
  <2> QED BY <2>1, <2>3, <2>4 DEF ServiceType
<1>3. ASSUME NEW n \in Server, Apply(n) PROVE ServiceType'
  <2> DEFINE r == [index |-> commitIndex[n], entry |-> At(log[n], commitIndex[n])]
             R == [index : Nat, entry : Entry]
  <2>1. /\ r \in R /\ applied' = [applied EXCEPT ![n] = Append(@, r)]
        /\ lastApplied' = [lastApplied EXCEPT ![n] = commitIndex[n]]
        /\ commitIndex[n] \in Index
    BY <1>3, ApplyHands DEF Index
  <2> HIDE DEF r
  <2>2. applied' \in [Server -> Seq(R)]
    <3>1. applied \in [Server -> Seq(R)]
      BY DEF ServiceType
    <3> HIDE DEF R
    <3>2. Append(applied[n], r) \in Seq(R)
      BY <2>1, <3>1
    <3> QED BY <2>1, <3>1, <3>2
  <2>3. applyEvent' = [applyEvent EXCEPT ![n] = FALSE] /\ pending' = pending
    BY <1>3 DEF Apply
  <2>4. applyEvent' \in [Server -> BOOLEAN]
    BY <2>3 DEF ServiceType
  <2>5. lastApplied' \in [Server -> Index]
    BY <2>1 DEF ServiceType
  <2> QED BY <2>2, <2>3, <2>4, <2>5 DEF ServiceType
<1>4. ASSUME NEW n \in Server, TimeOut(n) PROVE ServiceType'
  <2>1. PICK i \in Indices : pending' = [pending EXCEPT ![n][i] = Nil]
    BY <1>4 DEF TimeOut
  <2> QED BY <1>4, <2>1 DEF ServiceType, TimeOut
<1>5. ASSUME NEW n \in Server, NEW c \in Command, Submit(n, c) PROVE ServiceType'
  <2>1. PICK i, e : i = Len(log[n]) /\ e = [term |-> currentTerm[n], command |-> c]
    OBVIOUS
  <2>2. e \in Entry /\ pending' = [pending EXCEPT ![n][i] = e]
    BY <1>5, <2>1, SubmitAppends
  <2>3. pending' \in [Server -> [Indices -> Entry \cup {Nil}]]
    <3>1. pending \in [Server -> [Indices -> Entry \cup {Nil}]]
      BY DEF ServiceType
    <3>2. [pending[n] EXCEPT ![i] = e] \in [Indices -> Entry \cup {Nil}]
      BY <2>2, <3>1
    <3> QED BY <2>2, <3>1, <3>2
  <2>4. UNCHANGED <<applyEvent, lastApplied, applied>>
    BY <1>5 DEF Submit
  <2> QED BY <2>3, <2>4 DEF ServiceType
<1>6. ASSUME NEW m, Delivered(m) PROVE ServiceType'
  <2>1. UNCHANGED <<pending, lastApplied, applied>>
    BY <1>6 DEF Delivered, Notify
  <2>2. PICK b \in BOOLEAN : applyEvent' = [applyEvent EXCEPT ![m.to] = b]
    BY <1>6, Zenon DEF Delivered, Notify
  <2>3. applyEvent' \in [Server -> BOOLEAN]
    BY <2>2 DEF ServiceType
  <2> QED BY <2>1, <2>3 DEF ServiceType
<1> QED BY <1>1, <1>2, <1>3, <1>4, <1>5, <1>6, ServiceStep DEF RaftInv


\* A follower that is told of news knows it.
LEMMA ToldOfNews ==
  ASSUME RaftInv, NEW m, Delivered(m), NEW n \in Server, applyEvent'[n],
         applyEvent \in [Server -> BOOLEAN]
  PROVE  applyEvent[n] \/ commitIndex[n] < commitIndex'[n]
<1> SUFFICES ASSUME ~applyEvent[n] PROVE commitIndex[n] < commitIndex'[n]
  OBVIOUS
<1>1. m \in InFlight /\ m.to \in Server /\ Handle(m.to, m) /\ Notify(m.to, m)
  BY DEF Delivered
<1>2. n = m.to /\ m.type = "append" /\ Accepts(n, m) /\ m.commit > commitIndex[n]
  <2>1. n = m.to
    BY <1>1 DEF Notify
  <2> QED BY <1>1, <2>1 DEF Notify
<1>3. m \in Appends /\ AcceptEntries(n, m)
  BY <1>1, <1>2 DEF Appends, Handle, HandleAppendEntries, RejectStaleLeader, RejectGap, RejectConflict,
     Accepts
<1>4. PICK L \in Record, W \in Leaders, V \in Views : LogInv(L, W) /\ CommitInv(L, V)
  BY DEF RaftInv, CommitHist
<1>5. TypeInv
  BY DEF RaftInv
<1>6. commitIndex'[n] = m.commit
  BY <1>2, <1>3, <1>4, <1>5, ToldCommit
<1> QED BY <1>2, <1>6

\* The apply loop stays behind the commit index.
LEMMA StepApplied ==
  ASSUME RaftInv, RaftInv', CommitsKept, ServiceType, ServiceType', AppliedInv, [ServiceNext]_allVars
  PROVE  AppliedInv'
<1> SUFFICES ASSUME NEW n \in Server
             PROVE  /\ lastApplied'[n] <= commitIndex'[n]
                    /\ applyEvent'[n] => lastApplied'[n] < commitIndex'[n]
                    /\ \A k \in 1..Len(applied'[n]) :
                         /\ applied'[n][k].index <= lastApplied'[n]
                         /\ applied'[n][k].entry = At(log'[n], applied'[n][k].index)
  BY DEF AppliedInv
<1>1. /\ commitIndex[n] \in Int /\ commitIndex'[n] \in Int /\ commitIndex[n] <= commitIndex'[n]
      /\ lastApplied[n] \in Int /\ lastApplied[n] <= commitIndex[n]
      /\ applyEvent[n] => lastApplied[n] < commitIndex[n]
      /\ applied[n] \in Seq([index : Nat, entry : Entry])
  <2>1. commitIndex[n] \in Int /\ commitIndex[n] <= commitIndex'[n]
    BY IndexInLog DEF CommitsKept
  <2>2. commitIndex'[n] \in Index
    BY DEF RaftInv, TypeInv, TypeOK
  <2> QED BY <2>1, <2>2, IndexIsInt DEF ServiceType, AppliedInv
<1>2. ASSUME NEW k \in 1..Len(applied[n])
      PROVE  /\ applied[n][k].index <= lastApplied[n] /\ applied[n][k].index \in Nat
             /\ applied[n][k].entry = At(log'[n], applied[n][k].index)
  <2>1. applied[n][k] \in [index : Nat, entry : Entry]
    BY <1>1, ElementOfSeq
  <2>2. /\ applied[n][k].index \in Nat /\ applied[n][k].index <= lastApplied[n]
        /\ applied[n][k].entry = At(log[n], applied[n][k].index)
    BY <2>1 DEF AppliedInv
  <2>3. applied[n][k].index <= commitIndex[n]
    BY <1>1, <2>2
  <2> QED BY <2>2, <2>3, EntryStays
<1>3. ASSUME lastApplied'[n] = lastApplied[n], applied'[n] = applied[n],
             applyEvent'[n] => applyEvent[n] \/ commitIndex[n] < commitIndex'[n]
      PROVE  /\ lastApplied'[n] <= commitIndex'[n]
             /\ applyEvent'[n] => lastApplied'[n] < commitIndex'[n]
             /\ \A k \in 1..Len(applied'[n]) :
                  /\ applied'[n][k].index <= lastApplied'[n]
                  /\ applied'[n][k].entry = At(log'[n], applied'[n][k].index)
  BY <1>1, <1>2, <1>3
<1>4. CASE UNCHANGED serviceVars
  BY <1>3, <1>4 DEF serviceVars
<1>5. ASSUME NEW p \in Server, Replicated(p)
      PROVE  /\ UNCHANGED <<lastApplied, applied>>
             /\ applyEvent'[n] => applyEvent[n] \/ commitIndex[n] < commitIndex'[n]
  <2>1. UNCHANGED <<lastApplied, applied>> /\ Commit(p)
    BY <1>5 DEF Replicated
  <2>2. \/ applyEvent' = applyEvent
        \/ commitIndex'[p] # commitIndex[p] /\ applyEvent' = [applyEvent EXCEPT ![p] = TRUE]
    BY <2>1 DEF Commit
  <2>3. CASE n = p
    BY <1>1, <2>1, <2>2, <2>3
  <2>4. CASE n # p
    <3>1. applyEvent'[n] = applyEvent[n]
      BY <2>2, <2>4 DEF ServiceType
    <3> QED BY <2>1, <3>1
  <2> QED BY <2>3, <2>4
<1>6. ASSUME NEW p \in Server, Apply(p)
      PROVE  /\ lastApplied'[n] <= commitIndex'[n]
             /\ applyEvent'[n] => lastApplied'[n] < commitIndex'[n]
             /\ \A k \in 1..Len(applied'[n]) :
                  /\ applied'[n][k].index <= lastApplied'[n]
                  /\ applied'[n][k].entry = At(log'[n], applied'[n][k].index)
  <2>1. PICK r : r = [index |-> commitIndex[p], entry |-> At(log[p], commitIndex[p])]
    OBVIOUS
  <2>2. /\ commitIndex[p] \in Nat /\ lastApplied[p] < commitIndex[p]
        /\ r.index = commitIndex[p] /\ r.entry = At(log[p], commitIndex[p])
        /\ r \in [index : Nat, entry : Entry]
        /\ lastApplied' = [lastApplied EXCEPT ![p] = commitIndex[p]]
        /\ applied' = [applied EXCEPT ![p] = Append(applied[p], r)]
    BY <1>6, <2>1, ApplyHands
  <2>3. log' = log /\ commitIndex' = commitIndex /\ applyEvent' = [applyEvent EXCEPT ![p] = FALSE]
    BY <1>6 DEF Apply, vars, logVars
  <2>4. CASE n # p
    <3>1. lastApplied'[n] = lastApplied[n] /\ applied'[n] = applied[n]
      BY <2>2, <2>4 DEF ServiceType
    <3>2. applyEvent'[n] = applyEvent[n]
      BY <2>3, <2>4 DEF ServiceType
    <3> QED BY <1>3, <3>1, <3>2
  <2>5. CASE n = p
    <3>1. lastApplied'[n] = commitIndex[n]
      BY <2>2, <2>5 DEF ServiceType
    <3>2. applyEvent'[n] = FALSE
      BY <2>3, <2>5 DEF ServiceType
    <3>3. applied'[n] = Append(applied[n], r)
      BY <2>2, <2>5 DEF ServiceType
    <3>4. ASSUME NEW k \in 1..Len(applied'[n])
          PROVE  /\ applied'[n][k].index <= lastApplied'[n]
                 /\ applied'[n][k].entry = At(log'[n], applied'[n][k].index)
      <4>1. \/ k \in 1..Len(applied[n]) /\ applied'[n][k] = applied[n][k]
            \/ applied'[n][k] = r
        BY <1>1, <2>2, <3>3
      <4>2. CASE k \in 1..Len(applied[n]) /\ applied'[n][k] = applied[n][k]
        <5>1. /\ applied[n][k].index <= lastApplied[n] /\ applied[n][k].index \in Nat
              /\ applied[n][k].entry = At(log'[n], applied[n][k].index)
          BY <1>2, <4>2
        <5>2. applied[n][k].index <= commitIndex[n]
          BY <1>1, <5>1
        <5> QED BY <3>1, <4>2, <5>1, <5>2
      <4>3. CASE applied'[n][k] = r
        BY <1>1, <2>2, <2>3, <2>5, <3>1, <4>3
      <4> QED BY <4>1, <4>2, <4>3
    <3> QED BY <1>1, <2>3, <3>1, <3>2, <3>4
  <2> QED BY <2>4, <2>5
<1>7. ASSUME NEW p \in Server, TimeOut(p)
      PROVE  UNCHANGED <<applyEvent, lastApplied, applied>>
  BY <1>7 DEF TimeOut
<1>8. ASSUME NEW p \in Server, NEW c \in Command, Submit(p, c)
      PROVE  UNCHANGED <<applyEvent, lastApplied, applied>>
  BY <1>8 DEF Submit
<1>9. ASSUME NEW m, Delivered(m)
      PROVE  /\ UNCHANGED <<lastApplied, applied>>
             /\ applyEvent'[n] => applyEvent[n] \/ commitIndex[n] < commitIndex'[n]
  <2>1. UNCHANGED <<lastApplied, applied>>
    BY <1>9 DEF Delivered, Notify
  <2>2. applyEvent \in [Server -> BOOLEAN]
    BY DEF ServiceType
  <2>3. applyEvent'[n] => applyEvent[n] \/ commitIndex[n] < commitIndex'[n]
    BY <1>9, <2>2, ToldOfNews
  <2> QED BY <2>1, <2>3
<1> QED BY <1>3, <1>4, <1>5, <1>6, <1>7, <1>8, <1>9, ServiceStep DEF RaftInv


\* A server that wins has no entry of its term yet.
LEMMA WinnerHasNoEntry ==
  ASSUME RaftInv, NEW n \in Server, Wins(n), NEW i \in Nat, i < Len(log[n])
  PROVE  At(log[n], i).term # currentTerm[n]
<1> SUFFICES ASSUME At(log[n], i).term = currentTerm[n] PROVE FALSE
  OBVIOUS
<1>1. PICK L \in Record, W \in Leaders : LogInv(L, W)
  BY DEF RaftInv, Bounded
<1>2. W[currentTerm[n]] = Nil
  BY <1>1, WinIsNew DEF RaftInv, LogInv
<1>3. currentTerm[n] \in Nat /\ L[currentTerm[n]] = <<>>
  BY <1>1, <1>2 DEF RaftInv, TypeInv, TypeOK, LogInv, LeaderLogs
<1>4. i + 1 \in 1..Len(log[n])
  BY IndexInLog
<1>5. Agree(log[n], <<>>, i + 1)
  BY <1>1, <1>3, <1>4 DEF LogInv, LogsFollow, Follows, At
<1> QED BY <1>5, EmptySeq DEF Agree

\* What a server that leads after a step, other than by submitting a command, does to
\* its entries of its own term: nothing.
LEMMA LeaderKeepsEntries ==
  ASSUME RaftInv, [ServiceNext]_allVars, NEW n \in Server, state'[n] = Leader,
         \A c \in Command : ~Submit(n, c), ServiceType,
         NEW i \in Indices, i < Len(log'[n]), At(log'[n], i).term = currentTerm'[n]
  PROVE  /\ state[n] = Leader /\ currentTerm'[n] = currentTerm[n] /\ log'[n] = log[n]
         /\ pending'[n][i] \in {Nil, pending[n][i]}
<1>0. TypeInv /\ [Next]_vars /\ i \in Nat /\ log \in [Server -> Seq(Entry)]
  BY ServiceIsRaft DEF RaftInv, Indices, TypeInv, TypeOK
<1>1. state[n] = Leader /\ currentTerm'[n] = currentTerm[n]
  <2> SUFFICES ASSUME Wins(n) PROVE FALSE
    BY <1>0, NewLeader
  <2>1. log' = log /\ currentTerm' = currentTerm
    BY DEF Wins, FinishElection, logVars
  <2> QED BY <1>0, <2>1, WinnerHasNoEntry
<1>2. PICK L \in Record, W \in Leaders : LogInv(L, W)
  BY DEF RaftInv, Bounded
<1> DEFINE Goal == log'[n] = log[n] /\ pending'[n][i] \in {Nil, pending[n][i]}
<1>3. ASSUME UNCHANGED serviceVars, UNCHANGED logVars PROVE Goal
  BY <1>3 DEF serviceVars, logVars
<1>4. ASSUME NEW p \in Server, Replicated(p) PROVE Goal
  <2>1. log' = log /\ Commit(p)
    BY <1>4 DEF Replicated, FinishReplication
  <2>2. PICK j : j = commitIndex'[p]
    OBVIOUS
  <2>3. pending' = pending \/ pending' = [pending EXCEPT ![p][j] = Nil]
    BY <2>1, <2>2 DEF Commit
  <2>4. pending \in [Server -> [Indices -> Entry \cup {Nil}]]
    BY DEF ServiceType
  <2>5. pending'[n][i] \in {Nil, pending[n][i]}
    BY <2>3, <2>4
  <2> QED BY <2>1, <2>5
<1>5. ASSUME NEW p \in Server, Apply(p) PROVE Goal
  BY <1>5 DEF Apply, vars, logVars
<1>6. ASSUME NEW p \in Server, TimeOut(p) PROVE Goal
  <2>1. PICK j \in Indices : pending' = [pending EXCEPT ![p][j] = Nil]
    BY <1>6 DEF TimeOut
  <2>2. pending \in [Server -> [Indices -> Entry \cup {Nil}]]
    BY DEF ServiceType
  <2>3. pending'[n][i] \in {Nil, pending[n][i]}
    BY <2>1, <2>2
  <2> QED BY <1>6, <2>3 DEF TimeOut, vars, logVars
<1>7. ASSUME NEW p \in Server, NEW c \in Command, Submit(p, c) PROVE Goal
  <2>1. p # n
    BY <1>7
  <2>2. log'[n] = log[n]
    BY <1>0, <1>7, <2>1 DEF Submit, ClientAppend
  <2>3. PICK j, e : pending' = [pending EXCEPT ![p][j] = e]
    BY <1>7 DEF Submit
  <2>4. pending'[n] = pending[n]
    BY <2>1, <2>3 DEF ServiceType
  <2> QED BY <2>2, <2>4
<1>8. ASSUME NEW m, Delivered(m) PROVE Goal
  <2>1. m \in InFlight /\ m.to \in Server /\ Handle(m.to, m) /\ pending' = pending
    BY <1>8 DEF Delivered, Notify
  <2>2. CASE m.type = "vote" /\ HandleRequestVote(m.to, m)
    BY <2>1, <2>2 DEF HandleRequestVote, logVars
  <2>3. CASE m.type = "append" /\ HandleAppendEntries(m.to, m)
    <3>1. CASE m.to = n
      <4>1. log'[n] = log[n]
        BY <1>0, <1>1, <1>2, <2>1, <2>3, <3>1, LeaderRefuses DEF Appends
      <4> QED BY <2>1, <4>1
    <3>2. CASE m.to # n
      <4>1. log'[n] = log[n]
        BY <1>0, <2>1, <2>3, <3>2 DEF HandleAppendEntries, RejectStaleLeader, RejectGap, RejectConflict,
           AcceptEntries, logVars
      <4> QED BY <2>1, <4>1
    <3> QED BY <3>1, <3>2
  <2> QED BY <2>1, <2>2, <2>3 DEF Handle
<1>9. Goal
  BY <1>0, <1>3, <1>4, <1>5, <1>6, <1>7, <1>8, ServiceStep
<1> QED BY <1>1, <1>9

\* Futures stay those of the entries they were made for.
LEMMA StepPending ==
  ASSUME RaftInv, RaftInv', ServiceType, PendingInv, [ServiceNext]_allVars
  PROVE  PendingInv'
<1> SUFFICES ASSUME NEW n \in Server, NEW i \in Indices, state'[n] = Leader, i < Len(log'[n]),
                    At(log'[n], i).term = currentTerm'[n]
             PROVE  pending'[n][i] \in {Nil, At(log'[n], i)}
  BY DEF PendingInv, Indices
<1>1. ASSUME NEW c \in Command, Submit(n, c) PROVE pending'[n][i] \in {Nil, At(log'[n], i)}
  <2>1. PICK e, k : e = [term |-> currentTerm[n], command |-> c] /\ k = Len(log[n])
    OBVIOUS
  <2>2. /\ k \in Indices /\ At(log'[n], k) = e /\ Len(log'[n]) = k + 1
        /\ \A j \in 0..k - 1 : At(log'[n], j) = At(log[n], j)
        /\ pending' = [pending EXCEPT ![n][k] = e]
        /\ UNCHANGED <<commitIndex, currentTerm, state>>
    BY <1>1, <2>1, SubmitAppends
  <2>3. pending \in [Server -> [Indices -> Entry \cup {Nil}]]
    BY DEF ServiceType
  <2>4. i \in Nat /\ k \in Nat
    BY <2>2 DEF Indices
  <2>5. CASE i = k
    BY <2>2, <2>3, <2>5
  <2>6. CASE i # k
    <3>1. i \in 0..k - 1 /\ i < Len(log[n])
      BY <2>1, <2>2, <2>4, <2>6
    <3>2. pending'[n][i] = pending[n][i] /\ At(log'[n], i) = At(log[n], i)
      BY <2>2, <2>3, <2>6, <3>1
    <3>3. state[n] = Leader /\ At(log[n], i).term = currentTerm[n]
      BY <2>2, <3>2
    <3> QED BY <3>1, <3>2, <3>3 DEF PendingInv
  <2> QED BY <2>5, <2>6
<1>2. CASE \A c \in Command : ~Submit(n, c)
  <2>1. /\ state[n] = Leader /\ currentTerm'[n] = currentTerm[n] /\ log'[n] = log[n]
        /\ pending'[n][i] \in {Nil, pending[n][i]}
    BY <1>2, LeaderKeepsEntries
  <2>2. pending[n][i] \in {Nil, At(log[n], i)}
    BY <2>1 DEF PendingInv
  <2> QED BY <2>1, <2>2
<1> QED BY <1>1, <1>2

\* Answers are given for what is committed, and it stays.
LEMMA StepAnswers ==
  ASSUME RaftInv, CommitsKept, PendingInv, AnswersInv, [ServiceNext]_allVars
  PROVE  AnswersInv'
<1> SUFFICES ASSUME NEW a \in answers'
             PROVE  /\ a.server \in Server /\ a.index \in Nat
                    /\ a.index <= commitIndex'[a.server]
                    /\ a.entry = At(log'[a.server], a.index)
  BY DEF AnswersInv
<1>1. CASE a \in answers
  <2>1. /\ a.server \in Server /\ a.index \in Nat /\ a.index <= commitIndex[a.server]
        /\ a.entry = At(log[a.server], a.index)
    BY <1>1 DEF AnswersInv
  <2>2. /\ commitIndex[a.server] \in Int /\ commitIndex'[a.server] \in Int
        /\ commitIndex[a.server] <= commitIndex'[a.server]
    <3>1. commitIndex'[a.server] \in Index
      BY <2>1, ServiceIsRaft, StepType DEF RaftInv, TypeInv, TypeOK
    <3> QED BY <2>1, <3>1, IndexInLog, IndexIsInt DEF CommitsKept
  <2> QED BY <2>1, <2>2, EntryStays
<1>2. ASSUME NEW n \in Server, Replicated(n), a \notin answers
      PROVE  /\ a.server = n /\ a.index \in Nat /\ a.index = commitIndex'[n]
             /\ a.entry = At(log'[n], a.index)
  <2>1. PICK i : i = commitIndex'[n]
    OBVIOUS
  <2>2. /\ FinishReplication(n) /\ log' = log /\ i # commitIndex[n]
        /\ a = [server |-> n, index |-> i, entry |-> pending[n][i]]
        /\ a # [server |-> n, index |-> i, entry |-> Nil]
    BY <1>2, <2>1 DEF Replicated, Commit, FinishReplication
  <2>3. a.server = n /\ a.index = i /\ a.entry = pending[n][i] /\ pending[n][i] # Nil
    BY <2>2
  <2>4. state[n] = Leader /\ i \in NewCommits(n)
    BY <2>1, <2>2 DEF FinishReplication, AdvanceCommitIndex, RaftInv, TypeInv, TypeOK
  <2>5. i \in Nat /\ i < Len(log[n]) /\ At(log[n], i).term = currentTerm[n] /\ i \in Indices
    <3>1. /\ log[n] \in Seq(Entry) /\ Len(log[n]) \in Nat /\ Len(log[n]) <= MaxLog /\ MaxLog \in Nat
          /\ commitIndex[n] \in Int /\ commitIndex[n] >= -1
      BY IndexInLog, BoundsAssumption
    <3>2. i \in commitIndex[n] + 1 .. Len(log[n]) - 1 /\ At(log[n], i).term = currentTerm[n]
      BY <2>4 DEF NewCommits, Committable, LastIndex
    <3> QED BY <3>1, <3>2 DEF Indices
  <2>6. pending[n][i] = At(log[n], i)
    BY <2>3, <2>4, <2>5 DEF PendingInv
  <2> QED BY <2>1, <2>2, <2>3, <2>5, <2>6
<1>3. ASSUME NEW n \in Server, Replicated(n), a \notin answers PROVE commitIndex'[n] \in Int
  BY <1>2, <1>3
<1>4. CASE a \notin answers
  <2>1. \E n \in Server : Replicated(n)
    BY <1>4, ServiceStep DEF RaftInv, serviceVars, Apply, TimeOut, Submit, Delivered, Notify
  <2> QED BY <1>2, <1>3, <1>4, <2>1
<1> QED BY <1>1, <1>4


\* The service keeps its invariant.
LEMMA ServiceInvariance == ServiceSpec => []ServiceInv
<1>1. ASSUME ServiceInit PROVE ServiceInv
  <2>1. /\ pending = [n \in Server |-> [i \in Indices |-> Nil]] /\ answers = {}
        /\ applyEvent = [n \in Server |-> FALSE] /\ lastApplied = [n \in Server |-> -1]
        /\ applied = [n \in Server |-> <<>>] /\ commitIndex = [n \in Server |-> -1]
    BY <1>1 DEF ServiceInit, Init
  <2>2. ServiceType
    <3>1. -1 \in Index
      BY DEF Index
    <3>2. <<>> \in Seq([index : Nat, entry : Entry])
      OBVIOUS
    <3>3. applyEvent \in [Server -> BOOLEAN] /\ pending \in [Server -> [Indices -> Entry \cup {Nil}]]
      BY <2>1
    <3> QED BY <2>1, <3>1, <3>2, <3>3 DEF ServiceType
  <2>3. AppliedInv
    BY <2>1, EmptySeq DEF AppliedInv
  <2>4. PendingInv
    BY <2>1 DEF PendingInv
  <2>5. AnswersInv
    BY <2>1 DEF AnswersInv
  <2> QED BY <2>2, <2>3, <2>4, <2>5 DEF ServiceInv
<1>2. ASSUME RaftInv, RaftInv', ServiceInv, [ServiceNext]_allVars PROVE ServiceInv'
  <2>1. CommitsKept
    BY <1>2, ServiceIsRaft, StepKeepsCommits DEF RaftInv
  <2>2. ServiceType'
    BY <1>2, StepServiceType DEF ServiceInv
  <2>3. AppliedInv'
    BY <1>2, <2>1, <2>2, StepApplied DEF ServiceInv
  <2>4. PendingInv'
    BY <1>2, StepPending DEF ServiceInv
  <2>5. AnswersInv'
    BY <1>2, <2>1, StepAnswers DEF ServiceInv
  <2> QED BY <2>2, <2>3, <2>4, <2>5 DEF ServiceInv
<1> QED BY <1>1, <1>2, ServiceHasRaft, RaftInvariance, PTL DEF ServiceSpec

\* Two servers that know index i committed have the same entry there.
LEMMA SameEntry ==
  ASSUME RaftInv, NEW a \in Server, NEW b \in Server, NEW i \in Nat,
         i <= commitIndex[a], i <= commitIndex[b]
  PROVE  i < Len(log[b]) /\ At(log[a], i) = At(log[b], i)
<1>1. /\ commitIndex[a] \in Int /\ commitIndex[b] \in Int
      /\ commitIndex[b] < Len(log[b]) /\ Len(log[b]) \in Nat
  BY IndexInLog
<1>2. i + 1 \in 1..commitIndex[a] + 1 /\ i + 1 \in 1..commitIndex[b] + 1
  BY <1>1
<1>3. \/ Agree(log[a], log[b], commitIndex[a] + 1)
      \/ Agree(log[b], log[a], commitIndex[b] + 1)
  BY <1>1 DEF RaftInv, CommitsAgree
<1> QED BY <1>1, <1>2, <1>3 DEF Agree, At

\* A client that was told "committed" was told so of its own command, and no server
\* ever knows another command to be committed there: _pending survives a loss of
\* leadership, but only entries of a leader's own term are answered for
\* (append_command, _advance_commit_index).
THEOREM AnswersStand == ServiceSpec => []AnswersDurable
<1>1. ASSUME RaftInv, ServiceInv, NEW a \in answers
      PROVE  /\ a.index <= commitIndex[a.server]
             /\ \A s \in Server : a.index <= commitIndex[s] =>
                  a.index < Len(log[s]) /\ At(log[s], a.index) = a.entry
  <2>1. /\ a.server \in Server /\ a.index \in Nat
        /\ a.index <= commitIndex[a.server] /\ a.entry = At(log[a.server], a.index)
    BY <1>1 DEF ServiceInv, AnswersInv
  <2> QED BY <1>1, <2>1, SameEntry
<1>2. RaftInv /\ ServiceInv => AnswersDurable
  BY <1>1 DEF AnswersDurable
<1> QED BY <1>2, ServiceHasRaft, RaftInvariance, ServiceInvariance, PTL

\* State machines agree: what any server was ever handed for an index is the entry
\* that is committed there, to this day (_apply_loop).
THEOREM StateMachinesAgree == ServiceSpec => []StateMachineSafety
<1>1. ASSUME RaftInv, ServiceInv, NEW n \in Server, NEW k \in DOMAIN applied[n]
      PROVE  /\ applied[n][k].index < Len(LongestCommitted)
             /\ applied[n][k].entry = At(LongestCommitted, applied[n][k].index)
  <2>1. PICK i : i = applied[n][k].index
    OBVIOUS
  <2>2. applied[n] \in Seq([index : Nat, entry : Entry]) /\ k \in 1..Len(applied[n])
    BY <1>1, LenProperties DEF ServiceInv, ServiceType
  <2>3. applied[n][k] \in [index : Nat, entry : Entry]
    BY <2>2, ElementOfSeq
  <2>4. /\ i \in Nat /\ i <= lastApplied[n] /\ lastApplied[n] <= commitIndex[n]
        /\ applied[n][k].entry = At(log[n], i)
    BY <1>1, <2>1, <2>2, <2>3 DEF ServiceInv, AppliedInv
  <2>5. i <= commitIndex[n] /\ commitIndex[n] \in Int
    <3>1. lastApplied[n] \in Int /\ commitIndex[n] \in Int
      BY <1>1, IndexInLog, IndexIsInt DEF ServiceInv, ServiceType
    <3> QED BY <2>4, <3>1
  <2>6. PICK x \in Server : /\ LongestCommitted = Committed(x)
                            /\ \A s \in Server : commitIndex[s] <= commitIndex[x]
    BY <1>1 DEF RaftInv, Known
  <2>7. /\ commitIndex[x] \in Int /\ Len(Committed(x)) = commitIndex[x] + 1
        /\ \A j \in 1..Len(Committed(x)) : Committed(x)[j] = log[x][j]
    BY <1>1 DEF RaftInv, Known
  <2>8. i <= commitIndex[x]
    <3>1. commitIndex[n] <= commitIndex[x]
      BY <2>6
    <3> QED BY <2>4, <2>5, <2>7, <3>1
  <2>9. At(log[n], i) = At(log[x], i)
    BY <1>1, <2>4, <2>5, <2>8, SameEntry
  <2>10. i < Len(Committed(x)) /\ Committed(x)[i + 1] = log[x][i + 1]
    BY <2>4, <2>7, <2>8
  <2> QED BY <2>1, <2>4, <2>6, <2>9, <2>10 DEF At
<1>2. RaftInv /\ ServiceInv => StateMachineSafety
  BY <1>1 DEF StateMachineSafety
<1> QED BY <1>2, ServiceHasRaft, RaftInvariance, ServiceInvariance, PTL

\* Applying hands on the next command.
LEMMA ApplyIsHand ==
  ASSUME RaftInv, ServiceInv, NEW n \in Server, Apply(n), LongestCommitted' = LongestCommitted
  PROVE  \E i \in 1..Len(LongestCommitted) : CF!Hand(n, i)
<1> DEFINE H(f, q) == {f[q][k].index + 1 : k \in DOMAIN f[q]}
           Handed == [q \in Server |-> {applied[q][k].index + 1 : k \in DOMAIN applied[q]}]
           Calls2 == [q \in Server |-> Len(applied[q])]
<1>1. PICK r : r = [index |-> commitIndex[n], entry |-> At(log[n], commitIndex[n])]
  OBVIOUS
<1>2. /\ commitIndex[n] \in Nat /\ lastApplied[n] < commitIndex[n] /\ r.index = commitIndex[n]
      /\ r \in [index : Nat, entry : Entry]
      /\ applied' = [applied EXCEPT ![n] = Append(applied[n], r)]
  BY <1>1, ApplyHands DEF ServiceInv
<1>3. /\ applied \in [Server -> Seq([index : Nat, entry : Entry])]
      /\ applied[n] \in Seq([index : Nat, entry : Entry]) /\ Len(applied[n]) \in Nat
  BY LenProperties DEF ServiceInv, ServiceType
<1>4. /\ applied'[n] = Append(applied[n], r) /\ \A q \in Server \ {n} : applied'[q] = applied[q]
  BY <1>2, <1>3
<1>5. /\ Len(applied'[n]) = Len(applied[n]) + 1 /\ DOMAIN applied'[n] = 1..Len(applied[n]) + 1
      /\ DOMAIN applied[n] = 1..Len(applied[n])
      /\ applied'[n][Len(applied[n]) + 1] = r
      /\ \A k \in 1..Len(applied[n]) : applied'[n][k] = applied[n][k]
  BY <1>2, <1>3, <1>4
<1>6. H(applied', n) = H(applied, n) \cup {commitIndex[n] + 1}
  <2>1. ASSUME NEW x \in H(applied', n) PROVE x \in H(applied, n) \cup {commitIndex[n] + 1}
    <3>1. PICK k \in 1..Len(applied[n]) + 1 : x = applied'[n][k].index + 1
      BY <1>5, <2>1
    <3>2. k \in 1..Len(applied[n]) \/ k = Len(applied[n]) + 1
      BY <1>3
    <3> QED BY <1>2, <1>5, <3>1, <3>2
  <2>2. ASSUME NEW x \in H(applied, n) PROVE x \in H(applied', n)
    <3>1. PICK k \in 1..Len(applied[n]) : x = applied[n][k].index + 1
      BY <1>5, <2>2
    <3>2. k \in 1..Len(applied[n]) + 1
      BY <1>3
    <3> QED BY <1>5, <3>1, <3>2
  <2>3. commitIndex[n] + 1 \in H(applied', n)
    <3>1. Len(applied[n]) + 1 \in 1..Len(applied[n]) + 1
      BY <1>3
    <3> QED BY <1>2, <1>5, <3>1
  <2> HIDE DEF H
  <2> QED BY <2>1, <2>2, <2>3
<1>7. \A j \in H(applied, n) : j < commitIndex[n] + 1
  <2> SUFFICES ASSUME NEW k \in DOMAIN applied[n] PROVE applied[n][k].index + 1 < commitIndex[n] + 1
    OBVIOUS
  <2>1. applied[n][k] \in [index : Nat, entry : Entry] /\ k \in 1..Len(applied[n])
    BY <1>3, <1>5, ElementOfSeq
  <2>2. applied[n][k].index \in Nat /\ applied[n][k].index <= lastApplied[n] /\ lastApplied[n] \in Int
    BY <2>1, IndexIsInt DEF ServiceInv, AppliedInv, ServiceType
  <2> QED BY <1>2, <2>2
<1>8. commitIndex[n] + 1 \in 1..Len(LongestCommitted)
  <2>1. PICK x \in Server : /\ LongestCommitted = Committed(x)
                            /\ \A s \in Server : commitIndex[s] <= commitIndex[x]
    BY DEF RaftInv, Known
  <2>2. commitIndex[x] \in Int /\ Len(Committed(x)) = commitIndex[x] + 1
        /\ commitIndex[n] <= commitIndex[x]
    BY <2>1 DEF RaftInv, Known
  <2> QED BY <1>2, <2>1, <2>2
<1>9. Handed' = [Handed EXCEPT ![n] = @ \cup {commitIndex[n] + 1}]
  <2>1. \A q \in Server : Handed[q] = H(applied, q)
    OBVIOUS
  <2>2. \A q \in Server : Handed'[q] = H(applied', q)
    OBVIOUS
  <2>3. \A q \in Server \ {n} : H(applied', q) = H(applied, q)
    BY <1>4
  <2>4. Handed' = [q \in Server |-> Handed'[q]] /\ Handed = [q \in Server |-> Handed[q]]
    OBVIOUS
  <2> HIDE DEF H, Handed
  <2> QED BY <1>6, <2>1, <2>2, <2>3, <2>4
<1>10. Calls2' = [Calls2 EXCEPT ![n] = @ + 1]
  BY <1>4, <1>5
<1>11. \A j \in Handed[n] : j < commitIndex[n] + 1
  BY <1>7
<1> QED BY <1>8, <1>9, <1>10, <1>11 DEF CF!Hand


\* Steps of the service are steps of CommandFeed.
LEMMA StepFeeds ==
  ASSUME RaftInv, RaftInv', ServiceInv, [ServiceNext]_allVars
  PROVE  [CF!FeedNext]_(CF!feedVars)
<1>0. TypeInv /\ [Next]_vars /\ CommitsKept
  BY ServiceIsRaft, StepKeepsCommits DEF RaftInv
<1>1. PICK s \in Server : \A q \in Server \ {s} : commitIndex'[q] = commitIndex[q]
  BY <1>0, OneCommits
<1>2. /\ \A n \in Server : InBounds(log'[n])
      /\ \A n \in Server : log'[n] \in Seq(Entry)
  BY DEF RaftInv, Bounded, InBounds, TypeInv, TypeOK
<1>3. LongestCommitted' = LongestCommitted \/ CommitsMore
  BY <1>0, <1>1, <1>2, StepKnown DEF RaftInv
<1>4. ASSUME NEW n \in Server, Apply(n) PROVE LongestCommitted' = LongestCommitted
  BY <1>4 DEF Apply, vars, logVars, LongestCommitted, Committed
<1>5. CASE \E n \in Server : Apply(n)
  <2>1. PICK n \in Server : Apply(n)
    BY <1>5
  <2>2. PICK i \in 1..Len(LongestCommitted) : CF!Hand(n, i)
    BY <1>4, <2>1, ApplyIsHand
  <2> QED BY <2>2 DEF CF!FeedNext
<1>6. CASE \A n \in Server : ~Apply(n)
  <2>1. applied' = applied
    BY <1>0, <1>6, ServiceStep DEF serviceVars, Replicated, TimeOut, Submit, Delivered, Notify
  <2> DEFINE Handed == [n \in Server |-> {applied[n][k].index + 1 : k \in DOMAIN applied[n]}]
             Calls2 == [n \in Server |-> Len(applied[n])]
  <2>2. Handed' = Handed /\ Calls2' = Calls2
    BY <2>1
  <2>3. CASE LongestCommitted' = LongestCommitted
    BY <2>2, <2>3 DEF CF!feedVars
  <2>4. CASE CommitsMore
    <3>1. PICK k \in 1..MaxLog - Len(LongestCommitted) :
            \E batch \in [1..k -> [term : 1..MaxTerm, command : Command]] :
              Len(batch) = k /\ LongestCommitted' = LongestCommitted \o batch
      BY <2>4 DEF CommitsMore
    <3>2. PICK batch \in [1..k -> [term : 1..MaxTerm, command : Command]] :
            Len(batch) = k /\ LongestCommitted' = LongestCommitted \o batch
      BY <3>1
    <3>3. LongestCommitted \in Seq(Entry) /\ Len(LongestCommitted) \in Nat /\ MaxLog \in Nat
      BY <2>4, LenProperties, BoundsAssumption DEF CommitsMore
    <3>4. k \in 1..MaxLog /\ Len(LongestCommitted) + Len(batch) <= MaxLog
      BY <3>2, <3>3
    <3>5. CF!Extend(batch)
      BY <2>2, <3>2, <3>4 DEF CF!Extend
    <3> QED BY <3>2, <3>4, <3>5 DEF CF!FeedNext
  <2> QED BY <1>3, <2>3, <2>4
<1> QED BY <1>5, <1>6

\* No state machine is handed an entry twice, out of order or before it is committed,
\* although the event may be set more often than there is news, and the loop calls back
\* whenever it wakes (_apply_loop, handle_append_entries).
THEOREM ServiceImplementsFeed == ServiceSpec => ImplementsCommandFeed
<1>1. ASSUME ServiceInit, RaftInv PROVE CF!FeedInit
  <2>1. LongestCommitted = <<>>
    <3>1. RL!RLInit
      BY <1>1, InitImplements DEF ServiceInit, RaftInv
    <3> QED BY <3>1 DEF RL!RLInit
  <2>2. \A n \in Server : applied[n] = <<>>
    BY <1>1 DEF ServiceInit
  <2>3. [n \in Server |-> {applied[n][k].index + 1 : k \in DOMAIN applied[n]}] = [n \in Server |-> {}]
    BY <2>2, EmptySeq
  <2>4. [n \in Server |-> Len(applied[n])] = [n \in Server |-> 0]
    BY <2>2, EmptySeq
  <2> QED BY <2>1, <2>3, <2>4 DEF CF!FeedInit
<1>2. RaftInv /\ RaftInv' /\ ServiceInv /\ [ServiceNext]_allVars => [CF!FeedNext]_(CF!feedVars)
  BY StepFeeds
<1> QED BY <1>1, <1>2, ServiceHasRaft, RaftInvariance, ServiceInvariance, PTL
        DEF ServiceSpec, ImplementsCommandFeed, CF!FeedSpec

=============================================================================
