---------------------------- MODULE RaftLogProofs ----------------------------
(***************************************************************************)
(* Log matching, and that what is committed stays, for any finite set of   *)
(* servers and any bounds.                                                 *)
(*                                                                         *)
(* The log of a deposed leader may be truncated, so what it once was cannot*)
(* be read off the state.  The invariant says that there is a record of it:*)
(* a function L from terms to logs, the last log each leader had as leader,*)
(* and a function W from terms to servers, the leaders.  Every log and     *)
(* every call in flight is made of parts of L.                             *)
(*                                                                         *)
(* For what is committed there is also a record of what every server had:  *)
(* V[q][t] is the log of q as it was last in term t.  A server has         *)
(* acknowledged to the leader of term t the first k entries of its log     *)
(* when V[q][t] agrees with L[t] up to k.  An entry that a majority has    *)
(* acknowledged to a leader that made it itself is in the log of every     *)
(* later leader.                                                           *)
(***************************************************************************)
EXTENDS RaftProofs

-----------------------------------------------------------------------------
(* Logs that agree *)

\* l and w both reach index k (counted from 1), and are the same up to it.
Agree(l, w, k) == k <= Len(l) /\ k <= Len(w) /\ \A i \in 1..k : l[i] = w[i]

\* Where two logs have the same term they agree up to that point.
Coherent(l, w) ==
  \A i \in 1..Len(l) : i <= Len(w) /\ l[i].term = w[i].term => Agree(l, w, i)

\* Every entry of l came with what precedes it from the leader of its term.
Follows(l, L) == \A i \in 1..Len(l) : Agree(l, L[l[i].term], i)

\* What Python's log[:k] holds.
LEMMA PrefixIs ==
  ASSUME NEW l \in Seq(Entry), NEW k \in Nat, k <= Len(l)
  PROVE  /\ Prefix(l, k) \in Seq(Entry)
         /\ Len(Prefix(l, k)) = k
         /\ \A i \in 1..k : Prefix(l, k)[i] = l[i]
BY DEF Prefix

\* Agreement is equality of prefixes.
LEMMA AgreeIsPrefix ==
  ASSUME NEW l \in Seq(Entry), NEW w \in Seq(Entry), NEW k \in Nat, k <= Len(l)
  PROVE  /\ Agree(l, w, k) <=> IsPrefixOf(Prefix(l, k), w)
         /\ Agree(l, w, k) => Prefix(l, k) = Prefix(w, k)
         /\ k <= Len(w) /\ Prefix(l, k) = Prefix(w, k) => Agree(l, w, k)
<1>1. /\ Prefix(l, k) \in Seq(Entry) /\ Len(Prefix(l, k)) = k
      /\ \A i \in 1..k : Prefix(l, k)[i] = l[i]
  BY PrefixIs
<1>2. ASSUME k <= Len(w)
      PROVE  /\ Prefix(w, k) \in Seq(Entry) /\ Len(Prefix(w, k)) = k
             /\ \A i \in 1..k : Prefix(w, k)[i] = w[i]
  BY <1>2, PrefixIs
<1>3. ASSUME Agree(l, w, k) PROVE Prefix(l, k) = Prefix(w, k)
  BY <1>1, <1>2, <1>3, SeqEqual DEF Agree
<1>4. ASSUME k <= Len(w), Prefix(l, k) = Prefix(w, k) PROVE Agree(l, w, k)
  BY <1>1, <1>2, <1>4 DEF Agree
<1> QED BY <1>1, <1>3, <1>4 DEF IsPrefixOf, Agree

\* Agreement holds up to any earlier point, both ways round, and across a third log.
LEMMA AgreeLess ==
  ASSUME NEW l, NEW w, NEW k \in Nat, NEW j \in Nat, j <= k, Len(l) \in Nat, Len(w) \in Nat,
         Agree(l, w, k)
  PROVE  Agree(l, w, j) /\ Agree(w, l, j)
BY DEF Agree

LEMMA AgreeTrans ==
  ASSUME NEW l, NEW w, NEW v, NEW k \in Nat, Agree(l, w, k), Agree(w, v, k)
  PROVE  Agree(l, v, k)
BY DEF Agree

\* Logs that follow the same leaders are coherent.
LEMMA FollowersCohere ==
  ASSUME NEW L \in [Nat -> Seq(Entry)], NEW l \in Seq(Entry), NEW w \in Seq(Entry),
         Follows(l, L), Follows(w, L)
  PROVE  Coherent(l, w)
<1> SUFFICES ASSUME NEW i \in 1..Len(l), i <= Len(w), l[i].term = w[i].term
             PROVE  Agree(l, w, i)
  BY DEF Coherent
<1>1. i \in 1..Len(w)
  OBVIOUS
<1>2. Agree(l, L[l[i].term], i) /\ Agree(w, L[w[i].term], i)
  BY <1>1 DEF Follows
<1> QED BY <1>2 DEF Agree

\* A log cut short follows the same leaders.
LEMMA PrefixFollows ==
  ASSUME NEW L, NEW l \in Seq(Entry), Follows(l, L), NEW k \in Nat, k <= Len(l)
  PROVE  Follows(Prefix(l, k), L)
BY PrefixIs DEF Follows, Agree

\* So does a log that is the beginning of one that does.
LEMMA AgreeFollows ==
  ASSUME NEW L, NEW l \in Seq(Entry), NEW w \in Seq(Entry), Follows(w, L), Agree(l, w, Len(l))
  PROVE  Follows(l, L)
BY DEF Follows, Agree

-----------------------------------------------------------------------------
(* What handle_append_entries makes of a log *)

\* The call m carries a part of the log w.
Part(m, w) ==
  /\ m.prevIndex + 1 + Len(m.entries) <= Len(w)
  /\ \A i \in 1..Len(m.entries) : m.entries[i] = w[m.prevIndex + 1 + i]
  /\ m.prevIndex >= 0 => m.prevTerm = w[m.prevIndex + 1].term

\* The last index, counted from 1, of what m carries.
End(m) == m.prevIndex + 1 + Len(m.entries)

\* Merging a part of w into a log that agrees with w where the part begins: either
\* all of the part is there already and nothing changes, or the result is w up to the
\* end of the part.
LEMMA MergeIs ==
  ASSUME NEW l \in Seq(Entry), NEW w \in Seq(Entry), Coherent(l, w),
         NEW at \in Nat, Agree(l, w, at), NEW entries \in Seq(Entry),
         at + Len(entries) <= Len(w),
         \A i \in 1..Len(entries) : entries[i] = w[at + i]
  PROVE  \/ Merge(l, at, entries) = l /\ Agree(l, w, at + Len(entries))
         \/ /\ Len(Merge(l, at, entries)) = at + Len(entries)
            /\ Agree(Merge(l, at, entries), w, at + Len(entries))
            /\ ~Agree(l, w, at + Len(entries))
<1> DEFINE end == at + Len(entries)
           Conflict(i) == at < i /\ i <= end /\ i <= Len(l) /\ l[i].term # entries[i - at].term
           len == IF end > Len(l) \/ \E i \in 1..end : Conflict(i) THEN end ELSE Len(l)
           val(i) == IF i <= Len(l) /\ \A j \in 1..i : ~Conflict(j) THEN l[i] ELSE entries[i - at]
           r == Merge(l, at, entries)
<1>1. r = [i \in 1..len |-> val(i)]
  BY DEF Merge
<1>2. at <= Len(l) /\ end \in Nat /\ len \in Nat /\ Len(l) \in Nat /\ Len(w) \in Nat
  BY DEF Agree
<1>3. \A i \in at + 1 .. end : entries[i - at] = w[i]
  OBVIOUS
<1>4. ASSUME NEW i \in 1..end, ~Conflict(i), i <= Len(l) PROVE l[i] = w[i]
  <2>1. CASE i <= at
    BY <1>2, <2>1 DEF Agree
  <2>2. CASE i > at
    <3>1. entries[i - at] = w[i] /\ i \in 1..Len(l) /\ i <= Len(w)
      BY <1>2, <1>3, <1>4, <2>2
    <3>2. l[i].term = w[i].term
      BY <1>4, <2>2, <3>1
    <3>3. Agree(l, w, i)
      BY <3>1, <3>2 DEF Coherent
    <3> QED BY <1>2, <3>3 DEF Agree
  <2> QED BY <1>2, <2>1, <2>2
<1>5. \A i \in 1..end : Conflict(i) => l[i] # w[i] /\ i > at /\ i <= Len(l)
  BY <1>2, <1>3
<1> HIDE DEF Conflict
<1>6. CASE end <= Len(l) /\ \A i \in 1..end : ~Conflict(i)
  <2>1. Agree(l, w, end)
    BY <1>2, <1>4, <1>6 DEF Agree
  <2>2. len = Len(l)
    BY <1>2, <1>6
  <2>3. \A i \in 1..Len(l) : val(i) = l[i]
    <3> SUFFICES ASSUME NEW i \in 1..Len(l), NEW j \in 1..i PROVE ~Conflict(j)
      OBVIOUS
    <3>1. CASE j <= end
      BY <1>2, <1>6, <3>1
    <3>2. CASE j > end
      BY <1>2, <3>2 DEF Conflict
    <3> QED BY <1>2, <3>1, <3>2
  <2>4. r = [i \in 1..Len(l) |-> l[i]]
    BY <1>1, <2>2, <2>3
  <2>5. r = l
    BY <2>4
  <2> QED BY <2>1, <2>5
<1>7. CASE end > Len(l) \/ \E i \in 1..end : Conflict(i)
  <2>1. ~Agree(l, w, end)
    <3>1. CASE end > Len(l)
      BY <1>2, <3>1 DEF Agree
    <3>2. ASSUME NEW i \in 1..end, Conflict(i) PROVE ~Agree(l, w, end)
      BY <1>2, <1>5, <3>2 DEF Agree
    <3> QED BY <1>7, <3>1, <3>2
  <2>2. len = end
    BY <1>7
  <2>3. \A i \in 1..end : val(i) = w[i]
    <3> SUFFICES ASSUME NEW i \in 1..end PROVE val(i) = w[i]
      OBVIOUS
    <3>1. CASE i <= Len(l) /\ \A j \in 1..i : ~Conflict(j)
      BY <1>2, <1>4, <3>1
    <3>2. CASE i > Len(l)
      BY <1>2, <1>3, <3>2
    <3>3. CASE \E j \in 1..i : Conflict(j)
      BY <1>2, <1>3, <1>5, <3>3
    <3> QED BY <1>2, <3>1, <3>2, <3>3
  <2> HIDE DEF val, len
  <2>4. Len(r) = end /\ \A i \in 1..end : r[i] = w[i]
    BY <1>1, <1>2, <2>2, <2>3
  <2>5. Agree(r, w, end)
    BY <1>2, <2>4 DEF Agree
  <2> QED BY <2>1, <2>4, <2>5
<1> QED BY <1>2, <1>6, <1>7

\* What handle_append_entries does to a log, when the call carries a part of w and
\* the log is coherent with w: what agrees with w stays, and the rest of the log is
\* left, cut short or replaced by w.
LEMMA AppendEffect ==
  ASSUME TypeOK, NEW s \in Server, NEW m \in AppendRequest, HandleAppendEntries(s, m),
         NEW w \in Seq(Entry), Part(m, w), Coherent(log[s], w)
  PROVE  /\ \A k \in Nat : Agree(log[s], w, k) => Agree(log'[s], w, k)
         /\ \/ log'[s] = log[s]
            \/ Agree(log'[s], w, Len(log'[s]))
            \/ \E k \in Nat : k <= Len(log[s]) /\ log'[s] = Prefix(log[s], k)
         /\ LeaderIsStale(s, m) => log'[s] = log[s]
         /\ Accepts(s, m) => Agree(log'[s], w, End(m))
         /\ Disagrees(s, m) => ~Agree(log[s], w, m.prevIndex + 1)
         /\ \A q \in Server \ {s} : log'[q] = log[q]
<1> DEFINE l == log[s]
           at == m.prevIndex + 1
<1>0. /\ log \in [Server -> Seq(Entry)] /\ l \in Seq(Entry)
      /\ m.prevIndex \in Int /\ m.prevIndex >= -1 /\ at \in Nat
      /\ m.entries \in Seq(Entry) /\ Len(l) \in Nat /\ Len(w) \in Nat /\ Len(m.entries) \in Nat
  <2>1. m.prevIndex \in Index /\ m.entries \in Seq(Entry)
    BY DEF AppendRequest
  <2>2. log \in [Server -> Seq(Entry)] /\ l \in Seq(Entry)
    BY DEF TypeOK
  <2> QED BY <2>1, <2>2, IndexIsInt
<1>01. Part(m, w) <=> /\ at + Len(m.entries) <= Len(w)
                      /\ \A i \in 1..Len(m.entries) : m.entries[i] = w[at + i]
                      /\ m.prevIndex >= 0 => m.prevTerm = w[at].term
  BY DEF Part
<1>02. End(m) = at + Len(m.entries) /\ End(m) \in Nat
  BY <1>0 DEF End
<1>03. Agree(l, w, at) =>
         \/ Merge(l, at, m.entries) = l /\ Agree(l, w, End(m))
         \/ Len(Merge(l, at, m.entries)) = End(m) /\ Agree(Merge(l, at, m.entries), w, End(m))
            /\ ~Agree(l, w, End(m))
  <2> HIDE DEF l, at
  <2> QED BY <1>0, <1>01, <1>02, MergeIs DEF l
<1>1. Disagrees(s, m) => ~Agree(l, w, at)
  BY <1>0 DEF Disagrees, At, Agree, Part
<1>2. ASSUME Accepts(s, m) PROVE Agree(l, w, at)
  <2>1. CASE m.prevIndex = -1
    BY <1>0, <2>1 DEF Agree
  <2>2. CASE m.prevIndex >= 0
    <3>1. at \in 1..Len(l) /\ at <= Len(w) /\ l[at].term = w[at].term
      BY <1>0, <1>2, <2>2 DEF Accepts, Misses, Disagrees, Part, At
    <3> QED BY <3>1 DEF Coherent
  <2> QED BY <1>0, <2>1, <2>2
<1>3. CASE UNCHANGED log
  <2>1. ~Accepts(s, m) \/ Agree(l, w, End(m))
    <3>1. CASE AcceptEntries(s, m)
      <4> DEFINE r == Merge(l, at, m.entries)
      <4>1. r = l
        BY <1>0, <1>3, <3>1 DEF AcceptEntries
      <4>2. Agree(l, w, at)
        BY <1>2, <3>1 DEF AcceptEntries
      <4> QED BY <1>03, <4>1, <4>2
    <3>2. CASE ~AcceptEntries(s, m)
      BY <3>2 DEF HandleAppendEntries, RejectStaleLeader, RejectGap, RejectConflict, Accepts
    <3> QED BY <3>1, <3>2
  <2> QED BY <1>1, <1>3, <2>1
<1>4. CASE RejectConflict(s, m)
  <2>1. Disagrees(s, m) /\ ~LeaderIsStale(s, m) /\ log' = [log EXCEPT ![s] = Prefix(l, m.prevIndex)]
    BY <1>4 DEF RejectConflict, FollowLeader
  <2>2. m.prevIndex \in Nat /\ m.prevIndex < Len(l)
    BY <1>0, <2>1 DEF Disagrees
  <2>3. /\ Len(log'[s]) = m.prevIndex /\ \A i \in 1..m.prevIndex : log'[s][i] = l[i]
        /\ log'[s] = Prefix(l, m.prevIndex)
    BY <1>0, <2>1, <2>2, PrefixIs
  <2>4. ASSUME NEW k \in Nat, Agree(l, w, k) PROVE Agree(log'[s], w, k)
    <3>1. k <= m.prevIndex
      BY <1>0, <1>1, <2>1, <2>4 DEF Agree
    <3> QED BY <2>2, <2>3, <2>4, <3>1 DEF Agree
  <2> QED BY <1>0, <1>1, <2>1, <2>2, <2>3, <2>4 DEF Accepts
<1>5. CASE AcceptEntries(s, m)
  <2> DEFINE r == Merge(l, at, m.entries)
  <2>1. Accepts(s, m) /\ log' = [log EXCEPT ![s] = r]
    BY <1>5 DEF AcceptEntries
  <2>2. log'[s] = r /\ \A q \in Server \ {s} : log'[q] = log[q]
    BY <1>0, <2>1
  <2>4. \/ r = l /\ Agree(l, w, End(m))
        \/ Len(r) = End(m) /\ Agree(r, w, End(m)) /\ ~Agree(l, w, End(m))
    BY <1>03, <1>2, <2>1
  <2> HIDE DEF r
  <2>5. ASSUME NEW k \in Nat, Agree(l, w, k) PROVE Agree(r, w, k)
    <3>1. CASE r = l
      BY <2>5, <3>1
    <3>2. CASE Agree(r, w, End(m)) /\ ~Agree(l, w, End(m))
      <4>1. k < End(m) /\ End(m) \in Nat
        BY <1>02, <2>5, <3>2 DEF Agree
      <4> QED BY <3>2, <4>1 DEF Agree
    <3> QED BY <2>4, <3>1, <3>2
  <2>6. r = l \/ Agree(r, w, Len(r))
    BY <2>4
  <2>7. ~LeaderIsStale(s, m) /\ ~Disagrees(s, m)
    BY <2>1 DEF Accepts
  <2> QED BY <2>2, <2>4, <2>5, <2>6, <2>7
<1> QED BY <1>3, <1>4, <1>5 DEF HandleAppendEntries, RejectStaleLeader, RejectGap, logVars

-----------------------------------------------------------------------------
(* Calls under way *)

\* The calls that a handler may yet see, or has seen while its caller still waits.
InFlight == late \cup ({request[n][p] : n \in Server, p \in Server} \ {Nil})

Appends == {m \in InFlight : m.type = "append"}

\* Giving up a round adds no call.
LEMMA GiveUpFlight ==
  ASSUME NEW n \in Server, NEW l, l \subseteq late, GiveUp(n, l)
  PROVE  late' \subseteq InFlight
<1>1. Unanswered(n) \subseteq InFlight
  BY DEF Unanswered, Peers, InFlight
<1> QED BY <1>1 DEF GiveUp, InFlight

\* Nor does stepping down.
LEMMA CancelFlight ==
  ASSUME TypeOK, NEW n \in Server, NEW t, NEW r, NEW l, l \subseteq late,
         CancelHeartbeat(n, t, r, l)
  PROVE  InFlight' \subseteq InFlight
<1>0. request \in [Server -> [Server -> Request \cup {Nil}]]
  BY DEF TypeOK
<1>1. CASE Newer(n, t) /\ replicating[n]
  <2>1. request' = [request EXCEPT ![n] = NoCalls] /\ GiveUp(n, l)
    BY <1>1 DEF CancelHeartbeat
  <2>2. late' \subseteq InFlight
    BY <2>1, GiveUpFlight
  <2>3. \A a, p \in Server : request'[a][p] \in {request[a][p], Nil}
    BY <1>0, <2>1 DEF NoCalls
  <2> QED BY <2>2, <2>3 DEF InFlight
<1>2. CASE ~(Newer(n, t) /\ replicating[n])
  BY <1>2 DEF CancelHeartbeat, InFlight
<1> QED BY <1>1, <1>2

\* The calls that come under way in a step are those of a round it opens.
LEMMA StepFlight ==
  ASSUME TypeInv, [Next]_vars, NEW m \in InFlight', m \notin InFlight
  PROVE  \E n \in Server : \E p \in Peers(n) :
           \/ StartElection(n) /\ m = AskVote(n, p, currentTerm[n] + 1)
           \/ StartReplication(n) /\ ~OutOfLog(n, p) /\ m = AskAppend(n, p)
<1>0. TypeOK /\ request \in [Server -> [Server -> Request \cup {Nil}]]
  BY DEF TypeInv, TypeOK
<1>1. CASE UNCHANGED vars
  BY <1>1 DEF InFlight, vars, roundVars
<1>2. ASSUME NEW n \in Server, StartElection(n)
      PROVE  \E p \in Peers(n) : m = AskVote(n, p, currentTerm[n] + 1)
  <2>1. /\ request' = [request EXCEPT ![n] =
                         [p \in Server |-> IF p = n THEN Nil ELSE AskVote(n, p, currentTerm[n] + 1)]]
        /\ late' = late
    BY <1>2 DEF StartElection
  <2> QED BY <1>0, <2>1 DEF InFlight, Peers
<1>3. ASSUME NEW n \in Server, FinishElection(n) PROVE FALSE
  <2>1. request' = [request EXCEPT ![n] = NoCalls] /\ GiveUp(n, late)
    BY <1>3 DEF FinishElection
  <2>2. late' \subseteq InFlight
    BY <2>1, GiveUpFlight
  <2>3. \A a, p \in Server : request'[a][p] \in {request[a][p], Nil}
    BY <1>0, <2>1 DEF NoCalls
  <2> QED BY <2>2, <2>3 DEF InFlight
<1>4. ASSUME NEW n \in Server, StartReplication(n)
      PROVE  \E p \in Peers(n) : ~OutOfLog(n, p) /\ m = AskAppend(n, p)
  <2>1. /\ request' = [request EXCEPT ![n] =
             [p \in Server |-> IF p = n \/ OutOfLog(n, p) THEN Nil ELSE AskAppend(n, p)]]
        /\ late' = late
    BY <1>4 DEF StartReplication
  <2> QED BY <1>0, <2>1 DEF InFlight, Peers
<1>5. ASSUME NEW n \in Server, FinishReplication(n) PROVE FALSE
  <2>1. request' = [request EXCEPT ![n] = NoCalls] /\ GiveUp(n, late)
    BY <1>5 DEF FinishReplication
  <2>2. late' \subseteq InFlight
    BY <2>1, GiveUpFlight
  <2>3. \A a, p \in Server : request'[a][p] \in {request[a][p], Nil}
    BY <1>0, <2>1 DEF NoCalls
  <2> QED BY <2>2, <2>3 DEF InFlight
<1>6. ASSUME NEW n \in Server, NEW c \in Command, ClientAppend(n, c) PROVE FALSE
  BY <1>6 DEF ClientAppend, InFlight, roundVars
<1>7. ASSUME NEW n \in Server, NEW p \in Peers(n), ReceiveAppendReply(n, p) PROVE FALSE
  <2>1. CASE Newer(n, reply[n][p].term)
    <3>1. CancelHeartbeat(n, reply[n][p].term, reply, late)
      BY <1>7, <2>1 DEF ReceiveAppendReply
    <3> QED BY <1>0, <3>1, CancelFlight
  <2>2. CASE ~Newer(n, reply[n][p].term)
    <3>1. request' = [request EXCEPT ![n][p] = Nil] /\ late' = late
      BY <1>7, <2>2 DEF ReceiveAppendReply
    <3>2. \A a, q \in Server : request'[a][q] \in {request[a][q], Nil}
      BY <1>0, <3>1 DEF Peers
    <3> QED BY <3>1, <3>2 DEF InFlight
  <2> QED BY <2>1, <2>2
<1>8. ASSUME NEW n \in Server, NEW p \in Peers(n), Receive(n, p) PROVE FALSE
  <2>1. PICK r : CancelHeartbeat(p, request[n][p].term, r, late)
    BY <1>8 DEF Receive
  <2> QED BY <1>0, <2>1, CancelFlight DEF Peers
<1>9. ASSUME NEW d \in late, ReceiveLate(d) PROVE FALSE
  <2>1. CancelHeartbeat(d.to, d.term, reply, late \ {d}) /\ d.to \in Server
    BY <1>0, <1>9 DEF ReceiveLate, TypeOK, Request, VoteRequest, AppendRequest
  <2> QED BY <1>0, <2>1, CancelFlight
<1> QED BY <1>1, <1>2, <1>3, <1>4, <1>5, <1>6, <1>7, <1>8, <1>9 DEF Next

\* A call under way is a request, and one between two servers.
LEMMA FlightType ==
  ASSUME TypeInv, NEW m \in InFlight
  PROVE  /\ m \in Request /\ m.to \in Server /\ m.from \in Server /\ m.term \in Nat
         /\ m.type = "append" => m \in AppendRequest
<1>1. m \in Request
  BY DEF TypeInv, TypeOK, InFlight
<1> QED BY <1>1 DEF Request, VoteRequest, AppendRequest

\* A handler that runs handles a call under way that is addressed to its server.
LEMMA Delivery ==
  ASSUME TypeInv
  PROVE  /\ \A n \in Server : \A p \in Peers(n) : Receive(n, p) =>
              /\ p \in Server /\ request[n][p] \in InFlight /\ request[n][p].to = p
              /\ Handle(p, request[n][p])
         /\ \A m \in late : ReceiveLate(m) => m \in InFlight /\ m.to \in Server /\ Handle(m.to, m)
<1>1. TypeOK /\ Calls
  BY DEF TypeInv
<1>2. ASSUME NEW n \in Server, NEW p \in Peers(n), Receive(n, p)
      PROVE  /\ p \in Server /\ request[n][p] \in InFlight /\ request[n][p].to = p
             /\ Handle(p, request[n][p])
  BY <1>1, <1>2 DEF Receive, Calls, CallsOf, InFlight, Peers
<1>3. ASSUME NEW m \in late, ReceiveLate(m)
      PROVE  m \in InFlight /\ m.to \in Server /\ Handle(m.to, m)
  <2>1. m \in Request /\ m.to \in Server
    BY <1>1 DEF TypeOK, Request, VoteRequest, AppendRequest
  <2> QED BY <1>3, <2>1 DEF ReceiveLate, InFlight
<1> QED BY <1>2, <1>3

-----------------------------------------------------------------------------
(* Votes and leaders, step by step *)

\* Stepping down leaves or drops the answers there are.
LEMMA CancelReplies ==
  ASSUME TypeOK, NEW n \in Server, NEW t \in Nat,
         NEW r \in [Server -> [Server -> Reply \cup {Nil}]], NEW l,
         CancelHeartbeat(n, t, r, l)
  PROVE  \A k, p \in Server : reply'[k][p] # Nil => reply'[k][p] = r[k][p]
<1>1. /\ \A k \in Server \ {n} : reply'[k] = r[k]
      /\ (\A p \in Server : reply'[n][p] = Nil) \/ reply'[n] = r[n]
  BY CancelRole
<1> QED BY <1>1

\* A vote that comes in is one the handler grants, for the term the round asks for.
LEMMA NewVote ==
  ASSUME TypeInv, [Next]_vars, NEW b \in Server, NEW q \in Server,
         HasVote(b, q, electionTerm[b])', ~HasVote(b, q, electionTerm[b])
  PROVE  /\ q \in Peers(b) /\ Receive(b, q) /\ electionTerm'[b] = electionTerm[b]
         /\ request[b][q] \in InFlight /\ request[b][q] \in Request
         /\ request[b][q].from = b /\ request[b][q].to = q
         /\ request[b][q].type = "vote" /\ request[b][q].term = electionTerm[b]
         /\ Grants(q, request[b][q])
<1>0. /\ TypeOK /\ Calls
      /\ electionTerm \in [Server -> Nat]
      /\ reply \in [Server -> [Server -> Reply \cup {Nil}]]
      /\ electionTerm'[b] # 0 /\ reply'[b][q] # Nil /\ reply'[b][q].ok
  BY DEF TypeInv, TypeOK, HasVote
<1>01. TypeOK
  BY DEF TypeInv
<1>02. reply \in [Server -> [Server -> Reply \cup {Nil}]]
  BY <1>01 DEF TypeOK
<1> DEFINE Old == electionTerm'[b] = electionTerm[b] /\ reply'[b][q] = reply[b][q]
<1>1. Old => FALSE
  BY <1>0 DEF HasVote
<1>2. CASE UNCHANGED vars
  BY <1>1, <1>2 DEF vars, roundVars
<1>3. ASSUME NEW n \in Server, StartElection(n) PROVE FALSE
  <2>1. electionTerm[n] = 0 /\ state[n] # Leader /\ reply' = reply
        /\ \A a \in Server \ {n} : electionTerm'[a] = electionTerm[a]
    BY <1>0, <1>3 DEF StartElection
  <2>2. reply[n][q] = Nil
    BY <1>0, <2>1 DEF Calls, CallsOf
  <2> QED BY <1>0, <1>1, <2>1, <2>2
<1>4. ASSUME NEW n \in Server, FinishElection(n) PROVE FALSE
  <2>1. electionTerm' = [electionTerm EXCEPT ![n] = 0] /\ reply' = [reply EXCEPT ![n] = NoCalls]
    BY <1>4 DEF FinishElection
  <2> QED BY <1>0, <1>1, <2>1
<1>5. ASSUME NEW n \in Server, StartReplication(n) PROVE FALSE
  BY <1>1, <1>5 DEF StartReplication
<1>6. ASSUME NEW n \in Server, FinishReplication(n) PROVE FALSE
  <2>1. electionTerm' = electionTerm /\ reply' = [reply EXCEPT ![n] = NoCalls]
    BY <1>6 DEF FinishReplication
  <2> QED BY <1>0, <1>1, <2>1 DEF NoCalls
<1>7. ASSUME NEW n \in Server, NEW c \in Command, ClientAppend(n, c) PROVE FALSE
  BY <1>1, <1>7 DEF ClientAppend, roundVars
<1>8. ASSUME NEW n \in Server, NEW p \in Peers(n), ReceiveAppendReply(n, p) PROVE FALSE
  <2> DEFINE t == reply[n][p].term
  <2>1. electionTerm' = electionTerm /\ replicating[n] /\ t \in Nat /\ p \in Server
    BY <1>0, <1>8 DEF ReceiveAppendReply, Reply, Peers
  <2>2. CASE Newer(n, t)
    <3>1. CancelHeartbeat(n, t, reply, late)
      BY <1>8, <2>2 DEF ReceiveAppendReply
    <3> HIDE DEF t
    <3>2. /\ \A k \in Server \ {n} : reply'[k] = reply[k]
          /\ \A x \in Server : reply'[n][x] = Nil
      BY <1>0, <2>1, <2>2, <3>1, CancelRole
    <3> QED BY <1>0, <1>1, <2>1, <3>2
  <2>3. CASE ~Newer(n, t)
    <3>1. reply' = [reply EXCEPT ![n][p] = Nil]
      BY <1>8, <2>3 DEF ReceiveAppendReply
    <3> QED BY <1>0, <1>1, <2>1, <3>1
  <2> QED BY <2>2, <2>3
<1>9. ASSUME NEW d \in late, ReceiveLate(d) PROVE FALSE
  <2>1. /\ CancelHeartbeat(d.to, d.term, reply, late \ {d}) /\ electionTerm' = electionTerm
        /\ d.to \in Server /\ d.term \in Nat
    BY <1>0, <1>9 DEF ReceiveLate, TypeOK, Request, VoteRequest, AppendRequest
  <2>2. \A k, x \in Server : reply'[k][x] # Nil => reply'[k][x] = reply[k][x]
    <3>1. CancelHeartbeat(d.to, d.term, reply, late \ {d}) /\ d.to \in Server /\ d.term \in Nat
      BY <2>1
    <3> QED BY <1>01, <1>02, <3>1, CancelReplies
  <2> QED BY <1>0, <1>1, <2>1, <2>2
<1>10. ASSUME NEW n \in Server, NEW p \in Peers(n), Receive(n, p)
       PROVE  b = n /\ q = p /\ electionTerm'[b] = electionTerm[b] /\ Answer(p, request[n][p]).ok
  <2> DEFINE m == request[n][p]
             r == [reply EXCEPT ![n][p] = Answer(p, m)]
  <2>1. m \in Request /\ m.term \in Nat /\ p \in Server
    BY <1>10, Delivery, FlightType
  <2>2. r \in [Server -> [Server -> Reply \cup {Nil}]]
    BY <1>0, <2>1, AnswerType
  <2>3. CancelHeartbeat(p, m.term, r, late) /\ electionTerm' = electionTerm
    BY <1>10 DEF Receive
  <2>4. \A k, x \in Server : reply'[k][x] # Nil => reply'[k][x] = r[k][x]
    <3>1. CancelHeartbeat(p, m.term, r, late) /\ p \in Server /\ m.term \in Nat
      BY <2>1, <2>3
    <3> HIDE DEF m, r
    <3> QED BY <1>01, <2>2, <3>1, CancelReplies
  <2>5. b = n /\ q = p
    BY <1>0, <1>1, <2>1, <2>3, <2>4
  <2> QED BY <1>0, <2>1, <2>3, <2>4, <2>5
<1>11. q \in Peers(b) /\ Receive(b, q) /\ electionTerm'[b] = electionTerm[b]
       /\ Answer(q, request[b][q]).ok
  BY <1>2, <1>3, <1>4, <1>5, <1>6, <1>7, <1>8, <1>9, <1>10 DEF Next
<1>12. /\ request[b][q] # Nil /\ request[b][q] \in Request /\ electionTerm[b] # 0
       /\ q \in Server
  BY <1>0, <1>11 DEF Receive, TypeOK, Peers
<1>13. /\ request[b][q].from = b /\ request[b][q].to = q
       /\ request[b][q].type = "vote" /\ request[b][q].term = electionTerm[b]
  BY <1>0, <1>12 DEF Calls, CallsOf
<1> QED BY <1>11, <1>12, <1>13 DEF Answer, InFlight

\* An open vote round stays the one it is until it ends.
LEMMA RoundsEnd ==
  ASSUME TypeInv, [Next]_vars, NEW b \in Server, electionTerm[b] # 0, electionTerm'[b] # 0
  PROVE  electionTerm'[b] = electionTerm[b]
<1>0. electionTerm \in [Server -> Nat]
  BY DEF TypeInv, TypeOK
<1>1. ASSUME NEW n \in Server, StartElection(n) PROVE electionTerm'[b] = electionTerm[b]
  BY <1>0, <1>1 DEF StartElection
<1>2. ASSUME NEW n \in Server, FinishElection(n) PROVE electionTerm'[b] = electionTerm[b]
  BY <1>0, <1>2 DEF FinishElection
<1> QED BY <1>1, <1>2 DEF Next, vars, roundVars, StartReplication, FinishReplication, ClientAppend,
         ReceiveAppendReply, Receive, ReceiveLate

\* Q has elected a in term t.
ElectedIn(a, t, Q) ==
  \A q \in Q : /\ Bound(q, a, t)
               /\ \A b \in Server \ {a} : ~HasVote(b, q, t)

\* An election stands.
LEMMA ElectedStays ==
  ASSUME TypeInv, [Next]_vars, NEW a \in Server, NEW t \in Nat, NEW Q \in Quorum,
         ElectedIn(a, t, Q)
  PROVE  ElectedIn(a, t, Q)'
<1> SUFFICES ASSUME NEW q \in Q
             PROVE  Bound(q, a, t)' /\ \A b \in Server \ {a} : ~HasVote(b, q, t)'
  BY DEF ElectedIn
<1>1. q \in Server /\ Bound(q, a, t) /\ TypeOK
  BY DEF ElectedIn, Quorum, TypeInv
<1>2. Bound(q, a, t)'
  BY <1>1, BoundStable
<1>3. ASSUME NEW b \in Server \ {a}, HasVote(b, q, t)' PROVE FALSE
  <2>1. ~HasVote(b, q, t)
    BY DEF ElectedIn
  <2>2. HasVote(b, q, electionTerm[b])'
    BY <1>3 DEF HasVote
  <2>3. electionTerm'[b] = t
    BY <1>3 DEF HasVote
  <2>4. CASE HasVote(b, q, electionTerm[b])
    \* it would be a vote of an earlier round that b still has open
    <3>1. electionTerm[b] # t
      BY <2>1, <2>4 DEF HasVote
    <3>2. electionTerm[b] # 0 /\ reply[b][q] # Nil
      BY <2>4 DEF HasVote
    <3>3. electionTerm'[b] # 0
      BY <1>3 DEF HasVote
    <3> QED BY <2>3, <3>1, <3>2, <3>3, RoundsEnd
  <2>5. CASE ~HasVote(b, q, electionTerm[b])
    <3> DEFINE m == request[b][q]
    <3>1. /\ electionTerm'[b] = electionTerm[b] /\ m \in Request /\ m.from = b
          /\ m.term = electionTerm[b] /\ Grants(q, m)
      BY <1>1, <2>2, <2>5, NewVote
    <3>2. m.term = t
      BY <2>3, <3>1
    <3> HIDE DEF m
    <3> QED BY <1>1, <3>1, <3>2, BoundRefuses
  <2> QED BY <2>4, <2>5
<1> QED BY <1>2, <1>3

\* A server that leads goes on leading in its term, or moves to a later one.
LEMMA LeaderStays ==
  ASSUME TypeInv, [Next]_vars, NEW a \in Server, state[a] = Leader
  PROVE  \/ currentTerm'[a] > currentTerm[a]
         \/ currentTerm'[a] = currentTerm[a] /\ state'[a] = Leader
<1>0. /\ TypeOK /\ Calls /\ currentTerm \in [Server -> Nat]
      /\ state \in [Server -> {Follower, Candidate, Leader}]
  BY DEF TypeInv, TypeOK
<1> DEFINE Goal == \/ currentTerm'[a] > currentTerm[a]
                   \/ currentTerm'[a] = currentTerm[a] /\ state'[a] = Leader
<1>1. UNCHANGED <<currentTerm, state>> => Goal
  OBVIOUS
<1>2. CASE UNCHANGED vars
  BY <1>1, <1>2 DEF vars, serverVars
<1>3. ASSUME NEW n \in Server, StartElection(n) PROVE Goal
  BY <1>0, <1>3 DEF StartElection
<1>4. ASSUME NEW n \in Server, FinishElection(n) PROVE Goal
  <2>1. n # a
    BY <1>0, <1>4 DEF FinishElection, Calls, CallsOf
  <2>2. currentTerm'[a] = currentTerm[a] /\ state'[a] = state[a]
    BY <1>0, <1>4, <2>1 DEF FinishElection, DiscardVotes, VotesShowNewerTerm, CountVotes,
       BecomeLeader, serverVars
  <2> QED BY <2>2
<1>5. ASSUME NEW n \in Server, StartReplication(n) PROVE Goal
  BY <1>1, <1>5 DEF StartReplication, serverVars
<1>6. ASSUME NEW n \in Server, FinishReplication(n) PROVE Goal
  BY <1>1, <1>6 DEF FinishReplication, serverVars
<1>7. ASSUME NEW n \in Server, NEW c \in Command, ClientAppend(n, c) PROVE Goal
  BY <1>1, <1>7 DEF ClientAppend, serverVars
<1>8. ASSUME NEW n \in Server, NEW p \in Peers(n), ReceiveAppendReply(n, p) PROVE Goal
  <2>1. /\ currentTerm' = [currentTerm EXCEPT ![n] = TermSeen(n, reply[n][p].term)]
        /\ state' = [state EXCEPT ![n] = RoleIn(n, reply[n][p].term)]
        /\ reply[n][p].term \in Nat
    BY <1>0, <1>8 DEF ReceiveAppendReply, TypeOK, Reply, Peers
  <2> QED BY <1>0, <2>1 DEF TermSeen, RoleIn, Newer
<1>9. ASSUME NEW n \in Server, NEW m \in Request, Handle(n, m) PROVE Goal
  <2>1. /\ currentTerm' = [currentTerm EXCEPT ![n] = TermSeen(n, m.term)]
        /\ \A k \in Server \ {n} : state'[k] = state[k]
        /\ state[n] = Leader /\ ~Newer(n, m.term) => state'[n] = Leader
    BY <1>0, <1>9, HandleRole
  <2>2. m.term \in Nat
    BY DEF Request, VoteRequest, AppendRequest
  <2> QED BY <1>0, <2>1, <2>2 DEF TermSeen, Newer
<1>10. ASSUME NEW n \in Server, NEW p \in Peers(n), Receive(n, p) PROVE Goal
  BY <1>9, <1>10, Delivery, FlightType
<1>11. ASSUME NEW m \in late, ReceiveLate(m) PROVE Goal
  BY <1>9, <1>11, Delivery, FlightType
<1> QED BY <1>2, <1>3, <1>4, <1>5, <1>6, <1>7, <1>8, <1>10, <1>11 DEF Next

\* n counts a majority of votes and becomes the leader.
Wins(n) ==
  /\ FinishElection(n)
  /\ ~VotesAreStale(n)
  /\ \E granted \in SUBSET {p \in Peers(n) : reply[n][p] # Nil /\ reply[n][p].ok} :
       WinsVote(n, granted)
  /\ BecomeLeader(n)
  /\ UNCHANGED <<currentTerm, votedFor>>

\* That is the only way to become a leader.
LEMMA NewLeader ==
  ASSUME TypeInv, [Next]_vars, NEW a \in Server, state'[a] = Leader
  PROVE  \/ state[a] = Leader /\ currentTerm'[a] = currentTerm[a]
         \/ Wins(a)
<1>0. /\ TypeOK /\ Calls /\ currentTerm \in [Server -> Nat]
      /\ state \in [Server -> {Follower, Candidate, Leader}]
  BY DEF TypeInv, TypeOK
<1> DEFINE Goal == state[a] = Leader /\ currentTerm'[a] = currentTerm[a]
<1>1. UNCHANGED <<currentTerm, state>> => Goal
  OBVIOUS
<1>2. CASE UNCHANGED vars
  BY <1>1, <1>2 DEF vars, serverVars
<1>3. ASSUME NEW n \in Server, StartElection(n) PROVE Goal
  BY <1>0, <1>3 DEF StartElection, Candidate, Leader
<1>4. ASSUME NEW n \in Server, FinishElection(n) PROVE Goal \/ Wins(a)
  <2>1. CASE DiscardVotes(n)
    BY <1>1, <2>1 DEF DiscardVotes, serverVars
  <2>2. CASE VotesShowNewerTerm(n)
    BY <1>0, <2>2 DEF VotesShowNewerTerm, Follower, Leader
  <2>3. CASE CountVotes(n)
    <3>1. PICK granted \in SUBSET {p \in Peers(n) : reply[n][p] # Nil /\ reply[n][p].ok} :
            IF WinsVote(n, granted) THEN BecomeLeader(n) ELSE UNCHANGED <<state, leaderVars>>
      BY <2>3 DEF CountVotes
    <3>2. CASE ~WinsVote(n, granted)
      BY <1>1, <2>3, <3>1, <3>2 DEF CountVotes
    <3>3. CASE WinsVote(n, granted) /\ n = a
      BY <1>4, <2>3, <3>1, <3>3 DEF CountVotes, Wins
    <3>4. CASE WinsVote(n, granted) /\ n # a
      BY <1>0, <2>3, <3>1, <3>4 DEF CountVotes, BecomeLeader
    <3> QED BY <3>2, <3>3, <3>4
  <2> QED BY <1>4, <2>1, <2>2, <2>3 DEF FinishElection
<1>5. ASSUME NEW n \in Server, StartReplication(n) PROVE Goal
  BY <1>1, <1>5 DEF StartReplication, serverVars
<1>6. ASSUME NEW n \in Server, FinishReplication(n) PROVE Goal
  BY <1>1, <1>6 DEF FinishReplication, serverVars
<1>7. ASSUME NEW n \in Server, NEW c \in Command, ClientAppend(n, c) PROVE Goal
  BY <1>1, <1>7 DEF ClientAppend, serverVars
<1>8. ASSUME NEW n \in Server, NEW p \in Peers(n), ReceiveAppendReply(n, p) PROVE Goal
  <2>1. /\ currentTerm' = [currentTerm EXCEPT ![n] = TermSeen(n, reply[n][p].term)]
        /\ state' = [state EXCEPT ![n] = RoleIn(n, reply[n][p].term)]
    BY <1>8 DEF ReceiveAppendReply
  <2> QED BY <1>0, <2>1 DEF TermSeen, RoleIn, Newer, Follower, Leader
<1>9. ASSUME NEW n \in Server, NEW m \in Request, Handle(n, m) PROVE Goal
  <2>1. /\ currentTerm' = [currentTerm EXCEPT ![n] = TermSeen(n, m.term)]
        /\ \A k \in Server \ {n} : state'[k] = state[k]
        /\ Newer(n, m.term) => state'[n] = Follower
        /\ state'[n] = state[n] \/ state'[n] = Follower
    BY <1>0, <1>9, HandleRole
  <2> QED BY <1>0, <2>1 DEF TermSeen, Newer, Follower, Leader
<1>10. ASSUME NEW n \in Server, NEW p \in Peers(n), Receive(n, p) PROVE Goal
  BY <1>9, <1>10, Delivery, FlightType
<1>11. ASSUME NEW m \in late, ReceiveLate(m) PROVE Goal
  BY <1>9, <1>11, Delivery, FlightType
<1> QED BY <1>2, <1>3, <1>4, <1>5, <1>6, <1>7, <1>8, <1>10, <1>11 DEF Next

-----------------------------------------------------------------------------
(* The invariant *)

\* W[t] was elected in term t, and leads in it until it moves on.
Winners(W) ==
  /\ \A t \in Nat : W[t] # Nil =>
       /\ \E Q \in Quorum : ElectedIn(W[t], t, Q)
       /\ currentTerm[W[t]] > t \/ (currentTerm[W[t]] = t /\ state[W[t]] = Leader)
  /\ \A n \in Server : state[n] = Leader => W[currentTerm[n]] = n

\* Every log is made of what leaders had, of terms its server has seen.
LogsFollow(L) ==
  \A s \in Server : /\ Follows(log[s], L)
                    /\ \A i \in 1..Len(log[s]) : log[s][i].term <= currentTerm[s]

\* Terms never decrease along l.
Sorted(l) == \A i, j \in 1..Len(l) : i <= j => l[i].term <= l[j].term

\* So is the log of every leader; L has it as it is now, or as it was when it
\* stopped to lead.
LeaderLogs(L, W) ==
  /\ \A t \in Nat : /\ Follows(L[t], L) /\ Sorted(L[t])
                    /\ W[t] = Nil => L[t] = <<>>
                    /\ \A i \in 1..Len(L[t]) : L[t][i].term <= t
  /\ \A n \in Server : state[n] = Leader => log[n] = L[currentTerm[n]]

\* A call to append is of the leader of its term and carries a part of its log.
CallsFollow(L, W) ==
  \A m \in Appends : m.from = W[m.term] /\ m.from # m.to /\ Part(m, L[m.term])

\* What a leader is to send next is in its log, or the next entry it will get.
NextInLog ==
  \A n, p \in Server : state[n] = Leader => nextIndex[n][p] <= Len(log[n])

LogInv(L, W) ==
  /\ Winners(W)
  /\ LogsFollow(L)
  /\ LeaderLogs(L, W)
  /\ CallsFollow(L, W)
  /\ NextInLog

Record == [Nat -> Seq(Entry)]
Leaders == [Nat -> Server \cup {Nil}]

\* A step in which nobody wins an election, or becomes the leader otherwise.
NobodyWins == \A n \in Server : ~Wins(n)

-----------------------------------------------------------------------------
(* Winners *)

\* The elections held stand, and the servers that won them lead or have moved on.
LEMMA ElectionsStand ==
  ASSUME TypeInv, [Next]_vars, NEW W \in Leaders, Winners(W), NEW t \in Nat, W[t] # Nil
  PROVE  /\ \E Q \in Quorum : ElectedIn(W[t], t, Q)'
         /\ currentTerm'[W[t]] > t \/ (currentTerm'[W[t]] = t /\ state'[W[t]] = Leader)
<1>1. PICK Q \in Quorum : ElectedIn(W[t], t, Q)
  BY DEF Winners
<1>2. W[t] \in Server
  BY DEF Leaders
<1>3. ElectedIn(W[t], t, Q)'
  BY <1>1, <1>2, ElectedStays
<1>4. currentTerm'[W[t]] > t \/ (currentTerm'[W[t]] = t /\ state'[W[t]] = Leader)
  <2>1. currentTerm[W[t]] \in Nat /\ currentTerm'[W[t]] \in Nat
        /\ currentTerm'[W[t]] >= currentTerm[W[t]]
    BY <1>2, StepType, StepVotes DEF TypeInv, TypeOK, VotesKept
  <2>2. currentTerm[W[t]] > t \/ (currentTerm[W[t]] = t /\ state[W[t]] = Leader)
    BY DEF Winners
  <2> QED BY <1>2, <2>1, <2>2, LeaderStays
<1> QED BY <1>3, <1>4

\* A step in which nobody wins keeps the winners.
LEMMA WinnersKept ==
  ASSUME TypeInv, [Next]_vars, NobodyWins, NEW W \in Leaders, Winners(W)
  PROVE  Winners(W)'
<1>1. ASSUME NEW n \in Server, state'[n] = Leader PROVE W[currentTerm'[n]] = n
  <2>1. state[n] = Leader /\ currentTerm'[n] = currentTerm[n]
    BY <1>1, NewLeader DEF NobodyWins
  <2> QED BY <2>1 DEF Winners
<1>2. ASSUME NEW t \in Nat, W[t] # Nil
      PROVE  /\ \E Q \in Quorum : ElectedIn(W[t], t, Q)'
             /\ currentTerm'[W[t]] > t \/ (currentTerm'[W[t]] = t /\ state'[W[t]] = Leader)
  BY <1>2, ElectionsStand
<1>3. Quorum' = Quorum
  BY DEF Quorum, Majority
<1> QED BY <1>1, <1>2, <1>3 DEF Winners

\* Who wins, wins a term that nobody has won before.
LEMMA WinIsNew ==
  ASSUME TypeInv, ElectionInv, NEW W \in Leaders, Winners(W), NEW n \in Server, Wins(n)
  PROVE  /\ W[currentTerm[n]] = Nil
         /\ \E Q \in Quorum : ElectedIn(n, currentTerm[n], Q)
<1> DEFINE t == currentTerm[n]
<1>1. PICK granted \in SUBSET {p \in Peers(n) : reply[n][p] # Nil /\ reply[n][p].ok} :
        WinsVote(n, granted)
  BY DEF Wins
<1> DEFINE R == granted \cup {n}
<1>2. /\ state[n] = Candidate /\ electionTerm[n] = t /\ electionTerm[n] # 0
      /\ t \in Nat /\ votedFor[n] = n
  BY DEF Wins, FinishElection, VotesAreStale, TypeInv, TypeOK, ElectionInv, OwnVote
<1>3. R \in Quorum
  BY <1>1 DEF WinsVote, Quorum, Peers
<1>4. \A q \in granted : q \in Server /\ HasVote(n, q, t)
  BY <1>2 DEF HasVote, Peers
<1>5. \A q \in R : Bound(q, n, t)
  BY <1>2, <1>4 DEF Bound, ElectionInv, VotesBind
<1>6. ElectedIn(n, t, R)
  <2> SUFFICES ASSUME NEW q \in R, NEW b \in Server \ {n}, HasVote(b, q, t) PROVE FALSE
    BY <1>5 DEF ElectedIn
  <2>1. electionTerm[b] = t /\ HasVote(b, q, electionTerm[b]) /\ q \in Server
    BY <1>4 DEF HasVote
  <2>2. CASE q = n
    <3>1. Bound(n, b, t)
      BY <2>1, <2>2 DEF ElectionInv, VotesBind
    <3> QED BY <1>2, <3>1 DEF Bound
  <2>3. CASE q \in granted
    BY <1>2, <1>4, <2>1, <2>3 DEF ElectionInv, VotesExclude
  <2> QED BY <2>2, <2>3
<1>7. ASSUME W[t] # Nil PROVE FALSE
  <2>1. PICK Q \in Quorum : ElectedIn(W[t], t, Q)
    BY <1>2, <1>7 DEF Winners
  <2>2. PICK q \in Server : q \in Q /\ q \in R
    BY <1>3, <2>1, QuorumsMeet
  <2>3. Bound(q, W[t], t) /\ \A b \in Server \ {W[t]} : ~HasVote(b, q, t)
    BY <2>1, <2>2 DEF ElectedIn
  <2>4. W[t] = n
    <3>1. CASE q = n
      BY <1>2, <2>3, <3>1 DEF Bound
    <3>2. CASE q \in granted
      BY <1>4, <2>3, <3>2
    <3> QED BY <2>2, <3>1, <3>2
  <2> QED BY <1>2, <1>7, <2>4 DEF Winners, Candidate, Leader
<1> QED BY <1>3, <1>6, <1>7

\* With the new leader on record, the winners are winners.
LEMMA WinnersWin ==
  ASSUME TypeInv, ElectionInv, NEW W \in Leaders, Winners(W), NEW n \in Server, Wins(n),
         NEW W2, W2 = [W EXCEPT ![currentTerm[n]] = n]
  PROVE  Winners(W2)'
<1> DEFINE t == currentTerm[n]
<1>0. TypeOK /\ [Next]_vars /\ t \in Nat
  BY DEF TypeInv, TypeOK, Wins, Next
<1>1. /\ \A a \in Server : currentTerm'[a] = currentTerm[a]
      /\ state'[n] = Leader /\ \A a \in Server \ {n} : state'[a] = state[a]
  BY <1>0 DEF Wins, BecomeLeader, TypeOK
<1>2. W[t] = Nil
  BY WinIsNew
<1>3. W2[t] = n /\ \A u \in Nat \ {t} : W2[u] = W[u]
  BY <1>0 DEF Leaders
<1>4. PICK R \in Quorum : ElectedIn(n, t, R)
  BY WinIsNew
<1>6. ASSUME NEW u \in Nat, W2[u] # Nil
      PROVE  /\ \E Q \in Quorum : ElectedIn(W2[u], u, Q)'
             /\ currentTerm'[W2[u]] > u \/ (currentTerm'[W2[u]] = u /\ state'[W2[u]] = Leader)
  <2>1. CASE u = t
    <3>1. ElectedIn(n, u, R)
      BY <1>4, <2>1
    <3>2. ElectedIn(n, u, R)'
      BY <1>0, <3>1, ElectedStays
    <3> QED BY <1>1, <1>3, <2>1, <3>2
  <2>2. CASE u # t
    BY <1>0, <1>3, <1>6, <2>2, ElectionsStand
  <2> QED BY <2>1, <2>2
<1>7. ASSUME NEW a \in Server, state'[a] = Leader PROVE W2[currentTerm'[a]] = a
  <2>1. CASE a = n
    BY <1>1, <1>3, <2>1
  <2>2. CASE a # n
    <3>1. W[currentTerm[a]] = a /\ currentTerm[a] \in Nat /\ a # Nil
      BY <1>0, <1>1, <1>7, <2>2, NilAssumption DEF Winners, TypeOK
    <3> QED BY <1>1, <1>2, <1>3, <3>1
  <2> QED BY <2>1, <2>2
<1>8. Quorum' = Quorum
  BY DEF Quorum, Majority
<1> QED BY <1>6, <1>7, <1>8 DEF Winners

-----------------------------------------------------------------------------
(* Logs *)

\* A log that follows leaders follows them when their logs have grown.
LEMMA GrownFollow ==
  ASSUME NEW L \in Record, NEW L2 \in Record, \A t \in Nat : Agree(L[t], L2[t], Len(L[t])),
         NEW l \in Seq(Entry), Follows(l, L)
  PROVE  Follows(l, L2)
<1> SUFFICES ASSUME NEW i \in 1..Len(l) PROVE Agree(l, L2[l[i].term], i)
  BY DEF Follows
<1>1. l[i].term \in Nat /\ i \in Nat
  BY LogEntryType
<1>2. Agree(l, L[l[i].term], i)
  BY DEF Follows
<1>3. L[l[i].term] \in Seq(Entry) /\ L2[l[i].term] \in Seq(Entry)
  BY <1>1 DEF Record
<1>4. Agree(L[l[i].term], L2[l[i].term], i)
  <2>1. Agree(L[l[i].term], L2[l[i].term], Len(L[l[i].term]))
    BY <1>1
  <2>2. i <= Len(L[l[i].term]) /\ Len(L[l[i].term]) \in Nat /\ Len(L2[l[i].term]) \in Nat
    BY <1>1, <1>2, <1>3 DEF Agree
  <2> QED BY <1>1, <2>1, <2>2, AgreeLess
<1> QED BY <1>2, <1>4 DEF Agree

\* What a step does to the log of s: nothing, or s appends a command, or s handles
\* a call to append.
LEMMA StepLog ==
  ASSUME TypeInv, [Next]_vars, NEW s \in Server
  PROVE  \/ log'[s] = log[s]
         \/ \E c \in Command : ClientAppend(s, c)
         \/ \E m \in Appends : m.to = s /\ HandleAppendEntries(s, m)
<1>0. TypeOK
  BY DEF TypeInv
<1> DEFINE Goal == \/ log'[s] = log[s]
                   \/ \E m \in Appends : m.to = s /\ HandleAppendEntries(s, m)
<1>1. ASSUME NEW m \in InFlight, m.to \in Server, Handle(m.to, m) PROVE Goal
  <2>1. CASE m.type = "vote" /\ HandleRequestVote(m.to, m)
    BY <2>1 DEF HandleRequestVote, logVars
  <2>2. CASE m.type = "append" /\ HandleAppendEntries(m.to, m)
    <3>1. CASE m.to = s
      BY <2>2, <3>1 DEF Appends
    <3>2. CASE m.to # s
      BY <1>0, <1>1, <2>2, <3>2 DEF HandleAppendEntries, RejectStaleLeader, RejectGap, RejectConflict,
         AcceptEntries, logVars, TypeOK
    <3> QED BY <3>1, <3>2
  <2> QED BY <1>1, <2>1, <2>2 DEF Handle
<1>2. ASSUME NEW n \in Server, NEW c \in Command, ClientAppend(n, c), n # s PROVE log'[s] = log[s]
  BY <1>0, <1>2 DEF ClientAppend, TypeOK
<1>3. ASSUME NEW n \in Server, NEW p \in Peers(n), Receive(n, p) PROVE Goal
  BY <1>1, <1>3, Delivery
<1>4. ASSUME NEW m \in late, ReceiveLate(m) PROVE Goal
  BY <1>1, <1>4, Delivery
<1> QED BY <1>2, <1>3, <1>4 DEF Next, vars, logVars, StartElection, FinishElection, StartReplication,
         FinishReplication, ReceiveAppendReply

\* What handling a call to append does to the term of its server: unless the call
\* is stale, its term becomes that of the call.
LEMMA HandleTerm ==
  ASSUME TypeInv, NEW m \in Appends, NEW s \in Server, m.to = s, HandleAppendEntries(s, m)
  PROVE  /\ m \in AppendRequest /\ m.term \in Nat
         /\ ~LeaderIsStale(s, m) => currentTerm'[s] = m.term
<1>1. m \in InFlight /\ m.type = "append"
  BY DEF Appends
<1>2. m \in AppendRequest /\ m.term \in Nat
  BY <1>1, FlightType
<1>3. ASSUME ~LeaderIsStale(s, m) PROVE currentTerm'[s] = m.term
  <2>1. currentTerm' = [currentTerm EXCEPT ![s] = TermSeen(s, m.term)]
    BY <1>3 DEF HandleAppendEntries, RejectStaleLeader, RejectGap, RejectConflict, AcceptEntries,
       FollowLeader
  <2> QED BY <1>2, <1>3, <2>1 DEF TypeInv, TypeOK, TermSeen, Newer, LeaderIsStale
<1> QED BY <1>2, <1>3

\* A log that a call to append has changed still follows leaders.
LEMMA HandledLog ==
  ASSUME TypeInv, NEW L \in Record, NEW W \in Leaders, LogInv(L, W),
         NEW m \in Appends, NEW s \in Server, m.to = s, HandleAppendEntries(s, m)
  PROVE  /\ L[m.term] \in Seq(Entry) /\ Part(m, L[m.term]) /\ Coherent(log[s], L[m.term])
         /\ log'[s] \in Seq(Entry)
         /\ Follows(log'[s], L)
         /\ \A i \in 1..Len(log'[s]) : log'[s][i].term <= currentTerm'[s]
<1> DEFINE w == L[m.term]
<1>0. /\ TypeOK /\ log[s] \in Seq(Entry) /\ Follows(log[s], L) /\ currentTerm[s] \in Nat
      /\ \A i \in 1..Len(log[s]) : log[s][i].term <= currentTerm[s]
  BY DEF TypeInv, TypeOK, LogInv, LogsFollow
<1>1. m \in AppendRequest /\ m.term \in Nat /\ (~LeaderIsStale(s, m) => currentTerm'[s] = m.term)
  BY HandleTerm
<1>2. /\ w \in Seq(Entry) /\ Part(m, w) /\ Follows(w, L)
      /\ \A i \in 1..Len(w) : w[i].term <= m.term
  BY <1>1 DEF LogInv, CallsFollow, LeaderLogs, Record
<1>3. Coherent(log[s], w)
  BY <1>0, <1>2, FollowersCohere DEF Record
<1>4. log'[s] \in Seq(Entry)
  BY <1>0, <1>1, HandleAppendType
<1> HIDE DEF w
<1>5. /\ \/ log'[s] = log[s]
         \/ Agree(log'[s], w, Len(log'[s]))
         \/ \E k \in Nat : k <= Len(log[s]) /\ log'[s] = Prefix(log[s], k)
      /\ LeaderIsStale(s, m) => log'[s] = log[s]
  BY <1>0, <1>1, <1>2, <1>3, AppendEffect
<1>6. Follows(log'[s], L)
  <2>1. CASE Agree(log'[s], w, Len(log'[s]))
    BY <1>2, <1>4, <2>1, AgreeFollows
  <2>2. ASSUME NEW k \in Nat, k <= Len(log[s]), log'[s] = Prefix(log[s], k) PROVE Follows(log'[s], L)
    BY <1>0, <2>2, PrefixFollows
  <2> QED BY <1>0, <1>5, <2>1, <2>2
<1>7. ASSUME NEW i \in 1..Len(log'[s]) PROVE log'[s][i].term <= currentTerm'[s]
  <2>1. CASE LeaderIsStale(s, m)
    <3>1. currentTerm'[s] = currentTerm[s]
      BY <2>1 DEF HandleAppendEntries, RejectStaleLeader, RejectGap, RejectConflict, AcceptEntries,
         FollowLeader, serverVars
    <3> QED BY <1>0, <1>5, <2>1, <3>1
  <2>2. CASE ~LeaderIsStale(s, m)
    <3>1. currentTerm[s] <= m.term /\ currentTerm'[s] = m.term
      BY <1>0, <1>1, <2>2 DEF LeaderIsStale
    <3>2. CASE Agree(log'[s], w, Len(log'[s]))
      <4>1. i \in 1..Len(w) /\ log'[s][i] = w[i]
        BY <1>2, <1>4, <3>2 DEF Agree
      <4> QED BY <1>2, <3>1, <4>1
    <3>3. ASSUME NEW k \in Nat, k <= Len(log[s]), log'[s] = Prefix(log[s], k)
          PROVE  log'[s][i].term <= currentTerm'[s]
      <4>1. i \in 1..Len(log[s]) /\ log'[s][i] = log[s][i]
        BY <1>0, <1>4, <3>3, PrefixIs
      <4>2. log[s][i].term \in Nat
        BY <1>0, <4>1, LogEntryType
      <4> QED BY <1>0, <1>1, <3>1, <4>1, <4>2
    <3>4. CASE log'[s] = log[s]
      <4>1. i \in 1..Len(log[s]) /\ log[s][i].term \in Nat
        BY <1>0, <3>4, LogEntryType
      <4> QED BY <1>0, <1>1, <3>1, <3>4, <4>1
    <3> QED BY <1>5, <3>2, <3>3, <3>4
  <2> QED BY <2>1, <2>2
<1> QED BY <1>2, <1>3, <1>4, <1>6, <1>7 DEF w

\* A leader that goes on leading in its term takes no calls to append:
LEMMA LeaderRefuses ==
  ASSUME TypeInv, NEW L \in Record, NEW W \in Leaders, LogInv(L, W),
         NEW n \in Server, state[n] = Leader, currentTerm'[n] = currentTerm[n],
         NEW m \in Appends, m.to = n, HandleAppendEntries(n, m)
  PROVE  log'[n] = log[n]
<1>1. TypeOK /\ m \in AppendRequest /\ (~LeaderIsStale(n, m) => currentTerm'[n] = m.term)
  BY HandleTerm DEF TypeInv
<1>2. L[m.term] \in Seq(Entry) /\ Part(m, L[m.term]) /\ Coherent(log[n], L[m.term])
  BY HandledLog
<1>3. LeaderIsStale(n, m) => log'[n] = log[n]
  BY <1>1, <1>2, AppendEffect
<1>4. m.from = W[m.term] /\ m.from # m.to /\ W[currentTerm[n]] = n
  BY DEF LogInv, CallsFollow, Winners
<1> QED BY <1>1, <1>3, <1>4

\* its log changes by its own appends only.
LEMMA LeaderKeepsLog ==
  ASSUME TypeInv, [Next]_vars, NEW L \in Record, NEW W \in Leaders, LogInv(L, W),
         NEW n \in Server, state[n] = Leader, currentTerm'[n] = currentTerm[n],
         \A c \in Command : ~ClientAppend(n, c)
  PROVE  log'[n] = log[n]
BY StepLog, LeaderRefuses

\* What Python's log[k:] holds.
LEMMA SuffixIs ==
  ASSUME NEW l \in Seq(Entry), NEW k \in Nat, k <= Len(l)
  PROVE  /\ Len(SubSeq(l, k + 1, Len(l))) = Len(l) - k
         /\ \A i \in 1..Len(l) - k : SubSeq(l, k + 1, Len(l))[i] = l[k + i]
BY SMTT(30)

\* Where the part that a call carries begins and ends.
LEMMA PartEnds ==
  ASSUME NEW m \in AppendRequest, NEW w \in Seq(Entry), Part(m, w)
  PROVE  /\ m.prevIndex \in Int /\ m.prevIndex >= -1 /\ Len(m.entries) \in Nat
         /\ m.prevIndex + 1 \in Nat /\ End(m) \in Nat
         /\ m.prevIndex + 1 <= End(m) /\ End(m) <= Len(w)
<1>1. m.prevIndex \in Index /\ m.entries \in Seq(Entry)
  BY DEF AppendRequest
<1>2. m.prevIndex \in Int /\ m.prevIndex >= -1 /\ Len(m.entries) \in Nat
  BY <1>1, IndexIsInt
<1>3. m.prevIndex + 1 + Len(m.entries) <= Len(w)
  BY DEF Part
<1>4. PICK i, k : i = m.prevIndex /\ k = Len(m.entries)
  OBVIOUS
<1>5. End(m) = i + 1 + k
  BY <1>4 DEF End
<1> QED BY <1>2, <1>3, <1>4, <1>5

\* The calls that a leader sends carry parts of its log.
LEMMA AskIsPart ==
  ASSUME TypeOK, NEW n \in Server, NEW p \in Server, nextIndex[n][p] <= Len(log[n])
  PROVE  Part(AskAppend(n, p), log[n])
<1> DEFINE k == nextIndex[n][p]
           e == SubSeq(log[n], k + 1, Len(log[n]))
           m == AskAppend(n, p)
<1>1. log[n] \in Seq(Entry) /\ k \in Nat /\ Len(log[n]) \in Nat /\ k <= Len(log[n])
  BY DEF TypeOK
<1>2. m.prevIndex = k - 1 /\ m.entries = e
      /\ m.prevTerm = IF k - 1 >= 0 /\ log[n] # <<>> THEN At(log[n], k - 1).term ELSE 0
  BY DEF AskAppend
<1>3. Len(e) = Len(log[n]) - k /\ \A i \in 1..Len(e) : e[i] = log[n][k + i]
  <2> HIDE DEF k
  <2> QED BY <1>1, SuffixIs
<1>4. k >= 1 => log[n] # <<>>
  BY <1>1
<1> HIDE DEF m, e, k
<1>5. m.prevIndex + 1 + Len(m.entries) = Len(log[n]) /\ m.prevIndex + 1 = k
  BY <1>1, <1>2, <1>3
<1>6. m.prevIndex >= 0 => m.prevTerm = log[n][m.prevIndex + 1].term
  BY <1>1, <1>2, <1>4 DEF At
<1>7. Part(m, log[n])
  BY <1>1, <1>2, <1>3, <1>5, <1>6 DEF Part
<1> QED BY <1>7 DEF m

\* The record has grown: no log in it has changed but by additions, and no term has
\* got another leader.
Grown(L, W, L2, W2) ==
  \A t \in Nat : /\ Agree(L[t], L2[t], Len(L[t]))
                 /\ W[t] # Nil => W2[t] = W[t]

\* Calls under way carry parts of the logs of leaders.
LEMMA FlightFollows ==
  ASSUME TypeInv, [Next]_vars, NEW L \in Record, NEW W \in Leaders, LogInv(L, W),
         NEW L2 \in Record, NEW W2 \in Leaders, Grown(L, W, L2, W2)
  PROVE  CallsFollow(L2, W2)'
<1>0. TypeOK /\ TypeInv'
  BY StepType, StepCalls DEF TypeInv
<1> SUFFICES ASSUME NEW m \in InFlight', m.type = "append"
             PROVE  m.from = W2[m.term] /\ m.from # m.to /\ Part(m, L2[m.term])
  BY DEF CallsFollow, Appends
<1>1. m \in AppendRequest /\ m.term \in Nat /\ m.from \in Server /\ m.from # Nil
  <2>1. m \in Request
    BY <1>0 DEF TypeInv, TypeOK, InFlight
  <2> QED BY <2>1, NilAssumption DEF Request, VoteRequest, AppendRequest
<1>2. m.from = W[m.term] /\ m.from # m.to /\ Part(m, L[m.term])
  <2>1. CASE m \in InFlight
    BY <2>1 DEF LogInv, CallsFollow, Appends
  <2>2. CASE m \notin InFlight
    <3>0. PICK n \in Server : \E p \in Peers(n) :
            \/ StartElection(n) /\ m = AskVote(n, p, currentTerm[n] + 1)
            \/ StartReplication(n) /\ ~OutOfLog(n, p) /\ m = AskAppend(n, p)
      BY <2>2, StepFlight
    <3>1. PICK p \in Peers(n) :
            \/ StartElection(n) /\ m = AskVote(n, p, currentTerm[n] + 1)
            \/ StartReplication(n) /\ ~OutOfLog(n, p) /\ m = AskAppend(n, p)
      BY <3>0
    <3>2. StartReplication(n) /\ m = AskAppend(n, p)
      BY <3>1 DEF AskVote
    <3>3. state[n] = Leader /\ p \in Server /\ p # n
      BY <3>2 DEF StartReplication, Peers
    <3>4. nextIndex[n][p] <= Len(log[n]) /\ log[n] = L[currentTerm[n]] /\ W[currentTerm[n]] = n
      BY <3>3 DEF LogInv, NextInLog, LeaderLogs, Winners
    <3>5. m.from = n /\ m.to = p /\ m.term = currentTerm[n]
      BY <3>2 DEF AskAppend
    <3>6. Part(m, log[n])
      BY <1>0, <3>2, <3>3, <3>4, AskIsPart
    <3> QED BY <3>3, <3>4, <3>5, <3>6
  <2> QED BY <2>1, <2>2
<1>3. Agree(L[m.term], L2[m.term], Len(L[m.term])) /\ W2[m.term] = W[m.term]
  BY <1>1, <1>2 DEF Grown
<1>4. Part(m, L2[m.term])
  <2>1. /\ m.prevIndex \in Int /\ m.prevIndex >= -1 /\ m.entries \in Seq(Entry)
        /\ L[m.term] \in Seq(Entry) /\ L2[m.term] \in Seq(Entry)
    <3>1. m.prevIndex \in Index /\ m.entries \in Seq(Entry)
      BY <1>1 DEF AppendRequest
    <3> QED BY <1>1, <3>1, IndexIsInt DEF Record
  <2> DEFINE w == L[m.term]
             w2 == L2[m.term]
             e == m.entries
  <2>2. Len(w) \in Nat /\ Len(w2) \in Nat /\ Len(e) \in Nat
    BY <2>1
  <2> HIDE DEF w, w2, e
  <2>3. Agree(w, w2, Len(w))
    BY <1>3 DEF w, w2
  <2>4. /\ m.prevIndex + 1 + Len(e) <= Len(w)
        /\ \A i \in 1..Len(e) : e[i] = w[m.prevIndex + 1 + i]
        /\ m.prevIndex >= 0 => m.prevTerm = w[m.prevIndex + 1].term
    BY <1>2 DEF Part, w, e
  <2>5. m.prevIndex + 1 + Len(e) <= Len(w2)
    BY <2>1, <2>2, <2>3, <2>4 DEF Agree
  <2>6. \A i \in 1..Len(e) : e[i] = w2[m.prevIndex + 1 + i]
    <3> SUFFICES ASSUME NEW i \in 1..Len(e) PROVE e[i] = w2[m.prevIndex + 1 + i]
      OBVIOUS
    <3>1. m.prevIndex + 1 + i \in 1..Len(w)
      BY <2>1, <2>2, <2>4
    <3> QED BY <2>3, <2>4, <3>1 DEF Agree
  <2>7. m.prevIndex >= 0 => m.prevTerm = w2[m.prevIndex + 1].term
    <3> SUFFICES ASSUME m.prevIndex >= 0 PROVE m.prevTerm = w2[m.prevIndex + 1].term
      OBVIOUS
    <3>0. PICK p, a, b : p = m.prevIndex /\ a = Len(e) /\ b = Len(w)
      OBVIOUS
    <3>1. m.prevIndex + 1 \in 1..Len(w)
      <4>1. p \in Int /\ p >= 0 /\ a \in Nat /\ b \in Nat /\ p + 1 + a <= b
        BY <2>1, <2>2, <2>4, <3>0
      <4>2. p + 1 \in 1..b
        BY <4>1
      <4> QED BY <3>0, <4>2
    <3> QED BY <2>3, <2>4, <3>1 DEF Agree
  <2> QED BY <2>5, <2>6, <2>7 DEF Part, w2, e
<1> QED BY <1>2, <1>3, <1>4

\* Only winning an election and an answer change next_index and match_index.
LEMMA StepIndexes ==
  ASSUME TypeInv, [Next]_vars, NEW n \in Server, state[n] = Leader
  PROVE  \/ nextIndex'[n] = nextIndex[n] /\ matchIndex'[n] = matchIndex[n]
         \/ \E p \in Peers(n) : ReceiveAppendReply(n, p)
<1>0. TypeOK /\ Calls
  BY DEF TypeInv
<1> DEFINE Same == nextIndex'[n] = nextIndex[n] /\ matchIndex'[n] = matchIndex[n]
<1>1. UNCHANGED leaderVars => Same
  BY DEF leaderVars
<1>2. ASSUME NEW k \in Server, FinishElection(k) PROVE Same
  <2>1. k # n
    BY <1>0, <1>2 DEF FinishElection, Calls, CallsOf
  <2>2. CASE BecomeLeader(k)
    BY <1>0, <2>1, <2>2 DEF BecomeLeader, TypeOK
  <2> QED BY <1>1, <1>2, <2>2 DEF FinishElection, DiscardVotes, VotesShowNewerTerm, CountVotes, leaderVars
<1>3. ASSUME NEW k \in Server, NEW p \in Peers(k), ReceiveAppendReply(k, p), k # n PROVE Same
  <2>1. CASE UNCHANGED leaderVars
    BY <1>1, <2>1
  <2>2. CASE AppendAccepted(k, p)
    BY <1>0, <1>3, <2>2 DEF AppendAccepted, TypeOK
  <2>3. CASE AppendRejected(k, p)
    BY <1>0, <1>3, <2>3 DEF AppendRejected, TypeOK, leaderVars
  <2> QED BY <1>3, <2>1, <2>2, <2>3 DEF ReceiveAppendReply
<1> QED BY <1>1, <1>2, <1>3 DEF Next, vars, StartElection, StartReplication, FinishReplication,
         ClientAppend, Receive, ReceiveLate

\* The request of a leader's open round to p carries a part of its log.
LEMMA RoundIsPart ==
  ASSUME TypeInv, NEW L \in Record, NEW W \in Leaders, LogInv(L, W),
         NEW n \in Server, NEW p \in Server, replicating[n], request[n][p] # Nil
  PROVE  /\ state[n] = Leader
         /\ request[n][p] \in Appends /\ request[n][p] \in AppendRequest
         /\ request[n][p].term = currentTerm[n]
         /\ request[n][p].from = n /\ request[n][p].to = p
         /\ Part(request[n][p], log[n])
<1> DEFINE m == request[n][p]
<1>1. /\ state[n] = Leader /\ m.type = "append" /\ m.term = currentTerm[n]
      /\ m.from = n /\ m.to = p
  BY DEF TypeInv, Calls, CallsOf
<1>2. m \in InFlight
  BY DEF InFlight
<1>3. m \in Appends /\ m \in AppendRequest
  BY <1>1, <1>2, FlightType DEF Appends
<1>4. Part(m, L[m.term]) /\ log[n] = L[currentTerm[n]]
  BY <1>1, <1>3 DEF LogInv, CallsFollow, LeaderLogs
<1> QED BY <1>1, <1>3, <1>4

\* next_index stays within the log.
LEMMA NextStays ==
  ASSUME TypeInv, [Next]_vars, NEW L \in Record, NEW W \in Leaders, LogInv(L, W)
  PROVE  NextInLog'
<1>0. TypeOK /\ TypeOK'
  BY StepType DEF TypeInv
<1> SUFFICES ASSUME NEW n \in Server, NEW p \in Server, state'[n] = Leader
             PROVE  nextIndex'[n][p] <= Len(log'[n])
  BY DEF NextInLog
<1>1. CASE Wins(n)
  BY <1>0, <1>1 DEF Wins, FinishElection, BecomeLeader, logVars, TypeOK
<1>2. CASE state[n] = Leader /\ currentTerm'[n] = currentTerm[n]
  <2>1. Len(log[n]) <= Len(log'[n]) /\ Len(log[n]) \in Nat /\ Len(log'[n]) \in Nat
    <3>1. ASSUME NEW c \in Command, ClientAppend(n, c)
          PROVE  Len(log[n]) <= Len(log'[n]) /\ Len(log[n]) \in Nat /\ Len(log'[n]) \in Nat
      <4>1. /\ log[n] \in Seq(Entry) /\ [term |-> currentTerm[n], command |-> c] \in Entry
            /\ log'[n] = Append(log[n], [term |-> currentTerm[n], command |-> c])
        BY <1>0, <3>1 DEF ClientAppend, TypeOK, Entry
      <4> QED BY <4>1
    <3>2. CASE \A c \in Command : ~ClientAppend(n, c)
      <4>1. log'[n] = log[n]
        BY <1>2, <3>2, LeaderKeepsLog
      <4> QED BY <1>0, <4>1 DEF TypeOK
    <3> QED BY <3>1, <3>2
  <2>2. nextIndex[n][p] <= Len(log[n]) /\ nextIndex[n][p] \in Nat
    BY <1>0, <1>2 DEF LogInv, NextInLog, TypeOK
  <2>3. CASE nextIndex'[n] = nextIndex[n]
    BY <2>1, <2>2, <2>3
  <2>4. ASSUME NEW q \in Peers(n), ReceiveAppendReply(n, q) PROVE nextIndex'[n][p] <= Len(log'[n])
    <3> DEFINE m == request[n][q]
    <3>1. replicating[n] /\ m # Nil /\ q \in Server
      BY <2>4 DEF ReceiveAppendReply, TypeInv, Calls, CallsOf, Peers
    <3>2. Part(m, log[n]) /\ m \in AppendRequest
      BY <3>1, RoundIsPart
    <3>3. /\ m.prevIndex \in Int /\ m.prevIndex >= -1 /\ Len(m.entries) \in Nat
          /\ m.prevIndex + 1 <= End(m) /\ End(m) <= Len(log[n]) /\ End(m) \in Nat
      <4> HIDE DEF m
      <4>1. log[n] \in Seq(Entry)
        BY <1>0 DEF TypeOK
      <4> QED BY <3>2, <4>1, PartEnds
    <3>4. m.prevIndex + Len(m.entries) + 1 <= Len(log[n]) /\ m.prevIndex + 1 <= Len(log[n])
      <4> HIDE DEF m
      <4> QED BY <2>1, <3>3 DEF End
    <3>5. nextIndex'[n][p] \in {nextIndex[n][p], m.prevIndex + Len(m.entries) + 1,
                                IF m.prevIndex > 0 THEN m.prevIndex ELSE 0}
      <4>0. nextIndex \in [Server -> [Server -> Nat]]
        BY <1>0 DEF TypeOK
      <4>1. CASE UNCHANGED leaderVars
        BY <4>1 DEF leaderVars
      <4>2. CASE AppendAccepted(n, q)
        <5>1. nextIndex' = [nextIndex EXCEPT ![n][q] = m.prevIndex + Len(m.entries) + 1]
          BY <4>2 DEF AppendAccepted
        <5>2. PICK k : k = m.prevIndex + Len(m.entries) + 1
          OBVIOUS
        <5>3. nextIndex' = [nextIndex EXCEPT ![n][q] = k]
          BY <5>1, <5>2
        <5> HIDE DEF m
        <5>4. nextIndex'[n][p] \in {nextIndex[n][p], k}
          BY <3>1, <4>0, <5>3
        <5> QED BY <5>2, <5>4
      <4>3. CASE AppendRejected(n, q)
        <5>1. PICK k : /\ k = IF m.prevIndex > 0 THEN m.prevIndex ELSE 0
                       /\ nextIndex' = [nextIndex EXCEPT ![n][q] = k]
          BY <4>3 DEF AppendRejected
        <5> HIDE DEF m
        <5>2. nextIndex'[n][p] \in {nextIndex[n][p], k}
          BY <3>1, <4>0, <5>1
        <5> QED BY <5>1, <5>2
      <4> QED BY <2>4, <4>1, <4>2, <4>3 DEF ReceiveAppendReply
    <3> HIDE DEF m
    <3>6. m.prevIndex + Len(m.entries) + 1 <= Len(log'[n])
          /\ (IF m.prevIndex > 0 THEN m.prevIndex ELSE 0) <= Len(log'[n])
      <4>1. PICK i, j, x, y : i = m.prevIndex /\ j = Len(m.entries) /\ x = Len(log[n]) /\ y = Len(log'[n])
        OBVIOUS
      <4>2. i \in Int /\ j \in Nat /\ x \in Nat /\ y \in Nat /\ x <= y /\ i + j + 1 <= x /\ i + 1 <= x
        BY <2>1, <3>3, <3>4, <4>1
      <4>3. i + j + 1 <= y /\ (IF i > 0 THEN i ELSE 0) <= y
        BY <4>2
      <4> QED BY <4>1, <4>3
    <3>7. nextIndex[n][p] <= Len(log'[n])
      BY <2>1, <2>2
    <3> QED BY <3>5, <3>6, <3>7
  <2> QED BY <1>2, <2>3, <2>4, StepIndexes
<1> QED BY <1>1, <1>2, NewLeader

-----------------------------------------------------------------------------
(* The invariant is kept *)

\* Every log still follows leaders, if what a leader appends is in its record.
LEMMA LogsStay ==
  ASSUME TypeInv, [Next]_vars, NEW L \in Record, NEW W \in Leaders, LogInv(L, W),
         NEW L2 \in Record, \A t \in Nat : Agree(L[t], L2[t], Len(L[t])),
         \A n \in Server, c \in Command : ClientAppend(n, c) =>
           /\ Follows(log'[n], L2)
           /\ \A i \in 1..Len(log'[n]) : log'[n][i].term <= currentTerm[n]
  PROVE  LogsFollow(L2)'
<1>0. TypeOK /\ TypeOK' /\ L2' = L2
  BY StepType DEF TypeInv
<1> SUFFICES ASSUME NEW s \in Server
             PROVE  /\ Follows(log'[s], L2)
                    /\ \A i \in 1..Len(log'[s]) : log'[s][i].term <= currentTerm'[s]
  BY DEF LogsFollow
<1>1. /\ Follows(log[s], L) /\ \A i \in 1..Len(log[s]) : log[s][i].term <= currentTerm[s]
      /\ log[s] \in Seq(Entry) /\ log'[s] \in Seq(Entry)
      /\ currentTerm[s] \in Nat /\ currentTerm'[s] \in Nat
  BY <1>0 DEF LogInv, LogsFollow, TypeOK
<1>2. currentTerm'[s] >= currentTerm[s]
  BY StepVotes DEF VotesKept
<1>3. CASE log'[s] = log[s]
  <2>1. Follows(log'[s], L2)
    BY <1>1, <1>3, GrownFollow
  <2>2. ASSUME NEW i \in 1..Len(log'[s]) PROVE log'[s][i].term <= currentTerm'[s]
    <3>1. log[s][i].term <= currentTerm[s] /\ log[s][i].term \in Nat /\ log'[s][i] = log[s][i]
      BY <1>1, <1>3, LogEntryType
    <3> QED BY <1>1, <1>2, <3>1
  <2> QED BY <2>1, <2>2
<1>4. ASSUME NEW c \in Command, ClientAppend(s, c)
      PROVE  /\ Follows(log'[s], L2)
             /\ \A i \in 1..Len(log'[s]) : log'[s][i].term <= currentTerm'[s]
  BY <1>4 DEF ClientAppend, serverVars
<1>5. ASSUME NEW m \in Appends, m.to = s, HandleAppendEntries(s, m)
      PROVE  /\ Follows(log'[s], L2)
             /\ \A i \in 1..Len(log'[s]) : log'[s][i].term <= currentTerm'[s]
  <2>1. Follows(log'[s], L) /\ \A i \in 1..Len(log'[s]) : log'[s][i].term <= currentTerm'[s]
    BY <1>5, HandledLog
  <2>2. Follows(log'[s], L2)
    BY <1>1, <2>1, GrownFollow
  <2> QED BY <2>1, <2>2
<1> QED BY <1>3, <1>4, <1>5, StepLog

\* A record of which one log has been continued has grown.
LEMMA RecordGrows ==
  ASSUME NEW L \in Record, NEW L2 \in Record, NEW t \in Nat, Agree(L[t], L2[t], Len(L[t])),
         \A u \in Nat \ {t} : L2[u] = L[u]
  PROVE  \A u \in Nat : Agree(L[u], L2[u], Len(L[u]))
<1> SUFFICES ASSUME NEW u \in Nat PROVE Agree(L[u], L2[u], Len(L[u]))
  OBVIOUS
<1>1. CASE u = t
  BY <1>1
<1>2. CASE u # t
  <2>1. L[u] \in Seq(Entry) /\ L2[u] = L[u]
    BY <1>2 DEF Record
  <2> QED BY <2>1 DEF Agree
<1> QED BY <1>1, <1>2

\* A step that neither elects a leader nor appends a command keeps the record as it is.
LEMMA QuietStepLog ==
  ASSUME TypeInv, [Next]_vars, NEW L \in Record, NEW W \in Leaders, LogInv(L, W),
         NobodyWins, \A n \in Server, c \in Command : ~ClientAppend(n, c)
  PROVE  LogInv(L, W)'
<1>1. \A t \in Nat : Agree(L[t], L[t], Len(L[t]))
  BY DEF Agree, Record
<1>2. Winners(W)'
  BY WinnersKept DEF LogInv
<1>3. LogsFollow(L)'
  BY <1>1, LogsStay
<1>4. LeaderLogs(L, W)'
  <2>1. ASSUME NEW n \in Server, state'[n] = Leader PROVE log'[n] = L[currentTerm'[n]]
    <3>1. state[n] = Leader /\ currentTerm'[n] = currentTerm[n]
      BY <2>1, NewLeader DEF NobodyWins
    <3>2. log'[n] = log[n]
      BY <3>1, LeaderKeepsLog
    <3> QED BY <3>1, <3>2 DEF LogInv, LeaderLogs
  <2> QED BY <2>1 DEF LogInv, LeaderLogs
<1>5. CallsFollow(L, W)'
  <2>1. Grown(L, W, L, W)
    BY <1>1 DEF Grown
  <2> QED BY <2>1, FlightFollows
<1>6. NextInLog'
  BY NextStays
<1> QED BY <1>2, <1>3, <1>4, <1>5, <1>6 DEF LogInv

\* A leader appends a command to its log, and the record of its term grows.
LEMMA ClientStepLog ==
  ASSUME TypeInv, NEW L \in Record, NEW W \in Leaders, LogInv(L, W),
         NEW n \in Server, NEW c \in Command, ClientAppend(n, c),
         NEW L2, L2 = [L EXCEPT ![currentTerm[n]] = log'[n]]
  PROVE  L2 \in Record /\ Grown(L, W, L2, W) /\ LogInv(L2, W)'
<1> DEFINE t == currentTerm[n]
           e == [term |-> t, command |-> c]
<1>0. /\ TypeOK /\ TypeOK' /\ [Next]_vars /\ t \in Nat /\ state[n] = Leader
      /\ UNCHANGED <<currentTerm, state>>
  BY StepType DEF TypeInv, TypeOK, ClientAppend, Next, serverVars
<1>1. /\ log[n] \in Seq(Entry) /\ log'[n] \in Seq(Entry) /\ e \in Entry /\ log'[n] = Append(log[n], e)
      /\ \A s \in Server \ {n} : log'[s] = log[s]
  BY <1>0 DEF TypeOK, ClientAppend, Entry
<1>2. log[n] = L[t] /\ W[t] = n
  BY <1>0 DEF LogInv, LeaderLogs, Winners
<1>3. Agree(L[t], log'[n], Len(L[t])) /\ Len(log'[n]) = Len(L[t]) + 1 /\ log'[n][Len(log'[n])] = e
      /\ \A i \in 1..Len(log'[n]) : i \in 1..Len(L[t]) \/ i = Len(log'[n])
  <2> HIDE DEF e
  <2> QED BY <1>1, <1>2 DEF Agree
<1>4. /\ L2 \in Record /\ L2[t] = log'[n] /\ \A u \in Nat \ {t} : L2[u] = L[u]
      /\ \A u \in Nat : Agree(L[u], L2[u], Len(L[u]))
  <2> DEFINE l == log'[n]
  <2>1. l \in Seq(Entry) /\ t \in Nat /\ Agree(L[t], l, Len(L[t])) /\ L2 = [L EXCEPT ![t] = l]
    BY <1>0, <1>1, <1>3
  <2> HIDE DEF t, l
  <2>2. L2 \in Record /\ L2[t] = l /\ \A u \in Nat \ {t} : L2[u] = L[u]
    BY <2>1 DEF Record
  <2>3. \A u \in Nat : Agree(L[u], L2[u], Len(L[u]))
    BY <2>1, <2>2, RecordGrows
  <2> QED BY <2>2, <2>3 DEF l
<1>5. \A u \in Nat : Follows(L[u], L2)
  <2> SUFFICES ASSUME NEW u \in Nat PROVE Follows(L[u], L2)
    OBVIOUS
  <2>1. L[u] \in Seq(Entry) /\ Follows(L[u], L)
    BY DEF Record, LogInv, LeaderLogs
  <2> QED BY <1>4, <2>1, GrownFollow
<1>6. Follows(log'[n], L2)
  <2> SUFFICES ASSUME NEW i \in 1..Len(log'[n]) PROVE Agree(log'[n], L2[log'[n][i].term], i)
    BY DEF Follows
  <2>1. CASE i \in 1..Len(L[t])
    <3>1. log'[n][i] = L[t][i] /\ Agree(L[t], L2[L[t][i].term], i)
      BY <1>0, <1>3, <1>5, <2>1 DEF Agree, Follows
    <3>2. PICK l, w : l = log'[n] /\ w = L2[L[t][i].term]
      OBVIOUS
    <3>3. Agree(L[t], w, i) /\ Agree(L[t], l, Len(L[t])) /\ i \in 1..Len(L[t]) /\ Len(L[t]) \in Nat
      <4>1. L[t] \in Seq(Entry)
        BY <1>0 DEF Record
      <4> QED BY <1>3, <2>1, <3>1, <3>2, <4>1
    <3> HIDE DEF t
    <3>4. Agree(l, w, i)
      BY <3>3 DEF Agree
    <3> QED BY <3>1, <3>2, <3>4 DEF t
  <2>2. CASE i = Len(log'[n])
    <3>1. log'[n][i].term = t
      BY <1>3, <2>2
    <3>2. L2[log'[n][i].term] = log'[n]
      BY <1>4, <3>1
    <3> QED BY <2>2, <3>2 DEF Agree
  <2> QED BY <1>3, <2>1, <2>2
<1>7. \A i \in 1..Len(log'[n]) : log'[n][i].term <= t
  <2> SUFFICES ASSUME NEW i \in 1..Len(log'[n]) PROVE log'[n][i].term <= t
    OBVIOUS
  <2>1. CASE i \in 1..Len(L[t])
    BY <1>0, <1>3, <2>1 DEF Agree, LogInv, LeaderLogs
  <2>2. CASE i = Len(log'[n])
    BY <1>0, <1>3, <2>2
  <2> QED BY <1>3, <2>1, <2>2
<1>8. Sorted(log'[n])
  <2> SUFFICES ASSUME NEW i \in 1..Len(log'[n]), NEW j \in 1..Len(log'[n]), i <= j
               PROVE  log'[n][i].term <= log'[n][j].term
    BY DEF Sorted
  <2>1. CASE j \in 1..Len(L[t])
    <3>0. Sorted(L[t]) /\ L[t] \in Seq(Entry)
      BY <1>0 DEF LogInv, LeaderLogs, Record
    <3>1. i \in 1..Len(L[t]) /\ L[t][i].term <= L[t][j].term
      <4> HIDE DEF t
      <4>1. i \in 1..Len(L[t])
        BY <2>1, <3>0
      <4> QED BY <2>1, <3>0, <4>1 DEF Sorted
    <3> QED BY <1>3, <2>1, <3>1 DEF Agree
  <2>2. CASE j = Len(log'[n])
    BY <1>3, <1>7, <2>2
  <2> QED BY <1>3, <2>1, <2>2
<1>9. Grown(L, W, L2, W)
  BY <1>4 DEF Grown
<1>10. LogsFollow(L2)'
  <2>1. ASSUME NEW k \in Server, NEW d \in Command, ClientAppend(k, d)
        PROVE  /\ Follows(log'[k], L2) /\ \A i \in 1..Len(log'[k]) : log'[k][i].term <= currentTerm[k]
    <3>1. k = n
      <4>1. /\ log[k] \in Seq(Entry) /\ [term |-> currentTerm[k], command |-> d] \in Entry
            /\ log'[k] = Append(log[k], [term |-> currentTerm[k], command |-> d])
        BY <1>0, <2>1 DEF ClientAppend, TypeOK, Entry
      <4>2. log'[k] # log[k]
        BY <4>1
      <4> QED BY <1>1, <4>2
    <3> QED BY <1>6, <1>7, <3>1
  <2> QED BY <1>0, <1>4, <2>1, LogsStay
<1>11. NobodyWins
  BY <1>0, <1>1, <1>3, <1>2 DEF NobodyWins, Wins, FinishElection, logVars
<1>12. Winners(W)'
  BY <1>0, <1>11, WinnersKept DEF LogInv
<1>13. LeaderLogs(L2, W)'
  <2>1. ASSUME NEW u \in Nat
        PROVE  /\ Follows(L2[u], L2) /\ Sorted(L2[u])
               /\ W[u] = Nil => L2[u] = <<>>
               /\ \A i \in 1..Len(L2[u]) : L2[u][i].term <= u
    <3>1. CASE u = t
      BY <1>2, <1>4, <1>6, <1>7, <1>8, <3>1, NilAssumption
    <3>2. CASE u # t
      BY <1>4, <1>5, <3>2 DEF LogInv, LeaderLogs
    <3> QED BY <3>1, <3>2
  <2>2. ASSUME NEW s \in Server, state'[s] = Leader PROVE log'[s] = L2[currentTerm'[s]]
    <3>1. CASE s = n
      BY <1>0, <1>4, <3>1
    <3>2. CASE s # n
      <4>1. state[s] = Leader /\ currentTerm'[s] = currentTerm[s] /\ currentTerm[s] \in Nat
        BY <1>0, <2>2 DEF TypeOK
      <4>2. W[currentTerm[s]] = s /\ log[s] = L[currentTerm[s]]
        BY <4>1 DEF LogInv, Winners, LeaderLogs
      <4>3. currentTerm[s] # t
        BY <1>2, <3>2, <4>2
      <4> QED BY <1>1, <1>4, <3>2, <4>1, <4>2, <4>3
    <3> QED BY <3>1, <3>2
  <2> QED BY <2>1, <2>2 DEF LeaderLogs
<1>14. CallsFollow(L2, W)'
  BY <1>0, <1>4, <1>9, FlightFollows
<1>15. NextInLog'
  BY <1>0, NextStays
<1> QED BY <1>4, <1>9, <1>10, <1>12, <1>13, <1>14, <1>15 DEF LogInv

\* A server wins an election: the record of its term, so far empty, is its log.
LEMMA WinStepLog ==
  ASSUME TypeInv, ElectionInv, NEW L \in Record, NEW W \in Leaders, LogInv(L, W),
         NEW n \in Server, Wins(n),
         NEW L2, L2 = [L EXCEPT ![currentTerm[n]] = log[n]],
         NEW W2, W2 = [W EXCEPT ![currentTerm[n]] = n]
  PROVE  L2 \in Record /\ W2 \in Leaders /\ Grown(L, W, L2, W2) /\ LogInv(L2, W2)'
<1> DEFINE t == currentTerm[n]
<1>0. /\ TypeOK /\ [Next]_vars /\ t \in Nat /\ log[n] \in Seq(Entry)
      /\ UNCHANGED <<currentTerm, log>> /\ state'[n] = Leader
      /\ \A s \in Server \ {n} : state'[s] = state[s]
  BY DEF TypeInv, TypeOK, Wins, FinishElection, Next, logVars, BecomeLeader
<1>1. W[t] = Nil
  BY WinIsNew DEF LogInv
<1>2. L[t] = <<>>
  BY <1>0, <1>1 DEF LogInv, LeaderLogs
<1>3. /\ Follows(log[n], L) /\ \A i \in 1..Len(log[n]) : log[n][i].term <= t
  BY DEF LogInv, LogsFollow
<1>4. /\ L2 \in Record /\ L2[t] = log[n] /\ \A u \in Nat \ {t} : L2[u] = L[u]
      /\ \A u \in Nat : Agree(L[u], L2[u], Len(L[u]))
  <2> DEFINE l == log[n]
  <2>0. Len(<<>>) = 0 /\ Len(l) \in Nat
    BY <1>0
  <2>1. Agree(L[t], l, Len(L[t])) /\ l \in Seq(Entry) /\ t \in Nat /\ L2 = [L EXCEPT ![t] = l]
    BY <1>0, <1>2, <2>0 DEF Agree
  <2> HIDE DEF t, l
  <2>2. L2 \in Record /\ L2[t] = l /\ \A u \in Nat \ {t} : L2[u] = L[u]
    BY <2>1 DEF Record
  <2>3. \A u \in Nat : Agree(L[u], L2[u], Len(L[u]))
    BY <2>1, <2>2, RecordGrows
  <2> QED BY <2>2, <2>3 DEF l
<1>5. W2 \in Leaders /\ W2[t] = n /\ \A u \in Nat \ {t} : W2[u] = W[u]
  BY <1>0 DEF Leaders
<1>6. Grown(L, W, L2, W2)
  BY <1>1, <1>4, <1>5 DEF Grown
<1>7. ASSUME NEW l \in Seq(Entry), Follows(l, L) PROVE Follows(l, L2)
  BY <1>4, <1>7, GrownFollow
<1>8. Winners(W2)'
  BY WinnersWin DEF LogInv
<1>9. \A k \in Server, c \in Command : ~ClientAppend(k, c)
  <2> SUFFICES ASSUME NEW k \in Server, NEW c \in Command, ClientAppend(k, c) PROVE FALSE
    OBVIOUS
  <2>1. state' = state
    BY DEF ClientAppend, serverVars
  <2>2. state[n] = Candidate
    BY DEF Wins, VotesAreStale
  <2> QED BY <1>0, <2>1, <2>2 DEF Candidate, Leader
<1>10. LogsFollow(L2)'
  BY <1>0, <1>4, <1>9, LogsStay
<1>11. Sorted(log[n])
  \* it is the beginning of the log of the leader of its last term
  <2> SUFFICES ASSUME NEW i \in 1..Len(log[n]), NEW j \in 1..Len(log[n]), i <= j
               PROVE  log[n][i].term <= log[n][j].term
    BY DEF Sorted
  <2> DEFINE u == log[n][j].term
  <2>1. u \in Nat /\ Len(log[n]) \in Nat /\ i \in Nat /\ j \in Nat
    BY <1>0, LogEntryType
  <2>2. Agree(log[n], L[u], j) /\ Sorted(L[u]) /\ L[u] \in Seq(Entry)
    BY <1>3, <2>1 DEF Follows, LogInv, LeaderLogs, Record
  <2> HIDE DEF u
  <2>3. i \in 1..Len(L[u]) /\ j \in 1..Len(L[u]) /\ log[n][i] = L[u][i] /\ log[n][j] = L[u][j]
    BY <2>1, <2>2 DEF Agree
  <2> QED BY <2>2, <2>3 DEF Sorted
<1>12. LeaderLogs(L2, W2)'
  <2>1. ASSUME NEW u \in Nat
        PROVE  /\ Follows(L2[u], L2) /\ Sorted(L2[u])
               /\ W2[u] = Nil => L2[u] = <<>>
               /\ \A i \in 1..Len(L2[u]) : L2[u][i].term <= u
    <3>1. CASE u = t
      <4>1. Follows(log[n], L2)
        BY <1>0, <1>3, <1>7
      <4> QED BY <1>3, <1>4, <1>5, <1>11, <3>1, <4>1, NilAssumption
    <3>2. CASE u # t
      <4>1. L2[u] = L[u] /\ W2[u] = W[u] /\ L[u] \in Seq(Entry)
        BY <1>4, <1>5, <3>2 DEF Record
      <4> QED BY <1>7, <4>1 DEF LogInv, LeaderLogs
    <3> QED BY <3>1, <3>2
  <2>2. ASSUME NEW s \in Server, state'[s] = Leader PROVE log'[s] = L2[currentTerm'[s]]
    <3>1. CASE s = n
      BY <1>0, <1>4, <3>1
    <3>2. CASE s # n
      <4>1. state[s] = Leader /\ currentTerm'[s] = currentTerm[s] /\ currentTerm[s] \in Nat
        BY <1>0, <2>2, <3>2 DEF TypeOK
      <4>2. W[currentTerm[s]] = s /\ log[s] = L[currentTerm[s]]
        BY <4>1 DEF LogInv, Winners, LeaderLogs
      <4>3. currentTerm[s] # t
        BY <1>1, <4>2, NilAssumption
      <4> QED BY <1>0, <1>4, <4>1, <4>2, <4>3
    <3> QED BY <3>1, <3>2
  <2> QED BY <2>1, <2>2 DEF LeaderLogs
<1>13. CallsFollow(L2, W2)'
  BY <1>0, <1>4, <1>5, <1>6, FlightFollows
<1>14. NextInLog'
  BY <1>0, NextStays
<1> QED BY <1>4, <1>5, <1>6, <1>8, <1>10, <1>12, <1>13, <1>14 DEF LogInv

\* There is a record of the leaders and their logs.
HistInv == \E L \in Record, W \in Leaders : LogInv(L, W)

\* In the beginning it is empty.
LEMMA InitLog ==
  ASSUME Init, NEW L, L = [t \in Nat |-> <<>>], NEW W, W = [t \in Nat |-> Nil]
  PROVE  L \in Record /\ W \in Leaders /\ LogInv(L, W)
<1>1. <<>> \in Seq(Entry) /\ Len(<<>>) = 0
  BY EmptySeq
<1>2. L \in Record /\ W \in Leaders
  BY <1>1 DEF Record, Leaders
<1>3. \A t \in Nat : L[t] = <<>> /\ W[t] = Nil
  OBVIOUS
<1>4. \A s \in Server : /\ log[s] = <<>> /\ state[s] # Leader
                         /\ \A p \in Server : request[s][p] = Nil
  BY DEF Init, NoCalls, Follower, Leader
<1>5. late = {}
  BY DEF Init
<1>6. Winners(W)
  BY <1>3, <1>4 DEF Winners
<1>7. LogsFollow(L)
  BY <1>1, <1>4 DEF LogsFollow, Follows
<1>8. LeaderLogs(L, W)
  <2>1. ASSUME NEW t \in Nat
        PROVE  /\ Follows(L[t], L) /\ Sorted(L[t]) /\ L[t] = <<>>
               /\ \A i \in 1..Len(L[t]) : L[t][i].term <= t
    BY <1>1, <1>3 DEF Follows, Sorted
  <2> QED BY <1>4, <2>1 DEF LeaderLogs
<1>9. CallsFollow(L, W) /\ NextInLog
  BY <1>4, <1>5 DEF CallsFollow, Appends, InFlight, NextInLog
<1> QED BY <1>2, <1>6, <1>7, <1>8, <1>9 DEF LogInv

\* How a step continues the record: a leader's log grows by a command, or there is a
\* new leader.
NextRecord(L, W, L2, W2) ==
  /\ Grown(L, W, L2, W2)
  /\ \A t \in Nat : L2[t] # L[t] \/ W2[t] # W[t] =>
       \E n \in Server : /\ t = currentTerm[n] /\ L2[t] = log'[n] /\ W2[t] = n
                         /\ Wins(n) \/ W[t] = n

\* Every step keeps a record.
LEMMA StepRecord ==
  ASSUME TypeInv, ElectionInv, [Next]_vars, NEW L \in Record, NEW W \in Leaders, LogInv(L, W)
  PROVE  \E L2 \in Record, W2 \in Leaders : NextRecord(L, W, L2, W2) /\ LogInv(L2, W2)'
<1> DEFINE Goal == \E L2 \in Record, W2 \in Leaders : NextRecord(L, W, L2, W2) /\ LogInv(L2, W2)'
<1>0. currentTerm \in [Server -> Nat]
  BY DEF TypeInv, TypeOK
<1>1. ASSUME NEW n \in Server, Wins(n) PROVE Goal
  <2>0. PICK L2, W2 : L2 = [L EXCEPT ![currentTerm[n]] = log[n]]
                      /\ W2 = [W EXCEPT ![currentTerm[n]] = n]
    OBVIOUS
  <2>1. L2 \in Record /\ W2 \in Leaders /\ Grown(L, W, L2, W2) /\ LogInv(L2, W2)'
    BY <1>1, <2>0, WinStepLog
  <2>2. log' = log
    BY <1>1 DEF Wins, FinishElection, logVars
  <2>3. /\ L2[currentTerm[n]] = log'[n] /\ W2[currentTerm[n]] = n
        /\ \A t \in Nat \ {currentTerm[n]} : L2[t] = L[t] /\ W2[t] = W[t]
    BY <1>0, <2>0, <2>2 DEF Record, Leaders
  <2> QED BY <1>1, <2>1, <2>3 DEF NextRecord
<1>2. ASSUME NEW n \in Server, NEW c \in Command, ClientAppend(n, c) PROVE Goal
  <2>0. PICK L2 : L2 = [L EXCEPT ![currentTerm[n]] = log'[n]]
    OBVIOUS
  <2>1. L2 \in Record /\ Grown(L, W, L2, W) /\ LogInv(L2, W)'
    BY <1>2, <2>0, ClientStepLog
  <2>2. W[currentTerm[n]] = n
    BY <1>2 DEF ClientAppend, LogInv, Winners
  <2>3. /\ L2[currentTerm[n]] = log'[n]
        /\ \A t \in Nat \ {currentTerm[n]} : L2[t] = L[t]
    BY <1>0, <2>0 DEF Record
  <2> QED BY <2>1, <2>2, <2>3 DEF NextRecord
<1>3. CASE NobodyWins /\ \A n \in Server, c \in Command : ~ClientAppend(n, c)
  <2>1. LogInv(L, W)'
    BY <1>3, QuietStepLog
  <2>2. NextRecord(L, W, L, W)
    BY DEF NextRecord, Grown, Agree, Record
  <2> QED BY <2>1, <2>2
<1> QED BY <1>1, <1>2, <1>3 DEF NobodyWins

\* The record makes logs coherent.
LEMMA LogsMatch == TypeOK /\ HistInv => LogMatching
<1> SUFFICES ASSUME TypeOK, HistInv, NEW a \in Server, NEW b \in Server, NEW i \in 1..Len(log[a]),
                    i <= Len(log[b]), log[a][i].term = log[b][i].term
             PROVE  Prefix(log[a], i) = Prefix(log[b], i)
  BY DEF LogMatching
<1>1. PICK L \in Record, W \in Leaders : LogInv(L, W)
  BY DEF HistInv
<1>2. log[a] \in Seq(Entry) /\ log[b] \in Seq(Entry) /\ Follows(log[a], L) /\ Follows(log[b], L)
  BY <1>1 DEF LogInv, LogsFollow, TypeOK
<1>3. Agree(log[a], log[b], i)
  BY <1>2, FollowersCohere DEF Record, Coherent
<1> QED BY <1>2, <1>3, AgreeIsPrefix

\* Two logs that hold an entry of the same term at the same index are the same up to
\* it, whatever calls fail, are late or overtake each other (handle_append_entries).
THEOREM LogsAgree == Spec => []LogMatching
<1>1. Init => HistInv
  <2> SUFFICES ASSUME Init PROVE HistInv
    OBVIOUS
  <2>1. PICK L, W : L = [t \in Nat |-> <<>>] /\ W = [t \in Nat |-> Nil]
    OBVIOUS
  <2> QED BY <2>1, InitLog DEF HistInv
<1>2. TypeInv /\ ElectionInv /\ HistInv /\ [Next]_vars => HistInv'
  BY StepRecord DEF HistInv
<1>3. TypeInv /\ HistInv => LogMatching
  BY LogsMatch DEF TypeInv
<1> QED BY <1>1, <1>2, <1>3, TypeInvariance, ElectionInvariance, PTL DEF Spec

-----------------------------------------------------------------------------
(* What the servers had *)

Views == [Server -> [Nat -> Seq(Entry)]]

\* q has had the first k entries of the leader of term t, in term t.
Has(L, V, q, t, k) == Agree(V[q][t], L[t], k)

\* What a server has now is what it has in its current term; of later terms it has
\* nothing yet.
ViewInv(L, V) ==
  \A q \in Server :
    /\ V[q][currentTerm[q]] = log[q]
    /\ \A t \in Nat : /\ t > currentTerm[q] => V[q][t] = <<>>
                      /\ Follows(V[q][t], L)

\* A leader takes for acknowledged only what is.
MatchInv(L, V) ==
  \A n \in Server : \A p \in Peers(n) : state[n] = Leader =>
    /\ matchIndex[n][p] < nextIndex[n][p]
    /\ Has(L, V, p, currentTerm[n], matchIndex[n][p] + 1)

\* The answers of an open round are those to its requests: success means that the
\* follower has what the request carries, failure in the leader's term that what
\* the request comes after has not been acknowledged.
RoundInv(L, V) ==
  \A n \in Server : \A p \in Peers(n) : replicating[n] /\ request[n][p] # Nil =>
    /\ matchIndex[n][p] <= request[n][p].prevIndex
    /\ reply[n][p] # Nil /\ reply[n][p].ok =>
         Has(L, V, p, currentTerm[n], End(request[n][p]))
    /\ reply[n][p] # Nil /\ ~reply[n][p].ok /\ reply[n][p].term <= currentTerm[n] =>
         matchIndex[n][p] < request[n][p].prevIndex

AckInv(L, V) ==
  /\ ViewInv(L, V)
  /\ MatchInv(L, V)
  /\ RoundInv(L, V)

\* A step shows what every server has after it.
NextView(V, V2) ==
  \A q \in Server : /\ V2[q][currentTerm'[q]] = log'[q]
                    /\ \A t \in Nat : t # currentTerm'[q] => V2[q][t] = V[q][t]

-----------------------------------------------------------------------------
(* What a step leaves of a log *)

\* A log that agrees with w goes on doing so, if the leaders it listens to do.
LEMMA StaysIn ==
  ASSUME TypeInv, [Next]_vars, NEW L \in Record, NEW W \in Leaders, LogInv(L, W),
         NEW q \in Server, NEW w \in Seq(Entry), NEW k \in Nat, Agree(log[q], w, k),
         \A m \in Appends : /\ m.to = q /\ HandleAppendEntries(q, m)
                            /\ ~LeaderIsStale(q, m)
                            => Agree(L[m.term], w, k)
  PROVE  Agree(log'[q], w, k)
<1>0. TypeOK /\ log[q] \in Seq(Entry) /\ Len(w) \in Nat
  BY DEF TypeInv, TypeOK
<1>1. ASSUME NEW c \in Command, ClientAppend(q, c) PROVE Agree(log'[q], w, k)
  <2> DEFINE e == [term |-> currentTerm[q], command |-> c]
  <2>1. e \in Entry /\ log'[q] = Append(log[q], e)
    BY <1>0, <1>1 DEF ClientAppend, TypeOK, Entry
  <2> HIDE DEF e
  <2>2. Len(log'[q]) = Len(log[q]) + 1 /\ \A i \in 1..Len(log[q]) : log'[q][i] = log[q][i]
    BY <1>0, <2>1
  <2> QED BY <1>0, <2>2 DEF Agree
<1>2. ASSUME NEW m \in Appends, m.to = q, HandleAppendEntries(q, m) PROVE Agree(log'[q], w, k)
  <2> DEFINE v == L[m.term]
  <2>1. /\ v \in Seq(Entry) /\ Part(m, v) /\ Coherent(log[q], v)
        /\ log'[q] \in Seq(Entry) /\ m \in AppendRequest
    BY <1>2, HandledLog, HandleTerm
  <2> HIDE DEF v
  <2>2. /\ \A j \in Nat : Agree(log[q], v, j) => Agree(log'[q], v, j)
        /\ LeaderIsStale(q, m) => log'[q] = log[q]
    BY <1>0, <1>2, <2>1, AppendEffect
  <2>3. CASE LeaderIsStale(q, m)
    BY <2>2, <2>3
  <2>4. CASE ~LeaderIsStale(q, m)
    <3>1. Agree(v, w, k)
      BY <1>2, <2>4 DEF v
    <3>2. Agree(log[q], v, k)
      BY <1>0, <2>1, <3>1 DEF Agree
    <3>3. Agree(log'[q], v, k)
      BY <2>2, <3>2
    <3> QED BY <3>1, <3>3, AgreeTrans
  <2> QED BY <2>3, <2>4
<1> QED BY <1>1, <1>2, StepLog

\* While a server stays in a term it keeps what it has of the log of its leader.
LEMMA KeptAgree ==
  ASSUME TypeInv, [Next]_vars, NEW L \in Record, NEW W \in Leaders, LogInv(L, W),
         NEW q \in Server, NEW t \in Nat, currentTerm[q] = t, currentTerm'[q] = t,
         NEW k \in Nat, Agree(log[q], L[t], k)
  PROVE  Agree(log'[q], L[t], k)
<1>1. L[t] \in Seq(Entry) /\ Agree(L[t], L[t], k)
  BY DEF Record, Agree
<1>2. ASSUME NEW m \in Appends, m.to = q, HandleAppendEntries(q, m), ~LeaderIsStale(q, m)
      PROVE  Agree(L[m.term], L[t], k)
  <2>1. m.term = t
    BY <1>2, HandleTerm
  <2> QED BY <1>1, <2>1
<1> QED BY <1>1, <1>2, StaysIn

-----------------------------------------------------------------------------
(* What the servers have *)

\* What a server has acknowledged stays acknowledged.
LEMMA HasStays ==
  ASSUME TypeInv, [Next]_vars, NEW L \in Record, NEW W \in Leaders, LogInv(L, W),
         NEW L2 \in Record, NEW W2, Grown(L, W, L2, W2),
         NEW V \in Views, ViewInv(L, V), NEW V2 \in Views, NextView(V, V2),
         NEW q \in Server, NEW t \in Nat, NEW k \in Nat, Has(L, V, q, t, k)
  PROVE  Has(L2, V2, q, t, k)
<1>0. /\ currentTerm[q] \in Nat /\ currentTerm'[q] \in Nat /\ currentTerm'[q] >= currentTerm[q]
      /\ L[t] \in Seq(Entry) /\ L2[t] \in Seq(Entry) /\ V[q][t] \in Seq(Entry) /\ V2[q][t] \in Seq(Entry)
  BY StepType, StepVotes DEF TypeInv, TypeOK, VotesKept, Record, Views
<1>1. Agree(L[t], L2[t], k)
  <2>1. Agree(L[t], L2[t], Len(L[t])) /\ k <= Len(L[t])
    BY DEF Grown, Has, Agree
  <2> QED BY <1>0, <2>1, AgreeLess
<1>2. CASE t # currentTerm'[q]
  BY <1>1, <1>2, AgreeTrans DEF NextView, Has
<1>3. CASE t = currentTerm'[q] /\ t # currentTerm[q]
  <2>1. V[q][t] = <<>>
    BY <1>0, <1>3 DEF ViewInv
  <2>2. k = 0
    BY <2>1 DEF Has, Agree
  <2> QED BY <1>0, <2>2 DEF Has, Agree
<1>4. CASE t = currentTerm'[q] /\ t = currentTerm[q]
  <2>1. Agree(log[q], L[t], k)
    BY <1>4 DEF ViewInv, Has
  <2>2. Agree(log'[q], L[t], k)
    BY <1>4, <2>1, KeptAgree
  <2> QED BY <1>1, <1>4, <2>2, AgreeTrans DEF NextView, Has
<1> QED BY <1>2, <1>3, <1>4

\* What a server newly has of what a leader made in its term, it has in that term.
LEMMA NewHas ==
  ASSUME NEW L \in Record, NEW L2 \in Record, NEW V \in Views, ViewInv(L, V),
         NEW V2 \in Views, NextView(V, V2),
         NEW q \in Server, NEW t \in Nat, NEW k \in 1..Len(L2[t]), L2[t][k].term = t,
         Has(L2, V2, q, t, k), t # currentTerm'[q]
  PROVE  Has(L, V, q, t, k)
<1>1. V2[q][t] = V[q][t] /\ V[q][t] \in Seq(Entry) /\ Follows(V[q][t], L)
  BY DEF NextView, Views, ViewInv
<1>2. k \in 1..Len(V[q][t]) /\ V[q][t][k].term = t
  BY <1>1 DEF Has, Agree
<1> QED BY <1>1, <1>2 DEF Follows, Has

\* The views are views.
LEMMA ViewsStay ==
  ASSUME TypeInv, [Next]_vars, NEW L \in Record, NEW W \in Leaders,
         NEW L2 \in Record, NEW W2, Grown(L, W, L2, W2), LogInv(L2, W2)',
         NEW V \in Views, ViewInv(L, V), NEW V2 \in Views, NextView(V, V2)
  PROVE  ViewInv(L2, V2)'
<1>1. ASSUME NEW q \in Server, NEW t \in Nat
      PROVE  (t > currentTerm'[q] => V2[q][t] = <<>>) /\ Follows(V2[q][t], L2)
  <2>0. /\ currentTerm[q] \in Nat /\ currentTerm'[q] \in Nat /\ currentTerm'[q] >= currentTerm[q]
        /\ V[q][t] \in Seq(Entry)
    BY StepType, StepVotes DEF TypeInv, TypeOK, VotesKept, Views
  <2>1. CASE t = currentTerm'[q]
    BY <2>0, <2>1 DEF NextView, LogInv, LogsFollow
  <2>2. CASE t # currentTerm'[q]
    <3>1. V2[q][t] = V[q][t] /\ Follows(V[q][t], L) /\ (t > currentTerm[q] => V[q][t] = <<>>)
      BY <2>2 DEF NextView, ViewInv
    <3>2. Follows(V[q][t], L2)
      BY <2>0, <3>1, GrownFollow DEF Grown
    <3> QED BY <2>0, <3>1, <3>2
  <2> QED BY <2>1, <2>2
<1> QED BY <1>1 DEF ViewInv, NextView

\* The views after a step.
LEMMA ViewsExist ==
  ASSUME TypeOK', NEW V \in Views
  PROVE  \E V2 \in Views : NextView(V, V2)
<1>0. PICK V2 : V2 = [q \in Server |-> [t \in Nat |-> IF t = currentTerm'[q] THEN log'[q] ELSE V[q][t]]]
  OBVIOUS
<1>1. V2 \in Views
  BY <1>0 DEF TypeOK, Views
<1>2. NextView(V, V2)
  BY <1>0 DEF NextView, TypeOK
<1> QED BY <1>1, <1>2

-----------------------------------------------------------------------------
(* Rounds *)

\* Only a round that opens brings requests.
LEMMA StepRequests ==
  ASSUME TypeInv, [Next]_vars, NEW n \in Server, NEW p \in Server, request'[n][p] # Nil
  PROVE  \/ request'[n][p] = request[n][p]
         \/ StartElection(n) /\ p # n /\ request'[n][p] = AskVote(n, p, electionTerm'[n])
         \/ StartReplication(n) /\ p # n /\ request'[n][p] = AskAppend(n, p)
<1>0. TypeOK /\ request \in [Server -> [Server -> Request \cup {Nil}]] /\ electionTerm \in [Server -> Nat]
  BY DEF TypeInv, TypeOK
<1> DEFINE Same == request'[n][p] = request[n][p]
<1>1. CASE UNCHANGED vars
  BY <1>1 DEF vars, roundVars
<1>2. ASSUME NEW k \in Server, StartElection(k)
      PROVE  \/ Same
             \/ StartElection(n) /\ p # n /\ request'[n][p] = AskVote(n, p, electionTerm'[n])
  <2>1. /\ request' = [request EXCEPT ![k] =
                         [x \in Server |-> IF x = k THEN Nil ELSE AskVote(k, x, currentTerm[k] + 1)]]
        /\ electionTerm' = [electionTerm EXCEPT ![k] = currentTerm[k] + 1]
    BY <1>2 DEF StartElection
  <2> QED BY <1>0, <1>2, <2>1
<1>3. ASSUME NEW k \in Server, FinishElection(k) PROVE Same
  <2>1. request' = [request EXCEPT ![k] = NoCalls]
    BY <1>3 DEF FinishElection
  <2> QED BY <1>0, <2>1 DEF NoCalls
<1>4. ASSUME NEW k \in Server, StartReplication(k)
      PROVE  Same \/ (StartReplication(n) /\ p # n /\ request'[n][p] = AskAppend(n, p))
  <2>1. request' = [request EXCEPT ![k] =
             [x \in Server |-> IF x = k \/ OutOfLog(k, x) THEN Nil ELSE AskAppend(k, x)]]
    BY <1>4 DEF StartReplication
  <2> QED BY <1>0, <1>4, <2>1
<1>5. ASSUME NEW k \in Server, FinishReplication(k) PROVE Same
  <2>1. request' = [request EXCEPT ![k] = NoCalls]
    BY <1>5 DEF FinishReplication
  <2> QED BY <1>0, <2>1 DEF NoCalls
<1>6. ASSUME NEW k \in Server, NEW c \in Command, ClientAppend(k, c) PROVE Same
  BY <1>6 DEF ClientAppend, roundVars
<1>7. ASSUME NEW k \in Server, NEW t, NEW r, NEW l, CancelHeartbeat(k, t, r, l) PROVE Same
  <2>1. request' = [request EXCEPT ![k] = NoCalls] \/ request' = request
    BY <1>7 DEF CancelHeartbeat
  <2> QED BY <1>0, <2>1 DEF NoCalls
<1>8. ASSUME NEW k \in Server, NEW x \in Peers(k), ReceiveAppendReply(k, x) PROVE Same
  <2>1. CASE Newer(k, reply[k][x].term)
    BY <1>7, <1>8, <2>1 DEF ReceiveAppendReply
  <2>2. CASE ~Newer(k, reply[k][x].term)
    <3>1. request' = [request EXCEPT ![k][x] = Nil]
      BY <1>8, <2>2 DEF ReceiveAppendReply
    <3> QED BY <1>0, <3>1
  <2> QED BY <2>1, <2>2
<1>9. ASSUME NEW k \in Server, NEW x \in Peers(k), Receive(k, x) PROVE Same
  BY <1>7, <1>9 DEF Receive, Peers
<1>10. ASSUME NEW d \in late, ReceiveLate(d) PROVE Same
  <2>1. d.to \in Server
    BY <1>10, Delivery
  <2> QED BY <1>7, <1>10, <2>1 DEF ReceiveLate
<1> QED BY <1>1, <1>2, <1>3, <1>4, <1>5, <1>6, <1>8, <1>9, <1>10 DEF Next

\* An answer comes to an open round when its request is handled.
LEMMA StepReplies ==
  ASSUME TypeInv, [Next]_vars, NEW n \in Server, NEW p \in Server, reply'[n][p] # Nil
  PROVE  \/ reply'[n][p] = reply[n][p]
         \/ /\ p \in Peers(n) /\ Receive(n, p)
            /\ reply'[n][p] = Answer(p, request[n][p])
<1>0. TypeOK /\ reply \in [Server -> [Server -> Reply \cup {Nil}]]
  BY DEF TypeInv, TypeOK
<1> DEFINE Same == reply'[n][p] = reply[n][p]
<1>1. UNCHANGED reply => Same
  OBVIOUS
<1>2. ASSUME NEW k \in Server, reply' = [reply EXCEPT ![k] = NoCalls] PROVE Same
  BY <1>0, <1>2 DEF NoCalls
<1>3. ASSUME NEW k \in Server, NEW x \in Peers(k), ReceiveAppendReply(k, x) PROVE Same
  <2>0. x \in Server /\ reply[k][x].term \in Nat
    BY <1>0, <1>3 DEF ReceiveAppendReply, Reply, Peers
  <2>1. CASE Newer(k, reply[k][x].term)
    <3>1. PICK u : u = reply[k][x].term
      OBVIOUS
    <3>2. CancelHeartbeat(k, u, reply, late) /\ u \in Nat
      BY <1>3, <2>0, <2>1, <3>1 DEF ReceiveAppendReply
    <3>3. \A a, b \in Server : reply'[a][b] # Nil => reply'[a][b] = reply[a][b]
      BY <1>0, <3>2, CancelReplies
    <3> QED BY <3>3
  <2>2. CASE ~Newer(k, reply[k][x].term)
    <3>1. reply' = [reply EXCEPT ![k][x] = Nil]
      BY <1>3, <2>2 DEF ReceiveAppendReply
    <3>2. PICK f : f = [reply[k] EXCEPT ![x] = Nil]
      OBVIOUS
    <3>3. reply' = [reply EXCEPT ![k] = f]
      BY <3>1, <3>2
    <3>4. f[x] = Nil /\ \A y \in Server \ {x} : f[y] = reply[k][y]
      BY <1>0, <2>0, <3>2
    <3>5. reply'[k] = f /\ \A y \in Server \ {k} : reply'[y] = reply[y]
      BY <1>0, <3>3
    <3> QED BY <3>4, <3>5
  <2> QED BY <2>1, <2>2
<1>4. ASSUME NEW d \in late, ReceiveLate(d) PROVE Same
  <2>1. CancelHeartbeat(d.to, d.term, reply, late \ {d})
    BY <1>4 DEF ReceiveLate
  <2>2. d.to \in Server /\ d.term \in Nat
    BY <1>4, Delivery, FlightType
  <2> QED BY <1>0, <2>1, <2>2, CancelReplies
<1>5. ASSUME NEW k \in Server, NEW x \in Peers(k), Receive(k, x)
      PROVE  Same \/ (n = k /\ p = x /\ reply'[n][p] = Answer(p, request[n][p]))
  <2> DEFINE m == request[k][x]
             r == [reply EXCEPT ![k][x] = Answer(x, m)]
  <2>1. m \in Request /\ m.term \in Nat /\ x \in Server
    BY <1>5, Delivery, FlightType
  <2>2. r \in [Server -> [Server -> Reply \cup {Nil}]]
    BY <1>0, <2>1, AnswerType
  <2>3. CancelHeartbeat(x, m.term, r, late)
    BY <1>5 DEF Receive
  <2>4. reply'[n][p] = r[n][p]
    <3> HIDE DEF m, r
    <3> QED BY <1>0, <2>1, <2>2, <2>3, CancelReplies
  <2> QED BY <1>0, <2>1, <2>4
<1> QED BY <1>1, <1>2, <1>3, <1>4, <1>5 DEF Next, vars, roundVars, StartElection, FinishElection,
         StartReplication, FinishReplication, ClientAppend

\* A round that goes on is one that was open or one that opens.
LEMMA StepRounds ==
  ASSUME TypeInv, [Next]_vars, NEW n \in Server, replicating'[n]
  PROVE  \/ replicating[n] /\ state[n] = Leader /\ currentTerm'[n] = currentTerm[n]
         \/ /\ StartReplication(n) /\ ~replicating[n] /\ state[n] = Leader
            /\ currentTerm'[n] = currentTerm[n]
            /\ \A p \in Server : request[n][p] = Nil /\ reply'[n][p] = Nil
<1>0. /\ TypeOK /\ Calls /\ replicating \in [Server -> BOOLEAN]
      /\ currentTerm'[n] \in Nat /\ currentTerm[n] \in Nat
  BY StepType DEF TypeInv, TypeOK
<1>1. CASE StartReplication(n)
  <2>1. state[n] = Leader /\ ~replicating[n] /\ currentTerm' = currentTerm /\ reply' = reply
    BY <1>1 DEF StartReplication, serverVars
  <2>2. \A p \in Server : request[n][p] = Nil /\ reply[n][p] = Nil
    BY <1>0, <2>1 DEF Calls, CallsOf
  <2> QED BY <1>1, <2>1, <2>2
<1>2. CASE ~StartReplication(n)
  <2>1. replicating[n]
    <3>1. ASSUME NEW k \in Server, StartReplication(k) PROVE replicating[n]
      BY <1>0, <1>2, <3>1 DEF StartReplication
    <3>2. ASSUME NEW k \in Server, FinishReplication(k) PROVE replicating[n]
      BY <1>0, <3>2 DEF FinishReplication
    <3>3. ASSUME NEW k \in Server, NEW t, NEW r, NEW l, CancelHeartbeat(k, t, r, l) PROVE replicating[n]
      BY <1>0, <3>3 DEF CancelHeartbeat
    <3>4. ASSUME NEW k \in Server, NEW x \in Peers(k), ReceiveAppendReply(k, x) PROVE replicating[n]
      BY <3>3, <3>4 DEF ReceiveAppendReply
    <3>5. ASSUME NEW k \in Server, NEW x \in Peers(k), Receive(k, x) PROVE replicating[n]
      BY <3>3, <3>5 DEF Receive, Peers
    <3>6. ASSUME NEW d \in late, ReceiveLate(d) PROVE replicating[n]
      <4>1. d.to \in Server
        BY <3>6, Delivery
      <4> QED BY <3>3, <3>6, <4>1 DEF ReceiveLate
    <3> QED BY <3>1, <3>2, <3>4, <3>5, <3>6 DEF Next, vars, roundVars, StartElection, FinishElection,
             ClientAppend
  <2>2. state[n] = Leader
    BY <1>0, <2>1 DEF Calls, CallsOf
  <2>3. state'[n] = Leader
    BY StepCalls DEF TypeInv, Calls, CallsOf
  <2>4. ~Wins(n)
    BY <2>2 DEF Wins, VotesAreStale, Candidate, Leader
  <2> QED BY <2>1, <2>2, <2>3, <2>4, NewLeader
<1> QED BY <1>1, <1>2

\* What an answer does to next_index and match_index.
LEMMA ReplyIndexes ==
  ASSUME TypeInv, NEW n \in Server, NEW p \in Peers(n), ReceiveAppendReply(n, p),
         NEW m, m = request[n][p]
  PROVE  /\ replicating[n] /\ m # Nil /\ reply[n][p] # Nil /\ request'[n][p] = Nil
         /\ \A q \in Server \ {p} : nextIndex'[n][q] = nextIndex[n][q]
                                   /\ matchIndex'[n][q] = matchIndex[n][q]
         /\ \/ nextIndex'[n] = nextIndex[n] /\ matchIndex'[n] = matchIndex[n]
            \/ /\ reply[n][p].ok
               /\ nextIndex'[n][p] = End(m)
               /\ matchIndex'[n][p] \in {matchIndex[n][p], End(m) - 1}
            \/ /\ ~reply[n][p].ok /\ reply[n][p].term <= currentTerm[n]
               /\ nextIndex'[n][p] = IF m.prevIndex > 0 THEN m.prevIndex ELSE 0
               /\ matchIndex'[n][p] = matchIndex[n][p]
<1>0. /\ TypeOK /\ Calls /\ p \in Server /\ replicating[n] /\ m # Nil /\ reply[n][p] # Nil
      /\ m \in AppendRequest /\ reply[n][p].term \in Nat /\ currentTerm[n] \in Nat
  <2>1. TypeOK /\ Calls /\ p \in Server /\ replicating[n] /\ reply[n][p] # Nil
    BY DEF ReceiveAppendReply, TypeInv, Peers
  <2>2. m # Nil /\ m.type = "append"
    BY <2>1 DEF Calls, CallsOf
  <2>3. m \in InFlight
    BY <2>1, <2>2 DEF InFlight
  <2>4. m \in AppendRequest
    BY <2>2, <2>3, FlightType
  <2>5. reply[n][p].term \in Nat /\ currentTerm[n] \in Nat
    BY <2>1 DEF TypeOK, Reply
  <2> QED BY <2>1, <2>2, <2>4, <2>5
<1>1. /\ nextIndex \in [Server -> [Server -> Nat]] /\ matchIndex \in [Server -> [Server -> Index]]
      /\ request \in [Server -> [Server -> Request \cup {Nil}]]
  BY <1>0 DEF TypeOK
<1>2. m.prevIndex \in Int /\ Len(m.entries) \in Nat
  <2>1. m.prevIndex \in Index /\ m.entries \in Seq(Entry)
    BY <1>0 DEF AppendRequest
  <2> QED BY <2>1, IndexIsInt
<1>3. request'[n][p] = Nil
  <2>1. CASE Newer(n, reply[n][p].term)
    <3>1. CancelHeartbeat(n, reply[n][p].term, reply, late)
      BY <2>1 DEF ReceiveAppendReply
    <3>2. request' = [request EXCEPT ![n] = NoCalls]
      BY <1>0, <2>1, <3>1 DEF CancelHeartbeat
    <3> QED BY <1>0, <1>1, <3>2 DEF NoCalls
  <2>2. CASE ~Newer(n, reply[n][p].term)
    <3>1. request' = [request EXCEPT ![n][p] = Nil]
      BY <2>2 DEF ReceiveAppendReply
    <3> QED BY <1>0, <1>1, <3>1
  <2> QED BY <2>1, <2>2
<1>4. CASE UNCHANGED leaderVars
  BY <1>0, <1>3, <1>4 DEF leaderVars
<1>5. CASE AppendAccepted(n, p) /\ reply[n][p].ok
  <2> DEFINE e == m.prevIndex + Len(m.entries)
  <2>1. /\ matchIndex' = [matchIndex EXCEPT ![n][p] = IF e > @ THEN e ELSE @]
        /\ nextIndex' = [nextIndex EXCEPT ![n][p] = e + 1]
    BY <1>5 DEF AppendAccepted
  <2>2. e = End(m) - 1 /\ e + 1 = End(m)
    BY <1>2 DEF End
  <2> HIDE DEF e
  <2>3. nextIndex'[n][p] = e + 1 /\ matchIndex'[n][p] \in {matchIndex[n][p], e}
    BY <1>0, <1>1, <2>1
  <2>4. \A q \in Server \ {p} : nextIndex'[n][q] = nextIndex[n][q]
                               /\ matchIndex'[n][q] = matchIndex[n][q]
    BY <1>0, <1>1, <2>1
  <2> QED BY <1>0, <1>3, <1>5, <2>2, <2>3, <2>4
<1>6. CASE AppendRejected(n, p) /\ ~reply[n][p].ok /\ ~Newer(n, reply[n][p].term)
  <2> DEFINE e == IF m.prevIndex > 0 THEN m.prevIndex ELSE 0
  <2>1. nextIndex' = [nextIndex EXCEPT ![n][p] = e] /\ matchIndex' = matchIndex
    BY <1>6 DEF AppendRejected
  <2>2. reply[n][p].term <= currentTerm[n]
    BY <1>0, <1>6 DEF Newer
  <2>3. nextIndex'[n][p] = e
    BY <1>0, <1>1, <2>1
  <2>4. \A q \in Server \ {p} : nextIndex'[n][q] = nextIndex[n][q]
                               /\ matchIndex'[n][q] = matchIndex[n][q]
    BY <1>0, <1>1, <2>1
  <2> QED BY <1>0, <1>3, <1>6, <2>1, <2>2, <2>3, <2>4
<1> QED BY <1>4, <1>5, <1>6 DEF ReceiveAppendReply

\* A leader's match_index stays below what is acknowledged to it.
LEMMA MatchStays ==
  ASSUME TypeInv, [Next]_vars, NEW L \in Record, NEW W \in Leaders, LogInv(L, W),
         NEW L2 \in Record, NEW W2, Grown(L, W, L2, W2),
         NEW V \in Views, AckInv(L, V), NEW V2 \in Views, NextView(V, V2)
  PROVE  MatchInv(L2, V2)'
<1>0. /\ TypeOK /\ TypeOK' /\ ViewInv(L, V)
  BY StepType DEF TypeInv, AckInv
<1> SUFFICES ASSUME NEW n \in Server, NEW p \in Peers(n), state'[n] = Leader, NEW u, u = currentTerm'[n]
             PROVE  /\ matchIndex'[n][p] < nextIndex'[n][p]
                    /\ Has(L2, V2, p, u, matchIndex'[n][p] + 1)
  BY DEF MatchInv, Peers
<1>1. /\ p \in Server /\ u \in Nat
      /\ V2[p][u] \in Seq(Entry) /\ L2[u] \in Seq(Entry) /\ V[p][u] \in Seq(Entry)
  <2>1. p \in Server /\ u \in Nat
    BY <1>0 DEF Peers, TypeOK
  <2> QED BY <2>1 DEF Views, Record
<1>2. CASE Wins(n)
  <2>1. nextIndex'[n][p] = Len(log[n]) /\ matchIndex'[n][p] = -1 /\ Len(log[n]) \in Nat
    BY <1>0, <1>1, <1>2 DEF Wins, BecomeLeader, TypeOK
  <2> QED BY <1>1, <2>1 DEF Has, Agree
<1>3. CASE state[n] = Leader /\ currentTerm'[n] = currentTerm[n]
  <2> DEFINE g == matchIndex[n][p]
             m == request[n][p]
  <2>1. /\ g \in Int /\ g >= -1 /\ nextIndex[n][p] \in Nat
        /\ g < nextIndex[n][p] /\ Has(L, V, p, u, g + 1)
    <3>1. g \in Index /\ nextIndex[n][p] \in Nat
      BY <1>0, <1>1 DEF TypeOK
    <3> QED BY <1>3, <3>1, IndexIsInt DEF AckInv, MatchInv
  <2>2. ASSUME NEW k \in Nat, Has(L, V, p, u, k) PROVE Has(L2, V2, p, u, k)
    BY <1>0, <1>1, <2>2, HasStays
  <2>3. CASE nextIndex'[n][p] = nextIndex[n][p] /\ matchIndex'[n][p] = matchIndex[n][p]
    BY <2>1, <2>2, <2>3
  <2>4. CASE ReceiveAppendReply(n, p)
    <3>1. replicating[n] /\ m # Nil /\ reply[n][p] # Nil
      BY <2>4, ReplyIndexes
    <3>2. \/ nextIndex'[n][p] = nextIndex[n][p] /\ matchIndex'[n][p] = g
          \/ /\ reply[n][p].ok
             /\ nextIndex'[n][p] = End(m)
             /\ matchIndex'[n][p] \in {g, End(m) - 1}
          \/ /\ ~reply[n][p].ok /\ reply[n][p].term <= currentTerm[n]
             /\ nextIndex'[n][p] = IF m.prevIndex > 0 THEN m.prevIndex ELSE 0
             /\ matchIndex'[n][p] = g
      BY <2>4, ReplyIndexes
    <3>3. /\ g <= m.prevIndex
          /\ reply[n][p].ok => Has(L, V, p, u, End(m))
          /\ ~reply[n][p].ok /\ reply[n][p].term <= u => g < m.prevIndex
      BY <1>3, <3>1 DEF AckInv, RoundInv
    <3>4. Part(m, log[n]) /\ m \in AppendRequest /\ log[n] \in Seq(Entry)
      BY <1>0, <1>1, <3>1, RoundIsPart DEF TypeOK
    <3> HIDE DEF m, g
    <3>5. m.prevIndex \in Int /\ End(m) \in Nat /\ m.prevIndex + 1 <= End(m)
      BY <3>4, PartEnds
    <3>6. CASE reply[n][p].ok /\ nextIndex'[n][p] = End(m) /\ matchIndex'[n][p] \in {g, End(m) - 1}
      <4>1. Has(L2, V2, p, u, End(m)) /\ Has(L2, V2, p, u, g + 1)
        BY <2>1, <2>2, <3>3, <3>5, <3>6
      <4> QED BY <2>1, <3>3, <3>5, <3>6, <4>1
    <3>7. CASE /\ ~reply[n][p].ok /\ reply[n][p].term <= currentTerm[n]
               /\ nextIndex'[n][p] = IF m.prevIndex > 0 THEN m.prevIndex ELSE 0
               /\ matchIndex'[n][p] = g
      <4>1. g < m.prevIndex /\ Has(L2, V2, p, u, g + 1)
        BY <1>3, <2>1, <2>2, <3>3, <3>7
      <4> QED BY <2>1, <3>5, <3>7, <4>1
    <3> QED BY <2>3, <3>2, <3>6, <3>7 DEF g
  <2>5. ASSUME NEW q \in Peers(n), ReceiveAppendReply(n, q), q # p
        PROVE  nextIndex'[n][p] = nextIndex[n][p] /\ matchIndex'[n][p] = matchIndex[n][p]
    BY <1>1, <2>5, ReplyIndexes
  <2> QED BY <1>3, <2>3, <2>4, <2>5, StepIndexes
<1> QED BY <1>2, <1>3, NewLeader

\* What a follower answers.
LEMMA RoundAnswer ==
  ASSUME TypeInv, [Next]_vars, NEW L \in Record, NEW W \in Leaders, LogInv(L, W),
         NEW L2 \in Record, NEW W2, Grown(L, W, L2, W2),
         NEW V \in Views, AckInv(L, V), NEW V2 \in Views, NextView(V, V2),
         NEW n \in Server, NEW p \in Peers(n), Receive(n, p), replicating[n],
         NEW m, m = request[n][p], NEW u, u = currentTerm[n],
         matchIndex[n][p] <= m.prevIndex, Has(L, V, p, u, matchIndex[n][p] + 1)
  PROVE  /\ Answer(p, m).ok => Has(L2, V2, p, u, End(m))
         /\ ~Answer(p, m).ok /\ Answer(p, m).term <= u => matchIndex[n][p] < m.prevIndex
<1>0. /\ TypeOK /\ p \in Server /\ u \in Nat /\ m # Nil
      /\ log[p] \in Seq(Entry) /\ L[u] \in Seq(Entry) /\ L2[u] \in Seq(Entry)
      /\ matchIndex[n][p] \in Int /\ matchIndex[n][p] >= -1 /\ currentTerm[p] \in Nat
  <2>1. /\ TypeOK /\ p \in Server /\ u \in Nat /\ m # Nil
        /\ log[p] \in Seq(Entry) /\ L[u] \in Seq(Entry) /\ L2[u] \in Seq(Entry)
        /\ matchIndex[n][p] \in Index /\ currentTerm[p] \in Nat
    BY DEF TypeInv, TypeOK, Peers, Receive, Record
  <2> QED BY <2>1, IndexIsInt
<1>1. /\ m \in Appends /\ m \in AppendRequest /\ m.term = u /\ m.to = p /\ m.type = "append"
  BY <1>0, RoundIsPart DEF Appends
<1>2. HandleAppendEntries(p, m)
  BY <1>1 DEF Receive, Handle
<1>3. Part(m, L[u]) /\ Coherent(log[p], L[u])
  BY <1>0, <1>1, <1>2, HandledLog
<1>4. /\ m.prevIndex \in Int /\ m.prevIndex >= -1 /\ End(m) \in Nat /\ m.prevIndex + 1 \in Nat
  BY <1>0, <1>1, <1>3, PartEnds
<1>5. /\ Accepts(p, m) => Agree(log'[p], L[u], End(m))
      /\ Disagrees(p, m) => ~Agree(log[p], L[u], m.prevIndex + 1)
  BY <1>0, <1>1, <1>2, <1>3, AppendEffect
<1>6. Answer(p, m).ok = Accepts(p, m) /\ Answer(p, m).term = TermSeen(p, u)
  BY <1>1 DEF Answer
<1>7. ASSUME Accepts(p, m) PROVE Has(L2, V2, p, u, End(m))
  <2>1. currentTerm'[p] = u
    BY <1>0, <1>1, <1>2, <1>7, HandleTerm DEF Accepts
  <2>2. Agree(log'[p], L[u], End(m))
    BY <1>5, <1>7
  <2>3. Agree(L[u], L2[u], End(m))
    <3>1. Agree(L[u], L2[u], Len(L[u])) /\ End(m) <= Len(L[u])
      BY <1>0, <2>2 DEF Grown, Agree
    <3>2. Len(L[u]) \in Nat /\ Len(L2[u]) \in Nat /\ End(m) \in Nat
      BY <1>0, <1>4
    <3> QED BY <3>1, <3>2, AgreeLess
  <2> QED BY <1>0, <1>4, <2>1, <2>2, <2>3, AgreeTrans DEF NextView, Has
<1>8. ASSUME ~Accepts(p, m), TermSeen(p, u) <= u, ~(matchIndex[n][p] < m.prevIndex) PROVE FALSE
  <2>1. matchIndex[n][p] = m.prevIndex
    BY <1>0, <1>4, <1>8
  <2>2. ~LeaderIsStale(p, m)
    BY <1>0, <1>1, <1>8 DEF LeaderIsStale, TermSeen, Newer
  <2>3. m.prevIndex >= 0 /\ (Len(log[p]) <= m.prevIndex \/ Disagrees(p, m))
    BY <1>8, <2>2 DEF Accepts, Misses, Disagrees
  <2>4. Agree(V[p][u], L[u], m.prevIndex + 1)
    BY <2>1 DEF Has
  <2>5. currentTerm[p] = u
    <3>1. V[p][u] # <<>>
      BY <1>4, <2>3, <2>4 DEF Agree
    <3>2. currentTerm[p] <= u
      BY <1>0, <1>1, <2>2 DEF LeaderIsStale
    <3> QED BY <1>0, <3>1, <3>2 DEF AckInv, ViewInv
  <2>6. Agree(log[p], L[u], m.prevIndex + 1)
    BY <1>0, <2>4, <2>5 DEF AckInv, ViewInv
  <2>7. m.prevIndex + 1 <= Len(log[p])
    BY <2>6 DEF Agree
  <2> QED BY <1>0, <1>4, <1>5, <2>3, <2>6, <2>7
<1> QED BY <1>6, <1>7, <1>8

\* The answers of open rounds stay what they are, and those that come are true.
LEMMA RoundStays ==
  ASSUME TypeInv, [Next]_vars, NEW L \in Record, NEW W \in Leaders, LogInv(L, W),
         NEW L2 \in Record, NEW W2, Grown(L, W, L2, W2),
         NEW V \in Views, AckInv(L, V), NEW V2 \in Views, NextView(V, V2)
  PROVE  RoundInv(L2, V2)'
<1>0. TypeOK /\ TypeOK' /\ ViewInv(L, V)
  BY StepType DEF TypeInv, AckInv
<1> SUFFICES ASSUME NEW n \in Server, NEW p \in Peers(n), replicating'[n], request'[n][p] # Nil,
                    NEW m, m = request'[n][p], NEW u, u = currentTerm'[n]
             PROVE  /\ matchIndex'[n][p] <= m.prevIndex
                    /\ reply'[n][p] # Nil /\ reply'[n][p].ok => Has(L2, V2, p, u, End(m))
                    /\ reply'[n][p] # Nil /\ ~reply'[n][p].ok /\ reply'[n][p].term <= u =>
                         matchIndex'[n][p] < m.prevIndex
  BY DEF RoundInv, Peers, End
<1>1. p \in Server /\ u \in Nat
  BY <1>0 DEF Peers, TypeOK
<1>2. CASE /\ StartReplication(n) /\ ~replicating[n] /\ state[n] = Leader
           /\ \A q \in Server : request[n][q] = Nil /\ reply'[n][q] = Nil
  <2>1. m = AskAppend(n, p)
    BY <1>1, <1>2, StepRequests DEF StartElection
  <2>2. m.prevIndex = nextIndex[n][p] - 1 /\ matchIndex'[n][p] = matchIndex[n][p]
    BY <1>2, <2>1 DEF AskAppend, StartReplication, leaderVars
  <2>3. matchIndex[n][p] < nextIndex[n][p]
    BY <1>2 DEF AckInv, MatchInv
  <2>4. matchIndex[n][p] \in Int /\ nextIndex[n][p] \in Int
    <3>1. matchIndex[n][p] \in Index /\ nextIndex[n][p] \in Nat
      BY <1>0, <1>1 DEF TypeOK
    <3> QED BY <3>1, IndexIsInt
  <2> QED BY <1>1, <1>2, <2>2, <2>3, <2>4
<1>3. CASE replicating[n] /\ state[n] = Leader /\ currentTerm'[n] = currentTerm[n]
  <2>1. m = request[n][p]
    BY <1>1, <1>3, StepRequests DEF StartElection, StartReplication
  <2>2. m \in AppendRequest /\ Part(m, L[u])
    <3>1. Part(m, log[n]) /\ m \in AppendRequest
      BY <1>1, <1>3, <2>1, RoundIsPart
    <3> QED BY <1>3, <3>1 DEF LogInv, LeaderLogs
  <2>3. m.prevIndex \in Int /\ End(m) \in Nat
    BY <1>1, <2>2, PartEnds DEF Record
  <2>4. /\ matchIndex[n][p] <= m.prevIndex
        /\ reply[n][p] # Nil /\ reply[n][p].ok => Has(L, V, p, u, End(m))
        /\ reply[n][p] # Nil /\ ~reply[n][p].ok /\ reply[n][p].term <= u => matchIndex[n][p] < m.prevIndex
    BY <1>3, <2>1 DEF AckInv, RoundInv
  <2>5. Has(L, V, p, u, matchIndex[n][p] + 1)
    BY <1>3 DEF AckInv, MatchInv
  <2>6. matchIndex'[n][p] = matchIndex[n][p]
    <3>1. ~ReceiveAppendReply(n, p)
      BY ReplyIndexes
    <3>2. ASSUME NEW q \in Peers(n), ReceiveAppendReply(n, q) PROVE matchIndex'[n][p] = matchIndex[n][p]
      BY <1>1, <3>1, <3>2, ReplyIndexes
    <3> QED BY <1>3, <3>2, StepIndexes
  <2>7. ASSUME Has(L, V, p, u, End(m)) PROVE Has(L2, V2, p, u, End(m))
    BY <1>0, <1>1, <2>3, <2>7, HasStays
  <2>8. CASE reply'[n][p] = reply[n][p]
    BY <2>4, <2>6, <2>7, <2>8
  <2>9. CASE Receive(n, p) /\ reply'[n][p] = Answer(p, m)
    <3>1. /\ Answer(p, m).ok => Has(L2, V2, p, u, End(m))
          /\ ~Answer(p, m).ok /\ Answer(p, m).term <= u => matchIndex[n][p] < m.prevIndex
      BY <1>3, <2>1, <2>4, <2>5, <2>9, RoundAnswer
    <3> QED BY <2>4, <2>6, <2>9, <3>1
  <2>10. CASE reply'[n][p] = Nil
    BY <2>4, <2>6, <2>10
  <2> QED BY <1>1, <2>1, <2>8, <2>9, <2>10, StepReplies
<1> QED BY <1>2, <1>3, StepRounds

\* Steps keep what leaders know of their followers.
LEMMA AcksStay ==
  ASSUME TypeInv, [Next]_vars, NEW L \in Record, NEW W \in Leaders, LogInv(L, W),
         NEW L2 \in Record, NEW W2, Grown(L, W, L2, W2), LogInv(L2, W2)',
         NEW V \in Views, AckInv(L, V), NEW V2 \in Views, NextView(V, V2)
  PROVE  AckInv(L2, V2)'
<1>1. ViewInv(L2, V2)'
  BY ViewsStay DEF AckInv
<1>2. MatchInv(L2, V2)'
  BY MatchStays
<1>3. RoundInv(L2, V2)'
  BY RoundStays
<1> QED BY <1>1, <1>2, <1>3 DEF AckInv

\* What leaders count as acknowledged is in their followers' logs.
LEMMA AcksSound ==
  ASSUME TypeOK, NEW L \in Record, NEW W \in Leaders, LogInv(L, W), NEW V \in Views, AckInv(L, V)
  PROVE  MatchIndexSound
<1> SUFFICES ASSUME NEW n \in Server, NEW p \in Peers(n), state[n] = Leader, currentTerm[p] = currentTerm[n]
             PROVE  /\ matchIndex[n][p] < nextIndex[n][p] /\ nextIndex[n][p] <= Len(log[n])
                    /\ IsPrefixOf(Prefix(log[n], matchIndex[n][p] + 1), log[p])
  BY DEF MatchIndexSound
<1> DEFINE k == matchIndex[n][p] + 1
<1>1. p \in Server /\ log[n] \in Seq(Entry) /\ log[p] \in Seq(Entry) /\ k \in Nat
  <2>1. p \in Server /\ log[n] \in Seq(Entry) /\ log[p] \in Seq(Entry) /\ matchIndex[n][p] \in Index
    BY DEF Peers, TypeOK
  <2> QED BY <2>1, IndexIsInt
<1>2. matchIndex[n][p] < nextIndex[n][p] /\ Has(L, V, p, currentTerm[n], k)
  BY DEF AckInv, MatchInv
<1>3. nextIndex[n][p] <= Len(log[n]) /\ log[n] = L[currentTerm[n]]
  BY <1>1 DEF LogInv, NextInLog, LeaderLogs
<1>4. Agree(log[p], log[n], k)
  BY <1>1, <1>2, <1>3 DEF AckInv, ViewInv, Has
<1> HIDE DEF k
<1>5. Agree(log[n], log[p], k) /\ k <= Len(log[n])
  BY <1>1, <1>4 DEF Agree
<1>6. IsPrefixOf(Prefix(log[n], k), log[p])
  BY <1>1, <1>5, AgreeIsPrefix
<1> QED BY <1>2, <1>3, <1>6 DEF k

-----------------------------------------------------------------------------
(* Entries that are or can become chosen *)

\* A majority has acknowledged the first k entries of the leader of term T.
Chosen(L, V, T, k) == \E Q \in Quorum : \A q \in Q : Has(L, V, q, T, k)

\* A majority has acknowledged them or may still.
Choosable(L, V, T, k) ==
  \E Q \in Quorum : \A q \in Q : Has(L, V, q, T, k) \/ currentTerm[q] <= T

\* Whoever leads after term T has them.
LeadersHave(L, W, T, k) ==
  \A t \in Nat : t > T /\ W[t] # Nil => Agree(L[t], L[T], k)

\* Whoever has acknowledged them still has them.
AckersHave(L, V, T, k) ==
  \A q \in Server : Has(L, V, q, T, k) => Agree(log[q], L[T], k)

\* b waits for the votes of a round of its current term.
Runs(b) == state[b] = Candidate /\ electionTerm[b] = currentTerm[b]

\* Whoever has acknowledged them votes only for servers that have them.
VotersCheck(L, V, T, k) ==
  \A b, q \in Server :
    /\ Runs(b) /\ electionTerm[b] > T
    /\ HasVote(b, q, electionTerm[b]) /\ Has(L, V, q, T, k)
    => Agree(log[b], L[T], k)

\* What the leader of term T has made itself and a majority can acknowledge is not
\* lost later.
ChoiceInv(L, W, V) ==
  \A T \in Nat : \A k \in 1..Len(L[T]) :
    L[T][k].term = T /\ Choosable(L, V, T, k) =>
      /\ LeadersHave(L, W, T, k)
      /\ AckersHave(L, V, T, k)
      /\ VotersCheck(L, V, T, k)

\* A candidate tells in its requests how its log ends.
BallotInv ==
  \A b, q \in Server : Runs(b) /\ electionTerm[b] # 0 /\ request[b][q] # Nil =>
    /\ request[b][q].lastIndex = LastIndex(log[b])
    /\ request[b][q].lastTerm = LastTerm(log[b])

\* What a server of term t believes committed, the first c + 1 entries of l, is part
\* of what a leader of that or an earlier term made, and a majority has acknowledged.
Certified(L, V, c, t, l) ==
  c >= 0 => \E T \in 0..t : \E k \in 1..Len(L[T]) :
              /\ c + 1 <= k /\ L[T][k].term = T
              /\ Chosen(L, V, T, k)
              /\ Agree(l, L[T], c + 1)

CommitInv(L, V) ==
  /\ \A s \in Server : Certified(L, V, commitIndex[s], currentTerm[s], log[s])
  /\ \A m \in Appends : m.commit < End(m) /\ Certified(L, V, m.commit, m.term, L[m.term])

-----------------------------------------------------------------------------
(* What candidates and voters have *)

\* A candidate that goes on as one has handled nothing that moves it.
LEMMA CandidateKeeps ==
  ASSUME TypeInv, [Next]_vars, NEW b \in Server, state'[b] = Candidate, ~StartElection(b)
  PROVE  state[b] = Candidate /\ currentTerm'[b] = currentTerm[b] /\ log'[b] = log[b]
<1>0. /\ TypeOK /\ currentTerm \in [Server -> Nat] /\ log \in [Server -> Seq(Entry)]
      /\ state \in [Server -> {Follower, Candidate, Leader}]
  BY DEF TypeInv, TypeOK
<1> DEFINE Goal == state[b] = Candidate /\ currentTerm'[b] = currentTerm[b] /\ log'[b] = log[b]
<1>1. UNCHANGED <<currentTerm, state, log>> => Goal
  OBVIOUS
<1>2. CASE UNCHANGED vars
  BY <1>1, <1>2 DEF vars, serverVars, logVars
<1>3. ASSUME NEW n \in Server, StartElection(n) PROVE Goal
  <2>1. /\ currentTerm' = [currentTerm EXCEPT ![n] = currentTerm[n] + 1]
        /\ state' = [state EXCEPT ![n] = Candidate] /\ log' = log /\ n # b
    BY <1>3 DEF StartElection, logVars
  <2> QED BY <1>0, <2>1
<1>4. ASSUME NEW n \in Server, FinishElection(n) PROVE Goal
  <2>1. log' = log
    BY <1>4 DEF FinishElection, logVars
  <2>2. CASE DiscardVotes(n)
    BY <1>1, <2>1, <2>2 DEF DiscardVotes, serverVars
  <2>3. CASE VotesShowNewerTerm(n)
    BY <1>0, <2>1, <2>3 DEF VotesShowNewerTerm, Follower, Candidate
  <2>4. CASE CountVotes(n)
    BY <1>0, <1>1, <2>1, <2>4 DEF CountVotes, BecomeLeader, Leader, Candidate
  <2> QED BY <1>4, <2>2, <2>3, <2>4 DEF FinishElection
<1>5. ASSUME NEW n \in Server, StartReplication(n) PROVE Goal
  BY <1>1, <1>5 DEF StartReplication, serverVars, logVars
<1>6. ASSUME NEW n \in Server, FinishReplication(n) PROVE Goal
  BY <1>1, <1>6 DEF FinishReplication, serverVars
<1>7. ASSUME NEW n \in Server, NEW c \in Command, ClientAppend(n, c) PROVE Goal
  <2>1. n # b
    BY <1>7 DEF ClientAppend, serverVars, Candidate, Leader
  <2> QED BY <1>0, <1>7, <2>1 DEF ClientAppend, serverVars
<1>8. ASSUME NEW n \in Server, NEW p \in Peers(n), ReceiveAppendReply(n, p) PROVE Goal
  <2>1. /\ currentTerm' = [currentTerm EXCEPT ![n] = TermSeen(n, reply[n][p].term)]
        /\ state' = [state EXCEPT ![n] = RoleIn(n, reply[n][p].term)]
        /\ log' = log
    BY <1>8 DEF ReceiveAppendReply, logVars
  <2> QED BY <1>0, <2>1 DEF TermSeen, RoleIn, Newer, Follower, Candidate
<1>9. ASSUME NEW n \in Server, NEW m \in InFlight, Handle(n, m) PROVE Goal
  <2>1. CASE m.type = "vote" /\ HandleRequestVote(n, m)
    BY <1>0, <2>1 DEF HandleRequestVote, logVars, TermSeen, RoleIn, Newer, Follower, Candidate
  <2>2. CASE RejectStaleLeader(n, m)
    BY <1>1, <2>2 DEF RejectStaleLeader, serverVars, logVars
  <2>3. CASE FollowLeader(n, m) /\ \A q \in Server \ {n} : log'[q] = log[q]
    <3>1. n # b
      BY <1>0, <2>3 DEF FollowLeader, RoleIn, Newer, Follower, Candidate, Leader
    <3> QED BY <1>0, <2>3, <3>1 DEF FollowLeader
  <2>4. CASE RejectGap(n, m) \/ RejectConflict(n, m) \/ AcceptEntries(n, m)
    BY <1>0, <2>3, <2>4 DEF RejectGap, RejectConflict, AcceptEntries, logVars
  <2> QED BY <1>9, <2>1, <2>2, <2>4 DEF Handle, HandleAppendEntries
<1>10. ASSUME NEW n \in Server, NEW p \in Peers(n), Receive(n, p) PROVE Goal
  BY <1>9, <1>10, Delivery
<1>11. ASSUME NEW m \in late, ReceiveLate(m) PROVE Goal
  BY <1>9, <1>11, Delivery
<1> QED BY <1>2, <1>3, <1>4, <1>5, <1>6, <1>7, <1>8, <1>10, <1>11 DEF Next

\* A log at least as up to date as one that has what every later leader has, has it too.
LEMMA UpToDateHas ==
  ASSUME NEW L \in Record, NEW W \in Leaders, LeaderLogs(L, W),
         NEW T \in Nat, NEW k \in 1..Len(L[T]), L[T][k].term = T, LeadersHave(L, W, T, k),
         NEW l \in Seq(Entry), Follows(l, L), Agree(l, L[T], k),
         NEW c \in Seq(Entry), Follows(c, L),
         \/ LastTerm(c) > LastTerm(l)
         \/ LastTerm(c) = LastTerm(l) /\ Len(c) >= Len(l)
  PROVE  Agree(c, L[T], k)
<1> DEFINE x == LastTerm(l)
           y == LastTerm(c)
<1>0. /\ L[T] \in Seq(Entry) /\ Len(l) \in Nat /\ Len(c) \in Nat /\ k \in Nat /\ k >= 1
      /\ Len(L[T]) \in Nat
  <2>1. L[T] \in Seq(Entry)
    BY DEF Record
  <2> QED BY <2>1
<1>1. Len(l) >= k /\ Len(l) \in 1..Len(l) /\ l[k] = L[T][k] /\ k \in 1..Len(l)
  BY <1>0 DEF Agree
<1>2. x = l[Len(l)].term /\ x \in Nat
  <2>1. l # <<>>
    BY <1>0, <1>1
  <2> QED BY <1>1, <2>1, LogEntryType DEF LastTerm
<1>3. ASSUME c # <<>>
      PROVE  Len(c) \in 1..Len(c) /\ y = c[Len(c)].term /\ y \in Nat
  BY <1>3, LogEntryType DEF LastTerm
<1> HIDE DEF x, y
<1>4. Agree(l, L[x], Len(l)) /\ L[x] \in Seq(Entry) /\ Sorted(L[x])
  BY <1>1, <1>2 DEF Follows, LeaderLogs, Record
<1>5. T <= x
  <2>1. k \in 1..Len(L[x]) /\ Len(l) \in 1..Len(L[x]) /\ L[x][k] = l[k] /\ L[x][Len(l)] = l[Len(l)]
    BY <1>0, <1>1, <1>4 DEF Agree
  <2>2. L[x][k].term <= L[x][Len(l)].term
    BY <1>1, <1>4, <2>1 DEF Sorted
  <2> QED BY <1>1, <1>2, <2>1, <2>2
<1>6. CASE y = x /\ Len(c) >= Len(l)
  <2>1. c # <<>>
    BY <1>0, <1>1, <1>6
  <2>2. Agree(c, L[x], Len(c))
    BY <1>3, <1>6, <2>1 DEF Follows
  <2> QED BY <1>0, <1>1, <1>4, <1>6, <2>2 DEF Agree
<1>7. CASE y > x
  <2>1. c # <<>>
    BY <1>2, <1>7 DEF y, LastTerm
  <2>2. /\ Len(c) \in 1..Len(c) /\ y = c[Len(c)].term /\ y \in Nat
        /\ Agree(c, L[y], Len(c)) /\ L[y] \in Seq(Entry) /\ Sorted(L[y])
    BY <1>3, <2>1 DEF Follows, LeaderLogs, Record
  <2>3. W[y] # Nil
    <3>1. L[y] # <<>>
      BY <2>2 DEF Agree
    <3> QED BY <2>2, <3>1 DEF LeaderLogs
  <2>4. Agree(L[y], L[T], k)
    BY <1>2, <1>5, <1>7, <2>2, <2>3 DEF LeadersHave
  <2>5. k <= Len(c)
    <3> SUFFICES ASSUME Len(c) < k PROVE FALSE
      BY <1>0
    <3>1. /\ Len(c) \in 1..Len(L[y]) /\ k \in 1..Len(L[y])
          /\ L[y][Len(c)] = c[Len(c)] /\ L[y][k] = L[T][k]
      BY <1>0, <2>2, <2>4 DEF Agree
    <3>2. y <= T
      <4>1. Len(c) \in Nat /\ Len(c) <= k
        BY <1>0
      <4>2. L[y][Len(c)].term <= L[y][k].term
        BY <2>2, <3>1, <4>1 DEF Sorted
      <4> QED BY <1>0, <2>2, <3>1, <4>2
    <3> QED BY <1>2, <1>5, <1>7, <2>2, <3>2
  <2> QED BY <1>0, <2>2, <2>4, <2>5 DEF Agree
<1> QED BY <1>6, <1>7 DEF x, y

\* What every later leader has is not lost by a server that has reached its term.
LEMMA ChosenStaysIn ==
  ASSUME TypeInv, [Next]_vars, NEW L \in Record, NEW W \in Leaders, LogInv(L, W),
         NEW T \in Nat, NEW k \in Nat, k <= Len(L[T]), LeadersHave(L, W, T, k),
         NEW s \in Server, T <= currentTerm[s],
         NEW j \in Nat, j <= k, Agree(log[s], L[T], j)
  PROVE  Agree(log'[s], L[T], j)
<1>0. /\ L[T] \in Seq(Entry) /\ Agree(L[T], L[T], j)
      /\ currentTerm[s] \in Nat /\ currentTerm'[s] \in Nat /\ currentTerm'[s] >= currentTerm[s]
  BY StepType, StepVotes DEF Record, Agree, TypeInv, TypeOK, VotesKept
<1>1. ASSUME NEW m \in Appends, m.to = s, HandleAppendEntries(s, m), ~LeaderIsStale(s, m)
      PROVE  Agree(L[m.term], L[T], j)
  <2>1. m.term = currentTerm'[s] /\ m.term \in Nat /\ L[m.term] \in Seq(Entry)
    BY <1>0, <1>1, HandleTerm DEF Record
  <2>2. CASE m.term = T
    BY <1>0, <2>2
  <2>3. CASE m.term > T
    <3>1. W[m.term] # Nil
      <4>1. m \in AppendRequest
        BY <1>1, HandleTerm
      <4> QED BY <4>1, NilAssumption DEF LogInv, CallsFollow, AppendRequest
    <3>2. Agree(L[m.term], L[T], k)
      BY <2>1, <2>3, <3>1 DEF LeadersHave
    <3> QED BY <1>0, <2>1, <3>2, AgreeLess
  <2> QED BY <1>0, <2>1, <2>2, <2>3
<1> QED BY <1>0, <1>1, StaysIn

\* Who wins an election has what a majority can still acknowledge.
LEMMA WinnerHas ==
  ASSUME TypeInv, ElectionInv, NEW L \in Record, NEW V \in Views,
         NEW T \in Nat, NEW k \in Nat,
         Choosable(L, V, T, k), AckersHave(L, V, T, k), VotersCheck(L, V, T, k),
         NEW n \in Server, Wins(n), currentTerm[n] > T
  PROVE  Agree(log[n], L[T], k)
<1> DEFINE t == currentTerm[n]
<1>1. PICK granted \in SUBSET {p \in Peers(n) : reply[n][p] # Nil /\ reply[n][p].ok} :
        WinsVote(n, granted)
  BY DEF Wins
<1> DEFINE R == granted \cup {n}
<1>2. /\ state[n] = Candidate /\ electionTerm[n] = t /\ electionTerm[n] # 0 /\ t \in Nat
  BY DEF Wins, FinishElection, VotesAreStale, TypeInv, TypeOK
<1>3. R \in Quorum
  BY <1>1 DEF WinsVote, Quorum, Peers
<1>4. PICK Q \in Quorum : \A q \in Q : Has(L, V, q, T, k) \/ currentTerm[q] <= T
  BY DEF Choosable
<1>5. PICK q \in Server : q \in Q /\ q \in R
  BY <1>3, <1>4, QuorumsMeet
<1>6. Has(L, V, q, T, k) \/ currentTerm[q] <= T
  BY <1>4, <1>5
<1>7. CASE q = n
  BY <1>2, <1>6, <1>7 DEF AckersHave
<1>8. CASE q \in granted
  <2>1. HasVote(n, q, electionTerm[n])
    BY <1>2, <1>8 DEF HasVote
  <2>2. Bound(q, n, t)
    BY <1>2, <1>5, <2>1 DEF ElectionInv, VotesBind
  <2>3. currentTerm[q] > T
    BY <1>2, <1>5, <2>2 DEF Bound, TypeInv, TypeOK
  <2>4. Has(L, V, q, T, k)
    BY <1>5, <1>6, <2>3 DEF TypeInv, TypeOK
  <2> QED BY <1>2, <1>5, <2>1, <2>4 DEF VotersCheck, Runs
<1> QED BY <1>5, <1>7, <1>8

\* A candidate's requests go on telling how its log ends.
LEMMA BallotStays ==
  ASSUME TypeInv, [Next]_vars, BallotInv
  PROVE  BallotInv'
<1>0. TypeOK /\ Calls /\ electionTerm \in [Server -> Nat] /\ TypeOK'
  BY StepType DEF TypeInv, TypeOK
<1> SUFFICES ASSUME NEW b \in Server, NEW q \in Server, state'[b] = Candidate,
                    electionTerm'[b] = currentTerm'[b], electionTerm'[b] # 0, request'[b][q] # Nil
             PROVE  /\ request'[b][q].lastIndex = LastIndex(log'[b])
                    /\ request'[b][q].lastTerm = LastTerm(log'[b])
  BY DEF BallotInv, Runs, LastIndex, LastTerm
<1>1. CASE StartElection(b) /\ request'[b][q] = AskVote(b, q, electionTerm'[b])
  <2>1. log' = log
    BY <1>1 DEF StartElection, logVars
  <2> QED BY <1>1, <2>1 DEF AskVote
<1>2. CASE StartReplication(b)
  BY <1>2 DEF StartReplication, serverVars, Candidate, Leader
<1>3. CASE request'[b][q] = request[b][q]
  <2>1. ~StartElection(b)
    BY <1>0, <1>3 DEF StartElection, Calls, CallsOf
  <2>2. state[b] = Candidate /\ currentTerm'[b] = currentTerm[b] /\ log'[b] = log[b]
    BY <2>1, CandidateKeeps
  <2>3. electionTerm[b] # 0
    BY <1>0, <1>3, <2>2 DEF Calls, CallsOf, Candidate, Leader
  <2>4. electionTerm'[b] = electionTerm[b]
    BY <2>3, RoundsEnd
  <2> QED BY <1>3, <2>2, <2>3, <2>4 DEF BallotInv, Runs
<1> QED BY <1>1, <1>2, <1>3, StepRequests

\* A vote is for a candidate that has what the voter has acknowledged.
LEMMA VoteHas ==
  ASSUME TypeInv, NEW L \in Record, NEW W \in Leaders, LogInv(L, W), BallotInv,
         NEW T \in Nat, NEW k \in 1..Len(L[T]), L[T][k].term = T, LeadersHave(L, W, T, k),
         NEW b \in Server, NEW q \in Server, Runs(b), electionTerm[b] # 0,
         NEW m, m = request[b][q], m # Nil, m \in Request, Grants(q, m),
         Agree(log[q], L[T], k)
  PROVE  Agree(log[b], L[T], k)
<1>1. /\ log[b] \in Seq(Entry) /\ log[q] \in Seq(Entry)
      /\ Follows(log[b], L) /\ Follows(log[q], L) /\ LeaderLogs(L, W)
  BY DEF TypeInv, TypeOK, LogInv, LogsFollow
<1>2. m.lastIndex = LastIndex(log[b]) /\ m.lastTerm = LastTerm(log[b])
  BY DEF BallotInv
<1>3. \/ LastTerm(log[b]) > LastTerm(log[q])
      \/ LastTerm(log[b]) = LastTerm(log[q]) /\ LastIndex(log[b]) >= LastIndex(log[q])
  BY <1>2 DEF Grants, LogUpToDate
<1>4. LastIndex(log[b]) >= LastIndex(log[q]) => Len(log[b]) >= Len(log[q])
  BY <1>1 DEF LastIndex
<1> QED BY <1>1, <1>3, <1>4, UpToDateHas

\* Whoever has acknowledged an entry goes on voting for servers that have it.
LEMMA VotersStay ==
  ASSUME TypeInv, ElectionInv', [Next]_vars, NEW L \in Record, NEW W \in Leaders, LogInv(L, W),
         BallotInv, NEW L2 \in Record, NEW V \in Views, ViewInv(L, V), NEW V2 \in Views, NextView(V, V2),
         NEW T \in Nat, NEW k \in 1..Len(L[T]), L[T][k].term = T,
         k \in 1..Len(L2[T]), L2[T][k].term = T,
         LeadersHave(L, W, T, k), AckersHave(L, V, T, k), VotersCheck(L, V, T, k),
         NEW b \in Server, NEW q \in Server, Runs(b)', electionTerm'[b] > T,
         HasVote(b, q, electionTerm[b])', Has(L2, V2, q, T, k)
  PROVE  Agree(log'[b], L[T], k)
<1>0. /\ TypeOK /\ Calls /\ electionTerm'[b] \in Nat /\ currentTerm'[q] \in Nat
  BY StepType DEF TypeInv, TypeOK
<1>1. electionTerm'[b] # 0 /\ reply'[b][q] # Nil /\ state'[b] = Candidate /\ electionTerm'[b] = currentTerm'[b]
  BY DEF HasVote, Runs
<1>2. Has(L, V, q, T, k)
  <2>1. Bound(q, b, electionTerm[b])'
    BY DEF ElectionInv, VotesBind
  <2>2. T # currentTerm'[q]
    BY <1>0, <2>1 DEF Bound
  <2> QED BY <2>2, NewHas
<1>3. ~StartElection(b)
  BY <1>0, <1>1 DEF StartElection, Calls, CallsOf
<1>4. state[b] = Candidate /\ currentTerm'[b] = currentTerm[b] /\ log'[b] = log[b]
  BY <1>1, <1>3, CandidateKeeps
<1>5. CASE HasVote(b, q, electionTerm[b])
  <2>1. electionTerm'[b] = electionTerm[b]
    BY <1>1, <1>5, RoundsEnd DEF HasVote
  <2>2. Runs(b) /\ electionTerm[b] > T
    BY <1>1, <1>4, <2>1 DEF Runs
  <2> QED BY <1>2, <1>4, <1>5, <2>2 DEF VotersCheck
<1>6. CASE ~HasVote(b, q, electionTerm[b])
  <2> DEFINE m == request[b][q]
  <2>1. /\ electionTerm'[b] = electionTerm[b] /\ m \in Request /\ Receive(b, q) /\ Grants(q, m)
    BY <1>6, NewVote
  <2>2. m # Nil /\ Runs(b) /\ electionTerm[b] # 0
    BY <1>1, <1>4, <2>1 DEF Receive, Runs
  <2>3. Agree(log[q], L[T], k)
    BY <1>2 DEF AckersHave
  <2> HIDE DEF m
  <2>4. Agree(log[b], L[T], k)
    BY <2>1, <2>2, <2>3, VoteHas DEF m
  <2> QED BY <1>4, <2>4
<1> QED BY <1>5, <1>6

\* What a majority can acknowledge after a step it could before.
LEMMA ChoosableBefore ==
  ASSUME TypeInv, [Next]_vars, NEW L \in Record, NEW L2 \in Record,
         NEW V \in Views, ViewInv(L, V), NEW V2 \in Views, NextView(V, V2),
         NEW T \in Nat, NEW k \in 1..Len(L2[T]), L2[T][k].term = T, Choosable(L2, V2, T, k)'
  PROVE  Choosable(L, V, T, k)
<1>1. PICK Q \in Quorum : \A q \in Q : Has(L2, V2, q, T, k) \/ currentTerm'[q] <= T
  BY DEF Choosable, Quorum, Majority
<1>2. ASSUME NEW q \in Q PROVE Has(L, V, q, T, k) \/ currentTerm[q] <= T
  <2>0. /\ q \in Server /\ currentTerm[q] \in Nat /\ currentTerm'[q] \in Nat
        /\ currentTerm'[q] >= currentTerm[q]
    <3>1. q \in Server
      BY DEF Quorum
    <3> QED BY <3>1, StepType, StepVotes DEF TypeInv, TypeOK, VotesKept
  <2>1. CASE currentTerm'[q] <= T
    BY <2>0, <2>1
  <2>2. CASE Has(L2, V2, q, T, k) /\ T # currentTerm'[q]
    BY <2>0, <2>2, NewHas
  <2> QED BY <1>1, <2>0, <2>1, <2>2
<1> QED BY <1>2 DEF Choosable

\* An entry that is new cannot have been missed by a later leader, nor by a vote.
LEMMA NewEntryChoice ==
  ASSUME TypeInv, ElectionInv', [Next]_vars, NEW L \in Record, NEW L2 \in Record,
         NEW W2 \in Leaders, LogInv(L2, W2)',
         NEW V \in Views, ViewInv(L, V), NEW V2 \in Views, NextView(V, V2),
         NEW T \in Nat, NEW k \in 1..Len(L2[T]), L2[T][k].term = T, k > Len(L[T]),
         Choosable(L2, V2, T, k)'
  PROVE  /\ LeadersHave(L2, W2, T, k)
         /\ AckersHave(L2, V2, T, k)'
         /\ VotersCheck(L2, V2, T, k)'
<1>0. \A q \in Server : currentTerm'[q] \in Nat
  BY StepType DEF TypeOK
<1>00. L[T] \in Seq(Entry) /\ L2[T] \in Seq(Entry)
  BY DEF Record
<1>1. ASSUME NEW q \in Server, Has(L2, V2, q, T, k) PROVE currentTerm'[q] = T
  <2>1. ~Has(L, V, q, T, k)
    BY <1>00 DEF Has, Agree
  <2> QED BY <1>1, <2>1, NewHas
<1>2. LeadersHave(L2, W2, T, k)
  <2> SUFFICES ASSUME NEW t \in Nat, t > T, W2[t] # Nil PROVE FALSE
    BY DEF LeadersHave
  <2>1. PICK Q \in Quorum : \A q \in Q : Has(L2, V2, q, T, k) \/ currentTerm'[q] <= T
    BY DEF Choosable, Quorum, Majority
  <2>2. PICK R \in Quorum : ElectedIn(W2[t], t, R)'
    BY DEF LogInv, Winners, Quorum, Majority
  <2>3. PICK q \in Server : q \in Q /\ q \in R
    BY <2>1, <2>2, QuorumsMeet
  <2>4. currentTerm'[q] <= T
    BY <1>0, <1>1, <2>1, <2>3
  <2>5. currentTerm'[q] >= t
    BY <1>0, <2>2, <2>3 DEF ElectedIn, Bound
  <2> QED BY <1>0, <2>3, <2>4, <2>5
<1>3. AckersHave(L2, V2, T, k)'
  BY <1>1 DEF AckersHave, NextView, Has
<1>4. VotersCheck(L2, V2, T, k)'
  <2> SUFFICES ASSUME NEW b \in Server, NEW q \in Server, electionTerm'[b] > T,
                      HasVote(b, q, electionTerm[b])', Has(L2, V2, q, T, k)
               PROVE  FALSE
    BY DEF VotersCheck, HasVote, Has
  <2>1. Bound(q, b, electionTerm[b])'
    BY DEF ElectionInv, VotesBind
  <2>2. electionTerm'[b] \in Nat
    BY StepType DEF TypeOK
  <2> QED BY <1>0, <1>1, <2>1, <2>2 DEF Bound
<1> QED BY <1>2, <1>3, <1>4

\* An entry that was safe stays safe.
LEMMA OldEntryChoice ==
  ASSUME TypeInv, ElectionInv, ElectionInv', [Next]_vars,
         NEW L \in Record, NEW W \in Leaders, LogInv(L, W), BallotInv,
         NEW L2 \in Record, NEW W2 \in Leaders, NextRecord(L, W, L2, W2),
         NEW V \in Views, ViewInv(L, V), NEW V2 \in Views, NextView(V, V2),
         NEW T \in Nat, NEW k \in 1..Len(L[T]), L[T][k].term = T,
         k \in 1..Len(L2[T]), L2[T][k].term = T,
         Choosable(L, V, T, k),
         LeadersHave(L, W, T, k), AckersHave(L, V, T, k), VotersCheck(L, V, T, k)
  PROVE  /\ LeadersHave(L2, W2, T, k)
         /\ AckersHave(L2, V2, T, k)'
         /\ VotersCheck(L2, V2, T, k)'
<1>0. /\ k \in Nat /\ k >= 1 /\ L[T] \in Seq(Entry) /\ L2[T] \in Seq(Entry)
      /\ TypeOK /\ Grown(L, W, L2, W2)
  BY DEF Record, TypeInv, NextRecord
<1>1. Agree(L[T], L2[T], k)
  <2>1. Agree(L[T], L2[T], Len(L[T])) /\ k <= Len(L[T])
    BY <1>0 DEF Grown
  <2> QED BY <1>0, <2>1, AgreeLess
<1>2. ASSUME NEW l, Agree(l, L[T], k) PROVE Agree(l, L2[T], k)
  BY <1>0, <1>1, <1>2, AgreeTrans
<1>3. LeadersHave(L2, W2, T, k)
  <2> SUFFICES ASSUME NEW t \in Nat, t > T, W2[t] # Nil PROVE Agree(L2[t], L[T], k)
    BY <1>2 DEF LeadersHave
  <2>0. L[t] \in Seq(Entry) /\ L2[t] \in Seq(Entry)
    BY DEF Record
  <2>1. CASE W[t] # Nil
    <3>1. Agree(L[t], L[T], k)
      BY <2>1 DEF LeadersHave
    <3>2. Agree(L[t], L2[t], Len(L[t])) /\ k <= Len(L[t])
      BY <1>0, <3>1 DEF Grown, Agree
    <3>3. Agree(L2[t], L[t], k)
      <4>1. Len(L[t]) \in Nat /\ Len(L2[t]) \in Nat
        BY <2>0
      <4> QED BY <1>0, <3>2, <4>1, AgreeLess
    <3> QED BY <1>0, <3>1, <3>3, AgreeTrans
  <2>2. CASE W[t] = Nil
    <3>1. PICK n \in Server : /\ t = currentTerm[n] /\ L2[t] = log'[n] /\ W2[t] = n
                              /\ Wins(n) \/ W[t] = n
      BY <2>2 DEF NextRecord
    <3>2. Wins(n)
      BY <2>2, <3>1, NilAssumption
    <3>3. log'[n] = log[n]
      BY <3>2 DEF Wins, FinishElection, logVars
    <3>4. Agree(log[n], L[T], k)
      BY <1>0, <3>1, <3>2, WinnerHas
    <3> QED BY <3>1, <3>3, <3>4
  <2> QED BY <2>1, <2>2
<1>4. AckersHave(L2, V2, T, k)'
  <2> SUFFICES ASSUME NEW q \in Server, Has(L2, V2, q, T, k) PROVE Agree(log'[q], L2[T], k)
    BY DEF AckersHave, Has
  <2>1. CASE T = currentTerm'[q]
    BY <2>1 DEF NextView, Has
  <2>2. CASE T # currentTerm'[q]
    <3>1. Has(L, V, q, T, k)
      BY <2>2, NewHas
    <3>2. Agree(log[q], L[T], k)
      BY <3>1 DEF AckersHave
    <3>3. T <= currentTerm[q]
      <4>1. V[q][T] # <<>>
        BY <1>0, <3>1 DEF Has, Agree
      <4> QED BY <1>0, <4>1 DEF ViewInv, TypeOK
    <3>4. Agree(log'[q], L[T], k)
      BY <1>0, <3>2, <3>3, ChosenStaysIn
    <3> QED BY <1>2, <3>4
  <2> QED BY <2>1, <2>2
<1>5. VotersCheck(L2, V2, T, k)'
  <2> SUFFICES ASSUME NEW b \in Server, NEW q \in Server, Runs(b)', electionTerm'[b] > T,
                      HasVote(b, q, electionTerm[b])', Has(L2, V2, q, T, k)
               PROVE  Agree(log'[b], L2[T], k)
    BY DEF VotersCheck, HasVote, Has
  <2>1. Agree(log'[b], L[T], k)
    BY VotersStay
  <2> QED BY <1>2, <2>1
<1> QED BY <1>3, <1>4, <1>5

\* Steps keep what is or can become chosen.
LEMMA ChoiceStays ==
  ASSUME TypeInv, ElectionInv, ElectionInv', [Next]_vars,
         NEW L \in Record, NEW W \in Leaders, LogInv(L, W), BallotInv,
         NEW L2 \in Record, NEW W2 \in Leaders, NextRecord(L, W, L2, W2), LogInv(L2, W2)',
         NEW V \in Views, ViewInv(L, V), NEW V2 \in Views, NextView(V, V2),
         ChoiceInv(L, W, V)
  PROVE  ChoiceInv(L2, W2, V2)'
<1> SUFFICES ASSUME NEW T \in Nat, NEW k \in 1..Len(L2[T]), L2[T][k].term = T,
                    Choosable(L2, V2, T, k)'
             PROVE  /\ LeadersHave(L2, W2, T, k)
                    /\ AckersHave(L2, V2, T, k)'
                    /\ VotersCheck(L2, V2, T, k)'
  BY DEF ChoiceInv, LeadersHave, Agree
<1>0. L[T] \in Seq(Entry) /\ L2[T] \in Seq(Entry)
  BY DEF Record
<1>1. CASE k > Len(L[T])
  BY <1>1, NewEntryChoice
<1>2. CASE k <= Len(L[T])
  <2>1. k \in 1..Len(L[T]) /\ L[T][k].term = T
    BY <1>0, <1>2 DEF NextRecord, Grown, Agree
  <2>2. Choosable(L, V, T, k)
    BY ChoosableBefore
  <2>3. LeadersHave(L, W, T, k) /\ AckersHave(L, V, T, k) /\ VotersCheck(L, V, T, k)
    BY <2>1, <2>2 DEF ChoiceInv
  <2> QED BY <2>1, <2>2, <2>3, OldEntryChoice
<1> QED BY <1>0, <1>1, <1>2

-----------------------------------------------------------------------------
(* What servers believe committed *)

\* What is certified stays so, for a log that keeps it.
LEMMA CertifiedStays ==
  ASSUME TypeInv, [Next]_vars, NEW L \in Record, NEW W \in Leaders, LogInv(L, W),
         NEW L2 \in Record, NEW W2, Grown(L, W, L2, W2),
         NEW V \in Views, ViewInv(L, V), NEW V2 \in Views, NextView(V, V2),
         NEW c \in Index, NEW t \in Nat, NEW l, Certified(L, V, c, t, l),
         NEW u \in Nat, t <= u, NEW l2,
         \A T \in 0..t : \A k \in 1..Len(L[T]) :
           /\ c >= 0 /\ c + 1 <= k /\ L[T][k].term = T
           /\ Chosen(L, V, T, k) /\ Agree(l, L[T], c + 1)
           => Agree(l2, L[T], c + 1)
  PROVE  Certified(L2, V2, c, u, l2)
<1> SUFFICES ASSUME c >= 0
             PROVE  \E T \in 0..u : \E k \in 1..Len(L2[T]) :
                      /\ c + 1 <= k /\ L2[T][k].term = T
                      /\ Chosen(L2, V2, T, k)
                      /\ Agree(l2, L2[T], c + 1)
  BY DEF Certified
<1>1. PICK T \in 0..t : \E k \in 1..Len(L[T]) :
        /\ c + 1 <= k /\ L[T][k].term = T /\ Chosen(L, V, T, k) /\ Agree(l, L[T], c + 1)
  BY DEF Certified
<1>2. PICK k \in 1..Len(L[T]) :
        /\ c + 1 <= k /\ L[T][k].term = T /\ Chosen(L, V, T, k) /\ Agree(l, L[T], c + 1)
  BY <1>1
<1>3. /\ T \in 0..u /\ T \in Nat /\ L[T] \in Seq(Entry) /\ L2[T] \in Seq(Entry) /\ c + 1 \in Nat
      /\ k \in Nat
  <2>1. T \in 0..u /\ T \in Nat
    OBVIOUS
  <2>2. L[T] \in Seq(Entry) /\ L2[T] \in Seq(Entry)
    BY <2>1 DEF Record
  <2>3. c \in Int
    BY IndexIsInt
  <2>4. k \in Nat
    BY <2>2
  <2> QED BY <2>1, <2>2, <2>3, <2>4
<1>4. Agree(L[T], L2[T], Len(L[T]))
  BY <1>3 DEF Grown
<1>5. k \in 1..Len(L2[T]) /\ L2[T][k].term = T
  BY <1>2, <1>3, <1>4 DEF Agree
<1>6. Chosen(L2, V2, T, k)
  <2>1. PICK Q \in Quorum : \A q \in Q : Has(L, V, q, T, k)
    BY <1>2 DEF Chosen
  <2>2. \A q \in Q : Has(L2, V2, q, T, k)
    BY <1>3, <2>1, HasStays DEF Quorum
  <2> QED BY <2>1, <2>2 DEF Chosen
<1>7. Agree(l2, L2[T], c + 1)
  <2>1. Agree(l2, L[T], c + 1)
    BY <1>2
  <2>2. c + 1 <= Len(L[T])
    BY <1>3, <2>1 DEF Agree
  <2>3. Agree(L[T], L2[T], c + 1)
    BY <1>3, <1>4, <2>2, AgreeLess
  <2> QED BY <1>3, <2>1, <2>3, AgreeTrans
<1> QED BY <1>2, <1>3, <1>5, <1>6, <1>7

\* What changes commit_index: a leader counts acknowledgements, or a follower is told.
LEMMA StepCommit ==
  ASSUME TypeInv, [Next]_vars, NEW s \in Server, commitIndex'[s] # commitIndex[s]
  PROVE  \/ /\ state[s] = Leader /\ currentTerm'[s] = currentTerm[s] /\ log'[s] = log[s]
            /\ commitIndex'[s] \in NewCommits(s)
         \/ \E m \in Appends : m.to = s /\ AcceptEntries(s, m)
<1>0. TypeOK /\ commitIndex \in [Server -> Index]
  BY DEF TypeInv, TypeOK
<1> DEFINE Goal == \E m \in Appends : m.to = s /\ AcceptEntries(s, m)
<1>1. ASSUME NEW m \in InFlight, m.to \in Server, Handle(m.to, m) PROVE Goal
  <2>1. m.type = "append" /\ AcceptEntries(m.to, m)
    BY <1>1 DEF Handle, HandleRequestVote, HandleAppendEntries, RejectStaleLeader, RejectGap,
       RejectConflict, logVars
  <2>2. m.to = s
    BY <1>0, <1>1, <2>1 DEF AcceptEntries
  <2> QED BY <2>1, <2>2 DEF Appends
<1>2. ASSUME NEW n \in Server, FinishReplication(n)
      PROVE  /\ state[s] = Leader /\ currentTerm'[s] = currentTerm[s] /\ log'[s] = log[s]
             /\ commitIndex'[s] \in NewCommits(s)
  <2>1. state[n] = Leader /\ \E i \in NewCommits(n) : commitIndex' = [commitIndex EXCEPT ![n] = i]
    BY <1>2 DEF FinishReplication, AdvanceCommitIndex
  <2>2. n = s
    BY <1>0, <2>1
  <2> QED BY <1>0, <1>2, <2>1, <2>2 DEF FinishReplication, serverVars
<1>3. ASSUME NEW n \in Server, NEW p \in Peers(n), Receive(n, p) PROVE Goal
  BY <1>1, <1>3, Delivery
<1>4. ASSUME NEW m \in late, ReceiveLate(m) PROVE Goal
  BY <1>1, <1>4, Delivery
<1> QED BY <1>2, <1>3, <1>4 DEF Next, vars, logVars, StartElection, FinishElection, StartReplication,
         ClientAppend, ReceiveAppendReply

\* The servers whose acknowledgement a leader counts, and the leader, are a majority
\* that has the entry.
LEMMA CommitIsChosen ==
  ASSUME TypeInv, NEW L \in Record, NEW W \in Leaders, LogInv(L, W),
         NEW V \in Views, AckInv(L, V),
         NEW n \in Server, state[n] = Leader, NEW i \in NewCommits(n)
  PROVE  Certified(L, V, i, currentTerm[n], log[n])
<1> DEFINE T == currentTerm[n]
           S == {p \in Peers(n) : matchIndex[n][p] >= i}
           Q == S \cup {n}
<1>0. /\ TypeOK /\ T \in Nat /\ log[n] = L[T] /\ log[n] \in Seq(Entry) /\ commitIndex[n] \in Int
      /\ commitIndex[n] >= -1
  <2>1. TypeOK /\ T \in Nat /\ log[n] = L[T] /\ log[n] \in Seq(Entry) /\ commitIndex[n] \in Index
    BY DEF TypeInv, TypeOK, LogInv, LeaderLogs
  <2> QED BY <2>1, IndexIsInt
<1>1. /\ i \in Nat /\ i + 1 \in 1..Len(L[T]) /\ L[T][i + 1].term = T
      /\ Cardinality(S) + 1 >= Majority
  <2>1. i \in commitIndex[n] + 1 .. LastIndex(log[n]) /\ Committable(n, i)
    BY DEF NewCommits
  <2>2. i \in Nat /\ i + 1 \in 1..Len(log[n])
    BY <1>0, <2>1 DEF LastIndex
  <2> QED BY <1>0, <2>1, <2>2 DEF Committable, At, Acked
<1>2. Q \in Quorum
  <2>1. IsFiniteSet(Server) /\ S \subseteq Server /\ n \notin S
    BY ServerAssumption DEF Peers
  <2>2. IsFiniteSet(S)
    BY <2>1, FS_Subset
  <2> HIDE DEF S
  <2>3. Cardinality(S \cup {n}) = Cardinality(S) + 1
    BY <2>1, <2>2, FS_AddElement
  <2> QED BY <1>1, <2>1, <2>3 DEF Quorum
<1>3. ASSUME NEW q \in Q PROVE Has(L, V, q, T, i + 1)
  <2>1. CASE q = n
    BY <1>0, <1>1, <2>1 DEF AckInv, ViewInv, Has, Agree
  <2>2. CASE q \in S
    <3>1. Has(L, V, q, T, matchIndex[n][q] + 1) /\ matchIndex[n][q] >= i /\ q \in Server
      BY <2>2 DEF AckInv, MatchInv, Peers
    <3>2. matchIndex[n][q] \in Int
      <4>1. matchIndex[n][q] \in Index
        BY <1>0, <3>1 DEF TypeOK
      <4> QED BY <4>1, IndexIsInt
    <3> HIDE DEF T
    <3> QED BY <1>1, <3>1, <3>2 DEF Has, Agree
  <2> QED BY <2>1, <2>2
<1>4. Chosen(L, V, T, i + 1)
  <2> HIDE DEF Q
  <2> QED BY <1>2, <1>3 DEF Chosen
<1>5. Agree(log[n], L[T], i + 1)
  BY <1>0, <1>1 DEF Agree
<1> HIDE DEF T
<1>6. T \in 0..T /\ i + 1 <= i + 1
  BY <1>0, <1>1
<1>7. Certified(L, V, i, T, log[n])
  BY <1>1, <1>4, <1>5, <1>6 DEF Certified
<1> QED BY <1>7 DEF T

\* A follower that is told of new commits has what it is told of.
LEMMA ToldCommit ==
  ASSUME TypeInv, NEW L \in Record, NEW W \in Leaders, LogInv(L, W), NEW V, CommitInv(L, V),
         NEW m \in Appends, NEW s \in Server, m.to = s, AcceptEntries(s, m)
  PROVE  /\ Agree(log'[s], L[m.term], End(m))
         /\ m.commit < End(m) /\ Certified(L, V, m.commit, m.term, L[m.term])
         /\ m.commit \in Index /\ End(m) \in Nat
         /\ commitIndex'[s] = IF m.commit > commitIndex[s] THEN m.commit ELSE commitIndex[s]
<1> DEFINE w == L[m.term]
<1>0. TypeOK /\ commitIndex[s] \in Index
  BY DEF TypeInv, TypeOK
<1>1. HandleAppendEntries(s, m) /\ Accepts(s, m)
  BY DEF HandleAppendEntries, AcceptEntries
<1>2. m \in AppendRequest /\ m.term \in Nat /\ m.commit \in Index
  <2>1. m \in AppendRequest /\ m.term \in Nat
    BY <1>1, HandleTerm
  <2> QED BY <2>1 DEF AppendRequest
<1>3. w \in Seq(Entry) /\ Part(m, w) /\ Coherent(log[s], w) /\ log'[s] \in Seq(Entry)
  BY <1>1, HandledLog
<1>4. m.commit < End(m) /\ Certified(L, V, m.commit, m.term, w)
  BY DEF CommitInv
<1> HIDE DEF w
<1>5. Agree(log'[s], w, End(m))
  BY <1>0, <1>1, <1>2, <1>3, AppendEffect
<1>6. End(m) \in Nat
  BY <1>2, <1>3, PartEnds
<1>7. commitIndex'[s] = IF m.commit > commitIndex[s] THEN m.commit ELSE commitIndex[s]
  <2>1. commitIndex'[s] = CommitAfter(s, m, log'[s])
    BY <1>0 DEF AcceptEntries, TypeOK
  <2>2. m.commit \in Int /\ commitIndex[s] \in Int
    BY <1>0, <1>2, IndexIsInt
  <2>3. m.commit <= LastIndex(log'[s]) /\ LastIndex(log'[s]) \in Int
    BY <1>3, <1>4, <1>5, <1>6, <2>2 DEF LastIndex, Agree
  <2> QED BY <2>1, <2>2, <2>3 DEF CommitAfter
<1> QED BY <1>2, <1>4, <1>5, <1>6, <1>7 DEF w

\* What a server believes committed goes on being certified.
LEMMA ServerCommits ==
  ASSUME TypeInv, [Next]_vars, NEW L \in Record, NEW W \in Leaders, LogInv(L, W),
         NEW L2 \in Record, NEW W2, Grown(L, W, L2, W2),
         NEW V \in Views, AckInv(L, V), NEW V2 \in Views, NextView(V, V2),
         ChoiceInv(L, W, V), CommitInv(L, V), NEW s \in Server
  PROVE  Certified(L2, V2, commitIndex'[s], currentTerm'[s], log'[s])
<1>0. /\ TypeOK /\ ViewInv(L, V) /\ commitIndex[s] \in Index /\ commitIndex'[s] \in Index
      /\ currentTerm[s] \in Nat /\ currentTerm'[s] \in Nat /\ currentTerm[s] <= currentTerm'[s]
      /\ log'[s] \in Seq(Entry)
  BY StepType, StepVotes DEF TypeInv, TypeOK, AckInv, VotesKept
<1>1. CASE commitIndex'[s] = commitIndex[s]
  <2> DEFINE c == commitIndex[s]
             t == currentTerm[s]
  <2>1. Certified(L, V, c, t, log[s])
    BY DEF CommitInv
  <2>2. ASSUME NEW T \in 0..t, NEW k \in 1..Len(L[T]), c >= 0, c + 1 <= k, L[T][k].term = T,
               Chosen(L, V, T, k), Agree(log[s], L[T], c + 1)
        PROVE  Agree(log'[s], L[T], c + 1)
    <3>1. T \in Nat /\ T <= t /\ k \in Nat /\ k <= Len(L[T]) /\ c + 1 \in Nat
      <4>1. T \in Nat /\ T <= t /\ c \in Int
        BY <1>0, IndexIsInt
      <4>2. L[T] \in Seq(Entry)
        BY <4>1 DEF Record
      <4> QED BY <2>2, <4>1, <4>2
    <3>2. LeadersHave(L, W, T, k)
      BY <2>2, <3>1 DEF Chosen, Choosable, ChoiceInv
    <3> HIDE DEF c, t
    <3>3. T <= currentTerm[s]
      BY <3>1 DEF t
    <3> QED BY <2>2, <3>1, <3>2, <3>3, ChosenStaysIn
  <2>3. Certified(L2, V2, c, currentTerm'[s], log'[s])
    <3> HIDE DEF c
    <3>1. c \in Index
      BY <1>0 DEF c
    <3> HIDE DEF t
    <3>2. t \in Nat /\ t <= currentTerm'[s]
      BY <1>0 DEF t
    <3>3. PICK u, l, l2 : u = currentTerm'[s] /\ l = log[s] /\ l2 = log'[s]
      OBVIOUS
    <3>4. /\ Certified(L, V, c, t, l) /\ u \in Nat /\ t <= u /\ ViewInv(L, V)
          /\ \A T \in 0..t : \A k \in 1..Len(L[T]) :
               /\ c >= 0 /\ c + 1 <= k /\ L[T][k].term = T
               /\ Chosen(L, V, T, k) /\ Agree(l, L[T], c + 1)
               => Agree(l2, L[T], c + 1)
      BY <1>0, <2>1, <2>2, <3>2, <3>3
    <3>5. Certified(L2, V2, c, u, l2)
      BY <3>1, <3>2, <3>4, CertifiedStays
    <3> QED BY <3>3, <3>5
  <2> QED BY <1>1, <2>3
<1>2. CASE /\ state[s] = Leader /\ currentTerm'[s] = currentTerm[s] /\ log'[s] = log[s]
           /\ commitIndex'[s] \in NewCommits(s)
  <2>1. Certified(L, V, commitIndex'[s], currentTerm[s], log[s])
    BY <1>2, CommitIsChosen
  <2> QED BY <1>0, <1>2, <2>1, CertifiedStays
<1>3. ASSUME commitIndex'[s] # commitIndex[s], NEW m \in Appends, m.to = s, AcceptEntries(s, m)
      PROVE  Certified(L2, V2, commitIndex'[s], currentTerm'[s], log'[s])
  <2>0. PICK w, c, t, u, l : /\ w = L[m.term] /\ c = m.commit /\ t = m.term
                             /\ u = currentTerm'[s] /\ l = log'[s]
    OBVIOUS
  <2>1. t \in Nat /\ u \in Nat /\ t <= u
    <3>1. HandleAppendEntries(s, m) /\ ~LeaderIsStale(s, m)
      BY <1>3 DEF HandleAppendEntries, AcceptEntries, Accepts
    <3> QED BY <1>3, <2>0, <3>1, HandleTerm
  <2>2. /\ Agree(l, w, End(m)) /\ c < End(m) /\ End(m) \in Nat
        /\ Certified(L, V, c, t, w)
        /\ c \in Index /\ c \in Int
        /\ commitIndex'[s] = c
    BY <1>3, <2>0, ToldCommit, IndexIsInt
  <2>3. w \in Seq(Entry) /\ l \in Seq(Entry)
    BY <1>0, <2>0, <2>1 DEF Record
  <2>4. ASSUME NEW T \in 0..t, NEW k \in 1..Len(L[T]), c >= 0, Agree(w, L[T], c + 1)
        PROVE  Agree(l, L[T], c + 1)
    <3>1. Agree(l, w, c + 1)
      BY <2>2, <2>3, <2>4, AgreeLess
    <3> QED BY <2>2, <2>4, <3>1, AgreeTrans
  <2>5. Certified(L2, V2, c, u, l)
    <3>1. Certified(L, V, c, t, w) /\ c \in Index
      BY <2>2
    <3>2. /\ t \in Nat /\ u \in Nat /\ t <= u /\ ViewInv(L, V)
          /\ \A T \in 0..t : \A k \in 1..Len(L[T]) :
               /\ c >= 0 /\ c + 1 <= k /\ L[T][k].term = T
               /\ Chosen(L, V, T, k) /\ Agree(w, L[T], c + 1)
               => Agree(l, L[T], c + 1)
      BY <1>0, <2>1, <2>4
    <3> QED BY <3>1, <3>2, CertifiedStays
  <2> QED BY <2>0, <2>2, <2>5
<1> QED BY <1>1, <1>2, <1>3, StepCommit

\* What a call says is committed is within what it carries, and goes on being
\* certified.
LEMMA CallCommits ==
  ASSUME TypeInv, [Next]_vars, NEW L \in Record, NEW W \in Leaders, LogInv(L, W),
         NEW L2 \in Record, NEW W2, Grown(L, W, L2, W2),
         NEW V \in Views, AckInv(L, V), NEW V2 \in Views, NextView(V, V2),
         CommitInv(L, V), NEW m \in InFlight', m.type = "append"
  PROVE  m.commit < End(m) /\ Certified(L2, V2, m.commit, m.term, L2[m.term])
<1>0. TypeOK /\ ViewInv(L, V) /\ TypeInv'
  BY StepType, StepCalls DEF TypeInv, AckInv
<1>1. m \in AppendRequest /\ m.term \in Nat /\ m.commit \in Index
  <2>1. m \in Request
    BY <1>0 DEF TypeInv, TypeOK, InFlight
  <2> QED BY <2>1 DEF Request, VoteRequest, AppendRequest
<1>2. m.commit < End(m) /\ Certified(L, V, m.commit, m.term, L[m.term])
  <2>1. CASE m \in InFlight
    BY <2>1 DEF CommitInv, Appends
  <2>2. CASE m \notin InFlight
    <3>1. PICK n \in Server : \E p \in Peers(n) :
            \/ StartElection(n) /\ m = AskVote(n, p, currentTerm[n] + 1)
            \/ StartReplication(n) /\ ~OutOfLog(n, p) /\ m = AskAppend(n, p)
      BY <2>2, StepFlight
    <3>2. PICK p \in Peers(n) :
            \/ StartElection(n) /\ m = AskVote(n, p, currentTerm[n] + 1)
            \/ StartReplication(n) /\ ~OutOfLog(n, p) /\ m = AskAppend(n, p)
      BY <3>1
    <3>3. StartReplication(n) /\ m = AskAppend(n, p)
      BY <3>2 DEF AskVote
    <3>4. state[n] = Leader /\ p \in Server
      BY <3>3 DEF StartReplication, Peers
    <3>5. nextIndex[n][p] <= Len(log[n]) /\ log[n] = L[currentTerm[n]]
      BY <3>4 DEF LogInv, NextInLog, LeaderLogs
    <3>6. /\ m.term = currentTerm[n] /\ m.commit = commitIndex[n]
          /\ m.prevIndex = nextIndex[n][p] - 1
          /\ m.entries = SubSeq(log[n], nextIndex[n][p] + 1, Len(log[n]))
      BY <3>3 DEF AskAppend
    <3>7. Certified(L, V, m.commit, m.term, L[m.term])
      BY <3>5, <3>6 DEF CommitInv
    <3>8. End(m) = Len(log[n]) /\ Len(log[n]) \in Nat
      <4> DEFINE k == nextIndex[n][p]
      <4>1. log[n] \in Seq(Entry) /\ k \in Nat /\ Len(log[n]) \in Nat /\ k <= Len(log[n])
        BY <1>0, <3>4, <3>5 DEF TypeOK
      <4>2. m.prevIndex = k - 1 /\ m.entries = SubSeq(log[n], k + 1, Len(log[n]))
        BY <3>6
      <4> HIDE DEF k
      <4>3. Len(m.entries) = Len(log[n]) - k
        BY <4>1, <4>2, SuffixIs
      <4> QED BY <4>1, <4>2, <4>3 DEF End
    <3>9. m.commit < Len(log[n])
      <4>0. m.commit \in Int /\ m.commit >= -1
        BY <1>1, IndexIsInt
      <4>1. CASE m.commit >= 0
        <5>1. m.commit + 1 <= Len(L[m.term])
          BY <3>7, <4>1 DEF Certified, Agree
        <5> QED BY <3>5, <3>6, <3>8, <4>0, <5>1
      <4> QED BY <3>8, <4>0, <4>1
    <3> QED BY <3>7, <3>8, <3>9
  <2> QED BY <2>1, <2>2
<1>3. PICK l, l2 : l = L[m.term] /\ l2 = L2[m.term]
  OBVIOUS
<1>4. l \in Seq(Entry) /\ l2 \in Seq(Entry) /\ Agree(l, l2, Len(l))
  BY <1>1, <1>3 DEF Record, Grown
<1>5. ASSUME NEW T \in 0..m.term, NEW k \in 1..Len(L[T]), m.commit >= 0,
             Agree(l, L[T], m.commit + 1)
      PROVE  Agree(l2, L[T], m.commit + 1)
  <2>1. m.commit + 1 \in Nat /\ m.commit + 1 <= Len(l)
    BY <1>1, <1>5, IndexIsInt DEF Agree
  <2>2. Agree(l2, l, m.commit + 1)
    BY <1>4, <2>1, AgreeLess
  <2> QED BY <1>5, <2>1, <2>2, AgreeTrans
<1>6. Certified(L2, V2, m.commit, m.term, l2)
  BY <1>0, <1>1, <1>2, <1>3, <1>5, CertifiedStays
<1> QED BY <1>2, <1>3, <1>6

\* Steps keep what servers believe committed.
LEMMA CommitsStay ==
  ASSUME TypeInv, [Next]_vars, NEW L \in Record, NEW W \in Leaders, LogInv(L, W),
         NEW L2 \in Record, NEW W2, Grown(L, W, L2, W2),
         NEW V \in Views, AckInv(L, V), NEW V2 \in Views, NextView(V, V2),
         ChoiceInv(L, W, V), CommitInv(L, V)
  PROVE  CommitInv(L2, V2)'
<1>1. \A s \in Server : Certified(L2, V2, commitIndex'[s], currentTerm'[s], log'[s])
  BY ServerCommits
<1>2. \A m \in InFlight' : m.type = "append" =>
        m.commit < End(m) /\ Certified(L2, V2, m.commit, m.term, L2[m.term])
  BY CallCommits
<1> QED BY <1>1, <1>2 DEF CommitInv, Appends, Certified, Chosen, Has, Agree

-----------------------------------------------------------------------------
(* The invariant *)

\* There is a record of the leaders, of their logs and of what every server had.
CommitHist ==
  /\ BallotInv
  /\ \E L \in Record, W \in Leaders, V \in Views :
       /\ LogInv(L, W)
       /\ AckInv(L, V)
       /\ ChoiceInv(L, W, V)
       /\ CommitInv(L, V)

\* In the beginning it is empty.
LEMMA InitCommits ==
  ASSUME Init
  PROVE  CommitHist
<1>1. PICK L, W : L = [t \in Nat |-> <<>>] /\ W = [t \in Nat |-> Nil]
  OBVIOUS
<1>2. PICK V : V = [q \in Server |-> [t \in Nat |-> <<>>]]
  OBVIOUS
<1>3. <<>> \in Seq(Entry) /\ Len(<<>>) = 0
  BY EmptySeq
<1>4. L \in Record /\ W \in Leaders /\ LogInv(L, W)
  BY <1>1, InitLog
<1>5. V \in Views
  BY <1>2, <1>3 DEF Views
<1>6. \A t \in Nat : L[t] = <<>> /\ \A q \in Server : V[q][t] = <<>>
  BY <1>1, <1>2
<1>7. \A s \in Server :
        /\ currentTerm[s] = 0 /\ log[s] = <<>> /\ state[s] # Leader /\ ~replicating[s]
        /\ commitIndex[s] = -1
        /\ \A p \in Server : request[s][p] = Nil
  BY DEF Init, NoCalls, Follower, Leader
<1>8. ViewInv(L, V)
  BY <1>3, <1>6, <1>7 DEF ViewInv, Follows
<1>9. MatchInv(L, V) /\ RoundInv(L, V)
  BY <1>7 DEF MatchInv, RoundInv
<1>10. ChoiceInv(L, W, V)
  BY <1>3, <1>6 DEF ChoiceInv
<1>11. CommitInv(L, V)
  <2>1. Appends = {}
    BY <1>7 DEF Init, Appends, InFlight
  <2> QED BY <1>7, <2>1 DEF CommitInv, Certified
<1>12. BallotInv
  BY <1>7 DEF BallotInv
<1> QED BY <1>4, <1>5, <1>8, <1>9, <1>10, <1>11, <1>12 DEF CommitHist, AckInv

\* Every step keeps it.
LEMMA StepCommits ==
  ASSUME TypeInv, ElectionInv, CommitHist, [Next]_vars
  PROVE  CommitHist'
<1>1. PICK L \in Record, W \in Leaders, V \in Views :
        LogInv(L, W) /\ AckInv(L, V) /\ ChoiceInv(L, W, V) /\ CommitInv(L, V)
  BY DEF CommitHist
<1>2. PICK L2 \in Record, W2 \in Leaders : NextRecord(L, W, L2, W2) /\ LogInv(L2, W2)'
  BY <1>1, StepRecord
<1>3. PICK V2 \in Views : NextView(V, V2)
  BY StepType, ViewsExist DEF TypeInv
<1>4. BallotInv /\ BallotInv' /\ ViewInv(L, V) /\ Grown(L, W, L2, W2) /\ ElectionInv'
  BY <1>1, <1>2, BallotStays, StepElection DEF CommitHist, AckInv, NextRecord
<1>5. AckInv(L2, V2)'
  BY <1>1, <1>2, <1>3, <1>4, AcksStay
<1>6. ChoiceInv(L2, W2, V2)'
  BY <1>1, <1>2, <1>3, <1>4, ChoiceStays
<1>7. CommitInv(L2, V2)'
  BY <1>1, <1>2, <1>3, <1>4, CommitsStay
<1> QED BY <1>2, <1>4, <1>5, <1>6, <1>7 DEF CommitHist

\* It holds throughout.
LEMMA CommitInvariance == Spec => []CommitHist
<1>1. Init => CommitHist
  BY InitCommits
<1>2. TypeInv /\ ElectionInv /\ CommitHist /\ [Next]_vars => CommitHist'
  BY StepCommits
<1> QED BY <1>1, <1>2, TypeInvariance, ElectionInvariance, PTL DEF Spec

\* What a leader counts as acknowledged is in the follower's log as long as it is in
\* the leader's term: no late request truncates it, no reply of another round is
\* taken for one of this leadership, and no heartbeat reads past the end of the log
\* (_replicate_to_peer, handle_append_entries).
THEOREM AcknowledgedIsHeld == Spec => []MatchIndexSound
<1>1. TypeInv /\ CommitHist => MatchIndexSound
  BY AcksSound DEF TypeInv, CommitHist
<1> QED BY <1>1, TypeInvariance, CommitInvariance, PTL

\* What a server believes committed a leader of that or a later term has.
LEMMA LeaderHasCommitted ==
  ASSUME TypeOK, NEW L \in Record, NEW W \in Leaders, LogInv(L, W), NEW V \in Views,
         ChoiceInv(L, W, V), CommitInv(L, V),
         NEW n \in Server, NEW s \in Server, state[n] = Leader,
         currentTerm[s] <= currentTerm[n], commitIndex[s] >= 0
  PROVE  Agree(log[s], log[n], commitIndex[s] + 1)
<1> DEFINE c == commitIndex[s] + 1
           u == currentTerm[n]
<1>0. /\ c \in Nat /\ u \in Nat /\ currentTerm[s] \in Nat /\ log[n] = L[u] /\ W[u] # Nil
      /\ L[u] \in Seq(Entry)
  <2>1. /\ commitIndex[s] \in Index /\ u \in Nat /\ currentTerm[s] \in Nat
        /\ log[n] = L[u] /\ W[u] = n
    BY DEF TypeOK, LogInv, LeaderLogs, Winners
  <2>2. c \in Nat
    BY <2>1, IndexIsInt
  <2> QED BY <2>1, <2>2, NilAssumption DEF Record
<1>1. PICK T \in 0..currentTerm[s] : \E k \in 1..Len(L[T]) :
        /\ c <= k /\ L[T][k].term = T /\ Chosen(L, V, T, k) /\ Agree(log[s], L[T], c)
  BY DEF CommitInv, Certified
<1>2. PICK k \in 1..Len(L[T]) :
        /\ c <= k /\ L[T][k].term = T /\ Chosen(L, V, T, k) /\ Agree(log[s], L[T], c)
  BY <1>1
<1> HIDE DEF c, u
<1>3. T \in Nat /\ T <= u
  BY <1>0 DEF u
<1>4. L[T] \in Seq(Entry) /\ k \in Nat
  <2>1. L[T] \in Seq(Entry)
    BY <1>3 DEF Record
  <2> QED BY <2>1
<1>5. CASE T = u
  BY <1>0, <1>2, <1>5 DEF c
<1>6. CASE T < u
  <2>1. LeadersHave(L, W, T, k)
    BY <1>2, <1>3 DEF ChoiceInv, Chosen, Choosable
  <2>2. Agree(L[u], L[T], k)
    BY <1>0, <1>3, <1>6, <2>1 DEF LeadersHave
  <2>3. Agree(L[T], L[u], c)
    BY <1>0, <1>2, <1>4, <2>2, AgreeLess
  <2>4. Agree(log[s], L[u], c)
    BY <1>0, <1>2, <2>3, AgreeTrans
  <2> QED BY <1>0, <2>4 DEF c
<1> QED BY <1>0, <1>3, <1>5, <1>6

\* Leaders have what servers of their term or an earlier one believe committed.
LEMMA LeadersComplete == TypeOK /\ CommitHist => LeaderCompleteness
<1> SUFFICES ASSUME TypeOK, CommitHist, NEW n \in Server, NEW s \in Server,
                    state[n] = Leader, currentTerm[s] <= currentTerm[n]
             PROVE  IsPrefixOf(Committed(s), log[n])
  BY DEF LeaderCompleteness
<1> DEFINE c == commitIndex[s]
<1>0. log[s] \in Seq(Entry) /\ log[n] \in Seq(Entry) /\ c \in Int /\ c >= -1
  <2>1. log[s] \in Seq(Entry) /\ log[n] \in Seq(Entry) /\ c \in Index
    BY DEF TypeOK
  <2> QED BY <2>1, IndexIsInt
<1>1. Agree(log[s], log[n], c + 1)
  <2>1. CASE c >= 0
    BY <2>1, LeaderHasCommitted DEF CommitHist
  <2>2. CASE c = -1
    BY <1>0, <2>2 DEF Agree
  <2> QED BY <1>0, <2>1, <2>2
<1> HIDE DEF c
<1>2. c < Len(log[s]) /\ c + 1 \in Nat /\ c + 1 <= Len(log[s])
  BY <1>0, <1>1 DEF Agree
<1>3. IsPrefixOf(Prefix(log[s], c + 1), log[n])
  BY <1>0, <1>1, <1>2, AgreeIsPrefix
<1> QED BY <1>2, <1>3 DEF Committed, c

\* A leader holds everything that any server of its term or an earlier one knows to
\* be committed, whatever calls were lost, late or overtaken and however often the
\* servers have stepped down (handle_request_vote, _advance_commit_index).
THEOREM LeadersHoldCommitted == Spec => []LeaderCompleteness
<1>1. TypeInv /\ CommitHist => LeaderCompleteness
  BY LeadersComplete DEF TypeInv
<1> QED BY <1>1, TypeInvariance, CommitInvariance, PTL

-----------------------------------------------------------------------------
(* What follows for any two servers, and for any step *)

\* Of two servers the one that knows less committed has the same in its log.
CommitsAgree ==
  \A a, b \in Server :
    commitIndex[a] <= commitIndex[b] => Agree(log[a], log[b], commitIndex[a] + 1)

\* Two certified prefixes are the same, as far as both reach.
LEMMA CertifiedAgree ==
  ASSUME NEW L \in Record, NEW W \in Leaders, LeaderLogs(L, W), NEW V, ChoiceInv(L, W, V),
         NEW l \in Seq(Entry), NEW c \in Nat, NEW t \in Nat, Certified(L, V, c, t, l),
         NEW l2 \in Seq(Entry), NEW c2 \in Nat, NEW t2 \in Nat, Certified(L, V, c2, t2, l2),
         NEW j \in Nat, j <= c + 1, j <= c2 + 1
  PROVE  Agree(l, l2, j)
<1>1. PICK T \in 0..t : \E k \in 1..Len(L[T]) :
        /\ c + 1 <= k /\ L[T][k].term = T /\ Chosen(L, V, T, k) /\ Agree(l, L[T], c + 1)
  BY DEF Certified
<1>2. PICK k \in 1..Len(L[T]) :
        /\ c + 1 <= k /\ L[T][k].term = T /\ Chosen(L, V, T, k) /\ Agree(l, L[T], c + 1)
  BY <1>1
<1>3. PICK T2 \in 0..t2 : \E k2 \in 1..Len(L[T2]) :
        /\ c2 + 1 <= k2 /\ L[T2][k2].term = T2 /\ Chosen(L, V, T2, k2) /\ Agree(l2, L[T2], c2 + 1)
  BY DEF Certified
<1>4. PICK k2 \in 1..Len(L[T2]) :
        /\ c2 + 1 <= k2 /\ L[T2][k2].term = T2 /\ Chosen(L, V, T2, k2) /\ Agree(l2, L[T2], c2 + 1)
  BY <1>3
<1>5. T \in Nat /\ T2 \in Nat
  OBVIOUS
<1>6. L[T] \in Seq(Entry) /\ L[T2] \in Seq(Entry)
  BY <1>5 DEF Record
<1>7. /\ k \in Nat /\ k2 \in Nat /\ j <= k /\ j <= k2 /\ c + 1 \in Nat /\ c2 + 1 \in Nat
      /\ Len(L[T]) \in Nat /\ Len(L[T2]) \in Nat /\ Len(L[T]) >= 1 /\ Len(L[T2]) >= 1
  <2>1. Len(L[T]) \in Nat /\ Len(L[T2]) \in Nat
    BY <1>6
  <2>2. k \in 1..Len(L[T]) /\ k2 \in 1..Len(L[T2]) /\ c + 1 <= k /\ c2 + 1 <= k2
    BY <1>2, <1>4
  <2>3. PICK a, b : a = Len(L[T]) /\ b = Len(L[T2])
    OBVIOUS
  <2>4. a \in Nat /\ b \in Nat /\ k \in 1..a /\ k2 \in 1..b
    BY <2>1, <2>2, <2>3
  <2>5. k \in Nat /\ j <= k /\ c + 1 \in Nat /\ a >= 1
    BY <2>2, <2>4
  <2>6. k2 \in Nat /\ j <= k2 /\ c2 + 1 \in Nat /\ b >= 1
    BY <2>2, <2>4
  <2> QED BY <2>1, <2>3, <2>5, <2>6
<1>8. Agree(l, L[T], j) /\ Agree(L[T2], l2, j)
  <2>1. Len(l) \in Nat /\ Len(l2) \in Nat
    OBVIOUS
  <2>2. Agree(l, L[T], j)
    BY <1>2, <1>7, <2>1, AgreeLess
  <2>3. Agree(L[T2], l2, j)
    BY <1>4, <1>7, <2>1, AgreeLess
  <2> QED BY <2>2, <2>3
<1>9. Agree(L[T], L[T2], j)
  <2>1. CASE T = T2
    BY <1>2, <1>7, <2>1 DEF Agree
  <2>2. CASE T < T2
    <3>1. LeadersHave(L, W, T, k) /\ W[T2] # Nil
      <4>0. Len(<<>>) = 0 /\ Len(L[T2]) >= 1
        BY <1>7
      <4>1. L[T2] # <<>>
        BY <4>0
      <4> QED BY <1>2, <1>5, <4>1 DEF ChoiceInv, Chosen, Choosable, LeaderLogs
    <3>2. Agree(L[T2], L[T], k)
      BY <1>5, <2>2, <3>1 DEF LeadersHave
    <3> QED BY <1>6, <1>7, <3>2, AgreeLess
  <2>3. CASE T2 < T
    <3>1. LeadersHave(L, W, T2, k2) /\ W[T] # Nil
      <4>1. L[T] # <<>>
        BY <1>6, <1>7
      <4> QED BY <1>4, <1>5, <4>1 DEF ChoiceInv, Chosen, Choosable, LeaderLogs
    <3>2. Agree(L[T], L[T2], k2)
      BY <1>5, <2>3, <3>1 DEF LeadersHave
    <3> QED BY <1>6, <1>7, <3>2, AgreeLess
  <2> QED BY <1>5, <2>1, <2>2, <2>3
<1>10. Agree(l, L[T2], j)
  BY <1>8, <1>9, AgreeTrans
<1> QED BY <1>8, <1>10, AgreeTrans

\* So what two servers know committed is the same, as far as both know.
LEMMA ServersAgree == TypeOK /\ CommitHist => CommitsAgree
<1> SUFFICES ASSUME TypeOK, CommitHist, NEW a \in Server, NEW b \in Server,
                    commitIndex[a] <= commitIndex[b]
             PROVE  Agree(log[a], log[b], commitIndex[a] + 1)
  BY DEF CommitsAgree
<1>1. PICK L \in Record, W \in Leaders, V \in Views :
        LogInv(L, W) /\ ChoiceInv(L, W, V) /\ CommitInv(L, V)
  BY DEF CommitHist
<1>2. /\ commitIndex[a] \in Int /\ commitIndex[a] >= -1 /\ commitIndex[b] \in Int
      /\ log[a] \in Seq(Entry) /\ log[b] \in Seq(Entry)
      /\ currentTerm[a] \in Nat /\ currentTerm[b] \in Nat
  <2>1. commitIndex[a] \in Index /\ commitIndex[b] \in Index
    BY DEF TypeOK
  <2> QED BY <2>1, IndexIsInt DEF TypeOK
<1>3. CASE commitIndex[a] = -1
  BY <1>2, <1>3 DEF Agree
<1>4. CASE commitIndex[a] >= 0
  <2> DEFINE c == commitIndex[a]
             d == commitIndex[b]
  <2>1. /\ c \in Nat /\ d \in Nat /\ c + 1 \in Nat /\ c + 1 <= d + 1
        /\ Certified(L, V, c, currentTerm[a], log[a]) /\ Certified(L, V, d, currentTerm[b], log[b])
        /\ LeaderLogs(L, W)
    BY <1>1, <1>2, <1>4 DEF CommitInv, LogInv
  <2> HIDE DEF c, d
  <2>2. Agree(log[a], log[b], c + 1)
    BY <1>1, <1>2, <2>1, CertifiedAgree
  <2> QED BY <2>2 DEF c
<1> QED BY <1>2, <1>3, <1>4

\* They agree throughout.
LEMMA AgreementInvariance == Spec => []CommitsAgree
<1>1. TypeInv /\ CommitHist => CommitsAgree
  BY ServersAgree DEF TypeInv
<1> QED BY <1>1, TypeInvariance, CommitInvariance, PTL

\* No step takes back what a server knows to be committed.
CommitsKept ==
  \A s \in Server : /\ commitIndex[s] <= commitIndex'[s]
                      /\ Agree(log[s], log'[s], commitIndex[s] + 1)

\* It keeps it in its log.
LEMMA StepKeepsCommits ==
  ASSUME TypeInv, CommitHist, [Next]_vars
  PROVE  CommitsKept
<1> SUFFICES ASSUME NEW s \in Server
             PROVE  /\ commitIndex[s] <= commitIndex'[s]
                    /\ Agree(log[s], log'[s], commitIndex[s] + 1)
  BY DEF CommitsKept
<1>1. PICK L \in Record, W \in Leaders, V \in Views :
        LogInv(L, W) /\ ChoiceInv(L, W, V) /\ CommitInv(L, V)
  BY DEF CommitHist
<1>2. PICK c, t : c = commitIndex[s] /\ t = currentTerm[s]
  OBVIOUS
<1>3. /\ c \in Int /\ c >= -1 /\ commitIndex'[s] \in Int /\ t \in Nat
      /\ log[s] \in Seq(Entry) /\ log'[s] \in Seq(Entry)
  <2>1. commitIndex[s] \in Index /\ commitIndex'[s] \in Index
    BY StepType DEF TypeInv, TypeOK
  <2> QED BY <1>2, <2>1, StepType, IndexIsInt DEF TypeInv, TypeOK
<1>4. c <= commitIndex'[s]
  <2>1. ASSUME commitIndex'[s] \in NewCommits(s) PROVE c <= commitIndex'[s]
    <3>1. commitIndex'[s] \in commitIndex[s] + 1 .. LastIndex(log[s])
      BY <2>1 DEF NewCommits
    <3> QED BY <1>2, <1>3, <3>1 DEF LastIndex
  <2>2. ASSUME NEW m \in Appends, m.to = s, AcceptEntries(s, m) PROVE c <= commitIndex'[s]
    <3>1. m.commit \in Index /\ commitIndex'[s] = IF m.commit > c THEN m.commit ELSE c
      BY <1>1, <1>2, <2>2, ToldCommit
    <3> QED BY <1>3, <3>1, IndexIsInt
  <2> QED BY <1>2, <1>3, <2>1, <2>2, StepCommit
<1>5. Agree(log[s], log'[s], c + 1)
  <2>1. CASE c = -1
    BY <1>3, <2>1 DEF Agree
  <2>2. CASE c >= 0
    <3>1. PICK T \in 0..t : \E k \in 1..Len(L[T]) :
            /\ c + 1 <= k /\ L[T][k].term = T /\ Chosen(L, V, T, k) /\ Agree(log[s], L[T], c + 1)
      BY <1>1, <1>2, <2>2 DEF CommitInv, Certified
    <3>2. PICK k \in 1..Len(L[T]) :
            /\ c + 1 <= k /\ L[T][k].term = T /\ Chosen(L, V, T, k) /\ Agree(log[s], L[T], c + 1)
      BY <3>1
    <3>3. T \in Nat /\ T <= currentTerm[s] /\ c + 1 \in Nat
      BY <1>2, <1>3, <2>2
    <3>4. L[T] \in Seq(Entry) /\ k \in Nat /\ k <= Len(L[T])
      <4>1. L[T] \in Seq(Entry)
        BY <3>3 DEF Record
      <4> QED BY <4>1
    <3>5. LeadersHave(L, W, T, k)
      BY <1>1, <3>2, <3>3 DEF ChoiceInv, Chosen, Choosable
    <3>6. Agree(log'[s], L[T], c + 1)
      BY <1>1, <3>2, <3>3, <3>4, <3>5, ChosenStaysIn
    <3>7. Agree(L[T], log'[s], c + 1)
      BY <1>3, <3>3, <3>4, <3>6, AgreeLess
    <3> QED BY <3>2, <3>3, <3>7, AgreeTrans
  <2> QED BY <1>3, <2>1, <2>2
<1> QED BY <1>2, <1>4, <1>5
=============================================================================
