---------------------------- MODULE ReplicatedLog ----------------------------
(***************************************************************************)
(* What the cluster promises about its commands (docs/architecture.md, the *)
(* Raft guarantees; the commit_index and log[] of consensus/raft.py): there*)
(* is one sequence of committed entries, it only grows, and every server   *)
(* knows a prefix of it that only grows.                                   *)
(*                                                                         *)
(* Value is what an entry holds, MaxLen bounds the sequence.               *)
(***************************************************************************)
EXTENDS Naturals, Sequences

CONSTANTS Server, Value, MaxLen

VARIABLES
  chosen,    \* the committed entries
  replica    \* per server, the committed entries it knows of

rlVars == <<chosen, replica>>

RLInit ==
  /\ chosen = <<>>
  /\ replica = [n \in Server |-> <<>>]

\* Non-empty sequences of at most k values.
Batches(k) == UNION {[1..i -> Value] : i \in 1..k}

\* A leader commits more, and with it learns of all that was committed before it
\* (_advance_commit_index takes all entries up to the new index at once).  The first
\* conjunct follows from the second and spares TLC that one at the steps of Learn.
Commit(n) ==
  /\ chosen' # chosen
  /\ \E batch \in Batches(MaxLen - Len(chosen)) : chosen' = chosen \o batch
  /\ replica' = [replica EXCEPT ![n] = chosen']

\* A follower learns of more (leader_commit in handle_append_entries).
Learn(n) ==
  /\ \E k \in Len(replica[n]) + 1 .. Len(chosen) :
       replica' = [replica EXCEPT ![n] = SubSeq(chosen, 1, k)]
  /\ UNCHANGED chosen

\* Either way some server knows more than before: the first conjunct follows from the
\* second, and spares TLC that one at the steps that commit nothing.
RLNext ==
  /\ replica' # replica
  /\ \E n \in Server : Commit(n) \/ Learn(n)

RLSpec == RLInit /\ [][RLNext]_rlVars
=============================================================================
