---------------------------- MODULE CommandFeed ----------------------------
(***************************************************************************)
(* What a state machine may expect of consensus (apply_callback of         *)
(* consensus/raft.py): one sequence of committed commands, that only       *)
(* grows, and per replica the places of those it has been handed.  A       *)
(* replica is handed commands in their order, none twice, but not all: the *)
(* apply loop skips what was committed together.                           *)
(*                                                                         *)
(* RaftService implements it; LockManager is built on it.                  *)
(***************************************************************************)
EXTENDS Naturals, Sequences

CONSTANTS Replica, Value, MaxLength

VARIABLES
  feed,    \* the committed commands
  handed,  \* the places a replica was handed
  calls    \* how often it was called

feedVars == <<feed, handed, calls>>

FeedInit ==
  /\ feed = <<>>
  /\ handed = [r \in Replica |-> {}]
  /\ calls = [r \in Replica |-> 0]

Extend(batch) ==
  /\ Len(feed) + Len(batch) <= MaxLength
  /\ feed' = feed \o batch
  /\ UNCHANGED <<handed, calls>>

Hand(r, i) ==
  /\ i \in 1..Len(feed)
  /\ \A j \in handed[r] : j < i
  /\ handed' = [handed EXCEPT ![r] = @ \cup {i}]
  /\ calls' = [calls EXCEPT ![r] = @ + 1]
  /\ UNCHANGED feed

FeedNext ==
  \/ \E k \in 1..MaxLength : \E batch \in [1..k -> Value] : Extend(batch)
  \/ \E r \in Replica : \E i \in 1..Len(feed) : Hand(r, i)

FeedSpec == FeedInit /\ [][FeedNext]_feedVars
=============================================================================
