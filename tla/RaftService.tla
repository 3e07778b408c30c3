----------------------------- MODULE RaftService -----------------------------
(***************************************************************************)
(* What a RaftNode does for its users on top of Raft: append_command keeps *)
(* a future per log index (_pending) until _advance_commit_index resolves  *)
(* it, and _apply_loop hands committed entries to the state machine, the   *)
(* lock manager's _on_commit.                                              *)
(*                                                                         *)
(* _apply_loop wakes on _apply_event and runs without suspension up to the *)
(* end of the callback (_on_commit only takes an uncontended lock), so one *)
(* wake-up is one step.                                                    *)
(***************************************************************************)
EXTENDS RaftRefinement

VARIABLES
  pending,      \* _pending: per server and index, the entry a client waits for, or Nil
  answers,      \* what clients were told to be committed
  applyEvent,   \* _apply_event is set
  lastApplied,  \* last_applied
  applied       \* the entries handed to apply_callback, with their index

serviceVars == <<pending, answers, applyEvent, lastApplied, applied>>
allVars == <<vars, serviceVars>>

Indices == 0..MaxLog - 1

ServiceInit ==
  /\ Init
  /\ pending = [n \in Server |-> [i \in Indices |-> Nil]]
  /\ answers = {}
  /\ applyEvent = [n \in Server |-> FALSE]
  /\ lastApplied = [n \in Server |-> -1]
  /\ applied = [n \in Server |-> <<>>]

\* append_command registers a future at the index of the new entry, in place of
\* any other that waited there.
Submit(n, c) ==
  /\ ClientAppend(n, c)
  /\ LET i == Len(log[n])
     IN pending' = [pending EXCEPT ![n][i] = At(log'[n], i)]
  /\ UNCHANGED <<answers, applyEvent, lastApplied, applied>>

\* The client's wait_for runs out (append_command); the cancelled future counts
\* as done.
TimeOut(n) ==
  /\ \E i \in Indices :
       /\ pending[n][i] # Nil
       /\ pending' = [pending EXCEPT ![n][i] = Nil]
  /\ UNCHANGED <<vars, answers, applyEvent, lastApplied, applied>>

\* _advance_commit_index resolves the future at the new commit index, that one
\* only.
Commit(n) ==
  LET i == commitIndex'[n]
  IN IF i = commitIndex[n] THEN UNCHANGED <<pending, answers, applyEvent>>
     ELSE /\ applyEvent' = [applyEvent EXCEPT ![n] = TRUE]
          /\ pending' = [pending EXCEPT ![n][i] = Nil]
          /\ answers' = answers \cup
               ({[server |-> n, index |-> i, entry |-> pending[n][i]]} \ 
                  {[server |-> n, index |-> i, entry |-> Nil]})

Replicated(n) ==
  /\ FinishReplication(n)
  /\ Commit(n)
  /\ UNCHANGED <<lastApplied, applied>>

\* every accepted request sets the event
BugNotify(p, m) ==
  /\ applyEvent' = [applyEvent EXCEPT ![p] = @ \/ (m.type = "append" /\ Accepts(p, m))]
  /\ UNCHANGED <<pending, answers, lastApplied, applied>>

\* handle_append_entries sets the event when leader_commit is news to it.
Notify(p, m) ==
  /\ applyEvent' = [applyEvent EXCEPT ![p] =
       @ \/ (m.type = "append" /\ Accepts(p, m) /\ m.commit > commitIndex[p])]
  /\ UNCHANGED <<pending, answers, lastApplied, applied>>

\* One wake-up of _apply_loop: last_applied catches up with commit_index, and the
\* callback, which stands after the loop, gets the entry it ended on.
Apply(n) ==
  /\ applyEvent[n]
  /\ applyEvent' = [applyEvent EXCEPT ![n] = FALSE]
  /\ IF lastApplied[n] < commitIndex[n]
     THEN /\ lastApplied' = [lastApplied EXCEPT ![n] = commitIndex[n]]
          /\ applied' = [applied EXCEPT ![n] =
               Append(@, [index |-> commitIndex[n], entry |-> At(log[n], commitIndex[n])])]
     ELSE /\ UNCHANGED lastApplied
          /\ applied' = [applied EXCEPT ![n] =
               IF @ = <<>> THEN @ ELSE Append(@, @[Len(@)])]
  /\ UNCHANGED <<vars, pending, answers>>

ServiceNext ==
  \/ \E n \in Server :
       \/ StartElection(n) /\ UNCHANGED serviceVars
       \/ FinishElection(n) /\ UNCHANGED serviceVars
       \/ StartReplication(n) /\ UNCHANGED serviceVars
       \/ Replicated(n)
       \/ Apply(n)
       \/ TimeOut(n)
       \/ \E c \in Command : Submit(n, c)
       \/ \E p \in Peers(n) :
            \/ ReceiveAppendReply(n, p) /\ UNCHANGED serviceVars
            \/ Receive(n, p) /\ Notify(p, request[n][p])
  \/ \E m \in late : ReceiveLate(m) /\ Notify(m.to, m)

ServiceSpec == ServiceInit /\ [][ServiceNext]_allVars

-----------------------------------------------------------------------------
(* Properties *)

\* State machines agree: what any server was ever handed for an index is the entry
\* that is committed there, to this day (_apply_loop).
StateMachineSafety ==
  \A n \in Server : \A k \in DOMAIN applied[n] :
    /\ applied[n][k].index < Len(LongestCommitted)
    /\ applied[n][k].entry = At(LongestCommitted, applied[n][k].index)

CF == INSTANCE CommandFeed WITH
        Replica <- Server,
        Value <- [term : 1..MaxTerm, command : Command],
        MaxLength <- MaxLog,
        feed <- LongestCommitted,
        handed <- [n \in Server |-> {applied[n][k].index + 1 : k \in DOMAIN applied[n]}],
        calls <- [n \in Server |-> Len(applied[n])]

\* No state machine is handed an entry twice or out of order, or before it is
\* committed, although the event may be set more often than there is news, and the
\* loop calls back whenever it wakes (_apply_loop, handle_append_entries).
ImplementsCommandFeed == CF!FeedSpec

\* A client that was told "committed" was told so of its own command: it is in the
\* committed log of the server that said so, at the index it was given, and no
\* server ever knows another command to be committed there.  _pending survives a
\* loss of leadership, so this rests on committing entries of the own term only.
AnswersDurable ==
  \A a \in answers :
    /\ a.index <= commitIndex[a.server]
    /\ \A s \in Server :
         a.index <= commitIndex[s] => a.index < Len(log[s]) /\ At(log[s], a.index) = a.entry

\* Every committed entry up to last_applied has been handed to the state machine
\* (docstring of _apply_loop).
AppliesAll ==
  \A n \in Server : \A i \in 0..lastApplied[n] :
    \E k \in DOMAIN applied[n] : applied[n][k].index = i
=============================================================================
