---------------------------- MODULE MCQueueNode ----------------------------
(* The instances of QueueNode that TLC checks. *)
EXTENDS QueueNode, TLC

MCSymmetry == Permutations(Handler) \cup Permutations(Node)

MCFairSpec == QueueSpec /\ QueueFairness /\ Polling

-----------------------------------------------------------------------------
(* What else the code or its documents say and the code does not do.  No run     *)
(* checks these; the README says with which constants TLC refutes each.          *)

\* A message is redelivered at most MESSAGE_MAX_RETRIES times ("max 3x retry").
RetriesBounded == \A m \in Message : delivered[m] <= MaxRetries + 1

\* An acknowledgement in time is the end of it: the message is never handed out again
\* (acknowledge against _check_and_redeliver, which redelivers what it read as expired
\* whatever has happened since).
SettledStays ==
  [][\A m \in settled : delivered'[m] = delivered[m]]_vars

\* What became of a message is on record: no longer under way, it is completed or
\* failed, whatever stale hash a consume or a loop has written back (the life cycle
\* of the architecture document).
OutcomeRecorded ==
  \A m \in accepted \ Lapsing : UnderWay(m) \/ hash[m].status \in {Completed, Failed}

\* A completed message stays completed (the life cycle PENDING, IN_FLIGHT, COMPLETED).
CompletedStays ==
  [][\A m \in Message : hash[m].status = Completed => hash'[m].status = Completed]_vars
=============================================================================
