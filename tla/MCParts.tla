------------------------------ MODULE MCParts ------------------------------
(***************************************************************************)
(* Four small components that share nothing, checked side by side: a       *)
(* behaviour is one of one of them, `part', while the others stay as they  *)
(* begin.                                                                  *)
(***************************************************************************)
EXTENDS FindCycles, HashRing, Histogram, AuditLog, TLC

VARIABLE part

partsVars == <<part, searchVars, ringVars, histogramVars, auditVars>>

\* Some one state of the components that are not looked at
SearchRests == graph = [c \in Client |-> {}] /\ path = <<>> /\ visited = {} /\ cycles = {}
RingRests ==
  /\ position \in {[v \in Virtual |-> 0]}
  /\ ring = <<>> /\ owner = [h \in Hashes |-> NoNode] /\ adds = [n \in RingNode |-> 0]

MCInit ==
  /\ part \in {"search", "ring", "histogram", "audit"}
  /\ IF part = "search" THEN SearchInit ELSE SearchRests
  /\ IF part = "ring" THEN RingInit ELSE RingRests
  /\ HistogramInit
  /\ AuditInit

MCNext ==
  \/ /\ part = "search"
     /\ SearchNext
     /\ UNCHANGED <<part, ringVars, histogramVars, auditVars>>
  \/ /\ part = "ring"
     /\ RingNext
     /\ UNCHANGED <<part, searchVars, histogramVars, auditVars>>
  \/ /\ part = "histogram"
     /\ HistogramNext
     /\ UNCHANGED <<part, searchVars, ringVars, auditVars>>
  \/ /\ part = "audit"
     /\ AuditNext
     /\ UNCHANGED <<part, searchVars, ringVars, histogramVars>>

\* _find_cycles runs to its end; the others may stop anywhere.
MCSpec == MCInit /\ [][MCNext]_partsVars /\ WF_partsVars(part = "search" /\ MCNext)

-----------------------------------------------------------------------------
(* What the code or its documents say and the code does not do.  No run checks   *)
(* these; the README says with which constants TLC refutes each.                  *)

\* p99 is the 99th percentile, to the bucket ("Approximate 99th percentile from
\* bucket data").
P99IsThePercentile == count > 0 => P99 = Percentile99

\* p99 is not below the median, unless that is beyond the last bucket.
P99IsAboveTheMedian ==
  count > 0 /\ P99 < Buckets => 2 * SumUpTo(observed, P99) >= count

\* Whatever is on the ring belongs to a node: get_node has an answer for every key.
RingIsMapped == ~Spoilt

\* The log verifies as long as nothing fails, whoever writes to it ("creating an
\* immutable chain", one log file for all nodes of a host by default).
LogVerifies == torn = 0 /\ failed = 0 => Chained(file)

\* The log verifies in spite of a write that failed, once later ones have not.
LogRecovers == torn = 0 => Chained(file)
=============================================================================
