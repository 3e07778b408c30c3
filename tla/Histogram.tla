------------------------------ MODULE Histogram ------------------------------
(***************************************************************************)
(* Histogram of src/src/utils/metrics.py: the counts per bucket and the    *)
(* percentile that is read off them.  Values are told apart by the least   *)
(* bucket that takes them; those of class Buckets + 1 are beyond the last. *)
(* MaxObservations bounds the count.                                       *)
(***************************************************************************)
EXTENDS Integers, FiniteSetsExt

CONSTANTS Buckets, MaxObservations

ASSUME HistogramAssumption == Buckets \in Nat \ {0} /\ MaxObservations \in Nat

VARIABLES
  count,     \* _count
  bucket,    \* _bucket_counts
  observed   \* history: how many values of each class were observed

histogramVars == <<count, bucket, observed>>

Class == 1..Buckets + 1

HistogramInit ==
  /\ count = 0
  /\ bucket = [b \in 1..Buckets |-> 0]
  /\ observed = [c \in Class |-> 0]

\* a value at the bound of a bucket is not taken by it
BugTakes(b, c) == c < b
Takes(b, c) == c <= b

Observe(c) ==
  /\ count < MaxObservations
  /\ count' = count + 1
  /\ bucket' = [b \in 1..Buckets |-> bucket[b] + IF Takes(b, c) THEN 1 ELSE 0]
  /\ observed' = [observed EXCEPT ![c] = @ + 1]

\* The running total of f over the first b buckets
SumUpTo(f, b) ==
  LET total[i \in 0..Buckets] == IF i = 0 THEN 0 ELSE total[i - 1] + f[i]
  IN total[b]

\* The first bucket at which a running total reaches 99 % of the count, or the last
FirstAtLeast(f) ==
  LET enough == {b \in 1..Buckets : 100 * SumUpTo(f, b) >= 99 * count}
  IN IF enough = {} THEN Buckets ELSE Min(enough)

\* p99, which adds up counts that are totals already
P99 == IF count = 0 THEN 0 ELSE FirstAtLeast(bucket)

HistogramNext == \E c \in Class : Observe(c)

HistogramSpec == HistogramInit /\ [][HistogramNext]_histogramVars

-----------------------------------------------------------------------------
(* Properties *)

\* The 99th percentile by definition
Percentile99 == FirstAtLeast(observed)

\* What p99 reports is a bucket that something was observed in or below, and never
\* above the 99th percentile; it may be far below (see MCParts).
P99IsALowerBound ==
  count > 0 =>
    /\ P99 <= Percentile99
    /\ P99 < Buckets => SumUpTo(observed, P99) > 0
=============================================================================
