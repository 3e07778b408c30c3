---------------------------- MODULE MCCacheNode ----------------------------
(* The instances of CacheNode that TLC checks. *)
EXTENDS CacheNode, TLC

MCSymmetry == Permutations(Node) \cup Permutations(Key)

MCFairSpec == CacheSpec /\ CacheFairness

-----------------------------------------------------------------------------
(* What else the code or its documents say and the code does not do.  No run     *)
(* checks these; the README says with which constants TLC refutes each.          *)

\* A write that all peers answered, with nothing else under way at its end, leaves
\* the only valid copy behind ("only in this cache").
WriterIsAlone ==
  [][\A n \in Node :
       /\ op[n].kind = "write" /\ op[n].waiting = {} /\ ~op[n].missed
       /\ invals = {} /\ \A m \in Peers(n) : op[m] = Idle
       /\ op'[n] = Idle /\ faults' = faults
       => \A m \in Peers(n) : ~Valid(cache'[m], op[n].key)]_vars
=============================================================================
