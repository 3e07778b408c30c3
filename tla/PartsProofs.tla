---------------------------- MODULE PartsProofs ----------------------------
(***************************************************************************)
(* Proofs about small components that share nothing: the audit log, for    *)
(* any processes, requests and number of faults; the hash ring, for any    *)
(* nodes, number of virtual nodes and hashes; and the histogram, for any   *)
(* number of buckets and observations.                                     *)
(***************************************************************************)
EXTENDS AuditLog, HashRing, Histogram, SequenceTheorems, FiniteSetTheorems,
        WellFoundedInduction, TLAPS

(* Numbers, loops and sequences *)

\* A set of natural numbers has a least element.
LEMMA Least ==
  ASSUME NEW S \in SUBSET Nat, S # {}
  PROVE  \E x \in S : \A y \in S : x <= y
<1>1. IsWellFoundedOn({ss \in Nat \X Nat : ss[1] < ss[2]}, Nat)
  BY NatLessThanWellFounded, Zenon DEF OpToRel
<1>2. PICK x \in S : \A y \in S : ~ (<<y, x>> \in {ss \in Nat \X Nat : ss[1] < ss[2]})
  BY <1>1, WFMin
<1>3. ASSUME NEW y \in S PROVE x <= y
  <2>1. <<y, x>> \notin {ss \in Nat \X Nat : ss[1] < ss[2]}
    BY <1>2
  <2>2. ~ (y < x)
    BY <2>1
  <2> QED
    BY <2>2
<1> QED
  BY <1>3

\* A loop of n turns: what holds at first and is kept by every turn holds throughout.
LEMMA Turns ==
  ASSUME NEW n \in Nat, NEW T, 0 \in T, \A i \in 1..n : i - 1 \in T => i \in T
  PROVE  \A i \in 0..n : i \in T
<1> DEFINE B == {i \in 0..n : i \notin T}
<1>1. SUFFICES ASSUME B # {} PROVE FALSE
  OBVIOUS
<1>2. PICK i \in B : \A j \in B : i <= j
  <2>1. B \in SUBSET Nat
    OBVIOUS
  <2> HIDE DEF B
  <2> QED
    BY <1>1, <2>1, Least
<1>3. i \in 1..n /\ i - 1 \in 0..n /\ i - 1 \notin B
  BY <1>2
<1> QED
  BY <1>2, <1>3

\* The values after each turn of a loop; step is what a turn makes of a value.
IsLoop(f, n, S, first, step) ==
  f \in [0..n -> S] /\ f[0] = first /\ \A i \in 1..n : f[i] = step[<<f[i - 1], i>>]

\* There are such values.
LEMMA LoopExists ==
  ASSUME NEW n \in Nat, NEW S, NEW first \in S, NEW step \in [S \X Nat -> S]
  PROVE  \E f : IsLoop(f, n, S, first, step)
<1> DEFINE Does(f, k) == f[0] = first /\ \A i \in 1..k : f[i] = step[<<f[i - 1], i>>]
           T == {k \in Nat : \E f \in [0..k -> S] : Does(f, k)}
<1>1. 0 \in T
  <2>1. [i \in 0..0 |-> first] \in [0..0 -> S] /\ Does([i \in 0..0 |-> first], 0)
    OBVIOUS
  <2> QED
    BY <2>1
<1>2. ASSUME NEW k \in 1..n, k - 1 \in T PROVE k \in T
  <2>1. PICK f \in [0..k - 1 -> S] : Does(f, k - 1)
    BY <1>2
  <2> DEFINE g == [i \in 0..k |-> IF i < k THEN f[i] ELSE step[<<f[k - 1], k>>]]
  <2>2. f[k - 1] \in S /\ step[<<f[k - 1], k>>] \in S
    OBVIOUS
  <2>3. g \in [0..k -> S]
    <3>1. \A i \in 0..k : (IF i < k THEN f[i] ELSE step[<<f[k - 1], k>>]) \in S
      BY <2>2
    <3> QED
      BY <3>1
  <2>4. g[0] = first
    BY <2>1
  <2>5. ASSUME NEW i \in 1..k PROVE g[i] = step[<<g[i - 1], i>>]
    <3>1. g[i - 1] = f[i - 1]
      OBVIOUS
    <3>2. CASE i < k
      <4>1. i \in 1..k - 1 /\ g[i] = f[i]
        BY <3>2
      <4> QED
        BY <2>1, <3>1, <4>1
    <3>3. CASE i = k
      <4>1. g[i] = step[<<f[k - 1], k>>]
        BY <3>3
      <4> QED
        BY <3>1, <3>3, <4>1
    <3> QED
      BY <3>2, <3>3
  <2> HIDE DEF g
  <2> QED
    BY <2>3, <2>4, <2>5
<1> HIDE DEF T
<1>3. n \in T
  BY <1>1, <1>2, Turns
<1> QED
  BY <1>3 DEF T, IsLoop

\* The first n elements of a sequence
LEMMA Prefix ==
  ASSUME NEW S, NEW s \in Seq(S), NEW n \in Nat, n <= Len(s)
  PROVE  /\ SubSeq(s, 1, n) \in Seq(S)
         /\ Len(SubSeq(s, 1, n)) = n
         /\ \A i \in 1..n : SubSeq(s, 1, n)[i] = s[i]
<1>1. Len(s) \in Nat /\ \A i \in 1..n : s[i] \in S
  BY LenProperties, ElementOfSeq
<1>2. /\ SubSeq(s, 1, n) \in Seq(S)
      /\ Len(SubSeq(s, 1, n)) = IF 1 <= n THEN n - 1 + 1 ELSE 0
      /\ \A i \in 1..n - 1 + 1 : SubSeq(s, 1, n)[i] = s[1 + i - 1]
  BY <1>1, SubSeqProperties
<1>3. Len(SubSeq(s, 1, n)) = n
  BY <1>2
<1>4. ASSUME NEW i \in 1..n PROVE SubSeq(s, 1, n)[i] = s[i]
  <2>1. i \in 1..n - 1 + 1 /\ 1 + i - 1 = i
    OBVIOUS
  <2> QED
    BY <1>2, <2>1
<1> QED
  BY <1>2, <1>3, <1>4

\* t is s with e put in at p.
IsInsertion(t, s, p, e) ==
  /\ Len(t) = Len(s) + 1
  /\ \A i \in 1..Len(s) + 1 : t[i] = IF i < p THEN s[i] ELSE IF i = p THEN e ELSE s[i - 1]

\* A list with one element more
LEMMA InsertParts ==
  ASSUME NEW S, NEW s \in Seq(S), NEW p \in 1..Len(s) + 1, NEW e \in S
  PROVE  InsertAt(s, p, e) \in Seq(S) /\ IsInsertion(InsertAt(s, p, e), s, p, e)
<1>1. Len(s) \in Nat /\ \A i \in 1..Len(s) : s[i] \in S
  BY ElementOfSeq
<1>2. PICK a, b, c : a = SubSeq(s, 1, p - 1) /\ b = SubSeq(s, p, Len(s)) /\ c = a \o <<e>>
  OBVIOUS
<1>3. a \in Seq(S) /\ Len(a) = p - 1 /\ \A i \in 1..p - 1 : a[i] = s[i]
  <2>1. p - 1 \in Nat /\ p - 1 <= Len(s)
    BY <1>1
  <2> QED
    BY <1>2, <2>1, Prefix
<1>4. b \in Seq(S) /\ Len(b) = Len(s) + 1 - p /\ \A i \in 1..Len(s) + 1 - p : b[i] = s[p + i - 1]
  <2>1. /\ b \in Seq(S)
        /\ Len(b) = IF p <= Len(s) THEN Len(s) - p + 1 ELSE 0
        /\ \A i \in 1..Len(s) - p + 1 : b[i] = s[p + i - 1]
    BY <1>1, <1>2, SubSeqProperties
  <2>2. Len(b) = Len(s) + 1 - p /\ Len(s) + 1 - p = Len(s) - p + 1
    BY <1>1, <2>1
  <2> QED
    BY <2>1, <2>2
<1>5. c \in Seq(S) /\ Len(c) = p /\ c[p] = e /\ \A i \in 1..p - 1 : c[i] = s[i]
  <2>1. c = Append(a, e)
    BY <1>2, <1>3, AppendIsConcat
  <2> QED
    BY <1>1, <1>3, <2>1, AppendProperties
<1>6. /\ c \o b \in Seq(S)
      /\ Len(c \o b) = Len(c) + Len(b)
      /\ \A i \in 1..Len(c) + Len(b) : (c \o b)[i] = IF i <= Len(c) THEN c[i] ELSE b[i - Len(c)]
  BY <1>4, <1>5, ConcatProperties
<1>7. InsertAt(s, p, e) = c \o b
  BY <1>2 DEF InsertAt
<1>8. Len(c) + Len(b) = Len(s) + 1
  BY <1>1, <1>4, <1>5
<1>9. ASSUME NEW i \in 1..Len(s) + 1
      PROVE  (c \o b)[i] = IF i < p THEN s[i] ELSE IF i = p THEN e ELSE s[i - 1]
  <2>1. CASE i <= p
    BY <1>1, <1>5, <1>6, <1>8, <2>1
  <2>2. CASE ~(i <= p)
    <3>1. i - p \in 1..Len(s) + 1 - p /\ p + (i - p) - 1 = i - 1
      BY <1>1, <2>2
    <3>2. b[i - p] = s[i - 1]
      BY <1>4, <3>1
    <3> QED
      BY <1>1, <1>5, <1>6, <1>8, <2>2, <3>2
  <2> QED
    BY <1>1, <2>1, <2>2
<1> QED
  BY <1>6, <1>7, <1>8, <1>9 DEF IsInsertion

\* A list with one element less
LEMMA RemoveParts ==
  ASSUME NEW S, NEW s \in Seq(S), NEW p \in 1..Len(s)
  PROVE  /\ RemoveAt(s, p) \in Seq(S)
         /\ Len(RemoveAt(s, p)) = Len(s) - 1
         /\ \A i \in 1..Len(s) - 1 : RemoveAt(s, p)[i] = IF i < p THEN s[i] ELSE s[i + 1]
<1>1. Len(s) \in Nat /\ \A i \in 1..Len(s) : s[i] \in S
  BY ElementOfSeq
<1>2. PICK a, b : a = SubSeq(s, 1, p - 1) /\ b = SubSeq(s, p + 1, Len(s))
  OBVIOUS
<1>3. a \in Seq(S) /\ Len(a) = p - 1 /\ \A i \in 1..p - 1 : a[i] = s[i]
  <2>1. p - 1 \in Nat /\ p - 1 <= Len(s)
    BY <1>1
  <2> QED
    BY <1>2, <2>1, Prefix
<1>4. b \in Seq(S) /\ Len(b) = Len(s) - p /\ \A i \in 1..Len(s) - p : b[i] = s[p + i]
  <2>1. /\ b \in Seq(S)
        /\ Len(b) = IF p + 1 <= Len(s) THEN Len(s) - (p + 1) + 1 ELSE 0
        /\ \A i \in 1..Len(s) - (p + 1) + 1 : b[i] = s[(p + 1) + i - 1]
    BY <1>1, <1>2, SubSeqProperties
  <2>2. Len(b) = Len(s) - p
    BY <1>1, <2>1
  <2>3. ASSUME NEW i \in 1..Len(s) - p PROVE b[i] = s[p + i]
    <3>1. i \in 1..Len(s) - (p + 1) + 1 /\ (p + 1) + i - 1 = p + i
      BY <1>1
    <3> QED
      BY <2>1, <3>1
  <2> QED
    BY <2>1, <2>2, <2>3
<1>5. /\ a \o b \in Seq(S)
      /\ Len(a \o b) = Len(a) + Len(b)
      /\ \A i \in 1..Len(a) + Len(b) : (a \o b)[i] = IF i <= Len(a) THEN a[i] ELSE b[i - Len(a)]
  BY <1>3, <1>4, ConcatProperties
<1>6. RemoveAt(s, p) = a \o b
  BY <1>2 DEF RemoveAt
<1>7. Len(a) + Len(b) = Len(s) - 1
  BY <1>1, <1>3, <1>4
<1>8. ASSUME NEW i \in 1..Len(s) - 1 PROVE (a \o b)[i] = IF i < p THEN s[i] ELSE s[i + 1]
  <2>1. CASE i < p
    BY <1>1, <1>3, <1>5, <1>7, <2>1
  <2>2. CASE ~(i < p)
    <3>1. i - (p - 1) \in 1..Len(s) - p /\ p + (i - (p - 1)) = i + 1
      BY <1>1, <2>2
    <3>2. b[i - (p - 1)] = s[i + 1]
      BY <1>4, <3>1
    <3> QED
      BY <1>1, <1>3, <1>5, <1>7, <2>2, <3>2
  <2> QED
    BY <1>1, <2>1, <2>2
<1> QED
  BY <1>5, <1>6, <1>7, <1>8

-----------------------------------------------------------------------------
(***************************************************************************)
(* The audit log.  What an answered request can lose is paid for in        *)
(* advance: a line cut short counts as one entry lost before the next one  *)
(* is written behind it (Accounted).                                       *)
(***************************************************************************)

Line == Entry \cup {Rubble}

Missing == answered \ Recorded

\* what is lost or is to be lost was torn, and a line cut short is nobody's answer
Accounted ==
  /\ Cardinality(Missing) + (IF cut THEN 1 ELSE 0) <= torn
  /\ cut => file[Len(file)].hash \notin answered

\* handlers run in processes that run
Placed == \A q \in Request : request[q] # Idle => request[q] \in open

Newest == IF file = <<>> THEN Genesis ELSE file[Len(file)].hash

\* the file of the only process, before any write has failed
Intact ==
  /\ Chained(file)
  /\ \A i \in 1..Len(file) : file[i].seq = i
  /\ \A w \in open : seq[w] = Len(file) /\ lastHash[w] = Newest

Single == torn = 0 /\ failed = 0 /\ Cardinality(Writer) = 1

\* the hash of an entry is told from those of all other lines
Named ==
  /\ \A i \in 1..Len(file) : file[i].hash <= made
  /\ \A i, j \in 1..Len(file) : file[i].hash # 0 /\ file[i].hash = file[j].hash => i = j

AuditInv == AuditTypeOK /\ Placed /\ Accounted /\ Named /\ (Single => Intact)

-----------------------------------------------------------------------------
(* Writing to the file *)

\* What is written becomes the last line, alone or glued to a line cut short; the
\* lines before stay.
LEMMA Writing ==
  ASSUME AuditTypeOK, NEW line \in Line
  PROVE  /\ Written(line) \in Seq(Line) \ {<<>>}
         /\ ~cut => /\ Len(Written(line)) = Len(file) + 1
                    /\ Written(line)[Len(file) + 1] = line
                    /\ \A i \in 1..Len(file) : Written(line)[i] = file[i]
         /\ cut => /\ Len(Written(line)) = Len(file)
                   /\ Written(line)[Len(file)] = Rubble
                   /\ \A i \in 1..Len(file) - 1 : Written(line)[i] = file[i]
<1>1. file \in Seq(Line) /\ Rubble \in Line
  BY DEF AuditTypeOK, Line
<1>2. CASE ~cut
  BY <1>1, <1>2, AppendProperties DEF Written
<1>3. CASE cut
  <2>1. Len(file) \in Nat \ {0}
    BY <1>1, <1>3, EmptySeq DEF AuditTypeOK
  <2>2. PICK kept \in Seq(Line) :
          /\ Written(line) = Append(kept, Rubble)
          /\ Len(kept) = Len(file) - 1
          /\ \A i \in 1..Len(file) - 1 : kept[i] = file[i]
    <3>1. /\ SubSeq(file, 1, Len(file) - 1) \in Seq(Line)
          /\ Len(SubSeq(file, 1, Len(file) - 1)) = Len(file) - 1
          /\ \A i \in 1..Len(file) - 1 : SubSeq(file, 1, Len(file) - 1)[i] = file[i]
      <4>1. Len(file) - 1 \in Nat /\ Len(file) - 1 <= Len(file)
        BY <2>1
      <4> QED
        BY <1>1, <4>1, Prefix
    <3>2. Written(line) = SubSeq(file, 1, Len(file) - 1) \o <<Rubble>>
      BY <1>3 DEF Written, Front
    <3> QED
      BY <1>1, <3>1, <3>2, AppendIsConcat
  <2> QED
    BY <1>1, <1>3, <2>1, <2>2, AppendProperties
<1> QED
  BY <1>2, <1>3

\* The answers are finitely many.
LEMMA AnswersFinite ==
  ASSUME AuditTypeOK
  PROVE  \A S \in SUBSET answered :
           IsFiniteSet(S) /\ Cardinality(S) \in Nat /\ \A T \in SUBSET S : Cardinality(T) <= Cardinality(S)
<1>1. IsFiniteSet(1..made)
  BY FS_Interval DEF AuditTypeOK
<1>2. ASSUME NEW S \in SUBSET answered PROVE IsFiniteSet(S)
  BY <1>1, <1>2, FS_Subset DEF AuditTypeOK
<1>3. ASSUME NEW S \in SUBSET answered, NEW T \in SUBSET S PROVE Cardinality(T) <= Cardinality(S)
  BY <1>2, FS_Subset
<1> QED
  BY <1>2, <1>3, FS_CardinalityType

\* What is on record stays on record when something is written behind it.
LEMMA RecordsStay ==
  ASSUME AuditTypeOK, Accounted, NEW line \in Line, file' = Written(line)
  PROVE  /\ answered \cap Recorded \subseteq Recorded'
         /\ ~cut => line.hash \in Recorded'
         /\ file' \in Seq(Line) \ {<<>>}
         /\ file'[Len(file')].hash \in {line.hash, 0}
         /\ file' = file => cut
<1>1. /\ file \in Seq(Line)
      /\ Len(file) \in Nat
      /\ Len(file') \in Nat \ {0}
      /\ file' \in Seq(Line) \ {<<>>}
  <2>1. file' \in Seq(Line) \ {<<>>}
    BY Writing
  <2> QED
    BY <2>1, EmptySeq, LenProperties DEF AuditTypeOK, Line
<1>2. Rubble.hash = 0
  BY DEF Rubble
<1>3. CASE ~cut
  <2>1. /\ Len(file') = Len(file) + 1
        /\ file'[Len(file) + 1] = line
        /\ \A i \in 1..Len(file) : file'[i] = file[i]
    BY <1>3, Writing
  <2> QED
    BY <1>1, <1>3, <2>1 DEF Recorded
<1>4. CASE cut
  <2>1. /\ Len(file') = Len(file)
        /\ file'[Len(file)] = Rubble
        /\ \A i \in 1..Len(file) - 1 : file'[i] = file[i]
    BY <1>4, Writing
  <2>2. file[Len(file)].hash \notin answered
    BY <1>4 DEF Accounted
  <2>3. ASSUME NEW h \in answered \cap Recorded PROVE h \in Recorded'
    <3>1. PICK i \in 1..Len(file) : h = file[i].hash
      BY DEF Recorded
    <3>2. i \in 1..Len(file) - 1
      BY <1>1, <2>2, <3>1
    <3> QED
      BY <1>1, <2>1, <3>1, <3>2 DEF Recorded
  <2> QED
    BY <1>1, <1>2, <1>4, <2>1, <2>3
<1> QED
  BY <1>3, <1>4

\* A write that goes through loses one entry if the line before it was cut short, its
\* own, and then there is no cut any more.
LEMMA WriteAccounted ==
  ASSUME AuditTypeOK, Accounted, NEW line \in Line,
         file' = Written(line), cut' = FALSE, torn' = torn,
         answered' = answered \cup {line.hash}
  PROVE  Accounted'
<1>1. Missing' \subseteq Missing \cup {line.hash} /\ (~cut => Missing' \subseteq Missing)
  BY RecordsStay DEF Missing
<1>2. /\ IsFiniteSet(Missing)
      /\ Cardinality(Missing) \in Nat
  BY AnswersFinite DEF Missing
<1>3. CASE ~cut
  <2>1. Missing \in SUBSET answered /\ Missing' \in SUBSET Missing /\ Missing' \in SUBSET answered
    BY <1>1, <1>3 DEF Missing
  <2>2. Cardinality(Missing') \in Nat /\ Cardinality(Missing') <= Cardinality(Missing)
    BY <2>1, AnswersFinite
  <2> QED
    BY <1>2, <1>3, <2>2 DEF Accounted, AuditTypeOK
<1>4. CASE cut
  <2>1. /\ IsFiniteSet(Missing \cup {line.hash})
        /\ Cardinality(Missing \cup {line.hash}) \in {Cardinality(Missing), Cardinality(Missing) + 1}
    BY <1>2, FS_AddElement
  <2>2. Cardinality(Missing') <= Cardinality(Missing \cup {line.hash}) /\ IsFiniteSet(Missing')
    BY <1>1, <2>1, FS_Subset
  <2>3. Cardinality(Missing') \in Nat
    BY <2>2, FS_CardinalityType
  <2> QED
    BY <1>2, <1>4, <2>1, <2>2, <2>3 DEF Accounted, AuditTypeOK
<1> QED
  BY <1>3, <1>4

\* A write that fails pays for the entry that will be lost to its line.
LEMMA TornAccounted ==
  ASSUME AuditTypeOK, Accounted, NEW line \in Line, line.hash \notin answered,
         file' = Written(line), cut' = TRUE, UNCHANGED answered,
         torn' \in {torn, torn + 1}, file' # file => torn' = torn + 1
  PROVE  Accounted'
<1>1. Missing' \subseteq Missing
  BY RecordsStay DEF Missing
<1>2. /\ Cardinality(Missing) \in Nat
      /\ Cardinality(Missing') \in Nat
      /\ Cardinality(Missing') <= Cardinality(Missing)
  <2>1. Missing' \in SUBSET answered
    BY <1>1 DEF Missing
  <2> QED
    BY <1>1, <2>1, AnswersFinite DEF Missing
<1>3. file'[Len(file')].hash \notin answered'
  <2>1. 0 \notin answered
    BY DEF AuditTypeOK
  <2> QED
    BY <2>1, RecordsStay
<1>4. ~cut => torn' = torn + 1
  BY RecordsStay
<1> QED
  BY <1>2, <1>3, <1>4 DEF Accounted, AuditTypeOK

\* The hash of a line that is written is new.
LEMMA WriteNamed ==
  ASSUME AuditTypeOK, Named, NEW line \in Line, line.hash \in {0, made + 1},
         file' = Written(line), made' = made + 1
  PROVE  Named'
<1>1. /\ file \in Seq(Line)
      /\ Len(file) \in Nat
      /\ made \in Nat
      /\ Rubble.hash = 0
  BY LenProperties DEF AuditTypeOK, Line, Rubble
<1>2. \A i \in 1..Len(file) : file[i] \in Line /\ file[i].hash \in Nat /\ file[i].hash <= made
  <2>1. \A l \in Line : l.hash \in Nat
    BY DEF Line, Entry, Rubble
  <2> QED
    BY <1>1, <2>1, ElementOfSeq DEF Named
<1>3. PICK last \in 1..Len(file) + 1 :
        /\ Len(file') = last
        /\ file'[last].hash \in {0, made + 1}
        /\ \A i \in 1..last - 1 : i \in 1..Len(file) /\ file'[i] = file[i]
  <2>1. CASE ~cut
    <3>1. /\ Len(file') = Len(file) + 1
          /\ file'[Len(file) + 1] = line
          /\ \A i \in 1..Len(file) : file'[i] = file[i]
      BY <2>1, Writing
    <3>2. /\ Len(file) + 1 \in 1..Len(file) + 1
          /\ \A i \in 1..(Len(file) + 1) - 1 : i \in 1..Len(file)
      BY <1>1
    <3> QED
      BY <3>1, <3>2
  <2>2. CASE cut
    <3>1. Len(file) # 0
      BY <1>1, <2>2, EmptySeq DEF AuditTypeOK
    <3>2. /\ Len(file') = Len(file)
          /\ file'[Len(file)] = Rubble
          /\ \A i \in 1..Len(file) - 1 : file'[i] = file[i]
      BY <2>2, Writing
    <3>3. /\ Len(file) \in 1..Len(file) + 1
          /\ \A i \in 1..Len(file) - 1 : i \in 1..Len(file)
      BY <1>1, <3>1
    <3> QED
      BY <1>1, <3>2, <3>3
  <2> QED
    BY <2>1, <2>2
<1>4. \A i \in 1..Len(file') : i = last \/ (i \in 1..last - 1 /\ i \in 1..Len(file) /\ file'[i] = file[i])
  BY <1>1, <1>3
<1>5. ASSUME NEW i \in 1..Len(file')
      PROVE  file'[i].hash \in Nat /\ file'[i].hash <= made + 1
  BY <1>1, <1>2, <1>3, <1>4
<1>6. ASSUME NEW i \in 1..Len(file'), NEW j \in 1..Len(file'),
             file'[i].hash # 0, file'[i].hash = file'[j].hash
      PROVE  i = j
  <2>1. CASE i = last \/ j = last
    <3>1. file'[i].hash = made + 1 /\ file'[j].hash = made + 1
      BY <1>3, <1>6, <2>1
    <3>2. ASSUME NEW k \in 1..Len(file'), file'[k].hash = made + 1 PROVE k = last
      <4>1. SUFFICES ASSUME k # last PROVE FALSE
        OBVIOUS
      <4>2. k \in 1..Len(file) /\ file'[k].hash = file[k].hash
        BY <1>4, <4>1
      <4> QED
        BY <1>1, <1>2, <3>2, <4>2
    <3> QED
      BY <3>1, <3>2
  <2>2. CASE i # last /\ j # last
    BY <1>4, <1>6, <2>2 DEF Named
  <2> QED
    BY <2>1, <2>2
<1> QED
  BY <1>5, <1>6 DEF Named

-----------------------------------------------------------------------------
(* One lemma for each kind of step *)

\* The entry a process makes next is an entry, and nobody has had it for an answer.
LEMMA NextEntry ==
  ASSUME AuditTypeOK, NEW w \in Writer
  PROVE  /\ EntryOf(w) \in Entry
         /\ EntryOf(w).hash = made + 1
         /\ EntryOf(w).prev = lastHash[w]
         /\ EntryOf(w).seq = seq[w] + 1
         /\ made + 1 \notin answered
BY DEF AuditTypeOK, EntryOf, Entry

\* A process that starts finds in the last line where the chain stands.
LEMMA OpenInv ==
  ASSUME AuditInv, NEW w \in Writer, Open(w)
  PROVE  AuditInv'
<1>1. /\ UNCHANGED <<file, cut, request, made, answered, torn, failed, crashes>>
      /\ open' = open \cup {w}
      /\ seq' = [seq EXCEPT ![w] = IF file = <<>> THEN 0 ELSE file[Len(file)].seq]
      /\ lastHash' = [lastHash EXCEPT ![w] = Newest]
  BY DEF Open, Restored, fileVars, history, Last, Newest, Genesis
<1>2. /\ file \in Seq(Line)
      /\ Len(file) \in Nat
      /\ file # <<>> => Len(file) \in 1..Len(file) /\ file[Len(file)] \in Line
  BY EmptySeq, LenProperties, ElementOfSeq DEF AuditInv, AuditTypeOK, Line
<1>3. \A line \in Line : line.seq \in Nat /\ line.hash \in Nat
  BY DEF Line, Entry, Rubble
<1>4. AuditTypeOK'
  BY <1>1, <1>2, <1>3 DEF AuditInv, AuditTypeOK, Newest, Genesis
<1>5. Placed'
  BY <1>1 DEF AuditInv, Placed
<1>6. Accounted' /\ Named'
  BY <1>1 DEF AuditInv, Accounted, Missing, Recorded, Named
<1>7. ASSUME Single PROVE Intact'
  <2>1. Intact
    BY <1>1, <1>7 DEF AuditInv
  <2>2. (IF file = <<>> THEN 0 ELSE file[Len(file)].seq) = Len(file)
    BY <1>2, <2>1, EmptySeq DEF Intact
  <2>3. Chained(file)' /\ Newest' = Newest
    BY <1>1, <2>1 DEF Intact, Chained, Newest
  <2>4. \A v \in open' : seq'[v] = Len(file) /\ lastHash'[v] = Newest
    BY <1>1, <2>1, <2>2 DEF Intact, AuditInv, AuditTypeOK
  <2> QED
    BY <1>1, <2>1, <2>3, <2>4 DEF Intact
<1> QED
  BY <1>1, <1>4, <1>5, <1>6, <1>7 DEF AuditInv, Single

\* An operation by itself leaves the log alone.
LEMMA OperateInv ==
  ASSUME AuditInv, NEW w \in Writer, NEW q \in Request, Operate(w, q)
  PROVE  AuditInv'
<1>1. /\ UNCHANGED <<file, cut, open, seq, lastHash, made, answered, torn, failed, crashes>>
      /\ w \in open
      /\ request' = [request EXCEPT ![q] = w]
  BY DEF Operate, fileVars, memory, history
<1>2. AuditTypeOK' /\ Placed'
  BY <1>1 DEF AuditInv, AuditTypeOK, Placed
<1>3. Accounted' /\ Named' /\ (Single' => Intact')
  BY <1>1 DEF AuditInv, Accounted, Missing, Recorded, Named, Single, Intact, Chained, Newest
<1> QED
  BY <1>2, <1>3 DEF AuditInv

\* A whole entry behind a whole entry keeps the chain.
LEMMA ChainGrows ==
  ASSUME AuditTypeOK, Intact, ~cut, NEW w \in open, open = {w},
         file' = Written(EntryOf(w)), NewEntry(w)
  PROVE  Intact'
<1>1. /\ file \in Seq(Line)
      /\ Len(file) \in Nat
      /\ w \in Writer
  BY LenProperties DEF AuditTypeOK, Line
<1>2. EntryOf(w) \in Line /\ EntryOf(w) \in Entry
  BY <1>1, NextEntry DEF Line
<1>3. /\ file' \in Seq(Line) \ {<<>>}
      /\ Len(file') = Len(file) + 1
      /\ file'[Len(file) + 1] = EntryOf(w)
      /\ \A i \in 1..Len(file) : file'[i] = file[i]
  BY <1>2, Writing
<1>4. /\ EntryOf(w).seq = Len(file) + 1
      /\ EntryOf(w).prev = Newest
      /\ EntryOf(w).hash = made'
      /\ EntryOf(w) # Rubble
  <2>1. EntryOf(w).seq # Rubble.seq
    BY <1>2 DEF Entry, Rubble
  <2> QED
    BY <1>1, <2>1, NextEntry DEF Intact, NewEntry
<1>5. /\ open' = {w}
      /\ seq'[w] = Len(file')
      /\ lastHash'[w] = Newest'
  BY <1>1, <1>3, <1>4 DEF NewEntry, Newest, Intact, AuditTypeOK
<1>6. \A i \in 1..Len(file') : file'[i].seq = i
  BY <1>1, <1>3, <1>4 DEF Intact
<1>7. Chained(file)'
  <2>1. ASSUME NEW i \in 1..Len(file')
        PROVE  /\ file'[i] # Rubble
               /\ file'[i].prev = IF i = 1 THEN Genesis ELSE file'[i - 1].hash
    <3>1. CASE i \in 1..Len(file)
      <4>1. i # 1 => i - 1 \in 1..Len(file)
        BY <3>1, <1>1
      <4> QED
        BY <1>3, <3>1, <4>1 DEF Intact, Chained
    <3>2. CASE i = Len(file) + 1
      <4>1. file = <<>> <=> i = 1
        BY <1>1, <3>2, EmptySeq
      <4>2. i # 1 => i - 1 \in 1..Len(file) /\ i - 1 = Len(file)
        BY <1>1, <3>2
      <4> QED
        BY <1>3, <1>4, <3>2, <4>1, <4>2 DEF Newest
    <3> QED
      BY <1>1, <1>3, <3>1, <3>2
  <2> QED
    BY <2>1 DEF Chained
<1> QED
  BY <1>5, <1>6, <1>7 DEF Intact

\* The entry of a request that is answered is on record, or the one the torn line
\* before it has paid for.
LEMMA RecordInv ==
  ASSUME AuditInv, NEW w \in Writer, NEW q \in Request, Record(w, q)
  PROVE  AuditInv'
<1>1. /\ request[q] = w
      /\ NewEntry(w)
      /\ file' = Written(EntryOf(w))
      /\ cut' = FALSE
      /\ made' = made + 1
      /\ answered' = answered \cup {EntryOf(w).hash}
      /\ request' = [request EXCEPT ![q] = Idle]
      /\ UNCHANGED <<open, torn, failed, crashes>>
  BY NextEntry DEF Record, NewEntry, AuditInv
<1>2. /\ EntryOf(w) \in Line
      /\ EntryOf(w).hash = made + 1
  BY NextEntry DEF AuditInv, Line
<1>3. w \in open
  BY <1>1, AuditAssumption DEF AuditInv, Placed
<1>4. AuditTypeOK'
  <2>1. file' \in Seq(Line) \ {<<>>}
    BY <1>1, <1>2, Writing DEF AuditInv
  <2>2. answered' \subseteq 1..made'
    BY <1>1, <1>2 DEF AuditInv, AuditTypeOK
  <2>3. seq' \in [Writer -> Nat] /\ lastHash' \in [Writer -> Nat]
    BY <1>1 DEF AuditInv, AuditTypeOK, NewEntry
  <2>4. request' \in [Request -> Writer \cup {Idle}] /\ made' \in Nat /\ UNCHANGED <<open, torn, failed, crashes>>
    BY <1>1 DEF AuditInv, AuditTypeOK
  <2> QED
    BY <1>1, <2>1, <2>2, <2>3, <2>4 DEF AuditInv, AuditTypeOK, Line
<1>5. Placed'
  BY <1>1 DEF AuditInv, AuditTypeOK, Placed
<1>6. Accounted' /\ Named'
  <2>1. AuditTypeOK /\ Accounted /\ Named
    BY DEF AuditInv
  <2>2. Accounted'
    BY <1>1, <1>2, <2>1, WriteAccounted
  <2>3. Named'
    BY <1>1, <1>2, <2>1, WriteNamed
  <2> QED
    BY <2>2, <2>3
<1>7. ASSUME Single PROVE Intact'
  <2>1. ~cut
    <3>1. Cardinality(Missing) \in Nat
      BY AnswersFinite DEF AuditInv, Missing
    <3> QED
      BY <1>7, <3>1 DEF AuditInv, Single, Accounted
  <2>2. open = {w}
    <3>1. Writer = {w}
      <4>1. PICK v : Writer = {v}
        BY <1>7, AuditAssumption, FS_Singleton DEF Single
      <4> QED
        BY <4>1
    <3> QED
      BY <1>3, <3>1 DEF AuditInv, AuditTypeOK
  <2> QED
    BY <1>1, <1>3, <1>7, <2>1, <2>2, ChainGrows DEF AuditInv
<1> QED
  BY <1>1, <1>4, <1>5, <1>6, <1>7 DEF AuditInv, Single

\* Whatever a write leaves behind when it does not go through, the accounts are kept.
LEMMA PiecesAccounted ==
  ASSUME AuditInv, NEW w \in Writer, NEW left \in Pieces(EntryOf(w)),
         file' = left[1], cut' = left[2], UNCHANGED answered,
         made' = made + 1,
         torn' = torn + 1 \/ (torn' = torn /\ file' = file)
  PROVE  /\ Accounted'
         /\ Named'
         /\ file' \in Seq(Line)
         /\ cut' \in BOOLEAN
         /\ cut' => file' # <<>>
<1>1. /\ EntryOf(w) \in Line /\ EntryOf(w).hash \notin answered /\ EntryOf(w).hash = made + 1
      /\ Rubble \in Line /\ Rubble.hash \notin answered /\ Rubble.hash = 0
  <2>1. Rubble.hash \notin answered /\ Rubble.hash = 0
    BY DEF AuditInv, AuditTypeOK, Rubble
  <2> QED
    BY <2>1, NextEntry DEF AuditInv, Line
<1>2. CASE left = <<file, cut>>
  <2>1. file' = file /\ cut' = cut
    BY <1>2
  <2>2. Accounted'
    <3>1. Cardinality(Missing) \in Nat
      BY AnswersFinite DEF AuditInv, Missing
    <3>2. Missing' = Missing
      BY <2>1 DEF Missing, Recorded
    <3> QED
      BY <2>1, <3>1, <3>2 DEF AuditInv, Accounted, AuditTypeOK
  <2>3. Named'
    <3>1. file \in Seq(Line) /\ made \in Nat /\ Named
      BY DEF AuditInv, AuditTypeOK, Line
    <3>2. \A line \in Line : line.hash \in Nat
      BY DEF Line, Entry, Rubble
    <3>3. \A i \in 1..Len(file) : file[i].hash \in Nat
      BY <3>1, <3>2, ElementOfSeq
    <3> QED
      BY <2>1, <3>1, <3>3 DEF Named
  <2> QED
    BY <2>1, <2>2, <2>3 DEF AuditInv, AuditTypeOK, Line
<1>3. ASSUME NEW line \in {EntryOf(w), Rubble}, left = <<Written(line), TRUE>>
      PROVE  /\ Accounted'
             /\ Named'
             /\ file' \in Seq(Line)
             /\ cut' \in BOOLEAN
             /\ cut' => file' # <<>>
  <2>1. file' = Written(line) /\ cut' = TRUE
    BY <1>3
  <2>2. file' \in Seq(Line) \ {<<>>}
    <3>1. AuditTypeOK /\ line \in Line
      BY <1>1, <1>3 DEF AuditInv
    <3> QED
      BY <2>1, <3>1, Writing
  <2>3. Accounted' /\ Named'
    BY <1>1, <2>1, TornAccounted, WriteNamed DEF AuditInv
  <2> QED
    BY <2>1, <2>2, <2>3
<1> QED
  BY <1>2, <1>3 DEF Pieces

\* A write that fails in a process that goes on
LEMMA RecordFailsInv ==
  ASSUME AuditInv, NEW w \in Writer, NEW q \in Request, RecordFails(w, q)
  PROVE  AuditInv'
<1>1. /\ NewEntry(w)
      /\ made' = made + 1
      /\ failed' = failed + 1
      /\ request' = [request EXCEPT ![q] = Idle]
      /\ UNCHANGED <<open, answered, crashes>>
  BY DEF RecordFails, NewEntry
<1>2. PICK left \in Pieces(EntryOf(w)) :
        /\ file' = left[1]
        /\ cut' = left[2]
        /\ torn' = IF left[1] = file THEN torn ELSE torn + 1
  BY DEF RecordFails
<1>3. /\ Accounted'
      /\ Named'
      /\ file' \in Seq(Line)
      /\ cut' \in BOOLEAN
      /\ cut' => file' # <<>>
  <2>1. UNCHANGED answered /\ (torn' = torn + 1 \/ (torn' = torn /\ file' = file))
    BY <1>1, <1>2
  <2> QED
    BY <1>1, <1>2, <2>1, PiecesAccounted
<1>4. AuditTypeOK'
  <2>1. torn' \in Nat /\ failed' \in Nat \ {0} /\ answered' \subseteq 1..made'
    BY <1>1, <1>2 DEF AuditInv, AuditTypeOK
  <2> QED
    BY <1>1, <1>3, <2>1 DEF AuditInv, AuditTypeOK, NewEntry, Line
<1>5. Placed'
  BY <1>1 DEF AuditInv, AuditTypeOK, Placed
<1>6. ~Single'
  BY <1>1 DEF AuditInv, AuditTypeOK, Single
<1> QED
  BY <1>3, <1>4, <1>5, <1>6 DEF AuditInv

\* A process that ends takes its handlers with it.
LEMMA DiesInv ==
  ASSUME AuditInv, NEW w \in Writer, Dies(w)
  PROVE  /\ Placed'
         /\ open' \subseteq Writer
         /\ request' \in [Request -> Writer \cup {Idle}]
         /\ crashes' \in Nat
BY DEF AuditInv, AuditTypeOK, Placed, Dies

\* A process ends between two writes.
LEMMA CrashInv ==
  ASSUME AuditInv, NEW w \in Writer, Crash(w)
  PROVE  AuditInv'
<1>1. /\ Dies(w)
      /\ UNCHANGED <<file, cut, made, torn, seq, lastHash, answered, failed>>
      /\ open' \subseteq open
  BY DEF Crash, Dies, fileVars
<1>2. AuditTypeOK' /\ Placed'
  BY <1>1, DiesInv DEF AuditInv, AuditTypeOK
<1>3. Accounted' /\ Named' /\ (Single' => Intact')
  BY <1>1 DEF AuditInv, Accounted, Missing, Recorded, Named, Single, Intact, Chained, Newest
<1> QED
  BY <1>2, <1>3 DEF AuditInv

\* A process ends in a write.
LEMMA CrashInWriteInv ==
  ASSUME AuditInv, NEW w \in Writer, CrashInWrite(w)
  PROVE  AuditInv'
<1>1. /\ Dies(w)
      /\ made' = made + 1
      /\ UNCHANGED <<seq, lastHash, answered, failed>>
  BY DEF CrashInWrite, Dies
<1>2. PICK left \in Pieces(EntryOf(w)) :
        /\ file' = left[1]
        /\ cut' = left[2]
        /\ torn' = torn + 1
  BY DEF CrashInWrite
<1>3. /\ Accounted'
      /\ Named'
      /\ file' \in Seq(Line)
      /\ cut' \in BOOLEAN
      /\ cut' => file' # <<>>
  <2>1. UNCHANGED answered /\ (torn' = torn + 1 \/ (torn' = torn /\ file' = file))
    BY <1>1, <1>2
  <2> QED
    BY <1>1, <1>2, <2>1, PiecesAccounted
<1>4. AuditTypeOK' /\ Placed'
  <2>1. torn' \in Nat /\ made' \in Nat /\ answered' \subseteq 1..made'
    BY <1>1, <1>2 DEF AuditInv, AuditTypeOK
  <2> QED
    BY <1>1, <1>3, <2>1, DiesInv DEF AuditInv, AuditTypeOK, Line
<1>5. ~Single'
  BY <1>2 DEF AuditInv, AuditTypeOK, Single
<1> QED
  BY <1>3, <1>4, <1>5 DEF AuditInv

-----------------------------------------------------------------------------
(* The theorems *)

\* The inductive invariant
LEMMA AuditInvariant == AuditSpec => []AuditInv
<1>1. AuditInit => AuditInv
  <2> SUFFICES ASSUME AuditInit PROVE AuditInv
    OBVIOUS
  <2>1. AuditTypeOK
    BY EmptySeq DEF AuditInit, AuditTypeOK, Genesis
  <2>2. Placed
    BY DEF AuditInit, Placed
  <2>3. Accounted
    BY FS_EmptySet DEF AuditInit, Accounted, Missing
  <2>4. Intact /\ Named
    BY EmptySeq DEF AuditInit, Intact, Chained, Named
  <2> QED
    BY <2>1, <2>2, <2>3, <2>4 DEF AuditInv
<1>2. AuditInv /\ [AuditNext]_auditVars => AuditInv'
  <2> SUFFICES ASSUME AuditInv, [AuditNext]_auditVars PROVE AuditInv'
    OBVIOUS
  <2>1. CASE AuditNext
    <3>1. PICK w \in Writer :
            \/ Open(w) \/ Crash(w) \/ CrashInWrite(w)
            \/ \E q \in Request : Operate(w, q) \/ Record(w, q) \/ RecordFails(w, q)
      BY <2>1 DEF AuditNext
    <3> QED
      BY <3>1, OpenInv, CrashInv, CrashInWriteInv, OperateInv, RecordInv, RecordFailsInv
  <2>2. CASE UNCHANGED auditVars
    <3>1. UNCHANGED <<file, cut, open, seq, lastHash, request, made, answered, torn, failed, crashes>>
      BY <2>2 DEF auditVars, fileVars, memory, history
    <3>2. AuditTypeOK' /\ Placed'
      BY <3>1 DEF AuditInv, AuditTypeOK, Placed
    <3>3. Accounted' /\ Named' /\ (Single' => Intact')
      BY <3>1 DEF AuditInv, Accounted, Missing, Recorded, Named, Single, Intact, Chained, Newest
    <3> QED
      BY <3>2, <3>3 DEF AuditInv
  <2> QED
    BY <2>1, <2>2
<1> QED
  BY <1>1, <1>2, PTL DEF AuditSpec

\* The variables keep their types, for any processes and faults.
THEOREM AuditTypeCorrect == AuditSpec => []AuditTypeOK
<1>1. AuditInv => AuditTypeOK
  BY DEF AuditInv
<1> QED
  BY <1>1, AuditInvariant, PTL

\* However often a write fails or a process dies in one, and with any number of
\* processes that write to one file, no more answered requests are missing from
\* the log than lines were torn.
THEOREM AnswersAreOnRecord == AuditSpec => []AnsweredIsRecorded
<1>1. AuditInv => AnsweredIsRecorded
  <2> SUFFICES ASSUME AuditInv PROVE AnsweredIsRecorded
    OBVIOUS
  <2>1. Cardinality(Missing) \in Nat
    BY AnswersFinite DEF AuditInv, Missing
  <2> QED
    BY <2>1 DEF AuditInv, AuditTypeOK, Accounted, AnsweredIsRecorded, Missing
<1> QED
  BY <1>1, AuditInvariant, PTL

\* As long as no write of the one process has failed, its log verifies over any
\* number of restarts.
THEOREM RestartsKeepTheChain == AuditSpec => []ChainHolds
<1>1. AuditInv => ChainHolds
  BY DEF AuditInv, Single, Intact, ChainHolds
<1> QED
  BY <1>1, AuditInvariant, PTL

\* If a selection of the lines verifies as the file does, then each of its lines is
\* the one at that place of the file: its first line is the first, and the lines after
\* equal lines are equal.
LEMMA SelectionsAreBeginnings ==
  ASSUME AuditTypeOK, Named, Chained(file),
         NEW n \in 0..Len(file), NEW kept \in [1..n -> 1..Len(file)],
         Chained([i \in 1..n |-> file[kept[i]]])
  PROVE  \A i \in 1..n : kept[i] = i
<1>1. /\ Len(file) \in Nat
      /\ n \in Nat
      /\ \A i \in 1..Len(file) : file[i].hash \in Nat \ {0}
  <2>1. file \in Seq(Line) /\ Len(file) \in Nat
    BY LenProperties DEF AuditTypeOK, Line
  <2>2. \A i \in 1..Len(file) : file[i] \in Entry
    BY <2>1, ElementOfSeq DEF Chained, Line
  <2> QED
    BY <2>1, <2>2 DEF Entry
<1> DEFINE lines == [i \in 1..n |-> file[kept[i]]]
<1>2. Len(lines) = n
  BY <1>1
<1>3. \A i \in 1..n : file[kept[i]].prev = IF i = 1 THEN Genesis ELSE file[kept[i - 1]].hash
  <2>1. ASSUME NEW i \in 1..n PROVE file[kept[i]].prev = IF i = 1 THEN Genesis ELSE file[kept[i - 1]].hash
    <3>1. lines[i].prev = IF i = 1 THEN Genesis ELSE lines[i - 1].hash
      BY <1>2 DEF Chained
    <3>2. i # 1 => i - 1 \in 1..n
      BY <1>1
    <3> QED
      BY <3>1, <3>2
  <2> QED
    BY <2>1
<1>4. \A i \in 1..Len(file) : file[i].prev = IF i = 1 THEN Genesis ELSE file[i - 1].hash
  BY DEF Chained
<1> HIDE DEF lines
<1>5. n >= 1 => kept[1] = 1
  <2> SUFFICES ASSUME n >= 1, kept[1] # 1 PROVE FALSE
    OBVIOUS
  <2>1. 1 \in 1..n /\ kept[1] \in 1..Len(file) /\ kept[1] - 1 \in 1..Len(file)
    BY <1>1
  <2>2. file[kept[1]].prev = Genesis /\ file[kept[1]].prev = file[kept[1] - 1].hash
    BY <1>3, <1>4, <2>1
  <2> QED
    BY <1>1, <2>1, <2>2 DEF Genesis
<1>6. ASSUME NEW i \in 1..n, i # 1, kept[i - 1] = i - 1
      PROVE  kept[i] = i
  <2>1. i - 1 \in 1..n /\ kept[i] \in 1..Len(file) /\ i - 1 \in 1..Len(file)
    <3>1. i - 1 \in 1..n
      BY <1>1, <1>6
    <3> QED
      BY <1>6, <3>1
  <2>2. file[kept[i]].prev = file[i - 1].hash
    BY <1>3, <1>6
  <2>3. kept[i] # 1
    BY <1>1, <1>4, <2>1, <2>2 DEF Genesis
  <2>4. kept[i] - 1 \in 1..Len(file) /\ file[kept[i] - 1].hash = file[i - 1].hash
    <3>1. file[kept[i]].prev = file[kept[i] - 1].hash
      BY <1>4, <2>1, <2>3
    <3> QED
      BY <1>1, <2>1, <2>2, <2>3, <3>1
  <2>5. kept[i] - 1 = i - 1
    BY <1>1, <2>1, <2>4 DEF Named
  <2> QED
    BY <2>1, <2>5
<1> DEFINE wrong == {i \in 1..n : kept[i] # i}
<1>7. wrong = {}
  <2> SUFFICES ASSUME wrong # {} PROVE FALSE
    OBVIOUS
  <2>1. PICK i \in wrong : \A j \in wrong : i <= j
    <3>1. wrong \subseteq Nat
      BY <1>1
    <3> HIDE DEF wrong
    <3> QED
      BY <3>1, Least
  <2>2. i \in 1..n /\ i # 1 /\ i - 1 \in 1..n
    BY <1>1, <1>5, <2>1
  <2>3. i - 1 \notin wrong
    BY <1>1, <2>1, <2>2
  <2> QED
    BY <1>6, <2>1, <2>2, <2>3
<1> QED
  BY <1>7

\* A log that verifies does not with any of its entries missing, repeated or out of
\* order, but for the newest, whatever was torn or failed before.
THEOREM LossesAreSeen == AuditSpec => []LossIsSeen
<1>1. AuditInv => LossIsSeen
  <2> SUFFICES ASSUME AuditInv, Chained(file),
                      NEW n \in 0..Len(file), NEW kept \in [1..n -> 1..Len(file)],
                      Chained([i \in 1..n |-> file[kept[i]]])
               PROVE  \A i \in 1..n : kept[i] = i
    BY DEF LossIsSeen
  <2> QED
    BY SelectionsAreBeginnings DEF AuditInv
<1> QED
  BY <1>1, AuditInvariant, PTL

-----------------------------------------------------------------------------
(***************************************************************************)
(* The hash ring.  The two loops keep the list sorted; then the first      *)
(* position that is not below a key's is the next one, going round.        *)
(***************************************************************************)

Sorted(list) == \A i, j \in 1..Len(list) : i <= j => list[i] <= list[j]

\* no position twice
Distinct(list) == \A i, j \in 1..Len(list) : list[i] = list[j] => i = j

Elements(list) == {list[i] : i \in 1..Len(list)}

SortedList == {list \in Seq(Hashes) : Sorted(list)}

\* bisect_left: the positions below h come first.
LEMMA Bisect ==
  ASSUME NEW list \in SortedList, NEW h \in Hashes
  PROVE  /\ Below(list, h) \in 0..Len(list)
         /\ \A i \in 1..Len(list) : list[i] < h <=> i <= Below(list, h)
<1>1. /\ Len(list) \in Nat
      /\ \A i \in 1..Len(list) : list[i] \in Nat
      /\ h \in Nat
      /\ \A i, j \in 1..Len(list) : i <= j => list[i] <= list[j]
  BY ElementOfSeq, RingAssumption DEF SortedList, Sorted, Hashes
<1> DEFINE low == {i \in 1..Len(list) : list[i] < h}
           rest == {i \in 1..Len(list) + 1 : i = Len(list) + 1 \/ ~(list[i] < h)}
<1>2. PICK m \in rest : \A i \in rest : m <= i
  <2>1. rest \in SUBSET Nat /\ rest # {}
    BY <1>1
  <2> HIDE DEF rest
  <2> QED
    BY <2>1, Least
<1>3. m \in 1..Len(list) + 1 /\ m - 1 \in 0..Len(list)
  BY <1>1
<1>4. \A i \in 1..Len(list) : list[i] < h <=> i <= m - 1
  <2>1. ASSUME NEW i \in 1..Len(list), i <= m - 1 PROVE list[i] < h
    <3>1. ~(m <= i)
      BY <1>1, <1>3, <2>1
    <3>2. i \notin rest
      BY <1>2, <3>1
    <3> QED
      BY <1>1, <3>2
  <2>2. ASSUME NEW i \in 1..Len(list), ~(i <= m - 1) PROVE ~(list[i] < h)
    <3>1. m <= i /\ m \in 1..Len(list)
      BY <1>1, <1>3, <2>2
    <3>2. ~(list[m] < h)
      BY <1>1, <3>1
    <3>3. list[m] <= list[i] /\ list[m] \in Nat /\ list[i] \in Nat
      BY <1>1, <3>1
    <3> QED
      BY <1>1, <3>2, <3>3
  <2> QED
    BY <2>1, <2>2
<1>5. low = 1..m - 1
  BY <1>1, <1>3, <1>4
<1> HIDE DEF low
<1>6. Cardinality(low) = m - 1
  BY <1>3, <1>5, FS_Interval
<1>7. Below(list, h) = m - 1
  BY <1>6 DEF Below, low
<1> QED
  BY <1>3, <1>4, <1>7

\* insort keeps the list sorted and adds one element.
LEMMA Inserting ==
  ASSUME NEW list \in SortedList, NEW h \in Hashes
  PROVE  /\ Insort(list, h) \in SortedList
         /\ Elements(Insort(list, h)) = Elements(list) \cup {h}
         /\ Distinct(list) /\ h \notin Elements(list) => Distinct(Insort(list, h))
<1>1. /\ list \in Seq(Hashes) /\ Len(list) \in Nat
      /\ \A i \in 1..Len(list) : list[i] \in Nat
      /\ h \in Nat
      /\ \A i, j \in 1..Len(list) : i <= j => list[i] <= list[j]
  BY ElementOfSeq, RingAssumption DEF SortedList, Sorted, Hashes
<1>2. PICK k \in 0..Len(list) : /\ k = Below(list, h)
                                /\ \A i \in 1..Len(list) : list[i] < h <=> i <= k
  BY Bisect
<1>3. PICK new : new = Insort(list, h)
  OBVIOUS
<1>4. /\ new \in Seq(Hashes) /\ Len(new) = Len(list) + 1
      /\ \A i \in 1..Len(list) + 1 :
           new[i] = IF i < k + 1 THEN list[i] ELSE IF i = k + 1 THEN h ELSE list[i - 1]
  <2>1. PICK p : p = k + 1
    OBVIOUS
  <2>2. p \in 1..Len(list) + 1 /\ new = InsertAt(list, p, h)
    BY <1>1, <1>2, <1>3, <2>1 DEF Insort
  <2>3. /\ new \in Seq(Hashes) /\ Len(new) = Len(list) + 1
        /\ \A i \in 1..Len(list) + 1 :
             new[i] = IF i < p THEN list[i] ELSE IF i = p THEN h ELSE list[i - 1]
    <3>1. list \in Seq(Hashes) /\ h \in Hashes /\ p \in 1..Len(list) + 1
      BY <1>1, <2>2
    <3>2. InsertAt(list, p, h) \in Seq(Hashes) /\ IsInsertion(InsertAt(list, p, h), list, p, h)
      BY <3>1, InsertParts
    <3> QED
      BY <2>2, <3>2 DEF IsInsertion
  <2> QED
    BY <2>1, <2>3
<1>5. Sorted(new)
  <2> SUFFICES ASSUME NEW i \in 1..Len(list) + 1, NEW j \in 1..Len(list) + 1, i <= j
               PROVE  new[i] <= new[j]
    BY <1>4 DEF Sorted
  <2>1. CASE j < k + 1
    <3>1. /\ i \in 1..Len(list) /\ j \in 1..Len(list)
          /\ new[i] = list[i] /\ new[j] = list[j]
      BY <1>1, <1>2, <1>4, <2>1
    <3> QED
      BY <1>1, <3>1
  <2>2. CASE j = k + 1
    <3>1. CASE i = j
      BY <1>1, <1>2, <1>4, <2>2, <3>1
    <3>2. CASE i # j
      <4>1. i \in 1..Len(list) /\ i <= k /\ new[i] = list[i] /\ new[j] = h
        BY <1>1, <1>2, <1>4, <2>2, <3>2
      <4> QED
        BY <1>1, <1>2, <4>1
    <3> QED
      BY <3>1, <3>2
  <2>3. CASE j > k + 1
    <3>1. j - 1 \in 1..Len(list) /\ ~(list[j - 1] < h) /\ new[j] = list[j - 1]
      BY <1>1, <1>2, <1>4, <2>3
    <3>2. CASE i < k + 1
      <4>1. i \in 1..Len(list) /\ i <= j - 1 /\ new[i] = list[i]
        BY <1>1, <1>2, <1>4, <2>3, <3>2
      <4> QED
        BY <1>1, <3>1, <4>1
    <3>3. CASE i = k + 1
      BY <1>1, <1>2, <1>4, <3>1, <3>3
    <3>4. CASE i > k + 1
      <4>1. i - 1 \in 1..Len(list) /\ i - 1 <= j - 1 /\ new[i] = list[i - 1]
        BY <1>1, <1>2, <1>4, <2>3, <3>4
      <4> QED
        BY <1>1, <3>1, <4>1
    <3> QED
      BY <1>2, <3>2, <3>3, <3>4
  <2> QED
    BY <1>2, <2>1, <2>2, <2>3
<1>6. ASSUME NEW x PROVE x \in Elements(new) <=> x \in Elements(list) \cup {h}
  <2>1. ASSUME NEW i \in 1..Len(new) PROVE new[i] \in Elements(list) \cup {h}
    <3>1. CASE i < k + 1
      <4>1. i \in 1..Len(list) /\ new[i] = list[i]
        BY <1>1, <1>2, <1>4, <3>1
      <4> QED
        BY <4>1 DEF Elements
    <3>2. CASE i = k + 1
      BY <1>1, <1>2, <1>4, <3>2
    <3>3. CASE i > k + 1
      <4>1. i - 1 \in 1..Len(list) /\ new[i] = list[i - 1]
        BY <1>1, <1>2, <1>4, <3>3
      <4> QED
        BY <4>1 DEF Elements
    <3> QED
      BY <1>1, <1>2, <1>4, <3>1, <3>2, <3>3
  <2>2. ASSUME NEW i \in 1..Len(list) PROVE list[i] \in Elements(new)
    <3>1. CASE i < k + 1
      <4>1. i \in 1..Len(new) /\ new[i] = list[i]
        BY <1>1, <1>2, <1>4, <3>1
      <4> QED
        BY <4>1 DEF Elements
    <3>2. CASE ~(i < k + 1)
      <4>1. i + 1 \in 1..Len(list) + 1 /\ ~(i + 1 < k + 1) /\ i + 1 # k + 1 /\ (i + 1) - 1 = i
        BY <1>1, <1>2, <3>2
      <4>2. i + 1 \in 1..Len(new) /\ new[i + 1] = list[i]
        BY <1>4, <4>1
      <4> QED
        BY <4>2 DEF Elements
    <3> QED
      BY <3>1, <3>2
  <2>3. h \in Elements(new)
    <3>1. k + 1 \in 1..Len(new) /\ new[k + 1] = h
      BY <1>1, <1>2, <1>4
    <3> QED
      BY <3>1 DEF Elements
  <2> QED
    BY <2>1, <2>2, <2>3 DEF Elements
<1>7. ASSUME Distinct(list), h \notin Elements(list) PROVE Distinct(new)
  <2>1. \A i \in 1..Len(list) : list[i] # h
    BY <1>7 DEF Elements
  <2> DEFINE Old(i) == IF i < k + 1 THEN i ELSE i - 1
  <2>2. ASSUME NEW i \in 1..Len(new), i # k + 1
        PROVE  Old(i) \in 1..Len(list) /\ new[i] = list[Old(i)]
    BY <1>1, <1>2, <1>4, <2>2
  <2>3. k + 1 \in 1..Len(new) /\ new[k + 1] = h
    BY <1>1, <1>2, <1>4
  <2> SUFFICES ASSUME NEW i \in 1..Len(new), NEW j \in 1..Len(new), new[i] = new[j], i # j
               PROVE  FALSE
    BY DEF Distinct
  <2>4. i # k + 1 /\ j # k + 1
    <3> HIDE DEF Old
    <3> QED
      BY <2>1, <2>2, <2>3
  <2>5. Old(i) = Old(j)
    <3>1. list[Old(i)] = list[Old(j)] /\ Old(i) \in 1..Len(list) /\ Old(j) \in 1..Len(list)
      BY <2>2, <2>4
    <3> HIDE DEF Old
    <3> QED
      BY <1>7, <3>1 DEF Distinct
  <2> QED
    BY <1>1, <1>2, <1>4, <2>4, <2>5
<1> QED
  BY <1>3, <1>4, <1>5, <1>6, <1>7 DEF SortedList

\* list.remove keeps it sorted and takes out one element, which may be there again.
LEMMA Removing ==
  ASSUME NEW list \in SortedList, NEW h \in Elements(list)
  PROVE  /\ Without(list, h) \in SortedList
         /\ Elements(Without(list, h)) \subseteq Elements(list)
         /\ Elements(list) \ {h} \subseteq Elements(Without(list, h))
         /\ Distinct(list) => Distinct(Without(list, h)) /\ h \notin Elements(Without(list, h))
<1>0. h \in Hashes
  BY ElementOfSeq DEF Elements, SortedList
<1>1. /\ list \in Seq(Hashes) /\ Len(list) \in Nat
      /\ \A i \in 1..Len(list) : list[i] \in Nat
      /\ h \in Nat
      /\ \A i, j \in 1..Len(list) : i <= j => list[i] <= list[j]
  BY <1>0, ElementOfSeq, RingAssumption DEF SortedList, Sorted, Hashes
<1>2. PICK k \in 0..Len(list) : /\ k = Below(list, h)
                                /\ \A i \in 1..Len(list) : list[i] < h <=> i <= k
  BY <1>0, Bisect
<1>3. k + 1 \in 1..Len(list) /\ list[k + 1] = h
  <2>1. PICK i \in 1..Len(list) : list[i] = h
    BY DEF Elements
  <2>2. ~(i <= k)
    BY <1>1, <1>2, <2>1
  <2>3. k + 1 \in 1..Len(list) /\ k + 1 <= i
    BY <1>1, <1>2, <2>2
  <2>4. ~(list[k + 1] < h) /\ list[k + 1] <= h
    BY <1>1, <1>2, <2>1, <2>3
  <2> QED
    BY <1>1, <2>3, <2>4
<1>4. PICK new : new = Without(list, h)
  OBVIOUS
<1>5. /\ new \in Seq(Hashes) /\ Len(new) = Len(list) - 1
      /\ \A i \in 1..Len(list) - 1 : new[i] = IF i < k + 1 THEN list[i] ELSE list[i + 1]
  <2>1. PICK p : p = k + 1
    OBVIOUS
  <2>2. p \in 1..Len(list) /\ new = RemoveAt(list, p)
    BY <1>2, <1>3, <1>4, <2>1 DEF Without
  <2>3. /\ new \in Seq(Hashes) /\ Len(new) = Len(list) - 1
        /\ \A i \in 1..Len(list) - 1 : new[i] = IF i < p THEN list[i] ELSE list[i + 1]
    <3>1. list \in Seq(Hashes) /\ p \in 1..Len(list)
      BY <1>1, <2>2
    <3>2. /\ RemoveAt(list, p) \in Seq(Hashes) /\ Len(RemoveAt(list, p)) = Len(list) - 1
          /\ \A i \in 1..Len(list) - 1 :
               RemoveAt(list, p)[i] = IF i < p THEN list[i] ELSE list[i + 1]
      BY <3>1, RemoveParts, Zenon
    <3> QED
      BY <2>2, <3>2
  <2> QED
    BY <2>1, <2>3
<1>6. \A i \in 1..Len(new) :
        \E p \in 1..Len(list) : new[i] = list[p] /\ (p = i \/ p = i + 1) /\ (p = i <=> i < k + 1)
  <2>1. ASSUME NEW i \in 1..Len(new), i < k + 1
        PROVE  i \in 1..Len(list) /\ new[i] = list[i]
    BY <1>1, <1>5, <2>1
  <2>2. ASSUME NEW i \in 1..Len(new), ~(i < k + 1)
        PROVE  i + 1 \in 1..Len(list) /\ new[i] = list[i + 1] /\ i + 1 # i
    BY <1>1, <1>5, <2>2
  <2> QED
    BY <2>1, <2>2
<1>7. Sorted(new)
  <2> SUFFICES ASSUME NEW i \in 1..Len(new), NEW j \in 1..Len(new), i <= j
               PROVE  new[i] <= new[j]
    BY DEF Sorted
  <2>1. PICK p \in 1..Len(list) :
          new[i] = list[p] /\ (p = i \/ p = i + 1) /\ (p = i <=> i < k + 1)
    BY <1>6
  <2>2. PICK q \in 1..Len(list) :
          new[j] = list[q] /\ (q = j \/ q = j + 1) /\ (q = j <=> j < k + 1)
    BY <1>6
  <2>3. p <= q
    <3>1. i \in Nat /\ j \in Nat /\ k \in Nat
      BY <1>1, <1>2, <1>5
    <3>2. CASE i = j
      BY <2>1, <2>2, <3>1, <3>2
    <3>3. CASE i < j
      BY <2>1, <2>2, <3>1, <3>3
    <3> QED
      BY <3>1, <3>2, <3>3
  <2> QED
    BY <1>1, <2>1, <2>2, <2>3
<1>8. ASSUME NEW i \in 1..Len(list), list[i] # h PROVE list[i] \in Elements(new)
  <2>1. i # k + 1
    BY <1>3, <1>8
  <2>2. CASE i < k + 1
    <3>1. i \in 1..Len(new) /\ new[i] = list[i]
      BY <1>1, <1>3, <1>5, <2>2
    <3> QED
      BY <3>1 DEF Elements
  <2>3. CASE ~(i < k + 1)
    <3>1. i - 1 \in 1..Len(list) - 1 /\ ~(i - 1 < k + 1) /\ (i - 1) + 1 = i
      BY <1>1, <1>2, <2>1, <2>3
    <3>2. i - 1 \in 1..Len(new) /\ new[i - 1] = list[i]
      BY <1>5, <3>1
    <3> QED
      BY <3>2 DEF Elements
  <2> QED
    BY <2>2, <2>3
<1>9. ASSUME Distinct(list) PROVE Distinct(new) /\ h \notin Elements(new)
  <2> DEFINE Old(i) == IF i < k + 1 THEN i ELSE i + 1
  <2>1. ASSUME NEW i \in 1..Len(new)
        PROVE  Old(i) \in 1..Len(list) /\ Old(i) # k + 1 /\ new[i] = list[Old(i)]
    BY <1>1, <1>2, <1>5
  <2>2. \A i, j \in 1..Len(new) : Old(i) = Old(j) => i = j
    BY <1>1, <1>2, <1>5
  <2> HIDE DEF Old
  <2>3. \A i \in 1..Len(new) : new[i] # h
    BY <1>3, <1>9, <2>1 DEF Distinct
  <2> QED
    BY <1>9, <2>1, <2>2, <2>3 DEF Distinct, Elements
<1> QED
  BY <1>4, <1>5, <1>6, <1>7, <1>8, <1>9 DEF SortedList, Elements

-----------------------------------------------------------------------------
\* No two virtual nodes share a position.
Apart ==
  /\ position \in [Virtual -> Hashes]
  /\ \A v, w \in Virtual : position[v] = position[w] => v = w

\* The loop of add_node
LEMMA InsertedIs ==
  ASSUME Apart, ring \in SortedList, NEW n \in RingNode
  PROVE  /\ Inserted(n) \in SortedList
         /\ Elements(Inserted(n)) = Elements(ring) \cup PositionsOf(n)
         /\ Distinct(ring) /\ PositionsOf(n) \cap Elements(ring) = {} => Distinct(Inserted(n))
<1>1. /\ VirtualNodes \in Nat
      /\ \A i \in 1..VirtualNodes : position[<<n, i>>] \in Hashes
      /\ \A i, j \in 1..VirtualNodes : position[<<n, i>>] = position[<<n, j>>] => i = j
  BY RingAssumption DEF Apart, Virtual
<1> DEFINE New == Distinct(ring) /\ \A i \in 1..VirtualNodes : position[<<n, i>>] \notin Elements(ring)
<1> DEFINE step == [x \in SortedList \X Nat |->
                      IF x[2] \in 1..VirtualNodes THEN Insort(x[1], position[<<n, x[2]>>]) ELSE x[1]]
           Loop(f) == f = [i \in 0..VirtualNodes |->
                             IF i = 0 THEN ring ELSE Insort(f[i - 1], position[<<n, i>>])]
           list == CHOOSE f : Loop(f)
<1>2. step \in [SortedList \X Nat -> SortedList]
  <2>1. ASSUME NEW x \in SortedList \X Nat
        PROVE  (IF x[2] \in 1..VirtualNodes THEN Insort(x[1], position[<<n, x[2]>>]) ELSE x[1]) \in SortedList
    BY <1>1, Inserting
  <2> QED
    BY <2>1
<1>3. \E f : Loop(f)
  <2>1. PICK f \in [0..VirtualNodes -> SortedList] :
          f[0] = ring /\ \A i \in 1..VirtualNodes : f[i] = step[<<f[i - 1], i>>]
    <3>1. PICK first, turn : first = ring /\ turn = step
      OBVIOUS
    <3>2. first \in SortedList /\ turn \in [SortedList \X Nat -> SortedList]
      BY <1>2, <3>1
    <3>3. \E f : IsLoop(f, VirtualNodes, SortedList, first, turn)
      BY <1>1, <3>2, LoopExists
    <3> HIDE DEF step
    <3> QED
      BY <3>1, <3>3 DEF IsLoop
  <2>2. ASSUME NEW i \in 1..VirtualNodes PROVE f[i] = Insort(f[i - 1], position[<<n, i>>])
    <3>1. <<f[i - 1], i>> \in SortedList \X Nat
      BY <1>1
    <3> QED
      BY <2>1, <3>1
  <2>3. f = [i \in 0..VirtualNodes |->
               IF i = 0 THEN ring ELSE Insort(f[i - 1], position[<<n, i>>])]
    BY <1>1, <2>1, <2>2
  <2> QED
    BY <2>3
<1>4. Loop(list)
  <2> HIDE DEF Loop
  <2> QED
    BY <1>3
<1>5. Inserted(n) = list[VirtualNodes]
  BY DEF Inserted
<1>6. list[0] = ring /\ \A i \in 1..VirtualNodes : list[i] = Insort(list[i - 1], position[<<n, i>>])
  <2> HIDE DEF list
  <2>1. 0 \in 0..VirtualNodes /\ \A i \in 1..VirtualNodes : i \in 0..VirtualNodes /\ i # 0
    BY <1>1
  <2> QED
    BY <1>4, <2>1
<1> HIDE DEF list
<1> DEFINE T == {i \in 0..VirtualNodes :
                   /\ list[i] \in SortedList
                   /\ Elements(list[i]) = Elements(ring) \cup {position[<<n, j>>] : j \in 1..i}
                   /\ New => Distinct(list[i])}
<1>7. 0 \in T
  <2>1. 1..0 = {} /\ 0 \in 0..VirtualNodes
    BY <1>1
  <2> QED
    BY <1>6, <2>1
<1>8. ASSUME NEW i \in 1..VirtualNodes, i - 1 \in T PROVE i \in T
  <2>1. /\ list[i] \in SortedList
        /\ Elements(list[i]) = Elements(list[i - 1]) \cup {position[<<n, i>>]}
    BY <1>1, <1>6, <1>8, Inserting
  <2>2. 1..i = (1..i - 1) \cup {i}
    BY <1>1
  <2>3. Elements(list[i]) = Elements(ring) \cup {position[<<n, j>>] : j \in 1..i}
    BY <1>8, <2>1, <2>2
  <2>4. ASSUME New PROVE Distinct(list[i])
    <3>1. position[<<n, i>>] \notin {position[<<n, j>>] : j \in 1..i - 1}
      <4>1. \A j \in 1..i - 1 : j \in 1..VirtualNodes /\ j # i
        BY <1>1
      <4> QED
        BY <1>1, <4>1
    <3>2. position[<<n, i>>] \notin Elements(list[i - 1]) /\ Distinct(list[i - 1])
      BY <1>8, <2>4, <3>1
    <3> QED
      BY <1>1, <1>6, <1>8, <3>2, Inserting
  <2> QED
    BY <2>1, <2>3, <2>4
<1>9. VirtualNodes \in T
  <2> HIDE DEF T
  <2> QED
    BY <1>1, <1>7, <1>8, Turns
<1>10. Distinct(ring) /\ PositionsOf(n) \cap Elements(ring) = {} => New
  BY DEF PositionsOf
<1> QED
  BY <1>5, <1>9, <1>10 DEF PositionsOf

\* The loop of remove_node, for a node whose positions are all on the ring
LEMMA RemovedIs ==
  ASSUME Apart, ring \in SortedList, NEW n \in RingNode, PositionsOf(n) \subseteq Elements(ring)
  PROVE  /\ Removed(n) \in SortedList
         /\ Elements(Removed(n)) \subseteq Elements(ring)
         /\ Elements(ring) \ PositionsOf(n) \subseteq Elements(Removed(n))
         /\ Distinct(ring) => /\ Distinct(Removed(n))
                             /\ PositionsOf(n) \cap Elements(Removed(n)) = {}
<1>1. /\ VirtualNodes \in Nat
      /\ \A i \in 1..VirtualNodes : position[<<n, i>>] \in Elements(ring)
      /\ \A i, j \in 1..VirtualNodes : position[<<n, i>>] = position[<<n, j>>] => i = j
  BY RingAssumption DEF Apart, Virtual, PositionsOf
<1> DEFINE Is(x) == x[2] \in 1..VirtualNodes /\ position[<<n, x[2]>>] \in Elements(x[1])
           step == [x \in SortedList \X Nat |->
                      IF Is(x) THEN Without(x[1], position[<<n, x[2]>>]) ELSE x[1]]
           Loop(f) == f = [i \in 0..VirtualNodes |->
                             IF i = 0 THEN ring ELSE Without(f[i - 1], position[<<n, i>>])]
           list == CHOOSE f : Loop(f)
<1>2. step \in [SortedList \X Nat -> SortedList]
  <2>1. ASSUME NEW x \in SortedList \X Nat
        PROVE  (IF Is(x) THEN Without(x[1], position[<<n, x[2]>>]) ELSE x[1]) \in SortedList
    BY Removing
  <2> QED
    BY <2>1
<1>3. PICK f \in [0..VirtualNodes -> SortedList] :
        f[0] = ring /\ \A i \in 1..VirtualNodes : f[i] = step[<<f[i - 1], i>>]
  <2>1. PICK first, turn : first = ring /\ turn = step
    OBVIOUS
  <2>2. first \in SortedList /\ turn \in [SortedList \X Nat -> SortedList]
    BY <1>2, <2>1
  <2>3. \E f : IsLoop(f, VirtualNodes, SortedList, first, turn)
    BY <1>1, <2>2, LoopExists
  <2> HIDE DEF step
  <2> QED
    BY <2>1, <2>3 DEF IsLoop
<1> DEFINE T == {i \in 0..VirtualNodes :
                   /\ Elements(f[i]) \subseteq Elements(ring)
                   /\ Elements(ring) \ {position[<<n, j>>] : j \in 1..i} \subseteq Elements(f[i])
                   /\ Distinct(ring) =>
                        /\ Distinct(f[i])
                        /\ \A j \in 1..i : position[<<n, j>>] \notin Elements(f[i])}
<1>4. ASSUME NEW i \in 1..VirtualNodes, i - 1 \in T
      PROVE  f[i] = Without(f[i - 1], position[<<n, i>>]) /\ position[<<n, i>>] \in Elements(f[i - 1])
  <2>1. <<f[i - 1], i>> \in SortedList \X Nat
    BY <1>1
  <2>2. position[<<n, i>>] \notin {position[<<n, j>>] : j \in 1..i - 1}
    <3>1. \A j \in 1..i - 1 : j \in 1..VirtualNodes /\ j # i
      BY <1>1
    <3> QED
      BY <1>1, <3>1
  <2>3. position[<<n, i>>] \in Elements(f[i - 1])
    BY <1>1, <1>4, <2>2
  <2> QED
    BY <1>3, <2>1, <2>3
<1>5. 0 \in T
  BY <1>1, <1>3
<1>6. ASSUME NEW i \in 1..VirtualNodes, i - 1 \in T PROVE i \in T
  <2>1. i - 1 \in 0..VirtualNodes /\ f[i - 1] \in SortedList
    BY <1>1
  <2>2. /\ Elements(f[i]) \subseteq Elements(f[i - 1])
        /\ Elements(f[i - 1]) \ {position[<<n, i>>]} \subseteq Elements(f[i])
        /\ Distinct(f[i - 1]) => Distinct(f[i]) /\ position[<<n, i>>] \notin Elements(f[i])
    BY <1>4, <1>6, <2>1, Removing
  <2>3. 1..i = (1..i - 1) \cup {i}
    BY <1>1
  <2>4. /\ Elements(f[i - 1]) \subseteq Elements(ring)
        /\ Elements(ring) \ {position[<<n, j>>] : j \in 1..i - 1} \subseteq Elements(f[i - 1])
    BY <1>6
  <2>5. Elements(f[i]) \subseteq Elements(ring)
    BY <2>2, <2>4
  <2>6. Elements(ring) \ {position[<<n, j>>] : j \in 1..i} \subseteq Elements(f[i])
    BY <2>2, <2>3, <2>4
  <2>7. ASSUME Distinct(ring)
        PROVE  Distinct(f[i]) /\ \A j \in 1..i : position[<<n, j>>] \notin Elements(f[i])
    <3>1. Distinct(f[i - 1]) /\ \A j \in 1..i - 1 : position[<<n, j>>] \notin Elements(f[i - 1])
      BY <1>6, <2>7
    <3> QED
      BY <2>2, <2>3, <3>1
  <2> QED
    BY <2>5, <2>6, <2>7
<1>7. \A i \in 0..VirtualNodes : i \in T
  <2> HIDE DEF T
  <2> QED
    BY <1>1, <1>5, <1>6, Turns
<1>8. Loop(f)
  <2>1. ASSUME NEW i \in 1..VirtualNodes PROVE f[i] = Without(f[i - 1], position[<<n, i>>])
    <3>1. i - 1 \in 0..VirtualNodes
      BY <1>1
    <3> HIDE DEF T
    <3> QED
      BY <1>4, <1>7, <3>1
  <2> QED
    BY <1>3, <2>1
<1>9. Loop(list)
  <2> HIDE DEF Loop
  <2> QED
    BY <1>8
<1>10. Removed(n) = list[VirtualNodes]
  BY DEF Removed
<1>11. list[VirtualNodes] = f[VirtualNodes]
  <2> HIDE DEF list, step, T
  <2> DEFINE R == {i \in 0..VirtualNodes : list[i] = f[i]}
  <2>1. 0 \in R
    BY <1>1, <1>8, <1>9
  <2>2. ASSUME NEW i \in 1..VirtualNodes, i - 1 \in R PROVE i \in R
    <3>1. i \in 0..VirtualNodes /\ i # 0
      BY <1>1
    <3>2. list[i] = Without(list[i - 1], position[<<n, i>>])
      BY <1>9, <3>1
    <3>3. f[i] = Without(f[i - 1], position[<<n, i>>])
      BY <1>8, <3>1
    <3> QED
      BY <2>2, <3>1, <3>2, <3>3
  <2>3. VirtualNodes \in R
    <3>1. PICK r : r = R
      OBVIOUS
    <3> HIDE DEF R
    <3>2. 0 \in r /\ \A i \in 1..VirtualNodes : i - 1 \in r => i \in r
      BY <2>1, <2>2, <3>1
    <3>3. \A i \in 0..VirtualNodes : i \in r
      BY <1>1, <3>2, Turns
    <3> QED
      BY <1>1, <3>1, <3>3
  <2> QED
    BY <2>3
<1>12. VirtualNodes \in T
  <2> HIDE DEF T
  <2> QED
    BY <1>1, <1>7
<1>13. Removed(n) = f[VirtualNodes] /\ VirtualNodes \in 0..VirtualNodes
  BY <1>1, <1>10, <1>11
<1>14. /\ Elements(f[VirtualNodes]) \subseteq Elements(ring)
       /\ Elements(ring) \ PositionsOf(n) \subseteq Elements(f[VirtualNodes])
       /\ Distinct(ring) => /\ Distinct(f[VirtualNodes])
                           /\ PositionsOf(n) \cap Elements(f[VirtualNodes]) = {}
  BY <1>12 DEF PositionsOf
<1> QED
  BY <1>3, <1>13, <1>14

-----------------------------------------------------------------------------
\* The list is sorted; a position is mapped only if it is one of a node on the ring; and
\* all positions of such a node are mapped to it and are in the list.
RingInv ==
  /\ Apart
  /\ ring \in SortedList
  /\ owner \in [Hashes -> RingNode \cup {NoNode}]
  /\ adds \in [RingNode -> Nat]
  /\ \A h \in Hashes : owner[h] # NoNode => \E n \in OnRing : owner[h] = n /\ h \in PositionsOf(n)
  /\ \A n \in OnRing : \A h \in PositionsOf(n) : owner[h] = n /\ h \in Elements(ring)

\* A position is of one node only.
LEMMA PositionsApart ==
  ASSUME Apart, NEW n \in RingNode
  PROVE  /\ PositionsOf(n) \subseteq Hashes /\ PositionsOf(n) # {}
         /\ \A m \in RingNode \ {n} : PositionsOf(n) \cap PositionsOf(m) = {}
<1>1. 1 \in 1..VirtualNodes
  BY RingAssumption
<1>2. \A i \in 1..VirtualNodes : <<n, i>> \in Virtual
  BY DEF Virtual
<1>3. PositionsOf(n) \subseteq Hashes /\ PositionsOf(n) # {}
  <2>1. \A i \in 1..VirtualNodes : position[<<n, i>>] \in Hashes
    BY <1>2 DEF Apart
  <2> QED
    BY <1>1, <2>1 DEF PositionsOf
<1>4. ASSUME NEW m \in RingNode \ {n}, NEW h \in PositionsOf(n), h \in PositionsOf(m) PROVE FALSE
  <2>1. PICK i, j \in 1..VirtualNodes : h = position[<<n, i>>] /\ h = position[<<m, j>>]
    BY <1>4 DEF PositionsOf
  <2>2. <<n, i>> \in Virtual /\ <<m, j>> \in Virtual
    BY DEF Virtual
  <2>3. <<n, i>> = <<m, j>>
    BY <2>1, <2>2 DEF Apart
  <2> QED
    BY <2>3
<1> QED
  BY <1>3, <1>4

\* The ring begins empty, and the hash of no two virtual nodes is the same.
LEMMA RingInitially ==
  ASSUME RingInit
  PROVE  RingInv
<1>1. Apart
  BY DEF RingInit, Apart
<1>2. ring \in SortedList
  <2>1. <<>> \in Seq(Hashes) /\ Len(<<>>) = 0
    BY EmptySeq
  <2> QED
    BY <2>1 DEF RingInit, SortedList, Sorted
<1>3. OnRing = {} /\ adds \in [RingNode -> Nat]
  BY DEF RingInit, OnRing
<1>4. owner \in [Hashes -> RingNode \cup {NoNode}] /\ \A h \in Hashes : owner[h] = NoNode
  BY DEF RingInit
<1> QED
  BY <1>1, <1>2, <1>3, <1>4 DEF RingInv

\* add_node maps what it puts on the list, and takes nobody else's positions.
LEMMA AddKeeps ==
  ASSUME RingInv, NEW n \in RingNode, AddNode(n)
  PROVE  RingInv'
<1>1. position' = position /\ Apart' /\ \A m : PositionsOf(m)' = PositionsOf(m)
  BY DEF RingInv, AddNode, Apart, PositionsOf
<1>2. ring' \in SortedList /\ Elements(ring') = Elements(ring) \cup PositionsOf(n)
  BY InsertedIs DEF RingInv, AddNode
<1>3. adds' \in [RingNode -> Nat] /\ OnRing' = OnRing \cup {n}
  BY DEF RingInv, AddNode, OnRing
<1>4. /\ owner' \in [Hashes -> RingNode \cup {NoNode}]
      /\ \A h \in Hashes : owner'[h] = IF h \in PositionsOf(n) THEN n ELSE owner[h]
  BY DEF RingInv, AddNode
<1>5. ASSUME NEW h \in Hashes, owner'[h] # NoNode
      PROVE  \E m \in OnRing' : owner'[h] = m /\ h \in PositionsOf(m)
  <2>1. CASE h \in PositionsOf(n)
    BY <1>3, <1>4, <2>1
  <2>2. CASE h \notin PositionsOf(n)
    <3>1. PICK m \in OnRing : owner[h] = m /\ h \in PositionsOf(m)
      BY <1>4, <1>5, <2>2 DEF RingInv
    <3> QED
      BY <1>3, <1>4, <2>2, <3>1
  <2> QED
    BY <2>1, <2>2
<1>6. ASSUME NEW m \in OnRing', NEW h \in PositionsOf(m) PROVE owner'[h] = m /\ h \in Elements(ring')
  <2>1. m \in RingNode /\ h \in Hashes
    BY PositionsApart DEF RingInv, OnRing
  <2>2. CASE m = n
    BY <1>2, <1>4, <1>6, <2>1, <2>2
  <2>3. CASE m # n
    <3>1. h \notin PositionsOf(n) /\ m \in OnRing
      BY <1>3, <1>6, <2>1, <2>3, PositionsApart DEF RingInv
    <3> QED
      BY <1>2, <1>4, <1>6, <2>1, <3>1 DEF RingInv
  <2> QED
    BY <2>2, <2>3
<1> QED
  BY <1>1, <1>2, <1>3, <1>4, <1>5, <1>6 DEF RingInv

\* A node that is removed was on the ring.
LEMMA RemovedIsOn ==
  ASSUME RingInv, NEW n \in RingNode, RemoveNode(n)
  PROVE  n \in OnRing /\ PositionsOf(n) \subseteq Elements(ring)
<1>1. n \in OnRing
  <2>1. PICK h \in PositionsOf(n) : owner[h] # NoNode
    BY DEF RemoveNode
  <2>2. h \in Hashes
    BY PositionsApart DEF RingInv
  <2>3. PICK m \in OnRing : h \in PositionsOf(m)
    BY <2>1, <2>2 DEF RingInv
  <2>4. m = n
    BY <2>3, PositionsApart DEF RingInv, OnRing
  <2> QED
    BY <2>4
<1> QED
  BY <1>1 DEF RingInv

\* remove_node takes off the positions of the node and those only.
LEMMA RemoveKeeps ==
  ASSUME RingInv, NEW n \in RingNode, RemoveNode(n)
  PROVE  RingInv'
<1>1. position' = position /\ Apart' /\ \A m : PositionsOf(m)' = PositionsOf(m)
  BY DEF RingInv, RemoveNode, Apart, PositionsOf
<1>2. n \in OnRing /\ PositionsOf(n) \subseteq Elements(ring)
  BY RemovedIsOn
<1>3. ring' \in SortedList /\ Elements(ring) \ PositionsOf(n) \subseteq Elements(ring')
  BY <1>2, RemovedIs DEF RingInv, RemoveNode
<1>4. adds' \in [RingNode -> Nat] /\ OnRing' = OnRing \ {n}
  BY DEF RingInv, RemoveNode, OnRing
<1>5. /\ owner' \in [Hashes -> RingNode \cup {NoNode}]
      /\ \A h \in Hashes : owner'[h] = IF h \in PositionsOf(n) THEN NoNode ELSE owner[h]
  BY DEF RingInv, RemoveNode
<1>6. ASSUME NEW h \in Hashes, owner'[h] # NoNode
      PROVE  \E m \in OnRing' : owner'[h] = m /\ h \in PositionsOf(m)
  <2>1. h \notin PositionsOf(n) /\ owner'[h] = owner[h]
    BY <1>5, <1>6
  <2>2. PICK m \in OnRing : owner[h] = m /\ h \in PositionsOf(m)
    BY <1>6, <2>1 DEF RingInv
  <2> QED
    BY <1>4, <2>1, <2>2
<1>7. ASSUME NEW m \in OnRing', NEW h \in PositionsOf(m) PROVE owner'[h] = m /\ h \in Elements(ring')
  <2>1. m \in RingNode /\ m # n /\ m \in OnRing
    BY <1>4 DEF OnRing
  <2>2. h \in Hashes /\ h \notin PositionsOf(n)
    BY <2>1, PositionsApart DEF RingInv
  <2>3. owner[h] = m /\ h \in Elements(ring)
    BY <2>1 DEF RingInv
  <2> QED
    BY <1>3, <1>5, <2>2, <2>3
<1> QED
  BY <1>1, <1>3, <1>4, <1>5, <1>6, <1>7 DEF RingInv

\* What is put on the ring is found there until it is taken off, added twice or not.
THEOREM RingInvariance == RingSpec => []RingInv
<1>1. RingInit => RingInv
  BY RingInitially
<1>2. RingInv /\ [RingNext]_ringVars => RingInv'
  <2> SUFFICES ASSUME RingInv, [RingNext]_ringVars PROVE RingInv'
    OBVIOUS
  <2>1. CASE UNCHANGED ringVars
    <3>1. /\ position' = position /\ ring' = ring /\ owner' = owner /\ adds' = adds
          /\ OnRing' = OnRing /\ \A n : PositionsOf(n)' = PositionsOf(n)
          /\ Apart' = Apart
      BY <2>1 DEF ringVars, Apart, PositionsOf, OnRing
    <3> QED
      BY <3>1 DEF RingInv
  <2>2. ASSUME NEW n \in RingNode, AddNode(n) PROVE RingInv'
    BY <2>2, AddKeeps
  <2>3. ASSUME NEW n \in RingNode, RemoveNode(n) PROVE RingInv'
    BY <2>3, RemoveKeeps
  <2> QED
    BY <2>1, <2>2, <2>3 DEF RingNext
<1> QED
  BY <1>1, <1>2, PTL DEF RingSpec

-----------------------------------------------------------------------------
\* x is the first of P at or after h, going round.
First(P, h, x) ==
  /\ x \in P
  /\ IF x >= h THEN \A y \in P : y >= h => x <= y
     ELSE \A y \in P : y < h /\ x <= y

\* If all positions in the list are mapped, they are those of the nodes on the ring.
LEMMA ListIsPoints ==
  ASSUME RingInv, ~Spoilt
  PROVE  Elements(ring) = Points
<1>1. ASSUME NEW i \in 1..Len(ring) PROVE ring[i] \in Points
  <2>1. ring[i] \in Hashes /\ owner[ring[i]] # NoNode
    BY ElementOfSeq DEF RingInv, SortedList, Spoilt
  <2> QED
    BY <2>1 DEF RingInv, Points
<1>2. Points \subseteq Elements(ring)
  BY DEF RingInv, Points
<1> QED
  BY <1>1, <1>2 DEF Elements

\* get_node answers whose the next position is.
LEMMA GetNodeIsNext ==
  ASSUME RingInv, ~Spoilt, Points # {}, NEW h \in Hashes
  PROVE  \E x \in Points : First(Points, h, x) /\ GetNode(ring, owner, h) = owner[x]
<1>1. /\ Len(ring) \in Nat /\ h \in Nat
      /\ \A i \in 1..Len(ring) : ring[i] \in Nat
      /\ \A i, j \in 1..Len(ring) : i <= j => ring[i] <= ring[j]
  BY ElementOfSeq, RingAssumption DEF RingInv, SortedList, Sorted, Hashes
<1>2. Points = {ring[i] : i \in 1..Len(ring)}
  BY ListIsPoints DEF Elements
<1>3. Len(ring) # 0 /\ ring # <<>>
  BY <1>1, <1>2, EmptySeq
<1>4. PICK k \in 0..Len(ring) : /\ k = Below(ring, h)
                                /\ \A i \in 1..Len(ring) : ring[i] < h <=> i <= k
  BY Bisect DEF RingInv
<1>5. CASE k = Len(ring)
  <2>1. 1 \in 1..Len(ring) /\ \A i \in 1..Len(ring) : ring[i] < h /\ ring[1] <= ring[i]
    BY <1>1, <1>3, <1>4, <1>5
  <2>2. GetNode(ring, owner, h) = owner[ring[1]]
    BY <1>3, <1>4, <1>5 DEF GetNode
  <2>3. First(Points, h, ring[1])
    BY <1>1, <1>2, <2>1 DEF First
  <2> QED
    BY <2>2, <2>3 DEF First
<1>6. CASE k # Len(ring)
  <2>1. k + 1 \in 1..Len(ring) /\ ~(k + 1 <= k)
    BY <1>1, <1>4, <1>6
  <2>2. ring[k + 1] >= h
    BY <1>1, <1>4, <2>1
  <2>3. ASSUME NEW i \in 1..Len(ring), ring[i] >= h PROVE ring[k + 1] <= ring[i]
    <3>1. ~(i <= k)
      BY <1>1, <1>4, <2>3
    <3> QED
      BY <1>1, <1>4, <2>1, <3>1
  <2>4. GetNode(ring, owner, h) = owner[ring[k + 1]]
    BY <1>3, <1>4, <1>6 DEF GetNode
  <2>5. First(Points, h, ring[k + 1])
    BY <1>1, <1>2, <2>1, <2>2, <2>3 DEF First
  <2> QED
    BY <2>4, <2>5 DEF First
<1> QED
  BY <1>5, <1>6

\* So does Successor.
LEMMA SuccessorIsNext ==
  ASSUME RingInv, NEW h \in Hashes, NEW x \in Points, First(Points, h, x)
  PROVE  Successor(h) = owner[x]
<1>1. Points \in SUBSET Nat /\ h \in Nat
  BY PositionsApart, RingAssumption DEF RingInv, Points, OnRing, Hashes
<1> DEFINE after == {y \in Points : y >= h}
           Smallest(S) == CHOOSE y \in S : \A z \in S : y <= z
           at == IF after # {} THEN Smallest(after) ELSE Smallest(Points)
<1>2. at = x
  <2>1. CASE after # {}
    <3>1. x \in after /\ \A y \in after : x <= y
      <4>1. PICK y \in Points : y >= h
        BY <2>1
      <4>2. x >= h
        BY <1>1, <4>1 DEF First
      <4>3. \A z \in Points : z >= h => x <= z
        BY <1>1, <4>2 DEF First
      <4> QED
        BY <4>2, <4>3
    <3>2. ASSUME NEW y \in after, \A z \in after : y <= z PROVE y = x
      BY <1>1, <3>1, <3>2
    <3>3. Smallest(after) = x
      <4> HIDE DEF after
      <4> QED
        BY <3>1, <3>2
    <3> QED
      BY <2>1, <3>3
  <2>2. CASE after = {}
    <3>1. \A y \in Points : x <= y
      BY <1>1, <2>2 DEF First
    <3>2. ASSUME NEW y \in Points, \A z \in Points : y <= z PROVE y = x
      BY <1>1, <3>1, <3>2
    <3>3. Smallest(Points) = x
      BY <3>1, <3>2
    <3> QED
      BY <2>2, <3>3
  <2> QED
    BY <2>1, <2>2
<1>3. Successor(h) = CHOOSE n \in OnRing : at \in PositionsOf(n)
  BY DEF Successor
<1> HIDE DEF at
<1>4. PICK n \in OnRing : x \in PositionsOf(n)
  BY DEF Points
<1>5. owner[x] = n /\ \A m \in OnRing : x \in PositionsOf(m) => m = n
  BY <1>4 DEF RingInv
<1> QED
  BY <1>2, <1>3, <1>4, <1>5

\* Nodes that know the same peers agree on the owner of every key: it is the clockwise
\* next of the nodes on the ring, whichever were added and removed in whichever order.
THEOREM OwnersAreSuccessors == RingSpec => []OwnerIsSuccessor
<1>1. RingInv => OwnerIsSuccessor
  BY GetNodeIsNext, SuccessorIsNext DEF OwnerIsSuccessor
<1> QED
  BY <1>1, RingInvariance, PTL

\* A node that comes or goes leaves the positions of the others as they are.
LEMMA OthersStay ==
  ASSUME adds \in [RingNode -> Nat], NEW n \in RingNode, AddNode(n) \/ RemoveNode(n)
  PROVE  /\ \A m : PositionsOf(m)' = PositionsOf(m)
         /\ OnRing' \ {n} = OnRing \ {n}
         /\ \A m \in RingNode : adds'[m] # adds[m] => m = n
<1>1. position' = position
  BY DEF AddNode, RemoveNode
<1>2. \A m \in RingNode : m # n => adds'[m] = adds[m]
  BY DEF AddNode, RemoveNode
<1> QED
  BY <1>1, <1>2 DEF PositionsOf, OnRing

\* get_node answers with a node on the ring whose position is next.
NextOwns ==
  ~Spoilt /\ OnRing # {} =>
    \A h \in Hashes : \E x \in Points : /\ First(Points, h, x)
                                       /\ GetNode(ring, owner, h) \in OnRing
                                       /\ x \in PositionsOf(GetNode(ring, owner, h))

LEMMA OwnerIsNext ==
  ASSUME RingInv
  PROVE  NextOwns
<1> SUFFICES ASSUME ~Spoilt, OnRing # {}, NEW h \in Hashes
             PROVE  \E x \in Points : /\ First(Points, h, x)
                                     /\ GetNode(ring, owner, h) \in OnRing
                                     /\ x \in PositionsOf(GetNode(ring, owner, h))
  BY DEF NextOwns
<1>1. Points # {}
  BY PositionsApart DEF RingInv, Points, OnRing
<1>2. PICK x \in Points : First(Points, h, x) /\ GetNode(ring, owner, h) = owner[x]
  BY <1>1, GetNodeIsNext
<1>3. PICK n \in OnRing : x \in PositionsOf(n)
  BY DEF Points
<1>4. owner[x] = n
  BY <1>3 DEF RingInv
<1> QED
  BY <1>2, <1>3, <1>4

\* When a node comes or goes, keys move to it or from it only: a position that is next
\* before, of a node that is there before and after, is next after.
LEMMA StepMovesItsKeys ==
  ASSUME RingInv, NextOwns, NextOwns', [RingNext]_ringVars, NEW n \in RingNode, NEW h \in Hashes,
         ~Spoilt, ~Spoilt', OnRing # {}, OnRing' # {}, adds'[n] # adds[n],
         n # GetNode(ring, owner, h), n # GetNode(ring, owner, h)'
  PROVE  GetNode(ring, owner, h)' = GetNode(ring, owner, h)
<1>1. AddNode(n) \/ RemoveNode(n)
  <2>1. PICK m \in RingNode : AddNode(m) \/ RemoveNode(m)
    BY DEF RingNext, ringVars
  <2>2. m = n
    BY <2>1, OthersStay DEF RingInv
  <2> QED
    BY <2>1, <2>2
<1>2. (\A m : PositionsOf(m)' = PositionsOf(m)) /\ OnRing' \ {n} = OnRing \ {n}
  BY <1>1, OthersStay DEF RingInv
<1>3. PICK p, q : p = GetNode(ring, owner, h) /\ q = GetNode(ring, owner, h)'
  OBVIOUS
<1>4. PICK x \in Points : First(Points, h, x) /\ p \in OnRing /\ x \in PositionsOf(p)
  BY <1>3 DEF NextOwns
<1>5. PICK y \in Points' : First(Points', h, y) /\ q \in OnRing' /\ y \in PositionsOf(q)
  <2>1. \E y \in Points' : First(Points', h, y) /\ q \in OnRing' /\ y \in PositionsOf(q)'
    BY <1>3 DEF NextOwns
  <2> QED
    BY <1>2, <2>1
<1>6. x \in Points' /\ y \in Points /\ p \in RingNode /\ q \in RingNode
  <2>1. p \in OnRing' /\ q \in OnRing
    BY <1>2, <1>3, <1>4, <1>5
  <2>2. x \in PositionsOf(p)'
    BY <1>2, <1>4
  <2> QED
    BY <1>5, <2>1, <2>2, <1>4 DEF Points, OnRing
<1>7. x \in Nat /\ y \in Nat /\ h \in Nat
  BY <1>4, <1>5, <1>6, PositionsApart, RingAssumption DEF RingInv, Hashes
<1>8. x = y
  BY <1>4, <1>5, <1>6, <1>7 DEF First
<1>9. p = q
  BY <1>4, <1>5, <1>6, <1>8, PositionsApart DEF RingInv
<1> QED
  BY <1>3, <1>9

\* Consistency of the hashing: when a node comes or goes, keys move to it or from it
\* only.
THEOREM KeysStay == RingSpec => OnlyItsKeysMove
<1>1. RingInv => NextOwns
  BY OwnerIsNext
<1>2. RingInv /\ NextOwns /\ NextOwns' /\ [RingNext]_ringVars =>
        [\A n \in RingNode : \A h \in Hashes :
           ~Spoilt /\ ~Spoilt' /\ OnRing # {} /\ OnRing' # {} /\ adds'[n] # adds[n] =>
             \/ GetNode(ring, owner, h)' = GetNode(ring, owner, h)
             \/ n \in {GetNode(ring, owner, h), GetNode(ring, owner, h)'}]_ringVars
  <2> SUFFICES ASSUME RingInv, NextOwns, NextOwns', [RingNext]_ringVars,
                      NEW n \in RingNode, NEW h \in Hashes,
                      ~Spoilt, ~Spoilt', OnRing # {}, OnRing' # {}, adds'[n] # adds[n],
                      n \notin {GetNode(ring, owner, h), GetNode(ring, owner, h)'}
               PROVE  GetNode(ring, owner, h)' = GetNode(ring, owner, h)
    OBVIOUS
  <2> QED
    BY StepMovesItsKeys
<1> QED
  BY <1>1, <1>2, RingInvariance, PTL DEF RingSpec, OnlyItsKeysMove

-----------------------------------------------------------------------------
\* No node is on the ring twice.
Once == \A n \in RingNode : adds[n] <= 1

\* The list is what belongs to the nodes on the ring, and no more.
NoneLeft == Distinct(ring) /\ Elements(ring) = Points

\* A node added while it is not on the ring puts each of its positions there once.
LEMMA AddLeavesNone ==
  ASSUME RingInv, NoneLeft, NEW n \in RingNode, AddNode(n), Once'
  PROVE  NoneLeft'
<1>1. \A m : PositionsOf(m)' = PositionsOf(m)
  BY OthersStay DEF RingInv
<1>2. OnRing' = OnRing \cup {n} /\ n \notin OnRing
  <2>1. adds' = [adds EXCEPT ![n] = @ + 1] /\ adds \in [RingNode -> Nat]
    BY DEF RingInv, AddNode
  <2>2. adds[n] = 0
    BY <2>1 DEF Once
  <2> QED
    BY <2>1, <2>2 DEF OnRing
<1>3. Points' = Points \cup PositionsOf(n)
  BY <1>1, <1>2 DEF Points
<1>4. PositionsOf(n) \cap Points = {}
  <2>1. \A m \in OnRing : PositionsOf(n) \cap PositionsOf(m) = {}
    BY <1>2, PositionsApart DEF RingInv, OnRing
  <2> QED
    BY <2>1 DEF Points
<1>5. Distinct(ring') /\ Elements(ring') = Elements(ring) \cup PositionsOf(n)
  <2>1. Apart /\ ring \in SortedList /\ ring' = Inserted(n)
    BY DEF RingInv, AddNode
  <2> QED
    BY <1>4, <2>1, InsertedIs DEF NoneLeft
<1> QED
  BY <1>3, <1>5 DEF NoneLeft

\* A node that is there once leaves nothing behind.
LEMMA RemoveLeavesNone ==
  ASSUME RingInv, NoneLeft, NEW n \in RingNode, RemoveNode(n)
  PROVE  NoneLeft'
<1>1. \A m : PositionsOf(m)' = PositionsOf(m)
  BY OthersStay DEF RingInv
<1>2. OnRing' = OnRing \ {n}
  BY DEF RingInv, RemoveNode, OnRing
<1>3. PositionsOf(n) \subseteq Elements(ring)
  BY RemovedIsOn DEF RingInv
<1>4. Points' = Points \ PositionsOf(n)
  <2>1. \A m \in OnRing \ {n} : PositionsOf(n) \cap PositionsOf(m) = {}
    BY PositionsApart DEF RingInv, OnRing
  <2>2. Points' = UNION {PositionsOf(m) : m \in OnRing \ {n}}
    BY <1>1, <1>2 DEF Points
  <2>3. ASSUME NEW x \in Points \ PositionsOf(n) PROVE x \in Points'
    <3>1. PICK m \in OnRing : x \in PositionsOf(m)
      BY DEF Points
    <3> QED
      BY <2>2, <3>1
  <2>4. ASSUME NEW x \in Points' PROVE x \in Points \ PositionsOf(n)
    <3>1. PICK m \in OnRing \ {n} : x \in PositionsOf(m)
      BY <2>2
    <3> QED
      BY <2>1, <3>1 DEF Points
  <2> QED
    BY <2>3, <2>4
<1>5. /\ Distinct(ring')
      /\ Elements(ring') \subseteq Elements(ring) \ PositionsOf(n)
      /\ Elements(ring) \ PositionsOf(n) \subseteq Elements(ring')
  <2>1. Apart /\ ring \in SortedList /\ ring' = Removed(n)
    BY DEF RingInv, RemoveNode
  <2> QED
    BY <1>3, <2>1, RemovedIs DEF NoneLeft
<1> QED
  BY <1>4, <1>5 DEF NoneLeft

\* As long as no node is added while it is on the ring, whatever is on the ring belongs
\* to a node, and the owner of every key is the clockwise next.
THEOREM OnceIsMapped ==
  RingSpec /\ []Once =>
    [](~Spoilt /\ (Points # {} => \A h \in Hashes : GetNode(ring, owner, h) = Successor(h)))
<1>1. RingInit => NoneLeft
  <2> SUFFICES ASSUME RingInit PROVE NoneLeft
    OBVIOUS
  <2>1. Len(ring) = 0 /\ OnRing = {}
    BY EmptySeq DEF RingInit, OnRing
  <2> QED
    BY <2>1 DEF NoneLeft, Distinct, Elements, Points
<1>2. RingInv /\ NoneLeft /\ Once' /\ [RingNext]_ringVars => NoneLeft'
  <2> SUFFICES ASSUME RingInv, NoneLeft, Once', [RingNext]_ringVars PROVE NoneLeft'
    OBVIOUS
  <2>1. CASE UNCHANGED ringVars
    <3>1. ring' = ring /\ Points' = Points
      BY <2>1 DEF ringVars, Points, OnRing, PositionsOf
    <3> QED
      BY <3>1 DEF NoneLeft
  <2>2. ASSUME NEW n \in RingNode, AddNode(n) PROVE NoneLeft'
    BY <2>2, AddLeavesNone
  <2>3. ASSUME NEW n \in RingNode, RemoveNode(n) PROVE NoneLeft'
    BY <2>3, RemoveLeavesNone
  <2> QED
    BY <2>1, <2>2, <2>3 DEF RingNext
<1>3. RingInv /\ NoneLeft => ~Spoilt
  <2> SUFFICES ASSUME RingInv, NoneLeft, NEW i \in 1..Len(ring) PROVE owner[ring[i]] # NoNode
    BY DEF Spoilt
  <2>1. ring[i] \in Points
    BY DEF NoneLeft, Elements
  <2>2. PICK n \in OnRing : ring[i] \in PositionsOf(n)
    BY <2>1 DEF Points
  <2>3. owner[ring[i]] = n /\ n \in RingNode
    BY <2>2 DEF RingInv, OnRing
  <2> QED
    BY <2>3, RingAssumption
<1>4. OwnerIsSuccessor /\ ~Spoilt =>
        (Points # {} => \A h \in Hashes : GetNode(ring, owner, h) = Successor(h))
  BY DEF OwnerIsSuccessor
<1> QED
  BY <1>1, <1>2, <1>3, <1>4, RingInvariance, OwnersAreSuccessors, PTL DEF RingSpec

-----------------------------------------------------------------------------
(***************************************************************************)
(* The histogram.  What is added up for p99 are counts that each hold what *)
(* was observed below: no less than what should be added up.               *)
(***************************************************************************)

\* The running total goes up by the next bucket.
LEMMA Total ==
  ASSUME NEW f, \A b \in 1..Buckets : f[b] \in Nat
  PROVE  /\ SumUpTo(f, 0) = 0
         /\ \A b \in 1..Buckets : SumUpTo(f, b) = SumUpTo(f, b - 1) + f[b]
         /\ \A b \in 0..Buckets : SumUpTo(f, b) \in Nat
<1>1. Buckets \in Nat
  BY HistogramAssumption
<1> DEFINE step == [x \in Nat \X Nat |-> IF x[2] \in 1..Buckets THEN x[1] + f[x[2]] ELSE x[1]]
           Loop(g) == g = [i \in 0..Buckets |-> IF i = 0 THEN 0 ELSE g[i - 1] + f[i]]
           total == CHOOSE g : Loop(g)
<1>2. step \in [Nat \X Nat -> Nat]
  OBVIOUS
<1>3. \E g : Loop(g)
  <2>1. PICK turn : turn = step
    OBVIOUS
  <2>2. PICK g : IsLoop(g, Buckets, Nat, 0, turn)
    <3>1. turn \in [Nat \X Nat -> Nat]
      BY <1>2, <2>1
    <3> QED
      BY <1>1, <3>1, LoopExists
  <2>3. g \in [0..Buckets -> Nat] /\ g[0] = 0 /\ \A i \in 1..Buckets : g[i] = step[<<g[i - 1], i>>]
    BY <2>1, <2>2 DEF IsLoop
  <2>4. ASSUME NEW i \in 1..Buckets PROVE g[i] = g[i - 1] + f[i]
    <3>1. <<g[i - 1], i>> \in Nat \X Nat
      BY <1>1, <2>3
    <3> QED
      BY <2>3, <3>1
  <2>5. g = [i \in 0..Buckets |-> IF i = 0 THEN 0 ELSE g[i - 1] + f[i]]
    BY <1>1, <2>3, <2>4
  <2> QED
    BY <2>5
<1>4. Loop(total)
  <2> HIDE DEF Loop
  <2> QED
    BY <1>3
<1>5. \A b : SumUpTo(f, b) = total[b]
  BY DEF SumUpTo
<1> HIDE DEF total
<1>6. total[0] = 0 /\ \A b \in 1..Buckets : total[b] = total[b - 1] + f[b]
  <2>1. 0 \in 0..Buckets /\ \A b \in 1..Buckets : b \in 0..Buckets /\ b # 0
    BY <1>1
  <2> QED
    BY <1>4, <2>1
<1> DEFINE T == {b \in 0..Buckets : total[b] \in Nat}
<1>7. 0 \in T
  BY <1>1, <1>6
<1>8. \A b \in 1..Buckets : b - 1 \in T => b \in T
  BY <1>1, <1>6
<1>9. \A b \in 0..Buckets : b \in T
  <2> HIDE DEF T
  <2> QED
    BY <1>1, <1>7, <1>8, Turns
<1> QED
  BY <1>5, <1>6, <1>9

\* It is no less than any of the buckets in it, and than the total of less.
LEMMA TotalBounds ==
  ASSUME NEW f, \A b \in 1..Buckets : f[b] \in Nat,
         NEW g, \A b \in 1..Buckets : g[b] \in Nat /\ g[b] <= f[b]
  PROVE  /\ \A b \in 0..Buckets : SumUpTo(g, b) <= SumUpTo(f, b)
         /\ \A b \in 1..Buckets : \A c \in 1..b : f[c] <= SumUpTo(f, b)
<1>1. Buckets \in Nat
  BY HistogramAssumption
<1>2. PICK F, G : F = [b \in 0..Buckets |-> SumUpTo(f, b)] /\ G = [b \in 0..Buckets |-> SumUpTo(g, b)]
  OBVIOUS
<1>3. /\ F \in [0..Buckets -> Nat] /\ F[0] = 0 /\ \A b \in 1..Buckets : F[b] = F[b - 1] + f[b]
      /\ G \in [0..Buckets -> Nat] /\ G[0] = 0 /\ \A b \in 1..Buckets : G[b] = G[b - 1] + g[b]
  <2>1. 0 \in 0..Buckets /\ \A b \in 1..Buckets : b \in 0..Buckets /\ b - 1 \in 0..Buckets
    BY <1>1
  <2> QED
    BY <1>2, <2>1, Total
<1> DEFINE T == {b \in 0..Buckets : G[b] <= F[b] /\ \A c \in 1..b : f[c] <= F[b]}
<1>4. 0 \in T
  BY <1>1, <1>3
<1>5. ASSUME NEW b \in 1..Buckets, b - 1 \in T PROVE b \in T
  <2>1. b \in 0..Buckets /\ b - 1 \in 0..Buckets
    BY <1>1
  <2>2. F[b] = F[b - 1] + f[b] /\ G[b] = G[b - 1] + g[b] /\ G[b - 1] <= F[b - 1]
    BY <1>3, <1>5
  <2>3. /\ F[b] \in Nat /\ F[b - 1] \in Nat /\ f[b] \in Nat
        /\ G[b] \in Nat /\ G[b - 1] \in Nat /\ g[b] \in Nat /\ g[b] <= f[b]
    BY <1>3, <2>1
  <2>4. ASSUME NEW c \in 1..b PROVE f[c] <= F[b]
    <3>1. c = b \/ c \in 1..b - 1
      BY <1>1
    <3>2. f[c] \in Nat
      BY <1>1
    <3> QED
      BY <1>5, <2>2, <2>3, <3>1, <3>2
  <2> QED
    BY <2>1, <2>2, <2>3, <2>4
<1>6. \A b \in 0..Buckets : b \in T
  <2> HIDE DEF T
  <2> QED
    BY <1>1, <1>4, <1>5, Turns
<1>7. \A b \in 0..Buckets : F[b] = SumUpTo(f, b) /\ G[b] = SumUpTo(g, b)
  BY <1>2
<1>8. \A b \in 1..Buckets : b \in 0..Buckets
  BY <1>1
<1> QED
  BY <1>6, <1>7, <1>8

\* A bucket counts what was observed in it, and counts nothing unless something was in
\* it or below.
HistogramInv ==
  /\ count \in Nat
  /\ bucket \in [1..Buckets -> Nat]
  /\ observed \in [Class -> Nat]
  /\ \A b \in 1..Buckets : observed[b] <= bucket[b]
  /\ \A b \in 1..Buckets : bucket[b] > 0 => \E c \in 1..b : observed[c] > 0

\* Whatever is observed, HistogramInv stays true.
LEMMA HistogramInvariance == HistogramSpec => []HistogramInv
<1>0. Buckets \in Nat /\ \A b \in 1..Buckets : b \in Class /\ \A c \in 1..b : c \in Class
  BY HistogramAssumption DEF Class
<1>1. HistogramInit => HistogramInv
  BY <1>0 DEF HistogramInit, HistogramInv, Class
<1>2. HistogramInv /\ [HistogramNext]_histogramVars => HistogramInv'
  <2> SUFFICES ASSUME HistogramInv, [HistogramNext]_histogramVars PROVE HistogramInv'
    OBVIOUS
  <2>1. CASE UNCHANGED histogramVars
    BY <2>1 DEF HistogramInv, histogramVars
  <2>2. ASSUME NEW x \in Class, Observe(x) PROVE HistogramInv'
    <3>1. x \in Nat /\ observed \in [Class -> Nat] /\ bucket \in [1..Buckets -> Nat]
      BY <1>0 DEF HistogramInv, Class
    <3>2. /\ count' \in Nat
          /\ bucket' \in [1..Buckets -> Nat]
          /\ observed' \in [Class -> Nat]
          /\ \A b \in 1..Buckets : bucket'[b] = bucket[b] + IF x <= b THEN 1 ELSE 0
          /\ \A c \in Class : observed'[c] = IF c = x THEN observed[c] + 1 ELSE observed[c]
      BY <2>2, <3>1 DEF HistogramInv, Observe, Takes
    <3>3. ASSUME NEW b \in 1..Buckets PROVE observed'[b] <= bucket'[b]
      <4>1. b \in Class /\ observed[b] \in Nat /\ bucket[b] \in Nat /\ observed[b] <= bucket[b] /\ b \in Nat
        BY <1>0, <3>1 DEF HistogramInv
      <4> QED
        BY <3>1, <3>2, <4>1
    <3>4. ASSUME NEW b \in 1..Buckets, bucket'[b] > 0 PROVE \E c \in 1..b : observed'[c] > 0
      <4>1. CASE x <= b
        <5>1. x \in 1..b /\ observed[x] \in Nat /\ observed'[x] = observed[x] + 1
          BY <1>0, <3>1, <3>2, <4>1 DEF Class
        <5> QED
          BY <5>1
      <4>2. CASE ~(x <= b)
        <5>1. bucket[b] \in Nat /\ bucket'[b] = bucket[b]
          BY <3>1, <3>2, <4>2
        <5>2. PICK c \in 1..b : observed[c] > 0
          BY <3>4, <5>1 DEF HistogramInv
        <5>3. c \in Class /\ c # x
          BY <1>0, <3>1, <4>2
        <5> QED
          BY <3>2, <5>2, <5>3
      <4> QED
        BY <4>1, <4>2
    <3> QED
      BY <3>2, <3>3, <3>4 DEF HistogramInv
  <2> QED
    BY <2>1, <2>2 DEF HistogramNext
<1> QED
  BY <1>1, <1>2, PTL DEF HistogramSpec

\* Where a running total gets to 99 % of the count
LEMMA FirstParts ==
  ASSUME NEW f
  PROVE  /\ FirstAtLeast(f) \in 1..Buckets
         /\ FirstAtLeast(f) # Buckets =>
              100 * SumUpTo(f, FirstAtLeast(f)) >= 99 * count
         /\ \A b \in 1..Buckets : 100 * SumUpTo(f, b) >= 99 * count => FirstAtLeast(f) <= b
<1>1. Buckets \in Nat \ {0}
  BY HistogramAssumption
<1> DEFINE enough == {b \in 1..Buckets : 100 * SumUpTo(f, b) >= 99 * count}
<1>2. FirstAtLeast(f) = IF enough = {} THEN Buckets ELSE Min(enough)
  BY DEF FirstAtLeast
<1>3. CASE enough = {}
  BY <1>1, <1>2, <1>3
<1>4. CASE enough # {}
  <2>1. \E x \in enough : \A y \in enough : x <= y
    <3>1. enough \in SUBSET Nat
      BY <1>1
    <3> HIDE DEF enough
    <3> QED
      BY <1>4, <3>1, Least
  <2>2. Min(enough) \in enough /\ \A y \in enough : Min(enough) <= y
    <3> HIDE DEF enough
    <3> QED
      BY <2>1 DEF Min
  <2> QED
    BY <1>2, <1>4, <2>2
<1> QED
  BY <1>3, <1>4

\* What p99 reports is never above the 99th percentile, and nothing but a bucket that
\* something was observed in or below.
THEOREM P99IsBelow == HistogramSpec => []P99IsALowerBound
<1>1. HistogramInv => P99IsALowerBound
  <2> SUFFICES ASSUME HistogramInv, count > 0
               PROVE  P99 <= Percentile99 /\ (P99 < Buckets => SumUpTo(observed, P99) > 0)
    BY DEF P99IsALowerBound
  <2>1. /\ Buckets \in Nat /\ count \in Nat
        /\ \A b \in 1..Buckets : bucket[b] \in Nat /\ observed[b] \in Nat /\ observed[b] <= bucket[b]
    BY HistogramAssumption DEF HistogramInv, Class
  <2>2. P99 = FirstAtLeast(bucket) /\ Percentile99 = FirstAtLeast(observed)
    BY <2>1 DEF P99, Percentile99
  <2>3. P99 \in 1..Buckets /\ Percentile99 \in 1..Buckets
    BY <2>2, FirstParts
  <2>4. P99 <= Percentile99
    <3>1. CASE Percentile99 = Buckets
      BY <2>1, <2>3, <3>1
    <3>2. CASE Percentile99 # Buckets
      <4>1. PICK b \in 1..Buckets : b = Percentile99
        BY <2>3
      <4>2. 100 * SumUpTo(observed, b) >= 99 * count
        BY <2>2, <3>2, <4>1, FirstParts
      <4>3. /\ SumUpTo(observed, b) \in Nat /\ SumUpTo(bucket, b) \in Nat
            /\ SumUpTo(observed, b) <= SumUpTo(bucket, b)
        <5>1. b \in 0..Buckets
          BY <2>1
        <5> QED
          BY <2>1, <5>1, Total, TotalBounds
      <4>4. 100 * SumUpTo(bucket, b) >= 99 * count
        BY <2>1, <4>2, <4>3
      <4> QED
        BY <2>2, <4>1, <4>4, FirstParts
    <3> QED
      BY <3>1, <3>2
  <2>5. ASSUME P99 < Buckets PROVE SumUpTo(observed, P99) > 0
    <3>1. PICK b \in 1..Buckets : b = P99
      BY <2>3
    <3>2. 100 * SumUpTo(bucket, b) >= 99 * count
      <4>1. P99 # Buckets
        BY <2>1, <2>3, <2>5
      <4> QED
        BY <2>2, <3>1, <4>1, FirstParts
    <3>3. SumUpTo(bucket, b) # 0
      BY <2>1, <3>2
    <3>4. \E d \in 1..b : bucket[d] > 0
      <4> DEFINE T == {k \in 0..Buckets : (\A d \in 1..k : bucket[d] = 0) => SumUpTo(bucket, k) = 0}
      <4>1. 0 \in T
        BY <2>1, Total
      <4>2. ASSUME NEW k \in 1..Buckets, k - 1 \in T PROVE k \in T
        <5>1. SumUpTo(bucket, k) = SumUpTo(bucket, k - 1) + bucket[k]
          BY <2>1, Total
        <5>2. k \in 0..Buckets /\ k \in 1..k /\ \A d \in 1..k - 1 : d \in 1..k
          BY <2>1
        <5> QED
          BY <2>1, <4>2, <5>1, <5>2
      <4>3. b \in T
        <5>1. b \in 0..Buckets
          BY <2>1
        <5> HIDE DEF T
        <5> QED
          BY <2>1, <4>1, <4>2, <5>1, Turns
      <4>4. PICK d \in 1..b : bucket[d] # 0
        BY <3>3, <4>3
      <4>5. d \in 1..Buckets /\ bucket[d] \in Nat
        BY <2>1
      <4> QED
        BY <4>4, <4>5
    <3>5. PICK d \in 1..b : bucket[d] > 0
      BY <3>4
    <3>6. PICK c \in 1..d : observed[c] > 0
      <4>1. d \in 1..Buckets
        BY <2>1
      <4> QED
        BY <3>5, <4>1 DEF HistogramInv
    <3>7. c \in 1..b /\ c \in 1..Buckets
      BY <2>1
    <3>8. observed[c] <= SumUpTo(observed, b)
      BY <2>1, <3>7, TotalBounds
    <3>9. SumUpTo(observed, b) \in Nat /\ observed[c] \in Nat
      <4>1. b \in 0..Buckets
        BY <2>1
      <4> QED
        BY <2>1, <3>7, <4>1, Total
    <3> QED
      BY <3>1, <3>6, <3>8, <3>9
  <2> QED
    BY <2>4, <2>5
<1> QED
  BY <1>1, HistogramInvariance, PTL
=============================================================================
