-------------------------- MODULE CacheNodeProofs --------------------------
(***************************************************************************)
(* Proofs about CacheNode, for any nodes, keys, writes and faults and any  *)
(* capacity.  The first part follows one cache through what LRUCache does  *)
(* with it; the second is about the calls between the nodes.               *)
(***************************************************************************)
EXTENDS CacheNode, SequenceTheorems, TLAPS

-----------------------------------------------------------------------------
(* One cache *)

\* One entry per key
Distinct(c) == \A i, j \in 1..Len(c) : c[i].key = c[j].key => i = j

Cached(c) == c \in Seq(Entry) /\ Len(c) <= Capacity /\ Distinct(c)

\* d is what is left of the cache c without an entry for k.
Rest(c, k, d) ==
  /\ d \in Seq(Entry)
  /\ Distinct(d)
  /\ \A i \in 1..Len(d) : d[i].key # k /\ \E j \in 1..Len(c) : d[i] = c[j]

\* The entries of a cache as a set
LEMMA RangeOf ==
  ASSUME NEW c \in Seq(Entry)
  PROVE  /\ Len(c) \in Nat /\ DOMAIN c = 1..Len(c)
         /\ \A i \in 1..Len(c) : c[i] \in Entry
         /\ \A e : e \in Range(c) <=> \E i \in 1..Len(c) : e = c[i]
<1>1. Len(c) \in Nat /\ DOMAIN c = 1..Len(c) /\ c \in [1..Len(c) -> Entry]
  BY LenProperties
<1> QED
  BY <1>1 DEF Range

\* Where a key is, and what is there
LEMMA PlaceParts ==
  ASSUME NEW c \in Seq(Entry), NEW k, Has(c, k)
  PROVE  /\ Place(c, k) \in 1..Len(c)
         /\ Get(c, k) \in Entry /\ Get(c, k).key = k /\ Get(c, k) \in Range(c)
<1>1. \E i \in DOMAIN c : c[i].key = k
  BY RangeOf DEF Has
<1>2. Place(c, k) \in DOMAIN c /\ c[Place(c, k)].key = k
  BY <1>1 DEF Place
<1> QED
  BY <1>2, RangeOf DEF Get

\* One entry is taken out of a cache.
LEMMA RemoveParts ==
  ASSUME NEW c \in Seq(Entry), NEW p \in 1..Len(c)
  PROVE  /\ RemoveAt(c, p) \in Seq(Entry)
         /\ Len(RemoveAt(c, p)) = Len(c) - 1
         /\ \A i \in 1..Len(c) - 1 : RemoveAt(c, p)[i] = IF i < p THEN c[i] ELSE c[i + 1]
<1>1. PICK n : n = Len(c)
  OBVIOUS
<1>2. n \in Nat /\ p \in 1..n /\ \A i \in 1..n : c[i] \in Entry
  BY <1>1, RangeOf
<1>3. PICK s, t : s = SubSeq(c, 1, p - 1) /\ t = SubSeq(c, p + 1, n)
  OBVIOUS
<1>4. s \in Seq(Entry) /\ Len(s) = p - 1 /\ \A i \in 1..p - 1 : s[i] = c[i]
  <2>1. 1 \in Int /\ p - 1 \in Int /\ \A i \in 1..p - 1 : c[i] \in Entry
    BY <1>2
  <2>2. /\ s \in Seq(Entry)
        /\ Len(s) = IF 1 <= p - 1 THEN (p - 1) - 1 + 1 ELSE 0
        /\ \A i \in 1..(p - 1) - 1 + 1 : s[i] = c[1 + i - 1]
    BY <1>3, <2>1, SubSeqProperties
  <2>3. \A i \in 1..p - 1 : i \in 1..(p - 1) - 1 + 1 /\ 1 + i - 1 = i
    BY <1>2
  <2>4. Len(s) = p - 1
    BY <1>2, <2>2
  <2> QED
    BY <2>2, <2>3, <2>4
<1>5. t \in Seq(Entry) /\ Len(t) = n - p /\ \A i \in 1..n - p : t[i] = c[p + i]
  <2>1. p + 1 \in Int /\ n \in Int /\ \A i \in p + 1..n : c[i] \in Entry
    BY <1>2
  <2>2. /\ t \in Seq(Entry)
        /\ Len(t) = IF p + 1 <= n THEN n - (p + 1) + 1 ELSE 0
        /\ \A i \in 1..n - (p + 1) + 1 : t[i] = c[(p + 1) + i - 1]
    BY <1>3, <2>1, SubSeqProperties
  <2>3. \A i \in 1..n - p : i \in 1..n - (p + 1) + 1 /\ (p + 1) + i - 1 = p + i
    BY <1>2
  <2>4. Len(t) = n - p
    BY <1>2, <2>2
  <2> QED
    BY <2>2, <2>3, <2>4
<1>6. RemoveAt(c, p) = s \o t
  BY <1>1, <1>3 DEF RemoveAt
<1>7. /\ s \o t \in Seq(Entry)
      /\ Len(s \o t) = Len(s) + Len(t)
      /\ \A i \in 1..Len(s) + Len(t) : (s \o t)[i] = IF i <= Len(s) THEN s[i] ELSE t[i - Len(s)]
  BY <1>4, <1>5, ConcatProperties
<1>8. Len(s) + Len(t) = n - 1
  BY <1>2, <1>4, <1>5
<1>9. ASSUME NEW i \in 1..n - 1 PROVE (s \o t)[i] = IF i < p THEN c[i] ELSE c[i + 1]
  <2>1. CASE i < p
    <3>1. i <= Len(s) /\ i \in 1..p - 1
      BY <1>2, <1>4, <2>1
    <3> QED
      BY <1>4, <1>7, <1>8, <2>1, <3>1
  <2>2. CASE ~(i < p)
    <3>1. ~(i <= Len(s)) /\ i - Len(s) \in 1..n - p /\ p + (i - Len(s)) = i + 1
      BY <1>2, <1>4, <2>2
    <3> QED
      BY <1>5, <1>7, <1>8, <2>2, <3>1
  <2> QED
    BY <2>1, <2>2
<1> QED
  BY <1>1, <1>6, <1>7, <1>8, <1>9

\* A cache without its entry for k has one entry less, if it had one.
LEMMA WithoutParts ==
  ASSUME NEW c, Cached(c), NEW k
  PROVE  /\ Rest(c, k, Without(c, k))
         /\ Len(Without(c, k)) = IF Has(c, k) THEN Len(c) - 1 ELSE Len(c)
<1>1. CASE ~Has(c, k)
  BY <1>1, RangeOf DEF Cached, Rest, Without, Has
<1>2. CASE Has(c, k)
  <2>1. PICK n, p : n = Len(c) /\ p = Place(c, k)
    OBVIOUS
  <2>2. p \in 1..n /\ n \in Nat /\ c[p].key = k
    BY <1>2, <2>1, PlaceParts, RangeOf DEF Cached, Get
  <2>3. PICK d : d = Without(c, k)
    OBVIOUS
  <2>4. d \in Seq(Entry) /\ Len(d) = n - 1 /\ \A i \in 1..n - 1 : d[i] = IF i < p THEN c[i] ELSE c[i + 1]
    BY <1>2, <2>1, <2>2, <2>3, RemoveParts DEF Without, Cached
  <2>5. \A i, j \in 1..n : c[i].key = c[j].key => i = j
    BY <2>1 DEF Cached, Distinct
  <2>6. ASSUME NEW i \in 1..n - 1
        PROVE  \E j \in 1..n : d[i] = c[j] /\ j # p /\ j = IF i < p THEN i ELSE i + 1
    <3>1. i \in 1..n /\ i + 1 \in 1..n
      BY <2>2
    <3> QED
      BY <2>2, <2>4, <3>1
  <2>7. \A i \in 1..n - 1 : d[i].key # k /\ \E j \in 1..n : d[i] = c[j]
    BY <2>2, <2>5, <2>6
  <2>8. ASSUME NEW i \in 1..n - 1, NEW j \in 1..n - 1, d[i].key = d[j].key PROVE i = j
    <3>1. (IF i < p THEN i ELSE i + 1) = (IF j < p THEN j ELSE j + 1)
      BY <2>5, <2>6, <2>8
    <3> QED
      BY <2>2, <3>1
  <2> QED
    BY <1>2, <2>1, <2>3, <2>4, <2>7, <2>8 DEF Rest, Distinct
<1> QED
  BY <1>1, <1>2

\* The least recently used entry is pushed out.
LEMMA TailParts ==
  ASSUME NEW c, Cached(c), NEW k, ~Has(c, k), Len(c) \in Nat \ {0}
  PROVE  Rest(c, k, Tail(c)) /\ Len(Tail(c)) = Len(c) - 1
<1>1. PICK n, d : n = Len(c) /\ d = Tail(c)
  OBVIOUS
<1>2. c \in Seq(Entry) /\ c # <<>>
  BY EmptySeq DEF Cached
<1>3. d \in Seq(Entry) /\ Len(d) = n - 1 /\ \A i \in 1..n - 1 : d[i] = c[i + 1]
  BY <1>1, <1>2, HeadTailProperties
<1>4. \A i \in 1..n - 1 : i + 1 \in 1..n
  BY <1>1
<1>5. \A i, j \in 1..n : c[i].key = c[j].key => i = j
  BY <1>1 DEF Cached, Distinct
<1>6. \A i \in 1..n : c[i].key # k
  BY <1>1, <1>2, RangeOf DEF Has
<1>7. ASSUME NEW i \in 1..n - 1, NEW j \in 1..n - 1, d[i].key = d[j].key PROVE i = j
  <2>1. i + 1 = j + 1
    BY <1>3, <1>4, <1>5, <1>7
  <2> QED
    BY <2>1
<1>8. \A i \in 1..n - 1 : d[i].key # k /\ \E j \in 1..n : d[i] = c[j]
  BY <1>3, <1>4, <1>6
<1> QED
  BY <1>1, <1>3, <1>7, <1>8 DEF Rest, Distinct

\* An entry is put where there is room for it and none of its key.
LEMMA AppendCached ==
  ASSUME NEW c, Cached(c), NEW e \in Entry, NEW d, Rest(c, e.key, d), Len(d) < Capacity
  PROVE  /\ Cached(Append(d, e))
         /\ \A x \in Range(Append(d, e)) : x = e \/ (x \in Range(c) /\ x.key # e.key)
<1>1. PICK n, a : n = Len(d) /\ a = Append(d, e)
  OBVIOUS
<1>2. n \in Nat /\ a \in Seq(Entry) /\ Len(a) = n + 1 /\ a[n + 1] = e /\ \A i \in 1..n : a[i] = d[i]
  BY <1>1, AppendProperties, LenProperties DEF Rest
<1>3. \A i \in 1..n + 1 : i \in 1..n \/ i = n + 1
  BY <1>2
<1>4. \A i \in 1..n : d[i].key # e.key /\ \E j \in 1..Len(c) : d[i] = c[j]
  BY <1>1 DEF Rest
<1>5. \A i, j \in 1..n : d[i].key = d[j].key => i = j
  BY <1>1 DEF Rest, Distinct
<1>6. Distinct(a)
  BY <1>2, <1>3, <1>4, <1>5 DEF Distinct
<1>7. n + 1 <= Capacity
  BY <1>1, <1>2, CacheAssumption
<1>8. ASSUME NEW x \in Range(a) PROVE x = e \/ (x \in Range(c) /\ x.key # e.key)
  <2>1. PICK i \in 1..n + 1 : x = a[i]
    BY <1>2, RangeOf
  <2>2. CASE i \in 1..n
    BY <1>2, <1>4, <2>1, <2>2, RangeOf DEF Cached
  <2>3. CASE i = n + 1
    BY <1>2, <2>1, <2>3
  <2> QED
    BY <1>3, <2>2, <2>3
<1> QED
  BY <1>1, <1>2, <1>6, <1>7, <1>8 DEF Cached

\* put: within the capacity, one entry per key, and no other entry is new.
LEMMA PutCached ==
  ASSUME NEW c, Cached(c), NEW e \in Entry
  PROVE  /\ Cached(Put(c, e))
         /\ \A x \in Range(Put(c, e)) : x = e \/ (x \in Range(c) /\ x.key # e.key)
<1>1. Len(c) \in Nat /\ Capacity \in Nat \ {0} /\ Len(c) <= Capacity
  BY CacheAssumption, LenProperties DEF Cached
<1>2. CASE Has(c, e.key) \/ Len(c) < Capacity
  <2>1. Rest(c, e.key, Without(c, e.key)) /\ Len(Without(c, e.key)) < Capacity
    BY <1>1, <1>2, WithoutParts
  <2> QED
    BY <1>2, <2>1, AppendCached DEF Put
<1>3. CASE ~(Has(c, e.key) \/ Len(c) < Capacity)
  <2>1. Rest(c, e.key, Tail(c)) /\ Len(Tail(c)) < Capacity
    BY <1>1, <1>3, TailParts
  <2> QED
    BY <1>3, <2>1, AppendCached DEF Put
<1> QED
  BY <1>2, <1>3

\* get: the same entries in another order
LEMMA TouchCached ==
  ASSUME NEW c, Cached(c), NEW k
  PROVE  Cached(Touch(c, k)) /\ Range(Touch(c, k)) \subseteq Range(c)
<1>1. CASE ~Has(c, k)
  BY <1>1 DEF Touch
<1>2. CASE Has(c, k)
  <2>1. Get(c, k) \in Entry /\ Get(c, k).key = k /\ Get(c, k) \in Range(c)
    BY <1>2, PlaceParts DEF Cached
  <2>2. Rest(c, Get(c, k).key, Without(c, k)) /\ Len(Without(c, k)) < Capacity
    <3>1. Len(c) \in Nat /\ Capacity \in Nat /\ Len(c) <= Capacity
      BY CacheAssumption, LenProperties DEF Cached
    <3> QED
      BY <1>2, <2>1, <3>1, WithoutParts
  <2>3. /\ Cached(Append(Without(c, k), Get(c, k)))
        /\ \A x \in Range(Append(Without(c, k), Get(c, k))) : x = Get(c, k) \/ x \in Range(c)
    BY <2>1, <2>2, AppendCached
  <2> QED
    BY <1>2, <2>1, <2>3 DEF Touch
<1> QED
  BY <1>1, <1>2

\* set_state: the entry of the key, if any, has the state.
LEMMA SetCached ==
  ASSUME NEW c, Cached(c), NEW k \in Key, NEW s \in State
  PROVE  /\ Cached(Set(c, k, s))
         /\ \A x \in Range(Set(c, k, s)) : (x.key = k /\ x.state = s) \/ (x \in Range(c) /\ x.key # k)
<1>1. CASE ~Has(c, k)
  BY <1>1 DEF Set, Has
<1>2. CASE Has(c, k)
  <2>1. PICK g : g = Get(c, k)
    OBVIOUS
  <2>2. g \in Entry /\ g.key = k
    BY <1>2, <2>1, PlaceParts DEF Cached
  <2>3. PICK e : e = [g EXCEPT !.state = s]
    OBVIOUS
  <2>4. e \in Entry /\ e.key = k /\ e.state = s
    BY <2>2, <2>3 DEF Entry
  <2>5. Set(c, k, s) = Put(c, e)
    BY <1>2, <2>1, <2>3 DEF Set
  <2>6. /\ Cached(Put(c, e))
        /\ \A x \in Range(Put(c, e)) : x = e \/ (x \in Range(c) /\ x.key # e.key)
    BY <2>4, PutCached
  <2> QED
    BY <2>4, <2>5, <2>6
<1> QED
  BY <1>1, <1>2

-----------------------------------------------------------------------------
(* The nodes *)

Operations == {Idle} \cup Reading \cup Writing

\* Nobody ever has an entry as Exclusive: a read from a peer is Shared.
NoExclusive == \A n \in Node : \A e \in Range(cache[n]) : e.state # "E"

\* n has the key as Modified, or will have.
Claims(n, k) == Dirty(n, k) \/ (op[n].kind = "write" /\ op[n].key = k)

\* Of two nodes that claim a key one has yet to handle an INVALIDATE: whoever began to
\* write later sent one to the other, which has not handled it while it holds its own
\* lock, nor since, or its claim would be gone.
ClaimsMeet ==
  faults = 0 => \A n, m \in Node : \A k \in Key :
    n # m /\ Claims(n, k) /\ Claims(m, k) => \E i \in invals : i.key = k /\ i.to \in {n, m}

CacheInv == TypeOK /\ NoExclusive /\ ClaimsMeet

\* TypeOK, said of each cache
LEMMA Types ==
  TypeOK <=> /\ cache \in [Node -> Seq(Entry)] /\ \A n \in Node : Cached(cache[n])
             /\ op \in [Node -> Operations]
             /\ invals \subseteq Invalidate
             /\ writes \in 0..MaxWrites /\ faults \in 0..MaxFaults
<1>1. ASSUME NEW c \in Seq(Entry)
      PROVE  Cached(c) <=> /\ Len(c) <= Capacity
                           /\ \A i, j \in DOMAIN c : c[i].key = c[j].key => i = j
  BY LenProperties DEF Cached, Distinct
<1> QED
  BY <1>1 DEF TypeOK, Operations

\* The next state of the caches, where one of them changed
LEMMA TypesNext ==
  ASSUME cache' \in [Node -> Seq(Entry)], \A n \in Node : Cached(cache'[n]),
         op' \in [Node -> Operations], invals' \subseteq Invalidate,
         writes' \in 0..MaxWrites, faults' \in 0..MaxFaults
  PROVE  TypeOK'
<1>1. ASSUME NEW c \in Seq(Entry)
      PROVE  Cached(c) <=> /\ Len(c) <= Capacity
                           /\ \A i, j \in DOMAIN c : c[i].key = c[j].key => i = j
  BY LenProperties DEF Cached, Distinct
<1> QED
  BY <1>1 DEF TypeOK, Operations

\* The operation that holds a lock
LEMMA OpParts ==
  ASSUME TypeOK, NEW n \in Node
  PROVE  /\ op \in [Node -> Operations]
         /\ op[n].kind = "read" => op[n] \in Reading
         /\ op[n].kind = "write" => op[n] \in Writing
         /\ op[n] = Idle => op[n].kind = "idle"
BY Types DEF Operations, Idle, Reading, Writing

LEMMA IdleKind == Idle \in Operations /\ Idle.kind = "idle"
BY DEF Idle, Operations

\* The cache of n becomes c, all others stay.
LEMMA HoldsParts ==
  ASSUME TypeOK, NoExclusive, NEW n \in Node, NEW c, Cached(c), \A e \in Range(c) : e.state # "E",
         Holds(n, c)
  PROVE  /\ cache' \in [Node -> Seq(Entry)] /\ \A m \in Node : Cached(cache'[m])
         /\ NoExclusive'
         /\ cache'[n] = c /\ \A m \in Node \ {n} : cache'[m] = cache[m]
<1>1. cache \in [Node -> Seq(Entry)] /\ \A m \in Node : Cached(cache[m])
  BY Types
<1>2. c \in Seq(Entry)
  BY DEF Cached
<1>3. /\ cache' \in [Node -> Seq(Entry)]
      /\ cache'[n] = c /\ \A m \in Node \ {n} : cache'[m] = cache[m]
  BY <1>1, <1>2 DEF Holds
<1>4. \A m \in Node : Cached(cache'[m])
  BY <1>1, <1>3
<1>5. NoExclusive'
  BY <1>3 DEF NoExclusive
<1> QED
  BY <1>3, <1>4, <1>5

\* The operation of n becomes o, all others stay.
LEMMA DoesParts ==
  ASSUME TypeOK, NEW n \in Node, NEW o \in Operations, Does(n, o)
  PROVE  /\ op' \in [Node -> Operations]
         /\ op'[n] = o /\ \A m \in Node \ {n} : op'[m] = op[m]
BY Types DEF Does

\* Where no claim is new and no call is gone the claims still meet.
LEMMA ClaimsKept ==
  ASSUME ClaimsMeet, \A n \in Node : \A k \in Key : Claims(n, k)' => Claims(n, k),
         invals \subseteq invals', faults' = 0 => faults = 0
  PROVE  ClaimsMeet'
BY DEF ClaimsMeet

-----------------------------------------------------------------------------
(* The steps *)

\* A node looks something up, or is told to invalidate a key on its own: its entries
\* stay, but for the state Invalid.
LEMMA CacheShrinks ==
  ASSUME CacheInv, NEW n \in Node, NEW c, Cached(c), Holds(n, c),
         \A e \in Range(c) : e \in Range(cache[n]) \/ e.state \in {"S", "I"}
  PROVE  /\ cache' \in [Node -> Seq(Entry)] /\ \A m \in Node : Cached(cache'[m])
         /\ NoExclusive'
         /\ \A m \in Node : \A k \in Key : Dirty(m, k)' => Dirty(m, k)
<1>1. \A e \in Range(c) : e.state # "E"
  BY DEF CacheInv, NoExclusive
<1>2. /\ cache' \in [Node -> Seq(Entry)] /\ \A m \in Node : Cached(cache'[m])
      /\ NoExclusive'
      /\ cache'[n] = c /\ \A m \in Node \ {n} : cache'[m] = cache[m]
  BY <1>1, HoldsParts DEF CacheInv
<1>3. ASSUME NEW m \in Node, NEW k \in Key, Dirty(m, k)' PROVE Dirty(m, k)
  <2>1. CASE m = n
    BY <1>2, <1>3, <2>1 DEF Dirty
  <2>2. CASE m # n
    BY <1>2, <1>3, <2>2 DEF Dirty
  <2> QED
    BY <2>1, <2>2
<1> QED
  BY <1>2, <1>3

\* An operation that is no write takes or gives the lock.
LEMMA NoWriteClaims ==
  ASSUME CacheInv, NEW n \in Node, NEW o \in Operations, o.kind # "write", Does(n, o),
         \A m \in Node : \A k \in Key : Dirty(m, k)' => Dirty(m, k)
  PROVE  \A m \in Node : \A k \in Key : Claims(m, k)' => Claims(m, k)
<1>1. op'[n] = o /\ \A m \in Node \ {n} : op'[m] = op[m]
  BY DoesParts DEF CacheInv
<1> QED
  BY <1>1 DEF Claims

\* What every node's cache is
LEMMA CachedOf == ASSUME CacheInv, NEW n \in Node PROVE Cached(cache[n])
BY Types DEF CacheInv

\* read, a hit
LEMMA ReadHitInv ==
  ASSUME CacheInv, NEW n \in Node, NEW k \in Key, ReadHit(n, k)
  PROVE  CacheInv'
<1>1. Cached(Touch(cache[n], k)) /\ Range(Touch(cache[n], k)) \subseteq Range(cache[n])
  BY CachedOf, TouchCached
<1>2. Holds(n, Touch(cache[n], k)) /\ UNCHANGED <<op, invals, writes, faults>>
  BY DEF ReadHit
<1>3. /\ cache' \in [Node -> Seq(Entry)] /\ \A m \in Node : Cached(cache'[m])
      /\ NoExclusive'
      /\ \A m \in Node : \A j \in Key : Dirty(m, j)' => Dirty(m, j)
  BY <1>1, <1>2, CacheShrinks
<1>4. TypeOK'
  BY <1>2, <1>3, Types, TypesNext DEF CacheInv
<1>5. \A m \in Node : \A j \in Key : Claims(m, j)' => Claims(m, j)
  BY <1>2, <1>3 DEF Claims
<1> QED
  BY <1>2, <1>3, <1>4, <1>5, ClaimsKept DEF CacheInv

\* read, a miss
LEMMA ReadMissInv ==
  ASSUME CacheInv, NEW n \in Node, NEW k \in Key, ReadMiss(n, k)
  PROVE  CacheInv'
<1>1. Cached(Touch(cache[n], k)) /\ Range(Touch(cache[n], k)) \subseteq Range(cache[n])
  BY CachedOf, TouchCached
<1>2. PICK o : o = [kind |-> "read", key |-> k, ask |-> Peers(n), got |-> None]
  OBVIOUS
<1>3. Holds(n, Touch(cache[n], k)) /\ Does(n, o) /\ UNCHANGED <<invals, writes, faults>>
  BY <1>2 DEF ReadMiss
<1>4. o \in Operations /\ o.kind = "read"
  BY <1>2 DEF Operations, Reading, Peers
<1>5. /\ cache' \in [Node -> Seq(Entry)] /\ \A m \in Node : Cached(cache'[m])
      /\ NoExclusive'
      /\ \A m \in Node : \A j \in Key : Dirty(m, j)' => Dirty(m, j)
  BY <1>1, <1>3, CacheShrinks
<1>6. op' \in [Node -> Operations]
  BY <1>3, <1>4, DoesParts DEF CacheInv
<1>7. TypeOK'
  BY <1>3, <1>5, <1>6, Types, TypesNext DEF CacheInv
<1>8. \A m \in Node : \A j \in Key : Claims(m, j)' => Claims(m, j)
  BY <1>3, <1>4, <1>5, NoWriteClaims
<1> QED
  BY <1>3, <1>5, <1>7, <1>8, ClaimsKept DEF CacheInv

\* The operation of a reader goes on.
LEMMA AskingInv ==
  ASSUME CacheInv, NEW n \in Node, NEW o \in Operations, o.kind # "write", Does(n, o),
         UNCHANGED <<cache, invals, writes, faults>>
  PROVE  CacheInv'
<1>1. op' \in [Node -> Operations]
  BY DoesParts DEF CacheInv
<1>2. TypeOK'
  BY <1>1, Types, TypesNext DEF CacheInv
<1>3. NoExclusive' /\ \A m \in Node : \A k \in Key : Dirty(m, k)' => Dirty(m, k)
  BY DEF CacheInv, NoExclusive, Dirty
<1>4. \A m \in Node : \A k \in Key : Claims(m, k)' => Claims(m, k)
  BY <1>3, NoWriteClaims
<1> QED
  BY <1>2, <1>3, <1>4, ClaimsKept DEF CacheInv

\* What AskOn leaves of the operation
LEMMA AskOnParts ==
  ASSUME CacheInv, NEW n \in Node, NEW p, Asks(n, p), AskOn(n, p)
  PROVE  \E o \in Operations : o.kind # "write" /\ Does(n, o)
<1>1. op[n] \in Reading
  BY OpParts DEF Asks, CacheInv
<1>2. CASE op[n].ask \ {p} = {}
  BY <1>2, IdleKind DEF AskOn
<1>3. CASE op[n].ask \ {p} # {}
  <2>1. PICK r : r = op[n]
    OBVIOUS
  <2>2. PICK o : o = [r EXCEPT !.ask = r.ask \ {p}]
    OBVIOUS
  <2>3. o \in Reading
    BY <1>1, <2>1, <2>2 DEF Reading
  <2>4. Does(n, o)
    BY <1>3, <2>1, <2>2 DEF AskOn
  <2> QED
    BY <2>3, <2>4 DEF Operations, Reading
<1> QED
  BY <1>2, <1>3

\* _fetch_from_peers, with an answer or without one
LEMMA PeekInv ==
  ASSUME CacheInv, NEW n \in Node, NEW p \in Node, Peek(n, p) \/ PeekFails(n, p)
  PROVE  CacheInv'
<1>1. Asks(n, p) /\ UNCHANGED <<cache, invals, writes, faults>>
  BY DEF Peek, PeekFails
<1>2. op[n] \in Reading
  BY <1>1, OpParts DEF Asks, CacheInv
<1>3. CASE AskOn(n, p)
  BY <1>1, <1>3, AskOnParts, AskingInv
<1>4. CASE Valid(cache[p], op[n].key) /\ Does(n, [op[n] EXCEPT !.got = Get(cache[p], op[n].key).value])
  <2>1. Get(cache[p], op[n].key) \in Entry
    BY <1>4, CachedOf, PlaceParts DEF Valid, Has, Cached
  <2>2. PICK r, v : r = op[n] /\ v = Get(cache[p], op[n].key).value
    OBVIOUS
  <2>3. v \in Value
    BY <2>1, <2>2 DEF Entry
  <2>4. PICK o : o = [r EXCEPT !.got = v]
    OBVIOUS
  <2>5. o \in Reading
    BY <1>2, <2>2, <2>3, <2>4 DEF Reading
  <2>6. o \in Operations /\ o.kind # "write" /\ Does(n, o)
    BY <1>4, <2>2, <2>4, <2>5 DEF Operations, Reading
  <2> QED
    BY <1>1, <2>6, AskingInv
<1> QED
  BY <1>3, <1>4 DEF Peek, PeekFails

\* The answer of a peer is cached.
LEMMA InstallInv ==
  ASSUME CacheInv, NEW n \in Node, Install(n)
  PROVE  CacheInv'
<1>1. op[n] \in Reading /\ op[n].got # None
  BY OpParts DEF Install, CacheInv
<1>2. PICK e : e = [key |-> op[n].key, state |-> "S", value |-> op[n].got]
  OBVIOUS
<1>3. e \in Entry /\ e.state = "S"
  BY <1>1, <1>2 DEF Reading, Entry, State
<1>4. Holds(n, Put(cache[n], e)) /\ Does(n, Idle) /\ UNCHANGED <<invals, writes, faults>>
  BY <1>2 DEF Install
<1>5. /\ Cached(Put(cache[n], e))
      /\ \A x \in Range(Put(cache[n], e)) : x \in Range(cache[n]) \/ x.state \in {"S", "I"}
  BY <1>3, CachedOf, PutCached
<1>6. /\ cache' \in [Node -> Seq(Entry)] /\ \A m \in Node : Cached(cache'[m])
      /\ NoExclusive'
      /\ \A m \in Node : \A j \in Key : Dirty(m, j)' => Dirty(m, j)
  BY <1>4, <1>5, CacheShrinks
<1>7. op' \in [Node -> Operations]
  BY <1>4, IdleKind, DoesParts DEF CacheInv
<1>8. TypeOK'
  BY <1>4, <1>6, <1>7, Types, TypesNext DEF CacheInv
<1>9. \A m \in Node : \A j \in Key : Claims(m, j)' => Claims(m, j)
  BY <1>4, <1>6, IdleKind, NoWriteClaims
<1> QED
  BY <1>4, <1>6, <1>8, <1>9, ClaimsKept DEF CacheInv

\* What is written to a cache is Modified.
LEMMA WriteHolds ==
  ASSUME CacheInv, NEW n \in Node, NEW k \in Key, NEW v \in Value,
         Holds(n, Put(cache[n], [key |-> k, state |-> "M", value |-> v]))
  PROVE  /\ cache' \in [Node -> Seq(Entry)] /\ \A m \in Node : Cached(cache'[m])
         /\ NoExclusive'
         /\ \A m \in Node : \A j \in Key : Dirty(m, j)' => Dirty(m, j) \/ (m = n /\ j = k)
<1>1. PICK e : e = [key |-> k, state |-> "M", value |-> v]
  OBVIOUS
<1>2. e \in Entry /\ e.key = k /\ e.state = "M"
  BY <1>1 DEF Entry, State
<1>3. PICK c : c = Put(cache[n], e)
  OBVIOUS
<1>4. Cached(c) /\ \A x \in Range(c) : x = e \/ (x \in Range(cache[n]) /\ x.key # k)
  BY <1>2, <1>3, CachedOf, PutCached
<1>5. \A x \in Range(c) : x.state # "E"
  BY <1>2, <1>4 DEF CacheInv, NoExclusive
<1>6. Holds(n, c)
  BY <1>1, <1>3
<1>7. /\ cache' \in [Node -> Seq(Entry)] /\ \A m \in Node : Cached(cache'[m])
      /\ NoExclusive'
      /\ cache'[n] = c /\ \A m \in Node \ {n} : cache'[m] = cache[m]
  BY <1>4, <1>5, <1>6, HoldsParts DEF CacheInv
<1>8. ASSUME NEW m \in Node, NEW j \in Key, Dirty(m, j)' PROVE Dirty(m, j) \/ (m = n /\ j = k)
  <2>1. CASE m = n
    BY <1>2, <1>4, <1>7, <1>8, <2>1 DEF Dirty
  <2>2. CASE m # n
    BY <1>7, <1>8, <2>2 DEF Dirty
  <2> QED
    BY <2>1, <2>2
<1> QED
  BY <1>7, <1>8

\* The number of a write
LEMMA NewWriteParts ==
  ASSUME CacheInv, NEW n, NewWrite(n)
  PROVE  op[n] = Idle /\ writes' \in Value /\ writes' \in 0..MaxWrites
BY Types, CacheAssumption DEF CacheInv, NewWrite, Value

\* write without a call: the node had the key as Modified already.
LEMMA WriteOwnedInv ==
  ASSUME CacheInv, NEW n \in Node, NEW k \in Key, WriteOwned(n, k)
  PROVE  CacheInv'
<1>1. PICK v : v = writes'
  OBVIOUS
<1>2. v \in Value /\ writes' \in 0..MaxWrites
  BY <1>1, NewWriteParts DEF WriteOwned
<1>3. Holds(n, Put(cache[n], [key |-> k, state |-> "M", value |-> v])) /\ UNCHANGED <<op, invals, faults>>
  BY <1>1 DEF WriteOwned
<1>4. /\ cache' \in [Node -> Seq(Entry)] /\ \A m \in Node : Cached(cache'[m])
      /\ NoExclusive'
      /\ \A m \in Node : \A j \in Key : Dirty(m, j)' => Dirty(m, j) \/ (m = n /\ j = k)
  BY <1>2, <1>3, WriteHolds
<1>5. Dirty(n, k)
  BY DEF WriteOwned, Owned, CacheInv, NoExclusive, Dirty
<1>6. TypeOK'
  BY <1>2, <1>3, <1>4, Types, TypesNext DEF CacheInv
<1>7. \A m \in Node : \A j \in Key : Claims(m, j)' => Claims(m, j)
  BY <1>3, <1>4, <1>5 DEF Claims
<1> QED
  BY <1>3, <1>4, <1>6, <1>7, ClaimsKept DEF CacheInv

\* write with calls: the new claim comes with an INVALIDATE to every other node.
LEMMA WriteBroadcastInv ==
  ASSUME CacheInv, NEW n \in Node, NEW k \in Key, WriteBroadcast(n, k)
  PROVE  CacheInv'
<1>1. Cached(Touch(cache[n], k)) /\ Range(Touch(cache[n], k)) \subseteq Range(cache[n])
  BY CachedOf, TouchCached
<1>2. PICK v : v = writes'
  OBVIOUS
<1>3. v \in Value /\ writes' \in 0..MaxWrites
  BY <1>2, NewWriteParts DEF WriteBroadcast
<1>4. PICK o : o = [kind |-> "write", key |-> k, value |-> v, waiting |-> Peers(n), missed |-> FALSE]
  OBVIOUS
<1>5. o \in Operations /\ o.kind = "write" /\ o.key = k
  BY <1>3, <1>4 DEF Operations, Writing, Peers
<1>6. /\ Holds(n, Touch(cache[n], k)) /\ Does(n, o) /\ UNCHANGED faults
      /\ invals' = invals \cup [from : {n}, to : Peers(n), key : {k}, value : {v}]
  BY <1>2, <1>4 DEF WriteBroadcast
<1>7. /\ cache' \in [Node -> Seq(Entry)] /\ \A m \in Node : Cached(cache'[m])
      /\ NoExclusive'
      /\ \A m \in Node : \A j \in Key : Dirty(m, j)' => Dirty(m, j)
  BY <1>1, <1>6, CacheShrinks
<1>8. op' \in [Node -> Operations] /\ op'[n] = o /\ \A m \in Node \ {n} : op'[m] = op[m]
  BY <1>5, <1>6, DoesParts DEF CacheInv
<1>9. invals' \subseteq Invalidate
  <2>1. [from : {n}, to : Peers(n), key : {k}, value : {v}] \subseteq Invalidate
    BY <1>3 DEF Invalidate, Peers
  <2> QED
    BY <1>6, <2>1, Types DEF CacheInv
<1>10. TypeOK'
  BY <1>3, <1>6, <1>7, <1>8, <1>9, Types, TypesNext DEF CacheInv
<1>11. \A m \in Node : \A j \in Key : Claims(m, j)' => Claims(m, j) \/ (m = n /\ j = k)
  BY <1>5, <1>7, <1>8 DEF Claims
<1>12. ASSUME NEW m \in Node, m # n PROVE \E i \in invals' : i.key = k /\ i.to = m
  <2>1. [from |-> n, to |-> m, key |-> k, value |-> v] \in invals'
    BY <1>6, <1>12 DEF Peers
  <2> QED
    BY <2>1
<1>13. ClaimsMeet'
  <2> SUFFICES ASSUME faults' = 0, NEW m \in Node, NEW p \in Node, NEW j \in Key,
                      m # p, Claims(m, j)', Claims(p, j)'
               PROVE  \E i \in invals' : i.key = j /\ i.to \in {m, p}
    BY DEF ClaimsMeet
  <2>1. CASE Claims(m, j) /\ Claims(p, j)
    BY <1>6, <2>1 DEF CacheInv, ClaimsMeet
  <2>2. CASE m = n /\ j = k
    BY <1>12, <2>2
  <2>3. CASE p = n /\ j = k
    BY <1>12, <2>3
  <2> QED
    BY <1>11, <2>1, <2>2, <2>3
<1> QED
  BY <1>7, <1>10, <1>13 DEF CacheInv

\* A writer stops waiting for a peer, or has its answer.
LEMMA GiveUpInv ==
  ASSUME CacheInv, NEW n \in Node, NEW p, GiveUp(n, p)
  PROVE  CacheInv'
<1>1. op[n] \in Writing
  BY OpParts DEF GiveUp, Awaits, CacheInv
<1>2. PICK w : w = op[n]
  OBVIOUS
<1>3. PICK o : o = [w EXCEPT !.waiting = w.waiting \ {p}, !.missed = TRUE]
  OBVIOUS
<1>4. o \in Writing /\ o.kind = w.kind /\ o.key = w.key
  BY <1>1, <1>2, <1>3 DEF Writing
<1>5. Does(n, o) /\ UNCHANGED <<cache, invals, writes, faults>>
  BY <1>2, <1>3 DEF GiveUp
<1>6. op' \in [Node -> Operations] /\ op'[n] = o /\ \A m \in Node \ {n} : op'[m] = op[m]
  BY <1>4, <1>5, DoesParts DEF CacheInv, Operations
<1>7. TypeOK'
  BY <1>5, <1>6, Types, TypesNext DEF CacheInv
<1>8. NoExclusive' /\ \A m \in Node : \A j \in Key : Dirty(m, j)' => Dirty(m, j)
  BY <1>5 DEF CacheInv, NoExclusive, Dirty
<1>9. \A m \in Node : \A j \in Key : Claims(m, j)' => Claims(m, j)
  BY <1>2, <1>4, <1>6, <1>8 DEF Claims
<1> QED
  BY <1>5, <1>7, <1>8, <1>9, ClaimsKept DEF CacheInv

\* The claim of a writer becomes the entry it wrote.
LEMMA FinishWriteInv ==
  ASSUME CacheInv, NEW n \in Node, FinishWrite(n)
  PROVE  CacheInv'
<1>1. op[n] \in Writing
  BY OpParts DEF FinishWrite, CacheInv
<1>2. PICK k, v : k = op[n].key /\ v = op[n].value
  OBVIOUS
<1>3. k \in Key /\ v \in Value
  BY <1>1, <1>2 DEF Writing
<1>4. /\ Holds(n, Put(cache[n], [key |-> k, state |-> "M", value |-> v]))
      /\ Does(n, Idle) /\ UNCHANGED <<invals, writes, faults>>
  BY <1>2 DEF FinishWrite
<1>5. /\ cache' \in [Node -> Seq(Entry)] /\ \A m \in Node : Cached(cache'[m])
      /\ NoExclusive'
      /\ \A m \in Node : \A j \in Key : Dirty(m, j)' => Dirty(m, j) \/ (m = n /\ j = k)
  BY <1>3, <1>4, WriteHolds
<1>6. op' \in [Node -> Operations] /\ op'[n] = Idle /\ \A m \in Node \ {n} : op'[m] = op[m]
  BY <1>4, IdleKind, DoesParts DEF CacheInv
<1>7. TypeOK'
  BY <1>4, <1>5, <1>6, Types, TypesNext DEF CacheInv
<1>8. Claims(n, k)
  BY <1>2 DEF Claims, FinishWrite
<1>9. \A m \in Node : \A j \in Key : Claims(m, j)' => Claims(m, j)
  BY <1>5, <1>6, <1>8, IdleKind DEF Claims
<1> QED
  BY <1>4, <1>5, <1>7, <1>9, ClaimsKept DEF CacheInv

\* An INVALIDATE that is handled takes the claim of its receiver.
LEMMA ReceiveInv ==
  ASSUME CacheInv, NEW i \in invals, Receive(i)
  PROVE  CacheInv'
<1>1. i.to \in Node /\ i.from \in Node /\ i.key \in Key
  BY Types DEF CacheInv, Invalidate
<1>2. PICK n, k : n = i.to /\ k = i.key
  OBVIOUS
<1>3. /\ op[n] = Idle /\ invals' = invals \ {i} /\ Holds(n, Set(cache[n], k, "I"))
      /\ UNCHANGED <<writes, faults>>
  BY <1>2 DEF Receive
<1>4. /\ Cached(Set(cache[n], k, "I"))
      /\ \A x \in Range(Set(cache[n], k, "I")) :
           (x.key = k /\ x.state = "I") \/ (x \in Range(cache[n]) /\ x.key # k)
  BY <1>1, <1>2, CachedOf, SetCached DEF State
<1>5. /\ cache' \in [Node -> Seq(Entry)] /\ \A m \in Node : Cached(cache'[m])
      /\ NoExclusive'
      /\ \A m \in Node : \A j \in Key : Dirty(m, j)' => Dirty(m, j)
  BY <1>1, <1>2, <1>3, <1>4, CacheShrinks
<1>6. ~Dirty(n, k)'
  <2>1. cache'[n] = Set(cache[n], k, "I")
    BY <1>1, <1>2, <1>3, Types DEF CacheInv, Holds
  <2> QED
    BY <1>4, <2>1 DEF Dirty
<1>7. /\ op' \in [Node -> Operations]
      /\ \A m \in Node : op'[m].kind = op[m].kind /\ (op[m].kind = "write" => op'[m].key = op[m].key)
  <2>1. CASE op' = op
    BY <2>1, Types DEF CacheInv
  <2>2. CASE Awaits(i.from, i.to) /\ op' = [op EXCEPT ![i.from].waiting = @ \ {i.to}]
    <3>1. PICK s, w : s = i.from /\ w = op[s]
      OBVIOUS
    <3>2. s \in Node /\ w \in Writing
      BY <1>1, <2>2, <3>1, OpParts DEF Awaits, CacheInv
    <3>3. PICK o : o = [w EXCEPT !.waiting = w.waiting \ {i.to}]
      OBVIOUS
    <3>4. o \in Writing /\ o.kind = w.kind /\ o.key = w.key
      BY <3>2, <3>3 DEF Writing
    <3>5. Does(s, o)
      BY <2>2, <3>1, <3>3 DEF Does
    <3>6. op' \in [Node -> Operations] /\ op'[s] = o /\ \A m \in Node \ {s} : op'[m] = op[m]
      BY <3>2, <3>4, <3>5, DoesParts DEF CacheInv, Operations
    <3> QED
      BY <3>1, <3>4, <3>6
  <2> QED
    BY <2>1, <2>2 DEF Receive
<1>8. TypeOK'
  BY <1>3, <1>5, <1>7, Types, TypesNext DEF CacheInv
<1>9. \A m \in Node : \A j \in Key : Claims(m, j)' => Claims(m, j)
  BY <1>5, <1>7 DEF Claims
<1>10. ~Claims(n, k)'
  BY <1>1, <1>2, <1>3, <1>6, <1>7, IdleKind DEF Claims
<1>11. ClaimsMeet'
  <2> SUFFICES ASSUME faults' = 0, NEW m \in Node, NEW p \in Node, NEW j \in Key,
                      m # p, Claims(m, j)', Claims(p, j)'
               PROVE  \E h \in invals' : h.key = j /\ h.to \in {m, p}
    BY DEF ClaimsMeet
  <2>1. PICK h \in invals : h.key = j /\ h.to \in {m, p}
    BY <1>3, <1>9 DEF CacheInv, ClaimsMeet
  <2>2. h # i
    BY <1>2, <1>10, <2>1
  <2> QED
    BY <1>3, <2>1, <2>2
<1> QED
  BY <1>5, <1>8, <1>11 DEF CacheInv

\* DELETE
LEMMA DeleteInv ==
  ASSUME CacheInv, NEW n \in Node, NEW k \in Key, Delete(n, k)
  PROVE  CacheInv'
<1>1. Cached(Set(cache[n], k, "I"))
      /\ \A x \in Range(Set(cache[n], k, "I")) : x \in Range(cache[n]) \/ x.state \in {"S", "I"}
  BY CachedOf, SetCached DEF State
<1>2. Holds(n, Set(cache[n], k, "I")) /\ UNCHANGED <<op, invals, writes, faults>>
  BY DEF Delete
<1>3. /\ cache' \in [Node -> Seq(Entry)] /\ \A m \in Node : Cached(cache'[m])
      /\ NoExclusive'
      /\ \A m \in Node : \A j \in Key : Dirty(m, j)' => Dirty(m, j)
  BY <1>1, <1>2, CacheShrinks
<1>4. TypeOK'
  BY <1>2, <1>3, Types, TypesNext DEF CacheInv
<1>5. \A m \in Node : \A j \in Key : Claims(m, j)' => Claims(m, j)
  BY <1>2, <1>3 DEF Claims
<1> QED
  BY <1>2, <1>3, <1>4, <1>5, ClaimsKept DEF CacheInv

\* After a fault nothing is promised but the types.
LEMMA FaultParts ==
  ASSUME CacheInv, Fault
  PROVE  faults' \in 0..MaxFaults /\ ClaimsMeet'
BY Types, CacheAssumption DEF CacheInv, Fault, ClaimsMeet

LEMMA LoseInv ==
  ASSUME CacheInv, NEW i, Lose(i)
  PROVE  CacheInv'
<1>1. /\ faults' \in 0..MaxFaults /\ ClaimsMeet'
      /\ invals' \subseteq invals /\ UNCHANGED <<cache, op, writes>>
  BY FaultParts DEF Lose
<1>2. TypeOK'
  BY <1>1, Types, TypesNext DEF CacheInv
<1>3. NoExclusive'
  BY <1>1 DEF CacheInv, NoExclusive
<1> QED
  BY <1>1, <1>2, <1>3 DEF CacheInv

LEMMA RestartInv ==
  ASSUME CacheInv, NEW n \in Node, Restart(n)
  PROVE  CacheInv'
<1>1. /\ faults' \in 0..MaxFaults /\ ClaimsMeet' /\ UNCHANGED writes
      /\ Holds(n, <<>>) /\ Does(n, Idle) /\ invals' \subseteq invals
  BY FaultParts DEF Restart
<1>2. PICK c : c = <<>>
  OBVIOUS
<1>3. Cached(c) /\ Range(c) = {}
  <2>1. c \in Seq(Entry) /\ Len(c) = 0
    BY <1>2
  <2>2. Distinct(c) /\ Len(c) <= Capacity
    BY <2>1, CacheAssumption DEF Distinct
  <2>3. DOMAIN c = {}
    BY <2>1, RangeOf
  <2>4. Range(c) = {}
    BY <2>3 DEF Range
  <2> QED
    BY <2>1, <2>2, <2>4 DEF Cached
<1>4. Holds(n, c)
  BY <1>1, <1>2
<1>5. /\ cache' \in [Node -> Seq(Entry)] /\ \A m \in Node : Cached(cache'[m])
      /\ NoExclusive'
  BY <1>3, <1>4, HoldsParts DEF CacheInv
<1>6. op' \in [Node -> Operations]
  BY <1>1, IdleKind, DoesParts DEF CacheInv
<1>7. TypeOK'
  BY <1>1, <1>5, <1>6, Types, TypesNext DEF CacheInv
<1> QED
  BY <1>1, <1>5, <1>7 DEF CacheInv

-----------------------------------------------------------------------------
(* The theorems *)

LEMMA CacheInvInit == Init => CacheInv
<1> SUFFICES ASSUME Init PROVE CacheInv
  OBVIOUS
<1>1. ASSUME NEW n \in Node PROVE cache[n] \in Seq(Entry) /\ Len(cache[n]) = 0 /\ Range(cache[n]) = {}
  <2>1. cache[n] \in Seq(Entry) /\ Len(cache[n]) = 0
    BY DEF Init
  <2> QED
    BY <2>1, RangeOf
<1>2. \A n \in Node : Cached(cache[n])
  BY <1>1, CacheAssumption DEF Cached, Distinct
<1>3. cache \in [Node -> Seq(Entry)] /\ op \in [Node -> Operations]
  BY IdleKind DEF Init
<1>4. TypeOK
  BY <1>2, <1>3, Types, CacheAssumption DEF Init
<1>5. NoExclusive
  BY <1>1 DEF NoExclusive
<1>6. \A n \in Node : \A k \in Key : ~Claims(n, k)
  <2>1. \A n \in Node : op[n] = Idle
    BY DEF Init
  <2> QED
    BY <1>1, <2>1, IdleKind DEF Claims, Dirty
<1> QED
  BY <1>4, <1>5, <1>6 DEF CacheInv, ClaimsMeet

LEMMA CacheInvNext == CacheInv /\ [CacheNext]_vars => CacheInv'
<1> SUFFICES ASSUME CacheInv, [CacheNext]_vars PROVE CacheInv'
  OBVIOUS
<1>1. ASSUME NEW n \in Node, Install(n) \/ FinishWrite(n) \/ Restart(n) PROVE CacheInv'
  BY <1>1, InstallInv, FinishWriteInv, RestartInv
<1>2. ASSUME NEW n \in Node, NEW k \in Key,
             ReadHit(n, k) \/ ReadMiss(n, k) \/ WriteOwned(n, k) \/ WriteBroadcast(n, k) \/ Delete(n, k)
      PROVE  CacheInv'
  BY <1>2, ReadHitInv, ReadMissInv, WriteOwnedInv, WriteBroadcastInv, DeleteInv
<1>3. ASSUME NEW n \in Node, NEW p \in Node, Peek(n, p) \/ PeekFails(n, p) \/ GiveUp(n, p)
      PROVE  CacheInv'
  BY <1>3, PeekInv, GiveUpInv
<1>4. ASSUME NEW i \in invals, Receive(i) \/ Lose(i) PROVE CacheInv'
  BY <1>4, ReceiveInv, LoseInv
<1>5. CASE UNCHANGED vars
  <2>1. UNCHANGED <<cache, op, invals, writes, faults>>
    BY <1>5 DEF vars
  <2>2. TypeOK' /\ NoExclusive' /\ \A n \in Node : \A k \in Key : Claims(n, k)' => Claims(n, k)
    BY <2>1 DEF CacheInv, TypeOK, NoExclusive, Claims, Dirty
  <2> QED
    BY <2>1, <2>2, ClaimsKept DEF CacheInv
<1> QED
  BY <1>1, <1>2, <1>3, <1>4, <1>5 DEF CacheNext

\* The inductive invariant (CacheInv)
THEOREM CacheInvariant == CacheSpec => []CacheInv
BY CacheInvInit, CacheInvNext, PTL DEF CacheSpec

\* The caches keep their types: none has more than its capacity of entries, or two for
\* one key, whatever is read, written, invalidated and lost (LRUCache).
THEOREM CacheTypes == CacheSpec => []TypeOK
<1>1. CacheInv => TypeOK
  BY DEF CacheInv
<1> QED
  BY <1>1, CacheInvariant, PTL

\* Two nodes have a key as Modified only while an INVALIDATE is on its way to one of them,
\* for any number of nodes, writers and keys, and whoever gives up on whom, as long as no
\* call is lost and no node restarts (write, invalidate).
THEOREM TwoDirtyPasses == CacheSpec => []TwoDirtyIsPassing
<1>1. CacheInv => TwoDirtyIsPassing
  BY DEF CacheInv, ClaimsMeet, Claims, TwoDirtyIsPassing
<1> QED
  BY <1>1, CacheInvariant, PTL
=============================================================================
