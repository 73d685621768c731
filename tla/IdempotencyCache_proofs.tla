----------------------- MODULE IdempotencyCache_proofs -----------------------
(***************************************************************************)
(* Proofs about the idempotency cache, for every set of keys and results,  *)
(* every cap and every lifetime.                                           *)
(***************************************************************************)
EXTENDS IdempotencyCache, FiniteSetTheorems, TLAPS

-----------------------------------------------------------------------------
(* What the Map operators of CacheOps return, for every well formed cache. *)

\* The Map of a new cache.
LEMMA EmptyIsCache == IsCache(Empty) /\ Cached(Empty) = {}
BY DEF IsCache, Empty, Cached, Entry

\* Map.delete: what is left keeps its entry.
LEMMA WithoutIsCache ==
    ASSUME NEW c, NEW D, IsCache(c)
    PROVE  /\ IsCache(Without(c, D))
           /\ Cached(Without(c, D)) = Cached(c) \ D
           /\ \A k \in Cached(c) \ D : Without(c, D).entries[k] = c.entries[k]
<1> DEFINE w == Without(c, D)
<1>1. Cached(w) = Cached(c) \ D
  BY DEF Without, Cached
<1>2. \A k \in Cached(c) \ D : w.entries[k] = c.entries[k]
  BY DEF Without, Cached
<1>3. w.entries \in [Cached(w) -> Entry]
  BY <1>1, <1>2 DEF Without, IsCache, Cached
<1>4. w.older \subseteq Cached(w) \X Cached(w)
  <2>1. SUFFICES ASSUME NEW p \in w.older PROVE p \in Cached(w) \X Cached(w)
    OBVIOUS
  <2>2. p \in c.older /\ p[1] \notin D /\ p[2] \notin D
    BY DEF Without
  <2>3. p \in Cached(c) \X Cached(c)
    BY <2>2 DEF IsCache
  <2> QED BY <2>2, <2>3, <1>1
<1>5. w = [entries |-> w.entries, older |-> w.older]
  BY DEF Without
<1> QED BY <1>1, <1>2, <1>3, <1>4, <1>5 DEF IsCache

\* Map.delete and Map.set: the key is there, with its entry, and nothing else
\* changed.
LEMMA AppendedIsCache ==
    ASSUME NEW c, NEW k \in CacheKey, NEW e \in Entry, IsCache(c)
    PROVE  /\ IsCache(Appended(c, k, e))
           /\ Cached(Appended(c, k, e)) = Cached(c) \cup {k}
           /\ Appended(c, k, e).entries[k] = e
           /\ \A x \in Cached(c) \ {k} : Appended(c, k, e).entries[x] = c.entries[x]
<1> DEFINE a == Appended(c, k, e)
<1>1. Cached(a) = Cached(c) \cup {k}
  BY DEF Appended, Cached
<1>2. a.entries[k] = e /\ \A x \in Cached(c) \ {k} : a.entries[x] = c.entries[x]
  BY DEF Appended, Cached
<1>3. a.entries \in [Cached(a) -> Entry]
  BY <1>1, <1>2 DEF Appended, IsCache, Cached
<1>4. a.older \subseteq Cached(a) \X Cached(a)
  <2>1. Without(c, {k}).older \subseteq Cached(c) \X Cached(c)
    BY WithoutIsCache DEF IsCache
  <2>2. { <<x, k>> : x \in Cached(c) \ {k} } \subseteq Cached(a) \X Cached(a)
    BY <1>1
  <2> QED BY <2>1, <2>2, <1>1 DEF Appended
<1>5. a = [entries |-> a.entries, older |-> a.older]
  BY DEF Appended
<1>6. Cached(a) \subseteq CacheKey
  BY <1>1 DEF IsCache
<1> QED BY <1>1, <1>2, <1>3, <1>4, <1>5, <1>6 DEF IsCache

\* A cached key has an entry.
LEMMA EntryOfCached ==
    ASSUME NEW c, NEW k \in Cached(c), IsCache(c)
    PROVE  c.entries[k] \in Entry /\ k \in CacheKey
BY DEF IsCache

\* The re-insertion of get(): every key keeps its entry.
LEMMA TouchedIsCache ==
    ASSUME NEW c, NEW k \in Cached(c), IsCache(c)
    PROVE  /\ IsCache(Touched(c, k))
           /\ Cached(Touched(c, k)) = Cached(c)
           /\ \A x \in Cached(c) : Touched(c, k).entries[x] = c.entries[x]
<1>1. c.entries[k] \in Entry /\ k \in CacheKey
  BY EntryOfCached
<1>2. Cached(c) \cup {k} = Cached(c)
  OBVIOUS
<1> DEFINE e == c.entries[k]
           t == Appended(c, k, e)
<1> HIDE DEF e
<1>3. /\ IsCache(t) /\ Cached(t) = Cached(c) \cup {k} /\ t.entries[k] = e
      /\ \A x \in Cached(c) \ {k} : t.entries[x] = c.entries[x]
  BY <1>1, AppendedIsCache DEF e
<1>4. Touched(c, k) = t
  BY DEF Touched, e
<1> HIDE DEF t
<1> QED BY <1>2, <1>3, <1>4 DEF e

\* The insertion of set(), before its evictions: one key has a new entry.
LEMMA StoredIsCache ==
    ASSUME NEW c, NEW k \in CacheKey, NEW r \in Result, NEW t \in Nat, IsCache(c)
    PROVE  /\ IsCache(Stored(c, k, r, t))
           /\ Cached(Stored(c, k, r, t)) = Cached(c) \cup {k}
           /\ Stored(c, k, r, t).entries[k] = [result |-> r, expiresAt |-> t + Ttl]
           /\ \A x \in Cached(c) \ {k} : Stored(c, k, r, t).entries[x] = c.entries[x]
<1>1. [result |-> r, expiresAt |-> t + Ttl] \in Entry
  BY CacheAssumption DEF Entry
<1> QED BY <1>1, AppendedIsCache DEF Stored

-----------------------------------------------------------------------------
(* Type correctness *)

\* Whatever calls are made, the Map and its order stay well formed.
THEOREM TypeCorrect == Spec => []TypeOK
<1>1. Init => TypeOK
  BY EmptyIsCache DEF Init, TypeOK
<1>2. TypeOK /\ [Next]_vars => TypeOK'
  <2> SUFFICES ASSUME TypeOK, [Next]_vars PROVE TypeOK'
    OBVIOUS
  <2> USE DEF TypeOK
  <2>u. ASSUME NEW k \in CacheKey, Used(k) PROVE usedBefore' \in SUBSET (CacheKey \X CacheKey)
    BY <2>u DEF Used
  <2>1. ASSUME NEW k \in CacheKey, GetAbsent(k) PROVE TypeOK'
    BY <2>1 DEF GetAbsent
  <2>2. ASSUME NEW k \in CacheKey, GetExpired(k) PROVE TypeOK'
    BY <2>2, WithoutIsCache DEF GetExpired
  <2>3. ASSUME NEW k \in CacheKey, GetHit(k) PROVE TypeOK'
    <3>1. k \in Cached(cache)
      BY <2>3 DEF GetHit, Live
    <3>2. cache.entries[k].result \in Result
      BY <3>1, EntryOfCached DEF Entry
    <3> QED BY <2>3, <2>u, <3>1, <3>2, TouchedIsCache DEF GetHit
  <2>4. ASSUME NEW k \in CacheKey, NEW r \in Result, Set(k, r) PROVE TypeOK'
    <3>1. PICK D : cache' = Without(Stored(cache, k, r, now), D)
      BY <2>4 DEF Set
    <3>2. IsCache(Stored(cache, k, r, now))
      BY StoredIsCache
    <3>3. IsCache(cache')
      BY <3>1, <3>2, WithoutIsCache
    <3> QED BY <2>4, <2>u, <3>3 DEF Set
  <2>5. ASSUME NEW b \in Bucket, NEW key \in Key, Invalidate(b, key) PROVE TypeOK'
    BY <2>5, WithoutIsCache DEF Invalidate
  <2>6. CASE Clear
    BY <2>6, EmptyIsCache DEF Clear
  <2>7. CASE Tick
    BY <2>7 DEF Tick
  <2>8. CASE UNCHANGED vars
    BY <2>8 DEF vars
  <2> QED BY <2>1, <2>2, <2>3, <2>4, <2>5, <2>6, <2>7, <2>8 DEF Next
<1> QED BY <1>1, <1>2, PTL DEF Spec
-----------------------------------------------------------------------------
(* Capacity *)

\* The inductive form of WithinCapacity: a cardinality means something only for
\* a finite set.
CapacityInv == IsFiniteSet(Cached(cache)) /\ Cardinality(Cached(cache)) <= MaxEntries

\* A cache that lost keys is within its cap if it was.
LEMMA SmallerStaysWithin ==
    ASSUME CapacityInv, Cached(cache)' \subseteq Cached(cache)
    PROVE  CapacityInv'
<1>1. /\ IsFiniteSet(Cached(cache)')
      /\ Cardinality(Cached(cache)') <= Cardinality(Cached(cache))
  BY FS_Subset DEF CapacityInv
<1>2. Cardinality(Cached(cache)) \in Nat /\ Cardinality(Cached(cache)') \in Nat
  BY <1>1, FS_CardinalityType DEF CapacityInv
<1> QED BY <1>1, <1>2, CacheAssumption DEF CapacityInv

\* set() never leaves the Map over its cap: the eviction loop ends within it,
\* whatever the Map held before.
LEMMA SetWithinCapacity ==
    ASSUME TypeOK, CapacityInv, NEW k \in CacheKey, NEW r \in Result, Set(k, r)
    PROVE  CapacityInv'
<1> DEFINE grown == Stored(cache, k, r, now)
<1>1. IsCache(grown) /\ Cached(grown) = Cached(cache) \cup {k}
  BY StoredIsCache DEF TypeOK
<1>2. PICK D \in Evictions(grown) : cache' = Without(grown, D)
  BY DEF Set
<1>3. Cached(cache') = Cached(grown) \ D
  BY <1>1, <1>2, WithoutIsCache
<1>4. IsFiniteSet(Cached(grown))
  BY <1>1, FS_AddElement DEF CapacityInv
<1>5. IsFiniteSet(Cached(cache'))
  BY <1>3, <1>4, FS_Subset
<1>6. Cardinality(Cached(cache')) <= MaxEntries
  BY <1>2, <1>3 DEF Evictions
<1> QED BY <1>5, <1>6 DEF CapacityInv

\* The cap and the finiteness it rests on.
THEOREM CapacityInductive == Spec => []CapacityInv
<1>1. Init => CapacityInv
  <2> SUFFICES ASSUME Init PROVE CapacityInv
    OBVIOUS
  <2>1. Cached(cache) = {}
    BY EmptyIsCache DEF Init
  <2>2. IsFiniteSet({}) /\ Cardinality({}) = 0
    BY FS_EmptySet
  <2> QED BY <2>1, <2>2, CacheAssumption DEF CapacityInv
<1>2. TypeOK /\ CapacityInv /\ [Next]_vars => CapacityInv'
  <2> SUFFICES ASSUME TypeOK, CapacityInv, [Next]_vars PROVE CapacityInv'
    OBVIOUS
  <2>1. ASSUME NEW k \in CacheKey, GetAbsent(k) PROVE CapacityInv'
    BY <2>1, SmallerStaysWithin DEF GetAbsent
  <2>2. ASSUME NEW k \in CacheKey, GetExpired(k) PROVE CapacityInv'
    BY <2>2, WithoutIsCache, SmallerStaysWithin DEF GetExpired, TypeOK
  <2>3. ASSUME NEW k \in CacheKey, GetHit(k) PROVE CapacityInv'
    BY <2>3, TouchedIsCache, SmallerStaysWithin DEF GetHit, Live, TypeOK
  <2>4. ASSUME NEW k \in CacheKey, NEW r \in Result, Set(k, r) PROVE CapacityInv'
    BY <2>4, SetWithinCapacity
  <2>5. ASSUME NEW b \in Bucket, NEW key \in Key, Invalidate(b, key) PROVE CapacityInv'
    BY <2>5, WithoutIsCache, SmallerStaysWithin DEF Invalidate, TypeOK
  <2>6. CASE Clear
    BY <2>6, EmptyIsCache, SmallerStaysWithin DEF Clear
  <2>7. CASE Tick
    BY <2>7, SmallerStaysWithin DEF Tick
  <2>8. CASE UNCHANGED vars
    BY <2>8, SmallerStaysWithin DEF vars
  <2> QED BY <2>1, <2>2, <2>3, <2>4, <2>5, <2>6, <2>7, <2>8 DEF Next
<1> QED BY <1>1, <1>2, TypeCorrect, PTL DEF Spec

\* The hard cap of the constructor's comment, for every cap, key set and history.
THEOREM CapacityHolds == Spec => []WithinCapacity
<1>1. CapacityInv => WithinCapacity
  BY DEF CapacityInv, WithinCapacity
<1> QED BY <1>1, CapacityInductive, PTL
-----------------------------------------------------------------------------
(* Recency *)

\* The order that the history of uses induces on the keys the Map holds.
InOrder(c, used) == c.older = { p \in used : p[1] \in Cached(c) /\ p[2] \in Cached(c) }

\* Dropping keys keeps the order of the others.
LEMMA WithoutInOrder ==
    ASSUME NEW c, NEW used, NEW D, IsCache(c), InOrder(c, used)
    PROVE  InOrder(Without(c, D), used)
<1> DEFINE w == Without(c, D)
<1>1. Cached(w) = Cached(c) \ D
  BY WithoutIsCache
<1>2. w.older = { p \in c.older : p[1] \notin D /\ p[2] \notin D }
  BY DEF Without
<1>3. ASSUME NEW p
      PROVE  p \in w.older <=> p \in used /\ p[1] \in Cached(w) /\ p[2] \in Cached(w)
  BY <1>1, <1>2 DEF InOrder
<1> QED BY <1>3 DEF InOrder

\* Appending a key and making it the last used one keep the two orders equal.
LEMMA AppendedInOrder ==
    ASSUME NEW c, NEW used \in SUBSET (CacheKey \X CacheKey), NEW used2,
           NEW k \in CacheKey, NEW e \in Entry,
           IsCache(c), InOrder(c, used),
           used2 = { p \in used : p[1] # k } \cup { <<x, k>> : x \in CacheKey \ {k} }
    PROVE  InOrder(Appended(c, k, e), used2)
<1> DEFINE a == Appended(c, k, e)
<1>1. Cached(a) = Cached(c) \cup {k} /\ Cached(c) \subseteq CacheKey
  BY AppendedIsCache DEF IsCache
<1>2. a.older = { p \in c.older : p[1] # k /\ p[2] # k } \cup { <<x, k>> : x \in Cached(c) \ {k} }
  BY DEF Appended, Without
<1> QED BY <1>1, <1>2 DEF InOrder

\* set() keeps the order: the key is the newest, the evicted are gone.
LEMMA SetInOrder ==
    ASSUME TypeOK, RecencyOrder, NEW k \in CacheKey, NEW r \in Result, Set(k, r)
    PROVE  InOrder(Stored(cache, k, r, now), usedBefore')
<1>1. [result |-> r, expiresAt |-> now + Ttl] \in Entry
  BY CacheAssumption DEF TypeOK, Entry
<1>2. usedBefore' = { p \in usedBefore : p[1] # k } \cup { <<x, k>> : x \in CacheKey \ {k} }
  BY DEF Set, Used
<1>3. InOrder(cache, usedBefore)
  BY DEF RecencyOrder, InOrder
<1> QED BY <1>1, <1>2, <1>3, AppendedInOrder DEF TypeOK, Stored

\* The Map's iteration order is the order of last use, after any history.
THEOREM RecencyHolds == Spec => []RecencyOrder
<1>1. Init => RecencyOrder
  BY EmptyIsCache DEF Init, RecencyOrder, Empty
<1>2. TypeOK /\ RecencyOrder /\ [Next]_vars => RecencyOrder'
  <2> SUFFICES ASSUME TypeOK, InOrder(cache, usedBefore), [Next]_vars
               PROVE  InOrder(cache', usedBefore')
    BY DEF RecencyOrder, InOrder, Cached
  <2>1. ASSUME NEW k \in CacheKey, GetAbsent(k) PROVE InOrder(cache', usedBefore')
    BY <2>1 DEF GetAbsent
  <2>2. ASSUME NEW k \in CacheKey, GetExpired(k) PROVE InOrder(cache', usedBefore')
    BY <2>2, WithoutInOrder DEF GetExpired, TypeOK
  <2>3. ASSUME NEW k \in CacheKey, GetHit(k) PROVE InOrder(cache', usedBefore')
    <3>1. cache.entries[k] \in Entry
      BY <2>3, EntryOfCached DEF GetHit, Live, TypeOK
    <3> QED BY <2>3, <3>1, AppendedInOrder DEF GetHit, Touched, Used, TypeOK
  <2>4. ASSUME NEW k \in CacheKey, NEW r \in Result, Set(k, r)
        PROVE  InOrder(cache', usedBefore')
    <3>1. PICK D : cache' = Without(Stored(cache, k, r, now), D)
      BY <2>4 DEF Set
    <3>2. IsCache(Stored(cache, k, r, now))
      BY StoredIsCache DEF TypeOK
    <3>3. InOrder(Stored(cache, k, r, now), usedBefore')
      BY <2>4, SetInOrder DEF RecencyOrder, InOrder
    <3> QED BY <3>1, <3>2, <3>3, WithoutInOrder
  <2>5. ASSUME NEW b \in Bucket, NEW key \in Key, Invalidate(b, key)
        PROVE  InOrder(cache', usedBefore')
    BY <2>5, WithoutInOrder DEF Invalidate, TypeOK
  <2>6. CASE Clear
    BY <2>6, EmptyIsCache DEF Clear, InOrder, Empty
  <2>7. CASE Tick
    BY <2>7 DEF Tick
  <2>8. CASE UNCHANGED vars
    BY <2>8 DEF vars
  <2> QED BY <2>1, <2>2, <2>3, <2>4, <2>5, <2>6, <2>7, <2>8 DEF Next
<1> QED BY <1>1, <1>2, TypeCorrect, PTL DEF Spec
-----------------------------------------------------------------------------
(* Losses *)

\* What set() evicts was the least recently used of a full cache, and what it
\* keeps includes the new key.
LEMMA EvictionHasACause ==
    ASSUME TypeOK, CapacityInv, RecencyOrder,
           NEW n \in CacheKey, NEW r \in Result, Set(n, r), NEW k \in Lost
    PROVE  Cause(k)
<1> USE DEF Lost
<1> DEFINE grown == Stored(cache, n, r, now)
<1>1. IsCache(grown) /\ Cached(grown) = Cached(cache) \cup {n}
  BY StoredIsCache DEF TypeOK
<1>2. PICK D \in Evictions(grown) : cache' = Without(grown, D)
  BY DEF Set
<1>3. Cached(cache') = Cached(grown) \ D
  BY <1>1, <1>2, WithoutIsCache
<1>4. k \in D /\ D # {}
  BY <1>1, <1>3
<1>5. \A y \in Cached(cache') : <<k, y>> \in usedBefore'
  <2>1. \A y \in Cached(cache') : <<k, y>> \in grown.older
    BY <1>2, <1>3, <1>4 DEF Evictions
  <2> QED BY <2>1, SetInOrder DEF InOrder
<1>6. Cardinality(Cached(cache')) = MaxEntries
  BY <1>2, <1>3, <1>4 DEF Evictions
<1>7. CASE n \in D
  <2>1. SUFFICES ASSUME NEW y \in Cached(cache') PROVE FALSE
    BY DEF Cause
  <2>2. <<n, y>> \in grown.older /\ y # n
    BY <1>2, <1>3, <1>7 DEF Evictions
  <2>3. grown.older = Without(cache, {n}).older \cup { <<x, n>> : x \in Cached(cache) \ {n} }
    BY DEF Stored, Appended
  <2>4. <<n, y>> \notin Without(cache, {n}).older
    BY DEF Without
  <2> QED BY <2>2, <2>3, <2>4
<1>8. CASE n \notin D
  <2>1. IsFiniteSet(Cached(cache)) /\ Cardinality(Cached(cache)) <= MaxEntries
    BY DEF CapacityInv
  <2>2. n \notin Cached(cache)
    <3>1. SUFFICES ASSUME n \in Cached(cache) PROVE FALSE
      OBVIOUS
    <3>2. Cached(cache') \subseteq Cached(cache) /\ Cached(cache') # Cached(cache)
      BY <3>1, <1>1, <1>3
    <3>3. /\ Cardinality(Cached(cache')) <= Cardinality(Cached(cache))
          /\ Cardinality(Cached(cache)) # Cardinality(Cached(cache'))
      BY <3>2, <2>1, FS_Subset
    <3>4. Cardinality(Cached(cache)) \in Nat
      BY <2>1, FS_CardinalityType
    <3> QED BY <3>3, <3>4, <2>1, <1>6, CacheAssumption
  <2>3. Cached(cache') \ Cached(cache) # {}
    BY <2>2, <1>1, <1>3, <1>8
  <2>4. Cardinality(Cached(cache)) = MaxEntries
    <3>1. /\ IsFiniteSet(Cached(grown))
          /\ Cardinality(Cached(grown)) = Cardinality(Cached(cache)) + 1
      BY <1>1, <2>1, <2>2, FS_AddElement
    <3>2. Cached(cache') \subseteq Cached(grown) /\ Cached(cache') # Cached(grown)
      BY <1>1, <1>3, <1>4
    <3>3. /\ Cardinality(Cached(cache')) <= Cardinality(Cached(grown))
          /\ Cardinality(Cached(grown)) # Cardinality(Cached(cache'))
      BY <3>1, <3>2, FS_Subset
    <3>4. Cardinality(Cached(cache)) \in Nat
      BY <2>1, FS_CardinalityType
    <3> QED BY <3>1, <3>3, <3>4, <2>1, <1>6, CacheAssumption
  <2> QED BY <2>3, <2>4, <1>5, <1>6 DEF Cause, MadeRoom
<1> QED BY <1>7, <1>8

\* No step loses an entry without a cause.
LEMMA StepLosesForACause ==
    ASSUME TypeOK, CapacityInv, RecencyOrder, [Next]_vars, NEW k \in Lost
    PROVE  Cause(k)
<1> USE DEF Lost
<1>1. ASSUME NEW x \in CacheKey, GetAbsent(x) PROVE Cause(k)
  BY <1>1 DEF GetAbsent
<1>2. ASSUME NEW x \in CacheKey, GetExpired(x) PROVE Cause(k)
  <2>1. k = x
    BY <1>2, WithoutIsCache DEF GetExpired, TypeOK
  <2> QED BY <1>2, <2>1 DEF GetExpired, Cause
<1>3. ASSUME NEW x \in CacheKey, GetHit(x) PROVE Cause(k)
  BY <1>3, TouchedIsCache DEF GetHit, Live, TypeOK
<1>4. ASSUME NEW x \in CacheKey, NEW r \in Result, Set(x, r) PROVE Cause(k)
  BY <1>4, EvictionHasACause
<1>5. ASSUME NEW b \in Bucket, NEW key \in Key, Invalidate(b, key) PROVE Cause(k)
  <2>1. Cached(cache') = Cached(cache) \ HoldersOf(cache, b, key)
    BY <1>5, WithoutIsCache DEF Invalidate, TypeOK
  <2> QED BY <2>1 DEF HoldersOf, Cause, ObjectDeleted
<1>6. CASE Clear
  BY <1>6, EmptyIsCache DEF Clear, Cause
<1>7. CASE Tick
  BY <1>7 DEF Tick
<1>8. CASE UNCHANGED vars
  BY <1>8 DEF vars
<1> QED BY <1>1, <1>2, <1>3, <1>4, <1>5, <1>6, <1>7, <1>8 DEF Next

\* An entry never leaves the cache without one of the four causes.
THEOREM LossesHaveACause == Spec => LossHasACause
<1>1. TypeOK /\ CapacityInv /\ RecencyOrder /\ [Next]_vars
        => [\A k \in Lost : Cause(k)]_vars
  BY StepLosesForACause
<1> QED BY <1>1, TypeCorrect, CapacityInductive, RecencyHolds, PTL DEF Spec, LossHasACause
-----------------------------------------------------------------------------
(* The LRU implements the abstract memory. *)

\* The refinement mapping of Memory, for a cache value.
Remembered(c) ==
    [k \in Cached(c) |-> [ result   |-> c.entries[k].result,
                           storedAt |-> c.entries[k].expiresAt - Ttl ]]

\* An empty cache is an empty memory.
LEMMA InitRefines == Init => Memory!Init
BY DEF Init, Memory!Init, Empty, Cached

\* A fresh result is the one the cache holds as live.
LEMMA FreshIsLive ==
    ASSUME TypeOK, NEW k PROVE Memory!Fresh(k) <=> Live(cache, k, now)
<1>1. CASE k \in Cached(cache)
  <2>1. cache.entries[k].expiresAt \in Nat
    BY <1>1, EntryOfCached DEF TypeOK, Entry
  <2> QED BY <1>1, <2>1, CacheAssumption DEF Memory!Fresh, Memory!Known, Live, TypeOK
<1>2. CASE k \notin Cached(cache)
  BY <1>2 DEF Memory!Fresh, Memory!Known, Live
<1> QED BY <1>1, <1>2

\* Dropping keys forgets exactly those.
LEMMA WithoutRemembers ==
    ASSUME NEW c, NEW D, IsCache(c)
    PROVE  Remembered(Without(c, D)) = [k \in Cached(c) \ D |-> Remembered(c)[k]]
BY WithoutIsCache DEF Remembered

\* A touched cache remembers what it remembered.
LEMMA TouchRemembers ==
    ASSUME NEW c, NEW k \in Cached(c), IsCache(c)
    PROVE  Remembered(Touched(c, k)) = Remembered(c)
BY TouchedIsCache DEF Remembered

\* A hit of get() recalls.
LEMMA HitRefines ==
    ASSUME TypeOK, NEW k \in CacheKey, GetHit(k) PROVE Memory!Recall(k)
<1>1. k \in Cached(cache) /\ Memory!Fresh(k)
  BY FreshIsLive DEF GetHit, Live
<1>2. Remembered(cache') = Remembered(cache)
  BY <1>1, TouchRemembers DEF GetHit, TypeOK
<1>3. answer' = {Remembered(cache)[k].result}
  BY <1>1 DEF GetHit, Remembered
<1> QED BY <1>1, <1>2, <1>3 DEF GetHit, Memory!Recall, Remembered, Cached

\* A miss of get(), with or without an expired entry, declines.
LEMMA MissRefines ==
    ASSUME TypeOK, NEW k \in CacheKey, GetAbsent(k) \/ GetExpired(k) PROVE Memory!Decline(k)
<1>1. ~Memory!Fresh(k)
  BY FreshIsLive DEF GetAbsent, GetExpired, Live
<1>2. CASE GetAbsent(k)
  BY <1>1, <1>2 DEF GetAbsent, Memory!Decline
<1>3. CASE GetExpired(k)
  <2>1. Remembered(cache') = [x \in Cached(cache) \ {k} |-> Remembered(cache)[x]]
    BY <1>3, WithoutRemembers DEF GetExpired, TypeOK
  <2> QED BY <1>1, <1>3, <2>1 DEF GetExpired, Memory!Decline, Memory!Known, Remembered, Cached
<1> QED BY <1>2, <1>3

\* What set() stores is learnt now; what it evicts is the cost.
LEMMA SetRefines ==
    ASSUME TypeOK, NEW k \in CacheKey, NEW r \in Result, Set(k, r) PROVE Memory!Remember(k, r)
<1> DEFINE grown == Stored(cache, k, r, now)
           kept  == Cached(cache')
           learnt == [x \in Cached(cache) \cup {k} |->
                        IF x = k THEN [result |-> r, storedAt |-> now] ELSE Remembered(cache)[x]]
<1>1. /\ IsCache(grown)
      /\ Cached(grown) = Cached(cache) \cup {k}
      /\ grown.entries[k] = [result |-> r, expiresAt |-> now + Ttl]
      /\ \A x \in Cached(cache) \ {k} : grown.entries[x] = cache.entries[x]
  BY StoredIsCache DEF TypeOK
<1>2. PICK D : cache' = Without(grown, D)
  BY DEF Set
<1>3. kept = Cached(grown) \ D /\ kept \subseteq Cached(cache) \cup {k}
  BY <1>1, <1>2, WithoutIsCache
<1>4. Remembered(grown) = learnt
  <2>1. (now + Ttl) - Ttl = now
    BY CacheAssumption DEF TypeOK
  <2>2. Remembered(grown) = [x \in Cached(grown) |-> Remembered(grown)[x]]
    BY DEF Remembered
  <2>3. Remembered(grown)[k] = learnt[k]
    BY <1>1, <2>1 DEF Remembered
  <2>4. \A x \in Cached(cache) \ {k} : Remembered(grown)[x] = learnt[x]
    BY <1>1 DEF Remembered
  <2> HIDE DEF grown
  <2>5. \A x \in Cached(grown) : Remembered(grown)[x] = learnt[x]
    BY <1>1, <2>3, <2>4
  <2> QED BY <1>1, <2>2, <2>5
<1>5. Remembered(cache') = [x \in kept |-> learnt[x]]
  <2> HIDE DEF grown, kept, learnt
  <2>1. Remembered(Without(grown, D)) = [x \in Cached(grown) \ D |-> Remembered(grown)[x]]
    BY <1>1, WithoutRemembers
  <2> QED BY <1>2, <1>3, <1>4, <2>1
<1>6. answer' = {} /\ UNCHANGED now
  BY DEF Set
<1>7. learnt = Memory!Learnt(k, r)
  BY DEF Memory!Learnt, Memory!Known, Remembered
<1>8. kept \in SUBSET (Memory!Known \cup {k})
  BY <1>3 DEF Memory!Known
<1>9. Remembered(cache') = [x \in kept |-> Memory!Learnt(k, r)[x]]
  BY <1>5, <1>7
<1> QED BY <1>6, <1>8, <1>9 DEF Memory!Remember, Remembered, Cached

\* invalidate() withdraws what it drops.
LEMMA InvalidateRefines ==
    ASSUME TypeOK, NEW b \in Bucket, NEW key \in Key, Invalidate(b, key)
    PROVE  Memory!Withdraw(b, key)
<1>1. Remembered(cache') = [x \in Cached(cache) \ HoldersOf(cache, b, key) |-> Remembered(cache)[x]]
  BY WithoutRemembers DEF Invalidate, TypeOK
<1>2. Cached(cache) \ HoldersOf(cache, b, key)
        = { k \in Cached(cache) : ~(/\ Remembered(cache)[k].result.bucket = b
                                    /\ Remembered(cache)[k].result.key = key) }
  BY DEF HoldersOf, Remembered
<1> QED BY <1>1, <1>2 DEF Invalidate, Memory!Withdraw, Memory!Known, Remembered, Cached

\* Every step of the cache is one of the memory, or none.
LEMMA StepRefines == TypeOK /\ [Next]_vars => [Memory!Next]_(Memory!vars)
<1> SUFFICES ASSUME TypeOK, [Next]_vars PROVE [Memory!Next]_(Memory!vars)
  OBVIOUS
<1>1. ASSUME NEW k \in CacheKey, GetAbsent(k) \/ GetExpired(k) PROVE Memory!Next
  BY <1>1, MissRefines DEF Memory!Next
<1>2. ASSUME NEW k \in CacheKey, GetHit(k) PROVE Memory!Next
  BY <1>2, HitRefines DEF Memory!Next
<1>3. ASSUME NEW k \in CacheKey, NEW r \in Result, Set(k, r) PROVE Memory!Next
  BY <1>3, SetRefines DEF Memory!Next
<1>4. ASSUME NEW b \in Bucket, NEW key \in Key, Invalidate(b, key) PROVE Memory!Next
  BY <1>4, InvalidateRefines DEF Memory!Next
<1>5. CASE Clear
  BY <1>5 DEF Clear, Empty, Cached, Memory!Next, Memory!ForgetAll
<1>6. CASE Tick
  BY <1>6 DEF Tick, Memory!Next, Memory!Pass
<1>7. CASE UNCHANGED vars
  BY <1>7 DEF vars, Memory!vars
<1> QED BY <1>1, <1>2, <1>3, <1>4, <1>5, <1>6, <1>7 DEF Next

\* The Map of entries and their order implements the memory that may only forget
\* when it learns: no hit extends a life, answers late, or answers for an object
\* that was withdrawn.
THEOREM CacheImplementsMemory == Spec => ImplementsUploadMemory
<1> QED BY InitRefines, StepRefines, TypeCorrect, PTL
        DEF Spec, ImplementsUploadMemory, Memory!Spec
=============================================================================
