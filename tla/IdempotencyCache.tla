-------------------------- MODULE IdempotencyCache --------------------------
(***************************************************************************)
(* The IdempotencyCache class on its own: one action per outcome of each   *)
(* method, with time passing between calls. Every method is synchronous,   *)
(* so a call is one step. Date.now() is a clock that only advances here.   *)
(***************************************************************************)
EXTENDS CacheOps

CONSTANT MaxTime  \* bound: the clock stops here

ASSUME TimeAssumption == MaxTime \in Nat

VARIABLES
    cache,
    now,
    answer,     \* what the last get() returned: {} for undefined, {r} for r
    usedBefore  \* history, for RecencyOrder: <<x, y>> when the last set() or hit
                \* of x came before that of y

vars == <<cache, now, answer, usedBefore>>

Init ==
    /\ cache = Empty
    /\ now = 0
    /\ answer = {}
    /\ usedBefore = {}

Used(k) ==
    usedBefore' = { p \in usedBefore : p[1] # k }
                      \cup { <<x, k>> : x \in CacheKey \ {k} }

\* get(): the key is not there.
GetAbsent(k) ==
    /\ k \notin Cached(cache)
    /\ answer' = {}
    /\ UNCHANGED <<cache, now, usedBefore>>

\* get(): the entry has expired; it is dropped and reported as a miss.
GetExpired(k) ==
    /\ k \in Cached(cache) /\ ~Live(cache, k, now)
    /\ cache' = Without(cache, {k})
    /\ answer' = {}
    /\ UNCHANGED <<now, usedBefore>>

\* get(): a hit moves the entry, with its expiry unchanged, to the newest place.
GetHit(k) ==
    /\ Live(cache, k, now)
    /\ cache' = Touched(cache, k)
    /\ answer' = {cache.entries[k].result}
    /\ Used(k)
    /\ UNCHANGED now

\* set(): insert as newest, then evict oldest-first down to the cap. upload()
\* computes k from the key the result names.
Set(k, r) ==
    /\ k[2] = r.key
    /\ LET grown == Stored(cache, k, r, now)
       IN  \E D \in Evictions(grown) : cache' = Without(grown, D)
    /\ answer' = {}
    /\ Used(k)
    /\ UNCHANGED now

\* invalidate(): drop every entry whose result is this object.
Invalidate(b, key) ==
    /\ cache' = Without(cache, HoldersOf(cache, b, key))
    /\ answer' = {}
    /\ UNCHANGED <<now, usedBefore>>

Clear ==
    /\ cache' = Empty
    /\ answer' = {}
    /\ UNCHANGED <<now, usedBefore>>

Tick ==
    /\ now < MaxTime
    /\ now' = now + 1
    /\ UNCHANGED <<cache, answer, usedBefore>>

Next ==
    \/ \E k \in CacheKey : GetAbsent(k) \/ GetExpired(k) \/ GetHit(k)
    \/ \E k \in CacheKey, r \in Result : Set(k, r)
    \/ \E b \in Bucket, key \in Key : Invalidate(b, key)
    \/ Clear
    \/ Tick

Spec == Init /\ [][Next]_vars
-----------------------------------------------------------------------------
\* The state is well formed, and the Map's order relates only keys it holds.
TypeOK ==
    /\ IsCache(cache)
    /\ now \in Nat
    /\ answer \in SUBSET Result
    /\ usedBefore \in SUBSET (CacheKey \X CacheKey)

\* The cap is hard: no sequence of calls leaves more than MaxEntries entries
\* (the loop in set(), the only method that adds a key).
WithinCapacity == Cardinality(Cached(cache)) <= MaxEntries

\* The Map's order is the order of last use, over every entry that survived any
\* mix of hits, overwrites, evictions and invalidations: the delete-and-reinsert
\* of get() and set() keeps `the first key in iteration order' meaning `the
\* least recently used'.
RecencyOrder ==
    cache.older = { p \in usedBefore : p[1] \in Cached(cache) /\ p[2] \in Cached(cache) }

\* Why a key k that a step removes may go: it had expired; the step cleared
\* everything; the step removed exactly the entries of k's object; or the step
\* brought a new key into a full cache, which is full again, and every entry left
\* was used after k.
Lost == Cached(cache) \ Cached(cache')
ObjectDeleted(k) ==
    \A x \in Cached(cache) :
        x \in Lost <=> /\ cache.entries[x].result.bucket = cache.entries[k].result.bucket
                      /\ cache.entries[x].result.key = cache.entries[k].result.key
MadeRoom(k) ==
    /\ Cardinality(Cached(cache)) = MaxEntries
    /\ Cardinality(Cached(cache')) = MaxEntries
    /\ Cached(cache') \ Cached(cache) # {}
    /\ \A y \in Cached(cache') : <<k, y>> \in usedBefore'
Cause(k) ==
    ~Live(cache, k, now) \/ Cached(cache') = {} \/ ObjectDeleted(k) \/ MadeRoom(k)

\* A retry is only paid for twice for a reason: no call drops an entry without
\* one of these causes.
LossHasACause == [][\A k \in Lost : Cause(k)]_vars

Memory == INSTANCE UploadMemory WITH
    memory <- [k \in Cached(cache) |->
                 [ result   |-> cache.entries[k].result,
                   storedAt |-> cache.entries[k].expiresAt - Ttl ]],
    clock  <- now

\* The LRU implements the promise of UploadMemory: a hit never extends an
\* entry's life, never answers an expired or withdrawn result, and answers the
\* one stored last.
ImplementsUploadMemory == Memory!Spec
=============================================================================
