------------------------------ MODULE CacheOps ------------------------------
(***************************************************************************)
(* The data structure of src/server/utils/idempotency-cache.ts: a JS Map   *)
(* from a hashed cache key to an upload result with an expiry instant.     *)
(* The Map's iteration order is what makes it an LRU, so it is part of the *)
(* value: `older' holds <<x, y>> when x comes before y in that order.      *)
(*                                                                         *)
(* The operators are the Map updates each method performs; the state       *)
(* machines that use them are IdempotencyCache (the class on its own) and  *)
(* StorageService (its only caller).                                       *)
(***************************************************************************)
EXTENDS Naturals, FiniteSets

CONSTANTS
    IdemKey,     \* the idempotency keys callers supply
    Key,         \* object keys, relative to keyPrefix
    Bucket,
    Upload,      \* identities of upload() calls; one stands for the ETag it got
    MaxEntries,  \* the cap given to the constructor
    Ttl          \* lifetime of an entry, in clock ticks

ASSUME CacheAssumption == MaxEntries \in Nat /\ Ttl \in Nat

\* Fault: the hash leaves the object key out.
UnscopedKey(idem, key) == <<idem>>

\* sha256 of JSON.stringify([idempotencyKey, finalKey]): an injective encoding
\* of the pair. The bucket is not part of it.
ComputeKey(idem, key) == <<idem, key>>
CacheKey == IdemKey \X Key

\* What the properties tell apart of an UploadResult.
Result == [bucket : Bucket, key : Key, upload : Upload]
Entry  == [result : Result, expiresAt : Nat]

Empty == [entries |-> [k \in {} |-> {}], older |-> {}]

Cached(c) == DOMAIN c.entries

IsCache(c) ==
    /\ c = [entries |-> c.entries, older |-> c.older]
    /\ Cached(c) \subseteq CacheKey
    /\ c.entries \in [Cached(c) -> Entry]
    /\ c.older \subseteq Cached(c) \X Cached(c)

\* Fault: an entry still answers at its expiry instant.
LiveAtExpiry(c, k, t) == k \in Cached(c) /\ t <= c.entries[k].expiresAt

\* An entry lives strictly before its expiry instant.
Live(c, k, t) == k \in Cached(c) /\ t < c.entries[k].expiresAt

\* Fault: a delete that leaves the key in the order.
WithoutUnlinking(c, D) ==
    [entries |-> [k \in Cached(c) \ D |-> c.entries[k]], older |-> c.older]

\* Map.delete for each key of D.
Without(c, D) ==
    [ entries |-> [k \in Cached(c) \ D |-> c.entries[k]],
      older   |-> { p \in c.older : p[1] \notin D /\ p[2] \notin D } ]

\* Map.delete(k) followed by Map.set(k, e): k becomes the newest key.
Appended(c, k, e) ==
    [ entries |-> [x \in Cached(c) \cup {k} |-> IF x = k THEN e ELSE c.entries[x]],
      older   |-> Without(c, {k}).older \cup { <<x, k>> : x \in Cached(c) \ {k} } ]

\* Fault: a hit that does not re-insert.
Untouched(c, k) == c

\* The LRU touch of get(): same entry, newest position.
Touched(c, k) == Appended(c, k, c.entries[k])

\* The insertion of set(), before anything is evicted.
Stored(c, k, r, t) == Appended(c, k, [result |-> r, expiresAt |-> t + Ttl])

\* Fault: the loop starts one entry too late.
EvictionsOneLate(c) ==
    { D \in SUBSET Cached(c) :
        /\ \A x \in D, y \in Cached(c) \ D : <<x, y>> \in c.older
        /\ Cardinality(Cached(c) \ D) <= MaxEntries + 1
        /\ D # {} => Cardinality(Cached(c) \ D) = MaxEntries + 1 }

\* What set()'s loop can remove: a run of the oldest keys, no longer than it
\* takes to come back to the cap. There is exactly one such set.
Evictions(c) ==
    { D \in SUBSET Cached(c) :
        /\ \A x \in D, y \in Cached(c) \ D : <<x, y>> \in c.older
        /\ Cardinality(Cached(c) \ D) <= MaxEntries
        /\ D # {} => Cardinality(Cached(c) \ D) = MaxEntries }

\* Faults: the object's key is compared with its prefixed form, which matches no
\* entry; the bucket is not compared.
HoldersOfPrefixedKey(c, b, key) == {}
HoldersInAnyBucket(c, b, key) == { k \in Cached(c) : c.entries[k].result.key = key }

\* The cache keys whose remembered result is this object.
HoldersOf(c, b, key) ==
    { k \in Cached(c) : c.entries[k].result.bucket = b /\ c.entries[k].result.key = key }
=============================================================================
