---------------------------- MODULE UploadMemory ----------------------------
(***************************************************************************)
(* What an idempotency cache promises, with no word about how: a memory of *)
(* upload results that may forget when it learns something new, but that   *)
(* answers a question with the last result stored under that key, only for *)
(* Ttl ticks after it was stored, and never with an object it was told is  *)
(* gone. IdempotencyCache implements it.                                   *)
(***************************************************************************)
EXTENDS Naturals

CONSTANTS CacheKey, Bucket, Key, Result, Ttl

VARIABLES
    memory,  \* partial function: key -> the result and when it was stored
    clock,
    answer   \* what the last call returned: {} for nothing, {r} for a result

vars == <<memory, clock, answer>>

Init == memory = [k \in {} |-> {}] /\ clock = 0 /\ answer = {}

Known == DOMAIN memory
Fresh(k) == k \in Known /\ clock < memory[k].storedAt + Ttl

Learnt(k, r) ==
    [x \in Known \cup {k} |-> IF x = k THEN [result |-> r, storedAt |-> clock]
                                       ELSE memory[x]]

\* A key whose answer is fresh is answered.
Recall(k) ==
    /\ Fresh(k)
    /\ answer' = {memory[k].result}
    /\ UNCHANGED <<memory, clock>>

\* Any other key is not, and a stale one may be forgotten.
Decline(k) ==
    /\ ~Fresh(k)
    /\ answer' = {}
    /\ memory' \in {memory, [x \in Known \ {k} |-> memory[x]]}
    /\ UNCHANGED clock

\* Learning may cost any of what was known.
Remember(k, r) ==
    /\ answer' = {}
    /\ \E kept \in SUBSET (Known \cup {k}) : memory' = [x \in kept |-> Learnt(k, r)[x]]
    /\ UNCHANGED clock

\* Being told an object is gone costs every result that names it, no other.
Withdraw(b, key) ==
    /\ answer' = {}
    /\ memory' = [x \in { k \in Known : ~(/\ memory[k].result.bucket = b
                                          /\ memory[k].result.key = key) } |-> memory[x]]
    /\ UNCHANGED clock

ForgetAll == answer' = {} /\ memory' = [k \in {} |-> {}] /\ UNCHANGED clock

Pass == clock' = clock + 1 /\ UNCHANGED <<memory, answer>>

Next ==
    \/ \E k \in CacheKey : Recall(k) \/ Decline(k)
    \/ \E k \in CacheKey, r \in Result : Remember(k, r)
    \/ \E b \in Bucket, key \in Key : Withdraw(b, key)
    \/ ForgetAll
    \/ Pass

Spec == Init /\ [][Next]_vars
=============================================================================
