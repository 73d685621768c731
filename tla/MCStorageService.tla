-------------------------- MODULE MCStorageService --------------------------
(***************************************************************************)
(* Instances of StorageService for TLC. Calls are interchangeable, so the  *)
(* safety runs use them as a symmetry set.                                 *)
(***************************************************************************)
EXTENDS StorageService, TLC

CONSTANTS b1, b2, k1, k2, i1

Ask(bucket, idem, stream, multipart) ==
    [op |-> "upload", bucket |-> bucket, key |-> k1, idem |-> idem,
     stream |-> stream, multipart |-> multipart]

\* A small buffer sent in one request, a large stream sent in parts, and a large
\* stream without an idempotency key.
MCUploadAsk == { Ask(b1, i1, FALSE, FALSE), Ask(b1, i1, TRUE, TRUE), Ask(b1, NoIdem, TRUE, TRUE) }

\* The same upload asked for in two buckets.
TwoBucketAsk == { Ask(b1, i1, FALSE, FALSE), Ask(b2, i1, FALSE, FALSE) }
MCDeleteAsk == { [op |-> "delete", bucket |-> b1, key |-> k1] }
MCBatchAsk  == { [op |-> "deleteMany", bucket |-> b1, keys |-> {k1, k2}] }
AnyBatchAsk == MCBatchAsk \cup {[op |-> "deleteMany", bucket |-> b1, keys |-> {}]}
MCCopyAsk   == { [op |-> "copy", from |-> <<b1, k1>>, bucket |-> b1, key |-> k2] }

\* Every scanner mode under the idle guard, and no scanner without it; the scanner
\* off or after the upload; and no scanner.
AnyConfig == { cf \in Config : cf.idleGuard \/ cf.scanner = "off" }
PostUploadConfig == { cf \in Config : cf.scanner # "pre-upload" /\ cf.idleGuard }
PlainConfig == { cf \in Config : cf.scanner = "off" /\ cf.idleGuard }

CallSymmetry == Permutations(Call)
=============================================================================
