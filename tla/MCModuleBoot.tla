---------------------------- MODULE MCModuleBoot ----------------------------
(***************************************************************************)
(* The six recipes, with and without credentials, for a bucket of one      *)
(* label and one of two, and options overridden one at a time, at their    *)
(* limits and beyond.                                                      *)
(***************************************************************************)
EXTENDS ModuleBoot, TLC

MCEndpoint == [host |-> <<"localhost">>, path |-> <<Empty, Empty>>]
MCCustomDomain == [host |-> <<"cdn", "example", "com">>, path |-> <<>>]

Bucket == <<"bucket">>
Dotted == <<"my", "bucket">>

Aws == Recipe("awsS3", Bucket, TRUE)
SelfHosted == [Recipe("minio", Bucket, TRUE) EXCEPT !.provider = "", !.publicBaseUrl = Unset]

RecipesOf(bucket) == { Recipe(p, bucket, c) : p \in Providers, c \in BOOLEAN }

\* Request timeouts below, at and above zero, which the idle limit follows.
AnyTimeout == { [SelfHosted EXCEPT !.requestTimeoutMs = n] : n \in -1..1 }

MCGiven ==
    RecipesOf(Bucket) \cup RecipesOf(Dotted) \cup AnyTimeout
    \cup { [Aws EXCEPT !.shape = FALSE], [Aws EXCEPT !.requestTimeoutMs = NaN] }
    \cup { [Aws EXCEPT !.maxTtlSeconds = n] : n \in {0, 1, MaxTtl + 1, NaN} }
    \cup { [Aws EXCEPT !.partSizeBytes = n] : n \in {MinPartSize - 1, MinPartSize + 1, NaN} }
    \cup { [Aws EXCEPT !.uploadIdleTimeoutMs = n, !.requestTimeoutMs = -1] : n \in {-1, 0, NaN} }
    \cup { [Aws EXCEPT !.kms = TRUE, !.kmsKeyId = b] : b \in BOOLEAN }
    \cup { [Aws EXCEPT !.validators = TRUE], [Aws EXCEPT !.scanner = TRUE] }
    \cup { SelfHosted, [SelfHosted EXCEPT !.bucket = Dotted] }
=============================================================================
