-------------------------- MODULE MCBucketLifecycle --------------------------
(***************************************************************************)
(* Two modules, "a/" and "b/", over a bucket that may hold a rule of the   *)
(* first and one of neither.                                               *)
(***************************************************************************)
EXTENDS BucketLifecycle, TLC

CONSTANTS a, b, r, f

MCRawPrefix == (a :> <<"", "a">>) @@ (b :> <<"b">>)

OfA     == [kind |-> "expire", prefix |-> <<"a", "tmp", "">>, days |-> 7]
OfNone  == [kind |-> "other", prefix |-> <<>>, days |-> 0]
With(x, y) == (r :> x) @@ (f :> y)
MCInitialConfigs == { Empty,
                      [rules |-> With(OfA, NoRule), setting |-> "varies"],
                      [rules |-> With(OfA, OfNone), setting |-> "varies"] }

Upsert(id, prefix, expire, abort) ==
    [op |-> "upsert", id |-> id, prefix |-> prefix, expirationDays |-> expire,
     abortIncompleteMultipartDays |-> abort, bucket |-> TRUE]

MCAsk == { Upsert(r, <<"tmp", "", "x">>, 1, Unset),
           Upsert(f, EmptyText, Unset, 1),
           [op |-> "remove", id |-> r, bucket |-> TRUE],
           [op |-> "get", bucket |-> TRUE],
           Upsert(r, <<"x", "..">>, 1, Unset),
           Upsert(r, EmptyText, 0, 1),
           [op |-> "remove", id |-> BadId, bucket |-> TRUE],
           [op |-> "get", bucket |-> FALSE] }

Error(name, status) == [name |-> name, Code |-> "", status |-> status]
MCRefusedErrors == { Error("NotImplemented", 501), Error("MalformedXML", 400), Error("NoSuchBucket", 404) }
MCFailedErrors == { Error("TimeoutError", 0), Error("InternalError", 500) }

CallSymmetry == Permutations(Call)
=============================================================================
