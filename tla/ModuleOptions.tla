---------------------------- MODULE ModuleOptions ----------------------------
(***************************************************************************)
(* src/server/config: the options a consumer gives the module, what the    *)
(* provider recipes make of a bucket and a region, and what the services   *)
(* get of them; and the public URL of an object.                           *)
(*                                                                         *)
(* A bucket's name is its labels, one of them or several with dots between *)
(* them; a slash is in no bucket's name. A URL is the labels of its host   *)
(* and the segments of its path, a segment being labels too, so that it    *)
(* may be a bucket's name; trailing slashes are empty segments at the end. *)
(* A number is an integer or NaN. Options nothing depends on here (headers,*)
(* ACL, queue size, attempts) are passed on as they are.                   *)
(***************************************************************************)
EXTENDS Integers, Sequences

CONSTANTS
    Region,         \* a name, as a host label
    Endpoint,       \* of a self-hosted provider
    CustomDomain,   \* in front of an R2 bucket
    Unset, NaN,     \* undefined, and the number that is none
    MinPartSize,    \* MIN_PART_SIZE_BYTES, and the default part size
    MaxTtl,         \* MAX_SIGNED_URL_TTL_SECONDS
    Timeout         \* DEFAULT_REQUEST_TIMEOUT_MS

Labels == Seq(STRING)
Url == [host : Labels \ {<<>>}, path : Seq(Labels)]
Empty == <<"">>

Number == Int \cup {NaN}

ASSUME OptionsAssumption ==
    /\ {Endpoint, CustomDomain} \subseteq Url
    /\ {MinPartSize, MaxTtl, Timeout} \subseteq Nat \ {0}
    /\ Unset \notin Int \cup {"WHEN_REQUIRED"}
    /\ NaN \notin Int \cup {Unset}

\* shape: the mandatory fields are there. provider: the recipe, "" for none.
Options == [ provider : STRING, shape : BOOLEAN, bucket : Labels \ {<<>>},
             credentials : BOOLEAN, endpoint : Url,
             publicBaseUrl : Url \cup {Unset}, cdnBaseUrl : Url \cup {Unset},
             maxTtlSeconds : Number \cup {Unset}, partSizeBytes : Number \cup {Unset},
             requestTimeoutMs : Number \cup {Unset}, uploadIdleTimeoutMs : Number \cup {Unset},
             kms : BOOLEAN, kmsKeyId : BOOLEAN, checksum : STRING \cup {Unset},
             validators : BOOLEAN, scanner : BOOLEAN ]

Resolved == [ hasCredentials : BOOLEAN, bucket : Labels \ {<<>>}, base : Url,
              maxTtlSeconds : Number, partSizeBytes : Number, uploadIdleTimeoutMs : Number,
              kms : BOOLEAN, kmsKeyId : BOOLEAN, checksum : STRING,
              validators : BOOLEAN, scanner : BOOLEAN ]
-----------------------------------------------------------------------------
TrimTrailingSlashes(url) ==
    LET last == { i \in DOMAIN url.path : url.path[i] # Empty }
    IN  [url EXCEPT !.path =
            SubSeq(@, 1, IF last = {} THEN 0 ELSE CHOOSE i \in last : \A j \in last : j <= i)]

Host(labels) == [host |-> labels, path |-> <<>>]

\* The addresses of a recipe: of the API, of public reads, of a CDN.
Addresses(provider, bucket) ==
    CASE provider = "awsS3" ->
           << Host(<<"s3", Region, "amazonaws", "com">>),
              Host(bucket \o <<"s3", Region, "amazonaws", "com">>), Unset >>
      [] provider = "digitalOceanSpaces" ->
           << Host(<<Region, "digitaloceanspaces", "com">>),
              Host(bucket \o <<Region, "digitaloceanspaces", "com">>),
              Host(bucket \o <<Region, "cdn", "digitaloceanspaces", "com">>) >>
      [] provider = "cloudflareR2" ->
           << Host(<<"account", "r2", "cloudflarestorage", "com">>), CustomDomain, Unset >>
      [] provider = "backblazeB2" ->
           << Host(<<"s3", Region, "backblazeb2", "com">>),
              Host(bucket \o <<"s3", Region, "backblazeb2", "com">>), Unset >>
      [] provider = "minio" ->
           << Endpoint,
              [host |-> Endpoint.host, path |-> Append(TrimTrailingSlashes(Endpoint).path, bucket)],
              Unset >>
      [] provider = "wasabi" ->
           << Host(<<"s3", Region, "wasabisys", "com">>),
              Host(bucket \o <<"s3", Region, "wasabisys", "com">>), Unset >>

Providers == {"awsS3", "digitalOceanSpaces", "cloudflareR2", "backblazeB2", "minio", "wasabi"}

\* Every provider but AWS opts out of checksums it would reject.
Recipe(provider, bucket, credentials) ==
    LET addresses == Addresses(provider, bucket)
    IN  [ provider |-> provider, shape |-> TRUE, bucket |-> bucket,
          credentials |-> credentials, endpoint |-> addresses[1], publicBaseUrl |-> addresses[2], cdnBaseUrl |-> addresses[3],
          maxTtlSeconds |-> Unset, partSizeBytes |-> Unset, requestTimeoutMs |-> Unset,
          uploadIdleTimeoutMs |-> Unset, kms |-> FALSE, kmsKeyId |-> FALSE,
          checksum |-> IF provider = "awsS3" THEN Unset ELSE "WHEN_REQUIRED",
          validators |-> FALSE, scanner |-> FALSE ]

\* What is undefined or NaN is below nothing.
Below(value, least) == value \in Int /\ value < least

\* validateOptions(): what is given must be usable. Credentials may be empty, the
\* request timeout may be anything, and NaN is refused as an idle limit alone.
Valid(o) ==
    /\ o.shape
    /\ ~Below(o.maxTtlSeconds, 1)
    /\ ~Below(o.partSizeBytes, MinPartSize)
    /\ o.uploadIdleTimeoutMs = Unset \/ o.uploadIdleTimeoutMs \in Nat
    /\ o.kms => o.kmsKeyId

Or(value, default) == IF value = Unset THEN default ELSE value

\* Math.min(): NaN when either is.
Smaller(a, b) == IF NaN \in {a, b} THEN NaN ELSE IF a <= b THEN a ELSE b

\* applyDefaults(), with the base of public URLs the services choose from it.
ApplyDefaults(o) ==
    [ hasCredentials |-> o.credentials, bucket |-> o.bucket,
      base |-> TrimTrailingSlashes(
                 Or(o.cdnBaseUrl,
                    Or(o.publicBaseUrl,
                       [host |-> o.endpoint.host,
                        path |-> Append(TrimTrailingSlashes(o.endpoint).path, o.bucket)]))),
      maxTtlSeconds |-> Smaller(Or(o.maxTtlSeconds, MaxTtl), MaxTtl),
      partSizeBytes |-> Or(o.partSizeBytes, MinPartSize),
      uploadIdleTimeoutMs |-> Or(o.uploadIdleTimeoutMs, Or(o.requestTimeoutMs, Timeout)),
      kms |-> o.kms, kmsKeyId |-> o.kmsKeyId,
      checksum |-> Or(o.checksum, "WHEN_SUPPORTED"),
      validators |-> o.validators, scanner |-> o.scanner ]

\* Fault: the path alone is looked at.
BaseCarriesBucketInPath(base, bucket) == \E i \in DOMAIN base.path : base.path[i] = bucket

\* A segment of the path, or the first label of the host: that label is never the
\* name of a bucket that has several.
BaseCarriesBucket(base, bucket) ==
    <<base.host[1]>> = bucket \/ \E i \in DOMAIN base.path : base.path[i] = bucket

\* getPublicUrl() of a key, in the default bucket.
PublicUrl(resolved, key) ==
    [resolved.base EXCEPT !.path =
        @ \o (IF BaseCarriesBucket(resolved.base, resolved.bucket) THEN <<>>
                                                                 ELSE <<resolved.bucket>>)
          \o key]
=============================================================================
