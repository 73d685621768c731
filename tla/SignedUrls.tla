----------------------------- MODULE SignedUrls -----------------------------
(***************************************************************************)
(* src/server/services/signed-url.service.ts: getDownloadUrl, getUploadUrl *)
(* and getMultipartUploadUrls, the provider that honours the URLs, and the *)
(* holders who use them, as often as they like.                            *)
(*                                                                         *)
(* Signing is local but asynchronous: time passes between a signature,     *)
(* which carries its own date, and the answer. Time is in seconds, the     *)
(* precision of that date. A multipart call first opens an upload at the   *)
(* provider, whose answer may be lost; nothing ever aborts it.             *)
(***************************************************************************)
EXTENDS Integers, Sequences, FiniteSets, ErrorMappers

CONSTANTS
    Call,               \* calls; each is made at most once
    Key, BadKey,        \* object keys, and one normalize() refuses
    Ask,                \* what the service may be called with
    Whitelist,          \* validation.mimeWhitelist; none configured is {}
    DefaultTtl,         \* signedUrls.defaultGetTtlSeconds, defaultPutTtlSeconds
    ConfiguredMax,      \* signedUrls.maxTtlSeconds as configured
    Ceiling,            \* MAX_SIGNED_URL_TTL_SECONDS
    MaxParts,           \* MAX_MULTIPART_PARTS
    SentTypes,          \* content types the holder of a URL may send
    ClientErrors,       \* errors of CreateMultipartUpload
    Unset,              \* undefined
    NoObject,
    MaxTime             \* bound: the clock stops here

\* A content type is the list of its comma-separated media types, each a type
\* and a subtype; parameters and case are left out. A browser takes the last.
Mime == Seq(STRING \X STRING)
Served(mime) == mime[Len(mime)]

Operation == {"get", "put", "multipart"}
Options == [ op : Operation, key : Key \cup {BadKey}, bucket : BOOLEAN,
             ttlSeconds : Int \cup {Unset}, contentType : Mime, parts : Nat ]

ASSUME SignedUrlAssumption ==
    /\ Ask \subseteq Options
    /\ {DefaultTtl, ConfiguredMax, Ceiling, MaxParts, MaxTime} \subseteq Nat
    /\ ConfiguredMax > 0 /\ Ceiling > 0
    /\ Unset \notin Int
    /\ ClientErrors \subseteq AwsError
    /\ NoObject \notin Mime

VARIABLES
    up,         \* the client exists
    now,
    pc,         \* per call: what it awaits
    asked,      \* per call: its options
    signed,     \* per call: the URLs signed so far
    expiresAt,  \* per call: the answer's deadline
    outcome,    \* per call: what its promise settled with
    session,    \* at the provider: the multipart upload a call opened
    uploaded,   \* at the provider: its parts
    object      \* at the provider: the content type stored under each key

vars == <<up, now, pc, asked, signed, expiresAt, outcome, session, uploaded, object>>

Url == [kind : {"get", "put", "part", "complete"}, part : Nat, at : Nat,
        ttl : Nat \ {0}]

Refusals == {"STORAGE_NOT_CONFIGURED", "STORAGE_MIME_NOT_ALLOWED", "STORAGE_INVALID_PART_COUNT",
             "STORAGE_KEY_INVALID", "STORAGE_BUCKET_UNDEFINED", "STORAGE_SIGNED_URL_TTL_INVALID"}

Failures == {"STORAGE_BUCKET_NOT_FOUND", "STORAGE_OBJECT_NOT_FOUND", "STORAGE_NOT_MODIFIED",
             "STORAGE_PRECONDITION_FAILED", "STORAGE_TIMEOUT", "STORAGE_PROVIDER_ERROR"}

Init ==
    /\ up \in BOOLEAN
    /\ now = 0
    /\ pc = [c \in Call |-> "idle"]
    /\ asked = [c \in Call |-> Unset]
    /\ signed = [c \in Call |-> {}]
    /\ expiresAt = [c \in Call |-> 0]
    /\ outcome = [c \in Call |-> ""]
    /\ session = [c \in Call |-> "none"]
    /\ uploaded = [c \in Call |-> {}]
    /\ object = [k \in Key |-> NoObject]
-----------------------------------------------------------------------------
Smaller(a, b) == IF a <= b THEN a ELSE b

\* Fault: the first media type of a list decides.
MimeMatchesFirst(mime, whitelist) ==
    /\ mime # <<>>
    /\ \E p \in whitelist : \/ p = mime[1] \/ p = <<"*", "*">>
                            \/ p[2] = "*" /\ p[1] = mime[1][1]

\* mimeMatches(): a value that is not one media type matches nothing.
MimeMatches(mime, whitelist) ==
    /\ Len(mime) = 1
    /\ \E p \in whitelist : \/ p = mime[1] \/ p = <<"*", "*">>
                            \/ p[2] = "*" /\ p[1] = mime[1][1]

MimeAllowed(mime) == Whitelist = {} \/ MimeMatches(mime, Whitelist)

\* resolveSignedUrls(): the signer refuses a longer expiry.
MaxTtl == Smaller(ConfiguredMax, Ceiling)

RequestedTtl(o) == IF o.ttlSeconds = Unset THEN DefaultTtl ELSE o.ttlSeconds

\* Fault: only a default is held to the limit.
ClampDefaultTtl(o) ==
    IF o.ttlSeconds = Unset THEN Smaller(DefaultTtl, MaxTtl) ELSE o.ttlSeconds

ClampTtl(o) == Smaller(RequestedTtl(o), MaxTtl)

\* Fault: off by one.
TtlAcceptableAtZero(o) == RequestedTtl(o) >= 0

TtlAcceptable(o) == RequestedTtl(o) > 0

\* The checks before the first request or signature, in the order of the code.
Refusal(o) ==
    IF ~up THEN "STORAGE_NOT_CONFIGURED"
    ELSE IF o.op # "get" /\ ~MimeAllowed(o.contentType) THEN "STORAGE_MIME_NOT_ALLOWED"
    ELSE IF o.op = "multipart" /\ o.parts \notin 1..MaxParts THEN "STORAGE_INVALID_PART_COUNT"
    ELSE IF o.key = BadKey THEN "STORAGE_KEY_INVALID"
    ELSE IF ~o.bucket THEN "STORAGE_BUCKET_UNDEFINED"
    ELSE IF ~TtlAcceptable(o) THEN "STORAGE_SIGNED_URL_TTL_INVALID"
    ELSE ""

\* Fault: the upload is requested before the other arguments are looked at.
OpensWhenTyped(o) == o.op = "multipart" /\ up /\ MimeAllowed(o.contentType)

\* An upload is opened for arguments that nothing is wrong with.
Opens(o) == o.op = "multipart" /\ Refusal(o) = ""

\* An error of the library's own code has neither Code nor status.
PlainError == [name |-> "Error", Code |-> "", status |-> 0]
-----------------------------------------------------------------------------
Goes(c, stage) == pc' = [pc EXCEPT ![c] = stage]
Settles(c, out) == Goes(c, "settled") /\ outcome' = [outcome EXCEPT ![c] = out]
Fails(c, e) == Settles(c, MapAwsError(e))
Signs(c, kind, part) ==
    signed' = [signed EXCEPT ![c] = @ \cup
        {[kind |-> kind, part |-> part, at |-> now, ttl |-> ClampTtl(asked[c])]}]

provider == <<session, uploaded, object>>

Start(c) ==
    \E o \in Ask :
        /\ pc[c] = "idle"
        /\ asked' = [asked EXCEPT ![c] = o]
        /\ session' = [session EXCEPT ![c] = IF Opens(o) THEN "requested" ELSE @]
        /\ IF Refusal(o) # "" THEN Settles(c, Refusal(o))
           ELSE /\ Goes(c, IF o.op = "multipart" THEN "creating" ELSE "signing")
                /\ UNCHANGED outcome
        /\ UNCHANGED <<up, now, signed, expiresAt, uploaded, object>>

\* getSignedUrl() for one GET or PUT.
Sign(c) ==
    /\ pc[c] = "signing"
    /\ Goes(c, "answering")
    /\ Signs(c, asked[c].op, 0)
    /\ UNCHANGED <<up, now, asked, expiresAt, outcome, provider>>

\* The deadline is computed once the URL is there.
Answer(c) ==
    /\ pc[c] = "answering"
    /\ expiresAt' = [expiresAt EXCEPT ![c] = now + ClampTtl(asked[c])]
    /\ Settles(c, "urls")
    /\ UNCHANGED <<up, now, asked, signed, provider>>

\* The answer of CreateMultipartUpload. The client is asked for again.
CreateAnswered(c) ==
    /\ pc[c] = "creating" /\ session[c] = "open"
    /\ IF up THEN Goes(c, "presigning") /\ UNCHANGED outcome ELSE Fails(c, PlainError)
    /\ UNCHANGED <<up, now, asked, signed, expiresAt, provider>>

\* An answer without an UploadId.
CreateAnsweredEmpty(c) ==
    /\ pc[c] = "creating" /\ session[c] = "open"
    /\ Settles(c, "STORAGE_PROVIDER_ERROR")
    /\ UNCHANGED <<up, now, asked, signed, expiresAt, provider>>

\* The answer is lost, late or an error: the upload may be open nevertheless.
CreateFails(c) ==
    /\ pc[c] = "creating"
    /\ \E e \in ClientErrors : Fails(c, e)
    /\ UNCHANGED <<up, now, asked, signed, expiresAt, provider>>

PartsSigned(c) == { u.part : u \in { v \in signed[c] : v.kind = "part" } }

\* The part URLs are signed in parallel: in any order.
SignPart(c) ==
    /\ pc[c] = "presigning"
    /\ \E n \in (1..asked[c].parts) \ PartsSigned(c) : Signs(c, "part", n)
    /\ UNCHANGED <<up, now, pc, asked, expiresAt, outcome, provider>>

\* Fault: the completing URL is signed with the parts, in parallel.
AnyTime(c) == TRUE

\* The completing URL is signed once Promise.all has all parts.
AllPartsSigned(c) == PartsSigned(c) = 1..asked[c].parts

SignComplete(c) ==
    /\ pc[c] = "presigning" /\ AllPartsSigned(c)
    /\ \A u \in signed[c] : u.kind # "complete"
    /\ Signs(c, "complete", 0)
    /\ UNCHANGED <<up, now, pc, asked, expiresAt, outcome, provider>>

AnswerMultipart(c) ==
    /\ pc[c] = "presigning"
    /\ PartsSigned(c) = 1..asked[c].parts
    /\ \E u \in signed[c] : u.kind = "complete"
    /\ Settles(c, "urls")
    /\ UNCHANGED <<up, now, asked, signed, expiresAt, provider>>

\* A signature fails. The upload that was opened is left as it is.
SignFails(c) ==
    /\ pc[c] \in {"signing", "presigning"}
    /\ Fails(c, PlainError)
    /\ UNCHANGED <<up, now, asked, signed, expiresAt, provider>>

Shutdown ==
    /\ up /\ up' = FALSE
    /\ UNCHANGED <<now, pc, asked, signed, expiresAt, outcome, provider>>

Tick ==
    /\ now < MaxTime /\ now' = now + 1
    /\ UNCHANGED <<up, pc, asked, signed, expiresAt, outcome, provider>>
-----------------------------------------------------------------------------
\* The provider and the holders of URLs.
CreateApplies(c) ==
    /\ session[c] = "requested"
    /\ session' = [session EXCEPT ![c] = "open"]
    /\ UNCHANGED <<up, now, pc, asked, signed, expiresAt, outcome, uploaded, object>>

Honoured(u) == now < u.at + u.ttl
Held(c, kind) == { u \in signed[c] : outcome[c] = "urls" /\ u.kind = kind /\ Honoured(u) }

\* content-type is among the signed headers.
TypeAccepted(c, mime) == mime = asked[c].contentType

UsePut(c) ==
    /\ Held(c, "put") # {}
    /\ \E mime \in SentTypes :
           /\ TypeAccepted(c, mime)
           /\ object' = [object EXCEPT ![asked[c].key] = mime]
    /\ UNCHANGED <<up, now, pc, asked, signed, expiresAt, outcome, session, uploaded>>

UsePart(c) ==
    /\ session[c] = "open"
    /\ \E u \in Held(c, "part") : uploaded' = [uploaded EXCEPT ![c] = @ \cup {u.part}]
    /\ UNCHANGED <<up, now, pc, asked, signed, expiresAt, outcome, session, object>>

UseComplete(c) ==
    /\ session[c] = "open" /\ uploaded[c] # {}
    /\ Held(c, "complete") # {}
    /\ session' = [session EXCEPT ![c] = "completed"]
    /\ object' = [object EXCEPT ![asked[c].key] = asked[c].contentType]
    /\ UNCHANGED <<up, now, pc, asked, signed, expiresAt, outcome, uploaded>>

CallStep(c) ==
    \/ Start(c)
    \/ Sign(c)
    \/ Answer(c)
    \/ CreateAnswered(c)
    \/ CreateAnsweredEmpty(c)
    \/ CreateFails(c)
    \/ SignPart(c)
    \/ SignComplete(c)
    \/ AnswerMultipart(c)
    \/ SignFails(c)
    \/ CreateApplies(c)
    \/ UsePut(c)
    \/ UsePart(c)
    \/ UseComplete(c)

Next == Shutdown \/ Tick \/ \E c \in Call : CallStep(c)

Spec == Init /\ [][Next]_vars
-----------------------------------------------------------------------------
TypeOK ==
    /\ up \in BOOLEAN
    /\ now \in Nat
    /\ pc \in [Call -> {"idle", "signing", "answering", "creating", "presigning", "settled"}]
    /\ asked \in [Call -> Ask \cup {Unset}]
    /\ signed \in [Call -> SUBSET Url]
    /\ expiresAt \in [Call -> Nat]
    /\ outcome \in [Call -> Refusals \cup Failures \cup {"", "urls"}]
    /\ session \in [Call -> {"none", "requested", "open", "completed"}]
    /\ uploaded \in [Call -> SUBSET Nat]
    /\ object \in [Key -> Mime \cup {NoObject}]

(* Whatever is stored through a URL, a browser is served a type that the   *)
(* whitelist allows: assertMimeAllowed() and the signed content-type.      *)
StoredTypesAllowed ==
    \A k \in Key : object[k] # NoObject /\ Whitelist # {} => MimeMatches(<<Served(object[k])>>, Whitelist)

(* No URL is honoured for longer than the limits allow, nor after the      *)
(* deadline that came with it: clampTtl() and resolveSignedUrls().         *)
UrlsExpire ==
    \A c \in Call : \A u \in signed[c] :
        /\ u.ttl <= ConfiguredMax /\ u.ttl <= Ceiling
        /\ outcome[c] = "urls" /\ asked[c].op # "multipart" /\ Honoured(u) => now < expiresAt[c]

(* A multipart answer has one URL for each part, and a completing URL that *)
(* is honoured for as long as any of them: presignMultipartParts() signs   *)
(* it after the parts, not in parallel with them as its comment says.      *)
PartsCanBeCompleted ==
    \A c \in Call : outcome[c] = "urls" /\ asked[c].op = "multipart" =>
        /\ \A n \in 1..asked[c].parts : \E u \in signed[c] : u.kind = "part" /\ u.part = n
        /\ \E last \in signed[c] :
               /\ last.kind = "complete"
               /\ \A u \in signed[c] : Honoured(u) => Honoured(last)

(* A call refused for its arguments has opened no upload, and will open    *)
(* none: an upload is left behind by a failure after the request only.     *)
RefusedOpensNothing ==
    \A c \in Call : outcome[c] \in Refusals => session[c] = "none"
=============================================================================
