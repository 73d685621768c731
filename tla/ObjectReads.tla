----------------------------- MODULE ObjectReads -----------------------------
(***************************************************************************)
(* src/server/services/storage.service.ts: head, exists, download,         *)
(* downloadBuffer, checkBucket and list, against a bucket that others      *)
(* write to all the time: uploads of this module, and anybody else.        *)
(*                                                                         *)
(* Reads share nothing with one another: one caller is followed, who makes *)
(* a call and perhaps goes on with the next page, or with the rest of an   *)
(* object. A request takes effect at the provider at some moment between   *)
(* its sending and its answer; the answer may be lost. An object is two    *)
(* halves, and its etag says which content they are of.                    *)
(***************************************************************************)
EXTENDS KeyResolver, ErrorMappers

CONSTANTS
    RawPrefix,      \* the keyPrefix the module is configured with
    Order,          \* the texts objects are stored under, in the bucket's order
    Starts,         \* pairs of different segments, one the start of the other
    Etag,
    Versions,       \* bound: the etags of each text
    Absent,         \* no object, no etag, no condition, no error
    Ask,            \* what the service may be called with
    MaxListKeys,    \* MAX_LIST_KEYS
    Unset,          \* undefined
    ClientErrors    \* errors of the client, whatever the provider did

Operation == {"head", "exists", "download", "downloadBuffer", "checkBucket", "list"}

\* half: the Range header, 0 for none; prefix: EmptyText for none.
Options == [ op : Operation, bucket : {"there", "missing", ""}, key : Text,
             half : {0, 1, 2}, ifMatch : Etag \cup {Absent}, ifNoneMatch : Etag \cup {Absent},
             prefix : Text, maxKeys : Nat \cup {Unset}, delimiter : {"", "/"} ]

Stored == { Order[i] : i \in DOMAIN Order }

ASSUME ReadsAssumption ==
    /\ RawPrefix \in Text
    /\ Order \in Seq(Text)
    /\ \A i, j \in DOMAIN Order : Order[i] = Order[j] => i = j
    /\ Versions \in [Stored -> SUBSET Etag]
    /\ Ask \subseteq Options
    /\ \A o \in Ask : o.half # 2
    /\ Absent \notin Etag /\ Absent \notin AwsError
    /\ MaxListKeys \in Nat \ {0}
    /\ Unset \notin Nat
    /\ ClientErrors \subseteq AwsError

\* An error of the client says nothing of the object: it has none of the names
\* and statuses by which an answer of the provider is recognised.
ASSUME ClientAssumption ==
    \A e \in ClientErrors :
        /\ AwsCode(e) # "NoSuchBucket" /\ e.name # "NotFound"
        /\ e.status \notin {304, 404, 412}

\* The texts under one folder, n segments deep, follow one another: keys are
\* listed in the order of their bytes.
Folder(text, n) == IF n < Len(text) THEN SubSeq(text, 1, n) ELSE <<>>

ASSUME OrderAssumption ==
    \A i, j, k \in DOMAIN Order : \A n \in 1..Len(Order[i]) :
        /\ i < j /\ j < k
        /\ Folder(Order[i], n) # <<>> /\ Folder(Order[i], n) = Folder(Order[k], n)
        => Folder(Order[j], n) = Folder(Order[i], n)

VARIABLES
    up,       \* the client exists
    object,   \* at the provider: the etag under each text
    pc,       \* what the call awaits
    asked,    \* its options
    reply,    \* what the provider answers
    outcome,  \* what its promise settled with
    pieces,   \* what the caller has of the object: halves and their etags
    pages,    \* what the caller has of the listing
    token,    \* where the next page begins
    seen,     \* history: what was under the key while the call was made
    always    \* history: the texts that had an object throughout the listing

vars == <<up, object, pc, asked, reply, outcome, pieces, pages, token, seen, always>>
result == <<outcome, pieces, pages, token>>
history == <<seen, always>>

Page == [objects : SUBSET Seq(STRING), groups : SUBSET Seq(STRING)]
NoPage == [objects |-> {}, groups |-> {}]
Reply == [error : AwsError \cup {Absent}, etag : Etag \cup {Absent}, page : Page, next : Nat]
NoReply == [error |-> Absent, etag |-> Absent, page |-> NoPage, next |-> 0]

Init ==
    /\ up \in BOOLEAN
    /\ object \in { f \in [Stored -> Etag \cup {Absent}] :
                      \A text \in Stored : f[text] \in Versions[text] \cup {Absent} }
    /\ pc = "idle"
    /\ asked = Unset
    /\ reply = NoReply
    /\ outcome = ""
    /\ pieces = {}
    /\ pages = <<>>
    /\ token = 0
    /\ seen = {}
    /\ always = {}
-----------------------------------------------------------------------------
KeyPrefix == ResolvePrefix(RawPrefix)
Reads(o) == o.op \in {"head", "exists", "download", "downloadBuffer"}
Gets(o) == o.op \in {"download", "downloadBuffer"}

\* Under a key nobody ever wrote, or in no bucket, there is nothing.
Under(o, store) ==
    LET text == Normalize(KeyPrefix, o.key)
    IN  IF Reads(o) /\ o.bucket = "there" /\ text \in Stored THEN store[text] ELSE Absent

HasPrefix(text, prefix) ==
    LET n == Len(prefix)
    IN  /\ n <= Len(text)
        /\ SubSeq(text, 1, n - 1) = SubSeq(prefix, 1, n - 1)
        /\ prefix[n] \in {"", text[n]} \/ <<prefix[n], text[n]>> \in Starts

\* Fault: without a prefix of its own a listing is of the whole bucket.
ListPrefixAsGiven(o) ==
    IF o.prefix # EmptyText THEN Normalize(KeyPrefix, o.prefix) ELSE EmptyText

ListPrefix(o) ==
    IF o.prefix # EmptyText THEN Normalize(KeyPrefix, o.prefix) ELSE PrefixText(KeyPrefix)

PageSize(o) == IF o.maxKeys = Unset \/ o.maxKeys > MaxListKeys THEN MaxListKeys ELSE o.maxKeys

\* Fault: the condition on the etag is not sent.
GetInputWithoutMatch(o) == [range |-> o.half, ifMatch |-> Absent, ifNoneMatch |-> o.ifNoneMatch]

GetInput(o) == [range |-> o.half, ifMatch |-> o.ifMatch, ifNoneMatch |-> o.ifNoneMatch]

\* The checks before the request.
Refusal(o) ==
    IF ~up THEN "STORAGE_NOT_CONFIGURED"
    ELSE IF Reads(o) /\ ~Acceptable(o.key) THEN "STORAGE_KEY_INVALID"
    ELSE IF o.bucket = "" THEN "STORAGE_BUCKET_UNDEFINED"
    ELSE IF o.op = "list" /\ o.prefix # EmptyText /\ ~Acceptable(o.prefix)
    THEN "STORAGE_KEY_INVALID"
    ELSE ""

\* exists(): what head() rejects with is "false". Fault: not found only.
ExistsOnlyNotFound(code) == IF code = "STORAGE_OBJECT_NOT_FOUND" THEN "false" ELSE code
ExistsOutcome(code) == "false"

Rejection(o, code) == IF o.op = "exists" THEN ExistsOutcome(code) ELSE code

Mapped(o, e) == IF o.op = "checkBucket" THEN MapBucketCheckError(e) ELSE MapAwsError(e)
-----------------------------------------------------------------------------
\* The provider, and those who write to the bucket.
Failing(name, status) == [NoReply EXCEPT !.error = [name |-> name, Code |-> "", status |-> status]]

ProviderErrors ==
    [ name : {"NotFound", "NoSuchBucket", "NoSuchKey", "PreconditionFailed", "NotModified"},
      Code : {""}, status : {304, 404, 412} ]

ASSUME ErrorsAssumption == ProviderErrors \subseteq AwsError

\* An answer to HEAD has no body to say what is missing.
HeadReply(etag) ==
    IF etag = Absent THEN Failing("NotFound", 404) ELSE [NoReply EXCEPT !.etag = etag]

GetReply(o, etag) ==
    LET sent == GetInput(o)
    IN  IF o.bucket = "missing" THEN Failing("NoSuchBucket", 404)
        ELSE IF etag = Absent THEN Failing("NoSuchKey", 404)
        ELSE IF sent.ifMatch \notin {Absent, etag} THEN Failing("PreconditionFailed", 412)
        ELSE IF sent.ifNoneMatch = etag THEN Failing("NotModified", 304)
        ELSE [NoReply EXCEPT !.etag = etag]

\* The entries of a page: objects, or the groups a delimiter makes of them.
\* The page ends before its last group does, and the next begins behind it.
Grouped(o, text) == o.delimiter = "/" /\ Len(text) > Len(ListPrefix(o))
EntryOf(o, text) ==
    IF Grouped(o, text) THEN SubSeq(text, 1, Len(ListPrefix(o))) \o EmptyText ELSE text

Listed(o, from) ==
    { i \in DOMAIN Order :
        i > from /\ object[Order[i]] # Absent /\ HasPrefix(Order[i], ListPrefix(o)) }

OnPage(o, from) ==
    { i \in Listed(o, from) :
        Cardinality({ EntryOf(o, Order[j]) : j \in { k \in Listed(o, from) : k <= i } })
            <= PageSize(o) }

\* Behind everything the page stands for; 0 when nothing is left.
NextToken(o, from) ==
    LET on == OnPage(o, from)
        covered == { i \in DOMAIN Order : \E j \in on : EntryOf(o, Order[i]) = EntryOf(o, Order[j]) }
    IN  IF on \in {{}, Listed(o, from)} THEN 0
        ELSE CHOOSE i \in covered : \A j \in covered : j <= i

ListReply(o) ==
    LET on == OnPage(o, token)
        single == { i \in on : ~Grouped(o, Order[i]) }
    IN  IF o.bucket = "missing" THEN Failing("NoSuchBucket", 404)
        ELSE [ NoReply EXCEPT
                 !.page = [ objects |-> { Order[i] : i \in single },
                            groups |-> { EntryOf(o, Order[i]) : i \in on \ single } ],
                 !.next = NextToken(o, token) ]

Applies ==
    /\ pc = "sent"
    /\ pc' = "answered"
    /\ reply' = IF asked.op = "list" THEN ListReply(asked)
                ELSE IF asked.op = "checkBucket"
                THEN IF asked.bucket = "missing" THEN Failing("NotFound", 404) ELSE NoReply
                ELSE IF Gets(asked) THEN GetReply(asked, Under(asked, object))
                ELSE HeadReply(Under(asked, object))
    /\ UNCHANGED <<up, object, asked, result, history>>

\* The answer is late, lost or a failure, or comes without a body.
ClientFails ==
    /\ pc \in {"sent", "answered"}
    /\ pc' = "answered"
    /\ \E e \in ClientErrors : reply' = [NoReply EXCEPT !.error = e]
    /\ UNCHANGED <<up, object, asked, result, history>>

AnswersEmpty ==
    /\ pc = "sent" /\ Gets(asked)
    /\ pc' = "answered"
    /\ reply' = NoReply
    /\ UNCHANGED <<up, object, asked, result, history>>

Put ==
    \E text \in Stored : \E etag \in Versions[text] \cup {Absent} :
        /\ object[text] # etag
        /\ object' = [object EXCEPT ![text] = etag]
        /\ seen' = IF pc \in {"sent", "answered"} THEN seen \cup {Under(asked, object')} ELSE seen
        /\ always' = IF etag = Absent THEN always \ {text} ELSE always
        /\ UNCHANGED <<up, pc, asked, reply, result>>
-----------------------------------------------------------------------------
Settles(out) == pc' = "settled" /\ outcome' = out

\* Up to the await of the request.
Sends(o) ==
    /\ asked' = o
    /\ reply' = NoReply
    /\ seen' = IF Refusal(o) = "" THEN {Under(o, object)} ELSE {}
    /\ IF Refusal(o) = "" THEN pc' = "sent" /\ outcome' = ""
       ELSE Settles(Rejection(o, Refusal(o)))
    /\ UNCHANGED <<up, object, pieces, pages, token>>

Start ==
    /\ pc = "idle"
    /\ \E o \in Ask : Sends(o)
    /\ always' = { text \in Stored : asked'.op = "list" /\ object[text] # Absent }

\* The caller asks for the rest of the object it has a half of.
Resume ==
    /\ pc = "settled" /\ outcome = "found" /\ Gets(asked) /\ asked.half = 1
    /\ \E p \in pieces : Sends([asked EXCEPT !.half = 2, !.ifMatch = p[2], !.ifNoneMatch = Absent])
    /\ UNCHANGED always

\* And for the next page.
ListOn ==
    /\ pc = "settled" /\ outcome = "listed" /\ token > 0
    /\ Sends(asked)
    /\ UNCHANGED always

Answered(o) == pc = "answered" /\ reply.error = Absent

HeadAnswered ==
    /\ Answered(asked) /\ asked.op \in {"head", "exists"}
    /\ Settles(IF asked.op = "head" THEN "found" ELSE "true")
    /\ pieces' = {<<0, reply.etag>>}
    /\ UNCHANGED <<up, object, asked, reply, pages, token, history>>

Halves(o) == IF GetInput(o).range = 0 THEN {1, 2} ELSE {GetInput(o).range}
Receives == pieces' = pieces \cup (Halves(asked) \X {reply.etag})

\* download(): an answer without a body is no object.
DownloadAnswered ==
    /\ Answered(asked) /\ Gets(asked)
    /\ IF reply.etag = Absent THEN Settles("STORAGE_OBJECT_NOT_FOUND") /\ UNCHANGED pieces
       ELSE IF asked.op = "download" THEN Settles("found") /\ Receives
       ELSE pc' = "streaming" /\ UNCHANGED <<outcome, pieces>>
    /\ UNCHANGED <<up, object, asked, reply, pages, token, history>>

\* downloadBuffer(): the body is read to its end, outside of any try.
BufferRead ==
    /\ pc = "streaming"
    /\ Settles("found") /\ Receives
    /\ UNCHANGED <<up, object, asked, reply, pages, token, history>>

BufferBreaks ==
    /\ pc = "streaming"
    /\ Settles("Error")
    /\ UNCHANGED <<up, object, asked, reply, pieces, pages, token, history>>

CheckAnswered ==
    /\ Answered(asked) /\ asked.op = "checkBucket"
    /\ Settles("reachable")
    /\ UNCHANGED <<up, object, asked, reply, pieces, pages, token, history>>

\* toListResult(): the keys are relative to keyPrefix.
Relative(texts) == { StripPrefix(KeyPrefix, text) : text \in texts }

ListAnswered ==
    /\ Answered(asked) /\ asked.op = "list"
    /\ Settles("listed")
    /\ pages' = Append(pages, [ objects |-> Relative(reply.page.objects),
                                groups |-> Relative(reply.page.groups) ])
    /\ token' = reply.next
    /\ UNCHANGED <<up, object, asked, reply, pieces, history>>

Fails ==
    /\ pc = "answered" /\ reply.error # Absent
    /\ Settles(Rejection(asked, Mapped(asked, reply.error)))
    /\ UNCHANGED <<up, object, asked, reply, pieces, pages, token, history>>

Shutdown ==
    /\ up /\ up' = FALSE
    /\ UNCHANGED <<object, pc, asked, reply, result, history>>

Next ==
    \/ Start
    \/ Resume
    \/ ListOn
    \/ HeadAnswered
    \/ DownloadAnswered
    \/ BufferRead
    \/ BufferBreaks
    \/ CheckAnswered
    \/ ListAnswered
    \/ Fails
    \/ Shutdown
    \/ Applies
    \/ ClientFails
    \/ AnswersEmpty
    \/ Put

Spec == Init /\ [][Next]_vars
-----------------------------------------------------------------------------
Answers == {"found", "true", "false", "reachable", "listed"}
Codes == {"STORAGE_NOT_CONFIGURED", "STORAGE_KEY_INVALID", "STORAGE_BUCKET_UNDEFINED",
          "STORAGE_BUCKET_NOT_FOUND", "STORAGE_OBJECT_NOT_FOUND", "STORAGE_NOT_MODIFIED",
          "STORAGE_PRECONDITION_FAILED", "STORAGE_TIMEOUT", "STORAGE_PROVIDER_ERROR",
          "STORAGE_BUCKET_REGION_MISMATCH", "STORAGE_BUCKET_ACCESS_DENIED"}

TypeOK ==
    /\ up \in BOOLEAN
    /\ object \in [Stored -> Etag \cup {Absent}]
    /\ pc \in {"idle", "sent", "answered", "streaming", "settled"}
    /\ asked \in Options \cup {Unset}
    /\ pc # "idle" => asked \in Options
    /\ reply \in Reply
    /\ outcome \in Answers \cup Codes \cup {"", "Error"}
    /\ pc = "settled" /\ asked.op = "exists" => outcome \in {"true", "false"}
    /\ pieces \subseteq (0..2) \X Etag
    /\ pages \in Seq(Page)
    /\ token \in Nat
    /\ seen \subseteq Etag \cup {Absent}
    /\ always \subseteq Stored

(* Whatever is written meanwhile, what a call says of an object or of a    *)
(* bucket was so at some moment of the call, and a bucket that is missing  *)
(* is not passed off as a missing object: mapAwsError(), download().       *)
AnswersWereTrue ==
    pc = "settled" =>
        /\ outcome \in {"found", "true"} => \E p \in pieces : p[2] \in seen
        /\ outcome = "STORAGE_OBJECT_NOT_FOUND" /\ reply # NoReply =>
               Absent \in seen /\ (Gets(asked) => asked.bucket = "there")
        /\ outcome = "false" /\ reply.error \notin ClientErrors \cup {Absent} => Absent \in seen
        /\ outcome = "STORAGE_BUCKET_NOT_FOUND" => asked.bucket = "missing"
        /\ outcome = "reachable" => asked.bucket = "there"
        /\ outcome = "STORAGE_NOT_MODIFIED" => asked.ifNoneMatch \in seen
        /\ outcome = "STORAGE_PRECONDITION_FAILED" => seen \ {asked.ifMatch, Absent} # {}

(* What a caller has of an object, in one call or in two, is of one of its *)
(* versions: download() sends both the range and the condition on the etag. *)
OneVersion == \A p, q \in pieces : p[2] = q[2]

\* What the caller of list() means by its prefix.
Meant(text) ==
    /\ StartsWith(text, KeyPrefix) \/ KeyPrefix = <<>>
    /\ asked.prefix = EmptyText \/ HasPrefix(text, KeyPrefix \o Collapse(asked.prefix))

\* The keys of this module, which it stores as normalize() makes them.
Own(text) ==
    LET key == SubSeq(text, Len(KeyPrefix) + 1, Len(text))
    IN  Acceptable(key) /\ Collapse(key) = key

(* A listing, page by page to its end, returns each object of the module   *)
(* that was there throughout exactly once, itself or in a group, by a name *)
(* that is relative to keyPrefix, and nothing that was not asked for.      *)
ListingComplete ==
    pc = "settled" /\ asked.op = "list" =>
        /\ \A i \in DOMAIN pages :
               /\ \A key \in pages[i].objects : KeyPrefix \o key \in Stored /\ Meant(KeyPrefix \o key)
               /\ \A group \in pages[i].groups : Meant(KeyPrefix \o group)
        /\ outcome = "listed" /\ token = 0 /\ asked.maxKeys # 0 =>
               \A text \in always : Meant(text) =>
                   Cardinality({ i \in DOMAIN pages :
                       \/ \E key \in pages[i].objects :
                              /\ KeyPrefix \o key = text
                              /\ Own(text) => Normalize(KeyPrefix, key) = text
                       \/ \E group \in pages[i].groups : HasPrefix(text, KeyPrefix \o group) }) = 1
=============================================================================
