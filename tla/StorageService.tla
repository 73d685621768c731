--------------------------- MODULE StorageService ---------------------------
(***************************************************************************)
(* The calls of src/server/services/storage.service.ts that change         *)
(* something - upload, delete, deleteMany, copy - running together in one  *)
(* instance of the module, over one S3-compatible provider.                *)
(*                                                                         *)
(* Node runs one thread, so the code between two awaits is one step, and   *)
(* calls interleave at the awaits. A call that waits for the provider has  *)
(* its request on the wire; the provider applies it at any later moment,   *)
(* and the call sees either the answer or a failure. A failure says        *)
(* nothing about the request: it may have been applied, may still be       *)
(* applied, or may never be (a lost answer, a timeout, a lost request).    *)
(***************************************************************************)
EXTENDS CacheOps

CONSTANTS
    \* Calls made on the service are the elements of Upload (of CacheOps): each
    \* is started at most once, as any of the operations.
    None,        \* no object at a location
    NoIdem,      \* an upload without an idempotency key
    UploadAsk,   \* options an upload may be called with
    DeleteAsk,   \* locations delete() may be called with
    BatchAsk,    \* [bucket, keys] deleteMany() may be called with
    CopyAsk,     \* [from, to] copy() may be called with
    Configs,     \* [scanner, idleGuard] the module may be configured with
    BatchLimit,  \* DELETE_BATCH_LIMIT
    MaxTime      \* bound: the clock stops here

Call == Upload
Loc  == Bucket \X Key

UploadOptions == [ op : {"upload"}, bucket : Bucket, key : Key,
                   idem : IdemKey \cup {NoIdem}, stream : BOOLEAN, multipart : BOOLEAN ]
DeleteOptions == [ op : {"delete"}, bucket : Bucket, key : Key ]
BatchOptions  == [ op : {"deleteMany"}, bucket : Bucket, keys : SUBSET Key ]
CopyOptions   == [ op : {"copy"}, from : Loc, bucket : Bucket, key : Key ]
Uncalled == [op |-> "none"]
Options == UploadOptions \cup DeleteOptions \cup BatchOptions \cup CopyOptions

\* scanner.mode, "off" without a scanner; and whether uploadIdleTimeoutMs guards
\* the stream of a multipart upload (0 turns the guard off).
Config == [scanner : {"off", "pre-upload", "post-upload"}, idleGuard : BOOLEAN]

ASSUME ServiceAssumption ==
    /\ UploadAsk \subseteq UploadOptions
    /\ DeleteAsk \subseteq DeleteOptions
    /\ BatchAsk \subseteq BatchOptions
    /\ CopyAsk \subseteq CopyOptions
    /\ Configs \subseteq Config
    /\ None \notin Call
    /\ NoIdem \notin IdemKey
    /\ BatchLimit \in Nat \ {0}
    /\ MaxTime \in Nat
    /\ IsFiniteSet(Key)

VARIABLES
    client,    \* S3ClientProvider.client is built
    config,    \* the options read here; fixed at boot
    cache,     \* the IdempotencyCache
    now,       \* Date.now()
    object,    \* at the provider: which call's bytes each location holds
    wire,      \* requests sent and not applied
    reply,     \* per call: {} or {the locations its awaited request applied to}
    pc,        \* per call: the await it is at
    opt,       \* per call: the options it was called with
    source,    \* per upload: the caller's Readable
    verdict,   \* per upload: what the scan said (the error a cleanup rethrows)
    batch,     \* per deleteMany: keys left, the chunk in flight, its report
    outcome,   \* per call: what its promise settled with
    withdrawn, \* history: stored uploads whose object a later delete() removed
    doubt      \* history: locations where a delete failed, or met an upload half-way

instance == <<client, config, cache, now>>
provider == <<object, wire, reply>>
calls    == <<pc, opt, source, verdict, batch, outcome>>
history  == <<withdrawn, doubt>>
vars     == <<instance, provider, calls, history>>

Stage == {"idle", "validate", "buffer", "prescan", "send", "writing", "aborting",
          "postscan", "record", "removing", "settled"}

Request == [by : Call, op : {"write", "remove", "abort"}, at : SUBSET Loc]
AwaitOf == [write |-> "writing", remove |-> "removing", abort |-> "aborting"]

Source == {"none", "open", "read", "destroyed"}

Outcome == [ kind : {"none", "stored", "cached", "ok", "typed", "plain"},
             detail : {"", "cleanup failed", "abort completed", "abort failed"},
             result : SUBSET Result, at : Nat ]
Pending == [kind |-> "none", detail |-> "", result |-> {}, at |-> 0]
Rejection(kind, detail) == [Pending EXCEPT !.kind = kind, !.detail = detail]

\* A deleteMany() in progress: its keys are in one of the four sets.
Progress == [left : SUBSET Key, chunk : SUBSET Key, deleted : SUBSET Key, failed : SUBSET Key]
NoBatch == [left |-> {}, chunk |-> {}, deleted |-> {}, failed |-> {}]

Init ==
    /\ client \in BOOLEAN
    /\ config \in Configs
    /\ cache = Empty
    /\ now = 0
    /\ object = [l \in Loc |-> None]
    /\ wire = {}
    /\ reply = [c \in Call |-> {}]
    /\ pc = [c \in Call |-> "idle"]
    /\ opt = [c \in Call |-> Uncalled]
    /\ source = [c \in Call |-> "none"]
    /\ verdict = [c \in Call |-> "none"]
    /\ batch = [c \in Call |-> NoBatch]
    /\ outcome = [c \in Call |-> Pending]
    /\ withdrawn = {}
    /\ doubt = {}
-----------------------------------------------------------------------------
LocOf(c) == <<opt[c].bucket, opt[c].key>>
Locs(b, keys) == {b} \X keys
WriteOf(c, l) == [by |-> c, op |-> "write", at |-> {l}]
RemoveOf(c, ls) == [by |-> c, op |-> "remove", at |-> ls]
AbortOf(c) == [by |-> c, op |-> "abort", at |-> {}]
ResultOf(c) == [bucket |-> opt[c].bucket, key |-> opt[c].key, upload |-> c]

Goes(c, stage) == pc' = [pc EXCEPT ![c] = stage]
Begins(c, o) == pc[c] = "idle" /\ opt' = [opt EXCEPT ![c] = o]
Sends(r) == wire' = wire \cup {r}
Answered(c) == reply[c] # {} /\ reply' = [reply EXCEPT ![c] = {}]
Unanswered(c) == reply' = [reply EXCEPT ![c] = {}]

Settles(c, out) == Goes(c, "settled") /\ outcome' = [outcome EXCEPT ![c] = out]

\* Fault: the catch block leaves the stream alone.
KeepStream(s) == s

\* upload()'s catch block destroys a body that was not consumed.
DestroyStream(s) == IF s = "open" THEN "destroyed" ELSE s
Rejects(c, kind, detail) ==
    /\ Settles(c, Rejection(kind, detail))
    /\ source' = [source EXCEPT ![c] = DestroyStream(@)]

\* Uploads that a delete of l can overtake: their object may be there, their
\* result is not in the cache yet.
HalfWay(l) == \E u \in Call : /\ opt[u].op = "upload" /\ LocOf(u) = l
                              /\ pc[u] \in {"writing", "postscan", "record"}
StoredAt(l) == { u \in Call : outcome[u].kind = "stored" /\ LocOf(u) = l }
-----------------------------------------------------------------------------
(* upload() *)

\* assertConfigured, a missing body or content type, an invalid key, no bucket.
UploadRefused(c, o) ==
    /\ Begins(c, o)
    /\ Settles(c, Rejection("typed", ""))
    /\ source' = [source EXCEPT ![c] = IF o.stream THEN "destroyed" ELSE "none"]
    /\ UNCHANGED <<instance, provider, verdict, batch, history>>

\* A cache hit: the result of an earlier upload, and the body destroyed unread.
UploadAnswered(c, o) ==
    /\ client
    /\ o.idem # NoIdem
    /\ Begins(c, o)
    /\ LET k == ComputeKey(o.idem, o.key)
       IN  /\ Live(cache, k, now)
           /\ cache' = Touched(cache, k)
           /\ Settles(c, [Pending EXCEPT !.kind = "cached",
                                         !.result = {cache.entries[k].result}])
    /\ source' = [source EXCEPT ![c] = IF o.stream THEN "destroyed" ELSE "none"]
    /\ UNCHANGED <<client, config, now, provider, verdict, batch, history>>

\* A miss, or no key: on to the validation pipeline.
UploadBegins(c, o) ==
    /\ client
    /\ Begins(c, o)
    /\ LET k == ComputeKey(o.idem, o.key)
       IN  /\ ~Live(cache, k, now)
           /\ cache' = IF k \in Cached(cache) THEN Without(cache, {k}) ELSE cache
    /\ Goes(c, "validate")
    /\ source' = [source EXCEPT ![c] = IF o.stream THEN "open" ELSE "none"]
    /\ UNCHANGED <<client, config, now, provider, verdict, batch, outcome, history>>

\* The validators accepted; in pre-upload mode a stream is buffered before the scan.
Validated(c) ==
    /\ pc[c] = "validate"
    /\ Goes(c, CASE config.scanner # "pre-upload" -> "send"
                 [] config.scanner = "pre-upload" /\ source[c] = "open" -> "buffer"
                 [] OTHER -> "prescan")
    /\ UNCHANGED <<instance, provider, opt, source, verdict, batch, outcome, history>>

Buffered(c) ==
    /\ pc[c] = "buffer"
    /\ Goes(c, "prescan")
    /\ source' = [source EXCEPT ![c] = "read"]
    /\ UNCHANGED <<instance, provider, opt, verdict, batch, outcome, history>>

PreScanPasses(c) ==
    /\ pc[c] = "prescan"
    /\ Goes(c, "send")
    /\ verdict' = [verdict EXCEPT ![c] = "clean"]
    /\ UNCHANGED <<instance, provider, opt, source, batch, outcome, history>>

\* A validator, the buffering of the source or the scanner refuses (a
\* StorageException) or throws (its own error, passed on as it is).
RejectedBeforeSending(c) ==
    /\ pc[c] \in {"validate", "buffer", "prescan"}
    /\ \E kind \in {"typed", "plain"} : Rejects(c, kind, "")
    /\ UNCHANGED <<instance, provider, opt, verdict, batch, history>>

\* PutObject, or the uploader's whole exchange for a multipart upload.
SendWrite(c) ==
    /\ pc[c] = "send" /\ client
    /\ Sends(WriteOf(c, LocOf(c)))
    /\ Goes(c, "writing")
    /\ UNCHANGED <<instance, object, reply, opt, source, verdict, batch, outcome, history>>

\* getClient() throws a plain Error: inside the try of a single-shot upload,
\* which maps it, and outside the one of a multipart upload.
SendWithoutClient(c) ==
    /\ pc[c] = "send" /\ ~client
    /\ Rejects(c, IF opt[c].multipart THEN "plain" ELSE "typed", "")
    /\ UNCHANGED <<instance, provider, opt, verdict, batch, history>>

\* The SDK reads the body while the call waits: it has taken the last of the stream.
SourceRead(c) ==
    /\ pc[c] = "writing" /\ reply[c] = {}
    /\ source[c] = "open"
    /\ source' = [source EXCEPT ![c] = "read"]
    /\ UNCHANGED <<instance, provider, pc, opt, verdict, batch, outcome, history>>

\* Fault: the result is recorded without the post-upload scan.
RecordUnscanned == "record"

StageAfterWrite == IF config.scanner = "post-upload" THEN "postscan" ELSE "record"

WriteAnswered(c) ==
    /\ pc[c] = "writing" /\ opt[c].op = "upload"
    /\ Answered(c)
    /\ Goes(c, StageAfterWrite)
    /\ UNCHANGED <<instance, object, wire, opt, source, verdict, batch, outcome, history>>

WriteFails(c) ==
    /\ pc[c] = "writing" /\ opt[c].op = "upload" /\ ~opt[c].multipart
    /\ Unanswered(c)
    /\ Rejects(c, "typed", "")
    /\ UNCHANGED <<instance, object, wire, opt, verdict, batch, history>>

\* failMultipart(): the abort of an upload whose id is known. The failure may
\* have come before CompleteMultipartUpload was sent, or be that of the Complete.
MultipartAborts(c) ==
    /\ pc[c] = "writing" /\ opt[c].op = "upload" /\ opt[c].multipart /\ client
    /\ Unanswered(c)
    /\ \E left \in {wire, wire \ {WriteOf(c, LocOf(c))}} : wire' = left \cup {AbortOf(c)}
    /\ Goes(c, "aborting")
    /\ UNCHANGED <<instance, object, opt, source, verdict, batch, outcome, history>>

\* CreateMultipartUpload never answered: no upload id, nothing to abort.
MultipartNotCreated(c) ==
    /\ pc[c] = "writing" /\ opt[c].op = "upload" /\ opt[c].multipart /\ client
    /\ reply[c] = {}
    /\ wire' = wire \ {WriteOf(c, LocOf(c))}
    /\ Rejects(c, "typed", "")
    /\ UNCHANGED <<instance, object, reply, opt, verdict, batch, history>>

\* The client is gone: failMultipart's getClient() throws in place of the failure.
MultipartStranded(c) ==
    /\ pc[c] = "writing" /\ opt[c].op = "upload" /\ opt[c].multipart /\ ~client
    /\ Unanswered(c)
    /\ wire' \in {wire, wire \ {WriteOf(c, LocOf(c))}}
    /\ Rejects(c, "plain", "")
    /\ UNCHANGED <<instance, object, opt, verdict, batch, history>>

AbortAnswered(c) ==
    /\ pc[c] = "aborting"
    /\ Answered(c)
    /\ Rejects(c, "typed", "abort completed")
    /\ UNCHANGED <<instance, object, wire, opt, verdict, batch, history>>

\* Fault: a failed abort is reported as completed.
AbortFailureHidden(c) ==
    /\ pc[c] = "aborting"
    /\ Unanswered(c)
    /\ Rejects(c, "typed", "abort completed")
    /\ UNCHANGED <<instance, object, wire, opt, verdict, batch, history>>

AbortFails(c) ==
    /\ pc[c] = "aborting"
    /\ Unanswered(c)
    /\ Rejects(c, "typed", "abort failed")
    /\ UNCHANGED <<instance, object, wire, opt, verdict, batch, history>>

PostScanPasses(c) ==
    /\ pc[c] = "postscan"
    /\ Goes(c, "record")
    /\ verdict' = [verdict EXCEPT ![c] = "clean"]
    /\ UNCHANGED <<instance, provider, opt, source, batch, outcome, history>>

\* Fault: the cleanup's failure is only logged.
ScanErrorAlone(v, detail) == Rejection(IF v = "rejected" THEN "typed" ELSE "plain", "")

\* The error runPostUploadScan rethrows: a verdict with or without the outcome
\* of the cleanup in its details, or what the scanner threw, always unchanged.
ScanError(v, detail) ==
    IF v = "rejected" THEN Rejection("typed", detail) ELSE Rejection("plain", "")

\* A verdict against the object, or an error of the scanner's own: delete() is
\* called with the location, and refuses at once when the client is gone.
PostScanFails(c) ==
    /\ pc[c] = "postscan"
    /\ \E v \in {"rejected", "threw"} :
         /\ verdict' = [verdict EXCEPT ![c] = v]
         /\ IF client
            THEN /\ Sends(RemoveOf(c, {LocOf(c)}))
                 /\ Goes(c, "removing")
                 /\ UNCHANGED outcome
            ELSE /\ Settles(c, ScanError(v, "cleanup failed"))
                 /\ UNCHANGED wire
    /\ UNCHANGED <<instance, object, reply, opt, source, batch, history>>

\* The last step: remember the result under the idempotency key and return it.
RecordResult(c) ==
    /\ pc[c] = "record"
    /\ IF opt[c].idem = NoIdem
       THEN UNCHANGED cache
       ELSE LET grown == Stored(cache, ComputeKey(opt[c].idem, opt[c].key), ResultOf(c), now)
            IN  \E D \in Evictions(grown) : cache' = Without(grown, D)
    /\ Settles(c, [Pending EXCEPT !.kind = "stored", !.result = {ResultOf(c)}, !.at = now])
    /\ UNCHANGED <<client, config, now, provider, opt, source, verdict, batch, history>>
-----------------------------------------------------------------------------
(* delete(), as a call and as the cleanup of upload() *)

\* delete(), deleteMany() and copy() without a client, bucket or valid key.
Refused(c, o) ==
    /\ Begins(c, o)
    /\ Settles(c, Rejection("typed", ""))
    /\ UNCHANGED <<instance, provider, source, verdict, batch, history>>

SendDelete(c, o) ==
    /\ client
    /\ Begins(c, o)
    /\ Sends(RemoveOf(c, {<<o.bucket, o.key>>}))
    /\ Goes(c, "removing")
    /\ UNCHANGED <<instance, object, reply, source, verdict, batch, outcome, history>>

\* Success, or a 404: the object is gone, so its cached results are dropped.
RemoveAnswered(c) ==
    /\ pc[c] = "removing" /\ opt[c].op \in {"upload", "delete"}
    /\ Answered(c)
    /\ cache' = Without(cache, HoldersOf(cache, opt[c].bucket, opt[c].key))
    /\ Settles(c, IF opt[c].op = "delete" THEN [Pending EXCEPT !.kind = "ok"]
                                          ELSE ScanError(verdict[c], ""))
    /\ withdrawn' = withdrawn \cup StoredAt(LocOf(c))
    /\ doubt' = doubt \cup (IF HalfWay(LocOf(c)) THEN {LocOf(c)} ELSE {})
    /\ UNCHANGED <<client, config, now, object, wire, opt, source, verdict, batch>>

RemoveFails(c) ==
    /\ pc[c] = "removing" /\ opt[c].op \in {"upload", "delete"}
    /\ Unanswered(c)
    /\ Settles(c, IF opt[c].op = "delete" THEN Rejection("typed", "")
                                          ELSE ScanError(verdict[c], "cleanup failed"))
    /\ doubt' = doubt \cup {LocOf(c)}
    /\ UNCHANGED <<instance, object, wire, opt, source, verdict, batch, withdrawn>>
-----------------------------------------------------------------------------
(* deleteMany() *)

\* The next request's keys: as many as a request may carry, in an order that is
\* the caller's.
Chunks(keys) ==
    { ks \in SUBSET keys :
        Cardinality(ks) = IF Cardinality(keys) < BatchLimit THEN Cardinality(keys)
                                                           ELSE BatchLimit }

\* Fault: the loop does not advance past the chunk it sent.
SendChunkAgain(c, bucket, b) ==
    \E ks \in Chunks(b.left) :
        /\ batch' = [batch EXCEPT ![c] = [b EXCEPT !.chunk = ks]]
        /\ Sends(RemoveOf(c, Locs(bucket, ks)))

SendChunk(c, bucket, b) ==
    \E ks \in Chunks(b.left) :
        /\ batch' = [batch EXCEPT ![c] = [b EXCEPT !.left = @ \ ks, !.chunk = ks]]
        /\ Sends(RemoveOf(c, Locs(bucket, ks)))

BatchEmpty(c, o) ==
    /\ client
    /\ o.keys = {}
    /\ Begins(c, o)
    /\ Settles(c, [Pending EXCEPT !.kind = "ok"])
    /\ UNCHANGED <<instance, provider, source, verdict, batch, history>>

SendBatch(c, o) ==
    /\ client
    /\ o.keys # {}
    /\ Begins(c, o)
    /\ SendChunk(c, o.bucket, [NoBatch EXCEPT !.left = o.keys])
    /\ Goes(c, "removing")
    /\ UNCHANGED <<instance, object, reply, source, verdict, outcome, history>>

\* What follows a chunk's outcome: the next chunk; or, after the last, the
\* invalidations and the report; or getClient() throwing between two chunks,
\* which loses the report and skips the invalidations.
AfterChunk(c, b, unsure) ==
    \/ /\ b.left # {} /\ client
       /\ SendChunk(c, opt[c].bucket, b)
       /\ doubt' = doubt \cup unsure
       /\ UNCHANGED <<instance, pc, source, outcome, withdrawn>>
    \/ /\ b.left # {} /\ ~client
       /\ Rejects(c, "plain", "")
       /\ batch' = [batch EXCEPT ![c] = b]
       /\ doubt' = doubt \cup unsure \cup Locs(opt[c].bucket, b.deleted)
       /\ UNCHANGED <<instance, wire, withdrawn>>
    \/ /\ b.left = {}
       /\ cache' = Without(cache, UNION { HoldersOf(cache, opt[c].bucket, key) : key \in b.deleted })
       /\ Settles(c, [Pending EXCEPT !.kind = "ok"])
       /\ batch' = [batch EXCEPT ![c] = b]
       /\ withdrawn' = withdrawn \cup UNION { StoredAt(l) : l \in Locs(opt[c].bucket, b.deleted) }
       /\ doubt' = doubt \cup unsure \cup { l \in Locs(opt[c].bucket, b.deleted) : HalfWay(l) }
       /\ UNCHANGED <<client, config, now, wire, source>>

\* An answer lists each key of the chunk as deleted or as failed.
ChunkAnswered(c) ==
    /\ pc[c] = "removing" /\ opt[c].op = "deleteMany"
    /\ Answered(c)
    /\ \E did \in reply[c] :
         LET gone == { key \in batch[c].chunk : <<opt[c].bucket, key>> \in did }
         IN  AfterChunk(c, [batch[c] EXCEPT !.chunk = {}, !.deleted = @ \cup gone,
                                           !.failed = @ \cup (batch[c].chunk \ gone)], {})
    /\ UNCHANGED <<object, opt, verdict>>

\* Fault: a chunk whose request failed is not reported.
ChunkFailsSilently(c) ==
    /\ pc[c] = "removing" /\ opt[c].op = "deleteMany"
    /\ Unanswered(c)
    /\ AfterChunk(c, [batch[c] EXCEPT !.chunk = {}], Locs(opt[c].bucket, batch[c].chunk))
    /\ UNCHANGED <<object, opt, verdict>>

\* deleteObjectsChunk's catch: every key of the chunk failed.
ChunkFails(c) ==
    /\ pc[c] = "removing" /\ opt[c].op = "deleteMany"
    /\ Unanswered(c)
    /\ AfterChunk(c, [batch[c] EXCEPT !.chunk = {}, !.failed = @ \cup batch[c].chunk],
                  Locs(opt[c].bucket, batch[c].chunk))
    /\ UNCHANGED <<object, opt, verdict>>
-----------------------------------------------------------------------------
(* copy() *)

SendCopy(c, o) ==
    /\ client
    /\ Begins(c, o)
    /\ Sends(WriteOf(c, <<o.bucket, o.key>>))
    /\ Goes(c, "writing")
    /\ UNCHANGED <<instance, object, reply, source, verdict, batch, outcome, history>>

CopyAnswered(c) ==
    /\ pc[c] = "writing" /\ opt[c].op = "copy"
    /\ Answered(c)
    /\ Settles(c, [Pending EXCEPT !.kind = "ok"])
    /\ UNCHANGED <<instance, object, wire, opt, source, verdict, batch, history>>

CopyFails(c) ==
    /\ pc[c] = "writing" /\ opt[c].op = "copy"
    /\ Unanswered(c)
    /\ Settles(c, Rejection("typed", ""))
    /\ UNCHANGED <<instance, object, wire, opt, source, verdict, batch, history>>
-----------------------------------------------------------------------------
(* The provider, the lifecycle hook, time *)

\* The call is still waiting for the answer to this request.
Awaits(r) ==
    /\ pc[r.by] = AwaitOf[r.op]
    /\ opt[r.by].op = "deleteMany" => r.at = Locs(opt[r.by].bucket, batch[r.by].chunk)
Replies(r, did) == reply' = IF Awaits(r) THEN [reply EXCEPT ![r.by] = {did}] ELSE reply

\* The object becomes visible whole, so only once a stream was read to its end. A
\* copy needs its source.
ApplyWrite(r) ==
    /\ r.op = "write"
    /\ source[r.by] \in {"none", "read"}
    /\ opt[r.by].op = "copy" => object[opt[r.by].from] # None
    /\ object' = [l \in Loc |-> IF l \in r.at THEN r.by ELSE object[l]]
    /\ wire' = wire \ {r}
    /\ Replies(r, r.at)
    /\ UNCHANGED <<instance, calls, history>>

\* DeleteObjects may fail for some keys and delete the others.
ApplyRemove(r) ==
    /\ r.op = "remove"
    /\ \E did \in SUBSET r.at :
         /\ opt[r.by].op # "deleteMany" => did = r.at
         /\ object' = [l \in Loc |-> IF l \in did THEN None ELSE object[l]]
         /\ Replies(r, did)
    /\ wire' = wire \ {r}
    /\ UNCHANGED <<instance, calls, history>>

\* After an abort the upload cannot be completed. One that was completed before
\* is unknown, which closeMultipartUpload takes for closed.
ApplyAbort(r) ==
    /\ r.op = "abort"
    /\ wire' = wire \ {r, WriteOf(r.by, LocOf(r.by))}
    /\ Replies(r, {})
    /\ UNCHANGED <<instance, object, calls, history>>

\* onApplicationShutdown(): calls in progress find no client from here on.
Shutdown ==
    /\ client
    /\ client' = FALSE
    /\ UNCHANGED <<config, cache, now, provider, calls, history>>

Tick ==
    /\ now < MaxTime
    /\ now' = now + 1
    /\ UNCHANGED <<client, config, cache, provider, calls, history>>
-----------------------------------------------------------------------------
\* Steps the service takes when the provider answered or failed, or when it has
\* nothing to wait for.
ServiceStep(c) ==
    \/ SendWrite(c) \/ SendWithoutClient(c) \/ WriteAnswered(c) \/ WriteFails(c)
    \/ MultipartAborts(c) \/ MultipartNotCreated(c) \/ MultipartStranded(c)
    \/ AbortAnswered(c) \/ AbortFails(c) \/ RecordResult(c)
    \/ RemoveAnswered(c) \/ RemoveFails(c) \/ ChunkAnswered(c) \/ ChunkFails(c)
    \/ CopyAnswered(c) \/ CopyFails(c)

\* Steps that wait for code or data of the caller: validators, scanner, source.
CallerCodeStep(c) ==
    \/ Validated(c) \/ Buffered(c) \/ PreScanPasses(c) \/ RejectedBeforeSending(c)
    \/ SourceRead(c) \/ PostScanPasses(c) \/ PostScanFails(c)

Start(c) ==
    \/ \E o \in UploadAsk : UploadRefused(c, o) \/ UploadAnswered(c, o) \/ UploadBegins(c, o)
    \/ \E o \in DeleteAsk \cup BatchAsk \cup CopyAsk : Refused(c, o)
    \/ \E o \in DeleteAsk : SendDelete(c, o)
    \/ \E o \in BatchAsk : BatchEmpty(c, o) \/ SendBatch(c, o)
    \/ \E o \in CopyAsk : SendCopy(c, o)

Next ==
    \/ \E c \in Call : Start(c) \/ ServiceStep(c) \/ CallerCodeStep(c)
    \/ \E r \in wire : ApplyWrite(r) \/ ApplyRemove(r) \/ ApplyAbort(r)
    \/ Shutdown
    \/ Tick

Spec == Init /\ [][Next]_vars

\* uploader.done() reads the caller's stream and no idle guard ends its silence.
WaitsForSource(c) ==
    pc[c] = "writing" /\ source[c] = "open" /\ opt[c].multipart /\ ~config.idleGuard

\* Node runs a ready continuation, and the SDK settles every send(): an answer,
\* or after maxAttempts attempts of requestTimeoutMs (above 0: at 0 an attempt has
\* no limit) a failure. A stream is read inside that limit when it is the body of
\* one request; in a multipart upload the guard bounds each of its silences, or
\* nothing does. Nothing bounds the caller's validators, scanner and source either,
\* so they get no fairness.
FairSpec ==
    Spec /\ \A c \in Call : WF_vars(ServiceStep(c) /\ ~WaitsForSource(c))
-----------------------------------------------------------------------------
(* Properties *)

\* Every variable holds what the code could hold.
TypeOK ==
    /\ client \in BOOLEAN /\ config \in Configs /\ now \in Nat
    /\ IsCache(cache)
    /\ object \in [Loc -> Call \cup {None}]
    /\ wire \subseteq Request
    /\ reply \in [Call -> SUBSET (SUBSET Loc)]
    /\ pc \in [Call -> Stage]
    /\ opt \in [Call -> Options \cup {Uncalled}]
    /\ source \in [Call -> Source]
    /\ verdict \in [Call -> {"none", "clean", "rejected", "threw"}]
    /\ batch \in [Call -> Progress]
    /\ outcome \in [Call -> Outcome]
    /\ withdrawn \subseteq Call
    /\ doubt \subseteq Loc

\* Locations some call in progress has asked the provider to delete.
BeingRemoved(l) ==
    \E c \in Call :
        /\ pc[c] = "removing"
        /\ l \in IF opt[c].op = "deleteMany" THEN Locs(opt[c].bucket, opt[c].keys) ELSE {LocOf(c)}

\* What a cached answer is worth: the object it names is stored, unless a delete
\* of it is in progress, a delete of it failed, or a delete of it finished while
\* an upload of it was half-way (delete() and deleteMany() invalidate when they
\* settle, upload() records when it settles, and both wait in between).
TrustedAnswer ==
    \A k \in Cached(cache) :
        LET l == <<cache.entries[k].result.bucket, cache.entries[k].result.key>>
        IN  object[l] # None \/ l \in doubt \/ BeingRemoved(l)

\* No result outlives a delete that came after it: once delete() or deleteMany()
\* reports an object deleted, no upload that had stored it by then is remembered.
NoWithdrawnAnswer ==
    \A k \in Cached(cache) : cache.entries[k].result.upload \notin withdrawn

\* Only an upload that was accepted to the end is ever an answer: its write was
\* acknowledged and, where a scanner is configured, the scanner passed it.
CachedWasAccepted ==
    \A k \in Cached(cache) :
        LET u == cache.entries[k].result.upload
        IN  /\ outcome[u].kind = "stored"
            /\ config.scanner # "off" => verdict[u] = "clean"
            /\ k = ComputeKey(opt[u].idem, opt[u].key)

\* An upload that rejects with a scan verdict and no `cleanup' in its details
\* left nothing behind: its bytes are at no location (README, "No
\* details.cleanup means the object was removed").
RemovedMeansRemoved ==
    \A c \in Call :
        /\ pc[c] = "settled" /\ opt[c].op = "upload"
        /\ verdict[c] = "rejected" /\ outcome[c].detail = ""
        => \A l \in Loc : object[l] # c

\* A multipart upload reported as aborted cannot appear at the provider any more
\* by itself: nothing of it is left on the wire.
AbortedIsFinal ==
    \A c \in Call : outcome[c].detail = "abort completed" => WriteOf(c, LocOf(c)) \notin wire

\* The library owns a stream body: however the call settles - refused, answered
\* from the cache, rejected, stranded without a client, stored - it is consumed
\* or destroyed, and it is never destroyed under a call that goes on.
SourceReleased ==
    \A c \in Call : /\ pc[c] = "settled" => source[c] # "open"
                    /\ source[c] = "destroyed" => pc[c] = "settled"

\* deleteMany() accounts for every key exactly once, chunk by chunk, whatever
\* chunks fail, and settles successfully only when none is left over.
BatchAccounts ==
    \A c \in Call : opt[c].op = "deleteMany" /\ pc[c] # "idle" /\ outcome[c].kind # "typed" =>
        LET b == batch[c]
        IN  /\ b.left \cup b.chunk \cup b.deleted \cup b.failed = opt[c].keys
            /\ b.deleted \cap b.failed = {}
            /\ (b.left \cup b.chunk) \cap (b.deleted \cup b.failed) = {}
            /\ outcome[c].kind = "ok" => b.left \cup b.chunk = {}

SameUpload(o, p) ==
    o.op = "upload" /\ p.op = "upload" /\ o.idem # NoIdem
        /\ o.idem = p.idem /\ o.key = p.key /\ o.bucket = p.bucket

\* A retry made after the first upload returned is answered, not stored again:
\* an upload goes past the cache only if no stored upload with its idempotency
\* key, bucket and key is still owed an answer - younger than the TTL, its
\* object not deleted since, the cache never over its cap, and the cache key not
\* shared with an upload to another bucket.
RetryIsAnswered ==
    [][\A c, v \in Call :
         ~ /\ pc[c] = "idle" /\ pc'[c] = "validate"
           /\ outcome[v].kind = "stored" /\ SameUpload(opt[v], opt'[c])
           /\ now < outcome[v].at + Ttl /\ v \notin withdrawn
           /\ LET stored == { u \in Call : outcome[u].kind = "stored" /\ opt[u].idem # NoIdem }
              IN  /\ Cardinality({ ComputeKey(opt[u].idem, opt[u].key) : u \in stored }) <= MaxEntries
                  /\ \A u \in stored : opt[u].idem = opt[v].idem /\ opt[u].key = opt[v].key
                                         => opt[u].bucket = opt[v].bucket
      ]_vars

\* Whatever fails, a call ends up settled or waiting for the caller's own code or
\* data: nothing in the service or between it and the provider holds it forever,
\* and a silent stream holds a multipart upload only when its guard is turned off.
OnlyCallerCodeHangs ==
    \A c \in Call : pc[c] \notin {"idle", "settled"}
        ~> \/ pc[c] \in {"settled", "validate", "buffer", "prescan", "postscan"}
           \/ WaitsForSource(c)
-----------------------------------------------------------------------------
(* What the documentation says and the code does not do *)

\* README.md:388: `A repeated upload is answered from the cache only while this
\* instance still believes the object exists'. No delete of it failed, none is
\* in progress, and yet its object is gone.
AnsweredWhileStored ==
    \A k \in Cached(cache) :
        LET l == <<cache.entries[k].result.bucket, cache.entries[k].result.key>>
        IN  \/ object[l] # None
            \/ BeingRemoved(l)
            \/ \E c \in Call : outcome[c].kind = "typed" /\ opt[c].op = "delete"

\* docs/architecture.md:161: the cache `prevents duplicate uploads when the same
\* logical object is submitted more than once'.
StoredOnce ==
    \A u, v \in Call :
        u # v /\ outcome[u].kind = "stored" /\ outcome[v].kind = "stored"
            => ~SameUpload(opt[u], opt[v]) \/ {u, v} \cap withdrawn # {}

\* README.md:587: "`cleanup: 'failed'` means it is still stored".
CleanupFailedMeansStored ==
    [][\A c \in Call :
         outcome[c].detail # "cleanup failed" /\ outcome'[c].detail = "cleanup failed"
            => object[LocOf(c)] # None
      ]_vars

\* README.md:744: `All errors are thrown as StorageException'. An error that is
\* not comes from the caller's validator, scanner or stream.
OnlyStorageExceptions ==
    [][\A c \in Call :
         outcome[c].kind = "none" /\ outcome'[c].kind = "plain"
            => pc[c] \in {"validate", "buffer", "prescan", "postscan"} \/ verdict[c] = "threw"
      ]_vars
=============================================================================
