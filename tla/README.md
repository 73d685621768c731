# A specification of nest-storage

TLA+ models of `@bymax-one/nest-storage`, a NestJS module that puts uploads,
downloads, deletes, presigned URLs and lifecycle rules on an S3-compatible
provider. The models are translated from the sources in `src/src/server`, checked
with TLC on small instances and, for the parts listed under *Proofs*, proved with
TLAPS for every instance.

## The system

The library runs inside one Node process: one thread, no database and no lock.
Everything that can go wrong over time happens at an `await`, where another call
may run, and at the provider, whose answers may be late or lost. The only mutable
state is the idempotency cache, the S3 client and what is stored at the provider.

| Part | State it keeps | Operations | What makes it correct |
| --- | --- | --- | --- |
| `StorageService` | none of its own | `upload`, `delete`, `deleteMany`, `copy`; reads: `head`, `exists`, `download`, `downloadBuffer`, `list`, `getPublicUrl`, `checkBucket` | cached answers are worth something, rejected uploads leave nothing behind or say so, streams are released, batches add up, no call hangs |
| `IdempotencyCache` | a `Map` of results with expiry instants, in LRU order | `computeKey`, `get`, `set`, `invalidate`, `clear` | cap, recency order, expiry, loss only for a cause |
| `S3ClientProvider` | the client, or nothing before init, without credentials and after shutdown | `onModuleInit`, `onApplicationShutdown`, `getClient`, `getClientOrNull`, `isConfigured` | one client, found by whoever asks first, destroyed at the end; calls in progress notice a shutdown in a defined way |
| `closeMultipartUpload` | none | abort after a failed multipart upload | a reported abort is final |
| `deleteObjectsChunk` | none | one `DeleteObjects` request | each key in one list |
| `FileScannerService`, `ValidationService` | none | run the application's scanner and validators | verdicts pass through; a validator that peeks takes nothing from the upload; the rest is data |
| `withCleanupFailure` | none | adds the cleanup's outcome to a verdict | nothing lost, nothing invented |
| `stream-utils`, `idle-timeout` | per stream: what was peeked, pause, timer | tee and peek, bounded read, idle guard | every byte once, bounded memory, source released, no cut of a live source |
| `BucketLifecycleService` | none of its own; the provider's rule set | `get`, `upsert`, `remove` | read-modify-write keeps what it does not own |
| `SignedUrlService` | none | `getDownloadUrl`, `getUploadUrl`, `getMultipartUploadUrls` | URLs expire as promised and store allowed types only; a multipart answer can be completed |
| `KeyResolverService`, error mappers | none | pure functions | round trip of a key; a refusal is never taken for a failure, nor a missing bucket for a missing object |
| module wiring and configuration | resolved options, the injector's instances | `forRoot`, `forRootAsync`, validation, defaults, recipes | accepted options work, whatever way they were given |
| no-op providers, header and result formatting, scripts, CI, examples | none over time | | not modelled |

How they interact: the application calls `StorageService`, which normalises the
key, asks the cache, runs validators and scanner (the application's code), asks
`S3ClientProvider` for the client before each request and sends it. The client
retries and, after `maxAttempts` attempts of `requestTimeoutMs`, gives up. A
post-upload scan that rejects calls the service's own `delete`. `delete` and
`deleteMany` tell the cache which objects are gone.

What is hard: calls interleaving at their awaits around one cache entry and one
object; requests applied whose answers are lost; requests applied after the call
gave up on them; a shutdown under calls in progress; several failures in one call
(a write, its abort; a scan, its cleanup; some chunks of a batch); one rule set
replaced whole by several writers; URLs used long after they were signed; a listing
or a resumed download while others write; stream events of a chain of tees in any
order; an injector that instantiates in any order. Each hazard is
listed with its line in `PROJECT.json`.

## The modules

| Module | What it is |
| --- | --- |
| `CacheOps` | the cache's `Map` as a value, with its iteration order, and the updates each method makes |
| `IdempotencyCache` | the class on its own: a step per outcome of each method, and time |
| `UploadMemory` | the abstract promise of an idempotency cache |
| `IdempotencyCache_proofs` | theorems about `IdempotencyCache` |
| `StorageService` | the four calls that change something, over the cache, the client and the provider |
| `MCStorageService` | the options and symmetry TLC uses for `StorageService` |
| `StorageService_proofs` | theorems about `StorageService`: types, what a cached answer is worth, what becomes of streams, verdicts, aborts, deletes and batches, which retries are answered |
| `KeyResolver` | keys as sequences of segments: the prefix, `normalize`, `stripPrefix` |
| `KeyResolver_proofs` | lemmas: what trimming, collapsing, prepending and stripping do to any text |
| `ErrorMappers` | the code each error of the client is mapped to |
| `RuleStore` | the abstract promise about a bucket's lifecycle rules |
| `BucketLifecycle`, `MCBucketLifecycle` | the lifecycle service on several modules that share a bucket |
| `BucketLifecycle_proofs` | theorems about it, and that it implements `RuleStore` |
| `SignedUrls`, `MCSignedUrls`, `SignedUrls_proofs` | presigned URLs, those who hold them, and the clock |
| `BodyStream`, `MCBodyStream`, `BodyStream_proofs` | the tees, the idle guard and the bounded read of one stream body |
| `ObjectReads`, `MCObjectReads`, `ObjectReads_proofs` | the reads, against a bucket that changes |
| `ModuleOptions` | options, recipes, validation, defaults, public URLs |
| `ModuleBoot`, `MCModuleBoot`, `ModuleBoot_proofs` | registration, instantiation, hooks and shutdown |

`BucketLifecycle` and `ObjectReads` extend `KeyResolver` and `ErrorMappers`;
`SignedUrls` extends `ErrorMappers`; `ModuleBoot` extends `ModuleOptions`;
`StorageService` extends `CacheOps`.

### CacheOps, IdempotencyCache, UploadMemory

A cache is a record: `entries`, a function from cache keys to a result and its
expiry instant, and `older`, the strict order in which the `Map` iterates. The
order is data of the code (its LRU is nothing else), so it is part of the value.
`set()`'s eviction loop is `Evictions`: the runs of oldest keys that bring the
cache back to its cap; there is exactly one such run, and the set form needs no
recursion. A cache key is the pair of idempotency key and object key: SHA-256 of a
JSON encoding of the pair is taken as injective. Object keys are relative to
`keyPrefix`; prefixing is a bijection on normalised keys, so final keys are not
spelled out. The clock only advances (`Date.now()` can be set back; the model does
not).

`UploadMemory` says what the cache is for, without saying how: a memory that may
forget whenever it learns, answers with what was stored last under that key, for
`Ttl` ticks only, and never with an object it was told is gone. The refinement
mapping reads `storedAt` off the expiry instant.

### StorageService

One action per stretch of code between two awaits. `pc[c]` names the await a call
is at:

| `pc` | the code is waiting in |
| --- | --- |
| `validate` | `validation.validate` (peek and validators) |
| `buffer` | `readStreamUpTo`, pre-upload mode, stream body |
| `prescan`, `postscan` | the application's scanner |
| `send` | nothing but the microtask between the last await and the request; another call or the shutdown hook can run there |
| `writing` | `PutObject`, `CopyObject`, or the uploader's exchange of a multipart upload |
| `aborting` | `AbortMultipartUpload` |
| `removing` | `DeleteObject` or one `DeleteObjects` |
| `record` | the microtask before the cache is written |

The provider holds `object[l]`, the call whose bytes are at location `l`, and
`wire`, the requests sent and not yet applied. `ApplyWrite`, `ApplyRemove` and
`ApplyAbort` take a request off the wire at any time and, if the call is still
waiting for it, leave a reply. A call in `writing`, `removing` or `aborting` may
instead fail at any time: before the request is applied (it may still be applied
later, or never), or after (the reply is lost). That one rule covers a refused
request, a lost request, a lost answer, a timeout and a late application. A request
that is on the wire for good is one that was lost.

Details that matter:

- `upload()` reads the cache when it starts (`UploadAnswered`, `UploadBegins`) and
  writes it when it ends (`RecordResult`); nothing marks an upload in progress.
- `delete()` invalidates after its answer, or after a 404 (`RemoveAnswered`); the
  cleanup of a rejected upload is the same code and the same actions.
- `deleteMany()` sends chunk after chunk, asks for the client before each, and
  invalidates after the last (`AfterChunk`).
- `getClient()` throws a plain `Error` after shutdown. Inside a `try` it is mapped
  (single-shot upload, delete, copy); `uploadMultipart`, `failMultipart` and the
  loop of `deleteMany` call it outside.
- The parts of a multipart upload are one request. A failure before
  `CompleteMultipartUpload` was sent takes the write off the wire; a failure of the
  Complete leaves it there. After an abort it cannot be applied.
- Which keys a chunk holds is the caller's order: any subset of the right size.
  Keys of one `deleteMany` are distinct; a provider answers for each key of a
  request.
- Data left out: bodies, sizes, metadata, headers, progress events, logging. A
  validator or scanner accepts, refuses with a typed error or throws its own.

`config` is how the module is configured: the scanner's mode, and whether the idle guard
is on (`uploadIdleTimeoutMs` other than 0). A stream that is sent is read on the way:
`SourceRead` is the source's end reaching the request or the uploader, and the write
cannot be applied before it (`ApplyWrite`). It is a step of the caller's data, not of the
service, and need never happen.

The two history variables are read by properties only. `withdrawn` holds the
stored uploads whose object a later `delete()` reported removed. `doubt` holds the
locations where a delete failed, or was answered while an upload of the location
was half-way, between its write and its cache entry.

### KeyResolver, ErrorMappers

A string is the sequence of its `/`-separated segments, so that what the code does
with slashes is what the model does with empty segments: `a//b/` is
`<<"a", "", "b", "">>`. `Normalize` prepends the prefix and collapses inner runs of
slashes; `Acceptable` is its guards (empty key, leading slash, `..`, null byte). An
error of the client is its name, its `Code` and its HTTP status, which is all the
mappers look at; the order of their tests is kept, as `NoSuchBucket` comes with
status 404.

### BucketLifecycle, RuleStore

| `pc` | the code is waiting in |
| --- | --- |
| `reading` | `GetBucketLifecycleConfiguration` |
| `writing` | `PutBucketLifecycleConfiguration`, or `DeleteBucketLifecycle` when no rule is left |

`Start` holds all checks up to the read. `UpsertRead` and `RemoveRead` go from the
read's answer to the sending of the write: the ownership check (`assertOwnable`)
and, in `Payload`, the configuration that is sent, which is the one that was read
with one id changed and the transition setting passed back. `sent[c]` is where a
write is: on the wire, applied or dropped; a call that fails with an open error
leaves it on the wire, to be applied at any later time or never. `careful` is a
constant of a behaviour: whether its callers take turns *and* wait until a write
that timed out has been applied or lost. `RuleStore` says what a caller may expect:
a write gives one id a value and leaves the rest as its call found it, which for
careful callers is what is in force and for others is what was in force once.
Changes made from a console are not modelled.

### SignedUrls

Signing is an `await`: time may pass between the date in a signature (`Sign`,
`SignPart`, `SignComplete`) and the deadline in the answer (`Answer`). The part
URLs are signed in parallel, the completing one once they all are, whatever the
method's comment says (see the disagreements). The configured limit of a lifetime is
taken as a number above 0, and a multipart upload has at most `MaxParts` parts. A multipart
call first sends `CreateMultipartUpload` (`session`): nothing aborts the upload when the
answer is lost or a signature fails, and the model does not either. `UsePut`,
`UsePart` and `UseComplete` are the holders, who may use a URL as often and as late
as the provider lets them. A content type is a list of media types, since the text
of a header can hold several and a browser takes the last.

### BodyStream

One upload's body. Stream 0 is the source, stream *i* the `PassThrough` that
replaces it after the *i*-th `readBytes()`; the *i*-th tee's handlers are `Data`,
`End`, `Error` and `Close` of `i`. A `PassThrough` has a writable and a readable
buffer, moved by `Transform`, which emits `drain`. Each event is a step, so anything
may happen between two of them. The sink is the SDK's uploader (`plain`, or
`guarded` by `withIdleTimeout`) or `readStreamUpTo` (`buffer`). Bytes are numbers,
so that "each once and in order" is a statement about sequences. Node's own events
take no time: `Tick` happens when every one of them has run.

Two things the module shows that are not defects of a property: `readBytes(0)` never
closes its peek before the source ends, so that body is held in memory whole
(`MemoryBounded` excepts that peek); and the source destroyed *without* an error while a
validator peeks emits neither `end` nor `error`, and the call waits for ever.
Overlapping `readBytes()` of one validator, which tee the same stream twice, are not
modelled: the peeks of an upload are made one after the other.

### ObjectReads

One reader: calls share nothing with each other, so what interleaves with a read is
not another read but the writes of others (`Put`), the provider's moment of answer
(`Applies`) and failures. `seen` records what was under the key while the call was
in progress. `Resume` is the caller who asks for the second half of an object under
the condition on the etag of the first; `ListOn` is the caller who passes the token
back. The bucket's order of keys is a constant of the model, `Order`, and a page of
groups is computed as S3 documents `Delimiter` and `MaxKeys`.

Facts a reader should know: `exists()` answers false for *any* error, a timeout or a
missing bucket included; `downloadBuffer()` rejects with a raw error when the body
breaks (`BufferBreaks`), and its body has no idle guard; `maxKeys: 0` gives an empty
last page.

### ModuleOptions, ModuleBoot

A URL is the labels of its host and the segments of its path; a bucket's name is labels
too, one or several (`my.bucket` has two), so a segment is a sequence of labels. A number
is any integer, or NaN: what `validateOptions` compares is translated with NaN passing
every comparison (`Below`), and what it does not look at (`requestTimeoutMs`) is taken as
it is. `Recipe` is what each provider recipe makes of bucket and region, `Valid` is
`validateOptions`, `ApplyDefaults` is `applyDefaults` with the base the services choose for
public URLs, `PublicUrl` is `buildPublicUrl` for the default bucket. Left out: fractions
and infinities, values of other types than TypeScript's, and a slash in a bucket's name.

`ModuleBoot` registers the module (`ForRoot`, `ForRootAsync` with any set of
descriptors), lets the injector instantiate tokens in any order their dependencies
allow (`Needs` is read off the providers' `inject` lists and constructors), then runs
the hooks, the application and the shutdown. `MakeRawClient` and `OnModuleInit` build
the client, whichever runs first. `Call` is an operation of `StorageService` made
from the consumer's own code, from the moment the service is there; `ConsumerFails`
is any failure of that code during the boot.

Facts a reader should know: code that runs *while* the injector still instantiates
(a consumer's factory) can be told `STORAGE_NOT_CONFIGURED` although credentials are
there; a boot that fails after the raw client was built destroys nothing; and a
consumer who keeps the raw client across the shutdown holds a destroyed one. A
`maxTtlSeconds` or `partSizeBytes` of NaN passes validation and is taken over; a
`requestTimeoutMs` below zero or NaN is accepted and becomes the idle limit too, and one
of 0 turns the idle guard off.

## Runs

| Run | Instance | Question |
| --- | --- | --- |
| `cache` | 2 idempotency keys, 2 object keys, cap 2, TTL 2, clock to 3 | does the LRU keep its cap, its order and its promise over all sequences of calls? |
| `service` | 2 calls of any operation, 3 scanner modes under the idle guard and none without it, shutdown, clock to 1 | does any interleaving of two calls lose a stream, a key of a batch or the finality of an abort, or hang? |
| `three_calls` | 3 calls (upload to either of two buckets, delete, deleteMany), cap 1, shutdown, clock to 1 | what is an answer from the cache worth? |
| `lifecycle` | 2 modules (`a/`, `b/`), 2 calls, 2 rule ids, 3 initial rule sets, shutdown, lost and late writes | what survives a read-modify-write, and for whom? |
| `signed_urls` | 2 calls of 12 kinds on one key, clock to 3, limits 3 and 2, up to 2 parts | what can be done with a URL, and for how long? |
| `body_stream` | 6 bytes in chunks of 1 or 2, buffers of 2, 0 to 2 tees, 3 sinks, idle time 2 | does every byte arrive once, in bounded memory, and is the source let go? |
| `object_reads` | 5 objects, one of 2 versions, 27 calls, pages of 1 to 3, writes at any time | are answers true and listings complete while others write? |
| `module_boot` | 6 recipes with and without credentials for `bucket` and `my.bucket`, 21 variations, 9 ways to register | do hooks find a client, is it destroyed, do the options work? |
| `answered_while_stored`, `stored_once`, `cleanup_failed`, `only_storage_exceptions` | 2 calls | the four disagreements below |

What the properties say:

- `WithinCapacity`, `RecencyOrder`, `LossHasACause`, `ImplementsUploadMemory`: the
  cache on its own. The last is the refinement.
- `TrustedAnswer`: an entry's object is stored, or a delete of it is in progress,
  or the location is in doubt. This is the strongest statement the code supports;
  each exception is needed, and TLC shows so when one is taken out.
- `NoWithdrawnAnswer`: an upload that was stored before a delete of its object was
  reported is not remembered.
- `CachedWasAccepted`: entries come only from uploads that were acknowledged and,
  in a scanner mode, passed.
- `RemovedMeansRemoved`: a scan verdict without a cleanup detail means the bytes
  are nowhere. It is about verdicts: when the scanner throws an error of its own,
  a failed cleanup leaves no detail (the error is passed on unchanged).
- `RetryIsAnswered`: a retry made after the first upload returned is answered,
  unless the entry expired, its object was deleted, the cap was exceeded, or the
  cache key is shared with another bucket (the cache key leaves the bucket out).
- `AbortedIsFinal`, `SourceReleased`, `BatchAccounts`: see the modules' comments.
- `OnlyCallerCodeHangs`: every call settles or waits for a validator, a scanner or the
  source. The source is waited for in pre-upload mode and, *with the idle guard off*, by
  the uploader (`WaitsForSource`): an `uploadIdleTimeoutMs` of 0 is accepted and
  documented, and a source that goes silent then holds the upload for ever.

- `ForeignRulesKept`: a rule that no module's prefix confines is there at the end as
  it was at first, whatever is called and however late a write is applied.
- `RefusedWroteNothing`: a call that settles with a refusal has not written and has
  nothing on its way. It ties the error table to the protocol: were a timeout
  mapped to a refusal's code, it would fail.
- `AnswersHold`: for careful callers, what was reported written is in force until a
  call names the same id.
- `ViewsCanBeWritten`: what `get()` returns for a rule of this service can be passed
  to `upsert()` again and gives the same rule.
- `ImplementsRuleStore`: the refinement.
- `StoredTypesAllowed`: whatever holders send, an object stored through a URL is
  served with a type the whitelist allows.
- `UrlsExpire`: no URL outlives the limits, nor the deadline its caller was told.
- `PartsCanBeCompleted`: a URL for each part, and a completing URL that is honoured as
  long as any of them. It rests on an order the method's comment denies,
  so a change that makes the comment true (`AnyTime`) breaks it.
- `RefusedOpensNothing`: bad arguments open no multipart upload.
- `BytesInOrder`, `HeadsAreFirst`: the upload and each validator get the right bytes;
  an error never passes for the end of the body.
- `MemoryBounded`: a tee holds its peek or a high-water mark, and a chunk; a peek of
  no bytes is excepted.
- `CutOnlyWhenSilent`: the idle guard gives up only when nothing the source delivered
  is still on its way through the tees.
- `Settles`, `SourceIsReleased`: no pause without a drain; a failed upload closes the
  source at the far end of the chain.
- `AnswersWereTrue`, `OneVersion`, `ListingComplete`: see above. What is stable during
  a listing is returned exactly once, by a key that reads the same object back (for
  keys this module stores).
- `HooksFindTheClient`, `ClientsReleased`: see the modules' comments.
- `OptionsWork`: what validation accepts can be used, in whatever way it was given. Its
  exceptions are values the code takes over unchecked, and each is needed: a limit of NaN,
  a request timeout below zero or NaN that the idle limit follows, and a bucket of several
  labels in a virtual-host URL, which names it exactly twice. The last two contradict
  documents; see the disagreements.

Why the bounds are enough. The cache compares keys and instants only: with cap 2,
four keys give hits, overwrites and evictions of either survivor, and a TTL of 2
over 3 ticks gives entries of different ages, live and expired together. The
service's properties relate at most an upload, a call that overtakes it and a
retry, hence three calls; `BatchLimit` 1 with two keys gives a first, a last and a
failing chunk. Calls are interchangeable in `three_calls`, whose properties treat
all alike, so they are a symmetry set; the run with a liveness property has no
symmetry. Deadlock is off for the service: each call is made once, and the system
stops when all have settled. The cache's run checks for deadlock.

The rule set's properties relate a call and one that overlaps or follows it, over the id
they share and one they do not: two calls, two ids. Two prefixes, one given with a
leading slash, tell a rule of either module from one of neither. A URL lives one or two
ticks of three, so it can expire before or after the last step of its call; the TTLs
asked for are zero, within and above the limits, and the default. Six bytes exceed both
buffers of a tee (four), so that a full stream, a pause and a drain occur; heads are
longer than, equal to and shorter than a chunk, and the second peek reads further or
less far than the first. The five objects hold a neighbour of the prefix, a neighbour
within it, a key with an empty segment, and groups of one and two; a page takes fewer
entries than there are, or all. Each option that is validated or clamped is given at its
limit, one beyond it and as NaN, the request timeout below, at and above zero; a bucket
of one label and one of two tell a name from the first label of a host. In these runs
too each call is made once, and the system stops: deadlock is not checked.

Fairness is assumed, in `StorageService`, of `ServiceStep` only: Node runs continuations
that are ready, and the SDK settles every `send()` within `maxAttempts *
requestTimeoutMs`, for a `requestTimeoutMs` above 0 (at 0 an attempt has no limit). A
stream that is the body of one request is read inside that limit. One that is uploaded in
parts is not: the uploader reads it with no request in flight, and only the idle guard
bounds each silence, so that the uploader's `done()` ends because an object has at most
10 000 parts, each of them read and sent in bounded time. Where the guard is off
(`uploadIdleTimeoutMs: 0`, `idle-timeout.ts:93`) nothing bounds that wait, and no fairness
is assumed of a step that it holds back (`WaitsForSource` in `FairSpec`). Nor is it
assumed of the provider (a request may never be applied), of the validators, of the
scanner or of the source itself, none of which the code bounds. In `BodyStream` it is
assumed of `Library` (Node runs the handlers of events that were emitted, and its
timers), `Ask` (the uploader and the bounded read go on reading) and `Accept` (a
validator that has its bytes settles), and of nothing the source does: `Settles`
states what follows for a source that ends or fails, and that under the idle guard
every source will do. The other modules state safety only: their waits are single
requests, which the client bounds.

## Where the code and the documentation disagree

- **`AnsweredWhileStored`.** An upload writes its object; before it records the
  result, a delete of the same key is applied and answered, and invalidates nothing,
  as there is no entry yet; the upload then records its result. From then on this
  instance answers retries with an object it deleted itself (README:388 says it does
  so only while it still believes the object exists). With a post-upload scanner the
  window is as long as the scan; without one, the delete's answer must overtake the
  write's.
- **`StoredOnce`.** A retry made while the first upload is in progress is stored
  again (docs/architecture.md:161 promises the opposite, and names a client's
  timeout as the case). The comment in `idempotency-cache.ts` concedes it for several
  replicas only.
- **`CleanupFailedMeansStored`.** A cleanup whose delete was applied and whose
  answer was lost reports `cleanup: 'failed'` (README:587: "it is still stored").
- **`OnlyStorageExceptions`.** After a shutdown a multipart upload in progress
  rejects with a plain `Error` (README:744).

## Proofs

`IdempotencyCache_proofs` proves, for any sets of keys, any cap and any TTL
(assumptions: both are naturals), that the specification implies `TypeOK`,
`WithinCapacity`, `RecencyOrder`, `LossHasACause` and `ImplementsUploadMemory`.

- What each operator of `CacheOps` returns on a well-formed cache is a lemma
  (`WithoutIsCache`, `AppendedIsCache`, `StoredIsCache`, `TouchedIsCache`); the type
  theorem follows action by action. `StorageService_proofs` has the same lemmas, as
  the two modules share `CacheOps` and not a state.
- Capacity is not inductive alone: `Cardinality` means something only for finite
  sets. The invariant adds that the cached keys are finite; `set()` is the only step
  that adds a key, and it is bounded by `Evictions`.
- Recency is inductive together with the type: `WithoutInOrder` and
  `AppendedInOrder` say that removing keys and re-inserting one keep the order equal
  to the order of last use.
- `LossHasACause` uses both: an eviction takes the oldest run, and the order says
  that is the least recently used.
- The refinement maps each action: a hit to `Recall`, either kind of miss to
  `Decline`, `set` to `Remember` with the evictions as what is forgotten,
  `invalidate` to `Withdraw`.

`StorageService_proofs` proves, for any number of calls with any options, any
batch limit, cap and TTL, and under no fairness, that the specification implies all
its safety properties. It assumes `ServiceAssumption`: the options are well
formed, and the set of object keys is finite.

- `TypeOK` needs `StageOK`: at each await the call has the options of the operation
  that awaits there.
- `TrustedAnswer` alone is not inductive: that a delete is *in progress* says
  nothing of what happens when it ends. The invariant `TrustInv` has four parts more:
  - `WireOK`: a delete request still on the wire has a caller that waits for it and
    has no answer, or its locations are in doubt. So a delete that takes effect after
    its caller gave up never surprises a location that is not in doubt.
  - `ReplyOK`: only a waiting call has an answer, one, and about what it asked for.
  - `BatchOK`: a batch deletes what it was asked to delete, chunk after chunk.
  - `Tracked`: every location that an entry names, *or that an upload which was
    answered and not recorded yet wrote*, holds an object, is in doubt, or is known to
    be deleted by a call still waiting. The second half is what a step of another
    call must not break between an upload's write and its entry.
- The steps fall into four kinds, and each kind is proved once: `Quiet` (no delete
  starts or ends), `Asks` (sends a first delete), `Continues` (a batch goes on to its
  next chunk) and `Ends` (a delete settles: what it knows deleted has no entry left
  and no upload half-way, or is in doubt). `CallDoes` says that every step of a call
  is of one of these kinds; the provider's three steps have their own lemmas.

The other safety properties of its runs rest on more:

- `SourceReleased` and `CachedWasAccepted` from `CallOK`: where a stream may still be
  open, that a call has no outcome before it settled, and which scan an upload has
  passed at which await. That a write has no answer before its stream was read is `ReadOK`.
  `Alone` says that a step of one call leaves the others be, and that a settled call
  never moves again.
- `AbortedIsFinal` from `WritesOK`: a write on the wire belongs to a call that is not
  `Past` it. A call gets past its write only by an answer, and the answer to an abort
  takes the write off the wire.
- `RemovedMeansRemoved` from `WritesOK`, `ObjectsOK` (an object is where its call was
  asked to put it) and `ErasedOK`: between the provider's delete and the end of the
  call, and from then on, the bytes are nowhere.
- `NoWithdrawnAnswer` from `CachedWasAccepted` and `NamesOK`: an entry is the whole
  result of its upload, so dropping the entries of a location drops the uploads.
- `BatchAccounts` from `Divides`: the keys left, in flight, deleted and failed are
  disjoint and add up to what was asked. That the next chunk and the rest are
  disjoint is what the property itself does not say.

- `RetryIsAnswered`, an action property, from `Remembered`: every stored upload with an
  idempotency key that is still owed an answer has an entry that lives at least `Ttl`
  longer than the moment it was stored, or is older than that. Each way to lose the
  entry is one of the property's exceptions: `Evictions` takes nothing while the keys
  ever stored are no more than the cap (`NothingEvicted`, which needs that they are
  finitely many), an upload that begins drops an expired entry only (`HeldAtStart`), an
  overwrite lives longer than what it replaces (`HeldAtRecord`), and a delete that drops
  the entry withdraws the upload, unless another bucket shares the key
  (`DroppedIsWithdrawn`). The exceptions only become true over time, so that what holds
  after a step was owed before it (`OwedBefore`).

`KeyResolver_proofs` has the lemmas about texts that two modules need. `Collapse` keeps
some positions of a text and drops the others, which the model says with sets of
positions and no recursion; the n-th position kept is then a least element
(`LeastOf`, from the library's theorem that a well-founded relation has minimal elements),
and everything else follows by position: what is collapsed has no empty segment inside,
collapsing it again changes nothing (`CollapsedOnce`), `stripPrefix` takes off exactly
what `normalize` put before a text (`Stripped`), and prepending to what was stripped
gives the text back (`Restored`). The assumption is that the empty segment is a string
(`TextAssumption`; the prover does not know it).

`BucketLifecycle_proofs` proves, for any number of modules, prefixes, calls, rule ids
and errors, `TypeOK`, `ForeignRulesKept`, `RefusedWroteNothing`, `AnswersHold`,
`ViewsCanBeWritten` and `ImplementsRuleStore`. It assumes `LifecycleAssumption` (the
constants are of their kinds) and `OpenErrors` (an error that leaves open what the
provider did has none of the names and statuses by which a refusal is recognised).

- `Stages`: which calls have a write out, and that whatever is out was accepted by
  the checks of `Start`.
- `WritesAreOwned`: a write on the wire changes an id that its module may change, in
  the snapshot it was computed from. With `History` (every snapshot was in force once,
  and in all of them a foreign rule is what it was at first) a stale write cannot
  touch a foreign rule. That is why the property survives overlaps although each
  write replaces the whole configuration.
- `Turns`, for careful callers: one call at a time is active, and its snapshot is what
  is in force; what was answered is in force until a later write names its id. Without
  the clause that a write that timed out is waited for, TLC refutes `AnswersHold`.
- `ViewsCanBeWritten` is not about steps but about texts: whatever prefix a caller gave,
  what `get()` returns of the rule is a collapsed text, which the checks accept and
  `normalize` leaves as it is.
- The refinement is the identity on the configuration; `Applies` is `Write` of the
  call's id, everything else stutters.

`SignedUrls_proofs` proves the five invariants of its run for any asks, whitelist,
limits and number of calls. The invariant is per call (`CallInv`): the lifetime of
every URL signed is the clamped one, none was signed later than now, the completing
URL was signed after all parts, and at each await the options are accepted ones.
`OwnStep` and `OtherStep` say that a step of one call keeps its own invariant and
cannot disturb another's, except through time, which only grows. That the checked
type is the served type rests on `MimeMatches` accepting a single media type only.

`ObjectReads_proofs` proves `TypeOK`, `AnswersWereTrue`, `OneVersion` and
`ListingComplete` for any objects, versions, keys and asks, under `ReadsAssumption`,
`ClientAssumption` (an error of the client has none of the marks by which an answer of
the provider is recognised), `ErrorsAssumption` (the names the provider uses are among
those the mappers may meet) and `OrderAssumption` (in the provider's order the texts of
one folder are next to each other, as they are in the order of UTF-8 that S3 lists in).

- `AnswersWereTrue` speaks of settled calls; the invariant `ReplyTrue` says the same of a
  reply from the moment the provider gives it. It then survives whatever others write,
  because `seen` only grows while the call is in progress.
- `PiecesFollow` is what `OneVersion` needs: after the first half the pieces are of one
  etag, and the rest was asked for under that etag.
- `ListingComplete` speaks of the end of a listing; the invariant `Listing` follows it
  page by page. What has been there throughout and is behind the token is on no page
  yet, what is not is on exactly one (`PagesListed`); the page on its way takes the
  texts from the token to its own end and no others (`ReplyListed`). No group of a page
  goes on behind the token, which is where the order matters (`TokenClosed`). That a
  page has a last entry, and what it takes when there is one entry more than it may
  hold, are lemmas about finite sets of positions. That each name leads back to the
  object is `Restored` of `KeyResolver_proofs`.

`BodyStream_proofs` proves the safety of the stream: `TypeOK`, `BytesInOrder`,
`HeadsAreFirst`, `MemoryBounded` and the action property `CutOnlyWhenSilent`, for any
number of tees, any peeks (of no bytes as well), any buffer and chunk sizes and a body
of any length. The bytes of a stretch are given by where it starts and how long it is,
so the invariant `Chain` needs no concatenation along the tees: there is a function `p`,
how many bytes each stream has passed on, such that each stream holds the stretch that
follows its `p`, and a live one has received exactly what the one before it passed on
(`Carried`). With it: a peek holds the first of the bytes that passed it (`Peeked`), the
end of the body reaches a stream after all of its bytes (`EndSeen`), a tee that is held
back waits for a drain that will come and one that is not has room (`HeldBack`), and
while the upload runs only the last streams of the chain can be dead
(`DeadHoldNothing`). `StreamInvariant` is the theorem that it is inductive.

`ModuleBoot_proofs` proves `TypeOK`, `HooksFindTheClient`, `ClientsReleased` and
`OptionsWork` for any set of configurations. `InOrder` carries the argument: the
raw-client token is among the tokens that must be there before the first hook, and its
dependencies lead through `S3ClientProvider` to the options. So by the first hook the
client exists if there are credentials (`OneClient`), whatever order the injector chose,
and `CallsAnswered` fixes what calls were told from then on. `OptionsWork` is about what
was resolved, which `OptionsKnown` says is `ApplyDefaults` of options that passed
`Valid`, and about the consumer's validators and scanner: the invariant `Wired` says
that the user tokens come after the options and that what is wired by the first hook is
what the options name. The rest is arithmetic and the texts of URLs, label by label and
segment by segment. `Options` leaves numbers and labels open, so the theorem covers
negative numbers, zero, NaN and names of any labels. That a virtual-host URL names a
bucket of several labels exactly twice is part of it: `LeadingLabel` says that the first
label of a host is a bucket of one label that leads it and never one of several, and
`NamedOnce` counts. `RecipeAssumption` says which options claim a recipe: those with the
addresses and the checksum setting that `Recipe` gives, where the endpoint of a
self-hosted provider does not name the bucket and a custom domain does so once at most.

Only model-checked: `OnlyCallerCodeHangs`, `Settles` and `SourceIsReleased`, as liveness
under fairness is out of the prover's reach, and the four disagreements above, which
are refuted by an example and need no proof. Every invariant, action property and
refinement of a passing run is a theorem.

Induction over data, RECURSIVE operators, ENABLED and liveness stay with TLC
throughout; no module here declares a RECURSIVE operator.

## Disagreements noted without a violation run

- The comment at `signed-url.service.ts:219` says of `presignMultipartParts` "Presigns all
  part URLs and the complete URL in parallel". The code signs the parts' URLs in parallel,
  awaits them all (line 232) and then signs the completing one (line 241). The order is
  what `PartsCanBeCompleted` rests on: the comment's reading is `AnyTime`, and TLC finds
  with it a completing URL that expires before the last part's.
- The idle limit is "An integer of at least `0`"
  (`storage-module-options.interface.ts:107`), and `withIdleTimeout` asks for one "greater
  than 0" (`idle-timeout.ts:49`). It defaults to `requestTimeoutMs`
  (`apply-defaults.ts:78`), which nothing validates: with -1 the timer of every wait fires
  at once, and a source is cut off that is not silent. `OptionsWork` excepts that case.
- `buildPublicUrl` avoids "a duplicated bucket segment in the base"
  (`storage.service.ts:480`), the virtual-hosted style included (line 490). It compares the
  bucket with the first label of the host (line 501), so `my.bucket` is not found in
  `my.bucket.s3.region.amazonaws.com`, and the public URL of a key gets `/my.bucket/` in
  front of the key: the address of another object. `OptionsWork` states it: such a URL
  names the bucket exactly twice.
- src/README.md:839 says that keys the library returns can be passed straight back.
  That holds for keys this module stores (`ListingComplete` says so by `Own`). An
  object somebody else stored under a key with `//`, a leading slash or `..` is
  listed, and its key is then read as another one or refused.
- The comment at `stream-utils.ts:117` says that before the peek closes buffering is
  capped near `maxBytes`; `readBytes(0)` never closes the peek before the source ends,
  so the tee never pauses its source and holds all of it.
- docs/architecture.md:80 says that `getClient()` throws `STORAGE_NOT_CONFIGURED`; it
  throws a plain `Error`, of which `OnlyStorageExceptions` shows one consequence.
- `exists()` maps every failure to false; a caller cannot tell a missing object from a
  provider that is down.
- With the default `publicBaseUrl`, which carries the default bucket in its path, the
  public URL of an object stored under a per-call bucket names both; with R2's custom
  domain, which serves a bucket at its root, the URL is given the bucket's name as a
  path segment. `OptionsWork` is stated for the default bucket and counts names only.
- Options given explicitly as `undefined` inside `signedUrls` replace the default they
  are spread over, and the minimum with the ceiling is then `NaN`
  (`apply-defaults.ts:32-33`); the model's options are present or absent, and a NaN is one
  that was given.

## Plan

Left for later work:

1. `MultipartUpload`: the SDK's exchange of parts inside one upload, should the code
   ever do it itself; today it is one request of the client here.
2. The choice of strategy by size, and the built-in validator's checks of size, MIME
   type and magic bytes as a decision table.

## Not modelled

- The parts exchange inside `@aws-sdk/lib-storage`, signing, checksums, retries of the
  SDK: external, and represented by what the code relies on.
- Headers, metadata, messages, HTTP statuses, error details, logging: formatting.
- Magic-byte detection, sizes and MIME normalisation of the built-in validator: pure
  functions of data whose results the models take as accepted or refused.
- `NoOpScanner`, `NoOpValidator`: they have no state and no decision.
- Scripts, CI, examples, tests: not part of the running system.
