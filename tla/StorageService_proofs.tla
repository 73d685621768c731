------------------------ MODULE StorageService_proofs ------------------------
(***************************************************************************)
(* Proofs about the calls of StorageService, for any number of calls, keys *)
(* and buckets, any options, any batch limit, cap and lifetime.            *)
(***************************************************************************)
EXTENDS StorageService, FiniteSetTheorems, TLAPS
-----------------------------------------------------------------------------
(* What the Map operators of CacheOps return, for every well formed cache: *)
(* the lemmas of IdempotencyCache_proofs, whose module has a state of its  *)
(* own.                                                                    *)

\* The Map of a new cache.
LEMMA EmptyIsCache == IsCache(Empty) /\ Cached(Empty) = {}
BY DEF IsCache, Empty, Cached, Entry

\* Map.delete: what is left keeps its entry.
LEMMA WithoutIsCache ==
    ASSUME NEW c, NEW D, IsCache(c)
    PROVE  /\ IsCache(Without(c, D))
           /\ Cached(Without(c, D)) = Cached(c) \ D
           /\ \A k \in Cached(c) \ D : Without(c, D).entries[k] = c.entries[k]
<1> DEFINE w == Without(c, D)
<1>1. Cached(w) = Cached(c) \ D
  BY DEF Without, Cached
<1>2. \A k \in Cached(c) \ D : w.entries[k] = c.entries[k]
  BY DEF Without, Cached
<1>3. w.entries \in [Cached(w) -> Entry]
  BY <1>1, <1>2 DEF Without, IsCache, Cached
<1>4. w.older \subseteq Cached(w) \X Cached(w)
  <2>1. SUFFICES ASSUME NEW p \in w.older PROVE p \in Cached(w) \X Cached(w)
    OBVIOUS
  <2>2. p \in c.older /\ p[1] \notin D /\ p[2] \notin D
    BY DEF Without
  <2>3. p \in Cached(c) \X Cached(c)
    BY <2>2 DEF IsCache
  <2> QED BY <2>2, <2>3, <1>1
<1>5. w = [entries |-> w.entries, older |-> w.older]
  BY DEF Without
<1> QED BY <1>1, <1>2, <1>3, <1>4, <1>5 DEF IsCache

\* Map.delete and Map.set: the key is there, with its entry, and nothing else
\* changed.
LEMMA AppendedIsCache ==
    ASSUME NEW c, NEW k \in CacheKey, NEW e \in Entry, IsCache(c)
    PROVE  /\ IsCache(Appended(c, k, e))
           /\ Cached(Appended(c, k, e)) = Cached(c) \cup {k}
           /\ Appended(c, k, e).entries[k] = e
           /\ \A x \in Cached(c) \ {k} : Appended(c, k, e).entries[x] = c.entries[x]
<1> DEFINE a == Appended(c, k, e)
<1>1. Cached(a) = Cached(c) \cup {k}
  BY DEF Appended, Cached
<1>2. a.entries[k] = e /\ \A x \in Cached(c) \ {k} : a.entries[x] = c.entries[x]
  BY DEF Appended, Cached
<1>3. a.entries \in [Cached(a) -> Entry]
  BY <1>1, <1>2 DEF Appended, IsCache, Cached
<1>4. a.older \subseteq Cached(a) \X Cached(a)
  <2>1. Without(c, {k}).older \subseteq Cached(c) \X Cached(c)
    BY WithoutIsCache DEF IsCache
  <2>2. { <<x, k>> : x \in Cached(c) \ {k} } \subseteq Cached(a) \X Cached(a)
    BY <1>1
  <2> QED BY <2>1, <2>2, <1>1 DEF Appended
<1>5. a = [entries |-> a.entries, older |-> a.older]
  BY DEF Appended
<1>6. Cached(a) \subseteq CacheKey
  BY <1>1 DEF IsCache
<1> QED BY <1>1, <1>2, <1>3, <1>4, <1>5, <1>6 DEF IsCache

\* A cached key has an entry.
LEMMA EntryOfCached ==
    ASSUME NEW c, NEW k \in Cached(c), IsCache(c)
    PROVE  c.entries[k] \in Entry /\ k \in CacheKey
BY DEF IsCache

\* The re-insertion of get(): every key keeps its entry.
LEMMA TouchedIsCache ==
    ASSUME NEW c, NEW k \in Cached(c), IsCache(c)
    PROVE  /\ IsCache(Touched(c, k))
           /\ Cached(Touched(c, k)) = Cached(c)
           /\ \A x \in Cached(c) : Touched(c, k).entries[x] = c.entries[x]
<1>1. c.entries[k] \in Entry /\ k \in CacheKey
  BY EntryOfCached
<1>2. Cached(c) \cup {k} = Cached(c)
  OBVIOUS
<1> DEFINE e == c.entries[k]
           t == Appended(c, k, e)
<1> HIDE DEF e
<1>3. /\ IsCache(t) /\ Cached(t) = Cached(c) \cup {k} /\ t.entries[k] = e
      /\ \A x \in Cached(c) \ {k} : t.entries[x] = c.entries[x]
  BY <1>1, AppendedIsCache DEF e
<1>4. Touched(c, k) = t
  BY DEF Touched, e
<1> HIDE DEF t
<1> QED BY <1>2, <1>3, <1>4 DEF e

\* The insertion of set(), before its evictions: one key has a new entry.
LEMMA StoredIsCache ==
    ASSUME NEW c, NEW k \in CacheKey, NEW r \in Result, NEW t \in Nat, IsCache(c)
    PROVE  /\ IsCache(Stored(c, k, r, t))
           /\ Cached(Stored(c, k, r, t)) = Cached(c) \cup {k}
           /\ Stored(c, k, r, t).entries[k] = [result |-> r, expiresAt |-> t + Ttl]
           /\ \A x \in Cached(c) \ {k} : Stored(c, k, r, t).entries[x] = c.entries[x]
<1>1. [result |-> r, expiresAt |-> t + Ttl] \in Entry
  BY CacheAssumption DEF Entry
<1> QED BY <1>1, AppendedIsCache DEF Stored
-----------------------------------------------------------------------------
(* The inductive invariant *)

UploadStage == {"validate", "buffer", "prescan", "send", "aborting", "postscan", "record"}

\* A call is at an await of its own operation.
StageOK ==
    \A c \in Call :
        /\ pc[c] = "idle" => opt[c] = Uncalled
        /\ pc[c] \in UploadStage => opt[c].op = "upload"
        /\ pc[c] = "writing" => opt[c].op \in {"upload", "copy"}
        /\ pc[c] = "removing" => opt[c].op \in {"upload", "delete", "deleteMany"}

\* What the request a removing call waits for asks the provider to delete.
Awaited(c) ==
    IF opt[c].op = "deleteMany" THEN Locs(opt[c].bucket, batch[c].chunk) ELSE {LocOf(c)}

\* Only a call that waits for the provider has an answer, it has one, and the
\* answer to a removing call speaks of what it asked for.
ReplyOK ==
    \A c \in Call :
        /\ reply[c] # {} => pc[c] \in {"writing", "aborting", "removing"}
        /\ pc[c] = "removing" => \A did \in reply[c] : did \subseteq Awaited(c)
        /\ \A did, other \in reply[c] : did = other

\* A batch deletes keys it was asked to delete.
BatchOK ==
    \A c \in Call : pc[c] = "removing" /\ opt[c].op = "deleteMany" =>
        batch[c].left \cup batch[c].chunk \cup batch[c].deleted \subseteq opt[c].keys

\* A remove request is on the wire either for a caller that still waits for it
\* and has no answer yet, or for locations in doubt.
RequestOK(r) ==
    /\ pc[r.by] # "idle"
    /\ r.op = "write" => r.at = {LocOf(r.by)}
    /\ r.op = "remove" =>
         /\ opt[r.by].op # "deleteMany" => r.at = {LocOf(r.by)}
         /\ \/ r.at \subseteq doubt
            \/ pc[r.by] = "removing" /\ reply[r.by] = {} /\ r.at = Awaited(r.by)

WireOK == \A r \in wire : RequestOK(r)

\* What a removing call knows or is about to be told is deleted.
Told(c) ==
    { l \in Loc : \/ \E did \in reply[c] : l \in did
                  \/ opt[c].op = "deleteMany" /\ l \in Locs(opt[c].bucket, batch[c].deleted) }

Gone(l) == \E c \in Call : pc[c] = "removing" /\ l \in Told(c)

Accounted(l) == object[l] # None \/ l \in doubt \/ Gone(l)

EntryLoc(k) == <<cache.entries[k].result.bucket, cache.entries[k].result.key>>

\* An upload whose write was answered and whose result is not recorded yet.
Landed(u) ==
    \/ pc[u] = "writing" /\ reply[u] # {} /\ opt[u].op = "upload"
    \/ pc[u] \in {"postscan", "record"}

\* A cached result names l, or is about to.
Relied(l) ==
    \/ \E k \in Cached(cache) : EntryLoc(k) = l
    \/ \E u \in Call : Landed(u) /\ LocOf(u) = l

Tracked == \A l \in Loc : Relied(l) => Accounted(l)
-----------------------------------------------------------------------------
(* Types *)

\* The options of a call in progress are those of its operation.
LEMMA OptionsOfOp ==
    ASSUME TypeOK, NEW c \in Call
    PROVE  /\ opt[c].op = "upload" => opt[c] \in UploadOptions /\ LocOf(c) \in Loc
           /\ opt[c].op = "delete" => opt[c] \in DeleteOptions /\ LocOf(c) \in Loc
           /\ opt[c].op = "deleteMany" => opt[c] \in BatchOptions
           /\ opt[c].op = "copy" => opt[c] \in CopyOptions /\ LocOf(c) \in Loc
<1>1. opt[c] \in Options \cup {Uncalled}
  BY DEF TypeOK
<1>2. opt[c].op = "upload" => opt[c] \in UploadOptions
  BY <1>1 DEF Options, Uncalled, UploadOptions, DeleteOptions, BatchOptions, CopyOptions
<1>3. opt[c].op = "delete" => opt[c] \in DeleteOptions
  BY <1>1 DEF Options, Uncalled, UploadOptions, DeleteOptions, BatchOptions, CopyOptions
<1>4. opt[c].op = "deleteMany" => opt[c] \in BatchOptions
  BY <1>1 DEF Options, Uncalled, UploadOptions, DeleteOptions, BatchOptions, CopyOptions
<1>5. opt[c].op = "copy" => opt[c] \in CopyOptions
  BY <1>1 DEF Options, Uncalled, UploadOptions, DeleteOptions, BatchOptions, CopyOptions
<1> QED BY <1>2, <1>3, <1>4, <1>5 DEF LocOf, Loc, UploadOptions, DeleteOptions, CopyOptions

\* A record of each kind settles a call.
LEMMA OutcomeTypes ==
    /\ Pending \in Outcome
    /\ \A kind \in {"typed", "plain"}, detail \in {"", "cleanup failed", "abort completed", "abort failed"} :
          Rejection(kind, detail) \in Outcome
    /\ [Pending EXCEPT !.kind = "ok"] \in Outcome
    /\ \A r \in Result : [Pending EXCEPT !.kind = "cached", !.result = {r}] \in Outcome
    /\ \A r \in Result, t \in Nat :
          [Pending EXCEPT !.kind = "stored", !.result = {r}, !.at = t] \in Outcome
BY DEF Pending, Rejection, Outcome
-----------------------------------------------------------------------------
TypeInv == TypeOK /\ StageOK

\* The options calls are made with.
LEMMA AskTypes ==
    /\ \A o \in UploadAsk : o \in UploadOptions /\ o.op = "upload" /\ <<o.bucket, o.key>> \in Loc
    /\ \A o \in DeleteAsk : o \in DeleteOptions /\ o.op = "delete" /\ <<o.bucket, o.key>> \in Loc
    /\ \A o \in BatchAsk : o \in BatchOptions /\ o.op = "deleteMany"
    /\ \A o \in CopyAsk : o \in CopyOptions /\ o.op = "copy" /\ <<o.bucket, o.key>> \in Loc
BY ServiceAssumption DEF UploadOptions, DeleteOptions, BatchOptions, CopyOptions, Loc

\* A step of one call that starts it, moves it or settles it within the types
\* keeps TypeInv, as far as the calls are concerned.
LEMMA StartTypes ==
    ASSUME TypeInv, NEW c \in Call, NEW o \in Options, NEW s \in Stage,
           Begins(c, o), Goes(c, s),
           s \in UploadStage => o.op = "upload",
           s = "writing" => o.op \in {"upload", "copy"},
           s = "removing" => o.op \in {"upload", "delete", "deleteMany"},
           s # "idle"
    PROVE  /\ pc' \in [Call -> Stage] /\ opt' \in [Call -> Options \cup {Uncalled}]
           /\ StageOK'
BY DEF TypeInv, TypeOK, StageOK, Begins, Goes

\* The same for a call that goes on to another await.
LEMMA MoveTypes ==
    ASSUME TypeInv, NEW c \in Call, NEW s \in Stage,
           Goes(c, s), UNCHANGED opt,
           s \in UploadStage => opt[c].op = "upload",
           s = "writing" => opt[c].op \in {"upload", "copy"},
           s = "removing" => opt[c].op \in {"upload", "delete", "deleteMany"},
           s # "idle"
    PROVE  pc' \in [Call -> Stage] /\ StageOK'
BY DEF TypeInv, TypeOK, StageOK, Goes

\* And for one that settles, with a stream that is released if it rejects.
LEMMA SettleTypes ==
    ASSUME TypeInv, NEW c \in Call, NEW out \in Outcome, Settles(c, out), UNCHANGED opt
    PROVE  /\ pc' \in [Call -> Stage] /\ StageOK'
           /\ outcome' \in [Call -> Outcome]
<1>1. pc' \in [Call -> Stage] /\ StageOK'
  BY MoveTypes DEF Settles, Stage, UploadStage
<1>2. outcome' \in [Call -> Outcome]
  BY DEF Settles, TypeInv, TypeOK
<1> QED BY <1>1, <1>2

\* The same through the catch block of upload().
LEMMA RejectTypes ==
    ASSUME TypeInv, NEW c \in Call, NEW kind \in {"typed", "plain"},
           NEW detail \in {"", "cleanup failed", "abort completed", "abort failed"},
           Rejects(c, kind, detail), UNCHANGED opt
    PROVE  /\ pc' \in [Call -> Stage] /\ StageOK'
           /\ outcome' \in [Call -> Outcome]
           /\ source' \in [Call -> Source]
<1>1. Rejection(kind, detail) \in Outcome /\ Settles(c, Rejection(kind, detail))
  BY OutcomeTypes DEF Rejects
<1>2. source' \in [Call -> Source]
  BY DEF Rejects, DestroyStream, TypeInv, TypeOK, Source
<1> QED BY <1>1, <1>2, SettleTypes

\* What runPostUploadScan rethrows settles a call.
LEMMA ScanErrorTypes ==
    \A v, detail : detail \in {"", "cleanup failed"} => ScanError(v, detail) \in Outcome
BY OutcomeTypes DEF ScanError

\* upload() refused, answered or begun keeps the types.
LEMMA UploadStarts ==
    ASSUME TypeInv, NEW c \in Call, NEW o \in UploadAsk,
           UploadRefused(c, o) \/ UploadAnswered(c, o) \/ UploadBegins(c, o)
    PROVE  TypeInv'
<1> USE DEF TypeInv, TypeOK
<1>1. o \in Options /\ o.op = "upload" /\ o \in UploadOptions
  BY AskTypes DEF Options
<1>2. CASE UploadRefused(c, o)
  <2>1. outcome' \in [Call -> Outcome]
    BY <1>2, OutcomeTypes DEF UploadRefused, Settles
  <2>2. Begins(c, o) /\ Goes(c, "settled")
    BY <1>2 DEF UploadRefused, Settles
  <2>3. pc' \in [Call -> Stage] /\ opt' \in [Call -> Options \cup {Uncalled}] /\ StageOK'
    BY <1>1, <2>2, StartTypes DEF Stage, UploadStage
  <2>4. source' \in [Call -> Source]
    BY <1>2 DEF UploadRefused, Source
  <2> QED BY <1>2, <2>1, <2>3, <2>4 DEF UploadRefused, instance, provider, history
<1>3. CASE UploadAnswered(c, o)
  <2> DEFINE k == ComputeKey(o.idem, o.key)
  <2>1. k \in Cached(cache) /\ cache' = Touched(cache, k)
    BY <1>3 DEF UploadAnswered, Live
  <2>2. IsCache(cache') /\ cache.entries[k].result \in Result
    BY <2>1, TouchedIsCache, EntryOfCached DEF Entry
  <2>3. outcome' \in [Call -> Outcome]
    BY <1>3, <2>2, OutcomeTypes DEF UploadAnswered, Settles
  <2>4. Begins(c, o) /\ Goes(c, "settled")
    BY <1>3 DEF UploadAnswered, Settles
  <2>5. pc' \in [Call -> Stage] /\ opt' \in [Call -> Options \cup {Uncalled}] /\ StageOK'
    BY <1>1, <2>4, StartTypes DEF Stage, UploadStage
  <2>6. source' \in [Call -> Source]
    BY <1>3 DEF UploadAnswered, Source
  <2> QED BY <1>3, <2>2, <2>3, <2>5, <2>6 DEF UploadAnswered, provider, history
<1>4. CASE UploadBegins(c, o)
  <2>1. IsCache(cache')
    BY <1>4, WithoutIsCache DEF UploadBegins
  <2>2. Begins(c, o) /\ Goes(c, "validate")
    BY <1>4 DEF UploadBegins
  <2>3. pc' \in [Call -> Stage] /\ opt' \in [Call -> Options \cup {Uncalled}] /\ StageOK'
    BY <1>1, <2>2, StartTypes DEF Stage, UploadStage
  <2>4. source' \in [Call -> Source]
    BY <1>4 DEF UploadBegins, Source
  <2> QED BY <1>4, <2>1, <2>3, <2>4 DEF UploadBegins, provider, history
<1> QED BY <1>2, <1>3, <1>4

\* So do the steps after validators, source and scanner,
LEMMA CallerCodeTypes ==
    ASSUME TypeInv, NEW c \in Call, CallerCodeStep(c)
    PROVE  TypeInv'
<1> USE DEF TypeInv, TypeOK, StageOK, instance, provider, history
<1>1. CASE Validated(c)
  <2> DEFINE next == CASE config.scanner # "pre-upload" -> "send"
                       [] config.scanner = "pre-upload" /\ source[c] = "open" -> "buffer"
                       [] OTHER -> "prescan"
  <2>1. next \in {"send", "buffer", "prescan"}
    OBVIOUS
  <2>2. opt[c].op = "upload" /\ Goes(c, next) /\ UNCHANGED opt
    BY <1>1 DEF Validated, UploadStage
  <2>3. pc' \in [Call -> Stage] /\ StageOK'
    <3> HIDE DEF next, TypeInv, TypeOK, StageOK
    <3> QED BY <2>1, <2>2, MoveTypes DEF Stage, UploadStage
  <2> QED BY <1>1, <2>3 DEF Validated
<1>2. CASE Buffered(c)
  BY <1>2 DEF Buffered, Goes, Stage, UploadStage, Source
<1>3. CASE PreScanPasses(c)
  BY <1>3 DEF PreScanPasses, Goes, Stage, UploadStage
<1>4. CASE RejectedBeforeSending(c)
  <2>1. PICK kind \in {"typed", "plain"} : Rejects(c, kind, "")
    BY <1>4 DEF RejectedBeforeSending
  <2>2. UNCHANGED opt
    BY <1>4 DEF RejectedBeforeSending
  <2> QED BY <1>4, <2>1, <2>2, RejectTypes DEF RejectedBeforeSending
<1>5. CASE PostScanPasses(c)
  BY <1>5 DEF PostScanPasses, Goes, Stage, UploadStage
<1>6. CASE SourceRead(c)
  BY <1>6 DEF SourceRead, Source
<1>7. CASE PostScanFails(c)
  <2>1. opt[c].op = "upload" /\ LocOf(c) \in Loc
    BY <1>7, OptionsOfOp DEF PostScanFails, UploadStage
  <2>2. RemoveOf(c, {LocOf(c)}) \in Request
    BY <2>1 DEF RemoveOf, Request
  <2>3. verdict' \in [Call -> {"none", "clean", "rejected", "threw"}]
    BY <1>7 DEF PostScanFails
  <2>4. CASE client
    <3>1. Sends(RemoveOf(c, {LocOf(c)})) /\ Goes(c, "removing") /\ UNCHANGED <<outcome, opt>>
      BY <1>7, <2>4 DEF PostScanFails
    <3>2. pc' \in [Call -> Stage] /\ StageOK'
      BY <2>1, <3>1, MoveTypes DEF Stage, UploadStage
    <3> QED BY <1>7, <2>2, <2>3, <3>1, <3>2 DEF PostScanFails, Sends
  <2>5. CASE ~client
    <3>1. PICK v : Settles(c, ScanError(v, "cleanup failed")) /\ UNCHANGED <<wire, opt>>
      BY <1>7, <2>5 DEF PostScanFails
    <3>2. pc' \in [Call -> Stage] /\ StageOK' /\ outcome' \in [Call -> Outcome]
      BY <3>1, ScanErrorTypes, SettleTypes
    <3> QED BY <1>7, <2>3, <3>1, <3>2 DEF PostScanFails
  <2> QED BY <2>4, <2>5
<1> QED BY <1>1, <1>2, <1>3, <1>4, <1>5, <1>6, <1>7 DEF CallerCodeStep

\* the steps around a write,
LEMMA WriteTypes ==
    ASSUME TypeInv, NEW c \in Call,
           \/ SendWrite(c) \/ SendWithoutClient(c) \/ WriteAnswered(c) \/ WriteFails(c)
           \/ MultipartAborts(c) \/ MultipartNotCreated(c) \/ MultipartStranded(c)
           \/ AbortAnswered(c) \/ AbortFails(c) \/ CopyAnswered(c) \/ CopyFails(c)
    PROVE  TypeInv'
<1> USE DEF TypeInv, TypeOK, instance, history
<1>r. reply' \in [Call -> SUBSET (SUBSET Loc)] /\ wire' \subseteq Request
  <2>1. SendWrite(c) => WriteOf(c, LocOf(c)) \in Request
    BY OptionsOfOp DEF SendWrite, StageOK, UploadStage, WriteOf, Request
  <2>2. AbortOf(c) \in Request
    BY DEF AbortOf, Request
  <2> QED BY <2>1, <2>2 DEF SendWrite, SendWithoutClient, WriteAnswered, WriteFails,
        MultipartAborts, MultipartNotCreated, MultipartStranded, AbortAnswered, AbortFails,
        CopyAnswered, CopyFails, Sends, Answered, Unanswered, provider
<1>1. CASE SendWrite(c)
  <2>1. pc' \in [Call -> Stage] /\ StageOK'
    BY <1>1, MoveTypes DEF SendWrite, StageOK, Stage, UploadStage
  <2> QED BY <1>1, <1>r, <2>1 DEF SendWrite
<1>2. CASE SendWithoutClient(c)
  <2> DEFINE kind == IF opt[c].multipart THEN "plain" ELSE "typed"
  <2>1. kind \in {"typed", "plain"} /\ Rejects(c, kind, "") /\ UNCHANGED opt
    BY <1>2 DEF SendWithoutClient
  <2> QED BY <1>2, <1>r, <2>1, RejectTypes DEF SendWithoutClient, provider
<1>3. CASE WriteAnswered(c)
  <2>1. StageAfterWrite \in {"postscan", "record"}
    BY DEF StageAfterWrite
  <2>2. pc' \in [Call -> Stage] /\ StageOK'
    BY <1>3, <2>1, MoveTypes DEF WriteAnswered, Stage, UploadStage
  <2> QED BY <1>3, <1>r, <2>2 DEF WriteAnswered
<1>4. CASE WriteFails(c)
  BY <1>4, <1>r, RejectTypes DEF WriteFails
<1>5. CASE MultipartAborts(c)
  <2>1. pc' \in [Call -> Stage] /\ StageOK'
    BY <1>5, MoveTypes DEF MultipartAborts, Stage, UploadStage
  <2> QED BY <1>5, <1>r, <2>1 DEF MultipartAborts
<1>6. CASE MultipartNotCreated(c)
  BY <1>6, <1>r, RejectTypes DEF MultipartNotCreated
<1>7. CASE MultipartStranded(c)
  BY <1>7, <1>r, RejectTypes DEF MultipartStranded
<1>8. CASE AbortAnswered(c)
  BY <1>8, <1>r, RejectTypes DEF AbortAnswered
<1>9. CASE AbortFails(c)
  BY <1>9, <1>r, RejectTypes DEF AbortFails
<1>10. CASE CopyAnswered(c)
  BY <1>10, <1>r, OutcomeTypes, SettleTypes DEF CopyAnswered
<1>11. CASE CopyFails(c)
  <2>1. Rejection("typed", "") \in Outcome
    BY OutcomeTypes
  <2> QED BY <1>11, <1>r, <2>1, SettleTypes DEF CopyFails
<1> QED BY <1>1, <1>2, <1>3, <1>4, <1>5, <1>6, <1>7, <1>8, <1>9, <1>10, <1>11

\* the one that records,
LEMMA RecordTypes == ASSUME TypeInv, NEW c \in Call, RecordResult(c) PROVE TypeInv'
<1> USE DEF TypeInv, TypeOK
<1>1. opt[c] \in UploadOptions
  BY OptionsOfOp DEF RecordResult, StageOK, UploadStage
<1>2. ResultOf(c) \in Result
  BY <1>1 DEF ResultOf, Result, UploadOptions, Call
<1>3. IsCache(cache')
  <2>1. CASE opt[c].idem = NoIdem
    BY <2>1 DEF RecordResult
  <2>2. CASE opt[c].idem # NoIdem
    <3> DEFINE k == ComputeKey(opt[c].idem, opt[c].key)
    <3>1. k \in CacheKey
      BY <1>1, <2>2 DEF UploadOptions, ComputeKey, CacheKey
    <3>2. IsCache(Stored(cache, k, ResultOf(c), now))
      BY <1>2, <3>1, StoredIsCache
    <3>3. PICK D : cache' = Without(Stored(cache, k, ResultOf(c), now), D)
      BY <2>2 DEF RecordResult
    <3> QED BY <3>2, <3>3, WithoutIsCache
  <2> QED BY <2>1, <2>2
<1>4. pc' \in [Call -> Stage] /\ StageOK' /\ outcome' \in [Call -> Outcome]
  <2>1. [Pending EXCEPT !.kind = "stored", !.result = {ResultOf(c)}, !.at = now] \in Outcome
    BY <1>2, OutcomeTypes
  <2> QED BY <2>1, SettleTypes DEF RecordResult
<1> QED BY <1>3, <1>4 DEF RecordResult, provider, history

\* the end of a delete or cleanup,
LEMMA RemoveTypes ==
    ASSUME TypeInv, NEW c \in Call, RemoveAnswered(c) \/ RemoveFails(c) PROVE TypeInv'
<1> USE DEF TypeInv, TypeOK, instance
<1>1. LocOf(c) \in Loc /\ UNCHANGED opt
  BY OptionsOfOp DEF RemoveAnswered, RemoveFails
<1>2. reply' \in [Call -> SUBSET (SUBSET Loc)] /\ wire' \subseteq Request
  BY DEF RemoveAnswered, RemoveFails, Answered, Unanswered
<1>3. doubt' \subseteq Loc /\ withdrawn' \subseteq Call
  BY <1>1 DEF RemoveAnswered, RemoveFails, StoredAt
<1>4. PICK out \in Outcome : Settles(c, out)
  <2>1. [Pending EXCEPT !.kind = "ok"] \in Outcome /\ Rejection("typed", "") \in Outcome
    BY OutcomeTypes
  <2>2. ScanError(verdict[c], "") \in Outcome /\ ScanError(verdict[c], "cleanup failed") \in Outcome
    BY ScanErrorTypes
  <2> QED BY <2>1, <2>2 DEF RemoveAnswered, RemoveFails
<1>5. pc' \in [Call -> Stage] /\ StageOK' /\ outcome' \in [Call -> Outcome]
  BY <1>1, <1>4, SettleTypes
<1>6. IsCache(cache')
  <2>1. cache' = cache \/ cache' = Without(cache, HoldersOf(cache, opt[c].bucket, opt[c].key))
    BY DEF RemoveAnswered, RemoveFails
  <2> QED BY <2>1, WithoutIsCache
<1> QED BY <1>2, <1>3, <1>5, <1>6 DEF RemoveAnswered, RemoveFails

\* The next chunk of a batch, and the batch it leaves.
LEMMA ChunkTypes ==
    ASSUME TypeInv, NEW c \in Call, NEW bucket \in Bucket,
           NEW b \in Progress,
           SendChunk(c, bucket, b)
    PROVE  /\ wire' \subseteq Request
           /\ batch' \in [Call -> Progress]
<1>1. PICK ks \in Chunks(b.left) :
        /\ batch' = [batch EXCEPT ![c] = [b EXCEPT !.left = @ \ ks, !.chunk = ks]]
        /\ Sends(RemoveOf(c, Locs(bucket, ks)))
  BY DEF SendChunk
<1>2. ks \subseteq Key
  BY DEF Chunks, Progress
<1>3. RemoveOf(c, Locs(bucket, ks)) \in Request
  BY <1>2 DEF RemoveOf, Request, Locs, Loc
<1>4. [b EXCEPT !.left = @ \ ks, !.chunk = ks]
        \in Progress
  BY <1>2 DEF Progress
<1> QED BY <1>1, <1>3, <1>4 DEF Sends, TypeInv, TypeOK

\* the way a batch goes on,
LEMMA AfterChunkTypes ==
    ASSUME TypeInv, NEW c \in Call, pc[c] = "removing", opt[c].op = "deleteMany",
           NEW b \in Progress,
           NEW unsure \in SUBSET Loc, AfterChunk(c, b, unsure),
           reply' \in [Call -> SUBSET (SUBSET Loc)], UNCHANGED <<object, opt, verdict>>
    PROVE  TypeInv'
<1> USE DEF TypeInv, TypeOK, instance
<1>1. opt[c].bucket \in Bucket
  BY OptionsOfOp DEF BatchOptions
<1>2. Locs(opt[c].bucket, b.deleted) \subseteq Loc
  BY <1>1 DEF Locs, Loc, Progress
<1>3. CASE b.left # {} /\ client
  <2>1. /\ SendChunk(c, opt[c].bucket, b) /\ doubt' = doubt \cup unsure
        /\ UNCHANGED <<instance, pc, source, outcome, withdrawn>>
    BY <1>3 DEF AfterChunk
  <2>2. StageOK'
    BY <2>1 DEF StageOK
  <2>3. /\ wire' \subseteq Request
        /\ batch' \in [Call -> Progress]
    BY <1>1, <2>1, ChunkTypes
  <2> QED BY <2>1, <2>2, <2>3
<1>4. CASE b.left # {} /\ ~client
  <2>1. /\ Rejects(c, "plain", "") /\ batch' = [batch EXCEPT ![c] = b]
        /\ doubt' = doubt \cup unsure \cup Locs(opt[c].bucket, b.deleted)
        /\ UNCHANGED <<instance, wire, withdrawn>>
    BY <1>4 DEF AfterChunk
  <2> QED BY <1>2, <2>1, RejectTypes
<1>5. CASE b.left = {}
  <2> DEFINE D == UNION { HoldersOf(cache, opt[c].bucket, key) : key \in b.deleted }
             S == UNION { StoredAt(l) : l \in Locs(opt[c].bucket, b.deleted) }
             H == { l \in Locs(opt[c].bucket, b.deleted) : HalfWay(l) }
  <2>1. /\ cache' = Without(cache, D) /\ batch' = [batch EXCEPT ![c] = b]
        /\ Settles(c, [Pending EXCEPT !.kind = "ok"])
        /\ withdrawn' = withdrawn \cup S /\ doubt' = doubt \cup unsure \cup H
        /\ UNCHANGED <<client, config, now, wire, source>>
    BY <1>5 DEF AfterChunk
  <2>2. S \subseteq Call /\ H \subseteq Loc
    BY <1>2 DEF StoredAt
  <2> HIDE DEF D, S, H
  <2>3. IsCache(cache')
    BY <2>1, WithoutIsCache
  <2>4. pc' \in [Call -> Stage] /\ StageOK' /\ outcome' \in [Call -> Outcome]
    BY <2>1, OutcomeTypes, SettleTypes
  <2> QED BY <2>1, <2>2, <2>3, <2>4
<1> QED BY <1>3, <1>4, <1>5 DEF AfterChunk

\* the outcome of a chunk,
LEMMA ChunkStepTypes ==
    ASSUME TypeInv, NEW c \in Call, ChunkAnswered(c) \/ ChunkFails(c) PROVE TypeInv'
<1> USE DEF TypeInv, TypeOK
<1>1. /\ pc[c] = "removing" /\ opt[c].op = "deleteMany"
      /\ reply' \in [Call -> SUBSET (SUBSET Loc)] /\ UNCHANGED <<object, opt, verdict>>
  BY DEF ChunkAnswered, ChunkFails, Answered, Unanswered
<1>2. batch[c] \in Progress
  OBVIOUS
<1>3. opt[c].bucket \in Bucket
  BY <1>1, OptionsOfOp DEF BatchOptions
<1>4. CASE ChunkAnswered(c)
  <2>1. PICK gone \in SUBSET batch[c].chunk :
          AfterChunk(c, [batch[c] EXCEPT !.chunk = {}, !.deleted = @ \cup gone,
                                        !.failed = @ \cup (batch[c].chunk \ gone)], {})
    BY <1>4 DEF ChunkAnswered
  <2>2. [batch[c] EXCEPT !.chunk = {}, !.deleted = @ \cup gone,
                         !.failed = @ \cup (batch[c].chunk \ gone)]
          \in Progress
    BY <1>2 DEF Progress
  <2> HIDE DEF TypeInv, TypeOK
  <2> QED BY <1>1, <2>1, <2>2, AfterChunkTypes
<1>5. CASE ChunkFails(c)
  <2>1. AfterChunk(c, [batch[c] EXCEPT !.chunk = {}, !.failed = @ \cup batch[c].chunk],
                   Locs(opt[c].bucket, batch[c].chunk))
    BY <1>5 DEF ChunkFails
  <2>2. [batch[c] EXCEPT !.chunk = {}, !.failed = @ \cup batch[c].chunk]
          \in Progress
    BY <1>2 DEF Progress
  <2>3. Locs(opt[c].bucket, batch[c].chunk) \subseteq Loc
    BY <1>2, <1>3 DEF Locs, Loc, Progress
  <2> HIDE DEF TypeInv, TypeOK
  <2> QED BY <1>1, <2>1, <2>2, <2>3, AfterChunkTypes
<1> QED BY <1>4, <1>5

\* the first step of the other operations,
LEMMA OtherStarts ==
    ASSUME TypeInv, NEW c \in Call,
           \/ \E o \in DeleteAsk \cup BatchAsk \cup CopyAsk : Refused(c, o)
           \/ \E o \in DeleteAsk : SendDelete(c, o)
           \/ \E o \in BatchAsk : BatchEmpty(c, o) \/ SendBatch(c, o)
           \/ \E o \in CopyAsk : SendCopy(c, o)
    PROVE  TypeInv'
<1> USE DEF TypeInv, TypeOK
<1>1. ASSUME NEW o \in DeleteAsk \cup BatchAsk \cup CopyAsk, Refused(c, o) PROVE TypeInv'
  <2>1. o \in Options /\ Begins(c, o) /\ Goes(c, "settled")
    BY <1>1, AskTypes DEF Refused, Settles, Options
  <2>2. pc' \in [Call -> Stage] /\ opt' \in [Call -> Options \cup {Uncalled}] /\ StageOK'
    BY <2>1, StartTypes DEF Stage, UploadStage
  <2>3. outcome' \in [Call -> Outcome]
    BY <1>1, OutcomeTypes DEF Refused, Settles
  <2> QED BY <1>1, <2>2, <2>3 DEF Refused, instance, provider, history
<1>2. ASSUME NEW o \in DeleteAsk, SendDelete(c, o) PROVE TypeInv'
  <2>1. o \in Options /\ o.op = "delete" /\ Begins(c, o) /\ Goes(c, "removing")
    BY <1>2, AskTypes DEF SendDelete, Options
  <2>2. pc' \in [Call -> Stage] /\ opt' \in [Call -> Options \cup {Uncalled}] /\ StageOK'
    BY <2>1, StartTypes DEF Stage, UploadStage
  <2>3. wire' \subseteq Request
    BY <1>2, AskTypes DEF SendDelete, Sends, RemoveOf, Request
  <2> QED BY <1>2, <2>2, <2>3 DEF SendDelete, instance, history
<1>3. ASSUME NEW o \in BatchAsk, BatchEmpty(c, o) PROVE TypeInv'
  <2>1. o \in Options /\ Begins(c, o) /\ Goes(c, "settled")
    BY <1>3, AskTypes DEF BatchEmpty, Settles, Options
  <2>2. pc' \in [Call -> Stage] /\ opt' \in [Call -> Options \cup {Uncalled}] /\ StageOK'
    BY <2>1, StartTypes DEF Stage, UploadStage
  <2>3. outcome' \in [Call -> Outcome]
    BY <1>3, OutcomeTypes DEF BatchEmpty, Settles
  <2> QED BY <1>3, <2>2, <2>3 DEF BatchEmpty, instance, provider, history
<1>4. ASSUME NEW o \in BatchAsk, SendBatch(c, o) PROVE TypeInv'
  <2>1. /\ o \in Options /\ o.op = "deleteMany" /\ o \in BatchOptions
        /\ Begins(c, o) /\ Goes(c, "removing")
    BY <1>4, AskTypes DEF SendBatch, Options
  <2>2. pc' \in [Call -> Stage] /\ opt' \in [Call -> Options \cup {Uncalled}] /\ StageOK'
    BY <2>1, StartTypes DEF Stage, UploadStage
  <2>3. o.bucket \in Bucket /\ [NoBatch EXCEPT !.left = o.keys] \in Progress
    BY <2>1 DEF BatchOptions, NoBatch, Progress
  <2>4. SendChunk(c, o.bucket, [NoBatch EXCEPT !.left = o.keys])
    BY <1>4 DEF SendBatch
  <2>5. wire' \subseteq Request /\ batch' \in [Call -> Progress]
    BY <2>3, <2>4, ChunkTypes
  <2> QED BY <1>4, <2>2, <2>5 DEF SendBatch, instance, history
<1>5. ASSUME NEW o \in CopyAsk, SendCopy(c, o) PROVE TypeInv'
  <2>1. o \in Options /\ o.op = "copy" /\ Begins(c, o) /\ Goes(c, "writing")
    BY <1>5, AskTypes DEF SendCopy, Options
  <2>2. pc' \in [Call -> Stage] /\ opt' \in [Call -> Options \cup {Uncalled}] /\ StageOK'
    BY <2>1, StartTypes DEF Stage, UploadStage
  <2>3. wire' \subseteq Request
    BY <1>5, AskTypes DEF SendCopy, Sends, WriteOf, Request
  <2> QED BY <1>5, <2>2, <2>3 DEF SendCopy, instance, history
<1> QED BY <1>1, <1>2, <1>3, <1>4, <1>5

\* and the steps of the provider.
LEMMA ProviderTypes ==
    ASSUME TypeInv, NEW r \in wire, ApplyWrite(r) \/ ApplyRemove(r) \/ ApplyAbort(r)
    PROVE  TypeInv'
<1> USE DEF TypeInv, TypeOK, instance, calls, history
<1>1. r.by \in Call /\ r.at \in SUBSET Loc
  BY DEF Request
<1>2. ASSUME NEW did \in SUBSET Loc, Replies(r, did) PROVE reply' \in [Call -> SUBSET (SUBSET Loc)]
  BY <1>1, <1>2 DEF Replies
<1>3. UNCHANGED <<instance, calls, history>> /\ wire' \subseteq wire
  BY DEF ApplyWrite, ApplyRemove, ApplyAbort
<1>4. StageOK'
  BY <1>3 DEF StageOK
<1>5. CASE ApplyWrite(r)
  BY <1>1, <1>2, <1>3, <1>4, <1>5 DEF ApplyWrite
<1>6. CASE ApplyRemove(r)
  <2>1. PICK did \in SUBSET r.at :
          object' = [l \in Loc |-> IF l \in did THEN None ELSE object[l]] /\ Replies(r, did)
    BY <1>6 DEF ApplyRemove
  <2>2. did \in SUBSET Loc
    BY <1>1
  <2> QED BY <1>2, <1>3, <1>4, <2>1, <2>2
<1>7. CASE ApplyAbort(r)
  BY <1>2, <1>3, <1>4, <1>7 DEF ApplyAbort
<1> QED BY <1>5, <1>6, <1>7

\* Every step keeps the types.
LEMMA StepTypes == ASSUME TypeInv, [Next]_vars PROVE TypeInv'
<1>1. ASSUME NEW c \in Call, Start(c) PROVE TypeInv'
  BY <1>1, UploadStarts, OtherStarts DEF Start
<1>2. ASSUME NEW c \in Call, ServiceStep(c) PROVE TypeInv'
  BY <1>2, WriteTypes, RecordTypes, RemoveTypes, ChunkStepTypes DEF ServiceStep
<1>3. ASSUME NEW c \in Call, CallerCodeStep(c) PROVE TypeInv'
  BY <1>3, CallerCodeTypes
<1>4. ASSUME NEW r \in wire, ApplyWrite(r) \/ ApplyRemove(r) \/ ApplyAbort(r) PROVE TypeInv'
  BY <1>4, ProviderTypes
<1>5. CASE Shutdown
  BY <1>5 DEF Shutdown, TypeInv, TypeOK, StageOK, provider, calls, history
<1>6. CASE Tick
  BY <1>6 DEF Tick, TypeInv, TypeOK, StageOK, provider, calls, history
<1>7. CASE UNCHANGED vars
  BY <1>7 DEF vars, TypeInv, TypeOK, StageOK, instance, provider, calls, history
<1> QED BY <1>1, <1>2, <1>3, <1>4, <1>5, <1>6, <1>7 DEF Next

\* They hold at boot.
LEMMA InitTypes == Init => TypeInv
<1> SUFFICES ASSUME Init PROVE TypeInv
  OBVIOUS
<1>1. IsCache(cache)
  BY EmptyIsCache DEF Init
<1>2. Pending \in Outcome /\ NoBatch \in Progress
  BY OutcomeTypes DEF NoBatch, Progress
<1> QED BY <1>1, <1>2 DEF Init, TypeInv, TypeOK, StageOK, Stage, UploadStage, Source, Loc

\* Every variable holds what the code could hold, whatever is called, lost or
\* reordered.
THEOREM TypesHold == Spec => []TypeOK
<1>1. TypeInv /\ [Next]_vars => TypeInv'
  BY StepTypes
<1>2. TypeInv => TypeOK
  BY DEF TypeInv
<1> QED BY <1>1, <1>2, InitTypes, PTL DEF Spec
-----------------------------------------------------------------------------
(* What a step of one call may do to the requests and answers of the others *)

Others(c) ==
    \A d \in Call \ {c} :
        pc'[d] = pc[d] /\ opt'[d] = opt[d] /\ reply'[d] = reply[d] /\ batch'[d] = batch[d]

\* A step of a call that has no delete on its way, and starts none.
Quiet(c) ==
    /\ Others(c)
    /\ pc[c] # "removing" /\ pc'[c] \notin {"idle", "removing"} /\ reply'[c] = {}
    /\ pc[c] = "idle" \/ opt'[c] = opt[c]
    /\ wire' \subseteq wire \cup {WriteOf(c, LocOf(c)'), AbortOf(c)}
    /\ UNCHANGED <<object, doubt>>
    /\ Landed(c)' => Landed(c)

\* A step that sends the first or only delete of a call.
Asks(c) ==
    /\ Others(c)
    /\ pc[c] # "removing" /\ pc'[c] = "removing" /\ reply'[c] = {}
    /\ pc[c] = "idle" \/ opt'[c] = opt[c]
    /\ opt'[c].op \in {"upload", "delete", "deleteMany"}
    /\ opt'[c].op = "deleteMany" =>
         batch'[c].left \cup batch'[c].chunk \cup batch'[c].deleted \subseteq opt'[c].keys
    /\ wire' = wire \cup {RemoveOf(c, Awaited(c)')}
    /\ UNCHANGED <<object, doubt, cache>>

\* A call that does not wait for the provider has no answer.
LEMMA NoAnswerYet ==
    ASSUME TypeInv, ReplyOK, NEW c \in Call, pc[c] \notin {"writing", "aborting", "removing"}
    PROVE  reply[c] = {}
BY DEF ReplyOK

\* The steps that are quiet: the first of an upload,
LEMMA UploadStartsQuiet ==
    ASSUME TypeInv, ReplyOK, NEW c \in Call, NEW o \in UploadAsk,
           UploadRefused(c, o) \/ UploadAnswered(c, o) \/ UploadBegins(c, o)
    PROVE  Quiet(c)
<1>1. pc[c] = "idle" /\ reply[c] = {}
  BY NoAnswerYet DEF UploadRefused, UploadAnswered, UploadBegins, Begins
<1>2. /\ pc' \in {[pc EXCEPT ![c] = "settled"], [pc EXCEPT ![c] = "validate"]}
      /\ opt' = [opt EXCEPT ![c] = o] /\ UNCHANGED <<provider, batch, doubt>>
  BY DEF UploadRefused, UploadAnswered, UploadBegins, Begins, Settles, Goes, history
<1> QED BY <1>1, <1>2 DEF Quiet, Others, Landed, TypeInv, TypeOK, provider

\* those after the caller's code, unless a cleanup is sent,
LEMMA CallerCodeQuiet ==
    ASSUME TypeInv, ReplyOK, NEW c \in Call,
           \/ Validated(c) \/ Buffered(c) \/ PreScanPasses(c) \/ RejectedBeforeSending(c)
           \/ SourceRead(c) \/ PostScanPasses(c)
           \/ PostScanFails(c) /\ ~client
    PROVE  Quiet(c) /\ UNCHANGED cache
<1>s. CASE SourceRead(c)
  BY <1>s DEF SourceRead, Quiet, Others, Landed, TypeInv, TypeOK, instance, provider, history
<1> SUFFICES ASSUME ~SourceRead(c) PROVE Quiet(c) /\ UNCHANGED cache
  BY <1>s
<1>1. pc[c] \in {"validate", "buffer", "prescan", "postscan"} /\ reply[c] = {}
  BY NoAnswerYet DEF Validated, Buffered, PreScanPasses, RejectedBeforeSending, PostScanPasses, PostScanFails
<1>2. /\ \/ \E s \in {"buffer", "prescan", "send", "settled"} : pc' = [pc EXCEPT ![c] = s]
         \/ pc[c] = "postscan" /\ pc' = [pc EXCEPT ![c] = "record"]
      /\ UNCHANGED <<instance, object, wire, reply, opt, batch, doubt>>
  BY DEF Validated, Buffered, PreScanPasses, RejectedBeforeSending, PostScanPasses, PostScanFails,
         Rejects, Settles, Goes, provider, history
<1> QED BY <1>1, <1>2 DEF Quiet, Others, Landed, TypeInv, TypeOK, instance

\* those around a write,
LEMMA WriteQuiet ==
    ASSUME TypeInv, ReplyOK, NEW c \in Call,
           \/ SendWrite(c) \/ SendWithoutClient(c) \/ WriteAnswered(c) \/ WriteFails(c)
           \/ MultipartAborts(c) \/ MultipartNotCreated(c) \/ MultipartStranded(c)
           \/ AbortAnswered(c) \/ AbortFails(c) \/ CopyAnswered(c) \/ CopyFails(c)
    PROVE  Quiet(c) /\ UNCHANGED cache
<1>1. UNCHANGED <<instance, object, opt, batch, doubt>>
  BY DEF SendWrite, SendWithoutClient, WriteAnswered, WriteFails, MultipartAborts,
         MultipartNotCreated, MultipartStranded, AbortAnswered, AbortFails, CopyAnswered,
         CopyFails, provider, history
<1>2. pc[c] \in {"send", "writing", "aborting"}
  BY DEF SendWrite, SendWithoutClient, WriteAnswered, WriteFails, MultipartAborts,
         MultipartNotCreated, MultipartStranded, AbortAnswered, AbortFails, CopyAnswered, CopyFails
<1>3. reply' = [reply EXCEPT ![c] = {}]
  <2>1. CASE SendWrite(c) \/ SendWithoutClient(c)
    <3>1. reply[c] = {} /\ reply' = reply
      BY <2>1, NoAnswerYet DEF SendWrite, SendWithoutClient, provider
    <3> QED BY <3>1 DEF TypeInv, TypeOK
  <2>2. CASE MultipartNotCreated(c)
    BY <2>2 DEF MultipartNotCreated, TypeInv, TypeOK
  <2> QED BY <2>1, <2>2 DEF WriteAnswered, WriteFails, MultipartAborts, MultipartStranded,
         AbortAnswered, AbortFails, CopyAnswered, CopyFails, Answered, Unanswered
<1>4. \/ /\ pc[c] = "writing" /\ reply[c] # {} /\ opt[c].op = "upload"
         /\ \E s \in {"postscan", "record"} : pc' = [pc EXCEPT ![c] = s]
      \/ \E s \in {"writing", "aborting", "settled"} : pc' = [pc EXCEPT ![c] = s]
  BY DEF SendWrite, SendWithoutClient, WriteAnswered, WriteFails, MultipartAborts,
         MultipartNotCreated, MultipartStranded, AbortAnswered, AbortFails, CopyAnswered,
         CopyFails, Rejects, Settles, Goes, StageAfterWrite, Answered
<1>5. wire' \subseteq wire \cup {WriteOf(c, LocOf(c)), AbortOf(c)}
  BY DEF SendWrite, SendWithoutClient, WriteAnswered, WriteFails, MultipartAborts,
         MultipartNotCreated, MultipartStranded, AbortAnswered, AbortFails, CopyAnswered,
         CopyFails, Sends, provider
<1>6. LocOf(c)' = LocOf(c)
  BY <1>1 DEF LocOf
<1>7. Others(c) /\ pc'[c] \notin {"idle", "removing"} /\ reply'[c] = {}
  BY <1>1, <1>3, <1>4 DEF Others, TypeInv, TypeOK
<1>8. Landed(c)' => Landed(c)
  BY <1>3, <1>4 DEF Landed, TypeInv, TypeOK
<1> QED BY <1>1, <1>2, <1>5, <1>6, <1>7, <1>8 DEF Quiet, instance

\* refusals, empty batches and copies,
LEMMA OtherStartsQuiet ==
    ASSUME TypeInv, ReplyOK, NEW c \in Call,
           \/ \E o \in DeleteAsk \cup BatchAsk \cup CopyAsk : Refused(c, o)
           \/ \E o \in BatchAsk : BatchEmpty(c, o)
           \/ \E o \in CopyAsk : SendCopy(c, o)
    PROVE  Quiet(c) /\ UNCHANGED cache
<1>1. pc[c] = "idle" /\ reply[c] = {} /\ UNCHANGED <<instance, object, reply, batch, doubt>>
  BY NoAnswerYet DEF Refused, BatchEmpty, SendCopy, Begins, provider, history
<1>2. PICK o \in DeleteAsk \cup BatchAsk \cup CopyAsk :
        /\ opt' = [opt EXCEPT ![c] = o]
        /\ \/ wire' = wire /\ pc' = [pc EXCEPT ![c] = "settled"]
           \/ wire' = wire \cup {WriteOf(c, <<o.bucket, o.key>>)} /\ pc' = [pc EXCEPT ![c] = "writing"]
  BY DEF Refused, BatchEmpty, SendCopy, Begins, Settles, Goes, Sends, provider
<1>3. LocOf(c)' = <<o.bucket, o.key>>
  BY <1>2 DEF LocOf, TypeInv, TypeOK
<1> QED BY <1>1, <1>2, <1>3 DEF Quiet, Others, Landed, TypeInv, TypeOK, instance

\* and the one that records.
LEMMA RecordQuiet ==
    ASSUME TypeInv, ReplyOK, NEW c \in Call, RecordResult(c) PROVE Quiet(c)
<1>1. pc[c] = "record" /\ reply[c] = {}
  BY NoAnswerYet DEF RecordResult
<1>2. pc' = [pc EXCEPT ![c] = "settled"] /\ UNCHANGED <<provider, opt, batch, doubt>>
  BY DEF RecordResult, Settles, Goes, history
<1> QED BY <1>1, <1>2 DEF Quiet, Others, Landed, TypeInv, TypeOK, provider

\* A chunk takes its keys from the rest.
LEMMA FirstChunk ==
    ASSUME TypeInv, NEW c \in Call, NEW b \in Progress, NEW bucket, SendChunk(c, bucket, b)
    PROVE  \E ks \in SUBSET b.left :
             /\ wire' = wire \cup {RemoveOf(c, Locs(bucket, ks))}
             /\ batch' = [batch EXCEPT ![c] = batch'[c]]
             /\ batch'[c].left = b.left \ ks /\ batch'[c].chunk = ks
             /\ batch'[c].deleted = b.deleted /\ batch'[c].failed = b.failed
BY DEF SendChunk, Chunks, Sends, Progress, TypeInv, TypeOK

\* The steps that send a first delete: delete(), deleteMany(), the cleanup.
LEMMA DeleteAsks ==
    ASSUME TypeInv, ReplyOK, NEW c \in Call,
           \/ \E o \in DeleteAsk : SendDelete(c, o)
           \/ \E o \in BatchAsk : SendBatch(c, o)
           \/ PostScanFails(c) /\ client
    PROVE  Asks(c)
<1> USE DEF TypeInv, TypeOK
<1>1. CASE \E o \in DeleteAsk : SendDelete(c, o)
  <2>1. PICK o \in DeleteAsk : SendDelete(c, o)
    BY <1>1
  <2>2. pc[c] = "idle" /\ reply[c] = {} /\ UNCHANGED <<instance, object, reply, batch, doubt>>
    BY <2>1, NoAnswerYet DEF SendDelete, Begins, history
  <2>3. /\ opt' = [opt EXCEPT ![c] = o] /\ pc' = [pc EXCEPT ![c] = "removing"]
        /\ wire' = wire \cup {RemoveOf(c, {<<o.bucket, o.key>>})}
    BY <2>1 DEF SendDelete, Begins, Goes, Sends
  <2>4. o.op = "delete"
    BY AskTypes
  <2>5. Awaited(c)' = {<<o.bucket, o.key>>}
    BY <2>3, <2>4 DEF Awaited, LocOf
  <2> QED BY <2>2, <2>3, <2>4, <2>5 DEF Asks, Others, instance
<1>2. CASE \E o \in BatchAsk : SendBatch(c, o)
  <2>1. PICK o \in BatchAsk : SendBatch(c, o)
    BY <1>2
  <2>2. pc[c] = "idle" /\ reply[c] = {} /\ UNCHANGED <<instance, object, reply, doubt>>
    BY <2>1, NoAnswerYet DEF SendBatch, Begins, history
  <2>3. opt' = [opt EXCEPT ![c] = o] /\ pc' = [pc EXCEPT ![c] = "removing"]
    BY <2>1 DEF SendBatch, Begins, Goes
  <2>4. o.op = "deleteMany" /\ o \in BatchOptions
    BY AskTypes
  <2> DEFINE b == [NoBatch EXCEPT !.left = o.keys]
  <2>5. b \in Progress /\ b.left = o.keys /\ b.deleted = {}
    BY <2>4 DEF BatchOptions, NoBatch, Progress
  <2>6. SendChunk(c, o.bucket, b)
    BY <2>1 DEF SendBatch
  <2> HIDE DEF b
  <2>7. PICK ks \in SUBSET o.keys :
             /\ wire' = wire \cup {RemoveOf(c, Locs(o.bucket, ks))}
             /\ batch' = [batch EXCEPT ![c] = batch'[c]]
             /\ batch'[c].left = o.keys \ ks /\ batch'[c].chunk = ks /\ batch'[c].deleted = {}
    BY <2>5, <2>6, FirstChunk
  <2>8. Awaited(c)' = Locs(o.bucket, ks)
    BY <2>3, <2>4, <2>7 DEF Awaited
  <2> QED BY <2>2, <2>3, <2>4, <2>7, <2>8 DEF Asks, Others, instance
<1>3. CASE PostScanFails(c) /\ client
  <2>1. opt[c].op = "upload" /\ reply[c] = {} /\ pc[c] = "postscan"
    BY <1>3, NoAnswerYet DEF PostScanFails, StageOK, UploadStage
  <2>2. /\ pc' = [pc EXCEPT ![c] = "removing"]
        /\ wire' = wire \cup {RemoveOf(c, {LocOf(c)})}
        /\ UNCHANGED <<instance, object, reply, opt, batch, doubt>>
    BY <1>3 DEF PostScanFails, Goes, Sends, history
  <2>3. Awaited(c)' = {LocOf(c)}
    BY <2>1, <2>2 DEF Awaited, LocOf
  <2> QED BY <2>1, <2>2, <2>3 DEF Asks, Others, instance
<1> QED BY <1>1, <1>2, <1>3
-----------------------------------------------------------------------------
(* Requests and answers *)

Exchange == ReplyOK /\ BatchOK /\ WireOK

\* The others wait for what they waited for.
LEMMA OthersAwait ==
    ASSUME NEW c \in Call, Others(c), NEW d \in Call \ {c}
    PROVE  Awaited(d)' = Awaited(d) /\ LocOf(d)' = LocOf(d)
BY DEF Others, Awaited, LocOf

\* A quiet step leaves requests and answers in order.
LEMMA QuietExchange ==
    ASSUME TypeInv, Exchange, NEW c \in Call, Quiet(c) PROVE Exchange'
<1> USE DEF Exchange
<1>1. ReplyOK'
  BY OthersAwait DEF ReplyOK, Quiet, Others
<1>2. BatchOK'
  BY DEF BatchOK, Quiet, Others
<1>3. WireOK'
  <2> SUFFICES ASSUME NEW r \in wire' PROVE RequestOK(r)'
    BY DEF WireOK
  <2>1. CASE r \in {WriteOf(c, LocOf(c)'), AbortOf(c)}
    BY <2>1 DEF WriteOf, AbortOf, Quiet, RequestOK
  <2>2. CASE r \in wire /\ r.by = c
    <3>1. pc[c] # "idle" /\ opt'[c] = opt[c] /\ LocOf(c)' = LocOf(c)
      BY <2>2 DEF WireOK, Quiet, LocOf, RequestOK
    <3> QED BY <2>2, <3>1 DEF WireOK, Quiet, RequestOK
  <2>3. CASE r \in wire /\ r.by # c
    <3>1. r.by \in Call \ {c}
      BY <2>3 DEF TypeInv, TypeOK, Request
    <3> QED BY <2>3, <3>1, OthersAwait DEF WireOK, Quiet, Others, RequestOK
  <2> QED BY <2>1, <2>2, <2>3 DEF Quiet
<1> QED BY <1>1, <1>2, <1>3

\* So does one that sends a first delete,
LEMMA AskExchange ==
    ASSUME TypeInv, Exchange, NEW c \in Call, Asks(c) PROVE Exchange'
<1> USE DEF Exchange
<1>1. ReplyOK'
  BY OthersAwait DEF ReplyOK, Asks, Others
<1>2. BatchOK'
  BY DEF BatchOK, Asks, Others
<1>3. WireOK'
  <2> SUFFICES ASSUME NEW r \in wire' PROVE RequestOK(r)'
    BY DEF WireOK
  <2>1. CASE r = RemoveOf(c, Awaited(c)')
    <3>1. opt'[c].op # "deleteMany" => Awaited(c)' = {LocOf(c)'}
      BY DEF Awaited
    <3> QED BY <2>1, <3>1 DEF RemoveOf, Asks, RequestOK
  <2>2. CASE r \in wire /\ r.by = c
    <3>1. pc[c] # "idle" /\ opt'[c] = opt[c] /\ LocOf(c)' = LocOf(c)
      BY <2>2 DEF WireOK, Asks, LocOf, RequestOK
    <3> QED BY <2>2, <3>1 DEF WireOK, Asks, RequestOK
  <2>3. CASE r \in wire /\ r.by # c
    <3>1. r.by \in Call \ {c}
      BY <2>3 DEF TypeInv, TypeOK, Request
    <3> QED BY <2>3, <3>1, OthersAwait DEF WireOK, Asks, Others, RequestOK
  <2> QED BY <2>1, <2>2, <2>3 DEF Asks
<1> QED BY <1>1, <1>2, <1>3

\* The cache holds nothing it did not hold.
CacheShrinks ==
    \A k \in Cached(cache') : k \in Cached(cache) /\ cache'.entries[k] = cache.entries[k]

\* A delete or a batch that ends with an answer, or without one and in doubt: of
\* what it was told is deleted no entry is left, and no upload is half-way, or
\* it is in doubt.
Ends(c) ==
    /\ Others(c)
    /\ pc[c] = "removing" /\ pc'[c] = "settled" /\ reply'[c] = {}
    /\ UNCHANGED <<object, wire, opt>>
    /\ doubt \subseteq doubt'
    /\ reply[c] # {} \/ Awaited(c) \subseteq doubt'
    /\ CacheShrinks
    /\ \A l \in Told(c) : \/ l \in doubt'
                          \/ ~HalfWay(l) /\ \A k \in Cached(cache') : EntryLoc(k)' # l

\* A batch that goes on to its next chunk.
Continues(c) ==
    /\ Others(c)
    /\ pc[c] = "removing" /\ opt[c].op = "deleteMany" /\ pc'[c] = "removing" /\ reply'[c] = {}
    /\ UNCHANGED <<object, opt, cache>>
    /\ doubt \subseteq doubt'
    /\ reply[c] # {} \/ Awaited(c) \subseteq doubt'
    /\ batch'[c].left \cup batch'[c].chunk \cup batch'[c].deleted
         \subseteq batch[c].left \cup batch[c].chunk \cup batch[c].deleted
    /\ wire' = wire \cup {RemoveOf(c, Awaited(c)')}
    /\ Told(c) \subseteq Told(c)' \cup doubt'

\* Once the caller of a delete is past the request it waited for, what is left
\* of its requests is in doubt.
LEMMA PastRequests ==
    ASSUME TypeInv, Exchange, NEW c \in Call, NEW r \in wire, r.by = c, r.op = "remove",
           reply[c] # {} \/ Awaited(c) \subseteq doubt', doubt \subseteq doubt'
    PROVE  r.at \subseteq doubt'
BY DEF Exchange, WireOK, RequestOK

\* one that ends a delete: what is left of its requests is in doubt,
LEMMA EndExchange ==
    ASSUME TypeInv, Exchange, NEW c \in Call, Ends(c) PROVE Exchange'
<1> USE DEF Exchange
<1>1. ReplyOK'
  BY OthersAwait DEF ReplyOK, Ends, Others
<1>2. BatchOK'
  BY DEF BatchOK, Ends, Others
<1>3. WireOK'
  <2> SUFFICES ASSUME NEW r \in wire PROVE RequestOK(r)'
    BY DEF WireOK, Ends
  <2>1. CASE r.by = c
    <3>1. LocOf(c)' = LocOf(c)
      BY DEF Ends, LocOf
    <3> QED BY <2>1, <3>1, PastRequests DEF WireOK, Ends, RequestOK
  <2>2. CASE r.by # c
    <3>1. r.by \in Call \ {c}
      BY <2>2 DEF TypeInv, TypeOK, Request
    <3> QED BY <3>1, OthersAwait DEF WireOK, Ends, Others, RequestOK
  <2> QED BY <2>1, <2>2
<1> QED BY <1>1, <1>2, <1>3

\* and one that goes on to the next chunk.
LEMMA ContinueExchange ==
    ASSUME TypeInv, Exchange, NEW c \in Call, Continues(c) PROVE Exchange'
<1> USE DEF Exchange
<1>1. ReplyOK'
  BY OthersAwait DEF ReplyOK, Continues, Others
<1>2. BatchOK'
  <2>1. batch'[c].left \cup batch'[c].chunk \cup batch'[c].deleted \subseteq opt'[c].keys
    BY DEF BatchOK, Continues
  <2> QED BY <2>1 DEF BatchOK, Continues, Others
<1>3. WireOK'
  <2> SUFFICES ASSUME NEW r \in wire' PROVE RequestOK(r)'
    BY DEF WireOK
  <2>1. CASE r = RemoveOf(c, Awaited(c)')
    BY <2>1 DEF RemoveOf, Continues, RequestOK
  <2>2. CASE r \in wire /\ r.by = c
    <3>1. LocOf(c)' = LocOf(c)
      BY DEF Continues, LocOf
    <3> QED BY <2>2, <3>1, PastRequests DEF WireOK, Continues, RequestOK
  <2>3. CASE r \in wire /\ r.by # c
    <3>1. r.by \in Call \ {c}
      BY <2>3 DEF TypeInv, TypeOK, Request
    <3> QED BY <2>3, <3>1, OthersAwait DEF WireOK, Continues, Others, RequestOK
  <2> QED BY <2>1, <2>2, <2>3 DEF Continues
<1> QED BY <1>1, <1>2, <1>3

\* deleteMany() after a chunk: what the batch learns is g.
LEMMA AfterChunkDoes ==
    ASSUME TypeInv, Exchange, NEW c \in Call, pc[c] = "removing", opt[c].op = "deleteMany",
           NEW b \in Progress, NEW unsure \in SUBSET Loc, AfterChunk(c, b, unsure),
           reply' = [reply EXCEPT ![c] = {}], UNCHANGED <<object, opt>>,
           b.left = batch[c].left, b.chunk = {}, batch[c].deleted \subseteq b.deleted,
           b.deleted \subseteq batch[c].deleted \cup batch[c].chunk,
           reply[c] # {} \/ Awaited(c) \subseteq unsure,
           Told(c) \subseteq Locs(opt[c].bucket, b.deleted) \cup unsure
    PROVE  Ends(c) \/ Continues(c)
<1> USE DEF TypeInv, TypeOK
<1>1. opt[c].bucket \in Bucket /\ Locs(opt[c].bucket, b.deleted) \subseteq Loc
  BY OptionsOfOp DEF BatchOptions, Locs, Loc, Progress
<1>2. CASE b.left # {} /\ client
  <2>1. /\ SendChunk(c, opt[c].bucket, b) /\ doubt' = doubt \cup unsure
        /\ UNCHANGED <<instance, pc>>
    BY <1>2 DEF AfterChunk
  <2>2. PICK ks \in SUBSET b.left :
             /\ wire' = wire \cup {RemoveOf(c, Locs(opt[c].bucket, ks))}
             /\ batch' = [batch EXCEPT ![c] = batch'[c]]
             /\ batch'[c].left = b.left \ ks /\ batch'[c].chunk = ks
             /\ batch'[c].deleted = b.deleted
    BY <2>1, FirstChunk
  <2>3. Awaited(c)' = Locs(opt[c].bucket, ks)
    BY <2>2 DEF Awaited
  <2>4. Others(c) /\ reply'[c] = {}
    BY <2>1, <2>2 DEF Others
  <2>5. Told(c) \subseteq Told(c)' \cup doubt'
    BY <1>1, <2>1, <2>2 DEF Told
  <2>6. batch'[c].left \cup batch'[c].chunk \cup batch'[c].deleted
         \subseteq batch[c].left \cup batch[c].chunk \cup batch[c].deleted
    BY <2>2
  <2> QED BY <2>1, <2>2, <2>3, <2>4, <2>5, <2>6 DEF Continues, instance
<1>3. CASE b.left # {} /\ ~client
  <2>1. /\ pc' = [pc EXCEPT ![c] = "settled"] /\ batch' = [batch EXCEPT ![c] = b]
        /\ doubt' = doubt \cup unsure \cup Locs(opt[c].bucket, b.deleted)
        /\ UNCHANGED <<instance, wire>>
    BY <1>3 DEF AfterChunk, Rejects, Settles, Goes
  <2>2. CacheShrinks
    BY <2>1 DEF CacheShrinks, instance
  <2>3. Others(c) /\ pc'[c] = "settled" /\ reply'[c] = {}
    BY <2>1 DEF Others
  <2>4. doubt \subseteq doubt' /\ (reply[c] # {} \/ Awaited(c) \subseteq doubt')
    BY <2>1
  <2>5. \A l \in Told(c) : l \in doubt'
    BY <2>1
  <2>6. UNCHANGED <<object, wire, opt>>
    BY <2>1
  <2> QED BY <2>2, <2>3, <2>4, <2>5, <2>6 DEF Ends
<1>4. CASE b.left = {}
  <2> DEFINE D == UNION { HoldersOf(cache, opt[c].bucket, key) : key \in b.deleted }
  <2>1. /\ pc' = [pc EXCEPT ![c] = "settled"] /\ batch' = [batch EXCEPT ![c] = b]
        /\ cache' = Without(cache, D) /\ UNCHANGED wire
        /\ doubt' = doubt \cup unsure \cup { l \in Locs(opt[c].bucket, b.deleted) : HalfWay(l) }
    BY <1>4 DEF AfterChunk, Settles, Goes
  <2>2. /\ Cached(cache') = Cached(cache) \ D
        /\ \A k \in Cached(cache) \ D : cache'.entries[k] = cache.entries[k]
    <3> HIDE DEF D
    <3> QED BY <2>1, WithoutIsCache
  <2>3. CacheShrinks
    BY <2>2 DEF CacheShrinks
  <2>4. ASSUME NEW l \in Locs(opt[c].bucket, b.deleted), NEW k \in Cached(cache'), EntryLoc(k)' = l
        PROVE  FALSE
    <3>1. EntryLoc(k) = l /\ k \in Cached(cache) \ D
      BY <2>2, <2>3, <2>4 DEF CacheShrinks, EntryLoc
    <3>2. PICK key \in b.deleted : l = <<opt[c].bucket, key>>
      BY DEF Locs
    <3>3. k \in HoldersOf(cache, opt[c].bucket, key)
      BY <3>1, <3>2 DEF HoldersOf, EntryLoc
    <3> QED BY <3>1, <3>2, <3>3
  <2>5. ASSUME NEW l \in Told(c)
        PROVE  \/ l \in doubt'
               \/ ~HalfWay(l) /\ \A k \in Cached(cache') : EntryLoc(k)' # l
    <3>1. CASE l \in unsure
      BY <2>1, <3>1
    <3>2. CASE l \in Locs(opt[c].bucket, b.deleted) /\ HalfWay(l)
      BY <2>1, <3>2
    <3>3. CASE l \in Locs(opt[c].bucket, b.deleted) /\ ~HalfWay(l)
      BY <2>4, <3>3
    <3> QED BY <3>1, <3>2, <3>3
  <2>6. Others(c) /\ pc'[c] = "settled" /\ reply'[c] = {}
    BY <2>1 DEF Others
  <2>7. doubt \subseteq doubt' /\ (reply[c] # {} \/ Awaited(c) \subseteq doubt')
    BY <2>1
  <2>8. UNCHANGED <<object, wire, opt>>
    BY <2>1
  <2> QED BY <2>3, <2>5, <2>6, <2>7, <2>8 DEF Ends
<1> QED BY <1>2, <1>3, <1>4 DEF AfterChunk

\* The outcome of a chunk ends the batch or continues it.
LEMMA ChunkDoes ==
    ASSUME TypeInv, Exchange, NEW c \in Call, ChunkAnswered(c) \/ ChunkFails(c)
    PROVE  Ends(c) \/ Continues(c)
<1> USE DEF TypeInv, TypeOK
<1>1. /\ pc[c] = "removing" /\ opt[c].op = "deleteMany"
      /\ reply' = [reply EXCEPT ![c] = {}] /\ UNCHANGED <<object, opt>>
  BY DEF ChunkAnswered, ChunkFails, Answered, Unanswered
<1>2. batch[c] \in Progress /\ opt[c].bucket \in Bucket
  BY <1>1, OptionsOfOp DEF BatchOptions
<1>3. Awaited(c) = Locs(opt[c].bucket, batch[c].chunk)
  BY <1>1 DEF Awaited
<1>4. \A did \in reply[c] : did \subseteq Awaited(c)
  BY <1>1 DEF Exchange, ReplyOK
<1>5. CASE ChunkAnswered(c)
  <2>1. PICK did \in reply[c] :
          LET gone == { key \in batch[c].chunk : <<opt[c].bucket, key>> \in did }
          IN  AfterChunk(c, [batch[c] EXCEPT !.chunk = {}, !.deleted = @ \cup gone,
                                           !.failed = @ \cup (batch[c].chunk \ gone)], {})
    BY <1>5 DEF ChunkAnswered
  <2> DEFINE gone == { key \in batch[c].chunk : <<opt[c].bucket, key>> \in did }
             b == [batch[c] EXCEPT !.chunk = {}, !.deleted = @ \cup gone,
                                   !.failed = @ \cup (batch[c].chunk \ gone)]
  <2>2. gone \subseteq batch[c].chunk
    OBVIOUS
  <2>3. /\ b \in Progress /\ b.left = batch[c].left /\ b.chunk = {}
        /\ b.deleted = batch[c].deleted \cup gone
    <3> HIDE DEF gone
    <3> QED BY <1>2, <2>2 DEF Progress
  <2>4. did \subseteq Locs(opt[c].bucket, gone)
    BY <1>3, <1>4 DEF Locs
  <2>5. \A other \in reply[c] : other = did
    BY <1>1 DEF Exchange, ReplyOK
  <2>6. Told(c) \subseteq Locs(opt[c].bucket, b.deleted) \cup {}
    BY <1>1, <2>3, <2>4, <2>5 DEF Told, Locs
  <2>7. AfterChunk(c, b, {})
    BY <2>1
  <2> HIDE DEF b, gone
  <2> QED BY <1>1, <2>1, <2>2, <2>3, <2>6, <2>7, AfterChunkDoes
<1>6. CASE ChunkFails(c)
  <2> DEFINE b == [batch[c] EXCEPT !.chunk = {}, !.failed = @ \cup batch[c].chunk]
  <2>1. AfterChunk(c, b, Awaited(c))
    BY <1>3, <1>6 DEF ChunkFails
  <2>2. /\ b \in Progress /\ b.left = batch[c].left /\ b.chunk = {}
        /\ b.deleted = batch[c].deleted
    BY <1>2 DEF Progress
  <2>3. Awaited(c) \in SUBSET Loc
    BY <1>2, <1>3 DEF Locs, Loc, Progress
  <2>4. Told(c) \subseteq Locs(opt[c].bucket, b.deleted) \cup Awaited(c)
    BY <1>1, <1>4, <2>2 DEF Told
  <2> HIDE DEF b
  <2> QED BY <1>1, <2>1, <2>2, <2>3, <2>4, AfterChunkDoes
<1> QED BY <1>5, <1>6

\* delete(), as a call or as a cleanup, ends with its one request.
LEMMA RemoveEnds ==
    ASSUME TypeInv, Exchange, NEW c \in Call, RemoveAnswered(c) \/ RemoveFails(c)
    PROVE  Ends(c)
<1> USE DEF TypeInv, TypeOK
<1>1. /\ pc[c] = "removing" /\ opt[c].op # "deleteMany"
      /\ pc' = [pc EXCEPT ![c] = "settled"] /\ reply' = [reply EXCEPT ![c] = {}]
      /\ UNCHANGED <<object, wire, opt, batch>>
  BY DEF RemoveAnswered, RemoveFails, Settles, Goes, Answered, Unanswered
<1>2. Others(c) /\ pc'[c] = "settled" /\ reply'[c] = {}
  BY <1>1 DEF Others
<1>3. Awaited(c) = {LocOf(c)}
  BY <1>1 DEF Awaited
<1>4. \A l \in Told(c) : l = LocOf(c)
  BY <1>1, <1>3 DEF Told, Exchange, ReplyOK
<1>5. CASE RemoveAnswered(c)
  <2> DEFINE D == HoldersOf(cache, opt[c].bucket, opt[c].key)
  <2>1. /\ reply[c] # {} /\ cache' = Without(cache, D)
        /\ doubt' = doubt \cup (IF HalfWay(LocOf(c)) THEN {LocOf(c)} ELSE {})
    BY <1>5 DEF RemoveAnswered, Answered
  <2>2. /\ Cached(cache') = Cached(cache) \ D
        /\ \A k \in Cached(cache) \ D : cache'.entries[k] = cache.entries[k]
    <3> HIDE DEF D
    <3> QED BY <2>1, WithoutIsCache
  <2>3. CacheShrinks
    BY <2>2 DEF CacheShrinks
  <2>4. \A k \in Cached(cache') : EntryLoc(k)' # LocOf(c)
    <3> SUFFICES ASSUME NEW k \in Cached(cache'), EntryLoc(k)' = LocOf(c) PROVE FALSE
      OBVIOUS
    <3>1. EntryLoc(k) = LocOf(c) /\ k \in Cached(cache) \ D
      BY <2>2, <2>3 DEF CacheShrinks, EntryLoc
    <3>2. k \in D
      BY <3>1 DEF HoldersOf, EntryLoc, LocOf
    <3> QED BY <3>1, <3>2
  <2>5. doubt \subseteq doubt' /\ (HalfWay(LocOf(c)) => LocOf(c) \in doubt')
    BY <2>1
  <2>6. ASSUME NEW l \in Told(c)
        PROVE  \/ l \in doubt'
               \/ ~HalfWay(l) /\ \A k \in Cached(cache') : EntryLoc(k)' # l
    BY <1>4, <2>4, <2>5
  <2> QED BY <1>1, <1>2, <2>1, <2>3, <2>5, <2>6 DEF Ends
<1>6. CASE RemoveFails(c)
  <2>1. doubt' = doubt \cup {LocOf(c)} /\ UNCHANGED cache
    BY <1>6 DEF RemoveFails, instance
  <2>2. CacheShrinks
    BY <2>1 DEF CacheShrinks
  <2>3. \A l \in Told(c) : l \in doubt'
    BY <1>4, <2>1
  <2>4. doubt \subseteq doubt' /\ Awaited(c) \subseteq doubt'
    BY <1>3, <2>1
  <2> QED BY <1>1, <1>2, <2>2, <2>3, <2>4 DEF Ends
<1> QED BY <1>5, <1>6
-----------------------------------------------------------------------------
(* What the provider does to requests and answers *)

\* A delete that takes effect answers its caller, or nobody.
LEMMA ApplyRemoveExchange ==
    ASSUME TypeInv, Exchange, NEW r \in wire, ApplyRemove(r) PROVE Exchange'
<1> USE DEF Exchange, TypeInv, TypeOK
<1>1. /\ r.op = "remove" /\ r.by \in Call /\ r.at \subseteq Loc
      /\ wire' = wire \ {r} /\ UNCHANGED <<pc, opt, batch, doubt>>
  BY DEF ApplyRemove, Request, calls, history
<1>2. PICK did \in SUBSET r.at : Replies(r, did)
  BY DEF ApplyRemove
<1>3. \A c \in Call : Awaited(c)' = Awaited(c) /\ LocOf(c)' = LocOf(c)
  BY <1>1 DEF Awaited, LocOf
<1>4. CASE Awaits(r)
  <2>1. pc[r.by] = "removing" /\ reply' = [reply EXCEPT ![r.by] = {did}]
    BY <1>1, <1>2, <1>4 DEF Awaits, AwaitOf, Replies
  <2>2. r.at = Awaited(r.by)
    BY <1>1, <1>4 DEF Awaits, Awaited, WireOK, RequestOK
  <2>3. ReplyOK'
    BY <1>1, <1>3, <2>1, <2>2 DEF ReplyOK
  <2>4. \A q \in wire : q.by = r.by /\ q.op = "remove" => q = r \/ q.at \subseteq doubt
    <3> SUFFICES ASSUME NEW q \in wire, q.by = r.by, q.op = "remove", ~(q.at \subseteq doubt)
                 PROVE  q = r
      OBVIOUS
    <3>1. q.at = Awaited(r.by)
      BY DEF WireOK, RequestOK
    <3> QED BY <1>1, <2>2, <3>1 DEF Request
  <2>5. WireOK'
    <3> SUFFICES ASSUME NEW q \in wire \ {r} PROVE RequestOK(q)'
      BY <1>1 DEF WireOK
    <3>1. q.by \in Call /\ RequestOK(q)
      BY DEF WireOK, Request
    <3> QED BY <1>1, <1>3, <2>1, <2>4, <3>1 DEF RequestOK
  <2> QED BY <1>1, <2>3, <2>5 DEF BatchOK
<1>5. CASE ~Awaits(r)
  <2>1. UNCHANGED reply
    BY <1>2, <1>5 DEF Replies
  <2>2. ReplyOK' /\ BatchOK'
    BY <1>1, <1>3, <2>1 DEF ReplyOK, BatchOK
  <2>3. WireOK'
    <3> SUFFICES ASSUME NEW q \in wire PROVE RequestOK(q)'
      BY <1>1 DEF WireOK
    <3>1. q.by \in Call /\ RequestOK(q)
      BY DEF WireOK, Request
    <3> QED BY <1>1, <1>3, <2>1, <3>1 DEF RequestOK
  <2> QED BY <2>2, <2>3
<1> QED BY <1>4, <1>5

\* A write or an abort answers a call that does not wait for a delete.
LEMMA ApplyOtherExchange ==
    ASSUME TypeInv, Exchange, NEW r \in wire, ApplyWrite(r) \/ ApplyAbort(r) PROVE Exchange'
<1> USE DEF Exchange, TypeInv, TypeOK
<1>1. /\ r.op \in {"write", "abort"} /\ r.by \in Call
      /\ wire' \subseteq wire /\ UNCHANGED <<pc, opt, batch, doubt>>
  BY DEF ApplyWrite, ApplyAbort, Request, calls, history
<1>2. PICK did \in SUBSET Loc : Replies(r, did)
  BY DEF ApplyWrite, ApplyAbort, Request
<1>3. \A c \in Call : Awaited(c)' = Awaited(c) /\ LocOf(c)' = LocOf(c)
  BY <1>1 DEF Awaited, LocOf
<1>4. \/ UNCHANGED reply
      \/ reply' = [reply EXCEPT ![r.by] = {did}] /\ pc[r.by] \in {"writing", "aborting"}
  BY <1>1, <1>2 DEF Replies, Awaits, AwaitOf
<1>5. ReplyOK' /\ BatchOK'
  BY <1>1, <1>3, <1>4 DEF ReplyOK, BatchOK
<1>6. WireOK'
  <2> SUFFICES ASSUME NEW q \in wire PROVE RequestOK(q)'
    BY <1>1 DEF WireOK
  <2>1. q.by \in Call /\ RequestOK(q)
    BY DEF WireOK, Request
  <2> QED BY <1>1, <1>3, <1>4, <2>1 DEF RequestOK
<1> QED BY <1>5, <1>6
-----------------------------------------------------------------------------
(* What the cache and the uploads half-way can be trusted for *)

\* Every entry is one the cache had, or the one a finished upload records.
CacheGrows(c) ==
    \A k \in Cached(cache') :
        \/ k \in Cached(cache) /\ cache'.entries[k] = cache.entries[k]
        \/ /\ RecordResult(c)
           /\ k = ComputeKey(opt[c].idem, opt[c].key) /\ cache'.entries[k].result = ResultOf(c)

\* The others know what they knew.
LEMMA OthersKnow ==
    ASSUME NEW c \in Call, Others(c), NEW d \in Call \ {c}
    PROVE  /\ pc[d]' = pc[d] /\ Told(d)' = Told(d)
           /\ Landed(d)' = Landed(d) /\ LocOf(d)' = LocOf(d)
BY DEF Others, Told, Landed, LocOf

\* What other calls have deleted stays deleted.
LEMMA OthersGone ==
    ASSUME NEW c \in Call, Others(c), NEW l, Gone(l)
    PROVE  Gone(l)' \/ (pc[c] = "removing" /\ l \in Told(c))
<1>1. PICK d \in Call : pc[d] = "removing" /\ l \in Told(d)
  BY DEF Gone
<1>2. CASE d # c
  <2>1. d \in Call \ {c}
    BY <1>2
  <2>2. pc'[d] = "removing" /\ l \in Told(d)'
    BY <1>1, <2>1, OthersKnow
  <2> QED BY <2>1, <2>2 DEF Gone
<1> QED BY <1>1, <1>2

\* A quiet step may record an upload that has landed, and forget.
LEMMA QuietTracked ==
    ASSUME TypeInv, Tracked, NEW c \in Call, Quiet(c), CacheGrows(c) PROVE Tracked'
<1> SUFFICES ASSUME NEW l \in Loc, Relied(l)' PROVE Accounted(l)'
  BY DEF Tracked
<1>1. Relied(l)
  <2>1. CASE \E k \in Cached(cache') : EntryLoc(k)' = l
    <3>1. PICK k \in Cached(cache') : EntryLoc(k)' = l
      BY <2>1
    <3>2. CASE k \in Cached(cache) /\ cache'.entries[k] = cache.entries[k]
      BY <3>1, <3>2 DEF EntryLoc, Relied
    <3>3. CASE RecordResult(c) /\ cache'.entries[k].result = ResultOf(c)
      BY <3>1, <3>3 DEF EntryLoc, Relied, ResultOf, LocOf, RecordResult, Landed
    <3> QED BY <3>2, <3>3 DEF CacheGrows
  <2>2. ASSUME NEW u \in Call, Landed(u)', LocOf(u)' = l PROVE Relied(l)
    <3>1. Landed(c)' => Landed(c) /\ LocOf(c)' = LocOf(c)
      BY DEF Quiet, Landed, LocOf
    <3>2. Landed(u) /\ LocOf(u) = l
      BY <2>2, <3>1, OthersKnow DEF Quiet
    <3> QED BY <3>2 DEF Relied
  <2> QED BY <2>1, <2>2 DEF Relied
<1>2. Accounted(l)
  BY <1>1 DEF Tracked
<1> QED BY <1>2, OthersGone DEF Accounted, Quiet

\* Sending a delete changes nothing yet.
LEMMA AskTracked ==
    ASSUME TypeInv, Tracked, NEW c \in Call, Asks(c) PROVE Tracked'
<1> SUFFICES ASSUME NEW l \in Loc, Relied(l)' PROVE Accounted(l)'
  BY DEF Tracked
<1>1. Relied(l)
  <2>1. CASE \E k \in Cached(cache') : EntryLoc(k)' = l
    BY <2>1 DEF Asks, EntryLoc, Relied
  <2>2. ASSUME NEW u \in Call, Landed(u)', LocOf(u)' = l PROVE Relied(l)
    BY <2>2, OthersKnow DEF Asks, Landed, Relied
  <2> QED BY <2>1, <2>2 DEF Relied
<1>2. Accounted(l)
  BY <1>1 DEF Tracked
<1> QED BY <1>2, OthersGone DEF Accounted, Asks

\* Between two chunks the batch still knows what it was told.
LEMMA ContinueTracked ==
    ASSUME TypeInv, Tracked, NEW c \in Call, Continues(c) PROVE Tracked'
<1> SUFFICES ASSUME NEW l \in Loc, Relied(l)' PROVE Accounted(l)'
  BY DEF Tracked
<1>1. Relied(l)
  <2>1. CASE \E k \in Cached(cache') : EntryLoc(k)' = l
    BY <2>1 DEF Continues, EntryLoc, Relied
  <2>2. ASSUME NEW u \in Call, Landed(u)', LocOf(u)' = l PROVE Relied(l)
    BY <2>2, OthersKnow DEF Continues, Landed, Relied
  <2> QED BY <2>1, <2>2 DEF Relied
<1>2. Accounted(l)
  BY <1>1 DEF Tracked
<1>3. l \in Told(c) => Gone(l)' \/ l \in doubt'
  BY DEF Continues, Gone
<1> QED BY <1>2, <1>3, OthersGone DEF Accounted, Continues

\* The step where the cache is put right: a location that only the delete that
\* ends accounted for has no entry left and no upload half-way.
LEMMA EndTracked ==
    ASSUME TypeInv, Tracked, NEW c \in Call, Ends(c) PROVE Tracked'
<1> SUFFICES ASSUME NEW l \in Loc, Relied(l)' PROVE Accounted(l)'
  BY DEF Tracked
<1>1. /\ Relied(l)
      /\ HalfWay(l) \/ \E k \in Cached(cache') : EntryLoc(k)' = l
  <2>1. CASE \E k \in Cached(cache') : EntryLoc(k)' = l
    BY <2>1 DEF Ends, CacheShrinks, EntryLoc, Relied
  <2>2. ASSUME NEW u \in Call, Landed(u)', LocOf(u)' = l PROVE Relied(l) /\ HalfWay(l)
    <3>1. Landed(u) /\ LocOf(u) = l
      BY <2>2, OthersKnow DEF Ends, Landed
    <3> QED BY <3>1 DEF Landed, HalfWay, Relied, TypeInv, StageOK, UploadStage
  <2> QED BY <2>1, <2>2 DEF Relied
<1>2. Accounted(l)
  BY <1>1 DEF Tracked
<1>3. l \in Told(c) => l \in doubt'
  BY <1>1 DEF Ends
<1> QED BY <1>2, <1>3, OthersGone DEF Accounted, Ends

\* A delete that takes effect: its caller is told, or the location is in doubt.
LEMMA ApplyRemoveTracked ==
    ASSUME TypeInv, Exchange, Tracked, NEW r \in wire, ApplyRemove(r) PROVE Tracked'
<1> USE DEF Exchange, TypeInv, TypeOK
<1>1. /\ r.op = "remove" /\ r.by \in Call /\ r.at \subseteq Loc
      /\ UNCHANGED <<cache, pc, opt, batch, doubt>>
  BY DEF ApplyRemove, Request, instance, calls, history
<1>2. PICK did \in SUBSET r.at :
        object' = [l \in Loc |-> IF l \in did THEN None ELSE object[l]] /\ Replies(r, did)
  BY DEF ApplyRemove
<1>3. RequestOK(r)
  BY DEF WireOK
<1>4. ~Awaits(r) => r.at \subseteq doubt /\ UNCHANGED reply
  BY <1>1, <1>2, <1>3 DEF RequestOK, Awaits, AwaitOf, Awaited, Replies
<1>5. Awaits(r) => pc[r.by] = "removing" /\ reply' = [reply EXCEPT ![r.by] = {did}]
  BY <1>1, <1>2 DEF Awaits, AwaitOf, Replies
<1>6. \A d \in Call : d # r.by => reply'[d] = reply[d]
  BY <1>1, <1>4, <1>5
<1> SUFFICES ASSUME NEW l \in Loc, Relied(l)' PROVE Accounted(l)'
  BY DEF Tracked
<1>7. Accounted(l)
  <2>1. CASE \E k \in Cached(cache') : EntryLoc(k)' = l
    BY <1>1, <2>1 DEF EntryLoc, Relied, Tracked
  <2>2. ASSUME NEW u \in Call, Landed(u)', LocOf(u)' = l PROVE Relied(l)
    BY <1>1, <1>4, <1>5, <1>6, <2>2 DEF Landed, LocOf, Relied
  <2> QED BY <2>1, <2>2 DEF Relied, Tracked
<1>8. CASE l \in did
  <2>1. CASE Awaits(r)
    <3>1. l \in Told(r.by)' /\ pc'[r.by] = "removing"
      BY <1>1, <1>5, <1>8, <2>1 DEF Told
    <3> QED BY <1>1, <3>1 DEF Accounted, Gone
  <2> QED BY <1>1, <1>4, <1>8, <2>1 DEF Accounted
<1>9. CASE l \notin did /\ (object[l] # None \/ l \in doubt)
  BY <1>1, <1>2, <1>9 DEF Accounted
<1>10. CASE Gone(l)
  <2>1. PICK d \in Call : pc[d] = "removing" /\ l \in Told(d)
    BY <1>10 DEF Gone
  <2>2. CASE d = r.by /\ Awaits(r) /\ \E old \in reply[d] : l \in old
    <3>1. l \in Awaited(d) /\ r.at = Awaited(d) /\ r.at \subseteq doubt
      BY <1>1, <1>3, <2>1, <2>2 DEF ReplyOK, RequestOK, Awaits, Awaited
    <3> QED BY <1>1, <3>1 DEF Accounted
  <2>3. CASE ~(d = r.by /\ Awaits(r) /\ \E old \in reply[d] : l \in old)
    <3>1. l \in Told(d)'
      BY <1>1, <1>4, <1>6, <2>1, <2>3 DEF Told
    <3> QED BY <1>1, <2>1, <3>1 DEF Accounted, Gone
  <2> QED BY <2>2, <2>3
<1> QED BY <1>7, <1>8, <1>9, <1>10 DEF Accounted

\* A write that takes effect puts an object where it lands.
LEMMA ApplyOtherTracked ==
    ASSUME TypeInv, Exchange, Tracked, NEW r \in wire, ApplyWrite(r) \/ ApplyAbort(r)
    PROVE  Tracked'
<1> USE DEF Exchange, TypeInv, TypeOK
<1>1. /\ r.op \in {"write", "abort"} /\ r.by \in Call
      /\ UNCHANGED <<cache, pc, opt, batch, doubt>>
  BY DEF ApplyWrite, ApplyAbort, Request, instance, calls, history
<1>2. \A d \in Call : d # r.by \/ pc[d] \notin {"writing", "aborting"} => reply'[d] = reply[d]
  BY <1>1 DEF ApplyWrite, ApplyAbort, Replies, Awaits, AwaitOf
<1>3. \A l \in Loc : object[l] # None => object'[l] # None
  BY <1>1, ServiceAssumption DEF ApplyWrite, ApplyAbort
<1> SUFFICES ASSUME NEW l \in Loc, Relied(l)' PROVE Accounted(l)'
  BY DEF Tracked
<1>4. CASE Relied(l)
  <2>1. Accounted(l)
    BY <1>4 DEF Tracked
  <2>2. Gone(l) => Gone(l)'
    BY <1>1, <1>2 DEF Gone, Told
  <2> QED BY <1>1, <1>3, <2>1, <2>2 DEF Accounted
<1>5. CASE ~Relied(l)
  <2>1. PICK u \in Call : Landed(u)' /\ ~Landed(u) /\ LocOf(u) = l
    BY <1>1, <1>5 DEF Relied, LocOf, EntryLoc
  <2>2. u = r.by /\ pc[u] = "writing" /\ reply'[u] # reply[u]
    BY <1>1, <1>2, <2>1 DEF Landed
  <2>3. ApplyWrite(r)
    BY <1>1, <2>2 DEF ApplyWrite, ApplyAbort, Replies, Awaits, AwaitOf
  <2>4. r.at = {l}
    BY <2>1, <2>2, <2>3 DEF ApplyWrite, WireOK, RequestOK
  <2>5. object'[l] # None
    BY <1>1, <2>3, <2>4, ServiceAssumption DEF ApplyWrite
  <2> QED BY <2>5 DEF Accounted
<1> QED BY <1>4, <1>5
-----------------------------------------------------------------------------
(* The invariant *)

\* upload() adds nothing to the cache when it starts.
LEMMA UploadStartsShrink ==
    ASSUME TypeInv, NEW c \in Call, NEW o \in UploadAsk,
           UploadRefused(c, o) \/ UploadAnswered(c, o) \/ UploadBegins(c, o)
    PROVE  CacheShrinks
<1>1. IsCache(cache)
  BY DEF TypeInv, TypeOK
<1>2. CASE UploadRefused(c, o)
  BY <1>2 DEF UploadRefused, instance, CacheShrinks
<1>3. CASE UploadAnswered(c, o)
  <2> DEFINE k == ComputeKey(o.idem, o.key)
  <2>1. k \in Cached(cache) /\ cache' = Touched(cache, k)
    BY <1>3 DEF UploadAnswered, Live
  <2> HIDE DEF k
  <2>2. Cached(cache') = Cached(cache) /\ \A x \in Cached(cache) : cache'.entries[x] = cache.entries[x]
    BY <1>1, <2>1, TouchedIsCache
  <2> QED BY <2>2 DEF CacheShrinks
<1>4. CASE UploadBegins(c, o)
  <2> DEFINE k == ComputeKey(o.idem, o.key)
  <2>1. cache' = Without(cache, {k}) \/ cache' = cache
    BY <1>4 DEF UploadBegins
  <2> HIDE DEF k
  <2>2. /\ Cached(cache') \subseteq Cached(cache)
        /\ \A x \in Cached(cache') : cache'.entries[x] = cache.entries[x]
    BY <1>1, <2>1, WithoutIsCache
  <2> QED BY <2>2 DEF CacheShrinks
<1> QED BY <1>2, <1>3, <1>4

\* An upload records its own result, and what it evicts it only drops.
LEMMA RecordGrows ==
    ASSUME TypeInv, NEW c \in Call, RecordResult(c) PROVE CacheGrows(c)
<1> USE DEF TypeInv, TypeOK
<1>1. opt[c] \in UploadOptions
  BY OptionsOfOp DEF RecordResult, StageOK, UploadStage
<1>2. CASE opt[c].idem = NoIdem
  BY <1>2 DEF RecordResult, CacheGrows
<1>3. CASE opt[c].idem # NoIdem
  <2> DEFINE key == ComputeKey(opt[c].idem, opt[c].key)
             grown == Stored(cache, key, ResultOf(c), now)
  <2>1. key \in CacheKey /\ ResultOf(c) \in Result /\ now \in Nat
    BY <1>1, <1>3 DEF UploadOptions, ComputeKey, CacheKey, ResultOf, Result, Call
  <2>2. PICK D : cache' = Without(grown, D)
    BY <1>3 DEF RecordResult
  <2> HIDE DEF key
  <2>3. /\ IsCache(grown) /\ Cached(grown) = Cached(cache) \cup {key}
        /\ grown.entries[key] = [result |-> ResultOf(c), expiresAt |-> now + Ttl]
        /\ \A x \in Cached(cache) \ {key} : grown.entries[x] = cache.entries[x]
    BY <2>1, StoredIsCache
  <2> HIDE DEF grown
  <2>4. /\ Cached(cache') = Cached(grown) \ D
        /\ \A x \in Cached(grown) \ D : cache'.entries[x] = grown.entries[x]
    BY <2>2, <2>3, WithoutIsCache
  <2>5. ASSUME NEW k \in Cached(cache')
        PROVE  \/ k \in Cached(cache) /\ cache'.entries[k] = cache.entries[k]
               \/ k = key /\ cache'.entries[k].result = ResultOf(c)
    <3>1. CASE k = key
      BY <2>3, <2>4, <3>1
    <3>2. CASE k # key
      BY <2>3, <2>4, <3>2
    <3> QED BY <3>1, <3>2
  <2> QED BY <2>5 DEF CacheGrows, key
<1> QED BY <1>2, <1>3

\* Every step of a call is of one of four kinds.
LEMMA CallDoes ==
    ASSUME TypeInv, Exchange, NEW c \in Call,
           Start(c) \/ ServiceStep(c) \/ CallerCodeStep(c)
    PROVE  (Quiet(c) /\ CacheGrows(c)) \/ Asks(c) \/ Ends(c) \/ Continues(c)
<1>1. ReplyOK
  BY DEF Exchange
<1>2. UNCHANGED cache \/ CacheShrinks => CacheGrows(c)
  BY DEF CacheShrinks, CacheGrows
<1>3. CASE Start(c)
  BY <1>1, <1>2, <1>3, UploadStartsQuiet, UploadStartsShrink, OtherStartsQuiet, DeleteAsks DEF Start
<1>4. CASE ServiceStep(c)
  BY <1>1, <1>2, <1>4, WriteQuiet, RecordQuiet, RecordGrows, RemoveEnds, ChunkDoes DEF ServiceStep
<1>5. CASE CallerCodeStep(c)
  BY <1>1, <1>2, <1>5, CallerCodeQuiet, DeleteAsks DEF CallerCodeStep
<1> QED BY <1>3, <1>4, <1>5

\* Shutdown and time change nothing of it.
LEMMA StillTrusted ==
    ASSUME TypeInv, Exchange, Tracked,
           UNCHANGED <<cache, object, wire, reply, pc, opt, batch, doubt>>
    PROVE  Exchange' /\ Tracked'
<1>1. Exchange'
  BY DEF Exchange, ReplyOK, BatchOK, WireOK, RequestOK, Awaited, LocOf
<1>2. Tracked'
  BY DEF Tracked, Relied, Accounted, Gone, Told, Landed, LocOf, EntryLoc
<1> QED BY <1>1, <1>2

\* Every step keeps the exchange in order and every answer accounted for.
LEMMA StepTrusted ==
    ASSUME TypeInv, Exchange, Tracked, [Next]_vars PROVE Exchange' /\ Tracked'
<1>1. ASSUME NEW c \in Call, Start(c) \/ ServiceStep(c) \/ CallerCodeStep(c)
      PROVE  Exchange' /\ Tracked'
  BY <1>1, CallDoes, QuietExchange, QuietTracked, AskExchange, AskTracked,
     EndExchange, EndTracked, ContinueExchange, ContinueTracked
<1>2. ASSUME NEW r \in wire, ApplyWrite(r) \/ ApplyRemove(r) \/ ApplyAbort(r)
      PROVE  Exchange' /\ Tracked'
  BY <1>2, ApplyRemoveExchange, ApplyOtherExchange, ApplyRemoveTracked, ApplyOtherTracked
<1>3. CASE Shutdown \/ Tick \/ UNCHANGED vars
  <2>1. UNCHANGED <<cache, object, wire, reply, pc, opt, batch, doubt>>
    BY <1>3 DEF Shutdown, Tick, vars, instance, provider, calls, history
  <2> QED BY <2>1, StillTrusted
<1> QED BY <1>1, <1>2, <1>3 DEF Next

\* There is nothing to account for at boot.
LEMMA InitTrusted == Init => Exchange /\ Tracked
<1> SUFFICES ASSUME Init PROVE Exchange /\ Tracked
  OBVIOUS
<1>1. Cached(cache) = {}
  BY EmptyIsCache DEF Init
<1>2. Exchange
  BY DEF Init, Exchange, ReplyOK, BatchOK, WireOK
<1>3. Tracked
  BY <1>1 DEF Init, Tracked, Relied, Landed
<1> QED BY <1>2, <1>3

\* A call that knows a location deleted is one that asked for it.
LEMMA TrackedIsTrusted ==
    ASSUME TypeInv, Exchange, Tracked PROVE TrustedAnswer
<1> USE DEF TypeInv, TypeOK
<1> SUFFICES ASSUME NEW k \in Cached(cache)
             PROVE  \/ object[EntryLoc(k)] # None \/ EntryLoc(k) \in doubt
                    \/ BeingRemoved(EntryLoc(k))
  BY DEF TrustedAnswer, EntryLoc
<1>1. EntryLoc(k) \in Loc
  BY EntryOfCached DEF EntryLoc, Entry, Result, Loc
<1>2. Accounted(EntryLoc(k))
  BY <1>1 DEF Tracked, Relied
<1>3. ASSUME NEW c \in Call, pc[c] = "removing", EntryLoc(k) \in Told(c)
      PROVE  BeingRemoved(EntryLoc(k))
  <2>1. CASE opt[c].op = "deleteMany"
    <3>1. batch[c].chunk \cup batch[c].deleted \subseteq opt[c].keys
      BY <1>3, <2>1 DEF Exchange, BatchOK
    <3>2. EntryLoc(k) \in Locs(opt[c].bucket, opt[c].keys)
      BY <1>3, <2>1, <3>1 DEF Exchange, ReplyOK, Told, Awaited, Locs
    <3> QED BY <1>3, <2>1, <3>2 DEF BeingRemoved
  <2>2. CASE opt[c].op # "deleteMany"
    <3>1. EntryLoc(k) = LocOf(c)
      BY <1>3, <2>2 DEF Exchange, ReplyOK, Told, Awaited
    <3> QED BY <1>3, <2>2, <3>1 DEF BeingRemoved
  <2> QED BY <2>1, <2>2
<1> QED BY <1>2, <1>3 DEF Accounted, Gone

TrustInv == TypeInv /\ Exchange /\ Tracked

\* What a cached answer is worth, for any number of calls interleaved in any way
\* and any failures: the object it names is stored, or a delete of it is in
\* progress, failed, or met an upload of it half-way. The invalidations of
\* delete() and deleteMany(), each after its answer, leave nothing else behind.
THEOREM AnswersAreTrusted == Spec => []TrustedAnswer
<1>1. TrustInv /\ [Next]_vars => TrustInv'
  BY StepTypes, StepTrusted DEF TrustInv
<1>2. Init => TrustInv
  BY InitTypes, InitTrusted DEF TrustInv
<1>3. TrustInv => TrustedAnswer
  BY TrackedIsTrusted DEF TrustInv
<1> QED BY <1>1, <1>2, <1>3, PTL DEF Spec
-----------------------------------------------------------------------------
(* Streams, verdicts and outcomes of the calls *)

\* A stream is open only before its upload is answered, and destroyed only when
\* it settled; a call has no outcome before it settled; and past a scan that the
\* scanner's mode asks for, an upload has passed it; one that did not pass is at
\* its cleanup, or over.
CallOK(c) ==
    /\ source[c] = "open" =>
         /\ opt[c].op = "upload"
         /\ pc[c] \in {"validate", "buffer", "prescan", "send", "writing", "aborting"}
    /\ source[c] = "destroyed" => pc[c] = "settled"
    /\ pc[c] # "settled" => outcome[c] = Pending
    /\ config.scanner = "pre-upload" /\ opt[c].op = "upload" /\ pc[c] \in {"send", "writing", "record"}
         => verdict[c] = "clean"
    /\ config.scanner = "post-upload" /\ pc[c] = "record" => verdict[c] = "clean"
    /\ verdict[c] \in {"rejected", "threw"} => pc[c] \in {"removing", "settled"}

\* A write is answered only after the stream it sends was read.
ReadOK == \A c \in Call : pc[c] = "writing" /\ reply[c] # {} => source[c] # "open"

CallsOK == (\A c \in Call : CallOK(c)) /\ ReadOK

\* A step of c, which has not settled yet, leaves the other calls alone.
Alone(c) ==
    /\ pc[c] # "settled"
    /\ pc[c] = "idle" \/ opt'[c] = opt[c]
    /\ UNCHANGED config
    /\ \A d \in Call \ {c} :
          /\ pc'[d] = pc[d] /\ opt'[d] = opt[d] /\ source'[d] = source[d]
          /\ verdict'[d] = verdict[d] /\ outcome'[d] = outcome[d]

\* What holds of the others is kept when a call steps alone.
LEMMA AloneOK ==
    ASSUME CallsOK, NEW c \in Call, Alone(c), Others(c), reply'[c] = {}, CallOK(c)'
    PROVE  CallsOK'
<1>1. \A d \in Call : CallOK(d)'
  BY DEF CallsOK, CallOK, Alone
<1>2. ReadOK'
  BY DEF CallsOK, ReadOK, Alone, Others
<1> QED BY <1>1, <1>2 DEF CallsOK

\* The kinds of the outcomes a call settles with.
LEMMA OutcomeKinds ==
    /\ Pending.kind = "none"
    /\ \A kind, detail : Rejection(kind, detail).kind = kind
    /\ \A v, detail : ScanError(v, detail).kind \in {"typed", "plain"}
    /\ \A rs, t : [Pending EXCEPT !.kind = "stored", !.result = rs, !.at = t].kind = "stored"
BY DEF Pending, Rejection, ScanError

\* A call that settles, with its stream released.
LEMMA SettleOK ==
    ASSUME TypeInv, CallsOK, NEW c \in Call, NEW out, Settles(c, out), pc[c] # "settled",
           pc[c] = "idle" \/ UNCHANGED opt,
           \A d \in Call \ {c} : opt'[d] = opt[d],
           source'[c] # "open", \A d \in Call \ {c} : source'[d] = source[d],
           \A d \in Call \ {c} : verdict'[d] = verdict[d],
           UNCHANGED config
    PROVE  Alone(c) /\ CallOK(c)'
BY DEF TypeInv, TypeOK, CallOK, Alone, Settles, Goes

\* The same through the catch block, which releases the stream.
LEMMA RejectOK ==
    ASSUME TypeInv, CallsOK, NEW c \in Call, NEW kind, NEW detail, Rejects(c, kind, detail),
           pc[c] # "settled", UNCHANGED <<opt, verdict, config>>
    PROVE  Alone(c) /\ CallOK(c)'
<1>1. source'[c] # "open" /\ \A d \in Call \ {c} : source'[d] = source[d]
  BY DEF Rejects, DestroyStream, TypeInv, TypeOK, Source
<1>2. \A d \in Call \ {c} : opt'[d] = opt[d] /\ verdict'[d] = verdict[d]
  OBVIOUS
<1>3. Settles(c, Rejection(kind, detail))
  BY DEF Rejects
<1> QED BY <1>1, <1>2, <1>3, SettleOK

\* The first step of a call.
LEMMA StartOK ==
    ASSUME TypeInv, CallsOK, NEW c \in Call, Start(c) PROVE Alone(c) /\ CallOK(c)'
<1> USE DEF TypeInv, TypeOK, Begins
<1>1. ASSUME NEW o \in UploadAsk, UploadRefused(c, o) \/ UploadAnswered(c, o)
      PROVE  Alone(c) /\ CallOK(c)'
  <2>1. PICK out : Settles(c, out)
    BY <1>1 DEF UploadRefused, UploadAnswered
  <2> QED BY <1>1, <2>1, SettleOK DEF UploadRefused, UploadAnswered, instance
<1>2. ASSUME NEW o \in UploadAsk, UploadBegins(c, o) PROVE Alone(c) /\ CallOK(c)'
  BY <1>2, AskTypes DEF UploadBegins, Goes, CallsOK, CallOK, Alone
<1>3. ASSUME NEW o \in DeleteAsk \cup BatchAsk \cup CopyAsk, Refused(c, o) \/ BatchEmpty(c, o)
      PROVE  Alone(c) /\ CallOK(c)'
  <2>1. PICK out : Settles(c, out)
    BY <1>3 DEF Refused, BatchEmpty
  <2>2. source[c] # "open"
    BY <1>3 DEF Refused, BatchEmpty, CallsOK, CallOK
  <2> QED BY <1>3, <2>1, <2>2, SettleOK DEF Refused, BatchEmpty, instance
<1>4. ASSUME NEW o, o.op # "upload", SendDelete(c, o) \/ SendBatch(c, o) \/ SendCopy(c, o)
      PROVE  Alone(c) /\ CallOK(c)'
  <2>1. /\ pc[c] = "idle" /\ opt' = [opt EXCEPT ![c] = o]
        /\ \E s \in {"removing", "writing"} : pc' = [pc EXCEPT ![c] = s]
        /\ UNCHANGED <<config, source, verdict, outcome>>
    BY <1>4 DEF SendDelete, SendBatch, SendCopy, Goes, instance
  <2> QED BY <1>4, <2>1 DEF CallsOK, CallOK, Alone
<1> QED BY <1>1, <1>2, <1>3, <1>4, AskTypes DEF Start

\* The steps that follow the validators, the source and the scanner.
LEMMA CallerCodeOK ==
    ASSUME TypeInv, CallsOK, NEW c \in Call, CallerCodeStep(c) PROVE Alone(c) /\ CallOK(c)'
<1> USE DEF TypeInv, TypeOK
<1>1. CASE Validated(c)
  <2>1. /\ pc[c] = "validate" /\ opt[c].op = "upload"
        /\ \E s \in {"send", "buffer", "prescan"} :
              /\ pc' = [pc EXCEPT ![c] = s]
              /\ s = "send" => config.scanner # "pre-upload"
        /\ UNCHANGED <<config, opt, source, verdict, outcome>>
    BY <1>1 DEF Validated, Goes, StageOK, UploadStage, instance
  <2> QED BY <2>1 DEF CallsOK, CallOK, Alone
<1>2. CASE Buffered(c)
  BY <1>2 DEF Buffered, Goes, CallsOK, CallOK, Alone, instance
<1>3. CASE PreScanPasses(c)
  BY <1>3 DEF PreScanPasses, Goes, CallsOK, CallOK, Alone, instance
<1>4. CASE RejectedBeforeSending(c)
  BY <1>4, RejectOK DEF RejectedBeforeSending, instance
<1>5. CASE PostScanPasses(c)
  BY <1>5 DEF PostScanPasses, Goes, CallsOK, CallOK, Alone, instance
<1>6. CASE SourceRead(c)
  BY <1>6 DEF SourceRead, CallsOK, CallOK, Alone, instance
<1>7. CASE PostScanFails(c)
  <2>1. /\ pc[c] = "postscan" /\ UNCHANGED <<config, opt, source>>
        /\ \A d \in Call \ {c} : verdict'[d] = verdict[d]
        /\ source[c] # "open"
    BY <1>7 DEF PostScanFails, CallsOK, CallOK, instance
  <2>2. CASE client
    <3>1. pc' = [pc EXCEPT ![c] = "removing"] /\ UNCHANGED outcome
      BY <1>7, <2>2 DEF PostScanFails, Goes
    <3> QED BY <2>1, <3>1 DEF CallsOK, CallOK, Alone
  <2>3. CASE ~client
    <3>1. PICK out : Settles(c, out)
      BY <1>7, <2>3 DEF PostScanFails
    <3> QED BY <2>1, <3>1, SettleOK
  <2> QED BY <2>2, <2>3
<1> QED BY <1>1, <1>2, <1>3, <1>4, <1>5, <1>6, <1>7 DEF CallerCodeStep

\* The steps of an upload around its write, and the one that returns.
LEMMA WriteOK ==
    ASSUME TypeInv, CallsOK, NEW c \in Call,
           \/ SendWrite(c) \/ SendWithoutClient(c) \/ WriteAnswered(c) \/ WriteFails(c)
           \/ MultipartAborts(c) \/ MultipartNotCreated(c) \/ MultipartStranded(c)
           \/ AbortAnswered(c) \/ AbortFails(c) \/ RecordResult(c)
    PROVE  Alone(c) /\ CallOK(c)'
<1> USE DEF TypeInv, TypeOK
<1>1. CASE SendWrite(c)
  <2>1. opt[c].op = "upload"
    BY <1>1 DEF SendWrite, StageOK, UploadStage
  <2> QED BY <1>1, <2>1 DEF SendWrite, Goes, CallsOK, CallOK, Alone, instance
<1>2. CASE WriteAnswered(c)
  <2>1. /\ pc[c] = "writing" /\ opt[c].op = "upload" /\ UNCHANGED <<config, opt, verdict, outcome>>
        /\ \E s \in {"postscan", "record"} :
              pc' = [pc EXCEPT ![c] = s] /\ (s = "record" => config.scanner # "post-upload")
    BY <1>2 DEF WriteAnswered, StageAfterWrite, Goes, instance
  <2>2. source[c] # "open" /\ UNCHANGED source
    BY <1>2, <2>1 DEF WriteAnswered, Answered, CallsOK, ReadOK
  <2> QED BY <2>1, <2>2 DEF CallsOK, CallOK, Alone
<1>3. CASE MultipartAborts(c)
  BY <1>3 DEF MultipartAborts, Goes, CallsOK, CallOK, Alone, instance
<1>4. CASE RecordResult(c)
  <2>1. PICK out : Settles(c, out)
    BY <1>4 DEF RecordResult
  <2>2. source[c] # "open"
    BY <1>4 DEF RecordResult, CallsOK, CallOK
  <2> QED BY <1>4, <2>1, <2>2, SettleOK DEF RecordResult
<1>5. CASE \/ SendWithoutClient(c) \/ WriteFails(c) \/ MultipartNotCreated(c) \/ MultipartStranded(c)
           \/ AbortAnswered(c) \/ AbortFails(c)
  <2>1. PICK kind, detail : Rejects(c, kind, detail)
    BY <1>5 DEF SendWithoutClient, WriteFails, MultipartNotCreated, MultipartStranded,
                AbortAnswered, AbortFails
  <2>2. pc[c] # "settled" /\ UNCHANGED <<opt, verdict, config>>
    BY <1>5 DEF SendWithoutClient, WriteFails, MultipartNotCreated, MultipartStranded,
                AbortAnswered, AbortFails, instance
  <2> QED BY <2>1, <2>2, RejectOK
<1> QED BY <1>1, <1>2, <1>3, <1>4, <1>5

\* The steps of deletes, cleanups, batches and copies.
LEMMA OtherServiceOK ==
    ASSUME TypeInv, CallsOK, NEW c \in Call,
           \/ RemoveAnswered(c) \/ RemoveFails(c) \/ ChunkAnswered(c) \/ ChunkFails(c)
           \/ CopyAnswered(c) \/ CopyFails(c)
    PROVE  Alone(c) /\ CallOK(c)'
<1> USE DEF TypeInv, TypeOK
<1>1. source[c] # "open" /\ pc[c] \in {"removing", "writing"} /\ UNCHANGED <<opt, verdict>>
  BY DEF RemoveAnswered, RemoveFails, ChunkAnswered, ChunkFails, CopyAnswered, CopyFails,
         CallsOK, CallOK
<1>2. CASE RemoveAnswered(c) \/ RemoveFails(c) \/ CopyAnswered(c) \/ CopyFails(c)
  <2>1. PICK out : Settles(c, out)
    BY <1>2 DEF RemoveAnswered, RemoveFails, CopyAnswered, CopyFails
  <2>2. UNCHANGED <<config, source>>
    BY <1>2 DEF RemoveAnswered, RemoveFails, CopyAnswered, CopyFails, instance
  <2> QED BY <1>1, <2>1, <2>2, SettleOK
<1>3. ASSUME NEW b, NEW unsure, AfterChunk(c, b, unsure), pc[c] = "removing"
      PROVE  Alone(c) /\ CallOK(c)'
  <2>1. CASE UNCHANGED <<instance, pc, source, outcome, withdrawn>>
    BY <1>1, <2>1 DEF CallsOK, CallOK, Alone, instance
  <2>2. CASE Rejects(c, "plain", "") /\ UNCHANGED instance
    BY <1>1, <2>2, RejectOK DEF instance
  <2>3. CASE Settles(c, [Pending EXCEPT !.kind = "ok"]) /\ UNCHANGED <<config, source>>
    BY <1>1, <2>3, SettleOK
  <2> QED BY <1>3, <2>1, <2>2, <2>3 DEF AfterChunk
<1>4. CASE ChunkAnswered(c) \/ ChunkFails(c)
  BY <1>3, <1>4 DEF ChunkAnswered, ChunkFails
<1> QED BY <1>2, <1>4

\* Every step keeps streams, verdicts and outcomes in order.
LEMMA StepCallsOK ==
    ASSUME TypeInv, Exchange, CallsOK, [Next]_vars PROVE CallsOK'
<1>1. ASSUME NEW c \in Call, Start(c) \/ ServiceStep(c) \/ CallerCodeStep(c)
      PROVE  Alone(c) /\ CallOK(c)' /\ Others(c) /\ reply'[c] = {}
  <2>1. Alone(c) /\ CallOK(c)'
    BY <1>1, StartOK, CallerCodeOK, WriteOK, OtherServiceOK DEF ServiceStep
  <2>2. Others(c) /\ reply'[c] = {}
    BY <1>1, CallDoes DEF Quiet, Asks, Ends, Continues
  <2> QED BY <2>1, <2>2
<1>2. CASE \E c \in Call : Start(c) \/ ServiceStep(c) \/ CallerCodeStep(c)
  BY <1>1, <1>2, AloneOK
<1>3. ASSUME UNCHANGED <<config, pc, opt, source, verdict, outcome>>
      PROVE  \A c \in Call : CallOK(c)'
  BY <1>3 DEF CallsOK, CallOK
<1>4. ASSUME NEW r \in wire, ApplyWrite(r) \/ ApplyRemove(r) \/ ApplyAbort(r) PROVE CallsOK'
  <2>1. r.by \in Call /\ UNCHANGED <<config, pc, opt, source, verdict, outcome>>
    BY <1>4 DEF ApplyWrite, ApplyRemove, ApplyAbort, instance, calls, TypeInv, TypeOK, Request
  <2>2. CASE ApplyWrite(r)
    <3>1. source[r.by] # "open" /\ \A d \in Call \ {r.by} : reply'[d] = reply[d]
      BY <2>2 DEF ApplyWrite, Replies
    <3>2. ReadOK'
      BY <2>1, <3>1 DEF CallsOK, ReadOK
    <3> QED BY <1>3, <2>1, <3>2 DEF CallsOK
  <2>3. CASE ApplyRemove(r) \/ ApplyAbort(r)
    <3>1. /\ r.op \in {"remove", "abort"}
          /\ \E did : Replies(r, did)
      BY <2>3 DEF ApplyRemove, ApplyAbort
    <3>2. Awaits(r) => pc[r.by] # "writing"
      BY <3>1 DEF Awaits, AwaitOf
    <3>3. \A d \in Call : pc[d] = "writing" => reply'[d] = reply[d]
      BY <3>1, <3>2 DEF Replies
    <3>4. ReadOK'
      BY <2>1, <3>3 DEF CallsOK, ReadOK
    <3> QED BY <1>3, <2>1, <3>4 DEF CallsOK
  <2> QED BY <1>4, <2>2, <2>3
<1>5. CASE Shutdown \/ Tick \/ UNCHANGED vars
  <2>1. UNCHANGED <<config, pc, opt, source, verdict, outcome, reply>>
    BY <1>5 DEF Shutdown, Tick, vars, instance, provider, calls
  <2>2. ReadOK'
    BY <2>1 DEF CallsOK, ReadOK
  <2> QED BY <1>3, <2>1, <2>2 DEF CallsOK
<1> QED BY <1>2, <1>4, <1>5 DEF Next

\* Nothing is open and nothing decided before the first call.
LEMMA InitCallsOK == Init => CallsOK
<1> SUFFICES ASSUME Init, NEW c \in Call PROVE CallOK(c) /\ reply[c] = {}
  BY DEF CallsOK, ReadOK
<1>1. /\ pc[c] = "idle" /\ source[c] = "none" /\ outcome[c] = Pending /\ verdict[c] = "none"
      /\ reply[c] = {}
  BY DEF Init
<1> QED BY <1>1 DEF CallOK

\* The library owns a stream body: whatever fails and whatever runs meanwhile, a
\* call that settled has consumed or destroyed it, and destroys it under no call
\* that goes on.
THEOREM SourcesAreReleased == Spec => []SourceReleased
<1>1. TrustInv /\ CallsOK /\ [Next]_vars => (TrustInv /\ CallsOK)'
  BY StepTypes, StepTrusted, StepCallsOK DEF TrustInv
<1>2. Init => TrustInv /\ CallsOK
  BY InitTypes, InitTrusted, InitCallsOK DEF TrustInv
<1>3. CallsOK => SourceReleased
  BY DEF CallsOK, CallOK, SourceReleased
<1> QED BY <1>1, <1>2, <1>3, PTL DEF Spec

\* An entry is recorded by an accepted upload, and what was accepted stays so.
LEMMA StepAccepted ==
    ASSUME TypeInv, Exchange, CallsOK, CachedWasAccepted, [Next]_vars PROVE CachedWasAccepted'
<1> USE DEF TypeInv, TypeOK
<1>1. \A k \in Cached(cache) : cache.entries[k].result.upload \in Call
  BY EntryOfCached DEF Entry, Result, Call
<1>2. ASSUME NEW c \in Call, Start(c) \/ ServiceStep(c) \/ CallerCodeStep(c)
      PROVE  CachedWasAccepted'
  <2>1. Alone(c) /\ CallOK(c)
    BY <1>2, StartOK, CallerCodeOK, WriteOK, OtherServiceOK DEF ServiceStep, CallsOK
  <2>2. CacheGrows(c)
    BY <1>2, CallDoes DEF Asks, Ends, CacheShrinks, Continues, CacheGrows
  <2> SUFFICES ASSUME NEW k \in Cached(cache'), NEW u, u = cache'.entries[k].result.upload
               PROVE  /\ outcome'[u].kind = "stored"
                      /\ config'.scanner # "off" => verdict'[u] = "clean"
                      /\ k = ComputeKey(opt'[u].idem, opt'[u].key)
    BY DEF CachedWasAccepted
  <2>3. CASE k \in Cached(cache) /\ cache'.entries[k] = cache.entries[k]
    <3>1. /\ u \in Call /\ outcome[u].kind = "stored"
          /\ config.scanner # "off" => verdict[u] = "clean"
          /\ k = ComputeKey(opt[u].idem, opt[u].key)
      BY <1>1, <2>3 DEF CachedWasAccepted
    <3>2. u # c
      BY <2>1, <3>1, OutcomeKinds DEF Alone, CallOK
    <3> QED BY <2>1, <3>1, <3>2 DEF Alone
  <2>4. CASE /\ RecordResult(c) /\ k = ComputeKey(opt[c].idem, opt[c].key)
             /\ cache'.entries[k].result = ResultOf(c)
    <3>1. u = c /\ pc[c] = "record" /\ opt[c].op = "upload" /\ UNCHANGED <<config, opt, verdict>>
      BY <2>4 DEF ResultOf, RecordResult, StageOK, UploadStage
    <3>2. outcome'[c].kind = "stored"
      BY <2>4, OutcomeKinds DEF RecordResult, Settles
    <3>3. config.scanner # "off" => verdict[c] = "clean"
      BY <2>1, <3>1, ServiceAssumption DEF CallOK, Config
    <3> QED BY <2>4, <3>1, <3>2, <3>3
  <2> QED BY <2>2, <2>3, <2>4 DEF CacheGrows
<1>3. ASSUME UNCHANGED <<config, cache, opt, verdict, outcome>> PROVE CachedWasAccepted'
  BY <1>3 DEF CachedWasAccepted
<1>4. CASE \E r \in wire : ApplyWrite(r) \/ ApplyRemove(r) \/ ApplyAbort(r)
  BY <1>3, <1>4 DEF ApplyWrite, ApplyRemove, ApplyAbort, instance, calls
<1>5. CASE Shutdown \/ Tick \/ UNCHANGED vars
  BY <1>3, <1>5 DEF Shutdown, Tick, vars, instance, calls
<1> QED BY <1>2, <1>4, <1>5 DEF Next

\* Only an upload that was accepted to the end is ever an answer, under its own
\* key: it returned its result and, where a scanner is configured, passed it.
THEOREM AnswersWereAccepted == Spec => []CachedWasAccepted
<1>1. TrustInv /\ CallsOK /\ CachedWasAccepted /\ [Next]_vars
        => (TrustInv /\ CallsOK /\ CachedWasAccepted)'
  BY StepTypes, StepTrusted, StepCallsOK, StepAccepted DEF TrustInv
<1>2. Init => TrustInv /\ CallsOK /\ CachedWasAccepted
  BY InitTypes, InitTrusted, InitCallsOK, EmptyIsCache DEF Init, CachedWasAccepted, TrustInv
<1> QED BY <1>1, <1>2, PTL DEF Spec
-----------------------------------------------------------------------------
(* Writes that can still take effect *)

\* The provider has answered the write of c, or closed it for good.
Past(c) ==
    \/ pc[c] \in {"writing", "aborting"} /\ reply[c] # {}
    \/ pc[c] \in {"postscan", "record", "removing"}
    \/ pc[c] = "settled" /\ (outcome[c].detail = "abort completed" \/ verdict[c] = "rejected")

\* A write on the wire is one whose caller is not past it.
WritesOK == \A r \in wire : r.op = "write" => ~Past(r.by)

\* The details of the outcomes a call settles with.
LEMMA Details ==
    /\ Pending.detail = ""
    /\ \A kind, detail : Rejection(kind, detail).detail = detail
    /\ \A v, detail : ScanError(v, detail).detail = IF v = "rejected" THEN detail ELSE ""
BY DEF Pending, Rejection, ScanError

\* A call is past its write only by an answer.
LEMMA PastByAnswer ==
    ASSUME TypeInv, ReplyOK, CallsOK, NEW c \in Call,
           Start(c) \/ ServiceStep(c) \/ CallerCodeStep(c), Past(c)'
    PROVE  Past(c) \/ pc[c] = "idle"
<1> USE DEF TypeInv, TypeOK
<1>1. CASE Start(c)
  BY <1>1 DEF Start, UploadRefused, UploadAnswered, UploadBegins, Refused, SendDelete,
              BatchEmpty, SendBatch, SendCopy, Begins
<1>2. ASSUME NEW kind, NEW detail \in {"", "abort failed"}, Rejects(c, kind, detail),
             pc[c] \notin {"removing", "settled"}, UNCHANGED verdict
      PROVE  ~Past(c)'
  <2>1. pc'[c] = "settled" /\ outcome'[c] = Rejection(kind, detail)
    BY <1>2 DEF Rejects, Settles, Goes
  <2>2. outcome'[c].detail # "abort completed"
    BY <2>1 DEF Rejection, Pending
  <2>3. verdict'[c] # "rejected"
    BY <1>2 DEF CallsOK, CallOK
  <2> QED BY <2>1, <2>2, <2>3 DEF Past
<1>3. CASE CallerCodeStep(c)
  <2>1. CASE Validated(c) \/ Buffered(c) \/ PreScanPasses(c) \/ SourceRead(c)
    BY <2>1 DEF Validated, Buffered, PreScanPasses, SourceRead, Goes, Past, provider
  <2>2. CASE RejectedBeforeSending(c)
    BY <1>2, <2>2 DEF RejectedBeforeSending
  <2>3. CASE PostScanPasses(c) \/ PostScanFails(c)
    BY <2>3 DEF PostScanPasses, PostScanFails, Past
  <2> QED BY <1>3, <2>1, <2>2, <2>3 DEF CallerCodeStep
<1>4. CASE SendWrite(c)
  BY <1>4, NoAnswerYet DEF SendWrite, Goes, Past
<1>5. CASE \/ SendWithoutClient(c) \/ WriteFails(c) \/ MultipartNotCreated(c)
           \/ MultipartStranded(c) \/ AbortFails(c)
  BY <1>2, <1>5 DEF SendWithoutClient, WriteFails, MultipartNotCreated, MultipartStranded,
                    AbortFails
<1>6. CASE MultipartAborts(c)
  BY <1>6 DEF MultipartAborts, Goes, Unanswered, Past
<1>7. CASE WriteAnswered(c) \/ AbortAnswered(c) \/ RecordResult(c) \/ CopyAnswered(c)
  BY <1>7 DEF WriteAnswered, AbortAnswered, RecordResult, CopyAnswered, Answered, Past
<1>8. CASE RemoveAnswered(c) \/ RemoveFails(c) \/ ChunkAnswered(c) \/ ChunkFails(c)
  BY <1>8 DEF RemoveAnswered, RemoveFails, ChunkAnswered, ChunkFails, Past
<1>9. CASE CopyFails(c)
  <2>1. pc[c] = "writing" /\ pc'[c] = "settled" /\ outcome'[c] = Rejection("typed", "")
    BY <1>9 DEF CopyFails, Settles, Goes
  <2>2. outcome'[c].detail # "abort completed"
    BY <2>1 DEF Rejection, Pending
  <2>3. verdict'[c] # "rejected"
    BY <1>9, <2>1 DEF CopyFails, CallsOK, CallOK
  <2> QED BY <2>1, <2>2, <2>3 DEF Past
<1> QED BY <1>1, <1>3, <1>4, <1>5, <1>6, <1>7, <1>8, <1>9 DEF ServiceStep

\* The calls that send a write have no answer to it yet.
LEMMA WriteSent ==
    ASSUME TypeInv, Exchange, NEW c \in Call, Start(c) \/ ServiceStep(c) \/ CallerCodeStep(c),
           NEW r \in wire' \ wire, r.op = "write"
    PROVE  r.by = c /\ ~Past(c)'
<1> USE DEF TypeInv, TypeOK, Exchange
<1>1. Quiet(c) /\ r = WriteOf(c, LocOf(c)')
  BY CallDoes DEF Quiet, Asks, Ends, Continues, RemoveOf, AbortOf
<1>2. r.by = c
  BY <1>1 DEF WriteOf
<1>3. CASE SendWrite(c)
  BY <1>1, <1>2, <1>3 DEF SendWrite, Goes, Past, Quiet
<1>4. CASE \E o \in CopyAsk : SendCopy(c, o)
  BY <1>1, <1>2, <1>4 DEF SendCopy, Goes, Past, Quiet
<1>5. CASE ~SendWrite(c) /\ ~\E o \in CopyAsk : SendCopy(c, o)
  <2>1. CASE wire' \subseteq wire \cup {AbortOf(c)}
    BY <1>1, <2>1 DEF AbortOf, WriteOf
  <2>2. CASE \E ls : wire' = wire \cup {RemoveOf(c, ls)}
    BY <1>1, <2>2 DEF RemoveOf, WriteOf
  <2>3. ASSUME NEW bucket, NEW b, SendChunk(c, bucket, b) PROVE \E ls : wire' = wire \cup {RemoveOf(c, ls)}
    BY <2>3 DEF SendChunk, Sends
  <2>4. CASE Start(c)
    BY <1>5, <2>1, <2>2, <2>3, <2>4 DEF Start, UploadRefused, UploadAnswered, UploadBegins, Refused,
              SendDelete, BatchEmpty, SendBatch, Sends, provider
  <2>5. CASE CallerCodeStep(c)
    BY <2>1, <2>2, <2>5 DEF CallerCodeStep, Validated, Buffered, SourceRead, PreScanPasses,
              RejectedBeforeSending, PostScanPasses, PostScanFails, Sends, provider
  <2>6. ASSUME NEW b, NEW unsure, AfterChunk(c, b, unsure)
        PROVE  wire' = wire \/ \E ls : wire' = wire \cup {RemoveOf(c, ls)}
    BY <2>3, <2>6 DEF AfterChunk
  <2>7. CASE ChunkAnswered(c) \/ ChunkFails(c)
    BY <2>1, <2>2, <2>6, <2>7 DEF ChunkAnswered, ChunkFails
  <2>8. CASE ServiceStep(c) /\ ~(ChunkAnswered(c) \/ ChunkFails(c))
    BY <1>5, <2>1, <2>8 DEF ServiceStep, SendWithoutClient, WriteAnswered, WriteFails,
              MultipartAborts, MultipartNotCreated, MultipartStranded, AbortAnswered, AbortFails,
              RecordResult, RemoveAnswered, RemoveFails, CopyAnswered, CopyFails, provider
  <2> QED BY <2>4, <2>5, <2>7, <2>8
<1> QED BY <1>3, <1>4, <1>5

\* A step of one call does not take another past its write.
LEMMA OtherPast ==
    ASSUME NEW c \in Call, Alone(c), Others(c), NEW d \in Call \ {c}
    PROVE  Past(d)' = Past(d)
BY DEF Alone, Others, Past

\* What a step of one call leaves alone.
LEMMA CallFrames ==
    ASSUME TypeInv, Exchange, CallsOK, NEW c \in Call,
           Start(c) \/ ServiceStep(c) \/ CallerCodeStep(c)
    PROVE  /\ Alone(c) /\ Others(c) /\ CacheGrows(c) /\ UNCHANGED object
           /\ pc'[c] # "idle" /\ reply'[c] = {}
           /\ CallOK(c) /\ CallOK(c)'
<1>1. Alone(c) /\ CallOK(c) /\ CallOK(c)'
  BY StartOK, CallerCodeOK, WriteOK, OtherServiceOK DEF ServiceStep, CallsOK
<1>2. Others(c) /\ UNCHANGED object /\ CacheGrows(c) /\ pc'[c] # "idle" /\ reply'[c] = {}
  BY CallDoes DEF Quiet, Asks, Ends, CacheShrinks, Continues, CacheGrows
<1> QED BY <1>1, <1>2

\* No step leaves the write of a call that is past it on the wire.
LEMMA StepWritesOK ==
    ASSUME TypeInv, Exchange, CallsOK, WritesOK, [Next]_vars PROVE WritesOK'
<1> USE DEF TypeInv, TypeOK
<1>1. \A r \in wire : r.by \in Call
  BY DEF Request
<1>2. ASSUME NEW c \in Call, Start(c) \/ ServiceStep(c) \/ CallerCodeStep(c) PROVE WritesOK'
  <2> SUFFICES ASSUME NEW r \in wire', r.op = "write" PROVE ~Past(r.by)'
    BY DEF WritesOK
  <2>1. CASE r \notin wire
    <3>1. r.by = c /\ ~Past(c)'
      BY <1>2, <2>1, WriteSent
    <3> QED BY <3>1
  <2>2. CASE r \in wire /\ r.by = c
    <3>1. ~Past(c) /\ pc[c] # "idle"
      BY <2>2 DEF WritesOK, Exchange, WireOK, RequestOK
    <3>2. ~Past(c)'
      BY <1>2, <3>1, PastByAnswer DEF Exchange
    <3> QED BY <2>2, <3>2
  <2>3. ASSUME r \in wire, NEW d \in Call \ {c}, d = r.by PROVE ~Past(d)'
    <3>1. ~Past(d)
      BY <2>3 DEF WritesOK
    <3> QED BY <1>2, <3>1, OtherPast, CallFrames
  <2>4. CASE r \in wire /\ r.by # c
    <3>1. PICK d \in Call \ {c} : d = r.by
      BY <1>1, <2>4
    <3>2. ~Past(d)'
      BY <2>3, <2>4, <3>1
    <3> QED BY <3>1, <3>2
  <2> QED BY <2>1, <2>2, <2>4
<1>3. ASSUME NEW q \in wire, ApplyWrite(q) \/ ApplyRemove(q) \/ ApplyAbort(q) PROVE WritesOK'
  <2>1. /\ UNCHANGED <<pc, opt, verdict, outcome>> /\ wire' \subseteq wire \ {q}
        /\ \E did : Replies(q, did)
    BY <1>3 DEF ApplyWrite, ApplyRemove, ApplyAbort, calls
  <2> SUFFICES ASSUME NEW r \in wire', r.op = "write" PROVE ~Past(r.by)'
    BY DEF WritesOK
  <2>2. r \in wire /\ r # q /\ ~Past(r.by) /\ r.by \in Call
    BY <1>1, <2>1 DEF WritesOK
  <2>3. CASE reply'[r.by] = reply[r.by]
    BY <2>1, <2>2, <2>3 DEF Past
  <2>4. CASE reply'[r.by] # reply[r.by]
    <3>1. r.by = q.by /\ Awaits(q)
      BY <2>1, <2>2, <2>4 DEF Replies
    <3>2. CASE q.op = "write"
      <4>1. r = q
        <5>1. r.at = {LocOf(r.by)} /\ q.at = {LocOf(q.by)} /\ r \in Request /\ q \in Request
          BY <2>2, <3>2 DEF Exchange, WireOK, RequestOK
        <5>2. r.by = q.by /\ r.op = q.op /\ r.at = q.at
          BY <3>1, <3>2, <5>1
        <5>3. \A x \in Request : x = [by |-> x.by, op |-> x.op, at |-> x.at]
          BY DEF Request
        <5>4. r = [by |-> r.by, op |-> r.op, at |-> r.at] /\ q = [by |-> q.by, op |-> q.op, at |-> q.at]
          BY <5>1, <5>3
        <5> QED BY <5>2, <5>4
      <4> QED BY <2>2, <4>1
    <3>3. CASE q.op = "remove"
      <4>1. pc[q.by] = "removing"
        BY <3>1, <3>3 DEF Awaits, AwaitOf
      <4> QED BY <2>2, <3>1, <4>1 DEF Past
    <3>4. CASE q.op = "abort"
      <4>1. r \in wire \ {q, WriteOf(q.by, LocOf(q.by))}
        BY <1>3, <3>4 DEF ApplyWrite, ApplyRemove, ApplyAbort
      <4>2. r = WriteOf(q.by, LocOf(q.by))
        BY <2>2, <3>1 DEF Exchange, WireOK, RequestOK, Request, WriteOf
      <4> QED BY <4>1, <4>2
    <3> QED BY <3>2, <3>3, <3>4 DEF Request
  <2> QED BY <2>3, <2>4
<1>4. CASE Shutdown \/ Tick \/ UNCHANGED vars
  <2>1. UNCHANGED <<wire, pc, reply, outcome, verdict>>
    BY <1>4 DEF Shutdown, Tick, vars, provider, calls
  <2> QED BY <2>1 DEF WritesOK, Past
<1> QED BY <1>2, <1>3, <1>4 DEF Next

CallInv == TrustInv /\ CallsOK /\ WritesOK

\* The invariant of this module holds at boot,
LEMMA InitCallInv == Init => CallInv
<1>1. Init => WritesOK
  BY DEF Init, WritesOK
<1> QED BY <1>1, InitTypes, InitTrusted, InitCallsOK DEF CallInv, TrustInv

\* and every step keeps it.
LEMMA StepCallInv == ASSUME CallInv, [Next]_vars PROVE CallInv'
BY StepTypes, StepTrusted, StepCallsOK, StepWritesOK DEF CallInv, TrustInv

\* A multipart upload reported as aborted is over: whatever was lost or delayed,
\* no request of it is left that could make its object appear.
THEOREM AbortsAreFinal == Spec => []AbortedIsFinal
<1>1. ASSUME CallInv PROVE AbortedIsFinal
  <2> SUFFICES ASSUME NEW c \in Call, outcome[c].detail = "abort completed",
                      WriteOf(c, LocOf(c)) \in wire
               PROVE  FALSE
    BY DEF AbortedIsFinal
  <2>1. pc[c] = "settled"
    BY <1>1, Details DEF CallInv, CallsOK, CallOK
  <2>2. Past(c)
    BY <2>1 DEF Past
  <2> QED BY <1>1, <2>2 DEF CallInv, WritesOK, WriteOf
<1> QED BY <1>1, InitCallInv, StepCallInv, PTL DEF Spec
-----------------------------------------------------------------------------
(* What a rejected upload leaves behind *)

\* An object is where its call was asked to put it.
ObjectsOK ==
    \A l \in Loc, c \in Call : object[l] = c => pc[c] # "idle" /\ LocOf(c) = l

\* The provider has removed what the upload c had stored: c waits to be told so,
\* or was told and rejected with its verdict alone.
Erased(c) ==
    /\ opt[c].op = "upload"
    /\ \/ pc[c] = "removing" /\ reply[c] # {}
       \/ pc[c] = "settled" /\ verdict[c] = "rejected" /\ outcome[c].detail = ""

ErasedOK == \A c \in Call : Erased(c) => \A l \in Loc : object[l] # c

\* A verdict without a cleanup detail is given after an answer to the cleanup.
LEMMA ErasedByAnswer ==
    ASSUME CallInv, NEW c \in Call, Start(c) \/ ServiceStep(c) \/ CallerCodeStep(c), Erased(c)'
    PROVE  Erased(c)
<1> USE DEF CallInv, TrustInv, TypeInv, TypeOK
<1>1. /\ Alone(c) /\ CallOK(c) /\ reply'[c] = {}
      /\ pc'[c] = "settled" /\ verdict'[c] = "rejected" /\ outcome'[c].detail = ""
  <2>1. Alone(c) /\ CallOK(c) /\ reply'[c] = {}
    BY CallFrames
  <2> QED BY <2>1 DEF Erased
<1>2. ~PostScanFails(c)
  <2> SUFFICES ASSUME PostScanFails(c) PROVE FALSE
    OBVIOUS
  <2>1. PICK v : /\ verdict' = [verdict EXCEPT ![c] = v]
                 /\ \/ Goes(c, "removing")
                    \/ Settles(c, ScanError(v, "cleanup failed"))
    BY DEF PostScanFails
  <2>2. v = "rejected"
    BY <1>1, <2>1
  <2>3. outcome'[c] = ScanError("rejected", "cleanup failed")
    BY <1>1, <2>1, <2>2 DEF Goes, Settles
  <2> QED BY <1>1, <2>3 DEF ScanError, Rejection, Pending
<1>3. verdict[c] = "rejected"
  BY <1>1, <1>2 DEF Start, ServiceStep, CallerCodeStep, UploadRefused, UploadAnswered, UploadBegins,
        Refused, SendDelete, BatchEmpty, SendBatch, SendCopy, Validated, Buffered, SourceRead, PreScanPasses,
        RejectedBeforeSending, PostScanPasses, SendWrite, SendWithoutClient, WriteAnswered,
        WriteFails, MultipartAborts, MultipartNotCreated, MultipartStranded, AbortAnswered,
        AbortFails, RecordResult, RemoveAnswered, RemoveFails, ChunkAnswered, ChunkFails,
        CopyAnswered, CopyFails
<1>4. pc[c] = "removing" /\ opt'[c] = opt[c]
  BY <1>1, <1>3 DEF Alone, CallOK
<1>5. opt[c].op = "upload"
  BY <1>4 DEF Erased
<1>6. RemoveAnswered(c) \/ RemoveFails(c)
  BY <1>4, <1>5 DEF Start, ServiceStep, CallerCodeStep, UploadRefused, UploadAnswered, UploadBegins,
        Refused, SendDelete, BatchEmpty, SendBatch, SendCopy, Begins, Validated, Buffered, SourceRead,
        PreScanPasses, RejectedBeforeSending, PostScanPasses, PostScanFails, SendWrite,
        SendWithoutClient, WriteAnswered, WriteFails, MultipartAborts, MultipartNotCreated,
        MultipartStranded, AbortAnswered, AbortFails, RecordResult, ChunkAnswered, ChunkFails,
        CopyAnswered, CopyFails
<1>7. ~RemoveFails(c)
  <2> SUFFICES ASSUME RemoveFails(c) PROVE FALSE
    OBVIOUS
  <2>1. outcome'[c] = ScanError("rejected", "cleanup failed")
    BY <1>3, <1>5 DEF RemoveFails, Settles
  <2> QED BY <1>1, <2>1 DEF ScanError, Rejection, Pending
<1> QED BY <1>4, <1>5, <1>6, <1>7 DEF RemoveAnswered, Answered, Erased

\* What was removed stays removed: only its own write could bring it back.
LEMMA StepErasedOK ==
    ASSUME CallInv, ObjectsOK, ErasedOK, [Next]_vars PROVE ObjectsOK' /\ ErasedOK'
<1> USE DEF CallInv, TrustInv, TypeInv, TypeOK
<1>1. ASSUME NEW c \in Call, Start(c) \/ ServiceStep(c) \/ CallerCodeStep(c)
      PROVE  ObjectsOK' /\ ErasedOK'
  <2>1. Alone(c) /\ Others(c) /\ UNCHANGED object /\ pc'[c] # "idle"
    BY <1>1, CallFrames
  <2>2. \A d \in Call : pc[d] # "idle" => pc'[d] # "idle" /\ LocOf(d)' = LocOf(d)
    BY <2>1 DEF Alone, LocOf
  <2>3. ObjectsOK'
    BY <2>1, <2>2 DEF ObjectsOK
  <2>4. ASSUME NEW d \in Call, Erased(d)' PROVE Erased(d)
    <3>1. CASE d = c
      BY <1>1, <2>4, <3>1, ErasedByAnswer
    <3>2. CASE d # c
      BY <2>1, <2>4, <3>2 DEF Alone, Others, Erased
    <3> QED BY <3>1, <3>2
  <2>5. ErasedOK'
    BY <2>1, <2>4 DEF ErasedOK
  <2> QED BY <2>3, <2>5
<1>2. ASSUME NEW r \in wire, ApplyWrite(r) PROVE ObjectsOK' /\ ErasedOK'
  <2>1. /\ r.by \in Call /\ r.op = "write" /\ UNCHANGED <<pc, opt, verdict, outcome>>
        /\ object' = [l \in Loc |-> IF l \in r.at THEN r.by ELSE object[l]]
        /\ \A d \in Call : pc[d] = "removing" => reply'[d] = reply[d]
    BY <1>2 DEF ApplyWrite, Request, calls, Replies, Awaits, AwaitOf
  <2>2. pc[r.by] # "idle" /\ r.at = {LocOf(r.by)} /\ ~Past(r.by)
    BY <2>1 DEF Exchange, WireOK, RequestOK, WritesOK
  <2>3. ObjectsOK'
    BY <2>1, <2>2 DEF ObjectsOK, LocOf
  <2>4. \A d \in Call : Erased(d)' => Erased(d) /\ d # r.by
    BY <2>1, <2>2 DEF Erased, Past
  <2>5. ErasedOK'
    BY <2>1, <2>4 DEF ErasedOK
  <2> QED BY <2>3, <2>5
<1>3. ASSUME NEW r \in wire, ApplyRemove(r) PROVE ObjectsOK' /\ ErasedOK'
  <2>1. /\ r.by \in Call /\ r.op = "remove" /\ UNCHANGED <<pc, opt, verdict, outcome>>
    BY <1>3 DEF ApplyRemove, Request, calls
  <2>2. PICK did \in SUBSET r.at :
          /\ opt[r.by].op # "deleteMany" => did = r.at
          /\ object' = [l \in Loc |-> IF l \in did THEN None ELSE object[l]]
          /\ Replies(r, did)
    BY <1>3 DEF ApplyRemove
  <2>3. ObjectsOK'
    BY <2>1, <2>2, ServiceAssumption DEF ObjectsOK, LocOf
  <2>4. ASSUME NEW d \in Call, Erased(d)' PROVE \A l \in Loc : object'[l] # d
    <3>1. CASE Erased(d)
      BY <2>2, <3>1, ServiceAssumption DEF ErasedOK
    <3>2. CASE ~Erased(d)
      <4>1. d = r.by /\ opt[d].op = "upload" /\ pc[d] = "removing"
        BY <2>1, <2>2, <2>4, <3>2 DEF Erased, Replies
      <4>2. did = {LocOf(d)}
        BY <2>1, <2>2, <4>1 DEF Exchange, WireOK, RequestOK
      <4> QED BY <2>2, <4>2, ServiceAssumption DEF ObjectsOK
    <3> QED BY <3>1, <3>2
  <2> QED BY <2>3, <2>4 DEF ErasedOK
<1>4. ASSUME NEW r \in wire, ApplyAbort(r) PROVE ObjectsOK' /\ ErasedOK'
  <2>1. /\ UNCHANGED <<object, pc, opt, verdict, outcome>>
        /\ \A d \in Call : pc[d] = "removing" => reply'[d] = reply[d]
    BY <1>4 DEF ApplyAbort, Request, calls, Replies, Awaits, AwaitOf
  <2> QED BY <2>1 DEF ObjectsOK, ErasedOK, Erased, LocOf
<1>5. CASE Shutdown \/ Tick \/ UNCHANGED vars
  <2>1. UNCHANGED <<object, pc, opt, reply, outcome, verdict>>
    BY <1>5 DEF Shutdown, Tick, vars, provider, calls
  <2> QED BY <2>1 DEF ObjectsOK, ErasedOK, Erased, LocOf
<1> QED BY <1>1, <1>2, <1>3, <1>4, <1>5 DEF Next

\* An upload that rejects with a scan verdict and no cleanup detail left nothing
\* behind: its bytes are nowhere at the provider, and nothing on its way can put
\* them back.
THEOREM RemovedIsRemoved == Spec => []RemovedMeansRemoved
<1>1. CallInv /\ ObjectsOK /\ ErasedOK /\ [Next]_vars => (CallInv /\ ObjectsOK /\ ErasedOK)'
  BY StepCallInv, StepErasedOK
<1>2. Init => CallInv /\ ObjectsOK /\ ErasedOK
  BY InitCallInv, ServiceAssumption DEF Init, ObjectsOK, ErasedOK, Erased
<1>3. ErasedOK => RemovedMeansRemoved
  BY DEF ErasedOK, Erased, RemovedMeansRemoved
<1> QED BY <1>1, <1>2, <1>3, PTL DEF Spec
-----------------------------------------------------------------------------
(* What deletes take back *)

\* Every entry is the whole result of its upload, and only uploads that
\* returned are ever withdrawn.
NamesOK ==
    /\ \A k \in Cached(cache) : cache.entries[k].result = ResultOf(cache.entries[k].result.upload)
    /\ \A u \in withdrawn : outcome[u].kind = "stored"

\* An invalidation that drops the entries of a location leaves none.
LEMMA InvalidatedGone ==
    ASSUME IsCache(cache), NEW D, cache' = Without(cache, D),
           NEW l, \A k \in Cached(cache) : EntryLoc(k) = l => k \in D
    PROVE  \A k \in Cached(cache') : EntryLoc(k)' # l
<1>1. /\ Cached(cache') = Cached(cache) \ D
      /\ \A k \in Cached(cache) \ D : cache'.entries[k] = cache.entries[k]
  BY WithoutIsCache
<1> QED BY <1>1 DEF EntryLoc

\* What a call withdraws has no entry left.
LEMMA WithdrawnGone ==
    ASSUME TypeInv, NEW c \in Call, Start(c) \/ ServiceStep(c) \/ CallerCodeStep(c),
           NEW u \in withdrawn' \ withdrawn
    PROVE  /\ outcome[u].kind = "stored"
           /\ \A k \in Cached(cache') : EntryLoc(k)' # LocOf(u)
<1> USE DEF TypeInv, TypeOK
<1>1. CASE RemoveAnswered(c)
  <2> DEFINE D == HoldersOf(cache, opt[c].bucket, opt[c].key)
  <2>1. cache' = Without(cache, D) /\ u \in StoredAt(LocOf(c))
    BY <1>1 DEF RemoveAnswered
  <2>2. \A k \in Cached(cache) : EntryLoc(k) = LocOf(c) => k \in D
    BY DEF EntryLoc, LocOf, HoldersOf
  <2> HIDE DEF D
  <2> QED BY <2>1, <2>2, InvalidatedGone DEF StoredAt
<1>2. ASSUME NEW b, NEW unsure, AfterChunk(c, b, unsure)
      PROVE  /\ outcome[u].kind = "stored"
             /\ \A k \in Cached(cache') : EntryLoc(k)' # LocOf(u)
  <2> DEFINE D == UNION { HoldersOf(cache, opt[c].bucket, key) : key \in b.deleted }
  <2>1. cache' = Without(cache, D) /\ \E l \in Locs(opt[c].bucket, b.deleted) : u \in StoredAt(l)
    <3>1. withdrawn' # withdrawn
      OBVIOUS
    <3>2. /\ cache' = Without(cache, D)
          /\ withdrawn' = withdrawn \cup UNION { StoredAt(l) : l \in Locs(opt[c].bucket, b.deleted) }
      BY <1>2, <3>1, Zenon DEF AfterChunk
    <3> HIDE DEF D
    <3> QED BY <3>2
  <2>2. PICK key \in b.deleted : u \in StoredAt(<<opt[c].bucket, key>>)
    BY <2>1 DEF Locs
  <2>3. \A k \in Cached(cache) : EntryLoc(k) = <<opt[c].bucket, key>> => k \in D
    <3>1. \A k \in Cached(cache) : EntryLoc(k) = <<opt[c].bucket, key>>
            => k \in HoldersOf(cache, opt[c].bucket, key)
      BY DEF EntryLoc, HoldersOf
    <3> QED BY <3>1, <2>2
  <2> HIDE DEF D
  <2> QED BY <2>1, <2>2, <2>3, InvalidatedGone DEF StoredAt
<1>3. RemoveAnswered(c) \/ ChunkAnswered(c) \/ ChunkFails(c)
  BY DEF Start, ServiceStep, CallerCodeStep, UploadRefused, UploadAnswered, UploadBegins,
        Refused, SendDelete, BatchEmpty, SendBatch, SendCopy, Validated, Buffered, SourceRead,
        PreScanPasses, RejectedBeforeSending, PostScanPasses, PostScanFails, SendWrite,
        SendWithoutClient, WriteAnswered, WriteFails, MultipartAborts, MultipartNotCreated,
        MultipartStranded, AbortAnswered, AbortFails, RecordResult, RemoveFails,
        CopyAnswered, CopyFails, history
<1> QED BY <1>1, <1>2, <1>3 DEF ChunkAnswered, ChunkFails

\* A step withdraws what it drops, and records nothing withdrawn.
LEMMA StepNoWithdrawn ==
    ASSUME CallInv, CachedWasAccepted, NamesOK, NoWithdrawnAnswer, [Next]_vars
    PROVE  NamesOK' /\ NoWithdrawnAnswer'
<1> USE DEF CallInv, TrustInv, TypeInv, TypeOK
<1>1. ASSUME NEW c \in Call, Start(c) \/ ServiceStep(c) \/ CallerCodeStep(c)
      PROVE  NamesOK' /\ NoWithdrawnAnswer'
  <2>1. Alone(c) /\ CallOK(c) /\ CacheGrows(c)
    BY <1>1, CallFrames
  <2>2. outcome[c].kind # "stored"
    BY <2>1, OutcomeKinds DEF Alone, CallOK
  <2>3. \A u \in Call : outcome[u].kind = "stored"
          => u # c /\ outcome'[u] = outcome[u] /\ ResultOf(u)' = ResultOf(u) /\ LocOf(u)' = LocOf(u)
    BY <2>1, <2>2 DEF Alone, ResultOf, LocOf
  <2>4. \A u \in withdrawn' : u \in Call /\ outcome[u].kind = "stored"
    <3>1. \A u \in withdrawn : u \in Call /\ outcome[u].kind = "stored"
      BY DEF NamesOK
    <3>2. withdrawn' \subseteq Call
      BY StepTypes, <1>1 DEF Next
    <3> QED BY <1>1, <3>1, <3>2, WithdrawnGone
  <2>5. ASSUME NEW k \in Cached(cache'), NEW u, u = cache'.entries[k].result.upload
        PROVE  cache'.entries[k].result = ResultOf(u)' /\ u \notin withdrawn'
    <3>1. CASE k \in Cached(cache) /\ cache'.entries[k] = cache.entries[k]
      <4>1. u \in Call /\ outcome[u].kind = "stored"
        BY <2>5, <3>1, EntryOfCached DEF CachedWasAccepted, Entry, Result, Call
      <4>2. cache'.entries[k].result = ResultOf(u) /\ u \notin withdrawn
        BY <2>5, <3>1 DEF NamesOK, NoWithdrawnAnswer
      <4>3. EntryLoc(k)' = LocOf(u)
        BY <4>2 DEF EntryLoc, ResultOf, LocOf
      <4>4. u \notin withdrawn'
        BY <1>1, <4>2, <4>3, WithdrawnGone
      <4> QED BY <2>3, <4>1, <4>2, <4>4
    <3>2. CASE RecordResult(c) /\ cache'.entries[k].result = ResultOf(c)
      <4>1. u = c /\ ResultOf(c)' = ResultOf(c)
        BY <2>5, <3>2 DEF RecordResult, ResultOf
      <4> QED BY <2>2, <2>4, <3>2, <4>1
    <3> QED BY <2>1, <3>1, <3>2 DEF CacheGrows
  <2>6. NamesOK'
    <3>1. \A u \in withdrawn' : outcome'[u].kind = "stored"
      BY <2>3, <2>4
    <3>2. \A k \in Cached(cache') : (cache.entries[k].result = ResultOf(cache.entries[k].result.upload))'
      BY <2>5 DEF ResultOf
    <3> QED BY <3>1, <3>2 DEF NamesOK
  <2>7. NoWithdrawnAnswer'
    BY <2>5 DEF NoWithdrawnAnswer
  <2> QED BY <2>6, <2>7
<1>2. ASSUME UNCHANGED <<cache, opt, outcome, withdrawn>> PROVE NamesOK' /\ NoWithdrawnAnswer'
  BY <1>2 DEF NamesOK, NoWithdrawnAnswer, ResultOf
<1>3. CASE \E r \in wire : ApplyWrite(r) \/ ApplyRemove(r) \/ ApplyAbort(r)
  BY <1>2, <1>3 DEF ApplyWrite, ApplyRemove, ApplyAbort, instance, calls, history
<1>4. CASE Shutdown \/ Tick \/ UNCHANGED vars
  BY <1>2, <1>4 DEF Shutdown, Tick, vars, instance, calls, history
<1> QED BY <1>1, <1>3, <1>4 DEF Next

\* No result outlives a delete that came after it: what was stored when delete()
\* or deleteMany() reported its object deleted is never an answer again.
THEOREM DeletesAreRemembered == Spec => []NoWithdrawnAnswer
<1> DEFINE Inv == CallInv /\ CachedWasAccepted /\ NamesOK /\ NoWithdrawnAnswer
<1>1. Inv /\ [Next]_vars => Inv'
  BY StepCallInv, StepAccepted, StepNoWithdrawn DEF CallInv, TrustInv
<1>2. Init => Inv
  BY InitCallInv, EmptyIsCache DEF Init, CachedWasAccepted, NamesOK, NoWithdrawnAnswer
<1>3. Inv => NoWithdrawnAnswer
  OBVIOUS
<1> QED BY <1>1, <1>2, <1>3, PTL DEF Spec
-----------------------------------------------------------------------------
(* Where the keys of a batch are *)

\* Each key is in one of the four sets, and in one only.
Divides(b, keys) ==
    /\ b.left \cup b.chunk \cup b.deleted \cup b.failed = keys
    /\ b.left \cap b.chunk = {} /\ b.deleted \cap b.failed = {}
    /\ (b.left \cup b.chunk) \cap (b.deleted \cup b.failed) = {}

PartsOK(c) ==
    /\ pc[c] = "idle" => batch[c] = NoBatch
    /\ opt[c].op = "deleteMany" /\ pc[c] # "idle" /\ outcome[c].kind # "typed" =>
         /\ Divides(batch[c], opt[c].keys)
         /\ outcome[c].kind = "ok" => batch[c].left \cup batch[c].chunk = {}

\* The next chunk moves keys from the rest to the request.
LEMMA NextChunkParts ==
    ASSUME TypeInv, NEW c \in Call, NEW b \in Progress, NEW bucket, NEW keys,
           SendChunk(c, bucket, b), Divides(b, keys), b.chunk = {}
    PROVE  Divides(batch'[c], keys)
<1>1. PICK ks \in SUBSET b.left :
             /\ batch'[c].left = b.left \ ks /\ batch'[c].chunk = ks
             /\ batch'[c].deleted = b.deleted /\ batch'[c].failed = b.failed
  BY FirstChunk
<1> QED BY <1>1 DEF Divides

\* Whichever way a batch goes on after a chunk, its keys add up.
LEMMA AfterChunkParts ==
    ASSUME TypeInv, NEW c \in Call, NEW b \in Progress, NEW unsure, AfterChunk(c, b, unsure),
           UNCHANGED opt, pc[c] = "removing", outcome[c] = Pending,
           Divides(b, opt[c].keys), b.chunk = {}
    PROVE  PartsOK(c)'
<1> USE DEF TypeInv, TypeOK
<1>1. CASE SendChunk(c, opt[c].bucket, b) /\ UNCHANGED <<pc, outcome>>
  BY <1>1, NextChunkParts, OutcomeKinds DEF PartsOK
<1>2. CASE Rejects(c, "plain", "") /\ batch' = [batch EXCEPT ![c] = b]
  <2>1. pc'[c] = "settled" /\ outcome'[c].kind = "plain" /\ batch'[c] = b
    BY <1>2, OutcomeKinds DEF Rejects, Settles, Goes
  <2> QED BY <2>1 DEF PartsOK
<1>3. CASE /\ b.left = {} /\ Settles(c, [Pending EXCEPT !.kind = "ok"])
           /\ batch' = [batch EXCEPT ![c] = b]
  <2>1. pc'[c] = "settled" /\ batch'[c] = b
    BY <1>3 DEF Settles, Goes
  <2> QED BY <1>3, <2>1 DEF PartsOK
<1> QED BY <1>1, <1>2, <1>3 DEF AfterChunk

\* The keys of a chunk are deleted or failed, by its answer or its failure.
LEMMA ChunkParts ==
    ASSUME TypeInv, NEW c \in Call, ChunkAnswered(c) \/ ChunkFails(c), PartsOK(c), CallOK(c)
    PROVE  PartsOK(c)'
<1>1. /\ pc[c] = "removing" /\ opt[c].op = "deleteMany" /\ UNCHANGED opt
      /\ batch[c] \in Progress /\ outcome[c] = Pending
  BY DEF ChunkAnswered, ChunkFails, TypeInv, TypeOK, CallOK
<1>2. Divides(batch[c], opt[c].keys)
  BY <1>1, OutcomeKinds DEF PartsOK
<1>3. CASE ChunkAnswered(c)
  <2>1. PICK did \in reply[c] :
          LET gone == { key \in batch[c].chunk : <<opt[c].bucket, key>> \in did }
          IN  AfterChunk(c, [batch[c] EXCEPT !.chunk = {}, !.deleted = @ \cup gone,
                                           !.failed = @ \cup (batch[c].chunk \ gone)], {})
    BY <1>3 DEF ChunkAnswered
  <2> DEFINE gone == { key \in batch[c].chunk : <<opt[c].bucket, key>> \in did }
             b == [batch[c] EXCEPT !.chunk = {}, !.deleted = @ \cup gone,
                                   !.failed = @ \cup (batch[c].chunk \ gone)]
  <2>2. gone \subseteq batch[c].chunk /\ AfterChunk(c, b, {})
    BY <2>1
  <2> HIDE DEF gone
  <2>3. /\ b \in Progress /\ b.left = batch[c].left /\ b.chunk = {}
        /\ b.deleted = batch[c].deleted \cup gone
        /\ b.failed = batch[c].failed \cup (batch[c].chunk \ gone)
    BY <1>1, <2>2 DEF Progress
  <2> HIDE DEF b
  <2>4. Divides(b, opt[c].keys)
    BY <1>2, <2>2, <2>3 DEF Divides
  <2> QED BY <1>1, <2>2, <2>3, <2>4, AfterChunkParts
<1>4. CASE ChunkFails(c)
  <2> DEFINE b == [batch[c] EXCEPT !.chunk = {}, !.failed = @ \cup batch[c].chunk]
  <2>1. AfterChunk(c, b, Locs(opt[c].bucket, batch[c].chunk))
    BY <1>4 DEF ChunkFails
  <2>2. /\ b \in Progress /\ b.left = batch[c].left /\ b.chunk = {}
        /\ b.deleted = batch[c].deleted /\ b.failed = batch[c].failed \cup batch[c].chunk
    BY <1>1 DEF Progress
  <2> HIDE DEF b
  <2>3. Divides(b, opt[c].keys)
    BY <1>2, <2>2 DEF Divides
  <2> QED BY <1>1, <2>1, <2>2, <2>3, AfterChunkParts
<1> QED BY <1>3, <1>4

\* Every step keeps the keys of every batch apart and complete.
LEMMA StepPartsOK ==
    ASSUME CallInv, \A c \in Call : PartsOK(c), [Next]_vars PROVE (\A c \in Call : PartsOK(c))'
<1> USE DEF CallInv, TrustInv, TypeInv, TypeOK
<1>1. ASSUME NEW c \in Call, Start(c) \/ ServiceStep(c) \/ CallerCodeStep(c)
      PROVE  \A d \in Call : PartsOK(d)'
  <2>1. Alone(c) /\ Others(c) /\ CallOK(c) /\ pc'[c] # "idle" /\ PartsOK(c)
    BY <1>1, CallFrames
  <2>2. \A d \in Call \ {c} : PartsOK(d)'
    BY <2>1 DEF Alone, Others, PartsOK
  <2>3. ASSUME opt'[c].op # "deleteMany" \/ outcome'[c].kind = "typed" PROVE PartsOK(c)'
    BY <2>1, <2>3 DEF PartsOK
  <2>4. ASSUME opt'[c].op = "deleteMany", outcome'[c].kind # "typed" PROVE PartsOK(c)'
    <3>1. CASE \E o \in BatchAsk : SendBatch(c, o)
      <4>1. PICK o \in BatchAsk : SendBatch(c, o)
        BY <3>1
      <4>2. /\ o \in BatchOptions /\ opt'[c] = o /\ outcome'[c] = Pending
            /\ SendChunk(c, o.bucket, [NoBatch EXCEPT !.left = o.keys])
        BY <2>1, <4>1, AskTypes DEF SendBatch, Begins, CallOK
      <4> DEFINE b == [NoBatch EXCEPT !.left = o.keys]
      <4>3. b \in Progress /\ b.chunk = {} /\ Divides(b, o.keys)
        BY <4>2 DEF BatchOptions, NoBatch, Progress, Divides
      <4> HIDE DEF b
      <4>4. Divides(batch'[c], o.keys)
        BY <4>2, <4>3, NextChunkParts DEF b
      <4> QED BY <2>1, <4>2, <4>4, OutcomeKinds DEF PartsOK
    <3>2. CASE \E o \in BatchAsk : BatchEmpty(c, o)
      <4>1. PICK o \in BatchAsk : BatchEmpty(c, o)
        BY <3>2
      <4>2. batch'[c] = NoBatch /\ opt'[c].keys = {}
        BY <2>1, <4>1 DEF BatchEmpty, Begins, PartsOK
      <4> QED BY <2>1, <4>2 DEF NoBatch, Divides, PartsOK
    <3>3. CASE ChunkAnswered(c) \/ ChunkFails(c)
      BY <2>1, <3>3, ChunkParts
    <3>4. \/ \E o \in BatchAsk : SendBatch(c, o) \/ BatchEmpty(c, o)
          \/ ChunkAnswered(c) \/ ChunkFails(c)
      <4>1. ASSUME NEW o, Refused(c, o) PROVE outcome'[c].kind = "typed"
        BY <4>1, OutcomeKinds DEF Refused, Settles
      <4>2. CASE Start(c)
        <5>1. ASSUME NEW o, o.op # "deleteMany", Begins(c, o) PROVE FALSE
          BY <2>4, <5>1 DEF Begins
        <5> QED BY <2>4, <4>1, <4>2, <5>1, AskTypes DEF Start, UploadRefused, UploadAnswered,
                  UploadBegins, SendDelete, SendCopy
      <4>3. CASE pc[c] # "idle"
        <5>1. opt[c].op = "deleteMany"
          BY <2>1, <2>4, <4>3 DEF Alone
        <5>2. pc[c] = "removing"
          BY <2>1, <4>3, <5>1 DEF Alone, StageOK, UploadStage, Stage
        <5> QED BY <1>1, <4>2, <5>1, <5>2 DEF ServiceStep, CallerCodeStep, Validated, Buffered, SourceRead,
                  PreScanPasses, RejectedBeforeSending, PostScanPasses, PostScanFails, SendWrite,
                  SendWithoutClient, WriteAnswered, WriteFails, MultipartAborts,
                  MultipartNotCreated, MultipartStranded, AbortAnswered, AbortFails,
                  RecordResult, RemoveAnswered, RemoveFails, CopyAnswered, CopyFails
      <4> QED BY <1>1, <4>2, <4>3 DEF ServiceStep, CallerCodeStep, Validated, Buffered, SourceRead,
                  PreScanPasses, RejectedBeforeSending, PostScanPasses, PostScanFails, SendWrite,
                  SendWithoutClient, WriteAnswered, WriteFails, MultipartAborts,
                  MultipartNotCreated, MultipartStranded, AbortAnswered, AbortFails,
                  RecordResult, RemoveAnswered, RemoveFails, ChunkAnswered, ChunkFails,
                  CopyAnswered, CopyFails
    <3> QED BY <3>1, <3>2, <3>3, <3>4
  <2> QED BY <2>2, <2>3, <2>4
<1>2. ASSUME UNCHANGED <<pc, opt, batch, outcome>> PROVE \A d \in Call : PartsOK(d)'
  BY <1>2 DEF PartsOK
<1>3. CASE \E r \in wire : ApplyWrite(r) \/ ApplyRemove(r) \/ ApplyAbort(r)
  BY <1>2, <1>3 DEF ApplyWrite, ApplyRemove, ApplyAbort, calls
<1>4. CASE Shutdown \/ Tick \/ UNCHANGED vars
  BY <1>2, <1>4 DEF Shutdown, Tick, vars, calls
<1> QED BY <1>1, <1>3, <1>4 DEF Next

\* deleteMany() accounts for each of its keys once, whatever chunks fail and
\* whatever their size, and reports success only when no key is left over.
THEOREM BatchesAddUp == Spec => []BatchAccounts
<1> DEFINE Inv == CallInv /\ \A c \in Call : PartsOK(c)
<1>1. Inv /\ [Next]_vars => Inv'
  BY StepCallInv, StepPartsOK
<1>2. Init => Inv
  BY InitCallInv DEF Init, PartsOK
<1>3. Inv => BatchAccounts
  BY DEF PartsOK, Divides, BatchAccounts
<1> QED BY <1>1, <1>2, <1>3, PTL DEF Spec
-----------------------------------------------------------------------------
(* What the cache owes to uploads that returned *)

\* The uploads with an idempotency key that returned, and their cache keys.
Keyed == { u \in Call : outcome[u].kind = "stored" /\ opt[u].idem # NoIdem }
KeyOf(u) == ComputeKey(opt[u].idem, opt[u].key)
StoredKeys == { KeyOf(u) : u \in Keyed }

\* The cache key of v is that of uploads to its bucket only.
OneBucket(v) ==
    \A u \in Keyed : opt[u].idem = opt[v].idem /\ opt[u].key = opt[v].key
                       => opt[u].bucket = opt[v].bucket

\* v is owed an answer, apart from its age; and the cache holds an entry for it
\* that lives as long as v may ask.
Owed(v) == v \notin withdrawn /\ Cardinality(StoredKeys) <= MaxEntries /\ OneBucket(v)
Held(v) ==
    KeyOf(v) \in Cached(cache) /\ outcome[v].at + Ttl <= cache.entries[KeyOf(v)].expiresAt
Aged(v) == outcome[v].at + Ttl <= now

Remembered ==
    /\ IsFiniteSet(StoredKeys)
    /\ \A v \in Keyed : outcome[v].at <= now
    /\ \A v \in Keyed : Owed(v) => Held(v) \/ Aged(v)

\* Nothing is evicted from a cache whose keys are among no more than the cap.
LEMMA NothingEvicted ==
    ASSUME NEW c, NEW S, IsFiniteSet(S), Cached(c) \subseteq S, Cardinality(S) <= MaxEntries,
           NEW D \in Evictions(c)
    PROVE  D = {}
<1> DEFINE K == Cached(c)
           T == K \ D
<1>1. D \subseteq K /\ (D # {} => Cardinality(T) = MaxEntries)
  BY DEF Evictions
<1> HIDE DEF K
<1>2. IsFiniteSet(K) /\ Cardinality(K) <= Cardinality(S)
  BY FS_Subset DEF K
<1>3. T \in SUBSET K
  OBVIOUS
<1> HIDE DEF T
<1>4. IsFiniteSet(T) /\ Cardinality(T) <= Cardinality(K) /\ (Cardinality(K) = Cardinality(T) => K = T)
  BY <1>2, <1>3, FS_Subset
<1>5. Cardinality(S) \in Nat /\ Cardinality(K) \in Nat /\ Cardinality(T) \in Nat
  BY <1>2, <1>4, FS_CardinalityType
<1>6. D # {} => K = T
  BY <1>1, <1>2, <1>4, <1>5, CacheAssumption
<1> QED BY <1>1, <1>6 DEF T

\* The cached keys are keys of stored uploads.
LEMMA CachedKeyed ==
    ASSUME TypeInv, CachedWasAccepted, NEW k \in Cached(cache),
           NEW u, u = cache.entries[k].result.upload
    PROVE  u \in Keyed /\ k = KeyOf(u)
<1>1. k \in CacheKey /\ u \in Call
  BY EntryOfCached DEF TypeInv, TypeOK, Entry, Result, Call
<1>2. outcome[u].kind = "stored" /\ k = KeyOf(u)
  BY DEF CachedWasAccepted, KeyOf
<1>3. opt[u].idem \in IdemKey
  <2>1. <<opt[u].idem, opt[u].key>> \in IdemKey \X Key
    BY <1>1, <1>2 DEF KeyOf, ComputeKey, CacheKey
  <2>2. ASSUME NEW a, NEW b, <<a, b>> \in IdemKey \X Key PROVE a \in IdemKey
    BY <2>2
  <2> QED BY <2>1, <2>2
<1> QED BY <1>1, <1>2, <1>3, ServiceAssumption DEF Keyed

\* A step of one call adds at most its own upload, and changes no other.
LEMMA KeyedStep ==
    ASSUME CallInv, NEW c \in Call, Start(c) \/ ServiceStep(c) \/ CallerCodeStep(c)
    PROVE  /\ \A u \in Keyed : /\ u # c /\ u \in Keyed'
                               /\ outcome'[u] = outcome[u] /\ opt'[u] = opt[u]
                               /\ KeyOf(u)' = KeyOf(u)
           /\ \A u \in Keyed' : u \in Keyed \/ u = c
<1>1. Alone(c) /\ CallOK(c)
  BY CallFrames DEF CallInv, TrustInv
<1>2. outcome[c].kind # "stored"
  BY <1>1, OutcomeKinds DEF Alone, CallOK
<1> QED BY <1>1, <1>2 DEF Alone, Keyed, KeyOf

\* The stored keys stay finite, and only grow.
LEMMA StoredKeysGrow ==
    ASSUME CallInv, IsFiniteSet(StoredKeys), NEW c \in Call,
           Start(c) \/ ServiceStep(c) \/ CallerCodeStep(c)
    PROVE  /\ IsFiniteSet(StoredKeys')
           /\ StoredKeys \subseteq StoredKeys'
           /\ Cardinality(StoredKeys) <= Cardinality(StoredKeys')
<1> DEFINE S == StoredKeys
           T == StoredKeys \cup {KeyOf(c)'}
<1>1. StoredKeys \subseteq StoredKeys'
  BY KeyedStep DEF StoredKeys
<1>2. StoredKeys' \subseteq T
  BY KeyedStep DEF StoredKeys
<1>3. IsFiniteSet(T)
  BY FS_AddElement
<1> HIDE DEF T
<1>4. IsFiniteSet(StoredKeys')
  BY <1>2, <1>3, FS_Subset
<1> QED BY <1>1, <1>4, FS_Subset

\* Who is owed an answer after a step of a call was owed it before.
LEMMA OwedBefore ==
    ASSUME CallInv, NamesOK, IsFiniteSet(StoredKeys), NEW c \in Call,
           Start(c) \/ ServiceStep(c) \/ CallerCodeStep(c), NEW v \in Keyed, Owed(v)'
    PROVE  Owed(v)
<1>1. Cardinality(StoredKeys) <= MaxEntries
  <2>1. Cardinality(StoredKeys) \in Nat /\ Cardinality(StoredKeys') \in Nat
    BY StoredKeysGrow, FS_CardinalityType
  <2>2. Cardinality(StoredKeys') <= MaxEntries
    BY DEF Owed
  <2>3. Cardinality(StoredKeys) <= Cardinality(StoredKeys')
    BY StoredKeysGrow
  <2> QED BY <2>1, <2>2, <2>3, CacheAssumption
<1>2. OneBucket(v)
  BY KeyedStep DEF Owed, OneBucket
<1>3. v \notin withdrawn
  <2>1. ASSUME NEW b, NEW unsure, AfterChunk(c, b, unsure) PROVE withdrawn \subseteq withdrawn'
    BY <2>1 DEF AfterChunk
  <2>2. ChunkAnswered(c) \/ ChunkFails(c) => withdrawn \subseteq withdrawn'
    BY <2>1 DEF ChunkAnswered, ChunkFails
  <2>3. RemoveAnswered(c) => withdrawn \subseteq withdrawn'
    BY DEF RemoveAnswered
  <2>4. \/ ChunkAnswered(c) \/ ChunkFails(c) \/ RemoveAnswered(c)
        \/ withdrawn' = withdrawn
    BY DEF Start, ServiceStep, CallerCodeStep, UploadRefused, UploadAnswered, UploadBegins,
        Refused, SendDelete, BatchEmpty, SendBatch, SendCopy, Validated, Buffered, SourceRead,
        PreScanPasses, RejectedBeforeSending, PostScanPasses, PostScanFails, SendWrite,
        SendWithoutClient, WriteAnswered, WriteFails, MultipartAborts, MultipartNotCreated,
        MultipartStranded, AbortAnswered, AbortFails, RecordResult, RemoveFails,
        CopyAnswered, CopyFails, history
  <2>5. withdrawn \subseteq withdrawn'
    BY <2>2, <2>3, <2>4
  <2> QED BY <2>5 DEF Owed
<1> QED BY <1>1, <1>2, <1>3 DEF Owed

\* The ways a step of a call changes the cache.
LEMMA CacheChanges ==
    ASSUME NEW c \in Call, Start(c) \/ ServiceStep(c) \/ CallerCodeStep(c)
    PROVE  \/ UNCHANGED cache
           \/ \E o \in UploadAsk : UploadAnswered(c, o) \/ UploadBegins(c, o)
           \/ RecordResult(c) \/ RemoveAnswered(c) \/ ChunkAnswered(c) \/ ChunkFails(c)
BY DEF Start, ServiceStep, CallerCodeStep, UploadRefused, Refused, SendDelete, BatchEmpty,
       SendBatch, SendCopy, Validated, Buffered, SourceRead, PreScanPasses, RejectedBeforeSending,
       PostScanPasses, PostScanFails, SendWrite, SendWithoutClient, WriteAnswered, WriteFails,
       MultipartAborts, MultipartNotCreated, MultipartStranded, AbortAnswered, AbortFails,
       RemoveFails, CopyAnswered, CopyFails, instance

\* What a call that begins leaves in the cache: all but an entry that expired.
LEMMA HeldAtStart ==
    ASSUME TypeInv, NEW c \in Call, NEW o \in UploadAsk,
           UploadAnswered(c, o) \/ UploadBegins(c, o), NEW k \in Cached(cache)
    PROVE  \/ k \in Cached(cache') /\ cache'.entries[k] = cache.entries[k]
           \/ ~Live(cache, k, now)
<1> USE DEF TypeInv, TypeOK
<1> DEFINE key == ComputeKey(o.idem, o.key)
<1>1. CASE UploadAnswered(c, o)
  <2>1. key \in Cached(cache) /\ cache' = Touched(cache, key)
    BY <1>1 DEF UploadAnswered, Live
  <2> HIDE DEF key
  <2> QED BY <2>1, TouchedIsCache
<1>2. CASE UploadBegins(c, o)
  <2>1. ~Live(cache, key, now) /\ (cache' = Without(cache, {key}) \/ cache' = cache)
    BY <1>2 DEF UploadBegins
  <2> HIDE DEF key
  <2>2. CASE cache' = Without(cache, {key})
    <3>1. \A x \in Cached(cache) \ {key} :
             x \in Cached(cache') /\ cache'.entries[x] = cache.entries[x]
      BY <2>2, WithoutIsCache
    <3> QED BY <2>1, <3>1
  <2> QED BY <2>1, <2>2
<1> QED BY <1>1, <1>2

\* What an upload that returns leaves in the cache while the cap is not passed:
\* every entry but its own, which lives its full lifetime.
LEMMA HeldAtRecord ==
    ASSUME CallInv, CachedWasAccepted, IsFiniteSet(StoredKeys), NEW c \in Call, RecordResult(c),
           Cardinality(StoredKeys') <= MaxEntries, opt[c].idem # NoIdem
    PROVE  /\ KeyOf(c) \in Cached(cache') /\ cache'.entries[KeyOf(c)].expiresAt = now + Ttl
           /\ \A k \in Cached(cache) \ {KeyOf(c)} :
                 k \in Cached(cache') /\ cache'.entries[k] = cache.entries[k]
<1> USE DEF CallInv, TrustInv, TypeInv, TypeOK
<1>1. opt[c] \in UploadOptions
  BY OptionsOfOp DEF RecordResult, StageOK, UploadStage
<1> DEFINE key == KeyOf(c)
           grown == Stored(cache, key, ResultOf(c), now)
<1>2. key \in CacheKey /\ ResultOf(c) \in Result /\ now \in Nat
  BY <1>1 DEF UploadOptions, KeyOf, ComputeKey, CacheKey, ResultOf, Result, Call
<1>3. PICK D \in Evictions(grown) : cache' = Without(grown, D)
  BY DEF RecordResult, KeyOf
<1>4. key \in StoredKeys'
  <2>1. outcome'[c].kind = "stored" /\ opt'[c] = opt[c]
    BY OutcomeKinds DEF RecordResult, Settles
  <2>2. c \in Keyed' /\ KeyOf(c)' = key
    BY <2>1 DEF Keyed, KeyOf
  <2> QED BY <2>2 DEF StoredKeys
<1>5. Start(c) \/ ServiceStep(c) \/ CallerCodeStep(c)
  BY DEF ServiceStep
<1>6. IsFiniteSet(StoredKeys') /\ StoredKeys \subseteq StoredKeys'
  BY <1>5, StoredKeysGrow
<1>7. Cached(cache) \subseteq StoredKeys
  BY CachedKeyed DEF StoredKeys
<1> HIDE DEF key
<1>8. /\ IsCache(grown) /\ Cached(grown) = Cached(cache) \cup {key}
      /\ grown.entries[key] = [result |-> ResultOf(c), expiresAt |-> now + Ttl]
      /\ \A x \in Cached(cache) \ {key} : grown.entries[x] = cache.entries[x]
  BY <1>2, StoredIsCache
<1> HIDE DEF grown
<1>9. D = {}
  BY <1>3, <1>4, <1>6, <1>7, <1>8, NothingEvicted
<1>10. /\ Cached(cache') = Cached(grown)
       /\ \A x \in Cached(grown) : cache'.entries[x] = grown.entries[x]
  BY <1>3, <1>8, <1>9, WithoutIsCache
<1> QED BY <1>8, <1>10 DEF key

\* What a delete drops from the cache is not owed an answer any more: it names
\* the object the upload stored, which the delete withdraws.
LEMMA DroppedIsWithdrawn ==
    ASSUME TypeInv, CachedWasAccepted, NamesOK, NEW l,
           StoredAt(l) \subseteq withdrawn', NEW v \in Keyed, Owed(v)', OneBucket(v),
           KeyOf(v) \in Cached(cache), EntryLoc(KeyOf(v)) = l
    PROVE  FALSE
<1> DEFINE k == KeyOf(v)
           u == cache.entries[k].result.upload
<1>1. u \in Keyed /\ k = KeyOf(u)
  BY CachedKeyed
<1>2. opt[u].idem = opt[v].idem /\ opt[u].key = opt[v].key
  BY <1>1 DEF KeyOf, ComputeKey
<1>3. opt[u].bucket = opt[v].bucket
  BY <1>1, <1>2 DEF OneBucket
<1>4. EntryLoc(k) = LocOf(u)
  <2>1. cache.entries[k].result = ResultOf(u)
    BY DEF NamesOK
  <2> HIDE DEF k
  <2>2. ResultOf(u).bucket = opt[u].bucket /\ ResultOf(u).key = opt[u].key
    BY DEF ResultOf
  <2> QED BY <2>1, <2>2, Zenon DEF EntryLoc, LocOf
<1>5. v \in StoredAt(l)
  BY <1>2, <1>3, <1>4 DEF LocOf, StoredAt, Keyed
<1> QED BY <1>5 DEF Owed

\* So an entry that is still owed outlives the deletes.
LEMMA HeldAtRemove ==
    ASSUME TypeInv, CachedWasAccepted, NamesOK, NEW c \in Call,
           RemoveAnswered(c) \/ ChunkAnswered(c) \/ ChunkFails(c),
           NEW v \in Keyed, Owed(v)', OneBucket(v), KeyOf(v) \in Cached(cache)
    PROVE  KeyOf(v) \in Cached(cache') /\ cache'.entries[KeyOf(v)] = cache.entries[KeyOf(v)]
<1> DEFINE k == KeyOf(v)
           Kept == k \in Cached(cache') /\ cache'.entries[k] = cache.entries[k]
<1>1. IsCache(cache)
  BY DEF TypeInv, TypeOK
<1>2. ASSUME NEW D, cache' = Without(cache, D), k \notin D PROVE Kept
  BY <1>1, <1>2, WithoutIsCache
<1>3. CASE RemoveAnswered(c)
  <2> DEFINE D == HoldersOf(cache, opt[c].bucket, opt[c].key)
  <2>1. cache' = Without(cache, D) /\ withdrawn' = withdrawn \cup StoredAt(LocOf(c))
    BY <1>3, Zenon DEF RemoveAnswered
  <2>2. k \in D => EntryLoc(k) = LocOf(c)
    BY DEF HoldersOf, EntryLoc, LocOf
  <2>3. StoredAt(LocOf(c)) \subseteq withdrawn'
    BY <2>1
  <2> HIDE DEF D, k
  <2>4. k \notin D
    BY <2>2, <2>3, DroppedIsWithdrawn DEF k
  <2>5. cache' = Without(cache, D)
    BY <2>1
  <2> QED BY <1>2, <2>4, <2>5 DEF k
<1>4. ASSUME NEW b, NEW unsure, AfterChunk(c, b, unsure) PROVE Kept
  <2> DEFINE D == UNION { HoldersOf(cache, opt[c].bucket, key) : key \in b.deleted }
             W == UNION { StoredAt(l) : l \in Locs(opt[c].bucket, b.deleted) }
  <2>1. UNCHANGED cache \/ (cache' = Without(cache, D) /\ withdrawn' = withdrawn \cup W)
    BY <1>4, Zenon DEF AfterChunk, instance
  <2>2. CASE UNCHANGED cache
    BY <2>2
  <2>3. CASE cache' = Without(cache, D) /\ withdrawn' = withdrawn \cup W
    <3>1. ASSUME k \in D PROVE FALSE
      <4>1. PICK key \in b.deleted : k \in HoldersOf(cache, opt[c].bucket, key)
        BY <3>1
      <4> DEFINE l == <<opt[c].bucket, key>>
      <4>2. EntryLoc(k) = l
        BY <4>1 DEF HoldersOf, EntryLoc
      <4>3. l \in Locs(opt[c].bucket, b.deleted)
        BY DEF Locs
      <4>4. StoredAt(l) \subseteq W
        BY <4>3
      <4>5. StoredAt(l) \subseteq withdrawn'
        BY <2>3, <4>4
      <4> HIDE DEF l, k, W
      <4> QED BY <4>2, <4>5, DroppedIsWithdrawn DEF k
    <3> HIDE DEF D, k
    <3> QED BY <1>2, <2>3, <3>1
  <2> QED BY <2>1, <2>2, <2>3
<1>5. CASE ChunkAnswered(c)
  BY <1>4, <1>5 DEF ChunkAnswered
<1>6. CASE ChunkFails(c)
  BY <1>4, <1>6 DEF ChunkFails
<1> QED BY <1>3, <1>5, <1>6

\* What the other ends of a call are.
LEMMA OtherKinds ==
    /\ [Pending EXCEPT !.kind = "ok"].kind # "stored"
    /\ \A rs : [Pending EXCEPT !.kind = "cached", !.result = rs].kind # "stored"
    /\ \A detail : Rejection("typed", detail).kind # "stored"
    /\ \A v, detail : ScanError(v, detail).kind # "stored"
BY DEF Pending, Rejection, ScanError

\* A call is stored by its last step only.
LEMMA OnlyRecordStores ==
    ASSUME CallInv, NEW c \in Call, Start(c) \/ ServiceStep(c) \/ CallerCodeStep(c),
           outcome'[c].kind = "stored"
    PROVE  RecordResult(c)
<1> USE DEF CallInv, TrustInv, TypeInv, TypeOK
<1>1. outcome[c].kind # "stored"
  BY CallFrames, OutcomeKinds DEF Alone, CallOK
<1>2. ASSUME NEW out, Settles(c, out) PROVE out.kind = "stored"
  BY <1>2 DEF Settles
<1>3. ASSUME NEW kind, NEW detail, Rejects(c, kind, detail) PROVE kind = "stored"
  BY <1>2, <1>3, OutcomeKinds DEF Rejects
<1>4. ASSUME Settles(c, [Pending EXCEPT !.kind = "ok"]) PROVE FALSE
  BY <1>2, <1>4, OtherKinds
<1>5. ASSUME NEW b, NEW unsure, AfterChunk(c, b, unsure) PROVE FALSE
  <2>1. outcome' = outcome \/ Rejects(c, "plain", "") \/ Settles(c, [Pending EXCEPT !.kind = "ok"])
    BY <1>5, Zenon DEF AfterChunk
  <2> QED BY <1>1, <1>3, <1>4, <2>1
<1>6. ASSUME NEW o \in UploadAsk, UploadRefused(c, o) \/ UploadAnswered(c, o) PROVE FALSE
  <2>1. CASE UploadRefused(c, o)
    BY <1>2, <2>1, OtherKinds, Zenon DEF UploadRefused
  <2>2. CASE UploadAnswered(c, o)
    BY <1>2, <2>2, OtherKinds DEF UploadAnswered
  <2> QED BY <1>6, <2>1, <2>2
<1>7. ASSUME NEW o, Refused(c, o) \/ BatchEmpty(c, o) PROVE FALSE
  <2>1. CASE Refused(c, o)
    BY <1>2, <2>1, OtherKinds, Zenon DEF Refused
  <2>2. CASE BatchEmpty(c, o)
    BY <1>4, <2>2 DEF BatchEmpty
  <2> QED BY <1>7, <2>1, <2>2
<1>8. CASE RemoveAnswered(c) \/ RemoveFails(c)
  <2>1. \/ Settles(c, [Pending EXCEPT !.kind = "ok"]) \/ Settles(c, Rejection("typed", ""))
        \/ \E v, detail : Settles(c, ScanError(v, detail))
    BY <1>8, Zenon DEF RemoveAnswered, RemoveFails
  <2> QED BY <1>2, <2>1, OtherKinds, Zenon
<1>9. CASE PostScanFails(c)
  <2>1. UNCHANGED outcome \/ \E v : Settles(c, ScanError(v, "cleanup failed"))
    BY <1>9, Zenon DEF PostScanFails
  <2> QED BY <1>1, <1>2, <2>1, OtherKinds
<1>10. CASE ChunkAnswered(c)
  <2>1. \E b, unsure : AfterChunk(c, b, unsure)
    BY <1>10 DEF ChunkAnswered
  <2> QED BY <1>5, <2>1
<1>11. CASE ChunkFails(c)
  <2>1. \E b, unsure : AfterChunk(c, b, unsure)
    BY <1>11 DEF ChunkFails
  <2> QED BY <1>5, <2>1
<1>12. CASE CopyAnswered(c)
  BY <1>4, <1>12 DEF CopyAnswered
<1>13. CASE CopyFails(c)
  <2>1. Settles(c, Rejection("typed", ""))
    BY <1>13 DEF CopyFails
  <2> QED BY <1>2, <2>1, OtherKinds, Zenon
<1>14. CASE \/ RejectedBeforeSending(c) \/ SendWithoutClient(c) \/ WriteFails(c)
            \/ MultipartNotCreated(c) \/ MultipartStranded(c) \/ AbortAnswered(c) \/ AbortFails(c)
  <2>1. \E kind \in {"typed", "plain"} : \E detail : Rejects(c, kind, detail)
    BY <1>14, Zenon DEF RejectedBeforeSending, SendWithoutClient, WriteFails, MultipartNotCreated,
              MultipartStranded, AbortAnswered, AbortFails
  <2> QED BY <1>3, <2>1
<1>15. UNCHANGED outcome \/ \E o : \/ o \in UploadAsk /\ (UploadRefused(c, o) \/ UploadAnswered(c, o))
                                   \/ Refused(c, o) \/ BatchEmpty(c, o)
       \/ RecordResult(c) \/ RemoveAnswered(c) \/ RemoveFails(c) \/ PostScanFails(c)
       \/ ChunkAnswered(c) \/ ChunkFails(c) \/ CopyAnswered(c) \/ CopyFails(c)
       \/ RejectedBeforeSending(c) \/ SendWithoutClient(c) \/ WriteFails(c)
       \/ MultipartNotCreated(c) \/ MultipartStranded(c) \/ AbortAnswered(c) \/ AbortFails(c)
  BY DEF Start, ServiceStep, CallerCodeStep, UploadBegins, SendDelete, SendBatch, SendCopy,
         Validated, Buffered, SourceRead, PreScanPasses, PostScanPasses, SendWrite, WriteAnswered,
         MultipartAborts
<1> QED BY <1>1, <1>6, <1>7, <1>8, <1>9, <1>10, <1>11, <1>12, <1>13, <1>14, <1>15

\* A step of one call keeps what the cache owes.
LEMMA CallRemembers ==
    ASSUME CallInv, CachedWasAccepted, NamesOK, Remembered, NEW c \in Call,
           Start(c) \/ ServiceStep(c) \/ CallerCodeStep(c)
    PROVE  Remembered'
<1> USE DEF CallInv, TrustInv, TypeInv, TypeOK
<1>1. IsFiniteSet(StoredKeys')
  BY StoredKeysGrow DEF Remembered
<1>2. now' = now /\ now \in Nat
  BY DEF Start, ServiceStep, CallerCodeStep, UploadRefused, UploadAnswered, UploadBegins,
        Refused, SendDelete, BatchEmpty, SendBatch, SendCopy, Validated, Buffered, SourceRead,
        PreScanPasses, RejectedBeforeSending, PostScanPasses, PostScanFails, SendWrite,
        SendWithoutClient, WriteAnswered, WriteFails, MultipartAborts, MultipartNotCreated,
        MultipartStranded, AbortAnswered, AbortFails, RecordResult, RemoveAnswered, RemoveFails,
        ChunkAnswered, ChunkFails, AfterChunk, CopyAnswered, CopyFails, instance
<1>3. ASSUME NEW v \in Keyed', v \notin Keyed
      PROVE  v = c /\ RecordResult(c) /\ opt'[c] = opt[c] /\ outcome'[c].at = now
  <2>1. v = c /\ outcome'[c].kind = "stored"
    BY <1>3, KeyedStep DEF Keyed
  <2>2. RecordResult(c)
    BY <2>1, OnlyRecordStores
  <2> QED BY <2>1, <2>2, OutcomeKinds DEF RecordResult, Settles, Pending
<1>4. ASSUME NEW v \in Keyed' PROVE outcome'[v].at <= now'
  <2>1. CASE v \in Keyed
    BY <1>2, <2>1, KeyedStep DEF Remembered
  <2>2. CASE v \notin Keyed
    BY <1>2, <1>3, <2>2
  <2> QED BY <2>1, <2>2
<1>5. ASSUME NEW v \in Keyed', Owed(v)' PROVE Held(v)' \/ Aged(v)'
  <2>1. CASE v \notin Keyed
    <3>1. /\ v = c /\ RecordResult(c) /\ opt'[c] = opt[c] /\ outcome'[c].at = now
      BY <1>3, <2>1
    <3>2. opt[c].idem # NoIdem /\ KeyOf(c)' = KeyOf(c)
      BY <3>1 DEF Keyed, KeyOf
    <3>3. KeyOf(c) \in Cached(cache') /\ cache'.entries[KeyOf(c)].expiresAt = now + Ttl
      BY <1>5, <3>1, <3>2, HeldAtRecord DEF Owed, Remembered
    <3> QED BY <1>2, <3>1, <3>2, <3>3, CacheAssumption DEF Held
  <2>2. CASE v \in Keyed
    <3> DEFINE k == KeyOf(v)
    <3>1. outcome'[v] = outcome[v] /\ KeyOf(v)' = k /\ outcome[v].at <= now
      BY <2>2, KeyedStep DEF Remembered
    <3>2. Owed(v)
      BY <1>5, <2>2, OwedBefore DEF Remembered
    <3>3. Aged(v) => Aged(v)'
      BY <1>2, <3>1 DEF Aged
    <3>4. ASSUME Held(v), k \in Cached(cache'), cache'.entries[k] = cache.entries[k] PROVE Held(v)'
      BY <3>1, <3>4 DEF Held
    <3>5. ASSUME Held(v) PROVE Held(v)' \/ Aged(v)'
      <4>1. CASE UNCHANGED cache
        BY <3>4, <3>5, <4>1 DEF Held
      <4>2. ASSUME NEW o \in UploadAsk, UploadAnswered(c, o) \/ UploadBegins(c, o)
            PROVE  Held(v)' \/ Aged(v)'
        <5>1. CASE ~Live(cache, k, now)
          <6>1. cache.entries[k].expiresAt <= now
            <7>1. cache.entries[k].expiresAt \in Nat
              BY <3>5, EntryOfCached DEF Held, Entry
            <7> QED BY <1>2, <3>5, <5>1, <7>1 DEF Held, Live
          <6>2. outcome[v].at + Ttl <= cache.entries[k].expiresAt /\ cache.entries[k].expiresAt \in Nat
            BY <3>5, EntryOfCached DEF Held, Entry
          <6>3. outcome[v].at \in Nat
            BY <2>2 DEF Keyed, Outcome
          <6> HIDE DEF k
          <6>4. Aged(v)
            BY <1>2, <6>1, <6>2, <6>3, CacheAssumption DEF Aged
          <6> QED BY <3>3, <6>4
        <5>2. CASE k \in Cached(cache') /\ cache'.entries[k] = cache.entries[k]
          BY <3>4, <3>5, <5>2
        <5> QED BY <3>5, <4>2, <5>1, <5>2, HeldAtStart DEF Held
      <4>3. CASE RecordResult(c)
        <5>1. CASE opt[c].idem = NoIdem
          BY <4>1, <4>3, <5>1 DEF RecordResult
        <5>2. CASE opt[c].idem # NoIdem
          <6>1. /\ KeyOf(c) \in Cached(cache') /\ cache'.entries[KeyOf(c)].expiresAt = now + Ttl
                /\ \A x \in Cached(cache) \ {KeyOf(c)} :
                      x \in Cached(cache') /\ cache'.entries[x] = cache.entries[x]
            BY <1>5, <4>3, <5>2, HeldAtRecord DEF Owed, Remembered
          <6>2. CASE k = KeyOf(c)
            <7>1. outcome[v].at + Ttl <= now + Ttl
              <8>1. outcome[v].at \in Nat
                BY <2>2 DEF Keyed, Outcome
              <8> QED BY <1>2, <3>1, <8>1, CacheAssumption
            <7> QED BY <3>1, <6>1, <6>2, <7>1 DEF Held
          <6>3. CASE k # KeyOf(c)
            BY <3>4, <3>5, <6>1, <6>3 DEF Held
          <6> QED BY <6>2, <6>3
        <5> QED BY <5>1, <5>2
      <4>4. CASE RemoveAnswered(c) \/ ChunkAnswered(c) \/ ChunkFails(c)
        BY <1>5, <2>2, <3>2, <3>4, <3>5, <4>4, HeldAtRemove DEF Owed, Held
      <4> QED BY <4>1, <4>2, <4>3, <4>4, CacheChanges
    <3> QED BY <2>2, <3>2, <3>3, <3>5 DEF Remembered
  <2> QED BY <2>1, <2>2
<1> QED BY <1>1, <1>4, <1>5 DEF Remembered

\* So does every other step: time only makes uploads older.
LEMMA StepRemembers ==
    ASSUME CallInv, CachedWasAccepted, NamesOK, Remembered, [Next]_vars PROVE Remembered'
<1>1. ASSUME UNCHANGED <<cache, opt, outcome, withdrawn>>, now <= now' , now \in Nat, now' \in Nat
      PROVE  Remembered'
  <2>1. /\ Keyed' = Keyed /\ StoredKeys' = StoredKeys
        /\ \A v : Held(v)' = Held(v) /\ Owed(v)' = Owed(v)
    BY <1>1 DEF Keyed, StoredKeys, KeyOf, Held, Owed, OneBucket
  <2>2. ASSUME NEW v \in Keyed PROVE outcome'[v].at <= now' /\ (Aged(v) => Aged(v)')
    <3>1. outcome[v].at \in Nat /\ outcome[v].at <= now
      BY DEF Keyed, Remembered, CallInv, TrustInv, TypeInv, TypeOK, Outcome
    <3> QED BY <1>1, <3>1, CacheAssumption DEF Aged
  <2> QED BY <2>1, <2>2 DEF Remembered
<1>2. now \in Nat
  BY DEF CallInv, TrustInv, TypeInv, TypeOK
<1>3. CASE \E r \in wire : ApplyWrite(r) \/ ApplyRemove(r) \/ ApplyAbort(r)
  <2>1. UNCHANGED <<cache, opt, outcome, withdrawn, now>>
    BY <1>3 DEF ApplyWrite, ApplyRemove, ApplyAbort, instance, calls, history
  <2> QED BY <1>1, <1>2, <2>1
<1>4. CASE Shutdown \/ UNCHANGED vars
  <2>1. UNCHANGED <<cache, opt, outcome, withdrawn, now>>
    BY <1>4 DEF Shutdown, vars, instance, calls, history
  <2> QED BY <1>1, <1>2, <2>1
<1>5. CASE Tick
  <2>1. UNCHANGED <<cache, opt, outcome, withdrawn>> /\ now' = now + 1
    BY <1>5 DEF Tick, calls, history
  <2> QED BY <1>1, <1>2, <2>1
<1> QED BY <1>3, <1>4, <1>5, CallRemembers DEF Next

\* An upload that goes past the cache found no live entry under its key.
LEMMA PastTheCache ==
    ASSUME CallInv, [Next]_vars, NEW c \in Call, pc[c] = "idle", pc'[c] = "validate"
    PROVE  ~Live(cache, ComputeKey(opt'[c].idem, opt'[c].key), now)
<1> USE DEF CallInv, TrustInv, TypeInv, TypeOK
<1>1. PICK d \in Call : Start(d) \/ ServiceStep(d) \/ CallerCodeStep(d)
  <2>1. pc' # pc
    OBVIOUS
  <2> QED BY <2>1 DEF Next, ApplyWrite, ApplyRemove, ApplyAbort, Shutdown, Tick, vars, calls
<1>2. Start(c)
  <2>1. d = c
    BY <1>1, CallFrames DEF CallInv, TrustInv, Others
  <2>2. ~CallerCodeStep(c)
    BY DEF CallerCodeStep, Validated, Buffered, SourceRead, PreScanPasses, RejectedBeforeSending,
           PostScanPasses, PostScanFails
  <2>3. ~ServiceStep(c)
    BY DEF ServiceStep, SendWrite, SendWithoutClient, WriteAnswered, WriteFails,
        MultipartAborts, MultipartNotCreated, MultipartStranded, AbortAnswered, AbortFails,
        RecordResult, RemoveAnswered, RemoveFails, ChunkAnswered, ChunkFails, CopyAnswered,
        CopyFails
  <2> QED BY <1>1, <2>1, <2>2, <2>3
<1>3. PICK o \in UploadAsk : UploadBegins(c, o)
  <2>1. ASSUME NEW out, Settles(c, out) PROVE FALSE
    BY <2>1 DEF Settles, Goes
  <2>2. ASSUME NEW s, Goes(c, s) PROVE s = "validate"
    BY <2>2 DEF Goes
  <2>3. ASSUME NEW o, SendDelete(c, o) \/ SendBatch(c, o) \/ SendCopy(c, o) PROVE FALSE
    BY <2>2, <2>3 DEF SendDelete, SendBatch, SendCopy
  <2>4. ASSUME NEW o, UploadRefused(c, o) \/ UploadAnswered(c, o) \/ Refused(c, o) \/ BatchEmpty(c, o)
        PROVE  FALSE
    BY <2>1, <2>4 DEF UploadRefused, UploadAnswered, Refused, BatchEmpty
  <2> QED BY <1>2, <2>3, <2>4 DEF Start
<1>4. opt'[c] = o /\ ~Live(cache, ComputeKey(o.idem, o.key), now)
  BY <1>3 DEF UploadBegins, Begins
<1> QED BY <1>4

\* What is remembered answers the retries that are owed an answer.
LEMMA RememberedAnswers ==
    ASSUME CallInv, Remembered, [Next]_vars, NEW c \in Call, NEW v \in Call,
           pc[c] = "idle", pc'[c] = "validate",
           outcome[v].kind = "stored", SameUpload(opt[v], opt'[c]), now < outcome[v].at + Ttl,
           Owed(v)
    PROVE  FALSE
<1> DEFINE k == KeyOf(v)
<1>1. v \in Keyed /\ k = ComputeKey(opt'[c].idem, opt'[c].key)
  BY DEF SameUpload, Keyed, KeyOf
<1>2. now \in Nat /\ outcome[v].at \in Nat
  BY DEF CallInv, TrustInv, TypeInv, TypeOK, Outcome
<1>3. Held(v)
  BY <1>1, <1>2, CacheAssumption DEF Remembered, Aged
<1>4. ~Live(cache, k, now)
  BY <1>1, PastTheCache
<1>5. k \in Cached(cache) /\ cache.entries[k].expiresAt \in Nat
  BY <1>3, EntryOfCached DEF Held, Entry, CallInv, TrustInv, TypeInv, TypeOK
<1>6. outcome[v].at + Ttl <= cache.entries[k].expiresAt
  BY <1>3 DEF Held
<1>7. ~(now < cache.entries[k].expiresAt)
  BY <1>4, <1>5 DEF Live
<1> HIDE DEF k
<1> QED BY <1>2, <1>5, <1>6, <1>7, CacheAssumption

\* A retry made after the first upload returned is answered, not stored again:
\* for any number of calls, any cap and any lifetime, an upload goes past the
\* cache only if no stored upload with its idempotency key, bucket and key is
\* still owed an answer.
THEOREM RetriesAreAnswered == Spec => RetryIsAnswered
<1> DEFINE Inv == CallInv /\ CachedWasAccepted /\ NamesOK /\ NoWithdrawnAnswer /\ Remembered
<1>1. Inv /\ [Next]_vars => Inv'
  BY StepCallInv, StepAccepted, StepNoWithdrawn, StepRemembers DEF CallInv, TrustInv
<1>2. Init => Inv
  <2> SUFFICES ASSUME Init PROVE Inv
    OBVIOUS
  <2>1. CallInv /\ CachedWasAccepted /\ NamesOK /\ NoWithdrawnAnswer
    BY InitCallInv, EmptyIsCache DEF Init, CachedWasAccepted, NamesOK, NoWithdrawnAnswer
  <2>2. Keyed = {}
    BY OutcomeKinds DEF Init, Keyed
  <2>3. StoredKeys = {}
    BY <2>2 DEF StoredKeys
  <2> QED BY <2>1, <2>2, <2>3, FS_EmptySet DEF Remembered
<1>3. Inv /\ [Next]_vars =>
        [\A c, v \in Call :
         ~ /\ pc[c] = "idle" /\ pc'[c] = "validate"
           /\ outcome[v].kind = "stored" /\ SameUpload(opt[v], opt'[c])
           /\ now < outcome[v].at + Ttl /\ v \notin withdrawn
           /\ LET stored == { u \in Call : outcome[u].kind = "stored" /\ opt[u].idem # NoIdem }
              IN  /\ Cardinality({ ComputeKey(opt[u].idem, opt[u].key) : u \in stored }) <= MaxEntries
                  /\ \A u \in stored : opt[u].idem = opt[v].idem /\ opt[u].key = opt[v].key
                                         => opt[u].bucket = opt[v].bucket
        ]_vars
  BY RememberedAnswers DEF Owed, OneBucket, StoredKeys, Keyed, KeyOf
<1> QED BY <1>1, <1>2, <1>3, PTL DEF Spec, RetryIsAnswered
=============================================================================
