------------------------- MODULE ObjectReads_proofs -------------------------
(***************************************************************************)
(* What a read says of an object or a bucket, for any objects, writers,    *)
(* options and errors of the client.                                       *)
(*                                                                         *)
(* AnswersWereTrue says something of settled calls only. The invariant     *)
(* follows the answer from the provider on: while the request is under way *)
(* the history holds what is under the key, and what the provider answered *)
(* was so when it answered. It is what writers cannot take back, the       *)
(* history only grows.                                                     *)
(*                                                                         *)
(* ListingComplete says something of a listing at its end. The invariant   *)
(* follows it page by page: what has been there throughout and is not      *)
(* behind the token is on one page, what is behind it on none, and no      *)
(* entry goes on behind the token. That rests on what a page is: it takes  *)
(* the entries from the token on, whole groups of them, up to its size;    *)
(* and a name that keyPrefix was taken off of is the text it came from.    *)
(***************************************************************************)
EXTENDS ObjectReads, KeyResolver_proofs, TLAPS

UnderWay == {"sent", "answered", "streaming"}

Typed ==
    /\ object \in [Stored -> Etag \cup {Absent}]
    /\ pc \in {"idle", "settled"} \cup UnderWay
    /\ pc # "idle" => asked \in Options
    /\ pieces \subseteq (0..2) \X Etag
    /\ reply.etag \in Etag \cup {Absent}

\* The errors of the provider, each with what it says.
ErrorTrue(e) ==
    /\ e.Code = ""
    /\ \/ e.name = "NotFound" /\ e.status = 404 /\ asked.op \in {"head", "exists"} /\ Absent \in seen
       \/ e.name = "NotFound" /\ e.status = 404 /\ asked.op = "checkBucket"
              /\ asked.bucket = "missing"
       \/ e.name = "NoSuchBucket" /\ (asked.op = "list" \/ Gets(asked))
              /\ asked.bucket = "missing"
       \/ e.name = "NoSuchKey" /\ e.status = 404 /\ Gets(asked) /\ asked.bucket = "there"
              /\ Absent \in seen
       \/ e.name = "PreconditionFailed" /\ e.status = 412 /\ Gets(asked)
              /\ seen \ {asked.ifMatch, Absent} # {}
       \/ e.name = "NotModified" /\ e.status = 304 /\ Gets(asked) /\ asked.ifNoneMatch \in seen

ReplyTrue ==
    /\ reply.etag # Absent =>
           /\ reply.error = Absent /\ reply.etag \in seen /\ Reads(asked)
           /\ Gets(asked) => asked.ifMatch \in {Absent, reply.etag}
    /\ reply.etag = Absent /\ reply.error = Absent =>
           /\ asked.op \notin {"head", "exists"}
           /\ Gets(asked) => reply = NoReply
           /\ asked.op = "checkBucket" => asked.bucket = "there"
    /\ reply.error \in ClientErrors \cup {Absent} \/ ErrorTrue(reply.error)

Stages ==
    /\ pc \in UnderWay => asked.bucket \in {"there", "missing"}
    /\ pc \in {"sent", "answered"} => Under(asked, object) \in seen
    /\ pc \in {"answered", "streaming"} => ReplyTrue
    /\ pc = "streaming" => Gets(asked) /\ reply.etag # Absent

\* A call under way has pieces of an object only if it asks for that object.
PiecesFollow ==
    /\ pc = "idle" => pieces = {}
    /\ pieces # {} => Reads(asked)
    /\ pc = "settled" /\ outcome = "listed" => asked.op = "list"
    /\ pc \in UnderWay => \A p \in pieces : Gets(asked) /\ p[2] = asked.ifMatch
    /\ OneVersion

Inv == Typed /\ Stages /\ PiecesFollow /\ AnswersWereTrue
-----------------------------------------------------------------------------
(* What Under() returns is an etag, or that there is nothing.              *)
LEMMA UnderIsEtag ==
    ASSUME NEW o, NEW store \in [Stored -> Etag \cup {Absent}]
    PROVE  Under(o, store) \in Etag \cup {Absent}
BY DEF Under

(* The checks before the request.                                          *)
LEMMA RefusalIsRefusal ==
    ASSUME NEW o \in Options
    PROVE  /\ Refusal(o) \in {"", "STORAGE_NOT_CONFIGURED", "STORAGE_KEY_INVALID",
                              "STORAGE_BUCKET_UNDEFINED"}
           /\ Refusal(o) = "" => o.bucket \in {"there", "missing"}
BY DEF Refusal, Options

\* An answer that is this error.
Says(r, name, status) ==
    /\ r.etag = Absent /\ r.error # Absent
    /\ r.error.name = name /\ r.error.Code = "" /\ r.error.status = status

(* The answers of the provider are errors or not: Absent is neither.       *)
LEMMA FailingFails ==
    ASSUME NEW name \in {"NotFound", "NoSuchBucket", "NoSuchKey", "PreconditionFailed", "NotModified"},
           NEW status \in {304, 404, 412}
    PROVE  Says(Failing(name, status), name, status)
<1> DEFINE e == [name |-> name, Code |-> "", status |-> status]
<1>1. Failing(name, status).etag = Absent /\ Failing(name, status).error = e
  BY DEF Failing, NoReply
<1>2. e \in ProviderErrors
  BY DEF ProviderErrors
<1>3. e.name = name /\ e.Code = "" /\ e.status = status
  OBVIOUS
<1> HIDE DEF e
<1> QED BY <1>1, <1>2, <1>3, ErrorsAssumption, ReadsAssumption DEF Says

LEMMA ErrorsSay ==
    /\ Says(Failing("NotFound", 404), "NotFound", 404)
    /\ Says(Failing("NoSuchBucket", 404), "NoSuchBucket", 404)
    /\ Says(Failing("NoSuchKey", 404), "NoSuchKey", 404)
    /\ Says(Failing("PreconditionFailed", 412), "PreconditionFailed", 412)
    /\ Says(Failing("NotModified", 304), "NotModified", 304)
BY FailingFails

LEMMA Initially == Init => Inv
<1> SUFFICES ASSUME Init PROVE Inv
  OBVIOUS
<1>1. Typed
  <2>1. object \in [Stored -> Etag \cup {Absent}]
    BY DEF Init
  <2> QED BY <2>1 DEF Init, Typed, NoReply
<1>2. Stages /\ AnswersWereTrue
  BY DEF Init, Stages, AnswersWereTrue, UnderWay
<1>3. PiecesFollow
  BY DEF Init, PiecesFollow, OneVersion, UnderWay
<1> QED BY <1>1, <1>2, <1>3 DEF Inv

(* Whatever is asked for, the call goes on with it or is refused.          *)
LEMMA SendsOrRefuses ==
    ASSUME NEW o \in Options, Sends(o), Typed, OneVersion, pieces # {} => Reads(o),
           \A p \in pieces : Gets(o) /\ p[2] = o.ifMatch
    PROVE  Inv'
<1>0. /\ asked' = o /\ reply' = NoReply /\ object' = object /\ pieces' = pieces
      /\ (Refusal(o) = "" => pc' = "sent" /\ seen' = {Under(o, object)})
      /\ (Refusal(o) # "" => pc' = "settled" /\ outcome' = Rejection(o, Refusal(o)))
  BY DEF Sends, Settles
<1>1. Typed'
  <2>1. pc' \in {"sent", "settled"} /\ reply'.etag = Absent
    BY <1>0 DEF NoReply
  <2> QED BY <1>0, <2>1 DEF Typed, UnderWay
<1>2. Stages'
  <2>1. CASE Refusal(o) = ""
    <3>1. o.bucket \in {"there", "missing"}
      BY <2>1, RefusalIsRefusal
    <3>2. Under(asked, object)' = Under(o, object)
      BY <1>0
    <3> QED BY <1>0, <2>1, <3>1, <3>2 DEF Stages, UnderWay
  <2>2. CASE Refusal(o) # ""
    BY <1>0, <2>2 DEF Stages, UnderWay
  <2> QED BY <2>1, <2>2
<1>r. Refusal(o) # "" =>
          outcome' \in {"false", "STORAGE_NOT_CONFIGURED", "STORAGE_KEY_INVALID",
                       "STORAGE_BUCKET_UNDEFINED"}
  BY <1>0, RefusalIsRefusal DEF Rejection, ExistsOutcome
<1>3. PiecesFollow'
  <2>1. pc' # "idle" /\ ~(pc' = "settled" /\ outcome' = "listed")
    BY <1>0, <1>r
  <2>2. (pieces # {} => Reads(o))' /\ OneVersion'
    BY <1>0 DEF OneVersion
  <2>3. (pieces' # {} => Reads(asked'))  /\ \A p \in pieces' : Gets(asked') /\ p[2] = asked'.ifMatch
    BY <1>0
  <2>4. Reads(asked)' = Reads(asked') /\ Gets(asked)' = Gets(asked')
    OBVIOUS
  <2> QED BY <2>1, <2>2, <2>3, <2>4 DEF PiecesFollow
<1>4. AnswersWereTrue'
  <2>1. CASE Refusal(o) = ""
    BY <1>0, <2>1 DEF AnswersWereTrue
  <2>2. CASE Refusal(o) # ""
    <3>1. outcome' \in {"false", "STORAGE_NOT_CONFIGURED", "STORAGE_KEY_INVALID",
                        "STORAGE_BUCKET_UNDEFINED"}
      BY <1>r, <2>2
    <3>2. reply'.error = Absent
      BY <1>0 DEF NoReply
    <3> QED BY <3>1, <3>2 DEF AnswersWereTrue
  <2> QED BY <2>1, <2>2
<1> QED BY <1>1, <1>2, <1>3, <1>4 DEF Inv
-----------------------------------------------------------------------------
(* GetObject answers for what is under the key, or says why not.           *)
LEMMA GetRepliesTruly ==
    ASSUME NEW etag \in Etag \cup {Absent}, etag \in seen, Gets(asked),
           asked.bucket \in {"there", "missing"}
    PROVE  LET r == GetReply(asked, etag)
           IN  /\ r.etag \in {Absent, etag}
               /\ r.etag # Absent => r.error = Absent /\ asked.ifMatch \in {Absent, etag}
               /\ r.etag = Absent => r.error # Absent /\ ErrorTrue(r.error)
<1> DEFINE r == GetReply(asked, etag)
<1>0. GetInput(asked).ifMatch = asked.ifMatch /\ GetInput(asked).ifNoneMatch = asked.ifNoneMatch
  BY DEF GetInput
<1>1. CASE asked.bucket = "missing"
  <2>1. r = Failing("NoSuchBucket", 404)
    BY <1>1 DEF GetReply
  <2>2. asked.op # "checkBucket"
    BY DEF Gets
  <2>3. Says(r, "NoSuchBucket", 404)
    BY <2>1, ErrorsSay
  <2>4. r.etag = Absent /\ r.error # Absent
    BY <2>3 DEF Says
  <2>5. r.error.name = "NoSuchBucket" /\ r.error.Code = "" /\ r.error.status = 404
    BY <2>3 DEF Says
  <2>6. ErrorTrue(r.error)
    BY <1>1, <2>2, <2>5 DEF ErrorTrue
  <2> QED BY <2>4, <2>6
<1>2. CASE asked.bucket = "there" /\ etag = Absent
  <2>1. r = Failing("NoSuchKey", 404)
    BY <1>2 DEF GetReply
  <2>2. Says(r, "NoSuchKey", 404)
    BY <2>1, ErrorsSay
  <2>3. r.etag = Absent /\ r.error # Absent
    BY <2>2 DEF Says
  <2>4. r.error.name = "NoSuchKey" /\ r.error.Code = "" /\ r.error.status = 404
    BY <2>2 DEF Says
  <2>5. ErrorTrue(r.error)
    BY <1>2, <2>4 DEF ErrorTrue
  <2> QED BY <2>3, <2>5
<1>3. CASE asked.bucket = "there" /\ etag # Absent /\ asked.ifMatch \notin {Absent, etag}
  <2>1. r = Failing("PreconditionFailed", 412)
    BY <1>0, <1>3 DEF GetReply
  <2>2. etag \in seen \ {asked.ifMatch, Absent}
    BY <1>3
  <2>3. Says(r, "PreconditionFailed", 412)
    BY <2>1, ErrorsSay
  <2>4. r.etag = Absent /\ r.error # Absent
    BY <2>3 DEF Says
  <2>5. r.error.name = "PreconditionFailed" /\ r.error.Code = "" /\ r.error.status = 412
    BY <2>3 DEF Says
  <2>6. ErrorTrue(r.error)
    BY <2>2, <2>5 DEF ErrorTrue
  <2> QED BY <2>4, <2>6
<1>4. CASE /\ asked.bucket = "there" /\ etag # Absent /\ asked.ifMatch \in {Absent, etag}
           /\ asked.ifNoneMatch = etag
  <2>1. r = Failing("NotModified", 304)
    BY <1>0, <1>4 DEF GetReply
  <2>2. Says(r, "NotModified", 304)
    BY <2>1, ErrorsSay
  <2>3. r.etag = Absent /\ r.error # Absent
    BY <2>2 DEF Says
  <2>4. r.error.name = "NotModified" /\ r.error.Code = "" /\ r.error.status = 304
    BY <2>2 DEF Says
  <2>5. ErrorTrue(r.error)
    BY <1>4, <2>4 DEF ErrorTrue
  <2> QED BY <2>3, <2>5
<1>5. CASE /\ asked.bucket = "there" /\ etag # Absent /\ asked.ifMatch \in {Absent, etag}
           /\ asked.ifNoneMatch # etag
  <2>1. r = [NoReply EXCEPT !.etag = etag]
    BY <1>0, <1>5 DEF GetReply
  <2>2. r.etag = etag /\ r.error = Absent
    BY <2>1 DEF NoReply
  <2> QED BY <1>5, <2>2
<1> QED BY <1>1, <1>2, <1>3, <1>4, <1>5

(* And the other operations of the provider.                               *)
LEMMA ProviderRepliesTruly ==
    ASSUME Inv, Applies
    PROVE  ReplyTrue' /\ reply'.etag \in Etag \cup {Absent}
<1> USE DEF Inv
<1>0. /\ asked' = asked /\ seen' = seen /\ asked \in Options
      /\ asked.bucket \in {"there", "missing"}
      /\ Under(asked, object) \in seen /\ Under(asked, object) \in Etag \cup {Absent}
  BY UnderIsEtag DEF Applies, history, Typed, Stages, UnderWay
<1> DEFINE etag == Under(asked, object)
<1>1. CASE asked.op = "list"
  <2>1. reply' = ListReply(asked)
    BY <1>1 DEF Applies
  <2>2. CASE asked.bucket = "missing"
    <3>1. reply' = Failing("NoSuchBucket", 404)
      BY <2>1, <2>2 DEF ListReply
    <3>2. Says(reply', "NoSuchBucket", 404)
      BY <3>1, ErrorsSay
    <3>3. reply'.etag = Absent /\ reply'.error # Absent
      BY <3>2 DEF Says
    <3>4. reply'.error.name = "NoSuchBucket" /\ reply'.error.Code = "" /\ reply'.error.status = 404
      BY <3>2 DEF Says
    <3>5. ErrorTrue(reply'.error)
      BY <1>1, <2>2, <3>4 DEF ErrorTrue
    <3>6. ErrorTrue(reply.error)'
      BY <1>0, <3>5 DEF ErrorTrue, Gets
    <3> QED BY <3>3, <3>6 DEF ReplyTrue
  <2>3. CASE asked.bucket = "there"
    <3>1. reply'.etag = Absent /\ reply'.error = Absent
      BY <2>1, <2>3 DEF ListReply, NoReply
    <3> QED BY <1>0, <1>1, <3>1 DEF ReplyTrue, Gets
  <2> QED BY <1>0, <2>2, <2>3
<1>2. CASE asked.op = "checkBucket"
  <2>1. CASE asked.bucket = "missing"
    <3>1. reply' = Failing("NotFound", 404)
      BY <1>2, <2>1 DEF Applies
    <3>2. Says(reply', "NotFound", 404)
      BY <3>1, ErrorsSay
    <3>3. reply'.etag = Absent /\ reply'.error # Absent
      BY <3>2 DEF Says
    <3>4. reply'.error.name = "NotFound" /\ reply'.error.Code = "" /\ reply'.error.status = 404
      BY <3>2 DEF Says
    <3>5. ErrorTrue(reply'.error)
      BY <1>2, <2>1, <3>4 DEF ErrorTrue
    <3>6. ErrorTrue(reply.error)'
      BY <1>0, <3>5 DEF ErrorTrue, Gets
    <3> QED BY <3>3, <3>6 DEF ReplyTrue
  <2>2. CASE asked.bucket = "there"
    <3>1. reply' = NoReply
      BY <1>2, <2>2 DEF Applies
    <3> QED BY <1>0, <1>2, <2>2, <3>1 DEF ReplyTrue, Gets, NoReply
  <2> QED BY <1>0, <2>1, <2>2
<1>3. CASE Gets(asked)
  <2>1. reply' = GetReply(asked, etag)
    BY <1>3 DEF Applies, Gets
  <2>2. /\ reply'.etag \in {Absent, etag}
        /\ reply'.etag # Absent => reply'.error = Absent /\ asked.ifMatch \in {Absent, etag}
        /\ reply'.etag = Absent => reply'.error # Absent /\ ErrorTrue(reply'.error)
    BY <1>0, <1>3, <2>1, GetRepliesTruly
  <2>3. CASE reply'.etag = Absent
    <3>1. ErrorTrue(reply.error)'
      BY <1>0, <2>2, <2>3 DEF ErrorTrue, Gets
    <3> QED BY <2>2, <2>3, <3>1 DEF ReplyTrue
  <2>4. CASE reply'.etag # Absent
    BY <1>0, <1>3, <2>2, <2>4 DEF ReplyTrue, Reads, Gets
  <2> QED BY <1>0, <2>2, <2>3, <2>4
<1>4. CASE asked.op \in {"head", "exists"}
  <2>1. reply' = HeadReply(etag) /\ ~Gets(asked) /\ Reads(asked)
    BY <1>4 DEF Applies, Gets, Reads
  <2>2. CASE etag = Absent
    <3>1. reply' = Failing("NotFound", 404)
      BY <2>1, <2>2 DEF HeadReply
    <3>2. Says(reply', "NotFound", 404)
      BY <3>1, ErrorsSay
    <3>3. reply'.etag = Absent /\ reply'.error # Absent
      BY <3>2 DEF Says
    <3>4. reply'.error.name = "NotFound" /\ reply'.error.Code = "" /\ reply'.error.status = 404
      BY <3>2 DEF Says
    <3>5. ErrorTrue(reply'.error)
      BY <1>0, <1>4, <2>2, <3>4 DEF ErrorTrue
    <3>6. ErrorTrue(reply.error)'
      BY <1>0, <3>5 DEF ErrorTrue, Gets
    <3> QED BY <3>3, <3>6 DEF ReplyTrue
  <2>3. CASE etag # Absent
    <3>1. reply'.etag = etag /\ reply'.error = Absent
      BY <2>1, <2>3 DEF HeadReply, NoReply
    <3> QED BY <1>0, <2>1, <2>3, <3>1 DEF ReplyTrue
  <2> QED BY <2>2, <2>3
<1>5. asked.op \in {"list", "checkBucket", "head", "exists"} \/ Gets(asked)
  BY <1>0 DEF Options, Operation, Gets
<1> QED BY <1>1, <1>2, <1>3, <1>4, <1>5

(* The steps of the provider and of the client's transport.                *)
LEMMA RepliesKeepInv ==
    ASSUME Inv, Applies \/ ClientFails \/ AnswersEmpty
    PROVE  Inv'
<1> USE DEF Inv
<1>0. /\ asked' = asked /\ seen' = seen /\ object' = object /\ pieces' = pieces
      /\ pc \in {"sent", "answered"} /\ pc' = "answered"
  BY DEF Applies, ClientFails, AnswersEmpty, history, result
<1>1. ReplyTrue' /\ reply'.etag \in Etag \cup {Absent}
  <2>1. CASE Applies
    BY <2>1, ProviderRepliesTruly
  <2>2. CASE ClientFails
    <3>1. PICK e \in ClientErrors : reply' = [NoReply EXCEPT !.error = e]
      BY <2>2 DEF ClientFails
    <3>2. reply'.etag = Absent /\ reply'.error = e /\ e # Absent
      BY <3>1, ReadsAssumption DEF NoReply
    <3> QED BY <3>2 DEF ReplyTrue
  <2>3. CASE AnswersEmpty
    <3>1. reply' = NoReply /\ Gets(asked)
      BY <2>3 DEF AnswersEmpty
    <3> QED BY <1>0, <3>1 DEF ReplyTrue, NoReply, Gets
  <2> QED BY <2>1, <2>2, <2>3
<1>2. Typed'
  BY <1>0, <1>1 DEF Typed, UnderWay
<1>3. Under(asked, object)' = Under(asked, object)
  BY <1>0 DEF Under, Reads
<1>4. Stages'
  BY <1>0, <1>1, <1>3 DEF Stages, UnderWay
<1>5. PiecesFollow'
  BY <1>0 DEF PiecesFollow, OneVersion, UnderWay, Gets, Reads
<1>6. AnswersWereTrue'
  BY <1>0 DEF AnswersWereTrue
<1> QED BY <1>2, <1>4, <1>5, <1>6

(* A writer cannot make untrue what was answered.                          *)
LEMMA PutKeepsInv ==
    ASSUME Inv, Put
    PROVE  Inv'
<1> USE DEF Inv
<1>0. /\ asked' = asked /\ pieces' = pieces /\ pc' = pc /\ reply' = reply /\ outcome' = outcome
      /\ (pc \in {"sent", "answered"} => seen' = seen \cup {Under(asked, object')})
      /\ (pc \notin {"sent", "answered"} => seen' = seen)
  BY DEF Put, result
<1>1. object' \in [Stored -> Etag \cup {Absent}]
  <2>1. PICK text \in Stored : \E e \in Versions[text] \cup {Absent} :
            object' = [object EXCEPT ![text] = e]
    BY DEF Put
  <2>0. PICK etag \in Versions[text] \cup {Absent} : object' = [object EXCEPT ![text] = etag]
    BY <2>1
  <2>2. etag \in Etag \cup {Absent}
    BY <2>0, ReadsAssumption
  <2> QED BY <2>0, <2>2 DEF Typed
<1>2. Typed'
  BY <1>0, <1>1 DEF Typed
<1>3. Under(asked, object)' = Under(asked, object')
  BY <1>0 DEF Under, Reads
<1>4. seen \subseteq seen'
  BY <1>0
<1>5. ReplyTrue => ReplyTrue'
  <2>1. /\ Absent \in seen => Absent \in seen'
        /\ asked.ifNoneMatch \in seen => asked.ifNoneMatch \in seen'
        /\ seen \ {asked.ifMatch, Absent} # {} => seen' \ {asked.ifMatch, Absent} # {}
    BY <1>4
  <2>2. ErrorTrue(reply.error) => ErrorTrue(reply.error)'
    BY <1>0, <2>1 DEF ErrorTrue, Gets
  <2> QED BY <1>0, <1>4, <2>2 DEF ReplyTrue, Gets, Reads
<1>6. Stages'
  BY <1>0, <1>3, <1>5 DEF Stages, Gets
<1>7. PiecesFollow'
  BY <1>0 DEF PiecesFollow, OneVersion, Gets, Reads
<1>8. AnswersWereTrue'
  BY <1>0 DEF AnswersWereTrue, Gets
<1> QED BY <1>2, <1>6, <1>7, <1>8
-----------------------------------------------------------------------------
(* Errors of the client say nothing of the object: mapAwsError().          *)
LEMMA ClientErrorsSayNothing ==
    ASSUME NEW e \in ClientErrors, NEW o
    PROVE  Mapped(o, e) \notin {"listed", "found", "true", "reachable", "false", "STORAGE_OBJECT_NOT_FOUND",
                               "STORAGE_BUCKET_NOT_FOUND", "STORAGE_NOT_MODIFIED",
                               "STORAGE_PRECONDITION_FAILED"}
<1>1. AwsCode(e) # "NoSuchBucket" /\ e.name # "NotFound" /\ e.status # 304 /\ e.status # 404
        /\ e.status # 412
  BY ClientAssumption
<1>2. MapAwsError(e) \in {"STORAGE_TIMEOUT", "STORAGE_PROVIDER_ERROR"}
  BY <1>1 DEF MapAwsError
<1>3. Mapped(o, e) \in {"STORAGE_TIMEOUT", "STORAGE_PROVIDER_ERROR",
                       "STORAGE_BUCKET_REGION_MISMATCH", "STORAGE_BUCKET_ACCESS_DENIED"}
  BY <1>1, <1>2 DEF Mapped, MapBucketCheckError
<1> QED BY <1>3

\* What a code says of the object or the bucket is so.
CodeTrue(code) ==
    \/ /\ code = "STORAGE_OBJECT_NOT_FOUND" /\ Absent \in seen
       /\ asked.op \in {"head", "exists"} \/ (Gets(asked) /\ asked.bucket = "there")
    \/ code = "STORAGE_BUCKET_NOT_FOUND" /\ asked.bucket = "missing"
    \/ code = "STORAGE_PRECONDITION_FAILED" /\ Gets(asked) /\ seen \ {asked.ifMatch, Absent} # {}
    \/ code = "STORAGE_NOT_MODIFIED" /\ Gets(asked) /\ asked.ifNoneMatch \in seen

(* And those of the provider are passed on for what they are: the missing  *)
(* bucket, with its status 404, is not a missing object.                   *)
LEMMA ErrorsAreMappedTruly ==
    ASSUME NEW e, ErrorTrue(e)
    PROVE  CodeTrue(Mapped(asked, e))
<1>0. e.Code = "" /\ AwsCode(e) = e.name
  BY DEF ErrorTrue, AwsCode
<1>1. CASE e.name = "NotFound" /\ e.status = 404 /\ asked.op \in {"head", "exists"}
             /\ Absent \in seen
  <2>1. MapAwsError(e) = "STORAGE_OBJECT_NOT_FOUND"
    BY <1>0, <1>1 DEF MapAwsError
  <2> QED BY <1>1, <2>1 DEF Mapped, CodeTrue
<1>2. CASE e.name = "NotFound" /\ e.status = 404 /\ asked.op = "checkBucket"
             /\ asked.bucket = "missing"
  <2>1. MapBucketCheckError(e) = "STORAGE_BUCKET_NOT_FOUND"
    BY <1>2 DEF MapBucketCheckError
  <2> QED BY <1>2, <2>1 DEF Mapped, CodeTrue
<1>3. CASE e.name = "NoSuchBucket" /\ (asked.op = "list" \/ Gets(asked))
              /\ asked.bucket = "missing"
  <2>1. MapAwsError(e) = "STORAGE_BUCKET_NOT_FOUND"
    BY <1>0, <1>3 DEF MapAwsError
  <2> QED BY <1>3, <2>1 DEF Mapped, Gets, CodeTrue
<1>4. CASE e.name = "NoSuchKey" /\ e.status = 404 /\ Gets(asked) /\ asked.bucket = "there"
             /\ Absent \in seen
  <2>1. MapAwsError(e) = "STORAGE_OBJECT_NOT_FOUND"
    BY <1>0, <1>4 DEF MapAwsError
  <2> QED BY <1>4, <2>1 DEF Mapped, Gets, CodeTrue
<1>5. CASE e.name = "PreconditionFailed" /\ e.status = 412 /\ Gets(asked)
             /\ seen \ {asked.ifMatch, Absent} # {}
  <2>2. e.name = "PreconditionFailed" /\ e.status = 412
    BY <1>5
  <2>3. AwsCode(e) # "NoSuchBucket" /\ e.name # "NotFound"
    BY <1>0, <2>2
  <2>4. e.status # 404 /\ e.status # 304
    BY <2>2
  <2>1. MapAwsError(e) = "STORAGE_PRECONDITION_FAILED"
    BY <2>2, <2>3, <2>4 DEF MapAwsError
  <2> QED BY <1>5, <2>1 DEF Mapped, Gets, CodeTrue
<1>6. CASE e.name = "NotModified" /\ e.status = 304 /\ Gets(asked) /\ asked.ifNoneMatch \in seen
  <2>2. e.name = "NotModified" /\ e.status = 304
    BY <1>6
  <2>3. AwsCode(e) # "NoSuchBucket" /\ e.name # "NotFound"
    BY <1>0, <2>2
  <2>4. e.status # 404
    BY <2>2
  <2>1. MapAwsError(e) = "STORAGE_NOT_MODIFIED"
    BY <2>2, <2>3, <2>4 DEF MapAwsError
  <2> QED BY <1>6, <2>1 DEF Mapped, Gets, CodeTrue
<1>7. \/ e.name = "NotFound" /\ e.status = 404 /\ asked.op \in {"head", "exists"} /\ Absent \in seen
      \/ e.name = "NotFound" /\ e.status = 404 /\ asked.op = "checkBucket"
             /\ asked.bucket = "missing"
      \/ e.name = "NoSuchBucket" /\ (asked.op = "list" \/ Gets(asked)) /\ asked.bucket = "missing"
      \/ e.name = "NoSuchKey" /\ e.status = 404 /\ Gets(asked) /\ asked.bucket = "there"
             /\ Absent \in seen
      \/ e.name = "PreconditionFailed" /\ e.status = 412 /\ Gets(asked)
             /\ seen \ {asked.ifMatch, Absent} # {}
      \/ e.name = "NotModified" /\ e.status = 304 /\ Gets(asked) /\ asked.ifNoneMatch \in seen
  BY DEF ErrorTrue
<1> QED BY <1>1, <1>2, <1>3, <1>4, <1>5, <1>6, <1>7

LEMMA FailsKeepsInv ==
    ASSUME Inv, Fails
    PROVE  Inv'
<1> USE DEF Inv
<1>0. /\ asked' = asked /\ seen' = seen /\ object' = object /\ pieces' = pieces /\ reply' = reply
      /\ pc = "answered" /\ pc' = "settled" /\ reply.error # Absent
      /\ outcome' = Rejection(asked, Mapped(asked, reply.error))
      /\ reply.error \in ClientErrors \/ ErrorTrue(reply.error)
  BY DEF Fails, Settles, history, Stages, ReplyTrue
<1>1. Typed'
  BY <1>0 DEF Typed, UnderWay
<1>2. Stages'
  BY <1>0 DEF Stages, UnderWay
<1>3. PiecesFollow'
  <2>1. Mapped(asked, reply.error) # "listed"
    BY <1>0, ClientErrorsSayNothing, ErrorsAreMappedTruly DEF CodeTrue
  <2>2. outcome' # "listed"
    BY <1>0, <2>1 DEF Rejection, ExistsOutcome
  <2> QED BY <1>0, <2>2 DEF PiecesFollow, OneVersion, UnderWay, Reads
<1>4. AnswersWereTrue'
  <2>1. CASE reply.error \in ClientErrors
    <3>1. \/ asked.op = "exists" /\ outcome' = "false"
          \/ outcome' = Mapped(asked, reply.error)
      BY <1>0 DEF Rejection, ExistsOutcome
    <3>2. CASE outcome' = "false"
      BY <1>0, <2>1, <3>2 DEF AnswersWereTrue
    <3>3. CASE outcome' = Mapped(asked, reply.error)
      BY <1>0, <2>1, <3>3, ClientErrorsSayNothing DEF AnswersWereTrue
    <3> QED BY <3>1, <3>2, <3>3
  <2>2. CASE ErrorTrue(reply.error)
    <3> DEFINE code == Mapped(asked, reply.error)
    <3>0. CodeTrue(code)
      BY <2>2, ErrorsAreMappedTruly
    <3> HIDE DEF code
    <3>1. CASE asked.op = "exists"
      <4>1. outcome' = "false"
        BY <1>0, <3>1 DEF Rejection, ExistsOutcome
      <4>3. Absent \in seen
        BY <2>2, <3>1 DEF ErrorTrue, Gets
      <4> QED BY <1>0, <4>1, <4>3 DEF AnswersWereTrue
    <3>2. CASE asked.op # "exists"
      <4>1. outcome' = code
        BY <1>0, <3>2 DEF Rejection, code
      <4>2. Gets(asked)' = Gets(asked)
        BY <1>0 DEF Gets
      <4>3. asked.op \in {"head", "exists"} => ~Gets(asked)
        BY DEF Gets
      <4> QED BY <1>0, <3>0, <4>1, <4>2, <4>3 DEF CodeTrue, AnswersWereTrue
    <3> QED BY <3>1, <3>2
  <2> QED BY <1>0, <2>1, <2>2
<1> QED BY <1>1, <1>2, <1>3, <1>4
-----------------------------------------------------------------------------
(* What is received is of the version the caller has, if it has any.       *)
LEMMA ReceivesKeepsPieces ==
    ASSUME Typed, PiecesFollow, ReplyTrue, Gets(asked), reply.etag # Absent, pc \in UnderWay,
           Receives, asked' = asked, reply' = reply, pc' = "settled", outcome' = "found"
    PROVE  /\ pieces' \subseteq (0..2) \X Etag
           /\ \A p \in pieces' : p[2] = reply.etag
           /\ \E p \in pieces' : p[2] = reply.etag
           /\ PiecesFollow'
<1>1. pieces' = pieces \cup (Halves(asked) \X {reply.etag})
  BY DEF Receives
<1>2. /\ Halves(asked) \subseteq 0..2 /\ Halves(asked) # {}
      /\ reply.etag \in Etag /\ asked.ifMatch \in {Absent, reply.etag}
  <2>1. asked.half \in {0, 1, 2} /\ GetInput(asked).range = asked.half
    BY DEF Typed, Options, UnderWay, GetInput
  <2>2. Halves(asked) = {1, 2} \/ Halves(asked) = {asked.half}
    BY <2>1 DEF Halves
  <2> QED BY <2>1, <2>2 DEF Typed, ReplyTrue
<1>3. \A p \in pieces : p \in (0..2) \X Etag /\ p[2] = reply.etag
  <2> SUFFICES ASSUME NEW p \in pieces PROVE p \in (0..2) \X Etag /\ p[2] = reply.etag
    OBVIOUS
  <2>1. p \in (0..2) \X Etag /\ p[2] \in Etag
    BY DEF Typed
  <2>2. p[2] = asked.ifMatch
    BY DEF PiecesFollow
  <2> QED BY <1>2, <2>1, <2>2, ReadsAssumption
<1>4. \A p \in Halves(asked) \X {reply.etag} : p \in (0..2) \X Etag /\ p[2] = reply.etag
  BY <1>2
<1>5. \A p \in pieces' : p \in (0..2) \X Etag /\ p[2] = reply.etag
  BY <1>1, <1>3, <1>4
<1>6. \E p \in pieces' : p[2] = reply.etag
  <2>1. PICK h \in Halves(asked) : TRUE
    BY <1>2
  <2>2. <<h, reply.etag>> \in pieces'
    BY <1>1, <2>1
  <2> QED BY <2>2
<1>7. PiecesFollow'
  <2>1. OneVersion'
    BY <1>5 DEF OneVersion
  <2>2. Reads(asked)'
    BY DEF Gets, Reads
  <2> QED BY <2>1, <2>2 DEF PiecesFollow, UnderWay
<1> QED BY <1>5, <1>6, <1>7

LEMMA DownloadKeepsInv ==
    ASSUME Inv, DownloadAnswered \/ BufferRead
    PROVE  Inv'
<1> USE DEF Inv
<1>0. /\ asked' = asked /\ seen' = seen /\ object' = object /\ reply' = reply
      /\ pc \in {"answered", "streaming"} /\ Gets(asked) /\ ReplyTrue
      /\ (pc = "streaming" => reply.etag # Absent)
      /\ (pc = "answered" => reply.error = Absent)
  BY DEF DownloadAnswered, BufferRead, Answered, history, Stages
<1>00. Gets(asked)' = Gets(asked) /\ Reads(asked)' = Reads(asked) /\ Reads(asked)
  BY <1>0 DEF Gets, Reads
<1>1. CASE reply.etag = Absent
  <2>1. /\ pc' = "settled" /\ outcome' = "STORAGE_OBJECT_NOT_FOUND" /\ pieces' = pieces
        /\ reply' = NoReply
    BY <1>0, <1>1 DEF DownloadAnswered, BufferRead, Settles, ReplyTrue
  <2>2. Typed' /\ Stages'
    BY <1>0, <2>1 DEF Typed, Stages, UnderWay
  <2>3. PiecesFollow'
    BY <1>0, <1>00, <2>1 DEF PiecesFollow, OneVersion, UnderWay
  <2>4. AnswersWereTrue'
    BY <2>1 DEF AnswersWereTrue
  <2> QED BY <2>2, <2>3, <2>4
<1>2. CASE reply.etag # Absent /\ pc' = "settled"
  <2>1. outcome' = "found" /\ Receives
    BY <1>0, <1>2 DEF DownloadAnswered, BufferRead, Settles
  <2>2. /\ pieces' \subseteq (0..2) \X Etag /\ PiecesFollow'
        /\ \E p \in pieces' : p[2] = reply.etag
    BY <1>0, <1>2, <2>1, ReceivesKeepsPieces DEF UnderWay
  <2>3. Typed' /\ Stages'
    BY <1>0, <1>2, <2>2 DEF Typed, Stages, UnderWay
  <2>4. reply.etag \in seen
    BY <1>0, <1>2 DEF ReplyTrue
  <2>5. AnswersWereTrue'
    BY <1>0, <1>2, <2>1, <2>2, <2>4 DEF AnswersWereTrue
  <2> QED BY <2>2, <2>3, <2>5
<1>3. CASE reply.etag # Absent /\ pc' # "settled"
  <2>1. pc = "answered" /\ pc' = "streaming" /\ pieces' = pieces
    <3>1. ~BufferRead
      BY <1>3 DEF BufferRead, Settles
    <3> QED BY <1>3, <3>1 DEF DownloadAnswered, Answered, Settles
  <2>2. Typed'
    BY <1>0, <2>1 DEF Typed, UnderWay
  <2>3. ReplyTrue'
    <3>1. reply.error = Absent
      BY <1>0, <2>1
    <3> QED BY <1>0, <1>00, <1>3, <3>1 DEF ReplyTrue
  <2>4. Stages'
    BY <1>0, <1>00, <1>3, <2>1, <2>3 DEF Stages, UnderWay
  <2>5. PiecesFollow'
    BY <1>0, <1>00, <2>1 DEF PiecesFollow, OneVersion, UnderWay
  <2>6. AnswersWereTrue'
    BY <2>1 DEF AnswersWereTrue
  <2> QED BY <2>2, <2>4, <2>5, <2>6
<1> QED BY <1>1, <1>2, <1>3

(* The answers that bring no part of an object.                            *)
LEMMA OthersKeepInv ==
    ASSUME Inv, HeadAnswered \/ BufferBreaks \/ CheckAnswered \/ ListAnswered
    PROVE  Inv'
<1> USE DEF Inv
<1>0. /\ asked' = asked /\ seen' = seen /\ object' = object /\ reply' = reply
      /\ pc \in {"answered", "streaming"} /\ pc' = "settled" /\ ReplyTrue
  BY DEF HeadAnswered, BufferBreaks, CheckAnswered, ListAnswered, Settles, Answered, history, Stages
<1>1. Stages'
  BY <1>0 DEF Stages, UnderWay
<1>2. CASE HeadAnswered
  <2>1. /\ asked.op \in {"head", "exists"} /\ outcome' \in {"found", "true"}
        /\ pieces' = {<<0, reply.etag>>} /\ reply.etag # Absent
    BY <1>0, <1>2 DEF HeadAnswered, Answered, Settles, ReplyTrue
  <2>2. reply.etag \in seen /\ reply.etag \in Etag
    BY <1>0, <2>1 DEF ReplyTrue, Typed
  <2>3. Typed'
    BY <1>0, <2>1, <2>2 DEF Typed, UnderWay
  <2>4. PiecesFollow'
    BY <1>0, <2>1 DEF PiecesFollow, OneVersion, UnderWay, Reads
  <2>5. \E p \in pieces' : p[2] \in seen'
    BY <1>0, <2>1, <2>2
  <2>6. AnswersWereTrue'
    BY <2>1, <2>5 DEF AnswersWereTrue
  <2> QED BY <1>1, <2>3, <2>4, <2>6
<1>3. CASE BufferBreaks \/ CheckAnswered \/ ListAnswered
  <2>1. /\ pieces' = pieces /\ outcome' \in {"Error", "reachable", "listed"}
        /\ (outcome' = "listed" => asked.op = "list")
    BY <1>3 DEF BufferBreaks, CheckAnswered, ListAnswered, Settles
  <2>2. outcome' = "reachable" => asked.bucket = "there"
    <3> SUFFICES ASSUME outcome' = "reachable" PROVE asked.bucket = "there"
      OBVIOUS
    <3>1. CheckAnswered
      BY <1>3 DEF BufferBreaks, ListAnswered, Settles
    <3>2. asked.op = "checkBucket" /\ reply.error = Absent
      BY <3>1 DEF CheckAnswered, Answered
    <3> QED BY <1>0, <3>2 DEF ReplyTrue, Reads
  <2>3. Typed'
    BY <1>0, <2>1 DEF Typed, UnderWay
  <2>4. PiecesFollow'
    BY <1>0, <2>1 DEF PiecesFollow, OneVersion, UnderWay, Reads
  <2>5. AnswersWereTrue'
    BY <1>0, <2>1, <2>2 DEF AnswersWereTrue
  <2> QED BY <1>1, <2>3, <2>4, <2>5
<1> QED BY <1>2, <1>3

LEMMA RestIsOptions ==
    ASSUME NEW o \in Options, NEW e \in Etag
    PROVE  /\ [o EXCEPT !.half = 2, !.ifMatch = e, !.ifNoneMatch = Absent] \in Options
           /\ [o EXCEPT !.half = 2, !.ifMatch = e, !.ifNoneMatch = Absent].ifMatch = e
           /\ [o EXCEPT !.half = 2, !.ifMatch = e, !.ifNoneMatch = Absent].op = o.op
BY DEF Options

(* A call, and what the caller goes on with.                               *)
LEMMA AsksKeepInv ==
    ASSUME Inv, Start \/ Resume \/ ListOn
    PROVE  Inv'
<1> USE DEF Inv
<1>1. CASE Start
  <2>1. PICK o \in Ask : Sends(o)
    BY <1>1 DEF Start
  <2>2. o \in Options /\ pieces = {}
    BY <1>1, ReadsAssumption DEF Start, PiecesFollow
  <2> QED BY <2>1, <2>2, SendsOrRefuses DEF PiecesFollow
<1>2. CASE Resume
  <2> DEFINE rest(p) == [asked EXCEPT !.half = 2, !.ifMatch = p[2], !.ifNoneMatch = Absent]
  <2>1. PICK p \in pieces : Sends(rest(p))
    BY <1>2 DEF Resume
  <2>2. asked \in Options /\ p[2] \in Etag /\ Gets(asked)
    BY <1>2 DEF Resume, Typed
  <2>3. rest(p) \in Options /\ rest(p).ifMatch = p[2] /\ rest(p).op = asked.op
    BY <2>2, RestIsOptions
  <2>4. Gets(rest(p)) /\ Reads(rest(p))
    BY <2>2, <2>3 DEF Gets, Reads
  <2>5. OneVersion /\ \A q \in pieces : q[2] = p[2]
    BY DEF PiecesFollow, OneVersion
  <2> HIDE DEF rest
  <2> QED BY <2>1, <2>3, <2>4, <2>5, SendsOrRefuses
<1>3. CASE ListOn
  <2>1. asked \in Options /\ outcome = "listed" /\ Sends(asked)
    BY <1>3 DEF ListOn, Typed
  <2>2. pieces = {}
    BY <1>3 DEF ListOn, PiecesFollow, Reads
  <2> QED BY <2>1, <2>2, SendsOrRefuses DEF PiecesFollow
<1> QED BY <1>1, <1>2, <1>3

LEMMA StepKeepsInv == Inv /\ [Next]_vars => Inv'
<1> SUFFICES ASSUME Inv, [Next]_vars PROVE Inv'
  OBVIOUS
<1>1. CASE Shutdown \/ UNCHANGED vars
  <2>1. /\ object' = object /\ pc' = pc /\ asked' = asked /\ reply' = reply /\ outcome' = outcome
        /\ pieces' = pieces /\ seen' = seen
    BY <1>1 DEF Shutdown, vars, result, history
  <2>2. Typed' /\ AnswersWereTrue'
    BY <2>1 DEF Inv, Typed, AnswersWereTrue, Gets
  <2>3. PiecesFollow'
    BY <2>1 DEF Inv, PiecesFollow, OneVersion, Gets, Reads
  <2>3a. ErrorTrue(reply.error) => ErrorTrue(reply.error)'
    BY <2>1 DEF ErrorTrue, Gets
  <2>4. ReplyTrue => ReplyTrue'
    BY <2>1, <2>3a DEF ReplyTrue, Gets, Reads
  <2>5. Under(asked, object)' = Under(asked, object)
    BY <2>1 DEF Under, Reads
  <2>6. Stages'
    BY <2>1, <2>4, <2>5 DEF Inv, Stages, Gets
  <2> QED BY <2>2, <2>3, <2>6 DEF Inv
<1> QED
  BY <1>1, RepliesKeepInv, PutKeepsInv, FailsKeepsInv, DownloadKeepsInv, OthersKeepInv, AsksKeepInv
  DEF Next

THEOREM Inductive == Spec => []Inv
BY Initially, StepKeepsInv, PTL DEF Spec

(* What a read answers of an object or a bucket was so at some moment of   *)
(* the call, whatever others write, and whatever the client fails with;    *)
(* and a missing bucket is never taken for a missing object:               *)
(* mapAwsError(), download(), exists(), checkBucket().                     *)
THEOREM AnswersAreTrue == Spec => []AnswersWereTrue
<1>1. Inv => AnswersWereTrue
  BY DEF Inv
<1> QED BY <1>1, Inductive, PTL

(* An object fetched in two calls is of one version: download() sends the  *)
(* condition on the etag with the range.                                   *)
THEOREM PiecesAreOfOneVersion == Spec => []OneVersion
<1>1. Inv => OneVersion
  BY DEF Inv, PiecesFollow
<1> QED BY <1>1, Inductive, PTL
-----------------------------------------------------------------------------
\* The last segment of a prefix is the start of a segment.
LastMatches(text, prefix) ==
    LET n == Len(prefix)
    IN  prefix[n] \in {"", text[n]} \/ <<prefix[n], text[n]>> \in Starts

(* What it is to have a prefix, segment by segment.                        *)
LEMMA HasPrefixPoints ==
    ASSUME NEW text \in Text, NEW prefix \in Text
    PROVE  HasPrefix(text, prefix) <=>
               /\ Len(prefix) <= Len(text)
               /\ \A i \in 1..(Len(prefix) - 1) : text[i] = prefix[i]
               /\ LastMatches(text, prefix)
<1> DEFINE n == Len(prefix)
<1>1. /\ text \in Seq(STRING) /\ prefix \in Seq(STRING)
      /\ n \in Nat \ {0} /\ Len(text) \in Nat
  BY EmptySeq, LenProperties DEF Text
<1>2. HasPrefix(text, prefix) <=>
          /\ n <= Len(text)
          /\ SubSeq(text, 1, n - 1) = SubSeq(prefix, 1, n - 1)
          /\ LastMatches(text, prefix)
  BY Zenon DEF HasPrefix, LastMatches
<1>3. ASSUME n <= Len(text)
      PROVE  SubSeq(text, 1, n - 1) = SubSeq(prefix, 1, n - 1)
                 <=> \A i \in 1..(n - 1) : text[i] = prefix[i]
  <2>1. n - 1 \in Nat /\ n - 1 <= Len(text) /\ n - 1 <= Len(prefix)
    BY <1>1, <1>3
  <2> HIDE DEF n
  <2> QED
    BY <1>1, <2>1, SameStart
<1> QED
  BY <1>2, <1>3

\* What makes a text an empty segment's: its last one.
EndsEmpty(text) == text[Len(text)] = ""

LEMMA EmptyMatches ==
    ASSUME NEW text, NEW prefix, EndsEmpty(prefix)
    PROVE  LastMatches(text, prefix)
BY DEF EndsEmpty, LastMatches

(* PrefixText(), and what the entries of a page end in.                    *)
LEMMA WithEmpty ==
    ASSUME NEW pre \in Seq(STRING)
    PROVE  /\ pre \o EmptyText \in Text
           /\ Len(pre \o EmptyText) = Len(pre) + 1
           /\ \A i \in 1..Len(pre) : (pre \o EmptyText)[i] = pre[i]
           /\ EndsEmpty(pre \o EmptyText)
<1>1. EmptyText \in Seq(STRING) /\ Len(EmptyText) = 1 /\ Len(pre) \in Nat
  <2>1. EmptyText \in Seq(STRING)
    BY TextAssumption DEF Text
  <2>2. Len(EmptyText) = 1
    BY DEF EmptyText
  <2>3. Len(pre) \in Nat
    BY LenProperties
  <2> QED
    BY <2>1, <2>2, <2>3
<1>2. /\ pre \o EmptyText \in Seq(STRING)
      /\ Len(pre \o EmptyText) = Len(pre) + 1
      /\ \A i \in 1..Len(pre) : (pre \o EmptyText)[i] = pre[i]
      /\ \A i \in 1..1 : (pre \o EmptyText)[Len(pre) + i] = EmptyText[i]
  <2>1. EmptyText \in Seq(STRING)
    BY <1>1
  <2>2. /\ pre \o EmptyText \in Seq(STRING)
        /\ Len(pre \o EmptyText) = Len(pre) + Len(EmptyText)
        /\ \A i \in 1..Len(pre) : (pre \o EmptyText)[i] = pre[i]
        /\ \A i \in 1..Len(EmptyText) : (pre \o EmptyText)[Len(pre) + i] = EmptyText[i]
    BY <2>1, Joined
  <2> QED
    BY <1>1, <2>2
<1>3. (pre \o EmptyText)[Len(pre) + 1] = EmptyText[1]
  <2>1. 1 \in 1..1
    OBVIOUS
  <2> QED
    BY <1>2, <2>1
<1>4. EmptyText[1] = ""
  BY DEF EmptyText
<1>5. EndsEmpty(pre \o EmptyText)
  BY <1>2, <1>3, <1>4, Zenon DEF EndsEmpty
<1>6. pre \o EmptyText # <<>>
  <2>1. Len(pre) + 1 # 0
    BY <1>1
  <2> QED
    BY <1>2, <2>1, EmptySeq
<1> QED
  BY <1>2, <1>5, <1>6 DEF Text

LEMMA KeyPrefixType == KeyPrefix \in Seq(STRING)
BY ReadsAssumption, ResolvePrefixType DEF KeyPrefix

(* What list() asks the provider for starts with keyPrefix.                *)
LEMMA ListPrefixShape ==
    ASSUME NEW o \in Options
    PROVE  /\ ListPrefix(o) \in Text
           /\ \E rest \in Text : ListPrefix(o) = KeyPrefix \o rest
<1>1. PICK rest \in Text : ListPrefix(o) = KeyPrefix \o rest
  <2>1. CASE o.prefix = EmptyText
    BY <2>1, TextAssumption, Zenon DEF ListPrefix, PrefixText
  <2>2. CASE o.prefix # EmptyText
    <3>1. o.prefix \in Text
      BY DEF Options
    <3>2. Collapse(o.prefix) \in Text
      BY <3>1, CollapseKeeps
    <3> QED
      BY <2>2, <3>2, Zenon DEF ListPrefix, Normalize
  <2> QED
    BY <2>1, <2>2
<1>2. rest \in Seq(STRING) /\ Len(rest) \in Nat \ {0} /\ Len(KeyPrefix) \in Nat
  BY EmptySeq, LenProperties, KeyPrefixType DEF Text
<1>3. KeyPrefix \o rest \in Seq(STRING) /\ Len(KeyPrefix \o rest) = Len(KeyPrefix) + Len(rest)
  BY <1>2, KeyPrefixType, Joined
<1>4. KeyPrefix \o rest # <<>>
  <2>1. Len(KeyPrefix) + Len(rest) # 0
    BY <1>2
  <2> QED
    BY <1>3, <2>1, EmptySeq
<1> QED
  BY <1>1, <1>3, <1>4 DEF Text

(* What has a prefix that starts with keyPrefix starts with keyPrefix.     *)
LEMMA PrefixedStarts ==
    ASSUME NEW text \in Text, NEW rest \in Text, HasPrefix(text, KeyPrefix \o rest)
    PROVE  StartsWith(text, KeyPrefix)
<1> DEFINE P == KeyPrefix \o rest
<1>1. /\ rest \in Seq(STRING) /\ Len(rest) \in Nat \ {0} /\ Len(KeyPrefix) \in Nat
      /\ text \in Seq(STRING) /\ Len(text) \in Nat
  BY EmptySeq, LenProperties, KeyPrefixType DEF Text
<1>2. /\ P \in Seq(STRING) /\ Len(P) = Len(KeyPrefix) + Len(rest)
      /\ \A i \in 1..Len(KeyPrefix) : P[i] = KeyPrefix[i]
  BY <1>1, KeyPrefixType, Joined
<1> HIDE DEF P
<1>3. P \in Text
  <2>1. Len(P) # 0
    BY <1>1, <1>2
  <2> QED
    BY <1>2, <2>1, EmptySeq DEF Text
<1>4. Len(P) <= Len(text) /\ \A i \in 1..(Len(P) - 1) : text[i] = P[i]
  BY <1>3, HasPrefixPoints DEF P
<1>5. Len(KeyPrefix) < Len(text)
  BY <1>1, <1>2, <1>4
<1>6. \A i \in 1..Len(KeyPrefix) : i \in 1..(Len(P) - 1)
  BY <1>1, <1>2
<1>7. \A i \in 1..Len(KeyPrefix) : text[i] = KeyPrefix[i]
  BY <1>2, <1>4, <1>6
<1> QED
  BY <1>1, <1>5, <1>7, KeyPrefixType, StartsWithPoints
-----------------------------------------------------------------------------
(* A group is the listing's prefix, to the end of the segment it ends in.  *)
LEMMA GroupShape ==
    ASSUME NEW o \in Options, NEW text \in Text, Grouped(o, text)
    PROVE  /\ EntryOf(o, text) \in Text
           /\ Len(EntryOf(o, text)) = Len(ListPrefix(o)) + 1
           /\ \A i \in 1..Len(ListPrefix(o)) : EntryOf(o, text)[i] = text[i]
           /\ EndsEmpty(EntryOf(o, text))
<1> DEFINE n == Len(ListPrefix(o))
           start == SubSeq(text, 1, n)
<1>1. /\ text \in Seq(STRING) /\ Len(text) \in Nat /\ n \in Nat \ {0}
      /\ text \in [1..Len(text) -> STRING]
  BY ListPrefixShape, EmptySeq, LenProperties DEF Text
<1>2. n < Len(text)
  BY <1>1 DEF Grouped
<1>3. EntryOf(o, text) = start \o EmptyText
  BY DEF EntryOf
<1> HIDE DEF n
<1>4. start \in Seq(STRING) /\ Len(start) = n /\ \A i \in 1..n : start[i] = text[i]
  <2>1. \A i \in 1..n : i \in 1..Len(text)
    BY <1>1, <1>2
  <2>2. \A i \in 1..n : text[i] \in STRING
    BY <1>1, <2>1
  <2>3. 1 <= n /\ n - 1 + 1 = n
    BY <1>1
  <2>4. /\ start \in Seq(STRING) /\ Len(start) = n - 1 + 1
        /\ \A i \in 1..(n - 1 + 1) : start[i] = text[1 + i - 1]
    BY <1>1, <2>2, <2>3, SubSeqProperties
  <2>5. \A i \in 1..n : 1 + i - 1 = i
    BY <1>1
  <2> QED
    BY <2>3, <2>4, <2>5
<1> HIDE DEF start
<1>5. /\ start \o EmptyText \in Text
      /\ Len(start \o EmptyText) = n + 1
      /\ \A i \in 1..n : (start \o EmptyText)[i] = start[i]
      /\ EndsEmpty(start \o EmptyText)
  BY <1>4, WithEmpty
<1> QED
  BY <1>3, <1>4, <1>5 DEF n

LEMMA EntryType ==
    ASSUME NEW o \in Options, NEW text \in Text
    PROVE  EntryOf(o, text) \in Text
BY GroupShape DEF EntryOf

(* Texts with one entry: those in a group, and a text with itself.         *)
LEMMA SameGroup ==
    ASSUME NEW o \in Options, NEW t \in Text, NEW u \in Text, Grouped(o, u)
    PROVE  EntryOf(o, t) = EntryOf(o, u) <=>
               Grouped(o, t) /\ \A i \in 1..Len(ListPrefix(o)) : t[i] = u[i]
<1> DEFINE n == Len(ListPrefix(o))
<1>1. /\ t \in Seq(STRING) /\ u \in Seq(STRING) /\ n \in Nat
      /\ Len(t) \in Nat /\ Len(u) \in Nat
  BY ListPrefixShape, LenProperties DEF Text
<1>2. Len(EntryOf(o, u)) = n + 1 /\ n < Len(u)
  BY <1>1, GroupShape DEF Grouped
<1>3. CASE Grouped(o, t)
  <2>1. n <= Len(t) /\ n <= Len(u)
    BY <1>1, <1>2, <1>3 DEF Grouped
  <2>2. SubSeq(t, 1, n) = SubSeq(u, 1, n) <=> \A i \in 1..n : t[i] = u[i]
    <3> HIDE DEF n
    <3> QED
      BY <1>1, <2>1, SameStart
  <2>3. SubSeq(t, 1, n) = SubSeq(u, 1, n) => EntryOf(o, t) = EntryOf(o, u)
    BY <1>3 DEF EntryOf
  <2>4. EntryOf(o, t) = EntryOf(o, u) => \A i \in 1..n : t[i] = u[i]
    BY <1>3, GroupShape
  <2> QED
    BY <1>3, <2>2, <2>3, <2>4
<1>4. CASE ~Grouped(o, t)
  <2>1. Len(t) <= n
    BY <1>1, <1>4 DEF Grouped
  <2>2. EntryOf(o, t) = t
    BY <1>4 DEF EntryOf
  <2>3. Len(t) # n + 1
    BY <1>1, <2>1
  <2> QED
    BY <1>2, <1>4, <2>2, <2>3
<1> QED
  BY <1>3, <1>4

LEMMA AloneInEntry ==
    ASSUME NEW o \in Options, NEW t \in Text, NEW u \in Text, ~Grouped(o, u),
           EntryOf(o, t) = EntryOf(o, u)
    PROVE  t = u
<1>1. EntryOf(o, u) = u
  BY DEF EntryOf
<1>2. CASE ~Grouped(o, t)
  BY <1>1, <1>2 DEF EntryOf
<1>3. CASE Grouped(o, t)
  <2>1. Grouped(o, t) /\ \A i \in 1..Len(ListPrefix(o)) : u[i] = t[i]
    BY <1>3, SameGroup
  <2>2. EntryOf(o, u) = EntryOf(o, t) => Grouped(o, u)
    BY <1>3, SameGroup
  <2> QED
    BY <2>2
<1> QED
  BY <1>2, <1>3

(* A text has a group's prefix if it is in the group.                      *)
LEMMA InGroup ==
    ASSUME NEW o \in Options, NEW t \in Text, NEW u \in Text, Grouped(o, u)
    PROVE  HasPrefix(t, EntryOf(o, u)) <=> EntryOf(o, t) = EntryOf(o, u)
<1> DEFINE n == Len(ListPrefix(o))
           e == EntryOf(o, u)
<1>1. n \in Nat /\ Len(t) \in Nat
  BY ListPrefixShape, LenProperties DEF Text
<1>2. /\ e \in Text /\ Len(e) = n + 1 /\ \A i \in 1..n : e[i] = u[i]
      /\ EndsEmpty(e)
  BY GroupShape
<1> HIDE DEF n, e
<1>3. HasPrefix(t, e) <=>
          n + 1 <= Len(t) /\ \A i \in 1..n : t[i] = u[i]
  <2>1. LastMatches(t, e)
    BY <1>2, EmptyMatches
  <2>2. HasPrefix(t, e) <=>
            Len(e) <= Len(t) /\ \A i \in 1..(Len(e) - 1) : t[i] = e[i]
    BY <1>2, <2>1, HasPrefixPoints
  <2>3. Len(e) - 1 = n /\ Len(e) = n + 1
    BY <1>1, <1>2
  <2>4. HasPrefix(t, e) <=> n + 1 <= Len(t) /\ \A i \in 1..n : t[i] = e[i]
    BY <2>2, <2>3
  <2> QED
    BY <1>2, <2>4
<1>4. n + 1 <= Len(t) <=> n < Len(t)
  BY <1>1
<1>5. Grouped(o, t) <=> n < Len(t)
  <2>1. o.delimiter = "/"
    BY DEF Grouped
  <2>2. Grouped(o, t) <=> Len(t) > n
    BY <2>1 DEF Grouped, n
  <2> QED
    BY <1>1, <2>2
<1>6. EntryOf(o, t) = e <=> Grouped(o, t) /\ \A i \in 1..n : t[i] = u[i]
  BY SameGroup DEF n, e
<1>7. HasPrefix(t, e) <=> EntryOf(o, t) = e
  BY <1>3, <1>4, <1>5, <1>6
<1> QED
  BY <1>7 DEF e

(* What is listed has the prefix of the listing, and so has its entry.     *)
LEMMA EntryHasPrefix ==
    ASSUME NEW o \in Options, NEW text \in Text, HasPrefix(text, ListPrefix(o))
    PROVE  HasPrefix(EntryOf(o, text), ListPrefix(o))
<1> DEFINE P == ListPrefix(o)
           e == EntryOf(o, text)
<1>1. CASE ~Grouped(o, text)
  BY <1>1 DEF EntryOf
<1>2. CASE Grouped(o, text)
  <2>1. P \in Text /\ Len(P) \in Nat \ {0}
    BY ListPrefixShape, EmptySeq DEF Text
  <2>2. e \in Text /\ Len(e) = Len(P) + 1 /\ \A i \in 1..Len(P) : e[i] = text[i]
    BY <1>2, GroupShape
  <2> HIDE DEF P, e
  <2>3. /\ \A i \in 1..(Len(P) - 1) : text[i] = P[i]
        /\ LastMatches(text, P)
    BY <2>1, HasPrefixPoints DEF P
  <2>4. Len(P) <= Len(e) /\ Len(P) \in 1..Len(P) /\ \A i \in 1..(Len(P) - 1) : i \in 1..Len(P)
    BY <2>1, <2>2
  <2>5. e[Len(P)] = text[Len(P)]
    BY <2>2, <2>4
  <2>6. LastMatches(e, P)
    BY <2>3, <2>5, Zenon DEF LastMatches
  <2>7. \A i \in 1..(Len(P) - 1) : e[i] = P[i]
    BY <2>2, <2>3, <2>4
  <2>8. HasPrefix(e, P)
    BY <2>1, <2>2, <2>4, <2>6, <2>7, HasPrefixPoints
  <2> QED
    BY <2>8 DEF P, e
<1> QED
  BY <1>1, <1>2

(* A text that starts with keyPrefix comes back when its caller puts it    *)
(* in front again.                                                         *)
LEMMA ListedComesBack ==
    ASSUME NEW o \in Options, NEW text \in Text, HasPrefix(text, ListPrefix(o))
    PROVE  /\ StartsWith(text, KeyPrefix)
           /\ KeyPrefix \o StripPrefix(KeyPrefix, text) = text
<1>1. PICK rest \in Text : ListPrefix(o) = KeyPrefix \o rest
  BY ListPrefixShape
<1>2. StartsWith(text, KeyPrefix)
  BY <1>1, PrefixedStarts
<1>3. text \in Seq(STRING)
  BY DEF Text
<1> QED
  BY <1>2, <1>3, KeyPrefixType, Restored

(* The prefix the service sends is what the caller means.                  *)
LEMMA MeantIsListed ==
    ASSUME NEW text \in Text, asked \in Options
    PROVE  Meant(text) <=> HasPrefix(text, ListPrefix(asked))
<1>1. text \in Seq(STRING) /\ Len(text) \in Nat \ {0} /\ Len(KeyPrefix) \in Nat
  BY EmptySeq, LenProperties, KeyPrefixType DEF Text
<1>2. CASE asked.prefix # EmptyText
  <2>1. ListPrefix(asked) = KeyPrefix \o Collapse(asked.prefix)
    BY <1>2, Zenon DEF ListPrefix, Normalize
  <2>2. Collapse(asked.prefix) \in Text
    <3>1. asked.prefix \in Text
      BY DEF Options
    <3> QED
      BY <3>1, CollapseKeeps
  <2>3. HasPrefix(text, ListPrefix(asked)) => StartsWith(text, KeyPrefix)
    BY <2>1, <2>2, PrefixedStarts
  <2> QED
    BY <1>2, <2>1, <2>3, Zenon DEF Meant
<1>3. CASE asked.prefix = EmptyText
  <2> DEFINE P == KeyPrefix \o EmptyText
  <2>1. ListPrefix(asked) = P
    BY <1>3, Zenon DEF ListPrefix, PrefixText
  <2>2. /\ P \in Text /\ Len(P) = Len(KeyPrefix) + 1
        /\ \A i \in 1..Len(KeyPrefix) : P[i] = KeyPrefix[i]
        /\ EndsEmpty(P)
    BY KeyPrefixType, WithEmpty
  <2> HIDE DEF P
  <2>3. HasPrefix(text, P) <=> StartsWith(text, KeyPrefix)
    <3>1. LastMatches(text, P)
      BY <2>2, EmptyMatches
    <3>2. HasPrefix(text, P) <=>
              Len(P) <= Len(text) /\ \A i \in 1..(Len(P) - 1) : text[i] = P[i]
      BY <2>2, <3>1, HasPrefixPoints
    <3>3. Len(P) - 1 = Len(KeyPrefix) /\ (Len(P) <= Len(text) <=> Len(KeyPrefix) < Len(text))
      BY <1>1, <2>2
    <3>4. StartsWith(text, KeyPrefix) <=>
              Len(KeyPrefix) < Len(text) /\ \A i \in 1..Len(KeyPrefix) : text[i] = KeyPrefix[i]
      BY <1>1, KeyPrefixType, StartsWithPoints
    <3> QED
      BY <2>2, <3>2, <3>3, <3>4
  <2>4. KeyPrefix = <<>> => StartsWith(text, KeyPrefix)
    <3> SUFFICES ASSUME KeyPrefix = <<>> PROVE StartsWith(text, KeyPrefix)
      OBVIOUS
    <3>1. Len(KeyPrefix) = 0 /\ Len(KeyPrefix) < Len(text) /\ \A i \in 1..Len(KeyPrefix) : FALSE
      BY <1>1
    <3>2. StartsWith(text, KeyPrefix) <=>
              Len(KeyPrefix) < Len(text) /\ \A i \in 1..Len(KeyPrefix) : text[i] = KeyPrefix[i]
      BY <1>1, KeyPrefixType, StartsWithPoints
    <3> QED
      BY <3>1, <3>2
  <2> QED
    BY <1>3, <2>1, <2>3, <2>4 DEF Meant
<1> QED
  BY <1>2, <1>3

(* The texts of one entry follow one another in the bucket.                *)
LEMMA EntriesTogether ==
    ASSUME NEW o \in Options, NEW i \in DOMAIN Order, NEW j \in DOMAIN Order, NEW k \in DOMAIN Order,
           i <= j, j <= k, EntryOf(o, Order[i]) = EntryOf(o, Order[k])
    PROVE  EntryOf(o, Order[j]) = EntryOf(o, Order[i])
<1> DEFINE n == Len(ListPrefix(o))
<1>0. DOMAIN Order = 1..Len(Order) /\ Len(Order) \in Nat /\ \A x \in DOMAIN Order : Order[x] \in Text
  BY ReadsAssumption, LenProperties, ElementOfSeq
<1>1. i \in Nat /\ j \in Nat /\ k \in Nat
  BY <1>0
<1>2. CASE i = j \/ j = k
  BY <1>2
<1>3. CASE i # j /\ j # k
  <2>1. i < j /\ j < k /\ i # k
    BY <1>1, <1>3
  <2>2. Grouped(o, Order[k])
    <3> SUFFICES ASSUME ~Grouped(o, Order[k]) PROVE FALSE
      OBVIOUS
    <3>1. Order[i] = Order[k]
      BY <1>0, AloneInEntry
    <3> QED
      BY <2>1, <3>1, ReadsAssumption
  <2>3. Grouped(o, Order[i]) /\ \A x \in 1..n : Order[i][x] = Order[k][x]
    BY <1>0, <2>2, SameGroup
  <2>4. /\ n \in Nat \ {0} /\ \A x \in DOMAIN Order : Len(Order[x]) \in Nat /\ Order[x] \in Seq(STRING)
    BY <1>0, ListPrefixShape, EmptySeq, LenProperties DEF Text
  <2>5. n < Len(Order[i]) /\ n < Len(Order[k])
    BY <2>2, <2>3, <2>4 DEF Grouped
  <2>6. \A x \in DOMAIN Order : n < Len(Order[x]) => Grouped(o, Order[x])
    <3>1. o.delimiter = "/"
      BY <2>2 DEF Grouped
    <3> QED
      BY <2>4, <3>1 DEF Grouped
  <2> HIDE DEF n
  <2>7. Folder(Order[i], n) = SubSeq(Order[i], 1, n) /\ Folder(Order[k], n) = SubSeq(Order[k], 1, n)
    BY <2>5 DEF Folder
  <2>8. SubSeq(Order[i], 1, n) = SubSeq(Order[k], 1, n)
    <3>1. n <= Len(Order[i]) /\ n <= Len(Order[k]) /\ n \in Nat
      BY <2>4, <2>5
    <3> QED
      BY <2>3, <2>4, <3>1, SameStart
  <2>9. Folder(Order[i], n) # <<>> /\ n \in 1..Len(Order[i])
    <3>1. SubSeq(Order[i], 1, n) # <<>>
      <4>1. Order[i][1] \in STRING /\ 1 \in 1..n /\ 1 \in 1..Len(Order[i])
        BY <2>4, <2>5, LenProperties
      <4>2. \A x \in 1..n : x \in 1..Len(Order[i])
        BY <2>4, <2>5
      <4>3. \A x \in 1..n : Order[i][x] \in STRING
        BY <2>4, <4>2, ElementOfSeq
      <4>4. Len(SubSeq(Order[i], 1, n)) = n - 1 + 1
        BY <2>4, <4>3, SubSeqProperties
      <4>5. n - 1 + 1 # 0
        BY <2>4
      <4> QED
        BY <4>4, <4>5, EmptySeq
    <3>2. n \in 1..Len(Order[i])
      BY <2>4, <2>5
    <3> QED
      BY <2>7, <3>1, <3>2, Zenon
  <2>10. Folder(Order[j], n) = Folder(Order[i], n)
    BY <2>1, <2>7, <2>8, <2>9, OrderAssumption
  <2>11. n < Len(Order[j]) /\ Folder(Order[j], n) = SubSeq(Order[j], 1, n)
    BY <2>9, <2>10 DEF Folder
  <2>12. SubSeq(Order[j], 1, n) = SubSeq(Order[i], 1, n)
    BY <2>7, <2>10, <2>11
  <2> QED
    BY <2>3, <2>6, <2>11, <2>12 DEF EntryOf, n
<1> QED
  BY <1>2, <1>3
-----------------------------------------------------------------------------
\* What OnPage() counts: the entries up to i.
EntriesTo(o, from, i) ==
    { EntryOf(o, Order[j]) : j \in { k \in Listed(o, from) : k <= i } }

LEMMA OrderIs ==
    /\ Len(Order) \in Nat
    /\ DOMAIN Order = 1..Len(Order)
    /\ \A i \in DOMAIN Order : i \in Nat /\ 1 <= i /\ Order[i] \in Text /\ Order[i] \in Stored
    /\ IsFiniteSet(DOMAIN Order)
<1>1. Len(Order) \in Nat /\ DOMAIN Order = 1..Len(Order)
  BY ReadsAssumption, LenProperties
<1>2. \A i \in DOMAIN Order : Order[i] \in Text /\ Order[i] \in Stored
  BY <1>1, ReadsAssumption, ElementOfSeq DEF Stored
<1>3. \A i \in DOMAIN Order : i \in Nat /\ 1 <= i
  BY <1>1
<1>4. IsFiniteSet(DOMAIN Order)
  BY <1>1, FS_Interval
<1> QED
  BY <1>1, <1>2, <1>3, <1>4

LEMMA EntriesAreFinite ==
    ASSUME NEW o \in Options, NEW from \in Nat, NEW i
    PROVE  IsFiniteSet(EntriesTo(o, from, i)) /\ Cardinality(EntriesTo(o, from, i)) \in Nat
<1> DEFINE kept == { k \in Listed(o, from) : k <= i }
           f == [j \in kept |-> EntryOf(o, Order[j])]
<1>1. IsFiniteSet(kept)
  <2>1. kept \in SUBSET (DOMAIN Order)
    BY DEF Listed
  <2> HIDE DEF kept
  <2> QED
    BY <2>1, OrderIs, FS_Subset
<1>2. EntriesTo(o, from, i) = { EntryOf(o, Order[j]) : j \in kept }
  BY DEF EntriesTo
<1> HIDE DEF kept
<1>3. f \in Surjection(kept, EntriesTo(o, from, i))
  BY <1>2 DEF Surjection
<1> HIDE DEF f
<1>4. IsFiniteSet(EntriesTo(o, from, i))
  BY <1>1, <1>3, FS_Surjection
<1> QED
  BY <1>4, FS_CardinalityType

(* The page takes what precedes what it takes, and the whole of a group.   *)
LEMMA PageGoesBack ==
    ASSUME NEW o \in Options, NEW from \in Nat,
           NEW i \in Listed(o, from), NEW j \in OnPage(o, from),
           i <= j \/ EntryOf(o, Order[i]) = EntryOf(o, Order[j])
    PROVE  i \in OnPage(o, from)
<1> DEFINE Count(x) == Cardinality(EntriesTo(o, from, x))
<1>1. /\ j \in Listed(o, from) /\ Listed(o, from) \subseteq DOMAIN Order
      /\ \A x \in Listed(o, from) : x \in OnPage(o, from) <=> Count(x) <= PageSize(o)
  BY DEF OnPage, EntriesTo, Listed
<1>2. i \in Nat /\ j \in Nat
  BY <1>1, OrderIs
<1>3. EntriesTo(o, from, i) \subseteq EntriesTo(o, from, j)
  <2>1. ASSUME NEW k \in Listed(o, from), k <= i
        PROVE  \E l \in Listed(o, from) : l <= j /\ EntryOf(o, Order[k]) = EntryOf(o, Order[l])
    <3>0. k \in Nat /\ k \in DOMAIN Order
      BY <1>1, OrderIs
    <3>1. CASE k <= j
      BY <3>1
    <3>2. CASE ~(k <= j)
      <4>1. j <= k /\ ~(i <= j)
        BY <1>2, <2>1, <3>0, <3>2
      <4>2. EntryOf(o, Order[j]) = EntryOf(o, Order[i])
        BY <4>1
      <4>3. EntryOf(o, Order[k]) = EntryOf(o, Order[j])
        BY <1>1, <2>1, <3>0, <4>1, <4>2, EntriesTogether
      <4>4. j <= j
        BY <1>2
      <4> QED
        BY <1>1, <4>3, <4>4
    <3> QED
      BY <3>1, <3>2
  <2> QED
    BY <2>1 DEF EntriesTo
<1>4. Count(i) <= Count(j)
  <2>1. IsFiniteSet(EntriesTo(o, from, j)) /\ EntriesTo(o, from, i) \in SUBSET EntriesTo(o, from, j)
    BY <1>2, <1>3, EntriesAreFinite
  <2> QED
    BY <2>1, FS_Subset
<1>5. Count(i) \in Nat /\ Count(j) \in Nat
  BY EntriesAreFinite
<1>6. Count(j) <= PageSize(o)
  BY <1>1
<1> HIDE DEF Count
<1>7. PageSize(o) \in Nat
  BY ReadsAssumption DEF PageSize, Options
<1>8. Count(i) <= PageSize(o)
  BY <1>4, <1>5, <1>6, <1>7
<1> QED
  BY <1>1, <1>8

(* A page of at least one entry is not empty while there is one.           *)
LEMMA PageGoesOn ==
    ASSUME NEW o \in Options, NEW from \in Nat, o.maxKeys # 0, OnPage(o, from) = {}
    PROVE  Listed(o, from) = {}
<1> SUFFICES ASSUME Listed(o, from) # {} PROVE FALSE
  OBVIOUS
<1>1. Listed(o, from) \in SUBSET Nat /\ Listed(o, from) \subseteq DOMAIN Order
  BY OrderIs DEF Listed
<1>2. PICK m \in Listed(o, from) : \A k \in Listed(o, from) : m <= k
  BY <1>1, LeastOf
<1>3. \A k \in Listed(o, from) : k <= m <=> k = m
  <2> SUFFICES ASSUME NEW k \in Listed(o, from) PROVE k <= m <=> k = m
    OBVIOUS
  <2>1. k \in Nat /\ m \in Nat /\ m <= k
    BY <1>1, <1>2
  <2> QED
    BY <2>1
<1>4. EntriesTo(o, from, m) = {EntryOf(o, Order[m])}
  BY <1>2, <1>3 DEF EntriesTo
<1>5. Cardinality(EntriesTo(o, from, m)) = 1
  BY <1>4, FS_Singleton
<1>6. PageSize(o) \in Nat \ {0}
  BY ReadsAssumption DEF PageSize, Options
<1>7. Cardinality(EntriesTo(o, from, m)) <= PageSize(o)
  BY <1>5, <1>6
<1>8. m \in OnPage(o, from)
  BY <1>2, <1>7 DEF OnPage, EntriesTo
<1> QED
  BY <1>8

\* No entry goes on behind t.
TokenClosed(o, t) ==
    \A i, j \in DOMAIN Order :
        i <= t /\ t < j => EntryOf(o, Order[i]) # EntryOf(o, Order[j])

(* Where the next page begins: behind this one, and not within a group.    *)
LEMMA TokenIs ==
    ASSUME NEW o \in Options, NEW from \in Nat
    PROVE  LET next == NextToken(o, from)
           IN  /\ next \in Nat
               /\ TokenClosed(o, next)
               /\ next # 0 => from < next
               /\ o.maxKeys # 0 =>
                      \A i \in Listed(o, from) : i \in OnPage(o, from) <=> next = 0 \/ i <= next
<1> DEFINE on == OnPage(o, from)
           covered == { i \in DOMAIN Order : \E j \in on : EntryOf(o, Order[i]) = EntryOf(o, Order[j]) }
           next == NextToken(o, from)
<1>1. /\ on \subseteq Listed(o, from) /\ Listed(o, from) \subseteq DOMAIN Order
      /\ \A i \in Listed(o, from) : from < i
  <2>1. \A i \in Listed(o, from) : i > from
    BY DEF Listed
  <2>2. on \subseteq Listed(o, from) /\ Listed(o, from) \subseteq DOMAIN Order
    BY DEF OnPage, Listed
  <2>3. \A i \in Listed(o, from) : i \in Nat
    BY <2>2, OrderIs
  <2> QED
    BY <2>1, <2>2, <2>3
<1>2. CASE on \in {{}, Listed(o, from)}
  <2>1. next = 0
    BY <1>2 DEF NextToken
  <2>2. TokenClosed(o, next)
    <3> SUFFICES ASSUME NEW i \in DOMAIN Order, i <= next PROVE FALSE
      BY DEF TokenClosed
    <3>1. i \in Nat /\ 1 <= i
      BY OrderIs
    <3> QED
      BY <2>1, <3>1
  <2>3. o.maxKeys # 0 => on = Listed(o, from)
    BY <1>2, PageGoesOn
  <2> HIDE DEF on, next
  <2> QED
    BY <2>1, <2>2, <2>3 DEF on, next
<1>3. CASE on \notin {{}, Listed(o, from)}
  <2>1. next = CHOOSE i \in covered : \A j \in covered : j <= i
    BY <1>3 DEF NextToken
  <2>2. \E i \in covered : \A j \in covered : j <= i
    <3>1. covered \in SUBSET (1..Len(Order))
      BY OrderIs
    <3>2. covered # {}
      BY <1>1, <1>3
    <3> HIDE DEF covered
    <3> QED
      BY <3>1, <3>2, OrderIs, GreatestOf
  <2>3. next \in covered /\ \A j \in covered : j <= next
    <3> HIDE DEF covered, next
    <3> QED
      BY <2>1, <2>2
  <2>4. next \in DOMAIN Order
    BY <2>3
  <2>5. PICK last \in on : EntryOf(o, Order[next]) = EntryOf(o, Order[last])
    BY <2>3
  <2>6. on \subseteq covered
    BY <1>1
  <2> HIDE DEF next
  <2>7. next \in Nat /\ 1 <= next /\ last \in Nat /\ last \in DOMAIN Order
    BY <1>1, <2>4, <2>5, OrderIs
  <2>8. last <= next /\ from < last
    BY <1>1, <2>3, <2>5, <2>6
  <2>9. TokenClosed(o, next)
    <3> SUFFICES ASSUME NEW i \in DOMAIN Order, NEW j \in DOMAIN Order, i <= next, next < j,
                        EntryOf(o, Order[i]) = EntryOf(o, Order[j])
                 PROVE  FALSE
      BY DEF TokenClosed
    <3>1. j \in Nat /\ next <= j
      BY <2>7, OrderIs
    <3>2. EntryOf(o, Order[next]) = EntryOf(o, Order[i])
      BY <2>4, <3>1, EntriesTogether
    <3>3. j \in covered
      BY <2>5, <3>2
    <3>4. j <= next
      BY <2>3, <3>3
    <3> HIDE DEF covered
    <3> QED
      BY <2>7, <3>1, <3>4
  <2>10. \A i \in on : i <= next
    BY <2>3, <2>6
  <2>11. ASSUME NEW i \in Listed(o, from), i <= next PROVE i \in on
    <3>0. i \in DOMAIN Order /\ i \in Nat
      BY <1>1, OrderIs
    <3>1. CASE i <= last
      BY <2>5, <3>1, PageGoesBack
    <3>2. CASE ~(i <= last)
      <4>1. last <= i
        BY <2>7, <3>0, <3>2
      <4>2. EntryOf(o, Order[i]) = EntryOf(o, Order[last])
        BY <2>4, <2>5, <2>7, <2>11, <3>0, <4>1, EntriesTogether
      <4> QED
        BY <2>5, <4>2, PageGoesBack
    <3> QED
      BY <3>1, <3>2
  <2>12. next # 0 /\ from < next
    BY <2>7, <2>8
  <2> HIDE DEF on, covered
  <2> QED
    BY <2>7, <2>9, <2>10, <2>11, <2>12 DEF on, next
<1> QED
  BY <1>2, <1>3
-----------------------------------------------------------------------------
(* A page of the listing: the objects alone in their entry, and the        *)
(* groups.                                                                 *)
LEMMA PageIs ==
    ASSUME NEW o \in Options, ListReply(o).error = Absent
    PROVE  LET on == OnPage(o, token)
               single == { i \in on : ~Grouped(o, Order[i]) }
           IN  /\ ListReply(o).page = [ objects |-> { Order[i] : i \in single },
                                        groups |-> { EntryOf(o, Order[i]) : i \in on \ single } ]
               /\ ListReply(o).next = NextToken(o, token)
               /\ ListReply(o).etag = Absent
<1>1. o.bucket # "missing"
  <2> SUFFICES ASSUME o.bucket = "missing" PROVE FALSE
    OBVIOUS
  <2>1. ListReply(o) = Failing("NoSuchBucket", 404)
    BY DEF ListReply
  <2>2. Says(ListReply(o), "NoSuchBucket", 404)
    BY <2>1, ErrorsSay
  <2> QED
    BY <2>2 DEF Says
<1> QED
  BY <1>1 DEF ListReply, NoReply

LEMMA OnPageIsListed ==
    ASSUME NEW o \in Options, NEW from \in Nat, NEW j \in OnPage(o, from)
    PROVE  /\ j \in DOMAIN Order /\ from < j /\ object[Order[j]] # Absent
           /\ HasPrefix(Order[j], ListPrefix(o)) /\ j \in Listed(o, from)
<1>1. j \in DOMAIN Order /\ j > from /\ object[Order[j]] # Absent
      /\ HasPrefix(Order[j], ListPrefix(o)) /\ j \in Listed(o, from)
  BY DEF OnPage, Listed
<1>2. j \in Nat
  BY <1>1, OrderIs
<1> QED
  BY <1>1, <1>2

\* A page as its caller gets it, and the texts it stands for.
RelativePage(page) == [objects |-> Relative(page.objects), groups |-> Relative(page.groups)]

Covers(page, text) ==
    \/ \E key \in page.objects :
           /\ KeyPrefix \o key = text
           /\ Own(text) => Normalize(KeyPrefix, key) = text
    \/ \E group \in page.groups : HasPrefix(text, KeyPrefix \o group)

PageMeant(page) ==
    /\ \A key \in page.objects : KeyPrefix \o key \in Stored /\ Meant(KeyPrefix \o key)
    /\ \A group \in page.groups : Meant(KeyPrefix \o group)

(* toListResult(): the caller's names stand for the page's entries.        *)
LEMMA PageStandsFor ==
    ASSUME asked \in Options, token \in Nat, ListReply(asked).error = Absent, NEW i \in DOMAIN Order
    PROVE  Covers(RelativePage(ListReply(asked).page), Order[i]) <=>
               \E j \in OnPage(asked, token) : EntryOf(asked, Order[i]) = EntryOf(asked, Order[j])
<1> DEFINE page == ListReply(asked).page
           on == OnPage(asked, token)
<1>1. /\ page.objects = { Order[j] : j \in { k \in on : ~Grouped(asked, Order[k]) } }
      /\ page.groups = { EntryOf(asked, Order[j]) : j \in on \ { k \in on : ~Grouped(asked, Order[k]) } }
  <2>1. page = [ objects |-> { Order[j] : j \in { k \in on : ~Grouped(asked, Order[k]) } },
                 groups |-> { EntryOf(asked, Order[j]) :
                                j \in on \ { k \in on : ~Grouped(asked, Order[k]) } } ]
    BY PageIs
  <2> HIDE DEF page, on
  <2> QED
    BY <2>1
<1> HIDE DEF page
<1>2. /\ \A text \in page.objects : \E j \in on : ~Grouped(asked, Order[j]) /\ text = Order[j]
      /\ \A j \in on : ~Grouped(asked, Order[j]) => Order[j] \in page.objects
      /\ \A text \in page.groups : \E j \in on : Grouped(asked, Order[j]) /\ text = EntryOf(asked, Order[j])
      /\ \A j \in on : Grouped(asked, Order[j]) => EntryOf(asked, Order[j]) \in page.groups
  BY <1>1
<1>3. \A j \in on : /\ j \in DOMAIN Order /\ Order[j] \in Text /\ HasPrefix(Order[j], ListPrefix(asked))
  BY OnPageIsListed, OrderIs
<1> HIDE DEF on
<1>4. Order[i] \in Text
  BY OrderIs
<1>5. \A text \in Text : HasPrefix(text, ListPrefix(asked)) =>
          /\ KeyPrefix \o StripPrefix(KeyPrefix, text) = text
          /\ StripPrefix(KeyPrefix, text) = SubSeq(text, Len(KeyPrefix) + 1, Len(text))
  <2> SUFFICES ASSUME NEW text \in Text, HasPrefix(text, ListPrefix(asked))
               PROVE  /\ KeyPrefix \o StripPrefix(KeyPrefix, text) = text
                      /\ StripPrefix(KeyPrefix, text) = SubSeq(text, Len(KeyPrefix) + 1, Len(text))
    OBVIOUS
  <2>1. StartsWith(text, KeyPrefix) /\ KeyPrefix \o StripPrefix(KeyPrefix, text) = text
    BY ListedComesBack
  <2> QED
    BY <2>1 DEF StripPrefix
<1>6. \A j \in on : Grouped(asked, Order[j]) =>
          /\ KeyPrefix \o StripPrefix(KeyPrefix, EntryOf(asked, Order[j])) = EntryOf(asked, Order[j])
          /\ HasPrefix(Order[i], EntryOf(asked, Order[j])) <=>
                 EntryOf(asked, Order[i]) = EntryOf(asked, Order[j])
  BY <1>3, <1>4, <1>5, EntryType, EntryHasPrefix, InGroup
<1>7. /\ RelativePage(page).objects = { StripPrefix(KeyPrefix, text) : text \in page.objects }
      /\ RelativePage(page).groups = { StripPrefix(KeyPrefix, text) : text \in page.groups }
  BY DEF RelativePage, Relative
<1>8. ASSUME Covers(RelativePage(page), Order[i])
      PROVE  \E j \in on : EntryOf(asked, Order[i]) = EntryOf(asked, Order[j])
  <2>1. CASE \E key \in RelativePage(page).objects : KeyPrefix \o key = Order[i]
    <3>1. PICK text \in page.objects : KeyPrefix \o StripPrefix(KeyPrefix, text) = Order[i]
      BY <1>7, <2>1
    <3>2. PICK j \in on : text = Order[j]
      BY <1>2, <3>1
    <3> QED
      BY <1>3, <1>5, <3>1, <3>2
  <2>2. CASE \E group \in RelativePage(page).groups : HasPrefix(Order[i], KeyPrefix \o group)
    <3>1. PICK text \in page.groups : HasPrefix(Order[i], KeyPrefix \o StripPrefix(KeyPrefix, text))
      BY <1>7, <2>2
    <3>2. PICK j \in on : Grouped(asked, Order[j]) /\ text = EntryOf(asked, Order[j])
      BY <1>2, <3>1
    <3> QED
      BY <1>6, <3>1, <3>2
  <2> QED
    BY <1>8, <2>1, <2>2 DEF Covers
<1>9. ASSUME NEW j \in on, EntryOf(asked, Order[i]) = EntryOf(asked, Order[j])
      PROVE  Covers(RelativePage(page), Order[i])
  <2>1. CASE Grouped(asked, Order[j])
    <3>1. StripPrefix(KeyPrefix, EntryOf(asked, Order[j])) \in RelativePage(page).groups
      BY <1>2, <1>7, <2>1
    <3>2. HasPrefix(Order[i], KeyPrefix \o StripPrefix(KeyPrefix, EntryOf(asked, Order[j])))
      BY <1>6, <1>9, <2>1
    <3> QED
      BY <3>1, <3>2 DEF Covers
  <2>2. CASE ~Grouped(asked, Order[j])
    <3> DEFINE key == StripPrefix(KeyPrefix, Order[j])
    <3>1. Order[i] = Order[j]
      BY <1>3, <1>4, <1>9, <2>2, AloneInEntry
    <3>2. key \in RelativePage(page).objects
      BY <1>2, <1>7, <2>2
    <3>3. /\ KeyPrefix \o key = Order[i]
          /\ key = SubSeq(Order[i], Len(KeyPrefix) + 1, Len(Order[i]))
      BY <1>3, <1>5, <3>1
    <3> HIDE DEF key
    <3>4. Own(Order[i]) => Collapse(key) = key
      BY <3>3 DEF Own
    <3>5. Own(Order[i]) => Normalize(KeyPrefix, key) = Order[i]
      BY <3>3, <3>4 DEF Normalize
    <3> QED
      BY <3>2, <3>3, <3>5 DEF Covers
  <2> QED
    BY <2>1, <2>2
<1>10. Covers(RelativePage(page), Order[i]) <=>
           \E j \in on : EntryOf(asked, Order[i]) = EntryOf(asked, Order[j])
  BY <1>8, <1>9
<1> QED
  BY <1>10 DEF page, on

(* And for nothing that was not asked for.                                 *)
LEMMA PageAsAsked ==
    ASSUME asked \in Options, token \in Nat, ListReply(asked).error = Absent
    PROVE  PageMeant(RelativePage(ListReply(asked).page))
<1> DEFINE page == ListReply(asked).page
           on == OnPage(asked, token)
<1>1. /\ page.objects = { Order[j] : j \in { k \in on : ~Grouped(asked, Order[k]) } }
      /\ page.groups = { EntryOf(asked, Order[j]) : j \in on \ { k \in on : ~Grouped(asked, Order[k]) } }
  <2>1. page = [ objects |-> { Order[j] : j \in { k \in on : ~Grouped(asked, Order[k]) } },
                 groups |-> { EntryOf(asked, Order[j]) :
                                j \in on \ { k \in on : ~Grouped(asked, Order[k]) } } ]
    BY PageIs
  <2> HIDE DEF page, on
  <2> QED
    BY <2>1
<1> HIDE DEF page
<1>2. \A j \in on : /\ Order[j] \in Text /\ Order[j] \in Stored
                    /\ HasPrefix(Order[j], ListPrefix(asked))
  BY OnPageIsListed, OrderIs
<1>3. /\ \A text \in page.objects : \E j \in on : text = Order[j]
      /\ \A text \in page.groups : \E j \in on : text = EntryOf(asked, Order[j])
  BY <1>1
<1> HIDE DEF on
<1>4. \A text \in page.objects \cup page.groups :
          text \in Text /\ HasPrefix(text, ListPrefix(asked))
  BY <1>2, <1>3, EntryType, EntryHasPrefix
<1>5. \A text \in page.objects \cup page.groups :
          Meant(text) /\ KeyPrefix \o StripPrefix(KeyPrefix, text) = text
  BY <1>4, MeantIsListed, ListedComesBack
<1>6. \A text \in page.objects : text \in Stored
  BY <1>2, <1>3
<1>7. /\ RelativePage(page).objects = { StripPrefix(KeyPrefix, text) : text \in page.objects }
      /\ RelativePage(page).groups = { StripPrefix(KeyPrefix, text) : text \in page.groups }
  BY DEF RelativePage, Relative
<1>8. ASSUME NEW key \in RelativePage(page).objects
      PROVE  KeyPrefix \o key \in Stored /\ Meant(KeyPrefix \o key)
  <2>1. PICK text \in page.objects : key = StripPrefix(KeyPrefix, text)
    BY <1>7
  <2> QED
    BY <1>5, <1>6, <2>1
<1>9. ASSUME NEW group \in RelativePage(page).groups PROVE Meant(KeyPrefix \o group)
  <2>1. PICK text \in page.groups : group = StripPrefix(KeyPrefix, text)
    BY <1>7
  <2> QED
    BY <1>5, <2>1
<1>10. PageMeant(RelativePage(page))
  BY <1>8, <1>9 DEF PageMeant
<1> QED
  BY <1>10 DEF page

LEMMA PageTypes ==
    ASSUME NEW o \in Options, token \in Nat, ListReply(o).error = Absent
    PROVE  ListReply(o).page \in Page /\ ListReply(o).next \in Nat
<1> DEFINE on == OnPage(o, token)
           single == { i \in on : ~Grouped(o, Order[i]) }
<1>1. /\ ListReply(o).page = [ objects |-> { Order[i] : i \in single },
                               groups |-> { EntryOf(o, Order[i]) : i \in on \ single } ]
      /\ ListReply(o).next = NextToken(o, token)
  BY PageIs
<1>2. \A i \in on : Order[i] \in Seq(STRING) /\ EntryOf(o, Order[i]) \in Seq(STRING)
  BY OnPageIsListed, OrderIs, EntryType DEF Text
<1> HIDE DEF on
<1>3. [ objects |-> { Order[i] : i \in single },
        groups |-> { EntryOf(o, Order[i]) : i \in on \ single } ] \in Page
  BY <1>2 DEF Page
<1> QED
  BY <1>1, <1>3, TokenIs
-----------------------------------------------------------------------------
(* The answers of the provider are answers.                                *)
LEMMA RecordTypes ==
    /\ NoReply \in Reply
    /\ \A e \in AwsError : [NoReply EXCEPT !.error = e] \in Reply
    /\ \A x \in Etag : [NoReply EXCEPT !.etag = x] \in Reply
<1>1. NoPage \in Page
  BY DEF NoPage, Page
<1> QED
  BY <1>1 DEF NoReply, Reply

LEMMA FailingType ==
    ASSUME NEW name \in {"NotFound", "NoSuchBucket", "NoSuchKey", "PreconditionFailed", "NotModified"},
           NEW status \in {304, 404, 412}
    PROVE  Failing(name, status) \in Reply
<1> DEFINE e == [name |-> name, Code |-> "", status |-> status]
<1>1. e \in ProviderErrors
  BY DEF ProviderErrors
<1>3. Failing(name, status) = [NoReply EXCEPT !.error = e]
  BY DEF Failing
<1> HIDE DEF e
<1>2. e \in AwsError
  BY <1>1, ErrorsAssumption
<1> QED
  BY <1>2, <1>3, RecordTypes

LEMMA FailingsAreReplies ==
    /\ Failing("NotFound", 404) \in Reply /\ Failing("NoSuchBucket", 404) \in Reply
    /\ Failing("NoSuchKey", 404) \in Reply /\ Failing("PreconditionFailed", 412) \in Reply
    /\ Failing("NotModified", 304) \in Reply
BY FailingType

LEMMA ListReplyType ==
    ASSUME NEW o \in Options, token \in Nat
    PROVE  ListReply(o) \in Reply
<1>1. CASE o.bucket = "missing"
  BY <1>1, FailingsAreReplies DEF ListReply
<1>2. CASE o.bucket # "missing"
  <2>0. PICK page, next : ListReply(o) = [NoReply EXCEPT !.page = page, !.next = next]
    BY <1>2 DEF ListReply
  <2>1. /\ ListReply(o).page = page /\ ListReply(o).next = next
        /\ ListReply(o).error = Absent
        /\ ListReply(o) = [error |-> Absent, etag |-> Absent, page |-> page, next |-> next]
    BY <2>0 DEF NoReply
  <2>2. page \in Page /\ next \in Nat
    BY <2>1, PageTypes
  <2> QED
    BY <2>1, <2>2 DEF Reply
<1> QED
  BY <1>1, <1>2

LEMMA ReplyTypes ==
    ASSUME Inv, token \in Nat, Applies \/ ClientFails \/ AnswersEmpty
    PROVE  reply' \in Reply
<1> DEFINE etag == Under(asked, object)
<1>0. asked \in Options /\ etag \in Etag \cup {Absent}
  BY UnderIsEtag DEF Inv, Typed, Applies, ClientFails, AnswersEmpty
<1> HIDE DEF etag
<1>1. CASE Applies
  <2>1. \/ reply' = ListReply(asked) \/ reply' = Failing("NotFound", 404) \/ reply' = NoReply
        \/ reply' = GetReply(asked, etag) \/ reply' = HeadReply(etag)
    BY <1>1 DEF Applies, etag
  <2>2. HeadReply(etag) \in Reply
    BY <1>0, RecordTypes, FailingsAreReplies DEF HeadReply
  <2>3. GetReply(asked, etag) \in Reply
    BY <1>0, RecordTypes, FailingsAreReplies DEF GetReply
  <2> QED
    BY <1>0, <2>1, <2>2, <2>3, RecordTypes, FailingsAreReplies, ListReplyType
<1>2. CASE ClientFails
  BY <1>2, RecordTypes, ReadsAssumption DEF ClientFails
<1>3. CASE AnswersEmpty
  BY <1>3, RecordTypes DEF AnswersEmpty
<1> QED
  BY <1>1, <1>2, <1>3

(* Each error becomes one of the error codes.                              *)
LEMMA MappedIsCode ==
    ASSUME NEW o, NEW e
    PROVE  Mapped(o, e) \in Codes
<1>1. MapAwsError(e) \in Codes
  BY DEF MapAwsError, Codes
<1>2. MapBucketCheckError(e) \in Codes
  BY <1>1 DEF MapBucketCheckError, Codes
<1> QED
  BY <1>1, <1>2 DEF Mapped

(* Asking, what each step leaves and sets.                                 *)
LEMMA Sending ==
    ASSUME NEW o \in Options, Sends(o)
    PROVE  /\ asked' = o /\ reply' = NoReply /\ pages' = pages /\ token' = token /\ up' = up
           /\ object' = object /\ pc' \in {"sent", "settled"}
           /\ seen' \in {{}, {Under(o, object)}}
           /\ outcome' \in Codes \cup {"", "false"}
           /\ o.op = "exists" /\ pc' = "settled" => outcome' = "false"
<1>1. /\ asked' = o /\ reply' = NoReply /\ pages' = pages /\ token' = token /\ up' = up
      /\ object' = object /\ seen' \in {{}, {Under(o, object)}}
      /\ \/ pc' = "sent" /\ outcome' = ""
         \/ Refusal(o) # "" /\ pc' = "settled" /\ outcome' = Rejection(o, Refusal(o))
  BY DEF Sends, Settles
<1>2. Refusal(o) # "" => Refusal(o) \in Codes
  BY RefusalIsRefusal DEF Codes
<1>3. /\ Rejection(o, Refusal(o)) \in {"false", Refusal(o)}
      /\ o.op = "exists" => Rejection(o, Refusal(o)) = "false"
  BY DEF Rejection, ExistsOutcome
<1> QED
  BY <1>1, <1>2, <1>3

LEMMA Asking ==
    ASSUME Inv, Start \/ Resume \/ ListOn
    PROVE  \E o \in Options : Sends(o) /\ ((Resume \/ ListOn) => o.op = asked.op)
<1>1. CASE Start
  <2>1. PICK o \in Ask : Sends(o)
    BY <1>1 DEF Start
  <2>2. o \in Options /\ ~Resume /\ ~ListOn
    BY <1>1, ReadsAssumption DEF Start, Resume, ListOn
  <2> QED
    BY <2>1, <2>2
<1>2. CASE Resume
  <2> DEFINE rest(p) == [asked EXCEPT !.half = 2, !.ifMatch = p[2], !.ifNoneMatch = Absent]
  <2>1. PICK p \in pieces : Sends(rest(p))
    BY <1>2 DEF Resume
  <2>2. asked \in Options /\ p[2] \in Etag
    BY <1>2 DEF Resume, Inv, Typed
  <2>3. rest(p) \in Options /\ rest(p).op = asked.op
    BY <2>2, RestIsOptions
  <2> HIDE DEF rest
  <2> QED
    BY <2>1, <2>3
<1>3. CASE ListOn
  BY <1>3 DEF ListOn, Inv, Typed
<1> QED
  BY <1>1, <1>2, <1>3

LEMMA TypesInitially == Init => TypeOK
<1> SUFFICES ASSUME Init PROVE TypeOK
  OBVIOUS
<1>1. object \in [Stored -> Etag \cup {Absent}]
  BY DEF Init
<1>2. reply \in Reply
  BY RecordTypes DEF Init
<1>3. pages \in Seq(Page)
  BY EmptySeq DEF Init
<1>4. /\ up \in BOOLEAN /\ pc = "idle" /\ asked = Unset /\ outcome = "" /\ pieces = {} /\ token = 0
      /\ seen = {} /\ always = {}
  BY DEF Init
<1> QED
  BY <1>1, <1>2, <1>3, <1>4 DEF TypeOK

(* The caller's page is a page.                                            *)
LEMMA RelativeType ==
    ASSUME NEW page \in Page
    PROVE  RelativePage(page) \in Page
<1>1. page.objects \in SUBSET Seq(STRING) /\ page.groups \in SUBSET Seq(STRING)
  BY DEF Page
<1>2. \A text \in Seq(STRING) : StripPrefix(KeyPrefix, text) \in Seq(STRING)
  BY KeyPrefixType, StripPrefixType
<1>3. \A U \in SUBSET Seq(STRING) : Relative(U) \in SUBSET Seq(STRING)
  BY <1>2 DEF Relative
<1> QED
  BY <1>1, <1>3 DEF RelativePage, Page

LEMMA StepKeepsTypes ==
    ASSUME Inv, Inv', TypeOK, [Next]_vars
    PROVE  TypeOK'
<1>0. /\ object' \in [Stored -> Etag \cup {Absent}]
      /\ pc' \in {"idle", "sent", "answered", "streaming", "settled"}
      /\ pc' # "idle" => asked' \in Options
      /\ pieces' \subseteq (0..2) \X Etag
  BY DEF Inv, Typed, UnderWay
<1> DEFINE Rest == /\ up' \in BOOLEAN
                   /\ asked' \in Options \cup {Unset}
                   /\ reply' \in Reply
                   /\ outcome' \in Answers \cup Codes \cup {"", "Error"}
                   /\ pc' = "settled" /\ asked'.op = "exists" => outcome' \in {"true", "false"}
                   /\ pages' \in Seq(Page)
                   /\ token' \in Nat
                   /\ seen' \subseteq Etag \cup {Absent}
                   /\ always' \subseteq Stored
<1>t. /\ up \in BOOLEAN /\ asked \in Options \cup {Unset} /\ reply \in Reply
      /\ outcome \in Answers \cup Codes \cup {"", "Error"}
      /\ pc = "settled" /\ asked.op = "exists" => outcome \in {"true", "false"}
      /\ pages \in Seq(Page) /\ token \in Nat /\ seen \subseteq Etag \cup {Absent}
      /\ always \subseteq Stored
      /\ object \in [Stored -> Etag \cup {Absent}]
  BY DEF TypeOK
<1> SUFFICES Rest
  BY <1>0 DEF TypeOK
<1>1. CASE Start \/ Resume \/ ListOn
  <2>1. PICK o \in Options : Sends(o)
    BY <1>1, Asking
  <2>2. /\ asked' = o /\ reply' = NoReply /\ pages' = pages /\ token' = token /\ up' = up
        /\ seen' \in {{}, {Under(o, object)}} /\ outcome' \in Codes \cup {"", "false"}
        /\ o.op = "exists" /\ pc' = "settled" => outcome' = "false"
    BY <2>1, Sending
  <2>3. Under(o, object) \in Etag \cup {Absent}
    BY <1>t, UnderIsEtag
  <2>4. always' \subseteq Stored
    BY <1>1, <1>t DEF Start, Resume, ListOn
  <2>5. outcome' \in Answers \cup Codes \cup {"", "Error"}
    BY <2>2 DEF Answers
  <2>6. seen' \subseteq Etag \cup {Absent}
    BY <2>2, <2>3
  <2> QED
    BY <1>t, <2>2, <2>4, <2>5, <2>6, RecordTypes
<1>2. CASE Applies \/ ClientFails \/ AnswersEmpty
  <2>1. reply' \in Reply
    BY <1>2, <1>t, ReplyTypes
  <2>2. /\ up' = up /\ asked' = asked /\ outcome' = outcome /\ pages' = pages /\ token' = token
        /\ seen' = seen /\ always' = always /\ pc' = "answered"
    BY <1>2 DEF Applies, ClientFails, AnswersEmpty, result, history
  <2> QED
    BY <1>t, <2>1, <2>2
<1>3. CASE Put
  <2>0. PICK text \in Stored : \E etag \in Versions[text] \cup {Absent} :
            /\ seen' = IF pc \in {"sent", "answered"} THEN seen \cup {Under(asked, object')} ELSE seen
            /\ always' = IF etag = Absent THEN always \ {text} ELSE always
            /\ UNCHANGED <<up, pc, asked, reply, result>>
    BY <1>3 DEF Put
  <2>1. PICK etag \in Versions[text] \cup {Absent} :
            /\ seen' = IF pc \in {"sent", "answered"} THEN seen \cup {Under(asked, object')} ELSE seen
            /\ always' = IF etag = Absent THEN always \ {text} ELSE always
            /\ UNCHANGED <<up, pc, asked, reply, result>>
    BY <2>0
  <2>2. Under(asked, object') \in Etag \cup {Absent}
    BY <1>0, UnderIsEtag
  <2>3. seen' \subseteq Etag \cup {Absent} /\ always' \subseteq Stored
    BY <1>t, <2>1, <2>2
  <2>4. /\ up' = up /\ asked' = asked /\ outcome' = outcome /\ pages' = pages /\ token' = token
        /\ pc' = pc /\ reply' = reply
    BY <2>1 DEF result
  <2> QED
    BY <1>t, <2>3, <2>4
<1>4. CASE Fails
  <2>1. /\ up' = up /\ asked' = asked /\ pages' = pages /\ token' = token
        /\ seen' = seen /\ always' = always /\ reply' = reply
        /\ outcome' = Rejection(asked, Mapped(asked, reply.error))
    BY <1>4 DEF Fails, Settles, history
  <2>2. /\ outcome' \in {"false", Mapped(asked, reply.error)}
        /\ asked.op = "exists" => outcome' = "false"
    BY <2>1 DEF Rejection, ExistsOutcome
  <2>3. outcome' \in Answers \cup Codes \cup {"", "Error"}
    BY <2>2, MappedIsCode DEF Answers
  <2> QED
    BY <1>t, <2>1, <2>2, <2>3
<1>5. CASE ListAnswered
  <2>1. /\ up' = up /\ asked' = asked /\ pages' = Append(pages, RelativePage(reply.page))
        /\ token' = reply.next /\ seen' = seen /\ always' = always /\ reply' = reply
        /\ outcome' = "listed" /\ asked.op = "list"
    BY <1>5 DEF ListAnswered, Answered, Settles, history, RelativePage
  <2>2. reply.page \in Page /\ reply.next \in Nat
    BY <1>t DEF Reply
  <2>3. RelativePage(reply.page) \in Page
    BY <2>2, RelativeType
  <2>4. pages' \in Seq(Page)
    BY <1>t, <2>1, <2>3, AppendProperties
  <2>5. outcome' \in Answers \cup Codes \cup {"", "Error"}
    BY <2>1 DEF Answers
  <2> QED
    BY <1>t, <2>1, <2>2, <2>4, <2>5
<1>6. CASE HeadAnswered \/ DownloadAnswered \/ BufferRead \/ BufferBreaks \/ CheckAnswered
  <2>1. /\ up' = up /\ asked' = asked /\ pages' = pages /\ token' = token
        /\ seen' = seen /\ always' = always /\ reply' = reply
    BY <1>6 DEF HeadAnswered, DownloadAnswered, BufferRead, BufferBreaks, CheckAnswered, history
  <2>2. pc = "streaming" => asked.op # "exists"
    BY DEF Inv, Stages, Gets
  <2>3. /\ outcome' \in {"found", "true", "STORAGE_OBJECT_NOT_FOUND", "Error", "reachable", outcome}
        /\ pc' = "settled" /\ asked.op = "exists" => outcome' = "true"
    BY <1>6, <2>2 DEF HeadAnswered, DownloadAnswered, BufferRead, BufferBreaks, CheckAnswered,
                      Settles, Answered, Gets
  <2>4. outcome' \in Answers \cup Codes \cup {"", "Error"}
    BY <1>t, <2>3 DEF Answers, Codes
  <2> QED
    BY <1>t, <2>1, <2>3, <2>4
<1>7. CASE Shutdown
  <2>1. /\ up' = FALSE /\ asked' = asked /\ pages' = pages /\ token' = token /\ pc' = pc
        /\ seen' = seen /\ always' = always /\ reply' = reply /\ outcome' = outcome
    BY <1>7 DEF Shutdown, result, history
  <2> QED
    BY <1>t, <2>1
<1>8. CASE UNCHANGED vars
  <2>1. /\ up' = up /\ asked' = asked /\ pages' = pages /\ token' = token /\ pc' = pc
        /\ seen' = seen /\ always' = always /\ reply' = reply /\ outcome' = outcome
    BY <1>8 DEF vars
  <2> QED
    BY <1>t, <2>1
<1> HIDE DEF Rest
<1> QED
  BY <1>1, <1>2, <1>3, <1>4, <1>5, <1>6, <1>7, <1>8 DEF Next
-----------------------------------------------------------------------------
\* What had an object throughout the listing has one now.
AlwaysThere == \A text \in always : object[text] # Absent

Ended == pc = "settled" /\ outcome = "listed" /\ token = 0

\* The texts the caller is owed, and which of them are due by now.
Owed == { i \in DOMAIN Order : Order[i] \in always /\ Meant(Order[i]) }
Due(i) == i <= token \/ Ended
On(i) == { n \in DOMAIN pages : Covers(pages[n], Order[i]) }

\* Each is on one page when it is due, and on none before.
PagesListed ==
    asked.maxKeys # 0 =>
        /\ TokenClosed(asked, token)
        /\ \A i \in Owed : /\ Due(i) => \E n \in DOMAIN pages : On(i) = {n}
                           /\ ~Due(i) => On(i) = {}

\* The page on its way is the one that follows.
PageFollows(page, next) ==
    /\ PageMeant(RelativePage(page))
    /\ asked.maxKeys # 0 =>
           /\ TokenClosed(asked, next)
           /\ next = 0 \/ token < next
           /\ \A i \in Owed :
                  Covers(RelativePage(page), Order[i]) <=> token < i /\ (next = 0 \/ i <= next)

ReplyListed == pc = "answered" /\ reply.error = Absent => PageFollows(reply.page, reply.next)

PagesMeant == \A n \in DOMAIN pages : PageMeant(pages[n])

Listing ==
    /\ pc = "idle" => pages = <<>> /\ token = 0
    /\ pc # "idle" /\ asked.op = "list" => PagesMeant /\ PagesListed /\ ReplyListed

IInv == Inv /\ TypeOK /\ AlwaysThere /\ Listing

(* The provider's page is the one that follows: OnPage(), NextToken().     *)
LEMMA PageIsNext ==
    ASSUME IInv, pc = "sent", asked.op = "list", ListReply(asked).error = Absent
    PROVE  PageFollows(ListReply(asked).page, ListReply(asked).next)
<1> DEFINE r == ListReply(asked)
           on == OnPage(asked, token)
<1>1. asked \in Options /\ token \in Nat /\ AlwaysThere /\ PagesListed
  BY DEF IInv, TypeOK, Listing
<1>2. r.next = NextToken(asked, token)
  BY <1>1, PageIs
<1>3. PageMeant(RelativePage(r.page))
  BY <1>1, PageAsAsked
<1>4. ASSUME asked.maxKeys # 0
      PROVE  /\ TokenClosed(asked, r.next)
             /\ r.next = 0 \/ token < r.next
             /\ \A i \in Owed :
                    Covers(RelativePage(r.page), Order[i]) <=>
                        token < i /\ (r.next = 0 \/ i <= r.next)
  <2>1. /\ TokenClosed(asked, r.next)
        /\ r.next # 0 => token < r.next
        /\ \A i \in Listed(asked, token) : i \in on <=> r.next = 0 \/ i <= r.next
    BY <1>1, <1>2, <1>4, TokenIs
  <2>2. ASSUME NEW i \in Owed
        PROVE  Covers(RelativePage(r.page), Order[i]) <=>
                   token < i /\ (r.next = 0 \/ i <= r.next)
    <3>1. /\ i \in DOMAIN Order /\ i \in Nat /\ Order[i] \in Text
          /\ object[Order[i]] # Absent /\ HasPrefix(Order[i], ListPrefix(asked))
      <4>1. i \in DOMAIN Order /\ Order[i] \in always /\ Meant(Order[i])
        BY DEF Owed
      <4>2. i \in Nat /\ Order[i] \in Text
        BY <4>1, OrderIs
      <4> QED
        BY <1>1, <4>1, <4>2, MeantIsListed DEF AlwaysThere
    <3>2. Covers(RelativePage(r.page), Order[i]) <=>
              \E j \in on : EntryOf(asked, Order[i]) = EntryOf(asked, Order[j])
      BY <1>1, <3>1, PageStandsFor
    <3> HIDE DEF r
    <3>3. CASE token < i
      <4>1. i \in Listed(asked, token)
        <5>1. i > token
          BY <1>1, <3>1, <3>3
        <5> QED
          BY <3>1, <5>1 DEF Listed
      <4>2. (\E j \in on : EntryOf(asked, Order[i]) = EntryOf(asked, Order[j])) <=> i \in on
        BY <1>1, <4>1, PageGoesBack
      <4> QED
        BY <2>1, <3>2, <3>3, <4>1, <4>2
    <3>4. CASE ~(token < i)
      <4>1. i <= token
        BY <1>1, <3>1, <3>4
      <4>2. TokenClosed(asked, token)
        BY <1>1, <1>4 DEF PagesListed
      <4>3. ASSUME NEW j \in on PROVE EntryOf(asked, Order[i]) # EntryOf(asked, Order[j])
        <5>1. j \in DOMAIN Order /\ token < j
          BY <1>1, OnPageIsListed
        <5> QED
          BY <3>1, <4>1, <4>2, <5>1 DEF TokenClosed
      <4> QED
        BY <3>2, <3>4, <4>3
    <3> QED
      BY <3>3, <3>4
  <2> HIDE DEF r
  <2>3. r.next = 0 \/ token < r.next
    BY <2>1
  <2>4. TokenClosed(asked, r.next)
    BY <2>1
  <2> QED
    BY <2>2, <2>3, <2>4
<1> HIDE DEF r
<1>5. PageFollows(r.page, r.next)
  BY <1>3, <1>4 DEF PageFollows
<1> QED
  BY <1>5 DEF r

(* What has an object throughout keeps it, writer or not.                  *)
LEMMA StepKeepsAlways ==
    ASSUME Inv, TypeOK, AlwaysThere, [Next]_vars
    PROVE  AlwaysThere'
<1>1. CASE Start
  <2>1. PICK o \in Options : Sends(o)
    BY <1>1, Asking
  <2>2. object' = object
    BY <2>1, Sending
  <2>3. \A text \in always' : object[text] # Absent
    BY <1>1 DEF Start
  <2> QED
    BY <2>2, <2>3 DEF AlwaysThere
<1>2. CASE Put
  <2>1. PICK text \in Stored : \E etag \in Versions[text] \cup {Absent} :
            /\ object' = [object EXCEPT ![text] = etag]
            /\ always' = IF etag = Absent THEN always \ {text} ELSE always
    BY <1>2 DEF Put
  <2>2. PICK etag \in Versions[text] \cup {Absent} :
            /\ object' = [object EXCEPT ![text] = etag]
            /\ always' = IF etag = Absent THEN always \ {text} ELSE always
    BY <2>1
  <2>3. ASSUME NEW t \in always' PROVE object'[t] # Absent
    <3>1. t \in always /\ (t = text => etag # Absent)
      BY <2>2
    <3>2. t \in DOMAIN object
      BY <3>1 DEF TypeOK
    <3>3. object[t] # Absent
      BY <3>1 DEF AlwaysThere
    <3> QED
      BY <2>2, <3>1, <3>2, <3>3
  <2> QED
    BY <2>3 DEF AlwaysThere
<1>3. CASE Resume \/ ListOn
  <2>1. PICK o \in Options : Sends(o)
    BY <1>3, Asking
  <2>2. object' = object /\ always' = always
    BY <1>3, <2>1, Sending DEF Resume, ListOn
  <2> QED
    BY <2>2 DEF AlwaysThere
<1>4. CASE \/ HeadAnswered \/ DownloadAnswered \/ BufferRead \/ BufferBreaks \/ CheckAnswered
           \/ ListAnswered \/ Fails \/ Shutdown \/ Applies \/ ClientFails \/ AnswersEmpty
           \/ UNCHANGED vars
  <2>1. object' = object /\ always' = always
    BY <1>4 DEF HeadAnswered, DownloadAnswered, BufferRead, BufferBreaks, CheckAnswered, ListAnswered,
                Fails, Shutdown, Applies, ClientFails, AnswersEmpty, vars, history
  <2> QED
    BY <2>1 DEF AlwaysThere
<1> QED
  BY <1>1, <1>2, <1>3, <1>4 DEF Next

(* A call that does not answer with a page leaves what was listed.         *)
LEMMA NothingListed ==
    ASSUME Listing, pages' = pages, token' = token, pc # "idle", pc' # "idle",
           asked' = asked, ~Ended, ~Ended',
           always' \subseteq always,
           ReplyListed' \/ asked.op # "list"
    PROVE  Listing'
<1> SUFFICES ASSUME asked.op = "list" PROVE PagesMeant' /\ PagesListed' /\ ReplyListed'
  BY DEF Listing
<1>1. PagesMeant /\ PagesListed
  BY DEF Listing
<1>2. PagesMeant'
  BY <1>1 DEF PagesMeant, PageMeant, Meant
<1>3. Owed' \subseteq Owed
  BY DEF Owed, Meant
<1>4. \A i \in Owed' : (Due(i) <=> Due(i)') /\ On(i)' = On(i)
  BY DEF Due, On
<1>5. PagesListed'
  BY <1>1, <1>3, <1>4 DEF PagesListed
<1> QED
  BY <1>2, <1>5

(* The page that follows is added behind the pages there are: list().      *)
LEMMA NextPageListed ==
    ASSUME IInv, ListAnswered
    PROVE  Listing'
<1>0. /\ pc = "answered" /\ reply.error = Absent /\ asked.op = "list"
      /\ pc' = "settled" /\ outcome' = "listed" /\ token' = reply.next
      /\ pages' = Append(pages, RelativePage(reply.page)) /\ asked' = asked /\ always' = always
  BY DEF ListAnswered, Answered, Settles, RelativePage, history
<1>1. PagesMeant /\ PagesListed /\ PageFollows(reply.page, reply.next)
  BY <1>0 DEF IInv, Listing, ReplyListed
<1>2. /\ pages \in Seq(Page) /\ RelativePage(reply.page) \in Page /\ Len(pages) \in Nat
      /\ token \in Nat /\ reply.next \in Nat
  <2>1. pages \in Seq(Page) /\ reply \in Reply /\ token \in Nat
    BY DEF IInv, TypeOK
  <2>2. reply.page \in Page /\ reply.next \in Nat
    BY <2>1 DEF Reply
  <2> QED
    BY <2>1, <2>2, RelativeType, LenProperties
<1> DEFINE page == RelativePage(reply.page)
           last == Len(pages) + 1
<1>3. /\ DOMAIN pages = 1..Len(pages) /\ DOMAIN pages' = 1..last
      /\ \A n \in DOMAIN pages : pages'[n] = pages[n]
      /\ pages'[last] = page
  <2>1. /\ Append(pages, page) \in Seq(Page) /\ Len(Append(pages, page)) = Len(pages) + 1
        /\ \A n \in 1..Len(pages) : Append(pages, page)[n] = pages[n]
        /\ Append(pages, page)[Len(pages) + 1] = page
    BY <1>2, AppendProperties
  <2>2. DOMAIN pages = 1..Len(pages) /\ DOMAIN Append(pages, page) = 1..Len(Append(pages, page))
    BY <1>2, <2>1, LenProperties
  <2> HIDE DEF page
  <2> QED
    BY <1>0, <2>1, <2>2 DEF page
<1>4. DOMAIN pages' = DOMAIN pages \cup {last} /\ last \notin DOMAIN pages
  <2>1. 1..last = (1..Len(pages)) \cup {last} /\ last \notin 1..Len(pages)
    BY <1>2
  <2> QED
    BY <1>3, <2>1
<1> HIDE DEF page, last
<1>5. PagesMeant'
  <2>1. \A n \in DOMAIN pages' : PageMeant(pages'[n])
    BY <1>1, <1>3, <1>4 DEF PagesMeant, PageFollows, page
  <2>2. \A x : PageMeant(x)' <=> PageMeant(x)
    BY <1>0 DEF PageMeant, Meant
  <2> QED
    BY <2>1, <2>2 DEF PagesMeant, PageMeant, Meant
<1>6. ASSUME asked.maxKeys # 0 PROVE PagesListed'
  <2>1. TokenClosed(asked, reply.next)
    BY <1>1, <1>6 DEF PageFollows
  <2>2. Owed' = Owed
    BY <1>0 DEF Owed, Meant
  <2>3. ASSUME NEW i \in Owed
        PROVE  On(i)' = IF Covers(page, Order[i]) THEN On(i) \cup {last} ELSE On(i)
    <3>1. On(i)' = { n \in DOMAIN pages' : Covers(pages'[n], Order[i]) }
      BY DEF On
    <3>2. \A n \in DOMAIN pages' :
              Covers(pages'[n], Order[i]) <=>
                  (n \in DOMAIN pages /\ Covers(pages[n], Order[i])) \/ (n = last /\ Covers(page, Order[i]))
      BY <1>3, <1>4
    <3> QED
      BY <1>4, <3>1, <3>2 DEF On
  <2>4. ASSUME NEW i \in Owed
        PROVE  /\ Due(i)' => \E n \in DOMAIN pages' : On(i)' = {n}
               /\ ~Due(i)' => On(i)' = {}
    <3>1. i \in Nat
      BY OrderIs DEF Owed
    <3>2. Covers(page, Order[i]) <=> token < i /\ (reply.next = 0 \/ i <= reply.next)
      BY <1>1, <1>6 DEF PageFollows, page
    <3>3. Due(i) <=> i <= token
      BY <1>0 DEF Due, Ended
    <3>4. Due(i)' <=> i <= reply.next \/ reply.next = 0
      BY <1>0 DEF Due, Ended
    <3>5. CASE i <= token
      <4>1. PICK n \in DOMAIN pages : On(i) = {n}
        BY <1>1, <1>6, <3>3, <3>5 DEF PagesListed
      <4>2. ~Covers(page, Order[i])
        BY <1>2, <3>1, <3>2, <3>5
      <4>3. Due(i)'
        <5>1. reply.next = 0 \/ token < reply.next
          BY <1>1, <1>6 DEF PageFollows
        <5> QED
          BY <1>2, <3>1, <3>4, <3>5, <5>1
      <4> QED
        BY <1>4, <2>3, <4>1, <4>2, <4>3
    <3>6. CASE ~(i <= token)
      <4>1. On(i) = {}
        BY <1>1, <1>6, <3>3, <3>6 DEF PagesListed
      <4>2. token < i
        BY <1>2, <3>1, <3>6
      <4>3. Covers(page, Order[i]) <=> Due(i)'
        BY <3>2, <3>4, <4>2
      <4> QED
        BY <1>4, <2>3, <4>1, <4>3
    <3> QED
      BY <3>5, <3>6
  <2> QED
    BY <1>0, <2>1, <2>2, <2>4 DEF PagesListed, TokenClosed
<1>7. PagesListed'
  <2>1. CASE asked.maxKeys # 0
    BY <1>6, <2>1
  <2>2. CASE asked.maxKeys = 0
    BY <1>0, <2>2 DEF PagesListed
  <2> QED
    BY <2>1, <2>2
<1>8. ReplyListed'
  BY <1>0 DEF ReplyListed
<1> QED
  BY <1>0, <1>5, <1>7, <1>8 DEF Listing

LEMMA StepKeepsListing ==
    ASSUME IInv, [Next]_vars
    PROVE  Listing'
<1>0. Inv /\ TypeOK /\ AlwaysThere /\ Listing
  BY DEF IInv
<1>1. CASE Start
  <2>1. PICK o \in Options : Sends(o)
    BY <1>0, <1>1, Asking
  <2>2. /\ pages' = <<>> /\ token' = 0 /\ pc' \in {"sent", "settled"}
        /\ outcome' \in Codes \cup {"", "false"}
    BY <1>0, <1>1, <2>1, Sending DEF Start, Listing
  <2>3. ~Ended' /\ outcome' # "listed"
    BY <2>2 DEF Ended, Codes
  <2>4. DOMAIN pages' = {}
    <3>1. pages' = <<>>
      BY <2>2
    <3> QED
      BY <3>1
  <2>5. token' = 0
    BY <2>2
  <2>6. \A i \in Owed' : ~Due(i)' /\ On(i)' = {}
    <3> SUFFICES ASSUME NEW i \in Owed' PROVE ~Due(i)' /\ On(i)' = {}
      OBVIOUS
    <3>1. i \in Nat /\ 1 <= i
      BY OrderIs DEF Owed
    <3>2. ~(i <= token')
      BY <2>5, <3>1
    <3> QED
      BY <2>3, <2>4, <3>2 DEF Due, On
  <2>7. \A i \in DOMAIN Order : ~(i <= token')
    <3> SUFFICES ASSUME NEW i \in DOMAIN Order PROVE ~(i <= token')
      OBVIOUS
    <3>1. i \in Nat /\ 1 <= i
      BY OrderIs
    <3> QED
      BY <2>5, <3>1
  <2>8. PagesListed'
    BY <2>6, <2>7 DEF PagesListed, TokenClosed
  <2>9. PagesMeant' /\ ReplyListed'
    BY <2>2, <2>4 DEF PagesMeant, ReplyListed
  <2> QED
    BY <2>2, <2>8, <2>9 DEF Listing
<1>2. CASE Resume
  <2>1. PICK o \in Options : Sends(o) /\ o.op = asked.op
    BY <1>0, <1>2, Asking
  <2>2. asked'.op # "list" /\ pc' # "idle"
    BY <1>2, <2>1, Sending DEF Resume, Gets
  <2> QED
    BY <2>2 DEF Listing
<1>3. CASE ListOn
  <2>1. /\ Sends(asked) /\ asked \in Options /\ always' = always /\ pc = "settled" /\ token > 0
    BY <1>0, <1>3 DEF ListOn, Inv, Typed
  <2>2. /\ asked' = asked /\ pages' = pages /\ token' = token /\ pc' \in {"sent", "settled"}
        /\ outcome' \in Codes \cup {"", "false"}
    BY <2>1, Sending
  <2>3. ~Ended
    BY <2>1 DEF Ended
  <2>4. ~Ended'
    BY <2>2 DEF Ended, Codes
  <2>5. ReplyListed'
    BY <2>2 DEF ReplyListed
  <2> QED
    BY <1>0, <2>1, <2>2, <2>3, <2>4, <2>5, NothingListed
<1>4. CASE Applies \/ ClientFails \/ AnswersEmpty
  <2>1. /\ asked' = asked /\ pages' = pages /\ token' = token /\ always' = always
        /\ pc \in {"sent", "answered"} /\ pc' = "answered"
    BY <1>4 DEF Applies, ClientFails, AnswersEmpty, result, history
  <2>2. ~Ended /\ ~Ended'
    BY <2>1 DEF Ended
  <2>3. asked.op = "list" => ReplyListed'
    <3> SUFFICES ASSUME asked.op = "list", reply'.error = Absent
                 PROVE  PageFollows(reply.page, reply.next)'
      BY DEF ReplyListed
    <3>1. ~ClientFails
      BY ReadsAssumption DEF ClientFails, NoReply
    <3>2. ~AnswersEmpty
      BY DEF AnswersEmpty, Gets
    <3>3. pc = "sent" /\ reply' = ListReply(asked)
      BY <1>4, <3>1, <3>2 DEF Applies
    <3>5. PageFollows(ListReply(asked).page, ListReply(asked).next)
      BY <3>3, PageIsNext
    <3>6. PageFollows(reply'.page, reply'.next)
      BY <3>3, <3>5
    <3> QED
      BY <2>1, <3>6 DEF PageFollows, PageMeant, Meant, Owed
  <2> QED
    BY <1>0, <2>1, <2>2, <2>3, NothingListed
<1>5. CASE ListAnswered
  BY <1>5, NextPageListed
<1>6. CASE Fails
  <2>1. /\ asked' = asked /\ pages' = pages /\ token' = token /\ always' = always
        /\ pc = "answered" /\ pc' = "settled"
        /\ outcome' = Rejection(asked, Mapped(asked, reply.error))
    BY <1>6 DEF Fails, Settles, history
  <2>2. Rejection(asked, Mapped(asked, reply.error)) \in Codes \cup {"false"}
    BY MappedIsCode DEF Rejection, ExistsOutcome
  <2>3. ~Ended /\ ~Ended'
    BY <2>1, <2>2 DEF Ended, Codes
  <2>4. ReplyListed'
    BY <2>1 DEF ReplyListed
  <2> QED
    BY <1>0, <2>1, <2>3, <2>4, NothingListed
<1>7. CASE HeadAnswered \/ DownloadAnswered \/ BufferRead \/ BufferBreaks \/ CheckAnswered
  <2>1. /\ asked' = asked /\ pc \in {"answered", "streaming"} /\ pc' \in {"settled", "streaming"}
    BY <1>7 DEF HeadAnswered, DownloadAnswered, BufferRead, BufferBreaks, CheckAnswered, Answered,
                Settles
  <2>2. asked.op # "list"
    BY <1>0, <1>7 DEF HeadAnswered, DownloadAnswered, BufferRead, BufferBreaks, CheckAnswered, Answered,
                Gets, Inv, Stages
  <2> QED
    BY <2>1, <2>2 DEF Listing
<1>8. CASE Put \/ Shutdown \/ UNCHANGED vars
  <2>1. /\ asked' = asked /\ pages' = pages /\ token' = token /\ pc' = pc /\ outcome' = outcome
        /\ reply' = reply
    BY <1>8 DEF Put, Shutdown, vars, result
  <2>2. always' \subseteq always
    <3>1. CASE Put
      BY <3>1 DEF Put
    <3>2. CASE Shutdown \/ UNCHANGED vars
      BY <3>2 DEF Shutdown, vars, history
    <3> QED
      BY <1>8, <3>1, <3>2
  <2>3. Owed' \subseteq Owed
    BY <2>1, <2>2 DEF Owed, Meant
  <2>4. PagesMeant => PagesMeant'
    BY <2>1 DEF PagesMeant, PageMeant, Meant
  <2>5. \A i \in Owed' : (Due(i) <=> Due(i)') /\ On(i)' = On(i)
    BY <2>1 DEF Due, On, Ended
  <2>6. PagesListed => PagesListed'
    BY <2>1, <2>3, <2>5 DEF PagesListed
  <2>7. ReplyListed => ReplyListed'
    <3>1. \A page, next : PageFollows(page, next) => PageFollows(page, next)'
      BY <2>1, <2>3 DEF PageFollows, PageMeant, Meant
    <3> QED
      BY <2>1, <3>1 DEF ReplyListed
  <2> QED
    BY <1>0, <2>1, <2>4, <2>6, <2>7 DEF Listing
<1> QED
  BY <1>1, <1>2, <1>3, <1>4, <1>5, <1>6, <1>7, <1>8 DEF Next

LEMMA ListingInitially == Init => AlwaysThere /\ Listing
BY DEF Init, AlwaysThere, Listing

THEOREM ListingInductive == Spec => []IInv
<1>1. Init => IInv
  BY Initially, TypesInitially, ListingInitially DEF IInv
<1>2. IInv /\ [Next]_vars => IInv'
  <2> SUFFICES ASSUME IInv, [Next]_vars PROVE IInv'
    OBVIOUS
  <2>1. Inv'
    BY StepKeepsInv DEF IInv
  <2>2. TypeOK' /\ AlwaysThere'
    BY <2>1, StepKeepsTypes, StepKeepsAlways DEF IInv
  <2> QED
    BY <2>1, <2>2, StepKeepsListing DEF IInv
<1> QED
  BY <1>1, <1>2, PTL DEF Spec

(* Every variable keeps its type, and exists() answers true or false,      *)
(* whatever the provider fails with: head(), toListResult().               *)
THEOREM ReadTypes == Spec => []TypeOK
<1>1. IInv => TypeOK
  BY DEF IInv
<1> QED
  BY <1>1, ListingInductive, PTL

(* A listing followed to its end returns each object of the module that    *)
(* was there throughout exactly once, whatever writers do between the      *)
(* pages and however the delimiter groups them: list(), toListResult().    *)
THEOREM ListingsAreComplete == Spec => []ListingComplete
<1>1. IInv => ListingComplete
  <2> SUFFICES ASSUME IInv, pc = "settled", asked.op = "list" PROVE ListingComplete
    BY DEF ListingComplete
  <2>1. PagesMeant /\ PagesListed
    BY DEF IInv, Listing
  <2>2. ASSUME outcome = "listed", token = 0, asked.maxKeys # 0, NEW text \in always, Meant(text)
        PROVE  Cardinality({ n \in DOMAIN pages : Covers(pages[n], text) }) = 1
    <3>1. PICK i \in DOMAIN Order : Order[i] = text
      BY DEF IInv, TypeOK, Stored
    <3>2. i \in Owed /\ Due(i)
      BY <2>2, <3>1 DEF Owed, Due, Ended
    <3>3. PICK n \in DOMAIN pages : On(i) = {n}
      BY <2>1, <2>2, <3>2 DEF PagesListed
    <3>4. { m \in DOMAIN pages : Covers(pages[m], text) } = {n}
      BY <3>1, <3>3 DEF On
    <3> QED
      BY <3>4, FS_Singleton
  <2> QED
    BY <2>1, <2>2 DEF ListingComplete, PagesMeant, PageMeant, Covers
<1> QED
  BY <1>1, ListingInductive, PTL
=============================================================================
