-------------------------- MODULE BucketLifecycle --------------------------
(***************************************************************************)
(* src/server/services/bucket-lifecycle.service.ts: get, upsert and remove *)
(* called on several instances of the module, each with a keyPrefix of its *)
(* own, that share one bucket.                                             *)
(*                                                                         *)
(* The provider keeps one configuration and replaces it whole: a change is *)
(* a read, a change in memory and a write. The code between two awaits is  *)
(* one step. A write that failed without an answer may have been applied,  *)
(* may still be applied after the call has settled, or may be lost.        *)
(***************************************************************************)
EXTENDS KeyResolver, ErrorMappers

CONSTANTS
    Module,         \* instances of the module
    RawPrefix,      \* the keyPrefix each is configured with
    RuleId,
    BadId,          \* an id that is empty or longer than MAX_RULE_ID_LENGTH
    NoRule,         \* no rule under an id
    Unset,          \* undefined
    Setting,        \* values of TransitionDefaultMinimumObjectSize
    Default,        \* the one the provider applies when none is sent
    InitialConfigs, \* what the bucket may hold at first
    Ask,            \* what the service may be called with
    Call,           \* calls; each is made at most once
    RefusedErrors,  \* answers of a provider that did nothing
    FailedErrors    \* errors that leave open what the provider did

Rule == [kind : {"expire", "abort", "other"}, prefix : Seq(STRING), days : Nat]
Day == Nat \cup {Unset}
UpsertAsk == [op : {"upsert"}, id : RuleId \cup {BadId}, prefix : Text,
              expirationDays : Day, abortIncompleteMultipartDays : Day, bucket : BOOLEAN]
RemoveAsk == [op : {"remove"}, id : RuleId \cup {BadId}, bucket : BOOLEAN]
GetAsk == [op : {"get"}, bucket : BOOLEAN]

Config == [rules : [RuleId -> Rule \cup {NoRule}], setting : Setting]
Empty == [rules |-> [id \in RuleId |-> NoRule], setting |-> Default]

ASSUME LifecycleAssumption ==
    /\ RawPrefix \in [Module -> Text]
    /\ Ask \subseteq UpsertAsk \cup RemoveAsk \cup GetAsk
    /\ BadId \notin RuleId
    /\ NoRule \notin Rule
    /\ Unset \notin Nat
    /\ Default \in Setting
    /\ InitialConfigs \subseteq Config
    /\ \A c \in InitialConfigs : c.rules = Empty.rules => c = Empty
    /\ RefusedErrors \subseteq AwsError
    /\ FailedErrors \subseteq AwsError

\* An error that leaves open what the provider did has none of the names and
\* statuses by which a refusal is recognised.
ASSUME OpenErrors ==
    \A e \in FailedErrors :
        /\ AwsCode(e) \notin UnsupportedNames \cup RejectedNames \cup {"NoSuchBucket"}
        /\ e.status \notin UnsupportedStatuses

VARIABLES
    up,       \* per module: the client exists
    config,   \* at the provider
    sent,     \* per call: where its write is
    pc,       \* per call: the await it is at
    asked,    \* per call: what it was called with, and on which module
    snapshot, \* per call: what its read returned
    outcome,  \* per call: what its promise settled with
    origin,   \* history: the configuration at first
    past,     \* history: every configuration there was
    careful   \* callers take turns, and wait for writes that timed out

vars == <<up, config, sent, pc, asked, snapshot, outcome, origin, past, careful>>

Answers == {"views", "done", "true", "false"}
Refusals == {"STORAGE_NOT_CONFIGURED", "STORAGE_BUCKET_UNDEFINED", "STORAGE_KEY_INVALID",
             "STORAGE_LIFECYCLE_RULE_INVALID", "STORAGE_LIFECYCLE_UNSUPPORTED",
             "STORAGE_LIFECYCLE_REJECTED", "STORAGE_BUCKET_NOT_FOUND"}
Failures == {"STORAGE_OBJECT_NOT_FOUND", "STORAGE_NOT_MODIFIED", "STORAGE_PRECONDITION_FAILED",
             "STORAGE_TIMEOUT", "STORAGE_PROVIDER_ERROR", "Error"}

Init ==
    /\ up \in [Module -> BOOLEAN]
    /\ config \in InitialConfigs
    /\ sent = [c \in Call |-> "no"]
    /\ pc = [c \in Call |-> "idle"]
    /\ asked = [c \in Call |-> Unset]
    /\ snapshot = [c \in Call |-> Empty]
    /\ outcome = [c \in Call |-> ""]
    /\ origin = config
    /\ past = {config}
    /\ careful \in BOOLEAN
-----------------------------------------------------------------------------
KeyPrefix(m) == ResolvePrefix(RawPrefix[m])
ModuleOf(c) == asked[c].module
AskOf(c) == asked[c].ask

IsWithinKeyPrefix(m, rule) == KeyPrefix(m) = <<>> \/ StartsWith(rule.prefix, KeyPrefix(m))

\* Fault: a rule is asked for its owner only when it is removed.
AlwaysOwnable(m, rule) == TRUE

Ownable(m, rule) == rule = NoRule \/ IsWithinKeyPrefix(m, rule)

\* The prefix of get()'s answer: relative to keyPrefix, or as stored.
ToView(m, rule) ==
    IF IsWithinKeyPrefix(m, rule)
    THEN [rule EXCEPT !.prefix = StripPrefix(KeyPrefix(m), @)]
    ELSE rule

ValidDays(d) == d \in Nat /\ d >= 1
Aborts(o) == o.abortIncompleteMultipartDays # Unset

RuleInvalid(o) ==
    \/ o.id = BadId
    \/ /\ o.op = "upsert" /\ Aborts(o)
       /\ ~ValidDays(o.abortIncompleteMultipartDays) \/ o.expirationDays # Unset
    \/ /\ o.op = "upsert" /\ ~Aborts(o)
       /\ o.prefix = EmptyText \/ ~ValidDays(o.expirationDays)

KeyInvalid(o) ==
    /\ o.op = "upsert"
    /\ ~(Aborts(o) /\ o.prefix = EmptyText)
    /\ ~Acceptable(o.prefix)

\* Fault: both kinds of rule take their days from one field.
ToRuleOfOneField(m, o) ==
    [ kind   |-> IF Aborts(o) THEN "abort" ELSE "expire",
      prefix |-> Normalize(KeyPrefix(m), o.prefix),
      days   |-> o.expirationDays ]

\* An empty abort prefix is the module's whole namespace.
ToRule(m, o) ==
    [ kind   |-> IF Aborts(o) THEN "abort" ELSE "expire",
      prefix |-> IF Aborts(o) /\ o.prefix = EmptyText THEN PrefixText(KeyPrefix(m))
                 ELSE Normalize(KeyPrefix(m), o.prefix),
      days   |-> IF Aborts(o) THEN o.abortIncompleteMultipartDays ELSE o.expirationDays ]

\* The value a change gives its rule id.
NewRule(c) == IF AskOf(c).op = "remove" THEN NoRule ELSE ToRule(ModuleOf(c), AskOf(c))

\* Fault: the setting is not sent back.
PayloadWithoutSetting(c) ==
    LET rules == [snapshot[c].rules EXCEPT ![AskOf(c).id] = NewRule(c)]
    IN  IF rules = Empty.rules THEN Empty ELSE [rules |-> rules, setting |-> Default]

\* Fault: a rule whose id is new is not appended.
PayloadWithoutPush(c) ==
    LET id == AskOf(c).id
        rules == [snapshot[c].rules EXCEPT ![id] = IF @ = NoRule THEN @ ELSE NewRule(c)]
    IN  IF rules = Empty.rules THEN Empty
        ELSE [rules |-> rules, setting |-> snapshot[c].setting]

\* write(): the rules read, with the one changed; without rules it is a
\* DeleteBucketLifecycle. The setting that was read is sent back.
Payload(c) ==
    LET rules == [snapshot[c].rules EXCEPT ![AskOf(c).id] = NewRule(c)]
    IN  IF rules = Empty.rules THEN Empty
        ELSE [rules |-> rules, setting |-> snapshot[c].setting]
-----------------------------------------------------------------------------
Goes(c, stage) == pc' = [pc EXCEPT ![c] = stage]
Settles(c, out) == Goes(c, "settled") /\ outcome' = [outcome EXCEPT ![c] = out]

InProgress(c) == pc[c] \in {"reading", "writing"}
Quiet == \A c \in Call : ~InProgress(c) /\ sent[c] # "wire"

Refusal(m, o) ==
    IF ~up[m] THEN "STORAGE_NOT_CONFIGURED"
    ELSE IF o.op # "get" /\ RuleInvalid(o) THEN "STORAGE_LIFECYCLE_RULE_INVALID"
    ELSE IF KeyInvalid(o) THEN "STORAGE_KEY_INVALID"
    ELSE IF ~o.bucket THEN "STORAGE_BUCKET_UNDEFINED"
    ELSE ""

\* Up to the first await: the arguments are checked and the read is sent.
Start(c) ==
    \E m \in Module, o \in Ask :
        /\ pc[c] = "idle"
        /\ careful => Quiet
        /\ asked' = [asked EXCEPT ![c] = [module |-> m, ask |-> o]]
        /\ IF Refusal(m, o) = "" THEN Goes(c, "reading") /\ UNCHANGED outcome
                                 ELSE Settles(c, Refusal(m, o))
        /\ UNCHANGED <<up, config, sent, snapshot, origin, past, careful>>

\* GetBucketLifecycleConfiguration at the provider.
ReadAnswer == IF config.rules = Empty.rules
              THEN [error |-> {[name |-> "NoSuchLifecycleConfiguration", Code |-> "", status |-> 404]}]
              ELSE [error |-> {}]

\* read(): "none yet" is an empty snapshot.
Snapshot == IF \E e \in ReadAnswer.error : IsNoLifecycleConfiguration(e) THEN Empty ELSE config

Reads(c, op) ==
    /\ pc[c] = "reading" /\ AskOf(c).op = op
    /\ snapshot' = [snapshot EXCEPT ![c] = Snapshot]
    /\ UNCHANGED <<up, config, asked, origin, past, careful>>

GetAnswered(c) == Reads(c, "get") /\ Settles(c, "views") /\ UNCHANGED sent

\* write() up to its await. The client is asked for outside its try.
Writes(c) ==
    IF up[ModuleOf(c)]
    THEN Goes(c, "writing") /\ sent' = [sent EXCEPT ![c] = "wire"] /\ UNCHANGED outcome
    ELSE Settles(c, "Error") /\ UNCHANGED sent

UpsertRead(c) ==
    /\ Reads(c, "upsert")
    /\ IF Ownable(ModuleOf(c), Snapshot.rules[AskOf(c).id]) THEN Writes(c)
       ELSE Settles(c, "STORAGE_LIFECYCLE_RULE_INVALID") /\ UNCHANGED sent

RemoveRead(c) ==
    LET target == Snapshot.rules[AskOf(c).id]
    IN  /\ Reads(c, "remove")
        /\ IF target = NoRule THEN Settles(c, "false") /\ UNCHANGED sent
           ELSE IF ~Ownable(ModuleOf(c), target)
           THEN Settles(c, "STORAGE_LIFECYCLE_RULE_INVALID") /\ UNCHANGED sent
           ELSE Writes(c)

ReadFails(c) ==
    /\ pc[c] = "reading"
    /\ \E e \in RefusedErrors \cup FailedErrors : Settles(c, MapLifecycleError(e))
    /\ UNCHANGED <<up, config, sent, asked, snapshot, origin, past, careful>>

WriteAnswered(c) ==
    /\ pc[c] = "writing" /\ sent[c] = "applied"
    /\ Settles(c, IF AskOf(c).op = "upsert" THEN "done" ELSE "true")
    /\ UNCHANGED <<up, config, sent, asked, snapshot, origin, past, careful>>

\* The provider refuses the write.
WriteRefused(c) ==
    /\ pc[c] = "writing" /\ sent[c] = "wire"
    /\ \E e \in RefusedErrors : Settles(c, MapLifecycleError(e))
    /\ sent' = [sent EXCEPT ![c] = "dropped"]
    /\ UNCHANGED <<up, config, asked, snapshot, origin, past, careful>>

\* A timeout or a broken connection; the write is wherever it is.
WriteFails(c) ==
    /\ pc[c] = "writing"
    /\ \E e \in FailedErrors : Settles(c, MapLifecycleError(e))
    /\ UNCHANGED <<up, config, sent, asked, snapshot, origin, past, careful>>

\* The provider replaces its configuration, perhaps after the call gave up.
Applies(c) ==
    /\ sent[c] = "wire"
    /\ sent' = [sent EXCEPT ![c] = "applied"]
    /\ config' = Payload(c)
    /\ past' = past \cup {config'}
    /\ UNCHANGED <<up, pc, asked, snapshot, outcome, origin, careful>>

\* A write whose caller gave up is lost.
Lost(c) ==
    /\ sent[c] = "wire" /\ pc[c] = "settled"
    /\ sent' = [sent EXCEPT ![c] = "dropped"]
    /\ UNCHANGED <<up, config, pc, asked, snapshot, outcome, origin, past, careful>>

Shutdown ==
    \E m \in Module :
        /\ up[m]
        /\ up' = [up EXCEPT ![m] = FALSE]
        /\ UNCHANGED <<config, sent, pc, asked, snapshot, outcome, origin, past, careful>>

CallStep(c) ==
    \/ Start(c)
    \/ GetAnswered(c)
    \/ UpsertRead(c)
    \/ RemoveRead(c)
    \/ ReadFails(c)
    \/ WriteAnswered(c)
    \/ WriteRefused(c)
    \/ WriteFails(c)
    \/ Applies(c)
    \/ Lost(c)

Next == Shutdown \/ \E c \in Call : CallStep(c)

Spec == Init /\ [][Next]_vars
-----------------------------------------------------------------------------
TypeOK ==
    /\ up \in [Module -> BOOLEAN]
    /\ config \in Config
    /\ sent \in [Call -> {"no", "wire", "applied", "dropped"}]
    /\ pc \in [Call -> {"idle", "reading", "writing", "settled"}]
    /\ asked \in [Call -> [module : Module, ask : Ask] \cup {Unset}]
    /\ snapshot \in [Call -> Config]
    /\ outcome \in [Call -> {""} \cup Answers \cup Refusals \cup Failures]
    /\ origin \in Config
    /\ past \subseteq Config
    /\ careful \in BOOLEAN

\* No module confines the rule to its keyPrefix.
Foreign(rule) == rule # NoRule /\ \A m \in Module : ~IsWithinKeyPrefix(m, rule)

(* A rule outside every module's keyPrefix survives whatever is called, in *)
(* any overlap, with stale reads and late writes: assertOwnable() and the  *)
(* unchanged rules of write().                                             *)
ForeignRulesKept ==
    \A id \in RuleId : Foreign(origin.rules[id]) => config.rules[id] = origin.rules[id]

(* A call that rejects with a refusal, or finds nothing to remove, changed *)
(* nothing and has nothing on its way.                                     *)
RefusedWroteNothing ==
    \A c \in Call : outcome[c] \in Refusals \cup {"false", "views"} => sent[c] \in {"no", "dropped"}

(* What an upsert was told is written stays, for callers that take turns,  *)
(* until a call that names the same id; and likewise for a remove.         *)
AnswersHold ==
    \A c \in Call : careful /\ outcome[c] \in {"done", "true"} =>
        \/ config.rules[AskOf(c).id] = NewRule(c)
        \/ \E d \in Call \ {c} : sent[d] = "applied" /\ AskOf(d).id = AskOf(c).id

\* The input that asks for a rule again, taken from get()'s view of it.
AskAgain(id, view) ==
    [ op |-> "upsert", id |-> id, bucket |-> TRUE, prefix |-> view.prefix,
      expirationDays |-> IF view.kind = "expire" THEN view.days ELSE Unset,
      abortIncompleteMultipartDays |-> IF view.kind = "abort" THEN view.days ELSE Unset ]

(* A rule this service wrote, read with get() and passed to upsert() as it *)
(* was read, is accepted and written as it was: the prefix is neither      *)
(* doubled nor lost.                                                       *)
ViewsCanBeWritten ==
    \A g, c \in Call :
        /\ outcome[g] = "views" /\ outcome[c] = "done" /\ ModuleOf(c) = ModuleOf(g)
        /\ snapshot[g].rules[AskOf(c).id] = NewRule(c)
        => LET again == AskAgain(AskOf(c).id, ToView(ModuleOf(g), NewRule(c)))
           IN  ~RuleInvalid(again) /\ ~KeyInvalid(again) /\ ToRule(ModuleOf(g), again) = NewRule(c)

(* Each write gives one id a value and leaves the rest as its call read    *)
(* it; for careful callers that is what is in force.                       *)
Store == INSTANCE RuleStore
ImplementsRuleStore == Store!Spec
=============================================================================
