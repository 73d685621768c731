----------------------- MODULE BucketLifecycle_proofs -----------------------
(***************************************************************************)
(* Proofs about BucketLifecycle, for any modules, prefixes, rules, callers *)
(* and errors. Everything follows from one inductive invariant: a write on *)
(* its way holds a configuration that was in force, changed at one id that *)
(* its module may change.                                                  *)
(***************************************************************************)
EXTENDS BucketLifecycle, KeyResolver_proofs, TLAPS

USE DEF Empty

\* The write of c is at the provider's door.
OnWire(c) == sent[c] = "wire"
Active(c) == InProgress(c) \/ OnWire(c)

Accepted(c) ==
    /\ asked[c] \in [module : Module, ask : Ask]
    /\ AskOf(c).op # "get" => ~RuleInvalid(AskOf(c))
    /\ ~KeyInvalid(AskOf(c))

Stages == \A c \in Call :
    /\ pc[c] \in {"idle", "reading"} => sent[c] = "no"
    /\ pc[c] # "settled" => outcome[c] = ""
    /\ pc[c] = "writing" => sent[c] \in {"wire", "applied"}
    /\ outcome[c] \in {"done", "true"} => sent[c] = "applied"
    /\ Active(c) \/ sent[c] # "no" => Accepted(c)
    /\ sent[c] # "no" => AskOf(c).op # "get"

\* A write on its way: from which configuration, and with whose leave.
WritesAreOwned == \A c \in Call : OnWire(c) =>
    /\ snapshot[c] \in past
    /\ Ownable(ModuleOf(c), snapshot[c].rules[AskOf(c).id])

History ==
    /\ config \in past
    /\ \A x \in past : /\ x.rules = Empty.rules => x = Empty
                       /\ \A id \in RuleId : Foreign(origin.rules[id]) => x.rules[id] = origin.rules[id]

\* Callers that are careful.
Turns == careful =>
    /\ \A c, d \in Call : Active(c) /\ Active(d) => c = d
    /\ \A c \in Call : OnWire(c) => snapshot[c] = config
    /\ \A c \in Call : sent[c] = "applied" =>
           \/ config.rules[AskOf(c).id] = NewRule(c)
           \/ \E d \in Call \ {c} : sent[d] = "applied" /\ AskOf(d).id = AskOf(c).id

\* Only upsert() answers "done".
DoneIsUpsert == \A c \in Call : outcome[c] = "done" => AskOf(c).op = "upsert"

Inv == /\ TypeOK /\ Stages /\ WritesAreOwned /\ History /\ Turns /\ RefusedWroteNothing
       /\ DoneIsUpsert
-----------------------------------------------------------------------------
(* An error that leaves open what the provider did is reported with a code *)
(* that is no refusal.                                                     *)
LEMMA OpenErrorsAreFailures ==
    ASSUME NEW e \in FailedErrors
    PROVE  MapLifecycleError(e) \in Failures
BY OpenErrors DEF MapLifecycleError, MapAwsError, Failures

(* Each error of the client has a code.                                    *)
LEMMA ErrorsHaveCodes ==
    ASSUME NEW e
    PROVE  MapLifecycleError(e) \in Refusals \cup Failures
BY DEF MapLifecycleError, MapAwsError, Failures, Refusals

(* toRule() builds a rule from an input that was accepted.                 *)
LEMMA ToRuleType ==
    ASSUME NEW m \in Module, NEW o \in Ask, o.op = "upsert", ~RuleInvalid(o)
    PROVE  ToRule(m, o) \in Rule
<1>1. o \in UpsertAsk
  BY LifecycleAssumption DEF UpsertAsk, RemoveAsk, GetAsk
<1>2. ToRule(m, o).days \in Nat
  BY <1>1 DEF ToRule, RuleInvalid, ValidDays, Aborts, UpsertAsk
<1>3. /\ KeyPrefix(m) \in Seq(STRING)
      /\ Collapse(o.prefix) \in Seq(STRING)
  <2>1. KeyPrefix(m) \in Seq(STRING)
    BY LifecycleAssumption, ResolvePrefixType DEF KeyPrefix
  <2>2. o.prefix \in Text
    BY <1>1 DEF UpsertAsk
  <2> QED
    BY <2>1, <2>2, CollapseKeeps DEF Text
<1>4. ToRule(m, o).prefix \in Seq(STRING)
  <2>1. PrefixText(KeyPrefix(m)) \in Seq(STRING)
    BY <1>3, TextAssumption DEF PrefixText, Text
  <2>2. Normalize(KeyPrefix(m), o.prefix) \in Seq(STRING)
    BY <1>3 DEF Normalize
  <2> QED BY <2>1, <2>2 DEF ToRule
<1> QED BY <1>2, <1>4 DEF ToRule, Rule

(* The configuration a call writes is one.                                 *)
LEMMA PayloadType ==
    ASSUME TypeOK, NEW c \in Call, Accepted(c), AskOf(c).op # "get"
    PROVE  /\ Payload(c) \in Config
           /\ AskOf(c).id \in RuleId
           /\ NewRule(c) \in Rule \cup {NoRule}
           /\ ModuleOf(c) \in Module
<1>1. ModuleOf(c) \in Module /\ AskOf(c) \in Ask
  BY DEF Accepted, TypeOK, ModuleOf, AskOf
<1>2. AskOf(c).op \in {"upsert", "remove"} /\ AskOf(c).id \in RuleId
  BY <1>1, LifecycleAssumption DEF UpsertAsk, RemoveAsk, GetAsk, RuleInvalid, Accepted
<1>3. NewRule(c) \in Rule \cup {NoRule}
  BY <1>1, <1>2, ToRuleType DEF NewRule, Accepted
<1>4. snapshot[c] \in Config /\ Empty \in Config
  BY LifecycleAssumption DEF TypeOK, Config
<1> QED BY <1>1, <1>2, <1>3, <1>4 DEF Payload, Config

(* What a payload holds: the snapshot, changed at one id.                  *)
LEMMA PayloadRules ==
    ASSUME TypeOK, NEW c \in Call, Accepted(c), AskOf(c).op # "get"
    PROVE  /\ Payload(c).rules = [snapshot[c].rules EXCEPT ![AskOf(c).id] = NewRule(c)]
           /\ Payload(c).rules = Empty.rules => Payload(c) = Empty
           /\ Payload(c).rules # Empty.rules => Payload(c).setting = snapshot[c].setting
BY DEF Payload
-----------------------------------------------------------------------------
LEMMA InitInv == Init => Inv
<1> SUFFICES ASSUME Init PROVE Inv
  OBVIOUS
<1>1. Empty \in Config /\ config \in Config
  BY LifecycleAssumption DEF Init, Config
<1>2. TypeOK
  BY <1>1 DEF Init, TypeOK
<1>3. Stages /\ WritesAreOwned
  BY DEF Init, Stages, WritesAreOwned, OnWire, Active, InProgress
<1>4. History
  BY LifecycleAssumption DEF Init, History
<1>5. Turns
  BY DEF Init, Turns, OnWire, Active, InProgress
<1>6. RefusedWroteNothing /\ DoneIsUpsert
  BY DEF Init, RefusedWroteNothing, Refusals, DoneIsUpsert
<1> QED BY <1>2, <1>3, <1>4, <1>5, <1>6 DEF Inv

\* What each step leaves alone of the past and of the others' writes.
LEMMA TypeStep == TypeOK /\ Stages /\ [Next]_vars => TypeOK'
<1> SUFFICES ASSUME TypeOK, Stages, [Next]_vars PROVE TypeOK'
  OBVIOUS
<1>a. Empty \in Config /\ Snapshot \in Config
  BY LifecycleAssumption DEF Config, Snapshot, TypeOK
<1>1. CASE Shutdown
  BY <1>1 DEF Shutdown, TypeOK
<1>2. CASE UNCHANGED vars
  BY <1>2 DEF vars, TypeOK
<1>3. ASSUME NEW c \in Call, CallStep(c) PROVE TypeOK'
  <2>1. CASE Start(c)
    <3>1. PICK m \in Module, o \in Ask :
            /\ asked' = [asked EXCEPT ![c] = [module |-> m, ask |-> o]]
            /\ IF Refusal(m, o) = "" THEN Goes(c, "reading") /\ UNCHANGED outcome
                                     ELSE Settles(c, Refusal(m, o))
            /\ UNCHANGED <<up, config, sent, snapshot, origin, past, careful>>
      BY <2>1 DEF Start
    <3>2. Refusal(m, o) \in {""} \cup Refusals
      BY DEF Refusal, Refusals
    <3>3. outcome' \in [Call -> {""} \cup Answers \cup Refusals \cup Failures]
      BY <3>1, <3>2 DEF TypeOK, Settles
    <3>4. pc' \in [Call -> {"idle", "reading", "writing", "settled"}]
      BY <3>1 DEF TypeOK, Settles, Goes
    <3> QED BY <3>1, <3>3, <3>4 DEF TypeOK
  <2>2. CASE GetAnswered(c)
    BY <2>2, <1>a DEF GetAnswered, Reads, Settles, Goes, TypeOK, Answers
  <2>3. CASE UpsertRead(c)
    BY <2>3, <1>a DEF UpsertRead, Reads, Writes, Settles, Goes, TypeOK, Failures, Refusals
  <2>4. CASE RemoveRead(c)
    BY <2>4, <1>a DEF RemoveRead, Reads, Writes, Settles, Goes, TypeOK, Failures, Refusals, Answers
  <2>5. CASE ReadFails(c)
    <3>1. PICK e \in RefusedErrors \cup FailedErrors : Settles(c, MapLifecycleError(e))
      BY <2>5 DEF ReadFails
    <3>2. MapLifecycleError(e) \in Refusals \cup Failures
      BY ErrorsHaveCodes
    <3> QED BY <2>5, <3>1, <3>2 DEF ReadFails, Settles, Goes, TypeOK
  <2>6. CASE WriteAnswered(c)
    BY <2>6 DEF WriteAnswered, Settles, Goes, TypeOK, Answers
  <2>7. CASE WriteRefused(c)
    <3>1. PICK e \in RefusedErrors : Settles(c, MapLifecycleError(e))
      BY <2>7 DEF WriteRefused
    <3>2. MapLifecycleError(e) \in Refusals \cup Failures
      BY ErrorsHaveCodes
    <3> QED BY <2>7, <3>1, <3>2 DEF WriteRefused, Settles, Goes, TypeOK
  <2>8. CASE WriteFails(c)
    <3>1. PICK e \in FailedErrors : Settles(c, MapLifecycleError(e))
      BY <2>8 DEF WriteFails
    <3>2. MapLifecycleError(e) \in Refusals \cup Failures
      BY ErrorsHaveCodes
    <3> QED BY <2>8, <3>1, <3>2 DEF WriteFails, Settles, Goes, TypeOK
  <2>9. CASE Applies(c)
    <3>1. Accepted(c) /\ AskOf(c).op # "get"
      BY <2>9 DEF Stages, Applies, Active, OnWire
    <3>2. Payload(c) \in Config
      BY <3>1, PayloadType
    <3> QED BY <2>9, <3>2 DEF Applies, TypeOK
  <2>10. CASE Lost(c)
    BY <2>10 DEF Lost, TypeOK
  <2> QED BY <1>3, <2>1, <2>2, <2>3, <2>4, <2>5, <2>6, <2>7, <2>8, <2>9, <2>10 DEF CallStep
<1> QED BY <1>1, <1>2, <1>3 DEF Next

(* What a call that starts has been accepted for.                          *)
LEMMA StartAccepts ==
    ASSUME TypeOK, NEW c \in Call, Start(c)
    PROVE  /\ pc[c] = "idle"
           /\ careful => Quiet
           /\ pc' \in {[pc EXCEPT ![c] = "reading"], [pc EXCEPT ![c] = "settled"]}
           /\ pc'[c] = "reading" => Accepted(c)' /\ outcome' = outcome
           /\ outcome' \in {outcome, [outcome EXCEPT ![c] = outcome'[c]]}
           /\ pc'[c] = "settled" => outcome'[c] \in Refusals
           /\ \A d \in Call \ {c} : asked'[d] = asked[d]
           /\ UNCHANGED <<up, config, sent, snapshot, origin, past, careful>>
<1>1. PICK m \in Module, o \in Ask :
        /\ asked' = [asked EXCEPT ![c] = [module |-> m, ask |-> o]]
        /\ IF Refusal(m, o) = "" THEN Goes(c, "reading") /\ UNCHANGED outcome
                                 ELSE Settles(c, Refusal(m, o))
        /\ pc[c] = "idle"
        /\ careful => Quiet
        /\ UNCHANGED <<up, config, sent, snapshot, origin, past, careful>>
  BY DEF Start
<1>2. Refusal(m, o) \in {""} \cup Refusals
  BY DEF Refusal, Refusals
<1>3. asked'[c] = [module |-> m, ask |-> o] /\ asked'[c] \in [module : Module, ask : Ask]
  BY <1>1 DEF TypeOK
<1>4. Refusal(m, o) = "" => Accepted(c)'
  BY <1>3 DEF Refusal, Accepted, AskOf
<1>5. \A d \in Call \ {c} : asked'[d] = asked[d]
  BY <1>1 DEF TypeOK
<1> QED BY <1>1, <1>2, <1>4, <1>5 DEF Settles, Goes, TypeOK

(* What a change does once its read is answered: it is sent or settles.    *)
LEMMA ChangeAfterRead ==
    ASSUME TypeOK, NEW c \in Call, UpsertRead(c) \/ RemoveRead(c)
    PROVE  /\ pc[c] = "reading" /\ AskOf(c).op # "get"
           /\ snapshot' = [snapshot EXCEPT ![c] = Snapshot]
           /\ UNCHANGED <<up, config, asked, origin, past, careful>>
           /\ \/ /\ Ownable(ModuleOf(c), Snapshot.rules[AskOf(c).id])
                 /\ pc' = [pc EXCEPT ![c] = "writing"]
                 /\ sent' = [sent EXCEPT ![c] = "wire"]
                 /\ outcome' = outcome
              \/ \E x \in {"Error", "false", "STORAGE_LIFECYCLE_RULE_INVALID"} :
                     /\ pc' = [pc EXCEPT ![c] = "settled"]
                     /\ sent' = sent
                     /\ outcome' = [outcome EXCEPT ![c] = x]
<1>1. CASE UpsertRead(c)
  BY <1>1 DEF UpsertRead, Reads, Writes, Settles, Goes
<1>2. CASE RemoveRead(c)
  BY <1>2 DEF RemoveRead, Reads, Writes, Settles, Goes
<1> QED BY <1>1, <1>2

(* A failed read or write settles its call with a code.                    *)
LEMMA FailureSettles ==
    ASSUME TypeOK, NEW c \in Call, ReadFails(c) \/ WriteRefused(c) \/ WriteFails(c)
    PROVE  /\ pc' = [pc EXCEPT ![c] = "settled"]
           /\ \E x \in Refusals \cup Failures : /\ outcome' = [outcome EXCEPT ![c] = x]
                                                /\ WriteFails(c) => x \notin Refusals
           /\ sent' \in {sent, [sent EXCEPT ![c] = "dropped"]}
           /\ WriteRefused(c) => sent' = [sent EXCEPT ![c] = "dropped"]
           /\ ReadFails(c) \/ WriteFails(c) => sent' = sent
           /\ pc[c] \in {"reading", "writing"} /\ (ReadFails(c) => pc[c] = "reading")
           /\ UNCHANGED <<up, config, asked, snapshot, origin, past, careful>>
<1>1. \A e : MapLifecycleError(e) \in Refusals \cup Failures
  BY ErrorsHaveCodes
<1>2. \A e \in FailedErrors : MapLifecycleError(e) \in Failures
  BY OpenErrorsAreFailures
<1>3. \A x \in Failures : x \notin Refusals
  BY DEF Failures, Refusals
<1>4. CASE ReadFails(c)
  <2>1. PICK e \in RefusedErrors \cup FailedErrors : Settles(c, MapLifecycleError(e))
    BY <1>4 DEF ReadFails
  <2>2. MapLifecycleError(e) \in Refusals \cup Failures /\ ~WriteFails(c) /\ ~WriteRefused(c)
    BY <1>1, <1>4 DEF ReadFails, WriteFails, WriteRefused
  <2> QED BY <2>1, <2>2, <1>4 DEF ReadFails, Settles, Goes
<1>5. CASE WriteRefused(c)
  <2>1. PICK e \in RefusedErrors : Settles(c, MapLifecycleError(e))
    BY <1>5 DEF WriteRefused
  <2>2. MapLifecycleError(e) \in Refusals \cup Failures /\ ~ReadFails(c)
    BY <1>1, <1>5 DEF ReadFails, WriteFails, WriteRefused
  <2>3. ~WriteFails(c)
    BY <1>5 DEF WriteRefused, WriteFails, TypeOK
  <2> QED BY <2>1, <2>2, <2>3, <1>5 DEF WriteRefused, Settles, Goes
<1>6. CASE WriteFails(c)
  <2>1. PICK e \in FailedErrors : Settles(c, MapLifecycleError(e))
    BY <1>6 DEF WriteFails
  <2>2. MapLifecycleError(e) \in Failures /\ MapLifecycleError(e) \notin Refusals
    BY <1>2, <1>3
  <2>3. ~WriteRefused(c) /\ ~ReadFails(c)
    BY <1>6 DEF WriteRefused, WriteFails, ReadFails, TypeOK
  <2> QED BY <2>1, <2>2, <2>3, <1>6 DEF WriteFails, Settles, Goes
<1> QED BY <1>4, <1>5, <1>6

(* The stages a call and its write go through together.                    *)
LEMMA StagesStep == TypeOK /\ Stages /\ [Next]_vars => Stages'
<1> SUFFICES ASSUME TypeOK, Stages, [Next]_vars, NEW d \in Call
             PROVE  /\ pc'[d] \in {"idle", "reading"} => sent'[d] = "no"
                    /\ pc'[d] # "settled" => outcome'[d] = ""
                    /\ pc'[d] = "writing" => sent'[d] \in {"wire", "applied"}
                    /\ outcome'[d] \in {"done", "true"} => sent'[d] = "applied"
                    /\ Active(d)' \/ sent'[d] # "no" => Accepted(d)'
                    /\ sent'[d] # "no" => AskOf(d)'.op # "get"
  BY DEF Stages
<1> USE DEF Active, OnWire, InProgress, Accepted, AskOf
<1>a. asked'[d] = asked[d] => /\ Accepted(d) => Accepted(d)'
                               /\ AskOf(d)' = AskOf(d)
  BY DEF Accepted, AskOf
<1>1. CASE Shutdown
  BY <1>1, <1>a DEF Shutdown, Stages
<1>2. CASE UNCHANGED vars
  BY <1>2, <1>a DEF vars, Stages
<1>3. ASSUME NEW c \in Call, CallStep(c)
      PROVE  /\ pc'[d] \in {"idle", "reading"} => sent'[d] = "no"
             /\ pc'[d] # "settled" => outcome'[d] = ""
             /\ pc'[d] = "writing" => sent'[d] \in {"wire", "applied"}
             /\ outcome'[d] \in {"done", "true"} => sent'[d] = "applied"
             /\ Active(d)' \/ sent'[d] # "no" => Accepted(d)'
             /\ sent'[d] # "no" => AskOf(d)'.op # "get"
  <2>1. CASE Start(c)
    <3>1. /\ pc[c] = "idle"
          /\ pc' \in {[pc EXCEPT ![c] = "reading"], [pc EXCEPT ![c] = "settled"]}
          /\ pc'[c] = "reading" => Accepted(c)' /\ outcome' = outcome
          /\ outcome' \in {outcome, [outcome EXCEPT ![c] = outcome'[c]]}
          /\ pc'[c] = "settled" => outcome'[c] \in Refusals
          /\ \A e \in Call \ {c} : asked'[e] = asked[e]
          /\ sent' = sent
      BY <2>1, StartAccepts
    <3>2. CASE d = c
      <4>1. sent'[c] = "no" /\ outcome[c] = "" /\ pc'[c] \in {"reading", "settled"}
        BY <3>1 DEF Stages, TypeOK
      <4>2. CASE pc'[c] = "reading"
        BY <3>1, <3>2, <4>1, <4>2
      <4>3. CASE pc'[c] = "settled"
        BY <3>1, <3>2, <4>1, <4>3 DEF Refusals
      <4> QED BY <4>1, <4>2, <4>3
    <3>3. CASE d # c
      <4>1. asked'[d] = asked[d] /\ sent'[d] = sent[d]
        BY <3>1, <3>3
      <4>2. pc'[d] = pc[d] /\ outcome'[d] = outcome[d]
        BY <3>1, <3>3 DEF TypeOK
      <4>3. /\ pc[d] \in {"idle", "reading"} => sent[d] = "no"
            /\ pc[d] # "settled" => outcome[d] = ""
            /\ pc[d] = "writing" => sent[d] \in {"wire", "applied"}
            /\ outcome[d] \in {"done", "true"} => sent[d] = "applied"
            /\ Active(d) \/ sent[d] # "no" => Accepted(d)
            /\ sent[d] # "no" => AskOf(d).op # "get"
        BY DEF Stages
      <4> QED BY <4>1, <4>2, <4>3, <1>a
    <3> QED BY <3>2, <3>3
  <2>2. CASE GetAnswered(c)
    BY <2>2, <1>a DEF GetAnswered, Reads, Settles, Goes, Stages, TypeOK
  <2>3. CASE UpsertRead(c) \/ RemoveRead(c)
    <3>1. pc[c] = "reading" /\ AskOf(c).op # "get" /\ asked' = asked
      BY <2>3, ChangeAfterRead
    <3>2. CASE /\ pc' = [pc EXCEPT ![c] = "writing"]
               /\ sent' = [sent EXCEPT ![c] = "wire"]
               /\ outcome' = outcome
      BY <3>1, <3>2, <1>a DEF Stages, TypeOK
    <3>3. ASSUME NEW x \in {"Error", "false", "STORAGE_LIFECYCLE_RULE_INVALID"},
                 pc' = [pc EXCEPT ![c] = "settled"], sent' = sent,
                 outcome' = [outcome EXCEPT ![c] = x]
          PROVE  /\ pc'[d] \in {"idle", "reading"} => sent'[d] = "no"
                 /\ pc'[d] # "settled" => outcome'[d] = ""
                 /\ pc'[d] = "writing" => sent'[d] \in {"wire", "applied"}
                 /\ outcome'[d] \in {"done", "true"} => sent'[d] = "applied"
                 /\ Active(d)' \/ sent'[d] # "no" => Accepted(d)'
                 /\ sent'[d] # "no" => AskOf(d)'.op # "get"
      BY <3>1, <3>3, <1>a DEF Stages, TypeOK
    <3> QED BY <2>3, <3>2, <3>3, ChangeAfterRead
  <2>4. CASE ReadFails(c) \/ WriteRefused(c) \/ WriteFails(c)
    <3>1. PICK x \in Refusals \cup Failures : outcome' = [outcome EXCEPT ![c] = x]
      BY <2>4, FailureSettles
    <3>2. x \notin {"done", "true"}
      BY DEF Refusals, Failures
    <3>3. /\ pc' = [pc EXCEPT ![c] = "settled"] /\ asked' = asked
          /\ sent' \in {sent, [sent EXCEPT ![c] = "dropped"]}
          /\ pc[c] \in {"reading", "writing"}
          /\ sent' # sent => WriteRefused(c)
      BY <2>4, FailureSettles
    <3>4. sent' # sent => sent[c] = "wire"
      BY <3>3 DEF WriteRefused
    <3>5. sent[c] = "no" => sent' = sent
      BY <3>4
    <3> QED BY <3>1, <3>2, <3>3, <3>4, <1>a DEF Stages, TypeOK
  <2>5. CASE WriteAnswered(c)
    BY <2>5, <1>a DEF WriteAnswered, Settles, Goes, Stages, TypeOK
  <2>6. CASE Applies(c)
    BY <2>6, <1>a DEF Applies, Stages, TypeOK
  <2>7. CASE Lost(c)
    BY <2>7, <1>a DEF Lost, Stages, TypeOK
  <2> QED BY <1>3, <2>1, <2>2, <2>3, <2>4, <2>5, <2>6, <2>7 DEF CallStep
<1> QED BY <1>1, <1>2, <1>3 DEF Next


(* A write on its way starts from what was in force and changes a rule its *)
(* module owns.                                                            *)
LEMMA OwnedStep ==
    TypeOK /\ Stages /\ WritesAreOwned /\ History /\ [Next]_vars => WritesAreOwned'
<1> SUFFICES ASSUME TypeOK, Stages, WritesAreOwned, History, [Next]_vars,
                    NEW d \in Call, OnWire(d)'
             PROVE  /\ snapshot'[d] \in past'
                    /\ Ownable(ModuleOf(d), snapshot[d].rules[AskOf(d).id])'
  BY DEF WritesAreOwned
<1> USE DEF OnWire
<1>1. past \subseteq past'
  <2>1. ASSUME NEW c \in Call, CallStep(c) PROVE past \subseteq past'
    <3>1. CASE Start(c)
      BY <3>1 DEF Start
    <3>2. CASE GetAnswered(c) \/ UpsertRead(c) \/ RemoveRead(c)
      BY <3>2 DEF GetAnswered, UpsertRead, RemoveRead, Reads
    <3>3. CASE ReadFails(c) \/ WriteAnswered(c) \/ WriteRefused(c) \/ WriteFails(c)
      BY <3>3 DEF ReadFails, WriteAnswered, WriteRefused, WriteFails
    <3>4. CASE Applies(c) \/ Lost(c)
      BY <3>4 DEF Applies, Lost
    <3> QED BY <2>1, <3>1, <3>2, <3>3, <3>4 DEF CallStep
  <2> QED BY <2>1 DEF Next, Shutdown, vars
<1>2. CASE /\ sent[d] = "wire" /\ snapshot'[d] = snapshot[d] /\ asked'[d] = asked[d]
  BY <1>1, <1>2 DEF WritesAreOwned, AskOf, ModuleOf, Ownable, IsWithinKeyPrefix
<1>3. CASE UNCHANGED vars \/ Shutdown
  BY <1>2, <1>3 DEF vars, Shutdown
<1>4. ASSUME NEW c \in Call, CallStep(c)
      PROVE  \/ /\ sent[d] = "wire" /\ snapshot'[d] = snapshot[d] /\ asked'[d] = asked[d]
             \/ /\ snapshot'[d] \in past'
                /\ Ownable(ModuleOf(d), snapshot[d].rules[AskOf(d).id])'
  <2>1. CASE Start(c)
    <3>1. /\ pc[c] = "idle" /\ sent' = sent /\ snapshot' = snapshot
          /\ \A e \in Call \ {c} : asked'[e] = asked[e]
      BY <2>1, StartAccepts
    <3> QED BY <3>1 DEF Stages
  <2>2. CASE GetAnswered(c)
    <3>1. pc[c] = "reading" /\ sent' = sent /\ asked' = asked
          /\ snapshot' = [snapshot EXCEPT ![c] = Snapshot]
      BY <2>2 DEF GetAnswered, Reads
    <3> QED BY <3>1 DEF Stages, TypeOK
  <2>3. CASE UpsertRead(c) \/ RemoveRead(c)
    <3>1. /\ pc[c] = "reading" /\ asked' = asked /\ past' = past
          /\ snapshot' = [snapshot EXCEPT ![c] = Snapshot]
          /\ sent' # sent => /\ Ownable(ModuleOf(c), Snapshot.rules[AskOf(c).id])
                             /\ sent' = [sent EXCEPT ![c] = "wire"]
      BY <2>3, ChangeAfterRead
    <3>2. Snapshot \in past
      BY DEF Snapshot, ReadAnswer, History, IsNoLifecycleConfiguration, AwsCode
    <3>3. CASE d # c
      BY <3>1, <3>3 DEF TypeOK
    <3>4. CASE d = c
      <4>1. sent[c] = "no" /\ snapshot'[c] = Snapshot
        BY <3>1 DEF Stages, TypeOK
      <4>2. Ownable(ModuleOf(c), Snapshot.rules[AskOf(c).id])
        BY <3>1, <3>4, <4>1
      <4> QED BY <3>1, <3>2, <3>4, <4>1, <4>2 DEF AskOf, ModuleOf, Ownable, IsWithinKeyPrefix
    <3> QED BY <3>3, <3>4
  <2>4. CASE ReadFails(c) \/ WriteRefused(c) \/ WriteFails(c)
    <3>1. /\ sent' \in {sent, [sent EXCEPT ![c] = "dropped"]}
          /\ UNCHANGED <<asked, snapshot>>
      BY <2>4, FailureSettles
    <3> QED BY <3>1 DEF TypeOK
  <2>5. CASE WriteAnswered(c)
    BY <2>5 DEF WriteAnswered
  <2>6. CASE Applies(c)
    BY <2>6 DEF Applies, TypeOK
  <2>7. CASE Lost(c)
    BY <2>7 DEF Lost, TypeOK
  <2> QED BY <1>4, <2>1, <2>2, <2>3, <2>4, <2>5, <2>6, <2>7 DEF CallStep
<1> QED BY <1>2, <1>3, <1>4 DEF Next

(* What is in force is replaced by a payload, and by nothing else.         *)
LEMMA ConfigChanges ==
    ASSUME TypeOK, [Next]_vars
    PROVE  /\ origin' = origin /\ careful' = careful
           /\ \/ config' = config /\ past' = past
              \/ \E c \in Call : Applies(c)
<1>1. ASSUME NEW c \in Call, CallStep(c), ~Applies(c)
      PROVE  UNCHANGED <<origin, careful, config, past>>
  <2>1. CASE Start(c)
    BY <2>1 DEF Start
  <2>2. CASE GetAnswered(c) \/ UpsertRead(c) \/ RemoveRead(c)
    BY <2>2 DEF GetAnswered, UpsertRead, RemoveRead, Reads
  <2>3. CASE ReadFails(c) \/ WriteAnswered(c) \/ WriteRefused(c) \/ WriteFails(c)
    BY <2>3 DEF ReadFails, WriteAnswered, WriteRefused, WriteFails
  <2>4. CASE Lost(c)
    BY <2>4 DEF Lost
  <2> QED BY <1>1, <2>1, <2>2, <2>3, <2>4 DEF CallStep
<1>2. ASSUME NEW c \in Call, Applies(c) PROVE origin' = origin /\ careful' = careful
  BY <1>2 DEF Applies
<1> QED BY <1>1, <1>2 DEF Next, Shutdown, vars

(* A payload leaves the rules no module owns as they always were.          *)
LEMMA HistoryStep ==
    TypeOK /\ Stages /\ WritesAreOwned /\ History /\ [Next]_vars => History'
<1> SUFFICES ASSUME TypeOK, Stages, WritesAreOwned, History, [Next]_vars PROVE History'
  OBVIOUS
<1>0. origin' = origin
  BY ConfigChanges
<1>1. CASE config' = config /\ past' = past
  BY <1>0, <1>1 DEF History, Foreign, IsWithinKeyPrefix
<1>2. ASSUME NEW c \in Call, Applies(c) PROVE History'
  <2>1. /\ OnWire(c) /\ config' = Payload(c) /\ past' = past \cup {config'}
    BY <1>2 DEF Applies, OnWire
  <2>2. Accepted(c) /\ AskOf(c).op # "get"
    BY <2>1 DEF Stages, Active, OnWire
  <2>3. /\ snapshot[c] \in past
        /\ Ownable(ModuleOf(c), snapshot[c].rules[AskOf(c).id])
    BY <2>1 DEF WritesAreOwned
  <2>4. AskOf(c).id \in RuleId /\ ModuleOf(c) \in Module /\ snapshot[c] \in Config
    BY <2>2, PayloadType DEF TypeOK
  <2>5. /\ Payload(c).rules = [snapshot[c].rules EXCEPT ![AskOf(c).id] = NewRule(c)]
        /\ Payload(c).rules = Empty.rules => Payload(c) = Empty
    BY <2>2, PayloadRules
  <2>6. ASSUME NEW id \in RuleId, Foreign(origin.rules[id])
        PROVE  Payload(c).rules[id] = origin.rules[id]
    <3>1. snapshot[c].rules[id] = origin.rules[id]
      BY <2>3, <2>6 DEF History
    <3>2. id # AskOf(c).id
      BY <2>3, <2>4, <2>6, <3>1 DEF Ownable, Foreign
    <3> QED BY <2>4, <2>5, <3>1, <3>2 DEF Config
  <2> QED BY <1>0, <2>1, <2>5, <2>6 DEF History, Foreign, IsWithinKeyPrefix
<1> QED BY <1>1, <1>2, ConfigChanges


(* A call that was refused has nothing on its way: a definite answer of    *)
(* the provider drops its write.                                           *)
LEMMA RefusedStep ==
    TypeOK /\ Stages /\ RefusedWroteNothing /\ [Next]_vars => RefusedWroteNothing'
<1> SUFFICES ASSUME TypeOK, Stages, RefusedWroteNothing, [Next]_vars, NEW d \in Call,
                    outcome'[d] \in Refusals \cup {"false", "views"}
             PROVE  sent'[d] \in {"no", "dropped"}
  BY DEF RefusedWroteNothing
<1>1. CASE outcome'[d] = outcome[d] /\ sent'[d] = sent[d]
  BY <1>1 DEF RefusedWroteNothing
<1>2. CASE UNCHANGED vars \/ Shutdown
  BY <1>1, <1>2 DEF vars, Shutdown
<1>3. ASSUME NEW c \in Call, CallStep(c)
      PROVE  \/ outcome'[d] = outcome[d] /\ sent'[d] = sent[d]
             \/ sent'[d] \in {"no", "dropped"}
  <2>1. CASE Start(c)
    <3>1. /\ pc[c] = "idle" /\ sent' = sent
          /\ outcome' \in {outcome, [outcome EXCEPT ![c] = outcome'[c]]}
      BY <2>1, StartAccepts
    <3> QED BY <3>1 DEF Stages, TypeOK
  <2>2. CASE GetAnswered(c)
    BY <2>2 DEF GetAnswered, Reads, Settles, Stages, TypeOK
  <2>3. CASE UpsertRead(c) \/ RemoveRead(c)
    <3>1. pc[c] = "reading" /\ sent[c] = "no"
      BY <2>3, ChangeAfterRead DEF Stages
    <3>2. CASE sent' = [sent EXCEPT ![c] = "wire"] /\ outcome' = outcome
      <4>1. outcome[c] = ""
        BY <3>1 DEF Stages
      <4>2. "" \notin Refusals \cup {"false", "views"}
        BY DEF Refusals
      <4> QED BY <3>2, <4>1, <4>2 DEF TypeOK
    <3>3. ASSUME NEW x, sent' = sent, outcome' = [outcome EXCEPT ![c] = x]
          PROVE  \/ outcome'[d] = outcome[d] /\ sent'[d] = sent[d]
                 \/ sent'[d] \in {"no", "dropped"}
      BY <3>1, <3>3 DEF TypeOK
    <3> QED BY <2>3, <3>2, <3>3, ChangeAfterRead
  <2>4. CASE ReadFails(c) \/ WriteRefused(c) \/ WriteFails(c)
    <3>1. PICK x \in Refusals \cup Failures : /\ outcome' = [outcome EXCEPT ![c] = x]
                                              /\ WriteFails(c) => x \notin Refusals
      BY <2>4, FailureSettles
    <3>2. CASE ReadFails(c)
      <4>1. pc[c] = "reading" /\ sent' = sent
        BY <3>2, FailureSettles
      <4> QED BY <3>1, <4>1 DEF Stages, TypeOK
    <3>3. CASE WriteRefused(c)
      <4>1. sent' = [sent EXCEPT ![c] = "dropped"]
        BY <3>3, FailureSettles
      <4> QED BY <3>1, <4>1 DEF TypeOK
    <3>4. CASE WriteFails(c)
      <4>1. sent' = sent
        BY <3>4, FailureSettles
      <4>2. x \in Failures /\ x \notin {"false", "views"}
        BY <3>1, <3>4 DEF Failures
      <4> QED BY <3>1, <3>4, <4>1, <4>2 DEF TypeOK
    <3> QED BY <2>4, <3>2, <3>3, <3>4
  <2>5. CASE WriteAnswered(c)
    <3>1. PICK x \in {"done", "true"} : outcome' = [outcome EXCEPT ![c] = x] /\ sent' = sent
      BY <2>5 DEF WriteAnswered, Settles
    <3>2. x \notin Refusals \cup {"false", "views"}
      BY DEF Refusals
    <3> QED BY <3>1, <3>2 DEF TypeOK
  <2>6. CASE Applies(c)
    <3>1. sent[c] = "wire" /\ sent' = [sent EXCEPT ![c] = "applied"] /\ outcome' = outcome
      BY <2>6 DEF Applies
    <3> QED BY <3>1 DEF RefusedWroteNothing, TypeOK
  <2>7. CASE Lost(c)
    BY <2>7 DEF Lost, TypeOK
  <2> QED BY <1>3, <2>1, <2>2, <2>3, <2>4, <2>5, <2>6, <2>7 DEF CallStep
<1> QED BY <1>1, <1>2, <1>3 DEF Next

(* An upsert is the only call that a step settles with "done".             *)
LEMMA DoneStep == TypeOK /\ Stages /\ DoneIsUpsert /\ [Next]_vars => DoneIsUpsert'
<1> SUFFICES ASSUME TypeOK, Stages, DoneIsUpsert, [Next]_vars,
                    NEW d \in Call, outcome'[d] = "done"
             PROVE  AskOf(d)'.op = "upsert"
  BY DEF DoneIsUpsert
<1> SUFFICES asked'[d] = asked[d] /\ (outcome[d] = "done" \/ AskOf(d).op = "upsert")
  BY DEF DoneIsUpsert, AskOf
<1>1. CASE Shutdown
  BY <1>1 DEF Shutdown
<1>2. CASE UNCHANGED vars
  BY <1>2 DEF vars
<1>3. ASSUME NEW c \in Call, CallStep(c)
      PROVE  asked'[d] = asked[d] /\ (outcome[d] = "done" \/ AskOf(d).op = "upsert")
  <2>1. CASE Start(c)
    <3>1. /\ pc[c] = "idle"
          /\ pc' \in {[pc EXCEPT ![c] = "reading"], [pc EXCEPT ![c] = "settled"]}
          /\ pc'[c] = "reading" => Accepted(c)' /\ outcome' = outcome
          /\ outcome' \in {outcome, [outcome EXCEPT ![c] = outcome'[c]]}
          /\ pc'[c] = "settled" => outcome'[c] \in Refusals
          /\ \A e \in Call \ {c} : asked'[e] = asked[e]
      BY <2>1, StartAccepts
    <3>2. outcome[c] = ""
      BY <3>1 DEF Stages
    <3>3. d # c
      <4>1. CASE pc'[c] = "reading"
        BY <3>1, <3>2, <4>1
      <4>2. CASE pc'[c] = "settled"
        BY <3>1, <4>2 DEF Refusals
      <4> QED BY <3>1, <4>1, <4>2 DEF TypeOK
    <3> QED BY <3>1, <3>3 DEF TypeOK
  <2>2. CASE GetAnswered(c)
    BY <2>2 DEF GetAnswered, Reads, Settles, TypeOK
  <2>3. CASE UpsertRead(c) \/ RemoveRead(c)
    <3>1. asked' = asked /\ (outcome' = outcome
              \/ \E x \in {"Error", "false", "STORAGE_LIFECYCLE_RULE_INVALID"} :
                     outcome' = [outcome EXCEPT ![c] = x])
      BY <2>3, ChangeAfterRead
    <3> QED BY <3>1 DEF TypeOK
  <2>4. CASE ReadFails(c) \/ WriteRefused(c) \/ WriteFails(c)
    <3>1. PICK x \in Refusals \cup Failures : outcome' = [outcome EXCEPT ![c] = x]
      BY <2>4, FailureSettles
    <3>2. x # "done" /\ asked' = asked
      BY <2>4, FailureSettles DEF Refusals, Failures
    <3> QED BY <3>1, <3>2 DEF TypeOK
  <2>5. CASE WriteAnswered(c)
    BY <2>5 DEF WriteAnswered, Settles, TypeOK
  <2>6. CASE Applies(c) \/ Lost(c)
    BY <2>6 DEF Applies, Lost
  <2> QED BY <1>3, <2>1, <2>2, <2>3, <2>4, <2>5, <2>6 DEF CallStep
<1> QED BY <1>1, <1>2, <1>3 DEF Next

(* Per call: what a step may do to its write, its snapshot and its place.  *)
LEMMA CallSteps ==
    ASSUME TypeOK, Stages, NEW c \in Call, CallStep(c), NEW d \in Call
    PROVE  /\ Active(d)' => Active(d) \/ Quiet \/ ~careful
           /\ Active(d)' /\ ~Active(d) => d = c
           /\ sent'[d] # "no" => asked'[d] = asked[d]
           /\ sent'[d] = "applied" => sent[d] = "applied" \/ Applies(d)
           /\ sent[d] = "applied" => sent'[d] = "applied"
           /\ sent'[d] = "wire" => \/ sent[d] = "wire" /\ snapshot'[d] = snapshot[d]
                                   \/ snapshot'[d] = Snapshot /\ config' = config
<1> USE DEF Active, OnWire, InProgress
<1>1. CASE Start(c)
  <2>1. /\ pc[c] = "idle" /\ sent' = sent /\ snapshot' = snapshot
        /\ pc' \in {[pc EXCEPT ![c] = "reading"], [pc EXCEPT ![c] = "settled"]}
        /\ \A e \in Call \ {c} : asked'[e] = asked[e]
    BY <1>1, StartAccepts
  <2>2. careful => Quiet
    BY <1>1, StartAccepts
  <2> QED BY <2>1, <2>2 DEF Stages, TypeOK
<1>2. CASE GetAnswered(c)
  BY <1>2 DEF GetAnswered, Reads, Settles, Goes, Stages, TypeOK
<1>3. CASE UpsertRead(c) \/ RemoveRead(c)
  <2>1. /\ pc[c] = "reading" /\ asked' = asked /\ config' = config
        /\ snapshot' = [snapshot EXCEPT ![c] = Snapshot]
        /\ \/ pc' = [pc EXCEPT ![c] = "writing"] /\ sent' = [sent EXCEPT ![c] = "wire"]
           \/ pc' = [pc EXCEPT ![c] = "settled"] /\ sent' = sent
    BY <1>3, ChangeAfterRead
  <2> QED BY <2>1 DEF Stages, TypeOK
<1>4. CASE ReadFails(c) \/ WriteRefused(c) \/ WriteFails(c)
  <2>1. /\ pc' = [pc EXCEPT ![c] = "settled"]
        /\ sent' \in {sent, [sent EXCEPT ![c] = "dropped"]}
        /\ pc[c] \in {"reading", "writing"}
        /\ UNCHANGED <<asked, snapshot>>
    BY <1>4, FailureSettles
  <2>2. sent'[c] = sent[c] \/ sent[c] = "wire"
    BY <1>4, FailureSettles DEF WriteRefused
  <2> QED BY <2>1, <2>2 DEF TypeOK
<1>5. CASE WriteAnswered(c)
  BY <1>5 DEF WriteAnswered, Settles, Goes, TypeOK
<1>6. CASE Applies(c)
  BY <1>6 DEF Applies, TypeOK
<1>7. CASE Lost(c)
  BY <1>7 DEF Lost, TypeOK
<1> QED BY <1>1, <1>2, <1>3, <1>4, <1>5, <1>6, <1>7 DEF CallStep

\* The rule of c is in force, or a call that names the same id was applied.
InForce(c) ==
    \/ config.rules[AskOf(c).id] = NewRule(c)
    \/ \E d \in Call \ {c} : sent[d] = "applied" /\ AskOf(d).id = AskOf(c).id

(* One careful call at a time, from what is in force; what it wrote stays. *)
LEMMA TurnsStep == TypeOK /\ Stages /\ History /\ Turns /\ [Next]_vars => Turns'
<1> SUFFICES ASSUME TypeOK, Stages, History, Turns, [Next]_vars, careful PROVE Turns'
  <2>1. careful' = careful \/ ~TypeOK \/ ~[Next]_vars
    BY ConfigChanges
  <2> QED BY <2>1 DEF Turns
<1>1. /\ \A x, y \in Call : Active(x) /\ Active(y) => x = y
      /\ \A x \in Call : OnWire(x) => snapshot[x] = config
      /\ \A x \in Call : sent[x] = "applied" => InForce(x)
  BY DEF Turns, InForce
<1> SUFFICES /\ \A x, y \in Call : Active(x)' /\ Active(y)' => x = y
             /\ \A x \in Call : OnWire(x)' => snapshot'[x] = config'
             /\ \A x \in Call : sent'[x] = "applied" => InForce(x)'
  BY DEF Turns, InForce
<1>2. CASE UNCHANGED vars \/ Shutdown
  <2>1. UNCHANGED <<config, sent, pc, asked, snapshot>>
    BY <1>2 DEF vars, Shutdown
  <2>2. \A x \in Call : InForce(x) => InForce(x)'
    <3> SUFFICES ASSUME NEW x \in Call, InForce(x) PROVE InForce(x)'
      OBVIOUS
    <3>1. NewRule(x)' = NewRule(x) /\ \A e : AskOf(e)' = AskOf(e)
      BY <2>1 DEF NewRule, AskOf, ModuleOf
    <3> QED BY <2>1, <3>1 DEF InForce
  <2>3. \A x \in Call : (Active(x)' <=> Active(x)) /\ (OnWire(x)' <=> OnWire(x))
    BY <2>1 DEF Active, OnWire, InProgress
  <2> QED BY <1>1, <2>1, <2>2, <2>3
<1>3. ASSUME NEW c \in Call, CallStep(c)
      PROVE  /\ \A x, y \in Call : Active(x)' /\ Active(y)' => x = y
             /\ \A x \in Call : OnWire(x)' => snapshot'[x] = config'
             /\ \A x \in Call : sent'[x] = "applied" => InForce(x)'
  <2>1. ASSUME NEW x \in Call, NEW y \in Call, Active(x)', Active(y)' PROVE x = y
    <3>1. \A e \in Call : /\ Active(e)' => Active(e) \/ Quiet
                          /\ Active(e)' /\ ~Active(e) => e = c
      BY <1>3, CallSteps
    <3>2. Quiet => \A e \in Call : ~Active(e)
      BY DEF Quiet, Active, OnWire
    <3> QED BY <1>1, <2>1, <3>1, <3>2
  <2>2. ASSUME NEW x \in Call, OnWire(x)' PROVE snapshot'[x] = config'
    <3>1. sent'[x] = "wire"
      BY <2>2 DEF OnWire
    <3>2. CASE snapshot'[x] = Snapshot /\ config' = config
      BY <3>2 DEF Snapshot, ReadAnswer, History, IsNoLifecycleConfiguration, AwsCode
    <3>3. CASE sent[x] = "wire" /\ snapshot'[x] = snapshot[x]
      <4>1. CASE config' = config
        BY <1>1, <3>3, <4>1 DEF OnWire
      <4>2. ASSUME NEW e \in Call, Applies(e) PROVE FALSE
        <5>1. e = x
          BY <1>1, <3>3, <4>2 DEF Applies, Active, OnWire
        <5> QED BY <3>1, <4>2, <5>1 DEF Applies, TypeOK
      <4> QED BY <4>1, <4>2, ConfigChanges
    <3> QED BY <1>3, <3>1, <3>2, <3>3, CallSteps
  <2>3. ASSUME NEW x \in Call, sent'[x] = "applied" PROVE InForce(x)'
    <3>1. asked'[x] = asked[x]
      BY <1>3, <2>3, CallSteps
    <3>2. NewRule(x)' = NewRule(x) /\ AskOf(x)' = AskOf(x)
      BY <3>1 DEF NewRule, AskOf, ModuleOf
    <3>3. CASE Applies(x)
      <4>1. config' = Payload(x) /\ Accepted(x) /\ AskOf(x).op # "get"
        BY <3>3 DEF Applies, Stages, Active, OnWire
      <4>2. AskOf(x).id \in RuleId
        BY <4>1, PayloadType
      <4>3. config'.rules = [snapshot[x].rules EXCEPT ![AskOf(x).id] = NewRule(x)]
        BY <4>1, PayloadRules
      <4>4. config'.rules[AskOf(x).id] = NewRule(x)
        BY <4>2, <4>3 DEF TypeOK, Config
      <4> QED BY <3>2, <4>4 DEF InForce
    <3>4. CASE sent[x] = "applied"
      <4>1. InForce(x)
        BY <1>1, <3>4
      <4>2. CASE \E e \in Call \ {x} : sent[e] = "applied" /\ AskOf(e).id = AskOf(x).id
        <5>1. PICK e \in Call \ {x} : sent[e] = "applied" /\ AskOf(e).id = AskOf(x).id
          BY <4>2
        <5>2. sent'[e] = "applied"
          BY <1>3, <5>1, CallSteps
        <5>3. asked'[e] = asked[e]
          BY <1>3, <5>2, CallSteps
        <5> QED BY <3>2, <5>1, <5>2, <5>3 DEF InForce, AskOf
      <4>3. CASE config.rules[AskOf(x).id] = NewRule(x)
        <5>1. CASE config' = config
          BY <3>2, <4>3, <5>1 DEF InForce
        <5>2. ASSUME NEW e \in Call, Applies(e) PROVE InForce(x)'
          <6>1. /\ config' = Payload(e) /\ Accepted(e) /\ AskOf(e).op # "get"
                /\ sent'[e] = "applied" /\ asked' = asked /\ snapshot[e] = config
                /\ e # x
            BY <1>1, <3>4, <5>2 DEF Applies, Stages, Active, OnWire, TypeOK
          <6>2. config'.rules = [config.rules EXCEPT ![AskOf(e).id] = NewRule(e)]
            BY <6>1, PayloadRules
          <6>3. CASE AskOf(e).id = AskOf(x).id
            BY <6>1, <6>3 DEF InForce, AskOf
          <6>4. CASE AskOf(e).id # AskOf(x).id
            <7>1. AskOf(x).id \in RuleId
              BY <3>4, PayloadType DEF Stages
            <7> QED BY <3>2, <4>3, <6>2, <6>4, <7>1 DEF InForce, TypeOK, Config
          <6> QED BY <6>3, <6>4
        <5> QED BY <5>1, <5>2, ConfigChanges
      <4> QED BY <4>1, <4>2, <4>3 DEF InForce
    <3> QED BY <1>3, <2>3, <3>3, <3>4, CallSteps
  <2> QED BY <2>1, <2>2, <2>3
<1> QED BY <1>2, <1>3 DEF Next

-----------------------------------------------------------------------------
(* The invariant is inductive: the read-modify-write protocol keeps it.     *)
THEOREM InvHolds == Spec => []Inv
<1>1. Inv /\ [Next]_vars => Inv'
  BY TypeStep, StagesStep, OwnedStep, HistoryStep, TurnsStep, RefusedStep, DoneStep DEF Inv
<1> QED BY <1>1, InitInv, PTL DEF Spec

(* Every variable stays well formed, whatever is called, lost or late.     *)
THEOREM TypeCorrect == Spec => []TypeOK
<1>1. Inv => TypeOK
  BY DEF Inv
<1> QED BY <1>1, InvHolds, PTL

(* A rule that no module's keyPrefix confines outlives every call, however *)
(* calls overlap and however late a write lands.                           *)
THEOREM ForeignRulesSurvive == Spec => []ForeignRulesKept
<1>1. Inv => ForeignRulesKept
  BY DEF Inv, History, ForeignRulesKept
<1> QED BY <1>1, InvHolds, PTL

(* A call that was refused wrote nothing and will write nothing.           *)
THEOREM RefusalsAreFinal == Spec => []RefusedWroteNothing
<1>1. Inv => RefusedWroteNothing
  BY DEF Inv
<1> QED BY <1>1, InvHolds, PTL

(* For callers that take turns, what an answered change wrote is there     *)
(* until another call names its id.                                        *)
THEOREM AnswersStand == Spec => []AnswersHold
<1>1. Inv => AnswersHold
  <2> SUFFICES ASSUME Inv, NEW c \in Call, careful, outcome[c] \in {"done", "true"}
               PROVE  \/ config.rules[AskOf(c).id] = NewRule(c)
                      \/ \E d \in Call \ {c} : sent[d] = "applied" /\ AskOf(d).id = AskOf(c).id
    BY DEF AnswersHold
  <2>1. sent[c] = "applied"
    BY DEF Inv, Stages
  <2> QED BY <2>1 DEF Inv, Turns
<1> QED BY <1>1, InvHolds, PTL

(* A rule that was written can be asked for again as get() shows it, and   *)
(* is written as it was: the prefix that toRule() puts before it, toView() *)
(* takes off, and what was collapsed once stays as it is.                  *)
LEMMA WrittenAsSeen ==
    ASSUME NEW m \in Module, NEW o \in Ask, o.op = "upsert", ~RuleInvalid(o), ~KeyInvalid(o),
           NEW again, again = AskAgain(o.id, ToView(m, ToRule(m, o)))
    PROVE  ~RuleInvalid(again) /\ ~KeyInvalid(again) /\ ToRule(m, again) = ToRule(m, o)
<1> DEFINE rule == ToRule(m, o)
           whole == Aborts(o) /\ o.prefix = EmptyText
           text == IF whole THEN EmptyText ELSE Collapse(o.prefix)
<1>1. o \in UpsertAsk /\ o.prefix \in Text
  BY LifecycleAssumption DEF UpsertAsk, RemoveAsk, GetAsk
<1>2. KeyPrefix(m) \in Seq(STRING)
  BY LifecycleAssumption, ResolvePrefixType DEF KeyPrefix
<1>3. text \in Text
  BY <1>1, CollapseKeeps, TextAssumption
<1>4. rule.prefix = KeyPrefix(m) \o text
  BY DEF ToRule, PrefixText, Normalize
<1>5. StartsWith(rule.prefix, KeyPrefix(m)) /\ StripPrefix(KeyPrefix(m), rule.prefix) = text
  BY <1>2, <1>3, <1>4, Stripped
<1>6. ~whole => Acceptable(text) /\ Collapse(text) = text
  BY <1>1, CollapsedAcceptable, CollapsedOnce DEF KeyInvalid
<1>7. rule = [kind |-> rule.kind, prefix |-> rule.prefix, days |-> rule.days]
  BY DEF ToRule
<1>8. ToView(m, rule) = [kind |-> rule.kind, prefix |-> text, days |-> rule.days]
  BY <1>5, <1>7 DEF ToView, IsWithinKeyPrefix
<1>9. /\ rule.kind = (IF Aborts(o) THEN "abort" ELSE "expire")
      /\ rule.days = (IF Aborts(o) THEN o.abortIncompleteMultipartDays ELSE o.expirationDays)
      /\ ValidDays(rule.days) /\ rule.days # Unset
  BY LifecycleAssumption DEF ToRule, RuleInvalid, ValidDays, Aborts
<1>10. /\ again.op = "upsert" /\ again.id = o.id /\ again.prefix = text
       /\ again.expirationDays = (IF Aborts(o) THEN Unset ELSE rule.days)
       /\ again.abortIncompleteMultipartDays = (IF Aborts(o) THEN rule.days ELSE Unset)
  BY <1>8, <1>9 DEF AskAgain
<1> HIDE DEF rule, text
<1>11. Aborts(again) <=> Aborts(o)
  BY <1>9, <1>10 DEF Aborts
<1>12. text = EmptyText => whole
  BY <1>6 DEF Acceptable
<1>13. ~RuleInvalid(again)
  BY <1>9, <1>10, <1>11, <1>12 DEF RuleInvalid
<1>14. ~KeyInvalid(again)
  BY <1>6, <1>10, <1>11 DEF KeyInvalid, text
<1>15. ToRule(m, again).prefix = KeyPrefix(m) \o text
  BY <1>6, <1>10, <1>11, <1>12 DEF ToRule, PrefixText, Normalize, text
<1> QED BY <1>4, <1>7, <1>9, <1>10, <1>11, <1>13, <1>14, <1>15 DEF ToRule, rule

(* Reading a rule with get() and writing it back as it was read keeps it.  *)
THEOREM ViewsAreInputs == Spec => []ViewsCanBeWritten
<1>1. Inv => ViewsCanBeWritten
  <2> SUFFICES ASSUME Inv, NEW g \in Call, NEW c \in Call, outcome[c] = "done",
                      ModuleOf(c) = ModuleOf(g),
                      NEW again, again = AskAgain(AskOf(c).id, ToView(ModuleOf(g), NewRule(c)))
               PROVE  /\ ~RuleInvalid(again) /\ ~KeyInvalid(again)
                      /\ ToRule(ModuleOf(g), again) = NewRule(c)
    BY DEF ViewsCanBeWritten
  <2>1. sent[c] = "applied" /\ AskOf(c).op = "upsert"
    BY DEF Inv, Stages, DoneIsUpsert
  <2>2. Accepted(c)
    BY <2>1 DEF Inv, Stages
  <2>3. ModuleOf(c) \in Module /\ AskOf(c) \in Ask /\ ~RuleInvalid(AskOf(c)) /\ ~KeyInvalid(AskOf(c))
    BY <2>1, <2>2 DEF Accepted, ModuleOf, AskOf
  <2>4. NewRule(c) = ToRule(ModuleOf(c), AskOf(c))
    BY <2>1 DEF NewRule
  <2> QED BY <2>1, <2>3, <2>4, WrittenAsSeen
<1> QED BY <1>1, InvHolds, PTL

(* Every write changes one rule of a configuration that was in force, and  *)
(* for careful callers of the one that is.                                 *)
THEOREM StoreImplemented == Spec => ImplementsRuleStore
<1> USE DEF Store!Empty, Store!Config, Config
<1>1. Init => Store!Init
  BY LifecycleAssumption DEF Init, Store!Init
<1>2. Inv /\ [Next]_vars => [Store!Next]_<<config, past, careful>>
  <2> SUFFICES ASSUME Inv, [Next]_vars PROVE [Store!Next]_<<config, past, careful>>
    OBVIOUS
  <2>1. careful' = careful
    BY ConfigChanges DEF Inv
  <2>2. CASE config' = config /\ past' = past
    BY <2>1, <2>2
  <2>3. ASSUME NEW c \in Call, Applies(c) PROVE Store!Next
    <3>1. config' = Payload(c) /\ past' = past \cup {config'} /\ OnWire(c)
      BY <2>3 DEF Applies, OnWire
    <3>2. Accepted(c) /\ AskOf(c).op # "get" /\ TypeOK
      BY <3>1 DEF Inv, Stages, OnWire
    <3>3. Payload(c) \in Config /\ AskOf(c).id \in RuleId
      BY <3>2, PayloadType
    <3>4. snapshot[c] \in past /\ (careful => snapshot[c] = config)
      BY <3>1 DEF Inv, WritesAreOwned, Turns
    <3>5. snapshot[c] \in Config
      BY <3>2 DEF TypeOK
    <3>6. /\ Payload(c).rules = [snapshot[c].rules EXCEPT ![AskOf(c).id] = NewRule(c)]
          /\ Payload(c).rules = Empty.rules => Payload(c) = Empty
          /\ Payload(c).rules # Empty.rules => Payload(c).setting = snapshot[c].setting
      BY <3>2, PayloadRules
    <3>7. Payload(c).rules[AskOf(c).id] = NewRule(c)
      BY <3>3, <3>5, <3>6
    <3>8. Payload(c) = [rules |-> Payload(c).rules, setting |-> Payload(c).setting]
      BY <3>3
    <3>9. config' = Store!Changed(snapshot[c], AskOf(c).id, config'.rules[AskOf(c).id])
      BY <3>1, <3>6, <3>7, <3>8 DEF Store!Changed
    <3>10. Store!Write(AskOf(c).id)
      BY <2>1, <3>1, <3>3, <3>4, <3>9 DEF Store!Write
    <3> QED BY <3>3, <3>10 DEF Store!Next
  <2> QED BY <2>2, <2>3, ConfigChanges DEF Inv
<1> QED BY <1>1, <1>2, InvHolds, PTL DEF Spec, ImplementsRuleStore, Store!Spec

=============================================================================
