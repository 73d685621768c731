------------------------- MODULE SignedUrls_proofs -------------------------
(***************************************************************************)
(* Proofs about SignedUrls, for any calls, limits, whitelist and errors.   *)
(* The inductive invariant says of each call how far it has come, what it  *)
(* has signed by then, and when.                                           *)
(***************************************************************************)
EXTENDS SignedUrls, TLAPS

Active == {"signing", "answering", "creating", "presigning"}

\* What is signed follows the arguments, which were found acceptable.
Accepted(c) ==
    /\ asked[c] \in Ask
    /\ TtlAcceptable(asked[c])
    /\ (asked[c].op # "get" => MimeAllowed(asked[c].contentType))

UrlFollows(c, u) ==
    /\ u.ttl = ClampTtl(asked[c])
    /\ u.at <= now
    /\ (u.kind \in {"part", "complete"} <=> asked[c].op = "multipart")
    /\ (u.kind = "put" => asked[c].op = "put")

Stages(c) ==
    /\ (pc[c] = "idle" => signed[c] = {} /\ session[c] = "none" /\ outcome[c] = "")
    /\ (pc[c] \in Active => outcome[c] = "" /\ Accepted(c))
    /\ (pc[c] \in {"signing", "creating"} => signed[c] = {})
    /\ (pc[c] \in {"signing", "answering"} => asked[c].op # "multipart")
    /\ (pc[c] \in {"creating", "presigning"} => asked[c].op = "multipart")

\* The completing URL comes last.
CompletesLast(c) ==
    \A last \in signed[c] : last.kind = "complete" =>
        /\ PartsSigned(c) = 1..asked[c].parts
        /\ \A u \in signed[c] : u.at <= last.at

Answered(c) == outcome[c] = "urls" =>
    /\ asked[c].op # "multipart" => \A u \in signed[c] : u.at + u.ttl <= expiresAt[c]
    /\ asked[c].op = "multipart" =>
           /\ PartsSigned(c) = 1..asked[c].parts
           /\ \E u \in signed[c] : u.kind = "complete"

CallInv(c) ==
    /\ Stages(c)
    /\ (signed[c] # {} => Accepted(c))
    /\ \A u \in signed[c] : UrlFollows(c, u)
    /\ CompletesLast(c)
    /\ Answered(c)
    /\ (outcome[c] \in Refusals => session[c] = "none" /\ pc[c] = "settled")

Inv == TypeOK /\ StoredTypesAllowed /\ \A c \in Call : CallInv(c)
-----------------------------------------------------------------------------
LEMMA ClampIsBounded ==
    ASSUME NEW o \in Ask, TtlAcceptable(o)
    PROVE  /\ ClampTtl(o) \in Nat \ {0}
           /\ ClampTtl(o) <= ConfiguredMax
           /\ ClampTtl(o) <= Ceiling
<1>1. RequestedTtl(o) \in Int
  BY SignedUrlAssumption DEF RequestedTtl, Options
<1> QED
  BY <1>1, SignedUrlAssumption DEF TtlAcceptable, ClampTtl, MaxTtl, Smaller

LEMMA RefusalIsRefusal ==
    ASSUME NEW o
    PROVE  Refusal(o) \in Refusals \cup {""}
BY DEF Refusal, Refusals

LEMMA NothingRefused ==
    ASSUME NEW o, Refusal(o) = ""
    PROVE  /\ up
           /\ TtlAcceptable(o)
           /\ (o.op # "get" => MimeAllowed(o.contentType))
BY DEF Refusal

LEMMA ErrorsAreNotRefusals ==
    ASSUME NEW e
    PROVE  /\ MapAwsError(e) \in Failures
           /\ MapAwsError(e) \notin Refusals \cup {"", "urls"}
BY DEF MapAwsError, Failures, Refusals

LEMMA AllowedIsServed ==
    ASSUME NEW mime \in Mime, MimeAllowed(mime), Whitelist # {}
    PROVE  MimeMatches(<<Served(mime)>>, Whitelist)
<1>1. MimeMatches(mime, Whitelist)
  BY DEF MimeAllowed
<1>2. Len(mime) = 1
  BY <1>1 DEF MimeMatches
<1>3. Served(mime) = mime[1]
  BY <1>2 DEF Served
<1>4. Len(<<Served(mime)>>) = 1 /\ <<Served(mime)>>[1] = mime[1]
  BY <1>3
<1> QED
  BY <1>1, <1>4 DEF MimeMatches

-----------------------------------------------------------------------------
LEMMA InitInv == Init => Inv
<1> SUFFICES ASSUME Init PROVE Inv
  OBVIOUS
<1>1. TypeOK
  BY DEF Init, TypeOK
<1>2. StoredTypesAllowed
  BY DEF Init, StoredTypesAllowed
<1>3. ASSUME NEW c \in Call PROVE CallInv(c)
  BY <1>3 DEF Init, CallInv, Stages, CompletesLast, Answered, Refusals, Active
<1> QED
  BY <1>1, <1>2, <1>3 DEF Inv

LEMMA TypedTimes ==
    ASSUME TypeOK, NEW c \in Call, NEW u \in signed[c]
    PROVE  now \in Nat /\ u.at \in Nat /\ u.ttl \in Nat \ {0}
<1>1. now \in Nat /\ signed[c] \in SUBSET Url
  BY DEF TypeOK
<1>2. u \in Url
  BY <1>1
<1> QED
  BY <1>1, <1>2 DEF Url

\* A step that leaves a call alone and does not turn the clock back.
LEMMA CallFrame ==
    ASSUME NEW c \in Call, TypeOK, CallInv(c), now' \in Nat, now <= now',
           pc'[c] = pc[c], asked'[c] = asked[c], signed'[c] = signed[c],
           expiresAt'[c] = expiresAt[c], outcome'[c] = outcome[c],
           session'[c] = session[c] \/ session[c] # "none"
    PROVE  CallInv(c)'
<1>1. Accepted(c) => Accepted(c)'
  BY DEF Accepted, TtlAcceptable, RequestedTtl, MimeAllowed, MimeMatches
<1>2. Stages(c)'
  BY <1>1 DEF CallInv, Stages
<1>3. \A u \in signed'[c] : UrlFollows(c, u)'
  <2>1. \A u \in signed[c] : u.at \in Nat /\ u.at <= now
    BY TypedTimes DEF CallInv, UrlFollows
  <2>2. \A u \in signed[c] : u.at <= now'
    <3>1. now \in Nat
      BY DEF TypeOK
    <3> QED
      BY <2>1, <3>1
  <2> QED
    BY <2>2 DEF CallInv, UrlFollows, ClampTtl, RequestedTtl
<1>4. CompletesLast(c)' /\ Answered(c)'
  BY DEF CallInv, CompletesLast, Answered, PartsSigned
<1> QED
  BY <1>1, <1>2, <1>3, <1>4 DEF CallInv

\* A call under way that fails keeps what it signed, and what it opened.
LEMMA FailureOwn ==
    ASSUME NEW c \in Call, TypeOK, CallInv(c), pc[c] \in Active, NEW out,
           out \notin Refusals \cup {"", "urls"}, Settles(c, out),
           UNCHANGED <<now, asked, signed, expiresAt, session>>
    PROVE  CallInv(c)'
<1>1. pc'[c] = "settled" /\ outcome'[c] = out
  BY DEF Settles, Goes, TypeOK, Active, CallInv, Stages
<1>2. Accepted(c)'
  BY DEF CallInv, Stages, Accepted, TtlAcceptable, RequestedTtl, MimeAllowed, MimeMatches
<1>3. \A u \in signed'[c] : UrlFollows(c, u)'
  BY DEF CallInv, UrlFollows, ClampTtl, RequestedTtl
<1>4. CompletesLast(c)'
  BY DEF CallInv, CompletesLast, PartsSigned
<1> QED
  BY <1>1, <1>2, <1>3, <1>4 DEF CallInv, Stages, Active, Answered

LEMMA StartOwn ==
    ASSUME NEW c \in Call, TypeOK, CallInv(c), Start(c)
    PROVE  CallInv(c)'
<1>1. PICK o \in Ask : asked' = [asked EXCEPT ![c] = o]
                       /\ session' = [session EXCEPT ![c] = IF Opens(o) THEN "requested" ELSE @]
                       /\ IF Refusal(o) # "" THEN Settles(c, Refusal(o))
                          ELSE /\ Goes(c, IF o.op = "multipart" THEN "creating" ELSE "signing")
                               /\ UNCHANGED outcome
  BY DEF Start
<1>2. /\ pc[c] = "idle"
      /\ UNCHANGED <<up, now, signed, expiresAt, uploaded, object>>
  BY DEF Start
<1>3. signed'[c] = {} /\ session[c] = "none" /\ outcome[c] = ""
  BY <1>2 DEF CallInv, Stages
<1>4. asked'[c] = o /\ session'[c] = IF Opens(o) THEN "requested" ELSE "none"
  BY <1>1, <1>3 DEF TypeOK
<1>5. CASE Refusal(o) # ""
  <2>1. pc'[c] = "settled" /\ outcome'[c] = Refusal(o) /\ session'[c] = "none"
    BY <1>1, <1>4, <1>5 DEF Settles, Goes, TypeOK, Opens, CallInv
  <2>2. outcome'[c] # "urls"
    BY <2>1, <1>5, RefusalIsRefusal DEF Refusals
  <2> QED
    BY <1>3, <2>1, <2>2 DEF CallInv, Stages, Active, CompletesLast, Answered
<1>6. CASE Refusal(o) = ""
  <2>1. /\ pc'[c] = IF o.op = "multipart" THEN "creating" ELSE "signing"
        /\ outcome'[c] = ""
    BY <1>1, <1>3, <1>6 DEF Goes, TypeOK
  <2>2. Accepted(c)'
    BY <1>4, <1>6, NothingRefused DEF Accepted, TtlAcceptable, RequestedTtl, MimeAllowed
  <2>3. Stages(c)'
    BY <1>3, <1>4, <2>1, <2>2 DEF Stages, Active
  <2>4. outcome'[c] \notin Refusals \cup {"urls"}
    BY <2>1 DEF Refusals
  <2> QED
    BY <1>3, <2>2, <2>3, <2>4 DEF CallInv, CompletesLast, Answered
<1> QED
  BY <1>5, <1>6

\* One more signature of a call under way.
LEMMA SignsOwn ==
    ASSUME NEW c \in Call, TypeOK, CallInv(c), NEW kind, NEW part, Signs(c, kind, part),
           pc[c] \in Active, pc[c] # "creating",
           pc'[c] = IF pc[c] = "signing" THEN "answering" ELSE pc[c],
           outcome'[c] = outcome[c],
           kind \in {"part", "complete"} <=> asked[c].op = "multipart",
           kind = "put" => asked[c].op = "put",
           \A u \in signed[c] : u.kind # "complete",
           kind = "complete" => AllPartsSigned(c),
           UNCHANGED <<now, asked, expiresAt, session>>
    PROVE  CallInv(c)'
<1> DEFINE new == [kind |-> kind, part |-> part, at |-> now, ttl |-> ClampTtl(asked[c])]
<1>1. signed'[c] = signed[c] \cup {new}
  BY DEF Signs, TypeOK
<1>2. Accepted(c) /\ Accepted(c)'
  BY DEF CallInv, Stages, Accepted, TtlAcceptable, RequestedTtl, MimeAllowed, MimeMatches
<1>3. Stages(c)'
  BY <1>2 DEF CallInv, Stages, Active
<1>4. \A u \in signed'[c] : UrlFollows(c, u)'
  <2>1. \A u \in signed[c] : UrlFollows(c, u)'
    BY DEF CallInv, UrlFollows, ClampTtl, RequestedTtl
  <2>2. UrlFollows(c, new)'
    <3>0. now \in Nat /\ now' = now /\ asked'[c] = asked[c]
      BY DEF TypeOK
    <3>1. new.at <= now' /\ new.ttl = ClampTtl(asked[c])'
      BY <3>0 DEF ClampTtl, RequestedTtl
    <3>2. /\ new.kind \in {"part", "complete"} <=> asked'[c].op = "multipart"
          /\ new.kind = "put" => asked'[c].op = "put"
      OBVIOUS
    <3> QED
      BY <3>1, <3>2 DEF UrlFollows, ClampTtl, RequestedTtl
  <2> QED
    BY <1>1, <2>1, <2>2
<1>5. CompletesLast(c)'
  <2>1. SUFFICES ASSUME NEW last \in signed'[c], last.kind = "complete"
                 PROVE  /\ PartsSigned(c)' = 1..asked'[c].parts
                        /\ \A u \in signed'[c] : u.at <= last.at
    BY DEF CompletesLast
  <2>2. last = new
    BY <1>1, <2>1
  <2>3. kind = "complete"
    BY <2>1, <2>2
  <2>4. PartsSigned(c)' = PartsSigned(c)
    BY <1>1, <2>3 DEF PartsSigned
  <2>5. \A u \in signed'[c] : u.at <= last.at
    <3>1. \A u \in signed[c] : u.at <= now
      BY DEF CallInv, UrlFollows
    <3>0. now \in Nat
      BY DEF TypeOK
    <3>2. new.at <= now
      BY <3>0
    <3>3. last.at = now
      BY <2>2
    <3> QED
      BY <1>1, <3>1, <3>2, <3>3
  <2> QED
    BY <2>3, <2>4, <2>5 DEF AllPartsSigned
<1>6. outcome'[c] = ""
  BY DEF CallInv, Stages
<1>7. Answered(c)' /\ outcome'[c] \notin Refusals
  BY <1>6 DEF Answered, Refusals
<1> QED
  BY <1>2, <1>3, <1>4, <1>5, <1>7 DEF CallInv

LEMMA AnswerOwn ==
    ASSUME NEW c \in Call, TypeOK, CallInv(c), Answer(c)
    PROVE  CallInv(c)'
<1>1. /\ pc[c] = "answering" /\ pc'[c] = "settled" /\ outcome'[c] = "urls"
      /\ expiresAt'[c] = now + ClampTtl(asked[c])
      /\ UNCHANGED <<now, asked, signed, session>>
  BY DEF Answer, Settles, Goes, TypeOK, provider, CallInv
<1>2. Accepted(c) /\ asked[c].op # "multipart"
  BY <1>1 DEF CallInv, Stages, Active
<1>3. Accepted(c)'
  BY <1>1, <1>2 DEF Accepted, TtlAcceptable, RequestedTtl, MimeAllowed, MimeMatches
<1>4. \A u \in signed'[c] : UrlFollows(c, u)'
  BY <1>1 DEF CallInv, UrlFollows, ClampTtl, RequestedTtl
<1>5. CompletesLast(c)'
  BY <1>1 DEF CallInv, CompletesLast, PartsSigned
<1>6. ClampTtl(asked[c]) \in Nat
  BY <1>2, ClampIsBounded DEF Accepted
<1>7. \A u \in signed'[c] : u.at + u.ttl <= expiresAt'[c]
  <2>1. \A u \in signed[c] : u.at \in Nat /\ u.at <= now /\ u.ttl = ClampTtl(asked[c])
    BY TypedTimes DEF CallInv, UrlFollows
  <2>2. now \in Nat
    BY DEF TypeOK
  <2> QED
    BY <1>1, <1>6, <2>1, <2>2
<1> QED
  BY <1>1, <1>2, <1>3, <1>4, <1>5, <1>7 DEF CallInv, Stages, Active, Answered, Refusals

LEMMA AnswerMultipartOwn ==
    ASSUME NEW c \in Call, TypeOK, CallInv(c), AnswerMultipart(c)
    PROVE  CallInv(c)'
<1>1. /\ pc[c] = "presigning" /\ pc'[c] = "settled" /\ outcome'[c] = "urls"
      /\ PartsSigned(c) = 1..asked[c].parts
      /\ \E u \in signed[c] : u.kind = "complete"
      /\ UNCHANGED <<now, asked, signed, expiresAt, session>>
  BY DEF AnswerMultipart, Settles, Goes, TypeOK, provider, CallInv
<1>2. Accepted(c) /\ asked[c].op = "multipart"
  BY <1>1 DEF CallInv, Stages, Active
<1>3. Accepted(c)'
  BY <1>1, <1>2 DEF Accepted, TtlAcceptable, RequestedTtl, MimeAllowed, MimeMatches
<1>4. \A u \in signed'[c] : UrlFollows(c, u)'
  BY <1>1 DEF CallInv, UrlFollows, ClampTtl, RequestedTtl
<1>5. CompletesLast(c)'
  BY <1>1 DEF CallInv, CompletesLast, PartsSigned
<1>6. PartsSigned(c)' = PartsSigned(c)
  BY <1>1 DEF PartsSigned
<1> QED
  BY <1>1, <1>2, <1>3, <1>4, <1>5, <1>6 DEF CallInv, Stages, Active, Answered, Refusals

LEMMA CreateAnsweredOwn ==
    ASSUME NEW c \in Call, TypeOK, CallInv(c), CreateAnswered(c)
    PROVE  CallInv(c)'
<1>1. pc[c] = "creating" /\ UNCHANGED <<now, asked, signed, expiresAt, session>>
  BY DEF CreateAnswered, provider
<1>2. CASE up
  <2>1. pc'[c] = "presigning" /\ outcome'[c] = outcome[c]
    BY <1>2 DEF CreateAnswered, Goes, TypeOK
  <2>2. Accepted(c)'
    BY <1>1 DEF CallInv, Stages, Active, Accepted, TtlAcceptable, RequestedTtl, MimeAllowed, MimeMatches
  <2>3. signed'[c] = {} /\ outcome'[c] = ""
    BY <1>1, <2>1 DEF CallInv, Stages, Active
  <2> QED
    BY <1>1, <2>1, <2>2, <2>3 DEF CallInv, Stages, Active, CompletesLast, Answered, Refusals
<1>3. CASE ~up
  <2>1. Settles(c, MapAwsError(PlainError))
    BY <1>3 DEF CreateAnswered, Fails
  <2>2. MapAwsError(PlainError) \notin Refusals \cup {"", "urls"}
    BY ErrorsAreNotRefusals
  <2> QED
    BY <1>1, <2>1, <2>2, FailureOwn DEF Active
<1> QED
  BY <1>2, <1>3

\* The provider's steps and the holders' leave the calls as they are.
LEMMA OutsideStep ==
    ASSUME NEW c \in Call, TypeOK,
           CreateApplies(c) \/ UsePut(c) \/ UsePart(c) \/ UseComplete(c)
    PROVE  /\ UNCHANGED <<up, now, pc, asked, signed, expiresAt, outcome>>
           /\ \A d \in Call : session'[d] = session[d] \/ session[d] # "none"
<1>1. CASE CreateApplies(c)
  BY <1>1 DEF CreateApplies, TypeOK
<1>2. CASE UsePut(c)
  BY <1>2 DEF UsePut
<1>3. CASE UsePart(c)
  BY <1>3 DEF UsePart
<1>4. CASE UseComplete(c)
  BY <1>4 DEF UseComplete, TypeOK
<1> QED
  BY <1>1, <1>2, <1>3, <1>4

LEMMA OwnStep ==
    ASSUME NEW c \in Call, TypeOK, CallInv(c), CallStep(c)
    PROVE  CallInv(c)'
<1>1. CASE Start(c)
  BY <1>1, StartOwn
<1>2. CASE Sign(c)
  <2>1. /\ pc[c] = "signing" /\ pc'[c] = "answering" /\ Signs(c, asked[c].op, 0)
        /\ UNCHANGED <<now, asked, expiresAt, outcome, session>>
    BY <1>2 DEF Sign, Goes, TypeOK, provider
  <2>2. /\ signed[c] = {} /\ Accepted(c) /\ asked[c].op # "multipart"
    BY <2>1 DEF CallInv, Stages, Active
  <2>3. asked[c].op \in {"get", "put"}
    BY <2>2, SignedUrlAssumption DEF Accepted, Options, Operation
  <2> QED
    BY <2>1, <2>2, <2>3, SignsOwn DEF Active
<1>3. CASE Answer(c)
  BY <1>3, AnswerOwn
<1>4. CASE CreateAnswered(c)
  BY <1>4, CreateAnsweredOwn
<1>5. CASE CreateAnsweredEmpty(c)
  <2>1. "STORAGE_PROVIDER_ERROR" \notin Refusals \cup {"", "urls"}
    BY DEF Refusals
  <2> QED
    BY <1>5, <2>1, FailureOwn DEF CreateAnsweredEmpty, provider, Active
<1>6. CASE CreateFails(c)
  <2>1. PICK e : Settles(c, MapAwsError(e))
    BY <1>6 DEF CreateFails, Fails
  <2> QED
    BY <1>6, <2>1, ErrorsAreNotRefusals, FailureOwn DEF CreateFails, provider, Active
<1>7. CASE SignPart(c)
  <2>1. PICK n \in (1..asked[c].parts) \ PartsSigned(c) : Signs(c, "part", n)
    BY <1>7 DEF SignPart
  <2>2. /\ pc[c] = "presigning" /\ pc' = pc /\ outcome' = outcome
        /\ UNCHANGED <<now, asked, expiresAt, session>>
    BY <1>7 DEF SignPart, provider
  <2>3. asked[c].op = "multipart"
    BY <2>2 DEF CallInv, Stages
  <2>4. \A u \in signed[c] : u.kind # "complete"
    BY <2>1 DEF CallInv, CompletesLast
  <2> QED
    BY <2>1, <2>2, <2>3, <2>4, SignsOwn DEF Active
<1>8. CASE SignComplete(c)
  <2>1. /\ pc[c] = "presigning" /\ pc' = pc /\ outcome' = outcome
        /\ Signs(c, "complete", 0) /\ AllPartsSigned(c)
        /\ \A u \in signed[c] : u.kind # "complete"
        /\ UNCHANGED <<now, asked, expiresAt, session>>
    BY <1>8 DEF SignComplete, provider
  <2>2. asked[c].op = "multipart"
    BY <2>1 DEF CallInv, Stages
  <2> QED
    BY <2>1, <2>2, SignsOwn DEF Active
<1>9. CASE AnswerMultipart(c)
  BY <1>9, AnswerMultipartOwn
<1>10. CASE SignFails(c)
  <2>1. Settles(c, MapAwsError(PlainError))
    BY <1>10 DEF SignFails, Fails
  <2> QED
    BY <1>10, <2>1, ErrorsAreNotRefusals, FailureOwn DEF SignFails, provider, Active
<1>11. CASE CreateApplies(c) \/ UsePut(c) \/ UsePart(c) \/ UseComplete(c)
  <2>1. now \in Nat
    BY DEF TypeOK
  <2> QED
    BY <1>11, <2>1, OutsideStep, CallFrame
<1> QED
  BY <1>1, <1>2, <1>3, <1>4, <1>5, <1>6, <1>7, <1>8, <1>9, <1>10, <1>11 DEF CallStep

\* What a call does is written under its own name.
LEMMA OtherStep ==
    ASSUME NEW c \in Call, NEW d \in Call, d # c, TypeOK, CallInv(d), CallStep(c)
    PROVE  CallInv(d)'
<1>1. /\ now' = now
      /\ pc'[d] = pc[d] /\ asked'[d] = asked[d] /\ signed'[d] = signed[d]
      /\ expiresAt'[d] = expiresAt[d] /\ outcome'[d] = outcome[d]
      /\ session'[d] = session[d] \/ session[d] # "none"
  <2>1. CASE Start(c)
    <3>1. PICK o \in Ask, stage \in {"settled", "creating", "signing"} :
             /\ asked' = [asked EXCEPT ![c] = o]
             /\ session' = [session EXCEPT ![c] = IF Opens(o) THEN "requested" ELSE @]
             /\ pc' = [pc EXCEPT ![c] = stage]
             /\ outcome' = outcome \/ outcome' = [outcome EXCEPT ![c] = Refusal(o)]
             /\ UNCHANGED <<now, signed, expiresAt>>
      BY <2>1 DEF Start, Settles, Goes
    <3> QED
      BY <3>1 DEF TypeOK
  <2>2. CASE Sign(c)
    BY <2>2 DEF Sign, Goes, Signs, provider, TypeOK
  <2>3. CASE Answer(c)
    BY <2>3 DEF Answer, Settles, Goes, provider, TypeOK
  <2>4. CASE CreateAnswered(c)
    BY <2>4 DEF CreateAnswered, Fails, Settles, Goes, provider, TypeOK
  <2>5. CASE CreateAnsweredEmpty(c)
    BY <2>5 DEF CreateAnsweredEmpty, Settles, Goes, provider, TypeOK
  <2>6. CASE CreateFails(c)
    <3>1. PICK e : Settles(c, MapAwsError(e))
      BY <2>6 DEF CreateFails, Fails
    <3> QED
      BY <2>6, <3>1 DEF CreateFails, Settles, Goes, provider, TypeOK
  <2>7. CASE SignPart(c)
    BY <2>7 DEF SignPart, Signs, provider, TypeOK
  <2>8. CASE SignComplete(c)
    BY <2>8 DEF SignComplete, Signs, provider, TypeOK
  <2>9. CASE AnswerMultipart(c)
    BY <2>9 DEF AnswerMultipart, Settles, Goes, provider, TypeOK
  <2>10. CASE SignFails(c)
    BY <2>10 DEF SignFails, Fails, Settles, Goes, provider, TypeOK
  <2>11. CASE CreateApplies(c) \/ UsePut(c) \/ UsePart(c) \/ UseComplete(c)
    BY <2>11, OutsideStep
  <2> QED
    BY <2>1, <2>2, <2>3, <2>4, <2>5, <2>6, <2>7, <2>8, <2>9, <2>10, <2>11 DEF CallStep
<1>2. now \in Nat
  BY DEF TypeOK
<1> QED
  BY <1>1, <1>2, CallFrame

LEMMA CallsStep ==
    ASSUME Inv, Next, NEW d \in Call
    PROVE  CallInv(d)'
<1>1. TypeOK /\ CallInv(d) /\ now \in Nat
  BY DEF Inv, TypeOK
<1>2. CASE Shutdown
  <2>1. UNCHANGED <<now, pc, asked, signed, expiresAt, outcome, session>>
    BY <1>2 DEF Shutdown, provider
  <2> QED
    BY <1>1, <2>1, CallFrame
<1>3. CASE Tick
  <2>1. now' = now + 1 /\ UNCHANGED <<pc, asked, signed, expiresAt, outcome, session>>
    BY <1>3 DEF Tick, provider
  <2>2. now' \in Nat /\ now <= now'
    BY <1>1, <2>1
  <2> QED
    BY <1>1, <2>1, <2>2, CallFrame
<1>4. CASE \E c \in Call : CallStep(c)
  BY <1>1, <1>4, OwnStep, OtherStep
<1> QED
  BY <1>2, <1>3, <1>4 DEF Next
-----------------------------------------------------------------------------
LEMMA SignsTyped ==
    ASSUME TypeOK, NEW c \in Call, Accepted(c), NEW kind \in {"get", "put", "part", "complete"},
           NEW part \in Nat, Signs(c, kind, part)
    PROVE  signed' \in [Call -> SUBSET Url]
<1> DEFINE new == [kind |-> kind, part |-> part, at |-> now, ttl |-> ClampTtl(asked[c])]
<1>1. now \in Nat /\ signed \in [Call -> SUBSET Url]
  BY DEF TypeOK
<1>2. ClampTtl(asked[c]) \in Nat \ {0}
  BY ClampIsBounded DEF Accepted
<1>3. new \in Url
  BY <1>1, <1>2 DEF Url
<1>4. signed' = [signed EXCEPT ![c] = @ \cup {new}]
  BY DEF Signs
<1> QED
  BY <1>1, <1>3, <1>4

LEMMA SettlesTyped ==
    ASSUME TypeOK, NEW c \in Call, NEW out \in Refusals \cup Failures \cup {"", "urls"},
           Settles(c, out)
    PROVE  /\ pc' \in [Call -> {"idle", "signing", "answering", "creating", "presigning", "settled"}]
           /\ outcome' \in [Call -> Refusals \cup Failures \cup {"", "urls"}]
BY DEF TypeOK, Settles, Goes

LEMMA FailsTyped ==
    ASSUME TypeOK, NEW c \in Call, NEW e, Fails(c, e)
    PROVE  /\ pc' \in [Call -> {"idle", "signing", "answering", "creating", "presigning", "settled"}]
           /\ outcome' \in [Call -> Refusals \cup Failures \cup {"", "urls"}]
BY ErrorsAreNotRefusals, SettlesTyped DEF Fails

LEMMA TypeStep == Inv /\ Next => TypeOK'
<1> SUFFICES ASSUME Inv, Next PROVE TypeOK'
  OBVIOUS
<1>0. TypeOK /\ \A c \in Call : CallInv(c)
  BY DEF Inv
<1>1. CASE Shutdown
  BY <1>0, <1>1 DEF Shutdown, provider, TypeOK
<1>2. CASE Tick
  <2>1. now \in Nat /\ now' = now + 1
    BY <1>0, <1>2 DEF Tick, TypeOK
  <2>2. now' \in Nat
    BY <2>1
  <2> QED
    BY <1>0, <1>2, <2>2 DEF Tick, provider, TypeOK
<1>3. ASSUME NEW c \in Call, CallStep(c) PROVE TypeOK'
  <2>1. CASE Start(c)
    <3>1. PICK o \in Ask :
              /\ asked' = [asked EXCEPT ![c] = o]
              /\ session' = [session EXCEPT ![c] = IF Opens(o) THEN "requested" ELSE @]
              /\ IF Refusal(o) # "" THEN Settles(c, Refusal(o))
                 ELSE /\ Goes(c, IF o.op = "multipart" THEN "creating" ELSE "signing")
                      /\ UNCHANGED outcome
      BY <2>1 DEF Start
    <3>2. UNCHANGED <<up, now, signed, expiresAt, uploaded, object>>
      BY <2>1 DEF Start
    <3>3. CASE Refusal(o) # ""
      BY <1>0, <3>1, <3>2, <3>3, RefusalIsRefusal, SettlesTyped DEF TypeOK
    <3>4. CASE Refusal(o) = ""
      BY <1>0, <3>1, <3>2, <3>4 DEF TypeOK, Goes
    <3> QED
      BY <3>3, <3>4
  <2>2. CASE Sign(c)
    <3>1. Accepted(c) /\ asked[c].op # "multipart"
      BY <1>0, <2>2 DEF Sign, CallInv, Stages, Active
    <3>2. asked[c].op \in {"get", "put"}
      BY <3>1, SignedUrlAssumption DEF Accepted, Options, Operation
    <3>3. signed' \in [Call -> SUBSET Url]
      BY <1>0, <2>2, <3>1, <3>2, SignsTyped DEF Sign
    <3> QED
      BY <1>0, <2>2, <3>3 DEF Sign, Goes, provider, TypeOK
  <2>3. CASE Answer(c)
    <3>1. Accepted(c)
      BY <1>0, <2>3 DEF Answer, CallInv, Stages, Active
    <3>2. ClampTtl(asked[c]) \in Nat
      BY <3>1, ClampIsBounded DEF Accepted
    <3>3. now \in Nat
      BY <1>0 DEF TypeOK
    <3>4. now + ClampTtl(asked[c]) \in Nat
      BY <3>2, <3>3
    <3> QED
      BY <1>0, <2>3, <3>4, SettlesTyped DEF Answer, provider, TypeOK
  <2>4. CASE CreateAnswered(c)
    BY <1>0, <2>4, FailsTyped DEF CreateAnswered, Goes, provider, TypeOK
  <2>5. CASE CreateAnsweredEmpty(c)
    BY <1>0, <2>5, SettlesTyped DEF CreateAnsweredEmpty, Failures, provider, TypeOK
  <2>6. CASE CreateFails(c)
    <3>1. PICK e : Fails(c, e)
      BY <2>6 DEF CreateFails
    <3> QED
      BY <1>0, <2>6, <3>1, FailsTyped DEF CreateFails, provider, TypeOK
  <2>7. CASE SignPart(c)
    <3>1. Accepted(c)
      BY <1>0, <2>7 DEF SignPart, CallInv, Stages, Active
    <3>2. PICK n \in (1..asked[c].parts) \ PartsSigned(c) : Signs(c, "part", n)
      BY <2>7 DEF SignPart
    <3>3. n \in Nat
      <4>1. asked[c] \in Options
        BY <3>1, SignedUrlAssumption DEF Accepted
      <4>3. n \in 1..asked[c].parts
        BY <3>2
      <4>2. asked[c].parts \in Nat
        BY <4>1 DEF Options
      <4> QED
        BY <4>2, <4>3
    <3>4. signed' \in [Call -> SUBSET Url]
      BY <1>0, <3>1, <3>2, <3>3, SignsTyped
    <3> QED
      BY <1>0, <2>7, <3>4 DEF SignPart, provider, TypeOK
  <2>8. CASE SignComplete(c)
    <3>1. Accepted(c)
      BY <1>0, <2>8 DEF SignComplete, CallInv, Stages, Active
    <3>2. signed' \in [Call -> SUBSET Url]
      BY <1>0, <2>8, <3>1, SignsTyped DEF SignComplete
    <3> QED
      BY <1>0, <2>8, <3>2 DEF SignComplete, provider, TypeOK
  <2>9. CASE AnswerMultipart(c)
    BY <1>0, <2>9, SettlesTyped DEF AnswerMultipart, provider, TypeOK
  <2>10. CASE SignFails(c)
    BY <1>0, <2>10, FailsTyped DEF SignFails, provider, TypeOK
  <2>11. CASE CreateApplies(c)
    BY <1>0, <2>11 DEF CreateApplies, TypeOK
  <2>12. CASE UsePut(c)
    <3>1. PICK mime : mime = asked[c].contentType /\ object' = [object EXCEPT ![asked[c].key] = mime]
      BY <2>12 DEF UsePut, TypeAccepted
    <3>2. asked[c].contentType \in Mime
      BY <1>0, <2>12, SignedUrlAssumption DEF UsePut, Held, CallInv, Accepted, Options
    <3> QED
      BY <1>0, <2>12, <3>1, <3>2 DEF UsePut, TypeOK
  <2>13. CASE UsePart(c)
    <3>1. PICK u \in signed[c] : uploaded' = [uploaded EXCEPT ![c] = @ \cup {u.part}]
      BY <2>13 DEF UsePart, Held
    <3>2. u \in Url
      BY <1>0, <3>1 DEF TypeOK
    <3>3. u.part \in Nat
      BY <3>2 DEF Url
    <3> QED
      BY <1>0, <2>13, <3>1, <3>3 DEF UsePart, TypeOK
  <2>14. CASE UseComplete(c)
    <3>2. asked[c].contentType \in Mime
      BY <1>0, <2>14, SignedUrlAssumption DEF UseComplete, Held, CallInv, Accepted, Options
    <3> QED
      BY <1>0, <2>14, <3>2 DEF UseComplete, TypeOK
  <2> QED
    BY <1>3, <2>1, <2>2, <2>3, <2>4, <2>5, <2>6, <2>7, <2>8, <2>9, <2>10, <2>11, <2>12, <2>13,
       <2>14 DEF CallStep
<1> QED
  BY <1>1, <1>2, <1>3 DEF Next
-----------------------------------------------------------------------------
\* An object is stored through a PUT URL, or by completing an upload.
LEMMA StoredStep == Inv /\ Next => StoredTypesAllowed'
<1> SUFFICES ASSUME Inv, Next, Whitelist # {}, NEW k \in Key, object'[k] # NoObject
             PROVE  MimeMatches(<<Served(object'[k])>>, Whitelist)
  BY DEF StoredTypesAllowed, MimeMatches, Served
<1>0. TypeOK /\ StoredTypesAllowed /\ \A c \in Call : CallInv(c)
  BY DEF Inv
<1>1. CASE object'[k] = object[k]
  BY <1>0, <1>1 DEF StoredTypesAllowed
<1>2. CASE object'[k] # object[k]
  <2>1. PICK c \in Call : UsePut(c) \/ UseComplete(c)
    BY <1>2 DEF Next, Shutdown, Tick, provider, CallStep, Start, Sign, Answer, CreateAnswered,
                CreateAnsweredEmpty, CreateFails, SignPart, SignComplete, AnswerMultipart,
                SignFails, CreateApplies, UsePart
  <2>2. object'[k] = asked[c].contentType
    BY <1>0, <1>2, <2>1 DEF UsePut, UseComplete, TypeAccepted, TypeOK
  <2>3. PICK u \in signed[c] : u.kind \in {"put", "complete"}
    BY <2>1 DEF UsePut, UseComplete, Held
  <2>4. Accepted(c) /\ UrlFollows(c, u)
    BY <1>0, <2>3 DEF CallInv
  <2>5. asked[c].op # "get"
    BY <2>3, <2>4 DEF UrlFollows
  <2>6. MimeAllowed(asked[c].contentType)
    BY <2>4, <2>5 DEF Accepted
  <2>7. asked[c].contentType \in Mime
    BY <2>4, SignedUrlAssumption DEF Accepted, Options
  <2> QED
    BY <2>2, <2>6, <2>7, AllowedIsServed
<1> QED
  BY <1>1, <1>2

LEMMA InvHolds == Spec => []Inv
<1>1. Init => Inv
  BY InitInv
<1>2. Inv /\ [Next]_vars => Inv'
  <2> SUFFICES ASSUME Inv, [Next]_vars PROVE Inv'
    OBVIOUS
  <2>1. CASE Next
    BY <2>1, CallsStep, TypeStep, StoredStep DEF Inv
  <2>2. CASE UNCHANGED vars
    <3>1. \A c \in Call : CallInv(c)'
      <4>1. /\ TypeOK /\ now \in Nat
            /\ UNCHANGED <<now, pc, asked, signed, expiresAt, outcome, session>>
        BY <2>2 DEF vars, Inv, TypeOK
      <4> QED
        BY <4>1, CallFrame DEF Inv
    <3>2. TypeOK' /\ StoredTypesAllowed'
      BY <2>2 DEF vars, Inv, TypeOK, StoredTypesAllowed, MimeMatches, Served
    <3> QED
      BY <3>1, <3>2 DEF Inv
  <2> QED
    BY <2>1, <2>2
<1> QED
  BY <1>1, <1>2, PTL DEF Spec

(* Everything SignedUrls keeps is well formed in every reachable state, for *)
(* any calls, limits and whitelist: clampTtl() never lets an expiry of zero *)
(* or less through.                                                         *)
THEOREM TypeCorrect == Spec => []TypeOK
<1>1. Inv => TypeOK
  BY DEF Inv
<1> QED
  BY <1>1, InvHolds, PTL

(* Whatever the holders of URLs send, and whenever, what is stored is       *)
(* served as a type of the whitelist: assertMimeAllowed() and the signed    *)
(* content-type.                                                            *)
THEOREM TypesAreAllowed == Spec => []StoredTypesAllowed
<1>1. Inv => StoredTypesAllowed
  BY DEF Inv
<1> QED
  BY <1>1, InvHolds, PTL

(* No URL outlives its limits, nor the deadline that came with it, however  *)
(* long signing takes: clampTtl() and the expiresAt of the answers.         *)
THEOREM UrlsDoExpire == Spec => []UrlsExpire
<1>1. Inv => UrlsExpire
  <2> SUFFICES ASSUME Inv, NEW c \in Call, NEW u \in signed[c]
               PROVE  /\ u.ttl <= ConfiguredMax /\ u.ttl <= Ceiling
                      /\ (outcome[c] = "urls" /\ asked[c].op # "multipart" /\ Honoured(u)
                             => now < expiresAt[c])
    BY DEF UrlsExpire
  <2>1. TypeOK /\ Accepted(c) /\ UrlFollows(c, u) /\ Answered(c)
    BY DEF Inv, CallInv
  <2>2. u.ttl <= ConfiguredMax /\ u.ttl <= Ceiling
    BY <2>1, ClampIsBounded DEF Accepted, UrlFollows
  <2>3. ASSUME outcome[c] = "urls", asked[c].op # "multipart", now < u.at + u.ttl
        PROVE  now < expiresAt[c]
    <3>1. u.at + u.ttl <= expiresAt[c]
      BY <2>1, <2>3 DEF Answered
    <3>2. expiresAt[c] \in Nat /\ now \in Nat /\ u.at \in Nat /\ u.ttl \in Nat
      BY <2>1, TypedTimes DEF TypeOK
    <3> QED
      BY <2>3, <3>1, <3>2
  <2> QED
    BY <2>2, <2>3 DEF Honoured
<1> QED
  BY <1>1, InvHolds, PTL

(* Whoever is given the part URLs of a multipart upload can complete it for *)
(* as long as any part is accepted: presignMultipartParts().                *)
THEOREM PartsAreCompletable == Spec => []PartsCanBeCompleted
<1>1. Inv => PartsCanBeCompleted
  <2> SUFFICES ASSUME Inv, NEW c \in Call, outcome[c] = "urls", asked[c].op = "multipart"
               PROVE  /\ \A n \in 1..asked[c].parts :
                             \E u \in signed[c] : u.kind = "part" /\ u.part = n
                      /\ \E last \in signed[c] :
                             /\ last.kind = "complete"
                             /\ \A u \in signed[c] : Honoured(u) => Honoured(last)
    BY DEF PartsCanBeCompleted
  <2>1. TypeOK /\ CallInv(c) /\ Answered(c) /\ CompletesLast(c)
    BY DEF Inv, CallInv
  <2>2. \A n \in 1..asked[c].parts : \E u \in signed[c] : u.kind = "part" /\ u.part = n
    BY <2>1 DEF Answered, PartsSigned
  <2>3. PICK last \in signed[c] : last.kind = "complete"
    BY <2>1 DEF Answered
  <2>4. ASSUME NEW u \in signed[c], now < u.at + u.ttl PROVE now < last.at + last.ttl
    <3>1. u.at <= last.at /\ u.ttl = last.ttl
      BY <2>1, <2>3 DEF CompletesLast, CallInv, UrlFollows
    <3>2. /\ now \in Nat /\ u.at \in Nat /\ u.ttl \in Nat
          /\ last.at \in Nat /\ last.ttl \in Nat
      BY <2>1, <2>3, TypedTimes
    <3> QED
      BY <2>4, <3>1, <3>2
  <2> QED
    BY <2>2, <2>3, <2>4 DEF Honoured
<1> QED
  BY <1>1, InvHolds, PTL

(* A refusal is final: nothing was opened at the provider by a call that    *)
(* was refused for its arguments.                                           *)
THEOREM RefusalsOpenNothing == Spec => []RefusedOpensNothing
<1>1. Inv => RefusedOpensNothing
  BY DEF Inv, CallInv, RefusedOpensNothing
<1> QED
  BY <1>1, InvHolds, PTL
=============================================================================
