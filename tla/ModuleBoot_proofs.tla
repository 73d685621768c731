-------------------------- MODULE ModuleBoot_proofs --------------------------
(***************************************************************************)
(* The boot of the module, for every set of options and every order the    *)
(* injector and the hooks may take.                                        *)
(*                                                                         *)
(* HooksFindTheClient is not inductive: that a hook finds the client       *)
(* follows from the raw token, whose factory builds it, being there before *)
(* the first hook, and from that token's way to the options through        *)
(* S3ClientProvider.                                                       *)
(***************************************************************************)
EXTENDS ModuleBoot, FiniteSetTheorems, SequenceTheorems, TLAPS

OptionsKnown ==
    /\ "OPTIONS" \in made => resolved = ApplyDefaults(given) /\ Valid(given)
    /\ "OPTIONS" \notin made => resolved = Unset

InOrder ==
    /\ phase = "registering" => made = {}
    /\ "S3_CLIENT" \in made => "S3ClientProvider" \in made
    /\ "S3ClientProvider" \in made => "OPTIONS" \in made
    /\ "StorageService" \in made => "OPTIONS" \in made
    /\ phase \in {"initialising", "running", "closing", "closed"} => "S3_CLIENT" \in made

OneClient ==
    /\ built \in {0, 1} /\ client \in {0, built}
    /\ phase # "closed" => client = built
    /\ "S3_CLIENT" \notin made => built = 0 /\ raw = Unset
    /\ "S3_CLIENT" \in made =>
           (built = 1 <=> given.credentials) /\ raw = built
    /\ phase = "closed" => 1..built \subseteq destroyed

CallsAnswered ==
    \A c \in calls :
        /\ "OPTIONS" \in made
        /\ c[1] \in {"initialising", "running"} =>
               (c[2] = "STORAGE_NOT_CONFIGURED" <=> ~given.credentials)

IInv == TypeOK /\ OptionsKnown /\ InOrder /\ OneClient /\ CallsAnswered
-----------------------------------------------------------------------------
(* What the constructors and factories ask for, of the tokens that matter. *)
LEMMA WhatIsNeeded ==
    /\ Needs("S3_CLIENT") = {"S3ClientProvider"}
    /\ Needs("S3ClientProvider") = {"OPTIONS"}
    /\ "OPTIONS" \in Needs("StorageService")
<1>1. Needs("S3_CLIENT") = {"S3ClientProvider"}
  BY DEF Needs, UserTokens
<1>2. Needs("S3ClientProvider") = {"OPTIONS"}
  BY DEF Needs, UserTokens
<1>3. "OPTIONS" \in Needs("StorageService")
  BY DEF Needs, UserTokens
<1> QED BY <1>1, <1>2, <1>3

(* applyDefaults() takes the credentials as they are. *)
LEMMA CredentialsKept ==
    ASSUME NEW o \in Options
    PROVE  ApplyDefaults(o).hasCredentials = o.credentials
BY DEF ApplyDefaults

(* The options token, once there, is the consumer's options resolved.      *)
LEMMA CredentialsKnown ==
    ASSUME TypeOK, OptionsKnown, "OPTIONS" \in made
    PROVE  resolved.hasCredentials = given.credentials
<1>1. given \in Options
  BY GivenAssumption DEF TypeOK
<1> QED BY <1>1, CredentialsKept DEF OptionsKnown

-----------------------------------------------------------------------------
LEMMA Initially == Init => IInv
<1> SUFFICES ASSUME Init PROVE IInv
  OBVIOUS
<1>1. TypeOK
  BY DEF Init, TypeOK, Null
<1>2. OptionsKnown /\ InOrder /\ OneClient /\ CallsAnswered
  BY DEF Init, OptionsKnown, InOrder, OneClient, CallsAnswered, Null
<1> QED BY <1>1, <1>2 DEF IInv

(* resolveClient() builds a client when there is none, and keeps the rest.  *)
LEMMA ResolveClientBuilds ==
    ASSUME TypeOK, ResolveClient
    PROVE  /\ client' \in Nat /\ built' \in Nat
           /\ client # 0 => client' = client /\ built' = built
           /\ client = 0 => client' = built + 1 /\ built' = built + 1
<1>1. CASE client = 0
  <2>1. client' = built + 1 /\ built' = built + 1
    BY <1>1 DEF ResolveClient, Null
  <2>2. built \in Nat
    BY DEF TypeOK
  <2> QED BY <1>1, <2>1, <2>2
<1>2. CASE client # 0
  <2>1. client' = client /\ built' = built
    BY <1>2 DEF ResolveClient, Null
  <2> QED BY <1>2, <2>1 DEF TypeOK
<1> QED BY <1>1, <1>2

LEMMA RawClientFound ==
    ASSUME TypeOK, MakeRawClient
    PROVE  /\ client' \in Nat /\ built' \in Nat /\ raw' \in Nat
           /\ resolved.hasCredentials => ResolveClient /\ raw' = client'
           /\ ~resolved.hasCredentials => raw' = 0 /\ client' = client /\ built' = built
<1>1. CASE resolved.hasCredentials
  <2>1. ResolveClient /\ raw' = client'
    BY <1>1 DEF MakeRawClient, GetClientOrNull
  <2> QED BY <1>1, <2>1, ResolveClientBuilds
<1>2. CASE ~resolved.hasCredentials
  <2>1. raw' = 0 /\ client' = client /\ built' = built
    BY <1>2 DEF MakeRawClient, GetClientOrNull, Null
  <2> QED BY <1>2, <2>1 DEF TypeOK
<1> QED BY <1>1, <1>2

LEMMA HookFindsOrBuilds ==
    ASSUME TypeOK, OnModuleInit
    PROVE  /\ client' \in Nat /\ built' \in Nat
           /\ resolved.hasCredentials => ResolveClient
           /\ ~resolved.hasCredentials => client' = client /\ built' = built
<1>1. CASE resolved.hasCredentials
  <2>1. ResolveClient
    BY <1>1 DEF OnModuleInit
  <2> QED BY <1>1, <2>1, ResolveClientBuilds
<1>2. CASE ~resolved.hasCredentials
  <2>1. client' = client /\ built' = built
    BY <1>2 DEF OnModuleInit
  <2> QED BY <1>2, <2>1 DEF TypeOK
<1> QED BY <1>1, <1>2

\* What a call is answered, and when.
Answer == IF IsConfigured THEN "sent" ELSE "STORAGE_NOT_CONFIGURED"

LEMMA CallIsRecorded ==
    ASSUME TypeOK, Call
    PROVE  /\ calls' = calls \cup {<<phase, Answer>>}
           /\ <<phase, Answer>> \in
                  {"registering", "instantiating", "initialising", "running", "closing", "closed"}
                      \X {"sent", "STORAGE_NOT_CONFIGURED"}
           /\ Answer = "STORAGE_NOT_CONFIGURED" <=> client = 0
<1>1. calls' = calls \cup {<<phase, Answer>>}
  BY DEF Call, Answer
<1>2. phase \in {"registering", "instantiating", "initialising", "running", "closing", "closed"}
  BY DEF Call, TypeOK
<1>3. /\ Answer \in {"sent", "STORAGE_NOT_CONFIGURED"}
      /\ (Answer = "STORAGE_NOT_CONFIGURED" <=> client = 0)
  BY DEF Answer, IsConfigured, Null
<1> QED BY <1>1, <1>2, <1>3

LEMMA StepKeepsTypes == IInv /\ [Next]_vars => TypeOK'
<1> SUFFICES ASSUME IInv, [Next]_vars PROVE TypeOK'
  OBVIOUS
<1> USE DEF IInv
<1>0. Tokens' = Tokens /\ (TypeOK => way' = way /\ given' = given)
  BY DEF Next, vars, clients, ForRoot, ForRootAsync, MakeOptions, MakeUserToken, MakeRawClient,
         Make, Instantiated, OnModuleInit, Initialised, ConsumerFails, Call, Close,
         OnApplicationShutdown, Tokens
<1>1. CASE ForRoot
  BY <1>0, <1>1 DEF ForRoot, TypeOK, clients, Fails, Tokens, UserTokens, UserValues
<1>2. CASE ForRootAsync
  BY <1>0, <1>2 DEF ForRootAsync, TypeOK, clients, Fails
<1>3. CASE MakeOptions
  BY <1>0, <1>3 DEF MakeOptions, Ready, TypeOK, clients, Fails
<1>4. CASE \E token \in UserTokens : MakeUserToken(token)
  BY <1>0, <1>4 DEF MakeUserToken, Ready, TypeOK, clients, UserValues, UserTokens
<1>5. CASE MakeRawClient
  BY <1>0, <1>5, RawClientFound DEF MakeRawClient, Ready, TypeOK
<1>6. CASE \E token \in CoreProviders \cup {"FACTORY"} : Make(token)
  BY <1>0, <1>6 DEF Make, Ready, TypeOK, clients
<1>7. CASE Instantiated \/ Initialised \/ Close
  BY <1>0, <1>7 DEF Instantiated, Initialised, Close, TypeOK, clients
<1>8. CASE OnModuleInit
  BY <1>0, <1>8, HookFindsOrBuilds DEF OnModuleInit, TypeOK
<1>9. CASE ConsumerFails
  BY <1>0, <1>9 DEF ConsumerFails, Fails, TypeOK, clients
<1>10. CASE Call
  BY <1>0, <1>10, CallIsRecorded DEF Call, TypeOK, clients
<1>11. CASE OnApplicationShutdown
  BY <1>0, <1>11 DEF OnApplicationShutdown, TypeOK, Null
<1>12. CASE UNCHANGED vars
  BY <1>0, <1>12 DEF vars, clients, TypeOK
<1> QED
  BY <1>1, <1>2, <1>3, <1>4, <1>5, <1>6, <1>7, <1>8, <1>9, <1>10, <1>11, <1>12 DEF Next

(* From the second step of the boot on, nothing is forgotten of what there *)
(* is: tokens are only added, and the options only set once.               *)
LEMMA StepKeepsOptions == IInv /\ [Next]_vars => OptionsKnown' /\ given' = given
<1> SUFFICES ASSUME IInv, [Next]_vars PROVE OptionsKnown' /\ given' = given
  OBVIOUS
<1> USE DEF IInv
<1>1. CASE ForRoot
  BY <1>1 DEF ForRoot, OptionsKnown, Fails, UserTokens
<1>2. CASE MakeOptions
  BY <1>2 DEF MakeOptions, Ready, OptionsKnown, Fails
<1>3. CASE \E token \in UserTokens : MakeUserToken(token)
  BY <1>3 DEF MakeUserToken, OptionsKnown, UserTokens
<1>4. CASE \E token \in CoreProviders \cup {"FACTORY"} : Make(token)
  BY <1>4 DEF Make, OptionsKnown, CoreProviders
<1>5. CASE MakeRawClient
  BY <1>5 DEF MakeRawClient, OptionsKnown
<1>6. CASE ForRootAsync \/ Instantiated \/ OnModuleInit \/ Initialised \/ ConsumerFails \/ Call
          \/ Close \/ OnApplicationShutdown \/ UNCHANGED vars
  BY <1>6 DEF ForRootAsync, Instantiated, OnModuleInit, Initialised, ConsumerFails, Call, Close,
              OnApplicationShutdown, vars, OptionsKnown
<1> QED BY <1>1, <1>2, <1>3, <1>4, <1>5, <1>6 DEF Next

LEMMA StepKeepsOrder == IInv /\ [Next]_vars => InOrder'
<1> SUFFICES ASSUME IInv, [Next]_vars PROVE InOrder'
  OBVIOUS
<1> USE DEF IInv
<1>1. CASE ForRoot
  BY <1>1 DEF ForRoot, InOrder, Fails, UserTokens
<1>2. CASE MakeOptions
  BY <1>2 DEF MakeOptions, Ready, InOrder, Fails
<1>3. CASE \E token \in UserTokens : MakeUserToken(token)
  BY <1>3 DEF MakeUserToken, Ready, InOrder, UserTokens
<1>4. CASE \E token \in CoreProviders \cup {"FACTORY"} : Make(token)
  <2>1. PICK token \in CoreProviders \cup {"FACTORY"} : Make(token)
    BY <1>4
  <2>2. /\ made' = made \cup {token} /\ phase = "instantiating" /\ phase' = phase
        /\ token # "S3_CLIENT"
        /\ Needs(token) \subseteq made
    BY <2>1 DEF Make, Ready
  <2>3. token \in {"S3ClientProvider", "StorageService"} => "OPTIONS" \in made
    BY <2>2, WhatIsNeeded
  <2> QED BY <2>2, <2>3 DEF InOrder
<1>5. CASE MakeRawClient
  BY <1>5, WhatIsNeeded DEF MakeRawClient, Ready, InOrder
<1>6. CASE Instantiated
  BY <1>6 DEF Instantiated, InOrder, Tokens, CoreProviders
<1>7. CASE ForRootAsync \/ OnModuleInit \/ Initialised \/ ConsumerFails \/ Call \/ Close
          \/ OnApplicationShutdown \/ UNCHANGED vars
  BY <1>7 DEF ForRootAsync, OnModuleInit, Initialised, ConsumerFails, Call, Close, Fails,
              OnApplicationShutdown, vars, InOrder
<1> QED BY <1>1, <1>2, <1>3, <1>4, <1>5, <1>6, <1>7 DEF Next

LEMMA StepKeepsClient == IInv /\ [Next]_vars => OneClient'
<1> SUFFICES ASSUME IInv, [Next]_vars PROVE OneClient'
  OBVIOUS
<1> USE DEF IInv
<1>0. given' = given
  BY StepKeepsOptions
<1>1. CASE ForRoot
  BY <1>0, <1>1 DEF ForRoot, OneClient, InOrder, clients, Fails, UserTokens
<1>2. CASE MakeOptions
  BY <1>0, <1>2 DEF MakeOptions, Ready, OneClient, InOrder, clients, Fails
<1>3. CASE \E token \in UserTokens : MakeUserToken(token)
  BY <1>0, <1>3 DEF MakeUserToken, OneClient, clients, UserTokens
<1>4. CASE \E token \in CoreProviders \cup {"FACTORY"} : Make(token)
  BY <1>0, <1>4 DEF Make, OneClient, clients
<1>5. CASE MakeRawClient
  <2>1. /\ "S3_CLIENT" \notin made /\ "S3_CLIENT" \in made' /\ phase = "instantiating"
        /\ phase' = phase /\ "S3ClientProvider" \in made
    BY <1>5, WhatIsNeeded DEF MakeRawClient, Ready
  <2>2. client = 0 /\ built = 0 /\ resolved.hasCredentials = given.credentials
    BY <2>1, CredentialsKnown DEF OneClient, InOrder
  <2>3. CASE given.credentials
    <3>1. client' = 1 /\ built' = 1 /\ raw' = 1
      BY <1>5, <2>2, <2>3, RawClientFound, ResolveClientBuilds
    <3> QED BY <1>0, <2>1, <2>3, <3>1 DEF OneClient
  <2>4. CASE ~given.credentials
    <3>1. client' = 0 /\ built' = 0 /\ raw' = 0
      BY <1>5, <2>2, <2>4, RawClientFound
    <3>2. ~(built' = 1) /\ ~given'.credentials
      BY <1>0, <2>4, <3>1
    <3> QED BY <2>1, <3>1, <3>2 DEF OneClient
  <2> QED BY <2>3, <2>4
<1>6. CASE OnModuleInit
  <2>1. /\ phase = "initialising" /\ phase' = phase /\ made' = made /\ raw' = raw
        /\ "S3_CLIENT" \in made /\ destroyed' = destroyed
    BY <1>6 DEF OnModuleInit, InOrder
  <2>2. resolved.hasCredentials = given.credentials
    BY <2>1, CredentialsKnown DEF InOrder
  <2>3. client' = client /\ built' = built
    <3>1. CASE given.credentials
      <4>1. client # 0
        BY <2>1, <3>1 DEF OneClient
      <4>2. ResolveClient
        BY <1>6, <2>2, <3>1, HookFindsOrBuilds
      <4> QED BY <4>1, <4>2, ResolveClientBuilds
    <3>2. CASE ~given.credentials
      BY <1>6, <2>2, <3>2, HookFindsOrBuilds
    <3> QED BY <3>1, <3>2
  <2> QED BY <1>0, <2>1, <2>3 DEF OneClient
<1>7. CASE OnApplicationShutdown
  <2>1. /\ client = built /\ built \in {0, 1} /\ client' = 0 /\ built' = built /\ raw' = raw
        /\ made' = made /\ destroyed' = destroyed \cup ({built} \ {0})
    BY <1>7 DEF OnApplicationShutdown, OneClient, Null
  <2>2. 1..built \subseteq {built} \ {0}
    BY <2>1
  <2>3. "S3_CLIENT" \in made
    BY <1>7 DEF OnApplicationShutdown, InOrder
  <2>4. (built' = 1 <=> given'.credentials) /\ raw' = built'
    BY <1>0, <2>1, <2>3 DEF OneClient
  <2>5. phase' = "closed" /\ 1..built' \subseteq destroyed'
    BY <1>7, <2>1, <2>2 DEF OnApplicationShutdown
  <2> QED BY <2>1, <2>3, <2>4, <2>5 DEF OneClient
<1>8. CASE ForRootAsync \/ Instantiated \/ Initialised \/ Close
  BY <1>0, <1>8 DEF ForRootAsync, Instantiated, Initialised, Close, Fails, clients, OneClient
<1>9. CASE ConsumerFails \/ Call \/ UNCHANGED vars
  BY <1>0, <1>9 DEF ConsumerFails, Call, Fails, clients, vars, OneClient
<1> QED BY <1>1, <1>2, <1>3, <1>4, <1>5, <1>6, <1>7, <1>8, <1>9 DEF Next

LEMMA StepKeepsCalls == IInv /\ [Next]_vars => CallsAnswered'
<1> SUFFICES ASSUME IInv, [Next]_vars PROVE CallsAnswered'
  OBVIOUS
<1> USE DEF IInv
<1>0. given' = given /\ made \subseteq made'
  <2>1. made \subseteq made'
    <3>1. CASE ForRoot
      BY <3>1 DEF ForRoot, InOrder
    <3>2. CASE MakeOptions
      BY <3>2 DEF MakeOptions
    <3>3. ForRoot \/ MakeOptions \/ made' = made \/ \E token : made' = made \cup {token}
      BY DEF Next, vars, ForRootAsync, MakeUserToken, MakeRawClient, Make, Instantiated,
             OnModuleInit, Initialised, ConsumerFails, Call, Close, OnApplicationShutdown
    <3> QED BY <3>1, <3>2, <3>3
  <2> QED BY <2>1, StepKeepsOptions
<1>1. CASE calls' = calls
  BY <1>0, <1>1 DEF CallsAnswered
<1>2. CASE Call
  <2>1. calls' = calls \cup {<<phase, Answer>>}
    BY <1>2, CallIsRecorded
  <2>2. "OPTIONS" \in made'
    BY <1>0, <1>2 DEF Call, InOrder
  <2>3. phase \in {"initialising", "running"} =>
            (Answer = "STORAGE_NOT_CONFIGURED" <=> ~given.credentials)
    BY <1>2, CallIsRecorded DEF OneClient, InOrder
  <2> QED BY <1>0, <2>1, <2>2, <2>3 DEF CallsAnswered
<1>3. Call \/ calls' = calls
  BY DEF Next, vars, ForRoot, ForRootAsync, MakeOptions, MakeUserToken, MakeRawClient, Make,
         Instantiated, OnModuleInit, Initialised, ConsumerFails, Close, OnApplicationShutdown
<1> QED BY <1>1, <1>2, <1>3
-----------------------------------------------------------------------------
THEOREM Inductive == Spec => []IInv
<1>1. Init => IInv
  BY Initially
<1>2. IInv /\ [Next]_vars => IInv'
  BY StepKeepsTypes, StepKeepsOptions, StepKeepsOrder, StepKeepsClient, StepKeepsCalls DEF IInv
<1> QED BY <1>1, <1>2, PTL DEF Spec

(* Every variable of the boot stays well formed, whatever fails.           *)
THEOREM TypeCorrect == Spec => []TypeOK
<1>1. IInv => TypeOK
  BY DEF IInv
<1> QED BY <1>1, Inductive, PTL

(* From the first hook on, a call is refused as not configured exactly     *)
(* without credentials, whatever order the injector and the hooks take:    *)
(* getClientOrNull(), onModuleInit().                                      *)
THEOREM HooksAreServed == Spec => []HooksFindTheClient
<1>1. IInv => HooksFindTheClient
  <2> SUFFICES ASSUME IInv PROVE HooksFindTheClient
    OBVIOUS
  <2> USE DEF IInv
  <2>1. calls # {} \/ phase \in {"initialising", "running"} =>
            resolved.hasCredentials = given.credentials
    BY CredentialsKnown DEF CallsAnswered, InOrder
  <2>2. \A c \in calls : c[1] \in {"initialising", "running"} =>
            (c[2] = "STORAGE_NOT_CONFIGURED" <=> ~resolved.hasCredentials)
    BY <2>1 DEF CallsAnswered
  <2>3. phase \in {"initialising", "running"} =>
            raw = client /\ (client = Null <=> ~resolved.hasCredentials)
    BY <2>1 DEF OneClient, InOrder, Null
  <2> QED BY <2>2, <2>3 DEF HooksFindTheClient
<1> QED BY <1>1, Inductive, PTL

(* One client at most, for options found valid, and none left after the    *)
(* shutdown hook: resolveClient(), onApplicationShutdown().                *)
THEOREM ClientsAreReleased == Spec => []ClientsReleased
<1>1. IInv => ClientsReleased
  BY DEF IInv, ClientsReleased, OneClient, InOrder, OptionsKnown
<1> QED BY <1>1, Inductive, PTL
-----------------------------------------------------------------------------
(* The limits and the addresses of options that were accepted.             *)

\* A set of positions has a last one.
LEMMA LastPosition ==
    ASSUME NEW n \in Nat, NEW U \in SUBSET (1..n), U # {}
    PROVE  \E i \in U : \A j \in U : j <= i
<1> DEFINE V == {k \in 0..n : n - k \in U}
           R == OpToRel(<, Nat)
<1>1. V \subseteq Nat /\ V # {}
  <2>1. PICK u \in U : u \in 1..n
    OBVIOUS
  <2>2. n - u \in 0..n /\ n - (n - u) = u
    BY <2>1
  <2>3. n - u \in V
    BY <2>1, <2>2
  <2>4. V \subseteq Nat
    OBVIOUS
  <2> QED BY <2>3, <2>4
<1>2. IsWellFoundedOn(R, Nat)
  BY NatLessThanWellFounded
<1>3. \A x, y \in Nat : x < y => <<x, y>> \in R
  BY DEF OpToRel
<1> HIDE DEF V, R
<1>4. PICK v \in V : \A w \in V : <<w, v>> \notin R
  BY <1>1, <1>2, WFMin
<1>5. v \in 0..n /\ n - v \in U
  BY <1>4 DEF V
<1>6. ASSUME NEW j \in U, j > n - v PROVE FALSE
  <2>1. j \in 1..n
    OBVIOUS
  <2>2. n - j \in 0..n /\ n - (n - j) = j /\ n - j < v
    BY <1>5, <1>6, <2>1
  <2>3. n - j \in V
    BY <2>2 DEF V
  <2> QED BY <1>1, <1>3, <1>4, <2>2, <2>3
<1> QED BY <1>5, <1>6

\* The segments of a path that are not empty, and the last of them.
Filled(path) == {i \in DOMAIN path : path[i] # Empty}
LastOf(last) == IF last = {} THEN 0 ELSE CHOOSE i \in last : \A j \in last : j <= i

LEMMA LastFilled ==
    ASSUME NEW n \in Nat, NEW last \in SUBSET (1..n)
    PROVE  LastOf(last) \in 0..n /\ \A i \in 1..n : i > LastOf(last) => i \notin last
<1> DEFINE m == LastOf(last)
<1>1. CASE last = {}
  <2>1. m = 0
    BY <1>1 DEF LastOf
  <2> QED BY <1>1, <2>1
<1>2. CASE last # {}
  <2>1. \E i \in last : \A j \in last : j <= i
    BY <1>2, LastPosition
  <2>2. m \in last /\ \A j \in last : j <= m
    BY <1>2, <2>1 DEF LastOf
  <2> HIDE DEF m
  <2>3. m \in 1..n
    BY <2>2
  <2>4. ASSUME NEW i \in 1..n, i > m PROVE i \notin last
    BY <2>2, <2>3, <2>4
  <2> QED BY <2>3, <2>4 DEF m
<1> QED BY <1>1, <1>2

\* Trimming takes off trailing empty segments, and no others.
LEMMA Trimmed ==
    ASSUME NEW url \in Url
    PROVE  LET t == TrimTrailingSlashes(url)
           IN  /\ t.host = url.host /\ t.path \in Seq(Labels)
               /\ Len(t.path) <= Len(url.path)
               /\ \A i \in 1..Len(t.path) : t.path[i] = url.path[i]
               /\ \A i \in 1..Len(url.path) : i > Len(t.path) => i \notin Filled(url.path)
<1> DEFINE path == url.path
           m == LastOf(Filled(path))
<1>1. path \in Seq(Labels) /\ Len(path) \in Nat /\ DOMAIN path = 1..Len(path)
  BY LenProperties DEF Url
<1>2. m \in 0..Len(path) /\ \A i \in 1..Len(path) : i > m => i \notin Filled(path)
  <2>1. Filled(path) \in SUBSET (1..Len(path))
    BY <1>1, Zenon DEF Filled
  <2> QED BY <1>1, <2>1, LastFilled
<1>3. TrimTrailingSlashes(url) = [url EXCEPT !.path = SubSeq(url.path, 1, m)]
  BY Zenon DEF TrimTrailingSlashes, LastOf, Filled
<1> HIDE DEF m
<1>4. /\ TrimTrailingSlashes(url).path = SubSeq(path, 1, m)
      /\ TrimTrailingSlashes(url).host = url.host
  BY <1>3 DEF Url
<1> HIDE DEF path
<1>5. /\ SubSeq(path, 1, m) \in Seq(Labels) /\ Len(SubSeq(path, 1, m)) = m
      /\ \A i \in 1..m : SubSeq(path, 1, m)[i] = path[i]
  <2>1. \A i \in 1..m : path[i] \in Labels
    BY <1>1, <1>2, ElementOfSeq
  <2>2. m \in Nat
    BY <1>1, <1>2
  <2>3. /\ SubSeq(path, 1, m) \in Seq(Labels)
        /\ Len(SubSeq(path, 1, m)) = (IF 1 <= m THEN m - 1 + 1 ELSE 0)
        /\ \A i \in 1..(m - 1 + 1) : SubSeq(path, 1, m)[i] = path[1 + i - 1]
    BY <2>1, <2>2, SubSeqProperties
  <2> QED BY <2>2, <2>3
<1>6. m <= Len(path)
  BY <1>1, <1>2
<1> QED BY <1>1, <1>2, <1>4, <1>5, <1>6 DEF path

\* Where a path names the bucket.
BucketAt(path, bucket) == {i \in DOMAIN path : path[i] = bucket}

\* A path that is followed by something else, and by the bucket before it.
LEMMA PathFollowed ==
    ASSUME NEW path \in Seq(Labels), NEW bucket, NEW k, k # bucket
    PROVE  /\ BucketAt(path \o <<>> \o <<k>>, bucket) = BucketAt(path, bucket)
           /\ BucketAt(path, bucket) = {} =>
                  BucketAt(path \o <<bucket>> \o <<k>>, bucket) = {Len(path) + 1}
<1> DEFINE S == Labels \cup {k, bucket}
           n == Len(path)
           one == path \o <<>> \o <<k>>
           two == path \o <<bucket>> \o <<k>>
<1>1. path \in Seq(S) /\ n \in Nat /\ DOMAIN path = 1..n
  <2>1. n \in Nat /\ DOMAIN path = 1..n /\ path \in [1..n -> Labels]
    BY LenProperties
  <2>2. path \in [1..n -> S]
    BY <2>1
  <2> HIDE DEF S, n
  <2> QED BY <2>1, <2>2, SeqDef
<1>2. k \in S /\ bucket \in S
  OBVIOUS
<1> HIDE DEF S
<1>3. /\ DOMAIN one = 1..(n + 1)
      /\ \A i \in 1..n : one[i] = path[i]
      /\ one[n + 1] = k
  <2>1. path \o <<>> = path
    BY <1>1
  <2>2. one = Append(path, k)
    BY <1>1, <1>2, <2>1
  <2> QED BY <1>1, <1>2, <2>2, AppendProperties
<1>4. /\ DOMAIN two = 1..(n + 2)
      /\ \A i \in 1..n : two[i] = path[i]
      /\ two[n + 1] = bucket /\ two[n + 2] = k
  <2> DEFINE mid == Append(path, bucket)
  <2>1. /\ mid \in Seq(S) /\ Len(mid) = n + 1
        /\ \A i \in 1..n : mid[i] = path[i]
        /\ mid[n + 1] = bucket
    BY <1>1, <1>2, AppendProperties
  <2>2. two = Append(mid, k)
    BY <1>1, <1>2
  <2> HIDE DEF mid, two
  <2>3. /\ two \in Seq(S) /\ Len(two) = Len(mid) + 1
        /\ \A i \in 1..Len(mid) : two[i] = mid[i]
        /\ two[Len(mid) + 1] = k
    BY <1>2, <2>1, <2>2, AppendProperties
  <2>4. DOMAIN two = 1..Len(two)
    BY <2>3, LenProperties
  <2> QED BY <1>1, <2>1, <2>3, <2>4
<1> HIDE DEF one, two, n
<1>5. BucketAt(one, bucket) = BucketAt(path, bucket)
  BY <1>1, <1>3 DEF BucketAt
<1>6. ASSUME BucketAt(path, bucket) = {} PROVE BucketAt(two, bucket) = {n + 1}
  <2>1. ASSUME NEW i \in DOMAIN two PROVE two[i] = bucket <=> i = n + 1
    <3>1. i \in 1..n \/ i = n + 1 \/ i = n + 2
      BY <1>1, <1>4
    <3>2. CASE i \in 1..n
      BY <1>1, <1>4, <1>6, <3>2 DEF BucketAt
    <3> QED BY <1>1, <1>4, <3>1, <3>2
  <2>2. n + 1 \in DOMAIN two
    BY <1>1, <1>4
  <2> QED BY <2>1, <2>2 DEF BucketAt
<1> QED BY <1>5, <1>6 DEF one, two, n

\* How often a path names the bucket is a number, and 0 where it does not.
LEMMA PathCounted ==
    ASSUME NEW path \in Seq(Labels), NEW bucket
    PROVE  /\ Cardinality(BucketAt(path, bucket)) \in Nat
           /\ Cardinality(BucketAt(path, bucket)) = 0 <=> BucketAt(path, bucket) = {}
<1>1. DOMAIN path = 1..Len(path) /\ Len(path) \in Nat
  BY LenProperties
<1>2. BucketAt(path, bucket) \subseteq 1..Len(path)
  BY <1>1 DEF BucketAt
<1>3. IsFiniteSet(1..Len(path))
  BY <1>1, FS_Interval
<1>4. IsFiniteSet(BucketAt(path, bucket))
  BY <1>2, <1>3, FS_Subset
<1> QED BY <1>4, FS_CardinalityType, FS_EmptySet

\* A bucket has one label or several.
LEMMA LongerThanOne ==
    ASSUME NEW bucket \in Labels \ {<<>>}
    PROVE  Len(bucket) > 1 <=> Len(bucket) # 1
<1> DEFINE n == Len(bucket)
<1>1. n \in Nat \ {0}
  BY LenProperties, EmptySeq DEF Labels
<1> HIDE DEF n
<1>2. n > 1 <=> n # 1
  BY <1>1
<1> QED BY <1>2 DEF n

\* The first label of a host is a bucket of one label that leads it, and never
\* a bucket of several.
LEMMA LeadingLabel ==
    ASSUME NEW host \in Labels \ {<<>>}, NEW bucket \in Labels \ {<<>>}
    PROVE  <<host[1]>> = bucket <=> Len(bucket) = 1 /\ Leads(bucket, host)
<1>1. /\ Len(bucket) \in Nat \ {0} /\ DOMAIN bucket = 1..Len(bucket)
      /\ Len(host) \in Nat \ {0} /\ DOMAIN host = 1..Len(host)
  BY LenProperties, EmptySeq DEF Labels
<1>2. 1 \in DOMAIN host
  BY <1>1
<1>3. ASSUME <<host[1]>> = bucket PROVE Len(bucket) = 1 /\ Leads(bucket, host)
  <2>1. Len(bucket) = 1 /\ bucket[1] = host[1]
    BY <1>3
  <2>2. DOMAIN bucket = {1}
    BY <1>1, <2>1
  <2> QED BY <1>2, <2>1, <2>2 DEF Leads
<1>4. ASSUME Len(bucket) = 1, Leads(bucket, host) PROVE <<host[1]>> = bucket
  <2>1. host[1] = bucket[1]
    BY <1>1, <1>4 DEF Leads
  <2>2. bucket \in Seq(STRING)
    BY DEF Labels
  <2> QED BY <1>4, <2>1, <2>2
<1> QED BY <1>3, <1>4

\* The public URL of a key names the bucket once, in a base that names it once
\* at most: buildPublicUrl() adds it where it is missing, or led by a host it
\* does not know it in.
LEMMA NamedOnce ==
    ASSUME NEW url \in Url, NEW bucket \in Labels \ {<<>>, Empty, Key},
           NamesBucket(url, bucket) <= 1,
           NEW r, r.base = TrimTrailingSlashes(url), r.bucket = bucket
    PROVE  LET v == PublicUrl(r, <<Key>>)
           IN  NamesBucket(v, bucket) =
                   IF Len(bucket) > 1 /\ Leads(bucket, v.host) THEN 2 ELSE 1
<1> DEFINE t == TrimTrailingSlashes(url)
           v == PublicUrl(r, <<Key>>)
           host == IF Leads(bucket, url.host) THEN 1 ELSE 0
           At(path) == BucketAt(path, bucket)
<1>1. bucket # Empty /\ Key # bucket
  OBVIOUS
<1>2. /\ t.host = url.host /\ t.path \in Seq(Labels) /\ url.path \in Seq(Labels)
      /\ Len(t.path) <= Len(url.path)
      /\ \A i \in 1..Len(t.path) : t.path[i] = url.path[i]
      /\ \A i \in 1..Len(url.path) : i > Len(t.path) => i \notin Filled(url.path)
  BY Trimmed DEF Url
<1>3. At(t.path) = At(url.path)
  <2>1. \A i \in DOMAIN url.path : url.path[i] = bucket => i \in Filled(url.path)
    BY <1>1, Zenon DEF Filled
  <2>2. /\ DOMAIN url.path = 1..Len(url.path) /\ Len(url.path) \in Nat
        /\ DOMAIN t.path = 1..Len(t.path) /\ Len(t.path) \in Nat
    BY <1>2, LenProperties
  <2> HIDE DEF t
  <2> QED BY <1>2, <2>1, <2>2 DEF BucketAt
<1>4. BaseCarriesBucket(t, bucket) <=>
          (Len(bucket) = 1 /\ Leads(bucket, url.host)) \/ At(url.path) # {}
  <2>1. BaseCarriesBucket(t, bucket) <=> <<t.host[1]>> = bucket \/ At(t.path) # {}
    BY Zenon DEF BaseCarriesBucket, BucketAt
  <2>2. <<url.host[1]>> = bucket <=> Len(bucket) = 1 /\ Leads(bucket, url.host)
    BY LeadingLabel DEF Url
  <2> QED BY <1>2, <1>3, <2>1, <2>2, Zenon
<1>5. /\ v.host = url.host
      /\ v.path = t.path \o (IF BaseCarriesBucket(t, bucket) THEN <<>> ELSE <<bucket>>) \o <<Key>>
  <2>1. t = [host |-> t.host, path |-> t.path]
    BY DEF TrimTrailingSlashes, Url
  <2>2. v = [t EXCEPT !.path = t.path \o (IF BaseCarriesBucket(t, bucket) THEN <<>> ELSE <<bucket>>)
                                 \o <<Key>>]
    BY Zenon DEF PublicUrl
  <2> HIDE DEF t
  <2> QED BY <1>2, <2>1, <2>2
<1>6. /\ NamesBucket(url, bucket) = Cardinality(At(url.path)) + host
      /\ NamesBucket(v, bucket) = Cardinality(At(v.path)) + host
  BY <1>5 DEF NamesBucket, BucketAt
<1>7. Len(bucket) > 1 <=> Len(bucket) # 1
  BY LongerThanOne
<1>8. /\ Cardinality(At(url.path)) \in Nat
      /\ Cardinality(At(url.path)) = 0 <=> At(url.path) = {}
  BY <1>2, PathCounted
<1> HIDE DEF v, t
<1>9. CASE BaseCarriesBucket(t, bucket)
  <2>1. At(v.path) = At(url.path)
    <3>1. At(t.path \o <<>> \o <<Key>>) = At(t.path)
      BY <1>1, <1>2, PathFollowed
    <3>2. v.path = t.path \o <<>> \o <<Key>>
      BY <1>5, <1>9
    <3> QED BY <1>3, <3>1, <3>2, Zenon
  <2>2. NamesBucket(v, bucket) = 1
    <3>1. Leads(bucket, url.host) \/ Cardinality(At(url.path)) # 0
      BY <1>4, <1>8, <1>9, Zenon
    <3>2. NamesBucket(v, bucket) = Cardinality(At(url.path)) + host
      BY <1>6, <2>1, Zenon
    <3> QED BY <1>6, <1>8, <3>1, <3>2
  <2>3. ASSUME Len(bucket) > 1, Leads(bucket, v.host) PROVE FALSE
    <3>1. Len(bucket) # 1
      BY <1>7, <2>3, Zenon
    <3>2. host = 1 /\ Cardinality(At(url.path)) # 0
      BY <1>4, <1>5, <1>8, <1>9, <2>3, <3>1, Zenon
    <3>3. Cardinality(At(url.path)) + 1 <= 1
      BY <1>6, <3>2, Zenon
    <3> QED BY <1>8, <3>2, <3>3
  <2> QED BY <2>2, <2>3, Zenon DEF v
<1>10. CASE ~BaseCarriesBucket(t, bucket)
  <2>1. v.path = t.path \o <<bucket>> \o <<Key>> /\ At(t.path) = {}
    BY <1>3, <1>4, <1>5, <1>10, Zenon
  <2>2. At(v.path) = {Len(t.path) + 1}
    <3>1. At(t.path \o <<bucket>> \o <<Key>>) = {Len(t.path) + 1}
      BY <1>1, <1>2, <2>1, PathFollowed
    <3> QED BY <2>1, <3>1, Zenon
  <2>3. Cardinality(At(v.path)) = 1
    BY <2>2, FS_Singleton
  <2>4. NamesBucket(v, bucket) = 1 + host
    BY <1>6, <2>3
  <2>5. ASSUME Leads(bucket, v.host) PROVE Len(bucket) > 1
    <3>1. Len(bucket) # 1
      BY <1>4, <1>5, <1>10, <2>5, Zenon
    <3> QED BY <1>7, <3>1, Zenon
  <2> QED BY <1>5, <2>4, <2>5 DEF v
<1> QED BY <1>9, <1>10

\* The host alone names the bucket once at most.
LEMMA HostNamesOnce ==
    ASSUME NEW labels, NEW bucket
    PROVE  NamesBucket(Host(labels), bucket) <= 1
<1>1. BucketAt(Host(labels).path, bucket) = {}
  BY DEF BucketAt, Host
<1>2. Cardinality({}) = 0
  BY FS_EmptySet
<1> QED BY <1>1, <1>2 DEF NamesBucket, BucketAt

\* And so does the address minio() makes of an endpoint that does not.
LEMMA EndpointNamesOnce ==
    ASSUME NEW bucket, NamesBucket(Endpoint, bucket) = 0
    PROVE  NamesBucket([host |-> Endpoint.host,
                        path |-> Append(TrimTrailingSlashes(Endpoint).path, bucket)], bucket) <= 1
<1> DEFINE t == TrimTrailingSlashes(Endpoint)
           v == [host |-> Endpoint.host, path |-> Append(t.path, bucket)]
<1>1. /\ Endpoint \in Url /\ t.path \in Seq(Labels)
      /\ Len(t.path) <= Len(Endpoint.path)
      /\ \A i \in 1..Len(t.path) : t.path[i] = Endpoint.path[i]
  BY OptionsAssumption, Trimmed
<1> HIDE DEF t
<1>2. /\ DOMAIN Endpoint.path = 1..Len(Endpoint.path) /\ Len(Endpoint.path) \in Nat
      /\ DOMAIN t.path = 1..Len(t.path) /\ Len(t.path) \in Nat
  BY <1>1, LenProperties DEF Url
<1>3. BucketAt(Endpoint.path, bucket) = {} /\ ~Leads(bucket, Endpoint.host)
  <2>1. /\ Cardinality(BucketAt(Endpoint.path, bucket)) \in Nat
        /\ Cardinality(BucketAt(Endpoint.path, bucket)) = 0
               => BucketAt(Endpoint.path, bucket) = {}
    BY <1>1, PathCounted DEF Url
  <2>2. Cardinality(BucketAt(Endpoint.path, bucket))
            + (IF Leads(bucket, Endpoint.host) THEN 1 ELSE 0) = 0
    BY DEF NamesBucket, BucketAt
  <2> QED BY <2>1, <2>2
<1>4. \A i \in 1..Len(t.path) : t.path[i] # bucket
  BY <1>1, <1>2, <1>3 DEF BucketAt
<1>5. BucketAt(Append(t.path, bucket), bucket) = {Len(t.path) + 1}
  <2> DEFINE S == Labels \cup {bucket}
             two == Append(t.path, bucket)
  <2>1. t.path \in Seq(S)
    <3>1. t.path \in [1..Len(t.path) -> Labels]
      BY <1>1, LenProperties
    <3>2. t.path \in [1..Len(t.path) -> S]
      BY <3>1
    <3> QED BY <1>2, <3>2, SeqDef
  <2>2. bucket \in S
    OBVIOUS
  <2> HIDE DEF S
  <2>3. /\ two \in Seq(S) /\ Len(two) = Len(t.path) + 1
        /\ \A i \in 1..Len(t.path) : two[i] = t.path[i]
        /\ two[Len(t.path) + 1] = bucket
    BY <2>1, <2>2, AppendProperties
  <2> HIDE DEF two
  <2>4. DOMAIN two = 1..(Len(t.path) + 1)
    BY <2>3, LenProperties
  <2>5. ASSUME NEW i \in DOMAIN two PROVE two[i] = bucket <=> i = Len(t.path) + 1
    BY <1>2, <1>4, <2>3, <2>4
  <2>6. Len(t.path) + 1 \in DOMAIN two
    BY <1>2, <2>4
  <2>7. BucketAt(two, bucket) = {Len(t.path) + 1}
    BY <2>5, <2>6 DEF BucketAt
  <2> QED BY <2>7 DEF two
<1>6. Cardinality({Len(t.path) + 1}) = 1
  BY FS_Singleton
<1>7. NamesBucket(v, bucket) = Cardinality(BucketAt(Append(t.path, bucket), bucket))
                                 + (IF Leads(bucket, Endpoint.host) THEN 1 ELSE 0)
  BY DEF NamesBucket, BucketAt
<1>8. NamesBucket(v, bucket) = 1
  BY <1>3, <1>5, <1>6, <1>7
<1> QED BY <1>8 DEF t

\* The base of public URLs that a recipe's options leave names the bucket once
\* at most.
LEMMA RecipeNamesOnce ==
    ASSUME NEW o \in Given, o.provider # ""
    PROVE  \E url \in Url : /\ NamesBucket(url, o.bucket) <= 1
                           /\ ApplyDefaults(o).base = TrimTrailingSlashes(url)
<1>1. /\ o.provider \in Providers /\ o.publicBaseUrl # Unset
      /\ <<o.endpoint, o.publicBaseUrl, o.cdnBaseUrl>> = Addresses(o.provider, o.bucket)
      /\ NamesBucket(Endpoint, o.bucket) = 0 /\ NamesBucket(CustomDomain, o.bucket) <= 1
  BY Zenon, RecipeAssumption
<1>2. o.publicBaseUrl \in Url /\ o.cdnBaseUrl \in Url \cup {Unset}
  BY <1>1, GivenAssumption DEF Options
<1> DEFINE url == IF o.cdnBaseUrl = Unset THEN o.publicBaseUrl ELSE o.cdnBaseUrl
           Once(u) == NamesBucket(u, o.bucket) <= 1
<1>3. url \in Url /\ ApplyDefaults(o).base = TrimTrailingSlashes(url)
  BY <1>1, <1>2 DEF ApplyDefaults, Or
<1>4. Once(o.publicBaseUrl) /\ (o.cdnBaseUrl = Unset \/ Once(o.cdnBaseUrl))
  <2>1. CASE o.provider = "awsS3"
    BY <1>1, <2>1, HostNamesOnce DEF Addresses
  <2>2. CASE o.provider = "digitalOceanSpaces"
    BY <1>1, <2>2, HostNamesOnce DEF Addresses
  <2>3. CASE o.provider = "cloudflareR2"
    BY <1>1, <2>3 DEF Addresses
  <2>4. CASE o.provider = "backblazeB2"
    BY <1>1, <2>4, HostNamesOnce DEF Addresses
  <2>5. CASE o.provider = "minio"
    BY <1>1, <2>5, EndpointNamesOnce DEF Addresses
  <2>6. CASE o.provider = "wasabi"
    BY <1>1, <2>6, HostNamesOnce DEF Addresses
  <2> QED BY <1>1, <2>1, <2>2, <2>3, <2>4, <2>5, <2>6 DEF Providers
<1> QED BY <1>3, <1>4

\* The limits that applyDefaults() makes of valid options, where they are not
\* NaN and the request timeout that the idle limit follows is no negative one.
LEMMA LimitsWork ==
    ASSUME NEW o \in Options, Valid(o)
    PROVE  LET r == ApplyDefaults(o)
           IN  /\ o.maxTtlSeconds # NaN => r.maxTtlSeconds \in 1..MaxTtl
               /\ o.partSizeBytes # NaN => r.partSizeBytes >= MinPartSize
               /\ o.uploadIdleTimeoutMs # Unset \/ o.requestTimeoutMs \in Nat \cup {Unset}
                     => r.uploadIdleTimeoutMs \in Nat
               /\ r.kms => r.kmsKeyId
<1>1. /\ MinPartSize \in Nat \ {0} /\ MaxTtl \in Nat \ {0} /\ Timeout \in Nat \ {0}
      /\ Unset \notin Int /\ NaN \notin Int /\ NaN # Unset
  BY OptionsAssumption
<1>2. /\ o.maxTtlSeconds \in Int \cup {NaN, Unset} /\ o.partSizeBytes \in Int \cup {NaN, Unset}
      /\ o.uploadIdleTimeoutMs \in Int \cup {NaN, Unset}
      /\ o.requestTimeoutMs \in Int \cup {NaN, Unset}
  BY DEF Options, Number
<1>3. ASSUME o.maxTtlSeconds # NaN PROVE ApplyDefaults(o).maxTtlSeconds \in 1..MaxTtl
  <2> DEFINE n == Or(o.maxTtlSeconds, MaxTtl)
  <2>1. n \in Int /\ n >= 1
    BY <1>1, <1>2, <1>3 DEF Or, Valid, Below
  <2>2. ApplyDefaults(o).maxTtlSeconds = Smaller(n, MaxTtl)
    BY DEF ApplyDefaults
  <2> HIDE DEF n
  <2> QED BY <1>1, <2>1, <2>2 DEF Smaller
<1>4. ASSUME o.partSizeBytes # NaN PROVE ApplyDefaults(o).partSizeBytes >= MinPartSize
  BY <1>1, <1>2, <1>4 DEF ApplyDefaults, Or, Valid, Below
<1>5. ASSUME o.uploadIdleTimeoutMs # Unset \/ o.requestTimeoutMs \in Nat \cup {Unset}
      PROVE  ApplyDefaults(o).uploadIdleTimeoutMs \in Nat
  BY <1>1, <1>2, <1>5 DEF ApplyDefaults, Or, Valid
<1>6. ApplyDefaults(o).kms => ApplyDefaults(o).kmsKeyId
  BY DEF ApplyDefaults, Valid
<1> QED BY <1>3, <1>4, <1>5, <1>6

\* The consumer's validators and scanner are wired as their tokens are made.
Wired ==
    /\ phase = "registering" => wired = {}
    /\ wired \subseteq UserTokens
    /\ UserTokens \cap made # {} => "OPTIONS" \in made
    /\ wired = IF "OPTIONS" \in made THEN UserValues(given) \cap made ELSE {}
    /\ phase \in {"initialising", "running"} => UserTokens \subseteq made

\* They are those the options name.
LEMMA WiringKnown ==
    ASSUME TypeOK, OptionsKnown, "OPTIONS" \in made
    PROVE  UserValues(resolved) = UserValues(given)
<1>1. given \in Options
  BY GivenAssumption DEF TypeOK
<1>2. resolved.validators = given.validators /\ resolved.scanner = given.scanner
  BY DEF OptionsKnown, ApplyDefaults
<1> QED BY <1>2 DEF UserValues

\* Each step of the boot keeps it so.
LEMMA StepKeepsWiring == IInv /\ Wired /\ [Next]_vars => Wired'
<1> SUFFICES ASSUME IInv, Wired, [Next]_vars PROVE Wired'
  OBVIOUS
<1>0. given' = given /\ (UserValues(given))' = UserValues(given)
  BY StepKeepsOptions DEF UserValues
<1>1. CASE ForRoot
  <2>1. CASE Valid(given)
    <3>1. /\ phase' = "instantiating" /\ made' = {"OPTIONS"} \cup UserTokens
          /\ resolved' = ApplyDefaults(given) /\ wired' = UserValues(resolved')
      BY <1>1, <2>1 DEF ForRoot
    <3>2. wired' = UserValues(given)
      BY <3>1 DEF UserValues, ApplyDefaults
    <3>3. UserValues(given) \subseteq UserTokens
      BY DEF UserValues, UserTokens
    <3> QED BY <1>0, <3>1, <3>2, <3>3 DEF Wired
  <2>2. CASE ~Valid(given)
    BY <1>0, <1>1, <2>2 DEF ForRoot, Fails, Wired
  <2> QED BY <2>1, <2>2
<1>2. CASE MakeOptions
  <2>1. CASE Valid(given)
    <3>1. /\ made' = made \cup {"OPTIONS"} /\ "OPTIONS" \notin made /\ phase' = phase
          /\ wired' = wired /\ phase = "instantiating"
      BY <1>2, <2>1 DEF MakeOptions, Ready
    <3>2. UserTokens \cap made' = {} /\ UserValues(given) \subseteq UserTokens
      BY <3>1 DEF Wired, UserValues, UserTokens
    <3> QED BY <1>0, <3>1, <3>2 DEF Wired
  <2>2. CASE ~Valid(given)
    BY <1>0, <1>2, <2>2 DEF MakeOptions, Fails, Wired
  <2> QED BY <2>1, <2>2
<1>3. CASE \E token \in UserTokens : MakeUserToken(token)
  <2>1. PICK token \in UserTokens : MakeUserToken(token)
    BY <1>3
  <2>2. /\ made' = made \cup {token} /\ phase' = phase /\ phase = "instantiating"
        /\ wired' = wired \cup (UserValues(resolved) \cap {token})
        /\ Needs(token) \subseteq made
    BY <2>1 DEF MakeUserToken, Ready
  <2>3. Needs(token) = {"OPTIONS"}
    BY DEF Needs, UserTokens
  <2>4. UserValues(resolved) = UserValues(given)
    BY <2>2, <2>3, WiringKnown DEF IInv
  <2> QED BY <1>0, <2>2, <2>3, <2>4 DEF Wired
<1>4. CASE MakeRawClient \/ \E token \in CoreProviders \cup {"FACTORY"} : Make(token)
  <2>1. PICK token \in CoreProviders \cup {"FACTORY"} : made' = made \cup {token}
    BY <1>4 DEF MakeRawClient, Make, CoreProviders
  <2>2. wired' = wired /\ phase' = phase /\ phase = "instantiating"
    BY <1>4 DEF MakeRawClient, Make, Ready
  <2>3. token \notin UserTokens \cup {"OPTIONS"}
    BY DEF CoreProviders, UserTokens
  <2>4. UserValues(given) \subseteq UserTokens
    BY DEF UserValues, UserTokens
  <2> QED BY <1>0, <2>1, <2>2, <2>3, <2>4 DEF Wired
<1>5. CASE Instantiated
  <2>1. UserTokens \subseteq Tokens
    BY DEF Tokens
  <2> QED BY <1>0, <1>5, <2>1 DEF Instantiated, Wired
<1>6. CASE ForRootAsync \/ OnModuleInit \/ Initialised \/ ConsumerFails \/ Call \/ Close
          \/ OnApplicationShutdown \/ UNCHANGED vars
  <2>1. wired' = wired /\ made' = made
    BY <1>6 DEF ForRootAsync, OnModuleInit, Initialised, ConsumerFails, Call, Close,
                OnApplicationShutdown, vars
  <2>2. /\ phase' = "registering" => phase = "registering"
        /\ phase' \in {"initialising", "running"} => phase \in {"initialising", "running"}
    BY <1>6 DEF ForRootAsync, OnModuleInit, Initialised, ConsumerFails, Call, Close, Fails,
                OnApplicationShutdown, vars
  <2> QED BY <1>0, <2>1, <2>2 DEF Wired
<1> QED BY <1>1, <1>2, <1>3, <1>4, <1>5, <1>6 DEF Next

(* Options that were accepted work, whatever their values and however they *)
(* were given, but for the limits and the buckets OptionsWork names:       *)
(* validateOptions(), applyDefaults(), the recipes, buildPublicUrl().      *)
THEOREM AcceptedOptionsWork == Spec => []OptionsWork
<1>1. Init => Wired
  BY DEF Init, Wired, UserTokens
<1>2. Spec => []Wired
  BY <1>1, StepKeepsWiring, Inductive, PTL DEF Spec
<1>3. IInv /\ Wired => OptionsWork
  <2> SUFFICES ASSUME IInv, Wired, phase \in {"initialising", "running"} PROVE OptionsWork
    BY Zenon DEF OptionsWork
  <2>1. "OPTIONS" \in made /\ given \in Given
    BY DEF IInv, InOrder, TypeOK
  <2>2. resolved = ApplyDefaults(given) /\ Valid(given) /\ given \in Options
    BY <2>1, GivenAssumption DEF IInv, OptionsKnown
  <2>3. /\ given.maxTtlSeconds # NaN => resolved.maxTtlSeconds \in 1..MaxTtl
        /\ given.partSizeBytes # NaN => resolved.partSizeBytes >= MinPartSize
        /\ given.uploadIdleTimeoutMs # Unset \/ given.requestTimeoutMs \in Nat \cup {Unset}
              => resolved.uploadIdleTimeoutMs \in Nat
        /\ resolved.kms => resolved.kmsKeyId
    BY <2>2, LimitsWork
  <2>4. wired = UserValues(given)
    <3>1. UserValues(given) \subseteq UserTokens
      BY DEF UserValues, UserTokens
    <3> QED BY <2>1, <3>1 DEF Wired
  <2>5. ASSUME given.provider # ""
        PROVE  NamesBucket(UrlOfKey, given.bucket) =
                   IF Len(given.bucket) > 1 /\ Leads(given.bucket, UrlOfKey.host) THEN 2 ELSE 1
    <3>1. PICK url \in Url : /\ NamesBucket(url, given.bucket) <= 1
                             /\ resolved.base = TrimTrailingSlashes(url)
      BY <2>1, <2>2, <2>5, RecipeNamesOnce, Zenon
    <3>2. resolved.bucket = given.bucket
      BY <2>2 DEF ApplyDefaults
    <3>3. given.bucket \in Labels \ {<<>>, Empty, Key}
      <4>1. given.bucket \notin {Empty, Key}
        BY <2>1, <2>5, RecipeAssumption, Zenon
      <4>2. given.bucket \in Labels \ {<<>>}
        BY <2>2 DEF Options
      <4> QED BY <4>1, <4>2
    <3> QED BY <3>1, <3>2, <3>3, NamedOnce, Zenon DEF UrlOfKey
  <2>6. ASSUME given.provider # "", given.provider # "awsS3"
        PROVE  resolved.checksum = "WHEN_REQUIRED"
    <3>1. given.checksum = Recipe(given.provider, given.bucket, given.credentials).checksum
      BY <2>1, <2>6, RecipeAssumption, Zenon
    <3>2. given.checksum = "WHEN_REQUIRED"
      BY <2>6, <3>1, Zenon DEF Recipe
    <3>3. given.checksum # Unset
      BY <3>2, OptionsAssumption
    <3> QED BY <2>2, <3>2, <3>3 DEF ApplyDefaults, Or
  <2>7. given.provider \notin {"", "awsS3"} => resolved.checksum = "WHEN_REQUIRED"
    BY <2>6
  <2> QED BY <2>3, <2>4, <2>5, <2>7, Zenon DEF OptionsWork
<1> QED BY <1>2, <1>3, Inductive, PTL
=============================================================================
