----------------------------- MODULE ModuleBoot -----------------------------
(***************************************************************************)
(* src/server/bymax-storage.module.ts and providers/s3-client.provider.ts: *)
(* the module registered, its providers instantiated by the injector in    *)
(* any order their dependencies allow, the lifecycle hooks of the module   *)
(* and of its consumers, and a client that is built on first use.          *)
(*                                                                         *)
(* A consumer may call StorageService as soon as that is there: from the   *)
(* factory of one of its own providers, from a hook, or while serving.     *)
(***************************************************************************)
EXTENDS ModuleOptions, FiniteSets

CONSTANTS
    Given           \* what the module may be configured with

ASSUME GivenAssumption == Given \subseteq Options

\* How the options are given; forRootAsync() takes a set of descriptors.
Descriptors == SUBSET {"useFactory", "useClass", "useExisting"}
Sync == {"forRoot"}

\* Clients are numbered in the order they are built; 0 is none.
Null == 0

VARIABLES
    given,      \* the consumer's options
    way,        \* Sync for forRoot(); otherwise the descriptors
    phase,      \* of the application
    error,      \* why it did not start
    made,       \* tokens whose provider is instantiated
    resolved,   \* the value of BYMAX_STORAGE_OPTIONS
    client,     \* of S3ClientProvider
    built,      \* clients built so far
    destroyed,  \* of them, those that are destroyed
    raw,        \* the value of BYMAX_STORAGE_S3_CLIENT
    wired,      \* the tokens that have a validator or a scanner as their value
    hooked,     \* whose onModuleInit() has run
    calls       \* history: when StorageService was called, and with what result

vars == <<given, way, phase, error, made, resolved, client, built, destroyed, raw, wired, hooked, calls>>
clients == <<client, built, destroyed, raw>>

Init ==
    /\ given \in Given
    /\ way \in Descriptors \cup {Sync}
    /\ phase = "registering"
    /\ error = ""
    /\ made = {}
    /\ resolved = Unset
    /\ client = Null
    /\ built = 0
    /\ destroyed = {}
    /\ raw = Unset
    /\ wired = {}
    /\ hooked = {}
    /\ calls = {}
-----------------------------------------------------------------------------
\* buildCoreProviders() and the constructors: what each token needs first.
CoreProviders ==
    {"S3ClientProvider", "KeyResolverService", "IDEMPOTENCY_CACHE", "StorageService",
     "SignedUrlService", "BucketLifecycleService", "ValidationService", "FileScannerService",
     "S3_CLIENT"}

UserTokens == {"UPLOAD_VALIDATORS", "FILE_SCANNER"}

\* useFactory wins, then useClass, then useExisting.
FromFactoryClass == way # Sync /\ "useFactory" \notin way

Needs(token) ==
    CASE token = "FACTORY" -> {}
      [] token = "OPTIONS" -> IF FromFactoryClass THEN {"FACTORY"} ELSE {}
      [] token \in UserTokens \cup {"S3ClientProvider", "KeyResolverService"} -> {"OPTIONS"}
      [] token = "IDEMPOTENCY_CACHE" -> {}
      [] token = "S3_CLIENT" -> {"S3ClientProvider"}
      [] token = "ValidationService" -> {"OPTIONS", "UPLOAD_VALIDATORS"}
      [] token = "FileScannerService" -> {"OPTIONS", "FILE_SCANNER"}
      [] token = "StorageService" ->
           {"OPTIONS", "S3ClientProvider", "KeyResolverService", "IDEMPOTENCY_CACHE",
            "ValidationService", "FileScannerService"}
      [] token \in {"SignedUrlService", "BucketLifecycleService"} ->
           {"OPTIONS", "S3ClientProvider", "KeyResolverService"}

Tokens ==
    CoreProviders \cup UserTokens \cup {"OPTIONS"}
        \cup (IF way # Sync /\ way \cap {"useClass", "useExisting"} # {} THEN {"FACTORY"} ELSE {})

Fails(code) == phase' = "failed" /\ error' = code

\* The values of the validators' and the scanner's token.
UserValues(o) ==
    (IF o.validators THEN {"UPLOAD_VALIDATORS"} ELSE {})
        \cup (IF o.scanner THEN {"FILE_SCANNER"} ELSE {})

\* forRoot(): the options are checked before anything is registered.
ForRoot ==
    /\ phase = "registering" /\ way = Sync
    /\ IF Valid(given)
       THEN /\ phase' = "instantiating" /\ UNCHANGED error
            /\ resolved' = ApplyDefaults(given)
            /\ made' = {"OPTIONS"} \cup UserTokens
            /\ wired' = UserValues(resolved')
       ELSE Fails("STORAGE_INVALID_CONFIG") /\ UNCHANGED <<made, resolved, wired>>
    /\ UNCHANGED <<given, way, clients, hooked, calls>>

ForRootAsync ==
    /\ phase = "registering" /\ way # Sync
    /\ IF way = {} THEN Fails("Error") ELSE phase' = "instantiating" /\ UNCHANGED error
    /\ UNCHANGED <<given, way, made, resolved, clients, wired, hooked, calls>>

Ready(token) ==
    /\ phase = "instantiating"
    /\ token \in Tokens \ made /\ Needs(token) \subseteq made

\* resolveAsyncOptions(), once the consumer's factory has answered.
MakeOptions ==
    /\ Ready("OPTIONS")
    /\ IF Valid(given)
       THEN /\ resolved' = ApplyDefaults(given)
            /\ made' = made \cup {"OPTIONS"}
            /\ UNCHANGED <<phase, error>>
       ELSE Fails("STORAGE_INVALID_CONFIG") /\ UNCHANGED <<made, resolved>>
    /\ UNCHANGED <<given, way, clients, wired, hooked, calls>>

MakeUserToken(token) ==
    /\ token \in UserTokens /\ Ready(token)
    /\ made' = made \cup {token}
    /\ wired' = wired \cup (UserValues(resolved) \cap {token})
    /\ UNCHANGED <<given, way, phase, error, resolved, clients, hooked, calls>>

\* Fault: each use builds a client of its own.
ResolveClientAnew == client' = built + 1 /\ built' = built + 1

ResolveClient ==
    IF client = Null THEN client' = built + 1 /\ built' = built + 1
    ELSE UNCHANGED <<client, built>>

\* Fault: the token is given what is there.
GetClientAsIs == raw' = client /\ UNCHANGED <<client, built>>

GetClientOrNull ==
    IF resolved.hasCredentials THEN ResolveClient /\ raw' = client'
    ELSE raw' = Null /\ UNCHANGED <<client, built>>

MakeRawClient ==
    /\ Ready("S3_CLIENT")
    /\ GetClientOrNull
    /\ made' = made \cup {"S3_CLIENT"}
    /\ UNCHANGED <<given, way, phase, error, resolved, destroyed, wired, hooked, calls>>

\* A constructor that keeps what it is given.
Make(token) ==
    /\ token \notin UserTokens \cup {"OPTIONS", "S3_CLIENT"} /\ Ready(token)
    /\ made' = made \cup {token}
    /\ UNCHANGED <<given, way, phase, error, resolved, clients, wired, hooked, calls>>

\* The injector calls the hooks once every provider is there.
Instantiated ==
    /\ phase = "instantiating" /\ made = Tokens
    /\ phase' = "initialising"
    /\ UNCHANGED <<given, way, error, made, resolved, clients, wired, hooked, calls>>

OnModuleInit ==
    /\ phase = "initialising" /\ "S3ClientProvider" \notin hooked
    /\ hooked' = hooked \cup {"S3ClientProvider"}
    /\ IF resolved.hasCredentials THEN ResolveClient ELSE UNCHANGED <<client, built>>
    /\ UNCHANGED <<given, way, phase, error, made, resolved, destroyed, raw, wired, calls>>

Initialised ==
    /\ phase = "initialising" /\ "S3ClientProvider" \in hooked
    /\ phase' = "running"
    /\ UNCHANGED <<given, way, error, made, resolved, clients, wired, hooked, calls>>

\* A factory or a hook of the consumer throws: the application does not start.
ConsumerFails ==
    /\ phase \in {"instantiating", "initialising"}
    /\ Fails("Error")
    /\ UNCHANGED <<given, way, made, resolved, clients, wired, hooked, calls>>

\* An operation of StorageService up to its request. In the consumer's own code.
IsConfigured == client # Null

Call ==
    /\ "StorageService" \in made /\ phase # "failed"
    /\ calls' = calls \cup {<<phase, IF IsConfigured THEN "sent" ELSE "STORAGE_NOT_CONFIGURED">>}
    /\ UNCHANGED <<given, way, phase, error, made, resolved, clients, wired, hooked>>

Close ==
    /\ phase = "running"
    /\ phase' = "closing"
    /\ UNCHANGED <<given, way, error, made, resolved, clients, wired, hooked, calls>>

OnApplicationShutdown ==
    /\ phase = "closing"
    /\ phase' = "closed"
    /\ destroyed' = destroyed \cup ({client} \ {Null})
    /\ client' = Null
    /\ UNCHANGED <<given, way, error, made, resolved, built, raw, wired, hooked, calls>>

Next ==
    \/ ForRoot
    \/ ForRootAsync
    \/ MakeOptions
    \/ \E token \in UserTokens : MakeUserToken(token)
    \/ MakeRawClient
    \/ \E token \in CoreProviders \cup {"FACTORY"} : Make(token)
    \/ Instantiated
    \/ OnModuleInit
    \/ Initialised
    \/ ConsumerFails
    \/ Call
    \/ Close
    \/ OnApplicationShutdown

Spec == Init /\ [][Next]_vars
-----------------------------------------------------------------------------
TypeOK ==
    /\ given \in Given
    /\ way \in Descriptors \cup {Sync}
    /\ phase \in {"registering", "instantiating", "initialising", "running", "closing", "closed",
                  "failed"}
    /\ error \in {"", "Error", "STORAGE_INVALID_CONFIG"}
    /\ made \subseteq Tokens
    /\ resolved \in {Unset, ApplyDefaults(given)}
    /\ client \in Nat /\ built \in Nat /\ raw \in Nat \cup {Unset}
    /\ destroyed \subseteq Nat
    /\ wired \subseteq UserTokens
    /\ hooked \subseteq {"S3ClientProvider"}
    /\ calls \subseteq {"registering", "instantiating", "initialising", "running", "closing", "closed"}
                         \X {"sent", "STORAGE_NOT_CONFIGURED"}

(* From the first lifecycle hook on, whatever the order of the hooks and   *)
(* of the injector, a call is refused as not configured exactly when there *)
(* are no credentials, and the raw client is the one the services use:     *)
(* getClientOrNull(), onModuleInit().                                      *)
HooksFindTheClient ==
    /\ \A c \in calls : c[1] \in {"initialising", "running"} =>
           (c[2] = "STORAGE_NOT_CONFIGURED" <=> ~resolved.hasCredentials)
    /\ phase \in {"initialising", "running"} =>
           raw = client /\ (client = Null <=> ~resolved.hasCredentials)

(* At most one client is ever built, and none before the options are found *)
(* valid; once the application is closed it is destroyed.                  *)
ClientsReleased ==
    /\ built <= 1
    /\ built = 1 => Valid(given) /\ given.credentials
    /\ phase = "closed" => 1..built \subseteq destroyed

\* The host begins with these labels.
Leads(labels, host) == \A i \in DOMAIN labels : i \in DOMAIN host /\ host[i] = labels[i]

\* How often a URL names a bucket.
NamesBucket(url, bucket) ==
    Cardinality({ i \in DOMAIN url.path : url.path[i] = bucket })
        + (IF Leads(bucket, url.host) THEN 1 ELSE 0)

\* The key of a public URL, and what it is under the options there are.
Key == <<"k">>
UrlOfKey == PublicUrl(resolved, <<Key>>)

\* A recipe's options are used with the addresses and the checksums it made,
\* and those of a consumer's own servers do not name the bucket already.
ASSUME RecipeAssumption ==
    \A o \in Given : o.provider # "" =>
        /\ o.provider \in Providers
        /\ o.bucket \notin {Empty, Key}
        /\ NamesBucket(Endpoint, o.bucket) = 0 /\ NamesBucket(CustomDomain, o.bucket) <= 1
        /\ <<o.endpoint, o.publicBaseUrl, o.cdnBaseUrl>> = Addresses(o.provider, o.bucket)
        /\ o.publicBaseUrl # Unset
        /\ o.checksum = Recipe(o.provider, o.bucket, o.credentials).checksum

(* Whatever way they were given, options that were accepted leave the      *)
(* services with limits that work, a key for KMS, checksums the provider   *)
(* accepts, the consumer's validators and scanner; and a recipe's options  *)
(* with public URLs that name the bucket, and no more than once. Not so,   *)
(* where the code takes what it is given: a limit of NaN, an idle limit    *)
(* that follows a request timeout below zero or NaN, and the name of       *)
(* several labels that already leads the host: validateOptions(),          *)
(* applyDefaults(), the recipes, buildPublicUrl().                         *)
OptionsWork ==
    phase \in {"initialising", "running"} =>
        /\ given.maxTtlSeconds # NaN => resolved.maxTtlSeconds \in 1..MaxTtl
        /\ given.partSizeBytes # NaN => resolved.partSizeBytes >= MinPartSize
        /\ given.uploadIdleTimeoutMs # Unset \/ given.requestTimeoutMs \in Nat \cup {Unset}
              => resolved.uploadIdleTimeoutMs \in Nat
        /\ resolved.kms => resolved.kmsKeyId
        /\ given.provider \notin {"", "awsS3"} => resolved.checksum = "WHEN_REQUIRED"
        /\ wired = UserValues(given)
        /\ given.provider # "" =>
              NamesBucket(UrlOfKey, given.bucket) =
                  IF Len(given.bucket) > 1 /\ Leads(given.bucket, UrlOfKey.host) THEN 2 ELSE 1
=============================================================================
