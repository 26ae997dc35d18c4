---------------------------- MODULE ProviderData ----------------------------
(***************************************************************************)
(* The state that all resources of one provider share: what Configure      *)
(* makes of the provider block, the cache of clients and the create locks  *)
(* (ProviderData in provider/provider.go), used by concurrent calls, with  *)
(* the IDs and endpoints that name a sandbox group (ids/group_id.go) and   *)
(* the import of what a call created.                                      *)
(*                                                                         *)
(* A call is a resource method that Terraform runs; Terraform runs many at *)
(* a time.  Strings are told apart by what normalisation does to them.     *)
(***************************************************************************)
EXTENDS Credential

CONSTANTS
    Call,
    Config,     \* records of the provider block, the environment and the uses
    Regional,   \* hosts of the form management.<location>.azuredevcompute.io
    Suffixed    \* the other hosts under azuredevcompute.io

ASSUME HostAssumption == Regional \cap Suffixed = {}

\* Of a configuration: block and env are those of Credential, allow is
\* allow_custom_endpoint, and uses gives for each call that there is the group,
\* location and endpoint it is called with, the kind and name of its object,
\* and whether it creates.
\*
\* A group ID is a name and a spelling: "canonical", "keywords" (other letter
\* cases of the fixed words, or blanks around), "letters" (other letter cases of
\* the group's own names, which Azure does not tell apart).  A location is the
\* host that it stands for and whether it is written in its normal form.  An
\* endpoint has a host, a port and the same flag; "malformed" is not an HTTPS
\* host.  Each of the two may be Null, which is no location and no endpoint.
ASSUME ConfigAssumption ==
    \A d \in Config :
        /\ \A f \in Flag : d.block[f] \in {Null, Unknown, "true"}
        /\ \A c \in DOMAIN d.uses :
            LET s == d.uses[c].scope
                g == s.group
                l == s.location
                e == s.endpoint
            IN
            /\ c \in Call
            /\ s = [group |-> g, location |-> l, endpoint |-> e]
            /\ g = [name |-> g.name, spelling |-> g.spelling]
            /\ g.spelling \in {"canonical", "keywords", "letters"}
            /\ l # Null =>
                  /\ l = [host |-> l.host, plain |-> l.plain] /\ l.plain \in BOOLEAN
                  /\ [host |-> l.host, plain |-> TRUE] # Null
            /\ e # Null =>
                  /\ e = [host |-> e.host, port |-> e.port, plain |-> e.plain]
                  /\ e.plain \in BOOLEAN
                  /\ Null \notin {[host |-> e.host, plain |-> TRUE],
                                  [host |-> e.host, port |-> e.port, plain |-> TRUE]}

VARIABLES
    config,
    phase,      \* of the provider: "new", "configured", "failed"
    chain,      \* the credentials, in order
    pc,         \* where each call stands
    scope,      \* the scope attributes that each call has
    imported,   \* the calls that read an import of what they created
    client,     \* the client each call got
    clients,    \* the cache: clients by key
    mutex,      \* the mutex each call got
    locks,      \* the mutexes by key
    holder      \* the calls that hold their mutex

vars == <<config, phase, chain, pc, scope, imported, client, clients, mutex,
          locks, holder>>

callVars == <<config, phase, chain>>

-----------------------------------------------------------------------------
(* ids: group IDs, endpoints and resource URLs.                            *)

\* GroupID.String of ParseGroupID: the fixed words are written anew.
GroupString(g) ==
    [g EXCEPT !.spelling = IF @ = "keywords" THEN "canonical" ELSE @]

\* EndpointForLocation and ParseEndpoint: the URL, and the location of a
\* regional host whatever its port is.
EndpointOf(s) ==
    IF s.location # Null
    THEN [url |-> [host |-> s.location.host, port |-> Null], standard |-> TRUE]
    ELSE [url |-> [host |-> s.endpoint.host, port |-> s.endpoint.port],
          standard |-> s.endpoint.host \in Regional]

ScopeError(s) ==
    \/ (s.location = Null) <=> (s.endpoint = Null)
    \/ "malformed" \in {s[x].host : x \in {y \in {"location", "endpoint"} : s[y] # Null}}

\* A host elsewhere needs approval and a token scope of its own.
HostError(s) ==
    /\ ~ScopeError(s)
    /\ EndpointOf(s).url.host \notin Regional \cup Suffixed
    /\ ~(config.allow /\ IsSet(config.block, "tokenScope"))

\* Mutant: every host under azuredevcompute.io is taken for a regional one.
ImportedScopeSuffix(s) ==
    LET url == EndpointOf(s).url IN
    [group    |-> GroupString(s.group),
     location |-> IF url.host \in Regional \cup Suffixed
                  THEN [host |-> url.host, plain |-> TRUE] ELSE Null,
     endpoint |-> IF url.host \in Regional \cup Suffixed THEN Null
                  ELSE [host |-> url.host, port |-> url.port, plain |-> TRUE]]

\* ResourceURL, then ImportState with ParseResourceURL: the state's scope.
ImportedScope(s) ==
    LET e == EndpointOf(s) IN
    [group    |-> GroupString(s.group),
     location |-> IF e.standard THEN [host |-> e.url.host, plain |-> TRUE] ELSE Null,
     endpoint |-> IF e.standard THEN Null
                  ELSE [host |-> e.url.host, port |-> e.url.port, plain |-> TRUE]]

-----------------------------------------------------------------------------
(* Configure.                                                              *)

Init ==
    /\ config \in Config
    /\ phase = "new"
    /\ chain = << >>
    /\ pc = [c \in Call |-> IF c \in DOMAIN config.uses THEN "idle" ELSE "none"]
    /\ scope = [c \in DOMAIN config.uses |-> config.uses[c].scope]
    /\ imported = {}
    /\ client = [c \in Call |-> Null]
    /\ clients = [k \in {} |-> Null]
    /\ mutex = [c \in Call |-> Null]
    /\ locks = [k \in {} |-> Null]
    /\ holder = {}

Configure ==
    /\ phase = "new"
    /\ \E readable \in BOOLEAN :
          IF \/ ConfigureError(config.block)
             \/ CredentialError(config.block, config.env, readable)
          THEN phase' = "failed" /\ UNCHANGED chain
          ELSE phase' = "configured" /\ chain' = Chain(config.block, config.env)
    /\ UNCHANGED <<config, pc, scope, imported, client, clients, mutex, locks, holder>>

-----------------------------------------------------------------------------
(* Client: the cache is a sync.Map.                                        *)

\* The token scope and the API version of the key are those of the provider.
ClientKey(s) == <<EndpointOf(s).url, GroupString(s.group)>>

NewClient(c) ==
    [maker |-> <<c, c \in imported>>, key |-> ClientKey(scope[c])]

Refuse(c) ==
    /\ phase = "configured" /\ pc[c] = "idle"
    /\ ScopeError(scope[c]) \/ HostError(scope[c])
    /\ pc' = [pc EXCEPT ![c] = "refused"]
    /\ UNCHANGED <<callVars, scope, imported, client, clients, mutex, locks, holder>>

Load(c) ==
    /\ phase = "configured" /\ pc[c] = "idle"
    /\ ~ScopeError(scope[c]) /\ ~HostError(scope[c])
    /\ LET key == ClientKey(scope[c]) IN
          IF key \in DOMAIN clients
          THEN /\ client' = [client EXCEPT ![c] = clients[key]]
               /\ pc' = [pc EXCEPT ![c] = "ready"]
          ELSE /\ client' = [client EXCEPT ![c] = NewClient(c)]
               /\ pc' = [pc EXCEPT ![c] = "made"]
    /\ UNCHANGED <<callVars, scope, imported, clients, mutex, locks, holder>>

\* Put: a map with one more key.
Put(map, k, v) == [j \in DOMAIN map \cup {k} |-> IF j = k THEN v ELSE map[j]]

\* Mutant: Store instead of LoadOrStore.
StoreClient(c) ==
    /\ pc[c] = "made"
    /\ clients' = Put(clients, ClientKey(scope[c]), client[c])
    /\ pc' = [pc EXCEPT ![c] = "ready"]
    /\ UNCHANGED <<callVars, scope, imported, client, mutex, locks, holder>>

LoadOrStoreClient(c) ==
    /\ pc[c] = "made"
    /\ LET key    == ClientKey(scope[c])
           actual == IF key \in DOMAIN clients THEN clients[key] ELSE client[c]
       IN /\ clients' = Put(clients, key, actual)
          /\ client' = [client EXCEPT ![c] = actual]
    /\ pc' = [pc EXCEPT ![c] = "ready"]
    /\ UNCHANGED <<callVars, scope, imported, mutex, locks, holder>>

-----------------------------------------------------------------------------
(* LockCreate: one mutex per key, which is never removed.                  *)

Creates(c) == config.uses[c].creates /\ c \notin imported

\* Mutant: the key has the group ID as the resource has it.
LockKeyAsWritten(c) == <<scope[c].group, config.uses[c].kind, config.uses[c].name>>

LockKey(c) ==
    <<GroupString(scope[c].group), config.uses[c].kind, config.uses[c].name>>

LoadOrStoreMutex(c) ==
    /\ pc[c] = "ready" /\ Creates(c)
    /\ LET key    == LockKey(c)
           actual == IF key \in DOMAIN locks THEN locks[key] ELSE c
       IN /\ locks' = Put(locks, key, actual)
          /\ mutex' = [mutex EXCEPT ![c] = actual]
    /\ pc' = [pc EXCEPT ![c] = "waiting"]
    /\ UNCHANGED <<callVars, scope, imported, client, clients, holder>>

Lock(c) ==
    /\ pc[c] = "waiting"
    /\ \A d \in holder : mutex[d] # mutex[c]
    /\ holder' = holder \cup {c}
    /\ pc' = [pc EXCEPT ![c] = "creating"]
    /\ UNCHANGED <<callVars, scope, imported, client, clients, mutex, locks>>

\* Mutant: the error paths return without unlocking.
UnlockOnSuccess(c) ==
    /\ pc[c] = "creating"
    /\ \/ pc' = [pc EXCEPT ![c] = "created"] /\ holder' = holder \ {c}
       \/ pc' = [pc EXCEPT ![c] = "ended"] /\ UNCHANGED holder
    /\ UNCHANGED <<callVars, scope, imported, client, clients, mutex, locks>>

\* The create ends, with an object or without one, and the deferred unlock runs.
Unlock(c) ==
    /\ pc[c] = "creating"
    /\ holder' = holder \ {c}
    /\ pc' \in {[pc EXCEPT ![c] = "created"], [pc EXCEPT ![c] = "ended"]}
    /\ UNCHANGED <<callVars, scope, imported, client, clients, mutex, locks>>

-----------------------------------------------------------------------------
(* `terraform import` of the resource_url that the create stored.          *)

ImportState(c) ==
    /\ pc[c] = "created"
    /\ scope' = [scope EXCEPT ![c] = ImportedScope(scope[c])]
    /\ imported' = imported \cup {c}
    /\ pc' = [pc EXCEPT ![c] = "idle"]
    /\ UNCHANGED <<callVars, client, clients, mutex, locks, holder>>

CallStep(c) ==
    \/ Refuse(c) \/ Load(c) \/ LoadOrStoreClient(c)
    \/ LoadOrStoreMutex(c) \/ Lock(c) \/ Unlock(c)

Next == Configure \/ \E c \in Call : CallStep(c) \/ ImportState(c)

\* A goroutine that can run does; sync.Mutex serves its waiters in turn once one
\* of them has waited for a millisecond; and what a create does under its lock
\* ends with its context.  Nobody has to import anything.
Fairness ==
    \A c \in Call :
        /\ WF_vars(Load(c)) /\ WF_vars(LoadOrStoreClient(c))
        /\ WF_vars(LoadOrStoreMutex(c))
        /\ SF_vars(Lock(c))
        /\ WF_vars(Unlock(c))

Spec == Init /\ [][Next]_vars /\ Fairness

-----------------------------------------------------------------------------
(* Properties.                                                             *)

\* Calls that are not there stay out and nothing happens before Configure; a call
\* has a client of its group and endpoint from Load to the end of its use, and a
\* mutex from LockCreate on; cached clients are filed under the key they were
\* made for; and the mutexes that are held are those of the calls that create.
ClientOf(key) == [maker : Call \X BOOLEAN, key : {key}]

TypeOK ==
    /\ config \in Config
    /\ phase \in {"new", "configured", "failed"}
    /\ phase # "configured" =>
          /\ chain = << >> /\ DOMAIN clients = {}
          /\ \A c \in Call : pc[c] \in {"idle", "none"}
    /\ \A c \in Call :
          /\ c \notin DOMAIN config.uses <=> pc[c] = "none"
          /\ pc[c] \in {"made", "ready", "waiting", "creating"} =>
                client[c] \in ClientOf(ClientKey(scope[c]))
          /\ pc[c] \in {"waiting", "creating", "created", "ended"} => mutex[c] \in Call
          /\ c \in holder <=> pc[c] = "creating"
    /\ \A k \in DOMAIN clients : clients[k] \in ClientOf(k)
    /\ \A k \in DOMAIN locks : locks[k] \in Call

\* A configured provider signs with what the documents list, in their order
\* (Configure with NewCredential).
ChainAsDocumented ==
    phase = "configured" => Documented(config.block, config.env, chain)

\* Calls for one group at one endpoint use one client, even if they ask for it at
\* the same time, and it is a client of that group and endpoint.
ClientsShared ==
    LET ready == {c \in Call : pc[c] \in {"ready", "waiting", "creating"}} IN
    /\ \A c \in ready : client[c].key = ClientKey(scope[c])
    /\ \A c, d \in ready :
          ClientKey(scope[c]) = ClientKey(scope[d]) => client[c] = client[d]

\* LockCreate implements KeyedLock for the objects that the calls create, where
\* two group IDs are the same target unless their own names are spelled in
\* different letter cases.
TargetOf(c) ==
    LET g == config.uses[c].scope.group
    IN <<g.name, g.spelling = "letters", config.uses[c].kind, config.uses[c].name>>

Targets == UNION {{<<d.uses[c].scope.group.name,
                     d.uses[c].scope.group.spelling = "letters",
                     d.uses[c].kind, d.uses[c].name>> : c \in DOMAIN d.uses} :
                        d \in Config}

Locks == INSTANCE KeyedLock WITH
    Target <- Targets,
    Caller <- Call,
    asked  <- {<<TargetOf(c), c>> : c \in {d \in Call : pc[d] = "waiting"}},
    held   <- {<<TargetOf(c), c>> : c \in {d \in Call : pc[d] = "creating"}}

LockCreateSerializes == Locks!LockSpec

\* The import of a resource reaches the server that has it, but for a port of a
\* regional host, which is dropped; and the scope attributes it writes are those
\* of the configuration, so that the plan does not replace the object, exactly if
\* these are in normal form and do not name a regional host as an endpoint.
ImportKeepsScope ==
    \A c \in imported :
        LET s   == config.uses[c].scope
            was == EndpointOf(s).url
            is  == EndpointOf(scope[c]).url
        IN
        /\ pc[c] # "refused"
        /\ is.host = was.host
        /\ is.port # was.port => was.host \in Regional /\ is.port = Null
        /\ scope[c] = s <=>
              /\ s.group.spelling # "keywords"
              /\ IF s.location # Null THEN s.location.plain
                 ELSE s.endpoint.plain /\ s.endpoint.host \notin Regional
=============================================================================
