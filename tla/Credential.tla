----------------------------- MODULE Credential -----------------------------
(***************************************************************************)
(* Which Azure credentials the provider signs with: the checks of          *)
(* Configure (provider/provider.go) and NewCredential (auth/credential.go) *)
(* on the provider block and the process environment.                      *)
(*                                                                         *)
(* A provider block maps each attribute below to Null, Unknown or a value. *)
(* A false flag counts as Null; empty strings are left out.  The           *)
(* environment is the set of the attributes whose AZURE_ variable is set.  *)
(***************************************************************************)
EXTENDS Integers, FiniteSets, Sequences

CONSTANTS Null, Unknown

Modes == <<"secret", "certificate", "oidc">>
Mode == {Modes[i] : i \in DOMAIN Modes}

\* identity and cli are the flags use_managed_identity and use_azure_cli, and
\* identityClient is managed_identity_client_id.
Attribute == Mode \cup {"tenant", "client", "password", "identityClient",
                        "tokenScope", "identity", "cli"}
Flag == {"identity", "cli"}
FromEnvironment == Mode \cup {"tenant", "client"}

\* The two marks are no values.
ASSUME MarkAssumption == {Null, Unknown} \cap (Mode \cup {"true", "env"}) = {}

IsSet(b, x) == b[x] \notin {Null, Unknown}

-----------------------------------------------------------------------------
(* Configure: flags that are unknown are not among the values it refuses.  *)

Explicit(b) == {m \in Mode : IsSet(b, m)}

ConfigureError(b) ==
    \/ \E x \in Attribute \ Flag : b[x] = Unknown
    \/ Cardinality(Explicit(b)) > 1
    \/ b["password"] # Null /\ b["certificate"] = Null
    \/ b["identityClient"] # Null /\ ~IsSet(b, "identity")

-----------------------------------------------------------------------------
(* NewCredential.                                                          *)

\* withEnvironmentDefaults.
Filled(b, env, x) ==
    IF IsSet(b, x) THEN b[x]
    ELSE IF x \in env \cap FromEnvironment THEN "env" ELSE Null

FirstOf(modes) == Modes[CHOOSE i \in DOMAIN Modes :
                            Modes[i] \in modes
                              /\ \A j \in 1 .. i - 1 : Modes[j] \notin modes]

\* Mutant: the environment fills the blanks before the mode is chosen.
SelectedMerged(b, env) ==
    LET candidates == Explicit(b) \cup (env \cap Mode)
    IN IF candidates = {} THEN Null ELSE FirstOf(candidates)

\* The switch: an explicit mode first, then one of the environment.
Selected(b, env) ==
    LET candidates == IF Explicit(b) # {} THEN Explicit(b) ELSE env \cap Mode
    IN IF candidates = {} THEN Null ELSE FirstOf(candidates)

\* readable: the certificate can be read and parsed.
CredentialError(b, env, readable) ==
    \/ /\ Selected(b, env) # Null
       /\ Null \in {Filled(b, env, "tenant"), Filled(b, env, "client")}
    \/ Selected(b, env) = "certificate" /\ ~readable
    \/ Selected(b, env) = Null /\ \A f \in Flag : ~IsSet(b, f)

\* A user-assigned identity is named by its own attribute, or by client_id when
\* no service principal could be meant.
IdentityClient(b, env) ==
    IF IsSet(b, "identityClient") THEN b["identityClient"]
    ELSE IF \A m \in Mode : Filled(b, env, m) = Null THEN Filled(b, env, "client")
    ELSE Null

\* The credentials in the order in which the chain tries them.
Chain(b, env) ==
    LET mode == Selected(b, env) IN
    (IF mode = Null THEN << >>
     ELSE <<[kind |-> mode, client |-> Filled(b, env, "client")]>>)
    \o (IF IsSet(b, "identity")
        THEN <<[kind |-> "identity", client |-> IdentityClient(b, env)]>> ELSE << >>)
    \o (IF IsSet(b, "cli") THEN <<[kind |-> "cli", client |-> Null]>> ELSE << >>)

-----------------------------------------------------------------------------
(* What the documents promise of a chain.                                  *)

\* One service principal mode, which is that of the provider block if it has one;
\* then managed identity and Azure CLI, each only if its flag is true.  A mode
\* that is asked for is never skipped for want of a value, and managed identity
\* never takes the client ID of a service principal.
Documented(b, env, creds) ==
    LET kinds == {creds[i].kind : i \in DOMAIN creds}
        modes == kinds \cap Mode
        rank  == [k \in Mode \cup Flag |->
                     IF k \in Mode THEN 1 ELSE IF k = "identity" THEN 2 ELSE 3]
    IN
    /\ Len(creds) > 0
    /\ \A i, j \in DOMAIN creds : i < j => rank[creds[i].kind] < rank[creds[j].kind]
    /\ Explicit(b) # {} => modes = Explicit(b)
    /\ Explicit(b) = {} => modes \subseteq env /\ (modes = {} => env \cap Mode = {})
    /\ \A f \in Flag : f \in kinds <=> b[f] = "true"
    /\ \A i \in DOMAIN creds :
          /\ creds[i].kind \in Mode => creds[i].client # Null
          /\ creds[i].kind = "identity" /\ modes # {} =>
                creds[i].client \in {Null, b["identityClient"]}
=============================================================================
