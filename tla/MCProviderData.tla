--------------------------- MODULE MCProviderData ---------------------------
(* Instance of ProviderData: all provider blocks without resources, and one  *)
(* block with up to three calls whose scopes and names meet in various ways. *)
EXTENDS ProviderData, TLC

CONSTANTS c1, c2, c3

MCCall == {c1, c2, c3}
MCRegional == {"regional"}
MCSuffixed == {"suffixed"}

NoCalls == [c \in {} |-> Null]
Empty == [x \in Attribute |-> Null]
Cli == [Empty EXCEPT !["cli"] = "true"]

\* The token scope has no part in the credentials.
BlockOf(set) == [x \in Attribute |->
                    IF x \notin set THEN Null ELSE IF x \in Flag THEN "true" ELSE "given"]
KnownBlocks == {BlockOf(set) : set \in SUBSET (Attribute \ {"tokenScope"})}
UnknownBlocks ==
    {[BlockOf(set) EXCEPT ![x] = Unknown] :
        set \in SUBSET {"secret", "tenant", "client", "identity"}, x \in Attribute}

Authentication ==
    {[block |-> b, env |-> env, allow |-> FALSE, uses |-> NoCalls] :
        b \in KnownBlocks \cup UnknownBlocks, env \in SUBSET FromEnvironment}

G(spelling) == [name |-> "g", spelling |-> spelling]
AtLocation(g, plain) ==
    [group |-> g, location |-> [host |-> "regional", plain |-> plain], endpoint |-> Null]
AtEndpoint(g, host, port, plain) ==
    [group |-> g, location |-> Null,
     endpoint |-> [host |-> host, port |-> port, plain |-> plain]]

Scopes ==
    {AtLocation(G(spelling), plain) :
        spelling \in {"canonical", "keywords", "letters"}, plain \in BOOLEAN}
    \cup {AtEndpoint(G("canonical"), host, port, TRUE) :
             host \in {"regional", "suffixed", "custom"}, port \in {Null, "8443"}}
    \cup {AtEndpoint(G("canonical"), "suffixed", Null, FALSE),
          AtEndpoint(G("canonical"), "malformed", Null, TRUE),
          [group |-> G("canonical"), location |-> Null, endpoint |-> Null]}

Use(s, name, creates) ==
    [scope |-> s, kind |-> "sandboxes", name |-> name, creates |-> creates]

\* The second call's scope: a regional and a custom host.
Partners == {AtLocation(G("canonical"), TRUE), AtEndpoint(G("canonical"), "custom", Null, TRUE)}

Calls ==
    {[block |-> b, env |-> {}, allow |-> allow,
      uses |-> c1 :> Use(s, "web", TRUE) @@ c2 :> Use(t, "web", TRUE)] :
        b \in {Cli, [Cli EXCEPT !["tokenScope"] = "given"]}, allow \in BOOLEAN,
        s \in Scopes, t \in Partners}
    \cup {[block |-> Cli, env |-> {}, allow |-> FALSE,
           uses |-> c1 :> Use(AtLocation(G("canonical"), TRUE), "web", TRUE)
                    @@ c2 :> Use(AtLocation(G("keywords"), TRUE), "web", TRUE)
                    @@ c3 :> Use(AtLocation(G(spelling), TRUE), name, creates)] :
             spelling \in {"canonical", "letters"}, name \in {"web", "api"},
             creates \in BOOLEAN}

MCConfig == Authentication \cup Calls
=============================================================================
