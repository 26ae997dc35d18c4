---------------------------- MODULE SandboxValues ----------------------------
(***************************************************************************)
(* The values of one sandbox through its life: a configuration, its plan,  *)
(* Create, Read, Update and ImportState, with the ports as a map of        *)
(* logical names in Terraform and a list of numbers in the service         *)
(* (provider/resource_sandbox.go, sandbox_values.go, sandbox_types.go).    *)
(*                                                                         *)
(* A handler is one step here: its failures and interleavings are the      *)
(* subject of SandboxCreate and SandboxUpdate.  Terraform and the service  *)
(* are external.                                                           *)
(***************************************************************************)
EXTENDS SandboxConfig

CONSTANTS
    Config,     \* the configurations that the user writes, and their completions
    PortNumber,
    LogicalName,   \* the keys of the ports in Terraform
    Decimal,    \* the decimal notation of a number, as a logical name
    Readable    \* the members of others that ImportState and Read restore

Protocol == {"Http", "Http2"}

\* A port as the user writes it, and one in the state: known, and with what
\* "partial" settings become when the provider writes them.
ConfigPort ==
    [port : PortNumber \cup {Unknown}, protocol : Protocol \cup {Null, Unknown},
     settings : {Null, "full", "partial", "bad", "vague"}]

StatePort ==
    [port : PortNumber, protocol : Protocol \cup {Null},
     settings : {Null, "full", "partial", "filled"}]

MapsTo(R) == UNION {[D -> R] : D \in SUBSET LogicalName}

ASSUME ValuesAssumption ==
    /\ PortNumber \subseteq Nat \ {0}
    /\ Decimal \in [PortNumber -> LogicalName]
    /\ \A n, m \in PortNumber : Decimal[n] = Decimal[m] => n = m
    /\ \A x \in {Null, Unknown} :
          x \notin Protocol /\ x \notin MapsTo(StatePort)
    /\ \A c \in Config :
          /\ c.source = Unknown \/ c.source.set \subseteq Kind
          /\ c.ports \in {Null, Unknown} \/ c.ports \in MapsTo(ConfigPort \cup {Unknown})

VARIABLES
    phase,      \* where the user and Terraform stand
    config,
    ports,      \* the ports in the state, Null when there is no entry
    served,     \* the ports of the service: numbers with their protocols
    agrees,     \* whether the last apply returned what was planned
    touched,    \* whether somebody else set the ports that the service has
    bare        \* whether the last apply was a Create answered without the ports

vars == <<phase, config, ports, served, agrees, touched, bare>>

NoPorts == [n \in {} |-> Null]
PortMap == UNION {[D -> Protocol] : D \in SUBSET PortNumber}

Distinct(map) == \A j, k \in DOMAIN map : map[j].port = map[k].port => j = k

\* The entries of the state have known and distinct numbers.
TypeOK ==
    /\ phase \in {"written", "planned", "rejected", "applied", "imported"}
    /\ config \in Config
    /\ ports = Null \/ (ports \in MapsTo(StatePort) /\ Distinct(ports))
    /\ served \in PortMap
    /\ agrees \in BOOLEAN /\ touched \in BOOLEAN /\ bare \in BOOLEAN

-----------------------------------------------------------------------------
(* Conversions of the ports.                                               *)

\* What the service makes of a request: it fills the protocol in.
Serve(map) ==
    [n \in {map[k].port : k \in DOMAIN map} |->
        LET k == CHOOSE k \in DOMAIN map : map[k].port = n
        IN IF map[k].protocol = Null THEN "Http" ELSE map[k].protocol]

\* portMapFromRequests after portsFromMap.  What "partial" leaves out comes back
\* as a value: entra_id.enabled as false, ip_access_control.rules as an empty list.
PortMapFromRequests(map) ==
    [k \in DOMAIN map |->
        [map[k] EXCEPT !.settings = IF @ = "partial" THEN "filled" ELSE @]]

\* The entries of a prior map that is there, by number.
PriorKeys(prior, n) ==
    IF prior \in {Null, Unknown} THEN {}
    ELSE {k \in DOMAIN prior : prior[k].port = n}

PortKey(prior, n) ==
    IF PriorKeys(prior, n) = {} THEN Decimal[n]
    ELSE CHOOSE k \in PriorKeys(prior, n) : TRUE

\* Mutant: entries are built from the answer alone.
PortEntryFresh(prior, n, protocol) ==
    [port |-> n, protocol |-> protocol, settings |-> Null]

\* A known number keeps its entry but for a protocol that was not set; an
\* unknown one gets what the answer tells.
PortEntry(prior, n, protocol) ==
    LET k == PortKey(prior, n) IN
    IF PriorKeys(prior, n) = {}
    THEN [port |-> n, protocol |-> protocol, settings |-> Null]
    ELSE [prior[k] EXCEPT !.protocol = IF @ = Null THEN protocol ELSE @]

\* Mutant: entries that the answer does not have stay, as in a merge.
PortMapsMerged(prior, answer) ==
    LET keys == {PortKey(prior, n) : n \in DOMAIN answer}
        old  == IF prior \in {Null, Unknown} THEN NoPorts ELSE prior
        last == {f \in [keys -> DOMAIN answer] :
                    \A k \in keys : PortKey(prior, f[k]) = k}
    IN {[k \in keys \cup DOMAIN old |->
            IF k \in keys THEN PortEntry(prior, f[k], answer[f[k]]) ELSE old[k]]
                : f \in last}

\* portMapFromAPI: an empty answer keeps the prior map.  Two ports of the answer
\* may get one key, and the later one in the answer's order stays.
PortMapsFromAPI(prior, answer) ==
    LET keys == {PortKey(prior, n) : n \in DOMAIN answer}
        last == {f \in [keys -> DOMAIN answer] :
                    \A k \in keys : PortKey(prior, f[k]) = k}
    IN IF answer = NoPorts /\ prior \notin {Null, Unknown} THEN {prior}
       ELSE {[k \in keys |-> PortEntry(prior, f[k], answer[f[k]])] : f \in last}

\* Mutant: a prior map, known or not, is never refreshed.
AppliedPrior(prior, answer) ==
    IF prior # Null THEN {prior} ELSE PortMapsFromAPI(prior, answer)

\* Mutant: ports are only refreshed when there were some.
AppliedConfigured(prior, answer) ==
    IF prior = Null THEN {Null} ELSE PortMapsFromAPI(prior, answer)

\* The end of applySandboxResponse.
Applied(prior, answer) ==
    IF answer = NoPorts /\ prior = Null THEN {Null}
    ELSE PortMapsFromAPI(prior, answer)

-----------------------------------------------------------------------------
(* Plan and apply.                                                         *)

\* Terraform validates with what it knows.
Plan ==
    /\ phase = "written"
    /\ phase' = IF Accepts(config) THEN "planned" ELSE "rejected"
    /\ UNCHANGED <<config, ports, served, agrees, touched, bare>>

\* Terraform compares the new state with the plan where the plan is known.
Agree(planned, new) == planned = Unknown \/ new = planned

\* The rest is known and valid, and Create runs: the answer to the PUT may lack
\* the ports, the GET of the wait has them.
Create ==
    /\ phase = "planned"
    /\ ports = Null
    /\ \E c \in {d \in Config : Known(d) /\ Completes(d, config)} :
          LET asked   == IF c.ports = Null THEN NoPorts ELSE c.ports
              planned == IF c.ports = Null THEN Unknown ELSE c.ports
              all     == Serve(asked)
          IN
          /\ Accepts(c)
          /\ config' = c
          /\ served' = all
          /\ \E first \in {NoPorts, all} :
                LET model == IF first = NoPorts /\ asked # NoPorts
                             THEN PortMapFromRequests(asked) ELSE planned
                IN
                /\ bare' = (first = NoPorts)
                /\ \E m \in Applied(model, first) :
                      \E new \in Applied(m, all) :
                         /\ ports' = new
                         /\ agrees' = Agree(planned, new)
    /\ phase' = "applied"
    /\ touched' = FALSE

\* Validation of the known values fails before Create is called.
ApplyRejected ==
    /\ phase = "planned"
    /\ ports = Null
    /\ \E c \in {d \in Config : Known(d) /\ Completes(d, config)} :
          ~Accepts(c) /\ config' = c
    /\ phase' = "rejected"
    /\ UNCHANGED <<ports, served, agrees, touched, bare>>

\* ports is Optional and Computed with UseStateForUnknown.
PlannedPorts == IF config.ports = Null THEN ports ELSE config.ports

\* An update in place of the ports, after an edit.  The map is sent whenever it
\* is configured, since nested Computed attributes make it unequal; the answer to
\* UpdatePorts may lack the ports.
Update ==
    /\ phase = "planned"
    /\ ports # Null
    /\ Known(config)
    /\ LET written == config.ports \notin {Null, NoPorts}
                         \/ PlannedPorts # ports
           all == IF written THEN Serve(PlannedPorts) ELSE served
       IN
       /\ served' = all
       /\ \E first \in {NoPorts, all} :
             /\ \E m \in IF written THEN PortMapsFromAPI(PlannedPorts, first)
                         ELSE {PlannedPorts} :
                   \E new \in Applied(m, all) :
                      /\ ports' = new
                      /\ agrees' = Agree(PlannedPorts, new)
       /\ touched' = (touched /\ ~written)
    /\ phase' = "applied"
    /\ bare' = FALSE
    /\ UNCHANGED config

-----------------------------------------------------------------------------
(* Refresh, import, other people, and the user.                            *)

Read ==
    /\ phase = "applied"
    /\ ports' \in Applied(ports, served)
    /\ UNCHANGED <<phase, config, served, agrees, touched, bare>>

\* `terraform import` of the sandbox into an empty state: ImportState and Read.
ImportState ==
    /\ phase = "applied"
    /\ ports' \in Applied(Null, served)
    /\ phase' = "imported"
    /\ UNCHANGED <<config, served, agrees, touched, bare>>

\* The attributes that the plan after an import changes: Read does not restore
\* environment, environment_wo_version and the members of others that are not
\* Readable; name, scope, source, resources and labels come back.
PlanAfterImport ==
    {x \in {"environment"} : config.environment.known # {}}
        \cup {x \in {"version"} : config.version # Null}
        \cup (config.others \ Readable)
        \cup {x \in {"ports"} : config.ports \notin {Null, ports}}

Outside ==
    /\ phase = "applied"
    /\ served' \in PortMap \ {served}
    /\ touched' = TRUE
    /\ UNCHANGED <<phase, config, ports, agrees, bare>>

\* The user edits the ports; other changes replace the sandbox.
EditPorts ==
    /\ phase = "applied"
    /\ config' \in {c \in Config : Known(c)
                       /\ [c EXCEPT !.ports = config.ports] = config}
    /\ phase' = "written"
    /\ UNCHANGED <<ports, served, agrees, touched, bare>>

Init ==
    /\ phase = "written"
    /\ config \in Config
    /\ ports = Null
    /\ served = NoPorts
    /\ agrees = TRUE
    /\ touched = FALSE
    /\ bare = FALSE

Next ==
    \/ Plan \/ Create \/ ApplyRejected \/ Update
    \/ Read \/ ImportState \/ Outside \/ EditPorts

Spec == Init /\ [][Next]_vars

-----------------------------------------------------------------------------
(* Properties.                                                             *)

\* A configuration whose values are all known passes ValidateConfig exactly if
\* it keeps the documented rules, and nothing else is ever applied.
ValidationExact ==
    Known(config) => (phase = "rejected" <=> ~Sound(config)) \/ phase = "written"

\* The unknown values that validation does not wait for: elements of a map, the
\* source as a whole, resources of a preset, a port as a whole, two numbers of
\* ports (both read as 0), names and CIDRs of the rules of a port.
Blind(c) ==
    \/ \E x \in {"labels", "environment", "secrets"} : KeysError(c[x])
    \/ c.source = Unknown
    \/ SourceOf(c).set = {"preset"} /\ c.resources = Unknown
    \/ /\ c.ports \notin {Null, Unknown}
       /\ \/ \E k \in DOMAIN c.ports : c.ports[k] = Unknown
          \/ \E k \in DOMAIN c.ports : c.ports[k].settings = "vague"
          \/ \E j, k \in DOMAIN c.ports :
                j # k /\ {c.ports[j].port, c.ports[k].port} = {Unknown}

\* But for these, a configuration with unknown values is only rejected when no
\* values could make it one that keeps the rules.
RejectedForCause ==
    phase = "rejected" /\ ~Blind(config) =>
        \A c \in Config : Known(c) /\ Completes(c, config) => ~Sound(c)

\* The plan that follows a refresh changes nothing.
PlanEmpty == \A new \in Applied(ports, served) : config.ports \in {Null, new}

\* Whatever was applied, the plan that follows it is empty, as long as nobody else
\* has set the ports.
SecondPlanEmpty == phase = "applied" /\ ~touched => PlanEmpty

\* Ports that the configuration gives in full come back as they were planned,
\* under the names that the user chose, from every answer of Create and Update
\* and through every refresh: each has its protocol, and settings that leave
\* nothing out if Create made them up from the request (portMapFromRequests).
CompletePortsKept ==
    /\ phase = "applied" /\ ~touched
    /\ config.ports # Null => \A k \in DOMAIN config.ports :
          /\ config.ports[k].protocol # Null
          /\ ~(bare /\ config.ports[k].settings = "partial")
    => agrees /\ PlanEmpty

\* Refresh shows the ports that the service has, whoever opened them, with two
\* exceptions: an answer without ports leaves all of them in the state, and a
\* port whose decimal notation is the logical name of another open port may
\* take that entry or lose its own.
PortsShown ==
    phase = "applied" => \A new \in Applied(ports, served) :
        LET shown   == {new[k].port : k \in DOMAIN new}
            clashes == {n \in DOMAIN served :
                           \E m \in DOMAIN served \ {n} :
                              PortKey(ports, m) = PortKey(ports, n)}
        IN \/ served = NoPorts /\ new = ports
           \/ /\ shown \subseteq DOMAIN served
              /\ DOMAIN served \ shown \subseteq clashes
              /\ clashes # {} => \E k \in DOMAIN ports, n \in DOMAIN served :
                    k = Decimal[n] /\ ports[k].port # n

\* An import is followed by an empty plan for a configuration of attributes that
\* Read restores, with ports that are named by their numbers and have a protocol
\* and no further settings: the import has only the answer of the service to name
\* and to fill them by.
RestorableImported ==
    /\ phase = "imported" /\ ~touched
    /\ config.environment.known = {} /\ config.version = Null
    /\ config.others \subseteq Readable
    /\ config.ports # NoPorts
    /\ config.ports # Null => \A k \in DOMAIN config.ports :
          /\ k = Decimal[config.ports[k].port]
          /\ config.ports[k].protocol # Null
          /\ config.ports[k].settings = Null
    => PlanAfterImport = {}
=============================================================================
