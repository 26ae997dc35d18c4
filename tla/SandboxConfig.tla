---------------------------- MODULE SandboxConfig ----------------------------
(***************************************************************************)
(* What the sandbox resource accepts as a configuration: ValidateConfig    *)
(* (provider/resource_sandbox.go) with validatePorts and the conversions   *)
(* it calls, on configurations in which values may still be unknown, as    *)
(* Terraform validates them before it knows the results of other resources *)
(* and, for `terraform validate`, any input variable.                      *)
(*                                                                         *)
(* A conversion to a Go type fails on an unknown element of a collection;  *)
(* an unknown scalar field becomes a zero value; an unknown object or      *)
(* collection as a whole is taken for one that is not there.               *)
(***************************************************************************)
EXTENDS Integers, FiniteSets

CONSTANTS
    Null,       \* an attribute that is not configured
    Unknown,    \* a value that is not known yet
    Reserved    \* the label keys that the provider sets itself

ASSUME ConfigValuesAssumption == Null # Unknown

Kind == {"public", "private", "preset"}

\* A configuration is a record of
\*   location, endpoint, resources, version : Null, Unknown or "given",
\*   source : Unknown, or the kinds with a value and the kinds still unknown,
\*   labels, environment, secrets : Unknown, or the keys whose value is known
\*             and those whose value is not (secrets is environment_wo),
\*   ports : Null, Unknown, or a function from logical names to ports,
\*   others : the other optional attributes that are configured.
\* A port is Unknown or a record of its number, protocol and settings, where
\* settings stands for activation mode, authentication and IP rules:
\*   Null, "full"; "partial", which leaves nested optional fields out;
\*   "bad", which breaks a rule; "vague", whose nested fields are unknown.

-----------------------------------------------------------------------------
(* ValidateConfig.                                                         *)

\* Mutant: the check does not wait for unknown values.
ScopeErrorEager(c) == (c.location = Null) <=> (c.endpoint = Null)

\* validateScope waits for both values.
ScopeError(c) ==
    /\ c.location # Unknown /\ c.endpoint # Unknown
    /\ (c.location = Null) <=> (c.endpoint = Null)

\* sourceFromObject: an unknown object reads as an empty one.
SourceOf(c) ==
    IF c.source = Unknown THEN [set |-> {}, unknown |-> {}] ELSE c.source

\* Mutant: presets are allowed to have resources.
SourceErrorPreset(c) ==
    LET s == SourceOf(c) IN
    /\ s.unknown = {}
    /\ \/ Cardinality(s.set) # 1
       \/ s.set # {"preset"} /\ c.resources = Null

\* oneSource, and resources for exactly the sources that are no presets.
SourceError(c) ==
    LET s == SourceOf(c) IN
    /\ s.unknown = {}
    /\ \/ Cardinality(s.set) # 1
       \/ s.set = {"preset"} /\ c.resources # Null
       \/ s.set # {"preset"} /\ c.resources = Null

\* mapValue converts to map[string]string.
Keys(m) == IF m = Unknown THEN {} ELSE m.known
KeysError(m) == m # Unknown /\ m.unknown # {}

LabelError(c) ==
    KeysError(c.labels) \/ Keys(c.labels) \cap Reserved # {}

EnvironmentError(c) ==
    \/ KeysError(c.environment) \/ KeysError(c.secrets)
    \/ Keys(c.environment) \cap Keys(c.secrets) # {}
    \/ Keys(c.secrets) # {} /\ c.version = Null

\* portToWire: an unknown number is 0.
Number(p) == IF p.port = Unknown THEN 0 ELSE p.port

\* validatePorts on a map that is there.  "bad" stands for both ways to
\* authenticate, more than ten rules, repeated names or priorities, and CIDRs
\* that are too few, too many or not canonical; unknown names, priorities and
\* CIDRs of "vague" settings read as empty ones.
PortsError(c) ==
    c.ports \notin {Null, Unknown} /\
    LET ports == c.ports IN
        \/ \E k \in DOMAIN ports : ports[k] = Unknown
        \/ \E j, k \in DOMAIN ports :
              j # k /\ Number(ports[j]) = Number(ports[k])
        \/ \E k \in DOMAIN ports : ports[k].settings \in {"bad", "vague"}

Accepts(c) ==
    /\ ~ScopeError(c) /\ ~SourceError(c) /\ ~LabelError(c)
    /\ ~EnvironmentError(c) /\ ~PortsError(c)

-----------------------------------------------------------------------------
(* The rules, as the documents state them, for a known configuration.      *)

Known(c) ==
    /\ Unknown \notin {c.location, c.endpoint, c.resources, c.version, c.source,
                       c.labels, c.environment, c.secrets, c.ports}
    /\ c.source.unknown = {}
    /\ \A m \in {c.labels, c.environment, c.secrets} : m.unknown = {}
    /\ c.ports # Null => \A k \in DOMAIN c.ports :
          /\ c.ports[k] # Unknown
          /\ Unknown \notin {c.ports[k].port, c.ports[k].protocol}
          /\ c.ports[k].settings # "vague"

Sound(c) ==
    /\ Cardinality({x \in {"location", "endpoint"} : c[x] # Null}) = 1
    /\ \E kind \in Kind :
          /\ c.source.set = {kind}
          /\ c.resources = Null <=> kind = "preset"
    /\ c.labels.known \cap Reserved = {}
    /\ c.environment.known \cap c.secrets.known = {}
    /\ c.secrets.known # {} => c.version # Null
    /\ c.ports # Null =>
          /\ \A j, k \in DOMAIN c.ports :
                c.ports[j].port = c.ports[k].port => j = k
          /\ \A k \in DOMAIN c.ports : c.ports[k].settings # "bad"

-----------------------------------------------------------------------------
(* How unknown values become known: each on its own.                       *)

ValueCompletes(new, old) == old \in {Unknown, new}

KeysComplete(new, old) ==
    old # Unknown => new.known = old.known \cup old.unknown

PortCompletes(new, old) ==
    old # Unknown =>
        /\ ValueCompletes(new.port, old.port)
        /\ ValueCompletes(new.protocol, old.protocol)
        /\ new.settings = old.settings
              \/ (old.settings = "vague" /\ new.settings \in {"full", "bad"})

PortsComplete(new, old) ==
    \/ old = Unknown
    \/ old = Null /\ new = Null
    \/ /\ old # Null /\ new # Null
       /\ DOMAIN new = DOMAIN old
       /\ \A k \in DOMAIN old : PortCompletes(new[k], old[k])

\* A kind that is unknown may turn out to be null.
SourceCompletes(new, old) ==
    old # Unknown =>
        /\ old.set \subseteq new.set
        /\ new.set \subseteq old.set \cup old.unknown

Completes(new, old) ==
    /\ \A x \in {"location", "endpoint", "resources", "version"} :
          ValueCompletes(new[x], old[x])
    /\ SourceCompletes(new.source, old.source)
    /\ \A x \in {"labels", "environment", "secrets"} :
          KeysComplete(new[x], old[x])
    /\ PortsComplete(new.ports, old.ports)
    /\ new.others = old.others
=============================================================================
