--------------------------- MODULE MCSandboxValues ---------------------------
(* Instance of SandboxValues: a configuration that varies in one aspect at a *)
(* time from a simple one, with two port numbers, one logical name, and the  *)
(* decimal notations of the numbers as further names.                        *)
EXTENDS SandboxValues

MCPortNumber == {1, 2}
MCLogicalName == {"web", "n1", "n2"}
MCDecimal == <<"n1", "n2">>
MCReadable == {"entrypoint"}
MCReserved == {"aca-managed-by"}

Value == {Null, Unknown, "given"}
KeyMaps(keys) ==
    {Unknown} \cup {m \in [known : SUBSET keys, unknown : SUBSET keys] :
                        m.known \cap m.unknown = {}}
None == [known |-> {}, unknown |-> {}]

Base == [location |-> "given", endpoint |-> Null,
         source |-> [set |-> {"public"}, unknown |-> {}], resources |-> "given",
         labels |-> None, environment |-> None, secrets |-> None,
         version |-> Null, ports |-> Null, others |-> {}]

Scopes == {[Base EXCEPT !.location = l, !.endpoint = e] : l, e \in Value}

SourceValue ==
    {Unknown} \cup {s \in [set : SUBSET Kind, unknown : SUBSET Kind] :
                        s.set \cap s.unknown = {}}
Sources == {[Base EXCEPT !.source = s, !.resources = r] :
                s \in SourceValue, r \in Value}

LabelMaps == {[Base EXCEPT !.labels = m] : m \in KeyMaps({"user"} \cup MCReserved)}

Environments == {[Base EXCEPT !.environment = e, !.secrets = s, !.version = v] :
                    e, s \in KeyMaps({"a"}), v \in Value}

Others == {[Base EXCEPT !.others = o] : o \in SUBSET {"entrypoint", "command"}}

P(n, protocol, settings) == [port |-> n, protocol |-> protocol, settings |-> settings]

OnePort ==
    [{"web"} -> {Unknown} \cup {P(n, protocol, settings) :
                    n \in {1, Unknown}, protocol \in {"Http", Null},
                    settings \in {Null, "full", "partial", "bad", "vague"}}]
Named == [{"n1"} -> {P(1, "Http", Null), P(2, "Http2", Null)}]
TwoPorts == [{"web", "n1"} -> {P(1, "Http", Null), P(2, "Http2", "full"),
                                P(Unknown, "Http", Null)}]
Numbered == [{"n1", "n2"} -> {P(1, "Http", Null), P(2, "Http2", Null)}]

Ports == {[Base EXCEPT !.ports = p] :
             p \in {Unknown, NoPorts} \cup OnePort \cup Named \cup TwoPorts \cup Numbered}

MCConfig == Scopes \cup Sources \cup LabelMaps \cup Environments \cup Others \cup Ports
=============================================================================
