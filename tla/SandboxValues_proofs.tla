------------------------ MODULE SandboxValues_proofs ------------------------
(***************************************************************************)
(* Theorems about SandboxValues, for every set of configurations: what     *)
(* validation rejects before and after the values are known, and what      *)
(* plans show after an apply, a refresh and an import.                     *)
(***************************************************************************)
EXTENDS SandboxValues, FiniteSetTheorems, TLAPS

-----------------------------------------------------------------------------
(* Validation.                                                             *)

\* Exactly one of the two scope attributes.
ScopeGiven(c) == Cardinality({x \in {"location", "endpoint"} : c[x] # Null}) = 1

LEMMA ScopeExact ==
    ASSUME NEW c
    PROVE  ScopeGiven(c) <=> ((c.location = Null) <=> ~(c.endpoint = Null))
  <1> DEFINE Given == {x \in {"location", "endpoint"} : c[x] # Null}
  <1>1. CASE c.location = Null /\ c.endpoint = Null
    <2>1. Given = {}
      BY <1>1
    <2>2. QED
      BY <1>1, <2>1, FS_EmptySet DEF ScopeGiven
  <1>2. CASE c.location # Null /\ c.endpoint = Null
    <2>1. Given = {"location"}
      BY <1>2
    <2>2. QED
      BY <1>2, <2>1, FS_Singleton DEF ScopeGiven
  <1>3. CASE c.location = Null /\ c.endpoint # Null
    <2>1. Given = {"endpoint"}
      BY <1>3
    <2>2. QED
      BY <1>3, <2>1, FS_Singleton DEF ScopeGiven
  <1>4. CASE c.location # Null /\ c.endpoint # Null
    <2>1. Given = {"location"} \cup {"endpoint"}
      BY <1>4
    <2>2. Cardinality(Given) = Cardinality({"location"}) + 1
      BY <2>1, FS_Singleton, FS_AddElement
    <2>3. Cardinality({"location"}) = 1
      BY FS_Singleton
    <2>4. Cardinality(Given) # 1
      BY <2>2, <2>3
    <2>5. QED
      BY <1>4, <2>4 DEF ScopeGiven
  <1>5. QED
    BY <1>1, <1>2, <1>3, <1>4

\* A source whose kinds are known passes if there is one, with resources for
\* exactly the kinds that are no presets.
LEMMA SourceExact ==
    ASSUME NEW c \in Config, c.source # Unknown, c.source.unknown = {}
    PROVE  ~SourceError(c) <=> \E kind \in Kind :
              c.source.set = {kind} /\ (c.resources = Null <=> kind = "preset")
  <1> DEFINE set == c.source.set
  <1>1. set \subseteq Kind
    BY ValuesAssumption DEF ValuesAssumption
  <1>2. IsFiniteSet(Kind)
    <2>1. Kind = (({} \cup {"public"}) \cup {"private"}) \cup {"preset"}
      BY DEF Kind
    <2>2. QED
      BY <2>1, FS_EmptySet, FS_AddElement
  <1>3. IsFiniteSet(set)
    BY <1>1, <1>2, FS_Subset
  <1>4. Cardinality(set) = 1 <=> \E kind \in Kind : set = {kind}
    BY <1>1, <1>3, FS_Singleton
  <1>5. ~SourceError(c) <=>
            /\ Cardinality(set) = 1
            /\ (set = {"preset"} => c.resources = Null)
            /\ (set # {"preset"} => c.resources # Null)
    BY DEF SourceError, SourceOf
  <1>6. QED
    BY <1>4, <1>5 DEF Kind

\* The ports of a configuration whose values are all known.
LEMMA PortsExact ==
    ASSUME NEW c \in Config, Known(c), c.ports # Null
    PROVE  /\ ~PortsError(c) <=> Distinct(c.ports)
                /\ \A k \in DOMAIN c.ports : c.ports[k].settings # "bad"
           /\ \E D \in SUBSET LogicalName : c.ports \in [D -> ConfigPort]
           /\ \A k \in DOMAIN c.ports :
                 /\ c.ports[k].port \in PortNumber
                 /\ c.ports[k].protocol \in Protocol \cup {Null}
                 /\ c.ports[k].settings # "vague"
  <1>1. c.ports # Unknown
    BY DEF Known
  <1>2. PICK D \in SUBSET LogicalName : c.ports \in [D -> ConfigPort \cup {Unknown}]
    BY <1>1, ValuesAssumption DEF ValuesAssumption, MapsTo
  <1>3. \A k \in D : /\ c.ports[k] # Unknown
                     /\ c.ports[k].port # Unknown /\ c.ports[k].protocol # Unknown
                     /\ c.ports[k].settings # "vague"
    BY <1>2 DEF Known
  <1>4. \A k \in D : c.ports[k] \in ConfigPort
    BY <1>2, <1>3
  <1>5. \A k \in D : c.ports[k].port \in PortNumber
                     /\ c.ports[k].protocol \in Protocol \cup {Null}
    BY <1>3, <1>4 DEF ConfigPort
  <1>6. c.ports \in [D -> ConfigPort] /\ DOMAIN c.ports = D
    BY <1>2, <1>4
  <1>7. PortsError(c) <=>
           \/ \E j, k \in D : j # k /\ c.ports[j].port = c.ports[k].port
           \/ \E k \in D : c.ports[k].settings = "bad"
    BY <1>1, <1>3, <1>6 DEF PortsError, Number
  <1>8. QED
    BY <1>3, <1>5, <1>6, <1>7 DEF Distinct

\* Once its values are known, a configuration is accepted if it keeps the rules.
LEMMA AcceptsSound ==
    ASSUME NEW c \in Config, Known(c)
    PROVE  Accepts(c) <=> Sound(c)
  <1>1. /\ c.location # Unknown /\ c.endpoint # Unknown /\ c.source # Unknown
        /\ c.labels # Unknown /\ c.environment # Unknown /\ c.secrets # Unknown
        /\ c.source.unknown = {} /\ c.labels.unknown = {}
        /\ c.environment.unknown = {} /\ c.secrets.unknown = {}
    BY DEF Known
  <1>2. ~ScopeError(c) <=> ScopeGiven(c)
    BY <1>1, ScopeExact DEF ScopeError
  <1>3. ~LabelError(c) <=> c.labels.known \cap Reserved = {}
    BY <1>1 DEF LabelError, KeysError, Keys
  <1>4. ~EnvironmentError(c) <=>
           /\ c.environment.known \cap c.secrets.known = {}
           /\ c.secrets.known # {} => c.version # Null
    BY <1>1 DEF EnvironmentError, KeysError, Keys
  <1>5. ~PortsError(c) <=>
           \/ c.ports = Null
           \/ /\ \A j, k \in DOMAIN c.ports : c.ports[j].port = c.ports[k].port => j = k
              /\ \A k \in DOMAIN c.ports : c.ports[k].settings # "bad"
    <2>1. CASE c.ports = Null
      BY <2>1 DEF PortsError
    <2>2. CASE c.ports # Null
      BY <2>2, PortsExact DEF Distinct
    <2>3. QED
      BY <2>1, <2>2
  <1>6. ~SourceError(c) <=> \E kind \in Kind :
           c.source.set = {kind} /\ (c.resources = Null <=> kind = "preset")
    BY <1>1, SourceExact
  <1>7. QED
    BY <1>2, <1>3, <1>4, <1>5, <1>6 DEF Accepts, Sound, ScopeGiven

\* An error of a configuration with unknown values stays one in every completion,
\* but for the unknown values that validation takes for absent or zero.
LEMMA ErrorsStay ==
    ASSUME NEW old \in Config, NEW c \in Config, ~Accepts(old), ~Blind(old),
           Known(c), Completes(c, old)
    PROVE  ~Sound(c)
  <1> SUFFICES ASSUME Sound(c) PROVE FALSE
    OBVIOUS
  <1>1. CASE ScopeError(old)
    <2>1. c.location = old.location /\ c.endpoint = old.endpoint
      BY <1>1 DEF ScopeError, Completes, ValueCompletes
    <2>2. ScopeGiven(c)
      BY DEF Sound, ScopeGiven
    <2>3. QED
      BY <1>1, <2>1, <2>2, ScopeExact DEF ScopeError
  <1>2. CASE SourceError(old)
    <2>1. old.source # Unknown /\ old.source.unknown = {}
      BY <1>2 DEF Blind, SourceError, SourceOf
    <2>2. c.source.set = old.source.set
      BY <2>1 DEF Completes, SourceCompletes
    <2>3. PICK kind \in Kind : c.source.set = {kind} /\ (c.resources = Null <=> kind = "preset")
      BY DEF Sound
    <2>4. ~(kind = "preset" /\ old.resources = Unknown)
      BY <2>1, <2>2, <2>3 DEF Blind, SourceOf
    <2>5. old.resources \in {Unknown, c.resources}
      BY DEF Completes, ValueCompletes
    <2>6. old.resources = Null <=> kind = "preset"
      BY <2>3, <2>4, <2>5, ConfigValuesAssumption DEF ConfigValuesAssumption
    <2>7. QED
      BY <1>2, <2>1, <2>2, <2>3, <2>6, SourceExact
  <1>3. \A x \in {"labels", "environment", "secrets"} :
           /\ ~KeysError(old[x])
           /\ Keys(old[x]) \subseteq c[x].known
    BY DEF Blind, KeysError, Keys, Completes, KeysComplete
  <1>4. ~LabelError(old)
    BY <1>3 DEF Sound, LabelError
  <1>5. CASE EnvironmentError(old)
    <2>1. Keys(old.secrets) # {} /\ old.version = Null
      BY <1>3, <1>5 DEF Sound, EnvironmentError
    <2>2. c.secrets.known # {} /\ c.version = Null
      BY <1>3, <2>1, ConfigValuesAssumption
      DEF Completes, ValueCompletes, ConfigValuesAssumption
    <2>3. QED
      BY <2>2 DEF Sound
  <1>6. CASE PortsError(old)
    <2>1. old.ports \notin {Null, Unknown}
      BY <1>6 DEF PortsError
    <2>2. /\ c.ports # Null /\ DOMAIN c.ports = DOMAIN old.ports
          /\ \A k \in DOMAIN old.ports : PortCompletes(c.ports[k], old.ports[k])
      BY <2>1 DEF Completes, PortsComplete
    <2>3. PICK D \in SUBSET LogicalName : old.ports \in [D -> ConfigPort \cup {Unknown}]
      BY <2>1, ValuesAssumption DEF ValuesAssumption, MapsTo
    <2>4. \A k \in D : old.ports[k] # Unknown /\ old.ports[k].settings # "vague"
      BY <2>1, <2>3 DEF Blind
    <2>5. \A k \in D : old.ports[k].settings # "bad"
      BY <2>2, <2>3, <2>4 DEF Sound, PortCompletes
    <2>6. PICK j \in D, k \in D : j # k /\ Number(old.ports[j]) = Number(old.ports[k])
      BY <1>6, <2>1, <2>3, <2>4, <2>5 DEF PortsError
    <2>7. ~(old.ports[j].port = Unknown /\ old.ports[k].port = Unknown)
      BY <2>1, <2>3, <2>6 DEF Blind
    <2>8. \A l \in D : old.ports[l].port \in PortNumber \cup {Unknown}
      BY <2>3, <2>4 DEF ConfigPort
    <2>9. 0 \notin PortNumber
      BY ValuesAssumption DEF ValuesAssumption
    <2>10. /\ old.ports[j].port # Unknown /\ old.ports[k].port # Unknown
           /\ old.ports[j].port = old.ports[k].port
      BY <2>6, <2>7, <2>8, <2>9 DEF Number
    <2>11. c.ports[j].port = c.ports[k].port
      BY <2>2, <2>3, <2>4, <2>10 DEF PortCompletes, ValueCompletes
    <2>12. QED
      BY <2>2, <2>3, <2>6, <2>11 DEF Sound
  <1>7. QED
    BY <1>1, <1>2, <1>4, <1>5, <1>6 DEF Accepts

-----------------------------------------------------------------------------
(* Where the user and Terraform stand.                                     *)

\* What has been rejected has an error, what has been planned has none, and what
\* has been applied is known.
PhaseInv ==
    /\ config \in Config
    /\ phase \in {"written", "planned", "rejected", "applied", "imported"}
    /\ phase # "written" => (phase = "rejected" <=> ~Accepts(config))
    /\ phase \in {"applied", "imported"} => Known(config)

LEMMA PhaseStep == PhaseInv /\ [Next]_vars => PhaseInv'
  <1> SUFFICES ASSUME PhaseInv, [Next]_vars PROVE PhaseInv'
    OBVIOUS
  <1>1. CASE Plan
    BY <1>1 DEF Plan, PhaseInv
  <1>2. CASE Create \/ ApplyRejected
    <2>1. config' \in Config /\ Known(config')
      BY <1>2 DEF Create, ApplyRejected
    <2>2. CASE Create
      <3>1. Accepts(config') /\ phase' = "applied"
        BY <2>2 DEF Create
      <3>2. QED
        BY <2>1, <3>1 DEF PhaseInv
    <2>3. CASE ApplyRejected
      <3>1. ~Accepts(config') /\ phase' = "rejected"
        BY <2>3 DEF ApplyRejected
      <3>2. QED
        BY <2>1, <3>1 DEF PhaseInv
    <2>4. QED
      BY <1>2, <2>2, <2>3
  <1>3. CASE Update
    <2>1. phase = "planned" /\ phase' = "applied" /\ config' = config /\ Known(config)
      BY <1>3 DEF Update
    <2>2. QED
      BY <2>1 DEF PhaseInv
  <1>4. CASE Read \/ ImportState \/ Outside
    <2>1. phase = "applied" /\ phase' \in {"applied", "imported"} /\ config' = config
      BY <1>4 DEF Read, ImportState, Outside
    <2>2. QED
      BY <2>1 DEF PhaseInv
  <1>5. CASE EditPorts
    BY <1>5 DEF EditPorts, PhaseInv
  <1>6. CASE UNCHANGED vars
    BY <1>6 DEF vars, PhaseInv
  <1>7. QED
    BY <1>1, <1>2, <1>3, <1>4, <1>5, <1>6 DEF Next

-----------------------------------------------------------------------------
(* Maps of ports.                                                          *)

\* The maps a state can hold.
Good(map) == map \in MapsTo(StatePort) /\ Distinct(map)

Numbers(map) == {map[k].port : k \in DOMAIN map}

\* What a map becomes when the service fills protocols in.
Filled(map, answer) ==
    [k \in DOMAIN map |->
        [map[k] EXCEPT !.protocol = IF @ = Null THEN answer[map[k].port] ELSE @]]

LEMMA GoodMap ==
    ASSUME NEW map, Good(map)
    PROVE  /\ map \in [DOMAIN map -> StatePort] /\ DOMAIN map \subseteq LogicalName
           /\ map # Null /\ map # Unknown
           /\ Numbers(map) \subseteq PortNumber
  <1>1. PICK D \in SUBSET LogicalName : map \in [D -> StatePort]
    BY DEF Good, MapsTo
  <1>2. map \in [DOMAIN map -> StatePort] /\ DOMAIN map \subseteq LogicalName
    BY <1>1
  <1>3. map # Null /\ map # Unknown
    BY ValuesAssumption DEF ValuesAssumption, Good
  <1>4. Numbers(map) \subseteq PortNumber
    BY <1>2 DEF Numbers, StatePort
  <1>5. QED
    BY <1>2, <1>3, <1>4

LEMMA MapGood ==
    ASSUME NEW D \in SUBSET LogicalName, NEW map \in [D -> StatePort], Distinct(map)
    PROVE  Good(map)
  BY DEF Good, MapsTo

LEMMA EmptyGood == Good(NoPorts) /\ Numbers(NoPorts) = {} /\ NoPorts \in PortMap
  <1>1. DOMAIN NoPorts = {} /\ NoPorts \in [{} -> StatePort] /\ NoPorts \in [{} -> Protocol]
    BY DEF NoPorts
  <1>2. Distinct(NoPorts) /\ Numbers(NoPorts) = {}
    BY <1>1 DEF Distinct, Numbers
  <1>3. Good(NoPorts)
    BY <1>1, <1>2, MapGood
  <1>4. NoPorts \in PortMap
    BY <1>1 DEF PortMap
  <1>5. QED
    BY <1>2, <1>3, <1>4

\* A map without keys is the empty one.
LEMMA NoKeys ==
    ASSUME NEW R, NEW D, NEW map \in [D -> R], DOMAIN map = {}
    PROVE  map = NoPorts
  BY DEF NoPorts

LEMMA AnswerType ==
    ASSUME NEW answer \in PortMap
    PROVE  /\ DOMAIN answer \subseteq PortNumber
           /\ \A n \in DOMAIN answer : answer[n] \in Protocol /\ answer[n] # Null
           /\ DOMAIN answer = {} => answer = NoPorts
  <1>1. PICK D \in SUBSET PortNumber : answer \in [D -> Protocol]
    BY DEF PortMap
  <1>2. Null \notin Protocol
    BY ValuesAssumption DEF ValuesAssumption
  <1>3. QED
    BY <1>1, <1>2, NoKeys

\* The entry of a number in a map that is there.
LEMMA KeyOfNumber ==
    ASSUME NEW prior, Good(prior), NEW k \in DOMAIN prior
    PROVE  /\ PriorKeys(prior, prior[k].port) = {k}
           /\ PortKey(prior, prior[k].port) = k
  <1>1. PriorKeys(prior, prior[k].port) = {k}
    BY GoodMap DEF PriorKeys, Good, Distinct
  <1>2. QED
    BY <1>1 DEF PortKey

\* A number that the prior map has gets the key of its entry, and another one
\* its decimal notation.
LEMMA KeyCases ==
    ASSUME NEW prior, prior \in {Null, Unknown} \/ Good(prior), NEW n \in PortNumber
    PROVE  \/ /\ PriorKeys(prior, n) = {} /\ PortKey(prior, n) = Decimal[n]
           \/ /\ Good(prior) /\ PriorKeys(prior, n) # {}
              /\ PortKey(prior, n) \in DOMAIN prior
              /\ prior[PortKey(prior, n)].port = n
  <1>1. CASE PriorKeys(prior, n) = {}
    BY <1>1 DEF PortKey
  <1>2. CASE PriorKeys(prior, n) # {}
    <2>1. Good(prior) /\ PriorKeys(prior, n) = {k \in DOMAIN prior : prior[k].port = n}
      BY <1>2 DEF PriorKeys
    <2>2. PortKey(prior, n) \in PriorKeys(prior, n)
      BY <1>2 DEF PortKey
    <2>3. QED
      BY <1>2, <2>1, <2>2
  <1>3. QED
    BY <1>1, <1>2

LEMMA EntryType ==
    ASSUME NEW prior, prior \in {Null, Unknown} \/ Good(prior), NEW n \in PortNumber,
           NEW protocol \in Protocol
    PROVE  /\ PortKey(prior, n) \in LogicalName
           /\ PortEntry(prior, n, protocol) \in StatePort
           /\ PortEntry(prior, n, protocol).port = n
  <1>1. CASE PriorKeys(prior, n) = {}
    <2>1. PortKey(prior, n) = Decimal[n]
      BY <1>1 DEF PortKey
    <2>2. PortEntry(prior, n, protocol) = [port |-> n, protocol |-> protocol, settings |-> Null]
      BY <1>1 DEF PortEntry
    <2>3. QED
      BY <2>1, <2>2, ValuesAssumption DEF ValuesAssumption, StatePort
  <1>2. CASE PriorKeys(prior, n) # {}
    <2> DEFINE k == PortKey(prior, n)
    <2>1. Good(prior) /\ k \in DOMAIN prior /\ prior[k].port = n
      BY <1>2, KeyCases
    <2>2. prior[k] \in StatePort /\ k \in LogicalName
      BY <2>1, GoodMap
    <2>3. PortEntry(prior, n, protocol) =
             [prior[k] EXCEPT !.protocol = IF prior[k].protocol = Null THEN protocol
                                           ELSE prior[k].protocol]
      BY <1>2 DEF PortEntry
    <2>4. QED
      BY <2>1, <2>2, <2>3 DEF StatePort
  <1>3. QED
    BY <1>1, <1>2

\* A map that portMapFromAPI builds: one entry for each key, of a number of the
\* answer that has this key.
Built(prior, answer, new) ==
    /\ Good(new)
    /\ Numbers(new) \subseteq DOMAIN answer
    /\ DOMAIN new = {PortKey(prior, n) : n \in DOMAIN answer}
    /\ \A k \in DOMAIN new :
          /\ PortKey(prior, new[k].port) = k
          /\ new[k] = PortEntry(prior, new[k].port, answer[new[k].port])

LEMMA FromAPI ==
    ASSUME NEW prior, prior \in {Null, Unknown} \/ Good(prior),
           NEW answer \in PortMap, NEW new \in PortMapsFromAPI(prior, answer)
    PROVE  \/ answer = NoPorts /\ Good(prior) /\ new = prior
           \/ Built(prior, answer, new)
  <1> DEFINE keys == {PortKey(prior, n) : n \in DOMAIN answer}
  <1>1. CASE answer = NoPorts /\ prior \notin {Null, Unknown}
    BY <1>1 DEF PortMapsFromAPI
  <1>2. CASE ~(answer = NoPorts /\ prior \notin {Null, Unknown})
    <2>1. PICK f \in [keys -> DOMAIN answer] :
            /\ \A k \in keys : PortKey(prior, f[k]) = k
            /\ new = [k \in keys |-> PortEntry(prior, f[k], answer[f[k]])]
      BY <1>2 DEF PortMapsFromAPI
    <2>2. \A k \in keys :
             /\ k \in LogicalName
             /\ new[k] \in StatePort /\ new[k].port = f[k]
      <3> SUFFICES ASSUME NEW k \in keys
                   PROVE  k \in LogicalName /\ new[k] \in StatePort /\ new[k].port = f[k]
        OBVIOUS
      <3>1. f[k] \in PortNumber /\ answer[f[k]] \in Protocol
        BY AnswerType
      <3>2. QED
        BY <2>1, <3>1, EntryType
    <2>3. Distinct(new)
      BY <2>1, <2>2 DEF Distinct
    <2>4. new \in [keys -> StatePort] /\ keys \subseteq LogicalName
      BY <2>1, <2>2
    <2>5. Good(new) /\ DOMAIN new = keys
      BY <2>3, <2>4, MapGood
    <2>6. \A k \in keys : /\ PortKey(prior, new[k].port) = k
                         /\ new[k] = PortEntry(prior, new[k].port, answer[new[k].port])
      BY <2>1, <2>2
    <2>7. Numbers(new) \subseteq DOMAIN answer
      BY <2>1, <2>2, <2>5 DEF Numbers
    <2>8. QED
      BY <2>5, <2>6, <2>7 DEF Built
  <1>3. QED
    BY <1>1, <1>2

\* What applySandboxResponse makes of the ports.
LEMMA AppliedType ==
    ASSUME NEW prior, prior \in {Null, Unknown} \/ Good(prior),
           NEW answer \in PortMap, NEW new \in Applied(prior, answer)
    PROVE  /\ new = Null \/ Good(new)
           /\ prior # Null => Good(new)
  <1>1. CASE answer = NoPorts /\ prior = Null
    BY <1>1 DEF Applied
  <1>2. CASE ~(answer = NoPorts /\ prior = Null)
    BY <1>2, FromAPI DEF Applied, Built
  <1>3. QED
    BY <1>1, <1>2

\* An answer with the numbers of the prior map changes nothing but the protocols
\* that are not set.
LEMMA Refreshed ==
    ASSUME NEW prior, Good(prior), NEW answer \in PortMap,
           Numbers(prior) = DOMAIN answer, NEW new \in PortMapsFromAPI(prior, answer)
    PROVE  new = Filled(prior, answer)
  <1>0. prior \in [DOMAIN prior -> StatePort]
    BY GoodMap
  <1>1. CASE answer = NoPorts
    <2>1. new = prior
      BY <1>1, GoodMap DEF PortMapsFromAPI
    <2>2. DOMAIN prior = {}
      BY <1>1 DEF Numbers, NoPorts
    <2>3. QED
      BY <1>0, <2>1, <2>2 DEF Filled
  <1>2. CASE answer # NoPorts
    <2>1. Built(prior, answer, new)
      BY <1>2, FromAPI
    <2>2. DOMAIN new = DOMAIN prior
      <3>1. \A k \in DOMAIN prior : prior[k].port \in DOMAIN answer
                                    /\ PortKey(prior, prior[k].port) = k
        BY KeyOfNumber DEF Numbers
      <3>2. \A n \in DOMAIN answer : \E k \in DOMAIN prior : n = prior[k].port
        BY DEF Numbers
      <3>3. DOMAIN new = {PortKey(prior, n) : n \in DOMAIN answer}
        BY <2>1 DEF Built
      <3>4. DOMAIN new \subseteq DOMAIN prior
        BY <3>1, <3>2, <3>3
      <3>5. DOMAIN prior \subseteq DOMAIN new
        BY <3>1, <3>3
      <3>6. QED
        BY <3>4, <3>5
    <2>3. ASSUME NEW k \in DOMAIN prior
          PROVE  new[k] = [prior[k] EXCEPT !.protocol = IF prior[k].protocol = Null
                              THEN answer[prior[k].port] ELSE prior[k].protocol]
      <3>1. new[k].port \in DOMAIN answer /\ PortKey(prior, new[k].port) = k
        BY <2>1, <2>2 DEF Built, Numbers
      <3>2. PICK j \in DOMAIN prior : new[k].port = prior[j].port
        BY <3>1 DEF Numbers
      <3>3. j = k
        BY <3>1, <3>2, KeyOfNumber
      <3>4. new[k] = PortEntry(prior, prior[k].port, answer[prior[k].port])
        BY <2>1, <2>2, <3>2, <3>3 DEF Built
      <3>5. PriorKeys(prior, prior[k].port) # {} /\ PortKey(prior, prior[k].port) = k
        BY KeyOfNumber
      <3>6. QED
        BY <3>4, <3>5 DEF PortEntry
    <2>4. new \in [DOMAIN prior -> StatePort]
      BY <2>1, <2>2, GoodMap DEF Built
    <2>5. QED
      BY <2>2, <2>3, <2>4 DEF Filled
  <1>3. QED
    BY <1>1, <1>2

\* Filling protocols in keeps all else, and a second time it keeps everything.
LEMMA FilledType ==
    ASSUME NEW map, Good(map), NEW answer \in PortMap, Numbers(map) = DOMAIN answer
    PROVE  /\ Good(Filled(map, answer))
           /\ DOMAIN Filled(map, answer) = DOMAIN map
           /\ Numbers(Filled(map, answer)) = DOMAIN answer
           /\ \A k \in DOMAIN map :
                 /\ Filled(map, answer)[k].protocol # Null
                 /\ Filled(map, answer)[k].port = map[k].port
                 /\ Filled(map, answer)[k].settings = map[k].settings
                 /\ map[k].protocol # Null => Filled(map, answer)[k] = map[k]
  <1> DEFINE new == Filled(map, answer)
  <1>1. map \in [DOMAIN map -> StatePort] /\ DOMAIN map \subseteq LogicalName
    BY GoodMap
  <1>2. ASSUME NEW k \in DOMAIN map
        PROVE  /\ new[k] \in StatePort /\ new[k].protocol # Null
               /\ new[k].port = map[k].port /\ new[k].settings = map[k].settings
               /\ map[k].protocol # Null => new[k] = map[k]
    <2>1. answer[map[k].port] \in Protocol /\ answer[map[k].port] # Null
      BY AnswerType DEF Numbers
    <2>2. new[k] = [map[k] EXCEPT !.protocol = IF map[k].protocol = Null
                      THEN answer[map[k].port] ELSE map[k].protocol]
      BY DEF Filled
    <2>3. map[k] \in StatePort
      BY <1>1
    <2>4. QED
      BY <2>1, <2>2, <2>3 DEF StatePort
  <1>3. DOMAIN new = DOMAIN map /\ new \in [DOMAIN map -> StatePort]
    BY <1>2 DEF Filled
  <1>4. Distinct(new)
    BY <1>2, <1>3 DEF Good, Distinct
  <1>5. Good(new)
    BY <1>1, <1>3, <1>4, MapGood
  <1>6. Numbers(new) = Numbers(map)
    BY <1>2, <1>3 DEF Numbers
  <1>7. QED
    BY <1>2, <1>3, <1>5, <1>6

LEMMA FilledSame ==
    ASSUME NEW map, Good(map), NEW answer, \A k \in DOMAIN map : map[k].protocol # Null
    PROVE  Filled(map, answer) = map
  <1>1. map \in [DOMAIN map -> StatePort]
    BY GoodMap
  <1>2. \A k \in DOMAIN map : Filled(map, answer)[k] = map[k]
    BY <1>1 DEF Filled, StatePort
  <1>3. QED
    BY <1>1, <1>2 DEF Filled

\* What the service makes of a request.
LEMMA ServeType ==
    ASSUME NEW map, Good(map)
    PROVE  /\ Serve(map) \in PortMap
           /\ DOMAIN Serve(map) = Numbers(map)
           /\ Serve(NoPorts) = NoPorts
           /\ Serve(map) = NoPorts => map = NoPorts
  <1>1. map \in [DOMAIN map -> StatePort] /\ Numbers(map) \subseteq PortNumber
    BY GoodMap
  <1>2. DOMAIN Serve(map) = Numbers(map)
    BY DEF Serve, Numbers
  <1>3. \A n \in Numbers(map) : Serve(map)[n] \in Protocol
    <2> SUFFICES ASSUME NEW n \in Numbers(map) PROVE Serve(map)[n] \in Protocol
      OBVIOUS
    <2> DEFINE k == CHOOSE k \in DOMAIN map : map[k].port = n
    <2>1. \E j \in DOMAIN map : map[j].port = n
      BY DEF Numbers
    <2>2. k \in DOMAIN map
      BY <2>1
    <2>3. map[k].protocol \in Protocol \cup {Null}
      BY <1>1, <2>2 DEF StatePort
    <2>4. Serve(map)[n] = IF map[k].protocol = Null THEN "Http" ELSE map[k].protocol
      BY DEF Serve, Numbers
    <2>5. QED
      BY <2>3, <2>4 DEF Protocol
  <1>4. Serve(map) \in [Numbers(map) -> Protocol]
    BY <1>2, <1>3 DEF Serve, Numbers
  <1>5. Serve(map) \in PortMap
    BY <1>1, <1>4 DEF PortMap
  <1>6. Serve(NoPorts) = NoPorts
    BY DEF Serve, NoPorts
  <1>7. ASSUME Serve(map) = NoPorts PROVE map = NoPorts
    <2>1. DOMAIN map = {}
      BY <1>2, <1>7 DEF Numbers, NoPorts
    <2>2. QED
      BY <1>1, <2>1, NoKeys
  <1>8. QED
    BY <1>2, <1>5, <1>6, <1>7

\* portMapFromRequests keeps all but the settings that leave something out.
LEMMA RequestedType ==
    ASSUME NEW map, Good(map)
    PROVE  /\ Good(PortMapFromRequests(map))
           /\ Numbers(PortMapFromRequests(map)) = Numbers(map)
           /\ DOMAIN PortMapFromRequests(map) = DOMAIN map
           /\ \A k \in DOMAIN map :
                 /\ PortMapFromRequests(map)[k].protocol = map[k].protocol
                 /\ PortMapFromRequests(map)[k].settings # "partial"
           /\ (\A k \in DOMAIN map : map[k].settings # "partial") =>
                 PortMapFromRequests(map) = map
  <1> DEFINE new == PortMapFromRequests(map)
  <1>1. map \in [DOMAIN map -> StatePort] /\ DOMAIN map \subseteq LogicalName
    BY GoodMap
  <1>2. ASSUME NEW k \in DOMAIN map
        PROVE  /\ new[k] \in StatePort /\ new[k].settings # "partial"
               /\ new[k].port = map[k].port /\ new[k].protocol = map[k].protocol
               /\ map[k].settings # "partial" => new[k] = map[k]
    <2>1. new[k] = [map[k] EXCEPT !.settings = IF map[k].settings = "partial"
                                                THEN "filled" ELSE map[k].settings]
      BY DEF PortMapFromRequests
    <2>2. map[k] \in StatePort
      BY <1>1
    <2>3. QED
      BY <2>1, <2>2 DEF StatePort
  <1>3. DOMAIN new = DOMAIN map /\ new \in [DOMAIN map -> StatePort]
    BY <1>2 DEF PortMapFromRequests
  <1>4. Distinct(new)
    BY <1>2, <1>3 DEF Good, Distinct
  <1>5. Good(new)
    BY <1>1, <1>3, <1>4, MapGood
  <1>6. Numbers(new) = Numbers(map)
    BY <1>2, <1>3 DEF Numbers
  <1>7. (\A k \in DOMAIN map : map[k].settings # "partial") => new = map
    BY <1>1, <1>2, <1>3
  <1>8. QED
    BY <1>2, <1>3, <1>5, <1>6, <1>7

\* The answer to a request with or without the ports, and the GET that follows.
LEMMA AnsweredTwice ==
    ASSUME NEW map, Good(map), NEW answer \in PortMap, Numbers(map) = DOMAIN answer,
           NEW first \in {NoPorts, answer}, NEW m, m = map \/ m \in PortMapsFromAPI(map, first),
           NEW new \in Applied(m, answer)
    PROVE  new = Filled(map, answer)
  <1>1. m = map \/ m = Filled(map, answer)
    <2>1. CASE first = NoPorts
      BY <2>1, GoodMap DEF PortMapsFromAPI
    <2>2. CASE first = answer
      BY <2>2, Refreshed
    <2>3. QED
      BY <2>1, <2>2
  <1>2. Good(m) /\ Numbers(m) = DOMAIN answer
    BY <1>1, FilledType
  <1>3. new \in PortMapsFromAPI(m, answer)
    BY <1>2, GoodMap DEF Applied
  <1>4. new = Filled(m, answer)
    BY <1>2, <1>3, Refreshed
  <1>5. Filled(Filled(map, answer), answer) = Filled(map, answer)
    BY FilledType, FilledSame
  <1>6. QED
    BY <1>1, <1>4, <1>5

-----------------------------------------------------------------------------
(* The ports in the state.                                                 *)

\* The state has the ports of the service, with their protocols.
Settled ==
    /\ Numbers(ports) = DOMAIN served
    /\ \A k \in DOMAIN ports : ports[k].protocol # Null

\* What a configuration needs in order to come back as it is.
Stable(map, b) ==
    \A k \in DOMAIN map : map[k].protocol # Null /\ ~(b /\ map[k].settings = "partial")

\* Nobody but the provider has set the ports: the state is settled, and equal to a
\* configuration that is stable; the service has the ports that were asked for.
PortInv ==
    /\ ports = Null \/ Good(ports)
    /\ served \in PortMap
    /\ agrees \in BOOLEAN /\ touched \in BOOLEAN /\ bare \in BOOLEAN
    /\ phase = "applied" => ports # Null
    /\ phase = "imported" => ports \in Applied(Null, served)
    /\ ports # Null /\ ~touched /\ phase # "imported" => Settled
    /\ phase = "applied" /\ ~touched =>
          IF config.ports = Null THEN agrees
          ELSE /\ agrees <=> ports = config.ports
               /\ ports = config.ports <=> Stable(config.ports, bare)
    /\ phase \in {"applied", "imported"} /\ ~touched
          /\ config.ports \notin {Null, NoPorts} => served = Serve(config.ports)

VInv == PhaseInv /\ PortInv

LEMMA ConfigGood ==
    ASSUME NEW c \in Config, Known(c), Accepts(c), c.ports # Null
    PROVE  Good(c.ports)
  <1>1. ~PortsError(c)
    BY DEF Accepts
  <1>2. PICK D \in SUBSET LogicalName : c.ports \in [D -> ConfigPort]
    BY PortsExact
  <1>3. Distinct(c.ports) /\ \A k \in D :
           /\ c.ports[k].settings \notin {"bad", "vague"}
           /\ c.ports[k].port \in PortNumber
           /\ c.ports[k].protocol \in Protocol \cup {Null}
    BY <1>1, <1>2, PortsExact
  <1>4. ASSUME NEW k \in D PROVE c.ports[k] \in StatePort
    BY <1>2, <1>3 DEF ConfigPort, StatePort
  <1>5. c.ports \in [D -> StatePort]
    BY <1>2, <1>4
  <1>6. QED
    BY <1>3, <1>5, MapGood

\* A refresh of a settled state changes nothing.
LEMMA RefreshKeeps ==
    ASSUME PortInv, Settled, ports # Null, NEW new \in Applied(ports, served)
    PROVE  new = ports
  <1>1. Good(ports) /\ new \in PortMapsFromAPI(ports, served)
    BY DEF PortInv, Applied
  <1>2. new = Filled(ports, served)
    BY <1>1, Refreshed DEF PortInv, Settled
  <1>3. QED
    BY <1>1, <1>2, FilledSame DEF Settled

\* After an apply that wrote map, and got it back with the protocols.
LEMMA Written ==
    ASSUME NEW map, Good(map), ports' = Filled(map, Serve(map)), served' = Serve(map)
    PROVE  Good(ports') /\ served' \in PortMap /\ Settled'
  <1>1. Serve(map) \in PortMap /\ DOMAIN Serve(map) = Numbers(map)
    BY ServeType
  <1>2. QED
    BY <1>1, FilledType DEF Settled

LEMMA CreatePorts == Create => PortInv'
  <1> SUFFICES ASSUME Create PROVE PortInv'
    OBVIOUS
  <1>1. PICK c \in Config : Known(c) /\ Accepts(c) /\ config' = c /\
           LET asked   == IF c.ports = Null THEN NoPorts ELSE c.ports
               planned == IF c.ports = Null THEN Unknown ELSE c.ports
               all     == Serve(asked)
           IN /\ served' = all
              /\ \E first \in {NoPorts, all} :
                    LET model == IF first = NoPorts /\ asked # NoPorts
                                 THEN PortMapFromRequests(asked) ELSE planned
                    IN /\ bare' = (first = NoPorts)
                       /\ \E m \in Applied(model, first) :
                             \E new \in Applied(m, all) :
                                ports' = new /\ agrees' = Agree(planned, new)
    BY DEF Create
  <1>2. phase' = "applied" /\ touched' = FALSE /\ config'.ports = c.ports
    BY <1>1 DEF Create
  <1>3. CASE c.ports = Null
    <2>1. Serve(NoPorts) = NoPorts
      BY EmptyGood, ServeType
    <2>2. PICK m \in Applied(Unknown, NoPorts) :
             /\ ports' \in Applied(m, NoPorts) /\ agrees' = TRUE
             /\ bare' = TRUE /\ served' = NoPorts
      BY <1>1, <1>3, <2>1 DEF Agree
    <2>3. m \in PortMapsFromAPI(Unknown, NoPorts)
      BY ConfigValuesAssumption DEF ConfigValuesAssumption, Applied
    <2>4. Built(Unknown, NoPorts, m)
      BY <2>3, FromAPI, GoodMap, EmptyGood
    <2>5. DOMAIN m = {} /\ Good(m)
      BY <2>4 DEF Built, NoPorts
    <2>6. m = NoPorts
      BY <2>5, GoodMap, NoKeys
    <2>7. ports' = Filled(NoPorts, NoPorts)
      BY <2>2, <2>6, AnsweredTwice, EmptyGood DEF NoPorts
    <2>8. ports' = Filled(NoPorts, Serve(NoPorts)) /\ served' = Serve(NoPorts)
      BY <2>1, <2>2, <2>7
    <2>9. Good(ports') /\ served' \in PortMap /\ Settled'
      BY <2>8, EmptyGood, Written
    <2>10. QED
      BY <1>2, <1>3, <2>2, <2>9, GoodMap DEF PortInv
  <1>4. CASE c.ports # Null
    <2> DEFINE p == c.ports
               all == Serve(p)
    <2>1. Good(p) /\ all \in PortMap /\ DOMAIN all = Numbers(p)
      BY <1>1, <1>4, ConfigGood, ServeType
    <2>2. PICK first \in {NoPorts, all} :
             /\ bare' = (first = NoPorts) /\ served' = all
             /\ \E m \in Applied(IF first = NoPorts /\ p # NoPorts
                                 THEN PortMapFromRequests(p) ELSE p, first) :
                   \E new \in Applied(m, all) : ports' = new /\ agrees' = Agree(p, new)
      BY <1>1, <1>4
    <2> DEFINE q == IF first = NoPorts /\ p # NoPorts THEN PortMapFromRequests(p) ELSE p
    <2>3. PICK m \in Applied(q, first) : ports' \in Applied(m, all) /\ agrees' = Agree(p, ports')
      BY <2>2
    <2>4. Good(q) /\ Numbers(q) = DOMAIN all
      BY <2>1, RequestedType
    <2>5. m \in PortMapsFromAPI(q, first)
      BY <2>4, GoodMap DEF Applied
    <2>6. ports' = Filled(q, all)
      BY <2>1, <2>3, <2>4, <2>5, AnsweredTwice
    <2>7. /\ Good(ports') /\ Numbers(ports') = DOMAIN all
          /\ DOMAIN ports' = DOMAIN q
          /\ \A k \in DOMAIN q : /\ ports'[k].protocol # Null
                                 /\ ports'[k].settings = q[k].settings
      BY <2>1, <2>4, <2>6, FilledType
    <2>8. agrees' <=> ports' = p
      BY <2>1, <2>3, GoodMap DEF Agree
    <2>9. ports' = p <=> Stable(p, bare')
      <3>1. CASE first = NoPorts /\ p # NoPorts
        <4>1. q = PortMapFromRequests(p) /\ bare' = TRUE
          BY <2>2, <3>1
        <4>2. ASSUME ports' = p PROVE Stable(p, bare')
          <5>1. \A k \in DOMAIN p : p[k].protocol # Null /\ p[k].settings # "partial"
            BY <2>1, <2>7, <4>1, <4>2, RequestedType
          <5>2. QED
            BY <5>1 DEF Stable
        <4>3. ASSUME Stable(p, bare') PROVE ports' = p
          <5>1. \A k \in DOMAIN p : p[k].protocol # Null /\ p[k].settings # "partial"
            BY <4>1, <4>3 DEF Stable
          <5>2. q = p
            BY <2>1, <4>1, <5>1, RequestedType
          <5>3. QED
            BY <2>1, <2>6, <5>1, <5>2, FilledSame
        <4>4. QED
          BY <4>2, <4>3
      <3>2. CASE ~(first = NoPorts /\ p # NoPorts)
        <4>1. q = p /\ ports' = Filled(p, all)
          BY <2>6, <3>2
        <4>2. ~bare' \/ DOMAIN p = {}
          <5>1. p = NoPorts => DOMAIN p = {}
            BY DEF NoPorts
          <5>2. first = NoPorts => p = NoPorts
            BY <3>2
          <5>3. QED
            BY <2>2, <5>1, <5>2
        <4>3. Stable(p, bare') <=> \A k \in DOMAIN p : p[k].protocol # Null
          BY <4>2 DEF Stable
        <4>4. QED
          BY <2>1, <2>7, <4>1, <4>3, FilledSame
      <3>3. QED
        BY <3>1, <3>2
    <2>10. Settled'
      BY <2>2, <2>7, <2>4 DEF Settled
    <2>11. agrees' \in BOOLEAN /\ bare' \in BOOLEAN
      BY <2>2, <2>3 DEF Agree
    <2>12. QED
      BY <1>2, <1>4, <2>1, <2>2, <2>7, <2>8, <2>9, <2>10, <2>11, GoodMap DEF PortInv
  <1>5. QED
    BY <1>3, <1>4

LEMMA UpdatePortsStep == VInv /\ Update => PortInv'
  <1> SUFFICES ASSUME VInv, Update PROVE PortInv'
    OBVIOUS
  <1> DEFINE written == config.ports \notin {Null, NoPorts} \/ PlannedPorts # ports
             q == PlannedPorts
  <1>1. /\ phase = "planned" /\ phase' = "applied" /\ config' = config
        /\ config \in Config /\ Known(config) /\ Accepts(config)
        /\ ports # Null /\ Good(ports) /\ bare' = FALSE
        /\ touched' = (touched /\ ~written)
    BY DEF VInv, PhaseInv, PortInv, Update
  <1>2. Good(q) /\ q # Null /\ q # Unknown
    BY <1>1, ConfigGood, GoodMap DEF PlannedPorts
  <1>3. CASE written
    <2>1. config.ports # Null /\ q = config.ports /\ served' = Serve(q)
      BY <1>3 DEF PlannedPorts, Update
    <2>2. PICK first \in {NoPorts, Serve(q)} :
             \E m \in PortMapsFromAPI(q, first) : \E new \in Applied(m, Serve(q)) :
                ports' = new /\ agrees' = Agree(q, new)
      BY <1>3 DEF Update
    <2>3. Serve(q) \in PortMap /\ Numbers(q) = DOMAIN Serve(q)
      BY <1>2, ServeType
    <2>4. ports' = Filled(q, Serve(q)) /\ agrees' = Agree(q, ports')
      BY <1>2, <2>2, <2>3, AnsweredTwice
    <2>5. Good(ports') /\ served' \in PortMap /\ Settled'
      BY <1>2, <2>1, <2>4, Written
    <2>6. ports' = q <=> \A k \in DOMAIN q : q[k].protocol # Null
      BY <1>2, <2>3, <2>4, FilledType, FilledSame
    <2>7. agrees' <=> ports' = q
      BY <1>2, <2>4 DEF Agree
    <2>8. agrees' \in BOOLEAN
      BY <2>4 DEF Agree
    <2>9. Stable(q, FALSE) <=> \A k \in DOMAIN q : q[k].protocol # Null
      BY DEF Stable
    <2>10. touched' = FALSE
      BY <1>1, <1>3
    <2>11. QED
      BY <1>1, <2>1, <2>5, <2>6, <2>7, <2>8, <2>9, <2>10, GoodMap DEF PortInv
  <1>4. CASE ~written
    <2>1. q = ports /\ config.ports \in {Null, NoPorts} /\ served' = served
      BY <1>4 DEF Update
    <2>2. touched' = touched
      BY <1>1, <1>4 DEF VInv, PortInv
    <2>3. ports' \in Applied(q, served) /\ agrees' = Agree(q, ports')
      BY <1>4 DEF Update
    <2>4. Good(ports') /\ ports' # Null
      BY <1>2, <2>3, AppliedType, GoodMap DEF VInv, PortInv
    <2>5. agrees' \in BOOLEAN
      BY <2>3 DEF Agree
    <2>6. ASSUME ~touched PROVE ports' = ports /\ Settled /\ agrees'
      <3>1. Settled
        BY <1>1, <2>6 DEF VInv, PortInv
      <3>2. ports' = ports
        BY <1>1, <2>1, <2>3, <3>1, RefreshKeeps DEF VInv
      <3>3. QED
        BY <2>1, <2>3, <3>1, <3>2 DEF Agree
    <2>7. ASSUME ~touched, config.ports # Null
          PROVE  ports = config.ports /\ Stable(config.ports, FALSE)
      BY <2>1, <2>7 DEF PlannedPorts, Stable, NoPorts
    <2>8. ~touched => Settled'
      BY <2>1, <2>6 DEF Settled
    <2>9. QED
      BY <1>1, <2>1, <2>2, <2>4, <2>5, <2>6, <2>7, <2>8 DEF VInv, PortInv
  <1>5. QED
    BY <1>3, <1>4

LEMMA InitVInv == Init => VInv
  BY EmptyGood DEF Init, VInv, PhaseInv, PortInv

LEMMA StepVInv == VInv /\ [Next]_vars => VInv'
  <1> SUFFICES ASSUME VInv, [Next]_vars PROVE PortInv'
    BY PhaseStep DEF VInv
  <1>1. CASE Create
    BY <1>1, CreatePorts
  <1>2. CASE Update
    BY <1>2, UpdatePortsStep
  <1>3. CASE /\ UNCHANGED <<ports, served, agrees, touched, bare>>
             /\ phase' \notin {"applied", "imported"} /\ phase # "imported"
    BY <1>3 DEF VInv, PortInv, Settled
  <1>4. CASE UNCHANGED vars
    BY <1>4 DEF VInv, PortInv, Settled, vars
  <1>5. CASE Read
    <2>1. /\ phase = "applied" /\ ports # Null /\ Good(ports) /\ served \in PortMap
          /\ ports' \in Applied(ports, served)
          /\ UNCHANGED <<phase, config, served, agrees, touched, bare>>
      BY <1>5 DEF Read, VInv, PortInv
    <2>2. Good(ports') /\ ports' # Null
      BY <2>1, AppliedType, GoodMap
    <2>3. ~touched => ports' = ports
      BY <2>1, RefreshKeeps DEF VInv, PortInv
    <2>4. QED
      BY <2>1, <2>2, <2>3 DEF VInv, PortInv, Settled
  <1>6. CASE ImportState
    <2>1. /\ served \in PortMap /\ ports' \in Applied(Null, served)
          /\ phase = "applied" /\ phase' = "imported"
          /\ UNCHANGED <<config, served, agrees, touched, bare>>
      BY <1>6 DEF ImportState, VInv, PortInv
    <2>2. ports' = Null \/ Good(ports')
      BY <2>1, AppliedType
    <2>3. QED
      BY <2>1, <2>2 DEF VInv, PortInv
  <1>7. CASE Outside
    BY <1>7 DEF Outside, VInv, PortInv
  <1>8. QED
    BY <1>1, <1>2, <1>3, <1>4, <1>5, <1>6, <1>7 DEF Next, Plan, ApplyRejected, EditPorts

-----------------------------------------------------------------------------
(* The theorems.                                                           *)

LEMMA Invariance == Spec => []VInv
  BY InitVInv, StepVInv, PTL DEF Spec

\* The state never holds an unknown value or two entries of one number, whatever
\* was planned and whatever the service answered.
THEOREM TypeCorrect == Spec => []TypeOK
  <1>1. VInv => TypeOK
    BY DEF VInv, PhaseInv, PortInv, TypeOK, Good
  <1>2. QED
    BY <1>1, Invariance, PTL

\* Validation rejects a known configuration exactly if it breaks a rule.
THEOREM ValidationIsExact == Spec => []ValidationExact
  <1>1. VInv => ValidationExact
    BY AcceptsSound DEF VInv, PhaseInv, ValidationExact
  <1>2. QED
    BY <1>1, Invariance, PTL

\* Validation does not reject too early: but for the unknown values that it takes
\* for absent or zero, no completion of what it rejects would keep the rules.
THEOREM RejectionsHaveCause == Spec => []RejectedForCause
  <1>1. VInv => RejectedForCause
    BY ErrorsStay DEF VInv, PhaseInv, RejectedForCause
  <1>2. QED
    BY <1>1, Invariance, PTL

\* Ports that the configuration gives in full are returned as planned and stay so,
\* so that the next plan is empty.
THEOREM CompletePortsStay == Spec => []CompletePortsKept
  <1>1. ASSUME VInv PROVE CompletePortsKept
    <2> SUFFICES ASSUME phase = "applied", ~touched,
                        config.ports = Null \/ Stable(config.ports, bare)
                 PROVE  agrees /\ PlanEmpty
      BY DEF CompletePortsKept, Stable
    <2>1. PortInv /\ ports # Null /\ Settled
      BY <1>1 DEF VInv, PortInv
    <2>2. \A new \in Applied(ports, served) : new = ports
      BY <2>1, RefreshKeeps
    <2>3. CASE config.ports = Null
      BY <2>1, <2>3 DEF PortInv, PlanEmpty
    <2>4. CASE config.ports # Null
      <3>1. agrees /\ ports = config.ports
        BY <2>1, <2>4 DEF PortInv
      <3>2. QED
        BY <2>2, <3>1 DEF PlanEmpty
    <2>5. QED
      BY <2>3, <2>4
  <1>2. QED
    BY <1>1, Invariance, PTL

\* Two numbers of the service that get one key: the decimal notation of one of
\* them is the name of another.
LEMMA KeysClash ==
    ASSUME NEW prior, prior \in {Null, Unknown} \/ Good(prior),
           NEW n \in PortNumber, NEW m \in PortNumber, n # m,
           PortKey(prior, n) = PortKey(prior, m)
    PROVE  \E x \in {n, m} : /\ Decimal[x] \in DOMAIN prior
                             /\ prior[Decimal[x]].port # x
  <1>1. CASE PriorKeys(prior, n) = {} /\ PriorKeys(prior, m) = {}
    BY <1>1, ValuesAssumption DEF PortKey, ValuesAssumption
  <1>2. CASE PriorKeys(prior, n) = {} /\ PriorKeys(prior, m) # {}
    BY <1>2, KeyCases
  <1>3. CASE PriorKeys(prior, n) # {} /\ PriorKeys(prior, m) = {}
    BY <1>3, KeyCases
  <1>4. CASE PriorKeys(prior, n) # {} /\ PriorKeys(prior, m) # {}
    BY <1>4, KeyCases
  <1>5. QED
    BY <1>1, <1>2, <1>3, <1>4

\* A refresh shows the ports that the service has, but for an answer without any
\* and for logical names that are the decimal notation of another port.
THEOREM PortsAreShown == Spec => []PortsShown
  <1>1. ASSUME VInv PROVE PortsShown
    <2> SUFFICES ASSUME phase = "applied", NEW new \in Applied(ports, served)
                 PROVE  LET shown   == {new[k].port : k \in DOMAIN new}
                            clashes == {n \in DOMAIN served :
                                           \E m \in DOMAIN served \ {n} :
                                              PortKey(ports, m) = PortKey(ports, n)}
                        IN \/ served = NoPorts /\ new = ports
                           \/ /\ shown \subseteq DOMAIN served
                              /\ DOMAIN served \ shown \subseteq clashes
                              /\ clashes # {} => \E k \in DOMAIN ports, n \in DOMAIN served :
                                    k = Decimal[n] /\ ports[k].port # n
      BY DEF PortsShown
    <2> DEFINE shown   == {new[k].port : k \in DOMAIN new}
               clashes == {n \in DOMAIN served :
                              \E m \in DOMAIN served \ {n} :
                                 PortKey(ports, m) = PortKey(ports, n)}
    <2>1. ports # Null /\ Good(ports) /\ served \in PortMap
      BY <1>1 DEF VInv, PortInv
    <2>2. new \in PortMapsFromAPI(ports, served)
      BY <2>1 DEF Applied
    <2>3. DOMAIN served \subseteq PortNumber
      BY <2>1, AnswerType
    <2>4. CASE served = NoPorts /\ new = ports
      BY <2>4
    <2>5. CASE Built(ports, served, new)
      <3>1. shown \subseteq DOMAIN served
        BY <2>5 DEF Built, Numbers
      <3>2. ASSUME NEW n \in DOMAIN served \ shown PROVE n \in clashes
        <4> DEFINE k == PortKey(ports, n)
        <4>1. k \in DOMAIN new
          BY <2>5 DEF Built
        <4>2. new[k].port \in DOMAIN served /\ PortKey(ports, new[k].port) = k
          BY <2>5, <4>1 DEF Built, Numbers
        <4>3. new[k].port # n
          BY <4>1
        <4>4. QED
          BY <4>2, <4>3
      <3>3. ASSUME clashes # {}
            PROVE  \E k \in DOMAIN ports, n \in DOMAIN served :
                      k = Decimal[n] /\ ports[k].port # n
        <4>1. PICK n \in DOMAIN served, m \in DOMAIN served :
                 n # m /\ PortKey(ports, m) = PortKey(ports, n)
          BY <3>3
        <4>2. PICK x \in {n, m} : Decimal[x] \in DOMAIN ports /\ ports[Decimal[x]].port # x
          BY <2>1, <2>3, <4>1, KeysClash
        <4>3. QED
          BY <4>1, <4>2
      <3>4. QED
        BY <3>1, <3>2, <3>3
    <2>6. QED
      BY <2>1, <2>2, <2>4, <2>5, FromAPI
  <1>2. QED
    BY <1>1, Invariance, PTL

\* A configuration of restorable attributes, with ports that are named by their
\* numbers and say no more than the service returns, survives an import.
THEOREM ImportRestores == Spec => []RestorableImported
  <1>1. ASSUME VInv, phase = "imported", ~touched, config.ports \notin {Null, NoPorts},
               \A k \in DOMAIN config.ports :
                  /\ k = Decimal[config.ports[k].port]
                  /\ config.ports[k].protocol # Null
                  /\ config.ports[k].settings = Null
        PROVE  ports = config.ports
    <2> DEFINE p == config.ports
    <2>1. /\ served \in PortMap /\ ports \in Applied(Null, served)
          /\ served = Serve(p) /\ Good(p)
      BY <1>1, ConfigGood DEF VInv, PhaseInv, PortInv
    <2>2. p \in [DOMAIN p -> StatePort] /\ Distinct(p)
      BY <2>1, GoodMap DEF Good
    <2>3. DOMAIN served = Numbers(p) /\ served # NoPorts
      BY <1>1, <2>1, ServeType
    <2>4. ASSUME NEW k \in DOMAIN p
          PROVE  /\ p[k].port \in DOMAIN served
                 /\ served[p[k].port] = p[k].protocol
      <3> DEFINE n == p[k].port
                 j == CHOOSE j \in DOMAIN p : p[j].port = n
      <3>1. n \in Numbers(p)
        BY DEF Numbers
      <3>2. j \in DOMAIN p /\ p[j].port = n
        OBVIOUS
      <3>3. j = k
        BY <2>2, <3>2 DEF Distinct
      <3>4. Serve(p)[n] = IF p[j].protocol = Null THEN "Http" ELSE p[j].protocol
        BY <3>1 DEF Serve, Numbers
      <3>5. QED
        BY <1>1, <2>1, <2>3, <3>1, <3>3, <3>4
    <2>5. ASSUME NEW k \in DOMAIN p
          PROVE  p[k] = [port |-> p[k].port, protocol |-> served[p[k].port],
                         settings |-> Null]
      BY <1>1, <2>2, <2>4 DEF StatePort
    <2>6. ports \in PortMapsFromAPI(Null, served)
      BY <2>1, <2>3 DEF Applied
    <2>7. Built(Null, served, ports)
      BY <2>1, <2>3, <2>6, FromAPI
    <2>8. \A n : PriorKeys(Null, n) = {} /\ PortKey(Null, n) = Decimal[n]
      BY DEF PriorKeys, PortKey
    <2>9. DOMAIN ports = {Decimal[n] : n \in DOMAIN served}
      BY <2>7, <2>8 DEF Built
    <2>10. DOMAIN served \subseteq PortNumber
      BY <2>1, AnswerType
    <2>11. ASSUME NEW n \in DOMAIN served
          PROVE  ports[Decimal[n]] =
                    [port |-> n, protocol |-> served[n], settings |-> Null]
      <3>1. Decimal[n] \in DOMAIN ports
        BY <2>9
      <3>2. /\ ports[Decimal[n]].port \in DOMAIN served
            /\ Decimal[ports[Decimal[n]].port] = Decimal[n]
        BY <2>7, <2>8, <3>1 DEF Built, Numbers
      <3>3. ports[Decimal[n]].port = n
        BY <2>10, <3>2, ValuesAssumption DEF ValuesAssumption
      <3>4. ports[Decimal[n]] = PortEntry(Null, n, served[n])
        BY <2>7, <3>1, <3>3 DEF Built
      <3>5. QED
        BY <2>8, <3>4 DEF PortEntry
    <2>12. DOMAIN p = DOMAIN ports
      BY <1>1, <2>3, <2>4, <2>9 DEF Numbers
    <2>13. ASSUME NEW k \in DOMAIN p PROVE ports[k] = p[k]
      BY <1>1, <2>4, <2>5, <2>11
    <2>14. ports \in [DOMAIN ports -> StatePort]
      BY <2>7, GoodMap DEF Built
    <2>15. QED
      BY <2>2, <2>12, <2>13, <2>14
  <1>2. VInv => RestorableImported
    <2> SUFFICES ASSUME VInv, phase = "imported", ~touched,
                        config.environment.known = {}, config.version = Null,
                        config.others \subseteq Readable, config.ports # NoPorts,
                        config.ports # Null => \A k \in DOMAIN config.ports :
                           /\ k = Decimal[config.ports[k].port]
                           /\ config.ports[k].protocol # Null
                           /\ config.ports[k].settings = Null
                 PROVE  PlanAfterImport = {}
      BY DEF RestorableImported
    <2>1. config.ports \in {Null, ports}
      BY <1>1
    <2>2. QED
      BY <2>1 DEF PlanAfterImport
  <1>3. QED
    BY <1>2, Invariance, PTL
=============================================================================
