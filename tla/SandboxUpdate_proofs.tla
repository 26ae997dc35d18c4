------------------------ MODULE SandboxUpdate_proofs ------------------------
(***************************************************************************)
(* Proofs about SandboxUpdate for every set of policies, ports, settings   *)
(* and configurations.                                                     *)
(***************************************************************************)
EXTENDS SandboxUpdate, TLAPS

-----------------------------------------------------------------------------
(* The conversions.                                                        *)

\* A plan has a value for every attribute.
LEMMA PlanType ==
    ASSUME config \in Config, state \in Attributes(PortMap)
    PROVE  Plan \in Attributes(PortMap)
  BY UpdateAssumption DEF UpdateAssumption, Plan, PlanFrom, Attributes

\* A refreshed port map is a port map.
LEMMA RefreshPortsType ==
    ASSUME NEW prior \in PortMap, NEW ports \in PortMap
    PROVE  RefreshPorts(prior, ports) \in PortMap
<1>1. PICK S \in SUBSET PortNumber : ports \in [S -> Setting]
  BY DEF PortMap
<1>2. PICK T \in SUBSET PortNumber : prior \in [T -> Setting]
  BY DEF PortMap
<1>3. CASE ports = NoPorts
  BY <1>3 DEF RefreshPorts
<1>4. CASE ports # NoPorts
  <2>1. RefreshPorts(prior, ports) =
           [n \in S |-> IF n \in T THEN prior[n] ELSE Bare]
    BY <1>1, <1>2, <1>4 DEF RefreshPorts
  <2>2. RefreshPorts(prior, ports) \in [S -> Setting]
    BY <2>1, <1>2, UpdateAssumption DEF UpdateAssumption
  <2> QED
    BY <2>2 DEF PortMap
<1> QED
  BY <1>3, <1>4

\* An answer that repeats the prior entries changes nothing.
LEMMA RefreshPortsSame ==
    ASSUME NEW ports \in PortMap
    PROVE  RefreshPorts(ports, ports) = ports
<1>1. PICK S \in SUBSET PortNumber : ports \in [S -> Setting]
  BY DEF PortMap
<1> QED
  BY <1>1 DEF RefreshPorts

\* A refreshed state has a value for every attribute.
LEMMA RefreshedType ==
    ASSUME TypeOK, NEW s \in Attributes(PortMap)
    PROVE  Refreshed(s) \in Attributes(PortMap)
<1>1. s.ports \in PortMap /\ remote.ports \in PortMap
  BY DEF TypeOK, Attributes
<1>2. RefreshPorts(s.ports, remote.ports) \in PortMap
  BY <1>1, RefreshPortsType
<1> QED
  BY <1>2 DEF Refreshed, Attributes

\* What is sent is what the service can have.
LEMMA RequestType ==
    ASSUME NEW s \in Attributes(PortMap)
    PROVE  /\ Request("auto_suspend", s.auto_suspend) \in Policy
           /\ Request("egress_policy", s.egress_policy) \in Policy
           /\ Request("ports", s.ports) \in PortMap
           /\ Request("ports", s.ports) = s.ports
  BY UpdateAssumption DEF UpdateAssumption, Request, Attributes

-----------------------------------------------------------------------------
(* Type correctness.                                                       *)

\* The empty map is a port map.
LEMMA NoPortsType == NoPorts \in PortMap
<1>1. NoPorts \in [{} -> Setting]
  BY DEF NoPorts
<1> QED
  BY <1>1 DEF PortMap

\* The initial state is well typed.
LEMMA TypeInit == Init => TypeOK
<1> SUFFICES ASSUME Init PROVE TypeOK
  OBVIOUS
<1>1. state \in Attributes(PortMap)
  BY NoPortsType, UpdateAssumption DEF UpdateAssumption, Init, Attributes
<1>2. remote \in [auto_suspend : Policy, egress_policy : Policy, ports : PortMap]
  BY <1>1, RequestType DEF Init, Attr
<1> QED
  BY <1>1, <1>2 DEF Init, TypeOK, Power, Place, Step

\* A write of a planned value leaves the service's attributes well typed.
LEMMA WriteType ==
    ASSUME TypeOK, NEW k \in Attr
    PROVE  [remote EXCEPT ![k] = Request(k, Plan[k])] \in
              [auto_suspend : Policy, egress_policy : Policy, ports : PortMap]
<1>1. Plan \in Attributes(PortMap)
  BY PlanType DEF TypeOK
<1>2. CASE k = "auto_suspend"
  BY <1>1, <1>2, RequestType DEF TypeOK, Attributes
<1>3. CASE k = "egress_policy"
  BY <1>1, <1>3, RequestType DEF TypeOK, Attributes
<1>4. CASE k = "ports"
  BY <1>1, <1>4, RequestType DEF TypeOK, Attributes
<1> QED
  BY <1>2, <1>3, <1>4 DEF Attr

\* The ways a call goes on keep the type of what they determine.
LEMMA AfterType == \A k \in Attr : After(k) \in Place \ {"return"}
  BY DEF After, Attr, Place

\* Moving on and failing leave the handler well typed.
LEMMA MoveType ==
    ASSUME TypeOK,
           \/ \E place \in Place, s \in Step : Goto(place, s)
           \/ Fail
    PROVE  /\ config' \in Config
           /\ state' \in Attributes(PortMap)
           /\ resp' \in Attributes(PortMap)
           /\ at' \in Place
           /\ step' \in Step
           /\ expired' \in BOOLEAN
           /\ err' \in BOOLEAN
  BY DEF TypeOK, Goto, Fail, Place, Step

\* Every step of Update keeps the state well typed.
LEMMA UpdateType ==
    ASSUME TypeOK, NEW k \in Attr, Update(k)
    PROVE  TypeOK'
<1>1. After(k) \in Place /\ k \in Place
  BY AfterType DEF Place
<1>2. "write" \in Step /\ "resume" \in Step /\ "wait" \in Step /\ "retry" \in Step
  BY DEF Step
<1>3. CASE WriteApplied(k)
  <2>1. remote' \in [auto_suspend : Policy, egress_policy : Policy, ports : PortMap]
    BY <1>3, WriteType DEF WriteApplied
  <2>2. Goto(After(k), "write") \/ Fail
    BY <1>3 DEF WriteApplied
  <2>3. power' \in Power /\ lost' \in SUBSET Attr
    BY <1>3 DEF WriteApplied, TypeOK
  <2> QED
    BY <1>1, <1>2, <2>1, <2>2, <2>3, MoveType DEF TypeOK
<1>4. CASE ResumeAccepted(k)
  <2>1. power' \in Power /\ UNCHANGED <<remote, lost>>
    BY <1>4 DEF ResumeAccepted, Power
  <2>2. Goto(k, "wait") \/ Fail
    BY <1>4 DEF ResumeAccepted
  <2> QED
    BY <1>1, <1>2, <2>1, <2>2, MoveType DEF TypeOK
<1>5. CASE /\ UNCHANGED <<remote, power, lost>>
           /\ \/ \E place \in Place, s \in Step : Goto(place, s)
              \/ Fail
  BY <1>5, MoveType DEF TypeOK
<1>6. CASE ~WriteApplied(k) /\ ~ResumeAccepted(k)
  <2>1. UNCHANGED <<remote, power, lost>>
    BY <1>6 DEF Update, Skip, WriteConflicts, WriteFails, ResumeConflicts,
         ResumeFails, WaitRunning, WaitTerminal
  <2>2. \/ Goto(After(k), "write") \/ Goto(k, "resume")
        \/ Goto(k, "wait") \/ Goto(k, "retry") \/ Fail
    BY <1>6 DEF Update, Skip, WriteConflicts, WriteFails, ResumeConflicts,
         ResumeFails, WaitRunning, WaitTerminal
  <2> QED
    BY <1>1, <1>2, <1>5, <2>1, <2>2
<1> QED
  BY <1>3, <1>4, <1>6

\* Every step keeps the state well typed.
LEMMA TypeStep == TypeOK /\ [Next]_vars => TypeOK'
<1> SUFFICES ASSUME TypeOK, [Next]_vars PROVE TypeOK'
  OBVIOUS
<1> USE DEF handler
<1>1. CASE UNCHANGED vars
  BY <1>1 DEF vars, TypeOK
<1>2. CASE EditConfig
  BY <1>2 DEF EditConfig, TypeOK
<1>3. CASE Read
  <2>1. state' \in Attributes(PortMap)
    BY <1>3, RefreshedType DEF Read, TypeOK
  <2> QED
    BY <1>3, <2>1 DEF Read, TypeOK
<1>4. CASE BeginUpdate
  BY <1>4 DEF BeginUpdate, TypeOK, Place, Attr
<1>5. ASSUME NEW k \in Attr, Update(k) PROVE TypeOK'
  BY <1>5, UpdateType
<1>6. CASE Get
  <2>1. resp' \in Attributes(PortMap)
    BY <1>6, PlanType, RefreshedType DEF Get, TypeOK
  <2> QED
    BY <1>6, <2>1 DEF Get, TypeOK, Place
<1>7. CASE GetFails
  BY <1>7, MoveType DEF GetFails, TypeOK
<1>8. CASE Deliver
  BY <1>8 DEF Deliver, TypeOK, Place
<1>9. CASE Expire
  BY <1>9 DEF Expire, TypeOK
<1>10. CASE Crash
  BY <1>10 DEF Crash, TypeOK, Place, Step
<1>11. CASE ServiceMoves
  BY <1>11 DEF ServiceMoves, TypeOK, Moves, Power
<1> QED
  BY <1>1, <1>2, <1>3, <1>4, <1>5, <1>6, <1>7, <1>8, <1>9, <1>10, <1>11 DEF Next

(* The types of all variables, in every reachable state (SandboxUpdate's   *)
(* Update, Read and their environment).                                    *)
THEOREM TypeCorrect == Spec => []TypeOK
  BY TypeInit, TypeStep, PTL DEF Spec

-----------------------------------------------------------------------------
(* What a step does to the plan and to the attributes dealt with.          *)

\* The plan depends on nothing but the configuration and the state.
LEMMA SamePlan ==
    ASSUME UNCHANGED <<config, state>>
    PROVE  Plan' = Plan /\ \A k \in Attr : Changed(k)' <=> Changed(k)
  BY DEF Plan, PlanFrom, Changed

\* A call in flight keeps its plan.
LEMMA UpdateKeepsPlan ==
    ASSUME NEW k \in Attr, Update(k)
    PROVE  UNCHANGED <<config, state, resp>> /\ at = k
  BY DEF Update, Skip, WriteApplied, Writes, WriteConflicts, WriteFails,
     ResumeAccepted, ResumeConflicts, ResumeFails, WaitRunning, WaitTerminal,
     Goto, Fail

\* Moving on from an attribute adds it to those that have been passed.
LEMMA PassedAfter ==
    ASSUME NEW k \in Attr, at = k, at' = After(k), Goto(After(k), "write")
    PROVE  Passed' = Passed \cup {k}
  BY DEF Passed, After, Attr, Goto

\* A step of Update fails, stays at its attribute or is done with it.
LEMMA UpdateOutcome ==
    ASSUME NEW k \in Attr, Update(k)
    PROVE  \/ Fail
           \/ at' = k /\ UNCHANGED <<err, remote>>
           \/ Goto(After(k), "write") /\ (Skip(k) \/ WriteApplied(k))
<1>1. CASE Skip(k)
  BY <1>1 DEF Skip
<1>2. CASE WriteApplied(k)
  BY <1>2 DEF WriteApplied
<1>3. CASE ~Skip(k) /\ ~WriteApplied(k)
  BY <1>3 DEF Update, WriteConflicts, WriteFails, ResumeAccepted,
     ResumeConflicts, ResumeFails, WaitRunning, WaitTerminal, Goto
<1> QED
  BY <1>1, <1>2, <1>3

\* What a call has passed stays applied.
LEMMA PassedStep ==
    ASSUME TypeOK, RespInv, PassedInv, [Next]_vars
    PROVE  PassedInv'
<1>1. CASE UNCHANGED vars
  BY <1>1, SamePlan DEF vars, PassedInv, Passed
<1>2. CASE EditConfig \/ Read \/ BeginUpdate \/ Deliver \/ Crash
  <2>1. at' \in {"idle", "auto_suspend"}
    BY <1>2 DEF EditConfig, Read, BeginUpdate, Deliver, Crash, handler
  <2> QED
    BY <2>1 DEF PassedInv, Passed
<1>3. ASSUME NEW k \in Attr, Update(k) PROVE PassedInv'
  <2>1. Plan' = Plan /\ \A j \in Attr : Changed(j)' <=> Changed(j)
    BY <1>3, UpdateKeepsPlan, SamePlan
  <2>2. at = k
    BY <1>3, UpdateKeepsPlan
  <2>3. CASE Fail
    BY <2>3 DEF PassedInv, Passed, Fail
  <2>4. CASE at' = k /\ UNCHANGED <<err, remote>>
    <3>1. Passed' = Passed /\ Passed \subseteq Attr
      BY <2>2, <2>4 DEF Passed, Attr
    <3> QED
      BY <2>1, <2>4, <3>1 DEF PassedInv
  <2>5. CASE Goto(After(k), "write") /\ Skip(k)
    <3>1. Passed' = Passed \cup {k} /\ Passed \subseteq Attr
      BY <2>2, <2>5, PassedAfter DEF Goto, Passed, Attr
    <3> QED
      BY <2>1, <2>5, <3>1 DEF PassedInv, Skip
  <2>6. CASE Goto(After(k), "write") /\ WriteApplied(k)
    <3>1. Passed' = Passed \cup {k} /\ Passed \subseteq Attr
      BY <2>2, <2>6, PassedAfter DEF Goto, Passed, Attr
    <3>2. \A j \in Attr :
             remote'[j] = IF j = k THEN Request(k, Plan[k]) ELSE remote[j]
      BY <2>6 DEF WriteApplied, TypeOK, Attr
    <3> QED
      BY <2>1, <3>1, <3>2 DEF PassedInv
  <2> QED
    BY <1>3, <2>3, <2>4, <2>5, <2>6, UpdateOutcome
<1>4. CASE Get
  <2>1. at = "get" /\ at' = "return" /\ ~err /\ ~err'
    BY <1>4 DEF Get, RespInv
  <2>2. Passed = Attr /\ Passed' = Attr
    BY <2>1 DEF Passed
  <2>3. UNCHANGED <<config, state, remote>>
    BY <1>4 DEF Get
  <2> QED
    BY <2>2, <2>3, SamePlan DEF PassedInv
<1>5. CASE GetFails
  BY <1>5 DEF GetFails, Fail, PassedInv, Passed
<1>6. CASE Expire \/ ServiceMoves
  <2>1. UNCHANGED <<config, state, remote, at, err>>
    BY <1>6 DEF Expire, ServiceMoves, handler
  <2>2. Passed' = Passed /\ Passed \subseteq Attr
    BY <2>1 DEF Passed, Attr
  <2> QED
    BY <2>1, <2>2, SamePlan DEF PassedInv
<1> QED
  BY <1>1, <1>2, <1>3, <1>4, <1>5, <1>6 DEF Next

-----------------------------------------------------------------------------
(* resp.State is the prior state, or the plan once the final GET is done.  *)

\* resp.State stays the prior state until the final GET.
LEMMA RespStep ==
    ASSUME TypeOK, RespInv, [Next]_vars
    PROVE  RespInv'
<1>1. CASE UNCHANGED vars
  BY <1>1 DEF vars, RespInv, Refreshed, Plan, PlanFrom
<1>2. CASE EditConfig \/ BeginUpdate
  BY <1>2 DEF EditConfig, BeginUpdate, RespInv, handler
<1>3. CASE Read
  BY <1>3 DEF Read, RespInv
<1>4. ASSUME NEW k \in Attr, Update(k) PROVE RespInv'
  <2>1. UNCHANGED <<state, resp>> /\ at = k
    BY <1>4, UpdateKeepsPlan
  <2>2. at # "return" /\ ~err /\ resp = state
    BY <2>1 DEF RespInv, Attr
  <2>3. CASE Fail
    BY <2>1, <2>2, <2>3 DEF RespInv, Fail
  <2>4. CASE at' = k /\ UNCHANGED <<err, remote>>
    BY <2>1, <2>2, <2>4 DEF RespInv
  <2>5. CASE Goto(After(k), "write")
    BY <2>1, <2>2, <2>5, AfterType DEF RespInv, Goto
  <2> QED
    BY <1>4, <2>3, <2>4, <2>5, UpdateOutcome
<1>5. CASE Get
  <2>1. Refreshed(Plan)' = Refreshed(Plan)
    BY <1>5 DEF Get, Refreshed, Plan, PlanFrom
  <2> QED
    BY <1>5, <2>1 DEF Get, RespInv
<1>6. CASE GetFails
  BY <1>6 DEF GetFails, Fail, RespInv
<1>7. CASE Deliver
  BY <1>7 DEF Deliver, RespInv
<1>8. CASE Crash
  BY <1>8 DEF Crash, RespInv
<1>9. CASE Expire \/ ServiceMoves
  <2>1. UNCHANGED <<config, state, remote, at, err, resp>>
    BY <1>9 DEF Expire, ServiceMoves, handler
  <2> QED
    BY <2>1 DEF RespInv, Refreshed, Plan, PlanFrom
<1> QED
  BY <1>1, <1>2, <1>3, <1>4, <1>5, <1>6, <1>7, <1>8, <1>9 DEF Next

-----------------------------------------------------------------------------
(* Drift between Terraform's state and the service.                        *)

\* Refreshing a state does not hide or invent drift: the ports of a state that
\* agrees with the service stay as they are.
LEMMA RefreshedSame ==
    ASSUME TypeOK, NEW s \in Attributes(PortMap),
           remote["ports"] = Request("ports", s["ports"])
    PROVE  \A k \in Attr : Refreshed(s)[k] = s[k]
<1>1. s.ports \in PortMap /\ remote.ports = s.ports
  BY RequestType DEF Attributes
<1>2. RefreshPorts(s.ports, remote.ports) = s.ports
  BY <1>1, RefreshPortsSame
<1> QED
  BY <1>2 DEF Refreshed, Attributes, Attr

\* A refresh leaves the policies alone.
LEMMA RefreshedPolicies ==
    ASSUME NEW s \in Attributes(PortMap), NEW k \in Attr, k # "ports"
    PROVE  Refreshed(s)[k] = s[k]
  BY DEF Refreshed, Attributes, Attr

\* A difference between state and service keeps its cause.
LEMMA DriftStep ==
    ASSUME TypeOK, RespInv, PassedInv, DriftHasCause, [Next]_vars
    PROVE  DriftHasCause'
<1>1. CASE UNCHANGED <<state, remote, lost>>
  BY <1>1 DEF DriftHasCause
<1>2. CASE Read
  <2>1. UNCHANGED <<remote, lost>> /\ state' = Refreshed(state)
    BY <1>2 DEF Read
  <2>2. ASSUME NEW k \in Attr, k \notin lost
        PROVE  remote[k] = Request(k, state'[k])
    <3>1. remote[k] = Request(k, state[k])
      BY <2>2 DEF DriftHasCause
    <3>2. state'[k] = state[k]
      BY <2>1, <2>2, <3>1, RefreshedSame, RefreshedPolicies DEF TypeOK
    <3> QED
      BY <3>1, <3>2
  <2> QED
    BY <2>1, <2>2 DEF DriftHasCause
<1>3. ASSUME NEW k \in Attr, Update(k) PROVE DriftHasCause'
  <2>1. UNCHANGED state
    BY <1>3, UpdateKeepsPlan
  <2>2. CASE WriteApplied(k)
    <3>1. lost' = lost \cup {k}
      BY <2>2 DEF WriteApplied
    <3>2. \A j \in Attr : j # k => remote'[j] = remote[j]
      BY <2>2 DEF WriteApplied, TypeOK, Attr
    <3> QED
      BY <2>1, <3>1, <3>2 DEF DriftHasCause
  <2>3. CASE ~WriteApplied(k)
    <3>1. UNCHANGED <<remote, lost>>
      BY <1>3, <2>3 DEF Update, Skip, WriteConflicts, WriteFails,
         ResumeAccepted, ResumeConflicts, ResumeFails, WaitRunning, WaitTerminal
    <3> QED
      BY <1>1, <2>1, <3>1
  <2> QED
    BY <2>2, <2>3
<1>4. CASE Deliver
  <2>1. /\ at = "return" /\ UNCHANGED remote /\ state' = resp
        /\ lost' = IF err THEN lost ELSE {k \in lost : ~Changed(k)}
    BY <1>4 DEF Deliver
  <2>2. CASE err
    BY <1>1, <2>1, <2>2 DEF RespInv
  <2>3. CASE ~err
    <3>1. state' = Refreshed(Plan) /\ Plan \in Attributes(PortMap)
      BY <2>1, <2>3, PlanType DEF RespInv, TypeOK
    <3>2. ASSUME NEW k \in Attr, k \notin lost'
          PROVE  remote[k] = Request(k, state'[k])
      <4>1. remote[k] = Request(k, Plan[k])
        <5>1. CASE Changed(k)
          BY <2>1, <2>3, <5>1 DEF PassedInv, Passed
        <5>2. CASE ~Changed(k)
          <6>1. Plan[k] = state[k] /\ k \notin lost
            BY <2>1, <2>3, <3>2, <5>2 DEF Changed
          <6> QED
            BY <6>1 DEF DriftHasCause
        <5> QED
          BY <5>1, <5>2
      <4>2. state'[k] = Plan[k]
        BY <3>1, <4>1, RefreshedSame, RefreshedPolicies
      <4> QED
        BY <4>1, <4>2
    <3> QED
      BY <2>1, <3>2 DEF DriftHasCause
  <2> QED
    BY <2>2, <2>3
<1>5. CASE \/ EditConfig \/ BeginUpdate \/ Get \/ GetFails \/ Expire \/ Crash
           \/ ServiceMoves \/ UNCHANGED vars
  BY <1>1, <1>5 DEF EditConfig, BeginUpdate, Get, GetFails, Fail, Expire, Crash,
     ServiceMoves, vars, handler
<1> QED
  BY <1>2, <1>3, <1>4, <1>5 DEF Next

-----------------------------------------------------------------------------
(* Resuming.                                                               *)

\* A call resumes only where the plan allows it.
LEMMA ResumeStep ==
    ASSUME TypeOK, StepInv, ResumesOnlyWhenAllowed, [Next]_vars
    PROVE  StepInv' /\ ResumesOnlyWhenAllowed'
<1>1. CASE UNCHANGED <<config, state, at, step>>
  BY <1>1, SamePlan DEF StepInv, ResumesOnlyWhenAllowed
<1>2. CASE \/ EditConfig \/ Read \/ BeginUpdate \/ Get \/ GetFails \/ Deliver
           \/ Crash
  <2>1. step' = "write"
    BY <1>2 DEF EditConfig, Read, BeginUpdate, Get, GetFails, Fail, Deliver,
       Crash, StepInv, handler, Attr
  <2> QED
    BY <2>1 DEF StepInv, ResumesOnlyWhenAllowed
<1>3. ASSUME NEW k \in Attr, Update(k)
      PROVE  StepInv' /\ ResumesOnlyWhenAllowed'
  <2>1. UNCHANGED config /\ \A j \in Attr : Changed(j)' <=> Changed(j)
    BY <1>3, UpdateKeepsPlan, SamePlan
  <2>2. at = k
    BY <1>3, UpdateKeepsPlan
  <2>3. CASE step' = "write"
    BY <2>3 DEF StepInv, ResumesOnlyWhenAllowed
  <2>4. CASE step' # "write"
    <3>1. at' = k
      BY <1>3, <2>4, UpdateOutcome DEF Fail, Goto
    <3>2. \/ WriteConflicts(k) /\ config.allow
          \/ step # "write"
      BY <1>3, <2>4 DEF Update, Skip, WriteApplied, WriteConflicts, WriteFails,
         ResumeAccepted, ResumeConflicts, ResumeFails, WaitRunning,
         WaitTerminal, Goto, Fail
    <3>3. k \in NeedsRunning /\ Changed(k) /\ config.allow
      BY <2>2, <3>2 DEF WriteConflicts, ResumesOnlyWhenAllowed
    <3> QED
      BY <2>1, <3>1, <3>3 DEF StepInv, ResumesOnlyWhenAllowed
  <2> QED
    BY <2>3, <2>4
<1>4. CASE Expire \/ ServiceMoves \/ UNCHANGED vars
  BY <1>1, <1>4 DEF Expire, ServiceMoves, vars, handler
<1> QED
  BY <1>2, <1>3, <1>4 DEF Next

-----------------------------------------------------------------------------
(* The theorems.                                                           *)

\* The inductive invariant holds initially.
LEMMA InvInit == Init => IInv
<1> SUFFICES ASSUME Init PROVE IInv
  OBVIOUS
<1>1. TypeOK
  BY TypeInit
<1>2. DriftHasCause
  BY DEF Init, DriftHasCause
<1>3. PassedInv /\ RespInv /\ StepInv /\ ResumesOnlyWhenAllowed
  BY DEF Init, PassedInv, Passed, RespInv, StepInv, ResumesOnlyWhenAllowed, Attr
<1> QED
  BY <1>1, <1>2, <1>3 DEF IInv

\* Every step preserves it.
LEMMA InvStep == IInv /\ [Next]_vars => IInv'
  BY TypeStep, PassedStep, RespStep, DriftStep, ResumeStep DEF IInv

(* The inductive invariant: Update keeps track, attribute by attribute, of *)
(* what the service has, and resp.State stays the prior state to the end.  *)
THEOREM InductiveInvariant == Spec => []IInv
  BY InvInit, InvStep, PTL DEF Spec

(* An Update that reports no error has applied every change of its plan.   *)
THEOREM GoodUpdatesApply == Spec => []SuccessMeansApplied
<1>1. IInv => SuccessMeansApplied
  BY DEF IInv, PassedInv, Passed, SuccessMeansApplied
<1> QED
  BY <1>1, InductiveInvariant, PTL

(* Terraform's state departs from the service only where a failed or       *)
(* crashed Update has written.                                             *)
THEOREM DriftExplained == Spec => []DriftHasCause
<1>1. IInv => DriftHasCause
  BY DEF IInv
<1> QED
  BY <1>1, InductiveInvariant, PTL

(* tryResumeForUpdate resumes only when the plan allows it and needs it.   *)
THEOREM ResumesAreAllowed == Spec => []ResumesOnlyWhenAllowed
<1>1. IInv => ResumesOnlyWhenAllowed
  BY DEF IInv
<1> QED
  BY <1>1, InductiveInvariant, PTL
=============================================================================
