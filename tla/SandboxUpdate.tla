--------------------------- MODULE SandboxUpdate ---------------------------
(***************************************************************************)
(* The update handler of the aca_sandbox resource                          *)
(* (provider/resource_sandbox.go, Update and tryResumeForUpdate), with the *)
(* refresh that precedes a plan, for one existing sandbox.                 *)
(*                                                                         *)
(* Update compares the planned attributes with those of Terraform's state  *)
(* and writes the ones that differ, in a fixed order, one request each.    *)
(* There is no transaction: a write that fails leaves the earlier ones in  *)
(* place, and resp.State, which starts as the prior state, is set only at  *)
(* the end.  Meanwhile the service may suspend the sandbox.                *)
(*                                                                         *)
(* Nobody else writes to the sandbox, and the service decides a request    *)
(* before the request ends; its answer may be lost.                        *)
(***************************************************************************)
EXTENDS Naturals

CONSTANTS
    Policy,      \* lifecycle and egress policies of the service
    Default,     \* the policy that is sent for an attribute that is not set
    PortNumber,  \* ports of the sandbox
    Setting,     \* what else a port entry configures: authentication, IP rules
    Bare,        \* the setting of an entry made from the service's answer alone
    Null,        \* an attribute that is not set
    Config       \* the configurations that the user may write

PortMap == UNION {[S -> Setting] : S \in SUBSET PortNumber}

NoPorts == [n \in {} |-> Bare]

Attr == {"auto_suspend", "egress_policy", "ports"}

\* The attributes that can change in place; the others force a replacement.
\* allow stands for allow_resume_for_updates and retain for deletion_policy,
\* which only the provider knows.
Attributes(port) ==
    [auto_suspend  : Policy \cup {Null},
     egress_policy : Policy \cup {Null},
     ports         : port,
     allow         : BOOLEAN,
     retain        : BOOLEAN]

ASSUME UpdateAssumption ==
    /\ Config \subseteq Attributes(PortMap \cup {Null})
    /\ Default \in Policy
    /\ Bare \in Setting
    /\ Null \notin Policy \cup PortMap

VARIABLES
    config,   \* the configuration, which is the plan of a call in flight
    state,    \* the attributes in Terraform's state
    remote,   \* the attributes that the service has
    power,    \* the operational state of the sandbox
    at,       \* the attribute that Update has reached, or another place
    step,     \* the request that is next there
    expired,  \* whether the context deadline has passed
    resp,     \* resp.State
    err,      \* whether a finished call reports an error
    lost      \* attributes written by a call whose outcome was not recorded

handler == <<at, step, expired, resp, err>>
vars    == <<config, state, remote, power, at, step, expired, resp, err, lost>>

Power == {"running", "suspended", "resuming", "failed", "gone"}
Place == Attr \cup {"idle", "get", "return"}
Step  == {"write", "resume", "wait", "retry"}

\* The service has a policy for every attribute, also for one that is not set,
\* and the handler stands at an attribute of the fixed order or outside of it.
TypeOK ==
    /\ config \in Config
    /\ state \in Attributes(PortMap)
    /\ remote \in [auto_suspend : Policy, egress_policy : Policy, ports : PortMap]
    /\ power \in Power
    /\ at \in Place
    /\ step \in Step
    /\ expired \in BOOLEAN
    /\ resp \in Attributes(PortMap)
    /\ err \in BOOLEAN
    /\ lost \in SUBSET Attr

-----------------------------------------------------------------------------
(* Conversions.                                                            *)

\* Mutant: a null policy is sent as it is.
RequestNull(k, v) == v

\* What is sent for a planned value: lifecycleFromObject and the Allow policy
\* of a nil egress policy give a null value a meaning.
Request(k, v) == IF v = Null THEN Default ELSE v

\* Mutant: the entries come from the answer alone.
RefreshPortsBare(prior, ports) == [n \in DOMAIN ports |-> Bare]

\* portMapFromAPI: the answer tells the numbers; the settings of a known number
\* are those of the prior entry; an empty answer keeps the prior map.
RefreshPorts(prior, ports) ==
    IF ports = NoPorts
    THEN prior
    ELSE [n \in DOMAIN ports |->
             IF n \in DOMAIN prior THEN prior[n] ELSE Bare]

Refreshed(s) == [s EXCEPT !.ports = RefreshPorts(s.ports, remote.ports)]

\* What Terraform plans: ports is Optional and Computed, so a map that is not
\* configured keeps its prior value (UseStateForUnknown).
PlanFrom(s) == [config EXCEPT !.ports = IF @ = Null THEN s.ports ELSE @]

Plan == PlanFrom(state)

\* Whether plan and state differ in an attribute.  host_port and url of a
\* configured port are Computed without a plan modifier, so the framework
\* plans them as unknown in every update, and the maps are never Equal.
Changed(k) ==
    \/ Plan[k] # state[k]
    \/ k = "ports" /\ config.ports \notin {Null, NoPorts}

\* The sandbox has just been created with its configuration.
Init ==
    /\ config \in Config
    /\ state = [config EXCEPT !.ports = IF @ = Null THEN NoPorts ELSE @]
    /\ remote = [k \in Attr |-> Request(k, state[k])]
    /\ power = "running"
    /\ at = "idle"
    /\ step = "write"
    /\ expired = FALSE
    /\ resp = state
    /\ err = FALSE
    /\ lost = {}

-----------------------------------------------------------------------------
(* Terraform.                                                              *)

EditConfig ==
    /\ at = "idle"
    /\ config' \in Config \ {config}
    /\ UNCHANGED <<state, remote, power, handler, lost>>

\* Read refreshes the ports but neither the lifecycle nor the egress policy.
Read ==
    /\ at = "idle"
    /\ power # "gone"
    /\ state' = Refreshed(state)
    /\ resp' = state'
    /\ UNCHANGED <<config, remote, power, at, step, expired, err, lost>>

BeginUpdate ==
    /\ at = "idle"
    /\ state # Plan
    /\ at' = "auto_suspend"
    /\ UNCHANGED <<config, state, remote, power, step, expired, resp, err, lost>>

-----------------------------------------------------------------------------
(* Update.                                                                 *)

After(k) == CASE k = "auto_suspend"  -> "egress_policy"
              [] k = "egress_policy" -> "ports"
              [] k = "ports"         -> "get"

Goto(place, s) ==
    /\ at' = place
    /\ step' = s
    /\ UNCHANGED <<config, state, expired, resp, err>>

\* An error: the call returns and resp.State is still the prior state.
Fail ==
    /\ at' = "return"
    /\ step' = "write"
    /\ expired' = FALSE
    /\ err' = TRUE
    /\ UNCHANGED <<config, state, resp>>

Skip(k) ==
    /\ at = k
    /\ ~Changed(k)
    /\ Goto(After(k), "write")
    /\ UNCHANGED <<remote, power, lost>>

\* The second request of an attribute is the retry after a resume.
Writes(k) ==
    /\ at = k
    /\ step \in {"write", "retry"}
    /\ Changed(k)

\* Attributes that the service changes only while the sandbox runs, and for
\* which the handler calls tryResumeForUpdate.
NeedsRunning == {"egress_policy", "ports"}

\* The request takes effect; its answer may be lost.
WriteApplied(k) ==
    /\ Writes(k)
    /\ ~expired
    /\ power # "gone"
    /\ k \in NeedsRunning => power = "running"
    /\ remote' = [remote EXCEPT ![k] = Request(k, Plan[k])]
    /\ lost' = lost \cup {k}
    /\ \/ Goto(After(k), "write")
       \/ Fail
    /\ UNCHANGED power

\* Mutant: 409 always resumes.
ConflictResumes(k) ==
    /\ at = k
    /\ step = "write"
    /\ Changed(k)
    /\ ~expired
    /\ k \in NeedsRunning
    /\ power \notin {"running", "gone"}
    /\ Goto(k, "resume")
    /\ UNCHANGED <<remote, power, lost>>

\* 409 to the first request: resume if the plan allows it.
WriteConflicts(k) ==
    /\ at = k
    /\ step = "write"
    /\ Changed(k)
    /\ ~expired
    /\ k \in NeedsRunning
    /\ power \notin {"running", "gone"}
    /\ \/ config.allow /\ Goto(k, "resume")
       \/ ~config.allow /\ Fail
    /\ UNCHANGED <<remote, power, lost>>

\* Mutant: the error of the second request is forgotten.
WriteErrorIgnored(k) ==
    /\ Writes(k)
    /\ \/ step = "write" /\ Fail
       \/ step = "retry" /\ Goto(After(k), "write")
    /\ UNCHANGED <<remote, power, lost>>

\* Any other error, or any error of the second request.
WriteFails(k) ==
    /\ Writes(k)
    /\ Fail
    /\ UNCHANGED <<remote, power, lost>>

ResumeAccepted(k) ==
    /\ at = k
    /\ step = "resume"
    /\ ~expired
    /\ power = "suspended"
    /\ power' = "resuming"
    /\ \/ Goto(k, "wait")
       \/ Fail
    /\ UNCHANGED <<remote, lost>>

\* 409: somebody else has resumed the sandbox.
ResumeConflicts(k) ==
    /\ at = k
    /\ step = "resume"
    /\ ~expired
    /\ power \notin {"suspended", "gone"}
    /\ Goto(k, "wait")
    /\ UNCHANGED <<remote, power, lost>>

WaitRunning(k) ==
    /\ at = k
    /\ step = "wait"
    /\ ~expired
    /\ power = "running"
    /\ Goto(k, "retry")
    /\ UNCHANGED <<remote, power, lost>>

WaitTerminal(k) ==
    /\ at = k
    /\ step = "wait"
    /\ ~expired
    /\ power = "failed"
    /\ Fail
    /\ UNCHANGED <<remote, power, lost>>

\* Mutant: the wait does not heed the context.
ResumeErrorOnly(k) ==
    /\ at = k
    /\ step = "resume"
    /\ Fail
    /\ UNCHANGED <<remote, power, lost>>

\* Any other error of the resume or of a poll, or the deadline.
ResumeFails(k) ==
    /\ at = k
    /\ step \in {"resume", "wait"}
    /\ Fail
    /\ UNCHANGED <<remote, power, lost>>

\* The final GET: resp.State becomes the plan with the ports of the answer.
Get ==
    /\ at = "get"
    /\ ~expired
    /\ power # "gone"
    /\ resp' = Refreshed(Plan)
    /\ at' = "return"
    /\ UNCHANGED <<config, state, remote, power, step, expired, err, lost>>

GetFails ==
    /\ at = "get"
    /\ Fail
    /\ UNCHANGED <<remote, power, lost>>

\* The RPC returns and Terraform records resp.State.
Deliver ==
    /\ at = "return"
    /\ state' = resp
    /\ lost' = IF err THEN lost ELSE {k \in lost : ~Changed(k)}
    /\ at' = "idle"
    /\ err' = FALSE
    /\ expired' = FALSE
    /\ UNCHANGED <<config, remote, power, step, resp>>

-----------------------------------------------------------------------------
(* Time, crashes and the service.                                          *)

Expire ==
    /\ at \notin {"idle", "return"}
    /\ ~expired
    /\ expired' = TRUE
    /\ UNCHANGED <<config, state, remote, power, at, step, resp, err, lost>>

Crash ==
    /\ at # "idle"
    /\ at' = "idle"
    /\ step' = "write"
    /\ expired' = FALSE
    /\ resp' = state
    /\ err' = FALSE
    /\ UNCHANGED <<config, state, remote, power, lost>>

\* Auto-suspend, the end of a resume, activation by traffic, a failure, and
\* the end of the sandbox.
Moves(s) == CASE s = "running"   -> {"suspended", "failed", "gone"}
              [] s = "suspended" -> {"resuming", "failed", "gone"}
              [] s = "resuming"  -> {"running", "failed", "gone"}
              [] s = "failed"    -> {"gone"}
              [] s = "gone"      -> {}

ServiceMoves ==
    /\ power' \in Moves(power)
    /\ UNCHANGED <<config, state, remote, handler, lost>>

-----------------------------------------------------------------------------

Update(k) ==
    \/ Skip(k) \/ WriteApplied(k) \/ WriteConflicts(k) \/ WriteFails(k)
    \/ ResumeAccepted(k) \/ ResumeConflicts(k) \/ ResumeFails(k)
    \/ WaitRunning(k) \/ WaitTerminal(k)

Next ==
    \/ EditConfig \/ Read \/ BeginUpdate
    \/ \E k \in Attr : Update(k)
    \/ Get \/ GetFails \/ Deliver \/ Expire \/ Crash \/ ServiceMoves

Spec == Init /\ [][Next]_vars

(* A deadline is reached, local steps are taken, an expired context makes  *)
(* every request fail, and the RPC returns.                                *)
Cancelled ==
    /\ expired
    /\ (\E k \in Attr : WriteFails(k) \/ ResumeFails(k)) \/ GetFails

Fairness ==
    /\ WF_vars(Expire)
    /\ WF_vars(\E k \in Attr : Skip(k))
    /\ WF_vars(Cancelled)
    /\ WF_vars(Deliver)

FairSpec == Spec /\ Fairness

-----------------------------------------------------------------------------
(* Properties.                                                             *)

\* Attributes that a call in flight has dealt with.
Passed ==
    {k \in Attr :
        \/ at = "get"
        \/ at = "return" /\ ~err
        \/ at = "ports" /\ k # "ports"
        \/ at = "egress_policy" /\ k = "auto_suspend"}

\* A call that returns without an error has brought every attribute that the
\* plan changes to the planned value, whatever was suspended, resumed and
\* retried on the way.
SuccessMeansApplied ==
    at = "return" /\ ~err =>
        \A k \in Attr : Changed(k) => remote[k] = Request(k, Plan[k])

\* The state departs from the service only in attributes that a failed or
\* crashed call has written and no good call has written since.
DriftHasCause ==
    \A k \in Attr : remote[k] # Request(k, state[k]) => k \in lost

\* Update resumes a sandbox only for an attribute that differs, that needs a
\* running sandbox, and with allow_resume_for_updates in the plan.
ResumesOnlyWhenAllowed ==
    \A k \in Attr :
        at = k /\ step # "write" =>
            k \in NeedsRunning /\ Changed(k) /\ config.allow

\* Every call ends.
UpdateEnds == at # "idle" ~> at = "idle"

\* SBOX-PROVIDER-PLAN.md, 9.4: a failed update preserves enough refreshed state
\* for the next plan to reconcile the rest.  So, of the attributes that the
\* service has confirmed before the failure, none has a value in resp.State that
\* a next configuration can ask for without a change, while the service has
\* another.
FailureKeepsTrack ==
    at \in Attr /\ at' = "return" =>
        \A k \in Passed : \A c \in Config :
            c[k] = resp'[k] => remote'[k] = Request(k, c[k])

NextPlanReconciles == [][FailureKeepsTrack]_vars

-----------------------------------------------------------------------------
(* The inductive invariant behind these properties.                        *)

PassedInv == \A k \in Passed : Changed(k) => remote[k] = Request(k, Plan[k])

\* resp.State is the prior state until the final GET.
RespInv ==
    /\ at # "return" => ~err
    /\ resp = IF at = "return" /\ ~err THEN Refreshed(Plan) ELSE state

StepInv == at \notin Attr => step = "write"

\* All of it together, which every step of the handlers preserves.
IInv ==
    /\ TypeOK /\ PassedInv /\ RespInv /\ StepInv
    /\ DriftHasCause /\ ResumesOnlyWhenAllowed
=============================================================================
