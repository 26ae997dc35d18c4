# A TLA+ model of terraform-provider-aca

The repository holds a Terraform provider, written in Go under `provider/`, that
manages sandboxes and disk images of Azure Container Apps sandbox groups through
their data-plane API, and a set of HCL modules. The provider is the part with
behaviour of its own: several resource addresses are created, updated and deleted
concurrently, in several provider processes, against a remote service whose
answers may be lost, late or out of date. This directory models that part in
TLA+, checks it with TLC on small instances and proves its main properties with
TLAPS. Paths below are relative to `provider/internal/` unless they start with
`SBOX-PROVIDER-PLAN.md`, the design document at the root of the repository.

## 1. Inventory

| Part | State it keeps | Operations | What is hard about it |
|---|---|---|---|
| Sandbox resource, `provider/resource_sandbox.go` | per call: plan, context deadline, ID, `resp.State`; in Terraform: one entry per address | Create, Read, Update, Delete, ImportState, ValidateConfig | ambiguous answers to the PUT, recovery by labels, three writes without a transaction, resume and retry, process death before the RPC returns |
| Disk image resource, `provider/resource_disk_image.go` | the same | the same, Update without requests | a list in pages, sandboxes that use an image, an Update that writes the plan as it is, imports that nothing checks |
| Provider data, `provider/provider.go` | a map of clients, a map of mutexes, one per process | Configure, Client, LockCreate | mutexes that heed no deadline; keys that contain strings as written |
| Data-plane client, `client/client.go`, `client/errors.go` | per call: attempt, start time | one method per request, lists with pagination, retries | what may be retried, for how long, and what an error says about the service |
| Polling, `client/polling.go` | per loop: deadline, interval, last state | WaitForSandbox, WaitForDiskImage, waitForDeletion | two deadlines, states shorter than an interval, transient 404 |
| Conversions and validation, `provider/sandbox_values.go`, `sandbox_types.go`, `ValidateConfig` | none | ports, egress, lifecycle, source to and from the wire; the rules of a configuration | a port map keyed by logical names against a list keyed by numbers; validation before values are known |
| Schemas and planning, `provider/sandbox_schema.go` | none | declarations | what Terraform plans as unknown, and so as changed |
| Authentication, `auth/credential.go` | none | choice of a credential chain | precedence of configuration and environment |
| IDs, `ids/group_id.go` | none | parse and print group IDs, endpoints, URLs | round trips, case |
| Data sources, `main.go` | none | reads, start | nothing |
| HCL modules, `experimental/`, examples, docs, scripts | none in the provider | - | outside of the provider |

The parts meet in a handler. Terraform calls it for one address; it asks the
provider data for a client and, in Create, for the lock of its name; it sends
requests through the client, which retries reads; it polls; and it fills
`resp.State`, which Terraform stores when the call returns. Handlers of one
process share the clients and the locks. Handlers of different processes share
nothing but the service.

What makes each part correct:

- create, read, delete: one live object per name and lock, one owner per object,
  no orphan of a settled call, no live object forgotten, no unready object in a
  good entry, every call ends;
- update: a good return means that every change is applied, the state departs
  from the service only where a failed call wrote, no resume without need and
  permission, every call ends;
- client: writes once, bounded retries, and a refusal is a refusal;
- polling: what lasts is seen, the timeout is kept;
- disk images: one live image per name and lock, one owner but for imports, no
  live image forgotten, no deletion of an image before the sandbox that Terraform
  deletes first is gone;
- conversions and validation: exactly the documented configurations are accepted,
  what is configured in full comes back from an apply and from an import, and
  refresh shows what is there;
- provider data and authentication: documented precedence of credentials, one
  client per scope, one create at a time per object, scopes that survive an
  import.

The hazards of the code, each with its line and the properties that speak of it,
are listed in `PROJECT.json`.

## 2. Modules

| Module | What it is |
|---|---|
| `ManagedNames` | abstract specification: what create, read and delete promise together |
| `SandboxCreate` | Create, Read, Delete of `aca_sandbox` by several processes |
| `MCSandboxCreate` | its instances for TLC |
| `SandboxCreate_proofs` | its theorems, with the refinement of `ManagedNames` |
| `SandboxUpdate` | Update, tryResumeForUpdate, the port refresh of Read |
| `MCSandboxUpdate` | its instances |
| `SandboxUpdate_proofs` | its theorems |
| `HttpSend` | one call of the client with its retries |
| `HttpSend_proofs` | its theorems |
| `Polling` | the three polling loops with a clock |
| `Polling_proofs` | its theorems |
| `DiskImage` | `aca_sandbox_disk_image`: all of its operations, with the sandboxes that use an image |
| `MCDiskImage` | its instances |
| `DiskImage_proofs` | its theorems |
| `SandboxConfig` | what ValidateConfig accepts, as operators on configurations with unknown values |
| `SandboxValues` | one sandbox from its configuration through plan, apply, refresh, edit and import; extends `SandboxConfig` |
| `MCSandboxValues` | its instance |
| `SandboxValues_proofs` | its theorems, with those of `SandboxConfig` |
| `Credential` | Configure's checks and NewCredential, as operators |
| `KeyedLock` | abstract specification: what LockCreate promises |
| `ProviderData` | the client cache and the create locks under concurrent calls, scopes and their import; extends `Credential`, implements `KeyedLock` |
| `MCProviderData` | its instance |
| `ProviderData_proofs` | its theorems, with that of `Credential` and the safety part of the refinement of `KeyedLock` |

The models are layered by what they hide. `SandboxCreate` and `SandboxUpdate` see
a request as a few outcomes: it takes effect or not, and its answer arrives or
not. That a write is sent at most once, and that an error which is not ambiguous
means that nothing was done, is what `HttpSend` checks. They see a wait as a step
that may end when the state is there, or fail; when it ends is the subject of
`Polling`. `SandboxValues` in turn sees a handler as one step and looks at the
values that `SandboxCreate` and `SandboxUpdate` leave abstract. `ProviderData`
opens up `LockCreate`, one step in `SandboxCreate` and `DiskImage`, into the
`LoadOrStore` and the `Lock` that it consists of, and shows which calls have the
same lock key, which the other modules take as given.

### SandboxCreate

State of Terraform: `recorded` (the ID stored for an address) and `tainted`.
State of the provider processes: `pc` (where the call of an address stands),
`expired` (the context deadline has passed), `mutex` (one per key of
`ProviderData.locks`), `puts` (what the current call has asked for; a history
variable), `got` (the ID in `sandbox.ID`), `resp` (`resp.State` and whether the
diagnostics have an error). State of the service, which is external: `status`,
`maker` (the address whose labels the object carries) and `visible` (GET and LIST
see it). Object IDs are used once.

A Create goes through the program counter in the order of the code:

    lock -> check -> put -> reply -> (recover) -> wait -> return

`LockCreate` has no alternative that gives up, because `sync.Mutex` has none. A
request in flight is two steps: what the service does (`SendPut`,
`DeleteAccepted`), and what the handler makes of the answer. `ReplyUnusable` is
enabled whatever the service did, which covers transport errors, deadlines,
408, 5xx, undecodable bodies and a 2xx without an ID (`IsAmbiguousCreateError`
and the test of `sandbox.ID`); `PutNotSent` is the same for a PUT that never
left. `Finish` is the end of every handler: the deferred unlock and cancel, and
`resp`. `Deliver` is the return of the RPC, the moment when Terraform's state
changes; `Crash` removes the memory of a process before or after any step.
An error with an ID in `resp.State` after Create is a tainted entry.

`PromptService` is a constant. When it is true the service decides a PUT before
the connection ends and lists objects at once. When it is false a PUT may be
decided at any later time and an object may be listed late. The properties say in
their text which ones need a prompt service: a client cannot keep names unique
against a service that commits a request after the client has given up looking,
and the model with `PromptService = FALSE` shows what holds all the same.

`ConfigAssumption` says what a lock key is: the string `group|sandboxes|name`
within one process, so equal keys mean the same process and name. The converse
is not assumed, since the group part is case-preserving.

### ManagedNames

The abstract specification has objects that exist, the key whose create made
each, and an owner per address. An object of a key is made only when none of that
key exists; it is owned by at most one address of its key while it exists;
an address lets go only of what is gone, or to retain it. `SandboxCreate`
maps the live objects to `exists`, the key of the maker to `madeBy`, and
`recorded` to `owner`; everything else is invisible.

### SandboxUpdate

One sandbox that exists: `config` (the user's configuration, fixed during a
call), `state`, `remote` (what the service has), `power` (operational state),
the place and step of the call (`at`, `step`), `resp`, `err`, and the history
variable `lost`, the attributes written by a call whose outcome was not
recorded. Update takes `auto_suspend`, `egress_policy` and `ports` in that
order. `WriteApplied`, `WriteConflicts` and `WriteFails` are the outcomes of a
write; `resume`, `wait`, `retry` are the steps of `tryResumeForUpdate` and the
second request. `lifecycle` writes need no running sandbox and have no resume
branch, as in the code. A failed call leaves `resp` as the prior state.

`Plan` and `Changed` model Terraform's planning. `ports` is Optional and Computed
with UseStateForUnknown: a map that is not configured keeps its prior value. A
configured map has nested Computed attributes (`host_port`, `url`) without a plan
modifier, so terraform-plugin-framework plans them as unknown in every update and
`plan.Ports.Equal(state.Ports)` is false. `RefreshPorts` is `portMapFromAPI` on
port numbers: known numbers keep the settings of the prior entry, unknown ones
get a bare entry, an empty answer keeps the prior map.

### HttpSend

The loop of `sendWithOptions`: token, request, decision, backoff. Time is counted
in half seconds. `ShouldRetry` and `RetryDelay` are the functions of the code with
the jitter as a choice. `performed` records what the service did with a write;
`Performs` says what a status tells about that.

### Polling

A clock in seconds since the handler made its context. The loop starts at
`begun`; a GET is sent, served, answered; then a sleep of 2, 3, ..., 10, 10, ...
seconds. The context ends at `Timeout`; the loop's own deadline is
`begun + Timeout`. The object moves at any time; `age` measures how long it has
been in a state that the loop would act on. No time passes while a timer is due.
A cancellation by the user is not in the model.

### DiskImage

`entry` is Terraform's entry (an ID and `deletion_policy`), `call` the local variables of the call of an address with
the cursor of a list under way, `mutex` the locks, `status`, `maker` and `usedBy`
the service's images and whether a sandbox uses them, `box` and `boxpc` the
sandbox of the same state and where its Delete stands. Create has the shape of
the sandbox's; every page of a list is a step of its own (`ListPage`), with
images that appear and go between two pages; `OthersPut` is an image made
elsewhere, without labels or by another state from the same configuration.
`Update` stores the plan, in which `id` is unknown. `ImportState` gives an address
without an entry any image that exists, whoever has it or is about to get it: the
code parses a URL, and Terraform does not compare IDs. The history field `by` of an
entry says whether it comes from a create or from an import. The sandbox's Create
is `BoxPut`, and then `BoxRecorded`, when it has an ID and so an entry, or
`BoxUnrecorded`, when the answer is lost and the recovery fails; a crash in between
has the effect of the latter, and the sandbox uses the image without anybody
knowing of it (`usedBy` is "left"). Deletes run in Terraform's order, sandbox first;
`BoxDelete`, `BoxGone` and `BoxDeleteEnds` are what the sandbox's Delete does.
The service is prompt. Deadlines have no variable, because every request may fail
anyway.

### SandboxConfig and SandboxValues

A configuration is a record whose members are null, unknown or given; maps have
known and unknown keys; ports have a number, a protocol and `settings`, one value
for activation mode, authentication and IP rules together. `ScopeError`,
`SourceError`, `LabelError`, `EnvironmentError` and `PortsError` are the parts of
`ValidateConfig`, each with the way in which its conversion treats unknown
values. `Known` and `Sound` state the documented rules, `Completes` how unknown
values become known.

`SandboxValues` has the phases written, planned, rejected, applied and imported.
`Create` chooses a completion of the configuration, validates it again and
computes the ports of the state as the code does: from the answer to the PUT, or
from the request when that answer has none (`PortMapFromRequests`), and then from
the GET of the wait. `PortMapsFromAPI` is `portMapFromAPI` with logical names;
it is a set of maps because two ports may get one key, and which one stays
depends on the order of the answer. `agrees` records whether the apply returned
what was planned; `touched`, whether somebody else changed the ports since.

### Credential, ProviderData and KeyedLock

`Credential` has the checks of Configure and the switch, the errors and the chain
of NewCredential as operators on a provider block and an environment.
`ProviderData` runs Configure and then calls that ask for a client (`Load`,
`LoadOrStoreClient`) and, if they create, for a lock (`LoadOrStoreMutex`, `Lock`,
`Unlock`). A created object may be imported, and its resource then calls again
with the scope that the import wrote. Spellings of a group ID and of a location,
ports and the three kinds of host are told apart as far as `ids/group_id.go`
does. `KeyedLock` has pairs of a target and a caller that wait or hold. A target
is an object as a user would name it (`TargetOf`), and not the string that the
code builds for it.

## 3. Runs

| Run | Checks | Bounds |
|---|---|---|
| `create` | `SandboxCreate`, prompt service | 3 addresses in 2 processes (two of them share a lock key, the third has the same name in another process with another fingerprint, one is `Retain`), 2 objects |
| `late` | the same, late service, with liveness | 2 addresses of one process with one name and two fingerprints, 2 objects |
| `adopt` | finding | 2 processes with the same configuration, 1 object |
| `update` | `SandboxUpdate` | 5 configurations that differ in one attribute, several, the settings of a port and the set of ports; 2 ports, 2 policies |
| `drift` | finding | the same |
| `http_send` | `HttpSend` | requests of 0 s or 25 s, Retry-After absent, 1 s or 50 s (above the cap of 30 s) |
| `polling` | `Polling` | timeout 66 s (the interval reaches its cap after 54 s), start at 0 s or 3 s, GETs of at most 1 s |
| `disk_image` | `DiskImage` | 2 addresses of one state with one name and two fingerprints, the first used by a sandbox that is deleted or retained; 2 images of theirs and 1 made elsewhere, without labels or from the configuration of the first; pages of one image |
| `image_update` | finding | the same |
| `sandbox_values` | `SandboxConfig`, `SandboxValues` | about 190 configurations that vary one aspect each (scope, source with resources, labels, environment, other attributes, ports); 2 port numbers, one of their decimal notations also a logical name |
| `second_plan` | finding | the same |
| `provider_data` | `Credential`, `ProviderData` against `KeyedLock` | every provider block and environment without calls; 2 calls with 15 by 2 scopes and 4 provider blocks; 3 calls in three spellings of one group and two names |

Why the bounds are enough to be interesting. Two addresses with one key are
needed for the lock, a third in another process for what the lock does not cover;
two objects are needed for a duplicate, an orphan or a wrong owner. Object IDs
are interchangeable, hence the symmetry of `create`; `late` checks liveness and
has none. In `update`
five configurations include one that returns to a prior value after a failure,
which is how drift goes unnoticed, and ports that appear, disappear and change
settings. In `http_send` slow requests exhaust the window before the attempts,
instant ones the attempts before the window. In `polling` the loop runs well
past the step at which the interval is capped. In `disk_image` pages of one image
put a step between any two images of a list, the image made elsewhere comes
first, may appear between the lookup and the PUT, and gives recovery two matches,
and two further images suffice for a create, a
recreate and the import of what was left behind or of what the other address has
(1,686,649 distinct states). In `sandbox_values` a decimal
notation that is another port's logical name is needed for the collision of
keys. In `provider_data` the third call is needed for a lock that is handed on
while a call waits with another spelling.

What the passing runs show:

- `create`: creates of one key exclude each other (`CreatesSerialized`); they
  leave at most one live object (`NoDuplicates`) with at most one owner
  (`SoleOwner`); a call that has settled has left nothing behind
  (`KeepsOwnPut`); IDs belong to the right configuration (`ClaimsMatch`);
  Terraform forgets no live object (`NeverForgetsLive`); all of it implements
  `ManagedNames` (`KeepsPromise`).
- `late`: a good entry names an object that has been seen running
  (`GoodEntriesRan`), and every call ends, also one that queues on the mutex
  (`CallsEnd`).
- `update`: `SuccessMeansApplied`, `DriftHasCause`, `ResumesOnlyWhenAllowed`,
  `UpdateEnds`.
- `http_send`: `WritesSentOnce`, `BackoffBounded`, `RefusedMeansNotDone`,
  `CallEnds`.
- `polling`: `SeesSoon` (a settled state is seen within the longest interval and
  two GETs) and `OnTime`.
- `disk_image`: `NoDuplicates` and `NeverForgetsLive` hold with lists in pages,
  imports and crashes. `SoleOwner`: neither the lookup nor a recovery gives an
  address what another one has or will have from a create, so that two addresses
  share an image only if the user imports it for one of them. `RefusalHasCause`:
  when the service refuses a DELETE because of a sandbox, this was retained, or left
  without an entry by its Create, or belongs to another address; one that
  Terraform has deleted is gone by then.
- `sandbox_values`: `ValidationExact`: a known configuration is accepted exactly
  if it keeps the documented rules. `RejectedForCause` lists the unknown values
  for which valid configurations are rejected: elements of maps, the source as a
  whole, resources of a preset, ports as a whole, two port numbers, IP rules.
  `PortsShown`: a refresh shows the ports that the service has, whoever opened
  them, except after an answer without any and for a port that is named by another
  port's number. `CompletePortsKept` and `RestorableImported` say which ports come
  back as they were configured from an apply, and from an import; the others are a
  matter of `second_plan` and of the list below.
- `provider_data`: `ChainAsDocumented`: the provider block goes before the
  environment and no mode is skipped silently. `ClientsShared`: concurrent calls of
  one scope go on with one client. `LockCreateSerializes`: creates of one object
  exclude each other and each gets its turn, whatever the spelling of the fixed
  words of its group ID; names of the group in other letter cases count as another
  group, as in the code. `ImportKeepsScope`: an import reaches the same server but
  for a port of a regional host, and replaces nothing exactly if the configured
  scope is in normal form.

The other runs are disagreements between the code and its documents, one
property each:

- `adopt` (`RecoversOwnPut`): recovery takes the only object with the right
  labels, also when the PUT was never sent. An identical configuration applied
  by another process between the lookup and the failed PUT is adopted, and the
  warning says that the service created the sandbox for this call.
- `drift` (`NextPlanReconciles`): an update writes an attribute and fails later.
  The state keeps the prior value and Read does not refresh `auto_suspend` or
  `egress_policy`. When the user goes back to the prior configuration, nothing is
  planned, and the service keeps the new value. SBOX-PROVIDER-PLAN.md, 9.4,
  promises that the next plan can reconcile.
- `second_plan` (`SecondPlanEmpty`): a port without a protocol gets the service's one
  into its entry, and ports that come back from the request have false and empty
  lists for what was left out. The result of the apply is not what was planned, and
  the next plan changes it back, where SBOX-PROVIDER-PLAN.md, 19, wants an
  empty one.
- `image_update` (`KeepsEntry`): an update of `deletion_policy` alone plans the
  Computed `id` of a disk image as unknown, and Update stores the plan without a
  GET. Terraform reports the unknown value, keeps null, and the next refresh drops
  the entry of a live image. SBOX-PROVIDER-PLAN.md, 11, says that state is removed
  only after a confirmed 404 or a Retain.

Four more disagreements are in the models without a run of their own:

- After an import the plan changes each configured attribute that the service does
  not return (environment, its version, a command) and the ports with
  logical names (`PlanAfterImport` in `SandboxValues`). SBOX-PROVIDER-PLAN.md, 18
  and 19, wants an empty plan.
- A change of `deletion_policy` alone rewrites the configured ports, which needs a
  running sandbox (`Changed` in `SandboxUpdate`). SBOX-PROVIDER-PLAN.md, 11, calls
  the change from Retain to Delete a state-only update.
- A wait that runs out of time ends in the bare error of its context, which is older
  than the loop and so ends first; the error that names the last state is never
  given (`Cancelled` in `Polling`). SBOX-PROVIDER-PLAN.md, 12.2, wants that state
  in every diagnostic.
- Create looks a name up with a single LIST, although its recovery polls the same
  list because it may be late; against such a service an apply that follows a crash
  makes a second object (`SandboxCreate` with `PromptService = FALSE`).
  SBOX-PROVIDER-PLAN.md, 8.4, has it fail with an import command.

Every property of a passing run has a mutant in `PROJECT.json`: an operator of
the module that replaces a definition by what a plausible mistake in the code
would make of it, and that violates the property.

## 4. Fairness

Safety is checked without fairness. `CallsEnd` and `UpdateEnds` assume:

- a deadline is reached (`WF` on `Expire`): every handler sets one with
  `context.WithTimeout`;
- with an expired context each request fails (`WF` on `Cancelled`); before that
  a request is under no obligation to succeed or to fail;
- a local step that can be taken is taken, and the RPC returns (`WF`);
- a mutex that is released again and again is obtained (`SF` on `LockCreate`):
  `sync.Mutex` switches to its starvation mode when a waiter has waited 1 ms.

The service, the user and crashes are under no obligation. `HttpSend` assumes
that a request ends, which the two-minute timeout of the HTTP client ensures,
and that timers fire. `Polling` needs no fairness: its deadline is an invariant
over an explicit clock.

`ProviderData` assumes that a goroutine that can run does (`WF` on `Load`,
`LoadOrStoreClient`, `LoadOrStoreMutex`), that a create ends with its context
(`WF` on `Unlock`), and the same of `sync.Mutex` as above (`SF` on `Lock`); these
are what `KeyedLock` asks for. Imports are under no obligation.

## 5. Proofs

The theorems hold for any number of addresses, processes, names, objects and
configurations.

`SandboxCreate_proofs` assumes `ConfigAssumption`. None of the safety properties
is inductive. `IInv` adds what they rest on: a critical call holds its lock and a
held lock has a critical holder (`LockInv`); what the local variables of a call
can hold at each place (`CallInv`); a call asks for one object and is its maker
(`MakerInv`); a prompt service lists what it has (`PromptInv`); a call past its
lookup found no live object of its name, and since it holds the lock nobody with
its key has made or claimed one since (`Cleared`, the heart of the argument: it
is what turns mutual exclusion into uniqueness, and with `MakerInv` it makes the
object that recovery finds the object of the call's own PUT); a finished call
drops an entry only with cause (`RemovalInv`); a good answer that is under way
names an object that ran (`GoodRespRan`). The module proves the parts one by one
and combines them:

- `TypeCorrect`, `MutualExclusion`, `IdsMatchConfiguration`, `GoodEntriesHaveRun`
  for every service;
- `AtMostOneObject`, `OneOwner`, `NothingLeftBehind`, `ForgetsSafely` with a
  prompt service, as the properties state;
- `Implementation`: with a prompt service, every step of the handlers is a step
  of `ManagedNames` or a stutter. Only the decision of a PUT, the end of an object
  and `Deliver`/`ReadNotFound` are visible.

`SandboxUpdate_proofs` assumes `UpdateAssumption`. `IInv` adds that what the call
has passed is applied (`PassedInv`), that `resp` is the prior state until the
final GET succeeds (`RespInv`), and where `step` matters (`StepInv`). Theorems:
`TypeCorrect`, `GoodUpdatesApply`, `DriftExplained`, `ResumesAreAllowed`.

`HttpSend_proofs` assumes `SendAssumption`: requests of any length and any
Retry-After. `CallInv` says that only a read backs off, that it starts to while
attempts and time are left, that backoffs are part of the time that has passed, and
that a write that is not over has done nothing. `TypeCorrect`, `OneWrite`,
`BackoffsEnd` and `RefusalsAreClean` follow.

`Polling_proofs` assumes `PollingAssumption`: any timeout, start and length of a
GET. `SeenInv` bounds how long an object can have been in a decisive state that
the loop has not read, by what is left of the sleep or of the GET. Theorems:
`TypeCorrect`, `LastingStatesAreSeen`, `TimeoutKept`. That the loop's own deadline
is never reached (`ContextEndsFirst`) is a part of the invariant.

`DiskImage_proofs` assumes `ImageAssumption`. The argument has the shape of the one
for the sandbox, with the list in pages added. A lookup reads the list up to a
cursor while images appear and go, so what it may rely on is stated for the part
that it has passed: an image of its key that is live and that it has passed over is
among the images it has seen (`Cleared`, at `check`). When the list ends without a
match, nothing of its key is live, and since it holds the lock this stays so until
its own PUT (at `put`); nor does another address of its key get a live image from a
create until the call returns (`Taken`). `ImageInv` says that what calls and entries
know of has been made, under the right name where it does not come from an import;
`DropInv`, that a call which will drop an entry has seen the end of the image or
retains it; `BoxInv`, that an image in use by a sandbox with an entry is the one of
that entry, from which `RefusalHasCause` follows since the own sandbox has no entry
any more when the DELETE is sent (`CallInv`). Theorems: `TypeCorrect`, `NoDuplicateImages`,
`OneOwner`, `RefusalsExplained`, and the action property `ForgetsOnlyWithCause`.

`SandboxValues_proofs` assumes `ConfigValuesAssumption` and `ValuesAssumption`:
what kinds of values a configuration holds, and that two numbers have two
notations. Its first half is about operators. On known configurations the five
error conditions of `ValidateConfig` are the negation of the documented rules
(`AcceptsSound`, by parts); an error that is found before all values are known
stays when they become known, unless it comes from one of the values that the code
reads as absent or zero (`ErrorsStay`). `Good` maps of ports have known and
distinct numbers; each map that `portMapFromAPI` may build from a `Good` prior map
and an answer is `Good`, with no number that the answer has not and with the keys
that `portKey` gives (`FromAPI`); and when the prior map has the numbers of the
answer, it comes back with its protocols filled in (`Refreshed`). The second half
is an invariant of the phases: a configuration that is applied was accepted
(`PhaseInv`), and as long as nobody else touched the ports, those of the state are
the ones that the configuration and the answers lead to (`Settled` and `Stable` in
`PortInv`), which refreshes do not change. Theorems: `TypeCorrect`,
`ValidationIsExact`, `RejectionsHaveCause`, `CompletePortsStay`, `PortsAreShown`,
`ImportRestores`.

`ProviderData_proofs` assumes `MarkAssumption` and `ConfigAssumption`: null and
unknown are no values, and of what form flags, groups, locations and endpoints are.
`ClientInv` says that a cached client is filed under its key and never replaced, so
every call that went on has the cached one; `MutexInv` says the same of the mutexes,
and that a mutex has one holder. With `ScopeInv` (only an import changes a scope, and
nothing imported creates) calls for one target have one lock key
(`SameTargetSameKey`). Theorems: `OneClient`; `LocksAsPromised`, every step is a step
of `KeyedLock` or a stutter; `OneHolder`, the mutual exclusion that this implies;
`TypeCorrect`, with `PhaseInv` and `HandleInv`. `ChainIsDocumented` follows from a
lemma about the operators (`ChainDocumented`): the switch takes one of its candidates
(`SelectedMode`, which uses that Configure has refused two explicit modes), and the
chain is that mode, managed identity and Azure CLI, each or none (`ChainOfThree`).
`ImportsReachTheObject` needs that a scope which `Client` has let pass is let pass
again after the import rewrote it; `ImportedReaches` shows this and where the import
leads, by the three cases of a location, a regional host and another host, and
`ImportInv` carries it along.

TLC has checked every inductive invariant on the instances above as well.

Only model-checked: liveness, which is out of the prover's reach (`CallsEnd`,
`UpdateEnds`, `CallEnds` and the fairness in `LockCreateSerializes`); and the
findings, which are counterexamples. Every invariant and every action property of
a passing run is a theorem.

## 6. Limits of the model

- The service is modelled from what the client must tolerate. A PUT is never
  applied twice by the network, IDs are not reused, and an object's labels do
  not change.
- Imports of sandboxes are in `SandboxValues`, with their values, and not in
  `SandboxCreate`; what an unchecked import does to the ownership of an object is
  in `DiskImage`.
- The object of a PUT that was sent just before the deadline stays without an entry
  when the recovery has no time left; `KeepsOwnPut` speaks of calls that settled, and
  what is shown is that a later Create refuses the name instead of making another.
- The rules of one port are one value of `settings`; "vague" stands for all that
  validation rejects because it is unknown, although it accepts a single rule with an
  unknown name.
- A late service voids the uniqueness properties : `SandboxCreate` then has
  two objects of one name; so does Read after a 404 of an
  object that the replicas do not serve yet.
- Nobody outside of Terraform writes to the sandbox in `SandboxUpdate`; changes
  of the ports by others, and the hiding of ports that were all removed elsewhere,
  are in `SandboxValues`.
- In `DiskImage` the service is prompt, a list ends, and only `deletion_policy`
  changes in place. That a list with a link that repeats goes on until the deadline
  is clear from the code and in no model.
- Empty strings, which most of the code treats as null, are left out of
  `Credential` and `SandboxConfig`, and unknown flags count as false, as in the
  code. User agent, API version and HTTP transport are constants of a provider.
- Malformed group IDs, hosts and URLs are one case; the text of URLs and its
  escapes are abstracted.
- The values of attributes are abstract. Requests that cannot be built from a
  configuration appear as `CheckFails` in Create; in Update such diagnostics are
  left out, since validated configurations do not produce them.
- `Polling` stops at the context's deadline; a user's interrupt would stop it
  earlier. In `Receive` the branch for the loop's own deadline is in the model
  but never taken, as the invariant of its proofs shows.
- Not modelled: the data sources (one GET and a copy, no state and no lock); the
  conversions of egress rules, lifecycle and volumes (field by field); the rules of
  a disk image for registry credentials (two comparisons of nullness);
  `resolveURL` and the decoding of bodies, whose failures are outcomes of a
  request; the schemas where planning does not depend on them; HCL modules,
  `experimental/`, examples, scripts and CI, which are outside of the provider.

## 7. Plan

Done: all modules of section 2, and the proofs of section 5. Left, in this order:

1. The interplay of the layers as theorems: that the outcomes which `SandboxCreate`
   and `DiskImage` take a request to have are those that `HttpSend` leaves.
2. What `SandboxUpdate` and `SandboxValues` say of one refresh of the ports, from one
   definition.
3. The rules of a disk image for registry credentials and the conversions of
   egress rules, if they grow beyond copies.
