--------------------------- MODULE SandboxCreate ---------------------------
(***************************************************************************)
(* The create, read and delete handlers of the aca_sandbox resource        *)
(* (provider/resource_sandbox.go), run concurrently by several provider    *)
(* processes against one sandbox group.                                    *)
(*                                                                         *)
(* Terraform keeps one state entry per resource address and runs at most   *)
(* one call per address.  Calls of different addresses run concurrently.   *)
(* Create serializes on a mutex that lives in the provider process, looks  *)
(* the name up, sends one PUT, and when the answer is lost looks for the   *)
(* object by the labels it asked for.  resp.State is memory of the         *)
(* provider process until the call returns.                                *)
(*                                                                         *)
(* The service is external: it is modelled from what the client must       *)
(* tolerate.  PromptService restricts it to one that decides a PUT before  *)
(* the connection ends and lists an object as soon as it exists.           *)
(***************************************************************************)
EXTENDS FiniteSets

CONSTANTS
    Address,       \* resource addresses, over all Terraform states
    Proc,          \* provider processes, one per Terraform state
    Key,           \* create-lock keys: a process with its group|kind|name string
    Name,          \* values of the reserved terraform-name label
    Fingerprint,   \* values of the reserved create-fingerprint label
    ObjectId,      \* IDs the service can give out; each is used once
    NoId,          \* the empty ID, and an address that state does not hold
    Free,          \* the holder of an unlocked mutex
    ProcOf, KeyOf, NameOf, FingerprintOf,   \* the configuration of an address
    Retain,        \* addresses with deletion_policy = "Retain"
    PromptService  \* whether the service is prompt (see above)

(* A lock key names one process and contains the configured name.          *)
ASSUME ConfigAssumption ==
    /\ ProcOf \in [Address -> Proc]
    /\ KeyOf \in [Address -> Key]
    /\ NameOf \in [Address -> Name]
    /\ FingerprintOf \in [Address -> Fingerprint]
    /\ \A a, b \in Address : KeyOf[a] = KeyOf[b] =>
          ProcOf[a] = ProcOf[b] /\ NameOf[a] = NameOf[b]
    /\ Retain \subseteq Address
    /\ Free \notin Key
    /\ PromptService \in BOOLEAN
    /\ NoId \notin ObjectId
    /\ Free \notin Address

VARIABLES
    \* Terraform state
    recorded,  \* the ID stored for each address, or NoId
    tainted,   \* whether the stored entry came with an error from Create
    \* provider processes
    pc,        \* where the call of each address stands; "idle" is no call
    expired,   \* whether the context deadline of the call has passed
    mutex,     \* the holder of each create lock
    puts,      \* objects the current call has asked the service to create
    got,       \* the ID Create holds in memory, once it has one
    resp,      \* the state entry that the finished call hands to Terraform
    \* the service
    status,    \* how far each object has come
    maker,     \* the address whose PUT asked for the object, Free before that
    visible    \* whether GET and LIST see the object

terraform == <<recorded, tainted>>
call      == <<pc, expired, puts, got, resp>>
service   == <<status, maker, visible>>
vars      == <<recorded, tainted, pc, expired, mutex, puts, got, resp,
               status, maker, visible>>

PC == {"idle", "lock", "check", "put", "reply", "recover", "wait",
       "delete", "deletewait", "return"}

\* Between LockCreate and the deferred unlock.
Critical == {"check", "put", "reply", "recover", "wait"}

Status == {"free", "sent", "rejected", "starting", "running", "failed",
           "deleting", "gone"}

\* Objects the service has; a deleting object is still listed.
Live == {"starting", "running", "failed", "deleting"}

NoResp == [id |-> NoId, bad |-> FALSE]

\* Entries and answers hold an ID or none, a mutex its holder or Free, and every
\* call stands at a place of its handler.
TypeOK ==
    /\ recorded \in [Address -> ObjectId \cup {NoId}]
    /\ tainted \in [Address -> BOOLEAN]
    /\ pc \in [Address -> PC]
    /\ expired \in [Address -> BOOLEAN]
    /\ mutex \in [Key -> Address \cup {Free}]
    /\ puts \in [Address -> SUBSET ObjectId]
    /\ got \in [Address -> ObjectId \cup {NoId}]
    /\ resp \in [Address -> [id : ObjectId \cup {NoId}, bad : BOOLEAN]]
    /\ status \in [ObjectId -> Status]
    /\ maker \in [ObjectId -> Address \cup {Free}]
    /\ visible \in [ObjectId -> BOOLEAN]

Init ==
    /\ recorded = [a \in Address |-> NoId]
    /\ tainted = [a \in Address |-> FALSE]
    /\ pc = [a \in Address |-> "idle"]
    /\ expired = [a \in Address |-> FALSE]
    /\ mutex = [k \in Key |-> Free]
    /\ puts = [a \in Address |-> {}]
    /\ got = [a \in Address |-> NoId]
    /\ resp = [a \in Address |-> NoResp]
    /\ status = [i \in ObjectId |-> "free"]
    /\ maker = [i \in ObjectId |-> Free]
    /\ visible = [i \in ObjectId |-> FALSE]

-----------------------------------------------------------------------------
(* What the service answers.                                               *)

\* GET finds the object; otherwise it answers 404.
Found(i) == status[i] \in Live /\ visible[i]

\* The list by name label, filtered again by filterSandboxesByLabel.
Named(a) == {i \in ObjectId : Found(i) /\ NameOf[maker[i]] = NameOf[a]}

\* Mutant: recovery trusts the name label alone.
MatchesNameOnly(a) == Named(a)

\* The recovery list: name and fingerprint labels must both match.
Matches(a) ==
    {i \in Named(a) : FingerprintOf[maker[i]] = FingerprintOf[a]}

-----------------------------------------------------------------------------
(* The end of a handler: the deferred unlock and cancel run, and resp waits *)
(* to be sent.                                                             *)

\* Mutant: the deferred unlock is missing.
UnlockForgotten(a) == UNCHANGED mutex

\* Mutant: the unlock stores something that is no holder.
UnlockToZero(a) == mutex' = [k \in Key |-> IF mutex[k] = a THEN NoId ELSE mutex[k]]

Unlock(a) == mutex' = [k \in Key |-> IF mutex[k] = a THEN Free ELSE mutex[k]]

Finish(a, id, bad) ==
    /\ pc' = [pc EXCEPT ![a] = "return"]
    /\ resp' = [resp EXCEPT ![a] = [id |-> id, bad |-> bad]]
    /\ got' = [got EXCEPT ![a] = NoId]
    /\ puts' = [puts EXCEPT ![a] = {}]
    /\ expired' = [expired EXCEPT ![a] = FALSE]
    /\ Unlock(a)
    /\ UNCHANGED terraform

Goto(a, next) ==
    /\ pc' = [pc EXCEPT ![a] = next]
    /\ UNCHANGED <<expired, resp, terraform>>

\* An error before resp.State is set: Terraform keeps no entry.
CreateFails(a) == Finish(a, NoId, TRUE) /\ UNCHANGED service

-----------------------------------------------------------------------------
(* Create.                                                                 *)

BeginCreate(a) ==
    /\ pc[a] = "idle"
    /\ recorded[a] = NoId
    /\ pc' = [pc EXCEPT ![a] = "lock"]
    /\ UNCHANGED <<expired, mutex, puts, got, resp, terraform, service>>

\* Mutant: LockCreate does not wait.
LockCreateAtOnce(a) ==
    /\ pc[a] = "lock"
    /\ mutex' = [mutex EXCEPT ![KeyOf[a]] = a]
    /\ Goto(a, "check")
    /\ UNCHANGED <<puts, got, service>>

\* LockCreate: a plain mutex, so neither the deadline nor a cancellation
\* wakes a call that waits for it.
LockCreate(a) ==
    /\ pc[a] = "lock"
    /\ mutex[KeyOf[a]] = Free
    /\ mutex' = [mutex EXCEPT ![KeyOf[a]] = a]
    /\ Goto(a, "check")
    /\ UNCHANGED <<puts, got, service>>

\* The request cannot be built, or the list fails.
CheckFails(a) ==
    /\ pc[a] = "check"
    /\ CreateFails(a)

\* An object with this name exists: the import message.
CheckFindsName(a) ==
    /\ pc[a] = "check"
    /\ ~expired[a]
    /\ Named(a) # {}
    /\ CreateFails(a)

\* Mutant: the result of the lookup is ignored.
CheckSkipped(a) ==
    /\ pc[a] = "check"
    /\ ~expired[a]
    /\ Goto(a, "put")
    /\ UNCHANGED <<mutex, puts, got, service>>

CheckPasses(a) ==
    /\ pc[a] = "check"
    /\ ~expired[a]
    /\ Named(a) = {}
    /\ Goto(a, "put")
    /\ UNCHANGED <<mutex, puts, got, service>>

\* The PUT leaves the process.  A prompt service decides it at once.
SendPut(a) ==
    /\ pc[a] = "put"
    /\ ~expired[a]
    /\ \E i \in ObjectId,
          s \in IF PromptService THEN {"starting", "rejected"} ELSE {"sent"} :
          /\ status[i] = "free"
          /\ status' = [status EXCEPT ![i] = s]
          /\ maker' = [maker EXCEPT ![i] = a]
          /\ visible' = [visible EXCEPT ![i] = PromptService]
          /\ puts' = [puts EXCEPT ![a] = @ \cup {i}]
    /\ Goto(a, "reply")
    /\ UNCHANGED <<mutex, got>>

\* No token, no connection or no time left: the PUT is not sent, and since
\* the error is not a ServiceError it counts as ambiguous.
PutNotSent(a) ==
    /\ pc[a] = "put"
    /\ Goto(a, "recover")
    /\ UNCHANGED <<mutex, puts, got, service>>

ReplyHasId(a) ==
    /\ pc[a] = "reply"
    /\ ~expired[a]
    /\ \E i \in puts[a] :
          /\ status[i] \in Live \cup {"gone"}
          /\ got' = [got EXCEPT ![a] = i]
    /\ Goto(a, "wait")
    /\ UNCHANGED <<mutex, puts, service>>

\* A 4xx other than 408: not ambiguous.
ReplyRejects(a) ==
    /\ pc[a] = "reply"
    /\ ~expired[a]
    /\ \E i \in puts[a] : status[i] = "rejected"
    /\ CreateFails(a)

\* Mutant: the PUT is retried when its answer is lost.
ReplyRetried(a) ==
    /\ pc[a] = "reply"
    /\ Goto(a, "put")
    /\ UNCHANGED <<mutex, puts, got, service>>

\* A transport error, the deadline, 408, 5xx, a body that does not decode, or
\* a 2xx without an ID, whatever the service did or will do with the PUT.
ReplyUnusable(a) ==
    /\ pc[a] = "reply"
    /\ Goto(a, "recover")
    /\ UNCHANGED <<mutex, puts, got, service>>

RecoverOne(a) ==
    /\ pc[a] = "recover"
    /\ ~expired[a]
    /\ \E i \in ObjectId :
          /\ Matches(a) = {i}
          /\ got' = [got EXCEPT ![a] = i]
    /\ Goto(a, "wait")
    /\ UNCHANGED <<mutex, puts, service>>

RecoverSeveral(a) ==
    /\ pc[a] = "recover"
    /\ ~expired[a]
    /\ \E i, j \in Matches(a) : i # j
    /\ CreateFails(a)

\* Nothing matched by recoveryDeadline: 30 s, or the deadline of the context.
RecoverNone(a) ==
    /\ pc[a] = "recover"
    /\ Matches(a) = {}
    /\ CreateFails(a)

\* A list error ends the recovery at once, and so does an expired context.
RecoverListFails(a) ==
    /\ pc[a] = "recover"
    /\ CreateFails(a)

\* WaitForSandbox sees Running: Terraform will store a good entry.
WaitRunning(a) ==
    /\ pc[a] = "wait"
    /\ ~expired[a]
    /\ Found(got[a])
    /\ status[got[a]] = "running"
    /\ Finish(a, got[a], FALSE)
    /\ UNCHANGED service

\* Failed or Deleting: resp.State still holds the ID, with an error.
WaitTerminal(a) ==
    /\ pc[a] = "wait"
    /\ ~expired[a]
    /\ Found(got[a])
    /\ status[got[a]] \in {"failed", "deleting"}
    /\ Finish(a, got[a], TRUE)
    /\ UNCHANGED service

\* Mutant: a wait that fails is not reported.
WaitGivesUp(a) ==
    /\ pc[a] = "wait"
    /\ Finish(a, got[a], FALSE)
    /\ UNCHANGED service

\* A GET error other than 404, or the context deadline.
WaitFails(a) ==
    /\ pc[a] = "wait"
    /\ Finish(a, got[a], TRUE)
    /\ UNCHANGED service

-----------------------------------------------------------------------------
(* Delete: Terraform calls it to destroy or to replace, tainted or not.    *)

BeginDelete(a) ==
    /\ pc[a] = "idle"
    /\ recorded[a] # NoId
    /\ a \notin Retain
    /\ pc' = [pc EXCEPT ![a] = "delete"]
    /\ UNCHANGED <<expired, mutex, puts, got, resp, terraform, service>>

\* deletion_policy = "Retain": no call is made, the entry is dropped.
DeleteRetained(a) ==
    /\ pc[a] = "idle"
    /\ recorded[a] # NoId
    /\ a \in Retain
    /\ Finish(a, NoId, FALSE)
    /\ UNCHANGED service

KeepEntry(a) == Finish(a, recorded[a], tainted[a])

\* The DELETE takes effect; its answer may still be lost.
DeleteAccepted(a) ==
    /\ pc[a] = "delete"
    /\ ~expired[a]
    /\ Found(recorded[a])
    /\ status' = [status EXCEPT ![recorded[a]] = "deleting"]
    /\ \/ Goto(a, "deletewait") /\ UNCHANGED <<mutex, puts, got>>
       \/ KeepEntry(a)
    /\ UNCHANGED <<maker, visible>>

\* 404 counts as deleted.
DeleteNotFound(a) ==
    /\ pc[a] = "delete"
    /\ ~expired[a]
    /\ ~Found(recorded[a])
    /\ Goto(a, "deletewait")
    /\ UNCHANGED <<mutex, puts, got, service>>

\* Any other error of DELETE, and any error but 404 while polling.
DeleteFails(a) ==
    /\ pc[a] \in {"delete", "deletewait"}
    /\ KeepEntry(a)
    /\ UNCHANGED service

\* Mutant: the first poll ends the deletion, whatever it finds.
DeleteUnpolled(a) ==
    /\ pc[a] = "deletewait"
    /\ ~expired[a]
    /\ Finish(a, NoId, FALSE)
    /\ UNCHANGED service

\* waitForDeletion ends with a 404.
DeleteConfirmed(a) ==
    /\ pc[a] = "deletewait"
    /\ ~expired[a]
    /\ ~Found(recorded[a])
    /\ Finish(a, NoId, FALSE)
    /\ UNCHANGED service

-----------------------------------------------------------------------------
(* Read: a 404 removes the entry; everything else keeps its ID.            *)

\* Mutant: Read drops the entry on any error.
ReadAnyError(a) ==
    /\ pc[a] = "idle"
    /\ recorded[a] # NoId
    /\ recorded' = [recorded EXCEPT ![a] = NoId]
    /\ tainted' = [tainted EXCEPT ![a] = FALSE]
    /\ UNCHANGED <<call, mutex, service>>

ReadNotFound(a) ==
    /\ pc[a] = "idle"
    /\ recorded[a] # NoId
    /\ ~Found(recorded[a])
    /\ recorded' = [recorded EXCEPT ![a] = NoId]
    /\ tainted' = [tainted EXCEPT ![a] = FALSE]
    /\ UNCHANGED <<call, mutex, service>>

-----------------------------------------------------------------------------
(* Terraform, time and crashes.                                            *)

\* The RPC returns and Terraform writes its state.
Deliver(a) ==
    /\ pc[a] = "return"
    /\ recorded' = [recorded EXCEPT ![a] = resp[a].id]
    /\ tainted' = [tainted EXCEPT ![a] = resp[a].id # NoId /\ resp[a].bad]
    /\ resp' = [resp EXCEPT ![a] = NoResp]
    /\ pc' = [pc EXCEPT ![a] = "idle"]
    /\ UNCHANGED <<expired, mutex, puts, got, service>>

Expire(a) ==
    /\ pc[a] \notin {"idle", "return"}
    /\ ~expired[a]
    /\ expired' = [expired EXCEPT ![a] = TRUE]
    /\ UNCHANGED <<pc, mutex, puts, got, resp, terraform, service>>

\* The process dies: its memory and its mutexes go, Terraform's state and
\* whatever the service has accepted stay.
Crash(p) ==
    LET Mine == {a \in Address : ProcOf[a] = p} IN
    /\ \E a \in Mine : pc[a] # "idle"
    /\ pc' = [a \in Address |-> IF a \in Mine THEN "idle" ELSE pc[a]]
    /\ puts' = [a \in Address |-> IF a \in Mine THEN {} ELSE puts[a]]
    /\ got' = [a \in Address |-> IF a \in Mine THEN NoId ELSE got[a]]
    /\ resp' = [a \in Address |-> IF a \in Mine THEN NoResp ELSE resp[a]]
    /\ mutex' = [k \in Key |-> IF mutex[k] \in Mine THEN Free ELSE mutex[k]]
    /\ expired' = [a \in Address |-> a \notin Mine /\ expired[a]]
    /\ UNCHANGED <<terraform, service>>

-----------------------------------------------------------------------------
(* The service on its own.                                                 *)

\* Statuses an object can move to without a call of the provider.
Moves(s) ==
    CASE s = "sent"     -> {"starting", "rejected"}
      [] s = "starting" -> {"running", "failed", "deleting"}
      [] s = "running"  -> {"deleting"}
      [] s = "failed"   -> {"deleting"}
      [] s = "deleting" -> {"gone"}
      [] OTHER          -> {}

ServiceMoves(i) ==
    /\ \E s \in Moves(status[i]) : status' = [status EXCEPT ![i] = s]
    /\ UNCHANGED <<call, mutex, terraform, maker, visible>>

\* A created object reaches the replicas that answer GET and LIST.
BecomesVisible(i) ==
    /\ status[i] \in Live
    /\ ~visible[i]
    /\ visible' = [visible EXCEPT ![i] = TRUE]
    /\ UNCHANGED <<call, mutex, terraform, status, maker>>

-----------------------------------------------------------------------------

Check(a)   == CheckFails(a) \/ CheckFindsName(a) \/ CheckPasses(a)
Put(a)     == SendPut(a) \/ PutNotSent(a)
Reply(a)   == ReplyHasId(a) \/ ReplyRejects(a) \/ ReplyUnusable(a)
Recover(a) == RecoverOne(a) \/ RecoverSeveral(a) \/ RecoverNone(a)
                 \/ RecoverListFails(a)
Wait(a)    == WaitRunning(a) \/ WaitTerminal(a) \/ WaitFails(a)
Delete(a)  == BeginDelete(a) \/ DeleteRetained(a) \/ DeleteAccepted(a)
                 \/ DeleteNotFound(a) \/ DeleteFails(a) \/ DeleteConfirmed(a)

Create(a) == BeginCreate(a) \/ LockCreate(a) \/ Check(a) \/ Put(a)
                \/ Reply(a) \/ Recover(a) \/ Wait(a)

Next ==
    \/ \E a \in Address :
          Create(a) \/ Delete(a) \/ ReadNotFound(a) \/ Deliver(a) \/ Expire(a)
    \/ \E p \in Proc : Crash(p)
    \/ \E i \in ObjectId : ServiceMoves(i) \/ BecomesVisible(i)

Spec == Init /\ [][Next]_vars

(* Time passes, so a deadline is reached; a call that can go on goes on,   *)
(* but only an expired context obliges a request to fail; the RPC returns; *)
(* sync.Mutex hands over to a waiter after 1 ms, so no waiter starves.     *)
(* The service, Terraform's user and crashes are under no obligation.      *)
GoesOn(a) ==
    \/ CheckFindsName(a) \/ CheckPasses(a) \/ SendPut(a)
    \/ ReplyHasId(a) \/ ReplyRejects(a)
    \/ RecoverOne(a) \/ RecoverSeveral(a) \/ RecoverNone(a)
    \/ WaitRunning(a) \/ WaitTerminal(a)
    \/ DeleteAccepted(a) \/ DeleteNotFound(a) \/ DeleteConfirmed(a)

Cancelled(a) ==
    /\ expired[a]
    /\ \/ CheckFails(a) \/ PutNotSent(a) \/ ReplyUnusable(a)
       \/ RecoverListFails(a) \/ WaitFails(a) \/ DeleteFails(a)

Fairness ==
    \A a \in Address :
       /\ WF_vars(Expire(a))
       /\ WF_vars(GoesOn(a))
       /\ WF_vars(Cancelled(a))
       /\ WF_vars(Deliver(a))
       /\ SF_vars(LockCreate(a))

FairSpec == Spec /\ Fairness

-----------------------------------------------------------------------------
(* Properties.                                                             *)

\* Calls of one process that create the same name exclude each other from the
\* lookup to the end of the wait (the mutex of ProviderData.LockCreate).
CreatesSerialized ==
    \A a, b \in Address :
        a # b /\ KeyOf[a] = KeyOf[b] => ~(pc[a] \in Critical /\ pc[b] \in Critical)

\* With a prompt service, the creates of one process never leave two objects
\* of one name in the group, whatever calls were cancelled, whatever answers
\* were lost and however often the process died in between.
NoDuplicates ==
    PromptService =>
        \A i, j \in ObjectId :
            /\ status[i] \in Live /\ status[j] \in Live
            /\ KeyOf[maker[i]] = KeyOf[maker[j]]
            => i = j

\* IDs that an address has, or will have once its call ends well.
Claims(a) == {recorded[a], got[a], resp[a].id} \ {NoId}

\* With a prompt service, an object that exists belongs to one address only
\* of those that share a create lock: recovery never hands an address the
\* object that another one holds.
SoleOwner ==
    PromptService =>
        \A a, b \in Address :
            /\ a # b
            /\ KeyOf[a] = KeyOf[b]
            => \A i \in Claims(a) \cap Claims(b) : status[i] \notin Live

\* With a prompt service, a Create that has settled on an ID has not left
\* another object of its own behind: recovery finds the object of its own PUT.
KeepsOwnPut ==
    PromptService =>
        \A a \in Address :
            pc[a] = "wait" =>
                \A i \in puts[a] : status[i] \in Live => got[a] = i

\* Whatever the service does, the ID an address has or will have is that of an
\* object the service made for a configuration with this name and fingerprint.
ClaimsMatch ==
    \A a \in Address :
        \A i \in Claims(a) :
            /\ status[i] \in Live \cup {"gone"}
            /\ NameOf[maker[i]] = NameOf[a]
            /\ FingerprintOf[maker[i]] = FingerprintOf[a]

\* Whatever the service does, an entry that Terraform holds untainted names an
\* object that has been seen running: a Create that ends early, and a Delete
\* that fails, never turn an object that was not ready into a good entry.
GoodEntriesRan ==
    \A a \in Address :
        recorded[a] # NoId /\ ~tainted[a] =>
            status[recorded[a]] \in {"running", "deleting", "gone"}

\* With a prompt service, Terraform forgets an ID only when the object is gone
\* or its address retains it: neither Read nor Delete loses a live object.
ForgetsOnlyGone ==
    PromptService =>
        \A a \in Address :
            recorded[a] # NoId /\ recorded'[a] # recorded[a] =>
                a \in Retain \/ status[recorded[a]] = "gone"

NeverForgetsLive == [][ForgetsOnlyGone]_vars

\* With a prompt service, the handlers implement ManagedNames.
Made(i) == IF status[i] \in Live \cup {"gone"} THEN KeyOf[maker[i]] ELSE Free

Promise == INSTANCE ManagedNames WITH
    NoKey  <- Free,
    exists <- {i \in ObjectId : status[i] \in Live},
    madeBy <- [i \in ObjectId |-> Made(i)],
    owner  <- recorded

KeepsPromise == Promise!Spec

\* Every call ends, also one that waits for the mutex of a call that is stuck
\* in its wait: each holder is bounded by its own deadline.
CallsEnd == \A a \in Address : (pc[a] # "idle") ~> (pc[a] = "idle")

\* The warning of a recovery says that the service created the sandbox although
\* the answer to the create failed: what is recovered was asked for by this call.
RecoversOwnPut == \A a \in Address : pc[a] = "wait" => got[a] \in puts[a]

-----------------------------------------------------------------------------
(* The inductive invariant behind these properties.                        *)

\* A critical call holds its lock, and a held lock has a critical holder.
LockInv ==
    /\ \A a \in Address : pc[a] \in Critical => mutex[KeyOf[a]] = a
    /\ \A k \in Key : mutex[k] # Free =>
          KeyOf[mutex[k]] = k /\ pc[mutex[k]] \in Critical

\* What the local variables of a call hold depends on where the call stands.
CallInv ==
    \A a \in Address :
        /\ pc[a] \in Critical \cup {"lock"} => recorded[a] = NoId
        /\ pc[a] \in {"delete", "deletewait"} => recorded[a] # NoId
        /\ pc[a] = "wait" <=> got[a] # NoId
        /\ resp[a].id # NoId => pc[a] = "return"
        /\ puts[a] # {} => pc[a] \in {"reply", "recover", "wait"}

\* An object that was asked for has a maker; a call asks for one object.
MakerInv ==
    /\ \A i \in ObjectId : status[i] # "free" => maker[i] \in Address
    /\ \A a \in Address : \A i \in puts[a] :
          /\ maker[i] = a
          /\ status[i] # "free"
          /\ \A j \in puts[a] : i = j

\* A prompt service lists whatever it has.
PromptInv ==
    PromptService =>
        \A i \in ObjectId : status[i] # "sent" /\ (status[i] \in Live => visible[i])

\* A call that has passed its lookup found no live object of its name, and
\* since it holds the lock nobody with its key has made or taken one since.
Cleared ==
    PromptService =>
        \A a \in Address :
            /\ pc[a] = "put" =>
                  \A i \in ObjectId :
                      status[i] \in Live => KeyOf[maker[i]] # KeyOf[a]
            /\ pc[a] \in {"put", "reply", "recover"} =>
                  \A b \in Address : b # a /\ KeyOf[b] = KeyOf[a] =>
                      \A i \in Claims(b) : status[i] \notin Live

\* A finished call changes an entry only to remove it, when the object is gone
\* or retained.
RemovalInv ==
    PromptService =>
        \A a \in Address :
            /\ pc[a] = "return"
            /\ recorded[a] # NoId
            /\ resp[a].id # recorded[a]
            => /\ resp[a].id = NoId
               /\ a \in Retain \/ status[recorded[a]] = "gone"

\* A good outcome that is not yet delivered names an object that was running.
GoodRespRan ==
    \A a \in Address :
        resp[a].id # NoId /\ ~resp[a].bad =>
            status[resp[a].id] \in {"running", "deleting", "gone"}

\* All of it together, which every step of the handlers preserves.
IInv ==
    /\ TypeOK /\ LockInv /\ CallInv /\ MakerInv /\ PromptInv /\ Cleared
    /\ RemovalInv /\ GoodRespRan
    /\ ClaimsMatch /\ NoDuplicates /\ SoleOwner /\ KeepsOwnPut /\ GoodEntriesRan
=============================================================================
