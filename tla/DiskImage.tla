------------------------------ MODULE DiskImage ------------------------------
(***************************************************************************)
(* The aca_sandbox_disk_image resource                                     *)
(* (provider/resource_disk_image.go): a list in pages while images come    *)
(* and go, an update in place, an import, and the sandboxes that use an    *)
(* image.                                                                  *)
(*                                                                         *)
(* Create has the shape of the sandbox's: lock, list, PUT, recovery, wait. *)
(* Every request can fail, with an expired context for one reason; only    *)
(* safety is stated here, so deadlines need no variable.  The service is   *)
(* external and prompt: it decides a PUT at once and lists an image as     *)
(* soon as it exists.                                                      *)
(***************************************************************************)
EXTENDS Integers, FiniteSets

CONSTANTS
    Address,       \* resource addresses, over all Terraform states
    Proc,          \* provider processes, one per Terraform state
    Key,           \* create-lock keys: a process with its group|kind|name string
    Name, Fingerprint,   \* values of the two reserved labels
    ObjectId,      \* IDs the service can give out, numbers in the order of the list
    Foreign,       \* IDs of images that are made elsewhere
    Copied,        \* addresses whose configuration another state has as well
    NoImage,       \* no entry, no image
    NullId,        \* what an entry with a null id holds
    Free,          \* the holder of an unlocked mutex
    ProcOf, KeyOf, NameOf, FingerprintOf,   \* the configuration of an address
    Boxed,         \* addresses whose image a sandbox of the same state uses
    PageSize       \* images per page of the list

ASSUME ImageAssumption ==
    /\ ProcOf \in [Address -> Proc]
    /\ KeyOf \in [Address -> Key]
    /\ NameOf \in [Address -> Name]
    /\ FingerprintOf \in [Address -> Fingerprint]
    /\ \A a, b \in Address : KeyOf[a] = KeyOf[b] =>
          ProcOf[a] = ProcOf[b] /\ NameOf[a] = NameOf[b]
    /\ ObjectId \subseteq Nat \ {0} /\ IsFiniteSet(ObjectId)
    /\ Foreign \subseteq ObjectId /\ Copied \subseteq Address
    /\ NoImage \notin ObjectId /\ NullId \notin ObjectId /\ NoImage # NullId
    /\ Free \notin Address
    /\ Boxed \subseteq Address
    /\ PageSize \in Nat \ {0}

VARIABLES
    entry,     \* Terraform's entry of each address: its id and deletion_policy
    box,       \* the image that the state's sandbox uses, from its PUT on
    boxpc,     \* where the Create or Delete of that sandbox stands; it has an
               \* entry once its Create is over
    call,      \* the call of each address: place, list, and local variables
    mutex,     \* the holder of each create lock
    status,    \* how far each image has come
    maker,     \* the address whose labels the image carries, or Free
    usedBy     \* whether a sandbox uses it, and whether that is known ("box"),
               \* retained, or left by a Create that recorded no entry

boxes     == <<box, boxpc>>
process   == <<call, mutex>>
service   == <<status, maker, usedBy>>
vars      == <<entry, boxes, process, service>>

PC == {"idle", "lock", "check", "put", "reply", "recover", "wait",
       "delete", "deletewait", "return"}

Policy == {"Delete", "Retain"}

\* "building" stands for a failed image as well: no sandbox can use either.
Live == {"building", "ready", "deleting"}

\* A history field: who gave the entry its image.
Origin == {"create", "import"}

NoEntry == [id |-> NoImage, policy |-> "Delete", by |-> "create"]

\* cursor and seen belong to a list under way, made to the PUT in flight, got is
\* the ID of Create, and resp the ID that a finished call hands to Terraform.
NoCall == [pc |-> "idle", cursor |-> 0, seen |-> {}, made |-> NoImage,
           got |-> NoImage, resp |-> NoImage]

\* Entries hold an ID, a null ID or nothing, and calls stand at places of a handler.
TypeOK ==
    LET ImageOrNone == ObjectId \cup {NoImage} IN
    /\ entry \in [Address ->
          [id : ImageOrNone \cup {NullId}, policy : Policy, by : Origin]]
    /\ box \in [Address -> ImageOrNone]
    /\ boxpc \in [Address -> {"idle", "create", "wait"}]
    /\ call \in [Address ->
          [pc : PC, cursor : ObjectId \cup {0}, seen : SUBSET ObjectId,
           made : ImageOrNone, got : ImageOrNone,
           resp : ImageOrNone \cup {NullId}]]
    /\ mutex \in [Key -> Address \cup {Free}]
    /\ status \in [ObjectId -> Live \cup {"free", "gone"}]
    /\ maker \in [ObjectId -> Address \cup {Free}]
    /\ usedBy \in [ObjectId -> {"nobody", "box", "retained", "left"}]

Init ==
    /\ entry = [a \in Address |-> NoEntry]
    /\ box = [a \in Address |-> NoImage]
    /\ boxpc = [a \in Address |-> "idle"]
    /\ call = [a \in Address |-> NoCall]
    /\ mutex = [k \in Key |-> Free]
    /\ status = [i \in ObjectId |-> "free"]
    /\ maker = [i \in ObjectId |-> Free]
    /\ usedBy = [i \in ObjectId |-> "nobody"]

At(a, place) == call[a].pc = place

-----------------------------------------------------------------------------
(* What the service answers, and the list of the client.                   *)

\* GET finds the image.  A null id asks for the collection: 404 or an error.
Found(i) == i \in ObjectId /\ status[i] \in Live

\* filterDiskImagesByLabel on the name label.
Named(a, images) ==
    {i \in images : maker[i] \in Address /\ NameOf[maker[i]] = NameOf[a]}

Rest(a) == {i \in ObjectId : Found(i) /\ i > call[a].cursor}

Page(a) ==
    {i \in Rest(a) : Cardinality({j \in Rest(a) : j < i}) < PageSize}

\* Mutant: nextLink is not followed.
FirstPageOnly(a) == TRUE

\* The page has no nextLink, or is a plain array.
LastPage(a) == Page(a) = Rest(a)

\* What ListDiskImages has collected when it returns.
Listed(a) == call[a].seen \cup Named(a, Page(a))

Matches(a) ==
    {i \in Listed(a) : FingerprintOf[maker[i]] = FingerprintOf[a]}

-----------------------------------------------------------------------------
(* How a handler goes on and how it ends.                                  *)

Moved(c, place) == [c EXCEPT !.pc = place, !.cursor = 0, !.seen = {}]

Goto(a, place) ==
    /\ call' = [call EXCEPT ![a] = Moved(@, place)]
    /\ UNCHANGED <<mutex, entry, boxes>>

\* Mutant: the unlock stores something that is no holder.
UnlockToNone(a) ==
    mutex' = [k \in Key |-> IF mutex[k] = a THEN NoImage ELSE mutex[k]]

Unlock(a) == mutex' = [k \in Key |-> IF mutex[k] = a THEN Free ELSE mutex[k]]

\* The deferred unlock runs, and resp waits to be sent.
Finish(a, id) ==
    /\ call' = [call EXCEPT ![a] = [NoCall EXCEPT !.pc = "return", !.resp = id]]
    /\ Unlock(a)
    /\ UNCHANGED <<entry, boxes>>

CreateFails(a) == Finish(a, NoImage) /\ UNCHANGED service

-----------------------------------------------------------------------------
(* Create.                                                                 *)

BeginCreate(a) ==
    /\ At(a, "idle")
    /\ entry[a].id = NoImage
    /\ Goto(a, "lock")
    /\ UNCHANGED service

LockCreate(a) ==
    /\ At(a, "lock")
    /\ mutex[KeyOf[a]] = Free
    /\ mutex' = [mutex EXCEPT ![KeyOf[a]] = a]
    /\ call' = [call EXCEPT ![a] = Moved(@, "check")]
    /\ UNCHANGED <<entry, boxes, service>>

\* One more page of the lookup or of the recovery, and others follow.
ListPage(a) ==
    /\ At(a, "check") \/ At(a, "recover")
    /\ ~LastPage(a)
    /\ \E i \in Page(a) :
          /\ \A j \in Page(a) : j <= i
          /\ call' = [call EXCEPT ![a].cursor = i, ![a].seen = Listed(a)]
    /\ UNCHANGED <<mutex, entry, boxes, service>>

\* A page that cannot be read, or an error before the PUT.
ListFails(a) ==
    /\ At(a, "check") \/ At(a, "recover")
    /\ CreateFails(a)

\* Mutant: an image with this name is taken over.
CheckAdopts(a) ==
    /\ At(a, "check")
    /\ LastPage(a)
    /\ \E i \in Listed(a) :
          call' = [call EXCEPT ![a] = [Moved(@, "wait") EXCEPT !.got = i]]
    /\ UNCHANGED <<mutex, entry, boxes, service>>

\* An image with this name exists: the import message.
CheckFindsName(a) ==
    /\ At(a, "check")
    /\ LastPage(a)
    /\ Listed(a) # {}
    /\ CreateFails(a)

CheckPasses(a) ==
    /\ At(a, "check")
    /\ LastPage(a)
    /\ Listed(a) = {}
    /\ Goto(a, "put")
    /\ UNCHANGED service

\* The PUT leaves the process, and the service makes an image.
SendPut(a) ==
    /\ At(a, "put")
    /\ \E i \in ObjectId :
          /\ status[i] = "free" /\ i \notin Foreign
          /\ status' = [status EXCEPT ![i] = "building"]
          /\ maker' = [maker EXCEPT ![i] = a]
          /\ call' = [call EXCEPT ![a].pc = "reply", ![a].made = i]
    /\ UNCHANGED <<mutex, entry, boxes, usedBy>>

\* It refuses: a 4xx other than 408.
PutRejected(a) ==
    /\ At(a, "put")
    /\ CreateFails(a)

ReplyHasId(a) ==
    /\ At(a, "reply")
    /\ call' = [call EXCEPT ![a].pc = "wait", ![a].got = call[a].made]
    /\ UNCHANGED <<mutex, entry, boxes, service>>

\* Ambiguous errors, also of a PUT that was never sent, and a 2xx without an ID.
ReplyUnusable(a) ==
    /\ At(a, "put") \/ At(a, "reply")
    /\ Goto(a, "recover")
    /\ UNCHANGED service

RecoverOne(a) ==
    /\ At(a, "recover")
    /\ LastPage(a)
    /\ \E i \in ObjectId :
          /\ Matches(a) = {i}
          /\ call' = [call EXCEPT ![a] = [Moved(@, "wait") EXCEPT !.got = i]]
    /\ UNCHANGED <<mutex, entry, boxes, service>>

RecoverSeveral(a) ==
    /\ At(a, "recover")
    /\ LastPage(a)
    /\ \E i, j \in Matches(a) : i # j
    /\ CreateFails(a)

\* Nothing matched: once more after 2 s, or the end at recoveryDeadline.
RecoverNone(a) ==
    /\ At(a, "recover")
    /\ LastPage(a)
    /\ Matches(a) = {}
    /\ CreateFails(a) \/ (Goto(a, "recover") /\ UNCHANGED service)

\* Ready, Failed, an error other than 404, or the deadline: in each case the
\* entry keeps the ID.  A deleting image, or one that is gone, is polled on.
WaitEnds(a) ==
    /\ At(a, "wait")
    /\ Finish(a, call[a].got)
    /\ UNCHANGED service

-----------------------------------------------------------------------------
(* Update, Delete, Read, ImportState.                                      *)

\* The sandbox is made after whatever is done to the image it refers to.
BeforeBox(a) == boxpc[a] # "create"

\* Only deletion_policy (or timeouts) can change in place.  Update writes the
\* plan to the state, and the plan of an update has id unknown: a Computed
\* attribute without UseStateForUnknown.  Terraform reports the unknown value
\* and stores null in its place.
Update(a) ==
    /\ At(a, "idle")
    /\ entry[a].id # NoImage
    /\ BeforeBox(a)
    /\ \E d \in Policy \ {entry[a].policy} :
          entry' = [entry EXCEPT ![a].id = NullId, ![a].policy = d]
    /\ UNCHANGED <<boxes, process, service>>

\* Destroy or replace, after the sandbox that refers to the image.
BeginDelete(a) ==
    /\ At(a, "idle")
    /\ entry[a].id # NoImage
    /\ box[a] = NoImage
    /\ entry[a].policy = "Delete"
    /\ Goto(a, "delete")
    /\ UNCHANGED service

DeleteRetained(a) ==
    /\ At(a, "idle")
    /\ entry[a].id # NoImage
    /\ box[a] = NoImage
    /\ entry[a].policy = "Retain"
    /\ Finish(a, NoImage)
    /\ UNCHANGED service

KeepEntry(a) == Finish(a, entry[a].id)

\* The DELETE takes effect; its answer may still be lost.
DeleteAccepted(a) ==
    /\ At(a, "delete")
    /\ Found(entry[a].id)
    /\ usedBy[entry[a].id] = "nobody"
    /\ status' = [status EXCEPT ![entry[a].id] = "deleting"]
    /\ Goto(a, "deletewait") \/ KeepEntry(a)
    /\ UNCHANGED <<maker, usedBy>>

DeleteNotFound(a) ==
    /\ At(a, "delete")
    /\ ~Found(entry[a].id)
    /\ Goto(a, "deletewait")
    /\ UNCHANGED service

\* A refusal (409 while a sandbox uses the image) or any other error.
DeleteFails(a) ==
    /\ At(a, "delete") \/ At(a, "deletewait")
    /\ KeepEntry(a)
    /\ UNCHANGED service

\* Mutant: waitForDeletion takes any answer for the end of the image.
DeleteUnpolled(a) ==
    /\ At(a, "deletewait")
    /\ Finish(a, NoImage)
    /\ UNCHANGED service

\* waitForDeletion ends with a 404.
DeleteConfirmed(a) ==
    /\ At(a, "deletewait")
    /\ ~Found(entry[a].id)
    /\ Finish(a, NoImage)
    /\ UNCHANGED service

\* A 404 removes the entry, also one without an ID; any other answer keeps it.
ReadNotFound(a) ==
    /\ At(a, "idle")
    /\ entry[a].id # NoImage
    /\ BeforeBox(a)
    /\ ~Found(entry[a].id)
    /\ entry' = [entry EXCEPT ![a] = NoEntry]
    /\ UNCHANGED <<boxes, process, service>>

\* The user imports an image by its URL.  Terraform asks that the address has no
\* entry, and the Read that follows that the image is there; nobody asks whether
\* another address has the image or a call is about to get it.  ImportState sets
\* the policy to "Delete".
ImportState(a) ==
    /\ At(a, "idle")
    /\ entry[a].id = NoImage
    /\ \E i \in ObjectId :
          /\ Found(i)
          /\ entry' = [entry EXCEPT ![a] =
                [id |-> i, policy |-> "Delete", by |-> "import"]]
    /\ UNCHANGED <<boxes, process, service>>

-----------------------------------------------------------------------------
(* The sandbox that uses the image, as its own handlers treat it; one      *)
(* sandbox, or entry of one that is gone, per image at a time.             *)

BoxOnly == UNCHANGED <<entry, process, status, maker>>

\* The PUT of its Create, once the image has an ID to refer to.
BoxPut(a) ==
    /\ a \in Boxed
    /\ box[a] = NoImage
    /\ At(a, "idle")
    /\ \E i \in ObjectId :
          /\ entry[a].id = i
          /\ status[i] = "ready"
          /\ usedBy[i] = "nobody" /\ \A b \in Boxed : box[b] # i
          /\ box' = [box EXCEPT ![a] = i]
          /\ usedBy' = [usedBy EXCEPT ![i] = "box"]
    /\ boxpc' = [boxpc EXCEPT ![a] = "create"]
    /\ BoxOnly

\* The answer, or the recovery, gives it an ID: from here on it has an entry.
BoxRecorded(a) ==
    /\ boxpc[a] = "create"
    /\ boxpc' = [boxpc EXCEPT ![a] = "idle"]
    /\ UNCHANGED <<box, usedBy>>
    /\ BoxOnly

\* The answer is lost and the recovery fails: a sandbox without an entry.
BoxUnrecorded(a) ==
    /\ boxpc[a] = "create"
    /\ boxpc' = [boxpc EXCEPT ![a] = "idle"]
    /\ box' = [box EXCEPT ![a] = NoImage]
    /\ usedBy' = [usedBy EXCEPT ![box[a]] = "left"]
    /\ BoxOnly

\* Its Delete: a DELETE and a wait.  The sandbox has either deletion_policy.
BoxDelete(a) ==
    /\ box[a] # NoImage
    /\ boxpc[a] = "idle"
    /\ boxpc' = [boxpc EXCEPT ![a] = "wait"]
    /\ UNCHANGED <<box, usedBy>>
    /\ BoxOnly

\* Its Delete with "Retain": the entry goes, a sandbox that is there stays.
BoxRetained(a) ==
    /\ box[a] # NoImage
    /\ boxpc[a] = "idle"
    /\ box' = [box EXCEPT ![a] = NoImage]
    /\ usedBy' = [usedBy EXCEPT ![box[a]] = IF @ = "box" THEN "retained" ELSE @]
    /\ UNCHANGED boxpc
    /\ BoxOnly

\* The service ends the sandbox and frees the image.
BoxGone(a) ==
    /\ boxpc[a] = "wait"
    /\ usedBy' = [usedBy EXCEPT ![box[a]] = "nobody"]
    /\ UNCHANGED boxes
    /\ BoxOnly

\* Mutant: the sandbox's Delete returns once its DELETE is accepted.
BoxUnpolled(a) ==
    /\ boxpc[a] = "wait"
    /\ boxpc' = [boxpc EXCEPT ![a] = "idle"]
    /\ box' = [box EXCEPT ![a] = NoImage]
    /\ UNCHANGED usedBy
    /\ BoxOnly

\* Its wait ends with a 404, or with an error that keeps the entry.
BoxDeleteEnds(a) ==
    /\ boxpc[a] = "wait"
    /\ boxpc' = [boxpc EXCEPT ![a] = "idle"]
    /\ \/ usedBy[box[a]] = "nobody" /\ box' = [box EXCEPT ![a] = NoImage]
       \/ UNCHANGED box
    /\ UNCHANGED usedBy
    /\ BoxOnly

-----------------------------------------------------------------------------
(* Terraform, its user, crashes and the service on its own.                *)

\* The RPC returns and Terraform writes its state: an entry made by Create has
\* the policy that the user configured, one kept by Delete is as it was.
Deliver(a) ==
    /\ At(a, "return")
    /\ \E d \in Policy :
          entry' = [entry EXCEPT ![a] =
              CASE call[a].resp = NoImage -> NoEntry
                [] @.id = NoImage -> [@ EXCEPT !.id = call[a].resp, !.policy = d]
                [] OTHER -> @]
    /\ call' = [call EXCEPT ![a] = NoCall]
    /\ UNCHANGED <<mutex, boxes, service>>

\* The process dies, and with it the Create of a sandbox that has sent its PUT.
Crash(p) ==
    LET Mine == {a \in Address : ProcOf[a] = p}
        Lost == {a \in Mine : boxpc[a] = "create"}
    IN
    /\ \E a \in Mine : ~At(a, "idle") \/ boxpc[a] # "idle"
    /\ call' = [a \in Address |-> IF a \in Mine THEN NoCall ELSE call[a]]
    /\ boxpc' = [a \in Address |-> IF a \in Mine THEN "idle" ELSE boxpc[a]]
    /\ box' = [a \in Address |-> IF a \in Lost THEN NoImage ELSE box[a]]
    /\ mutex' = [k \in Key |-> IF mutex[k] \in Mine THEN Free ELSE mutex[k]]
    /\ usedBy' = [i \in ObjectId |->
                    IF \E a \in Lost : box[a] = i THEN "left" ELSE usedBy[i]]
    /\ UNCHANGED <<entry, status, maker>>

\* An image is made without the provider, or by another state of Terraform from
\* the same configuration; its building is left out.
OthersPut(i) ==
    /\ i \in Foreign /\ status[i] = "free"
    /\ status' = [status EXCEPT ![i] = "ready"]
    /\ \E a \in Copied \cup {Free} : maker' = [maker EXCEPT ![i] = a]
    /\ UNCHANGED <<entry, boxes, process, usedBy>>

\* Statuses an image can move to without a call of the provider.
Moves(s) ==
    CASE s = "building" -> {"ready", "deleting"}
      [] s = "ready" -> {"deleting"}
      [] s = "deleting" -> {"gone"}
      [] OTHER -> {}

ServiceMoves(i) ==
    /\ usedBy[i] = "nobody"
    /\ \E s \in Moves(status[i]) : status' = [status EXCEPT ![i] = s]
    /\ UNCHANGED <<entry, boxes, process, maker, usedBy>>

-----------------------------------------------------------------------------

Create(a) ==
    \/ BeginCreate(a) \/ LockCreate(a) \/ ListPage(a) \/ ListFails(a)
    \/ CheckFindsName(a) \/ CheckPasses(a) \/ SendPut(a) \/ PutRejected(a)
    \/ ReplyHasId(a) \/ ReplyUnusable(a)
    \/ RecoverOne(a) \/ RecoverSeveral(a) \/ RecoverNone(a) \/ WaitEnds(a)

Delete(a) ==
    \/ BeginDelete(a) \/ DeleteRetained(a) \/ DeleteAccepted(a)
    \/ DeleteNotFound(a) \/ DeleteFails(a) \/ DeleteConfirmed(a)

Box(a) ==
    \/ BoxPut(a) \/ BoxRecorded(a) \/ BoxUnrecorded(a)
    \/ BoxDelete(a) \/ BoxRetained(a) \/ BoxGone(a) \/ BoxDeleteEnds(a)

Next ==
    \/ \E a \in Address :
          \/ Create(a) \/ Update(a) \/ Delete(a) \/ ReadNotFound(a)
          \/ ImportState(a) \/ Box(a) \/ Deliver(a)
    \/ \E p \in Proc : Crash(p)
    \/ \E i \in ObjectId : ServiceMoves(i) \/ OthersPut(i)

Spec == Init /\ [][Next]_vars

-----------------------------------------------------------------------------
(* Properties.                                                             *)

\* The creates of one process never leave two live images of one name, although
\* the list is read in pages while images appear and disappear, and although
\* images come back by import after a crash or a Retain.  An image of another state
\* is none of theirs.
NoDuplicates ==
    \A i, j \in ObjectId \ Foreign :
        /\ status[i] \in Live /\ status[j] \in Live
        /\ KeyOf[maker[i]] = KeyOf[maker[j]]
        => i = j

\* IDs that an address has, or will have once its call ends.
Claims(a) == {entry[a].id, call[a].got, call[a].resp} \cap ObjectId

\* Those that a create gave it, and not an import.
Created(a) == {i \in Claims(a) : entry[a].by = "create"}

\* Addresses that share a create lock share a live image only where the user has
\* imported it for one of them: neither the lookup nor a recovery hands an address
\* what another one has, or will have, from a create.
SoleOwner ==
    \A a, b \in Address :
        a # b /\ KeyOf[a] = KeyOf[b] =>
            \A i \in Created(a) \cap Created(b) : status[i] \notin Live

\* When the service refuses to delete an image because of a sandbox, that sandbox
\* was retained, was left without an entry by a Create that crashed or could not
\* recover it, or belongs to another address that has, or had before an update
\* in place, the same image.  A sandbox that Terraform has deleted is no cause:
\* since its Delete waits for its end, the order (sandbox first) is enough.
RefusalHasCause ==
    \A a \in Address :
        /\ At(a, "delete")
        /\ Found(entry[a].id)
        /\ usedBy[entry[a].id] \notin {"nobody", "retained", "left"}
        => \E b \in Address \ {a} : box[b] = entry[a].id

\* An entry loses the ID of a live image only by Retain, or by an update in
\* place: neither Read, nor Delete, nor a crash forgets it.
ForgetsWithCause ==
    \A a \in Address :
        entry[a].id \in ObjectId /\ entry'[a].id # entry[a].id =>
           \/ status[entry[a].id] = "gone"
           \/ entry'[a].id = NoImage /\ entry[a].policy = "Retain"
           \/ entry'[a].id = NullId /\ entry'[a].policy # entry[a].policy

NeverForgetsLive == [][ForgetsWithCause]_vars

\* Deletion safety as the design states it: state is removed only after a
\* confirmed 404 or a Retain, and a change of the policy changes nothing else.
KeepsId ==
    \A a \in Address :
        entry[a].id \in ObjectId /\ entry'[a].id # entry[a].id =>
            status[entry[a].id] = "gone" \/ entry[a].policy = "Retain"

KeepsEntry == [][KeepsId]_vars
=============================================================================
