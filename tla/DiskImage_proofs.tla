-------------------------- MODULE DiskImage_proofs --------------------------
(***************************************************************************)
(* Theorems about DiskImage, for every set of addresses, processes, names, *)
(* fingerprints and images, and every length of a page.                    *)
(***************************************************************************)
EXTENDS DiskImage, FiniteSetTheorems, TLAPS

-----------------------------------------------------------------------------
(* The inductive invariant.                                                *)

\* Where the call of an address holds the create lock.
Critical == {"check", "put", "reply", "recover", "wait"}

LockInv ==
    /\ \A a \in Address : call[a].pc \in Critical => mutex[KeyOf[a]] = a
    /\ \A k \in Key : mutex[k] \in Address =>
          KeyOf[mutex[k]] = k /\ call[mutex[k]].pc \in Critical

\* What the variables of a call hold at each place: a create has no entry, a
\* delete has one, and the DELETE comes after the sandbox.
CallInv ==
    \A a \in Address :
        /\ call[a].got # NoImage => At(a, "wait")
        /\ call[a].resp # NoImage => At(a, "return")
        /\ At(a, "reply") => call[a].made \in ObjectId
        /\ call[a].pc \in Critical \cup {"lock"} => entry[a].id = NoImage
        /\ call[a].pc \in {"delete", "deletewait"} => entry[a].id # NoImage
        /\ At(a, "delete") => box[a] = NoImage
        /\ At(a, "return") /\ entry[a].id # NoImage =>
              call[a].resp \in {NoImage, entry[a].id}

\* Images that calls and entries know of have been made, with the right name where
\* they do not come from an import.
ImageInv ==
    /\ \A a \in Address : \A i \in Claims(a) : status[i] # "free"
    /\ \A a \in Address : \A i \in Created(a) \cup call[a].seen :
          status[i] # "free" /\ maker[i] \in Address /\ NameOf[maker[i]] = NameOf[a]
    /\ \A a \in Address : \A i \in {call[a].made} \cap ObjectId :
          status[i] # "free" /\ maker[i] = a
    /\ \A i \in ObjectId \ Foreign : status[i] # "free" => maker[i] \in Address

\* Live images that the creates of a's key have made.
Made(a) ==
    {i \in ObjectId \ Foreign :
        status[i] \in Live /\ maker[i] \in Address /\ KeyOf[maker[i]] = KeyOf[a]}

\* Live images that another address of a's key has from a create.
Taken(a) ==
    {i \in ObjectId : status[i] \in Live
        /\ \E b \in Address \ {a} : KeyOf[b] = KeyOf[a] /\ i \in Created(b)}

\* What a call that holds its lock may rely on.  What the lookup has passed over
\* and not seen is not of its key; after the lookup nothing of its key is there
\* until the PUT, and nobody else of its key has anything but by an import.
Cleared ==
    \A a \in Address :
        /\ At(a, "check") => \A i \in Made(a) \cup Taken(a) :
                                i <= call[a].cursor => i \in call[a].seen
        /\ At(a, "put") => Made(a) = {}
        /\ call[a].pc \in {"put", "reply", "recover", "wait"} => Taken(a) = {}

\* A call that will drop the entry of an image has seen its end, or retains it.
DropInv ==
    \A a \in Address :
        At(a, "return") /\ call[a].resp = NoImage /\ entry[a].id \in ObjectId =>
            status[entry[a].id] = "gone" \/ entry[a].policy = "Retain"

\* An image in use by a sandbox with an entry is the one of that entry.
BoxInv ==
    \A i \in ObjectId : usedBy[i] = "box" => \E b \in Address : box[b] = i

IInv == /\ TypeOK /\ LockInv /\ CallInv /\ ImageInv
        /\ NoDuplicates /\ SoleOwner /\ Cleared /\ DropInv /\ BoxInv

-----------------------------------------------------------------------------
(* Steps, and types.                                                       *)

\* The ways a step can go.
LEMMA StepCases ==
    ASSUME [Next]_vars
    PROVE  \/ UNCHANGED vars
           \/ \E a \in Address :
                 \/ Create(a) \/ Update(a) \/ Delete(a) \/ ReadNotFound(a)
                 \/ ImportState(a) \/ Box(a) \/ Deliver(a)
           \/ \E p \in Proc : Crash(p)
           \/ \E i \in ObjectId : ServiceMoves(i) \/ OthersPut(i)
  BY DEF Next

ImageOrNone == ObjectId \cup {NoImage}

Entries == [id : ImageOrNone \cup {NullId}, policy : Policy, by : Origin]

Calls == [pc : PC, cursor : ObjectId \cup {0}, seen : SUBSET ObjectId,
          made : ImageOrNone, got : ImageOrNone, resp : ImageOrNone \cup {NullId}]

LEMMA TypeInit == Init => TypeOK
  BY ImageAssumption DEF Init, ImageAssumption, TypeOK, NoCall, NoEntry, PC, Policy, Origin, Live

\* A page is part of the list, and so is what a list has collected.
LEMMA PageType ==
    ASSUME NEW a \in Address
    PROVE  Page(a) \subseteq ObjectId /\ Named(a, Page(a)) \subseteq ObjectId
  BY DEF Page, Rest, Named

LEMMA ListedType ==
    ASSUME TypeOK, NEW a \in Address
    PROVE  Listed(a) \subseteq ObjectId
  BY PageType DEF Listed, TypeOK

\* A call that moves on, and a call that ends, are well typed.
LEMMA MovedType ==
    ASSUME NEW c \in Calls, NEW place \in PC
    PROVE  Moved(c, place) \in Calls
  BY DEF Moved, Calls

LEMMA GotoType ==
    ASSUME TypeOK, NEW a \in Address, NEW place \in PC, Goto(a, place)
    PROVE  /\ call' \in [Address -> Calls]
           /\ UNCHANGED <<mutex, entry, box, boxpc>>
  <1>1. call \in [Address -> Calls]
    BY DEF TypeOK, Calls, ImageOrNone
  <1>2. Moved(call[a], place) \in Calls
    BY <1>1, MovedType
  <1>3. QED
    BY <1>1, <1>2 DEF Goto, boxes

LEMMA FinishType ==
    ASSUME TypeOK, NEW a \in Address, NEW id \in ImageOrNone \cup {NullId},
           Finish(a, id)
    PROVE  /\ call' \in [Address -> Calls]
           /\ mutex' \in [Key -> Address \cup {Free}]
           /\ UNCHANGED <<entry, box, boxpc>>
  <1>1. call \in [Address -> Calls]
    BY DEF TypeOK, Calls, ImageOrNone
  <1>2. [NoCall EXCEPT !.pc = "return", !.resp = id] \in Calls
    BY DEF NoCall, Calls, PC, ImageOrNone
  <1>3. mutex' \in [Key -> Address \cup {Free}]
    BY DEF Finish, Unlock, TypeOK
  <1>4. QED
    BY <1>1, <1>2, <1>3 DEF Finish, boxes

LEMMA TypeStep == TypeOK /\ [Next]_vars => TypeOK'
  <1> SUFFICES ASSUME TypeOK, [Next]_vars PROVE TypeOK'
    OBVIOUS
  <1> DEFINE CallsOK == call' \in [Address -> Calls]
             RestOK  == /\ entry' \in [Address -> Entries]
                        /\ box' \in [Address -> ImageOrNone]
                        /\ boxpc' \in [Address -> {"idle", "create", "wait"}]
             MutexOK == mutex' \in [Key -> Address \cup {Free}]
             ImagesOK == /\ status' \in [ObjectId -> Live \cup {"free", "gone"}]
                         /\ maker' \in [ObjectId -> Address \cup {Free}]
                         /\ usedBy' \in [ObjectId -> {"nobody", "box", "retained", "left"}]
  <1>0. CallsOK /\ RestOK /\ MutexOK /\ ImagesOK => TypeOK'
    BY DEF TypeOK, Calls, Entries, ImageOrNone
  <1>1. call \in [Address -> Calls]
    BY DEF TypeOK, Calls, ImageOrNone
  <1>2. UNCHANGED <<entry, box, boxpc>> => RestOK
    BY DEF TypeOK, Entries, ImageOrNone
  <1>3. UNCHANGED mutex => MutexOK
    BY DEF TypeOK
  <1>4. UNCHANGED service => ImagesOK
    BY DEF TypeOK, service
  <1>5. UNCHANGED call => CallsOK
    BY <1>1
  <1>6. ASSUME NEW a \in Address, NEW id \in ImageOrNone \cup {NullId},
               Finish(a, id), UNCHANGED service
        PROVE  TypeOK'
    BY <1>6, FinishType, <1>0, <1>2, <1>4
  <1>7. ASSUME NEW a \in Address, NEW place \in PC, Goto(a, place), UNCHANGED service
        PROVE  TypeOK'
    BY <1>7, GotoType, <1>0, <1>2, <1>3, <1>4
  <1>8. ASSUME NEW a \in Address, NEW c \in Calls, call' = [call EXCEPT ![a] = c],
               UNCHANGED <<mutex, entry, boxes>>, ImagesOK
        PROVE  TypeOK'
    BY <1>8, <1>0, <1>1, <1>2, <1>3 DEF boxes
  <1>9. CASE UNCHANGED vars
    BY <1>9, <1>0, <1>2, <1>3, <1>4, <1>5 DEF vars, boxes, process
  <1>10. ASSUME NEW a \in Address, Create(a) PROVE TypeOK'
    <2>1. call[a] \in Calls /\ NoImage \in ImageOrNone /\ call[a].got \in ImageOrNone
      BY <1>1 DEF Calls, ImageOrNone
    <2>2. ASSUME CreateFails(a) PROVE TypeOK'
      BY <2>1, <2>2, <1>6 DEF CreateFails
    <2>3. CASE BeginCreate(a) \/ CheckPasses(a) \/ ReplyUnusable(a)
      BY <2>3, <1>7 DEF BeginCreate, CheckPasses, ReplyUnusable, PC
    <2>4. CASE LockCreate(a)
      <3>1. MutexOK
        BY <2>4 DEF LockCreate, TypeOK
      <3>2. Moved(call[a], "check") \in Calls
        BY <2>1, MovedType DEF PC
      <3>3. QED
        BY <2>4, <3>1, <3>2, <1>0, <1>1, <1>2, <1>4 DEF LockCreate, boxes
    <2>5. CASE ListPage(a)
      <3>1. PICK i \in Page(a) : call' = [call EXCEPT ![a].cursor = i, ![a].seen = Listed(a)]
        BY <2>5 DEF ListPage
      <3>2. i \in ObjectId /\ Listed(a) \in SUBSET ObjectId
        BY PageType, ListedType
      <3>3. CallsOK
        BY <3>1, <3>2, <1>1 DEF Calls
      <3>4. QED
        BY <2>5, <3>3, <1>0, <1>2, <1>3, <1>4 DEF ListPage, boxes
    <2>6. CASE SendPut(a)
      <3>1. PICK i \in ObjectId :
              /\ status' = [status EXCEPT ![i] = "building"]
              /\ maker' = [maker EXCEPT ![i] = a]
              /\ call' = [call EXCEPT ![a].pc = "reply", ![a].made = i]
        BY <2>6 DEF SendPut
      <3>2. ImagesOK
        BY <2>6, <3>1 DEF SendPut, TypeOK, Live
      <3>3. [call[a] EXCEPT !.pc = "reply", !.made = i] \in Calls
        BY <2>1 DEF Calls, PC, ImageOrNone
      <3>4. call' = [call EXCEPT ![a] = [call[a] EXCEPT !.pc = "reply", !.made = i]]
        BY <3>1
      <3>5. QED
        BY <2>6, <3>2, <3>3, <3>4, <1>8 DEF SendPut
    <2>7. CASE ReplyHasId(a)
      <3>1. [call[a] EXCEPT !.pc = "wait", !.got = call[a].made] \in Calls
        BY <2>1 DEF Calls, PC
      <3>2. call' = [call EXCEPT ![a] = [call[a] EXCEPT !.pc = "wait", !.got = call[a].made]]
        BY <2>7 DEF ReplyHasId
      <3>3. QED
        BY <2>7, <3>1, <3>2, <1>4, <1>8 DEF ReplyHasId
    <2>8. CASE RecoverOne(a)
      <3>1. PICK i \in ObjectId :
              call' = [call EXCEPT ![a] = [Moved(call[a], "wait") EXCEPT !.got = i]]
        BY <2>8 DEF RecoverOne
      <3>2. Moved(call[a], "wait") \in Calls
        BY <2>1, MovedType DEF PC
      <3>3. [Moved(call[a], "wait") EXCEPT !.got = i] \in Calls
        BY <3>2 DEF Calls, ImageOrNone
      <3>4. QED
        BY <2>8, <3>1, <3>3, <1>4, <1>8 DEF RecoverOne
    <2>9. CASE RecoverNone(a)
      BY <2>9, <2>2, <1>7 DEF RecoverNone, PC
    <2>10. CASE WaitEnds(a)
      BY <2>1, <2>10, <1>6 DEF WaitEnds
    <2>11. QED
      BY <1>10, <2>2, <2>3, <2>4, <2>5, <2>6, <2>7, <2>8, <2>9, <2>10
      DEF Create, ListFails, CheckFindsName, PutRejected, RecoverSeveral
  <1>11. ASSUME NEW a \in Address, Update(a) \/ ReadNotFound(a) \/ ImportState(a)
         PROVE  TypeOK'
    <2>0. entry \in [Address -> Entries]
      BY DEF TypeOK, Entries, ImageOrNone
    <2>1. entry' \in [Address -> Entries]
      <3>1. CASE Update(a)
        BY <2>0, <3>1 DEF Update, Entries
      <3>2. CASE ReadNotFound(a)
        BY <2>0, <3>2 DEF ReadNotFound, NoEntry, Entries, Policy, Origin, ImageOrNone
      <3>3. CASE ImportState(a)
        BY <2>0, <3>3 DEF ImportState, Entries, Policy, Origin, ImageOrNone
      <3>4. QED
        BY <1>11, <3>1, <3>2, <3>3
    <2>2. QED
      BY <1>11, <2>1, <1>0, <1>3, <1>4, <1>5
      DEF Update, ReadNotFound, ImportState, process, boxes, TypeOK, ImageOrNone
  <1>12. ASSUME NEW a \in Address, Delete(a) PROVE TypeOK'
    <2>1. entry[a].id \in ImageOrNone \cup {NullId} /\ NoImage \in ImageOrNone
      BY DEF TypeOK, ImageOrNone
    <2>2. CASE BeginDelete(a) \/ DeleteNotFound(a)
      BY <2>2, <1>7 DEF BeginDelete, DeleteNotFound, PC
    <2>3. CASE DeleteRetained(a) \/ DeleteFails(a) \/ DeleteConfirmed(a)
      BY <2>1, <2>3, <1>6 DEF DeleteRetained, DeleteFails, DeleteConfirmed, KeepEntry
    <2>4. CASE DeleteAccepted(a)
      <3>1. ImagesOK
        BY <2>4 DEF DeleteAccepted, TypeOK, Live
      <3>2. CASE Goto(a, "deletewait")
        BY <3>1, <3>2, GotoType, <1>0, <1>2, <1>3 DEF PC
      <3>3. CASE KeepEntry(a)
        BY <2>1, <3>1, <3>3, FinishType, <1>0, <1>2 DEF KeepEntry
      <3>4. QED
        BY <2>4, <3>2, <3>3 DEF DeleteAccepted
    <2>5. QED
      BY <1>12, <2>2, <2>3, <2>4 DEF Delete
  <1>13. ASSUME NEW a \in Address, Box(a) PROVE TypeOK'
    <2>0. UNCHANGED <<entry, status, maker>>
      BY <1>13 DEF Box, BoxPut, BoxRecorded, BoxUnrecorded, BoxDelete, BoxRetained, BoxGone, BoxDeleteEnds,
         BoxOnly
    <2>1. RestOK /\ ImagesOK
      <3>1. CASE BoxPut(a)
        BY <2>0, <3>1 DEF BoxPut, TypeOK, Entries, ImageOrNone
      <3>2. CASE BoxRecorded(a) \/ BoxDelete(a) \/ BoxGone(a) \/ BoxDeleteEnds(a)
        BY <2>0, <3>2 DEF BoxRecorded, BoxDelete, BoxGone, BoxDeleteEnds, boxes,
           TypeOK, Entries, ImageOrNone
      <3>5. CASE BoxUnrecorded(a)
        BY <2>0, <3>5 DEF BoxUnrecorded, TypeOK, Entries, ImageOrNone
      <3>3. CASE BoxRetained(a)
        BY <2>0, <3>3 DEF BoxRetained, TypeOK, Entries, ImageOrNone
      <3>4. QED
        BY <1>13, <3>1, <3>2, <3>3, <3>5 DEF Box
    <2>2. UNCHANGED <<call, mutex>>
      BY <1>13 DEF Box, BoxPut, BoxRecorded, BoxUnrecorded, BoxDelete, BoxRetained, BoxGone, BoxDeleteEnds,
         BoxOnly, process
    <2>3. QED
      BY <2>1, <2>2, <1>0, <1>3, <1>5
  <1>14. ASSUME NEW a \in Address, Deliver(a) PROVE TypeOK'
    <2>1. call[a].resp \in ImageOrNone \cup {NullId}
      BY <1>1 DEF Calls
    <2>0. entry \in [Address -> Entries]
      BY DEF TypeOK, Entries, ImageOrNone
    <2>2. RestOK
      <3>1. PICK d \in Policy : entry' = [entry EXCEPT ![a] =
              CASE call[a].resp = NoImage -> NoEntry
                [] entry[a].id = NoImage ->
                      [entry[a] EXCEPT !.id = call[a].resp, !.policy = d]
                [] OTHER -> entry[a]]
        BY <1>14 DEF Deliver
      <3>2. NoEntry \in Entries
        BY DEF NoEntry, Entries, Policy, Origin, ImageOrNone
      <3>3. [entry[a] EXCEPT !.id = call[a].resp, !.policy = d] \in Entries
        BY <2>0, <2>1 DEF Entries
      <3>4. entry' \in [Address -> Entries]
        BY <2>0, <3>1, <3>2, <3>3
      <3>5. QED
        BY <1>14, <3>4 DEF Deliver, TypeOK, boxes, ImageOrNone
    <2>3. NoCall \in Calls
      BY ImageAssumption DEF ImageAssumption, NoCall, Calls, PC, ImageOrNone
    <2>4. QED
      BY <1>14, <2>2, <2>3, <1>0, <1>1, <1>3, <1>4 DEF Deliver
  <1>15. ASSUME NEW p \in Proc, Crash(p) PROVE TypeOK'
    <2>1. NoCall \in Calls
      BY ImageAssumption DEF ImageAssumption, NoCall, Calls, PC, ImageOrNone
    <2>2. CallsOK
      BY <1>15, <2>1, <1>1 DEF Crash
    <2>3. RestOK /\ MutexOK
      BY <1>15 DEF Crash, TypeOK, Entries, ImageOrNone
    <2>4. ImagesOK
      BY <1>15 DEF Crash, TypeOK
    <2>5. QED
      BY <2>2, <2>3, <2>4, <1>0
  <1>16. ASSUME NEW i \in ObjectId, ServiceMoves(i) \/ OthersPut(i) PROVE TypeOK'
    <2>1. Moves(status[i]) \subseteq Live \cup {"gone"}
      BY DEF Moves, Live
    <2>2. ImagesOK
      <3>1. CASE ServiceMoves(i)
        BY <2>1, <3>1 DEF ServiceMoves, TypeOK
      <3>2. CASE OthersPut(i)
        <4>1. PICK a \in Copied \cup {Free} : maker' = [maker EXCEPT ![i] = a]
          BY <3>2 DEF OthersPut
        <4>2. a \in Address \cup {Free}
          BY ImageAssumption DEF ImageAssumption
        <4>3. QED
          BY <3>2, <4>1, <4>2 DEF OthersPut, TypeOK, Live
      <3>3. QED
        BY <1>16, <3>1, <3>2
    <2>3. UNCHANGED <<entry, box, boxpc, call, mutex>>
      BY <1>16 DEF ServiceMoves, OthersPut, boxes, process
    <2>4. QED
      BY <2>2, <2>3, <1>0, <1>2, <1>3, <1>5
  <1>17. QED
    BY <1>9, <1>10, <1>11, <1>12, <1>13, <1>14, <1>15, <1>16, StepCases

\* The variables of the handlers, of Terraform and of the service keep their types.
THEOREM TypeCorrect == Spec => []TypeOK
  BY TypeInit, TypeStep, PTL DEF Spec

-----------------------------------------------------------------------------
(* The create lock.                                                        *)

\* The effect of a step on the lock and on who is critical.
LEMMA LockSteps ==
    ASSUME TypeOK, [Next]_vars
    PROVE  \/ /\ mutex' = mutex
              /\ \A b \in Address : call'[b].pc \in Critical <=> call[b].pc \in Critical
           \/ \E a \in Address : LockCreate(a) \/ \E id : Finish(a, id)
           \/ \E p \in Proc : Crash(p)
  <1> DEFINE Stays == \A b \in Address : call'[b].pc \in Critical <=> call[b].pc \in Critical
  <1>1. call \in [Address -> Calls]
    BY DEF TypeOK, Calls, ImageOrNone
  <1>2. CASE UNCHANGED <<call, mutex>>
    BY <1>2
  <1>3. ASSUME NEW a \in Address, NEW place \in PC,
               place \in Critical <=> call[a].pc \in Critical, Goto(a, place)
        PROVE  mutex' = mutex /\ Stays
    <2>1. Moved(call[a], place).pc = place
      BY <1>1 DEF Moved, Calls
    <2>2. QED
      BY <1>1, <1>3, <2>1 DEF Goto
  <1>4. ASSUME NEW a \in Address, Create(a)
        PROVE  (mutex' = mutex /\ Stays) \/ LockCreate(a) \/ \E id : Finish(a, id)
    <2>1. CASE BeginCreate(a) \/ CheckPasses(a) \/ ReplyUnusable(a)
      BY <2>1, <1>3 DEF BeginCreate, CheckPasses, ReplyUnusable, At, PC, Critical
    <2>2. CASE ListPage(a)
      BY <2>2, <1>1 DEF ListPage, Calls
    <2>3. CASE SendPut(a)
      BY <2>3, <1>1 DEF SendPut, Calls, At, Critical
    <2>4. CASE ReplyHasId(a)
      BY <2>4, <1>1 DEF ReplyHasId, Calls, At, Critical
    <2>5. CASE RecoverOne(a)
      <3>1. call[a] \in Calls
        BY <1>1
      <3>2. \A i : [Moved(call[a], "wait") EXCEPT !.got = i].pc = "wait"
        BY <3>1 DEF Moved, Calls
      <3>3. QED
        BY <2>5, <1>1, <3>2 DEF RecoverOne, At, Critical
    <2>6. CASE RecoverNone(a)
      BY <2>6, <1>3 DEF RecoverNone, CreateFails, At, PC, Critical
    <2>7. QED
      BY <1>4, <2>1, <2>2, <2>3, <2>4, <2>5, <2>6
      DEF Create, ListFails, CheckFindsName, PutRejected, RecoverSeveral, CreateFails,
          WaitEnds
  <1>5. ASSUME NEW a \in Address, Delete(a)
        PROVE  (mutex' = mutex /\ Stays) \/ \E id : Finish(a, id)
    <2>1. CASE BeginDelete(a) \/ DeleteNotFound(a)
      BY <2>1, <1>3 DEF BeginDelete, DeleteNotFound, At, PC, Critical
    <2>2. CASE DeleteAccepted(a)
      BY <2>2, <1>3 DEF DeleteAccepted, KeepEntry, At, PC, Critical
    <2>3. QED
      BY <1>5, <2>1, <2>2 DEF Delete, DeleteRetained, DeleteFails, DeleteConfirmed, KeepEntry
  <1>6. ASSUME NEW a \in Address, Deliver(a)
        PROVE  mutex' = mutex /\ Stays
    BY <1>6, <1>1 DEF Deliver, NoCall, At, Critical
  <1>7. ASSUME NEW a \in Address,
               Update(a) \/ ReadNotFound(a) \/ ImportState(a) \/ Box(a)
        PROVE  UNCHANGED <<call, mutex>>
    BY <1>7 DEF Update, ReadNotFound, ImportState, Box, BoxPut, BoxRecorded, BoxUnrecorded, BoxDelete,
       BoxRetained, BoxGone, BoxDeleteEnds, BoxOnly, process
  <1>8. ASSUME NEW i \in ObjectId, ServiceMoves(i) \/ OthersPut(i)
        PROVE  UNCHANGED <<call, mutex>>
    BY <1>8 DEF ServiceMoves, OthersPut, process
  <1>9. CASE UNCHANGED vars
    BY <1>9 DEF vars, process
  <1>10. QED
    BY <1>2, <1>4, <1>5, <1>6, <1>7, <1>8, <1>9, StepCases

LEMMA LockInit == Init => LockInv
  BY ImageAssumption DEF Init, LockInv, ImageAssumption, NoCall, Critical

LEMMA LockStep == TypeOK /\ LockInv /\ [Next]_vars => LockInv'
  <1> SUFFICES ASSUME TypeOK, LockInv, [Next]_vars PROVE LockInv'
    OBVIOUS
  <1>1. call \in [Address -> Calls] /\ mutex \in [Key -> Address \cup {Free}]
    BY DEF TypeOK, Calls, ImageOrNone
  <1>2. Free \notin Address /\ \A a \in Address : KeyOf[a] \in Key
    BY ImageAssumption DEF ImageAssumption
  <1>3. CASE /\ mutex' = mutex
             /\ \A b \in Address : call'[b].pc \in Critical <=> call[b].pc \in Critical
    BY <1>1, <1>3 DEF LockInv
  <1>4. ASSUME NEW a \in Address, LockCreate(a) PROVE LockInv'
    <2>1. Moved(call[a], "check").pc = "check"
      BY <1>1 DEF Moved, Calls
    <2>2. /\ call'[a].pc = "check" /\ \A b \in Address \ {a} : call'[b] = call[b]
          /\ call[a].pc = "lock"
      BY <1>1, <1>4, <2>1 DEF LockCreate, At
    <2>3. mutex[KeyOf[a]] = Free /\ mutex' = [mutex EXCEPT ![KeyOf[a]] = a]
      BY <1>4 DEF LockCreate
    <2>4. QED
      BY <1>1, <1>2, <2>2, <2>3 DEF LockInv, Critical
  <1>5. ASSUME NEW a \in Address, NEW id, Finish(a, id) PROVE LockInv'
    <2>1. /\ call'[a].pc = "return" /\ \A b \in Address \ {a} : call'[b] = call[b]
          /\ \A k \in Key : mutex'[k] = IF mutex[k] = a THEN Free ELSE mutex[k]
      BY <1>1, <1>5 DEF Finish, Unlock, NoCall
    <2>2. QED
      BY <1>1, <1>2, <2>1 DEF LockInv, Critical
  <1>6. ASSUME NEW p \in Proc, Crash(p) PROVE LockInv'
    <2>1. /\ \A b \in Address : call'[b] = IF ProcOf[b] = p THEN NoCall ELSE call[b]
          /\ \A k \in Key : mutex'[k] = IF mutex[k] \in Address /\ ProcOf[mutex[k]] = p
                                        THEN Free ELSE mutex[k]
      BY <1>6 DEF Crash
    <2>2. NoCall.pc \notin Critical
      BY DEF NoCall, Critical
    <2>3. QED
      BY <1>1, <1>2, <2>1, <2>2 DEF LockInv
  <1>7. QED
    BY <1>3, <1>4, <1>5, <1>6, LockSteps

\* Two critical calls of one key would both hold its lock.
LEMMA Serialized ==
    ASSUME LockInv, NEW a \in Address, NEW b \in Address, KeyOf[a] = KeyOf[b],
           call[a].pc \in Critical, call[b].pc \in Critical
    PROVE  a = b
  BY DEF LockInv

-----------------------------------------------------------------------------
(* Where a call stands, and what it holds.                                 *)

LEMMA CallInit == Init => CallInv
  BY DEF Init, CallInv, NoCall, At, Critical

\* What CallInv says of one address.
CallOK(a) ==
    /\ call[a].got # NoImage => At(a, "wait")
    /\ call[a].resp # NoImage => At(a, "return")
    /\ At(a, "reply") => call[a].made \in ObjectId
    /\ call[a].pc \in Critical \cup {"lock"} => entry[a].id = NoImage
    /\ call[a].pc \in {"delete", "deletewait"} => entry[a].id # NoImage
    /\ At(a, "delete") => box[a] = NoImage
    /\ At(a, "return") /\ entry[a].id # NoImage =>
          call[a].resp \in {NoImage, entry[a].id}

LEMMA CallInvOK == CallInv <=> \A a \in Address : CallOK(a)
  BY DEF CallInv, CallOK

\* A step of one address leaves the others alone.
LEMMA CallFrame ==
    ASSUME CallInv, NEW a \in Address, CallOK(a)',
           \A b \in Address \ {a} :
              call'[b] = call[b] /\ entry'[b] = entry[b] /\ box'[b] = box[b]
    PROVE  CallInv'
  BY CallInvOK DEF CallInv, CallOK, At

\* The fields of a call that moves on.
LEMMA MovedFields ==
    ASSUME NEW c \in Calls, NEW place \in PC
    PROVE  /\ Moved(c, place).pc = place /\ Moved(c, place).cursor = 0
           /\ Moved(c, place).seen = {} /\ Moved(c, place).made = c.made
           /\ Moved(c, place).got = c.got /\ Moved(c, place).resp = c.resp
  BY DEF Moved, Calls

LEMMA GotoEffect ==
    ASSUME TypeOK, NEW a \in Address, NEW place \in PC, Goto(a, place)
    PROVE  /\ call'[a].pc = place /\ call'[a].cursor = 0 /\ call'[a].seen = {}
           /\ call'[a].made = call[a].made
           /\ call'[a].got = call[a].got /\ call'[a].resp = call[a].resp
           /\ \A b \in Address \ {a} : call'[b] = call[b]
           /\ UNCHANGED <<mutex, entry, box, boxpc>>
  <1>1. call \in [Address -> Calls]
    BY DEF TypeOK, Calls, ImageOrNone
  <1>2. call' = [call EXCEPT ![a] = Moved(call[a], place)]
    BY DEF Goto
  <1>3. call'[a] = Moved(call[a], place) /\ \A b \in Address \ {a} : call'[b] = call[b]
    BY <1>1, <1>2
  <1>4. QED
    BY <1>1, <1>3, MovedFields DEF Goto, boxes

LEMMA FinishEffect ==
    ASSUME TypeOK, NEW a \in Address, NEW id, Finish(a, id)
    PROVE  /\ call'[a].pc = "return" /\ call'[a].cursor = 0 /\ call'[a].seen = {}
           /\ call'[a].made = NoImage /\ call'[a].got = NoImage
           /\ call'[a].resp = id
           /\ \A b \in Address \ {a} : call'[b] = call[b]
           /\ UNCHANGED <<entry, box, boxpc>>
  <1>1. call \in [Address -> Calls]
    BY DEF TypeOK, Calls, ImageOrNone
  <1>2. QED
    BY <1>1 DEF Finish, NoCall, boxes

\* The variables of a call that most steps keep.
Keeps(a) == /\ call'[a].made = call[a].made
            /\ call'[a].got = call[a].got /\ call'[a].resp = call[a].resp

\* What the steps of Create that do not end it make of the call.
CreateMoves(a) ==
    \/ /\ BeginCreate(a) /\ At(a, "idle") /\ entry[a].id = NoImage
       /\ call'[a].pc = "lock" /\ call'[a].seen = {} /\ Keeps(a)
       /\ UNCHANGED service
    \/ /\ LockCreate(a) /\ At(a, "lock") /\ call'[a].pc = "check"
       /\ call'[a].cursor = 0 /\ call'[a].seen = {} /\ Keeps(a)
       /\ UNCHANGED service
    \/ /\ ListPage(a) /\ call[a].pc \in {"check", "recover"}
       /\ call'[a].pc = call[a].pc /\ call'[a].seen = Listed(a) /\ Keeps(a)
       /\ call'[a].cursor \in Page(a) /\ \A j \in Page(a) : j <= call'[a].cursor
       /\ UNCHANGED service
    \/ /\ CheckPasses(a) /\ At(a, "check") /\ LastPage(a) /\ Listed(a) = {}
       /\ call'[a].pc = "put" /\ call'[a].seen = {} /\ Keeps(a)
       /\ UNCHANGED service
    \/ /\ SendPut(a) /\ At(a, "put") /\ call'[a].pc = "reply"
       /\ call'[a].seen = call[a].seen
       /\ call'[a].got = call[a].got /\ call'[a].resp = call[a].resp
       /\ call'[a].made \in ObjectId \ Foreign /\ status[call'[a].made] = "free"
       /\ status' = [status EXCEPT ![call'[a].made] = "building"]
       /\ maker' = [maker EXCEPT ![call'[a].made] = a]
       /\ usedBy' = usedBy
    \/ /\ ReplyHasId(a) /\ At(a, "reply") /\ call'[a].pc = "wait"
       /\ call'[a].seen = call[a].seen
       /\ call'[a].made = call[a].made /\ call'[a].resp = call[a].resp
       /\ call'[a].got = call[a].made
       /\ UNCHANGED service
    \/ /\ call[a].pc \in {"put", "reply", "recover"} /\ call'[a].pc = "recover"
       /\ call'[a].seen = {} /\ Keeps(a)
       /\ UNCHANGED service
    \/ /\ RecoverOne(a) /\ At(a, "recover") /\ call'[a].pc = "wait"
       /\ call'[a].seen = {}
       /\ call'[a].made = call[a].made /\ call'[a].resp = call[a].resp
       /\ call'[a].got \in ObjectId /\ Matches(a) = {call'[a].got}
       /\ UNCHANGED service

LEMMA CreateSteps ==
    ASSUME TypeOK, NEW a \in Address, Create(a)
    PROVE  \/ CreateFails(a) \/ WaitEnds(a)
           \/ /\ CreateMoves(a)
              /\ \A b \in Address \ {a} : call'[b] = call[b]
              /\ UNCHANGED <<entry, box, boxpc>>
  <1> DEFINE Others == \A b \in Address \ {a} : call'[b] = call[b]
             Fixed == UNCHANGED <<entry, box, boxpc>>
  <1>1. call \in [Address -> Calls] /\ call[a] \in Calls
    BY DEF TypeOK, Calls, ImageOrNone
  <1>2. CASE BeginCreate(a)
    BY <1>2, GotoEffect DEF BeginCreate, CreateMoves, Keeps, PC
  <1>3. CASE LockCreate(a)
    <2>1. call'[a] = Moved(call[a], "check") /\ Others /\ Fixed
      BY <1>1, <1>3 DEF LockCreate, boxes
    <2>2. QED
      BY <1>1, <1>3, <2>1, MovedFields DEF LockCreate, CreateMoves, Keeps, PC
  <1>4. CASE ListPage(a)
    <2>1. PICK i \in Page(a) :
            /\ \A j \in Page(a) : j <= i
            /\ call' = [call EXCEPT ![a].cursor = i, ![a].seen = Listed(a)]
      BY <1>4 DEF ListPage
    <2>2. /\ call'[a].cursor = i /\ call'[a].seen = Listed(a)
          /\ call'[a].pc = call[a].pc /\ Keeps(a) /\ Others
      BY <1>1, <2>1 DEF Calls, Keeps
    <2>3. QED
      BY <1>4, <2>1, <2>2 DEF ListPage, CreateMoves, At, boxes
  <1>5. CASE CheckPasses(a)
    BY <1>5, GotoEffect DEF CheckPasses, CreateMoves, Keeps, PC
  <1>6. CASE SendPut(a)
    <2>1. PICK i \in ObjectId :
            /\ status[i] = "free" /\ i \notin Foreign
            /\ status' = [status EXCEPT ![i] = "building"]
            /\ maker' = [maker EXCEPT ![i] = a]
            /\ call' = [call EXCEPT ![a].pc = "reply", ![a].made = i]
      BY <1>6 DEF SendPut
    <2>2. /\ call'[a].pc = "reply" /\ call'[a].made = i
          /\ call'[a].seen = call[a].seen
          /\ call'[a].got = call[a].got /\ call'[a].resp = call[a].resp /\ Others
      BY <1>1, <2>1 DEF Calls
    <2>3. QED
      BY <1>6, <2>1, <2>2 DEF SendPut, CreateMoves, boxes
  <1>7. CASE ReplyHasId(a)
    <2>1. /\ call'[a].pc = "wait" /\ call'[a].got = call[a].made
          /\ call'[a].seen = call[a].seen
          /\ call'[a].made = call[a].made /\ call'[a].resp = call[a].resp /\ Others
      BY <1>1, <1>7 DEF Calls, ReplyHasId
    <2>2. QED
      BY <1>7, <2>1 DEF ReplyHasId, CreateMoves, boxes
  <1>8. CASE ReplyUnusable(a)
    BY <1>8, GotoEffect DEF ReplyUnusable, CreateMoves, Keeps, At, PC
  <1>9. CASE RecoverOne(a)
    <2>1. PICK i \in ObjectId :
            /\ Matches(a) = {i}
            /\ call' = [call EXCEPT ![a] = [Moved(call[a], "wait") EXCEPT !.got = i]]
      BY <1>9 DEF RecoverOne
    <2>2. call'[a] = [Moved(call[a], "wait") EXCEPT !.got = i] /\ Others
      BY <1>1, <2>1
    <2>3. Moved(call[a], "wait") \in Calls
      BY <1>1, MovedType DEF PC
    <2>4. /\ call'[a].pc = Moved(call[a], "wait").pc
          /\ call'[a].seen = Moved(call[a], "wait").seen
          /\ call'[a].made = Moved(call[a], "wait").made
          /\ call'[a].resp = Moved(call[a], "wait").resp
          /\ call'[a].got = i
      BY <2>2, <2>3 DEF Calls
    <2>5. QED
      BY <1>1, <1>9, <2>1, <2>2, <2>4, MovedFields DEF RecoverOne, CreateMoves, boxes, PC
  <1>10. CASE RecoverNone(a)
    BY <1>10, GotoEffect DEF RecoverNone, CreateMoves, Keeps, At, PC
  <1>11. QED
    BY <1>2, <1>3, <1>4, <1>5, <1>6, <1>7, <1>8, <1>9, <1>10
    DEF Create, ListFails, CheckFindsName, PutRejected, RecoverSeveral

\* What the steps of Delete make of the call.
LEMMA DeleteSteps ==
    ASSUME TypeOK, NEW a \in Address, Delete(a)
    PROVE  /\ \/ /\ call'[a].pc = "delete" /\ At(a, "idle")
                 /\ box[a] = NoImage /\ call'[a].seen = {} /\ Keeps(a)
              \/ /\ call'[a].pc = "deletewait" /\ At(a, "delete")
                 /\ call'[a].seen = {} /\ Keeps(a)
              \/ Finish(a, entry[a].id)
              \/ Finish(a, NoImage) /\ entry[a].policy = "Retain"
              \/ /\ Finish(a, NoImage)
                 /\ ~Found(entry[a].id) /\ status' = status
           /\ call[a].pc \in {"idle", "delete", "deletewait"}
           /\ At(a, "idle") => entry[a].id # NoImage
           /\ \A b \in Address \ {a} : call'[b] = call[b]
           /\ UNCHANGED <<entry, box, boxpc, maker, usedBy>>
  <1>1. CASE BeginDelete(a)
    BY <1>1, GotoEffect DEF BeginDelete, Keeps, At, PC, service
  <1>2. CASE DeleteNotFound(a)
    BY <1>2, GotoEffect DEF DeleteNotFound, Keeps, At, PC, service
  <1>3. CASE DeleteRetained(a)
    BY <1>3, FinishEffect DEF DeleteRetained, At, service
  <1>4. CASE DeleteFails(a)
    BY <1>4, FinishEffect DEF DeleteFails, KeepEntry, At, service
  <1>5. CASE DeleteConfirmed(a)
    BY <1>5, FinishEffect DEF DeleteConfirmed, At, service
  <1>6. CASE DeleteAccepted(a)
    BY <1>6, GotoEffect, FinishEffect DEF DeleteAccepted, KeepEntry, Keeps, At, PC
  <1>7. QED
    BY <1>1, <1>2, <1>3, <1>4, <1>5, <1>6 DEF Delete

\* Only the steps of a call and Crash change calls.
LEMMA OtherSteps ==
    ASSUME [Next]_vars,
           \A a \in Address : ~Create(a) /\ ~Delete(a) /\ ~Deliver(a),
           \A p \in Proc : ~Crash(p)
    PROVE  call' = call
  <1>1. CASE UNCHANGED vars
    BY <1>1 DEF vars, process
  <1>2. ASSUME NEW a \in Address,
               Update(a) \/ ReadNotFound(a) \/ ImportState(a) \/ Box(a)
        PROVE  call' = call
    BY <1>2 DEF Update, ReadNotFound, ImportState, Box, BoxPut, BoxRecorded, BoxUnrecorded, BoxDelete,
       BoxRetained, BoxGone, BoxDeleteEnds, BoxOnly, process
  <1>3. ASSUME NEW i \in ObjectId, ServiceMoves(i) \/ OthersPut(i)
        PROVE  call' = call
    BY <1>3 DEF ServiceMoves, OthersPut, process
  <1>4. QED
    BY <1>1, <1>2, <1>3, StepCases

LEMMA DeliverEffect ==
    ASSUME TypeOK, NEW a \in Address, Deliver(a)
    PROVE  /\ At(a, "return") /\ call'[a] = NoCall
           /\ \A b \in Address \ {a} : call'[b] = call[b] /\ entry'[b] = entry[b]
           /\ entry'[a].id = IF call[a].resp = NoImage THEN NoImage
                             ELSE IF entry[a].id = NoImage THEN call[a].resp
                             ELSE entry[a].id
           /\ call[a].resp # NoImage => entry'[a].by = entry[a].by
           /\ UNCHANGED <<mutex, box, boxpc, status, maker, usedBy>>
  <1>1. call \in [Address -> Calls]
    BY DEF TypeOK, Calls, ImageOrNone
  <1>2. entry \in [Address -> Entries]
    BY DEF TypeOK, Entries, ImageOrNone
  <1>3. PICK d \in Policy : entry' = [entry EXCEPT ![a] =
              CASE call[a].resp = NoImage -> NoEntry
                [] entry[a].id = NoImage ->
                      [entry[a] EXCEPT !.id = call[a].resp, !.policy = d]
                [] OTHER -> entry[a]]
    BY DEF Deliver
  <1>4. QED
    BY <1>1, <1>2, <1>3 DEF Deliver, NoEntry, Entries, boxes, service

\* Steps that touch an entry without a call: the address is idle.
LEMMA EntrySteps ==
    ASSUME TypeOK, NEW a \in Address, Update(a) \/ ReadNotFound(a) \/ ImportState(a)
    PROVE  /\ At(a, "idle")
           /\ \A b \in Address \ {a} : entry'[b] = entry[b]
           /\ UNCHANGED <<box, boxpc, call, mutex, status, maker, usedBy>>
           /\ \/ /\ entry'[a].id = NullId /\ entry'[a].policy # entry[a].policy
                 /\ entry'[a].by = entry[a].by
              \/ entry'[a].id = NoImage /\ ~Found(entry[a].id)
              \/ /\ ImportState(a) /\ entry[a].id = NoImage
                 /\ Found(entry'[a].id) /\ entry'[a].by = "import"
  <1>1. entry \in [Address -> Entries]
    BY DEF TypeOK, Entries, ImageOrNone
  <1>2. UNCHANGED <<box, boxpc, call, mutex, status, maker, usedBy>>
    BY DEF Update, ReadNotFound, ImportState, boxes, process, service
  <1>3. CASE Update(a)
    <2>1. PICK d \in Policy \ {entry[a].policy} :
            entry' = [entry EXCEPT ![a].id = NullId, ![a].policy = d]
      BY <1>3 DEF Update
    <2>2. /\ entry'[a].id = NullId /\ entry'[a].policy = d
          /\ entry'[a].by = entry[a].by
          /\ \A b \in Address \ {a} : entry'[b] = entry[b]
      BY <1>1, <2>1 DEF Entries
    <2>3. At(a, "idle")
      BY <1>3 DEF Update
    <2>4. QED
      BY <1>2, <2>2, <2>3
  <1>4. CASE ReadNotFound(a)
    BY <1>1, <1>2, <1>4 DEF ReadNotFound, NoEntry
  <1>5. CASE ImportState(a)
    <2>1. PICK i \in ObjectId :
            /\ Found(i)
            /\ entry' = [entry EXCEPT ![a] =
                  [id |-> i, policy |-> "Delete", by |-> "import"]]
      BY <1>5 DEF ImportState
    <2>2. QED
      BY <1>1, <1>2, <1>5, <2>1 DEF ImportState
  <1>6. QED
    BY <1>3, <1>4, <1>5

\* Steps of a sandbox: it takes an image while the address is idle.
LEMMA BoxSteps ==
    ASSUME TypeOK, NEW a \in Address, Box(a)
    PROVE  /\ UNCHANGED <<entry, call, mutex, status, maker>>
           /\ \A b \in Address \ {a} : box'[b] = box[b]
           /\ At(a, "idle") \/ box'[a] \in {box[a], NoImage}
  <1>1. UNCHANGED <<entry, call, mutex, status, maker>>
    BY DEF Box, BoxPut, BoxRecorded, BoxUnrecorded, BoxDelete, BoxRetained, BoxGone, BoxDeleteEnds, BoxOnly, process
  <1>2. box \in [Address -> ImageOrNone]
    BY DEF TypeOK, ImageOrNone
  <1>3. CASE BoxPut(a)
    BY <1>1, <1>2, <1>3 DEF BoxPut
  <1>4. CASE BoxRecorded(a) \/ BoxDelete(a) \/ BoxGone(a)
    BY <1>1, <1>4 DEF BoxRecorded, BoxDelete, BoxGone, boxes
  <1>5. CASE BoxUnrecorded(a) \/ BoxRetained(a) \/ BoxDeleteEnds(a)
    BY <1>1, <1>2, <1>5 DEF BoxUnrecorded, BoxRetained, BoxDeleteEnds
  <1>6. QED
    BY <1>3, <1>4, <1>5 DEF Box

LEMMA CrashEffect ==
    ASSUME NEW p \in Proc, Crash(p)
    PROVE  /\ \A b \in Address : call'[b] = IF ProcOf[b] = p THEN NoCall ELSE call[b]
           /\ \A b \in Address : box'[b] \in {box[b], NoImage}
           /\ UNCHANGED <<entry, status, maker>>
  BY DEF Crash

LEMMA ServiceEffect ==
    ASSUME NEW i \in ObjectId, ServiceMoves(i) \/ OthersPut(i)
    PROVE  UNCHANGED <<entry, box, boxpc, call, mutex, usedBy>>
  BY DEF ServiceMoves, OthersPut, boxes, process

\* CreateFails comes from a place where the lock is held.
LEMMA FailsFrom ==
    ASSUME NEW a \in Address, Create(a), CallInv
    PROVE  entry[a].id = NoImage
  <1>1. (At(a, "idle") /\ entry[a].id = NoImage) \/ call[a].pc \in Critical \cup {"lock"}
    BY DEF Create, BeginCreate, LockCreate, ListPage, ListFails, CheckFindsName,
       CheckPasses, SendPut, PutRejected, ReplyHasId, ReplyUnusable, RecoverOne,
       RecoverSeveral, RecoverNone, WaitEnds, At, Critical
  <1>2. QED
    BY <1>1 DEF CallInv

LEMMA CallStep == TypeOK /\ CallInv /\ [Next]_vars => CallInv'
  <1> SUFFICES ASSUME TypeOK, CallInv, [Next]_vars PROVE CallInv'
    OBVIOUS
  <1>1. CASE UNCHANGED <<call, entry, box>>
    BY <1>1 DEF CallInv, At
  <1>2. ASSUME NEW a \in Address, NEW id, Finish(a, id),
               entry[a].id # NoImage => id \in {NoImage, entry[a].id}
        PROVE  CallInv'
    <2>1. CallOK(a)'
      BY <1>2, FinishEffect DEF CallOK, At, Critical
    <2>2. QED
      BY <1>2, <2>1, FinishEffect, CallFrame
  <1>3. ASSUME NEW a \in Address, Create(a) PROVE CallInv'
    <2>1. entry[a].id = NoImage
      BY <1>3, FailsFrom
    <2>2. CASE CreateFails(a) \/ WaitEnds(a)
      BY <1>2, <2>1, <2>2 DEF CreateFails, WaitEnds
    <2>3. CASE /\ CreateMoves(a)
               /\ \A b \in Address \ {a} : call'[b] = call[b]
               /\ UNCHANGED <<entry, box, boxpc>>
      <3>1. CallOK(a)
        BY CallInvOK
      <3>2. CallOK(a)'
        BY <2>1, <2>3, <3>1 DEF CallOK, At, Keeps, Critical, CreateMoves
      <3>3. QED
        BY <2>3, <3>2, CallFrame
    <2>4. QED
      BY <1>3, <2>2, <2>3, CreateSteps
  <1>4. ASSUME NEW a \in Address, Delete(a) PROVE CallInv'
    <2>1. entry[a].id # NoImage \/ call[a].pc \in {"delete", "deletewait"}
      BY <1>4, DeleteSteps DEF At
    <2>2. entry[a].id # NoImage
      BY <2>1 DEF CallInv
    <2>3. CASE \E id \in {NoImage, entry[a].id} : Finish(a, id)
      BY <1>2, <2>3
    <2>4. CASE /\ \/ call'[a].pc = "delete" /\ At(a, "idle") /\ box[a] = NoImage
                  \/ call'[a].pc = "deletewait" /\ At(a, "delete")
               /\ Keeps(a)
      <3>1. CallOK(a)
        BY CallInvOK
      <3>2. CallOK(a)'
        BY <1>4, <2>2, <2>4, <3>1, DeleteSteps DEF CallOK, At, Keeps, Critical
      <3>3. QED
        BY <1>4, <3>2, DeleteSteps, CallFrame
    <2>5. QED
      BY <1>4, <2>3, <2>4, DeleteSteps
  <1>5. ASSUME NEW a \in Address, Deliver(a) PROVE CallInv'
    <2>1. CallOK(a)'
      BY <1>5, DeliverEffect DEF CallOK, NoCall, At, Critical
    <2>2. QED
      BY <1>5, <2>1, DeliverEffect, CallFrame
  <1>6. ASSUME NEW a \in Address, Update(a) \/ ReadNotFound(a) \/ ImportState(a)
        PROVE  CallInv'
    <2>1. CallOK(a)'
      BY <1>6, EntrySteps, CallInvOK DEF CallOK, At, Critical
    <2>2. QED
      BY <1>6, <2>1, EntrySteps, CallFrame
  <1>7. ASSUME NEW a \in Address, Box(a) PROVE CallInv'
    <2>1. CallOK(a)'
      BY <1>7, BoxSteps, CallInvOK DEF CallOK, At, Critical
    <2>2. QED
      BY <1>7, <2>1, BoxSteps, CallFrame
  <1>8. ASSUME NEW p \in Proc, Crash(p) PROVE CallInv'
    BY <1>8, CrashEffect DEF CallInv, NoCall, At, Critical
  <1>9. QED
    BY <1>1, <1>3, <1>4, <1>5, <1>6, <1>7, <1>8, StepCases, ServiceEffect
    DEF vars, process, boxes

-----------------------------------------------------------------------------
(* Images and who claims them.                                             *)

\* SendPut, with the image that it makes.
LEMMA SendPutEffect ==
    ASSUME TypeOK, NEW a \in Address, SendPut(a)
    PROVE  /\ At(a, "put") /\ call'[a].pc = "reply"
           /\ call'[a].made \in ObjectId \ Foreign /\ status[call'[a].made] = "free"
           /\ status' = [status EXCEPT ![call'[a].made] = "building"]
           /\ maker' = [maker EXCEPT ![call'[a].made] = a]
  <1>1. call \in [Address -> Calls]
    BY DEF TypeOK, Calls, ImageOrNone
  <1>2. PICK i \in ObjectId :
          /\ status[i] = "free" /\ i \notin Foreign
          /\ status' = [status EXCEPT ![i] = "building"]
          /\ maker' = [maker EXCEPT ![i] = a]
          /\ call' = [call EXCEPT ![a].pc = "reply", ![a].made = i]
    BY DEF SendPut
  <1>3. call'[a].pc = "reply" /\ call'[a].made = i
    BY <1>1, <1>2 DEF Calls
  <1>4. QED
    BY <1>2, <1>3 DEF SendPut

\* What a step can do to one image: it keeps its maker once it is made, an end is
\* for good, and a new one comes from elsewhere or from a PUT.
ImageMoves(i) ==
    /\ status[i] # "free" => status'[i] # "free" /\ maker'[i] = maker[i]
    /\ status[i] = "gone" => status'[i] = "gone"
    /\ status[i] = "free" /\ status'[i] # "free" =>
          \/ i \in Foreign
          \/ \E a \in Address : SendPut(a) /\ call'[a].made = i /\ maker'[i] = a

LEMMA ImageSteps ==
    ASSUME TypeOK, [Next]_vars, NEW i \in ObjectId
    PROVE  ImageMoves(i)
  <1>0. /\ status \in [ObjectId -> Live \cup {"free", "gone"}]
        /\ maker \in [ObjectId -> Address \cup {Free}]
    BY DEF TypeOK
  <1>1. CASE UNCHANGED <<status, maker>>
    BY <1>1 DEF ImageMoves
  <1>2. ASSUME NEW a \in Address, Create(a) PROVE ImageMoves(i)
    <2>1. CASE SendPut(a)
      BY <1>0, <2>1, SendPutEffect DEF ImageMoves
    <2>2. CASE ~SendPut(a)
      <3>1. UNCHANGED service
        BY <1>2, <2>2, CreateSteps DEF CreateMoves, CreateFails, WaitEnds
      <3>2. QED
        BY <1>1, <3>1 DEF service
    <2>3. QED
      BY <2>1, <2>2
  <1>3. ASSUME NEW a \in Address, Delete(a) PROVE ImageMoves(i)
    <2>1. CASE DeleteAccepted(a)
      <3>1. status' = [status EXCEPT ![entry[a].id] = "deleting"] /\ maker' = maker
        BY <2>1 DEF DeleteAccepted
      <3>2. status[entry[a].id] \in Live
        BY <2>1 DEF DeleteAccepted, Found
      <3>3. QED
        BY <1>0, <3>1, <3>2 DEF ImageMoves, Live
    <2>2. CASE ~DeleteAccepted(a)
      BY <1>1, <1>3, <2>2 DEF Delete, BeginDelete, DeleteRetained, DeleteNotFound,
         DeleteFails, DeleteConfirmed, service
    <2>3. QED
      BY <2>1, <2>2
  <1>4. ASSUME NEW j \in ObjectId, ServiceMoves(j) PROVE ImageMoves(i)
    <2>1. PICK s \in Moves(status[j]) : status' = [status EXCEPT ![j] = s]
      BY <1>4 DEF ServiceMoves
    <2>2. /\ s # "free" /\ status[j] # "free" /\ status[j] # "gone"
      <3>1. s \in Moves(status[j])
        BY <2>1
      <3>2. CASE status[j] = "building"
        BY <3>1, <3>2 DEF Moves
      <3>3. CASE status[j] = "ready"
        BY <3>1, <3>3 DEF Moves
      <3>4. CASE status[j] = "deleting"
        BY <3>1, <3>4 DEF Moves
      <3>5. CASE status[j] \notin {"building", "ready", "deleting"}
        BY <3>1, <3>5 DEF Moves
      <3>6. QED
        BY <3>2, <3>3, <3>4, <3>5
    <2>3. QED
      BY <1>0, <1>4, <2>1, <2>2 DEF ServiceMoves, ImageMoves
  <1>5. ASSUME NEW j \in ObjectId, OthersPut(j) PROVE ImageMoves(i)
    BY <1>0, <1>5 DEF OthersPut, ImageMoves
  <1>6. QED
    BY <1>1, <1>2, <1>3, <1>4, <1>5, StepCases, EntrySteps, BoxSteps, DeliverEffect,
       CrashEffect DEF vars, service

\* How an address comes to claim an image it did not claim: the answer of its PUT,
\* recovery, or an import.
NewClaim(b, i) ==
    \/ At(b, "reply") /\ i = call[b].made
    \/ At(b, "recover") /\ i \in Matches(b) /\ UNCHANGED <<status, maker>>
    \/ Found(i) /\ UNCHANGED <<status, maker>> /\ entry'[b].by = "import"

LEMMA ClaimSteps ==
    ASSUME TypeOK, CallInv, [Next]_vars, NEW b \in Address, NEW i \in Claims(b)'
    PROVE  \/ i \in Claims(b)
           \/ /\ NewClaim(b, i)
              /\ \A c \in Address \ {b} : Created(c)' = Created(c)
  <1> DEFINE Same(c) == call'[c] = call[c] /\ entry'[c] = entry[c]
  <1>0. i \in ObjectId /\ i # NoImage /\ i # NullId
    BY ImageAssumption DEF Claims, ImageAssumption
  <1>1. \A c \in Address :
           Same(c) => Claims(c)' = Claims(c) /\ Created(c)' = Created(c)
    BY DEF Claims, Created
  <1>2. CASE Same(b)
    BY <1>1, <1>2
  <1>3. ASSUME NEW id, Finish(b, id), id \in {NoImage, entry[b].id, call[b].got}
        PROVE  i \in Claims(b)
    BY <1>0, <1>3, FinishEffect DEF Claims
  <1>4. ASSUME NEW a \in Address, Create(a), ~Same(b)
        PROVE  \/ i \in Claims(b)
               \/ NewClaim(b, i) /\ \A c \in Address \ {b} : Same(c)
    <2>1. CASE CreateFails(a) \/ WaitEnds(a)
      <3>1. a = b
        BY <1>4, <2>1, FinishEffect DEF CreateFails, WaitEnds
      <3>2. QED
        BY <1>3, <2>1, <3>1 DEF CreateFails, WaitEnds
    <2>2. CASE /\ CreateMoves(a)
               /\ \A c \in Address \ {a} : call'[c] = call[c]
               /\ UNCHANGED <<entry, box, boxpc>>
      <3>1. a = b
        BY <1>4, <2>2
      <3>2. CASE Keeps(b)
        BY <2>2, <3>2 DEF Keeps, Claims
      <3>3. CASE At(b, "reply") /\ call'[b].got = call[b].made /\ call'[b].resp = call[b].resp
        BY <1>0, <2>2, <3>1, <3>3 DEF Claims, NewClaim
      <3>4. CASE /\ At(b, "recover") /\ call'[b].resp = call[b].resp
                 /\ Matches(b) = {call'[b].got} /\ UNCHANGED service
        BY <1>0, <2>2, <3>1, <3>4 DEF Claims, NewClaim, service
      <3>5. CASE call'[b].got = call[b].got /\ call'[b].resp = call[b].resp
        BY <2>2, <3>5 DEF Claims
      <3>6. QED
        BY <2>2, <3>1, <3>2, <3>3, <3>4, <3>5 DEF CreateMoves
    <2>3. QED
      BY <1>4, <2>1, <2>2, CreateSteps
  <1>5. ASSUME NEW a \in Address, Delete(a), ~Same(b) PROVE i \in Claims(b)
    <2>1. a = b
      BY <1>5, DeleteSteps
    <2>2. CASE Keeps(b)
      BY <1>5, <2>1, <2>2, DeleteSteps DEF Keeps, Claims
    <2>3. QED
      BY <1>3, <1>5, <2>1, <2>2, DeleteSteps
  <1>6. ASSUME NEW a \in Address, Deliver(a), ~Same(b) PROVE i \in Claims(b)
    BY <1>0, <1>6, DeliverEffect DEF NoCall, Claims
  <1>7. ASSUME NEW a \in Address, Update(a) \/ ReadNotFound(a) \/ ImportState(a),
               ~Same(b)
        PROVE  \/ i \in Claims(b)
               \/ NewClaim(b, i) /\ \A c \in Address \ {b} : Same(c)
    <2>1. a = b
      BY <1>7, EntrySteps
    <2>2. call' = call /\ \A c \in Address \ {b} : Same(c)
      BY <1>7, <2>1, EntrySteps
    <2>3. i \in Claims(b) \/ i = entry'[b].id
      BY <2>2 DEF Claims
    <2>4. QED
      BY <1>0, <1>7, <2>1, <2>2, <2>3, EntrySteps DEF NewClaim
  <1>8. ASSUME NEW a \in Address, Box(a) PROVE Same(b)
    BY <1>8, BoxSteps
  <1>9. ASSUME NEW p \in Proc, Crash(p) PROVE i \in Claims(b)
    BY <1>0, <1>9, CrashEffect DEF NoCall, Claims
  <1>10. CASE UNCHANGED vars
    BY <1>2, <1>10 DEF vars, process
  <1>11. QED
    BY <1>1, <1>2, <1>4, <1>5, <1>6, <1>7, <1>8, <1>9, <1>10, StepCases, ServiceEffect

\* An entry that loses an image it had from an import has nothing any more.
LEMMA OriginSteps ==
    ASSUME TypeOK, CallInv, [Next]_vars, NEW b \in Address
    PROVE  entry'[b].by \in {entry[b].by, "import"} \/ Claims(b)' = {}
  <1> DEFINE Stays == entry'[b].by \in {entry[b].by, "import"} \/ Claims(b)' = {}
  <1>0. NoImage \notin ObjectId
    BY ImageAssumption DEF ImageAssumption
  <1>1. CASE entry'[b] = entry[b]
    BY <1>1
  <1>2. ASSUME NEW a \in Address, Update(a) \/ ReadNotFound(a) \/ ImportState(a)
        PROVE  Stays
    <2>1. CASE a = b
      <3>1. call'[b] = call[b] /\ call[b].got = NoImage /\ call[b].resp = NoImage
        BY <1>2, <2>1, EntrySteps DEF CallInv, At
      <3>2. CASE entry'[b].id = NoImage
        BY <1>0, <3>1, <3>2 DEF Claims
      <3>3. QED
        BY <1>2, <2>1, <3>2, EntrySteps
    <2>2. QED
      BY <1>1, <1>2, <2>1, EntrySteps
  <1>3. ASSUME NEW a \in Address, Deliver(a) PROVE Stays
    <2>1. CASE a = b /\ call[b].resp = NoImage
      BY <1>0, <1>3, <2>1, DeliverEffect DEF NoCall, Claims
    <2>2. QED
      BY <1>1, <1>3, <2>1, DeliverEffect
  <1>4. ASSUME NEW a \in Address, Create(a) PROVE Stays
    BY <1>1, <1>4, CreateSteps, FinishEffect DEF CreateFails, WaitEnds
  <1>5. QED
    BY <1>1, <1>2, <1>3, <1>4, StepCases, DeleteSteps, BoxSteps, CrashEffect,
       ServiceEffect DEF vars

\* How an address comes to have an image by a create.
LEMMA CreatedSteps ==
    ASSUME TypeOK, CallInv, [Next]_vars, NEW b \in Address, NEW i \in Created(b)'
    PROVE  \/ i \in Created(b)
           \/ /\ \/ At(b, "reply") /\ i = call[b].made
                 \/ At(b, "recover") /\ i \in Matches(b)
              /\ \A c \in Address \ {b} : Created(c)' = Created(c)
  <1>1. i \in Claims(b)' /\ entry'[b].by = "create"
    BY DEF Created
  <1>2. CASE i \in Claims(b)
    <2>1. entry'[b].by = entry[b].by
      BY <1>1, OriginSteps
    <2>2. QED
      BY <1>1, <1>2, <2>1 DEF Created
  <1>3. QED
    BY <1>1, <1>2, ClaimSteps DEF NewClaim

LEMMA ImageInit == Init => ImageInv
  BY ImageAssumption
  DEF Init, ImageInv, ImageAssumption, Claims, Created, NoCall, NoEntry

\* What an address claims has been made, and what it has from a create or has seen
\* on a page has its name.
LEMMA ClaimMade ==
    ASSUME ImageInv, NEW b \in Address, NEW i \in Claims(b)
    PROVE  status[i] # "free"
  BY DEF ImageInv

LEMMA CreatedNamed ==
    ASSUME ImageInv, NEW b \in Address, NEW i \in Created(b)
    PROVE  status[i] # "free" /\ maker[i] \in Address /\ NameOf[maker[i]] = NameOf[b]
  BY DEF ImageInv

LEMMA ListedNamed ==
    ASSUME ImageInv, NEW b \in Address, NEW i \in Listed(b)
    PROVE  status[i] # "free" /\ maker[i] \in Address /\ NameOf[maker[i]] = NameOf[b]
  <1>1. CASE i \in call[b].seen
    BY <1>1 DEF ImageInv
  <1>2. CASE i \in Named(b, Page(b))
    BY <1>2 DEF Named, Page, Rest, Found, Live
  <1>3. QED
    BY <1>1, <1>2 DEF Listed

\* What a call has seen and made grows by a page, and by a PUT.
LEMMA SeenSteps ==
    ASSUME TypeOK, [Next]_vars, NEW b \in Address
    PROVE  /\ call'[b].seen \subseteq call[b].seen \cup Listed(b)
           /\ \/ call'[b].made \in {call[b].made, NoImage}
              \/ /\ call'[b].made \in ObjectId /\ status'[call'[b].made] = "building"
                 /\ maker'[call'[b].made] = b
  <1>0. /\ status \in [ObjectId -> Live \cup {"free", "gone"}]
        /\ maker \in [ObjectId -> Address \cup {Free}]
    BY DEF TypeOK
  <1> DEFINE Seen == call'[b].seen \subseteq call[b].seen \cup Listed(b)
             MadeOK == \/ call'[b].made \in {call[b].made, NoImage}
                       \/ /\ call'[b].made \in ObjectId
                          /\ status'[call'[b].made] = "building"
                          /\ maker'[call'[b].made] = b
  <1>1. CASE call'[b] = call[b]
    BY <1>1
  <1>2. ASSUME NEW id, Finish(b, id) PROVE Seen /\ MadeOK
    BY <1>2, FinishEffect
  <1>3. ASSUME NEW a \in Address, Create(a), call'[b] # call[b] PROVE Seen /\ MadeOK
    <2>1. CASE CreateFails(a) \/ WaitEnds(a)
      <3>1. a = b
        BY <1>3, <2>1, FinishEffect DEF CreateFails, WaitEnds
      <3>2. QED
        BY <1>2, <2>1, <3>1 DEF CreateFails, WaitEnds
    <2>2. CASE /\ CreateMoves(a)
               /\ \A c \in Address \ {a} : call'[c] = call[c]
      <3>1. a = b
        BY <1>3, <2>2
      <3>2. Seen
        BY <2>2, <3>1 DEF CreateMoves
      <3>3. CASE SendPut(b)
        BY <1>0, <3>2, <3>3, SendPutEffect
      <3>4. CASE call'[b].made = call[b].made
        BY <3>2, <3>4
      <3>5. QED
        BY <2>2, <3>1, <3>3, <3>4 DEF CreateMoves, Keeps
    <2>3. QED
      BY <1>3, <2>1, <2>2, CreateSteps
  <1>4. ASSUME NEW a \in Address, Delete(a), call'[b] # call[b] PROVE Seen /\ MadeOK
    <2>1. a = b
      BY <1>4, DeleteSteps
    <2>2. QED
      BY <1>2, <1>4, <2>1, DeleteSteps DEF Keeps
  <1>5. ASSUME NEW a \in Address, Deliver(a) PROVE Seen /\ MadeOK
    BY <1>1, <1>5, DeliverEffect DEF NoCall
  <1>6. ASSUME NEW p \in Proc, Crash(p) PROVE Seen /\ MadeOK
    BY <1>6, CrashEffect DEF NoCall
  <1>7. QED
    BY <1>1, <1>3, <1>4, <1>5, <1>6, OtherSteps

LEMMA ImageStep == TypeOK /\ CallInv /\ ImageInv /\ [Next]_vars => ImageInv'
  <1> SUFFICES ASSUME TypeOK, CallInv, ImageInv, [Next]_vars PROVE ImageInv'
    OBVIOUS
  <1>0. /\ \A j \in ObjectId : ImageMoves(j)
        /\ Foreign \subseteq ObjectId
    BY ImageSteps, ImageAssumption DEF ImageAssumption
  <1>1. ASSUME NEW b \in Address, NEW i \in ObjectId,
               status[i] # "free" /\ maker[i] \in Address /\ NameOf[maker[i]] = NameOf[b]
        PROVE  status'[i] # "free" /\ maker'[i] \in Address /\ NameOf[maker'[i]] = NameOf[b]
    BY <1>0, <1>1 DEF ImageMoves
  <1>2. ASSUME NEW b \in Address, NEW i \in Created(b)'
        PROVE  status'[i] # "free" /\ maker'[i] \in Address /\ NameOf[maker'[i]] = NameOf[b]
    <2>0. i \in ObjectId
      BY <1>2 DEF Created, Claims
    <2>1. CASE i \in Created(b)
      BY <1>1, <2>0, <2>1, CreatedNamed
    <2>2. CASE At(b, "reply") /\ i = call[b].made
      BY <1>1, <2>0, <2>2 DEF ImageInv
    <2>3. CASE i \in Matches(b)
      BY <1>1, <2>0, <2>3, ListedNamed DEF Matches
    <2>4. QED
      BY <1>2, <2>1, <2>2, <2>3, CreatedSteps
  <1>7. ASSUME NEW b \in Address, NEW i \in Claims(b)'
        PROVE  status'[i] # "free"
    <2>0. i \in ObjectId
      BY <1>7 DEF Claims
    <2>1. CASE i \in Claims(b)
      BY <1>0, <2>0, <2>1, ClaimMade DEF ImageMoves
    <2>2. CASE At(b, "reply") /\ i = call[b].made
      BY <1>1, <2>0, <2>2 DEF ImageInv
    <2>3. CASE i \in Matches(b)
      BY <1>1, <2>0, <2>3, ListedNamed DEF Matches
    <2>4. CASE Found(i) /\ UNCHANGED <<status, maker>>
      BY <2>4 DEF Found, Live
    <2>5. QED
      BY <1>7, <2>1, <2>2, <2>3, <2>4, ClaimSteps DEF NewClaim
  <1>3. ASSUME NEW b \in Address, NEW i \in call'[b].seen
        PROVE  status'[i] # "free" /\ maker'[i] \in Address /\ NameOf[maker'[i]] = NameOf[b]
    <2>1. i \in Listed(b)
      BY <1>3, SeenSteps DEF Listed
    <2>2. i \in ObjectId
      BY <2>1, ListedType
    <2>3. QED
      BY <1>1, <2>1, <2>2, ListedNamed
  <1>4. ASSUME NEW b \in Address, call'[b].made \in ObjectId
        PROVE  status'[call'[b].made] # "free" /\ maker'[call'[b].made] = b
    <2>1. call'[b].made # NoImage
      BY <1>4, ImageAssumption DEF ImageAssumption
    <2>2. CASE call'[b].made = call[b].made
      BY <1>0, <1>4, <2>2 DEF ImageInv, ImageMoves
    <2>3. CASE status'[call'[b].made] = "building" /\ maker'[call'[b].made] = b
      BY <2>3
    <2>4. QED
      BY <2>1, <2>2, <2>3, SeenSteps
  <1>5. ASSUME NEW i \in ObjectId \ Foreign, status'[i] # "free"
        PROVE  maker'[i] \in Address
    BY <1>0, <1>5 DEF ImageInv, ImageMoves
  <1>6. QED
    BY <1>2, <1>3, <1>4, <1>5, <1>7 DEF ImageInv

-----------------------------------------------------------------------------
(* The list in pages.                                                      *)

\* A page has no gaps: it holds everything of the rest up to its last image.
LEMMA PageClosed ==
    ASSUME NEW a \in Address, call[a].cursor \in Nat,
           NEW i \in Page(a), NEW j \in Rest(a), j <= i
    PROVE  j \in Page(a)
  <1> DEFINE Before(k) == {m \in Rest(a) : m < k}
  <1>1. ObjectId \subseteq Nat /\ IsFiniteSet(ObjectId) /\ PageSize \in Nat
    BY ImageAssumption DEF ImageAssumption
  <1>2. Rest(a) \subseteq ObjectId /\ i \in ObjectId /\ j \in ObjectId
    BY DEF Rest, Page
  <1>3. Before(j) \subseteq Before(i)
    BY <1>1, <1>2
  <1>4. Before(i) \subseteq ObjectId
    BY <1>2
  <1>5. IsFiniteSet(Before(i)) /\ IsFiniteSet(Before(j))
    BY <1>1, <1>3, <1>4, FS_Subset
  <1>6. Cardinality(Before(j)) <= Cardinality(Before(i))
    BY <1>3, <1>5, FS_Subset
  <1>7. Cardinality(Before(i)) \in Nat /\ Cardinality(Before(j)) \in Nat
    BY <1>5, FS_CardinalityType
  <1>8. Cardinality(Before(i)) < PageSize
    BY DEF Page
  <1>9. Cardinality(Before(j)) < PageSize
    BY <1>1, <1>6, <1>7, <1>8
  <1>10. QED
    BY <1>9 DEF Page

\* How a call comes to the lookup, to the PUT, and beyond.
LEMMA PlaceSteps ==
    ASSUME TypeOK, [Next]_vars, NEW a \in Address
    PROVE  /\ At(a, "check")' =>
                 \/ At(a, "check") /\ call'[a] = call[a]
                 \/ /\ At(a, "check") /\ call'[a].seen = Listed(a)
                    /\ call'[a].cursor \in Page(a) /\ UNCHANGED service
                 \/ call'[a].cursor = 0
           /\ At(a, "put")' =>
                 \/ At(a, "put") /\ call'[a] = call[a]
                 \/ /\ At(a, "check") /\ LastPage(a) /\ Listed(a) = {}
                    /\ UNCHANGED service
           /\ call'[a].pc \in {"reply", "recover", "wait"} =>
                 call[a].pc \in {"put", "reply", "recover", "wait"}
  <1> DEFINE Places ==
         /\ At(a, "check")' =>
               \/ At(a, "check") /\ call'[a] = call[a]
               \/ /\ At(a, "check") /\ call'[a].seen = Listed(a)
                  /\ call'[a].cursor \in Page(a) /\ UNCHANGED service
               \/ call'[a].cursor = 0
         /\ At(a, "put")' =>
               \/ At(a, "put") /\ call'[a] = call[a]
               \/ /\ At(a, "check") /\ LastPage(a) /\ Listed(a) = {}
                  /\ UNCHANGED service
         /\ call'[a].pc \in {"reply", "recover", "wait"} =>
               call[a].pc \in {"put", "reply", "recover", "wait"}
  <1>1. CASE call'[a] = call[a]
    BY <1>1 DEF At
  <1>2. ASSUME NEW id, Finish(a, id) PROVE Places
    BY <1>2, FinishEffect DEF At
  <1>3. ASSUME NEW b \in Address, Create(b), call'[a] # call[a] PROVE Places
    <2>1. CASE CreateFails(b) \/ WaitEnds(b)
      <3>1. a = b
        BY <1>3, <2>1, FinishEffect DEF CreateFails, WaitEnds
      <3>2. QED
        BY <1>2, <2>1, <3>1 DEF CreateFails, WaitEnds
    <2>2. CASE /\ CreateMoves(b)
               /\ \A c \in Address \ {b} : call'[c] = call[c]
      <3>1. a = b
        BY <1>3, <2>2
      <3>2. QED
        BY <2>2, <3>1 DEF CreateMoves, At
    <2>3. QED
      BY <1>3, <2>1, <2>2, CreateSteps
  <1>4. ASSUME NEW b \in Address, Delete(b), call'[a] # call[a] PROVE Places
    <2>1. a = b
      BY <1>4, DeleteSteps
    <2>2. QED
      BY <1>2, <1>4, <2>1, DeleteSteps DEF At
  <1>5. ASSUME NEW b \in Address, Deliver(b) PROVE Places
    BY <1>1, <1>5, DeliverEffect DEF NoCall, At
  <1>6. ASSUME NEW p \in Proc, Crash(p) PROVE Places
    BY <1>1, <1>6, CrashEffect DEF NoCall, At
  <1>7. QED
    BY <1>1, <1>3, <1>4, <1>5, <1>6, OtherSteps

-----------------------------------------------------------------------------
(* At most one image of a key, and one owner.                              *)

\* A live image after a step was there before, or has just been made.
LEMMA LiveBefore ==
    ASSUME TypeOK, [Next]_vars, NEW i \in ObjectId, status'[i] \in Live
    PROVE  \/ status[i] \in Live /\ maker'[i] = maker[i]
           \/ status[i] = "free"
  BY ImageSteps DEF ImageMoves, TypeOK, Live

\* While a holds its lock, no image of its key is made but by itself, and
\* nobody else of its key comes to claim one.
LEMMA MadeStep ==
    ASSUME TypeOK, LockInv, [Next]_vars, NEW a \in Address, call[a].pc \in Critical,
           call'[a].pc \in {"check", "put"}
    PROVE  Made(a)' \subseteq Made(a)
  <1> SUFFICES ASSUME NEW i \in Made(a)' PROVE i \in Made(a)
    OBVIOUS
  <1>1. /\ i \in ObjectId \ Foreign /\ status'[i] \in Live
        /\ maker'[i] \in Address /\ KeyOf[maker'[i]] = KeyOf[a]
    BY DEF Made
  <1>2. CASE status[i] \in Live /\ maker'[i] = maker[i]
    BY <1>1, <1>2 DEF Made
  <1>3. CASE status[i] = "free"
    <2>1. status'[i] # "free"
      BY <1>1 DEF Live
    <2>2. PICK b \in Address : SendPut(b) /\ maker'[i] = b
      BY <1>1, <1>3, <2>1, ImageSteps DEF ImageMoves
    <2>3. KeyOf[b] = KeyOf[a] /\ call[b].pc = "put" /\ call'[b].pc = "reply"
      BY <1>1, <2>2, SendPutEffect DEF At
    <2>4. a = b
      BY <2>3, Serialized DEF Critical
    <2>5. QED
      BY <2>3, <2>4
  <1>4. QED
    BY <1>1, <1>2, <1>3, LiveBefore

LEMMA TakenStep ==
    ASSUME TypeOK, LockInv, CallInv, ImageInv, [Next]_vars,
           NEW a \in Address, call[a].pc \in Critical
    PROVE  Taken(a)' \subseteq Taken(a)
  <1> SUFFICES ASSUME NEW i \in Taken(a)' PROVE i \in Taken(a)
    OBVIOUS
  <1>1. i \in ObjectId /\ status'[i] \in Live
    BY DEF Taken
  <1>2. PICK b \in Address \ {a} : KeyOf[b] = KeyOf[a] /\ i \in Created(b)'
    BY DEF Taken
  <1>3. CASE i \in Created(b)
    BY <1>1, <1>2, <1>3, LiveBefore, CreatedNamed DEF Taken
  <1>4. CASE call[b].pc \in {"reply", "recover"}
    BY <1>2, <1>4, Serialized DEF Critical
  <1>5. QED
    BY <1>2, <1>3, <1>4, CreatedSteps DEF At

LEMMA ClearedInit == Init => Cleared
  BY DEF Init, Cleared, NoCall, At

LEMMA ClearedStep ==
    TypeOK /\ LockInv /\ CallInv /\ ImageInv /\ Cleared /\ [Next]_vars => Cleared'
  <1> SUFFICES ASSUME TypeOK, LockInv, CallInv, ImageInv, Cleared, [Next]_vars,
                      NEW a \in Address
               PROVE  /\ At(a, "check")' => \A i \in Made(a)' \cup Taken(a)' :
                                        i <= call'[a].cursor => i \in call'[a].seen
                      /\ At(a, "put")' => Made(a)' = {}
                      /\ call'[a].pc \in {"put", "reply", "recover", "wait"} =>
                            Taken(a)' = {}
    BY DEF Cleared
  <1>0. /\ ObjectId \subseteq Nat \ {0}
        /\ call[a].cursor \in Nat /\ Page(a) \subseteq ObjectId
    <2>1. call[a].cursor \in ObjectId \cup {0}
      BY DEF TypeOK
    <2>2. ObjectId \subseteq Nat \ {0}
      BY ImageAssumption DEF ImageAssumption
    <2>3. call[a].cursor \in Nat
      <3>1. CASE call[a].cursor = 0
        BY <3>1
      <3>2. CASE call[a].cursor \in ObjectId
        BY <2>2, <3>2
      <3>3. QED
        BY <2>1, <3>1, <3>2
    <2>4. QED
      BY <2>2, <2>3, PageType
  <1>1. ASSUME NEW i \in Made(a) \cup Taken(a)
        PROVE  i \in ObjectId /\ Found(i) /\ i \in Named(a, ObjectId)
    <2>1. CASE i \in Made(a)
      <3>1. NameOf[maker[i]] = NameOf[a]
        BY <2>1, ImageAssumption DEF Made, ImageAssumption
      <3>2. QED
        BY <2>1, <3>1 DEF Made, Found, Named
    <2>2. CASE i \in Taken(a)
      <3>1. PICK b \in Address : KeyOf[b] = KeyOf[a] /\ i \in Created(b)
        BY <2>2 DEF Taken
      <3>2. NameOf[b] = NameOf[a]
        BY <3>1, ImageAssumption DEF ImageAssumption
      <3>3. maker[i] \in Address /\ NameOf[maker[i]] = NameOf[b]
        BY <3>1, CreatedNamed
      <3>4. QED
        BY <2>2, <3>2, <3>3 DEF Taken, Found, Named
    <2>3. QED
      BY <1>1, <2>1, <2>2
  \* What is passed over, or on a page that is read, is in the list.
  <1>2. ASSUME At(a, "check"), NEW i \in Made(a) \cup Taken(a), i \in Page(a) \/ i \notin Rest(a)
        PROVE  i \in Listed(a)
    <2>1. CASE i \in Page(a)
      BY <1>1, <2>1 DEF Named, Listed
    <2>2. CASE i \notin Rest(a)
      <3>1. ~(i > call[a].cursor)
        BY <1>1, <2>2 DEF Rest
      <3>2. i <= call[a].cursor
        <4>1. i \in Nat /\ call[a].cursor \in Nat
          BY <1>0, <1>1
        <4>2. QED
          BY <3>1, <4>1
      <3>3. QED
        BY <1>2, <3>2 DEF Cleared, Listed
    <2>3. QED
      BY <1>2, <2>1, <2>2
  <1>3. CASE At(a, "check")'
    <2> SUFFICES ASSUME NEW i \in Made(a)' \cup Taken(a)', i <= call'[a].cursor
                 PROVE  i \in call'[a].seen
      BY <1>3 DEF At
    <2>0. i \in ObjectId
      BY DEF Made, Taken
    <2>1. CASE call'[a].cursor = 0
      BY <1>0, <2>0, <2>1
    <2>2. ASSUME At(a, "check") PROVE i \in Made(a) \cup Taken(a)
      BY <1>3, <2>2, MadeStep, TakenStep DEF At, Critical
    <2>3. CASE At(a, "check") /\ call'[a] = call[a]
      BY <2>2, <2>3 DEF Cleared
    <2>4. CASE /\ At(a, "check") /\ call'[a].seen = Listed(a)
               /\ call'[a].cursor \in Page(a)
      <3>1. i \in Rest(a) => i \in Page(a)
        BY <1>0, <2>4, PageClosed
      <3>2. QED
        BY <1>2, <2>2, <2>4, <3>1
    <2>5. QED
      BY <1>3, <2>1, <2>3, <2>4, PlaceSteps
  <1>4. ASSUME At(a, "check"), LastPage(a), Listed(a) = {}
        PROVE  Made(a) = {} /\ Taken(a) = {}
    BY <1>2, <1>4 DEF LastPage
  <1>5. CASE At(a, "put")'
    <2>1. CASE At(a, "put") /\ call'[a] = call[a]
      BY <1>5, <2>1, MadeStep, TakenStep DEF Cleared, At, Critical
    <2>2. CASE At(a, "check") /\ LastPage(a) /\ Listed(a) = {}
      BY <1>4, <1>5, <2>2, MadeStep, TakenStep DEF At, Critical
    <2>3. QED
      BY <1>5, <2>1, <2>2, PlaceSteps
  <1>6. CASE call'[a].pc \in {"reply", "recover", "wait"}
    BY <1>6, PlaceSteps, TakenStep DEF Cleared, Critical, At
  <1>7. QED
    BY <1>3, <1>5, <1>6 DEF At

LEMMA DuplicatesStep ==
    TypeOK /\ ImageInv /\ NoDuplicates /\ Cleared /\ [Next]_vars => NoDuplicates'
  <1> SUFFICES ASSUME TypeOK, ImageInv, NoDuplicates, Cleared, [Next]_vars,
                      NEW i \in ObjectId \ Foreign, NEW j \in ObjectId \ Foreign,
                      status'[i] \in Live, status'[j] \in Live,
                      KeyOf[maker'[i]] = KeyOf[maker'[j]], i # j
               PROVE  FALSE
    BY DEF NoDuplicates
  <1>0. /\ status \in [ObjectId -> Live \cup {"free", "gone"}]
        /\ maker \in [ObjectId -> Address \cup {Free}]
    BY DEF TypeOK
  \* One of the two has just been made, and the other one was there.
  <1>1. ASSUME NEW x \in ObjectId \ Foreign, NEW y \in ObjectId \ Foreign, x # y,
               status'[x] \in Live, status'[y] \in Live,
               KeyOf[maker'[x]] = KeyOf[maker'[y]], status[x] = "free"
        PROVE  FALSE
    <2>1. status'[x] # "free"
      BY <1>1 DEF Live
    <2>2. PICK a \in Address : SendPut(a) /\ call'[a].made = x /\ maker'[x] = a
      BY <1>1, <2>1, ImageSteps DEF ImageMoves
    <2>3. At(a, "put") /\ status' = [status EXCEPT ![x] = "building"]
                       /\ maker' = [maker EXCEPT ![x] = a]
      BY <2>2, SendPutEffect
    <2>4. status[y] \in Live /\ KeyOf[maker[y]] = KeyOf[a]
      BY <1>0, <1>1, <2>2, <2>3
    <2>5. maker[y] \in Address
      BY <2>4 DEF ImageInv, Live
    <2>6. y \in Made(a)
      BY <2>4, <2>5 DEF Made
    <2>7. QED
      BY <2>3, <2>6 DEF Cleared
  <1>2. status[i] # "free" /\ status[j] # "free"
    BY <1>1
  <1>3. QED
    BY <1>2, LiveBefore DEF NoDuplicates

LEMMA OwnerInit == Init => NoDuplicates /\ SoleOwner
  <1>1. ASSUME Init PROVE NoDuplicates
    BY <1>1 DEF Init, NoDuplicates, Live
  <1>2. ASSUME Init PROVE SoleOwner
    BY <1>2 DEF Init, SoleOwner, Claims, Created, Live
  <1>3. QED
    BY <1>1, <1>2

LEMMA OwnerStep ==
    TypeOK /\ CallInv /\ ImageInv /\ SoleOwner /\ Cleared /\ [Next]_vars => SoleOwner'
  <1> SUFFICES ASSUME TypeOK, CallInv, ImageInv, SoleOwner, Cleared, [Next]_vars,
                      NEW a \in Address, NEW b \in Address, a # b, KeyOf[a] = KeyOf[b],
                      NEW i \in Created(a)', i \in Created(b)',
                      status'[i] \in Live
               PROVE  FALSE
    BY DEF SoleOwner
  <1>0. i \in ObjectId
    BY DEF Created, Claims
  <1>1. ASSUME NEW c \in Address, i \in Created(c)
        PROVE  status[i] \in Live
    BY <1>0, <1>1, LiveBefore, CreatedNamed
  \* One of the two has had the image already when the other one comes to it.
  <1>2. ASSUME NEW c \in Address, NEW d \in Address, c # d, KeyOf[c] = KeyOf[d],
               i \in Created(c), At(d, "reply") \/ At(d, "recover")
        PROVE  FALSE
    <2>1. i \in Taken(d)
      BY <1>0, <1>1, <1>2 DEF Taken
    <2>2. QED
      BY <1>2, <2>1 DEF Cleared, At
  <1>3. CASE i \in Created(a) /\ i \in Created(b)
    BY <1>1, <1>3 DEF SoleOwner
  <1>4. CASE i \notin Created(a)
    <2>1. At(a, "reply") \/ At(a, "recover")
      BY <1>4, CreatedSteps
    <2>2. Created(b)' = Created(b)
      BY <1>4, CreatedSteps
    <2>3. QED
      BY <1>2, <2>1, <2>2
  <1>5. CASE i \notin Created(b)
    <2>1. At(b, "reply") \/ At(b, "recover")
      BY <1>5, CreatedSteps
    <2>2. Created(a)' = Created(a)
      BY <1>5, CreatedSteps
    <2>3. QED
      BY <1>2, <2>1, <2>2
  <1>6. QED
    BY <1>3, <1>4, <1>5

-----------------------------------------------------------------------------
(* Entries that are dropped, and refusals.                                 *)

\* An image that is claimed and that GET does not find has come to its end.
LEMMA ClaimGone ==
    ASSUME TypeOK, ImageInv, NEW a \in Address, entry[a].id \in ObjectId,
           ~Found(entry[a].id)
    PROVE  status[entry[a].id] = "gone"
  <1>1. entry[a].id \in Claims(a)
    BY DEF Claims
  <1>2. status[entry[a].id] # "free"
    BY <1>1, ClaimMade
  <1>3. status[entry[a].id] \in Live \cup {"free", "gone"}
    BY DEF TypeOK
  <1>4. QED
    BY <1>2, <1>3 DEF Found

LEMMA DropInit == Init => DropInv
  BY DEF Init, DropInv, NoCall, At

LEMMA DropStep ==
    TypeOK /\ CallInv /\ ImageInv /\ DropInv /\ [Next]_vars => DropInv'
  <1> SUFFICES ASSUME TypeOK, CallInv, ImageInv, DropInv, [Next]_vars,
                      NEW a \in Address, At(a, "return")', call'[a].resp = NoImage,
                      entry'[a].id \in ObjectId
               PROVE  status'[entry'[a].id] = "gone" \/ entry'[a].policy = "Retain"
    BY DEF DropInv
  <1>0. NoImage \notin ObjectId
    BY ImageAssumption DEF ImageAssumption
  <1>1. CASE call'[a] = call[a] /\ entry'[a] = entry[a]
    BY <1>1, ImageSteps DEF ImageMoves, DropInv, At
  <1>2. ASSUME NEW b \in Address, Create(b)
        PROVE  call'[a] = call[a] /\ entry'[a] = entry[a]
    <2>1. entry' = entry
      BY <1>2, CreateSteps, FinishEffect DEF CreateFails, WaitEnds
    <2>2. a # b
      BY <1>0, <1>2, <2>1, FailsFrom
    <2>3. QED
      BY <1>2, <2>1, <2>2, CreateSteps, FinishEffect DEF CreateFails, WaitEnds
  <1>3. ASSUME NEW b \in Address, Delete(b), ~(call'[a] = call[a] /\ entry'[a] = entry[a])
        PROVE  status'[entry'[a].id] = "gone" \/ entry'[a].policy = "Retain"
    <2>1. a = b /\ entry' = entry
      BY <1>3, DeleteSteps
    <2>2. CASE Finish(a, entry[a].id)
      BY <1>0, <2>1, <2>2, FinishEffect
    <2>3. CASE ~Found(entry[a].id) /\ status' = status
      BY <2>1, <2>3, ClaimGone
    <2>4. QED
      BY <1>3, <2>1, <2>2, <2>3, DeleteSteps DEF At
  <1>4. ASSUME NEW b \in Address, Deliver(b)
        PROVE  call'[a] = call[a] /\ entry'[a] = entry[a]
    BY <1>4, DeliverEffect DEF NoCall, At
  <1>5. ASSUME NEW b \in Address, Update(b) \/ ReadNotFound(b) \/ ImportState(b)
        PROVE  call'[a] = call[a] /\ entry'[a] = entry[a]
    BY <1>5, EntrySteps DEF At
  <1>6. ASSUME NEW p \in Proc, Crash(p)
        PROVE  call'[a] = call[a] /\ entry'[a] = entry[a]
    BY <1>6, CrashEffect DEF NoCall, At
  <1>7. QED
    BY <1>1, <1>2, <1>3, <1>4, <1>5, <1>6, StepCases, BoxSteps, ServiceEffect
    DEF vars, process

LEMMA BoxInit == Init => BoxInv
  BY DEF Init, BoxInv

LEMMA BoxStep == TypeOK /\ BoxInv /\ [Next]_vars => BoxInv'
  <1> SUFFICES ASSUME TypeOK, BoxInv, [Next]_vars, NEW i \in ObjectId, usedBy'[i] = "box"
               PROVE  \E b \in Address : box'[b] = i
    BY DEF BoxInv
  <1>0. /\ box \in [Address -> ImageOrNone]
        /\ usedBy \in [ObjectId -> {"nobody", "box", "retained", "left"}]
    BY DEF TypeOK, ImageOrNone
  <1>1. CASE UNCHANGED <<box, usedBy>>
    BY <1>1 DEF BoxInv
  <1>2. ASSUME NEW a \in Address, BoxPut(a)
        PROVE  \E b \in Address : box'[b] = i
    <2>1. PICK j \in ObjectId : /\ box[a] = NoImage
                                /\ box' = [box EXCEPT ![a] = j]
                                /\ usedBy' = [usedBy EXCEPT ![j] = "box"]
      BY <1>2 DEF BoxPut
    <2>2. CASE i = j
      BY <1>0, <2>1, <2>2
    <2>3. CASE i # j
      <3>1. usedBy[i] = "box"
        BY <1>0, <2>1, <2>3
      <3>2. PICK b \in Address : box[b] = i
        BY <3>1 DEF BoxInv
      <3>3. b # a
        BY <2>1, <3>2, ImageAssumption DEF ImageAssumption
      <3>4. QED
        BY <1>0, <2>1, <3>2, <3>3
    <2>4. QED
      BY <2>2, <2>3
  <1>3. ASSUME NEW a \in Address,
               BoxUnrecorded(a) \/ BoxRetained(a) \/ BoxGone(a) \/ BoxDeleteEnds(a)
        PROVE  \E b \in Address : box'[b] = i
    <2>1. /\ \A b \in Address \ {a} : box'[b] = box[b]
          /\ usedBy[i] = "box"
          /\ box'[a] = box[a] \/ box[a] # i
      <3>1. CASE BoxRetained(a)
        BY <1>0, <3>1 DEF BoxRetained
      <3>2. CASE BoxGone(a)
        BY <1>0, <3>2 DEF BoxGone, boxes
      <3>3. CASE BoxDeleteEnds(a)
        BY <1>0, <3>3 DEF BoxDeleteEnds
      <3>4. CASE BoxUnrecorded(a)
        BY <1>0, <3>4 DEF BoxUnrecorded
      <3>5. QED
        BY <1>3, <3>1, <3>2, <3>3, <3>4
    <2>2. PICK b \in Address : box[b] = i
      BY <2>1 DEF BoxInv
    <2>3. QED
      BY <2>1, <2>2
  <1>4. ASSUME NEW a \in Address, BoxRecorded(a) \/ BoxDelete(a)
        PROVE  UNCHANGED <<box, usedBy>>
    BY <1>4 DEF BoxRecorded, BoxDelete
  <1>5. ASSUME NEW a \in Address, Create(a) PROVE UNCHANGED <<box, usedBy>>
    BY <1>5, CreateSteps, FinishEffect DEF CreateMoves, CreateFails, WaitEnds, service
  <1>6. ASSUME NEW p \in Proc, Crash(p) PROVE \E b \in Address : box'[b] = i
    <2>1. /\ usedBy[i] = "box"
          /\ \A b \in Address : ProcOf[b] = p /\ boxpc[b] = "create" => box[b] # i
      BY <1>6 DEF Crash
    <2>2. PICK b \in Address : box[b] = i
      BY <2>1 DEF BoxInv
    <2>3. box'[b] = box[b]
      BY <1>6, <2>1, <2>2 DEF Crash
    <2>4. QED
      BY <2>2, <2>3
  <1>7. QED
    BY <1>1, <1>2, <1>3, <1>4, <1>5, <1>6, StepCases, EntrySteps, DeleteSteps,
       DeliverEffect, ServiceEffect DEF Box, vars, boxes, service

-----------------------------------------------------------------------------
(* The theorems.                                                           *)

LEMMA Inductive == Spec => []IInv
  <1>1. Init => IInv
    BY TypeInit, LockInit, CallInit, ImageInit, OwnerInit, ClearedInit, DropInit, BoxInit
    DEF IInv
  <1>2. IInv /\ [Next]_vars => IInv'
    BY TypeStep, LockStep, CallStep, ImageStep, DuplicatesStep, OwnerStep, ClearedStep,
       DropStep, BoxStep DEF IInv
  <1>3. QED
    BY <1>1, <1>2, PTL DEF Spec

\* Of all images that the creates of one lock key have made, at most one is live:
\* although the lookup reads the list in pages while images come and go, although
\* a PUT can take effect whose answer is lost, and although a process can stop and
\* an entry can go by Retain or come back by import.
THEOREM NoDuplicateImages == Spec => []NoDuplicates
  <1>1. IInv => NoDuplicates
    BY DEF IInv
  <1>2. QED
    BY <1>1, Inductive, PTL

\* Two addresses of one lock key never have, or are about to get, the same live
\* image from their creates, by an answer or by recovery: only an import, which
\* nothing checks, can give an address the image of another one.
THEOREM OneOwner == Spec => []SoleOwner
  <1>1. IInv => SoleOwner
    BY DEF IInv
  <1>2. QED
    BY <1>1, Inductive, PTL

\* A DELETE that is refused because of a sandbox that was neither retained nor lost
\* by its Create has its cause in another address: the own sandbox that Terraform
\* has deleted has been waited for.
THEOREM RefusalsExplained == Spec => []RefusalHasCause
  <1>1. ASSUME IInv PROVE RefusalHasCause
    <2> SUFFICES ASSUME NEW a \in Address, At(a, "delete"), Found(entry[a].id),
                        usedBy[entry[a].id] \notin {"nobody", "retained", "left"}
                 PROVE  \E b \in Address \ {a} : box[b] = entry[a].id
      BY DEF RefusalHasCause
    <2>1. entry[a].id \in ObjectId /\ box[a] = NoImage
      BY <1>1 DEF IInv, CallInv, Found
    <2>0. usedBy[entry[a].id] = "box"
      BY <1>1, <2>1 DEF IInv, TypeOK
    <2>2. PICK b \in Address : box[b] = entry[a].id
      BY <1>1, <2>0, <2>1 DEF IInv, BoxInv
    <2>3. b # a
      BY <2>1, <2>2, ImageAssumption DEF ImageAssumption
    <2>4. QED
      BY <2>2, <2>3
  <1>2. QED
    BY <1>1, Inductive, PTL

\* No step of any handler, and no crash, takes the ID of a live image out of an
\* entry, but for a Retain, or an update in place (which leaves a null ID).
THEOREM ForgetsOnlyWithCause == Spec => NeverForgetsLive
  <1>1. ASSUME IInv, [Next]_vars PROVE ForgetsWithCause
    <2> SUFFICES ASSUME NEW a \in Address, entry[a].id \in ObjectId,
                        entry'[a].id # entry[a].id
                 PROVE  \/ status[entry[a].id] = "gone"
                        \/ entry'[a].id = NoImage /\ entry[a].policy = "Retain"
                        \/ entry'[a].id = NullId /\ entry'[a].policy # entry[a].policy
      BY DEF ForgetsWithCause
    <2>0. TypeOK /\ CallInv /\ ImageInv /\ DropInv /\ NoImage \notin ObjectId
      BY <1>1, ImageAssumption DEF IInv, ImageAssumption
    <2>1. ASSUME NEW b \in Address, Update(b) \/ ReadNotFound(b) \/ ImportState(b)
          PROVE  \/ status[entry[a].id] = "gone"
                 \/ entry'[a].id = NullId /\ entry'[a].policy # entry[a].policy
      <3>1. a = b
        BY <2>0, <2>1, EntrySteps
      <3>2. QED
        BY <2>0, <2>1, <3>1, EntrySteps, ClaimGone
    <2>2. ASSUME NEW b \in Address, Deliver(b)
          PROVE  \/ status[entry[a].id] = "gone"
                 \/ entry'[a].id = NoImage /\ entry[a].policy = "Retain"
      <3>1. a = b
        BY <2>0, <2>2, DeliverEffect
      <3>2. QED
        BY <2>0, <2>2, <3>1, DeliverEffect DEF DropInv
    <2>3. ASSUME NEW b \in Address, Create(b) PROVE entry' = entry
      BY <2>0, <2>3, CreateSteps, FinishEffect DEF CreateFails, WaitEnds
    <2>4. QED
      BY <1>1, <2>0, <2>1, <2>2, <2>3, StepCases, DeleteSteps, BoxSteps, CrashEffect,
         ServiceEffect DEF vars
  <1>2. QED
    BY <1>1, Inductive, PTL DEF Spec, NeverForgetsLive
=============================================================================
