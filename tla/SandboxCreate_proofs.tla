------------------------ MODULE SandboxCreate_proofs ------------------------
(***************************************************************************)
(* Proofs about SandboxCreate for every set of addresses, processes, keys, *)
(* names, fingerprints and object IDs.                                     *)
(***************************************************************************)
EXTENDS SandboxCreate, TLAPS

(* The ways a step can go, once for every invariant below.                 *)
LEMMA StepCases ==
    ASSUME [Next]_vars
    PROVE  \/ UNCHANGED vars
           \/ \E a \in Address :
                 \/ BeginCreate(a) \/ LockCreate(a)
                 \/ Check(a) \/ Put(a) \/ Reply(a) \/ Recover(a) \/ Wait(a)
                 \/ Delete(a) \/ ReadNotFound(a) \/ Deliver(a) \/ Expire(a)
           \/ \E p \in Proc : Crash(p)
           \/ \E i \in ObjectId : ServiceMoves(i) \/ BecomesVisible(i)
  BY DEF Next, Create

-----------------------------------------------------------------------------
(* Type correctness.                                                       *)

\* The end of a handler leaves its variables well typed.
LEMMA FinishType ==
    ASSUME TypeOK, NEW a \in Address, NEW id \in ObjectId \cup {NoId},
           NEW bad \in BOOLEAN, Finish(a, id, bad)
    PROVE  /\ pc' \in [Address -> PC]
           /\ resp' \in [Address -> [id : ObjectId \cup {NoId}, bad : BOOLEAN]]
           /\ got' \in [Address -> ObjectId \cup {NoId}]
           /\ puts' \in [Address -> SUBSET ObjectId]
           /\ mutex' \in [Key -> Address \cup {Free}]
           /\ expired' \in [Address -> BOOLEAN]
           /\ recorded' \in [Address -> ObjectId \cup {NoId}]
           /\ tainted' \in [Address -> BOOLEAN]
  BY DEF TypeOK, Finish, Unlock, terraform, PC

\* The end of a handler that asks nothing of the service keeps TypeOK.
LEMMA FinishKeepsType ==
    ASSUME TypeOK, NEW a \in Address, NEW id \in ObjectId \cup {NoId},
           NEW bad \in BOOLEAN, Finish(a, id, bad), UNCHANGED service
    PROVE  TypeOK'
<1>1. /\ status' \in [ObjectId -> Status]
      /\ maker' \in [ObjectId -> Address \cup {Free}]
      /\ visible' \in [ObjectId -> BOOLEAN]
  BY DEF TypeOK, service
<1>2. QED
  BY <1>1, FinishType DEF TypeOK

\* The initial state is well typed.
LEMMA TypeInit == Init => TypeOK
  BY ConfigAssumption DEF Init, TypeOK, PC, Status, NoResp

\* Every step keeps the state well typed.
LEMMA TypeStep == TypeOK /\ [Next]_vars => TypeOK'
<1> SUFFICES ASSUME TypeOK, [Next]_vars PROVE TypeOK'
  OBVIOUS
<1> USE DEF terraform, call, service
<1>1. CASE UNCHANGED vars
  BY <1>1 DEF vars, TypeOK
<1>2. ASSUME NEW a \in Address, BeginCreate(a) \/ LockCreate(a)
      PROVE  TypeOK'
  <2>1. CASE BeginCreate(a)
    BY <2>1 DEF TypeOK, BeginCreate, PC
  <2>2. CASE LockCreate(a)
    BY <2>2 DEF TypeOK, LockCreate, Goto, PC
  <2> QED
    BY <1>2, <2>1, <2>2
<1>3. ASSUME NEW a \in Address, Check(a)
      PROVE  TypeOK'
  <2>1. CASE CheckPasses(a)
    BY <2>1 DEF TypeOK, CheckPasses, Goto, PC
  <2>2. CASE CreateFails(a)
    BY <2>2, FinishKeepsType DEF CreateFails
  <2> QED
    BY <1>3, <2>1, <2>2 DEF Check, CheckFails, CheckFindsName
<1>4. ASSUME NEW a \in Address, Put(a)
      PROVE  TypeOK'
  <2>1. CASE SendPut(a)
    BY <2>1, ConfigAssumption DEF TypeOK, SendPut, Goto, PC, Status
  <2>2. CASE PutNotSent(a)
    BY <2>2 DEF TypeOK, PutNotSent, Goto, PC
  <2> QED
    BY <1>4, <2>1, <2>2 DEF Put
<1>5. ASSUME NEW a \in Address, Reply(a)
      PROVE  TypeOK'
  <2>1. CASE ReplyHasId(a)
    BY <2>1 DEF TypeOK, ReplyHasId, Goto, PC
  <2>2. CASE CreateFails(a)
    BY <2>2, FinishKeepsType DEF CreateFails
  <2>3. CASE ReplyUnusable(a)
    BY <2>3 DEF TypeOK, ReplyUnusable, Goto, PC
  <2> QED
    BY <1>5, <2>1, <2>2, <2>3 DEF Reply, ReplyRejects
<1>6. ASSUME NEW a \in Address, Recover(a)
      PROVE  TypeOK'
  <2>1. CASE RecoverOne(a)
    BY <2>1 DEF TypeOK, RecoverOne, Goto, PC
  <2>2. CASE CreateFails(a)
    BY <2>2, FinishKeepsType DEF CreateFails
  <2> QED
    BY <1>6, <2>1, <2>2
    DEF Recover, RecoverSeveral, RecoverNone, RecoverListFails
<1>7. ASSUME NEW a \in Address, Wait(a)
      PROVE  TypeOK'
  <2>1. PICK bad \in BOOLEAN : Finish(a, got[a], bad) /\ UNCHANGED service
    BY <1>7 DEF Wait, WaitRunning, WaitTerminal, WaitFails
  <2>2. got[a] \in ObjectId \cup {NoId}
    BY DEF TypeOK
  <2> QED
    BY <2>1, <2>2, FinishKeepsType
<1>8. ASSUME NEW a \in Address, Delete(a)
      PROVE  TypeOK'
  <2>1. recorded[a] \in ObjectId \cup {NoId} /\ tainted[a] \in BOOLEAN
    BY DEF TypeOK
  <2>2. CASE BeginDelete(a)
    BY <2>2 DEF TypeOK, BeginDelete, PC
  <2>3. CASE DeleteRetained(a) \/ DeleteConfirmed(a)
    BY <2>3, FinishKeepsType DEF DeleteRetained, DeleteConfirmed
  <2>4. CASE DeleteAccepted(a)
    <3>1. /\ status' \in [ObjectId -> Status]
          /\ maker' \in [ObjectId -> Address \cup {Free}]
          /\ visible' \in [ObjectId -> BOOLEAN]
      BY <2>4 DEF TypeOK, DeleteAccepted, Status
    <3>2. CASE Goto(a, "deletewait") /\ UNCHANGED <<mutex, puts, got>>
      BY <3>1, <3>2 DEF TypeOK, Goto, PC
    <3>3. CASE KeepEntry(a)
      BY <2>1, <3>1, <3>3, FinishType DEF TypeOK, KeepEntry
    <3> QED
      BY <2>4, <3>2, <3>3 DEF DeleteAccepted
  <2>5. CASE DeleteNotFound(a)
    BY <2>5 DEF TypeOK, DeleteNotFound, Goto, PC
  <2>6. CASE DeleteFails(a)
    BY <2>1, <2>6, FinishKeepsType DEF DeleteFails, KeepEntry
  <2> QED
    BY <1>8, <2>2, <2>3, <2>4, <2>5, <2>6 DEF Delete
<1>9. ASSUME NEW a \in Address, ReadNotFound(a) \/ Deliver(a) \/ Expire(a)
      PROVE  TypeOK'
  <2>1. CASE ReadNotFound(a)
    BY <2>1 DEF TypeOK, ReadNotFound
  <2>2. CASE Deliver(a)
    <3>1. /\ resp[a].id \in ObjectId \cup {NoId}
          /\ (resp[a].id # NoId /\ resp[a].bad) \in BOOLEAN
      BY DEF TypeOK
    <3> QED
      BY <2>2, <3>1 DEF TypeOK, Deliver, PC, NoResp
  <2>3. CASE Expire(a)
    BY <2>3 DEF TypeOK, Expire
  <2> QED
    BY <1>9, <2>1, <2>2, <2>3
<1>10. ASSUME NEW p \in Proc, Crash(p)
       PROVE  TypeOK'
  <2>1. /\ pc' \in [Address -> PC]
        /\ puts' \in [Address -> SUBSET ObjectId]
        /\ got' \in [Address -> ObjectId \cup {NoId}]
        /\ mutex' \in [Key -> Address \cup {Free}]
    BY <1>10 DEF TypeOK, Crash, PC
  <2>2. /\ resp' \in [Address -> [id : ObjectId \cup {NoId}, bad : BOOLEAN]]
        /\ expired' \in [Address -> BOOLEAN]
    BY <1>10 DEF TypeOK, Crash, NoResp
  <2> QED
    BY <1>10, <2>1, <2>2 DEF TypeOK, Crash
<1>11. ASSUME NEW i \in ObjectId, ServiceMoves(i) \/ BecomesVisible(i)
       PROVE  TypeOK'
  <2>1. Moves(status[i]) \subseteq Status
    BY DEF Moves, Status
  <2>2. CASE ServiceMoves(i)
    BY <2>1, <2>2 DEF TypeOK, ServiceMoves
  <2>3. CASE BecomesVisible(i)
    BY <2>3 DEF TypeOK, BecomesVisible
  <2> QED
    BY <1>11, <2>2, <2>3
<1> QED
  BY <1>1, <1>2, <1>3, <1>4, <1>5, <1>6, <1>7, <1>8, <1>9, <1>10, <1>11,
     StepCases

\* Every variable of the handlers, of Terraform and of the service keeps to
\* its type in every reachable state.
THEOREM TypeCorrect == Spec => []TypeOK
  BY TypeInit, TypeStep, PTL DEF Spec

-----------------------------------------------------------------------------
(* The create lock.                                                        *)

\* The call of a moves to another point; no lock changes hands.
PcMoves(a, next) == pc' = [pc EXCEPT ![a] = next] /\ mutex' = mutex

\* The effect of a step on pc and mutex.
LEMMA LockSteps ==
    ASSUME [Next]_vars
    PROVE  \/ pc' = pc /\ mutex' = mutex
           \/ \E a \in Address :
                 \/ LockCreate(a)
                 \/ \E next \in Critical : pc[a] \in Critical /\ PcMoves(a, next)
                 \/ \E next \in PC \ Critical :
                       pc[a] \notin Critical /\ PcMoves(a, next)
                 \/ \E id, bad : Finish(a, id, bad)
           \/ \E p \in Proc : Crash(p)
<1>1. CASE UNCHANGED vars
  BY <1>1 DEF vars
<1>2. ASSUME NEW a \in Address, BeginCreate(a) \/ LockCreate(a)
      PROVE  LockCreate(a) \/ \E next \in PC \ Critical :
                                 pc[a] \notin Critical /\ PcMoves(a, next)
  BY <1>2 DEF BeginCreate, PcMoves, PC, Critical
<1>3. ASSUME NEW a \in Address, Check(a) \/ Put(a) \/ Reply(a) \/ Recover(a)
      PROVE  \/ \E next \in Critical : pc[a] \in Critical /\ PcMoves(a, next)
             \/ \E id, bad : Finish(a, id, bad)
  <2>1. CASE CheckPasses(a)
    BY <2>1 DEF CheckPasses, Goto, PcMoves, Critical
  <2>2. CASE Put(a)
    BY <2>2 DEF Put, SendPut, PutNotSent, Goto, PcMoves, Critical
  <2>3. CASE ReplyHasId(a) \/ ReplyUnusable(a)
    BY <2>3 DEF ReplyHasId, ReplyUnusable, Goto, PcMoves, Critical
  <2>4. CASE RecoverOne(a)
    BY <2>4 DEF RecoverOne, Goto, PcMoves, Critical
  <2>5. CASE CreateFails(a)
    BY <2>5 DEF CreateFails
  <2> QED
    BY <1>3, <2>1, <2>2, <2>3, <2>4, <2>5
    DEF Check, CheckFails, CheckFindsName, Reply, ReplyRejects,
        Recover, RecoverSeveral, RecoverNone, RecoverListFails
<1>4. ASSUME NEW a \in Address, Wait(a)
      PROVE  \E id, bad : Finish(a, id, bad)
  BY <1>4 DEF Wait, WaitRunning, WaitTerminal, WaitFails
<1>5. ASSUME NEW a \in Address, Delete(a)
      PROVE  \/ \E id, bad : Finish(a, id, bad)
             \/ \E next \in PC \ Critical :
                   pc[a] \notin Critical /\ PcMoves(a, next)
  <2>1. CASE BeginDelete(a)
    BY <2>1 DEF BeginDelete, PcMoves, PC, Critical
  <2>2. CASE DeleteNotFound(a)
    BY <2>2 DEF DeleteNotFound, Goto, PcMoves, PC, Critical
  <2>3. CASE DeleteAccepted(a)
    BY <2>3 DEF DeleteAccepted, KeepEntry, Goto, PcMoves, PC, Critical
  <2> QED
    BY <1>5, <2>1, <2>2, <2>3
    DEF Delete, DeleteRetained, DeleteFails, DeleteConfirmed, KeepEntry
<1>6. ASSUME NEW a \in Address, ReadNotFound(a) \/ Expire(a)
      PROVE  pc' = pc /\ mutex' = mutex
  BY <1>6 DEF ReadNotFound, Expire, call
<1>7. ASSUME NEW a \in Address, Deliver(a)
      PROVE  \E next \in PC \ Critical : pc[a] \notin Critical /\ PcMoves(a, next)
  BY <1>7 DEF Deliver, PcMoves, PC, Critical
<1>8. ASSUME NEW i \in ObjectId, ServiceMoves(i) \/ BecomesVisible(i)
      PROVE  pc' = pc /\ mutex' = mutex
  BY <1>8 DEF ServiceMoves, BecomesVisible, call
<1> QED
  BY <1>1, <1>2, <1>3, <1>4, <1>5, <1>6, <1>7, <1>8, StepCases

\* Initially no lock is held and no call is critical.
LEMMA LockInit == Init => LockInv
  BY ConfigAssumption DEF Init, LockInv, Critical

\* Locks and critical calls match after every step.
LEMMA LockStep == TypeOK /\ LockInv /\ [Next]_vars => LockInv'
<1> SUFFICES ASSUME TypeOK, LockInv, [Next]_vars PROVE LockInv'
  OBVIOUS
<1> USE ConfigAssumption DEF ConfigAssumption
<1>1. CASE pc' = pc /\ mutex' = mutex
  BY <1>1 DEF LockInv
<1>2. ASSUME NEW a \in Address, LockCreate(a)
      PROVE  LockInv'
  BY <1>2 DEF LockInv, LockCreate, Goto, TypeOK, PC, Critical
<1>3. ASSUME NEW a \in Address, NEW next \in Critical,
             pc[a] \in Critical, PcMoves(a, next)
      PROVE  LockInv'
  BY <1>3 DEF LockInv, PcMoves, TypeOK
<1>4. ASSUME NEW a \in Address, NEW next \in PC \ Critical,
             pc[a] \notin Critical, PcMoves(a, next)
      PROVE  LockInv'
  BY <1>4 DEF LockInv, PcMoves, TypeOK
<1>5. ASSUME NEW a \in Address, NEW id, NEW bad, Finish(a, id, bad)
      PROVE  LockInv'
  BY <1>5 DEF LockInv, Finish, Unlock, TypeOK, PC, Critical
<1>6. ASSUME NEW p \in Proc, Crash(p)
      PROVE  LockInv'
  BY <1>6 DEF LockInv, Crash, TypeOK, PC, Critical
<1> QED
  BY <1>1, <1>2, <1>3, <1>4, <1>5, <1>6, LockSteps

\* Two critical calls of one key would both hold its lock.
LEMMA Serialized == LockInv => CreatesSerialized
  BY DEF LockInv, CreatesSerialized

\* Two creates of one name in one process are never both between their
\* lookup and the end of their wait.
THEOREM MutualExclusion == Spec => []CreatesSerialized
<1>1. Init => TypeOK /\ LockInv
  BY TypeInit, LockInit
<1>2. TypeOK /\ LockInv /\ [Next]_vars => TypeOK' /\ LockInv'
  BY TypeStep, LockStep
<1> QED
  BY <1>1, <1>2, Serialized, PTL DEF Spec

-----------------------------------------------------------------------------
(* Where a call stands, and what it holds.                                 *)

\* Initially no call has a local variable.
LEMMA CallInit == Init => CallInv
  BY DEF Init, CallInv, NoResp, Critical

\* Ending a handler keeps CallInv if the entry it reports is that of a call.
LEMMA FinishCall ==
    ASSUME TypeOK, CallInv, NEW a \in Address, NEW id, NEW bad,
           Finish(a, id, bad)
    PROVE  CallInv'
  BY DEF CallInv, Finish, TypeOK, PC, Critical, terraform

\* What a call holds matches its place after every step.
LEMMA CallStep == TypeOK /\ CallInv /\ [Next]_vars => CallInv'
<1> SUFFICES ASSUME TypeOK, CallInv, [Next]_vars PROVE CallInv'
  OBVIOUS
<1> USE ConfigAssumption DEF ConfigAssumption
<1>1. CASE UNCHANGED vars
  BY <1>1 DEF vars, CallInv
<1>2. ASSUME NEW a \in Address, BeginCreate(a) \/ LockCreate(a)
      PROVE  CallInv'
  BY <1>2 DEF CallInv, BeginCreate, LockCreate, Goto, TypeOK, PC, Critical,
              terraform
<1>3. ASSUME NEW a \in Address, Check(a) \/ Put(a) \/ Reply(a) \/ Recover(a)
      PROVE  CallInv'
  <2>1. CASE CheckPasses(a) \/ PutNotSent(a) \/ ReplyUnusable(a)
    BY <2>1 DEF CallInv, CheckPasses, PutNotSent, ReplyUnusable, Goto, TypeOK,
                PC, Critical, terraform
  <2>2. CASE SendPut(a)
    <3>1. \A b \in Address : b # a => puts'[b] = puts[b]
      BY <2>2 DEF SendPut, TypeOK
    <3> QED
      BY <2>2, <3>1 DEF CallInv, SendPut, Goto, TypeOK, PC, Critical, terraform
  <2>3. CASE ReplyHasId(a)
    <3>1. PICK i \in ObjectId : got' = [got EXCEPT ![a] = i]
      BY <2>3 DEF ReplyHasId, TypeOK
    <3> QED
      BY <2>3, <3>1 DEF CallInv, ReplyHasId, Goto, TypeOK, PC, Critical, terraform
  <2>4. CASE RecoverOne(a)
    BY <2>4 DEF CallInv, RecoverOne, Goto, TypeOK, PC, Critical, terraform
  <2>5. CASE CreateFails(a)
    BY <2>5, FinishCall DEF CreateFails
  <2> QED
    BY <1>3, <2>1, <2>2, <2>3, <2>4, <2>5
    DEF Check, CheckFails, CheckFindsName, Put, Reply, ReplyRejects,
        Recover, RecoverSeveral, RecoverNone, RecoverListFails
<1>4. ASSUME NEW a \in Address, Wait(a)
      PROVE  CallInv'
  BY <1>4, FinishCall DEF Wait, WaitRunning, WaitTerminal, WaitFails
<1>5. ASSUME NEW a \in Address, Delete(a)
      PROVE  CallInv'
  <2>1. CASE BeginDelete(a)
    BY <2>1 DEF CallInv, BeginDelete, TypeOK, PC, Critical, terraform
  <2>2. CASE Goto(a, "deletewait") /\ UNCHANGED <<puts, got>>
             /\ pc[a] = "delete"
    BY <2>2 DEF CallInv, Goto, TypeOK, PC, Critical, terraform
  <2>3. CASE \E id, bad : Finish(a, id, bad)
    BY <2>3, FinishCall
  <2> QED
    BY <1>5, <2>1, <2>2, <2>3
    DEF Delete, DeleteRetained, DeleteAccepted, DeleteNotFound, DeleteFails,
        DeleteConfirmed, KeepEntry
<1>6. ASSUME NEW a \in Address, ReadNotFound(a) \/ Expire(a)
      PROVE  CallInv'
  BY <1>6 DEF CallInv, ReadNotFound, Expire, TypeOK, Critical, call, terraform
<1>7. ASSUME NEW a \in Address, Deliver(a)
      PROVE  CallInv'
  BY <1>7 DEF CallInv, Deliver, TypeOK, PC, Critical, NoResp
<1>8. ASSUME NEW p \in Proc, Crash(p)
      PROVE  CallInv'
  BY <1>8 DEF CallInv, Crash, TypeOK, PC, Critical, NoResp, terraform
<1>9. ASSUME NEW i \in ObjectId, ServiceMoves(i) \/ BecomesVisible(i)
      PROVE  CallInv'
  BY <1>9 DEF CallInv, ServiceMoves, BecomesVisible, call, terraform
<1> QED
  BY <1>1, <1>2, <1>3, <1>4, <1>5, <1>6, <1>7, <1>8, <1>9, StepCases

-----------------------------------------------------------------------------
(* How a step changes the objects of the service.                          *)

\* What has happened to an object does not unhappen, and only a PUT, or a late
\* commit of one, brings an object into being.
Forward ==
    \A i \in ObjectId :
        /\ status[i] = "free" <=> status'[i] = "free"
        /\ status[i] \notin Live /\ status'[i] \in Live => status[i] = "sent"
        /\ status'[i] = "sent" => status[i] = "sent"
        /\ status[i] = "gone" => status'[i] = "gone"
        /\ status[i] \in {"running", "deleting", "gone"} =>
              status'[i] \in {"running", "deleting", "gone"}
        /\ status[i] \in Live => status'[i] \in Live \cup {"gone"}
        /\ visible[i] => visible'[i]

\* Without a PUT, makers stay and objects only move forward.
LEMMA ServiceSteps ==
    ASSUME TypeOK, [Next]_vars
    PROVE  \/ \E a \in Address : SendPut(a)
           \/ maker' = maker /\ Forward
<1> DEFINE Goal == \/ \E a \in Address : SendPut(a)
                   \/ maker' = maker /\ Forward
<1>1. ASSUME UNCHANGED service PROVE Goal
  BY <1>1 DEF service, Forward, Live
<1>2. ASSUME NEW a \in Address, DeleteAccepted(a)
      PROVE  maker' = maker /\ Forward
  <2>1. /\ recorded[a] \in ObjectId \/ status' = status
        /\ status' = [status EXCEPT ![recorded[a]] = "deleting"]
        /\ status[recorded[a]] \in Live
        /\ maker' = maker /\ visible' = visible
    BY <1>2 DEF DeleteAccepted, Found, TypeOK
  <2> QED
    BY <2>1 DEF Forward, TypeOK, Status, Live
<1>3. ASSUME NEW i \in ObjectId, ServiceMoves(i)
      PROVE  maker' = maker /\ Forward
  <2>1. PICK s \in Moves(status[i]) : status' = [status EXCEPT ![i] = s]
    BY <1>3 DEF ServiceMoves
  <2>2. /\ status[i] \in {"sent", "starting", "running", "failed", "deleting"}
        /\ status[i] = "sent" => s \in {"starting", "rejected"}
        /\ status[i] = "starting" => s \in {"running", "failed", "deleting"}
        /\ status[i] \in {"running", "failed"} => s = "deleting"
        /\ status[i] = "deleting" => s = "gone"
    BY <2>1 DEF Moves, TypeOK, Status
  <2> QED
    BY <1>3, <2>1, <2>2 DEF Forward, ServiceMoves, TypeOK, Live
<1>4. ASSUME NEW i \in ObjectId, BecomesVisible(i)
      PROVE  maker' = maker /\ Forward
  BY <1>4 DEF Forward, BecomesVisible, TypeOK, Live
<1>5. ASSUME NEW a \in Address,
             BeginCreate(a) \/ LockCreate(a) \/ Check(a) \/ PutNotSent(a)
      PROVE  UNCHANGED service
  BY <1>5 DEF BeginCreate, LockCreate, Check, CheckFails, CheckFindsName,
              CheckPasses, CreateFails, PutNotSent, service
<1>6. ASSUME NEW a \in Address, Reply(a) \/ Recover(a) \/ Wait(a)
      PROVE  UNCHANGED service
  BY <1>6 DEF Reply, ReplyHasId, ReplyRejects, ReplyUnusable,
              Recover, RecoverOne, RecoverSeveral, RecoverNone,
              RecoverListFails, Wait, WaitRunning, WaitTerminal, WaitFails,
              CreateFails, service
<1>7. ASSUME NEW a \in Address, Delete(a), ~DeleteAccepted(a)
      PROVE  UNCHANGED service
  BY <1>7 DEF Delete, BeginDelete, DeleteRetained, DeleteNotFound,
              DeleteFails, DeleteConfirmed, service
<1>8. ASSUME NEW a \in Address, ReadNotFound(a) \/ Deliver(a) \/ Expire(a)
      PROVE  UNCHANGED service
  BY <1>8 DEF ReadNotFound, Deliver, Expire, service
<1>9. ASSUME NEW p \in Proc, Crash(p)
      PROVE  UNCHANGED service
  BY <1>9 DEF Crash, service
<1>10. UNCHANGED vars => UNCHANGED service
  BY DEF vars, service
<1>11. ASSUME NEW a \in Address, Delete(a) PROVE Goal
  BY <1>1, <1>2, <1>7, <1>11
<1>12. ASSUME NEW a \in Address, Put(a) PROVE Goal
  BY <1>1, <1>5, <1>12 DEF Put
<1>13. ASSUME NEW i \in ObjectId, ServiceMoves(i) \/ BecomesVisible(i)
       PROVE  Goal
  BY <1>3, <1>4, <1>13
<1> HIDE DEF Goal
<1>14. Goal
  BY <1>1, <1>5, <1>6, <1>8, <1>9, <1>10, <1>11, <1>12, <1>13, StepCases
<1> QED
  BY <1>14 DEF Goal

\* The effect of a PUT on the objects.
LEMMA PutEffect ==
    ASSUME TypeOK, NEW a \in Address, SendPut(a)
    PROVE  \E n \in ObjectId :
              /\ status[n] = "free"
              /\ status'[n] \in {"starting", "rejected", "sent"}
              /\ PromptService => status'[n] # "sent"
              /\ maker'[n] = a
              /\ PromptService => visible'[n]
              /\ puts' = [puts EXCEPT ![a] = @ \cup {n}]
              /\ \A i \in ObjectId \ {n} :
                    /\ status'[i] = status[i]
                    /\ maker'[i] = maker[i]
                    /\ visible'[i] = visible[i]
<1>1. PICK n \in ObjectId,
           s \in IF PromptService THEN {"starting", "rejected"} ELSE {"sent"} :
         /\ status[n] = "free"
         /\ status' = [status EXCEPT ![n] = s]
         /\ maker' = [maker EXCEPT ![n] = a]
         /\ visible' = [visible EXCEPT ![n] = PromptService]
         /\ puts' = [puts EXCEPT ![a] = @ \cup {n}]
  BY DEF SendPut
<1>2. /\ s \in {"starting", "rejected", "sent"}
      /\ PromptService => s # "sent"
  OBVIOUS
<1>3. /\ status'[n] = s
      /\ maker'[n] = a
      /\ \A i \in ObjectId \ {n} : status'[i] = status[i] /\ maker'[i] = maker[i]
  BY <1>1 DEF TypeOK
<1>4. /\ PromptService => visible'[n]
      /\ \A i \in ObjectId \ {n} : visible'[i] = visible[i]
  BY <1>1 DEF TypeOK
<1> QED
  BY <1>1, <1>2, <1>3, <1>4

-----------------------------------------------------------------------------
(* How a step changes what an address claims.                              *)

\* An address gains an ID only from the answer to its PUT or from recovery.
Gains(a, i) ==
    \/ ReplyHasId(a) /\ i \in puts[a] /\ status[i] \in Live \cup {"gone"}
    \/ RecoverOne(a) /\ i \in Matches(a)

\* A handler that ends with an ID it had adds no claim.
LEMMA FinishClaims ==
    ASSUME TypeOK, NEW a \in Address, NEW id, NEW bad, Finish(a, id, bad),
           id \in Claims(a) \cup {NoId}
    PROVE  \A b \in Address : Claims(b)' \subseteq Claims(b)
  BY DEF Finish, Claims, TypeOK, terraform

\* A step adds a claim only where an answer or recovery gives an ID.
LEMMA ClaimSteps ==
    ASSUME TypeOK, CallInv, [Next]_vars
    PROVE  \A b \in Address : \A i \in Claims(b)' : i \in Claims(b) \/ Gains(b, i)
<1> DEFINE Goal == \A b \in Address : \A i \in Claims(b)' :
                      i \in Claims(b) \/ Gains(b, i)
           Same == recorded' = recorded /\ got' = got /\ resp' = resp
<1>1. ASSUME Same PROVE Goal
  BY <1>1 DEF Claims
<1>2. UNCHANGED vars => Same
  BY DEF vars
<1>3. ASSUME NEW a \in Address,
             BeginCreate(a) \/ LockCreate(a) \/ Put(a) \/ Expire(a)
      PROVE  Same
  BY <1>3 DEF BeginCreate, LockCreate, Put, SendPut, PutNotSent, Expire, Goto,
              terraform
<1>4. ASSUME NEW a \in Address, CreateFails(a) PROVE Goal
  BY <1>4, FinishClaims DEF CreateFails
<1>5. ASSUME NEW a \in Address, Check(a) PROVE Goal
  <2>1. CheckPasses(a) => Same
    BY DEF CheckPasses, Goto, terraform
  <2> QED
    BY <1>1, <1>4, <1>5, <2>1 DEF Check, CheckFails, CheckFindsName
<1>6. ASSUME NEW a \in Address, Reply(a) PROVE Goal
  <2>1. ReplyUnusable(a) => Same
    BY DEF ReplyUnusable, Goto, terraform
  <2>2. CASE ReplyHasId(a)
    <3>1. PICK i \in puts[a] : /\ status[i] \in Live \cup {"gone"}
                               /\ got' = [got EXCEPT ![a] = i]
      BY <2>2 DEF ReplyHasId
    <3>2. recorded' = recorded /\ resp' = resp
      BY <2>2 DEF ReplyHasId, Goto, terraform
    <3> QED
      BY <2>2, <3>1, <3>2 DEF Claims, Gains, TypeOK
  <2> QED
    BY <1>1, <1>4, <1>6, <2>1, <2>2 DEF Reply, ReplyRejects
<1>7. ASSUME NEW a \in Address, Recover(a) PROVE Goal
  <2>1. CASE RecoverOne(a)
    <3>1. PICK i \in ObjectId : /\ Matches(a) = {i}
                                /\ got' = [got EXCEPT ![a] = i]
      BY <2>1 DEF RecoverOne
    <3>2. recorded' = recorded /\ resp' = resp
      BY <2>1 DEF RecoverOne, Goto, terraform
    <3>3. i \in Matches(a)
      BY <3>1
    <3> HIDE DEF Matches
    <3> QED
      BY <2>1, <3>1, <3>2, <3>3 DEF Claims, Gains, TypeOK
  <2> QED
    BY <1>4, <1>7, <2>1
    DEF Recover, RecoverSeveral, RecoverNone, RecoverListFails
<1>8. ASSUME NEW a \in Address, Wait(a) PROVE Goal
  <2>1. got[a] \in Claims(a) \cup {NoId}
    BY DEF Claims
  <2>2. \E bad : Finish(a, got[a], bad)
    BY <1>8 DEF Wait, WaitRunning, WaitTerminal, WaitFails
  <2> QED
    BY <2>1, <2>2, FinishClaims
<1>9. ASSUME NEW a \in Address, Delete(a) PROVE Goal
  <2>1. recorded[a] \in Claims(a) \cup {NoId}
    BY DEF Claims
  <2>2. CASE \E id \in {NoId, recorded[a]} : \E bad : Finish(a, id, bad)
    BY <2>1, <2>2, FinishClaims
  <2>3. CASE Same
    BY <1>1, <2>3
  <2> QED
    BY <1>9, <2>2, <2>3
    DEF Delete, BeginDelete, DeleteRetained, DeleteAccepted, DeleteNotFound,
        DeleteFails, DeleteConfirmed, KeepEntry, Goto, terraform
<1>10. ASSUME NEW a \in Address, ReadNotFound(a) \/ Deliver(a) PROVE Goal
  BY <1>10 DEF ReadNotFound, Deliver, Claims, TypeOK, call, NoResp
<1>11. ASSUME NEW p \in Proc, Crash(p) PROVE Goal
  BY <1>11 DEF Crash, Claims, TypeOK, NoResp, terraform
<1>12. ASSUME NEW i \in ObjectId, ServiceMoves(i) \/ BecomesVisible(i)
       PROVE  Same
  BY <1>12 DEF ServiceMoves, BecomesVisible, call, terraform
<1> HIDE DEF Goal, Same
<1>13. Goal
  BY <1>1, <1>2, <1>3, <1>5, <1>6, <1>7, <1>8, <1>9, <1>10, <1>11, <1>12,
     StepCases
<1> QED
  BY <1>13 DEF Goal

-----------------------------------------------------------------------------
(* The objects of calls and entries.                                       *)

\* Initially nothing was asked for.
LEMMA MakerInit == Init => MakerInv /\ PromptInv
  BY DEF Init, MakerInv, PromptInv, Live

\* Only SendPut makes a call answer for another object.
LEMMA PutsSteps ==
    ASSUME TypeOK, [Next]_vars
    PROVE  \/ \E a \in Address : SendPut(a)
           \/ \A a \in Address : puts'[a] \subseteq puts[a]
<1> DEFINE Goal == \/ \E a \in Address : SendPut(a)
                   \/ \A a \in Address : puts'[a] \subseteq puts[a]
<1>1. ASSUME puts' = puts PROVE Goal
  BY <1>1
<1>2. ASSUME NEW a \in Address, NEW id, NEW bad, Finish(a, id, bad) PROVE Goal
  BY <1>2 DEF Finish, TypeOK
<1>3. ASSUME NEW a \in Address, Check(a) \/ Put(a) \/ Reply(a) PROVE Goal
  BY <1>1, <1>2, <1>3
  DEF Check, CheckFails, CheckFindsName, CheckPasses, CreateFails, Put,
      PutNotSent, Reply, ReplyHasId, ReplyRejects, ReplyUnusable
<1>4. ASSUME NEW a \in Address, Recover(a) \/ Wait(a) PROVE Goal
  BY <1>1, <1>2, <1>4
  DEF Recover, RecoverOne, RecoverSeveral, RecoverNone, RecoverListFails,
      CreateFails, Wait, WaitRunning, WaitTerminal, WaitFails
<1>5. ASSUME NEW a \in Address, Delete(a) PROVE Goal
  BY <1>1, <1>2, <1>5
  DEF Delete, BeginDelete, DeleteRetained, DeleteAccepted, DeleteNotFound,
      DeleteFails, DeleteConfirmed, KeepEntry
<1>6. ASSUME NEW p \in Proc, Crash(p) PROVE Goal
  BY <1>6 DEF Crash, TypeOK
<1>7. ASSUME NEW a \in Address,
             \/ BeginCreate(a) \/ LockCreate(a)
             \/ ReadNotFound(a) \/ Deliver(a) \/ Expire(a)
      PROVE  puts' = puts
  BY <1>7 DEF BeginCreate, LockCreate, ReadNotFound, Deliver, Expire, call
<1>8. ASSUME NEW i \in ObjectId, ServiceMoves(i) \/ BecomesVisible(i)
      PROVE  puts' = puts
  BY <1>8 DEF ServiceMoves, BecomesVisible, call
<1>9. UNCHANGED vars => puts' = puts
  BY DEF vars
<1> HIDE DEF Goal
<1>10. Goal
  BY <1>1, <1>3, <1>4, <1>5, <1>6, <1>7, <1>8, <1>9, StepCases
<1> QED
  BY <1>10 DEF Goal

\* A call stays the maker of the one object it asked for, and a prompt service
\* lists what it has.
LEMMA MakerStep ==
    TypeOK /\ CallInv /\ MakerInv /\ PromptInv /\ [Next]_vars
        => MakerInv' /\ PromptInv'
<1> SUFFICES ASSUME TypeOK, CallInv, MakerInv, PromptInv, [Next]_vars
             PROVE  MakerInv' /\ PromptInv'
  OBVIOUS
<1>1. CASE \E a \in Address : SendPut(a)
  <2>1. PICK a \in Address : SendPut(a)
    BY <1>1
  <2>2. puts[a] = {}
    BY <2>1 DEF SendPut, CallInv
  <2>3. PICK n \in ObjectId :
           /\ status[n] = "free"
           /\ status'[n] \in {"starting", "rejected", "sent"}
           /\ PromptService => status'[n] # "sent"
           /\ maker'[n] = a
           /\ PromptService => visible'[n]
           /\ puts' = [puts EXCEPT ![a] = @ \cup {n}]
           /\ \A i \in ObjectId \ {n} :
                 /\ status'[i] = status[i]
                 /\ maker'[i] = maker[i]
                 /\ visible'[i] = visible[i]
    BY <2>1, PutEffect
  <2>4. MakerInv'
    <3>1. \A i \in ObjectId : status'[i] # "free" => maker'[i] \in Address
      BY <2>3 DEF MakerInv
    <3>2. puts'[a] = {n} /\ \A b \in Address \ {a} : puts'[b] = puts[b]
      BY <2>2, <2>3 DEF TypeOK
    <3>3. \A b \in Address : \A i \in puts[b] : i \in ObjectId \ {n}
      BY <2>3 DEF MakerInv, TypeOK
    <3>4. \A b \in Address : \A i \in puts'[b] :
             maker'[i] = b /\ status'[i] # "free" /\ \A j \in puts'[b] : i = j
      BY <2>3, <3>2, <3>3 DEF MakerInv
    <3> QED
      BY <3>1, <3>4 DEF MakerInv
  <2>5. PromptInv'
    BY <2>3 DEF PromptInv, Live
  <2> QED
    BY <2>4, <2>5
<1>2. CASE ~\E a \in Address : SendPut(a)
  <2>1. maker' = maker /\ Forward
    BY <1>2, ServiceSteps
  <2>2. \A a \in Address : puts'[a] \subseteq puts[a]
    BY <1>2, PutsSteps
  <2>3. MakerInv'
    BY <2>1, <2>2 DEF MakerInv, Forward, TypeOK
  <2>4. PromptInv'
    BY <2>1 DEF PromptInv, Forward
  <2> QED
    BY <2>3, <2>4
<1> QED
  BY <1>1, <1>2

\* Initially there is no claim.
LEMMA ClaimsInit == Init => ClaimsMatch
  BY DEF Init, ClaimsMatch, Claims, NoResp

\* Claims are IDs of objects.
LEMMA ClaimsType ==
    ASSUME TypeOK PROVE \A a \in Address : Claims(a) \subseteq ObjectId
  BY DEF TypeOK, Claims

\* A new claim is of an object with the right name and fingerprint, and such an
\* object keeps them.
LEMMA ClaimsStep ==
    TypeOK /\ CallInv /\ MakerInv /\ ClaimsMatch /\ [Next]_vars => ClaimsMatch'
<1> SUFFICES ASSUME TypeOK, CallInv, MakerInv, ClaimsMatch, [Next]_vars,
                    NEW a \in Address, NEW i \in Claims(a)'
             PROVE  /\ status'[i] \in Live \cup {"gone"}
                    /\ NameOf[maker'[i]] = NameOf[a]
                    /\ FingerprintOf[maker'[i]] = FingerprintOf[a]
  BY DEF ClaimsMatch
<1>1. i \in Claims(a) \/ Gains(a, i)
  BY ClaimSteps
<1>2. /\ i \in ObjectId
      /\ status[i] \in Live \cup {"gone"}
      /\ NameOf[maker[i]] = NameOf[a]
      /\ FingerprintOf[maker[i]] = FingerprintOf[a]
  <2>1. CASE i \in Claims(a)
    BY <2>1, ClaimsType DEF ClaimsMatch
  <2>2. CASE ReplyHasId(a) /\ i \in puts[a] /\ status[i] \in Live \cup {"gone"}
    <3>1. maker[i] = a /\ i \in ObjectId
      BY <2>2 DEF MakerInv, TypeOK
    <3> QED
      BY <2>2, <3>1
  <2>3. CASE RecoverOne(a) /\ i \in Matches(a)
    BY <2>3 DEF Matches, Named, Found
  <2> QED
    BY <1>1, <2>1, <2>2, <2>3 DEF Gains
<1>3. CASE \E b \in Address : SendPut(b)
  BY <1>2, <1>3, PutEffect DEF Live
<1>4. CASE maker' = maker /\ Forward
  BY <1>2, <1>4 DEF Forward
<1> QED
  BY <1>3, <1>4, ServiceSteps

\* Whatever the service does, an address only ever holds IDs of objects made
\* for its name and fingerprint.
THEOREM IdsMatchConfiguration == Spec => []ClaimsMatch
<1> DEFINE I == TypeOK /\ CallInv /\ MakerInv /\ PromptInv /\ ClaimsMatch
<1>1. Init => I
  BY TypeInit, CallInit, MakerInit, ClaimsInit
<1>2. I /\ [Next]_vars => I'
  BY TypeStep, CallStep, MakerStep, ClaimsStep
<1>3. I => ClaimsMatch
  OBVIOUS
<1> QED
  BY <1>1, <1>2, <1>3, PTL DEF Spec

-----------------------------------------------------------------------------
(* With a prompt service: one object per key, one owner per object.        *)

\* How a call gets past its lookup and how it gets its ID.
LEMMA PcSteps ==
    ASSUME TypeOK, [Next]_vars, NEW a \in Address
    PROVE  /\ pc'[a] = "put" => pc[a] = "put" \/ CheckPasses(a)
           /\ pc'[a] \in {"put", "reply", "recover"} =>
                 pc[a] \in {"put", "reply", "recover"} \/ CheckPasses(a)
           /\ pc'[a] = "wait" =>
                 \/ /\ pc[a] = "wait"
                    /\ got'[a] = got[a]
                    /\ puts'[a] = puts[a]
                 \/ ReplyHasId(a) \/ RecoverOne(a)
<1> DEFINE Same == pc'[a] = pc[a] /\ got'[a] = got[a] /\ puts'[a] = puts[a]
           Away == pc'[a] \notin {"put", "reply", "recover", "wait"}
           On   == /\ pc[a] \in {"put", "reply"}
                   /\ pc'[a] \in {"reply", "recover"}
           Goal == Same \/ Away \/ On \/ CheckPasses(a) \/ ReplyHasId(a)
                      \/ RecoverOne(a)
<1>1. UNCHANGED vars => Same
  BY DEF vars
<1>2. ASSUME NEW b \in Address, BeginCreate(b) \/ LockCreate(b) \/ Deliver(b)
      PROVE  Goal
  BY <1>2 DEF BeginCreate, LockCreate, Deliver, Goto, TypeOK
<1>3. ASSUME NEW b \in Address, NEW id, NEW bad, Finish(b, id, bad) PROVE Goal
  BY <1>3 DEF Finish, TypeOK
<1>4. ASSUME NEW b \in Address, Check(b) PROVE Goal
  <2>1. CheckPasses(b) => Goal
    BY DEF CheckPasses, Goto, TypeOK
  <2> QED
    BY <1>3, <1>4, <2>1 DEF Check, CheckFails, CheckFindsName, CreateFails
<1>5. ASSUME NEW b \in Address, Put(b) PROVE Goal
  BY <1>5 DEF Put, SendPut, PutNotSent, Goto, TypeOK
<1>6. ASSUME NEW b \in Address, Reply(b) PROVE Goal
  <2>1. ReplyUnusable(b) \/ ReplyHasId(b) => Goal
    BY DEF ReplyUnusable, ReplyHasId, Goto, TypeOK
  <2> QED
    BY <1>3, <1>6, <2>1 DEF Reply, ReplyRejects, CreateFails
<1>7. ASSUME NEW b \in Address, Recover(b) PROVE Goal
  <2>1. RecoverOne(b) => Goal
    BY DEF RecoverOne, Goto, TypeOK
  <2> QED
    BY <1>3, <1>7, <2>1 DEF Recover, RecoverSeveral, RecoverNone,
                            RecoverListFails, CreateFails
<1>8. ASSUME NEW b \in Address, Wait(b) PROVE Goal
  BY <1>3, <1>8 DEF Wait, WaitRunning, WaitTerminal, WaitFails
<1>9. ASSUME NEW b \in Address, Delete(b) PROVE Goal
  <2>1. CASE BeginDelete(b)
    BY <2>1 DEF BeginDelete, TypeOK
  <2>2. CASE Goto(b, "deletewait") /\ UNCHANGED <<mutex, puts, got>>
    BY <2>2 DEF Goto, TypeOK
  <2> QED
    BY <1>3, <1>9, <2>1, <2>2
    DEF Delete, DeleteRetained, DeleteAccepted, DeleteNotFound, DeleteFails,
        DeleteConfirmed, KeepEntry
<1>10. ASSUME NEW b \in Address, ReadNotFound(b) \/ Expire(b) PROVE Same
  BY <1>10 DEF ReadNotFound, Expire, call
<1>11. ASSUME NEW p \in Proc, Crash(p) PROVE Goal
  <2>1. CASE ProcOf[a] = p
    BY <1>11, <2>1 DEF Crash, TypeOK
  <2>2. CASE ProcOf[a] # p
    BY <1>11, <2>2 DEF Crash, TypeOK
  <2> QED
    BY <2>1, <2>2
<1>12. ASSUME NEW i \in ObjectId, ServiceMoves(i) \/ BecomesVisible(i)
       PROVE  Same
  BY <1>12 DEF ServiceMoves, BecomesVisible, call
<1>13. Goal
  <2> HIDE DEF Same, Away, On
  <2> QED
    BY <1>1, <1>2, <1>4, <1>5, <1>6, <1>7, <1>8, <1>9, <1>10, <1>11, <1>12,
       StepCases
<1>14. ReplyHasId(a) \/ RecoverOne(a) => pc'[a] = "wait"
  BY DEF ReplyHasId, RecoverOne, Goto, TypeOK
<1>15. CheckPasses(a) => pc'[a] = "put"
  BY DEF CheckPasses, Goto, TypeOK
<1>16. CASE Same
  BY <1>16
<1>17. CASE Away
  BY <1>17
<1>18. CASE On
  BY <1>18
<1>19. CASE ReplyHasId(a) \/ RecoverOne(a)
  BY <1>14, <1>19
<1>20. CASE CheckPasses(a)
  BY <1>15, <1>20
<1> HIDE DEF Same, Away, On
<1> QED
  BY <1>13, <1>16, <1>17, <1>18, <1>19, <1>20

\* With a prompt service nothing comes into being but by a PUT.
LEMMA LiveSteps ==
    ASSUME TypeOK, PromptInv, PromptService, [Next]_vars
    PROVE  \/ \A i \in ObjectId : status'[i] \in Live =>
                 status[i] \in Live /\ maker'[i] = maker[i]
           \/ \E a \in Address, n \in ObjectId :
                 /\ SendPut(a)
                 /\ status[n] = "free"
                 /\ maker'[n] = a
                 /\ \A i \in ObjectId \ {n} : status'[i] \in Live =>
                       status[i] \in Live /\ maker'[i] = maker[i]
<1>1. CASE maker' = maker /\ Forward
  BY <1>1 DEF Forward, PromptInv
<1>2. ASSUME NEW a \in Address, SendPut(a)
      PROVE  \E n \in ObjectId :
                /\ status[n] = "free"
                /\ maker'[n] = a
                /\ \A i \in ObjectId \ {n} : status'[i] \in Live =>
                      status[i] \in Live /\ maker'[i] = maker[i]
  BY <1>2, PutEffect
<1> QED
  BY <1>1, <1>2, ServiceSteps

\* A removed object stays removed.
LEMMA GoneSteps ==
    ASSUME TypeOK, [Next]_vars, NEW i \in ObjectId, status[i] = "gone"
    PROVE  status'[i] = "gone"
<1>1. CASE maker' = maker /\ Forward
  BY <1>1 DEF Forward
<1>2. CASE \E a \in Address : SendPut(a)
  BY <1>2, PutEffect
<1> QED
  BY <1>1, <1>2, ServiceSteps

\* A PUT comes after a lookup that still holds, so it adds no duplicate.
LEMMA DuplicatesStep ==
    TypeOK /\ PromptInv /\ Cleared /\ NoDuplicates /\ [Next]_vars
        => NoDuplicates'
<1> SUFFICES ASSUME TypeOK, PromptInv, Cleared, NoDuplicates, [Next]_vars,
                    PromptService, NEW i \in ObjectId, NEW j \in ObjectId,
                    status'[i] \in Live, status'[j] \in Live,
                    KeyOf[maker'[i]] = KeyOf[maker'[j]]
             PROVE  i = j
  BY DEF NoDuplicates
<1>1. CASE \A o \in ObjectId : status'[o] \in Live =>
              status[o] \in Live /\ maker'[o] = maker[o]
  BY <1>1 DEF NoDuplicates
<1>2. ASSUME NEW a \in Address, NEW n \in ObjectId,
             SendPut(a),
             maker'[n] = a,
             \A o \in ObjectId \ {n} : status'[o] \in Live =>
                status[o] \in Live /\ maker'[o] = maker[o]
      PROVE  i = j
  <2>1. \A o \in ObjectId : status[o] \in Live => KeyOf[maker[o]] # KeyOf[a]
    BY <1>2 DEF SendPut, Cleared
  <2> QED
    BY <1>2, <2>1 DEF NoDuplicates
<1> QED
  BY <1>1, <1>2, LiveSteps

\* Only a call between its PUT and its wait gains an ID.
LEMMA GainsPc ==
    ASSUME NEW a \in Address, NEW i, Gains(a, i)
    PROVE  pc[a] \in {"reply", "recover"}
  BY DEF Gains, ReplyHasId, RecoverOne

\* What a lookup has found stays true while the call holds its lock.
LEMMA ClearedStep ==
    TypeOK /\ CreatesSerialized /\ CallInv /\ MakerInv /\ PromptInv
        /\ ClaimsMatch /\ Cleared /\ [Next]_vars => Cleared'
<1> SUFFICES ASSUME TypeOK, CreatesSerialized, CallInv, MakerInv, PromptInv,
                    ClaimsMatch, Cleared, [Next]_vars, PromptService,
                    NEW a \in Address
             PROVE  /\ pc'[a] = "put" =>
                         \A i \in ObjectId : status'[i] \in Live =>
                             KeyOf[maker'[i]] # KeyOf[a]
                    /\ pc'[a] \in {"put", "reply", "recover"} =>
                         \A b \in Address : b # a /\ KeyOf[b] = KeyOf[a] =>
                             \A i \in Claims(b)' : status'[i] \notin Live
  BY DEF Cleared
<1>1. ASSUME CheckPasses(a)
      PROVE  /\ status' = status /\ maker' = maker
             /\ \A i \in ObjectId : status[i] \in Live =>
                   NameOf[maker[i]] # NameOf[a] /\ KeyOf[maker[i]] # KeyOf[a]
  <2>1. UNCHANGED service /\ Named(a) = {}
    BY <1>1 DEF CheckPasses
  <2>2. \A i \in ObjectId : status[i] \in Live => NameOf[maker[i]] # NameOf[a]
    BY <2>1 DEF Named, Found, PromptInv
  <2>3. \A i \in ObjectId : status[i] \in Live => maker[i] \in Address
    BY DEF MakerInv, Live
  <2> QED
    BY <2>1, <2>2, <2>3, ConfigAssumption DEF ConfigAssumption, service
<1>2. ASSUME pc'[a] = "put", NEW i \in ObjectId, status'[i] \in Live
      PROVE  KeyOf[maker'[i]] # KeyOf[a]
  <2>1. CASE CheckPasses(a)
    BY <1>1, <1>2, <2>1
  <2>2. CASE pc[a] = "put"
    <3>1. \A o \in ObjectId : status[o] \in Live => KeyOf[maker[o]] # KeyOf[a]
      BY <2>2 DEF Cleared
    <3>2. CASE \A o \in ObjectId : status'[o] \in Live =>
                  status[o] \in Live /\ maker'[o] = maker[o]
      BY <1>2, <3>1, <3>2
    <3>3. ASSUME NEW c \in Address, NEW n \in ObjectId,
                 SendPut(c),
                 maker'[n] = c,
                 \A o \in ObjectId \ {n} : status'[o] \in Live =>
                    status[o] \in Live /\ maker'[o] = maker[o]
          PROVE  KeyOf[maker'[i]] # KeyOf[a]
      <4>1. pc[c] = "put" /\ pc'[c] = "reply"
        BY <3>3 DEF SendPut, Goto, TypeOK
      <4>2. KeyOf[c] # KeyOf[a]
        BY <1>2, <2>2, <4>1 DEF CreatesSerialized, Critical
      <4> QED
        BY <1>2, <3>1, <3>3, <4>2
    <3> QED
      BY <3>2, <3>3, LiveSteps
  <2> QED
    BY <1>2, <2>1, <2>2, PcSteps
<1>3. ASSUME pc'[a] \in {"put", "reply", "recover"},
             NEW b \in Address, b # a, KeyOf[b] = KeyOf[a],
             NEW i \in Claims(b)'
      PROVE  status'[i] \notin Live
  <2>1. pc[a] \in {"put", "reply", "recover"} \/ CheckPasses(a)
    BY <1>3, PcSteps
  <2>2. pc[a] \in Critical
    BY <2>1 DEF CheckPasses, Critical
  <2>3. ~Gains(b, i)
    BY <1>3, <2>2, GainsPc DEF CreatesSerialized, Critical
  <2>4. i \in Claims(b) /\ i \in ObjectId
    BY <2>3, ClaimSteps, ClaimsType
  <2>5. status[i] \in Live \cup {"gone"} /\ NameOf[maker[i]] = NameOf[b]
    BY <2>4 DEF ClaimsMatch
  <2>6. CASE CheckPasses(a)
    BY <1>1, <1>3, <2>4, <2>5, <2>6, ConfigAssumption DEF ConfigAssumption
  <2>7. CASE pc[a] \in {"put", "reply", "recover"}
    <3>1. status[i] = "gone"
      BY <1>3, <2>4, <2>5, <2>7 DEF Cleared
    <3> QED
      BY <2>4, <3>1, GoneSteps DEF Live
  <2> QED
    BY <2>1, <2>6, <2>7
<1> QED
  BY <1>2, <1>3

\* A claim that is gained is of an object that nobody of the key has claimed.
LEMMA SoleOwnerStep ==
    TypeOK /\ CreatesSerialized /\ CallInv /\ ClaimsMatch /\ Cleared
        /\ SoleOwner /\ [Next]_vars => SoleOwner'
<1> SUFFICES ASSUME TypeOK, CreatesSerialized, CallInv, ClaimsMatch, Cleared,
                    SoleOwner, [Next]_vars, PromptService,
                    NEW a \in Address, NEW b \in Address, a # b,
                    KeyOf[a] = KeyOf[b],
                    NEW i, i \in Claims(a)', i \in Claims(b)'
             PROVE  status'[i] \notin Live
  BY DEF SoleOwner
<1>1. /\ i \in Claims(a) \/ Gains(a, i)
      /\ i \in Claims(b) \/ Gains(b, i)
  BY ClaimSteps
<1>2. ~(Gains(a, i) /\ Gains(b, i))
  BY GainsPc DEF CreatesSerialized, Critical
<1>3. CASE i \in Claims(a) /\ i \in Claims(b)
  <2>1. status[i] = "gone" /\ i \in ObjectId
    BY <1>3, ClaimsType DEF SoleOwner, ClaimsMatch
  <2> QED
    BY <2>1, GoneSteps DEF Live
<1>4. CASE Gains(a, i) /\ i \in Claims(b)
  <2>1. status[i] = "gone" /\ i \in ObjectId
    BY <1>4, GainsPc, ClaimsType DEF Cleared, ClaimsMatch
  <2> QED
    BY <2>1, GoneSteps DEF Live
<1>5. CASE Gains(b, i) /\ i \in Claims(a)
  <2>1. status[i] = "gone" /\ i \in ObjectId
    BY <1>5, GainsPc, ClaimsType DEF Cleared, ClaimsMatch
  <2> QED
    BY <2>1, GoneSteps DEF Live
<1> QED
  BY <1>1, <1>2, <1>3, <1>4, <1>5

\* The ID that a call settles on is that of the object it asked for.
LEMMA KeepsStep ==
    TypeOK /\ MakerInv /\ PromptInv /\ KeepsOwnPut /\ [Next]_vars => KeepsOwnPut'
<1> SUFFICES ASSUME TypeOK, MakerInv, PromptInv, KeepsOwnPut, [Next]_vars,
                    PromptService, NEW a \in Address, pc'[a] = "wait",
                    NEW i \in puts'[a], status'[i] \in Live
             PROVE  got'[a] = i
  BY DEF KeepsOwnPut
<1>1. CASE pc[a] = "wait" /\ got'[a] = got[a] /\ puts'[a] = puts[a]
  <2>1. i \in puts[a] /\ i \in ObjectId /\ status[i] # "free"
    BY <1>1 DEF MakerInv, TypeOK
  <2>2. status[i] \in Live
    BY <2>1, LiveSteps
  <2> QED
    BY <1>1, <2>1, <2>2 DEF KeepsOwnPut
<1>2. CASE ReplyHasId(a)
  <2>1. PICK j \in puts[a] : got' = [got EXCEPT ![a] = j]
    BY <1>2 DEF ReplyHasId
  <2>2. puts' = puts
    BY <1>2 DEF ReplyHasId
  <2> QED
    BY <2>1, <2>2 DEF MakerInv, TypeOK
<1>3. CASE RecoverOne(a)
  <2>1. PICK j \in ObjectId : Matches(a) = {j} /\ got' = [got EXCEPT ![a] = j]
    BY <1>3 DEF RecoverOne
  <2>2. puts' = puts /\ UNCHANGED service
    BY <1>3 DEF RecoverOne
  <2>3. i \in ObjectId /\ maker[i] = a /\ status[i] \in Live /\ visible[i]
    BY <2>2 DEF MakerInv, PromptInv, TypeOK, service
  <2>4. i \in Matches(a)
    BY <2>3 DEF Matches, Named, Found
  <2> QED
    BY <2>1, <2>4 DEF TypeOK
<1> QED
  BY <1>1, <1>2, <1>3, PcSteps

\* What the properties of a prompt service rest on.
UniqueInv ==
    /\ TypeOK /\ LockInv /\ CallInv /\ MakerInv /\ PromptInv
    /\ ClaimsMatch /\ Cleared /\ NoDuplicates /\ SoleOwner /\ KeepsOwnPut

\* The invariants about uniqueness hold initially.
LEMMA UniqueInit == Init => UniqueInv
<1>1. Init => Cleared /\ NoDuplicates /\ SoleOwner /\ KeepsOwnPut
  BY DEF Init, Cleared, NoDuplicates, SoleOwner, KeepsOwnPut, Claims, Live,
         NoResp
<1> QED
  BY <1>1, TypeInit, LockInit, CallInit, MakerInit, ClaimsInit DEF UniqueInv

\* They support each other over every step.
LEMMA UniqueStep == UniqueInv /\ [Next]_vars => UniqueInv'
  BY TypeStep, LockStep, Serialized, CallStep, MakerStep, ClaimsStep,
     ClearedStep, DuplicatesStep, SoleOwnerStep, KeepsStep DEF UniqueInv

\* They hold in every reachable state.
LEMMA UniqueAlways == Spec => []UniqueInv
  BY UniqueInit, UniqueStep, PTL DEF Spec

\* With a prompt service one process never makes two objects of one name.
THEOREM AtMostOneObject == Spec => []NoDuplicates
<1>1. UniqueInv => NoDuplicates
  BY DEF UniqueInv
<1> QED
  BY <1>1, UniqueAlways, PTL

\* With a prompt service no object has two owners among addresses that share
\* a create lock.
THEOREM OneOwner == Spec => []SoleOwner
<1>1. UniqueInv => SoleOwner
  BY DEF UniqueInv
<1> QED
  BY <1>1, UniqueAlways, PTL

\* With a prompt service a Create that settles on an ID leaves no object of
\* its own PUT behind.
THEOREM NothingLeftBehind == Spec => []KeepsOwnPut
<1>1. UniqueInv => KeepsOwnPut
  BY DEF UniqueInv
<1> QED
  BY <1>1, UniqueAlways, PTL

-----------------------------------------------------------------------------
(* What finished calls hand over to Terraform.                             *)

\* How a handler ends, by what it reports.
Ends(a) ==
    /\ pc'[a] = "return"
    /\ recorded'[a] = recorded[a]
    /\ \/ recorded[a] = NoId /\ resp'[a].id = NoId
       \/ recorded[a] = NoId /\ resp'[a].bad = TRUE
       \/ got[a] # NoId /\ status[got[a]] = "running" /\ resp'[a].id = got[a]
       \/ resp'[a].id = recorded[a] /\ resp'[a].bad = tainted[a]
       \/ resp'[a].id = NoId /\ a \in Retain
       \/ /\ resp'[a].id = NoId
          /\ ~(status[recorded[a]] \in Live /\ visible[recorded[a]])

\* What the end of a handler does to its outcome and to the others.
LEMMA FinishEnds ==
    ASSUME TypeOK, NEW a \in Address, NEW id, NEW bad \in BOOLEAN, Finish(a, id, bad)
    PROVE  /\ pc'[a] = "return"
           /\ recorded' = recorded /\ tainted' = tainted
           /\ resp'[a].id = id /\ resp'[a].bad = bad
           /\ \A b \in Address \ {a} : pc'[b] = pc[b] /\ resp'[b] = resp[b]
  BY DEF Finish, TypeOK, terraform

\* An outcome stays, is delivered or lost, or is made by the end of a handler.
LEMMA RespSteps ==
    ASSUME TypeOK, CallInv, [Next]_vars, NEW a \in Address
    PROVE  \/ /\ resp'[a] = resp[a]
              /\ pc'[a] = "return" => pc[a] = "return"
           \/ resp'[a] = NoResp /\ pc'[a] = "idle"
           \/ Ends(a)
<1> DEFINE Same == /\ resp'[a] = resp[a]
                   /\ pc'[a] = "return" => pc[a] = "return"
           Goal == Same \/ (resp'[a] = NoResp /\ pc'[a] = "idle") \/ Ends(a)
<1>1. UNCHANGED vars => Same
  BY DEF vars
<1>2. ASSUME NEW b \in Address, BeginCreate(b) \/ LockCreate(b) PROVE Same
  BY <1>2 DEF BeginCreate, LockCreate, Goto, TypeOK
<1>3. ASSUME NEW b \in Address, NEW next \in PC \ {"return"}, Goto(b, next)
      PROVE  Same
  BY <1>3 DEF Goto, TypeOK
<1>4. ASSUME NEW b \in Address, pc[b] \in Critical, CreateFails(b) PROVE Goal
  BY <1>4, FinishEnds DEF CreateFails, CallInv, Ends
<1>5. ASSUME NEW b \in Address, Check(b) \/ Put(b) PROVE Goal
  BY <1>3, <1>4, <1>5
  DEF Check, CheckFails, CheckFindsName, CheckPasses, Put, SendPut, PutNotSent,
      Critical, PC
<1>6. ASSUME NEW b \in Address, Reply(b) \/ Recover(b) PROVE Goal
  BY <1>3, <1>4, <1>6
  DEF Reply, ReplyHasId, ReplyRejects, ReplyUnusable, Recover, RecoverOne,
      RecoverSeveral, RecoverNone, RecoverListFails, Critical, PC
<1>7. ASSUME NEW b \in Address, Wait(b) PROVE Goal
  <2>1. recorded[b] = NoId /\ got[b] # NoId
    BY <1>7 DEF Wait, WaitRunning, WaitTerminal, WaitFails, CallInv, Critical
  <2>2. \/ Finish(b, got[b], TRUE)
        \/ Finish(b, got[b], FALSE) /\ status[got[b]] = "running"
    BY <1>7 DEF Wait, WaitRunning, WaitTerminal, WaitFails
  <2>3. CASE Finish(b, got[b], TRUE)
    BY <2>1, <2>3, FinishEnds DEF Ends
  <2>4. CASE Finish(b, got[b], FALSE) /\ status[got[b]] = "running"
    <3>1. /\ pc'[b] = "return" /\ recorded' = recorded
          /\ resp'[b].id = got[b]
          /\ \A c \in Address \ {b} : pc'[c] = pc[c] /\ resp'[c] = resp[c]
      BY <2>4, FinishEnds
    <3>2. CASE a = b
      BY <2>1, <2>4, <3>1, <3>2 DEF Ends
    <3>3. CASE a # b
      BY <3>1, <3>3
    <3> QED
      BY <3>2, <3>3
  <2> QED
    BY <2>2, <2>3, <2>4
<1>8. ASSUME NEW b \in Address, Delete(b) PROVE Goal
  <2>1. CASE BeginDelete(b)
    BY <2>1 DEF BeginDelete, TypeOK
  <2>2. CASE DeleteRetained(b)
    BY <2>2, FinishEnds DEF DeleteRetained, Ends
  <2>3. CASE DeleteConfirmed(b)
    BY <2>3, FinishEnds DEF DeleteConfirmed, Found, Ends
  <2>4. CASE KeepEntry(b)
    <3>1. tainted[b] \in BOOLEAN
      BY DEF TypeOK
    <3> QED
      BY <2>4, <3>1, FinishEnds DEF KeepEntry, Ends
  <2>5. CASE Goto(b, "deletewait")
    BY <1>3, <2>5 DEF PC
  <2> QED
    BY <1>8, <2>1, <2>2, <2>3, <2>4, <2>5
    DEF Delete, DeleteAccepted, DeleteNotFound, DeleteFails
<1>9. ASSUME NEW b \in Address, ReadNotFound(b) \/ Deliver(b) \/ Expire(b)
      PROVE  Goal
  BY <1>9 DEF ReadNotFound, Deliver, Expire, TypeOK, call
<1>10. ASSUME NEW p \in Proc, Crash(p) PROVE Goal
  <2>1. CASE ProcOf[a] = p
    BY <1>10, <2>1 DEF Crash
  <2>2. CASE ProcOf[a] # p
    BY <1>10, <2>2 DEF Crash
  <2> QED
    BY <2>1, <2>2
<1>11. ASSUME NEW i \in ObjectId, ServiceMoves(i) \/ BecomesVisible(i)
       PROVE  Same
  BY <1>11 DEF ServiceMoves, BecomesVisible, call
<1> HIDE DEF Same
<1>12. Goal
  <2> HIDE DEF Goal
  <2>1. Same => Goal
    BY DEF Goal
  <2> QED
    BY <1>1, <1>2, <1>5, <1>6, <1>7, <1>8, <1>9, <1>10, <1>11, <2>1, StepCases
<1> QED
  BY <1>12 DEF Same

\* Terraform's entry changes when Read finds nothing and when a call returns.
LEMMA EntrySteps ==
    ASSUME TypeOK, [Next]_vars, NEW a \in Address
    PROVE  \/ recorded'[a] = recorded[a] /\ tainted'[a] = tainted[a]
           \/ ReadNotFound(a) /\ recorded'[a] = NoId
           \/ /\ pc[a] = "return"
              /\ recorded'[a] = resp[a].id
              /\ tainted'[a] = (resp[a].id # NoId /\ resp[a].bad)
              /\ resp'[a] = NoResp
              /\ pc'[a] = "idle"
<1> DEFINE Same == recorded' = recorded /\ tainted' = tainted
           Goal == \/ recorded'[a] = recorded[a] /\ tainted'[a] = tainted[a]
                   \/ ReadNotFound(a) /\ recorded'[a] = NoId
                   \/ /\ pc[a] = "return"
                      /\ recorded'[a] = resp[a].id
                      /\ tainted'[a] = (resp[a].id # NoId /\ resp[a].bad)
                      /\ resp'[a] = NoResp
                      /\ pc'[a] = "idle"
<1>1. UNCHANGED vars => Same
  BY DEF vars
<1>2. ASSUME NEW b \in Address,
             \/ BeginCreate(b) \/ LockCreate(b) \/ Check(b) \/ Put(b)
             \/ Reply(b) \/ Recover(b) \/ Wait(b) \/ Expire(b)
      PROVE  Same
  BY <1>2
  DEF BeginCreate, LockCreate, Check, CheckFails, CheckFindsName, CheckPasses,
      Put, SendPut, PutNotSent, Reply, ReplyHasId, ReplyRejects, ReplyUnusable,
      Recover, RecoverOne, RecoverSeveral, RecoverNone, RecoverListFails,
      Wait, WaitRunning, WaitTerminal, WaitFails, Expire,
      CreateFails, Finish, Goto, terraform
<1>3. ASSUME NEW b \in Address, Delete(b) PROVE Same
  BY <1>3
  DEF Delete, BeginDelete, DeleteRetained, DeleteAccepted, DeleteNotFound,
      DeleteFails, DeleteConfirmed, KeepEntry, Finish, Goto, terraform
<1>4. ASSUME NEW b \in Address, ReadNotFound(b) PROVE Goal
  BY <1>4 DEF ReadNotFound, TypeOK
<1>5. ASSUME NEW b \in Address, Deliver(b) PROVE Goal
  BY <1>5 DEF Deliver, TypeOK
<1>6. ASSUME NEW p \in Proc, Crash(p) PROVE Same
  BY <1>6 DEF Crash, terraform
<1>7. ASSUME NEW i \in ObjectId, ServiceMoves(i) \/ BecomesVisible(i)
      PROVE  Same
  BY <1>7 DEF ServiceMoves, BecomesVisible, terraform
<1>8. Same => Goal
  OBVIOUS
<1>9. Goal
  <2> HIDE DEF Same, Goal
  <2> QED
    BY <1>1, <1>2, <1>3, <1>4, <1>5, <1>6, <1>7, <1>8, StepCases
<1> QED
  BY <1>9

\* The invariants about outcomes hold initially.
LEMMA RanInit == Init => GoodEntriesRan /\ GoodRespRan /\ RemovalInv
  BY DEF Init, GoodEntriesRan, GoodRespRan, RemovalInv, NoResp

\* A good outcome and a good entry name an object that ran.
LEMMA RanStep ==
    TypeOK /\ CallInv /\ GoodEntriesRan /\ GoodRespRan /\ [Next]_vars
        => GoodEntriesRan' /\ GoodRespRan'
<1> SUFFICES ASSUME TypeOK, CallInv, GoodEntriesRan, GoodRespRan, [Next]_vars
             PROVE  GoodEntriesRan' /\ GoodRespRan'
  OBVIOUS
<1> DEFINE Ran(i) == status[i] \in {"running", "deleting", "gone"}
<1>1. \A i \in ObjectId : Ran(i) => Ran(i)'
  <2>1. CASE maker' = maker /\ Forward
    BY <2>1 DEF Forward
  <2>2. CASE \E a \in Address : SendPut(a)
    BY <2>2, PutEffect
  <2> QED
    BY <2>1, <2>2, ServiceSteps
<1>2. ASSUME NEW a \in Address, resp'[a].id # NoId, ~resp'[a].bad
      PROVE  status'[resp'[a].id] \in {"running", "deleting", "gone"}
  <2>1. resp'[a].id \in ObjectId /\ resp'[a].bad \in BOOLEAN
    BY <1>2, TypeStep DEF TypeOK
  <2>2. CASE resp'[a] = resp[a]
    BY <1>1, <1>2, <2>1, <2>2 DEF GoodRespRan
  <2>3. CASE resp'[a] = NoResp
    BY <1>2, <2>3 DEF NoResp
  <2>4. CASE status[got[a]] = "running" /\ resp'[a].id = got[a]
    BY <1>1, <2>1, <2>4
  <2>5. CASE resp'[a].id = recorded[a] /\ resp'[a].bad = tainted[a]
    BY <1>1, <1>2, <2>1, <2>5 DEF GoodEntriesRan
  <2> QED
    BY <1>2, <2>2, <2>3, <2>4, <2>5, RespSteps DEF Ends
<1>3. ASSUME NEW a \in Address, recorded'[a] # NoId, ~tainted'[a]
      PROVE  status'[recorded'[a]] \in {"running", "deleting", "gone"}
  <2>1. recorded'[a] \in ObjectId
    BY <1>3, TypeStep DEF TypeOK
  <2>2. CASE recorded'[a] = recorded[a] /\ tainted'[a] = tainted[a]
    BY <1>1, <1>3, <2>1, <2>2 DEF GoodEntriesRan
  <2>3. CASE recorded'[a] = resp[a].id /\ (resp[a].id # NoId => ~resp[a].bad)
    BY <1>1, <1>3, <2>1, <2>3 DEF GoodRespRan
  <2> QED
    BY <1>3, <2>2, <2>3, EntrySteps
<1> QED
  BY <1>2, <1>3 DEF GoodEntriesRan, GoodRespRan

\* A finished call drops an entry only with cause, and the cause stays.
LEMMA RemovalStep ==
    TypeOK /\ CallInv /\ PromptInv /\ ClaimsMatch /\ RemovalInv /\ [Next]_vars
        => RemovalInv'
<1> SUFFICES ASSUME TypeOK, CallInv, PromptInv, ClaimsMatch, RemovalInv,
                    [Next]_vars, PromptService, NEW a \in Address,
                    pc'[a] = "return", recorded'[a] # NoId,
                    resp'[a].id # recorded'[a]
             PROVE  /\ resp'[a].id = NoId
                    /\ a \in Retain \/ status'[recorded'[a]] = "gone"
  BY DEF RemovalInv
<1>1. recorded'[a] = recorded[a]
  BY EntrySteps DEF ReadNotFound
<1>2. recorded[a] \in ObjectId
  BY <1>1 DEF TypeOK
<1>3. CASE resp'[a] = resp[a] /\ pc[a] = "return"
  BY <1>1, <1>2, <1>3, GoneSteps DEF RemovalInv
<1>4. CASE Ends(a)
  <2>1. CASE ~(status[recorded[a]] \in Live /\ visible[recorded[a]])
    <3>1. status[recorded[a]] \notin Live
      BY <1>2, <2>1 DEF PromptInv
    <3>2. recorded[a] \in Claims(a)
      BY <1>1 DEF Claims
    <3>3. status[recorded[a]] = "gone"
      BY <3>1, <3>2 DEF ClaimsMatch
    <3>4. status'[recorded'[a]] = "gone"
      BY <1>1, <1>2, <3>3, GoneSteps
    <3>5. resp'[a].id = NoId \/ got[a] # NoId
      BY <1>1, <1>4 DEF Ends
    <3>6. got[a] = NoId
      BY <1>1 DEF CallInv, Critical
    <3> QED
      BY <3>4, <3>5, <3>6
  <2>2. CASE got[a] # NoId
    <3>1. got[a] # NoId => recorded[a] = NoId
      BY DEF CallInv, Critical
    <3>2. got[a] = NoId
      BY <1>1, <3>1
    <3> QED
      BY <2>2, <3>2
  <2>3. resp'[a].id = NoId
    BY <1>1, <1>4, <2>2 DEF Ends
  <2> QED
    BY <1>1, <1>4, <2>1, <2>2, <2>3 DEF Ends
<1>5. CASE resp'[a] = NoResp /\ pc'[a] = "idle"
  BY <1>5
<1> QED
  BY <1>3, <1>4, <1>5, RespSteps

\* Whatever the service does, an untainted entry names an object that reached
\* Running.
THEOREM GoodEntriesHaveRun == Spec => []GoodEntriesRan
<1> DEFINE I == TypeOK /\ CallInv /\ GoodEntriesRan /\ GoodRespRan
<1>1. Init => I
  BY TypeInit, CallInit, RanInit
<1>2. I /\ [Next]_vars => I'
  BY TypeStep, CallStep, RanStep
<1>3. I => GoodEntriesRan
  OBVIOUS
<1> QED
  BY <1>1, <1>2, <1>3, PTL DEF Spec

\* The inductive invariant of the whole component.
THEOREM InductiveInvariant == Spec => []IInv
<1>1. Init => IInv
  BY UniqueInit, RanInit DEF UniqueInv, IInv
<1>2. IInv /\ [Next]_vars => IInv'
  <2> SUFFICES ASSUME IInv, [Next]_vars PROVE IInv'
    OBVIOUS
  <2>1. UniqueInv'
    BY UniqueStep DEF UniqueInv, IInv
  <2>2. GoodEntriesRan' /\ GoodRespRan' /\ RemovalInv'
    BY RanStep, RemovalStep DEF IInv
  <2> QED
    BY <2>1, <2>2 DEF UniqueInv, IInv
<1> QED
  BY <1>1, <1>2, PTL DEF Spec

\* From the invariant, a step of Terraform's state forgets only with cause.
LEMMA ForgetStep == IInv /\ [Next]_vars => ForgetsOnlyGone
<1> SUFFICES ASSUME IInv, [Next]_vars, PromptService, NEW a \in Address,
                    recorded[a] # NoId, recorded'[a] # recorded[a]
             PROVE  a \in Retain \/ status[recorded[a]] = "gone"
  BY DEF ForgetsOnlyGone
<1> USE DEF IInv
<1>1. recorded[a] \in ObjectId /\ recorded[a] \in Claims(a)
  BY DEF TypeOK, Claims
<1>2. CASE ReadNotFound(a)
  <2>1. status[recorded[a]] \notin Live
    BY <1>1, <1>2 DEF ReadNotFound, Found, PromptInv
  <2> QED
    BY <1>1, <2>1 DEF ClaimsMatch
<1>3. CASE pc[a] = "return" /\ recorded'[a] = resp[a].id
  BY <1>3 DEF RemovalInv
<1> QED
  BY <1>2, <1>3, EntrySteps

\* With a prompt service Terraform never forgets an object that still exists,
\* unless it was told to retain it.
THEOREM ForgetsSafely == Spec => NeverForgetsLive
<1>1. IInv /\ [Next]_vars => [ForgetsOnlyGone]_vars
  BY ForgetStep
<1> QED
  BY <1>1, InductiveInvariant, PTL DEF Spec, NeverForgetsLive

-----------------------------------------------------------------------------
(* The handlers implement ManagedNames.                                    *)

\* The initial state maps to an initial state of ManagedNames.
LEMMA PromiseInit == Init => Promise!Init
  BY DEF Init, Promise!Init, Made, Live

\* Steps that change neither an entry nor what exists.
LEMMA PromiseStutter ==
    ASSUME recorded' = recorded, maker' = maker,
           \A i \in ObjectId : /\ status'[i] \in Live <=> status[i] \in Live
                               /\ status'[i] = "gone" <=> status[i] = "gone"
    PROVE  UNCHANGED Promise!vars
<1>1. \A i \in ObjectId : Made(i)' = Made(i)
  BY DEF Made
<1> QED
  BY <1>1 DEF Promise!vars

\* The steps that do change them.
LEMMA VisibleSteps ==
    ASSUME TypeOK, [Next]_vars
    PROVE  \/ \E a \in Address : SendPut(a) \/ ReadNotFound(a) \/ Deliver(a)
           \/ \E i \in ObjectId : ServiceMoves(i)
           \/ UNCHANGED Promise!vars
<1> DEFINE Goal == \/ \E a \in Address :
                         SendPut(a) \/ ReadNotFound(a) \/ Deliver(a)
                   \/ \E i \in ObjectId : ServiceMoves(i)
                   \/ UNCHANGED Promise!vars
           Same == recorded' = recorded /\ status' = status /\ maker' = maker
<1>1. Same => Goal
  BY PromiseStutter
<1>2. UNCHANGED vars => Same
  BY DEF vars
<1>3. ASSUME NEW a \in Address,
             BeginCreate(a) \/ LockCreate(a) \/ Check(a) \/ PutNotSent(a)
      PROVE  Same
  BY <1>3
  DEF BeginCreate, LockCreate, Check, CheckFails, CheckFindsName, CheckPasses,
      PutNotSent, CreateFails, Finish, Goto, terraform, service
<1>4. ASSUME NEW a \in Address, Reply(a) \/ Recover(a) \/ Wait(a) \/ Expire(a)
      PROVE  Same
  BY <1>4
  DEF Reply, ReplyHasId, ReplyRejects, ReplyUnusable, Recover, RecoverOne,
      RecoverSeveral, RecoverNone, RecoverListFails, Wait, WaitRunning,
      WaitTerminal, WaitFails, Expire, CreateFails, Finish, Goto, terraform,
      service
<1>5. ASSUME NEW a \in Address, Delete(a) PROVE Goal
  <2>1. CASE DeleteAccepted(a)
    <3>1. /\ recorded' = recorded /\ maker' = maker
          /\ status' = [status EXCEPT ![recorded[a]] = "deleting"]
          /\ status[recorded[a]] \in Live
      BY <2>1 DEF DeleteAccepted, KeepEntry, Finish, Goto, terraform, Found
    <3>2. \A i \in ObjectId : /\ status'[i] \in Live <=> status[i] \in Live
                              /\ status'[i] = "gone" <=> status[i] = "gone"
      BY <3>1 DEF TypeOK, Live
    <3> QED
      BY <3>1, <3>2, PromiseStutter
  <2>2. CASE ~DeleteAccepted(a)
    <3>1. Same
      BY <1>5, <2>2
      DEF Delete, BeginDelete, DeleteRetained, DeleteNotFound, DeleteFails,
          DeleteConfirmed, KeepEntry, Finish, Goto, terraform, service
    <3> QED
      BY <1>1, <3>1
  <2> QED
    BY <2>1, <2>2
<1>6. ASSUME NEW p \in Proc, Crash(p) PROVE Same
  BY <1>6 DEF Crash, terraform, service
<1>7. ASSUME NEW i \in ObjectId, BecomesVisible(i) PROVE Same
  BY <1>7 DEF BecomesVisible, terraform
<1>8. \A a \in Address : SendPut(a) \/ ReadNotFound(a) \/ Deliver(a) => Goal
  OBVIOUS
<1>9. \A i \in ObjectId : ServiceMoves(i) => Goal
  OBVIOUS
<1> HIDE DEF Same, Goal
<1>10. ASSUME NEW a \in Address, Put(a) PROVE Goal
  BY <1>1, <1>3, <1>8, <1>10 DEF Put
<1>11. Goal
  BY <1>1, <1>2, <1>3, <1>4, <1>5, <1>6, <1>7, <1>8, <1>9, <1>10, StepCases
<1> QED
  BY <1>11 DEF Goal

\* Every step maps to a step of ManagedNames or to a stutter.
LEMMA PromiseStep ==
    ASSUME PromptService, IInv, [Next]_vars
    PROVE  [Promise!Next]_(Promise!vars)
<1> USE DEF IInv
<1>1. ASSUME NEW a \in Address, SendPut(a)
      PROVE  Promise!Next \/ UNCHANGED Promise!vars
  <2>1. PICK n \in ObjectId :
           /\ status[n] = "free"
           /\ status'[n] \in {"starting", "rejected", "sent"}
           /\ PromptService => status'[n] # "sent"
           /\ maker'[n] = a
           /\ \A i \in ObjectId \ {n} :
                 /\ status'[i] = status[i]
                 /\ maker'[i] = maker[i]
    BY <1>1, PutEffect
  <2>2. recorded' = recorded
    BY <1>1 DEF SendPut, Goto, terraform
  <2>3. Made(n) = Free /\ \A i \in ObjectId \ {n} : Made(i)' = Made(i)
    BY <2>1 DEF Made, Live
  <2>4. CASE status'[n] = "starting"
    <3>1. Made(n)' = KeyOf[a]
      BY <2>1, <2>4 DEF Made, Live
    <3>2. {i \in ObjectId : status'[i] \in Live}
             = {i \in ObjectId : status[i] \in Live} \cup {n}
      BY <2>1, <2>4 DEF Live
    <3>3. [i \in ObjectId |-> Made(i)']
             = [[i \in ObjectId |-> Made(i)] EXCEPT ![n] = KeyOf[a]]
      BY <2>3, <3>1
    <3>4. \A j \in ObjectId : status[j] \in Live => Made(j) # KeyOf[a]
      BY <1>1 DEF SendPut, Cleared, Made
    <3>5. Promise!Make(n, KeyOf[a])
      BY <2>2, <2>3, <3>2, <3>3, <3>4 DEF Promise!Make
    <3> QED
      BY <3>5 DEF Promise!Next
  <2>5. CASE status'[n] = "rejected"
    <3>1. \A i \in ObjectId : Made(i)' = Made(i)
      BY <2>1, <2>3, <2>5 DEF Made, Live
    <3>2. {i \in ObjectId : status'[i] \in Live}
             = {i \in ObjectId : status[i] \in Live}
      BY <2>1, <2>5 DEF Live
    <3> QED
      BY <2>2, <3>1, <3>2 DEF Promise!vars
  <2> QED
    BY <2>1, <2>4, <2>5
<1>2. ASSUME NEW a \in Address, ReadNotFound(a)
      PROVE  Promise!Next
  <2>1. /\ recorded[a] # NoId /\ recorded' = [recorded EXCEPT ![a] = NoId]
        /\ status' = status /\ maker' = maker
    BY <1>2 DEF ReadNotFound, service
  <2>2. status[recorded[a]] \notin Live
    BY <1>2 DEF ReadNotFound, Found, PromptInv, TypeOK
  <2>3. Promise!Disown(a)
    BY <2>1, <2>2 DEF Promise!Disown, Made
  <2> QED
    BY <2>3 DEF Promise!Next
<1>3. ASSUME NEW a \in Address, Deliver(a)
      PROVE  Promise!Next \/ UNCHANGED Promise!vars
  <2>1. /\ recorded' = [recorded EXCEPT ![a] = resp[a].id]
        /\ status' = status /\ maker' = maker
        /\ pc[a] = "return"
    BY <1>3 DEF Deliver, service
  <2>2. CASE resp[a].id = recorded[a]
    <3>1. recorded' = recorded
      BY <2>1, <2>2 DEF TypeOK
    <3> QED
      BY <2>1, <3>1, PromiseStutter
  <2>3. CASE resp[a].id # recorded[a] /\ recorded[a] # NoId
    <3>1. resp[a].id = NoId /\ (a \in Retain \/ status[recorded[a]] = "gone")
      BY <2>1, <2>3 DEF RemovalInv
    <3>2. Promise!Disown(a)
      BY <2>1, <2>3, <3>1 DEF Promise!Disown, Made, Live
    <3> QED
      BY <3>2 DEF Promise!Next
  <2>4. CASE resp[a].id # recorded[a] /\ recorded[a] = NoId
    <3> DEFINE i == resp[a].id
    <3>1. i \in ObjectId /\ i \in Claims(a)
      BY <2>4 DEF TypeOK, Claims
    <3>2. status[i] \in Live \cup {"gone"}
      BY <3>1 DEF ClaimsMatch
    <3>3. maker[i] \in Address
      BY <3>1, <3>2 DEF MakerInv, Live
    <3>4. Made(i) # Free
      BY <3>2, <3>3, ConfigAssumption DEF ConfigAssumption, Made
    <3>5. \A b \in Address \ {a} :
             KeyOf[b] = KeyOf[a] /\ status[i] \in Live => recorded[b] # i
      <4> SUFFICES ASSUME NEW b \in Address \ {a}, KeyOf[b] = KeyOf[a],
                          recorded[b] = i
                   PROVE  status[i] \notin Live
        OBVIOUS
      <4>1. i \in Claims(b)
        BY <2>4 DEF Claims
      <4> QED
        BY <3>1, <4>1 DEF SoleOwner
    <3>6. Promise!Own(a, i)
      BY <2>1, <2>4, <3>1, <3>4, <3>5 DEF Promise!Own, Made
    <3> QED
      BY <3>1, <3>6 DEF Promise!Next
  <2> QED
    BY <2>2, <2>3, <2>4
<1>4. ASSUME NEW i \in ObjectId, ServiceMoves(i)
      PROVE  Promise!Next \/ UNCHANGED Promise!vars
  <2>1. PICK s \in Moves(status[i]) : status' = [status EXCEPT ![i] = s]
    BY <1>4 DEF ServiceMoves
  <2>2. recorded' = recorded /\ maker' = maker
    BY <1>4 DEF ServiceMoves, terraform
  <2>3. \/ status[i] \in Live /\ s \in Live
        \/ status[i] = "deleting" /\ s = "gone"
    BY <2>1 DEF Moves, PromptInv, TypeOK, Status, Live
  <2>4. CASE status[i] \in Live /\ s \in Live
    <3>1. \A j \in ObjectId : /\ status'[j] \in Live <=> status[j] \in Live
                              /\ status'[j] = "gone" <=> status[j] = "gone"
      BY <2>1, <2>4 DEF TypeOK, Live
    <3> QED
      BY <2>2, <3>1, PromiseStutter
  <2>5. CASE status[i] = "deleting" /\ s = "gone"
    <3>1. \A j \in ObjectId : Made(j)' = Made(j)
      BY <2>1, <2>2, <2>5 DEF Made, Live, TypeOK
    <3>2. {j \in ObjectId : status'[j] \in Live}
             = {j \in ObjectId : status[j] \in Live} \ {i}
      BY <2>1, <2>5 DEF Live, TypeOK
    <3>3. Promise!Unmake(i)
      BY <2>2, <3>1, <3>2 DEF Promise!Unmake
    <3> QED
      BY <3>3 DEF Promise!Next
  <2> QED
    BY <2>3, <2>4, <2>5
<1> QED
  BY <1>1, <1>2, <1>3, <1>4, VisibleSteps

\* With a prompt service, the create, read and delete handlers of concurrent
\* processes that crash and lose answers implement ManagedNames.
THEOREM Implementation == ASSUME PromptService PROVE Spec => KeepsPromise
<1>1. IInv /\ [Next]_vars => [Promise!Next]_(Promise!vars)
  BY PromiseStep
<1> QED
  BY <1>1, PromiseInit, InductiveInvariant, PTL
  DEF Spec, KeepsPromise, Promise!Spec
=============================================================================
