--------------------------- MODULE Polling_proofs ---------------------------
(***************************************************************************)
(* Theorems about Polling: what lasts is seen, no loop outlives the        *)
(* operation, for every timeout, start and length of a GET.                *)
(***************************************************************************)
EXTENDS Polling, TLAPS

\* How long an object can have been in a decisive state that the loop has not
\* seen: since the GET in flight was served, or since the one before the sleep.
SeenInv ==
    /\ ~Decisive(remote) => age = 0
    /\ phase \in {"send", "get"} =>
          left <= MaxGet /\ age + left <= MaxInterval + 2 * MaxGet
    /\ phase = "get" /\ ~Decisive(answer) => age + left <= MaxGet
    /\ phase = "sleep" => left <= MaxInterval /\ age + left <= MaxInterval + MaxGet

\* What the assumption says of a single start.
LEMMA ConstantTypes ==
    Timeout \in Nat /\ MaxGet \in Nat /\ \A b \in Begin : b \in Nat /\ b <= Timeout
  <1>1. Timeout \in Nat /\ MaxGet \in Nat
    BY PollingAssumption DEF PollingAssumption
  <1>2. \A b \in Begin : b \in 0 .. Timeout
    BY PollingAssumption DEF PollingAssumption
  <1>3. QED
    BY <1>1, <1>2

\* The context ends a loop before its own deadline, which is set later.
ContextEndsFirst == result # "late"

IInv == TypeOK /\ OnTime /\ ContextEndsFirst /\ SeenInv

LEMMA InitIInv == Init => IInv
  <1> SUFFICES ASSUME Init PROVE IInv
    OBVIOUS
  <1>1. begun \in Nat /\ begun <= Timeout
    BY ConstantTypes DEF Init
  <1>2. now = begun /\ left = MaxGet /\ age = 0 /\ interval = 2 /\ phase = "send"
    BY DEF Init
  <1>3. TypeOK
    <2>1. left \in 0 .. MaxInterval + MaxGet /\ interval \in 2 .. MaxInterval
      BY <1>2, ConstantTypes DEF MaxInterval
    <2>2. remote \in Remote /\ answer \in Remote
      BY DEF Init, Remote
    <2>3. kind \in Kind /\ begun \in Begin /\ last = "" /\ result = ""
      BY DEF Init
    <2>4. now \in Nat /\ age \in Nat
      BY <1>1, <1>2
    <2>5. QED
      BY <1>2, <2>1, <2>2, <2>3, <2>4 DEF TypeOK
  <1>4. OnTime /\ ContextEndsFirst
    BY <1>1, <1>2 DEF Init, OnTime, ContextEndsFirst
  <1>5. SeenInv
    BY <1>2, ConstantTypes DEF SeenInv, MaxInterval
  <1>6. QED
    BY <1>3, <1>4, <1>5 DEF IInv

\* The numbers of a state, one by one.
LEMMA Numbers ==
    TypeOK => /\ now \in Nat /\ begun \in Nat /\ begun <= Timeout
              /\ left \in Nat /\ left <= MaxInterval + MaxGet
              /\ interval \in 2 .. MaxInterval
              /\ age \in Nat
  <1> SUFFICES ASSUME TypeOK PROVE /\ now \in Nat /\ begun \in Nat /\ begun <= Timeout
                                   /\ left \in Nat /\ left <= MaxInterval + MaxGet
                                   /\ interval \in 2 .. MaxInterval
                                   /\ age \in Nat
    OBVIOUS
  <1>1. begun \in Begin /\ now \in Nat /\ interval \in 2 .. MaxInterval /\ age \in Nat
    BY DEF TypeOK
  <1>2. left \in 0 .. MaxInterval + MaxGet
    BY DEF TypeOK
  <1>3. left \in Nat /\ left <= MaxInterval + MaxGet
    BY <1>2, ConstantTypes DEF MaxInterval
  <1>4. QED
    BY <1>1, <1>3, ConstantTypes

LEMMA StepTypeOK == IInv /\ [Next]_vars => TypeOK'
  <1> SUFFICES ASSUME TypeOK, [Next]_vars PROVE TypeOK'
    BY DEF IInv
  <1>1. CASE Serve
    BY <1>1 DEF Serve, TypeOK
  <1>2. CASE Receive
    <2>1. Verdict(answer) \in {"ok", "terminal", "go on"}
      BY DEF Verdict
    <2>2. left' \in {left, interval}
      BY <1>2 DEF Receive
    <2>3. left' \in 0 .. MaxInterval + MaxGet
      BY <2>2, Numbers, ConstantTypes DEF MaxInterval
    <2>4. result' \in {"", "ok", "terminal", "error", "late", "cancelled"}
      BY <1>2, <2>1 DEF Receive, Done, Decisive, TypeOK
    <2>5. QED
      BY <1>2, <2>3, <2>4 DEF Receive, Done, TypeOK
  <1>3. CASE GetFails
    BY <1>3 DEF GetFails, Done, TypeOK
  <1>4. CASE Wake
    <2>1. left' = MaxGet /\ interval' = NextInterval
      BY <1>4 DEF Wake
    <2>2. left' \in 0 .. MaxInterval + MaxGet
      BY <2>1, ConstantTypes DEF MaxInterval
    <2>3. interval' \in 2 .. MaxInterval
      BY <2>1, Numbers DEF NextInterval, MaxInterval
    <2>4. QED
      BY <1>4, <2>2, <2>3 DEF Wake, TypeOK
  <1>5. CASE Cancelled
    BY <1>5 DEF Cancelled, Done, TypeOK
  <1>6. CASE Tick
    <2>1. /\ left > 0 /\ left' = left - 1 /\ now' = now + 1
          /\ age' \in {age + 1, 0}
      BY <1>6 DEF Tick
    <2>2. left' \in 0 .. MaxInterval + MaxGet
      BY <2>1, Numbers, ConstantTypes DEF MaxInterval
    <2>3. now' \in Nat /\ age' \in Nat
      BY <2>1, Numbers
    <2>4. UNCHANGED <<kind, begun, phase, interval, answer, last, result, remote>>
      BY <1>6 DEF Tick
    <2>5. /\ kind' \in Kind /\ begun' \in Begin /\ phase' \in {"send", "get", "sleep", "done"}
          /\ answer' \in Remote /\ last' \in Remote \cup {""} /\ remote' \in Remote
          /\ result' \in {"", "ok", "terminal", "error", "late", "cancelled"}
      BY <2>4 DEF TypeOK
    <2>6. interval' \in 2 .. MaxInterval
      BY <2>4, Numbers
    <2>7. QED
      BY <2>2, <2>3, <2>5, <2>6 DEF TypeOK
  <1>7. CASE ServiceMoves
    <2>0. remote \in Remote /\ remote' \in Moves(remote)
      BY <1>7 DEF ServiceMoves, TypeOK
    <2>1. remote' \in Remote
      BY <2>0 DEF Moves, Remote
    <2>2. age' \in Nat
      BY <1>7 DEF ServiceMoves, TypeOK
    <2>3. QED
      BY <1>7, <2>1, <2>2 DEF ServiceMoves, loop, TypeOK
  <1>8. CASE UNCHANGED vars
    BY <1>8 DEF vars, loop, TypeOK
  <1>9. QED
    BY <1>1, <1>2, <1>3, <1>4, <1>5, <1>6, <1>7, <1>8 DEF Next

\* Only Tick moves the clock, and it does not once the context has ended.
LEMMA StepOnTime == IInv /\ [Next]_vars => OnTime'
  <1> SUFFICES ASSUME TypeOK, OnTime, [Next]_vars PROVE OnTime'
    BY DEF IInv
  <1>1. CASE Tick
    <2>1. phase \in {"send", "get", "sleep"}
      BY <1>1 DEF Tick, TypeOK
    <2>2. ~(now >= Timeout) /\ now' = now + 1
      BY <1>1, <2>1 DEF Tick, ContextEnds
    <2>3. QED
      BY <2>2, Numbers, ConstantTypes DEF OnTime
  <1>2. CASE now' = now
    BY <1>2 DEF OnTime
  <1>3. QED
    BY <1>1, <1>2 DEF Next, Serve, Receive, GetFails, Wake, Cancelled,
       ServiceMoves, vars

\* The loop's own deadline is not before the context's, which OnTime bounds.
LEMMA StepContextEndsFirst == IInv /\ [Next]_vars => ContextEndsFirst'
  <1> SUFFICES ASSUME TypeOK, OnTime, ContextEndsFirst, [Next]_vars
               PROVE  ContextEndsFirst'
    BY DEF IInv
  <1>1. CASE Receive
    <2>1. ~(now > begun + Timeout)
      BY Numbers, ConstantTypes DEF OnTime
    <2>2. Verdict(answer) # "late"
      BY DEF Verdict
    <2>3. QED
      BY <1>1, <2>1, <2>2 DEF Receive, Done, ContextEndsFirst
  <1>2. CASE result' \in {result, "error", "cancelled"}
    BY <1>2 DEF ContextEndsFirst
  <1>3. QED
    BY <1>1, <1>2 DEF Next, Serve, GetFails, Wake, Cancelled, Tick, ServiceMoves,
       Done, vars, loop

LEMMA StepSeenInv == IInv /\ [Next]_vars => SeenInv'
  <1> SUFFICES ASSUME TypeOK, SeenInv, [Next]_vars PROVE SeenInv'
    BY DEF IInv
  <1>0. ASSUME kind' = kind, remote' = remote
        PROVE  Decisive(remote)' <=> Decisive(remote)
    BY <1>0 DEF Decisive, Verdict
  <1>00. ASSUME kind' = kind, answer' = answer
         PROVE  Decisive(answer)' <=> Decisive(answer)
    BY <1>00 DEF Decisive, Verdict
  <1>1. CASE Serve
    <2>1. /\ phase = "send" /\ phase' = "get" /\ left' = left /\ age' = age
          /\ answer' = remote /\ kind' = kind /\ remote' = remote
      BY <1>1 DEF Serve
    <2>2. Decisive(answer)' <=> Decisive(remote)
      BY <2>1 DEF Decisive, Verdict
    <2>3. Decisive(remote)' <=> Decisive(remote)
      BY <2>1, <1>0
    <2>4. QED
      BY <2>1, <2>2, <2>3, Numbers, ConstantTypes DEF SeenInv
  <1>2. CASE Receive
    <2>1. /\ phase = "get" /\ age' = age
          /\ \/ phase' = "done"
             \/ phase' = "sleep" /\ left' = interval /\ ~Decisive(answer)
          /\ kind' = kind /\ remote' = remote
      BY <1>2 DEF Receive, Done
    <2>2. Decisive(remote)' <=> Decisive(remote)
      BY <2>1, <1>0
    <2>3. interval <= MaxInterval /\ interval \in Nat
      BY Numbers DEF MaxInterval
    <2>4. QED
      BY <2>1, <2>2, <2>3, Numbers, ConstantTypes DEF SeenInv, MaxInterval
  <1>3. CASE GetFails \/ Cancelled
    <2>1. /\ phase' = "done" /\ age' = age /\ kind' = kind /\ remote' = remote
      BY <1>3 DEF GetFails, Cancelled, Done
    <2>2. QED
      BY <2>1, <1>0 DEF SeenInv
  <1>4. CASE Wake
    <2>1. /\ phase = "sleep" /\ left = 0 /\ phase' = "send" /\ left' = MaxGet
          /\ age' = age /\ kind' = kind /\ remote' = remote
      BY <1>4 DEF Wake
    <2>2. Decisive(remote)' <=> Decisive(remote)
      BY <2>1, <1>0
    <2>3. QED
      BY <2>1, <2>2, Numbers, ConstantTypes DEF SeenInv, MaxInterval
  <1>5. CASE Tick
    <2>1. /\ left > 0 /\ left' = left - 1 /\ phase' = phase
          /\ age' = IF Decisive(remote) THEN age + 1 ELSE 0
          /\ kind' = kind /\ remote' = remote /\ answer' = answer
      BY <1>5 DEF Tick
    <2>2. /\ Decisive(remote)' <=> Decisive(remote)
          /\ Decisive(answer)' <=> Decisive(answer)
      BY <2>1, <1>0, <1>00
    <2>3. age' + left' <= age + left /\ left' <= left /\ left' \in Nat /\ age' \in Nat
      BY <2>1, Numbers
    <2>4. ~Decisive(remote)' => age' = 0
      BY <2>1, <2>2
    <2>5. QED
      BY <2>1, <2>2, <2>3, <2>4, Numbers, ConstantTypes DEF SeenInv, MaxInterval
  <1>6. CASE ServiceMoves
    <2>1. /\ age' = IF Decisive(remote') THEN age ELSE 0
          /\ kind' = kind /\ answer' = answer /\ left' = left /\ phase' = phase
      BY <1>6 DEF ServiceMoves, loop
    <2>2. /\ Decisive(remote)' <=> Decisive(remote')
          /\ Decisive(answer)' <=> Decisive(answer)
      BY <2>1, <1>00 DEF Decisive, Verdict
    <2>3. age' \in Nat /\ age' <= age
      BY <2>1, Numbers
    <2>4. ~Decisive(remote)' => age' = 0
      BY <2>1, <2>2
    <2>5. QED
      BY <2>1, <2>2, <2>3, <2>4, Numbers, ConstantTypes DEF SeenInv, MaxInterval
  <1>7. CASE UNCHANGED vars
    <2>1. /\ age' = age /\ kind' = kind /\ answer' = answer /\ left' = left
          /\ phase' = phase /\ remote' = remote
      BY <1>7 DEF vars, loop
    <2>2. QED
      BY <2>1, <1>0, <1>00 DEF SeenInv
  <1>8. QED
    BY <1>1, <1>2, <1>3, <1>4, <1>5, <1>6, <1>7 DEF Next

LEMMA Invariance == Spec => []IInv
  <1>1. IInv /\ [Next]_vars => IInv'
    BY StepTypeOK, StepOnTime, StepContextEndsFirst, StepSeenInv DEF IInv
  <1>2. QED
    BY InitIInv, <1>1, PTL DEF Spec

\* The variables of a loop keep their types, and its interval stays capped.
THEOREM TypeCorrect == Spec => []TypeOK
  <1>1. IInv => TypeOK
    BY DEF IInv
  <1>2. QED
    BY Invariance, <1>1, PTL

\* What stays decisive for the longest interval and two GETs has been seen.
THEOREM LastingStatesAreSeen == Spec => []SeesSoon
  <1>1. IInv => SeesSoon
    <2> SUFFICES ASSUME TypeOK, SeenInv PROVE SeesSoon
      BY DEF IInv
    <2>1. phase \in {"send", "get", "sleep", "done"}
      BY DEF TypeOK
    <2>2. QED
      BY <2>1, Numbers, ConstantTypes DEF SeenInv, SeesSoon, MaxInterval
  <1>2. QED
    BY Invariance, <1>1, PTL

\* No loop outlives the timeout of its operation.
THEOREM TimeoutKept == Spec => []OnTime
  <1>1. IInv => OnTime
    BY DEF IInv
  <1>2. QED
    BY Invariance, <1>1, PTL
=============================================================================
