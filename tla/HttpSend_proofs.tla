--------------------------- MODULE HttpSend_proofs ---------------------------
(***************************************************************************)
(* Theorems about HttpSend: a write is sent once, the backoffs are bounded *)
(* and a refusal leaves nothing behind, for every duration of a request    *)
(* and every Retry-After.                                                  *)
(***************************************************************************)
EXTENDS HttpSend, TLAPS

\* Only a read backs off, and it starts to while attempts and time are left; the
\* backoffs are part of the time that has passed; a write that is not over has
\* done nothing.
CallInv ==
    /\ phase = "backoff" => reading /\ attempt < MaxAttempts /\ elapsed < Window
    /\ ~reading => attempt = 1
    /\ waited <= elapsed
    /\ phase # "done" /\ ~reading => ~performed

IInv == TypeOK /\ CallInv /\ BackoffBounded /\ RefusedMeansNotDone

\* The numbers of a state, one by one.
LEMMA Numbers ==
    TypeOK => /\ attempt \in Nat /\ attempt >= 1 /\ attempt <= MaxAttempts
              /\ elapsed \in Nat /\ waited \in Nat
              /\ delay \in Nat /\ delay <= MaxDelay
  BY DEF TypeOK, MaxAttempts, MaxDelay

\* The doubled base is a number of units, for every attempt.
LEMMA DoubledNat == \A n \in Nat \ {0} : Doubled[AtMost(n, 6)] \in Nat
  <1> TAKE n \in Nat \ {0}
  <1>1. AtMost(n, 6) \in 1 .. 6
    BY DEF AtMost
  <1>2. \A i \in 1 .. 6 : Doubled[i] \in Nat
    BY DEF Doubled
  <1>3. QED
    BY <1>1, <1>2

\* No delay exceeds 30 s.
LEMMA DelayCapped ==
    ASSUME TypeOK, NEW hint \in Hint, NEW d \in RetryDelay(hint)
    PROVE  d \in 0 .. MaxDelay
  <1>1. \A n \in Nat : AtMost(n, MaxDelay) \in 0 .. MaxDelay
    BY DEF AtMost, MaxDelay
  <1>2. hint \in Nat
    BY SendAssumption DEF SendAssumption
  <1>3. Doubled[AtMost(attempt, 6)] \in Nat
    BY Numbers, DoubledNat
  <1>4. CASE hint > 0
    BY <1>1, <1>2, <1>4 DEF RetryDelay
  <1>5. CASE ~(hint > 0)
    <2>1. PICK jitter \in {0, 1} :
              d = AtMost(Doubled[AtMost(attempt, 6)] + jitter, MaxDelay)
      BY <1>5 DEF RetryDelay
    <2>2. Doubled[AtMost(attempt, 6)] + jitter \in Nat
      BY <1>3
    <2>3. QED
      BY <1>1, <2>1, <2>2
  <1>6. QED
    BY <1>4, <1>5

\* What a request does to the state.
LEMMA RequestEffect ==
    ASSUME TypeOK, Request
    PROVE  \E status \in Status :
              /\ phase = "request" /\ reading' = reading
              /\ attempt' = attempt /\ waited' = waited
              /\ elapsed' \in Nat /\ elapsed' >= elapsed
              /\ delay' \in 0 .. MaxDelay
              /\ result' = status
              /\ \E b \in Performs(status) : performed' = (performed \/ b)
              /\ \/ phase' = "done"
                 \/ /\ phase' = "backoff"
                    /\ reading /\ attempt < MaxAttempts /\ elapsed' < Window
  <1>1. PICK status \in Status, took \in Duration, hint \in Hint :
          /\ elapsed' = elapsed + took
          /\ \E b \in Performs(status) : performed' = (performed \/ b)
          /\ IF ShouldRetry(status, took)
             THEN /\ phase' = "backoff"
                  /\ result' = status
                  /\ delay' \in RetryDelay(hint)
             ELSE Done(status)
    BY DEF Request
  <1>2. took \in Nat
    BY SendAssumption DEF SendAssumption
  <1>3. elapsed' \in Nat /\ elapsed' >= elapsed
    BY <1>1, <1>2, Numbers
  <1>4. result' = status
    BY <1>1 DEF Done
  <1>5. delay' \in 0 .. MaxDelay
    <2>1. CASE ShouldRetry(status, took)
      BY <1>1, <2>1, DelayCapped
    <2>2. CASE ~ShouldRetry(status, took)
      BY <1>1, <2>2 DEF Done, MaxDelay
    <2>3. QED
      BY <2>1, <2>2
  <1>6. \/ phase' = "done"
        \/ phase' = "backoff" /\ reading /\ attempt < MaxAttempts /\ elapsed' < Window
    BY <1>1 DEF ShouldRetry, Done
  <1>7. phase = "request" /\ reading' = reading /\ attempt' = attempt /\ waited' = waited
    BY DEF Request
  <1>8. QED
    BY <1>1, <1>3, <1>4, <1>5, <1>6, <1>7

LEMMA InitIInv == Init => IInv
  <1> SUFFICES ASSUME Init PROVE IInv
    OBVIOUS
  <1>1. /\ reading \in BOOLEAN /\ performed = FALSE /\ phase = "token"
        /\ result = "none" /\ attempt = 1 /\ elapsed = 0 /\ waited = 0 /\ delay = 0
    BY DEF Init
  <1>2. /\ attempt \in 1 .. MaxAttempts /\ elapsed \in Nat /\ waited \in Nat
        /\ delay \in 0 .. MaxDelay /\ waited <= elapsed
    BY <1>1 DEF MaxAttempts, MaxDelay
  <1>3. BackoffBounded
    BY <1>1 DEF BackoffBounded, Window, MaxDelay
  <1>4. TypeOK
    BY <1>1, <1>2 DEF TypeOK
  <1>5. CallInv /\ RefusedMeansNotDone
    BY <1>1, <1>2 DEF CallInv, RefusedMeansNotDone
  <1>6. QED
    BY <1>3, <1>4, <1>5 DEF IInv

LEMMA StepTypeOK == TypeOK /\ CallInv /\ [Next]_vars => TypeOK'
  <1> SUFFICES ASSUME TypeOK, CallInv, [Next]_vars PROVE TypeOK'
    OBVIOUS
  <1>1. CASE GetToken
    BY <1>1 DEF GetToken, Done, TypeOK, Local, MaxDelay
  <1>2. CASE Request
    <2>1. PICK status \in Status :
              /\ reading' = reading /\ attempt' = attempt /\ waited' = waited
              /\ elapsed' \in Nat /\ delay' \in 0 .. MaxDelay /\ result' = status
              /\ \E b \in Performs(status) : performed' = (performed \/ b)
              /\ phase' \in {"done", "backoff"}
      BY <1>2, RequestEffect
    <2>2. performed' \in BOOLEAN
      BY <2>1
    <2>3. QED
      BY <2>1, <2>2 DEF TypeOK
  <1>3. CASE Backoff
    <2>1. /\ reading' = reading /\ performed' = performed /\ delay' = 0
          /\ phase' \in {"token", "done"} /\ result' \in {result, "cancelled"}
          /\ attempt' \in {attempt, attempt + 1}
          /\ elapsed' \in {elapsed, elapsed + delay}
          /\ waited' \in {waited, waited + delay}
      BY <1>3 DEF Backoff, Done
    <2>2. attempt < MaxAttempts
      BY <1>3 DEF Backoff, CallInv
    <2>3. attempt' \in 1 .. MaxAttempts /\ elapsed' \in Nat /\ waited' \in Nat
      BY <2>1, <2>2, Numbers DEF MaxAttempts
    <2>4. delay' \in 0 .. MaxDelay
      BY <2>1 DEF MaxDelay
    <2>5. QED
      BY <2>1, <2>3, <2>4 DEF TypeOK, Local
  <1>4. CASE UNCHANGED vars
    BY <1>4 DEF vars, TypeOK
  <1>5. QED
    BY <1>1, <1>2, <1>3, <1>4 DEF Next

LEMMA StepCallInv == TypeOK /\ CallInv /\ [Next]_vars => CallInv'
  <1> SUFFICES ASSUME TypeOK, CallInv, [Next]_vars PROVE CallInv'
    OBVIOUS
  <1>1. CASE GetToken
    BY <1>1 DEF GetToken, Done, CallInv
  <1>2. CASE Request
    <2>1. PICK status \in Status :
              /\ phase = "request" /\ reading' = reading
              /\ attempt' = attempt /\ waited' = waited
              /\ elapsed' \in Nat /\ elapsed' >= elapsed
              /\ \/ phase' = "done"
                 \/ /\ phase' = "backoff"
                    /\ reading /\ attempt < MaxAttempts /\ elapsed' < Window
      BY <1>2, RequestEffect
    <2>2. waited' <= elapsed'
      BY <2>1, Numbers DEF CallInv
    <2>3. QED
      BY <2>1, <2>2 DEF CallInv
  <1>3. CASE Backoff
    <2>1. /\ reading /\ reading' = reading /\ phase' # "backoff"
          /\ \/ elapsed' = elapsed + delay /\ waited' = waited + delay
             \/ elapsed' = elapsed /\ waited' = waited
      BY <1>3 DEF Backoff, Done, CallInv
    <2>2. waited' <= elapsed'
      BY <2>1, Numbers DEF CallInv
    <2>3. QED
      BY <2>1, <2>2 DEF CallInv
  <1>4. CASE UNCHANGED vars
    BY <1>4 DEF vars, CallInv
  <1>5. QED
    BY <1>1, <1>2, <1>3, <1>4 DEF Next

\* A backoff starts inside the window, and adds one delay.
LEMMA StepBackoffBounded ==
    TypeOK /\ CallInv /\ BackoffBounded /\ [Next]_vars => BackoffBounded'
  <1> SUFFICES ASSUME TypeOK, CallInv, BackoffBounded, [Next]_vars
               PROVE  BackoffBounded'
    OBVIOUS
  <1>1. CASE Backoff
    <2>1. elapsed < Window /\ waited <= elapsed /\ waited' \in {waited, waited + delay}
      BY <1>1 DEF Backoff, CallInv
    <2>2. QED
      BY <2>1, Numbers DEF BackoffBounded, Window, MaxDelay
  <1>2. CASE waited' = waited
    BY <1>2 DEF BackoffBounded
  <1>3. QED
    BY <1>1, <1>2 DEF Next, GetToken, Request, vars

\* An answer that says no more than that the request has failed is ambiguous.
LEMMA StepRefused ==
    TypeOK /\ CallInv /\ RefusedMeansNotDone /\ [Next]_vars => RefusedMeansNotDone'
  <1> SUFFICES ASSUME TypeOK, CallInv, RefusedMeansNotDone, [Next]_vars
               PROVE  RefusedMeansNotDone'
    OBVIOUS
  <1>1. CASE GetToken
    BY <1>1 DEF GetToken, Done, CallInv, RefusedMeansNotDone
  <1>2. CASE Request
    <2>1. PICK status \in Status :
              /\ phase = "request" /\ reading' = reading /\ result' = status
              /\ \E b \in Performs(status) : performed' = (performed \/ b)
      BY <1>2, RequestEffect
    <2>2. ASSUME ~reading', performed'
          PROVE  result' = "ok" \/ IsAmbiguousCreateError(result)'
      <3>1. ~reading /\ ~performed
        BY <2>1, <2>2 DEF CallInv
      <3>2. TRUE \in Performs(status)
        BY <2>1, <2>2, <3>1
      <3>3. status \in {"ok", "garbled", "transport", "408", "500", "501"}
        BY <3>1, <3>2 DEF Performs
      <3>4. QED
        BY <2>1, <3>3 DEF IsAmbiguousCreateError
    <2>3. QED
      BY <2>2 DEF RefusedMeansNotDone
  <1>3. CASE Backoff
    BY <1>3 DEF Backoff, CallInv, RefusedMeansNotDone
  <1>4. CASE UNCHANGED vars
    BY <1>4 DEF vars, RefusedMeansNotDone, IsAmbiguousCreateError
  <1>5. QED
    BY <1>1, <1>2, <1>3, <1>4 DEF Next

LEMMA Invariance == Spec => []IInv
  <1>1. IInv /\ [Next]_vars => IInv'
    BY StepTypeOK, StepCallInv, StepBackoffBounded, StepRefused DEF IInv
  <1>2. QED
    BY InitIInv, <1>1, PTL DEF Spec

\* Attempts and delays stay within their limits (sendWithOptions, retryDelay).
THEOREM TypeCorrect == Spec => []TypeOK
  <1>1. IInv => TypeOK
    BY DEF IInv
  <1>2. QED
    BY Invariance, <1>1, PTL

\* A PUT, POST or DELETE is sent at most once, whatever the answer.
THEOREM OneWrite == Spec => []WritesSentOnce
  <1>1. IInv => WritesSentOnce
    BY DEF IInv, CallInv, WritesSentOnce
  <1>2. QED
    BY Invariance, <1>1, PTL

\* The backoffs of a call stay below a minute and a half.
THEOREM BackoffsEnd == Spec => []BackoffBounded
  <1>1. IInv => BackoffBounded
    BY DEF IInv
  <1>2. QED
    BY Invariance, <1>1, PTL

\* Create skips recovery only when the service has refused the PUT.
THEOREM RefusalsAreClean == Spec => []RefusedMeansNotDone
  <1>1. IInv => RefusedMeansNotDone
    BY DEF IInv
  <1>2. QED
    BY Invariance, <1>1, PTL
=============================================================================
