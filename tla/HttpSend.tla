------------------------------ MODULE HttpSend ------------------------------
(***************************************************************************)
(* One call of the data-plane client (client/client.go, sendWithOptions):  *)
(* a request with its retries, from the first attempt to the result that   *)
(* the handler gets.  Reads (get) are retried, writes (send) are not.      *)
(*                                                                         *)
(* Time is counted in units of 500 ms, the base of the backoff.            *)
(***************************************************************************)
EXTENDS Naturals

CONSTANTS
    Hint,      \* values of Retry-After, 0 for none or a date that has passed
    Duration   \* how long a request may take

ASSUME SendAssumption ==
    /\ Hint \subseteq Nat
    /\ Duration \subseteq Nat

MaxAttempts == 10
Window      == 120   \* one minute since the first attempt
MaxDelay    == 60    \* 30 seconds

\* What a request can end with.  "transport" is an error without a response,
\* "garbled" a 2xx whose body cannot be read or decoded.  The statuses are those
\* that the code tells apart; "501" stands for the 5xx it does not retry.
Status == {"ok", "garbled", "transport", "400", "403", "403role", "404", "408",
           "409", "429", "429quota", "500", "501"}

\* Results without a ServiceError: no token, or the context ended the backoff.
Local == {"token", "cancelled"}

VARIABLES
    reading,    \* sendOptions: both options for a GET, none for a write
    phase,      \* what the loop does next
    attempt,    \* attempts begun
    elapsed,    \* time since the first attempt
    waited,     \* the part of it spent in backoffs
    delay,      \* the backoff that is due
    result,     \* the last answer, and the result once the call is done
    performed   \* whether the service has carried out a write

vars == <<reading, phase, attempt, elapsed, waited, delay, result, performed>>

\* The attempts stay within the limit of the loop, and a backoff within 30 s.
TypeOK ==
    /\ reading \in BOOLEAN
    /\ phase \in {"token", "request", "backoff", "done"}
    /\ attempt \in 1 .. MaxAttempts
    /\ elapsed \in Nat
    /\ waited \in Nat
    /\ delay \in 0 .. MaxDelay
    /\ result \in Status \cup Local \cup {"none"}
    /\ performed \in BOOLEAN

Init ==
    /\ reading \in BOOLEAN
    /\ phase = "token"
    /\ attempt = 1
    /\ elapsed = 0
    /\ waited = 0
    /\ delay = 0
    /\ result = "none"
    /\ performed = FALSE

-----------------------------------------------------------------------------
(* The decisions of the client.                                            *)

Retryable == {"408", "429", "500"}

\* Mutant: the kind of the request does not matter.
ShouldRetryWrites(status, took) ==
    /\ attempt < MaxAttempts
    /\ elapsed + took < Window
    /\ status \in Retryable \cup {"403role"}

\* shouldRetry, asked when the answer has come.  A 403 is retried only if its
\* text speaks of authorization, a 429 only if it does not speak of quota.
ShouldRetry(status, took) ==
    /\ attempt < MaxAttempts
    /\ elapsed + took < Window
    /\ reading
    /\ status \in Retryable \cup {"403role"}

AtMost(n, m) == IF n < m THEN n ELSE m

\* The base doubled once for each attempt before this one.
Doubled == <<1, 2, 4, 8, 16, 32>>

\* Mutant: a hint of the service is followed whatever it says.
RetryDelayUncapped(hint) ==
    IF hint > 0
    THEN {hint}
    ELSE LET base == Doubled[AtMost(attempt, 6)] IN {base, base + 1}

\* retryDelay: the hint, or 500 ms doubled up to five times with less than
\* 500 ms of jitter; never more than 30 s.
RetryDelay(hint) ==
    IF hint > 0
    THEN {AtMost(hint, MaxDelay)}
    ELSE LET base == Doubled[AtMost(attempt, 6)] IN
         {AtMost(base + jitter, MaxDelay) : jitter \in {0, 1}}

\* Mutant: a request timeout counts as a refusal.
IsAmbiguousNarrow(r) == r \in {"garbled", "transport", "500", "501"} \cup Local

\* IsAmbiguousCreateError: no ServiceError, 408, or 5xx.
IsAmbiguousCreateError(r) ==
    r \in {"garbled", "transport", "408", "500", "501"} \cup Local

-----------------------------------------------------------------------------
(* The loop.                                                               *)

Done(r) ==
    /\ phase' = "done"
    /\ result' = r
    /\ delay' = 0

GetToken ==
    /\ phase = "token"
    /\ \/ phase' = "request" /\ UNCHANGED <<result, delay>>
       \/ Done("token")
    /\ UNCHANGED <<reading, attempt, elapsed, waited, performed>>

\* What the service has done with a write by the time of its answer: a 2xx says
\* that it is done, a 4xx other than 408 that it is not.
Performs(status) ==
    IF reading THEN {FALSE}
    ELSE IF status \in {"ok", "garbled"} THEN {TRUE}
    ELSE IF status \in {"transport", "408", "500", "501"} THEN BOOLEAN
    ELSE {FALSE}

Request ==
    /\ phase = "request"
    /\ \E status \in Status, took \in Duration, hint \in Hint :
          /\ elapsed' = elapsed + took
          /\ \E b \in Performs(status) : performed' = (performed \/ b)
          /\ IF ShouldRetry(status, took)
             THEN /\ phase' = "backoff"
                  /\ result' = status
                  /\ delay' \in RetryDelay(hint)
             ELSE Done(status)
    /\ UNCHANGED <<reading, attempt, waited>>

\* Mutant: attempt and started are set anew for every attempt.
BackoffForgets ==
    /\ phase = "backoff"
    /\ phase' = "token"
    /\ attempt' = 1
    /\ elapsed' = 0
    /\ waited' = 0
    /\ delay' = 0
    /\ UNCHANGED <<reading, result, performed>>

\* sleepContext: the timer fires, or the context ends first.
Backoff ==
    /\ phase = "backoff"
    /\ \/ /\ phase' = "token"
          /\ attempt' = attempt + 1
          /\ elapsed' = elapsed + delay
          /\ waited' = waited + delay
          /\ delay' = 0
          /\ UNCHANGED result
       \/ Done("cancelled") /\ UNCHANGED <<attempt, elapsed, waited>>
    /\ UNCHANGED <<reading, performed>>

Next == GetToken \/ Request \/ Backoff

Spec == Init /\ [][Next]_vars

(* A request ends, at the latest with the timeout of the HTTP client, and  *)
(* timers fire.                                                            *)
FairSpec == Spec /\ WF_vars(Next)

-----------------------------------------------------------------------------
(* Properties.                                                             *)

\* Whatever goes wrong, a write is sent at most once, so one Create asks for at
\* most one object.
WritesSentOnce == ~reading => attempt = 1 /\ phase # "backoff"

\* The backoffs of a call take less than the window and one delay, however slow
\* the requests are and whatever Retry-After says.
BackoffBounded == waited < Window + MaxDelay

\* When Create takes an error for a refusal, the service has not carried out
\* the PUT: recovery is skipped only when there is nothing to recover.
RefusedMeansNotDone ==
    phase = "done" /\ ~reading /\ performed =>
        result = "ok" \/ IsAmbiguousCreateError(result)

\* Every call ends, also when each answer asks for a retry.
CallEnds == <>(phase = "done")
=============================================================================
