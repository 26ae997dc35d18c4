------------------------------- MODULE Polling -------------------------------
(***************************************************************************)
(* The polling loops of the data-plane client (client/polling.go):         *)
(* WaitForSandbox, WaitForDiskImage and waitForDeletion, each a GET        *)
(* followed by a sleep until the answer is decisive.                       *)
(*                                                                         *)
(* Time is counted in seconds since the handler made its context, which    *)
(* ends after Timeout.  The loop is given the same Timeout and counts it   *)
(* from its own start.                                                     *)
(***************************************************************************)
EXTENDS Integers

CONSTANTS
    Timeout,   \* the timeout of the operation, in seconds
    Begin,     \* when the loop may start
    MaxGet     \* how long a GET takes at most, its retries included

ASSUME PollingAssumption ==
    /\ Timeout \in Nat \ {0}
    /\ Begin \subseteq 0 .. Timeout
    /\ MaxGet \in Nat

MaxInterval == 10

Kind == {"sandbox", "diskimage", "deletion"}

\* "hidden" is an object that GET does not find yet.  "running" stands for
\* the disk image states Ready and Succeeded as well.
Remote == {"hidden", "creating", "running", "suspended", "failed", "deleting", "gone"}

VARIABLES
    kind,      \* which loop
    begun,     \* when the loop started
    now,
    phase,     \* "send" and "get": the GET is under way, before and after the
               \* service has read the object
    left,      \* time until the sleep ends, or until the GET must have ended
    interval,  \* the next sleep
    answer,    \* what the service has read for the GET under way
    last,      \* lastState of the loop, "" before the first
    result,    \* how the loop has ended
    remote,    \* the object
    age        \* how long the object has been in a decisive state

loop == <<kind, begun, phase, left, interval, answer, last, result>>
vars == <<kind, begun, now, phase, left, interval, answer, last, result, remote, age>>

-----------------------------------------------------------------------------
(* The decisions of the loops.                                             *)

\* GET answers 404 for a hidden and for a gone object.  A creation waits on;
\* a deletion is done.
Verdict(s) ==
    CASE kind = "sandbox" /\ s = "running"                  -> "ok"
      [] kind = "sandbox" /\ s \in {"failed", "deleting"}   -> "terminal"
      [] kind = "diskimage" /\ s = "running"                -> "ok"
      [] kind = "diskimage" /\ s = "failed"                 -> "terminal"
      [] kind = "deletion" /\ s \in {"hidden", "gone"}      -> "ok"
      [] OTHER                                              -> "go on"

Decisive(s) == Verdict(s) # "go on"

\* Mutant: exponential backoff without a cap.
NextIntervalDoubled == 2 * interval

NextInterval == IF interval < MaxInterval THEN interval + 1 ELSE MaxInterval

\* Mutant: the sleep does not watch the context.
ContextEndsGet == now >= Timeout /\ phase \in {"send", "get"}

\* The context ends a GET and a sleep.
ContextEnds == now >= Timeout /\ phase \in {"send", "get", "sleep"}

\* The interval stays between 2 s and its cap, and a loop ends in one of the
\* ways that the code knows.
TypeOK ==
    /\ kind \in Kind
    /\ begun \in Begin
    /\ now \in Nat
    /\ phase \in {"send", "get", "sleep", "done"}
    /\ left \in 0 .. MaxInterval + MaxGet
    /\ interval \in 2 .. MaxInterval
    /\ answer \in Remote
    /\ last \in Remote \cup {""}
    /\ result \in {"", "ok", "terminal", "error", "late", "cancelled"}
    /\ remote \in Remote
    /\ age \in Nat

Init ==
    /\ kind \in Kind
    /\ begun \in Begin
    /\ now = begun
    /\ phase = "send"
    /\ left = MaxGet
    /\ interval = 2
    /\ answer = "hidden"
    /\ last = ""
    /\ result = ""
    /\ remote \in IF kind = "deletion"
                  THEN {"running", "suspended", "failed", "deleting", "gone"}
                  ELSE {"hidden", "creating"}
    /\ age = 0

-----------------------------------------------------------------------------
(* The loop.                                                               *)

Done(r) ==
    /\ phase' = "done"
    /\ result' = r

\* The service reads the object for the GET.
Serve ==
    /\ phase = "send"
    /\ phase' = "get"
    /\ answer' = remote
    /\ UNCHANGED <<kind, begun, now, left, interval, last, result, remote, age>>

\* The answer arrives.  A deletion keeps no lastState.
Receive ==
    /\ phase = "get"
    /\ ~ContextEnds
    /\ last' = IF kind = "deletion" \/ answer \in {"hidden", "gone"} THEN last ELSE answer
    /\ IF Decisive(answer) THEN Done(Verdict(answer)) /\ UNCHANGED left
       ELSE IF now > begun + Timeout THEN Done("late") /\ UNCHANGED left
       ELSE phase' = "sleep" /\ left' = interval /\ UNCHANGED result
    /\ UNCHANGED <<kind, begun, now, interval, answer, remote, age>>

\* Any error but 404, after the retries of the client.
GetFails ==
    /\ phase \in {"send", "get"}
    /\ Done("error")
    /\ UNCHANGED <<kind, begun, now, left, interval, answer, last, remote, age>>

Wake ==
    /\ phase = "sleep"
    /\ left = 0
    /\ phase' = "send"
    /\ left' = MaxGet
    /\ interval' = NextInterval
    /\ UNCHANGED <<kind, begun, now, answer, last, result, remote, age>>

Cancelled ==
    /\ ContextEnds
    /\ Done("cancelled")
    /\ UNCHANGED <<kind, begun, now, left, interval, answer, last, remote, age>>

-----------------------------------------------------------------------------
(* Time and the service.                                                   *)

\* No time passes while a timer is due.
Tick ==
    /\ phase # "done"
    /\ left > 0
    /\ ~ContextEnds
    /\ now' = now + 1
    /\ left' = left - 1
    /\ age' = IF Decisive(remote) THEN age + 1 ELSE 0
    /\ UNCHANGED <<kind, begun, phase, interval, answer, last, result, remote>>

Moves(s) == CASE s = "hidden"    -> {"creating"}
              [] s = "creating"  -> {"running", "failed", "deleting"}
              [] s = "running"   -> {"suspended", "failed", "deleting"}
              [] s = "suspended" -> {"running", "deleting"}
              [] s = "failed"    -> {"deleting"}
              [] s = "deleting"  -> {"gone"}
              [] s = "gone"      -> {}

\* A disk image is not suspended.
ServiceMoves ==
    /\ phase # "done"
    /\ remote' \in Moves(remote)
    /\ kind = "diskimage" => remote' # "suspended"
    /\ age' = IF Decisive(remote') THEN age ELSE 0
    /\ UNCHANGED <<loop, now>>

Next == Serve \/ Receive \/ GetFails \/ Wake \/ Cancelled \/ Tick \/ ServiceMoves

Spec == Init /\ [][Next]_vars

-----------------------------------------------------------------------------
(* Properties.                                                             *)

\* An object that has been in a decisive state for the longest interval and two
\* GETs has been seen: the first GET may have been served just before.
SeesSoon == phase # "done" => age <= MaxInterval + 2 * MaxGet

\* No loop outlives the timeout of the operation, however late it started and
\* whatever it sees.
OnTime == now <= Timeout
=============================================================================
