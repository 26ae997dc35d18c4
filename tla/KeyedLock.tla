------------------------------ MODULE KeyedLock ------------------------------
(***************************************************************************)
(* What LockCreate promises: among the creates of one target one at a time *)
(* goes on, and each gets its turn.                                        *)
(***************************************************************************)
CONSTANTS Target, Caller

VARIABLES
    asked,      \* the pairs of a target and a caller that waits for it
    held        \* the pairs of a target and a caller that has it

lockVars == <<asked, held>>

LockTypeOK == asked \subseteq Target \X Caller /\ held \subseteq Target \X Caller

LockInit == asked = {} /\ held = {}

Ask(t, c) ==
    /\ <<t, c>> \notin asked \cup held
    /\ asked' = asked \cup {<<t, c>>}
    /\ UNCHANGED held

Acquire(t, c) ==
    /\ <<t, c>> \in asked
    /\ \A h \in held : h[1] # t
    /\ held' = held \cup {<<t, c>>}
    /\ asked' = asked \ {<<t, c>>}

Release(t, c) ==
    /\ <<t, c>> \in held
    /\ held' = held \ {<<t, c>>}
    /\ UNCHANGED asked

LockNext ==
    \E t \in Target, c \in Caller : Ask(t, c) \/ Acquire(t, c) \/ Release(t, c)

LockSpec ==
    /\ LockInit /\ [][LockNext]_lockVars
    /\ \A t \in Target, c \in Caller : SF_lockVars(Acquire(t, c))
    /\ \A t \in Target, c \in Caller : WF_lockVars(Release(t, c))

\* A target has one holder, whoever waits.
Exclusive == \A g, h \in held : g[1] = h[1] => g = h
=============================================================================
