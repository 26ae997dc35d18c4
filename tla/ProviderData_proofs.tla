------------------------- MODULE ProviderData_proofs -------------------------
(***************************************************************************)
(* Theorems about ProviderData: Configure makes the chain of credentials   *)
(* that the documents list, the cache gives concurrent calls one client,   *)
(* LockCreate implements the safety part of KeyedLock, and an import       *)
(* reaches what was created, for any number of calls, provider blocks,     *)
(* scopes, kinds and names.                                                *)
(***************************************************************************)
EXTENDS ProviderData, FiniteSetTheorems, SequenceTheorems, TLAPS

-----------------------------------------------------------------------------
(* The inductive invariant.                                                *)

Named == {"idle", "refused", "made", "ready", "waiting", "creating", "created", "ended"}

\* The shape of the state, as far as the arguments below need it.
Shape ==
    /\ config \in Config
    /\ DOMAIN pc = Call /\ DOMAIN client = Call /\ DOMAIN mutex = Call
    /\ DOMAIN scope = DOMAIN config.uses
    /\ \A c \in Call : IF c \in DOMAIN config.uses THEN pc[c] \in Named
                                                   ELSE pc[c] = "none"

\* Only an import changes a scope, and only a create that is over is imported.
ScopeInv ==
    \A c \in Call :
        /\ pc[c] \in Named /\ c \notin imported => scope[c] = config.uses[c].scope
        /\ pc[c] \in {"waiting", "creating", "created"} => c \notin imported

\* A cached client is filed under its key, a client that is not yet stored has
\* the key of its call, and a call that went on has the cached client.
ClientInv ==
    /\ \A k \in DOMAIN clients : clients[k].key = k
    /\ \A c \in Call : pc[c] = "made" => client[c].key = ClientKey(scope[c])
    /\ \A c \in Call : pc[c] \in {"ready", "waiting", "creating"} =>
          /\ ClientKey(scope[c]) \in DOMAIN clients
          /\ client[c] = clients[ClientKey(scope[c])]

\* A mutex is never replaced, a call waits for the one of its key, and it has one
\* holder.
MutexInv ==
    /\ \A c \in Call : pc[c] \in {"waiting", "creating"} =>
          LockKey(c) \in DOMAIN locks /\ mutex[c] = locks[LockKey(c)]
    /\ holder = {c \in Call : pc[c] = "creating"}
    /\ \A c, d \in holder : mutex[c] = mutex[d] => c = d

\* Nothing happens before Configure, which leaves the documented chain.
PhaseInv ==
    /\ phase \in {"new", "configured", "failed"}
    /\ phase # "configured" =>
          /\ chain = << >> /\ DOMAIN clients = {}
          /\ \A c \in Call : pc[c] \in {"idle", "none"}
    /\ ChainAsDocumented

\* What the calls and the maps hold are clients of their keys and mutexes.
HandleInv ==
    /\ \A c \in Call : pc[c] \in {"made", "ready", "waiting", "creating"} =>
          client[c] \in ClientOf(ClientKey(scope[c]))
    /\ \A k \in DOMAIN clients : clients[k] \in ClientOf(k)
    /\ \A c \in Call : pc[c] \in {"waiting", "creating", "created", "ended"} =>
          mutex[c] \in Call
    /\ \A k \in DOMAIN locks : locks[k] \in Call

\* Client has let a call with this scope pass.
Accepted(s) == ~ScopeError(s) /\ ~HostError(s)

Passed == {"made", "ready", "waiting", "creating", "created", "ended"}

\* An imported call has the scope that the import made of an accepted one, and has
\* not been refused.
ImportInv ==
    /\ imported \subseteq DOMAIN config.uses
    /\ \A c \in Call : pc[c] \in Passed \/ c \in imported =>
          Accepted(config.uses[c].scope)
    /\ \A c \in imported : /\ pc[c] \in {"idle", "made", "ready"}
                             /\ scope[c] = ImportedScope(config.uses[c].scope)

IInv ==
    /\ Shape /\ ScopeInv /\ ClientInv /\ MutexInv
    /\ PhaseInv /\ HandleInv /\ ImportInv

-----------------------------------------------------------------------------
(* Initial states, and steps.                                              *)

LEMMA InitIInv == Init => IInv
  <1> SUFFICES ASSUME Init PROVE IInv
    OBVIOUS
  <1>1. Shape
    BY DEF Init, Shape, Named
  <1>2. ScopeInv
    BY DEF Init, ScopeInv, Named
  <1>3. ClientInv /\ MutexInv
    BY DEF Init, ClientInv, MutexInv
  <1>4. PhaseInv /\ HandleInv
    BY DEF Init, PhaseInv, HandleInv, ChainAsDocumented
  <1>5. ImportInv
    BY DEF Init, ImportInv, Passed
  <1>6. QED
    BY <1>1, <1>2, <1>3, <1>4, <1>5 DEF IInv

\* The ways a step can go.
LEMMA StepCases ==
    ASSUME [Next]_vars
    PROVE  \/ Configure \/ UNCHANGED vars
           \/ \E c \in Call : \/ Refuse(c) \/ Load(c) \/ LoadOrStoreClient(c)
                              \/ LoadOrStoreMutex(c) \/ Lock(c) \/ Unlock(c)
                              \/ ImportState(c)
  BY DEF Next, CallStep

\* A call that is there has a scope.
LEMMA UsesNamed ==
    ASSUME Shape
    PROVE  \A c \in Call : pc[c] \in Named => c \in DOMAIN scope
  BY DEF Shape, Named

LEMMA StepShape == Shape /\ [Next]_vars => Shape'
  <1> SUFFICES ASSUME Shape, [Next]_vars PROVE Shape'
    OBVIOUS
  <1>1. CASE Configure \/ UNCHANGED vars
    BY <1>1 DEF Configure, vars, callVars, Shape
  <1>2. ASSUME NEW c \in Call,
               \/ Refuse(c) \/ Load(c) \/ LoadOrStoreClient(c) \/ LoadOrStoreMutex(c)
               \/ Lock(c) \/ Unlock(c) \/ ImportState(c)
        PROVE  Shape'
    <2>1. config' = config /\ DOMAIN scope' = DOMAIN scope
      BY <1>2 DEF Refuse, Load, LoadOrStoreClient, LoadOrStoreMutex, Lock, Unlock,
         ImportState, callVars
    <2>2. DOMAIN client' = Call /\ DOMAIN mutex' = Call
      BY <1>2 DEF Shape, Refuse, Load, LoadOrStoreClient, LoadOrStoreMutex, Lock,
         Unlock, ImportState, callVars
    <2>3. pc[c] \in Named
      BY <1>2 DEF Refuse, Load, LoadOrStoreClient, LoadOrStoreMutex, Lock, Unlock,
         ImportState, Named
    <2>4. \E place \in Named : pc' = [pc EXCEPT ![c] = place]
      BY <1>2 DEF Refuse, Load, LoadOrStoreClient, LoadOrStoreMutex, Lock, Unlock,
         ImportState, Named
    <2>5. c \in DOMAIN config.uses
      BY <2>3 DEF Shape, Named
    <2>6. QED
      BY <2>1, <2>2, <2>4, <2>5 DEF Shape
  <1>3. QED
    BY <1>1, <1>2, StepCases

LEMMA StepScopeInv == Shape /\ ScopeInv /\ [Next]_vars => ScopeInv'
  <1> SUFFICES ASSUME Shape, ScopeInv, [Next]_vars PROVE ScopeInv'
    OBVIOUS
  <1>1. CASE Configure \/ UNCHANGED vars
    BY <1>1 DEF Configure, vars, callVars, ScopeInv
  <1>2. ASSUME NEW c \in Call, ImportState(c) PROVE ScopeInv'
    <2>1. /\ config' = config /\ imported' = imported \cup {c}
          /\ \A d \in Call \ {c} : pc'[d] = pc[d]
          /\ \A d \in DOMAIN scope \ {c} : scope'[d] = scope[d]
          /\ pc'[c] = "idle"
      BY <1>2 DEF ImportState, callVars, Shape
    <2>2. QED
      BY <2>1, UsesNamed DEF ScopeInv
  <1>3. ASSUME NEW c \in Call,
               \/ Refuse(c) \/ Load(c) \/ LoadOrStoreClient(c) \/ LoadOrStoreMutex(c)
               \/ Lock(c) \/ Unlock(c)
        PROVE  ScopeInv'
    <2>1. config' = config /\ imported' = imported /\ scope' = scope
      BY <1>3 DEF Refuse, Load, LoadOrStoreClient, LoadOrStoreMutex, Lock, Unlock,
         callVars
    <2>2. \A d \in Call \ {c} : pc'[d] = pc[d]
      BY <1>3 DEF Shape, Refuse, Load, LoadOrStoreClient, LoadOrStoreMutex, Lock, Unlock
    <2>3. pc[c] \in Named
      BY <1>3 DEF Refuse, Load, LoadOrStoreClient, LoadOrStoreMutex, Lock, Unlock, Named
    <2>4. pc'[c] \in {"waiting", "creating", "created"} => c \notin imported
      BY <1>3 DEF Shape, ScopeInv, Refuse, Load, LoadOrStoreClient, LoadOrStoreMutex,
         Lock, Unlock, Creates
    <2>5. QED
      BY <2>1, <2>2, <2>3, <2>4 DEF ScopeInv
  <1>4. QED
    BY <1>1, <1>2, <1>3, StepCases

-----------------------------------------------------------------------------
(* The cache.                                                              *)

LEMMA StepClientInv == Shape /\ ClientInv /\ [Next]_vars => ClientInv'
  <1> SUFFICES ASSUME Shape, ClientInv, [Next]_vars PROVE ClientInv'
    OBVIOUS
  <1> USE DEF ClientKey
  <1>1. CASE Configure \/ UNCHANGED vars
    BY <1>1 DEF Configure, vars, callVars, ClientInv
  <1>2. ASSUME NEW c \in Call, Load(c) PROVE ClientInv'
    <2>1. /\ clients' = clients /\ scope' = scope
          /\ \A d \in Call \ {c} : pc'[d] = pc[d] /\ client'[d] = client[d]
      BY <1>2 DEF Load, Shape
    <2>2. \/ /\ pc'[c] = "ready" /\ ClientKey(scope[c]) \in DOMAIN clients
             /\ client'[c] = clients[ClientKey(scope[c])]
          \/ pc'[c] = "made" /\ client'[c] = NewClient(c)
      BY <1>2 DEF Load, Shape
    <2>3. NewClient(c).key = ClientKey(scope[c])
      BY DEF NewClient
    <2>4. QED
      BY <2>1, <2>2, <2>3 DEF ClientInv
  <1>3. ASSUME NEW c \in Call, LoadOrStoreClient(c) PROVE ClientInv'
    <2> DEFINE key    == ClientKey(scope[c])
               actual == IF key \in DOMAIN clients THEN clients[key] ELSE client[c]
    <2>1. /\ pc[c] = "made" /\ scope' = scope
          /\ clients' = Put(clients, key, actual)
          /\ client'[c] = actual /\ pc'[c] = "ready"
          /\ \A d \in Call \ {c} : pc'[d] = pc[d] /\ client'[d] = client[d]
      BY <1>3 DEF LoadOrStoreClient, Shape
    <2>2. actual.key = key
      BY <2>1 DEF ClientInv
    <2>3. /\ DOMAIN clients' = DOMAIN clients \cup {key} /\ clients'[key] = actual
          /\ \A j \in DOMAIN clients : clients'[j] = clients[j]
      BY <2>1 DEF Put
    <2> HIDE DEF actual, key
    <2>4. ClientKey(scope[c]) = key
      BY DEF key
    <2>5. QED
      BY <2>1, <2>2, <2>3, <2>4 DEF ClientInv
  <1>4. ASSUME NEW c \in Call, ImportState(c) PROVE ClientInv'
    <2>1. /\ clients' = clients /\ client' = client /\ pc'[c] = "idle"
          /\ \A d \in Call \ {c} : pc'[d] = pc[d]
          /\ \A d \in DOMAIN scope \ {c} : scope'[d] = scope[d]
      BY <1>4 DEF ImportState, Shape
    <2>2. \A d \in Call : pc[d] \in {"made", "ready", "waiting", "creating"} =>
              d \in DOMAIN scope
      BY UsesNamed DEF Named
    <2>3. QED
      BY <2>1, <2>2 DEF ClientInv
  <1>5. ASSUME NEW c \in Call,
               Refuse(c) \/ LoadOrStoreMutex(c) \/ Lock(c) \/ Unlock(c)
        PROVE  ClientInv'
    <2>1. /\ clients' = clients /\ client' = client /\ scope' = scope
          /\ \A d \in Call \ {c} : pc'[d] = pc[d]
      BY <1>5 DEF Refuse, LoadOrStoreMutex, Lock, Unlock, Shape
    <2>2. \/ pc'[c] \in {"refused", "created", "ended"}
          \/ /\ pc'[c] \in {"waiting", "creating"}
             /\ pc[c] \in {"ready", "waiting"}
      BY <1>5 DEF Refuse, LoadOrStoreMutex, Lock, Unlock, Shape
    <2>3. QED
      BY <2>1, <2>2 DEF ClientInv
  <1>6. QED
    BY <1>1, <1>2, <1>3, <1>4, <1>5, StepCases

-----------------------------------------------------------------------------
(* The create locks.                                                       *)

LEMMA StepMutexInv == Shape /\ MutexInv /\ [Next]_vars => MutexInv'
  <1> SUFFICES ASSUME Shape, MutexInv, [Next]_vars PROVE MutexInv'
    OBVIOUS
  <1>1. CASE Configure \/ UNCHANGED vars
    BY <1>1 DEF Configure, vars, callVars, MutexInv, LockKey
  <1>2. ASSUME NEW c \in Call, LoadOrStoreMutex(c) PROVE MutexInv'
    <2> DEFINE key    == LockKey(c)
               actual == IF key \in DOMAIN locks THEN locks[key] ELSE c
    <2>1. /\ pc[c] = "ready" /\ scope' = scope /\ config' = config /\ holder' = holder
          /\ locks' = Put(locks, key, actual)
          /\ mutex'[c] = actual /\ pc'[c] = "waiting"
          /\ \A d \in Call \ {c} : pc'[d] = pc[d] /\ mutex'[d] = mutex[d]
      BY <1>2 DEF LoadOrStoreMutex, callVars, Shape
    <2>2. \A d \in Call : LockKey(d)' = LockKey(d)
      BY <2>1 DEF LockKey
    <2>3. /\ DOMAIN locks' = DOMAIN locks \cup {key} /\ locks'[key] = actual
          /\ \A j \in DOMAIN locks : locks'[j] = locks[j]
      BY <2>1 DEF Put
    <2>4. c \notin holder
      BY <2>1 DEF MutexInv
    <2>5. holder' = {d \in Call : pc'[d] = "creating"}
      BY <2>1, <2>4 DEF MutexInv
    <2>6. LockKey(c) = key
      OBVIOUS
    <2> HIDE DEF actual, key
    <2>7. \A d \in Call : pc'[d] \in {"waiting", "creating"} =>
              LockKey(d)' \in DOMAIN locks' /\ mutex'[d] = locks'[LockKey(d)']
      BY <2>1, <2>2, <2>3, <2>6 DEF MutexInv
    <2>8. \A d, e \in holder' : mutex'[d] = mutex'[e] => d = e
      BY <2>1, <2>4 DEF MutexInv
    <2>9. QED
      BY <2>5, <2>7, <2>8 DEF MutexInv
  <1>3. ASSUME NEW c \in Call, Lock(c) PROVE MutexInv'
    <2>1. /\ pc[c] = "waiting" /\ pc'[c] = "creating" /\ holder' = holder \cup {c}
          /\ \A d \in holder : mutex[d] # mutex[c]
          /\ \A d \in Call \ {c} : pc'[d] = pc[d]
          /\ scope' = scope /\ config' = config /\ mutex' = mutex /\ locks' = locks
      BY <1>3 DEF Lock, callVars, Shape
    <2>2. \A d \in Call : LockKey(d)' = LockKey(d)
      BY <2>1 DEF LockKey
    <2>3. QED
      BY <2>1, <2>2 DEF MutexInv
  <1>4. ASSUME NEW c \in Call, Unlock(c) PROVE MutexInv'
    <2>1. /\ pc'[c] \in {"created", "ended"} /\ holder' = holder \ {c}
          /\ \A d \in Call \ {c} : pc'[d] = pc[d]
          /\ scope' = scope /\ config' = config /\ mutex' = mutex /\ locks' = locks
      BY <1>4 DEF Unlock, callVars, Shape
    <2>2. \A d \in Call : LockKey(d)' = LockKey(d)
      BY <2>1 DEF LockKey
    <2>3. QED
      BY <2>1, <2>2 DEF MutexInv
  <1>5. ASSUME NEW c \in Call,
               Refuse(c) \/ Load(c) \/ LoadOrStoreClient(c) \/ ImportState(c)
        PROVE  MutexInv'
    <2>1. /\ pc[c] \in {"idle", "made", "created"}
          /\ \E place \in {"refused", "ready", "made", "idle"} :
                pc' = [pc EXCEPT ![c] = place]
      BY <1>5 DEF Refuse, Load, LoadOrStoreClient, ImportState
    <2>2. /\ config' = config /\ mutex' = mutex /\ locks' = locks /\ holder' = holder
          /\ scope' = scope \/ scope' = [scope EXCEPT ![c] = ImportedScope(scope[c])]
      BY <1>5 DEF Refuse, Load, LoadOrStoreClient, ImportState, callVars
    <2>3. /\ pc'[c] \in {"refused", "ready", "made", "idle"}
          /\ \A d \in Call \ {c} : pc'[d] = pc[d]
      BY <2>1 DEF Shape
    <2>4. \A d \in Call \ {c} : pc[d] \in Named => LockKey(d)' = LockKey(d)
      BY <2>2, UsesNamed DEF LockKey
    <2>5. \A d \in Call : pc[d] \in {"waiting", "creating"} => pc[d] \in Named
      BY DEF Named
    <2>6. QED
      BY <2>1, <2>2, <2>3, <2>4, <2>5 DEF MutexInv
  <1>6. QED
    BY <1>1, <1>2, <1>3, <1>4, <1>5, StepCases

-----------------------------------------------------------------------------
(* The chain of credentials.                                               *)

\* One or no element, as a sequence.
LEMMA Optional ==
    ASSUME NEW S, NEW x \in S, NEW p \in BOOLEAN, NEW s,
           s = IF p THEN <<x>> ELSE << >>
    PROVE  /\ s \in Seq(S)
           /\ Len(s) = IF p THEN 1 ELSE 0
           /\ p => s[1] = x
  <1>1. CASE p
    <2>1. s = <<x>>
      BY <1>1
    <2>2. QED
      BY <1>1, <2>1
  <1>2. CASE ~p
    <2>1. s = << >>
      BY <1>2
    <2>2. QED
      BY <1>2, <2>1
  <1>3. QED
    BY <1>1, <1>2

\* A chain has x, y and z in this order, each if it is wanted.
InOrder(ch, x, y, z, p, q, r) ==
    /\ Len(ch) > 0 <=> p \/ q \/ r
    /\ \A i \in DOMAIN ch :
          \/ p /\ ch[i] = x
          \/ q /\ ch[i] = y
          \/ r /\ ch[i] = z
    /\ p => \E i \in DOMAIN ch : ch[i] = x
    /\ q => \E i \in DOMAIN ch : ch[i] = y
    /\ r => \E i \in DOMAIN ch : ch[i] = z
    /\ \A i, j \in DOMAIN ch : i < j =>
          \/ p /\ q /\ ch[i] = x /\ ch[j] = y
          \/ p /\ r /\ ch[i] = x /\ ch[j] = z
          \/ q /\ r /\ ch[i] = y /\ ch[j] = z

LEMMA ChainOfThree ==
    ASSUME NEW x, NEW y, NEW z, NEW p \in BOOLEAN, NEW q \in BOOLEAN, NEW r \in BOOLEAN,
           NEW ch,
           ch = (IF p THEN <<x>> ELSE << >>) \o (IF q THEN <<y>> ELSE << >>)
                \o (IF r THEN <<z>> ELSE << >>)
    PROVE  InOrder(ch, x, y, z, p, q, r)
  <1> DEFINE S == {x, y, z}
             s == IF p THEN <<x>> ELSE << >>
             t == IF q THEN <<y>> ELSE << >>
             u == IF r THEN <<z>> ELSE << >>
             st == s \o t
             n == IF p THEN 1 ELSE 0
             m == IF q THEN 1 ELSE 0
             l == IF r THEN 1 ELSE 0
  <1>1. s \in Seq(S) /\ Len(s) = n /\ (p => s[1] = x)
    BY Optional
  <1>2. t \in Seq(S) /\ Len(t) = m /\ (q => t[1] = y)
    BY Optional
  <1>3. u \in Seq(S) /\ Len(u) = l /\ (r => u[1] = z)
    BY Optional
  <1>4. n \in {0, 1} /\ m \in {0, 1} /\ l \in {0, 1}
    OBVIOUS
  <1>5. (p <=> n = 1) /\ (q <=> m = 1) /\ (r <=> l = 1)
    OBVIOUS
  <1>6. ch = s \o t \o u
    OBVIOUS
  <1> HIDE DEF S, s, t, u, n, m, l
  <1>7. /\ st \in Seq(S) /\ Len(st) = n + m
        /\ \A i \in 1 .. n + m : st[i] = IF i <= n THEN s[i] ELSE t[i - n]
    BY <1>1, <1>2, ConcatProperties, Zenon
  <1>8. ch = st \o u
    BY <1>6
  <1> HIDE DEF st
  <1>9. /\ ch \in Seq(S) /\ Len(ch) = n + m + l
        /\ \A i \in 1 .. n + m + l : ch[i] = IF i <= n + m THEN st[i] ELSE u[i - (n + m)]
    <2>1. /\ ch \in Seq(S) /\ Len(ch) = Len(st) + Len(u)
          /\ \A i \in 1 .. Len(st) + Len(u) :
                ch[i] = IF i <= Len(st) THEN st[i] ELSE u[i - Len(st)]
      <3>1. /\ st \o u \in Seq(S) /\ Len(st \o u) = Len(st) + Len(u)
            /\ \A i \in 1 .. Len(st) + Len(u) :
                  (st \o u)[i] = IF i <= Len(st) THEN st[i] ELSE u[i - Len(st)]
        BY <1>3, <1>7, ConcatProperties, Zenon
      <3>2. QED
        BY <3>1, <1>8
    <2>2. QED
      BY <2>1, <1>3, <1>7
  <1>10. DOMAIN ch = 1 .. n + m + l
    BY <1>9, LenProperties
  <1>11. p => 1 \in DOMAIN ch /\ ch[1] = x
    BY <1>1, <1>7, <1>9, <1>10, <1>4, <1>5
  <1>12. q => n + 1 \in DOMAIN ch /\ ch[n + 1] = y
    <2> SUFFICES ASSUME q PROVE n + 1 \in DOMAIN ch /\ ch[n + 1] = y
      OBVIOUS
    <2>1. n + 1 \in 1 .. n + m /\ n + 1 \in 1 .. n + m + l /\ n + 1 <= n + m
      BY <1>4, <1>5
    <2>2. ch[n + 1] = st[n + 1]
      BY <2>1, <1>9
    <2>3. st[n + 1] = t[(n + 1) - n]
      <3>1. ~(n + 1 <= n)
        BY <1>4
      <3>2. st[n + 1] = IF n + 1 <= n THEN s[n + 1] ELSE t[(n + 1) - n]
        BY <2>1, <1>7, Zenon
      <3>3. QED
        BY <3>1, <3>2
    <2>4. (n + 1) - n = 1
      BY <1>4
    <2>5. QED
      BY <2>1, <2>2, <2>3, <2>4, <1>2, <1>10
  <1>13. r => n + m + 1 \in DOMAIN ch /\ ch[n + m + 1] = z
    BY <1>3, <1>9, <1>10, <1>4, <1>5
  <1>14. \A i \in DOMAIN ch :
            \/ p /\ i = 1
            \/ q /\ i = n + 1
            \/ r /\ i = n + m + 1
    BY <1>10, <1>4, <1>5
  <1>15. Len(ch) > 0 <=> p \/ q \/ r
    BY <1>9, <1>4, <1>5
  <1>16. \A i, j \in DOMAIN ch : i < j =>
            \/ p /\ q /\ ch[i] = x /\ ch[j] = y
            \/ p /\ r /\ ch[i] = x /\ ch[j] = z
            \/ q /\ r /\ ch[i] = y /\ ch[j] = z
    <2> SUFFICES ASSUME NEW i \in DOMAIN ch, NEW j \in DOMAIN ch, i < j
                 PROVE  \/ p /\ q /\ ch[i] = x /\ ch[j] = y
                        \/ p /\ r /\ ch[i] = x /\ ch[j] = z
                        \/ q /\ r /\ ch[i] = y /\ ch[j] = z
      OBVIOUS
    <2>1. i \in Nat /\ j \in Nat
      BY <1>10
    <2>2. CASE p /\ i = 1
      <3>1. ~(p /\ j = 1) /\ ch[i] = x
        BY <2>1, <2>2, <1>11
      <3>2. QED
        BY <3>1, <2>2, <1>12, <1>13, <1>14
    <2>3. CASE q /\ i = n + 1
      <3>1. r /\ j = n + m + 1
        BY <2>1, <2>3, <1>14, <1>4, <1>5
      <3>2. QED
        BY <3>1, <2>3, <1>12, <1>13
    <2>4. CASE r /\ i = n + m + 1
      BY <2>1, <2>4, <1>10, <1>4, <1>5
    <2>5. QED
      BY <2>2, <2>3, <2>4, <1>14
  <1>17. QED
    BY <1>11, <1>12, <1>13, <1>14, <1>15, <1>16 DEF InOrder

\* The switch takes one of the candidates.
LEMMA FirstIsCandidate ==
    ASSUME NEW modes, modes \cap Mode # {}
    PROVE  FirstOf(modes) \in modes \cap Mode
  <1> DEFINE First(i) == Modes[i] \in modes /\ \A j \in 1 .. i - 1 : Modes[j] \notin modes
  <1>1. DOMAIN Modes = 1 .. 3
    BY DEF Modes
  <1>2. PICK k \in 1 .. 3 : Modes[k] \in modes
    BY <1>1 DEF Mode
  <1>3. First(1) \/ First(2) \/ First(3)
    BY <1>2
  <1>4. \E i \in DOMAIN Modes : First(i)
    BY <1>1, <1>3
  <1>5. First(CHOOSE i \in DOMAIN Modes : First(i))
        /\ (CHOOSE i \in DOMAIN Modes : First(i)) \in DOMAIN Modes
    BY <1>4
  <1>6. QED
    BY <1>5 DEF FirstOf, Mode

\* What NewCredential selects when Configure found at most one explicit mode.
LEMMA SelectedMode ==
    ASSUME NEW b, NEW env, ~ConfigureError(b)
    PROVE  /\ Selected(b, env) \in Mode \cup {Null}
           /\ Selected(b, env) = Null => Explicit(b) = {} /\ env \cap Mode = {}
           /\ Selected(b, env) # Null =>
                 IF Explicit(b) # {} THEN Explicit(b) = {Selected(b, env)}
                                     ELSE Selected(b, env) \in env
  <1>1. Explicit(b) \subseteq Mode
    BY DEF Explicit
  <1>2. Null \notin Mode
    BY MarkAssumption DEF MarkAssumption
  <1>3. CASE Explicit(b) # {}
    <2>1. Selected(b, env) = FirstOf(Explicit(b))
      BY <1>3 DEF Selected
    <2>2. Selected(b, env) \in Explicit(b)
      BY <1>1, <1>3, <2>1, FirstIsCandidate
    <2>3. Explicit(b) = {Selected(b, env)}
      <3>1. IsFiniteSet(Mode)
        <4>1. Mode = {"secret", "certificate", "oidc"}
          BY DEF Mode, Modes
        <4>2. IsFiniteSet({"secret"})
          BY FS_Singleton
        <4>3. IsFiniteSet({"secret"} \cup {"certificate"})
          BY <4>2, FS_AddElement
        <4>4. IsFiniteSet({"secret"} \cup {"certificate"} \cup {"oidc"})
          BY <4>3, FS_AddElement
        <4>5. Mode = {"secret"} \cup {"certificate"} \cup {"oidc"}
          BY <4>1
        <4>6. QED
          BY <4>4, <4>5
      <3>2. IsFiniteSet(Explicit(b))
        BY <1>1, <3>1, FS_Subset
      <3>3. Cardinality({Selected(b, env)}) = 1
        BY FS_Singleton
      <3>4. Cardinality(Explicit(b)) \in Nat /\ ~(Cardinality(Explicit(b)) > 1)
        BY <3>2, FS_CardinalityType DEF ConfigureError
      <3>5. Cardinality(Explicit(b)) <= 1
        BY <3>4
      <3>6. {Selected(b, env)} \subseteq Explicit(b)
        BY <2>2
      <3>7. Cardinality({Selected(b, env)}) <= Cardinality(Explicit(b))
        BY <3>2, <3>6, FS_Subset
      <3>8. Cardinality({Selected(b, env)}) = Cardinality(Explicit(b))
        BY <3>3, <3>4, <3>5, <3>7
      <3>9. QED
        BY <3>2, <3>6, <3>8, FS_Subset
    <2>4. QED
      BY <1>1, <1>2, <1>3, <2>2, <2>3
  <1>4. CASE Explicit(b) = {} /\ env \cap Mode # {}
    <2>1. Selected(b, env) = FirstOf(env \cap Mode)
      BY <1>4 DEF Selected
    <2>2. Selected(b, env) \in env \cap Mode
      BY <1>4, <2>1, FirstIsCandidate
    <2>3. QED
      BY <1>2, <1>4, <2>2
  <1>5. CASE Explicit(b) = {} /\ env \cap Mode = {}
    BY <1>5 DEF Selected
  <1>6. QED
    BY <1>3, <1>4, <1>5

LEMMA ChainDocumented ==
    ASSUME NEW b, NEW env, NEW readable,
           \A f \in Flag : b[f] \in {Null, Unknown, "true"},
           ~ConfigureError(b), ~CredentialError(b, env, readable)
    PROVE  Documented(b, env, Chain(b, env))
  <1> DEFINE mode == Selected(b, env)
             x == [kind |-> mode, client |-> Filled(b, env, "client")]
             y == [kind |-> "identity", client |-> IdentityClient(b, env)]
             z == [kind |-> "cli", client |-> Null]
             creds == Chain(b, env)
             p == mode # Null
             q == IsSet(b, "identity")
             r == IsSet(b, "cli")
             kinds == {creds[i].kind : i \in DOMAIN creds}
             modes == kinds \cap Mode
             rank  == [k \in Mode \cup Flag |->
                          IF k \in Mode THEN 1 ELSE IF k = "identity" THEN 2 ELSE 3]
  <1>1. /\ mode \in Mode \cup {Null}
        /\ ~p => Explicit(b) = {} /\ env \cap Mode = {}
        /\ p => IF Explicit(b) # {} THEN Explicit(b) = {mode} ELSE mode \in env
    BY SelectedMode
  <1>2. creds = (IF p THEN <<x>> ELSE << >>) \o (IF q THEN <<y>> ELSE << >>)
                \o (IF r THEN <<z>> ELSE << >>)
    BY DEF Chain
  <1>3. p \in BOOLEAN /\ q \in BOOLEAN /\ r \in BOOLEAN
    BY DEF IsSet
  <1>4. x.kind = mode /\ y.kind = "identity" /\ z.kind = "cli"
    OBVIOUS
  <1>5. x.client = Filled(b, env, "client") /\ y.client = IdentityClient(b, env)
    OBVIOUS
  <1>6. Mode = {"secret", "certificate", "oidc"}
    BY DEF Mode, Modes
  <1>7. Null \notin Mode /\ Null # "true" /\ Unknown # "true" /\ Null # "env"
    BY MarkAssumption DEF MarkAssumption
  <1> HIDE DEF x, y, z, creds, p, q, r, rank
  <1>8. /\ Len(creds) > 0 <=> p \/ q \/ r
        /\ \A i \in DOMAIN creds :
              \/ p /\ creds[i] = x
              \/ q /\ creds[i] = y
              \/ r /\ creds[i] = z
        /\ p => \E i \in DOMAIN creds : creds[i] = x
        /\ q => \E i \in DOMAIN creds : creds[i] = y
        /\ r => \E i \in DOMAIN creds : creds[i] = z
        /\ \A i, j \in DOMAIN creds : i < j =>
              \/ p /\ q /\ creds[i] = x /\ creds[j] = y
              \/ p /\ r /\ creds[i] = x /\ creds[j] = z
              \/ q /\ r /\ creds[i] = y /\ creds[j] = z
    <2>1. InOrder(creds, x, y, z, p, q, r)
      BY <1>2, <1>3, ChainOfThree
    <2>2. QED
      BY <2>1 DEF InOrder
  <1>9. p => mode \in Mode
    BY <1>1 DEF p
  <1>10. modes = IF p THEN {mode} ELSE {}
    BY <1>4, <1>6, <1>8, <1>9
  <1>11. Len(creds) > 0
    BY <1>8 DEF CredentialError, p, q, r, Flag
  <1>12. \A i, j \in DOMAIN creds : i < j => rank[creds[i].kind] < rank[creds[j].kind]
    <2>1. /\ \A k \in Mode : rank[k] = 1
          /\ rank["identity"] = 2 /\ rank["cli"] = 3
      BY <1>6 DEF rank, Flag
    <2> SUFFICES ASSUME NEW i \in DOMAIN creds, NEW j \in DOMAIN creds, i < j
                 PROVE  rank[creds[i].kind] < rank[creds[j].kind]
      OBVIOUS
    <2>2. p => rank[x.kind] = 1
      BY <1>4, <1>9, <2>1
    <2>3. rank[y.kind] = 2 /\ rank[z.kind] = 3
      BY <1>4, <2>1
    <2>4. QED
      BY <1>8, <2>2, <2>3
  <1>13. Explicit(b) # {} => modes = Explicit(b)
    BY <1>1, <1>10
  <1>14. Explicit(b) = {} => modes \subseteq env /\ (modes = {} => env \cap Mode = {})
    BY <1>1, <1>10
  <1>15. \A f \in Flag : f \in kinds <=> b[f] = "true"
    <2>1. \A f \in Flag : IsSet(b, f) <=> b[f] = "true"
      BY <1>7 DEF IsSet
    <2>2. "identity" \in kinds <=> q
      BY <1>4, <1>6, <1>8, <1>9
    <2>3. "cli" \in kinds <=> r
      BY <1>4, <1>6, <1>8, <1>9
    <2>4. QED
      BY <2>1, <2>2, <2>3 DEF Flag, q, r
  <1>16. ASSUME NEW i \in DOMAIN creds, creds[i].kind \in Mode
         PROVE  creds[i].client # Null
    <2>1. p /\ creds[i] = x
      BY <1>4, <1>6, <1>8, <1>16
    <2>2. Filled(b, env, "client") # Null
      BY <2>1 DEF CredentialError, p
    <2>3. QED
      BY <1>5, <2>1, <2>2
  <1>17. ASSUME NEW i \in DOMAIN creds, creds[i].kind = "identity", modes # {}
         PROVE  creds[i].client \in {Null, b["identityClient"]}
    <2>1. p /\ creds[i] = y
      BY <1>4, <1>6, <1>8, <1>9, <1>10, <1>17
    <2>2. Filled(b, env, mode) # Null
      <3>1. CASE Explicit(b) # {}
        <4>1. mode \in Explicit(b)
          BY <1>1, <2>1, <3>1
        <4>2. QED
          BY <4>1 DEF Explicit, Filled, IsSet
      <3>2. CASE Explicit(b) = {}
        <4>1. mode \in env /\ mode \in FromEnvironment
          BY <1>1, <1>9, <2>1, <3>2 DEF FromEnvironment
        <4>2. QED
          BY <4>1, <1>7 DEF Filled, IsSet
      <3>3. QED
        BY <3>1, <3>2
    <2>3. mode \in Mode
      BY <1>9, <2>1
    <2>4. IdentityClient(b, env) \in {Null, b["identityClient"]}
      BY <2>2, <2>3 DEF IdentityClient
    <2>5. QED
      BY <1>5, <2>1, <2>4
  <1>18. QED
    BY <1>11, <1>12, <1>13, <1>14, <1>15, <1>16, <1>17 DEF Documented, rank, creds

LEMMA StepPhaseInv == Shape /\ PhaseInv /\ [Next]_vars => PhaseInv'
  <1> SUFFICES ASSUME Shape, PhaseInv, [Next]_vars PROVE PhaseInv'
    OBVIOUS
  <1>1. CASE UNCHANGED vars
    BY <1>1 DEF vars, callVars, PhaseInv, ChainAsDocumented
  <1>2. CASE Configure
    <2>1. /\ phase = "new" /\ config' = config /\ pc' = pc /\ clients' = clients
      BY <1>2 DEF Configure
    <2>2. PICK readable \in BOOLEAN :
             IF \/ ConfigureError(config.block)
                \/ CredentialError(config.block, config.env, readable)
             THEN phase' = "failed" /\ UNCHANGED chain
             ELSE phase' = "configured" /\ chain' = Chain(config.block, config.env)
      BY <1>2 DEF Configure
    <2>3. CASE \/ ConfigureError(config.block)
               \/ CredentialError(config.block, config.env, readable)
      BY <2>1, <2>2, <2>3 DEF PhaseInv, ChainAsDocumented
    <2>4. CASE /\ ~ConfigureError(config.block)
               /\ ~CredentialError(config.block, config.env, readable)
      <3>1. phase' = "configured" /\ chain' = Chain(config.block, config.env)
        BY <2>2, <2>4
      <3>2. \A f \in Flag : config.block[f] \in {Null, Unknown, "true"}
        BY ConfigAssumption DEF ConfigAssumption, Shape
      <3>3. Documented(config.block, config.env, Chain(config.block, config.env))
        BY <2>4, <3>2, ChainDocumented
      <3>4. QED
        BY <2>1, <3>1, <3>3 DEF PhaseInv, ChainAsDocumented
    <2>5. QED
      BY <2>3, <2>4
  <1>3. ASSUME NEW c \in Call,
               \/ Refuse(c) \/ Load(c) \/ LoadOrStoreClient(c) \/ LoadOrStoreMutex(c)
               \/ Lock(c) \/ Unlock(c) \/ ImportState(c)
        PROVE  PhaseInv'
    <2>1. config' = config /\ phase' = phase /\ chain' = chain
      BY <1>3 DEF Refuse, Load, LoadOrStoreClient, LoadOrStoreMutex, Lock, Unlock,
         ImportState, callVars
    <2>2. phase = "configured" \/ pc[c] \notin {"idle", "none"}
      BY <1>3 DEF Refuse, Load, LoadOrStoreClient, LoadOrStoreMutex, Lock, Unlock,
         ImportState
    <2>3. phase = "configured"
      BY <2>2 DEF PhaseInv
    <2>4. QED
      BY <2>1, <2>3 DEF PhaseInv, ChainAsDocumented
  <1>4. QED
    BY <1>1, <1>2, <1>3, StepCases

\* A configured provider signs with the chain that its documents list, for every
\* provider block and environment (Configure with NewCredential).
THEOREM ChainIsDocumented == Spec => []ChainAsDocumented
  <1>1. Shape /\ PhaseInv /\ [Next]_vars => (Shape /\ PhaseInv)'
    BY StepShape, StepPhaseInv
  <1>2. Init => Shape /\ PhaseInv
    BY InitIInv DEF IInv
  <1>3. Shape /\ PhaseInv => ChainAsDocumented
    BY DEF PhaseInv
  <1>4. QED
    BY <1>1, <1>2, <1>3, PTL DEF Spec

-----------------------------------------------------------------------------
(* Types.                                                                  *)

LEMMA StepHandleInv == Shape /\ HandleInv /\ [Next]_vars => HandleInv'
  <1> SUFFICES ASSUME Shape, HandleInv, [Next]_vars PROVE HandleInv'
    OBVIOUS
  <1> USE DEF ClientKey
  <1>1. CASE Configure \/ UNCHANGED vars
    BY <1>1 DEF Configure, vars, callVars, HandleInv
  <1>2. ASSUME NEW c \in Call, Load(c) PROVE HandleInv'
    <2>1. /\ clients' = clients /\ scope' = scope /\ locks' = locks /\ mutex' = mutex
          /\ \A d \in Call \ {c} : pc'[d] = pc[d] /\ client'[d] = client[d]
          /\ pc'[c] \in {"ready", "made"}
      BY <1>2 DEF Load, Shape
    <2>2. \/ /\ ClientKey(scope[c]) \in DOMAIN clients
             /\ client'[c] = clients[ClientKey(scope[c])]
          \/ client'[c] = NewClient(c)
      BY <1>2 DEF Load, Shape
    <2>3. NewClient(c) \in ClientOf(ClientKey(scope[c]))
      <3>1. <<c, c \in imported>> \in Call \X BOOLEAN
        <4>1. ASSUME NEW x \in BOOLEAN PROVE <<c, x>> \in Call \X BOOLEAN
          OBVIOUS
        <4>2. (c \in imported) \in BOOLEAN
          OBVIOUS
        <4>3. QED
          BY <4>1, <4>2, Zenon
      <3>2. ASSUME NEW m \in Call \X BOOLEAN, NEW k
            PROVE  [maker |-> m, key |-> k] \in ClientOf(k)
        BY DEF ClientOf
      <3>3. QED
        BY <3>1, <3>2, Zenon DEF NewClient
    <2>4. client'[c] \in ClientOf(ClientKey(scope[c]))
      BY <2>2, <2>3 DEF HandleInv
    <2>5. QED
      BY <2>1, <2>4 DEF HandleInv
  <1>3. ASSUME NEW c \in Call, LoadOrStoreClient(c) PROVE HandleInv'
    <2> DEFINE key    == ClientKey(scope[c])
               actual == IF key \in DOMAIN clients THEN clients[key] ELSE client[c]
    <2>1. /\ pc[c] = "made" /\ scope' = scope /\ locks' = locks /\ mutex' = mutex
          /\ clients' = Put(clients, key, actual)
          /\ client'[c] = actual /\ pc'[c] = "ready"
          /\ \A d \in Call \ {c} : pc'[d] = pc[d] /\ client'[d] = client[d]
      BY <1>3 DEF LoadOrStoreClient, Shape
    <2>2. actual \in ClientOf(key)
      BY <2>1 DEF HandleInv
    <2>3. /\ DOMAIN clients' = DOMAIN clients \cup {key} /\ clients'[key] = actual
          /\ \A j \in DOMAIN clients \ {key} : clients'[j] = clients[j]
      BY <2>1 DEF Put
    <2> HIDE DEF actual, key
    <2>4. ClientKey(scope[c]) = key
      BY DEF key
    <2>5. QED
      BY <2>1, <2>2, <2>3, <2>4 DEF HandleInv
  <1>4. ASSUME NEW c \in Call, LoadOrStoreMutex(c) PROVE HandleInv'
    <2> DEFINE key    == LockKey(c)
               actual == IF key \in DOMAIN locks THEN locks[key] ELSE c
    <2>1. /\ pc[c] = "ready" /\ scope' = scope /\ client' = client /\ clients' = clients
          /\ locks' = Put(locks, key, actual)
          /\ mutex'[c] = actual /\ pc'[c] = "waiting"
          /\ \A d \in Call \ {c} : pc'[d] = pc[d] /\ mutex'[d] = mutex[d]
      BY <1>4 DEF LoadOrStoreMutex, Shape
    <2>2. actual \in Call
      BY DEF HandleInv
    <2>3. /\ DOMAIN locks' = DOMAIN locks \cup {key} /\ locks'[key] = actual
          /\ \A j \in DOMAIN locks \ {key} : locks'[j] = locks[j]
      BY <2>1 DEF Put
    <2> HIDE DEF actual, key
    <2>4. QED
      BY <2>1, <2>2, <2>3 DEF HandleInv
  <1>5. ASSUME NEW c \in Call, Refuse(c) \/ Lock(c) \/ Unlock(c) \/ ImportState(c)
        PROVE  HandleInv'
    <2>1. /\ clients' = clients /\ client' = client /\ locks' = locks /\ mutex' = mutex
          /\ \A d \in Call \ {c} : pc'[d] = pc[d]
          /\ \A d \in DOMAIN scope \ {c} : scope'[d] = scope[d]
      BY <1>5 DEF Refuse, Lock, Unlock, ImportState, Shape
    <2>2. \/ pc'[c] \in {"refused", "idle"}
          \/ pc'[c] \in {"creating", "created", "ended"}
                /\ pc[c] \in {"waiting", "creating"} /\ scope' = scope
      BY <1>5 DEF Refuse, Lock, Unlock, ImportState, Shape
    <2>3. \A d \in Call : pc[d] \in {"made", "ready", "waiting", "creating"} =>
              d \in DOMAIN scope
      BY UsesNamed DEF Named
    <2>4. QED
      BY <2>1, <2>2, <2>3 DEF HandleInv
  <1>6. QED
    BY <1>1, <1>2, <1>3, <1>4, <1>5, StepCases

-----------------------------------------------------------------------------
(* Imports.                                                                *)

\* GroupString changes the spelling of the fixed words and nothing else.
LEMMA GroupStringIs ==
    ASSUME NEW g, g = [name |-> g.name, spelling |-> g.spelling]
    PROVE  GroupString(g) = [name |-> g.name,
               spelling |-> IF g.spelling = "keywords" THEN "canonical" ELSE g.spelling]
  BY DEF GroupString

\* The import of an accepted scope: where it leads, and when it is what was written.
Reaches(s, t) ==
    LET was == EndpointOf(s).url
        is  == EndpointOf(t).url
    IN
    /\ is.host = was.host
    /\ is.port # was.port => was.host \in Regional /\ is.port = Null
    /\ t = s <=>
          /\ s.group.spelling # "keywords"
          /\ IF s.location # Null THEN s.location.plain
             ELSE s.endpoint.plain /\ s.endpoint.host \notin Regional

\* What ConfigAssumption says of a scope.
IsScope(s) ==
    LET g == s.group
        l == s.location
        e == s.endpoint
    IN
    /\ s = [group |-> g, location |-> l, endpoint |-> e]
    /\ g = [name |-> g.name, spelling |-> g.spelling]
    /\ l # Null =>
          /\ l = [host |-> l.host, plain |-> l.plain] /\ l.plain \in BOOLEAN
          /\ [host |-> l.host, plain |-> TRUE] # Null
    /\ e # Null =>
          /\ e = [host |-> e.host, port |-> e.port, plain |-> e.plain]
          /\ e.plain \in BOOLEAN
          /\ [host |-> e.host, plain |-> TRUE] # Null
          /\ [host |-> e.host, port |-> e.port, plain |-> TRUE] # Null

LEMMA ScopesAreScopes ==
    ASSUME Shape, NEW c \in DOMAIN config.uses
    PROVE  IsScope(config.uses[c].scope)
  BY ConfigAssumption DEF ConfigAssumption, Shape, IsScope

\* The errors of a scope, by its two attributes.
LEMMA ScopeErrorIs ==
    ASSUME NEW s
    PROVE  ScopeError(s) <=>
              \/ s.location = Null /\ s.endpoint = Null
              \/ s.location # Null /\ s.endpoint # Null
              \/ s.location # Null /\ s.location.host = "malformed"
              \/ s.endpoint # Null /\ s.endpoint.host = "malformed"
  BY DEF ScopeError

\* Of an accepted location.
LEMMA LocationImported ==
    ASSUME NEW s, IsScope(s), Accepted(s), s.location # Null
    PROVE  Accepted(ImportedScope(s)) /\ Reaches(s, ImportedScope(s))
  <1> DEFINE l == s.location
             host == l.host
             h == GroupString(s.group)
  <1>1. s.endpoint = Null /\ host # "malformed"
    BY ScopeErrorIs DEF Accepted
  <1>2. EndpointOf(s) = [url |-> [host |-> host, port |-> Null], standard |-> TRUE]
    BY DEF EndpointOf
  <1>3. /\ EndpointOf(s).url.host = host /\ EndpointOf(s).url.port = Null
        /\ EndpointOf(s).standard = TRUE
    BY <1>2
  <1>4. PICK t : t = ImportedScope(s)
    OBVIOUS
  <1>5. t = [group |-> h, location |-> [host |-> host, plain |-> TRUE], endpoint |-> Null]
    BY <1>3, <1>4 DEF ImportedScope
  <1>6. /\ t.group = h /\ t.location = [host |-> host, plain |-> TRUE]
        /\ t.endpoint = Null /\ t.location # Null /\ t.location.host = host
    BY <1>5 DEF IsScope
  <1>7. EndpointOf(t) = EndpointOf(s)
    BY <1>2, <1>6 DEF EndpointOf
  <1>8. ~ScopeError(t)
    BY <1>1, <1>6, ScopeErrorIs
  <1>9. ~HostError(t)
    BY <1>7, <1>8 DEF HostError, Accepted
  <1>10. h = s.group <=> s.group.spelling # "keywords"
    BY GroupStringIs DEF IsScope
  <1>11. [host |-> host, plain |-> TRUE] = l <=> l.plain
    BY DEF IsScope
  <1>12. s = [group |-> s.group, location |-> l, endpoint |-> Null]
    BY <1>1 DEF IsScope
  <1>13. t = s <=> s.group.spelling # "keywords" /\ l.plain
    BY <1>5, <1>10, <1>11, <1>12
  <1>14. QED
    BY <1>4, <1>7, <1>8, <1>9, <1>13 DEF Accepted, Reaches

\* Of an endpoint that is a regional host.
LEMMA RegionalImported ==
    ASSUME NEW s, IsScope(s), Accepted(s), s.location = Null, s.endpoint.host \in Regional
    PROVE  Accepted(ImportedScope(s)) /\ Reaches(s, ImportedScope(s))
  <1> DEFINE host == s.endpoint.host
             port == s.endpoint.port
  <1>1. s.endpoint # Null /\ host # "malformed"
    BY ScopeErrorIs DEF Accepted
  <1>2. EndpointOf(s) = [url |-> [host |-> host, port |-> port], standard |-> TRUE]
    BY DEF EndpointOf
  <1>3. /\ EndpointOf(s).url.host = host /\ EndpointOf(s).url.port = port
        /\ EndpointOf(s).standard = TRUE
    BY <1>2
  <1>4. PICK t : t = ImportedScope(s)
    OBVIOUS
  <1>5. t = [group |-> GroupString(s.group),
             location |-> [host |-> host, plain |-> TRUE], endpoint |-> Null]
    BY <1>3, <1>4 DEF ImportedScope
  <1>6. /\ t.location # Null /\ t.location.host = host /\ t.endpoint = Null
    BY <1>1, <1>5 DEF IsScope
  <1>7. EndpointOf(t) = [url |-> [host |-> host, port |-> Null], standard |-> TRUE]
    BY <1>6 DEF EndpointOf
  <1>8. ~ScopeError(t)
    BY <1>1, <1>6, ScopeErrorIs
  <1>9. EndpointOf(t).url.host = host /\ EndpointOf(t).url.port = Null
    BY <1>7
  <1>10. ~HostError(t)
    BY <1>9 DEF HostError
  <1>11. EndpointOf(s).url.host = host
    BY <1>2
  <1>12. t # s
    BY <1>1, <1>6
  <1>13. QED
    BY <1>4, <1>8, <1>9, <1>10, <1>11, <1>12 DEF Accepted, Reaches

\* Of any other endpoint.
LEMMA EndpointImported ==
    ASSUME NEW s, IsScope(s), Accepted(s), s.location = Null,
           s.endpoint.host \notin Regional
    PROVE  Accepted(ImportedScope(s)) /\ Reaches(s, ImportedScope(s))
  <1> DEFINE e == s.endpoint
             host == e.host
             port == e.port
             h == GroupString(s.group)
  <1>1. e # Null /\ host # "malformed"
    BY ScopeErrorIs DEF Accepted
  <1>2. EndpointOf(s) = [url |-> [host |-> host, port |-> port], standard |-> FALSE]
    <2>1. EndpointOf(s) = [url      |-> [host |-> host, port |-> port],
                           standard |-> host \in Regional]
      BY DEF EndpointOf
    <2>2. (host \in Regional) = FALSE
      OBVIOUS
    <2>3. QED
      BY <2>1, <2>2, Zenon
  <1>3. /\ EndpointOf(s).url.host = host /\ EndpointOf(s).url.port = port
        /\ ~EndpointOf(s).standard
    BY <1>2
  <1>4. PICK t : t = ImportedScope(s)
    OBVIOUS
  <1>5. t = [group |-> h, location |-> Null,
             endpoint |-> [host |-> host, port |-> port, plain |-> TRUE]]
    BY <1>3, <1>4 DEF ImportedScope
  <1>6. /\ t.location = Null /\ t.endpoint # Null
        /\ t.endpoint.host = host /\ t.endpoint.port = port
    <2>1. [host |-> host, port |-> port, plain |-> TRUE] # Null
      BY <1>1 DEF IsScope
    <2>2. QED
      BY <1>5, <2>1
  <1>7. EndpointOf(t) = EndpointOf(s)
    BY <1>2, <1>6 DEF EndpointOf
  <1>8. ~ScopeError(t)
    BY <1>1, <1>6, ScopeErrorIs
  <1>9. ~HostError(t)
    BY <1>7, <1>8 DEF HostError, Accepted
  <1>10. h = s.group <=> s.group.spelling # "keywords"
    BY GroupStringIs DEF IsScope
  <1>11. [host |-> host, port |-> port, plain |-> TRUE] = e <=> e.plain
    BY <1>1 DEF IsScope
  <1>12. s = [group |-> s.group, location |-> Null, endpoint |-> e]
    BY DEF IsScope
  <1>13. t = s <=> s.group.spelling # "keywords" /\ e.plain
    BY <1>5, <1>10, <1>11, <1>12
  <1>14. QED
    BY <1>4, <1>7, <1>8, <1>9, <1>13 DEF Accepted, Reaches

LEMMA ImportedReaches ==
    ASSUME Shape, NEW c \in DOMAIN config.uses, Accepted(config.uses[c].scope)
    PROVE  LET s == config.uses[c].scope IN
           Accepted(ImportedScope(s)) /\ Reaches(s, ImportedScope(s))
  BY ScopesAreScopes, LocationImported, RegionalImported, EndpointImported

LEMMA StepImportInv == Shape /\ ScopeInv /\ ImportInv /\ [Next]_vars => ImportInv'
  <1> SUFFICES ASSUME Shape, ScopeInv, ImportInv, [Next]_vars PROVE ImportInv'
    OBVIOUS
  <1>1. config' = config
    BY StepCases DEF Configure, Refuse, Load, LoadOrStoreClient, LoadOrStoreMutex,
       Lock, Unlock, ImportState, callVars, vars
  <1>2. \A s : Accepted(s)' = Accepted(s)
    BY <1>1 DEF Accepted, HostError
  <1>3. imported \subseteq Call
    BY ConfigAssumption DEF ConfigAssumption, Shape, ImportInv
  <1>4. CASE Configure \/ UNCHANGED vars
    BY <1>1, <1>2, <1>4 DEF Configure, vars, callVars, ImportInv
  <1>5. ASSUME NEW c \in Call, ImportState(c) PROVE ImportInv'
    <2>1. /\ pc[c] = "created" /\ pc'[c] = "idle" /\ imported' = imported \cup {c}
          /\ \A d \in Call \ {c} : pc'[d] = pc[d]
          /\ \A d \in DOMAIN scope \ {c} : scope'[d] = scope[d]
          /\ c \in DOMAIN scope => scope'[c] = ImportedScope(scope[c])
      BY <1>5 DEF ImportState, Shape
    <2>2. c \in DOMAIN config.uses /\ c \in DOMAIN scope
      BY <2>1 DEF Shape, Named
    <2>3. scope'[c] = ImportedScope(config.uses[c].scope)
      BY <2>1, <2>2 DEF ScopeInv, Named
    <2>4. Accepted(config.uses[c].scope)
      BY <2>1 DEF ImportInv, Passed
    <2>5. \A d \in imported : d \in DOMAIN scope
      BY DEF ImportInv, Shape
    <2>6. c \notin imported
      BY <2>1 DEF ScopeInv
    <2>7. \A d \in imported' : /\ pc'[d] \in {"idle", "made", "ready"}
                               /\ scope'[d] = ImportedScope(config.uses[d].scope)
      BY <1>3, <2>1, <2>3, <2>5, <2>6 DEF ImportInv
    <2>8. QED
      BY <1>1, <1>2, <2>1, <2>2, <2>4, <2>7 DEF ImportInv
  <1>6. ASSUME NEW c \in Call, Refuse(c) PROVE ImportInv'
    <2>1. /\ pc'[c] = "refused" /\ imported' = imported /\ scope' = scope
          /\ \A d \in Call \ {c} : pc'[d] = pc[d]
          /\ ~Accepted(scope[c])
      BY <1>6 DEF Refuse, Shape, Accepted
    <2>2. c \notin imported
      <3> SUFFICES ASSUME c \in imported PROVE FALSE
        OBVIOUS
      <3>1. c \in DOMAIN config.uses /\ Accepted(config.uses[c].scope)
        BY DEF ImportInv
      <3>2. Accepted(ImportedScope(config.uses[c].scope))
        BY <3>1, ImportedReaches
      <3>3. QED
        BY <2>1, <3>2 DEF ImportInv
    <2>3. QED
      BY <1>1, <1>2, <1>3, <2>1, <2>2 DEF ImportInv, Passed
  <1>7. ASSUME NEW c \in Call, Load(c) PROVE ImportInv'
    <2>1. /\ pc[c] = "idle" /\ imported' = imported /\ scope' = scope
          /\ pc'[c] \in {"ready", "made"}
          /\ \A d \in Call \ {c} : pc'[d] = pc[d]
          /\ Accepted(scope[c])
      BY <1>7 DEF Load, Shape, Accepted
    <2>2. Accepted(config.uses[c].scope)
      BY <2>1 DEF ScopeInv, ImportInv, Named
    <2>3. QED
      BY <1>1, <1>2, <1>3, <2>1, <2>2 DEF ImportInv, Passed
  <1>8. ASSUME NEW c \in Call,
               LoadOrStoreClient(c) \/ LoadOrStoreMutex(c) \/ Lock(c) \/ Unlock(c)
        PROVE  ImportInv'
    <2>1. /\ pc[c] \in Passed /\ imported' = imported /\ scope' = scope
          /\ \A d \in Call \ {c} : pc'[d] = pc[d]
      BY <1>8 DEF LoadOrStoreClient, LoadOrStoreMutex, Lock, Unlock, Shape, Passed
    <2>2. pc'[c] = "ready" \/ c \notin imported
      BY <1>8 DEF LoadOrStoreClient, LoadOrStoreMutex, Lock, Unlock, Shape, ScopeInv,
         Creates
    <2>3. QED
      BY <1>1, <1>2, <1>3, <2>1, <2>2 DEF ImportInv
  <1>9. QED
    BY <1>4, <1>5, <1>6, <1>7, <1>8, StepCases

-----------------------------------------------------------------------------
(* The invariant.                                                          *)

LEMMA Invariance == Spec => []IInv
  <1>1. IInv /\ [Next]_vars => IInv'
    BY StepShape, StepScopeInv, StepClientInv, StepMutexInv, StepPhaseInv,
       StepHandleInv, StepImportInv DEF IInv
  <1>2. QED
    BY InitIInv, <1>1, PTL DEF Spec

\* Nothing happens before Configure, and every call, client, mutex and holder is
\* of its kind.
THEOREM TypeCorrect == Spec => []TypeOK
  <1>1. IInv => TypeOK
    <2> SUFFICES ASSUME IInv PROVE TypeOK
      OBVIOUS
    <2>1. \A c \in Call : c \notin DOMAIN config.uses <=> pc[c] = "none"
      BY DEF IInv, Shape, Named
    <2>2. \A c \in Call : c \in holder <=> pc[c] = "creating"
      BY DEF IInv, MutexInv
    <2>3. QED
      BY <2>1, <2>2 DEF IInv, Shape, PhaseInv, HandleInv, TypeOK
  <1>2. QED
    BY Invariance, <1>1, PTL

\* An import leads to the server that has the object, and its scope attributes are
\* those of the configuration exactly if these are in normal form and name no
\* regional host as an endpoint (ResourceURL, ParseResourceURL, ImportState).
THEOREM ImportsReachTheObject == Spec => []ImportKeepsScope
  <1>1. IInv => ImportKeepsScope
    <2> SUFFICES ASSUME IInv, NEW c \in imported
                 PROVE  LET s   == config.uses[c].scope
                            was == EndpointOf(s).url
                            is  == EndpointOf(scope[c]).url
                        IN
                        /\ pc[c] # "refused"
                        /\ is.host = was.host
                        /\ is.port # was.port => was.host \in Regional /\ is.port = Null
                        /\ scope[c] = s <=>
                              /\ s.group.spelling # "keywords"
                              /\ IF s.location # Null THEN s.location.plain
                                 ELSE s.endpoint.plain /\ s.endpoint.host \notin Regional
      BY DEF ImportKeepsScope
    <2>1. Shape /\ c \in DOMAIN config.uses /\ c \in Call
      BY ConfigAssumption DEF ConfigAssumption, IInv, Shape, ImportInv
    <2>2. /\ Accepted(config.uses[c].scope) /\ pc[c] # "refused"
          /\ scope[c] = ImportedScope(config.uses[c].scope)
      BY <2>1 DEF IInv, ImportInv
    <2>3. Reaches(config.uses[c].scope, scope[c])
      BY <2>1, <2>2, ImportedReaches
    <2>4. QED
      BY <2>2, <2>3 DEF Reaches
  <1>2. QED
    BY Invariance, <1>1, PTL

\* Concurrent calls for one group at one endpoint go on with one client (Client).
THEOREM OneClient == Spec => []ClientsShared
  <1>1. IInv => ClientsShared
    BY DEF IInv, ClientInv, ClientsShared
  <1>2. QED
    BY Invariance, <1>1, PTL

-----------------------------------------------------------------------------
(* LockCreate implements the safety part of KeyedLock.                     *)

\* Calls for one target have one lock key.
LEMMA SameTargetSameKey ==
    ASSUME IInv, NEW c \in Call, NEW d \in Call,
           pc[c] \in {"waiting", "creating"}, pc[d] \in {"waiting", "creating"},
           TargetOf(c) = TargetOf(d)
    PROVE  LockKey(c) = LockKey(d)
  <1> DEFINE g == config.uses[c].scope.group
             h == config.uses[d].scope.group
  <1>1. c \in DOMAIN config.uses /\ d \in DOMAIN config.uses /\ config \in Config
    BY DEF IInv, Shape
  <1>2. scope[c].group = g /\ scope[d].group = h
    BY DEF IInv, ScopeInv, Named
  <1>3. /\ g = [name |-> g.name, spelling |-> g.spelling]
        /\ h = [name |-> h.name, spelling |-> h.spelling]
        /\ g.spelling \in {"canonical", "keywords", "letters"}
        /\ h.spelling \in {"canonical", "keywords", "letters"}
    BY <1>1, ConfigAssumption DEF ConfigAssumption
  <1>4. /\ g.name = h.name /\ (g.spelling = "letters" <=> h.spelling = "letters")
        /\ config.uses[c].kind = config.uses[d].kind
        /\ config.uses[c].name = config.uses[d].name
    BY DEF TargetOf
  <1>5. ASSUME NEW x, x = [name |-> x.name, spelling |-> x.spelling]
        PROVE  GroupString(x) = [name |-> x.name,
                   spelling |-> IF x.spelling = "keywords" THEN "canonical"
                                ELSE x.spelling]
    BY <1>5 DEF GroupString
  <1>6. GroupString(g) = GroupString(h)
    <2> HIDE DEF g, h
    <2>1. QED
      BY <1>3, <1>4, <1>5
  <1>7. QED
    BY <1>2, <1>4, <1>6 DEF LockKey

\* The target of a call that is there is one of KeyedLock's.
LEMMA TargetThere ==
    ASSUME IInv, NEW c \in Call, pc[c] # "none"
    PROVE  TargetOf(c) \in Targets
  <1>1. config \in Config /\ c \in DOMAIN config.uses
    BY DEF IInv, Shape
  <1>2. QED
    BY <1>1 DEF Targets, TargetOf

Asked == {<<TargetOf(c), c>> : c \in {d \in Call : pc[d] = "waiting"}}
Held  == {<<TargetOf(c), c>> : c \in {d \in Call : pc[d] = "creating"}}

LEMMA LockStep == IInv /\ [Next]_vars => [Locks!LockNext]_(Locks!lockVars)
  <1> SUFFICES ASSUME IInv, [Next]_vars
               PROVE  \/ Asked' = Asked /\ Held' = Held
                      \/ Locks!LockNext
    BY DEF Locks!lockVars, Asked, Held
  <1>1. \A c \in Call : config' = config => TargetOf(c)' = TargetOf(c)
    BY DEF TargetOf
  <1>2. config' = config
    BY StepCases DEF Configure, Refuse, Load, LoadOrStoreClient, LoadOrStoreMutex,
       Lock, Unlock, ImportState, callVars, vars
  <1>3. CASE Configure \/ UNCHANGED vars
    BY <1>1, <1>2, <1>3 DEF Configure, vars, callVars, Asked, Held
  <1>4. ASSUME NEW c \in Call,
               Refuse(c) \/ Load(c) \/ LoadOrStoreClient(c) \/ ImportState(c)
        PROVE  Asked' = Asked /\ Held' = Held
    <2>1. /\ pc'[c] \notin {"waiting", "creating"} /\ pc[c] \notin {"waiting", "creating"}
          /\ \A d \in Call \ {c} : pc'[d] = pc[d]
      BY <1>4 DEF Refuse, Load, LoadOrStoreClient, ImportState, IInv, Shape
    <2>2. QED
      BY <1>1, <1>2, <2>1 DEF Asked, Held
  <1>5. ASSUME NEW c \in Call, LoadOrStoreMutex(c) PROVE Locks!Ask(TargetOf(c), c)
    <2>1. /\ pc'[c] = "waiting" /\ pc[c] = "ready"
          /\ \A d \in Call \ {c} : pc'[d] = pc[d]
      BY <1>5 DEF LoadOrStoreMutex, IInv, Shape
    <2>2. <<TargetOf(c), c>> \notin Asked \cup Held
      BY <2>1 DEF Asked, Held
    <2>3. Asked' = Asked \cup {<<TargetOf(c), c>>} /\ Held' = Held
      BY <1>1, <1>2, <2>1 DEF Asked, Held
    <2>4. QED
      BY <2>2, <2>3 DEF Locks!Ask, Asked, Held
  <1>6. ASSUME NEW c \in Call, Lock(c) PROVE Locks!Acquire(TargetOf(c), c)
    <2>1. /\ pc'[c] = "creating" /\ pc[c] = "waiting"
          /\ \A d \in Call \ {c} : pc'[d] = pc[d]
      BY <1>6 DEF Lock, IInv, Shape
    <2>2. ASSUME NEW d \in Call, pc[d] = "creating" PROVE TargetOf(d) # TargetOf(c)
      <3>1. mutex[d] # mutex[c]
        BY <1>6, <2>2 DEF Lock, IInv, MutexInv
      <3>2. LockKey(d) # LockKey(c)
        BY <3>1, <2>1, <2>2 DEF IInv, MutexInv
      <3>3. QED
        BY <3>2, <2>1, <2>2, SameTargetSameKey
    <2>3. \A h \in Held : h[1] # TargetOf(c)
      BY <2>2 DEF Held
    <2>4. Held' = Held \cup {<<TargetOf(c), c>>}
      BY <1>1, <1>2, <2>1 DEF Held
    <2>5. Asked' = Asked \ {<<TargetOf(c), c>>} /\ <<TargetOf(c), c>> \in Asked
      BY <1>1, <1>2, <2>1 DEF Asked
    <2>6. QED
      BY <2>3, <2>4, <2>5 DEF Locks!Acquire, Asked, Held
  <1>7. ASSUME NEW c \in Call, Unlock(c) PROVE Locks!Release(TargetOf(c), c)
    <2>1. /\ pc'[c] \in {"created", "ended"} /\ pc[c] = "creating"
          /\ \A d \in Call \ {c} : pc'[d] = pc[d]
      BY <1>7 DEF Unlock, IInv, Shape
    <2>2. <<TargetOf(c), c>> \in Held /\ Held' = Held \ {<<TargetOf(c), c>>}
      BY <1>1, <1>2, <2>1 DEF Held
    <2>3. Asked' = Asked
      BY <1>1, <1>2, <2>1 DEF Asked
    <2>4. QED
      BY <2>2, <2>3 DEF Locks!Release, Asked, Held
  <1>8. ASSUME NEW c \in Call, pc[c] # "none",
               \/ Locks!Ask(TargetOf(c), c) \/ Locks!Acquire(TargetOf(c), c)
               \/ Locks!Release(TargetOf(c), c)
        PROVE  Locks!LockNext
    BY <1>8, TargetThere DEF Locks!LockNext
  <1>9. \A c \in Call : LoadOrStoreMutex(c) \/ Lock(c) \/ Unlock(c) => pc[c] # "none"
    BY DEF LoadOrStoreMutex, Lock, Unlock
  <1>10. QED
    BY <1>3, <1>4, <1>5, <1>6, <1>7, <1>8, <1>9, StepCases

\* Creates of one object take turns, as KeyedLock's steps say, whatever the
\* spelling of their group IDs (LockCreate; its fairness is left to TLC).
THEOREM LocksAsPromised == Spec => Locks!LockInit /\ [][Locks!LockNext]_(Locks!lockVars)
  <1>1. Init => Locks!LockInit
    BY DEF Init, Locks!LockInit
  <1>2. QED
    BY <1>1, Invariance, LockStep, PTL DEF Spec

\* A target has one holder.
THEOREM OneHolder == Spec => []Locks!Exclusive
  <1>1. IInv => Locks!Exclusive
    <2> SUFFICES ASSUME IInv, NEW c \in Call, NEW d \in Call,
                        pc[c] = "creating", pc[d] = "creating",
                        TargetOf(c) = TargetOf(d)
                 PROVE  c = d
      BY DEF Locks!Exclusive
    <2>1. LockKey(c) = LockKey(d)
      BY SameTargetSameKey
    <2>2. QED
      BY <2>1 DEF IInv, MutexInv
  <1>2. QED
    BY Invariance, <1>1, PTL
=============================================================================
