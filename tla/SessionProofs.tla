---------------------------- MODULE SessionProofs ----------------------------
(***************************************************************************)
(* Proofs about Session, for every set of threads, endpoints and cached    *)
(* fields, every budget and every number of connections; and, at the end,  *)
(* about the budget of its dials, ReconnectBudget, for every budget,       *)
(* window and number of attempts.                                          *)
(*                                                                         *)
(* TypeOK is inductive on its own.  LockInv says which program points hold *)
(* which side of connMu; it is inductive given TypeOK.  ConnInv says which *)
(* endpoint s.conn was dialed for and what the holder of the write lock    *)
(* knows of it; it needs LockInv, because only the write lock protects it. *)
(* CacheInv says what a tool about to store knows; it needs both.          *)
(***************************************************************************)
EXTENDS Session, ReconnectBudget, FiniteSetTheorems, TLAPS

\* Which program points hold, or wait for, which side of connMu.
LockInv ==
  /\ readers \cap barred = {}
  /\ \A t \in Threads : pc[t] \in {"fast", "relock"} => t \in readers \cup barred
  /\ \A t \in Threads : pc[t] \in {"using", "store"} => t \in readers
  /\ \A t \in Threads : t \in readers \cup barred =>
                          pc[t] \in {"fast", "relock", "using", "store"}
  /\ \A t \in Threads : pc[t] \in {"slow", "dial", "close"} <=> writer = t
  /\ \A t \in Threads : pc[t] = "dial" => readers = {}

\* The endpoint of a connection is the one on record, unless it is the zero
\* endpoint's; and what a dialing thread finds is at most such a connection.
ConnInv ==
  /\ NoConnectionLeak
  /\ conn # 0 => dialedFor[conn] \in {epConfig, NoEndpoint}
  /\ \A t \in Threads :
       pc[t] = "dial" => epConfig = want[t] /\ (conn # 0 => dialedFor[conn] = NoEndpoint)
  /\ \A t \in Threads : handle[t] # 0 => pc[t] \in {"downgrade", "relock", "using", "store"}

\* A tool stores what it learned through s.conn, or through a connection of
\* the zero endpoint that was stored over.
CacheInv ==
  /\ CacheMatchesConnection
  /\ \A t \in Threads :
       pc[t] = "store" => slot[t] \in Slots /\ handle[t] # 0
                            /\ (handle[t] = conn \/ dialedFor[handle[t]] = NoEndpoint)
-----------------------------------------------------------------------------
LEMMA TypeInit == Init => TypeOK
  BY BudgetAssumption, BoundAssumption DEF Init, LockInit, TypeOK, ConnIds, Labels

LEMMA DropTypes ==
  ASSUME TypeOK, dropConnLocked
  PROVE  /\ conn' \in 0 .. dialed
         /\ open' \subseteq 1 .. dialed
         /\ cache' \in [Slots -> 0 .. dialed]
<1>1. 0 \in 0 .. dialed
  BY BoundAssumption DEF TypeOK, ConnIds
<1> QED
  BY <1>1 DEF TypeOK, dropConnLocked

\* Every step keeps the types; the budget check bounds the record of attempts.
LEMMA TypeNext == TypeOK /\ [Next]_vars => TypeOK'
<1> SUFFICES ASSUME TypeOK, [Next]_vars PROVE TypeOK'
  OBVIOUS
<1> USE BudgetAssumption, BoundAssumption DEF TypeOK, ConnIds, Labels, Goto, connVars, lockVars
<1>1. ASSUME NEW t \in Threads, NEW ep \in Endpoints, Acquire(t, ep) PROVE TypeOK'
  BY <1>1 DEF Acquire, RLock
<1>2. ASSUME NEW t \in Threads, AcquireStep(t) PROVE TypeOK'
  <2>1. CASE FastHit(t)
    BY <2>1 DEF FastHit
  <2>2. CASE FastMiss(t)
    BY <2>2 DEF FastMiss, RUnlock
  <2>3. CASE SlowLock(t)
    BY <2>3 DEF SlowLock, Lock
  <2>4. CASE SlowHit(t)
    BY <2>4 DEF SlowHit, Unlock
  <2>5. CASE refreshEndpointLocked(t)
    <3>1. /\ conn' \in 0 .. dialed
          /\ open' \subseteq 1 .. dialed
          /\ cache' \in [Slots -> 0 .. dialed]
      BY <2>5, DropTypes DEF refreshEndpointLocked
    <3> QED
      BY <2>5, <3>1 DEF refreshEndpointLocked
  <2>6. CASE BudgetExhausted(t)
    BY <2>6 DEF BudgetExhausted, Unlock
  <2>7. CASE DialFailed(t)
    BY <2>7 DEF DialFailed, Unlock, canReconnectLocked
  <2>8. CASE Dialed(t)
    BY <2>8 DEF Dialed, Unlock, canReconnectLocked
  <2>9. CASE downgradeToReadLock(t)
    BY <2>9 DEF downgradeToReadLock, RLock
  <2>10. CASE Acquired(t)
    BY <2>10 DEF Acquired
  <2> QED
    BY <1>2, <2>1, <2>2, <2>3, <2>4, <2>5, <2>6, <2>7, <2>8, <2>9, <2>10 DEF AcquireStep
<1>3. ASSUME NEW t \in Threads, UseStep(t) PROVE TypeOK'
  <2>1. ASSUME NEW s \in Slots, SendOk(t, s) PROVE TypeOK'
    BY <2>1 DEF SendOk
  <2>2. CASE Store(t)
    BY <2>2 DEF Store
  <2>3. ASSUME NEW s \in Slots, Clear(t, s) PROVE TypeOK'
    BY <2>3 DEF Clear
  <2> QED
    BY <1>3, <2>1, <2>2, <2>3 DEF UseStep
<1>4. ASSUME NEW t \in Threads, Release(t) PROVE TypeOK'
  BY <1>4 DEF Release, RUnlock
<1>5. ASSUME NEW t \in Threads, Close(t) PROVE TypeOK'
  BY <1>5 DEF Close
<1>6. ASSUME NEW t \in Threads, CloseStep(t) PROVE TypeOK'
  <2>1. CASE CloseLock(t)
    BY <2>1 DEF CloseLock, Lock
  <2>2. CASE Closed(t)
    BY <2>2, DropTypes DEF Closed, Unlock
  <2> QED
    BY <1>6, <2>1, <2>2 DEF CloseStep
<1>7. ASSUME NEW c \in open, ConnDies(c) PROVE TypeOK'
  BY <1>7 DEF ConnDies
<1>8. CASE WindowSlides
  BY <1>8 DEF WindowSlides
<1>9. CASE UNCHANGED vars
  BY <1>9 DEF vars
<1> QED
  BY <1>1, <1>2, <1>3, <1>4, <1>5, <1>6, <1>7, <1>8, <1>9 DEF Next

\* Every reachable state is well typed, and the session never remembers more
\* attempts than its budget allows (session.go:408-422).
THEOREM TypeCorrect == Spec => []TypeOK
  BY TypeInit, TypeNext, PTL DEF Spec
-----------------------------------------------------------------------------
LEMMA LockInvInit == Init => LockInv
  BY NoThreadAssumption DEF Init, LockInit, LockInv

\* connMu is held exactly where the program points say.
LEMMA LockInvNext == TypeOK /\ LockInv /\ [Next]_vars => LockInv'
<1> SUFFICES ASSUME TypeOK, LockInv, [Next]_vars PROVE LockInv'
  OBVIOUS
<1> USE NoThreadAssumption DEF TypeOK, Labels, LockInv, Goto, connVars, lockVars
<1>1. ASSUME NEW t \in Threads, NEW ep \in Endpoints, Acquire(t, ep) PROVE LockInv'
  BY <1>1 DEF Acquire, RLock
<1>2. ASSUME NEW t \in Threads, AcquireStep(t) PROVE LockInv'
  <2>1. CASE FastHit(t)
    BY <2>1 DEF FastHit, HasRead
  <2>2. CASE FastMiss(t)
    BY <2>2 DEF FastMiss, RUnlock, HasRead
  <2>3. CASE SlowLock(t)
    BY <2>3 DEF SlowLock, Lock
  <2>4. CASE SlowHit(t)
    BY <2>4 DEF SlowHit, Unlock, HasWrite
  <2>5. CASE refreshEndpointLocked(t)
    BY <2>5 DEF refreshEndpointLocked, HasWrite
  <2>6. CASE BudgetExhausted(t)
    BY <2>6 DEF BudgetExhausted, Unlock
  <2>7. CASE DialFailed(t)
    BY <2>7 DEF DialFailed, Unlock
  <2>8. CASE Dialed(t)
    BY <2>8 DEF Dialed, Unlock
  <2>9. CASE downgradeToReadLock(t)
    BY <2>9 DEF downgradeToReadLock, RLock
  <2>10. CASE Acquired(t)
    BY <2>10 DEF Acquired, HasRead
  <2> QED
    BY <1>2, <2>1, <2>2, <2>3, <2>4, <2>5, <2>6, <2>7, <2>8, <2>9, <2>10 DEF AcquireStep
<1>3. ASSUME NEW t \in Threads, UseStep(t) PROVE LockInv'
  BY <1>3 DEF UseStep, SendOk, Store, Clear
<1>4. ASSUME NEW t \in Threads, Release(t) PROVE LockInv'
  BY <1>4 DEF Release, RUnlock
<1>5. ASSUME NEW t \in Threads, Close(t) PROVE LockInv'
  BY <1>5 DEF Close
<1>6. ASSUME NEW t \in Threads, CloseStep(t) PROVE LockInv'
  <2>1. CASE CloseLock(t)
    BY <2>1 DEF CloseLock, Lock
  <2>2. CASE Closed(t)
    BY <2>2 DEF Closed, Unlock, HasWrite
  <2> QED
    BY <1>6, <2>1, <2>2 DEF CloseStep
<1>7. ASSUME NEW c \in open, ConnDies(c) PROVE LockInv'
  BY <1>7 DEF ConnDies
<1>8. CASE WindowSlides
  BY <1>8 DEF WindowSlides
<1>9. CASE UNCHANGED vars
  BY <1>9 DEF vars
<1> QED
  BY <1>1, <1>2, <1>3, <1>4, <1>5, <1>6, <1>7, <1>8, <1>9 DEF Next

LEMMA LockInvCorrect == Spec => [](TypeOK /\ LockInv)
  BY TypeInit, TypeNext, LockInvInit, LockInvNext, PTL DEF Spec

\* A thread in dialLocked is alone: no second dial, no tool using the session.
THEOREM DialIsExclusive == Spec => []DialExcludes
<1>1. TypeOK /\ LockInv => DialExcludes
  BY DEF TypeOK, LockInv, DialExcludes, Writing, Using
<1> QED
  BY <1>1, LockInvCorrect, PTL
-----------------------------------------------------------------------------
\* Whoever holds the write lock has waited for every tool to release.
LEMMA WriterExcludesUse ==
  ASSUME TypeOK, LockInv, readers = {}
  PROVE  Using = {}
  BY DEF TypeOK, LockInv, Using

\* No reconnect, Close or DropAll replaces the connection under a tool call.
THEOREM HeldConnection == Spec => HeldConnectionIsKept
<1>1. ASSUME TypeOK, LockInv, [Next]_vars PROVE [Using \cap Using' # {} => conn' = conn]_vars
  <2>1. CASE Using = {}
    BY <2>1
  <2>2. CASE Using # {}
    <3>1. readers # {}
      BY <1>1, <2>2, WriterExcludesUse
    <3>2. ASSUME NEW t \in Threads, AcquireStep(t) PROVE conn' = conn
      BY <1>1, <3>1, <3>2
         DEF AcquireStep, FastHit, FastMiss, SlowLock, SlowHit, refreshEndpointLocked,
             BudgetExhausted, DialFailed, Dialed, downgradeToReadLock, Acquired,
             HasWrite, LockInv, connVars
    <3>3. ASSUME NEW t \in Threads, CloseStep(t) PROVE conn' = conn
      BY <1>1, <3>1, <3>3 DEF CloseStep, CloseLock, Closed, HasWrite, LockInv, connVars
    <3>4. ASSUME NEW t \in Threads,
                 (\E ep \in Endpoints : Acquire(t, ep)) \/ UseStep(t) \/ Release(t) \/ Close(t)
          PROVE  conn' = conn
      BY <3>4 DEF Acquire, UseStep, SendOk, Store, Clear, Release, Close, connVars
    <3>5. CASE \E c \in open : ConnDies(c)
      BY <3>5 DEF ConnDies
    <3>6. CASE WindowSlides
      BY <3>6 DEF WindowSlides
    <3>7. CASE UNCHANGED vars
      BY <3>7 DEF vars
    <3> QED
      BY <1>1, <3>2, <3>3, <3>4, <3>5, <3>6, <3>7 DEF Next
  <2> QED
    BY <2>1, <2>2
<1> QED
  BY <1>1, LockInvCorrect, PTL DEF Spec, HeldConnectionIsKept
-----------------------------------------------------------------------------
LEMMA ConnInvInit == Init => ConnInv /\ CacheInv
  BY DEF Init, ConnInv, CacheInv, NoConnectionLeak, CacheMatchesConnection

\* refreshEndpointLocked leaves no connection, or one of the zero endpoint.
LEMMA RefreshLeaves ==
  ASSUME TypeOK, ConnInv, NEW t \in Threads, refreshEndpointLocked(t)
  PROVE  \/ /\ conn' = 0 /\ open' = open \ {conn}
            /\ cache' = [s \in Slots |-> 0]
         \/ /\ UNCHANGED <<conn, open, cache>>
            /\ conn # 0 => dialedFor[conn] = NoEndpoint
<1>1. CASE mustDrop(want[t])
  BY <1>1, Zenon DEF refreshEndpointLocked, dropConnLocked
<1>2. CASE ~mustDrop(want[t])
  <2>1. UNCHANGED <<conn, open, cache>>
    BY <1>2, Zenon DEF refreshEndpointLocked
  <2>2. ~connUsableLocked(want[t])
    BY DEF refreshEndpointLocked
  <2>3. conn # 0 => dialedFor[conn] \in {epConfig, NoEndpoint}
    BY DEF ConnInv
  <2> QED
    BY <1>2, <2>1, <2>2, <2>3 DEF mustDrop, endpointChangedLocked, connUsableLocked
<1> QED
  BY <1>1, <1>2

\* The connection is replaced only by the writer, and only by a dial that
\* found none or one of the zero endpoint.
LEMMA ConnInvNext == TypeOK /\ LockInv /\ ConnInv /\ [Next]_vars => ConnInv'
<1> SUFFICES ASSUME TypeOK, LockInv, ConnInv, [Next]_vars PROVE ConnInv'
  OBVIOUS
<1> USE DEF TypeOK, Labels, LockInv, ConnInv, NoConnectionLeak, Goto, connVars
<1>1. ASSUME NEW t \in Threads, NEW ep \in Endpoints, Acquire(t, ep) PROVE ConnInv'
  BY <1>1 DEF Acquire
<1>2. ASSUME NEW t \in Threads, AcquireStep(t) PROVE ConnInv'
  <2>1. CASE FastHit(t)
    BY <2>1 DEF FastHit
  <2>2. CASE FastMiss(t)
    BY <2>2 DEF FastMiss
  <2>3. CASE SlowLock(t)
    BY <2>3 DEF SlowLock
  <2>4. CASE SlowHit(t)
    BY <2>4 DEF SlowHit
  <2>5. CASE refreshEndpointLocked(t)
    <3>1. \/ conn' = 0 /\ open' = open \ {conn}
          \/ UNCHANGED <<conn, open>> /\ (conn # 0 => dialedFor[conn] = NoEndpoint)
      BY <2>5, RefreshLeaves
    <3>2. /\ epConfig' = want[t] /\ dialedFor' = dialedFor /\ want' = want
          /\ handle' = handle /\ pc' = [pc EXCEPT ![t] = "dial"] /\ pc[t] = "slow"
      BY <2>5 DEF refreshEndpointLocked
    <3>3. \A u \in Threads : u # t => pc[u] # "dial"
      BY <2>5 DEF refreshEndpointLocked, HasWrite
    <3> QED
      BY <3>1, <3>2, <3>3
  <2>6. CASE BudgetExhausted(t)
    BY <2>6 DEF BudgetExhausted
  <2>7. CASE DialFailed(t)
    BY <2>7 DEF DialFailed
  <2>8. CASE Dialed(t)
    <3> DEFINE d == dialed + 1
    <3>1. /\ d \in ConnIds /\ d # 0 /\ d # conn /\ d \notin open
          /\ dialed \in Nat /\ \A c \in open : c \in ConnIds
      BY <2>8, BoundAssumption DEF Dialed, ConnIds
    <3>2. /\ conn' = d /\ open' = open \cup {d} /\ epConfig' = epConfig
          /\ dialedFor' = [dialedFor EXCEPT ![d] = want[t]]
          /\ handle' = [handle EXCEPT ![t] = d]
          /\ pc' = [pc EXCEPT ![t] = "downgrade"] /\ pc[t] = "dial"
      BY <2>8 DEF Dialed
    <3>3. \A u \in Threads : u # t => pc[u] # "dial"
      BY <2>8 DEF Dialed
    <3>4. dialedFor'[d] = want[t] /\ \A c \in ConnIds : c # d => dialedFor'[c] = dialedFor[c]
      BY <3>1, <3>2
    <3>5. conn \in ConnIds
      BY BoundAssumption DEF ConnIds
    <3> HIDE DEF d
    <3> QED
      BY <3>1, <3>2, <3>3, <3>4, <3>5
  <2>9. CASE downgradeToReadLock(t)
    BY <2>9 DEF downgradeToReadLock
  <2>10. CASE Acquired(t)
    BY <2>10 DEF Acquired
  <2> QED
    BY <1>2, <2>1, <2>2, <2>3, <2>4, <2>5, <2>6, <2>7, <2>8, <2>9, <2>10 DEF AcquireStep
<1>3. ASSUME NEW t \in Threads, UseStep(t) PROVE ConnInv'
  <2>1. ASSUME NEW s \in Slots, SendOk(t, s) PROVE ConnInv'
    BY <2>1 DEF SendOk
  <2>2. CASE Store(t)
    BY <2>2 DEF Store
  <2>3. ASSUME NEW s \in Slots, Clear(t, s) PROVE ConnInv'
    BY <2>3 DEF Clear
  <2> QED
    BY <1>3, <2>1, <2>2, <2>3 DEF UseStep
<1>4. ASSUME NEW t \in Threads, Release(t) PROVE ConnInv'
  BY <1>4 DEF Release
<1>5. ASSUME NEW t \in Threads, Close(t) PROVE ConnInv'
  BY <1>5 DEF Close
<1>6. ASSUME NEW t \in Threads, CloseStep(t) PROVE ConnInv'
  <2>1. CASE CloseLock(t)
    BY <2>1 DEF CloseLock
  <2>2. CASE Closed(t)
    <3>1. \A u \in Threads : pc[u] # "dial"
      BY <2>2 DEF Closed, HasWrite
    <3> QED
      BY <2>2, <3>1 DEF Closed, dropConnLocked
  <2> QED
    BY <1>6, <2>1, <2>2 DEF CloseStep
<1>7. ASSUME NEW c \in open, ConnDies(c) PROVE ConnInv'
  BY <1>7 DEF ConnDies
<1>8. CASE WindowSlides
  BY <1>8 DEF WindowSlides
<1>9. CASE UNCHANGED vars
  BY <1>9 DEF vars
<1> QED
  BY <1>1, <1>2, <1>3, <1>4, <1>5, <1>6, <1>7, <1>8, <1>9 DEF Next

\* A drop forgets everything; a dial leaves behind only what was learned
\* through a connection of the zero endpoint.
LEMMA CacheInvNext ==
  TypeOK /\ LockInv /\ ConnInv /\ CacheInv /\ [Next]_vars => CacheInv'
<1> SUFFICES ASSUME TypeOK, LockInv, ConnInv, CacheInv, [Next]_vars PROVE CacheInv'
  OBVIOUS
<1> USE DEF TypeOK, Labels, LockInv, CacheInv, CacheMatchesConnection, Goto, connVars
<1>1. ASSUME NEW t \in Threads, NEW ep \in Endpoints, Acquire(t, ep) PROVE CacheInv'
  BY <1>1 DEF Acquire
<1>2. ASSUME NEW t \in Threads, AcquireStep(t) PROVE CacheInv'
  <2>1. CASE FastHit(t)
    BY <2>1 DEF FastHit
  <2>2. CASE FastMiss(t)
    BY <2>2 DEF FastMiss
  <2>3. CASE SlowLock(t)
    BY <2>3 DEF SlowLock
  <2>4. CASE SlowHit(t)
    BY <2>4 DEF SlowHit
  <2>5. CASE refreshEndpointLocked(t)
    <3>1. \/ conn' = 0 /\ cache' = [s \in Slots |-> 0]
          \/ UNCHANGED <<conn, cache>>
      BY <2>5, RefreshLeaves
    <3>2. \A u \in Threads : pc'[u] # "store"
      BY <2>5 DEF refreshEndpointLocked, HasWrite
    <3>3. dialedFor' = dialedFor
      BY <2>5 DEF refreshEndpointLocked
    <3> QED
      BY <3>1, <3>2, <3>3
  <2>6. CASE BudgetExhausted(t)
    BY <2>6 DEF BudgetExhausted
  <2>7. CASE DialFailed(t)
    BY <2>7 DEF DialFailed
  <2>8. CASE Dialed(t)
    <3> DEFINE d == dialed + 1
    <3>1. /\ d \in Nat /\ dialed \in Nat /\ dialed < d /\ dialed < MaxConns
          /\ MaxConns \in Nat /\ dialed \in ConnIds
      BY <2>8, BoundAssumption DEF Dialed, ConnIds
    <3>2. /\ conn' = d /\ dialedFor' = [dialedFor EXCEPT ![d] = want[t]]
          /\ cache' = cache
      BY <2>8 DEF Dialed
    <3>3. \A u \in Threads : pc'[u] # "store"
      BY <2>8 DEF Dialed
    <3>4. \A c \in 0 .. dialed : c \in ConnIds /\ c # d
      BY <3>1 DEF ConnIds
    <3>5. \A c \in 0 .. dialed : dialedFor'[c] = dialedFor[c]
      BY <3>2, <3>4
    <3>6. conn # 0 => dialedFor[conn] = NoEndpoint
      BY <2>8 DEF Dialed, ConnInv
    <3>7. \A s \in Slots : cache[s] \in 0 .. dialed
      OBVIOUS
    <3>8. \A s \in Slots : cache[s] = 0 \/ dialedFor[cache[s]] = NoEndpoint
      BY <3>6
    <3> HIDE DEF d
    <3> QED
      BY <3>2, <3>3, <3>5, <3>7, <3>8
  <2>9. CASE downgradeToReadLock(t)
    BY <2>9 DEF downgradeToReadLock
  <2>10. CASE Acquired(t)
    BY <2>10 DEF Acquired
  <2> QED
    BY <1>2, <2>1, <2>2, <2>3, <2>4, <2>5, <2>6, <2>7, <2>8, <2>9, <2>10 DEF AcquireStep
<1>3. ASSUME NEW t \in Threads, UseStep(t) PROVE CacheInv'
  <2>1. ASSUME NEW s \in Slots, SendOk(t, s) PROVE CacheInv'
    <3>1. handle[t] \in open /\ handle[t] # 0
      BY <2>1, BoundAssumption DEF SendOk, ConnIds
    <3>2. handle[t] = conn \/ dialedFor[handle[t]] = NoEndpoint
      BY <3>1 DEF ConnInv, NoConnectionLeak
    <3> QED
      BY <2>1, <3>1, <3>2 DEF SendOk
  <2>2. CASE Store(t)
    BY <2>2 DEF Store
  <2>3. ASSUME NEW s \in Slots, Clear(t, s) PROVE CacheInv'
    BY <2>3 DEF Clear
  <2> QED
    BY <1>3, <2>1, <2>2, <2>3 DEF UseStep
<1>4. ASSUME NEW t \in Threads, Release(t) PROVE CacheInv'
  BY <1>4 DEF Release
<1>5. ASSUME NEW t \in Threads, Close(t) PROVE CacheInv'
  BY <1>5 DEF Close
<1>6. ASSUME NEW t \in Threads, CloseStep(t) PROVE CacheInv'
  <2>1. CASE CloseLock(t)
    BY <2>1 DEF CloseLock
  <2>2. CASE Closed(t)
    <3>1. \A u \in Threads : pc'[u] # "store"
      BY <2>2 DEF Closed, HasWrite
    <3> QED
      BY <2>2, <3>1 DEF Closed, dropConnLocked
  <2> QED
    BY <1>6, <2>1, <2>2 DEF CloseStep
<1>7. ASSUME NEW c \in open, ConnDies(c) PROVE CacheInv'
  BY <1>7 DEF ConnDies
<1>8. CASE WindowSlides
  BY <1>8 DEF WindowSlides
<1>9. CASE UNCHANGED vars
  BY <1>9 DEF vars
<1> QED
  BY <1>1, <1>2, <1>3, <1>4, <1>5, <1>6, <1>7, <1>8, <1>9 DEF Next

LEMMA ConnInvCorrect == Spec => [](TypeOK /\ LockInv /\ ConnInv /\ CacheInv)
  BY LockInvCorrect, ConnInvInit, ConnInvNext, CacheInvNext, PTL DEF Spec

\* A connection that a dial stored over was dialed for the zero endpoint;
\* every other open connection is the session's own, so the next drop closes
\* it.  Any endpoint may be asked for, the zero endpoint included.
THEOREM NoLeak == Spec => []NoConnectionLeak
<1>1. ConnInv => NoConnectionLeak
  BY DEF ConnInv
<1> QED
  BY <1>1, ConnInvCorrect, PTL

\* No cached target, snapshot or enabled domain outlives the connection it was
\* learned through, unless that was a connection of the zero endpoint.
THEOREM CacheCoherent == Spec => []CacheMatchesConnection
<1>1. CacheInv => CacheMatchesConnection
  BY DEF CacheInv
<1> QED
  BY <1>1, ConnInvCorrect, PTL

\* A caller gets a connection dialed for its endpoint, or for the zero one.
THEOREM EndpointHonoured == Spec => EndpointIsHonoured
<1> DEFINE Honours ==
      \A t \in Threads :
        pc[t] \in {"fast", "slow", "dial"} /\ handle'[t] # 0
          => dialedFor'[handle'[t]] \in {want[t], NoEndpoint}
<1>1. ASSUME TypeOK, LockInv, ConnInv, [Next]_vars PROVE [Honours]_vars
  <2> USE <1>1
  <2>1. SUFFICES ASSUME NEW t \in Threads, pc[t] \in {"fast", "slow", "dial"}, handle'[t] # 0,
                        Next
                 PROVE  dialedFor'[handle'[t]] \in {want[t], NoEndpoint}
    BY DEF vars
  <2>2. handle[t] = 0 /\ handle \in [Threads -> 0 .. dialed] /\ handle' # handle
    BY <2>1 DEF ConnInv, TypeOK
  <2>3. CASE FastHit(t)
    BY <2>1, <2>3 DEF FastHit, connUsableLocked, ConnInv, connVars, TypeOK
  <2>4. CASE SlowHit(t)
    BY <2>1, <2>4 DEF SlowHit, connUsableLocked, ConnInv, connVars, TypeOK
  <2>5. CASE Dialed(t)
    <3>1. dialed + 1 \in ConnIds
      BY <2>5, BoundAssumption DEF Dialed, ConnIds, TypeOK
    <3> QED
      BY <2>1, <2>5, <3>1 DEF Dialed, TypeOK
  <2>6. ASSUME NEW u \in Threads, AcquireStep(u)
        PROVE  u = t /\ (FastHit(t) \/ SlowHit(t) \/ Dialed(t))
    BY <2>1, <2>2, <2>6
       DEF AcquireStep, FastHit, FastMiss, SlowLock, SlowHit, refreshEndpointLocked,
           BudgetExhausted, DialFailed, Dialed, downgradeToReadLock, Acquired
  <2>7. ASSUME NEW u \in Threads,
               \/ \E ep \in Endpoints : Acquire(u, ep)
               \/ UseStep(u) \/ Close(u) \/ CloseStep(u)
        PROVE  FALSE
    BY <2>2, <2>7 DEF Acquire, UseStep, SendOk, Store, Clear, Close, CloseStep, CloseLock, Closed
  <2>8. ASSUME NEW u \in Threads, Release(u) PROVE FALSE
    BY <2>1, <2>2, <2>8 DEF Release
  <2>9. ~(\E c \in open : ConnDies(c)) /\ ~WindowSlides
    BY <2>2 DEF ConnDies, WindowSlides
  <2> QED
    BY <2>1, <2>3, <2>4, <2>5, <2>6, <2>7, <2>8, <2>9 DEF Next
<1> QED
  BY <1>1, ConnInvCorrect, PTL DEF Spec, EndpointIsHonoured
-----------------------------------------------------------------------------
(* The reconnect budget.  WithinBudget speaks of all attempts ever made,   *)
(* while the code only sees the record it prunes.  RecordInv is the link:  *)
(* an attempt that is off the record ended outside the window.             *)

RecordInv ==
  /\ \A i \in Finished : ended[i] <= now
  /\ \A i \in Finished \ record : ended[i] <= now - ReconnectWindow
  /\ dialing => begun[attempts] <= now

BudgetInv == BudgetTypeOK /\ RecordInv /\ WithinBudget
-----------------------------------------------------------------------------
LEMMA Ranges ==
  ASSUME BudgetTypeOK
  PROVE  /\ attempts \in Nat /\ MaxAttempts \in Nat /\ attempts <= MaxAttempts
         /\ now \in Nat /\ ReconnectWindow \in Nat /\ MaxReconnects \in Nat
         /\ Finished \subseteq 1 .. attempts
         /\ \A i \in 1 .. attempts :
              i \in Attempts /\ i \in Nat /\ ended[i] \in Int /\ begun[i] \in Int
<1>1. /\ attempts \in Nat /\ MaxAttempts \in Nat /\ attempts <= MaxAttempts
      /\ now \in Nat /\ MaxTime \in Nat /\ ReconnectWindow \in Nat /\ MaxReconnects \in Nat
  BY BoundsAssumption, ReconnectAssumption DEF BudgetTypeOK
<1>2. Finished \subseteq 1 .. attempts
  BY <1>1 DEF Finished
<1>3. ASSUME NEW i \in 1 .. attempts
      PROVE  i \in Attempts /\ i \in Nat /\ ended[i] \in Int /\ begun[i] \in Int
  <2>1. i \in Attempts /\ i \in Nat
    BY <1>1 DEF Attempts
  <2> QED BY <1>1, <2>1 DEF BudgetTypeOK
<1> QED BY <1>1, <1>2, <1>3

LEMMA RecordIsFinite ==
  ASSUME BudgetTypeOK
  PROVE  IsFiniteSet(pruned) /\ Cardinality(pruned) \in Nat
<1>1. attempts \in Nat /\ pruned \in SUBSET (1 .. attempts)
  BY Ranges DEF BudgetTypeOK, pruned
<1>2. IsFiniteSet(1 .. attempts)
  BY <1>1, FS_Interval
<1> QED BY <1>1, <1>2, FS_Subset, FS_CardinalityType

\* A step that leaves earlier attempts alone leaves their windows alone.
LEMMA BeforeIsStable ==
  ASSUME NEW n \in Nat,
         begun'[n] = begun[n], \A i \in 1 .. n - 1 : ended'[i] = ended[i]
  PROVE  Before(n)' = Before(n)
  BY DEF Before

LEMMA BeginStep ==
  ASSUME BudgetInv, Begin
  PROVE  BudgetInv'
<1> USE DEF BudgetInv
<1>0. /\ MaxAttempts \in Nat /\ attempts <= MaxAttempts
      /\ \A i \in 1 .. attempts :
           i \in Attempts /\ i \in Nat /\ ended[i] \in Int /\ begun[i] \in Int
  BY Ranges
<1>1. /\ attempts \in Nat /\ attempts + 1 \in Attempts /\ now \in 0 .. MaxTime
      /\ ReconnectWindow \in Nat /\ Finished = 1 .. attempts
      /\ attempts' = attempts + 1 /\ dialing' = TRUE
      /\ now' = now /\ ended' = ended
      /\ Finished' = 1 .. attempts
  BY BoundsAssumption, ReconnectAssumption DEF BudgetTypeOK, Begin, Finished, Attempts
<1>2. /\ begun' \in [Attempts -> 0 .. MaxTime] /\ begun'[attempts + 1] = now
      /\ \A i \in Attempts : i # attempts + 1 => begun'[i] = begun[i]
  BY <1>1 DEF BudgetTypeOK, Begin
<1>3. BudgetTypeOK'
  <2>1. \A i \in Finished' : begun'[i] <= ended'[i]
    <3>1. \A i \in 1 .. attempts : i \in Attempts /\ i # attempts + 1
      BY <1>0, <1>1
    <3> QED BY <1>1, <1>2, <3>1 DEF BudgetTypeOK
  <2>2. record' \subseteq Finished'
    BY <1>1 DEF Begin, pruned, BudgetTypeOK
  <2>3. attempts' \in 0 .. MaxAttempts /\ attempts' > 0
    BY <1>1 DEF Attempts
  <2> QED BY <1>1, <1>2, <2>1, <2>2, <2>3 DEF BudgetTypeOK
<1>4. RecordInv'
  <2>1. ASSUME NEW i \in 1 .. attempts, i \notin pruned
        PROVE  ended[i] <= now - ReconnectWindow
    <3>1. CASE i \in record
      <4>1. ended[i] \in Int
        BY <1>0, <2>1
      <4> QED BY <1>1, <2>1, <3>1, <4>1 DEF pruned
    <3>2. CASE i \notin record
      BY <1>1, <3>2 DEF RecordInv
    <3> QED BY <3>1, <3>2
  <2>2. record' = pruned
    BY DEF Begin
  <2>3. begun'[attempts'] <= now'
    BY <1>1, <1>2
  <2> QED BY <1>1, <2>1, <2>2, <2>3 DEF RecordInv
<1>5. WithinBudget'
  <2>1. ASSUME NEW n \in 1 .. attempts
        PROVE  Cardinality(Before(n)') < MaxReconnects
    <3>1. n \in Nat /\ begun'[n] = begun[n]
      BY <1>0, <1>1, <1>2
    <3>2. Before(n)' = Before(n)
      BY <1>1, <3>1, BeforeIsStable
    <3> QED BY <3>2 DEF WithinBudget
  <2>2. ASSUME NEW n \in Nat, n = attempts + 1
        PROVE  Cardinality(Before(n)') < MaxReconnects
    <3>1. Before(n)' = {i \in 1 .. attempts : ended[i] > now - ReconnectWindow}
      <4>1. begun'[n] = now /\ n - 1 = attempts
        BY <1>1, <1>2, <2>2
      <4> QED BY <1>1, <4>1 DEF Before
    <3>2. {i \in 1 .. attempts : ended[i] > now - ReconnectWindow} \subseteq pruned
      <4>1. ASSUME NEW i \in 1 .. attempts, ended[i] > now - ReconnectWindow
            PROVE  i \in record
        <5>1. ended[i] \in Int
          BY <1>0, <4>1
        <5>2. ~(ended[i] <= now - ReconnectWindow)
          BY <1>1, <4>1, <5>1
        <5> QED BY <1>1, <5>2 DEF RecordInv
      <4> QED BY <4>1 DEF pruned
    <3>3. /\ Cardinality(Before(n)') <= Cardinality(pruned)
          /\ Cardinality(Before(n)') \in Nat
      BY <3>1, <3>2, RecordIsFinite, FS_Subset, FS_CardinalityType
    <3>4. Cardinality(pruned) < MaxReconnects
      BY DEF Begin, canReconnect
    <3> QED BY <3>3, <3>4, RecordIsFinite, ReconnectAssumption
  <2>3. \A n \in 1 .. attempts + 1 : n \in Nat /\ (n \in 1 .. attempts \/ n = attempts + 1)
    BY <1>1
  <2>4. \A n \in 1 .. attempts + 1 : Cardinality(Before(n)') < MaxReconnects
    BY <2>1, <2>2, <2>3
  <2> QED BY <1>1, <2>4, ReconnectAssumption DEF WithinBudget
<1> QED BY <1>3, <1>4, <1>5

LEMMA EndStep ==
  ASSUME BudgetInv, End
  PROVE  BudgetInv'
<1> USE DEF BudgetInv
<1>1. /\ attempts \in Attempts /\ attempts \in Nat /\ now \in 0 .. MaxTime
      /\ Finished = 1 .. attempts - 1 /\ Finished' = 1 .. attempts
      /\ attempts' = attempts /\ now' = now /\ begun' = begun /\ dialing' = FALSE
      /\ record' = record \cup {attempts}
      /\ begun[attempts] \in 0 .. MaxTime
  BY BoundsAssumption DEF BudgetTypeOK, End, Finished, Attempts
<1>2. /\ ended' \in [Attempts -> 0 .. MaxTime] /\ ended'[attempts] = now
      /\ \A i \in 1 .. attempts - 1 : ended'[i] = ended[i]
  BY <1>1 DEF BudgetTypeOK, End, recordReconnectLocked
<1>3. \A i \in 1 .. attempts : i = attempts \/ i \in 1 .. attempts - 1
  BY <1>1
<1>4. begun[attempts] <= now
  BY DEF RecordInv, End
<1>5. BudgetTypeOK'
  <2>1. \A i \in 1 .. attempts : begun[i] <= ended'[i]
    BY <1>1, <1>2, <1>3, <1>4 DEF BudgetTypeOK
  <2>2. record' \subseteq 1 .. attempts
    <3>1. Finished \subseteq 1 .. attempts /\ attempts \in 1 .. attempts
      BY <1>1, Ranges DEF Attempts
    <3> QED BY <1>1, <3>1 DEF BudgetTypeOK
  <2> QED BY <1>1, <1>2, <2>1, <2>2 DEF BudgetTypeOK
<1>6. RecordInv'
  <2>1. \A i \in 1 .. attempts : ended'[i] <= now
    BY <1>1, <1>2, <1>3 DEF RecordInv
  <2>2. \A i \in (1 .. attempts) \ record' : ended'[i] <= now - ReconnectWindow
    BY <1>1, <1>2, <1>3 DEF RecordInv
  <2> QED BY <1>1, <2>1, <2>2 DEF RecordInv
<1>7. WithinBudget'
  <2>1. ASSUME NEW n \in 1 .. attempts
        PROVE  Cardinality(Before(n)') < MaxReconnects
    <3>1. n \in Nat /\ \A i \in 1 .. n - 1 : ended'[i] = ended[i]
      BY <1>1, <1>2
    <3>2. Before(n)' = Before(n)
      BY <1>1, <3>1, BeforeIsStable
    <3> QED BY <3>2 DEF WithinBudget
  <2> QED BY <1>1, <2>1 DEF WithinBudget
<1> QED BY <1>5, <1>6, <1>7

\* Steps that make no attempt: the clock, a refusal, a reuse.
LEMMA QuietStep ==
  ASSUME BudgetInv, Tick \/ Refuse \/ Reuse \/ UNCHANGED budgetVars
  PROVE  BudgetInv'
<1> USE DEF BudgetInv
<1>1. /\ attempts' = attempts /\ begun' = begun /\ ended' = ended
      /\ dialing' = dialing /\ Finished' = Finished
      /\ now \in Int /\ now' \in 0 .. MaxTime /\ now' >= now
      /\ attempts \in Nat /\ ReconnectWindow \in Int
      /\ record' \in {record, pruned}
      /\ record' # record => now' = now
  BY BoundsAssumption, ReconnectAssumption
     DEF Tick, Refuse, Reuse, budgetVars, BudgetTypeOK, Finished
<1>2. \A i \in Finished : i \in Attempts /\ ended[i] \in Int
  BY Ranges
<1>3. BudgetTypeOK'
  BY <1>1 DEF BudgetTypeOK, pruned
<1>4. RecordInv'
  <2>1. ASSUME NEW i \in Finished, i \notin record'
        PROVE  ended[i] <= now' - ReconnectWindow
    <3>1. CASE i \notin record
      BY <1>1, <1>2, <3>1 DEF RecordInv
    <3>2. CASE i \in record
      BY <1>1, <1>2, <2>1, <3>2 DEF pruned
    <3> QED BY <3>1, <3>2
  <2>2. \A i \in Finished : ended[i] <= now'
    BY <1>1, <1>2 DEF RecordInv
  <2>3. dialing => begun[attempts] <= now'
    <3>1. dialing => begun[attempts] \in Int
      BY <1>1 DEF BudgetTypeOK, Attempts
    <3> QED BY <1>1, <3>1 DEF RecordInv
  <2> QED BY <1>1, <2>1, <2>2, <2>3 DEF RecordInv
<1>5. WithinBudget'
  <2>1. \A n \in 1 .. attempts : Before(n)' = Before(n)
    BY <1>1, BeforeIsStable
  <2> QED BY <1>1, <2>1 DEF WithinBudget
<1> QED BY <1>3, <1>4, <1>5
-----------------------------------------------------------------------------
LEMMA BudgetInvariance == BudgetSpec => []BudgetInv
<1>1. BudgetInit => BudgetInv
  <2> SUFFICES ASSUME BudgetInit PROVE BudgetInv
    OBVIOUS
  <2>1. attempts = 0 /\ Finished = {} /\ MaxAttempts \in Nat /\ MaxTime \in Nat
    BY BoundsAssumption DEF BudgetInit, Finished
  <2>2. BudgetTypeOK
    <3>1. 0 \in 0 .. MaxTime /\ 0 \in 0 .. MaxAttempts
      BY <2>1
    <3>2. begun \in [Attempts -> 0 .. MaxTime] /\ ended \in [Attempts -> 0 .. MaxTime]
      BY <3>1 DEF BudgetInit
    <3> QED BY <2>1, <3>1, <3>2 DEF BudgetInit, BudgetTypeOK
  <2>4. RecordInv
    BY <2>1 DEF BudgetInit, RecordInv
  <2>3. WithinBudget
    BY <2>1 DEF WithinBudget
  <2> QED BY <2>2, <2>3, <2>4 DEF BudgetInv
<1>2. BudgetInv /\ [BudgetNext]_budgetVars => BudgetInv'
  BY BeginStep, EndStep, QuietStep DEF BudgetNext
<1> QED BY <1>1, <1>2, PTL DEF BudgetSpec

\* The types of the record and the clock, for any budget
\* (session.go:209-224).
THEOREM BudgetTypeCorrect == BudgetSpec => []BudgetTypeOK
<1>1. BudgetInv => BudgetTypeOK
  BY DEF BudgetInv
<1> QED BY <1>1, BudgetInvariance, PTL

\* The budget bounds the attempts of every window, not only those on record
\* (session.go:408-422).
THEOREM BudgetIsKept == BudgetSpec => []WithinBudget
<1>1. BudgetInv => WithinBudget
  BY DEF BudgetInv
<1> QED BY <1>1, BudgetInvariance, PTL

\* A refusal is always deserved (session.go:210-213).
THEOREM RefusalIsDeserved == BudgetSpec => []RefusedOnlyWhenSpent
<1>1. BudgetTypeOK => RefusedOnlyWhenSpent
  <2> SUFFICES ASSUME BudgetTypeOK, ~canReconnect, ~dialing
               PROVE  Cardinality({i \in Finished : ended[i] > now - ReconnectWindow})
                        >= MaxReconnects
    BY DEF RefusedOnlyWhenSpent
  <2> DEFINE recent == {i \in Finished : ended[i] > now - ReconnectWindow}
  <2>1. pruned \subseteq recent
    BY DEF pruned, BudgetTypeOK
  <2>2. attempts \in Nat /\ recent \in SUBSET (1 .. attempts)
    BY Ranges
  <2>3. IsFiniteSet(recent)
    <3>1. IsFiniteSet(1 .. attempts)
      BY <2>2, FS_Interval
    <3> HIDE DEF recent
    <3> QED BY <2>2, <3>1, FS_Subset
  <2>4. Cardinality(pruned) <= Cardinality(recent) /\ Cardinality(recent) \in Nat
    BY <2>1, <2>3, FS_Subset, FS_CardinalityType
  <2>5. Cardinality(pruned) >= MaxReconnects
    BY RecordIsFinite, ReconnectAssumption DEF canReconnect
  <2> QED BY <2>4, <2>5, RecordIsFinite, ReconnectAssumption
<1> QED BY <1>1, BudgetTypeCorrect, PTL
=============================================================================
