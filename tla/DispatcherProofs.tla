--------------------------- MODULE DispatcherProofs ---------------------------
(***************************************************************************)
(* Proofs about Dispatcher, for any number of calls and sessions: what a   *)
(* call that holds a session can rely on, what DropAll closes, and that    *)
(* recoveries share a relaunch.                                            *)
(***************************************************************************)
EXTENDS Dispatcher, TLAPS

Labels == {"idle", "get", "acquire", "slow", "dial", "downgrade", "using", "recover", "probe",
           "stopAll", "launch", "coldStart", "drop", "dropLock", "dropClose"}
Conns == {"none", "open", "dead"}

TypeOK ==
  /\ pool \in 0 .. MaxSessions
  /\ conn \in [Sessions -> Conns]
  /\ readers \in [Sessions -> SUBSET (Calls \X BOOLEAN)]
  /\ excel \in BOOLEAN /\ tracked \in BOOLEAN /\ starter \in {"recovery", "launch"}
  /\ missed \in Calls \cup {NoCall}
  /\ recoverMu \in Calls \cup {NoCall}
  /\ pc \in [Calls -> Labels]
  /\ sess \in [Calls -> 0 .. MaxSessions]
  /\ outer \in [Calls -> 0 .. MaxSessions]
  /\ victim \in [Calls -> 0 .. MaxSessions]

\* A call that acquires or uses a session has looked one up; one that closes a
\* session has taken it from the pool.
HasSession ==
  /\ \A c \in Calls : pc[c] \in {"acquire", "slow", "dial", "downgrade", "using"} => sess[c] # 0
  /\ \A c \in Calls : pc[c] = "dropClose" => victim[c] # 0

\* A call that uses a session, and a macro while its step runs, hold its lock.
UsersRead ==
  \A c \in Calls :
    /\ pc[c] = "using" => Holder(c) \in readers[sess[c]]
    /\ outer[c] # 0 => <<c, FALSE>> \in readers[outer[c]]

\* One recovery decides at a time, and what it is about to stop no recovery has
\* started, or its own probe has missed it.
RecoveryIsSerial ==
  \A c \in Calls :
    /\ pc[c] \in {"probe", "stopAll"} => recoverMu = c
    /\ pc[c] = "stopAll" /\ excel /\ starter = "recovery" => missed = c

IInv == TypeOK /\ HasSession /\ UsersRead /\ RecoveryIsSerial /\ DroppedIsGone

\* The steps of a call.
CallStep(c) ==
  \/ \E t \in Tools[c] : Dispatch(c, t)
  \/ \E t \in {"page", "launch"} : replayStep(c, t)
  \/ Step(c) \/ LockStep(c) \/ Release(c)
-----------------------------------------------------------------------------
(* What a step of a call leaves alone.                                     *)

\* Sessions are the numbers but 0.
LEMMA Numbers == Sessions = (0 .. MaxSessions) \ {0} /\ 0 \in 0 .. MaxSessions
BY BoundsAssumption DEF Sessions

\* Get finds the session of the pool, or makes one that nobody can reach.
LEMMA Fresh ==
  ASSUME TypeOK, NEW c \in Calls, Get(c)
  PROVE  /\ sess'[c] = pool' /\ pc'[c] = "acquire" /\ pool' # 0
         /\ victim' = victim
         /\ pool' = pool \/ (pool' \in Sessions /\ Unreachable(pool'))
<1> DEFINE fresh == CHOOSE s \in Sessions : Unreachable(s)
<1>1. pool = 0 => fresh \in Sessions /\ Unreachable(fresh)
  <2>1. pool = 0 => \E s \in Sessions : Unreachable(s)
    BY DEF Get
  <2> QED
    BY <2>1, Zenon
<1>2. pool' = IF pool # 0 THEN pool ELSE fresh
  BY DEF Get
<1>3. Unreachable(fresh) => Unreachable(pool') \/ pool # 0
  BY <1>2, Zenon
<1> HIDE DEF fresh
<1>4. pool' # 0 /\ (pool' = pool \/ (pool' \in Sessions /\ Unreachable(pool')))
  BY <1>1, <1>2, <1>3, Numbers
<1>5. sess'[c] = pool' /\ pc'[c] = "acquire" /\ victim' = victim
  BY DEF TypeOK, Get, Goto
<1> QED
  BY <1>4, <1>5

\* It changes nothing of another call.
LEMMA OthersStay ==
  ASSUME TypeOK, NEW c \in Calls, CallStep(c), NEW d \in Calls, d # c
  PROVE  pc'[d] = pc[d] /\ sess'[d] = sess[d] /\ outer'[d] = outer[d] /\ victim'[d] = victim[d]
<1>1. CASE Step(c)
  <2>1. CASE reuseLiveLaunch(c)
    BY <2>1 DEF TypeOK, reuseLiveLaunch, Goto
  <2>2. CASE reuseTrackedLaunch(c)
    BY <2>2 DEF TypeOK, reuseTrackedLaunch, Goto
  <2>3. CASE Step(c) /\ ~reuseLiveLaunch(c) /\ ~reuseTrackedLaunch(c)
    BY <2>3 DEF TypeOK, Step, Get, Connected, DialFailed, BudgetExhausted, NothingToRecover,
       StopAll, coldStartLaunch, LaunchFailed, DropAll, DropClose, Dropped, Goto, Fail, Finish,
       Return
  <2> QED BY <1>1, <2>1, <2>2, <2>3
<1>2. CASE ~Step(c)
  BY <1>2 DEF TypeOK, CallStep, Dispatch, replayStep, Start, LockStep, AcquireFast, AcquireLock,
     downgradeToReadLock, recoverConnection, DropLock, Release, Goto, Finish, Return
<1> QED
  BY <1>1, <1>2

\* A returning call, or the macro whose step it was, is done with its session.
LEMMA Returning ==
  ASSUME TypeOK, NEW c \in Calls, NEW rest, Return(c, rest)
  PROVE  /\ pc' \in [Calls -> Labels] /\ sess' \in [Calls -> 0 .. MaxSessions]
         /\ outer' \in [Calls -> 0 .. MaxSessions]
         /\ sess'[c] = outer[c] /\ outer'[c] = 0
         /\ pc'[c] = IF outer[c] = 0 THEN "idle" ELSE "using"
<1>1. 0 \in 0 .. MaxSessions
  BY BoundsAssumption
<1> QED
  BY <1>1 DEF TypeOK, Return, Goto, Labels

\* A call adds itself to the readers, or takes itself away.
LEMMA ReadersChange ==
  ASSUME TypeOK, NEW c \in Calls, CallStep(c)
  PROVE  /\ readers' \in [Sessions -> SUBSET (Calls \X BOOLEAN)]
         /\ \A s \in Sessions : \A h \in readers[s] :
              h \in readers'[s] \/ (pc[c] = "using" /\ h = Holder(c))
<1>1. CASE AcquireFast(c) \/ downgradeToReadLock(c)
  <2>1. Holder(c) \in Calls \X BOOLEAN
    BY DEF Holder
  <2>2. \/ readers' = [readers EXCEPT ![sess[c]] = @ \cup {Holder(c)}]
        \/ UNCHANGED readers
    BY <1>1 DEF AcquireFast, downgradeToReadLock
  <2>3. \A s \in Sessions : readers[s] \cup {Holder(c)} \in SUBSET (Calls \X BOOLEAN)
    BY <2>1 DEF TypeOK
  <2> QED
    BY <2>2, <2>3 DEF TypeOK
<1>2. CASE Release(c)
  BY <1>2 DEF TypeOK, Release, At
<1>3. CASE UNCHANGED readers
  BY <1>3 DEF TypeOK
<1> QED
  BY <1>1, <1>2, <1>3 DEF CallStep, Dispatch, replayStep, Step, Get, Connected, DialFailed,
     BudgetExhausted, NothingToRecover, reuseLiveLaunch, StopAll, reuseTrackedLaunch,
     coldStartLaunch, LaunchFailed, DropAll, DropClose, Dropped, LockStep, AcquireFast,
     AcquireLock, recoverConnection, DropLock, sessionVars

\* A session that someone uses keeps its connection, until Excel goes.
LEMMA UsedStays ==
  ASSUME TypeOK, NEW c \in Calls, CallStep(c), NEW s \in Sessions, readers[s] # {},
         ~Unreachable(s)
  PROVE  conn'[s] \in {conn[s], "dead"}
<1>1. CASE Connected(c) \/ DialFailed(c) \/ BudgetExhausted(c) \/ DropClose(c)
  BY <1>1 DEF TypeOK, Connected, DialFailed, BudgetExhausted, DropClose, Exclusive
<1>2. CASE Get(c)
  <2>1. pool = 0 => (CHOOSE x \in Sessions : Unreachable(x)) # s
    BY <1>2 DEF Get
  <2> QED
    BY <1>2, <2>1 DEF TypeOK, Get
<1>3. CASE StopAll(c) \/ reuseTrackedLaunch(c)
  BY <1>3 DEF TypeOK, StopAll, reuseTrackedLaunch, Die
<1>4. CASE UNCHANGED conn
  BY <1>4
<1> QED
  BY <1>1, <1>2, <1>3, <1>4 DEF CallStep, Dispatch, replayStep, Step, NothingToRecover,
     reuseLiveLaunch, coldStartLaunch, LaunchFailed, DropAll, Dropped, LockStep, AcquireFast,
     AcquireLock, downgradeToReadLock, recoverConnection, DropLock, Release, sessionVars
-----------------------------------------------------------------------------
(* Every step preserves each part of the invariant.                        *)

\* Calls stay at their labels, sessions within their numbers.
LEMMA TypeStep ==
  ASSUME TypeOK, NEW c \in Calls, CallStep(c)
  PROVE  TypeOK'
<1>1. 0 \in 0 .. MaxSessions /\ Sessions \subseteq 0 .. MaxSessions
  BY BoundsAssumption DEF Sessions
<1>2. readers' \in [Sessions -> SUBSET (Calls \X BOOLEAN)]
  BY ReadersChange
<1>3. CASE Get(c)
  <2>1. pool = 0 => (CHOOSE x \in Sessions : Unreachable(x)) \in Sessions
    BY <1>3 DEF Get
  <2>2. pool' \in 0 .. MaxSessions /\ conn' \in [Sessions -> Conns]
    BY <1>1, <1>3, <2>1 DEF TypeOK, Get, Conns
  <2> QED
    BY <1>2, <1>3, <2>2 DEF TypeOK, Get, Goto, Labels, excelVars
<1>4. ASSUME NEW rest, Return(c, rest), conn' \in [Sessions -> Conns],
             recoverMu' \in Calls \cup {NoCall}, UNCHANGED <<pool, excelVars, victim>>
      PROVE  TypeOK'
  BY <1>2, <1>4, Returning DEF TypeOK, excelVars
<1>5. CASE Connected(c)
  BY <1>2, <1>5 DEF TypeOK, Connected, Goto, Labels, Conns, excelVars
<1>6. CASE DialFailed(c)
  <2>1. conn' \in [Sessions -> Conns]
    BY <1>6 DEF TypeOK, DialFailed, Conns
  <2>2. CASE retried[c]
    BY <1>4, <1>6, <2>1, <2>2 DEF DialFailed, Fail, TypeOK
  <2>3. CASE ~retried[c]
    BY <1>1, <1>2, <1>6, <2>1, <2>3 DEF TypeOK, DialFailed, Goto, Labels, excelVars
  <2> QED
    BY <2>2, <2>3
<1>7. CASE BudgetExhausted(c) \/ NothingToRecover(c) \/ LaunchFailed(c) \/ Release(c)
  <2>1. conn' \in [Sessions -> Conns] /\ recoverMu' \in Calls \cup {NoCall}
    BY <1>7 DEF TypeOK, BudgetExhausted, NothingToRecover, LaunchFailed, Release, Unserialize,
       Conns, sessionVars
  <2>2. \E rest : Return(c, rest)
    BY <1>7 DEF BudgetExhausted, NothingToRecover, LaunchFailed, Release, Fail, Finish
  <2>3. UNCHANGED <<pool, excelVars, victim>>
    BY <1>7 DEF BudgetExhausted, NothingToRecover, LaunchFailed, Release
  <2> QED
    BY <1>4, <2>1, <2>2, <2>3
<1>8. CASE Dropped(c)
  <2>1. /\ recoverMu' \in Calls \cup {NoCall} /\ conn' \in [Sessions -> Conns]
        /\ UNCHANGED <<pool, excelVars, victim>>
    BY <1>8 DEF TypeOK, Dropped, Unserialize, sessionVars
  <2>2. CASE recoverMu = c
    BY <1>2, <1>8, <2>1, <2>2 DEF TypeOK, Dropped, Goto, Labels, excelVars
  <2>3. CASE recoverMu # c
    BY <1>4, <1>8, <2>1, <2>3 DEF Dropped, Finish
  <2> QED
    BY <2>2, <2>3
<1>9. CASE DropAll(c) \/ DropClose(c) \/ DropLock(c)
  BY <1>1, <1>2, <1>9 DEF TypeOK, DropAll, DropClose, DropLock, Goto, Labels, Conns, excelVars,
     sessionVars
<1>10. CASE reuseLiveLaunch(c) \/ StopAll(c) \/ reuseTrackedLaunch(c) \/ coldStartLaunch(c)
  <2>1. /\ conn' \in [Sessions -> Conns]
        /\ excel' \in BOOLEAN /\ tracked' \in BOOLEAN /\ starter' \in {"recovery", "launch"}
        /\ missed' \in Calls \cup {NoCall}
    BY <1>10 DEF TypeOK, reuseLiveLaunch, StopAll, reuseTrackedLaunch, coldStartLaunch, Die,
       Conns, sessionVars
  <2>2. pc' \in [Calls -> Labels]
    BY <1>10 DEF TypeOK, reuseLiveLaunch, StopAll, reuseTrackedLaunch, coldStartLaunch, Goto,
       Labels
  <2>3. UNCHANGED <<pool, recoverMu, sess, outer, victim>>
    BY <1>10 DEF reuseLiveLaunch, StopAll, reuseTrackedLaunch, coldStartLaunch
  <2> QED
    BY <1>2, <2>1, <2>2, <2>3 DEF TypeOK
<1>11. CASE LockStep(c) /\ ~DropLock(c)
  BY <1>2, <1>11 DEF TypeOK, LockStep, AcquireFast, AcquireLock, downgradeToReadLock,
     recoverConnection, Goto, Labels, excelVars, sessionVars
<1>12. ASSUME NEW t, Dispatch(c, t) \/ replayStep(c, t) PROVE TypeOK'
  BY <1>2, <1>12 DEF TypeOK, Dispatch, replayStep, Start, Goto, Labels, excelVars, sessionVars
<1> QED
  BY <1>3, <1>5, <1>6, <1>7, <1>8, <1>9, <1>10, <1>11, <1>12 DEF CallStep, Step

\* Who is past Get has a session; who closes one has taken it.
LEMMA HasSessionStep ==
  ASSUME IInv, NEW c \in Calls, CallStep(c)
  PROVE  HasSession'
<1>1. TypeOK /\ HasSession /\ UsersRead
  BY DEF IInv
<1>2. SUFFICES /\ pc'[c] \in {"acquire", "slow", "dial", "downgrade", "using"} => sess'[c] # 0
               /\ pc'[c] = "dropClose" => victim'[c] # 0
  BY <1>1, OthersStay DEF HasSession
<1>3. CASE Get(c)
  BY <1>1, <1>3, Fresh
<1>4. ASSUME NEW rest, Return(c, rest)
      PROVE  /\ pc'[c] \in {"acquire", "slow", "dial", "downgrade", "using"} => sess'[c] # 0
             /\ pc'[c] # "dropClose"
  BY <1>1, <1>4, Returning
<1>5. CASE \/ BudgetExhausted(c) \/ NothingToRecover(c) \/ LaunchFailed(c) \/ Release(c)
           \/ (DialFailed(c) /\ retried[c]) \/ (Dropped(c) /\ recoverMu # c)
  BY <1>4, <1>5 DEF BudgetExhausted, NothingToRecover, LaunchFailed, Release, DialFailed,
     Dropped, Fail, Finish
<1>6. CASE Step(c) /\ ~Get(c) /\ ~(<1>5!1)
  BY <1>1, <1>6 DEF TypeOK, HasSession, Step, Connected, DialFailed, reuseLiveLaunch, StopAll,
     reuseTrackedLaunch, coldStartLaunch, DropAll, DropClose, Dropped, Goto, At
<1>7. CASE LockStep(c)
  BY <1>1, <1>7 DEF TypeOK, HasSession, LockStep, AcquireFast, AcquireLock,
     downgradeToReadLock, recoverConnection, DropLock, Goto, At
<1>8. ASSUME NEW t, Dispatch(c, t) \/ replayStep(c, t)
      PROVE  pc'[c] \in {"get", "launch"}
  BY <1>1, <1>8 DEF TypeOK, Dispatch, replayStep, Start, Goto
<1> QED
  BY <1>3, <1>5, <1>6, <1>7, <1>8 DEF CallStep

\* Nobody loses a read lock that it relies on.
LEMMA UsersReadStep ==
  ASSUME IInv, NEW c \in Calls, CallStep(c)
  PROVE  UsersRead'
<1>1. TypeOK /\ HasSession /\ UsersRead /\ TypeOK'
  BY TypeStep DEF IInv
<1>2. \A d \in Calls : /\ sess[d] # 0 => sess[d] \in Sessions
                       /\ outer[d] # 0 => outer[d] \in Sessions
  BY <1>1, Numbers DEF TypeOK
<1>3. ASSUME NEW d \in Calls, d # c
      PROVE  /\ pc'[d] = "using" => Holder(d)' \in readers'[sess'[d]]
             /\ outer'[d] # 0 => <<d, FALSE>> \in readers'[outer'[d]]
  <2>1. /\ pc'[d] = pc[d] /\ sess'[d] = sess[d] /\ outer'[d] = outer[d]
        /\ Holder(d)' = Holder(d)
    BY <1>1, <1>3, OthersStay DEF Holder
  <2>2. Holder(c) # Holder(d) /\ Holder(c) # <<d, FALSE>>
    BY <1>3 DEF Holder
  <2> QED
    BY <1>1, <1>2, <2>1, <2>2, ReadersChange DEF UsersRead, HasSession
<1>4. outer[c] # 0 => /\ <<c, FALSE>> \in readers[outer[c]]
                      /\ <<c, FALSE>> \in readers'[outer[c]]
  <2>1. outer[c] # 0 => Holder(c) = <<c, TRUE>> /\ Holder(c) # <<c, FALSE>>
    BY DEF Holder
  <2> QED
    BY <1>1, <1>2, <2>1, ReadersChange DEF UsersRead
<1>5. SUFFICES /\ pc'[c] = "using" => Holder(c)' \in readers'[sess'[c]]
               /\ outer'[c] # 0 => <<c, FALSE>> \in readers'[outer'[c]]
  BY <1>3 DEF UsersRead
<1>6. ASSUME NEW rest, Return(c, rest)
      PROVE  /\ pc'[c] = "using" => Holder(c)' \in readers'[sess'[c]]
             /\ outer'[c] = 0
  BY <1>1, <1>4, <1>6, Returning DEF Holder
<1>7. CASE \/ BudgetExhausted(c) \/ NothingToRecover(c) \/ LaunchFailed(c) \/ Release(c)
           \/ (DialFailed(c) /\ retried[c]) \/ (Dropped(c) /\ recoverMu # c)
  BY <1>6, <1>7 DEF BudgetExhausted, NothingToRecover, LaunchFailed, Release, DialFailed,
     Dropped, Fail, Finish
<1>8. CASE AcquireFast(c) \/ downgradeToReadLock(c)
  <2>1. sess[c] \in Sessions /\ sess' = sess /\ outer' = outer /\ Holder(c)' = Holder(c)
    BY <1>1, <1>2, <1>8 DEF HasSession, AcquireFast, downgradeToReadLock, At, Holder
  <2>2. pc'[c] = "using" => readers' = [readers EXCEPT ![sess[c]] = @ \cup {Holder(c)}]
    BY <1>1, <1>8 DEF TypeOK, AcquireFast, downgradeToReadLock, Goto
  <2> QED
    BY <1>1, <1>4, <2>1, <2>2 DEF TypeOK
\* A macro's step begins: the macro was using its session.
<1>9. ASSUME NEW t, replayStep(c, t)
      PROVE  pc'[c] # "using" /\ <<c, FALSE>> \in readers'[outer'[c]]
  <2>1. /\ pc[c] = "using" /\ outer[c] = 0 /\ outer'[c] = sess[c] /\ readers' = readers
        /\ pc'[c] # "using"
    BY <1>1, <1>9 DEF TypeOK, replayStep, Start, Goto, At, sessionVars
  <2>2. Holder(c) = <<c, FALSE>>
    BY <2>1 DEF Holder
  <2> QED
    BY <1>1, <2>1, <2>2 DEF UsersRead
<1>10. ASSUME pc'[c] # "using", UNCHANGED outer
       PROVE  outer'[c] # 0 => <<c, FALSE>> \in readers'[outer'[c]]
  BY <1>4, <1>10
<1>11. CASE Step(c) /\ ~(<1>7!1)
  <2>1. pc'[c] # "using" /\ UNCHANGED outer
    BY <1>1, <1>11 DEF TypeOK, Step, Get, Connected, DialFailed, reuseLiveLaunch, StopAll,
       reuseTrackedLaunch, coldStartLaunch, DropAll, DropClose, Dropped, Goto
  <2> QED
    BY <1>10, <2>1
<1>12. CASE AcquireLock(c) \/ recoverConnection(c) \/ DropLock(c)
  <2>1. pc'[c] # "using" /\ UNCHANGED outer
    BY <1>1, <1>12 DEF TypeOK, AcquireLock, recoverConnection, DropLock, Goto
  <2> QED
    BY <1>10, <2>1
<1>13. ASSUME NEW t, Dispatch(c, t) PROVE pc'[c] # "using" /\ UNCHANGED outer
  BY <1>1, <1>13 DEF TypeOK, Dispatch, Start, Goto
<1> QED
  BY <1>7, <1>8, <1>9, <1>10, <1>11, <1>12, <1>13 DEF CallStep, LockStep

\* The recovery lock is taken before the probe and given up after the launch.
LEMMA RecoveryStep ==
  ASSUME IInv, NEW c \in Calls, CallStep(c)
  PROVE  RecoveryIsSerial'
<1>1. TypeOK /\ RecoveryIsSerial
  BY DEF IInv
<1>2. ASSUME NEW d \in Calls, d # c, pc[d] \in {"probe", "stopAll"}
      PROVE  /\ recoverMu' = d
             /\ excel' /\ starter' = "recovery" =>
                  excel /\ starter = "recovery" /\ missed' = missed
  <2>1. recoverMu = d /\ d # NoCall
    BY <1>1, <1>2, NoCallAssumption DEF RecoveryIsSerial
  <2>2. recoverMu' = d
    BY <1>2, <2>1 DEF CallStep, Dispatch, replayStep, Step, Get, Connected, DialFailed,
       BudgetExhausted, NothingToRecover, reuseLiveLaunch, StopAll, reuseTrackedLaunch,
       coldStartLaunch, LaunchFailed, DropAll, DropClose, Dropped, LockStep, AcquireFast,
       AcquireLock, downgradeToReadLock, recoverConnection, DropLock, Release, Unserialize
  <2>3. CASE coldStartLaunch(c)
    BY <1>2, <2>1, <2>2, <2>3 DEF coldStartLaunch
  <2>4. CASE ~coldStartLaunch(c)
    <3>1. ~reuseLiveLaunch(c)
      BY <1>1, <1>2, <2>1 DEF RecoveryIsSerial, reuseLiveLaunch, At
    <3>2. CASE StopAll(c)
      BY <2>2, <3>2 DEF StopAll
    <3>3. CASE reuseTrackedLaunch(c)
      <4>1. /\ missed' = missed /\ starter' = starter
            /\ excel' = excel \/ excel' = FALSE
        BY <3>3 DEF reuseTrackedLaunch
      <4> QED BY <2>2, <4>1
    <3>4. CASE UNCHANGED excelVars
      BY <2>2, <3>4 DEF excelVars
    <3> QED BY <2>4, <3>1, <3>2, <3>3, <3>4 DEF CallStep, Dispatch, replayStep, Step, Get,
       Connected, DialFailed, BudgetExhausted, NothingToRecover, LaunchFailed, DropAll,
       DropClose, Dropped, LockStep, AcquireFast, AcquireLock, downgradeToReadLock,
       recoverConnection, DropLock, Release
  <2> QED
    BY <2>3, <2>4
<1>3. /\ pc'[c] \in {"probe", "stopAll"} => recoverMu' = c
      /\ pc'[c] = "stopAll" => ~excel' \/ missed' = c
  <2>1. CASE recoverConnection(c)
    BY <1>1, <2>1 DEF TypeOK, recoverConnection, Goto
  <2>6. CASE reuseLiveLaunch(c)
    <3>1. PICK answers \in Answers :
            /\ pc' = [pc EXCEPT ![c] = IF answers THEN "drop" ELSE "stopAll"]
            /\ missed' = IF excel /\ ~answers THEN c ELSE NoCall
      BY <2>6 DEF reuseLiveLaunch, Goto
    <3>2. recoverMu = c /\ recoverMu' = recoverMu /\ excel' = excel
      BY <1>1, <2>6 DEF RecoveryIsSerial, reuseLiveLaunch, At
    <3>3. answers \in BOOLEAN
      BY <3>1 DEF Answers
    <3>4. CASE answers
      BY <1>1, <3>1, <3>2, <3>4 DEF TypeOK
    <3>5. CASE ~answers
      BY <1>1, <3>1, <3>2, <3>5 DEF TypeOK
    <3> QED BY <3>3, <3>4, <3>5
  <2>2. ASSUME NEW rest, Return(c, rest) PROVE pc'[c] \notin {"probe", "stopAll"}
    BY <1>1, <2>2, Returning
  <2>3. CASE Step(c) /\ ~reuseLiveLaunch(c)
    <3>1. pc'[c] \notin {"probe", "stopAll"}
      BY <1>1, <2>2, <2>3 DEF TypeOK, Step, Get, Connected, DialFailed, BudgetExhausted,
         NothingToRecover, StopAll, reuseTrackedLaunch, coldStartLaunch, LaunchFailed, DropAll,
         DropClose, Dropped, Goto, Fail, Finish
    <3> QED
      BY <3>1
  <2>4. CASE Release(c) \/ (LockStep(c) /\ ~recoverConnection(c))
    <3>1. pc'[c] \notin {"probe", "stopAll"}
      BY <1>1, <2>2, <2>4 DEF TypeOK, LockStep, AcquireFast, AcquireLock, downgradeToReadLock,
         DropLock, Release, Goto, Finish
    <3> QED
      BY <3>1
  <2>5. ASSUME NEW t, Dispatch(c, t) \/ replayStep(c, t) PROVE pc'[c] \notin {"probe", "stopAll"}
    BY <1>1, <2>5 DEF TypeOK, Dispatch, replayStep, Start, Goto
  <2> QED
    BY <2>1, <2>3, <2>4, <2>5, <2>6 DEF CallStep
<1>4. \A d \in Calls : d # c => pc'[d] = pc[d]
  BY <1>1, OthersStay
<1> QED
  BY <1>1, <1>2, <1>3, <1>4 DEF RecoveryIsSerial

\* DropAll takes the pool's session, and Get makes one that nobody knows.
LEMMA DroppedStep ==
  ASSUME IInv, NEW c \in Calls, CallStep(c)
  PROVE  DroppedIsGone'
<1>1. TypeOK /\ DroppedIsGone
  BY DEF IInv
<1>2. \A d \in Calls : d # c => victim'[d] = victim[d]
  BY <1>1, OthersStay
<1>3. CASE Get(c)
  <2>1. /\ victim' = victim
        /\ pool' = pool \/ (pool' \in Sessions /\ Unreachable(pool'))
    BY <1>1, <1>3, Fresh
  <2>2. \A d \in Calls : victim[d] # 0 => victim[d] # pool'
    BY <1>1, <2>1 DEF DroppedIsGone, Unreachable
  <2> QED
    BY <1>1, <2>1, <2>2 DEF DroppedIsGone
<1>4. CASE DropAll(c)
  BY <1>1, <1>2, <1>4 DEF TypeOK, DroppedIsGone, DropAll
<1>5. CASE DropClose(c)
  BY <1>1, <1>2, <1>5 DEF TypeOK, DroppedIsGone, DropClose
<1>6. CASE UNCHANGED <<pool, victim>>
  BY <1>1, <1>6 DEF DroppedIsGone
<1> QED
  BY <1>3, <1>4, <1>5, <1>6 DEF CallStep, Dispatch, replayStep, Step, Connected, DialFailed,
     BudgetExhausted, NothingToRecover, reuseLiveLaunch, StopAll, reuseTrackedLaunch,
     coldStartLaunch, LaunchFailed, Dropped, LockStep, AcquireFast, AcquireLock,
     downgradeToReadLock, recoverConnection, DropLock, Release

-----------------------------------------------------------------------------
(* The theorems.                                                           *)

\* Nothing is dialed, held or dropped.
LEMMA Initial == Init => IInv
<1>1. SUFFICES ASSUME Init PROVE IInv
  OBVIOUS
<1>2. TypeOK
  BY <1>1, Numbers DEF Init, TypeOK, Conns, Labels
<1>3. HasSession /\ UsersRead /\ RecoveryIsSerial /\ DroppedIsGone
  BY <1>1 DEF Init, HasSession, UsersRead, RecoveryIsSerial, DroppedIsGone
<1> QED
  BY <1>2, <1>3 DEF IInv

\* Every step keeps the invariant, the end of Excel included.
LEMMA Inductive == IInv /\ [Next]_vars => IInv'
<1>1. SUFFICES ASSUME IInv, [Next]_vars PROVE IInv'
  OBVIOUS
<1>2. CASE UNCHANGED vars
  BY <1>1, <1>2 DEF vars, sessionVars, excelVars, callVars, IInv, TypeOK, HasSession, UsersRead,
     Holder, RecoveryIsSerial, DroppedIsGone
<1>3. CASE ExcelDies
  <2>1. TypeOK'
    BY <1>1, <1>3 DEF IInv, TypeOK, ExcelDies, Die, Conns, callVars
  <2> QED
    BY <1>1, <1>3, <2>1 DEF IInv, ExcelDies, callVars, HasSession, UsersRead, Holder,
       RecoveryIsSerial, DroppedIsGone
<1>4. ASSUME NEW c \in Calls, CallStep(c) PROVE IInv'
  <2>1. TypeOK'
    BY <1>1, <1>4, TypeStep DEF IInv
  <2>2. HasSession' /\ UsersRead'
    BY <1>1, <1>4, HasSessionStep, UsersReadStep
  <2>3. RecoveryIsSerial' /\ DroppedIsGone'
    BY <1>1, <1>4, RecoveryStep, DroppedStep
  <2> QED
    BY <2>1, <2>2, <2>3 DEF IInv
<1> QED
  BY <1>1, <1>2, <1>3, <1>4 DEF Next, CallStep

\* IInv is an invariant.
LEMMA Invariance == Spec => []IInv
<1>1. IInv /\ [Next]_vars => IInv'
  BY Inductive
<1> QED
  BY <1>1, Initial, PTL DEF Spec

\* Every reachable state is well typed.
THEOREM TypeCorrect == Spec => []TypeOK
<1>1. IInv => TypeOK
  BY DEF IInv
<1> QED
  BY <1>1, Invariance, PTL

\* A session that DropAll has taken out of the pool cannot be looked up any
\* more, and one DropAll closes it (manager.go:73-81).
THEOREM DroppedForGood == Spec => []DroppedIsGone
<1>1. IInv => DroppedIsGone
  BY DEF IInv
<1> QED
  BY <1>1, Invariance, PTL

\* Concurrent dial failures share one relaunch: what a recovery has started no
\* other recovery stops while it lives, unless it leaves the probe of this other
\* one unanswered (server.go:234-235, 267-275).
THEOREM RelaunchIsShared == Spec => SharedRelaunch
<1>1. IInv => \A c \in Calls :
        StopAll(c) /\ tracked /\ excel /\ starter = "recovery" => missed = c
  BY DEF IInv, RecoveryIsSerial, StopAll, At
<1> QED
  BY <1>1, Invariance, PTL DEF Spec, SharedRelaunch

\* The connection that a call uses is neither closed nor replaced, though its
\* session may have left the pool (dispatcher.go:170-178).
THEOREM ConnectionIsKept == Spec => UserKeepsConnection
<1> DEFINE Kept == \A c \in Calls :
             At(c, "using") /\ At(c, "using")' => conn'[sess[c]] \in {conn[sess[c]], "dead"}
<1>1. ASSUME IInv, [Next]_vars, NEW c \in Calls, At(c, "using")
      PROVE  conn'[sess[c]] \in {conn[sess[c]], "dead"}
  <2>1. /\ TypeOK /\ sess[c] \in Sessions /\ readers[sess[c]] # {}
        /\ ~Unreachable(sess[c])
    BY <1>1, Numbers DEF IInv, TypeOK, HasSession, UsersRead, At, Unreachable
  <2>2. CASE UNCHANGED vars
    BY <2>2 DEF vars, sessionVars
  <2>3. CASE ExcelDies
    BY <2>1, <2>3 DEF ExcelDies, Die
  <2>4. ASSUME NEW d \in Calls, CallStep(d)
        PROVE  conn'[sess[c]] \in {conn[sess[c]], "dead"}
    BY <2>1, <2>4, UsedStays
  <2> QED
    BY <1>1, <2>2, <2>3, <2>4 DEF Next, CallStep
<1>2. IInv /\ [Next]_vars => [Kept]_vars
  BY <1>1
<1> QED
  BY <1>2, Invariance, PTL DEF Spec, UserKeepsConnection
=============================================================================
