-------------------------- MODULE LaunchProofs -----------------------------
(***************************************************************************)
(* Proofs about Launch, for any number of threads, manifests and cold      *)
(* starts: who owns a child process, and what a stop has done when it      *)
(* returns.                                                                *)
(***************************************************************************)
EXTENDS Launch, FiniteSetTheorems, SequenceTheorems, TLAPS

Stopping == {"kill", "forget"}
Children == launcher \cup devUp

\* An attempt that is being started belongs to one thread, which started it for
\* the manifest that it was called with; nobody has seen it yet.
StartsAreOwned ==
  \A t \in Threads : pc[t] \in Starting =>
    /\ mine[t] # 0 /\ once[mine[t]] = "new"
    /\ manifestOf[mine[t]] = man[t]
    /\ pc[t] \in {"devwait", "spawn"} => mine[t] \notin launcher
    /\ \A u \in Threads \ {t} : pc[u] \in Starting => mine[u] # mine[t]

\* A stop sequence that runs belongs to one thread; past KillChildren nothing
\* of the launch is left.
StopsAreOwned ==
  \A t \in Threads : pc[t] \in Stopping =>
    /\ queue[t] # <<>> /\ once[Victim(t)] = "running"
    /\ pc[t] = "forget" => Victim(t) \notin Children
    /\ \A u \in Threads \ {t} : pc[u] \in Stopping => Victim(u) # Victim(t)

\* The registry names a launch under its own manifest.
TrackedUnderItsManifest ==
  \A m \in Manifests : registry[m] # 0 => manifestOf[registry[m]] = m

\* A dev server that runs is its attempt's own.
OwnDevServers == \A i \in devUp : dev[i] = "own"

\* Once the stop sequence is over the children are dead, and only then has a
\* Stop returned.
DoneIsDead ==
  /\ \A i \in Attempts : once[i] = "done" => i \notin Children
  /\ \A i \in acked : once[i] = "done"
  /\ \A i \in Attempts : i > attempts => once[i] = "new"

\* Only a thread that stops launches has any to stop.
IdleQueues ==
  \A t \in Threads : pc[t] \notin {"stop", "kill", "forget"} => queue[t] = <<>>

IInv ==
  /\ TypeOK
  /\ StartsAreOwned
  /\ StopsAreOwned
  /\ TrackedUnderItsManifest
  /\ TrackedCanBeStopped
  /\ OwnDevServers
  /\ DoneIsDead
  /\ IdleQueues
  /\ NoLeakedChild

-----------------------------------------------------------------------------
(* Types.                                                                  *)

RecordsTyped ==
  /\ registry \in [Manifests -> 0 .. attempts]
  /\ once \in [Attempts -> {"new", "live", "running", "done"}]
  /\ manifestOf \in [Attempts -> Manifests]
  /\ attempts \in 0 .. MaxAttempts
  /\ dev \in [Attempts -> {"none", "own", "preexisting"}]
  /\ acked \subseteq 1 .. attempts
  /\ displaced \subseteq 1 .. attempts

WorldTyped ==
  /\ launcher \subseteq 1 .. attempts
  /\ devUp \subseteq 1 .. attempts
  /\ listening \in devUp \cup {0, External}
  /\ serving \in BOOLEAN

CallsTyped ==
  /\ recoverMu \in Threads \cup {NoThread}
  /\ pc \in [Threads -> Labels]
  /\ man \in [Threads -> Manifests]
  /\ mine \in [Threads -> 0 .. attempts]
  /\ queue \in [Threads -> Seq(1 .. attempts)]
  /\ after \in [Threads -> {"idle", "cold", "lookup"}]

\* The types, part by part.
LEMMA TypeParts == TypeOK <=> RecordsTyped /\ WorldTyped /\ CallsTyped
BY DEF TypeOK, RecordsTyped, WorldTyped, CallsTyped

\* The attempt of a thread that starts one, and the launch that it stops.
LEMMA Attempted ==
  ASSUME TypeOK, StartsAreOwned, StopsAreOwned, NEW t \in Threads
  PROVE  /\ attempts \in Nat /\ MaxAttempts \in Nat /\ 1 .. attempts \subseteq Attempts
         /\ pc[t] \in Starting => mine[t] \in 1 .. attempts
         /\ queue[t] # <<>> => /\ Victim(t) \in 1 .. attempts
                               /\ Tail(queue[t]) \in Seq(1 .. attempts)
         /\ pc[t] \in Stopping => queue[t] # <<>>
<1>1. attempts \in Nat /\ MaxAttempts \in Nat /\ 1 .. attempts \subseteq Attempts
  BY AttemptsAssumption DEF TypeOK, Attempts
<1>2. pc[t] \in Starting => mine[t] \in 1 .. attempts
  BY <1>1 DEF TypeOK, StartsAreOwned
<1>3. queue[t] \in Seq(1 .. attempts)
  BY DEF TypeOK
<1>4. queue[t] # <<>> => /\ Victim(t) \in 1 .. attempts
                         /\ Tail(queue[t]) \in Seq(1 .. attempts)
  BY <1>3, HeadTailProperties DEF Victim
<1> QED
  BY <1>1, <1>2, <1>4 DEF StopsAreOwned

\* An array from 1 is a sequence.
LEMMA ArrayIsSeq == ASSUME NEW n \in Nat, NEW S, NEW s \in [1 .. n -> S] PROVE s \in Seq(S)
OBVIOUS

\* What is tracked can be put in a list, in whatever order.
LEMMA OrdersTyped ==
  ASSUME TypeOK, NEW s \in Orders(Tracked)
  PROVE  s \in Seq(1 .. attempts)
<1>1. attempts \in Nat
  BY AttemptsAssumption DEF TypeOK
<1>2. Tracked \in SUBSET (1 .. attempts)
  BY <1>1 DEF TypeOK, Tracked
<1>3. IsFiniteSet(1 .. attempts)
  BY <1>1, 1 \in Int, attempts \in Int, FS_Interval
<1>4. IsFiniteSet(Tracked)
  BY <1>2, <1>3, FS_Subset
<1>5. Cardinality(Tracked) \in Nat
  BY <1>4, FS_CardinalityType
<1>6. s \in [1 .. Cardinality(Tracked) -> 1 .. attempts]
  BY <1>2 DEF Orders
<1> QED
  BY <1>5, <1>6, ArrayIsSeq


\* Everything that names an attempt names one that has begun.
LEMMA Numbered ==
  ASSUME TypeOK
  PROVE  /\ attempts \in Nat /\ 1 .. attempts \subseteq Attempts
         /\ acked \subseteq Attempts /\ Children \subseteq Attempts
         /\ \A m \in Manifests : registry[m] # 0 => registry[m] \in 1 .. attempts
         /\ \A i \in 1 .. attempts, j \in Attempts : j > attempts => i # j
<1>1. attempts \in Nat /\ 1 .. attempts \subseteq Attempts
  BY AttemptsAssumption DEF TypeOK, Attempts
<1>2. \A m \in Manifests : registry[m] # 0 => registry[m] \in 1 .. attempts
  BY <1>1 DEF TypeOK
<1>3. acked \subseteq Attempts /\ Children \subseteq Attempts
  BY <1>1 DEF TypeOK, Children
<1>4. \A i \in 1 .. attempts, j \in Attempts : j > attempts => i # j
  BY <1>1 DEF Attempts
<1> QED
  BY <1>1, <1>2, <1>3, <1>4
-----------------------------------------------------------------------------
(* What the actions do to the threads.                                     *)

\* The actions of a thread that only move it: no record, no child, no port.
Moves(t) ==
  \/ \E m \in Manifests : runLaunch(t, m) \/ runEnsureRunning(t, m) \/ StopExcel(t, m)
  \/ RecoverCalled(t) \/ Preexisting(t) \/ NotReachable(t) \/ NotTracked(t) \/ Reuse(t)
  \/ ClearStale(t) \/ ColdStartRefused(t) \/ DevServerReady(t) \/ CdpReady(t)
  \/ StopsDone(t) \/ RecoverWithoutLaunch(t) \/ RecoverDecides(t) \/ RecoverLock(t)

\* The registry is emptied into a thread's list.
EmptiesRegistry(t) == runStopAll(t) \/ relaunchProject(t)

\* A cold start ends in an error, its children killed.
GivesUp(t) == DevServerNotReady(t) \/ SpawnFailed(t) \/ CdpNotReady(t)

Outside ==
  \/ \E i \in Attempts : LauncherExits(i) \/ DevListens(i) \/ DevExits(i)
  \/ ExcelOpens \/ ExcelCloses

\* What a thread that starts or stops a launch holds on to.
KeepsItsWork(u) ==
  /\ pc'[u] \in Starting <=> pc[u] \in Starting
  /\ pc[u] \in Starting => mine'[u] = mine[u] /\ man'[u] = man[u]
  /\ pc'[u] \in {"devwait", "spawn"} => pc[u] \in {"devwait", "spawn"}
  /\ pc'[u] \in Stopping <=> pc[u] \in Stopping
  /\ pc[u] \in Stopping => pc'[u] = pc[u] /\ queue'[u] = queue[u]

\* A step is one of these kinds.
LEMMA NextByKind ==
  ASSUME [Next]_vars
  PROVE  \/ \E t \in Threads :
              \/ Moves(t) \/ EmptiesRegistry(t) \/ GivesUp(t)
              \/ WithoutOwnDevServer(t) \/ spawnDevServer(t) \/ spawnLauncher(t)
              \/ registerTrackedLaunch(t) \/ StopBegins(t) \/ StopAwaited(t)
              \/ KillChildren(t) \/ Forget(t)
         \/ Outside
         \/ UNCHANGED vars
BY DEF Next, Call, Step, Environment, Moves, EmptiesRegistry, GivesUp, Outside

\* A thread that only moves neither drops a launch that it works on nor takes one up.
LEMMA MovesKeep ==
  ASSUME TypeOK, NEW t \in Threads, Moves(t)
  PROVE  (\A u \in Threads : KeepsItsWork(u)) /\ UNCHANGED <<world, records>>
<1>1. CASE \E m \in Manifests : runLaunch(t, m) \/ runEnsureRunning(t, m) \/ StopExcel(t, m)
  BY <1>1 DEF TypeOK, KeepsItsWork, Starting, Stopping, Goto, runLaunch, runEnsureRunning,
     StopExcel
<1>2. CASE RecoverCalled(t) \/ NotReachable(t) \/ NotTracked(t) \/ ClearStale(t)
  BY <1>2 DEF TypeOK, KeepsItsWork, Starting, Stopping, Goto, locals, RecoverCalled,
     NotReachable, NotTracked, ClearStale
<1>3. CASE Preexisting(t) \/ Reuse(t) \/ ColdStartRefused(t) \/ RecoverWithoutLaunch(t)
  BY <1>3 DEF TypeOK, KeepsItsWork, Starting, Stopping, Goto, Return, Preexisting, Reuse,
     ColdStartRefused, RecoverWithoutLaunch
<1>4. CASE DevServerReady(t) \/ CdpReady(t) \/ RecoverDecides(t) \/ RecoverLock(t)
  BY <1>4 DEF TypeOK, KeepsItsWork, Starting, Stopping, Goto, locals, DevServerReady,
     CdpReady, RecoverDecides, RecoverLock
<1>5. CASE StopsDone(t)
  <2>1. CASE after[t] = "idle"
    <3>1. Return(t) /\ pc[t] = "stop" /\ UNCHANGED <<world, records>>
      BY <1>5, <2>1 DEF StopsDone
    <3> QED
      BY <3>1 DEF TypeOK, KeepsItsWork, Starting, Stopping, Goto, Return
  <2>2. CASE after[t] # "idle"
    <3>1. /\ Goto(t, after[t]) /\ pc[t] = "stop" /\ after[t] \in {"cold", "lookup"}
          /\ UNCHANGED <<world, records, locals>>
      BY <1>5, <2>2 DEF TypeOK, StopsDone
    <3> QED
      BY <3>1 DEF TypeOK, KeepsItsWork, Starting, Stopping, Goto, locals
  <2> QED
    BY <2>1, <2>2
<1> QED
  BY <1>1, <1>2, <1>3, <1>4, <1>5 DEF Moves

\* Emptying the registry touches nothing else.
LEMMA EmptyingKeeps ==
  ASSUME TypeOK, NEW t \in Threads, EmptiesRegistry(t)
  PROVE  /\ \A u \in Threads : KeepsItsWork(u)
         /\ registry' = [m \in Manifests |-> 0]
         /\ UNCHANGED <<world, once, manifestOf, attempts, dev, acked, displaced>>
<1>1. StopAll(t, "idle") \/ StopAll(t, "lookup")
  BY DEF EmptiesRegistry, runStopAll, relaunchProject
<1>2. /\ pc[t] \in {"idle", "relaunch"} /\ pc' = [pc EXCEPT ![t] = "stop"]
      /\ UNCHANGED <<man, mine>>
  BY DEF EmptiesRegistry, runStopAll, relaunchProject, StopAll, Goto
<1>3. \E s : queue' = [queue EXCEPT ![t] = s]
  BY <1>1 DEF StopAll
<1>4. \A u \in Threads : KeepsItsWork(u)
  BY <1>2, <1>3 DEF TypeOK, KeepsItsWork, Starting, Stopping
<1> QED
  BY <1>1, <1>4 DEF StopAll

\* The attempt that is given up loses its children, and nothing else happens.
LEMMA GivingUp ==
  ASSUME IInv, NEW t \in Threads, GivesUp(t)
  PROVE  /\ pc[t] \in Starting /\ pc' = [pc EXCEPT ![t] = "idle"]
         /\ launcher' \subseteq launcher /\ devUp' \subseteq devUp
         /\ mine[t] \notin launcher' \cup devUp'
         /\ mine' = [mine EXCEPT ![t] = 0]
         /\ UNCHANGED <<records, man, queue>>
<1>1. /\ pc[t] \in Starting /\ Return(t) /\ KillDev(mine[t]) /\ UNCHANGED records
      /\ launcher' \subseteq launcher /\ mine[t] \notin launcher'
  BY DEF IInv, StartsAreOwned, GivesUp, DevServerNotReady, SpawnFailed, CdpNotReady, Starting
<1>2. devUp' \subseteq devUp /\ mine[t] \notin devUp'
  BY <1>1 DEF IInv, OwnDevServers, KillDev
<1> QED
  BY <1>1, <1>2 DEF Return, Goto

\* KillChildren leaves no child of the launch, and no record is changed yet.
LEMMA Killing ==
  ASSUME IInv, NEW t \in Threads, KillChildren(t)
  PROVE  /\ pc[t] = "kill" /\ pc' = [pc EXCEPT ![t] = "forget"]
         /\ launcher' \subseteq launcher /\ devUp' \subseteq devUp
         /\ Victim(t) \notin launcher' \cup devUp'
         /\ UNCHANGED <<records, man, mine, queue>>
<1>1. KillDev(Victim(t)) /\ launcher' = launcher \ {Victim(t)}
  BY DEF KillChildren
<1>2. devUp' \subseteq devUp /\ Victim(t) \notin devUp'
  BY <1>1 DEF IInv, OwnDevServers, KillDev
<1> QED
  BY <1>1, <1>2 DEF KillChildren, Goto, locals

\* A thread that begins, waits for or ends a stop sequence.
LEMMA Stops ==
  ASSUME IInv, NEW t \in Threads, StopBegins(t) \/ StopAwaited(t) \/ Forget(t)
  PROVE  /\ Victim(t) \in 1 .. attempts /\ Victim(t) \in Attempts
         /\ pc[t] \in {"stop", "forget"}
         /\ \A u \in Threads \ {t} : pc'[u] = pc[u] /\ queue'[u] = queue[u]
         /\ UNCHANGED <<world, man, mine, manifestOf, attempts, dev>>
<1>1. queue[t] # <<>> /\ Victim(t) \in 1 .. attempts
  BY Attempted DEF IInv, StopBegins, StopAwaited, Forget, Stopping
<1>2. Victim(t) \in Attempts
  BY <1>1, Attempted DEF IInv
<1>3. \A u \in Threads \ {t} : pc'[u] = pc[u] /\ queue'[u] = queue[u]
  BY DEF IInv, TypeOK, StopBegins, StopAwaited, Forget, Pop, Goto, locals
<1> QED
  BY <1>1, <1>2, <1>3 DEF StopBegins, StopAwaited, Forget, locals

\* A cold start begins: a number that nothing else has.
LEMMA Begins ==
  ASSUME IInv, NEW t \in Threads, WithoutOwnDevServer(t) \/ spawnDevServer(t)
  PROVE  /\ attempts' = attempts + 1 /\ attempts \in Nat /\ attempts' \in Attempts
         /\ once[attempts'] = "new" /\ attempts' \notin Children
         /\ \A u \in Threads : mine[u] # attempts'
         /\ pc[t] = "cold" /\ pc'[t] \in {"devwait", "spawn"}
         /\ mine' = [mine EXCEPT ![t] = attempts']
         /\ manifestOf' = [manifestOf EXCEPT ![attempts'] = man[t]]
         /\ \A u \in Threads \ {t} : pc'[u] = pc[u]
         /\ devUp' \subseteq devUp \cup {attempts'}
         /\ UNCHANGED <<launcher, man, queue, once, acked, displaced, registry>>
<1>1. attempts \in Nat /\ MaxAttempts \in Nat
  BY AttemptsAssumption DEF IInv, TypeOK
<1>2. /\ NewAttempt(t) /\ pc[t] = "cold" /\ devUp' \subseteq devUp \cup {attempts'}
      /\ Goto(t, "devwait") \/ Goto(t, "spawn")
      /\ UNCHANGED <<launcher, man, queue, once, acked, displaced, registry>>
  BY DEF WithoutOwnDevServer, spawnDevServer, world
<1>3. attempts' = attempts + 1 /\ attempts' \in Attempts
  BY <1>1, <1>2 DEF NewAttempt, Attempts
<1>4. /\ once[attempts'] = "new" /\ attempts' \notin Children
      /\ \A u \in Threads : mine[u] # attempts'
  BY <1>1, <1>3 DEF IInv, TypeOK, DoneIsDead, Children
<1>5. pc'[t] \in {"devwait", "spawn"} /\ \A u \in Threads \ {t} : pc'[u] = pc[u]
  BY <1>2 DEF IInv, TypeOK, Goto
<1> QED
  BY <1>1, <1>2, <1>3, <1>4, <1>5 DEF NewAttempt
-----------------------------------------------------------------------------
(* Every step preserves the types.                                         *)

\* A thread that moves on.
LEMMA MovesTyped ==
  ASSUME TypeOK, NEW t \in Threads, Moves(t)
  PROVE  TypeOK'
<1>1. ASSUME NEW m \in Manifests, runLaunch(t, m) \/ runEnsureRunning(t, m) PROVE TypeOK'
  BY <1>1 DEF TypeOK, Labels, Goto, world, records, runLaunch, runEnsureRunning
<1>2. ASSUME NEW m \in Manifests, StopExcel(t, m) PROVE TypeOK'
  BY <1>2 DEF TypeOK, Labels, Goto, world, records, StopExcel
<1>3. CASE RecoverCalled(t) \/ NotReachable(t) \/ NotTracked(t)
  BY <1>3 DEF TypeOK, Labels, Goto, world, records, locals, RecoverCalled, NotReachable,
     NotTracked
<1>4. CASE ClearStale(t)
  BY <1>4 DEF TypeOK, Labels, Goto, world, records, ClearStale
<1>5. CASE RecoverDecides(t) \/ RecoverLock(t)
  BY <1>5 DEF TypeOK, Labels, Goto, world, records, locals, RecoverDecides, RecoverLock
<1>6. ASSUME Return(t), UNCHANGED <<world, records>> PROVE TypeOK'
  BY <1>6 DEF TypeOK, Labels, Goto, Return, world, records
<1>7. CASE Preexisting(t) \/ Reuse(t) \/ ColdStartRefused(t) \/ RecoverWithoutLaunch(t)
  BY <1>6, <1>7 DEF Preexisting, Reuse, ColdStartRefused, RecoverWithoutLaunch
<1>8. CASE DevServerReady(t) \/ CdpReady(t)
  BY <1>8 DEF TypeOK, Labels, Starting, Goto, world, records, locals, DevServerReady, CdpReady
<1>9. CASE StopsDone(t)
  <2>1. CASE after[t] = "idle"
    BY <1>6, <1>9, <2>1 DEF StopsDone
  <2>2. CASE after[t] # "idle"
    BY <1>9, <2>2 DEF TypeOK, Labels, Goto, world, records, locals, StopsDone
  <2> QED
    BY <2>1, <2>2
<1> QED
  BY <1>1, <1>2, <1>3, <1>4, <1>5, <1>7, <1>8, <1>9 DEF Moves

\* What is tracked goes into a list.
LEMMA EmptyingTyped ==
  ASSUME TypeOK, NEW t \in Threads, EmptiesRegistry(t)
  PROVE  TypeOK'
<1>1. StopAll(t, "idle") \/ StopAll(t, "lookup")
  BY DEF EmptiesRegistry, runStopAll, relaunchProject
<1>2. \E s \in Seq(1 .. attempts) : queue' = [queue EXCEPT ![t] = s]
  BY <1>1, OrdersTyped DEF StopAll
<1>3. \E next \in {"idle", "lookup"} : after' = [after EXCEPT ![t] = next]
  BY <1>1 DEF StopAll
<1>4. /\ registry' = [m \in Manifests |-> 0] /\ pc' = [pc EXCEPT ![t] = "stop"]
      /\ UNCHANGED <<world, once, manifestOf, attempts, dev, acked, displaced, mine, man,
                     recoverMu>>
  BY DEF EmptiesRegistry, runStopAll, relaunchProject, StopAll, Goto
<1>5. attempts \in Nat
  BY Numbered
<1> QED
  BY <1>2, <1>3, <1>4, <1>5 DEF TypeOK, Labels, world

\* KillDev leaves the port to its listener or to nobody.
LEMMA KillDevTyped ==
  ASSUME TypeOK, NEW i \in 1 .. attempts, KillDev(i)
  PROVE  devUp' \subseteq devUp /\ listening' \in devUp' \cup {0, External}
BY ExternalAssumption DEF TypeOK, KillDev

\* What is displaced is an attempt.
LEMMA DisplacesNumbers ==
  ASSUME TypeOK, NEW m \in Manifests, NEW i, Displace(m, i)
  PROVE  displaced' \subseteq 1 .. attempts
<1>1. attempts \in Nat /\ registry[m] \in 0 .. attempts /\ displaced \subseteq 1 .. attempts
  BY Numbered DEF TypeOK
<1>2. {registry[m]} \ {0, i} \subseteq 1 .. attempts
  BY <1>1
<1> QED
  BY <1>1, <1>2 DEF Displace

\* Every step preserves the types.
LEMMA TypeStep ==
  ASSUME IInv, [Next]_vars
  PROVE  TypeOK'
<1>1. TypeOK
  BY DEF IInv
<1>2. ASSUME NEW t \in Threads, GivesUp(t) PROVE TypeOK'
  <2>1. mine[t] \in 1 .. attempts
    BY <1>2, GivingUp, Attempted DEF IInv
  <2>2. KillDev(mine[t]) /\ Return(t) /\ serving' \in BOOLEAN
    BY <1>1, <1>2 DEF TypeOK, GivesUp, DevServerNotReady, SpawnFailed, CdpNotReady, MayStopServing
  <2>3. devUp' \subseteq devUp /\ listening' \in devUp' \cup {0, External}
    BY <1>1, <2>1, <2>2, KillDevTyped
  <2>4. launcher' \subseteq launcher /\ UNCHANGED records
    BY <1>2, GivingUp
  <2> QED
    BY <1>1, <2>2, <2>3, <2>4 DEF TypeOK, Labels, Return, Goto, records
<1>3. ASSUME NEW t \in Threads, KillChildren(t) PROVE TypeOK'
  <2>1. Victim(t) \in 1 .. attempts
    BY <1>3, Killing, Attempted DEF IInv, Stopping
  <2>2. KillDev(Victim(t)) /\ serving' \in BOOLEAN /\ UNCHANGED <<recoverMu, locals, records>>
    BY <1>1, <1>3 DEF TypeOK, KillChildren, MayStopServing
  <2>3. devUp' \subseteq devUp /\ listening' \in devUp' \cup {0, External}
    BY <1>1, <2>1, <2>2, KillDevTyped
  <2>4. launcher' \subseteq launcher /\ pc' = [pc EXCEPT ![t] = "forget"]
    BY <1>3, Killing
  <2> QED
    BY <1>1, <2>2, <2>3, <2>4 DEF TypeOK, Labels, locals, records
<1>4. ASSUME NEW t \in Threads, WithoutOwnDevServer(t) \/ spawnDevServer(t) PROVE TypeOK'
  <2>1. /\ attempts' = attempts + 1 /\ attempts \in Nat /\ attempts' \in Attempts
        /\ mine' = [mine EXCEPT ![t] = attempts']
        /\ manifestOf' = [manifestOf EXCEPT ![attempts'] = man[t]]
        /\ UNCHANGED <<launcher, man, queue, once, acked, displaced, registry>>
    BY <1>4, Begins
  <2>2. /\ Goto(t, "devwait") \/ Goto(t, "spawn")
        /\ \E d \in {"none", "own", "preexisting"} : dev' = [dev EXCEPT ![attempts'] = d]
        /\ devUp' = devUp \/ devUp' = devUp \cup {attempts'}
        /\ UNCHANGED <<listening, serving, recoverMu, after>>
    BY <1>4 DEF WithoutOwnDevServer, spawnDevServer, world
  <2>3. \A s : s \in Seq(1 .. attempts) => s \in Seq(1 .. attempts')
    BY <2>1, SeqMonotonic
  <2>4. /\ 1 .. attempts \subseteq 1 .. attempts' /\ 0 .. attempts \subseteq 0 .. attempts'
        /\ attempts' \in 1 .. attempts' /\ attempts' \in 0 .. attempts'
    BY <2>1
  <2>5. RecordsTyped'
    BY <1>1, <2>1, <2>2, AttemptsAssumption DEF TypeOK, RecordsTyped, Attempts
  <2>6. WorldTyped'
    <3>1. devUp \subseteq 1 .. attempts /\ launcher \subseteq 1 .. attempts
      BY <1>1 DEF TypeOK
    <3>2. devUp' \subseteq 1 .. attempts' /\ launcher' \subseteq 1 .. attempts'
      BY <2>1, <2>2, <2>4, <3>1
    <3> QED
      BY <1>1, <2>2, <3>2 DEF TypeOK, WorldTyped
  <2>7. CallsTyped'
    <3>1. mine' \in [Threads -> 0 .. attempts']
      BY <1>1, <2>1, <2>4 DEF TypeOK
    <3>2. queue' \in [Threads -> Seq(1 .. attempts')]
      BY <1>1, <2>1, <2>3 DEF TypeOK
    <3>3. pc' \in [Threads -> Labels]
      BY <1>1, <2>2 DEF TypeOK, Labels, Starting, Goto
    <3> QED
      BY <1>1, <2>1, <2>2, <3>1, <3>2, <3>3 DEF TypeOK, CallsTyped
  <2> QED
    BY <2>5, <2>6, <2>7 DEF TypeOK, RecordsTyped, WorldTyped, CallsTyped
<1>5. ASSUME NEW t \in Threads, spawnLauncher(t) \/ registerTrackedLaunch(t) PROVE TypeOK'
  <2>1. mine[t] \in 1 .. attempts /\ mine[t] \in Attempts /\ attempts \in Nat
    BY <1>5, Attempted DEF IInv, spawnLauncher, registerTrackedLaunch, Starting
  <2>2. CASE spawnLauncher(t)
    BY <1>1, <2>1, <2>2 DEF TypeOK, Labels, Starting, Goto, records, locals, spawnLauncher
  <2>3. CASE registerTrackedLaunch(t)
    <3>1. displaced' \subseteq 1 .. attempts
      BY <1>1, <2>1, <2>3, DisplacesNumbers DEF TypeOK, registerTrackedLaunch
    <3> QED
      BY <1>1, <2>1, <2>3, <3>1 DEF TypeOK, Labels, Goto, Return, world,
         registerTrackedLaunch
  <2> QED
    BY <1>5, <2>2, <2>3
<1>6. ASSUME NEW t \in Threads, StopBegins(t) PROVE TypeOK'
  BY <1>1, <1>6, Stops DEF TypeOK, Labels, Goto, world, locals, StopBegins
<1>7. ASSUME NEW t \in Threads, StopAwaited(t) \/ Forget(t) PROVE TypeOK'
  <2>1. Victim(t) \in 1 .. attempts /\ Victim(t) \in Attempts
        /\ UNCHANGED <<world, man, mine, manifestOf, attempts, dev>>
    BY <1>7, Stops
  <2>2. Tail(queue[t]) \in Seq(1 .. attempts)
    BY <1>7, Attempted DEF IInv, StopAwaited, Forget, Stopping
  <2>3. Pop(t) /\ UNCHANGED <<recoverMu, after>>
    BY <1>7 DEF StopAwaited, Forget
  <2>4. /\ registry' \in [Manifests -> 0 .. attempts]
        /\ once' \in [Attempts -> {"new", "live", "running", "done"}]
    <3>1. CASE StopAwaited(t)
      BY <1>1, <3>1 DEF TypeOK, StopAwaited
    <3>2. CASE Forget(t)
      <4>1. manifestOf[Victim(t)] \in Manifests /\ 0 \in 0 .. attempts
        BY <1>1, <2>1, Numbered DEF TypeOK
      <4> QED
        BY <1>1, <2>1, <3>2, <4>1 DEF TypeOK, Forget
    <3> QED
      BY <1>7, <3>1, <3>2
  <2>5. displaced' \subseteq 1 .. attempts
    <3>1. displaced \subseteq 1 .. attempts /\ manifestOf[Victim(t)] \in Manifests
      BY <1>1, <2>1 DEF TypeOK
    <3> QED
      BY <1>1, <1>7, <3>1, DisplacesNumbers DEF StopAwaited, Forget
  <2> QED
    BY <1>1, <2>1, <2>2, <2>3, <2>4, <2>5 DEF TypeOK, Labels, Pop, Goto, world
<1>8. CASE Outside
  BY <1>1, <1>8 DEF TypeOK, records, locals, Outside, LauncherExits, DevListens, DevExits,
     ExcelOpens, ExcelCloses
<1>9. CASE UNCHANGED vars
  BY <1>1, <1>9 DEF TypeOK, vars
<1> QED
  BY <1>1, <1>2, <1>3, <1>4, <1>5, <1>6, <1>7, <1>8, <1>9, NextByKind, MovesTyped,
     EmptyingTyped
-----------------------------------------------------------------------------
(* Every step preserves each part of the invariant.                        *)

\* Every step preserves who starts what.
LEMMA StartsStep ==
  ASSUME IInv, TypeOK', [Next]_vars
  PROVE  StartsAreOwned'
<1>1. TypeOK /\ StartsAreOwned /\ StopsAreOwned
  BY DEF IInv
<1>2. ASSUME \A u \in Threads : KeepsItsWork(u), UNCHANGED <<world, once, manifestOf>>
      PROVE  StartsAreOwned'
  BY <1>1, <1>2 DEF StartsAreOwned, KeepsItsWork, world
<1>3. ASSUME NEW t \in Threads, GivesUp(t) PROVE StartsAreOwned'
  <2>1. /\ pc' = [pc EXCEPT ![t] = "idle"] /\ mine' = [mine EXCEPT ![t] = 0]
        /\ launcher' \subseteq launcher /\ UNCHANGED <<once, manifestOf, man>>
    BY <1>3, GivingUp DEF records
  <2>2. pc'[t] \notin Starting
        /\ \A u \in Threads \ {t} : pc'[u] = pc[u] /\ mine'[u] = mine[u]
    BY <1>1, <2>1 DEF TypeOK, Starting
  <2> QED
    BY <1>1, <2>1, <2>2 DEF StartsAreOwned
<1>4. ASSUME NEW t \in Threads, WithoutOwnDevServer(t) \/ spawnDevServer(t)
      PROVE  StartsAreOwned'
  <2>1. \A u \in Threads \ {t} : pc'[u] = pc[u] /\ mine'[u] = mine[u] /\ mine[u] # attempts'
    BY <1>1, <1>4, Begins DEF TypeOK
  <2>2. /\ mine'[t] = attempts' /\ attempts' # 0 /\ once[attempts'] = "new"
        /\ manifestOf'[attempts'] = man[t] /\ attempts' \notin launcher
        /\ UNCHANGED <<launcher, once, man>>
    BY <1>1, <1>4, Begins DEF TypeOK, Children
  <2>3. \A u \in Threads \ {t} :
          pc[u] \in Starting => manifestOf'[mine[u]] = manifestOf[mine[u]]
    <3>1. \A u \in Threads : pc[u] \in Starting => mine[u] \in Attempts
      BY <1>1, Attempted
    <3>2. manifestOf' = [manifestOf EXCEPT ![attempts'] = man[t]]
      BY <1>4, Begins
    <3> QED
      BY <1>1, <2>1, <3>1, <3>2 DEF TypeOK
  <2> QED
    BY <1>1, <2>1, <2>2, <2>3 DEF StartsAreOwned
<1>5. ASSUME NEW t \in Threads, spawnLauncher(t) PROVE StartsAreOwned'
  BY <1>1, <1>5 DEF TypeOK, StartsAreOwned, Starting, Goto, records, locals, spawnLauncher
<1>6. ASSUME NEW t \in Threads, registerTrackedLaunch(t) PROVE StartsAreOwned'
  <2>1. /\ pc[t] = "register" /\ pc' = [pc EXCEPT ![t] = "idle"]
        /\ mine' = [mine EXCEPT ![t] = 0] /\ once' = [once EXCEPT ![mine[t]] = "live"]
        /\ UNCHANGED <<launcher, manifestOf, man>>
    BY <1>6 DEF registerTrackedLaunch, Return, Goto, world
  <2>2. \A u \in Threads \ {t} :
          /\ pc'[u] = pc[u] /\ mine'[u] = mine[u]
          /\ pc[u] \in Starting => once'[mine[u]] = once[mine[u]]
    BY <1>1, <2>1 DEF TypeOK, StartsAreOwned, Starting
  <2> QED
    BY <1>1, <2>1, <2>2 DEF TypeOK, StartsAreOwned, Starting
<1>7. ASSUME NEW t \in Threads, StopBegins(t) \/ StopAwaited(t) \/ Forget(t)
      PROVE  StartsAreOwned'
  <2>1. \A i \in Attempts : once[i] = "new" => once'[i] = "new"
    BY <1>1, <1>7, Stops DEF TypeOK, StopsAreOwned, Stopping, StopBegins, StopAwaited, Forget
  <2>2. pc'[t] \notin Starting
    BY <1>1, <1>7 DEF TypeOK, StopBegins, StopAwaited, Forget, Pop, Goto, Starting
  <2>3. \A u \in Threads : pc[u] \in Starting => mine[u] \in Attempts
    BY <1>1, Attempted
  <2> QED
    BY <1>1, <1>7, <2>1, <2>2, <2>3, Stops DEF StartsAreOwned, world
<1>8. ASSUME NEW t \in Threads, KillChildren(t) PROVE StartsAreOwned'
  <2>1. /\ pc' = [pc EXCEPT ![t] = "forget"] /\ launcher' \subseteq launcher
        /\ UNCHANGED <<once, manifestOf, man, mine>>
    BY <1>8, Killing DEF records
  <2>2. pc'[t] \notin Starting /\ \A u \in Threads \ {t} : pc'[u] = pc[u]
    BY <1>1, <2>1 DEF TypeOK, Starting
  <2> QED
    BY <1>1, <2>1, <2>2 DEF StartsAreOwned
<1>9. CASE Outside
  BY <1>1, <1>9 DEF StartsAreOwned, Outside, LauncherExits, DevListens, DevExits, ExcelOpens,
     ExcelCloses, records, locals
<1>10. CASE UNCHANGED vars
  BY <1>1, <1>10 DEF StartsAreOwned, vars
<1> QED
  BY <1>1, <1>2, <1>3, <1>4, <1>5, <1>6, <1>7, <1>8, <1>9, <1>10, NextByKind, MovesKeep,
     EmptyingKeeps DEF records

\* Every step preserves who stops what.
LEMMA StopsStep ==
  ASSUME IInv, TypeOK', [Next]_vars
  PROVE  StopsAreOwned'
<1>1. TypeOK /\ StartsAreOwned /\ StopsAreOwned
  BY DEF IInv
<1>2. ASSUME \A u \in Threads : pc[u] \in Stopping \/ pc'[u] \in Stopping =>
                                  pc'[u] = pc[u] /\ queue'[u] = queue[u],
             UNCHANGED once, launcher' \subseteq launcher, devUp' \subseteq devUp
      PROVE  StopsAreOwned'
  BY <1>1, <1>2 DEF StopsAreOwned, Victim, Children
<1>3. ASSUME \A u \in Threads : KeepsItsWork(u), UNCHANGED <<world, once>>
      PROVE  StopsAreOwned'
  BY <1>2, <1>3 DEF KeepsItsWork, world
<1>4. ASSUME NEW t \in Threads, GivesUp(t) PROVE StopsAreOwned'
  <2>1. /\ pc[t] \in Starting /\ pc' = [pc EXCEPT ![t] = "idle"]
        /\ launcher' \subseteq launcher /\ devUp' \subseteq devUp
        /\ UNCHANGED <<once, queue>>
    BY <1>4, GivingUp DEF records
  <2>2. \A u \in Threads : pc[u] \in Stopping \/ pc'[u] \in Stopping => pc'[u] = pc[u]
    BY <1>1, <2>1 DEF TypeOK, Starting, Stopping
  <2> QED
    BY <1>2, <2>1, <2>2
<1>5. ASSUME NEW t \in Threads, WithoutOwnDevServer(t) \/ spawnDevServer(t)
      PROVE  StopsAreOwned'
  <2>1. \A u \in Threads : pc[u] \in Stopping => Victim(u) # attempts'
    BY <1>1, <1>5, Begins DEF StopsAreOwned
  <2>2. \A u \in Threads : pc'[u] \in Stopping => pc'[u] = pc[u]
    BY <1>5, Begins DEF Stopping
  <2> QED
    BY <1>1, <1>5, <2>1, <2>2, Begins DEF StopsAreOwned, Victim, Children
<1>6. ASSUME NEW t \in Threads, spawnLauncher(t) PROVE StopsAreOwned'
  <2>1. /\ pc[t] = "spawn" /\ pc' = [pc EXCEPT ![t] = "wait"]
        /\ launcher' = launcher \cup {mine[t]} /\ UNCHANGED <<devUp, once, queue>>
    BY <1>6 DEF spawnLauncher, Goto, records, locals
  <2>2. \A u \in Threads : pc[u] \in Stopping => Victim(u) # mine[t]
    BY <1>1, <2>1 DEF StartsAreOwned, StopsAreOwned, Starting
  <2> QED
    BY <1>1, <2>1, <2>2 DEF TypeOK, StopsAreOwned, Stopping, Victim, Children
<1>7. ASSUME NEW t \in Threads, registerTrackedLaunch(t) PROVE StopsAreOwned'
  <2>1. /\ pc[t] = "register" /\ pc' = [pc EXCEPT ![t] = "idle"]
        /\ once' = [once EXCEPT ![mine[t]] = "live"] /\ UNCHANGED <<world, queue>>
    BY <1>7 DEF registerTrackedLaunch, Return, Goto
  <2>2. \A u \in Threads : pc[u] \in Stopping => Victim(u) # mine[t]
    BY <1>1, <2>1 DEF StartsAreOwned, StopsAreOwned, Starting
  <2>3. \A u \in Threads : pc[u] \in Stopping => once'[Victim(u)] = once[Victim(u)]
    BY <1>1, <2>1, <2>2, Attempted DEF TypeOK
  <2>4. pc'[t] \notin Stopping /\ \A u \in Threads \ {t} : pc'[u] = pc[u]
    BY <1>1, <2>1 DEF TypeOK, Stopping
  <2>5. Children' = Children /\ \A u \in Threads : Victim(u)' = Victim(u)
    BY <2>1 DEF Children, Victim, world
  <2> QED
    BY <1>1, <2>1, <2>3, <2>4, <2>5 DEF StopsAreOwned
<1>8. ASSUME NEW t \in Threads, StopBegins(t) PROVE StopsAreOwned'
  <2>1. /\ queue[t] # <<>> /\ once[Victim(t)] = "live" /\ UNCHANGED <<world, queue>>
        /\ once' = [once EXCEPT ![Victim(t)] = "running"]
        /\ pc' = [pc EXCEPT ![t] = "kill"]
    BY <1>8 DEF StopBegins, Goto, locals
  <2>2. Victim(t) \in Attempts /\ \A u \in Threads : Victim(u)' = Victim(u)
    BY <1>8, <2>1, Stops DEF Victim
  <2>3. \A u \in Threads \ {t} : pc[u] \in Stopping => Victim(u) # Victim(t)
    BY <1>1, <2>1 DEF StopsAreOwned
  <2>4. \A u \in Threads \ {t} : pc'[u] = pc[u]
    BY <1>1, <2>1 DEF TypeOK
  <2>5. \A u \in Threads \ {t} : pc[u] \in Stopping => once'[Victim(u)] = once[Victim(u)]
    BY <1>1, <2>1, <2>3, Attempted DEF TypeOK
  <2>6. pc'[t] = "kill" /\ once'[Victim(t)] = "running"
    BY <1>1, <2>1, <2>2 DEF TypeOK
  <2> QED
    BY <1>1, <2>1, <2>2, <2>3, <2>4, <2>5, <2>6 DEF StopsAreOwned, Stopping, Children, world
<1>9. ASSUME NEW t \in Threads, StopAwaited(t) \/ Forget(t) PROVE StopsAreOwned'
  <2>1. /\ \A u \in Threads \ {t} : pc'[u] = pc[u] /\ queue'[u] = queue[u]
        /\ UNCHANGED world
    BY <1>9, Stops
  <2>2. pc'[t] \notin Stopping
    BY <1>1, <1>9 DEF TypeOK, StopAwaited, Forget, Pop, Goto, Stopping
  <2>3. \A u \in Threads \ {t} : pc[u] \in Stopping => once'[Victim(u)] = once[Victim(u)]
    <3>1. CASE StopAwaited(t)
      BY <3>1 DEF StopAwaited
    <3>2. CASE Forget(t)
      <4>1. pc[t] \in Stopping /\ once' = [once EXCEPT ![Victim(t)] = "done"]
        BY <3>2 DEF Forget, Stopping
      <4>2. \A u \in Threads \ {t} : pc[u] \in Stopping => Victim(u) # Victim(t)
        BY <1>1, <4>1 DEF StopsAreOwned
      <4> QED
        BY <1>1, <4>1, <4>2 DEF TypeOK
    <3> QED
      BY <1>9, <3>1, <3>2
  <2>4. \A u \in Threads \ {t} : Victim(u)' = Victim(u)
    BY <2>1 DEF Victim
  <2> QED
    BY <1>1, <2>1, <2>2, <2>3, <2>4 DEF StopsAreOwned, Children, world
<1>10. ASSUME NEW t \in Threads, KillChildren(t) PROVE StopsAreOwned'
  <2>1. \A u \in Threads : Victim(u)' = Victim(u)
    BY <1>10, Killing DEF Victim
  <2>2. \A u \in Threads : pc'[u] \in Stopping <=> pc[u] \in Stopping
    BY <1>1, <1>10, Killing DEF TypeOK, Stopping
  <2>3. \A u \in Threads : pc'[u] = "forget" => u = t \/ pc[u] = "forget"
    BY <1>1, <1>10, Killing DEF TypeOK
  <2>4. UNCHANGED <<once, queue>> /\ Children' \subseteq Children /\ Victim(t) \notin Children'
    BY <1>10, Killing DEF records, Children
  <2> QED
    BY <1>1, <2>1, <2>2, <2>3, <2>4 DEF StopsAreOwned
<1>11. CASE Outside
  <2>1. ASSUME launcher' \subseteq launcher, devUp' \subseteq devUp, UNCHANGED <<once, pc, queue>>
        PROVE  StopsAreOwned'
    BY <1>2, <2>1
  <2> QED
    BY <1>11, <2>1 DEF Outside, LauncherExits, DevListens, DevExits, ExcelOpens, ExcelCloses,
       records, locals
<1>12. CASE UNCHANGED vars
  BY <1>2, <1>12 DEF vars
<1> QED
  BY <1>1, <1>3, <1>4, <1>5, <1>6, <1>7, <1>8, <1>9, <1>10, <1>11, <1>12, NextByKind,
     MovesKeep, EmptyingKeeps DEF records

\* Every step leaves a registry of launches that can be stopped.
LEMMA RegistryStep ==
  ASSUME IInv, TypeOK', [Next]_vars
  PROVE  TrackedUnderItsManifest' /\ TrackedCanBeStopped'
<1>1. TypeOK /\ StartsAreOwned /\ StopsAreOwned /\ TrackedUnderItsManifest /\ TrackedCanBeStopped
  BY DEF IInv
<1>2. ASSUME UNCHANGED <<registry, once, manifestOf>>
      PROVE  TrackedUnderItsManifest' /\ TrackedCanBeStopped'
  BY <1>1, <1>2 DEF TrackedUnderItsManifest, TrackedCanBeStopped
<1>3. ASSUME registry' = [m \in Manifests |-> 0]
      PROVE  TrackedUnderItsManifest' /\ TrackedCanBeStopped'
  BY <1>3 DEF TrackedUnderItsManifest, TrackedCanBeStopped
<1>4. \A m \in Manifests : registry[m] # 0 =>
        registry[m] \in Attempts /\ registry[m] \in 1 .. attempts
  BY <1>1, Numbered
<1>5. ASSUME NEW t \in Threads, WithoutOwnDevServer(t) \/ spawnDevServer(t)
      PROVE  TrackedUnderItsManifest' /\ TrackedCanBeStopped'
  <2>1. /\ manifestOf' = [manifestOf EXCEPT ![attempts'] = man[t]]
        /\ attempts' \notin 1 .. attempts /\ UNCHANGED <<registry, once>>
    BY <1>1, <1>5, Begins
  <2>2. \A m \in Manifests : registry[m] # 0 => manifestOf'[registry[m]] = manifestOf[registry[m]]
    BY <1>1, <1>4, <2>1 DEF TypeOK
  <2> QED
    BY <1>1, <2>1, <2>2 DEF TrackedUnderItsManifest, TrackedCanBeStopped
<1>6. ASSUME NEW t \in Threads, registerTrackedLaunch(t)
      PROVE  TrackedUnderItsManifest' /\ TrackedCanBeStopped'
  <2>1. /\ pc[t] = "register" /\ registry' = [registry EXCEPT ![man[t]] = mine[t]]
        /\ once' = [once EXCEPT ![mine[t]] = "live"] /\ UNCHANGED manifestOf
    BY <1>6 DEF registerTrackedLaunch
  <2>2. manifestOf[mine[t]] = man[t] /\ mine[t] \in Attempts
    BY <1>1, <2>1, Attempted DEF StartsAreOwned, Starting
  <2>3. \A m \in Manifests : registry'[m] \in {registry[m], mine[t]}
                             /\ (m # man[t] => registry'[m] = registry[m])
    BY <1>1, <2>1 DEF TypeOK
  <2>4. registry'[man[t]] = mine[t] /\ once'[mine[t]] = "live"
    BY <1>1, <2>1, <2>2 DEF TypeOK
  <2>5. \A i \in Attempts : once[i] \in {"live", "running"} => once'[i] \in {"live", "running"}
    BY <1>1, <2>1 DEF TypeOK
  <2>6. TrackedUnderItsManifest'
    BY <1>1, <2>1, <2>2, <2>3, <2>4 DEF TrackedUnderItsManifest
  <2>7. TrackedCanBeStopped'
    BY <1>1, <1>4, <2>3, <2>4, <2>5 DEF TrackedCanBeStopped
  <2> QED
    BY <2>6, <2>7
<1>7. ASSUME NEW t \in Threads, StopBegins(t)
      PROVE  TrackedUnderItsManifest' /\ TrackedCanBeStopped'
  BY <1>1, <1>4, <1>7 DEF TypeOK, StopBegins, TrackedUnderItsManifest, TrackedCanBeStopped
\* The launch whose stop ends is tracked under its own manifest, if at all, and
\* that entry goes.
<1>8. ASSUME NEW t \in Threads, Forget(t)
      PROVE  TrackedUnderItsManifest' /\ TrackedCanBeStopped'
  <2>1. /\ registry' = [registry EXCEPT ![manifestOf[Victim(t)]] = 0]
        /\ once' = [once EXCEPT ![Victim(t)] = "done"] /\ UNCHANGED manifestOf
    BY <1>8 DEF Forget
  <2>2. Victim(t) \in Attempts /\ manifestOf[Victim(t)] \in Manifests
    BY <1>1, <1>8, Stops DEF TypeOK
  <2>3. \A m \in Manifests : registry'[m] # 0 =>
          registry'[m] = registry[m] /\ registry[m] # Victim(t)
    BY <1>1, <2>1, <2>2 DEF TypeOK, TrackedUnderItsManifest
  <2>4. \A i \in Attempts : i # Victim(t) => once'[i] = once[i]
    BY <1>1, <2>1 DEF TypeOK
  <2> QED
    BY <1>1, <1>4, <2>1, <2>3, <2>4 DEF TrackedUnderItsManifest, TrackedCanBeStopped
<1> QED
  BY <1>1, <1>2, <1>3, <1>5, <1>6, <1>7, <1>8, NextByKind, MovesKeep, EmptyingKeeps, GivingUp,
     Killing DEF spawnLauncher, StopAwaited, Outside, LauncherExits, DevListens, DevExits,
     ExcelOpens, ExcelCloses, records, vars

\* A dev-server child runs only for an attempt that spawned it.
LEMMA OwnStep ==
  ASSUME IInv, TypeOK', [Next]_vars
  PROVE  OwnDevServers'
<1>1. TypeOK /\ OwnDevServers
  BY DEF IInv
<1>2. ASSUME devUp' \subseteq devUp, UNCHANGED dev PROVE OwnDevServers'
  BY <1>1, <1>2 DEF OwnDevServers
<1>3. ASSUME NEW t \in Threads, WithoutOwnDevServer(t) PROVE OwnDevServers'
  <2>1. attempts' \notin devUp /\ devUp' = devUp
    BY <1>3, Begins DEF Children, WithoutOwnDevServer, world
  <2>2. \A i \in devUp : i \in Attempts
    BY <1>1, Attempted DEF IInv, TypeOK
  <2> QED
    BY <1>1, <1>3, <2>1, <2>2 DEF TypeOK, OwnDevServers, WithoutOwnDevServer
<1>4. ASSUME NEW t \in Threads, spawnDevServer(t) PROVE OwnDevServers'
  <2>1. devUp' = devUp \cup {attempts'} /\ dev' = [dev EXCEPT ![attempts'] = "own"]
        /\ attempts' \in Attempts
    BY <1>4, Begins DEF spawnDevServer
  <2>2. \A i \in devUp : i \in Attempts
    BY <1>1, Attempted DEF IInv, TypeOK
  <2> QED
    BY <1>1, <2>1, <2>2 DEF TypeOK, OwnDevServers
<1> QED
  BY <1>2, <1>3, <1>4, NextByKind, MovesKeep, EmptyingKeeps, GivingUp, Killing, Stops
     DEF IInv, spawnLauncher, registerTrackedLaunch, Outside, LauncherExits, DevListens,
     DevExits, ExcelOpens, ExcelCloses, records, world, vars

\* A finished stop stays finished: nothing starts under its number again.
LEMMA DoneStep ==
  ASSUME IInv, TypeOK', [Next]_vars
  PROVE  DoneIsDead'
<1>1. TypeOK /\ StartsAreOwned /\ StopsAreOwned /\ DoneIsDead
  BY DEF IInv
<1>2. ASSUME Children' \subseteq Children, UNCHANGED <<once, acked, attempts>>
      PROVE  DoneIsDead'
  BY <1>1, <1>2 DEF DoneIsDead
<1>3. ASSUME NEW t \in Threads, WithoutOwnDevServer(t) \/ spawnDevServer(t)
      PROVE  DoneIsDead'
  <2>1. Children' \subseteq Children \cup {attempts'} /\ once[attempts'] = "new"
        /\ attempts' = attempts + 1 /\ attempts \in Nat /\ UNCHANGED <<once, acked>>
    BY <1>3, Begins DEF Children
  <2> QED
    BY <1>1, <2>1 DEF DoneIsDead, Attempts
<1>4. ASSUME NEW t \in Threads, spawnLauncher(t) PROVE DoneIsDead'
  <2>1. Children' = Children \cup {mine[t]} /\ once[mine[t]] = "new"
        /\ UNCHANGED <<once, acked, attempts>>
    BY <1>1, <1>4 DEF StartsAreOwned, Starting, Children, spawnLauncher, records
  <2> QED
    BY <1>1, <2>1 DEF DoneIsDead
<1>5. ASSUME NEW t \in Threads, registerTrackedLaunch(t) PROVE DoneIsDead'
  <2>1. /\ once' = [once EXCEPT ![mine[t]] = "live"] /\ pc[t] = "register"
        /\ UNCHANGED <<launcher, devUp, acked, attempts>>
    BY <1>5 DEF registerTrackedLaunch, world
  <2>2. mine[t] \in 1 .. attempts /\ mine[t] \in Attempts /\ once[mine[t]] = "new"
    BY <1>1, <2>1, Attempted DEF StartsAreOwned, Starting
  <2>3. \A i \in Attempts : i # mine[t] => once'[i] = once[i]
    BY <1>1, <2>1 DEF TypeOK
  <2>4. once'[mine[t]] = "live" /\ mine[t] \notin acked
    BY <1>1, <2>1, <2>2 DEF TypeOK, DoneIsDead
  <2>5. acked \subseteq Attempts /\ \A i \in Attempts : i > attempts => i # mine[t]
    BY <1>1, <2>2, Numbered
  <2> QED
    BY <1>1, <2>1, <2>2, <2>3, <2>4, <2>5 DEF DoneIsDead, Children
<1>6. ASSUME NEW t \in Threads, StopBegins(t) \/ StopAwaited(t) \/ Forget(t) PROVE DoneIsDead'
  <2>1. Victim(t) \in Attempts /\ Victim(t) \in 1 .. attempts
        /\ UNCHANGED <<launcher, devUp, attempts>>
    BY <1>6, Stops DEF world
  <2>2. acked \subseteq Attempts /\ \A i \in Attempts : i > attempts => i # Victim(t)
    BY <1>1, <2>1, Numbered
  <2>3. CASE StopBegins(t)
    BY <1>1, <2>1, <2>2, <2>3 DEF TypeOK, DoneIsDead, StopBegins, Children
  <2>4. CASE StopAwaited(t)
    BY <1>1, <2>1, <2>2, <2>4 DEF TypeOK, DoneIsDead, StopAwaited, Pop, Children
  <2>5. CASE Forget(t)
    <3>1. Victim(t) \notin Children /\ acked' = acked \cup {Victim(t)}
          /\ once' = [once EXCEPT ![Victim(t)] = "done"]
      BY <1>1, <2>5 DEF StopsAreOwned, Stopping, Forget, Pop
    <3>2. once'[Victim(t)] = "done"
          /\ \A i \in Attempts : i # Victim(t) => once'[i] = once[i]
      BY <1>1, <2>1, <3>1 DEF TypeOK
    <3> QED
      BY <1>1, <2>1, <2>2, <3>1, <3>2 DEF DoneIsDead, Children
  <2> QED
    BY <1>6, <2>3, <2>4, <2>5
<1>7. ASSUME NEW t \in Threads, Moves(t) \/ EmptiesRegistry(t) PROVE DoneIsDead'
  BY <1>1, <1>2, <1>7, MovesKeep, EmptyingKeeps DEF Children, records, world
<1>8. ASSUME NEW t \in Threads, GivesUp(t) \/ KillChildren(t) PROVE DoneIsDead'
  BY <1>2, <1>8, GivingUp, Killing DEF Children, records
<1>9. CASE Outside \/ UNCHANGED vars
  BY <1>2, <1>9 DEF Outside, LauncherExits, DevListens, DevExits, ExcelOpens, ExcelCloses,
     Children, records, vars
<1> QED
  BY <1>3, <1>4, <1>5, <1>6, <1>7, <1>8, <1>9, NextByKind

\* Only a thread that stops launches has any to stop, after every step.
LEMMA QueuesStep ==
  ASSUME IInv, [Next]_vars
  PROVE  IdleQueues'
<1>1. TypeOK /\ IdleQueues
  BY DEF IInv
<1>2. ASSUME NEW t \in Threads, \A u \in Threads \ {t} : pc'[u] = pc[u] /\ queue'[u] = queue[u],
             pc'[t] \in {"stop", "kill", "forget"} \/ queue'[t] = <<>>
      PROVE  IdleQueues'
  BY <1>1, <1>2 DEF IdleQueues
<1>3. ASSUME NEW t \in Threads, UNCHANGED queue, pc[t] \notin {"stop", "kill", "forget"},
             \A u \in Threads \ {t} : pc'[u] = pc[u]
      PROVE  IdleQueues'
  BY <1>1, <1>2, <1>3 DEF IdleQueues
<1>4. ASSUME NEW t \in Threads, NEW m \in Manifests,
             runLaunch(t, m) \/ runEnsureRunning(t, m)
      PROVE  IdleQueues'
  BY <1>1, <1>3, <1>4 DEF TypeOK, Goto, runLaunch, runEnsureRunning
<1>5. ASSUME NEW t \in Threads, NEW m \in Manifests, StopExcel(t, m) PROVE IdleQueues'
  BY <1>1, <1>2, <1>5 DEF TypeOK, Goto, StopExcel
<1>6. ASSUME NEW t \in Threads,
             RecoverCalled(t) \/ NotReachable(t) \/ NotTracked(t) \/ DevServerReady(t)
               \/ CdpReady(t) \/ RecoverDecides(t) \/ RecoverLock(t) \/ spawnLauncher(t)
      PROVE  IdleQueues'
  BY <1>1, <1>3, <1>6 DEF TypeOK, Goto, locals, RecoverCalled, NotReachable, NotTracked,
     DevServerReady, CdpReady, RecoverDecides, RecoverLock, spawnLauncher
<1>7. ASSUME NEW t \in Threads,
             Preexisting(t) \/ Reuse(t) \/ ColdStartRefused(t) \/ RecoverWithoutLaunch(t)
               \/ registerTrackedLaunch(t)
      PROVE  IdleQueues'
  BY <1>1, <1>3, <1>7 DEF TypeOK, Goto, Return, Preexisting, Reuse, ColdStartRefused,
     RecoverWithoutLaunch, registerTrackedLaunch
<1>8. ASSUME NEW t \in Threads, ClearStale(t) PROVE IdleQueues'
  BY <1>1, <1>2, <1>8 DEF TypeOK, Goto, ClearStale
<1>9. ASSUME NEW t \in Threads, StopsDone(t) PROVE IdleQueues'
  <2>1. queue[t] = <<>> /\ UNCHANGED queue
    BY <1>9 DEF StopsDone, Return, locals
  <2>2. \A u \in Threads \ {t} : pc'[u] = pc[u]
    BY <1>1, <1>9 DEF TypeOK, StopsDone, Return, Goto
  <2> QED
    BY <1>2, <2>1, <2>2
<1>10. ASSUME NEW t \in Threads, EmptiesRegistry(t) PROVE IdleQueues'
  <2>1. /\ pc' = [pc EXCEPT ![t] = "stop"]
        /\ \E s : queue' = [queue EXCEPT ![t] = s]
    BY <1>10 DEF EmptiesRegistry, runStopAll, relaunchProject, StopAll, Goto
  <2> QED
    BY <1>1, <1>2, <2>1 DEF TypeOK
<1>11. ASSUME NEW t \in Threads, GivesUp(t) PROVE IdleQueues'
  <2>1. /\ pc[t] \notin {"stop", "kill", "forget"} /\ UNCHANGED queue
        /\ pc' = [pc EXCEPT ![t] = "idle"]
    BY <1>11, GivingUp DEF Starting
  <2> QED
    BY <1>1, <1>3, <2>1 DEF TypeOK
<1>12. ASSUME NEW t \in Threads, WithoutOwnDevServer(t) \/ spawnDevServer(t)
       PROVE  IdleQueues'
  BY <1>3, <1>12, Begins
<1>13. ASSUME NEW t \in Threads, StopBegins(t) \/ StopAwaited(t) \/ Forget(t) \/ KillChildren(t)
       PROVE  IdleQueues'
  <2>1. pc'[t] \in {"stop", "kill", "forget"}
    BY <1>1, <1>13 DEF TypeOK, StopBegins, StopAwaited, Forget, KillChildren, Pop, Goto
  <2>2. \A u \in Threads \ {t} : pc'[u] = pc[u] /\ queue'[u] = queue[u]
    BY <1>1, <1>13, Stops, Killing DEF TypeOK
  <2> QED
    BY <1>2, <2>1, <2>2
<1>14. CASE Outside \/ UNCHANGED vars
  BY <1>1, <1>14 DEF IdleQueues, Outside, LauncherExits, DevListens, DevExits, ExcelOpens,
     ExcelCloses, locals, vars
<1> QED
  BY <1>4, <1>5, <1>6, <1>7, <1>8, <1>9, <1>10, <1>11, <1>12, <1>13, <1>14, NextByKind
  DEF Moves

\* Every tracked launch is somewhere in the list that StopAll works through.
LEMMA AllAreQueued ==
  ASSUME NEW s \in Orders(Tracked), NEW i \in Tracked
  PROVE  \E k \in DOMAIN s : s[k] = i
BY DEF Orders

\* A launch whose Stop can be reached stays so while its record stays and no
\* thread drops one from its list.
LEMMA StaysReachable ==
  ASSUME NEW i, Reachable(i), registry'[manifestOf'[i]] = registry[manifestOf[i]],
         \A u \in Threads : queue'[u] = queue[u] \/ queue[u] = <<>>
  PROVE  registry'[manifestOf'[i]] = i
           \/ \E u \in Threads : \E k \in DOMAIN queue'[u] : queue'[u][k] = i
<1>1. ASSUME NEW u \in Threads, \E k \in DOMAIN queue[u] : queue[u][k] = i
      PROVE  \E k \in DOMAIN queue'[u] : queue'[u][k] = i
  <2>1. queue[u] # <<>>
    BY <1>1
  <2> QED
    BY <1>1, <2>1
<1> QED
  BY <1>1 DEF Reachable

\* What a step that only moves a thread does to the lists.
LEMMA MovesQueue ==
  ASSUME IInv, NEW t \in Threads, Moves(t)
  PROVE  \A u \in Threads : queue'[u] = queue[u] \/ queue[u] = <<>>
<1>1. TypeOK /\ IdleQueues
  BY DEF IInv
<1>2. ASSUME NEW m \in Manifests, StopExcel(t, m)
      PROVE  \A u \in Threads : queue'[u] = queue[u] \/ queue[u] = <<>>
  BY <1>1, <1>2 DEF TypeOK, IdleQueues, StopExcel
<1>3. CASE ClearStale(t)
  BY <1>1, <1>3 DEF TypeOK, IdleQueues, ClearStale
<1>4. CASE UNCHANGED queue
  BY <1>4
<1> QED
  BY <1>2, <1>3, <1>4 DEF Moves, runLaunch, runEnsureRunning, RecoverCalled, Preexisting,
     NotReachable, NotTracked, Reuse, ColdStartRefused, DevServerReady, CdpReady,
     StopsDone, RecoverWithoutLaunch, RecoverDecides, RecoverLock, Return, locals

\* What is in a list and not at its head is in its tail.
LEMMA WaitsOn ==
  ASSUME NEW S, NEW s \in Seq(S), s # <<>>, NEW k \in DOMAIN s, s[k] # Head(s)
  PROVE  \E j \in DOMAIN Tail(s) : Tail(s)[j] = s[k]
<1>1. PICK n \in Nat : n = Len(s)
  BY LenProperties
<1>2. DOMAIN s = 1 .. n /\ n > 0 /\ Head(s) = s[1]
  BY <1>1, LenProperties, HeadTailProperties, EmptySeq
<1>3. Len(Tail(s)) = n - 1 /\ \A j \in 1 .. n - 1 : Tail(s)[j] = s[j + 1]
  BY <1>1, HeadTailProperties
<1>4. DOMAIN Tail(s) = 1 .. n - 1
  BY <1>3, HeadTailProperties, LenProperties
<1>5. k \in 1 .. n /\ k # 1
  BY <1>2
<1>6. k - 1 \in 1 .. n - 1 /\ (k - 1) + 1 = k
  BY <1>5
<1> QED
  BY <1>3, <1>4, <1>6

\* A stop that returns drops its own launch from the list and no other.
LEMMA PoppedOnly ==
  ASSUME IInv, NEW t \in Threads, queue[t] # <<>>, Pop(t), NEW i, i # Victim(t),
         \E u \in Threads : \E k \in DOMAIN queue[u] : queue[u][k] = i
  PROVE  \E u \in Threads : \E k \in DOMAIN queue'[u] : queue'[u][k] = i
<1>1. PICK u \in Threads : \E k \in DOMAIN queue[u] : queue[u][k] = i
  OBVIOUS
<1>2. CASE u = t
  <2>1. queue[t] \in Seq(1 .. attempts) /\ queue'[t] = Tail(queue[t])
    BY DEF IInv, TypeOK, Pop
  <2>2. \E k \in DOMAIN Tail(queue[t]) : Tail(queue[t])[k] = i
    BY <1>1, <1>2, <2>1, WaitsOn DEF Victim
  <2> QED
    BY <2>1, <2>2
<1>3. CASE u # t
  BY <1>1, <1>3 DEF IInv, TypeOK, Pop
<1> QED
  BY <1>2, <1>3

\* Every step leaves each child with someone who will stop it, or displaces it.
LEMMA ChildrenStep ==
  ASSUME IInv, TypeOK', [Next]_vars
  PROVE  NoLeakedChild'
<1>1. TypeOK /\ NoLeakedChild /\ StartsAreOwned /\ StopsAreOwned /\ IdleQueues /\ DoneIsDead
  BY DEF IInv
<1>2. /\ Children \subseteq Attempts /\ 0 \notin Children
      /\ \A i \in Children : InFlight(i) \/ Reachable(i) \/ i \in displaced
  BY <1>1, Numbered DEF NoLeakedChild, Children, Attempts
<1>3. ASSUME \A i \in Children' : InFlight(i)' \/ Reachable(i)' \/ i \in displaced'
      PROVE  NoLeakedChild'
  BY <1>3 DEF NoLeakedChild, Children
<1>4. \A i \in Children : manifestOf[i] \in Manifests
  BY <1>1, <1>2 DEF TypeOK
\* A launch whose record stays and that no list drops.
<1>5. ASSUME NEW i, Reachable(i), registry'[manifestOf'[i]] = registry[manifestOf[i]],
             \A u \in Threads : queue'[u] = queue[u] \/ queue[u] = <<>>
      PROVE  Reachable(i)'
  BY <1>5, StaysReachable DEF Reachable
\* A thread that starts a launch goes on with it, and no record is touched.
<1>6. ASSUME \A u \in Threads : pc[u] \in Starting => pc'[u] \in Starting /\ mine'[u] = mine[u],
             \A u \in Threads : queue'[u] = queue[u] \/ queue[u] = <<>>,
             Children' \subseteq Children, UNCHANGED <<registry, manifestOf, displaced>>
      PROVE  NoLeakedChild'
  <2>1. ASSUME NEW i \in Children, InFlight(i) PROVE InFlight(i)'
    BY <1>6, <2>1 DEF InFlight
  <2>2. ASSUME NEW i \in Children, Reachable(i) PROVE Reachable(i)'
    BY <1>5, <1>6, <2>2
  <2> QED
    BY <1>2, <1>3, <1>6, <2>1, <2>2
<1>7. ASSUME NEW t \in Threads, GivesUp(t) PROVE NoLeakedChild'
  <2>1. /\ pc' = [pc EXCEPT ![t] = "idle"] /\ mine' = [mine EXCEPT ![t] = 0]
        /\ Children' \subseteq Children \ {mine[t]}
        /\ UNCHANGED <<registry, manifestOf, displaced, queue>>
    BY <1>7, GivingUp DEF Children, records
  <2>2. ASSUME NEW i \in Children \ {mine[t]}, InFlight(i) PROVE InFlight(i)'
    BY <1>1, <2>1, <2>2 DEF TypeOK, InFlight
  <2>3. ASSUME NEW i \in Children, Reachable(i) PROVE Reachable(i)'
    BY <1>5, <2>1, <2>3
  <2> QED
    BY <1>2, <1>3, <2>1, <2>2, <2>3
<1>8. ASSUME NEW t \in Threads, WithoutOwnDevServer(t) \/ spawnDevServer(t)
      PROVE  NoLeakedChild'
  <2>1. PICK a : a = attempts'
    OBVIOUS
  <2>2. /\ Children' \subseteq Children \cup {a} /\ a \notin Children
        /\ manifestOf' = [manifestOf EXCEPT ![a] = man[t]]
        /\ pc[t] = "cold" /\ pc'[t] \in {"devwait", "spawn"} /\ mine'[t] = a
        /\ UNCHANGED <<registry, displaced, queue>>
        /\ \A u \in Threads \ {t} : pc'[u] = pc[u] /\ mine'[u] = mine[u]
    BY <1>1, <1>8, <2>1, Begins DEF TypeOK, Children
  <2>3. InFlight(a)'
    BY <2>2 DEF Starting, InFlight
  <2>4. ASSUME NEW i \in Children, InFlight(i) PROVE InFlight(i)'
    BY <2>2, <2>4 DEF InFlight, Starting
  <2>5. ASSUME NEW i \in Children, Reachable(i) PROVE Reachable(i)'
    <3>1. manifestOf'[i] = manifestOf[i]
      BY <1>1, <1>2, <2>2 DEF TypeOK
    <3> QED
      BY <1>5, <2>2, <2>5, <3>1
  <2> QED
    BY <1>2, <1>3, <2>2, <2>3, <2>4, <2>5
<1>9. ASSUME NEW t \in Threads, spawnLauncher(t) PROVE NoLeakedChild'
  <2>1. /\ Children' = Children \cup {mine[t]}
        /\ UNCHANGED <<registry, manifestOf, displaced, queue, mine>>
        /\ pc[t] = "spawn" /\ pc' = [pc EXCEPT ![t] = "wait"]
    BY <1>9 DEF spawnLauncher, Goto, records, locals, Children
  <2>2. ASSUME NEW i, i = mine[t] \/ InFlight(i) PROVE InFlight(i)'
    BY <1>1, <2>1, <2>2 DEF TypeOK, InFlight, Starting
  <2>3. ASSUME NEW i \in Children, Reachable(i) PROVE Reachable(i)'
    BY <1>5, <2>1, <2>3
  <2> QED
    BY <1>2, <1>3, <2>1, <2>2, <2>3
\* The launch is tracked from now on, and may displace another.
<1>10. ASSUME NEW t \in Threads, registerTrackedLaunch(t) PROVE NoLeakedChild'
  <2>1. /\ registry' = [registry EXCEPT ![man[t]] = mine[t]]
        /\ displaced' = displaced \cup ({registry[man[t]]} \ {0, mine[t]})
        /\ mine' = [mine EXCEPT ![t] = 0]
        /\ pc[t] = "register" /\ pc' = [pc EXCEPT ![t] = "idle"]
        /\ UNCHANGED <<Children, manifestOf, queue>>
    BY <1>10 DEF registerTrackedLaunch, Displace, Return, Goto, Children, world
  <2>2. /\ mine[t] \in 1 .. attempts /\ manifestOf[mine[t]] = man[t]
        /\ man[t] \in Manifests
    BY <1>1, <2>1, Attempted DEF TypeOK, StartsAreOwned, Starting
  <2>3. \A i : i = mine[t] => Reachable(i)'
    BY <1>1, <2>1, <2>2 DEF TypeOK, Reachable
  <2>4. ASSUME NEW i \in Children, i # mine[t], InFlight(i) PROVE InFlight(i)'
    BY <1>1, <2>1, <2>4 DEF TypeOK, InFlight
  <2>5. ASSUME NEW i \in Children, i # mine[t], Reachable(i)
        PROVE  Reachable(i)' \/ i \in displaced'
    <3>1. CASE manifestOf[i] = man[t] /\ registry[man[t]] = i
      BY <1>2, <2>1, <2>5, <3>1
    <3>2. CASE \E u \in Threads : \E k \in DOMAIN queue[u] : queue[u][k] = i
      BY <2>1, <3>2 DEF Reachable
    <3>3. CASE manifestOf[i] # man[t]
      <4>1. registry'[manifestOf'[i]] = registry[manifestOf[i]]
        BY <1>1, <1>4, <2>1, <3>3 DEF TypeOK
      <4> QED
        BY <1>5, <2>1, <2>5, <4>1
    <3> QED
      BY <2>5, <3>1, <3>2, <3>3 DEF Reachable
  <2>6. Children' = Children /\ displaced \subseteq displaced'
    BY <2>1
  <2> QED
    BY <1>2, <1>3, <2>3, <2>4, <2>5, <2>6
<1>11. ASSUME NEW t \in Threads, StopBegins(t) PROVE NoLeakedChild'
  <2>1. /\ pc[t] = "stop" /\ pc' = [pc EXCEPT ![t] = "kill"]
        /\ UNCHANGED <<Children, mine, queue, registry, manifestOf, displaced>>
    BY <1>11 DEF StopBegins, Goto, Children, world, locals
  <2> QED
    BY <1>1, <1>6, <2>1 DEF TypeOK, Starting
<1>12. ASSUME NEW t \in Threads, StopAwaited(t) \/ Forget(t) PROVE NoLeakedChild'
  <2>1. /\ Victim(t) \in Attempts /\ UNCHANGED <<Children, mine, manifestOf>>
        /\ pc[t] \in {"stop", "forget"} /\ \A u \in Threads \ {t} : pc'[u] = pc[u]
    BY <1>12, Stops DEF IInv, Children, world
  <2>2. queue[t] # <<>> /\ Pop(t)
    BY <1>1, <1>12 DEF StopAwaited, Forget, StopsAreOwned, Stopping
  <2>3. Victim(t) \notin Children
    BY <1>1, <1>12, <2>1 DEF StopAwaited, Forget, StopsAreOwned, Stopping, DoneIsDead
  <2>4. ASSUME NEW i \in Children, InFlight(i) PROVE InFlight(i)'
    BY <2>1, <2>4 DEF InFlight, Starting
  <2>5. ASSUME NEW i \in Children, Reachable(i) PROVE Reachable(i)' \/ i \in displaced'
    <3>1. CASE \E u \in Threads : \E k \in DOMAIN queue[u] : queue[u][k] = i
      <4>1. i # Victim(t)
        BY <2>3
      <4>2. \E u \in Threads : \E k \in DOMAIN queue'[u] : queue'[u][k] = i
        BY <2>2, <3>1, <4>1, PoppedOnly
      <4> QED
        BY <4>2 DEF Reachable
    <3>2. CASE registry[manifestOf[i]] = i /\ StopAwaited(t)
      BY <2>1, <3>2 DEF Reachable, StopAwaited
    <3>3. CASE registry[manifestOf[i]] = i /\ Forget(t)
      <4>1. /\ registry' = [registry EXCEPT ![manifestOf[Victim(t)]] = 0]
            /\ displaced' = displaced \cup ({registry[manifestOf[Victim(t)]]} \ {0, Victim(t)})
        BY <3>3 DEF Forget, Displace
      <4>2. CASE manifestOf[i] = manifestOf[Victim(t)]
        BY <1>2, <2>3, <3>3, <4>1, <4>2
      <4>3. CASE manifestOf[i] # manifestOf[Victim(t)]
        BY <1>1, <1>4, <2>1, <3>3, <4>1, <4>3 DEF TypeOK, Reachable
      <4> QED
        BY <4>2, <4>3
    <3> QED
      BY <1>12, <2>5, <3>1, <3>2, <3>3 DEF Reachable
  <2>6. Children' = Children /\ displaced \subseteq displaced'
    BY <1>12, <2>1 DEF StopAwaited, Forget, Displace
  <2> QED
    BY <1>2, <1>3, <2>4, <2>5, <2>6
<1>13. ASSUME NEW t \in Threads, KillChildren(t) PROVE NoLeakedChild'
  <2>1. /\ Children' \subseteq Children
        /\ UNCHANGED <<mine, queue, registry, manifestOf, displaced>>
        /\ pc[t] = "kill" /\ pc' = [pc EXCEPT ![t] = "forget"]
    BY <1>13, Killing DEF Children, records
  <2> QED
    BY <1>1, <1>6, <2>1 DEF TypeOK, Starting
<1>14. ASSUME NEW t \in Threads, Moves(t) PROVE NoLeakedChild'
  <2>1. \A u \in Threads : pc[u] \in Starting => pc'[u] \in Starting /\ mine'[u] = mine[u]
    BY <1>1, <1>14, MovesKeep DEF KeepsItsWork
  <2>2. Children' \subseteq Children /\ UNCHANGED <<registry, manifestOf, displaced>>
    BY <1>1, <1>14, MovesKeep DEF Children, records, world
  <2> QED
    BY <1>6, <1>14, <2>1, <2>2, MovesQueue
\* What was tracked is now in the list of the thread that emptied the registry.
<1>15. ASSUME NEW t \in Threads, EmptiesRegistry(t) PROVE NoLeakedChild'
  <2>1. \A u \in Threads : pc[u] \in Starting => pc'[u] \in Starting /\ mine'[u] = mine[u]
    BY <1>1, <1>15, EmptyingKeeps DEF KeepsItsWork
  <2>2. Children' = Children /\ UNCHANGED <<manifestOf, displaced>>
    BY <1>1, <1>15, EmptyingKeeps DEF Children, world
  <2>3. StopAll(t, "idle") \/ StopAll(t, "lookup")
    BY <1>15 DEF EmptiesRegistry, runStopAll, relaunchProject
  <2>4. PICK s \in Orders(Tracked) : queue' = [queue EXCEPT ![t] = s]
    BY <2>3 DEF StopAll
  <2>5. queue[t] = <<>>
    BY <1>1, <1>15 DEF IdleQueues, EmptiesRegistry, runStopAll, relaunchProject
  <2>6. ASSUME NEW i \in Children, InFlight(i) PROVE InFlight(i)'
    BY <2>1, <2>6 DEF InFlight
  <2>7. ASSUME NEW i \in Children, Reachable(i) PROVE Reachable(i)'
    <3>1. queue'[t] = s /\ \A u \in Threads \ {t} : queue'[u] = queue[u]
      BY <1>1, <2>4 DEF TypeOK
    <3>2. CASE registry[manifestOf[i]] = i
      <4>1. i \in Tracked
        BY <1>2, <1>4, <3>2 DEF Tracked
      <4>2. \E k \in DOMAIN s : s[k] = i
        BY <4>1, AllAreQueued
      <4> QED
        BY <3>1, <4>2 DEF Reachable
    <3>3. CASE \E u \in Threads : \E k \in DOMAIN queue[u] : queue[u][k] = i
      <4>1. PICK u \in Threads : \E k \in DOMAIN queue[u] : queue[u][k] = i
        BY <3>3
      <4>2. u # t
        BY <2>5, <4>1
      <4> QED
        BY <3>1, <4>1, <4>2 DEF Reachable
    <3> QED
      BY <2>7, <3>2, <3>3 DEF Reachable
  <2> QED
    BY <1>2, <1>3, <2>2, <2>6, <2>7
<1>16. CASE Outside \/ UNCHANGED vars
  <2>1. /\ Children' \subseteq Children
        /\ UNCHANGED <<pc, mine, queue, registry, manifestOf, displaced>>
    BY <1>16 DEF Outside, LauncherExits, DevListens, DevExits, ExcelOpens, ExcelCloses,
       Children, records, locals, vars
  <2> QED
    BY <1>6, <2>1
<1> QED
  BY <1>7, <1>8, <1>9, <1>10, <1>11, <1>12, <1>13, <1>14, <1>15, <1>16, NextByKind
-----------------------------------------------------------------------------
(* Theorems.                                                               *)

\* The invariant holds initially.
LEMMA Inductive == Init => IInv
<1>1. Init => TypeOK
  <2>1. (CHOOSE m \in Manifests : TRUE) \in Manifests
    BY ManifestsAssumption
  <2>2. <<>> \in Seq(1 .. 0)
    OBVIOUS
  <2>3. Init => RecordsTyped
    BY <2>1, AttemptsAssumption DEF Init, RecordsTyped, Attempts
  <2>4. Init => WorldTyped
    BY DEF Init, WorldTyped
  <2>5. Init => CallsTyped
    BY <2>1, <2>2 DEF Init, CallsTyped, Labels
  <2> QED
    BY <2>3, <2>4, <2>5, TypeParts
<1>2. Init => StartsAreOwned /\ StopsAreOwned
  BY DEF Init, StartsAreOwned, StopsAreOwned, Starting, Stopping
<1>3. Init => TrackedUnderItsManifest /\ TrackedCanBeStopped /\ OwnDevServers
  BY DEF Init, TrackedUnderItsManifest, TrackedCanBeStopped, OwnDevServers
<1>4. Init => DoneIsDead /\ IdleQueues /\ NoLeakedChild
  BY DEF Init, DoneIsDead, IdleQueues, NoLeakedChild, Children, Attempts
<1> QED
  BY <1>1, <1>2, <1>3, <1>4 DEF IInv

\* The invariant holds for ever.
LEMMA Invariance == Spec => []IInv
<1>1. IInv /\ [Next]_vars => IInv'
  <2>1. SUFFICES ASSUME IInv, [Next]_vars PROVE IInv'
    OBVIOUS
  <2>2. TypeOK'
    BY <2>1, TypeStep DEF IInv
  <2> QED
    BY <2>1, <2>2, StartsStep, StopsStep, RegistryStep, OwnStep, DoneStep, QueuesStep,
       ChildrenStep DEF IInv
<1> QED
  BY <1>1, Inductive, PTL DEF Spec

\* Every reachable state is well typed.
THEOREM TypeCorrect == Spec => []TypeOK
<1>1. IInv => TypeOK
  BY DEF IInv
<1> QED
  BY <1>1, Invariance, PTL

\* A child process runs without anyone who could stop it only when a launch of
\* the same manifest has overwritten its record or the stop of one has deleted
\* it (launcher.go:96, 252, 255); every error return of the cold start cleans
\* up (launcher.go:107-133, 223-241).
THEOREM ChildrenAreOwned == Spec => []NoLeakedChild
<1>1. IInv => NoLeakedChild
  BY DEF IInv
<1> QED
  BY <1>1, Invariance, PTL

\* When Stop returns, to whichever caller, the children of the launch are dead
\* (state.go:25-32, launcher.go:256-262).
THEOREM StopIsComplete == Spec => []StoppedIsDead
<1>1. ASSUME IInv PROVE StoppedIsDead
  <2>1. acked \subseteq Attempts
    BY <1>1, AttemptsAssumption DEF IInv, TypeOK, Attempts
  <2> QED
    BY <1>1, <2>1 DEF IInv, DoneIsDead, StoppedIsDead, Children
<1> QED
  BY <1>1, Invariance, PTL

\* The registry never names a launch whose stop sequence is over
\* (state.go:52-91).
THEOREM RegistryIsLive == Spec => []TrackedCanBeStopped
<1>1. IInv => TrackedCanBeStopped
  BY DEF IInv
<1> QED
  BY <1>1, Invariance, PTL

\* A dev server that this process did not start is never stopped by it
\* (devserver.go:26-41, 48-51).
THEOREM ExternalIsSpared == Spec => ExternalDevServerSurvives
<1>1. IInv /\ [Next]_vars => (listening = External => listening' = External)
  <2>1. SUFFICES ASSUME IInv, [Next]_vars, listening = External
                 PROVE  listening' = External
    OBVIOUS
  <2>2. External # 0 /\ \A i \in 0 .. attempts : i # External
    BY <2>1, ExternalAssumption, AttemptsAssumption DEF IInv, TypeOK
  <2>3. ASSUME NEW i \in 0 .. attempts, KillDev(i) PROVE listening' = External
    BY <2>1, <2>2, <2>3 DEF KillDev
  <2>4. ASSUME NEW t \in Threads, DevServerNotReady(t) \/ SpawnFailed(t) \/ CdpNotReady(t)
        PROVE  listening' = External
    BY <2>1, <2>3, <2>4 DEF IInv, TypeOK, DevServerNotReady, SpawnFailed, CdpNotReady
  <2>5. ASSUME NEW t \in Threads, KillChildren(t) PROVE listening' = External
    <3>1. Victim(t) \in 0 .. attempts
      BY <2>1, <2>5, Attempted DEF IInv, KillChildren, Stopping
    <3> QED
      BY <2>3, <2>5, <3>1 DEF KillChildren
  <2>6. ASSUME NEW i \in Attempts, DevListens(i) \/ DevExits(i) PROVE listening' = External
    BY <2>1, <2>2, <2>6, ExternalAssumption DEF DevListens, DevExits, Attempts
  <2>7. CASE UNCHANGED listening
    BY <2>1, <2>7
  <2> QED
    BY <2>1, <2>4, <2>5, <2>6, <2>7 DEF Next, Call, Step, Environment, vars, world,
       runLaunch, runEnsureRunning, StopExcel, runStopAll, RecoverCalled, Preexisting,
       NotReachable, NotTracked, Reuse, ClearStale, ColdStartRefused, WithoutOwnDevServer,
       spawnDevServer, DevServerReady, spawnLauncher, CdpReady, registerTrackedLaunch,
       StopsDone, StopBegins, StopAwaited, Forget, RecoverWithoutLaunch, RecoverDecides,
       relaunchProject, RecoverLock, LauncherExits, ExcelOpens, ExcelCloses, StopAll
<1> QED
  BY <1>1, Invariance, PTL DEF Spec, ExternalDevServerSurvives
=============================================================================
