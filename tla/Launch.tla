-------------------------------- MODULE Launch --------------------------------
(***************************************************************************)
(* Starting and stopping Excel (internal/launch): the registry of tracked  *)
(* launches, the cold start with its two children (dev server, launcher),  *)
(* the stop sequence that runs once per launch, and the tools that call    *)
(* them from concurrent requests: addin.launch, addin.ensureRunning,       *)
(* addin.stop, and the recovery of a dead connection (internal/mcp).       *)
(*                                                                         *)
(* Attempts are numbered in the order they cold-start; attempt i owns the  *)
(* launcher child i and, if it spawned one, the dev-server child i.  Only  *)
(* the default CDP port is modelled: whoever serves it answers every probe.*)
(* Outside the process: children exit, Excel opens and closes.             *)
(***************************************************************************)
EXTENDS Integers, Sequences, FiniteSets

CONSTANTS
  Threads,       \* goroutines running a tool call
  Manifests,     \* manifest paths, the keys of the registry
  External,      \* the owner of a dev server that the project started itself
  NoThread,      \* recoverMu is free
  MaxAttempts    \* bound of the model: cold starts

ASSUME ExternalAssumption == External \notin Nat
ASSUME NoThreadAssumption == NoThread \notin Threads
ASSUME AttemptsAssumption == MaxAttempts \in Nat
ASSUME ManifestsAssumption == Manifests # {}

VARIABLES
  registry,    \* defaultRegistry.launches: the attempt tracked for a manifest, or 0
  once,        \* stopOnce of each attempt: "new", "live", "running" or "done"
  manifestOf,  \* the manifest each attempt was started for
  attempts,    \* cold starts so far
  launcher,    \* attempts whose office-addin-debugging child runs
  dev,         \* devServerHandle of each attempt: "none", "own" or "preexisting"
  devUp,       \* attempts whose dev-server child runs
  listening,   \* who listens on the dev-server port: an attempt, External or 0
  serving,     \* the CDP port answers /json/version
  recoverMu,   \* Server.recoverMu
  acked,       \* attempts whose Stop has returned to some caller
  displaced,   \* history: attempts whose record another launch of the same
               \* manifest has overwritten, or the stop of another has deleted
  pc, man, mine, queue, after   \* of each thread: see TypeOK

world == <<launcher, devUp, listening, serving>>
records == <<registry, once, manifestOf, attempts, dev, acked, displaced>>
locals == <<man, mine, queue, after>>
vars == <<registry, once, manifestOf, attempts, launcher, dev, devUp, listening,
          serving, recoverMu, acked, displaced, pc, man, mine, queue, after>>

Attempts == 1 .. MaxAttempts

Init ==
  /\ registry = [m \in Manifests |-> 0]
  /\ once = [i \in Attempts |-> "new"]
  /\ manifestOf = [i \in Attempts |-> CHOOSE m \in Manifests : TRUE]
  /\ attempts = 0
  /\ launcher = {} /\ devUp = {}
  /\ dev = [i \in Attempts |-> "none"]
  /\ listening \in {0, External}
  /\ serving = FALSE
  /\ recoverMu = NoThread
  /\ acked = {} /\ displaced = {}
  /\ pc = [t \in Threads |-> "idle"]
  /\ man = [t \in Threads |-> CHOOSE m \in Manifests : TRUE]
  /\ mine = [t \in Threads |-> 0]
  /\ queue = [t \in Threads |-> <<>>]
  /\ after = [t \in Threads |-> "idle"]

Goto(t, label) == pc' = [pc EXCEPT ![t] = label]

\* A tool call ends: recoverConnection's deferred Unlock runs.
Return(t) ==
  /\ Goto(t, "idle")
  /\ mine' = [mine EXCEPT ![t] = 0]
  /\ recoverMu' = IF recoverMu = t THEN NoThread ELSE recoverMu
  /\ UNCHANGED <<man, queue, after>>

\* Excel may close, or not, when its sideload is stopped or its launcher dies.
MayStopServing == serving' \in {FALSE, serving}

\* devServerHandle.stop and killProcess for the children of attempt i.
\* Mutant: the dev server is killed whoever started it.
KillDev_anyOwner(i) ==
  IF dev[i] # "none"
    THEN devUp' = devUp \ {listening, i} /\ listening' = 0
    ELSE UNCHANGED <<devUp, listening>>

KillDev(i) ==
  IF dev[i] = "own"
    THEN /\ devUp' = devUp \ {i}
         /\ listening' = IF listening = i THEN 0 ELSE listening
    ELSE UNCHANGED <<devUp, listening>>
-----------------------------------------------------------------------------
(* addin.launch and addin.ensureRunning.                                   *)

runLaunch(t, m) ==
  /\ pc[t] = "idle"
  /\ Goto(t, "lookup")
  /\ man' = [man EXCEPT ![t] = m]
  /\ UNCHANGED <<world, records, recoverMu, mine, queue, after>>

runEnsureRunning(t, m) ==
  /\ pc[t] = "idle"
  /\ Goto(t, "probe")
  /\ man' = [man EXCEPT ![t] = m]
  /\ UNCHANGED <<world, records, recoverMu, mine, queue, after>>

\* LaunchIfNeeded: an endpoint that answers is used as it is.
Preexisting(t) ==
  /\ pc[t] = "probe" /\ serving
  /\ Return(t)
  /\ UNCHANGED <<world, records>>

NotReachable(t) ==
  /\ pc[t] = "probe"
  /\ Goto(t, "lookup")
  /\ UNCHANGED <<world, records, recoverMu, locals>>

\* reuseTrackedLaunch: nothing tracked, a live launch, or a stale record.
NotTracked(t) ==
  /\ pc[t] = "lookup" /\ registry[man[t]] = 0
  /\ Goto(t, "cold")
  /\ UNCHANGED <<world, records, recoverMu, locals>>

Reuse(t) ==
  /\ pc[t] = "lookup" /\ registry[man[t]] \in launcher /\ serving
  /\ Return(t)
  /\ UNCHANGED <<world, records>>

\* The probe may time out although Excel is up.
ClearStale(t) ==
  /\ pc[t] = "lookup" /\ registry[man[t]] # 0
  /\ Goto(t, "stop")
  /\ queue' = [queue EXCEPT ![t] = <<registry[man[t]]>>]
  /\ after' = [after EXCEPT ![t] = "cold"]
  /\ UNCHANGED <<world, records, recoverMu, man, mine>>

\* resolveLauncherEnv, or the start of a child, fails before anything runs.
ColdStartRefused(t) ==
  /\ pc[t] = "cold"
  /\ Return(t)
  /\ UNCHANGED <<world, records>>

NewAttempt(t) ==
  /\ attempts < MaxAttempts
  /\ attempts' = attempts + 1
  /\ manifestOf' = [manifestOf EXCEPT ![attempts'] = man[t]]
  /\ mine' = [mine EXCEPT ![t] = attempts']

\* SkipDevServer, no dev server declared, or its port is open already.
WithoutOwnDevServer(t) ==
  /\ pc[t] = "cold"
  /\ NewAttempt(t)
  /\ dev' = [dev EXCEPT ![attempts'] = IF listening # 0 THEN "preexisting" ELSE "none"]
  /\ Goto(t, "spawn")
  /\ UNCHANGED <<world, registry, once, acked, displaced, recoverMu, man, queue, after>>

spawnDevServer(t) ==
  /\ pc[t] = "cold" /\ listening = 0
  /\ NewAttempt(t)
  /\ dev' = [dev EXCEPT ![attempts'] = "own"]
  /\ devUp' = devUp \cup {attempts'}
  /\ Goto(t, "devwait")
  /\ UNCHANGED <<launcher, listening, serving, registry, once, acked, displaced,
                 recoverMu, man, queue, after>>

DevServerReady(t) ==
  /\ pc[t] = "devwait" /\ listening # 0
  /\ Goto(t, "spawn")
  /\ UNCHANGED <<world, records, recoverMu, locals>>

\* Canceled, too late, or the child has exited.
DevServerNotReady(t) ==
  /\ pc[t] = "devwait"
  /\ KillDev(mine[t])
  /\ Return(t)
  /\ UNCHANGED <<launcher, serving, records>>

spawnLauncher(t) ==
  /\ pc[t] = "spawn"
  /\ launcher' = launcher \cup {mine[t]}
  /\ Goto(t, "wait")
  /\ UNCHANGED <<devUp, listening, serving, records, recoverMu, locals>>

\* Mutant: the dev server started for this launch is forgotten.
SpawnFailed_keepsDevServer(t) ==
  /\ pc[t] = "spawn"
  /\ Return(t)
  /\ UNCHANGED <<world, records>>

SpawnFailed(t) ==
  /\ pc[t] = "spawn"
  /\ KillDev(mine[t])
  /\ Return(t)
  /\ UNCHANGED <<launcher, serving, records>>

\* waitForCDPReady: the port answers, whoever serves it.
CdpReady(t) ==
  /\ pc[t] = "wait" /\ serving
  /\ Goto(t, "register")
  /\ UNCHANGED <<world, records, recoverMu, locals>>

\* Mutant: the launcher is started again for as long as the port is silent.
CdpNotReady_retries(t) ==
  /\ pc[t] = "wait"
  /\ launcher' = launcher \ {mine[t]}
  /\ Goto(t, "spawn")
  /\ UNCHANGED <<devUp, listening, serving, records, recoverMu, locals>>

\* Canceled, too late, or the launcher has exited, be it with status 0.
CdpNotReady(t) ==
  /\ pc[t] = "wait"
  /\ launcher' = launcher \ {mine[t]}
  /\ KillDev(mine[t])
  /\ MayStopServing
  /\ Return(t)
  /\ UNCHANGED records

\* The record of m is about to be replaced or deleted on behalf of attempt i.
Displace(m, i) == displaced' = displaced \cup ({registry[m]} \ {0, i})

\* registry.put replaces whatever is tracked for the manifest by now.
registerTrackedLaunch(t) ==
  /\ pc[t] = "register"
  /\ Displace(man[t], mine[t])
  /\ registry' = [registry EXCEPT ![man[t]] = mine[t]]
  /\ once' = [once EXCEPT ![mine[t]] = "live"]
  /\ Return(t)
  /\ UNCHANGED <<world, manifestOf, attempts, dev, acked>>
-----------------------------------------------------------------------------
(* addin.stop, StopAll and TrackedLaunch.Stop.                             *)

\* Nothing tracked for the manifest: the call returns at once and changes
\* nothing, so StopExcel stands for the other case.
StopExcel(t, m) ==
  /\ pc[t] = "idle" /\ registry[m] # 0
  /\ Goto(t, "stop")
  /\ queue' = [queue EXCEPT ![t] = <<registry[m]>>]
  /\ after' = [after EXCEPT ![t] = "idle"]
  /\ UNCHANGED <<world, records, recoverMu, man, mine>>

Tracked == {registry[m] : m \in Manifests} \ {0}

\* The victims in any order (Go map iteration).
Orders(S) == {s \in [1 .. Cardinality(S) -> S] : {s[k] : k \in DOMAIN s} = S}

\* The registry is swapped under its mutex, the victims stopped without it.
StopAll(t, next) ==
  /\ registry' = [m \in Manifests |-> 0]
  /\ queue' \in {[queue EXCEPT ![t] = s] : s \in Orders(Tracked)}
  /\ after' = [after EXCEPT ![t] = next]
  /\ Goto(t, "stop")
  /\ UNCHANGED <<world, once, manifestOf, attempts, dev, acked, displaced, mine>>

runStopAll(t) ==
  /\ pc[t] = "idle"
  /\ StopAll(t, "idle")
  /\ UNCHANGED <<recoverMu, man>>

Victim(t) == Head(queue[t])

\* Stop has returned: on to the next victim.
Pop(t) ==
  /\ queue' = [queue EXCEPT ![t] = Tail(queue[t])]
  /\ acked' = acked \cup {Victim(t)}
  /\ Goto(t, "stop")

StopsDone(t) ==
  /\ pc[t] = "stop" /\ queue[t] = <<>>
  /\ IF after[t] = "idle" THEN Return(t)
                          ELSE Goto(t, after[t]) /\ UNCHANGED <<recoverMu, locals>>
  /\ UNCHANGED <<world, records>>

\* stopOnce.Do: the first caller runs the sequence.
StopBegins(t) ==
  /\ pc[t] = "stop" /\ queue[t] # <<>>
  /\ once[Victim(t)] = "live"
  /\ once' = [once EXCEPT ![Victim(t)] = "running"]
  /\ Goto(t, "kill")
  /\ UNCHANGED <<world, registry, manifestOf, attempts, dev, acked, displaced,
                 recoverMu, locals>>

\* Mutant: a second caller does not wait for the first.
StopAwaited_early(t) ==
  /\ pc[t] = "stop" /\ queue[t] # <<>>
  /\ once[Victim(t)] # "live"
  /\ Pop(t)
  /\ UNCHANGED <<world, registry, once, manifestOf, attempts, dev, displaced,
                 recoverMu, man, mine, after>>

\* Later callers wait until it has ended.
StopAwaited(t) ==
  /\ pc[t] = "stop" /\ queue[t] # <<>>
  /\ once[Victim(t)] = "done"
  /\ Pop(t)
  /\ UNCHANGED <<world, registry, once, manifestOf, attempts, dev, displaced,
                 recoverMu, man, mine, after>>

\* stopWithLauncher is over (done, failed or timed out): kill what is left.
KillChildren(t) ==
  /\ pc[t] = "kill"
  /\ launcher' = launcher \ {Victim(t)}
  /\ KillDev(Victim(t))
  /\ MayStopServing
  /\ Goto(t, "forget")
  /\ UNCHANGED <<records, recoverMu, locals>>

\* Mutant: the record stays in the registry.
Forget_keepsRecord(t) ==
  /\ pc[t] = "forget"
  /\ once' = [once EXCEPT ![Victim(t)] = "done"]
  /\ Pop(t)
  /\ UNCHANGED <<world, registry, manifestOf, attempts, dev, displaced, recoverMu,
                 man, mine, after>>

\* registry.delete removes whatever is tracked for the manifest by now.
Forget(t) ==
  /\ pc[t] = "forget"
  /\ Displace(manifestOf[Victim(t)], Victim(t))
  /\ registry' = [registry EXCEPT ![manifestOf[Victim(t)]] = 0]
  /\ once' = [once EXCEPT ![Victim(t)] = "done"]
  /\ Pop(t)
  /\ UNCHANGED <<world, manifestOf, attempts, dev, recoverMu, man, mine, after>>
-----------------------------------------------------------------------------
(* Server.recoverConnection, entered when a dial has failed.               *)

RecoverCalled(t) ==
  /\ pc[t] = "idle"
  /\ Goto(t, "recover")
  /\ UNCHANGED <<world, records, recoverMu, locals>>

RecoverLock(t) ==
  /\ pc[t] = "recover" /\ recoverMu = NoThread
  /\ recoverMu' = t
  /\ Goto(t, "recovering")
  /\ UNCHANGED <<world, records, locals>>

\* Nothing is tracked, or a tracked endpoint answers again.
RecoverWithoutLaunch(t) ==
  /\ pc[t] = "recovering"
  /\ Tracked = {} \/ serving
  /\ Return(t)
  /\ UNCHANGED <<world, records>>

\* relaunchProject: project is taken from the list, then StopAll reads anew.
RecoverDecides(t) ==
  /\ pc[t] = "recovering" /\ Tracked # {}
  /\ \E m \in Manifests :
       registry[m] # 0 /\ man' = [man EXCEPT ![t] = m]
  /\ Goto(t, "relaunch")
  /\ UNCHANGED <<world, records, recoverMu, mine, queue, after>>

relaunchProject(t) ==
  /\ pc[t] = "relaunch"
  /\ StopAll(t, "lookup")
  /\ UNCHANGED <<recoverMu, man>>
-----------------------------------------------------------------------------
(* Outside the process.                                                    *)

LauncherExits(i) ==
  /\ i \in launcher
  /\ launcher' = launcher \ {i}
  /\ UNCHANGED <<devUp, listening, serving, records, recoverMu, pc, locals>>

DevListens(i) ==
  /\ i \in devUp /\ listening = 0
  /\ listening' = i
  /\ UNCHANGED <<launcher, devUp, serving, records, recoverMu, pc, locals>>

DevExits(i) ==
  /\ i \in devUp
  /\ devUp' = devUp \ {i}
  /\ listening' = IF listening = i THEN 0 ELSE listening
  /\ UNCHANGED <<launcher, serving, records, recoverMu, pc, locals>>

ExcelOpens ==
  /\ ~serving /\ launcher # {}
  /\ serving' = TRUE
  /\ UNCHANGED <<launcher, devUp, listening, records, recoverMu, pc, locals>>

ExcelCloses ==
  /\ serving
  /\ serving' = FALSE
  /\ UNCHANGED <<launcher, devUp, listening, records, recoverMu, pc, locals>>
-----------------------------------------------------------------------------
Call(t) ==
  \/ \E m \in Manifests : runLaunch(t, m)
  \/ \E m \in Manifests : runEnsureRunning(t, m)
  \/ \E m \in Manifests : StopExcel(t, m)
  \/ runStopAll(t)
  \/ RecoverCalled(t)

\* Once called, a thread runs on: its waits have deadlines.
Step(t) ==
  \/ Preexisting(t) \/ NotReachable(t) \/ NotTracked(t) \/ Reuse(t) \/ ClearStale(t)
  \/ ColdStartRefused(t) \/ WithoutOwnDevServer(t) \/ spawnDevServer(t)
  \/ DevServerReady(t) \/ DevServerNotReady(t) \/ spawnLauncher(t) \/ SpawnFailed(t)
  \/ CdpReady(t) \/ CdpNotReady(t) \/ registerTrackedLaunch(t)
  \/ StopsDone(t) \/ StopBegins(t) \/ StopAwaited(t) \/ KillChildren(t) \/ Forget(t)
  \/ RecoverWithoutLaunch(t) \/ RecoverDecides(t) \/ relaunchProject(t)

Environment ==
  \/ \E i \in Attempts : LauncherExits(i)
  \/ \E i \in Attempts : DevListens(i)
  \/ \E i \in Attempts : DevExits(i)
  \/ ExcelOpens
  \/ ExcelCloses

Next ==
  \/ \E t \in Threads : Call(t) \/ Step(t) \/ RecoverLock(t)
  \/ Environment

Spec == Init /\ [][Next]_vars

\* Goroutines run on; a Go mutex does not starve a waiter.
Fairness == \A t \in Threads : WF_vars(Step(t)) /\ SF_vars(RecoverLock(t))

LiveSpec == Spec /\ Fairness
-----------------------------------------------------------------------------
Starting == {"devwait", "spawn", "wait", "register"}
Labels == Starting \cup {"idle", "probe", "lookup", "cold", "stop", "kill", "forget",
                         "recover", "recovering", "relaunch"}

\* Every variable has its type; a thread carries the manifest it was called
\* for, its own attempt, the launches it has yet to stop and where it goes
\* afterwards (launcher.go:96-155, state.go:52-69).
TypeOK ==
  /\ registry \in [Manifests -> 0 .. attempts]
  /\ once \in [Attempts -> {"new", "live", "running", "done"}]
  /\ manifestOf \in [Attempts -> Manifests]
  /\ attempts \in 0 .. MaxAttempts
  /\ launcher \subseteq 1 .. attempts
  /\ dev \in [Attempts -> {"none", "own", "preexisting"}]
  /\ devUp \subseteq 1 .. attempts
  /\ listening \in devUp \cup {0, External}
  /\ serving \in BOOLEAN
  /\ recoverMu \in Threads \cup {NoThread}
  /\ acked \subseteq 1 .. attempts
  /\ displaced \subseteq 1 .. attempts
  /\ pc \in [Threads -> Labels]
  /\ man \in [Threads -> Manifests]
  /\ mine \in [Threads -> 0 .. attempts]
  /\ queue \in [Threads -> Seq(1 .. attempts)]
  /\ after \in [Threads -> {"idle", "cold", "lookup"}]

InFlight(i) == \E t \in Threads : mine[t] = i /\ pc[t] \in Starting

\* Some caller can reach the Stop of attempt i, or is on its way to it: the
\* registry names it, or it is among the launches that a thread is stopping.
Reachable(i) ==
  \/ registry[manifestOf[i]] = i
  \/ \E t \in Threads : \E k \in DOMAIN queue[t] : queue[t][k] = i

\* A child process runs without anyone who could stop it only when another
\* launch of the same manifest has overwritten its record (launcher.go:96, 255)
\* or the stop of one has deleted it (launcher.go:252).  In every other state
\* the call that starts it still runs, or its Stop can be reached: every error
\* return of the cold start cleans up (launcher.go:107-133, 223-241,
\* devserver.go:88-130), StopAll and a recovery stop all that they take out of
\* the registry (state.go:60-77).
NoLeakedChild ==
  \A i \in launcher \cup devUp : InFlight(i) \/ Reachable(i) \/ i \in displaced

\* The registry tracks live launches, one for each manifest (state.go:32-34):
\* whatever runs is being started, or tracked, or being stopped.
LiveLaunchIsTracked ==
  \A i \in launcher \cup devUp : InFlight(i) \/ Reachable(i)

\* When Stop returns, to its first caller or to any other, the launcher and the
\* dev server of that launch are dead (state.go:25-32, launcher.go:256-262).
StoppedIsDead == acked \cap (launcher \cup devUp) = {}

\* What the registry offers for reuse or for stopping can still be stopped: it
\* never names a launch whose stop sequence is over (state.go:52-91).
TrackedCanBeStopped ==
  \A m \in Manifests : registry[m] # 0 => once[registry[m]] \in {"live", "running"}

\* A dev server that the project's own shell started is left running, whatever
\* fails or is stopped (devserver.go:26-41, 48-51).
ExternalDevServerSurvives ==
  [][listening = External => listening' = External]_vars

\* Every tool call returns, although Stop blocks its later callers and the
\* recovery holds a mutex (state.go:25-32, server.go:242-244).
CallReturns == \A t \in Threads : pc[t] # "idle" ~> pc[t] = "idle"
=============================================================================
