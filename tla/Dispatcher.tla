----------------------------- MODULE Dispatcher -----------------------------
(***************************************************************************)
(* Tool calls of the server, the session pool they share                   *)
(* (internal/session/manager.go), the dispatcher that acquires a session   *)
(* for each and recovers once from a failed dial                           *)
(* (internal/tools/dispatcher.go), the recovery itself                     *)
(* (internal/mcp/server.go), and macro replay, a tool that holds a session *)
(* and dispatches other calls (internal/tools/macrotool/replay.go).        *)
(*                                                                         *)
(* A call looks its session up in one step and acquires it in later ones,  *)
(* so the pool may be emptied in between.  A session is the lock, the      *)
(* connection and the budget of Session.tla; here all calls ask for the    *)
(* same session id and endpoint, time stays within one ReconnectWindow,    *)
(* and a lock that becomes free goes to any of those that wait.            *)
(***************************************************************************)
EXTENDS Naturals

CONSTANTS
  Calls,         \* requests that the server handles concurrently
  Tools,         \* the kinds of tool each runs: "page", "launch", "macro"
  ReconnectMax,  \* dials that a session may make
  MaxSessions,   \* bound of the model: sessions that exist at a time
  NoCall

ASSUME ToolsAssumption == Tools \in [Calls -> SUBSET {"page", "launch", "macro"}]
ASSUME NoCallAssumption == NoCall \notin Calls
ASSUME BoundsAssumption == {ReconnectMax, MaxSessions} \subseteq Nat

VARIABLES
  pool,       \* m.sessions["default"], 0 when absent
  conn,       \* each session's connection: "none", "open", "dead"
  dials,      \* dials each session has made
  readers,    \* who holds each session's connMu for reading
  writer,     \* who holds it, or waits for its readers, for writing
  excel,      \* whether the Excel the server knows answers on its CDP port
  tracked,    \* whether the launch registry has an entry
  starter,    \* history: what started Excel last, "recovery" or "launch"
  missed,     \* history: the recovery whose probe a live Excel did not answer
  recoverMu,  \* who holds the server's recovery lock
  pc,         \* where each call is
  tool,       \* the tool it runs
  sess,       \* the session it looked up
  outer,      \* the session that a macro holds while a step of it runs
  victim,     \* the session that its DropAll removed from the pool
  retried     \* whether its one recovery has been used

sessionVars == <<conn, dials, readers, writer>>
excelVars == <<excel, tracked, starter, missed>>
callVars == <<pc, tool, sess, outer, victim, retried>>
vars == <<pool, sessionVars, excelVars, recoverMu, callVars>>

Sessions == 1 .. MaxSessions

\* The server has just started, or addin.launch has just launched Excel.
Init ==
  /\ pool = 0
  /\ conn = [s \in Sessions |-> "none"]
  /\ dials = [s \in Sessions |-> 0]
  /\ readers = [s \in Sessions |-> {}]
  /\ writer = [s \in Sessions |-> NoCall]
  /\ excel \in BOOLEAN /\ tracked \in BOOLEAN /\ starter = "launch"
  /\ missed = NoCall
  /\ recoverMu = NoCall
  /\ pc = [c \in Calls |-> "idle"]
  /\ tool = [c \in Calls |-> "none"]
  /\ sess = [c \in Calls |-> 0]
  /\ outer = [c \in Calls |-> 0]
  /\ victim = [c \in Calls |-> 0]
  /\ retried = [c \in Calls |-> FALSE]
-----------------------------------------------------------------------------
At(c, label) == pc[c] = label
Goto(c, label) == pc' = [pc EXCEPT ![c] = label]

\* A call and, while it runs a macro's step, that step hold locks separately.
Holder(c) == <<c, outer[c] # 0>>

\* Dispatch returns: to the client, or to the tool that dispatched the step.
Return(c, rest) ==
  /\ Goto(c, IF outer[c] = 0 THEN "idle" ELSE "using")
  /\ tool' = [tool EXCEPT ![c] = IF outer[c] = 0 THEN "none" ELSE rest]
  /\ sess' = [sess EXCEPT ![c] = outer[c]]
  /\ outer' = [outer EXCEPT ![c] = 0]
  /\ retried' = [retried EXCEPT ![c] = FALSE]

\* After a failure a macro dispatches no more steps, like a page tool.
Fail(c) == Return(c, "page")
Finish(c) == Return(c, tool[c])

Start(c, t) == Goto(c, IF t = "launch" THEN "launch" ELSE "get")

\* A request arrives.
Dispatch(c, t) ==
  /\ At(c, "idle")
  /\ Start(c, t)
  /\ tool' = [tool EXCEPT ![c] = t]
  /\ UNCHANGED <<pool, sessionVars, excelVars, recoverMu, sess, outer, victim, retried>>

\* A macro dispatches its next step on its own goroutine, its session held.
replayStep(c, t) ==
  /\ At(c, "using") /\ tool[c] = "macro" /\ outer[c] = 0
  /\ outer' = [outer EXCEPT ![c] = sess[c]]
  /\ Start(c, t)
  /\ UNCHANGED <<pool, sessionVars, excelVars, recoverMu, tool, sess, victim, retried>>

\* No call can reach the session any more: its number serves for a new one.
Unreachable(s) ==
  s # pool /\ \A c \in Calls : s \notin {sess[c], outer[c], victim[c]}

\* Manager.Get: look the session up, or create it (as long as MaxSessions, a
\* bound of the model, leaves a number for it).
Get(c) ==
  LET fresh == CHOOSE s \in Sessions : Unreachable(s) IN
  /\ At(c, "get")
  /\ pool = 0 => \E s \in Sessions : Unreachable(s)
  /\ IF pool # 0 THEN UNCHANGED <<pool, conn, dials>>
     ELSE /\ pool' = fresh
          /\ conn' = [conn EXCEPT ![fresh] = "none"]
          /\ dials' = [dials EXCEPT ![fresh] = 0]
  /\ sess' = [sess EXCEPT ![c] = pool']
  /\ Goto(c, "acquire")
  /\ UNCHANGED <<readers, writer, excelVars, recoverMu, tool, outer, victim, retried>>
-----------------------------------------------------------------------------
(* Session.Acquire, as the dispatcher sees it.                             *)

AcquireFast(c) ==
  LET s == sess[c] IN
  /\ At(c, "acquire") /\ writer[s] = NoCall
  /\ IF conn[s] = "open"
     THEN /\ readers' = [readers EXCEPT ![s] = @ \cup {Holder(c)}]
          /\ Goto(c, "using")
     ELSE Goto(c, "slow") /\ UNCHANGED readers
  /\ UNCHANGED <<pool, conn, dials, writer, excelVars, recoverMu, tool, sess, outer,
                 victim, retried>>

AcquireLock(c) ==
  LET s == sess[c] IN
  /\ At(c, "slow") /\ writer[s] = NoCall
  /\ writer' = [writer EXCEPT ![s] = c]
  /\ Goto(c, "dial")
  /\ UNCHANGED <<pool, conn, dials, readers, excelVars, recoverMu, tool, sess, outer,
                 victim, retried>>

\* Mutant: the readers that were there are not waited for.
Exclusive_ignoresReaders(c, s) == writer[s] = c

\* The write lock is held: the readers that were there have left.
Exclusive(c, s) == writer[s] = c /\ readers[s] = {}

canReconnectLocked(s) == dials[s] < ReconnectMax

\* The connection is usable now, or dialed.
Connected(c) ==
  LET s == sess[c] IN
  /\ At(c, "dial") /\ Exclusive(c, s)
  /\ \/ conn[s] = "open" /\ UNCHANGED <<conn, dials>>
     \/ /\ conn[s] # "open" /\ excel /\ canReconnectLocked(s)
        /\ conn' = [conn EXCEPT ![s] = "open"]
        /\ dials' = [dials EXCEPT ![s] = @ + 1]
  /\ writer' = [writer EXCEPT ![s] = NoCall]
  /\ Goto(c, "downgrade")
  /\ UNCHANGED <<pool, readers, excelVars, recoverMu, tool, sess, outer, victim, retried>>

\* The read lock is asked for after the write lock is gone.
downgradeToReadLock(c) ==
  LET s == sess[c] IN
  /\ At(c, "downgrade") /\ writer[s] = NoCall
  /\ readers' = [readers EXCEPT ![s] = @ \cup {Holder(c)}]
  /\ Goto(c, "using")
  /\ UNCHANGED <<pool, conn, dials, writer, excelVars, recoverMu, tool, sess, outer,
                 victim, retried>>

\* ErrDialFailed: also a live Excel can miss the deadline.  One recovery.
DialFailed(c) ==
  LET s == sess[c] IN
  /\ At(c, "dial") /\ Exclusive(c, s)
  /\ conn[s] # "open" /\ canReconnectLocked(s)
  /\ conn' = [conn EXCEPT ![s] = "none"]
  /\ dials' = [dials EXCEPT ![s] = @ + 1]
  /\ writer' = [writer EXCEPT ![s] = NoCall]
  /\ IF retried[c] THEN Fail(c)
     ELSE /\ Goto(c, "recover")
          /\ sess' = [sess EXCEPT ![c] = 0]
          /\ UNCHANGED <<tool, outer, retried>>
  /\ UNCHANGED <<pool, readers, excelVars, recoverMu, victim>>

\* ErrReconnectBudgetExhausted is returned, not recovered from.
BudgetExhausted(c) ==
  LET s == sess[c] IN
  /\ At(c, "dial") /\ Exclusive(c, s)
  /\ conn[s] # "open" /\ ~canReconnectLocked(s)
  /\ conn' = [conn EXCEPT ![s] = "none"]
  /\ writer' = [writer EXCEPT ![s] = NoCall]
  /\ Fail(c)
  /\ UNCHANGED <<pool, dials, readers, excelVars, recoverMu, victim>>

\* The tool is done.
Release(c) ==
  LET s == sess[c] IN
  /\ At(c, "using")
  /\ readers' = [readers EXCEPT ![s] = @ \ {Holder(c)}]
  /\ Finish(c)
  /\ UNCHANGED <<pool, conn, dials, writer, excelVars, recoverMu, victim>>
-----------------------------------------------------------------------------
(* Recovery, and the tools that launch Excel.                              *)

\* Mutant: recoveries are not serialized.
recoverConnection_atOnce(c) ==
  /\ At(c, "recover")
  /\ recoverMu' = c
  /\ Goto(c, "probe")
  /\ UNCHANGED <<pool, sessionVars, excelVars, tool, sess, outer, victim, retried>>

recoverConnection(c) ==
  /\ At(c, "recover") /\ recoverMu = NoCall
  /\ recoverMu' = c
  /\ Goto(c, "probe")
  /\ UNCHANGED <<pool, sessionVars, excelVars, tool, sess, outer, victim, retried>>

Unserialize(c) == recoverMu' = IF recoverMu = c THEN NoCall ELSE recoverMu

\* No tracked launch: the error of the dial is returned.
NothingToRecover(c) ==
  /\ At(c, "probe") /\ ~tracked
  /\ Unserialize(c)
  /\ Fail(c)
  /\ UNCHANGED <<pool, sessionVars, excelVars, victim>>

\* What a probe may say.  It has 1500 ms, and no more than the context of the
\* request leaves it, so that a live Excel may miss it.
Answers == IF excel THEN BOOLEAN ELSE {FALSE}

\* The tracked launch is kept, or taken for dead and relaunched.
reuseLiveLaunch(c) ==
  /\ At(c, "probe") /\ tracked
  /\ \E answers \in Answers :
       /\ Goto(c, IF answers THEN "drop" ELSE "stopAll")
       /\ missed' = IF excel /\ ~answers THEN c ELSE NoCall
  /\ UNCHANGED <<pool, sessionVars, excel, tracked, starter, recoverMu, tool, sess, outer,
                 victim, retried>>

Die == [s \in Sessions |-> IF conn[s] = "open" THEN "dead" ELSE conn[s]]

\* relaunchProject stops what is tracked, and calls LaunchExcel.
StopAll(c) ==
  /\ At(c, "stopAll")
  /\ tracked' = FALSE
  /\ IF tracked THEN conn' = Die /\ excel' = FALSE
     ELSE UNCHANGED <<conn, excel>>
  /\ Goto(c, "launch")
  /\ UNCHANGED <<pool, dials, readers, writer, starter, missed, recoverMu, tool, sess, outer,
                 victim, retried>>

\* LaunchExcel, for addin.launch or a recovery: a launch that answers is
\* reused, any other is stopped and its record cleared.
reuseTrackedLaunch(c) ==
  /\ At(c, "launch")
  /\ \/ /\ tracked /\ TRUE \in Answers
        /\ Goto(c, "drop")
        /\ UNCHANGED <<conn, excel, tracked>>
     \/ /\ ~tracked
        /\ Goto(c, "coldStart")
        /\ UNCHANGED <<conn, excel, tracked>>
     \/ /\ tracked
        /\ Goto(c, "coldStart")
        /\ conn' = Die /\ excel' = FALSE /\ tracked' = FALSE
  /\ UNCHANGED <<pool, dials, readers, writer, starter, missed, recoverMu, tool, sess, outer,
                 victim, retried>>

coldStartLaunch(c) ==
  /\ At(c, "coldStart")
  /\ excel' = TRUE /\ tracked' = TRUE
  /\ starter' = IF recoverMu = c THEN "recovery" ELSE "launch"
  /\ Goto(c, "drop")
  /\ UNCHANGED <<pool, sessionVars, missed, recoverMu, tool, sess, outer, victim, retried>>

\* A recovery that cannot launch returns the error of the dial.
LaunchFailed(c) ==
  /\ At(c, "coldStart")
  /\ Unserialize(c)
  /\ Fail(c)
  /\ UNCHANGED <<pool, sessionVars, excelVars, victim>>

\* Mutant: the pool keeps the session that is about to be closed.
DropAll_keepsPool(c) ==
  /\ At(c, "drop")
  /\ victim' = [victim EXCEPT ![c] = pool]
  /\ Goto(c, "dropLock")
  /\ UNCHANGED <<pool, sessionVars, excelVars, recoverMu, tool, sess, outer, retried>>

\* DropAll takes the sessions out of the pool, and then closes them.
DropAll(c) ==
  /\ At(c, "drop")
  /\ victim' = [victim EXCEPT ![c] = pool]
  /\ pool' = 0
  /\ Goto(c, "dropLock")
  /\ UNCHANGED <<sessionVars, excelVars, recoverMu, tool, sess, outer, retried>>

DropLock(c) ==
  LET v == victim[c] IN
  /\ At(c, "dropLock") /\ v # 0 /\ writer[v] = NoCall
  /\ writer' = [writer EXCEPT ![v] = c]
  /\ Goto(c, "dropClose")
  /\ UNCHANGED <<pool, conn, dials, readers, excelVars, recoverMu, tool, sess, outer,
                 victim, retried>>

DropClose(c) ==
  LET v == victim[c] IN
  /\ At(c, "dropClose") /\ Exclusive(c, v)
  /\ conn' = [conn EXCEPT ![v] = "none"]
  /\ writer' = [writer EXCEPT ![v] = NoCall]
  /\ victim' = [victim EXCEPT ![c] = 0]
  /\ Goto(c, "dropLock")
  /\ UNCHANGED <<pool, dials, readers, excelVars, recoverMu, tool, sess, outer, retried>>

\* A recovery goes on with a fresh session, a launch is done.
Dropped(c) ==
  /\ At(c, "dropLock") /\ victim[c] = 0
  /\ Unserialize(c)
  /\ IF recoverMu = c
     THEN /\ retried' = [retried EXCEPT ![c] = TRUE]
          /\ Goto(c, "get")
          /\ UNCHANGED <<tool, sess, outer>>
     ELSE Finish(c)
  /\ UNCHANGED <<pool, sessionVars, excelVars, victim>>

\* The user closes Excel: every connection to it dies.
ExcelDies ==
  /\ excel
  /\ excel' = FALSE
  /\ conn' = Die
  /\ UNCHANGED <<pool, dials, readers, writer, tracked, starter, missed, recoverMu, callVars>>
-----------------------------------------------------------------------------
LockStep(c) ==
  \/ AcquireFast(c) \/ AcquireLock(c) \/ downgradeToReadLock(c)
  \/ recoverConnection(c) \/ DropLock(c)

Step(c) ==
  \/ Get(c) \/ Connected(c) \/ DialFailed(c) \/ BudgetExhausted(c)
  \/ NothingToRecover(c) \/ reuseLiveLaunch(c) \/ StopAll(c)
  \/ reuseTrackedLaunch(c) \/ coldStartLaunch(c) \/ LaunchFailed(c)
  \/ DropAll(c) \/ DropClose(c) \/ Dropped(c)

Next ==
  \/ \E c \in Calls :
       \/ \E t \in Tools[c] : Dispatch(c, t)
       \/ \E t \in {"page", "launch"} : replayStep(c, t)
       \/ Step(c) \/ LockStep(c) \/ Release(c)
  \/ ExcelDies

Spec == Init /\ [][Next]_vars

\* Every call runs on; a dial and a launch end, if only by their timeouts; the
\* locks are handed to whoever waits (sync.Mutex and RWMutex starve nobody).  A
\* macro has finitely many entries.  Nothing makes a tool end that waits for
\* the browser: the context of a request has no deadline.
Fairness ==
  \A c \in Calls :
    /\ WF_vars(Step(c)) /\ SF_vars(LockStep(c))
    /\ SF_vars(tool[c] = "macro" /\ outer[c] = 0 /\ Release(c))

LiveSpec == Spec /\ Fairness
-----------------------------------------------------------------------------
\* Concurrent dial failures share one relaunch (server.go:234-235): a recovery
\* stops a live Excel that another recovery has started only if this Excel did
\* not answer its own probe, made after the other recovery had ended.
SharedRelaunch ==
  [][\A c \in Calls :
       StopAll(c) /\ tracked /\ excel /\ starter = "recovery" => missed = c]_vars

\* A dropped session cannot be looked up while, or after, it is closed, and
\* one DropAll closes it (manager.go:73-81).
DroppedIsGone ==
  \A c \in Calls :
    victim[c] # 0 => victim[c] # pool /\ \A d \in Calls \ {c} : victim[d] # victim[c]

\* No DropAll closes, and no Acquire replaces, the connection of the session
\* that a call holds, although the session may have left the pool under the
\* call (dispatcher.go:170-178); it can only die.
UserKeepsConnection ==
  [][\A c \in Calls :
       At(c, "using") /\ At(c, "using")' => conn'[sess[c]] \in {conn[sess[c]], "dead"}]_vars

\* The tool of a call, or of a macro's step, is at work.
Working(c) == At(c, "using") /\ (tool[c] # "macro" \/ outer[c] # 0)

\* Every tool that runs ends sometime, which nothing in the code sees to.
ToolsEnd == \A c \in Calls : []<>~Working(c)

\* A macro "dispatches each recorded entry sequentially" (replay.go:13) and,
\* its steps done, returns, as long as tools end.
MacroReturns == ToolsEnd => \A c \in Calls : tool[c] = "macro" ~> At(c, "idle")
=============================================================================
