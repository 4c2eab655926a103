------------------------------- MODULE Session -------------------------------
(***************************************************************************)
(* One pooled session (internal/session/session.go): the CDP connection    *)
(* that several tool calls share, the read/write lock that guards it, the  *)
(* reconnect budget, and the state that is cached per connection (sticky   *)
(* selection, default page, snapshot, enabled domains).                    *)
(*                                                                         *)
(* A thread is a goroutine of the server.  It acquires the connection for  *)
(* some endpoint, uses it and releases it, or it closes the session        *)
(* (Manager.Drop, DropAll, Close and the idle collector all end in         *)
(* Session.Close).  Acquire is not atomic: its fast path, the slow path    *)
(* under the write lock, the dial and the change back to a read lock are   *)
(* separate steps, and a connection can die between any two.               *)
(*                                                                         *)
(* Connections are numbered in the order they were dialed; 0 is nil.       *)
(* GoRWMutex declares connMu: readers, writer, barred.                     *)
(***************************************************************************)
EXTENDS GoRWMutex, Naturals

CONSTANTS
  Threads,        \* goroutines that call into the session
  Endpoints,      \* the webview2.Config values that callers ask for
  NoEndpoint,     \* the zero webview2.Config: neither URL is set
  Slots,          \* the per-connection fields that dropConnLocked resets
  ReconnectMax,   \* Config.ReconnectMax
  MaxConns        \* bound of the model: connections ever dialed

ASSUME NoThreadAssumption == NoThread \notin Threads
ASSUME SlotsAssumption == Slots \subseteq {"selection", "default", "snapshot", "enabled"}
ASSUME BudgetAssumption == ReconnectMax \in Nat \ {0}
ASSUME BoundAssumption == MaxConns \in Nat

VARIABLES
  conn,        \* s.conn: the current connection, or 0
  epConfig,    \* s.epConfig: the endpoint recorded by the last slow path
  reconnects,  \* the entries of s.reconnects younger than ReconnectWindow
  cache,       \* stateMu's fields: the connection each one was filled from
  open,        \* connections whose read pump runs (Done() not closed)
  dialed,      \* connections dialed so far
  dialedFor,   \* history: the endpoint each connection was dialed for
  pc,          \* where each thread is
  want,        \* the endpoint a thread passed to Acquire
  handle,      \* the connection Acquire returned, or is about to return
  slot         \* the field a thread is about to store into

connVars  == <<conn, epConfig, reconnects, open, dialed, dialedFor>>
vars == <<readers, writer, barred, conn, epConfig, reconnects, cache, open,
          dialed, dialedFor, pc, want, handle, slot>>

ConnIds == 0 .. MaxConns

Init ==
  /\ LockInit
  /\ conn = 0
  /\ epConfig = NoEndpoint
  /\ reconnects = 0
  /\ cache = [s \in Slots |-> 0]
  /\ open = {}
  /\ dialed = 0
  /\ dialedFor = [c \in ConnIds |-> NoEndpoint]
  /\ pc = [t \in Threads |-> "idle"]
  /\ want = [t \in Threads |-> NoEndpoint]
  /\ handle = [t \in Threads |-> 0]
  /\ slot = [t \in Threads |-> "none"]

Goto(t, label) == pc' = [pc EXCEPT ![t] = label]
-----------------------------------------------------------------------------
(* The helpers that the code calls with connMu held.                       *)

\* Mutant: whoever asks, the live connection is returned.
connUsableLocked_anyEndpoint(ep) == conn # 0 /\ conn \in open

connUsableLocked(ep) == conn # 0 /\ epConfig = ep /\ conn \in open

\* The zero endpoint, which a server started without one dials by discovery,
\* counts as "nothing dialed yet", so leaving it is no change.
endpointChangedLocked(ep) == epConfig # ep /\ epConfig # NoEndpoint

\* Mutant: a live connection to another endpoint is kept.
mustDrop_ignoresEndpoint(ep) == conn # 0 /\ conn \notin open

mustDrop(ep) == endpointChangedLocked(ep) \/ (conn # 0 /\ conn \notin open)

\* Mutant: the cached state survives the connection it was learned from.
dropConnLocked_keepsCache ==
  /\ open' = open \ {conn}
  /\ conn' = 0
  /\ UNCHANGED cache

\* Close the connection and forget everything learned through it.
dropConnLocked ==
  /\ open' = open \ {conn}
  /\ conn' = 0
  /\ cache' = [s \in Slots |-> 0]

canReconnectLocked == reconnects < ReconnectMax
-----------------------------------------------------------------------------
(* Acquire.                                                                *)

Acquire(t, ep) ==
  /\ pc[t] = "idle"
  /\ Goto(t, "fast")
  /\ want' = [want EXCEPT ![t] = ep]
  /\ RLock(t)
  /\ UNCHANGED <<connVars, cache, handle, slot>>

FastHit(t) ==
  /\ pc[t] = "fast" /\ HasRead(t)
  /\ connUsableLocked(want[t])
  /\ Goto(t, "using")
  /\ handle' = [handle EXCEPT ![t] = conn]
  /\ want' = [want EXCEPT ![t] = NoEndpoint]
  /\ UNCHANGED <<lockVars, connVars, cache, slot>>

FastMiss(t) ==
  /\ pc[t] = "fast" /\ HasRead(t)
  /\ ~connUsableLocked(want[t])
  /\ Goto(t, "lock")
  /\ RUnlock(t)
  /\ UNCHANGED <<connVars, cache, want, handle, slot>>

SlowLock(t) ==
  /\ pc[t] = "lock"
  /\ Goto(t, "slow")
  /\ Lock(t)
  /\ UNCHANGED <<connVars, cache, want, handle, slot>>

\* Another thread dialed in the gap between the two locks.
SlowHit(t) ==
  /\ pc[t] = "slow" /\ HasWrite(t)
  /\ connUsableLocked(want[t])
  /\ Goto(t, "downgrade")
  /\ handle' = [handle EXCEPT ![t] = conn]
  /\ Unlock(t)
  /\ want' = [want EXCEPT ![t] = NoEndpoint]
  /\ UNCHANGED <<connVars, cache, slot>>

\* Mutant: the write lock is given up before the dial.
refreshEndpointLocked_unlocks(t) ==
  /\ pc[t] = "slow" /\ HasWrite(t)
  /\ ~connUsableLocked(want[t])
  /\ IF mustDrop(want[t]) THEN dropConnLocked ELSE UNCHANGED <<open, conn, cache>>
  /\ epConfig' = want[t]
  /\ Goto(t, "dial")
  /\ Unlock(t)
  /\ UNCHANGED <<reconnects, dialed, dialedFor, want, handle, slot>>

refreshEndpointLocked(t) ==
  /\ pc[t] = "slow" /\ HasWrite(t)
  /\ ~connUsableLocked(want[t])
  /\ IF mustDrop(want[t]) THEN dropConnLocked ELSE UNCHANGED <<open, conn, cache>>
  /\ epConfig' = want[t]
  /\ Goto(t, "dial")
  /\ UNCHANGED <<lockVars, reconnects, dialed, dialedFor, want, handle, slot>>

\* Mutant: wait for the window to slide instead of returning the error.
BudgetExhausted_waits(t) ==
  /\ pc[t] = "dial"
  /\ ~canReconnectLocked
  /\ UNCHANGED vars

BudgetExhausted(t) ==
  /\ pc[t] = "dial"
  /\ ~canReconnectLocked
  /\ Goto(t, "idle")
  /\ Unlock(t)
  /\ want' = [want EXCEPT ![t] = NoEndpoint]
  /\ UNCHANGED <<connVars, cache, handle, slot>>

DialFailed(t) ==
  /\ pc[t] = "dial"
  /\ canReconnectLocked
  /\ reconnects' = reconnects + 1
  /\ Goto(t, "idle")
  /\ Unlock(t)
  /\ want' = [want EXCEPT ![t] = NoEndpoint]
  /\ UNCHANGED <<conn, epConfig, open, dialed, dialedFor, cache, handle, slot>>

\* The new connection is stored over whatever refreshEndpointLocked has left.
Dialed(t) ==
  /\ pc[t] = "dial"
  /\ canReconnectLocked
  /\ dialed < MaxConns
  /\ dialed' = dialed + 1
  /\ dialedFor' = [dialedFor EXCEPT ![dialed'] = want[t]]
  /\ conn' = dialed'
  /\ open' = open \cup {dialed'}
  /\ reconnects' = reconnects + 1
  /\ handle' = [handle EXCEPT ![t] = dialed']
  /\ Goto(t, "downgrade")
  /\ Unlock(t)
  /\ want' = [want EXCEPT ![t] = NoEndpoint]
  /\ UNCHANGED <<epConfig, cache, slot>>

\* The write lock is gone and the read lock not yet asked for.
downgradeToReadLock(t) ==
  /\ pc[t] = "downgrade"
  /\ Goto(t, "relock")
  /\ RLock(t)
  /\ UNCHANGED <<connVars, cache, want, handle, slot>>

Acquired(t) ==
  /\ pc[t] = "relock" /\ HasRead(t)
  /\ Goto(t, "using")
  /\ UNCHANGED <<lockVars, connVars, cache, want, handle, slot>>

Release(t) ==
  /\ pc[t] = "using"
  /\ Goto(t, "idle")
  /\ handle' = [handle EXCEPT ![t] = 0]
  /\ RUnlock(t)
  /\ UNCHANGED <<connVars, cache, want, slot>>
-----------------------------------------------------------------------------
(* What a tool does between Acquire and release: a CDP command answered on *)
(* its own connection, then the result stored in the session.              *)

\* SetSelected, SetDefaultSelection, SetSnapshot and EnsureEnabled all follow
\* a Send that succeeded; EnsureEnabled sends only when not yet enabled.
SendOk(t, s) ==
  /\ pc[t] = "using"
  /\ handle[t] \in open
  /\ s = "enabled" => cache[s] = 0
  /\ slot' = [slot EXCEPT ![t] = s]
  /\ Goto(t, "store")
  /\ UNCHANGED <<lockVars, connVars, cache, want, handle>>

Store(t) ==
  /\ pc[t] = "store"
  /\ cache' = [cache EXCEPT ![slot[t]] = handle[t]]
  /\ slot' = [slot EXCEPT ![t] = "none"]
  /\ Goto(t, "using")
  /\ UNCHANGED <<lockVars, connVars, want, handle>>

\* InvalidateSelection and ClearDefaultSelection.
Clear(t, s) ==
  /\ pc[t] = "using"
  /\ cache' = [cache EXCEPT ![s] = 0]
  /\ UNCHANGED <<lockVars, connVars, pc, want, handle, slot>>
-----------------------------------------------------------------------------
(* Close, and the world outside.                                           *)

Close(t) ==
  /\ pc[t] = "idle"
  /\ Goto(t, "closeLock")
  /\ UNCHANGED <<lockVars, connVars, cache, want, handle, slot>>

CloseLock(t) ==
  /\ pc[t] = "closeLock"
  /\ Goto(t, "close")
  /\ Lock(t)
  /\ UNCHANGED <<connVars, cache, want, handle, slot>>

\* Mutant: Close does not wait for the readers.
Closed_noWait(t) ==
  /\ pc[t] = "close" /\ writer = t
  /\ dropConnLocked
  /\ Goto(t, "idle")
  /\ Unlock(t)
  /\ UNCHANGED <<epConfig, reconnects, dialed, dialedFor, want, handle, slot>>

Closed(t) ==
  /\ pc[t] = "close" /\ HasWrite(t)
  /\ dropConnLocked
  /\ Goto(t, "idle")
  /\ Unlock(t)
  /\ UNCHANGED <<epConfig, reconnects, dialed, dialedFor, want, handle, slot>>

\* The browser goes away: the read pump ends and Done() is closed.
ConnDies(c) ==
  /\ c \in open
  /\ open' = open \ {c}
  /\ UNCHANGED <<lockVars, conn, epConfig, reconnects, cache, dialed, dialedFor, pc,
                 want, handle, slot>>

\* The oldest attempts leave the window, so canReconnectLocked prunes them.
WindowSlides ==
  /\ reconnects > 0
  /\ reconnects' \in 0 .. reconnects - 1
  /\ UNCHANGED <<lockVars, conn, epConfig, open, dialed, dialedFor, cache, pc, want,
                 handle, slot>>
-----------------------------------------------------------------------------
\* The steps a goroutine takes without being asked to: once in Acquire or
\* Close it runs on.
AcquireStep(t) ==
  \/ FastHit(t) \/ FastMiss(t) \/ SlowLock(t) \/ SlowHit(t)
  \/ refreshEndpointLocked(t) \/ BudgetExhausted(t)
  \/ DialFailed(t) \/ Dialed(t) \/ downgradeToReadLock(t) \/ Acquired(t)

CloseStep(t) == CloseLock(t) \/ Closed(t)

UseStep(t) ==
  \/ \E s \in Slots : SendOk(t, s)
  \/ Store(t)
  \/ \E s \in Slots \cap {"selection", "default"} : Clear(t, s)

Next ==
  \/ \E t \in Threads :
       \/ \E ep \in Endpoints : Acquire(t, ep)
       \/ AcquireStep(t)
       \/ UseStep(t)
       \/ Release(t)
       \/ Close(t)
       \/ CloseStep(t)
  \/ \E c \in open : ConnDies(c)
  \/ WindowSlides

Spec == Init /\ [][Next]_vars

\* Every goroutine runs on; a dial ends, if only by the timeouts of the HTTP
\* client and of the websocket handshake; the inner mutex of connMu does not
\* starve a writer, hence strong fairness for the two calls of Lock.  Nothing
\* makes a tool call end: its context has no deadline.
Fairness ==
  \A t \in Threads :
    /\ WF_vars(AcquireStep(t)) /\ WF_vars(CloseStep(t)) /\ WF_vars(Store(t))
    /\ SF_vars(SlowLock(t)) /\ SF_vars(CloseLock(t))

LiveSpec == Spec /\ Fairness
-----------------------------------------------------------------------------
Labels == {"idle", "fast", "lock", "slow", "dial", "downgrade",
           "relock", "using", "store", "closeLock", "close"}

\* Every variable has its type; the record of attempts (session.go:408-422)
\* never outgrows the budget and no connection is open that was not dialed.
TypeOK ==
  /\ readers \subseteq Threads
  /\ writer \in Threads \cup {NoThread}
  /\ barred \subseteq Threads
  /\ dialed \in ConnIds
  /\ dialedFor \in [ConnIds -> Endpoints \cup {NoEndpoint}]
  /\ conn \in 0 .. dialed
  /\ epConfig \in Endpoints \cup {NoEndpoint}
  /\ reconnects \in 0 .. ReconnectMax
  /\ cache \in [Slots -> 0 .. dialed]
  /\ open \subseteq 1 .. dialed
  /\ pc \in [Threads -> Labels]
  /\ want \in [Threads -> Endpoints \cup {NoEndpoint}]
  /\ handle \in [Threads -> 0 .. dialed]
  /\ slot \in [Threads -> Slots \cup {"none"}]

\* The threads that decide about, or change, the connection.
Writing == {t \in Threads : pc[t] = "dial"}
\* The threads between Acquire's return and release.
Using == {t \in Threads : pc[t] \in {"using", "store"}}

\* Dialing excludes everything else: while one thread is in dialLocked
\* (session.go:209), no other is, and no tool uses the session.
DialExcludes ==
  \A t \in Writing : Writing = {t} /\ Using = {}

\* The connections a dial has stored over leak: no later drop closes them.
\* Only a connection dialed for the zero endpoint can: whatever else is open
\* is s.conn (session.go:191, 202, 221, 344).
NoConnectionLeak ==
  \A c \in open \ {conn} : dialedFor[c] = NoEndpoint

\* The selection, default page, snapshot and enabled domains that a tool reads
\* were learned through the connection the session holds now, never through
\* one it dropped; but a connection dialed for the zero endpoint that was
\* stored over leaves its state behind, and a tool that got it before goes on
\* storing (session.go:202, 221, 229-233, 349-356, 362-376).
CacheMatchesConnection ==
  \A s \in Slots :
    cache[s] \in {0, conn} \/ dialedFor[cache[s]] = NoEndpoint

\* The connection that Acquire returns was dialed for the endpoint the caller
\* asked for, or for the zero endpoint: when the dial to a named endpoint
\* fails, the connection of the zero endpoint stays and is taken for it
\* (session.go:159, 169, 185, 195).
EndpointIsHonoured ==
  [][\A t \in Threads :
       pc[t] \in {"fast", "slow", "dial"} /\ handle'[t] # 0
         => dialedFor'[handle'[t]] \in {want[t], NoEndpoint}]_vars

\* A tool call that has acquired keeps its connection until it releases: no
\* reconnect, Close or DropAll replaces s.conn under it (session.go:82-88).
HeldConnectionIsKept ==
  [][Using \cap Using' # {} => conn' = conn]_vars

Acquiring(t) == pc[t] \in Labels \ {"idle", "using", "store", "closeLock", "close"}

\* Every tool call ends sometime, which neither the session nor the
\* dispatcher sees to.
CallsEnd == \A t \in Threads : []<>(pc[t] \notin {"using", "store"})

\* As long as tool calls end, every Acquire returns, with a connection or an
\* error (session.go:154-181), and every Close gets the write lock and
\* returns (session.go:334-338), although calls keep arriving.
AcquireAndCloseReturn ==
  CallsEnd =>
    \A t \in Threads :
      /\ Acquiring(t) ~> pc[t] \in {"idle", "using"}
      /\ pc[t] = "closeLock" ~> pc[t] = "idle"
=============================================================================
