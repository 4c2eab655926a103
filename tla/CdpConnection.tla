---------------------------- MODULE CdpConnection ----------------------------
(***************************************************************************)
(* One WebSocket to a CDP endpoint (internal/cdp/connection.go), shared by *)
(* goroutines that send commands, goroutines that read subscriptions, one  *)
(* that may call Close, and the read loop.                                 *)
(*                                                                         *)
(* Steps are cut where the code leaves c.mu: the read loop looks a         *)
(* response up under the lock and hands it over outside; it copies the     *)
(* subscribers of an event under the lock and sends outside; closeWithErr  *)
(* detaches both maps under the lock and closes the channels outside.      *)
(*                                                                         *)
(* A Go channel is modelled by whether it holds a response and how often   *)
(* it was closed; a send on a closed channel panics.                       *)
(***************************************************************************)
EXTENDS Naturals, FiniteSets

CONSTANTS
  Callers,      \* goroutines that call Send
  Subs,         \* subscriptions
  Methods,      \* CDP event methods
  MethodsOf,    \* the methods each subscription asks for
  MaxIds        \* bound of the model: commands ever sent

ASSUME MethodsAssumption == MethodsOf \in [Subs -> SUBSET Methods]
ASSUME IdsAssumption == MaxIds \in Nat

VARIABLES
  closed,       \* c.closed
  cause,        \* why: c.closedErr
  wsUp,         \* the WebSocket works
  nextID,       \* c.nextID
  pending,      \* the ids in c.pending
  holds,        \* ids whose response channel holds a frame
  chanCloses,   \* how often each response channel was closed
  subs,         \* c.subs
  subState,     \* whether Subscribe and cancel were called
  subCloses,    \* how often each subscriber's channel was closed
  wire,         \* commands the browser has and has not answered
  loop,         \* the read loop: where it is, ...
  loopId,       \* ... the response it is handing over, ...
  loopSubs,     \* ... the subscribers it has yet to send the event to
  closing,      \* the goroutine in closeWithErr past markClosed, and its stage
  victims,      \* the pending ids and subscribers it detached
  pc, myId, result  \* callers of Send

connVars == <<closed, cause>>
chanVars == <<nextID, pending, holds, chanCloses>>
subVars  == <<subs, subState, subCloses>>
loopVars == <<loop, loopId, loopSubs>>
closeVars == <<closing, victims>>
callVars == <<pc, myId, result>>
vars == <<connVars, wsUp, chanVars, subVars, wire, loopVars, closeVars, callVars>>

Ids == 1 .. MaxIds
NoOne == [by |-> "none", stage |-> "none"]

Init ==
  /\ closed = FALSE /\ cause = "none" /\ wsUp = TRUE
  /\ nextID = 0 /\ pending = {} /\ holds = {}
  /\ chanCloses = [i \in Ids |-> 0]
  /\ subs = [m \in Methods |-> {}]
  /\ subState = [s \in Subs |-> "new"]
  /\ subCloses = [s \in Subs |-> 0]
  /\ wire = {}
  /\ loop = "read" /\ loopId = 0 /\ loopSubs = {}
  /\ closing = NoOne
  /\ victims = [ids |-> {}, subs |-> {}]
  /\ pc = [c \in Callers |-> "idle"]
  /\ myId = [c \in Callers |-> 0]
  /\ result = [c \in Callers |-> "none"]

Return(c, outcome) ==
  /\ pc' = [pc EXCEPT ![c] = "idle"]
  /\ myId' = [myId EXCEPT ![c] = 0]
  /\ result' = [result EXCEPT ![c] = outcome]

Goto(c, label) == pc' = [pc EXCEPT ![c] = label] /\ UNCHANGED <<myId, result>>
-----------------------------------------------------------------------------
(* Send.                                                                   *)

\* Mutant: no check for a closed connection.
registerPending_unchecked(c) ==
  /\ pc[c] = "idle" /\ nextID < MaxIds
  /\ nextID' = nextID + 1
  /\ pending' = pending \cup {nextID'}
  /\ pc' = [pc EXCEPT ![c] = "write"]
  /\ myId' = [myId EXCEPT ![c] = nextID']
  /\ UNCHANGED <<connVars, wsUp, holds, chanCloses, subVars, wire, loopVars, closeVars, result>>

registerPending(c) ==
  /\ pc[c] = "idle" /\ ~closed /\ nextID < MaxIds
  /\ nextID' = nextID + 1
  /\ pending' = pending \cup {nextID'}
  /\ pc' = [pc EXCEPT ![c] = "write"]
  /\ myId' = [myId EXCEPT ![c] = nextID']
  /\ UNCHANGED <<connVars, wsUp, holds, chanCloses, subVars, wire, loopVars, closeVars, result>>

SendRefused(c) ==
  /\ pc[c] = "idle" /\ closed
  /\ Return(c, "closed")
  /\ UNCHANGED <<connVars, wsUp, chanVars, subVars, wire, loopVars, closeVars>>

WriteOk(c) ==
  /\ pc[c] = "write" /\ wsUp
  /\ wire' = wire \cup {myId[c]}
  /\ Goto(c, "wait")
  /\ UNCHANGED <<connVars, wsUp, chanVars, subVars, loopVars, closeVars>>

\* The command cannot be marshalled, or the WebSocket refuses it.
WriteFailed(c) ==
  /\ pc[c] = "write"
  /\ Goto(c, "writeFailed")
  /\ UNCHANGED <<connVars, wsUp, chanVars, subVars, wire, loopVars, closeVars>>

AwaitFrame(c) ==
  /\ pc[c] = "wait" /\ myId[c] \in holds
  /\ holds' = holds \ {myId[c]}
  /\ Return(c, "ok")
  /\ UNCHANGED <<connVars, wsUp, nextID, pending, chanCloses, subVars, wire, loopVars, closeVars>>

AwaitClosed(c) ==
  /\ pc[c] = "wait" /\ myId[c] \notin holds /\ chanCloses[myId[c]] > 0
  /\ Return(c, "closed")
  /\ UNCHANGED <<connVars, wsUp, chanVars, subVars, wire, loopVars, closeVars>>

\* ctx.Done() wins the select.
AwaitCanceled(c) ==
  /\ pc[c] = "wait"
  /\ Goto(c, "canceled")
  /\ UNCHANGED <<connVars, wsUp, chanVars, subVars, wire, loopVars, closeVars>>

\* Mutant: the Send that gives up closes its channel.
Cleanup_closes(c) ==
  /\ pc[c] \in {"writeFailed", "canceled"}
  /\ pending' = pending \ {myId[c]}
  /\ holds' = holds \ {myId[c]}
  /\ chanCloses' = [chanCloses EXCEPT ![myId[c]] = 1]
  /\ Return(c, pc[c])
  /\ UNCHANGED <<connVars, wsUp, nextID, subVars, wire, loopVars, closeVars>>

\* The deferred cleanup of a failed write or a canceled wait; the channel and
\* a frame that reached it meanwhile are garbage.
Cleanup(c) ==
  /\ pc[c] \in {"writeFailed", "canceled"}
  /\ pending' = pending \ {myId[c]}
  /\ holds' = holds \ {myId[c]}
  /\ Return(c, pc[c])
  /\ UNCHANGED <<connVars, wsUp, nextID, chanCloses, subVars, wire, loopVars, closeVars>>
-----------------------------------------------------------------------------
(* closeWithErr.                                                           *)

markClosed(who, why) ==
  /\ ~closed
  /\ closed' = TRUE /\ cause' = why
  /\ victims' = [ids |-> pending, subs |-> UNION {subs[m] : m \in Methods}]
  /\ closing' = [by |-> who, stage |-> "ws"]
  /\ pending' = {}
  /\ subs' = [m \in Methods |-> {}]

Close ==
  /\ markClosed("user", "close")
  /\ UNCHANGED <<wsUp, nextID, holds, chanCloses, subState, subCloses, wire, loopVars, callVars>>

CloseWs ==
  /\ closing.stage = "ws"
  /\ wsUp' = FALSE
  /\ closing' = [closing EXCEPT !.stage = "pending"]
  /\ UNCHANGED <<connVars, chanVars, subVars, wire, loopVars, victims, callVars>>

\* Mutant: the waiting Sends are forgotten.
ClosePending_forgets ==
  /\ closing.stage = "pending"
  /\ closing' = [closing EXCEPT !.stage = "subs"]
  /\ UNCHANGED <<connVars, wsUp, chanVars, subVars, wire, loopVars, victims, callVars>>

ClosePending ==
  /\ closing.stage = "pending"
  /\ chanCloses' = [i \in Ids |-> chanCloses[i] + (IF i \in victims.ids THEN 1 ELSE 0)]
  /\ closing' = [closing EXCEPT !.stage = "subs"]
  /\ UNCHANGED <<connVars, wsUp, nextID, pending, holds, subVars, wire, loopVars, victims,
                 callVars>>

\* Mutant: a channel is closed once per method it is registered under.
closeSubscribers_noDedup ==
  /\ closing.stage = "subs"
  /\ subCloses' = [s \in Subs |-> subCloses[s] +
                     (IF s \in victims.subs THEN Cardinality(MethodsOf[s]) ELSE 0)]
  /\ closing' = [closing EXCEPT !.stage = "done"]
  /\ UNCHANGED <<connVars, wsUp, chanVars, subs, subState, wire, loopVars, victims, callVars>>

closeSubscribers ==
  /\ closing.stage = "subs"
  /\ subCloses' = [s \in Subs |-> subCloses[s] + (IF s \in victims.subs THEN 1 ELSE 0)]
  /\ closing' = [closing EXCEPT !.stage = "done"]
  /\ UNCHANGED <<connVars, wsUp, chanVars, subs, subState, wire, loopVars, victims, callVars>>
-----------------------------------------------------------------------------
(* readLoop.                                                               *)

\* Mutant: the entry stays in c.pending until the frame is handed over.
ReadResponse_keepsEntry(i) ==
  /\ loop = "read" /\ wsUp /\ i \in wire
  /\ wire' = wire \ {i}
  /\ IF i \in pending
     THEN loop' = "deliver" /\ loopId' = i
     ELSE UNCHANGED <<loop, loopId>>
  /\ UNCHANGED <<connVars, wsUp, chanVars, subVars, loopSubs, closeVars, callVars>>

\* deliverResponse up to c.mu.Unlock(); the browser answers in any order.
ReadResponse(i) ==
  /\ loop = "read" /\ wsUp /\ i \in wire
  /\ wire' = wire \ {i}
  /\ IF i \in pending
     THEN pending' = pending \ {i} /\ loop' = "deliver" /\ loopId' = i
     ELSE UNCHANGED <<pending, loop, loopId>>
  /\ UNCHANGED <<connVars, wsUp, nextID, holds, chanCloses, subVars, loopSubs, closeVars, callVars>>

\* A send on a closed channel panics; otherwise the channel takes the frame.
DeliverResponse ==
  /\ loop = "deliver"
  /\ IF chanCloses[loopId] > 0
     THEN loop' = "panic" /\ UNCHANGED <<holds, chanCloses>>
     ELSE /\ holds' = holds \cup {loopId}
          /\ chanCloses' = [chanCloses EXCEPT ![loopId] = @ + 1]
          /\ loop' = "read"
  /\ loopId' = 0
  /\ UNCHANGED <<connVars, wsUp, nextID, pending, subVars, wire, loopSubs, closeVars, callVars>>

\* deliverEvent up to c.mu.Unlock(): the subscribers are copied.
ReadEvent(m) ==
  /\ loop = "read" /\ wsUp
  /\ subs[m] # {}
  /\ loop' = "event"
  /\ loopSubs' = subs[m]
  /\ UNCHANGED <<connVars, wsUp, chanVars, subVars, wire, loopId, closeVars, callVars>>

\* A full channel drops the event, which no property here sees (what it
\* holds is left out); a closed channel panics.
SendEvent(s) ==
  /\ loop = "event" /\ s \in loopSubs
  /\ IF subCloses[s] > 0
     THEN loop' = "panic" /\ loopSubs' = {}
     ELSE /\ loopSubs' = loopSubs \ {s}
          /\ loop' = IF loopSubs' = {} THEN "read" ELSE "event"
  /\ UNCHANGED <<connVars, wsUp, chanVars, subVars, wire, loopId, closeVars, callVars>>

\* A read error, or the recover of a panic, closes the connection, unless it
\* is closed already.
LoopFails ==
  /\ \/ loop = "read" /\ ~wsUp
     \/ loop = "panic"
  /\ IF closed
     THEN /\ loop' = "exited"
          /\ UNCHANGED <<connVars, pending, subs, closeVars>>
     ELSE /\ markClosed("loop", loop)
          /\ loop' = "closing"
  /\ UNCHANGED <<wsUp, nextID, holds, chanCloses, subState, subCloses, wire, loopId, loopSubs,
                 callVars>>

\* closeWithErr has returned: the deferred close(c.done).
LoopExits ==
  /\ loop = "closing" /\ closing.stage = "done"
  /\ loop' = "exited"
  /\ UNCHANGED <<connVars, wsUp, chanVars, subVars, wire, loopId, loopSubs, closeVars, callVars>>
-----------------------------------------------------------------------------
(* Subscriptions, and the transport.                                       *)

SubscribeMethods(s) ==
  /\ subState[s] = "new"
  /\ subState' = [subState EXCEPT ![s] = "subscribed"]
  /\ IF closed
     THEN subCloses' = [subCloses EXCEPT ![s] = @ + 1] /\ UNCHANGED subs
     ELSE /\ subs' = [m \in Methods |-> IF m \in MethodsOf[s] THEN subs[m] \cup {s} ELSE subs[m]]
          /\ UNCHANGED subCloses
  /\ UNCHANGED <<connVars, wsUp, chanVars, wire, loopVars, closeVars, callVars>>

CancelSub(s) ==
  /\ subState[s] = "subscribed"
  /\ subState' = [subState EXCEPT ![s] = "canceled"]
  /\ IF closed \/ \A m \in Methods : s \notin subs[m]
     THEN UNCHANGED <<subs, subCloses>>
     ELSE /\ subs' = [m \in Methods |-> subs[m] \ {s}]
          /\ subCloses' = [subCloses EXCEPT ![s] = @ + 1]
  /\ UNCHANGED <<connVars, wsUp, chanVars, wire, loopVars, closeVars, callVars>>

TransportFails ==
  /\ wsUp /\ wsUp' = FALSE
  /\ UNCHANGED <<connVars, chanVars, subVars, wire, loopVars, closeVars, callVars>>
-----------------------------------------------------------------------------
SendStep(c) ==
  \/ registerPending(c) \/ SendRefused(c) \/ WriteOk(c) \/ WriteFailed(c)
  \/ AwaitFrame(c) \/ AwaitClosed(c) \/ AwaitCanceled(c) \/ Cleanup(c)

CloserStep == CloseWs \/ ClosePending \/ closeSubscribers

LoopStep ==
  \/ \E i \in wire : ReadResponse(i)
  \/ DeliverResponse
  \/ \E m \in Methods : ReadEvent(m)
  \/ \E s \in Subs : SendEvent(s)
  \/ LoopFails \/ LoopExits

Next ==
  \/ \E c \in Callers : SendStep(c)
  \/ Close \/ CloserStep \/ LoopStep
  \/ \E s \in Subs : SubscribeMethods(s) \/ CancelSub(s)
  \/ TransportFails

Spec == Init /\ [][Next]_vars

\* Goroutines run; a caller whose channel is ready, or whose context ended,
\* goes on.  Nothing makes the browser answer or a context end.
Fairness ==
  /\ WF_vars(CloserStep)
  /\ WF_vars(DeliverResponse) /\ WF_vars(\E s \in Subs : SendEvent(s))
  /\ WF_vars(LoopFails) /\ WF_vars(LoopExits)
  /\ \A c \in Callers : /\ WF_vars(WriteOk(c) \/ WriteFailed(c))
                        /\ WF_vars(AwaitFrame(c) \/ AwaitClosed(c))
                        /\ WF_vars(Cleanup(c))

LiveSpec == Spec /\ Fairness
-----------------------------------------------------------------------------
\* Every variable has its type; in particular no channel, of a Send or of a
\* subscriber, is closed twice, which would panic (connection.go:125-138).
TypeOK ==
  /\ closed \in BOOLEAN /\ wsUp \in BOOLEAN
  /\ cause \in {"none", "close", "read", "panic"}
  /\ nextID \in 0 .. MaxIds
  /\ pending \subseteq 1 .. nextID /\ holds \subseteq 1 .. nextID
  /\ wire \subseteq 1 .. nextID
  /\ chanCloses \in [Ids -> 0 .. 1]
  /\ subs \in [Methods -> SUBSET Subs]
  /\ subState \in [Subs -> {"new", "subscribed", "canceled"}]
  /\ subCloses \in [Subs -> 0 .. 1]
  /\ loop \in {"read", "deliver", "event", "panic", "closing", "exited"}
  /\ loopId \in 0 .. nextID /\ loopSubs \subseteq Subs
  /\ closing.by \in {"none", "user", "loop"}
  /\ closing.stage \in {"none", "ws", "pending", "subs", "done"}
  /\ victims.ids \subseteq Ids /\ victims.subs \subseteq Subs
  /\ pc \in [Callers -> {"idle", "write", "wait", "writeFailed", "canceled"}]
  /\ myId \in [Callers -> 0 .. nextID]
  /\ result \in [Callers -> {"none", "ok", "closed", "canceled", "writeFailed"}]

\* The read loop hands a response over outside c.mu, yet neither blocks on the
\* waiter, who may have left, nor meets a channel that a closer has closed
\* (connection.go:175-186); and no entry of c.pending outlives the Send that
\* made it, whichever of answer, write error, cancellation and close comes
\* first (connection.go:312-323).
HandOverIsSafe ==
  /\ loop = "deliver" => chanCloses[loopId] = 0 /\ loopId \notin holds
  /\ \A i \in pending : \E c \in Callers : myId[c] = i

\* An answer that was matched is on its way to its caller, or there.
matched(c) == myId[c] \in holds \/ (loop = "deliver" /\ loopId = myId[c])

Spec1 == INSTANCE CommandSpec WITH
  up <- ~closed,
  call <- [c \in Callers |->
             IF pc[c] = "idle" THEN "idle" ELSE IF matched(c) THEN "matched" ELSE "pending"],
  result <- result

\* Every Send ends once, as CommandSpec promises: an answer the read loop has
\* matched is never reported as closed, whenever Close comes.
SendKeepsItsPromise == Spec1!CommandSpec

\* "Pending sends fail with ErrClosed" (connection.go:88): no Send waits on a
\* closed connection.  And Done() is closed, which is how the session learns
\* that it must dial again (session.go:249).
ClosedWakesEveryone ==
  /\ \A c \in Callers : (closed /\ pc[c] = "wait") ~> pc[c] # "wait"
  /\ closed ~> loop = "exited"

\* deliverEvent copies the subscribers under c.mu and sends to them after the
\* unlock (connection.go:190-201).  Meanwhile two others may close a channel
\* it has copied, and the loop panics: the cancellation of a subscription, or
\* a Close.  Nothing else makes it panic, neither a Send that gives up nor an
\* answer that comes late; and what a panic does to everybody else, closing
\* the connection (connection.go:140-153), only a cancellation can bring about.
PanicNeedsCancelOrClose ==
  LET someCanceled == \E s \in Subs : subState[s] = "canceled"
  IN  /\ loop = "panic" => someCanceled \/ cause = "close"
      /\ cause = "panic" => someCanceled
=============================================================================
