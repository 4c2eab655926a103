----------------------------- MODULE EventPump -----------------------------
(***************************************************************************)
(* How an event pump is started on one page                                *)
(* (internal/tools/inspecttool/eventpump.go): the call that marks the      *)
(* buffer subscribes to the events of the connection, runs the pump and    *)
(* enables the CDP domains that make the browser send them.  Other tools   *)
(* enable the same domains for their own use, through the same record of   *)
(* what is enabled (Session.EnsureEnabled).                                *)
(*                                                                         *)
(* A call is the list of steps it has still to take: a step "subscribe",   *)
(* or the name of a domain to enable.  Calls run concurrently.  The        *)
(* browser keeps the console messages of the page and replays them when    *)
(* Runtime is enabled; enabling it twice changes nothing.                  *)
(*                                                                         *)
(* What the browser sends waits for the read loop of the connection, which *)
(* puts it into the channel of whoever is subscribed by then, or drops it  *)
(* if that is full; the pump takes it from there into the buffer.          *)
(***************************************************************************)
EXTENDS Naturals, Sequences

CONSTANTS
  Calls,        \* tool calls that run concurrently
  ChannelCap,   \* subscribeBuffer
  MaxMsgs       \* bound of the model: messages the page logs

ASSUME MaxMsgsAssumption == MaxMsgs \in Nat
ASSUME ChannelAssumption == ChannelCap \in Nat \ {0}

Streams == {"console", "network"}
Tools == Streams \cup {"fill", "networkBody"}
Domains == {"Runtime", "Log", "Network"}

VARIABLES
  pumping,   \* the buffers marked by MarkEventPumping
  pumps,     \* the number of pump goroutines of each buffer
  enabled,   \* s.enabled: the domains recorded as enabled
  browser,   \* the domains enabled in the browser
  tool,      \* the tool each call runs, or "none"
  todo,      \* the steps each call has still to take
  sent,      \* whether a call waits for the answer to an enable
  ok,        \* streams whose tool has returned without an error
  logged,    \* messages the page has logged
  wire,      \* messages the browser has sent and the read loop has not seen
  queued,    \* messages in the channel of the console subscription
  stored,    \* the console buffer
  dropped,   \* history: messages that found the channel full
  failed,    \* history: an enable has failed
  early      \* history: another tool enabled Runtime before the console subscription

msgVars == <<wire, queued, stored, dropped>>
vars == <<pumping, pumps, enabled, browser, tool, todo, sent, ok, logged,
          msgVars, failed, early>>

Init ==
  /\ pumping = {}
  /\ pumps = [s \in Streams |-> 0]
  /\ enabled = {}
  /\ browser = {}
  /\ tool = [c \in Calls |-> "none"]
  /\ todo = [c \in Calls |-> <<>>]
  /\ sent = [c \in Calls |-> FALSE]
  /\ ok = {}
  /\ logged = 0
  /\ wire = <<>> /\ queued = <<>> /\ stored = <<>> /\ dropped = {}
  /\ failed = FALSE
  /\ early = FALSE
-----------------------------------------------------------------------------
\* Mutant: the subscription comes after the enables.
ensureConsolePump_late == <<"Runtime", "subscribe", "Log">>

ensureConsolePump == <<"subscribe", "Runtime", "Log">>

\* Mutant: an enabled domain is taken for a running pump.
ensureNetworkPump_skips == IF "Network" \in enabled THEN <<>> ELSE <<"Network", "subscribe">>

ensureNetworkPump == <<"Network", "subscribe">>

Plan(t) ==
  CASE t = "console"     -> ensureConsolePump
    [] t = "network"     -> ensureNetworkPump
    [] t = "fill"        -> <<"Runtime">>
    [] t = "networkBody" -> <<"Network">>

Starts(t) == t \notin pumping

\* Mutant: the mark is checked but never set.
Marked_never(t) == pumping

Marked(t) == pumping \cup ({t} \cap Streams)

\* A call begins.  page.consoleLog and page.networkLog mark their buffer; if
\* it was marked already there is nothing to start.
Begin(c, t) ==
  /\ tool[c] = "none"
  /\ tool' = [tool EXCEPT ![c] = t]
  /\ todo' = [todo EXCEPT ![c] = IF Starts(t) THEN Plan(t) ELSE <<>>]
  /\ pumping' = Marked(t)
  /\ UNCHANGED <<pumps, enabled, browser, sent, ok, logged, msgVars, failed, early>>

NextStep(c) == IF todo[c] = <<>> THEN "none" ELSE Head(todo[c])
Done(c) == todo' = [todo EXCEPT ![c] = Tail(@)]

\* SubscribeMethods and the pump goroutine.
Subscribe(c) ==
  /\ NextStep(c) = "subscribe"
  /\ pumps' = [pumps EXCEPT ![tool[c]] = @ + 1]
  /\ Done(c)
  /\ UNCHANGED <<pumping, enabled, browser, tool, sent, ok, logged, msgVars, failed, early>>

\* EnsureEnabled finds the domain recorded.
AlreadyEnabled(c) ==
  /\ NextStep(c) \in enabled
  /\ ~sent[c]
  /\ Done(c)
  /\ UNCHANGED <<pumping, pumps, enabled, browser, tool, sent, ok, logged, msgVars,
                 failed, early>>

\* EnsureEnabled sends "<domain>.enable" and the browser executes it; for
\* Runtime it replays the messages logged so far.
SendEnable(c) ==
  LET d == NextStep(c) IN
  /\ d \in Domains \ enabled
  /\ ~sent[c]
  /\ sent' = [sent EXCEPT ![c] = TRUE]
  /\ browser' = browser \cup {d}
  /\ IF d = "Runtime" /\ d \notin browser
     THEN /\ wire' = wire \o [n \in 1 .. logged |-> n]
          /\ early' = (tool[c] # "console" /\ pumps["console"] = 0)
     ELSE UNCHANGED <<wire, early>>
  /\ UNCHANGED <<pumping, pumps, enabled, tool, todo, ok, logged, queued, stored,
                 dropped, failed>>

EnableAnswered(c) ==
  /\ sent[c]
  /\ sent' = [sent EXCEPT ![c] = FALSE]
  /\ enabled' = enabled \cup {NextStep(c)}
  /\ Done(c)
  /\ UNCHANGED <<pumping, pumps, browser, tool, ok, logged, msgVars, failed, early>>

\* The send fails, before or after the browser has executed it: the tool
\* returns the error.
EnableFailed(c) ==
  /\ NextStep(c) \in Domains
  /\ sent[c] \/ NextStep(c) \notin enabled
  /\ sent' = [sent EXCEPT ![c] = FALSE]
  /\ todo' = [todo EXCEPT ![c] = <<>>]
  /\ tool' = [tool EXCEPT ![c] = "none"]
  /\ failed' = TRUE
  /\ UNCHANGED <<pumping, pumps, enabled, browser, ok, logged, msgVars, early>>

Return(c) ==
  /\ tool[c] # "none" /\ todo[c] = <<>>
  /\ tool' = [tool EXCEPT ![c] = "none"]
  /\ ok' = ok \cup ({tool[c]} \cap Streams)
  /\ UNCHANGED <<pumping, pumps, enabled, browser, todo, sent, logged, msgVars, failed, early>>
-----------------------------------------------------------------------------
\* The page logs a message; the browser sends it when Runtime is enabled.
LogMessage ==
  /\ logged < MaxMsgs
  /\ logged' = logged + 1
  /\ wire' = IF "Runtime" \in browser THEN Append(wire, logged') ELSE wire
  /\ UNCHANGED <<pumping, pumps, enabled, browser, tool, todo, sent, ok, queued, stored,
                 dropped, failed, early>>

\* Each pump has a channel of its own; they hold the same messages.
copies(n) == [k \in 1 .. pumps["console"] |-> n]

\* The read loop fans a message out; a full channel, and the lack of a
\* subscriber, lose it.
deliverEvent ==
  /\ wire # <<>>
  /\ wire' = Tail(wire)
  /\ IF Len(queued) < ChannelCap
     THEN queued' = queued \o copies(Head(wire)) /\ UNCHANGED dropped
     ELSE dropped' = dropped \cup {Head(wire)} /\ UNCHANGED queued
  /\ UNCHANGED <<pumping, pumps, enabled, browser, tool, todo, sent, ok, logged, stored,
                 failed, early>>

\* One round of the pump's loop.
pumpConsole ==
  /\ queued # <<>>
  /\ queued' = Tail(queued)
  /\ stored' = Append(stored, Head(queued))
  /\ UNCHANGED <<pumping, pumps, enabled, browser, tool, todo, sent, ok, logged, wire,
                 dropped, failed, early>>

\* The session drops the connection: the pumps end, the buffers and the record
\* of enabled domains go, the page keeps its messages.
Reconnect ==
  /\ \A c \in Calls : tool[c] = "none"
  /\ pumping' = {}
  /\ pumps' = [s \in Streams |-> 0]
  /\ enabled' = {}
  /\ browser' = {}
  /\ ok' = {}
  /\ wire' = <<>> /\ queued' = <<>> /\ stored' = <<>> /\ dropped' = {}
  /\ failed' = FALSE
  /\ early' = FALSE
  /\ UNCHANGED <<tool, todo, sent, logged>>

Next ==
  \/ \E c \in Calls :
       \/ \E t \in Tools : Begin(c, t)
       \/ Subscribe(c)
       \/ AlreadyEnabled(c)
       \/ SendEnable(c)
       \/ EnableAnswered(c)
       \/ EnableFailed(c)
       \/ Return(c)
  \/ LogMessage \/ deliverEvent \/ pumpConsole
  \/ Reconnect

Spec == Init /\ [][Next]_vars
-----------------------------------------------------------------------------
Idle == \A c \in Calls : tool[c] = "none"

Listed(n, s) == \E k \in 1 .. Len(s) : s[k] = n
Ascending(s) == \A j, k \in 1 .. Len(s) : j < k => s[j] < s[k]

\* Two calls that start the same pump at once start one, so no message is in
\* the buffer twice, replayed ones included, and they are in the order in
\* which the page logged them (eventpump.go:27-29, 49-56).
NoMessageTwice ==
  /\ \A s \in Streams : pumps[s] <= 1
  /\ Ascending(stored)

\* Unless another tool enabled Runtime before, every message of the page, those
\* logged before the first call included, is in the console buffer or on its
\* way there, or has found the channel full: nothing is lost between the
\* subscription, the enable and the replay (eventpump.go:31-46).
ConsoleIsComplete ==
  "Runtime" \in browser /\ ~early =>
    \A n \in 1 .. logged :
      Listed(n, stored) \/ Listed(n, queued) \/ Listed(n, wire) \/ n \in dropped

Streaming(s) ==
  /\ pumps[s] = 1
  /\ (IF s = "console" THEN {"Runtime", "Log"} ELSE {"Network"}) \subseteq browser

\* As long as no enable has failed, a tool that has returned without an error
\* streams once no call is under way, whatever calls overlapped: the call that
\* returned because another had set the mark relies on that other one
\* (eventpump.go:25-47, 277-293).
OkMeansStreamingUnlessFailed ==
  Idle /\ ~failed => \A s \in ok : Streaming(s)
=============================================================================
