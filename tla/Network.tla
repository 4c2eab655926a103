------------------------------- MODULE Network -------------------------------
(***************************************************************************)
(* The network pump (internal/tools/inspecttool/eventpump.go, from         *)
(* pendingPumpCap on): it joins the events of each request that the        *)
(* browser sends into one record.  The pump is started by the calls of     *)
(* EventPump, while requests are under way.                                *)
(*                                                                         *)
(* The browser sends the events of a request in their order: will-send, a  *)
(* will-send for every redirect, perhaps a response, and its end.  They    *)
(* pass through the channel of the subscription, which drops what it has   *)
(* no room for.                                                            *)
(***************************************************************************)
EXTENDS EventPump, FiniteSets

CONSTANTS
  Requests,         \* request ids
  PendingPumpCap    \* pendingPumpCap

ASSUME CapAssumption == PendingPumpCap \in Nat \ {0}

VARIABLES
  stage,     \* per request: what the browser has last sent of it
  channel,   \* the events on their way to the pump
  pending,   \* pendingFifo: entries in the order of their arrival
  records,   \* what the pump has appended to the buffer
  heard,     \* ghost: per request the events that the channel took
  evicted    \* ghost: requests whose entry was evicted

netVars == <<stage, channel, pending, records, heard, evicted>>
allVars == <<vars, netVars>>

NetInit ==
  /\ Init
  /\ stage = [r \in Requests |-> "none"]
  /\ channel = <<>> /\ pending = <<>> /\ records = {}
  /\ heard = [r \in Requests |-> {}] /\ evicted = {}

\* The browser (external).
Follows(kind, s) ==
  CASE kind = "sent"     -> s = "none"
    [] kind = "redirect" -> s = "sent"
    [] kind = "response" -> s \in {"sent", "redirect"}
    [] kind = "end"      -> s \in {"sent", "redirect", "response"}

Room == "Network" \in browser /\ pumps["network"] > 0 /\ Len(channel) < ChannelCap

RequestEvent(r, kind) ==
  /\ Follows(kind, stage[r])
  /\ stage' = [stage EXCEPT ![r] = kind]
  /\ IF Room
       THEN /\ channel' = Append(channel, [id |-> r, kind |-> kind])
            /\ heard' = [heard EXCEPT ![r] = @ \cup {kind}]
       ELSE UNCHANGED <<channel, heard>>
  /\ UNCHANGED <<vars, pending, records, evicted>>
-----------------------------------------------------------------------------
(* pendingFifo.                                                            *)

peek(id) == {k \in DOMAIN pending : pending[k].id = id}
NewRequest(id) == [id |-> id, url |-> FALSE, response |-> FALSE]

\* An id that is there keeps its place; the oldest entry makes room.
put(e) ==
  LET s == IF peek(e.id) = {} THEN Append(pending, e)
           ELSE [k \in DOMAIN pending |-> IF k \in peek(e.id) THEN e ELSE pending[k]]
  IN  IF Len(s) > PendingPumpCap THEN Tail(s) ELSE s

Put(e) ==
  /\ pending' = put(e)
  /\ evicted' = evicted \cup ({pending[k].id : k \in DOMAIN pending}
                                \ {pending'[k].id : k \in DOMAIN pending'})
  /\ UNCHANGED records

\* A redirect takes the place of the request, its response included.
handleWillSend(id) == Put([NewRequest(id) EXCEPT !.url = TRUE])

\* Mutant: a response to a request that the pump has not seen is not kept.
handleRespRecv_drops(id) ==
  IF peek(id) = {} THEN UNCHANGED <<pending, records, evicted>>
  ELSE Put([pending[CHOOSE k \in peek(id) : TRUE] EXCEPT !.response = TRUE])

handleRespRecv(id) ==
  Put([(IF peek(id) = {} THEN NewRequest(id) ELSE pending[CHOOSE k \in peek(id) : TRUE])
         EXCEPT !.response = TRUE])

\* The entry of id, if there is one, is taken out of the order.
take(id) ==
  IF peek(id) = {} THEN pending
  ELSE LET k == CHOOSE j \in peek(id) : TRUE
       IN  [j \in 1 .. Len(pending) - 1 |-> IF j < k THEN pending[j] ELSE pending[j + 1]]

\* finalizeFinished and finalizeFailed: a record, of nothing but its id when
\* the pump has no entry.
finalize(id) ==
  /\ records' = records \cup {IF peek(id) = {} THEN NewRequest(id)
                             ELSE pending[CHOOSE k \in peek(id) : TRUE]}
  /\ pending' = take(id)
  /\ UNCHANGED evicted

\* pumpNetwork and dispatchNetworkEvent.
dispatchNetworkEvent ==
  /\ channel # <<>>
  /\ channel' = Tail(channel)
  /\ LET ev == Head(channel)
     IN  CASE ev.kind \in {"sent", "redirect"} -> handleWillSend(ev.id)
           [] ev.kind = "response"             -> handleRespRecv(ev.id)
           [] ev.kind = "end"                  -> finalize(ev.id)
  /\ UNCHANGED <<vars, stage, heard>>

\* With the connection go the channel, the pump and the buffer.
NetReconnect ==
  /\ Reconnect
  /\ channel' = <<>> /\ pending' = <<>> /\ records' = {}
  /\ heard' = [r \in Requests |-> {}] /\ evicted' = {}
  /\ UNCHANGED stage

NetNext ==
  \/ \E c \in Calls :
       \/ \E t \in Tools : Begin(c, t) /\ UNCHANGED netVars
       \/ /\ Subscribe(c) \/ AlreadyEnabled(c) \/ SendEnable(c) \/ EnableAnswered(c)
            \/ EnableFailed(c) \/ Return(c)
          /\ UNCHANGED netVars
  \/ (LogMessage \/ deliverEvent \/ pumpConsole) /\ UNCHANGED netVars
  \/ \E r \in Requests, kind \in {"sent", "redirect", "response", "end"} :
       RequestEvent(r, kind)
  \/ dispatchNetworkEvent
  \/ NetReconnect

NetSpec == NetInit /\ [][NetNext]_allVars
-----------------------------------------------------------------------------
\* Every request whose end reaches the pump has one record, and the record has
\* what the pump was told of it: its url if a will-send came, also by way of a
\* redirect, and its status if a response came, unless the entry had to make
\* room for another (eventpump.go:329, 395, 415).  The pump keeps no more
\* entries than its cap, and none of a request that has ended.
RecordsAreComplete ==
  /\ Len(pending) <= PendingPumpCap
  /\ \A r \in Requests :
       LET of == {k \in records : k.id = r}
           waiting == \E k \in DOMAIN channel : channel[k] = [id |-> r, kind |-> "end"]
       IN  /\ Cardinality(of) = IF "end" \in heard[r] /\ ~ waiting THEN 1 ELSE 0
           /\ of # {} => peek(r) = {}
           /\ \A k \in of :
                r \notin evicted =>
                  /\ k.url = (heard[r] \cap {"sent", "redirect"} # {})
                  /\ k.response = ("response" \in heard[r])
=============================================================================
