----------------------------- MODULE EventProofs -----------------------------
(***************************************************************************)
(* Proofs about the events of a page: the start of the pumps (EventPump),  *)
(* the join of network events into records (Network) and the buffers that  *)
(* callers poll (EventBuf), for any number of calls, messages, requests,   *)
(* callers, buffer sizes and limits.                                       *)
(***************************************************************************)
EXTENDS Network, EventBuf, FiniteSetTheorems, SequenceTheorems, TLAPS

\* The lists of steps that a call works through, by what is left of them.
ConsoleAll == <<"subscribe", "Runtime", "Log">>
ConsoleEnables == <<"Runtime", "Log">>
ConsoleLog == <<"Log">>
NetworkAll == <<"Network", "subscribe">>
NetworkPump == <<"subscribe">>
FillRuntime == <<"Runtime">>
BodyNetwork == <<"Network">>
Nothing == <<>>

Lists == {ConsoleAll, ConsoleEnables, ConsoleLog, NetworkAll, NetworkPump, FillRuntime,
          BodyNetwork, Nothing}

\* What a call of a tool may have left to do.
TodoOf(t) ==
  CASE t = "console"     -> {ConsoleAll, ConsoleEnables, ConsoleLog, Nothing}
    [] t = "network"     -> {NetworkAll, NetworkPump, Nothing}
    [] t = "fill"        -> {FillRuntime, Nothing}
    [] t = "networkBody" -> {BodyNetwork, Nothing}
    [] t = "none"        -> {Nothing}

CallsTyped ==
  /\ tool \in [Calls -> Tools \cup {"none"}]
  /\ todo \in [Calls -> Lists]
  /\ \A c \in Calls : todo[c] \in TodoOf(tool[c])
  /\ sent \in [Calls -> BOOLEAN]

PumpsTyped ==
  /\ pumping \subseteq Streams /\ ok \subseteq pumping
  /\ pumps \in [Streams -> {0, 1}]
  /\ browser \subseteq Domains /\ enabled \subseteq browser
  /\ logged \in 0 .. MaxMsgs
  /\ failed \in BOOLEAN /\ early \in BOOLEAN

\* A call has yet to subscribe; only the one that set the mark has.
WillSubscribe(c) == todo[c] \in {ConsoleAll, NetworkAll, NetworkPump}

OneStarter ==
  /\ \A c \in Calls : WillSubscribe(c) => pumps[tool[c]] = 0
  /\ \A c, d \in Calls : WillSubscribe(c) /\ WillSubscribe(d) /\ c # d => tool[c] # tool[d]
  /\ \A c \in Calls : tool[c] \in Streams => tool[c] \in pumping
  /\ \A s \in Streams : pumps[s] = 1 => s \in pumping

\* What a call has done by the step it has reached.
Progress ==
  \A c \in Calls :
    /\ todo[c] \in {ConsoleEnables, ConsoleLog} => pumps["console"] = 1
    /\ todo[c] = ConsoleLog => "Runtime" \in browser
    /\ todo[c] = NetworkPump => "Network" \in browser
    /\ sent[c] => NextStep(c) \in browser

\* Every message of one list was logged before every message of another.
Earlier(s, t) == \A j \in 1 .. Len(s), k \in 1 .. Len(t) : s[j] < t[k]
Logged(s) == \A k \in 1 .. Len(s) : s[k] <= logged

Where(n) == Listed(n, stored) \/ Listed(n, queued) \/ Listed(n, wire) \/ n \in dropped

\* Messages keep their order on the way to the buffer.
InLine ==
  /\ wire \in Seq(Nat) /\ queued \in Seq(Nat) /\ stored \in Seq(Nat)
  /\ Ascending(wire) /\ Ascending(queued) /\ Ascending(stored)
  /\ Earlier(stored, queued) /\ Earlier(stored, wire) /\ Earlier(queued, wire)
  /\ Logged(wire) /\ Logged(queued) /\ Logged(stored)

\* Before Runtime is enabled no message is on its way; after it, every one is
\* accounted for, unless another tool has enabled it before the console was
\* subscribed.
Accounted ==
  /\ "Runtime" \notin browser => wire = <<>> /\ queued = <<>> /\ stored = <<>>
  /\ "Runtime" \in browser /\ ~early =>
       pumps["console"] = 1 /\ \A n \in 1 .. logged : Where(n)

Flow == InLine /\ Accounted

\* As long as nothing fails, a marked buffer streams or is being started.
StartsOrStreams ==
  ~failed => \A s \in pumping :
    Streaming(s) \/ \E c \in Calls : tool[c] = s /\ todo[c] # Nothing

IInv ==
  /\ CallsTyped /\ PumpsTyped
  /\ OneStarter /\ Progress /\ Flow /\ StartsOrStreams
-----------------------------------------------------------------------------
(* The lists that a call works through.                                    *)

\* They are different, ...
LEMMA Distinct ==
  /\ Nothing \notin {ConsoleAll, ConsoleEnables, ConsoleLog, NetworkAll, NetworkPump,
                     FillRuntime, BodyNetwork}
  /\ ConsoleAll \notin {ConsoleEnables, ConsoleLog, NetworkAll, NetworkPump, FillRuntime,
                        BodyNetwork}
  /\ ConsoleEnables \notin {ConsoleLog, NetworkAll, NetworkPump, FillRuntime, BodyNetwork}
  /\ ConsoleLog \notin {NetworkAll, NetworkPump, FillRuntime, BodyNetwork}
  /\ NetworkAll \notin {NetworkPump, FillRuntime, BodyNetwork}
  /\ NetworkPump \notin {FillRuntime, BodyNetwork}
  /\ FillRuntime # BodyNetwork
BY DEF Nothing, ConsoleAll, ConsoleEnables, ConsoleLog, NetworkAll, NetworkPump, FillRuntime,
   BodyNetwork

\* ... each is the rest of another, ...
LEMMA Rests ==
  /\ Head(ConsoleAll) = "subscribe" /\ Tail(ConsoleAll) = ConsoleEnables
  /\ Head(ConsoleEnables) = "Runtime" /\ Tail(ConsoleEnables) = ConsoleLog
  /\ Head(ConsoleLog) = "Log" /\ Tail(ConsoleLog) = Nothing
  /\ Head(NetworkAll) = "Network" /\ Tail(NetworkAll) = NetworkPump
  /\ Head(NetworkPump) = "subscribe" /\ Tail(NetworkPump) = Nothing
  /\ Head(FillRuntime) = "Runtime" /\ Tail(FillRuntime) = Nothing
  /\ Head(BodyNetwork) = "Network" /\ Tail(BodyNetwork) = Nothing
BY DEF Nothing, ConsoleAll, ConsoleEnables, ConsoleLog, NetworkAll, NetworkPump, FillRuntime,
   BodyNetwork

\* ... and the plans are among them.
LEMMA Plans ==
  /\ Plan("console") = ConsoleAll /\ Plan("network") = NetworkAll
  /\ Plan("fill") = FillRuntime /\ Plan("networkBody") = BodyNetwork
BY DEF Plan, ensureConsolePump, ensureNetworkPump, ConsoleAll, NetworkAll, FillRuntime,
   BodyNetwork

\* The next step of a call tells its list.
LEMMA NextOf ==
  ASSUME CallsTyped, NEW c \in Calls
  PROVE  /\ NextStep(c) = "none" <=> todo[c] = Nothing
         /\ tool[c] = "none" => todo[c] = Nothing
         /\ todo[c] \in {ConsoleAll, ConsoleEnables, ConsoleLog} => tool[c] = "console"
         /\ todo[c] \in {NetworkAll, NetworkPump} => tool[c] = "network"
         /\ NextStep(c) = "subscribe" => todo[c] \in {ConsoleAll, NetworkPump}
         /\ NextStep(c) = "Runtime" => todo[c] \in {ConsoleEnables, FillRuntime}
         /\ NextStep(c) = "Log" => todo[c] = ConsoleLog
         /\ NextStep(c) = "Network" => todo[c] \in {NetworkAll, BodyNetwork}
         /\ NextStep(c) \in {"none", "subscribe"} \cup Domains
<1>1. todo[c] \in TodoOf(tool[c]) /\ tool[c] \in Tools \cup {"none"}
  BY DEF CallsTyped
<1>2. CASE todo[c] = Nothing
  BY <1>1, <1>2, Distinct DEF NextStep, Nothing
<1>3. CASE todo[c] # Nothing
  <2>1. NextStep(c) = Head(todo[c])
    BY <1>3 DEF NextStep, Nothing
  <2> QED
    BY <1>1, <1>3, <2>1, Rests, Distinct DEF TodoOf, Tools, Streams, Domains
<1> QED
  BY <1>2, <1>3

\* A call takes the next step of its list.
LEMMA Advance ==
  ASSUME CallsTyped, NEW c \in Calls, todo[c] # Nothing, Done(c), UNCHANGED tool
  PROVE  /\ \A d \in Calls \ {c} : todo'[d] = todo[d] /\ NextStep(d)' = NextStep(d)
         /\ todo' \in [Calls -> Lists]
         /\ \A d \in Calls : todo'[d] \in TodoOf(tool'[d])
         /\ todo'[c] = Tail(todo[c])
         /\ todo'[c] = ConsoleEnables <=> todo[c] = ConsoleAll
         /\ todo'[c] = ConsoleLog <=> todo[c] = ConsoleEnables
         /\ todo'[c] = NetworkPump <=> todo[c] = NetworkAll
         /\ todo'[c] \in {ConsoleEnables, ConsoleLog, NetworkPump, Nothing}
<1>1. todo'[c] = Tail(todo[c]) /\ \A d \in Calls \ {c} : todo'[d] = todo[d]
  BY DEF CallsTyped, Done
<1>2. todo[c] \in TodoOf(tool[c]) /\ tool[c] \in Tools
  BY DEF CallsTyped, TodoOf
<1>3. Tail(todo[c]) \in TodoOf(tool[c])
  BY <1>2, Rests DEF TodoOf, Tools, Streams
<1>4. todo' \in [Calls -> Lists]
  BY <1>2, <1>3 DEF CallsTyped, Done, TodoOf, Tools, Streams, Lists
<1>5. \A d \in Calls : todo'[d] \in TodoOf(tool'[d])
  BY <1>1, <1>3 DEF CallsTyped
<1>6. /\ Tail(todo[c]) = ConsoleEnables <=> todo[c] = ConsoleAll
      /\ Tail(todo[c]) = ConsoleLog <=> todo[c] = ConsoleEnables
      /\ Tail(todo[c]) = NetworkPump <=> todo[c] = NetworkAll
      /\ Tail(todo[c]) \in {ConsoleEnables, ConsoleLog, NetworkPump, Nothing}
  BY <1>2, Rests, Distinct DEF TodoOf, Tools, Streams
<1>7. \A d \in Calls \ {c} : NextStep(d)' = NextStep(d)
  BY <1>1 DEF NextStep
<1> QED
  BY <1>1, <1>4, <1>5, <1>6, <1>7

\* The list of a call is its tool's; a call that waits for an answer is at a
\* domain.
LEMMA Owned ==
  ASSUME CallsTyped, PumpsTyped, Progress, NEW c \in Calls
  PROVE  sent[c] => NextStep(c) \in Domains /\ todo[c] # Nothing
<1>1. sent[c] => NextStep(c) \in Domains
  BY DEF Progress, PumpsTyped
<1> QED
  BY <1>1, NextOf DEF Domains

\* A call starts or ends: its list is set.
LEMMA ListSet ==
  ASSUME CallsTyped, NEW c \in Calls, NEW t \in Tools \cup {"none"}, NEW l \in TodoOf(t),
         tool' = [tool EXCEPT ![c] = t], todo' = [todo EXCEPT ![c] = l],
         sent' \in [Calls -> BOOLEAN]
  PROVE  /\ CallsTyped'
         /\ todo'[c] = l /\ tool'[c] = t
         /\ \A d \in Calls \ {c} : /\ todo'[d] = todo[d] /\ tool'[d] = tool[d]
                                   /\ NextStep(d)' = NextStep(d)
<1>1. l \in Lists
  BY DEF TodoOf, Tools, Streams, Lists
<1>2. /\ todo'[c] = l /\ tool'[c] = t
      /\ \A d \in Calls \ {c} : todo'[d] = todo[d] /\ tool'[d] = tool[d]
  BY DEF CallsTyped
<1>3. CallsTyped'
  <2>1. tool' \in [Calls -> Tools \cup {"none"}] /\ todo' \in [Calls -> Lists]
    BY <1>1 DEF CallsTyped
  <2>2. \A d \in Calls : todo'[d] \in TodoOf(tool'[d])
    BY <1>2 DEF CallsTyped
  <2>3. \A d \in Calls : todo'[d] \in TodoOf(tool[d])'
    BY <2>2 DEF TodoOf
  <2> QED
    BY <2>1, <2>3 DEF CallsTyped
<1> QED
  BY <1>2, <1>3 DEF NextStep

-----------------------------------------------------------------------------
(* Messages on their way.                                                  *)

\* A message is put behind those that are there.
LEMMA PutBehind ==
  ASSUME NEW s \in Seq(Nat), NEW x \in Nat, Ascending(s), \A k \in 1 .. Len(s) : s[k] < x
  PROVE  /\ Append(s, x) \in Seq(Nat) /\ Ascending(Append(s, x))
         /\ Len(Append(s, x)) = Len(s) + 1 /\ Append(s, x)[Len(s) + 1] = x
         /\ \A k \in 1 .. Len(s) : Append(s, x)[k] = s[k]
         /\ \A k \in 1 .. Len(Append(s, x)) : k \in 1 .. Len(s) \/ k = Len(s) + 1
<1> DEFINE t == Append(s, x)
<1>1. /\ t \in Seq(Nat) /\ Len(t) = Len(s) + 1 /\ t[Len(s) + 1] = x
      /\ \A k \in 1 .. Len(s) : t[k] = s[k]
  BY AppendProperties
<1>2. Len(s) \in Nat /\ \A k \in 1 .. Len(s) : s[k] \in Nat
  BY LenProperties, ElementOfSeq
<1>3. \A k \in 1 .. Len(t) : k \in 1 .. Len(s) \/ k = Len(s) + 1
  BY <1>1, <1>2
<1> HIDE DEF t
<1>4. Ascending(t)
  <2> SUFFICES ASSUME NEW j \in 1 .. Len(t), NEW k \in 1 .. Len(t), j < k
               PROVE  t[j] < t[k]
    BY DEF Ascending
  <2>1. j \in 1 .. Len(s)
    BY <1>1, <1>2
  <2>2. CASE k \in 1 .. Len(s)
    BY <1>1, <2>1, <2>2 DEF Ascending
  <2>3. CASE k = Len(s) + 1
    BY <1>1, <2>1, <2>3
  <2> QED BY <1>3, <2>2, <2>3
<1> QED BY <1>1, <1>3, <1>4 DEF t

\* What was listed is listed when one more is.
LEMMA ListedBehind ==
  ASSUME NEW s, NEW t, NEW x, Len(s) \in Nat, Len(t) = Len(s) + 1, t[Len(s) + 1] = x,
         \A k \in 1 .. Len(s) : t[k] = s[k]
  PROVE  \A n : Listed(n, s) \/ n = x => Listed(n, t)
<1>1. Len(s) + 1 \in 1 .. Len(t) /\ \A k \in 1 .. Len(s) : k \in 1 .. Len(t)
  OBVIOUS
<1> QED BY <1>1 DEF Listed

\* The first message is taken.
LEMMA TakeFirst ==
  ASSUME NEW s \in Seq(Nat), s # <<>>, Ascending(s)
  PROVE  /\ Head(s) \in Nat /\ Tail(s) \in Seq(Nat) /\ Ascending(Tail(s))
         /\ Head(s) = s[1] /\ 1 \in 1 .. Len(s)
         /\ \A k \in 1 .. Len(Tail(s)) : /\ k + 1 \in 1 .. Len(s) /\ Tail(s)[k] = s[k + 1]
                                         /\ Head(s) < Tail(s)[k]
         /\ \A n : Listed(n, s) => n = Head(s) \/ Listed(n, Tail(s))
<1>1. /\ Tail(s) \in Seq(Nat) /\ Len(Tail(s)) = Len(s) - 1
      /\ \A k \in 1 .. Len(Tail(s)) : Tail(s)[k] = s[k + 1]
  BY HeadTailProperties
<1>2. Len(s) \in Nat \ {0} /\ \A k \in 1 .. Len(s) : s[k] \in Nat
  BY LenProperties, ElementOfSeq, EmptySeq
<1>3. Head(s) = s[1]
  BY HeadTailProperties
<1> DEFINE t == Tail(s)
<1> HIDE DEF t
<1>4. /\ t \in Seq(Nat) /\ Len(t) = Len(s) - 1
      /\ \A k \in 1 .. Len(t) : t[k] = s[k + 1]
  BY <1>1 DEF t
<1>5. \A k \in 1 .. Len(t) : k + 1 \in 1 .. Len(s)
  BY <1>2, <1>4
<1>6. Ascending(t)
  <2> SUFFICES ASSUME NEW j \in 1 .. Len(t), NEW k \in 1 .. Len(t), j < k
               PROVE  t[j] < t[k]
    BY DEF Ascending
  <2>1. j + 1 \in 1 .. Len(s) /\ k + 1 \in 1 .. Len(s) /\ j + 1 < k + 1
    BY <1>2, <1>4, <1>5
  <2>2. s[j + 1] < s[k + 1]
    BY <2>1 DEF Ascending
  <2> QED BY <1>4, <2>2
<1>7. ASSUME NEW k \in 1 .. Len(t) PROVE s[1] < t[k]
  <2>1. 1 \in 1 .. Len(s) /\ k + 1 \in 1 .. Len(s) /\ 1 < k + 1
    BY <1>2, <1>4, <1>5
  <2>2. s[1] < s[k + 1]
    BY <2>1 DEF Ascending
  <2> QED BY <1>4, <2>2
<1>8. ASSUME NEW n, Listed(n, s) PROVE n = s[1] \/ Listed(n, t)
  <2>1. PICK k \in 1 .. Len(s) : s[k] = n
    BY <1>8 DEF Listed
  <2>2. k = 1 \/ (k - 1 \in 1 .. Len(t) /\ t[k - 1] = s[k])
    BY <1>2, <1>4, <2>1
  <2> QED BY <2>1, <2>2 DEF Listed
<1> QED BY <1>2, <1>3, <1>4, <1>5, <1>6, <1>7, <1>8 DEF t

\* Whoever does not touch the messages leaves the flow as it is.
LEMMA SubscribedFlow ==
  ASSUME Flow, UNCHANGED <<msgVars, logged, browser, early>>,
         pumps["console"] = 1 => pumps'["console"] = 1
  PROVE  Flow'
<1>1. InLine'
  BY DEF Flow, InLine, Earlier, Logged, Ascending, msgVars
<1>2. Accounted'
  BY DEF Flow, Accounted, Where, Listed, msgVars
<1> QED BY <1>1, <1>2 DEF Flow

LEMMA FlowKept ==
  ASSUME Flow, UNCHANGED <<msgVars, logged, browser, early, pumps>>
  PROVE  Flow'
BY SubscribedFlow

-----------------------------------------------------------------------------
(* Every action preserves the invariant.                                   *)

\* A call sets the mark, or finds it set.
LEMMA BeginStep ==
  ASSUME IInv, NEW c \in Calls, NEW t \in Tools, Begin(c, t)
  PROVE  IInv'
<1>1. CallsTyped /\ PumpsTyped /\ OneStarter /\ Progress /\ Flow /\ StartsOrStreams
  BY DEF IInv
<1>2. /\ tool[c] = "none" /\ tool' = [tool EXCEPT ![c] = t] /\ sent' = sent
      /\ pumping' = pumping \cup ({t} \cap Streams)
      /\ UNCHANGED <<pumps, enabled, browser, ok, logged, msgVars, failed, early>>
  BY DEF Begin, Marked
<1>3. PICK l \in {Plan(t), Nothing} : /\ todo' = [todo EXCEPT ![c] = l]
                                      /\ l = Plan(t) <=> t \notin pumping
  BY Plans, Distinct DEF Begin, Starts, Nothing, Tools, Streams
<1>4. l \in TodoOf(t) /\ l \in {ConsoleAll, NetworkAll, FillRuntime, BodyNetwork, Nothing}
  BY Plans DEF TodoOf, Tools, Streams
<1>5. /\ CallsTyped' /\ todo'[c] = l /\ tool'[c] = t
      /\ \A d \in Calls \ {c} : /\ todo'[d] = todo[d] /\ tool'[d] = tool[d]
                                /\ NextStep(d)' = NextStep(d)
  BY <1>1, <1>2, <1>3, <1>4, ListSet DEF CallsTyped
<1>6. ~sent[c]
  BY <1>1, <1>2, Owned, NextOf
<1>7. PumpsTyped'
  BY <1>1, <1>2 DEF PumpsTyped
<1>8. l \in {ConsoleAll, NetworkAll} => t \in Streams \ pumping
  BY <1>3, Plans, Distinct DEF Tools, Streams
<1>9. OneStarter'
  <2>1. WillSubscribe(c)' => t \in Streams \ pumping /\ pumps[t] = 0
    BY <1>1, <1>4, <1>5, <1>8, Distinct DEF OneStarter, WillSubscribe, PumpsTyped
  <2>2. \A d \in Calls \ {c} : WillSubscribe(d)' => WillSubscribe(d) /\ tool[d] \in pumping
    BY <1>1, <1>5, NextOf DEF OneStarter, WillSubscribe, Streams
  <2> QED
    BY <1>1, <1>2, <1>5, <2>1, <2>2 DEF OneStarter
<1>10. Progress'
  BY <1>1, <1>2, <1>4, <1>5, <1>6, Distinct DEF Progress
<1>11. Flow'
  BY <1>1, <1>2, FlowKept
<1>12. t \in Streams \ pumping => l # Nothing
  BY <1>3, Plans, Distinct DEF Streams
<1>13. StartsOrStreams'
  BY <1>1, <1>2, <1>5, <1>12, NextOf DEF StartsOrStreams, Streaming
<1> QED
  BY <1>5, <1>7, <1>9, <1>10, <1>11, <1>13 DEF IInv

\* The call that set the mark starts the pump.
LEMMA SubscribeStep ==
  ASSUME IInv, NEW c \in Calls, Subscribe(c)
  PROVE  IInv'
<1>1. CallsTyped /\ PumpsTyped /\ OneStarter /\ Progress /\ Flow /\ StartsOrStreams
  BY DEF IInv
<1>2. /\ Done(c) /\ pumps' = [pumps EXCEPT ![tool[c]] = @ + 1]
      /\ UNCHANGED <<pumping, enabled, browser, tool, sent, ok, logged, msgVars, failed, early>>
  BY DEF Subscribe
<1>3. todo[c] \in {ConsoleAll, NetworkPump} /\ todo[c] # Nothing /\ ~sent[c]
  BY <1>1, NextOf, Owned, Distinct DEF Subscribe, Domains
<1>4. /\ tool[c] \in Streams /\ tool[c] \in pumping /\ pumps[tool[c]] = 0
      /\ todo[c] = ConsoleAll <=> tool[c] = "console"
  BY <1>1, <1>3, NextOf, Distinct DEF OneStarter, WillSubscribe, Streams
<1>5. pumps'[tool[c]] = 1 /\ \A s \in Streams \ {tool[c]} : pumps'[s] = pumps[s]
  BY <1>1, <1>2, <1>4 DEF PumpsTyped
<1>6. PumpsTyped'
  BY <1>1, <1>2, <1>4 DEF PumpsTyped
<1>7. CallsTyped'
  BY <1>1, <1>2, <1>3, Advance DEF CallsTyped
<1>8. /\ \A d \in Calls \ {c} : todo'[d] = todo[d] /\ NextStep(d)' = NextStep(d)
      /\ todo'[c] = (IF tool[c] = "console" THEN ConsoleEnables ELSE Nothing)
  BY <1>1, <1>2, <1>3, <1>4, Advance, Rests
<1>9. OneStarter'
  <2>1. ~WillSubscribe(c)'
    BY <1>8, Distinct DEF WillSubscribe
  <2>2. \A d \in Calls \ {c} : WillSubscribe(d) => tool[d] # tool[c] /\ tool[d] \in Streams
    BY <1>1, <1>3, NextOf DEF OneStarter, WillSubscribe, Streams
  <2> QED
    BY <1>1, <1>2, <1>4, <1>5, <1>8, <2>1, <2>2 DEF OneStarter, WillSubscribe
<1>10. pumps["console"] = 1 => pumps'["console"] = 1
  BY <1>4, <1>5 DEF Streams
<1>11. Progress'
  BY <1>1, <1>2, <1>3, <1>4, <1>5, <1>8, <1>10, Distinct DEF Progress, Streams
<1>12. Flow'
  BY <1>1, <1>2, <1>10, SubscribedFlow
<1>13. StartsOrStreams'
  <2>1. \A s \in Streams : Streaming(s) => Streaming(s)'
    BY <1>2, <1>4, <1>5 DEF Streaming
  <2>2. tool[c] = "network" => Streaming("network")'
    BY <1>1, <1>2, <1>3, <1>4, <1>5, Distinct DEF Progress, Streaming, Streams
  <2>3. tool[c] = "console" => todo'[c] # Nothing
    BY <1>8, Distinct
  <2> SUFFICES ASSUME ~failed, NEW s \in pumping
               PROVE  \/ Streaming(s)'
                      \/ \E d \in Calls : tool[d] = s /\ todo'[d] # Nothing
    BY <1>2 DEF StartsOrStreams
  <2>4. s \in Streams
    BY <1>1 DEF PumpsTyped
  <2>5. CASE s = tool[c]
    BY <1>4, <2>2, <2>3, <2>5 DEF Streams
  <2>6. CASE s # tool[c]
    <3>1. Streaming(s) \/ \E d \in Calls \ {c} : tool[d] = s /\ todo[d] # Nothing
      BY <1>1, <2>6 DEF StartsOrStreams
    <3> QED
      BY <1>8, <2>1, <2>4, <3>1
  <2> QED
    BY <2>5, <2>6
<1> QED
  BY <1>6, <1>7, <1>9, <1>11, <1>12, <1>13 DEF IInv

\* A call passes a domain that the browser has enabled.
LEMMA DomainPassed ==
  ASSUME IInv, NEW c \in Calls, Done(c), NextStep(c) \in browser, ~sent'[c],
         sent' \in [Calls -> BOOLEAN], \A d \in Calls \ {c} : sent'[d] = sent[d],
         enabled' \subseteq browser,
         UNCHANGED <<pumping, pumps, browser, tool, ok, logged, msgVars, failed, early>>
  PROVE  IInv'
<1>1. CallsTyped /\ PumpsTyped /\ OneStarter /\ Progress /\ Flow /\ StartsOrStreams
  BY DEF IInv
<1>2. /\ NextStep(c) \in Domains /\ todo[c] # Nothing
      /\ todo[c] \in {ConsoleEnables, ConsoleLog, NetworkAll, FillRuntime, BodyNetwork}
  BY <1>1, NextOf, Distinct DEF PumpsTyped, Domains
<1>3. CallsTyped'
  BY <1>1, <1>2, Advance DEF CallsTyped
<1>4. /\ \A d \in Calls \ {c} : todo'[d] = todo[d] /\ NextStep(d)' = NextStep(d)
      /\ todo'[c] = Tail(todo[c])
  BY <1>1, <1>2, Advance
<1>5. PumpsTyped'
  BY <1>1 DEF PumpsTyped
<1>6. todo[c] = NetworkAll <=> WillSubscribe(c)'
  BY <1>2, <1>4, Rests, Distinct DEF WillSubscribe
<1>7. OneStarter'
  BY <1>1, <1>2, <1>4, <1>6 DEF OneStarter, WillSubscribe
<1>8. /\ todo'[c] = ConsoleLog => todo[c] = ConsoleEnables /\ "Runtime" \in browser
      /\ todo'[c] = NetworkPump => "Network" \in browser
      /\ todo'[c] # ConsoleEnables
  BY <1>2, <1>4, Rests, Distinct DEF NextStep, Nothing
<1>9. Progress'
  BY <1>1, <1>4, <1>8 DEF Progress
<1>10. Flow'
  BY <1>1, FlowKept
<1>11. tool[c] \in Streams /\ todo'[c] = Nothing => Streaming(tool[c])
  <2>1. ASSUME tool[c] \in Streams, todo'[c] = Nothing PROVE todo[c] = ConsoleLog
    BY <1>1, <1>2, <1>4, <2>1, Rests, Distinct DEF CallsTyped, TodoOf, Streams
  <2>2. todo[c] = ConsoleLog => NextStep(c) = "Log" /\ tool[c] = "console"
    BY <1>1, Rests, NextOf, Distinct DEF NextStep, Nothing
  <2> QED
    BY <1>1, <2>1, <2>2 DEF Progress, Streaming
<1>12. StartsOrStreams'
  <2>1. \A s : Streaming(s) => Streaming(s)'
    BY DEF Streaming
  <2>2. ASSUME NEW s \in pumping, NEW d \in Calls, tool[d] = s, todo[d] # Nothing
        PROVE  Streaming(s)' \/ \E e \in Calls : tool'[e] = s /\ todo'[e] # Nothing
    BY <1>1, <1>4, <1>11, <2>1, <2>2 DEF PumpsTyped
  <2> QED
    BY <1>1, <2>1, <2>2 DEF StartsOrStreams
<1> QED
  BY <1>3, <1>5, <1>7, <1>9, <1>10, <1>12 DEF IInv

\* Enabled before, by this call or another.
LEMMA AlreadyEnabledStep ==
  ASSUME IInv, NEW c \in Calls, AlreadyEnabled(c)
  PROVE  IInv'
BY DomainPassed DEF AlreadyEnabled, IInv, CallsTyped, PumpsTyped

\* Enabled by this call.
LEMMA EnableAnsweredStep ==
  ASSUME IInv, NEW c \in Calls, EnableAnswered(c)
  PROVE  IInv'
<1>1. NextStep(c) \in browser /\ sent' \in [Calls -> BOOLEAN] /\ ~sent'[c]
      /\ \A d \in Calls \ {c} : sent'[d] = sent[d]
  BY DEF EnableAnswered, IInv, Progress, CallsTyped
<1>2. enabled' \subseteq browser
  BY <1>1 DEF EnableAnswered, IInv, PumpsTyped
<1> QED
  BY <1>1, <1>2, DomainPassed DEF EnableAnswered

\* The browser executes an enable; with Runtime it replays what was logged.
LEMMA SendEnableStep ==
  ASSUME IInv, NEW c \in Calls, SendEnable(c)
  PROVE  IInv'
<1>1. CallsTyped /\ PumpsTyped /\ OneStarter /\ Progress /\ Flow /\ StartsOrStreams
  BY DEF IInv
<1>2. /\ NextStep(c) \in Domains /\ browser' = browser \cup {NextStep(c)}
      /\ sent' = [sent EXCEPT ![c] = TRUE]
      /\ UNCHANGED <<pumping, pumps, enabled, tool, todo, ok, logged, failed>>
  BY DEF SendEnable
<1>3. CallsTyped'
  BY <1>1, <1>2 DEF CallsTyped
<1>4. \A d \in Calls : NextStep(d)' = NextStep(d)
  BY <1>2 DEF NextStep
<1>5. OneStarter'
  BY <1>1, <1>2 DEF OneStarter, WillSubscribe
<1>6. Progress'
  BY <1>1, <1>2, <1>4 DEF Progress, CallsTyped
<1>7. StartsOrStreams'
  BY <1>1, <1>2 DEF StartsOrStreams, Streaming
<1>8. CASE NextStep(c) = "Runtime" /\ "Runtime" \notin browser
  <2>1. /\ wire' = wire \o [n \in 1 .. logged |-> n]
        /\ early' = (tool[c] # "console" /\ pumps["console"] = 0)
        /\ UNCHANGED <<queued, stored, dropped>>
    BY <1>8 DEF SendEnable
  <2>2. wire = <<>> /\ queued = <<>> /\ stored = <<>>
    BY <1>1, <1>8 DEF Flow, Accounted
  <2>3. pumps["console"] \in {0, 1} /\ (tool[c] = "console" => pumps["console"] = 1)
    BY <1>1, <1>8, NextOf, Distinct DEF PumpsTyped, Streams, Progress, CallsTyped, TodoOf
  <2>4. logged \in Nat /\ logged' = logged
    BY <1>1, <1>2, MaxMsgsAssumption DEF PumpsTyped
  <2> DEFINE replay == [n \in 1 .. logged |-> n]
  <2>5. replay \in Seq(Nat) /\ Len(replay) = logged
    BY <2>4
  <2>6. wire' = replay
    <3>1. <<>> \o replay = replay
      BY <2>5
    <3> QED BY <2>1, <2>2, <3>1
  <2>7. InLine'
    <3>1. Ascending(replay) /\ \A k \in 1 .. Len(replay) : replay[k] <= logged
      BY <2>4, <2>5 DEF Ascending
    <3>2. queued' = <<>> /\ stored' = <<>> /\ Len(queued') = 0 /\ Len(stored') = 0
      BY <2>1, <2>2
    <3>3. Ascending(wire)' /\ Logged(wire)'
      BY <2>4, <2>6, <3>1 DEF Ascending, Logged
    <3>4. Ascending(queued)' /\ Ascending(stored)' /\ Logged(queued)' /\ Logged(stored)'
      BY <3>2 DEF Ascending, Logged
    <3>5. Earlier(stored, queued)' /\ Earlier(stored, wire)' /\ Earlier(queued, wire)'
      BY <3>2 DEF Earlier
    <3>6. wire' \in Seq(Nat) /\ queued' \in Seq(Nat) /\ stored' \in Seq(Nat)
      BY <2>5, <2>6, <3>2
    <3> QED BY <3>3, <3>4, <3>5, <3>6 DEF InLine
  <2>8. \A n \in 1 .. logged' : Where(n)'
    <3>1. \A n \in 1 .. logged : Listed(n, replay)
      BY <2>4, <2>5 DEF Listed
    <3> QED BY <2>4, <2>6, <3>1 DEF Where, Listed
  <2>9. Accounted'
    BY <1>2, <1>8, <2>1, <2>3, <2>8 DEF Accounted
  <2>10. PumpsTyped'
    BY <1>1, <1>2, <2>1 DEF PumpsTyped
  <2> QED
    BY <1>3, <1>5, <1>6, <1>7, <2>7, <2>9, <2>10 DEF IInv, Flow
<1>9. CASE ~(NextStep(c) = "Runtime" /\ "Runtime" \notin browser)
  <2>1. UNCHANGED <<msgVars, early>> /\ ("Runtime" \in browser' <=> "Runtime" \in browser)
    BY <1>2, <1>9 DEF SendEnable, msgVars
  <2>2. Flow'
    <3>1. InLine'
      BY <1>1, <1>2, <2>1 DEF Flow, InLine, Earlier, Logged, Ascending, msgVars
    <3>2. Accounted'
      BY <1>1, <1>2, <2>1 DEF Flow, Accounted, Where, Listed, msgVars
    <3> QED BY <3>1, <3>2 DEF Flow
  <2>3. PumpsTyped'
    BY <1>1, <1>2, <2>1 DEF PumpsTyped
  <2> QED
    BY <1>3, <1>5, <1>6, <1>7, <2>2, <2>3 DEF IInv
<1> QED
  BY <1>8, <1>9

\* A call ends, with what it was to do done, or with an error.
LEMMA EndStep ==
  ASSUME IInv, NEW c \in Calls, tool[c] # "none",
         tool' = [tool EXCEPT ![c] = "none"], todo' = [todo EXCEPT ![c] = <<>>],
         sent' = [sent EXCEPT ![c] = FALSE], ok' \subseteq pumping,
         failed' \in BOOLEAN, ~failed' => ~failed /\ todo[c] = Nothing,
         UNCHANGED <<pumping, pumps, enabled, browser, logged, msgVars, early>>
  PROVE  IInv'
<1>1. CallsTyped /\ PumpsTyped /\ OneStarter /\ Progress /\ Flow /\ StartsOrStreams
  BY DEF IInv
<1>2. sent' \in [Calls -> BOOLEAN] /\ ~sent'[c] /\ \A d \in Calls \ {c} : sent'[d] = sent[d]
  BY <1>1 DEF CallsTyped
<1>3. Nothing \in TodoOf("none") /\ todo' = [todo EXCEPT ![c] = Nothing]
  BY DEF TodoOf, Nothing
<1>4. /\ CallsTyped' /\ todo'[c] = Nothing /\ tool'[c] = "none"
      /\ \A d \in Calls \ {c} : /\ todo'[d] = todo[d] /\ tool'[d] = tool[d]
                                /\ NextStep(d)' = NextStep(d)
  BY <1>1, <1>2, <1>3, ListSet
<1>5. PumpsTyped'
  BY <1>1 DEF PumpsTyped
<1>6. OneStarter'
  BY <1>1, <1>4, Distinct DEF OneStarter, WillSubscribe, Streams
<1>7. Progress'
  BY <1>1, <1>2, <1>4, Distinct DEF Progress
<1>8. Flow'
  BY <1>1, FlowKept
<1>9. StartsOrStreams'
  BY <1>1, <1>4 DEF StartsOrStreams, Streaming
<1> QED
  BY <1>4, <1>5, <1>6, <1>7, <1>8, <1>9 DEF IInv

\* ... with an error,
LEMMA EnableFailedStep ==
  ASSUME IInv, NEW c \in Calls, EnableFailed(c)
  PROVE  IInv'
<1>1. tool[c] # "none"
  BY NextOf DEF EnableFailed, IInv, Domains
<1> QED
  BY <1>1, EndStep DEF EnableFailed, IInv, PumpsTyped

\* ... or without.
LEMMA ReturnStep ==
  ASSUME IInv, NEW c \in Calls, Return(c)
  PROVE  IInv'
<1>1. todo[c] = Nothing /\ tool[c] # "none" /\ ~sent[c]
  BY Owned DEF Return, IInv, Nothing
<1>2. todo' = [todo EXCEPT ![c] = <<>>] /\ sent' = [sent EXCEPT ![c] = FALSE]
  BY <1>1 DEF Return, IInv, CallsTyped, Nothing
<1>3. ok' \subseteq pumping
  BY <1>1 DEF Return, IInv, PumpsTyped, OneStarter
<1> QED
  BY <1>1, <1>2, <1>3, EndStep DEF Return, IInv, PumpsTyped

\* The page logs a message.
LEMMA LogMessageStep ==
  ASSUME IInv, LogMessage
  PROVE  IInv'
<1>1. CallsTyped /\ PumpsTyped /\ OneStarter /\ Progress /\ Flow /\ StartsOrStreams
  BY DEF IInv
<1>2. /\ logged < MaxMsgs /\ logged' = logged + 1
      /\ UNCHANGED <<pumping, pumps, enabled, browser, tool, todo, sent, ok, failed, early>>
  BY DEF LogMessage
<1>3. CallsTyped' /\ OneStarter' /\ StartsOrStreams'
  BY <1>1, <1>2 DEF CallsTyped, OneStarter, WillSubscribe, StartsOrStreams, Streaming
<1>4. Progress'
  BY <1>1, <1>2 DEF Progress, NextStep
<1>5. logged \in Nat /\ PumpsTyped'
  BY <1>1, <1>2, MaxMsgsAssumption DEF PumpsTyped
<1>6. CASE "Runtime" \in browser
  <2> DEFINE x == logged + 1
  <2>1. wire' = Append(wire, x) /\ UNCHANGED <<queued, stored, dropped>>
    BY <1>2, <1>6 DEF LogMessage
  <2>2. x \in Nat /\ logged < x /\ logged' = x
    BY <1>2, <1>5
  <2>3. wire \in Seq(Nat) /\ queued \in Seq(Nat) /\ stored \in Seq(Nat)
    BY <1>1 DEF Flow, InLine
  <2>4. /\ \A k \in 1 .. Len(wire) : wire[k] \in Nat /\ wire[k] <= logged /\ wire[k] < x
        /\ \A k \in 1 .. Len(queued) : queued[k] \in Nat /\ queued[k] <= logged /\ queued[k] < x
        /\ \A k \in 1 .. Len(stored) : stored[k] \in Nat /\ stored[k] <= logged /\ stored[k] < x
    BY <1>1, <1>5, <2>3, ElementOfSeq DEF Flow, InLine, Logged
  <2> HIDE DEF x
  <2>5. /\ wire' \in Seq(Nat) /\ Ascending(wire')
        /\ Len(wire') = Len(wire) + 1 /\ wire'[Len(wire) + 1] = x
        /\ \A k \in 1 .. Len(wire) : wire'[k] = wire[k]
        /\ \A k \in 1 .. Len(wire') : k \in 1 .. Len(wire) \/ k = Len(wire) + 1
    BY <1>1, <2>1, <2>2, <2>3, <2>4, PutBehind DEF Flow, InLine
  <2>6. Len(wire) \in Nat
    BY <2>3, LenProperties
  <2>7. InLine'
    <3>1. Logged(wire)' /\ Logged(queued)' /\ Logged(stored)'
      BY <1>5, <2>1, <2>2, <2>4, <2>5 DEF Logged
    <3>2. Earlier(stored, wire)' /\ Earlier(queued, wire)' /\ Earlier(stored, queued)'
      BY <1>1, <2>1, <2>4, <2>5 DEF Flow, InLine, Earlier
    <3> QED BY <1>1, <2>1, <2>5, <3>1, <3>2 DEF Flow, InLine, Ascending
  <2>8. ASSUME ~early, NEW n \in 1 .. logged' PROVE Where(n)'
    <3>1. n \in 1 .. logged \/ n = x
      BY <1>5, <2>2 DEF x
    <3>2. CASE n = x
      BY <2>5, <2>6, <3>2 DEF Where, Listed
    <3>3. CASE n \in 1 .. logged
      <4>1. Where(n)
        BY <1>1, <1>6, <2>8, <3>3 DEF Flow, Accounted
      <4>2. Listed(n, wire) => Listed(n, wire')
        BY <2>5, <2>6 DEF Listed
      <4> QED BY <2>1, <4>1, <4>2 DEF Where
    <3> QED BY <3>1, <3>2, <3>3
  <2>9. Accounted'
    BY <1>1, <1>2, <1>6, <2>8 DEF Flow, Accounted
  <2> QED
    BY <1>3, <1>4, <1>5, <2>7, <2>9 DEF IInv, Flow
<1>7. CASE "Runtime" \notin browser
  <2>1. UNCHANGED msgVars
    BY <1>7 DEF LogMessage, msgVars
  <2>2. wire = <<>> /\ queued = <<>> /\ stored = <<>>
    BY <1>1, <1>7 DEF Flow, Accounted
  <2>3. Len(wire') = 0 /\ Len(queued') = 0 /\ Len(stored') = 0
    BY <2>1, <2>2 DEF msgVars
  <2>4. Logged(wire)' /\ Logged(queued)' /\ Logged(stored)'
    BY <2>3 DEF Logged
  <2>5. InLine'
    BY <1>1, <2>1, <2>4 DEF Flow, InLine, Ascending, Earlier, msgVars
  <2>6. Accounted'
    BY <1>2, <1>7, <2>1, <2>2 DEF Accounted, msgVars
  <2> QED
    BY <1>3, <1>4, <1>5, <2>5, <2>6 DEF IInv, Flow
<1> QED
  BY <1>6, <1>7

\* The read loop and the pump touch nothing but the messages.
LEMMA MessageStep ==
  ASSUME IInv, Flow',
         UNCHANGED <<pumping, pumps, enabled, browser, tool, todo, sent, ok, logged, failed,
                     early>>
  PROVE  IInv'
<1>1. CallsTyped' /\ PumpsTyped'
  BY DEF IInv, CallsTyped, PumpsTyped
<1>2. OneStarter' /\ Progress' /\ StartsOrStreams'
  BY DEF IInv, OneStarter, WillSubscribe, Progress, NextStep, StartsOrStreams, Streaming
<1> QED BY <1>1, <1>2 DEF IInv

\* The read loop moves a message into the channel, drops it or finds nobody
\* subscribed.
LEMMA DeliverStep ==
  ASSUME IInv, deliverEvent
  PROVE  IInv'
<1>1. PumpsTyped /\ InLine /\ Accounted
  BY DEF IInv, Flow
<1> DEFINE h == Head(wire)
<1>2. /\ wire # <<>> /\ wire' = Tail(wire) /\ stored' = stored
      /\ UNCHANGED <<pumping, pumps, enabled, browser, tool, todo, sent, ok, logged, failed,
                     early>>
  BY DEF deliverEvent
<1>3. pumps["console"] \in {0, 1}
  BY <1>1 DEF PumpsTyped, Streams
<1>4. /\ wire \in Seq(Nat) /\ queued \in Seq(Nat) /\ stored \in Seq(Nat)
      /\ Len(queued) \in Nat
  BY <1>1, LenProperties DEF InLine
<1>5. /\ h \in Nat /\ wire' \in Seq(Nat) /\ Ascending(wire') /\ h = wire[1]
      /\ 1 \in 1 .. Len(wire)
      /\ \A k \in 1 .. Len(wire') : /\ k + 1 \in 1 .. Len(wire) /\ wire'[k] = wire[k + 1]
                                     /\ h < wire'[k]
      /\ \A n : Listed(n, wire) => n = h \/ Listed(n, wire')
  BY <1>1, <1>2, <1>4, TakeFirst DEF InLine
<1>6. \/ queued' = queued /\ (pumps["console"] = 1 => h \in dropped')
      \/ queued' = Append(queued, h)
  <2>1. CASE Len(queued) < ChannelCap
    <3>1. queued' = queued \o copies(h)
      BY <2>1 DEF deliverEvent
    <3>2. CASE pumps["console"] = 0
      <4>1. copies(h) = <<>>
        BY <3>2 DEF copies
      <4> QED BY <1>4, <3>1, <3>2, <4>1
    <3>3. CASE pumps["console"] = 1
      <4>1. copies(h) = <<h>>
        <5>1. 1 .. 1 = {1}
          OBVIOUS
        <5> QED BY <3>3, <5>1 DEF copies
      <4>2. queued \o <<h>> = Append(queued, h)
        BY <1>4, <1>5
      <4> QED BY <3>1, <4>1, <4>2
    <3> QED BY <1>3, <3>2, <3>3
  <2>2. CASE ~(Len(queued) < ChannelCap)
    BY <2>2 DEF deliverEvent
  <2> QED BY <2>1, <2>2
<1>7. dropped \subseteq dropped'
  BY DEF deliverEvent
<1> HIDE DEF h
<1>8. /\ h <= logged /\ \A k \in 1 .. Len(stored) : stored[k] < h
      /\ \A k \in 1 .. Len(queued) : queued[k] < h
  BY <1>1, <1>5 DEF InLine, Logged, Earlier
<1>9. Logged(wire)' /\ Earlier(stored, wire)'
  BY <1>1, <1>2, <1>5 DEF InLine, Logged, Earlier
<1>10. CASE queued' = queued /\ (pumps["console"] = 1 => h \in dropped')
  <2>1. InLine'
    BY <1>1, <1>2, <1>5, <1>9, <1>10 DEF InLine, Logged, Earlier, Ascending
  <2>2. Accounted'
    BY <1>1, <1>2, <1>5, <1>7, <1>10 DEF Accounted, Where
  <2> QED BY <1>2, <2>1, <2>2, MessageStep DEF Flow
<1>11. CASE queued' = Append(queued, h)
  <2>1. /\ queued' \in Seq(Nat) /\ Ascending(queued')
        /\ Len(queued') = Len(queued) + 1 /\ queued'[Len(queued) + 1] = h
        /\ \A k \in 1 .. Len(queued) : queued'[k] = queued[k]
        /\ \A k \in 1 .. Len(queued') : k \in 1 .. Len(queued) \/ k = Len(queued) + 1
    <3>1. queued \in Seq(Nat) /\ h \in Nat /\ Ascending(queued)
      BY <1>1, <1>4, <1>5 DEF InLine
    <3> QED BY <1>8, <1>11, <3>1, PutBehind
  <2>2. Logged(queued)' /\ Earlier(stored, queued)'
    BY <1>1, <1>2, <1>8, <2>1 DEF InLine, Logged, Earlier
  <2>3. Earlier(queued, wire)'
    <3>1. \A j \in 1 .. Len(queued), k \in 1 .. Len(wire') : queued[j] < wire'[k]
      BY <1>1, <1>5 DEF InLine, Earlier
    <3> QED BY <1>5, <2>1, <3>1 DEF Earlier
  <2>4. InLine'
    BY <1>1, <1>2, <1>5, <1>9, <2>1, <2>2, <2>3 DEF InLine, Logged, Ascending
  <2>5. \A n : Listed(n, queued) \/ n = h => Listed(n, queued')
    BY <1>4, <2>1, ListedBehind
  <2>6. Accounted'
    BY <1>1, <1>2, <1>5, <1>7, <2>5 DEF Accounted, Where
  <2> QED BY <1>2, <2>4, <2>6, MessageStep DEF Flow
<1> QED BY <1>6, <1>10, <1>11

\* The pump takes the first message into the buffer.
LEMMA PumpStep ==
  ASSUME IInv, pumpConsole
  PROVE  IInv'
<1>1. InLine /\ Accounted
  BY DEF IInv, Flow
<1> DEFINE h == Head(queued)
<1>2. /\ queued # <<>> /\ queued' = Tail(queued) /\ stored' = Append(stored, h)
      /\ UNCHANGED <<wire, dropped>>
      /\ UNCHANGED <<pumping, pumps, enabled, browser, tool, todo, sent, ok, logged, failed,
                     early>>
  BY DEF pumpConsole
<1>3. /\ wire \in Seq(Nat) /\ queued \in Seq(Nat) /\ stored \in Seq(Nat)
      /\ Len(stored) \in Nat
  BY <1>1, LenProperties DEF InLine
<1>4. /\ h \in Nat /\ queued' \in Seq(Nat) /\ Ascending(queued') /\ h = queued[1]
      /\ 1 \in 1 .. Len(queued)
      /\ \A k \in 1 .. Len(queued') : /\ k + 1 \in 1 .. Len(queued)
                                       /\ queued'[k] = queued[k + 1] /\ h < queued'[k]
      /\ \A n : Listed(n, queued) => n = h \/ Listed(n, queued')
  BY <1>1, <1>2, <1>3, TakeFirst DEF InLine
<1> HIDE DEF h
<1>5. h <= logged /\ \A k \in 1 .. Len(stored) : stored[k] < h
  BY <1>1, <1>4 DEF InLine, Logged, Earlier
<1>6. /\ stored' \in Seq(Nat) /\ Ascending(stored')
      /\ Len(stored') = Len(stored) + 1 /\ stored'[Len(stored) + 1] = h
      /\ \A k \in 1 .. Len(stored) : stored'[k] = stored[k]
      /\ \A k \in 1 .. Len(stored') : k \in 1 .. Len(stored) \/ k = Len(stored) + 1
  <2>1. stored \in Seq(Nat) /\ h \in Nat /\ Ascending(stored)
    BY <1>1, <1>3, <1>4 DEF InLine
  <2> QED BY <1>2, <1>5, <2>1, PutBehind
<1>7. InLine'
  <2>1. Logged(queued)' /\ Logged(stored)' /\ Earlier(queued, wire)'
    BY <1>1, <1>2, <1>4, <1>5, <1>6 DEF InLine, Logged, Earlier
  <2>2. Earlier(stored, wire)'
    BY <1>1, <1>2, <1>4, <1>6 DEF InLine, Earlier
  <2>3. Earlier(stored, queued)'
    <3>1. \A j \in 1 .. Len(stored), k \in 1 .. Len(queued') : stored[j] < queued'[k]
      BY <1>1, <1>4 DEF InLine, Earlier
    <3> QED BY <1>4, <1>6, <3>1 DEF Earlier
  <2> QED BY <1>1, <1>2, <1>3, <1>4, <1>6, <2>1, <2>2, <2>3 DEF InLine, Logged, Ascending
<1>8. \A n : Listed(n, stored) \/ n = h => Listed(n, stored')
  BY <1>3, <1>6, ListedBehind
<1>9. Accounted'
  BY <1>1, <1>2, <1>4, <1>8 DEF Accounted, Where
<1> QED BY <1>2, <1>7, <1>9, MessageStep DEF Flow

\* The connection goes, while no call is under way.
LEMMA ReconnectStep ==
  ASSUME IInv, Reconnect
  PROVE  IInv'
<1>1. CallsTyped /\ PumpsTyped /\ OneStarter /\ Progress /\ Flow /\ StartsOrStreams
  BY DEF IInv
<1>2. \A c \in Calls : tool[c] = "none" /\ todo[c] = Nothing /\ ~sent[c]
  BY <1>1, NextOf, Owned DEF Reconnect
<1>3. CallsTyped' /\ PumpsTyped'
  BY <1>1 DEF Reconnect, CallsTyped, PumpsTyped, Streams
<1>4. OneStarter'
  BY <1>2, Distinct DEF Reconnect, OneStarter, WillSubscribe, Streams
<1>5. Progress'
  BY <1>2, Distinct DEF Reconnect, Progress
<1>6. Flow'
  BY DEF Reconnect, Flow, InLine, Accounted, Earlier, Logged, Ascending
<1>7. StartsOrStreams'
  BY DEF Reconnect, StartsOrStreams
<1> QED
  BY <1>3, <1>4, <1>5, <1>6, <1>7 DEF IInv

-----------------------------------------------------------------------------
(* The theorems.                                                           *)

\* Nothing runs and nothing is marked.
LEMMA Initial == Init => IInv
<1>1. SUFFICES ASSUME Init PROVE IInv
  OBVIOUS
<1>2. \A c \in Calls : todo[c] = Nothing /\ tool[c] = "none" /\ ~sent[c]
  BY <1>1 DEF Init, Nothing
<1>3. CallsTyped
  BY <1>1, <1>2 DEF Init, CallsTyped, TodoOf, Lists
<1>4. PumpsTyped
  <2>1. logged \in 0 .. MaxMsgs
    BY <1>1, MaxMsgsAssumption DEF Init
  <2>2. pumps \in [Streams -> {0, 1}]
    BY <1>1 DEF Init
  <2> QED
    BY <1>1, <2>1, <2>2 DEF Init, PumpsTyped
<1>5. OneStarter /\ Progress
  BY <1>1, <1>2, Distinct DEF Init, OneStarter, Progress, WillSubscribe, Streams
<1>6. Flow /\ StartsOrStreams
  BY <1>1 DEF Init, Flow, InLine, Accounted, Earlier, Logged, Ascending, StartsOrStreams
<1> QED
  BY <1>3, <1>4, <1>5, <1>6 DEF IInv

\* The steps together.
LEMMA Inductive == IInv /\ [Next]_vars => IInv'
<1>1. SUFFICES ASSUME IInv, [Next]_vars PROVE IInv'
  OBVIOUS
<1>2. CASE UNCHANGED vars
  <2>1. Flow'
    BY <1>1, <1>2, FlowKept DEF vars, IInv
  <2> QED
    BY <1>1, <1>2, <2>1, MessageStep DEF vars
<1>3. CASE Next
  BY <1>1, <1>3, BeginStep, SubscribeStep, AlreadyEnabledStep, SendEnableStep,
     EnableAnsweredStep, EnableFailedStep, ReturnStep, LogMessageStep, DeliverStep, PumpStep,
     ReconnectStep DEF Next
<1> QED
  BY <1>1, <1>2, <1>3

\* IInv is an invariant of EventPump.
LEMMA Invariance == Spec => []IInv
<1>1. IInv /\ [Next]_vars => IInv'
  BY Inductive
<1> QED
  BY <1>1, Initial, PTL DEF Spec

\* The pump's loop and the requests leave the start of the pumps alone: Network
\* implements EventPump (eventpump.go:293-329).
THEOREM NetworkImplementsPump == NetSpec => Spec
<1>1. NetInit => Init
  BY DEF NetInit
<1>2. [NetNext]_allVars => [Next]_vars
  BY DEF NetNext, Next, allVars, RequestEvent, dispatchNetworkEvent, NetReconnect
<1> QED
  BY <1>1, <1>2, PTL DEF NetSpec, Spec

\* However many calls start a pump at once, one does, and the buffer holds the
\* messages in their order, none twice (eventpump.go:27-29, 49-56).
THEOREM OnePump == NetSpec => []NoMessageTwice
<1>1. IInv => NoMessageTwice
  <2>1. ASSUME IInv, NEW s \in Streams PROVE pumps[s] <= 1
    <3>1. pumps[s] \in {0, 1}
      BY <2>1 DEF IInv, PumpsTyped
    <3> QED BY <3>1
  <2>2. IInv => Ascending(stored)
    BY DEF IInv, Flow, InLine
  <2> QED BY <2>1, <2>2 DEF NoMessageTwice
<1> QED
  BY <1>1, Invariance, NetworkImplementsPump, PTL

\* Unless another tool has enabled Runtime before, every message is in the
\* buffer, on its way there, or was dropped by a full channel
\* (eventpump.go:31-46, connection.go:190-201).
THEOREM ConsoleComplete == NetSpec => []ConsoleIsComplete
<1>1. IInv => ConsoleIsComplete
  BY DEF IInv, Flow, Accounted, Where, ConsoleIsComplete
<1> QED
  BY <1>1, Invariance, NetworkImplementsPump, PTL

\* A tool that has returned without an error streams once no call is under way,
\* as long as no enable has failed (eventpump.go:25-47, 277-293).
THEOREM OkMeansStreaming == NetSpec => []OkMeansStreamingUnlessFailed
<1>1. ASSUME IInv, Idle, ~failed, NEW s \in ok PROVE Streaming(s)
  <2>1. \A c \in Calls : todo[c] = Nothing
    BY <1>1, NextOf DEF IInv, Idle
  <2> QED
    BY <1>1, <2>1 DEF IInv, PumpsTyped, StartsOrStreams
<1>2. IInv => OkMeansStreamingUnlessFailed
  BY <1>1 DEF OkMeansStreamingUnlessFailed
<1> QED
  BY <1>2, Invariance, NetworkImplementsPump, PTL
-----------------------------------------------------------------------------
(* The join of network events into records.  JoinInv is inductive: the     *)
(* channel keeps the order of the events of a request (InOrder), an entry  *)
(* has what the pump was told of a request under way (EntriesRight), and a *)
(* record what it was told of one that has ended (RecordsRight).           *)

\* What can happen to a request, in the order in which it happens.
Kinds == {"sent", "redirect", "response", "end"}
Rank(s) ==
  CASE s = "none" -> 0 [] s = "sent" -> 1 [] s = "redirect" -> 2 [] s = "response" -> 3
    [] s = "end" -> 4

Entries == [id : Requests, url : BOOLEAN, response : BOOLEAN]

\* The events of a request that wait in the channel, and those that the pump
\* has handled.
Waiting(r) == {kind \in Kinds : \E k \in DOMAIN channel :
                                  channel[k] = [id |-> r, kind |-> kind]}
Handled(r) == heard[r] \ Waiting(r)

JoinTyped ==
  /\ stage \in [Requests -> Kinds \cup {"none"}]
  /\ channel \in Seq([id : Requests, kind : Kinds])
  /\ pending \in Seq(Entries) /\ records \subseteq Entries
  /\ heard \in [Requests -> SUBSET Kinds]

\* The channel keeps the order of the events of a request.
InOrder ==
  /\ \A r \in Requests : Waiting(r) \subseteq heard[r]
  /\ \A r \in Requests : \A a \in heard[r] : Rank(a) <= Rank(stage[r])
  /\ \A r \in Requests : \A a \in Handled(r), b \in Waiting(r) : Rank(a) < Rank(b)
  /\ \A j, k \in DOMAIN channel :
       j < k /\ channel[j].id = channel[k].id =>
         Rank(channel[j].kind) < Rank(channel[k].kind)

\* An entry or a record has what the pump was told of its request.
Told(e) ==
  e.id \notin evicted =>
    /\ e.url = (Handled(e.id) \cap {"sent", "redirect"} # {})
    /\ e.response = ("response" \in Handled(e.id))

\* A request has one entry from its first event to its end, ...
EntriesRight ==
  /\ Len(pending) <= PendingPumpCap
  /\ \A j, k \in DOMAIN pending : pending[j].id = pending[k].id => j = k
  /\ \A k \in DOMAIN pending : Told(pending[k]) /\ "end" \notin Handled(pending[k].id)
  /\ \A r \in Requests \ evicted :
       Handled(r) # {} /\ "end" \notin Handled(r) => \E k \in DOMAIN pending : pending[k].id = r

\* ... and one record after it.
RecordsRight ==
  /\ \A e \in records : Told(e)
  /\ \A r \in Requests : "end" \in Handled(r) <=> \E e \in records : e.id = r
  /\ \A e, f \in records : e.id = f.id => e = f

JoinInv == JoinTyped /\ InOrder /\ EntriesRight /\ RecordsRight

-----------------------------------------------------------------------------
(* The network pump.                                                       *)

\* The order of the events of a request.
LEMMA Ranks ==
  /\ Rank("none") = 0 /\ Rank("sent") = 1 /\ Rank("redirect") = 2 /\ Rank("response") = 3
  /\ Rank("end") = 4
  /\ \A a \in Kinds \cup {"none"} : Rank(a) \in 0 .. 4
<1>1. /\ Rank("none") = 0 /\ Rank("sent") = 1 /\ Rank("redirect") = 2 /\ Rank("response") = 3
      /\ Rank("end") = 4
  BY DEF Rank
<1> QED
  BY <1>1 DEF Kinds

\* An event joins or leaves the events that the pump has handled.
LEMMA HeadIsFirst ==
  ASSUME JoinTyped, InOrder, NEW ev \in [id : Requests, kind : Kinds],
         channel # <<>>, ev = Head(channel), channel' = Tail(channel), UNCHANGED <<stage, heard>>
  PROVE  /\ ev.kind \in Waiting(ev.id)
         /\ Waiting(ev.id)' = Waiting(ev.id) \ {ev.kind}
         /\ \A b \in Waiting(ev.id)' : Rank(ev.kind) < Rank(b)
         /\ Handled(ev.id)' = Handled(ev.id) \cup {ev.kind}
         /\ \A r \in Requests \ {ev.id} : Waiting(r)' = Waiting(r) /\ Handled(r)' = Handled(r)
         /\ JoinTyped' <=> (pending' \in Seq(Entries) /\ records' \subseteq Entries)
         /\ InOrder'
<1>1. /\ Len(channel) \in Nat /\ Len(channel) >= 1 /\ DOMAIN channel = 1 .. Len(channel)
      /\ \A k \in 1 .. Len(channel) : channel[k] \in [id : Requests, kind : Kinds]
  <2>1. channel \in Seq([id : Requests, kind : Kinds])
    BY DEF JoinTyped
  <2>2. Len(channel) \in Nat \ {0}
    BY <2>1, EmptySeq
  <2>3. DOMAIN channel = 1 .. Len(channel)
    BY <2>1, LenProperties
  <2>4. \A k \in 1 .. Len(channel) : channel[k] \in [id : Requests, kind : Kinds]
    BY <2>1, ElementOfSeq
  <2> QED
    BY <2>2, <2>3, <2>4
<1>2. ev = channel[1]
  BY <1>1
<1>3. /\ channel' \in Seq([id : Requests, kind : Kinds]) /\ Len(channel') = Len(channel) - 1
      /\ \A k \in 1 .. Len(channel) - 1 : channel'[k] = channel[k + 1]
  BY HeadTailProperties DEF JoinTyped
<1>4. DOMAIN channel' = 1 .. Len(channel) - 1
  BY <1>1, <1>3
<1>5. \A k \in 2 .. Len(channel) : k - 1 \in DOMAIN channel' /\ channel'[k - 1] = channel[k]
  BY <1>1, <1>3, <1>4
<1>6. \A k \in DOMAIN channel' : k + 1 \in DOMAIN channel /\ channel'[k] = channel[k + 1]
  BY <1>1, <1>3, <1>4
<1>7. ev.id \in Requests /\ ev.kind \in Kinds /\ ev = [id |-> ev.id, kind |-> ev.kind]
  OBVIOUS
<1>8. ev.kind \in Waiting(ev.id)
  BY <1>1, <1>2, <1>7 DEF Waiting
<1>9. ASSUME NEW k \in DOMAIN channel', channel'[k].id = ev.id
      PROVE  Rank(ev.kind) < Rank(channel'[k].kind) /\ channel'[k].kind # ev.kind
  <2>1. /\ k + 1 \in DOMAIN channel /\ channel'[k] = channel[k + 1]
        /\ 1 \in DOMAIN channel /\ 1 < k + 1
    BY <1>1, <1>4, <1>6
  <2>2. Rank(ev.kind) < Rank(channel'[k].kind)
    BY <1>2, <1>9, <2>1 DEF InOrder
  <2>3. Rank(ev.kind) \in Nat
    BY <1>7 DEF Rank, Kinds
  <2> QED
    BY <2>2, <2>3
<1>10. Waiting(ev.id)' = Waiting(ev.id) \ {ev.kind}
  <2>1. ASSUME NEW b \in Waiting(ev.id)' PROVE b \in Waiting(ev.id) /\ b # ev.kind
    <3>1. PICK k \in DOMAIN channel' : b \in Kinds /\ channel'[k] = [id |-> ev.id, kind |-> b]
      BY <2>1 DEF Waiting
    <3> QED
      BY <1>6, <1>9, <3>1 DEF Waiting
  <2>2. ASSUME NEW b \in Waiting(ev.id), b # ev.kind PROVE b \in Waiting(ev.id)'
    <3>1. PICK k \in DOMAIN channel : b \in Kinds /\ channel[k] = [id |-> ev.id, kind |-> b]
      BY DEF Waiting
    <3>2. k # 1
      BY <1>2, <2>2, <3>1
    <3>3. k \in 2 .. Len(channel)
      BY <1>1, <3>1, <3>2
    <3> QED
      BY <1>5, <3>1, <3>3 DEF Waiting
  <2> QED
    BY <2>1, <2>2
<1>11. \A b \in Waiting(ev.id)' : Rank(ev.kind) < Rank(b)
  <2>1. ASSUME NEW b \in Waiting(ev.id)' PROVE Rank(ev.kind) < Rank(b)
    <3>1. PICK k \in DOMAIN channel' : channel'[k] = [id |-> ev.id, kind |-> b]
      BY <2>1 DEF Waiting
    <3> QED
      BY <1>9, <3>1
  <2> QED
    BY <2>1
<1>12. ASSUME NEW r \in Requests \ {ev.id} PROVE Waiting(r)' = Waiting(r)
  <2>1. ASSUME NEW b \in Kinds, NEW k \in DOMAIN channel', channel'[k] = [id |-> r, kind |-> b]
        PROVE  b \in Waiting(r)
    BY <1>6, <2>1 DEF Waiting
  <2>2. ASSUME NEW b \in Kinds, NEW k \in DOMAIN channel, channel[k] = [id |-> r, kind |-> b]
        PROVE  b \in Waiting(r)'
    <3>1. k # 1
      BY <1>2, <1>12, <2>2
    <3>2. k \in 2 .. Len(channel)
      BY <1>1, <3>1
    <3> QED
      BY <1>5, <2>2, <3>2 DEF Waiting
  <2> QED
    BY <2>1, <2>2 DEF Waiting
<1>13. Handled(ev.id)' = Handled(ev.id) \cup {ev.kind}
  BY <1>7, <1>8, <1>10 DEF Handled, InOrder
<1>14. \A r \in Requests \ {ev.id} : Handled(r)' = Handled(r)
  BY <1>12 DEF Handled
<1>15. JoinTyped' <=> (pending' \in Seq(Entries) /\ records' \subseteq Entries)
  BY <1>3 DEF JoinTyped
<1>16. InOrder'
  <2>1. ASSUME NEW r \in Requests PROVE Waiting(r)' \subseteq heard'[r]
    BY <1>10, <1>12 DEF InOrder
  <2>2. ASSUME NEW r \in Requests, NEW a \in Handled(r)', NEW b \in Waiting(r)'
        PROVE  Rank(a) < Rank(b)
    BY <1>10, <1>11, <1>12, <1>13, <1>14, <2>2 DEF InOrder
  <2>3. ASSUME NEW j \in DOMAIN channel', NEW k \in DOMAIN channel', j < k,
               channel'[j].id = channel'[k].id
        PROVE  Rank(channel'[j].kind) < Rank(channel'[k].kind)
    <3>1. j + 1 < k + 1
      BY <1>1, <1>4, <2>3
    <3> QED
      BY <1>6, <2>3, <3>1 DEF InOrder
  <2> QED
    BY <2>1, <2>2, <2>3 DEF InOrder
<1> QED
  BY <1>7, <1>8, <1>10, <1>11, <1>12, <1>13, <1>14, <1>15, <1>16

\* What pendingFifo.put does to entries that are unique and within the cap
\* (eventpump.go:324-334).
LEMMA PutKeeps ==
  ASSUME JoinTyped, EntriesRight, NEW e \in Entries, Put(e)
  PROVE  /\ pending' \in Seq(Entries) /\ Len(pending') <= PendingPumpCap
         /\ \A j, k \in DOMAIN pending' : pending'[j].id = pending'[k].id => j = k
         /\ \A k \in DOMAIN pending' :
              \/ pending'[k] = e
              \/ pending'[k].id # e.id /\ \E j \in DOMAIN pending : pending[j] = pending'[k]
         /\ \E k \in DOMAIN pending' : pending'[k] = e
         /\ \A j \in DOMAIN pending :
              \/ pending[j].id \in {e.id} \cup evicted'
              \/ \E k \in DOMAIN pending' : pending'[k] = pending[j]
         /\ evicted \subseteq evicted' /\ records' = records
<1> DEFINE s == IF peek(e.id) = {} THEN Append(pending, e)
                ELSE [k \in DOMAIN pending |-> IF k \in peek(e.id) THEN e ELSE pending[k]]
<1>1. /\ pending \in Seq(Entries) /\ Len(pending) \in Nat /\ DOMAIN pending = 1 .. Len(pending)
      /\ \A k \in 1 .. Len(pending) : pending[k] \in Entries
      /\ Len(pending) <= PendingPumpCap /\ PendingPumpCap \in Nat /\ PendingPumpCap >= 1
      /\ \A j, k \in 1 .. Len(pending) : pending[j].id = pending[k].id => j = k
  BY CapAssumption DEF JoinTyped, EntriesRight
<1>2. /\ pending' = IF Len(s) > PendingPumpCap THEN Tail(s) ELSE s
      /\ evicted' = evicted \cup ({pending[k].id : k \in DOMAIN pending}
                                    \ {pending'[k].id : k \in DOMAIN pending'})
      /\ records' = records
  BY DEF Put, put
<1>3. CASE peek(e.id) = {}
  <2>1. /\ s = Append(pending, e) /\ s \in Seq(Entries) /\ Len(s) = Len(pending) + 1
        /\ \A k \in 1 .. Len(pending) : s[k] = pending[k] /\ s[k].id # e.id
        /\ s[Len(pending) + 1] = e
    BY <1>1, <1>3 DEF peek
  <2> HIDE DEF s
  <2>2. CASE Len(s) > PendingPumpCap
    <3>1. /\ pending' \in Seq(Entries) /\ Len(pending') = Len(pending)
          /\ \A k \in 1 .. Len(pending) : pending'[k] = s[k + 1]
      BY <1>1, <1>2, <2>1, <2>2, HeadTailProperties, EmptySeq
    <3>2. DOMAIN pending' = 1 .. Len(pending) /\ Len(pending) >= 1
      BY <1>1, <2>1, <2>2, <3>1
    <3>3. /\ pending'[Len(pending)] = e
          /\ \A k \in 1 .. Len(pending) : k # Len(pending) =>
               k + 1 \in 1 .. Len(pending) /\ pending'[k] = pending[k + 1]
                 /\ pending[k + 1].id # e.id
      <4>1. Len(pending) \in 1 .. Len(pending) /\ pending'[Len(pending)] = s[Len(pending) + 1]
        BY <1>1, <3>1, <3>2
      <4>2. ASSUME NEW k \in 1 .. Len(pending), k # Len(pending)
            PROVE  k + 1 \in 1 .. Len(pending) /\ pending'[k] = s[k + 1]
        <5>1. pending'[k] = s[k + 1]
          BY <3>1
        <5>2. k + 1 \in 1 .. Len(pending)
          <6>1. PICK n \in Nat : n = Len(pending)
            BY <1>1
          <6>2. k \in 1 .. n /\ k # n
            BY <4>2, <6>1
          <6>3. k + 1 \in 1 .. n
            BY <6>2
          <6> QED BY <6>1, <6>3
        <5> QED BY <5>1, <5>2
      <4>3. \A k \in 1 .. Len(pending) : s[k] = pending[k] /\ pending[k].id # e.id
        BY <2>1
      <4> QED
        BY <2>1, <4>1, <4>2, <4>3
    <3>4. ASSUME NEW j \in DOMAIN pending', NEW k \in DOMAIN pending',
                 pending'[j].id = pending'[k].id
          PROVE  j = k
      <4>1. j \in 1 .. Len(pending) /\ k \in 1 .. Len(pending)
        BY <3>2
      <4>2. CASE j = Len(pending) \/ k = Len(pending)
        BY <3>3, <3>4, <4>1, <4>2
      <4>3. CASE j # Len(pending) /\ k # Len(pending)
        <5>1. /\ j + 1 \in 1 .. Len(pending) /\ k + 1 \in 1 .. Len(pending)
              /\ pending[j + 1].id = pending[k + 1].id
          BY <3>3, <3>4, <4>1, <4>3
        <5>2. j + 1 = k + 1
          BY <1>1, <5>1
        <5> QED
          BY <4>1, <5>2
      <4> QED
        BY <4>2, <4>3
    <3>5. ASSUME NEW k \in DOMAIN pending'
          PROVE  \/ pending'[k] = e
                 \/ pending'[k].id # e.id /\ \E j \in DOMAIN pending : pending[j] = pending'[k]
      BY <1>1, <3>2, <3>3
    <3>6. \E k \in DOMAIN pending' : pending'[k] = e
      <4>1. Len(pending) \in DOMAIN pending'
        BY <1>1, <3>2
      <4> QED
        BY <3>3, <4>1
    <3>7. ASSUME NEW j \in DOMAIN pending
          PROVE  \/ pending[j].id \in {e.id} \cup evicted'
                 \/ \E k \in DOMAIN pending' : pending'[k] = pending[j]
      <4>1. CASE j = 1
        <5>1. 1 \in 1 .. Len(pending) /\ pending[1].id # e.id
          BY <1>1, <2>1, <3>2
        <5>2. ASSUME NEW k \in 1 .. Len(pending), k # Len(pending)
              PROVE  pending'[k].id # pending[1].id
          <6>1. k + 1 \in 1 .. Len(pending) /\ pending'[k] = pending[k + 1]
            BY <3>3, <5>2
          <6>2. k + 1 # 1
            OBVIOUS
          <6> QED
            BY <1>1, <5>1, <6>1, <6>2
        <5>3. \A k \in DOMAIN pending' : pending'[k].id # pending[j].id
          BY <3>2, <3>3, <4>1, <5>1, <5>2
        <5>4. pending[j].id \in {pending[k].id : k \in DOMAIN pending}
          OBVIOUS
        <5>5. pending[j].id \notin {pending'[k].id : k \in DOMAIN pending'}
          BY <5>3
        <5> QED
          BY <1>2, <5>4, <5>5
      <4>2. CASE j # 1
        <5>1. j - 1 \in DOMAIN pending' /\ j - 1 # Len(pending) /\ (j - 1) + 1 = j
          BY <1>1, <3>2, <4>2
        <5> QED
          BY <3>2, <3>3, <5>1
      <4> QED
        BY <4>1, <4>2
    <3> QED
      BY <1>1, <1>2, <3>1, <3>4, <3>5, <3>6, <3>7
  <2>3. CASE ~(Len(s) > PendingPumpCap)
    <3>1. pending' = s /\ DOMAIN s = 1 .. Len(pending) + 1
      BY <1>1, <1>2, <2>1, <2>3
    <3>2. \A j, k \in 1 .. Len(pending) + 1 : s[j].id = s[k].id => j = k
      BY <1>1, <2>1
    <3> QED
      BY <1>1, <1>2, <2>1, <2>3, <3>1, <3>2
  <2> QED
    BY <2>2, <2>3
<1>4. CASE peek(e.id) # {}
  <2>1. s = [k \in 1 .. Len(pending) |-> IF k \in peek(e.id) THEN e ELSE pending[k]]
    BY <1>1, <1>4
  <2>2. \A k \in 1 .. Len(pending) : k \in peek(e.id) <=> pending[k].id = e.id
    BY <1>1 DEF peek
  <2>3. /\ s \in Seq(Entries) /\ Len(s) = Len(pending) /\ DOMAIN s = 1 .. Len(pending)
        /\ \A k \in 1 .. Len(pending) : s[k] = IF pending[k].id = e.id THEN e ELSE pending[k]
    <3> HIDE DEF s
    <3>1. s \in [1 .. Len(pending) -> Entries]
      BY <1>1, <2>1
    <3>2. s \in Seq(Entries) /\ Len(s) = Len(pending)
      BY <1>1, <3>1
    <3>3. \A k \in 1 .. Len(pending) : s[k] = IF pending[k].id = e.id THEN e ELSE pending[k]
      BY <2>1, <2>2
    <3> QED
      BY <3>1, <3>2, <3>3
  <2>4. \E k \in 1 .. Len(pending) : pending[k].id = e.id
    BY <1>1, <1>4 DEF peek
  <2> HIDE DEF s
  <2>5. pending' = s
    <3>1. ~(Len(s) > PendingPumpCap)
      BY <1>1, <2>3
    <3> QED
      BY <1>2, <3>1
  <2>6. \A k \in 1 .. Len(pending) : s[k].id = pending[k].id
    BY <2>3
  <2>7. /\ \E k \in 1 .. Len(pending) : s[k] = e
        /\ \A k \in 1 .. Len(pending) : s[k] = e \/ (s[k].id # e.id /\ s[k] = pending[k])
        /\ \A k \in 1 .. Len(pending) : pending[k].id = e.id \/ s[k] = pending[k]
    BY <2>3, <2>4
  <2>8. \A j, k \in 1 .. Len(pending) : s[j].id = s[k].id => j = k
    BY <1>1, <2>6
  <2>9. DOMAIN pending' = 1 .. Len(pending) /\ Len(pending') <= PendingPumpCap
    BY <1>1, <2>3, <2>5
  <2>10. \A k \in DOMAIN pending' :
           \/ pending'[k] = e
           \/ pending'[k].id # e.id /\ \E j \in DOMAIN pending : pending[j] = pending'[k]
    BY <1>1, <2>5, <2>7, <2>9
  <2>11. \A j \in DOMAIN pending :
           \/ pending[j].id \in {e.id} \cup evicted'
           \/ \E k \in DOMAIN pending' : pending'[k] = pending[j]
    BY <1>1, <2>5, <2>7, <2>9
  <2> QED
    BY <1>2, <2>3, <2>5, <2>7, <2>8, <2>9, <2>10, <2>11
<1> QED
  BY <1>3, <1>4

\* What pendingFifo.take does to them (eventpump.go:336-349).
LEMMA TakeKeeps ==
  ASSUME JoinTyped, EntriesRight, NEW id \in Requests, pending' = take(id)
  PROVE  /\ pending' \in Seq(Entries) /\ Len(pending') <= PendingPumpCap
         /\ \A j, k \in DOMAIN pending' : pending'[j].id = pending'[k].id => j = k
         /\ \A k \in DOMAIN pending' :
              pending'[k].id # id /\ \E j \in DOMAIN pending : pending[j] = pending'[k]
         /\ \A j \in DOMAIN pending :
              pending[j].id = id \/ \E k \in DOMAIN pending' : pending'[k] = pending[j]
<1>1. /\ pending \in Seq(Entries) /\ Len(pending) \in Nat /\ DOMAIN pending = 1 .. Len(pending)
      /\ \A k \in 1 .. Len(pending) : pending[k] \in Entries
      /\ Len(pending) <= PendingPumpCap /\ PendingPumpCap \in Nat
      /\ \A j, k \in 1 .. Len(pending) : pending[j].id = pending[k].id => j = k
  BY CapAssumption DEF JoinTyped, EntriesRight
<1>2. CASE peek(id) = {}
  <2>1. pending' = pending /\ \A k \in DOMAIN pending : pending[k].id # id
    BY <1>2 DEF take, peek
  <2> QED
    BY <1>1, <2>1
<1>3. CASE peek(id) # {}
  <2> DEFINE i == CHOOSE j \in peek(id) : TRUE
  <2>1. i \in 1 .. Len(pending) /\ pending[i].id = id
    <3>1. i \in peek(id)
      BY <1>3
    <3> QED
      BY <1>1, <3>1 DEF peek
  <2>2. pending' = [j \in 1 .. Len(pending) - 1 |->
                      IF j < i THEN pending[j] ELSE pending[j + 1]]
    BY <1>3 DEF take
  <2> HIDE DEF i
  <2>3. /\ Len(pending) - 1 \in Nat /\ i \in Nat
        /\ \A j \in 1 .. Len(pending) - 1 : j \in 1 .. Len(pending) /\ j + 1 \in 1 .. Len(pending)
    BY <1>1, <2>1
  <2>4. /\ pending' \in Seq(Entries) /\ Len(pending') = Len(pending) - 1
        /\ DOMAIN pending' = 1 .. Len(pending) - 1
        /\ \A j \in 1 .. Len(pending) - 1 :
             pending'[j] = IF j < i THEN pending[j] ELSE pending[j + 1]
    BY <1>1, <2>2, <2>3
  <2>5. \A j, k \in 1 .. Len(pending) - 1 : pending'[j].id = pending'[k].id => j = k
    <3>1. ASSUME NEW j \in 1 .. Len(pending) - 1, NEW k \in 1 .. Len(pending) - 1,
                 pending'[j].id = pending'[k].id
          PROVE  j = k
      <4> DEFINE at(n) == IF n < i THEN n ELSE n + 1
      <4>1. at(j) \in 1 .. Len(pending) /\ at(k) \in 1 .. Len(pending)
        BY <2>3
      <4>2. pending[at(j)].id = pending[at(k)].id
        BY <2>3, <2>4, <3>1
      <4>3. at(j) = at(k)
        BY <1>1, <4>1, <4>2
      <4> QED
        BY <2>3, <4>3
    <3> QED
      BY <3>1
  <2>6. \A k \in 1 .. Len(pending) - 1 :
          pending'[k].id # id /\ \E j \in 1 .. Len(pending) : pending[j] = pending'[k]
    <3>1. ASSUME NEW k \in 1 .. Len(pending) - 1
          PROVE  pending'[k].id # id /\ \E j \in 1 .. Len(pending) : pending[j] = pending'[k]
      <4>1. CASE k < i
        BY <1>1, <2>1, <2>3, <2>4, <4>1
      <4>2. CASE ~(k < i)
        <5>1. k + 1 # i /\ k + 1 \in 1 .. Len(pending) /\ pending'[k] = pending[k + 1]
          BY <2>3, <2>4, <4>2
        <5> QED
          BY <1>1, <2>1, <5>1
      <4> QED
        BY <4>1, <4>2
    <3> QED
      BY <3>1
  <2>7. \A j \in 1 .. Len(pending) :
          pending[j].id = id \/ \E k \in 1 .. Len(pending) - 1 : pending'[k] = pending[j]
    <3>1. ASSUME NEW j \in 1 .. Len(pending), pending[j].id # id
          PROVE  \E k \in 1 .. Len(pending) - 1 : pending'[k] = pending[j]
      <4>1. CASE j < i
        BY <2>1, <2>3, <2>4, <4>1
      <4>2. CASE j > i
        <5>1. j - 1 \in 1 .. Len(pending) - 1 /\ ~(j - 1 < i) /\ (j - 1) + 1 = j
          BY <1>1, <2>1, <4>2
        <5> QED
          BY <2>4, <5>1
      <4> QED
        BY <1>1, <2>1, <3>1, <4>1, <4>2
    <3> QED
      BY <3>1
  <2>8. Len(pending') <= PendingPumpCap
    BY <1>1, <2>4
  <2> QED
    BY <1>1, <2>4, <2>5, <2>6, <2>7, <2>8
<1> QED
  BY <1>2, <1>3

\* What the pump knows does not depend on what waits in the channel.
LEMMA KnownStays ==
  ASSUME JoinTyped, EntriesRight, RecordsRight,
         \A r \in Requests : Handled(r)' = Handled(r), UNCHANGED <<pending, records, evicted>>
  PROVE  EntriesRight' /\ RecordsRight'
<1>1. \A e \in Entries : Told(e) => Told(e)'
  BY DEF Told, Entries
<1>2. \A k \in DOMAIN pending : pending[k] \in Entries /\ pending[k].id \in Requests
  <2>1. pending \in Seq(Entries)
    BY DEF JoinTyped
  <2>2. \A k \in DOMAIN pending : pending[k] \in Entries
    BY <2>1, LenProperties, ElementOfSeq
  <2> QED
    BY <2>2 DEF Entries
<1>3. EntriesRight'
  BY <1>1, <1>2 DEF EntriesRight
<1>4. RecordsRight'
  BY <1>1 DEF RecordsRight, JoinTyped
<1> QED
  BY <1>3, <1>4

\* Only the channel stands between the browser and the pump.
LEMMA RequestEventStep ==
  ASSUME JoinInv, NEW r \in Requests, NEW kind \in Kinds, RequestEvent(r, kind)
  PROVE  JoinInv'
<1>1. JoinTyped /\ InOrder /\ EntriesRight /\ RecordsRight
  BY DEF JoinInv
<1>2. /\ stage' = [stage EXCEPT ![r] = kind] /\ UNCHANGED <<pending, records, evicted>>
      /\ Follows(kind, stage[r])
  BY DEF RequestEvent
<1>3. stage[r] \in Kinds \cup {"none"} /\ \A q \in Requests : heard[q] \subseteq Kinds
  BY <1>1 DEF JoinTyped
<1>4. /\ Rank(stage[r]) < Rank(kind)
      /\ \A a \in Kinds \cup {"none"} : Rank(a) \in 0 .. 4
  <2>1. \/ kind = "sent" /\ stage[r] = "none"
        \/ kind = "redirect" /\ stage[r] = "sent"
        \/ kind = "response" /\ stage[r] \in {"sent", "redirect"}
        \/ kind = "end" /\ stage[r] \in {"sent", "redirect", "response"}
    BY <1>2 DEF Follows, Kinds
  <2> QED
    BY <2>1, Ranks
<1>5. \A a \in heard[r] : Rank(a) < Rank(kind)
  BY <1>1, <1>3, <1>4 DEF InOrder
<1>6. stage' \in [Requests -> Kinds \cup {"none"}]
  BY <1>1, <1>2 DEF JoinTyped
<1>7. ASSUME NEW q \in Requests PROVE Rank(stage[q]) <= Rank(stage'[q])
  BY <1>1, <1>2, <1>4 DEF JoinTyped
<1>8. CASE UNCHANGED <<channel, heard>>
  <2>1. \A q \in Requests : Waiting(q)' = Waiting(q) /\ Handled(q)' = Handled(q)
    BY <1>8 DEF Waiting, Handled
  <2>2. \A q \in Requests : \A a \in heard'[q] : Rank(a) <= Rank(stage'[q])
    <3>1. ASSUME NEW q \in Requests, NEW a \in heard[q] PROVE Rank(a) <= Rank(stage'[q])
      <4>1. Rank(a) <= Rank(stage[q]) /\ Rank(a) \in Int /\ Rank(stage[q]) \in Int
              /\ Rank(stage'[q]) \in Int
        BY <1>1, <1>3, <1>4, <1>6, <3>1 DEF InOrder, JoinTyped
      <4> QED
        BY <1>7, <4>1
    <3> QED
      BY <1>8, <3>1
  <2>3. InOrder'
    BY <1>1, <1>8, <2>1, <2>2 DEF InOrder
  <2>4. JoinTyped'
    BY <1>1, <1>2, <1>6, <1>8 DEF JoinTyped
  <2> QED
    BY <1>1, <1>2, <2>1, <2>3, <2>4, KnownStays DEF JoinInv
<1>9. CASE /\ channel' = Append(channel, [id |-> r, kind |-> kind])
           /\ heard' = [heard EXCEPT ![r] = @ \cup {kind}]
  <2>1. channel \in Seq([id : Requests, kind : Kinds]) /\ Len(channel) \in Nat
          /\ DOMAIN channel = 1 .. Len(channel)
    BY <1>1 DEF JoinTyped
  <2>2. /\ channel' \in Seq([id : Requests, kind : Kinds])
        /\ DOMAIN channel' = 1 .. Len(channel) + 1
        /\ \A k \in 1 .. Len(channel) : channel'[k] = channel[k]
        /\ channel'[Len(channel) + 1] = [id |-> r, kind |-> kind]
    BY <1>9, <2>1
  <2>3. \A k \in DOMAIN channel : k \in DOMAIN channel' /\ channel'[k] = channel[k]
    BY <2>1, <2>2
  <2>4. \A k \in DOMAIN channel' : k \in DOMAIN channel \/ k = Len(channel) + 1
    BY <2>1, <2>2
  <2>5. Len(channel) + 1 \in DOMAIN channel'
    BY <2>1, <2>2
  <2>6. /\ heard'[r] = heard[r] \cup {kind} /\ heard' \in [Requests -> SUBSET Kinds]
        /\ \A q \in Requests \ {r} : heard'[q] = heard[q]
    BY <1>1, <1>9 DEF JoinTyped
  <2>7. kind \notin heard[r]
    BY <1>3, <1>4, <1>5
  <2>8. Waiting(r)' = Waiting(r) \cup {kind}
    <3>1. ASSUME NEW b \in Kinds, NEW k \in DOMAIN channel', channel'[k] = [id |-> r, kind |-> b]
          PROVE  b \in Waiting(r) \cup {kind}
      BY <2>2, <2>3, <2>4, <3>1 DEF Waiting
    <3>2. ASSUME NEW b \in Waiting(r) PROVE b \in Waiting(r)'
      BY <2>3 DEF Waiting
    <3>3. kind \in Waiting(r)'
      BY <2>2, <2>5 DEF Waiting
    <3> QED
      BY <3>1, <3>2, <3>3 DEF Waiting
  <2>9. ASSUME NEW q \in Requests \ {r} PROVE Waiting(q)' = Waiting(q)
    <3>1. ASSUME NEW b \in Kinds, NEW k \in DOMAIN channel', channel'[k] = [id |-> q, kind |-> b]
          PROVE  b \in Waiting(q)
      BY <2>2, <2>3, <2>4, <2>9, <3>1 DEF Waiting
    <3>2. ASSUME NEW b \in Waiting(q) PROVE b \in Waiting(q)'
      BY <2>3 DEF Waiting
    <3> QED
      BY <3>1, <3>2 DEF Waiting
  <2>10. Waiting(r) \subseteq heard[r] /\ \A q \in Requests : Waiting(q) \subseteq heard[q]
    BY <1>1 DEF InOrder
  <2>11. \A q \in Requests : Handled(q)' = Handled(q)
    <3>1. Handled(r)' = Handled(r)
      BY <2>6, <2>7, <2>8, <2>10 DEF Handled
    <3>2. \A q \in Requests \ {r} : Handled(q)' = Handled(q)
      BY <2>6, <2>9 DEF Handled
    <3> QED
      BY <3>1, <3>2
  <2>12. \A q \in Requests : Waiting(q)' \subseteq heard'[q]
    BY <2>6, <2>8, <2>9, <2>10
  <2>13. \A q \in Requests : \A a \in heard'[q] : Rank(a) <= Rank(stage'[q])
    <3>1. stage'[r] = kind /\ \A q \in Requests \ {r} : stage'[q] = stage[q]
      BY <1>1, <1>2 DEF JoinTyped
    <3>2. \A a \in heard'[r] : Rank(a) <= Rank(kind)
      BY <1>3, <1>4, <1>5, <2>6
    <3> QED
      BY <1>1, <2>6, <3>1, <3>2 DEF InOrder
  <2>14. \A q \in Requests : \A a \in Handled(q)', b \in Waiting(q)' : Rank(a) < Rank(b)
    <3>1. \A a \in Handled(r) : Rank(a) < Rank(kind)
      BY <1>5 DEF Handled
    <3> QED
      BY <1>1, <2>8, <2>9, <2>11, <3>1 DEF InOrder
  <2>15. ASSUME NEW j \in DOMAIN channel', NEW k \in DOMAIN channel', j < k,
                channel'[j].id = channel'[k].id
         PROVE  Rank(channel'[j].kind) < Rank(channel'[k].kind)
    <3>1. j \in DOMAIN channel
      BY <2>1, <2>2, <2>15
    <3>2. CASE k \in DOMAIN channel
      BY <1>1, <2>3, <2>15, <3>1, <3>2 DEF InOrder
    <3>3. CASE k = Len(channel) + 1
      <4>1. channel[j].id = r /\ channel[j] \in [id : Requests, kind : Kinds]
        <5>1. channel[j].id = r
          BY <2>2, <2>3, <2>15, <3>1, <3>3
        <5> QED
          BY <2>1, <3>1, <5>1, ElementOfSeq
      <4>2. channel[j] = [id |-> r, kind |-> channel[j].kind] /\ channel[j].kind \in Kinds
        BY <4>1
      <4>3. channel[j].kind \in Waiting(r)
        BY <3>1, <4>2 DEF Waiting
      <4> QED
        BY <1>5, <2>2, <2>3, <2>10, <3>1, <3>3, <4>3
    <3> QED
      BY <2>4, <3>2, <3>3
  <2>16. InOrder'
    BY <2>12, <2>13, <2>14, <2>15 DEF InOrder
  <2>17. JoinTyped'
    BY <1>1, <1>2, <1>6, <2>2, <2>6 DEF JoinTyped
  <2> QED
    BY <1>1, <1>2, <2>11, <2>16, <2>17, KnownStays DEF JoinInv
<1> QED
  BY <1>8, <1>9 DEF RequestEvent

\* What the pump has handled of the request whose event it takes.
LEMMA NotEnded ==
  ASSUME JoinTyped, InOrder, NEW r \in Requests, NEW kind \in Waiting(r)
  PROVE  /\ "end" \notin Handled(r)
         /\ kind # "response" => "response" \notin Handled(r) \/ kind = "end"
         /\ Handled(r) \subseteq Kinds
<1>1. Handled(r) \subseteq Kinds /\ kind \in Kinds
  BY DEF Handled, Waiting, JoinTyped
<1>2. \A a \in Handled(r) : Rank(a) < Rank(kind)
  BY DEF InOrder
<1> QED
  BY <1>1, <1>2, Ranks DEF Kinds

\* An entry changes hands: put is called for a request that goes on.
LEMMA PutStep ==
  ASSUME JoinInv, NEW ev \in [id : Requests, kind : Kinds \ {"end"}], NEW e \in Entries,
         channel # <<>>, ev = Head(channel), channel' = Tail(channel), UNCHANGED <<stage, heard>>,
         e.id = ev.id, Put(e),
         e.id \notin evicted =>
           /\ e.url = ((Handled(e.id) \cup {ev.kind}) \cap {"sent", "redirect"} # {})
           /\ e.response = ("response" \in Handled(e.id) \cup {ev.kind})
  PROVE  JoinInv'
<1>1. JoinTyped /\ InOrder /\ EntriesRight /\ RecordsRight /\ ev.id \in Requests
        /\ ev \in [id : Requests, kind : Kinds]
  BY DEF JoinInv
<1>2. /\ ev.kind \in Waiting(ev.id)
      /\ Handled(ev.id)' = Handled(ev.id) \cup {ev.kind}
      /\ \A r \in Requests \ {ev.id} : Handled(r)' = Handled(r)
      /\ InOrder'
      /\ JoinTyped' <=> (pending' \in Seq(Entries) /\ records' \subseteq Entries)
  BY <1>1, HeadIsFirst
<1>3. "end" \notin Handled(ev.id) /\ "end" \notin Handled(ev.id)'
  BY <1>1, <1>2, NotEnded
<1>4. /\ pending' \in Seq(Entries) /\ Len(pending') <= PendingPumpCap
      /\ \A j, k \in DOMAIN pending' : pending'[j].id = pending'[k].id => j = k
      /\ \A k \in DOMAIN pending' :
           \/ pending'[k] = e
           \/ pending'[k].id # e.id /\ \E j \in DOMAIN pending : pending[j] = pending'[k]
      /\ \E k \in DOMAIN pending' : pending'[k] = e
      /\ \A j \in DOMAIN pending :
           \/ pending[j].id \in {e.id} \cup evicted'
           \/ \E k \in DOMAIN pending' : pending'[k] = pending[j]
      /\ evicted \subseteq evicted' /\ records' = records
  BY <1>1, PutKeeps
<1>5. JoinTyped'
  BY <1>1, <1>2, <1>4 DEF JoinTyped
<1>6. \A f \in Entries : f.id # ev.id /\ Told(f) => Told(f)'
  BY <1>2, <1>4 DEF Told, Entries
<1>7. Told(e)'
  BY <1>2, <1>4 DEF Told
<1>8. \A k \in DOMAIN pending : pending[k] \in Entries /\ pending[k].id \in Requests
  <2>1. pending \in Seq(Entries)
    BY <1>1 DEF JoinTyped
  <2>2. \A k \in DOMAIN pending : pending[k] \in Entries
    BY <2>1, LenProperties, ElementOfSeq
  <2> QED
    BY <2>2 DEF Entries
<1>9. EntriesRight'
  <2>1. ASSUME NEW f \in Entries, NEW k \in DOMAIN pending', pending'[k] = f
        PROVE  Told(f)' /\ "end" \notin Handled(f.id)'
    <3>1. CASE f = e
      BY <1>3, <1>7, <3>1
    <3>2. CASE f # e
      <4>1. PICK j \in DOMAIN pending : pending[j] = f /\ f.id # ev.id
        BY <1>4, <2>1, <3>2
      <4>2. /\ Told(pending[j]) /\ "end" \notin Handled(pending[j].id)
            /\ pending[j] \in Entries /\ pending[j].id \in Requests \ {ev.id}
        BY <1>1, <1>8, <4>1 DEF EntriesRight
      <4> QED
        BY <1>2, <1>6, <4>1, <4>2
    <3> QED
      BY <3>1, <3>2
  <2>2. ASSUME NEW r \in Requests \ evicted', Handled(r)' # {}, "end" \notin Handled(r)'
        PROVE  \E k \in DOMAIN pending' : pending'[k].id = r
    <3>1. CASE r = ev.id
      BY <1>4, <3>1
    <3>2. CASE r # ev.id
      <4>1. PICK j \in DOMAIN pending : pending[j].id = r
        BY <1>1, <1>2, <1>4, <2>2, <3>2 DEF EntriesRight
      <4> QED
        BY <1>4, <3>2, <4>1
    <3> QED
      BY <3>1, <3>2
  <2>3. \A k \in DOMAIN pending' : pending'[k] \in Entries
    BY <1>4, LenProperties, ElementOfSeq
  <2> QED
    BY <1>4, <2>1, <2>2, <2>3 DEF EntriesRight
<1>10. RecordsRight'
  <2>1. \A f \in records : f \in Entries /\ f.id \in Requests \ {ev.id} /\ Told(f)
    BY <1>1, <1>3 DEF RecordsRight, JoinTyped, Entries
  <2>2. \A f \in records' : Told(f)'
    BY <1>4, <1>6, <2>1
  <2>3. \A r \in Requests : "end" \in Handled(r)' <=> \E f \in records' : f.id = r
    BY <1>1, <1>2, <1>3, <1>4 DEF RecordsRight
  <2> QED
    BY <1>1, <1>4, <2>2, <2>3 DEF RecordsRight
<1> QED
  BY <1>2, <1>5, <1>9, <1>10 DEF JoinInv

\* The end of a request: its entry becomes its record.
LEMMA FinalizeStep ==
  ASSUME JoinInv, NEW ev \in [id : Requests, kind : {"end"}],
         channel # <<>>, ev = Head(channel), channel' = Tail(channel), UNCHANGED <<stage, heard>>,
         finalize(ev.id)
  PROVE  JoinInv'
<1>1. JoinTyped /\ InOrder /\ EntriesRight /\ RecordsRight /\ ev.id \in Requests
        /\ ev \in [id : Requests, kind : Kinds] /\ ev.kind = "end"
  BY DEF JoinInv, Kinds
<1>2. /\ ev.kind \in Waiting(ev.id)
      /\ Handled(ev.id)' = Handled(ev.id) \cup {"end"}
      /\ \A r \in Requests \ {ev.id} : Handled(r)' = Handled(r)
      /\ InOrder'
      /\ JoinTyped' <=> (pending' \in Seq(Entries) /\ records' \subseteq Entries)
  BY <1>1, HeadIsFirst
<1>3. "end" \notin Handled(ev.id)
  BY <1>1, <1>2, NotEnded
<1>4. /\ pending' \in Seq(Entries) /\ Len(pending') <= PendingPumpCap
      /\ \A j, k \in DOMAIN pending' : pending'[j].id = pending'[k].id => j = k
      /\ \A k \in DOMAIN pending' :
           pending'[k].id # ev.id /\ \E j \in DOMAIN pending : pending[j] = pending'[k]
      /\ \A j \in DOMAIN pending :
           pending[j].id = ev.id \/ \E k \in DOMAIN pending' : pending'[k] = pending[j]
      /\ evicted' = evicted
  BY <1>1, TakeKeeps DEF finalize
<1>5. \A f \in Entries : f.id # ev.id /\ Told(f) => Told(f)'
  BY <1>2, <1>4 DEF Told, Entries
<1>6. \A k \in DOMAIN pending : pending[k] \in Entries /\ pending[k].id \in Requests
  <2>1. pending \in Seq(Entries)
    BY <1>1 DEF JoinTyped
  <2>2. \A k \in DOMAIN pending : pending[k] \in Entries
    BY <2>1, LenProperties, ElementOfSeq
  <2> QED
    BY <2>2 DEF Entries
<1>7. EntriesRight'
  <2>1. ASSUME NEW f \in Entries, NEW k \in DOMAIN pending', pending'[k] = f
        PROVE  Told(f)' /\ "end" \notin Handled(f.id)'
    <3>1. PICK j \in DOMAIN pending : pending[j] = f /\ f.id # ev.id
      BY <1>4, <2>1
    <3>2. /\ Told(pending[j]) /\ "end" \notin Handled(pending[j].id)
          /\ pending[j] \in Entries /\ pending[j].id \in Requests \ {ev.id}
      BY <1>1, <1>6, <3>1 DEF EntriesRight
    <3> QED
      BY <1>2, <1>5, <3>1, <3>2
  <2>2. ASSUME NEW r \in Requests \ evicted', Handled(r)' # {}, "end" \notin Handled(r)'
        PROVE  \E k \in DOMAIN pending' : pending'[k].id = r
    <3>1. r # ev.id
      BY <1>2, <2>2
    <3>2. PICK j \in DOMAIN pending : pending[j].id = r
      BY <1>1, <1>2, <1>4, <2>2, <3>1 DEF EntriesRight
    <3> QED
      BY <1>4, <3>1, <3>2
  <2>3. \A k \in DOMAIN pending' : pending'[k] \in Entries
    BY <1>4, LenProperties, ElementOfSeq
  <2> QED
    BY <1>4, <2>1, <2>2, <2>3 DEF EntriesRight
<1>8. PICK x \in Entries : records' = records \cup {x} /\ x.id = ev.id /\ Told(x)'
  <2>1. CASE peek(ev.id) = {}
    <3>1. NewRequest(ev.id) \in Entries /\ NewRequest(ev.id).id = ev.id
            /\ NewRequest(ev.id).url = FALSE /\ NewRequest(ev.id).response = FALSE
      BY <1>1 DEF NewRequest, Entries
    <3>2. records' = records \cup {NewRequest(ev.id)}
      BY <2>1 DEF finalize
    <3>3. ev.id \notin evicted => Handled(ev.id) = {}
      BY <1>1, <1>3, <2>1 DEF EntriesRight, peek
    <3>4. PICK x \in Entries : x = NewRequest(ev.id)
      BY <3>1
    <3>5. Told(x)'
      <4>1. x.id = ev.id /\ x.url = FALSE /\ x.response = FALSE
        BY <3>1, <3>4
      <4>2. x.id \notin evicted' => Handled(x.id)' = {"end"}
        BY <1>2, <1>4, <3>3, <4>1
      <4>3. {"end"} \cap {"sent", "redirect"} = {} /\ "response" \notin {"end"}
        OBVIOUS
      <4>4. x.id \notin evicted' => x.url = (Handled(x.id)' \cap {"sent", "redirect"} # {})
        BY <4>1, <4>2, <4>3
      <4>5. x.id \notin evicted' => x.response = ("response" \in Handled(x.id)')
        <5>1. x.id \notin evicted' => ("response" \in Handled(x.id)') = FALSE
          BY <4>2, <4>3
        <5> QED
          BY <4>1, <5>1
      <4> QED
        BY <4>4, <4>5 DEF Told
    <3> QED
      BY <3>1, <3>2, <3>4, <3>5
  <2>2. CASE peek(ev.id) # {}
    <3> DEFINE k == CHOOSE j \in peek(ev.id) : TRUE
    <3>1. k \in DOMAIN pending /\ pending[k].id = ev.id
      <4>1. k \in peek(ev.id)
        BY <2>2
      <4> QED
        BY <4>1 DEF peek
    <3>2. records' = records \cup {pending[k]}
      BY <2>2 DEF finalize
    <3> HIDE DEF k
    <3>3. PICK x \in Entries : x = pending[k]
      BY <1>6, <3>1
    <3>4. Told(x)
      BY <1>1, <3>1, <3>3 DEF EntriesRight
    <3>5. Told(x)'
      BY <1>2, <1>4, <3>1, <3>3, <3>4 DEF Told
    <3> QED
      BY <3>1, <3>2, <3>3, <3>5
  <2> QED
    BY <2>1, <2>2
<1>9. RecordsRight'
  <2>1. \A f \in records : f \in Entries /\ f.id \in Requests \ {ev.id} /\ Told(f)
    BY <1>1, <1>3 DEF RecordsRight, JoinTyped, Entries
  <2>2. \A f \in records' : Told(f)'
    BY <1>5, <1>8, <2>1
  <2>3. \A r \in Requests : "end" \in Handled(r)' <=> \E f \in records' : f.id = r
    <3>1. ASSUME NEW r \in Requests \ {ev.id}
          PROVE  "end" \in Handled(r)' <=> \E f \in records' : f.id = r
      BY <1>1, <1>2, <1>8, <3>1 DEF RecordsRight
    <3> QED
      BY <1>2, <1>8, <3>1
  <2>4. \A e, f \in records' : e.id = f.id => e = f
    BY <1>1, <1>8, <2>1 DEF RecordsRight
  <2> QED
    BY <2>2, <2>3, <2>4 DEF RecordsRight
<1>10. JoinTyped'
  BY <1>1, <1>2, <1>4, <1>8 DEF JoinTyped
<1> QED
  BY <1>2, <1>7, <1>9, <1>10 DEF JoinInv

\* The pump handles an event.
LEMMA DispatchStep ==
  ASSUME JoinInv, dispatchNetworkEvent
  PROVE  JoinInv'
<1>1. channel # <<>> /\ channel' = Tail(channel) /\ UNCHANGED <<stage, heard>>
  BY DEF dispatchNetworkEvent
<1>2. JoinTyped /\ InOrder /\ EntriesRight
  BY DEF JoinInv
<1>3. PICK ev \in [id : Requests, kind : Kinds] : ev = Head(channel)
  BY <1>1, <1>2, HeadTailProperties DEF JoinTyped
<1>4. ev.id \in Requests /\ ev.kind \in Waiting(ev.id) /\ ev.kind \in Kinds
  BY <1>1, <1>2, <1>3, HeadIsFirst
<1>5. /\ ev.kind \in {"sent", "redirect"} => handleWillSend(ev.id)
      /\ ev.kind = "response" => handleRespRecv(ev.id)
      /\ ev.kind = "end" => finalize(ev.id)
  BY <1>3, <1>4 DEF dispatchNetworkEvent, Kinds
<1>6. NewRequest(ev.id) = [id |-> ev.id, url |-> FALSE, response |-> FALSE]
  BY DEF NewRequest
<1>7. CASE ev.kind \in {"sent", "redirect"}
  <2>1. PICK e \in Entries : e = [NewRequest(ev.id) EXCEPT !.url = TRUE] /\ e.id = ev.id
                               /\ e.url = TRUE /\ e.response = FALSE
    <3>1. PICK n \in Entries : n = NewRequest(ev.id)
      BY <1>4, <1>6 DEF Entries
    <3>2. n.id = ev.id /\ n.response = FALSE
      BY <1>6, <3>1
    <3>3. PICK e \in Entries : e = [n EXCEPT !.url = TRUE]
      BY DEF Entries
    <3>4. e.id = ev.id /\ e.url = TRUE /\ e.response = FALSE
      BY <3>2, <3>3 DEF Entries
    <3> QED
      BY <3>1, <3>3, <3>4
  <2>2. Put(e)
    BY <1>5, <1>7, <2>1 DEF handleWillSend
  <2>3. "response" \notin Handled(e.id) \cup {ev.kind}
    BY <1>2, <1>4, <1>7, <2>1, NotEnded
  <2>4. e.id = ev.id /\ e.url = TRUE /\ e.response = FALSE
    BY <2>1
  <2>5. ev.kind \in (Handled(e.id) \cup {ev.kind}) \cap {"sent", "redirect"}
    BY <1>7
  <2>6. ev \in [id : Requests, kind : Kinds \ {"end"}]
    BY <1>4, <1>7
  <2>7. e.id \notin evicted =>
          /\ e.url = ((Handled(e.id) \cup {ev.kind}) \cap {"sent", "redirect"} # {})
          /\ e.response = ("response" \in Handled(e.id) \cup {ev.kind})
    <3> DEFINE H == Handled(e.id) \cup {ev.kind}
    <3>1. (H \cap {"sent", "redirect"} # {}) = TRUE
      BY <2>5
    <3>2. ("response" \in H) = FALSE
      BY <2>3
    <3> HIDE DEF H
    <3>3. e.url = (H \cap {"sent", "redirect"} # {}) /\ e.response = ("response" \in H)
      BY <2>4, <3>1, <3>2
    <3> QED
      BY <3>3 DEF H
  <2> QED
    BY <1>1, <1>3, <2>2, <2>4, <2>6, <2>7, PutStep
<1>8. CASE ev.kind = "response"
  <2>1. PICK f \in Entries :
           /\ f.id = ev.id /\ Put([f EXCEPT !.response = TRUE])
           /\ f.id \notin evicted => f.url = (Handled(f.id) \cap {"sent", "redirect"} # {})
    <3>1. CASE peek(ev.id) = {}
      <4>1. PICK f \in Entries : f = NewRequest(ev.id)
        BY <1>4, <1>6 DEF Entries
      <4>2. Put([f EXCEPT !.response = TRUE])
        BY <1>5, <1>8, <3>1, <4>1 DEF handleRespRecv
      <4>3. ev.id \notin evicted => Handled(ev.id) = {}
        BY <1>2, <1>4, <3>1, NotEnded DEF EntriesRight, peek
      <4>4. f.id = ev.id /\ f.url = FALSE
        BY <1>6, <4>1
      <4> QED
        BY <4>2, <4>3, <4>4
    <3>2. CASE peek(ev.id) # {}
      <4> DEFINE k == CHOOSE j \in peek(ev.id) : TRUE
      <4>1. k \in DOMAIN pending /\ pending[k].id = ev.id
        <5>1. k \in peek(ev.id)
          BY <3>2
        <5> QED
          BY <5>1 DEF peek
      <4>2. Put([pending[k] EXCEPT !.response = TRUE])
        BY <1>5, <1>8, <3>2 DEF handleRespRecv
      <4> HIDE DEF k
      <4>3. PICK f \in Entries : f = pending[k]
        BY <1>2, <4>1, LenProperties, ElementOfSeq DEF JoinTyped
      <4>4. Told(f)
        BY <1>2, <4>1, <4>3 DEF EntriesRight
      <4> QED
        BY <4>1, <4>2, <4>3, <4>4 DEF Told
    <3> QED
      BY <3>1, <3>2
  <2>2. PICK e \in Entries : e = [f EXCEPT !.response = TRUE]
    BY DEF Entries
  <2>3. e.id = ev.id /\ e.url = f.url /\ e.response = TRUE
    BY <2>1, <2>2 DEF Entries
  <2>4. (Handled(e.id) \cup {ev.kind}) \cap {"sent", "redirect"}
          = Handled(e.id) \cap {"sent", "redirect"}
    BY <1>8
  <2>5. e.id \notin evicted =>
          /\ e.url = ((Handled(e.id) \cup {ev.kind}) \cap {"sent", "redirect"} # {})
          /\ e.response = ("response" \in Handled(e.id) \cup {ev.kind})
    BY <1>8, <2>1, <2>3, <2>4
  <2> QED
    <3>1. ev \in [id : Requests, kind : Kinds \ {"end"}]
      BY <1>4, <1>8
    <3>2. Put(e)
      BY <2>1, <2>2
    <3> QED
      BY <1>1, <1>3, <2>3, <2>5, <3>1, <3>2, PutStep
<1>9. CASE ev.kind = "end"
  BY <1>1, <1>3, <1>5, <1>9, FinalizeStep
<1> QED
  BY <1>4, <1>7, <1>8, <1>9 DEF Kinds

\* With the connection goes everything that was known.
LEMMA NetReconnectStep ==
  ASSUME JoinInv, NetReconnect
  PROVE  JoinInv'
<1>1. /\ channel' = <<>> /\ pending' = <<>> /\ records' = {} /\ stage' = stage
      /\ heard' = [r \in Requests |-> {}]
  BY DEF NetReconnect
<1>2. \A r \in Requests : Waiting(r)' = {} /\ Handled(r)' = {}
  BY <1>1 DEF Waiting, Handled
<1>3. JoinTyped'
  BY <1>1 DEF JoinInv, JoinTyped
<1>4. InOrder'
  BY <1>1, <1>2 DEF InOrder
<1>5. EntriesRight' /\ RecordsRight'
  BY <1>1, <1>2, CapAssumption DEF EntriesRight, RecordsRight
<1> QED
  BY <1>3, <1>4, <1>5 DEF JoinInv

\* JoinInv is an invariant of Network.
LEMMA JoinInvariance == NetSpec => []JoinInv
<1>1. NetInit => JoinInv
  <2> SUFFICES ASSUME NetInit PROVE JoinInv
    OBVIOUS
  <2>1. \A r \in Requests : Waiting(r) = {} /\ Handled(r) = {}
    BY DEF NetInit, Waiting, Handled
  <2>2. JoinTyped
    BY DEF NetInit, JoinTyped
  <2>3. InOrder
    BY <2>1 DEF NetInit, InOrder
  <2>4. EntriesRight /\ RecordsRight
    BY <2>1, CapAssumption DEF NetInit, EntriesRight, RecordsRight
  <2> QED
    BY <2>2, <2>3, <2>4 DEF JoinInv
<1>2. ASSUME JoinInv, UNCHANGED netVars PROVE JoinInv'
  <2>1. UNCHANGED <<stage, channel, pending, records, heard, evicted>>
    BY <1>2 DEF netVars
  <2>2. \A r \in Requests : Waiting(r)' = Waiting(r) /\ Handled(r)' = Handled(r)
    BY <2>1 DEF Waiting, Handled
  <2>3. JoinTyped' /\ InOrder'
    BY <1>2, <2>1, <2>2 DEF JoinInv, JoinTyped, InOrder
  <2> QED
    BY <1>2, <2>1, <2>2, <2>3, KnownStays DEF JoinInv
<1>3. JoinInv /\ [NetNext]_allVars => JoinInv'
  BY <1>2, RequestEventStep, DispatchStep, NetReconnectStep DEF NetNext, allVars, Kinds
<1> QED
  BY <1>1, <1>3, PTL DEF NetSpec

\* Every request whose end reaches the pump has one record, which has what the
\* pump was told of it, unless its entry had to make room for another
\* (eventpump.go:329, 395, 415).
THEOREM RecordsComplete == NetSpec => []RecordsAreComplete
<1>1. ASSUME JoinInv PROVE RecordsAreComplete
  <2>1. JoinTyped /\ InOrder /\ EntriesRight /\ RecordsRight
    BY <1>1 DEF JoinInv
  <2>2. ASSUME NEW r \in Requests
        PROVE  LET of == {k \in records : k.id = r}
                   waiting == \E k \in DOMAIN channel :
                                channel[k] = [id |-> r, kind |-> "end"]
               IN  /\ Cardinality(of) = IF "end" \in heard[r] /\ ~ waiting THEN 1 ELSE 0
                   /\ of # {} => peek(r) = {}
                   /\ \A k \in of :
                        r \notin evicted =>
                          /\ k.url = (heard[r] \cap {"sent", "redirect"} # {})
                          /\ k.response = ("response" \in heard[r])
    <3> DEFINE of == {k \in records : k.id = r}
               waiting == \E k \in DOMAIN channel : channel[k] = [id |-> r, kind |-> "end"]
    <3>1. waiting <=> "end" \in Waiting(r)
      BY DEF Waiting, Kinds
    <3>2. "end" \in heard[r] /\ ~ waiting <=> "end" \in Handled(r)
      BY <3>1 DEF Handled
    <3>3. CASE "end" \in Handled(r)
      <4>1. PICK e \in records : e.id = r
        BY <2>1, <3>3 DEF RecordsRight
      <4>2. of = {e}
        BY <2>1, <4>1 DEF RecordsRight
      <4>3. Cardinality(of) = 1
        BY <4>2, FS_Singleton
      <4>4. Waiting(r) = {}
        <5>1. \A b \in Waiting(r) : b \in Kinds /\ Rank("end") < Rank(b)
          BY <2>1, <3>3 DEF InOrder, Waiting
        <5> QED
          BY <5>1, Ranks
      <4>5. Handled(r) = heard[r]
        BY <4>4 DEF Handled
      <4>6. r \notin evicted =>
              /\ e.url = (heard[r] \cap {"sent", "redirect"} # {})
              /\ e.response = ("response" \in heard[r])
        BY <2>1, <4>1, <4>5 DEF RecordsRight, Told
      <4>7. peek(r) = {}
        BY <2>1, <3>3 DEF EntriesRight, peek
      <4>8. Cardinality(of) = IF "end" \in heard[r] /\ ~ waiting THEN 1 ELSE 0
        BY <3>2, <3>3, <4>3
      <4> QED
        BY <4>2, <4>6, <4>7, <4>8
    <3>4. CASE "end" \notin Handled(r)
      <4>1. of = {}
        BY <2>1, <3>4 DEF RecordsRight
      <4>2. Cardinality(of) = 0
        BY <4>1, FS_EmptySet
      <4>3. Cardinality(of) = IF "end" \in heard[r] /\ ~ waiting THEN 1 ELSE 0
        BY <3>2, <3>4, <4>2
      <4> QED
        BY <4>1, <4>3
    <3> QED
      BY <3>3, <3>4
  <2> QED
    BY <2>1, <2>2 DEF RecordsAreComplete, EntriesRight
<1> QED
  BY <1>1, JoinInvariance, PTL
-----------------------------------------------------------------------------
(* Event buffers.  TypeOK and RingIsWindow are inductive together.  They   *)
(* make the records that Drain collects an interval of the ring            *)
(* (CollectIsInterval), from which the absence of a silent gap follows.    *)

\* The number before the oldest retained record.
Base == nextSeq - Len(ring)

BufInv == RingIsWindow /\ EmptyOnlyByClear
-----------------------------------------------------------------------------
\* What collectLocked returns (eventbuf.go:119-134): the positions a+1 .. b of
\* the ring, where a counts the records not newer than the cursor.
LEMMA CollectIsInterval ==
  ASSUME TypeOK, RingIsWindow,
         NEW since \in 0 .. MaxSeq, NEW limit \in Limits
  PROVE  \E a \in 0 .. Len(ring), b \in 0 .. Len(ring) :
            /\ collectLocked(since, limit) = a + 1 .. b
            /\ a = 0 \/ Base + a <= since
            /\ a < Len(ring) => a < b /\ Base + a >= since
<1> DEFINE a == IF since <= Base THEN 0
                ELSE IF since - Base >= Len(ring) THEN Len(ring) ELSE since - Base
           b == IF a + limit <= Len(ring) THEN a + limit ELSE Len(ring)
<1>1. /\ Len(ring) \in Nat /\ nextSeq \in Nat /\ since \in Nat
      /\ limit \in Nat /\ limit > 0 /\ MaxSeq \in Nat
      /\ Len(ring) <= nextSeq
      /\ DOMAIN ring = 1 .. Len(ring)
      /\ Base \in Nat
      /\ \A i \in 1 .. Len(ring) : ring[i] = Base + i
  BY MaxSeqAssumption, LimitsAssumption DEF TypeOK, RingIsWindow, Base
<1>2. /\ a \in 0 .. Len(ring) /\ b \in 0 .. Len(ring)
      /\ a = 0 \/ Base + a <= since
      /\ a < Len(ring) => a < b /\ Base + a >= since
  BY <1>1
<1>3. Newer(since) = a + 1 .. Len(ring)
  BY <1>1 DEF Newer
<1>4. collectLocked(since, limit) = a + 1 .. b
  <2>1. ASSUME NEW i \in a + 1 .. Len(ring)
        PROVE  Cardinality({j \in Newer(since) : j <= i}) <= limit <=> i <= b
    <3>1. {j \in Newer(since) : j <= i} = a + 1 .. i
      BY <1>1, <1>2, <1>3
    <3>2. Cardinality(a + 1 .. i) = i - a
      <4>1. a \in Nat /\ i \in Nat /\ a + 1 <= i
        BY <1>1, <1>2
      <4> HIDE DEF a
      <4>2. Cardinality(a + 1 .. i) = IF a + 1 > i THEN 0 ELSE i - (a + 1) + 1
        BY <4>1, FS_Interval
      <4> QED BY <4>1, <4>2
    <3>3. i - a <= limit <=> i <= b
      BY <1>1, <1>2
    <3> QED BY <3>1, <3>2, <3>3
  <2>2. b <= Len(ring)
    BY <1>2
  <2>3. collectLocked(since, limit) =
          {i \in a + 1 .. Len(ring) : Cardinality({j \in Newer(since) : j <= i}) <= limit}
    BY <1>3 DEF collectLocked
  <2>4. collectLocked(since, limit) = {i \in a + 1 .. Len(ring) : i <= b}
    BY <2>1, <2>3
  <2> QED BY <1>1, <1>2, <2>2, <2>4
<1> QED BY <1>2, <1>4

\* What Drain returns (eventbuf.go:95-107): a reply whose cursor has passed no
\* record that it does not hold, unless it says so or the ring was cleared, and
\* which holds only records after the cursor and moves the cursor behind them.
LEMMA DrainIsHonest ==
  ASSUME TypeOK, BufInv, NEW since \in 0 .. MaxSeq, NEW limit \in Limits
  PROVE  LET r == DrainResult(since, limit)
         IN  /\ r \in Replies
             /\ r.since = since
             /\ r.since > 0 /\ ~r.dropped => Skipped(r) \subseteq 1 .. cleared
             /\ \A n \in r.records : since < n /\ n <= r.lastSeq /\ n <= nextSeq
             /\ since <= nextSeq => since <= r.lastSeq /\ r.lastSeq <= nextSeq
             /\ since > nextSeq => r.lastSeq \in {since, nextSeq}
<1> DEFINE r == DrainResult(since, limit)
<1>1. /\ Len(ring) \in Nat /\ nextSeq \in 0 .. MaxSeq /\ since \in Nat
      /\ MaxSeq \in Nat /\ Len(ring) <= nextSeq
      /\ Base \in Nat
      /\ \A i \in 1 .. Len(ring) : ring[i] = Base + i
      /\ Base + Len(ring) = nextSeq
      /\ cleared \in Nat
  BY MaxSeqAssumption DEF TypeOK, RingIsWindow, BufInv, Base
<1>2. CASE ring = <<>>
  <2>1. r = [since |-> since, records |-> {}, lastSeq |-> nextSeq, dropped |-> FALSE]
    BY <1>2 DEF DrainResult, NoReply
  <2>2. nextSeq = cleared
    BY <1>2 DEF BufInv, EmptyOnlyByClear
  <2> QED BY <1>1, <2>1, <2>2 DEF Replies, Skipped
<1>3. CASE ring # <<>>
  <2> DEFINE taken == collectLocked(since, limit)
  <2>1. r = [since |-> since, records |-> {ring[i] : i \in taken},
             lastSeq |-> lastSeqOf(taken, since), dropped |-> sinceGapLocked(since)]
    BY <1>3 DEF DrainResult
  <2>2. Len(ring) > 0
    BY <1>1, <1>3 DEF TypeOK
  <2>3. PICK a \in 0 .. Len(ring), b \in 0 .. Len(ring) :
            /\ taken = a + 1 .. b
            /\ a = 0 \/ Base + a <= since
            /\ a < Len(ring) => a < b /\ Base + a >= since
    BY CollectIsInterval DEF BufInv
  <2>4. \A i \in taken : i \in 1 .. Len(ring) /\ ring[i] = Base + i
    BY <1>1, <2>3
  <2>5. r.records = {Base + i : i \in a + 1 .. b}
    BY <2>1, <2>3, <2>4
  <2>6. lastSeqOf(taken, since) = IF a < b THEN Base + b ELSE since
    <3>1. CASE a < b
      <4> DEFINE m == CHOOSE i \in taken : \A j \in taken : j <= i
      <4>1. b \in taken /\ \A j \in taken : j <= b
        BY <1>1, <2>3, <3>1
      <4>2. m \in taken /\ \A j \in taken : j <= m
        BY <4>1
      <4>3. m = b
        BY <4>1, <4>2, <2>3, <1>1
      <4>4. lastSeqOf(taken, since) = ring[m]
        BY <4>1 DEF lastSeqOf
      <4> QED BY <4>1, <4>3, <4>4, <2>4, <3>1
    <3>2. CASE ~(a < b)
      BY <1>1, <2>3, <3>2 DEF lastSeqOf
    <3> QED BY <3>1, <3>2
  <2>7. r.since = since /\ r.lastSeq = (IF a < b THEN Base + b ELSE since)
          /\ r.dropped = sinceGapLocked(since)
    BY <2>1, <2>6
  <2>8. r \in Replies
    <3>1. r.records \in SUBSET (1 .. MaxSeq)
      BY <1>1, <2>3, <2>5
    <3>2. lastSeqOf(taken, since) \in 0 .. MaxSeq
      BY <1>1, <2>3, <2>6
    <3>3. sinceGapLocked(since) \in BOOLEAN
      BY DEF sinceGapLocked
    <3> QED BY <2>1, <3>1, <3>2, <3>3 DEF Replies
  <2>9. ASSUME r.since > 0, ~r.dropped
        PROVE  Skipped(r) \subseteq 1 .. cleared
    <3>0. ring[1] = Base + 1
      BY <1>1, <2>2
    <3>1. since >= Base
      <4>1. ~sinceGapLocked(since) /\ since > 0
        BY <2>7, <2>9
      <4>2. ~(since < ring[1] - 1)
        BY <4>1 DEF sinceGapLocked
      <4> HIDE DEF r, taken
      <4> QED BY <1>1, <3>0, <4>2
    <3>2. ASSUME NEW s \in since + 1 .. r.lastSeq
          PROVE  s \in r.records
      <4>1. a < b /\ s \in since + 1 .. Base + b
        BY <1>1, <2>3, <2>7, <3>2
      <4>2. s - Base \in a + 1 .. b /\ s = Base + (s - Base)
        BY <1>1, <2>3, <3>1, <4>1
      <4> QED BY <4>2, <2>5
    <3> QED BY <2>7, <3>2 DEF Skipped
  <2>10. ASSUME NEW n \in r.records
         PROVE  since < n /\ n <= r.lastSeq /\ n <= nextSeq
    <3>1. PICK i \in a + 1 .. b : n = Base + i
      BY <2>5, <2>10
    <3>2. a < b /\ a < Len(ring) /\ i <= b /\ a < i
      BY <1>1, <2>3, <3>1
    <3> HIDE DEF r, taken
    <3> QED BY <1>1, <2>3, <2>7, <3>1, <3>2
  <2>11. since <= nextSeq => since <= r.lastSeq /\ r.lastSeq <= nextSeq
    <3> HIDE DEF r, taken
    <3> QED BY <1>1, <2>3, <2>7
  <2>12. since > nextSeq => r.lastSeq \in {since, nextSeq}
    <3> HIDE DEF r, taken
    <3> QED BY <1>1, <2>3, <2>7
  <2> HIDE DEF taken
  <2> QED BY <2>7, <2>8, <2>9, <2>10, <2>11, <2>12
<1> QED BY <1>2, <1>3
-----------------------------------------------------------------------------
LEMMA BufInitially == BufInit => TypeOK /\ BufInv /\ NoSilentGap
<1> SUFFICES ASSUME BufInit PROVE TypeOK /\ BufInv /\ NoSilentGap
  OBVIOUS
<1>1. MaxSeq \in Nat
  BY MaxSeqAssumption
<1>2. NoReply \in Replies
  BY <1>1 DEF NoReply, Replies
<1>3. TypeOK
  BY <1>1, <1>2 DEF BufInit, TypeOK
<1>4. BufInv
  BY DEF BufInit, BufInv, RingIsWindow, EmptyOnlyByClear
<1>5. NoSilentGap
  BY DEF BufInit, NoSilentGap, NoReply
<1> QED BY <1>3, <1>4, <1>5

\* Shrinking keeps the newest records, still a window (eventbuf.go:51-61).
LEMMA OpenStep ==
  ASSUME TypeOK, BufInv, NEW c \in Callers, NEW m \in Sizes, Open(c, m)
  PROVE  TypeOK' /\ BufInv'
<1>1. /\ m \in Nat /\ m > 0
      /\ Len(ring) \in Nat /\ nextSeq \in Nat
      /\ ring \in Seq(1 .. MaxSeq)
      /\ Len(ring) <= nextSeq
      /\ \A i \in 1 .. Len(ring) : ring[i] = nextSeq - Len(ring) + i
  BY SizesAssumption DEF TypeOK, BufInv, RingIsWindow
<1>2. nextSeq' = nextSeq /\ cleared' = cleared /\ max' = m
  BY DEF Open, SetMax
<1>3. /\ ring' \in Seq(1 .. MaxSeq)
      /\ Len(ring') <= m /\ Len(ring') <= nextSeq
      /\ \A i \in 1 .. Len(ring') : ring'[i] = nextSeq - Len(ring') + i
      /\ ring' = <<>> => ring = <<>>
  <2>1. CASE Len(ring) > m
    <3>1. ring' = SubSeq(ring, Len(ring) - m + 1, Len(ring))
      BY <2>1 DEF Open, SetMax, Newest
    <3>2. /\ ring' \in Seq(1 .. MaxSeq) /\ Len(ring') = m
          /\ \A i \in 1 .. m : ring'[i] = ring[Len(ring) - m + i]
      <4> DEFINE lo == Len(ring) - m + 1
      <4>1. /\ lo \in 1 .. Len(ring) + 1 /\ Len(ring) \in lo - 1 .. Len(ring)
            /\ lo <= Len(ring) /\ Len(ring) - lo + 1 = m
        BY <1>1, <2>1
      <4>2. /\ SubSeq(ring, lo, Len(ring)) \in Seq(1 .. MaxSeq)
            /\ Len(SubSeq(ring, lo, Len(ring))) =
                 (IF lo <= Len(ring) THEN Len(ring) - lo + 1 ELSE 0)
            /\ \A i \in 1 .. Len(ring) - lo + 1 :
                 SubSeq(ring, lo, Len(ring))[i] = ring[lo + i - 1]
        <5>1. lo \in Int /\ Len(ring) \in Int
          BY <1>1
        <5>2. \A i \in lo .. Len(ring) : ring[i] \in 1 .. MaxSeq
          <6>1. \A i \in lo .. Len(ring) : i \in 1 .. Len(ring)
            BY <1>1, <4>1
          <6>2. \A i \in 1 .. Len(ring) : ring[i] \in 1 .. MaxSeq
            BY <1>1, ElementOfSeq
          <6> QED BY <6>1, <6>2
        <5> HIDE DEF lo
        <5> QED BY <5>1, <5>2, SubSeqProperties
      <4>3. \A i \in 1 .. m : lo + i - 1 = Len(ring) - m + i
        BY <1>1
      <4> QED BY <3>1, <4>1, <4>2, <4>3
    <3>3. \A i \in 1 .. m : ring[Len(ring) - m + i] = nextSeq - m + i
      BY <1>1, <2>1
    <3> QED BY <1>1, <2>1, <3>2, <3>3
  <2>2. CASE ~(Len(ring) > m)
    BY <1>1, <2>2 DEF Open, SetMax
  <2> QED BY <2>1, <2>2
<1>4. TypeOK'
  BY <1>2, <1>3 DEF TypeOK, Open, callerVars
<1>5. BufInv'
  BY <1>2, <1>3 DEF BufInv, RingIsWindow, EmptyOnlyByClear
<1> QED BY <1>4, <1>5

\* An append extends the window by one and drops the oldest record of a full
\* ring (eventbuf.go:71-89).
LEMMA AppendStep ==
  ASSUME TypeOK, BufInv, AppendEvent
  PROVE  TypeOK' /\ BufInv'
<1> DEFINE kept == IF Len(ring) >= max THEN Tail(ring) ELSE ring
<1>1. /\ max \in Nat /\ max > 0 /\ nextSeq \in Nat /\ MaxSeq \in Nat
      /\ nextSeq + 1 \in 1 .. MaxSeq
      /\ Len(ring) \in Nat /\ ring \in Seq(1 .. MaxSeq)
      /\ Len(ring) <= max /\ Len(ring) <= nextSeq
      /\ \A i \in 1 .. Len(ring) : ring[i] = nextSeq - Len(ring) + i
  BY SizesAssumption, MaxSeqAssumption DEF TypeOK, BufInv, RingIsWindow, AppendEvent
<1>2. /\ nextSeq' = nextSeq + 1 /\ cleared' = cleared /\ max' = max
      /\ ring' = Append(kept, nextSeq + 1)
  BY DEF AppendEvent
<1>3. /\ kept \in Seq(1 .. MaxSeq) /\ Len(kept) < max /\ Len(kept) <= nextSeq
      /\ \A i \in 1 .. Len(kept) : kept[i] = nextSeq - Len(kept) + i
  <2>1. CASE Len(ring) >= max
    <3>1. ring # <<>> /\ kept = Tail(ring)
      BY <1>1, <2>1
    <3>2. /\ kept \in Seq(1 .. MaxSeq) /\ Len(kept) = Len(ring) - 1
          /\ \A i \in 1 .. Len(kept) : kept[i] = ring[i + 1]
      <4> HIDE DEF kept
      <4> QED BY <1>1, <3>1, HeadTailProperties
    <3> HIDE DEF kept
    <3>3. Len(kept) < max /\ Len(kept) <= nextSeq /\ Len(kept) \in Nat
      BY <1>1, <2>1, <3>1, <3>2, HeadTailProperties
    <3>4. ASSUME NEW i \in 1 .. Len(kept)
          PROVE  kept[i] = nextSeq - Len(kept) + i
      <4>1. i + 1 \in 1 .. Len(ring)
        BY <1>1, <3>2, <3>3
      <4>2. ring[i + 1] = nextSeq - Len(ring) + (i + 1)
        BY <1>1, <4>1
      <4> QED BY <1>1, <3>2, <3>3, <4>2
    <3> QED BY <3>2, <3>3, <3>4
  <2>2. CASE ~(Len(ring) >= max)
    BY <1>1, <2>2
  <2> QED BY <2>1, <2>2
<1> HIDE DEF kept
<1>4. /\ ring' \in Seq(1 .. MaxSeq) /\ Len(ring') = Len(kept) + 1
      /\ \A i \in 1 .. Len(kept) : ring'[i] = kept[i]
      /\ ring'[Len(kept) + 1] = nextSeq + 1
  BY <1>1, <1>2, <1>3
<1>5. /\ Len(kept) \in Nat
      /\ \A i \in 1 .. Len(ring') : ring'[i] = nextSeq' - Len(ring') + i
  <2>1. Len(kept) \in Nat
    BY <1>3
  <2>2. ASSUME NEW i \in 1 .. Len(ring')
        PROVE  ring'[i] = nextSeq' - Len(ring') + i
    <3>1. CASE i = Len(kept) + 1
      BY <1>1, <1>2, <1>4, <2>1, <3>1
    <3>2. CASE i # Len(kept) + 1
      <4>1. i \in 1 .. Len(kept)
        BY <1>4, <2>1, <3>2
      <4>2. ring'[i] = nextSeq - Len(kept) + i
        BY <1>3, <1>4, <4>1
      <4> QED BY <1>1, <1>2, <1>4, <2>1, <4>1, <4>2
    <3> QED BY <3>1, <3>2
  <2> QED BY <2>1, <2>2
<1>6. TypeOK'
  BY <1>1, <1>2, <1>4 DEF TypeOK, AppendEvent, callerVars
<1>7. ring' # <<>>
  BY <1>4, <1>5
<1>8. BufInv'
  BY <1>1, <1>2, <1>3, <1>4, <1>5, <1>7 DEF BufInv, RingIsWindow, EmptyOnlyByClear
<1> QED BY <1>6, <1>8

\* The type of the callers' state after a drain (eventbuf.go:95-107).
LEMMA DrainTypes ==
  ASSUME TypeOK, BufInv, NEW c \in Callers, NEW limit \in Limits, Drain(c, limit)
  PROVE  TypeOK' /\ reply'[c] = DrainResult(cursor[c], limit)
<1>1. cursor[c] \in 0 .. MaxSeq /\ MaxSeq \in Nat
  BY MaxSeqAssumption DEF TypeOK
<1>2. DrainResult(cursor[c], limit) \in Replies
  BY <1>1, DrainIsHonest
<1>3. reply'[c] = DrainResult(cursor[c], limit)
  BY DEF Drain, TypeOK
<1>4. /\ reply' \in [Callers -> Replies]
      /\ reply'[c].lastSeq \in 0 .. MaxSeq
      /\ reply'[c].records \in SUBSET (1 .. MaxSeq)
  BY <1>2, <1>3 DEF Drain, TypeOK, Replies
<1>5. cursor' \in [Callers -> 0 .. MaxSeq]
  BY <1>1, <1>4 DEF Drain, TypeOK, NextCursor
<1>6. seen' \in [Callers -> SUBSET (1 .. MaxSeq)]
  BY <1>4 DEF Drain, TypeOK
<1>7. ring' = ring /\ max' = max /\ nextSeq' = nextSeq /\ cleared' = cleared
  BY DEF Drain, bufVars
<1>8. polled' \subseteq Callers /\ pc' \in [Callers -> {"idle", "open"}]
  BY DEF Drain, TypeOK
<1> QED BY <1>3, <1>4, <1>5, <1>6, <1>7, <1>8 DEF TypeOK

LEMMA BufStep == TypeOK /\ BufInv /\ [BufNext]_allBufVars => TypeOK' /\ BufInv'
<1> SUFFICES ASSUME TypeOK, BufInv, [BufNext]_allBufVars PROVE TypeOK' /\ BufInv'
  OBVIOUS
<1>1. CASE AppendEvent
  BY <1>1, AppendStep
<1>2. CASE BufReconnect
  <2>1. NoReply \in Replies /\ MaxSeq \in Nat
    BY MaxSeqAssumption DEF NoReply, Replies
  <2> QED BY <1>2, <2>1
        DEF BufReconnect, TypeOK, BufInv, RingIsWindow, EmptyOnlyByClear
<1>3. ASSUME NEW c \in Callers, NEW m \in Sizes, Open(c, m)
      PROVE  TypeOK' /\ BufInv'
  BY <1>3, OpenStep
<1>4. ASSUME NEW c \in Callers, NEW l \in Limits, Drain(c, l)
      PROVE  TypeOK' /\ BufInv'
  <2>1. TypeOK'
    BY <1>4, DrainTypes
  <2>2. BufInv'
    BY <1>4 DEF Drain, bufVars, BufInv, RingIsWindow, EmptyOnlyByClear
  <2> QED BY <2>1, <2>2
<1>5. ASSUME NEW c \in Callers, Clear(c)
      PROVE  TypeOK' /\ BufInv'
  <2>1. NoReply \in Replies /\ MaxSeq \in Nat
    BY MaxSeqAssumption DEF NoReply, Replies
  <2>2. max \in Nat /\ nextSeq \in 0 .. MaxSeq
    BY SizesAssumption DEF TypeOK
  <2>3. ring' = <<>> /\ cleared' = nextSeq /\ nextSeq' = nextSeq /\ max' = max
    BY <1>5 DEF Clear
  <2>4. BufInv'
    BY <2>2, <2>3 DEF BufInv, RingIsWindow, EmptyOnlyByClear
  <2>5. TypeOK'
    BY <1>5, <2>1, <2>2, <2>3 DEF Clear, TypeOK
  <2> QED BY <2>4, <2>5
<1>6. CASE UNCHANGED allBufVars
  BY <1>6 DEF allBufVars, bufVars, callerVars, TypeOK, BufInv, RingIsWindow, EmptyOnlyByClear
<1> QED BY <1>1, <1>2, <1>3, <1>4, <1>5, <1>6 DEF BufNext

LEMMA GapStep ==
  TypeOK /\ BufInv /\ NoSilentGap /\ [BufNext]_allBufVars => NoSilentGap'
<1> SUFFICES ASSUME TypeOK, BufInv, NoSilentGap, [BufNext]_allBufVars,
                    NEW k \in Callers,
                    reply'[k].since > 0, ~reply'[k].dropped
             PROVE  Skipped(reply'[k]) \subseteq 1 .. cleared'
  BY DEF NoSilentGap, Skipped
<1>1. ASSUME reply'[k] = reply[k], cleared' >= cleared,
             cleared \in Nat, cleared' \in Nat
      PROVE  Skipped(reply'[k]) \subseteq 1 .. cleared'
  <2>1. Skipped(reply[k]) \subseteq 1 .. cleared
    BY <1>1 DEF NoSilentGap
  <2>2. 1 .. cleared \subseteq 1 .. cleared'
    BY <1>1
  <2> QED BY <1>1, <2>1, <2>2
<1>2. cleared \in Nat /\ nextSeq \in Nat /\ cleared <= nextSeq
  BY MaxSeqAssumption DEF TypeOK
<1>3. CASE AppendEvent \/ UNCHANGED allBufVars \/ \E c \in Callers, m \in Sizes : Open(c, m)
  <2>1. reply' = reply /\ cleared' = cleared
    BY <1>3 DEF AppendEvent, Open, callerVars, bufVars, allBufVars
  <2> QED BY <1>1, <1>2, <2>1
<1>4. CASE BufReconnect
  <2>1. reply'[k] = NoReply
    BY <1>4 DEF BufReconnect
  <2> QED BY <2>1 DEF NoReply
<1>5. ASSUME NEW c \in Callers, NEW l \in Limits, Drain(c, l)
      PROVE  Skipped(reply'[k]) \subseteq 1 .. cleared'
  <2>1. cleared' = cleared
    BY <1>5 DEF Drain, bufVars
  <2>2. CASE k = c
    <3>1. reply'[k] = DrainResult(cursor[c], l)
      BY <1>5, <2>2, DrainTypes
    <3>2. cursor[c] \in 0 .. MaxSeq
      BY DEF TypeOK
    <3>3. Skipped(DrainResult(cursor[c], l)) \subseteq 1 .. cleared
      BY <3>1, <3>2, DrainIsHonest
    <3> QED BY <2>1, <3>1, <3>3
  <2>3. CASE k # c
    BY <1>1, <1>2, <1>5, <2>1, <2>3 DEF Drain, TypeOK
  <2> QED BY <2>2, <2>3
<1>6. ASSUME NEW c \in Callers, Clear(c)
      PROVE  Skipped(reply'[k]) \subseteq 1 .. cleared'
  <2>1. cleared' = nextSeq
    BY <1>6 DEF Clear
  <2>2. CASE k = c
    <3>1. reply'[k] = NoReply
      BY <1>6, <2>2 DEF Clear, TypeOK
    <3> QED BY <3>1 DEF NoReply
  <2>3. CASE k # c
    BY <1>1, <1>2, <1>6, <2>1, <2>3 DEF Clear, TypeOK
  <2> QED BY <2>2, <2>3
<1> QED BY <1>3, <1>4, <1>5, <1>6 DEF BufNext
-----------------------------------------------------------------------------
LEMMA BufInvariance == BufSpec => [](TypeOK /\ BufInv /\ NoSilentGap)
<1>1. BufInit => TypeOK /\ BufInv /\ NoSilentGap
  BY BufInitially
<1>2. TypeOK /\ BufInv /\ NoSilentGap /\ [BufNext]_allBufVars
        => (TypeOK /\ BufInv /\ NoSilentGap)'
  BY BufStep, GapStep
<1> QED BY <1>1, <1>2, PTL DEF BufSpec

\* The types of EventBuf's state, for any callers, sizes and limits
\* (eventbuf.go:9-38).
THEOREM BufTypeCorrect == BufSpec => []TypeOK
  BY BufInvariance, PTL

\* The ring is the window of the newest records, never above max, whatever
\* the order of appends, resizes and clears (eventbuf.go:51-89, 147-151).
THEOREM WindowCorrect == BufSpec => []RingIsWindow
<1>1. BufInv => RingIsWindow
  BY DEF BufInv
<1> QED BY <1>1, BufInvariance, PTL

\* A caller with a cursor is told of every record it lost to overflow or to a
\* resize, whoever caused it (eventbuf.go:91-115).
THEOREM GapsAreTold == BufSpec => []NoSilentGap
  BY BufInvariance, PTL

\* What a caller has been given of this buffer lies before its cursor, and is
\* among what the buffer has handed out.
GivenIsPassed ==
  \A c \in Callers : \A n \in seen[c] : n <= cursor[c] /\ n <= nextSeq

LEMMA GivenStep ==
  TypeOK /\ BufInv /\ GivenIsPassed /\ [BufNext]_allBufVars => GivenIsPassed'
<1> SUFFICES ASSUME TypeOK, BufInv, GivenIsPassed, [BufNext]_allBufVars
             PROVE  GivenIsPassed'
  OBVIOUS
<1>1. nextSeq \in Nat /\ MaxSeq \in Nat
  BY MaxSeqAssumption DEF TypeOK
<1>2. CASE AppendEvent
  <2>1. seen' = seen /\ cursor' = cursor /\ nextSeq' = nextSeq + 1
    BY <1>2 DEF AppendEvent, callerVars
  <2>2. \A c \in Callers : \A n \in seen[c] : n \in Nat
    BY <1>1 DEF TypeOK
  <2> QED BY <1>1, <2>1, <2>2 DEF GivenIsPassed
<1>3. CASE BufReconnect
  BY <1>3 DEF BufReconnect, GivenIsPassed
<1>4. CASE UNCHANGED allBufVars \/ \E c \in Callers :
             Clear(c) \/ \E m \in Sizes : Open(c, m)
  <2>1. seen' = seen /\ cursor' = cursor /\ nextSeq' = nextSeq
    BY <1>4 DEF Open, Clear, callerVars, bufVars, allBufVars
  <2> QED BY <2>1 DEF GivenIsPassed
<1>5. ASSUME NEW c \in Callers, NEW l \in Limits, Drain(c, l)
      PROVE  GivenIsPassed'
  <2> DEFINE r == DrainResult(cursor[c], l)
  <2>1. cursor[c] \in 0 .. MaxSeq /\ cursor \in [Callers -> 0 .. MaxSeq]
          /\ seen \in [Callers -> SUBSET (1 .. MaxSeq)]
    BY DEF TypeOK
  <2>2. /\ r \in Replies
        /\ \A n \in r.records : cursor[c] < n /\ n <= r.lastSeq /\ n <= nextSeq
        /\ cursor[c] <= nextSeq => cursor[c] <= r.lastSeq /\ r.lastSeq <= nextSeq
        /\ cursor[c] > nextSeq => r.lastSeq \in {cursor[c], nextSeq}
    BY <2>1, DrainIsHonest
  <2>3. reply'[c] = r /\ nextSeq' = nextSeq
    BY <1>5, DrainTypes DEF Drain, bufVars
  <2> HIDE DEF r
  <2>4. /\ seen' = [seen EXCEPT ![c] = @ \cup r.records]
        /\ \E m \in NextCursor(c, r) : cursor' = [cursor EXCEPT ![c] = m]
    BY <1>5, <2>3 DEF Drain
  <2>5. ASSUME NEW n \in seen'[c] PROVE n <= cursor'[c] /\ n <= nextSeq
    <3>1. cursor'[c] = r.lastSeq \/ (r.lastSeq = 0 /\ cursor'[c] = cursor[c])
      BY <2>1, <2>4 DEF NextCursor
    <3>2. r.lastSeq \in Nat /\ r.records \subseteq 1 .. MaxSeq
      BY <1>1, <2>2 DEF Replies
    <3>3. CASE n \in r.records
      <4>1. n \in Nat /\ n > 0
        BY <1>1, <3>2, <3>3
      <4> QED BY <2>2, <3>1, <3>2, <3>3, <4>1
    <3>4. CASE n \in seen[c]
      <4>1. n \in Nat /\ n <= cursor[c] /\ n <= nextSeq
        BY <1>1, <2>1, <3>4 DEF GivenIsPassed
      <4>2. cursor[c] <= r.lastSeq \/ r.lastSeq = nextSeq
        BY <1>1, <2>1, <2>2
      <4> QED BY <1>1, <2>1, <2>2, <3>1, <3>2, <4>1, <4>2
    <3> QED BY <2>1, <2>4, <3>3, <3>4
  <2> QED
    <3>1. \A d \in Callers \ {c} : seen'[d] = seen[d] /\ cursor'[d] = cursor[d]
      BY <2>1, <2>4
    <3> QED BY <2>3, <2>5, <3>1 DEF GivenIsPassed
<1> QED BY <1>2, <1>3, <1>4, <1>5 DEF BufNext

\* No caller is given a record of the buffer twice, and a cursor obtained from
\* it never moves back while it lives (eventbuf.go:119-151).
THEOREM NothingTwice == BufSpec => NoRepeatedRecord
<1>1. TypeOK /\ BufInv /\ GivenIsPassed /\ [BufNext]_allBufVars =>
        [/\ \A c \in Callers :
               reply'[c] # reply[c] => reply'[c].records \cap seen[c] = {}
         /\ \A c \in polled \cap polled' :
               cursor[c] <= nextSeq => cursor'[c] >= cursor[c] /\ cursor'[c] <= nextSeq'
        ]_allBufVars
  <2> SUFFICES ASSUME TypeOK, BufInv, GivenIsPassed, BufNext
               PROVE  /\ \A c \in Callers :
                           reply'[c] # reply[c] => reply'[c].records \cap seen[c] = {}
                      /\ \A c \in polled \cap polled' :
                           cursor[c] <= nextSeq =>
                             cursor'[c] >= cursor[c] /\ cursor'[c] <= nextSeq'
    OBVIOUS
  <2>1. /\ cursor \in [Callers -> 0 .. MaxSeq] /\ reply \in [Callers -> Replies]
        /\ nextSeq \in Nat /\ MaxSeq \in Nat /\ polled \subseteq Callers
        /\ seen \in [Callers -> SUBSET (1 .. MaxSeq)]
    BY MaxSeqAssumption DEF TypeOK
  <2>2. CASE AppendEvent
    BY <2>1, <2>2 DEF AppendEvent, callerVars
  <2>3. CASE BufReconnect
    BY <2>3 DEF BufReconnect, NoReply
  <2>4. ASSUME NEW c \in Callers, NEW m \in Sizes, Open(c, m)
        PROVE  cursor' = cursor /\ nextSeq' = nextSeq /\ reply' = reply
    BY <2>4 DEF Open, callerVars
  <2>5. ASSUME NEW c \in Callers, Clear(c)
        PROVE  /\ cursor' = cursor /\ nextSeq' = nextSeq
               /\ \A d \in Callers : reply'[d] = reply[d] \/ reply'[d].records = {}
    BY <2>1, <2>5 DEF Clear, NoReply
  <2>6. ASSUME NEW c \in Callers, NEW l \in Limits, Drain(c, l)
        PROVE  /\ reply'[c].records \cap seen[c] = {}
               /\ \A d \in Callers \ {c} : reply'[d] = reply[d] /\ cursor'[d] = cursor[d]
               /\ cursor[c] <= nextSeq => cursor'[c] >= cursor[c] /\ cursor'[c] <= nextSeq
               /\ nextSeq' = nextSeq
    <3> DEFINE r == DrainResult(cursor[c], l)
    <3>1. /\ r \in Replies
          /\ \A n \in r.records : cursor[c] < n
          /\ cursor[c] <= nextSeq => cursor[c] <= r.lastSeq /\ r.lastSeq <= nextSeq
      BY <2>1, DrainIsHonest
    <3>2. reply'[c] = r /\ nextSeq' = nextSeq
      BY <2>6, DrainTypes DEF Drain, bufVars
    <3> HIDE DEF r
    <3>3. cursor'[c] = r.lastSeq \/ (r.lastSeq = 0 /\ cursor'[c] = cursor[c])
      BY <2>1, <2>6, <3>2 DEF Drain, NextCursor
    <3>4. \A n \in r.records \cap seen[c] : FALSE
      <4>1. r.records \subseteq 1 .. MaxSeq /\ cursor[c] \in Nat
        BY <2>1, <3>1 DEF Replies
      <4> QED BY <2>1, <3>1, <4>1 DEF GivenIsPassed
    <3>5. r.lastSeq \in Nat
      BY <2>1, <3>1 DEF Replies
    <3>6. cursor[c] <= nextSeq => cursor'[c] >= cursor[c] /\ cursor'[c] <= nextSeq
      BY <2>1, <3>1, <3>3, <3>5
    <3>7. \A d \in Callers \ {c} : reply'[d] = reply[d] /\ cursor'[d] = cursor[d]
      BY <2>1, <2>6 DEF Drain
    <3> QED BY <3>2, <3>4, <3>6, <3>7
  <2>7. CASE \E c \in Callers, m \in Sizes : Open(c, m)
    BY <2>1, <2>4, <2>7
  <2>8. CASE \E c \in Callers : Clear(c)
    BY <2>1, <2>5, <2>8
  <2>9. CASE \E c \in Callers, l \in Limits : Drain(c, l)
    BY <2>1, <2>6, <2>9
  <2> QED BY <2>2, <2>3, <2>7, <2>8, <2>9 DEF BufNext
<1>2. BufInit => GivenIsPassed
  BY DEF BufInit, GivenIsPassed
<1>3. TypeOK /\ BufInv /\ GivenIsPassed /\ [BufNext]_allBufVars => GivenIsPassed'
  BY GivenStep
<1>4. BufSpec => [](TypeOK /\ BufInv)
  BY BufInvariance, PTL
<1> QED
  BY <1>1, <1>2, <1>3, <1>4, PTL DEF BufSpec, NoRepeatedRecord
=============================================================================
