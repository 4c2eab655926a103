---------------------------- MODULE WatcherProofs ----------------------------
(***************************************************************************)
(* Proofs about the subscriptions of the watcher (Watcher) and about the   *)
(* recording that its polls share with the tool calls (Macros), for any    *)
(* resources, handlers, clients and names of macros, and for any bounds.   *)
(***************************************************************************)
EXTENDS Watcher, FiniteSetTheorems, SequenceTheorems, TLAPS

PollerSteps == {"none", "wait", "compare", "changed", "notify", "done"}

\* A subscription that has not been made yet has some resource or none.
AnyUri == Uris \cup {CHOOSE u \in Uris : TRUE}

WatchTyped ==
  /\ subs \in [Uris -> Subs \cup {NoSub}]
  /\ sub \in [Subs -> [uri : AnyUri, fingerprint : Nat, cancelled : BOOLEAN]]
  /\ version \in [Uris -> Nat] /\ fetched \in [Subs -> Nat] /\ got \in [Handlers -> Nat]
  /\ poller \in [Subs -> PollerSteps]
  /\ hpc \in [Handlers -> {"idle", "fetched", "stop", "await"}]
  /\ DOMAIN want = Handlers
  /\ queue \in [Handlers -> Seq(Subs)]
  /\ ended \subseteq Subs

\* A handler that is to store a subscription knows the resource, one that
\* waits knows for whom, and one that is not stopping has nobody to stop.
HandlersRight ==
  /\ \A h \in Handlers : hpc[h] = "fetched" => want[h] \in Uris
  /\ \A h \in Handlers : hpc[h] \in {"idle", "fetched"} => queue[h] = <<>>
  /\ \A h \in Handlers : hpc[h] = "await" => queue[h] # <<>>

Queued(s) == \E h \in Handlers : \E k \in DOMAIN queue[h] : queue[h][k] = s
Polls(s) == poller[s] \notin {"none", "done"}

\* A goroutine that polls is the one of the map, or a handler will stop it.
PollersKnown ==
  \A s \in Subs : Polls(s) =>
    sub[s].uri \in Uris /\ (subs[sub[s].uri] = s \/ Queued(s))

\* What a handler has waited for has ended.
EndedIsDone == \A s \in ended : poller[s] = "done"

WatchInv == WatchTyped /\ HandlersRight /\ PollersKnown /\ EndedIsDone
-----------------------------------------------------------------------------
(* Every action preserves the invariant.                                   *)

LEMMA SubsAreNumbers == NoSub \notin Subs
  BY MaxSubsAssumption DEF NoSub, Subs

LEMMA SubscribeStep ==
  ASSUME WatchInv, NEW h \in Handlers, Subscribe(h)
  PROVE  WatchInv'
<1>1. WatchTyped /\ HandlersRight /\ PollersKnown /\ EndedIsDone
  BY DEF WatchInv
<1>2. hpc[h] = "idle" /\ UNCHANGED <<version, subs, sub, poller, fetched, queue, ended>>
  BY DEF Subscribe, Request
<1>3. \/ \E u \in Uris : /\ want' = [want EXCEPT ![h] = u]
                         /\ got' = [got EXCEPT ![h] = version[u]]
                         /\ hpc' = [hpc EXCEPT ![h] = "fetched"]
      \/ want' = want /\ got' = got /\ hpc' = hpc
  BY DEF Subscribe, HGoto
<1>4. WatchTyped'
  BY <1>1, <1>2, <1>3 DEF WatchTyped
<1>5. HandlersRight'
  BY <1>1, <1>2, <1>3 DEF WatchTyped, HandlersRight
<1>6. PollersKnown' /\ EndedIsDone'
  BY <1>1, <1>2 DEF PollersKnown, EndedIsDone, Polls, Queued
<1> QED
  BY <1>4, <1>5, <1>6 DEF WatchInv

LEMMA SubscribeLockedStep ==
  ASSUME WatchInv, NEW h \in Handlers, SubscribeLocked(h)
  PROVE  WatchInv'
<1>1. WatchTyped /\ HandlersRight /\ PollersKnown /\ EndedIsDone
  BY DEF WatchInv
<1>2. /\ hpc[h] = "fetched" /\ hpc' = [hpc EXCEPT ![h] = "idle"]
      /\ got' = [got EXCEPT ![h] = 0]
      /\ UNCHANGED <<version, fetched, want, queue, ended>>
  BY DEF SubscribeLocked, SubscribeEnds, HGoto
<1>3. want[h] \in Uris
  BY <1>1, <1>2 DEF HandlersRight
<1>4. HandlersRight'
  BY <1>1, <1>2 DEF WatchTyped, HandlersRight
<1>5. \A s \in Subs : Queued(s)' <=> Queued(s)
  BY <1>2 DEF Queued
<1>6. CASE subs[want[h]] = NoSub
  <2>1. PICK s \in Subs :
           /\ poller[s] = "none" /\ subs' = [subs EXCEPT ![want[h]] = s]
           /\ sub' = [sub EXCEPT ![s] = [uri |-> want[h], fingerprint |-> got[h],
                                         cancelled |-> FALSE]]
           /\ poller' = [poller EXCEPT ![s] = "wait"]
    BY <1>6 DEF SubscribeLocked, NewSub, PGoto
  <2>2. WatchTyped'
    <3>1. /\ [uri |-> want[h], fingerprint |-> got[h], cancelled |-> FALSE]
                \in [uri : AnyUri, fingerprint : Nat, cancelled : BOOLEAN]
          /\ "wait" \in PollerSteps
      BY <1>1, <1>3 DEF WatchTyped, AnyUri, PollerSteps
    <3> QED
      BY <1>1, <1>2, <1>3, <2>1, <3>1 DEF WatchTyped
  <2>3. /\ sub'[s].uri = want[h] /\ subs'[want[h]] = s
        /\ \A r \in Subs \ {s} : sub'[r] = sub[r] /\ poller'[r] = poller[r]
        /\ \A u \in Uris \ {want[h]} : subs'[u] = subs[u]
    BY <1>1, <1>3, <2>1 DEF WatchTyped
  <2>4. ASSUME NEW r \in Subs \ {s}, Polls(r)'
        PROVE  sub'[r].uri \in Uris /\ (subs'[sub'[r].uri] = r \/ Queued(r)')
    <3>1. sub[r].uri \in Uris /\ (subs[sub[r].uri] = r \/ Queued(r))
      BY <1>1, <2>3, <2>4 DEF PollersKnown, Polls
    <3>2. subs[sub[r].uri] = r => sub[r].uri # want[h]
      BY <1>6, SubsAreNumbers
    <3> QED
      BY <1>5, <2>3, <3>1, <3>2
  <2>5. PollersKnown'
    BY <1>3, <2>3, <2>4 DEF PollersKnown
  <2>6. EndedIsDone'
    BY <1>1, <1>2, <2>1, <2>3 DEF EndedIsDone, WatchTyped
  <2> QED
    BY <1>4, <2>2, <2>5, <2>6 DEF WatchInv
<1>7. CASE subs[want[h]] # NoSub
  <2>1. /\ sub' = [sub EXCEPT ![subs[want[h]]].fingerprint = got[h]]
        /\ UNCHANGED <<subs, poller>>
    BY <1>7 DEF SubscribeLocked
  <2>2. WatchTyped'
    BY <1>1, <1>2, <2>1 DEF WatchTyped
  <2>3. \A s \in Subs : sub[s].uri \in Uris => sub'[s].uri = sub[s].uri
    BY <1>1, <2>1 DEF WatchTyped
  <2>4. PollersKnown' /\ EndedIsDone'
    BY <1>1, <1>2, <1>5, <2>1, <2>3 DEF PollersKnown, EndedIsDone, Polls
  <2> QED
    BY <1>4, <2>2, <2>4 DEF WatchInv
<1> QED
  BY <1>6, <1>7

\* What a handler takes out of the map it will stop.
LEMMA RemovalStep ==
  ASSUME WatchInv, NEW h \in Handlers, Unsubscribe(h) \/ Close(h)
  PROVE  WatchInv'
<1>1. WatchTyped /\ HandlersRight /\ PollersKnown /\ EndedIsDone
  BY DEF WatchInv
<1>2. /\ hpc[h] = "idle" /\ hpc' = [hpc EXCEPT ![h] = "stop"]
      /\ UNCHANGED <<version, sub, poller, fetched, want, got, ended>>
  BY DEF Unsubscribe, Close, Request, HGoto
<1>3. PICK q \in Seq(Subs) :
        /\ queue' = [queue EXCEPT ![h] = q]
        /\ subs' \in [Uris -> Subs \cup {NoSub}]
        /\ \A u \in Uris : subs'[u] = subs[u] \/ subs[u] = NoSub
                             \/ \E k \in DOMAIN q : q[k] = subs[u]
  <2>1. CASE Unsubscribe(h)
    <3>1. PICK u \in Uris : /\ subs[u] # NoSub /\ subs' = [subs EXCEPT ![u] = NoSub]
                            /\ queue' = [queue EXCEPT ![h] = <<subs[u]>>]
      BY <2>1 DEF Unsubscribe
    <3>2. subs[u] \in Subs
      BY <1>1, <3>1 DEF WatchTyped
    <3>3. PICK q \in Seq(Subs) : q = <<subs[u]>>
      <4>1. \A x \in Subs : <<x>> \in Seq(Subs)
        OBVIOUS
      <4> QED
        BY <3>2, <4>1
    <3>4. 1 \in DOMAIN q /\ q[1] = subs[u]
      BY <3>3
    <3>5. subs' \in [Uris -> Subs \cup {NoSub}] /\ \A v \in Uris \ {u} : subs'[v] = subs[v]
      BY <1>1, <3>1 DEF WatchTyped
    <3> QED
      BY <3>1, <3>3, <3>4, <3>5
  <2>2. CASE Close(h)
    <3> DEFINE all == {subs[u] : u \in Uris} \ {NoSub}
    <3>1. PICK q \in [1 .. Cardinality(all) -> all] :
             {q[k] : k \in DOMAIN q} = all /\ queue' = [queue EXCEPT ![h] = q]
      BY <2>2 DEF Close
    <3>2. all \subseteq Subs
      BY <1>1 DEF WatchTyped
    <3>3. q \in Seq(Subs)
      <4>1. all \in SUBSET Subs /\ IsFiniteSet(Subs)
        BY <3>2, MaxSubsAssumption, FS_Interval DEF Subs
      <4>2. Cardinality(all) \in Nat
        BY <4>1, FS_Subset, FS_CardinalityType
      <4> HIDE DEF all
      <4> QED
        BY <3>1, <3>2, <4>2
    <3>4. \A u \in Uris : subs[u] = NoSub \/ \E k \in DOMAIN q : q[k] = subs[u]
      BY <3>1
    <3>5. subs' \in [Uris -> Subs \cup {NoSub}]
      BY <2>2 DEF Close
    <3> QED
      BY <3>1, <3>3, <3>4, <3>5
  <2> QED
    BY <2>1, <2>2
<1>4. queue[h] = <<>>
  BY <1>1, <1>2 DEF HandlersRight
<1>5. WatchTyped'
  BY <1>1, <1>2, <1>3 DEF WatchTyped
<1>6. HandlersRight'
  BY <1>1, <1>2, <1>3 DEF WatchTyped, HandlersRight
<1>7. /\ \A s \in Subs : Queued(s) => Queued(s)'
      /\ \A s \in Subs, k \in DOMAIN q : q[k] = s => Queued(s)'
  BY <1>1, <1>3, <1>4 DEF Queued, WatchTyped
<1>8. ASSUME NEW s \in Subs, Polls(s)'
      PROVE  sub'[s].uri \in Uris /\ (subs'[sub'[s].uri] = s \/ Queued(s)')
  <2>1. sub[s].uri \in Uris /\ (subs[sub[s].uri] = s \/ Queued(s))
    BY <1>1, <1>2, <1>8 DEF PollersKnown, Polls
  <2> QED
    BY <1>2, <1>3, <1>7, <2>1, SubsAreNumbers
<1>9. PollersKnown' /\ EndedIsDone'
  BY <1>1, <1>2, <1>8 DEF PollersKnown, EndedIsDone
<1> QED
  BY <1>5, <1>6, <1>9 DEF WatchInv

LEMMA CancelStep ==
  ASSUME WatchInv, NEW h \in Handlers, Cancel(h)
  PROVE  WatchInv'
<1>1. WatchTyped /\ HandlersRight /\ PollersKnown /\ EndedIsDone
  BY DEF WatchInv
<1>2. UNCHANGED <<version, subs, poller, fetched, want, got, queue, ended>> /\ hpc[h] = "stop"
  BY DEF Cancel
<1>3. /\ hpc' = [hpc EXCEPT ![h] = IF queue[h] = <<>> THEN "idle" ELSE "await"]
      /\ sub' = sub \/ sub' = [sub EXCEPT ![Head(queue[h])].cancelled = TRUE]
  BY DEF Cancel, HGoto
<1>4. /\ sub' \in [Subs -> [uri : AnyUri, fingerprint : Nat, cancelled : BOOLEAN]]
      /\ \A s \in Subs : sub'[s].uri = sub[s].uri
  <2>1. CASE sub' = sub
    BY <1>1, <2>1 DEF WatchTyped
  <2>2. CASE sub' # sub
    <3>1. queue[h] # <<>> /\ sub' = [sub EXCEPT ![Head(queue[h])].cancelled = TRUE]
      BY <1>3, <2>2 DEF Cancel
    <3>2. queue[h] \in Seq(Subs)
      BY <1>1 DEF WatchTyped
    <3>3. PICK s \in Subs : s = Head(queue[h])
      BY <3>1, <3>2, HeadTailProperties
    <3>4. sub' = [sub EXCEPT ![s].cancelled = TRUE]
      BY <3>1, <3>3
    <3> QED
      BY <1>1, <3>4 DEF WatchTyped
  <2> QED
    BY <2>1, <2>2
<1>5. WatchTyped'
  BY <1>1, <1>2, <1>3, <1>4 DEF WatchTyped
<1>6. HandlersRight'
  BY <1>1, <1>2, <1>3 DEF WatchTyped, HandlersRight
<1>7. PollersKnown' /\ EndedIsDone'
  BY <1>1, <1>2, <1>4 DEF PollersKnown, EndedIsDone, Polls, Queued
<1> QED
  BY <1>5, <1>6, <1>7 DEF WatchInv

LEMMA AwaitStep ==
  ASSUME WatchInv, NEW h \in Handlers, Await(h)
  PROVE  WatchInv'
<1>1. WatchTyped /\ HandlersRight /\ PollersKnown /\ EndedIsDone
  BY DEF WatchInv
<1>2. /\ hpc[h] = "await" /\ poller[Head(queue[h])] = "done"
      /\ ended' = ended \cup {Head(queue[h])}
      /\ queue' = [queue EXCEPT ![h] = Tail(@)] /\ hpc' = [hpc EXCEPT ![h] = "stop"]
      /\ UNCHANGED <<version, subs, sub, poller, fetched, want, got>>
  BY DEF Await, HGoto
<1>3. queue[h] \in Seq(Subs) /\ queue[h] # <<>>
  BY <1>1, <1>2 DEF WatchTyped, HandlersRight
<1>4. /\ Head(queue[h]) \in Subs /\ Tail(queue[h]) \in Seq(Subs)
      /\ Head(queue[h]) = queue[h][1]
      /\ Len(Tail(queue[h])) = Len(queue[h]) - 1
      /\ \A k \in 1 .. Len(queue[h]) - 1 : Tail(queue[h])[k] = queue[h][k + 1]
  BY <1>3, HeadTailProperties
<1>5. WatchTyped'
  BY <1>1, <1>2, <1>4 DEF WatchTyped
<1>6. HandlersRight'
  BY <1>1, <1>2 DEF WatchTyped, HandlersRight
<1>7. ASSUME NEW s \in Subs, Queued(s), poller[s] # "done" PROVE Queued(s)'
  <2>1. PICK g \in Handlers : \E k \in DOMAIN queue[g] : queue[g][k] = s
    BY <1>7 DEF Queued
  <2>2. PICK k \in DOMAIN queue[g] : queue[g][k] = s
    BY <2>1
  <2>3. CASE g # h
    BY <1>1, <1>2, <2>2, <2>3 DEF Queued, WatchTyped
  <2>4. CASE g = h
    <3>1. k \in 1 .. Len(queue[h]) /\ Len(queue[h]) \in Nat
      BY <1>3, <2>2, <2>4, LenProperties
    <3>2. k # 1
      BY <1>2, <1>4, <1>7, <2>2, <2>4
    <3>3. k - 1 \in 1 .. Len(queue[h]) - 1 /\ (k - 1) + 1 = k
      BY <3>1, <3>2
    <3>4. Tail(queue[h])[k - 1] = s /\ k - 1 \in DOMAIN Tail(queue[h])
      BY <1>4, <2>2, <2>4, <3>3, LenProperties
    <3>5. queue'[h] = Tail(queue[h])
      BY <1>1, <1>2 DEF WatchTyped
    <3> QED
      BY <3>4, <3>5 DEF Queued
  <2> QED
    BY <2>3, <2>4
<1>8. PollersKnown'
  BY <1>1, <1>2, <1>7 DEF PollersKnown, Polls
<1>9. EndedIsDone'
  BY <1>1, <1>2 DEF EndedIsDone
<1> QED
  BY <1>5, <1>6, <1>8, <1>9 DEF WatchInv

\* The goroutine of a subscription goes on; nothing but itself ends it.
LEMMA PollStep ==
  ASSUME WatchInv, NEW s \in Subs, Poll(s)
  PROVE  WatchInv'
<1>1. WatchTyped /\ HandlersRight /\ PollersKnown /\ EndedIsDone
  BY DEF WatchInv
<1>2. /\ UNCHANGED <<version, subs, hpc, want, got, queue, ended>>
      /\ sub' = sub \/ sub' = [sub EXCEPT ![s].fingerprint = fetched[s]]
  BY DEF Poll, Check, Compare, StoreFingerprint, Notify, Stop, PollerOnly
<1>3. poller[s] \notin {"none", "done"}
        /\ \E p \in PollerSteps : poller' = [poller EXCEPT ![s] = p]
  BY DEF Poll, Check, Compare, StoreFingerprint, Notify, Stop, PGoto, PollerSteps
<1>4. /\ sub' \in [Subs -> [uri : AnyUri, fingerprint : Nat, cancelled : BOOLEAN]]
      /\ \A r \in Subs : sub'[r].uri = sub[r].uri
  <2>1. CASE sub' = sub
    BY <1>1, <2>1 DEF WatchTyped
  <2>2. CASE sub' = [sub EXCEPT ![s].fingerprint = fetched[s]]
    <3>1. PICK n \in Nat : n = fetched[s]
      BY <1>1 DEF WatchTyped
    <3>2. sub' = [sub EXCEPT ![s].fingerprint = n]
      BY <2>2, <3>1
    <3> QED
      BY <1>1, <3>2 DEF WatchTyped
  <2> QED
    BY <1>2, <2>1, <2>2
<1>5. WatchTyped'
  <2>1. sub[s].uri \in Uris
    BY <1>1, <1>3 DEF PollersKnown, Polls
  <2>2. fetched' \in [Subs -> Nat]
    <3>1. \/ fetched' = [fetched EXCEPT ![s] = version[sub[s].uri]]
          \/ fetched' = [fetched EXCEPT ![s] = 0] \/ fetched' = fetched
      BY DEF Poll, Check, Compare, StoreFingerprint, Notify, Stop
    <3> QED
      BY <1>1, <2>1, <3>1 DEF WatchTyped
  <2> QED
    BY <1>1, <1>2, <1>3, <1>4, <2>2 DEF WatchTyped
<1>6. HandlersRight'
  BY <1>1, <1>2 DEF HandlersRight
<1>7. \A r \in Subs : Polls(r)' => Polls(r)
  BY <1>1, <1>3 DEF Polls, WatchTyped
<1>8. PollersKnown'
  BY <1>1, <1>2, <1>4, <1>7 DEF PollersKnown, Queued
<1>9. EndedIsDone'
  BY <1>1, <1>2, <1>3 DEF EndedIsDone, WatchTyped
<1> QED
  BY <1>5, <1>6, <1>8, <1>9 DEF WatchInv

LEMMA WatchFrame ==
  ASSUME WatchInv, version' \in [Uris -> Nat],
         UNCHANGED <<fetched, got, subs, sub, poller, hpc, want, queue, ended>>
  PROVE  WatchInv'
  BY DEF WatchInv, WatchTyped, HandlersRight, PollersKnown, EndedIsDone, Polls, Queued

LEMMA WatchInvariance == Spec => []WatchInv
<1>1. Init => WatchInv
  <2>1. ASSUME Init PROVE WatchInv
    <3>1. /\ subs = [u \in Uris |-> NoSub] /\ poller = [s \in Subs |-> "none"]
          /\ hpc = [h \in Handlers |-> "idle"] /\ queue = [h \in Handlers |-> <<>>]
          /\ DOMAIN want = Handlers /\ ended = {}
          /\ version = [u \in Uris |-> 0] /\ fetched = [s \in Subs |-> 0]
          /\ got = [h \in Handlers |-> 0]
          /\ sub = [s \in Subs |-> [uri |-> CHOOSE u \in Uris : TRUE, fingerprint |-> 0,
                                    cancelled |-> FALSE]]
      BY <2>1 DEF Init
    <3>2. WatchTyped
      BY <3>1, EmptySeq DEF WatchTyped, PollerSteps, AnyUri
    <3> QED
      BY <3>1, <3>2 DEF WatchInv, HandlersRight, PollersKnown, EndedIsDone, Polls
  <2> QED
    BY <2>1
<1>2. WatchInv /\ [Next]_vars => WatchInv'
  <2> SUFFICES ASSUME WatchInv, [Next]_vars PROVE WatchInv'
    OBVIOUS
  <2>1. CASE (MacroNext /\ UNCHANGED watchVars) \/ UNCHANGED vars \/ \E u \in Uris : Change(u)
    <3>1. UNCHANGED <<fetched, got, subs, sub, poller, hpc, want, queue, ended>>
      BY <2>1 DEF watchVars, vars, Change
    <3>2. version' = version \/ \E u \in Uris : version' = [version EXCEPT ![u] = @ + 1]
      BY <2>1 DEF watchVars, vars, Change
    <3>3. version' \in [Uris -> Nat]
      <4>1. version \in [Uris -> Nat]
        BY DEF WatchInv, WatchTyped
      <4>2. ASSUME NEW u \in Uris, version' = [version EXCEPT ![u] = @ + 1]
            PROVE  version' \in [Uris -> Nat]
        BY <4>1, <4>2
      <4> QED
        BY <3>2, <4>1, <4>2
    <3> QED
      BY <3>1, <3>3, WatchFrame
  <2>2. ASSUME NEW h \in Handlers, Handle(h) PROVE WatchInv'
    BY <2>2, SubscribeStep, SubscribeLockedStep, RemovalStep, CancelStep, AwaitStep DEF Handle
  <2>3. ASSUME NEW s \in Subs, Poll(s) PROVE WatchInv'
    BY <2>3, PollStep
  <2> QED
    BY <2>1, <2>2, <2>3 DEF Next
<1> QED
  BY <1>1, <1>2, PTL DEF Spec

\* A resource is polled by one goroutine at a time, those excepted that a
\* handler is about to stop (watcher.go:49).
THEOREM OnePoller == Spec => []OnePollerPerResource
<1>1. WatchInv => OnePollerPerResource
  <2> SUFFICES ASSUME WatchInv, NEW s \in Subs, NEW r \in Subs,
                      s # r, sub[s].uri = sub[r].uri, Polls(s), Polls(r)
               PROVE  Queued(s) \/ Queued(r)
    BY DEF OnePollerPerResource, Queued, Polls
  <2> QED
    BY DEF WatchInv, PollersKnown
<1> QED
  BY <1>1, WatchInvariance, PTL

\* After a handler has seen a subscription end, nothing is notified or asked
\* for on its behalf (watcher.go:86, 101).
THEOREM EndIsTheEnd == Spec => NoLateNotification
<1>1. WatchInv /\ [Next]_vars => [\A s \in ended : ~ Notify(s) /\ ~ Check(s)]_vars
  BY DEF WatchInv, EndedIsDone, Notify, Check
<1> QED
  BY <1>1, WatchInvariance, PTL DEF Spec, NoLateNotification
-----------------------------------------------------------------------------
(* The recording.  Whatever appends to it, a call of a client or a poll of *)
(* the watcher, leaves in it what it holds.                                *)

RecordInv ==
  /\ buf \in Seq({buf[k] : k \in DOMAIN buf}) /\ made \in Nat
  /\ RecordingIsComplete

LEMMA EmptyRecording ==
  ASSUME buf' = <<>>, made' = 0
  PROVE  RecordInv'
<1>1. Own' = {}
  BY EmptySeq DEF Own
<1>2. Cardinality(Own') = 0
  BY <1>1, FS_EmptySet
<1> QED
  BY <1>2, EmptySeq DEF RecordInv, RecordingIsComplete

\* An entry more: what the recording holds of its own calls stays, and a call
\* that began during it is added to them (store.go:72-83).
LEMMA AppendStep ==
  ASSUME RecordInv, NEW e, AppendCall(e), UNCHANGED <<active, epoch>>,
         made' = made \/ (active # NoName /\ e.during = epoch /\ made' = made + 1)
  PROVE  RecordInv'
<1> DEFINE S == {buf[k] : k \in DOMAIN buf}
<1>1. buf \in Seq(S) /\ made \in Nat /\ made' \in Nat
  BY DEF RecordInv
<1>2. CASE active = NoName
  BY <1>1, <1>2 DEF AppendCall, RecordInv, RecordingIsComplete
<1>3. CASE active # NoName
  <2> DEFINE T == S \cup {e}
             n == Len(buf)
  <2>1. buf' = Append(buf, e)
    BY <1>3 DEF AppendCall
  <2>2. buf \in Seq(T) /\ e \in T
    <3>1. S \subseteq T
      OBVIOUS
    <3> HIDE DEF S
    <3> QED
      BY <1>1, <3>1
  <2>3. n \in Nat /\ DOMAIN buf = 1 .. n
    <3> HIDE DEF S, T
    <3> QED
      BY <1>1, LenProperties
  <2>4. /\ buf' \in Seq(T) /\ DOMAIN buf' = 1 .. n + 1
        /\ \A k \in 1 .. n : buf'[k] = buf[k]
        /\ buf'[n + 1] = e
    <3> HIDE DEF S, T
    <3> QED
      BY <2>1, <2>2, <2>3, AppendProperties, LenProperties
  <2>5. buf' \in Seq({buf'[k] : k \in DOMAIN buf'})
    <3> DEFINE U == {buf'[k] : k \in DOMAIN buf'}
    <3>1. buf' \in [1 .. n + 1 -> U]
      <4>1. buf' \in [1 .. n + 1 -> T]
        <5> HIDE DEF S, T, U
        <5> QED
          BY <2>3, <2>4, LenProperties
      <4> QED
        BY <2>4, <4>1
    <3>2. n + 1 \in Nat
      BY <2>3
    <3> HIDE DEF U
    <3> QED
      BY <3>1, <3>2
  <2>6. IsFiniteSet(Own) /\ Cardinality(Own) \in Nat /\ n + 1 \notin Own
    <3>1. Own \subseteq 1 .. n
      BY <2>3 DEF Own
    <3>2. IsFiniteSet(1 .. n)
      BY <2>3, FS_Interval
    <3>3. IsFiniteSet(Own) /\ Cardinality(Own) \in Nat
      BY <3>1, <3>2, FS_Subset, FS_CardinalityType
    <3>4. n + 1 \notin 1 .. n
      <4> HIDE DEF n
      <4> QED
        BY <2>3
    <3> QED
      BY <3>1, <3>3, <3>4
  <2>7. CASE e.during = epoch
    <3>1. Own' = Own \cup {n + 1}
      BY <2>3, <2>4, <2>7 DEF Own
    <3>2. Cardinality(Own') = Cardinality(Own) + 1
      BY <2>6, <3>1, FS_AddElement
    <3> QED
      BY <1>1, <1>3, <2>5, <2>6, <3>2 DEF RecordInv, RecordingIsComplete
  <2>8. CASE e.during # epoch
    <3>1. Own' = Own
      BY <2>3, <2>4, <2>8 DEF Own
    <3> QED
      BY <1>1, <1>3, <2>5, <2>8, <3>1 DEF RecordInv, RecordingIsComplete
  <2> QED
    BY <2>7, <2>8
<1> QED
  BY <1>2, <1>3

LEMMA RecordFrame ==
  ASSUME RecordInv, UNCHANGED <<active, buf, epoch, made>>
  PROVE  RecordInv'
  BY DEF RecordInv, RecordingIsComplete, Own

LEMMA MacroStep ==
  ASSUME RecordInv, MacroNext
  PROVE  RecordInv'
<1>1. CASE Restart
  BY <1>1, EmptyRecording DEF Restart
<1>2. ASSUME NEW c \in Clients, Dispatch(c) \/ ReplayStep(c) PROVE RecordInv'
  BY <1>2, RecordFrame DEF Dispatch, ReplayStep, recording
<1>3. ASSUME NEW c \in Clients, Run(c) PROVE RecordInv'
  <2>1. \/ UNCHANGED recording
        \/ StartRecording(c) \/ StopRecording(c)
    BY <1>3 DEF Run, Replay
  <2>2. CASE StartRecording(c)
    BY <2>2, RecordFrame, EmptyRecording DEF StartRecording, recording
  <2>3. CASE StopRecording(c)
    BY <2>3, RecordFrame, EmptyRecording DEF StopRecording, recording
  <2> QED
    BY <2>1, <2>2, <2>3, RecordFrame DEF recording
<1>4. ASSUME NEW c \in Clients, Recorded(c) PROVE RecordInv'
  BY <1>4, AppendStep DEF Recorded
<1> QED
  BY <1>1, <1>2, <1>3, <1>4 DEF MacroNext

\* A poll is recorded as a call that no recording has to hold.
LEMMA FingerprintStep ==
  ASSUME RecordInv, Fingerprint
  PROVE  RecordInv'
<1>1. (AppendCall(Discover) \/ UNCHANGED buf) /\ UNCHANGED <<active, epoch, made>>
  BY DEF Fingerprint
<1> QED
  BY <1>1, AppendStep, RecordFrame

\* Every call that began while a recording was active, and has returned with
\* success, is in it, whatever other calls and polls run at the same time
\* (store.go:72, 110).
THEOREM RecordingComplete == Spec => []RecordingIsComplete
<1>1. Init => RecordInv
  <2>1. ASSUME Init PROVE RecordInv
    <3>1. buf = <<>> /\ made = 0 /\ active = NoName
      BY <2>1 DEF Init, MacroInit
    <3> QED
      BY <3>1, EmptySeq DEF RecordInv, RecordingIsComplete
  <2> QED
    BY <2>1
<1>2. RecordInv /\ [Next]_vars => RecordInv'
  <2> SUFFICES ASSUME RecordInv, [Next]_vars PROVE RecordInv'
    OBVIOUS
  <2>1. CASE MacroNext
    BY <2>1, MacroStep
  <2>2. CASE UNCHANGED vars \/ \E u \in Uris : Change(u)
    BY <2>2, RecordFrame DEF Change, vars, macroVars
  <2>3. ASSUME NEW h \in Handlers, Handle(h) PROVE RecordInv'
    <3>1. CASE Subscribe(h)
      BY <3>1, FingerprintStep, RecordFrame DEF Subscribe, NoCall, recording
    <3>2. CASE SubscribeLocked(h) \/ Cancel(h) \/ Await(h)
      BY <3>2, RecordFrame DEF SubscribeLocked, SubscribeEnds, Cancel, Await, macroVars
    <3>3. CASE Unsubscribe(h) \/ Close(h)
      BY <3>3, RecordFrame DEF Unsubscribe, Close, NoCall, recording
    <3> QED
      BY <2>3, <3>1, <3>2, <3>3 DEF Handle
  <2>4. ASSUME NEW s \in Subs, Poll(s) PROVE RecordInv'
    <3>1. CASE Check(s)
      BY <3>1, FingerprintStep DEF Check
    <3>2. CASE Compare(s) \/ StoreFingerprint(s) \/ Notify(s) \/ Stop(s)
      BY <3>2, RecordFrame DEF Compare, StoreFingerprint, Notify, Stop, macroVars
    <3> QED
      BY <2>4, <3>1, <3>2 DEF Poll
  <2> QED
    BY <2>1, <2>2, <2>3, <2>4 DEF Next
<1>3. RecordInv => RecordingIsComplete
  BY DEF RecordInv
<1> QED
  BY <1>1, <1>2, <1>3, PTL DEF Spec
=============================================================================
