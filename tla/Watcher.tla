------------------------------- MODULE Watcher -------------------------------
(***************************************************************************)
(* Subscriptions to office:// resources (internal/resources/watcher.go),   *)
(* next to the tool calls of Macros: every fingerprint that the watcher    *)
(* asks for is a dispatch of <host>.discover and is recorded as such.      *)
(*                                                                         *)
(* A subscription is a number; it has a goroutine that polls.  The version *)
(* of a resource stands for the fingerprint that discover computes of it.  *)
(***************************************************************************)
EXTENDS Macros

CONSTANTS
  Uris,         \* resources
  Handlers,     \* goroutines that serve subscribe, unsubscribe and the end
  MaxSubs,      \* bound: subscriptions
  MaxVersion,   \* bound: changes of each resource
  MaxPolled     \* bound: dispatches of discover that a recording shows

ASSUME MaxSubsAssumption == MaxSubs \in Nat

Subs == 1 .. MaxSubs
NoSub == 0

VARIABLES
  version,    \* per resource
  subs,       \* Watcher.subs: per resource its subscription or NoSub
  sub,        \* per subscription: uri, fingerprint, cancelled
  poller,     \* per subscription: the step of its goroutine
  fetched,    \* per subscription: the fingerprint of the check it is making
  hpc, want, got,   \* per handler: its step, resource, fingerprint
  queue,      \* per handler: the subscriptions it has to stop
  ended,      \* ghost: subscriptions whose end a handler has reported
  told,       \* ghost: per resource the version that the client was told of
  swallowed   \* ghost: resources whose fingerprint a second subscribe has set

watchVars == <<version, subs, sub, poller, fetched, hpc, want, got, queue, ended, told,
               swallowed>>
vars == <<macroVars, watchVars>>

Init ==
  /\ MacroInit
  /\ version = [u \in Uris |-> 0] /\ subs = [u \in Uris |-> NoSub]
  /\ sub = [s \in Subs |-> [uri |-> CHOOSE u \in Uris : TRUE, fingerprint |-> 0,
                            cancelled |-> FALSE]]
  /\ poller = [s \in Subs |-> "none"] /\ fetched = [s \in Subs |-> 0]
  /\ hpc = [h \in Handlers |-> "idle"] /\ got = [h \in Handlers |-> 0]
  /\ want = [h \in Handlers |-> CHOOSE u \in Uris : TRUE]
  /\ queue = [h \in Handlers |-> <<>>]
  /\ ended = {} /\ told = [u \in Uris |-> 0] /\ swallowed = {}

HGoto(h, label) == hpc' = [hpc EXCEPT ![h] = label]
PGoto(s, label) == poller' = [poller EXCEPT ![s] = label]

\* Provider.Fingerprint, when it succeeds: a dispatch of discover.
Discover == [tool |-> "discover", name |-> NoName, during |-> 0]
Fingerprint ==
  /\ IF Cardinality({k \in DOMAIN buf : buf[k] = Discover}) < MaxPolled
       THEN AppendCall(Discover) ELSE UNCHANGED buf
  /\ UNCHANGED <<active, cache, disk, registered, pc, call, frames, epoch, made>>

\* Requests count among the calls, for the bound's sake.
Request(h) == hpc[h] = "idle" /\ calls < MaxCalls /\ calls' = calls + 1
NoCall == UNCHANGED <<recording, registered, pc, call, frames>>
-----------------------------------------------------------------------------
(* Subscribe: the fingerprint first, then the lock.                        *)

Subscribe(h) ==
  /\ Request(h)
  /\ \E u \in Uris :
       \/ /\ want' = [want EXCEPT ![h] = u] /\ got' = [got EXCEPT ![h] = version[u]]
          /\ HGoto(h, "fetched") /\ Fingerprint
       \/ NoCall /\ UNCHANGED <<want, got, hpc>>   \* the dispatch fails
  /\ UNCHANGED <<version, subs, sub, poller, fetched, queue, ended, told, swallowed>>

NewSub(h) ==
  \E s \in Subs :
    /\ poller[s] = "none" /\ \A r \in 1 .. s - 1 : poller[r] # "none"
    /\ subs' = [subs EXCEPT ![want[h]] = s]
    /\ sub' = [sub EXCEPT ![s] = [uri |-> want[h], fingerprint |-> got[h],
                                  cancelled |-> FALSE]]
    /\ PGoto(s, "wait")
    /\ told' = [told EXCEPT ![want[h]] = got[h]]
    /\ swallowed' = swallowed \ {want[h]}

SubscribeEnds(h) ==
  HGoto(h, "idle") /\ got' = [got EXCEPT ![h] = 0]
    /\ UNCHANGED <<macroVars, version, fetched, want, queue, ended>>

\* Mutant: the second subscribe for a resource does not look for the first.
SubscribeLocked_noCheck(h) == hpc[h] = "fetched" /\ NewSub(h) /\ SubscribeEnds(h)

\* A resource that has a subscription keeps it, with the new fingerprint.
SubscribeLocked(h) ==
  /\ hpc[h] = "fetched"
  /\ IF subs[want[h]] = NoSub THEN NewSub(h)
     ELSE /\ sub' = [sub EXCEPT ![subs[want[h]]].fingerprint = got[h]]
          /\ swallowed' = swallowed \cup {want[h]}
          /\ UNCHANGED <<subs, poller, told>>
  /\ SubscribeEnds(h)
-----------------------------------------------------------------------------
(* Unsubscribe and Close: forget under the lock, then stop one by one.     *)

Unsubscribe(h) ==
  /\ Request(h)
  /\ \E u \in Uris :
       /\ subs[u] # NoSub
       /\ subs' = [subs EXCEPT ![u] = NoSub]
       /\ queue' = [queue EXCEPT ![h] = <<subs[u]>>]
  /\ HGoto(h, "stop") /\ NoCall
  /\ UNCHANGED <<version, sub, poller, fetched, want, got, ended, told, swallowed>>

\* The map gives them in any order.
Close(h) ==
  LET all == {subs[u] : u \in Uris} \ {NoSub}
  IN  /\ Request(h)
      /\ subs' = [u \in Uris |-> NoSub]
      /\ \E q \in [1 .. Cardinality(all) -> all] :
           /\ {q[k] : k \in DOMAIN q} = all
           /\ queue' = [queue EXCEPT ![h] = q]
      /\ HGoto(h, "stop") /\ NoCall
      /\ UNCHANGED <<version, sub, poller, fetched, want, got, ended, told,
                     swallowed>>

Cancel(h) ==
  /\ hpc[h] = "stop"
  /\ IF queue[h] = <<>> THEN HGoto(h, "idle") /\ UNCHANGED sub
     ELSE /\ sub' = [sub EXCEPT ![Head(queue[h])].cancelled = TRUE]
          /\ HGoto(h, "await")
  /\ UNCHANGED <<macroVars, version, subs, poller, fetched, want, got, queue,
                 ended, told, swallowed>>

\* Mutant: the goroutine is cancelled and not waited for.
Await_not(h) ==
  /\ hpc[h] = "await"
  /\ ended' = ended \cup {Head(queue[h])}
  /\ queue' = [queue EXCEPT ![h] = Tail(@)]
  /\ HGoto(h, "stop")
  /\ UNCHANGED <<macroVars, version, subs, sub, poller, fetched, want, got, told,
                 swallowed>>

\* <-sub.done
Await(h) ==
  /\ hpc[h] = "await" /\ poller[Head(queue[h])] = "done"
  /\ ended' = ended \cup {Head(queue[h])}
  /\ queue' = [queue EXCEPT ![h] = Tail(@)]
  /\ HGoto(h, "stop")
  /\ UNCHANGED <<macroVars, version, subs, sub, poller, fetched, want, got, told,
                 swallowed>>
-----------------------------------------------------------------------------
(* The goroutine of a subscription.                                        *)

PollerOnly == UNCHANGED <<version, subs, hpc, want, got, queue, ended, swallowed>>

\* checkOnce: a tick may win against the cancellation.  A check that fails
\* leaves everything to the next tick.
Check(s) ==
  /\ poller[s] = "wait"
  /\ fetched' = [fetched EXCEPT ![s] = version[sub[s].uri]]
  /\ PGoto(s, "compare") /\ Fingerprint /\ UNCHANGED calls
  /\ UNCHANGED <<sub, told>> /\ PollerOnly

\* Mutant: the fingerprint is stored before it is compared.
Compare_stored(s) ==
  /\ poller[s] = "compare"
  /\ sub' = [sub EXCEPT ![s].fingerprint = fetched[s]]
  /\ PGoto(s, "wait") /\ fetched' = [fetched EXCEPT ![s] = 0]
  /\ UNCHANGED <<macroVars, told>> /\ PollerOnly

Compare(s) ==
  /\ poller[s] = "compare"
  /\ IF fetched[s] = sub[s].fingerprint
       THEN PGoto(s, "wait") /\ fetched' = [fetched EXCEPT ![s] = 0]
       ELSE PGoto(s, "changed") /\ UNCHANGED fetched
  /\ UNCHANGED <<macroVars, sub, told>> /\ PollerOnly

\* The lock is taken a second time.
StoreFingerprint(s) ==
  /\ poller[s] = "changed"
  /\ sub' = [sub EXCEPT ![s].fingerprint = fetched[s]]
  /\ PGoto(s, "notify") /\ fetched' = [fetched EXCEPT ![s] = 0]
  /\ UNCHANGED <<macroVars, told>> /\ PollerOnly

\* Outside the lock; a client that is notified reads the resource anew.
Notify(s) ==
  /\ poller[s] = "notify"
  /\ told' = [told EXCEPT ![sub[s].uri] = version[sub[s].uri]]
  /\ PGoto(s, "wait")
  /\ UNCHANGED <<macroVars, sub, fetched>> /\ PollerOnly

\* Mutant: a goroutine that is cancelled makes another check.
Stop_checks(s) ==
  /\ poller[s] = "wait" /\ sub[s].cancelled
  /\ fetched' = [fetched EXCEPT ![s] = version[sub[s].uri]]
  /\ PGoto(s, "compare")
  /\ UNCHANGED <<macroVars, sub, told>> /\ PollerOnly

\* poll: ctx.Done.
Stop(s) ==
  /\ poller[s] = "wait" /\ sub[s].cancelled
  /\ PGoto(s, "done")
  /\ UNCHANGED <<macroVars, sub, fetched, told>> /\ PollerOnly

\* The document changes (external).
Change(u) ==
  /\ version[u] < MaxVersion
  /\ version' = [version EXCEPT ![u] = @ + 1]
  /\ UNCHANGED <<macroVars, subs, sub, poller, fetched, hpc, want, got, queue,
                 ended, told, swallowed>>

Poll(s) == Check(s) \/ Compare(s) \/ StoreFingerprint(s) \/ Notify(s) \/ Stop(s)
Handle(h) == Subscribe(h) \/ SubscribeLocked(h) \/ Unsubscribe(h) \/ Close(h)
               \/ Cancel(h) \/ Await(h)

Next ==
  \/ MacroNext /\ UNCHANGED watchVars
  \/ \E h \in Handlers : Handle(h)
  \/ \E s \in Subs : Poll(s)
  \/ \E u \in Uris : Change(u)

Spec == Init /\ [][Next]_vars

\* Ticks keep coming, and the document can be reached at some of them; select
\* takes the cancellation sooner or later; a handler that can go on does.
Fairness ==
  /\ \A s \in Subs : /\ WF_vars(Check(s)) /\ SF_vars(Stop(s))
                     /\ WF_vars(Compare(s)) /\ WF_vars(StoreFingerprint(s))
                     /\ WF_vars(Notify(s))
  /\ \A h \in Handlers : WF_vars(SubscribeLocked(h) \/ Cancel(h) \/ Await(h))

LiveSpec == Spec /\ Fairness
-----------------------------------------------------------------------------
(* Properties.                                                             *)

\* A resource is polled by one goroutine at a time, those excepted that a
\* handler is about to stop (watcher.go:49).
OnePollerPerResource ==
  \A s, r \in Subs :
    /\ s # r /\ sub[s].uri = sub[r].uri
    /\ poller[s] \notin {"none", "done"} /\ poller[r] \notin {"none", "done"}
    => \E h \in Handlers : \E k \in DOMAIN queue[h] : queue[h][k] \in {s, r}

\* Once the Unsubscribe or the Close that removed a subscription has seen it
\* end, nothing is notified or asked for on its behalf (watcher.go:86, 101).
NoLateNotification ==
  [][\A s \in ended : ~ Notify(s) /\ ~ Check(s)]_vars

\* The client is told of every change of a resource that it is subscribed to,
\* unless it unsubscribes or a second subscribe has taken the change for the
\* state to start from (watcher.go:50).
ChangeIsTold ==
  \A u \in Uris :
    subs[u] # NoSub /\ told[u] # version[u]
      ~> told[u] = version[u] \/ subs[u] = NoSub \/ u \in swallowed

\* Unsubscribe and Close return: the goroutines that they wait for end.
HandlersReturn == \A h \in Handlers : hpc[h] = "await" ~> hpc[h] = "idle"
=============================================================================
