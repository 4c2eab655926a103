------------------------- MODULE CdpConnectionProofs -------------------------
(***************************************************************************)
(* Proofs about CdpConnection, for any number of callers, commands and     *)
(* subscriptions: no channel is closed twice, the read loop hands over     *)
(* safely, and Send keeps the promise of CommandSpec.                      *)
(***************************************************************************)
EXTENDS CdpConnection, TLAPS

\* closeWithErr has detached its victims and not yet closed their channels.
PendingDoomed == closing.stage \in {"ws", "pending"}
SubsDoomed == closing.stage \in {"ws", "pending", "subs"}

Records ==
  /\ closing \in [by : {"none", "user", "loop"},
                  stage : {"none", "ws", "pending", "subs", "done"}]
  /\ victims \in [ids : SUBSET Ids, subs : SUBSET Subs]

\* A command has an id of its own, and nobody else's is awaited.
IdsAreOwned ==
  /\ \A c \in Callers : pc[c] = "idle" <=> myId[c] = 0
  /\ \A c, d \in Callers : c # d /\ pc[c] # "idle" => myId[c] # myId[d]
  /\ \A i \in pending : \E c \in Callers : myId[c] = i

\* An id is in one place: pending, with the read loop, with a closer, or with a
\* frame; only in the last is its channel closed, or by the closer.
ChannelsInOrder ==
  /\ \A i \in Ids : i > nextID => chanCloses[i] = 0
  /\ \A i \in pending : chanCloses[i] = 0 /\ i \notin holds
  /\ loop = "deliver" => /\ loopId \in Ids /\ loopId \notin pending \cup holds
                         /\ chanCloses[loopId] = 0
                         /\ PendingDoomed => loopId \notin victims.ids
  /\ PendingDoomed => \A i \in victims.ids : /\ chanCloses[i] = 0 /\ i <= nextID
                                             /\ i \notin pending \cup holds
  /\ \A c \in Callers :
       pc[c] # "idle" /\ myId[c] \notin holds /\ chanCloses[myId[c]] > 0 => closed

\* A subscriber's channel is open for as long as it is registered, and closed
\* by the closer that detached it or by the cancellation.
SubsInOrder ==
  /\ \A s \in Subs : subState[s] = "new" => subCloses[s] = 0
  /\ \A m \in Methods : \A s \in subs[m] : subState[s] = "subscribed" /\ subCloses[s] = 0
  /\ SubsDoomed => \A s \in victims.subs : subState[s] # "new" /\ subCloses[s] = 0
  /\ \A s \in Subs : subCloses[s] > 0 => closed \/ subState[s] = "canceled"

ClosedForGood ==
  /\ closed => pending = {} /\ \A m \in Methods : subs[m] = {}
  /\ closing.stage # "none" => closed
  /\ closed /\ loop \notin {"closing", "exited"} => cause = "close"
  /\ ~closed => cause = "none"

IInv == /\ TypeOK /\ Records
        /\ IdsAreOwned /\ ChannelsInOrder /\ SubsInOrder /\ ClosedForGood
        /\ PanicNeedsCancelOrClose
-----------------------------------------------------------------------------
(* Every step preserves each part of the invariant.                        *)

\* What is fixed: numbers up to the last id, and the closer's record.
LEMMA Numbers ==
  ASSUME TypeOK
  PROVE  /\ nextID \in Nat /\ MaxIds \in Nat /\ 1 .. nextID \subseteq Ids
         /\ \A i \in pending : i <= nextID
<1>1. nextID \in Nat /\ MaxIds \in Nat /\ pending \subseteq 1 .. nextID
  BY IdsAssumption DEF TypeOK
<1> QED
  BY <1>1, IdsAssumption DEF TypeOK, Ids

\* A step of closeWithErr only moves the record of its stage.
LEMMA RecordsStep ==
  ASSUME IInv, [Next]_vars
  PROVE  Records'
<1>1. TypeOK /\ Records /\ pending \subseteq Ids
  BY Numbers DEF IInv, TypeOK
<1>2. CASE UNCHANGED closeVars
  BY <1>1, <1>2 DEF Records, closeVars
<1>3. ASSUME NEW who \in {"user", "loop"}, NEW why, markClosed(who, why) PROVE Records'
  <2>1. UNION {subs[m] : m \in Methods} \subseteq Subs
    BY <1>1 DEF TypeOK
  <2> QED
    BY <1>1, <1>3, <2>1 DEF Records, markClosed
<1>4. CASE CloserStep
  BY <1>1, <1>4 DEF Records, CloserStep, CloseWs, ClosePending, closeSubscribers
<1>5. CASE LoopFails
  BY <1>2, <1>3, <1>5 DEF LoopFails
<1> QED
  BY <1>2, <1>3, <1>4, <1>5 DEF Next, SendStep, LoopStep, vars, Close, registerPending,
     SendRefused, WriteOk, WriteFailed, AwaitFrame, AwaitClosed, AwaitCanceled, Cleanup,
     ReadResponse, DeliverResponse, ReadEvent, SendEvent, LoopExits, SubscribeMethods,
     CancelSub, TransportFails

\* Commands and ids.
LEMMA IdsStep ==
  ASSUME IInv, [Next]_vars
  PROVE  IdsAreOwned'
<1>1. TypeOK /\ IdsAreOwned /\ nextID \in Nat
  BY Numbers DEF IInv
<1>2. ASSUME \A c \in Callers : pc'[c] = "idle" <=> pc[c] = "idle", UNCHANGED myId,
             pending' \subseteq pending
      PROVE  IdsAreOwned'
  BY <1>1, <1>2 DEF IdsAreOwned
<1>3. ASSUME NEW c \in Callers, pc[c] # "idle", pc' = [pc EXCEPT ![c] = "idle"],
             myId' = [myId EXCEPT ![c] = 0],
             \/ pending' = pending \ {myId[c]}
             \/ pending' = pending /\ myId[c] \notin pending
      PROVE  IdsAreOwned'
  <2>1. /\ pc'[c] = "idle" /\ myId'[c] = 0
        /\ \A d \in Callers \ {c} : pc'[d] = pc[d] /\ myId'[d] = myId[d]
    BY <1>1, <1>3 DEF TypeOK
  <2>2. \A i \in pending' : \E d \in Callers \ {c} : myId[d] = i
    BY <1>1, <1>3 DEF IdsAreOwned
  <2> QED
    BY <1>1, <2>1, <2>2 DEF IdsAreOwned
<1>4. ASSUME NEW c \in Callers, registerPending(c) PROVE IdsAreOwned'
  <2>1. /\ nextID' = nextID + 1 /\ pending' = pending \cup {nextID'}
        /\ pc'[c] = "write" /\ myId'[c] = nextID'
        /\ \A d \in Callers \ {c} : pc'[d] = pc[d] /\ myId'[d] = myId[d]
    BY <1>1, <1>4 DEF TypeOK, registerPending
  <2>2. nextID' # 0 /\ \A d \in Callers : myId[d] # nextID'
    BY <1>1, <2>1 DEF TypeOK
  <2>3. \A i \in pending : \E d \in Callers \ {c} : myId[d] = i
    <3>1. pc[c] = "idle" /\ 0 \notin pending
      BY <1>1, <1>4 DEF TypeOK, registerPending
    <3> QED
      BY <1>1, <3>1 DEF IdsAreOwned
  <2> QED
    BY <1>1, <2>1, <2>2, <2>3 DEF IdsAreOwned
<1>5. ASSUME NEW c \in Callers, SendRefused(c) PROVE IdsAreOwned'
  <2>1. UNCHANGED <<pc, myId, pending>>
    BY <1>1, <1>5 DEF TypeOK, IdsAreOwned, SendRefused, Return, chanVars
  <2> QED
    BY <1>2, <2>1
<1>6. ASSUME NEW c \in Callers, WriteOk(c) \/ WriteFailed(c) \/ AwaitCanceled(c)
      PROVE  IdsAreOwned'
  <2>1. /\ \A d \in Callers : pc'[d] = "idle" <=> pc[d] = "idle"
        /\ UNCHANGED <<myId, pending>>
    BY <1>1, <1>6 DEF TypeOK, WriteOk, WriteFailed, AwaitCanceled, Goto, chanVars
  <2> QED
    BY <1>2, <2>1
<1>7. ASSUME NEW c \in Callers, AwaitFrame(c) \/ AwaitClosed(c) PROVE IdsAreOwned'
  <2>1. myId[c] \in Ids \/ myId[c] = 0
    BY <1>1, Numbers DEF TypeOK
  <2>2. myId[c] \notin pending
    <3>1. myId[c] \in holds \/ chanCloses[myId[c]] > 0
      BY <1>7 DEF AwaitFrame, AwaitClosed
    <3> QED
      BY <3>1 DEF IInv, ChannelsInOrder
  <2> QED
    BY <1>3, <1>7, <2>2 DEF AwaitFrame, AwaitClosed, Return, chanVars
<1>8. ASSUME NEW c \in Callers, Cleanup(c) PROVE IdsAreOwned'
  <2>1. /\ pc[c] # "idle" /\ pc' = [pc EXCEPT ![c] = "idle"]
        /\ myId' = [myId EXCEPT ![c] = 0] /\ pending' = pending \ {myId[c]}
    BY <1>8 DEF Cleanup, Return
  <2> QED
    BY <1>3, <2>1
<1>9. ASSUME NEW i \in wire, ReadResponse(i) PROVE IdsAreOwned'
  BY <1>2, <1>9 DEF ReadResponse, callVars
<1>10. CASE LoopFails \/ Close
  BY <1>2, <1>10 DEF LoopFails, Close, markClosed, callVars
<1>11. CASE UNCHANGED <<callVars, pending>>
  BY <1>2, <1>11 DEF callVars
<1> QED
  BY <1>4, <1>5, <1>6, <1>7, <1>8, <1>9, <1>10, <1>11 DEF Next, SendStep, LoopStep,
     CloserStep, vars, chanVars, CloseWs, ClosePending, closeSubscribers, DeliverResponse,
     ReadEvent, SendEvent, LoopExits, SubscribeMethods, CancelSub, TransportFails

\* Channels of Sends.
LEMMA ChannelsStep ==
  ASSUME IInv, [Next]_vars
  PROVE  ChannelsInOrder'
<1>1. /\ TypeOK /\ Records /\ IdsAreOwned /\ ChannelsInOrder /\ ClosedForGood
      /\ nextID \in Nat /\ 1 .. nextID \subseteq Ids
  BY Numbers DEF IInv
<1>2. ASSUME UNCHANGED <<nextID, chanCloses, victims>>, pending' \subseteq pending,
             holds' \subseteq holds, closed => closed',
             PendingDoomed' => PendingDoomed,
             loop' = "deliver" => loop = "deliver" /\ loopId' = loopId,
             \A c \in Callers : pc'[c] # "idle" =>
               pc[c] # "idle" /\ myId'[c] = myId[c] /\ (myId[c] \in holds => myId[c] \in holds')
      PROVE  ChannelsInOrder'
  BY <1>1, <1>2 DEF ChannelsInOrder
<1>3. ASSUME NEW c \in Callers, registerPending(c) PROVE ChannelsInOrder'
  <2>1. /\ nextID' = nextID + 1 /\ pending' = pending \cup {nextID'} /\ nextID' \in Ids
        /\ pc'[c] = "write" /\ myId'[c] = nextID' /\ ~closed
        /\ \A d \in Callers \ {c} : pc'[d] = pc[d] /\ myId'[d] = myId[d]
        /\ UNCHANGED <<closed, holds, chanCloses, loop, loopId, closing, victims>>
    BY <1>1, <1>3, IdsAssumption DEF TypeOK, registerPending, Ids, connVars, loopVars, closeVars
  <2>2. chanCloses[nextID'] = 0 /\ nextID' \notin holds /\ loopId # nextID' /\ ~PendingDoomed
    BY <1>1, <2>1 DEF TypeOK, ChannelsInOrder, ClosedForGood, PendingDoomed
  <2>3. ~PendingDoomed'
    BY <2>1, <2>2 DEF PendingDoomed
  <2>4. \A i \in Ids : i > nextID' => i > nextID
    BY <1>1, <2>1 DEF Ids
  <2> QED
    BY <1>1, <2>1, <2>2, <2>3, <2>4 DEF ChannelsInOrder
<1>4. ASSUME NEW c \in Callers, NEW outcome, Return(c, outcome),
             \A d \in Callers \ {c} : pc[d] # "idle" /\ myId[d] \in holds => myId[d] \in holds'
      PROVE  \A d \in Callers : pc'[d] # "idle" =>
               pc[d] # "idle" /\ myId'[d] = myId[d] /\ (myId[d] \in holds => myId[d] \in holds')
  BY <1>1, <1>4 DEF TypeOK, Return
<1>5. ASSUME NEW c \in Callers, SendRefused(c) \/ AwaitClosed(c) PROVE ChannelsInOrder'
  <2>1. UNCHANGED <<nextID, chanCloses, victims, pending, holds, closed, closing, loop, loopId>>
    BY <1>5 DEF SendRefused, AwaitClosed, connVars, chanVars, loopVars, closeVars
  <2>2. Return(c, "closed")
    BY <1>5 DEF SendRefused, AwaitClosed
  <2> QED
    BY <1>2, <1>4, <2>1, <2>2 DEF PendingDoomed
<1>6. ASSUME NEW c \in Callers, WriteOk(c) \/ WriteFailed(c) \/ AwaitCanceled(c)
      PROVE  ChannelsInOrder'
  <2>1. UNCHANGED <<nextID, chanCloses, victims, pending, holds, closed, closing, loop, loopId>>
    BY <1>6 DEF WriteOk, WriteFailed, AwaitCanceled, connVars, chanVars, loopVars, closeVars
  <2>2. (\A d \in Callers : pc'[d] = "idle" <=> pc[d] = "idle") /\ UNCHANGED myId
    BY <1>1, <1>6 DEF TypeOK, WriteOk, WriteFailed, AwaitCanceled, Goto
  <2> QED
    BY <1>2, <2>1, <2>2 DEF PendingDoomed
<1>7. ASSUME NEW c \in Callers, AwaitFrame(c) \/ Cleanup(c) PROVE ChannelsInOrder'
  <2>1. /\ UNCHANGED <<nextID, chanCloses, victims, closed, closing, loop, loopId>>
        /\ pending' \subseteq pending /\ holds' = holds \ {myId[c]} /\ pc[c] # "idle"
    BY <1>7 DEF AwaitFrame, Cleanup, connVars, loopVars, closeVars
  <2>2. \A d \in Callers \ {c} : pc[d] # "idle" /\ myId[d] \in holds => myId[d] \in holds'
    BY <1>1, <2>1 DEF IdsAreOwned
  <2>3. \E outcome : Return(c, outcome)
    BY <1>7 DEF AwaitFrame, Cleanup
  <2> QED
    BY <1>2, <1>4, <2>1, <2>2, <2>3 DEF PendingDoomed
<1>8. ASSUME NEW i \in wire, ReadResponse(i) PROVE ChannelsInOrder'
  <2>1. /\ UNCHANGED <<nextID, chanCloses, victims, closed, closing, holds, pc, myId>>
        /\ loop = "read"
    BY <1>8 DEF ReadResponse, connVars, closeVars, callVars
  <2>2. CASE i \in pending
    <3>1. pending' = pending \ {i} /\ loop' = "deliver" /\ loopId' = i
      BY <1>8, <2>2 DEF ReadResponse
    <3>2. i \in Ids /\ chanCloses[i] = 0 /\ i \notin holds /\ ~PendingDoomed
      BY <1>1, <2>2 DEF TypeOK, ChannelsInOrder, ClosedForGood, PendingDoomed
    <3>3. ~PendingDoomed'
      BY <2>1, <3>2 DEF PendingDoomed
    <3> QED
      BY <1>1, <2>1, <3>1, <3>2, <3>3 DEF ChannelsInOrder
  <2>3. CASE i \notin pending
    <3>1. UNCHANGED <<pending, loop, loopId>>
      BY <1>8, <2>3 DEF ReadResponse
    <3> QED
      BY <1>2, <2>1, <3>1 DEF PendingDoomed
  <2> QED
    BY <2>2, <2>3
\* The channel that the read loop writes to is open.
<1>9. CASE DeliverResponse
  <2>1. loopId \in Ids /\ chanCloses[loopId] = 0 /\ loopId \notin pending
        /\ (PendingDoomed => loopId \notin victims.ids)
    BY <1>1, <1>9 DEF ChannelsInOrder, DeliverResponse
  <2>2. /\ holds' = holds \cup {loopId} /\ chanCloses' = [chanCloses EXCEPT ![loopId] = @ + 1]
        /\ loop' = "read"
        /\ UNCHANGED <<closed, closing, victims, nextID, pending, pc, myId>>
    BY <1>9, <2>1 DEF DeliverResponse, connVars, closeVars, callVars
  <2>3. \A i \in Ids : i # loopId => chanCloses'[i] = chanCloses[i]
    BY <1>1, <2>2 DEF TypeOK
  <2>4. loopId <= nextID
    BY <1>1 DEF TypeOK
  <2>5. \A c \in Callers : myId[c] \in Ids \/ myId[c] = 0
    BY <1>1 DEF TypeOK
  <2>6. \A i \in Ids : i > nextID => i # loopId
    BY <1>1, <2>4 DEF TypeOK, Ids
  <2>7. pending \subseteq Ids /\ victims.ids \subseteq Ids
    BY <1>1 DEF TypeOK
  <2> QED
    BY <1>1, <2>1, <2>2, <2>3, <2>5, <2>6, <2>7 DEF ChannelsInOrder, PendingDoomed, IdsAreOwned
<1>10. ASSUME NEW who \in {"user", "loop"}, NEW why, markClosed(who, why),
              UNCHANGED <<nextID, chanCloses, holds, loopId, callVars>>,
              loop' = "deliver" => loop = "deliver"
       PROVE  ChannelsInOrder'
  <2>1. victims'.ids = pending /\ pending' = {} /\ closed'
    BY <1>10 DEF markClosed
  <2>2. \A i \in pending : i <= nextID
    BY <1>1, Numbers
  <2> QED
    BY <1>1, <1>10, <2>1, <2>2 DEF ChannelsInOrder, callVars
<1>11. CASE ClosePending
  <2>1. /\ closed /\ PendingDoomed /\ ~PendingDoomed'
        /\ UNCHANGED <<closed, nextID, pending, holds, loop, loopId, victims, pc, myId>>
        /\ chanCloses' = [i \in Ids |-> chanCloses[i] + (IF i \in victims.ids THEN 1 ELSE 0)]
    BY <1>1, <1>11 DEF ClosePending, ClosedForGood, PendingDoomed, Records, connVars, loopVars,
       callVars
  <2>2. \A i \in Ids \ victims.ids : chanCloses'[i] = chanCloses[i]
    BY <1>1, <2>1 DEF TypeOK
  <2>3. pending = {} /\ \A i \in victims.ids : i <= nextID
    BY <1>1, <2>1 DEF ClosedForGood, ChannelsInOrder
  <2>4. \A i \in Ids : i > nextID => i \notin victims.ids
    BY <1>1, <2>3 DEF Ids
  <2> QED
    BY <1>1, <2>1, <2>2, <2>3, <2>4 DEF ChannelsInOrder
<1>12. CASE CloseWs \/ closeSubscribers
  <2>1. PendingDoomed' => PendingDoomed
    BY <1>1, <1>12 DEF CloseWs, closeSubscribers, PendingDoomed, Records
  <2> QED
    BY <1>2, <1>12, <2>1 DEF CloseWs, closeSubscribers, connVars, chanVars, loopVars, callVars
<1>13. CASE LoopFails
  <2>1. CASE closed
    BY <1>2, <1>13, <2>1 DEF LoopFails, connVars, closeVars, callVars, PendingDoomed
  <2>2. CASE ~closed
    BY <1>10, <1>13, <2>2 DEF LoopFails
  <2> QED
    BY <2>1, <2>2
<1>14. CASE Close
  BY <1>10, <1>14 DEF Close, loopVars
<1>15. ASSUME UNCHANGED <<connVars, chanVars, closeVars, callVars>>,
              loop' # "deliver" \/ UNCHANGED loopVars
       PROVE  ChannelsInOrder'
  BY <1>2, <1>15 DEF connVars, chanVars, loopVars, closeVars, callVars, PendingDoomed
<1>16. ASSUME NEW s \in Subs, SendEvent(s) PROVE ChannelsInOrder'
  BY <1>15, <1>16 DEF SendEvent
<1> QED
  BY <1>3, <1>5, <1>6, <1>7, <1>8, <1>9, <1>11, <1>12, <1>13, <1>14, <1>15, <1>16
     DEF Next, SendStep, LoopStep, CloserStep, vars, ReadEvent, LoopExits, SubscribeMethods,
     CancelSub, TransportFails

\* Channels of subscribers.
LEMMA SubsStep ==
  ASSUME IInv, [Next]_vars
  PROVE  SubsInOrder'
<1>1. TypeOK /\ Records /\ SubsInOrder /\ ClosedForGood
  BY DEF IInv
<1>2. ASSUME UNCHANGED <<subVars, victims>>, closed => closed', SubsDoomed' => SubsDoomed
      PROVE  SubsInOrder'
  BY <1>1, <1>2 DEF SubsInOrder, subVars
<1>3. ASSUME NEW who, NEW why, markClosed(who, why), UNCHANGED <<subState, subCloses>>
      PROVE  SubsInOrder'
  <2>1. victims'.subs = UNION {subs[m] : m \in Methods} /\ closed'
        /\ \A m \in Methods : subs'[m] = {}
    BY <1>3 DEF markClosed
  <2>2. \A s \in victims'.subs : subState[s] # "new" /\ subCloses[s] = 0
    BY <1>1, <2>1 DEF SubsInOrder
  <2> QED
    BY <1>1, <1>3, <2>1, <2>2 DEF SubsInOrder
<1>4. CASE closeSubscribers
  <2>1. /\ closed /\ SubsDoomed /\ ~SubsDoomed' /\ UNCHANGED <<closed, subs, subState>>
        /\ subCloses' = [s \in Subs |-> subCloses[s] + (IF s \in victims.subs THEN 1 ELSE 0)]
    BY <1>1, <1>4 DEF closeSubscribers, ClosedForGood, SubsDoomed, Records, connVars
  <2>2. \A s \in Subs \ victims.subs : subCloses'[s] = subCloses[s]
    BY <1>1, <2>1 DEF TypeOK
  <2>3. \A s \in victims.subs : subState[s] # "new"
    BY <1>1, <2>1 DEF SubsInOrder
  <2>4. \A m \in Methods : subs[m] = {}
    BY <1>1, <2>1 DEF ClosedForGood
  <2> QED
    BY <1>1, <2>1, <2>2, <2>3, <2>4 DEF SubsInOrder
<1>5. CASE CloseWs \/ ClosePending
  <2>1. SubsDoomed' => SubsDoomed
    BY <1>1, <1>5 DEF CloseWs, ClosePending, SubsDoomed, Records
  <2> QED
    BY <1>2, <1>5, <2>1 DEF CloseWs, ClosePending, connVars
<1>6. ASSUME NEW s \in Subs, SubscribeMethods(s) PROVE SubsInOrder'
  <2>1. /\ subState[s] = "new" /\ subCloses[s] = 0
        /\ subState' = [subState EXCEPT ![s] = "subscribed"]
        /\ UNCHANGED <<closed, closing, victims>>
        /\ SubsDoomed' = SubsDoomed
    BY <1>1, <1>6 DEF SubscribeMethods, SubsInOrder, connVars, closeVars, SubsDoomed
  <2>2. CASE closed
    <3>1. subCloses' = [subCloses EXCEPT ![s] = @ + 1] /\ UNCHANGED subs
      BY <1>6, <2>2 DEF SubscribeMethods
    <3>2. \A m \in Methods : subs[m] = {}
      BY <1>1, <2>2 DEF ClosedForGood
    <3>3. SubsDoomed => s \notin victims.subs
      BY <1>1, <2>1 DEF SubsInOrder
    <3>4. \A u \in Subs \ {s} : subCloses'[u] = subCloses[u] /\ subState'[u] = subState[u]
      BY <1>1, <2>1, <3>1 DEF TypeOK
    <3>5. subState'[s] = "subscribed" /\ victims.subs \subseteq Subs
      BY <1>1, <2>1 DEF TypeOK
    <3> QED
      BY <1>1, <2>1, <2>2, <3>1, <3>2, <3>3, <3>4, <3>5 DEF SubsInOrder
  <2>3. CASE ~closed
    <3>1. /\ UNCHANGED subCloses
          /\ \A m \in Methods : subs'[m] \subseteq subs[m] \cup {s}
      BY <1>6, <2>3 DEF SubscribeMethods
    <3>2. ~SubsDoomed
      BY <1>1, <2>3 DEF ClosedForGood, SubsDoomed
    <3>3. \A u \in Subs \ {s} : subState'[u] = subState[u]
      BY <1>1, <2>1 DEF TypeOK
    <3>4. subState'[s] = "subscribed" /\ \A m \in Methods : subs[m] \subseteq Subs
      BY <1>1, <2>1 DEF TypeOK
    <3> QED
      BY <1>1, <2>1, <3>1, <3>2, <3>3, <3>4 DEF SubsInOrder
  <2> QED
    BY <2>2, <2>3
<1>7. ASSUME NEW s \in Subs, CancelSub(s) PROVE SubsInOrder'
  <2>1. /\ subState[s] = "subscribed" /\ subState' = [subState EXCEPT ![s] = "canceled"]
        /\ UNCHANGED <<closed, closing, victims>>
        /\ SubsDoomed' = SubsDoomed
    BY <1>7 DEF CancelSub, connVars, closeVars, SubsDoomed
  <2>2. /\ \A u \in Subs \ {s} : subState'[u] = subState[u]
        /\ subState'[s] = "canceled" /\ victims.subs \subseteq Subs
        /\ \A m \in Methods : subs[m] \subseteq Subs
    BY <1>1, <2>1 DEF TypeOK
  <2>3. CASE closed \/ \A m \in Methods : s \notin subs[m]
    <3>1. UNCHANGED <<subs, subCloses>> /\ \A m \in Methods : s \notin subs[m]
      BY <1>1, <1>7, <2>3 DEF CancelSub, ClosedForGood
    <3> QED
      BY <1>1, <2>1, <2>2, <3>1 DEF SubsInOrder
  <2>4. CASE ~closed /\ \E m \in Methods : s \in subs[m]
    <3>1. /\ \A m \in Methods : subs'[m] = subs[m] \ {s}
          /\ subCloses' = [subCloses EXCEPT ![s] = @ + 1] /\ ~SubsDoomed
      BY <1>1, <1>7, <2>4 DEF CancelSub, ClosedForGood, SubsDoomed
    <3>2. \A u \in Subs \ {s} : subCloses'[u] = subCloses[u]
      BY <1>1, <3>1 DEF TypeOK
    <3> QED
      BY <1>1, <2>1, <2>2, <3>1, <3>2 DEF SubsInOrder
  <2> QED
    BY <2>3, <2>4
<1>8. CASE LoopFails
  <2>1. CASE closed
    BY <1>2, <1>8, <2>1 DEF LoopFails, connVars, closeVars, subVars, SubsDoomed
  <2>2. CASE ~closed
    BY <1>3, <1>8, <2>2 DEF LoopFails
  <2> QED
    BY <2>1, <2>2
<1>9. CASE Close
  BY <1>3, <1>9 DEF Close
<1>10. ASSUME UNCHANGED <<connVars, subVars, closeVars>> PROVE SubsInOrder'
  BY <1>2, <1>10 DEF connVars, closeVars, SubsDoomed
<1> QED
  BY <1>4, <1>5, <1>6, <1>7, <1>8, <1>9, <1>10 DEF Next, SendStep, LoopStep, CloserStep, vars,
     registerPending, SendRefused, WriteOk, WriteFailed, AwaitFrame, AwaitClosed,
     AwaitCanceled, Cleanup, ReadResponse, DeliverResponse, ReadEvent, SendEvent, LoopExits,
     TransportFails

\* What is closed stays closed, and why the loop panicked.
LEMMA ClosedStep ==
  ASSUME IInv, [Next]_vars
  PROVE  ClosedForGood' /\ PanicNeedsCancelOrClose'
<1>1. TypeOK /\ Records /\ ChannelsInOrder /\ SubsInOrder
      /\ ClosedForGood /\ PanicNeedsCancelOrClose
  BY DEF IInv
<1>2. ASSUME UNCHANGED connVars, closed => pending' = {} /\ \A m \in Methods : subs'[m] = {},
             closing'.stage # "none" => closing.stage # "none",
             \A s \in Subs : subState[s] = "canceled" => subState'[s] = "canceled",
             loop \in {"closing", "exited"} => loop' \in {"closing", "exited"},
             loop' = "panic" => \/ loop = "panic" \/ cause = "close"
                                \/ \E s \in Subs : subState[s] = "canceled"
      PROVE  ClosedForGood' /\ PanicNeedsCancelOrClose'
  BY <1>1, <1>2 DEF ClosedForGood, PanicNeedsCancelOrClose, connVars
<1>3. ASSUME UNCHANGED <<connVars, subVars, closeVars>>, pending' \subseteq pending,
             loop \in {"closing", "exited"} => loop' \in {"closing", "exited"},
             loop' = "panic" => \/ loop = "panic" \/ cause = "close"
                                \/ \E s \in Subs : subState[s] = "canceled"
      PROVE  ClosedForGood' /\ PanicNeedsCancelOrClose'
  BY <1>1, <1>2, <1>3 DEF ClosedForGood, subVars, closeVars
<1>4. ASSUME NEW c \in Callers, registerPending(c) PROVE ClosedForGood' /\ PanicNeedsCancelOrClose'
  BY <1>1, <1>2, <1>4 DEF registerPending, subVars, closeVars, loopVars
<1>5. ASSUME NEW c \in Callers, SendStep(c), ~registerPending(c)
      PROVE  ClosedForGood' /\ PanicNeedsCancelOrClose'
  BY <1>3, <1>5 DEF SendStep, SendRefused, WriteOk, WriteFailed, AwaitFrame, AwaitClosed,
     AwaitCanceled, Cleanup, chanVars, loopVars
<1>6. ASSUME NEW why, markClosed("user", why) \/ markClosed("loop", why), UNCHANGED subState,
             loop' = "closing" \/ (why = "close" /\ UNCHANGED loop),
             why = "panic" => loop = "panic"
      PROVE  ClosedForGood' /\ PanicNeedsCancelOrClose'
  <2>1. closed' /\ pending' = {} /\ \A m \in Methods : subs'[m] = {}
    BY <1>6 DEF markClosed
  <2>2. cause' = why /\ ~closed
    BY <1>6 DEF markClosed
  <2>3. loop = "panic" => \E s \in Subs : subState[s] = "canceled"
    BY <1>1, <2>2 DEF PanicNeedsCancelOrClose, ClosedForGood
  <2> QED
    BY <1>1, <1>6, <2>1, <2>2, <2>3 DEF ClosedForGood, PanicNeedsCancelOrClose
<1>7. CASE Close
  BY <1>6, <1>7 DEF Close, loopVars
<1>8. CASE LoopFails
  <2>1. CASE closed
    BY <1>3, <1>8, <2>1 DEF LoopFails, connVars, subVars, closeVars
  <2>2. CASE ~closed
    BY <1>6, <1>8, <2>2 DEF LoopFails
  <2> QED
    BY <2>1, <2>2
<1>9. CASE CloserStep
  <2>1. UNCHANGED <<connVars, pending, subs, subState, loop>>
    BY <1>9 DEF CloserStep, CloseWs, ClosePending, closeSubscribers, chanVars, subVars, loopVars
  <2>2. closing.stage # "none"
    BY <1>9 DEF CloserStep, CloseWs, ClosePending, closeSubscribers
  <2> QED
    BY <1>1, <1>2, <2>1, <2>2 DEF ClosedForGood
\* No channel of a Send is closed before the read loop writes to it.
<1>10. CASE DeliverResponse
  BY <1>1, <1>3, <1>10 DEF DeliverResponse, ChannelsInOrder
<1>11. ASSUME NEW s \in Subs, SendEvent(s) PROVE ClosedForGood' /\ PanicNeedsCancelOrClose'
  <2>1. UNCHANGED <<connVars, subVars, closeVars, pending>>
    BY <1>11 DEF SendEvent, chanVars
  <2>2. loop' = "panic" => subCloses[s] > 0
    BY <1>11 DEF SendEvent
  <2>3. subCloses[s] > 0 => closed \/ \E u \in Subs : subState[u] = "canceled"
    BY <1>1 DEF SubsInOrder
  <2>4. loop = "event"
    BY <1>11 DEF SendEvent
  <2>5. closed => cause = "close"
    BY <1>1, <2>4 DEF ClosedForGood
  <2> QED
    BY <1>3, <2>1, <2>2, <2>3, <2>4, <2>5
<1>12. ASSUME NEW i \in wire, ReadResponse(i) PROVE ClosedForGood' /\ PanicNeedsCancelOrClose'
  BY <1>3, <1>12 DEF ReadResponse
<1>13. ASSUME NEW s \in Subs, SubscribeMethods(s) \/ CancelSub(s)
       PROVE  ClosedForGood' /\ PanicNeedsCancelOrClose'
  <2>1. UNCHANGED <<connVars, pending, closing, loop>>
    BY <1>13 DEF SubscribeMethods, CancelSub, chanVars, loopVars, closeVars
  <2>2. closed => UNCHANGED subs
    BY <1>13 DEF SubscribeMethods, CancelSub
  <2>3. \A u \in Subs : subState[u] = "canceled" => subState'[u] = "canceled"
    BY <1>1, <1>13 DEF TypeOK, SubscribeMethods, CancelSub
  <2> QED
    BY <1>1, <1>2, <2>1, <2>2, <2>3 DEF ClosedForGood
<1>14. ASSUME NEW m \in Methods, ReadEvent(m) PROVE ClosedForGood' /\ PanicNeedsCancelOrClose'
  BY <1>3, <1>14 DEF ReadEvent, chanVars
<1>15. CASE LoopExits
  BY <1>3, <1>15 DEF LoopExits, chanVars
<1>16. CASE TransportFails \/ UNCHANGED vars
  BY <1>3, <1>16 DEF TransportFails, chanVars, loopVars, vars
<1> QED
  BY <1>4, <1>5, <1>7, <1>8, <1>9, <1>10, <1>11, <1>12, <1>13, <1>14, <1>15, <1>16
     DEF Next, LoopStep

\* The types of what a Send uses.
LEMMA SendTypesStep ==
  ASSUME IInv, [Next]_vars
  PROVE  /\ nextID' \in 0 .. MaxIds
         /\ pending' \subseteq 1 .. nextID' /\ holds' \subseteq 1 .. nextID'
         /\ wire' \subseteq 1 .. nextID' /\ loopId' \in 0 .. nextID'
         /\ myId' \in [Callers -> 0 .. nextID']
         /\ pc' \in [Callers -> {"idle", "write", "wait", "writeFailed", "canceled"}]
         /\ result' \in [Callers -> {"none", "ok", "closed", "canceled", "writeFailed"}]
<1> DEFINE Goal == /\ nextID' \in 0 .. MaxIds
         /\ pending' \subseteq 1 .. nextID' /\ holds' \subseteq 1 .. nextID'
         /\ wire' \subseteq 1 .. nextID' /\ loopId' \in 0 .. nextID'
         /\ myId' \in [Callers -> 0 .. nextID']
         /\ pc' \in [Callers -> {"idle", "write", "wait", "writeFailed", "canceled"}]
         /\ result' \in [Callers -> {"none", "ok", "closed", "canceled", "writeFailed"}]
<1>1. TypeOK /\ IdsAreOwned /\ nextID \in Nat
  BY Numbers DEF IInv
<1>2. ASSUME UNCHANGED <<nextID, callVars>>, pending' \subseteq pending, wire' \subseteq wire,
             holds' \subseteq holds \cup {loopId}, loop = "deliver" \/ UNCHANGED holds,
             loopId' \in {loopId, 0} \cup pending
      PROVE  Goal
  <2>1. loop = "deliver" => loopId \in 1 .. nextID
    BY <1>1 DEF IInv, TypeOK, ChannelsInOrder, Ids
  <2>2. holds' \subseteq 1 .. nextID
    BY <1>1, <1>2, <2>1 DEF TypeOK
  <2>3. loopId' \in 0 .. nextID
    BY <1>1, <1>2 DEF TypeOK
  <2>4. pending' \subseteq 1 .. nextID /\ wire' \subseteq 1 .. nextID
    BY <1>1, <1>2 DEF TypeOK
  <2> QED
    BY <1>1, <1>2, <2>2, <2>3, <2>4 DEF TypeOK, callVars
<1>3. ASSUME NEW c \in Callers, registerPending(c) PROVE Goal
  <2>1. nextID' = nextID + 1 /\ nextID < MaxIds /\ pending' = pending \cup {nextID'}
        /\ pc' = [pc EXCEPT ![c] = "write"] /\ myId' = [myId EXCEPT ![c] = nextID']
        /\ UNCHANGED <<holds, wire, loopId, result>>
    BY <1>3 DEF registerPending, loopVars
  <2>2. 1 .. nextID \subseteq 1 .. nextID' /\ 0 .. nextID \subseteq 0 .. nextID'
        /\ nextID' \in 1 .. nextID' /\ nextID' \in 0 .. nextID' /\ nextID' \in 0 .. MaxIds
    BY <1>1, <2>1, IdsAssumption
  <2> QED
    BY <1>1, <2>1, <2>2 DEF TypeOK
<1>4. ASSUME NEW c \in Callers, NEW o \in {"ok", "closed", "canceled", "writeFailed"},
             Return(c, o), UNCHANGED <<nextID, wire, loopId>>, pending' \subseteq pending,
             holds' \subseteq holds
      PROVE  Goal
  BY <1>1, <1>4 DEF TypeOK, Return
<1>5. ASSUME NEW c \in Callers, SendRefused(c) \/ AwaitFrame(c) \/ AwaitClosed(c) \/ Cleanup(c)
      PROVE  Goal
  BY <1>4, <1>5 DEF SendRefused, AwaitFrame, AwaitClosed, Cleanup, chanVars, loopVars
<1>6. ASSUME NEW c \in Callers, WriteOk(c) \/ WriteFailed(c) \/ AwaitCanceled(c) PROVE Goal
  <2>1. WriteOk(c) => myId[c] \in 1 .. nextID
    BY <1>1 DEF TypeOK, IdsAreOwned, WriteOk
  <2> QED
    BY <1>1, <1>6, <2>1 DEF TypeOK, WriteOk, WriteFailed, AwaitCanceled, Goto, chanVars, loopVars
<1>7. CASE CloserStep
  BY <1>2, <1>7 DEF CloserStep, CloseWs, ClosePending, closeSubscribers, chanVars, loopVars
<1>8. CASE Close \/ LoopFails
  BY <1>2, <1>8 DEF Close, LoopFails, markClosed, loopVars
<1>9. ASSUME NEW i \in wire, ReadResponse(i) PROVE Goal
  BY <1>2, <1>9 DEF ReadResponse
<1>10. CASE DeliverResponse
  BY <1>2, <1>10 DEF DeliverResponse
<1>11. ASSUME UNCHANGED <<chanVars, wire, loopId, callVars>> PROVE Goal
  BY <1>2, <1>11 DEF chanVars
<1> QED
  BY <1>3, <1>5, <1>6, <1>7, <1>8, <1>9, <1>10, <1>11 DEF Next, SendStep, LoopStep, ReadEvent,
     SendEvent, LoopExits, SubscribeMethods, CancelSub, TransportFails, loopVars, vars

\* The rest of the types; no channel is closed twice.
LEMMA TypeStep ==
  ASSUME IInv, [Next]_vars, Records'
  PROVE  TypeOK'
<1>1. TypeOK /\ Records /\ ChannelsInOrder /\ SubsInOrder /\ ClosedForGood
  BY DEF IInv
<1>2. closing'.by \in {"none", "user", "loop"} /\ victims'.ids \subseteq Ids
      /\ closing'.stage \in {"none", "ws", "pending", "subs", "done"}
      /\ victims'.subs \subseteq Subs
  BY DEF Records
<1>3. closed' \in BOOLEAN /\ cause' \in {"none", "close", "read", "panic"}
  <2>1. LoopFails => UNCHANGED connVars \/ (closed' = TRUE /\ cause' \in {"read", "panic"})
    <3>1. CASE closed
      BY <3>1 DEF LoopFails
    <3>2. ASSUME ~closed, LoopFails PROVE closed' = TRUE /\ cause' \in {"read", "panic"}
      <4>1. markClosed("loop", loop) /\ loop \in {"read", "panic"}
        BY <3>2 DEF LoopFails
      <4> QED
        BY <4>1 DEF markClosed
    <3> QED
      BY <3>1, <3>2
  <2>2. UNCHANGED connVars \/ (closed' = TRUE /\ cause' \in {"close", "read", "panic"})
    BY <2>1 DEF Next, SendStep, CloserStep, LoopStep, registerPending, SendRefused, WriteOk,
       WriteFailed, AwaitFrame, AwaitClosed, AwaitCanceled, Cleanup, Close, CloseWs,
       ClosePending, closeSubscribers, ReadResponse, DeliverResponse, ReadEvent, SendEvent,
       LoopExits, SubscribeMethods, CancelSub, TransportFails, markClosed, vars
  <2> QED
    BY <1>1, <2>2 DEF TypeOK, connVars
<1>4. wsUp' \in BOOLEAN
  BY <1>1 DEF TypeOK, Next, SendStep, CloserStep, LoopStep, registerPending, SendRefused, WriteOk,
     WriteFailed, AwaitFrame, AwaitClosed, AwaitCanceled, Cleanup, Close, CloseWs,
     ClosePending, closeSubscribers, ReadResponse, DeliverResponse, ReadEvent, SendEvent,
     LoopFails, LoopExits, SubscribeMethods, CancelSub, TransportFails, vars
<1>5. chanCloses' \in [Ids -> 0 .. 1]
  <2>1. CASE DeliverResponse
    BY <1>1, <2>1 DEF TypeOK, ChannelsInOrder, DeliverResponse
  <2>2. CASE ClosePending
    <3>1. \A i \in victims.ids : chanCloses[i] = 0
      BY <1>1, <2>2 DEF ChannelsInOrder, ClosePending, PendingDoomed
    <3> QED
      BY <1>1, <2>2, <3>1 DEF TypeOK, ClosePending
  <2>3. CASE UNCHANGED chanCloses
    BY <1>1, <2>3 DEF TypeOK
  <2> QED
    BY <2>1, <2>2, <2>3 DEF Next, SendStep, CloserStep, LoopStep, registerPending, SendRefused,
       WriteOk, WriteFailed, AwaitFrame, AwaitClosed, AwaitCanceled, Cleanup, Close, CloseWs,
       closeSubscribers, ReadResponse, ReadEvent, SendEvent, LoopFails, LoopExits,
       SubscribeMethods, CancelSub, TransportFails, chanVars, vars
<1>6. /\ subs' \in [Methods -> SUBSET Subs]
      /\ subState' \in [Subs -> {"new", "subscribed", "canceled"}]
      /\ subCloses' \in [Subs -> 0 .. 1]
  <2>1. CASE closeSubscribers
    <3>1. \A s \in victims.subs : subCloses[s] = 0
      BY <1>1, <2>1 DEF SubsInOrder, closeSubscribers, SubsDoomed
    <3> QED
      BY <1>1, <2>1, <3>1 DEF TypeOK, closeSubscribers
  <2>2. ASSUME NEW s \in Subs, SubscribeMethods(s)
        PROVE  /\ subs' \in [Methods -> SUBSET Subs]
               /\ subState' \in [Subs -> {"new", "subscribed", "canceled"}]
               /\ subCloses' \in [Subs -> 0 .. 1]
    BY <1>1, <2>2 DEF TypeOK, SubsInOrder, SubscribeMethods
  <2>3. ASSUME NEW s \in Subs, CancelSub(s)
        PROVE  /\ subs' \in [Methods -> SUBSET Subs]
               /\ subState' \in [Subs -> {"new", "subscribed", "canceled"}]
               /\ subCloses' \in [Subs -> 0 .. 1]
    <3>1. (\E m \in Methods : s \in subs[m]) => subCloses[s] = 0
      BY <1>1 DEF SubsInOrder
    <3> QED
      BY <1>1, <2>3, <3>1 DEF TypeOK, CancelSub
  <2>4. CASE UNCHANGED subVars
    BY <1>1, <2>4 DEF TypeOK, subVars
  <2>5. CASE subs' = [n \in Methods |-> {}] /\ UNCHANGED <<subState, subCloses>>
    BY <1>1, <2>5 DEF TypeOK
  <2> QED
    BY <2>1, <2>2, <2>3, <2>4, <2>5 DEF Next, SendStep, CloserStep, LoopStep, registerPending,
       SendRefused, WriteOk, WriteFailed, AwaitFrame, AwaitClosed, AwaitCanceled, Cleanup,
       Close, CloseWs, ClosePending, ReadResponse, DeliverResponse, ReadEvent, SendEvent,
       LoopFails, LoopExits, TransportFails, markClosed, subVars, vars
<1>7. /\ loop' \in {"read", "deliver", "event", "panic", "closing", "exited"}
      /\ loopSubs' \subseteq Subs
  <2>1. ASSUME NEW m \in Methods, ReadEvent(m)
        PROVE  loop' = "event" /\ loopSubs' \subseteq Subs
    BY <1>1, <2>1 DEF TypeOK, ReadEvent
  <2>2. ASSUME NEW s \in Subs, SendEvent(s)
        PROVE  loop' \in {"panic", "read", "event"} /\ loopSubs' \subseteq loopSubs
    BY <2>2 DEF SendEvent
  <2>3. CASE loop' \in {loop, "read", "deliver", "panic", "closing", "exited"} /\ UNCHANGED loopSubs
    BY <1>1, <2>3 DEF TypeOK
  <2> QED
    BY <1>1, <2>1, <2>2, <2>3 DEF TypeOK, Next, SendStep, CloserStep, LoopStep, registerPending,
       SendRefused, WriteOk, WriteFailed, AwaitFrame, AwaitClosed, AwaitCanceled, Cleanup,
       Close, CloseWs, ClosePending, closeSubscribers, ReadResponse, DeliverResponse,
       LoopFails, LoopExits, SubscribeMethods, CancelSub, TransportFails, loopVars, vars
<1> QED
  BY <1>2, <1>3, <1>4, <1>5, <1>6, <1>7, SendTypesStep DEF TypeOK
-----------------------------------------------------------------------------
(* Theorems.                                                               *)

\* The invariant holds initially.
LEMMA Initial == Init => IInv
<1>1. Init => TypeOK
  <2>1. Init => /\ closed \in BOOLEAN /\ wsUp \in BOOLEAN
                /\ cause \in {"none", "close", "read", "panic"}
    BY DEF Init
  <2>2. Init => nextID \in 0 .. MaxIds /\ loopId \in 0 .. nextID
    BY IdsAssumption DEF Init
  <2>3. Init => /\ pending \subseteq 1 .. nextID
                /\ holds \subseteq 1 .. nextID
                /\ wire \subseteq 1 .. nextID
    BY DEF Init
  <2>4. Init => /\ chanCloses \in [Ids -> 0 .. 1] /\ subs \in [Methods -> SUBSET Subs]
                /\ subState \in [Subs -> {"new", "subscribed", "canceled"}]
                /\ subCloses \in [Subs -> 0 .. 1]
    BY DEF Init
  <2>5. Init => /\ loop = "read" /\ loopSubs \subseteq Subs /\ closing = NoOne
                /\ victims.ids \subseteq Ids /\ victims.subs \subseteq Subs
    BY DEF Init
  <2>6. Init => /\ pc \in [Callers -> {"idle", "write", "wait", "writeFailed", "canceled"}]
                /\ myId \in [Callers -> 0 .. nextID]
                /\ result \in [Callers -> {"none", "ok", "closed", "canceled", "writeFailed"}]
    BY DEF Init
  <2> QED
    BY <2>1, <2>2, <2>3, <2>4, <2>5, <2>6 DEF TypeOK, NoOne
<1>2. Init => IdsAreOwned /\ ChannelsInOrder /\ SubsInOrder
  BY DEF Init, IdsAreOwned, ChannelsInOrder, SubsInOrder, NoOne, PendingDoomed, SubsDoomed
<1>3. Init => Records /\ ClosedForGood /\ PanicNeedsCancelOrClose
  BY DEF Init, Records, ClosedForGood, PanicNeedsCancelOrClose, NoOne
<1> QED
  BY <1>1, <1>2, <1>3 DEF IInv

\* The invariant holds for ever.
LEMMA Invariance == Spec => []IInv
<1>1. IInv /\ [Next]_vars => IInv'
  BY RecordsStep, TypeStep, IdsStep, ChannelsStep, SubsStep, ClosedStep DEF IInv
<1> QED
  BY <1>1, Initial, PTL DEF Spec

\* Every reachable state is well typed: no channel, of a Send or of a
\* subscriber, is closed twice (connection.go:125-138).
THEOREM TypeCorrect == Spec => []TypeOK
<1>1. IInv => TypeOK
  BY DEF IInv
<1> QED
  BY <1>1, Invariance, PTL

\* The read loop hands a response over without blocking and without meeting a
\* closed channel, and no pending entry outlives its Send
\* (connection.go:175-186, 312-323).
THEOREM HandOver == Spec => []HandOverIsSafe
<1>1. IInv => HandOverIsSafe
  BY DEF IInv, ChannelsInOrder, IdsAreOwned, HandOverIsSafe
<1> QED
  BY <1>1, Invariance, PTL

\* The read loop panics only by a cancellation or a Close that overtakes its
\* fan-out, and only the former closes a connection that nobody closed
\* (connection.go:134, 140-153, 190-201).
THEOREM PanicNeedsCancel == Spec => []PanicNeedsCancelOrClose
<1>1. IInv => PanicNeedsCancelOrClose
  BY DEF IInv
<1> QED
  BY <1>1, Invariance, PTL
-----------------------------------------------------------------------------
(* The module implements CommandSpec.                                      *)

\* What CommandSpec sees of a caller, as the instance substitutes it.
Status(c) ==
  IF pc[c] = "idle" THEN "idle" ELSE IF matched(c) THEN "matched" ELSE "pending"

\* A step that CommandSpec does not see.
LEMMA Unseen ==
  ASSUME UNCHANGED <<closed, result>>, \A c \in Callers : Status(c)' = Status(c)
  PROVE  UNCHANGED Spec1!specVars
BY DEF Spec1!specVars, Status

\* A step that it sees of one caller.
LEMMA SeenOfOne ==
  ASSUME NEW c \in Callers, NEW v, Status(c)' = v,
         \A d \in Callers \ {c} : Status(d)' = Status(d)
  PROVE  [d \in Callers |-> Status(d)]' = [[d \in Callers |-> Status(d)] EXCEPT ![c] = v]
OBVIOUS

\* What a returning Send leaves to be shown.
LEMMA Returning ==
  ASSUME TypeOK, IdsAreOwned, NEW c \in Callers, NEW o, Return(c, o),
         holds' = holds \ {myId[c]} \/ holds' = holds, UNCHANGED <<loop, loopId, closed>>
  PROVE  Spec1!End(c, o)
<1>1. /\ pc'[c] = "idle" /\ \A d \in Callers \ {c} : pc'[d] = pc[d] /\ myId'[d] = myId[d]
  BY DEF TypeOK, Return
<1>2. \A d \in Callers \ {c} : pc[d] # "idle" => myId[d] # myId[c]
  BY DEF IdsAreOwned
<1>3. \A d \in Callers \ {c} : Status(d)' = Status(d)
  BY <1>1, <1>2 DEF Status, matched
<1>4. Status(c)' = "idle"
  BY <1>1 DEF Status
<1>5. result' = [result EXCEPT ![c] = o]
  BY DEF Return
<1> QED
  BY <1>3, <1>4, <1>5, SeenOfOne DEF Spec1!End, Status

\* A step of a Send is the step of CommandSpec it is meant to be, or none.
LEMMA SendRefines ==
  ASSUME IInv, NEW c \in Callers, SendStep(c)
  PROVE  [Spec1!SpecNext]_(Spec1!specVars)
<1>1. /\ TypeOK /\ IdsAreOwned /\ ChannelsInOrder /\ nextID \in Nat
  BY Numbers DEF IInv
<1>2. CASE registerPending(c)
  <2>1. /\ pc[c] = "idle" /\ ~closed /\ pc'[c] = "write" /\ myId'[c] = nextID + 1
        /\ \A d \in Callers \ {c} : pc'[d] = pc[d] /\ myId'[d] = myId[d]
        /\ UNCHANGED <<closed, result, holds, loop, loopId>>
    BY <1>1, <1>2 DEF TypeOK, registerPending, connVars, loopVars
  <2>2. nextID + 1 \notin holds /\ loopId # nextID + 1
    BY <1>1 DEF TypeOK
  <2>3. Status(c) = "idle" /\ Status(c)' = "pending"
    BY <2>1, <2>2 DEF Status, matched
  <2>4. \A d \in Callers \ {c} : Status(d)' = Status(d)
    BY <2>1 DEF Status, matched
  <2>5. [d \in Callers |-> Status(d)]' = [[d \in Callers |-> Status(d)] EXCEPT ![c] = "pending"]
    BY <2>3, <2>4, SeenOfOne
  <2>6. Spec1!Issue(c)
    BY <2>1, <2>3, <2>5 DEF Spec1!Issue, Status
  <2> QED
    BY <2>6 DEF Spec1!SpecNext
<1>3. CASE SendRefused(c)
  <2>1. Spec1!End(c, "closed") /\ pc[c] = "idle" /\ closed
    BY <1>1, <1>3, Returning DEF SendRefused, chanVars, connVars, loopVars
  <2>2. Spec1!Refuse(c)
    BY <2>1 DEF Spec1!Refuse
  <2> QED
    BY <2>2 DEF Spec1!SpecNext
<1>4. CASE WriteOk(c) \/ WriteFailed(c) \/ AwaitCanceled(c)
  <2>1. /\ \A d \in Callers : pc'[d] = "idle" <=> pc[d] = "idle"
        /\ UNCHANGED <<closed, result, myId, holds, loop, loopId>>
    BY <1>1, <1>4 DEF TypeOK, WriteOk, WriteFailed, AwaitCanceled, Goto, connVars, chanVars,
       loopVars
  <2> QED
    BY <2>1, Unseen DEF Status, matched
<1>5. CASE AwaitFrame(c)
  <2>1. Spec1!End(c, "ok") /\ pc[c] # "idle" /\ myId[c] \in holds
    BY <1>1, <1>5, Returning DEF AwaitFrame, connVars, loopVars
  <2>2. Spec1!Answer(c)
    BY <2>1 DEF Spec1!Answer, matched
  <2> QED
    BY <2>2 DEF Spec1!SpecNext
\* The channel is closed without a frame: only a closer has done that.
<1>6. CASE AwaitClosed(c)
  <2>1. Spec1!End(c, "closed") /\ pc[c] # "idle"
    BY <1>1, <1>6, Returning DEF AwaitClosed, chanVars, connVars, loopVars
  <2>2. myId[c] \notin holds /\ chanCloses[myId[c]] > 0
    BY <1>6 DEF AwaitClosed
  <2>3. closed /\ ~matched(c)
    BY <1>1, <2>1, <2>2 DEF ChannelsInOrder, matched
  <2>4. Spec1!FailClosed(c)
    BY <2>1, <2>3 DEF Spec1!FailClosed
  <2> QED
    BY <2>4 DEF Spec1!SpecNext
<1>7. CASE Cleanup(c)
  <2>1. \E o \in {"writeFailed", "canceled"} : pc[c] = o /\ Return(c, o)
    BY <1>7 DEF Cleanup
  <2>2. holds' = holds \ {myId[c]} /\ UNCHANGED <<loop, loopId, closed>>
    BY <1>7 DEF Cleanup, connVars, loopVars
  <2>3. PICK o \in {"writeFailed", "canceled"} : pc[c] = o /\ Return(c, o)
    BY <2>1
  <2>4. Spec1!End(c, o) /\ pc[c] # "idle"
    BY <1>1, <2>2, <2>3, Returning
  <2>5. Spec1!GiveUp(c)
    BY <2>4 DEF Spec1!GiveUp
  <2> QED
    BY <2>5 DEF Spec1!SpecNext
<1> QED
  BY <1>2, <1>3, <1>4, <1>5, <1>6, <1>7 DEF SendStep

\* So is a step of the read loop, of a closer, or of a subscriber.
LEMMA LoopRefines ==
  ASSUME IInv, [Next]_vars, ~(\E c \in Callers : SendStep(c))
  PROVE  [Spec1!SpecNext]_(Spec1!specVars)
<1>1. /\ TypeOK /\ IdsAreOwned /\ ChannelsInOrder
  BY DEF IInv
<1>2. ASSUME UNCHANGED <<callVars, holds, loopId>>, loop' = "deliver" <=> loop = "deliver"
      PROVE  \A c \in Callers : Status(c)' = Status(c)
  BY <1>2 DEF Status, matched, callVars
<1>3. ASSUME NEW i \in wire, ReadResponse(i), i \in pending
      PROVE  Spec1!SpecNext
  <2>1. /\ loop = "read" /\ loop' = "deliver" /\ loopId' = i
        /\ UNCHANGED <<closed, holds, pc, myId, result>>
    BY <1>3 DEF ReadResponse, connVars, callVars
  <2>2. PICK c \in Callers : myId[c] = i
    BY <1>1, <1>3 DEF IdsAreOwned
  <2>3. i # 0 /\ i \notin holds
    BY <1>1, <1>3 DEF TypeOK, ChannelsInOrder
  <2>4. pc[c] # "idle"
    BY <1>1, <2>2, <2>3 DEF IdsAreOwned
  <2>5. Status(c) = "pending" /\ Status(c)' = "matched"
    BY <2>1, <2>2, <2>3, <2>4 DEF Status, matched
  <2>6. \A d \in Callers \ {c} : pc[d] # "idle" => myId[d] # i
    BY <1>1, <2>2, <2>4 DEF IdsAreOwned
  <2>7. \A d \in Callers \ {c} : Status(d)' = Status(d)
    BY <2>1, <2>6 DEF Status, matched
  <2>8. [d \in Callers |-> Status(d)]' = [[d \in Callers |-> Status(d)] EXCEPT ![c] = "matched"]
    BY <2>5, <2>7, SeenOfOne
  <2>9. Spec1!Match(c)
    BY <2>1, <2>5, <2>8 DEF Spec1!Match, Status
  <2> QED
    BY <2>9 DEF Spec1!SpecNext
<1>4. ASSUME NEW i \in wire, ReadResponse(i), i \notin pending
      PROVE  UNCHANGED Spec1!specVars
  BY <1>2, <1>4, Unseen DEF ReadResponse, connVars, callVars
\* The frame passes from the read loop to the channel.
<1>5. CASE DeliverResponse
  <2>1. loopId \in Ids /\ chanCloses[loopId] = 0 /\ loop = "deliver"
    BY <1>1, <1>5 DEF ChannelsInOrder, DeliverResponse
  <2>2. /\ holds' = holds \cup {loopId} /\ loop' = "read"
        /\ UNCHANGED <<closed, result, pc, myId>>
    BY <1>5, <2>1 DEF DeliverResponse, connVars, callVars
  <2>3. \A c \in Callers : Status(c)' = Status(c)
    BY <2>1, <2>2 DEF Status, matched
  <2> QED
    BY <2>2, <2>3, Unseen
<1>6. ASSUME NEW who, NEW why, markClosed(who, why), \A c \in Callers : Status(c)' = Status(c),
             UNCHANGED result
      PROVE  Spec1!SpecNext
  <2>1. ~closed /\ closed'
    BY <1>6 DEF markClosed
  <2>2. Spec1!GoDown
    BY <1>6, <2>1 DEF Spec1!GoDown, Status
  <2> QED
    BY <2>2 DEF Spec1!SpecNext
<1>7. CASE Close
  BY <1>2, <1>6, <1>7 DEF Close, loopVars, callVars
<1>8. CASE LoopFails
  <2>1. (\A c \in Callers : Status(c)' = Status(c)) /\ UNCHANGED result
    BY <1>2, <1>8 DEF LoopFails, callVars
  <2>2. CASE closed
    BY <1>8, <2>1, <2>2, Unseen DEF LoopFails, connVars
  <2>3. CASE ~closed
    BY <1>6, <1>8, <2>1, <2>3 DEF LoopFails
  <2> QED
    BY <2>2, <2>3
<1>9. ASSUME UNCHANGED <<connVars, callVars, holds, loopId>>,
             loop' = "deliver" <=> loop = "deliver"
      PROVE  UNCHANGED Spec1!specVars
  BY <1>2, <1>9, Unseen DEF connVars, callVars
<1>10. ASSUME NEW s \in Subs, SendEvent(s) PROVE UNCHANGED Spec1!specVars
  BY <1>9, <1>10 DEF SendEvent, chanVars
<1> QED
  BY <1>3, <1>4, <1>5, <1>7, <1>8, <1>9, <1>10 DEF Next, CloserStep, LoopStep, CloseWs,
     ClosePending, closeSubscribers, ReadEvent, LoopExits, SubscribeMethods, CancelSub,
     TransportFails, chanVars, loopVars, vars

\* Every Send ends once, as CommandSpec promises: a command is issued when it is
\* registered, matched when the read loop takes its id out of c.pending, and
\* ends when Send returns (connection.go:155-186, 245-331).
THEOREM SendImplementsSpec == Spec => SendKeepsItsPromise
<1>1. Init => Spec1!SpecInit
  BY DEF Init, Spec1!SpecInit
<1>2. IInv /\ [Next]_vars => [Spec1!SpecNext]_(Spec1!specVars)
  BY SendRefines, LoopRefines
<1> QED
  BY <1>1, <1>2, Invariance, PTL DEF Spec, SendKeepsItsPromise, Spec1!CommandSpec
=============================================================================
