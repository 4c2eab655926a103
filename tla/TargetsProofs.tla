---------------------------- MODULE TargetsProofs ----------------------------
(***************************************************************************)
(* Proofs about Targets, for any calls, pages, sites and tools: a node is  *)
(* looked up on the page the call is attached to, a target id is honored,  *)
(* and a domain is enabled before it is used.                              *)
(***************************************************************************)
EXTENDS Targets, TLAPS

\* The domains a step needs, those it enables.  The element that tagName asks
\* about is filled next, so tagName needs what that takes.
Demands(step) ==
  IF step \in DOMAIN Needs THEN {Needs[step]}
  ELSE IF step = "tagName" THEN {"DOM"} ELSE {}

Grants(step) == IF step \in DOMAIN EnableStep THEN {EnableStep[step]} ELSE {}

Steps ==
  {"attach", "setDefault", "closeTarget", "clearDefault", "navigate", "evaluate",
   "enableDOM", "enableRuntime", "enablePage", "enableNetwork", "enableAX",
   "handleDialog", "getFullAXTree", "setSnapshot", "capture", "getResponseBody", "node",
   "getBoxModel", "mousePressed", "mouseReleased", "mouseMoved", "resolveNode", "tagName",
   "focus", "clear", "insertText", "selectSet", "keyDown", "keyUp", "return"}
Domains == {"DOM", "Runtime", "Page", "Network", "Accessibility"}
PageOrNone == Pages \cup {None}
SiteOrNone == Sites \cup {None}
UidOrNone == Uids \cup {None}

TypeOK ==
  /\ open \subseteq Pages /\ site \in [Pages -> SiteOrNone]
  /\ doc \in [Pages -> Nat] /\ docs \in Nat /\ calls \in Nat
  /\ sids \in Seq(Pages)
  /\ active \subseteq Nat \X Domains /\ enabled \subseteq Nat \X Domains
  /\ selection \subseteq [id : PageOrNone, url : SiteOrNone, page : Pages, sid : Nat]
  /\ default \subseteq [page : Pages, sid : Nat]
  /\ snapshot \subseteq [page : Pages, sid : Nat, doc : Nat]
  /\ todo \in [Threads -> Seq(Steps)]
  /\ sel \in [Threads -> [id : PageOrNone, url : SiteOrNone]]
  /\ uid \in [Threads -> UidOrNone]
  /\ att \in [Threads -> [page : PageOrNone, sid : Nat]]
  /\ node \in [Threads -> [page : PageOrNone, doc : Nat, uid : UidOrNone]]

\* A call attaches first or not at all, and returns last.
InOrder(q) ==
  /\ q # <<>> => q[Len(q)] = "return"
  /\ \A i \in 2..Len(q) : q[i] # "attach"

StepsInOrder == \A t \in Threads : InOrder(todo[t])

Attached(t) == Busy(t) /\ ~At(t, "attach")

\* A call that has attached has a page; one that has not has no node.
AttachFirst ==
  \A t \in Threads :
    IF Attached(t) THEN Page(t) # None ELSE node[t] = NoNode

\* A thread that runs no call holds no target.
IdleHasNoTarget == \A t \in Threads : ~Busy(t) => Page(t) = None

\* A domain that a step of a call needs is enabled already, or an earlier step
\* will enable it.
Ready(t) ==
  \A i \in 1..Len(todo[t]) : \A d \in Demands(todo[t][i]) :
    \/ Attached(t) /\ <<att[t].sid, d>> \in active
    \/ \E j \in 1..(i - 1) : d \in Grants(todo[t][j])

EveryoneReady == \A t \in Threads : Ready(t)

\* What the session has recorded as enabled is enabled in the browser.
EnabledIsActive == enabled \subseteq active

\* A selection by a target id is of that target.
SelectionById == \A c \in selection : c.id # None => c.page = c.id

IInv ==
  /\ TypeOK /\ StepsInOrder /\ AttachFirst /\ IdleHasNoTarget /\ EveryoneReady
  /\ EnabledIsActive /\ SelectionById
  /\ NodeIsOnAttachedPage /\ TargetIdIsHonored
-----------------------------------------------------------------------------
(* The scripts.                                                            *)

LEMMA DemandsOf ==
  /\ Demands("getBoxModel") = {"DOM"} /\ Demands("resolveNode") = {"DOM"}
  /\ Demands("focus") = {"DOM"} /\ Demands("tagName") = {"DOM"}
  /\ Demands("handleDialog") = {"Page"} /\ Demands("capture") = {"Page"}
  /\ Demands("getFullAXTree") = {"Accessibility"}
  /\ Demands("getResponseBody") = {"Network"}
  /\ \A step : step \notin {"getBoxModel", "resolveNode", "focus", "tagName", "handleDialog",
                            "capture", "getFullAXTree",
                            "getResponseBody"} => Demands(step) = {}
  BY DEF Demands, Needs

LEMMA GrantsOf ==
  /\ Grants("enableDOM") = {"DOM"} /\ Grants("enableRuntime") = {"Runtime"}
  /\ Grants("enablePage") = {"Page"} /\ Grants("enableNetwork") = {"Network"}
  /\ Grants("enableAX") = {"Accessibility"}
  /\ \A step :
       step \notin {"enableDOM", "enableRuntime", "enablePage", "enableNetwork",
       "enableAX"} =>
       Grants(step) = {}
  BY DEF Grants, EnableStep


Covered(q) ==
  \A i \in 1..Len(q) : \A d \in Demands(q[i]) : \E j \in 1..(i - 1) : d \in Grants(q[j])

\* A script as Call takes it: typed, in order, with every domain enabled.
Sound(q) ==
  /\ q \in Seq(Steps) /\ q # <<>> /\ Head(q) = "attach"
  /\ InOrder(q) /\ Covered(q)

LEMMA ScriptsAreSound ==
  ASSUME NEW tool \in DOMAIN Script
  PROVE  Sound(Script[tool] \o <<"return">>)
<1>. USE DemandsOf, GrantsOf DEF Sound, Steps, InOrder, Covered
<1>1. Sound(runSelect \o <<"return">>)  BY DEF runSelect
<1>2. Sound(runClose \o <<"return">>)  BY DEF runClose
<1>3. Sound(runNavigate \o <<"return">>)  BY DEF runNavigate
<1>4. Sound(runHandleDialog \o <<"return">>)  BY DEF runHandleDialog
<1>5. Sound(runEvaluate \o <<"return">>)  BY DEF runEvaluate
<1>6. Sound(runWaitFor \o <<"return">>)  BY DEF runWaitFor
<1>7. Sound(runSnapshot \o <<"return">>)  BY DEF runSnapshot
<1>8. Sound(runScreenshot \o <<"return">>)  BY DEF runScreenshot
<1>9. Sound(runScreenshotOfNode \o <<"return">>)  BY DEF runScreenshotOfNode, clipFromUID
<1>10. Sound(runNetworkBody \o <<"return">>)  BY DEF runNetworkBody
<1>11. Sound(runClick \o <<"return">>)  BY DEF runClick, nodeCenter
<1>12. Sound(runHover \o <<"return">>)  BY DEF runHover, nodeCenter
<1>13. Sound(runFill \o <<"return">>)  BY DEF runFill
<1>14. Sound(runTypeText \o <<"return">>)  BY DEF runTypeText
<1>15. Sound(runPressKey \o <<"return">>)  BY DEF runPressKey
<1>16. Sound(RunPayload \o <<"return">>)  BY DEF RunPayload
<1>17. Sound(runDialogPayload \o <<"return">>)  BY DEF runDialogPayload
<1>18. Sound(runContextInfo \o <<"return">>)  BY DEF runContextInfo
<1>19. Sound(runCFRuntimeInfo \o <<"return">>)  BY DEF runCFRuntimeInfo
<1>. HIDE DemandsOf, GrantsOf DEF Sound, Steps, InOrder, Covered
<1>. QED
  BY <1>1, <1>2, <1>3, <1>4, <1>5, <1>6, <1>7, <1>8, <1>9, <1>10, <1>11, <1>12, <1>13,
     <1>14, <1>15, <1>16, <1>17, <1>18, <1>19 DEF Script

\* The steps that fill a node follow tagName.
LEMMA FillIsSound ==
  ASSUME NEW rest \in {fillInput, fillSelect}
  PROVE  /\ rest \o <<"return">> \in Seq(Steps) /\ rest \o <<"return">> # <<>>
         /\ InOrder(rest \o <<"return">>) /\ Head(rest \o <<"return">>) # "attach"
         /\ \A i \in 1..Len(rest \o <<"return">>) :
              Demands((rest \o <<"return">>)[i]) \subseteq {"DOM"}
<1>1. CASE rest = fillInput  BY <1>1, DemandsOf DEF fillInput, Steps, InOrder
<1>2. CASE rest = fillSelect  BY <1>2, DemandsOf DEF fillSelect, Steps, InOrder
<1>. QED  BY <1>1, <1>2
-----------------------------------------------------------------------------
(* Taking a step off a list.                                               *)

LEMMA TailOfList ==
  ASSUME NEW q \in Seq(Steps), q # <<>>, InOrder(q), Head(q) # "return"
  PROVE  /\ Tail(q) \in Seq(Steps) /\ Tail(q) # <<>>
         /\ Head(Tail(q)) # "attach" /\ InOrder(Tail(q))
         /\ Len(Tail(q)) = Len(q) - 1
         /\ \A i \in 1..Len(Tail(q)) : Tail(q)[i] = q[i + 1]
<1>1. Len(q) \in Nat \ {0, 1} /\ Head(q) = q[1]
  BY DEF InOrder
<1>2. /\ Tail(q) \in Seq(Steps) /\ Len(Tail(q)) = Len(q) - 1
      /\ \A i \in 1..Len(Tail(q)) : Tail(q)[i] = q[i + 1]
  BY <1>1
<1>3. \A r \in Seq(Steps) : Len(r) \in Nat \ {0} => r # <<>> /\ Head(r) = r[1]
  OBVIOUS
<1>4. Tail(q) # <<>> /\ Head(Tail(q)) = Tail(q)[1]
  <2>1. Tail(q) \in Seq(Steps) /\ Len(Tail(q)) \in Nat \ {0}
    BY <1>1, <1>2
  <2>. QED  BY <1>3, <2>1, Zenon
<1>. QED  BY <1>1, <1>2, <1>4 DEF InOrder

\* A call takes the first step off its list.
Advances(t) == Busy(t) /\ Head(todo[t]) # "return" /\ Pop(t)

LEMMA AdvanceKeepsOrder ==
  ASSUME NEW t \in Threads, TypeOK, StepsInOrder, Advances(t)
  PROVE  /\ todo' \in [Threads -> Seq(Steps)] /\ StepsInOrder' /\ Attached(t)'
         /\ \A u \in Threads \ {t} : todo'[u] = todo[u]
<1>1. todo[t] \in Seq(Steps) /\ todo[t] # <<>> /\ InOrder(todo[t]) /\ Head(todo[t]) # "return"
  BY DEF TypeOK, StepsInOrder, Advances, Busy
<1>2. /\ Tail(todo[t]) \in Seq(Steps) /\ Tail(todo[t]) # <<>>
      /\ Head(Tail(todo[t])) # "attach" /\ InOrder(Tail(todo[t]))
  BY <1>1, TailOfList
<1>3. todo' = [todo EXCEPT ![t] = Tail(todo[t])] /\ todo \in [Threads -> Seq(Steps)]
  BY DEF TypeOK, Advances, Pop
<1>. QED  BY <1>2, <1>3 DEF StepsInOrder, Attached, At, Busy

\* A call stays ready when the step it takes enables what it grants.
LEMMA AdvanceKeepsReady ==
  ASSUME NEW t \in Threads, TypeOK, StepsInOrder, Ready(t), Advances(t),
         active \subseteq active',
         Attached(t) => att'[t].sid = att[t].sid,
         \A d \in Grants(Head(todo[t])) : <<att'[t].sid, d>> \in active'
  PROVE  Ready(t)'
<1>1. todo[t] \in Seq(Steps) /\ todo[t] # <<>> /\ InOrder(todo[t]) /\ Head(todo[t]) # "return"
  BY DEF TypeOK, StepsInOrder, Advances, Busy
<1>2. /\ todo'[t] = Tail(todo[t]) /\ Len(todo[t]) \in Nat /\ Head(todo[t]) = todo[t][1]
      /\ Len(todo'[t]) = Len(todo[t]) - 1
      /\ \A i \in 1..Len(todo'[t]) : todo'[t][i] = todo[t][i + 1]
  BY <1>1, TailOfList DEF TypeOK, Advances, Pop
<1>3. Attached(t)'
  BY AdvanceKeepsOrder
<1>4. SUFFICES ASSUME NEW i \in 1..Len(todo'[t]), NEW d \in Demands(todo'[t][i])
               PROVE  \/ <<att'[t].sid, d>> \in active'
                      \/ \E j \in 1..(i - 1) : d \in Grants(todo'[t][j])
  BY <1>3 DEF Ready
<1>5. i + 1 \in 1..Len(todo[t]) /\ d \in Demands(todo[t][i + 1])
  BY <1>2
<1>6. CASE Attached(t) /\ <<att[t].sid, d>> \in active
  BY <1>6
<1>7. CASE \E j \in 1..i : d \in Grants(todo[t][j])
  <2>1. PICK j \in 1..i : d \in Grants(todo[t][j])
    BY <1>7
  <2>2. CASE j = 1
    BY <1>2, <2>1, <2>2
  <2>3. CASE j # 1
    <3>1. j - 1 \in 1..(i - 1) /\ j - 1 \in 1..Len(todo'[t]) /\ (j - 1) + 1 = j
      BY <1>2, <2>3
    <3>. QED  BY <1>2, <2>1, <3>1
  <2>. QED  BY <2>2, <2>3
<1>. QED  BY <1>5, <1>6, <1>7 DEF Ready

\* What a call shares with others may only grow under it.
LEMMA OthersStayReady ==
  ASSUME NEW t, Ready(t), todo'[t] = todo[t], att'[t] = att[t], active \subseteq active'
  PROVE  Ready(t)'
  BY DEF Ready, Attached, At, Busy
-----------------------------------------------------------------------------
(* What the actions leave alone.                                           *)

\* Steps of an attached call that neither end it nor replace its list.
Works(t) ==
  OnSession(t) \/ Command(t) \/ fetchAXTree(t) \/ PageNavigate(t) \/ CloseTarget(t)

LEMMA WorkAdvances ==
  ASSUME NEW t \in Threads, Works(t)
  PROVE  /\ Advances(t) /\ Attached(t)
         /\ UNCHANGED <<att, sel, uid, selection, calls>>
<1>1. CASE EnsureEnabled(t)
  BY <1>1 DEF EnsureEnabled, EnableStep, Advances, Attached, At, Busy, args
<1>2. CASE lookupNode(t)
  BY <1>2 DEF lookupNode, Advances, Attached, At, Busy, args, session
<1>3. CASE SetSnapshot(t)
  BY <1>3 DEF SetSnapshot, Advances, Attached, At, Busy, args
<1>4. CASE SetDefaultSelection(t) \/ ClearDefaultSelection(t)
  BY <1>4 DEF SetDefaultSelection, ClearDefaultSelection, Advances, Attached, At, Busy, args
<1>5. CASE Command(t)
  BY <1>5 DEF Command, Plain, OfNode, Advances, Attached, At, Busy, args, session
<1>6. CASE fetchAXTree(t)
  BY <1>6 DEF fetchAXTree, Advances, Attached, At, Busy, args, session
<1>7. CASE PageNavigate(t)
  BY <1>7 DEF PageNavigate, Advances, Attached, At, Busy, args, session
<1>8. CASE CloseTarget(t)
  BY <1>8 DEF CloseTarget, Advances, Attached, At, Busy, args, session
<1>. QED  BY <1>1, <1>2, <1>3, <1>4, <1>5, <1>6, <1>7, <1>8 DEF Works, OnSession

\* The user and the add-in touch no call and nothing of the session.
UserActs ==
  \E p \in Pages : UserNavigates(p) \/ PageOpens(p) \/ PageCloses(p)

LEMMA UserLeavesCalls ==
  ASSUME UserActs
  PROVE  UNCHANGED <<todo, sel, uid, calls, att, node, active, sids, selection,
                     default, snapshot, enabled>>
  BY DEF UserActs, UserNavigates, PageOpens, PageCloses, args, session

\* The other calls keep their lists, targets, nodes and selectors.
CallActs(t) ==
  \/ \E tool \in Tools, s \in Selectors, u \in UidOrNone : Call(t, tool, s, u)
  \/ Return(t) \/ Attach(t) \/ isSelectElement(t) \/ Works(t)

LEMMA Split == Next => (\E t \in Threads : CallActs(t)) \/ UserActs \/ Reconnect
  BY DEF Next, CallActs, OnPage, Works, UserActs, UidOrNone

LEMMA OthersAreLeft ==
  ASSUME NEW t \in Threads, TypeOK, CallActs(t)
  PROVE  \A u \in Threads \ {t} :
           /\ todo'[u] = todo[u] /\ att'[u] = att[u]
           /\ node'[u] = node[u] /\ sel'[u] = sel[u]
<1>. USE DEF TypeOK
<1>1. CASE \E tool \in Tools, s \in Selectors, u \in UidOrNone : Call(t, tool, s, u)
  BY <1>1 DEF Call
<1>2. CASE Return(t)
  BY <1>2 DEF Return, Forget
<1>3. CASE Attach(t)
  BY <1>3 DEF Attach, attachedFromCache, ResolveTarget, defaultTarget, CreateTarget,
     resolveAndAttach, AttachToTarget, args,
     Pop
<1>4. CASE isSelectElement(t)
  BY <1>4 DEF isSelectElement, args
<1>5. CASE Works(t)
  <2>1. todo' = [todo EXCEPT ![t] = Tail(@)] /\ att' = att /\ sel' = sel
    BY <1>5, WorkAdvances DEF Advances, Pop
  <2>2. CASE lookupNode(t) \/ fetchAXTree(t)
    BY <2>1, <2>2 DEF lookupNode, fetchAXTree
  <2>3. CASE ~(lookupNode(t) \/ fetchAXTree(t))
    BY <1>5, <2>1, <2>3 DEF Works, OnSession, EnsureEnabled, SetSnapshot,
       SetDefaultSelection,
       ClearDefaultSelection, Command, PageNavigate, CloseTarget
  <2>. QED  BY <2>2, <2>3
<1>. QED  BY <1>1, <1>2, <1>3, <1>4, <1>5 DEF CallActs
-----------------------------------------------------------------------------
(* The invariant.                                                          *)

LEMMA TypeIsKept ==
  ASSUME TypeOK, StepsInOrder, AttachFirst, [Next]_vars
  PROVE  TypeOK'
<1>0. \A t \in Threads : Advances(t) => todo' \in [Threads -> Seq(Steps)]
  BY AdvanceKeepsOrder
<1>. USE DEF TypeOK
<1>1. ASSUME NEW t \in Threads, NEW tool \in Tools, NEW s \in Selectors,
             NEW u \in UidOrNone, Call(t, tool, s, u)
      PROVE  TypeOK'
  <2>1. Script[tool] \o <<"return">> \in Seq(Steps)
    BY ToolsAssumption, ScriptsAreSound DEF Sound
  <2>2. s \in [id : PageOrNone, url : SiteOrNone]
    BY DEF Selectors, Empty, PageOrNone, SiteOrNone
  <2>. QED  BY <1>1, <2>1, <2>2 DEF Call, browser, session
<1>2. ASSUME NEW t \in Threads, Return(t)
      PROVE  TypeOK'
  BY <1>2 DEF Return, Forget, browser, session, Empty, NoTarget, NoNode, PageOrNone,
     SiteOrNone, UidOrNone
<1>3. ASSUME NEW t \in Threads, attachedFromCache(t)
      PROVE  TypeOK'
  <2>1. PICK c \in IF UsesDefault(t) THEN default ELSE Selected(sel[t]) :
          att' = [att EXCEPT ![t] = [page |-> c.page, sid |-> c.sid]]
    BY <1>3 DEF attachedFromCache
  <2>2. c.page \in PageOrNone /\ c.sid \in Nat
    BY <2>1 DEF Selected, PageOrNone
  <2>3. Advances(t)
    BY <1>3 DEF attachedFromCache, Advances, At
  <2>4. todo' \in [Threads -> Seq(Steps)]
    BY <1>0, <2>3
  <2>. QED  BY <1>3, <2>1, <2>2, <2>4 DEF attachedFromCache, browser, session, args
<1>4. ASSUME NEW t \in Threads, ResolveTarget(t) \/ defaultTarget(t)
      PROVE  TypeOK'
  <2>1. CASE ResolveTarget(t)
    <3>1. PICK p \in Matching(sel[t]) : att' = [att EXCEPT ![t] = [page |-> p, sid |-> 0]]
      BY <2>1 DEF ResolveTarget
    <3>2. p \in PageOrNone
      BY <3>1 DEF Matching, GetTargets, FirstPageTarget, PageOrNone
    <3>. QED  BY <2>1, <3>1, <3>2 DEF ResolveTarget, browser, session, args
  <2>2. CASE defaultTarget(t)
    BY <2>2 DEF defaultTarget, CreateTarget, session, args, PageOrNone, SiteOrNone
  <2>. QED  BY <1>4, <2>1, <2>2
<1>5. ASSUME NEW t \in Threads, resolveAndAttach(t)
      PROVE  TypeOK'
  <2>1. Page(t) \in Pages /\ sids' \in Seq(Pages) /\ Len(sids') \in Nat
    BY <1>5 DEF resolveAndAttach, AttachToTarget, Page, Reachable
  <2>2. Advances(t)
    BY <1>5 DEF resolveAndAttach, AttachToTarget, Advances, At
  <2>3. todo' \in [Threads -> Seq(Steps)]
    BY <1>0, <2>2
  <2>4. selection' \subseteq [id : PageOrNone, url : SiteOrNone, page : Pages, sid : Nat]
    BY <1>5, <2>1 DEF resolveAndAttach, AttachToTarget
  <2>5. att' \in [Threads -> [page : PageOrNone, sid : Nat]]
    BY <1>5, <2>1 DEF resolveAndAttach, AttachToTarget
  <2>. QED  BY <1>5, <2>1, <2>3, <2>4, <2>5 DEF resolveAndAttach, AttachToTarget, args
<1>6. ASSUME NEW t \in Threads, Works(t)
      PROVE  TypeOK'
  <2>1. /\ todo' \in [Threads -> Seq(Steps)]
        /\ UNCHANGED <<att, sel, uid, selection, calls>>
    BY <1>0, <1>6, WorkAdvances
  <2>2. Page(t) \in Pages /\ att[t] \in [page : Pages, sid : Nat]
    BY <1>6, WorkAdvances DEF AttachFirst, Page, PageOrNone
  <2>3. CASE EnsureEnabled(t)
    BY <2>1, <2>2, <2>3 DEF EnsureEnabled, EnableStep, Domains
  <2>4. CASE lookupNode(t)
    <3>1. PICK s \in snapshot :
            node' = [node EXCEPT ![t] = [page |-> s.page, doc |-> s.doc, uid |-> uid[t]]]
      BY <2>4 DEF lookupNode
    <3>2. [page |-> s.page, doc |-> s.doc, uid |-> uid[t]]
            \in [page : PageOrNone, doc : Nat, uid : UidOrNone]
      BY <3>1 DEF PageOrNone
    <3>. QED  BY <2>1, <2>4, <3>1, <3>2 DEF lookupNode, browser, session
  <2>5. CASE SetSnapshot(t)
    BY <2>1, <2>2, <2>5 DEF SetSnapshot, browser
  <2>6. CASE SetDefaultSelection(t) \/ ClearDefaultSelection(t)
    BY <2>1, <2>2, <2>6 DEF SetDefaultSelection, ClearDefaultSelection, browser
  <2>7. CASE Command(t)
    BY <2>1, <2>7 DEF Command, browser, session
  <2>8. CASE fetchAXTree(t)
    BY <2>1, <2>2, <2>8 DEF fetchAXTree, browser, session, PageOrNone, UidOrNone
  <2>9. CASE PageNavigate(t)
    BY <2>1, <2>2, <2>9 DEF PageNavigate, Load, session, SiteOrNone
  <2>10. CASE CloseTarget(t)
    BY <2>1, <2>10 DEF CloseTarget, session
  <2>. QED  BY <1>6, <2>3, <2>4, <2>5, <2>6, <2>7, <2>8, <2>9, <2>10 DEF Works, OnSession
<1>7. ASSUME NEW t \in Threads, isSelectElement(t)
      PROVE  TypeOK'
  BY <1>7, FillIsSound DEF isSelectElement, browser, session, args
<1>8. CASE UserActs
  <2>1. UNCHANGED <<todo, sel, uid, calls, att, node, active, sids, selection, default,
                    snapshot, enabled>>
    BY <1>8, UserLeavesCalls
  <2>2. PICK p \in Pages : UserNavigates(p) \/ PageOpens(p) \/ PageCloses(p)
    BY <1>8 DEF UserActs
  <2>3. CASE UserNavigates(p)
    BY <2>1, <2>3 DEF UserNavigates, Load, SiteOrNone
  <2>4. CASE PageOpens(p)
    BY <2>1, <2>4 DEF PageOpens
  <2>5. CASE PageCloses(p)
    BY <2>1, <2>5 DEF PageCloses
  <2>. QED  BY <2>2, <2>3, <2>4, <2>5
<1>9. CASE Reconnect
  BY <1>9 DEF Reconnect, args
<1>10. CASE UNCHANGED vars
  BY <1>10 DEF vars
<1>. QED  BY <1>1, <1>2, <1>3, <1>4, <1>5, <1>6, <1>7, <1>8, <1>9, <1>10, Split
          DEF CallActs, Attach

LEMMA OrderIsKept ==
  ASSUME TypeOK, StepsInOrder, AttachFirst, [Next]_vars
  PROVE  StepsInOrder' /\ AttachFirst'
<1>1. ASSUME NEW t \in Threads, CallActs(t),
             InOrder(todo[t])', (IF Attached(t) THEN Page(t) # None ELSE node[t] = NoNode)'
      PROVE  StepsInOrder' /\ AttachFirst'
  BY <1>1, OthersAreLeft DEF StepsInOrder, AttachFirst, Attached, At, Busy, Page
<1>2. ASSUME NEW t \in Threads, NEW tool \in Tools, NEW s \in Selectors,
             NEW u \in UidOrNone, Call(t, tool, s, u)
      PROVE  StepsInOrder' /\ AttachFirst'
  <2>1. Sound(Script[tool] \o <<"return">>)
    BY ToolsAssumption, ScriptsAreSound
  <2>2. todo'[t] = Script[tool] \o <<"return">> /\ node'[t] = NoNode
    BY <1>2 DEF Call, TypeOK, AttachFirst, Attached
  <2>. QED  BY <1>1, <1>2, <2>1, <2>2 DEF CallActs, Sound, Attached, At
<1>3. ASSUME NEW t \in Threads, Return(t)
      PROVE  StepsInOrder' /\ AttachFirst'
  <2>1. todo'[t] = <<>> /\ node'[t] = NoNode
    BY <1>3 DEF Return, Forget, TypeOK
  <2>. QED  BY <1>1, <1>3, <2>1 DEF CallActs, InOrder, Attached, Busy
<1>4. ASSUME NEW t \in Threads, attachedFromCache(t)
      PROVE  StepsInOrder' /\ AttachFirst'
  <2>1. Advances(t)
    BY <1>4 DEF attachedFromCache, Advances, At
  <2>2. att'[t].page \in Pages
    BY <1>4 DEF attachedFromCache, TypeOK, Selected
  <2>. QED  BY <1>1, <1>4, <2>1, <2>2, AdvanceKeepsOrder, NoneAssumption
            DEF CallActs, Attach, StepsInOrder, Page
<1>5. ASSUME NEW t \in Threads, ResolveTarget(t) \/ defaultTarget(t)
      PROVE  StepsInOrder' /\ AttachFirst'
  BY <1>1, <1>5 DEF CallActs, Attach, ResolveTarget, defaultTarget, CreateTarget,
     CacheMiss, args, StepsInOrder,
     AttachFirst, Attached, At, Busy
<1>6. ASSUME NEW t \in Threads, resolveAndAttach(t)
      PROVE  StepsInOrder' /\ AttachFirst'
  <2>1. Advances(t)
    BY <1>6 DEF resolveAndAttach, AttachToTarget, Advances, At
  <2>2. att'[t].page = Page(t) /\ Page(t) # None
    BY <1>6 DEF resolveAndAttach, AttachToTarget, TypeOK, Page
  <2>. QED  BY <1>1, <1>6, <2>1, <2>2, AdvanceKeepsOrder
            DEF CallActs, Attach, StepsInOrder, Page
<1>7. ASSUME NEW t \in Threads, Works(t)
      PROVE  StepsInOrder' /\ AttachFirst'
  BY <1>1, <1>7, WorkAdvances, AdvanceKeepsOrder DEF CallActs, StepsInOrder, AttachFirst,
     Page
<1>8. ASSUME NEW t \in Threads, isSelectElement(t)
      PROVE  StepsInOrder' /\ AttachFirst'
  <2>1. PICK rest \in {fillInput, fillSelect} : todo'[t] = rest \o <<"return">>
    BY <1>8 DEF isSelectElement, TypeOK
  <2>2. Attached(t)' /\ InOrder(todo[t])'
    BY <2>1, FillIsSound DEF Attached, At, Busy
  <2>3. Page(t)' # None
    BY <1>8 DEF isSelectElement, At, Attached, AttachFirst, Page
  <2>. QED  BY <1>1, <1>8, <2>2, <2>3 DEF CallActs
<1>9. CASE UserActs \/ Reconnect \/ UNCHANGED vars
  BY <1>9, UserLeavesCalls DEF Reconnect, args, vars, StepsInOrder, AttachFirst,
     Attached, At,
     Busy, Page
<1>. QED  BY <1>2, <1>3, <1>4, <1>5, <1>6, <1>7, <1>8, <1>9, Split DEF CallActs, Attach

\* What the session has recorded is true.
LEMMA CachesAreKept ==
  ASSUME TypeOK, EnabledIsActive, SelectionById, TargetIdIsHonored, [Next]_vars
  PROVE  EnabledIsActive' /\ SelectionById'
<1>1. CASE UserActs \/ Reconnect \/ UNCHANGED vars
  BY <1>1, UserLeavesCalls DEF Reconnect, vars, EnabledIsActive, SelectionById
<1>2. ASSUME NEW t \in Threads, CallActs(t)
      PROVE  EnabledIsActive' /\ SelectionById'
  <2>1. CASE EnsureEnabled(t)
    BY <2>1 DEF EnsureEnabled, EnabledIsActive, SelectionById
  <2>2. CASE resolveAndAttach(t)
    BY <2>2 DEF resolveAndAttach, AttachToTarget, EnabledIsActive, SelectionById,
       TargetIdIsHonored
  <2>3. CASE ~(EnsureEnabled(t) \/ resolveAndAttach(t))
    BY <1>2, <2>3 DEF CallActs, Call, Return, Attach, attachedFromCache, ResolveTarget,
       defaultTarget, CreateTarget, isSelectElement, Works, OnSession, lookupNode,
       SetSnapshot,
       SetDefaultSelection, ClearDefaultSelection, Command, fetchAXTree, PageNavigate,
       CloseTarget, browser, session, EnabledIsActive, SelectionById
  <2>. QED  BY <2>1, <2>2, <2>3
<1>. QED  BY <1>1, <1>2, Split

\* A call stays ready: what it enables is enabled on the CDP session it uses,
\* and no other call disables it; only Reconnect does, when no call runs.
LEMMA ReadyIsKept ==
  ASSUME TypeOK, StepsInOrder, AttachFirst, EveryoneReady, EnabledIsActive, [Next]_vars
  PROVE  EveryoneReady'
<1>1. ASSUME NEW t \in Threads, CallActs(t), active \subseteq active', Ready(t)'
      PROVE  EveryoneReady'
  BY <1>1, OthersAreLeft, OthersStayReady DEF EveryoneReady
<1>2. ASSUME NEW t \in Threads, NEW tool \in Tools, NEW s \in Selectors,
             NEW u \in UidOrNone, Call(t, tool, s, u)
      PROVE  EveryoneReady'
  <2>1. Covered(Script[tool] \o <<"return">>)
    BY ToolsAssumption, ScriptsAreSound DEF Sound
  <2>2. todo'[t] = Script[tool] \o <<"return">> /\ active' = active
    BY <1>2 DEF Call, TypeOK, browser
  <2>3. Ready(t)'
    BY <2>1, <2>2 DEF Covered, Ready
  <2>. QED  BY <1>1, <1>2, <2>2, <2>3 DEF CallActs
<1>3. ASSUME NEW t \in Threads, Return(t)
      PROVE  EveryoneReady'
  <2>1. todo'[t] = <<>> /\ active' = active
    BY <1>3 DEF Return, TypeOK, browser
  <2>2. Ready(t)'
    BY <2>1 DEF Ready
  <2>. QED  BY <1>1, <1>3, <2>1, <2>2 DEF CallActs
<1>4. ASSUME NEW t \in Threads, attachedFromCache(t) \/ resolveAndAttach(t)
      PROVE  EveryoneReady'
  <2>1. Advances(t) /\ ~Attached(t) /\ active' = active /\ Head(todo[t]) = "attach"
    BY <1>4 DEF attachedFromCache, resolveAndAttach, AttachToTarget, Advances, Attached,
       At, browser
  <2>2. Ready(t)'
    BY <2>1, AdvanceKeepsReady, GrantsOf DEF EveryoneReady
  <2>. QED  BY <1>1, <1>4, <2>1, <2>2 DEF CallActs, Attach
<1>5. ASSUME NEW t \in Threads, ResolveTarget(t) \/ defaultTarget(t)
      PROVE  EveryoneReady'
  <2>1. UNCHANGED <<todo, active>> /\ ~Attached(t)
    BY <1>5 DEF ResolveTarget, defaultTarget, CreateTarget, CacheMiss, Attached, browser
  <2>2. Ready(t)'
    BY <2>1 DEF EveryoneReady, Ready, Attached, At, Busy
  <2>. QED  BY <1>1, <1>5, <2>1, <2>2 DEF CallActs, Attach
<1>6. ASSUME NEW t \in Threads, EnsureEnabled(t)
      PROVE  EveryoneReady'
  <2>1. Works(t)
    BY <1>6 DEF Works, OnSession
  <2>2. Advances(t) /\ Attached(t) /\ att' = att
    BY <2>1, WorkAdvances
  <2>3. active \subseteq active' /\ <<att[t].sid, EnableStep[Head(todo[t])]>> \in active'
    BY <1>6 DEF EnsureEnabled, isEnabled, EnabledIsActive
  <2>4. Grants(Head(todo[t])) = {EnableStep[Head(todo[t])]}
    BY <1>6 DEF EnsureEnabled, Grants
  <2>5. Ready(t)'
    BY <2>2, <2>3, <2>4, AdvanceKeepsReady DEF EveryoneReady
  <2>. QED  BY <1>1, <2>1, <2>3, <2>5 DEF CallActs
<1>7. ASSUME NEW t \in Threads, Works(t), ~EnsureEnabled(t)
      PROVE  EveryoneReady'
  <2>1. Advances(t) /\ Attached(t) /\ att' = att
    BY <1>7, WorkAdvances
  <2>2. active' = active /\ Grants(Head(todo[t])) = {}
    BY <1>7, GrantsOf DEF Works, OnSession, lookupNode, SetSnapshot, SetDefaultSelection,
       ClearDefaultSelection, Command, Plain, OfNode, fetchAXTree, PageNavigate,
       CloseTarget, At, browser
  <2>3. Ready(t)'
    BY <2>1, <2>2, AdvanceKeepsReady DEF EveryoneReady
  <2>. QED  BY <1>1, <1>7, <2>2, <2>3 DEF CallActs
<1>8. ASSUME NEW t \in Threads, isSelectElement(t)
      PROVE  EveryoneReady'
  <2>1. PICK rest \in {fillInput, fillSelect} : todo'[t] = rest \o <<"return">>
    BY <1>8 DEF isSelectElement, TypeOK
  <2>2. UNCHANGED <<att, active>> /\ Head(todo[t]) = "tagName" /\ Attached(t)
    BY <1>8 DEF isSelectElement, At, Attached, browser
  <2>3. <<att[t].sid, "DOM">> \in active
    <3>1. 1 \in 1..Len(todo[t]) /\ todo[t][1] = "tagName"
      BY <2>2 DEF Attached, Busy, TypeOK
    <3>2. "DOM" \in Demands(todo[t][1])
      BY <3>1, DemandsOf
    <3>3. 1..(1 - 1) = {}
      OBVIOUS
    <3>. QED  BY <3>1, <3>2, <3>3 DEF EveryoneReady, Ready
  <2>4. Attached(t)'
    BY <2>1, FillIsSound DEF Attached, At, Busy
  <2>5. Ready(t)'
    BY <2>1, <2>2, <2>3, <2>4, FillIsSound DEF Ready
  <2>. QED  BY <1>1, <1>8, <2>2, <2>5 DEF CallActs
<1>9. CASE UserActs \/ UNCHANGED vars
  BY <1>9, UserLeavesCalls DEF vars, EveryoneReady, Ready, Attached, At, Busy
<1>10. CASE Reconnect
  <2>1. \A t \in Threads : todo'[t] = <<>>
    BY <1>10 DEF Reconnect, Busy
  <2>. QED  BY <2>1 DEF EveryoneReady, Ready
<1>. QED  BY <1>2, <1>3, <1>4, <1>5, <1>6, <1>7, <1>8, <1>9, <1>10, Split
          DEF CallActs, Attach

LEMMA IdleIsKept ==
  ASSUME TypeOK, StepsInOrder, IdleHasNoTarget, [Next]_vars
  PROVE  IdleHasNoTarget'
<1>1. ASSUME NEW t \in Threads, CallActs(t), Busy(t)' \/ Page(t)' = None
      PROVE  IdleHasNoTarget'
  BY <1>1, OthersAreLeft DEF IdleHasNoTarget, Busy, Page
<1>2. ASSUME NEW t \in Threads, NEW tool \in Tools, NEW s \in Selectors,
             NEW u \in UidOrNone, Call(t, tool, s, u)
      PROVE  Busy(t)'
  <2>1. Script[tool] \o <<"return">> # <<>>
    BY ToolsAssumption, ScriptsAreSound DEF Sound
  <2>. QED  BY <1>2, <2>1 DEF Call, Busy, TypeOK
<1>3. ASSUME NEW t \in Threads, Return(t)
      PROVE  Page(t)' = None
  BY <1>3 DEF Return, Forget, NoTarget, Page, TypeOK
<1>4. ASSUME NEW t \in Threads, Attach(t)
      PROVE  Busy(t)'
  <2>1. CASE attachedFromCache(t) \/ resolveAndAttach(t)
    <3>1. Advances(t)
      BY <2>1 DEF attachedFromCache, resolveAndAttach, AttachToTarget, Advances, At
    <3>. QED  BY <3>1, AdvanceKeepsOrder DEF Attached, Busy
  <2>2. CASE ResolveTarget(t) \/ defaultTarget(t)
    BY <2>2 DEF ResolveTarget, defaultTarget, CreateTarget, CacheMiss, At, Busy
  <2>. QED  BY <1>4, <2>1, <2>2 DEF Attach
<1>5. ASSUME NEW t \in Threads, Works(t)
      PROVE  Busy(t)'
  BY <1>5, WorkAdvances, AdvanceKeepsOrder DEF Attached, Busy
<1>6. ASSUME NEW t \in Threads, isSelectElement(t)
      PROVE  Busy(t)'
  BY <1>6, FillIsSound DEF isSelectElement, Busy, TypeOK
<1>7. CASE UserActs \/ Reconnect \/ UNCHANGED vars
  BY <1>7, UserLeavesCalls DEF Reconnect, vars, IdleHasNoTarget, Busy, Page
<1>. QED  BY <1>1, <1>2, <1>3, <1>4, <1>5, <1>6, <1>7, Split DEF CallActs

LEMMA TargetsAreKept ==
  ASSUME TypeOK, StepsInOrder, AttachFirst, IdleHasNoTarget, SelectionById,
         NodeIsOnAttachedPage, TargetIdIsHonored, [Next]_vars
  PROVE  NodeIsOnAttachedPage' /\ TargetIdIsHonored'
<1>1. ASSUME NEW t \in Threads, CallActs(t),
             (node[t] # NoNode => node[t].page = Page(t))',
             (sel[t].id # None /\ Page(t) # None => Page(t) = sel[t].id)'
      PROVE  NodeIsOnAttachedPage' /\ TargetIdIsHonored'
  BY <1>1, OthersAreLeft DEF NodeIsOnAttachedPage, TargetIdIsHonored, Page
<1>2. ASSUME NEW t \in Threads, NEW tool \in Tools, NEW s \in Selectors,
             NEW u \in UidOrNone, Call(t, tool, s, u)
      PROVE  NodeIsOnAttachedPage' /\ TargetIdIsHonored'
  <2>1. node'[t] = NoNode /\ att'[t] = att[t] /\ att[t].page = None
    BY <1>2 DEF Call, AttachFirst, Attached, IdleHasNoTarget, Page
  <2>. QED  BY <1>1, <1>2, <2>1 DEF CallActs, Page
<1>3. ASSUME NEW t \in Threads, Return(t)
      PROVE  NodeIsOnAttachedPage' /\ TargetIdIsHonored'
  <2>1. node'[t] = NoNode /\ att'[t] = NoTarget
    BY <1>3 DEF Return, Forget, TypeOK
  <2>. QED  BY <1>1, <1>3, <2>1 DEF CallActs, NoTarget, Page
<1>4. ASSUME NEW t \in Threads, Attach(t)
      PROVE  NodeIsOnAttachedPage' /\ TargetIdIsHonored'
  <2>1. node'[t] = NoNode /\ sel' = sel
    BY <1>4 DEF Attach, attachedFromCache, ResolveTarget, defaultTarget, CreateTarget,
       resolveAndAttach, AttachToTarget,
       CacheMiss, args, AttachFirst, Attached
  <2>2. ASSUME sel[t].id # None
        PROVE  att'[t].page = sel[t].id
    <3>1. sel[t] # Empty
      BY <2>2 DEF Empty
    <3>2. CASE attachedFromCache(t)
      BY <2>2, <3>1, <3>2 DEF attachedFromCache, UsesDefault, Selected, SelectionById,
         TypeOK
    <3>3. CASE ResolveTarget(t)
      BY <2>2, <3>3 DEF ResolveTarget, Matching, GetTargets, FirstPageTarget, TypeOK
    <3>4. CASE defaultTarget(t)
      BY <3>1, <3>4 DEF defaultTarget, CreateTarget
    <3>5. CASE resolveAndAttach(t)
      BY <2>2, <3>5 DEF resolveAndAttach, AttachToTarget, TargetIdIsHonored, Page, TypeOK
    <3>. QED  BY <1>4, <3>2, <3>3, <3>4, <3>5 DEF Attach
  <2>. QED  BY <1>1, <1>4, <2>1, <2>2 DEF CallActs, Page
<1>5. ASSUME NEW t \in Threads, Works(t)
      PROVE  NodeIsOnAttachedPage' /\ TargetIdIsHonored'
  <2>1. UNCHANGED <<att, sel>>
    BY <1>5, WorkAdvances
  <2>2. CASE lookupNode(t) \/ fetchAXTree(t)
    <3>1. node'[t].page = Page(t)
      BY <2>2 DEF lookupNode, fetchAXTree, TypeOK
    <3>. QED  BY <1>1, <1>5, <2>1, <3>1 DEF CallActs, TargetIdIsHonored, Page
  <2>3. CASE ~(lookupNode(t) \/ fetchAXTree(t))
    <3>1. node' = node
      BY <1>5, <2>3 DEF Works, OnSession, EnsureEnabled, SetSnapshot, SetDefaultSelection,
         ClearDefaultSelection, Command, PageNavigate, CloseTarget
    <3>. QED  BY <2>1, <3>1 DEF NodeIsOnAttachedPage, TargetIdIsHonored, Page
  <2>. QED  BY <2>2, <2>3
<1>6. ASSUME NEW t \in Threads, isSelectElement(t)
      PROVE  NodeIsOnAttachedPage' /\ TargetIdIsHonored'
  BY <1>6 DEF isSelectElement, args, NodeIsOnAttachedPage, TargetIdIsHonored, Page
<1>7. CASE UserActs \/ Reconnect \/ UNCHANGED vars
  BY <1>7, UserLeavesCalls DEF Reconnect, args, vars, NodeIsOnAttachedPage,
     TargetIdIsHonored,
     Page
<1>. QED  BY <1>2, <1>3, <1>4, <1>5, <1>6, <1>7, Split DEF CallActs
-----------------------------------------------------------------------------
LEMMA InitInv == Init => IInv
<1>. SUFFICES ASSUME Init
              PROVE  IInv
  OBVIOUS
<1>1. TypeOK
  BY BoundsAssumption DEF Init, TypeOK, Empty, NoTarget, NoNode, PageOrNone, SiteOrNone,
     UidOrNone
<1>2. \A t \in Threads : todo[t] = <<>> /\ ~Busy(t)
  BY DEF Init, Busy
<1>3. StepsInOrder /\ EveryoneReady
  BY <1>2 DEF StepsInOrder, InOrder, EveryoneReady, Ready
<1>4. AttachFirst /\ IdleHasNoTarget /\ NodeIsOnAttachedPage /\ TargetIdIsHonored
  BY <1>2 DEF Init, AttachFirst, IdleHasNoTarget, NodeIsOnAttachedPage, TargetIdIsHonored,
     Attached, Page, NoTarget
<1>5. EnabledIsActive /\ SelectionById
  BY DEF Init, EnabledIsActive, SelectionById
<1>. QED  BY <1>1, <1>3, <1>4, <1>5 DEF IInv

LEMMA Invariance == Spec => []IInv
<1>1. IInv /\ [Next]_vars => IInv'
  BY TypeIsKept, OrderIsKept, IdleIsKept, ReadyIsKept, CachesAreKept,
     TargetsAreKept DEF IInv
<1>. QED  BY InitInv, <1>1, PTL DEF Spec

\* Pages, CDP sessions, caches and calls are well typed, and a call's steps come
\* in their order, whichever tools are called (tools/dispatcher.go:398-457).
THEOREM TypeCorrect == Spec => []TypeOK
<1>1. IInv => TypeOK
  BY DEF IInv
<1>. QED  BY Invariance, <1>1, PTL

\* A UID is resolved on the page that the call is attached to: lookupNode
\* compares the snapshot's target, and a call keeps the one it attached to
\* (interacttool/common.go:59-80).
THEOREM NodeOnPage == Spec => []NodeIsOnAttachedPage
<1>1. IInv => NodeIsOnAttachedPage
  BY DEF IInv
<1>. QED  BY Invariance, <1>1, PTL

\* A call works on the target it names, although all calls share one selection
\* slot: an entry is used only by the selector it was stored under
\* (tools/dispatcher.go:398-425, session.go:257).
THEOREM IdHonored == Spec => []TargetIdIsHonored
<1>1. IInv => TargetIdIsHonored
  BY DEF IInv
<1>. QED  BY Invariance, <1>1, PTL

\* Every step that needs a CDP domain finds it enabled on its own CDP session:
\* each tool enables it first, and EnsureEnabled skips only what the browser has
\* enabled (session.go:362-398).
THEOREM DomainsEnabled == Spec => []DomainIsEnabledBeforeUse
<1>1. IInv => DomainIsEnabledBeforeUse
  <2>. SUFFICES ASSUME IInv, NEW t \in Threads, Busy(t), Head(todo[t]) \in DOMAIN Needs
                PROVE  <<att[t].sid, Needs[Head(todo[t])]>> \in active
    BY DEF DomainIsEnabledBeforeUse
  <2>1. 1 \in 1..Len(todo[t]) /\ todo[t][1] = Head(todo[t])
    BY DEF IInv, TypeOK, Busy
  <2>2. Needs[Head(todo[t])] \in Demands(todo[t][1])
    BY <2>1 DEF Demands
  <2>3. 1..(1 - 1) = {}
    OBVIOUS
  <2>. QED  BY <2>1, <2>2, <2>3 DEF IInv, EveryoneReady, Ready
<1>. QED  BY Invariance, <1>1, PTL
=============================================================================
