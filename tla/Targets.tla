------------------------------- MODULE Targets -------------------------------
(***************************************************************************)
(* Page tools over one session: how a selector becomes an attached target  *)
(* (internal/tools/dispatcher.go, target.go) and what the page.*, pages.*, *)
(* addin.* and Office tools then do with it (internal/tools/pagetool,      *)
(* interacttool, inspecttool, addintool, officetool).  Calls share the     *)
(* session's selection slot, sticky default, snapshot and enabled domains, *)
(* and the browser's pages and documents.                                  *)
(*                                                                         *)
(* A tool is the sequence of its steps, each a CDP command or an access to *)
(* the session; any error ends the call.  Other calls and the user act     *)
(* between two steps.  CDP sessions are numbered in the order of attaching.*)
(***************************************************************************)
EXTENDS Naturals, Sequences

CONSTANTS
  Threads,     \* tool calls that run at the same time
  Tools,       \* the tools that are called
  Pages,       \* page targets, open or still to be opened
  Sites,       \* what a page shows: the URL patterns and surfaces it matches
  Uids,        \* the UIDs that a snapshot gives out
  None,        \* no page, no site, no uid
  MaxSids,     \* bound of the model: attachments per connection
  MaxDocs,     \* bound of the model: documents loaded
  MaxCalls     \* bound of the model: tool calls

ASSUME NoneAssumption == None \notin Pages \cup Sites \cup Uids
ASSUME BoundsAssumption == {MaxSids, MaxDocs, MaxCalls} \subseteq Nat

VARIABLES
  open,        \* the pages that exist
  site,        \* the site each page shows (None: about:blank)
  doc,         \* the document each page shows, numbered by loads
  docs,        \* documents loaded so far
  sids,        \* the page each CDP session is attached to
  active,      \* the <<sid, domain>> pairs enabled in the browser
  selection,   \* Session.selection: at most one cached selection
  default,     \* Session.defaultSel: at most one
  snapshot,    \* Session.snapshot: at most one
  enabled,     \* Session.enabled: <<sid, domain>> pairs
  todo,        \* the steps a call still has to take
  sel,         \* the selector of a call
  uid,         \* the UID a call was given
  att,         \* the target a call is attached to
  node,        \* the node a call has looked up
  calls        \* calls made so far

browser == <<open, site, doc, docs, sids, active>>
session == <<selection, default, snapshot, enabled>>
args == <<sel, uid, calls>>
vars == <<open, site, doc, docs, sids, active, selection, default,
          snapshot, enabled, todo, sel, uid, att, node, calls>>

Empty == [id |-> None, url |-> None]
NoTarget == [page |-> None, sid |-> 0]
NoNode == [page |-> None, doc |-> 0, uid |-> None]

Init ==
  /\ open \in SUBSET Pages
  /\ site \in [Pages -> Sites]
  /\ doc = [p \in Pages |-> 0] /\ docs = 0
  /\ sids = <<>> /\ active = {}
  /\ selection = {} /\ default = {} /\ snapshot = {} /\ enabled = {}
  /\ todo = [t \in Threads |-> <<>>]
  /\ sel = [t \in Threads |-> Empty]
  /\ uid = [t \in Threads |-> None]
  /\ att = [t \in Threads |-> NoTarget]
  /\ node = [t \in Threads |-> NoNode]
  /\ calls = 0
-----------------------------------------------------------------------------
(* The tools.                                                              *)

EnableStep == [enableDOM |-> "DOM", enableRuntime |-> "Runtime", enablePage |-> "Page",
               enableNetwork |-> "Network", enableAX |-> "Accessibility"]

nodeCenter == <<"node", "enableDOM", "getBoxModel">>
clipFromUID == <<"node", "enableDOM", "getBoxModel">>
RunPayload == <<"attach", "evaluate">>
fillInput == <<"focus", "clear", "insertText">>
fillSelect == <<"selectSet">>

runSelect == <<"attach", "setDefault">>
runClose == <<"attach", "closeTarget", "clearDefault">>
runNavigate == <<"attach", "navigate">>
runHandleDialog == <<"attach", "enablePage", "handleDialog">>
runEvaluate == <<"attach", "evaluate">>
\* Evaluates until true, an error or the deadline: repetition changes nothing.
runWaitFor == <<"attach", "evaluate">>
runSnapshot == <<"attach", "enableAX", "getFullAXTree", "setSnapshot">>
runScreenshot == <<"attach", "enablePage", "capture">>
runScreenshotOfNode == <<"attach", "enablePage">> \o clipFromUID \o <<"capture">>
runNetworkBody == <<"attach", "enableNetwork", "getResponseBody">>
runClick == <<"attach">> \o nodeCenter \o <<"mousePressed", "mouseReleased">>
runHover == <<"attach">> \o nodeCenter \o <<"mouseMoved">>
\* fillInput or fillSelect follow, as the answer to tagName says.
runFill == <<"attach", "node", "enableDOM", "enableRuntime", "resolveNode", "tagName">>
runTypeText == <<"attach", "insertText">>
runPressKey == <<"attach", "keyDown", "keyUp">>
\* The Office dialog, context and custom-function probes are payloads.
runDialogPayload == <<"attach", "evaluate">>
runContextInfo == <<"attach", "evaluate">>
runCFRuntimeInfo == <<"attach", "evaluate">>

Script ==
  [select |-> runSelect, close |-> runClose, navigate |-> runNavigate,
   handleDialog |-> runHandleDialog, evaluate |-> runEvaluate, waitFor |-> runWaitFor,
   snapshot |-> runSnapshot, screenshot |-> runScreenshot,
   screenshotOfNode |-> runScreenshotOfNode, networkBody |-> runNetworkBody,
   click |-> runClick, hover |-> runHover, fill |-> runFill, typeText |-> runTypeText,
   pressKey |-> runPressKey, office |-> RunPayload, officeDialog |-> runDialogPayload,
   contextInfo |-> runContextInfo, cfRuntimeInfo |-> runCFRuntimeInfo]

ASSUME ToolsAssumption == Tools \subseteq DOMAIN Script

NeedsSelector == {"select", "close"}
NeedsUid == {"screenshotOfNode", "click", "hover", "fill"}

\* Commands that need their domain enabled on the CDP session.
Needs == [getBoxModel |-> "DOM", resolveNode |-> "DOM", focus |-> "DOM",
          handleDialog |-> "Page", capture |-> "Page",
          getFullAXTree |-> "Accessibility", getResponseBody |-> "Network"]

\* Commands whose answer changes nothing that is modelled.
Plain == {"evaluate", "handleDialog", "capture", "getResponseBody",
          "mousePressed", "mouseReleased", "mouseMoved", "selectSet", "keyDown", "keyUp",
          "clear", "insertText"}

\* Commands about a node: an error once its document is gone.
OfNode == {"getBoxModel", "resolveNode", "focus"}
-----------------------------------------------------------------------------
Busy(t) == todo[t] # <<>>
At(t, step) == Busy(t) /\ Head(todo[t]) = step
Pop(t) == todo' = [todo EXCEPT ![t] = Tail(todo[t])]

Page(t) == att[t].page
Reachable(t) == Page(t) \in open
NodeIsLive(t) == node[t].doc = doc[node[t].page]

Forget(t) ==
  /\ sel' = [sel EXCEPT ![t] = Empty]
  /\ uid' = [uid EXCEPT ![t] = None]
  /\ att' = [att EXCEPT ![t] = NoTarget]
  /\ node' = [node EXCEPT ![t] = NoNode]

Call(t, tool, s, u) ==
  /\ ~Busy(t) /\ calls < MaxCalls
  /\ tool \in NeedsSelector => s # Empty
  /\ (tool \in NeedsUid) = (u # None)
  /\ calls' = calls + 1
  /\ todo' = [todo EXCEPT ![t] = Script[tool] \o <<"return">>]
  /\ sel' = [sel EXCEPT ![t] = s]
  /\ uid' = [uid EXCEPT ![t] = u]
  /\ UNCHANGED <<browser, session, att, node>>

\* The result, or an error, a timeout or a cancellation at any step.
Return(t) ==
  /\ Busy(t)
  /\ todo' = [todo EXCEPT ![t] = <<>>]
  /\ Forget(t)
  /\ UNCHANGED <<browser, session, calls>>
-----------------------------------------------------------------------------
(* RunEnv.Attach.                                                          *)

UsesDefault(t) == sel[t] = Empty /\ default # {}

\* Mutant: the slot is matched by the URL pattern alone.
Selected_anyId(s) == {c \in selection : c.url = s.url}

Selected(s) == {c \in selection : c.id = s.id /\ c.url = s.url}

attachedFromCache(t) ==
  /\ At(t, "attach") /\ Page(t) = None
  /\ \E c \in IF UsesDefault(t) THEN default ELSE Selected(sel[t]) :
       att' = [att EXCEPT ![t] = [page |-> c.page, sid |-> c.sid]]
  /\ Pop(t)
  /\ UNCHANGED <<browser, session, args, node>>

CacheMiss(t) ==
  At(t, "attach") /\ Page(t) = None /\ ~UsesDefault(t) /\ Selected(sel[t]) = {}

\* The browser lists its targets in no known order.
GetTargets == open

\* Any of them may be the first page.
FirstPageTarget == GetTargets

\* The targets that a selector may resolve to.
Matching(s) ==
  IF s.id # None THEN GetTargets \cap {s.id}
  ELSE IF s.url # None THEN {p \in GetTargets : site[p] = s.url}
  ELSE FirstPageTarget

ResolveTarget(t) ==
  /\ CacheMiss(t)
  /\ \E p \in Matching(sel[t]) :
       att' = [att EXCEPT ![t] = [page |-> p, sid |-> 0]]
  /\ UNCHANGED <<browser, session, args, todo, node>>

CreateTarget(p) ==
  /\ open' = open \cup {p}
  /\ site' = [site EXCEPT ![p] = None]

\* No page at all, so about:blank is opened.
defaultTarget(t) ==
  /\ CacheMiss(t)
  /\ sel[t] = Empty /\ FirstPageTarget = {}
  /\ \E p \in Pages :
       /\ CreateTarget(p)
       /\ att' = [att EXCEPT ![t] = [page |-> p, sid |-> 0]]
  /\ UNCHANGED <<doc, docs, sids, active, session, args, todo, node>>

\* The CDP sessions are numbered; an attachment adds one.
AttachToTarget(p) ==
  /\ p \in open /\ Len(sids) < MaxSids
  /\ sids' = Append(sids, p)

\* AttachToTarget, then SetSelected: the slot holds the latest selection.
resolveAndAttach(t) ==
  /\ At(t, "attach") /\ Page(t) # None
  /\ AttachToTarget(Page(t))
  /\ att' = [att EXCEPT ![t].sid = Len(sids')]
  /\ selection' = {[id |-> sel[t].id, url |-> sel[t].url, page |-> Page(t),
                    sid |-> Len(sids')]}
  /\ Pop(t)
  /\ UNCHANGED <<open, site, doc, docs, active, default, snapshot, enabled,
                 args, node>>
-----------------------------------------------------------------------------
(* Steps on the session.                                                   *)

\* Mutant: a domain counts as enabled once any CDP session has enabled it.
isEnabled_anySession(sid, d) == \E pair \in enabled : pair[2] = d

isEnabled(sid, d) == <<sid, d>> \in enabled

\* Two first callers may both send: enabling is idempotent.
EnsureEnabled(t) ==
  /\ Busy(t) /\ Head(todo[t]) \in DOMAIN EnableStep
  /\ LET sid == att[t].sid
         d == EnableStep[Head(todo[t])]
     IN IF isEnabled(sid, d)
          THEN UNCHANGED <<active, enabled>>
          ELSE /\ Reachable(t)
               /\ active' = active \cup {<<sid, d>>}
               /\ enabled' = enabled \cup {<<sid, d>>}
  /\ Pop(t)
  /\ UNCHANGED <<open, site, doc, docs, sids, selection, default, snapshot,
                 args, att, node>>

\* Mutant: the snapshot's target is not compared.
lookupNode_anyTarget(t) ==
  /\ At(t, "node")
  /\ \E s \in snapshot :
       node' = [node EXCEPT ![t] = [page |-> s.page, doc |-> s.doc, uid |-> uid[t]]]
  /\ Pop(t)
  /\ UNCHANGED <<browser, session, args, att>>

lookupNode(t) ==
  /\ At(t, "node")
  /\ \E s \in snapshot :
       /\ s.page = Page(t)
       /\ node' = [node EXCEPT ![t] = [page |-> s.page, doc |-> s.doc, uid |-> uid[t]]]
  /\ Pop(t)
  /\ UNCHANGED <<browser, session, args, att>>

\* SetSnapshot replaces the one snapshot by the tree that was fetched.
SetSnapshot(t) ==
  /\ At(t, "setSnapshot")
  /\ snapshot' = {[page |-> Page(t), sid |-> att[t].sid, doc |-> node[t].doc]}
  /\ Pop(t)
  /\ UNCHANGED <<browser, selection, default, enabled, args, att, node>>

SetDefaultSelection(t) ==
  /\ At(t, "setDefault")
  /\ default' = {att[t]}
  /\ Pop(t)
  /\ UNCHANGED <<browser, selection, snapshot, enabled, args, att, node>>

\* pages.close clears the sticky default, whatever page it names.
ClearDefaultSelection(t) ==
  /\ At(t, "clearDefault")
  /\ default' = {}
  /\ Pop(t)
  /\ UNCHANGED <<browser, selection, snapshot, enabled, args, att, node>>
-----------------------------------------------------------------------------
(* CDP commands on the attached target.                                    *)

Command(t) ==
  /\ Busy(t) /\ Head(todo[t]) \in Plain \cup OfNode
  /\ Reachable(t)
  /\ Head(todo[t]) \in OfNode => NodeIsLive(t)
  /\ Pop(t)
  /\ UNCHANGED <<browser, session, args, att, node>>

\* The tree is of the document shown now; the page may load another before it
\* is stored.
fetchAXTree(t) ==
  /\ At(t, "getFullAXTree") /\ Reachable(t)
  /\ node' = [node EXCEPT ![t] = [page |-> Page(t), doc |-> doc[Page(t)], uid |-> None]]
  /\ Pop(t)
  /\ UNCHANGED <<browser, session, args, att>>

isSelectElement(t) ==
  /\ At(t, "tagName")
  /\ Reachable(t) /\ NodeIsLive(t)
  /\ \E rest \in {fillInput, fillSelect} :
       todo' = [todo EXCEPT ![t] = rest \o <<"return">>]
  /\ UNCHANGED <<browser, session, args, att, node>>

Load(p, s) ==
  /\ docs < MaxDocs
  /\ docs' = docs + 1
  /\ doc' = [doc EXCEPT ![p] = docs']
  /\ site' = [site EXCEPT ![p] = s]

PageNavigate(t) ==
  /\ At(t, "navigate") /\ Reachable(t)
  /\ \E s \in Sites : Load(Page(t), s)
  /\ Pop(t)
  /\ UNCHANGED <<open, sids, active, session, args, att, node>>

\* CDP may answer success=false: the page stays, and the tool goes on.
CloseTarget(t) ==
  /\ At(t, "closeTarget")
  /\ open' \in {open, open \ {Page(t)}}
  /\ Pop(t)
  /\ UNCHANGED <<site, doc, docs, sids, active, session, args, att, node>>
-----------------------------------------------------------------------------
(* The user, the add-in and the connection.                                *)

UserNavigates(p) ==
  /\ p \in open
  /\ \E s \in Sites : Load(p, s)
  /\ UNCHANGED <<open, sids, active, session, todo, args, att, node>>

PageOpens(p) ==
  /\ p \notin open /\ docs < MaxDocs
  /\ open' = open \cup {p}
  /\ docs' = docs + 1
  /\ doc' = [doc EXCEPT ![p] = docs']
  /\ UNCHANGED <<site, sids, active, session, todo, args, att, node>>

PageCloses(p) ==
  /\ p \in open
  /\ open' = open \ {p}
  /\ UNCHANGED <<site, doc, docs, sids, active, session, todo, args, att,
                 node>>

\* dropConnLocked under the write lock: no call holds the session.
Reconnect ==
  /\ sids # <<>>
  /\ \A t \in Threads : ~Busy(t)
  /\ sids' = <<>> /\ active' = {}
  /\ selection' = {} /\ default' = {} /\ snapshot' = {} /\ enabled' = {}
  /\ UNCHANGED <<open, site, doc, docs, todo, args, att, node>>
-----------------------------------------------------------------------------
Selectors ==
  {Empty} \cup {[id |-> p, url |-> None] : p \in Pages}
          \cup {[id |-> None, url |-> s] : s \in Sites}

Attach(t) ==
  attachedFromCache(t) \/ ResolveTarget(t) \/ defaultTarget(t) \/ resolveAndAttach(t)

OnSession(t) ==
  \/ EnsureEnabled(t) \/ lookupNode(t) \/ SetSnapshot(t)
  \/ SetDefaultSelection(t) \/ ClearDefaultSelection(t)

OnPage(t) ==
  \/ Command(t) \/ fetchAXTree(t) \/ isSelectElement(t)
  \/ PageNavigate(t) \/ CloseTarget(t)

Next ==
  \/ \E t \in Threads :
       \/ \E tool \in Tools, s \in Selectors, u \in Uids \cup {None} : Call(t, tool, s, u)
       \/ Return(t) \/ Attach(t) \/ OnSession(t) \/ OnPage(t)
  \/ \E p \in Pages : UserNavigates(p) \/ PageOpens(p) \/ PageCloses(p)
  \/ Reconnect

Spec == Init /\ [][Next]_vars
-----------------------------------------------------------------------------
\* A UID is only ever resolved on the page its snapshot was taken of: a call
\* that has looked up a node is attached to that node's page, through whichever
\* cache it came by the target (interacttool/common.go:59-80, dispatcher.go:413).
NodeIsOnAttachedPage ==
  \A t \in Threads : node[t] # NoNode => node[t].page = Page(t)

\* A call that names a targetId works on that target, whatever other calls put
\* into the one selection slot meanwhile (dispatcher.go:398-425, session.go:257).
TargetIdIsHonored ==
  \A t \in Threads : sel[t].id # None /\ Page(t) # None => Page(t) = sel[t].id

\* When a command needs a CDP domain, that domain has been enabled in the
\* browser on the CDP session the command is sent to, by this call or by an
\* earlier one (session.go:362-398).
DomainIsEnabledBeforeUse ==
  \A t \in Threads :
    Busy(t) /\ Head(todo[t]) \in DOMAIN Needs =>
      <<att[t].sid, Needs[Head(todo[t])]>> \in active
=============================================================================
