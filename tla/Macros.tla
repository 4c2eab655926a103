------------------------------- MODULE Macros --------------------------------
(***************************************************************************)
(* Recording and replaying of tool calls: the store of internal/recorder,  *)
(* the tools of internal/tools/macrotool, the recording of successful      *)
(* calls by the dispatcher (tools/dispatcher.go, runAndEnrich) and the     *)
(* replay tools that the server registers when it starts (mcp/server.go).  *)
(*                                                                         *)
(* A client's call runs its tool and, when that succeeded, appends itself  *)
(* to the recording that is then active; a replay dispatches its entries   *)
(* one by one inside the call of the macro.  A tool is "work", which stands *)
(* for any that has nothing to do with macros, "discover", which the       *)
(* watcher calls, "record_start", "record_stop" or "replay".               *)
(***************************************************************************)
EXTENDS Integers, Sequences, FiniteSets, TLC

CONSTANTS
  Names,      \* names of macros
  NoName,     \* the store is not recording
  Clients,    \* goroutines that serve tool calls
  MaxCalls    \* bound: dispatches, those of replays included

VARIABLES
  active, buf,   \* Store.active and Store.buf
  cache, disk,   \* Store.cache and its files: functions on some names
  registered,    \* the replay tools, each with its macro
  pc, call,      \* per client: its step and the call that it dispatches
  frames,        \* per client: the replays that it is inside of
  calls,         \* dispatches so far
  epoch, made    \* ghosts: recordings so far; calls the active one must hold

macroVars == <<active, buf, cache, disk, registered, pc, call, frames, calls, epoch, made>>
recording == <<active, buf, cache, disk, epoch, made>>

\* during: the recording during which the call began, 0 if none was active.
Entry(tool, name) ==
  [tool |-> tool, name |-> name, during |-> IF active = NoName THEN 0 ELSE epoch]
Idle == [tool |-> "none", name |-> NoName, during |-> 0]

MacroInit ==
  /\ active = NoName /\ buf = <<>> /\ cache = << >> /\ disk = << >> /\ registered = << >>
  /\ pc = [c \in Clients |-> "idle"] /\ call = [c \in Clients |-> Idle]
  /\ frames = [c \in Clients |-> <<>>]
  /\ calls = 0 /\ epoch = 0 /\ made = 0

Begin(c, e) ==
  /\ calls < MaxCalls /\ calls' = calls + 1
  /\ call' = [call EXCEPT ![c] = e]
  /\ pc' = [pc EXCEPT ![c] = "run"]

Dispatch(c) ==
  /\ pc[c] = "idle"
  /\ \/ Begin(c, Entry("work", NoName))
     \/ Begin(c, Entry("record_stop", NoName))
     \/ \E n \in Names : Begin(c, Entry("record_start", n))
     \/ \E n \in DOMAIN registered : Begin(c, Entry("replay", n))
  /\ UNCHANGED <<recording, registered, frames>>
-----------------------------------------------------------------------------
(* The store.                                                              *)

\* runAndEnrich: after a tool that succeeded, its call is recorded.  A call
\* that fails is the end of every replay that it is a step of.
Succeeds(c) == pc' = [pc EXCEPT ![c] = "record"] /\ UNCHANGED <<call, frames>>
Fails(c) ==
  /\ pc' = [pc EXCEPT ![c] = "idle"] /\ call' = [call EXCEPT ![c] = Idle]
  /\ frames' = [frames EXCEPT ![c] = <<>>]

\* Mutant: a recording that is active is replaced.
StartRecording_restarts(c) ==
  /\ buf' = <<>> /\ active' = call[c].name /\ Succeeds(c)
  /\ UNCHANGED <<cache, disk, epoch, made>>

StartRecording(c) ==
  \/ /\ active = NoName
     /\ active' = call[c].name /\ buf' = <<>>
     /\ epoch' = epoch + 1 /\ made' = 0
     /\ Succeeds(c) /\ UNCHANGED <<cache, disk>>
  \/ active # NoName /\ Fails(c) /\ UNCHANGED recording

\* The macro is written to a file of its own and renamed; when that fails the
\* recording goes on.
StopRecording(c) ==
  \/ /\ active # NoName
     /\ disk' = (active :> buf) @@ disk /\ cache' = (active :> buf) @@ cache
     /\ active' = NoName /\ buf' = <<>> /\ made' = 0
     /\ Succeeds(c) /\ UNCHANGED epoch
  \/ Fails(c) /\ UNCHANGED recording

\* macro.<name>: the entries as they were when the tool was registered.
Replay(c) ==
  /\ frames' = [frames EXCEPT ![c] =
                  <<[own |-> call[c], rest |-> registered[call[c].name]]>> \o @]
  /\ pc' = [pc EXCEPT ![c] = "step"]
  /\ UNCHANGED <<recording, call>>

Run(c) ==
  /\ pc[c] = "run"
  /\ \/ /\ call[c].tool \in {"work", "discover"}
        /\ Succeeds(c) \/ Fails(c)
        /\ UNCHANGED recording
     \/ call[c].tool = "record_start" /\ StartRecording(c)
     \/ call[c].tool = "record_stop" /\ StopRecording(c)
     \/ call[c].tool = "replay" /\ Replay(c)
  /\ UNCHANGED <<registered, calls>>

\* replayStep for the next entry; after the last one the macro's own call has
\* succeeded and is recorded like any other.
ReplayStep(c) ==
  LET f == Head(frames[c])
  IN  /\ pc[c] = "step"
      /\ IF f.rest # <<>>
           THEN /\ Begin(c, Entry(Head(f.rest).tool, Head(f.rest).name))
                /\ frames' = [frames EXCEPT ![c] = <<[f EXCEPT !.rest = Tail(@)]>> \o Tail(@)]
           ELSE /\ call' = [call EXCEPT ![c] = f.own]
                /\ frames' = [frames EXCEPT ![c] = Tail(@)]
                /\ pc' = [pc EXCEPT ![c] = "record"]
                /\ UNCHANGED calls
      /\ UNCHANGED <<recording, registered>>

\* Store.Append: what is not being recorded is not kept.
AppendCall(e) == buf' = IF active = NoName THEN buf ELSE Append(buf, e)

\* The call returns after it was recorded.
Recorded(c) ==
  /\ pc[c] = "record"
  /\ AppendCall(call[c])
  /\ made' = IF active # NoName /\ call[c].during = epoch THEN made + 1 ELSE made
  /\ call' = [call EXCEPT ![c] = Idle]
  /\ pc' = [pc EXCEPT ![c] = IF frames[c] = <<>> THEN "idle" ELSE "step"]
  /\ UNCHANGED <<active, cache, disk, epoch, registered, frames, calls>>

\* The server ends and is started again: LoadAll and registerMacroTools.  When
\* a file cannot be read, no macro is registered.
Restart ==
  /\ \A c \in Clients : pc[c] = "idle"
  /\ \/ cache' = disk /\ registered' = disk
     \/ \E read \in SUBSET DOMAIN disk :
          /\ read # DOMAIN disk
          /\ cache' = [n \in read |-> disk[n]] /\ registered' = << >>
  /\ active' = NoName /\ buf' = <<>> /\ made' = 0
  /\ UNCHANGED <<disk, pc, call, frames, calls, epoch>>

MacroNext ==
  \/ \E c \in Clients : Dispatch(c) \/ Run(c) \/ ReplayStep(c) \/ Recorded(c)
  \/ Restart
-----------------------------------------------------------------------------
(* Properties.                                                             *)

Own == {k \in DOMAIN buf : buf[k].during = epoch}

\* Every call that began while a recording was active, and has returned with
\* success, is in it: whatever other calls run at the same time, a second
\* record_start that is refused and a record_stop that fails to write the file
\* included (store.go:72, 110).
RecordingIsComplete == active # NoName => Cardinality(Own) >= made
=============================================================================
