----------------------------- MODULE CommandSpec -----------------------------
(***************************************************************************)
(* What cdp.Connection.Send promises to its callers, whatever the read     *)
(* loop, the closers and the browser do: a command issued while the        *)
(* connection is up ends exactly once; with its answer only if the answer  *)
(* was matched to it; as closed only when the connection is down and no    *)
(* answer was matched; and a closed connection accepts no command.         *)
(***************************************************************************)
CONSTANT Callers

VARIABLES
  up,       \* the connection accepts commands
  call,     \* what became of each caller's command
  result    \* how its last command ended

specVars == <<up, call, result>>

Outcomes == {"none", "ok", "closed", "canceled", "writeFailed"}

SpecInit ==
  /\ up = TRUE
  /\ call = [c \in Callers |-> "idle"]
  /\ result = [c \in Callers |-> "none"]

End(c, outcome) ==
  /\ call' = [call EXCEPT ![c] = "idle"]
  /\ result' = [result EXCEPT ![c] = outcome]
  /\ UNCHANGED up

Issue(c) ==
  /\ up /\ call[c] = "idle"
  /\ call' = [call EXCEPT ![c] = "pending"]
  /\ UNCHANGED <<up, result>>

Refuse(c) == ~up /\ call[c] = "idle" /\ End(c, "closed")

Match(c) ==
  /\ call[c] = "pending"
  /\ call' = [call EXCEPT ![c] = "matched"]
  /\ UNCHANGED <<up, result>>

Answer(c) == call[c] = "matched" /\ End(c, "ok")

FailClosed(c) == ~up /\ call[c] = "pending" /\ End(c, "closed")

GiveUp(c) ==
  /\ call[c] # "idle"
  /\ \E why \in {"canceled", "writeFailed"} : End(c, why)

GoDown == up /\ up' = FALSE /\ UNCHANGED <<call, result>>

SpecNext ==
  \/ GoDown
  \/ \E c \in Callers :
       Issue(c) \/ Refuse(c) \/ Match(c) \/ Answer(c) \/ FailClosed(c) \/ GiveUp(c)

CommandSpec == SpecInit /\ [][SpecNext]_specVars
=============================================================================
