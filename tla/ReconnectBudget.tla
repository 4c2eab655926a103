--------------------------- MODULE ReconnectBudget ---------------------------
(***************************************************************************)
(* The budget that Session.dialLocked spends                               *)
(* (internal/session/session.go:209-224, 408-422), with the time that      *)
(* Session.tla leaves out: an attempt is allowed while fewer than          *)
(* MaxReconnects attempts ended within ReconnectWindow, and every attempt, *)
(* failed or not, is recorded when it ends.                                *)
(*                                                                         *)
(* connMu is write-locked from the check to the record, so attempts do not *)
(* overlap, but time passes while one dials.  Attempts are numbered.  The  *)
(* names differ from those of Session, so that both can be used together.  *)
(***************************************************************************)
EXTENDS Integers, FiniteSets

CONSTANTS
  MaxReconnects,    \* Config.ReconnectMax
  ReconnectWindow,  \* Config.ReconnectWindow
  MaxAttempts,      \* bound of the model: attempts made
  MaxTime           \* bound of the model: the last instant

ASSUME ReconnectAssumption == MaxReconnects \in Nat \ {0} /\ ReconnectWindow \in Nat \ {0}
ASSUME BoundsAssumption == MaxAttempts \in Nat /\ MaxTime \in Nat

VARIABLES
  now,         \* the clock
  attempts,    \* attempts begun so far
  begun,       \* when each attempt passed the check
  ended,       \* when each attempt was recorded
  record,      \* s.reconnects: the attempts still on record
  dialing      \* whether an attempt is under way

budgetVars == <<now, attempts, begun, ended, record, dialing>>

Attempts == 1 .. MaxAttempts

BudgetInit ==
  /\ now = 0
  /\ attempts = 0
  /\ begun = [i \in Attempts |-> 0]
  /\ ended = [i \in Attempts |-> 0]
  /\ record = {}
  /\ dialing = FALSE
-----------------------------------------------------------------------------
\* Mutant: the cutoff is forgotten, attempts are never pruned.
pruned_none == record

pruned == {i \in record : ended[i] > now - ReconnectWindow}

canReconnect == Cardinality(pruned) < MaxReconnects

\* The check passes and the dial begins.
Begin ==
  /\ ~dialing
  /\ attempts < MaxAttempts
  /\ canReconnect
  /\ record' = pruned
  /\ attempts' = attempts + 1
  /\ begun' = [begun EXCEPT ![attempts'] = now]
  /\ dialing' = TRUE
  /\ UNCHANGED <<now, ended>>

recordReconnectLocked == ended' = [ended EXCEPT ![attempts] = now]

\* Mutant: a failed attempt is not counted.
End_forgetsFailures ==
  /\ dialing
  /\ recordReconnectLocked
  /\ \E failed \in BOOLEAN :
       record' = IF failed THEN record ELSE record \cup {attempts}
  /\ dialing' = FALSE
  /\ UNCHANGED <<now, attempts, begun>>

\* The dial succeeds or fails; both are recorded.
End ==
  /\ dialing
  /\ recordReconnectLocked
  /\ record' = record \cup {attempts}
  /\ dialing' = FALSE
  /\ UNCHANGED <<now, attempts, begun>>

\* ErrReconnectBudgetExhausted.
Refuse ==
  /\ ~dialing
  /\ ~canReconnect
  /\ record' = pruned
  /\ UNCHANGED <<now, attempts, begun, ended, dialing>>

\* Acquire finds a usable connection and spends nothing.
Reuse == ~dialing /\ UNCHANGED budgetVars

Tick ==
  /\ now < MaxTime
  /\ now' = now + 1
  /\ UNCHANGED <<attempts, begun, ended, record, dialing>>

BudgetNext == Begin \/ End \/ Refuse \/ Reuse \/ Tick

BudgetSpec == BudgetInit /\ [][BudgetNext]_budgetVars
-----------------------------------------------------------------------------
\* Attempts that have been recorded.
Finished == IF dialing THEN 1 .. attempts - 1 ELSE 1 .. attempts

\* Every variable has its type; an attempt is recorded no earlier than it
\* began (session.go:209-224).
BudgetTypeOK ==
  /\ now \in 0 .. MaxTime
  /\ attempts \in 0 .. MaxAttempts
  /\ begun \in [Attempts -> 0 .. MaxTime]
  /\ ended \in [Attempts -> 0 .. MaxTime]
  /\ record \subseteq Finished
  /\ dialing \in BOOLEAN
  /\ dialing => attempts > 0
  /\ \A i \in Finished : begun[i] <= ended[i]

\* The attempts that ended within the window before attempt n began.
Before(n) == {i \in 1 .. n - 1 : ended[i] > begun[n] - ReconnectWindow}

\* No attempt begins when MaxReconnects others, failed ones included, ended
\* within the window before it, although the record is pruned on the way and
\* time passes while an attempt dials (session.go:213-222, 408-422).
WithinBudget == \A n \in 1 .. attempts : Cardinality(Before(n)) < MaxReconnects

\* The session is refused only when the budget is spent: MaxReconnects attempts
\* ended within the last window (session.go:210-213, 418).
RefusedOnlyWhenSpent ==
  (~dialing /\ ~canReconnect) =>
    Cardinality({i \in Finished : ended[i] > now - ReconnectWindow}) >= MaxReconnects
=============================================================================
