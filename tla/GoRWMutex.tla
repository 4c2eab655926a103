------------------------------ MODULE GoRWMutex ------------------------------
(***************************************************************************)
(* The reader/writer lock that session.Session keeps in connMu: the sync   *)
(* package's RWMutex as internal/session uses it.  Its two features that   *)
(* matter to the session are modelled:                                     *)
(*                                                                         *)
(*   - a writer that has called Lock bars every later reader, although it  *)
(*     must itself wait until the readers it found have left;              *)
(*   - Unlock admits every reader that was barred, so none of them can be  *)
(*     overtaken by the next writer.                                       *)
(*                                                                         *)
(* A goroutine calls RLock or Lock in one step and goes on in a later one, *)
(* guarded by HasRead or HasWrite.                                         *)
(***************************************************************************)
EXTENDS FiniteSets

CONSTANT NoThread      \* the value of writer when nobody has called Lock

VARIABLES
  readers,             \* the threads that hold the lock for reading
  writer,              \* the thread that holds it, or waits, for writing
  barred               \* the readers that wait for the writer to leave

lockVars == <<readers, writer, barred>>

LockInit ==
  /\ readers = {}
  /\ writer = NoThread
  /\ barred = {}

HasRead(t)  == t \in readers
HasWrite(t) == writer = t /\ readers = {}

RLock(t) ==
  \/ /\ writer = NoThread
     /\ readers' = readers \cup {t}
     /\ UNCHANGED <<writer, barred>>
  \/ /\ writer # NoThread
     /\ barred' = barred \cup {t}
     /\ UNCHANGED <<readers, writer>>

RUnlock(t) ==
  /\ readers' = readers \ {t}
  /\ UNCHANGED <<writer, barred>>

\* Writers queue on an inner mutex: only one of them has called Lock.
Lock(t) ==
  /\ writer = NoThread
  /\ writer' = t
  /\ UNCHANGED <<readers, barred>>

Unlock(t) ==
  /\ writer' = NoThread
  /\ readers' = readers \cup barred
  /\ barred' = {}
=============================================================================
