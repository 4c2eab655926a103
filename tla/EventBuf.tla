------------------------------ MODULE EventBuf ------------------------------
(***************************************************************************)
(* One event buffer (internal/session/eventbuf.go) and the callers of      *)
(* page.consoleLog and page.networkLog that read it                        *)
(* (internal/tools/inspecttool/consolelog.go, networklog.go).              *)
(*                                                                         *)
(* The pump appends events on its own.  A caller's request is two steps,   *)
(* each under the buffer's mutex and neither under both: the buffer is     *)
(* looked up, created or resized, and later drained from the cursor that   *)
(* the caller supplies, or cleared.  A caller supplies the lastSeq of its  *)
(* previous reply.  A reconnect forgets the buffer but not the cursors.    *)
(*                                                                         *)
(* An event record is its sequence number.                                 *)
(***************************************************************************)
EXTENDS Integers, Sequences, FiniteSets

CONSTANTS
  Callers,   \* clients that poll the buffer
  Sizes,     \* the values of maxBuffer
  Limits,    \* the values of limit
  MaxSeq     \* bound of the model: events appended to one buffer

ASSUME SizesAssumption == Sizes \subseteq Nat \ {0}
ASSUME LimitsAssumption == Limits \subseteq Nat \ {0}
ASSUME MaxSeqAssumption == MaxSeq \in Nat

VARIABLES
  ring,      \* b.ring: the retained records, oldest first
  max,       \* b.max; 0 when the session has no such buffer
  nextSeq,   \* b.nextSeq: the newest number handed out
  cleared,   \* history: nextSeq when the buffer was last cleared
  cursor,    \* the lastSeq each caller has from its previous reply
  reply,     \* the reply to each caller's last request
  polled,    \* history: callers that have drained this very buffer
  seen,      \* history: the records of this buffer each caller has been given
  pc         \* whether a caller is inside a request

bufVars == <<ring, max, nextSeq, cleared>>
callerVars == <<cursor, reply, polled, seen>>
allBufVars == <<bufVars, callerVars, pc>>

NoReply == [since |-> 0, records |-> {}, lastSeq |-> 0, dropped |-> FALSE]

BufInit ==
  /\ ring = <<>>
  /\ max = 0
  /\ nextSeq = 0
  /\ cleared = 0
  /\ cursor = [c \in Callers |-> 0]
  /\ reply = [c \in Callers |-> NoReply]
  /\ polled = {}
  /\ seen = [c \in Callers |-> {}]
  /\ pc = [c \in Callers |-> "idle"]
-----------------------------------------------------------------------------
Newest(n, s) == SubSeq(s, Len(s) - n + 1, Len(s))

\* Mutant: the newest records are dropped when the ring shrinks.
SetMax_keepsOldest(m) ==
  /\ max' = m
  /\ ring' = IF Len(ring) > m THEN SubSeq(ring, 1, m) ELSE ring

SetMax(m) ==
  /\ max' = m
  /\ ring' = IF Len(ring) > m THEN Newest(m, ring) ELSE ring

\* The buffer of the session, created on first use.  A request looks it up
\* several times with one maxBuffer; the last time decides what it drains.
Open(c, m) ==
  /\ pc[c] = "idle"
  /\ SetMax(m)
  /\ pc' = [pc EXCEPT ![c] = "open"]
  /\ UNCHANGED <<nextSeq, cleared, callerVars>>

\* The pump stores one more event; a full ring loses its oldest.
AppendEvent ==
  /\ max > 0 /\ nextSeq < MaxSeq
  /\ nextSeq' = nextSeq + 1
  /\ ring' = Append(IF Len(ring) >= max THEN Tail(ring) ELSE ring, nextSeq')
  /\ UNCHANGED <<max, cleared, callerVars, pc>>
-----------------------------------------------------------------------------
(* Drain.                                                                  *)

\* Mutant: the boundary is the oldest record, not the one before it.
sinceGapLocked_late(since) == since > 0 /\ since + 1 < ring[1] - 1

sinceGapLocked(since) == since > 0 /\ since < ring[1] - 1

Newer(since) == {i \in DOMAIN ring : ring[i] > since}

\* Mutant: the cursor itself is included.
collectLocked_inclusive(since, limit) ==
  LET newer == {i \in DOMAIN ring : ring[i] >= since}
  IN {i \in newer : Cardinality({j \in newer : j <= i}) <= limit}

\* The positions of the first limit records after since.
collectLocked(since, limit) ==
  {i \in Newer(since) : Cardinality({j \in Newer(since) : j <= i}) <= limit}

lastSeqOf(taken, since) ==
  IF taken = {} THEN since
  ELSE ring[CHOOSE i \in taken : \A j \in taken : j <= i]

DrainResult(since, limit) ==
  IF ring = <<>> THEN [NoReply EXCEPT !.since = since, !.lastSeq = nextSeq]
  ELSE LET taken == collectLocked(since, limit)
       IN [since   |-> since,
           records |-> {ring[i] : i \in taken},
           lastSeq |-> lastSeqOf(taken, since),
           dropped |-> sinceGapLocked(since)]

\* A zero lastSeq is left out of the reply (omitempty): the caller may take it
\* for 0 or keep the cursor it has.
NextCursor(c, r) == {r.lastSeq} \cup (IF r.lastSeq = 0 THEN {cursor[c]} ELSE {})

Drain(c, limit) ==
  /\ pc[c] = "open"
  /\ reply' = [reply EXCEPT ![c] = DrainResult(cursor[c], limit)]
  /\ \E n \in NextCursor(c, reply'[c]) : cursor' = [cursor EXCEPT ![c] = n]
  /\ polled' = polled \cup {c}
  /\ seen' = [seen EXCEPT ![c] = @ \cup reply'[c].records]
  /\ pc' = [pc EXCEPT ![c] = "idle"]
  /\ UNCHANGED bufVars

\* The reply to a clear has no lastSeq: the caller keeps the one it has.
Clear(c) ==
  /\ pc[c] = "open"
  /\ ring' = <<>>
  /\ cleared' = nextSeq
  /\ reply' = [reply EXCEPT ![c] = NoReply]
  /\ pc' = [pc EXCEPT ![c] = "idle"]
  /\ UNCHANGED <<max, nextSeq, cursor, polled, seen>>

\* dropConnLocked sets eventBufs to nil.  A request holds the session's read
\* lock, so none is under way (Session.tla, HeldConnectionIsKept).
BufReconnect ==
  /\ max > 0
  /\ \A c \in Callers : pc[c] = "idle"
  /\ ring' = <<>>
  /\ max' = 0
  /\ nextSeq' = 0
  /\ cleared' = 0
  /\ polled' = {}
  /\ seen' = [c \in Callers |-> {}]
  /\ reply' = [c \in Callers |-> NoReply]
  /\ UNCHANGED <<cursor, pc>>

BufNext ==
  \/ AppendEvent
  \/ BufReconnect
  \/ \E c \in Callers :
       \/ \E m \in Sizes : Open(c, m)
       \/ \E l \in Limits : Drain(c, l)
       \/ Clear(c)

BufSpec == BufInit /\ [][BufNext]_allBufVars
-----------------------------------------------------------------------------
Replies == [since : 0 .. MaxSeq, records : SUBSET (1 .. MaxSeq),
            lastSeq : 0 .. MaxSeq, dropped : BOOLEAN]

\* Every variable has its type (eventbuf.go:9-24, 34-38).
TypeOK ==
  /\ ring \in Seq(1 .. MaxSeq)
  /\ max \in Sizes \cup {0}
  /\ nextSeq \in 0 .. MaxSeq
  /\ cleared \in 0 .. nextSeq
  /\ cursor \in [Callers -> 0 .. MaxSeq]
  /\ reply \in [Callers -> Replies]
  /\ polled \subseteq Callers
  /\ seen \in [Callers -> SUBSET (1 .. MaxSeq)]
  /\ pc \in [Callers -> {"idle", "open"}]

\* The ring holds the newest records without a hole, in order and never more
\* than max, however appends, resizes and clears alternate
\* (eventbuf.go:51-61, 71-89, 147-151).
RingIsWindow ==
  /\ Len(ring) <= max
  /\ Len(ring) <= nextSeq
  /\ \A i \in 1 .. Len(ring) : ring[i] = nextSeq - Len(ring) + i

\* An empty ring with numbers handed out has been cleared: overflow never
\* empties it, so Drain's shortcut for an empty ring (eventbuf.go:99-102)
\* moves a cursor past nothing but cleared records.
EmptyOnlyByClear == ring = <<>> => nextSeq = cleared

\* The records that the reply's cursor has passed but that it does not hold.
Skipped(r) == (r.since + 1 .. r.lastSeq) \ r.records

\* A caller that already has a cursor learns of every gap: records its cursor
\* moves past without being returned are announced by dropped, or were
\* cleared, also with a limit and with resizes by other callers
\* (eventbuf.go:91-107).
NoSilentGap ==
  \A c \in Callers :
    reply[c].since > 0 /\ ~reply[c].dropped => Skipped(reply[c]) \subseteq 1 .. cleared

\* No caller is given a record of the buffer twice, and while the buffer lives
\* a cursor obtained from it never moves back, so that a caller that follows
\* it makes progress (eventbuf.go:119-151).
NoRepeatedRecord ==
  [][/\ \A c \in Callers :
          reply'[c] # reply[c] => reply'[c].records \cap seen[c] = {}
     /\ \A c \in polled \cap polled' :
          cursor[c] <= nextSeq => cursor'[c] >= cursor[c] /\ cursor'[c] <= nextSeq']_allBufVars
=============================================================================
