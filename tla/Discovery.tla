------------------------------ MODULE Discovery ------------------------------
(***************************************************************************)
(* Calls of the Office tools against the document that is open in the host *)
(* application, and what is remembered of documents: <host>.discover       *)
(* (tools/officetool/discover.go), the store of its snapshots              *)
(* (internal/doccache/store.go) and the recovery hints that are looked up  *)
(* in it when a tool fails (tools/diagnostics.go).                         *)
(*                                                                         *)
(* The store is a file that all processes of the program share; a process  *)
(* reads it once, answers from its copy, and writes the whole copy back.   *)
(* A behaviour is about one host application.  Entries are kept in the     *)
(* order of their UpdatedAt, the latest first.                             *)
(***************************************************************************)
EXTENDS OfficeTools

CONSTANTS
  Hosts,       \* host applications: names among HostNames
  Files,       \* what identifies a document: its name, title or mailbox
  Cacheable,   \* those that are neither empty nor a temporary path
  Procs,       \* processes
  Threads,     \* goroutines that serve calls, each in a process
  MaxCalls,    \* bound: calls
  MaxEdits     \* bound: changes of the documents, by tools and by the user

HostNames == {"excel", "word", "powerpoint", "onenote", "outlook"}

ASSUME DiscoveryAssumption == Cacheable \subseteq Files /\ Hosts \subseteq HostNames

VARIABLES
  host, open, docs,    \* the host, the file in front, its documents
  disk, mem, loaded,   \* the file of the store, its copies, which were read
  proc, pc, seen, reply,   \* per thread: its process, step, snapshot, answer
  blind, unsaved,      \* processes that miss what the file holds, or whose
                       \* last write of it failed
  calls, edits         \* counted up to the bounds

vars == <<host, open, docs, disk, mem, loaded, proc, pc, seen, reply, blind, unsaved,
          calls, edits>>
store == <<disk, mem, loaded, blind, unsaved>>
-----------------------------------------------------------------------------
(* The documents of a host, what discover tells of one, and the tools.     *)

Docs(h) == CASE h = "excel" -> Books [] h = "word" -> Papers [] h = "powerpoint" -> Decks
             [] h = "onenote" -> Sections [] h = "outlook" -> Mails

\* A document the host starts with.
Fresh(h) ==
  LET t == CHOOSE x \in Texts : TRUE
      s == CHOOSE x \in Sheets : TRUE
      shape == [like |-> {"body"}, text |-> t]
  IN  CASE h = "excel" -> [sheets |-> {s}, active |-> s, tables |-> {}, headed |-> {},
                           cells |-> [r \in Sheets |-> IF r = s THEN t ELSE Blank]]
        [] h = "word" -> [body |-> <<t>>, saved |-> TRUE]
        [] h = "powerpoint" -> <<<<shape>>>>
        [] h = "onenote" -> <<[title |-> t, outlines |-> <<>>]>>
        [] h = "outlook" -> [mode |-> "read", item |-> CHOOSE i \in Items : TRUE,
                             subject |-> t, body |-> t]

Data(h, d) == CASE h = "excel" -> BookData(d) [] h = "word" -> PaperData(d)
                [] h = "powerpoint" -> DeckData(d) [] h = "onenote" -> SectionData(d)
                [] h = "outlook" -> MailData(d)

Fingerprint(h, data) ==
  CASE h = "excel" -> BookFingerprint(data) [] h = "word" -> PaperFingerprint(data)
    [] h = "powerpoint" -> DeckFingerprint(data) [] h = "onenote" -> SectionFingerprint(data)
    [] h = "outlook" -> MailFingerprint(data)

\* What the user may do to a document behind the program's back.
Drift(h, d) ==
  CASE h = "excel" -> BookRenamed(d)
    [] h = "word" -> {[d EXCEPT !.saved = TRUE]}
    [] h = "powerpoint" -> {[k \in DOMAIN d |-> d[Len(d) + 1 - k]]}
                             \cup {[d EXCEPT ![k] = <<>>] : k \in DOMAIN d}
    [] h = "onenote" -> {[d EXCEPT ![k].title = x] : k \in DOMAIN d, x \in Texts}
    [] h = "outlook" -> {MailSelected(d, m, i) : m \in {"none", "read", "compose"}, i \in Items}

Indices == 0 .. MaxParts
Named == Sheets \cup {NoSheet}

\* The outcomes of every tool, with every parameter.
Reads(h, d) ==
  CASE h = "excel" -> UNION {ExcelReads(d, w) : w \in Named}
    [] h = "word" -> UNION {readBody(d), readParagraphs(d), wordReadSelection(d),
                            searchText(d), readProperties(d)}
    [] h = "powerpoint" -> UNION ({readPresentation(d), readSlides(d), pptReadSelection(d),
                                   powerpointQuery(d)}
                                    \cup {readSlide(d, i) : i \in Indices})
    [] h = "onenote" -> UNION {readNotebooks(d), readSections(d), readPages(d),
                               readPage(d), onenoteQuery(d)}
    [] h = "outlook" -> UNION {readItem(d), getBody(d), getSubject(d), getRecipients(d),
                               outlookQuery(d)}

\* Tools annotated DestructiveHint: false, each at its place.  Those of a
\* PowerPoint slide copy a range of the workbook Fresh("excel").
Additive(h, d, x, w, i) ==
  CASE h = "excel" -> ExcelAdditive(d, w)
    [] h = "word" -> <<insertParagraph(d, x, "Start"), insertParagraph(d, x, ""),
                       insertParagraph(d, x, "Before"), insertParagraph(d, x, "After")>>
    [] h = "powerpoint" -> <<addSlide(d), embed(Fresh("excel"), d, w, i)>>
    [] h = "onenote" -> <<addPage(d, x), appendToPage(d, i, x, Blank),
                          appendToPage(d, i, x, x), appendToPage(d, i, Blank, Blank)>>
    [] h = "outlook" -> <<>>

\* Tools annotated IdempotentHint that change the document.
Idempotent(h, d, x, w, i) ==
  CASE h = "excel" -> ExcelIdempotent(d, w, x)
    [] h = "powerpoint" -> <<rebuildSlideFromOutline(d, i, x, Blank),
                             rebuildSlideFromOutline(d, i, Blank, x),
                             rebuildSlideFromOutline(d, i, x, CHOOSE y \in Texts : TRUE)>>
    [] h = "outlook" -> <<setBody(d, x), setSubject(d, x),
                          draftReply(d, x, CHOOSE y \in Texts : TRUE)>>
    [] OTHER -> <<>>

OtherMutations(h, d, x, y, w) ==
  CASE h = "excel" -> ExcelMutations(d, w, x)
    [] h = "word" -> (UNION {writeBody(d, x, l) : l \in {"Replace", "Start", "End"}})
                       \cup applyEdits(d, x, y)
    [] OTHER -> {}

Members(s) == UNION {s[k] : k \in DOMAIN s}

Outcomes(h, d) ==
  Reads(h, d)
    \cup UNION {Members(Additive(h, d, x, w, i)) \cup Members(Idempotent(h, d, x, w, i))
                  \cup OtherMutations(h, d, x, y, w) :
                x \in Texts, y \in Texts \cup {Blank}, w \in Named, i \in Indices}

\* The content of d is still there in e: on the same sheet or page, in the
\* same shape, between other chunks of text perhaps.
Kept(h, d, e) ==
  CASE h = "excel" -> BookKept(d, e)
    [] h = "word" -> \E k \in 0 .. Len(e.body) - Len(d.body) :
                       \A j \in DOMAIN d.body : e.body[k + j] = d.body[j]
    [] h = "powerpoint" -> /\ Len(d) <= Len(e)
                           /\ \A k \in DOMAIN d : \A j \in DOMAIN d[k] :
                                j \in DOMAIN e[k] /\ e[k][j] = d[k][j]
    [] h = "onenote" -> /\ Len(d) <= Len(e)
                        /\ \A k \in DOMAIN d :
                             /\ e[k].title = d[k].title
                             /\ \A j \in DOMAIN d[k].outlines :
                                  e[k].outlines[j] = d[k].outlines[j]
    [] h = "outlook" -> e = d
-----------------------------------------------------------------------------
(* The store.                                                              *)

Entry(s, f) == {k \in DOMAIN s : s[k].file = f}
Has(s, f) == Entry(s, f) # {}
Get(s, f) == s[CHOOSE k \in Entry(s, f) : TRUE]

\* The entry takes the front; those before the place of the one that it
\* replaces, which may be the place behind the last, move up.
Put(s, e) ==
  LET at == IF Has(s, e.file) THEN CHOOSE k \in Entry(s, e.file) : TRUE ELSE Len(s) + 1
  IN  [j \in DOMAIN s \cup {at} |->
         IF j = 1 THEN e ELSE IF j <= at THEN s[j - 1] ELSE s[j]]

None == [kind |-> "none"]
Goto(t, label) == pc' = [pc EXCEPT ![t] = label]
Answer(t, a) == reply' = [reply EXCEPT ![t] = a]
Return(t, a) == Goto(t, "idle") /\ Answer(t, a) /\ seen' = [seen EXCEPT ![t] = None]

\* loadLocked: the file is read once; when that fails the copy stays empty and
\* the next access finds it loaded.
\* Mutant: the copy starts empty.
loadLocked_skipped(p) ==
  /\ loaded' = [loaded EXCEPT ![p] = TRUE]
  /\ UNCHANGED <<mem, blind>>

loadLocked(p) ==
  IF loaded[p] THEN UNCHANGED <<mem, loaded, blind>>
  ELSE /\ loaded' = [loaded EXCEPT ![p] = TRUE]
       /\ \/ mem' = [mem EXCEPT ![p] = disk] /\ UNCHANGED blind
          \/ blind' = blind \cup {p} /\ UNCHANGED mem

\* saveLocked and writeAtomic: the copy takes the file's place, or nothing is
\* written.  The other processes that have read the file do not see it.
saveLocked(p, s) ==
  \/ /\ disk' = s
     /\ blind' = (blind \ {p}) \cup {q \in Procs \ {p} : loaded[q]}
     /\ unsaved' = unsaved \ {p}
  \/ unsaved' = unsaved \cup {p} /\ UNCHANGED <<disk, blind>>

Init ==
  /\ host \in Hosts /\ open \in Files
  /\ docs = [f \in Files |-> Fresh(host)]
  /\ disk = <<>> /\ mem = [p \in Procs |-> <<>>] /\ loaded = [p \in Procs |-> FALSE]
  /\ proc \in [Threads -> Procs]
  /\ pc = [t \in Threads |-> "idle"] /\ seen = [t \in Threads |-> None]
  /\ reply = [t \in Threads |-> None]
  /\ blind = {} /\ unsaved = {} /\ calls = 0 /\ edits = 0

Called(t) == pc[t] = "idle" /\ calls < MaxCalls /\ calls' = calls + 1

\* RunDiscover, up to the answer of the payload: the document that is open
\* now, and whether the caller forces a refresh.
RunDiscover(t) ==
  /\ Called(t)
  /\ \E force \in BOOLEAN :
       seen' = [seen EXCEPT ![t] = [file |-> open, data |-> Data(host, docs[open]),
                                    force |-> force]]
  /\ Goto(t, "get") /\ Answer(t, None)
  /\ UNCHANGED <<host, open, docs, store, proc, edits>>

\* Mutant: an entry is a hit whatever its fingerprint.
cacheFresh_always(cached, live, force) == ~ force

cacheFresh(cached, live, force) ==
  ~ force /\ Fingerprint(host, cached) = Fingerprint(host, live)

discoverCacheHit(t, e) == Return(t, [kind |-> "hit", snapshot |-> e.data])

\* Get, and what is done with its answer.
CacheGet(t) ==
  LET p == proc[t]
      f == seen[t].file
  IN  /\ pc[t] = "get"
      /\ IF f \in Cacheable THEN loadLocked(p) ELSE UNCHANGED <<mem, loaded, blind>>
      /\ IF f \in Cacheable /\ Has(mem'[p], f)
              /\ cacheFresh(Get(mem'[p], f).data, seen[t].data, seen[t].force)
           THEN discoverCacheHit(t, Get(mem'[p], f))
           ELSE Goto(t, "put") /\ UNCHANGED <<seen, reply>>
      /\ UNCHANGED <<host, open, docs, disk, unsaved, proc, calls, edits>>

\* discoverRefresh: Put, and the answer is the live snapshot whatever became
\* of the file.  The answer is kept only when it is not the live snapshot.
\* Mutant: what is written is the copy as it was before.
discoverRefresh_stale(t) ==
  LET p == proc[t]
      e == [file |-> seen[t].file, data |-> seen[t].data]
  IN  /\ pc[t] = "put"
      /\ IF e.file \in Cacheable
           THEN mem' = [mem EXCEPT ![p] = Put(mem[p], e)] /\ saveLocked(p, mem[p])
           ELSE UNCHANGED <<disk, mem, blind, unsaved>>
      /\ Return(t, None)
      /\ UNCHANGED <<host, open, docs, loaded, proc, calls, edits>>

discoverRefresh(t) ==
  LET p == proc[t]
      e == [file |-> seen[t].file, data |-> seen[t].data]
  IN  /\ pc[t] = "put"
      /\ IF e.file \in Cacheable
           THEN mem' = [mem EXCEPT ![p] = Put(mem[p], e)] /\ saveLocked(p, mem'[p])
           ELSE UNCHANGED <<disk, mem, blind, unsaved>>
      /\ Return(t, None)
      /\ UNCHANGED <<host, open, docs, loaded, proc, calls, edits>>
-----------------------------------------------------------------------------
(* The other tools, and the hints for those that fail.                     *)

\* enrichByHost: the errors for which something is looked up.  Outlook's are
\* told by their messages.
enrichByHost(h, code) ==
  CASE h = "excel" -> code = "ItemNotFound"
    [] h = "powerpoint" -> code \in {"ItemNotFound", "InvalidArgument"}
    [] h = "outlook" -> code \in {"outlook_no_item", "outlook_compose_required",
                                  "outlook_set_body_unavailable",
                                  "outlook_set_subject_unavailable"}
    [] OTHER -> FALSE

\* What a snapshot tells a caller: sheets, slides, the item mode.
Hint(h, data) ==
  CASE h = "excel" -> data.sheets
    [] h = "powerpoint" -> DOMAIN data.slides
    [] h = "outlook" -> IF data.conversation = NoItem THEN {} ELSE {"message"}

\* RunPayload: one of the tools, on the document in front.
RunPayload(t) ==
  /\ Called(t)
  /\ \E o \in Outcomes(host, docs[open]) :
       /\ o.doc \in Docs(host)
       /\ docs' = [docs EXCEPT ![open] = o.doc]
       /\ edits' = IF o.doc = docs[open] THEN edits ELSE edits + 1
       /\ edits' <= MaxEdits
       /\ IF enrichByHost(host, o.code) THEN Goto(t, "enrich") ELSE UNCHANGED pc
  /\ Answer(t, None)
  /\ UNCHANGED <<host, open, store, proc, seen>>

\* lookupExcelSheets, lookupPowerPointSlideCount, lookupOutlookItemMode: the
\* latest entry of the host that tells anything, whatever document it is of;
\* otherwise a payload of its own, which may fail.
classifyOfficeJSErr(t) ==
  LET p == proc[t]
      telling == {k \in DOMAIN mem'[p] : Hint(host, mem'[p][k].data) # {}}
      live == Hint(host, Data(host, docs[open]))
  IN  /\ pc[t] = "enrich"
      /\ loadLocked(p)
      /\ IF telling # {}
           THEN Return(t, [kind |-> "hint",
                           hint |-> Hint(host, mem'[p][CHOOSE k \in telling :
                                                  \A j \in telling : k <= j].data)])
           ELSE \/ live # {} /\ Return(t, [kind |-> "hint", hint |-> live])
                \/ Return(t, None)
      /\ UNCHANGED <<host, open, docs, disk, unsaved, proc, calls, edits>>
-----------------------------------------------------------------------------
(* The user and the processes (external).                                  *)

UserActs ==
  /\ edits < MaxEdits /\ edits' = edits + 1
  /\ \/ \E d \in Drift(host, docs[open]) :
          docs' = [docs EXCEPT ![open] = d] /\ UNCHANGED open
     \/ open' \in Files \ {open} /\ UNCHANGED docs
  /\ UNCHANGED <<host, store, proc, pc, seen, reply, calls>>

\* A process ends and is started again; its calls are lost.
Restart(p) ==
  LET gone == {t \in Threads : proc[t] = p}
  IN  /\ loaded[p]
      /\ loaded' = [loaded EXCEPT ![p] = FALSE] /\ mem' = [mem EXCEPT ![p] = <<>>]
      /\ blind' = blind \ {p} /\ unsaved' = unsaved \ {p}
      /\ pc' = [t \in Threads |-> IF t \in gone THEN "idle" ELSE pc[t]]
      /\ reply' = [t \in Threads |-> IF t \in gone THEN None ELSE reply[t]]
      /\ seen' = [t \in Threads |-> IF t \in gone THEN None ELSE seen[t]]
      /\ UNCHANGED <<host, open, docs, disk, proc, calls, edits>>

Next ==
  \/ \E t \in Threads : \/ RunDiscover(t) \/ CacheGet(t) \/ discoverRefresh(t)
                        \/ RunPayload(t) \/ classifyOfficeJSErr(t)
  \/ UserActs
  \/ \E p \in Procs : Restart(p)

Spec == Init /\ [][Next]_vars
-----------------------------------------------------------------------------
(* Properties.                                                             *)

\* A snapshot that discover returns from the store is the one that was saved
\* last for the document, by whatever process, and agrees with the document
\* that the call has looked at in what the fingerprint counts.  Only a process
\* that could not read the file, that read it before another one wrote it, or
\* that could not write it itself may answer from what the file does not hold
\* (discover.go:79-93, store.go:118, 196, 232).
HitIsLatestSaved ==
  [][\A t \in Threads :
       pc[t] = "get" /\ pc'[t] = "idle" /\ reply'[t].kind = "hit" =>
         \/ proc[t] \in blind' \cup unsaved'
         \/ \E k \in Entry(disk, seen[t].file) :
              /\ disk[k].data = reply'[t].snapshot
              /\ Fingerprint(host, disk[k].data) = Fingerprint(host, seen[t].data)]_vars

\* What is saved for a document is only lost from the file when it is written
\* by a process that could not read it, or that read it before another
\* process wrote it (store.go:196, 232).
SavedIsKept ==
  [][\A f \in Files :
       Has(disk, f) /\ ~ Has(disk', f) =>
         \E t \in Threads : pc[t] = "put" /\ pc'[t] = "idle" /\ proc[t] \in blind]_vars

\* IdempotentHint (mcp/adapter.go:31): a tool so annotated that is called
\* again after it succeeded changes nothing, and one that is called again after
\* it failed half way ends where it would have ended at once.
RepeatIsHarmless ==
  \A x \in Texts, w \in Named, i \in Indices :
    LET first == Idempotent(host, docs[open], x, w, i)
    IN  \A k \in DOMAIN first : \A o \in first[k] :
          LET again == {s \in Idempotent(host, o.doc, x, w, i)[k] : s.code = "ok"}
          IN  /\ o.code = "ok" => \A s \in again : s.doc = o.doc
              /\ o.code # "ok" /\ (\E r \in first[k] : r.code = "ok") =>
                   again \subseteq first[k]

\* DestructiveHint: false: a tool so annotated loses nothing that stands in the
\* document, whatever becomes of the call.  What stands in a sheet may move down.
AdditiveToolsKeepContent ==
  \A x \in Texts, w \in Named, i \in Indices :
    \A o \in Members(Additive(host, docs[open], x, w, i)) : Kept(host, docs[open], o.doc)
=============================================================================
