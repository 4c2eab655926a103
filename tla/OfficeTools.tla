----------------------------- MODULE OfficeTools -----------------------------
(***************************************************************************)
(* What the Word, PowerPoint, OneNote and Outlook tools (internal/tools/   *)
(* wordtool, powerpointtool, onenotetool, outlooktool) and office.embed    *)
(* (officetool/embed.go) do to the document that the add-in has open, in   *)
(* the style of ExcelTools: one operator per tool, from a document to the  *)
(* set of its outcomes.  The payloads are internal/js/<host>_*.js.         *)
(*                                                                         *)
(* x and y are texts that a call writes, i the zero-based index of a slide.*)
(***************************************************************************)
EXTENDS ExcelTools

CONSTANTS
  MaxParts,   \* bound: parts of a document (chunks, slides, shapes, pages, outlines)
  Items       \* mailbox items

ASSUME PartsAssumption == MaxParts \in Nat /\ MaxParts >= 2
ASSUME ItemsAssumption == Items # {}

Failing(d, codes) == UNION {Error(d, c) : c \in codes}
-----------------------------------------------------------------------------
(* Word: the body is a sequence of chunks of text.                         *)

Papers == [body : UNION {[1 .. n -> Texts] : n \in 0 .. MaxParts}, saved : BOOLEAN]

readBody(d) == Ok(d)
readParagraphs(d) == Ok(d)
wordReadSelection(d) == Ok(d)
searchText(d) == Ok(d)
readProperties(d) == Ok(d)

NewBody(d, b) == Ok([body |-> b, saved |-> FALSE])

writeBody(d, x, location) ==
  NewBody(d, CASE location = "Replace" -> <<x>>
               [] location = "Start"   -> <<x>> \o d.body
               [] location = "End"     -> d.body \o <<x>>)

\* Mutant: a paragraph without a location takes the place of the body.
insertParagraph_replaces(d, x, location) ==
  NewBody(d, IF location = "Start" THEN <<x>> \o d.body ELSE <<x>>)

\* The location is, unless named, the end of the body.  Before and After the
\* body, which the tool's schema allows, the host may refuse.
insertParagraph(d, x, location) ==
  NewBody(d, IF location \in {"Start", "Before"} THEN <<x>> \o d.body ELSE d.body \o <<x>>)
    \cup IF location \in {"Before", "After"} THEN Error(d, "InvalidArgument") ELSE {}

\* Every place where x is found holds y; y may be nothing.  All the searches
\* are made before the first replacement.
applyEdits(d, x, y) ==
  NewBody(d, IF y = Blank THEN SelectSeq(d.body, LAMBDA c : c # x)
             ELSE [i \in DOMAIN d.body |-> IF d.body[i] = x THEN y ELSE d.body[i]])

PaperData(d) == [words |-> Len(d.body), saved |-> d.saved]
PaperFingerprint(data) == <<data.words>>
-----------------------------------------------------------------------------
(* PowerPoint: a slide is a sequence of shapes, each with its text and what *)
(* its name looks like: that of a title, that of a body (content, body,    *)
(* placeholder), of both ("Title Placeholder 1") or of neither.            *)

Shape == [like : SUBSET {"title", "body"}, text : Texts \cup {Blank}]
Slide == UNION {[1 .. n -> Shape] : n \in 0 .. MaxParts}
Decks == UNION {[1 .. n -> Slide] : n \in 0 .. MaxParts}

readPresentation(d) == Ok(d)
readSlides(d) == Ok(d)
pptReadSelection(d) == Ok(d)
powerpointQuery(d) == Ok(d)

\* __officeError of every payload that takes a slideIndex.
OnSlide(d, i, e) ==
  IF i \in 0 .. Len(d) - 1 THEN Ok(e) ELSE Error(d, "powerpoint_slide_out_of_range")

readSlide(d, i) == OnSlide(d, i, d)

\* The new slide has the placeholders of the presentation's layout, unfilled.
Layouts == {s \in Slide : \A k \in DOMAIN s : s[k].text = Blank /\ s[k].like # {}}
addSlide(d) == UNION {Ok(Append(d, s)) : s \in Layouts}

\* The first shape named like a title, and the first other one named like a
\* body; the first and the second shape when no name tells, which may be the
\* same shape twice.  0 stands for none.
First(S) == CHOOSE k \in S : \A j \in S : k <= j
Like(s, name) == {k \in DOMAIN s : name \in s[k].like}

titleLike(s) == IF Like(s, "title") = {} THEN 0 ELSE First(Like(s, "title"))
titleShape(s) == IF titleLike(s) = 0 /\ Len(s) > 0 THEN 1 ELSE titleLike(s)

bodyShape(s) ==
  LET others == Like(s, "body") \ {titleLike(s)}
  IN  IF others # {} THEN First(others) ELSE IF Len(s) > 1 THEN 2 ELSE 0

SetText(s, shape, x) ==
  [k \in DOMAIN s |-> IF k = shape THEN [s[k] EXCEPT !.text = x] ELSE s[k]]

\* The title, then the bullets; Blank is what the call does not give.
Titled(s, title) == IF title = Blank THEN s ELSE SetText(s, titleShape(s), title)
Rebuilt(s, title, bullets) ==
  IF bullets = Blank THEN Titled(s, title)
                     ELSE SetText(Titled(s, title), bodyShape(s), bullets)

\* Mutant: what the call gives is added in a shape of its own.
rebuildSlideFromOutline_adds(d, i, title, bullets) ==
  OnSlide(d, i, [k \in DOMAIN d |->
                   IF k = i + 1 THEN Append(d[k], [like |-> {}, text |-> title]) ELSE d[k]])

\* A shape may hold no text, so that the write fails, after the title's.
rebuildSlideFromOutline(d, i, title, bullets) ==
  IF title = Blank /\ bullets = Blank THEN Error(d, "nothing_to_set")
  ELSE OnSlide(d, i, [k \in DOMAIN d |->
                        IF k = i + 1 THEN Rebuilt(d[k], title, bullets) ELSE d[k]])
         \cup Error(d, "InvalidArgument")
         \cup Error([k \in DOMAIN d |-> IF k = i + 1 THEN Titled(d[k], title) ELSE d[k]],
                    "InvalidArgument")

\* office.embed: the values of a range become a text box, blank ones too: a
\* range has at least a cell, so empty_source and no_rows do not come about.
\* The workbook is read first; the slide is looked up last.
embed(b, d, w, i) ==
  {[doc |-> d, code |-> o.code] : o \in {r \in readRange(b, w) : r.code # "ok"}}
    \cup (IF ~ HasSheet(b, w) THEN {}
          ELSE OnSlide(d, i, [k \in DOMAIN d |->
                                IF k = i + 1
                                  THEN Append(d[k], [like |-> {}, text |-> b.cells[On(b, w)]])
                                  ELSE d[k]]))

DeckData(d) == [slides |-> [k \in DOMAIN d |-> Len(d[k])]]
DeckFingerprint(data) ==
  <<Len(data.slides),
    Cardinality(UNION {{k} \X (1 .. data.slides[k]) : k \in DOMAIN data.slides})>>
-----------------------------------------------------------------------------
(* OneNote: the active section is a sequence of pages.                     *)

Page == [title : Texts, outlines : UNION {[1 .. n -> Texts] : n \in 0 .. MaxParts}]
Sections == UNION {[1 .. n -> Page] : n \in 0 .. MaxParts}

readNotebooks(d) == Ok(d)
readSections(d) == Ok(d)
readPages(d) == Ok(d)
onenoteQuery(d) == Ok(d)

\* getActivePage: any page of the section.
readPage(d) == IF d = <<>> THEN Error(d, "ItemNotFound") ELSE Ok(d)

addPage(d, x) == Ok(Append(d, [title |-> x, outlines |-> <<>>]))

\* Html and bullets are an outline each; nothing to append is an error.
Outline(c) == IF c = Blank THEN <<>> ELSE <<c>>

\* The page is named by its id, here its place from 1 on, or else the active
\* one.  Not every version of OneNote finds pages by id; a page that is not in
\* this section may be in another one.
appendToPage(d, page, html, bullets) ==
  LET new == Outline(html) \o Outline(bullets)
      named == page # 0
      pages == IF named THEN {page} \cap DOMAIN d ELSE DOMAIN d
  IN  IF new = <<>> THEN Error(d, "nothing_to_append")
      ELSE (UNION {Ok([d EXCEPT ![k].outlines = @ \o new]) : k \in pages})
             \cup (IF named THEN Error(d, "onenote_get_page_unavailable") ELSE {})
             \cup (IF pages = {} THEN Error(d, "ItemNotFound") ELSE {})
             \cup (IF named /\ pages = {} THEN Ok(d) ELSE {})

SectionData(d) == [pages |-> [k \in DOMAIN d |-> d[k].title]]
SectionFingerprint(data) == <<Len(data.pages)>>
-----------------------------------------------------------------------------
(* Outlook: the selected item, if any.  An item that is read has an id, one *)
(* that is composed has none; it answers an item.                          *)

Mails == [mode : {"none", "read", "compose"}, item : Items, subject : Texts, body : Texts]

readItem(d) == IF d.mode = "none" THEN Error(d, "outlook_no_item") ELSE Ok(d)

\* Calls that answer through a callback may report a failure of their own.
getBody(d) ==
  IF d.mode = "none" THEN Error(d, "outlook_no_item")
                     ELSE Ok(d) \cup Error(d, "outlook_get_body_failed")

getSubject(d) ==
  CASE d.mode = "none"    -> Error(d, "outlook_no_item")
    [] d.mode = "read"    -> Ok(d)
    [] d.mode = "compose" -> Ok(d) \cup Error(d, "outlook_get_subject_failed")

getRecipients(d) ==
  CASE d.mode = "none"    -> Error(d, "outlook_no_item")
    [] d.mode = "read"    -> Ok(d)
    [] d.mode = "compose" -> Ok(d) \cup Error(d, "outlook_get_recipients_failed")

outlookQuery(d) == Ok(d)

Composing(d, e, unavailable, failed) ==
  IF d.mode = "compose" THEN Ok(e) \cup Error(d, failed) ELSE Error(d, unavailable)

setBody(d, x) == Composing(d, [d EXCEPT !.body = x],
                           "outlook_set_body_unavailable", "outlook_set_body_failed")

setSubject(d, x) == Composing(d, [d EXCEPT !.subject = x],
                              "outlook_set_subject_unavailable", "outlook_set_subject_failed")

\* Both fields are set at the same time: when one fails the other may be set.
draftReply(d, subject, body) ==
  IF d.mode = "none" THEN Error(d, "outlook_no_item")
  ELSE IF d.mode = "read" THEN Error(d, "outlook_compose_required")
  ELSE Ok([d EXCEPT !.subject = subject, !.body = body])
         \cup Error([d EXCEPT !.body = body], "outlook_set_subject_failed")
         \cup Error([d EXCEPT !.subject = subject], "outlook_set_body_failed")
         \cup Failing(d, {"outlook_set_subject_failed", "outlook_set_body_failed"})

NoItem == "none"

MailData(d) ==
  [id |-> IF d.mode = "read" THEN d.item ELSE NoItem,
   conversation |-> IF d.mode = "none" THEN NoItem ELSE d.item]
MailFingerprint(data) == <<data.id>>

\* The user selects another item or begins to compose one.
MailSelected(d, m, i) == [d EXCEPT !.mode = m, !.item = i]
=============================================================================
