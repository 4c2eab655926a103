------------------------------ MODULE ExcelTools ------------------------------
(***************************************************************************)
(* What the Excel tools (internal/tools/exceltool) do to the workbook that *)
(* the add-in has open: one operator per tool, named after it.  A tool     *)
(* decodes its parameters, attaches, and runs one Office.js payload        *)
(* (internal/js/excel_*.js); here it maps a workbook to the set of its     *)
(* outcomes, the workbook afterwards and an error code or "ok".            *)
(*                                                                         *)
(* A workbook is its sheets, the active one, what stands in each sheet's   *)
(* range, which sheets hold a table, and on which a table was given a      *)
(* header row, so that what stood in the range moved down.  w is the sheet *)
(* a call names, in its sheet parameter or before the ! of its address, or *)
(* NoSheet; x is the content it writes.                                    *)
(***************************************************************************)
EXTENDS Integers, Sequences, FiniteSets

CONSTANTS
  Sheets,     \* names of worksheets
  NoSheet,    \* no sheet is named: the active one, or the selection on it
  Texts,      \* contents
  Blank       \* an empty range, an unset text

ASSUME SheetsAssumption == Sheets # {} /\ NoSheet \notin Sheets
ASSUME TextsAssumption == Texts # {} /\ Blank \notin Texts

Books == [sheets : (SUBSET Sheets) \ {{}}, active : Sheets,
          cells : [Sheets -> Texts \cup {Blank}], tables : SUBSET Sheets,
          headed : SUBSET Sheets]

Ok(d) == {[doc |-> d, code |-> "ok"]}
Error(d, c) == {[doc |-> d, code |-> c]}

\* worksheets.getItem or getActiveWorksheet, as every payload picks its sheet.
On(b, w) == IF w = NoSheet THEN b.active ELSE w
HasSheet(b, w) == On(b, w) \in b.sheets

OnSheet(b, w) == IF HasSheet(b, w) THEN Ok(b) ELSE Error(b, "ItemNotFound")

\* __resolveRange: the sheet may be missing and the address may be no range.
OnRange(b, w) == OnSheet(b, w) \cup Error(b, "InvalidArgument")

\* An item that the call names, which is there or is not.
OnItem(b) == Ok(b) \cup Error(b, "ItemNotFound")
-----------------------------------------------------------------------------
(* Tools that only read.                                                   *)

listWorksheets(b) == Ok(b)
getActiveWorksheet(b) == Ok(b)
worksheetInfo(b, w) == OnSheet(b, w)

readRange(b, w) == OnRange(b, w)
getSelectedRange(b) == Ok(b)
activeRange(b) == Ok(b)
usedRange(b, w) == OnSheet(b, w)
rangeProperties(b, w) == OnRange(b, w)
rangeFormulas(b, w) == OnRange(b, w)
rangeSpecialCells(b, w) == OnRange(b, w)
findInRange(b, w) == OnRange(b, w)
listConditionalFormats(b, w) == OnRange(b, w)
listDataValidations(b, w) == OnRange(b, w)

workbookInfo(b) == Ok(b)
calculationState(b) == Ok(b)
listNamedItems(b) == Ok(b)
customXmlParts(b) == Ok(b)
settingsGet(b) == Ok(b) \cup Error(b, "settings_unavailable")

listTables(b) == Ok(b)
tableInfo(b) == OnItem(b)
tableRows(b) == OnItem(b)
tableFilters(b) == OnItem(b)
listPivotTables(b) == Ok(b)
pivotTableInfo(b) == OnItem(b)
pivotTableValues(b) == OnItem(b)

listCharts(b, w) == IF w = NoSheet THEN Ok(b) ELSE OnSheet(b, w)
chartInfo(b, w) == OnSheet(b, w) \cup Error(b, "ItemNotFound")
chartImage(b, w) == OnSheet(b, w) \cup Error(b, "ItemNotFound")
listComments(b, w) == OnSheet(b, w)
listShapes(b, w) == OnSheet(b, w)

summarizeWorkbook(b) == Ok(b)
query(b, w) == OnRange(b, w)
tabulateRegion(b, w) == OnRange(b, w)

ExcelReads(b, w) ==
  UNION {listWorksheets(b), getActiveWorksheet(b), worksheetInfo(b, w),
         readRange(b, w), getSelectedRange(b), activeRange(b), usedRange(b, w),
         rangeProperties(b, w), rangeFormulas(b, w), rangeSpecialCells(b, w),
         findInRange(b, w), listConditionalFormats(b, w), listDataValidations(b, w),
         workbookInfo(b), calculationState(b), listNamedItems(b), customXmlParts(b),
         settingsGet(b), listTables(b), tableInfo(b), tableRows(b), tableFilters(b),
         listPivotTables(b), pivotTableInfo(b), pivotTableValues(b),
         listCharts(b, w), chartInfo(b, w), chartImage(b, w), listComments(b, w),
         listShapes(b, w), summarizeWorkbook(b), query(b, w), tabulateRegion(b, w)}
-----------------------------------------------------------------------------
(* Tools that change the workbook.                                         *)

Written(b, w, x) == [b EXCEPT !.cells[On(b, w)] = x]

\* With a number format the values are written by a sync of their own, before
\* the format can fail.
writeRange(b, w, x) ==
  IF HasSheet(b, w)
    THEN Ok(Written(b, w, x))
           \cup {[doc |-> d, code |-> "InvalidArgument"] : d \in {b, Written(b, w, x)}}
    ELSE Error(b, "ItemNotFound")

\* Patches apply in order; those before one that fails may stay.
\* A second patch writes y to the active sheet.
applyDiff(b, w, x, y) ==
  IF HasSheet(b, w)
    THEN Ok(Written(Written(b, w, x), NoSheet, y))
           \cup {[doc |-> d, code |-> "InvalidArgument"] : d \in {b, Written(b, w, x)}}
    ELSE Error(b, "ItemNotFound")

\* Selecting a range activates its sheet.
setSelectedRange(b, w) ==
  IF HasSheet(b, w) THEN Ok([b EXCEPT !.active = On(b, w)]) ELSE Error(b, "ItemNotFound")

activateWorksheet(b, s) ==
  IF s \in b.sheets THEN Ok([b EXCEPT !.active = s]) ELSE Error(b, "ItemNotFound")

createWorksheet(b, s) ==
  IF s \in b.sheets THEN Error(b, "ItemAlreadyExists")
                    ELSE Ok([b EXCEPT !.sheets = @ \cup {s}])

\* What stood on the sheet is gone; another sheet becomes active if it was.
deleteWorksheet(b, s) ==
  IF s \notin b.sheets THEN Error(b, "ItemNotFound")
  ELSE IF b.sheets = {s} THEN Error(b, "InvalidOperation")
  ELSE LET left == b.sheets \ {s}
       IN  {[code |-> "ok",
             doc |-> [sheets |-> left, active |-> a,
                      cells |-> [b.cells EXCEPT ![s] = Blank],
                      tables |-> b.tables \ {s}, headed |-> b.headed \ {s}]] :
            a \in IF b.active = s THEN left ELSE {b.active}}

\* Tables do not overlap.  A range without headers moves down by a row of new
\* ones; a blank range is given them where it is.  A table whose name is refused
\* may have been added.
createTable(b, w, hasHeaders) ==
  IF ~ HasSheet(b, w) THEN Error(b, "ItemNotFound")
  ELSE Error(b, "InvalidArgument")
         \cup IF On(b, w) \in b.tables THEN {}
              ELSE LET added == [b EXCEPT !.tables = @ \cup {On(b, w)},
                                         !.headed = IF hasHeaders /\ b.cells[On(b, w)] # Blank
                                                      THEN @ ELSE @ \cup {On(b, w)}]
                   IN  Ok(added) \cup Error(added, "InvalidArgument")

\* runScript, which runs any program, is left out.
ExcelMutations(b, w, x) ==
  (UNION {writeRange(b, w, x), applyDiff(b, w, x, x), setSelectedRange(b, w),
          createTable(b, w, TRUE), createTable(b, w, FALSE)})
    \cup (IF w = NoSheet THEN {} ELSE UNION {activateWorksheet(b, w),
            createWorksheet(b, w), deleteWorksheet(b, w)})

\* Tools annotated IdempotentHint, and tools annotated DestructiveHint: false,
\* each at its place in a sequence.
ExcelIdempotent(b, w, x) ==
  IF w = NoSheet
    THEN <<writeRange(b, w, x), applyDiff(b, w, x, Blank), setSelectedRange(b, w)>>
    ELSE <<writeRange(b, w, x), applyDiff(b, w, x, Blank), setSelectedRange(b, w),
           activateWorksheet(b, w), deleteWorksheet(b, w)>>

ExcelAdditive(b, w) ==
  IF w = NoSheet THEN <<createTable(b, w, TRUE), createTable(b, w, FALSE)>>
  ELSE <<createTable(b, w, TRUE), createTable(b, w, FALSE), activateWorksheet(b, w),
         createWorksheet(b, w)>>

\* Nothing is lost; a header row may have come in above.
BookKept(b, c) ==
  /\ b.sheets \subseteq c.sheets /\ b.tables \subseteq c.tables
  /\ b.headed \subseteq c.headed
  /\ \A s \in b.sheets : b.cells[s] # Blank => c.cells[s] = b.cells[s]
-----------------------------------------------------------------------------
(* excel.discover: what it returns and the fingerprint it computes.        *)

\* The used cells are those of the range and of the header row above it.
BookData(b) ==
  [sheets |-> b.sheets, tables |-> b.tables,
   used |-> {<<s, "range">> : s \in {r \in b.sheets : b.cells[r] # Blank}}
              \cup {<<s, "header">> : s \in b.headed}]

BookFingerprint(data) ==
  <<Cardinality(data.sheets), Cardinality(data.tables), Cardinality(data.used)>>

\* The user renames a sheet.
BookRenamed(b) ==
  {[sheets |-> (b.sheets \ {s}) \cup {r},
    active |-> IF b.active = s THEN r ELSE b.active,
    cells |-> [b.cells EXCEPT ![r] = b.cells[s], ![s] = Blank],
    tables |-> IF s \in b.tables THEN (b.tables \ {s}) \cup {r} ELSE b.tables,
    headed |-> IF s \in b.headed THEN (b.headed \ {s}) \cup {r} ELSE b.headed] :
   s \in b.sheets, r \in Sheets \ b.sheets}
=============================================================================
