--------------------------- MODULE DiscoveryProofs ---------------------------
(***************************************************************************)
(* Proofs about the store of document snapshots and about the Office       *)
(* tools (Discovery, OfficeTools, ExcelTools), for any files, processes,   *)
(* threads, sheets and texts, and any bound on the parts of a document.    *)
(***************************************************************************)
EXTENDS Discovery, FiniteSetTheorems, SequenceTheorems, TLAPS

Datas(h) == {Data(h, d) : d \in Docs(h)}
Entries == [file : Files, data : Datas(host)]
Looks == [file : Files, data : Datas(host), force : BOOLEAN]

DiscTyped ==
  /\ host \in HostNames /\ open \in Files /\ docs \in [Files -> Docs(host)]
  /\ disk \in Seq(Entries) /\ mem \in [Procs -> Seq(Entries)]
  /\ loaded \in [Procs -> BOOLEAN]
  /\ proc \in [Threads -> Procs] /\ pc \in [Threads -> {"idle", "get", "put", "enrich"}]
  /\ seen \in [Threads -> Looks \cup {None}] /\ DOMAIN reply = Threads

\* A call that is about to store has looked at a document, and its process has
\* read the file if the document is one to be stored.
LookedFirst ==
  \A t \in Threads :
    /\ pc[t] \in {"get", "put"} => seen[t] \in Looks
    /\ pc[t] = "put" /\ seen[t].file \in Cacheable => loaded[proc[t]]

\* A process that has read the file, and did not miss what another one wrote,
\* knows every document in it.
MemKnows ==
  \A p \in Procs : loaded[p] /\ p \notin blind =>
    \A f \in Files : Has(disk, f) => Has(mem[p], f)

\* And its copy is the file unless its own last write failed.
CopyIsFile ==
  \A p \in Procs : loaded[p] /\ p \notin blind \cup unsaved => mem[p] = disk

DiscInv == DiscTyped /\ LookedFirst /\ MemKnows /\ CopyIsFile
-----------------------------------------------------------------------------
(* The store.                                                              *)

\* Put keeps a list of entries, has the new one and loses no other document
\* (store.go:118-138).
LEMMA PutKeeps ==
  ASSUME NEW E, NEW s \in Seq(E), NEW e \in E
  PROVE  /\ Put(s, e) \in Seq(E)
         /\ Has(Put(s, e), e.file)
         /\ \A f : Has(s, f) => Has(Put(s, e), f)
<1> DEFINE at == IF Has(s, e.file) THEN CHOOSE k \in Entry(s, e.file) : TRUE
                 ELSE Len(s) + 1
           m == IF at <= Len(s) THEN Len(s) ELSE Len(s) + 1
<1>1. Len(s) \in Nat /\ DOMAIN s = 1 .. Len(s) /\ \A j \in 1 .. Len(s) : s[j] \in E
  BY LenProperties, ElementOfSeq
<1>2. /\ at \in 1 .. Len(s) + 1
      /\ at \in 1 .. Len(s) => s[at].file = e.file
      /\ at = Len(s) + 1 => ~ Has(s, e.file)
  <2>1. CASE Has(s, e.file)
    <3>1. at \in Entry(s, e.file)
      BY <2>1 DEF Has
    <3>2. at \in 1 .. Len(s) /\ s[at].file = e.file
      BY <1>1, <3>1 DEF Entry
    <3> HIDE DEF at
    <3> QED
      BY <1>1, <3>2
  <2>2. CASE ~ Has(s, e.file)
    BY <1>1, <2>2
  <2> QED
    BY <2>1, <2>2
<1>3. Put(s, e) = [j \in DOMAIN s \cup {at} |->
                     IF j = 1 THEN e ELSE IF j <= at THEN s[j - 1] ELSE s[j]]
  BY DEF Put
<1> HIDE DEF at
<1>0. PICK n \in Nat : n = Len(s)
  BY <1>1
<1>4. /\ at \in Nat /\ 1 <= at /\ at <= n + 1
      /\ m \in Nat /\ at <= m /\ n <= m /\ m <= n + 1
      /\ DOMAIN s \cup {at} = 1 .. m
  <2>1. at \in Nat /\ 1 <= at /\ at <= n + 1
    BY <1>0, <1>2
  <2>2. CASE at <= n
    <3>1. m = n /\ DOMAIN s = 1 .. n
      BY <1>0, <1>1, <2>2
    <3> QED
      BY <2>1, <2>2, <3>1
  <2>3. CASE at = n + 1
    <3>1. m = n + 1 /\ DOMAIN s = 1 .. n
      BY <1>0, <1>1, <2>3
    <3> HIDE DEF m
    <3>2. 1 .. n \cup {n + 1} = 1 .. n + 1
      OBVIOUS
    <3> QED
      BY <2>1, <2>3, <3>1, <3>2
  <2> QED
    BY <2>1, <2>2, <2>3
<1> HIDE DEF m
<1>5. Put(s, e) = [j \in 1 .. m |->
                     IF j = 1 THEN e ELSE IF j <= at THEN s[j - 1] ELSE s[j]]
  BY <1>3, <1>4
<1>6. Put(s, e) \in Seq(E)
  <2>1. ASSUME NEW j \in 1 .. m
        PROVE  (IF j = 1 THEN e ELSE IF j <= at THEN s[j - 1] ELSE s[j]) \in E
    <3>1. CASE j # 1 /\ j <= at
      <4>1. j - 1 \in 1 .. Len(s)
        BY <1>0, <1>4, <3>1
      <4> QED
        BY <1>1, <3>1, <4>1
    <3>2. CASE j # 1 /\ ~(j <= at)
      <4>1. j \in 1 .. Len(s)
        BY <1>0, <1>4, <3>2
      <4> QED
        BY <1>1, <3>2, <4>1
    <3> QED
      BY <3>1, <3>2
  <2>2. Put(s, e) \in [1 .. m -> E]
    BY <1>5, <2>1
  <2> QED
    BY <1>4, <2>2
<1>7. DOMAIN Put(s, e) = 1 .. m
  BY <1>5
<1>8. Has(Put(s, e), e.file)
  <2>1. 1 \in 1 .. m /\ Put(s, e)[1] = e
    BY <1>4, <1>5
  <2> QED
    BY <1>7, <2>1 DEF Has, Entry
<1>9. ASSUME NEW f, Has(s, f) PROVE Has(Put(s, e), f)
  <2>1. CASE f = e.file
    BY <1>8, <2>1
  <2>2. CASE f # e.file
    <3>1. PICK k \in 1 .. Len(s) : s[k].file = f
      BY <1>1, <1>9 DEF Has, Entry
    <3>2. k # at
      BY <1>2, <2>2, <3>1
    <3>3. CASE k < at
      <4>1. k + 1 \in 1 .. m /\ k + 1 # 1 /\ k + 1 <= at /\ (k + 1) - 1 = k
        BY <1>0, <1>4, <3>3
      <4>2. Put(s, e)[k + 1] = s[k]
        BY <1>5, <4>1
      <4> QED
        BY <1>7, <3>1, <4>1, <4>2 DEF Has, Entry
    <3>4. CASE k > at
      <4>1. k \in 1 .. m /\ k # 1 /\ ~(k <= at)
        BY <1>0, <1>4, <3>4
      <4>2. Put(s, e)[k] = s[k]
        BY <1>5, <4>1
      <4> QED
        BY <1>7, <3>1, <4>1, <4>2 DEF Has, Entry
    <3> QED
      BY <1>0, <1>4, <3>2, <3>3, <3>4
  <2> QED
    BY <2>1, <2>2
<1> QED
  BY <1>6, <1>8, <1>9
-----------------------------------------------------------------------------
(* The documents.                                                          *)

LEMMA DocsOf ==
  /\ Docs("excel") = Books /\ Docs("word") = Papers /\ Docs("powerpoint") = Decks
  /\ Docs("onenote") = Sections /\ Docs("outlook") = Mails
  BY DEF Docs

LEMMA FreshIsDoc ==
  ASSUME NEW h \in HostNames
  PROVE  Fresh(h) \in Docs(h)
<1> DEFINE t == CHOOSE x \in Texts : TRUE
           s == CHOOSE x \in Sheets : TRUE
           i == CHOOSE x \in Items : TRUE
<1>1. t \in Texts /\ s \in Sheets /\ i \in Items
  BY TextsAssumption, SheetsAssumption, ItemsAssumption
<1>2. /\ Fresh("excel") = [sheets |-> {s}, active |-> s, tables |-> {}, headed |-> {},
                           cells |-> [r \in Sheets |-> IF r = s THEN t ELSE Blank]]
      /\ Fresh("word") = [body |-> <<t>>, saved |-> TRUE]
      /\ Fresh("powerpoint") = <<<<[like |-> {"body"}, text |-> t]>>>>
      /\ Fresh("onenote") = <<[title |-> t, outlines |-> <<>>]>>
      /\ Fresh("outlook") = [mode |-> "read", item |-> i, subject |-> t, body |-> t]
  BY DEF Fresh
<1> HIDE DEF t, s, i
<1>3. 0 \in 0 .. MaxParts /\ 1 \in 0 .. MaxParts /\ 2 \in 0 .. MaxParts
  BY PartsAssumption
<1>4. CASE h = "excel"
  <2>1. PICK c \in [Sheets -> Texts \cup {Blank}] :
           c = [r \in Sheets |-> IF r = s THEN t ELSE Blank]
    BY <1>1
  <2>2. {s} \in (SUBSET Sheets) \ {{}} /\ {} \in SUBSET Sheets
    BY <1>1
  <2>3. [sheets |-> {s}, active |-> s, tables |-> {}, headed |-> {}, cells |-> c] \in Books
    BY <1>1, <2>1, <2>2 DEF Books
  <2> QED
    BY <1>2, <1>4, <2>1, <2>3, DocsOf
<1>5. CASE h = "word"
  <2>1. <<t>> \in [1 .. 1 -> Texts]
    BY <1>1
  <2>2. <<t>> \in UNION {[1 .. m -> Texts] : m \in 0 .. MaxParts}
    BY <1>3, <2>1
  <2> QED
    BY <1>2, <1>5, <2>2, DocsOf DEF Papers
<1>6. CASE h = "powerpoint"
  <2>1. [like |-> {"body"}, text |-> t] \in Shape
    BY <1>1 DEF Shape
  <2>2. \A a \in Shape : <<a>> \in [1 .. 1 -> Shape]
    OBVIOUS
  <2>3. PICK r \in Slide : r = <<[like |-> {"body"}, text |-> t]>>
    BY <1>3, <2>1, <2>2 DEF Slide
  <2>4. \A a \in Slide : <<a>> \in [1 .. 1 -> Slide]
    OBVIOUS
  <2>5. Fresh("powerpoint") \in [1 .. 1 -> Slide]
    BY <1>2, <2>3, <2>4
  <2> QED
    BY <1>3, <1>6, <2>5, DocsOf DEF Decks
<1>7. CASE h = "onenote"
  <2>1. <<>> \in [1 .. 0 -> Texts]
    OBVIOUS
  <2>2. <<>> \in UNION {[1 .. m -> Texts] : m \in 0 .. MaxParts}
    BY <1>3, <2>1
  <2>3. [title |-> t, outlines |-> <<>>] \in Page
    BY <1>1, <2>2 DEF Page
  <2>4. \A a \in Page : <<a>> \in [1 .. 1 -> Page]
    OBVIOUS
  <2>5. Fresh("onenote") \in [1 .. 1 -> Page]
    BY <1>2, <2>3, <2>4
  <2> QED
    BY <1>3, <1>7, <2>5, DocsOf DEF Sections
<1>8. CASE h = "outlook"
  BY <1>1, <1>2, <1>8, DocsOf DEF Mails
<1> QED
  BY <1>4, <1>5, <1>6, <1>7, <1>8 DEF HostNames

LEMMA DriftIsDoc ==
  ASSUME NEW h \in HostNames, NEW d \in Docs(h), NEW e \in Drift(h, d)
  PROVE  e \in Docs(h)
<1>1. CASE h = "excel"
  <2>1. d \in Books
    BY <1>1, DocsOf
  <2>2. PICK s \in d.sheets, r \in Sheets \ d.sheets :
           e = [sheets |-> (d.sheets \ {s}) \cup {r},
                active |-> IF d.active = s THEN r ELSE d.active,
                cells |-> [d.cells EXCEPT ![r] = d.cells[s], ![s] = Blank],
                tables |-> IF s \in d.tables THEN (d.tables \ {s}) \cup {r} ELSE d.tables,
                headed |-> IF s \in d.headed THEN (d.headed \ {s}) \cup {r} ELSE d.headed]
    BY <1>1 DEF Drift, BookRenamed
  <2>3. [d.cells EXCEPT ![r] = d.cells[s], ![s] = Blank] \in [Sheets -> Texts \cup {Blank}]
    BY <2>1 DEF Books
  <2> QED
    BY <1>1, <2>1, <2>2, <2>3, DocsOf DEF Books
<1>2. CASE h = "word"
  <2>1. d \in Papers /\ e = [d EXCEPT !.saved = TRUE]
    BY <1>2, DocsOf DEF Drift
  <2>2. e \in Papers
    BY <2>1 DEF Papers
  <2> QED
    BY <1>2, <2>2, DocsOf
<1>3. CASE h = "powerpoint"
  <2>1. PICK n \in 0 .. MaxParts : d \in [1 .. n -> Slide]
    BY <1>3, DocsOf DEF Decks
  <2>2. Len(d) = n /\ n \in Nat
    BY <2>1, PartsAssumption
  <2>3. e = [k \in DOMAIN d |-> d[Len(d) + 1 - k]] \/ \E k \in DOMAIN d : e = [d EXCEPT ![k] = <<>>]
    BY <1>3 DEF Drift
  <2>4. e \in [1 .. n -> Slide]
    <3>1. CASE e = [k \in DOMAIN d |-> d[Len(d) + 1 - k]]
      <4>1. \A k \in 1 .. n : n + 1 - k \in 1 .. n
        BY <2>2
      <4> QED
        BY <2>1, <2>2, <3>1, <4>1
    <3>2. ASSUME NEW k \in DOMAIN d, e = [d EXCEPT ![k] = <<>>]
          PROVE  e \in [1 .. n -> Slide]
      <4>1. <<>> \in [1 .. 0 -> Shape] /\ 0 \in 0 .. MaxParts
        BY PartsAssumption
      <4>2. PICK z \in Slide : z = <<>>
        BY <4>1 DEF Slide
      <4> QED
        BY <2>1, <3>2, <4>2
    <3> QED
      BY <2>3, <3>1, <3>2
  <2> QED
    BY <1>3, <2>4, DocsOf DEF Decks
<1>4. CASE h = "onenote"
  <2>1. PICK n \in 0 .. MaxParts : d \in [1 .. n -> Page]
    BY <1>4, DocsOf DEF Sections
  <2>2. PICK k \in DOMAIN d, x \in Texts : e = [d EXCEPT ![k].title = x]
    BY <1>4 DEF Drift
  <2>3. e \in [1 .. n -> Page]
    BY <2>1, <2>2 DEF Page
  <2> QED
    BY <1>4, <2>3, DocsOf DEF Sections
<1>5. CASE h = "outlook"
  <2>1. d \in Mails
    BY <1>5, DocsOf
  <2>2. PICK m \in {"none", "read", "compose"}, i \in Items :
           e = MailSelected(d, m, i)
    BY <1>5 DEF Drift
  <2>3. e \in Mails
    BY <2>1, <2>2 DEF Mails, MailSelected
  <2> QED
    BY <1>5, <2>3, DocsOf
<1> QED
  BY <1>1, <1>2, <1>3, <1>4, <1>5 DEF HostNames
-----------------------------------------------------------------------------
(* Every action preserves the invariant.                                   *)

\* What a process has when it has read the file.
LEMMA LoadStep ==
  ASSUME DiscInv, NEW p \in Procs, loadLocked(p), UNCHANGED <<host, disk, unsaved>>
  PROVE  /\ mem' \in [Procs -> Seq(Entries)] /\ loaded' \in [Procs -> BOOLEAN]
         /\ loaded'[p] /\ \A q \in Procs : loaded[q] => loaded'[q]
         /\ MemKnows' /\ CopyIsFile'
<1>1. DiscTyped /\ MemKnows /\ CopyIsFile
  BY DEF DiscInv
<1>2. CASE loaded[p]
  BY <1>1, <1>2 DEF loadLocked, DiscTyped, MemKnows, CopyIsFile
<1>3. CASE ~ loaded[p]
  <2>1. /\ loaded' = [loaded EXCEPT ![p] = TRUE]
        /\ \/ mem' = [mem EXCEPT ![p] = disk] /\ blind' = blind
           \/ blind' = blind \cup {p} /\ mem' = mem
    BY <1>3 DEF loadLocked
  <2>2. /\ mem' \in [Procs -> Seq(Entries)] /\ loaded' \in [Procs -> BOOLEAN]
        /\ loaded'[p] /\ \A q \in Procs : loaded[q] => loaded'[q]
        /\ \A q \in Procs \ {p} : loaded'[q] = loaded[q] /\ mem'[q] = mem[q]
        /\ mem'[p] = disk \/ p \in blind'
        /\ blind \subseteq blind'
    <3>1. CASE mem' = [mem EXCEPT ![p] = disk] /\ blind' = blind
      BY <1>1, <2>1, <3>1 DEF DiscTyped
    <3>2. CASE blind' = blind \cup {p} /\ mem' = mem
      BY <1>1, <2>1, <3>2 DEF DiscTyped
    <3> QED
      BY <2>1, <3>1, <3>2
  <2>3. MemKnows'
    BY <1>1, <2>2 DEF MemKnows
  <2>4. CopyIsFile'
    BY <1>1, <2>2 DEF CopyIsFile
  <2> QED
    BY <2>2, <2>3, <2>4
<1> QED
  BY <1>2, <1>3

\* Entries and looks do not change with the time.
LEMMA SameHost ==
  ASSUME host' = host
  PROVE  Entries' = Entries /\ Looks' = Looks
  BY DEF Entries, Looks

LEMMA RunDiscoverStep ==
  ASSUME DiscInv, NEW t \in Threads, RunDiscover(t)
  PROVE  DiscInv'
<1>1. DiscTyped /\ LookedFirst /\ MemKnows /\ CopyIsFile
  BY DEF DiscInv
<1>2. UNCHANGED <<host, open, docs, disk, mem, loaded, blind, unsaved, proc>>
  BY DEF RunDiscover, store
<1>3. PICK l \in Looks : seen' = [seen EXCEPT ![t] = l]
  <2>1. PICK force \in BOOLEAN :
           seen' = [seen EXCEPT ![t] = [file |-> open, data |-> Data(host, docs[open]),
                                        force |-> force]]
    BY DEF RunDiscover
  <2>2. Data(host, docs[open]) \in Datas(host) /\ open \in Files
    BY <1>1 DEF DiscTyped, Datas
  <2> QED
    BY <2>1, <2>2 DEF Looks
<1>4. pc' = [pc EXCEPT ![t] = "get"] /\ reply' = [reply EXCEPT ![t] = None]
  BY DEF RunDiscover, Goto, Answer
<1>5. DiscTyped'
  BY <1>1, <1>2, <1>3, <1>4, SameHost DEF DiscTyped
<1>6. LookedFirst'
  BY <1>1, <1>2, <1>3, <1>4, SameHost DEF DiscTyped, LookedFirst
<1>7. MemKnows' /\ CopyIsFile'
  BY <1>1, <1>2 DEF MemKnows, CopyIsFile
<1> QED
  BY <1>5, <1>6, <1>7 DEF DiscInv

LEMMA CacheGetStep ==
  ASSUME DiscInv, NEW t \in Threads, CacheGet(t)
  PROVE  DiscInv'
<1>1. DiscTyped /\ LookedFirst /\ MemKnows /\ CopyIsFile
  BY DEF DiscInv
<1>2. UNCHANGED <<host, open, docs, disk, unsaved, proc>> /\ pc[t] = "get"
  BY DEF CacheGet
<1>3. proc[t] \in Procs /\ seen[t] \in Looks
  BY <1>1, <1>2 DEF DiscTyped, LookedFirst
<1>4. /\ mem' \in [Procs -> Seq(Entries)] /\ loaded' \in [Procs -> BOOLEAN]
      /\ \A q \in Procs : loaded[q] => loaded'[q]
      /\ seen[t].file \in Cacheable => loaded'[proc[t]]
      /\ MemKnows' /\ CopyIsFile'
  <2>1. CASE seen[t].file \in Cacheable
    BY <1>2, <1>3, <2>1, LoadStep DEF CacheGet
  <2>2. CASE seen[t].file \notin Cacheable
    <3>1. UNCHANGED <<mem, loaded, blind>>
      BY <2>2 DEF CacheGet
    <3> QED
      BY <1>1, <1>2, <2>2, <3>1 DEF DiscTyped, MemKnows, CopyIsFile
  <2> QED
    BY <2>1, <2>2
<1>5. CASE pc' = [pc EXCEPT ![t] = "put"] /\ UNCHANGED <<seen, reply>>
  <2>1. DiscTyped'
    BY <1>1, <1>2, <1>4, <1>5, SameHost DEF DiscTyped
  <2>2. LookedFirst'
    BY <1>1, <1>2, <1>3, <1>4, <1>5, SameHost DEF DiscTyped, LookedFirst
  <2> QED
    BY <1>4, <2>1, <2>2 DEF DiscInv
<1>6. CASE \E e : discoverCacheHit(t, e)
  <2>1. PICK a : /\ pc' = [pc EXCEPT ![t] = "idle"] /\ seen' = [seen EXCEPT ![t] = None]
                 /\ reply' = [reply EXCEPT ![t] = a]
    BY <1>6 DEF discoverCacheHit, Return, Goto, Answer
  <2>2. DiscTyped'
    BY <1>1, <1>2, <1>4, <2>1, SameHost DEF DiscTyped
  <2>3. LookedFirst'
    BY <1>1, <1>2, <1>4, <2>1, SameHost DEF DiscTyped, LookedFirst
  <2> QED
    BY <1>4, <2>2, <2>3 DEF DiscInv
<1> QED
  BY <1>5, <1>6 DEF CacheGet, Goto

\* A hit is answered from the copy, and the copy is the file.
LEMMA HitStep ==
  ASSUME DiscInv, NEW t \in Threads, CacheGet(t),
         pc'[t] = "idle", proc[t] \notin blind' \cup unsaved'
  PROVE  \E k \in Entry(disk, seen[t].file) :
           /\ disk[k].data = reply'[t].snapshot
           /\ Fingerprint(host, disk[k].data) = Fingerprint(host, seen[t].data)
<1>1. DiscTyped /\ LookedFirst
  BY DEF DiscInv
<1>2. UNCHANGED <<host, disk, unsaved, proc>> /\ pc[t] = "get"
  BY DEF CacheGet
<1>3. proc[t] \in Procs
  BY <1>1 DEF DiscTyped
<1>4. PICK p \in Procs : p = proc[t]
  BY <1>3
<1>5. PICK f : f = seen[t].file
  OBVIOUS
<1>6. pc' # [pc EXCEPT ![t] = "put"]
  BY <1>1 DEF DiscTyped
<1>7. /\ f \in Cacheable /\ loadLocked(p) /\ Has(mem'[p], f)
      /\ cacheFresh(Get(mem'[p], f).data, seen[t].data, seen[t].force)
      /\ discoverCacheHit(t, Get(mem'[p], f))
  BY <1>4, <1>5, <1>6 DEF CacheGet, Goto
<1>8. mem'[p] = disk
  <2>1. CopyIsFile' /\ loaded'[p]
    BY <1>2, <1>7, LoadStep
  <2> QED
    BY <1>2, <1>4, <2>1 DEF CopyIsFile
<1>9. PICK k \in Entry(disk, f) : Get(mem'[p], f) = disk[k]
  BY <1>7, <1>8 DEF Has, Get
<1>10. reply'[t].snapshot = disk[k].data
  <2>1. reply' = [reply EXCEPT ![t] = [kind |-> "hit", snapshot |-> disk[k].data]]
    BY <1>7, <1>9 DEF discoverCacheHit, Return, Answer
  <2> QED
    BY <1>1, <2>1 DEF DiscTyped
<1>11. Fingerprint(host, disk[k].data) = Fingerprint(host, seen[t].data)
  BY <1>7, <1>9 DEF cacheFresh
<1> QED
  BY <1>5, <1>10, <1>11

LEMMA RefreshStep ==
  ASSUME DiscInv, NEW t \in Threads, discoverRefresh(t)
  PROVE  /\ DiscInv'
         /\ \A f \in Files : Has(disk, f) /\ ~ Has(disk', f) =>
              pc[t] = "put" /\ pc'[t] = "idle" /\ proc[t] \in blind
<1>1. DiscTyped /\ LookedFirst /\ MemKnows /\ CopyIsFile
  BY DEF DiscInv
<1>2. /\ UNCHANGED <<host, open, docs, loaded, proc>> /\ pc[t] = "put"
      /\ pc' = [pc EXCEPT ![t] = "idle"] /\ seen' = [seen EXCEPT ![t] = None]
      /\ reply' = [reply EXCEPT ![t] = None]
  BY DEF discoverRefresh, Return, Goto, Answer
<1>3. proc[t] \in Procs /\ seen[t] \in Looks /\ pc'[t] = "idle"
        /\ mem[proc[t]] \in Seq(Entries)
  BY <1>1, <1>2 DEF DiscTyped, LookedFirst
<1>4. LookedFirst'
  BY <1>1, <1>2, SameHost DEF DiscTyped, LookedFirst
<1>5. CASE seen[t].file \notin Cacheable
  <2>1. UNCHANGED <<disk, mem, blind, unsaved>>
    BY <1>5 DEF discoverRefresh
  <2>2. DiscTyped' /\ MemKnows' /\ CopyIsFile'
    BY <1>1, <1>2, <2>1, SameHost DEF DiscTyped, MemKnows, CopyIsFile
  <2> QED
    BY <1>4, <2>1, <2>2 DEF DiscInv
<1>6. CASE seen[t].file \in Cacheable
  <2>1. PICK e \in Entries : e = [file |-> seen[t].file, data |-> seen[t].data]
    BY <1>3 DEF Looks, Entries
  <2>2. PICK s \in Seq(Entries) : s = Put(mem[proc[t]], e)
    BY <1>3, PutKeeps
  <2>3. \A f : Has(mem[proc[t]], f) => Has(s, f)
    BY <1>3, <2>2, PutKeeps
  <2>4. mem' = [mem EXCEPT ![proc[t]] = s] /\ saveLocked(proc[t], mem'[proc[t]])
    BY <1>6, <2>1, <2>2 DEF discoverRefresh
  <2>5. mem' \in [Procs -> Seq(Entries)] /\ mem'[proc[t]] = s
          /\ \A q \in Procs \ {proc[t]} : mem'[q] = mem[q]
    BY <1>1, <1>3, <2>4 DEF DiscTyped
  <2>6. loaded[proc[t]]
    BY <1>1, <1>2, <1>6 DEF LookedFirst
  <2>7. CASE unsaved' = unsaved \cup {proc[t]} /\ UNCHANGED <<disk, blind>>
    <3>1. DiscTyped'
      BY <1>1, <1>2, <2>5, <2>7, SameHost DEF DiscTyped
    <3>2. MemKnows'
      BY <1>1, <1>2, <1>3, <2>3, <2>5, <2>7 DEF MemKnows
    <3>3. CopyIsFile'
      BY <1>1, <1>2, <2>5, <2>7 DEF CopyIsFile
    <3> QED
      BY <1>4, <2>7, <3>1, <3>2, <3>3 DEF DiscInv
  <2>8. CASE /\ disk' = s
             /\ blind' = (blind \ {proc[t]}) \cup {q \in Procs \ {proc[t]} : loaded[q]}
             /\ unsaved' = unsaved \ {proc[t]}
    <3>1. DiscTyped'
      BY <1>1, <1>2, <2>5, <2>8, SameHost DEF DiscTyped
    <3>2. MemKnows' /\ CopyIsFile'
      BY <1>2, <2>5, <2>8 DEF MemKnows, CopyIsFile
    <3>3. \A f \in Files : Has(disk, f) /\ proc[t] \notin blind => Has(disk', f)
      BY <1>1, <1>3, <2>3, <2>6, <2>8 DEF MemKnows
    <3> QED
      BY <1>2, <1>3, <1>4, <3>1, <3>2, <3>3 DEF DiscInv
  <2> QED
    BY <2>4, <2>5, <2>7, <2>8 DEF saveLocked
<1> QED
  BY <1>5, <1>6

LEMMA RunPayloadStep ==
  ASSUME DiscInv, NEW t \in Threads, RunPayload(t)
  PROVE  DiscInv'
<1>1. DiscTyped /\ LookedFirst /\ MemKnows /\ CopyIsFile
  BY DEF DiscInv
<1>2. /\ UNCHANGED <<host, open, disk, mem, loaded, blind, unsaved, proc, seen>>
      /\ pc[t] = "idle"
      /\ reply' = [reply EXCEPT ![t] = None]
      /\ pc' = pc \/ pc' = [pc EXCEPT ![t] = "enrich"]
  BY DEF RunPayload, Called, Answer, Goto, store
<1>3. PICK d \in Docs(host) : docs' = [docs EXCEPT ![open] = d]
  BY DEF RunPayload
<1>4. DiscTyped'
  BY <1>1, <1>2, <1>3, SameHost DEF DiscTyped
<1>5. LookedFirst'
  BY <1>1, <1>2, SameHost DEF DiscTyped, LookedFirst
<1>6. MemKnows' /\ CopyIsFile'
  BY <1>1, <1>2 DEF MemKnows, CopyIsFile
<1> QED
  BY <1>4, <1>5, <1>6 DEF DiscInv

LEMMA HintStep ==
  ASSUME DiscInv, NEW t \in Threads, classifyOfficeJSErr(t)
  PROVE  DiscInv'
<1>1. DiscTyped /\ LookedFirst /\ MemKnows /\ CopyIsFile
  BY DEF DiscInv
<1>2. /\ UNCHANGED <<host, open, docs, disk, unsaved, proc>> /\ pc[t] = "enrich"
      /\ loadLocked(proc[t])
      /\ (\E s : Return(t, [kind |-> "hint", hint |-> s])) \/ Return(t, None)
  BY DEF classifyOfficeJSErr
<1>3. /\ mem' \in [Procs -> Seq(Entries)] /\ loaded' \in [Procs -> BOOLEAN]
      /\ \A q \in Procs : loaded[q] => loaded'[q]
      /\ MemKnows' /\ CopyIsFile'
  <2>1. proc[t] \in Procs
    BY <1>1 DEF DiscTyped
  <2> QED
    BY <1>2, <2>1, LoadStep
<1>4. PICK a : /\ reply' = [reply EXCEPT ![t] = a]
               /\ pc' = [pc EXCEPT ![t] = "idle"] /\ seen' = [seen EXCEPT ![t] = None]
  BY <1>2 DEF Return, Goto, Answer
<1>5. DiscTyped'
  BY <1>1, <1>2, <1>3, <1>4, SameHost DEF DiscTyped
<1>6. LookedFirst'
  BY <1>1, <1>2, <1>3, <1>4, SameHost DEF DiscTyped, LookedFirst
<1> QED
  BY <1>3, <1>5, <1>6 DEF DiscInv

LEMMA UserStep ==
  ASSUME DiscInv, UserActs
  PROVE  DiscInv'
<1>1. DiscTyped /\ LookedFirst /\ MemKnows /\ CopyIsFile
  BY DEF DiscInv
<1>2. UNCHANGED <<host, disk, mem, loaded, blind, unsaved, proc, pc, seen, reply>>
  BY DEF UserActs, store
<1>3. open' \in Files /\ docs' \in [Files -> Docs(host)]
  <2>1. CASE open' \in Files \ {open} /\ docs' = docs
    BY <1>1, <2>1 DEF DiscTyped
  <2>2. ASSUME NEW d \in Drift(host, docs[open]), docs' = [docs EXCEPT ![open] = d],
               open' = open
        PROVE  open' \in Files /\ docs' \in [Files -> Docs(host)]
    <3>1. d \in Docs(host)
      BY <1>1, DriftIsDoc DEF DiscTyped
    <3> QED
      BY <1>1, <2>2, <3>1 DEF DiscTyped
  <2> QED
    BY <2>1, <2>2 DEF UserActs
<1>4. DiscTyped'
  BY <1>1, <1>2, <1>3, SameHost DEF DiscTyped
<1>5. LookedFirst' /\ MemKnows' /\ CopyIsFile'
  BY <1>1, <1>2, SameHost DEF LookedFirst, MemKnows, CopyIsFile
<1> QED
  BY <1>4, <1>5 DEF DiscInv

LEMMA RestartStep ==
  ASSUME DiscInv, NEW p \in Procs, Restart(p)
  PROVE  DiscInv'
<1>1. DiscTyped /\ LookedFirst /\ MemKnows /\ CopyIsFile
  BY DEF DiscInv
<1>2. /\ UNCHANGED <<host, open, docs, disk, proc>>
      /\ loaded' = [loaded EXCEPT ![p] = FALSE] /\ mem' = [mem EXCEPT ![p] = <<>>]
      /\ blind' = blind \ {p} /\ unsaved' = unsaved \ {p}
      /\ pc' = [t \in Threads |-> IF proc[t] = p THEN "idle" ELSE pc[t]]
      /\ reply' = [t \in Threads |-> IF proc[t] = p THEN None ELSE reply[t]]
      /\ seen' = [t \in Threads |-> IF proc[t] = p THEN None ELSE seen[t]]
  BY DEF Restart
<1>3. mem' \in [Procs -> Seq(Entries)]
  BY <1>1, <1>2, EmptySeq DEF DiscTyped
<1>4. DiscTyped'
  BY <1>1, <1>2, <1>3, SameHost DEF DiscTyped
<1>5. LookedFirst'
  BY <1>1, <1>2, SameHost DEF DiscTyped, LookedFirst
<1>6. MemKnows'
  BY <1>1, <1>2 DEF DiscTyped, MemKnows
<1>7. CopyIsFile'
  BY <1>1, <1>2 DEF DiscTyped, CopyIsFile
<1> QED
  BY <1>4, <1>5, <1>6, <1>7 DEF DiscInv

LEMMA DiscInitially == Init => DiscInv
<1> SUFFICES ASSUME Init PROVE DiscInv
  OBVIOUS
<1>1. host \in HostNames /\ open \in Files
  BY DiscoveryAssumption DEF Init
<1>2. Fresh(host) \in Docs(host)
  BY <1>1, FreshIsDoc
<1>3. /\ docs = [f \in Files |-> Fresh(host)] /\ disk = <<>>
      /\ mem = [p \in Procs |-> <<>>] /\ loaded = [p \in Procs |-> FALSE]
      /\ proc \in [Threads -> Procs] /\ pc = [t \in Threads |-> "idle"]
      /\ seen = [t \in Threads |-> None] /\ reply = [t \in Threads |-> None]
  BY DEF Init
<1>4. DiscTyped
  BY <1>1, <1>2, <1>3, EmptySeq DEF DiscTyped
<1>5. LookedFirst /\ MemKnows /\ CopyIsFile
  BY <1>3 DEF LookedFirst, MemKnows, CopyIsFile
<1> QED
  BY <1>4, <1>5 DEF DiscInv

LEMMA DiscFrame ==
  ASSUME DiscInv, UNCHANGED vars
  PROVE  DiscInv'
<1>1. UNCHANGED <<host, open, docs, disk, mem, loaded, blind, unsaved, proc, pc, seen,
                  reply>>
  BY DEF vars
<1>2. DiscTyped' /\ LookedFirst'
  BY <1>1, SameHost DEF DiscInv, DiscTyped, LookedFirst
<1>3. MemKnows' /\ CopyIsFile'
  BY <1>1 DEF DiscInv, MemKnows, CopyIsFile
<1> QED
  BY <1>2, <1>3 DEF DiscInv

LEMMA DiscInvariance == Spec => []DiscInv
<1>1. DiscInv /\ [Next]_vars => DiscInv'
  <2> SUFFICES ASSUME DiscInv, [Next]_vars PROVE DiscInv'
    OBVIOUS
  <2>1. ASSUME NEW t \in Threads,
               RunDiscover(t) \/ CacheGet(t) \/ discoverRefresh(t) \/ RunPayload(t)
                 \/ classifyOfficeJSErr(t)
        PROVE  DiscInv'
    BY <2>1, RunDiscoverStep, CacheGetStep, RefreshStep, RunPayloadStep, HintStep
  <2>2. CASE UserActs
    BY <2>2, UserStep
  <2>3. ASSUME NEW p \in Procs, Restart(p) PROVE DiscInv'
    BY <2>3, RestartStep
  <2>4. CASE UNCHANGED vars
    BY <2>4, DiscFrame
  <2> QED
    BY <2>1, <2>2, <2>3, <2>4 DEF Next
<1> QED
  BY <1>1, DiscInitially, PTL DEF Spec

\* A snapshot that discover returns from the store is the one that was saved
\* last for the document, by whatever process, and agrees with the document in
\* what the fingerprint counts, unless the process has missed a write or failed
\* in its own last one (discover.go:79-93, store.go:118, 196, 232).
THEOREM HitIsSaved == Spec => HitIsLatestSaved
<1>1. DiscInv /\ [Next]_vars =>
        [\A t \in Threads :
           pc[t] = "get" /\ pc'[t] = "idle" /\ reply'[t].kind = "hit" =>
             \/ proc[t] \in blind' \cup unsaved'
             \/ \E k \in Entry(disk, seen[t].file) :
                  /\ disk[k].data = reply'[t].snapshot
                  /\ Fingerprint(host, disk[k].data) = Fingerprint(host, seen[t].data)]_vars
  <2> SUFFICES ASSUME DiscInv, Next, NEW t \in Threads,
                      pc[t] = "get", pc'[t] = "idle", reply'[t].kind = "hit",
                      proc[t] \notin blind' \cup unsaved'
               PROVE  \E k \in Entry(disk, seen[t].file) :
                        /\ disk[k].data = reply'[t].snapshot
                        /\ Fingerprint(host, disk[k].data) = Fingerprint(host, seen[t].data)
    OBVIOUS
  <2>1. pc \in [Threads -> {"idle", "get", "put", "enrich"}] /\ DOMAIN reply = Threads
    BY DEF DiscInv, DiscTyped
  <2>2. ASSUME NEW u \in Threads,
               RunDiscover(u) \/ discoverRefresh(u) \/ RunPayload(u) \/ classifyOfficeJSErr(u)
        PROVE  pc'[t] # "idle"
    <3>1. CASE u = t
      BY <2>1, <2>2, <3>1 DEF RunDiscover, Called, discoverRefresh, RunPayload,
                              classifyOfficeJSErr
    <3>2. CASE u # t
      BY <2>1, <2>2, <3>2 DEF RunDiscover, discoverRefresh, RunPayload,
                              classifyOfficeJSErr, Return, Goto
    <3> QED
      BY <3>1, <3>2
  <2>3. ASSUME NEW u \in Threads, CacheGet(u) PROVE u = t
    BY <2>1, <2>3 DEF CacheGet, discoverCacheHit, Return, Goto
  <2>4. CASE UserActs
    BY <2>4 DEF UserActs
  <2>5. ASSUME NEW p \in Procs, Restart(p) PROVE FALSE
    <3>1. reply' = [u \in Threads |-> IF u \in {v \in Threads : proc[v] = p}
                                        THEN None ELSE reply[u]]
      BY <2>5 DEF Restart
    <3>2. pc' = [u \in Threads |-> IF u \in {v \in Threads : proc[v] = p}
                                     THEN "idle" ELSE pc[u]]
      BY <2>5 DEF Restart
    <3> QED
      BY <3>1, <3>2 DEF None
  <2> QED
    BY <2>2, <2>3, <2>4, <2>5, HitStep DEF Next
<1> QED
  BY <1>1, DiscInvariance, PTL DEF Spec, HitIsLatestSaved

\* What is saved for a document is only lost from the file when it is written
\* by a process that could not read it, or that read it before another process
\* wrote it (store.go:196, 232).
THEOREM SavedKept == Spec => SavedIsKept
<1>1. DiscInv /\ [Next]_vars =>
        [\A f \in Files :
           Has(disk, f) /\ ~ Has(disk', f) =>
             \E t \in Threads : pc[t] = "put" /\ pc'[t] = "idle" /\ proc[t] \in blind]_vars
  <2> SUFFICES ASSUME DiscInv, Next, NEW f \in Files, Has(disk, f), ~ Has(disk', f)
               PROVE  \E t \in Threads : pc[t] = "put" /\ pc'[t] = "idle" /\ proc[t] \in blind
    OBVIOUS
  <2>1. ASSUME NEW t \in Threads,
               RunDiscover(t) \/ CacheGet(t) \/ RunPayload(t) \/ classifyOfficeJSErr(t)
        PROVE  disk' = disk
    BY <2>1 DEF RunDiscover, CacheGet, RunPayload, classifyOfficeJSErr, store
  <2>2. CASE UserActs \/ \E p \in Procs : Restart(p)
    BY <2>2 DEF UserActs, Restart, store
  <2>3. ASSUME NEW t \in Threads, discoverRefresh(t)
        PROVE  pc[t] = "put" /\ pc'[t] = "idle" /\ proc[t] \in blind
    BY <2>3, RefreshStep
  <2> QED
    BY <2>1, <2>2, <2>3 DEF Next
<1> QED
  BY <1>1, DiscInvariance, PTL DEF Spec, SavedIsKept
-----------------------------------------------------------------------------
(* Tools that say that they destroy nothing.                               *)

LEMMA MembersOf ==
  /\ Members(<<>>) = {}
  /\ \A a : Members(<<a>>) = a
  /\ \A a, b : Members(<<a, b>>) = a \cup b
  /\ \A a, b, c : Members(<<a, b, c>>) = a \cup b \cup c
  /\ \A a, b, c, e : Members(<<a, b, c, e>>) = a \cup b \cup c \cup e
<1>1. ASSUME NEW a PROVE Members(<<a>>) = a
  BY DEF Members
<1>2. ASSUME NEW a, NEW b PROVE Members(<<a, b>>) = a \cup b
  <2>1. DOMAIN <<a, b>> = {1, 2}
    OBVIOUS
  <2> QED
    BY <2>1 DEF Members
<1>3. ASSUME NEW a, NEW b, NEW c, NEW e
      PROVE  Members(<<a, b, c, e>>) = a \cup b \cup c \cup e
  <2>1. DOMAIN <<a, b, c, e>> = {1, 2, 3, 4}
    OBVIOUS
  <2>2. \A s : (DOMAIN s = {1, 2, 3, 4} =>
                  Members(s) = s[1] \cup s[2] \cup s[3] \cup s[4])
    BY DEF Members
  <2> QED
    BY <2>1, <2>2
<1>4. Members(<<>>) = {}
  BY DEF Members
<1>5. ASSUME NEW a, NEW b, NEW c PROVE Members(<<a, b, c>>) = a \cup b \cup c
  <2>1. DOMAIN <<a, b, c>> = {1, 2, 3}
    OBVIOUS
  <2> QED
    BY <2>1 DEF Members
<1> QED
  BY <1>1, <1>2, <1>3, <1>4, <1>5

LEMMA MemberOf ==
  ASSUME NEW s, NEW o \in Members(s)
  PROVE  /\ \A a, b : s = <<a, b>> => o \in a \cup b
         /\ \A a, b, c, e : s = <<a, b, c, e>> => o \in a \cup b \cup c \cup e
<1>1. ASSUME NEW a, NEW b, s = <<a, b>> PROVE o \in a \cup b
  <2>1. Members(<<a, b>>) = a \cup b
    BY MembersOf
  <2>2. Members(s) = a \cup b
    BY <1>1, <2>1
  <2> QED
    BY <2>2
<1>2. ASSUME NEW a, NEW b, NEW c, NEW e, s = <<a, b, c, e>>
      PROVE  o \in a \cup b \cup c \cup e
  <2>1. Members(<<a, b, c, e>>) = a \cup b \cup c \cup e
    BY MembersOf
  <2>2. Members(s) = a \cup b \cup c \cup e
    BY <1>2, <2>1
  <2> QED
    BY <2>2
<1> QED
  BY <1>1, <1>2

\* createTable, activateWorksheet and createWorksheet (exceltool).
LEMMA BookToolsKeep ==
  ASSUME NEW b \in Books, NEW w \in Named, NEW o \in Members(ExcelAdditive(b, w))
  PROVE  BookKept(b, o.doc)
<1>1. o \in createTable(b, w, TRUE) \cup createTable(b, w, FALSE)
             \cup activateWorksheet(b, w) \cup createWorksheet(b, w)
  <2>1. CASE w = NoSheet
    <3>1. ExcelAdditive(b, w) = <<createTable(b, w, TRUE), createTable(b, w, FALSE)>>
      BY <2>1 DEF ExcelAdditive
    <3>2. \A a, c : ExcelAdditive(b, w) = <<a, c>> => o \in a \cup c
      BY MemberOf
    <3> QED
      BY <3>1, <3>2
  <2>2. CASE w # NoSheet
    <3>1. ExcelAdditive(b, w) =
            <<createTable(b, w, TRUE), createTable(b, w, FALSE), activateWorksheet(b, w),
              createWorksheet(b, w)>>
      BY <2>2 DEF ExcelAdditive
    <3>2. \A a, c, e, f : ExcelAdditive(b, w) = <<a, c, e, f>> => o \in a \cup c \cup e \cup f
      BY MemberOf
    <3> QED
      BY <3>1, <3>2
  <2> QED
    BY <2>1, <2>2
<1>2. BookKept(b, b)
  BY DEF BookKept
<1>3. CASE o.doc = b
  BY <1>2, <1>3
<1>4. ASSUME NEW headers \in BOOLEAN, o \in createTable(b, w, headers)
      PROVE  BookKept(b, o.doc)
  <2>1. CASE o.doc = b
    BY <1>2, <2>1
  <2>2. CASE o.doc # b
    <3>1. PICK c : /\ c = [b EXCEPT !.tables = @ \cup {On(b, w)},
                                    !.headed = IF headers /\ b.cells[On(b, w)] # Blank
                                                 THEN @ ELSE @ \cup {On(b, w)}]
                   /\ o \in Ok(c) \cup Error(c, "InvalidArgument")
      BY <1>4, <2>2 DEF createTable, Error
    <3>2. o.doc = c
      BY <3>1 DEF Ok, Error
    <3>3. /\ c.sheets = b.sheets /\ c.cells = b.cells /\ b.tables \subseteq c.tables
          /\ b.headed \subseteq c.headed
      BY <3>1 DEF Books
    <3> QED
      BY <3>2, <3>3 DEF BookKept
  <2> QED
    BY <2>1, <2>2
<1>5. CASE o.doc = [b EXCEPT !.active = w]
  BY <1>5 DEF BookKept, Books
<1>6. CASE o.doc = [b EXCEPT !.sheets = @ \cup {w}]
  BY <1>6 DEF BookKept, Books
<1>7. CASE o \in activateWorksheet(b, w)
  BY <1>3, <1>5, <1>7 DEF activateWorksheet, Ok, Error
<1>8. CASE o \in createWorksheet(b, w)
  BY <1>3, <1>6, <1>8 DEF createWorksheet, Ok, Error
<1> QED
  BY <1>1, <1>4, <1>7, <1>8

\* insertParagraph (wordtool).
LEMMA PaperToolsKeep ==
  ASSUME NEW d \in Papers, NEW x \in Texts, NEW l,
         NEW o \in insertParagraph(d, x, l)
  PROVE  Kept("word", d, o.doc)
<1>1. PICK n \in 0 .. MaxParts : d.body \in [1 .. n -> Texts]
  BY DEF Papers
<1>2. n \in Nat
  BY PartsAssumption
<1>3. d.body \in Seq(Texts) /\ Len(d.body) = n /\ DOMAIN d.body = 1 .. n
  BY <1>1, <1>2
<1>4. PICK e : /\ o.doc.body = e
               /\ \/ e = <<x>> \o d.body \/ e = d.body \o <<x>>
                  \/ e = d.body
  BY DEF insertParagraph, NewBody, Ok, Error
<1>5. PICK c \in Seq(Texts) : c = <<x>> /\ Len(c) = 1 /\ c[1] = x
  <2>1. <<x>> \in Seq(Texts) /\ Len(<<x>>) = 1 /\ <<x>>[1] = x
    OBVIOUS
  <2> QED
    BY <2>1
<1>6. CASE e = c \o d.body
  <2>1. Len(e) = n + 1 /\ \A j \in 1 .. n : e[1 + j] = d.body[j]
    BY <1>2, <1>3, <1>5, <1>6, ConcatProperties
  <2>2. 1 \in 0 .. Len(e) - Len(d.body)
    BY <1>2, <1>3, <2>1
  <2> QED
    BY <1>3, <1>4, <2>1, <2>2 DEF Kept
<1>7. CASE e = d.body \o c
  <2>1. Len(e) = n + 1 /\ \A j \in 1 .. n : e[0 + j] = d.body[j]
    BY <1>2, <1>3, <1>5, <1>7, ConcatProperties
  <2>2. 0 \in 0 .. Len(e) - Len(d.body)
    BY <1>2, <1>3, <2>1
  <2> QED
    BY <1>3, <1>4, <2>1, <2>2 DEF Kept
<1>8. CASE e = d.body
  <2>1. \A j \in 1 .. n : e[0 + j] = d.body[j]
    BY <1>2, <1>8
  <2>2. 0 \in 0 .. Len(e) - Len(d.body)
    BY <1>2, <1>3, <1>8
  <2> QED
    BY <1>3, <1>4, <2>1, <2>2 DEF Kept
<1> QED
  BY <1>4, <1>5, <1>6, <1>7, <1>8

\* addSlide (powerpointtool) and office.embed.
LEMMA DeckToolsKeep ==
  ASSUME NEW d \in Decks, NEW w \in Named, NEW i \in Indices, NEW b,
         NEW o \in addSlide(d) \cup embed(b, d, w, i)
  PROVE  Kept("powerpoint", d, o.doc)
<1>1. PICK n \in 0 .. MaxParts : d \in [1 .. n -> Slide]
  BY DEF Decks
<1>2. n \in Nat /\ MaxParts \in Nat
  BY PartsAssumption
<1>3. d \in Seq(Slide) /\ Len(d) = n /\ DOMAIN d = 1 .. n
        /\ \A k \in 1 .. n : d[k] \in Slide
  BY <1>1, <1>2
<1>4. ASSUME NEW e, Len(e) >= n,
             \A k \in 1 .. n : \A j \in DOMAIN d[k] :
               j \in DOMAIN e[k] /\ e[k][j] = d[k][j]
      PROVE  Kept("powerpoint", d, e)
  BY <1>3, <1>4 DEF Kept
<1>5. Kept("powerpoint", d, d)
  BY <1>2, <1>3, <1>4
<1>6. CASE o \in addSlide(d)
  <2>1. PICK s \in Slide : o.doc = Append(d, s)
    BY <1>6 DEF addSlide, Layouts, Ok
  <2>2. Len(o.doc) = n + 1 /\ \A k \in 1 .. n : o.doc[k] = d[k]
    BY <1>3, <2>1, AppendProperties
  <2> QED
    BY <1>2, <1>3, <1>4, <2>2
<1>7. CASE o \in embed(b, d, w, i)
  <2> DEFINE z == [like |-> {}, text |-> b.cells[On(b, w)]]
             new == [k \in DOMAIN d |-> IF k = i + 1 THEN Append(d[k], z) ELSE d[k]]
  <2>1. \/ o \in {[doc |-> d, code |-> q.code] : q \in {r \in readRange(b, w) : r.code # "ok"}}
        \/ o \in OnSlide(d, i, new)
    BY <1>7 DEF embed
  <2>2. o.doc = d \/ o.doc = new
    <3> HIDE DEF new
    <3> QED
      BY <2>1 DEF OnSlide, Ok, Error
  <2> HIDE DEF z
  <2>3. CASE o.doc = [k \in 1 .. n |-> IF k = i + 1 THEN Append(d[k], z) ELSE d[k]]
    <3>1. Len(o.doc) = n
      BY <1>2, <2>3
    <3>2. ASSUME NEW k \in 1 .. n, NEW j \in DOMAIN d[k]
          PROVE  j \in DOMAIN o.doc[k] /\ o.doc[k][j] = d[k][j]
      <4>1. CASE o.doc[k] = d[k]
        BY <4>1
      <4>2. CASE o.doc[k] = Append(d[k], z)
        <5>1. PICK m \in 0 .. MaxParts : d[k] \in [1 .. m -> Shape]
          BY <1>3 DEF Slide
        <5>2. PICK s \in Seq(Shape \cup {z}) : s = d[k] /\ Len(s) = m /\ DOMAIN s = 1 .. m
          <6>1. d[k] \in Seq(Shape \cup {z}) /\ Len(d[k]) = m
            BY <1>2, <5>1
          <6> QED
            BY <5>1, <6>1
        <5>3. z \in Shape \cup {z}
          OBVIOUS
        <5>4. /\ Append(s, z) \in Seq(Shape \cup {z}) /\ Len(Append(s, z)) = m + 1
              /\ \A q \in 1 .. m : Append(s, z)[q] = s[q]
          BY <5>2, <5>3, AppendProperties
        <5>5. DOMAIN Append(s, z) = 1 .. m + 1 /\ m \in Nat
          BY <1>2, <5>2, <5>4, LenProperties
        <5> QED
          BY <4>2, <5>2, <5>4, <5>5
      <4> QED
        BY <2>3, <4>1, <4>2
    <3> QED
      BY <1>2, <1>4, <3>1, <3>2
  <2> QED
    BY <1>3, <1>5, <2>2, <2>3
<1> QED
  BY <1>6, <1>7

\* addPage and appendToPage (onenotetool).
LEMMA SectionToolsKeep ==
  ASSUME NEW d \in Sections, NEW x \in Texts,
         NEW h \in Texts \cup {Blank}, NEW u \in Texts \cup {Blank}, NEW i \in Indices,
         NEW o \in addPage(d, x) \cup appendToPage(d, i, h, u)
  PROVE  Kept("onenote", d, o.doc)
<1>1. PICK n \in 0 .. MaxParts : d \in [1 .. n -> Page]
  BY DEF Sections
<1>2. n \in Nat /\ MaxParts \in Nat
  BY PartsAssumption
<1>3. d \in Seq(Page) /\ Len(d) = n /\ DOMAIN d = 1 .. n /\ \A k \in 1 .. n : d[k] \in Page
  BY <1>1, <1>2
<1>4. ASSUME NEW e, Len(e) >= n,
             \A k \in 1 .. n : /\ e[k].title = d[k].title
                               /\ \A j \in DOMAIN d[k].outlines :
                                    e[k].outlines[j] = d[k].outlines[j]
      PROVE  Kept("onenote", d, e)
  BY <1>3, <1>4 DEF Kept
<1>5. Kept("onenote", d, d)
  BY <1>2, <1>3, <1>4
<1>6. CASE o \in addPage(d, x)
  <2>1. o.doc = Append(d, [title |-> x, outlines |-> <<>>])
    BY <1>6 DEF addPage, Ok
  <2>2. PICK s \in Page : s = [title |-> x, outlines |-> <<>>]
    <3>1. <<>> \in [1 .. 0 -> Texts] /\ 0 \in 0 .. MaxParts
      BY <1>2
    <3> QED
      BY <3>1 DEF Page
  <2>3. Len(o.doc) = n + 1 /\ \A k \in 1 .. n : o.doc[k] = d[k]
    BY <1>3, <2>1, <2>2, AppendProperties
  <2> QED
    BY <1>2, <1>4, <2>3
<1>7. CASE o \in appendToPage(d, i, h, u) /\ o.doc # d
  <2> DEFINE new == Outline(h) \o Outline(u)
             New(q) == [d EXCEPT ![q].outlines = @ \o new]
  <2>1. new \in Seq(Texts)
    <3>1. Outline(h) \in Seq(Texts) /\ Outline(u) \in Seq(Texts)
      BY EmptySeq DEF Outline
    <3> QED
      BY <3>1, ConcatProperties
  <2>2. PICK q \in DOMAIN d : o \in Ok(New(q))
    <3>1. o \in UNION {Ok(New(k)) : k \in IF i # 0 THEN {i} \cap DOMAIN d ELSE DOMAIN d}
      <4>1. \A c : o \notin Error(d, c)
        BY <1>7 DEF Error
      <4>2. o \notin Ok(d)
        BY <1>7 DEF Ok
      <4> QED
        BY <1>7, <4>1, <4>2 DEF appendToPage
    <3> HIDE DEF New
    <3> QED
      BY <3>1
  <2> HIDE DEF new
  <2>3. o.doc = [d EXCEPT ![q].outlines = @ \o new]
    <3>1. \A e : o \in Ok(e) => o.doc = e
      BY DEF Ok
    <3> QED
      BY <2>2, <3>1, Zenon
  <2>4. PICK a \in Seq(Texts) : a = d[q].outlines
    <3>1. PICK m \in 0 .. MaxParts : d[q].outlines \in [1 .. m -> Texts]
      BY <1>3, <2>2 DEF Page
    <3>2. m \in Nat
      BY <1>2
    <3> QED
      BY <3>1, <3>2
  <2>5. \A j \in DOMAIN a : (a \o new)[j] = a[j]
    BY <2>1, <2>4, ConcatProperties, LenProperties
  <2>6. /\ DOMAIN o.doc = 1 .. n /\ Len(o.doc) = n
        /\ \A k \in 1 .. n : o.doc[k].title = d[k].title
        /\ \A k \in 1 .. n \ {q} : o.doc[k] = d[k]
        /\ o.doc[q].outlines = a \o new
    BY <1>1, <1>2, <1>3, <2>3, <2>4 DEF Page
  <2>7. ASSUME NEW k \in 1 .. n
        PROVE  /\ o.doc[k].title = d[k].title
               /\ \A j \in DOMAIN d[k].outlines :
                    o.doc[k].outlines[j] = d[k].outlines[j]
    BY <2>4, <2>5, <2>6
  <2> QED
    BY <1>2, <1>4, <2>6, <2>7
<1> QED
  BY <1>5, <1>6, <1>7

\* DestructiveHint: false: a tool so annotated loses nothing that stands in the
\* document, whatever becomes of the call (exceltool/table.go:38,
\* wordtool/document.go:142, powerpointtool/presentation.go, officetool/embed.go:91,
\* onenotetool/append_to_page.go:40).
THEOREM AdditiveToolsKeep == Spec => []AdditiveToolsKeepContent
<1>1. ASSUME NEW h \in HostNames, NEW d \in Docs(h), NEW x \in Texts, NEW w \in Named,
             NEW i \in Indices, NEW o \in Members(Additive(h, d, x, w, i))
      PROVE  Kept(h, d, o.doc)
  <2>1. CASE h = "excel"
    <3>1. d \in Books /\ o \in Members(ExcelAdditive(d, w))
      BY <1>1, <2>1, DocsOf DEF Additive
    <3> QED
      BY <2>1, <3>1, BookToolsKeep DEF Kept
  <2>2. CASE h = "word"
    <3>1. Additive(h, d, x, w, i) =
            <<insertParagraph(d, x, "Start"), insertParagraph(d, x, ""),
              insertParagraph(d, x, "Before"), insertParagraph(d, x, "After")>>
      BY <2>2 DEF Additive
    <3>2. \E l : o \in insertParagraph(d, x, l)
      <4>1. \A a, b, c, e : Additive(h, d, x, w, i) = <<a, b, c, e>> =>
               o \in a \cup b \cup c \cup e
        BY MemberOf
      <4>2. o \in insertParagraph(d, x, "Start") \cup insertParagraph(d, x, "")
                   \cup insertParagraph(d, x, "Before") \cup insertParagraph(d, x, "After")
        BY <3>1, <4>1
      <4> QED
        BY <4>2
    <3>3. d \in Papers
      BY <2>2, DocsOf
    <3> QED
      BY <2>2, <3>2, <3>3, PaperToolsKeep
  <2>3. CASE h = "powerpoint"
    <3>1. Additive(h, d, x, w, i) = <<addSlide(d), embed(Fresh("excel"), d, w, i)>>
      BY <2>3 DEF Additive
    <3>2. o \in addSlide(d) \cup embed(Fresh("excel"), d, w, i)
      BY <1>1, <3>1, MembersOf
    <3>3. d \in Decks
      BY <2>3, DocsOf
    <3> QED
      BY <2>3, <3>2, <3>3, DeckToolsKeep
  <2>4. CASE h = "onenote"
    <3>1. Additive(h, d, x, w, i) =
            <<addPage(d, x), appendToPage(d, i, x, Blank), appendToPage(d, i, x, x),
              appendToPage(d, i, Blank, Blank)>>
      BY <2>4 DEF Additive
    <3>2. o \in addPage(d, x) \cup appendToPage(d, i, x, Blank) \cup appendToPage(d, i, x, x)
                  \cup appendToPage(d, i, Blank, Blank)
      BY <1>1, <3>1, MembersOf
    <3>3. d \in Sections /\ x \in Texts \cup {Blank} /\ Blank \in Texts \cup {Blank}
      BY <2>4, DocsOf
    <3> QED
      BY <2>4, <3>2, <3>3, SectionToolsKeep
  <2>5. CASE h = "outlook"
    <3>1. Additive(h, d, x, w, i) = <<>>
      BY <2>5 DEF Additive
    <3> QED
      BY <1>1, <3>1, MembersOf
  <2> QED
    BY <2>1, <2>2, <2>3, <2>4, <2>5 DEF HostNames
<1>2. DiscInv => AdditiveToolsKeepContent
  BY <1>1 DEF DiscInv, DiscTyped, AdditiveToolsKeepContent
<1> QED
  BY <1>2, DiscInvariance, PTL
-----------------------------------------------------------------------------
(* Tools that say that they may be called again.                           *)

\* A are the outcomes of a call, F[o] those of the same call after outcome o.
Settles(A, F) ==
  \A o, r \in A :
    /\ o.code = "ok" => \A s \in F[o] : s.code = "ok" => s.doc = o.doc
    /\ o.code # "ok" /\ r.code = "ok" => \A s \in F[o] : s.code = "ok" => s \in A

\* What is written once is there, on the same sheet, and stays when it is
\* written again.
LEMMA WrittenOnce ==
  ASSUME NEW b \in Books, NEW w \in Named, NEW x \in Texts \cup {Blank}
  PROVE  /\ On(b, w) \in Sheets
         /\ Written(b, w, x) \in Books
         /\ Written(b, w, x).sheets = b.sheets /\ Written(b, w, x).tables = b.tables
         /\ Written(b, w, x).active = b.active /\ Written(b, w, x).headed = b.headed
         /\ Written(b, w, x).cells = [b.cells EXCEPT ![On(b, w)] = x]
         /\ \A v : /\ On(Written(b, w, x), v) = On(b, v)
                   /\ HasSheet(Written(b, w, x), v) = HasSheet(b, v)
<1>1. On(b, w) \in Sheets
  BY DEF On, Named, Books
<1>2. PICK c \in Books : c = Written(b, w, x)
  BY <1>1 DEF Written, Books
<1>3. /\ c.sheets = b.sheets /\ c.tables = b.tables /\ c.active = b.active
      /\ c.headed = b.headed /\ c.cells = [b.cells EXCEPT ![On(b, w)] = x]
  BY <1>1, <1>2 DEF Written, Books
<1>4. \A v : On(c, v) = On(b, v) /\ HasSheet(c, v) = HasSheet(b, v)
  BY <1>3 DEF On, HasSheet
<1> QED
  BY <1>1, <1>2, <1>3, <1>4

LEMMA SameBook ==
  ASSUME NEW b \in Books, NEW c \in Books,
         b.sheets = c.sheets, b.tables = c.tables, b.active = c.active, b.headed = c.headed,
         \A s \in Sheets : b.cells[s] = c.cells[s]
  PROVE  b = c
<1>1. b.cells = c.cells
  BY DEF Books
<1> QED
  BY <1>1 DEF Books

LEMMA WriteSettles ==
  ASSUME NEW b \in Books, NEW w \in Named, NEW x \in Texts
  PROVE  Settles(writeRange(b, w, x), [o \in writeRange(b, w, x) |-> writeRange(o.doc, w, x)])
<1> DEFINE A == writeRange(b, w, x)
           F == [o \in A |-> writeRange(o.doc, w, x)]
<1>0. x \in Texts \cup {Blank}
  OBVIOUS
<1>1. PICK c \in Books : c = Written(b, w, x) /\ c.sheets = b.sheets /\ c.active = b.active
  <2>1. /\ Written(b, w, x) \in Books
        /\ Written(b, w, x).sheets = b.sheets /\ Written(b, w, x).active = b.active
    BY <1>0, WrittenOnce
  <2> QED
    BY <2>1
<1>2. Written(c, w, x) = c
  <2>1. PICK e \in Books : e = Written(c, w, x)
    BY WrittenOnce
  <2>2. /\ e.sheets = c.sheets /\ e.tables = c.tables /\ e.active = c.active
        /\ e.headed = c.headed /\ On(b, w) \in Sheets /\ On(c, w) = On(b, w)
        /\ c.cells = [b.cells EXCEPT ![On(b, w)] = x]
        /\ e.cells = [c.cells EXCEPT ![On(c, w)] = x]
    BY <1>1, <2>1, WrittenOnce
  <2>3. \A s \in Sheets : e.cells[s] = c.cells[s]
    BY <2>2 DEF Books
  <2> QED
    BY <2>1, <2>2, <2>3, SameBook
<1>3. CASE ~ HasSheet(b, w)
  BY <1>3 DEF Settles, writeRange, Error
<1>4. CASE HasSheet(b, w)
  <2>1. HasSheet(c, w)
    <3>1. On(c, w) = On(b, w)
      BY <1>1 DEF On
    <3> QED
      BY <1>1, <3>1, <1>4 DEF HasSheet
  <2>2. \A o \in A : /\ o.doc \in {b, c}
                     /\ o.code = "ok" => o.doc = c
    BY <1>1, <1>4 DEF writeRange, Ok
  <2>3. \A e \in {b, c} : \A s \in writeRange(e, w, x) :
           s.code = "ok" => s = [doc |-> c, code |-> "ok"]
    BY <1>1, <1>2, <1>4, <2>1 DEF writeRange, Ok
  <2>4. [doc |-> c, code |-> "ok"] \in A
    BY <1>1, <1>4 DEF writeRange, Ok
  <2>5. \A o \in A : \A s \in F[o] : s.code = "ok" => s = [doc |-> c, code |-> "ok"]
    BY <2>2, <2>3
  <2> HIDE DEF A, F
  <2> QED
    BY <2>2, <2>4, <2>5 DEF Settles, A, F
<1> QED
  BY <1>3, <1>4

LEMMA DiffSettles ==
  ASSUME NEW b \in Books, NEW w \in Named, NEW x \in Texts, NEW y \in Texts \cup {Blank}
  PROVE  Settles(applyDiff(b, w, x, y),
                 [o \in applyDiff(b, w, x, y) |-> applyDiff(o.doc, w, x, y)])
<1> DEFINE A == applyDiff(b, w, x, y)
           F == [o \in A |-> applyDiff(o.doc, w, x, y)]
           Both(e) == Written(Written(e, w, x), NoSheet, y)
<1>0. NoSheet \in Named
  BY DEF Named
<1>1. \A e \in Books :
        /\ Both(e) \in Books
        /\ Both(e).sheets = e.sheets /\ Both(e).tables = e.tables
        /\ Both(e).active = e.active /\ Both(e).headed = e.headed
        /\ HasSheet(Both(e), w) = HasSheet(e, w) /\ On(Both(e), w) = On(e, w)
        /\ On(e, w) \in Sheets /\ e.active \in Sheets
        /\ \A s \in Sheets : Both(e).cells[s] =
             IF s = e.active THEN y ELSE IF s = On(e, w) THEN x ELSE e.cells[s]
  <2> SUFFICES ASSUME NEW e \in Books
               PROVE  /\ Both(e) \in Books
                      /\ Both(e).sheets = e.sheets /\ Both(e).tables = e.tables
                      /\ Both(e).active = e.active /\ Both(e).headed = e.headed
                      /\ HasSheet(Both(e), w) = HasSheet(e, w) /\ On(Both(e), w) = On(e, w)
                      /\ On(e, w) \in Sheets /\ e.active \in Sheets
                      /\ \A s \in Sheets : Both(e).cells[s] =
                           IF s = e.active THEN y ELSE IF s = On(e, w) THEN x ELSE e.cells[s]
    OBVIOUS
  <2>1. PICK c \in Books : c = Written(e, w, x)
    BY WrittenOnce
  <2>2. /\ c.sheets = e.sheets /\ c.tables = e.tables /\ c.active = e.active
        /\ c.headed = e.headed
        /\ On(e, w) \in Sheets /\ c.cells = [e.cells EXCEPT ![On(e, w)] = x]
        /\ \A v : On(c, v) = On(e, v) /\ HasSheet(c, v) = HasSheet(e, v)
    BY <2>1, WrittenOnce
  <2>3. PICK a \in Books : a = Written(c, NoSheet, y)
    BY <1>0, WrittenOnce
  <2>4. /\ a.sheets = c.sheets /\ a.tables = c.tables /\ a.active = c.active
        /\ a.headed = c.headed
        /\ a.cells = [c.cells EXCEPT ![On(c, NoSheet)] = y]
        /\ \A v : On(a, v) = On(c, v) /\ HasSheet(a, v) = HasSheet(c, v)
    BY <1>0, <2>3, WrittenOnce
  <2>5. On(c, NoSheet) = e.active /\ e.active \in Sheets
    BY <2>2 DEF On, Books
  <2>6. \A s \in Sheets : a.cells[s] =
          IF s = e.active THEN y ELSE IF s = On(e, w) THEN x ELSE e.cells[s]
    BY <2>2, <2>4, <2>5 DEF Books
  <2> QED
    BY <2>1, <2>2, <2>3, <2>4, <2>5, <2>6
<1>2. PICK c \in Books : c = Written(b, w, x)
  BY WrittenOnce
<1>3. /\ c.sheets = b.sheets /\ c.tables = b.tables /\ c.active = b.active
      /\ c.headed = b.headed
      /\ HasSheet(c, w) = HasSheet(b, w) /\ On(c, w) = On(b, w) /\ On(b, w) \in Sheets
      /\ \A s \in Sheets : c.cells[s] = IF s = On(b, w) THEN x ELSE b.cells[s]
  <2>1. /\ c.sheets = b.sheets /\ c.tables = b.tables /\ c.active = b.active
        /\ c.headed = b.headed
        /\ On(c, w) = On(b, w) /\ On(b, w) \in Sheets
        /\ c.cells = [b.cells EXCEPT ![On(b, w)] = x]
    BY <1>2, WrittenOnce
  <2>2. HasSheet(c, w) = HasSheet(b, w)
    BY <2>1 DEF HasSheet
  <2>3. \A s \in Sheets : c.cells[s] = IF s = On(b, w) THEN x ELSE b.cells[s]
    BY <2>1 DEF Books
  <2> QED
    BY <2>1, <2>2, <2>3
<1>4. PICK u \in Books : u = Both(b)
  BY <1>1
<1>5. Both(c) = u /\ Both(u) = u
  <2> HIDE DEF Both
  <2>1. /\ u.sheets = b.sheets /\ u.tables = b.tables /\ u.active = b.active
        /\ u.headed = b.headed
        /\ On(u, w) = On(b, w)
        /\ \A s \in Sheets : u.cells[s] =
             IF s = b.active THEN y ELSE IF s = On(b, w) THEN x ELSE b.cells[s]
    BY <1>1, <1>4
  <2>2. /\ Both(u) \in Books /\ Both(u).sheets = b.sheets /\ Both(u).tables = b.tables
        /\ Both(u).active = b.active /\ Both(u).headed = b.headed
        /\ \A s \in Sheets : Both(u).cells[s] = u.cells[s]
    BY <1>1, <2>1
  <2>3. /\ Both(c) \in Books /\ Both(c).sheets = b.sheets /\ Both(c).tables = b.tables
        /\ Both(c).active = b.active /\ Both(c).headed = b.headed
        /\ \A s \in Sheets : Both(c).cells[s] = u.cells[s]
    BY <1>1, <1>3, <2>1
  <2>4. Both(u) = u
    BY <2>1, <2>2, SameBook
  <2>5. Both(c) = u
    BY <2>1, <2>3, SameBook
  <2> QED
    BY <2>4, <2>5
<1>6. CASE ~ HasSheet(b, w)
  BY <1>6 DEF Settles, applyDiff, Error
<1>7. CASE HasSheet(b, w)
  <2>1. \A e : HasSheet(e, w) =>
           applyDiff(e, w, x, y) =
             {[doc |-> Both(e), code |-> "ok"]}
               \cup {[doc |-> d, code |-> "InvalidArgument"] : d \in {e, Written(e, w, x)}}
    BY DEF applyDiff, Ok
  <2> HIDE DEF Both
  <2>2. HasSheet(c, w) /\ HasSheet(u, w)
    BY <1>1, <1>3, <1>4, <1>7
  <2>3. \A o \in A : /\ o.doc \in {b, c, u}
                     /\ o.code = "ok" => o.doc = u
    BY <1>2, <1>4, <1>7, <2>1
  <2>4. \A e \in {b, c, u} : \A s \in applyDiff(e, w, x, y) :
           s.code = "ok" => s = [doc |-> u, code |-> "ok"]
    BY <1>4, <1>5, <1>7, <2>1, <2>2
  <2>5. [doc |-> u, code |-> "ok"] \in A
    BY <1>4, <1>7, <2>1
  <2>6. \A o \in A : \A s \in F[o] : s.code = "ok" => s = [doc |-> u, code |-> "ok"]
    BY <2>3, <2>4
  <2> HIDE DEF A, F
  <2> QED
    BY <2>3, <2>5, <2>6 DEF Settles, A, F
<1> QED
  BY <1>6, <1>7

\* Calls that succeed in one way only, now and when they are made again.
LEMMA OneResult ==
  ASSUME NEW A, NEW F, NEW c,
         \A o \in A : o.code = "ok" => o = [doc |-> c, code |-> "ok"],
         \A o \in A : \A s \in F[o] : s.code = "ok" => s = [doc |-> c, code |-> "ok"]
  PROVE  Settles(A, F)
  BY DEF Settles

\* Selecting a range or activating a sheet again leaves that sheet active.
LEMMA SelectSettles ==
  ASSUME NEW b \in Books, NEW w \in Named
  PROVE  Settles(setSelectedRange(b, w),
                 [o \in setSelectedRange(b, w) |-> setSelectedRange(o.doc, w)])
<1> DEFINE A == setSelectedRange(b, w)
           F == [o \in A |-> setSelectedRange(o.doc, w)]
<1>1. On(b, w) \in Sheets
  BY DEF On, Named, Books
<1>2. PICK c \in Books : c = [b EXCEPT !.active = On(b, w)]
  BY <1>1 DEF Books
<1>3. /\ c.sheets = b.sheets /\ c.tables = b.tables /\ c.cells = b.cells
      /\ c.active = On(b, w) /\ c.headed = b.headed
  BY <1>1, <1>2 DEF Books
<1>4. On(c, w) = On(b, w)
  BY <1>3 DEF On
<1>5. PICK e \in Books : e = [c EXCEPT !.active = On(c, w)]
  BY <1>1, <1>4 DEF Books
<1>6. /\ e.sheets = c.sheets /\ e.tables = c.tables /\ e.cells = c.cells
      /\ e.active = On(c, w) /\ e.headed = c.headed
  BY <1>1, <1>4, <1>5 DEF Books
<1>7. e = c
  BY <1>3, <1>4, <1>6, SameBook
<1>8. \A d \in {b, c} : \A s \in setSelectedRange(d, w) :
         s.code = "ok" => s = [doc |-> c, code |-> "ok"]
  <2>1. \A s \in setSelectedRange(b, w) : s.code = "ok" => s = [doc |-> c, code |-> "ok"]
    BY <1>2 DEF setSelectedRange, Ok, Error
  <2>2. [c EXCEPT !.active = On(c, w)] = c
    BY <1>5, <1>7
  <2>3. \A s \in setSelectedRange(c, w) : s.code = "ok" => s = [doc |-> c, code |-> "ok"]
    BY <2>2 DEF setSelectedRange, Ok, Error
  <2> QED
    BY <2>1, <2>3
<1>9. \A o \in A : o.doc \in {b, c}
  BY <1>2 DEF setSelectedRange, Ok, Error
<1>10. \A o \in A : \A s \in F[o] : s.code = "ok" => s = [doc |-> c, code |-> "ok"]
  BY <1>8, <1>9
<1> HIDE DEF F
<1> QED
  BY <1>8, <1>10, OneResult DEF F

LEMMA ActivateSettles ==
  ASSUME NEW b \in Books, NEW w \in Sheets
  PROVE  Settles(activateWorksheet(b, w),
                 [o \in activateWorksheet(b, w) |-> activateWorksheet(o.doc, w)])
<1> DEFINE A == activateWorksheet(b, w)
           F == [o \in A |-> activateWorksheet(o.doc, w)]
<1>1. PICK c \in Books : c = [b EXCEPT !.active = w]
  BY DEF Books
<1>2. /\ c.sheets = b.sheets /\ c.tables = b.tables /\ c.cells = b.cells /\ c.active = w
      /\ c.headed = b.headed
  BY <1>1 DEF Books
<1>3. PICK e \in Books : e = [c EXCEPT !.active = w]
  BY DEF Books
<1>4. /\ e.sheets = c.sheets /\ e.tables = c.tables /\ e.cells = c.cells /\ e.active = w
      /\ e.headed = c.headed
  BY <1>3 DEF Books
<1>5. e = c
  BY <1>2, <1>4, SameBook
<1>6. \A d \in {b, c} : \A s \in activateWorksheet(d, w) :
         s.code = "ok" => s = [doc |-> c, code |-> "ok"]
  BY <1>1, <1>3, <1>5 DEF activateWorksheet, Ok, Error
<1>7. \A o \in A : o.doc \in {b, c}
  BY <1>1 DEF activateWorksheet, Ok, Error
<1>8. \A o \in A : \A s \in F[o] : s.code = "ok" => s = [doc |-> c, code |-> "ok"]
  BY <1>6, <1>7
<1> HIDE DEF F
<1> QED
  BY <1>6, <1>8, OneResult DEF F

\* The sheet that was deleted is not found, and the call that does not succeed
\* deletes none.
LEMMA DeleteSettles ==
  ASSUME NEW b \in Books, NEW w \in Sheets
  PROVE  Settles(deleteWorksheet(b, w),
                 [o \in deleteWorksheet(b, w) |-> deleteWorksheet(o.doc, w)])
<1> DEFINE A == deleteWorksheet(b, w)
           F == [o \in A |-> deleteWorksheet(o.doc, w)]
<1>1. CASE w \notin b.sheets \/ b.sheets = {w}
  <2>1. \A o \in A : o.code # "ok"
    BY <1>1 DEF deleteWorksheet, Error
  <2>2. \A o \in A : o.doc = b
    BY <1>1 DEF deleteWorksheet, Error
  <2> QED
    BY <2>1 DEF Settles
<1>2. CASE w \in b.sheets /\ b.sheets # {w}
  <2>1. \A o \in A : o.code = "ok" /\ o.doc.sheets = b.sheets \ {w}
    BY <1>2 DEF deleteWorksheet
  <2>2. \A o \in A : \A s \in deleteWorksheet(o.doc, w) : s.code # "ok"
    BY <2>1 DEF deleteWorksheet, Error
  <2>3. \A o \in A : \A s \in F[o] : s.code # "ok"
    BY <2>2
  <2> HIDE DEF A, F
  <2> QED
    BY <2>1, <2>3 DEF Settles, A, F
<1> QED
  BY <1>1, <1>2

\* The shapes that are taken for the title and the body do not depend on the
\* texts in them.
LEMMA SetTextKeepsShapes ==
  ASSUME NEW s \in Slide, NEW k, NEW x \in Texts
  PROVE  /\ SetText(s, k, x) \in Slide
         /\ DOMAIN SetText(s, k, x) = DOMAIN s /\ Len(SetText(s, k, x)) = Len(s)
         /\ \A j \in DOMAIN s : SetText(s, k, x)[j] =
                IF j = k THEN [s[j] EXCEPT !.text = x] ELSE s[j]
         /\ titleShape(SetText(s, k, x)) = titleShape(s)
         /\ bodyShape(SetText(s, k, x)) = bodyShape(s)
<1>1. PICK n \in 0 .. MaxParts : s \in [1 .. n -> Shape]
  BY DEF Slide
<1>2. \A r \in Shape : /\ [r EXCEPT !.text = x] \in Shape
                       /\ [r EXCEPT !.text = x].like = r.like
  BY DEF Shape
<1>3. PICK c : c = SetText(s, k, x)
  OBVIOUS
<1>4. c \in [1 .. n -> Shape] /\ \A j \in 1 .. n : c[j].like = s[j].like
  BY <1>1, <1>2, <1>3 DEF SetText
<1>5. n \in Nat /\ Len(c) = n /\ Len(s) = n
  BY <1>1, <1>4, PartsAssumption
<1>6. \A name : Like(c, name) = Like(s, name)
  BY <1>1, <1>4 DEF Like
<1>7. titleLike(c) = titleLike(s)
  BY <1>6 DEF titleLike
<1>8. titleShape(c) = titleShape(s)
  BY <1>5, <1>7 DEF titleShape
<1>9. bodyShape(c) = bodyShape(s)
  <2>1. Like(c, "body") \ {titleLike(c)} = Like(s, "body") \ {titleLike(s)}
    BY <1>6, <1>7
  <2> QED
    BY <1>5, <2>1 DEF bodyShape
<1>10. c \in Slide
  BY <1>4 DEF Slide
<1>11. \A j \in DOMAIN s : c[j] = IF j = k THEN [s[j] EXCEPT !.text = x] ELSE s[j]
  BY <1>3 DEF SetText
<1> QED
  BY <1>1, <1>3, <1>4, <1>5, <1>8, <1>9, <1>10, <1>11

\* A slide that is rebuilt again, or after only its title was set, is as if it
\* had been rebuilt once.
LEMMA RebuiltAgain ==
  ASSUME NEW s \in Slide, NEW x \in Texts \cup {Blank}, NEW y \in Texts \cup {Blank}
  PROVE  /\ Titled(s, x) \in Slide /\ Rebuilt(s, x, y) \in Slide
         /\ Rebuilt(Titled(s, x), x, y) = Rebuilt(s, x, y)
         /\ Rebuilt(Rebuilt(s, x, y), x, y) = Rebuilt(s, x, y)
<1> DEFINE t == titleShape(s)
           b == bodyShape(s)
           With(r, v) == [r EXCEPT !.text = v]
           At(j, r) == IF y # Blank /\ j = b THEN With(r, y)
                       ELSE IF x # Blank /\ j = t THEN With(r, x) ELSE r
           Set(j, r) == IF x # Blank /\ j = t THEN With(r, x) ELSE r
           Alike == {r \in Slide : /\ DOMAIN r = DOMAIN s
                                   /\ titleShape(r) = t /\ bodyShape(r) = b}
<1>1. \A r \in Alike : /\ Titled(r, x) \in Alike
                       /\ \A j \in DOMAIN s : Titled(r, x)[j] = Set(j, r[j])
  <2> SUFFICES ASSUME NEW r \in Alike
               PROVE  /\ Titled(r, x) \in Alike
                      /\ \A j \in DOMAIN s : Titled(r, x)[j] = Set(j, r[j])
    OBVIOUS
  <2>1. CASE x = Blank
    BY <2>1 DEF Titled
  <2>2. CASE x # Blank
    <3>1. x \in Texts /\ r \in Slide
      BY <2>2
    <3>2. Titled(r, x) = SetText(r, t, x)
      BY <2>2 DEF Titled
    <3>3. /\ SetText(r, t, x) \in Slide
          /\ DOMAIN SetText(r, t, x) = DOMAIN r
          /\ \A j \in DOMAIN r : SetText(r, t, x)[j] =
                IF j = t THEN [r[j] EXCEPT !.text = x] ELSE r[j]
          /\ titleShape(SetText(r, t, x)) = titleShape(r)
          /\ bodyShape(SetText(r, t, x)) = bodyShape(r)
      BY <3>1, SetTextKeepsShapes
    <3> HIDE DEF t, b
    <3> QED
      BY <2>2, <3>2, <3>3
  <2> QED
    BY <2>1, <2>2
<1>2. \A r \in Slide : \A k :
         y \in Texts =>
           /\ SetText(r, k, y) \in Slide
           /\ DOMAIN SetText(r, k, y) = DOMAIN r
           /\ \A j \in DOMAIN r : SetText(r, k, y)[j] =
                 IF j = k THEN [r[j] EXCEPT !.text = y] ELSE r[j]
           /\ titleShape(SetText(r, k, y)) = titleShape(r)
           /\ bodyShape(SetText(r, k, y)) = bodyShape(r)
  BY SetTextKeepsShapes
<1>3. \A r \in Slide : \A j \in DOMAIN r : r[j] \in Shape
  BY DEF Slide
<1>4. \A r \in Alike : /\ Rebuilt(r, x, y) \in Alike
                       /\ \A j \in DOMAIN s : Rebuilt(r, x, y)[j] = At(j, r[j])
  <2> SUFFICES ASSUME NEW r \in Alike
               PROVE  /\ Rebuilt(r, x, y) \in Alike
                      /\ \A j \in DOMAIN s : Rebuilt(r, x, y)[j] = At(j, r[j])
    OBVIOUS
  <2>1. PICK q \in Alike : q = Titled(r, x) /\ \A j \in DOMAIN s : q[j] = Set(j, r[j])
    BY <1>1
  <2>2. CASE y = Blank
    <3>1. Rebuilt(r, x, y) = q
      BY <2>1, <2>2 DEF Rebuilt
    <3> QED
      BY <2>1, <2>2, <3>1
  <2>3. CASE y # Blank
    <3>1. Rebuilt(r, x, y) = SetText(q, b, y)
      BY <2>1, <2>3 DEF Rebuilt
    <3>2. /\ SetText(q, b, y) \in Alike
          /\ \A j \in DOMAIN s : SetText(q, b, y)[j] =
                IF j = b THEN [q[j] EXCEPT !.text = y] ELSE q[j]
      <4>1. y \in Texts
        BY <2>3
      <4> HIDE DEF t, b
      <4> QED
        BY <1>2, <4>1
    <3>3. ASSUME NEW j \in DOMAIN s PROVE SetText(q, b, y)[j] = At(j, r[j])
      <4>1. r[j] \in Shape
        BY <1>3
      <4>2. PICK v \in Shape : v = r[j]
        BY <4>1
      <4>3. [[v EXCEPT !.text = x] EXCEPT !.text = y] = [v EXCEPT !.text = y]
        BY DEF Shape
      <4> HIDE DEF t, b
      <4> QED
        BY <2>1, <2>3, <3>2, <4>2, <4>3
    <3> QED
      BY <3>1, <3>2, <3>3
  <2> QED
    BY <2>2, <2>3
<1>5. s \in Alike
  OBVIOUS
<1>6. \A u, v \in Alike : (\A j \in DOMAIN s : u[j] = v[j]) => u = v
  BY DEF Slide
<1>7. \A r \in Shape : \A j :
         /\ At(j, Set(j, r)) = At(j, r) /\ At(j, At(j, r)) = At(j, r)
         /\ Set(j, r) \in Shape /\ At(j, r) \in Shape
  <2>1. \A r \in Shape : \A v, z \in Texts \cup {Blank} :
           With(r, v) \in Shape /\ With(With(r, v), z) = With(r, z)
    BY DEF Shape
  <2> HIDE DEF t, b, With
  <2>2. ASSUME NEW r \in Shape, NEW j
        PROVE  /\ At(j, Set(j, r)) = At(j, r) /\ At(j, At(j, r)) = At(j, r)
               /\ Set(j, r) \in Shape /\ At(j, r) \in Shape
    BY <2>1
  <2> QED
    BY <2>2
<1>8. PICK T1 \in Alike : T1 = Titled(s, x) /\ \A j \in DOMAIN s : T1[j] = Set(j, s[j])
  BY <1>1, <1>5
<1>9. PICK R1 \in Alike : R1 = Rebuilt(s, x, y) /\ \A j \in DOMAIN s : R1[j] = At(j, s[j])
  BY <1>4, <1>5
<1>10. PICK R2 \in Alike : R2 = Rebuilt(T1, x, y) /\ \A j \in DOMAIN s : R2[j] = At(j, T1[j])
  BY <1>4
<1>11. PICK R3 \in Alike : R3 = Rebuilt(R1, x, y) /\ \A j \in DOMAIN s : R3[j] = At(j, R1[j])
  BY <1>4
<1>12. \A j \in DOMAIN s : s[j] \in Shape
  BY <1>3
<1> HIDE DEF Set, At
<1>13. R2 = R1 /\ R3 = R1
  <2>1. \A j \in DOMAIN s : R2[j] = R1[j] /\ R3[j] = R1[j]
    BY <1>7, <1>8, <1>9, <1>10, <1>11, <1>12
  <2> HIDE DEF Alike
  <2> QED
    BY <1>6, <2>1
<1> QED
  BY <1>8, <1>9, <1>10, <1>11, <1>13

\* So is a slide that the tool rebuilds.
LEMMA RebuildSettles ==
  ASSUME NEW d \in Decks, NEW i \in Indices,
         NEW x \in Texts \cup {Blank}, NEW y \in Texts \cup {Blank}
  PROVE  Settles(rebuildSlideFromOutline(d, i, x, y),
                 [o \in rebuildSlideFromOutline(d, i, x, y) |->
                    rebuildSlideFromOutline(o.doc, i, x, y)])
<1> DEFINE A == rebuildSlideFromOutline(d, i, x, y)
           F == [o \in A |-> rebuildSlideFromOutline(o.doc, i, x, y)]
           New(q) == [k \in DOMAIN q |-> IF k = i + 1 THEN Rebuilt(q[k], x, y) ELSE q[k]]
           Half(q) == [k \in DOMAIN q |-> IF k = i + 1 THEN Titled(q[k], x) ELSE q[k]]
<1>1. PICK n \in 0 .. MaxParts : d \in [1 .. n -> Slide]
  BY DEF Decks
<1>2. \A s \in Slide : /\ Titled(s, x) \in Slide /\ Rebuilt(s, x, y) \in Slide
                       /\ Rebuilt(Titled(s, x), x, y) = Rebuilt(s, x, y)
                       /\ Rebuilt(Rebuilt(s, x, y), x, y) = Rebuilt(s, x, y)
  BY RebuiltAgain
<1>3. PICK c : c = New(d)
  OBVIOUS
<1>4. PICK e : e = Half(d)
  OBVIOUS
<1>5. c \in [1 .. n -> Slide] /\ e \in [1 .. n -> Slide]
  BY <1>1, <1>2, <1>3, <1>4
<1>6. New(c) = c /\ New(e) = c
  <2>1. \A k \in 1 .. n : New(c)[k] = c[k] /\ New(e)[k] = c[k]
    BY <1>1, <1>2, <1>3, <1>4, <1>5
  <2>2. New(c) \in [1 .. n -> Slide] /\ New(e) \in [1 .. n -> Slide]
    BY <1>2, <1>5
  <2> HIDE DEF New
  <2> QED
    BY <1>5, <2>1, <2>2
<1> HIDE DEF New, Half
<1>7. CASE x = Blank /\ y = Blank
  BY <1>7 DEF rebuildSlideFromOutline, Settles, Error
<1>8. CASE ~ (x = Blank /\ y = Blank)
  <2>1. \A q : rebuildSlideFromOutline(q, i, x, y) =
                 OnSlide(q, i, New(q)) \cup Error(q, "InvalidArgument")
                   \cup Error(Half(q), "InvalidArgument")
    BY <1>8 DEF rebuildSlideFromOutline, New, Half
  <2>2. \A q \in {d, c, e} : \A s \in rebuildSlideFromOutline(q, i, x, y) :
           s.code = "ok" => s = [doc |-> c, code |-> "ok"]
    BY <1>3, <1>6, <2>1 DEF OnSlide, Ok, Error
  <2>3. \A o \in A : o.doc \in {d, c, e}
    BY <1>3, <1>4, <2>1 DEF OnSlide, Ok, Error
  <2>4. \A o \in A : \A s \in F[o] : s.code = "ok" => s = [doc |-> c, code |-> "ok"]
    BY <2>2, <2>3
  <2>5. \A o \in A : o.code = "ok" => o = [doc |-> c, code |-> "ok"]
    BY <2>2
  <2> HIDE DEF A, F
  <2>6. Settles(A, F)
    BY <2>4, <2>5, OneResult
  <2> QED
    BY <2>6 DEF A, F
<1> QED
  BY <1>7, <1>8

\* A field of a mail that is set again holds the same text; a reply that was
\* half set is set as a whole.
LEMMA SetMail ==
  ASSUME NEW d \in Mails, NEW x \in Texts, NEW y \in Texts
  PROVE  /\ [d EXCEPT !.body = x] \in Mails
         /\ [[d EXCEPT !.body = x] EXCEPT !.body = x] = [d EXCEPT !.body = x]
         /\ [d EXCEPT !.subject = x] \in Mails
         /\ [[d EXCEPT !.subject = x] EXCEPT !.subject = x] = [d EXCEPT !.subject = x]
         /\ [d EXCEPT !.subject = x, !.body = y] \in Mails
         /\ \A e \in {d, [d EXCEPT !.body = y], [d EXCEPT !.subject = x],
                      [d EXCEPT !.subject = x, !.body = y]} :
              [e EXCEPT !.subject = x, !.body = y] = [d EXCEPT !.subject = x, !.body = y]
  BY DEF Mails

LEMMA ComposeSettles ==
  ASSUME NEW d \in Mails, NEW x \in Texts
  PROVE  /\ Settles(setBody(d, x), [o \in setBody(d, x) |-> setBody(o.doc, x)])
         /\ Settles(setSubject(d, x), [o \in setSubject(d, x) |-> setSubject(o.doc, x)])
<1>1. PICK b : b = [d EXCEPT !.body = x]
  OBVIOUS
<1>2. [b EXCEPT !.body = x] = b
  BY <1>1, SetMail
<1>3. \A e \in {d, b} : \A s \in setBody(e, x) :
         /\ s.doc \in {d, b}
         /\ s.code = "ok" => s = [doc |-> b, code |-> "ok"]
  BY <1>1, <1>2 DEF setBody, Composing, Ok, Error
<1>4. PICK c : c = [d EXCEPT !.subject = x]
  OBVIOUS
<1>5. [c EXCEPT !.subject = x] = c
  BY <1>4, SetMail
<1>6. \A e \in {d, c} : \A s \in setSubject(e, x) :
         /\ s.doc \in {d, c}
         /\ s.code = "ok" => s = [doc |-> c, code |-> "ok"]
  BY <1>4, <1>5 DEF setSubject, Composing, Ok, Error
<1>7. Settles(setBody(d, x), [o \in setBody(d, x) |-> setBody(o.doc, x)])
  <2> DEFINE A == setBody(d, x)
             F == [o \in A |-> setBody(o.doc, x)]
  <2>1. \A o \in A : o.code = "ok" => o = [doc |-> b, code |-> "ok"]
    BY <1>3
  <2>2. \A o \in A : \A s \in F[o] : s.code = "ok" => s = [doc |-> b, code |-> "ok"]
    BY <1>3
  <2> HIDE DEF A, F
  <2>3. Settles(A, F)
    BY <2>1, <2>2, OneResult
  <2> QED
    BY <2>3 DEF A, F
<1>8. Settles(setSubject(d, x), [o \in setSubject(d, x) |-> setSubject(o.doc, x)])
  <2> DEFINE A == setSubject(d, x)
             F == [o \in A |-> setSubject(o.doc, x)]
  <2>1. \A o \in A : o.code = "ok" => o = [doc |-> c, code |-> "ok"]
    BY <1>6
  <2>2. \A o \in A : \A s \in F[o] : s.code = "ok" => s = [doc |-> c, code |-> "ok"]
    BY <1>6
  <2> HIDE DEF A, F
  <2>3. Settles(A, F)
    BY <2>1, <2>2, OneResult
  <2> QED
    BY <2>3 DEF A, F
<1> QED
  BY <1>7, <1>8

LEMMA ReplySettles ==
  ASSUME NEW d \in Mails, NEW x \in Texts, NEW y \in Texts
  PROVE  Settles(draftReply(d, x, y), [o \in draftReply(d, x, y) |-> draftReply(o.doc, x, y)])
<1>1. PICK c : c = [d EXCEPT !.subject = x, !.body = y]
  OBVIOUS
<1> DEFINE Docs4 == {d, [d EXCEPT !.body = y], [d EXCEPT !.subject = x], c}
<1>2. \A e \in Docs4 : [e EXCEPT !.subject = x, !.body = y] = c
  BY <1>1, SetMail
<1>3. \A o \in draftReply(d, x, y) : o.doc \in Docs4
  BY <1>1 DEF draftReply, Ok, Error, Failing
<1>4. \A e \in Docs4 : \A s \in draftReply(e, x, y) :
         s.code = "ok" => s = [doc |-> c, code |-> "ok"]
  <2> SUFFICES ASSUME NEW e \in Docs4, NEW s \in draftReply(e, x, y), s.code = "ok"
               PROVE  s = [doc |-> c, code |-> "ok"]
    OBVIOUS
  <2>1. PICK r : r = [e EXCEPT !.subject = x, !.body = y]
    OBVIOUS
  <2>2. r = c
    BY <1>2, <2>1
  <2> HIDE DEF Docs4
  <2>3. s \in Ok(r)
    BY <2>1 DEF draftReply, Error, Failing
  <2> QED
    BY <2>2, <2>3 DEF Ok
<1>5. d \in Docs4
  OBVIOUS
<1> DEFINE A == draftReply(d, x, y)
           F == [o \in A |-> draftReply(o.doc, x, y)]
<1> HIDE DEF Docs4
<1>6. \A o \in A : o.code = "ok" => o = [doc |-> c, code |-> "ok"]
  BY <1>4, <1>5
<1>7. \A o \in A : \A s \in F[o] : s.code = "ok" => s = [doc |-> c, code |-> "ok"]
  BY <1>3, <1>4
<1> HIDE DEF A, F
<1>8. Settles(A, F)
  BY <1>6, <1>7, OneResult
<1> QED
  BY <1>8 DEF A, F

LEMMA RepeatSettles ==
  ASSUME NEW h \in HostNames, NEW d \in Docs(h), NEW x \in Texts, NEW w \in Named,
         NEW i \in Indices, NEW k \in DOMAIN Idempotent(h, d, x, w, i)
  PROVE  Settles(Idempotent(h, d, x, w, i)[k],
                 [o \in Idempotent(h, d, x, w, i)[k] |-> Idempotent(h, o.doc, x, w, i)[k]])
<1> DEFINE Again(e) == Idempotent(h, e, x, w, i)
<1>1. CASE h = "excel"
  <2>1. d \in Books
    BY <1>1, DocsOf
  <2>2. CASE w = NoSheet
    <3>1. \A e : Again(e) = <<writeRange(e, w, x), applyDiff(e, w, x, Blank),
                              setSelectedRange(e, w)>>
      BY <1>1, <2>2 DEF Idempotent, ExcelIdempotent
    <3>2. k \in {1, 2, 3}
      BY <3>1
    <3>3. CASE k = 1
      <4>1. \A e : Again(e)[k] = writeRange(e, w, x)
        BY <3>1, <3>3
      <4> QED
        BY <2>1, <4>1, WriteSettles
    <3>4. CASE k = 2
      <4>1. \A e : Again(e)[k] = applyDiff(e, w, x, Blank)
        BY <3>1, <3>4
      <4>2. Settles(applyDiff(d, w, x, Blank),
                    [o \in applyDiff(d, w, x, Blank) |-> applyDiff(o.doc, w, x, Blank)])
        BY <2>1, DiffSettles
      <4> QED
        BY <4>1, <4>2
    <3>5. CASE k = 3
      <4>1. \A e : Again(e)[k] = setSelectedRange(e, w)
        BY <3>1, <3>5
      <4> QED
        BY <2>1, <4>1, SelectSettles
    <3> QED
      BY <3>2, <3>3, <3>4, <3>5
  <2>3. CASE w # NoSheet
    <3>1. \A e : Again(e) = <<writeRange(e, w, x), applyDiff(e, w, x, Blank),
                              setSelectedRange(e, w), activateWorksheet(e, w),
                              deleteWorksheet(e, w)>>
      BY <1>1, <2>3 DEF Idempotent, ExcelIdempotent
    <3>2. k \in {1, 2, 3, 4, 5}
      BY <3>1
    <3>3. CASE k = 1
      <4>1. \A e : Again(e)[k] = writeRange(e, w, x)
        BY <3>1, <3>3
      <4> QED
        BY <2>1, <4>1, WriteSettles
    <3>4. CASE k = 2
      <4>1. \A e : Again(e)[k] = applyDiff(e, w, x, Blank)
        BY <3>1, <3>4
      <4>2. Settles(applyDiff(d, w, x, Blank),
                    [o \in applyDiff(d, w, x, Blank) |-> applyDiff(o.doc, w, x, Blank)])
        BY <2>1, DiffSettles
      <4> QED
        BY <4>1, <4>2
    <3>5. CASE k = 3
      <4>1. \A e : Again(e)[k] = setSelectedRange(e, w)
        BY <3>1, <3>5
      <4> QED
        BY <2>1, <4>1, SelectSettles
    <3>6. w \in Sheets
      BY <2>3 DEF Named
    <3>7. CASE k = 4
      <4>1. \A e : Again(e)[k] = activateWorksheet(e, w)
        BY <3>1, <3>7
      <4> QED
        BY <2>1, <3>6, <4>1, ActivateSettles
    <3>8. CASE k = 5
      <4>1. \A e : Again(e)[k] = deleteWorksheet(e, w)
        BY <3>1, <3>8
      <4> QED
        BY <2>1, <3>6, <4>1, DeleteSettles
    <3> QED
      BY <3>2, <3>3, <3>4, <3>5, <3>7, <3>8
  <2> QED
    BY <2>2, <2>3
<1>2. CASE h = "powerpoint"
  <2>1. d \in Decks
    BY <1>2, DocsOf
  <2>2. PICK y \in Texts : y = CHOOSE z \in Texts : TRUE
    BY TextsAssumption
  <2>3. \A e : Again(e) = <<rebuildSlideFromOutline(e, i, x, Blank),
                           rebuildSlideFromOutline(e, i, Blank, x),
                           rebuildSlideFromOutline(e, i, x, y)>>
    BY <1>2, <2>2 DEF Idempotent
  <2>4. k \in {1, 2, 3}
    BY <2>3
  <2>5. \A z, v \in Texts \cup {Blank} :
           (\A e : Again(e)[k] = rebuildSlideFromOutline(e, i, z, v)) =>
             Settles(Again(d)[k], [o \in Again(d)[k] |-> Again(o.doc)[k]])
    BY <2>1, RebuildSettles
  <2>6. x \in Texts \cup {Blank} /\ y \in Texts \cup {Blank} /\ Blank \in Texts \cup {Blank}
    OBVIOUS
  <2>7. CASE k = 1
    <3>1. \A e : Again(e)[k] = rebuildSlideFromOutline(e, i, x, Blank)
      BY <2>3, <2>7
    <3> HIDE DEF Again
    <3>2. Settles(Again(d)[k], [o \in Again(d)[k] |-> Again(o.doc)[k]])
      BY <2>5, <2>6, <3>1
    <3> QED
      BY <3>2 DEF Again
  <2>8. CASE k = 2
    <3>1. \A e : Again(e)[k] = rebuildSlideFromOutline(e, i, Blank, x)
      BY <2>3, <2>8
    <3> HIDE DEF Again
    <3>2. Settles(Again(d)[k], [o \in Again(d)[k] |-> Again(o.doc)[k]])
      BY <2>5, <2>6, <3>1
    <3> QED
      BY <3>2 DEF Again
  <2>9. CASE k = 3
    <3>1. \A e : Again(e)[k] = rebuildSlideFromOutline(e, i, x, y)
      BY <2>3, <2>9
    <3> HIDE DEF Again
    <3>2. Settles(Again(d)[k], [o \in Again(d)[k] |-> Again(o.doc)[k]])
      BY <2>5, <2>6, <3>1
    <3> QED
      BY <3>2 DEF Again
  <2> QED
    BY <2>4, <2>7, <2>8, <2>9
<1>3. CASE h = "outlook"
  <2> DEFINE y == CHOOSE y \in Texts : TRUE
  <2>1. d \in Mails /\ y \in Texts
    BY <1>3, DocsOf, TextsAssumption
  <2>2. \A e : Again(e) = <<setBody(e, x), setSubject(e, x), draftReply(e, x, y)>>
    BY <1>3 DEF Idempotent
  <2>3. k \in {1, 2, 3}
    BY <2>2
  <2> HIDE DEF y
  <2>4. CASE k = 1
    <3>1. \A e : Again(e)[k] = setBody(e, x)
      BY <2>2, <2>4
    <3> QED
      BY <2>1, <3>1, ComposeSettles
  <2>5. CASE k = 2
    <3>1. \A e : Again(e)[k] = setSubject(e, x)
      BY <2>2, <2>5
    <3> QED
      BY <2>1, <3>1, ComposeSettles
  <2>6. CASE k = 3
    <3>1. \A e : Again(e)[k] = draftReply(e, x, y)
      BY <2>2, <2>6
    <3> QED
      BY <2>1, <3>1, ReplySettles
  <2> QED
    BY <2>3, <2>4, <2>5, <2>6
<1>4. CASE h = "word" \/ h = "onenote"
  BY <1>4 DEF Idempotent
<1> QED
  BY <1>1, <1>2, <1>3, <1>4 DEF HostNames

\* A tool that says it may be called again does no harm when it is: after a
\* call that succeeded nothing changes, after one that failed half way the
\* document is as if the first had succeeded (mcp/adapter.go:31).
THEOREM RepeatHarmless == Spec => []RepeatIsHarmless
<1>1. DiscInv => RepeatIsHarmless
  <2> SUFFICES ASSUME DiscInv,
                      NEW x \in Texts, NEW w \in Named, NEW i \in Indices,
                      NEW k \in DOMAIN Idempotent(host, docs[open], x, w, i),
                      NEW o \in Idempotent(host, docs[open], x, w, i)[k]
               PROVE  /\ o.code = "ok" =>
                           \A s \in Idempotent(host, o.doc, x, w, i)[k] :
                             s.code = "ok" => s.doc = o.doc
                      /\ o.code # "ok"
                           /\ (\E r \in Idempotent(host, docs[open], x, w, i)[k] :
                                 r.code = "ok") =>
                           \A s \in Idempotent(host, o.doc, x, w, i)[k] :
                             s.code = "ok" =>
                               s \in Idempotent(host, docs[open], x, w, i)[k]
    BY DEF RepeatIsHarmless
  <2> DEFINE A == Idempotent(host, docs[open], x, w, i)[k]
             F == [q \in A |-> Idempotent(host, q.doc, x, w, i)[k]]
  <2>1. host \in HostNames /\ docs[open] \in Docs(host)
    BY DEF DiscInv, DiscTyped
  <2>2. Settles(A, F)
    BY <2>1, RepeatSettles
  <2>3. F[o] = Idempotent(host, o.doc, x, w, i)[k]
    OBVIOUS
  <2> HIDE DEF F
  <2> QED
    BY <2>2, <2>3 DEF Settles
<1> QED
  BY <1>1, DiscInvariance, PTL
=============================================================================
