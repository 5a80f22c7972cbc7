------------------------------- MODULE DataPath -------------------------------
(***************************************************************************)
(* What is in the file a supplier downloads: one job's items on their way  *)
(* from the source through the split, the conversion of the chunks and the *)
(* merge, while the template they are converted with can change.           *)
(*                                                                         *)
(* JobPipeline says when these steps may run and what happens when one is  *)
(* cut short; here a step that fails leaves its chunk to be taken again,   *)
(* and the merge runs when total_chunks outputs exist.                     *)
(*                                                                         *)
(* A template is three parts, each in a version that an edit raises.  An   *)
(* edit is made while the template is a draft, which a job that runs never *)
(* looks at.  Time is in ticks: CacheTTL is TEMPLATE_CACHE_TTL, MaxLag how *)
(* long a worker can hang between its read of the database and its write   *)
(* of the cache.                                                           *)
(*                                                                         *)
(* Of an item only its fate is kept, of a row its item and the parts it    *)
(* was made with.  A row without any value is blank: such rows are in the  *)
(* files, but the mergers lose those at the end of a chunk.                *)
(***************************************************************************)
EXTENDS Integers, Sequences, FiniteSets, SequencesExt

CONSTANTS
  Jobs,          \* source files (sequences of kinds of items), formats and
                 \* the template as it is when the job is submitted
  Sheets,        \* per version of the mappings: the sheets they name, none
                 \* in a version without mappings
  NoFields,      \* the versions of the fields in which there are none
  Sparse,        \* the sheets on which a "part" item has no value
  TargetChunks, MinSize, MaxSize,
  Workers,       \* workers that take chunks of the job
  Strangers,     \* workers that take chunks of other jobs of the template
  LastVersion,   \* bounds the versions of a part,
  MaxEdits,      \* and this the edits before the job ends
  CacheTTL, MaxLag

Kinds == {"good",
          "part",        \* has no value on some sheets
          "blank",       \* has no value at all, and needs none
          "bad",         \* fails its validation
          "odd",         \* is valid, but a handler raises on it
          "alien",       \* is not an object: validate() itself raises
          "date", "tree"}\* converts to a value some writers refuse

Formats == {"csv", "geojson", "xml", "xlsx"}

ASSUME SizesAssumption ==
  /\ TargetChunks \in Nat \ {0} /\ MinSize \in Nat \ {0} /\ MaxSize \in Nat
  /\ MinSize <= MaxSize

ASSUME TimesAssumption ==
  /\ LastVersion \in Nat /\ MaxEdits \in Nat
  /\ CacheTTL \in Nat \ {0} /\ MaxLag \in Nat

Parts       == {"mappings", "fields", "metadata"}
CachedParts == Parts \ {"metadata"}
Versions    == 0 .. LastVersion
Template    == [Parts -> Versions]

ASSUME JobsAssumption ==
  /\ Jobs \subseteq [source : Seq(Kinds), format : Formats, tmpl : Template]
  /\ \A j \in Jobs : Len(j.source) > 0

VARIABLES
  source, format,
  size, total,    \* chunk_size and total_chunks of the job row
  start,          \* first item of the next chunk of the split under way
  inputs,         \* chunk files written by splits
  outputs,        \* chunk files written by workers
  tmpl, age,      \* the template's parts, and ticks since each was edited
  edits,          \* how many edits there were
  cache,          \* per cached part: its version, and ticks left
  pc, part,       \* per worker: next step, and the part it loads
  chunk,          \* per worker: its chunk
  loaded,         \* per worker: the parts it converts with
  read, lag,      \* per worker: the version a miss read, ticks since then
  wrap,           \* the metadata a merge has read, or -1
  final,          \* the merged file
  unsettled       \* history: the template was edited during the job, or less
                  \* than Grace before a worker took one of its chunks

job     == <<source, format, size, total>>
split   == <<start, inputs>>
editing == <<tmpl, age, edits>>
worker  == <<pc, part, chunk, loaded, read, lag>>
vars    == <<job, split, outputs, editing, cache, worker, wrap, final, unsettled>>

Grace  == CacheTTL + MaxLag
NoFile == <<>>
NoChunk == [start |-> -1, end |-> -1]
Loaders == Workers \union Strangers
Least(a, b) == IF a <= b THEN a ELSE b

\* The members of a set of numbers, in their order.
InOrder(S) ==
  [k \in 1 .. Cardinality(S) |-> CHOOSE i \in S : Cardinality({j \in S : j <= i}) = k]

\* Mutant: a last chunk that is not full is not counted.
FloorDiv(a, b) == a \div b

CeilDiv(a, b) == (a + b - 1) \div b

\* compute_chunk_size
ChunkSize(n) ==
  IF n <= MinSize THEN MinSize
  ELSE LET raw == Least(CeilDiv(n, TargetChunks), MaxSize)
       IN IF raw < MinSize THEN MinSize ELSE raw

NoParts == [p \in Parts |-> 0]

\* Strangers load all the time; the rest of what they do is not seen here.
FirstStep(w) == IF w \in Workers THEN "idle" ELSE "get"

\* submit() has created the job; the template has not been edited lately.
Init ==
  /\ \E j \in Jobs : source = j.source /\ format = j.format /\ tmpl = j.tmpl
  /\ size = ChunkSize(Len(source)) /\ total = CeilDiv(Len(source), size)
  /\ start = 0 /\ inputs = {} /\ outputs = {}
  /\ age = [p \in Parts |-> Grace] /\ edits = 0
  /\ cache = [p \in CachedParts |-> [version |-> 0, left |-> 0]]
  /\ pc = [w \in Loaders |-> FirstStep(w)] /\ part = [w \in Loaders |-> "mappings"]
  /\ chunk = [w \in Workers |-> NoChunk] /\ loaded = [w \in Workers |-> NoParts]
  /\ read = [w \in Loaders |-> 0] /\ lag = [w \in Loaders |-> 0]
  /\ wrap = -1 /\ final = NoFile /\ unsettled = FALSE
-----------------------------------------------------------------------------
(* split_and_dispatch_chunks *)

\* Mutant: the items of a flushed buffer are numbered one too far.
ChunkOneTooFar(s) == [start |-> s, end |-> Least(s + size, Len(source) - 1)]

\* The items buffered from s on, when there are chunk_size or no more.
ChunkFrom(s) == [start |-> s, end |-> Least(s + size, Len(source)) - 1]

FlushChunk ==
  /\ start < Len(source)
  /\ inputs' = inputs \union {ChunkFrom(start)} /\ start' = ChunkFrom(start).end + 1
  /\ UNCHANGED <<job, outputs, editing, cache, worker, wrap, final, unsettled>>

\* A redelivery, the sweep or a retry: the same split from the start.
SplitAgain ==
  /\ start > 0 /\ start' = 0
  /\ UNCHANGED <<job, inputs, outputs, editing, cache, worker, wrap, final, unsettled>>
-----------------------------------------------------------------------------
(* ChunkProcessingService.process *)

Done == {o.chunk : o \in outputs}

TakeChunk(w, c) ==
  /\ pc[w] = "idle" /\ c \notin Done
  /\ \A v \in Workers : chunk[v] # c
  /\ pc' = [pc EXCEPT ![w] = "get"] /\ chunk' = [chunk EXCEPT ![w] = c]
  /\ unsettled' = (unsettled \/ \E p \in CachedParts : age[p] < Grace)
  /\ UNCHANGED <<job, split, outputs, editing, cache, part, loaded, read, lag, wrap, final>>

KeepOthers == UNCHANGED <<job, split, outputs, editing, chunk, wrap, final, unsettled>>

\* A worker has a part, in version v, and turns to the next.
PartLoaded(w, v) ==
  /\ loaded' = IF w \in Workers THEN [loaded EXCEPT ![w][part[w]] = v] ELSE loaded
  /\ IF part[w] = "mappings"
       THEN part' = [part EXCEPT ![w] = "fields"] /\ pc' = [pc EXCEPT ![w] = "get"]
       ELSE /\ part' = [part EXCEPT ![w] = "mappings"]
            /\ pc' = [pc EXCEPT ![w] = IF w \in Workers THEN "metadata" ELSE FirstStep(w)]

Cached(p) == cache[p].left > 0

\* An empty list, which "if cached:" takes for a miss.
Nothing(p, v) == IF p = "mappings" THEN Sheets[v] = {} ELSE v \in NoFields
Usable(p)     == Cached(p) /\ ~Nothing(p, cache[p].version)

\* Mutant: a hit keeps the entry for another TTL.
HitExtends(w) ==
  /\ pc[w] = "get" /\ Usable(part[w]) /\ PartLoaded(w, cache[part[w]].version)
  /\ cache' = [cache EXCEPT ![part[w]].left = CacheTTL]
  /\ UNCHANGED <<read, lag>> /\ KeepOthers

Hit(w) ==
  /\ pc[w] = "get" /\ Usable(part[w]) /\ PartLoaded(w, cache[part[w]].version)
  /\ UNCHANGED <<cache, read, lag>> /\ KeepOthers

Miss(w) ==
  /\ pc[w] = "get" /\ ~Usable(part[w]) /\ pc' = [pc EXCEPT ![w] = "row"]
  /\ UNCHANGED <<cache, part, loaded, read, lag>> /\ KeepOthers

ReadRow(w) ==
  /\ pc[w] = "row" /\ pc' = [pc EXCEPT ![w] = "fill"]
  /\ read' = [read EXCEPT ![w] = tmpl[part[w]]]
  /\ UNCHANGED <<cache, part, loaded, lag>> /\ KeepOthers

Fill(w) ==
  /\ pc[w] = "fill" /\ PartLoaded(w, read[w])
  /\ cache' = [cache EXCEPT ![part[w]] = [version |-> read[w], left |-> CacheTTL]]
  /\ read' = [read EXCEPT ![w] = 0] /\ lag' = [lag EXCEPT ![w] = 0]
  /\ KeepOthers

ReadMetadata(w) ==
  /\ pc[w] = "metadata" /\ pc' = [pc EXCEPT ![w] = "convert"]
  /\ loaded' = [loaded EXCEPT ![w]["metadata"] = tmpl["metadata"]]
  /\ UNCHANGED <<cache, part, read, lag>> /\ KeepOthers

\* A line of a file: an item's row, or the heading before the rows.
Heading(m) == [item |-> -1, mappings |-> m, fields |-> m]
RowOf(i, t) == [item |-> i, mappings |-> t["mappings"], fields |-> t["fields"]]

\* What becomes of an item.  Without fields nothing is asked of it and it has
\* no values; without mappings no handler sees it.
Fate(i, t) ==
  IF \/ t["fields"] \in NoFields
     \/ Sheets[t["mappings"]] = {} /\ source[i + 1] \notin {"bad", "alien"}
    THEN "blank" ELSE source[i + 1]

\* The items of a chunk that get a row, and these in the file's order.
Converted(c, t) == {i \in c.start .. c.end : Fate(i, t) \notin {"bad", "odd", "alien"}}
Kept(c, t)      == InOrder(Converted(c, t))

\* _convert_chunk
Rows(c, t) == [k \in 1 .. Len(Kept(c, t)) |-> RowOf(Kept(c, t)[k], t)]

\* json.dumps and openpyxl's append raise on values they do not know; str()
\* knows them all.
Refused == CASE format = "geojson" -> {"date"} [] format = "xlsx" -> {"tree"} [] OTHER -> {}

ChunkRaises(c, t) == \E i \in c.start .. c.end : Fate(i, t) \in {"alien"} \union Refused

\* _flush_output, _flush_xlsx: a file as its sheets, of which only xlsx has
\* several.  The heading of a sheet is its column names, that of a text
\* csv's header, xml's root element or geojson's collection.  A workbook
\* cannot be without a sheet.
File(c, t) ==
  IF format # "xlsx" THEN [s \in {"text"} |-> <<Heading(t["metadata"])>> \o Rows(c, t)]
  ELSE IF Rows(c, t) = <<>> THEN [s \in {"Export"} |-> <<>>]
  ELSE IF Sheets[t["mappings"]] = {} THEN [s \in {"Sheet"} |-> <<>>]
  ELSE [s \in Sheets[t["mappings"]] |-> <<Heading(t["mappings"])>> \o Rows(c, t)]

\* A chunk that raises has no output and can be taken again.
ConvertChunk(w) ==
  /\ pc[w] = "convert" /\ pc' = [pc EXCEPT ![w] = "idle"]
  /\ chunk' = [chunk EXCEPT ![w] = NoChunk] /\ loaded' = [loaded EXCEPT ![w] = NoParts]
  /\ outputs' = IF ChunkRaises(chunk[w], loaded[w]) THEN outputs
                ELSE outputs \union {[chunk |-> chunk[w], file |-> File(chunk[w], loaded[w])]}
  /\ UNCHANGED <<job, split, editing, cache, part, read, lag, wrap, final, unsettled>>
-----------------------------------------------------------------------------
(* MergeService.merge *)

\* Mutant: keys in the order storage lists them, as text (below 100).
ListedByName ==
  LET Name(n) == IF n < 10 THEN 11 * n ELSE 11 * (n \div 10) + 1 + (n % 10)
  IN SetToSortSeq(outputs, LAMBDA a, b : Name(a.chunk.start) < Name(b.chunk.start))

\* _list_chunk_keys: by the start in the key, of which no two are equal.
Listed ==
  LET starts == InOrder({o.chunk.start : o \in outputs})
  IN [k \in 1 .. Len(starts) |-> CHOOSE o \in outputs : o.chunk.start = starts[k]]

\* A row without values is, in a sheet, a row without cells, and in a csv
\* without columns an empty line.
Blank(s, line) ==
  /\ line.item # -1
  /\ \/ format = "csv" /\ Sheets[line.mappings] = {}
     \/ /\ format = "xlsx"
        /\ Fate(line.item, line) \in {"blank"} \union (IF s \in Sparse THEN {"part"} ELSE {})

\* Up to where there is anything in a text.
LastShown(s, lines) ==
  CHOOSE k \in 0 .. Len(lines) : /\ k = 0 \/ ~Blank(s, lines[k])
                                 /\ \A j \in k + 1 .. Len(lines) : Blank(s, lines[j])

\* What a merger reads of a text: openpyxl ends a sheet with its last cell,
\* splitlines() drops one empty line at the end.
ReadBack(s, lines) ==
  SubSeq(lines, 1, IF format = "xlsx" THEN LastShown(s, lines)
                   ELSE IF LastShown(s, lines) < Len(lines) THEN Len(lines) - 1
                   ELSE Len(lines))

\* The same lines under a heading that is in the file already.
Body(lines) == IF lines = <<>> THEN <<>> ELSE Tail(lines)

\* CsvMerger, and XlsxMerger for each sheet: the first heading, all rows.  A
\* file without the sheet adds nothing.
Join(texts) ==
  FlattenSeq([k \in 1 .. Len(texts) |->
                IF \A j \in 1 .. k - 1 : texts[j] = <<>> THEN texts[k] ELSE Body(texts[k])])

\* GeoJsonMerger takes the features.  XmlMerger takes what is inside the root
\* element the template has now, the whole text if it is another.
Unwrap(text, m) ==
  IF format = "geojson" \/ Head(text) = Heading(m) THEN Tail(text) ELSE text

Merged(files, m) ==
  LET texts(s) == [k \in 1 .. Len(files) |->
                     IF s \in DOMAIN files[k] THEN ReadBack(s, files[k][s]) ELSE <<>>]
      inner    == [k \in 1 .. Len(files) |-> Unwrap(files[k]["text"], m)]
  IN IF format \in {"csv", "xlsx"}
       THEN [s \in UNION {DOMAIN files[k] : k \in 1 .. Len(files)} |-> Join(texts(s))]
       ELSE [s \in {"text"} |-> <<Heading(m)>> \o FlattenSeq(inner)]

ReadWrap ==
  /\ Cardinality(outputs) = total /\ final = NoFile /\ wrap = -1
  /\ wrap' = tmpl["metadata"]
  /\ UNCHANGED <<job, split, outputs, editing, cache, worker, final, unsettled>>

WriteFinal ==
  /\ wrap # -1 /\ final = NoFile
  /\ final' = Merged([k \in 1 .. total |-> Listed[k].file], wrap)
  /\ UNCHANGED <<job, split, outputs, editing, cache, worker, wrap, unsettled>>
-----------------------------------------------------------------------------
(* The template's editors, and time *)

\* A field that a mapping refers to cannot be deleted (on_delete=PROTECT).
Edit(p) ==
  /\ edits < MaxEdits /\ tmpl[p] < LastVersion /\ final = NoFile
  /\ tmpl' = [tmpl EXCEPT ![p] = @ + 1] /\ age' = [age EXCEPT ![p] = 0]
  /\ tmpl'["fields"] \in NoFields => Sheets[tmpl'["mappings"]] = {}
  /\ edits' = edits + 1
  /\ unsettled' = (unsettled \/ outputs # {} \/ \E w \in Workers : chunk[w] # NoChunk)
  /\ UNCHANGED <<job, split, outputs, cache, worker, wrap, final>>

Tick ==
  /\ \A w \in Loaders : pc[w] = "fill" => lag[w] < MaxLag
  /\ lag' = [w \in Loaders |-> IF pc[w] = "fill" THEN lag[w] + 1 ELSE 0]
  /\ age' = [p \in Parts |-> Least(age[p] + 1, Grace)]
  /\ cache' = [p \in CachedParts |-> IF cache[p].left > 1 THEN [cache[p] EXCEPT !.left = @ - 1]
                                     ELSE [version |-> 0, left |-> 0]]
  /\ UNCHANGED <<job, split, outputs, tmpl, edits, pc, part, chunk, loaded, read>>
  /\ UNCHANGED <<wrap, final, unsettled>>
-----------------------------------------------------------------------------
Load(w) == Hit(w) \/ Miss(w) \/ ReadRow(w) \/ Fill(w)

Next ==
  \/ FlushChunk \/ SplitAgain
  \/ \E w \in Loaders : Load(w)
  \/ \E w \in Workers : \/ \E c \in inputs : TakeChunk(w, c)
                         \/ ReadMetadata(w) \/ ConvertChunk(w)
  \/ ReadWrap \/ WriteFinal
  \/ \E p \in Parts : Edit(p)
  \/ Tick

Spec == Init /\ [][Next]_vars
-----------------------------------------------------------------------------
(* Properties *)

Items  == 0 .. Len(source) - 1
Chunk  == [start : Items, end : Items]

\* Every variable has the type its declaration describes; an output is of a
\* chunk that was split off.
TypeOK ==
  /\ \E j \in Jobs : j.source = source /\ j.format = format
  /\ size \in Nat \ {0} /\ total \in Nat \ {0}
  /\ start \in 0 .. Len(source) /\ inputs \subseteq Chunk
  /\ Done \subseteq inputs
  /\ tmpl \in Template /\ age \in [Parts -> 0 .. Grace] /\ edits \in 0 .. MaxEdits
  /\ cache \in [CachedParts -> [version : Versions, left : 0 .. CacheTTL]]
  /\ pc \in [Loaders -> {"idle", "get", "row", "fill", "metadata", "convert"}]
  /\ part \in [Loaders -> CachedParts]
  /\ chunk \in [Workers -> inputs \union {NoChunk}]
  /\ loaded \in [Workers -> Template]
  /\ read \in [Loaders -> Versions] /\ lag \in [Loaders -> 0 .. MaxLag]
  /\ wrap \in Versions \union {-1} /\ unsettled \in BOOLEAN

\* The k-th chunk of the job.
ChunkNo(k) == ChunkFrom(k * size)

\* What JobPipeline takes as given: however often the split starts again, it
\* makes exactly total_chunks chunks, the count submit() promised before a
\* single one was cut, and each item is in one of them.
SplitMatchesCount ==
  /\ inputs \subseteq {ChunkNo(k) : k \in 0 .. total - 1}
  /\ start = Len(source) =>
       /\ inputs = {ChunkNo(k) : k \in 0 .. total - 1}
       /\ \A i \in Items : \E c \in inputs : i \in c.start .. c.end
  /\ \A c, d \in inputs : c # d => c.end < d.start \/ d.end < c.start

\* Where in a file's lines the rows are.
RowsOf(lines) == {k \in DOMAIN lines : lines[k].item # -1}

\* The rows of a chunk's items that are in a file and not blank, each with its
\* sheet; and those that are due when the chunk is converted with t.
RowsIn(file, c) ==
  UNION {{<<s, file[s][k]>> : k \in {j \in RowsOf(file[s]) : /\ ~Blank(s, file[s][j])
                                                            /\ file[s][j].item \in c.start .. c.end}}
          : s \in DOMAIN file}

SheetsOf(t) == IF format = "xlsx" THEN Sheets[t["mappings"]] ELSE {"text"}

RowsDue(c, t) ==
  UNION {{<<s, RowOf(i, t)>> : i \in {j \in Converted(c, t) : ~Blank(s, RowOf(j, t))}}
          : s \in SheetsOf(t)}

\* Whatever is edited meanwhile, the rows of every sheet are in the order of
\* the source, none twice, and of each chunk the file has the rows of one
\* conversion: those of all its items that convert, on every sheet that its
\* mappings name, unless they are blank there.
RowsInOrder ==
  final # NoFile =>
    /\ \A s \in DOMAIN final : \A j, k \in RowsOf(final[s]) :
         j < k => final[s][j].item < final[s][k].item
    /\ \A k \in 0 .. total - 1 : \E m, f \in Versions :
         RowsIn(final, ChunkNo(k)) = RowsDue(ChunkNo(k), [mappings |-> m, fields |-> f])

\* The lines of a text that are not blank, and a file without its blank lines
\* and its empty sheets.
Shown(s, lines) ==
  LET at == InOrder({k \in DOMAIN lines : ~Blank(s, lines[k])})
  IN [k \in 1 .. Len(at) |-> lines[at[k]]]

Content(file) == {<<s, Shown(s, file[s])>> : s \in {t \in DOMAIN file : file[t] # <<>>}}

\* But for blank rows the chunks cannot be told from the result: unless the
\* template is edited during the job or just before, the file is that of one
\* conversion of all items with the template as it is.
ChunksAreInvisible ==
  final # NoFile /\ ~unsettled =>
    Content(final) =
      Content(Merged(<<File([start |-> 0, end |-> Len(source) - 1], tmpl)>>, tmpl["metadata"]))

\* Nobody passes on a part that was edited long ago: a worker about to fill the
\* cache has hung since before the edit, and an entry that is not the
\* template's has less to live than is left of TTL and lag since the edit.
CopiesAreRecent ==
  /\ \A w \in Loaders : pc[w] = "fill" /\ read[w] # tmpl[part[w]] => age[part[w]] <= lag[w]
  /\ \A p \in CachedParts :
       Cached(p) /\ cache[p].version # tmpl[p] => age[p] + cache[p].left <= Grace
-----------------------------------------------------------------------------
(* What a document of the repository says of the program, and a run refutes. *)

\* README: "A batch shouldn't run against a mapping that's mid-edit", for which
\* a published template "becomes read-only".
OneMappingPerBatch ==
  final # NoFile => \A s \in DOMAIN final : \A j, k \in RowsOf(final[s]) :
    final[s][j].mappings = final[s][k].mappings
=============================================================================
