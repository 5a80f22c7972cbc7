--------------------------- MODULE DataPath_proofs ---------------------------
(***************************************************************************)
(* What TLAPS proves of DataPath, for any source file, any chunk sizes and *)
(* any number of workers.                                                  *)
(***************************************************************************)
EXTENDS DataPath_sequences

\* Python's -(-n // s): the least number of chunks of s items that hold n.
LEMMA CeilDivFacts ==
  ASSUME NEW n \in Nat \ {0}, NEW s \in Nat \ {0}
  PROVE  /\ CeilDiv(n, s) \in Nat \ {0}
         /\ n <= CeilDiv(n, s) * s /\ CeilDiv(n, s) * s < n + s
<1> DEFINE q == (n + s - 1) \div s
           m == (n + s - 1) % s
<1>1. q \in Int /\ m \in 0 .. s - 1 /\ n + s - 1 = s * q + m
  OBVIOUS
<1> HIDE DEF q, m
<1>2. s * q >= n /\ s * q < n + s
  BY <1>1
<1>3. q >= 1
  BY <1>1, <1>2
<1>4. QED  BY <1>1, <1>2, <1>3 DEF CeilDiv, q

\* Chunk k has an item exactly when k is below the count.
LEMMA ChunkHasItems ==
  ASSUME NEW n \in Nat \ {0}, NEW s \in Nat \ {0}, NEW k \in Nat
  PROVE  k * s < n <=> k < CeilDiv(n, s)
<1> DEFINE t == CeilDiv(n, s)
<1>1. t \in Nat \ {0} /\ n <= t * s /\ t * s < n + s
  BY CeilDivFacts
<1> HIDE DEF t
<1>2. ASSUME k < t  PROVE k * s < n
  <2>1. k + 1 <= t /\ (k + 1) * s <= t * s
    BY <1>1, <1>2
  <2>2. QED  BY <1>1, <2>1
<1>3. ASSUME k >= t  PROVE k * s >= n
  <2>1. k * s >= t * s
    BY <1>1, <1>3
  <2>2. QED  BY <1>1, <2>1
<1>4. QED  BY <1>1, <1>2, <1>3 DEF t

\* Sizes stay within the bounds of the settings.
LEMMA ChunkSizeBounds ==
  ASSUME NEW n \in Nat \ {0}
  PROVE  ChunkSize(n) \in MinSize .. MaxSize
<1>1. CeilDiv(n, TargetChunks) \in Nat
  BY CeilDivFacts, SizesAssumption
<1>2. QED  BY <1>1, SizesAssumption DEF ChunkSize, Least
-----------------------------------------------------------------------------
(* The split *)

\* What submit() has fixed.
Sized ==
  /\ source \in Seq(Kinds) /\ Len(source) \in Nat \ {0}
  /\ size = ChunkSize(Len(source)) /\ total = CeilDiv(Len(source), size)

\* The split under way has made its first k chunks, in this run or before.
SplitProgress ==
  \E k \in 0 .. total : /\ start = Least(k * size, Len(source))
                        /\ \A j \in 0 .. k - 1 : ChunkNo(j) \in inputs

SplitInv ==
  /\ Sized /\ SplitProgress
  /\ inputs \subseteq {ChunkNo(k) : k \in 0 .. total - 1}

LEMMA SizedFacts ==
  ASSUME Sized
  PROVE  /\ size \in Nat \ {0} /\ total \in Nat \ {0} /\ Len(source) \in Nat \ {0}
         /\ \A k \in Nat : k * size < Len(source) <=> k < total
<1>1. size \in Nat \ {0}
  BY ChunkSizeBounds, SizesAssumption DEF Sized
<1>2. QED  BY <1>1, CeilDivFacts, ChunkHasItems DEF Sized

\* The k-th chunk starts at its k * size-th item and stops at or before the next.
LEMMA ChunkBounds ==
  ASSUME Sized, NEW k \in 0 .. total - 1
  PROVE  /\ ChunkNo(k) \in Chunk /\ ChunkNo(k).start = k * size
         /\ ChunkNo(k).start <= ChunkNo(k).end
         /\ ChunkNo(k).end < (k + 1) * size
         /\ (k + 1) * size <= Len(source) => ChunkNo(k).end = (k + 1) * size - 1
         /\ (k + 1) * size >= Len(source) => ChunkNo(k).end = Len(source) - 1
<1>1. size \in Nat \ {0} /\ Len(source) \in Nat \ {0} /\ k * size < Len(source)
  BY SizedFacts
<1>2. k * size \in Nat /\ (k + 1) * size = k * size + size
  BY <1>1
<1>3. ChunkNo(k) = [start |-> k * size, end |-> Least(k * size + size, Len(source)) - 1]
  BY DEF ChunkNo, ChunkFrom
<1>4. Least(k * size + size, Len(source)) - 1 \in k * size .. Len(source) - 1
  BY <1>1, <1>2 DEF Least
<1>5. ChunkNo(k) \in Chunk
  BY <1>1, <1>2, <1>3, <1>4 DEF Chunk, Items
<1>6. QED  BY <1>1, <1>2, <1>3, <1>4, <1>5 DEF Least

LEMMA InitSplit == Init => SplitInv
<1> SUFFICES ASSUME Init  PROVE SplitInv
  OBVIOUS
<1>1. Sized
  BY JobsAssumption DEF Init, Sized
<1>2. SplitProgress
  <2>1. 0 \in 0 .. total /\ 0 * size = 0 /\ start = Least(0 * size, Len(source))
    BY <1>1, SizedFacts DEF Init, Least
  <2>2. QED  BY <2>1 DEF SplitProgress
<1>3. QED  BY <1>1, <1>2 DEF Init, SplitInv

LEMMA NextSplit == SplitInv /\ [Next]_vars => SplitInv'
<1> SUFFICES ASSUME SplitInv, [Next]_vars  PROVE SplitInv'
  OBVIOUS
<1>1. UNCHANGED job
  BY DEF Next, vars, FlushChunk, SplitAgain, Load, Hit, Miss, ReadRow, Fill, KeepOthers,
         TakeChunk, ReadMetadata, ConvertChunk, ReadWrap, WriteFinal, Edit, Tick
<1>2. Sized' /\ \A k : ChunkNo(k)' = ChunkNo(k)
  BY <1>1 DEF job, SplitInv, Sized, ChunkNo, ChunkFrom
<1>3. CASE UNCHANGED split
  BY <1>1, <1>2, <1>3 DEF job, split, SplitInv, SplitProgress
<1>4. CASE SplitAgain
  <2>1. 0 \in 0 .. total /\ 0 * size = 0 /\ start' = Least(0 * size, Len(source))
    BY <1>4, SizedFacts DEF SplitInv, SplitAgain, Least
  <2>2. SplitProgress'
    BY <1>1, <2>1 DEF job, SplitProgress
  <2>3. QED  BY <1>1, <1>2, <1>4, <2>2 DEF job, SplitAgain, SplitInv
<1>5. CASE FlushChunk
  <2>1. PICK k \in 0 .. total : /\ start = Least(k * size, Len(source))
                                /\ \A j \in 0 .. k - 1 : ChunkNo(j) \in inputs
    BY DEF SplitInv, SplitProgress
  <2>2. /\ size \in Nat \ {0} /\ total \in Nat \ {0} /\ Len(source) \in Nat \ {0}
        /\ k * size \in Nat /\ k + 1 \in Nat /\ (k + 1) * size = k * size + size
    BY <2>1, SizedFacts DEF SplitInv
  <2>3. start = k * size /\ k < total
    BY <1>5, <2>1, <2>2, SizedFacts DEF FlushChunk, Least, SplitInv
  <2>4. inputs' = inputs \union {ChunkNo(k)} /\ start' = ChunkNo(k).end + 1
    BY <1>5, <2>3 DEF FlushChunk, ChunkNo
  <2>5. start' = Least((k + 1) * size, Len(source))
    <3>1. k \in 0 .. total - 1 /\ Sized
      BY <2>1, <2>2, <2>3 DEF SplitInv
    <3>2. /\ ChunkNo(k).end + 1 = IF (k + 1) * size <= Len(source) THEN (k + 1) * size
                                  ELSE Len(source)
      <4>1. (k + 1) * size \in Nat
        BY <2>2
      <4>2. \/ (k + 1) * size <= Len(source) /\ ChunkNo(k).end = (k + 1) * size - 1
            \/ (k + 1) * size > Len(source) /\ ChunkNo(k).end = Len(source) - 1
        BY <2>2, <3>1, <4>1, ChunkBounds
      <4>3. QED  BY <2>2, <4>1, <4>2
    <3>3. QED  BY <2>4, <3>2 DEF Least
  <2>6. SplitProgress'
    <3>1. k + 1 \in 0 .. total /\ \A j \in 0 .. (k + 1) - 1 : ChunkNo(j) \in inputs'
      BY <2>1, <2>2, <2>3, <2>4
    <3>2. QED  BY <1>1, <1>2, <2>5, <3>1 DEF job, SplitProgress
  <2>7. inputs' \subseteq {ChunkNo(j) : j \in 0 .. total - 1}
    BY <2>1, <2>2, <2>3, <2>4 DEF SplitInv
  <2>8. QED  BY <1>1, <1>2, <2>6, <2>7 DEF job, SplitInv
<1>6. QED
  BY <1>3, <1>4, <1>5
     DEF Next, vars, split, Load, Hit, Miss, ReadRow, Fill, KeepOthers,
         TakeChunk, ReadMetadata, ConvertChunk, ReadWrap, WriteFinal, Edit, Tick

LEMMA SplitInvMatches == SplitInv => SplitMatchesCount
<1> SUFFICES ASSUME SplitInv  PROVE SplitMatchesCount
  OBVIOUS
<1>1. /\ Sized /\ size \in Nat \ {0} /\ total \in Nat \ {0} /\ Len(source) \in Nat \ {0}
      /\ \A k \in Nat : k * size < Len(source) <=> k < total
  BY SizedFacts DEF SplitInv
<1>2. ASSUME start = Len(source)
      PROVE  inputs = {ChunkNo(k) : k \in 0 .. total - 1}
  <2>1. PICK k \in 0 .. total : /\ start = Least(k * size, Len(source))
                                /\ \A j \in 0 .. k - 1 : ChunkNo(j) \in inputs
    BY DEF SplitInv, SplitProgress
  <2>2. k * size \in Nat /\ ~(k * size < Len(source))
    BY <1>1, <1>2, <2>1 DEF Least
  <2>3. k = total
    BY <1>1, <2>1, <2>2
  <2>4. QED  BY <2>1, <2>3 DEF SplitInv
<1>3. ASSUME NEW i \in Items  PROVE \E k \in 0 .. total - 1 : i \in ChunkNo(k).start .. ChunkNo(k).end
  <2> DEFINE k == i \div size
  <2>1. i \in Nat /\ i < Len(source)
    BY <1>1 DEF Items
  <2>2. k \in Nat /\ k * size <= i /\ i < (k + 1) * size
    <3>1. i = size * (i \div size) + (i % size) /\ i % size \in 0 .. size - 1 /\ k \in Nat
      BY <1>1, <2>1
    <3> HIDE DEF k
    <3>2. i = k * size + (i % size)
      BY <1>1, <3>1 DEF k
    <3>3. (k + 1) * size = k * size + size /\ k * size \in Nat
      BY <1>1, <3>1
    <3>4. QED  BY <1>1, <2>1, <3>1, <3>2, <3>3
  <2> HIDE DEF k
  <2>3. k * size \in Nat /\ (k + 1) * size \in Nat /\ k \in 0 .. total - 1
    BY <1>1, <2>1, <2>2
  <2>4. i <= ChunkNo(k).end
    <3>1. \/ (k + 1) * size <= Len(source) /\ ChunkNo(k).end = (k + 1) * size - 1
          \/ (k + 1) * size > Len(source) /\ ChunkNo(k).end = Len(source) - 1
      BY <1>1, <2>3, ChunkBounds
    <3>2. QED  BY <1>1, <2>1, <2>2, <2>3, <3>1
  <2>5. i \in ChunkNo(k).start .. ChunkNo(k).end
    BY <1>1, <2>1, <2>2, <2>3, <2>4, ChunkBounds DEF Chunk, Items
  <2>6. QED  BY <2>3, <2>5
<1>4. ASSUME NEW j \in 0 .. total - 1, NEW k \in 0 .. total - 1, j < k
      PROVE  ChunkNo(j).end < ChunkNo(k).start
  <2>1. (j + 1) * size <= k * size
    BY <1>1, <1>4
  <2>2. ChunkNo(j).end < (j + 1) * size /\ ChunkNo(k).start = k * size
        /\ ChunkNo(j).end \in Nat /\ (j + 1) * size \in Nat /\ k * size \in Nat
    BY <1>1, ChunkBounds DEF Chunk, Items
  <2>3. QED  BY <2>1, <2>2
<1>5. ASSUME NEW c \in inputs, NEW d \in inputs, c # d
      PROVE  c.end < d.start \/ d.end < c.start
  <2>1. PICK j \in 0 .. total - 1, k \in 0 .. total - 1 : c = ChunkNo(j) /\ d = ChunkNo(k)
    BY DEF SplitInv
  <2>2. j < k \/ k < j
    BY <1>1, <1>5, <2>1
  <2>3. QED  BY <1>4, <2>1, <2>2
<1>6. QED  BY <1>2, <1>3, <1>5 DEF SplitInv, SplitMatchesCount

\* However often the split starts again, for any file and any sizes: no chunk
\* but the total_chunks ones that submit() counted, all of them when a split
\* ends, every item in one of them and none in two.
THEOREM SplitCorrect == Spec => []SplitMatchesCount
BY InitSplit, NextSplit, SplitInvMatches, PTL DEF Spec
-----------------------------------------------------------------------------
(* Types *)

\* A worker that is not idle has a chunk.
BusyHaveChunk == \A w \in Workers : pc[w] # "idle" => chunk[w] \in inputs

PathInv == TypeOK /\ Sized /\ BusyHaveChunk

LEMMA Times ==
  /\ CacheTTL \in Nat \ {0} /\ MaxLag \in Nat /\ Grace \in Nat /\ 0 \in 0 .. MaxEdits
  /\ 0 \in Versions /\ 0 \in 0 .. MaxLag /\ 0 \in 0 .. CacheTTL /\ CacheTTL \in 0 .. CacheTTL
  /\ Versions \subseteq Nat /\ Grace \in 0 .. Grace /\ 0 \in 0 .. Grace
BY TimesAssumption DEF Grace, Versions

LEMMA PartFacts ==
  /\ CachedParts = {"mappings", "fields"} /\ CachedParts \subseteq Parts
  /\ Parts = {"mappings", "fields", "metadata"} /\ NoParts \in Template
BY Times DEF CachedParts, Parts, NoParts, Template

LEMMA InitPath == Init => PathInv
<1> SUFFICES ASSUME Init  PROVE PathInv
  OBVIOUS
<1>1. Sized
  BY JobsAssumption DEF Init, Sized
<1>2. size \in Nat \ {0} /\ total \in Nat \ {0} /\ Len(source) \in Nat \ {0}
  BY <1>1, SizedFacts
<1>3. PICK j \in Jobs : source = j.source /\ format = j.format /\ tmpl = j.tmpl
  BY DEF Init
<1>4. (\E i \in Jobs : i.source = source /\ i.format = format) /\ tmpl \in Template
  BY <1>3, JobsAssumption
<1>5. size = ChunkSize(Len(source)) /\ total = CeilDiv(Len(source), size)
  BY DEF Init
<1>6. /\ start \in 0 .. Len(source) /\ inputs \subseteq Chunk /\ Done \subseteq inputs
  BY <1>2 DEF Init, Done
<1>7. /\ age \in [Parts -> 0 .. Grace] /\ edits \in 0 .. MaxEdits
      /\ cache \in [CachedParts -> [version : Versions, left : 0 .. CacheTTL]]
  BY Times, PartFacts DEF Init
<1>8. pc \in [Loaders -> {"idle", "get", "row", "fill", "metadata", "convert"}]
  BY DEF Init, FirstStep
<1>9. TypeOK
  BY <1>2, <1>4, <1>6, <1>7, <1>8, Times, PartFacts DEF Init, TypeOK
<1>10. BusyHaveChunk
  BY DEF Init, BusyHaveChunk, FirstStep, Loaders
<1>11. QED  BY <1>1, <1>9, <1>10 DEF PathInv

\* A load, of a worker or of a stranger.
LEMMA LoadPath ==
  ASSUME PathInv, NEW w \in Loaders, Load(w)  PROVE PathInv'
<1> USE Times, PartFacts DEF PathInv, TypeOK, BusyHaveChunk
<1> DEFINE PCs == {"idle", "get", "row", "fill", "metadata", "convert"}
<1>1. UNCHANGED <<job, split, outputs, editing, chunk, wrap, final, unsettled>>
  BY DEF Load, Hit, Miss, ReadRow, Fill, KeepOthers
<1>2. pc[w] # "idle" /\ \A v \in Loaders \ {w} : pc'[v] = pc[v]
  BY DEF Load, Hit, Miss, ReadRow, Fill, PartLoaded
<1>3. ASSUME NEW v \in Versions, PartLoaded(w, v)
      PROVE  /\ loaded' \in [Workers -> Template] /\ part' \in [Loaders -> CachedParts]
             /\ pc' \in [Loaders -> PCs]
  <2>1. loaded' \in [Workers -> Template]
    <3>1. CASE w \in Workers
      <4>1. loaded' = [loaded EXCEPT ![w][part[w]] = v] /\ part[w] \in Parts
        BY <1>3, <3>1 DEF PartLoaded
      <4>2. [loaded[w] EXCEPT ![part[w]] = v] \in Template
        BY <3>1, <4>1 DEF Template
      <4>3. QED  BY <3>1, <4>1, <4>2
    <3>2. CASE w \notin Workers
      BY <1>3, <3>2 DEF PartLoaded
    <3>3. QED  BY <3>1, <3>2
  <2>2. pc' \in [Loaders -> PCs] /\ part' \in [Loaders -> CachedParts]
    BY <1>3 DEF PartLoaded, FirstStep
  <2>3. QED  BY <2>1, <2>2
<1>4. /\ loaded' \in [Workers -> Template] /\ part' \in [Loaders -> CachedParts]
      /\ pc' \in [Loaders -> PCs] /\ read' \in [Loaders -> Versions]
      /\ lag' \in [Loaders -> 0 .. MaxLag]
      /\ cache' \in [CachedParts -> [version : Versions, left : 0 .. CacheTTL]]
  <2>1. CASE Hit(w)
    BY <1>3, <2>1 DEF Hit
  <2>2. CASE Miss(w)
    BY <2>2 DEF Miss
  <2>3. CASE ReadRow(w)
    BY <2>3 DEF ReadRow, Template
  <2>4. CASE Fill(w)
    BY <1>3, <2>4 DEF Fill
  <2>5. QED  BY <2>1, <2>2, <2>3, <2>4 DEF Load
<1>5. TypeOK'
  BY <1>1, <1>4 DEF job, split, editing, Chunk, Items, Done, Sized
<1>6. BusyHaveChunk'
  BY <1>1, <1>2 DEF split, Loaders
<1>7. Sized'
  BY <1>1 DEF job, Sized
<1>8. QED  BY <1>5, <1>6, <1>7

LEMMA NextPath == PathInv /\ [Next]_vars => PathInv'
<1> SUFFICES ASSUME PathInv, [Next]_vars  PROVE PathInv'
  OBVIOUS
<1> USE Times, PartFacts DEF PathInv, TypeOK, BusyHaveChunk
<1>0. /\ size \in Nat \ {0} /\ Len(source) \in Nat \ {0}
      /\ Workers \subseteq Loaders
  BY SizedFacts DEF Loaders
<1>1. CASE FlushChunk
  <2>1. start \in Nat /\ start < Len(source)
    BY <1>0, <1>1 DEF FlushChunk
  <2>2. ChunkFrom(start) = [start |-> start, end |-> Least(start + size, Len(source)) - 1]
    BY DEF ChunkFrom
  <2>3. Least(start + size, Len(source)) - 1 \in start .. Len(source) - 1
    BY <1>0, <2>1 DEF Least
  <2>4. ChunkFrom(start) \in Chunk /\ start' \in 0 .. Len(source)
    BY <1>0, <1>1, <2>1, <2>2, <2>3 DEF FlushChunk, Chunk, Items
  <2>5. QED
    BY <1>1, <2>4 DEF FlushChunk, job, editing, worker, Chunk, Items, Done, Sized
<1>2. CASE SplitAgain
  <2>1. /\ UNCHANGED <<job, inputs, outputs, editing, cache, worker, wrap, unsettled>>
        /\ start' \in 0 .. Len(source)
    BY <1>0, <1>2 DEF SplitAgain
  <2>2. QED  BY <2>1 DEF job, editing, worker, Chunk, Items, Done, Sized
<1>3. ASSUME NEW w \in Loaders, Load(w)  PROVE PathInv'
  BY <1>3, LoadPath
<1>4. ASSUME NEW w \in Workers, NEW c \in inputs, TakeChunk(w, c)  PROVE PathInv'
  BY <1>0, <1>4 DEF TakeChunk, job, split, editing, Chunk, Items, Done, Sized
<1>5. ASSUME NEW w \in Workers, ReadMetadata(w)  PROVE PathInv'
  <2>1. [loaded[w] EXCEPT !["metadata"] = tmpl["metadata"]] \in Template
    BY DEF Template
  <2>2. loaded' \in [Workers -> Template]
    BY <1>5, <2>1 DEF ReadMetadata
  <2>3. QED
    BY <1>0, <1>5, <2>2
       DEF ReadMetadata, KeepOthers, job, split, editing, Chunk, Items, Done, Sized
<1>6. ASSUME NEW w \in Workers, ConvertChunk(w)  PROVE PathInv'
  <2>1. chunk[w] \in inputs
    BY <1>6 DEF ConvertChunk
  <2>2. Done' \subseteq Done \union {chunk[w]}
    BY <1>6 DEF ConvertChunk, Done
  <2>3. loaded' \in [Workers -> Template] /\ chunk' \in [Workers -> inputs \union {NoChunk}]
        /\ \A v \in Workers : pc'[v] # "idle" => chunk'[v] = chunk[v]
    <3>1. /\ pc' = [pc EXCEPT ![w] = "idle"] /\ chunk' = [chunk EXCEPT ![w] = NoChunk]
          /\ loaded' = [loaded EXCEPT ![w] = NoParts]
      BY <1>6 DEF ConvertChunk
    <3>2. \A v \in Workers : pc'[v] # "idle" => v # w
      BY <1>0, <3>1
    <3>3. QED  BY <3>1, <3>2
  <2>4. QED
    BY <1>0, <1>6, <2>1, <2>2, <2>3 DEF ConvertChunk, job, split, editing, Chunk, Items, Sized
<1>7. CASE ReadWrap
  BY <1>7 DEF ReadWrap, job, split, editing, worker, Chunk, Items, Done, Sized, Template
<1>8. CASE WriteFinal
  BY <1>8 DEF WriteFinal, job, split, editing, worker, Chunk, Items, Done, Sized
<1>9. ASSUME NEW p \in Parts, Edit(p)  PROVE PathInv'
  <2>3. tmpl[p] + 1 \in Versions /\ edits' \in 0 .. MaxEdits
    <3>1. tmpl[p] \in Versions /\ tmpl[p] < LastVersion
      BY <1>9 DEF Edit, Template
    <3>2. edits \in 0 .. MaxEdits /\ edits < MaxEdits /\ edits' = edits + 1
      BY <1>9 DEF Edit
    <3>3. QED  BY <3>1, <3>2, TimesAssumption DEF Versions
  <2>4. tmpl' \in Template /\ age' \in [Parts -> 0 .. Grace]
    <3>1. tmpl' = [tmpl EXCEPT ![p] = tmpl[p] + 1] /\ age' = [age EXCEPT ![p] = 0]
      BY <1>9 DEF Edit
    <3>2. QED  BY <2>3, <3>1 DEF Template
  <2>5. unsettled' \in BOOLEAN
    BY <1>9 DEF Edit
  <2>6. QED
    BY <1>9, <2>3, <2>4, <2>5 DEF Edit, job, split, worker, Chunk, Items, Done, Sized
<1>10. CASE Tick
  <2>1. lag' \in [Loaders -> 0 .. MaxLag]
    <3>1. ASSUME NEW w \in Loaders
          PROVE  (IF pc[w] = "fill" THEN lag[w] + 1 ELSE 0) \in 0 .. MaxLag
      <4>1. lag[w] \in 0 .. MaxLag /\ (pc[w] = "fill" => lag[w] < MaxLag)
        BY <1>10 DEF Tick
      <4>2. QED  BY <4>1, TimesAssumption
    <3>2. lag' = [w \in Loaders |-> IF pc[w] = "fill" THEN lag[w] + 1 ELSE 0]
      BY <1>10 DEF Tick
    <3>3. QED  BY <3>1, <3>2
  <2>2. age' \in [Parts -> 0 .. Grace]
    <3>1. \A p \in Parts : Least(age[p] + 1, Grace) \in 0 .. Grace
      BY DEF Least
    <3>2. age' = [p \in Parts |-> Least(age[p] + 1, Grace)]
      BY <1>10 DEF Tick
    <3>3. QED  BY <3>1, <3>2
  <2>3. cache' \in [CachedParts -> [version : Versions, left : 0 .. CacheTTL]]
    <3>1. ASSUME NEW p \in CachedParts, cache[p].left > 1
          PROVE  [cache[p] EXCEPT !.left = @ - 1] \in [version : Versions, left : 0 .. CacheTTL]
      <4>1. cache[p] \in [version : Versions, left : 0 .. CacheTTL]
        OBVIOUS
      <4>2. cache[p].left - 1 \in 0 .. CacheTTL
        BY <3>1, <4>1
      <4>3. QED  BY <4>1, <4>2
    <3>2. cache' = [p \in CachedParts |->
                      IF cache[p].left > 1 THEN [cache[p] EXCEPT !.left = @ - 1]
                                           ELSE [version |-> 0, left |-> 0]]
      BY <1>10 DEF Tick
    <3>3. QED  BY <3>1, <3>2
  <2>4. QED
    BY <1>10, <2>1, <2>2, <2>3 DEF Tick, job, split, Chunk, Items, Done, Sized
<1>11. CASE UNCHANGED vars
  BY <1>11 DEF vars, job, split, editing, worker, Chunk, Items, Done, Sized
<1>12. QED
  BY <1>1, <1>2, <1>3, <1>4, <1>5, <1>6, <1>7, <1>8, <1>9, <1>10, <1>11 DEF Next

\* Every variable has its type, and outputs are only of chunks that a split
\* has made, for any jobs, sizes, workers and edits.
THEOREM TypeCorrect == Spec => []TypeOK
<1>1. PathInv => TypeOK
  BY DEF PathInv
<1>2. QED  BY <1>1, InitPath, NextPath, PTL DEF Spec
-----------------------------------------------------------------------------
(* Outputs and the merge *)

AllChunks == {ChunkNo(k) : k \in 0 .. total - 1}

\* A chunk has one output, made with some version of the template, and when a
\* merge has begun every chunk has one.
OutputsInv ==
  /\ \A o \in outputs : \E t \in Template : o = [chunk |-> o.chunk, file |-> File(o.chunk, t)]
  /\ \A o, p \in outputs : o.chunk = p.chunk => o = p
  /\ \A w \in Workers : chunk[w] \notin Done
  /\ \A v, w \in Workers : chunk[v] = chunk[w] /\ chunk[v] # NoChunk => v = w
  /\ wrap # -1 => Done = AllChunks

OrderInv == PathInv /\ SplitInv /\ OutputsInv /\ RowsInOrder

\* total_chunks outputs are an output of each chunk.
LEMMA CountedOutputsAreAll ==
  ASSUME PathInv, SplitInv, OutputsInv, Cardinality(outputs) = total
  PROVE  Done = AllChunks
<1> DEFINE n == total
           cf == [k \in 1 .. n |-> ChunkNo(k - 1)]
           of == [o \in outputs |-> o.chunk]
<1>1. /\ n \in Nat \ {0} /\ size \in Nat \ {0} /\ Sized /\ Done \subseteq AllChunks
      /\ Cardinality(outputs) = n
  BY SizedFacts DEF SplitInv, PathInv, TypeOK, AllChunks
<1>2. IsFiniteSet(AllChunks) /\ Cardinality(AllChunks) = n
  <2>1. \A k \in 1 .. n : k - 1 \in 0 .. n - 1 /\ ChunkNo(k - 1).start = (k - 1) * size
    BY <1>1, ChunkBounds
  <2>2. ASSUME NEW j \in 1 .. n, NEW k \in 1 .. n, ChunkNo(j - 1) = ChunkNo(k - 1)
        PROVE  j = k
    <3>1. (j - 1) * size = (k - 1) * size
      BY <2>1, <2>2
    <3>2. QED  BY <1>1, <3>1
  <2>3. \A c \in AllChunks : \E k \in 1 .. n : ChunkNo(k - 1) = c
    <3>1. SUFFICES ASSUME NEW j \in 0 .. n - 1  PROVE \E k \in 1 .. n : ChunkNo(k - 1) = ChunkNo(j)
      BY DEF AllChunks
    <3>2. j + 1 \in 1 .. n /\ (j + 1) - 1 = j
      BY <1>1
    <3>3. QED  BY <3>2
  <2>4. \A k \in 1 .. n : ChunkNo(k - 1) \in AllChunks
    BY <2>1 DEF AllChunks
  <2> HIDE DEF n
  <2>5. /\ cf \in [1 .. n -> AllChunks] /\ \A j, k \in 1 .. n : j # k => cf[j] # cf[k]
        /\ \A c \in AllChunks : \E k \in 1 .. n : cf[k] = c
    BY <2>2, <2>3, <2>4
  <2> HIDE DEF cf
  <2>6. cf \in Injection(1 .. n, AllChunks) /\ cf \in Surjection(1 .. n, AllChunks)
    BY <2>5 DEF Injection, IsInjective, Surjection
  <2>7. ExistsBijection(1 .. n, AllChunks)
    BY <2>6 DEF ExistsBijection, Bijection
  <2>8. IsFiniteSet(1 .. n) /\ Cardinality(1 .. n) = n
    BY <1>1, FS_Interval
  <2>9. QED  BY <2>7, <2>8, FS_Bijection
<1>3. of \in Injection(outputs, AllChunks)
  <2>1. of \in [outputs -> AllChunks] /\ \A o, p \in outputs : o # p => of[o] # of[p]
    BY <1>1 DEF OutputsInv, Done
  <2> HIDE DEF of
  <2>2. QED  BY <2>1 DEF Injection, IsInjective
<1> HIDE DEF n, of
<1>4. of \in Surjection(outputs, AllChunks)
  BY <1>1, <1>2, <1>3, FS_Injection
<1>5. \A c \in AllChunks : \E o \in outputs : o.chunk = c
  <2>1. \A c \in AllChunks : \E o \in outputs : of[o] = c
    BY <1>4 DEF Surjection
  <2>2. QED  BY <2>1 DEF of
<1>6. QED  BY <1>1, <1>5 DEF Done

\* The chunks of the job cut its source.
LEMMA ChunksCut ==
  ASSUME Sized
  PROVE  Cut([k \in 1 .. total |-> ChunkNo(k - 1)], total)
<1> DEFINE cs == [k \in 1 .. total |-> ChunkNo(k - 1)]
<1>1. /\ size \in Nat \ {0} /\ total \in Nat \ {0} /\ Len(source) \in Nat \ {0}
      /\ \A k \in Nat : k * size < Len(source) <=> k < total
  BY SizedFacts
<1>2. ASSUME NEW k \in 1 .. total
      PROVE  /\ cs[k] = ChunkNo(k - 1) /\ cs[k].start \in Nat /\ cs[k].end \in Nat
             /\ cs[k].start = (k - 1) * size /\ cs[k].start <= cs[k].end
             /\ k * size <= Len(source) => cs[k].end = k * size - 1
             /\ k * size >= Len(source) => cs[k].end = Len(source) - 1
             /\ k * size \in Nat
  <2>1. k - 1 \in 0 .. total - 1 /\ (k - 1) + 1 = k /\ k * size \in Nat
    BY <1>1
  <2>2. QED  BY <1>1, <2>1, ChunkBounds DEF Chunk, Items
<1> HIDE DEF cs
<1>3. cs[1].start = 0
  <2>1. 1 \in 1 .. total /\ (1 - 1) * size = 0
    BY <1>1
  <2>2. QED  BY <1>2, <2>1
<1>4. cs[total].end = Len(source) - 1
  <2>1. total \in 1 .. total /\ total \in Nat
    BY <1>1
  <2>2. total * size \in Nat /\ ~(total * size < Len(source))
    BY <1>1, <2>1
  <2>3. total * size >= Len(source) => cs[total].end = Len(source) - 1
    BY <1>2, <2>1
  <2>4. QED  BY <1>1, <2>2, <2>3
<1>5. ASSUME NEW k \in 1 .. total - 1  PROVE cs[k + 1].start = cs[k].end + 1
  <2>1. /\ k \in 1 .. total /\ k + 1 \in 1 .. total /\ (k + 1) - 1 = k
        /\ k * size < Len(source) /\ k * size \in Nat
    BY <1>1
  <2>2. cs[k + 1].start = k * size
    BY <1>2, <2>1
  <2>3. k * size <= Len(source) => cs[k].end = k * size - 1
    BY <1>2, <2>1
  <2>4. QED  BY <1>1, <2>1, <2>2, <2>3
<1>6. QED  BY <1>2, <1>3, <1>4, <1>5 DEF Cut, cs

\* Listed has the output of the k-th chunk in its k-th place.
LEMMA ListedInOrder ==
  ASSUME PathInv, SplitInv, OutputsInv, Done = AllChunks, NEW k \in 1 .. total
  PROVE  Listed[k] \in outputs /\ Listed[k].chunk = ChunkNo(k - 1)
<1> DEFINE starts == {o.chunk.start : o \in outputs}
           s == [j \in 1 .. total |-> (j - 1) * size]
<1>1. /\ size \in Nat \ {0} /\ total \in Nat \ {0} /\ Sized
  BY SizedFacts DEF SplitInv
<1>2. \A j \in 1 .. total : /\ j - 1 \in 0 .. total - 1 /\ (j - 1) * size \in Nat
                            /\ ChunkNo(j - 1).start = (j - 1) * size
  BY <1>1, ChunkBounds
<1>3. ASSUME NEW o \in outputs
      PROVE  \E j \in 1 .. total : o.chunk = ChunkNo(j - 1)
  <2>1. PICK i \in 0 .. total - 1 : o.chunk = ChunkNo(i)
    BY DEF Done, AllChunks
  <2>2. i + 1 \in 1 .. total /\ (i + 1) - 1 = i
    BY <1>1
  <2>3. QED  BY <2>1, <2>2
<1>4. ASSUME NEW j \in 1 .. total
      PROVE  \E o \in outputs : o.chunk = ChunkNo(j - 1)
  BY <1>2 DEF Done, AllChunks
<1>5. \A i, j \in 1 .. total : i < j => (i - 1) * size < (j - 1) * size
  <2>1. SUFFICES ASSUME NEW i \in 1 .. total, NEW j \in 1 .. total, i < j
                 PROVE  (i - 1) * size < (j - 1) * size
    OBVIOUS
  <2>2. (j - 1) * size = (i - 1) * size + (j - i) * size /\ (j - i) * size > 0
        /\ (i - 1) * size \in Nat /\ (j - i) * size \in Nat
    BY <1>1, <2>1
  <2>3. QED  BY <2>2
<1>6. starts \in SUBSET Nat /\ Ascends(s, total, starts)
  <2>1. \A x \in starts : \E j \in 1 .. total : s[j] = x /\ x \in Nat
    BY <1>2, <1>3
  <2>2. \A j \in 1 .. total : s[j] \in starts
    <3>1. SUFFICES ASSUME NEW j \in 1 .. total  PROVE (j - 1) * size \in starts
      OBVIOUS
    <3>2. PICK o \in outputs : o.chunk = ChunkNo(j - 1)
      BY <1>4
    <3>3. o.chunk.start = (j - 1) * size
      BY <1>2, <3>2
    <3>4. QED  BY <3>3
  <2> HIDE DEF starts
  <2>3. s \in [1 .. total -> starts] /\ \A i, j \in 1 .. total : i < j => s[i] < s[j]
    BY <1>5, <2>2
  <2> HIDE DEF s
  <2>4. QED  BY <2>1, <2>3 DEF Ascends
<1>7. InOrder(starts) = s
  BY <1>1, <1>6, InOrderIs
<1>8. Len(s) = total /\ s[k] = (k - 1) * size
  BY <1>1
<1> HIDE DEF s
<1>9. Listed = [j \in 1 .. Len(InOrder(starts)) |->
                  CHOOSE o \in outputs : o.chunk.start = InOrder(starts)[j]]
  BY DEF Listed
<1> HIDE DEF starts
<1>10. Listed[k] = CHOOSE o \in outputs : o.chunk.start = (k - 1) * size
  <2>1. k \in 1 .. Len(InOrder(starts)) /\ InOrder(starts)[k] = (k - 1) * size
    BY <1>7, <1>8
  <2>2. Listed[k] = CHOOSE o \in outputs : o.chunk.start = InOrder(starts)[k]
    BY <1>9, <2>1
  <2>3. QED  BY <2>1, <2>2
<1>11. PICK o \in outputs : o.chunk = ChunkNo(k - 1)
  BY <1>4
<1>12. o.chunk.start = (k - 1) * size
  BY <1>2, <1>11
<1>13. Listed[k] \in outputs /\ Listed[k].chunk.start = (k - 1) * size
  BY <1>10, <1>12
<1>14. PICK j \in 1 .. total : Listed[k].chunk = ChunkNo(j - 1)
  BY <1>3, <1>13
<1>15. (j - 1) * size = (k - 1) * size
  BY <1>2, <1>13, <1>14
<1>16. j = k
  BY <1>1, <1>15
<1>17. QED  BY <1>13, <1>14, <1>16

\* What is made of the job's items depends on the job only.
LEMMA SameJob ==
  ASSUME UNCHANGED job
  PROVE  /\ AllChunks' = AllChunks
         /\ \A c, t : File(c, t)' = File(c, t) /\ OneFile(t)' = OneFile(t)
<1>1. UNCHANGED source /\ UNCHANGED format /\ UNCHANGED size /\ UNCHANGED total
  BY DEF job
<1>2. AllChunks' = AllChunks
  BY <1>1 DEF AllChunks, ChunkNo, ChunkFrom
<1>3. \A c, t : File(c, t)' = File(c, t)
  BY <1>1 DEF File, Rows, Kept, Converted, Fate
<1>4. \A t : OneFile(t)' = OneFile(t)
  BY <1>1 DEF OneFile, Shown, Blank, Rows, Kept, Converted, Fate, Whole
<1>5. QED  BY <1>2, <1>3, <1>4

ListedFiles == [k \in 1 .. total |-> Listed[k].file]

\* A file with the rows in order, and of each chunk those of one conversion.
FileInOrder(F) ==
  /\ \A s \in DOMAIN F : \A j, k \in RowsOf(F[s]) : j < k => F[s][j].item < F[s][k].item
  /\ \A k \in 0 .. total - 1 : \E m, f \in Versions :
       RowsIn(F, ChunkNo(k)) = RowsDue(ChunkNo(k), [mappings |-> m, fields |-> f])

\* The metadata are in no row.
LEMMA RowsDueOf ==
  ASSUME NEW c, NEW t
  PROVE  RowsDue(c, t) = RowsDue(c, [mappings |-> t["mappings"], fields |-> t["fields"]])
<1> DEFINE u == [mappings |-> t["mappings"], fields |-> t["fields"]]
<1>1. u["mappings"] = t["mappings"] /\ u["fields"] = t["fields"]
  OBVIOUS
<1> HIDE DEF u
<1>2. \A i : RowOf(i, u) = RowOf(i, t) /\ Fate(i, u) = Fate(i, t)
  BY <1>1 DEF RowOf, Fate
<1>3. SheetsOf(u) = SheetsOf(t) /\ Converted(c, u) = Converted(c, t)
  BY <1>1, <1>2 DEF SheetsOf, Converted
<1>4. QED  BY <1>2, <1>3 DEF RowsDue, u

\* A merge of all outputs is in order.
LEMMA MergeInOrder ==
  ASSUME PathInv, SplitInv, OutputsInv, Done = AllChunks, wrap \in Versions,
         NEW F, F = Merged(ListedFiles, wrap)
  PROVE  FileInOrder(F)
<1> DEFINE cs == [k \in 1 .. total |-> ChunkNo(k - 1)]
           ts == [k \in 1 .. total |->
                    CHOOSE t \in Template : Listed[k].file = File(ChunkNo(k - 1), t)]
<1>1. total \in Nat \ {0} /\ Cut(cs, total)
  BY SizedFacts, ChunksCut DEF SplitInv
<1>2. format \in Formats
  BY JobsAssumption DEF PathInv, TypeOK
<1>3. ASSUME NEW k \in 1 .. total
      PROVE  \E t \in Template : Listed[k].file = File(ChunkNo(k - 1), t)
  <2>1. Listed[k] \in outputs /\ Listed[k].chunk = ChunkNo(k - 1)
    BY ListedInOrder
  <2>2. PICK t \in Template : Listed[k] = [chunk |-> ChunkNo(k - 1), file |-> File(ChunkNo(k - 1), t)]
    BY <2>1 DEF OutputsInv
  <2>3. QED  BY <2>2
<1>4. ts \in [1 .. total -> Template] /\ \A k \in 1 .. total : Listed[k].file = File(cs[k], ts[k])
  BY <1>3
<1>5. \A k \in 0 .. total - 1 : k + 1 \in 1 .. total /\ cs[k + 1] = ChunkNo(k)
  BY <1>1
<1> HIDE DEF ts, cs
<1>6. ListedFiles = Files(cs, ts, total)
  BY <1>4 DEF ListedFiles, Files
<1>7. /\ \A s \in DOMAIN F : F[s] \in Seq(Line) /\ Sorted(F[s])
      /\ \A k \in 1 .. total : RowsIn(F, cs[k]) = RowsDue(cs[k], ts[k])
  BY <1>1, <1>2, <1>4, <1>6, MergedInOrder
<1>8. ASSUME NEW s \in DOMAIN F, NEW j \in RowsOf(F[s]), NEW k \in RowsOf(F[s]), j < k
      PROVE  F[s][j].item < F[s][k].item
  <2> DEFINE text == F[s]
  <2>1. text \in Seq(Line) /\ Sorted(text)
    BY <1>7
  <2>2. j \in 1 .. Len(text) /\ k \in 1 .. Len(text) /\ text[j].item # -1 /\ text[k].item # -1
    BY <2>1 DEF RowsOf
  <2>3. QED  BY <1>8, <2>1, <2>2 DEF Sorted, Before
<1>9. ASSUME NEW k \in 0 .. total - 1
      PROVE  \E m, f \in Versions :
               RowsIn(F, ChunkNo(k)) = RowsDue(ChunkNo(k), [mappings |-> m, fields |-> f])
  <2> DEFINE t == ts[k + 1]
  <2>1. RowsIn(F, ChunkNo(k)) = RowsDue(ChunkNo(k), t) /\ t \in Template
    BY <1>4, <1>5, <1>7
  <2>2. t["mappings"] \in Versions /\ t["fields"] \in Versions
    BY <2>1 DEF Template, Parts
  <2> HIDE DEF t
  <2>3. QED  BY <2>1, <2>2, RowsDueOf
<1>10. QED  BY <1>8, <1>9 DEF FileInOrder

LEMMA InitOrder == Init => OrderInv
<1> SUFFICES ASSUME Init  PROVE OrderInv
  OBVIOUS
<1>1. PathInv /\ SplitInv
  BY InitPath, InitSplit
<1>2. OutputsInv
  BY DEF Init, OutputsInv, Done, AllChunks
<1>3. RowsInOrder
  BY DEF Init, RowsInOrder
<1>4. QED  BY <1>1, <1>2, <1>3 DEF OrderInv

LEMMA NextOutputs ==
  ASSUME PathInv, SplitInv, OutputsInv, [Next]_vars  PROVE OutputsInv'
<1>0. /\ UNCHANGED job /\ AllChunks' = AllChunks
      /\ \A c, t : File(c, t)' = File(c, t)
  <2>1. UNCHANGED job
    BY DEF Next, vars, FlushChunk, SplitAgain, Load, Hit, Miss, ReadRow, Fill, KeepOthers,
           TakeChunk, ReadMetadata, ConvertChunk, ReadWrap, WriteFinal, Edit, Tick
  <2>2. QED  BY <2>1, SameJob
<1>1. CASE UNCHANGED <<outputs, chunk, wrap>>
  BY <1>0, <1>1 DEF OutputsInv, Done
<1>2. ASSUME NEW w \in Workers, NEW c \in inputs, TakeChunk(w, c)  PROVE OutputsInv'
  <2>1. /\ chunk' = [chunk EXCEPT ![w] = c] /\ c \notin Done /\ \A v \in Workers : chunk[v] # c
        /\ UNCHANGED <<outputs, wrap>> /\ chunk \in [Workers -> inputs \union {NoChunk}]
    BY <1>2 DEF TakeChunk, PathInv, TypeOK
  <2>2. \A v \in Workers : chunk'[v] = IF v = w THEN c ELSE chunk[v]
    BY <2>1
  <2>3. Done' = Done
    BY <2>1 DEF Done
  <2>4. QED  BY <1>0, <2>1, <2>2, <2>3 DEF OutputsInv
<1>3. ASSUME NEW w \in Workers, ConvertChunk(w)  PROVE OutputsInv'
  <2>1. /\ pc[w] # "idle" /\ chunk[w] \in inputs /\ loaded[w] \in Template
        /\ chunk' = [chunk EXCEPT ![w] = NoChunk] /\ UNCHANGED wrap
        /\ chunk \in [Workers -> inputs \union {NoChunk}]
    BY <1>3 DEF ConvertChunk, PathInv, TypeOK, BusyHaveChunk
  <2>2. chunk[w] # NoChunk /\ NoChunk \notin inputs
    <3>1. inputs \subseteq Chunk
      BY DEF PathInv, TypeOK
    <3>2. NoChunk \notin Chunk
      BY SizedFacts DEF SplitInv, Chunk, Items, NoChunk
    <3>3. QED  BY <2>1, <3>1, <3>2
  <2>3. chunk[w] \in AllChunks /\ chunk[w] \notin Done /\ wrap = -1
    BY <2>1 DEF SplitInv, OutputsInv, AllChunks
  <2> DEFINE o == [chunk |-> chunk[w], file |-> File(chunk[w], loaded[w])]
  <2>4. \/ outputs' = outputs
        \/ outputs' = outputs \union {o}
    BY <1>3 DEF ConvertChunk
  <2>5. \A v \in Workers : chunk'[v] = IF v = w THEN NoChunk ELSE chunk[v]
    BY <2>1
  <2>6. \A p \in outputs' : \E t \in Template : p = [chunk |-> p.chunk, file |-> File(p.chunk, t)]
    BY <2>1, <2>4 DEF OutputsInv
  <2>7. \A p, q \in outputs' : p.chunk = q.chunk => p = q
    <3>1. o.chunk \notin Done
      BY <2>3
    <3> HIDE DEF o
    <3>2. QED  BY <2>4, <3>1 DEF OutputsInv, Done
  <2>8. Done' \subseteq Done \union {chunk[w]}
    BY <2>4 DEF Done
  <2>9. \A v \in Workers : chunk'[v] \notin Done'
    <3>1. NoChunk \notin Done
      BY <2>2 DEF PathInv, TypeOK
    <3>2. QED  BY <2>2, <2>5, <2>8, <3>1 DEF OutputsInv
  <2>10. \A u, v \in Workers : chunk'[u] = chunk'[v] /\ chunk'[u] # NoChunk => u = v
    BY <2>5 DEF OutputsInv
  <2>11. QED  BY <1>0, <2>1, <2>3, <2>6, <2>7, <2>9, <2>10 DEF OutputsInv
<1>4. CASE ReadWrap
  <2>1. Done = AllChunks
    BY <1>4, CountedOutputsAreAll DEF ReadWrap
  <2>2. QED  BY <1>0, <1>4, <2>1 DEF ReadWrap, OutputsInv, Done, worker
<1>5. QED
  BY <1>1, <1>2, <1>3, <1>4
     DEF Next, vars, FlushChunk, SplitAgain, Load, Hit, Miss, ReadRow, Fill, KeepOthers,
         ReadMetadata, WriteFinal, Edit, Tick, worker

LEMMA NextOrder == OrderInv /\ [Next]_vars => OrderInv'
<1> SUFFICES ASSUME OrderInv, [Next]_vars  PROVE OrderInv'
  OBVIOUS
<1>1. PathInv' /\ SplitInv' /\ OutputsInv'
  BY NextPath, NextSplit, NextOutputs DEF OrderInv
<1>2. ASSUME UNCHANGED job, NEW F  PROVE FileInOrder(F)' <=> FileInOrder(F)
  <2>1. UNCHANGED source /\ UNCHANGED format /\ UNCHANGED size /\ UNCHANGED total
    BY <1>2 DEF job
  <2>2. \A c, t : RowsIn(F, c)' = RowsIn(F, c) /\ RowsDue(c, t)' = RowsDue(c, t)
    BY <2>1 DEF RowsIn, RowsDue, Converted, Fate, Blank, SheetsOf
  <2> DEFINE Of(k, m, f) == RowsIn(F, ChunkNo(k)) = RowsDue(ChunkNo(k), [mappings |-> m, fields |-> f])
  <2>3. \A k, m, f : Of(k, m, f)' <=> Of(k, m, f)
    BY <2>1 DEF RowsIn, RowsDue, Converted, Fate, Blank, SheetsOf, ChunkNo, ChunkFrom
  <2> HIDE DEF Of
  <2>4. (\A k \in 0 .. total - 1 : \E m, f \in Versions : Of(k, m, f))'
          <=> \A k \in 0 .. total - 1 : \E m, f \in Versions : Of(k, m, f)
    BY <2>1, <2>3
  <2>5. QED  BY <2>4 DEF FileInOrder, Of
<1>3. CASE UNCHANGED <<job, final>>
  <2>1. final # NoFile => FileInOrder(final)
    BY DEF OrderInv, RowsInOrder, FileInOrder
  <2>2. QED  BY <1>1, <1>2, <1>3, <2>1 DEF OrderInv, RowsInOrder, FileInOrder
<1>4. CASE WriteFinal
  <2>1. /\ UNCHANGED <<job, wrap, outputs>> /\ wrap # -1
        /\ final' = Merged(ListedFiles, wrap)
    BY <1>4 DEF WriteFinal, ListedFiles
  <2>2. Done = AllChunks /\ wrap \in Versions
    BY <2>1 DEF OrderInv, OutputsInv, PathInv, TypeOK
  <2>3. FileInOrder(final')
    BY <2>1, <2>2, MergeInOrder DEF OrderInv
  <2>4. QED  BY <1>1, <1>2, <2>1, <2>3 DEF OrderInv, RowsInOrder, FileInOrder
<1>5. QED
  <2>1. UNCHANGED <<job, final>> \/ WriteFinal
    BY DEF Next, vars, FlushChunk, SplitAgain, Load, Hit, Miss, ReadRow, Fill, KeepOthers,
           TakeChunk, ReadMetadata, ConvertChunk, ReadWrap, Edit, Tick
  <2>2. QED  BY <1>1, <1>3, <1>4, <2>1 DEF OrderInv

\* In whatever order the chunks are converted and whichever edits fall between
\* them, the rows of each sheet are in the order of the source and none is
\* there twice, and of each chunk the file has the rows of one conversion, but
\* for blank ones: those of all its items that convert, on all the sheets of
\* the mappings that this conversion had.
THEOREM RowsKeepOrder == Spec => []RowsInOrder
<1>1. OrderInv => RowsInOrder
  BY DEF OrderInv
<1>2. QED  BY <1>1, InitOrder, NextOrder, PTL DEF Spec
-----------------------------------------------------------------------------
(* Stale copies, and the version a job is converted with *)

\* Between chunks a worker is nowhere, and it loads the mappings first.
Places ==
  \A w \in Workers : /\ pc[w] = "idle" <=> chunk[w] = NoChunk
                     /\ pc[w] \in {"idle", "metadata", "convert"} => part[w] = "mappings"

\* The job is seen by an edit: a chunk is taken or has an output.
InJob == outputs # {} \/ \E w \in Workers : chunk[w] # NoChunk

\* What a worker can come by, and what it holds.
CopiesCurrent ==
  /\ \A p \in CachedParts : Cached(p) => cache[p].version = tmpl[p]
  /\ \A w \in Loaders : pc[w] = "fill" => read[w] = tmpl[part[w]]
HoldsCurrent(w) ==
  /\ (pc[w] # "idle" /\ part[w] = "fields") \/ pc[w] \in {"metadata", "convert"} =>
       loaded[w]["mappings"] = tmpl["mappings"]
  /\ pc[w] \in {"metadata", "convert"} => loaded[w]["fields"] = tmpl["fields"]
  /\ pc[w] = "convert" => loaded[w]["metadata"] = tmpl["metadata"]

\* As long as the job is not unsettled, all of it is one version.
OneVersion ==
  ~unsettled =>
    /\ InJob => CopiesCurrent
    /\ \A w \in Workers : HoldsCurrent(w)
    /\ \A o \in outputs : o.file = File(o.chunk, tmpl)
    /\ wrap # -1 => wrap = tmpl["metadata"]

FreshInv == CopiesAreRecent /\ Places /\ OneVersion

LEMMA InitFresh == Init => FreshInv
<1> SUFFICES ASSUME Init  PROVE FreshInv
  OBVIOUS
<1>1. CopiesAreRecent
  BY DEF Init, CopiesAreRecent, Cached, FirstStep
<1>2. Places
  BY DEF Init, Places, FirstStep, Loaders
<1>3. OneVersion
  BY DEF Init, OneVersion, InJob, HoldsCurrent, FirstStep, Loaders
<1>4. QED  BY <1>1, <1>2, <1>3 DEF FreshInv

\* A busy worker of a settled job comes by the current version only.
LEMMA LoadFresh ==
  ASSUME PathInv, FreshInv, NEW w \in Loaders, Load(w)  PROVE FreshInv'
<1> USE Times, PartFacts DEF PathInv, TypeOK
<1>0. /\ UNCHANGED <<tmpl, age, chunk, outputs, wrap, unsettled>> /\ UNCHANGED job
      /\ part[w] \in CachedParts /\ pc[w] \in {"get", "row", "fill"}
      /\ \A v \in Loaders \ {w} : pc'[v] = pc[v] /\ part'[v] = part[v]
      /\ \A v \in Workers \ {w} : loaded'[v] = loaded[v]
      /\ Workers \subseteq Loaders
  BY DEF Load, Hit, Miss, ReadRow, Fill, KeepOthers, PartLoaded, editing, Loaders
<1>1. /\ \A v \in Loaders : pc[v] = "fill" /\ read[v] # tmpl[part[v]] => age[part[v]] <= lag[v]
      /\ \A p \in CachedParts :
           Cached(p) /\ cache[p].version # tmpl[p] => age[p] + cache[p].left <= Grace
  BY DEF FreshInv, CopiesAreRecent
<1>2. CopiesAreRecent'
  <2>1. CASE Hit(w)
    <3>1. UNCHANGED <<cache, read, lag>> /\ pc'[w] # "fill"
      BY <1>0, <2>1 DEF Hit, PartLoaded, FirstStep
    <3>2. QED  BY <1>0, <1>1, <3>1 DEF CopiesAreRecent, Cached
  <2>2. CASE Miss(w)
    BY <1>0, <1>1, <2>2 DEF Miss, CopiesAreRecent, Cached
  <2>3. CASE ReadRow(w)
    BY <1>0, <1>1, <2>3 DEF ReadRow, CopiesAreRecent, Cached
  <2>4. CASE Fill(w)
    <3>1. /\ cache' = [cache EXCEPT ![part[w]] = [version |-> read[w], left |-> CacheTTL]]
          /\ pc'[w] # "fill" /\ \A v \in Loaders \ {w} : read'[v] = read[v] /\ lag'[v] = lag[v]
          /\ pc[w] = "fill"
      BY <2>4 DEF Fill, PartLoaded, FirstStep
    <3>2. read[w] # tmpl[part[w]] => age[part[w]] + CacheTTL <= Grace
      BY <1>0, <1>1, <3>1 DEF Grace
    <3>3. \A p \in CachedParts : cache'[p] = IF p = part[w]
                                              THEN [version |-> read[w], left |-> CacheTTL]
                                              ELSE cache[p]
      BY <3>1
    <3>4. \A p \in CachedParts : Cached(p)' /\ cache'[p].version # tmpl[p]
                                    => age[p] + cache'[p].left <= Grace
      BY <1>1, <3>2, <3>3 DEF Cached
    <3>5. \A v \in Loaders : pc'[v] = "fill" /\ read'[v] # tmpl[part'[v]] => age[part'[v]] <= lag'[v]
      BY <1>0, <1>1, <3>1
    <3>6. QED  BY <1>0, <3>4, <3>5 DEF CopiesAreRecent, Cached
  <2>5. QED  BY <2>1, <2>2, <2>3, <2>4 DEF Load
<1>3. Places'
  <2>1. \A v \in Workers \ {w} : pc'[v] = pc[v] /\ part'[v] = part[v]
    BY <1>0
  <2>2. w \in Workers => /\ pc'[w] # "idle"
                         /\ pc'[w] \in {"metadata", "convert"} => part'[w] = "mappings"
    BY <1>0 DEF Load, Hit, Miss, ReadRow, Fill, PartLoaded, FirstStep
  <2>3. QED  BY <1>0, <2>1, <2>2 DEF FreshInv, Places
<1>4. OneVersion'
  <2> SUFFICES ASSUME ~unsettled  PROVE OneVersion'
    BY <1>0 DEF OneVersion
  <2>1. InJob' <=> InJob
    BY <1>0 DEF InJob
  <2>2. InJob => CopiesCurrent
    BY DEF FreshInv, OneVersion
  <2>3. InJob' => CopiesCurrent'
    <3> SUFFICES ASSUME InJob  PROVE CopiesCurrent'
      BY <2>1
    <3>1. CASE Hit(w)
      <4>1. UNCHANGED <<cache, read>> /\ pc'[w] # "fill"
        BY <3>1 DEF Hit, PartLoaded, FirstStep
      <4>2. QED  BY <1>0, <2>2, <4>1 DEF CopiesCurrent, Cached
    <3>2. CASE Miss(w)
      BY <1>0, <2>2, <3>2 DEF Miss, CopiesCurrent, Cached
    <3>3. CASE ReadRow(w)
      BY <1>0, <2>2, <3>3 DEF ReadRow, CopiesCurrent, Cached
    <3>4. CASE Fill(w)
      <4>1. /\ cache' = [cache EXCEPT ![part[w]] = [version |-> read[w], left |-> CacheTTL]]
            /\ pc'[w] # "fill" /\ \A v \in Loaders \ {w} : read'[v] = read[v]
            /\ pc[w] = "fill"
        BY <3>4 DEF Fill, PartLoaded, FirstStep
      <4>2. \A p \in CachedParts : cache'[p] = IF p = part[w]
                                                THEN [version |-> read[w], left |-> CacheTTL]
                                                ELSE cache[p]
        BY <4>1
      <4>3. read[w] = tmpl[part[w]]
        BY <2>2, <4>1 DEF CopiesCurrent
      <4>4. \A p \in CachedParts : Cached(p)' => cache'[p].version = tmpl[p]
        BY <2>2, <4>2, <4>3 DEF CopiesCurrent, Cached
      <4>5. \A v \in Loaders : pc'[v] = "fill" => read'[v] = tmpl[part'[v]]
        BY <1>0, <2>2, <4>1 DEF CopiesCurrent
      <4>6. QED  BY <1>0, <4>4, <4>5 DEF CopiesCurrent, Cached
    <3>5. QED  BY <3>1, <3>2, <3>3, <3>4 DEF Load
  <2>4. ASSUME NEW v \in Workers  PROVE HoldsCurrent(v)'
    <3>1. HoldsCurrent(v)
      BY DEF FreshInv, OneVersion
    <3>2. CASE v # w
      BY <1>0, <3>1, <3>2 DEF HoldsCurrent
    <3>3. CASE v = w
      <4>1. CopiesCurrent
        BY <1>0, <2>2, <3>3 DEF FreshInv, Places, InJob
      <4>2. CASE Miss(w) \/ ReadRow(w)
        BY <1>0, <3>1, <3>3, <4>2 DEF Miss, ReadRow, HoldsCurrent
      <4>3. ASSUME PartLoaded(w, tmpl[part[w]])  PROVE HoldsCurrent(w)'
        <5>1. /\ w \in Workers /\ loaded' = [loaded EXCEPT ![w][part[w]] = tmpl[part[w]]]
              /\ loaded[w] \in Template
          BY <3>3, <4>3 DEF PartLoaded
        <5>2. \A p \in Parts : loaded'[w][p] = IF p = part[w] THEN tmpl[p] ELSE loaded[w][p]
          BY <5>1 DEF Template
        <5>3. CASE part[w] = "mappings"
          BY <1>0, <4>3, <5>2, <5>3 DEF PartLoaded, HoldsCurrent
        <5>4. CASE part[w] = "fields"
          BY <1>0, <3>1, <3>3, <4>3, <5>1, <5>2, <5>4 DEF PartLoaded, HoldsCurrent
        <5>5. QED  BY <1>0, <5>3, <5>4
      <4>4. CASE Hit(w)
        BY <1>0, <3>3, <4>1, <4>3, <4>4 DEF Hit, Usable, CopiesCurrent
      <4>5. CASE Fill(w)
        BY <1>0, <3>3, <4>1, <4>3, <4>5 DEF Fill, CopiesCurrent
      <4>6. QED  BY <4>2, <4>4, <4>5 DEF Load
    <3>4. QED  BY <3>2, <3>3
  <2>5. \A o \in outputs' : o.file = File(o.chunk, tmpl)'
    <3>1. \A c : File(c, tmpl)' = File(c, tmpl)
      BY <1>0, SameJob
    <3>2. QED  BY <1>0, <3>1 DEF FreshInv, OneVersion
  <2>6. QED  BY <1>0, <2>3, <2>4, <2>5 DEF FreshInv, OneVersion
<1>5. QED  BY <1>2, <1>3, <1>4 DEF FreshInv

LEMMA SameParts ==
  ASSUME NEW s \in Template, NEW t \in Template, \A p \in Parts : s[p] = t[p]
  PROVE  s = t
BY DEF Template

LEMMA NextFresh ==
  ASSUME PathInv, SplitInv, OutputsInv, FreshInv, [Next]_vars  PROVE FreshInv'
<1> USE Times, PartFacts DEF PathInv, TypeOK
<1>0. /\ UNCHANGED job /\ \A c, t : File(c, t)' = File(c, t)
      /\ Workers \subseteq Loaders /\ part \in [Loaders -> CachedParts]
      /\ tmpl \in Template
  <2>1. UNCHANGED job
    BY DEF Next, vars, FlushChunk, SplitAgain, Load, Hit, Miss, ReadRow, Fill, KeepOthers,
           TakeChunk, ReadMetadata, ConvertChunk, ReadWrap, WriteFinal, Edit, Tick
  <2>2. QED  BY <2>1, SameJob DEF Loaders
<1>1. /\ \A v \in Loaders : pc[v] = "fill" /\ read[v] # tmpl[part[v]] => age[part[v]] <= lag[v]
      /\ \A p \in CachedParts :
           Cached(p) /\ cache[p].version # tmpl[p] => age[p] + cache[p].left <= Grace
  BY DEF FreshInv, CopiesAreRecent
<1>2. CASE UNCHANGED <<outputs, editing, cache, worker, wrap, unsettled>>
  <2>1. CopiesAreRecent' /\ Places'
    BY <1>2 DEF editing, worker, FreshInv, CopiesAreRecent, Cached, Places
  <2>2. OneVersion'
    BY <1>0, <1>2 DEF editing, worker, FreshInv, OneVersion, InJob, CopiesCurrent, Cached, HoldsCurrent
  <2>3. QED  BY <2>1, <2>2 DEF FreshInv
<1>3. ASSUME NEW w \in Loaders, Load(w)  PROVE FreshInv'
  BY <1>3, LoadFresh
<1>4. ASSUME NEW w \in Workers, NEW c \in inputs, TakeChunk(w, c)  PROVE FreshInv'
  <2>1. /\ UNCHANGED <<outputs, tmpl, age, cache, part, loaded, read, lag, wrap>>
        /\ pc[w] = "idle" /\ pc' = [pc EXCEPT ![w] = "get"] /\ chunk' = [chunk EXCEPT ![w] = c]
        /\ unsettled' = (unsettled \/ \E p \in CachedParts : age[p] < Grace)
    BY <1>4 DEF TakeChunk, editing
  <2>2. c # NoChunk
    <3>1. inputs \subseteq Chunk
      OBVIOUS
    <3>2. NoChunk \notin Chunk
      BY SizedFacts DEF Chunk, Items, NoChunk
    <3>3. QED  BY <3>1, <3>2
  <2>3. /\ \A v \in Loaders : pc'[v] = IF v = w THEN "get" ELSE pc[v]
        /\ \A v \in Workers : chunk'[v] = IF v = w THEN c ELSE chunk[v]
    BY <1>0, <2>1
  <2>4. CopiesAreRecent'
    BY <1>1, <2>1, <2>3 DEF CopiesAreRecent, Cached
  <2>5. Places'
    BY <1>0, <2>1, <2>2, <2>3 DEF FreshInv, Places
  <2>6. OneVersion'
    <3> SUFFICES ASSUME ~unsettled'  PROVE OneVersion'
      BY DEF OneVersion
    <3>1. ~unsettled /\ \A p \in CachedParts : age[p] = Grace
      <4>1. \A p \in CachedParts : age[p] \in 0 .. Grace /\ ~(age[p] < Grace)
        BY <2>1
      <4>2. QED  BY <2>1, <4>1
    <3>2. CopiesCurrent
      <4>1. \A p \in CachedParts : Cached(p) => cache[p].version = tmpl[p]
        <5>1. \A p \in CachedParts : cache[p].left \in Nat
          OBVIOUS
        <5>2. QED  BY <1>1, <3>1, <5>1 DEF Cached
      <4>2. \A v \in Loaders : pc[v] = "fill" => read[v] = tmpl[part[v]]
        <5>1. \A v \in Loaders : lag[v] \in 0 .. MaxLag
          OBVIOUS
        <5>2. MaxLag < Grace
          BY DEF Grace
        <5>3. QED  BY <1>0, <1>1, <3>1, <5>1, <5>2
      <4>3. QED  BY <4>1, <4>2 DEF CopiesCurrent
    <3>3. CopiesCurrent'
      BY <2>1, <2>3, <3>2 DEF CopiesCurrent, Cached
    <3>4. \A v \in Workers : HoldsCurrent(v)'
      <4>1. part[w] = "mappings"
        BY <2>1 DEF FreshInv, Places
      <4>2. QED  BY <1>0, <2>1, <2>3, <3>1, <4>1 DEF FreshInv, OneVersion, HoldsCurrent
    <3>5. QED  BY <1>0, <2>1, <3>1, <3>3, <3>4 DEF FreshInv, OneVersion
  <2>7. QED  BY <2>4, <2>5, <2>6 DEF FreshInv
<1>5. ASSUME NEW w \in Workers, ReadMetadata(w)  PROVE FreshInv'
  <2>1. /\ UNCHANGED <<outputs, tmpl, age, cache, part, chunk, read, lag, wrap, unsettled>>
        /\ pc[w] = "metadata" /\ pc' = [pc EXCEPT ![w] = "convert"]
        /\ loaded' = [loaded EXCEPT ![w]["metadata"] = tmpl["metadata"]]
    BY <1>5 DEF ReadMetadata, KeepOthers, editing
  <2>2. /\ \A v \in Loaders : pc'[v] = IF v = w THEN "convert" ELSE pc[v]
        /\ \A v \in Workers \ {w} : loaded'[v] = loaded[v]
        /\ loaded'[w]["metadata"] = tmpl["metadata"]
        /\ loaded'[w]["mappings"] = loaded[w]["mappings"] /\ loaded'[w]["fields"] = loaded[w]["fields"]
    BY <1>0, <2>1 DEF Template, Parts
  <2>3. CopiesAreRecent'
    BY <1>1, <2>1, <2>2 DEF CopiesAreRecent, Cached
  <2>4. Places'
    BY <1>0, <2>1, <2>2 DEF FreshInv, Places
  <2>5. OneVersion'
    <3> SUFFICES ASSUME ~unsettled  PROVE OneVersion'
      BY <2>1 DEF OneVersion
    <3>1. InJob' => CopiesCurrent'
      BY <2>1, <2>2 DEF FreshInv, OneVersion, InJob, CopiesCurrent, Cached
    <3>2. ASSUME NEW v \in Workers  PROVE HoldsCurrent(v)'
      <4>1. HoldsCurrent(v)
        BY DEF FreshInv, OneVersion
      <4>2. CASE v = w
        BY <1>0, <2>1, <2>2, <4>1, <4>2 DEF HoldsCurrent
      <4>3. CASE v # w
        BY <1>0, <2>1, <2>2, <4>1, <4>3 DEF HoldsCurrent
      <4>4. QED  BY <4>2, <4>3
    <3>3. QED  BY <1>0, <2>1, <3>1, <3>2 DEF FreshInv, OneVersion
  <2>6. QED  BY <2>3, <2>4, <2>5 DEF FreshInv
<1>6. ASSUME NEW w \in Workers, ConvertChunk(w)  PROVE FreshInv'
  <2>1. /\ UNCHANGED <<tmpl, age, cache, part, read, lag, wrap, unsettled>>
        /\ pc[w] = "convert" /\ pc' = [pc EXCEPT ![w] = "idle"]
        /\ chunk' = [chunk EXCEPT ![w] = NoChunk] /\ loaded' = [loaded EXCEPT ![w] = NoParts]
        /\ \/ outputs' = outputs
           \/ outputs' = outputs \union {[chunk |-> chunk[w], file |-> File(chunk[w], loaded[w])]}
    BY <1>6 DEF ConvertChunk, editing
  <2>2. /\ \A v \in Loaders : pc'[v] = IF v = w THEN "idle" ELSE pc[v]
        /\ \A v \in Workers : chunk'[v] = IF v = w THEN NoChunk ELSE chunk[v]
        /\ \A v \in Workers \ {w} : loaded'[v] = loaded[v]
    BY <1>0, <2>1
  <2>3. CopiesAreRecent'
    BY <1>1, <2>1, <2>2 DEF CopiesAreRecent, Cached
  <2>4. Places'
    BY <1>0, <2>1, <2>2 DEF FreshInv, Places
  <2>5. OneVersion'
    <3> SUFFICES ASSUME ~unsettled  PROVE OneVersion'
      BY <2>1 DEF OneVersion
    <3>1. InJob /\ CopiesCurrent
      BY <2>1 DEF FreshInv, Places, OneVersion, InJob
    <3>2. CopiesCurrent'
      BY <2>1, <2>2, <3>1 DEF CopiesCurrent, Cached
    <3>3. ASSUME NEW v \in Workers  PROVE HoldsCurrent(v)'
      <4>1. HoldsCurrent(v)
        BY DEF FreshInv, OneVersion
      <4>2. CASE v = w
        BY <1>0, <2>1, <2>2, <4>2 DEF HoldsCurrent
      <4>3. CASE v # w
        BY <1>0, <2>1, <2>2, <4>1, <4>3 DEF HoldsCurrent
      <4>4. QED  BY <4>2, <4>3
    <3>4. loaded[w] = tmpl
      <4>1. HoldsCurrent(w) /\ loaded[w] \in Template
        BY DEF FreshInv, OneVersion
      <4>2. \A p \in Parts : loaded[w][p] = tmpl[p]
        BY <2>1, <4>1 DEF HoldsCurrent
      <4>3. QED  BY <1>0, <4>1, <4>2, SameParts
    <3>5. \A o \in outputs' : o.file = File(o.chunk, tmpl)
      BY <2>1, <3>4 DEF FreshInv, OneVersion
    <3>6. QED  BY <1>0, <2>1, <3>2, <3>3, <3>5 DEF FreshInv, OneVersion
  <2>6. QED  BY <2>3, <2>4, <2>5 DEF FreshInv
<1>7. CASE ReadWrap
  <2>1. /\ UNCHANGED <<outputs, tmpl, age, cache, pc, part, chunk, loaded, read, lag, unsettled>>
        /\ wrap' = tmpl["metadata"]
    BY <1>7 DEF ReadWrap, editing, worker
  <2>2. CopiesAreRecent' /\ Places'
    BY <2>1 DEF FreshInv, CopiesAreRecent, Cached, Places
  <2>3. OneVersion'
    BY <1>0, <2>1 DEF FreshInv, OneVersion, InJob, CopiesCurrent, Cached, HoldsCurrent
  <2>4. QED  BY <2>2, <2>3 DEF FreshInv
<1>8. ASSUME NEW p \in Parts, Edit(p)  PROVE FreshInv'
  <2>1. /\ UNCHANGED <<outputs, cache, pc, part, chunk, loaded, read, lag, wrap>>
        /\ tmpl' = [tmpl EXCEPT ![p] = @ + 1] /\ age' = [age EXCEPT ![p] = 0]
        /\ unsettled' = (unsettled \/ InJob)
    BY <1>8 DEF Edit, worker, InJob
  <2>2. /\ \A q \in Parts \ {p} : tmpl'[q] = tmpl[q] /\ age'[q] = age[q]
        /\ age'[p] = 0
    BY <1>0, <2>1 DEF Template
  <2>3. CopiesAreRecent'
    <3>1. ASSUME NEW v \in Loaders, pc[v] = "fill", read[v] # tmpl'[part[v]]
          PROVE  age'[part[v]] <= lag[v]
      <4>1. part[v] \in Parts /\ lag[v] \in Nat
        OBVIOUS
      <4>2. QED  BY <1>1, <2>2, <3>1, <4>1
    <3>2. ASSUME NEW q \in CachedParts, Cached(q), cache[q].version # tmpl'[q]
          PROVE  age'[q] + cache[q].left <= Grace
      <4>1. q \in Parts /\ cache[q].left \in 0 .. CacheTTL /\ CacheTTL <= Grace
        BY DEF Grace
      <4>2. QED  BY <1>1, <2>2, <3>2, <4>1
    <3>3. QED  BY <2>1, <3>1, <3>2 DEF CopiesAreRecent, Cached
  <2>4. Places'
    BY <2>1 DEF FreshInv, Places
  <2>5. OneVersion'
    <3> SUFFICES ASSUME ~unsettled'  PROVE OneVersion'
      BY DEF OneVersion
    <3>1. outputs = {} /\ \A w \in Workers : pc[w] = "idle"
      BY <2>1 DEF InJob, FreshInv, Places
    <3>2. ~InJob'
      BY <2>1 DEF InJob
    <3>3. wrap = -1
      <4>1. Done = {}
        BY <3>1 DEF Done
      <4>2. ChunkNo(0) \in AllChunks
        <5>1. 0 \in 0 .. total - 1
          BY SizedFacts
        <5>2. QED  BY <5>1 DEF AllChunks
      <4>3. QED  BY <4>1, <4>2 DEF OutputsInv
    <3>4. QED  BY <2>1, <3>1, <3>2, <3>3 DEF OneVersion, HoldsCurrent
  <2>6. QED  BY <2>3, <2>4, <2>5 DEF FreshInv
<1>9. CASE Tick
  <2>1. /\ UNCHANGED <<outputs, tmpl, pc, part, chunk, loaded, read, wrap, unsettled>>
        /\ \A w \in Loaders : lag'[w] = IF pc[w] = "fill" THEN lag[w] + 1 ELSE 0
        /\ \A p \in CachedParts : age'[p] = Least(age[p] + 1, Grace)
        /\ \A p \in CachedParts :
             cache'[p] = IF cache[p].left > 1 THEN [cache[p] EXCEPT !.left = @ - 1]
                         ELSE [version |-> 0, left |-> 0]
    BY <1>9 DEF Tick
  <2>2. ASSUME NEW p \in CachedParts
        PROVE  /\ age'[p] <= age[p] + 1 /\ age'[p] \in Nat
               /\ Cached(p)' => /\ Cached(p) /\ cache'[p].version = cache[p].version
                                /\ cache'[p].left = cache[p].left - 1
    <3>1. age[p] \in Nat /\ cache[p] \in [version : Versions, left : 0 .. CacheTTL]
      OBVIOUS
    <3>2. age'[p] = IF age[p] + 1 <= Grace THEN age[p] + 1 ELSE Grace
      BY <2>1 DEF Least
    <3>3. age'[p] <= age[p] + 1 /\ age'[p] \in Nat
      BY <3>1, <3>2
    <3> DEFINE e == cache[p]
               f == cache'[p]
    <3>4. f = IF e.left > 1 THEN [e EXCEPT !.left = e.left - 1] ELSE [version |-> 0, left |-> 0]
      BY <2>1
    <3>5. e \in [version : Versions, left : 0 .. CacheTTL]
      BY <3>1
    <3>6. (Cached(p) <=> e.left > 0) /\ (Cached(p)' <=> f.left > 0)
      BY DEF Cached
    <3> HIDE DEF e, f
    <3>7. f.left > 0 => e.left > 0 /\ f.version = e.version /\ f.left = e.left - 1
      BY <3>4, <3>5
    <3>8. QED  BY <3>3, <3>6, <3>7 DEF e, f
  <2>3. CopiesAreRecent'
    <3>1. ASSUME NEW v \in Loaders, pc[v] = "fill", read[v] # tmpl[part[v]]
          PROVE  age'[part[v]] <= lag'[v]
      <4>1. part[v] \in CachedParts /\ lag[v] \in Nat /\ age[part[v]] \in Nat
        OBVIOUS
      <4>2. lag'[v] = lag[v] + 1 /\ age[part[v]] <= lag[v]
        BY <1>1, <2>1, <3>1
      <4>3. age'[part[v]] <= age[part[v]] + 1 /\ age'[part[v]] \in Nat
        BY <2>2, <4>1
      <4>4. QED  BY <4>1, <4>2, <4>3
    <3>2. ASSUME NEW q \in CachedParts, Cached(q)', cache'[q].version # tmpl[q]
          PROVE  age'[q] + cache'[q].left <= Grace
      <4>1. age[q] \in Nat /\ cache[q].left \in Nat
        OBVIOUS
      <4>2. /\ Cached(q) /\ cache[q].version # tmpl[q] /\ cache'[q].left = cache[q].left - 1
            /\ age'[q] <= age[q] + 1 /\ age'[q] \in Nat
        BY <2>2, <3>2
      <4>3. age[q] + cache[q].left <= Grace
        BY <1>1, <4>2
      <4>4. QED  BY <4>1, <4>2, <4>3
    <3>3. QED  BY <2>1, <3>1, <3>2 DEF CopiesAreRecent, Cached
  <2>4. Places'
    BY <2>1 DEF FreshInv, Places
  <2>5. OneVersion'
    <3> SUFFICES ASSUME ~unsettled  PROVE OneVersion'
      BY <2>1 DEF OneVersion
    <3>1. InJob' => CopiesCurrent'
      BY <2>1, <2>2 DEF FreshInv, OneVersion, InJob, CopiesCurrent
    <3>2. \A v \in Workers : HoldsCurrent(v)'
      BY <2>1 DEF FreshInv, OneVersion, HoldsCurrent
    <3>3. QED  BY <1>0, <2>1, <3>1, <3>2 DEF FreshInv, OneVersion
  <2>6. QED  BY <2>3, <2>4, <2>5 DEF FreshInv
<1>10. QED
  <2>1. FlushChunk \/ SplitAgain \/ WriteFinal \/ UNCHANGED vars
           => UNCHANGED <<outputs, editing, cache, worker, wrap, unsettled>>
    BY DEF FlushChunk, SplitAgain, WriteFinal, vars
  <2>2. QED  BY <1>2, <1>3, <1>4, <1>5, <1>6, <1>7, <1>8, <1>9, <2>1 DEF Next

\* No entry and no hanging worker passes on a part longer than TTL and lag
\* after it was edited.
THEOREM StaleCopies == Spec => []CopiesAreRecent
<1> DEFINE Inv == OrderInv /\ FreshInv
<1>1. Init => Inv
  BY InitOrder, InitFresh
<1>2. Inv /\ [Next]_vars => Inv'
  BY NextOrder, NextFresh DEF OrderInv
<1>3. Inv => CopiesAreRecent
  BY DEF FreshInv
<1>4. QED  BY <1>1, <1>2, <1>3, PTL DEF Spec
-----------------------------------------------------------------------------
(* The chunks are invisible *)

\* A settled job's file is that of one conversion of everything.
AtOnce == final # NoFile /\ ~unsettled => Content(final) = OneFile(tmpl)

ContentInv == OrderInv /\ FreshInv /\ AtOnce

\* The property says the same: one chunk of everything is a cut too.
LEMMA AtOnceIsInvisible ==
  ASSUME PathInv  PROVE AtOnce <=> ChunksAreInvisible
<1> DEFINE cs == <<Whole>>
           F == Merged(<<File(Whole, tmpl)>>, tmpl["metadata"])
<1>1. /\ Len(source) \in Nat \ {0} /\ tmpl \in Template /\ format \in Formats
  BY SizedFacts, JobsAssumption DEF PathInv, TypeOK
<1>2. Cut(cs, 1)
  BY <1>1 DEF Cut, Whole
<1>3. Files(cs, [k \in 1 .. 1 |-> tmpl], 1) = <<File(Whole, tmpl)>>
  BY DEF Files
<1>4. F = Merged(Files(cs, [k \in 1 .. 1 |-> tmpl], 1), tmpl["metadata"])
  BY <1>3
<1> DEFINE one == 1
<1>5. /\ one \in Nat \ {0} /\ Cut(cs, one)
      /\ F = Merged(Files(cs, [k \in 1 .. one |-> tmpl], one), tmpl["metadata"])
  BY <1>2, <1>4
<1> HIDE DEF cs, F, one
<1>6. Content(F) = OneFile(tmpl)
  BY <1>1, <1>5, MergedContent
<1>7. QED  BY <1>6 DEF AtOnce, ChunksAreInvisible, F, Whole

LEMMA SameContent ==
  ASSUME UNCHANGED job, UNCHANGED final  PROVE Content(final)' = Content(final)
BY DEF job, Content, Shown, Blank, Fate

LEMMA NextAtOnce ==
  ASSUME ContentInv, [Next]_vars  PROVE AtOnce'
<1>0. /\ PathInv /\ SplitInv /\ OutputsInv /\ FreshInv
      /\ tmpl \in Template /\ format \in Formats
      /\ total \in Nat \ {0} /\ Len(source) \in Nat \ {0} /\ Sized
  BY SizedFacts, JobsAssumption DEF ContentInv, OrderInv, PathInv, TypeOK
<1>1. /\ UNCHANGED job /\ \A t : OneFile(t)' = OneFile(t)
      /\ unsettled => unsettled'
      /\ final # NoFile => UNCHANGED <<final, tmpl>>
      /\ ~WriteFinal => UNCHANGED final
  <2>1. UNCHANGED job
    BY DEF Next, vars, FlushChunk, SplitAgain, Load, Hit, Miss, ReadRow, Fill, KeepOthers,
           TakeChunk, ReadMetadata, ConvertChunk, ReadWrap, WriteFinal, Edit, Tick
  <2>2. \A t : OneFile(t)' = OneFile(t)
    BY <2>1, SameJob
  <2>3. unsettled => unsettled'
    BY DEF Next, vars, FlushChunk, SplitAgain, Load, Hit, Miss, ReadRow, Fill, KeepOthers,
           TakeChunk, ReadMetadata, ConvertChunk, ReadWrap, WriteFinal, Edit, Tick
  <2>4. /\ final # NoFile => UNCHANGED <<final, tmpl>>
        /\ ~WriteFinal => UNCHANGED final
    BY DEF Next, vars, editing, FlushChunk, SplitAgain, Load, Hit, Miss, ReadRow, Fill, KeepOthers,
           TakeChunk, ReadMetadata, ConvertChunk, ReadWrap, WriteFinal, Edit, Tick
  <2>5. QED  BY <2>1, <2>2, <2>3, <2>4
<1>2. CASE final # NoFile
  <2>1. UNCHANGED <<job, final, tmpl>>
    BY <1>1, <1>2
  <2>2. Content(final)' = Content(final) /\ OneFile(tmpl)' = OneFile(tmpl)
    BY <2>1, SameContent, SameJob
  <2>3. QED  BY <1>1, <1>2, <2>1, <2>2 DEF ContentInv, AtOnce, NoFile
<1>3. CASE final = NoFile /\ ~WriteFinal
  BY <1>1, <1>3 DEF AtOnce, NoFile
<1>4. CASE WriteFinal
  <2> SUFFICES ASSUME ~unsettled  PROVE AtOnce'
    BY <1>1 DEF AtOnce
  <2> DEFINE cs == [k \in 1 .. total |-> ChunkNo(k - 1)]
             ts == [k \in 1 .. total |-> tmpl]
  <2>1. /\ wrap # -1 /\ final' = Merged(ListedFiles, wrap) /\ tmpl' = tmpl
    BY <1>4 DEF WriteFinal, ListedFiles, editing
  <2>2. /\ Done = AllChunks /\ wrap = tmpl["metadata"]
        /\ \A o \in outputs : o.file = File(o.chunk, tmpl)
    BY <1>0, <2>1 DEF OutputsInv, FreshInv, OneVersion
  <2>3. \A k \in 1 .. total : Listed[k].file = File(ChunkNo(k - 1), tmpl)
    BY <1>0, <2>2, ListedInOrder
  <2>4. Cut(cs, total)
    BY <1>0, ChunksCut
  <2>5. ListedFiles = Files(cs, ts, total)
    BY <2>3 DEF ListedFiles, Files
  <2>6. final' = Merged(Files(cs, ts, total), tmpl["metadata"])
    BY <2>1, <2>2, <2>5
  <2> HIDE DEF cs
  <2>7. Content(final') = OneFile(tmpl)
    BY <1>0, <2>4, <2>6, MergedContent
  <2>8. Content(final)' = Content(final')
    BY <1>1 DEF job, Content, Shown, Blank, Fate
  <2>9. QED  BY <1>1, <2>1, <2>7, <2>8 DEF AtOnce
<1>5. QED  BY <1>2, <1>3, <1>4

\* But for blank rows, the supplier cannot tell the chunks from the result: if
\* nobody edits the template during the job, or just before, the file is that
\* of one conversion of all items, with the template as it is.
THEOREM ChunksCannotBeSeen == Spec => []ChunksAreInvisible
<1>1. Init => ContentInv
  <2>1. Init => AtOnce
    BY DEF Init, AtOnce
  <2>2. QED  BY <2>1, InitOrder, InitFresh DEF ContentInv
<1>2. ContentInv /\ [Next]_vars => ContentInv'
  <2>1. ContentInv /\ [Next]_vars => OrderInv'
    BY NextOrder DEF ContentInv
  <2>2. ContentInv /\ [Next]_vars => FreshInv'
    BY NextFresh DEF ContentInv, OrderInv
  <2>3. QED  BY <2>1, <2>2, NextAtOnce DEF ContentInv
<1>3. ContentInv => ChunksAreInvisible
  BY AtOnceIsInvisible DEF ContentInv, OrderInv
<1>4. QED  BY <1>1, <1>2, <1>3, PTL DEF Spec
=============================================================================
