--------------------------- MODULE Deduplication ---------------------------
(***************************************************************************)
(* What the cleaners of an upload session do with the chunks of their      *)
(* files: FileDeduper, DefragPrevention and DataAggregator, over the       *)
(* session's index of xorbs.                                               *)
(*                                                                         *)
(* A chunk stands for its hash and has a size.  A xorb is content          *)
(* addressed, so it is the sequence of its chunks.  Chunk indices of       *)
(* segments count from 0 and exclude the end, as in the code; positions in *)
(* sequences count from 1.                                                 *)
(***************************************************************************)
EXTENDS Integers, SequencesExt

CONSTANTS
  Files,
  Chunks,
  Size,           \* bytes of each chunk
  Remote,         \* xorbs of shards that a global dedup query may bring in
  GlobalEligible, \* chunks whose hash is eligible for a global dedup query
  Marker,         \* MerkleHash::marker()
  MaxXorbBytes,
  MaxXorbChunks,
  NRanges,        \* nranges_in_streaming_fragmentation_estimator
  HighCPR,        \* min_n_chunks_per_range
  LowCPR,         \* the same times the hysteresis factor
  MaxFileChunks,  \* bound: chunks of each file
  MaxBlock        \* bound: chunks handed to one process_chunks call

ASSUME SizeAssumption == Size \in [Chunks -> 1 .. MaxXorbBytes]
ASSUME LimitsAssumption ==
  /\ MaxXorbBytes \in Nat \ {0}
  /\ MaxXorbChunks \in Nat \ {0}
  /\ NRanges \in Nat \ {0}
  /\ HighCPR \in Nat
  /\ LowCPR \in 0 .. HighCPR
ASSUME MarkerAssumption == Marker \notin Seq(Chunks)

VARIABLES
  pc,       \* per file: where its cleaner is
  deduper,  \* per file: its FileDeduper
  block,    \* per file: the running process_chunks call
  agg,      \* current_session_data
  index,    \* xorbs of the session shard
  known,    \* xorbs of the shard cache
  shard,    \* files of the session shard
  reported, \* per file: bytes of the dependencies registered for it
  sealed    \* finalize has taken the aggregator

vars == <<pc, deduper, block, agg, index, known, shard, reported, sealed>>

Bytes(cs) == FoldLeft(LAMBDA n, c : n + Size[c], 0, cs)

Segment(x, from, to, n) == [xorb |-> x, start |-> from, end |-> to, bytes |-> n]

NewDeduper ==
  [hashes |-> <<>>, newData |-> <<>>, segs |-> <<>>, marked |-> <<>>,
   window |-> <<>>, rolling |-> 0, low |-> TRUE,
   total |-> 0, deduped |-> 0, new |-> 0, prevented |-> 0]

\* chunks of the call, what the queries found at each position, whether a global
\* query is out, the pass, the position, and the dependencies met so far.
NewBlock(cs) ==
  [chunks |-> cs, hits |-> [i \in DOMAIN cs |-> {}], asked |-> FALSE, pass |-> 1,
   pos |-> 1, deps |-> 0]

EmptyAgg == [chunks |-> <<>>, files |-> <<>>]

Init ==
  /\ pc = [f \in Files |-> "idle"]
  /\ deduper = [f \in Files |-> NewDeduper]
  /\ block = [f \in Files |-> NewBlock(<<>>)]
  /\ agg = EmptyAgg
  /\ index = {}
  /\ known = {}
  /\ shard = {}
  /\ reported = [f \in Files |-> 0]
  /\ sealed = FALSE

-----------------------------------------------------------------------------
(* Defragmentation prevention.                                             *)

RangeExtended(d, n) ==
  IF d.window = <<>> THEN d
  ELSE [d EXCEPT !.window[Len(d.window)] = @ + n, !.rolling = @ + n]

\* Mutant: the range that leaves the window stays in the sum.
RangeAddedKeepingSum(d, n) ==
  LET w == Append(d.window, n)
  IN [d EXCEPT !.window = IF Len(w) > NRanges THEN Tail(w) ELSE w, !.rolling = @ + n]

RangeAdded(d, n) ==
  LET w == Append(d.window, n)
  IN IF Len(w) > NRanges
     THEN [d EXCEPT !.window = Tail(w), !.rolling = @ + n - Head(w)]
     ELSE [d EXCEPT !.window = w, !.rolling = @ + n]

Estimated(d) == Len(d.window) >= NRanges

\* Averages over the window are compared with both sides multiplied by its length.
Fragmented(d) == d.rolling < Len(d.window) * (IF d.low THEN LowCPR ELSE HighCPR)

TooShort(d, n) == n * Len(d.window) < d.rolling

AllowDedup(d, n) == Estimated(d) /\ Fragmented(d) => ~TooShort(d, n)

\* The hysteresis after the question was asked for a range of n chunks.
Asked(d, n) ==
  [d EXCEPT !.low = IF ~Estimated(d) THEN @
                    ELSE IF ~Fragmented(d) THEN TRUE
                    ELSE @ /\ ~TooShort(d, n)]

-----------------------------------------------------------------------------
(* FileDeduper.                                                            *)

\* Length of the longest common prefix of non-empty sequences s and t that
\* agree on their first element.
Agreeing(s, t) ==
  CHOOSE n \in 1 .. Len(s) :
    /\ n <= Len(t)
    /\ \A i \in 1 .. n : s[i] = t[i]
    /\ n = Len(s) \/ n = Len(t) \/ s[n + 1] # t[n + 1]

\* chunk_hash_dedup_query: xorb x has a run of the chunks cs.
Matches(cs, X) ==
  UNION {{LET n == Agreeing(cs, SubSeq(x, i, Len(x)))
          IN [n |-> n, seg |-> Segment(x, i - 1, i - 1 + n, Bytes(SubSeq(cs, 1, n)))] :
            i \in {j \in DOMAIN x : x[j] = cs[1]}} : x \in X}

\* new_data_hash_lookup: the position at which c was last inserted.
Lookup(d, c) ==
  LET at == {i \in DOMAIN d.newData : d.newData[i] = c} IN IF at = {} THEN 0 ELSE Max(at)

\* dedup_query_against_local_data: at most one result, naming the marker.
LocalMatches(d, cs) ==
  LET base == Lookup(d, cs[1])
      n == CHOOSE k \in 1 .. Len(cs) :
             /\ \A i \in 1 .. k : Lookup(d, cs[i]) = base + i - 1
             /\ k = Len(cs) \/ Lookup(d, cs[k + 1]) # base + k
  IN IF base = 0 THEN {}
     ELSE {[n |-> n, seg |-> Segment(Marker, base - 1, base - 1 + n, Bytes(SubSeq(cs, 1, n)))]}

Continues(d, g) ==
  /\ d.segs # <<>>
  /\ Last(d.segs).xorb = g.xorb
  /\ Last(d.segs).end = g.start

\* add_file_data_sequence_entry for a range of n chunks.
AddSegment(d, g, n) ==
  IF Continues(d, g)
  THEN RangeExtended([d EXCEPT !.segs[Len(d.segs)].bytes = @ + g.bytes,
                               !.segs[Len(d.segs)].end = g.end], n)
  ELSE RangeAdded([d EXCEPT !.segs = Append(@, g),
                            !.marked = IF g.xorb = Marker THEN Append(@, Len(d.segs) + 1)
                                       ELSE @], n)

\* The hash of a cut xorb replaces the marker in the segments listed.
Fill(segs, marked, x) ==
  [i \in DOMAIN segs |-> IF i \in Range(marked) THEN [segs[i] EXCEPT !.xorb = x] ELSE segs[i]]

\* Mutant: the list of marker segments is not cleared.
CutKeepingMarked(d) ==
  [d EXCEPT !.segs = Fill(@, d.marked, d.newData), !.newData = <<>>]

CutNewXorb(d) ==
  [d EXCEPT !.segs = Fill(@, d.marked, d.newData), !.newData = <<>>, !.marked = <<>>]

\* A chunk of new data, which the xorb being built has room for.
AddNewChunk(d, c) ==
  LET g == Segment(Marker, Len(d.newData), Len(d.newData) + 1, Size[c])
  IN [AddSegment(d, g, 1) EXCEPT !.newData = Append(@, c),
                                 !.total = @ + Size[c], !.new = @ + Size[c]]

Full(d, c) ==
  \/ Bytes(d.newData) + Size[c] > MaxXorbBytes
  \/ Len(d.newData) + 1 > MaxXorbChunks

-----------------------------------------------------------------------------
(* process_chunks: the queries for the whole block come first.             *)

StartBlock(f, cs) ==
  /\ pc[f] = "idle"
  /\ Len(deduper[f].hashes) + Len(cs) <= MaxFileChunks[f]
  /\ block' = [block EXCEPT ![f] = NewBlock(cs)]
  /\ pc' = [pc EXCEPT ![f] = "query"]
  /\ UNCHANGED <<deduper, agg, index, known, shard, reported, sealed>>

Rest(f) == SubSeq(block[f].chunks, block[f].pos, Len(block[f].chunks))

At(f, state) == pc[f] = state /\ Rest(f) # <<>>

Hits(f) == block[f].hits[block[f].pos]

\* A block found by the first pass.
QuerySkip(f) ==
  /\ At(f, "query")
  /\ \E m \in Hits(f) : block' = [block EXCEPT ![f].pos = @ + m.n]
  /\ UNCHANGED <<pc, deduper, agg, index, known, shard, reported, sealed>>

QueryHit(f) ==
  /\ At(f, "query")
  /\ Hits(f) = {}
  /\ \E m \in Matches(Rest(f), index \cup known) :
       block' = [block EXCEPT ![f].hits[block[f].pos] = {m}, ![f].pos = @ + m.n]
  /\ UNCHANGED <<pc, deduper, agg, index, known, shard, reported, sealed>>

\* Nothing found, be it that the lookup tables do not hold the chunk any more.
\* On the first pass the server is asked for the first chunk of the file and
\* for eligible ones.
QueryMiss(f) ==
  /\ At(f, "query")
  /\ Hits(f) = {}
  /\ LET b == block[f]
         ask == /\ b.pass = 1
                /\ \/ Len(deduper[f].hashes) + b.pos = 1
                   \/ b.chunks[b.pos] \in GlobalEligible
     IN block' = [block EXCEPT ![f].pos = @ + 1, ![f].asked = @ \/ ask]
  /\ UNCHANGED <<pc, deduper, agg, index, known, shard, reported, sealed>>

\* complete_global_dedup_queries.  It answers true for any query that did not
\* fail, whether or not a shard came in; then a second pass is made.
QueriesDone(f) ==
  /\ pc[f] = "query"
  /\ Rest(f) = <<>>
  /\ IF block[f].pass = 1 /\ block[f].asked
     THEN /\ \E X \in SUBSET Remote : known' = known \cup X
          /\ block' = [block EXCEPT ![f].pass = 2, ![f].pos = 1, ![f].asked = FALSE]
          /\ UNCHANGED pc
     ELSE /\ block' = [block EXCEPT ![f].pos = 1]
          /\ pc' = [pc EXCEPT ![f] = "process"]
          /\ UNCHANGED known
  /\ UNCHANGED <<deduper, agg, index, shard, reported, sealed>>

-----------------------------------------------------------------------------
(* process_chunks: then the results are used, chunk by chunk.              *)

\* What is known of the next chunks: a query's result or the data at hand.
Candidates(f) == IF Hits(f) # {} THEN Hits(f) ELSE LocalMatches(deduper[f], Rest(f))

\* A candidate is counted as deduplicated before the decision.
Counted(d, m) == [d EXCEPT !.total = @ + m.seg.bytes, !.deduped = @ + m.seg.bytes]

Accepted(d, m) == Continues(d, m.seg) \/ AllowDedup(d, m.n)

\* Mutant: local matches are reported at once, and again when the data is cut.
ProcessDedupReported(f) ==
  /\ At(f, "process")
  /\ \E m \in Candidates(f) :
       LET d == deduper[f]
           counted == Counted(IF Continues(d, m.seg) THEN d ELSE Asked(d, m.n), m)
       IN /\ Accepted(d, m)
          /\ deduper' = [deduper EXCEPT ![f] = AddSegment(counted, m.seg, m.n)]
          /\ block' = [block EXCEPT ![f].pos = @ + m.n, ![f].deps = @ + m.seg.bytes]
  /\ UNCHANGED <<pc, agg, index, known, shard, reported, sealed>>

ProcessDedup(f) ==
  /\ At(f, "process")
  /\ \E m \in Candidates(f) :
       LET d == deduper[f]
           counted == Counted(IF Continues(d, m.seg) THEN d ELSE Asked(d, m.n), m)
       IN /\ Accepted(d, m)
          /\ deduper' = [deduper EXCEPT ![f] = AddSegment(counted, m.seg, m.n)]
          /\ block' = [block EXCEPT ![f].pos = @ + m.n,
                                    ![f].deps = IF m.seg.xorb = Marker THEN @
                                                ELSE @ + m.seg.bytes]
  /\ UNCHANGED <<pc, agg, index, known, shard, reported, sealed>>

\* Mutant: prevented dedup is not counted.
TurnedDownUncounted(f) ==
  LET d == deduper[f]
  IN IF Candidates(f) = {} THEN {d}
     ELSE {Counted(Asked(d, m.n), m) : m \in {c \in Candidates(f) : ~Accepted(d, c)}}

\* The deduper once it has turned down every candidate it was offered.
TurnedDown(f) ==
  LET d == deduper[f]
      refused(m) == [Counted(Asked(d, m.n), m) EXCEPT !.prevented = @ + m.seg.bytes]
  IN IF Candidates(f) = {} THEN {d}
     ELSE {refused(m) : m \in {c \in Candidates(f) : ~Accepted(d, c)}}

\* Mutant: the xorb that was cut is not registered.
ProcessNewUnregistered(f) ==
  /\ At(f, "process")
  /\ \E d \in TurnedDown(f) :
       LET c == Head(Rest(f))
           cut == Full(d, c)
       IN /\ deduper' = [deduper EXCEPT ![f] = AddNewChunk(IF cut THEN CutNewXorb(d) ELSE d, c)]
          /\ block' = [block EXCEPT ![f].pos = @ + 1,
                                    ![f].deps = IF cut THEN @ + Bytes(d.newData) ELSE @]
  /\ UNCHANGED <<pc, agg, index, known, shard, reported, sealed>>

\* A new chunk, cutting a xorb first where it does not fit.
ProcessNew(f) ==
  /\ At(f, "process")
  /\ \E d \in TurnedDown(f) :
       LET c == Head(Rest(f))
           cut == Full(d, c)
       IN /\ deduper' = [deduper EXCEPT ![f] = AddNewChunk(IF cut THEN CutNewXorb(d) ELSE d, c)]
          /\ index' = IF cut THEN index \cup {d.newData} ELSE index
          /\ block' = [block EXCEPT ![f].pos = @ + 1,
                                    ![f].deps = IF cut THEN @ + Bytes(d.newData) ELSE @]
  /\ UNCHANGED <<pc, agg, known, shard, reported, sealed>>

EndBlock(f) ==
  /\ pc[f] = "process"
  /\ Rest(f) = <<>>
  /\ deduper' = [deduper EXCEPT ![f].hashes = @ \o block[f].chunks]
  /\ reported' = [reported EXCEPT ![f] = @ + block[f].deps]
  /\ block' = [block EXCEPT ![f] = NewBlock(<<>>)]
  /\ pc' = [pc EXCEPT ![f] = "idle"]
  /\ UNCHANGED <<agg, index, known, shard, sealed>>

\* The file fails: reading it, a query, or (after the cut) registering a xorb.
\* Its deduper is dropped; a xorb may have reached the index.
Fail(f) ==
  /\ pc[f] \in {"idle", "query", "process"}
  /\ \E X \in SUBSET (IF pc[f] = "process" /\ deduper[f].newData # <<>>
                      THEN {deduper[f].newData} ELSE {}) : index' = index \cup X
  /\ pc' = [pc EXCEPT ![f] = "err"]
  /\ deduper' = [deduper EXCEPT ![f] = NewDeduper]
  /\ block' = [block EXCEPT ![f] = NewBlock(<<>>)]
  /\ UNCHANGED <<agg, known, shard, reported, sealed>>

-----------------------------------------------------------------------------
(* DataAggregator, and the session's use of it.                            *)

FileData(f) ==
  [chunks |-> deduper[f].newData,
   files |-> <<[file |-> f, segs |-> deduper[f].segs, marked |-> deduper[f].marked]>>]

Shift(segs, n) ==
  [i \in DOMAIN segs |->
     IF segs[i].xorb = Marker THEN [segs[i] EXCEPT !.start = @ + n, !.end = @ + n] ELSE segs[i]]

\* Mutant: the segments of the other aggregator are not shifted.
MergeUnshifted(a, b) == [chunks |-> a.chunks \o b.chunks, files |-> a.files \o b.files]

MergeIn(a, b) ==
  [chunks |-> a.chunks \o b.chunks,
   files |-> a.files \o [i \in DOMAIN b.files |->
                           [b.files[i] EXCEPT !.segs = Shift(@, Len(a.chunks))]]]

\* Bytes of the file that are in the xorb cut from its aggregator.
BytesInXorb(e) ==
  FoldLeft(LAMBDA n, i : n + e.segs[i].bytes, 0, e.marked)

\* process_aggregated_data_as_xorb: an empty xorb is not uploaded.
ProcessAggregated(a) ==
  /\ shard' = shard \cup {[file |-> e.file, segs |-> Fill(e.segs, e.marked, a.chunks)] :
                            e \in Range(a.files)}
  /\ reported' = [f \in Files |->
       FoldLeft(LAMBDA n, e : n + (IF e.file = f THEN BytesInXorb(e) ELSE 0), reported[f], a.files)]
  /\ index' = IF a.chunks = <<>> THEN index ELSE index \cup {a.chunks}

\* Mutant: the limit on chunks is not checked.
TooManyBytes(a, b) == Bytes(a.chunks) + Bytes(b.chunks) > MaxXorbBytes

TooLarge(a, b) ==
  \/ Bytes(a.chunks) + Bytes(b.chunks) > MaxXorbBytes
  \/ Len(a.chunks) + Len(b.chunks) > MaxXorbChunks

\* register_single_file_clean_completion: the larger one is cut.
Finish(f) ==
  /\ pc[f] = "idle"
  /\ LET own == FileData(f)
         swap == Bytes(agg.chunks) > Bytes(own.chunks)
     IN IF TooLarge(agg, own)
        THEN /\ ProcessAggregated(IF swap THEN agg ELSE own)
             /\ agg' = IF swap THEN own ELSE agg
        ELSE /\ agg' = MergeIn(agg, own)
             /\ UNCHANGED <<shard, reported, index>>
  /\ pc' = [pc EXCEPT ![f] = "done"]
  /\ UNCHANGED <<deduper, block, known, sealed>>

\* finalize_impl, once the files are done.
FinalizeSession ==
  /\ ~sealed
  /\ \A f \in Files : pc[f] \in {"done", "err"}
  /\ ProcessAggregated(agg)
  /\ agg' = EmptyAgg
  /\ sealed' = TRUE
  /\ UNCHANGED <<pc, deduper, block, known>>

-----------------------------------------------------------------------------

BoundedBlocks == UNION {[1 .. n -> Chunks] : n \in 1 .. MaxBlock}

Next ==
  \/ \E f \in Files :
       \/ \E cs \in BoundedBlocks : StartBlock(f, cs)
       \/ QuerySkip(f)
       \/ QueryHit(f)
       \/ QueryMiss(f)
       \/ QueriesDone(f)
       \/ ProcessDedup(f)
       \/ ProcessNew(f)
       \/ EndBlock(f)
       \/ Fail(f)
       \/ Finish(f)
  \/ FinalizeSession

Spec == Init /\ [][Next]_vars

-----------------------------------------------------------------------------
(* Properties.                                                             *)

\* The chunks a file has given its deduper and that have been processed.
Processed(f) ==
  deduper[f].hashes \o
    (IF pc[f] = "process" THEN SubSeq(block[f].chunks, 1, block[f].pos - 1) ELSE <<>>)

\* Reading segments segs, the marker standing for buffer, gives the chunks cs,
\* and each segment has the bytes it says.
Reads(segs, buffer, cs) ==
  LET content(g) == IF g.xorb = Marker THEN buffer ELSE g.xorb
      part(g) == SubSeq(content(g), g.start + 1, g.end)
  IN /\ \A i \in DOMAIN segs :
          /\ segs[i].start < segs[i].end /\ segs[i].end <= Len(content(segs[i]))
          /\ segs[i].bytes = Bytes(part(segs[i]))
     /\ FlattenSeq([i \in DOMAIN segs |-> part(segs[i])]) = cs

\* A file reads back as the chunks that went in, at every moment: while its
\* deduper builds, cuts and extends segments, while it is shifted and merged in
\* the aggregator, and from the session shard, where no marker is left
\* (process_chunks, cut_new_xorb, merge_in, finalize).
Reconstructs ==
  /\ \A f \in Files : pc[f] \in {"idle", "query", "process"} =>
       Reads(deduper[f].segs, deduper[f].newData, Processed(f))
  /\ \A e \in Range(agg.files) : Reads(e.segs, agg.chunks, Processed(e.file))
  /\ \A e \in shard : /\ Reads(e.segs, <<>>, Processed(e.file))
                      /\ \A i \in DOMAIN e.segs : e.segs[i].xorb # Marker

\* internally_referencing_entries names every marker segment once: a segment
\* left out would keep the marker, one named twice would count twice.
MarkersListed ==
  LET listed(segs, marked) ==
        /\ Range(marked) = {i \in DOMAIN segs : segs[i].xorb = Marker}
        /\ Len(marked) = Cardinality(Range(marked))
  IN /\ \A f \in Files : listed(deduper[f].segs, deduper[f].marked)
     /\ \A e \in Range(agg.files) : listed(e.segs, e.marked)

\* No xorb exceeds the limits, be it cut in the middle of a file, at its end or
\* from the aggregator (the debug assertions of finalize and merge_in).
XorbLimits ==
  \A x \in index \cup {agg.chunks} : Bytes(x) <= MaxXorbBytes /\ Len(x) <= MaxXorbChunks

\* A segment names a xorb of the session or of a known shard, although the
\* query that found it was answered before other files moved on.
SegmentsNameXorbs ==
  \A segs \in {deduper[f].segs : f \in Files} \cup {e.segs : e \in Range(agg.files) \cup shard} :
    \A i \in DOMAIN segs : segs[i].xorb \in index \cup known \cup {Marker}

\* The fragmentation estimate is about the file's own last segments: each range
\* of the window is as long as its segment, through merges and cuts.
WindowTracksSegments ==
  \A f \in Files :
    LET d == deduper[f]
        k == Len(d.window)
    IN /\ k = Min({NRanges, Len(d.segs)})
       /\ d.rolling = FoldLeft(LAMBDA a, b : a + b, 0, d.window)
       /\ \A i \in 1 .. k : LET g == d.segs[Len(d.segs) - k + i]
                            IN d.window[i] = g.end - g.start

\* Every byte is counted as new or deduplicated, and what exceeds the size of the
\* file is what defragmentation prevented (the metrics of process_chunks).
MetricsAddUp ==
  \A f \in Files :
    LET d == deduper[f]
    IN /\ d.total = d.new + d.deduped
       /\ d.total = Bytes(Processed(f)) + d.prevented

\* The dependencies reported for a file never exceed what it has processed, so
\* that its completed bytes cannot pass its size (register_dependencies).
DependenciesBounded ==
  \A f \in Files : pc[f] # "err" => reported[f] + block[f].deps <= Bytes(Processed(f))

\* finish_inner asserts "debug_assert_eq!(...file_size(), deduplication_metrics.total_bytes)"
\* and reports total_bytes as the size of the file.
FileSizeIsTotal ==
  \A f \in Files : pc[f] = "done" => deduper[f].total = Bytes(deduper[f].hashes)

\* assert_complete: when a session without failures is finalized, each file is
\* "fully completed", so the dependencies reported add up to its size.
\* process_chunks says of local dedup that it "is handled when the xorb gets cut".
DependenciesComplete ==
  sealed /\ (\A f \in Files : pc[f] = "done") =>
    \A f \in Files : reported[f] = Bytes(deduper[f].hashes)
=============================================================================
