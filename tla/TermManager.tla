---------------------------- MODULE TermManager ----------------------------
(***************************************************************************)
(* ReconstructionTermManager: the requested range of a file is fetched in  *)
(* blocks of terms, several of them ahead of the reader. Where the file    *)
(* ends is not known when the range is open; the prefetch tasks find out   *)
(* and tell the manager through an atomic position. How much is prefetched *)
(* follows a rate estimate, here any size within the limits.               *)
(***************************************************************************)
EXTENDS Integers, SequencesExt

CONSTANTS
  FileLength,
  TermEnds,      \* positions at which terms of the file end
  Requests,      \* byte ranges to ask for; one may end behind the file
  MinFetch,      \* min_reconstruction_fetch_size
  MaxFetch       \* max_reconstruction_fetch_size

ASSUME RangeAssumption ==
  /\ FileLength \in Nat /\ TermEnds \subseteq 1..FileLength /\ FileLength \in TermEnds
  /\ Requests \subseteq {r \in [start : Nat, end : Nat] : r.start < r.end}
  /\ MinFetch \in 1..MaxFetch /\ MaxFetch \in Nat

VARIABLES
  requested,     \* requested_byte_range
  known_final,   \* known_final_byte_position
  prefetched,    \* prefetched_byte_position
  queue          \* prefetch_queue: ranges, and what their tasks have returned

mvars == <<requested, known_final, prefetched, queue>>

Least(a, b) == IF a < b THEN a ELSE b
Clamp(n, low, high) == IF n < low THEN low ELSE Least(n, high)

-----------------------------------------------------------------------------
\* The range that prefetch_block asks for when it is called for n bytes: up to
\* the end of the file when that is known, and to the end of the request when
\* less than a minimal block would be left.
BlockEnd(from, final, n) ==
  LET end == Least(from + Clamp(n, MinFetch, MaxFetch), Least(final, requested.end))
  IN  IF end + MinFetch > requested.end THEN requested.end ELSE end

Block(from, final, n) == [start |-> from, end |-> BlockEnd(from, final, n), answer |-> "pending"]

\* prefetch_block appends the block unless it would be empty.
AppendBlock(s, block) == IF block.start >= block.end THEN s ELSE Append(s, block)

prefetch_block(n) ==
  LET block == Block(prefetched, known_final, n)
  IN  /\ queue' = AppendBlock(queue, block)
      /\ prefetched' = IF block.start >= block.end THEN prefetched ELSE block.end
      /\ UNCHANGED <<requested, known_final>>

\* new: two small blocks are under way at once.
FirstBlocks ==
  LET first == Block(requested.start, requested.end, MinFetch)
      second == Block(first.end, requested.end, 2 * MinFetch)
  IN  AppendBlock(<<first>>, second)

ManagerInit ==
  /\ requested \in Requests
  /\ known_final = requested.end
  /\ queue = FirstBlocks
  /\ prefetched = queue[Len(queue)].end

is_done_fetching == prefetched >= known_final

\* check_prefetch_buffer: an empty queue is always filled.
check_prefetch_buffer ==
  \/ /\ is_done_fetching \/ queue # <<>>
     /\ UNCHANGED mvars
  \/ /\ ~is_done_fetching
     /\ \E n \in MinFetch..MaxFetch : prefetch_block(n)

-----------------------------------------------------------------------------
\* retrieve_file_term_block: the terms of the file within the range, the first
\* and the last one cut to it.
TermsIn(start, end) ==
  LET last == Least(end, FileLength)
      ends == SetToSortSeq({e \in TermEnds : start < e /\ e < last} \cup {last}, <)
  IN  [i \in 1..Len(ends) |-> [start |-> IF i = 1 THEN start ELSE ends[i - 1], end |-> ends[i]]]


\* A prefetch task ends, in any order of the tasks. A short answer tells where
\* the file ends; so does none at all.
FetchBlock(i) ==
  LET block == queue[i]
      last == Least(block.end, FileLength)
  IN  /\ block.answer = "pending"
      /\ \/ /\ block.start < FileLength
            /\ queue' = [queue EXCEPT ![i].answer = "terms"]
            /\ known_final' = IF last < block.end THEN last ELSE known_final
         \/ /\ block.start >= FileLength
            /\ queue' = [queue EXCEPT ![i].answer = "end"]
            /\ known_final' = Least(known_final, block.start)
         \/ /\ queue' = [queue EXCEPT ![i].answer = "error"]
            /\ UNCHANGED known_final
      /\ UNCHANGED <<requested, prefetched>>

\* next_file_terms after check_prefetch_buffer: the oldest block is awaited, and
\* without one the reader is through.
OldestReady == queue # <<>> /\ queue[1].answer # "pending"

Terms == TermsIn(queue[1].start, queue[1].end)

TakeBlock ==
  /\ OldestReady
  /\ queue' = Tail(queue)
  /\ known_final' = IF queue[1].answer = "end" THEN prefetched ELSE known_final
  /\ UNCHANGED <<requested, prefetched>>

DropManager ==
  /\ queue' = <<>>
  /\ UNCHANGED <<requested, known_final, prefetched>>
=============================================================================
