------------------------- MODULE CompletionTracker -------------------------
(***************************************************************************)
(* The progress accounting of an upload session: CompletionTracker, fed by *)
(* the cleaners (sizes and dependencies of files), by the upload tasks     *)
(* (completion of xorbs) and by the streams that send xorbs, whose reports *)
(* are delivered by spawned tasks in any order and at any time, while      *)
(* requests are retried.                                                   *)
(***************************************************************************)
EXTENDS Integers, Sequences, FiniteSetsExt, TLC

CONSTANTS
  Files,
  Sized,       \* files whose size is known when they are registered
  Xorbs,
  RawSize,     \* per xorb: bytes of its chunks; 0 for the empty xorb
  WireSize,    \* per xorb: bytes that are sent
  BlockSize,   \* upload_reporting_block_size
  Dependencies,\* what the cleaners report: records [file, xorb, bytes, external, id]
  MaxAttempts  \* bound: requests made for a xorb

ASSUME FilesAssumption == Sized \subseteq Files
ASSUME SizesAssumption ==
  /\ RawSize \in [Xorbs -> Nat]
  /\ WireSize \in [Xorbs -> Nat \ {0}]
  /\ BlockSize \in Nat \ {0}
  /\ MaxAttempts \in Nat \ {0}
ASSUME DependenciesAssumption ==
  \A d \in Dependencies :
    /\ d.file \in Files
    /\ d.bytes \in Nat
    /\ d.external \/ d.xorb \in Xorbs

VARIABLES
  totalBytes,     \* per file: total_bytes
  completedBytes, \* per file: completed_bytes
  parts,          \* per file: remaining_xorbs_parts, a function on some xorbs
  xorbs,          \* the tracker's table of xorbs, a function on some xorbs
  totals,         \* the four counters over all files and xorbs
  arrived,        \* dependencies whose data has been added to the file
  registered,     \* dependencies given to the tracker
  sent,           \* per xorb: its requests, bytes taken from the stream and whether it exists
  highWater,      \* per xorb: bytes_reported of its StreamProgressReporter
  reports         \* per xorb: reports in flight, with the mark they were made at

tracker == <<totalBytes, completedBytes, parts, xorbs, totals>>
streams == <<sent, highWater, reports>>
vars == <<totalBytes, completedBytes, parts, xorbs, totals, arrived, registered,
          sent, highWater, reports>>

DepsOf(f, D) == {d \in D : d.file = f}
BytesOf(D) == MapThenSumSet(LAMBDA d : d.bytes, D)

NewXorb == [files |-> {}, done |-> 0, size |-> 0, completed |-> FALSE]
NewPart == [done |-> 0, n |-> 0]

\* register_new_file.
Init ==
  /\ totalBytes = [f \in Files |-> IF f \in Sized THEN BytesOf(DepsOf(f, Dependencies)) ELSE 0]
  /\ completedBytes = [f \in Files |-> 0]
  /\ parts = [f \in Files |-> <<>>]
  /\ xorbs = <<>>
  /\ totals = [bytes |-> MapThenSumSet(LAMBDA f : totalBytes[f], Files), bytesDone |-> 0,
               upload |-> 0, uploadDone |-> 0]
  /\ arrived = {}
  /\ registered = {}
  /\ sent = [x \in Xorbs |-> <<>>]
  /\ highWater = [x \in Xorbs |-> 0]
  /\ reports = [x \in Xorbs |-> {}]

Known(x) == x \in DOMAIN xorbs
EntryOr(table, x, default) == IF x \in DOMAIN table THEN table[x] ELSE default

-----------------------------------------------------------------------------
(* The cleaners.                                                           *)

\* Mutant: the counter over all files is forgotten.
AddDataUncounted(d) ==
  /\ d \in Dependencies \ arrived
  /\ arrived' = arrived \cup {d}
  /\ totalBytes' = IF d.file \in Sized THEN totalBytes
                   ELSE [totalBytes EXCEPT ![d.file] = @ + d.bytes]
  /\ UNCHANGED <<completedBytes, parts, xorbs, totals, registered, streams>>

\* Data is added to a file: increment_file_size, unless the size was given.
AddData(d) ==
  /\ d \in Dependencies \ arrived
  /\ arrived' = arrived \cup {d}
  /\ IF d.file \in Sized
     THEN UNCHANGED tracker
     ELSE /\ totalBytes' = [totalBytes EXCEPT ![d.file] = @ + d.bytes]
          /\ totals' = [totals EXCEPT !.bytes = @ + d.bytes]
          /\ UNCHANGED <<completedBytes, parts, xorbs>>
  /\ UNCHANGED <<registered, streams>>

\* register_new_xorb; an entry of size 0 is one a dependency created, or the
\* empty xorb, which is completed at once.
RegisterNewXorb(x) ==
  /\ Known(x) => xorbs[x].size = 0 /\ RawSize[x] # 0
  /\ xorbs' = (x :> [EntryOr(xorbs, x, NewXorb) EXCEPT !.size = RawSize[x]]) @@ xorbs
  /\ totals' = [totals EXCEPT !.upload = @ + RawSize[x]]
  /\ UNCHANGED <<totalBytes, completedBytes, parts, arrived, registered, streams>>

\* Mutant: a dependency on a xorb that is completed waits for it all the same.
RegisterAlwaysWaiting(d) ==
  /\ d \in arrived \ registered
  /\ d.external \/ Known(d.xorb)
  /\ registered' = registered \cup {d}
  /\ IF d.external
     THEN /\ completedBytes' = [completedBytes EXCEPT ![d.file] = @ + d.bytes]
          /\ totals' = [totals EXCEPT !.bytesDone = @ + d.bytes]
          /\ UNCHANGED <<parts, xorbs>>
     ELSE /\ xorbs' = [xorbs EXCEPT ![d.xorb].files = @ \cup {d.file}]
          /\ parts' = [parts EXCEPT ![d.file] =
               (d.xorb :> [EntryOr(@, d.xorb, NewPart) EXCEPT !.n = @ + d.bytes]) @@ @]
          /\ UNCHANGED <<completedBytes, totals>>
  /\ UNCHANGED <<totalBytes, arrived, streams>>

\* register_dependencies, for one of them.  Bytes of other sessions' xorbs and of
\* xorbs already uploaded are complete; others wait for their xorb.
RegisterDependency(d) ==
  /\ d \in arrived \ registered
  /\ d.external \/ Known(d.xorb)
  /\ registered' = registered \cup {d}
  /\ IF d.external \/ xorbs[d.xorb].completed
     THEN /\ completedBytes' = [completedBytes EXCEPT ![d.file] = @ + d.bytes]
          /\ totals' = [totals EXCEPT !.bytesDone = @ + d.bytes]
          /\ UNCHANGED <<parts, xorbs>>
     ELSE /\ xorbs' = [xorbs EXCEPT ![d.xorb].files = @ \cup {d.file}]
          /\ parts' = [parts EXCEPT ![d.file] =
               (d.xorb :> [EntryOr(@, d.xorb, NewPart) EXCEPT !.n = @ + d.bytes]) @@ @]
          /\ UNCHANGED <<completedBytes, totals>>
  /\ UNCHANGED <<totalBytes, arrived, streams>>

-----------------------------------------------------------------------------
(* The upload of a xorb: RemoteClient::upload_xorb and its streams.        *)

\* The first request, or a retry; the stream of an earlier one may still exist.
StartRequest(x) ==
  /\ Known(x)
  /\ xorbs[x].size # 0
  /\ ~xorbs[x].completed
  /\ Len(sent[x]) < MaxAttempts
  /\ sent' = [sent EXCEPT ![x] = Append(@, [at |-> 0, live |-> TRUE])]
  /\ UNCHANGED <<tracker, arrived, registered, highWater, reports>>

\* Mutant: every stream reports all it sends, whatever an earlier one reported.
ReportAnew(x, n) ==
  LET raw == (Min({n, BlockSize}) * RawSize[x]) \div WireSize[x]
  IN /\ highWater' = [highWater EXCEPT ![x] = @ + 1]
     /\ reports' = [reports EXCEPT ![x] = IF raw > 0 THEN @ \cup {[mark |-> highWater[x], raw |-> raw]}
                                          ELSE @]

\* StreamProgressReporter::report_progress and the session's callback: the part
\* of the raw size goes to a spawned task, unless it rounds to nothing.
Report(x, n) ==
  LET raw == ((n - highWater[x]) * RawSize[x]) \div WireSize[x]
  IN /\ highWater' = [highWater EXCEPT ![x] = Max({@, n})]
     /\ reports' = [reports EXCEPT ![x] = IF n > highWater[x] /\ raw > 0
                                          THEN @ \cup {[mark |-> n, raw |-> raw]} ELSE @]

\* poll_next: what was handed out before counts as sent.
PollStream(x, r) ==
  /\ sent[x][r].live
  /\ sent[x][r].at < WireSize[x]
  /\ Report(x, sent[x][r].at)
  /\ sent' = [sent EXCEPT ![x][r].at = Min({@ + BlockSize, WireSize[x]})]
  /\ UNCHANGED <<tracker, arrived, registered>>

\* drop: what was handed out last is reported too.  The last request is not cut
\* short: if it were, the upload would fail, and the session with it.
DropStream(x, r) ==
  /\ sent[x][r].live
  /\ r < MaxAttempts \/ sent[x][r].at = WireSize[x]
  /\ Report(x, sent[x][r].at)
  /\ sent' = [sent EXCEPT ![x][r].live = FALSE]
  /\ UNCHANGED <<tracker, arrived, registered>>

\* Every byte of the latest request was taken from its stream.
SentInFull(x) == sent[x] # <<>> /\ sent[x][Len(sent[x])].at = WireSize[x]

\* Share of file f in the progress that has xorb x at n bytes.
ShareOf(f, x, n) == (parts[f][x].n * n) \div xorbs[x].size

\* register_xorb_upload_progress by a spawned task; too late after completion.
Progress(x, r) ==
  /\ r \in reports[x]
  /\ reports' = [reports EXCEPT ![x] = @ \ {r}]
  /\ IF xorbs[x].completed
     THEN UNCHANGED tracker
     ELSE LET n == xorbs[x].done + r.raw
              gain == [f \in xorbs[x].files |-> Max({0, ShareOf(f, x, n) - parts[f][x].done})]
          IN /\ xorbs' = [xorbs EXCEPT ![x].done = n]
             /\ parts' = [f \in Files |-> IF f \in xorbs[x].files
                                          THEN [parts[f] EXCEPT ![x].done = @ + gain[f]]
                                          ELSE parts[f]]
             /\ completedBytes' = [f \in Files |-> completedBytes[f] +
                                     (IF f \in xorbs[x].files THEN gain[f] ELSE 0)]
             /\ totals' = [totals EXCEPT !.uploadDone = @ + r.raw,
                             !.bytesDone = @ + MapThenSumSet(LAMBDA f : gain[f], xorbs[x].files)]
             /\ UNCHANGED totalBytes
  /\ UNCHANGED <<arrived, registered, sent, highWater>>

\* Mutant: a part is added whole, although progress on it was counted.
UploadCompletedWhole(x) ==
  /\ Known(x)
  /\ ~xorbs[x].completed
  /\ xorbs[x].size = 0 \/ SentInFull(x)
  /\ LET whole == [f \in xorbs[x].files |-> parts[f][x].n]
     IN /\ xorbs' = [xorbs EXCEPT ![x].completed = TRUE, ![x].files = {}]
        /\ parts' = [f \in Files |-> [y \in DOMAIN parts[f] \ {x} |-> parts[f][y]]]
        /\ completedBytes' = [f \in Files |-> completedBytes[f] +
                                (IF f \in xorbs[x].files THEN whole[f] ELSE 0)]
        /\ totals' = [totals EXCEPT !.uploadDone = @ + xorbs[x].size - xorbs[x].done,
                        !.bytesDone = @ + MapThenSumSet(LAMBDA f : whole[f], xorbs[x].files)]
  /\ UNCHANGED <<totalBytes, arrived, registered, streams>>

\* register_xorb_upload_completion, after a request succeeded, or at once for
\* the empty xorb.
UploadCompleted(x) ==
  /\ Known(x)
  /\ ~xorbs[x].completed
  /\ xorbs[x].size = 0 \/ SentInFull(x)
  /\ LET left == [f \in xorbs[x].files |-> parts[f][x].n - parts[f][x].done]
     IN /\ xorbs' = [xorbs EXCEPT ![x].completed = TRUE, ![x].files = {}]
        /\ parts' = [f \in Files |-> [y \in DOMAIN parts[f] \ (IF f \in xorbs[x].files THEN {x} ELSE {})
                                        |-> parts[f][y]]]
        /\ completedBytes' = [f \in Files |-> completedBytes[f] +
                                (IF f \in xorbs[x].files THEN left[f] ELSE 0)]
        /\ totals' = [totals EXCEPT !.uploadDone = @ + xorbs[x].size - xorbs[x].done,
                        !.bytesDone = @ + MapThenSumSet(LAMBDA f : left[f], xorbs[x].files)]
  /\ UNCHANGED <<totalBytes, arrived, registered, streams>>

-----------------------------------------------------------------------------

Next ==
  \/ \E d \in Dependencies : AddData(d) \/ RegisterDependency(d)
  \/ \E x \in Xorbs :
       \/ RegisterNewXorb(x)
       \/ StartRequest(x)
       \/ \E r \in DOMAIN sent[x] : PollStream(x, r) \/ DropStream(x, r)
       \/ \E r \in reports[x] : Progress(x, r)
       \/ UploadCompleted(x)

\* The cleaners get on with their files, a request is sent and, once sent in full,
\* answered, and one whose stream is gone is retried.  No report need be delivered.
Fairness ==
  /\ \A d \in Dependencies : WF_vars(AddData(d)) /\ WF_vars(RegisterDependency(d))
  /\ \A x \in Xorbs :
       /\ WF_vars(RegisterNewXorb(x))
       /\ WF_vars(StartRequest(x) /\ (sent[x] # <<>> => ~sent[x][Len(sent[x])].live))
       /\ WF_vars(\E r \in DOMAIN sent[x] : PollStream(x, r))
       /\ WF_vars(UploadCompleted(x))

Spec == Init /\ [][Next]_vars /\ Fairness

-----------------------------------------------------------------------------
(* Properties.                                                             *)

\* The subtractions of register_xorb_upload_completion cannot underflow and no
\* progress bar passes its end: a xorb, a file's part of it and a file are never
\* further than their size, whatever is retried, late or rounded.
NoOverrun ==
  /\ \A x \in DOMAIN xorbs : xorbs[x].done <= xorbs[x].size
  /\ \A f \in Files : /\ completedBytes[f] <= totalBytes[f]
                      /\ \A x \in DOMAIN parts[f] : parts[f][x].done <= parts[f][x].n

\* The counters over all files and xorbs are the sums of the entries.
TotalsAreSums ==
  /\ totals.bytes = MapThenSumSet(LAMBDA f : totalBytes[f], Files)
  /\ totals.bytesDone = MapThenSumSet(LAMBDA f : completedBytes[f], Files)
  /\ totals.upload = MapThenSumSet(LAMBDA x : xorbs[x].size, DOMAIN xorbs)
  /\ totals.uploadDone = MapThenSumSet(LAMBDA x : IF xorbs[x].completed THEN xorbs[x].size
                                                  ELSE xorbs[x].done, DOMAIN xorbs)

\* The two tables agree: a xorb lists exactly the files that wait for it (the
\* debug assertions on contains_key), and none once it is completed.
TablesAgree ==
  \A x \in Xorbs :
    LET waiting == {f \in Files : x \in DOMAIN parts[f]}
    IN IF Known(x) THEN waiting = xorbs[x].files /\ (xorbs[x].completed => waiting = {})
       ELSE waiting = {}

\* assert_complete: once every dependency is registered and every xorb is
\* uploaded, each file is complete and waits for nothing, in whatever order
\* dependencies, progress and completion came.
CompleteAtEnd ==
  registered = Dependencies /\ (\A x \in DOMAIN xorbs : xorbs[x].completed) =>
    \A f \in Files : completedBytes[f] = totalBytes[f] /\ parts[f] = <<>>

\* The session's progress ends complete.
EventuallyComplete == <>[](\A f \in Files : completedBytes[f] = totalBytes[f] /\ parts[f] = <<>>)
=============================================================================
