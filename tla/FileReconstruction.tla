------------------------ MODULE FileReconstruction -------------------------
(***************************************************************************)
(* The reconstruction of one file: the loop that schedules its terms, the  *)
(* tasks that fetch their data, and who receives it. That is a thread that *)
(* writes to a file, with plain or with vectored writes, or the user of a  *)
(* stream, ordered or unordered. They share the run state, a queue and the *)
(* permits of the download buffer.                                         *)
(***************************************************************************)
EXTENDS TermManager

CONSTANTS
  Cases,       \* how a file is received, and which range of it
  Buffer       \* permits of the buffer semaphore, in bytes

ASSUME CasesAssumption ==
  /\ Cases \subseteq {"plain", "vectored", "stream", "unordered"} \X Requests
  /\ Buffer \in Nat \ {0}

VARIABLES
  mode,
  cancelled,     \* RunState: cancellation_token
  error,         \* RunState: has_error
  started,       \* the start_signal of a stream has been given
  run,           \* FileReconstructor::run: where, terms to schedule, result
  next_position, \* of the SequentialWriter
  task,          \* per start of a term: the task that gets its data
  channel,       \* the queue to the receiver
  receiver,      \* "open", "closed" or "dropped"
  free,          \* permits of the buffer
  out,           \* the receiver: where it is, and what it holds
  output,        \* positions that were written or returned by next
  answer         \* what next of a stream has returned last

cvars == <<mode, cancelled, error, started, run, next_position, task, channel, receiver,
           free, out, output, answer>>
vars == <<requested, known_final, prefetched, queue, mode, cancelled, error, started, run,
          next_position, task, channel, receiver, free, out, output, answer>>

Positions == 0..(FileLength - 1)
Streams == {"stream", "unordered"}
Wanted == requested.start..(Least(requested.end, FileLength) - 1)

\* The permits of a term; to_physical_acquire clamps them to the whole.
Need(term) == Least(term.end - term.start, Buffer)
NeedAll(items) ==
  FoldLeft(LAMBDA n, item : n + IF item.kind = "data" THEN Need(item) ELSE 0, 0, items)

Size(item) == item.end - item.start
SizeAll(items) == FoldLeft(LAMBDA n, item : n + Size(item), 0, items)
Item(term) == [kind |-> "data", start |-> term.start, end |-> term.end]
FinishItem == [kind |-> "finish", start |-> 0, end |-> 0]
Bytes(item) == item.start..(item.end - 1)

Init ==
  /\ ManagerInit
  /\ \E c \in Cases : mode = c[1] /\ c[2] = requested
  /\ cancelled = FALSE /\ error = FALSE
  /\ started = (mode \notin Streams)
  /\ run = [at |-> "parked", terms |-> <<>>, result |-> "none"]
  /\ next_position = requested.start
  /\ task = [p \in Positions |-> "none"]
  /\ channel = <<>> /\ receiver = "open"
  /\ free = Buffer
  /\ out = [at |-> IF mode \in Streams THEN "idle" ELSE "recv",
            held |-> <<>>, skip |-> 0, finish |-> FALSE]
  /\ output = {}
  /\ answer = "open"

-----------------------------------------------------------------------------
(***************************************************************************)
(* The run loop.                                                           *)
(***************************************************************************)
RunAt(at) == run' = [run EXCEPT !.at = at]

\* The next term of the block, or the next block.
Continue(terms) == run' = [run EXCEPT !.at = IF terms = <<>> THEN "blocks" ELSE "terms", !.terms = terms]

\* run_impl returns with an error or as cancelled: the writer is dropped, which
\* closes its end of the queue, aborts its tasks, and cancels the run unless
\* finish was called before ...
Leave(result, finishing) ==
  /\ run' = [at |-> "left", terms |-> <<>>, result |-> result]
  /\ cancelled' = (cancelled \/ ~finishing)

\* ... and only then run stores the error.
Settle ==
  /\ run.at = "left"
  /\ IF run.result = "failed"
     THEN error' = TRUE /\ cancelled' = TRUE
     ELSE UNCHANGED <<error, cancelled>>
  /\ run' = [run EXCEPT !.at = "done", !.result = IF error' THEN "failed" ELSE "cancelled"]
  /\ DropManager
  /\ UNCHANGED <<mode, started, next_position, task, channel, receiver, free, out, output, answer>>

\* check_run_state, and the branches that wait for the token.
Interrupted == IF error THEN "failed" ELSE "cancelled"

LeaveInterrupted ==
  /\ run.at \in {"blocks", "await", "terms"} \/ (run.at = "parked" /\ started)
  /\ cancelled
  /\ Leave(Interrupted, FALSE)
  /\ UNCHANGED mvars
  /\ UNCHANGED <<mode, error, started, next_position, task, channel, receiver, free, out, output,
                 answer>>

Begin ==
  /\ run.at = "parked" /\ started /\ ~cancelled
  /\ RunAt("blocks")
  /\ UNCHANGED mvars
  /\ UNCHANGED <<mode, cancelled, error, started, next_position, task, channel, receiver,
                 free, out, output, answer>>

\* next_file_terms looks after the prefetch queue and then awaits the oldest block.
NextBlock ==
  /\ run.at = "blocks" /\ ~cancelled
  /\ check_prefetch_buffer
  /\ RunAt(IF queue' = <<>> THEN "finish" ELSE "await")
  /\ UNCHANGED <<mode, cancelled, error, started, next_position, task, channel, receiver,
                 free, out, output, answer>>

AwaitBlock ==
  /\ run.at = "await" /\ ~cancelled
  /\ TakeBlock
  /\ \/ queue[1].answer = "end" /\ RunAt("finish") /\ UNCHANGED cancelled
     \/ queue[1].answer = "error" /\ Leave("failed", FALSE)
     \/ /\ queue[1].answer = "terms"
        /\ Continue(Terms)
        /\ UNCHANGED cancelled
  /\ UNCHANGED <<mode, error, started, next_position, task, channel, receiver, free, out, output,
                 answer>>

\* The prefetch tasks, while somebody looks at what they find.
Prefetch(i) ==
  /\ run.at \in {"blocks", "await", "terms", "send"}
  /\ FetchBlock(i)
  /\ UNCHANGED cvars

Acquire ==
  /\ run.at = "terms" /\ ~cancelled
  /\ free >= Need(Head(run.terms))
  /\ free' = free - Need(Head(run.terms))
  /\ RunAt("send")
  /\ UNCHANGED mvars
  /\ UNCHANGED <<mode, cancelled, error, started, next_position, task, channel, receiver,
                 out, output, answer>>

\* set_next_term_data_source: refuses a term when the run has failed, when the
\* terms do not follow each other, and when nobody is left to receive them.
Refused(term) ==
  \/ error
  \/ mode # "unordered" /\ (term.start # next_position \/ receiver # "open")

ScheduleTerm ==
  LET term == Head(run.terms)
  IN  /\ run.at = "send" /\ ~Refused(term)
      /\ next_position' = term.end
      /\ task' = [task EXCEPT ![term.start] = "running"]
      /\ channel' = IF mode = "unordered" THEN channel ELSE Append(channel, Item(term))
      /\ Continue(Tail(run.terms))
      /\ UNCHANGED mvars
      /\ UNCHANGED <<mode, cancelled, error, started, receiver, free, out, output, answer>>

RefuseTerm ==
  /\ run.at = "send" /\ Refused(Head(run.terms))
  /\ free' = free + Need(Head(run.terms))
  /\ Leave("failed", FALSE)
  /\ UNCHANGED mvars
  /\ UNCHANGED <<mode, error, started, next_position, task, channel, receiver, out, output, answer>>

\* finish of the writer: the end of the data is queued, then the tasks are
\* awaited, then the thread if there is one.
Finish ==
  /\ run.at = "finish"
  /\ IF error \/ (mode # "unordered" /\ receiver # "open")
     THEN Leave("failed", ~error) /\ UNCHANGED channel
     ELSE /\ RunAt("join")
          /\ channel' = IF mode = "unordered" THEN channel ELSE Append(channel, FinishItem)
          /\ UNCHANGED cancelled
  /\ DropManager
  /\ UNCHANGED <<mode, error, started, next_position, task, receiver, free, out, output, answer>>

Done(p) == task[p] \notin {"running", "failing"}

Join ==
  /\ run.at = "join"
  /\ \/ (\E p \in Positions : task[p] = "failed") /\ Leave("failed", mode # "unordered")
     \/ /\ \A p \in Positions : Done(p) /\ task[p] # "failed"
        /\ run' = IF mode \in Streams THEN [run EXCEPT !.at = "done", !.result = "ok"]
                                      ELSE [run EXCEPT !.at = "thread"]
        /\ UNCHANGED cancelled
  /\ UNCHANGED mvars
  /\ UNCHANGED <<mode, error, started, next_position, task, channel, receiver, free, out, output,
                 answer>>

JoinThread ==
  /\ run.at = "thread" /\ out.at = "done"
  /\ IF error \/ Cardinality(output) # next_position - requested.start
     THEN Leave("failed", TRUE)
     ELSE run' = [run EXCEPT !.at = "done", !.result = "ok"] /\ UNCHANGED cancelled
  /\ UNCHANGED mvars
  /\ UNCHANGED <<mode, error, started, next_position, task, channel, receiver, free, out, output,
                 answer>>

-----------------------------------------------------------------------------
(***************************************************************************)
(* The tasks that get the data of a term.                                  *)
(***************************************************************************)
\* The writer that owns the tasks is gone, and with it its end of the queue.
WriterGone == run.at \in {"left", "done"}
Closed == WriterGone /\ (mode = "unordered" => \A p \in Positions : Done(p))

EndOf(p) == Min({q \in Positions : q > p /\ task[q] # "none"} \cup {next_position})
Term(p) == [start |-> p, end |-> EndOf(p)]
TaskIs(p, state) == task' = [task EXCEPT ![p] = state]

\* Whether the receiver of the data of a term is still there.
Expected(p) == \E item \in Range(channel \o out.held) : item.kind = "data" /\ item.start = p

\* The data has come, and goes to the receiver of the term, or, unordered, into
\* the queue.
SendData(p) ==
  /\ task[p] = "running"
  /\ IF mode # "unordered"
     THEN TaskIs(p, IF Expected(p) THEN "sent" ELSE "failing") /\ UNCHANGED <<channel, free>>
     ELSE /\ TaskIs(p, "sent")
          /\ IF receiver = "open" THEN channel' = Append(channel, Item(Term(p))) /\ UNCHANGED free
                                  ELSE free' = free + Need(Term(p)) /\ UNCHANGED channel
  /\ UNCHANGED mvars
  /\ UNCHANGED <<mode, cancelled, error, started, run, next_position, receiver, out, output,
                 answer>>

\* The data cannot be had, or has the wrong size. An ordered term drops its sender
\* before the error is stored, an unordered one queues the error afterwards.
FailData(p) ==
  /\ task[p] = "running"
  /\ TaskIs(p, "failing")
  /\ IF mode # "unordered"
     THEN UNCHANGED <<cancelled, error, free>>
     ELSE cancelled' = TRUE /\ error' = TRUE /\ free' = free + Need(Term(p))
  /\ UNCHANGED mvars
  /\ UNCHANGED <<mode, started, run, next_position, channel, receiver, out, output, answer>>

StoreError(p) ==
  /\ task[p] = "failing"
  /\ TaskIs(p, "failed")
  /\ cancelled' = TRUE /\ error' = TRUE
  /\ channel' = IF mode = "unordered" /\ receiver = "open"
                THEN Append(channel, [Item(Term(p)) EXCEPT !.kind = "error"]) ELSE channel
  /\ UNCHANGED mvars
  /\ UNCHANGED <<mode, started, run, next_position, receiver, free, out, output, answer>>

AbortTask(p) ==
  /\ task[p] = "running" /\ WriterGone
  /\ TaskIs(p, "gone")
  /\ free' = IF mode = "unordered" THEN free + Need(Term(p)) ELSE free
  /\ UNCHANGED mvars
  /\ UNCHANGED <<mode, cancelled, error, started, run, next_position, channel, receiver,
                 out, output, answer>>

-----------------------------------------------------------------------------
(***************************************************************************)
(* The user of a stream.                                                   *)
(***************************************************************************)
OutAt(at) == out' = [out EXCEPT !.at = at]

\* next and blocking_next start the reconstruction.
Call ==
  /\ mode \in Streams /\ out.at = "idle" /\ answer = "open"
  /\ OutAt("recv")
  /\ started' = TRUE
  /\ UNCHANGED mvars
  /\ UNCHANGED <<mode, cancelled, error, run, next_position, task, channel, receiver, free,
                 output, answer>>

Return(result) ==
  /\ out' = [out EXCEPT !.at = "idle", !.held = <<>>]
  /\ answer' = result

\* The end of the data was seen: an error is reported if one is stored by now.
EndOfStream == Return(IF error THEN "error" ELSE "none")

\* Mutant: the permit stays with the term until the stream is dropped.
DeliverAndHold(item) ==
  /\ output' = output \cup Bytes(item)
  /\ UNCHANGED free
  /\ Return("open")

Deliver(item) ==
  /\ output' = output \cup Bytes(item)
  /\ free' = free + Need(item)
  /\ Return("open")

\* The next item of the queue: the data of a term, which an ordered stream has to
\* wait for, an error, or the end.
Receive ==
  LET item == Head(channel)
  IN  /\ mode \in Streams /\ out.at = "recv" /\ channel # <<>>
      /\ channel' = Tail(channel)
      /\ \/ /\ item.kind = "data" /\ mode = "stream"
            /\ out' = [out EXCEPT !.at = "data", !.held = <<item>>]
            /\ UNCHANGED <<free, output, answer>>
         \/ item.kind = "data" /\ mode = "unordered" /\ Deliver(item)
         \/ item.kind = "error" /\ Return("error") /\ UNCHANGED <<free, output>>
         \/ item.kind = "finish" /\ EndOfStream /\ UNCHANGED <<free, output>>
      /\ UNCHANGED mvars
      /\ UNCHANGED <<mode, cancelled, error, started, run, next_position, task, receiver>>

\* Nothing is left in the queue, and nobody will add to it.
ReceiveNone ==
  /\ mode \in Streams /\ out.at = "recv" /\ channel = <<>> /\ Closed
  /\ EndOfStream
  /\ UNCHANGED mvars
  /\ UNCHANGED <<mode, cancelled, error, started, run, next_position, task, channel, receiver, free,
                 output>>

\* next also stops when it sees the token; blocking_next does not look at it.
SeeToken ==
  /\ mode \in Streams /\ out.at = "recv" /\ channel = <<>> /\ cancelled
  /\ EndOfStream
  /\ UNCHANGED mvars
  /\ UNCHANGED <<mode, cancelled, error, started, run, next_position, task, channel, receiver, free,
                 output>>

AwaitData ==
  LET item == out.held[1]
  IN  /\ mode = "stream" /\ out.at = "data" /\ task[item.start] # "running"
      /\ IF task[item.start] = "sent"
         THEN Deliver(item)
         ELSE Return("error") /\ free' = free + Need(item) /\ UNCHANGED output
      /\ UNCHANGED mvars
      /\ UNCHANGED <<mode, cancelled, error, started, run, next_position, task, channel, receiver>>

\* cancel of the stream, between two calls.
CancelStream ==
  /\ mode \in Streams /\ out.at = "idle" /\ answer = "open"
  /\ cancelled' = TRUE /\ started' = TRUE
  /\ receiver' = "closed"
  /\ answer' = "cancelled"
  /\ UNCHANGED mvars
  /\ UNCHANGED <<mode, error, run, next_position, task, channel, free, out, output>>

\* abort_callback of a stream, and the token that was given to the reconstructor.
Abort ==
  /\ ~cancelled
  /\ cancelled' = TRUE /\ started' = TRUE
  /\ UNCHANGED mvars
  /\ UNCHANGED <<mode, error, run, next_position, task, channel, receiver, free, out, output, answer>>

\* The queue goes with its receiver, and the permits of its items come back.
DropReceiver(held) ==
  /\ receiver' = "dropped" /\ channel' = <<>>
  /\ free' = free + NeedAll(channel \o held)

DropStream ==
  /\ mode \in Streams /\ out.at = "idle"
  /\ cancelled' = TRUE /\ started' = TRUE
  /\ DropReceiver(<<>>)
  /\ out' = [out EXCEPT !.at = "dropped"]
  /\ answer' = IF answer = "open" THEN "cancelled" ELSE answer
  /\ UNCHANGED mvars
  /\ UNCHANGED <<mode, error, run, next_position, task, output>>

-----------------------------------------------------------------------------
(***************************************************************************)
(* The thread that writes to a file.                                       *)
(***************************************************************************)
\* next_write, which waits for an item and for its data. A queue that is closed
\* without an end of the data ends the thread as well.
TakeItem ==
  LET item == Head(channel)
  IN  /\ mode \notin Streams /\ out.at = "recv"
      /\ IF channel = <<>>
         THEN Closed /\ OutAt("flush") /\ UNCHANGED channel
         ELSE /\ channel' = Tail(channel)
              /\ out' = IF item.kind = "finish" THEN [out EXCEPT !.at = "flush", !.finish = TRUE]
                        ELSE [out EXCEPT !.at = "data", !.held = <<item>>]
      /\ UNCHANGED mvars
      /\ UNCHANGED <<mode, cancelled, error, started, run, next_position, task, receiver, free,
                     output, answer>>

TakeData ==
  LET item == out.held[1]
  IN  /\ mode \notin Streams /\ out.at = "data" /\ task[item.start] # "running"
      /\ IF task[item.start] = "sent"
         THEN OutAt(IF mode = "vectored" THEN "more" ELSE "write") /\ UNCHANGED <<channel, receiver, free>>
         ELSE OutAt("failing") /\ DropReceiver(out.held)
      /\ UNCHANGED mvars
      /\ UNCHANGED <<mode, cancelled, error, started, run, next_position, task, output, answer>>

\* The vectored thread adds the items whose data is there already.
TakeMore ==
  LET item == Head(channel)
      ready == channel # <<>> /\ (item.kind = "finish" \/ task[item.start] # "running")
  IN  /\ out.at = "more"
      /\ \/ ~ready /\ OutAt("write") /\ UNCHANGED <<channel, receiver, free>>
         \/ /\ ready /\ item.kind = "finish"
            /\ channel' = Tail(channel)
            /\ out' = [out EXCEPT !.at = "write", !.finish = TRUE]
            /\ UNCHANGED <<receiver, free>>
         \/ /\ ready /\ item.kind = "data" /\ task[item.start] = "sent"
            /\ channel' = Tail(channel)
            /\ out' = [out EXCEPT !.held = Append(@, item)]
            /\ UNCHANGED <<receiver, free>>
         \/ /\ ready /\ item.kind = "data" /\ task[item.start] # "sent"
            /\ OutAt("failing") /\ DropReceiver(out.held)
      /\ UNCHANGED mvars
      /\ UNCHANGED <<mode, cancelled, error, started, run, next_position, task, output, answer>>

Pending == FlattenSeq([i \in 1..Len(out.held) |-> [j \in 1..Size(out.held[i]) |-> out.held[i].start + j - 1]])

\* A plain write takes all of its item, a vectored one any part of what it is
\* given. (An interrupted call changes nothing and is repeated.)
Write ==
  /\ out.at = "write"
  /\ \E end \in (IF mode = "plain" THEN {Len(Pending)} ELSE (out.skip + 1)..Len(Pending)) :
       LET written == {i \in 1..Len(out.held) : SizeAll(SubSeq(out.held, 1, i)) <= end}
           k == Cardinality(written)
           left == SubSeq(out.held, k + 1, Len(out.held))
       IN  /\ output' = output \cup {Pending[i] : i \in (out.skip + 1)..end}
           /\ free' = free + NeedAll(SubSeq(out.held, 1, k))
           /\ out' = [out EXCEPT !.held = left, !.skip = end - SizeAll(SubSeq(out.held, 1, k)),
                                 !.at = IF left # <<>> THEN "more"
                                        ELSE IF out.finish THEN "flush" ELSE "recv"]
  /\ UNCHANGED mvars
  /\ UNCHANGED <<mode, cancelled, error, started, run, next_position, task, channel, receiver,
                 answer>>

\* A write or the flush fails, or the process is being interrupted: the thread
\* drops the queue before it stores the error.
FailWrite ==
  /\ out.at \in {"write", "flush"}
  /\ OutAt("failing") /\ DropReceiver(out.held)
  /\ UNCHANGED mvars
  /\ UNCHANGED <<mode, cancelled, error, started, run, next_position, task, output, answer>>

StoreWriteError ==
  /\ out.at = "failing"
  /\ out' = [out EXCEPT !.at = "done", !.held = <<>>]
  /\ cancelled' = TRUE /\ error' = TRUE
  /\ UNCHANGED mvars
  /\ UNCHANGED <<mode, started, run, next_position, task, channel, receiver, free, output, answer>>

Flush ==
  /\ out.at = "flush"
  /\ OutAt("done")
  /\ DropReceiver(<<>>)
  /\ UNCHANGED mvars
  /\ UNCHANGED <<mode, cancelled, error, started, run, next_position, task, output, answer>>

-----------------------------------------------------------------------------
Running ==
  \/ Begin \/ LeaveInterrupted \/ NextBlock \/ AwaitBlock \/ Acquire \/ ScheduleTerm
  \/ RefuseTerm \/ Finish \/ Join \/ JoinThread \/ Settle
Fetching(p) == SendData(p) \/ FailData(p) \/ StoreError(p) \/ AbortTask(p)
Receiving == Receive \/ ReceiveNone \/ AwaitData
Writing == TakeItem \/ TakeData \/ TakeMore \/ Write \/ FailWrite \/ StoreWriteError \/ Flush

Next ==
  \/ Running
  \/ \E i \in DOMAIN queue : Prefetch(i)
  \/ \E p \in Positions : Fetching(p)
  \/ Receiving \/ SeeToken \/ Writing
  \/ Call \/ CancelStream \/ DropStream \/ Abort

\* The tasks and the thread run on, requests come back with data or an error, and
\* a call of next that can return does. Nothing is assumed of the user.
Fairness ==
  /\ WF_vars(Running) /\ WF_vars(Receiving) /\ WF_vars(Writing)
  /\ WF_vars(\E i \in DOMAIN queue : Prefetch(i))
  /\ \A p \in Positions : WF_vars(Fetching(p))

Spec == Init /\ [][Next]_vars /\ Fairness

-----------------------------------------------------------------------------
Whole == output = Wanted

End ==
  IF mode \in Streams
  THEN CASE answer = "open" -> "open"
         [] answer = "none" /\ Whole -> "complete"
         [] OTHER -> "stopped"
  ELSE CASE run.at # "done" -> "open"
         [] run.at = "done" /\ run.result = "ok" -> "complete"
         [] OTHER -> "stopped"

Delivery == INSTANCE RangeDelivery WITH
  wanted <- Wanted, ordered <- mode # "unordered", received <- output, end <- End,
  interrupted <- cancelled \/ out.at = "failing" \/ \E p \in Positions : task[p] = "failing"


\* A call of next or blocking_next returns, and a run comes to its end unless it
\* waits for the user of its stream: the loop waits for permits that terms hold
\* which the receiver gets first, and the receiver for data of the loop.
CallsReturn ==
  /\ out.at \in {"recv", "data"} /\ mode \in Streams ~> out.at \in {"idle", "dropped"}
  /\ mode \notin Streams ~> run.at = "done" /\ out.at = "done"

\* When nobody works on the file any more, all of the buffer is free, whichever
\* party held the permit of a term when the run was cancelled or failed.
PermitsReturned ==
  /\ run.at = "done" /\ out.at \in {"done", "dropped"} /\ \A p \in Positions : Done(p)
  => free = Buffer

\* A stream whose reconstruction has failed does not end as if it were complete:
\* the call that sees the end of the data returns the error.
FailureIsReported == [][answer' = "none" => run.result # "failed"]_answer
=============================================================================
