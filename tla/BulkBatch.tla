----------------------------- MODULE BulkBatch -----------------------------
(***************************************************************************)
(* One bulk message batch (BulkMessageService): its row in message_batches,*)
(* the copy processBatch works on, the copies of cancelBatch calls, and    *)
(* the flag processingBatches.get(id) the two communicate through.  An     *)
(* action is the code between two awaits; batchRepository.save is two      *)
(* steps: it reads the row and then writes the columns in which the copy   *)
(* differs from what it read.                                              *)
(*                                                                         *)
(* Batches share nothing (the flag and the row are keyed by the id), so    *)
(* one batch stands for each of them.                                      *)
(***************************************************************************)
EXTENDS Integers, Sequences

CONSTANTS
    N,            \* messages of the batch
    SavePeriod,   \* progress is saved every SavePeriod messages: 10
    Cancels       \* cancelBatch calls

ASSUME BatchAssumption == N \in Nat /\ SavePeriod \in Nat \ {0}

VARIABLES
    stopOnError,  \* options.stopOnError, fixed with the request
    row,          \* the row in the database
    mem,          \* processBatch's copy
    loaded,       \* the save processBatch awaits has read the row
    seen,         \* what it read
    flag,         \* processingBatches.get(id), "none" when there is no entry
    pc,           \* the await processBatch is at
    i,            \* its loop index
    cpc,          \* the await each cancel call is at
    copy,         \* the copy of each cancel call
    cseen,        \* what the save of each cancel call read
    log,          \* history: the messages whose send was begun
    signalled     \* history: a cancel was signalled to a running processBatch

vars == <<stopOnError, row, mem, loaded, seen, flag, pc, i, cpc, copy, cseen,
          log, signalled>>

\* The variables of the cancel calls, and those of the save of processBatch.
cancelling == <<cpc, copy, cseen>>
save == <<loaded, seen>>

Statuses == {"PENDING", "PROCESSING", "COMPLETED", "CANCELLED", "FAILED"}

\* results: how many entries the results array has; completed: completedAt set.
Batches == [status : Statuses, sent : Nat, failed : Nat, pending : Int,
            cancelled : Int, index : Nat, results : Nat, completed : BOOLEAN]

Created == [status |-> "PENDING", sent |-> 0, failed |-> 0, pending |-> N,
            cancelled |-> 0, index |-> 0, results |-> 0, completed |-> FALSE]

Points == {"absent", "find", "starting", "orphaned", "sending", "saving",
           "sleeping", "finishing", "done", "broken"}

CancelPoints == {"idle", "read", "saving", "writing", "done"}

\* The points at which processBatch awaits a save.
Saves == {"starting", "orphaned", "saving", "finishing"}

\* The process has code to run for the batch.
Alive == pc \notin {"absent", "done", "broken"}

TypeOK ==
    /\ stopOnError \in BOOLEAN
    /\ row \in Batches /\ mem \in Batches
    /\ loaded \in BOOLEAN /\ seen \in Batches
    /\ flag \in {"none", "on", "off"}
    /\ pc \in Points
    /\ i \in 0..N
    /\ cpc \in [Cancels -> CancelPoints]
    /\ copy \in [Cancels -> Batches]
    /\ cseen \in [Cancels -> Batches]
    /\ log \in Seq(Nat)
    /\ signalled \in BOOLEAN

Init ==
    /\ stopOnError \in BOOLEAN
    /\ row = Created /\ mem = Created
    /\ loaded = FALSE /\ seen = Created
    /\ flag = "none"
    /\ pc = "absent"
    /\ i = 0
    /\ cpc = [c \in Cancels |-> "idle"]
    /\ copy = [c \in Cancels |-> Created]
    /\ cseen = [c \in Cancels |-> Created]
    /\ log = <<>>
    /\ signalled = FALSE

-----------------------------------------------------------------------------
\* batchRepository.save

Column(now, read, own) == IF own = read THEN now ELSE own

\* progress is one JSON column.
Progress(b) == <<b.sent, b.failed, b.pending, b.cancelled>>

\* The row after a save of b that read the row as `read` and finds it now.
Written(now, read, b) ==
    LET p == IF Progress(b) = Progress(read) THEN now ELSE b
    IN  [status |-> Column(now.status, read.status, b.status),
         sent |-> p.sent, failed |-> p.failed, pending |-> p.pending,
         cancelled |-> p.cancelled,
         index |-> Column(now.index, read.index, b.index),
         results |-> Column(now.results, read.results, b.results),
         completed |-> Column(now.completed, read.completed, b.completed)]

-----------------------------------------------------------------------------
\* createBatch and processBatch

\* The engine is there, the row is saved, and processBatch starts reading it.
CreateBatch ==
    /\ pc = "absent"
    /\ pc' = "find"
    /\ UNCHANGED <<stopOnError, row, mem, save, flag, i, cancelling, log,
                   signalled>>

\* processBatch takes the row as it is by now, and the flag is set in any case.
FindBatch ==
    /\ pc = "find"
    /\ mem' = [row EXCEPT !.status = "PROCESSING"]
    /\ flag' = "on"
    /\ pc' = "starting"
    /\ UNCHANGED <<stopOnError, row, save, i, cancelling, log, signalled>>

\* The save that processBatch awaits reads the row, and its write is done.
SaveReads ==
    /\ pc \in Saves /\ ~loaded
    /\ loaded' = TRUE /\ seen' = row
    /\ UNCHANGED <<stopOnError, row, mem, flag, pc, i, cancelling, log, signalled>>

Save ==
    /\ loaded
    /\ row' = Written(row, seen, mem)
    /\ loaded' = FALSE /\ UNCHANGED seen

\* The final update, on the copy m; the save is then under way.  The mutant
\* does not look at the flag.
FinishUnasked(m) ==
    /\ mem' = [m EXCEPT !.status = IF m.failed > 0 /\ m.sent = 0
                                   THEN "FAILED" ELSE "COMPLETED",
                        !.completed = TRUE]
    /\ pc' = "finishing"

Finish(m) ==
    /\ mem' = [m EXCEPT !.status = IF flag # "on" THEN @
                                   ELSE IF m.failed > 0 /\ m.sent = 0
                                   THEN "FAILED" ELSE "COMPLETED",
                        !.completed = TRUE]
    /\ pc' = "finishing"

\* The head of the loop at index k: stop, or begin to send message k.  The
\* mutants check for cancellation before the first message only, and run past
\* the last message.
LoopUnchecked(m, k) ==
    /\ i' = k
    /\ \/ /\ k < N /\ (k = 0 => flag = "on")
          /\ mem' = m /\ pc' = "sending" /\ log' = Append(log, k)
       \/ /\ k >= N \/ (k = 0 /\ flag # "on")
          /\ Finish(m) /\ UNCHANGED log

LoopInclusive(m, k) ==
    /\ i' = k
    /\ \/ /\ k <= N /\ flag = "on"
          /\ mem' = m /\ pc' = "sending" /\ log' = Append(log, k)
       \/ /\ k > N \/ flag # "on"
          /\ Finish(m) /\ UNCHANGED log

Loop(m, k) ==
    /\ i' = k
    /\ \/ /\ k < N /\ flag = "on"
          /\ mem' = m /\ pc' = "sending" /\ log' = Append(log, k)
       \/ /\ k >= N \/ flag # "on"
          /\ Finish(m) /\ UNCHANGED log

\* The PROCESSING save is done: go on with the engine of the session, or fail.
Started ==
    /\ pc = "starting"
    /\ Save
    /\ \/ Loop(mem, mem.index)
       \/ /\ mem' = [mem EXCEPT !.status = "FAILED", !.completed = TRUE]
          /\ pc' = "orphaned"
          /\ UNCHANGED <<i, log>>
    /\ UNCHANGED <<stopOnError, flag, cancelling, signalled>>

\* The early return for a session without engine leaves the flag behind.  The
\* mutant returns without the save.
OrphanForgotten ==
    /\ pc = "orphaned"
    /\ pc' = "done"
    /\ UNCHANGED <<stopOnError, row, mem, save, flag, i, cancelling, log,
                   signalled>>

OrphanSaved ==
    /\ pc = "orphaned"
    /\ Save
    /\ pc' = "done"
    /\ UNCHANGED <<stopOnError, mem, flag, i, cancelling, log, signalled>>

\* The delay before the next message, left out after the last one and after a
\* cancellation.
Delay(m) ==
    \/ /\ i < N - 1 /\ flag = "on"
       /\ mem' = m /\ pc' = "sleeping"
       /\ UNCHANGED <<i, log>>
    \/ /\ ~(i < N - 1 /\ flag = "on")
       /\ Loop(m, i + 1)

\* A result is pushed: save the progress now and then, and go on.
Proceed(m) ==
    \/ /\ i % SavePeriod = 0 \/ i = N - 1
       /\ mem' = m /\ pc' = "saving"
       /\ UNCHANGED <<i, log>>
    \/ /\ ~(i % SavePeriod = 0 \/ i = N - 1)
       /\ Delay(m)

Counted(m) == [m EXCEPT !.pending = @ - 1, !.results = @ + 1, !.index = i + 1]

MessageSent ==
    /\ pc = "sending"
    /\ Proceed([Counted(mem) EXCEPT !.sent = @ + 1])
    /\ UNCHANGED <<stopOnError, row, save, flag, cancelling, signalled>>

\* The message that stops the batch: its result is pushed, currentIndex stays.
\* The mutants break before the push, and go on to the push after the catch.
StopUnrecorded(m) == [m EXCEPT !.status = "FAILED", !.pending = @ - 1,
                               !.failed = @ + 1]

StopPushedTwice(m) == [m EXCEPT !.status = "FAILED", !.pending = @ - 1,
                                !.failed = @ + 1, !.results = @ + 2]

Stopped(m) == [m EXCEPT !.status = "FAILED", !.pending = @ - 1,
                        !.failed = @ + 1, !.results = @ + 1]

MessageFailed ==
    /\ pc = "sending"
    /\ \/ ~stopOnError /\ Proceed([Counted(mem) EXCEPT !.failed = @ + 1])
       \/ stopOnError /\ Finish(Stopped(mem)) /\ UNCHANGED <<i, log>>
    /\ UNCHANGED <<stopOnError, row, save, flag, cancelling, signalled>>

ProgressSaved ==
    /\ pc = "saving"
    /\ Save
    /\ Delay(mem)
    /\ UNCHANGED <<stopOnError, flag, cancelling, signalled>>

SleepEnds ==
    /\ pc = "sleeping"
    /\ Loop(mem, i + 1)
    /\ UNCHANGED <<stopOnError, row, save, flag, cancelling, signalled>>

Finished ==
    /\ pc = "finishing"
    /\ Save
    /\ flag' = "none"
    /\ pc' = "done"
    /\ UNCHANGED <<stopOnError, mem, i, cancelling, log, signalled>>

\* A findOne or save of processBatch is rejected: createBatch's catch logs it.
ProcessingBreaks ==
    /\ pc \in {"find"} \cup Saves
    /\ pc' = "broken"
    /\ loaded' = FALSE
    /\ UNCHANGED <<stopOnError, row, mem, seen, flag, i, cancelling, log,
                   signalled>>

-----------------------------------------------------------------------------
\* cancelBatch

CancelReads(c) ==
    /\ cpc[c] = "idle" /\ pc # "absent"
    /\ copy' = [copy EXCEPT ![c] = row]
    /\ cpc' = [cpc EXCEPT ![c] = "read"]
    /\ UNCHANGED <<stopOnError, row, mem, save, flag, pc, i, cseen, log, signalled>>

\* What cancelBatch makes of its copy.  The mutant leaves pending alone.
CancelledPending(b) == [b EXCEPT !.status = "CANCELLED",
                                 !.cancelled = b.pending, !.completed = TRUE]

Cancelled(b) == [b EXCEPT !.status = "CANCELLED", !.cancelled = b.pending,
                          !.pending = 0, !.completed = TRUE]

\* Refused for a batch that was read as completed or cancelled.
CancelSignals(c) ==
    /\ cpc[c] = "read"
    /\ copy[c].status \notin {"COMPLETED", "CANCELLED"}
    /\ flag' = "off"
    /\ copy' = [copy EXCEPT ![c] = Cancelled(copy[c])]
    /\ cpc' = [cpc EXCEPT ![c] = "saving"]
    /\ signalled' = (signalled \/ pc # "find")
    /\ UNCHANGED <<stopOnError, row, mem, save, pc, i, cseen, log>>

CancelSaveReads(c) ==
    /\ cpc[c] = "saving"
    /\ cseen' = [cseen EXCEPT ![c] = row]
    /\ cpc' = [cpc EXCEPT ![c] = "writing"]
    /\ UNCHANGED <<stopOnError, row, mem, save, flag, pc, i, copy, log, signalled>>

CancelSaved(c) ==
    /\ cpc[c] = "writing"
    /\ row' = Written(row, cseen[c], copy[c])
    /\ cpc' = [cpc EXCEPT ![c] = "done"]
    /\ UNCHANGED <<stopOnError, mem, save, flag, pc, i, copy, cseen, log, signalled>>

\* The save is rejected and the call fails; the flag has been set.
CancelBreaks(c) ==
    /\ cpc[c] \in {"saving", "writing"}
    /\ cpc' = [cpc EXCEPT ![c] = "done"]
    /\ UNCHANGED <<stopOnError, row, mem, save, flag, pc, i, copy, cseen, log,
                   signalled>>

-----------------------------------------------------------------------------
\* The process restarts: the flags and every handler are gone, the row stays,
\* and nothing takes up an unfinished batch.
Restart ==
    /\ pc # "absent"
    /\ flag' = "none" /\ loaded' = FALSE
    /\ pc' = IF Alive THEN "broken" ELSE pc
    /\ cpc' = [c \in Cancels |-> IF cpc[c] = "idle" THEN "idle" ELSE "done"]
    /\ UNCHANGED <<stopOnError, row, mem, seen, i, copy, cseen, log, signalled>>

Processing ==
    \/ FindBatch \/ SaveReads \/ Started \/ OrphanSaved \/ MessageSent \/ MessageFailed
    \/ ProgressSaved \/ SleepEnds \/ Finished

CancelStep(c) ==
    \/ CancelReads(c) \/ CancelSignals(c) \/ CancelSaveReads(c)
    \/ CancelSaved(c) \/ CancelBreaks(c)

Next ==
    \/ CreateBatch
    \/ Processing
    \/ ProcessingBreaks
    \/ \E c \in Cancels : CancelStep(c)
    \/ Restart

Spec == Init /\ [][Next]_vars

\* Sends settle (the browser driver times out), timers fire and the database
\* answers; a user owes no call.
FairSpec == Spec /\ WF_vars(Processing)

-----------------------------------------------------------------------------
\* Until a cancel has read the row, every state of it a client can read has one
\* result per message counted as sent or failed, also after a failed save or a
\* restart.  (A cancel may mix its columns with those of processBatch.)
ResultsMatchCounts ==
    (\A c \in Cancels : cpc[c] = "idle") => row.results = row.sent + row.failed

\* However the columns of two saves are mixed, the row never claims more
\* messages or results than were begun.
ClaimsNoMore == row.sent + row.failed <= Len(log) /\ row.results <= Len(log)

\* The counts processBatch keeps account for every message, also when it took
\* the row over from a cancel that came first.
ProgressAddsUp == mem.sent + mem.failed + mem.pending + mem.cancelled = N

\* Without stopOnError, a row that says COMPLETED belongs to a batch whose
\* messages were all tried, although a cancel may have come at any moment.
CompletedMeansTried == row.status = "COMPLETED" /\ ~stopOnError => Len(log) = N

\* In order, none twice, none begun after a signalled cancel.
Promise == INSTANCE BatchPromise WITH halted <- signalled

Promised == Promise!Spec

\* A batch whose processing does not break comes to its end, and the row then
\* has its completedAt, whoever wrote it last.
Ends == pc = "find" ~> (pc = "done" /\ row.completed) \/ pc = "broken"

(***************************************************************************)
(* What the repository says and the code does not keep.                    *)
(***************************************************************************)

\* docs/06-api-specification.md:815 and docs/05-database-design.md:664: a
\* batch that was cancelled by its user has the status cancelled.
CancelledStays ==
    [][row.status = "CANCELLED" => row'.status = "CANCELLED"]_vars

\* docs/05-database-design.md:663: `completed` is "All messages processed".
CompletedMeansProcessed ==
    row.status = "COMPLETED" => row.sent + row.failed = N
=============================================================================
