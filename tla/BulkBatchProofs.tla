--------------------------- MODULE BulkBatchProofs ---------------------------
(***************************************************************************)
(* Proofs about BulkBatch, for any number of messages, any save period and *)
(* any number of cancel calls.                                             *)
(***************************************************************************)
EXTENDS BulkBatch, TLAPS

(***************************************************************************)
(* The inductive invariant.  Position ties the loop index to the log and   *)
(* keeps the index in range; Untouched says what the row can be before     *)
(* processBatch has read it; Obeyed relates the flag to the cancels; Quiet *)
(* says that only processBatch writes until the first cancel.              *)
(***************************************************************************)
Looping == {"sending", "saving", "sleeping"}
Before == {"absent", "find"}
Fresh == {Created, Cancelled(Created)}

Position ==
    /\ Len(log) \in 0..N
    /\ \A j \in 1..Len(log) : log[j] = j - 1
    /\ pc \in Before => log = <<>> /\ ~loaded
    /\ pc = "starting" => log = <<>> /\ mem.index = 0 /\ mem.status = "PROCESSING"
    /\ pc \in Looping => i < N /\ Len(log) = i + 1 /\ mem.status = "PROCESSING"
    /\ pc = "sending" => mem.results <= i

Untouched ==
    pc \in Before =>
        /\ row \in Fresh
        /\ mem = Created
        /\ \A c \in Cancels : copy[c] \in Fresh /\ cseen[c] \in Fresh

Obeyed ==
    /\ signalled => flag # "on" /\ pc \notin Before
    /\ pc = "absent" => \A c \in Cancels : cpc[c] = "idle"

Matched(b) == b.results = b.sent + b.failed

Quiet ==
    (\A c \in Cancels : cpc[c] = "idle") => Matched(row) /\ (loaded => seen = row)

Tried(b) == b.status = "COMPLETED" /\ ~stopOnError => Len(log) = N

Claims(b) == b.sent + b.failed <= Len(log) /\ b.results <= Len(log)

\* What holds of a copy at every await.
Sound(b) == Tried(b) /\ Claims(b)

IInv ==
    /\ TypeOK
    /\ Position
    /\ Untouched
    /\ Obeyed
    /\ Quiet
    /\ Matched(mem) /\ ProgressAddsUp
    /\ Sound(row) /\ Sound(mem) /\ \A c \in Cancels : Sound(copy[c])

-----------------------------------------------------------------------------
\* The row as createBatch saves it.
LEMMA CreatedType ==
    /\ Created \in Batches /\ Matched(Created) /\ Created.index = 0
    /\ Created.sent = 0 /\ Created.failed = 0 /\ Created.pending = N
    /\ Created.cancelled = 0 /\ Created.status = "PENDING"
    /\ Created.results = 0 /\ Created.completed = FALSE
  BY BatchAssumption DEF Created, Batches, Statuses, Matched

\* What cancelBatch makes of its copy.
LEMMA CancelledType ==
    ASSUME NEW b \in Batches
    PROVE  /\ Cancelled(b) \in Batches /\ Cancelled(b).completed = TRUE
           /\ Cancelled(b).status = "CANCELLED"
           /\ Cancelled(b).sent = b.sent /\ Cancelled(b).failed = b.failed
           /\ Cancelled(b).pending = 0 /\ Cancelled(b).cancelled = b.pending
           /\ Cancelled(b).index = b.index /\ Cancelled(b).results = b.results
  <1> DEFINE b1 == [b EXCEPT !.status = "CANCELLED"]
             b2 == [b1 EXCEPT !.cancelled = b.pending]
             b3 == [b2 EXCEPT !.pending = 0]
             b4 == [b3 EXCEPT !.completed = TRUE]
  <1>1. Cancelled(b) \in Batches
    <2>1. b1 \in Batches /\ b.pending \in Int
      BY DEF Batches, Statuses
    <2> HIDE DEF b1
    <2>2. b2 \in Batches
      BY <2>1 DEF Batches
    <2> HIDE DEF b2
    <2>3. b3 \in Batches
      BY <2>2 DEF Batches
    <2> HIDE DEF b3
    <2>4. b4 \in Batches
      BY <2>3 DEF Batches
    <2> USE DEF b1, b2, b3
    <2> QED BY <2>4 DEF Cancelled
  <1>2. Cancelled(b).status = "CANCELLED" /\ Cancelled(b).completed = TRUE
    BY DEF Cancelled, Batches
  <1>3. Cancelled(b).pending = 0
    BY DEF Cancelled, Batches
  <1>4. Cancelled(b).cancelled = b.pending
    BY DEF Cancelled, Batches
  <1>5. Cancelled(b).sent = b.sent /\ Cancelled(b).failed = b.failed
    BY DEF Cancelled, Batches
  <1>6. Cancelled(b).index = b.index /\ Cancelled(b).results = b.results
    BY DEF Cancelled, Batches
  <1> QED BY <1>1, <1>2, <1>3, <1>4, <1>5, <1>6

\* The same of the row as created.
LEMMA FreshType ==
    ASSUME NEW b \in Fresh
    PROVE  /\ b \in Batches /\ Matched(b) /\ b.index = 0 /\ b.results = 0
           /\ b.sent = 0 /\ b.failed = 0 /\ b.status # "COMPLETED"
           /\ b.sent + b.failed + b.pending + b.cancelled = N
           /\ b.status # "CANCELLED" => b = Created
           /\ Cancelled(Created) \in Fresh
  <1>1. b = Created \/ b = Cancelled(Created)
    BY DEF Fresh
  <1>2. N \in Nat /\ Cancelled(Created) \in Fresh
    BY BatchAssumption DEF Fresh
  <1>3. CASE b = Created
    BY <1>2, <1>3, CreatedType DEF Matched
  <1>4. CASE b = Cancelled(Created)
    <2> DEFINE x == Cancelled(Created)
    <2>1. /\ x \in Batches /\ x.index = 0 /\ x.results = 0 /\ x.sent = 0
          /\ x.failed = 0 /\ x.pending = 0 /\ x.cancelled = N
          /\ x.status = "CANCELLED"
      BY CreatedType, CancelledType
    <2> HIDE DEF x
    <2>2. Matched(x) /\ x.sent + x.failed + x.pending + x.cancelled = N
      BY <1>2, <2>1 DEF Matched
    <2> USE DEF x
    <2> QED BY <1>2, <1>4, <2>1, <2>2
  <1> QED BY <1>1, <1>3, <1>4

-----------------------------------------------------------------------------
\* A save leaves a whole row, of which the status, the results and the counters
\* are those found or those of the copy.
LEMMA WrittenType ==
    ASSUME NEW now \in Batches, NEW read \in Batches, NEW b \in Batches
    PROVE  /\ Written(now, read, b) \in Batches
           /\ Written(now, read, b).status \in {now.status, b.status}
           /\ Written(now, read, b).results \in {now.results, b.results}
           /\ \E p \in {now, b} : /\ Written(now, read, b).sent = p.sent
                                  /\ Written(now, read, b).failed = p.failed
  BY DEF Written, Column, Batches

\* Hence it claims no more than they do.
LEMMA WrittenSound ==
    ASSUME NEW now \in Batches, NEW read \in Batches, NEW b \in Batches,
           Sound(now), Sound(b)
    PROVE  Sound(Written(now, read, b))
  BY WrittenType DEF Sound, Tried, Claims

\* A save that finds the row as it read it leaves the copy.
LEMMA WrittenAlone ==
    ASSUME NEW now \in Batches, NEW b \in Batches
    PROVE  Written(now, now, b) = b
  <1> DEFINE p == IF Progress(b) = Progress(now) THEN now ELSE b
  <1>1. /\ p.sent = b.sent /\ p.failed = b.failed /\ p.pending = b.pending
        /\ p.cancelled = b.cancelled
    BY DEF Progress
  <1>2. Written(now, now, b) =
            [status |-> b.status, sent |-> b.sent, failed |-> b.failed,
             pending |-> b.pending, cancelled |-> b.cancelled,
             index |-> b.index, results |-> b.results,
             completed |-> b.completed]
    BY <1>1 DEF Written, Column
  <1> QED BY <1>2 DEF Batches

\* Cancels that come before processBatch cannot produce anything but a created
\* or a cancelled row.
LEMMA WrittenFresh ==
    ASSUME NEW now \in Fresh, NEW read \in Fresh, NEW b \in Fresh
    PROVE  Written(now, read, b) \in Fresh
  <1>1. now \in Batches /\ b \in Batches /\ read \in Batches
    BY FreshType
  <1>2. CASE b = read
    <2>1. Written(now, read, b) =
              [status |-> now.status, sent |-> now.sent, failed |-> now.failed,
               pending |-> now.pending, cancelled |-> now.cancelled,
               index |-> now.index, results |-> now.results,
               completed |-> now.completed]
      BY <1>2 DEF Written, Column
    <2>2. Written(now, read, b) = now
      BY <1>1, <2>1 DEF Batches
    <2> QED BY <2>2
  <1>3. CASE b # read
    <2> DEFINE p == IF Progress(b) = Progress(read) THEN now ELSE b
    <2>1. \/ b = Created /\ read = Cancelled(Created)
          \/ b = Cancelled(Created) /\ read = Created
      BY <1>3 DEF Fresh
    <2>2. now = b \/ now = read
      BY <2>1 DEF Fresh
    <2>3. /\ Created.status # Cancelled(Created).status
          /\ Created.completed # Cancelled(Created).completed
          /\ Created.index = Cancelled(Created).index
          /\ Created.results = Cancelled(Created).results
      BY CreatedType, CancelledType
    <2>3a. /\ b.status # read.status /\ b.completed # read.completed
           /\ b.index = now.index /\ b.results = now.results
      BY <2>1, <2>2, <2>3
    <2>4. /\ p.sent = b.sent /\ p.failed = b.failed /\ p.pending = b.pending
          /\ p.cancelled = b.cancelled
      BY <2>2 DEF Progress
    <2>5. Written(now, read, b) =
              [status |-> b.status, sent |-> b.sent, failed |-> b.failed,
               pending |-> b.pending, cancelled |-> b.cancelled,
               index |-> b.index, results |-> b.results,
               completed |-> b.completed]
      BY <2>3a, <2>4 DEF Written, Column
    <2>6. Written(now, read, b) = b
      BY <1>1, <2>5 DEF Batches
    <2> QED BY <2>6
  <1> QED BY <1>2, <1>3

-----------------------------------------------------------------------------
\* The invariant holds initially.
LEMMA IInit == Init => IInv
  <1> SUFFICES ASSUME Init PROVE IInv
    OBVIOUS
  <1>1. /\ row = Created /\ mem = Created /\ seen = Created
        /\ copy = [c \in Cancels |-> Created]
        /\ cseen = [c \in Cancels |-> Created]
    BY DEF Init
  <1>2. log = <<>> /\ pc = "absent" /\ i = 0 /\ signalled = FALSE /\ loaded = FALSE
    BY DEF Init
  <1>3. TypeOK
    <2>1. /\ copy \in [Cancels -> Batches] /\ cseen \in [Cancels -> Batches]
          /\ row \in Batches /\ mem \in Batches /\ seen \in Batches
      BY <1>1, CreatedType
    <2>2. cpc \in [Cancels -> CancelPoints]
      BY DEF Init, CancelPoints
    <2>3. i \in 0..N
      BY <1>2, BatchAssumption
    <2>4. log \in Seq(Nat)
      BY <1>2
    <2> QED BY <1>2, <2>1, <2>2, <2>3, <2>4 DEF Init, TypeOK, Points
  <1>4. Position
    BY <1>2, BatchAssumption DEF Position, Looping
  <1>5. Untouched /\ Obeyed
    BY <1>1, <1>2 DEF Init, Untouched, Obeyed, Fresh
  <1>6. Matched(mem) /\ ProgressAddsUp /\ Quiet
    BY <1>1, <1>2, CreatedType, BatchAssumption DEF ProgressAddsUp, Quiet
  <1>7. Sound(Created)
    BY <1>2, CreatedType DEF Sound, Tried, Claims
  <1> QED BY <1>1, <1>3, <1>4, <1>5, <1>6, <1>7 DEF IInv

-----------------------------------------------------------------------------
\* A copy m that is ready for the head of the loop or the final update.
Ready(m) ==
    /\ m \in Batches /\ Matched(m) /\ m.results <= Len(log)
    /\ m.sent + m.failed + m.pending + m.cancelled = N

\* What a step of processBatch must leave its copy in.
Kept == mem \in Batches /\ Matched(mem) /\ Sound(mem) /\ ProgressAddsUp

\* The final update marks a batch COMPLETED only when the log bears it out.
LEMMA FinishStep ==
    ASSUME IInv, NEW m, Ready(m), Finish(m), log' = log,
           stopOnError' = stopOnError,
           m.status # "COMPLETED",
           flag = "on" /\ ~stopOnError => Len(log) = N
    PROVE  Kept' /\ pc' = "finishing"
  <1>1. mem' \in Batches
    BY DEF Finish, Ready, Batches, Statuses
  <1>2. /\ Matched(mem)' /\ ProgressAddsUp'
        /\ mem'.sent = m.sent /\ mem'.failed = m.failed /\ mem'.results = m.results
    BY DEF Finish, Ready, Matched, ProgressAddsUp, Batches
  <1>3. Tried(mem)'
    BY DEF Finish, Ready, Tried, Batches
  <1>4. Claims(mem)'
    BY <1>2 DEF Ready, Matched, Claims
  <1> QED BY <1>1, <1>2, <1>3, <1>4 DEF Finish, Kept, Sound

\* The head of the loop: either message k is begun, or the batch is finished.
LEMMA LoopStep ==
    ASSUME IInv, NEW m, Ready(m), NEW k, k = Len(log), Loop(m, k),
           stopOnError' = stopOnError, m.status = "PROCESSING"
    PROVE  /\ Kept' /\ pc' \in {"sending", "finishing"} /\ i' \in 0..N
           /\ log' \in Seq(Nat) /\ Position' /\ Len(log) <= Len(log')
           /\ \/ UNCHANGED log
              \/ flag = "on" /\ Len(log) < N /\ log' = Append(log, Len(log))
  <1>0. log \in Seq(Nat) /\ k \in 0..N /\ N \in Nat
    BY BatchAssumption DEF IInv, TypeOK, Position
  <1>1. CASE k < N /\ flag = "on"
    <2>1. mem' = m /\ pc' = "sending" /\ log' = Append(log, k) /\ i' = k
      BY <1>1, <1>0 DEF Loop
    <2>2. log' \in Seq(Nat) /\ Len(log') = k + 1
      BY <1>0, <2>1
    <2>3. \A j \in 1..Len(log') : log'[j] = j - 1
      BY <1>0, <2>1 DEF IInv, Position
    <2>4. m.results <= k /\ m.results \in Nat /\ m.sent + m.failed = m.results
      BY DEF Ready, Matched, Batches
    <2>5. Position'
      BY <1>0, <1>1, <2>1, <2>2, <2>3, <2>4 DEF Position, Before, Looping
    <2>6. Kept'
      BY <1>0, <2>1, <2>2, <2>4
      DEF Kept, Ready, Matched, ProgressAddsUp, Sound, Tried, Claims
    <2> QED BY <1>0, <1>1, <2>1, <2>2, <2>5, <2>6
  <1>2. CASE ~(k < N /\ flag = "on")
    <2>1. Finish(m) /\ log' = log /\ i' = k
      BY <1>0, <1>2 DEF Loop
    <2>2. Kept' /\ pc' = "finishing"
      BY <1>0, <1>2, <2>1, FinishStep
    <2>3. Position'
      BY <2>1, <2>2 DEF IInv, Position, Before, Looping
    <2> QED BY <1>0, <2>1, <2>2, <2>3
  <1> QED BY <1>1, <1>2

\* The same, from the message at i on: save, wait, or take the next message.
LEMMA ProceedStep ==
    ASSUME IInv, NEW m, Ready(m), Proceed(m) \/ Delay(m), pc \in Looping,
           stopOnError' = stopOnError, m.status = "PROCESSING"
    PROVE  /\ Kept' /\ pc' \in {"sending", "finishing", "saving", "sleeping"}
           /\ i' \in 0..N
           /\ log' \in Seq(Nat) /\ Position' /\ Len(log) <= Len(log')
           /\ \/ UNCHANGED log
              \/ flag = "on" /\ Len(log) < N /\ log' = Append(log, Len(log))
  <1>0. i \in 0..N /\ i < N /\ Len(log) = i + 1 /\ log \in Seq(Nat)
    BY DEF IInv, TypeOK, Position
  <1>1. CASE mem' = m /\ pc' \in {"saving", "sleeping"} /\ UNCHANGED <<i, log>>
    <2>1. Position'
      BY <1>0, <1>1 DEF IInv, Position, Before, Looping
    <2>2. Kept'
      BY <1>1 DEF Kept, Ready, Matched, ProgressAddsUp, Sound, Tried, Claims
    <2> QED BY <1>0, <1>1, <2>1, <2>2
  <1>2. CASE Loop(m, i + 1)
    BY <1>0, <1>2, LoopStep
  <1> QED BY <1>1, <1>2 DEF Proceed, Delay

-----------------------------------------------------------------------------
\* The copies a result is pushed to.
LEMMA CountedReady ==
    ASSUME IInv, pc = "sending"
    PROVE  /\ Ready([Counted(mem) EXCEPT !.sent = @ + 1])
           /\ Ready([Counted(mem) EXCEPT !.failed = @ + 1])
           /\ Ready(Stopped(mem))
           /\ [Counted(mem) EXCEPT !.sent = @ + 1].status = "PROCESSING"
           /\ [Counted(mem) EXCEPT !.failed = @ + 1].status = "PROCESSING"
           /\ Stopped(mem).status = "FAILED"
  <1>1. /\ mem \in Batches /\ i \in Nat /\ mem.status = "PROCESSING"
        /\ mem.results = mem.sent + mem.failed
        /\ mem.sent + mem.failed + mem.pending + mem.cancelled = N
        /\ mem.results <= i /\ Len(log) = i + 1
    BY BatchAssumption
    DEF IInv, TypeOK, Position, Matched, ProgressAddsUp, Looping
  <1>2. /\ i + 1 \in Nat /\ mem.pending - 1 \in Int /\ mem.results + 1 \in Nat
        /\ mem.sent + 1 \in Nat /\ mem.failed + 1 \in Nat
        /\ mem.sent \in Nat /\ mem.failed \in Nat /\ mem.pending \in Int
        /\ mem.cancelled \in Int
    BY <1>1 DEF Batches
  <1> DEFINE m1 == [mem EXCEPT !.pending = mem.pending - 1]
             m2 == [m1 EXCEPT !.results = mem.results + 1]
             m3 == [m2 EXCEPT !.index = i + 1]
             m4 == [m2 EXCEPT !.status = "FAILED"]
  <1>3. /\ m1 \in Batches /\ m1.pending = mem.pending - 1
        /\ m1.status = mem.status /\ m1.sent = mem.sent /\ m1.failed = mem.failed
        /\ m1.cancelled = mem.cancelled /\ m1.results = mem.results
    BY <1>1, <1>2 DEF Batches
  <1> HIDE DEF m1
  <1>4. /\ m2 \in Batches /\ m2.pending = mem.pending - 1
        /\ m2.status = mem.status /\ m2.sent = mem.sent /\ m2.failed = mem.failed
        /\ m2.cancelled = mem.cancelled /\ m2.results = mem.results + 1
    BY <1>2, <1>3 DEF Batches
  <1> HIDE DEF m2
  <1>5. /\ m3 \in Batches /\ m3.pending = mem.pending - 1
        /\ m3.status = mem.status /\ m3.sent = mem.sent /\ m3.failed = mem.failed
        /\ m3.cancelled = mem.cancelled /\ m3.results = mem.results + 1
    BY <1>2, <1>4 DEF Batches
  <1>6. /\ m4 \in Batches /\ m4.pending = mem.pending - 1
        /\ m4.status = "FAILED" /\ m4.sent = mem.sent /\ m4.failed = mem.failed
        /\ m4.cancelled = mem.cancelled /\ m4.results = mem.results + 1
    BY <1>2, <1>4 DEF Batches, Statuses
  <1>7. Counted(mem) = m3
    BY <1>1 DEF Counted, m1, m2, Batches
  <1>8. Stopped(mem) = [m4 EXCEPT !.failed = mem.failed + 1]
    BY <1>1 DEF Stopped, m1, m2, Batches
  <1> HIDE DEF m3, m4
  <1> DEFINE s == [m3 EXCEPT !.sent = m3.sent + 1]
             f == [m3 EXCEPT !.failed = m3.failed + 1]
             g == [m4 EXCEPT !.failed = mem.failed + 1]
  <1>9. /\ s \in Batches /\ s.status = "PROCESSING" /\ s.sent = mem.sent + 1
        /\ s.failed = mem.failed /\ s.pending = mem.pending - 1
        /\ s.cancelled = mem.cancelled /\ s.results = mem.results + 1
    BY <1>1, <1>2, <1>5 DEF Batches
  <1>10. /\ f \in Batches /\ f.status = "PROCESSING" /\ f.sent = mem.sent
         /\ f.failed = mem.failed + 1 /\ f.pending = mem.pending - 1
         /\ f.cancelled = mem.cancelled /\ f.results = mem.results + 1
    BY <1>1, <1>2, <1>5 DEF Batches
  <1>11. /\ g \in Batches /\ g.status = "FAILED" /\ g.sent = mem.sent
         /\ g.failed = mem.failed + 1 /\ g.pending = mem.pending - 1
         /\ g.cancelled = mem.cancelled /\ g.results = mem.results + 1
    BY <1>1, <1>2, <1>6 DEF Batches
  <1> HIDE DEF s, f, g
  <1>12. mem.results \in Nat /\ N \in Nat
    BY <1>1, BatchAssumption DEF Batches
  <1>13. ASSUME NEW x, x \in Batches, x.pending = mem.pending - 1,
                x.cancelled = mem.cancelled, x.results = mem.results + 1,
                \/ x.sent = mem.sent + 1 /\ x.failed = mem.failed
                \/ x.sent = mem.sent /\ x.failed = mem.failed + 1
         PROVE  Ready(x)
    <2> DEFINE s0 == mem.sent       f0 == mem.failed    p0 == mem.pending
               c0 == mem.cancelled  r0 == mem.results   n == Len(log)
               s1 == x.sent         f1 == x.failed      p1 == x.pending
               c1 == x.cancelled    r1 == x.results
    <2>1. /\ s0 \in Nat /\ f0 \in Nat /\ p0 \in Int /\ c0 \in Int /\ r0 \in Nat
          /\ r0 = s0 + f0 /\ s0 + f0 + p0 + c0 = N /\ r0 <= i /\ n = i + 1
          /\ p1 = p0 - 1 /\ c1 = c0 /\ r1 = r0 + 1
          /\ (s1 = s0 + 1 /\ f1 = f0) \/ (s1 = s0 /\ f1 = f0 + 1)
      BY <1>1, <1>2, <1>12, <1>13
    <2> HIDE DEF s0, f0, p0, c0, r0, n, s1, f1, p1, c1, r1
    <2>2. r1 = s1 + f1 /\ s1 + f1 + p1 + c1 = N /\ r1 <= n
      BY <1>1, <1>12, <2>1
    <2> QED BY <1>13, <2>2 DEF Ready, Matched, s1, f1, p1, c1, r1, n
  <1>14. Ready(s) /\ Ready(f) /\ Ready(g)
    BY <1>9, <1>10, <1>11, <1>13
  <1> USE DEF s, f, g
  <1> QED BY <1>7, <1>8, <1>9, <1>10, <1>11, <1>14

\* What is left to show for a step of processBatch, with or without the write
\* of a save.
LEMMA RestStep ==
    ASSUME IInv, pc' \in Points \ Before, i' \in 0..N, log' \in Seq(Nat), Position',
           Kept', Len(log) <= Len(log'),
           UNCHANGED <<stopOnError, cancelling, signalled>>,
           flag' \in {flag, "none"},
           Save \/ (UNCHANGED row /\ (loaded' = FALSE \/ UNCHANGED loaded) /\ UNCHANGED seen)
    PROVE  IInv'
  <1> USE DEF cancelling
  <1>0. /\ row \in Batches /\ seen \in Batches /\ mem \in Batches
        /\ Sound(row) /\ Sound(mem)
    BY DEF IInv, TypeOK
  <1>1. /\ row' \in Batches /\ Sound(row') /\ loaded' \in BOOLEAN /\ seen' = seen
        /\ loaded' = TRUE => loaded = TRUE /\ row' = row
    <2>1. CASE Save
      BY <1>0, <2>1, WrittenType, WrittenSound DEF Save
    <2>2. CASE UNCHANGED <<row, seen>> /\ (loaded' = FALSE \/ UNCHANGED loaded)
      BY <1>0, <2>2 DEF IInv, TypeOK
    <2> QED BY <2>1, <2>2
  <1>2. TypeOK'
    BY <1>0, <1>1 DEF IInv, TypeOK, Kept
  <1>3. Len(log) = N => Len(log') = N
    BY BatchAssumption DEF IInv, Position
  <1>4. ASSUME NEW b \in Batches, Sound(b) PROVE Tried(b)' /\ Claims(b)'
    <2>1. Tried(b)'
      BY <1>3, <1>4 DEF Sound, Tried
    <2>2. /\ Len(log) \in Nat /\ Len(log') \in Nat
          /\ b.sent + b.failed \in Nat /\ b.results \in Nat
      <3>1. Len(log) \in Nat /\ Len(log') \in Nat
        BY DEF IInv, TypeOK
      <3>2. b.sent \in Nat /\ b.failed \in Nat /\ b.results \in Nat
        BY <1>4 DEF Batches
      <3> QED BY <3>1, <3>2
    <2>3. Claims(b)'
      BY <1>4, <2>2 DEF Sound, Claims
    <2> QED BY <2>1, <2>3
  <1>5. Untouched'
    BY DEF Untouched
  <1>6. Obeyed'
    BY DEF IInv, Obeyed, Before
  <1>7. Quiet'
    <2> SUFFICES ASSUME \A c \in Cancels : cpc[c] = "idle"
                 PROVE  Matched(row') /\ (loaded' => seen' = row')
      BY DEF Quiet, Matched
    <2>1. Matched(row) /\ (loaded => seen = row)
      BY DEF IInv, Quiet
    <2>2. CASE Save
      <3>1. row' = mem
        BY <1>0, <2>1, <2>2, WrittenAlone DEF Save
      <3> QED BY <2>2, <3>1 DEF Save, IInv
    <2>3. CASE UNCHANGED row
      BY <1>1, <2>1, <2>3
    <2> QED BY <2>2, <2>3
  <1>8. Tried(row)' /\ Claims(row)'
    BY <1>1, <1>3, <1>4 DEF Tried, Claims
  <1>9. \A c \in Cancels : Tried(copy[c])' /\ Claims(copy[c])'
    <2> TAKE c \in Cancels
    <2>1. copy[c] \in Batches /\ Sound(copy[c])
      BY DEF IInv, TypeOK
    <2> QED BY <1>4, <2>1 DEF Tried, Claims
  <1> QED BY <1>2, <1>5, <1>6, <1>7, <1>8, <1>9 DEF IInv, Kept, Sound

\* A step of processBatch that keeps its copy and begins no message.
LEMMA IdleStep ==
    ASSUME IInv, pc' \in Points \ (Before \cup Looping \cup {"starting"}),
           UNCHANGED <<stopOnError, mem, i, log, cancelling, signalled>>,
           flag' \in {flag, "none"},
           Save \/ (UNCHANGED row /\ loaded' = FALSE /\ UNCHANGED seen)
    PROVE  IInv'
  <1>1. Position'
    BY DEF IInv, Position, Before, Looping
  <1>2. Kept'
    BY DEF IInv, TypeOK, Kept, Matched, Sound, Tried, Claims, ProgressAddsUp
  <1>3. i' \in 0..N /\ log' \in Seq(Nat) /\ Len(log) <= Len(log')
    BY DEF IInv, TypeOK
  <1> QED BY <1>1, <1>2, <1>3, RestStep

\* A step of a cancel call, which keeps everything of processBatch.
LEMMA CancelRest ==
    ASSUME IInv, NEW c \in Cancels, cpc[c] # "idle" \/ pc # "absent",
           cpc' \in [Cancels -> CancelPoints], cpc'[c] # "idle",
           \A d \in Cancels \ {c} : cpc'[d] = cpc[d],
           copy' \in [Cancels -> Batches], cseen' \in [Cancels -> Batches],
           \A d \in Cancels : Sound(copy'[d]),
           row' \in Batches, Sound(row'), Untouched',
           flag' \in {flag, "off"},
           signalled' = signalled \/ (signalled' = TRUE /\ flag' = "off" /\ pc # "find"),
           UNCHANGED <<stopOnError, mem, loaded, seen, pc, i, log>>
    PROVE  IInv'
  <1>1. pc # "absent"
    BY DEF IInv, Obeyed
  <1>2. TypeOK'
    BY DEF IInv, TypeOK
  <1>3. Position' /\ Obeyed'
    BY <1>1 DEF IInv, Position, Obeyed, Before
  <1>4. Quiet'
    BY DEF Quiet
  <1>5. Matched(mem)' /\ ProgressAddsUp' /\ Sound(mem)'
    BY DEF IInv, Matched, ProgressAddsUp, Sound, Tried, Claims
  <1>6. Sound(row)' /\ \A d \in Cancels : Sound(copy[d])'
    BY DEF Sound, Tried, Claims
  <1> QED BY <1>2, <1>3, <1>4, <1>5, <1>6 DEF IInv

\* Every step keeps the invariant.
LEMMA IStep == IInv /\ [Next]_vars => IInv'
  <1> SUFFICES ASSUME IInv, [Next]_vars PROVE IInv'
    OBVIOUS
  <1> USE DEF save, cancelling
  <1>0. /\ TypeOK /\ Position /\ Untouched /\ Obeyed /\ Quiet /\ ProgressAddsUp
        /\ Matched(mem) /\ Sound(row) /\ Sound(mem) /\ N \in Nat
        /\ \A c \in Cancels : Sound(copy[c])
    BY BatchAssumption DEF IInv
  <1>1. CASE CreateBatch
    <2>1. TypeOK'
      BY <1>0, <1>1 DEF CreateBatch, TypeOK, Points
    <2>2. Position' /\ Untouched' /\ Obeyed' /\ Quiet'
      BY <1>0, <1>1
      DEF CreateBatch, Position, Untouched, Obeyed, Quiet, Matched, Before, Looping
    <2> QED BY <1>0, <1>1, <2>1, <2>2
            DEF CreateBatch, IInv, Matched, ProgressAddsUp, Sound, Tried, Claims
  <1>2. CASE FindBatch
    <2>1. row \in Fresh
      BY <1>0, <1>2 DEF FindBatch, Untouched, Before
    <2>2. /\ row \in Batches /\ row.index = 0 /\ row.results = 0
          /\ row.sent = 0 /\ row.failed = 0
          /\ row.sent + row.failed + row.pending + row.cancelled = N
      BY <2>1, FreshType
    <2>3. /\ mem' \in Batches /\ mem'.status = "PROCESSING" /\ mem'.index = 0
          /\ mem'.sent = 0 /\ mem'.failed = 0 /\ mem'.results = 0
          /\ ProgressAddsUp'
      BY <1>2, <2>2 DEF FindBatch, Batches, Statuses, ProgressAddsUp
    <2>4. TypeOK'
      BY <1>0, <1>2, <2>3 DEF FindBatch, TypeOK, Points
    <2>5. Position'
      BY <1>0, <1>2, <2>3 DEF FindBatch, Position, Before, Looping
    <2>6. Untouched' /\ Obeyed' /\ Quiet'
      BY <1>0, <1>2 DEF FindBatch, Untouched, Obeyed, Quiet, Matched, Before
    <2>7. Matched(mem)' /\ Sound(mem)'
      BY <1>0, <1>2, <2>3 DEF FindBatch, Position, Matched, Sound, Tried, Claims
    <2>8. Sound(row)' /\ \A c \in Cancels : Sound(copy[c])'
      BY <1>0, <1>2 DEF FindBatch, Sound, Tried, Claims
    <2> QED BY <2>3, <2>4, <2>5, <2>6, <2>7, <2>8 DEF IInv
  <1>3. CASE SaveReads
    <2>1. TypeOK'
      BY <1>0, <1>3 DEF SaveReads, TypeOK
    <2>2. Position' /\ Untouched' /\ Obeyed'
      BY <1>0, <1>3
      DEF SaveReads, Saves, Position, Untouched, Obeyed, Before, Looping
    <2>3. Quiet'
      BY <1>0, <1>3 DEF SaveReads, Quiet, Matched
    <2> QED BY <1>0, <1>3, <2>1, <2>2, <2>3
            DEF SaveReads, IInv, Matched, ProgressAddsUp, Sound, Tried, Claims
  <1>4. CASE Started
    <2>1. Ready(mem) /\ mem.status = "PROCESSING" /\ mem.index = Len(log)
      BY <1>0, <1>4
      DEF Started, Ready, TypeOK, Position, Matched, ProgressAddsUp, Sound, Claims
    <2>2. CASE Loop(mem, mem.index)
      <3>1. /\ Kept' /\ pc' \in {"sending", "finishing"} /\ i' \in 0..N
            /\ log' \in Seq(Nat) /\ Position' /\ Len(log) <= Len(log')
        BY <1>4, <2>1, <2>2, LoopStep DEF Started
      <3> QED BY <1>4, <3>1, RestStep DEF Started, Before, Points
    <2>3. CASE /\ mem' = [mem EXCEPT !.status = "FAILED", !.completed = TRUE]
               /\ pc' = "orphaned" /\ UNCHANGED <<i, log>>
      <3>1. /\ mem' \in Batches /\ mem'.status = "FAILED"
            /\ mem'.sent = mem.sent /\ mem'.failed = mem.failed
            /\ mem'.results = mem.results /\ Matched(mem)' /\ ProgressAddsUp'
        BY <1>0, <2>3 DEF TypeOK, Batches, Statuses, Matched, ProgressAddsUp
      <3>2. Kept'
        BY <1>0, <1>4, <2>3, <3>1 DEF Kept, Sound, Tried, Claims
      <3>3. Position'
        BY <1>0, <2>3 DEF Position, Before, Looping
      <3>4. i' \in 0..N /\ log' \in Seq(Nat) /\ Len(log) <= Len(log')
        BY <1>0, <2>3 DEF TypeOK
      <3> QED BY <1>4, <2>3, <3>2, <3>3, <3>4, RestStep DEF Started, Before, Points
    <2> QED BY <1>4, <2>2, <2>3 DEF Started
  <1>5. CASE OrphanSaved \/ Finished
    BY <1>5, IdleStep DEF OrphanSaved, Finished, Before, Looping, Points
  <1>6. ASSUME NEW m, Ready(m), m.status = "PROCESSING",
               Proceed(m) \/ Delay(m), pc \in Looping,
               Save \/ UNCHANGED <<row, loaded, seen>>,
               UNCHANGED <<stopOnError, flag, cancelling, signalled>>
        PROVE  IInv'
    <2>1. /\ Kept' /\ pc' \in {"sending", "finishing", "saving", "sleeping"}
          /\ i' \in 0..N
          /\ log' \in Seq(Nat) /\ Position' /\ Len(log) <= Len(log')
      BY <1>6, ProceedStep
    <2> QED BY <1>6, <2>1, RestStep DEF Before, Points
  <1>7. CASE MessageSent
    BY <1>6, <1>7, CountedReady DEF MessageSent, Looping
  <1>8. CASE MessageFailed
    <2>1. CASE ~stopOnError
      BY <1>6, <1>8, <2>1, CountedReady DEF MessageFailed, Looping
    <2>2. CASE stopOnError
      <3>1. Finish(Stopped(mem)) /\ UNCHANGED <<i, log>>
        BY <1>8, <2>2 DEF MessageFailed
      <3>2. Kept' /\ pc' = "finishing"
        BY <1>8, <2>2, <3>1, CountedReady, FinishStep DEF MessageFailed
      <3>3. Position'
        BY <1>0, <3>1, <3>2 DEF Position, Before, Looping
      <3>4. i' \in 0..N /\ log' \in Seq(Nat) /\ Len(log) <= Len(log')
        BY <1>0, <3>1 DEF TypeOK
      <3> QED BY <1>8, <3>2, <3>3, <3>4, RestStep DEF MessageFailed, Before, Points
    <2> QED BY <1>8, <2>1, <2>2 DEF MessageFailed
  <1>9. Ready(mem) /\ (pc \in Looping => mem.status = "PROCESSING"
                                      /\ Len(log) = i + 1)
    BY <1>0 DEF Ready, TypeOK, Position, Matched, ProgressAddsUp, Sound, Claims
  <1>10. CASE ProgressSaved
    BY <1>6, <1>9, <1>10 DEF ProgressSaved, Looping
  <1>11. CASE SleepEnds
    <2>1. Loop(mem, i + 1) /\ pc \in Looping /\ UNCHANGED stopOnError
      BY <1>11 DEF SleepEnds, Looping
    <2>2. /\ Kept' /\ pc' \in {"sending", "finishing"} /\ i' \in 0..N
          /\ log' \in Seq(Nat) /\ Position' /\ Len(log) <= Len(log')
      BY <1>9, <2>1, LoopStep
    <2> QED BY <1>11, <2>2, RestStep DEF SleepEnds, Before, Points
  <1>12. CASE ProcessingBreaks
    BY <1>12, IdleStep DEF ProcessingBreaks, Before, Looping, Points
  <1>13. ASSUME NEW c \in Cancels, CancelReads(c) PROVE IInv'
    <2>1. /\ copy' \in [Cancels -> Batches] /\ cpc' \in [Cancels -> CancelPoints]
          /\ cpc'[c] # "idle" /\ \A d \in Cancels \ {c} : cpc'[d] = cpc[d]
          /\ \A d \in Cancels : copy'[d] \in {copy[d], row}
      BY <1>0, <1>13 DEF CancelReads, TypeOK, CancelPoints
    <2>2. Untouched'
      BY <1>0, <1>13, <2>1 DEF CancelReads, Untouched
    <2>3. \A d \in Cancels : Sound(copy'[d])
      BY <1>0, <2>1
    <2> QED BY <1>0, <1>13, <2>1, <2>2, <2>3, CancelRest DEF CancelReads, TypeOK
  <1>14. ASSUME NEW c \in Cancels, CancelSignals(c) PROVE IInv'
    <2>1. copy[c] \in Batches /\ Sound(copy[c])
      BY <1>0, <1>14 DEF TypeOK
    <2>2. /\ Cancelled(copy[c]) \in Batches /\ Sound(Cancelled(copy[c]))
      BY <2>1, CancelledType DEF Sound, Tried, Claims
    <2>3. /\ copy' \in [Cancels -> Batches] /\ cpc' \in [Cancels -> CancelPoints]
          /\ cpc'[c] # "idle" /\ \A d \in Cancels \ {c} : cpc'[d] = cpc[d]
          /\ \A d \in Cancels : copy'[d] = IF d = c THEN Cancelled(copy[c])
                                                    ELSE copy[d]
      BY <1>0, <1>14, <2>2 DEF CancelSignals, TypeOK, CancelPoints
    <2>4. Untouched'
      <3>1. CASE pc \in Before
        <4>1. copy[c] \in Fresh /\ copy[c].status # "CANCELLED"
          BY <1>0, <1>14, <3>1 DEF CancelSignals, Untouched
        <4>2. Cancelled(copy[c]) \in Fresh
          BY <4>1, FreshType
        <4> QED BY <1>0, <1>14, <2>3, <4>2 DEF CancelSignals, Untouched
      <3>2. CASE pc \notin Before
        BY <1>14, <3>2 DEF CancelSignals, Untouched
      <3> QED BY <3>1, <3>2
    <2>5. \A d \in Cancels : Sound(copy'[d])
      BY <1>0, <2>2, <2>3
    <2>6. /\ signalled' = signalled
             \/ (signalled' = TRUE /\ flag' = "off" /\ pc # "find")
          /\ flag' = "off" /\ cpc[c] # "idle"
          /\ UNCHANGED <<stopOnError, row, mem, loaded, seen, pc, i, cseen, log>>
      BY <1>0, <1>14 DEF CancelSignals, TypeOK
    <2> QED BY <1>0, <2>3, <2>4, <2>5, <2>6, CancelRest DEF TypeOK
  <1>15. ASSUME NEW c \in Cancels, CancelSaveReads(c) PROVE IInv'
    <2>1. /\ cseen' \in [Cancels -> Batches] /\ cpc' \in [Cancels -> CancelPoints]
          /\ cpc'[c] # "idle" /\ \A d \in Cancels \ {c} : cpc'[d] = cpc[d]
          /\ \A d \in Cancels : cseen'[d] \in {cseen[d], row}
      BY <1>0, <1>15 DEF CancelSaveReads, TypeOK, CancelPoints
    <2>2. Untouched'
      BY <1>0, <1>15, <2>1 DEF CancelSaveReads, Untouched
    <2> QED BY <1>0, <1>15, <2>1, <2>2, CancelRest DEF CancelSaveReads, TypeOK
  <1>16. ASSUME NEW c \in Cancels, CancelSaved(c) PROVE IInv'
    <2>1. /\ row \in Batches /\ cseen[c] \in Batches /\ copy[c] \in Batches
          /\ Sound(row) /\ Sound(copy[c])
      BY <1>0, <1>16 DEF TypeOK
    <2>2. row' \in Batches /\ Sound(row')
      BY <1>16, <2>1, WrittenType, WrittenSound DEF CancelSaved
    <2>3. /\ cpc' \in [Cancels -> CancelPoints]
          /\ cpc'[c] # "idle" /\ \A d \in Cancels \ {c} : cpc'[d] = cpc[d]
      BY <1>0, <1>16 DEF CancelSaved, TypeOK, CancelPoints
    <2>4. Untouched'
      BY <1>0, <1>16, WrittenFresh DEF CancelSaved, Untouched
    <2> QED BY <1>0, <1>16, <2>2, <2>3, <2>4, CancelRest DEF CancelSaved, TypeOK
  <1>17. ASSUME NEW c \in Cancels, CancelBreaks(c) PROVE IInv'
    <2>1. /\ cpc' \in [Cancels -> CancelPoints]
          /\ cpc'[c] # "idle" /\ \A d \in Cancels \ {c} : cpc'[d] = cpc[d]
      BY <1>0, <1>17 DEF CancelBreaks, TypeOK, CancelPoints
    <2>2. Untouched'
      BY <1>0, <1>17 DEF CancelBreaks, Untouched
    <2> QED BY <1>0, <1>17, <2>1, <2>2, CancelRest DEF CancelBreaks, TypeOK
  <1>18. CASE Restart
    <2>1. /\ pc' \in {pc, "broken"} /\ flag' = "none" /\ pc # "absent"
          /\ loaded' = FALSE
          /\ UNCHANGED <<stopOnError, row, mem, seen, i, copy, cseen, log, signalled>>
      BY <1>18 DEF Restart
    <2>2. /\ cpc' \in [Cancels -> CancelPoints]
          /\ \A c \in Cancels : cpc'[c] = "idle" => cpc[c] = "idle"
      BY <1>0, <1>18 DEF Restart, TypeOK, CancelPoints
    <2>3. TypeOK'
      BY <1>0, <2>1, <2>2 DEF TypeOK, Points
    <2>4. Position' /\ Untouched' /\ Obeyed'
      BY <1>0, <2>1 DEF Position, Untouched, Obeyed, Before, Looping
    <2>5. Quiet'
      BY <1>0, <2>1, <2>2 DEF Quiet, Matched
    <2> QED BY <1>0, <2>1, <2>3, <2>4, <2>5
            DEF IInv, Matched, ProgressAddsUp, Sound, Tried, Claims
  <1>19. CASE UNCHANGED vars
    <2>1. TypeOK' /\ Position' /\ Untouched' /\ Obeyed' /\ Quiet'
      BY <1>0, <1>19
      DEF vars, TypeOK, Position, Untouched, Obeyed, Quiet, Matched
    <2> QED BY <1>0, <1>19, <2>1
            DEF vars, IInv, Matched, ProgressAddsUp, Sound, Tried, Claims
  <1> QED
    BY <1>1, <1>2, <1>3, <1>4, <1>5, <1>7, <1>8, <1>10, <1>11, <1>12, <1>13,
       <1>14, <1>15, <1>16, <1>17, <1>18, <1>19
    DEF Next, Processing, CancelStep

\* The invariant holds in every state, whatever the interleaving of the
\* processing, the cancels and restarts.
THEOREM Invariant == Spec => []IInv
  BY IInit, IStep, PTL DEF Spec

\* Type correctness: in particular the counters never go below zero, the loop
\* index stays within the batch and the row is always a whole batch.
THEOREM TypeCorrect == Spec => []TypeOK
  <1>1. IInv => TypeOK
    BY DEF IInv
  <1> QED BY <1>1, Invariant, PTL

\* Until a cancel has read the row, no client reads one whose results array and
\* counters disagree: failed saves and restarts included.
THEOREM ResultsMatchCountsHolds == Spec => []ResultsMatchCounts
  <1>1. IInv => ResultsMatchCounts
    BY DEF IInv, Quiet, Matched, ResultsMatchCounts
  <1> QED BY <1>1, Invariant, PTL

\* Whatever columns of processBatch and of the cancels end up side by side, the
\* row never claims more messages or results than were begun.
THEOREM ClaimsNoMoreHolds == Spec => []ClaimsNoMore
  <1>1. IInv => ClaimsNoMore
    BY DEF IInv, Sound, Claims, ClaimsNoMore
  <1> QED BY <1>1, Invariant, PTL

\* The counts of the copy that processBatch works on add up to the number of
\* messages, also when it took over a row a cancel had saved.
THEOREM ProgressAddsUpHolds == Spec => []ProgressAddsUp
  <1>1. IInv => ProgressAddsUp
    BY DEF IInv
  <1> QED BY <1>1, Invariant, PTL

\* Without stopOnError, a batch that reads COMPLETED had all its messages
\* tried: no cancel and no stale copy makes a part of it look complete.
THEOREM CompletedMeansTriedHolds == Spec => []CompletedMeansTried
  <1>1. IInv => CompletedMeansTried
    BY DEF IInv, Sound, Tried, CompletedMeansTried
  <1> QED BY <1>1, Invariant, PTL

-----------------------------------------------------------------------------
\* What a step does to the log: nothing, or it begins the next message with
\* the flag up.
LEMMA LogStep ==
    ASSUME IInv, Next
    PROVE  \/ UNCHANGED log
           \/ /\ flag = "on" /\ Len(log) < N /\ log' = Append(log, Len(log))
              /\ UNCHANGED signalled
  <1>1. Ready(mem) /\ (pc \in Looping => mem.status = "PROCESSING"
                                      /\ Len(log) = i + 1)
    BY DEF IInv, Ready, TypeOK, Position, Matched, ProgressAddsUp, Sound, Claims
  <1>2. CASE Started
    <2>1. mem.status = "PROCESSING" /\ mem.index = Len(log)
      BY <1>2 DEF Started, IInv, Position
    <2>2. CASE Loop(mem, mem.index)
      BY <1>1, <1>2, <2>1, <2>2, LoopStep DEF Started
    <2> QED BY <1>2, <2>2 DEF Started
  <1>3. CASE MessageSent
    BY <1>3, CountedReady, ProceedStep DEF MessageSent, Looping
  <1>4. CASE MessageFailed
    BY <1>4, CountedReady, ProceedStep DEF MessageFailed, Looping
  <1>5. CASE ProgressSaved
    BY <1>1, <1>5, ProceedStep DEF ProgressSaved, Looping
  <1>6. CASE SleepEnds
    <2>1. Loop(mem, i + 1) /\ UNCHANGED <<stopOnError, signalled>> /\ pc \in Looping
      BY <1>6 DEF SleepEnds, Looping
    <2> QED BY <1>1, <2>1, LoopStep
  <1>7. CASE \/ CreateBatch \/ FindBatch \/ SaveReads \/ OrphanSaved \/ Finished
            \/ ProcessingBreaks \/ Restart
    BY <1>7 DEF CreateBatch, FindBatch, SaveReads, OrphanSaved, Finished,
                ProcessingBreaks, Restart
  <1>8. CASE \E c \in Cancels : CancelStep(c)
    BY <1>8 DEF CancelStep, CancelReads, CancelSignals, CancelSaveReads,
                CancelSaved, CancelBreaks
  <1> QED BY <1>2, <1>3, <1>4, <1>5, <1>6, <1>7, <1>8 DEF Next, Processing

\* The only steps that record a cancellation are the signals of cancelBatch.
LEMMA SignalStep ==
    ASSUME IInv, Next
    PROVE  UNCHANGED signalled \/ signalled' = TRUE
  BY DEF IInv, TypeOK, Next, Processing, CreateBatch, FindBatch, SaveReads, Started,
         OrphanSaved, MessageSent, MessageFailed, ProgressSaved, SleepEnds,
         Finished, ProcessingBreaks, Restart, CancelStep, CancelReads,
         CancelSignals, CancelSaveReads, CancelSaved, CancelBreaks

\* The batch keeps its promise: messages go out in order, none twice, and none
\* is begun after a cancel was signalled to the running processBatch.
THEOREM PromisedHolds == Spec => Promised
  <1>1. Init => Promise!Init
    BY DEF Init, Promise!Init
  <1>2. IInv /\ [Next]_vars => [Promise!Next]_<<log, signalled>>
    <2> SUFFICES ASSUME IInv, [Next]_vars
                 PROVE  [Promise!Next]_<<log, signalled>>
      OBVIOUS
    <2>1. CASE Next /\ UNCHANGED log
      BY <2>1, SignalStep DEF Promise!Next, Promise!Halt
    <2>2. CASE Next /\ log' # log
      <3>1. /\ flag = "on" /\ Len(log) < N /\ log' = Append(log, Len(log))
            /\ UNCHANGED signalled
        BY <2>2, LogStep
      <3>2. ~signalled
        BY <3>1 DEF IInv, Obeyed
      <3> QED BY <3>1, <3>2 DEF Promise!Next, Promise!Begin
    <2>3. CASE UNCHANGED vars
      BY <2>3 DEF vars
    <2> QED BY <2>1, <2>2, <2>3
  <1> QED BY <1>1, <1>2, Invariant, PTL DEF Spec, Promised, Promise!Spec
=============================================================================
