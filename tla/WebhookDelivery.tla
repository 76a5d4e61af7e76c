--------------------------- MODULE WebhookDelivery ---------------------------
(***************************************************************************)
(* Received messages on their way to the webhooks of a session: dispatch   *)
(* and its direct delivery with retries (WebhookService), or, with the     *)
(* queue enabled, a BullMQ job per webhook and the worker that processes   *)
(* them one at a time (WebhookProcessor).  A dispatch serves the webhooks  *)
(* it found one after the other; the dispatches of several messages        *)
(* overlap.  An action is the code between two awaits.                     *)
(***************************************************************************)
EXTENDS Integers

CONSTANTS
    Messages,     \* messages received, each with an id of its own
    Webhooks,     \* webhooks of the session that match the event
    RetryCount,   \* webhook.retryCount
    MaxStalls,    \* BullMQ's maxStalledCount: 1
    None

ASSUME WebhookAssumption ==
    /\ RetryCount \in Nat /\ MaxStalls \in Nat
    /\ None \notin Messages \cup Webhooks

VARIABLES
    queued,    \* queueEnabled, fixed
    at,        \* the await the dispatch of each message is at
    found,     \* the webhooks it found
    left,      \* those it has not come to
    cur,       \* the one it is serving
    attempt,   \* deliverWebhook's attempt
    key,       \* the idempotency key, None before it is computed
    jobs,      \* the BullMQ job of each delivery
    posts,     \* history: posts begun for each delivery
    said       \* history: the outcomes reported to hooks for each delivery

vars == <<queued, at, found, left, cur, attempt, key, jobs, posts, said>>

dispatch == <<found, left, cur, attempt, key>>

Deliveries == Messages \X Webhooks

\* The delivery the dispatch of m is serving.
Serving(m) == <<m, cur[m]>>

\* A webhook with retryCount 0 is tried once as well.
Tries == IF RetryCount = 0 THEN 1 ELSE RetryCount

\* "reporting": a hook that reports an outcome is awaited.
Points == {"none", "finding", "before", "posting", "updating", "waiting",
           "adding", "reporting", "done", "lost"}

\* The points at which the worker holds the job.
Busy == {"posting", "updating", "reporting", "erring"}

Over == {"completed", "failed"}

\* "cancelled": by a plugin; "unqueued": 'webhook:error' of a rejected add.
Outcomes == {"cancelled", "queued", "unqueued", "delivered", "error"}

Unknown == "unknown"

TypeOK ==
    /\ queued \in BOOLEAN
    /\ at \in [Messages -> Points]
    /\ found \in [Messages -> SUBSET Webhooks]
    /\ left \in [Messages -> SUBSET Webhooks]
    /\ cur \in [Messages -> Webhooks \cup {None}]
    /\ attempt \in [Messages -> 1..Tries]
    /\ key \in [Messages -> Messages \cup {None, Unknown}]
    /\ jobs \in [Deliveries -> [at : {"none", "waiting"} \cup Busy \cup Over,
                                made : 0..Tries, stalls : 0..MaxStalls]]
    /\ posts \in [Deliveries -> Nat]
    /\ said \in [Deliveries -> SUBSET Outcomes]

NoJob == [at |-> "none", made |-> 0, stalls |-> 0]

Init ==
    /\ queued \in BOOLEAN
    /\ at = [m \in Messages |-> "none"]
    /\ found = [m \in Messages |-> {}]
    /\ left = [m \in Messages |-> {}]
    /\ cur = [m \in Messages |-> None]
    /\ attempt = [m \in Messages |-> 1]
    /\ key = [m \in Messages |-> None]
    /\ jobs = [d \in Deliveries |-> NoJob]
    /\ posts = [d \in Deliveries |-> 0]
    /\ said = [d \in Deliveries |-> {}]

-----------------------------------------------------------------------------
\* The idempotency key

\* No value, null and undefined, reads "unknown", which is never an empty
\* string: the alternative after || is not taken.
ToStr(value) == IF value = None THEN Unknown ELSE value

\* What onMessage hands over is the engine's message with its field id; no
\* field of it is called messageId.
Data(m) == [messageId |-> None, id |-> m]

GenerateIdempotencyKey(data) ==
    IF ToStr(data.messageId) # "" THEN ToStr(data.messageId) ELSE ToStr(data.id)

-----------------------------------------------------------------------------
\* dispatch

Goto(m, point) == at' = [at EXCEPT ![m] = point]

Say(d, outcome) == said' = [said EXCEPT ![d] = @ \cup {outcome}]

Post(d) == posts' = [posts EXCEPT ![d] = @ + 1]

\* The head of the loop, with the webhooks `rest` to serve, in the order of the
\* query; or the end of dispatch.
NextWebhook(m, rest) ==
    \/ /\ rest = {}
       /\ Goto(m, "done")
       /\ UNCHANGED <<left, cur>>
    \/ \E h \in rest :
        /\ cur' = [cur EXCEPT ![m] = h]
        /\ left' = [left EXCEPT ![m] = rest \ {h}]
        /\ Goto(m, "before")

\* onMessage's hooks have let the message pass; dispatch queries the webhooks.
Dispatch(m) ==
    /\ at[m] = "none"
    /\ Goto(m, "finding")
    /\ UNCHANGED <<queued, dispatch, jobs, posts, said>>

\* Whichever webhooks are active by now.
Found(m) ==
    /\ at[m] = "finding"
    /\ \E active \in SUBSET Webhooks :
        /\ found' = [found EXCEPT ![m] = active]
        /\ NextWebhook(m, active)
    /\ key' = [key EXCEPT ![m] = GenerateIdempotencyKey(Data(m))]
    /\ UNCHANGED <<queued, attempt, jobs, posts, said>>

\* A plugin stops the delivery in 'webhook:before'.  The mutant returns.
CancelledReturns(m) ==
    /\ at[m] = "before"
    /\ Say(Serving(m), "cancelled")
    /\ Goto(m, "done")
    /\ UNCHANGED <<queued, dispatch, jobs, posts>>

Cancelled(m) ==
    /\ at[m] = "before"
    /\ Say(Serving(m), "cancelled")
    /\ NextWebhook(m, left[m])
    /\ UNCHANGED <<queued, found, attempt, key, jobs, posts>>

Deliver(m) ==
    /\ at[m] = "before"
    /\ \/ /\ queued
          /\ Goto(m, "adding")
          /\ UNCHANGED <<attempt, posts>>
       \/ /\ ~queued
          /\ attempt' = [attempt EXCEPT ![m] = 1]
          /\ Post(Serving(m))
          /\ Goto(m, "posting")
    /\ UNCHANGED <<queued, found, left, cur, key, jobs, said>>

\* The hook has run: execute never rejects.
Reported(m) ==
    /\ at[m] = "reporting"
    /\ NextWebhook(m, left[m])
    /\ UNCHANGED <<queued, found, attempt, key, jobs, posts, said>>

-----------------------------------------------------------------------------
\* deliverWebhook

\* A 2xx answer; the row's lastTriggeredAt is updated next.
Answered(m) ==
    /\ at[m] = "posting"
    /\ Goto(m, "updating")
    /\ UNCHANGED <<queued, dispatch, jobs, posts, said>>

Updated(m) ==
    /\ at[m] = "updating"
    /\ Say(Serving(m), "delivered")
    /\ Goto(m, "reporting")
    /\ UNCHANGED <<queued, dispatch, jobs, posts>>

\* Another answer, none within the timeout, or the update of the row rejected.
\* The mutant retries after the last attempt.
FailsOneTooMany(m) ==
    /\ at[m] \in {"posting", "updating"}
    /\ \/ /\ attempt[m] <= RetryCount
          /\ Goto(m, "waiting")
          /\ UNCHANGED said
       \/ /\ attempt[m] > RetryCount
          /\ Say(Serving(m), "error")
          /\ Goto(m, "reporting")
    /\ UNCHANGED <<queued, dispatch, jobs, posts>>

Fails(m) ==
    /\ at[m] \in {"posting", "updating"}
    /\ \/ /\ attempt[m] < RetryCount
          /\ Goto(m, "waiting")
          /\ UNCHANGED said
       \/ /\ attempt[m] >= RetryCount
          /\ Say(Serving(m), "error")
          /\ Goto(m, "reporting")
    /\ UNCHANGED <<queued, dispatch, jobs, posts>>

\* The delay is over.  The mutant's promise never resolves.
WaitedUnresolved(m) == at[m] = "waiting" /\ UNCHANGED vars

Waited(m) ==
    /\ at[m] = "waiting"
    /\ attempt' = [attempt EXCEPT ![m] = @ + 1]
    /\ Post(Serving(m))
    /\ Goto(m, "posting")
    /\ UNCHANGED <<queued, found, left, cur, key, jobs, said>>

-----------------------------------------------------------------------------
\* webhookQueue.add

AddStores(m) ==
    /\ at[m] = "adding" /\ jobs[Serving(m)].at = "none"
    /\ jobs' = [jobs EXCEPT ![Serving(m)].at = "waiting"]
    /\ UNCHANGED <<queued, at, dispatch, posts, said>>

AddResolves(m) ==
    /\ at[m] = "adding" /\ jobs[Serving(m)].at # "none"
    /\ Say(Serving(m), "queued")
    /\ Goto(m, "reporting")
    /\ UNCHANGED <<queued, dispatch, jobs, posts>>

\* The job may have been stored all the same.
AddRejects(m) ==
    /\ at[m] = "adding"
    /\ Say(Serving(m), "unqueued")
    /\ Goto(m, "reporting")
    /\ UNCHANGED <<queued, dispatch, jobs, posts>>

-----------------------------------------------------------------------------
\* WebhookProcessor.process

JobTo(d, point) == jobs' = [jobs EXCEPT ![d].at = point]

\* The worker has a concurrency of one.
JobStarts(d) ==
    /\ jobs[d].at = "waiting"
    /\ \A e \in Deliveries : jobs[e].at \notin Busy
    /\ JobTo(d, "posting")
    /\ Post(d)
    /\ UNCHANGED <<queued, at, dispatch, said>>

JobAnswered(d) ==
    /\ jobs[d].at = "posting"
    /\ JobTo(d, "updating")
    /\ UNCHANGED <<queued, at, dispatch, posts, said>>

JobUpdated(d) ==
    /\ jobs[d].at = "updating"
    /\ JobTo(d, "reporting")
    /\ Say(d, "delivered")
    /\ UNCHANGED <<queued, at, dispatch, posts>>

\* The catch: the error hook on the last attempt, then BullMQ's retry.  The
\* mutants report one attempt early, and ask for one attempt too many.
JobFailsEarly(d) ==
    /\ jobs[d].at \in {"posting", "updating"}
    /\ \/ /\ jobs[d].made + 2 < RetryCount
          /\ jobs' = [jobs EXCEPT ![d].at = "waiting", ![d].made = @ + 1]
          /\ UNCHANGED said
       \/ /\ jobs[d].made + 2 >= RetryCount
          /\ JobTo(d, "erring")
          /\ Say(d, "error")
    /\ UNCHANGED <<queued, at, dispatch, posts>>

JobFailsOneTooMany(d) ==
    /\ jobs[d].at \in {"posting", "updating"}
    /\ \/ /\ jobs[d].made + 1 <= RetryCount
          /\ jobs' = [jobs EXCEPT ![d].at = "waiting", ![d].made = @ + 1]
          /\ UNCHANGED said
       \/ /\ jobs[d].made + 1 > RetryCount
          /\ JobTo(d, "erring")
          /\ Say(d, "error")
    /\ UNCHANGED <<queued, at, dispatch, posts>>

JobFails(d) ==
    /\ jobs[d].at \in {"posting", "updating"}
    /\ \/ /\ jobs[d].made + 1 < RetryCount
          /\ jobs' = [jobs EXCEPT ![d].at = "waiting", ![d].made = @ + 1]
          /\ UNCHANGED said
       \/ /\ jobs[d].made + 1 >= RetryCount
          /\ JobTo(d, "erring")
          /\ Say(d, "error")
    /\ UNCHANGED <<queued, at, dispatch, posts>>

\* The hooks have run.  In the mutant the hook after a delivery can reject, and
\* the catch takes it for a failed delivery.
JobReportRejected(d) ==
    /\ jobs[d].at = "reporting"
    /\ JobTo(d, "erring")
    /\ Say(d, "error")
    /\ UNCHANGED <<queued, at, dispatch, posts>>

JobCompletes(d) ==
    /\ jobs[d].at = "reporting"
    /\ JobTo(d, "completed")
    /\ UNCHANGED <<queued, at, dispatch, posts, said>>

JobExhausted(d) ==
    /\ jobs[d].at = "erring"
    /\ jobs' = [jobs EXCEPT ![d].at = "failed", ![d].made = @ + 1]
    /\ UNCHANGED <<queued, at, dispatch, posts, said>>

-----------------------------------------------------------------------------
\* The process ends and starts again.  Dispatches are gone.  The jobs are in
\* Redis; one that the worker held has stalled and is taken again, until it has
\* stalled too often.
Stalled(job) ==
    IF job.at \notin Busy THEN job
    ELSE IF job.stalls < MaxStalls
    THEN [job EXCEPT !.at = "waiting", !.stalls = @ + 1]
    ELSE [job EXCEPT !.at = "failed"]

Restart ==
    /\ at' = [m \in Messages |->
                  IF at[m] \in {"none", "done"} THEN at[m] ELSE "lost"]
    /\ jobs' = [d \in Deliveries |-> Stalled(jobs[d])]
    /\ UNCHANGED <<queued, dispatch, posts, said>>

DispatchStep(m) ==
    \/ Found(m) \/ Cancelled(m) \/ Deliver(m) \/ Reported(m)
    \/ Answered(m) \/ Updated(m) \/ Fails(m) \/ Waited(m)
    \/ AddStores(m) \/ AddResolves(m) \/ AddRejects(m)

JobStep(d) ==
    \/ JobStarts(d) \/ JobAnswered(d) \/ JobUpdated(d) \/ JobFails(d)
    \/ JobCompletes(d) \/ JobExhausted(d)

Next ==
    \/ \E m \in Messages : Dispatch(m) \/ DispatchStep(m)
    \/ \E d \in Deliveries : JobStep(d)
    \/ Restart

Spec == Init /\ [][Next]_vars

\* A post ends with its timeout, timers fire, hooks return, the database and
\* Redis answer; the worker runs.
FairSpec ==
    /\ Spec
    /\ \A m \in Messages : WF_vars(DispatchStep(m))
    /\ WF_vars(\E d \in Deliveries : JobStep(d))

-----------------------------------------------------------------------------
\* However it goes and whoever delivers, a receiver is not posted to more often
\* than retryCount says, but for the jobs that stalled.
BoundedPosts == \A d \in Deliveries : posts[d] <= Tries + jobs[d].stalls

\* hook.interfaces.ts:25, "all retries exhausted": a failed delivery is reported
\* only when every attempt was made, in both ways of delivery.
ErrorMeansExhausted ==
    \A d \in Deliveries : "error" \in said[d] => posts[d] >= Tries

\* A dispatch that came to its end has left no webhook out: of every one it found
\* something was reported, whatever went wrong with those before.
EveryoneServed ==
    \A m \in Messages : at[m] = "done" =>
        \A h \in found[m] : said[<<m, h>>] # {}

Verdict(d) == said[d] \cap {"delivered", "error"}

\* A verdict is final: nothing is posted and no other verdict given after it,
\* unless the process ended before BullMQ had heard of it.
VerdictIsFinal ==
    [][\A d \in Deliveries :
        Verdict(d) # {} /\ jobs[d].stalls = 0
        => posts'[d] = posts[d] /\ Verdict(d)' = Verdict(d)]_vars

\* Every dispatch ends, unless the process does, and every job that was stored
\* completes or fails.
Settles ==
    /\ \A m \in Messages : at[m] = "finding" ~> at[m] \in {"done", "lost"}
    /\ \A d \in Deliveries : jobs[d].at = "waiting" ~> jobs[d].at \in Over

(***************************************************************************)
(* What the repository says and the code does not keep.                    *)
(***************************************************************************)

\* docs/06-api-specification.md:1124: `idempotencyKey` is "Unique key per event
\* (same across retries)": two messages are posted under two keys.
KeysTellMessagesApart ==
    \A d, e \in Deliveries :
        d[1] # e[1] /\ posts[d] > 0 /\ posts[e] > 0 => key[d[1]] # key[e[1]]
=============================================================================
