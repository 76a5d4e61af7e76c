------------------------ MODULE WebhookDeliveryProofs ------------------------
(***************************************************************************)
(* Theorems about WebhookDelivery, for any number of messages, webhooks,   *)
(* attempts and stalls.                                                    *)
(***************************************************************************)
EXTENDS WebhookDelivery, TLAPS

-----------------------------------------------------------------------------
\* The inductive invariant

\* Nothing has happened to a delivery the dispatch has not come to.
Fresh(d) == posts[d] = 0 /\ said[d] = {} /\ jobs[d] = NoJob

Untried(m) ==
    /\ at[m] \in {"none", "finding"} =>
        left[m] = {} /\ \A h \in Webhooks : Fresh(<<m, h>>)
    /\ \A h \in left[m] : Fresh(<<m, h>>)
    /\ at[m] = "before" => Fresh(Serving(m))

\* The points at which a dispatch serves a webhook.
Working == {"before", "posting", "updating", "waiting", "adding", "reporting"}

\* The webhooks found are left, served now, or something was said of them.
Served(m) ==
    /\ at[m] \in Working =>
        /\ cur[m] \in Webhooks \ left[m]
        /\ \A h \in found[m] \ left[m] : h = cur[m] \/ said[<<m, h>>] # {}
    /\ at[m] = "reporting" => said[Serving(m)] # {}
    /\ at[m] = "done" => \A h \in found[m] : said[<<m, h>>] # {}

\* A direct delivery under way has had as many posts as attempts and no verdict.
Direct(m) ==
    /\ at[m] \in {"posting", "updating", "waiting"} =>
        /\ ~queued
        /\ posts[Serving(m)] = attempt[m]
        /\ said[Serving(m)] = {}
    /\ at[m] = "waiting" => attempt[m] < RetryCount
    /\ at[m] = "adding" => queued

\* What a job has behind it: attempts that failed, stalls, and the post it is
\* at or ended with.
Job(d) ==
    /\ ~queued => jobs[d] = NoJob /\ posts[d] <= Tries
    /\ queued =>
        /\ jobs[d].at = "none" => jobs[d] = NoJob /\ Verdict(d) = {}
        /\ jobs[d].at \in {"none", "waiting"} =>
            posts[d] <= jobs[d].made + jobs[d].stalls /\ jobs[d].made < Tries
        /\ jobs[d].at \in Busy =>
            /\ posts[d] <= jobs[d].made + jobs[d].stalls + 1
            /\ posts[d] > jobs[d].made
            /\ jobs[d].made < Tries
        /\ posts[d] <= Tries + jobs[d].stalls
        /\ posts[d] >= jobs[d].made
    /\ jobs[d].at \in {"waiting", "posting", "updating"} /\ jobs[d].stalls = 0
        => Verdict(d) = {}
    /\ "error" \in said[d] => posts[d] >= Tries

IInv ==
    /\ TypeOK
    /\ \A m \in Messages : Untried(m) /\ Served(m) /\ Direct(m)
    /\ \A d \in Deliveries : Job(d)

-----------------------------------------------------------------------------
\* A delivery is tried at least once.
LEMMA TriesPositive == Tries \in Nat /\ Tries >= 1 /\ Tries >= RetryCount
  BY WebhookAssumption DEF Tries

\* The state in which no message was received satisfies the invariant.
LEMMA IInit == Init => IInv
  <1> SUFFICES ASSUME Init PROVE IInv OBVIOUS
  <1>1. TypeOK
    BY TriesPositive, WebhookAssumption
    DEF Init, TypeOK, Points, NoJob, Busy, Over, Outcomes
  <1>2. \A m \in Messages : Untried(m) /\ Served(m) /\ Direct(m)
    BY DEF Init, Untried, Fresh, Served, Direct, Working, Deliveries
  <1>3. \A d \in Deliveries : Job(d)
    BY TriesPositive DEF Init, Job, NoJob, Busy, Verdict
  <1> QED BY <1>1, <1>2, <1>3 DEF IInv

-----------------------------------------------------------------------------
\* What a step leaves alone

Each(m) == Untried(m) /\ Served(m) /\ Direct(m)

\* A dispatch whose state, deliveries included, stays as it is.
Same(n) ==
    /\ at'[n] = at[n] /\ found'[n] = found[n] /\ left'[n] = left[n]
    /\ cur'[n] = cur[n] /\ attempt'[n] = attempt[n]
    /\ \A h \in Webhooks : /\ posts'[<<n, h>>] = posts[<<n, h>>]
                           /\ said'[<<n, h>>] = said[<<n, h>>]
                           /\ jobs'[<<n, h>>] = jobs[<<n, h>>]

\* Such a dispatch keeps what the invariant says of it.
LEMMA SameKept ==
    ASSUME IInv, NEW n \in Messages, Same(n), queued' = queued
    PROVE  Each(n)'
  <1>1. Each(n) BY DEF IInv, Each
  <1>2. left[n] \subseteq Webhooks /\ found[n] \subseteq Webhooks
    BY DEF IInv, TypeOK
  <1>3. at[n] \in Working => cur[n] \in Webhooks
    BY <1>1 DEF Each, Served
  <1>4. Untried(n)'
    <2>1. \A h \in Webhooks : Fresh(<<n, h>>) => Fresh(<<n, h>>)'
      BY DEF Same, Fresh
    <2> QED BY <1>1, <1>2, <1>3, <2>1 DEF Each, Untried, Same, Serving, Working
  <1>5. Served(n)'
    BY <1>1, <1>2, <1>3 DEF Each, Served, Same, Serving, Working
  <1>6. Direct(n)'
    BY <1>1, <1>3 DEF Each, Direct, Same, Serving, Working
  <1> QED BY <1>4, <1>5, <1>6 DEF Each

\* A step of the worker on a job touches neither a fresh delivery nor a direct
\* one, and takes back nothing that was said.
LEMMA JobKept ==
    ASSUME IInv, NEW d \in Deliveries, jobs[d].at # "none",
           UNCHANGED <<queued, at, dispatch>>,
           \A e \in Deliveries \ {d} : /\ posts'[e] = posts[e]
                                       /\ said'[e] = said[e]
                                       /\ jobs'[e] = jobs[e],
           said[d] \subseteq said'[d],
           NEW m \in Messages
    PROVE  Each(m)'
  <1>1. Each(m) /\ Job(d) BY DEF IInv, Each
  <1>2. queued /\ jobs[d] # NoJob BY <1>1 DEF Job, NoJob
  <1>3. \A h \in Webhooks : <<m, h>> \in Deliveries BY DEF Deliveries
  <1>4. left[m] \subseteq Webhooks /\ found[m] \subseteq Webhooks
    BY DEF IInv, TypeOK
  <1>5. at[m] \in Working => cur[m] \in Webhooks
    BY <1>1 DEF Each, Served
  <1>6. \A h \in Webhooks : Fresh(<<m, h>>) => Fresh(<<m, h>>)'
    BY <1>2, <1>3 DEF Fresh
  <1>7. \A h \in Webhooks : said[<<m, h>>] \subseteq said'[<<m, h>>]
    BY <1>3
  <1>8. Untried(m)'
    BY <1>1, <1>4, <1>5, <1>6 DEF Each, Untried, Serving, Working, dispatch
  <1>9. Served(m)'
    BY <1>1, <1>4, <1>5, <1>7 DEF Each, Served, Serving, Working, dispatch
  <1>10. Direct(m)'
    BY <1>1, <1>2 DEF Each, Direct, dispatch
  <1> QED BY <1>8, <1>9, <1>10 DEF Each

\* What is known of a delivery that a step does not touch stays so.
LEMMA JobSame ==
    ASSUME NEW e, Job(e), queued' = queued, posts'[e] = posts[e],
           said'[e] = said[e], jobs'[e] = jobs[e]
    PROVE  Job(e)'
  BY DEF Job, Verdict

\* A dispatch touches its own state and the delivery it is serving, no other.
LEMMA DispatchTouches ==
    ASSUME IInv, NEW m \in Messages, Dispatch(m) \/ DispatchStep(m)
    PROVE  /\ queued' = queued
           /\ \A n \in Messages \ {m} : Same(n)
           /\ \A e \in Deliveries \ {Serving(m)} :
                /\ posts'[e] = posts[e]
                /\ said'[e] = said[e]
                /\ jobs'[e] = jobs[e]
  <1> USE DEF NextWebhook, Goto, Say, Post, dispatch
  <1>1. TypeOK BY DEF IInv
  <1>2. queued' = queued
    BY DEF Dispatch, DispatchStep, Found, Cancelled, Deliver, Reported, Answered,
       Updated, Fails, Waited, AddStores, AddResolves, AddRejects
  <1>3. \A e \in Deliveries \ {Serving(m)} :
            posts'[e] = posts[e] /\ said'[e] = said[e] /\ jobs'[e] = jobs[e]
    BY <1>1 DEF TypeOK, Dispatch, DispatchStep, Found, Cancelled, Deliver, Reported,
       Answered, Updated, Fails, Waited, AddStores, AddResolves, AddRejects
  <1>4. \A n \in Messages \ {m} :
            /\ at'[n] = at[n] /\ found'[n] = found[n] /\ left'[n] = left[n]
            /\ cur'[n] = cur[n] /\ attempt'[n] = attempt[n]
    BY <1>1 DEF TypeOK, Dispatch, DispatchStep, Found, Cancelled, Deliver, Reported,
       Answered, Updated, Fails, Waited, AddStores, AddResolves, AddRejects
  <1>5. \A n \in Messages \ {m}, h \in Webhooks :
            <<n, h>> \in Deliveries \ {Serving(m)}
    BY DEF Deliveries, Serving
  <1> QED BY <1>2, <1>3, <1>4, <1>5 DEF Same

-----------------------------------------------------------------------------
\* The steps of dispatch

\* The next webhook, or the end, once something was said of the current one.
LEMMA NextKept ==
    ASSUME IInv, NEW m \in Messages, at[m] \in {"before", "reporting"},
           NextWebhook(m, left[m]),
           UNCHANGED <<queued, found, attempt, key, jobs, posts>>,
           said' \in [Deliveries -> SUBSET Outcomes],
           \A e \in Deliveries \ {Serving(m)} : said'[e] = said[e],
           said'[Serving(m)] # {}
    PROVE  TypeOK' /\ Each(m)'
  <1>1. TypeOK /\ Each(m) BY DEF IInv, Each
  <1>2. cur[m] \in Webhooks \ left[m] /\ left[m] \subseteq Webhooks
        /\ found[m] \subseteq Webhooks
    BY <1>1 DEF Each, Served, Working, TypeOK
  <1>3. Serving(m) \in Deliveries BY <1>2 DEF Serving, Deliveries
  <1>4. \A h \in Webhooks : <<m, h>> \in Deliveries BY DEF Deliveries
  <1>5. TypeOK'
    BY <1>1, <1>2 DEF TypeOK, NextWebhook, Goto, Points
  <1>6. \A h \in left[m] : Fresh(<<m, h>>)'
    BY <1>1, <1>2, <1>4 DEF Each, Untried, Fresh, Serving
  <1>7. \A h \in found[m] \ left[m] : said'[<<m, h>>] # {}
    BY <1>1, <1>2, <1>4 DEF Each, Served, Serving, Working
  <1>8. CASE left[m] = {} /\ Goto(m, "done") /\ UNCHANGED <<left, cur>>
    BY <1>1, <1>2, <1>5, <1>6, <1>7, <1>8
    DEF TypeOK, Goto, Each, Untried, Served, Direct, Working
  <1>9. CASE \E h \in left[m] :
                /\ cur' = [cur EXCEPT ![m] = h]
                /\ left' = [left EXCEPT ![m] = left[m] \ {h}]
                /\ Goto(m, "before")
    <2>1. PICK h \in left[m] :
                /\ cur' = [cur EXCEPT ![m] = h]
                /\ left' = [left EXCEPT ![m] = left[m] \ {h}]
                /\ Goto(m, "before")
      BY <1>9
    <2>2. /\ cur'[m] = h /\ left'[m] = left[m] \ {h} /\ at'[m] = "before"
          /\ found'[m] = found[m]
      BY <1>1, <2>1 DEF TypeOK, Goto
    <2>3. Untried(m)'
      BY <1>6, <2>2 DEF Untried, Serving
    <2>4. Served(m)'
      BY <1>2, <1>7, <2>2 DEF Served, Serving, Working
    <2>5. Direct(m)'
      BY <2>2 DEF Direct
    <2> QED BY <1>5, <2>3, <2>4, <2>5 DEF Each
  <1> QED BY <1>8, <1>9 DEF NextWebhook

\* Every step of a dispatch keeps the types, what is known of the dispatch, and
\* what is known of the delivery it serves.
LEMMA DispatchKept ==
    ASSUME IInv, NEW m \in Messages, Dispatch(m) \/ DispatchStep(m),
           NEW d, d = Serving(m)
    PROVE  /\ TypeOK' /\ Each(m)'
           /\ d \in Deliveries => Job(d)'
  <1>1. TypeOK /\ Each(m) /\ (d \in Deliveries => Job(d))
    BY DEF IInv, Each
  <1>2. \A h \in Webhooks : <<m, h>> \in Deliveries BY DEF Deliveries
  <1>3. at[m] \in Working =>
            /\ cur[m] \in Webhooks \ left[m] /\ left[m] \subseteq Webhooks
            /\ d \in Deliveries
    BY <1>1 DEF Each, Served, Serving, Deliveries, TypeOK
  <1>4. \A h \in Webhooks : <<m, h>> = d <=> h = cur[m]
    BY DEF Serving
  <1>5. CASE Dispatch(m)
    <2>1. TypeOK' BY <1>1, <1>5 DEF TypeOK, Dispatch, Goto, Points, dispatch
    <2>2. Each(m)'
      <3>1. at[m] = "none" /\ at'[m] = "finding"
        BY <1>1, <1>5 DEF TypeOK, Dispatch, Goto
      <3>2. UNCHANGED <<queued, found, left, cur, attempt, posts, said, jobs>>
        BY <1>5 DEF Dispatch, dispatch
      <3> QED BY <1>1, <3>1, <3>2 DEF Each, Untried, Served, Direct, Working, Fresh
    <2>3. d \in Deliveries => Job(d)'
      BY <1>1, <1>5 DEF Dispatch, Job, Verdict, dispatch
    <2> QED BY <2>1, <2>2, <2>3
  <1>6. CASE Found(m)
    <2>1. PICK active \in SUBSET Webhooks :
              /\ found' = [found EXCEPT ![m] = active]
              /\ NextWebhook(m, active)
      BY <1>6 DEF Found
    <2>2. /\ \A h \in Webhooks : Fresh(<<m, h>>) /\ Fresh(<<m, h>>)'
          /\ found'[m] = active
      BY <1>1, <1>6, <2>1 DEF Found, Each, Untried, Fresh, TypeOK
    <2>3. key'[m] \in Messages \cup {None, Unknown} /\ DOMAIN key' = Messages
          /\ key' \in [Messages -> Messages \cup {None, Unknown}]
      BY <1>1, <1>6 DEF Found, TypeOK, GenerateIdempotencyKey, Data, ToStr, Unknown
    <2>4. d \in Deliveries => Job(d)'
      BY <1>1, <1>6 DEF Found, Job, Verdict
    <2>5. CASE active = {} /\ Goto(m, "done") /\ UNCHANGED <<left, cur>>
      <3>1. TypeOK'
        BY <1>1, <1>6, <2>1, <2>3, <2>5 DEF TypeOK, Goto, Points, Found
      <3>2. left[m] = {} /\ at'[m] = "done" /\ left'[m] = {}
        BY <1>1, <1>6, <2>5 DEF Found, Goto, TypeOK, Each, Untried
      <3>3. Each(m)'
        BY <2>2, <2>5, <3>2 DEF Each, Untried, Served, Direct, Working
      <3> QED BY <2>4, <3>1, <3>3
    <2>6. CASE \E h \in active :
                  /\ cur' = [cur EXCEPT ![m] = h]
                  /\ left' = [left EXCEPT ![m] = active \ {h}]
                  /\ Goto(m, "before")
      <3>1. PICK h \in active :
                  /\ cur' = [cur EXCEPT ![m] = h]
                  /\ left' = [left EXCEPT ![m] = active \ {h}]
                  /\ Goto(m, "before")
        BY <2>6
      <3>2. TypeOK'
        BY <1>1, <1>6, <2>1, <2>3, <3>1 DEF TypeOK, Goto, Points, Found
      <3>3. cur'[m] = h /\ left'[m] = active \ {h} /\ at'[m] = "before"
        BY <1>1, <3>1 DEF TypeOK, Goto
      <3>4. Each(m)'
        BY <2>2, <3>3 DEF Each, Untried, Served, Direct, Working, Serving
      <3> QED BY <2>4, <3>2, <3>4
    <2> QED BY <2>1, <2>5, <2>6 DEF NextWebhook
  <1>7. CASE Cancelled(m)
    <2>1. d \in Deliveries /\ said'[d] # {}
      BY <1>1, <1>3, <1>7 DEF Cancelled, Say, Working, TypeOK
    <2>2. /\ said' \in [Deliveries -> SUBSET Outcomes]
          /\ \A e \in Deliveries \ {d} : said'[e] = said[e]
      BY <1>1, <1>7 DEF Cancelled, Say, TypeOK, Outcomes
    <2>3. TypeOK' /\ Each(m)'
      BY <1>7, <2>1, <2>2, NextKept DEF Cancelled
    <2>4. said'[d] = {"cancelled"} /\ posts'[d] = 0 /\ jobs'[d] = NoJob
      BY <1>1, <1>7, <2>1 DEF Cancelled, Each, Untried, Fresh, Say, TypeOK
    <2>5. Job(d)'
      BY <2>4, TriesPositive DEF Job, NoJob, Verdict, Busy
    <2> QED BY <2>3, <2>5
  <1>8. CASE Deliver(m)
    <2>1. d \in Deliveries
      BY <1>3, <1>8 DEF Deliver, Working
    <2>2. TypeOK'
      <3>1. attempt' \in [Messages -> 1..Tries]
        BY <1>1, <1>8, TriesPositive DEF Deliver, TypeOK
      <3>2. posts' \in [Deliveries -> Nat]
        BY <1>1, <1>8 DEF Deliver, TypeOK, Post
      <3> QED BY <1>1, <1>8, <3>1, <3>2 DEF Deliver, TypeOK, Goto, Points
    <2>3. /\ at[m] = "before"
          /\ UNCHANGED <<queued, found, left, cur>> /\ UNCHANGED <<jobs, said>>
          /\ \/ queued /\ at'[m] = "adding" /\ UNCHANGED posts
             \/ /\ ~queued /\ at'[m] = "posting"
                /\ attempt'[m] = 1 /\ posts'[d] = posts[d] + 1
          /\ \A h \in Webhooks : h # cur[m] => posts'[<<m, h>>] = posts[<<m, h>>]
      BY <1>1, <1>2, <1>4, <1>8, <2>1 DEF Deliver, TypeOK, Working, Serving, Goto, Post
    <2>4. Each(m)'
      <3>1. Serving(m)' = d /\ d = <<m, cur[m]>> BY <2>3 DEF Serving
      <3>2. Untried(m)'
        BY <1>1, <1>3, <2>3, <3>1 DEF Each, Untried, Working, Fresh
      <3>3. Served(m)'
        BY <1>1, <1>3, <2>3, <3>1 DEF Each, Served, Working, TypeOK
      <3>4. Direct(m)'
        BY <1>1, <1>3, <2>3, <3>1 DEF Each, Direct, Untried, Fresh
      <3> QED BY <3>2, <3>3, <3>4 DEF Each
    <2>5. Job(d)'
      <3>1. /\ posts[d] = 0 /\ said[d] = {} /\ jobs[d] = NoJob
            /\ jobs'[d] = jobs[d] /\ said'[d] = said[d]
        BY <1>1, <2>3 DEF Each, Untried, Fresh
      <3>2. posts'[d] = 0 \/ (~queued /\ posts'[d] = 1)
        <4>1. CASE posts' = posts BY <3>1, <4>1
        <4>2. CASE ~queued /\ posts'[d] = posts[d] + 1 BY <3>1, <4>2
        <4> QED BY <2>3, <4>1, <4>2
      <3> QED
        BY <1>1, <2>3, <3>1, <3>2, TriesPositive DEF Job, Verdict, NoJob, Busy
    <2> QED BY <2>2, <2>4, <2>5
  <1>9. CASE Reported(m)
    <2>1. d \in Deliveries /\ said'[d] # {}
      BY <1>1, <1>3, <1>9 DEF Reported, Working, Each, Served
    <2>2. TypeOK' /\ Each(m)'
      BY <1>1, <1>9, <2>1, NextKept DEF Reported, TypeOK
    <2>3. Job(d)'
      BY <1>1, <1>9, <2>1 DEF Reported, Job, Verdict
    <2> QED BY <2>2, <2>3
  <1>10. CASE Answered(m)
    <2>1. d \in Deliveries
      BY <1>3, <1>10 DEF Answered, Working
    <2>2. TypeOK'
      BY <1>1, <1>3, <1>10, <2>1, TriesPositive
      DEF Answered, TypeOK, Working, Goto, Points, dispatch
    <2>3. /\ at[m] = "posting" /\ at'[m] = "updating"
          /\ UNCHANGED <<queued, found, left, cur, attempt, jobs, posts, said>>
      BY <1>1, <1>2, <1>4, <1>10, <2>1 DEF Answered, TypeOK, Working, Serving, Goto, dispatch
    <2>4. Each(m)'
      <3>1. Serving(m)' = d /\ d = <<m, cur[m]>> BY <2>3 DEF Serving
      <3>2. Untried(m)'
        BY <1>1, <1>3, <2>3, <3>1 DEF Each, Untried, Working, Fresh
      <3>3. Served(m)'
        BY <1>1, <1>3, <2>3, <3>1 DEF Each, Served, Working, TypeOK
      <3>4. Direct(m)'
        BY <1>1, <1>3, <2>3, <3>1 DEF Each, Direct, Untried, Fresh
      <3> QED BY <3>2, <3>3, <3>4 DEF Each
    <2>5. Job(d)'
      BY <1>1, <1>10, <2>1, <2>3, TriesPositive
      DEF Answered, Job, Verdict, NoJob, Busy, TypeOK, Tries
    <2> QED BY <2>2, <2>4, <2>5
  <1>11. CASE Updated(m)
    <2>1. d \in Deliveries
      BY <1>3, <1>11 DEF Updated, Working
    <2>2. TypeOK'
      BY <1>1, <1>3, <1>11, <2>1, TriesPositive
      DEF Updated, TypeOK, Working, Goto, Say, Points, Outcomes, dispatch
    <2>3. /\ at[m] = "updating" /\ at'[m] = "reporting"
          /\ UNCHANGED <<queued, found, left, cur, attempt, jobs, posts>>
          /\ said'[d] = said[d] \cup {"delivered"}
          /\ \A h \in Webhooks : h # cur[m] => said'[<<m, h>>] = said[<<m, h>>]
      BY <1>1, <1>2, <1>4, <1>11, <2>1 DEF Updated, TypeOK, Working, Serving, Goto, Say, dispatch
    <2>4. Each(m)'
      <3>1. Serving(m)' = d /\ d = <<m, cur[m]>> BY <2>3 DEF Serving
      <3>2. Untried(m)'
        BY <1>1, <1>3, <2>3, <3>1 DEF Each, Untried, Working, Fresh
      <3>3. Served(m)'
        BY <1>1, <1>3, <2>3, <3>1 DEF Each, Served, Working, TypeOK
      <3>4. Direct(m)'
        BY <1>1, <1>3, <2>3, <3>1 DEF Each, Direct, Untried, Fresh
      <3> QED BY <3>2, <3>3, <3>4 DEF Each
    <2>5. Job(d)'
      BY <1>1, <1>11, <2>1, <2>3, TriesPositive
      DEF Updated, Job, Verdict, NoJob, Busy, TypeOK, Tries, Each, Direct
    <2> QED BY <2>2, <2>4, <2>5
  <1>12. CASE Fails(m)
    <2>1. d \in Deliveries
      BY <1>3, <1>12 DEF Fails, Working
    <2>2. TypeOK'
      BY <1>1, <1>3, <1>12, <2>1, TriesPositive
      DEF Fails, TypeOK, Working, Goto, Say, Points, Outcomes, dispatch
    <2>3. /\ at[m] \in {"posting", "updating"}
          /\ UNCHANGED <<queued, found, left, cur, attempt, jobs, posts>>
          /\ \/ at'[m] = "waiting" /\ attempt[m] < RetryCount /\ UNCHANGED said
             \/ /\ at'[m] = "reporting" /\ attempt[m] >= RetryCount
                /\ said'[d] = said[d] \cup {"error"}
          /\ \A h \in Webhooks : h # cur[m] => said'[<<m, h>>] = said[<<m, h>>]
      BY <1>1, <1>2, <1>4, <1>12, <2>1 DEF Fails, TypeOK, Working, Serving, Goto, Say, dispatch
    <2>4. Each(m)'
      <3>1. Serving(m)' = d /\ d = <<m, cur[m]>> BY <2>3 DEF Serving
      <3>2. Untried(m)'
        BY <1>1, <1>3, <2>3, <3>1 DEF Each, Untried, Working, Fresh
      <3>3. Served(m)'
        BY <1>1, <1>3, <2>3, <3>1 DEF Each, Served, Working, TypeOK
      <3>4. Direct(m)'
        BY <1>1, <1>3, <2>3, <3>1 DEF Each, Direct, Untried, Fresh
      <3> QED BY <3>2, <3>3, <3>4 DEF Each
    <2>5. Job(d)'
      BY <1>1, <1>12, <2>1, <2>3, TriesPositive
      DEF Fails, Job, Verdict, NoJob, Busy, TypeOK, Tries, Each, Direct
    <2> QED BY <2>2, <2>4, <2>5
  <1>13. CASE Waited(m)
    <2>1. d \in Deliveries
      BY <1>3, <1>13 DEF Waited, Working
    <2>2. TypeOK'
      <3>1. attempt[m] \in 1..Tries /\ attempt[m] + 1 \in 1..Tries
        BY <1>1, <1>13, TriesPositive, WebhookAssumption
        DEF Waited, TypeOK, Each, Direct
      <3>2. attempt' \in [Messages -> 1..Tries]
        BY <1>1, <1>13, <3>1 DEF Waited, TypeOK
      <3>3. posts' \in [Deliveries -> Nat]
        <4>1. posts \in [Deliveries -> Nat] /\ posts' = [posts EXCEPT ![d] = @ + 1]
          BY <1>1, <1>13 DEF Waited, TypeOK, Post
        <4>2. posts[d] + 1 \in Nat BY <2>1, <4>1
        <4> QED BY <2>1, <4>1, <4>2
      <3> QED BY <1>1, <1>13, <3>2, <3>3 DEF Waited, TypeOK, Goto, Points
    <2>3. /\ at[m] = "waiting" /\ at'[m] = "posting"
          /\ UNCHANGED <<queued, found, left, cur, jobs, said>>
          /\ attempt'[m] = attempt[m] + 1 /\ posts'[d] = posts[d] + 1
          /\ \A h \in Webhooks : h # cur[m] => posts'[<<m, h>>] = posts[<<m, h>>]
      BY <1>1, <1>2, <1>4, <1>13, <2>1 DEF Waited, TypeOK, Working, Serving, Goto, Post
    <2>4. Each(m)'
      <3>1. Serving(m)' = d /\ d = <<m, cur[m]>> BY <2>3 DEF Serving
      <3>2. Untried(m)'
        BY <1>1, <1>3, <2>3, <3>1 DEF Each, Untried, Working, Fresh
      <3>3. Served(m)'
        BY <1>1, <1>3, <2>3, <3>1 DEF Each, Served, Working, TypeOK
      <3>4. Direct(m)'
        BY <1>1, <1>3, <2>3, <3>1 DEF Each, Direct, Untried, Fresh
      <3> QED BY <3>2, <3>3, <3>4 DEF Each
    <2>5. Job(d)'
      BY <1>1, <1>13, <2>1, <2>3, TriesPositive
      DEF Waited, Job, Verdict, NoJob, Busy, TypeOK, Tries, Each, Direct
    <2> QED BY <2>2, <2>4, <2>5
  <1>14. CASE AddStores(m)
    <2>1. d \in Deliveries
      BY <1>3, <1>14 DEF AddStores, Working
    <2>2. TypeOK'
      BY <1>1, <1>3, <1>14, <2>1, TriesPositive
      DEF AddStores, TypeOK, Working, dispatch, Busy, Over
    <2>3. /\ at[m] = "adding" /\ at'[m] = "adding"
          /\ UNCHANGED <<queued, found, left, cur, attempt, posts, said>>
          /\ jobs[d].at = "none" /\ jobs'[d] = [jobs[d] EXCEPT !.at = "waiting"]
          /\ \A h \in Webhooks : h # cur[m] => jobs'[<<m, h>>] = jobs[<<m, h>>]
      BY <1>1, <1>2, <1>4, <1>14, <2>1 DEF AddStores, TypeOK, Working, Serving, dispatch
    <2>4. Each(m)'
      <3>1. Serving(m)' = d /\ d = <<m, cur[m]>> BY <2>3 DEF Serving
      <3>2. Untried(m)'
        BY <1>1, <1>3, <2>3, <3>1 DEF Each, Untried, Working, Fresh
      <3>3. Served(m)'
        BY <1>1, <1>3, <2>3, <3>1 DEF Each, Served, Working, TypeOK
      <3>4. Direct(m)'
        BY <1>1, <1>3, <2>3, <3>1 DEF Each, Direct, Untried, Fresh
      <3> QED BY <3>2, <3>3, <3>4 DEF Each
    <2>5. Job(d)'
      BY <1>1, <1>14, <2>1, <2>3, TriesPositive
      DEF AddStores, Job, Verdict, NoJob, Busy, TypeOK, Tries, Each, Direct
    <2> QED BY <2>2, <2>4, <2>5
  <1>15. CASE AddResolves(m)
    <2>1. d \in Deliveries
      BY <1>3, <1>15 DEF AddResolves, Working
    <2>2. TypeOK'
      BY <1>1, <1>3, <1>15, <2>1, TriesPositive
      DEF AddResolves, TypeOK, Working, Goto, Say, Points, Outcomes, dispatch
    <2>3. /\ at[m] = "adding" /\ at'[m] = "reporting"
          /\ UNCHANGED <<queued, found, left, cur, attempt, posts, jobs>>
          /\ said'[d] = said[d] \cup {"queued"}
          /\ \A h \in Webhooks : h # cur[m] => said'[<<m, h>>] = said[<<m, h>>]
      BY <1>1, <1>2, <1>4, <1>15, <2>1 DEF AddResolves, TypeOK, Working, Serving, Goto, Say, dispatch
    <2>4. Each(m)'
      <3>1. Serving(m)' = d /\ d = <<m, cur[m]>> BY <2>3 DEF Serving
      <3>2. Untried(m)'
        BY <1>1, <1>3, <2>3, <3>1 DEF Each, Untried, Working, Fresh
      <3>3. Served(m)'
        BY <1>1, <1>3, <2>3, <3>1 DEF Each, Served, Working, TypeOK
      <3>4. Direct(m)'
        BY <1>1, <1>3, <2>3, <3>1 DEF Each, Direct, Untried, Fresh
      <3> QED BY <3>2, <3>3, <3>4 DEF Each
    <2>5. Job(d)'
      BY <1>1, <1>15, <2>1, <2>3, TriesPositive
      DEF AddResolves, Job, Verdict, NoJob, Busy, TypeOK, Tries
    <2> QED BY <2>2, <2>4, <2>5
  <1>16. CASE AddRejects(m)
    <2>1. d \in Deliveries
      BY <1>3, <1>16 DEF AddRejects, Working
    <2>2. TypeOK'
      BY <1>1, <1>3, <1>16, <2>1, TriesPositive
      DEF AddRejects, TypeOK, Working, Goto, Say, Points, Outcomes, dispatch
    <2>3. /\ at[m] = "adding" /\ at'[m] = "reporting"
          /\ UNCHANGED <<queued, found, left, cur, attempt, posts, jobs>>
          /\ said'[d] = said[d] \cup {"unqueued"}
          /\ \A h \in Webhooks : h # cur[m] => said'[<<m, h>>] = said[<<m, h>>]
      BY <1>1, <1>2, <1>4, <1>16, <2>1 DEF AddRejects, TypeOK, Working, Serving, Goto, Say, dispatch
    <2>4. Each(m)'
      <3>1. Serving(m)' = d /\ d = <<m, cur[m]>> BY <2>3 DEF Serving
      <3>2. Untried(m)'
        BY <1>1, <1>3, <2>3, <3>1 DEF Each, Untried, Working, Fresh
      <3>3. Served(m)'
        BY <1>1, <1>3, <2>3, <3>1 DEF Each, Served, Working, TypeOK
      <3>4. Direct(m)'
        BY <1>1, <1>3, <2>3, <3>1 DEF Each, Direct, Untried, Fresh
      <3> QED BY <3>2, <3>3, <3>4 DEF Each
    <2>5. Job(d)'
      BY <1>1, <1>16, <2>1, <2>3, TriesPositive
      DEF AddRejects, Job, Verdict, NoJob, Busy, TypeOK, Tries
    <2> QED BY <2>2, <2>4, <2>5
  <1> QED BY <1>5, <1>6, <1>7, <1>8, <1>9, <1>10, <1>11, <1>12, <1>13, <1>14,
             <1>15, <1>16 DEF DispatchStep

-----------------------------------------------------------------------------
\* The steps of the worker and the restart

\* Every step of the worker keeps the types and what is known of the job.
LEMMA JobStepKept ==
    ASSUME IInv, NEW d \in Deliveries, JobStep(d)
    PROVE  /\ TypeOK' /\ Job(d)'
           /\ jobs[d].at # "none" /\ UNCHANGED <<queued, at, dispatch>>
           /\ \A e \in Deliveries \ {d} : /\ posts'[e] = posts[e]
                                          /\ said'[e] = said[e]
                                          /\ jobs'[e] = jobs[e]
           /\ said[d] \subseteq said'[d]
  <1>1. TypeOK /\ Job(d) BY DEF IInv
  <1>2. jobs[d].at # "none" /\ UNCHANGED <<queued, at, dispatch>>
    BY DEF JobStep, JobStarts, JobAnswered, JobUpdated, JobFails, JobCompletes,
       JobExhausted
  <1>3. queued BY <1>1, <1>2 DEF Job, NoJob
  <1>4. /\ jobs[d] \in [at : {"none", "waiting"} \cup Busy \cup Over,
                        made : 0..Tries, stalls : 0..MaxStalls]
        /\ posts[d] \in Nat /\ said[d] \subseteq Outcomes
    BY <1>1 DEF TypeOK
  <1>5. jobs' \in [Deliveries -> [at : {"none", "waiting"} \cup Busy \cup Over,
                                  made : 0..Tries, stalls : 0..MaxStalls]]
    <2>1. jobs \in [Deliveries -> [at : {"none", "waiting"} \cup Busy \cup Over,
                                  made : 0..Tries, stalls : 0..MaxStalls]]
      BY <1>1 DEF TypeOK
    <2>2. CASE \E point \in Busy \cup Over : JobTo(d, point)
      BY <2>1, <2>2 DEF JobTo
    <2>3. CASE /\ jobs[d].at \in Busy
               /\ \E point \in {"waiting", "failed"} :
                    jobs' = [jobs EXCEPT ![d].at = point, ![d].made = @ + 1]
      <3>1. jobs[d].made + 1 \in 0..Tries
        BY <1>1, <1>3, <1>4, <2>3, TriesPositive DEF Job
      <3>2. PICK point \in {"waiting", "failed"} :
              jobs' = [jobs EXCEPT ![d].at = point, ![d].made = @ + 1]
        BY <2>3
      <3> QED BY <1>4, <2>1, <3>1, <3>2 DEF Over
    <2> QED BY <2>2, <2>3
        DEF JobStep, JobStarts, JobAnswered, JobUpdated, JobFails, JobCompletes,
            JobExhausted, Busy, Over
  <1>6. posts' \in [Deliveries -> Nat] /\ said' \in [Deliveries -> SUBSET Outcomes]
    BY <1>1, <1>4
    DEF TypeOK, JobStep, JobStarts, JobAnswered, JobUpdated, JobFails,
       JobCompletes, JobExhausted, Post, Say, Outcomes
  <1>7. TypeOK'
    BY <1>1, <1>2, <1>5, <1>6 DEF TypeOK, dispatch
  <1>8. \A e \in Deliveries \ {d} :
            posts'[e] = posts[e] /\ said'[e] = said[e] /\ jobs'[e] = jobs[e]
    BY <1>1 DEF TypeOK, JobStep, JobStarts, JobAnswered, JobUpdated, JobFails,
       JobCompletes, JobExhausted, JobTo, Post, Say
  <1>9. said[d] \subseteq said'[d]
    BY <1>1 DEF TypeOK, JobStep, JobStarts, JobAnswered, JobUpdated, JobFails,
       JobCompletes, JobExhausted, Say
  <1>10. Job(d)'
    <2> USE <1>1, <1>2, <1>3, <1>4, TriesPositive, WebhookAssumption
        DEF Job, Verdict, Busy
    <2>1. CASE JobStarts(d)
      <3>1. /\ jobs[d].at = "waiting" /\ jobs'[d] = [jobs[d] EXCEPT !.at = "posting"]
            /\ posts'[d] = posts[d] + 1 /\ said'[d] = said[d]
        BY <2>1 DEF JobStarts, JobTo, Post, TypeOK
      <3> QED BY <3>1
    <2>2. CASE JobAnswered(d)
      <3>1. /\ jobs[d].at = "posting" /\ jobs'[d] = [jobs[d] EXCEPT !.at = "updating"]
            /\ posts'[d] = posts[d] /\ said'[d] = said[d]
        BY <2>2 DEF JobAnswered, JobTo, TypeOK
      <3> QED BY <3>1
    <2>3. CASE JobUpdated(d)
      <3>1. /\ jobs[d].at = "updating" /\ jobs'[d] = [jobs[d] EXCEPT !.at = "reporting"]
            /\ posts'[d] = posts[d] /\ said'[d] = said[d] \cup {"delivered"}
        BY <2>3 DEF JobUpdated, JobTo, Say, TypeOK
      <3> QED BY <3>1
    <2>4. CASE JobFails(d)
      <3>1. CASE /\ jobs[d].made + 1 < RetryCount
                 /\ jobs' = [jobs EXCEPT ![d].at = "waiting", ![d].made = @ + 1]
                 /\ UNCHANGED said
        <4>1. /\ jobs'[d] = [at |-> "waiting", made |-> jobs[d].made + 1,
                             stalls |-> jobs[d].stalls]
              /\ posts'[d] = posts[d] /\ said'[d] = said[d]
              /\ jobs[d].at \in {"posting", "updating"}
          BY <2>4, <3>1 DEF JobFails, TypeOK
        <4> QED BY <3>1, <4>1
      <3>2. CASE /\ jobs[d].made + 1 >= RetryCount
                 /\ JobTo(d, "erring")
                 /\ Say(d, "error")
        <4>1. /\ jobs'[d] = [jobs[d] EXCEPT !.at = "erring"]
              /\ posts'[d] = posts[d] /\ said'[d] = said[d] \cup {"error"}
              /\ jobs[d].at \in {"posting", "updating"}
          BY <2>4, <3>2 DEF JobFails, JobTo, Say, TypeOK
        <4>2. posts[d] >= Tries
          BY <3>2, <4>1, WebhookAssumption DEF Tries
        <4> QED BY <4>1, <4>2
      <3> QED BY <2>4, <3>1, <3>2 DEF JobFails
    <2>5. CASE JobCompletes(d)
      <3>1. /\ jobs[d].at = "reporting"
            /\ jobs'[d] = [jobs[d] EXCEPT !.at = "completed"]
            /\ posts'[d] = posts[d] /\ said'[d] = said[d]
        BY <2>5 DEF JobCompletes, JobTo, TypeOK
      <3> QED BY <3>1
    <2>6. CASE JobExhausted(d)
      <3>1. /\ jobs[d].at = "erring"
            /\ jobs'[d] = [at |-> "failed", made |-> jobs[d].made + 1,
                           stalls |-> jobs[d].stalls]
            /\ posts'[d] = posts[d] /\ said'[d] = said[d]
        BY <2>6 DEF JobExhausted, TypeOK
      <3> QED BY <3>1
    <2> QED BY <2>1, <2>2, <2>3, <2>4, <2>5, <2>6 DEF JobStep
  <1> QED BY <1>2, <1>7, <1>8, <1>9, <1>10

\* A restart ends dispatches and stalls jobs, and takes nothing back.
LEMMA RestartKept ==
    ASSUME IInv, Restart
    PROVE  IInv'
  <1>1. TypeOK BY DEF IInv
  <1>2. /\ UNCHANGED <<queued, dispatch, posts, said>>
        /\ at' = [m \in Messages |->
                     IF at[m] \in {"none", "done"} THEN at[m] ELSE "lost"]
        /\ jobs' = [d \in Deliveries |-> Stalled(jobs[d])]
    BY DEF Restart
  <1>3. TypeOK'
    <2>1. at' \in [Messages -> Points] BY <1>1, <1>2 DEF TypeOK, Points
    <2>2. ASSUME NEW d \in Deliveries
          PROVE  Stalled(jobs[d]) \in
                     [at : {"none", "waiting"} \cup Busy \cup Over,
                      made : 0..Tries, stalls : 0..MaxStalls]
      <3>1. jobs[d] \in [at : {"none", "waiting"} \cup Busy \cup Over,
                         made : 0..Tries, stalls : 0..MaxStalls]
        BY <1>1 DEF TypeOK
      <3>2. CASE jobs[d].at \notin Busy BY <3>1, <3>2 DEF Stalled
      <3>3. CASE jobs[d].at \in Busy /\ jobs[d].stalls < MaxStalls
        <4>1. Stalled(jobs[d]) = [at |-> "waiting", made |-> jobs[d].made,
                                  stalls |-> jobs[d].stalls + 1]
          BY <3>1, <3>3 DEF Stalled
        <4>2. jobs[d].stalls + 1 \in 0..MaxStalls
          BY <3>1, <3>3, WebhookAssumption
        <4> QED BY <3>1, <4>1, <4>2
      <3>4. CASE jobs[d].at \in Busy /\ ~(jobs[d].stalls < MaxStalls)
        <4>1. Stalled(jobs[d]) = [at |-> "failed", made |-> jobs[d].made,
                                  stalls |-> jobs[d].stalls]
          BY <3>1, <3>4 DEF Stalled
        <4> QED BY <3>1, <4>1 DEF Over
      <3> QED BY <3>2, <3>3, <3>4
    <2> QED BY <1>1, <1>2, <2>1, <2>2 DEF TypeOK, dispatch
  <1>4. ASSUME NEW m \in Messages PROVE Each(m)'
    <2>1. Each(m) BY DEF IInv, Each
    <2>2. \A h \in Webhooks : Fresh(<<m, h>>) => Fresh(<<m, h>>)'
      <3>1. ASSUME NEW d \in Deliveries, Fresh(d) PROVE Fresh(d)'
        <4>1. jobs'[d] = Stalled(jobs[d]) /\ posts'[d] = posts[d] /\ said'[d] = said[d]
          BY <1>2
        <4>2. jobs[d] = NoJob /\ Stalled(NoJob) = NoJob
          BY <3>1 DEF Fresh, Stalled, NoJob, Busy
        <4> QED BY <3>1, <4>1, <4>2 DEF Fresh
      <3> QED BY <3>1 DEF Deliveries
    <2>3. left[m] \subseteq Webhooks /\ found[m] \subseteq Webhooks
      BY <1>1 DEF TypeOK
    <2>4. at'[m] \in {"none", "done", "lost"} /\ (at'[m] # "lost" => at'[m] = at[m])
      BY <1>2
    <2> QED BY <1>2, <2>1, <2>2, <2>3, <2>4
        DEF Each, Untried, Served, Direct, Working, dispatch
  <1>5. ASSUME NEW d \in Deliveries PROVE Job(d)'
    <2>1. Job(d) BY DEF IInv
    <2>2. /\ jobs[d] \in [at : {"none", "waiting"} \cup Busy \cup Over,
                          made : 0..Tries, stalls : 0..MaxStalls]
          /\ posts[d] \in Nat
      BY <1>1 DEF TypeOK
    <2>3. /\ jobs'[d] = Stalled(jobs[d]) /\ posts'[d] = posts[d]
          /\ said'[d] = said[d] /\ queued' = queued
      BY <1>2
    <2>4. CASE jobs[d].at \notin Busy
      BY <2>1, <2>3, <2>4 DEF Stalled, Job, Verdict
    <2>5. CASE jobs[d].at \in Busy
      <3>1. queued BY <2>1, <2>5 DEF Job, NoJob, Busy
      <3>2. CASE jobs[d].stalls < MaxStalls
        <4>1. jobs'[d] = [at |-> "waiting", made |-> jobs[d].made,
                          stalls |-> jobs[d].stalls + 1]
          BY <2>2, <2>3, <2>5, <3>2 DEF Stalled
        <4> QED BY <2>1, <2>2, <2>3, <2>5, <3>1, <4>1, TriesPositive
            DEF Job, Verdict, Busy
      <3>3. CASE ~(jobs[d].stalls < MaxStalls)
        <4>1. jobs'[d] = [at |-> "failed", made |-> jobs[d].made,
                          stalls |-> jobs[d].stalls]
          BY <2>2, <2>3, <2>5, <3>3 DEF Stalled
        <4> QED BY <2>1, <2>2, <2>3, <2>5, <3>1, <4>1, TriesPositive
            DEF Job, Verdict, Busy
      <3> QED BY <3>2, <3>3
    <2> QED BY <2>4, <2>5
  <1> QED BY <1>3, <1>4, <1>5 DEF IInv, Each

\* Every step keeps the invariant.
LEMMA IStep == IInv /\ [Next]_vars => IInv'
  <1> SUFFICES ASSUME IInv, [Next]_vars PROVE IInv' OBVIOUS
  <1>1. ASSUME NEW m \in Messages, Dispatch(m) \/ DispatchStep(m) PROVE IInv'
    <2>1. TypeOK' /\ Each(m)' BY <1>1, DispatchKept
    <2>2. \A n \in Messages \ {m} : Each(n)'
      BY <1>1, DispatchTouches, SameKept
    <2>3. ASSUME NEW e \in Deliveries PROVE Job(e)'
      <3>1. CASE e = Serving(m) BY <1>1, <2>3, <3>1, DispatchKept
      <3>2. CASE e # Serving(m)
        BY <1>1, <2>3, <3>2, DispatchTouches, JobSame DEF IInv
      <3> QED BY <3>1, <3>2
    <2> QED BY <2>1, <2>2, <2>3 DEF IInv, Each
  <1>2. ASSUME NEW d \in Deliveries, JobStep(d) PROVE IInv'
    <2>1. TypeOK' /\ Job(d)' BY <1>2, JobStepKept
    <2>2. \A m \in Messages : Each(m)' BY <1>2, JobStepKept, JobKept
    <2>3. \A e \in Deliveries \ {d} : Job(e)'
      BY <1>2, JobStepKept, JobSame DEF IInv
    <2> QED BY <2>1, <2>2, <2>3 DEF IInv, Each
  <1>3. CASE Restart BY <1>3, RestartKept
  <1>4. CASE UNCHANGED vars
    <2>1. TypeOK' BY <1>4 DEF vars, IInv, TypeOK
    <2>2. \A m \in Messages : Same(m) BY <1>4 DEF vars, Same
    <2>3. queued' = queued BY <1>4 DEF vars
    <2>4. \A m \in Messages : Each(m)' BY <2>2, <2>3, SameKept
    <2>5. \A d \in Deliveries : Job(d)' BY <1>4, JobSame DEF vars, IInv
    <2> QED BY <2>1, <2>4, <2>5 DEF IInv, Each
  <1> QED BY <1>1, <1>2, <1>3, <1>4 DEF Next

-----------------------------------------------------------------------------
\* The inductive invariant of the deliveries, for any number of messages,
\* webhooks, attempts and stalls.
THEOREM Invariant == Spec => []IInv
  <1> QED BY IInit, IStep, PTL DEF Spec

\* The state is well typed; in particular no dispatch and no job counts more
\* attempts than retryCount allows.
THEOREM TypeCorrect == Spec => []TypeOK
  <1>1. IInv => TypeOK BY DEF IInv
  <1> QED BY <1>1, Invariant, PTL

\* Both ways of delivery post at most as often as retryCount says, but for the
\* jobs that stalled.
THEOREM BoundedPostsHolds == Spec => []BoundedPosts
  <1>1. IInv => BoundedPosts
    <2> SUFFICES ASSUME IInv, NEW d \in Deliveries
                 PROVE  posts[d] <= Tries + jobs[d].stalls
      BY DEF BoundedPosts
    <2>1. Job(d) /\ queued \in BOOLEAN /\ posts[d] \in Nat
      BY DEF IInv, TypeOK
    <2>2. CASE queued BY <2>1, <2>2 DEF Job
    <2>3. CASE ~queued BY <2>1, <2>3, TriesPositive DEF Job, NoJob
    <2> QED BY <2>1, <2>2, <2>3
  <1> QED BY <1>1, Invariant, PTL

\* 'webhook:error' is run for a delivery only when every attempt was made.
THEOREM ErrorMeansExhaustedHolds == Spec => []ErrorMeansExhausted
  <1>1. IInv => ErrorMeansExhausted
    BY DEF IInv, Job, ErrorMeansExhausted
  <1> QED BY <1>1, Invariant, PTL

\* A dispatch that came to its end has reported on every webhook it found.
THEOREM EveryoneServedHolds == Spec => []EveryoneServed
  <1>1. IInv => EveryoneServed
    BY DEF IInv, Served, EveryoneServed
  <1> QED BY <1>1, Invariant, PTL

\* Nothing is posted, and no other verdict given, after the verdict on a
\* delivery whose job has not stalled.
THEOREM VerdictIsFinalHolds == Spec => VerdictIsFinal
  <1>1. IInv /\ [Next]_vars
        => [\A d \in Deliveries :
               Verdict(d) # {} /\ jobs[d].stalls = 0
               => posts'[d] = posts[d] /\ Verdict(d)' = Verdict(d)]_vars
    <2> SUFFICES ASSUME IInv, Next, NEW d \in Deliveries,
                        Verdict(d) # {}, jobs[d].stalls = 0
                 PROVE  posts'[d] = posts[d] /\ Verdict(d)' = Verdict(d)
      OBVIOUS
    <2>1. TypeOK /\ Job(d) BY DEF IInv
    <2>2. ASSUME NEW m \in Messages, Dispatch(m) \/ DispatchStep(m)
          PROVE  posts'[d] = posts[d] /\ Verdict(d)' = Verdict(d)
      <3>1. CASE d # Serving(m)
        BY <2>2, <3>1, DispatchTouches DEF Verdict
      <3>2. CASE d = Serving(m)
        <4>1. said[d] # {} BY DEF Verdict
        <4>2. at[m] \notin {"before", "posting", "updating", "waiting"}
          BY <3>2, <4>1 DEF IInv, Untried, Fresh, Direct
        <4>3. posts'[d] = posts[d]
          BY <2>2, <4>2 DEF Dispatch, DispatchStep, Found, Cancelled, Deliver,
             Reported, Answered, Updated, Fails, Waited, AddStores, AddResolves,
             AddRejects
        <4>4. \/ said' = said
              \/ \E o \in {"queued", "unqueued"} : Say(d, o)
          BY <2>2, <3>2, <4>2 DEF Dispatch, DispatchStep, Found, Cancelled, Deliver,
             Reported, Answered, Updated, Fails, Waited, AddStores, AddResolves,
             AddRejects
        <4>5. Verdict(d)' = Verdict(d)
          BY <2>1, <4>4 DEF TypeOK, Say, Verdict
        <4> QED BY <4>3, <4>5
      <3> QED BY <3>1, <3>2
    <2>3. ASSUME NEW e \in Deliveries, JobStep(e)
          PROVE  posts'[d] = posts[d] /\ Verdict(d)' = Verdict(d)
      <3>1. CASE d # e BY <2>3, <3>1, JobStepKept DEF Verdict
      <3>2. CASE d = e
        <4>1. jobs[d].at \notin {"waiting", "posting", "updating"}
          BY <2>1 DEF Job
        <4>2. UNCHANGED <<posts, said>>
          BY <2>3, <3>2, <4>1 DEF JobStep, JobStarts, JobAnswered, JobUpdated,
             JobFails, JobCompletes, JobExhausted
        <4> QED BY <4>2 DEF Verdict
      <3> QED BY <3>1, <3>2
    <2>4. CASE Restart BY <2>4 DEF Restart, Verdict
    <2> QED BY <2>2, <2>3, <2>4 DEF Next
  <1> QED BY <1>1, Invariant, PTL DEF Spec, VerdictIsFinal
=============================================================================
