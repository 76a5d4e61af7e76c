--------------------------- MODULE EngineRequests ---------------------------
(***************************************************************************)
(* What HTTP clients ask of the engine of one session: the message         *)
(* endpoints (MessageService), which keep a row for every message they     *)
(* send and run plugin hooks around the sending, and the endpoints for     *)
(* groups, contacts, labels, channels, statuses and the catalog, which     *)
(* keep nothing.                                                           *)
(*                                                                         *)
(* A request fetches the engine once and holds it across its awaits, while *)
(* the session may be stopped, started anew or deleted (SessionLifecycle   *)
(* has those calls in full; here they are the environment).                *)
(***************************************************************************)
EXTENDS Naturals, Sequences

CONSTANTS
    Requests,   \* HTTP requests of a behaviour
    Engines,    \* adapters the session may have, one after the other
    None

ASSUME RequestAssumption == None \notin Engines

VARIABLES
    engine,     \* engines.get(sessionId)
    live,       \* adapters whose client is not null
    ready,      \* adapters whose status is READY
    known,      \* the session's row exists
    requests

vars == <<engine, live, ready, known, requests>>

-----------------------------------------------------------------------------
\* The engine's methods, by the awaits after ensureReady: "prepare" needs no
\* client (a download, an import), "read" asks the client for something, "act"
\* has it change something at WhatsApp, "stub" throws.  A caught method answers
\* null or [] where another throws.  A search that finds nothing and a chat that
\* is no group throw as the client does, so they are not told apart from it.
Throws(steps) == [steps |-> steps, caught |-> FALSE]
Catches(steps) == [steps |-> steps, caught |-> TRUE]

\* With a base64 body nothing is downloaded.
SendMethods == {Throws(<<"act">>), Throws(<<"prepare", "act">>)}
LocationMethod == Throws(<<"prepare", "act">>)
CardMethod == Throws(<<"act">>)
StickerMethods == {Throws(<<"act">>), Throws(<<"prepare", "act">>)}
QuoteMethod == Throws(<<"read", "read", "act">>)
ReactMethod == Throws(<<"read", "read", "act">>)
\* Without hasReaction, getReactions is not called.
ReactionMethods == {Throws(<<"read", "read">>), Throws(<<"read", "read", "read">>)}
DeleteMethod == Throws(<<"read", "read", "act">>)
ListMethod == Throws(<<"read">>)
ContactMethod == Catches(<<"read">>)
ContactChange == Throws(<<"read", "act">>)
GroupMethod == Catches(<<"read">>)
GroupChanges == {Throws(<<"act">>), Throws(<<"read", "act">>)}
InviteMethods == {Throws(<<"read", "read">>), Throws(<<"read", "act">>)}
LabelMethods == {Throws(<<"read", "read">>), Throws(<<"read", "act">>)}
LabelMethod == Throws(<<"read">>)
ChannelMethod == Catches(<<"read">>)
ChannelMethods == {Throws(<<"act">>), Catches(<<"read", "read">>)}
StatusMethods == {Throws(<<>>), Throws(<<"stub">>)}
CatalogMethods == {Throws(<<>>), Throws(<<"stub">>)}

-----------------------------------------------------------------------------
\* The endpoints.  absent: the answer without an engine; empty: the answer when
\* the method answers null; stored, checked, hooked: a row is kept, the media
\* are checked first, plugins are asked and told.
Endpoint(method) ==
    [method |-> method, absent |-> "error", empty |-> "ok",
     stored |-> FALSE, checked |-> FALSE, hooked |-> FALSE]

Message(method) == [Endpoint(method) EXCEPT !.absent = "bad request"]
Stored(method) == [Message(method) EXCEPT !.stored = TRUE]
Checked(method) == [Stored(method) EXCEPT !.checked = TRUE]

\* Null becomes a plain Error, which is a 500 and not the 404 of the API.
Single(method) == [Endpoint(method) EXCEPT !.empty = "error"]

SendText == [Stored(CardMethod) EXCEPT !.hooked = TRUE]
MediaSends == {Checked(method) : method \in SendMethods}
StickerSends == {Checked(method) : method \in StickerMethods}
LocationSend == Stored(LocationMethod)
ContactSend == Stored(CardMethod)
QuotingSends == {Stored(QuoteMethod)}
Reactions == {Message(ReactMethod)} \cup {Message(method) : method \in ReactionMethods}
Deletion == Message(DeleteMethod)

MessageSends ==
    {SendText, LocationSend, ContactSend} \cup MediaSends \cup StickerSends
        \cup QuotingSends

MessageCalls == Reactions \cup {Deletion}

Contacts == {Endpoint(ListMethod), Single(ContactMethod), Endpoint(ContactMethod),
             Endpoint(ContactChange)}
GroupReads == {Endpoint(ListMethod), Single(GroupMethod)}
GroupActs == {Endpoint(method) : method \in GroupChanges \cup InviteMethods}
Labels == {Endpoint(ListMethod), Single(LabelMethod)}
            \cup {Endpoint(method) : method \in LabelMethods}
Channels == {Endpoint(ListMethod), Single(ChannelMethod)}
            \cup {Endpoint(method) : method \in ChannelMethods}

NotFoundWithout(method) == [Endpoint(method) EXCEPT !.absent = "not found"]
Statuses == {NotFoundWithout(method) : method \in StatusMethods}
Catalog == {NotFoundWithout(method) : method \in CatalogMethods}

Endpoints == MessageSends \cup MessageCalls \cup Contacts \cup GroupReads
                \cup GroupActs \cup Labels \cup Channels \cup Statuses \cup Catalog

-----------------------------------------------------------------------------
\* The awaits of a request.
Points == {"new", "asking", "finding", "inserting", "calling", "acting",
           "saving", "telling", "marking", "reporting", "done", "lost"}

Rows == {"none", "pending", "sent", "failed"}

\* via: the engine held; step: the await within its method; acted: WhatsApp has
\* done what was asked (not known to the program); told: hooks run afterwards;
\* broken: a write of the row was rejected.
Fresh(e) == [of |-> e, at |-> "new", via |-> None, step |-> 0, row |-> "none",
             acted |-> FALSE, told |-> {}, broken |-> FALSE, answer |-> "none"]

TypeOK ==
    /\ engine \in Engines \cup {None}
    /\ ready \subseteq live /\ live \subseteq Engines
    /\ known \in BOOLEAN
    /\ requests \in [Requests ->
            [of : Endpoints, at : Points, via : Engines \cup {None}, step : 0..3,
             row : Rows, acted : BOOLEAN, told : SUBSET {"sent", "failed"},
             broken : BOOLEAN,
             answer : {"none", "ok", "bad request", "not found", "error"}]]

\* The route of a request says nothing before its handler is called.
Init ==
    /\ engine = None /\ live = {} /\ ready = {} /\ known = TRUE
    /\ requests = [r \in Requests |-> Fresh(SendText)]

-----------------------------------------------------------------------------
\* The code between two awaits, as operators on the record q of a request.

Answer(q, a) == [q EXCEPT !.at = "done", !.via = None, !.answer = a]

\* A catch that only throws the error on.
RejectedUnmarked(q) ==
    IF q.of.method.caught THEN Answer(q, q.of.empty) ELSE Answer(q, "error")

\* An error of the engine's method, or of the row's save after it.
Rejected(q) ==
    CASE q.of.stored -> [q EXCEPT !.at = "marking"]
      [] ~q.of.stored /\ q.of.method.caught -> Answer(q, q.of.empty)
      [] OTHER -> Answer(q, "error")

\* The method has resolved.
Resolved(q) == IF q.of.stored THEN [q EXCEPT !.at = "saving"] ELSE Answer(q, "ok")

\* The next await of the method, or its end.
Proceed(q) ==
    LET steps == q.of.method.steps IN
    IF q.step = Len(steps) THEN Resolved(q)
    ELSE [q EXCEPT !.step = @ + 1,
                   !.at = IF steps[q.step + 1] = "act" THEN "acting" ELSE "calling"]

\* ensureReady, outside the try of a method that has one: its error is thrown.
Called(q) ==
    CASE q.via \in ready -> Proceed(q)
      [] q.via \notin ready /\ q.of.stored -> Rejected(q)
      [] OTHER -> Answer(q, "error")

\* A call that does not wait for the row.
CalledFirst(q) == [Called(q) EXCEPT !.row = "none"]

\* getEngine and, for a stored message, the search for the session.
Entered(q) ==
    CASE engine = None -> Answer(q, q.of.absent)
      [] engine # None /\ q.of.stored -> [q EXCEPT !.at = "finding", !.via = engine]
      [] OTHER -> Called([q EXCEPT !.via = engine])

Becomes(r, q) ==
    /\ requests' = [requests EXCEPT ![r] = q]
    /\ UNCHANGED <<engine, live, ready, known>>

\* The handler of some endpoint is called.
Begin(r) ==
    /\ requests[r].at = "new"
    /\ \E e \in Endpoints :
        \/ e.hooked /\ Becomes(r, [Fresh(e) EXCEPT !.at = "asking"])
        \/ ~e.hooked /\ Becomes(r, Entered(Fresh(e)))

\* buildMediaInput throws, after getEngine.
MediaRefused(r) ==
    /\ requests[r].at = "new" /\ engine # None
    /\ \E e \in Endpoints : e.checked /\ Becomes(r, Answer(Fresh(e), "bad request"))

\* The chain of message:sending ends, or a plugin stops it.
Asked(r) ==
    /\ requests[r].at = "asking"
    /\ \/ Becomes(r, Entered(requests[r]))
       \/ Becomes(r, Answer(requests[r], "bad request"))

\* sessionService.findOne
SessionFound(r) ==
    /\ requests[r].at = "finding"
    /\ \/ known /\ Becomes(r, [requests[r] EXCEPT !.at = "inserting"])
       \/ ~known /\ Becomes(r, Answer(requests[r], "not found"))
       \/ Becomes(r, Answer(requests[r], "error"))

InsertedAfterCall(r) ==
    /\ requests[r].at = "inserting"
    /\ Becomes(r, CalledFirst(requests[r]))

\* The row is inserted, and the method called with the engine of before.
Inserted(r) ==
    /\ requests[r].at = "inserting"
    /\ Becomes(r, Called([requests[r] EXCEPT !.row = "pending"]))

\* A write is rejected, though it may have been done: the request with the row
\* it would have had, or as it was.
Broken(r, row) ==
    {[requests[r] EXCEPT !.row = left, !.broken = TRUE] : left \in {requests[r].row, row}}

\* Outside the try: nothing is marked.
InsertFails(r) ==
    /\ requests[r].at = "inserting"
    /\ \E q \in Broken(r, "pending") : Becomes(r, Answer(q, "error"))

-----------------------------------------------------------------------------
\* Within the engine's method

\* A download ends without the client, anything else with it.
StepResolves(r) ==
    LET q == requests[r] IN
    /\ q.at = "calling" /\ q.of.method.steps[q.step] # "stub"
    /\ q.via \in live \/ q.of.method.steps[q.step] = "prepare"
    /\ Becomes(r, Proceed(q))

\* A read that finds nothing: null, where the method goes on to nothing else.
FindsNull(r) ==
    LET q == requests[r] IN
    /\ q.at = "calling" /\ q.via \in live
    /\ q.step = Len(q.of.method.steps) /\ q.of.method.steps[q.step] = "read"
    /\ ~q.of.stored
    /\ Becomes(r, Answer(q, q.of.empty))

\* WhatsApp does it, while the client is there.
Acts(r) ==
    /\ requests[r].at = "acting" /\ ~requests[r].acted
    /\ requests[r].via \in live
    /\ Becomes(r, [requests[r] EXCEPT !.acted = TRUE])

\* Taken for done although nobody answered.
ActAssumed(r) ==
    /\ requests[r].at = "acting"
    /\ Becomes(r, Proceed(requests[r]))

\* The client answers; or it does not, whatever WhatsApp has done.
ActResolves(r) ==
    /\ requests[r].at = "acting" /\ requests[r].acted
    /\ Becomes(r, Proceed(requests[r]))

StepRejects(r) ==
    /\ requests[r].at \in {"calling", "acting"}
    /\ Becomes(r, Rejected(requests[r]))

-----------------------------------------------------------------------------
\* After it, in the try and the catch of MessageService

\* The plugins hear of it before the row is saved.
SavedAfterHook(r) ==
    /\ requests[r].at = "saving"
    /\ \/ Becomes(r, Answer([requests[r] EXCEPT !.row = "sent"], "ok"))
       \/ requests[r].of.hooked /\ Becomes(r, [requests[r] EXCEPT !.told = @ \cup {"sent"}])

\* save(SENT), and the hook message:sent.
Saved(r) ==
    /\ requests[r].at = "saving"
    /\ LET q == [requests[r] EXCEPT !.row = "sent"] IN
       Becomes(r, IF q.of.hooked THEN [q EXCEPT !.at = "telling", !.told = @ \cup {"sent"}]
                  ELSE Answer(q, "ok"))

\* The catch is for this save too.
SaveFails(r) ==
    /\ requests[r].at = "saving"
    /\ \E q \in Broken(r, "sent") : Becomes(r, Rejected(q))

\* save(FAILED), and the hook message:failed.
Marked(r) ==
    /\ requests[r].at = "marking"
    /\ LET q == [requests[r] EXCEPT !.row = "failed"] IN
       Becomes(r, IF q.of.hooked
                  THEN [q EXCEPT !.at = "reporting", !.told = @ \cup {"failed"}]
                  ELSE Answer(q, "error"))

MarkFails(r) ==
    /\ requests[r].at = "marking"
    /\ \E q \in Broken(r, "failed") : Becomes(r, Answer(q, "error"))

\* The chain of message:sent or message:failed has ended; it never rejects.
Told(r) ==
    \/ requests[r].at = "telling" /\ Becomes(r, Answer(requests[r], "ok"))
    \/ requests[r].at = "reporting" /\ Becomes(r, Answer(requests[r], "error"))

-----------------------------------------------------------------------------
\* The session meanwhile

\* A start call or a reconnection: a new adapter, put into the map before its
\* client is ready, even in the place of another (two of them may overlap) or
\* after the session is deleted.  old: the adapter a reconnection has destroyed.
EngineStarts(old, e) ==
    /\ e \notin live \ {old}
    /\ \A r \in Requests : requests[r].via # e
    /\ engine' = e /\ live' = (live \ {old}) \cup {e} /\ ready' = ready \ {old}
    /\ UNCHANGED <<known, requests>>

EngineReady(e) ==
    /\ e \in live \ ready /\ ready' = ready \cup {e}
    /\ UNCHANGED <<engine, live, known, requests>>

\* 'disconnected': the client stays.
EngineLost(e) ==
    /\ e \in ready /\ ready' = ready \ {e}
    /\ UNCHANGED <<engine, live, known, requests>>

\* The adapter keeps its status.
EngineClosesQuietly(e) ==
    /\ e \in live
    /\ live' = live \ {e}
    /\ UNCHANGED <<engine, ready, known, requests>>

\* disconnect and destroy: the client is null, and the entry goes after it,
\* whichever adapter it holds by then.
EngineCloses(e) ==
    /\ e \in live
    /\ live' = live \ {e} /\ ready' = ready \ {e}
    /\ engine' \in {engine, None}
    /\ UNCHANGED <<known, requests>>

EngineDeleted ==
    /\ engine # None
    /\ engine' = None
    /\ UNCHANGED <<live, ready, known, requests>>

SessionDeleted ==
    /\ known
    /\ known' = FALSE
    /\ UNCHANGED <<engine, live, ready, requests>>

\* The process ends: nobody looks at the rows of the requests it had.
Restart ==
    /\ engine' = None /\ live' = {} /\ ready' = {}
    /\ requests' = [r \in Requests |->
            IF requests[r].at \in {"new", "done"} THEN requests[r]
            ELSE [requests[r] EXCEPT !.at = "lost", !.via = None]]
    /\ UNCHANGED known

Writes(r) == Inserted(r) \/ InsertFails(r) \/ Saved(r) \/ SaveFails(r) \/ Marked(r) \/ MarkFails(r)

\* What a request does first, and later.
Begins(r) == Begin(r) \/ MediaRefused(r)

Continues(r) ==
    \/ Asked(r) \/ SessionFound(r) \/ Writes(r) \/ Told(r)
    \/ StepResolves(r) \/ FindsNull(r) \/ Acts(r) \/ ActResolves(r) \/ StepRejects(r)

SessionMoves ==
    \/ \E e \in Engines : EngineReady(e) \/ EngineLost(e) \/ EngineCloses(e)
    \/ \E old \in Engines \cup {None}, e \in Engines : EngineStarts(old, e)
    \/ EngineDeleted \/ SessionDeleted

Next ==
    \/ \E r \in Requests : Begins(r) \/ Continues(r)
    \/ SessionMoves
    \/ Restart

Spec == Init /\ [][Next]_vars

\* The database answers, and so does the client: whatsapp-web.js runs its calls
\* over a protocol with a timeout.  Nothing is assumed of plugins and downloads.
Fairness ==
    \A r \in Requests :
        WF_vars(Writes(r)) /\ WF_vars(ActResolves(r) \/ StepRejects(r))

FairSpec == Spec /\ Fairness

-----------------------------------------------------------------------------
\* Properties

Changing(endpoint) == \E i \in DOMAIN endpoint.method.steps : endpoint.method.steps[i] = "act"

\* A request that is answered with success has had its effect at WhatsApp, and a
\* message it sent is in its row as sent, whatever became of the session between
\* getEngine and the answer.
OkMeansDone ==
    \A r \in Requests : requests[r].answer = "ok" /\ Changing(requests[r].of) =>
        requests[r].acted /\ (requests[r].of.stored => requests[r].row = "sent")

\* No message goes out that has no row yet (the row is saved as pending before
\* the message is sent), so a crash cannot leave a message without a trace.
RowBeforeMessage ==
    \A r \in Requests : requests[r].of.stored /\ requests[r].acted =>
        requests[r].row # "none"

\* A message whose request was answered does not stay pending, unless the
\* database refused a write: there is nobody to settle the row later.
NoLimbo ==
    \A r \in Requests : requests[r].at = "done" /\ requests[r].row = "pending" =>
        requests[r].broken

\* Plugins hear one verdict on a message, message:sent or message:failed, and
\* not before the row says the same.
OneVerdict ==
    \A r \in Requests : \A verdict \in requests[r].told : requests[r].row = verdict

\* What was sent is put on record: the row leaves pending, unless the database
\* refused a write or the process ended.
SendingIsRecorded ==
    \A r \in Requests :
        requests[r].acted /\ requests[r].row = "pending" ~>
            requests[r].row # "pending" \/ requests[r].broken \/ requests[r].at = "lost"

\* message:failed is run for messages that were not sent.
FailedMeansNotSent ==
    \A r \in Requests : "failed" \in requests[r].told => ~requests[r].acted
=============================================================================
