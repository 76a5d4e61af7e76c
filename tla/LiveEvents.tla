----------------------------- MODULE LiveEvents -----------------------------
(***************************************************************************)
(* From an incoming WhatsApp message to the WebSocket clients that hear of *)
(* it: the adapter's 'message' listener, which may await a download and a  *)
(* quoted message, the onMessage callback of SessionService with its hook  *)
(* chain, and EventsGateway, whose clients connect, join and leave rooms   *)
(* and disconnect meanwhile.                                               *)
(***************************************************************************)
EXTENDS Naturals, Sequences, FiniteSets, Functions

CONSTANTS
    Messages,   \* incoming messages of a behaviour
    Sessions,   \* session ids
    Events,     \* the subscribable events
    Clients,    \* WebSocket clients
    Star         \* the wildcard '*'

ASSUME EventAssumption ==
    /\ Star \notin Sessions \cup Events
    /\ "message.received" \in Events /\ "other" \notin Events \cup {Star}

VARIABLES
    handlers,   \* a plugin has a handler for message:received
    messages,   \* where each message is
    arrived,    \* the messages in the order the client emitted them
    clients,    \* the sockets and their rooms
    heard       \* what was emitted to each client, in order

vars == <<handlers, messages, arrived, clients, heard>>

Rooms == (Sessions \cup {Star}) \X (Events \cup {Star})

\* What a client may ask for; "other" stands for a name that is no event.
Names == Events \cup {Star, "other"}

Points == {"none", "media", "quoted", "hooks", "stopped", "emitted"}

TypeOK ==
    /\ handlers \in BOOLEAN
    /\ messages \in [Messages -> [at : Points, session : Sessions, plain : BOOLEAN]]
    /\ arrived \in Seq(Messages)
    /\ clients \in [Clients -> [at : {"off", "validating", "on"}, rooms : SUBSET Rooms]]
    /\ heard \in [Clients -> Seq(Messages)]

Init ==
    /\ handlers \in BOOLEAN
    /\ messages \in [Messages -> [at : {"none"}, session : Sessions, plain : BOOLEAN]]
    /\ arrived = <<>>
    /\ clients = [c \in Clients |-> [at |-> "off", rooms |-> {}]]
    /\ heard = [c \in Clients |-> <<>>]

-----------------------------------------------------------------------------
\* EventsGateway

\* The rooms an event of a session is emitted to, one after the other.
RoomsFor(session, event) ==
    {<<session, event>>, <<session, Star>>, <<Star, event>>, <<Star, Star>>}

\* A client in several of them hears the event once for each.
Copies(c, session, event) == Cardinality(clients[c].rooms \cap RoomsFor(session, event))

EmitToRooms(session, event, m) ==
    heard' = [c \in Clients |->
        heard[c] \o [i \in 1..Copies(c, session, event) |-> m]]

\* A socket connects with a key (without one it is disconnected at once), and
\* its messages are handled from now on, while validateApiKey is awaited.
Connect(c) ==
    /\ clients[c].at = "off"
    /\ clients' = [clients EXCEPT ![c].at = "validating"]
    /\ UNCHANGED <<handlers, messages, arrived, heard>>

Validated(c) ==
    /\ clients[c].at = "validating"
    /\ clients' = [clients EXCEPT ![c].at = "on"]
    /\ UNCHANGED <<handlers, messages, arrived, heard>>

\* The key is refused, or the client goes: socket.io takes it out of its rooms.
Leaves(c) ==
    /\ clients[c].at # "off"
    /\ clients' = [clients EXCEPT ![c] = [at |-> "off", rooms |-> {}]]
    /\ UNCHANGED <<handlers, messages, arrived, heard>>

\* Names that are no events are left out; nothing is joined when none is left,
\* and then an error is the answer.
Subscribe(c, session, asked) ==
    /\ clients[c].at # "off"
    /\ clients' = [clients EXCEPT ![c].rooms = @ \cup ({session} \X (asked \cap (Events \cup {Star})))]
    /\ UNCHANGED <<handlers, messages, arrived, heard>>

\* Every room of the session, or every room: a wildcard room is not one of a
\* session's.
Unsubscribe(c, session) ==
    /\ clients[c].at # "off"
    /\ clients' = [clients EXCEPT ![c].rooms = {room \in @ : session # Star /\ room[1] # session}]
    /\ UNCHANGED <<handlers, messages, arrived, heard>>

-----------------------------------------------------------------------------
\* The way of a message

\* onMessage: the hook chain and, when it is not stopped, webhooks and clients.
\* Without handlers nothing else runs in between.
HandOver(m) ==
    /\ UNCHANGED <<handlers, clients>>
    /\ IF handlers
       THEN /\ messages' = [messages EXCEPT ![m].at = "hooks"]
            /\ UNCHANGED heard
       ELSE /\ messages' = [messages EXCEPT ![m].at = "emitted"]
            /\ EmitToRooms(messages[m].session, "message.received", m)

\* A listener that gives up with the download.
GivesUp(m) ==
    /\ UNCHANGED <<handlers, clients, heard>>
    /\ messages' = [messages EXCEPT ![m].at = "stopped"]

Awaits(m, point) ==
    /\ messages' = [messages EXCEPT ![m].at = point]
    /\ UNCHANGED <<handlers, clients, heard>>

\* A listener that puts the plain messages off.
ArrivesLater(m) ==
    /\ messages[m].at = "none"
    /\ arrived' = Append(arrived, m)
    /\ \/ messages[m].plain /\ Awaits(m, "quoted")
       \/ ~messages[m].plain /\ (Awaits(m, "media") \/ Awaits(m, "quoted"))

\* A message without media and without a quoted one is handed over at once.
Arrives(m) ==
    /\ messages[m].at = "none"
    /\ arrived' = Append(arrived, m)
    /\ \/ messages[m].plain /\ HandOver(m)
       \/ ~messages[m].plain /\ (Awaits(m, "media") \/ Awaits(m, "quoted"))

\* A listener without a catch around the download.
DownloadRequired(m) ==
    /\ messages[m].at = "media"
    /\ Awaits(m, "quoted") \/ HandOver(m) \/ GivesUp(m)
    /\ UNCHANGED arrived

\* downloadMedia resolves or rejects; the message goes on without its media.
Downloaded(m) ==
    /\ messages[m].at = "media"
    /\ Awaits(m, "quoted") \/ HandOver(m)
    /\ UNCHANGED arrived

\* So does getQuotedMessage.
QuoteFound(m) ==
    /\ messages[m].at = "quoted"
    /\ HandOver(m)
    /\ UNCHANGED arrived

\* The chain of message:received ends.
HooksResolve(m) ==
    /\ messages[m].at = "hooks"
    /\ messages' = [messages EXCEPT ![m].at = "emitted"]
    /\ EmitToRooms(messages[m].session, "message.received", m)
    /\ UNCHANGED <<handlers, arrived, clients>>

HooksStop(m) ==
    /\ messages[m].at = "hooks"
    /\ messages' = [messages EXCEPT ![m].at = "stopped"]
    /\ UNCHANGED <<handlers, arrived, clients, heard>>

Next ==
    \/ \E m \in Messages :
        \/ Arrives(m) \/ Downloaded(m) \/ QuoteFound(m)
        \/ HooksResolve(m) \/ HooksStop(m)
    \/ \E c \in Clients :
        \/ Connect(c) \/ Validated(c) \/ Leaves(c)
        \/ \E session \in Sessions \cup {Star} :
            \/ Unsubscribe(c, session)
            \/ \E asked \in SUBSET Names : Subscribe(c, session, asked)

Spec == Init /\ [][Next]_vars

\* The client library answers over a protocol with a timeout.  Nothing is
\* assumed of the plugins' handlers.
FairSpec ==
    /\ Spec
    /\ \A m \in Messages : WF_vars(Downloaded(m)) /\ WF_vars(QuoteFound(m))

-----------------------------------------------------------------------------
\* Properties

Subscribed(c, session) == clients[c].rooms \cap RoomsFor(session, "message.received") # {}

Precedes(seq, a, b) == \E i, j \in DOMAIN seq : i < j /\ seq[i] = a /\ seq[j] = b

\* Without plugins in between, two plain messages are never heard in another
\* order than they arrived in, by any client and whatever its subscriptions;
\* only messages that something is fetched for are overtaken.
PlainInOrder ==
    ~handlers =>
        \A c \in Clients, a, b \in Messages :
            messages[a].plain /\ messages[b].plain /\ Precedes(arrived, a, b) =>
                ~Precedes(heard[c], b, a)

\* A client that is subscribed when a message has arrived hears of it in the
\* end, though its media or its quoted message cannot be fetched, unless it
\* leaves first or a plugin keeps the message.
SubscribersHear ==
    \A c \in Clients, m \in Messages :
        messages[m].at \in {"media", "quoted"} /\ Subscribed(c, messages[m].session) ~>
            \/ m \in Range(heard[c])
            \/ ~Subscribed(c, messages[m].session)
            \/ messages[m].at \in {"hooks", "stopped"} /\ handlers
=============================================================================
