-------------------------- MODULE LiveEventsProofs --------------------------
(***************************************************************************)
(* Theorems about LiveEvents, for any messages, sessions, events and       *)
(* clients: the types, the order in which plain messages are heard, and    *)
(* that all clients hear messages in one order.                            *)
(***************************************************************************)
EXTENDS LiveEvents, SequenceTheorems, FiniteSetTheorems, TLAPS

\* An event that is emitted to a client is added behind what it has heard, once
\* or more or not at all.
LEMMA CopiesFinite ==
    ASSUME NEW c \in Clients, NEW session, NEW event
    PROVE  Copies(c, session, event) \in Nat
  <1> DEFINE all == RoomsFor(session, event)
  <1>1. \A x, y : IsFiniteSet({x, y})
    <2>1. ASSUME NEW x, NEW y PROVE IsFiniteSet({x, y})
      <3>1. IsFiniteSet({} \cup {x}) BY FS_EmptySet, FS_AddElement
      <3>2. IsFiniteSet(({} \cup {x}) \cup {y}) BY <3>1, FS_AddElement
      <3>3. ({} \cup {x}) \cup {y} = {x, y} OBVIOUS
      <3> QED BY <3>2, <3>3
    <2> QED BY <2>1
  <1>2. /\ IsFiniteSet({<<session, event>>, <<session, Star>>})
        /\ IsFiniteSet({<<Star, event>>, <<Star, Star>>})
    BY <1>1
  <1>3. IsFiniteSet(all)
    <2>1. all = {<<session, event>>, <<session, Star>>} \cup {<<Star, event>>, <<Star, Star>>}
      BY DEF RoomsFor
    <2> QED BY <1>2, <2>1, FS_Union
  <1> HIDE DEF all
  <1>4. IsFiniteSet(clients[c].rooms \cap all) BY <1>3, FS_Subset
  <1> QED BY <1>4, FS_CardinalityType DEF Copies, all

\* What is heard when copies of m, which was not heard before, are added to s.
AddsOnly(s, t, m) ==
    /\ t \in Seq(Messages)
    /\ \A i \in 1..Len(t) : t[i] = m \/ \E j \in 1..Len(s) : t[i] = s[j]
    /\ \A a, b : Precedes(t, b, a) => a = m \/ Precedes(s, b, a)

\* No two of the messages heard before change their order.
LEMMA EmitFacts ==
    ASSUME NEW s \in Seq(Messages), NEW k \in Nat, NEW m \in Messages,
           \A i \in 1..Len(s) : s[i] # m, NEW t, t = s \o [i \in 1..k |-> m]
    PROVE  AddsOnly(s, t, m)
  <1> DEFINE d == [i \in 1..k |-> m]
  <1>0. t = s \o d OBVIOUS
  <1>1. d \in Seq(Messages) /\ Len(d) = k /\ \A i \in 1..k : d[i] = m OBVIOUS
  <1>2. Len(s) \in Nat /\ DOMAIN s = 1..Len(s) OBVIOUS
  <1> HIDE DEF d
  <1>3. /\ t \in Seq(Messages) /\ Len(t) = Len(s) + Len(d)
        /\ \A i \in 1..Len(s) + Len(d) : t[i] = IF i <= Len(s) THEN s[i] ELSE d[i - Len(s)]
    BY <1>0, <1>1, ConcatProperties
  <1>4. DOMAIN t = 1..Len(t) BY <1>3
  <1>5. \A i \in 1..Len(t) : i <= Len(s) => t[i] = s[i] BY <1>1, <1>2, <1>3
  <1>6. ASSUME NEW i \in 1..Len(t), ~(i <= Len(s)) PROVE t[i] = m
    <2>1. t[i] = d[i - Len(s)] /\ i - Len(s) \in 1..k BY <1>1, <1>2, <1>3, <1>6
    <2> QED BY <1>1, <2>1
  <1>7. ASSUME NEW a, NEW b, Precedes(t, b, a) PROVE a = m \/ Precedes(s, b, a)
    <2>1. PICK i \in 1..Len(t), j \in 1..Len(t) : i < j /\ t[i] = b /\ t[j] = a
      BY <1>4, <1>7 DEF Precedes
    <2>2. CASE j <= Len(s)
      <3>1. i \in 1..Len(s) /\ j \in 1..Len(s) BY <1>2, <1>3, <2>1, <2>2
      <3>2. s[i] = b /\ s[j] = a BY <1>2, <1>5, <2>1, <3>1
      <3> QED BY <1>2, <2>1, <3>1, <3>2 DEF Precedes
    <2>3. CASE ~(j <= Len(s)) BY <1>6, <2>1, <2>3
    <2> QED BY <2>2, <2>3
  <1>8. ASSUME NEW i \in 1..Len(t) PROVE t[i] = m \/ \E j \in 1..Len(s) : t[i] = s[j]
    <2>1. CASE i <= Len(s) BY <1>2, <1>5, <2>1
    <2>2. CASE ~(i <= Len(s)) BY <1>6, <2>2
    <2> QED BY <2>1, <2>2
  <1> QED BY <1>3, <1>7, <1>8 DEF AddsOnly

\* What has arrived when m, which had not, is added.
LEMMA ArriveFacts ==
    ASSUME NEW s \in Seq(Messages), NEW m \in Messages, \A i \in 1..Len(s) : s[i] # m
    PROVE  LET t == Append(s, m) IN
           /\ t \in Seq(Messages)
           /\ \A i \in 1..Len(t) : t[i] = m \/ \E j \in 1..Len(s) : t[i] = s[j]
           /\ \A a, b : Precedes(t, a, b) => a # m /\ (b = m \/ Precedes(s, a, b))
  <1> DEFINE t == Append(s, m)
  <1>1. /\ t \in Seq(Messages) /\ Len(t) = Len(s) + 1 /\ Len(s) \in Nat
        /\ \A i \in 1..Len(s) : t[i] = s[i]
        /\ t[Len(s) + 1] = m /\ DOMAIN t = 1..Len(t) /\ DOMAIN s = 1..Len(s)
    OBVIOUS
  <1> HIDE DEF t
  <1>2. \A i \in 1..Len(t) : i \in 1..Len(s) \/ i = Len(s) + 1 BY <1>1
  <1>3. ASSUME NEW a, NEW b, Precedes(t, a, b) PROVE a # m /\ (b = m \/ Precedes(s, a, b))
    <2>1. PICK i \in 1..Len(t), j \in 1..Len(t) : i < j /\ t[i] = a /\ t[j] = b
      BY <1>1, <1>3 DEF Precedes
    <2>2. i \in 1..Len(s) BY <1>1, <2>1
    <2>3. a = s[i] /\ a # m BY <1>1, <2>1, <2>2
    <2>4. CASE j = Len(s) + 1 BY <1>1, <2>1, <2>3, <2>4
    <2>5. CASE j \in 1..Len(s)
      <3>1. b = s[j] BY <1>1, <2>1, <2>5
      <3> QED BY <1>1, <2>1, <2>2, <2>3, <2>5, <3>1 DEF Precedes
    <2> QED BY <1>2, <2>3, <2>4, <2>5
  <1>4. ASSUME NEW i \in 1..Len(t) PROVE t[i] = m \/ \E j \in 1..Len(s) : t[i] = s[j]
    BY <1>1, <1>2
  <1> QED BY <1>1, <1>3, <1>4 DEF t

-----------------------------------------------------------------------------
Plain(m) == messages[m].plain
At(m) == messages[m].at

\* Only messages that were emitted are heard, only messages that have begun have
\* arrived, and without plugins a plain message is never in between.
EInv ==
    /\ TypeOK
    /\ \A i \in 1..Len(arrived) : At(arrived[i]) # "none"
    /\ \A c \in Clients : \A i \in 1..Len(heard[c]) : At(heard[c][i]) = "emitted"
    /\ ~handlers => \A m \in Messages : At(m) # "hooks" /\ (Plain(m) => At(m) \in {"none", "emitted"})
    /\ ~handlers => \A c \in Clients, a, b \in Messages :
            Plain(a) /\ Plain(b) /\ Precedes(arrived, a, b) => ~Precedes(heard[c], b, a)

\* Nothing has arrived and nothing was heard at the start.
LEMMA EventsStart == Init => EInv
  <1>1. SUFFICES ASSUME Init PROVE EInv OBVIOUS
  <1>2. TypeOK
    <2>1. messages \in [Messages -> [at : Points, session : Sessions, plain : BOOLEAN]]
      BY <1>1 DEF Init, Points
    <2> QED BY <1>1, <2>1 DEF Init, TypeOK
  <1>3. \A m \in Messages : At(m) = "none" BY <1>1 DEF Init, At
  <1>4. \A a, b : ~Precedes(arrived, a, b)
    <2>1. arrived = <<>> BY <1>1 DEF Init
    <2>2. DOMAIN arrived = {} BY <2>1
    <2> QED BY <2>2 DEF Precedes
  <1>5. \A c \in Clients : Len(heard[c]) = 0 BY <1>1 DEF Init
  <1>6. Len(arrived) = 0 BY <1>1 DEF Init
  <1> QED BY <1>2, <1>3, <1>4, <1>5, <1>6 DEF EInv

\* The way of a message: m, which was not emitted, goes on to another point, has
\* arrived before or arrives now, and is emitted when that is the point it goes to.
LEMMA MessageStep ==
    ASSUME EInv, NEW m \in Messages, NEW point \in Points \ {"none"}, At(m) # "emitted",
           messages' = [messages EXCEPT ![m].at = point],
           UNCHANGED <<handlers, clients>>,
           \/ arrived' = arrived
           \/ arrived' = Append(arrived, m) /\ At(m) = "none",
           \/ heard' = heard /\ (~handlers => ~Plain(m))
           \/ point = "emitted" /\ EmitToRooms(messages[m].session, "message.received", m)
              /\ (~handlers /\ Plain(m) => arrived' = Append(arrived, m) /\ At(m) = "none"),
           ~handlers => point # "hooks"
    PROVE  EInv'
  <1>0. TypeOK BY DEF EInv
  <1>1. /\ At(m)' = point /\ \A n \in Messages \ {m} : At(n)' = At(n)
        /\ messages' \in [Messages -> [at : Points, session : Sessions, plain : BOOLEAN]]
    BY <1>0 DEF TypeOK, At
  <1>2. \A n \in Messages : Plain(n)' <=> Plain(n) BY <1>0 DEF TypeOK, Plain
  <1>3. arrived \in Seq(Messages) /\ \A c \in Clients : heard[c] \in Seq(Messages)
    BY <1>0 DEF TypeOK
  <1>4. \A c \in Clients : \A i \in 1..Len(heard[c]) : heard[c][i] # m BY DEF EInv
  <1>5. ASSUME arrived' = Append(arrived, m), At(m) = "none"
        PROVE  /\ arrived' \in Seq(Messages)
               /\ \A i \in 1..Len(arrived') :
                     arrived'[i] = m \/ \E j \in 1..Len(arrived) : arrived'[i] = arrived[j]
               /\ \A a, b : Precedes(arrived', a, b) => a # m /\ (b = m \/ Precedes(arrived, a, b))
    <2>1. \A i \in 1..Len(arrived) : arrived[i] # m BY <1>5 DEF EInv
    <2> QED BY <1>3, <1>5, <2>1, ArriveFacts
  <1>6. ASSUME EmitToRooms(messages[m].session, "message.received", m), NEW c \in Clients
        PROVE  /\ heard'[c] \in Seq(Messages)
               /\ \A i \in 1..Len(heard'[c]) :
                     heard'[c][i] = m \/ \E j \in 1..Len(heard[c]) : heard'[c][i] = heard[c][j]
               /\ \A a, b : Precedes(heard'[c], b, a) => a = m \/ Precedes(heard[c], b, a)
    <2> DEFINE k == Copies(c, messages[m].session, "message.received")
    <2>1. k \in Nat BY CopiesFinite
    <2>2. heard'[c] = heard[c] \o [i \in 1..k |-> m] BY <1>6 DEF EmitToRooms
    <2> HIDE DEF k
    <2> DEFINE s == heard[c]
               t == heard'[c]
    <2>3. s \in Seq(Messages) /\ \A i \in 1..Len(s) : s[i] # m BY <1>3, <1>4
    <2>5. t = s \o [i \in 1..k |-> m] BY <2>2
    <2> HIDE DEF s, t
    <2>4. AddsOnly(s, t, m)
      BY <2>1, <2>3, <2>5, EmitFacts
    <2> QED BY <2>4 DEF AddsOnly, s, t
  <1>7. TypeOK'
    <2>1. arrived' \in Seq(Messages) BY <1>3, <1>5
    <2>2. heard' \in [Clients -> Seq(Messages)]
      <3>1. CASE heard' = heard BY <1>0, <3>1 DEF TypeOK
      <3>2. CASE EmitToRooms(messages[m].session, "message.received", m)
        <4>1. heard' = [c \in Clients |-> heard'[c]] BY <3>2 DEF EmitToRooms
        <4> QED BY <1>6, <3>2, <4>1
      <3> QED BY <3>1, <3>2
    <2>3. handlers' \in BOOLEAN BY <1>0 DEF TypeOK
    <2>4. clients' \in [Clients -> [at : {"off", "validating", "on"}, rooms : SUBSET Rooms]]
      BY <1>0 DEF TypeOK
    <2> QED BY <1>1, <2>1, <2>2, <2>3, <2>4 DEF TypeOK
  <1>8. \A i \in 1..Len(arrived') : messages'[arrived'[i]].at # "none"
    <2>1. \A i \in 1..Len(arrived') :
              arrived'[i] = m \/ \E j \in 1..Len(arrived) : arrived'[i] = arrived[j]
      BY <1>5
    <2>2. \A j \in 1..Len(arrived) : arrived[j] \in Messages /\ At(arrived[j]) # "none"
      BY <1>3 DEF EInv
    <2>3. \A j \in 1..Len(arrived) : messages'[arrived[j]].at # "none"
      BY <1>1, <2>2 DEF At
    <2>4. messages'[m].at # "none" BY <1>1 DEF At
    <2> QED BY <2>1, <2>3, <2>4
  <1>9. ASSUME NEW c \in Clients, NEW i \in 1..Len(heard'[c])
        PROVE  messages'[heard'[c][i]].at = "emitted"
    <2>1. ASSUME NEW j \in 1..Len(heard[c]) PROVE messages'[heard[c][j]].at = "emitted"
      <3>1. heard[c][j] \in Messages /\ At(heard[c][j]) = "emitted" BY <1>3 DEF EInv
      <3>2. heard[c][j] # m BY <3>1
      <3> QED BY <1>1, <3>1, <3>2 DEF At
    <2>2. CASE heard' = heard BY <2>1, <2>2
    <2>3. CASE point = "emitted" /\ EmitToRooms(messages[m].session, "message.received", m)
      <3>1. heard'[c][i] = m \/ \E j \in 1..Len(heard[c]) : heard'[c][i] = heard[c][j]
        BY <1>6, <2>3
      <3>2. messages'[m].at = "emitted" BY <1>1, <2>3 DEF At
      <3> QED BY <2>1, <3>1, <3>2
    <2> QED BY <2>2, <2>3
  <1>10. ASSUME ~handlers, NEW n \in Messages
         PROVE  At(n)' # "hooks" /\ (Plain(n)' => At(n)' \in {"none", "emitted"})
    <2>1. CASE n # m BY <1>1, <1>2, <1>10, <2>1 DEF EInv
    <2>2. CASE n = m
      <3>1. At(n)' = point /\ point # "hooks" BY <1>1, <1>10, <2>2
      <3>2. Plain(n)' => point = "emitted" BY <1>2, <1>10, <2>2
      <3> QED BY <3>1, <3>2
    <2> QED BY <2>1, <2>2
  <1>11. ASSUME ~handlers, NEW c \in Clients, NEW a \in Messages, NEW b \in Messages,
                Plain(a)', Plain(b)', Precedes(arrived', a, b)
         PROVE  ~Precedes(heard'[c], b, a)
    <2>1. Plain(a) /\ Plain(b) BY <1>2, <1>11
    <2>2. Precedes(arrived, a, b) => ~Precedes(heard[c], b, a) BY <1>11, <2>1 DEF EInv
    <2>3. CASE heard' = heard /\ ~Plain(m)
      <3>1. b # m BY <2>1, <2>3
      <3>2. Precedes(arrived, a, b) BY <1>5, <1>11, <3>1
      <3> QED BY <2>2, <2>3, <3>2
    <2>4. CASE EmitToRooms(messages[m].session, "message.received", m) /\ ~Plain(m)
      <3>1. a # m /\ b # m BY <2>1, <2>4
      <3>2. Precedes(arrived, a, b) BY <1>5, <1>11, <3>1
      <3> QED BY <1>6, <2>2, <2>4, <3>1, <3>2
    <2>5. CASE /\ EmitToRooms(messages[m].session, "message.received", m)
               /\ arrived' = Append(arrived, m) /\ At(m) = "none"
      <3>1. a # m /\ (b = m \/ Precedes(arrived, a, b)) BY <1>5, <1>11, <2>5
      <3>2. SUFFICES ASSUME Precedes(heard'[c], b, a) PROVE FALSE OBVIOUS
      <3>3. Precedes(heard[c], b, a) BY <1>6, <2>5, <3>1, <3>2
      <3>4. b # m
        <4>1. PICK i \in DOMAIN heard[c] : heard[c][i] = b BY <3>3 DEF Precedes
        <4>2. i \in 1..Len(heard[c]) BY <1>3, <4>1
        <4> QED BY <1>4, <4>1, <4>2
      <3> QED BY <2>2, <3>1, <3>3, <3>4
    <2> QED BY <1>11, <2>3, <2>4, <2>5
  <1> QED BY <1>7, <1>8, <1>9, <1>10, <1>11 DEF EInv, At

\* A step of the clients alone keeps the invariant, for it is not about them.
LEMMA ClientStep ==
    ASSUME EInv, UNCHANGED <<handlers, messages, arrived, heard>>,
           clients' \in [Clients -> [at : {"off", "validating", "on"}, rooms : SUBSET Rooms]]
    PROVE  EInv'
  BY DEF EInv, TypeOK, At, Plain

\* Every step keeps the invariant.
LEMMA EventsKept == ASSUME EInv, [Next]_vars PROVE EInv'
  <1>0. /\ TypeOK
        /\ clients \in [Clients -> [at : {"off", "validating", "on"}, rooms : SUBSET Rooms]]
    BY DEF EInv, TypeOK
  <1>p. {"media", "quoted", "hooks", "stopped", "emitted"} \subseteq Points \ {"none"}
    BY DEF Points
  <1>h. ASSUME NEW m \in Messages, HandOver(m), At(m) # "emitted",
               \/ arrived' = arrived /\ At(m) # "none"
               \/ arrived' = Append(arrived, m) /\ At(m) = "none"
        PROVE  EInv'
    <2>1. UNCHANGED <<handlers, clients>> BY <1>h DEF HandOver
    <2>2. CASE handlers
      <3>1. messages' = [messages EXCEPT ![m].at = "hooks"] /\ heard' = heard
        BY <1>h, <2>2 DEF HandOver
      <3> QED BY <1>p, <1>h, <2>1, <2>2, <3>1, MessageStep
    <2>3. CASE ~handlers
      <3>1. /\ messages' = [messages EXCEPT ![m].at = "emitted"]
            /\ EmitToRooms(messages[m].session, "message.received", m)
        BY <1>h, <2>3 DEF HandOver
      <3>2. Plain(m) => At(m) = "none" BY <1>h, <2>3 DEF EInv
      <3> QED BY <1>p, <1>h, <2>1, <2>3, <3>1, <3>2, MessageStep
    <2> QED BY <2>2, <2>3
  <1>a. ASSUME NEW m \in Messages, NEW point \in {"media", "quoted"}, Awaits(m, point),
               At(m) # "emitted",
               arrived' = arrived \/ (arrived' = Append(arrived, m) /\ At(m) = "none"),
               ~handlers => ~Plain(m)
        PROVE  EInv'
    <2>1. /\ messages' = [messages EXCEPT ![m].at = point]
          /\ UNCHANGED <<handlers, clients, heard>>
          /\ point \in Points \ {"none"} /\ point # "hooks"
      BY <1>p, <1>a DEF Awaits
    <2> QED BY <1>a, <2>1, MessageStep
  <1>1. ASSUME NEW m \in Messages, Arrives(m) PROVE EInv'
    <2>1. At(m) = "none" /\ arrived' = Append(arrived, m) BY <1>1 DEF Arrives, At
    <2>2. CASE HandOver(m) BY <1>h, <2>1, <2>2
    <2>3. CASE ~messages[m].plain /\ (Awaits(m, "media") \/ Awaits(m, "quoted"))
      BY <1>a, <2>1, <2>3 DEF Plain
    <2> QED BY <1>1, <2>2, <2>3 DEF Arrives
  <1>q. ASSUME NEW m \in Messages, At(m) \in {"media", "quoted"}
        PROVE  ~handlers => ~Plain(m)
    BY <1>q DEF EInv
  <1>2. ASSUME NEW m \in Messages, Downloaded(m) PROVE EInv'
    <2>1. At(m) = "media" /\ arrived' = arrived BY <1>2 DEF Downloaded, At
    <2>2. CASE HandOver(m) BY <1>h, <2>1, <2>2
    <2>3. CASE Awaits(m, "quoted") BY <1>a, <1>q, <2>1, <2>3
    <2> QED BY <1>2, <2>2, <2>3 DEF Downloaded
  <1>3. ASSUME NEW m \in Messages, QuoteFound(m) PROVE EInv'
    <2>1. At(m) = "quoted" /\ arrived' = arrived /\ HandOver(m) BY <1>3 DEF QuoteFound, At
    <2> QED BY <1>h, <2>1
  <1>4. ASSUME NEW m \in Messages, HooksResolve(m) PROVE EInv'
    <2>1. /\ At(m) = "hooks" /\ messages' = [messages EXCEPT ![m].at = "emitted"]
          /\ EmitToRooms(messages[m].session, "message.received", m)
          /\ UNCHANGED <<handlers, clients>> /\ arrived' = arrived
      BY <1>4 DEF HooksResolve, At
    <2>2. handlers BY <2>1 DEF EInv
    <2> QED BY <1>p, <2>1, <2>2, MessageStep
  <1>5. ASSUME NEW m \in Messages, HooksStop(m) PROVE EInv'
    <2>1. /\ At(m) = "hooks" /\ messages' = [messages EXCEPT ![m].at = "stopped"]
          /\ UNCHANGED <<handlers, clients>> /\ arrived' = arrived /\ heard' = heard
      BY <1>5 DEF HooksStop, At
    <2>2. handlers BY <2>1 DEF EInv
    <2> QED BY <1>p, <2>1, <2>2, MessageStep
  <1>6. ASSUME NEW c \in Clients, Connect(c) \/ Validated(c) \/ Leaves(c) PROVE EInv'
    <2>1. /\ UNCHANGED <<handlers, messages, arrived, heard>>
          /\ clients' \in [Clients -> [at : {"off", "validating", "on"}, rooms : SUBSET Rooms]]
      BY <1>0, <1>6 DEF Connect, Validated, Leaves
    <2> QED BY <2>1, ClientStep
  <1>7. ASSUME NEW c \in Clients, NEW session \in Sessions \cup {Star},
               Unsubscribe(c, session)
        PROVE  EInv'
    <2>1. /\ UNCHANGED <<handlers, messages, arrived, heard>>
          /\ clients' \in [Clients -> [at : {"off", "validating", "on"}, rooms : SUBSET Rooms]]
      BY <1>0, <1>7 DEF Unsubscribe
    <2> QED BY <2>1, ClientStep
  <1>8. ASSUME NEW c \in Clients, NEW session \in Sessions \cup {Star},
               NEW asked \in SUBSET Names, Subscribe(c, session, asked)
        PROVE  EInv'
    <2>1. {session} \X (asked \cap (Events \cup {Star})) \subseteq Rooms BY DEF Rooms
    <2>2. /\ UNCHANGED <<handlers, messages, arrived, heard>>
          /\ clients' \in [Clients -> [at : {"off", "validating", "on"}, rooms : SUBSET Rooms]]
      BY <1>0, <1>8, <2>1 DEF Subscribe
    <2> QED BY <2>2, ClientStep
  <1>9. ASSUME UNCHANGED vars PROVE EInv'
    BY <1>0, <1>9, ClientStep DEF vars
  <1> QED BY <1>1, <1>2, <1>3, <1>4, <1>5, <1>6, <1>7, <1>8, <1>9 DEF Next

\* The invariant holds of every state.
LEMMA EventsAlways == Spec => []EInv
  <1> QED BY EventsStart, EventsKept, PTL DEF Spec

\* Messages, sockets and what was emitted keep their types.
THEOREM EventTypes == Spec => []TypeOK
  <1>1. EInv => TypeOK BY DEF EInv
  <1> QED BY <1>1, EventsAlways, PTL

\* No client hears two plain messages in another order than they arrived in.
THEOREM PlainMessagesInOrder == Spec => []PlainInOrder
  <1>1. EInv => PlainInOrder BY DEF EInv, PlainInOrder, Plain
  <1> QED BY <1>1, EventsAlways, PTL
-----------------------------------------------------------------------------
\* The order of the clients

\* All clients hear messages in one order, though the messages come from several
\* sessions and overtake each other at downloads and hooks, and though clients
\* join and leave rooms in between; in particular the copies that a client in
\* several rooms hears of a message come in a row.
OneOrder ==
    \A c, d \in Clients, a, b \in Messages :
        a # b /\ Precedes(heard[c], a, b) => ~Precedes(heard[d], b, a)

\* What a step adds to what the clients have heard is one message that none of
\* them has heard of.
LEMMA HeardStep ==
    ASSUME EInv, [Next]_vars
    PROVE  \/ heard' = heard
           \/ \E m \in Messages :
                 /\ At(m) # "emitted"
                 /\ EmitToRooms(messages[m].session, "message.received", m)
  <1>h. ASSUME NEW m \in Messages, HandOver(m)
        PROVE  heard' = heard \/ EmitToRooms(messages[m].session, "message.received", m)
    BY <1>h DEF HandOver
  <1>1. ASSUME NEW m \in Messages,
               Arrives(m) \/ Downloaded(m) \/ QuoteFound(m) \/ HooksResolve(m) \/ HooksStop(m)
        PROVE  /\ At(m) # "emitted"
               /\ heard' = heard \/ EmitToRooms(messages[m].session, "message.received", m)
    BY <1>h, <1>1 DEF Arrives, Downloaded, QuoteFound, HooksResolve, HooksStop, Awaits, At
  <1>2. ASSUME NEW c \in Clients,
               \/ Connect(c) \/ Validated(c) \/ Leaves(c)
               \/ \E session \in Sessions \cup {Star} :
                     \/ Unsubscribe(c, session)
                     \/ \E asked \in SUBSET Names : Subscribe(c, session, asked)
        PROVE  heard' = heard
    BY <1>2 DEF Connect, Validated, Leaves, Unsubscribe, Subscribe
  <1> QED BY <1>1, <1>2 DEF Next, vars

\* A message that is emitted comes behind everything, for every client.
LEMMA OneOrderKept ==
    ASSUME EInv, OneOrder, [Next]_vars
    PROVE  OneOrder'
  <1>1. CASE heard' = heard BY <1>1 DEF OneOrder
  <1>2. ASSUME NEW m \in Messages, At(m) # "emitted",
               EmitToRooms(messages[m].session, "message.received", m)
        PROVE  OneOrder'
    <2>1. ASSUME NEW c \in Clients
          PROVE  /\ \A a, b : Precedes(heard'[c], a, b) => b = m \/ Precedes(heard[c], a, b)
                 /\ \A b : ~Precedes(heard[c], m, b)
      <3> DEFINE k == Copies(c, messages[m].session, "message.received")
                 s == heard[c]
                 t == heard'[c]
      <3>1. k \in Nat BY CopiesFinite
      <3>2. t = s \o [i \in 1..k |-> m] BY <1>2 DEF EmitToRooms
      <3>3. s \in Seq(Messages) BY DEF EInv, TypeOK
      <3>4. \A i \in 1..Len(s) : s[i] # m BY <1>2 DEF EInv
      <3> HIDE DEF k, s, t
      <3>5. AddsOnly(s, t, m) BY <3>1, <3>2, <3>3, <3>4, EmitFacts
      <3>6. \A b : ~Precedes(s, m, b) BY <3>3, <3>4 DEF Precedes
      <3> QED BY <3>5, <3>6 DEF AddsOnly, s, t
    <2>2. SUFFICES ASSUME NEW c \in Clients, NEW d \in Clients, NEW a \in Messages,
                          NEW b \in Messages, a # b, Precedes(heard'[c], a, b),
                          Precedes(heard'[d], b, a)
                   PROVE  FALSE
      BY DEF OneOrder
    <2>3. b = m \/ Precedes(heard[c], a, b) BY <2>1, <2>2
    <2>4. a = m \/ Precedes(heard[d], b, a) BY <2>1, <2>2
    <2>5. CASE b = m BY <2>1, <2>2, <2>4, <2>5
    <2>6. CASE a = m BY <2>1, <2>2, <2>3, <2>6
    <2>7. CASE Precedes(heard[c], a, b) /\ Precedes(heard[d], b, a)
      BY <2>2, <2>7 DEF OneOrder
    <2> QED BY <2>3, <2>4, <2>5, <2>6, <2>7
  <1> QED BY <1>1, <1>2, HeardStep

\* All clients hear the messages in one order.
THEOREM ClientsAgreeOnOrder == Spec => []OneOrder
  <1>1. ASSUME Init PROVE OneOrder
    <2>1. \A c \in Clients : heard[c] = <<>> BY <1>1 DEF Init
    <2>2. \A a, b : ~Precedes(<<>>, a, b)
      <3>1. DOMAIN <<>> = {} OBVIOUS
      <3> QED BY <3>1 DEF Precedes
    <2> QED BY <2>1, <2>2 DEF OneOrder
  <1>2. EInv /\ OneOrder /\ [Next]_vars => OneOrder' BY OneOrderKept
  <1> QED BY <1>1, <1>2, EventsAlways, PTL DEF Spec
=============================================================================
