------------------------ MODULE GuardedRequestsProofs ------------------------
(***************************************************************************)
(* Theorems about EngineRequests, ApiKeys and their composition, for any   *)
(* number of requests, engines, calls, origins and uses.                   *)
(***************************************************************************)
EXTENDS GuardedRequests, TLAPS

-----------------------------------------------------------------------------
\* The endpoints

\* A method changes something at WhatsApp with its last step only, and does not
\* catch what goes wrong with it.
MethodOK(m) ==
    /\ Len(m.steps) \in 0..3
    /\ DOMAIN m.steps = 1..Len(m.steps)
    /\ \A i \in 1..Len(m.steps) : m.steps[i] = "act" => i = Len(m.steps) /\ ~m.caught

Ends(m) == Len(m.steps) > 0 /\ m.steps[Len(m.steps)] = "act"

\* A message is stored by the endpoints whose method ends with the sending.
EndpointOK(e) ==
    /\ MethodOK(e.method)
    /\ e.absent \in {"error", "bad request", "not found"}
    /\ e.empty \in {"ok", "error"}
    /\ e.stored => Ends(e.method)

\* The methods that end with a change.
ActMethods ==
    {Throws(<<"act">>), Throws(<<"prepare", "act">>), Throws(<<"read", "act">>),
     Throws(<<"read", "read", "act">>)}

\* The methods that act have an act among their steps.
LEMMA ActsOK == ASSUME NEW m \in ActMethods PROVE MethodOK(m) /\ Ends(m)
  <1>1. CASE m = Throws(<<"act">>)
    <2>1. m.steps = <<"act">> /\ m.caught = FALSE BY <1>1 DEF Throws
    <2>2. m.caught = FALSE BY <2>1
    <2>3. Len(m.steps) = 1 /\ m.steps[1] = "act" BY <2>1
    <2>4. DOMAIN m.steps = 1..1 BY <2>1
    <2> QED BY <2>2, <2>3, <2>4 DEF MethodOK, Ends
  <1>2. CASE m = Throws(<<"prepare", "act">>)
    <2>1. m.steps = <<"prepare", "act">> /\ m.caught = FALSE BY <1>2 DEF Throws
    <2>2. m.caught = FALSE BY <2>1
    <2>3. Len(m.steps) = 2 /\ m.steps[1] = "prepare" /\ m.steps[2] = "act" BY <2>1
    <2>4. DOMAIN m.steps = 1..2 BY <2>1
    <2> QED BY <2>2, <2>3, <2>4 DEF MethodOK, Ends
  <1>3. CASE m = Throws(<<"read", "act">>)
    <2>1. m.steps = <<"read", "act">> /\ m.caught = FALSE BY <1>3 DEF Throws
    <2>2. m.caught = FALSE BY <2>1
    <2>3. Len(m.steps) = 2 /\ m.steps[1] = "read" /\ m.steps[2] = "act" BY <2>1
    <2>4. DOMAIN m.steps = 1..2 BY <2>1
    <2> QED BY <2>2, <2>3, <2>4 DEF MethodOK, Ends
  <1>4. CASE m = Throws(<<"read", "read", "act">>)
    <2>1. m.steps = <<"read", "read", "act">> /\ m.caught = FALSE BY <1>4 DEF Throws
    <2>2. m.caught = FALSE BY <2>1
    <2>3. Len(m.steps) = 3 /\ m.steps[1] = "read" /\ m.steps[2] = "read" /\ m.steps[3] = "act" BY <2>1
    <2>4. DOMAIN m.steps = 1..3 BY <2>1
    <2> QED BY <2>2, <2>3, <2>4 DEF MethodOK, Ends
  <1> QED BY <1>1, <1>2, <1>3, <1>4 DEF ActMethods

\* The methods that change nothing.
ReadMethods ==
    {Throws(<<>>), Throws(<<"stub">>), Throws(<<"read">>), Throws(<<"read", "read">>),
     Throws(<<"read", "read", "read">>), Catches(<<"read">>), Catches(<<"read", "read">>)}

\* The methods that read have only steps of reading.
LEMMA ReadsOK == ASSUME NEW m \in ReadMethods PROVE MethodOK(m)
  <1>1. CASE m = Throws(<<>>)
    <2>1. m.steps = <<>> /\ m.caught = FALSE BY <1>1 DEF Throws
    <2>2. m.caught = FALSE BY <2>1
    <2>3. Len(m.steps) = 0 BY <2>1
    <2>4. DOMAIN m.steps = 1..0 BY <2>1
    <2> QED BY <2>2, <2>3, <2>4 DEF MethodOK
  <1>2. CASE m = Throws(<<"stub">>)
    <2>1. m.steps = <<"stub">> /\ m.caught = FALSE BY <1>2 DEF Throws
    <2>2. m.caught = FALSE BY <2>1
    <2>3. Len(m.steps) = 1 /\ m.steps[1] = "stub" BY <2>1
    <2>4. DOMAIN m.steps = 1..1 BY <2>1
    <2> QED BY <2>2, <2>3, <2>4 DEF MethodOK
  <1>3. CASE m = Throws(<<"read">>)
    <2>1. m.steps = <<"read">> /\ m.caught = FALSE BY <1>3 DEF Throws
    <2>2. m.caught = FALSE BY <2>1
    <2>3. Len(m.steps) = 1 /\ m.steps[1] = "read" BY <2>1
    <2>4. DOMAIN m.steps = 1..1 BY <2>1
    <2> QED BY <2>2, <2>3, <2>4 DEF MethodOK
  <1>4. CASE m = Throws(<<"read", "read">>)
    <2>1. m.steps = <<"read", "read">> /\ m.caught = FALSE BY <1>4 DEF Throws
    <2>2. m.caught = FALSE BY <2>1
    <2>3. Len(m.steps) = 2 /\ m.steps[1] = "read" /\ m.steps[2] = "read" BY <2>1
    <2>4. DOMAIN m.steps = 1..2 BY <2>1
    <2> QED BY <2>2, <2>3, <2>4 DEF MethodOK
  <1>5. CASE m = Throws(<<"read", "read", "read">>)
    <2>1. m.steps = <<"read", "read", "read">> /\ m.caught = FALSE BY <1>5 DEF Throws
    <2>2. m.caught = FALSE BY <2>1
    <2>3. Len(m.steps) = 3 /\ m.steps[1] = "read" /\ m.steps[2] = "read" /\ m.steps[3] = "read" BY <2>1
    <2>4. DOMAIN m.steps = 1..3 BY <2>1
    <2> QED BY <2>2, <2>3, <2>4 DEF MethodOK
  <1>6. CASE m = Catches(<<"read">>)
    <2>1. m.steps = <<"read">> /\ m.caught = TRUE BY <1>6 DEF Catches
    <2>2. m.caught = TRUE BY <2>1
    <2>3. Len(m.steps) = 1 /\ m.steps[1] = "read" BY <2>1
    <2>4. DOMAIN m.steps = 1..1 BY <2>1
    <2> QED BY <2>2, <2>3, <2>4 DEF MethodOK
  <1>7. CASE m = Catches(<<"read", "read">>)
    <2>1. m.steps = <<"read", "read">> /\ m.caught = TRUE BY <1>7 DEF Catches
    <2>2. m.caught = TRUE BY <2>1
    <2>3. Len(m.steps) = 2 /\ m.steps[1] = "read" /\ m.steps[2] = "read" BY <2>1
    <2>4. DOMAIN m.steps = 1..2 BY <2>1
    <2> QED BY <2>2, <2>3, <2>4 DEF MethodOK
  <1> QED BY <1>1, <1>2, <1>3, <1>4, <1>5, <1>6, <1>7 DEF ReadMethods

Sending(m) == m \in SendMethods \cup StickerMethods \cup {LocationMethod, CardMethod, QuoteMethod}

\* The sending methods.
LEMMA SendersOK == ASSUME NEW m, Sending(m) PROVE MethodOK(m) /\ Ends(m)
  BY ActsOK DEF ActMethods, Sending, SendMethods, StickerMethods, LocationMethod, CardMethod, QuoteMethod

\* The endpoints that store what they send.
LEMMA SendsOK == ASSUME NEW e \in MessageSends PROVE EndpointOK(e)
  <1>1. PICK m : /\ Sending(m)
                 /\ \/ e = Stored(m) \/ e = Checked(m)
                    \/ e = [Stored(m) EXCEPT !.hooked = TRUE]
    BY DEF MessageSends, SendText, LocationSend, ContactSend, MediaSends, StickerSends,
           QuotingSends, Sending
  <1>2. MethodOK(m) /\ Ends(m) BY <1>1, SendersOK
  <1>3. /\ e.method = m /\ e.stored = TRUE
        /\ e.absent = "bad request" /\ e.empty = "ok"
    BY <1>1 DEF Stored, Checked, Message, Endpoint
  <1> QED BY <1>2, <1>3 DEF EndpointOK

Others ==
    StatusMethods \cup CatalogMethods \cup ChannelMethods \cup LabelMethods
        \cup InviteMethods \cup GroupChanges \cup ReactionMethods
        \cup {ReactMethod, DeleteMethod, ListMethod, ContactMethod, ContactChange,
              GroupMethod, LabelMethod, ChannelMethod}

\* The other methods.
LEMMA OthersOK == ASSUME NEW m \in Others PROVE MethodOK(m)
  BY ActsOK, ReadsOK DEF ActMethods, ReadMethods, Others, StatusMethods, CatalogMethods, ChannelMethods, LabelMethods,
     InviteMethods, GroupChanges, ReactionMethods, ReactMethod, DeleteMethod, ListMethod,
     ContactMethod, ContactChange, GroupMethod, LabelMethod, ChannelMethod

\* Every endpoint.
LEMMA EndpointsOK == ASSUME NEW e \in Endpoints PROVE EndpointOK(e)
  <1>1. CASE e \in MessageSends BY <1>1, SendsOK
  <1>2. CASE e \notin MessageSends
    <2>1. PICK m \in Others : e \in {Message(m), Endpoint(m), Single(m), NotFoundWithout(m)}
      <3>1. CASE e \in MessageCalls
        BY <3>1 DEF MessageCalls, Reactions, Deletion, Others
      <3>2. CASE e \in Contacts \cup GroupReads \cup GroupActs
        BY <3>2 DEF Contacts, GroupReads, GroupActs, Others
      <3>3. CASE e \in Labels \cup Channels
        BY <3>3 DEF Labels, Channels, Others
      <3>4. CASE e \in Statuses \cup Catalog
        BY <3>4 DEF Statuses, Catalog, Others
      <3> QED BY <1>2, <3>1, <3>2, <3>3, <3>4 DEF Endpoints
    <2>2. MethodOK(m) BY OthersOK
    <2>3. /\ e.method = m /\ e.stored = FALSE
          /\ e.absent \in {"error", "bad request", "not found"}
          /\ e.empty \in {"ok", "error"}
      <3>1. CASE e = Message(m) BY <3>1 DEF Message, Endpoint
      <3>2. CASE e = Endpoint(m) BY <3>2 DEF Endpoint
      <3>3. CASE e = Single(m) BY <3>3 DEF Single, Endpoint
      <3>4. CASE e = NotFoundWithout(m) BY <3>4 DEF NotFoundWithout, Endpoint
      <3> QED BY <2>1, <3>1, <3>2, <3>3, <3>4
    <2> QED BY <2>2, <2>3 DEF EndpointOK
  <1> QED BY <1>1, <1>2

-----------------------------------------------------------------------------
\* One request

Answers == {"none", "ok", "bad request", "not found", "error"}

Requested ==
    [of : Endpoints, at : Points, via : Engines \cup {None}, step : 0..3,
     row : Rows, acted : BOOLEAN, told : SUBSET {"sent", "failed"},
     broken : BOOLEAN, answer : Answers]

\* Before the method is called.
Early == {"new", "asking", "finding", "inserting"}

\* Where it is in the method, and what WhatsApp has done by then.
Placed(q) ==
    /\ q.step <= Len(q.of.method.steps)
    /\ q.at \in Early => q.step = 0 /\ ~q.acted
    /\ q.at = "calling" => q.step > 0 /\ q.of.method.steps[q.step] # "act" /\ ~q.acted
    /\ q.at = "acting" => q.step > 0 /\ q.of.method.steps[q.step] = "act"
    /\ q.at \in {"saving", "telling"} => q.acted

\* What its row says.
Rowed(q) ==
    /\ q.at \in {"finding", "inserting", "saving", "telling", "marking", "reporting"} =>
          q.of.stored
    /\ q.at \in Early \/ ~q.of.stored => q.row = "none"
    /\ q.of.stored /\ q.at \in {"calling", "acting", "saving"} => q.row = "pending"
    /\ q.at = "marking" => q.row \in {"pending", "sent"}
    /\ q.at = "telling" => q.row = "sent"
    /\ q.at = "reporting" => q.row = "failed"
    /\ q.of.stored /\ q.acted => q.row # "none"
    /\ q.at = "done" /\ q.row = "pending" => q.broken

\* What plugins and the client have been told.
Heard(q) ==
    /\ q.at \notin {"telling", "reporting", "done", "lost"} => q.told = {}
    /\ \A verdict \in q.told : q.row = verdict
    /\ q.at # "done" => q.answer = "none"
    /\ q.answer = "ok" /\ Changing(q.of) => q.acted /\ (q.of.stored => q.row = "sent")

Good(q) == q \in Requested /\ Placed(q) /\ Rowed(q) /\ Heard(q)

\* A request is answered.
LEMMA AnswerGood ==
    ASSUME NEW q \in Requested, NEW a \in Answers,
           q.step <= Len(q.of.method.steps),
           ~q.of.stored => q.row = "none",
           q.of.stored /\ q.acted => q.row # "none",
           q.row = "pending" => q.broken,
           \A verdict \in q.told : q.row = verdict,
           a = "ok" /\ Changing(q.of) => q.acted /\ (q.of.stored => q.row = "sent")
    PROVE  Good(Answer(q, a))
  <1> DEFINE p == Answer(q, a)
  <1>1. /\ p \in Requested /\ p.at = "done" /\ p.answer = a
        /\ p.of = q.of /\ p.step = q.step /\ p.row = q.row /\ p.acted = q.acted
        /\ p.told = q.told /\ p.broken = q.broken
    BY DEF Answer, Requested, Points, Answers
  <1> HIDE DEF p
  <1>2. Placed(p) BY <1>1 DEF Placed, Early
  <1>3. Rowed(p) BY <1>1 DEF Rowed, Early
  <1>4. Heard(p) BY <1>1 DEF Heard
  <1>5. Good(p) BY <1>1, <1>2, <1>3, <1>4 DEF Good
  <1> QED BY <1>5 DEF p

\* What the method of an endpoint never is.
LEMMA MethodFacts ==
    ASSUME NEW q \in Requested
    PROVE  /\ Len(q.of.method.steps) \in 0..3
           /\ DOMAIN q.of.method.steps = 1..Len(q.of.method.steps)
           /\ \A i \in 1..Len(q.of.method.steps) : q.of.method.steps[i] = "act" =>
                 i = Len(q.of.method.steps) /\ ~q.of.method.caught
           /\ q.of.stored => Len(q.of.method.steps) > 0
                  /\ q.of.method.steps[Len(q.of.method.steps)] = "act"
           /\ q.of.absent \in {"error", "bad request", "not found"}
           /\ q.of.empty \in {"ok", "error"}
  <1>1. EndpointOK(q.of) BY EndpointsOK DEF Requested
  <1> QED BY <1>1 DEF EndpointOK, MethodOK, Ends

\* The method goes on, with everything done that it was to do so far.
LEMMA ProceedGood ==
    ASSUME NEW q \in Requested,
           q.step <= Len(q.of.method.steps),
           q.step > 0 /\ q.of.method.steps[q.step] = "act" => q.acted,
           ~(q.step > 0 /\ q.of.method.steps[q.step] = "act") => ~q.acted,
           q.told = {}, q.answer = "none",
           q.of.stored => q.row = "pending", ~q.of.stored => q.row = "none"
    PROVE  Good(Proceed(q))
  <1> DEFINE steps == q.of.method.steps
  <1>0. /\ Len(steps) \in 0..3 /\ DOMAIN steps = 1..Len(steps)
        /\ \A i \in 1..Len(steps) : steps[i] = "act" => i = Len(steps)
        /\ q.of.stored => Len(steps) > 0 /\ steps[Len(steps)] = "act"
    BY MethodFacts
  <1>s. q.step \in 0..3 BY DEF Requested
  <1>1. CASE q.step = Len(steps) /\ q.of.stored
    <2> DEFINE p == [q EXCEPT !.at = "saving"]
    <2>1. /\ p \in Requested /\ p.at = "saving" /\ p.answer = q.answer
          /\ p.of = q.of /\ p.step = q.step /\ p.row = q.row /\ p.acted = q.acted
          /\ p.told = q.told /\ p.broken = q.broken
      BY DEF Requested, Points
    <2> HIDE DEF p
    <2>a. q.acted BY <1>0, <1>1
    <2>2. Placed(p) BY <2>1, <2>a DEF Placed, Early
    <2>3. Rowed(p) BY <2>1, <1>1 DEF Rowed, Early
    <2>4. Heard(p) BY <2>1 DEF Heard
    <2>5. Proceed(q) = p BY <1>1 DEF Proceed, Resolved, p
    <2> QED BY <2>1, <2>2, <2>3, <2>4, <2>5 DEF Good
  <1>2. CASE q.step = Len(steps) /\ ~q.of.stored
    <2>1. Changing(q.of) => q.acted
      <3>1. SUFFICES ASSUME NEW i \in 1..Len(steps), steps[i] = "act" PROVE q.acted
        BY <1>0 DEF Changing
      <3> QED BY <3>1, <1>0, <1>2, <1>s
    <2>2. Good(Answer(q, "ok")) BY <2>1, <1>2, AnswerGood DEF Answers
    <2>3. Proceed(q) = Answer(q, "ok") BY <1>2 DEF Proceed, Resolved
    <2> QED BY <2>2, <2>3
  <1>3. CASE q.step # Len(steps)
    <2> DEFINE to == IF steps[q.step + 1] = "act" THEN "acting" ELSE "calling"
               p == [q EXCEPT !.step = @ + 1, !.at = to]
    <2>0. q.step + 1 \in 1..Len(steps) BY <1>0, <1>3, <1>s
    <2>t. to \in {"acting", "calling"} OBVIOUS
    <2>8. to = "acting" => steps[q.step + 1] = "act" OBVIOUS
    <2>9. to = "calling" => steps[q.step + 1] # "act" OBVIOUS
    <2>5. Proceed(q) = p BY <1>3 DEF Proceed
    <2> HIDE DEF to
    <2>a. q.step + 1 \in 0..3 BY <2>0, <1>0
    <2>b. to \in Points BY <2>t DEF Points
    <2>1. /\ p \in Requested /\ p.at = to /\ p.answer = q.answer
          /\ p.of = q.of /\ p.step = q.step + 1 /\ p.row = q.row /\ p.acted = q.acted
          /\ p.told = q.told /\ p.broken = q.broken
      BY <2>a, <2>b DEF Requested
    <2>6. p.at = "acting" => steps[p.step] = "act" BY <2>1, <2>8
    <2>7. p.at = "calling" => steps[p.step] # "act" BY <2>1, <2>9
    <2>d. ~q.acted
      <3>1. ~(q.step > 0 /\ steps[q.step] = "act") BY <1>0, <1>3, <1>s
      <3> QED BY <3>1
    <2> HIDE DEF p
    <2>2. Placed(p) BY <2>0, <2>1, <2>t, <2>d, <2>6, <2>7, <1>0, <1>s DEF Placed, Early
    <2>3. Rowed(p) BY <2>1, <2>t, <2>d DEF Rowed, Early
    <2>4. Heard(p) BY <2>1, <2>t DEF Heard
    <2> QED BY <2>1, <2>2, <2>3, <2>4, <2>5 DEF Good
  <1> QED BY <1>1, <1>2, <1>3

\* The method, or the save after it, has failed.
LEMMA RejectedGood ==
    ASSUME NEW q \in Requested,
           q.step <= Len(q.of.method.steps),
           q.told = {}, q.answer = "none",
           q.of.stored => q.row \in {"pending", "sent"}, ~q.of.stored => q.row = "none"
    PROVE  Good(Rejected(q))
  <1>1. CASE q.of.stored
    <2> DEFINE p == [q EXCEPT !.at = "marking"]
    <2>1. /\ p \in Requested /\ p.at = "marking" /\ p.answer = q.answer
          /\ p.of = q.of /\ p.step = q.step /\ p.row = q.row /\ p.acted = q.acted
          /\ p.told = q.told /\ p.broken = q.broken
      BY DEF Requested, Points
    <2> HIDE DEF p
    <2>2. Placed(p) BY <2>1 DEF Placed, Early
    <2>3. Rowed(p) BY <2>1, <1>1 DEF Rowed, Early
    <2>4. Heard(p) BY <2>1 DEF Heard
    <2>5. Rejected(q) = p BY <1>1, Zenon DEF Rejected, p
    <2> QED BY <2>1, <2>2, <2>3, <2>4, <2>5 DEF Good
  <1>2. CASE ~q.of.stored /\ q.of.method.caught
    <2>1. ~Changing(q.of) BY <1>2, MethodFacts DEF Changing
    <2>2. q.of.empty \in Answers BY MethodFacts DEF Answers
    <2>3. Good(Answer(q, q.of.empty)) BY <2>1, <2>2, <1>2, AnswerGood
    <2>4. Rejected(q) = Answer(q, q.of.empty) BY <1>2 DEF Rejected
    <2> QED BY <2>3, <2>4
  <1>3. CASE ~q.of.stored /\ ~q.of.method.caught
    <2>1. Good(Answer(q, "error")) BY <1>3, AnswerGood DEF Answers
    <2>2. Rejected(q) = Answer(q, "error") BY <1>3 DEF Rejected
    <2> QED BY <2>1, <2>2
  <1> QED BY <1>1, <1>2, <1>3

\* The method is called.
LEMMA CalledGood ==
    ASSUME NEW q \in Requested,
           q.step = 0, ~q.acted, q.told = {}, q.answer = "none",
           q.of.stored => q.row = "pending", ~q.of.stored => q.row = "none"
    PROVE  Good(Called(q))
  <1>a. Len(q.of.method.steps) \in 0..3 BY MethodFacts
  <1>0. 0 <= Len(q.of.method.steps) BY <1>a
  <1>1. CASE q.via \in ready
    <2>1. Good(Proceed(q)) BY <1>0, ProceedGood
    <2> QED BY <1>1, <2>1 DEF Called
  <1>2. CASE q.via \notin ready /\ q.of.stored
    <2>1. Good(Rejected(q)) BY <1>0, <1>2, RejectedGood
    <2> QED BY <1>2, <2>1 DEF Called
  <1>3. CASE q.via \notin ready /\ ~q.of.stored
    <2>1. Good(Answer(q, "error")) BY <1>0, <1>3, AnswerGood DEF Answers
    <2> QED BY <1>3, <2>1 DEF Called
  <1> QED BY <1>1, <1>2, <1>3

\* getEngine, and what follows it.
LEMMA EnteredGood ==
    ASSUME engine \in Engines \cup {None}, NEW q \in Requested,
           q.step = 0, ~q.acted, q.told = {}, q.answer = "none", q.row = "none"
    PROVE  Good(Entered(q))
  <1>a. Len(q.of.method.steps) \in 0..3 BY MethodFacts
  <1>0. 0 <= Len(q.of.method.steps) BY <1>a
  <1>1. CASE engine = None
    <2>1. q.of.absent \in Answers /\ q.of.absent # "ok" BY MethodFacts DEF Answers
    <2>2. Good(Answer(q, q.of.absent)) BY <1>0, <2>1, AnswerGood
    <2> QED BY <1>1, <2>2 DEF Entered
  <1>2. CASE engine # None /\ q.of.stored
    <2> DEFINE p == [q EXCEPT !.at = "finding", !.via = engine]
    <2>1. /\ p \in Requested /\ p.at = "finding" /\ p.answer = q.answer
          /\ p.of = q.of /\ p.step = q.step /\ p.row = q.row /\ p.acted = q.acted
          /\ p.told = q.told /\ p.broken = q.broken
      BY DEF Requested, Points
    <2> HIDE DEF p
    <2>2. Placed(p) BY <1>0, <2>1 DEF Placed, Early
    <2>3. Rowed(p) BY <2>1, <1>2 DEF Rowed, Early
    <2>4. Heard(p) BY <2>1 DEF Heard
    <2>5. Entered(q) = p BY <1>2 DEF Entered, p
    <2> QED BY <2>1, <2>2, <2>3, <2>4, <2>5 DEF Good
  <1>3. CASE engine # None /\ ~q.of.stored
    <2> DEFINE p == [q EXCEPT !.via = engine]
    <2>1. /\ p \in Requested /\ p.answer = q.answer
          /\ p.of = q.of /\ p.step = q.step /\ p.row = q.row /\ p.acted = q.acted
          /\ p.told = q.told
      BY DEF Requested
    <2>2. Entered(q) = Called(p) BY <1>3 DEF Entered
    <2> HIDE DEF p
    <2>3. Good(Called(p)) BY <2>1, <1>3, CalledGood
    <2> QED BY <2>2, <2>3
  <1> QED BY <1>1, <1>2, <1>3

-----------------------------------------------------------------------------
\* The requests and the session

RInv ==
    /\ engine \in Engines \cup {None}
    /\ ready \subseteq live /\ live \subseteq Engines
    /\ known \in BOOLEAN
    /\ requests \in [Requests -> Requested]
    /\ \A r \in Requests : Good(requests[r])

\* A step that changes one request.
LEMMA BecomesGood ==
    ASSUME RInv, NEW r \in Requests, NEW q, Good(q), Becomes(r, q)
    PROVE  RInv'
  <1>1. q \in Requested BY DEF Good
  <1>2. /\ requests' = [requests EXCEPT ![r] = q]
        /\ engine' = engine /\ live' = live /\ ready' = ready /\ known' = known
    BY DEF Becomes
  <1>3. requests' \in [Requests -> Requested] BY <1>1, <1>2 DEF RInv
  <1>4. ASSUME NEW s \in Requests PROVE Good(requests[s]')
    <2>1. CASE s = r
      <3>1. requests[s]' = q BY <1>2, <2>1 DEF RInv
      <3> QED BY <3>1
    <2>2. CASE s # r
      <3>1. requests[s]' = requests[s] BY <1>2, <2>2 DEF RInv
      <3> QED BY <3>1 DEF RInv
    <2> QED BY <2>1, <2>2
  <1> QED BY <1>2, <1>3, <1>4 DEF RInv

\* A step of the session changes no request.
LEMMA SessionGood == ASSUME RInv, SessionMoves PROVE RInv'
  <1>1. requests' = requests
    BY DEF SessionMoves, EngineStarts, EngineReady, EngineLost, EngineCloses, EngineDeleted,
           SessionDeleted
  <1>2. /\ engine' \in Engines \cup {None} /\ ready' \subseteq live' /\ live' \subseteq Engines
        /\ known' \in BOOLEAN
    BY DEF RInv, SessionMoves, EngineStarts, EngineReady, EngineLost, EngineCloses,
           EngineDeleted, SessionDeleted
  <1> QED BY <1>1, <1>2 DEF RInv

\* The process restarts: what was under way is lost.
LEMMA RestartGood == ASSUME RInv, Restart PROVE RInv'
  <1>1. engine' = None /\ live' = {} /\ ready' = {} /\ known' = known BY DEF Restart
  <1>2. ASSUME NEW r \in Requests PROVE Good(requests[r]')
    <2>0. Good(requests[r]) /\ requests[r] \in Requested BY DEF RInv
    <2>1. CASE requests[r].at \in {"new", "done"}
      <3>1. requests[r]' = requests[r] BY <2>1 DEF Restart
      <3> QED BY <2>0, <3>1
    <2>2. CASE requests[r].at \notin {"new", "done"}
      <3> DEFINE q == requests[r]
                 p == [q EXCEPT !.at = "lost", !.via = None]
      <3>1. /\ p \in Requested /\ p.at = "lost" /\ p.answer = q.answer
            /\ p.of = q.of /\ p.step = q.step /\ p.row = q.row /\ p.acted = q.acted
            /\ p.told = q.told /\ p.broken = q.broken
        BY <2>0 DEF Requested, Points
      <3>2. requests[r]' = p BY <2>2 DEF Restart
      <3>3. q \in Requested /\ Placed(q) /\ Rowed(q) /\ Heard(q) BY <2>0 DEF Good
      <3>n. q.at \notin {"new", "done"} BY <2>2
      <3> HIDE DEF p, q
      <3>4. Placed(p) BY <3>1, <3>3 DEF Placed, Early
      <3>5. Rowed(p) BY <3>1, <3>3 DEF Rowed, Early
      <3>6. Heard(p) BY <3>1, <3>3, <3>n DEF Heard
      <3> QED BY <3>1, <3>2, <3>4, <3>5, <3>6 DEF Good
    <2> QED BY <2>1, <2>2
  <1>3. requests' \in [Requests -> Requested]
    <2>1. requests' = [r \in Requests |-> requests'[r]] BY DEF Restart
    <2>2. \A r \in Requests : requests'[r] \in Requested BY <1>2 DEF Good
    <2> QED BY <2>1, <2>2
  <1> QED BY <1>1, <1>2, <1>3 DEF RInv

\* A request whose handler is about to be called.
LEMMA FreshGood ==
    ASSUME NEW e \in Endpoints
    PROVE  /\ Good(Fresh(e)) /\ Fresh(e) \in Requested
           /\ Fresh(e).of = e /\ Fresh(e).at = "new" /\ Fresh(e).step = 0
           /\ Fresh(e).row = "none" /\ ~Fresh(e).acted /\ Fresh(e).told = {}
           /\ Fresh(e).answer = "none"
  <1> DEFINE p == Fresh(e)
  <1>1. /\ p \in Requested /\ p.at = "new" /\ p.answer = "none"
        /\ p.of = e /\ p.step = 0 /\ p.row = "none" /\ ~p.acted /\ p.told = {}
    BY DEF Fresh, Requested, Points, Rows, Answers
  <1> HIDE DEF p
  <1>2. Len(p.of.method.steps) \in 0..3 BY <1>1, MethodFacts
  <1>3. Placed(p) BY <1>1, <1>2 DEF Placed, Early
  <1>4. Rowed(p) BY <1>1 DEF Rowed, Early
  <1>5. Heard(p) BY <1>1 DEF Heard
  <1>6. Good(p) BY <1>1, <1>3, <1>4, <1>5 DEF Good
  <1> QED BY <1>1, <1>6 DEF p

\* The first steps of a request.
LEMMA BeginsGood == ASSUME RInv, NEW r \in Requests, Begins(r) PROVE RInv'
  <1>e. engine \in Engines \cup {None} BY DEF RInv
  <1>1. ASSUME NEW e \in Endpoints, e.hooked, Becomes(r, [Fresh(e) EXCEPT !.at = "asking"])
        PROVE  RInv'
    <2> DEFINE q == Fresh(e)
               p == [q EXCEPT !.at = "asking"]
    <2>0. /\ q \in Requested /\ q.of = e /\ q.step = 0 /\ q.row = "none" /\ ~q.acted
          /\ q.told = {} /\ q.answer = "none" /\ Placed(q)
      BY <1>1, FreshGood DEF Good
    <2> HIDE DEF q
    <2>1. /\ p \in Requested /\ p.at = "asking" /\ p.answer = q.answer
          /\ p.of = q.of /\ p.step = q.step /\ p.row = q.row /\ p.acted = q.acted
          /\ p.told = q.told /\ p.broken = q.broken
      BY <2>0 DEF Requested, Points
    <2>2. Becomes(r, p) BY <1>1 DEF q
    <2>h. q.of.hooked BY <1>1, <2>0
    <2> HIDE DEF p
    <2>3. Placed(p) BY <2>0, <2>h, <2>1 DEF Placed, Early
    <2>4. Rowed(p) BY <2>0, <2>1 DEF Rowed, Early
    <2>5. Heard(p) BY <2>0, <2>1 DEF Heard
    <2>6. Good(p) BY <2>1, <2>3, <2>4, <2>5 DEF Good
    <2> QED BY <2>2, <2>6, BecomesGood
  <1>2. ASSUME NEW e \in Endpoints, ~e.hooked, Becomes(r, Entered(Fresh(e))) PROVE RInv'
    <2>1. Good(Entered(Fresh(e))) BY <1>e, <1>2, FreshGood, EnteredGood
    <2> QED BY <1>2, <2>1, BecomesGood
  <1>3. ASSUME NEW e \in Endpoints, Becomes(r, Answer(Fresh(e), "bad request")) PROVE RInv'
    <2>1. Good(Fresh(e)) /\ Fresh(e).row = "none" /\ Fresh(e).told = {} /\ ~Fresh(e).acted
      BY <1>3, FreshGood
    <2>2. Fresh(e).step <= Len(Fresh(e).of.method.steps) BY <2>1 DEF Good, Placed
    <2>3. Good(Answer(Fresh(e), "bad request"))
      BY <1>3, FreshGood, <2>1, <2>2, AnswerGood DEF Answers
    <2> QED BY <1>3, <2>3, BecomesGood
  <1> QED BY <1>1, <1>2, <1>3 DEF Begins, Begin, MediaRefused

\* Its hook and the search for its session.
LEMMA AskedGood == ASSUME RInv, NEW r \in Requests, Asked(r) \/ SessionFound(r) PROVE RInv'
  <1> DEFINE q == requests[r]
  <1>0. Good(q) /\ q \in Requested /\ Placed(q) /\ Rowed(q) /\ Heard(q)
        /\ engine \in Engines \cup {None}
    BY DEF RInv, Good
  <1>a. q.at \in {"asking", "finding"} BY DEF Asked, SessionFound
  <1>b. q.step = 0 /\ ~q.acted /\ q.told = {} /\ q.answer = "none" /\ q.row = "none"
        /\ q.step <= Len(q.of.method.steps)
    BY <1>0, <1>a DEF Placed, Rowed, Heard, Early
  <1>1. CASE Becomes(r, Entered(q))
    <2>2. Good(Entered(q)) BY <1>0, <1>b, EnteredGood
    <2> QED BY <1>1, <2>2, BecomesGood
  <1>2. CASE \E a \in {"bad request", "not found", "error"} : Becomes(r, Answer(q, a))
    <2>1. PICK a \in {"bad request", "not found", "error"} : Becomes(r, Answer(q, a)) BY <1>2
    <2>2. Good(Answer(q, a)) BY <1>0, <1>b, AnswerGood DEF Answers
    <2> QED BY <2>1, <2>2, BecomesGood
  <1>3. CASE q.at = "finding" /\ Becomes(r, [q EXCEPT !.at = "inserting"])
    <2> DEFINE p == [q EXCEPT !.at = "inserting"]
    <2>1. /\ p \in Requested /\ p.at = "inserting" /\ p.answer = q.answer
          /\ p.of = q.of /\ p.step = q.step /\ p.row = q.row /\ p.acted = q.acted
          /\ p.told = q.told /\ p.broken = q.broken
      BY <1>0 DEF Requested, Points
    <2>2. Becomes(r, p) BY <1>3
    <2>b. q.at = "finding" BY <1>3
    <2> HIDE DEF p, q
    <2>3. Placed(p) BY <1>0, <1>b, <2>1 DEF Placed, Early
    <2>4. Rowed(p) BY <1>0, <1>b, <2>b, <2>1 DEF Rowed, Early
    <2>5. Heard(p) BY <1>0, <1>b, <2>1 DEF Heard
    <2>6. Good(p) BY <2>1, <2>3, <2>4, <2>5 DEF Good
    <2> QED BY <2>2, <2>6, BecomesGood
  <1>4. CASE Asked(r) BY <1>4, <1>1, <1>2 DEF Asked
  <1>5. CASE SessionFound(r) BY <1>5, <1>2, <1>3 DEF SessionFound
  <1> QED BY <1>4, <1>5

\* The row is inserted, or is not.
LEMMA InsertedGood == ASSUME RInv, NEW r \in Requests, Inserted(r) \/ InsertFails(r) PROVE RInv'
  <1> DEFINE q == requests[r]
  <1>0. Good(q) /\ q \in Requested /\ Placed(q) /\ Rowed(q) /\ Heard(q)
    BY DEF RInv, Good
  <1>a. q.at = "inserting" BY DEF Inserted, InsertFails
  <1>b. q.step = 0 /\ ~q.acted /\ q.told = {} /\ q.answer = "none" /\ q.row = "none"
        /\ q.step <= Len(q.of.method.steps) /\ q.of.stored
    BY <1>0, <1>a DEF Placed, Rowed, Heard, Early
  <1>1. CASE Inserted(r)
    <2> DEFINE p == [q EXCEPT !.row = "pending"]
    <2>1. /\ p \in Requested /\ p.answer = q.answer
          /\ p.of = q.of /\ p.step = q.step /\ p.row = "pending" /\ p.acted = q.acted
          /\ p.told = q.told
      BY <1>0 DEF Requested, Rows
    <2>2. Becomes(r, Called(p)) BY <1>1 DEF Inserted
    <2> HIDE DEF p, q
    <2>3. Good(Called(p)) BY <1>b, <2>1, CalledGood
    <2> QED BY <2>2, <2>3, BecomesGood
  <1>2. CASE InsertFails(r)
    <2>1. PICK left \in {q.row, "pending"} :
            Becomes(r, Answer([q EXCEPT !.row = left, !.broken = TRUE], "error"))
      BY <1>2 DEF InsertFails, Broken
    <2> DEFINE p == [q EXCEPT !.row = left, !.broken = TRUE]
    <2>l. left \in Rows /\ left # "sent" /\ left # "failed" BY <1>b DEF Rows
    <2>2. /\ p \in Requested /\ p.answer = q.answer
          /\ p.of = q.of /\ p.step = q.step /\ p.row = left /\ p.acted = q.acted
          /\ p.told = q.told /\ p.broken
      BY <1>0, <2>l DEF Requested
    <2>3. Becomes(r, Answer(p, "error")) BY <2>1
    <2> HIDE DEF p, q
    <2>4. Good(Answer(p, "error")) BY <1>b, <2>2, AnswerGood DEF Answers
    <2> QED BY <2>3, <2>4, BecomesGood
  <1> QED BY <1>1, <1>2

\* A step of the method.
LEMMA MethodGood ==
    ASSUME RInv, NEW r \in Requests,
           StepResolves(r) \/ FindsNull(r) \/ Acts(r) \/ ActResolves(r) \/ StepRejects(r)
    PROVE  RInv'
  <1> DEFINE q == requests[r]
  <1>0. Good(q) /\ q \in Requested /\ Placed(q) /\ Rowed(q) /\ Heard(q)
    BY DEF RInv, Good
  <1>a. q.at \in {"calling", "acting"}
    BY DEF StepResolves, FindsNull, Acts, ActResolves, StepRejects
  <1>b. /\ q.told = {} /\ q.answer = "none" /\ q.step <= Len(q.of.method.steps) /\ q.step > 0
        /\ q.of.stored => q.row = "pending"
        /\ ~q.of.stored => q.row = "none"
        /\ q.at = "calling" => q.of.method.steps[q.step] # "act" /\ ~q.acted
        /\ q.at = "acting" => q.of.method.steps[q.step] = "act"
    BY <1>0, <1>a DEF Placed, Rowed, Heard
  <1>1. CASE StepResolves(r)
    <2>1. q.at = "calling" /\ Becomes(r, Proceed(q)) BY <1>1 DEF StepResolves
    <2>2. Good(Proceed(q)) BY <1>0, <1>b, <2>1, ProceedGood
    <2> QED BY <2>1, <2>2, BecomesGood
  <1>2. CASE FindsNull(r)
    <2>1. /\ q.at = "calling" /\ q.step = Len(q.of.method.steps) /\ ~q.of.stored
          /\ Becomes(r, Answer(q, q.of.empty))
      BY <1>2 DEF FindsNull
    <2>2. /\ Len(q.of.method.steps) \in 0..3
          /\ DOMAIN q.of.method.steps = 1..Len(q.of.method.steps)
          /\ \A i \in 1..Len(q.of.method.steps) : q.of.method.steps[i] = "act" =>
                i = Len(q.of.method.steps)
          /\ q.of.empty \in {"ok", "error"}
      BY <1>0, MethodFacts
    <2>3. ~Changing(q.of) BY <1>b, <2>1, <2>2 DEF Changing
    <2>4. q.of.empty \in Answers BY <2>2 DEF Answers
    <2>5. Good(Answer(q, q.of.empty)) BY <1>0, <1>b, <2>1, <2>3, <2>4, AnswerGood
    <2> QED BY <2>1, <2>5, BecomesGood
  <1>3. CASE Acts(r)
    <2> DEFINE p == [q EXCEPT !.acted = TRUE]
    <2>1. /\ p \in Requested /\ p.at = q.at /\ p.answer = q.answer
          /\ p.of = q.of /\ p.step = q.step /\ p.row = q.row /\ p.acted = TRUE
          /\ p.told = q.told /\ p.broken = q.broken
      BY <1>0 DEF Requested
    <2>2. q.at = "acting" /\ Becomes(r, p) BY <1>3 DEF Acts
    <2> HIDE DEF p, q
    <2>3. Placed(p) BY <1>0, <1>b, <2>1, <2>2 DEF Placed, Early
    <2>4. Rowed(p) BY <1>0, <1>b, <2>1, <2>2 DEF Rowed, Early
    <2>5. Heard(p) BY <1>0, <1>b, <2>1 DEF Heard
    <2>6. Good(p) BY <2>1, <2>3, <2>4, <2>5 DEF Good
    <2> QED BY <2>2, <2>6, BecomesGood
  <1>4. CASE ActResolves(r)
    <2>1. q.at = "acting" /\ q.acted /\ Becomes(r, Proceed(q)) BY <1>4 DEF ActResolves
    <2>2. Good(Proceed(q)) BY <1>0, <1>b, <2>1, ProceedGood
    <2> QED BY <2>1, <2>2, BecomesGood
  <1>5. CASE StepRejects(r)
    <2>1. Becomes(r, Rejected(q)) BY <1>5 DEF StepRejects
    <2>2. Good(Rejected(q)) BY <1>0, <1>b, RejectedGood
    <2> QED BY <2>1, <2>2, BecomesGood
  <1> QED BY <1>1, <1>2, <1>3, <1>4, <1>5

\* The save of a message that was sent.
LEMMA SavedGood == ASSUME RInv, NEW r \in Requests, Saved(r) \/ SaveFails(r) PROVE RInv'
  <1> DEFINE q == requests[r]
  <1>0. Good(q) /\ q \in Requested /\ Placed(q) /\ Rowed(q) /\ Heard(q)
    BY DEF RInv, Good
  <1>a. q.at = "saving" BY DEF Saved, SaveFails
  <1>b. /\ q.told = {} /\ q.answer = "none" /\ q.step <= Len(q.of.method.steps)
        /\ q.of.stored /\ q.row = "pending" /\ q.acted
    BY <1>0, <1>a DEF Placed, Rowed, Heard
  <1>1. CASE Saved(r) /\ q.of.hooked
    <2> DEFINE p == [q EXCEPT !.row = "sent", !.at = "telling", !.told = @ \cup {"sent"}]
    <2>1. /\ p \in Requested /\ p.at = "telling" /\ p.answer = q.answer
          /\ p.of = q.of /\ p.step = q.step /\ p.row = "sent" /\ p.acted = q.acted
          /\ p.told = q.told \cup {"sent"} /\ p.broken = q.broken
      BY <1>0, <1>b DEF Requested, Points, Rows
    <2>2. Becomes(r, p) BY <1>1, <1>0 DEF Saved, Requested
    <2> HIDE DEF p, q
    <2>3. Placed(p) BY <1>0, <1>b, <2>1 DEF Placed, Early
    <2>4. Rowed(p) BY <1>0, <1>b, <2>1 DEF Rowed, Early
    <2>5. Heard(p) BY <1>0, <1>b, <2>1 DEF Heard
    <2>6. Good(p) BY <2>1, <2>3, <2>4, <2>5 DEF Good
    <2> QED BY <2>2, <2>6, BecomesGood
  <1>2. CASE Saved(r) /\ ~q.of.hooked
    <2> DEFINE p == [q EXCEPT !.row = "sent"]
    <2>1. /\ p \in Requested
          /\ p.of = q.of /\ p.step = q.step /\ p.row = "sent" /\ p.acted = q.acted
          /\ p.told = q.told
      BY <1>0 DEF Requested, Rows
    <2>2. Becomes(r, Answer(p, "ok")) BY <1>2, <1>0 DEF Saved, Requested
    <2> HIDE DEF p, q
    <2>3. Good(Answer(p, "ok")) BY <1>b, <2>1, AnswerGood DEF Answers
    <2> QED BY <2>2, <2>3, BecomesGood
  <1>3. CASE SaveFails(r)
    <2>1. PICK left \in {q.row, "sent"} :
            Becomes(r, Rejected([q EXCEPT !.row = left, !.broken = TRUE]))
      BY <1>3 DEF SaveFails, Broken
    <2> DEFINE p == [q EXCEPT !.row = left, !.broken = TRUE]
    <2>l. left \in {"pending", "sent"} BY <1>b
    <2>2. /\ p \in Requested /\ p.answer = q.answer
          /\ p.of = q.of /\ p.step = q.step /\ p.row = left /\ p.told = q.told
      BY <1>0, <2>l DEF Requested, Rows
    <2>3. Becomes(r, Rejected(p)) BY <2>1
    <2> HIDE DEF p, q
    <2>4. Good(Rejected(p)) BY <1>b, <2>l, <2>2, RejectedGood
    <2> QED BY <2>3, <2>4, BecomesGood
  <1> QED BY <1>1, <1>2, <1>3

\* The marking of a message that was not, and the end of the hooks.
LEMMA MarkedGood ==
    ASSUME RInv, NEW r \in Requests, Marked(r) \/ MarkFails(r) \/ Told(r)
    PROVE  RInv'
  <1> DEFINE q == requests[r]
  <1>0. Good(q) /\ q \in Requested /\ Placed(q) /\ Rowed(q) /\ Heard(q)
    BY DEF RInv, Good
  <1>b. q.step <= Len(q.of.method.steps) BY <1>0 DEF Placed
  <1>1. CASE Marked(r) /\ q.of.hooked
    <2> DEFINE p == [q EXCEPT !.row = "failed", !.at = "reporting", !.told = @ \cup {"failed"}]
    <2>1. /\ p \in Requested /\ p.at = "reporting" /\ p.answer = q.answer
          /\ p.of = q.of /\ p.step = q.step /\ p.row = "failed" /\ p.acted = q.acted
          /\ p.told = q.told \cup {"failed"} /\ p.broken = q.broken
      BY <1>0 DEF Requested, Points, Rows
    <2>2. q.at = "marking" /\ Becomes(r, p) BY <1>1, <1>0 DEF Marked, Requested
    <2> HIDE DEF p, q
    <2>3. Placed(p) BY <1>0, <2>1 DEF Placed, Early
    <2>4. Rowed(p) BY <1>0, <2>1, <2>2 DEF Rowed, Early
    <2>5. Heard(p) BY <1>0, <2>1, <2>2 DEF Heard
    <2>6. Good(p) BY <2>1, <2>3, <2>4, <2>5 DEF Good
    <2> QED BY <2>2, <2>6, BecomesGood
  <1>2. CASE Marked(r) /\ ~q.of.hooked
    <2> DEFINE p == [q EXCEPT !.row = "failed"]
    <2>1. /\ p \in Requested
          /\ p.of = q.of /\ p.step = q.step /\ p.row = "failed" /\ p.acted = q.acted
          /\ p.told = q.told
      BY <1>0 DEF Requested, Rows
    <2>2. q.at = "marking" /\ Becomes(r, Answer(p, "error")) BY <1>2, <1>0 DEF Marked, Requested
    <2> HIDE DEF p, q
    <2>a. q.told = {} /\ q.of.stored BY <1>0, <2>2 DEF Heard, Rowed
    <2>3. Good(Answer(p, "error")) BY <1>b, <2>1, <2>a, AnswerGood DEF Answers
    <2> QED BY <2>2, <2>3, BecomesGood
  <1>3. CASE MarkFails(r)
    <2>1. PICK left \in {q.row, "failed"} :
            Becomes(r, Answer([q EXCEPT !.row = left, !.broken = TRUE], "error"))
      BY <1>3 DEF MarkFails, Broken
    <2> DEFINE p == [q EXCEPT !.row = left, !.broken = TRUE]
    <2>a. q.at = "marking" BY <1>3 DEF MarkFails
    <2>l. left \in {"pending", "sent", "failed"} /\ q.told = {} /\ q.of.stored
      BY <1>0, <2>a DEF Rowed, Heard
    <2>2. /\ p \in Requested
          /\ p.of = q.of /\ p.step = q.step /\ p.row = left /\ p.acted = q.acted
          /\ p.told = q.told /\ p.broken
      BY <1>0, <2>l DEF Requested, Rows
    <2>3. Becomes(r, Answer(p, "error")) BY <2>1
    <2> HIDE DEF p, q
    <2>4. Good(Answer(p, "error")) BY <1>b, <2>l, <2>2, AnswerGood DEF Answers
    <2> QED BY <2>3, <2>4, BecomesGood
  <1>4. CASE Told(r)
    <2>1. \/ q.at = "telling" /\ Becomes(r, Answer(q, "ok"))
          \/ q.at = "reporting" /\ Becomes(r, Answer(q, "error"))
      BY <1>4 DEF Told
    <2>2. /\ ~q.of.stored => q.row = "none"
          /\ q.of.stored /\ q.acted => q.row # "none"
          /\ \A verdict \in q.told : q.row = verdict
      BY <1>0 DEF Rowed, Heard
    <2>3. CASE q.at = "telling" /\ Becomes(r, Answer(q, "ok"))
      <3>1. q.row = "sent" /\ q.acted BY <1>0, <2>3 DEF Placed, Rowed
      <3>2. Good(Answer(q, "ok")) BY <1>0, <1>b, <2>2, <3>1, AnswerGood DEF Answers
      <3> QED BY <2>3, <3>2, BecomesGood
    <2>4. CASE q.at = "reporting" /\ Becomes(r, Answer(q, "error"))
      <3>1. q.row = "failed" BY <1>0, <2>4 DEF Rowed
      <3>2. Good(Answer(q, "error")) BY <1>0, <1>b, <2>2, <3>1, AnswerGood DEF Answers
      <3> QED BY <2>4, <3>2, BecomesGood
    <2> QED BY <2>1, <2>3, <2>4
  <1> QED BY <1>1, <1>2, <1>3, <1>4

\* A request that goes on keeps the invariant.
LEMMA ContinuesGood == ASSUME RInv, NEW r \in Requests, Continues(r) PROVE RInv'
  BY AskedGood, InsertedGood, MethodGood, SavedGood, MarkedGood DEF Continues, Writes

\* The invariant of EngineRequests holds at first, and every step keeps it.
LEMMA RequestsStart == Init => RInv
  <1> SUFFICES ASSUME Init PROVE RInv OBVIOUS
  <1>1. Good(Fresh(SendText)) /\ Fresh(SendText) \in Requested
    <2>1. SendText \in Endpoints BY DEF Endpoints, MessageSends
    <2> QED BY <2>1, FreshGood
  <1>2. \A r \in Requests : Good(requests[r]) BY <1>1 DEF Init
  <1>3. requests \in [Requests -> Requested] BY <1>1 DEF Init, Good
  <1> QED BY <1>2, <1>3 DEF Init, RInv

\* Every step of the requests keeps their invariant.
LEMMA RequestsKept == RInv /\ [Next]_vars => RInv'
  <1> SUFFICES ASSUME RInv, [Next]_vars PROVE RInv' OBVIOUS
  <1>1. CASE Next BY <1>1, BeginsGood, ContinuesGood, SessionGood, RestartGood DEF Next
  <1>2. CASE UNCHANGED vars BY <1>2 DEF vars, RInv
  <1> QED BY <1>1, <1>2

\* What it says of the properties.
LEMMA RequestsSafe ==
    ASSUME RInv
    PROVE  TypeOK /\ OkMeansDone /\ RowBeforeMessage /\ NoLimbo /\ OneVerdict
  <1>1. TypeOK BY DEF RInv, TypeOK, Requested, Answers
  <1>2. OkMeansDone BY DEF RInv, OkMeansDone, Good, Heard
  <1>3. RowBeforeMessage BY DEF RInv, RowBeforeMessage, Good, Rowed
  <1>4. NoLimbo BY DEF RInv, NoLimbo, Good, Rowed
  <1>5. OneVerdict BY DEF RInv, OneVerdict, Good, Heard
  <1> QED BY <1>1, <1>2, <1>3, <1>4, <1>5

\* The invariant of the requests holds of every state.
LEMMA RequestsAlways == Spec => []RInv
  BY RequestsStart, RequestsKept, PTL DEF Spec

-----------------------------------------------------------------------------
\* The key and its calls

KeyCallType ==
    [at : KeyPoints, kind : {"use", "update", "revoke", "delete"},
     origin : Origins, entity : KeyRows, seen : KeyRows, open : BOOLEAN, shut : BOOLEAN]

\* A call has an entity in hand while it saves it, and no longer; the guard's
\* says what the call will be answered; an answer was justified.
Justified(k) ==
    /\ k.at \in {"saving", "writing"} => k.entity \in Keys
    /\ k.at \notin {"saving", "writing"} => k.entity = NoRow
    /\ k.at \in {"saving", "writing"} /\ k.kind = "use" =>
          (k.origin \in k.entity.may => k.open) /\ (k.origin \notin k.entity.may => k.shut)
    /\ k.at = "admitted" => k.open
    /\ k.at = "refused" => k.shut

\* A call under way has seen what the row says now.
Watched(k, row) ==
    k.at \in Running =>
        (Admits(row, k.origin) => k.open) /\ (~Admits(row, k.origin) => k.shut)

KInv ==
    /\ KeysTypeOK
    /\ CountNotAhead
    /\ \A c \in KeyCalls : Justified(keyCalls[c]) /\ Watched(keyCalls[c], keyRow)

\* A row with what a call observes of it.
LEMMA ObservedCall ==
    ASSUME NEW k \in KeyCallType, NEW row \in KeyRows, Justified(k),
           NEW p, p = IF k.at \in Running
                      THEN [k EXCEPT !.open = @ \/ Admits(row, k.origin),
                                     !.shut = @ \/ ~Admits(row, k.origin)]
                      ELSE k
    PROVE  /\ p \in KeyCallType /\ Justified(p) /\ Watched(p, row)
           /\ p.entity = k.entity
  <1>1. CASE k.at \in Running
    <2> DEFINE a == Admits(row, k.origin)
    <2>0. a \in BOOLEAN BY DEF Admits, Passes
    <2>a. (k.open \/ a) \in BOOLEAN /\ (k.shut \/ ~a) \in BOOLEAN OBVIOUS
    <2>b. (k.open => (k.open \/ a)) /\ (k.shut => (k.shut \/ ~a)) OBVIOUS
    <2>c. (a => (k.open \/ a)) /\ (~a => (k.shut \/ ~a)) OBVIOUS
    <2> DEFINE op == k.open \/ a
               sh == k.shut \/ ~a
    <2>1. p = [k EXCEPT !.open = op, !.shut = sh] BY <1>1
    <2>d. op \in BOOLEAN /\ sh \in BOOLEAN BY <2>a
    <2>e. (k.open => op) /\ (k.shut => sh) BY <2>b
    <2>f. (a => op) /\ (~a => sh) BY <2>c
    <2> HIDE DEF op, sh
    <2>2. /\ p \in KeyCallType /\ p.at = k.at /\ p.kind = k.kind /\ p.origin = k.origin
          /\ p.entity = k.entity /\ p.open = op /\ p.shut = sh
      BY <2>1, <2>d DEF KeyCallType
    <2>3. Justified(p) BY <2>2, <2>e DEF Justified
    <2>4. Watched(p, row) BY <2>2, <2>f DEF Watched
    <2> QED BY <2>2, <2>3, <2>4
  <1>2. CASE k.at \notin Running BY <1>2 DEF Watched
  <1> QED BY <1>1, <1>2

\* A step of one call that leaves a proper record and row.
LEMMA KeyStepKeeps ==
    ASSUME KInv, NEW c \in KeyCalls, NEW k \in KeyCallType, NEW row \in KeyRows,
           KeyStep(c, k, row), Justified(k),
           uses' \in 0..MaxUses, uses <= uses',
           row # NoRow => row.count <= uses',
           k.entity # NoRow => k.entity.count <= uses'
    PROVE  KInv'
  <1> DEFINE calls == [keyCalls EXCEPT ![c] = k]
  <1>0. keyCalls \in [KeyCalls -> KeyCallType] /\ uses \in 0..MaxUses
    BY DEF KInv, KeysTypeOK, KeyCallType
  <1>1. keyRow' = row /\ keyCalls' = Observed(calls, row) BY DEF KeyStep
  <1>2. ASSUME NEW d \in KeyCalls
        PROVE  calls[d] \in KeyCallType /\ Justified(calls[d])
               /\ (calls[d].entity # NoRow => calls[d].entity.count <= uses')
    <2>1. CASE d = c BY <2>1, <1>0
    <2>2. CASE d # c
      <3>1. calls[d] = keyCalls[d] BY <2>2, <1>0
      <3>2. keyCalls[d] \in KeyCallType /\ Justified(keyCalls[d]) BY <1>0 DEF KInv
      <3>3. keyCalls[d].entity # NoRow => keyCalls[d].entity.count <= uses
        BY DEF KInv, CountNotAhead
      <3>4. keyCalls[d].entity # NoRow =>
                keyCalls[d].entity \in Keys /\ keyCalls[d].entity.count \in Nat
        BY <3>2, KeyAssumption DEF KeyCallType, KeyRows, Keys
      <3>5. uses \in Nat /\ uses' \in Nat BY <1>0, KeyAssumption
      <3>6. keyCalls[d].entity # NoRow => keyCalls[d].entity.count <= uses'
        BY <3>3, <3>4, <3>5
      <3> QED BY <3>1, <3>2, <3>6
    <2> QED BY <2>1, <2>2
  <1> HIDE DEF calls
  <1>3. ASSUME NEW d \in KeyCalls
        PROVE  /\ keyCalls'[d] \in KeyCallType
               /\ Justified(keyCalls'[d]) /\ Watched(keyCalls'[d], row)
               /\ keyCalls'[d].entity = calls[d].entity
    <2> DEFINE p == keyCalls'[d]
    <2>1. p = IF calls[d].at \in Running
              THEN [calls[d] EXCEPT !.open = @ \/ Admits(row, calls[d].origin),
                                    !.shut = @ \/ ~Admits(row, calls[d].origin)]
              ELSE calls[d]
      BY <1>1 DEF Observed
    <2> HIDE DEF p
    <2>2. /\ p \in KeyCallType /\ Justified(p) /\ Watched(p, row)
          /\ p.entity = calls[d].entity
      BY <1>2, <2>1, ObservedCall
    <2> QED BY <2>2 DEF p
  <1>4. keyCalls' \in [KeyCalls -> KeyCallType]
    <2>1. keyCalls' = [d \in KeyCalls |-> keyCalls'[d]] BY <1>1 DEF Observed
    <2> QED BY <2>1, <1>3
  <1>5. KeysTypeOK' BY <1>1, <1>4 DEF KeysTypeOK, KeyCallType
  <1>6. CountNotAhead' BY <1>1, <1>2, <1>3 DEF CountNotAhead
  <1> QED BY <1>1, <1>3, <1>5, <1>6 DEF KInv

\* What the invariant says of one call.
LEMMA KeyFacts ==
    ASSUME KInv, NEW c \in KeyCalls
    PROVE  /\ keyCalls[c] \in KeyCallType /\ keyCalls \in [KeyCalls -> KeyCallType]
           /\ Justified(keyCalls[c]) /\ Watched(keyCalls[c], keyRow)
           /\ keyRow \in KeyRows /\ uses \in 0..MaxUses /\ uses \in Nat
           /\ keyRow # NoRow => keyRow \in Keys /\ keyRow.count <= uses
           /\ keyCalls[c].entity # NoRow => keyCalls[c].entity.count <= uses
  <1>1. keyCalls \in [KeyCalls -> KeyCallType] /\ keyRow \in KeyRows /\ uses \in 0..MaxUses
    BY DEF KInv, KeysTypeOK, KeyCallType
  <1>2. uses \in Nat BY <1>1, KeyAssumption
  <1>3. keyRow # NoRow => keyRow \in Keys BY <1>1 DEF KeyRows
  <1> QED BY <1>1, <1>2, <1>3 DEF KInv, CountNotAhead

\* A guard's call, or an administrator's, sets out.
LEMMA CallsKeep ==
    ASSUME KInv, NEW c \in KeyCalls,
           \/ \E o \in Origins : UseCall(c, o)
           \/ \E kind \in {"update", "revoke", "delete"} : AdminCall(c, kind)
    PROVE  KInv'
  <1>0. /\ keyCalls[c] \in KeyCallType /\ Justified(keyCalls[c]) /\ keyRow \in KeyRows
        /\ uses \in 0..MaxUses /\ uses \in Nat
        /\ keyRow # NoRow => keyRow.count <= uses
    BY KeyFacts
  <1>1. ASSUME NEW o \in Origins, UseCall(c, o) PROVE KInv'
    <2> DEFINE k == [IdleCall(o) EXCEPT !.at = "searching"]
    <2>1. KeyStep(c, k, keyRow) /\ uses' = uses BY <1>1 DEF UseCall
    <2>2. k \in KeyCallType /\ k.at = "searching" /\ k.entity = NoRow
      BY DEF IdleCall, KeyCallType, KeyPoints, KeyRows
    <2> HIDE DEF k
    <2>3. Justified(k) BY <2>2 DEF Justified
    <2> QED BY <1>0, <2>1, <2>2, <2>3, KeyStepKeeps
  <1>2. ASSUME NEW kind \in {"update", "revoke", "delete"}, AdminCall(c, kind) PROVE KInv'
    <2> DEFINE k == [keyCalls[c] EXCEPT !.at = "finding", !.kind = kind]
    <2>1. keyCalls[c].at = "idle" /\ KeyStep(c, k, keyRow) /\ uses' = uses
      BY <1>2 DEF AdminCall
    <2>2. k \in KeyCallType /\ k.at = "finding" /\ k.entity = keyCalls[c].entity
      BY <1>0 DEF KeyCallType, KeyPoints
    <2>3. k.entity = NoRow BY <1>0, <2>1, <2>2 DEF Justified
    <2> HIDE DEF k
    <2>4. Justified(k) BY <2>2, <2>3 DEF Justified
    <2> QED BY <1>0, <2>1, <2>2, <2>3, <2>4, KeyStepKeeps
  <1> QED BY <1>1, <1>2

\* The guard has searched the row.
LEMMA SearchesKeep ==
    ASSUME KInv, NEW c \in KeyCalls, SearchRefused(c) \/ Searched(c)
    PROVE  KInv'
  <1> DEFINE q == keyCalls[c]
  <1>0. /\ q \in KeyCallType /\ Justified(q) /\ keyRow \in KeyRows
        /\ uses \in 0..MaxUses /\ uses \in Nat
        /\ keyRow # NoRow => keyRow \in Keys /\ keyRow.count <= uses
        /\ Watched(q, keyRow)
    BY KeyFacts
  <1>a. q.at = "searching" BY DEF SearchRefused, Searched
  <1>b. q.entity = NoRow BY <1>0, <1>a DEF Justified
  <1>c. (Admits(keyRow, q.origin) => q.open) /\ (~Admits(keyRow, q.origin) => q.shut)
    BY <1>0, <1>a DEF Watched, Running
  <1>1. CASE SearchRefused(c)
    <2> DEFINE k == [q EXCEPT !.at = "refused"]
    <2>1. KeyStep(c, k, keyRow) /\ uses' = uses /\ ~Passes(keyRow, q.origin)
      BY <1>1 DEF SearchRefused
    <2>2. k \in KeyCallType /\ k.at = "refused" /\ k.entity = q.entity /\ k.shut = q.shut
      BY <1>0 DEF KeyCallType, KeyPoints
    <2>s. q.shut BY <1>c, <2>1 DEF Admits
    <2> HIDE DEF k
    <2>3. Justified(k) BY <1>b, <2>2, <2>s DEF Justified
    <2> QED BY <1>0, <1>b, <2>1, <2>2, <2>3, KeyStepKeeps
  <1>2. CASE Searched(c)
    <2> DEFINE entity == [keyRow EXCEPT !.count = @ + 1]
               k == [q EXCEPT !.at = "saving", !.entity = entity]
    <2>1. /\ KeyStep(c, k, keyRow) /\ uses' = uses + 1 /\ uses < MaxUses
          /\ Passes(keyRow, q.origin)
      BY <1>2 DEF Searched
    <2>2. keyRow \in Keys /\ keyRow # NoRow BY <1>0, <2>1 DEF Passes
    <2>3. keyRow.count \in 0..MaxUses BY <2>2 DEF Keys
    <2>4. keyRow.count + 1 <= uses + 1 /\ keyRow.count + 1 \in 0..MaxUses
      BY <1>0, <2>1, <2>2, <2>3, KeyAssumption
    <2>5. entity \in Keys /\ entity.may = keyRow.may /\ entity.count = keyRow.count + 1
      BY <2>2, <2>4 DEF Keys
    <2>u. uses' \in 0..MaxUses /\ uses <= uses' /\ keyRow.count <= uses'
      BY <1>0, <2>1, <2>2, <2>3, KeyAssumption
    <2>e. entity # NoRow /\ entity \in KeyRows BY <2>5, RowAssumption DEF KeyRows
    <2> HIDE DEF entity
    <2>6. /\ k \in KeyCallType /\ k.at = "saving" /\ k.entity = entity
          /\ k.open = q.open /\ k.shut = q.shut /\ k.origin = q.origin
      BY <1>0, <2>e DEF KeyCallType, KeyPoints
    <2>7. (q.origin \in keyRow.may => q.open) /\ (q.origin \notin keyRow.may => q.shut)
      BY <1>c, <2>1 DEF Admits
    <2> HIDE DEF k
    <2>8. Justified(k) BY <2>5, <2>6, <2>7 DEF Justified
    <2> QED BY <1>0, <2>1, <2>4, <2>5, <2>6, <2>8, <2>u, KeyStepKeeps
  <1> QED BY <1>1, <1>2

\* The administrator's call has found the row.
LEMMA FindsKeep == ASSUME KInv, NEW c \in KeyCalls, Found(c) PROVE KInv'
  <1> DEFINE q == keyCalls[c]
  <1>0. /\ q \in KeyCallType /\ Justified(q) /\ keyRow \in KeyRows
        /\ uses \in 0..MaxUses /\ uses \in Nat
        /\ keyRow # NoRow => keyRow \in Keys /\ keyRow.count <= uses
    BY KeyFacts
  <1>a. q.at = "finding" /\ uses' = uses BY DEF Found
  <1>b. q.entity = NoRow BY <1>0, <1>a DEF Justified
  <1>1. ASSUME NEW to \in {"done", "removing"}, KeyStep(c, [q EXCEPT !.at = to], keyRow)
        PROVE  KInv'
    <2> DEFINE k == [q EXCEPT !.at = to]
    <2>1. k \in KeyCallType /\ k.at = to /\ k.entity = NoRow
      BY <1>0, <1>b DEF KeyCallType, KeyPoints
    <2>2. KeyStep(c, k, keyRow) BY <1>1
    <2> HIDE DEF k
    <2>3. Justified(k) BY <2>1 DEF Justified
    <2> QED BY <1>0, <1>a, <2>1, <2>2, <2>3, KeyStepKeeps
  <1>2. ASSUME NEW entity \in Keys, entity.count = keyRow.count, keyRow # NoRow, q.kind # "use",
               KeyStep(c, [q EXCEPT !.at = "saving", !.entity = entity], keyRow)
        PROVE  KInv'
    <2> DEFINE k == [q EXCEPT !.at = "saving", !.entity = entity]
    <2>0. entity \in KeyRows BY DEF KeyRows
    <2>1. k \in KeyCallType /\ k.at = "saving" /\ k.entity = entity /\ k.kind = q.kind
      BY <1>0, <2>0 DEF KeyCallType, KeyPoints
    <2>2. KeyStep(c, k, keyRow) BY <1>2
    <2> HIDE DEF k
    <2>3. Justified(k) BY <1>2, <2>1 DEF Justified
    <2>4. k.entity.count <= uses' BY <1>0, <1>2, <1>a, <2>1
    <2> QED BY <1>0, <1>a, <2>1, <2>2, <2>3, <2>4, KeyStepKeeps
  <1>3. CASE keyRow = NoRow /\ KeyStep(c, [q EXCEPT !.at = "done"], keyRow) BY <1>3, <1>1
  <1>4. CASE keyRow # NoRow /\ KeyStep(c, [q EXCEPT !.at = "removing"], keyRow) BY <1>4, <1>1
  <1>5. CASE /\ keyRow # NoRow /\ q.kind = "revoke"
             /\ KeyStep(c, [q EXCEPT !.at = "saving", !.entity = [keyRow EXCEPT !.active = FALSE]],
                        keyRow)
    <2> DEFINE entity == [keyRow EXCEPT !.active = FALSE]
    <2>1. entity \in Keys /\ entity.count = keyRow.count BY <1>0, <1>5 DEF Keys
    <2>2. KeyStep(c, [q EXCEPT !.at = "saving", !.entity = entity], keyRow) BY <1>5
    <2> HIDE DEF entity
    <2> QED BY <1>2, <1>5, <2>1, <2>2
  <1>6. ASSUME keyRow # NoRow, q.kind = "update", NEW lets \in SUBSET Origins,
               NEW may \in SUBSET Origins,
               KeyStep(c, [q EXCEPT !.at = "saving", !.entity = Edited(keyRow, lets, may)], keyRow)
        PROVE  KInv'
    <2> DEFINE entity == Edited(keyRow, lets, may)
    <2>1. entity \in Keys /\ entity.count = keyRow.count BY <1>0, <1>6 DEF Keys, Edited
    <2>2. KeyStep(c, [q EXCEPT !.at = "saving", !.entity = entity], keyRow) BY <1>6
    <2> HIDE DEF entity
    <2> QED BY <1>2, <1>6, <2>1, <2>2
  <1> QED BY <1>3, <1>4, <1>5, <1>6 DEF Found

\* The row is deleted, save reads the row, or a call fails.
LEMMA OthersKeep ==
    ASSUME KInv, NEW c \in KeyCalls, Removed(c) \/ KeySaveReads(c) \/ KeyCallFails(c)
    PROVE  KInv'
  <1> DEFINE q == keyCalls[c]
  <1>0. /\ q \in KeyCallType /\ Justified(q) /\ keyRow \in KeyRows
        /\ uses \in 0..MaxUses /\ uses \in Nat
        /\ keyRow # NoRow => keyRow \in Keys /\ keyRow.count <= uses
        /\ q.entity # NoRow => q.entity.count <= uses
    BY KeyFacts
  <1>1. CASE Removed(c)
    <2> DEFINE k == [q EXCEPT !.at = "done"]
    <2>1. KeyStep(c, k, NoRow) /\ uses' = uses /\ q.at = "removing" BY <1>1 DEF Removed
    <2>2. k \in KeyCallType /\ k.at = "done" /\ k.entity = q.entity
      BY <1>0 DEF KeyCallType, KeyPoints
    <2>3. q.entity = NoRow BY <1>0, <2>1 DEF Justified
    <2> HIDE DEF k
    <2>4. Justified(k) BY <2>2, <2>3 DEF Justified
    <2>5. NoRow \in KeyRows BY DEF KeyRows
    <2> QED BY <1>0, <2>1, <2>2, <2>3, <2>4, <2>5, KeyStepKeeps
  <1>2. CASE KeySaveReads(c)
    <2> DEFINE k == [q EXCEPT !.at = "writing", !.seen = keyRow]
    <2>1. KeyStep(c, k, keyRow) /\ uses' = uses /\ q.at = "saving" BY <1>2 DEF KeySaveReads
    <2>2. /\ k \in KeyCallType /\ k.at = "writing" /\ k.entity = q.entity /\ k.kind = q.kind
          /\ k.open = q.open /\ k.shut = q.shut /\ k.origin = q.origin
      BY <1>0 DEF KeyCallType, KeyPoints
    <2> HIDE DEF k
    <2>3. Justified(k) BY <1>0, <2>1, <2>2 DEF Justified
    <2> QED BY <1>0, <2>1, <2>2, <2>3, KeyStepKeeps
  <1>3. CASE KeyCallFails(c)
    <2> DEFINE k == [q EXCEPT !.at = "done", !.entity = NoRow, !.seen = NoRow]
    <2>1. KeyStep(c, k, keyRow) /\ uses' = uses BY <1>3 DEF KeyCallFails
    <2>2. k \in KeyCallType /\ k.at = "done" /\ k.entity = NoRow
      BY <1>0 DEF KeyCallType, KeyPoints, KeyRows
    <2> HIDE DEF k
    <2>3. Justified(k) BY <2>2 DEF Justified
    <2> QED BY <1>0, <2>1, <2>2, <2>3, KeyStepKeeps
  <1> QED BY <1>1, <1>2, <1>3

\* What a write of the differing columns makes of the row.
LEMMA WrittenFacts ==
    ASSUME NEW row \in KeyRows, NEW seen \in KeyRows, NEW entity \in Keys, NEW n \in Nat,
           entity.count <= n, row # NoRow => row.count <= n
    PROVE  /\ WrittenKey(row, seen, entity) \in KeyRows
           /\ WrittenKey(row, seen, entity) # NoRow =>
                 WrittenKey(row, seen, entity).count <= n
           /\ Off(row) /\ ~entity.active => Off(WrittenKey(row, seen, entity))
  <1>1. CASE seen = NoRow
    <2>1. WrittenKey(row, seen, entity) = entity BY <1>1 DEF WrittenKey
    <2> QED BY <2>1 DEF KeyRows, Off
  <1>2. CASE seen # NoRow /\ row = NoRow
    <2>1. WrittenKey(row, seen, entity) = NoRow BY <1>2 DEF WrittenKey
    <2> QED BY <2>1 DEF KeyRows, Off
  <1>3. CASE seen # NoRow /\ row # NoRow
    <2> DEFINE active == IF entity.active = seen.active THEN row.active ELSE entity.active
               lets == IF entity.lets = seen.lets THEN row.lets ELSE entity.lets
               may == IF entity.may = seen.may THEN row.may ELSE entity.may
               count == IF entity.count = seen.count THEN row.count ELSE entity.count
               w == [active |-> active, lets |-> lets, may |-> may, count |-> count]
    <2>1. WrittenKey(row, seen, entity) = w BY <1>3 DEF WrittenKey
    <2>2. row \in Keys BY <1>3 DEF KeyRows
    <2>3. row.active \in BOOLEAN /\ entity.active \in BOOLEAN BY <2>2 DEF Keys
    <2>4. active \in BOOLEAN /\ (~row.active /\ ~entity.active => ~active)
      <3>1. CASE entity.active = seen.active BY <3>1, <2>3
      <3>2. CASE entity.active # seen.active BY <3>2, <2>3
      <3> QED BY <3>1, <3>2
    <2>5. lets \in SUBSET Origins /\ may \in SUBSET Origins BY <2>2 DEF Keys
    <2>6. count \in 0..MaxUses /\ count <= n BY <1>3, <2>2 DEF Keys
    <2> HIDE DEF active, lets, may, count
    <2>7. w \in Keys /\ w.count = count /\ w.active = active BY <2>4, <2>5, <2>6 DEF Keys
    <2>8. w \in KeyRows BY <2>7 DEF KeyRows
    <2>9. Off(row) /\ ~entity.active => Off(w) BY <1>3, <2>4, <2>7 DEF Off
    <2> HIDE DEF w
    <2> QED BY <2>1, <2>6, <2>7, <2>8, <2>9
  <1> QED BY <1>1, <1>2, <1>3

\* The entity is saved, and the call answered.
LEMMA SavesKeep == ASSUME KInv, NEW c \in KeyCalls, KeySaved(c) PROVE KInv'
  <1> DEFINE q == keyCalls[c]
             k == Concluded(q)
             row == WrittenKey(keyRow, q.seen, q.entity)
  <1>0. /\ q \in KeyCallType /\ Justified(q) /\ keyRow \in KeyRows
        /\ uses \in 0..MaxUses /\ uses \in Nat
        /\ keyRow # NoRow => keyRow.count <= uses
        /\ q.entity # NoRow => q.entity.count <= uses
    BY KeyFacts
  <1>1. q.at = "writing" /\ KeyStep(c, k, row) /\ uses' = uses BY DEF KeySaved
  <1>2. q.entity \in Keys /\ q.seen \in KeyRows /\ q.entity # NoRow
    BY <1>0, <1>1, RowAssumption DEF Justified, KeyCallType
  <1>3. row \in KeyRows /\ (row # NoRow => row.count <= uses)
    BY <1>0, <1>2, WrittenFacts
  <1>4. k \in KeyCallType /\ k.entity = NoRow /\ Justified(k)
    <2> DEFINE to == CASE q.kind # "use" -> "done"
                       [] q.kind = "use" /\ q.origin \in q.entity.may -> "admitted"
                       [] OTHER -> "refused"
    <2>1. CASE q.kind # "use"
      <3>1. to = "done" BY <2>1
      <3> QED BY <3>1, <1>0 DEF Concluded, KeyCallType, KeyPoints, KeyRows, Justified
    <2>2. CASE q.kind = "use" /\ q.origin \in q.entity.may
      <3>1. to = "admitted" BY <2>2
      <3>2. q.open BY <1>0, <1>1, <2>2 DEF Justified
      <3> QED BY <3>1, <3>2, <1>0 DEF Concluded, KeyCallType, KeyPoints, KeyRows, Justified
    <2>3. CASE q.kind = "use" /\ q.origin \notin q.entity.may
      <3>1. to = "refused" BY <2>3
      <3>2. q.shut BY <1>0, <1>1, <2>3 DEF Justified
      <3> QED BY <3>1, <3>2, <1>0 DEF Concluded, KeyCallType, KeyPoints, KeyRows, Justified
    <2> QED BY <2>1, <2>2, <2>3
  <1> HIDE DEF k, row
  <1> QED BY <1>0, <1>1, <1>3, <1>4, KeyStepKeeps

\* What the entities are after a step of one call.
LEMMA StepEntities ==
    ASSUME KInv, NEW c \in KeyCalls, NEW k \in KeyCallType, NEW row, KeyStep(c, k, row)
    PROVE  /\ keyRow' = row
           /\ \A d \in KeyCalls :
                 keyCalls'[d].entity = IF d = c THEN k.entity ELSE keyCalls[d].entity
  <1> DEFINE calls == [keyCalls EXCEPT ![c] = k]
  <1>1. keyRow' = row /\ keyCalls' = Observed(calls, row) BY DEF KeyStep
  <1>2. keyCalls \in [KeyCalls -> KeyCallType] BY DEF KInv, KeysTypeOK, KeyCallType
  <1>3. ASSUME NEW d \in KeyCalls
        PROVE  keyCalls'[d].entity = IF d = c THEN k.entity ELSE keyCalls[d].entity
    <2>1. calls[d] = IF d = c THEN k ELSE keyCalls[d] BY <1>2
    <2>2. calls[d] \in KeyCallType BY <1>2, <2>1
    <2> HIDE DEF calls
    <2>3. keyCalls'[d].entity = calls[d].entity
      <3>1. CASE calls[d].at \in Running
        <4>1. keyCalls'[d] = [calls[d] EXCEPT !.open = @ \/ Admits(row, calls[d].origin),
                                              !.shut = @ \/ ~Admits(row, calls[d].origin)]
          BY <1>1, <3>1 DEF Observed
        <4> QED BY <2>2, <4>1 DEF KeyCallType
      <3>2. CASE calls[d].at \notin Running
        <4>1. keyCalls'[d] = calls[d] BY <1>1, <3>2 DEF Observed
        <4> QED BY <4>1
      <3> QED BY <3>1, <3>2
    <2> QED BY <2>1, <2>3
  <1> QED BY <1>1, <1>3

\* The process restarts: no call is under way, and a first key may be seeded.
LEMMA KeysRestartKeeps == ASSUME KInv, KeysRestart PROVE KInv'
  <1>u. uses' = uses BY DEF KeysRestart
  <1>0. uses' = uses /\ uses \in 0..MaxUses /\ uses \in Nat /\ keyRow \in KeyRows
    BY <1>u, KeyAssumption DEF KInv, KeysTypeOK
  <1>1. ASSUME NEW c \in KeyCalls
        PROVE  /\ keyCalls'[c] \in KeyCallType /\ Justified(keyCalls'[c])
               /\ keyCalls'[c].at \notin Running /\ keyCalls'[c].entity = NoRow
    <2>0. keyCalls[c] \in KeyCallType /\ Justified(keyCalls[c]) BY KeyFacts
    <2>1. CASE keyCalls[c].at \in Running
      <3> DEFINE k == [keyCalls[c] EXCEPT !.at = "done", !.entity = NoRow, !.seen = NoRow]
      <3>1. keyCalls'[c] = k BY <2>1 DEF KeysRestart
      <3>2. k \in KeyCallType /\ k.at = "done" /\ k.entity = NoRow
        BY <2>0 DEF KeyCallType, KeyPoints, KeyRows
      <3> HIDE DEF k
      <3> QED BY <3>1, <3>2 DEF Justified, Running
    <2>2. CASE keyCalls[c].at \notin Running
      <3>1. keyCalls'[c] = keyCalls[c] BY <2>2 DEF KeysRestart
      <3>2. keyCalls[c].entity = NoRow BY <2>0, <2>2 DEF Justified, Running
      <3> QED BY <2>0, <2>2, <3>1, <3>2
    <2> QED BY <2>1, <2>2
  <1>2. keyCalls' \in [KeyCalls -> KeyCallType]
    <2>1. keyCalls' = [c \in KeyCalls |-> keyCalls'[c]] BY DEF KeysRestart
    <2> QED BY <2>1, <1>1
  <1>3. keyRow' \in KeyRows /\ (keyRow' # NoRow => keyRow'.count <= uses)
    <2>1. CASE keyRow = NoRow
      <3> DEFINE seeded == [active |-> TRUE, lets |-> Origins, may |-> Origins, count |-> 0]
      <3>1. keyRow' = seeded BY <2>1 DEF KeysRestart
      <3>2. seeded \in Keys /\ seeded.count = 0 BY KeyAssumption DEF Keys
      <3> HIDE DEF seeded
      <3> QED BY <1>0, <3>1, <3>2 DEF KeyRows
    <2>2. CASE keyRow # NoRow
      <3>1. keyRow' = keyRow BY <2>2 DEF KeysRestart
      <3> QED BY <1>0, <2>2, <3>1 DEF KInv, CountNotAhead
    <2> QED BY <2>1, <2>2
  <1>4. KeysTypeOK' BY <1>0, <1>2, <1>3 DEF KeysTypeOK, KeyCallType
  <1>5. CountNotAhead' BY <1>0, <1>1, <1>3 DEF CountNotAhead
  <1>6. \A c \in KeyCalls : Watched(keyCalls'[c], keyRow') BY <1>1 DEF Watched
  <1> QED BY <1>1, <1>4, <1>5, <1>6 DEF KInv

\* The invariant of the key holds at first.
LEMMA KeysStart == KeysInit => KInv
  <1> SUFFICES ASSUME KeysInit PROVE KInv OBVIOUS
  <1>0. uses = 0 /\ uses \in 0..MaxUses BY KeyAssumption DEF KeysInit
  <1>1. keyRow \in Keys /\ keyRow.count = 0 BY KeyAssumption DEF KeysInit, Keys
  <1>2. PICK o \in Origins : keyCalls = [c \in KeyCalls |-> IdleCall(o)] BY DEF KeysInit
  <1>3. IdleCall(o) \in KeyCallType /\ IdleCall(o).at = "idle" /\ IdleCall(o).entity = NoRow
    BY DEF IdleCall, KeyCallType, KeyPoints, KeyRows
  <1>4. Justified(IdleCall(o)) /\ Watched(IdleCall(o), keyRow)
    BY <1>3 DEF Justified, Watched, Running
  <1>5. KeysTypeOK BY <1>0, <1>1, <1>2, <1>3 DEF KeysTypeOK, KeyCallType, KeyRows
  <1>6. CountNotAhead BY <1>0, <1>1, <1>2, <1>3 DEF CountNotAhead
  <1> QED BY <1>2, <1>4, <1>5, <1>6 DEF KInv

\* Every step of the key and its calls keeps their invariant.
LEMMA KeysKept == KInv /\ [KeysNext \/ KeysRestart]_keyVars => KInv'
  <1> SUFFICES ASSUME KInv, [KeysNext \/ KeysRestart]_keyVars PROVE KInv' OBVIOUS
  <1>1. CASE KeysNext
    <2>1. PICK c \in KeyCalls : UseSteps(c) \/ AdminSteps(c) BY <1>1 DEF KeysNext
    <2>2. CASE UseSteps(c)
      BY <2>2, CallsKeep, SearchesKeep, OthersKeep, SavesKeep DEF UseSteps
    <2>3. CASE AdminSteps(c)
      BY <2>3, CallsKeep, FindsKeep, OthersKeep DEF AdminSteps
    <2> QED BY <2>1, <2>2, <2>3
  <1>2. CASE KeysRestart BY <1>2, KeysRestartKeeps
  <1>3. CASE UNCHANGED keyVars
    <2>1. keyRow' = keyRow /\ keyCalls' = keyCalls /\ uses' = uses BY <1>3 DEF keyVars
    <2>2. KeysTypeOK' BY <2>1 DEF KInv, KeysTypeOK
    <2>3. CountNotAhead' BY <2>1 DEF KInv, CountNotAhead
    <2> QED BY <2>1, <2>2, <2>3 DEF KInv
  <1> QED BY <1>1, <1>2, <1>3

\* The invariant of the key holds of every state.
LEMMA KeysAlways == KeysSpec => []KInv
  BY KeysStart, KeysKept, PTL DEF KeysSpec

\* The invariant of the key has the properties of its states in it.
LEMMA KeysSafe == KInv => KeysTypeOK /\ AnswersAreCurrent /\ CountNotAhead
  BY DEF KInv, Justified, AnswersAreCurrent

\* A key that is off, and held by nobody as it was before, stays so.
LEMMA OffKept ==
    ASSUME KInv, KeysNext, Off(keyRow), ~Held
    PROVE  Off(keyRow') /\ ~Held'
  <1>1. PICK c \in KeyCalls : UseSteps(c) \/ AdminSteps(c) BY DEF KeysNext
  <1> DEFINE q == keyCalls[c]
  <1>0. /\ q \in KeyCallType /\ Justified(q) /\ keyRow \in KeyRows
        /\ uses \in Nat
        /\ keyRow # NoRow => keyRow \in Keys /\ keyRow.count <= uses
        /\ q.entity # NoRow => q.entity.count <= uses
    BY KeyFacts
  <1>h. q.entity = NoRow \/ ~q.entity.active BY DEF Held
  <1>2. ASSUME NEW k \in KeyCallType, NEW row, KeyStep(c, k, row), Off(row),
               k.entity = NoRow \/ ~k.entity.active
        PROVE  Off(keyRow') /\ ~Held'
    <2>1. /\ keyRow' = row
          /\ \A d \in KeyCalls :
                keyCalls'[d].entity = IF d = c THEN k.entity ELSE keyCalls[d].entity
      BY <1>2, StepEntities
    <2>2. ~Held' BY <1>2, <2>1 DEF Held
    <2> QED BY <1>2, <2>1, <2>2
  <1>3. ASSUME NEW o \in Origins, UseCall(c, o) PROVE Off(keyRow') /\ ~Held'
    <2> DEFINE k == [IdleCall(o) EXCEPT !.at = "searching"]
    <2>1. KeyStep(c, k, keyRow) BY <1>3 DEF UseCall
    <2>2. k \in KeyCallType /\ k.entity = NoRow
      BY DEF IdleCall, KeyCallType, KeyPoints, KeyRows
    <2> HIDE DEF k
    <2> QED BY <1>2, <2>1, <2>2
  <1>4. ASSUME NEW at \in KeyPoints, KeyStep(c, [q EXCEPT !.at = at], keyRow)
        PROVE  Off(keyRow') /\ ~Held'
    <2> DEFINE k == [q EXCEPT !.at = at]
    <2>1. KeyStep(c, k, keyRow) BY <1>4
    <2>2. k \in KeyCallType /\ k.entity = q.entity BY <1>0 DEF KeyCallType
    <2> HIDE DEF k
    <2> QED BY <1>2, <1>h, <2>1, <2>2
  <1>5. ASSUME NEW kind \in {"update", "revoke", "delete"}, AdminCall(c, kind)
        PROVE  Off(keyRow') /\ ~Held'
    <2> DEFINE k == [q EXCEPT !.at = "finding", !.kind = kind]
    <2>1. KeyStep(c, k, keyRow) BY <1>5 DEF AdminCall
    <2>2. k \in KeyCallType /\ k.entity = q.entity BY <1>0 DEF KeyCallType, KeyPoints
    <2> HIDE DEF k
    <2> QED BY <1>2, <1>h, <2>1, <2>2
  <1>6. CASE SearchRefused(c) BY <1>6, <1>4 DEF SearchRefused, KeyPoints
  <1>7. CASE Searched(c) BY <1>7 DEF Searched, Passes, Off
  <1>8. CASE KeySaveReads(c)
    <2> DEFINE k == [q EXCEPT !.at = "writing", !.seen = keyRow]
    <2>1. KeyStep(c, k, keyRow) BY <1>8 DEF KeySaveReads
    <2>2. k \in KeyCallType /\ k.entity = q.entity BY <1>0 DEF KeyCallType, KeyPoints
    <2> HIDE DEF k
    <2> QED BY <1>2, <1>h, <2>1, <2>2
  <1>9. CASE KeySaved(c)
    <2> DEFINE row == WrittenKey(keyRow, q.seen, q.entity)
               k == Concluded(q)
    <2>1. q.at = "writing" /\ KeyStep(c, k, row) BY <1>9 DEF KeySaved
    <2>2. q.entity \in Keys /\ q.seen \in KeyRows /\ q.entity # NoRow
      BY <1>0, <2>1, RowAssumption DEF Justified, KeyCallType
    <2>3. Off(row) BY <1>0, <1>h, <2>2, WrittenFacts
    <2>4. k.entity = NoRow BY <1>0 DEF Concluded, KeyCallType
    <2>5. k \in KeyCallType
      <3>1. (CASE q.kind # "use" -> "done"
               [] q.kind = "use" /\ q.origin \in q.entity.may -> "admitted"
               [] OTHER -> "refused") \in KeyPoints
        BY DEF KeyPoints
      <3> QED BY <1>0, <3>1 DEF Concluded, KeyCallType, KeyRows
    <2> HIDE DEF k, row
    <2> QED BY <1>2, <2>1, <2>3, <2>4, <2>5
  <1>10. CASE KeyCallFails(c)
    <2> DEFINE k == [q EXCEPT !.at = "done", !.entity = NoRow, !.seen = NoRow]
    <2>1. KeyStep(c, k, keyRow) BY <1>10 DEF KeyCallFails
    <2>2. k \in KeyCallType /\ k.entity = NoRow BY <1>0 DEF KeyCallType, KeyPoints, KeyRows
    <2> HIDE DEF k
    <2> QED BY <1>2, <2>1, <2>2
  <1>11. CASE Removed(c)
    <2> DEFINE k == [q EXCEPT !.at = "done"]
    <2>1. KeyStep(c, k, NoRow) BY <1>11 DEF Removed
    <2>2. k \in KeyCallType /\ k.entity = q.entity BY <1>0 DEF KeyCallType, KeyPoints
    <2>3. Off(NoRow) BY DEF Off
    <2> HIDE DEF k
    <2> QED BY <1>2, <1>h, <2>1, <2>2, <2>3
  <1>12. CASE Found(c)
    <2>1. ASSUME NEW entity \in Keys, ~entity.active,
                 KeyStep(c, [q EXCEPT !.at = "saving", !.entity = entity], keyRow)
          PROVE  Off(keyRow') /\ ~Held'
      <3> DEFINE k == [q EXCEPT !.at = "saving", !.entity = entity]
      <3>1. KeyStep(c, k, keyRow) BY <2>1
      <3>2. k \in KeyCallType /\ k.entity = entity BY <1>0 DEF KeyCallType, KeyPoints, KeyRows
      <3> HIDE DEF k
      <3> QED BY <1>2, <2>1, <3>1, <3>2
    <2>2. CASE KeyStep(c, [q EXCEPT !.at = "done"], keyRow) BY <2>2, <1>4 DEF KeyPoints
    <2>3. CASE KeyStep(c, [q EXCEPT !.at = "removing"], keyRow) BY <2>3, <1>4 DEF KeyPoints
    <2>4. CASE /\ keyRow # NoRow
               /\ KeyStep(c, [q EXCEPT !.at = "saving", !.entity = [keyRow EXCEPT !.active = FALSE]],
                          keyRow)
      <3> DEFINE entity == [keyRow EXCEPT !.active = FALSE]
      <3>1. entity \in Keys /\ ~entity.active BY <1>0, <2>4 DEF Keys
      <3>2. KeyStep(c, [q EXCEPT !.at = "saving", !.entity = entity], keyRow) BY <2>4
      <3> HIDE DEF entity
      <3> QED BY <2>1, <3>1, <3>2
    <2>5. ASSUME keyRow # NoRow, NEW lets \in SUBSET Origins, NEW may \in SUBSET Origins,
                 KeyStep(c, [q EXCEPT !.at = "saving", !.entity = Edited(keyRow, lets, may)],
                         keyRow)
          PROVE  Off(keyRow') /\ ~Held'
      <3> DEFINE entity == Edited(keyRow, lets, may)
      <3>1. entity \in Keys /\ ~entity.active BY <1>0, <2>5 DEF Keys, Edited, Off
      <3>2. KeyStep(c, [q EXCEPT !.at = "saving", !.entity = entity], keyRow) BY <2>5
      <3> HIDE DEF entity
      <3> QED BY <2>1, <3>1, <3>2
    <2> QED BY <1>12, <2>2, <2>3, <2>4, <2>5 DEF Found
  <1> QED BY <1>1, <1>3, <1>5, <1>6, <1>7, <1>8, <1>9, <1>10, <1>11, <1>12
        DEF UseSteps, AdminSteps

\* A key that is off leaves that state by a restart only.
LEMMA OffStep ==
    KInv /\ [KeysNext \/ KeysRestart]_keyVars =>
        [Off(keyRow) /\ ~Held => (Off(keyRow') /\ ~Held') \/ KeysRestart]_keyVars
  BY OffKept

-----------------------------------------------------------------------------
\* The two together

\* The guarded system is an execution of the requests and one of the key.
LEMMA StepsOfBoth ==
    [GuardedNext]_guardedVars => [Next]_vars /\ [KeysNext \/ KeysRestart]_keyVars
  <1> SUFFICES ASSUME [GuardedNext]_guardedVars
               PROVE  [Next]_vars /\ [KeysNext \/ KeysRestart]_keyVars
    OBVIOUS
  <1>1. CASE GuardStep
    <2>1. UNCHANGED vars BY <1>1 DEF GuardStep
    <2>2. KeysNext BY <1>1, GuardAssumption DEF GuardStep, KeysNext
    <2> QED BY <2>1, <2>2
  <1>2. CASE RequestStep
    <2>1. UNCHANGED keyVars BY <1>2 DEF RequestStep
    <2>2. Next BY <1>2 DEF RequestStep, Enters, Next
    <2> QED BY <2>1, <2>2
  <1>3. CASE Restart /\ KeysRestart BY <1>3 DEF Next
  <1>4. CASE UNCHANGED guardedVars BY <1>4 DEF guardedVars
  <1> QED BY <1>1, <1>2, <1>3, <1>4 DEF GuardedNext

\* With the guard in front of them, requests behave as EngineRequests says, and
\* the key as ApiKeys says: neither component needs to know of the other.
THEOREM GuardedImplementsBoth == GuardedSpec => Spec /\ KeysSpec
  BY StepsOfBoth, PTL DEF GuardedSpec, GuardedInit, Spec, KeysSpec

\* The types of a request, its endpoint and the session's engine, with or
\* without the guard.
THEOREM RequestsTypeOK == Spec => []TypeOK
  BY RequestsAlways, RequestsSafe, PTL

\* A success that is answered is a success at WhatsApp and on record.
THEOREM RequestsOkMeansDone == Spec => []OkMeansDone
  BY RequestsAlways, RequestsSafe, PTL

\* The row of a message is there before the message goes out.
THEOREM RequestsRowBeforeMessage == Spec => []RowBeforeMessage
  BY RequestsAlways, RequestsSafe, PTL

\* A row stays pending after the answer only when the database refused a write.
THEOREM RequestsNoLimbo == Spec => []NoLimbo
  BY RequestsAlways, RequestsSafe, PTL

\* Plugins hear one verdict, the one the row says.
THEOREM RequestsOneVerdict == Spec => []OneVerdict
  BY RequestsAlways, RequestsSafe, PTL

\* The types of a key and its calls.
THEOREM KeyTypes == KeysSpec => []KeysTypeOK
  BY KeysAlways, KeysSafe, PTL

\* An answer of the guard was justified by the row at a moment of the call.
THEOREM KeyAnswersAreCurrent == KeysSpec => []AnswersAreCurrent
  BY KeysAlways, KeysSafe, PTL

\* usageCount does not run ahead of the validations.
THEOREM KeyCountNotAhead == KeysSpec => []CountNotAhead
  BY KeysAlways, KeysSafe, PTL

\* A key that is off, with nobody holding it as it was, stays off.
THEOREM KeyOffStaysOff == KeysSpec => OffStaysOff
  BY KeysAlways, OffStep, PTL DEF KeysSpec, OffStaysOff

\* The same of the composition.
THEOREM GuardedSafe ==
    GuardedSpec => [](TypeOK /\ OkMeansDone /\ RowBeforeMessage /\ NoLimbo /\ OneVerdict
                        /\ AnswersAreCurrent)
  BY GuardedImplementsBoth, RequestsTypeOK, RequestsOkMeansDone, RequestsRowBeforeMessage,
     RequestsNoLimbo, RequestsOneVerdict, KeyAnswersAreCurrent, PTL

\* A key that is off stays off while requests come with it.
THEOREM GuardedOffStaysOff == GuardedSpec => OffStaysOff
  BY GuardedImplementsBoth, KeyOffStaysOff, PTL

\* A call that is admitted stays so.
LEMMA AdmittedStays ==
    ASSUME KInv, NEW c \in KeyCalls, keyCalls[c].at = "admitted",
           [KeysNext \/ KeysRestart]_keyVars
    PROVE  keyCalls'[c].at = "admitted"
  <1>0. keyCalls \in [KeyCalls -> KeyCallType] BY DEF KInv, KeysTypeOK, KeyCallType
  <1>r. keyCalls[c].at \notin Running BY DEF Running
  <1>1. CASE KeysNext
    <2>1. PICK d \in KeyCalls : UseSteps(d) \/ AdminSteps(d) BY <1>1 DEF KeysNext
    <2>2. keyCalls[d].at \in {"idle"} \cup Running
      BY <2>1 DEF UseSteps, AdminSteps, UseCall, SearchRefused, Searched, KeySaveReads, KeySaved,
         KeyCallFails, AdminCall, Found, Removed, Running
    <2>3. \E k, row : KeyStep(d, k, row)
      BY <2>1 DEF UseSteps, AdminSteps, UseCall, SearchRefused, Searched, KeySaveReads, KeySaved,
         KeyCallFails, AdminCall, Found, Removed
    <2>4. PICK k, row : KeyStep(d, k, row) BY <2>3
    <2>5. c # d BY <2>2 DEF Running
    <2>6. [keyCalls EXCEPT ![d] = k][c] = keyCalls[c] BY <1>0, <2>5
    <2> DEFINE calls == [keyCalls EXCEPT ![d] = k]
    <2>7. keyCalls' = Observed(calls, row) BY <2>4 DEF KeyStep
    <2>8. calls[c] = keyCalls[c] BY <2>6
    <2> HIDE DEF calls
    <2>9. keyCalls'[c] = keyCalls[c] BY <1>r, <2>7, <2>8 DEF Observed
    <2> QED BY <2>9
  <1>2. CASE KeysRestart BY <1>2, <1>r DEF KeysRestart
  <1>3. CASE UNCHANGED keyVars BY <1>3 DEF keyVars
  <1> QED BY <1>1, <1>2, <1>3

\* A request that has entered its endpoint was admitted by the guard.
Admittance == \A r \in Requests : requests[r].at # "new" => keyCalls[r].at = "admitted"

\* Only requests whose key was admitted leave "new".
LEMMA EnteredKept ==
    ASSUME RInv, KInv, Admittance, [GuardedNext]_guardedVars
    PROVE  Admittance'
  <1>0. requests \in [Requests -> Requested] BY DEF RInv
  <1>s. [KeysNext \/ KeysRestart]_keyVars BY StepsOfBoth
  <1>a. ASSUME NEW r \in Requests, keyCalls[r].at = "admitted"
        PROVE  keyCalls'[r].at = "admitted"
    <2>1. r \in KeyCalls BY GuardAssumption
    <2> QED BY <1>a, <1>s, <2>1, AdmittedStays
  <1>1. ASSUME NEW r \in Requests, requests'[r].at # "new"
        PROVE  keyCalls[r].at = "admitted"
    <2>1. CASE requests[r].at # "new" BY <2>1 DEF Admittance
    <2>2. CASE requests[r].at = "new"
      <3>1. requests'[r] # requests[r] BY <1>1, <2>2
      <3>2. RequestStep
        <4>1. ~GuardStep BY <3>1 DEF GuardStep, vars
        <4>2. ~Restart BY <2>2, <3>1 DEF Restart
        <4>3. ~UNCHANGED guardedVars BY <3>1 DEF guardedVars, vars
        <4> QED BY <4>1, <4>2, <4>3 DEF GuardedNext
      <3>3. ~SessionMoves
        BY <3>1 DEF SessionMoves, EngineStarts, EngineReady, EngineLost, EngineCloses,
           EngineDeleted, SessionDeleted
      <3>4. PICK p \in Requests : Enters(p) \/ Continues(p) BY <3>2, <3>3 DEF RequestStep
      <3>5. \E q : Becomes(p, q)
        BY <3>4 DEF Enters, Begins, Begin, MediaRefused, Continues, Asked, SessionFound, Writes,
           Inserted, InsertFails, Saved, SaveFails, Marked, MarkFails, Told, StepResolves,
           FindsNull, Acts, ActResolves, StepRejects, Broken
      <3>6. PICK q : Becomes(p, q) BY <3>5
      <3>7. p = r
        <4>1. requests' = [requests EXCEPT ![p] = q] BY <3>6 DEF Becomes
        <4> QED BY <1>0, <3>1, <4>1
      <3>8. ~Continues(r)
        BY <2>2 DEF Continues, Asked, SessionFound, Writes, Inserted, InsertFails, Saved,
           SaveFails, Marked, MarkFails, Told, StepResolves, FindsNull, Acts, ActResolves,
           StepRejects
      <3> QED BY <3>4, <3>7, <3>8 DEF Enters
    <2> QED BY <2>1, <2>2
  <1> QED BY <1>1, <1>a DEF Admittance

\* WhatsApp is asked for nothing on behalf of a key that did not admit it.
THEOREM GuardedOnlyAdmittedAct == GuardedSpec => []OnlyAdmittedAct
  <1>1. GuardedSpec => []RInv BY GuardedImplementsBoth, RequestsAlways, PTL
  <1>2. GuardedSpec => []KInv BY GuardedImplementsBoth, KeysAlways, PTL
  <1>3. Init => Admittance
    <2> SUFFICES ASSUME Init, NEW r \in Requests PROVE requests[r].at = "new"
      BY DEF Admittance
    <2>1. requests[r] = Fresh(SendText) BY DEF Init
    <2> QED BY <2>1 DEF Fresh
  <1>4. RInv /\ KInv /\ Admittance /\ [GuardedNext]_guardedVars => Admittance' BY EnteredKept
  <1>5. RInv /\ KInv /\ Admittance => OnlyAdmittedAct
    <2> SUFFICES ASSUME RInv, KInv, Admittance, NEW r \in Requests, requests[r].acted
                 PROVE  keyCalls[r].open
      BY DEF OnlyAdmittedAct
    <2>1. requests[r].at # "new" BY DEF RInv, Good, Placed, Early
    <2>2. keyCalls[r].at = "admitted" BY <2>1 DEF Admittance
    <2> QED BY <2>2, GuardAssumption DEF KInv, Justified
  <1> QED BY <1>1, <1>2, <1>3, <1>4, <1>5, PTL DEF GuardedSpec, GuardedInit
=============================================================================
