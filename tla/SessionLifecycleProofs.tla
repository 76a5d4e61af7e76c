----------------------- MODULE SessionLifecycleProofs -----------------------
(***************************************************************************)
(* Proofs about SessionLifecycle, for any number of adapters, calls, runs, *)
(* attempts and updates.                                                   *)
(***************************************************************************)
EXTENDS SessionLifecycle, TLAPS, SequenceTheorems, FiniteSetTheorems

Updates == [status : Statuses, by : Procs \cup {None}]

-----------------------------------------------------------------------------
\* Taking one element out of a sequence leaves a sequence of the same things,
\* each of which was in it before.
LEMMA RemoveAtType ==
    ASSUME NEW S, NEW s \in Seq(S), NEW n \in 1..Len(s)
    PROVE  /\ RemoveAt(s, n) \in Seq(S)
           /\ \A j \in 1..Len(RemoveAt(s, n)) :
                  \E k \in 1..Len(s) : RemoveAt(s, n)[j] = s[k]
  <1> DEFINE front == SubSeq(s, 1, n - 1)
             back == SubSeq(s, n + 1, Len(s))
             short == front \o back
  <1>1. RemoveAt(s, n) = short
    BY DEF RemoveAt
  <1>2. front \in Seq(S) /\ back \in Seq(S)
    OBVIOUS
  <1>3. Len(front) = n - 1 /\ Len(back) = Len(s) - n
    OBVIOUS
  <1>4. \A j \in 1..n - 1 : front[j] = s[j]
    OBVIOUS
  <1>5. \A j \in 1..Len(s) - n : back[j] = s[j + n]
    OBVIOUS
  <1> HIDE DEF front, back
  <1>6. short \in Seq(S) /\ Len(short) = Len(s) - 1
    BY <1>2, <1>3
  <1>7. ASSUME NEW j \in 1..Len(short)
        PROVE  \E k \in 1..Len(s) : short[j] = s[k]
    <2>1. CASE j <= n - 1
      <3>1. short[j] = front[j]
        BY <1>2, <1>3, <2>1
      <3> QED BY <3>1, <1>4, <2>1
    <2>2. CASE j > n - 1
      <3>1. short[j] = back[j - (n - 1)]
        BY <1>2, <1>3, <1>6, <2>2
      <3>2. j - (n - 1) \in 1..Len(s) - n /\ j + 1 \in 1..Len(s)
        BY <1>6, <2>2
      <3>3. back[j - (n - 1)] = s[j + 1]
        BY <3>2, <1>5
      <3> QED BY <3>1, <3>2, <3>3
    <2> QED BY <2>1, <2>2, <1>6
  <1> HIDE DEF short
  <1> QED BY <1>1, <1>6, <1>7

\* What the handlers issue are updates, and the row's updates stay updates.
LEMMA IssueType ==
    ASSUME TypeOK, NEW ws \in Seq(Updates), Issue(ws)
    PROVE  writes' \in Seq(Updates)
  BY DEF Issue, TypeOK, Updates

\* What `void updateStatus` issues is a sequence of updates nobody awaits.
LEMMA VoidType ==
    ASSUME NEW s \in Statuses
    PROVE  Void(s) \in Seq(Updates)
  BY DEF Void, Updates

\* What an awaited updateStatus issues names the process awaiting it.
LEMMA AwaitedType ==
    ASSUME NEW s \in Statuses, NEW p \in Procs
    PROVE  Awaited(s, p) \in Seq(Updates)
  BY DEF Awaited, Updates

\* A process moved to a point, holding an engine or none, keeps pc and held well
\* typed.
LEMMA GotoType ==
    ASSUME TypeOK, NEW p \in Procs, NEW point \in Points,
           NEW e \in Engines \cup {None}, Goto(p, point, e)
    PROVE  pc' \in [Procs -> Points] /\ held' \in [Procs -> Engines \cup {None}]
  BY DEF Goto, TypeOK

\* scheduleReconnect never counts more attempts than the configured maximum.
LEMMA ScheduleType ==
    ASSUME TypeOK, ScheduleReconnect
    PROVE  /\ retry' \in [on : BOOLEAN, attempts : 0..MaxAttempts, timer : BOOLEAN]
           /\ stray' \in 0..MaxStray
  <1>1. CASE retry.on /\ retry.attempts < MaxAttempts
    <2>1. stray' = stray + Overwritten /\ stray + Overwritten <= MaxStray
      BY <1>1 DEF ScheduleReconnect
    <2>2. stray' \in 0..MaxStray
      BY <2>1, SessionAssumption DEF Overwritten, TypeOK
    <2>3. retry.attempts + 1 \in 0..MaxAttempts
      BY <1>1, SessionAssumption DEF TypeOK
    <2>4. retry' = [retry EXCEPT !.attempts = retry.attempts + 1, !.timer = TRUE]
      BY <1>1 DEF ScheduleReconnect
    <2> QED BY <2>2, <2>3, <2>4 DEF TypeOK
  <1>2. CASE ~(retry.on /\ retry.attempts < MaxAttempts)
    BY <1>2 DEF ScheduleReconnect, TypeOK
  <1> QED BY <1>1, <1>2

\* initializeEngine keeps all it touches well typed.
LEMMA InitializeType ==
    ASSUME TypeOK, NEW p \in Procs, NEW clients \in [Engines -> Phases],
           NEW before \in Seq(Updates), InitializeEngine(p, clients, before)
    PROVE  /\ engine' \in Engines
           /\ client' \in [Engines -> Phases]
           /\ client'[engine'] = "launching"
           /\ pc' \in [Procs -> Points]
           /\ held' \in [Procs -> Engines \cup {None}]
           /\ writes' \in Seq(Updates)
           /\ fresh' = FALSE
  <1>1. PICK e \in Engines :
            /\ engine' = e
            /\ client' = [clients EXCEPT ![e] = "launching"]
            /\ Goto(p, "launching", e)
            /\ Issue(before \o Void("INITIALIZING"))
            /\ fresh' = FALSE
    BY DEF InitializeEngine
  <1>2. before \o Void("INITIALIZING") \in Seq(Updates)
    BY VoidType DEF Statuses, Active
  <1>3. writes' \in Seq(Updates)
    BY <1>1, <1>2, IssueType
  <1>4. pc' \in [Procs -> Points] /\ held' \in [Procs -> Engines \cup {None}]
    BY <1>1, GotoType DEF Points
  <1>5. client' \in [Engines -> Phases] /\ client'[e] = "launching"
    BY <1>1 DEF Phases
  <1> QED BY <1>1, <1>3, <1>4, <1>5

\* Failing a launch keeps the types of everything but the reconnect state.
LEMMA FailType ==
    ASSUME TypeOK, NEW p \in Procs, Fail(p),
           retry' \in [on : BOOLEAN, attempts : 0..MaxAttempts, timer : BOOLEAN],
           stray' \in 0..MaxStray
    PROVE  TypeOK'
  <1>1. writes' \in Seq(Updates)
    BY VoidType, IssueType DEF Fail, Statuses
  <1>2. pc' \in [Procs -> Points] /\ held' \in [Procs -> Engines \cup {None}]
    BY GotoType DEF Fail, Points
  <1>3. client' \in [Engines -> Phases]
    BY DEF Fail, TypeOK, Phases
  <1> QED BY <1>1, <1>2, <1>3 DEF Fail, TypeOK, Updates

\* Closing an adapter in stop or delete keeps all it touches well typed.
LEMMA CloseType ==
    ASSUME TypeOK, NEW c \in Procs, NEW after \in Seq(Updates),
           NEW point \in Points, Close(c, after, point)
    PROVE  /\ client' \in [Engines -> Phases]
           /\ engine' = None
           /\ writes' \in Seq(Updates)
           /\ pc' \in [Procs -> Points]
           /\ held' \in [Procs -> Engines \cup {None}]
  <1>1. Void("DISCONNECTED") \o after \in Seq(Updates)
    BY VoidType DEF Statuses
  <1>2. writes' \in Seq(Updates)
    BY <1>1, IssueType DEF Close
  <1>3. pc' \in [Procs -> Points] /\ held' \in [Procs -> Engines \cup {None}]
    BY GotoType DEF Close
  <1> QED BY <1>2, <1>3 DEF Close, TypeOK, Phases

-----------------------------------------------------------------------------
\* Every step keeps the types: the attempts stay within maxReconnectAttempts,
\* and every process is at an await of its handler.
LEMMA TypeStep == TypeOK /\ [Next]_vars => TypeOK'
  <1> SUFFICES ASSUME TypeOK, [Next]_vars PROVE TypeOK'
    OBVIOUS
  <1> USE DEF Updates
  <1>0. /\ Calls \subseteq Procs /\ Runs \subseteq Procs /\ Shutdown \in Procs
        /\ NoState \in [on : BOOLEAN, attempts : 0..MaxAttempts, timer : BOOLEAN]
        /\ <<>> \in Seq(Updates)
    BY SessionAssumption DEF Procs, NoState
  <1>1. ASSUME NEW c \in Calls, StartCall(c) PROVE TypeOK'
    <2>1. pc' \in [Procs -> Points] /\ held' \in [Procs -> Engines \cup {None}]
      BY <1>0, <1>1, GotoType DEF StartCall, Points
    <2>2. calls' \in 0..MaxCalls
      BY <1>1, SessionAssumption DEF StartCall, TypeOK
    <2> QED BY <1>1, <2>1, <2>2 DEF StartCall, TypeOK
  <1>2. ASSUME NEW c \in Calls, StartLaunch(c) PROVE TypeOK'
    <2>1. InitializeEngine(c, client, <<>>)
      BY <1>2 DEF StartLaunch
    <2>2. client \in [Engines -> Phases]
      BY DEF TypeOK
    <2>3. /\ engine' \in Engines /\ client' \in [Engines -> Phases]
          /\ pc' \in [Procs -> Points]
          /\ held' \in [Procs -> Engines \cup {None}]
          /\ writes' \in Seq(Updates) /\ fresh' = FALSE
      BY <1>0, <2>1, <2>2, InitializeType
    <2>4. stray' \in 0..MaxStray
      BY <1>2, SessionAssumption DEF StartLaunch, Overwritten, TypeOK
    <2>5. retry' \in [on : BOOLEAN, attempts : 0..MaxAttempts, timer : BOOLEAN]
      BY <1>2, SessionAssumption DEF StartLaunch
    <2> QED BY <1>2, <2>3, <2>4, <2>5 DEF StartLaunch, TypeOK
  <1>3. ASSUME NEW p \in Calls \cup Runs, LaunchResolves(p) PROVE TypeOK'
    <2>1. writes' \in Seq(Updates)
      BY <1>0, <1>3, AwaitedType, IssueType DEF LaunchResolves, Statuses, Active
    <2>2. pc' \in [Procs -> Points] /\ held' \in [Procs -> Engines \cup {None}]
      BY <1>0, <1>3, GotoType DEF LaunchResolves, Points
    <2> QED BY <1>3, <2>1, <2>2 DEF LaunchResolves, TypeOK
  <1>4. ASSUME NEW c \in Calls, StartRejects(c) PROVE TypeOK'
    BY <1>0, <1>4, FailType DEF StartRejects, TypeOK
  <1>5. ASSUME NEW c \in Calls, StopCall(c) PROVE TypeOK'
    <2>1. retry' = NoState /\ stray' = stray
      BY <1>5 DEF StopCall, CancelReconnect
    <2>2. calls' \in 0..MaxCalls
      BY <1>5, SessionAssumption DEF StopCall, TypeOK
    <2>3. writes' \in Seq(Updates)
      BY <1>0, <1>5, AwaitedType, IssueType DEF StopCall, Statuses, TypeOK
    <2>4. pc' \in [Procs -> Points] /\ held' \in [Procs -> Engines \cup {None}]
      BY <1>0, <1>5, GotoType DEF StopCall, Points, TypeOK
    <2> QED BY <1>0, <1>5, <2>1, <2>2, <2>3, <2>4 DEF StopCall, TypeOK
  <1>6. ASSUME NEW c \in Calls, StopDisconnected(c) PROVE TypeOK'
    <2>1. Close(c, Awaited("DISCONNECTED", c), "writing")
      BY <1>6 DEF StopDisconnected
    <2>2. Awaited("DISCONNECTED", c) \in Seq(Updates) /\ "writing" \in Points
      BY <1>0, AwaitedType DEF Statuses, Points
    <2> QED BY <1>0, <1>6, <2>1, <2>2, CloseType DEF StopDisconnected, TypeOK
  <1>7. ASSUME NEW c \in Calls, DeleteCall(c) PROVE TypeOK'
    <2>1. retry' = NoState /\ stray' = stray
      BY <1>7 DEF DeleteCall, CancelReconnect
    <2>2. calls' \in 0..MaxCalls
      BY <1>7, SessionAssumption DEF DeleteCall, TypeOK
    <2>3. pc' \in [Procs -> Points] /\ held' \in [Procs -> Engines \cup {None}]
      BY <1>0, <1>7, GotoType DEF DeleteCall, Points, TypeOK
    <2> QED BY <1>0, <1>7, <2>1, <2>2, <2>3 DEF DeleteCall, TypeOK
  <1>8. ASSUME NEW c \in Calls, DeleteDestroyed(c) PROVE TypeOK'
    <2>1. Close(c, <<>>, "removing") /\ "removing" \in Points
      BY <1>8 DEF DeleteDestroyed, Points
    <2> QED BY <1>0, <1>8, <2>1, CloseType DEF DeleteDestroyed, TypeOK
  <1>9. ASSUME NEW c \in Calls, DeleteRejects(c) PROVE TypeOK'
    BY <1>0, <1>9, GotoType DEF DeleteRejects, Points, TypeOK
  <1>10. ASSUME NEW c \in Calls, DeleteRow(c) PROVE TypeOK'
    BY <1>0, <1>10, GotoType DEF DeleteRow, Points, TypeOK
  <1>11. ASSUME NEW r \in Runs, TimerFires(r) PROVE TypeOK'
    <2>1. /\ retry' \in [on : BOOLEAN, attempts : 0..MaxAttempts, timer : BOOLEAN]
          /\ stray' \in 0..MaxStray
      <3>1. CASE retry.timer /\ retry' = [retry EXCEPT !.timer = FALSE] /\ UNCHANGED stray
        BY <3>1 DEF TypeOK
      <3>2. CASE stray > 0 /\ stray' = stray - 1 /\ UNCHANGED retry
        BY <3>2, SessionAssumption DEF TypeOK
      <3> QED BY <1>11, <3>1, <3>2 DEF TimerFires
    <2>2. client \in [Engines -> Phases] /\ engine \in Engines \cup {None}
      BY DEF TypeOK
    <2>3. /\ engine' \in Engines \cup {None} /\ client' \in [Engines -> Phases]
          /\ pc' \in [Procs -> Points]
          /\ held' \in [Procs -> Engines \cup {None}]
          /\ writes' \in Seq(Updates) /\ fresh' \in BOOLEAN
      <3>1. CASE InitializeEngine(r, client, <<>>)
        BY <1>0, <2>2, <3>1, InitializeType
      <3>2. CASE /\ Goto(r, "destroying", engine)
                 /\ UNCHANGED <<engine, client, writes, fresh>>
        BY <1>0, <2>2, <3>2, GotoType DEF Points, TypeOK
      <3> QED BY <1>11, <3>1, <3>2 DEF TimerFires
    <2> QED BY <1>11, <2>1, <2>3 DEF TimerFires, TypeOK
  <1>12. ASSUME NEW r \in Runs, ReconnectLaunch(r) PROVE TypeOK'
    <2> DEFINE closed == [client EXCEPT ![held[r]] = "none"]
    <2>1. closed \in [Engines -> Phases]
      BY DEF TypeOK, Phases
    <2>2. InitializeEngine(r, closed, Void("DISCONNECTED"))
      BY <1>12 DEF ReconnectLaunch
    <2>3. Void("DISCONNECTED") \in Seq(Updates)
      BY VoidType DEF Statuses
    <2> HIDE DEF closed
    <2>4. /\ engine' \in Engines /\ client' \in [Engines -> Phases]
          /\ pc' \in [Procs -> Points]
          /\ held' \in [Procs -> Engines \cup {None}]
          /\ writes' \in Seq(Updates) /\ fresh' = FALSE
      BY <1>0, <2>1, <2>2, <2>3, InitializeType
    <2> QED BY <1>12, <2>4 DEF ReconnectLaunch, TypeOK
  <1>13. ASSUME NEW r \in Runs, DestroyRejects(r) PROVE TypeOK'
    <2>1. pc' \in [Procs -> Points] /\ held' \in [Procs -> Engines \cup {None}]
      BY <1>0, <1>13, GotoType DEF DestroyRejects, Points
    <2> QED BY <1>13, <2>1, ScheduleType DEF DestroyRejects, TypeOK
  <1>14. ASSUME NEW r \in Runs, ReconnectRejects(r) PROVE TypeOK'
    BY <1>0, <1>14, FailType, ScheduleType DEF ReconnectRejects
  <1>15. ASSUME NEW e \in Engines, QrEmitted(e) PROVE TypeOK'
    BY <1>15 DEF QrEmitted, TypeOK, Phases
  <1>16. ASSUME NEW e \in Engines, QrRendered(e) PROVE TypeOK'
    <2>1. writes' \in Seq(Updates)
      BY <1>16, VoidType, IssueType DEF QrRendered, Statuses, Active
    <2> QED BY <1>16, <2>1 DEF QrRendered, TypeOK
  <1>17. ASSUME NEW e \in Engines, Authenticated(e) PROVE TypeOK'
    <2>1. writes' \in Seq(Updates)
      BY <1>17, VoidType, IssueType DEF Authenticated, Statuses, Active
    <2> QED BY <1>17, <2>1 DEF Authenticated, TypeOK, Phases
  <1>18. ASSUME NEW e \in Engines, Ready(e) PROVE TypeOK'
    <2>1. writes' \in Seq(Updates)
      BY <1>18, VoidType, IssueType DEF Ready, Statuses, Active
    <2>2. retry' \in [on : BOOLEAN, attempts : 0..MaxAttempts, timer : BOOLEAN]
      BY <1>18, SessionAssumption DEF Ready, TypeOK
    <2> QED BY <1>18, <2>1, <2>2 DEF Ready, TypeOK, Phases
  <1>19. ASSUME NEW e \in Engines, Disconnected(e) PROVE TypeOK'
    <2> HIDE DEF Updates
    <2>0. Void("DISCONNECTED") \in Seq(Updates) /\ Void("FAILED") \in Seq(Updates)
      BY VoidType DEF Statuses
    <2>1. /\ Void("DISCONNECTED") \in Seq(Updates)
          /\ Void("FAILED") \o Void("DISCONNECTED") \in Seq(Updates)
      BY <2>0
    <2> USE DEF Updates
    <2>2. writes' \in Seq(Updates)
      BY <1>19, <2>1, IssueType DEF Disconnected
    <2> QED BY <1>19, <2>2, ScheduleType DEF Disconnected, TypeOK, Phases
  <1>20. CASE ApplyWrite
    <2>1. PICK n \in 1..Len(writes) :
              /\ row' = Updated(writes[n].status)
              /\ writes' = RemoveAt(writes, n)
              /\ \/ writes[n].by \in Procs /\ Goto(writes[n].by, "idle", None)
                 \/ writes[n].by = None /\ UNCHANGED <<pc, held>>
      BY <1>20 DEF ApplyWrite
    <2>6. writes \in Seq(Updates)
      BY DEF TypeOK
    <2> HIDE DEF Updates
    <2>7. writes[n] \in Updates
      BY <2>6
    <2> USE DEF Updates
    <2>2. writes \in Seq(Updates) /\ writes[n] \in Updates
      BY <2>6, <2>7
    <2>3. writes' \in Seq(Updates)
      BY <2>1, <2>2, RemoveAtType
    <2>4. row' \in Statuses \cup {"DELETED"}
      BY <2>1, <2>2 DEF Updated, TypeOK
    <2>5. pc' \in [Procs -> Points] /\ held' \in [Procs -> Engines \cup {None}]
      BY <2>1, GotoType DEF Points, TypeOK
    <2> QED BY <1>20, <2>3, <2>4, <2>5 DEF ApplyWrite, TypeOK
  <1>21. CASE ShutdownBegin
    <2>1. pc' \in [Procs -> Points] /\ held' \in [Procs -> Engines \cup {None}]
      BY <1>0, <1>21, GotoType DEF ShutdownBegin, ClearMaps, Points, TypeOK
    <2> QED BY <1>0, <1>21, <2>1 DEF ShutdownBegin, ClearMaps, CancelReconnect, TypeOK
  <1>22. CASE ShutdownDestroyed
    <2>1. pc' \in [Procs -> Points] /\ held' \in [Procs -> Engines \cup {None}]
      BY <1>0, <1>22, GotoType DEF ShutdownDestroyed, ClearMaps, Points, TypeOK
    <2>2. writes' \in Seq(Updates)
      BY <1>22, VoidType, IssueType DEF ShutdownDestroyed, Statuses
    <2>3. client' \in [Engines -> Phases]
      BY <1>22 DEF ShutdownDestroyed, TypeOK, Phases
    <2>4. /\ engine' \in Engines \cup {None} /\ stray' = stray
          /\ retry' \in [on : BOOLEAN, attempts : 0..MaxAttempts, timer : BOOLEAN]
      BY <1>0, <1>22 DEF ShutdownDestroyed, ClearMaps, CancelReconnect, TypeOK
    <2> QED BY <1>22, <2>1, <2>2, <2>3, <2>4 DEF ShutdownDestroyed, TypeOK
  <1>23. CASE ShutdownRejects
    BY <1>0, <1>23, GotoType DEF ShutdownRejects, Points, TypeOK
  <1>24. CASE ProcessEnds
    BY <1>0, <1>24, SessionAssumption DEF ProcessEnds, TypeOK, Phases, Points
  <1>25. CASE Boot
    BY <1>25 DEF Boot, TypeOK, Statuses
  <1>26. CASE UNCHANGED vars
    BY <1>26 DEF vars, TypeOK
  <1> QED
    BY <1>1, <1>2, <1>3, <1>4, <1>5, <1>6, <1>7, <1>8, <1>9, <1>10, <1>11,
       <1>12, <1>13, <1>14, <1>15, <1>16, <1>17, <1>18, <1>19, <1>20, <1>21,
       <1>22, <1>23, <1>24, <1>25, <1>26
    DEF Next, CallStep, RunStep, ClientStep, ProcessStep

\* The state after create is well typed.
LEMMA TypeInit == Init => TypeOK
  BY SessionAssumption
  DEF Init, TypeOK, Statuses, Phases, Points, NoState

\* The type invariant, whose parts bound the reconnect attempts of a session
\* by its maxReconnectAttempts.
THEOREM TypeCorrect == Spec => []TypeOK
  BY TypeInit, TypeStep, PTL DEF Spec

-----------------------------------------------------------------------------
\* Whoever closes an adapter also takes the map entry away or puts a new
\* adapter in its place, within the same step.
LEMMA MapStep == TypeOK /\ MapHoldsClient /\ [Next]_vars => MapHoldsClient'
  <1> SUFFICES ASSUME TypeOK, MapHoldsClient, [Next]_vars
               PROVE  MapHoldsClient'
    OBVIOUS
  <1> USE DEF MapHoldsClient
  <1>0. /\ Calls \subseteq Procs /\ Runs \subseteq Procs /\ Shutdown \in Procs
        /\ client \in [Engines -> Phases] /\ engine \in Engines \cup {None}
        /\ <<>> \in Seq(Updates)
    BY DEF Procs, TypeOK
  <1>1. CASE UNCHANGED <<engine, client>>
    BY <1>1
  <1>2. ASSUME engine' = None PROVE MapHoldsClient'
    BY <1>2
  <1>3. ASSUME NEW p \in Procs, NEW clients \in [Engines -> Phases],
               NEW before \in Seq(Updates), InitializeEngine(p, clients, before)
        PROVE  MapHoldsClient'
    BY <1>3, InitializeType
  <1>4. ASSUME NEW p \in Procs, Fail(p) PROVE MapHoldsClient'
    BY <1>0, <1>4 DEF Fail
  <1>5. ASSUME NEW e \in Engines, NEW phase \in Phases \ {"none"},
               client' = [client EXCEPT ![e] = phase], engine' = engine
        PROVE  MapHoldsClient'
    BY <1>0, <1>5
  <1>6. ASSUME NEW c \in Calls, CallStep(c) PROVE MapHoldsClient'
    <2>1. CASE StartLaunch(c)
      BY <1>0, <1>3, <2>1 DEF StartLaunch
    <2>2. CASE StartRejects(c)
      BY <1>0, <1>4, <2>2 DEF StartRejects
    <2>3. CASE StopDisconnected(c) \/ DeleteDestroyed(c)
      BY <1>2, <2>3 DEF StopDisconnected, DeleteDestroyed, Close
    <2>4. CASE StartCall(c) \/ LaunchResolves(c) \/ StopCall(c)
      BY <1>1, <2>4 DEF StartCall, LaunchResolves, StopCall
    <2>5. CASE DeleteCall(c) \/ DeleteRejects(c) \/ DeleteRow(c)
      BY <1>1, <2>5 DEF DeleteCall, DeleteRejects, DeleteRow
    <2> QED BY <1>6, <2>1, <2>2, <2>3, <2>4, <2>5 DEF CallStep
  <1>7. ASSUME NEW r \in Runs, RunStep(r) PROVE MapHoldsClient'
    <2>1. CASE TimerFires(r)
      BY <1>0, <1>1, <1>3, <2>1 DEF TimerFires
    <2>2. CASE ReconnectLaunch(r)
      <3> DEFINE closed == [client EXCEPT ![held[r]] = "none"]
      <3>1. closed \in [Engines -> Phases]
        BY <1>0 DEF Phases
      <3>2. Void("DISCONNECTED") \in Seq(Updates)
        BY VoidType DEF Statuses
      <3>3. InitializeEngine(r, closed, Void("DISCONNECTED"))
        BY <2>2 DEF ReconnectLaunch
      <3> HIDE DEF closed
      <3> QED BY <1>0, <1>3, <3>1, <3>2, <3>3
    <2>3. CASE DestroyRejects(r) \/ LaunchResolves(r)
      BY <1>1, <2>3 DEF DestroyRejects, LaunchResolves
    <2>4. CASE ReconnectRejects(r)
      BY <1>0, <1>4, <2>4 DEF ReconnectRejects
    <2> QED BY <1>7, <2>1, <2>2, <2>3, <2>4 DEF RunStep
  <1>8. ASSUME NEW e \in Engines, ClientStep(e) PROVE MapHoldsClient'
    BY <1>1, <1>5, <1>8
    DEF ClientStep, QrEmitted, QrRendered, Authenticated, Ready, Disconnected,
        Phases
  <1>9. CASE ApplyWrite
    BY <1>1, <1>9 DEF ApplyWrite
  <1>10. CASE ProcessStep
    <2>1. CASE ShutdownBegin
      BY <1>1, <1>2, <2>1 DEF ShutdownBegin, ClearMaps
    <2>2. CASE ShutdownDestroyed
      BY <1>0, <2>2 DEF ShutdownDestroyed, ClearMaps
    <2>3. CASE ShutdownRejects \/ Boot
      BY <1>1, <2>3 DEF ShutdownRejects, Boot
    <2>4. CASE ProcessEnds
      BY <2>4 DEF ProcessEnds
    <2> QED BY <1>10, <2>1, <2>2, <2>3, <2>4 DEF ProcessStep
  <1>11. CASE UNCHANGED vars
    BY <1>1, <1>11 DEF vars
  <1> QED BY <1>6, <1>7, <1>8, <1>9, <1>10, <1>11 DEF Next

\* getEngine never hands out an adapter that a stop, a delete, a reconnection
\* run or the shutdown has closed.
THEOREM MapHoldsClientHolds == Spec => []MapHoldsClient
  <1>1. Init => MapHoldsClient
    BY DEF Init, MapHoldsClient
  <1> QED BY <1>1, TypeCorrect, MapStep, PTL DEF Spec

-----------------------------------------------------------------------------
\* A removed row stays removed: only a row that exists takes an update.
THEOREM DeletedStaysDeletedHolds == Spec => DeletedStaysDeleted
  <1>1. [Next]_vars => [row = "DELETED" => row' = "DELETED"]_vars
    <2> SUFFICES ASSUME Next, row = "DELETED" PROVE row' = "DELETED"
      OBVIOUS
    <2>1. ASSUME NEW c \in Calls, CallStep(c) PROVE row' = "DELETED"
      BY <2>1
      DEF CallStep, StartCall, StartLaunch, LaunchResolves, StartRejects, Fail,
          StopCall, StopDisconnected, DeleteCall, DeleteDestroyed,
          DeleteRejects, DeleteRow
    <2>2. ASSUME NEW r \in Runs, RunStep(r) PROVE row' = "DELETED"
      BY <2>2
      DEF RunStep, TimerFires, ReconnectLaunch, DestroyRejects, LaunchResolves,
          ReconnectRejects, Fail
    <2>3. ASSUME NEW e \in Engines, ClientStep(e) PROVE row' = "DELETED"
      BY <2>3
      DEF ClientStep, QrEmitted, QrRendered, Authenticated, Ready, Disconnected
    <2>4. CASE ApplyWrite
      BY <2>4 DEF ApplyWrite, Updated
    <2>5. CASE ProcessStep
      BY <2>5
      DEF ProcessStep, ShutdownBegin, ShutdownDestroyed, ShutdownRejects,
          ProcessEnds, Boot, ResetAtBoot
    <2> QED BY <2>1, <2>2, <2>3, <2>4, <2>5 DEF Next
  <1> QED BY <1>1, PTL DEF Spec, DeletedStaysDeleted

-----------------------------------------------------------------------------
\* Without a start call past its check, a settled session has nobody left who
\* would create an engine, arm a timer or make up a reconnect state: clients
\* that are still open find no reconnect state to use.
LEMMA SettledStep ==
    TypeOK /\ Next /\ Settled => Settled' \/ \E c \in Calls : pc'[c] = "hook"
  <1> SUFFICES ASSUME TypeOK, Next, Settled, ~ \E c \in Calls : pc'[c] = "hook"
               PROVE  Settled'
    OBVIOUS
  <1>0. /\ pc \in [Procs -> Points] /\ Calls \subseteq Procs /\ Runs \subseteq Procs
        /\ Shutdown \in Procs /\ Shutdown \notin Runs /\ Calls \cap Runs = {}
        /\ retry \in [on : BOOLEAN, attempts : 0..MaxAttempts, timer : BOOLEAN]
    BY SessionAssumption DEF Procs, TypeOK
  <1>1. ASSUME NEW c \in Calls, CallStep(c) PROVE Settled'
    <2>1. CASE StartCall(c)
      BY <1>0, <2>1 DEF StartCall, Goto
    <2>2. CASE LaunchResolves(c)
      BY <1>0, <2>2 DEF LaunchResolves, Goto, Settled
    <2>3. CASE StartRejects(c)
      BY <1>0, <2>3 DEF StartRejects, Fail, Goto, Settled
    <2>4. CASE StopCall(c)
      BY <1>0, <2>4 DEF StopCall, CancelReconnect, NoState, Goto, Settled
    <2>5. CASE StopDisconnected(c)
      BY <1>0, <2>5 DEF StopDisconnected, Close, Goto, Settled
    <2>6. CASE DeleteCall(c)
      BY <1>0, <2>6 DEF DeleteCall, CancelReconnect, NoState, Goto, Settled
    <2>7. CASE DeleteDestroyed(c)
      BY <1>0, <2>7 DEF DeleteDestroyed, Close, Goto, Settled
    <2>8. CASE DeleteRejects(c) \/ DeleteRow(c)
      BY <1>0, <2>8 DEF DeleteRejects, DeleteRow, Goto, Settled
    <2>9. ~StartLaunch(c)
      BY DEF StartLaunch, Settled
    <2> QED
      BY <1>1, <2>1, <2>2, <2>3, <2>4, <2>5, <2>6, <2>7, <2>8, <2>9
      DEF CallStep
  <1>2. ASSUME NEW r \in Runs PROVE ~RunStep(r)
    BY DEF RunStep, TimerFires, ReconnectLaunch, DestroyRejects,
           LaunchResolves, ReconnectRejects, Fail, Settled
  <1>3. ASSUME NEW e \in Engines, ClientStep(e) PROVE Settled'
    <2>1. CASE QrEmitted(e) \/ QrRendered(e) \/ Authenticated(e)
      BY <2>1 DEF QrEmitted, QrRendered, Authenticated, Settled
    <2>2. CASE Ready(e)
      BY <1>0, <2>2 DEF Ready, Settled
    <2>3. CASE Disconnected(e)
      BY <2>3 DEF Disconnected, ScheduleReconnect, Settled
    <2> QED BY <1>3, <2>1, <2>2, <2>3 DEF ClientStep
  <1>4. CASE ApplyWrite
    <2>1. PICK p \in Procs : Goto(p, "idle", None) \/ UNCHANGED <<pc, held>>
      BY <1>0, <1>4 DEF ApplyWrite
    <2>2. UNCHANGED <<engine, retry, stray>>
      BY <1>4 DEF ApplyWrite
    <2> QED BY <1>0, <2>1, <2>2 DEF Goto, Settled
  <1>5. CASE ProcessStep
    <2>1. CASE ShutdownBegin
      BY <1>0, <2>1
      DEF ShutdownBegin, ClearMaps, CancelReconnect, NoState, Goto, Settled
    <2>2. CASE ShutdownDestroyed
      BY <1>0, <2>2
      DEF ShutdownDestroyed, ClearMaps, CancelReconnect, NoState, Goto, Settled
    <2>3. CASE ShutdownRejects
      BY <1>0, <2>3 DEF ShutdownRejects, Goto, Settled
    <2>4. CASE ProcessEnds
      BY <1>0, <2>4 DEF ProcessEnds, NoState, Settled
    <2>5. CASE Boot
      BY <2>5 DEF Boot, Settled
    <2> QED BY <1>5, <2>1, <2>2, <2>3, <2>4, <2>5 DEF ProcessStep
  <1> QED BY <1>1, <1>2, <1>3, <1>4, <1>5 DEF Next

\* A settled session is brought back by a new start call only: no event of a
\* surviving client, late update, timer or shutdown does it.
THEOREM StoppedStaysStoppedHolds == Spec => StoppedStaysStopped
  <1>1. TypeOK /\ [Next]_vars
        => [Settled => Settled' \/ \E c \in Calls : pc'[c] = "hook"]_vars
    BY SettledStep
  <1> QED BY <1>1, TypeCorrect, PTL DEF Spec, StoppedStaysStopped

-----------------------------------------------------------------------------
\* Before the first engine of a process there is nothing that could report an
\* active status: no client, no image being rendered, no launch, no update
\* left over from the process before.
AtRest == {"idle", "hook", "removing", "writing", "exiting"}

Unborn ==
    fresh =>
        /\ engine = None /\ rendering = {}
        /\ \A e \in Engines : client[e] = "none"
        /\ \A p \in Procs : pc[p] \in AtRest
        /\ \A k \in 1..Len(writes) : writes[k].status \notin Active
        /\ node = "up" => row \notin Active

Down ==
    node = "down" =>
        /\ fresh /\ writes = <<>>
        /\ \A p \in Procs : pc[p] = "idle"

FreshInv == Unborn /\ Down

\* A new process has created no engine.
LEMMA FreshInit == Init => FreshInv
  BY DEF Init, FreshInv, Unborn, Down, AtRest, Active

\* Every step keeps FreshInv: before its first engine nothing in a process can
\* report an active status, and a process that is down does nothing.
LEMMA FreshStep == TypeOK /\ FreshInv /\ [Next]_vars => FreshInv'
  <1> SUFFICES ASSUME TypeOK, FreshInv, [Next]_vars PROVE FreshInv'
    OBVIOUS
  <1>0. /\ pc \in [Procs -> Points] /\ Calls \subseteq Procs /\ Runs \subseteq Procs
        /\ Shutdown \in Procs /\ writes \in Seq(Updates) /\ fresh \in BOOLEAN
        /\ node \in {"up", "down"}
    BY DEF Procs, TypeOK, Updates
  <1>1. ASSUME node' = "up", fresh' = FALSE PROVE FreshInv'
    BY <1>1 DEF FreshInv, Unborn, Down
  <1>2. CASE UNCHANGED vars
    BY <1>2 DEF vars, FreshInv, Unborn, Down
  <1>3. CASE ProcessEnds
    BY <1>3 DEF ProcessEnds, FreshInv, Unborn, Down, AtRest
  <1>4. CASE Boot
    BY <1>4 DEF Boot, FreshInv, Unborn, Down, AtRest, ResetAtBoot, Active
  <1>5. ASSUME Next, ~ProcessEnds, ~Boot, ~fresh PROVE FreshInv'
    <2>1. node = "up" /\ fresh = FALSE
      BY <1>0, <1>5 DEF FreshInv, Down
    <2>2. node' = node /\ (fresh' = fresh \/ fresh' = FALSE)
      <3>1. ASSUME NEW c \in Calls, CallStep(c)
            PROVE  node' = node /\ (fresh' = fresh \/ fresh' = FALSE)
        BY <3>1
        DEF CallStep, StartCall, StartLaunch, InitializeEngine, LaunchResolves,
            StartRejects, Fail, StopCall, StopDisconnected, DeleteCall,
            DeleteDestroyed, DeleteRejects, DeleteRow
      <3>2. ASSUME NEW r \in Runs, RunStep(r)
            PROVE  node' = node /\ (fresh' = fresh \/ fresh' = FALSE)
        BY <3>2
        DEF RunStep, TimerFires, InitializeEngine, ReconnectLaunch,
            DestroyRejects, LaunchResolves, ReconnectRejects, Fail
      <3>3. ASSUME NEW e \in Engines, ClientStep(e)
            PROVE  node' = node /\ fresh' = fresh
        BY <3>3
        DEF ClientStep, QrEmitted, QrRendered, Authenticated, Ready,
            Disconnected
      <3>4. ASSUME ApplyWrite PROVE node' = node /\ fresh' = fresh
        BY <3>4 DEF ApplyWrite
      <3>5. ASSUME ProcessStep PROVE node' = node /\ fresh' = fresh
        BY <1>5, <3>5
        DEF ProcessStep, ShutdownBegin, ShutdownDestroyed, ShutdownRejects
      <3> QED BY <1>5, <3>1, <3>2, <3>3, <3>4, <3>5 DEF Next
    <2> QED BY <1>1, <2>1, <2>2
  <1>6. ASSUME Next, ~ProcessEnds, ~Boot, fresh PROVE FreshInv'
    <2>1. /\ engine = None /\ rendering = {}
          /\ \A e \in Engines : client[e] = "none"
          /\ \A p \in Procs : pc[p] \in AtRest
          /\ \A k \in 1..Len(writes) : writes[k].status \notin Active
          /\ node = "up" => row \notin Active
      BY <1>6 DEF FreshInv, Unborn
    <2>2. CASE node = "down"
      \* Nobody is at work and nothing is left to apply.
      <3>1. \A p \in Procs : pc[p] = "idle"
        BY <2>2 DEF FreshInv, Down
      <3>2. \A c \in Calls : ~CallStep(c)
        BY <1>0, <2>2, <3>1
        DEF CallStep, StartCall, StartLaunch, LaunchResolves, StartRejects,
            StopCall, StopDisconnected, DeleteCall, DeleteDestroyed,
            DeleteRejects, DeleteRow
      <3>3. \A r \in Runs : ~RunStep(r)
        BY <1>0, <2>2, <3>1
        DEF RunStep, TimerFires, ReconnectLaunch, DestroyRejects,
            LaunchResolves, ReconnectRejects
      <3>4. \A e \in Engines : ~ClientStep(e)
        BY <2>1
        DEF ClientStep, QrEmitted, QrRendered, Authenticated, Ready,
            Disconnected, Launched
      <3>5. ~ApplyWrite
        <4>1. writes = <<>>
          BY <2>2 DEF FreshInv, Down
        <4>2. 1..Len(writes) = {}
          BY <4>1
        <4> QED BY <4>2 DEF ApplyWrite
      <3>6. ~ShutdownBegin /\ ~ShutdownDestroyed /\ ~ShutdownRejects
        BY <1>0, <2>2, <3>1 DEF ShutdownBegin, ShutdownDestroyed, ShutdownRejects
      <3> QED BY <1>6, <3>2, <3>3, <3>4, <3>5, <3>6 DEF Next, ProcessStep
    <2>3. CASE node = "up"
      <3>1. ASSUME node' = "up", engine' = None, rendering' = {},
                   client' = client, writes' = writes, row' = row,
                   NEW p \in Procs, NEW point \in AtRest, NEW e,
                   Goto(p, point, e)
            PROVE  FreshInv'
        BY <1>0, <2>1, <2>3, <3>1 DEF Goto, FreshInv, Unborn, Down
      <3>2. ASSUME NEW p \in Procs, NEW clients, NEW before,
                   InitializeEngine(p, clients, before), node' = node
            PROVE  FreshInv'
        BY <1>1, <2>3, <3>2 DEF InitializeEngine
      <3>3. ASSUME NEW c \in Calls, CallStep(c) PROVE FreshInv'
        <4>1. CASE StartCall(c)
          BY <1>0, <2>1, <2>3, <3>1, <4>1 DEF StartCall, AtRest
        <4>2. CASE StartLaunch(c)
          BY <1>0, <3>2, <4>2 DEF StartLaunch
        <4>3. CASE StopCall(c)
          <5>1. Goto(c, "writing", None) /\ Issue(Awaited("DISCONNECTED", c))
            BY <2>1, <4>3 DEF StopCall
          <5>2. writes' = writes \o Awaited("DISCONNECTED", c)
            BY <5>1 DEF Issue
          <5>3. \A k \in 1..Len(writes') : writes'[k].status \notin Active
            BY <1>0, <2>1, <5>2 DEF Awaited, Active
          <5>4. \A p \in Procs : pc'[p] \in AtRest
            BY <1>0, <2>1, <5>1 DEF Goto, AtRest
          <5> QED BY <2>1, <2>3, <4>3, <5>3, <5>4 DEF StopCall, FreshInv, Unborn, Down
        <4>4. CASE DeleteCall(c)
          BY <1>0, <2>1, <2>3, <3>1, <4>4 DEF DeleteCall, AtRest
        <4>5. CASE DeleteRow(c)
          <5>1. \A p \in Procs : pc'[p] \in AtRest
            BY <1>0, <2>1, <4>5 DEF DeleteRow, Goto, AtRest
          <5> QED BY <2>1, <2>3, <4>5, <5>1 DEF DeleteRow, FreshInv, Unborn, Down, Active
        <4>6. /\ ~LaunchResolves(c) /\ ~StartRejects(c) /\ ~StopDisconnected(c)
              /\ ~DeleteDestroyed(c) /\ ~DeleteRejects(c)
          BY <1>0, <2>1
          DEF LaunchResolves, StartRejects, StopDisconnected, DeleteDestroyed,
              DeleteRejects, AtRest
        <4> QED BY <3>3, <4>1, <4>2, <4>3, <4>4, <4>5, <4>6 DEF CallStep
      <3>4. ASSUME NEW r \in Runs, RunStep(r) PROVE FreshInv'
        <4>1. CASE TimerFires(r)
          BY <1>0, <2>1, <3>2, <4>1 DEF TimerFires
        <4>2. /\ ~ReconnectLaunch(r) /\ ~DestroyRejects(r) /\ ~LaunchResolves(r)
              /\ ~ReconnectRejects(r)
          BY <1>0, <2>1
          DEF ReconnectLaunch, DestroyRejects, LaunchResolves, ReconnectRejects,
              AtRest
        <4> QED BY <3>4, <4>1, <4>2 DEF RunStep
      <3>5. \A e \in Engines : ~ClientStep(e)
        BY <2>1
        DEF ClientStep, QrEmitted, QrRendered, Authenticated, Ready,
            Disconnected, Launched
      <3>6. CASE ApplyWrite
        <4>1. PICK n \in 1..Len(writes) :
                  /\ row' = Updated(writes[n].status)
                  /\ writes' = RemoveAt(writes, n)
                  /\ \/ writes[n].by \in Procs /\ Goto(writes[n].by, "idle", None)
                     \/ writes[n].by = None /\ UNCHANGED <<pc, held>>
          BY <3>6 DEF ApplyWrite
        <4>2. row' \notin Active
          BY <2>1, <2>3, <4>1 DEF Updated
        <4>3. \A k \in 1..Len(writes') : writes'[k].status \notin Active
          BY <1>0, <2>1, <4>1, RemoveAtType
        <4>4. \A p \in Procs : pc'[p] \in AtRest
          BY <1>0, <2>1, <4>1 DEF Goto, AtRest
        <4> QED BY <2>1, <2>3, <3>6, <4>2, <4>3, <4>4
                DEF ApplyWrite, FreshInv, Unborn, Down
      <3>7. CASE ShutdownBegin
        <4>1. Goto(Shutdown, "exiting", None) /\ engine' = None
          BY <2>1, <3>7 DEF ShutdownBegin, ClearMaps
        <4>2. UNCHANGED <<node, row, client, rendering, writes>>
          BY <3>7 DEF ShutdownBegin
        <4> QED BY <1>0, <2>1, <2>3, <3>1, <4>1, <4>2 DEF AtRest
      <3>8. ~ShutdownDestroyed /\ ~ShutdownRejects
        BY <1>0, <2>1 DEF ShutdownDestroyed, ShutdownRejects, AtRest
      <3> QED BY <1>6, <3>3, <3>4, <3>5, <3>6, <3>7, <3>8 DEF Next, ProcessStep
    <2> QED BY <1>0, <2>2, <2>3
  <1> QED BY <1>2, <1>3, <1>4, <1>5, <1>6

\* After a restart, and until an engine is created again, no row says that its
\* session is running.
THEOREM RestartResetsHolds == Spec => []RestartResets
  <1>1. FreshInv => RestartResets
    BY DEF FreshInv, Unborn, RestartResets
  <1> QED BY <1>1, TypeCorrect, FreshInit, FreshStep, PTL DEF Spec

-----------------------------------------------------------------------------
\* Whoever awaits an update is at that await, and awaits no other.
Awaiting ==
    /\ \A k \in 1..Len(writes) :
          writes[k].by # None => pc[writes[k].by] = "writing"
    /\ \A j, k \in 1..Len(writes) :
          writes[j].by = writes[k].by /\ writes[j].by # None => j = k

\* Updates a step of p issues: p awaits at most the last of them, and if so it is
\* at that await afterwards.
Issued(ws, p, point) ==
    /\ ws \in Seq(Updates)
    /\ \A k \in 1..Len(ws) :
          ws[k].by # None => ws[k].by = p /\ point = "writing" /\ k = Len(ws)

\* What the handlers issue is of that form.
LEMMA IssuedForms ==
    ASSUME NEW p \in Procs, NEW s \in Statuses, NEW t \in Statuses, NEW point
    PROVE  /\ Issued(<<>>, p, point)
           /\ Issued(Void(s), p, point)
           /\ Issued(Void(s) \o <<>>, p, point)
           /\ Issued(<<>> \o Void(s), p, point)
           /\ Issued(Void(s) \o Void(t), p, point)
           /\ Issued(Awaited(s, p), p, "writing")
           /\ Issued(Void(s) \o Awaited(t, p), p, "writing")
  BY SessionAssumption DEF Issued, Void, Awaited, Updates, Procs

\* A process that awaits no update moves on and issues some.
LEMMA AwaitingMoves ==
    ASSUME TypeOK, Awaiting, NEW p \in Procs, NEW point \in Points, NEW ws,
           pc[p] # "writing", pc' = [pc EXCEPT ![p] = point],
           Issued(ws, p, point), writes' = writes \o ws
    PROVE  Awaiting'
  <1>0. /\ pc \in [Procs -> Points] /\ writes \in Seq(Updates) /\ ws \in Seq(Updates)
        /\ None \notin Procs
    BY SessionAssumption DEF TypeOK, Updates, Issued, Procs
  <1>1. \A k \in 1..Len(writes) :
            writes[k].by # None => writes[k].by # p /\ writes[k].by \in Procs
    <2> SUFFICES ASSUME NEW k \in 1..Len(writes), writes[k].by # None
                 PROVE  writes[k].by # p /\ writes[k].by \in Procs
      OBVIOUS
    <2>1. writes[k] \in Updates BY <1>0
    <2>2. pc[writes[k].by] = "writing" BY DEF Awaiting
    <2> QED BY <2>1, <2>2 DEF Updates
  <1>2. \A k \in 1..Len(writes') :
            \/ k \in 1..Len(writes) /\ writes'[k] = writes[k]
            \/ k - Len(writes) \in 1..Len(ws) /\ writes'[k] = ws[k - Len(writes)]
    BY <1>0
  <1>3. Len(writes') = Len(writes) + Len(ws) BY <1>0
  <1>4. ASSUME NEW k \in 1..Len(writes'), writes'[k].by # None
        PROVE  pc'[writes'[k].by] = "writing"
    BY <1>0, <1>1, <1>2, <1>4 DEF Awaiting, Issued
  <1>5. ASSUME NEW j \in 1..Len(writes'), NEW k \in 1..Len(writes'),
               writes'[j].by = writes'[k].by, writes'[j].by # None
        PROVE  j = k
    <2>1. CASE j \in 1..Len(writes) /\ writes'[j] = writes[j]
      <3>1. writes'[k].by # p BY <1>1, <1>5, <2>1
      <3>2. k \in 1..Len(writes) /\ writes'[k] = writes[k]
        BY <1>2, <1>5, <3>1 DEF Issued
      <3> QED BY <1>5, <2>1, <3>2 DEF Awaiting
    <2>2. CASE j - Len(writes) \in 1..Len(ws) /\ writes'[j] = ws[j - Len(writes)]
      <3>1. writes'[j].by = p /\ j - Len(writes) = Len(ws) BY <1>5, <2>2 DEF Issued
      <3>2. k - Len(writes) \in 1..Len(ws) /\ writes'[k] = ws[k - Len(writes)]
        BY <1>1, <1>2, <1>5, <3>1
      <3>3. k - Len(writes) = Len(ws) BY <1>5, <3>2 DEF Issued
      <3> QED BY <1>0, <3>1, <3>3
    <2> QED BY <1>2, <2>1, <2>2
  <1> QED BY <1>4, <1>5 DEF Awaiting

\* A client reports something, and no process moves.
LEMMA AwaitingReports ==
    ASSUME TypeOK, Awaiting, NEW ws, UNCHANGED pc,
           Issued(ws, Shutdown, "exiting"), writes' = writes \o ws
    PROVE  Awaiting'
  <1>0. writes \in Seq(Updates) /\ ws \in Seq(Updates)
    BY DEF TypeOK, Updates, Issued
  <1>1. \A k \in 1..Len(writes') :
            \/ k \in 1..Len(writes) /\ writes'[k] = writes[k]
            \/ k - Len(writes) \in 1..Len(ws) /\ writes'[k] = ws[k - Len(writes)]
    BY <1>0
  <1>2. \A k \in 1..Len(writes') :
            writes'[k].by # None => k \in 1..Len(writes) /\ writes'[k] = writes[k]
    BY <1>1 DEF Issued
  <1> QED BY <1>2 DEF Awaiting

\* The database takes one update out of the sequence, and the others keep their
\* order.
LEMMA RemoveAtOthers ==
    ASSUME NEW S, NEW s \in Seq(S), NEW n \in 1..Len(s)
    PROVE  /\ Len(RemoveAt(s, n)) = Len(s) - 1
           /\ \A j \in 1..Len(s) - 1 :
                  RemoveAt(s, n)[j] = IF j < n THEN s[j] ELSE s[j + 1]
  <1> DEFINE front == SubSeq(s, 1, n - 1)
             back == SubSeq(s, n + 1, Len(s))
  <1>1. RemoveAt(s, n) = front \o back BY DEF RemoveAt
  <1>2. front \in Seq(S) /\ back \in Seq(S) OBVIOUS
  <1>3. Len(front) = n - 1 /\ Len(back) = Len(s) - n OBVIOUS
  <1>4. \A j \in 1..n - 1 : front[j] = s[j] OBVIOUS
  <1>5. \A j \in 1..Len(s) - n : back[j] = s[j + n] OBVIOUS
  <1> HIDE DEF front, back
  <1>6. Len(front \o back) = Len(s) - 1 BY <1>2, <1>3
  <1>7. ASSUME NEW j \in 1..Len(s) - 1
        PROVE  (front \o back)[j] = IF j < n THEN s[j] ELSE s[j + 1]
    <2>1. CASE j < n
      BY <1>2, <1>3, <1>4, <2>1
    <2>2. CASE ~(j < n)
      <3>1. (front \o back)[j] = back[j - (n - 1)] BY <1>2, <1>3, <2>2
      <3>2. j - (n - 1) \in 1..Len(s) - n BY <2>2
      <3>3. back[j - (n - 1)] = s[j + 1] BY <3>2, <1>5
      <3> QED BY <2>2, <3>1, <3>3
    <2> QED BY <2>1, <2>2
  <1> QED BY <1>1, <1>6, <1>7

\* The update that a process awaits is applied, and no other is awaited by it.
LEMMA AwaitingApplies ==
    ASSUME TypeOK, Awaiting, ApplyWrite
    PROVE  Awaiting'
  <1>0. /\ pc \in [Procs -> Points] /\ writes \in Seq(Updates) /\ None \notin Procs
    BY SessionAssumption DEF TypeOK, Updates, Procs
  <1>1. PICK n \in 1..Len(writes) :
            /\ writes' = RemoveAt(writes, n)
            /\ \/ writes[n].by \in Procs /\ Goto(writes[n].by, "idle", None)
               \/ writes[n].by = None /\ UNCHANGED <<pc, held>>
    BY DEF ApplyWrite
  <1> DEFINE old(j) == IF j < n THEN j ELSE j + 1
  <1>2. /\ Len(writes') = Len(writes) - 1
        /\ \A j \in 1..Len(writes') :
              old(j) \in 1..Len(writes) /\ old(j) # n /\ writes'[j] = writes[old(j)]
    <2>1. /\ Len(writes') = Len(writes) - 1
          /\ \A j \in 1..Len(writes) - 1 :
                writes'[j] = IF j < n THEN writes[j] ELSE writes[j + 1]
      BY <1>0, <1>1, RemoveAtOthers
    <2> QED BY <1>0, <2>1
  <1>3. \A j, k \in 1..Len(writes') : old(j) = old(k) => j = k
    BY <1>2
  <1> HIDE DEF old
  <1>4. ASSUME NEW j \in 1..Len(writes'), writes'[j].by # None
        PROVE  pc'[writes'[j].by] = "writing"
    <2>1. writes'[j].by # writes[n].by BY <1>2, <1>4 DEF Awaiting
    <2>2. writes'[j].by \in Procs /\ pc[writes'[j].by] = "writing"
      <3>1. writes[old(j)] \in Updates BY <1>0, <1>2
      <3> QED BY <1>2, <1>4, <3>1 DEF Awaiting, Updates
    <2> QED BY <1>0, <1>1, <2>1, <2>2 DEF Goto
  <1>5. ASSUME NEW j \in 1..Len(writes'), NEW k \in 1..Len(writes'),
               writes'[j].by = writes'[k].by, writes'[j].by # None
        PROVE  j = k
    <2>1. old(j) = old(k) BY <1>2, <1>5 DEF Awaiting
    <2> QED BY <1>3, <2>1
  <1> QED BY <1>4, <1>5 DEF Awaiting

\* A process is at the await it says in every step.
LEMMA AwaitingStep == TypeOK /\ Awaiting /\ [Next]_vars => Awaiting'
  <1> SUFFICES ASSUME TypeOK, Awaiting, [Next]_vars PROVE Awaiting'
    OBVIOUS
  <1>0. /\ Calls \subseteq Procs /\ Runs \subseteq Procs /\ Shutdown \in Procs
        /\ writes \in Seq(Updates) /\ pc \in [Procs -> Points]
    BY DEF Procs, TypeOK, Updates
  <1>1. ASSUME NEW p \in Procs, NEW point \in Points, NEW e,
               Goto(p, point, e), pc[p] # "writing", writes' = writes
        PROVE  Awaiting'
    <2>1. Issued(<<>>, p, point) /\ writes' = writes \o <<>>
      BY <1>0, <1>1 DEF Issued, Updates
    <2> QED BY <1>1, <2>1, AwaitingMoves DEF Goto
  <1>2. ASSUME NEW p \in Procs, NEW point \in Points, NEW e, NEW ws,
               Goto(p, point, e), pc[p] # "writing", Issue(ws), Issued(ws, p, point)
        PROVE  Awaiting'
    BY <1>2, AwaitingMoves DEF Goto, Issue
  <1>3. ASSUME NEW p \in Procs, NEW clients, NEW before,
               InitializeEngine(p, clients, before), pc[p] # "writing",
               Issued(before \o Void("INITIALIZING"), p, "launching")
        PROVE  Awaiting'
    BY <1>2, <1>3 DEF InitializeEngine, Points
  <1>4. {"INITIALIZING", "DISCONNECTED", "FAILED", "QR_READY", "AUTHENTICATING", "READY"}
            \subseteq Statuses
    BY DEF Statuses, Active
  <1>5. ASSUME NEW c \in Calls, CallStep(c) PROVE Awaiting'
    <2>1. CASE StartCall(c)
      BY <1>0, <1>1, <2>1 DEF StartCall, Points
    <2>2. CASE StartLaunch(c)
      BY <1>0, <1>3, <1>4, <2>2, IssuedForms DEF StartLaunch
    <2>3. CASE LaunchResolves(c)
      BY <1>0, <1>2, <1>4, <2>3, IssuedForms DEF LaunchResolves, Points
    <2>4. CASE StartRejects(c)
      BY <1>0, <1>2, <1>4, <2>4, IssuedForms DEF StartRejects, Fail, Points
    <2>5. CASE StopCall(c)
      BY <1>0, <1>1, <1>2, <1>4, <2>5, IssuedForms DEF StopCall, Points
    <2>6. CASE StopDisconnected(c)
      BY <1>0, <1>2, <1>4, <2>6, IssuedForms DEF StopDisconnected, Close, Points
    <2>7. CASE DeleteCall(c)
      BY <1>0, <1>1, <2>7 DEF DeleteCall, Points
    <2>8. CASE DeleteDestroyed(c)
      BY <1>0, <1>2, <1>4, <2>8, IssuedForms DEF DeleteDestroyed, Close, Points
    <2>9. CASE DeleteRejects(c) \/ DeleteRow(c)
      BY <1>0, <1>1, <2>9 DEF DeleteRejects, DeleteRow, Points
    <2> QED
      BY <1>5, <2>1, <2>2, <2>3, <2>4, <2>5, <2>6, <2>7, <2>8, <2>9 DEF CallStep
  <1>6. ASSUME NEW r \in Runs, RunStep(r) PROVE Awaiting'
    <2>1. CASE TimerFires(r)
      BY <1>0, <1>1, <1>3, <1>4, <2>1, IssuedForms DEF TimerFires, Points
    <2>2. CASE ReconnectLaunch(r)
      BY <1>0, <1>3, <1>4, <2>2, IssuedForms DEF ReconnectLaunch
    <2>3. CASE DestroyRejects(r)
      BY <1>0, <1>1, <2>3 DEF DestroyRejects, Points
    <2>4. CASE LaunchResolves(r)
      BY <1>0, <1>2, <1>4, <2>4, IssuedForms DEF LaunchResolves, Points
    <2>5. CASE ReconnectRejects(r)
      BY <1>0, <1>2, <1>4, <2>5, IssuedForms DEF ReconnectRejects, Fail, Points
    <2> QED BY <1>6, <2>1, <2>2, <2>3, <2>4, <2>5 DEF RunStep
  <1>7. ASSUME NEW e \in Engines, ClientStep(e) PROVE Awaiting'
    <2>1. CASE QrEmitted(e)
      BY <2>1 DEF QrEmitted, Awaiting
    <2>2. CASE QrRendered(e) \/ Authenticated(e) \/ Ready(e) \/ Disconnected(e)
      <3>1. PICK ws : Issued(ws, Shutdown, "exiting") /\ Issue(ws)
        BY <1>0, <1>4, <2>2, IssuedForms
        DEF QrRendered, Authenticated, Ready, Disconnected
      <3>2. UNCHANGED pc
        BY <2>2 DEF QrRendered, Authenticated, Ready, Disconnected
      <3> QED BY <3>1, <3>2, AwaitingReports DEF Issue
    <2> QED BY <1>7, <2>1, <2>2 DEF ClientStep
  <1>8. CASE ApplyWrite
    BY <1>8, AwaitingApplies
  <1>9. CASE ProcessStep
    <2>1. CASE ShutdownBegin
      BY <1>0, <1>1, <2>1 DEF ShutdownBegin, ClearMaps, Points
    <2>2. CASE ShutdownDestroyed
      BY <1>0, <1>2, <1>4, <2>2, IssuedForms DEF ShutdownDestroyed, ClearMaps, Points
    <2>3. CASE ShutdownRejects
      BY <1>0, <1>1, <2>3 DEF ShutdownRejects, Points
    <2>4. CASE ProcessEnds
      BY <2>4 DEF ProcessEnds, Awaiting
    <2>5. CASE Boot
      BY <2>5 DEF Boot, Awaiting
    <2> QED BY <1>9, <2>1, <2>2, <2>3, <2>4, <2>5 DEF ProcessStep
  <1>10. CASE UNCHANGED vars
    BY <1>10 DEF vars, Awaiting
  <1> QED BY <1>5, <1>6, <1>7, <1>8, <1>9, <1>10 DEF Next

\* Retries are owed, and no timer is there to begin one.
Owed ==
    /\ retry.on /\ retry.attempts \in 1..MaxAttempts - 1
    /\ ~retry.timer /\ stray = 0

\* The engine in the map is dead, or a call that launched it may yet report its
\* death, which schedules nothing.
Dying ==
    /\ engine # None
    /\ \/ client[engine] \in {"lost", "failed"}
       \/ \E c \in Calls : pc[c] = "launching" /\ held[c] = engine

\* Then a run is about to replace it, or to schedule the next attempt.
Responsible == Owed /\ Dying => \E r \in Runs : pc[r] = "destroying"

\* scheduleReconnect leaves a timer wherever attempts are left.
LEMMA ScheduleOwes ==
    ASSUME TypeOK, ScheduleReconnect
    PROVE  ~Owed'
  <1>0. /\ retry \in [on : BOOLEAN, attempts : 0..MaxAttempts, timer : BOOLEAN]
        /\ MaxAttempts \in Nat
    BY SessionAssumption DEF TypeOK
  <1>1. CASE retry.on /\ retry.attempts < MaxAttempts
    BY <1>0, <1>1 DEF ScheduleReconnect, Owed
  <1>2. CASE ~(retry.on /\ retry.attempts < MaxAttempts)
    BY <1>0, <1>2 DEF ScheduleReconnect, Owed
  <1> QED BY <1>1, <1>2

\* A new adapter is neither dead nor held by anybody but the process that made it.
LEMMA LaunchedLives ==
    ASSUME TypeOK, NEW p \in Procs, NEW clients \in [Engines -> Phases], NEW before,
           InitializeEngine(p, clients, before), p \notin Calls
    PROVE  ~Dying'
  <1>1. PICK e \in Engines :
            /\ Unused(e, p, clients) /\ engine' = e
            /\ client' = [clients EXCEPT ![e] = "launching"]
            /\ Goto(p, "launching", e)
    BY DEF InitializeEngine
  <1>2. client'[engine'] = "launching" BY <1>1
  <1>3. ASSUME NEW c \in Calls PROVE held'[c] # engine'
    BY <1>1 DEF Unused, Goto, Procs, TypeOK
  <1> QED BY <1>2, <1>3 DEF Dying

\* No step leaves retries owed to a dying engine without a run at it.
LEMMA ResponsibleStep == TypeOK /\ Awaiting /\ Responsible /\ [Next]_vars => Responsible'
  <1> SUFFICES ASSUME TypeOK, Awaiting, Responsible, [Next]_vars PROVE Responsible'
    OBVIOUS
  <1>0. /\ Calls \subseteq Procs /\ Runs \subseteq Procs /\ Shutdown \in Procs
        /\ Calls \cap Runs = {} /\ Shutdown \notin Calls \cup Runs
        /\ None \notin Procs /\ None \notin Engines
        /\ pc \in [Procs -> Points] /\ held \in [Procs -> Engines \cup {None}]
        /\ client \in [Engines -> Phases] /\ engine \in Engines \cup {None}
        /\ retry \in [on : BOOLEAN, attempts : 0..MaxAttempts, timer : BOOLEAN]
        /\ MaxAttempts \in Nat /\ stray \in Nat
    BY SessionAssumption DEF Procs, TypeOK
  <1>1. ASSUME ~Owed' PROVE Responsible'
    BY <1>1 DEF Responsible
  <1>2. ASSUME engine' = None PROVE Responsible'
    BY <1>2 DEF Responsible, Dying
  <1>3. ASSUME UNCHANGED <<engine, client, retry, stray>>,
               NEW p \in Procs \ Runs, NEW point \in Points \ {"launching"}, NEW e,
               Goto(p, point, e)
        PROVE  Responsible'
    <2>1. Owed' => Owed BY <1>3 DEF Owed
    <2>2. Dying' => Dying BY <1>0, <1>3 DEF Dying, Goto
    <2>3. \A r \in Runs : pc'[r] = pc[r] BY <1>0, <1>3 DEF Goto
    <2> QED BY <2>1, <2>2, <2>3 DEF Responsible
  <1>4. ASSUME NEW c \in Calls, CallStep(c) PROVE Responsible'
    <2>1. CASE StartCall(c)
      BY <1>0, <1>3, <2>1 DEF StartCall, Points
    <2>2. CASE StartLaunch(c)
      BY <1>0, <1>1, <2>2 DEF StartLaunch, Owed
    <2>3. CASE LaunchResolves(c)
      BY <1>0, <1>3, <2>3 DEF LaunchResolves, Points
    <2>4. CASE StartRejects(c)
      <3>1. /\ client' = [client EXCEPT ![held[c]] =
                             IF client[held[c]] = "none" THEN "none" ELSE "failed"]
            /\ pc[c] = "launching" /\ Goto(c, "idle", None)
            /\ UNCHANGED <<engine, retry, stray>>
        BY <2>4 DEF StartRejects, Fail
      <3>2. Owed' => Owed BY <3>1 DEF Owed
      <3>3. Dying' => Dying BY <1>0, <3>1 DEF Dying, Goto
      <3>4. \A r \in Runs : pc'[r] = pc[r] BY <1>0, <3>1 DEF Goto
      <3> QED BY <3>2, <3>3, <3>4 DEF Responsible
    <2>5. CASE StopCall(c) \/ DeleteCall(c)
      BY <1>1, <2>5 DEF StopCall, DeleteCall, CancelReconnect, NoState, Owed
    <2>6. CASE StopDisconnected(c) \/ DeleteDestroyed(c)
      BY <1>2, <2>6 DEF StopDisconnected, DeleteDestroyed, Close
    <2>7. CASE DeleteRejects(c) \/ DeleteRow(c)
      BY <1>0, <1>3, <2>7 DEF DeleteRejects, DeleteRow, Points
    <2> QED
      BY <1>4, <2>1, <2>2, <2>3, <2>4, <2>5, <2>6, <2>7 DEF CallStep
  <1>5. ASSUME NEW r \in Runs, RunStep(r) PROVE Responsible'
    <2>1. CASE TimerFires(r)
      <3>1. CASE InitializeEngine(r, client, <<>>)
        BY <1>0, <3>1, LaunchedLives DEF Responsible
      <3>2. CASE Goto(r, "destroying", engine)
        BY <1>0, <3>2 DEF Goto, Responsible
      <3> QED BY <2>1, <3>1, <3>2 DEF TimerFires
    <2>2. CASE ReconnectLaunch(r)
      <3> DEFINE closed == [client EXCEPT ![held[r]] = "none"]
      <3>1. closed \in [Engines -> Phases] BY <1>0 DEF Phases
      <3>2. InitializeEngine(r, closed, Void("DISCONNECTED"))
        BY <2>2 DEF ReconnectLaunch
      <3> HIDE DEF closed
      <3> QED BY <1>0, <3>1, <3>2, LaunchedLives DEF Responsible
    <2>3. CASE DestroyRejects(r) \/ ReconnectRejects(r)
      BY <1>1, <2>3, ScheduleOwes DEF DestroyRejects, ReconnectRejects
    <2>4. CASE LaunchResolves(r)
      <3>1. /\ pc[r] = "launching" /\ Goto(r, "writing", None)
            /\ UNCHANGED <<engine, client, retry, stray>>
        BY <2>4 DEF LaunchResolves
      <3>2. Owed' => Owed BY <3>1 DEF Owed
      <3>3. Dying' => Dying BY <1>0, <3>1 DEF Dying, Goto
      <3>4. \A q \in Runs : pc[q] = "destroying" => pc'[q] = "destroying"
        BY <1>0, <3>1 DEF Goto
      <3> QED BY <3>2, <3>3, <3>4 DEF Responsible
    <2> QED BY <1>5, <2>1, <2>2, <2>3, <2>4 DEF RunStep
  <1>6. ASSUME NEW e \in Engines, ClientStep(e) PROVE Responsible'
    <2>1. CASE QrEmitted(e) \/ QrRendered(e) \/ Authenticated(e)
      <3>1. /\ UNCHANGED <<engine, retry, stray, pc, held>>
            /\ \/ UNCHANGED client
               \/ client' = [client EXCEPT ![e] = "qr"]
               \/ client' = [client EXCEPT ![e] = "authenticated"]
        BY <2>1 DEF QrEmitted, QrRendered, Authenticated
      <3>2. Owed' => Owed BY <3>1 DEF Owed
      <3>3. Dying' => Dying BY <1>0, <3>1 DEF Dying
      <3> QED BY <3>1, <3>2, <3>3 DEF Responsible
    <2>2. CASE Ready(e)
      BY <1>0, <1>1, <2>2 DEF Ready, Owed
    <2>3. CASE Disconnected(e)
      BY <1>1, <2>3, ScheduleOwes DEF Disconnected
    <2> QED BY <1>6, <2>1, <2>2, <2>3 DEF ClientStep
  <1>7. CASE ApplyWrite
    <2>1. PICK n \in 1..Len(writes) :
              \/ writes[n].by \in Procs /\ Goto(writes[n].by, "idle", None)
              \/ writes[n].by = None /\ UNCHANGED <<pc, held>>
      BY <1>7 DEF ApplyWrite
    <2>2. UNCHANGED <<engine, client, retry, stray>>
      BY <1>7 DEF ApplyWrite
    <2>3. \A p \in Procs : \/ pc'[p] = pc[p] /\ held'[p] = held[p]
                           \/ pc[p] = "writing" /\ pc'[p] = "idle"
      BY <1>0, <2>1 DEF Awaiting, Goto
    <2>4. Owed' => Owed BY <2>2 DEF Owed
    <2>5. Dying' => Dying BY <1>0, <2>2, <2>3 DEF Dying
    <2>6. \A r \in Runs : pc[r] = "destroying" => pc'[r] = "destroying"
      BY <1>0, <2>3
    <2> QED BY <2>4, <2>5, <2>6 DEF Responsible
  <1>8. CASE ProcessStep
    <2>1. CASE ShutdownBegin
      BY <1>0, <1>2, <1>3, <2>1 DEF ShutdownBegin, ClearMaps, Points
    <2>2. CASE ShutdownDestroyed
      <3>1. CASE ClearMaps
        BY <1>2, <3>1 DEF ClearMaps
      <3>2. CASE /\ engine \notin {None, held[Shutdown]}
                 /\ Goto(Shutdown, "destroying", engine)
                 /\ UNCHANGED <<engine, retry, stray>>
        <4>1. client' = [client EXCEPT ![held[Shutdown]] = "none"]
          BY <2>2 DEF ShutdownDestroyed
        <4>2. Owed' => Owed BY <3>2 DEF Owed
        <4>3. Dying' => Dying BY <1>0, <3>2, <4>1 DEF Dying, Goto
        <4>4. \A r \in Runs : pc'[r] = pc[r] BY <1>0, <3>2 DEF Goto
        <4> QED BY <4>2, <4>3, <4>4 DEF Responsible
      <3> QED BY <2>2, <3>1, <3>2 DEF ShutdownDestroyed
    <2>3. CASE ShutdownRejects
      BY <1>0, <1>3, <2>3 DEF ShutdownRejects, Points
    <2>4. CASE ProcessEnds
      BY <1>2, <2>4 DEF ProcessEnds
    <2>5. CASE Boot
      BY <2>5 DEF Boot, Responsible, Owed, Dying
    <2> QED BY <1>8, <2>1, <2>2, <2>3, <2>4, <2>5 DEF ProcessStep
  <1>9. CASE UNCHANGED vars
    BY <1>9 DEF vars, Responsible, Owed, Dying
  <1> QED BY <1>4, <1>5, <1>6, <1>7, <1>8, <1>9 DEF Next

\* No dead engine is forgotten while attempts are left: a timer is pending, or a
\* run is destroying the engine to replace it.
THEOREM NoStallHolds == Spec => []NoStall
  <1>1. Init => Awaiting /\ Responsible
    BY DEF Init, Awaiting, Responsible, Dying
  <1>2. TypeOK /\ Responsible => NoStall
    <2> SUFFICES ASSUME TypeOK, Responsible, ~NoStall PROVE FALSE
      OBVIOUS
    <2>1. Owed /\ Dying
      <3>1. stray \in Nat /\ ~(stray > 0) BY SessionAssumption DEF TypeOK, NoStall
      <3>2. stray = 0 BY <3>1
      <3> QED BY <3>2 DEF NoStall, Owed, Dying
    <2>2. PICK r \in Runs : pc[r] = "destroying" BY <2>1 DEF Responsible
    <2>3. InFlight BY <2>2 DEF InFlight, Procs
    <2> QED BY <2>3 DEF NoStall
  <1> QED BY <1>1, <1>2, TypeCorrect, AwaitingStep, ResponsibleStep, PTL DEF Spec

-----------------------------------------------------------------------------
\* What reconnection can still cost: the timers that are armed, the runs that are
\* under way, and the attempts that are left.
Spare ==
    Overwritten + stray + (IF retry.on THEN MaxAttempts - retry.attempts ELSE 0)

Running == {r \in Runs : pc[r] # "idle"}

Budget == Spare + Cardinality(Running)

\* Only a client that is ready and a start call refill the budget, and every run
\* that ends takes from it: between two of those, reconnection ends after at
\* most as many runs as the budget says.
RunsArePaidFor ==
    [][~(\E e \in Engines : Ready(e)) /\ ~(\E c \in Calls : StartLaunch(c)) =>
        /\ Budget' <= Budget
        /\ (\E r \in Runs : pc[r] # "idle" /\ pc'[r] = "idle") => Budget' < Budget]_vars

\* A timer that is armed takes an attempt, or the place of one that goes astray.
LEMMA SchedulePays ==
    ASSUME TypeOK, ScheduleReconnect
    PROVE  Spare' = Spare
  <1>0. /\ retry \in [on : BOOLEAN, attempts : 0..MaxAttempts, timer : BOOLEAN]
        /\ MaxAttempts \in Nat /\ stray \in Nat
    BY SessionAssumption DEF TypeOK
  <1>1. CASE retry.on /\ retry.attempts < MaxAttempts
    <2>1. /\ retry' = [retry EXCEPT !.attempts = retry.attempts + 1, !.timer = TRUE]
          /\ stray' = stray + Overwritten
      BY <1>1 DEF ScheduleReconnect
    <2>2. /\ retry'.on /\ retry'.timer /\ retry'.attempts = retry.attempts + 1
      BY <1>0, <1>1, <2>1
    <2> QED BY <1>0, <1>1, <2>1, <2>2 DEF Spare, Overwritten
  <1>2. CASE ~(retry.on /\ retry.attempts < MaxAttempts)
    BY <1>2 DEF ScheduleReconnect, Spare, Overwritten
  <1> QED BY <1>1, <1>2

\* A stop, a delete and the shutdown give up what there was to spend.
LEMMA CancelPays ==
    ASSUME TypeOK, CancelReconnect
    PROVE  Spare' <= Spare
  BY SessionAssumption DEF TypeOK, CancelReconnect, NoState, Spare, Overwritten

\* What is to spend is a number.
LEMMA SpareType == ASSUME TypeOK PROVE Spare \in Nat
  BY SessionAssumption DEF TypeOK, Spare, Overwritten

\* How many runs there are after one has begun, ended, or moved on.
LEMMA RunningCounts ==
    ASSUME IsFiniteSet(Runs), TypeOK, NEW r \in Runs, NEW point, NEW e, Goto(r, point, e)
    PROVE  /\ Cardinality(Running) \in Nat /\ Cardinality(Running') \in Nat
           /\ pc[r] = "idle" /\ point # "idle" =>
                Cardinality(Running') = Cardinality(Running) + 1
           /\ pc[r] # "idle" /\ point = "idle" =>
                Cardinality(Running') = Cardinality(Running) - 1
           /\ pc[r] # "idle" /\ point # "idle" => Running' = Running
           /\ \A q \in Runs : pc[q] # "idle" /\ pc'[q] = "idle" => q = r /\ point = "idle"
  <1>0. pc' = [pc EXCEPT ![r] = point] /\ pc \in [Procs -> Points] /\ r \in Procs
        /\ Runs \subseteq Procs
    BY DEF Goto, TypeOK, Procs
  <1>1. IsFiniteSet(Running) /\ IsFiniteSet(Running')
    BY FS_Subset DEF Running
  <1>2. CASE pc[r] = "idle" /\ point # "idle"
    <2>1. Running' = Running \cup {r} /\ r \notin Running BY <1>0, <1>2 DEF Running
    <2> QED BY <1>0, <1>1, <1>2, <2>1, FS_AddElement, FS_CardinalityType
  <1>3. CASE pc[r] # "idle" /\ point = "idle"
    <2>1. Running' = Running \ {r} /\ r \in Running BY <1>0, <1>3 DEF Running
    <2> QED BY <1>0, <1>1, <1>3, <2>1, FS_RemoveElement, FS_CardinalityType
  <1>4. CASE pc[r] # "idle" /\ point # "idle"
    <2>1. Running' = Running BY <1>0, <1>4 DEF Running
    <2> QED BY <1>0, <1>1, <1>4, <2>1, FS_CardinalityType
  <1>5. CASE pc[r] = "idle" /\ point = "idle"
    BY <1>0, <1>1, <1>5, FS_CardinalityType
  <1> QED BY <1>2, <1>3, <1>4, <1>5

\* What each step does to the budget.
LEMMA BudgetStep ==
    ASSUME IsFiniteSet(Runs), TypeOK, Next,
           ~(\E e \in Engines : Ready(e)), ~(\E c \in Calls : StartLaunch(c))
    PROVE  /\ Budget' <= Budget
           /\ (\E r \in Runs : pc[r] # "idle" /\ pc'[r] = "idle") => Budget' < Budget
  <1> DEFINE Ended == \E r \in Runs : pc[r] # "idle" /\ pc'[r] = "idle"
             Goal == Budget' <= Budget /\ (Ended => Budget' < Budget)
  <1>0. /\ Calls \subseteq Procs /\ Runs \subseteq Procs /\ Shutdown \in Procs
        /\ Calls \cap Runs = {} /\ Shutdown \notin Calls \cup Runs
        /\ None \notin Procs /\ pc \in [Procs -> Points] /\ stray \in Nat
        /\ retry \in [on : BOOLEAN, attempts : 0..MaxAttempts, timer : BOOLEAN]
    BY SessionAssumption DEF Procs, TypeOK
  <1>1. Spare \in Nat /\ Cardinality(Running) \in Nat
    <2>1. IsFiniteSet(Running) BY FS_Subset DEF Running
    <2> QED BY <2>1, SpareType, FS_CardinalityType
  <1>2. TypeOK' BY TypeStep
  <1>3. Spare' \in Nat
    <2>1. ASSUME NEW x, x = Spare' PROVE x \in Nat
      BY <1>2, <2>1, SessionAssumption DEF TypeOK, Spare, Overwritten
    <2> QED BY <2>1
  <1>4. ASSUME Spare' <= Spare, \A r \in Runs : pc'[r] = pc[r] PROVE Goal
    <2>1. Running' = Running BY <1>4 DEF Running
    <2> QED BY <1>1, <1>3, <1>4, <2>1 DEF Budget
  <1>5. ASSUME NEW p \in Procs \ Runs, NEW point, NEW e, Goto(p, point, e)
        PROVE  \A r \in Runs : pc'[r] = pc[r]
    BY <1>0, <1>5 DEF Goto
  <1>6. ASSUME UNCHANGED <<retry, stray>> PROVE Spare' = Spare
    BY <1>6 DEF Spare, Overwritten
  <1>7. ASSUME NEW c \in Calls, CallStep(c) PROVE Goal
    <2>1. \A r \in Runs : pc'[r] = pc[r]
      <3>1. \E point, e : Goto(c, point, e)
        BY <1>7 DEF CallStep, StartCall, StartLaunch, InitializeEngine, LaunchResolves,
           StartRejects, Fail, StopCall, StopDisconnected, Close, DeleteCall,
           DeleteDestroyed, DeleteRejects, DeleteRow
      <3> QED BY <1>0, <1>5, <3>1
    <2>2. Spare' <= Spare
      <3>1. CASE StopCall(c) \/ DeleteCall(c)
        BY <3>1, CancelPays DEF StopCall, DeleteCall
      <3>2. CASE ~StopCall(c) /\ ~DeleteCall(c)
        <4>1. UNCHANGED <<retry, stray>>
          BY <1>7, <3>2
          DEF CallStep, StartCall, LaunchResolves, StartRejects, StopDisconnected,
              DeleteDestroyed, DeleteRejects, DeleteRow
        <4> QED BY <1>1, <1>6, <4>1
      <3> QED BY <3>1, <3>2
    <2> QED BY <1>4, <2>1, <2>2
  <1>8. ASSUME NEW r \in Runs, RunStep(r) PROVE Goal
    <2>1. CASE TimerFires(r)
      <3>1. PICK point, e : point \in {"launching", "destroying"} /\ Goto(r, point, e)
        BY <2>1 DEF TimerFires, InitializeEngine
      <3>2. Spare' = Spare - 1
        <4>1. CASE retry.timer /\ retry' = [retry EXCEPT !.timer = FALSE] /\ UNCHANGED stray
          BY <1>0, <4>1, SessionAssumption DEF Spare, Overwritten
        <4>2. CASE stray > 0 /\ stray' = stray - 1 /\ UNCHANGED retry
          BY <1>0, <4>2, SessionAssumption DEF Spare, Overwritten
        <4> QED BY <2>1, <4>1, <4>2 DEF TimerFires
      <3>3. pc[r] = "idle" BY <2>1 DEF TimerFires
      <3>4. /\ Cardinality(Running') = Cardinality(Running) + 1 /\ ~Ended
        BY <3>1, <3>3, RunningCounts
      <3> QED BY <1>1, <3>2, <3>4 DEF Budget
    <2>2. CASE ReconnectLaunch(r) \/ LaunchResolves(r)
      <3>1. PICK point, e : point \in {"launching", "writing"} /\ Goto(r, point, e)
        BY <2>2 DEF ReconnectLaunch, LaunchResolves, InitializeEngine
      <3>2. pc[r] # "idle" /\ UNCHANGED <<retry, stray>>
        BY <2>2 DEF ReconnectLaunch, LaunchResolves
      <3>3. Running' = Running /\ ~Ended BY <3>1, <3>2, RunningCounts
      <3> QED BY <1>1, <1>6, <3>2, <3>3 DEF Budget
    <2>3. CASE DestroyRejects(r) \/ ReconnectRejects(r)
      <3>1. Goto(r, "idle", None) /\ pc[r] # "idle" /\ ScheduleReconnect
        BY <2>3 DEF DestroyRejects, ReconnectRejects, Fail
      <3>2. Cardinality(Running') = Cardinality(Running) - 1 BY <3>1, RunningCounts
      <3>3. Spare' = Spare BY <3>1, SchedulePays
      <3> QED BY <1>1, <3>2, <3>3 DEF Budget
    <2> QED BY <1>8, <2>1, <2>2, <2>3 DEF RunStep
  <1>9. ASSUME NEW e \in Engines, ClientStep(e) PROVE Goal
    <2>1. UNCHANGED pc
      BY <1>9 DEF ClientStep, QrEmitted, QrRendered, Authenticated, Ready, Disconnected
    <2>2. Spare' <= Spare
      BY <1>1, <1>6, <1>9, SchedulePays
      DEF ClientStep, QrEmitted, QrRendered, Authenticated, Disconnected
    <2> QED BY <1>4, <2>1, <2>2
  <1>10. CASE ApplyWrite
    <2>1. PICK n \in 1..Len(writes) :
              \/ writes[n].by \in Procs /\ Goto(writes[n].by, "idle", None)
              \/ writes[n].by = None /\ UNCHANGED <<pc, held>>
      BY <1>10 DEF ApplyWrite
    <2>2. Spare' = Spare BY <1>6, <1>10 DEF ApplyWrite
    <2>3. CASE writes[n].by \in Runs /\ Goto(writes[n].by, "idle", None)
      <3> DEFINE r == writes[n].by
      <3>1. r \in Runs /\ Goto(r, "idle", None) BY <2>3
      <3> HIDE DEF r
      <3>2. CASE pc[r] = "idle"
        <4>1. pc' = pc BY <1>0, <3>1, <3>2 DEF Goto
        <4> QED BY <1>1, <1>4, <2>2, <4>1
      <3>3. CASE pc[r] # "idle"
        <4>1. Cardinality(Running') = Cardinality(Running) - 1
          BY <3>1, <3>3, RunningCounts
        <4> QED BY <1>1, <2>2, <4>1 DEF Budget
      <3> QED BY <3>2, <3>3
    <2>4. CASE writes[n].by \in Procs \ Runs /\ Goto(writes[n].by, "idle", None)
      BY <1>1, <1>4, <1>5, <2>2, <2>4
    <2>5. CASE UNCHANGED <<pc, held>>
      BY <1>1, <1>4, <2>2, <2>5
    <2> QED BY <2>1, <2>3, <2>4, <2>5
  <1>11. CASE ProcessStep
    <2>1. CASE ShutdownBegin \/ ShutdownDestroyed \/ ShutdownRejects
      <3>1. \E point, e : Goto(Shutdown, point, e)
        BY <2>1 DEF ShutdownBegin, ShutdownDestroyed, ShutdownRejects, ClearMaps
      <3>2. CancelReconnect \/ UNCHANGED <<retry, stray>>
        BY <2>1 DEF ShutdownBegin, ShutdownDestroyed, ShutdownRejects, ClearMaps
      <3>3. \A r \in Runs : pc'[r] = pc[r] BY <1>0, <1>5, <3>1
      <3>4. Spare' <= Spare BY <1>1, <1>6, <3>2, CancelPays
      <3> QED BY <1>4, <3>3, <3>4
    <2>2. CASE ProcessEnds
      <3>1. Running' = {} BY <1>0, <2>2 DEF ProcessEnds, Running
      <3>2. Cardinality(Running') = 0 BY <3>1, FS_EmptySet
      <3>3. Spare' = 0 BY <2>2 DEF ProcessEnds, Spare, Overwritten, NoState
      <3>4. Ended => Cardinality(Running) # 0
        <4>1. IsFiniteSet(Running) BY FS_Subset DEF Running
        <4>2. Ended => Running # {} BY DEF Running
        <4> QED BY <4>1, <4>2, FS_EmptySet
      <3> QED BY <1>1, <3>2, <3>3, <3>4 DEF Budget
    <2>3. CASE Boot
      BY <1>1, <1>4, <1>6, <2>3 DEF Boot
    <2> QED BY <1>11, <2>1, <2>2, <2>3 DEF ProcessStep
  <1> QED BY <1>7, <1>8, <1>9, <1>10, <1>11 DEF Next

\* Reconnection spends a budget that only a ready client and a start call refill,
\* however many timers and runs there are at a time.
THEOREM RunsArePaidForHolds ==
    ASSUME IsFiniteSet(Runs)
    PROVE  Spec => RunsArePaidFor
  <1>1. TypeOK /\ [Next]_vars =>
          [~(\E e \in Engines : Ready(e)) /\ ~(\E c \in Calls : StartLaunch(c)) =>
              /\ Budget' <= Budget
              /\ (\E r \in Runs : pc[r] # "idle" /\ pc'[r] = "idle") => Budget' < Budget]_vars
    BY BudgetStep
  <1> QED BY <1>1, TypeCorrect, PTL DEF Spec, RunsArePaidFor

-----------------------------------------------------------------------------
(***************************************************************************)
(* What the requests of EngineRequests meet.  That module has the session  *)
(* as its environment, reduced to what a request can notice: the entry of  *)
(* the map, which adapters have a client, which of them are ready, and     *)
(* whether there is a row.  Seen so, with no request around, every step    *)
(* here is one that it allows for, or none.                                *)
(***************************************************************************)

Live == {e \in Engines : client[e] # "none"}

ReadyOnes == {e \in Engines : client[e] = "ready"}

Noticed ==
    INSTANCE EngineRequests
    WITH Requests <- {}, requests <- [r \in {} |-> None],
         live <- Live, ready <- ReadyOnes, known <- row # "DELETED"

\* A step that changes nothing of it.
LEMMA NothingNoticed ==
    ASSUME UNCHANGED <<engine, client>>, (row # "DELETED")' <=> row # "DELETED"
    PROVE  UNCHANGED Noticed!vars
  BY DEF Noticed!vars, Live, ReadyOnes

\* A start, or a reconnection that has destroyed the adapter old.
LEMMA LaunchNoticed ==
    ASSUME TypeOK, NEW p, NEW old \in Engines \cup {None}, NEW clients, NEW before,
           clients = [client EXCEPT ![old] = "none"], InitializeEngine(p, clients, before),
           row' = row
    PROVE  Noticed!Next
  <1>0. client \in [Engines -> Phases] /\ None \notin Engines
    BY SessionAssumption DEF TypeOK
  <1>1. PICK e \in Engines : /\ clients[e] = "none" /\ engine' = e
                             /\ client' = [clients EXCEPT ![e] = "launching"]
    BY DEF InitializeEngine, Unused
  <1>2. e \notin Live \ {old} BY <1>0, <1>1 DEF Live
  <1>3. Live' = (Live \ {old}) \cup {e} BY <1>0, <1>1 DEF Live
  <1>4. ReadyOnes' = ReadyOnes \ {old} BY <1>0, <1>1 DEF ReadyOnes
  <1>5. Noticed!EngineStarts(old, e)
    BY <1>1, <1>2, <1>3, <1>4 DEF Noticed!EngineStarts
  <1> QED BY <1>5 DEF Noticed!Next, Noticed!SessionMoves

\* A stop, a delete or the shutdown has closed the adapter h, which another may
\* have closed before.
LEMMA CloseNoticed ==
    ASSUME TypeOK, NEW h \in Engines \cup {None}, client' = [client EXCEPT ![h] = "none"],
           engine' \in {engine, None}, row' = row
    PROVE  Noticed!Next \/ UNCHANGED Noticed!vars
  <1>0. client \in [Engines -> Phases] /\ None \notin Engines
    BY SessionAssumption DEF TypeOK
  <1>1. CASE h \in Live
    <2>1. Live' = Live \ {h} /\ ReadyOnes' = ReadyOnes \ {h} /\ h \in Engines
      BY <1>0, <1>1 DEF Live, ReadyOnes
    <2>2. Noticed!EngineCloses(h) BY <1>1, <2>1 DEF Noticed!EngineCloses
    <2> QED BY <2>1, <2>2 DEF Noticed!Next, Noticed!SessionMoves
  <1>2. CASE h \notin Live
    <2>1. client' = client BY <1>0, <1>2 DEF Live
    <2>2. CASE engine' = engine BY <2>1, <2>2, NothingNoticed
    <2>3. CASE engine' # engine
      <3>1. Noticed!EngineDeleted BY <2>1, <2>3 DEF Noticed!EngineDeleted, Live, ReadyOnes
      <3> QED BY <3>1 DEF Noticed!Next, Noticed!SessionMoves
    <2> QED BY <2>2, <2>3
  <1> QED BY <1>1, <1>2

\* A client that is not ready any more, or was not.
LEMMA LossNoticed ==
    ASSUME TypeOK, NEW h \in Engines \cup {None}, NEW phase \in {"lost", "failed"},
           client' = [client EXCEPT ![h] = IF @ = "none" THEN "none" ELSE phase],
           UNCHANGED <<engine, row>>
    PROVE  Noticed!Next \/ UNCHANGED Noticed!vars
  <1>0. client \in [Engines -> Phases] /\ None \notin Engines
    BY SessionAssumption DEF TypeOK
  <1>1. Live' = Live /\ ReadyOnes' = ReadyOnes \ {h}
    BY <1>0 DEF Live, ReadyOnes
  <1>2. CASE h \in ReadyOnes
    <2>1. Noticed!EngineLost(h) /\ h \in Engines
      BY <1>1, <1>2 DEF Noticed!EngineLost, ReadyOnes
    <2> QED BY <2>1 DEF Noticed!Next, Noticed!SessionMoves
  <1>3. CASE h \notin ReadyOnes
    BY <1>1, <1>3 DEF Noticed!vars
  <1> QED BY <1>2, <1>3

\* Every step is one that the requests allow for.
LEMMA StepNoticed == TypeOK /\ [Next]_vars => [Noticed!Next]_Noticed!vars
  <1> SUFFICES ASSUME TypeOK, [Next]_vars PROVE Noticed!Next \/ UNCHANGED Noticed!vars
    OBVIOUS
  <1> DEFINE Goal == Noticed!Next \/ UNCHANGED Noticed!vars
  <1>0. /\ client \in [Engines -> Phases] /\ None \notin Engines
        /\ held \in [Procs -> Engines \cup {None}] /\ engine \in Engines \cup {None}
        /\ Calls \subseteq Procs /\ Runs \subseteq Procs /\ Shutdown \in Procs
        /\ \A p \in Procs : held[p] \in Engines \cup {None}
    BY SessionAssumption DEF TypeOK, Procs
  <1>a. client = [client EXCEPT ![None] = "none"] BY <1>0
  <1>1. ASSUME NEW c \in Calls, CallStep(c) PROVE Goal
    <2>1. CASE StartLaunch(c)
      BY <1>a, <2>1, LaunchNoticed DEF StartLaunch
    <2>2. CASE StartRejects(c)
      BY <1>0, <2>2, LossNoticed DEF StartRejects, Fail
    <2>3. CASE StopDisconnected(c) \/ DeleteDestroyed(c)
      BY <1>0, <2>3, CloseNoticed DEF StopDisconnected, DeleteDestroyed, Close
    <2>4. CASE DeleteRow(c)
      <3>1. CASE row = "DELETED" BY <2>4, <3>1, NothingNoticed DEF DeleteRow
      <3>2. CASE row # "DELETED"
        <4>1. Noticed!SessionDeleted
          BY <2>4, <3>2 DEF DeleteRow, Noticed!SessionDeleted, Live, ReadyOnes
        <4> QED BY <4>1 DEF Noticed!Next, Noticed!SessionMoves
      <3> QED BY <3>1, <3>2
    <2>5. CASE StartCall(c) \/ LaunchResolves(c) \/ StopCall(c) \/ DeleteCall(c) \/ DeleteRejects(c)
      <3>1. UNCHANGED <<engine, client, row>>
        BY <2>5 DEF StartCall, LaunchResolves, StopCall, DeleteCall, DeleteRejects
      <3> QED BY <3>1, NothingNoticed
    <2> QED BY <1>1, <2>1, <2>2, <2>3, <2>4, <2>5 DEF CallStep
  <1>2. ASSUME NEW r \in Runs, RunStep(r) PROVE Goal
    <2>1. CASE TimerFires(r)
      <3>1. CASE engine = None /\ InitializeEngine(r, client, <<>>)
        BY <1>a, <2>1, <3>1, LaunchNoticed DEF TimerFires
      <3>2. CASE UNCHANGED <<engine, client>>
        BY <2>1, <3>2, NothingNoticed DEF TimerFires
      <3> QED BY <2>1, <3>1, <3>2 DEF TimerFires
    <2>2. CASE ReconnectLaunch(r)
      <3>1. held[r] \in Engines \cup {None} BY <1>0
      <3>2. /\ InitializeEngine(r, [client EXCEPT ![held[r]] = "none"], Void("DISCONNECTED"))
            /\ row' = row
        BY <2>2 DEF ReconnectLaunch
      <3> QED BY <3>1, <3>2, LaunchNoticed
    <2>3. CASE ReconnectRejects(r)
      BY <1>0, <2>3, LossNoticed DEF ReconnectRejects, Fail
    <2>4. CASE DestroyRejects(r) \/ LaunchResolves(r)
      BY <2>4, NothingNoticed DEF DestroyRejects, LaunchResolves
    <2> QED BY <1>2, <2>1, <2>2, <2>3, <2>4 DEF RunStep
  <1>3. ASSUME NEW e \in Engines, ClientStep(e) PROVE Goal
    <2>0. UNCHANGED <<engine, row>>
      BY <1>3 DEF ClientStep, QrEmitted, QrRendered, Authenticated, Ready, Disconnected
    <2>1. CASE QrEmitted(e) \/ QrRendered(e) \/ Authenticated(e)
      <3>1. Live' = Live /\ ReadyOnes' = ReadyOnes
        BY <1>0, <2>1 DEF QrEmitted, QrRendered, Authenticated, Live, ReadyOnes
      <3> QED BY <2>0, <3>1 DEF Noticed!vars
    <2>2. CASE Ready(e)
      <3>1. Live' = Live /\ ReadyOnes' = ReadyOnes \cup {e} /\ e \in Live \ ReadyOnes
        BY <1>0, <2>2 DEF Ready, Live, ReadyOnes
      <3>2. Noticed!EngineReady(e) BY <2>0, <3>1 DEF Noticed!EngineReady
      <3> QED BY <3>2 DEF Noticed!Next, Noticed!SessionMoves
    <2>3. CASE Disconnected(e)
      <3>1. client' = [client EXCEPT ![e] = IF @ = "none" THEN "none" ELSE "lost"]
        BY <1>0, <2>3 DEF Disconnected, Launched
      <3> QED BY <2>0, <3>1, LossNoticed
    <2> QED BY <1>3, <2>1, <2>2, <2>3 DEF ClientStep
  <1>4. CASE ApplyWrite
    <2>1. UNCHANGED <<engine, client>> BY <1>4 DEF ApplyWrite
    <2>2. (row # "DELETED")' <=> row # "DELETED"
      <3>1. PICK n \in 1..Len(writes) : row' = Updated(writes[n].status)
        BY <1>4 DEF ApplyWrite
      <3>2. writes[n].status # "DELETED"
        <4>1. writes \in Seq(Updates) BY DEF TypeOK, Updates
        <4>2. writes[n] \in Updates BY <4>1
        <4> QED BY <4>2 DEF Updates, Statuses, Active
      <3> QED BY <3>1, <3>2 DEF Updated
    <2> QED BY <2>1, <2>2, NothingNoticed
  <1>5. CASE ProcessStep
    <2>1. CASE ShutdownBegin
      <3>1. UNCHANGED <<engine, client, row>> BY <2>1 DEF ShutdownBegin, ClearMaps
      <3> QED BY <3>1, NothingNoticed
    <2>2. CASE ShutdownDestroyed
      <3>1. /\ client' = [client EXCEPT ![held[Shutdown]] = "none"] /\ row' = row
            /\ engine' \in {engine, None}
        BY <2>2 DEF ShutdownDestroyed, ClearMaps
      <3> QED BY <1>0, <3>1, CloseNoticed
    <2>3. CASE ShutdownRejects
      BY <2>3, NothingNoticed DEF ShutdownRejects
    <2>4. CASE ProcessEnds
      <3>1. Live' = {} /\ ReadyOnes' = {} /\ engine' = None /\ row' = row
        BY <2>4 DEF ProcessEnds, Live, ReadyOnes
      <3>2. Noticed!Restart BY <3>1 DEF Noticed!Restart
      <3> QED BY <3>2 DEF Noticed!Next
    <2>5. CASE Boot
      <3>1. (row # "DELETED")' <=> row # "DELETED" BY <2>5 DEF Boot, ResetAtBoot
      <3> QED BY <2>5, <3>1, NothingNoticed DEF Boot
    <2> QED BY <1>5, <2>1, <2>2, <2>3, <2>4, <2>5 DEF ProcessStep
  <1>6. CASE UNCHANGED vars
    BY <1>6, NothingNoticed DEF vars
  <1> QED BY <1>1, <1>2, <1>3, <1>4, <1>5, <1>6 DEF Next

\* The session keeps to what the requests are proved to stand: whatever calls,
\* reconnections, losses, shutdowns and crashes do to its engine, a request
\* meets nothing that EngineRequests leaves out.
THEOREM SessionIsTheirs == Spec => Noticed!Spec
  <1>1. Init => Noticed!Init
    BY DEF Init, Noticed!Init, Live, ReadyOnes
  <1> QED BY <1>1, StepNoticed, TypeCorrect, PTL DEF Spec, Noticed!Spec
=============================================================================
