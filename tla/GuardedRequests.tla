-------------------------- MODULE GuardedRequests --------------------------
(***************************************************************************)
(* A request on its way through the gateway: the guard validates its key   *)
(* (ApiKeys), while administrators change the key, and only an admitted    *)
(* request reaches its endpoint (EngineRequests), while the session comes  *)
(* and goes.  A restart of the process takes both down together.           *)
(***************************************************************************)
EXTENDS EngineRequests, ApiKeys

\* Each request is a call that presents the key.
ASSUME GuardAssumption == Requests \subseteq KeyCalls

guardedVars == <<vars, keyVars>>

GuardedInit == Init /\ KeysInit

\* canActivate has returned true: the route's handler is called.
Enters(r) == keyCalls[r].at = "admitted" /\ Begins(r)

\* The guard has thrown, and the request ends with 401 (or 500).
GuardStep ==
    /\ \/ \E r \in Requests : UseSteps(r)
       \/ \E c \in KeyCalls \ Requests : UseSteps(c) \/ AdminSteps(c)
    /\ UNCHANGED vars

RequestStep ==
    /\ \/ \E r \in Requests : Enters(r) \/ Continues(r)
       \/ SessionMoves
    /\ UNCHANGED keyVars

GuardedNext == GuardStep \/ RequestStep \/ (Restart /\ KeysRestart)

GuardedSpec ==
    /\ GuardedInit /\ [][GuardedNext]_guardedVars
    /\ Fairness

\* WhatsApp is asked for nothing by a request whose key did not admit it at some
\* moment of the guard's validation.
OnlyAdmittedAct == \A r \in Requests : requests[r].acted => keyCalls[r].open
=============================================================================
