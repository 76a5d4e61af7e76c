-------------------------- MODULE SessionLifecycle --------------------------
(***************************************************************************)
(* One WhatsApp session of the gateway: the row in the sessions table, the *)
(* two in-memory maps of SessionService (engines, reconnectStates), the    *)
(* engine adapters the service has created for the session, and everybody  *)
(* who works on them between two awaits: HTTP calls (start, stop, delete), *)
(* reconnection runs woken by timers, client events and process shutdown.  *)
(*                                                                         *)
(* Sessions share no state (both maps and the row are keyed by the id), so *)
(* one session stands for each of them.  An action is the code between two *)
(* awaits of one handler, with every synchronous call it makes.            *)
(***************************************************************************)
EXTENDS Naturals, Sequences, SequencesExt

CONSTANTS
    Engines,      \* adapters: a closed and unreferenced one is created anew
    Calls,        \* HTTP calls that may be in progress together
    Runs,         \* executeReconnect runs that may be in progress together
    Shutdown,     \* the process that runs onModuleDestroy
    None,
    MaxAttempts,  \* session.config.maxReconnectAttempts
    Ordered,      \* TRUE: the database applies the updates in issue order
    MaxCalls,     \* bound: start, stop and delete calls of a behaviour
    MaxStray,     \* bound: timers armed and no longer referenced
    MaxWrites     \* bound: updates issued and not yet applied

ASSUME SessionAssumption ==
    /\ None \notin Engines \cup Calls \cup Runs \cup {Shutdown}
    /\ Calls \cap Runs = {} /\ Shutdown \notin Calls \cup Runs
    /\ MaxAttempts \in Nat
    /\ Ordered \in BOOLEAN
    /\ MaxCalls \in Nat /\ MaxStray \in Nat /\ MaxWrites \in Nat

VARIABLES
    node,       \* the gateway process: "up" or "down"
    row,        \* sessions.status, "DELETED" once the row is removed
    engine,     \* engines.get(id)
    client,     \* what the client each adapter holds has gone through
    rendering,  \* adapters awaiting qrcode.toDataURL
    retry,      \* reconnectStates.get(id); timer: state.timer is pending
    stray,      \* pending timers that no state.timer refers to
    pc,         \* the await each process is at
    held,       \* the engine each process is awaiting on
    writes,     \* updates of the row under way, in issue order
    fresh,      \* no engine was created since the process booted
    calls       \* calls made so far

vars == <<node, row, engine, client, rendering, retry, stray, pc, held,
          writes, fresh, calls>>

Procs == Calls \cup Runs \cup {Shutdown}

Active == {"READY", "INITIALIZING", "QR_READY", "AUTHENTICATING"}
Statuses == Active \cup {"CREATED", "DISCONNECTED", "FAILED"}

\* "none": no client yet, or closed; "failed": its initialize() was rejected.
Phases == {"none", "launching", "qr", "authenticated", "ready", "lost",
           "failed"}

Points == {"idle", "hook", "launching", "destroying", "stopping", "removing",
           "writing", "exiting"}

NoState == [on |-> FALSE, attempts |-> 0, timer |-> FALSE]

TypeOK ==
    /\ node \in {"up", "down"}
    /\ row \in Statuses \cup {"DELETED"}
    /\ engine \in Engines \cup {None}
    /\ client \in [Engines -> Phases]
    /\ rendering \subseteq Engines
    /\ retry \in [on : BOOLEAN, attempts : 0..MaxAttempts, timer : BOOLEAN]
    /\ stray \in 0..MaxStray
    /\ pc \in [Procs -> Points]
    /\ held \in [Procs -> Engines \cup {None}]
    /\ writes \in Seq([status : Statuses, by : Procs \cup {None}])
    /\ fresh \in BOOLEAN
    /\ calls \in 0..MaxCalls

Init ==
    /\ node = "up"
    /\ row = "CREATED"
    /\ engine = None
    /\ client = [e \in Engines |-> "none"]
    /\ rendering = {}
    /\ retry = NoState
    /\ stray = 0
    /\ pc = [p \in Procs |-> "idle"]
    /\ held = [p \in Procs |-> None]
    /\ writes = <<>>
    /\ fresh = TRUE
    /\ calls = 0

-----------------------------------------------------------------------------
\* Helpers shared by the handlers.

\* `void this.updateStatus(id, s)`: nobody waits for the update.  The updates of
\* one status that the adapter's onStateChanged and the callback after it issue
\* in one step count as one.
Void(s) == <<[status |-> s, by |-> None]>>

\* `await this.updateStatus(id, s)` of process p.
Awaited(s, p) == <<[status |-> s, by |-> p]>>

Issue(ws) ==
    /\ Len(writes \o ws) <= MaxWrites
    /\ writes' = writes \o ws

Goto(p, point, e) ==
    /\ pc' = [pc EXCEPT ![p] = point]
    /\ held' = [held EXCEPT ![p] = e]

\* Timers left behind when the handle in state.timer is replaced or dropped
\* without clearTimeout.
Overwritten == IF retry.timer THEN 1 ELSE 0

\* Mutants of ScheduleReconnect: the attempts compared with <=, not counted,
\* and a reconnect state made up for a session that has none.
ScheduleOneTooMany ==
    \/ /\ retry.on /\ retry.attempts <= MaxAttempts
       /\ stray + Overwritten <= MaxStray
       /\ stray' = stray + Overwritten
       /\ retry' = [retry EXCEPT !.attempts = @ + 1, !.timer = TRUE]
    \/ /\ ~(retry.on /\ retry.attempts <= MaxAttempts)
       /\ UNCHANGED <<retry, stray>>

ScheduleUncounted ==
    /\ retry.on
    /\ stray + Overwritten <= MaxStray
    /\ stray' = stray + Overwritten
    /\ retry' = [retry EXCEPT !.timer = TRUE]

ScheduleUnasked ==
    /\ stray + Overwritten <= MaxStray
    /\ stray' = stray + Overwritten
    /\ retry' = [on |-> TRUE, attempts |-> 1, timer |-> TRUE]

ScheduleReconnect ==
    \/ /\ retry.on /\ retry.attempts < MaxAttempts
       /\ stray + Overwritten <= MaxStray
       /\ stray' = stray + Overwritten
       /\ retry' = [retry EXCEPT !.attempts = @ + 1, !.timer = TRUE]
    \/ /\ ~(retry.on /\ retry.attempts < MaxAttempts)
       /\ UNCHANGED <<retry, stray>>

CancelReconnect == retry' = NoState /\ UNCHANGED stray

\* An adapter the factory can return to p as a new object: nobody else refers
\* to it.
Unused(e, p, clients) ==
    /\ clients[e] = "none"
    /\ e \notin rendering
    /\ \A q \in Procs \ {p} : held[q] # e

\* initializeEngine up to `await engine.initialize`: a new adapter replaces
\* whatever the map held, and its client starts launching.  clients and before
\* are the adapters and the updates the same step has already changed.
InitializeEngine(p, clients, before) ==
    \E e \in Engines :
        /\ Unused(e, p, clients)
        /\ engine' = e
        /\ client' = [clients EXCEPT ![e] = "launching"]
        /\ Goto(p, "launching", e)
        /\ Issue(before \o Void("INITIALIZING"))
        /\ fresh' = FALSE

\* destroy() or disconnect() of the held engine resolved in a call: the adapter
\* dropped its client, and the map entry goes, whatever engine it is by now.
\* The mutant forgets the entry.
CloseKeepingEntry(c, after, point) ==
    /\ client' = [client EXCEPT ![held[c]] = "none"]
    /\ UNCHANGED engine
    /\ Issue(Void("DISCONNECTED") \o after)
    /\ Goto(c, point, None)

Close(c, after, point) ==
    /\ client' = [client EXCEPT ![held[c]] = "none"]
    /\ engine' = None
    /\ Issue(Void("DISCONNECTED") \o after)
    /\ Goto(c, point, None)

-----------------------------------------------------------------------------
\* POST /sessions/:id/start

\* findOne, the engines.has check, and the await of the 'session:starting' hook.
StartCall(c) ==
    /\ node = "up" /\ pc[c] = "idle" /\ calls < MaxCalls
    /\ row # "DELETED"
    /\ engine = None
    /\ calls' = calls + 1
    /\ Goto(c, "hook", None)
    /\ UNCHANGED <<node, row, engine, client, rendering, retry, stray, writes,
                   fresh>>

\* The hook returns: a new reconnect state replaces the old one, unexamined.
StartLaunch(c) ==
    /\ pc[c] = "hook"
    /\ retry' = [on |-> TRUE, attempts |-> 0, timer |-> FALSE]
    /\ stray + Overwritten <= MaxStray
    /\ stray' = stray + Overwritten
    /\ InitializeEngine(c, client, <<>>)
    /\ UNCHANGED <<node, row, rendering, calls>>

\* engine.initialize() resolves and the caller's status update is issued.
LaunchResolves(p) ==
    /\ pc[p] = "launching"
    /\ Issue(Awaited("INITIALIZING", p))
    /\ Goto(p, "writing", None)
    /\ UNCHANGED <<node, row, engine, client, rendering, retry, stray, fresh,
                   calls>>

\* The adapter reports FAILED and rethrows; the engine stays in the map.
Fail(p) ==
    /\ client' = [client EXCEPT ![held[p]] =
                      IF @ = "none" THEN "none" ELSE "failed"]
    /\ Issue(Void("FAILED"))
    /\ Goto(p, "idle", None)
    /\ UNCHANGED <<node, row, engine, rendering, fresh, calls>>

StartRejects(c) ==
    /\ pc[c] = "launching"
    /\ Fail(c)
    /\ UNCHANGED <<retry, stray>>

-----------------------------------------------------------------------------
\* Reconnection: the timer of scheduleReconnect runs executeReconnect.

TimerFires(r) ==
    /\ node = "up" /\ pc[r] = "idle"
    /\ \/ retry.timer /\ retry' = [retry EXCEPT !.timer = FALSE] /\ UNCHANGED stray
       \/ stray > 0 /\ stray' = stray - 1 /\ UNCHANGED retry
    /\ \/ /\ engine = None
          /\ InitializeEngine(r, client, <<>>)
       \/ /\ engine # None
          /\ Goto(r, "destroying", engine)
          /\ UNCHANGED <<engine, client, writes, fresh>>
    /\ UNCHANGED <<node, row, rendering, calls>>

\* oldEngine.destroy() resolves: whatever the map holds by now is dropped.
ReconnectLaunch(r) ==
    /\ pc[r] = "destroying"
    /\ InitializeEngine(r, [client EXCEPT ![held[r]] = "none"],
                        Void("DISCONNECTED"))
    /\ UNCHANGED <<node, row, rendering, retry, stray, calls>>

\* executeReconnect's catch: destroy() or initialize() was rejected.
DestroyRejects(r) ==
    /\ pc[r] = "destroying"
    /\ ScheduleReconnect
    /\ Goto(r, "idle", None)
    /\ UNCHANGED <<node, row, engine, client, rendering, writes, fresh, calls>>

\* A catch that only logs.
ReconnectGivesUp(r) ==
    /\ pc[r] = "launching"
    /\ Fail(r)
    /\ UNCHANGED <<retry, stray>>

ReconnectRejects(r) ==
    /\ pc[r] = "launching"
    /\ Fail(r)
    /\ ScheduleReconnect

-----------------------------------------------------------------------------
\* POST /sessions/:id/stop

\* findOne, cancelReconnect, and the await of engine.disconnect() if any.
StopCall(c) ==
    /\ node = "up" /\ pc[c] = "idle" /\ calls < MaxCalls
    /\ row # "DELETED"
    /\ calls' = calls + 1
    /\ CancelReconnect
    /\ \/ /\ engine # None
          /\ Goto(c, "stopping", engine)
          /\ UNCHANGED writes
       \/ /\ engine = None
          /\ Issue(Awaited("DISCONNECTED", c))
          /\ Goto(c, "writing", None)
    /\ UNCHANGED <<node, row, engine, client, rendering, fresh>>

\* disconnect() swallows an error of the client, so it always resolves.
StopDisconnected(c) ==
    /\ pc[c] = "stopping"
    /\ Close(c, Awaited("DISCONNECTED", c), "writing")
    /\ UNCHANGED <<node, row, rendering, retry, stray, fresh, calls>>

-----------------------------------------------------------------------------
\* DELETE /sessions/:id

DeleteCall(c) ==
    /\ node = "up" /\ pc[c] = "idle" /\ calls < MaxCalls
    /\ row # "DELETED"
    /\ calls' = calls + 1
    /\ CancelReconnect
    /\ \/ engine # None /\ Goto(c, "destroying", engine)
       \/ engine = None /\ Goto(c, "removing", None)
    /\ UNCHANGED <<node, row, engine, client, rendering, writes, fresh>>

DeleteDestroyed(c) ==
    /\ pc[c] = "destroying"
    /\ Close(c, <<>>, "removing")
    /\ UNCHANGED <<node, row, rendering, retry, stray, fresh, calls>>

\* destroy() throws: the call fails with the engine still in the map.
DeleteRejects(c) ==
    /\ pc[c] = "destroying"
    /\ Goto(c, "idle", None)
    /\ UNCHANGED <<node, row, engine, client, rendering, retry, stray, writes,
                   fresh, calls>>

\* The 'session:deleted' hook returned and the row is removed.
DeleteRow(c) ==
    /\ pc[c] = "removing"
    /\ row' = "DELETED"
    /\ Goto(c, "idle", None)
    /\ UNCHANGED <<node, engine, client, rendering, retry, stray, writes,
                   fresh, calls>>

-----------------------------------------------------------------------------
\* Events of the whatsapp-web.js client, as the adapter's handlers treat them.

Launched == {"launching", "qr", "authenticated", "ready"}

\* 'qr': the handler awaits toDataURL before it reports anything.  A bound: a
\* code is refreshed, 20 seconds on, with no update and no image under way.
QrEmitted(e) ==
    /\ client[e] \in {"launching", "qr"}
    /\ client[e] = "qr" => writes = <<>> /\ rendering = {}
    /\ client' = [client EXCEPT ![e] = "qr"]
    /\ rendering' = rendering \cup {e}
    /\ UNCHANGED <<node, row, engine, retry, stray, pc, held, writes, fresh,
                   calls>>

\* The image is ready, whatever has become of the client since.
QrRendered(e) ==
    /\ e \in rendering
    /\ rendering' = rendering \ {e}
    /\ Issue(Void("QR_READY"))
    /\ UNCHANGED <<node, row, engine, client, retry, stray, pc, held, fresh,
                   calls>>

Authenticated(e) ==
    /\ client[e] \in {"launching", "qr"}
    /\ client' = [client EXCEPT ![e] = "authenticated"]
    /\ Issue(Void("AUTHENTICATING"))
    /\ UNCHANGED <<node, row, engine, rendering, retry, stray, pc, held, fresh,
                   calls>>

\* onReady resets the attempts of the session, whichever engine is ready.
Ready(e) ==
    /\ client[e] = "authenticated"
    /\ client' = [client EXCEPT ![e] = "ready"]
    /\ retry' = [retry EXCEPT !.attempts = 0]
    /\ Issue(Void("READY"))
    /\ UNCHANGED <<node, row, engine, rendering, stray, pc, held, fresh, calls>>

\* 'disconnected', and 'auth_failure' which reports FAILED first.
Disconnected(e) ==
    /\ \/ client[e] \in Launched /\ Issue(Void("DISCONNECTED"))
       \/ client[e] \in Launched \ {"ready"} /\ Issue(Void("FAILED") \o Void("DISCONNECTED"))
    /\ client' = [client EXCEPT ![e] = "lost"]
    /\ ScheduleReconnect
    /\ UNCHANGED <<node, row, engine, rendering, pc, held, fresh, calls>>

-----------------------------------------------------------------------------
\* `UPDATE sessions SET status = ... WHERE id = ...` matches nothing once the
\* row is gone.  The mutant saves the entity instead, which inserts it again.
Upserted(s) == s

Updated(s) == IF row = "DELETED" THEN row ELSE s

\* The database applies an update and the process awaiting it, if any, goes on.
ApplyWrite ==
    \E i \in 1..Len(writes) :
        /\ Ordered => i = 1
        /\ row' = Updated(writes[i].status)
        /\ writes' = RemoveAt(writes, i)
        /\ \/ writes[i].by \in Procs /\ Goto(writes[i].by, "idle", None)
           \/ writes[i].by = None /\ UNCHANGED <<pc, held>>
        /\ UNCHANGED <<node, engine, client, rendering, retry, stray, fresh,
                       calls>>

-----------------------------------------------------------------------------
\* Shutdown (onModuleDestroy), the end of the process, and the next boot
\* (onModuleInit).

\* After the loop over the engines: both maps are emptied, timers cleared.
ClearMaps ==
    /\ engine' = None
    /\ CancelReconnect
    /\ Goto(Shutdown, "exiting", None)

ShutdownBegin ==
    /\ node = "up" /\ pc[Shutdown] = "idle"
    /\ \/ engine = None /\ ClearMaps
       \/ /\ engine # None
          /\ Goto(Shutdown, "destroying", engine)
          /\ UNCHANGED <<engine, retry, stray>>
    /\ UNCHANGED <<node, row, client, rendering, writes, fresh, calls>>

\* The loop visits an engine that was put into the map meanwhile if its entry
\* was deleted first; the model allows both outcomes.
ShutdownDestroyed ==
    /\ pc[Shutdown] = "destroying"
    /\ client' = [client EXCEPT ![held[Shutdown]] = "none"]
    /\ Issue(Void("DISCONNECTED"))
    /\ \/ ClearMaps
       \/ /\ engine \notin {None, held[Shutdown]}
          /\ Goto(Shutdown, "destroying", engine)
          /\ UNCHANGED <<engine, retry, stray>>
    /\ UNCHANGED <<node, row, rendering, fresh, calls>>

\* destroy() throws: the rest of onModuleDestroy is skipped, the exit goes on.
ShutdownRejects ==
    /\ pc[Shutdown] = "destroying"
    /\ Goto(Shutdown, "exiting", None)
    /\ UNCHANGED <<node, row, engine, client, rendering, retry, stray, writes,
                   fresh, calls>>

\* The process ends, by a crash or after "exiting"; updates under way are lost.
ProcessEnds ==
    /\ node = "up"
    /\ node' = "down"
    /\ engine' = None
    /\ client' = [e \in Engines |-> "none"]
    /\ rendering' = {}
    /\ retry' = NoState
    /\ stray' = 0
    /\ pc' = [p \in Procs |-> "idle"]
    /\ held' = [p \in Procs |-> None]
    /\ writes' = <<>>
    /\ fresh' = TRUE
    /\ UNCHANGED <<row, calls>>

\* The statuses onModuleInit treats as those of a running engine, and a list
\* that lacks the one added last.
ResetButOne == {"READY", "INITIALIZING", "QR_READY"}

ResetAtBoot == {"READY", "INITIALIZING", "QR_READY", "AUTHENTICATING"}

Boot ==
    /\ node = "down"
    /\ node' = "up"
    /\ row' = IF row \in ResetAtBoot THEN "DISCONNECTED" ELSE row
    /\ UNCHANGED <<engine, client, rendering, retry, stray, pc, held, writes,
                   fresh, calls>>

-----------------------------------------------------------------------------
CallStep(c) ==
    \/ StartCall(c) \/ StartLaunch(c) \/ LaunchResolves(c) \/ StartRejects(c)
    \/ StopCall(c) \/ StopDisconnected(c)
    \/ DeleteCall(c) \/ DeleteDestroyed(c) \/ DeleteRejects(c) \/ DeleteRow(c)

RunStep(r) ==
    \/ TimerFires(r) \/ ReconnectLaunch(r) \/ DestroyRejects(r)
    \/ LaunchResolves(r) \/ ReconnectRejects(r)

ClientStep(e) ==
    \/ QrEmitted(e) \/ QrRendered(e) \/ Authenticated(e) \/ Ready(e)
    \/ Disconnected(e)

ProcessStep ==
    \/ ShutdownBegin \/ ShutdownDestroyed \/ ShutdownRejects
    \/ ProcessEnds \/ Boot

Next ==
    \/ \E c \in Calls : CallStep(c)
    \/ \E r \in Runs : RunStep(r)
    \/ \E e \in Engines : ClientStep(e)
    \/ ApplyWrite
    \/ ProcessStep

Spec == Init /\ [][Next]_vars

-----------------------------------------------------------------------------
\* A launch and a destroy end, one way or the other, because the browser
\* driver times out; the event loop runs timers and hooks; the database
\* answers; an image is rendered.  Clients owe no event and callers owe no
\* call.  From MaxWrites = 3 on, refreshed QR codes alone cannot keep the bound
\* on updates closed for a step, so weak fairness is enough.
Fairness ==
    /\ \A c \in Calls :
        /\ WF_vars(StartLaunch(c))
        /\ WF_vars(LaunchResolves(c) \/ StartRejects(c))
        /\ WF_vars(StopDisconnected(c))
        /\ WF_vars(DeleteDestroyed(c) \/ DeleteRejects(c))
        /\ WF_vars(DeleteRow(c))
    /\ \A r \in Runs :
        /\ WF_vars(TimerFires(r))
        /\ WF_vars(ReconnectLaunch(r) \/ DestroyRejects(r))
        /\ WF_vars(LaunchResolves(r) \/ ReconnectRejects(r))
    /\ \A e \in Engines : WF_vars(QrRendered(e))
    /\ WF_vars(ShutdownDestroyed \/ ShutdownRejects)
    /\ WF_vars(ApplyWrite)

FairSpec == Spec /\ Fairness

-----------------------------------------------------------------------------
(***************************************************************************)
(* Safety                                                                  *)
(***************************************************************************)

\* The engine SessionService.getEngine hands out has a client: no path that
\* closes an adapter leaves it in the map, whichever calls and runs are
\* awaiting a destroy of the same or of another adapter meanwhile.
MapHoldsClient == engine # None => client[engine] # "none"

\* A boot makes up for what a crash left in the row: until the new process
\* creates an engine, the row claims no running engine (onModuleInit).
RestartResets == node = "up" /\ fresh => row \notin Active

InFlight == \E p \in Procs : pc[p] # "idle"

\* No lost retry: while reconnect attempts are counted and not used up, a dead
\* engine in the map means that a timer is pending or somebody is at work.
NoStall ==
    /\ engine # None /\ client[engine] \in {"lost", "failed"}
    /\ retry.on /\ retry.attempts \in 1..MaxAttempts - 1
    => retry.timer \/ stray > 0 \/ InFlight

\* A removed row never comes back, although clients, runs and calls that read
\* it before keep writing statuses.
DeletedStaysDeleted == [][row = "DELETED" => row' = "DELETED"]_vars

\* Nothing is left that could put an engine into the map.
Settled ==
    /\ engine = None
    /\ ~retry.on /\ ~retry.timer /\ stray = 0
    /\ \A r \in Runs : pc[r] = "idle"
    /\ \A c \in Calls : pc[c] # "hook"

\* A stopped session stays stopped: once settled, it takes a new start call to
\* bring it back, and no event of a client that survived does.
StoppedStaysStopped ==
    [][Settled => Settled' \/ \E c \in Calls : pc'[c] = "hook"]_vars

(***************************************************************************)
(* Liveness                                                                *)
(***************************************************************************)

\* The reconnect loop ends: unless clients become ready or calls start the
\* session again and again, timers and runs die out.
ReconnectSettles ==
    <>[][~(\E e \in Engines : Ready(e)) /\ ~(\E c \in Calls : StartLaunch(c))]_vars
    => <>[](~retry.timer /\ stray = 0 /\ \A r \in Runs : pc[r] = "idle")

(***************************************************************************)
(* What the repository says and the code does not keep.                    *)
(***************************************************************************)

\* session.service.ts:422: stop cancels any reconnection attempts, so a run
\* launches an engine only for a session that has its reconnect state.
StopCancelsReconnect ==
    [][(\E r \in Runs : pc'[r] = "launching" /\ pc[r] # "launching") => retry.on]_vars

\* session.service.spec.ts:231: a started session is not started again: two
\* browsers never run for one session.
OneClient ==
    \A e, f \in Engines : client[e] # "none" /\ client[f] # "none" => e = f

\* docs/05-database-design.md:292: `initializing` is "Starting browser &
\* WhatsApp", and :293 `qr_ready` is "QR code ready for scanning": with
\* nothing under way and the code shown, the row does not say initializing.
QrCodeIsAnnounced ==
    /\ node = "up" /\ ~InFlight /\ writes = <<>> /\ rendering = {}
    /\ engine # None /\ client[engine] = "qr"
    => row # "INITIALIZING"
=============================================================================
