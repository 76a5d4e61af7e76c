----------------------------- MODULE HookManager -----------------------------
(***************************************************************************)
(* The hooks of one event: the array of registrations that HookManager     *)
(* keeps sorted by priority, and the chains (calls of execute) that walk   *)
(* it, each awaiting one handler at a time.  register and unregister       *)
(* change the array in place, under the iterators of the chains;           *)
(* unregisterPlugin puts a new array in its place, and a chain under way   *)
(* goes on with the old one, which nobody can change any more.             *)
(***************************************************************************)
EXTENDS Integers, Sequences

CONSTANTS
    Plugins,      \* plugin identifiers
    Priorities,   \* priorities a plugin may ask for
    Chains,       \* calls of execute that may be under way together
    MaxHooks      \* bound: registrations in a behaviour

ASSUME HookAssumption == Priorities \subseteq Int /\ MaxHooks \in Nat

VARIABLES
    hooks,     \* the array of the event
    tracked,   \* the plugins that pluginHooks has an entry for
    issued,    \* registrations made so far
    clock,     \* the millisecond of the last registration
    chains     \* the calls of execute

hookVars == <<hooks, tracked, issued, clock, chains>>

\* `at` stands for Date.now() in the id `${pluginId}:${event}:${Date.now()}`:
\* registrations of one plugin within a millisecond share their id.  `n` tells
\* registrations apart and is not part of the program.
Registrations == [plugin : Plugins, priority : Priorities, at : 0..MaxHooks, n : 1..MaxHooks]

\* index: of the handler that is awaited; walked: the array that was replaced
\* under the chain, if `apart`; called: the handlers called, in order (history);
\* base: what was registered when the chain began; cut, grown: a hook was taken
\* out of its array, or put into it, meanwhile (all history).
Idle == [state |-> "idle", index |-> 0, apart |-> FALSE, walked |-> <<>>,
         called |-> <<>>, base |-> {}, cut |-> FALSE, grown |-> FALSE]

ChainRecords == [state : {"idle", "awaiting"}, index : Nat,
                 apart : BOOLEAN, walked : Seq(Registrations),
                 called : Seq(Registrations), base : SUBSET Registrations,
                 cut : BOOLEAN, grown : BOOLEAN]

HooksTypeOK ==
    /\ hooks \in Seq(Registrations)
    /\ tracked \in SUBSET Plugins
    /\ issued \in 0..MaxHooks
    /\ clock \in 0..MaxHooks
    /\ chains \in [Chains -> ChainRecords]

HooksInit ==
    /\ hooks = <<>> /\ tracked = {} /\ issued = 0 /\ clock = 0
    /\ chains = [c \in Chains |-> Idle]

Members(seq) == {seq[i] : i \in 1..Len(seq)}

HooksOf(p) == {r \in Members(hooks) : r.plugin = p}

\* The chain has the array of the event under its iterator.
OnLive(c) == chains[c].state = "awaiting" /\ ~chains[c].apart

\* A loop that looks the array up again for each handler.
WalkLive(c) == hooks

\* The array a chain walks.
Walk(c) == IF chains[c].apart THEN chains[c].walked ELSE hooks

-----------------------------------------------------------------------------
\* seq with r put after the first k, and seq without its k-th.
InsertAt(seq, k, r) == SubSeq(seq, 1, k) \o <<r>> \o SubSeq(seq, k + 1, Len(seq))

RemoveIndex(seq, k) == SubSeq(seq, 1, k - 1) \o SubSeq(seq, k + 1, Len(seq))

\* push and a stable sort: behind every hook of the same or a lower priority.
Register(p, priority) ==
    /\ issued < MaxHooks
    /\ issued' = issued + 1
    /\ \E at \in {clock, issued + 1}, k \in 0..Len(hooks) :
        /\ \A i \in 1..Len(hooks) : i <= k <=> hooks[i].priority <= priority
        /\ hooks' = InsertAt(hooks, k, [plugin |-> p, priority |-> priority,
                                        at |-> at, n |-> issued + 1])
        /\ clock' = at
    /\ tracked' = tracked \cup {p}
    /\ chains' = [c \in Chains |-> [chains[c] EXCEPT !.grown = @ \/ OnLive(c)]]

\* Drops the entry of the plugin with its first hook.
UnregisterForgetting(p, at) ==
    /\ \E k \in 1..Len(hooks) :
        /\ hooks[k].plugin = p /\ hooks[k].at = at
        /\ \A i \in 1..(k - 1) : ~(hooks[i].plugin = p /\ hooks[i].at = at)
        /\ hooks' = RemoveIndex(hooks, k)
    /\ tracked' = tracked \ {p}
    /\ chains' = [c \in Chains |-> [chains[c] EXCEPT !.cut = @ \/ OnLive(c)]]
    /\ UNCHANGED <<issued, clock>>

\* The first hook with the id, which may be another than the one that was meant;
\* the plugin keeps its (perhaps empty) entry in pluginHooks.
Unregister(p, at) ==
    /\ \E k \in 1..Len(hooks) :
        /\ hooks[k].plugin = p /\ hooks[k].at = at
        /\ \A i \in 1..(k - 1) : ~(hooks[i].plugin = p /\ hooks[i].at = at)
        /\ hooks' = RemoveIndex(hooks, k)
    /\ chains' = [c \in Chains |-> [chains[c] EXCEPT !.cut = @ \/ OnLive(c)]]
    /\ UNCHANGED <<tracked, issued, clock>>

\* filter: the hooks of the other plugins, in their order.
FilteredOut(p) ==
    \E n \in 0..Len(hooks) : \E kept \in [1..n -> 1..Len(hooks)] :
        /\ \A i, j \in 1..n : i < j => kept[i] < kept[j]
        /\ \A k \in 1..Len(hooks) : hooks[k].plugin # p <=> \E i \in 1..n : kept[i] = k
        /\ hooks' = [i \in 1..n |-> hooks[kept[i]]]

\* Returns early for a plugin that never registered; otherwise filter makes a
\* new array and leaves the old one to the chains that walk it.
UnregisterPlugin(p) ==
    /\ UNCHANGED <<issued, clock>>
    /\ \/ /\ p \notin tracked
          /\ UNCHANGED <<hooks, tracked, chains>>
       \/ /\ p \in tracked
          /\ FilteredOut(p)
          /\ tracked' = tracked \ {p}
          /\ chains' = [c \in Chains |->
                IF OnLive(c)
                THEN [chains[c] EXCEPT !.apart = TRUE, !.walked = hooks]
                ELSE chains[c]]

-----------------------------------------------------------------------------
\* execute

\* Without hooks it returns at once; otherwise the first handler is called.
Execute(c) ==
    /\ chains[c].state = "idle"
    /\ hooks # <<>>
    /\ chains' = [chains EXCEPT ![c] =
            [Idle EXCEPT !.state = "awaiting", !.index = 1,
                         !.called = <<hooks[1]>>, !.base = Members(hooks)]]
    /\ UNCHANGED <<hooks, tracked, issued, clock>>

\* A loop that gives a handler that throws a second try.
SettlesRetrying(c) ==
    LET next == chains[c].index IN
    /\ chains[c].state = "awaiting"
    /\ Len(chains[c].called) < MaxHooks
    /\ chains' = [chains EXCEPT ![c].called = Append(@, Walk(c)[next])]
    /\ UNCHANGED <<hooks, tracked, issued, clock>>

\* The handler resolves with continue, or throws, or returns an error: either
\* way the iterator takes the next index of the array as it is now.
HandlerSettles(c) ==
    LET next == chains[c].index + 1 IN
    /\ chains[c].state = "awaiting"
    /\ chains' = [chains EXCEPT ![c] =
            IF next <= Len(Walk(c))
            THEN [chains[c] EXCEPT !.index = next,
                                   !.called = Append(chains[c].called, Walk(c)[next])]
            ELSE Idle]
    /\ UNCHANGED <<hooks, tracked, issued, clock>>

\* continue: false ends the chain.
HandlerStops(c) ==
    /\ chains[c].state = "awaiting"
    /\ chains' = [chains EXCEPT ![c] = Idle]
    /\ UNCHANGED <<hooks, tracked, issued, clock>>

HooksNext ==
    \/ \E c \in Chains : Execute(c) \/ HandlerSettles(c) \/ HandlerStops(c)
    \/ \E p \in Plugins, at \in 0..MaxHooks : Unregister(p, at)

-----------------------------------------------------------------------------
\* Properties

\* A plugin with a hook in the array has an entry in pluginHooks, or
\* unregisterPlugin would return early and leave the hook for good.
HooksAreTracked == \A r \in Members(hooks) : r.plugin \in tracked

\* The chain passes no handler over: one that was registered when the chain
\* began has been called when the chain runs out of handlers, whatever was
\* registered in front of the iterator or however the array was replaced
\* meanwhile, unless a hook was taken out of the array in place.
Passes(c) == HandlerSettles(c) /\ chains'[c] = Idle

NoneSkipped ==
    [][\A c \in Chains : Passes(c) /\ ~chains[c].cut =>
            chains[c].base \subseteq Members(chains[c].called)]_hookVars

\* Nor does it call a handler twice, unless a registration has moved the array
\* under its iterator.
NoneRepeated ==
    \A c \in Chains : ~chains[c].grown =>
        \A i, j \in 1..Len(chains[c].called) :
            chains[c].called[i] = chains[c].called[j] => i = j

\* A handler with a lower priority runs first.
LowerRunsFirst ==
    \A c \in Chains : \A i, j \in 1..Len(chains[c].called) :
        i < j => chains[c].called[i].priority <= chains[c].called[j].priority
=============================================================================
