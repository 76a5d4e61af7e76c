---------------------------- MODULE PluginLoader ----------------------------
(***************************************************************************)
(* Plugins and their lifecycle (PluginLoaderService, PluginsService), with *)
(* the registry file (PluginStorageService) and the hooks they register.   *)
(* Calls of enable, disable and unload overlap at the awaits of the        *)
(* plugin's own methods.  Plugins register hooks while their onLoad or     *)
(* onEnable runs, and unregister them when they like.                      *)
(***************************************************************************)
EXTENDS HookManager

CONSTANTS
    Callers,   \* calls that may be under way together
    None

ASSUME LoaderAssumption == None \notin Plugins

VARIABLES
    status,     \* the status of each plugin
    loaded,     \* the keys of the map plugins
    registry,   \* registry.json, and its copy in memory
    pc, plugin  \* what each call awaits, and of which plugin

loaderVars == <<status, loaded, registry, pc, plugin>>
vars == <<hookVars, loaderVars>>

Statuses == {"INSTALLED", "ENABLED", "DISABLED", "ERROR"}

\* The lifecycle method a call awaits; "unloading" is the onDisable of unload.
Enabling == {"onLoad", "onEnable"}
Points == {"idle"} \cup Enabling \cup {"onDisable", "unloading", "onUnload"}

\* What registry.json says of a plugin: its status, and whether a configuration
\* was stored with it.
Entries == [status : Statuses, configured : BOOLEAN] \cup {None}

TypeOK ==
    /\ HooksTypeOK
    /\ status \in [Plugins -> Statuses]
    /\ loaded \in SUBSET Plugins
    /\ registry \in [Plugins -> Entries]
    /\ pc \in [Callers -> Points]
    /\ plugin \in [Callers -> Plugins \cup {None}]

\* onModuleInit has loaded every plugin of the directory; nothing was ever
\* written to the registry.
Init ==
    /\ HooksInit
    /\ status = [p \in Plugins |-> "INSTALLED"]
    /\ loaded = Plugins
    /\ registry = [p \in Plugins |-> None]
    /\ pc = [c \in Callers |-> "idle"]
    /\ plugin = [c \in Callers |-> None]

Goto(c, point, p) ==
    /\ pc' = [pc EXCEPT ![c] = point]
    /\ plugin' = [plugin EXCEPT ![c] = p]

Return(c) == Goto(c, "idle", None)

\* Only an entry that exists is changed and written.
SetPluginStatus(p, s) ==
    registry' = [registry EXCEPT ![p] = IF @ = None THEN None ELSE [@ EXCEPT !.status = s]]

SetPluginConfig(p) ==
    registry' = [registry EXCEPT ![p] = IF @ = None THEN None ELSE [@ EXCEPT !.configured = TRUE]]

SetStatus(p, s) == status' = [status EXCEPT ![p] = s]

-----------------------------------------------------------------------------
\* enablePlugin

\* createPluginContext makes the directory of the plugin's storage, and require
\* runs its module: both may throw, inside the try.
EnableCall(c, p) ==
    /\ pc[c] = "idle" /\ p \in loaded /\ status[p] # "ENABLED"
    /\ UNCHANGED <<hookVars, loaded>>
    /\ \/ /\ Goto(c, "onLoad", p)
          /\ UNCHANGED <<status, registry>>
       \/ /\ SetStatus(p, "ERROR")
          /\ SetPluginStatus(p, "ERROR")
          /\ UNCHANGED <<pc, plugin>>

\* onLoad or onEnable calls context.registerHook.
RegisterHook(c, priority) ==
    /\ pc[c] \in Enabling
    /\ Register(plugin[c], priority)
    /\ UNCHANGED loaderVars

OnLoadResolves(c) ==
    /\ pc[c] = "onLoad"
    /\ Goto(c, "onEnable", plugin[c])
    /\ UNCHANGED <<hookVars, status, loaded, registry>>

OnEnableResolves(c) ==
    /\ pc[c] = "onEnable"
    /\ SetStatus(plugin[c], "ENABLED")
    /\ SetPluginStatus(plugin[c], "ENABLED")
    /\ Return(c)
    /\ UNCHANGED <<hookVars, loaded>>

\* A catch that leaves the status as it was.
EnableRejectsQuietly(c) ==
    /\ pc[c] \in Enabling
    /\ SetPluginStatus(plugin[c], "ERROR")
    /\ Return(c)
    /\ UNCHANGED <<hookVars, status, loaded>>

\* A catch with a status of its own.
EnableRejectsFailed(c) ==
    /\ pc[c] \in Enabling
    /\ SetStatus(plugin[c], "FAILED")
    /\ Return(c)
    /\ UNCHANGED <<hookVars, loaded, registry>>

\* The catch: the hooks registered so far stay.
EnableRejects(c) ==
    /\ pc[c] \in Enabling
    /\ SetStatus(plugin[c], "ERROR")
    /\ SetPluginStatus(plugin[c], "ERROR")
    /\ Return(c)
    /\ UNCHANGED <<hookVars, loaded>>

-----------------------------------------------------------------------------
\* disablePlugin and unloadPlugin

\* disablePlugin up to onDisable.  Its createPluginContext may throw as well:
\* that is DisableRejects at once.
DisableCall(c, p) ==
    /\ pc[c] = "idle" /\ p \in loaded /\ status[p] = "ENABLED"
    /\ Goto(c, "onDisable", p)
    /\ UNCHANGED <<hookVars, status, loaded, registry>>

\* unloadPlugin disables an enabled plugin first.
UnloadCall(c, p) ==
    /\ pc[c] = "idle" /\ p \in loaded
    /\ \/ status[p] = "ENABLED" /\ Goto(c, "unloading", p)
       \/ status[p] # "ENABLED" /\ Goto(c, "onUnload", p)
    /\ UNCHANGED <<hookVars, status, loaded, registry>>

\* onDisable resolves: the hooks go, and unload goes on to onUnload.
Disabled(c) ==
    /\ pc[c] \in {"onDisable", "unloading"}
    /\ UnregisterPlugin(plugin[c])
    /\ SetStatus(plugin[c], "DISABLED")
    /\ SetPluginStatus(plugin[c], "DISABLED")
    /\ \/ pc[c] = "onDisable" /\ Return(c)
       \/ pc[c] = "unloading" /\ Goto(c, "onUnload", plugin[c])
    /\ UNCHANGED loaded

\* The catch does not write the registry, and the hooks stay; unload passes the
\* error on.
DisableRejects(c) ==
    /\ pc[c] \in {"onDisable", "unloading"}
    /\ SetStatus(plugin[c], "ERROR")
    /\ Return(c)
    /\ UNCHANGED <<hookVars, loaded, registry>>

\* The plugin leaves the map; hooks that an error has left it stay.  When
\* onUnload rejects, it stays loaded.
Unloaded(c) ==
    /\ pc[c] = "onUnload"
    /\ \/ loaded' = loaded \ {plugin[c]}
       \/ UNCHANGED loaded
    /\ Return(c)
    /\ UNCHANGED <<hookVars, status, registry>>

-----------------------------------------------------------------------------
\* updatePluginConfig.  The configuration in memory is data; onConfigChange is
\* not awaited.
UpdateConfig(p) ==
    /\ p \in loaded
    /\ SetPluginConfig(p)
    /\ UNCHANGED <<hookVars, status, loaded, pc, plugin>>

\* The process ends and starts again: loadRegistry, and loadPlugin for every
\* plugin of the directory.  The status in the registry is not looked at.
Restart ==
    /\ hooks' = <<>> /\ tracked' = {} /\ issued' = 0 /\ clock' = 0
    /\ chains' = [c \in Chains |-> Idle]
    /\ status' = [p \in Plugins |-> "INSTALLED"]
    /\ loaded' = Plugins
    /\ pc' = [c \in Callers |-> "idle"]
    /\ plugin' = [c \in Callers |-> None]
    /\ UNCHANGED registry

Next ==
    \/ HooksNext /\ UNCHANGED loaderVars
    \/ \E c \in Callers :
        \/ OnLoadResolves(c) \/ OnEnableResolves(c) \/ EnableRejects(c)
        \/ Disabled(c) \/ DisableRejects(c) \/ Unloaded(c)
        \/ \E q \in Priorities : RegisterHook(c, q)
        \/ \E p \in Plugins : EnableCall(c, p) \/ DisableCall(c, p) \/ UnloadCall(c, p)
    \/ \E p \in Plugins : UpdateConfig(p)
    \/ Restart

Spec == Init /\ [][Next]_vars

-----------------------------------------------------------------------------
\* Properties

BeingEnabled(p) == \E c \in Callers : pc[c] \in Enabling /\ plugin[c] = p

\* A disabled plugin, or one that was never enabled, has no hook in the array,
\* unless an enable call is under way for it, however the calls for the plugin
\* have overlapped.
DisabledIsSilent ==
    \A p \in Plugins :
        status[p] \in {"INSTALLED", "DISABLED"} /\ ~BeingEnabled(p) => HooksOf(p) = {}

\* The status of an enabled plugin is in the registry, where the next process
\* can find it.
StatusPersists ==
    \A p \in loaded : status[p] = "ENABLED" =>
        registry[p] # None /\ registry[p].status = "ENABLED"
=============================================================================
