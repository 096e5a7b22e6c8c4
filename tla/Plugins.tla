-------------------------------- MODULE Plugins --------------------------------
(***************************************************************************)
(* Loading and hot-reloading one plugin (core/PluginManager.js): the map   *)
(* of active plugins, the watcher of the plugin's directory, the timers    *)
(* that debounce its events, and the reloads under way, each of which      *)
(* awaits the four lifecycle calls of the plugin in turn.                  *)
(*                                                                         *)
(* Plugins with other names do not meet this one.  A file is broken, or    *)
(* its plugin fails in a lifecycle call, when the model says so.           *)
(***************************************************************************)
EXTENDS Naturals, FiniteSets

CONSTANTS
    MaxLoads,  \* BOUND: the loads that are begun, the first one included
    MaxEdits   \* BOUND: the edits of the plugin's files

PluginsAssumption == MaxLoads \in Nat \ {0} /\ MaxEdits \in Nat

Loads == 1..MaxLoads
None == 0

VARIABLES
    edits,
    good,      \* the files of the plugin, as they are, can be evaluated
    task,      \* each load, with the unload that precedes it: what it awaits
    old,       \* the instance each reload unloads
    instance,  \* the instance each load has made: what it has been told
    active,    \* activePlugins: the load of the active instance
    watcher,   \* watchers: the load that set the watcher up
    timers,    \* the watchers, closed ones as well, whose debounce timer runs
    down       \* shutdown has been called

vars == <<edits, good, task, old, instance, active, watcher, timers, down>>

TypeOK ==
    /\ edits \in 0..MaxEdits
    /\ good \in BOOLEAN
    /\ task \in [Loads -> {"none", "disabling", "unloading", "load", "loading", "enabling", "done"}]
    /\ old \in [Loads -> Loads \union {None}]
    /\ instance \in [Loads -> {"none", "made", "loaded", "enabled", "disabled", "unloaded", "broken"}]
    /\ active \in Loads \union {None}
    /\ watcher \in Loads \union {None}
    /\ timers \subseteq Loads
    /\ down \in BOOLEAN

\* initialize loads the plugin for the first time.
Init ==
    /\ edits = 0
    /\ good \in BOOLEAN
    /\ task = [l \in Loads |-> IF l = 1 THEN "load" ELSE "none"]
    /\ old = [l \in Loads |-> None]
    /\ instance = [l \in Loads |-> "none"]
    /\ active = None
    /\ watcher = None
    /\ timers = {}
    /\ down = FALSE

Goes(l, from, to) == task[l] = from /\ task' = [task EXCEPT ![l] = to]
Becomes(i, what) == instance' = [instance EXCEPT ![i] = what]

(***************************************************************************)
(* loadPlugin                                                              *)
(***************************************************************************)

\* Reading and evaluating the files, up to the call of onLoad; a plugin that
\* cannot be evaluated is reported and given up.
Evaluate(l) ==
    \/ /\ good
       /\ Goes(l, "load", "loading")
       /\ Becomes(l, "made")
       /\ active' = l
       /\ UNCHANGED <<edits, good, old, watcher, timers, down>>
    \/ /\ ~good
       /\ Goes(l, "load", "done")
       /\ UNCHANGED <<edits, good, old, instance, active, watcher, timers, down>>

\* onLoad and onEnable: an instance can be told to go on after it was unloaded.
Loaded(l) ==
    /\ Goes(l, "loading", "enabling")
    /\ Becomes(l, "loaded")
    /\ UNCHANGED <<edits, good, old, active, watcher, timers, down>>

\* setupWatcher does nothing when there is a watcher.
Enabled(l) ==
    /\ Goes(l, "enabling", "done")
    /\ Becomes(l, "enabled")
    /\ watcher' = IF watcher = None THEN l ELSE watcher
    /\ UNCHANGED <<edits, good, old, active, timers, down>>

\* A call that throws ends the load; the instance stays in the map.
LoadFails(l) ==
    /\ task[l] \in {"loading", "enabling"}
    /\ task' = [task EXCEPT ![l] = "done"]
    /\ Becomes(l, "broken")
    /\ UNCHANGED <<edits, good, old, active, watcher, timers, down>>

(***************************************************************************)
(* The watcher and unloadPlugin                                            *)
(***************************************************************************)

\* An event of the open watcher starts its timer again.
Edit ==
    /\ edits < MaxEdits
    /\ edits' = edits + 1
    /\ good' \in BOOLEAN
    /\ timers' = IF watcher # None THEN timers \union {watcher} ELSE timers
    /\ UNCHANGED <<task, old, instance, active, watcher, down>>

\* The timer fires: a reload begins, with the unload of what is active.
TimerFires(w, l) ==
    /\ w \in timers
    /\ timers' = timers \ {w}
    /\ old' = [old EXCEPT ![l] = active]
    /\ Goes(l, "none", IF active = None THEN "load" ELSE "disabling")
    /\ \A k \in Loads : k < l => task[k] # "none"
    /\ UNCHANGED <<edits, good, instance, active, watcher, down>>

Disabled(l) ==
    /\ Goes(l, "disabling", "unloading")
    /\ Becomes(old[l], "disabled")
    /\ UNCHANGED <<edits, good, old, active, watcher, timers, down>>

\* The active plugin is forgotten, whichever instance that is by now.
Forget(l) ==
    /\ task' = [task EXCEPT ![l] = "load"]
    /\ active' = None
    /\ watcher' = None
    /\ UNCHANGED <<edits, good, old, timers, down>>

UnloadedSlip(l) ==
    /\ task[l] = "unloading"
    /\ task' = [task EXCEPT ![l] = "load"]
    /\ Becomes(old[l], "unloaded")
    /\ UNCHANGED <<edits, good, old, active, watcher, timers, down>>

Unloaded(l) ==
    /\ task[l] = "unloading"
    /\ Becomes(old[l], "unloaded")
    /\ Forget(l)

\* A call that throws: the plugin is forgotten all the same.
UnloadFails(l) ==
    /\ task[l] \in {"disabling", "unloading"}
    /\ Becomes(old[l], "broken")
    /\ Forget(l)

\* shutdown closes the watchers; timers and reloads are left alone.
Shutdown ==
    /\ ~down
    /\ down' = TRUE
    /\ watcher' = None
    /\ UNCHANGED <<edits, good, task, old, instance, active, timers>>

Next ==
    \/ Edit \/ Shutdown
    \/ \E l \in Loads :
        \/ Evaluate(l) \/ Loaded(l) \/ Enabled(l) \/ LoadFails(l)
        \/ Disabled(l) \/ Unloaded(l) \/ UnloadFails(l)
        \/ \E w \in Loads : TimerFires(w, l)

Spec == Init /\ [][Next]_vars

(***************************************************************************)
(* Properties                                                              *)
(***************************************************************************)
Idle == \A l \in Loads : task[l] \in {"none", "done"}

\* When no reload is under way, the plugin that is active runs and is watched for
\* the next edit, however the reloads overlapped; or a call of it has thrown.
ActiveRuns ==
    Idle /\ active # None =>
        \/ instance[active] = "enabled" /\ (watcher # None \/ down)
        \/ instance[active] = "broken"

\* "Unload the old instance", then "Load the new instance": one instance of a
\* plugin runs at a time.  The code breaks it: an edit during a reload starts a
\* second one, and each of the two goes on to enable its own instance.
OneInstance == Cardinality({l \in Loads : instance[l] = "enabled"}) <= 1

================================================================================
