---------------------------------- MODULE Boot ----------------------------------
(***************************************************************************)
(* The life of a server process: the boot (server/bootstrap.js) and the    *)
(* listening that follows it, the signals that end it (server/index.js),   *)
(* and the requests in flight meanwhile.                                   *)
(*                                                                         *)
(* Each signal starts a shutdown of its own, which awaits the watchers of  *)
(* the plugins, then the connection of the store, then the last request.   *)
(* A hot reload of a plugin (core/PluginManager.js) is not stopped by it.  *)
(* io.close() drops the sockets and also stops the HTTP server it is       *)
(* attached to from accepting, as Socket.IO 4 does.                        *)
(***************************************************************************)
EXTENDS Naturals, FiniteSets, Sequences

CONSTANTS
    Signals,  \* the SIGINTs and SIGTERMs that may arrive
    Requests  \* the HTTP requests that may arrive

\* What bootstrap awaits, in its order.
Stages == <<"memory", "migration", "tools", "plugins", "schedules", "capabilities", "agents">>

\* Failures of the other stages are caught where they happen.
Fatal == {"memory", "tools", "plugins", "capabilities", "agents"}

VARIABLES
    mongo,     \* USE_MONGO, or production
    stage,     \* how many stages of the boot are done
    listening, \* what server.listen has come to
    watched,   \* whether plugins are watched, and "stray" when closing leaves them so
    reload,    \* a hot reload is due or under way
    store,     \* mongoose.connection.readyState
    shutdown,  \* what the shutdown of each signal awaits
    request,   \* where each request is
    failing,   \* history: disconnect() has failed
    end        \* how the process ended

vars == <<mongo, stage, listening, watched, reload, store, shutdown, request, failing, end>>
plugins == <<watched, reload>>
asked == <<request, failing>>

TypeOK ==
    /\ mongo \in BOOLEAN
    /\ stage \in 0..Len(Stages)
    /\ listening \in {"no", "asked", "yes", "closed"}
    /\ watched \in {"no", "yes", "stray"}
    /\ reload \in BOOLEAN
    /\ store \in {"disconnected", "connected", "disconnecting"}
    /\ shutdown \in [Signals -> {"none", "watchers", "store", "requests"}]
    /\ request \in [Requests -> {"none", "open", "asks", "answered", "cut"}]
    /\ failing \in BOOLEAN
    /\ end \in {"none", "ok", "error", "killed"}

Init ==
    /\ mongo \in BOOLEAN
    /\ stage = 0
    /\ listening = "no"
    /\ watched = "no" /\ reload = FALSE
    /\ store = "disconnected"
    /\ shutdown = [s \in Signals |-> "none"]
    /\ request = [r \in Requests |-> "none"]
    /\ failing = FALSE
    /\ end = "none"

Open(r) == request[r] \in {"open", "asks"}
Ended == end # "none"

\* The process is gone, with what it had under way.
Exit(how) ==
    /\ end' = how
    /\ listening' = "closed"
    /\ watched' = "no" /\ reload' = FALSE
    /\ store' = "disconnected"
    /\ request' = [r \in Requests |-> IF Open(r) THEN "cut" ELSE request[r]]

(***************************************************************************)
(* The boot                                                                *)
(***************************************************************************)
Booting == ~Ended /\ stage < Len(Stages)

\* A stage of bootstrap is done.
Initialize ==
    /\ Booting
    /\ stage' = stage + 1
    /\ store' = IF Stages[stage'] = "memory" /\ mongo THEN "connected" ELSE store
    /\ watched' = IF Stages[stage'] = "plugins" THEN "yes" ELSE watched
    /\ UNCHANGED <<mongo, listening, reload, shutdown, asked, end>>

\* A stage throws: "YUNA FAILED TO START".
FailToStart ==
    /\ Booting
    /\ Stages[stage + 1] \in Fatal
    /\ Exit("error")
    /\ UNCHANGED <<mongo, stage, shutdown, failing>>

\* What startServer does after bootstrap, the signal handlers included.
Listen ==
    /\ ~Ended /\ stage = Len(Stages) /\ listening = "no"
    /\ listening' = "asked"
    /\ UNCHANGED <<mongo, stage, plugins, store, shutdown, asked, end>>

Listening ==
    /\ listening = "asked"
    /\ listening' = "yes"
    /\ UNCHANGED <<mongo, stage, plugins, store, shutdown, asked, end>>

\* An error that nobody handles, the port being in use among them.
UncaughtException ==
    /\ ~Ended
    /\ Exit("error")
    /\ UNCHANGED <<mongo, stage, shutdown, failing>>

(***************************************************************************)
(* The shutdown                                                            *)
(***************************************************************************)

\* A signal before there are handlers.
Kill(s) ==
    /\ ~Ended /\ listening = "no" /\ shutdown[s] = "none"
    /\ Exit("killed")
    /\ UNCHANGED <<mongo, stage, shutdown, failing>>

\* shutdown: Socket.IO is closed; the watchers are awaited.
Shutdown(s) ==
    /\ ~Ended /\ listening # "no" /\ shutdown[s] = "none"
    /\ shutdown' = [shutdown EXCEPT ![s] = "watchers"]
    /\ listening' = "closed"
    /\ UNCHANGED <<mongo, stage, plugins, store, asked, end>>

\* PluginManager.shutdown: a watcher whose closing fails is only reported.
CloseWatchers ==
    /\ watched' \in {"no", IF watched = "no" THEN "no" ELSE "stray"}
    /\ UNCHANGED reload

\* The store is not awaited.
WatchersClosedSlip(s) ==
    /\ ~Ended /\ shutdown[s] = "watchers"
    /\ CloseWatchers
    /\ store' = IF store = "connected" THEN "disconnecting" ELSE store
    /\ shutdown' = [shutdown EXCEPT ![s] = "requests"]
    /\ UNCHANGED <<mongo, stage, listening, asked, end>>

\* The watchers are closed; a connection that is not connected is not awaited.
WatchersClosed(s) ==
    /\ ~Ended /\ shutdown[s] = "watchers"
    /\ CloseWatchers
    /\ store' = IF store = "connected" THEN "disconnecting" ELSE store
    /\ shutdown' = [shutdown EXCEPT ![s] = IF store = "connected" THEN "store" ELSE "requests"]
    /\ UNCHANGED <<mongo, stage, listening, asked, end>>

\* A shutdown is done with the watchers.
Swept == \E s \in Signals : shutdown[s] \in {"store", "requests"}

\* mongoose.disconnect() is done, or fails, which is reported.
StoreClosed(s) ==
    /\ ~Ended /\ shutdown[s] = "store"
    /\ shutdown' = [shutdown EXCEPT ![s] = "requests"]
    /\ \/ store' = "disconnected" /\ UNCHANGED failing
       \/ store' = "connected" /\ failing' = TRUE
    /\ UNCHANGED <<mongo, stage, listening, plugins, request, end>>

\* server.close calls back when the last request is answered.
ServerClosed(s) ==
    /\ ~Ended /\ shutdown[s] = "requests"
    /\ \A r \in Requests : ~Open(r)
    /\ end' = "ok"
    /\ UNCHANGED <<mongo, stage, listening, plugins, store, shutdown, asked>>

(***************************************************************************)
(* The hot reload of a plugin                                              *)
(***************************************************************************)

\* A watched file changes: a reload is due half a second later.
Change ==
    /\ ~Ended /\ watched # "no" /\ ~reload
    /\ reload' = TRUE
    /\ UNCHANGED <<mongo, stage, listening, watched, store, shutdown, asked, end>>

\* The plugin is unloaded, with its watcher, and loaded and watched again, unless
\* that fails.  No shutdown closes what is opened after it has closed the watchers.
Reload ==
    /\ ~Ended /\ reload
    /\ reload' = FALSE
    /\ watched' \in {watched, "no", IF Swept THEN "stray" ELSE "yes"}
    /\ UNCHANGED <<mongo, stage, listening, store, shutdown, asked, end>>

(***************************************************************************)
(* Requests                                                                *)
(***************************************************************************)
Arrive(r) ==
    /\ ~Ended /\ listening = "yes" /\ request[r] = "none"
    /\ request' = [request EXCEPT ![r] = "open"]
    /\ UNCHANGED <<mongo, stage, listening, plugins, store, shutdown, failing, end>>

\* A handler asks the store and awaits it.
Ask(r) ==
    /\ ~Ended /\ request[r] = "open"
    /\ request' = [request EXCEPT ![r] = "asks"]
    /\ UNCHANGED <<mongo, stage, listening, plugins, store, shutdown, failing, end>>

\* It is answered, with an error when the store is gone.
Answer(r) ==
    /\ ~Ended /\ Open(r)
    /\ request' = [request EXCEPT ![r] = "answered"]
    /\ UNCHANGED <<mongo, stage, listening, plugins, store, shutdown, failing, end>>

Next ==
    \/ Initialize \/ FailToStart \/ Listen \/ Listening \/ UncaughtException
    \/ Change \/ Reload
    \/ \E s \in Signals :
        Kill(s) \/ Shutdown(s) \/ WatchersClosed(s) \/ StoreClosed(s) \/ ServerClosed(s)
    \/ \E r \in Requests : Arrive(r) \/ Ask(r) \/ Answer(r)

\* What is awaited comes back; requests are answered.
Fairness ==
    /\ WF_vars(Initialize) /\ WF_vars(Listen) /\ WF_vars(Listening)
    /\ \A s \in Signals :
        WF_vars(WatchersClosed(s)) /\ WF_vars(StoreClosed(s)) /\ WF_vars(ServerClosed(s))
    /\ \A r \in Requests : WF_vars(Answer(r))

Spec == Init /\ [][Next]_vars /\ Fairness

(***************************************************************************)
(* Properties                                                              *)
(***************************************************************************)

\* A boot comes to an end: the server listens, or the process does not stay.
BootEnds == <>(Ended \/ listening # "no")

\* A process that says that it has ended well has left no request without an answer,
\* and no watcher but one whose closing failed or that a reload opened meanwhile; and
\* its store was closed, unless closing it failed or was still under way for an
\* earlier signal.
EndsWell ==
    end = "ok" =>
        /\ \A r \in Requests : request[r] # "cut" /\ ~Open(r)
        /\ watched # "yes"
        /\ store = "disconnected" \/ failing \/ \E s \in Signals : shutdown[s] = "store"

\* "Graceful Shutdown" (index.js:51-55): a signal to a server that is up ends it,
\* whatever of the closing fails, and not before what EndsWell says.
ShutdownEnds == (\E s \in Signals : shutdown[s] # "none") ~> (Ended /\ EndsWell)

\* "Closes, in order: ... the MongoDB connection (if connected), then the HTTP
\* server": the code breaks what the order is for, as a request that was accepted
\* may ask a store that is closing.
NothingAsksAClosedStore ==
    \A r \in Requests : request[r] = "asks" /\ mongo => store = "connected"

\* "Plugin Watchers Closed." (index.js:78): the code breaks it, as a reload that was
\* due watches again while the store or a request is awaited, and a watcher that
\* cannot be closed is only reported (PluginManager.js, 121-145).
ExitsUnwatched == end = "ok" => watched = "no"

\* The code breaks it: a second signal does not wait for the store that the first
\* one closes.
ExitsWithTheStoreClosed == end = "ok" => store = "disconnected" \/ failing

=================================================================================
