-------------------------------- MODULE Terminal -------------------------------
(***************************************************************************)
(* The terminals of the coding view (components/Coding/TerminalPanel.jsx,  *)
(* store/codingStore.js, providers/CodingProvider.jsx) and the service     *)
(* that runs their commands (services/codingTerminalService.js, the        *)
(* terminal.run and terminal.cancel of socket/socketHandler.js).           *)
(*                                                                         *)
(* The user types commands into several terminals, one of which, "agent",  *)
(* also shows the commands of the coding agent.  A command is answered     *)
(* when its process has ended, which may be minutes after the client gave  *)
(* up on the answer.  What the server sends to the client arrives in       *)
(* order.                                                                  *)
(***************************************************************************)
EXTENDS Naturals, Sequences, FiniteSets

CONSTANTS
    Agent,     \* the terminal of the agent, which is never closed
    Tabs,      \* the terminals the user may add
    Manual,    \* the commands the user types, numbered in their order
    ByAgent,   \* the commands of the agent
    None,
    MaxMounts, \* BOUND: how often the panel is mounted
    MaxMail    \* BOUND: what is on its way to the client

TerminalAssumption ==
    /\ Agent \notin Tabs
    /\ Manual \subseteq Nat /\ Manual \intersect ByAgent = {}
    /\ None \notin Manual \union ByAgent
    /\ MaxMounts \in Nat \ {0} /\ MaxMail \in Nat

Terminals == {Agent} \union Tabs
Runs == Manual \union ByAgent

VARIABLES
    process,    \* the process of each command on the server
    open,       \* the terminals of the store
    closed,     \* the terminals that were closed: the next one is a new one
    entries,    \* terminalHistory
    busy,       \* runningMap of the panel
    runId,      \* currentRunIdMap of the panel
    calls,      \* the calls of handleRun that wait, each with its terminal
    asked,      \* the commands and cancellations on their way to the server
    inbox,      \* what is on its way to the client
    mounts      \* which mount of the panel this is

vars == <<process, open, closed, entries, busy, runId, calls, asked, inbox, mounts>>

Entries == [run : Runs, terminal : Terminals, running : BOOLEAN, output : Runs \union {None}]

\* A command of the user, with the terminal and the panel it was sent from.
RunCalls == [run : Manual, terminal : Terminals, mount : 1..MaxMounts]

\* What arrives about a command of the user, and of the agent.
Mail == [kind : {"started", "cancelled", "refused"}, about : RunCalls]
          \union [kind : {"ended"}, about : [run : Manual]]
          \union [kind : {"begin", "output", "complete"}, about : ByAgent]

TypeOK ==
    /\ process \in [Runs -> {"none", "asked", "running", "killed", "over"}]
    /\ open \subseteq Terminals /\ Agent \in open
    /\ closed \subseteq Tabs
    /\ entries \in Seq(Entries)
    /\ busy \in [Terminals -> BOOLEAN]
    /\ runId \in [Terminals -> Runs \union {None}]
    /\ calls \subseteq RunCalls
    /\ asked \subseteq [what : {"run", "cancel"}, about : RunCalls]
    /\ inbox \in Seq(Mail)
    /\ mounts \in 1..MaxMounts

Idle == [t \in Terminals |-> FALSE]
NoIds == [t \in Terminals |-> None]

Init ==
    /\ process = [r \in Runs |-> "none"]
    /\ open = {Agent}
    /\ closed = {}
    /\ entries = <<>>
    /\ busy = Idle
    /\ runId = NoIds
    /\ calls = {}
    /\ asked = {}
    /\ inbox = <<>>
    /\ mounts = 1

(***************************************************************************)
(* The store                                                               *)
(***************************************************************************)
Entry(r, t) == [run |-> r, terminal |-> t, running |-> TRUE, output |-> None]

WithOutput(es, run, out) ==
    [i \in DOMAIN es |-> IF es[i].run = run THEN [es[i] EXCEPT !.output = out] ELSE es[i]]

Completed(es, run) ==
    [i \in DOMAIN es |-> IF es[i].run = run THEN [es[i] EXCEPT !.running = FALSE] ELSE es[i]]

\* The entries of the other terminals, in their order: each at its rank.
Rank(kept, i) == Cardinality({k \in kept : k <= i})
Others(es, t) ==
    LET kept == {i \in DOMAIN es : es[i].terminal # t}
    IN  [j \in 1..Cardinality(kept) |-> es[CHOOSE i \in kept : Rank(kept, i) = j]]

AddTerminal(t) ==
    /\ t \in Tabs \ (open \union closed)
    /\ open' = open \union {t}
    /\ UNCHANGED <<process, closed, entries, busy, runId, calls, asked, inbox, mounts>>

\* A slip: the terminal of the agent can be closed as well.
CloseTerminalSlip(t) ==
    /\ t \in open
    /\ open' = open \ {t}
    /\ closed' = closed \union ({t} \ {Agent})
    /\ entries' = Others(entries, t)
    /\ UNCHANGED <<process, busy, runId, calls, asked, inbox, mounts>>

\* The terminal goes with what it shows; what runs in it goes on.
CloseTerminal(t) ==
    /\ t \in open \ {Agent}
    /\ open' = open \ {t}
    /\ closed' = closed \union {t}
    /\ entries' = Others(entries, t)
    /\ UNCHANGED <<process, busy, runId, calls, asked, inbox, mounts>>

(***************************************************************************)
(* The panel                                                               *)
(***************************************************************************)

Call(r, t) == [run |-> r, terminal |-> t, mount |-> mounts]

\* handleRun, up to its await.  A command is run once: a repeated one is
\* another command.
HandleRun(t, r) ==
    /\ t \in open /\ ~busy[t] /\ process[r] = "none"
    /\ \A q \in Manual : q < r => process[q] # "none"
    /\ process' = [process EXCEPT ![r] = "asked"]
    /\ busy' = [busy EXCEPT ![t] = TRUE]
    /\ entries' = Append(entries, Entry(r, t))
    /\ calls' = calls \union {Call(r, t)}
    /\ asked' = asked \union {[what |-> "run", about |-> Call(r, t)]}
    /\ UNCHANGED <<open, closed, runId, inbox, mounts>>

\* handleCancel: there is something to cancel when the panel knows the runId.
HandleCancel(t) ==
    /\ t \in open /\ busy[t] /\ runId[t] # None
    /\ asked' = asked \union {[what |-> "cancel", about |-> Call(runId[t], t)]}
    /\ UNCHANGED <<process, open, closed, entries, busy, runId, calls, inbox, mounts>>

\* The panel is hidden and shown again: what it knew of running commands is
\* gone, and the calls that wait set the state of a panel that is no more.
Remount ==
    /\ mounts < MaxMounts
    /\ mounts' = mounts + 1
    /\ busy' = Idle
    /\ runId' = NoIds
    /\ UNCHANGED <<process, open, closed, entries, calls, asked, inbox>>

\* RUN_STARTED arrives, and the listener of the call whose token it carries
\* notes the runId for its terminal.
ListensSlip(c, r) == TRUE

Listens(c, r) == c.run = r

RunStarted(r) ==
    /\ runId' = [t \in Terminals |->
                    IF \E c \in calls : Listens(c, r) /\ c.terminal = t /\ c.mount = mounts
                    THEN r ELSE runId[t]]
    /\ UNCHANGED <<entries, busy, calls>>

\* The call of command c.run ends, with an answer or without one.
Settle(c, output) ==
    /\ calls' = calls \ {c}
    /\ busy' = IF c.mount = mounts THEN [busy EXCEPT ![c.terminal] = FALSE] ELSE busy
    /\ runId' = IF c.mount = mounts THEN [runId EXCEPT ![c.terminal] = None] ELSE runId
    /\ entries' = Completed(IF output THEN WithOutput(entries, c.run, c.run) ELSE entries, c.run)

\* The answer: the output of a command that failed is not shown.
Ended(r, success) ==
    \/ \E c \in calls : c.run = r /\ Settle(c, success)
    \/ /\ ~\E c \in calls : c.run = r
       /\ UNCHANGED <<entries, busy, runId, calls>>

\* emitWithAck gives up after 15 seconds.
GiveUp ==
    /\ \E c \in calls : Settle(c, FALSE)
    /\ UNCHANGED <<process, open, closed, asked, inbox, mounts>>

\* handleCancel goes on: the terminal has nothing to cancel any more, whether
\* or not the cancellation did anything.
Cancelled(c) ==
    /\ runId' = IF c.mount = mounts THEN [runId EXCEPT ![c.terminal] = None] ELSE runId
    /\ UNCHANGED <<entries, busy, calls>>

(***************************************************************************)
(* The server                                                              *)
(***************************************************************************)
Send(kind, about) == inbox' = Append(inbox, [kind |-> kind, about |-> about])

\* run: a command that is blocked, or needs a confirmation, starts nothing.
ServeRun(a) ==
    /\ a.what = "run"
    /\ \/ process' = [process EXCEPT ![a.about.run] = "running"] /\ Send("started", a.about)
       \/ process' = [process EXCEPT ![a.about.run] = "over"] /\ Send("refused", a.about)

\* cancel: kills the process group of a command that still runs.
ServeCancel(a) ==
    /\ a.what = "cancel"
    /\ process' = [process EXCEPT ![a.about.run] = IF @ = "running" THEN "killed" ELSE @]
    /\ Send("cancelled", a.about)

Serve ==
    /\ Len(inbox) < MaxMail
    /\ \E a \in asked : asked' = asked \ {a} /\ (ServeRun(a) \/ ServeCancel(a))
    /\ UNCHANGED <<open, closed, entries, busy, runId, calls, mounts>>

\* The process ends, by itself or by a signal; one that outlives its own
\* timeout is killed.  The user's command is answered, and the agent's is told
\* in two events.
Close(r) ==
    /\ process[r] \in {"running", "killed"} /\ Len(inbox) < MaxMail
    /\ process' = [process EXCEPT ![r] = "over"]
    /\ \/ r \in Manual /\ Send("ended", [run |-> r])
       \/ /\ r \in ByAgent
          /\ inbox' = inbox \o <<[kind |-> "output", about |-> r],
                                 [kind |-> "complete", about |-> r]>>
    /\ UNCHANGED <<open, closed, entries, busy, runId, calls, asked, mounts>>

Kill(r) ==
    /\ process[r] = "running"
    /\ process' = [process EXCEPT ![r] = "killed"]
    /\ UNCHANGED <<open, closed, entries, busy, runId, calls, asked, inbox, mounts>>

\* The agent runs one command after the other.  One that needs the user's
\* approval is announced and then not run.
AgentRuns(r) ==
    /\ r \in ByAgent /\ process[r] = "none" /\ Len(inbox) < MaxMail
    /\ \A q \in ByAgent : process[q] \in {"none", "over"}
    /\ \E outcome \in {"running", "over"} : process' = [process EXCEPT ![r] = outcome]
    /\ Send("begin", r)
    /\ UNCHANGED <<open, closed, entries, busy, runId, calls, asked, mounts>>

(***************************************************************************)
(* What the client is told                                                 *)
(***************************************************************************)

\* onTerminalStart, onTerminalOutput and onTerminalComplete: the last entry of
\* the history, whichever terminal it is in, is taken for the agent's.
Last == entries[Len(entries)]
LastRuns == entries # <<>> /\ Last.running

AgentEvent(m) ==
    /\ entries' = CASE m.kind = "begin" -> Append(entries, Entry(m.about, Agent))
                    [] m.kind = "output" /\ LastRuns -> WithOutput(entries, Last.run, m.about)
                    [] m.kind = "complete" /\ LastRuns -> Completed(entries, Last.run)
                    [] OTHER -> entries
    /\ UNCHANGED <<busy, runId, calls>>

Arrive ==
    /\ inbox # <<>>
    /\ inbox' = Tail(inbox)
    /\ LET m == Head(inbox) IN
          CASE m.kind = "started" -> RunStarted(m.about.run)
            [] m.kind = "cancelled" -> Cancelled(m.about)
            [] m.kind = "refused" -> Ended(m.about.run, FALSE)
            [] m.kind = "ended" -> \E success \in BOOLEAN : Ended(m.about.run, success)
            [] OTHER -> AgentEvent(m)
    /\ UNCHANGED <<process, open, closed, asked, mounts>>

Next ==
    \/ \E t \in Tabs : AddTerminal(t)
    \/ \E t \in Terminals : CloseTerminal(t)
    \/ \E t \in Terminals, r \in Manual : HandleRun(t, r)
    \/ \E t \in Terminals : HandleCancel(t)
    \/ Remount \/ GiveUp \/ Serve \/ Arrive
    \/ \E r \in Runs : Close(r) \/ Kill(r) \/ AgentRuns(r)

Spec == Init /\ [][Next]_vars

(***************************************************************************)
(* Properties                                                              *)
(***************************************************************************)

\* A terminal offers to cancel only the command that was run in it: however
\* the answers of several terminals, their timeouts and the agent's events
\* interleave, Cancel does not kill another terminal's command.
CancelsItsOwn ==
    \A t \in open : runId[t] # None =>
        /\ runId[t] \in Manual
        /\ \A i \in DOMAIN entries : entries[i].run = runId[t] => entries[i].terminal = t

\* "the 'Agent' tab is where the real CodingAgentRuntime's own tool-call
\* terminal activity always lands": no entry shows the output of a command of
\* the agent but its own.  The code breaks it when the user runs a command in
\* any terminal while the agent runs one.
AgentOutputLands ==
    \A i \in DOMAIN entries : entries[i].output \in ByAgent => entries[i].output = entries[i].run

================================================================================
