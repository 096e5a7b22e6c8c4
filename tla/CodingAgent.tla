----------------------------- MODULE CodingAgent -----------------------------
(***************************************************************************)
(* The coding agent runtime of the server: one user's agent sessions, the  *)
(* approval handshake that pauses them, and their persistence across a     *)
(* server restart.  (CodingAgentRuntime.js, CodingSessionService.js,       *)
(* codingSessionRecord.js, File-/MongoCodingSessionRepository.js.)         *)
(*                                                                         *)
(* The runtime is an object in one Node.js process.  What runs             *)
(* concurrently are its asynchronous calls: run() and resume() suspend at  *)
(* every await, and other calls take steps meanwhile.  An element of Runs  *)
(* is one invocation of run(), one of Resumes an invocation of resume(),   *)
(* and Call is both.  An action is the code between two awaits; pc[c]      *)
(* names the await the invocation c stands at ("top" and "calls" are the   *)
(* heads of the two loops of _loop, where a resolved await continues).     *)
(*                                                                         *)
(* Every invocation makes at most one fresh identifier of each kind, so    *)
(* the identifiers are drawn from Call too: the id of a session is the     *)
(* run() that made it, the id of an approval is the invocation that paused *)
(* for it, and a live session object is named by the invocation that       *)
(* constructed it (run(), or a resume() that reconstructed it).            *)
(*                                                                         *)
(* A definition headed "Slip" is not part of the specification: it is the  *)
(* definition below it with a plausible mistake, there to show that a      *)
(* property notices the mistake.                                           *)
(***************************************************************************)
EXTENDS Naturals

CONSTANTS
    Runs,           \* invocations of run()
    Resumes,        \* invocations of resume()
    None,           \* JavaScript null
    MaxIterations,  \* session.maxIterations: model turns
    MaxToolCalls,   \* session.maxToolCalls
    MaxTurnCalls,   \* bound: function calls the model puts into one turn
    MaxRestarts     \* bound: how often the server process dies

Call == Runs \cup Resumes

ASSUME CallAssumption == Runs \cap Resumes = {} /\ None \notin Call
ASSUME LimitAssumption == /\ MaxIterations \in Nat \ {0}
                          /\ MaxToolCalls \in Nat \ {0}
                          /\ MaxTurnCalls \in Nat \ {0}
                          /\ MaxRestarts \in Nat

VARIABLES
    pc,        \* where each invocation is suspended
    sid,       \* the session an invocation is about
    ref,       \* the session object an invocation holds in its closure
    ask,       \* the decision a resume() carries while its session is loaded
    acting,    \* the approval whose action a resume() is executing
    todo,      \* calls of the current model turn not yet started
    got,       \* results collected for the current model turn
    obj,       \* the session objects in the memory of the process
    sessions,  \* _sessions: session id -> session object
    ordered,   \* the repository in use: the file one performs saves in order,
               \* the Mongo one (USE_MONGO) in any order
    store,     \* the repository: session id -> record
    writing,   \* invocations with a save on its way to the repository
    ahead,     \* the saves that were queued before an invocation's own
    rec,       \* the record in that save
    late,      \* sessions that have used up maxRuntimeMs
    restarts,  \* how often the process has died
    effects,   \* history: how often the action behind an approval took effect
    decided,   \* history: the decisions resume() accepted, <<approval, yes>>
    unsaved    \* history: a save has failed

callVars == <<pc, sid, ref, ask, acting, todo, got>>
world    == <<late, restarts, ordered, unsaved>>
saveVars == <<store, writing, ahead, rec>>
ghosts   == <<effects, decided>>
vars     == <<pc, sid, ref, ask, acting, todo, got, obj, sessions, store,
              writing, ahead, rec, late, restarts, ordered, effects, decided, unsaved>>

-----------------------------------------------------------------------------
(* Data *)

Terminal == {"COMPLETED", "FAILED", "CANCELLED", "LIMIT_REACHED"}
State    == {"IDLE", "RUNNING", "WAITING_FOR_APPROVAL"} \cup Terminal

(***************************************************************************)
(* A live session.  open counts the function calls in the provider history *)
(* that have no result in it; ran counts, as a history variable, the tool  *)
(* executions the session's user has had performed (a call refused pending *)
(* approval is not one).                                                   *)
(***************************************************************************)
Object == [state : State, cancelled : BOOLEAN, provider : BOOLEAN,
           iterations : Nat, toolCalls : Nat, pending : Call \cup {None},
           open : Nat, ran : Nat]

(* What toSessionRecord keeps of it: not the cancelled flag, not the provider. *)
Record == [state : State, iterations : Nat, toolCalls : Nat,
           pending : Call \cup {None}, open : Nat, ran : Nat]

CodingAgentSession(state, provider) ==
    [state |-> state, cancelled |-> FALSE, provider |-> provider,
     iterations |-> 0, toolCalls |-> 0, pending |-> None, open |-> 0, ran |-> 0]

Blank == CodingAgentSession("IDLE", FALSE)

toSessionRecord(s) ==
    [state |-> s.state, iterations |-> s.iterations, toolCalls |-> s.toolCalls,
     pending |-> s.pending, open |-> s.open, ran |-> s.ran]

NoRecord == toSessionRecord(Blank)

fromRecord(r) ==
    [state |-> r.state, cancelled |-> FALSE, provider |-> FALSE,
     iterations |-> r.iterations, toolCalls |-> r.toolCalls,
     pending |-> r.pending, open |-> r.open, ran |-> r.ran]

NoAsk == [id |-> None, yes |-> FALSE]

Places == {"idle", "load", "provider", "model", "tool", "top", "calls",
           "saveTurn", "savePause", "paused", "saveBlock",
           "done", "threw", "lost"}

Init ==
    /\ pc = [c \in Call |-> "idle"]
    /\ sid = [c \in Call |-> None]
    /\ ref = [c \in Call |-> None]
    /\ ask = [c \in Call |-> NoAsk]
    /\ acting = [c \in Call |-> None]
    /\ todo = [c \in Call |-> 0]
    /\ got = [c \in Call |-> 0]
    /\ obj = [c \in Call |-> Blank]
    /\ sessions = [s \in Runs |-> None]
    /\ ordered \in BOOLEAN
    /\ store = [s \in Runs |-> NoRecord]
    /\ writing = {}
    /\ ahead = [c \in Call |-> {}]
    /\ rec = [c \in Call |-> NoRecord]
    /\ late = {}
    /\ restarts = 0
    /\ effects = [c \in Call |-> 0]
    /\ decided = {}
    /\ unsaved = FALSE

-----------------------------------------------------------------------------
(* Pieces of handlers *)

(***************************************************************************)
(* Invocation c calls _persist on session object s: the record is a        *)
(* snapshot of s as it is now, and the save joins the saves under way.     *)
(* (A new save of c never meets an older one of c: c awaited that one.)    *)
(***************************************************************************)
\* Slip: the lock chain of the file repository is not built.
PersistUnlocked(c, s) ==
    /\ rec' = [rec EXCEPT ![c] = toSessionRecord(s)]
    /\ writing' = writing \cup {c}
    /\ UNCHANGED <<ahead, store>>

Persist(c, s) ==
    /\ rec' = [rec EXCEPT ![c] = toSessionRecord(s)]
    /\ writing' = writing \cup {c}
    /\ ahead' = [ahead EXCEPT ![c] = writing \ {c}]
    /\ store' = store

(***************************************************************************)
(* _finish: session object s ends in state st; the map is pointed at it    *)
(* and the save is not awaited.                                            *)
(***************************************************************************)
\* Slip: saved before the final state is set.
FinishSavesFirst(c, s, st) ==
    /\ obj' = [obj EXCEPT ![ref[c]] = [s EXCEPT !.state = st]]
    /\ sessions' = [sessions EXCEPT ![sid[c]] = ref[c]]
    /\ Persist(c, s)
    /\ pc' = [pc EXCEPT ![c] = "done"]

Finish(c, s, st) ==
    /\ obj' = [obj EXCEPT ![ref[c]] = [s EXCEPT !.state = st]]
    /\ sessions' = [sessions EXCEPT ![sid[c]] = ref[c]]
    /\ Persist(c, [s EXCEPT !.state = st])
    /\ pc' = [pc EXCEPT ![c] = "done"]

(* The first, synchronous part of _executeToolCall, for a tool that exists. *)
StartTool(c, o, s) ==
    /\ obj' = [obj EXCEPT ![o] = [s EXCEPT !.toolCalls = @ + 1]]
    /\ pc' = [pc EXCEPT ![c] = "tool"]

-----------------------------------------------------------------------------
(* run() *)

(* A new session with a fresh id, saved once before the loop is entered. *)
Run(c) ==
    /\ pc[c] = "idle"
    /\ LET s == CodingAgentSession("RUNNING", TRUE)
       IN  /\ obj' = [obj EXCEPT ![c] = s]
           /\ Persist(c, s)
    /\ sid' = [sid EXCEPT ![c] = c]
    /\ ref' = [ref EXCEPT ![c] = c]
    /\ sessions' = [sessions EXCEPT ![c] = c]
    /\ pc' = [pc EXCEPT ![c] = "saveTurn"]
    /\ UNCHANGED <<ask, acting, todo, got, world, ghosts>>

-----------------------------------------------------------------------------
(* _loop *)

(* The checks at the head of the loop, then sendTurn is called. *)
\* Slip: the turns are not counted.
LoopTopUncounted(c) ==
    /\ pc[c] = "top"
    /\ ~obj[ref[c]].cancelled
    /\ pc' = [pc EXCEPT ![c] = "model"]
    /\ UNCHANGED <<sid, ref, ask, acting, todo, got, obj, sessions, saveVars, world, ghosts>>

LoopTop(c) ==
    /\ pc[c] = "top"
    /\ LET s == obj[ref[c]] IN
       \/ /\ s.cancelled
          /\ Finish(c, s, "CANCELLED")
       \/ /\ ~s.cancelled
          /\ sid[c] \in late \/ s.iterations >= MaxIterations
          /\ Finish(c, s, "LIMIT_REACHED")
       \/ /\ ~s.cancelled
          /\ sid[c] \notin late
          /\ s.iterations < MaxIterations
          /\ obj' = [obj EXCEPT ![ref[c]].iterations = @ + 1]
          /\ pc' = [pc EXCEPT ![c] = "model"]
          /\ UNCHANGED <<sessions, saveVars>>
    /\ UNCHANGED <<sid, ref, ask, acting, todo, got, world, ghosts>>

(***************************************************************************)
(* sendTurn resolves.  A turn without function calls completes the         *)
(* session, whatever happened to it meanwhile; a turn with n calls leaves  *)
(* n calls without results in the history.                                 *)
(***************************************************************************)
ModelTurn(c) ==
    /\ pc[c] = "model"
    /\ LET s == obj[ref[c]] IN
       \/ /\ Finish(c, s, "COMPLETED")
          /\ UNCHANGED <<todo, got>>
       \/ \E n \in 1 .. MaxTurnCalls :
             /\ obj' = [obj EXCEPT ![ref[c]].open = @ + n]
             /\ todo' = [todo EXCEPT ![c] = n]
             /\ got' = [got EXCEPT ![c] = 0]
             /\ pc' = [pc EXCEPT ![c] = "calls"]
             /\ UNCHANGED <<sessions, saveVars>>
    /\ UNCHANGED <<sid, ref, ask, acting, world, ghosts>>

(* sendTurn rejects: the catch of _loop. *)
ModelThrows(c) ==
    /\ pc[c] = "model"
    /\ Finish(c, obj[ref[c]], "FAILED")
    /\ UNCHANGED <<sid, ref, ask, acting, todo, got, world, ghosts>>

(* The head of the loop over the calls of a turn. *)
\* Slip: the tool limit is not checked between the calls of a turn.
NextCallUnlimited(c) ==
    /\ pc[c] = "calls"
    /\ todo[c] > 0
    /\ ~obj[ref[c]].cancelled
    /\ todo' = [todo EXCEPT ![c] = @ - 1]
    /\ StartTool(c, ref[c], obj[ref[c]])
    /\ UNCHANGED <<sid, ref, ask, acting, got, sessions, saveVars, world, ghosts>>

NextCall(c) ==
    /\ pc[c] = "calls"
    /\ todo[c] > 0
    /\ LET s == obj[ref[c]] IN
       \/ /\ s.cancelled
          /\ Finish(c, s, "CANCELLED")
          /\ UNCHANGED <<todo, got>>
       \/ /\ ~s.cancelled
          /\ s.toolCalls >= MaxToolCalls
          /\ Finish(c, s, "LIMIT_REACHED")
          /\ UNCHANGED <<todo, got>>
       \/ /\ ~s.cancelled
          /\ s.toolCalls < MaxToolCalls
          /\ todo' = [todo EXCEPT ![c] = @ - 1]
          /\ \/ /\ StartTool(c, ref[c], s)
                /\ got' = got
             \/ /\ got' = [got EXCEPT ![c] = @ + 1]  \* unknown tool: an answer at once
                /\ UNCHANGED <<pc, obj>>
          /\ UNCHANGED <<sessions, saveVars>>
    /\ UNCHANGED <<sid, ref, ask, acting, world, ghosts>>

(* Every call of the turn has its result: append them all, save, go round. *)
\* Slip: one result is appended twice.
TurnAnsweredTwice(c) ==
    /\ pc[c] = "calls"
    /\ todo[c] = 0
    /\ LET s == [obj[ref[c]] EXCEPT !.open = @ - got[c] - 1]
       IN  /\ obj' = [obj EXCEPT ![ref[c]] = s]
           /\ Persist(c, s)
    /\ pc' = [pc EXCEPT ![c] = "saveTurn"]
    /\ UNCHANGED <<sid, ref, ask, acting, todo, got, sessions, world, ghosts>>

TurnAnswered(c) ==
    /\ pc[c] = "calls"
    /\ todo[c] = 0
    /\ LET s == [obj[ref[c]] EXCEPT !.open = @ - got[c]]
       IN  /\ obj' = [obj EXCEPT ![ref[c]] = s]
           /\ Persist(c, s)
    /\ pc' = [pc EXCEPT ![c] = "saveTurn"]
    /\ UNCHANGED <<sid, ref, ask, acting, todo, got, sessions, world, ghosts>>

-----------------------------------------------------------------------------
(* _executeToolCall after the await of capability.execute *)

(* The tool ran (or failed: both are an answer for the model). *)
ToolReturns(c) ==
    /\ pc[c] = "tool"
    /\ acting[c] = None
    /\ obj' = [obj EXCEPT ![ref[c]].ran = @ + 1]
    /\ got' = [got EXCEPT ![c] = @ + 1]
    /\ pc' = [pc EXCEPT ![c] = "calls"]
    /\ UNCHANGED <<sid, ref, ask, acting, todo, sessions, saveVars, world, ghosts>>

(* The tool was refused: _pauseForApproval, and the turn's results are dropped. *)
ToolBlocked(c) ==
    /\ pc[c] = "tool"
    /\ acting[c] = None
    /\ LET s == [obj[ref[c]] EXCEPT !.pending = c, !.state = "WAITING_FOR_APPROVAL"]
       IN  /\ obj' = [obj EXCEPT ![ref[c]] = s]
           /\ Persist(c, s)
    /\ pc' = [pc EXCEPT ![c] = "savePause"]
    /\ UNCHANGED <<sid, ref, ask, acting, todo, got, sessions, world, ghosts>>

(***************************************************************************)
(* The approved action of a resume() returns.  It is not refused again;    *)
(* it takes effect or fails (an approved deletion of a secret file does).  *)
(* Its result alone is appended to the history.                            *)
(***************************************************************************)
ApprovedToolReturns(c) ==
    /\ pc[c] = "tool"
    /\ acting[c] # None
    /\ LET s == [obj[ref[c]] EXCEPT !.ran = @ + 1, !.open = @ - 1]
       IN  /\ obj' = [obj EXCEPT ![ref[c]] = s]
           /\ Persist(c, s)
    /\ \E effect \in {0, 1} :
          effects' = [effects EXCEPT ![acting[c]] = @ + effect]
    /\ acting' = [acting EXCEPT ![c] = None]
    /\ pc' = [pc EXCEPT ![c] = "saveTurn"]
    /\ UNCHANGED <<sid, ref, ask, todo, got, sessions, world, decided>>

(* The second save of a refused call, by the caller of _executeToolCall. *)
BlockPersist(c) ==
    /\ pc[c] = "paused"
    /\ Persist(c, obj[ref[c]])
    /\ pc' = [pc EXCEPT ![c] = "saveBlock"]
    /\ UNCHANGED <<sid, ref, ask, acting, todo, got, obj, sessions, world, ghosts>>

-----------------------------------------------------------------------------
(* resume() *)

(* Rejections throw and change nothing of the session. *)
Reject(c) ==
    /\ pc' = [pc EXCEPT ![c] = "threw"]
    /\ UNCHANGED <<obj, sessions, saveVars, acting, decided>>

(* The checks of resume() on session object s for the decision d. *)
\* Slip: the approval id is not compared.
AnyIdMatches(s, d) == s.state = "WAITING_FOR_APPROVAL" /\ s.pending # None

Matches(s, d) == /\ s.state = "WAITING_FOR_APPROVAL"
                 /\ s.pending # None
                 /\ d.id = s.pending

(* The approval is consumed; with a provider at hand, the session runs again. *)
Consumed(s) == [s EXCEPT !.pending = None]

\* Slip: the approval is left on offer while its action runs.
StillWaiting(s) == s

Running(s) == [Consumed(s) EXCEPT !.state = "RUNNING"]

(***************************************************************************)
(* The part of resume() after the session object o, with content s, is     *)
(* found: the checks, the approval consumed, then the denial, or the       *)
(* execution (at once when the object still has its provider).             *)
(***************************************************************************)
Decide(c, o, s, d) ==
    \/ /\ ~Matches(s, d)
       /\ obj' = [obj EXCEPT ![o] = s]
       /\ pc' = [pc EXCEPT ![c] = "threw"]
       /\ UNCHANGED <<saveVars, acting, decided>>
    \/ /\ Matches(s, d)
       /\ ~d.yes
       /\ LET denied == [Consumed(s) EXCEPT !.state = "CANCELLED"]
          IN  obj' = [obj EXCEPT ![o] = denied] /\ Persist(c, denied)
       /\ pc' = [pc EXCEPT ![c] = "done"]
       /\ decided' = decided \cup {<<d.id, FALSE>>}
       /\ acting' = acting
    \/ /\ Matches(s, d)
       /\ d.yes
       /\ \/ s.provider /\ StartTool(c, o, Running(s))
          \/ /\ ~s.provider
             /\ obj' = [obj EXCEPT ![o] = Consumed(s)]
             /\ pc' = [pc EXCEPT ![c] = "provider"]
       /\ acting' = [acting EXCEPT ![c] = s.pending]
       /\ decided' = decided \cup {<<d.id, TRUE>>}
       /\ UNCHANGED saveVars

(* resume(s, {approved: yes, approvalId: a}) on a session in memory ... *)
Resume(c, s, a, yes) ==
    /\ pc[c] = "idle"
    /\ sessions[s] # None
    /\ sid' = [sid EXCEPT ![c] = s]
    /\ ref' = [ref EXCEPT ![c] = sessions[s]]
    /\ Decide(c, sessions[s], obj[sessions[s]], [id |-> a, yes |-> yes])
    /\ UNCHANGED <<ask, todo, got, sessions, world, effects>>

(* ... and on one that is not: its record is asked for. *)
ResumeUnknown(c, s, a, yes) ==
    /\ pc[c] = "idle"
    /\ sid[s] = s
    /\ sessions[s] = None
    /\ sid' = [sid EXCEPT ![c] = s]
    /\ ask' = [ask EXCEPT ![c] = [id |-> a, yes |-> yes]]
    /\ pc' = [pc EXCEPT ![c] = "load"]
    /\ UNCHANGED <<ref, acting, todo, got, obj, sessions, saveVars, world, ghosts>>

(* _reconstructSession: the record becomes a new session object. *)
Load(c) ==
    /\ pc[c] = "load"
    /\ store[sid[c]] # NoRecord
    /\ ref' = [ref EXCEPT ![c] = c]
    /\ sessions' = [sessions EXCEPT ![sid[c]] = c]
    /\ Decide(c, c, fromRecord(store[sid[c]]), ask[c])
    /\ ask' = [ask EXCEPT ![c] = NoAsk]
    /\ UNCHANGED <<sid, todo, got, world, effects>>

(* No record, an unreadable one, or one whose history was too large to save. *)
LoadThrows(c) ==
    /\ pc[c] = "load"
    /\ Reject(c)
    /\ ask' = [ask EXCEPT ![c] = NoAsk]
    /\ UNCHANGED <<sid, ref, todo, got, world, effects>>

(* _rebuildProvider resolves: the approved action starts. *)
ProviderReady(c) ==
    /\ pc[c] = "provider"
    /\ StartTool(c, ref[c], [obj[ref[c]] EXCEPT !.provider = TRUE, !.state = "RUNNING"])
    /\ UNCHANGED <<sid, ref, ask, acting, todo, got, sessions, saveVars, world, ghosts>>

(* _rebuildProvider throws (no API key any more): the approval stays consumed. *)
\* Slip: the failure is saved before it is thrown.
ProviderThrowsSaved(c) ==
    /\ pc[c] = "provider"
    /\ pc' = [pc EXCEPT ![c] = "threw"]
    /\ Persist(c, obj[ref[c]])
    /\ UNCHANGED <<sid, ref, ask, acting, todo, got, obj, sessions, world, ghosts>>

ProviderThrows(c) ==
    /\ pc[c] = "provider"
    /\ Reject(c)
    /\ UNCHANGED <<sid, ref, ask, todo, got, world, effects>>

-----------------------------------------------------------------------------
(* cancel(), and what happens around the runtime *)

\* Slip: the session is declared cancelled while its loop still runs.
cancelAtOnce(s) ==
    /\ sessions[s] # None
    /\ obj[sessions[s]].state = "RUNNING"
    /\ obj' = [obj EXCEPT ![sessions[s]].state = "CANCELLED"]
    /\ UNCHANGED <<callVars, sessions, saveVars, world, ghosts>>

cancel(s) ==
    /\ sessions[s] # None
    /\ obj[sessions[s]].state = "RUNNING"
    /\ obj' = [obj EXCEPT ![sessions[s]].cancelled = TRUE]
    /\ UNCHANGED <<callVars, sessions, saveVars, world, ghosts>>

(* The save of c ends: what c does next, if it awaited it. *)
SaveEnds(c) ==
    /\ c \in writing
    /\ ordered => ahead[c] = {}
    /\ writing' = writing \ {c}
    /\ rec' = [rec EXCEPT ![c] = NoRecord]
    /\ ahead' = [d \in Call |-> ahead[d] \ {c}]
    /\ pc' = [pc EXCEPT ![c] = CASE @ = "saveTurn"  -> "top"
                                 [] @ = "savePause" -> "paused"
                                 [] @ = "saveBlock" -> "done"
                                 [] OTHER           -> @]
    /\ UNCHANGED <<sid, ref, ask, acting, todo, got, obj, sessions, late, restarts, ordered, ghosts>>

SaveLands(c) ==
    /\ SaveEnds(c)
    /\ store' = [store EXCEPT ![sid[c]] = rec[c]]
    /\ UNCHANGED unsaved

(* A failed save is logged and otherwise ignored. *)
SaveFails(c) ==
    /\ SaveEnds(c)
    /\ unsaved' = TRUE
    /\ UNCHANGED store

(* maxRuntimeMs after startedAt, which a record keeps. *)
RuntimeElapses(s) ==
    /\ sid[s] = s
    /\ late' = late \cup {s}
    /\ UNCHANGED <<callVars, obj, sessions, saveVars, restarts, ordered, unsaved, ghosts>>

(* The process dies and is started again: only the repository survives. *)
Restart ==
    /\ restarts < MaxRestarts
    /\ restarts' = restarts + 1
    /\ pc' = [c \in Call |-> IF pc[c] \in {"idle", "done", "threw"} THEN pc[c] ELSE "lost"]
    /\ obj' = [c \in Call |-> Blank]
    /\ sessions' = [s \in Runs |-> None]
    /\ writing' = {}
    /\ ahead' = [c \in Call |-> {}]
    /\ rec' = [c \in Call |-> NoRecord]
    /\ UNCHANGED <<sid, ref, ask, acting, todo, got, store, late, ordered, unsaved, ghosts>>

-----------------------------------------------------------------------------
(* What the runtime does on its own once an invocation is under way. *)
Progress(c) ==
    \/ LoopTop(c) \/ ModelTurn(c) \/ ModelThrows(c) \/ NextCall(c) \/ TurnAnswered(c)
    \/ ToolReturns(c) \/ ToolBlocked(c) \/ ApprovedToolReturns(c) \/ BlockPersist(c)
    \/ Load(c) \/ LoadThrows(c) \/ ProviderReady(c) \/ ProviderThrows(c)

Next ==
    \/ \E c \in Runs : Run(c)
    \/ \E c \in Call : Progress(c) \/ SaveLands(c) \/ SaveFails(c)
    \/ \E c \in Resumes, s \in Runs, a \in Call \cup {None}, yes \in BOOLEAN :
          Resume(c, s, a, yes) \/ ResumeUnknown(c, s, a, yes)
    \/ \E s \in Runs : cancel(s) \/ RuntimeElapses(s)
    \/ Restart

Spec == Init /\ [][Next]_vars

(***************************************************************************)
(* The event loop runs every continuation that is ready; a provider        *)
(* request, a tool (its terminal commands have a timeout) and a save end.  *)
(* Nothing makes a user call resume() or the process die.                  *)
(***************************************************************************)
Fairness == \A c \in Call : /\ WF_vars(Progress(c))
                            /\ WF_vars(SaveLands(c) \/ SaveFails(c))

FairSpec == Spec /\ Fairness
-----------------------------------------------------------------------------
(* Correctness *)

(* Every variable holds values of its kind. *)
TypeOK ==
    /\ pc \in [Call -> Places]
    /\ sid \in [Call -> Runs \cup {None}]
    /\ ref \in [Call -> Call \cup {None}]
    /\ ask \in [Call -> [id : Call \cup {None}, yes : BOOLEAN]]
    /\ acting \in [Call -> Call \cup {None}]
    /\ todo \in [Call -> Nat]
    /\ got \in [Call -> Nat]
    /\ obj \in [Call -> Object]
    /\ sessions \in [Runs -> Call \cup {None}]
    /\ ordered \in BOOLEAN
    /\ store \in [Runs -> Record]
    /\ writing \in SUBSET Call
    /\ ahead \in [Call -> SUBSET Call]
    /\ rec \in [Call -> Record]
    /\ late \in SUBSET Runs
    /\ restarts \in Nat
    /\ effects \in [Call -> Nat]
    /\ decided \in SUBSET (Call \X BOOLEAN)
    /\ unsaved \in BOOLEAN

(***************************************************************************)
(* The limits of a session hold across every pause, resume and restart:    *)
(* the tools performed for it never exceed maxToolCalls, nor do the model  *)
(* turns exceed maxIterations.  (resume() starts a tool without looking at *)
(* the limit, and the counter counts a refused call and its approved       *)
(* repetition both: toolCalls itself may pass maxToolCalls by one.)        *)
(***************************************************************************)
WithinLimits(s) ==
    /\ s.ran <= MaxToolCalls
    /\ s.toolCalls <= MaxToolCalls + 1
    /\ s.iterations <= MaxIterations

Limits == /\ \A o \in Call : WithinLimits(obj[o])
          /\ \A s \in Runs : WithinLimits(store[s])

(***************************************************************************)
(* A session object has one invocation driving it at most, and an approval *)
(* is on offer only while it has none: run() and the resume()s that        *)
(* continue it, each holding the same object across its awaits, never have *)
(* the model or a tool at work for it at the same time.                    *)
(***************************************************************************)
Driving == {"provider", "model", "tool", "top", "calls", "saveTurn"}

SingleDriver ==
    \A c \in Call : pc[c] \in Driving =>
        /\ obj[ref[c]].pending = None
        /\ \A d \in Call \ {c} : pc[d] \in Driving => ref[d] # ref[c]

(***************************************************************************)
(* A record that says WAITING_FOR_APPROVAL carries the approval it waits   *)
(* for, so that a resume() after a restart finds something to match: no    *)
(* save ever catches a session between the consumption of its approval and *)
(* its next state.                                                         *)
(***************************************************************************)
StoredApprovalIsWhole ==
    \A s \in Runs : store[s].state = "WAITING_FOR_APPROVAL" => store[s].pending # None

(***************************************************************************)
(* A refused action takes effect only after the user approved that very    *)
(* approval: a stale or replayed decision does not resolve another one.    *)
(***************************************************************************)
EffectNeedsItsApproval ==
    \A a \in Call : effects[a] > 0 => <<a, TRUE>> \in decided

(***************************************************************************)
(* As long as the process lives, an approval is resolved once: its action  *)
(* takes effect at most once, and never when it was denied.                *)
(***************************************************************************)
ResolvedOnceInAProcess ==
    restarts = 0 => \A a \in Call : /\ effects[a] <= 1
                                    /\ <<a, FALSE>> \in decided => effects[a] = 0

(***************************************************************************)
(* When a live session has ended, or waits with its approval on offer, and *)
(* its saves have all succeeded in order, the repository holds exactly its *)
(* record: a restart at that moment loses nothing.                         *)
(***************************************************************************)
AtRest(s) == \/ s.state \in Terminal
             \/ s.state = "WAITING_FOR_APPROVAL" /\ s.pending # None

StoreCatchesUp ==
    (restarts = 0 /\ ordered /\ ~unsaved /\ writing = {}) =>
        \A s \in Runs : (sessions[s] # None /\ AtRest(obj[sessions[s]])) =>
            store[s] = toSessionRecord(obj[sessions[s]])

(***************************************************************************)
(* A session that has ended stays as it ended, whatever invocations still  *)
(* hold it (only the death of the process takes the object away).          *)
(***************************************************************************)
EndIsFinal ==
    [][\A o \in Call : obj[o].state \in Terminal =>
           obj'[o].state \in {obj[o].state, "IDLE"}]_vars

(***************************************************************************)
(* So does its record, when the repository performs saves in order: a save *)
(* that was on its way when the session ended does not bring it back.      *)
(***************************************************************************)
StoredEndIsFinal ==
    [][\A s \in Runs : (ordered /\ restarts = 0 /\ store[s].state \in Terminal) =>
           store'[s].state = store[s].state]_vars

(***************************************************************************)
(* Every invocation of run() and resume() returns: the limits end the      *)
(* loop even when the model never stops asking for tools.                  *)
(***************************************************************************)
EveryCallReturns ==
    \A c \in Call : pc[c] # "idle" ~> pc[c] \in {"done", "threw", "lost"}

(***************************************************************************)
(* While the process lives, the runtime implements the promise of module   *)
(* Approvals.  An approval is open while a session object offers it, and   *)
(* granted while the resume() that was given it has yet to act.            *)
(***************************************************************************)
status ==
    [a \in Call |->
        IF <<a, FALSE>> \in decided THEN "denied"
        ELSE IF <<a, TRUE>> \in decided
        THEN IF \E c \in Call : acting[c] = a THEN "granted" ELSE "spent"
        ELSE IF \E o \in Call : obj[o].pending = a THEN "open"
        ELSE "unasked"]

Promise == INSTANCE Approvals WITH Approval <- Call

ImplementsPromise == Promise!Spec

(***************************************************************************)
(* What the comment of resume() promises without that condition: a second  *)
(* resume() with the same approval id finds nothing left to match, "even   *)
(* if this call is somehow still in flight when it arrives".               *)
(***************************************************************************)
ReplayFindsNothing ==
    \A c, d \in Resumes :
        (c # d /\ pc[c] \in {"provider", "tool"} /\ pc[d] \in {"provider", "tool"}
               /\ acting[c] # None) => acting[c] # acting[d]

(***************************************************************************)
(* What the provider adapters promise their APIs: the history sent to the  *)
(* model has a result for every function call in it.                       *)
(***************************************************************************)
HistoryIsAnswered ==
    \A c \in Call : pc[c] = "model" => obj[ref[c]].open = 0
=============================================================================
