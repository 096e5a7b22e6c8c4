# Louis AI in TLA+

Louis AI is an assistant with a Node.js server (`src/server`), a React client
(`src/yuna`) and an Electron shell (`src/electron`). The server is one process
with one event loop; what runs concurrently in it are asynchronous handlers
that give way at every `await`. The client is a page with one event loop too,
which the server's packets, timers and the user's clicks share. These modules
describe the parts of the program whose correctness depends on the order in
which handlers, packets, timers and processes go on. An action of a module is
the code between two awaits.

Contents: [inventory](#inventory), [modules](#modules), [how the modules
correspond to the code](#the-core-modules), [runs and bounds](#runs),
[fairness](#fairness), [proofs](#proofs), [what TLC
refuted](#what-the-code-does-not-keep), [what is not modelled](#not-modelled).

## Inventory

| Component | State | Operations | Interacts with | What is hard |
|---|---|---|---|---|
| Coding agent runtime (`CodingAgentRuntime`, `CodingSessionService`) | `_sessions`, one `CodingAgentSession` each: state, counters, pending approval, history | run, resume, cancel, the loop of turns and tools | model adapters, workspace capability, session repository, client (events) | approvals decided late or twice, resume after a restart, limits over pauses, saves overtaken by the session |
| Session persistence (`codingSessionRecord`, File/Mongo repository) | a record per session; per-file chain of saves | save, load | the runtime, not awaited by it in most places | ordering, failing saves, process death between effect and save |
| Workspace, terminal, Git | files with hashes, table of running commands, index and work tree | read, write, run, stage, commit | the agent, the user's editor and panels | stale hash, timeout against exit against cancel, answers that overtake each other |
| Voice service (`VoiceService`) | shared queue, `currentState`, `_currentOwnerId`, timers | enqueue, playQueue/speak, cancelForUser, stop | orchestrator (enqueue), chat controller (cancel), socket bridge | one state machine written by overlapping loops, late synthesis, timers of older interrupts |
| Chat streaming (`chatController`, `AIOrchestrator.streamReply`) | `activeStreams` per user, attempt and retry state | message, cancel | model provider, memory, voice | cancel against completion, timed out attempts still running |
| Scheduler (`ScheduleService`) | task map, timers, one file per owner | add timer/reminder/recurring, cancel, fire, load | orchestrator, socket | overlapping writes, identifiers from the clock, restart between fire and save |
| Agent coordinator, event bus, agents, permissions, browser | plans, controllers, permission requests, tabs | message, delegate, cancel, grant, open and close tabs | agents over the event bus, chat | a step whose agent never answers, cancel in flight, one browser for all callers |
| Memory | short-term lists, long-term facts and profile, per-user lock | reply, compress, save, clean, remove | the model (digests, embeddings), repositories | read before an await and written after it |
| Accounts, password reset, sign-in, administration | users, one-time codes, tokens, lists | request, verify, reset, sign in and out, toggle, remove | repositories, mail, sockets | attempts checked before an await and counted after it; a file rewritten as a whole; optimistic rows |
| Settings, credentials, providers | a file per user, the pages that show it | get, set, migrate | every service | whole-file writes from stale pages |
| Plugins | registry, watchers, debounce timers | load, reload, shutdown | event bus | reloads that overlap |
| Prompts, personality, emotion | session, emotion, personality per user; one state machine | a turn, decay | memory, chat | turns of one user that overlap |
| Boot and shutdown | stages, listening socket, store, requests in flight | boot, signals | everything | failures half way, a second signal |
| Coding client | tabs, dirty flags, panels, the run that is shown | open, edit, save, run, stop, approve, stage | server events and answers | events against edits, answers after timeouts |
| Chat client, audio queue, connection, pictures | messages, queue, one audio element, socket, cards | send, stop, play, call, retry | server events | element events of an abandoned clip, calls kept back while offline |
| Wake word, desktop shell | windows, pending payload, microphone | wake, show, hide, pause | renderer over IPC | window not ready, hidden or destroyed; several microphones |
| Character, emotion, Live2D | model, motion, face, eyes | mount, load, tap, frame | chat events | loads that end late, flags that outlive what they were for |
| Routes, views | none of their own | requests, markup | — | — |

What makes each correct:

- *Runtime*: limits are never passed; a session object has one driver; a
  refused action happens only after its own approval, once per life of the
  process; the repository catches up with what ended.
- *Voice*: the machine is never stuck; everyone is served.
- *Chat*: a Stop finds the stream it is meant for, and of a cancelled stream nothing
  but its end is shown (its reply may still be spoken, see below); every message is
  answered or reported, from one request; the client is released.
- *Scheduler*: what is listed is armed; the file agrees with the map once writes
  are over; a task fires once at most.
- *Coordinator*: a delegated step was earned by those before it and, if it is
  risky, by a permission; a message ends. *Browser*: every caller finds a tab.
- *Memory*: compression loses only what arrives meanwhile; what was saved stays.
- *Accounts*: a code is guessed a bounded number of times; a token changes the password
  no more often than there are resets that overlap, and is refused afterwards; the chat
  in a window is of its user; a row of the administrator is the account; the file
  of accounts does what a database would.
- *Settings*: a key is the one the user saved last.
- *Coding client*: a save overwrites only what its tab has shown; the panel is of
  one run and says what is true of it; Cancel cancels its own command.
- *Chat client*: a window that waits is waited for by something.
- *Wake word*: switched off is silent, and it listens again once the manual microphones
  rest, unless the window of the last one in use is gone; the popup shows the
  latest phrase.
- *Character*: the newest model is the one on the canvas; the face comes back.
- *Server*: it ends, with its requests answered, its store closed and nothing watched,
  but for what could not be closed and what a hot reload opened meanwhile.

`PROJECT.json` lists the hazards one by one, at the line where each bites, with
the properties that watch them.

## Modules

| Module | Models |
|---|---|
| `CodingAgent`, `Approvals` | the runtime, its sessions, both repositories, restarts; abstract: what the approval handshake promises |
| `VoiceService` | the shared speech queue |
| `Chat` | chat client, its connection, the controller and the retry loop of a streamed reply |
| `ScheduleService` | the scheduler's maps, the users' files, writes under way, restarts |
| `Coordinator` | plans, permissions, delegated steps, cancellation |
| `Memory` | short and long memory of a user, compression, the lock, removal |
| `Accounts` | one-time codes, tokens, accounts that come and go |
| `Sessions` | sign-up, sign-in, sign-out in two windows, their sockets and chats |
| `Admin` | the administrator's list against the server |
| `UserStore`, `FileUsers` | abstract: one step per write on the accounts (and MongoDB); the same over one JSON file |
| `Settings`, `Providers` | the settings files with keys and their pages; the choice of a provider and a model |
| `Plugins` | loading and hot reloading |
| `Mind`, `Emotion` | what the prompt of a turn reads and writes; the mood |
| `Browser` | tabs of the headless browser |
| `Boot` | boot, listening, signals, shutdown |
| `Editor`, `Terminal`, `CodingClient`, `Explorer`, `Git` | the coding view against the server and the agent |
| `Live2D`, `Expression`, `Eyes` | model loading and motions; expression and mouth; gaze and lids |
| `Speech` | the spoken reply: store, audio queue, state of the character, lips |
| `Connection`, `Images` | the socket of a window and calls that wait; pictures |
| `WakeMic`, `WakePopup`, `WakeChat` | who holds the microphone; the popup and its payload; the popup's turns |
| `MCCodingAgent`, `MCScheduleService` | these for TLC (symmetry, bounds) |
| `MCServer`, `MCClient`, `MCTurns` | the components of the server, of the client, and those with liveness, for TLC |
| `*Proofs` | inductive invariants and theorems (`ServerProofs`: the components of `MCServer`; `ClientProofs` and `ClientSocketProofs`: those of `MCClient`) |

The specifications do not share variables. Where components meet, each leaves the
other free: `Chat` records that a reply was queued as speech, and `VoiceService`
accepts segments at any time. That is sound for safety, since the free environment
has every behaviour the real one has. `MCServer`, `MCClient` and `MCTurns` hold
several components as instances; a behaviour chooses one of them (`part`), which
then runs while the rest stays as it begins. One run therefore checks each of its
components in full, and a property of a run names the components it is about. The
`VIEW` of `MCServer.cfg` and `MCClient.cfg` names the variables of the component that runs, which
tells as many states apart.

In the specifications a definition headed *Slip* is not part of the
specification: it is the definition after it with a plausible mistake, and
`PROJECT.json` ("mutants") says which property notices it.

## The core modules

### CodingAgent

`pc[c]` is the await at which the invocation `c` of `run()` or `resume()` stands;
`ref[c]` is the session object it holds in its closure, which after a
reconstruction is not the only one of its session. `obj` is the memory of the
process, `sessions` the map `_sessions`, `store` the repository, `writing`,
`ahead` and `rec` the saves on their way.

| Code | Actions |
|---|---|
| `run` | `Run` |
| `_loop` | `LoopTop` (cancelled, limits), `ModelTurn`, `ModelThrows`, `NextCall`, `TurnAnswered` |
| `_executeToolCall`, `_pauseForApproval` | `StartTool`, `ToolReturns`, `ToolBlocked`, `BlockPersist` |
| `resume` | `Resume`, `ResumeUnknown`, `Load`, `LoadThrows`, `Decide` (`Reject`, `Matches`, `Consumed`, `Running`), `ProviderReady`, `ProviderThrows`, `ApprovedToolReturns` |
| `cancel`, `_finish`, `_persist` | `cancel`, `Finish`, `Persist` |
| `save` of either repository | `SaveLands`, `SaveFails` |
| process death | `Restart` |
| the clock | `RuntimeElapses` |

The conversation is reduced to `open`, the number of function calls in the
history that have no result. A tool is what the runtime sees of it: an answer
(with or without an error) or a refusal pending approval. Which user owns a
session is checked before everything else by `getOwned()`, so one user is
modelled. The file repository chains the saves of a session (`ahead`); the Mongo
one does not, and `ordered` says which is in use.

### VoiceService

`queue`, `state`, `current` are the fields `queue`, `currentState`,
`_currentOwnerId`. `at[p]` is where the invocation `p` of `playQueue()` is: off,
waiting for the synthesiser, or for the duration of the audio. `releases` counts
the 300 ms timers that are running; timers and delays fire in any order, which
contains every timing. An await of an async function that has returned already
continues before any other task, so the end of one `speak()` and the start of
the next are one action (`PlayQueue`). A segment with nothing to speak passes
within it. The array is represented by the set of segment numbers: segments are
appended in increasing order and only ever shifted or filtered.

### Chat

`at[m]` is where the handling of message `m` is: not sent, on its way, lost, being
prepared, streaming, waiting to be repeated, done. `active` is the user's entry in
`activeStreams`, `cancelled` the messages whose `streamState` says so. `open` holds
the requests that still stream, those given up after 30 s included: nothing aborts
them. `busy` stands for `isThinking` and `isTyping` of the client, which change
together, and names the message whose start set them; `text` for `streamingText`.

| Code | Actions |
|---|---|
| `ChatComposer`: `send`, `stopGeneration` | `send`, `stopGeneration` |
| handlers of `ChatProvider` | `Handle`, part of the step that emits |
| `handleChatMessage` | `receive`, then `Answer` when the stream ends |
| `onStart`, `onChunk`, `onEnd` of the controller | `Tell`, `Emit` |
| `cancelStream` | `cancelStream` |
| `streamReply` | `Prepared`, `PrepareFails`, `Start`, `AttemptFails`, `TimesOut`, `BackoffEnds` |
| `GeminiProvider.stream` | `Chunk`, `Complete`, `Fail` |
| a connection breaks and is made again | `Reconnect` |

Packets to the server wait in `up`; packets to the client are handled in the step
that sends them. That loses no order of events on either side: a packet to the
client that is late looks to both like packets to the server that are late. The
cancel packet has no content in the code; in the model it carries the message the
user was looking at, which only a property reads. `replies` counts what is logged and
queued as speech when a request completes, also for a stream that was cancelled.
`StopIsHeeded` is about both halves of a Stop: it finds the stream that the user
was looking at, in whatever attempt or pause between two, unless another message
has crowded it out; and what was cancelled then shows nothing but its end.

### ScheduleService

`tasks` and `jobs` are the maps of these names, `armed` the jobs that
node-schedule will run, whether or not `jobs` still knows them. `file[u]` is the
`schedule.json` of a user, `saves` the writes on their way to one. `pc[p]` is the
await at which call `p` stands, or, when `p` is a user, the loading of that
user's file at boot.

| Code | Actions |
|---|---|
| `addTimer`, `addReminder`, `addRecurring` | `add`, and `addTimer` when the user's file is loaded first |
| `cancelTask` | `cancelTask` |
| `_loadAllUsers`, `_loadOwnerTasks` | `Read`, `Parse`, `ParseDropping`, `AddAfterDrop` |
| `_saveOwnerTasks` | `Save`, part of the action that calls it; then `SaveOpens`, `SaveWrites`, `SaveFails` |
| `_scheduleJob` | `Enter`, part of the same; `Trigger` when the job runs |
| the clock, process death | `TimeComes`, `Restart` |

A task is named by the call that adds it. Its identifier in the code, the kind and
`Date.now()`, is `id`: calls of one millisecond get the same, and the maps then
have one entry for two tasks. `futile` are the tasks for which
`scheduleJob()` returns null: a timer of no duration, an invalid cron expression.

`writeFile()` empties a file and then fills it; a second one may do so in
between, and what is left is one of the two contents or no JSON (`Overwritten`). A
file that is missing and one that is empty are loaded, and written over, like one
without tasks, so all three are `{}`.

The code orders neither the writes to a user's file nor reads against writes. When
two of them overlap, when a write fails or is cut off by the death of the process,
or when two of a user's tasks share an identifier, file and map may disagree from
then on, and the user is `spoilt`. `ListedIsArmed` and `FilesApart` hold all the
same; `FileIsImage`, `CancelledIsGone`, `AddedIsKept` and `TriggeredOnce` are
stated for users to whom none of this has happened.

## The server's other modules

### Coordinator

`handleUserMessage` of `AgentCoordinator` for the messages of one user: `Receive`
(which aborts the one before), `Planned`, then step by step a permission
(`Granted`, `Denied`), a task on the event bus (`TaskEnds`), the next step
(`NextStep`), or the `AbortController` (`StopPlan`). A plan is a sequence of an
agent and whether the capability is risky. Nobody in the repository emits
`permission.granted` or `permission.denied`, so both are free.

### Browser

`tabs`, `activeTab`, `browser` are the fields `pages`, `activePageIndex`,
`browser` of `BrowserCapability`; each call stands at an await (`Launched`,
`FirstPage`, `ActivePage`, `Tabbed`, `Closed`, `Works`), any of which may reject,
and the browser may die (`Crash`).

### Memory

Replies (`Message`, `ReadProfile`, `Searched`, `Answer`), compressions (`Digested`,
`DigestFails`), calls that wait for an embedding (`Embedded`, `EmbedFails`) and the
removal of the account (`RemoveShort`, `RemoveMemories`, `RemoveProfile`). `lock` is
the chain of promises of the user: its first link runs (`LockedRead`,
`LockedWrite`, `LockedFails`); `memories` is a bag, how often the repository holds each
fact. Two facts are similar exactly when they are equal;
the numbers of the relationship are left out.

### Accounts

One e-mail address. `Submit`, `Resend` are the page; `FindUser`, `Upsert`, `Mail` the
request for a code; `Compare`, `Increment`, `MarkVerified` its verification;
`CheckToken`, `Hashed`, `UpdatePassword`, `DeleteRecord` the reset; `Create`,
`DeleteUser` a sign-up and a removal that come in between. `Expire` stands for the
clock: the code expires until it is used, the token after. `uses` counts how often a
token has changed the password: two resets that overlap both do (`TokensAreBounded`).

### Sessions

Two windows share `localStorage`. `Load`, `Restored`, `RestoreFails` are the start of a
window, `Submit`, `Enters`, `Fails` the sign-in and sign-up (`Find`, `Create`,
`Compare` on the server), `Logout`, `LoggedOut` the two halves of `logout()`. A socket
remembers the account it was opened for.

### Admin

`Refresh`, `ReadList`, `Listed`, `ListFails` are the list; `Toggle` shows the value at
once, `UpdateFeatures` stores it, `Succeeds` and `Fails` (`Revert`) come back; a
removal is `FindTarget`, `Cleanup`, `DeleteById`.

### UserStore and FileUsers

`UserStore` is what a repository promises, one step per write, and it is what MongoDB
does. `FileUsers` is `FileUserRepository`: `Enqueue` puts a call on the chain,
`WriteDraft` writes the temporary file from what it reads, `Rename` replaces
the file; `WriteFails`, `Crash` may come at any time. `queue` is the chain, `draft`
the temporary file. A file that cannot be read counts as empty in the code and
is not modelled; the next write would then keep nothing.

### Settings and Providers

A request reads, changes and writes the file of its user in one go, since its only
awaits are the synchronous links of the chain of writes; the write may fail, which
the code logs and does not tell. What overlaps are pages: `Load` and `Save` of the
settings page against `SetApiKey`, `RemoveApiKey`, `SetModels`, `SetEnabled`,
`SetWorkspaceRoot`. `Migrate` hands the file of the time before users to the first
one; `MigrationCutShort` is a crash in it. `Providers` is what becomes of the keys:
`PanelAnswered`, `ProvidersAnswered`, `ModelsAnswered`, `RunAnswered` come in any
order, and the store drops the choice that its provider no longer has.

### Plugins

Each load `l` stands at an await: `Evaluate`, `Loaded`, `Enabled`, and on its way out
`Disabled`, `Unloaded`. `Edit` is a file that changes, `TimerFires` the debounced reload.

### Mind and Emotion

A turn goes through `Begin`, `Detected`, `Recalled`, `Profiled`, `Adapted`,
`AgentsAnswer`, `Complete` or `Fail`; several turns of one user and of two users
overlap. `Emotion` has nine axes in thousandths; `AnalyzeText` and `TickDecay` are the
two things that move them. A decay is rounded towards rest, which the fractions of the
code approach without end.

### Boot

`stage` counts the awaits of `bootstrap`; a failure of one that is *Fatal* ends the
process, of the others it is caught. A signal starts a shutdown of its own:
`Shutdown`, `WatchersClosed`, `StoreClosed`, `ServerClosed`. A request arrives, may ask
the store, and answers. `Change` and `Reload` are the hot reload of a plugin, which no
shutdown stops: it closes a watcher and opens another. `watched` is `"stray"` when
something is watched that closing has left so: its closing failed, which is only
reported, or a reload opened it after the watchers were closed. `Plugins` has the
reload in its steps.

## The client's other modules

### Editor

`tab` is a tab of the store, `disk` the file on the server. Requests and answers travel
in order on one socket; a call that is given up after 15 s is served all the same
(`live`). `Type`, `TimerFires`, `SaveButton` are the user and the auto-save;
`ReadAnswered`, `SaveAnswered` the answers, with the second read and save after a
conflict; `NewsArrives` the event of the agent.

### Terminal

A terminal of the panel is busy with a run (`busy`, `runId`); `calls` are the
`handleRun` closures that wait, each with the mount of the panel it was made in.
On the server a process is asked for, runs, is killed, is over.

### CodingClient, Explorer, Git

`CodingClient`: `mail` is what travels to the socket, in order, lost while it is
disconnected and unheard while the coding view is not mounted. `Handle` is the
dispatch of an event, `isCurrent` included. `Explorer`: calls of the page are
served and answered in order; `OthersChange` are the agent and other programs. `Git`:
each call is one or two git commands, and the commands of two calls alternate. Its
panel is mounted only while it is the active one (`Open`, `Close`): what it has selected
and typed goes with it, while the status and the diff are in the store and stay. A call
of a panel that was closed is `late`: what it does to the store it still does, and
`foreign` notes a diff that came that way.

### Live2D, Expression, Eyes

`Live2D`: a session is a mount of the canvas with its load; `begun` are the motions that
were started, whose ends come in any order. `Expression` counts time in 50 ms, `Eyes` in
20 ms; a frame is one `Frame(d)`, which moves everything that frame moves.

### Speech, Connection, Images

`Speech`: `engine` and `machine` are the states of the character, `queue`, `playing`,
`element` the queue and the audio element. `fate` says what the promise of a
`play()` will come to. `Connection`: `place[c]` is where call `c` is: kept back, on its
way, at the server, on its way back. `Images`: what the server sends names no request,
and a window gives it to the card that loads.

### WakeMic, WakePopup, WakeChat

`WakeMic`: sessions of speech recognition end when they like, or some time after
`stop()`; `flags` are `enabledRef`, `stoppedRef`, `pausedForMicRef` of the hidden
listener. `mic[m]` says of each manual microphone whether it listens and how many calls
of `start()` wait for the pause: the button may be pressed again before it
listens, and the first session to end then takes the pause back under the second.
`Destroy` closes or reloads the window of a hook in use, after which nobody takes the
pause back (`deserted`). `WakePopup`: `window` is the window, `pending` the payload, `inits` the
messages on their way to its page. `WakeChat`: turns of the popup and of the main
window, which the server tells apart by nothing but their socket; `stage[t]` is where
turn `t` is.

## Runs

| Run | Question | Answer |
|---|---|---|
| `agent_safety` | one session, two `resume()`s with every decision, failing saves, either repository, one process death: are the limits kept, is an action carried out only after its approval and at most once per life of the process, does the repository catch up? | yes |
| `agent_live` | without a crash, does every call return, and is the handshake that of `Approvals`? | yes |
| `voice` | with three overlapping players, two users, cancels, a stop and failing synthesis: is the machine never stuck, and is everyone served? | yes |
| `chat` | with overlapping messages, a Stop, requests that outlive their time limit and a broken connection: is a stream that is stopped found and then silent, a message answered from one request, every stream ended, the client released? | yes |
| `schedule` | with calls, loads, writes and jobs that overlap, identifiers that collide, a write that fails and a restart: is what is listed armed, is the file the map's image, is a task triggered once? | yes |
| `server` | what the server keeps, component by component (see below) | yes |
| `client` | what the client shows, component by component | yes |
| `turns` | what must go on: plans, microphones, popup, tracks, boot and shutdown | yes |
| `agent_history` | does every call in the history sent to a model have a result? | no: the results of a turn that is interrupted by an approval are dropped |
| `chat_stop` | does Stop cancel the stream the user is looking at, as the client's comment says? | no: `activeStreams` has one entry per user |
| `edits_survive` | does a tab with unsaved edits keep them, as the comment of `CodingProvider` says? | no: a read that was under way when the user began to type replaces them |
| `history_lost` | is the conversation part of the prompt? | no: it is read by a field the messages do not have |

| Run, property | Says |
|---|---|
| `server`: `LostOnlyMeanwhile`, `FactsAreKept` | `Memory`: a message is in the short memory, was digested, or arrived while a compression was under way; what was saved or noted stays |
| `KeysAreAsChosen` | `Settings`: the key on file is the one saved last, but for failed writes and stale pages |
| `CodesAreSpent` | `Accounts`: guesses are bounded, and so is what a token changes: by the requests that overlap; it is refused once one of them has ended |
| `ActiveRuns` | `Plugins`: the instance in the map is one that runs |
| `ChatIsOfItsUser` | `Sessions`: no window shows the chat of another user |
| `RowIsTheAccount` | `Admin`: a row that waits for nothing is the account |
| `FeelingsLast` | `Mind`, `Emotion`: what a turn that ran alone learned is kept; two minutes of silence calm |
| `TabsAreKept` | `Browser`: there is an active tab if there is any; without overlap the tabs are the pages |
| `AccountsAreStored` | `FileUsers` implements `UserStore`, crashes included; e-mail addresses are unique |
| `client`: `ShownIsCurrent` | `Live2D`: the model on the canvas is that of the session that is mounted |
| `CancelsItsOwn` | `Terminal`: Cancel ends the command of its terminal |
| `PanelIsOfItsRun` | `CodingClient`, `Providers`: the panel is about one run and true of it; the model selected is one of its provider |
| `PanelsAreFresh` | `Explorer`, `Git`: what is shown is what is there, and a diff is of the file in its header, unless it was asked for by a panel closed meanwhile |
| `FaceComesBack` | `Expression`, `Eyes`: face, mouth and lids return to rest |
| `WindowIsTold` | `Connection`, `Images`, `WakeChat`: a window that says it waits is waited for, what it was told was done |
| `SilentOnlyOverSeen` | `Editor`: a save without a conflict overwrites only what its tab has shown |
| `turns`: `StepsAreEarned` | `Coordinator`: a task was preceded by the steps before it, and by its permission |
| `LatestIsShown` | `WakePopup`: the popup shows the phrase heard last |
| `EveryMessageEnds` | `Coordinator`: a message is answered, or waits for an agent that was never registered |
| `VoiceServes` | `WakeMic`, `Speech`: off is silent, on comes back when the manual microphones rest, unless the window of the last is gone; the queue moves on and the lips rest |
| `ServerEndsWell` | `Boot`: the boot ends; a signal ends the server; it ends well only with requests answered, and with store and watchers closed but for what failed, what another signal still closes, and what a reload opened |

**Bounds of the agent runs.** Two iterations and two tool calls put every limit
within reach, in either order; two calls in a turn are the least at which a
refusal meets earlier results and calls not started. Two `resume()`s are the
least that can race or replay; one crash separates the two lives between which
an approval can be replayed. Sessions share nothing but the map, so one `run()`
is enough. The live run has turns of one call and no crash, which keeps the
graph small enough for the liveness check.

**Bounds of the voice runs.** A second player arises from a late synthesis, a
third while both are under way; three segments let one play, one wait behind it
and one arrive later. `stop()` is called by nothing in the server and is allowed
once.

**Bounds of the chat runs.** Two messages are the least that overlap; two attempts
have a first repetition and a last attempt (the code has three); one chunk is
enough to make an attempt unrepeatable, and further chunks do what the first did.
One Stop and one broken connection are in the run of the invariants; the run of
the comment has two Stops, so that the first can disturb the second.

**Bounds of the schedule run.** Three calls are the least with which a cancel
overlaps a load that was begun before its write has ended: one adds, one cancels,
one adds again. Two users can collide and must stay apart. At most two writes are
under way at once (`FewSaves`), the least that overlap; one restart is enough for a
task to be loaded, dropped or triggered a second time, and one failing write may
fall before it or at the boot. Kinds are `timer`, which may load first and is
triggered once, and `recurring`, which does neither; `reminder` differs from the
first in not loading and from the second in being triggered.

**Bounds of the other runs.** Two of whatever overlaps: two compressions, two calls
about a code, two users or windows, two turns, two reloads, two saves on their way
(`MaxTravel`), two git calls, two requests of a panel, two commands typed and one of
the agent, two mounts of a panel, two manual microphones, two signals and two requests. Where the second only
makes room for a third to come between (`Live2D` sessions, messages of a memory that
must exceed its limit), three or four. Texts and files are as many as a property
tells apart: a user's, and two of others for `Editor`, so that one can be unseen. A
frame of `Expression` is 100 ms, the longest that Pixi makes; half of it has been
checked too. `Git` starts from an empty first commit, with two files and two
changes: both files can be new, staged and committed, and one removed
again, which is what a diff of one file under the name of the other takes. Its view leaves
out which call is which, what of a call will not be read any more (`ToCome`), and the ghost
that no property of the run reads. Three presses of `WakeMic` are two of one
button and one of the other, or of the switch. Of the popup, three turns without a broken connection have been checked
apart from the run, which has two.

## Fairness

`CodingAgent` assumes weak fairness of every invocation's own
steps and of saves: the event loop runs what is ready, requests fail or
return, terminal commands have a timeout. It assumes nothing of users, and
nothing of crashes. `VoiceService` assumes that the synthesiser answers or
fails and that timers fire. `Chat` assumes only that timers fire: the model may
be silent, packets may wait for ever. `EveryStreamEnds` speaks of a message from
its first attempt on, because what precedes it (intent, memories, tools) is
awaited without a time limit in the code. `Coordinator` assumes that the planner
answers, that an agent that listens ends its task, that a permission that nobody gives
times out, and that its own code goes on. `WakeMic` assumes that messages between processes arrive, timers fire and
a session that was stopped ends. `Speech` assumes that a track that sounds ends, that a
promise is settled and that a page renders. `Boot` assumes that the stages of the boot
answer or fail, that watchers and store close or fail to, and that requests are
answered. The other modules state no liveness and assume nothing.

`CHECK_DEADLOCK` is off because all of these stop when their bounded inputs are
used up and nobody calls again.

`StoreCatchesUp` speaks of the file repository and of one life of the process, where
the code means to keep it: Mongo saves are unordered, and a process may die before a
save that nobody waits for.

## Proofs

The theorems hold for all values of the constants that satisfy the named
assumptions of their module: any sets of invocations, users, calls, sessions or
facts, any limits and any plans, while a run of TLC has a few of each. Each
rests on an inductive invariant, which TLC was made to check before it was
proved; a module of proofs has a lemma per action, one theorem that puts them
together, and the properties as corollaries.

*CodingAgentProofs.* `Limits`, `SingleDriver`, `StoredApprovalIsWhole` and
`EffectNeedsItsApproval` are not inductive. That the tool started by `resume()`,
which does not look at the limit, stays within it follows from the count at
which its approval was asked for, from the fact that nobody else drove the
object since, and from what the record carried of it over a restart. `IInv`
collects this: `Control` (what each invocation and object is at: `Drivers`,
`Pausers`, `Fresh`, `Decisions`, `SoundObject`), `Saves` (every record stored or
on its way is sound) and `Rest` (types). Theorem `Invariance`, and from it
`TypeCorrect`, `LimitsHold`, `OneDriver`, `StoredApproval`, `EffectApproved`.
What holds within one life of the process rests on two invariants more. `Once`
follows an approval: as long as nobody decided it one object offers it, nobody acts
on it before it is decided, and one invocation at most does, which has had no
effect yet. `Kept` follows the record: each object is driven in a session of its
own, an invocation has one save under way, and the record of a session at rest is on file
or is the last save of its line, where after a record that ended only records
stand that ended as well. They give `ResolvedOnce`, `CatchesUp`, the action properties
`EndsForGood` and `StoredEndsForGood`, and `KeepsPromise`: under `[](restarts = 0)`
every step is a step of `Approvals` or none.

*VoiceServiceProofs.* `VInv` adds to the properties the ledger of segments: what
is queued has not begun and was not dropped; what is being synthesised was
begun, is in the hands of one player, and has not been heard. Theorems
`VoiceTypes`, `NeverStuck`, `OneAtATime`, `SentOnce`, `DroppedForGood`.

*ChatProofs.* `CInv` adds to `Registered` and the types: a message is on its way to
the server once, and only while it is `sent` (`Queue`), so that it is registered
once; two messages in flight together have both been noted (`Crowds`), which
keeps the stream that is alone registered when another ends; a message without a
timed out attempt has no request but the awaited one (`Ledger`, message by message
`Single`); and one that waits to be repeated has an attempt left (`Repeatable`).
`Shown` says that as long as the connection holds, every packet finds the client, and
what the client shows to be under way is in flight. Theorems `ChatTypes`,
`StreamRegistered`, `OneAnswer`, `Settles` (`ClientSettles`), `StopHeeded`
(`StopIsHeeded`). The last is an action property: that a Stop finds the stream rests on
`Registered`, through every attempt and pause.

*ScheduleServiceProofs.* `SInv` adds to `TypeOK` and `ListedIsArmed`: whatever is in
a file, has been read from one or is being written to one are tasks of that user,
with identifiers, each its own (`Disk`); a call has no identifier before it adds
its task (`Named`). The first is what makes loading keep the maps in step: loaded
tasks replace entries of the same identifier together with their jobs, and no two
of them replace the same. Theorems `TypeCorrect`, `Armed`, `Apart`. `OInv` is what
holds for a user whose operations neither overlapped nor failed nor were cut off
(`Orderly`): one of them is at the file at a time (`Alone`); the file is what the map
was, or what it is to be once the write under way has landed (`Image`); what is armed
is listed, and a timer or reminder that was triggered is past and no longer listed
(`Fires`); what was cancelled is in neither map nor file (`Gone`), and what was added
is wanted there (`Stays`). `Serving`, `Waits`, `Ledger` and `Distinct` say of calls
and identifiers what that rests on. Theorems `Images`, `TriggersOnce`,
`CancelledForGood`, `AddedForGood`.

*CoordinatorProofs.* `StepsAreEarned` says that a task has begun only after the
steps before it; why those are *finished* and not merely begun is in where the
call stands. `CoInv` adds: a call has a step of its plan in hand from the first
permission to the end, and only then (`Standing`); the steps before that one have
ended well, and the one in hand as well once its promise is resolved (`Behind`);
what has begun of a message is no further than its call (`Earned`). Theorems
`CoordinatorTypes`, `Earns`, and the action property `AbortedIsOver`: an
abort may leave a task under way, but begins nothing. The module also has the other
components of `MCTurns`.

- *WakePopup*: a popup that is up belongs to the payload that is kept, and once its page
  has asked, that payload is on the page or last of those on their way (`PopupInv`).
  `LatestStaysShown` (`LatestIsShown`).
- *WakeMic*: that turning wake detection off ends the session that listens needs the
  listener to know it, and a session that starts elsewhere to end it (`LiveIsKnown`), for
  any number of manual microphones, presses and windows that go. `OffIsOff`.
- *Speech*: the lips follow the track only while the queue plays, or the text that was
  rendered (`LipsFollow`); machine and engine agree on a busy character. `LipsAndMood`.
- *Boot*: nothing is connected again once a signal is handled; once a shutdown is done
  with the watchers, only what could not be closed or was opened by a reload since is
  watched; and every shutdown that has come to the requests has seen to the store, or
  another still waits for it (`StoreSeen`). `ServerEnds`.

`TurnsTypes` puts the types of the five together, over the specification of the run.

*ServerProofs* is about the components of `MCServer`, each as a specification of its
own over the variables `MCServer` gives it, with its own invariant.

- *Memory*: two properties about reading before an await and writing after it.
  For `LostOnlyMeanwhile` the invariant is `NothingLost`: the short memory and *every*
  list that a compression keeps back for its end each cover all messages but those
  that arrived meanwhile, since any of these lists may be the next short memory.
  For `FactsAreKept` it is the chain of the lock: only its first function has read, and
  what it read still tells all that was saved or noted (`Chained`, `Good`); each function
  that waits is the next step of the one call that waits for it (`Owned`); a call
  that was given the profile outside of the lock holds the object the repository holds
  (`CallOK`); the rest is `Kept`. Theorems `MemoryInvariance`, `Loses`, `Keeps`,
  `MemoryTypes`.
- *Settings*: besides the types and the two properties, `SettingsInv` says in terms of the
  file alone that the key kept for a user is the one they chose, and that nobody is an
  heir while the old file is still there. `KeysStay` (`KeysAreAsChosen`) and
  `OneInherits` (`OneHeir`).
- *Accounts*: a page waits for one request at a time, and a request knows what its
  page shows (`AccountsKept`); of one code there is one record, whose count of attempts plus the calls
  yet to count theirs covers the guesses compared (`Guesses`), so that the bound is
  the limit plus the number of requests; and a token is in one record, or in the
  hands of the one call that removes it, or spent, and stays so (`InOnePlace`,
  `Tokens`). How often it has changed the password, and will by the calls that have
  checked it, is bounded by the calls there are (`UsesCounted`). `OnceForACode`
  (`CodesAreSpent`).
- *Plugins*: `PluginsInv` says how far the load is whose instance is active
  (`ActiveIsAhead`): about to be unloaded by another, or loaded, or enabled; and that
  a load that unloads has an instance to unload. `ActivePluginRuns` (`ActiveRuns`).
- *Sessions*: `SessionsInv` adds that one sign-in at most is awaited, and none while the
  window restores its session, and that whoever restores shows no user yet.
  `ChatStaysOfItsUser`, `SocketStaysOfItsUser`, `OneAccountEach`.
- *Admin*: `RowOK` has a clause per stage of a switch or a removal: what the account
  was before it, what it is once the server has carried it out, and that a list that was
  read is true of the accounts that did not change since. `RowsStayTheAccounts`
  (`RowIsTheAccount`).
- *Browser*: the list of tabs holds a page once and only pages that were opened; a call
  that closes has its own page at its index as long as no calls overlap. Browsers
  are numbered by the calls that launch them, so the calls have to be
  finitely many (`BrowserAssumption`). `TabsStayKept` (`TabsAreKept`).
- *Mind* and *Emotion*: two turns of one user that stand between the reading and the
  writing of the personality have crossed, and a turn that adapted and crossed none is
  in what any turn of that user has read since. For the emotion the invariant
  bounds each axis by the number of decays; for joy, which decays by a twentieth and
  is rounded, by a table (`JoyAbove`). `FeelingsStay` (`FeelingsLast`).

- *FileUsers*: a file rewritten as a whole does what `UserStore` promises, one step
  per write, crashes included. `FileInv` says that who has asked stands in the chain,
  once (`FileChain`), that an identifier beyond those given is free (`FileFree`), and that
  the temporary file of the call at the head of the chain is the file with that call's
  write done to it (`DraftIsNext`), since nobody else writes meanwhile.
  `AddressesAreUnique`, and the refinement `FileImplements`.

What the run checks is not one of these specifications but `Server`, in which one of
the components moves. `EachRuns` shows that a behaviour of `Server` is one of each
component, and `ServerTypes` (`AllTypesOK`), `AccountsStayStored` (`AccountsAreStored`,
with the refinement of `UserStore`) and `ServerKeeps` (the other properties)
carry the theorems over to it.

*ClientProofs* does the same for the components of `MCClient`, except *Terminal*,
*Connection*, *WakeChat* and *Images*, which are in *ClientSocketProofs*; what holds of all
components together is at its end.

- *Live2D*: `ShownIsCurrent` needs to know which loads may still end (`Awaited`): those
  begun for a session that was mounted, and for the present one only while its
  application exists. `LiveInv` is that and the types. `Shows`.
- *Expression* and *Eyes*: the expression that was blended is the target, and the target
  is what is felt unless the character thinks (`FaceBlended`); how far the mouth may still be open
  is bounded by the frames of silence (`FaceOpenAfter`, a table, since the smoothing rounds); the
  lids are shut only while a blink holds them, so no longer than that and one frame
  (`EyesShutInABlink`). `FaceComesBackAlways` (`FaceComesBack`).
- *Editor*: a save on its way carries the hash of a text that the tab has shown (`EditorSent`),
  and so does the tab from which the next one is made, also after an answer, a reload or a
  reconnection (`EditorTabInv`). `SavesStayOverSeen` (`SilentOnlyOverSeen`).
- *Explorer*: of the calls that were served and will still be taken, the latest about a
  directory says what it holds (`ExplorerLatestSays`), and when there is none and no listing
  is to come, the tree does (`ExplorerTreeSays`), unless somebody else has changed it. The
  calls of a socket are served in their order (`ExplorerServedFirst`). *Git*: `GitInv` has a clause
  for each stage of a call. `PanelsStayFresh` (`PanelsAreFresh`).
- *CodingClient*: what the panel shows of a run lags behind the runtime by what is in
  the mail. Nothing of a run comes before its start, nothing but its record after
  its end, and an approval comes once, before any record that offers it
  (`InOrder`). As long as nothing was lost, a run that is shown as running does run or its
  end is on its way (`EndsAreTold`), and the approval that is pending is on its way, or
  offered, or being answered (`ApprovalsAreTold`). *Providers*: the selected model is one
  of the selected provider. `PanelStaysOfItsRun` (`PanelIsOfItsRun`).
- *Terminal*: the command that a terminal offers to cancel is one of the user, it has
  begun, and every entry of it stands in that terminal (`TerminalShown`); so is each
  call that waits (`TerminalWaiting`), from which the command is taken when the server says that it
  has started. A command that has not begun is in no entry (`TerminalBegun`), so that
  starting it puts it into one terminal only. `CancelStaysItsOwn` (`CancelsItsOwn`).
- *Connection*: the page says it is connected only while a socket is up whose handlers it
  attached, and says so when that socket is of the current token (`ConnectionHandlersTold`);
  where a call stands and what it was told agree on how often it was executed
  (`ConnectionOnceOnly`). *WakeChat*: of the texts that a reply shows all but one are being written
  or were cancelled (`WakeChatOneIsOver`), because turns are sent in their order. *Images*: this one
  counts. In a window whose connection has not dropped, the cards that load are at most as many
  as the requests it has sent, the events on their way to it that end a loading,
  and the picture that is being made, taken together (`Enough`), and a picture that is
  announced is being made or its end follows (`Followed`). That something is on its way while a card
  loads is not inductive: when two cards load, the answer that one takes must not be all the
  other could wait for. `WindowStaysTold` (`WindowIsTold`).

As for the server, `EachRuns` carries them over to `Client`, with the types of
all components (`ClientTypes`, `AllTypesOK`). So every invariant that the run of
`Client` checks is proved, and so is its action property.

The assumptions are those on the constants, named in the module that declares
them and no stronger than the code: sets that are disjoint, limits that are
positive, an order of the limits of the memory that its constants have. TLC evaluates
each in a run. `EndIsFinal`, `StoredEndIsFinal`, `AbortedStartsNothing`,
`CancelledIsGone` and `AddedIsKept` are proved and in no run any more; TLC found no
exception to them on the instances of `agent`, `turns` and `schedule`.

**Only model-checked.**

- Liveness, which is out of the reach of the prover: `EveryCallReturns`,
  `EveryoneIsServed`, `ComesToRest`, `EveryStreamEnds`, `EveryMessageEnds`,
  `VoiceServes`, `ServerEndsWell`.
- Of the refinement of `Approvals` by `CodingAgent` (`ImplementsPromise`) the half
  that an approved action is carried out at last; its steps are proved.

## What the code does not keep

Beside the four runs that end with a counterexample, TLC refuted these while the
modules were written; each is stated in its module or here, none has a run.

- *Runtime.* A replayed `resume()` finds nothing to match (comment of the code): after
  a restart two of them load two objects, and both execute the tool.
- *Voice.* One user's cancel leaves another's speech alone: what was queued stays
  unspoken until somebody enqueues again. The speech of a cancelled segment is never
  sent: it is, when its synthesis outlasts the 300 ms.
- *Chat.* "A cancelled stream's reply (and any voice for it) is deliberately not delivered"
  (`chatController.js:9-11`, 74-75, `ChatComposer.jsx:29-31`): when the request completes
  the reply is logged and queued as speech all the same (`AIOrchestrator.js:237-256`),
  which `socketHandler.js:64` sends (`CancelledIsNotSpoken`).
- *Coordinator.* One plan at a time (comment `AgentCoordinator.js:63`): the aborted one
  is rejected with an error that `isCancellation` does not know (130, 138) and goes on to
  its next step's failure. A task hangs when its agent never answers: the fallback
  timeout (235) reads an entry that nobody writes.
- *Browser.* The active tab stays the same while another one is closed
  (`BrowserCapability.js:111-119`); two launches (21-26) leave one browser behind.
- *Memory.* Nothing is left of a removed account (`memoryService.js:208-215`): a reply
  under way writes after the removal.
- *Accounts.* A token "can never be reused" (`passwordResetService.js:184-185`): two resets
  that overlap both find the record, and both change the password (168-186,
  `TokenIsUsedOnce`).
- *Sessions.* Signing out closes the socket: not when "Log out" is clicked twice
  (`SettingsView.jsx:53-56`) or the restore of a session fails (`authStore.js:73-77`).
- *Admin.* A list is not replaced by an older one (`AdminView.jsx:41-51`); a deletion
  leaves nothing behind (`admin.controller.js:78-160`): a request under way writes again.
- *Settings.* "The only way a key gets here is a user explicitly saving it"
  (`providerCredentialService.js:232-234`): a page opened before writes it back
  (`useSettings.js:49`).
- *Plugins.* One instance at a time (`PluginManager.js:127-128`): two reloads overlap.
- *Mind.* Every turn adapts the personality (`PersonalityEngine.js:24-29`, 137: written
  from a read before an await); the one state machine shows the emotion of another user
  (`AIOrchestrator.js:46`, 169). *Emotion.* The client shows what is felt: decay is not sent.
  The intent deltas of `EmotionEngine.js:44-49` name intents the detector never gives
  (`intentDetector.js:96-99`).
- *Boot.* Nothing asks a closed store: requests in flight do, in the order that the
  comment gives (`index.js:51-55`); a second signal does not wait for the store (86).
  "Plugin Watchers Closed." (`index.js:78`): a reload that was due watches again, and a
  closing that fails is only reported (`PluginManager.js:121-145`, `ExitsUnwatched`).
- *Coding client.* One start at a time (`useCodingAgentRunner.js:46`): the button is freed
  by 15 s. Events missed while the view is not mounted leave the panel running.
- *Terminal.* The output of the agent appears in its terminal (`TerminalPanel.jsx:14-18`):
  only of commands whose start was seen.
- *Explorer.* The root is listed afresh after a change of the workspace
  (`WorkspaceBar.jsx:78`); "create" overwrites nothing (`codingToolDefinitions.js:76`).
- *Git.* A commit with nothing staged is refused (`codingGitService.js:93` trims the status
  letters, 158-161). A diff is of the file in its header (`GitPanel.jsx:54-55`): the diff is
  in the store (`codingStore.js:316`), the header is state of a panel that is mounted while
  it is active (`CodingView.jsx:194`), and a diff asked for before the panel was closed comes under
  the header that was chosen after (`DiffIsAlwaysOfItsHeader`).
- *Providers.* A run uses a model of its own provider (`codingStore.js:149-159`): not
  before the list of the new provider has come.
- *Live2D.* A motion of higher priority is not interrupted (`MotionController.js:64`, 77-81).
  *Eyes.* Angles stay in range (`HeadRotationController.js:9`): a nod adds to them.
  *Expression.* Thinking shows at once (`Live2DCanvas.jsx:35-39`).
- *Speech.* No track is dropped (`audioQueue.js:25-28`, 97-101); speaking into the
  microphone silences the reply (`VoiceControls.jsx:32-36`).
- *Connection.* A call that timed out is over: it is kept back while offline and executed
  later. *Images.* No picture is lost, one card loads at a time (comment
  `ChatProvider.jsx:150-153`): a failure is reported twice and ends two cards.
- *WakeMic.* Off is silent at once (`wake.js:45-48`): the message takes its time.
  The listener pauses while a manual microphone listens (`wake.js:111-118`): the end of an earlier
  session of a button pressed twice, or a stop of another microphone, takes the pause
  back (`useSpeechRecognition.js:51-72`, 111-120, `GivesWay`). It "auto-resumes on its own"
  (`WakeListener.jsx:43-46`): not when the window of the microphone is closed or reloaded
  while it is in use, since nothing of the page runs then (`AlwaysResumes`).
  *WakeChat.* Only the last reply shows, one turn at a time (comment `WakePopup.jsx:59-62`).

## Not modelled

- Contents: messages, prompts, tool arguments, audio, hashes, passwords.
- A file half written at the moment of a crash (except the scheduler's, and the
  temporary file of the accounts); a file of accounts that cannot be read.
- Deletion of an account while its coding sessions are live; listing of sessions.
- Process groups and signals below `codingTerminalService`; the sandbox of plugins.
- The reply that is not streamed (`AIOrchestrator.reply`), which no handler uses
  for a chat message; several devices of one user, who would share the entry in
  `activeStreams` like overlapping messages do.
- `clearQueue`, `setProvider` and the voice profiles, which nothing calls;
  `applyRelationshipBoost`, `predict`, `reset` of the emotion, `enqueue` of the motions.
- `deleteAllForUser` of the scheduler, the migration of its legacy file. A
  `scheduler:trigger` that finds no client is lost, and the text of the one that does
  is in a field the client does not read (`socketHandler.js:38-43`).
- Outages of MongoDB while the server runs.
- The search panel, layout and styling, breathing, the requests to the vendors.
