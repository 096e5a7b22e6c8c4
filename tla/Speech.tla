--------------------------------- MODULE Speech --------------------------------
(***************************************************************************)
(* What the web client does while a reply is written and spoken: the chat  *)
(* store (store/chatStore.js), the handlers that change it                 *)
(* (providers/ChatProvider.jsx, components/Character/VoiceControls.jsx,    *)
(* components/Chat/ChatComposer.jsx), the queue of the tracks to play      *)
(* (services/audioQueue.js), the state of the character                    *)
(* (core/CharacterStateMachine.js, core/YunaEngine.js,                     *)
(* core/EmotionEngine.js) and its lips (live2d/Live2DCoordinator.js).      *)
(*                                                                         *)
(* Each handler runs to its end.  The rejection of a play() that is given  *)
(* up is handled before the next event, as the browser does; the events of *)
(* the audio element come when they please, and are discarded when a new   *)
(* source is set.                                                          *)
(***************************************************************************)
EXTENDS Naturals, Sequences

CONSTANTS
    MaxTracks, \* BOUND: the tracks the server sends, numbered as they come
    Moods,     \* the states of the character an emotion maps to, and "idle"
    Answers    \* BOUND: the answers of the server; two of them may overlap

SpeechAssumption ==
    /\ MaxTracks \in Nat
    /\ "idle" \in Moods
    /\ Moods \intersect {"thinking", "talking", "listening"} = {}

Tracks == 1..MaxTracks
NoTrack == 0

VARIABLES
    told,      \* what the client has been told of each answer
    typing, thinking,  \* chatStore
    listening, \* the microphone of VoiceControls is on
    machine,   \* CharacterStateMachine.currentState
    engine,    \* YunaEngine.state
    queue,     \* AudioQueue.queue
    playing,   \* AudioQueue.playing
    element,   \* the audio element: its source and what that is doing
    rejected,  \* the play() calls whose rejection is about to be handled
    rendered,  \* the value of typing that the canvas has last reacted to
    speaking,  \* Live2DCoordinator.isSpeaking
    fate       \* what has become of each track

vars == <<told, typing, thinking, listening, machine, engine,
          queue, playing, element, rejected, rendered, speaking, fate>>

Busy == {"thinking", "talking"}
States == Moods \union Busy \union {"listening"}

TypeOK ==
    /\ told \in [Answers -> {"none", "started", "streaming", "ended", "done", "replied", "over", "refused"}]
    /\ <<typing, thinking, listening>> \in BOOLEAN \X BOOLEAN \X BOOLEAN
    /\ machine \in States
    /\ engine \in States
    /\ queue \in Seq(Tracks)
    /\ playing \in BOOLEAN
    /\ element \in [src : Tracks \union {NoTrack}, phase : {"none", "asked", "starting", "sounding", "over"}]
    /\ rejected \in Seq(Tracks)
    /\ <<rendered, speaking>> \in BOOLEAN \X BOOLEAN
    /\ fate \in [Tracks -> {"none", "waiting", "over", "dropped"}]

Silence == [src |-> NoTrack, phase |-> "none"]

Init ==
    /\ told = [a \in Answers |-> "none"]
    /\ typing = FALSE
    /\ thinking = FALSE
    /\ listening = FALSE
    /\ machine = "idle"
    /\ engine = "idle"
    /\ queue = <<>>
    /\ playing = FALSE
    /\ element = Silence
    /\ rejected = <<>>
    /\ rendered = FALSE
    /\ speaking = FALSE
    /\ fate = [t \in Tracks |-> "none"]

\* The play() of the source is neither resolved nor rejected.
Pending(e) == e.phase \in {"asked", "starting"}

\* The handlers of rejections run before anything else does.
Quiet == rejected = <<>>

(***************************************************************************)
(* The audio queue                                                         *)
(***************************************************************************)

\* playNext with the queue q and the element e, after the caller set playing to
\* FALSE: the next track becomes the source, and a source that is still
\* starting is given up.  f is the fate of the tracks so far.
PlayNext(q, e, f) ==
    IF q = <<>>
    THEN /\ playing' = FALSE
         /\ queue' = q
         /\ element' = e
         /\ fate' = f
    ELSE /\ playing' = TRUE
         /\ queue' = Tail(q)
         /\ element' = [src |-> Head(q), phase |-> "asked"]
         /\ fate' = IF Pending(e) THEN [f EXCEPT ![e.src] = "dropped"] ELSE f

\* The play() that PlayNext gives up, if any.
GivenUp(q, e) == IF q # <<>> /\ Pending(e) THEN <<e.src>> ELSE <<>>

Marked == [fate EXCEPT ![element.src] = "over"]
Over == [element EXCEPT !.phase = "over"]

\* add: a track that comes while another one plays waits for its turn.
Add(t) ==
    LET q == Append(queue, t)
        f == [fate EXCEPT ![t] = "waiting"]
    IN \/ /\ playing
          /\ queue' = q
          /\ fate' = f
          /\ UNCHANGED <<playing, element, rejected, speaking>>
       \/ /\ ~playing
          /\ PlayNext(q, element, f)
          /\ rejected' = GivenUp(q, element)
          /\ UNCHANGED speaking

\* stop: the queue is emptied, and loading no source ends a play() under way.
Stop ==
    /\ queue' = <<>>
    /\ playing' = FALSE
    /\ speaking' = FALSE
    /\ element' = Over
    /\ rejected' = IF Pending(element) THEN <<element.src>> ELSE <<>>
    /\ fate' = [t \in Tracks |-> IF fate[t] = "waiting" THEN "over" ELSE fate[t]]

Others == <<told, typing, thinking, listening, machine, engine, rendered>>
Unheard == <<queue, playing, element, rejected, speaking, fate>>

\* onplay, which comes as soon as play() is allowed.
Starts ==
    /\ Quiet /\ element.phase = "asked"
    /\ element' = [element EXCEPT !.phase = "starting"]
    /\ playing' = TRUE
    /\ speaking' = TRUE
    /\ UNCHANGED <<queue, rejected, fate>> /\ UNCHANGED Others

\* play() is resolved.
Sounds ==
    /\ Quiet /\ element.phase = "starting"
    /\ element' = [element EXCEPT !.phase = "sounding"]
    /\ UNCHANGED <<queue, playing, rejected, speaking, fate>> /\ UNCHANGED Others

\* onended, and onerror for a track that breaks while it is heard.
Finished ==
    /\ Quiet /\ element.phase = "sounding"
    /\ PlayNext(queue, Over, Marked)
    /\ speaking' = FALSE
    /\ UNCHANGED rejected /\ UNCHANGED Others

\* A source that cannot be played: the error event moves on to the next track,
\* and then the play() of this one is rejected as well.
CannotPlay ==
    /\ Quiet /\ element.phase = "starting"
    /\ PlayNext(queue, Over, Marked)
    /\ rejected' = <<element.src>>
    /\ speaking' = FALSE
    /\ UNCHANGED Others

\* The browser does not let the page play: there is no event, only the
\* rejection.
NotAllowed ==
    /\ Quiet /\ element.phase = "asked"
    /\ element' = Over
    /\ fate' = Marked
    /\ rejected' = <<element.src>>
    /\ UNCHANGED <<queue, playing, speaking>> /\ UNCHANGED Others

\* The handler of a rejection moves on, whatever is being played by then.
Rejected ==
    /\ ~Quiet
    /\ PlayNext(queue, element, fate)
    /\ rejected' = Tail(rejected) \o GivenUp(queue, element)
    /\ speaking' = FALSE
    /\ UNCHANGED Others

(***************************************************************************)
(* The character                                                           *)
(***************************************************************************)

\* changeState: a state the machine is in already is not shown again.
ChangeState(s) ==
    /\ machine' = s
    /\ engine' = IF machine = s THEN engine ELSE s

\* _handleUpdate of the emotion engine; a mood without a state maps to none.
EmotionUpdate(mood) ==
    /\ engine' = IF engine \in Busy THEN engine ELSE mood
    /\ UNCHANGED machine

\* The canvas renders a new value of typing, and lets the lips follow it.
Render ==
    /\ Quiet /\ rendered # typing
    /\ rendered' = typing
    /\ speaking' = typing
    /\ UNCHANGED <<told, typing, thinking, listening, machine, engine,
                   queue, playing, element, rejected, fate>>

(***************************************************************************)
(* What the server tells the client                                        *)
(***************************************************************************)
Tell(a, from, to) == told[a] = from /\ told' = [told EXCEPT ![a] = to]

ThinkingStart(a) ==
    /\ Quiet /\ Tell(a, "none", "started")
    /\ thinking' = TRUE
    /\ ChangeState("thinking")
    /\ UNCHANGED <<typing, listening, rendered>> /\ UNCHANGED Unheard

StreamStart(a) ==
    /\ Quiet /\ Tell(a, "started", "streaming")
    /\ typing' = TRUE
    /\ ChangeState("talking")
    /\ UNCHANGED <<thinking, listening, rendered>> /\ UNCHANGED Unheard

StreamEnd(a) ==
    /\ Quiet /\ Tell(a, "streaming", "ended")
    /\ typing' = FALSE
    /\ UNCHANGED <<thinking, listening, machine, engine, rendered>>
    /\ UNCHANGED Unheard

ThinkingEnd(a) ==
    /\ Quiet /\ Tell(a, "ended", "done")
    /\ thinking' = FALSE
    /\ ChangeState("idle")
    /\ UNCHANGED <<typing, listening, rendered>> /\ UNCHANGED Unheard

\* The reply; there is none after a stream that was cancelled.
Reply(a) ==
    /\ Quiet /\ Tell(a, "done", "replied")
    /\ typing' = FALSE
    /\ \E mood \in Moods : ChangeState(mood)
    /\ UNCHANGED <<thinking, listening, rendered>> /\ UNCHANGED Unheard

\* The emotion that follows a reply.
Emotion(a) ==
    /\ Quiet /\ Tell(a, "replied", "over")
    /\ \E mood \in Moods : EmotionUpdate(mood)
    /\ UNCHANGED <<typing, thinking, listening, rendered>>
    /\ UNCHANGED Unheard

\* An answer that fails.
Fails(a) ==
    /\ Quiet /\ told[a] \in {"none", "started", "streaming", "done"}
    /\ told' = [told EXCEPT ![a] = IF @ = "none" THEN "refused" ELSE "over"]
    /\ typing' = FALSE
    /\ thinking' = FALSE
    /\ ChangeState("idle")
    /\ UNCHANGED <<listening, rendered>> /\ UNCHANGED Unheard

\* A piece of the answer, spoken; it may come long after the answer.
VoiceAudio ==
    /\ Quiet /\ \E a \in Answers : told[a] \notin {"none", "started", "refused"}
    /\ \E t \in Tracks : /\ \A s \in Tracks : (fate[s] = "none") <=> (s >= t)
                         /\ Add(t)
    /\ UNCHANGED Others

\* The connection is lost; typing and thinking stay as they are, and the
\* answers under way go on for nobody.
Disconnect ==
    /\ Quiet
    /\ ChangeState("idle")
    /\ Stop
    /\ told' = [a \in Answers |-> IF told[a] = "none" THEN "none" ELSE "over"]
    /\ UNCHANGED <<typing, thinking, listening, rendered>>

(***************************************************************************)
(* The user                                                                *)
(***************************************************************************)

\* The stop button of the composer, shown while a reply is under way.
StopGeneration ==
    /\ Quiet /\ (typing \/ thinking)
    /\ typing' = FALSE
    /\ thinking' = FALSE
    /\ Stop
    /\ UNCHANGED <<told, listening, machine, engine, rendered>>

\* toggleListening: the microphone is switched off, or a reply that is under
\* way is interrupted before it is switched on.
SwitchOff ==
    /\ Quiet /\ listening
    /\ listening' = FALSE
    /\ ChangeState("idle")
    /\ UNCHANGED <<told, typing, thinking, rendered>> /\ UNCHANGED Unheard

SwitchOn ==
    /\ Quiet /\ ~listening
    /\ listening' = TRUE
    /\ typing' = FALSE
    /\ thinking' = FALSE
    /\ machine' = "listening"
    /\ IF typing \/ thinking
       THEN Stop /\ engine' = "listening"
       ELSE ChangeState("listening") /\ UNCHANGED Unheard
    /\ UNCHANGED <<told, rendered>>

\* What was said has been recognised, or nothing was.
Recognised ==
    /\ Quiet /\ listening
    /\ listening' = FALSE
    /\ UNCHANGED <<told, typing, thinking, machine, engine, rendered>>
    /\ UNCHANGED Unheard

Next ==
    \/ Starts \/ Sounds \/ Finished \/ CannotPlay \/ NotAllowed \/ Rejected \/ Render
    \/ \E a \in Answers : \/ ThinkingStart(a) \/ StreamStart(a) \/ StreamEnd(a)
                          \/ ThinkingEnd(a) \/ Reply(a) \/ Emotion(a) \/ Fails(a)
    \/ VoiceAudio \/ Disconnect
    \/ StopGeneration \/ SwitchOff \/ SwitchOn \/ Recognised

\* The audio element gets on with what it is given, and handlers run.
Fairness ==
    /\ WF_vars(Starts \/ NotAllowed)
    /\ WF_vars(Sounds \/ CannotPlay)
    /\ WF_vars(Finished)
    /\ WF_vars(Rejected)

Spec == Init /\ [][Next]_vars /\ Fairness

(***************************************************************************)
(* Properties                                                              *)
(***************************************************************************)

\* A thinking or talking character is shown as one: the state machine and the
\* emotion engine both write the state that is shown, and the machine writes
\* it only when its own copy changes.
BusyShows == machine \in Busy => engine = machine

\* The lips move only while a track is played or the text is being written: they
\* come to rest whichever of the two writers was the last, also when tracks
\* fail, are stopped, or give way to others.
LipsRest == speaking => rendered \/ element.phase \in {"starting", "sounding"}

\* Every track leaves the queue: one that breaks, is not allowed or is stopped
\* never leaves the queue waiting for an event that does not come.
QueueMovesOn == \A t \in Tracks : (fate[t] = "waiting") ~> (fate[t] # "waiting")

\* "Treat it like `ended`: clear state and move on to the next queued track":
\* a track that is not stopped is heard, or cannot be played.  The code breaks
\* it: the error event of a bad track and the rejection of its play() both
\* move on, so that the track after it is given up before it is heard.
NoneIsDropped == \A t \in Tracks : fate[t] # "dropped"

\* "stale audio/speaking state never lingers": nothing of an earlier reply is
\* heard, or about to be, when the microphone is switched on.  The code breaks
\* it once the text of the reply is complete: the spoken reply goes on.
MicSilencesReply ==
    [][~listening /\ listening' => queue' = <<>> /\ ~Pending(element') /\ element'.phase # "sounding"]_vars

================================================================================
