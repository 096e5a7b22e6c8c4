------------------------------- MODULE Expression -------------------------------
(***************************************************************************)
(* What the face of the character expresses: the emotion the client is     *)
(* told (core/EmotionEngine.js, hooks/useEmotionState.js), the canvas that *)
(* passes it on with what the chat store says (live2d/Live2DCanvas.jsx),   *)
(* the coordinator (Live2DCoordinator.js), the expression it blends to     *)
(* (ExpressionEngine.js), and the mouth that speaks (LipSyncEngine.js).    *)
(*                                                                         *)
(* Time is counted in units of 50 ms.  The opening of the mouth is in      *)
(* hundredths; an expression is the name of its preset.                    *)
(***************************************************************************)
EXTENDS Naturals

CONSTANTS
    Frames,  \* the lengths of a frame: Pixi makes none longer than 100 ms
    Moods    \* the emotions the server sends

\* EXPRESSION_PRESETS: what has no preset is shown as "neutral".
Presets == {"neutral", "happy", "curious", "thinking", "shy", "sad", "angry",
            "surprised", "excited", "anxious"}
Preset(name) == IF name \in Presets THEN name ELSE "neutral"

ExpressionAssumption == Frames \subseteq 1..2 /\ Frames # {} /\ Moods # {}

Duration == 9   \* transitionDuration, 450 ms
Between == "between"

VARIABLES
    felt,      \* the primary emotion of EmotionEngine
    thinking,  \* chatStore.thinking
    typing,    \* chatStore.typing
    audible,   \* AudioQueue plays a track
    changed,   \* the panel of the character is to be rendered again
    seen,      \* the values of thinking and typing at the last rendering
    primary,   \* Live2DCoordinator.emotionState.primary
    pensive,   \* Live2DCoordinator.isThinking
    speaking,  \* Live2DCoordinator.isSpeaking, and that of the lips
    target,    \* ExpressionEngine.currentEmotion, whose preset it blends to
    elapsed,   \* transitionElapsed, 0..Duration - 1 while it is transitioning
    shown,     \* the preset that is shown, or Between
    aperture,  \* targetAperture of the procedural lips
    opening,   \* mouthOpenY
    silence    \* (ghost) for how long nobody speaks, up to Rest

store == <<felt, thinking, typing, audible, changed>>
brow == <<target, elapsed, shown>>
mouth == <<aperture, opening, silence>>
vars == <<store, seen, primary, pensive, speaking, brow, mouth>>

Rest == 8       \* 400 ms of silence
AtRest == elapsed = Duration

TypeOK ==
    /\ felt \in Moods \union {"neutral"} /\ primary \in Moods \union {"neutral"}
    /\ {thinking, typing, audible, changed, pensive, speaking} \subseteq BOOLEAN
    /\ seen \in [thinking : BOOLEAN, typing : BOOLEAN]
    /\ target \in Presets
    /\ elapsed \in 0..Duration
    /\ shown \in Presets \union {Between}
    /\ aperture \in 0..100 /\ opening \in 0..100 /\ silence \in 0..Rest

Init ==
    /\ felt = "neutral" /\ primary = "neutral"
    /\ thinking = FALSE /\ typing = FALSE /\ audible = FALSE /\ changed = FALSE
    /\ pensive = FALSE /\ speaking = FALSE
    /\ seen = [thinking |-> FALSE, typing |-> FALSE]
    /\ target = "neutral" /\ elapsed = Duration /\ shown = "neutral"
    /\ aperture = 0 /\ opening = 0 /\ silence = Rest

-----------------------------------------------------------------------------
(* What the client is told                                                  *)

\* _handleUpdate, and the listener of useEmotionState.
EmotionUpdate(m) ==
    /\ felt' = m
    /\ changed' = TRUE
    /\ UNCHANGED <<thinking, typing, audible, seen, primary, pensive, speaking, brow, mouth>>

\* setThinking and setTyping of the chat store.
StoreChanges ==
    /\ \/ thinking' = ~thinking /\ UNCHANGED typing
       \/ typing' = ~typing /\ UNCHANGED thinking
    /\ changed' = TRUE
    /\ UNCHANGED <<felt, audible, seen, primary, pensive, speaking, brow, mouth>>

\* A listener of YunaEngine's state renders the panel, and the canvas in it.
PanelChanges ==
    /\ changed' = TRUE
    /\ UNCHANGED <<felt, thinking, typing, audible, seen, primary, pensive, speaking,
                   brow, mouth>>

\* setSpeaking of the coordinator: lipSync.start, or stop.
SetSpeaking(s) ==
    /\ speaking' = s
    /\ aperture' = IF s THEN aperture ELSE 0
    /\ UNCHANGED <<opening, silence>>

\* onStateChange of the audio queue.
AudioChanges ==
    /\ audible' = ~audible
    /\ SetSpeaking(audible')
    /\ UNCHANGED <<felt, thinking, typing, changed, seen, primary, pensive, brow>>

-----------------------------------------------------------------------------
(* The canvas is rendered                                                   *)

\* What setEmotion sees and leaves: the preset asked for, and how far it is.
Blend(key, e) == [target |-> key, elapsed |-> e]

\* A setEmotion that ignores what is asked for while it blends.
SetEmotionSlip(name, b) ==
    IF b.elapsed # Duration \/ b.target = Preset(name) THEN b ELSE Blend(Preset(name), 0)

\* setEmotion, from what is shown at that time.
SetEmotion(name, b) ==
    IF b.target = Preset(name) /\ b.elapsed = Duration THEN b ELSE Blend(Preset(name), 0)

\* The effects run in their order: the emotion, which is a new object at each
\* rendering, then typing and thinking if they have changed.
Render ==
    LET a == SetEmotion(felt, Blend(target, elapsed))
        b == IF thinking = seen.thinking THEN a
             ELSE SetEmotion(IF thinking THEN "thinking" ELSE felt, a)
    IN /\ changed
       /\ changed' = FALSE
       /\ seen' = [thinking |-> thinking, typing |-> typing]
       /\ primary' = felt
       /\ pensive' = thinking
       /\ target' = b.target
       /\ elapsed' = b.elapsed
       /\ shown' = IF b.elapsed = 0 THEN Between ELSE shown
       /\ IF typing = seen.typing THEN UNCHANGED <<speaking, mouth>> ELSE SetSpeaking(typing)
       /\ UNCHANGED <<felt, thinking, typing, audible>>

-----------------------------------------------------------------------------
(* A frame of d units                                                       *)

\* ExpressionEngine.update.
BrowUpdate(d) ==
    IF AtRest
    THEN UNCHANGED brow
    ELSE /\ UNCHANGED target
         /\ elapsed' = IF elapsed + d >= Duration THEN Duration ELSE elapsed + d
         /\ shown' = IF elapsed' = Duration THEN target ELSE Between

\* What is left of a distance after 50 and 100 ms, in hundredths: exp(-12 t)
\* for a mouth that closes, exp(-28 t) for one that opens.
Closes(d) == IF d = 1 THEN 55 ELSE 30
Opens(d) == IF d = 1 THEN 25 ELSE 6

\* The volume or the syllable of this frame: none, or the widest.
Volume == {0, 100}

\* LipSyncEngine.update while nobody speaks.
Close(d) ==
    /\ opening' = (opening * Closes(d)) \div 100
    /\ UNCHANGED aperture

\* LipSyncEngine.update, from the analyser or procedurally.
Speak(d) ==
    /\ aperture' \in Volume
    /\ opening' = IF aperture' > opening
                  THEN aperture' - ((aperture' - opening) * Opens(d)) \div 100
                  ELSE (opening * Closes(d)) \div 100

\* tick, as far as the brows, the cheeks and the mouth go.
Frame(d) ==
    /\ BrowUpdate(d)
    /\ IF speaking
       THEN Speak(d) /\ silence' = 0
       ELSE Close(d) /\ silence' = IF silence + d > Rest THEN Rest ELSE silence + d
    /\ UNCHANGED <<store, seen, primary, pensive, speaking>>

Next ==
    \/ \E m \in Moods : EmotionUpdate(m)
    \/ StoreChanges
    \/ PanelChanges
    \/ AudioChanges
    \/ Render
    \/ \E d \in Frames : Frame(d)

Spec == Init /\ [][Next]_vars

-----------------------------------------------------------------------------
(* Once all is rendered and no expression is being blended, a character     *)
(* that does not think shows what it was last told to feel: the thinking    *)
(* face goes when the thinking does, and an emotion that comes while        *)
(* another is being blended is not lost.                                    *)
FaceIsFelt == (~changed /\ AtRest /\ ~pensive) => shown = Preset(felt)

(* After 400 ms in which nobody speaks, the mouth is closed.                *)
MouthCloses == silence = Rest => opening <= 1

(* A character that thinks shows it, once the expression is blended.        *)
ThinkingShows == (~changed /\ AtRest /\ pensive) => shown = "thinking"

(* What is heard moves the lips.                                            *)
HeardIsSpoken == (~changed /\ audible) => speaking
=============================================================================
