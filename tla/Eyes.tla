---------------------------------- MODULE Eyes ----------------------------------
(***************************************************************************)
(* Where the character looks, frame by frame: the pointer it follows       *)
(* (live2d/MouseTrackingController.js), its eyeballs                       *)
(* (EyeTrackingController.js), its head (HeadRotationController.js) with   *)
(* the drift of IdleMotionManager.js, its breath (BreathingController.js), *)
(* and its lids (BlinkController.js), as Live2DCoordinator.js moves them.  *)
(*                                                                         *)
(* Time is counted in units of 20 ms.  The lids keep their times.  Of the  *)
(* longer ones (the pointer that is forgotten, the glance away, the breath *)
(* of the idle) a frame may find any of them over.  Angles are where the   *)
(* smoothing goes to, in tenths of a degree, the gaze in hundredths.       *)
(***************************************************************************)
EXTENDS Integers

CONSTANTS
    Frames,  \* the lengths of a frame: Pixi makes none longer than 100 ms
    Moods,   \* the emotions the run gives the character
    Spots    \* where the pointer is put: pairs of hundredths

EyesAssumption ==
    /\ Frames \subseteq 1..5 /\ Frames # {}
    /\ Spots \subseteq (-100..100) \X (-100..100)

(***************************************************************************)
(* The lids, in units                                                      *)
(***************************************************************************)
Closing == 4    \* closeDuration, 80 ms
Held == 1       \* holdDuration, 20 ms
Opening == 7    \* openDuration, 140 ms
Total == Closing + Held + Opening
Second == 4     \* the pause before a second blink, 80 ms

\* _adaptToEmotion by the name of the emotion: the shortest and the longest time between two blinks, and
\* how far, in hundredths, the eyes are open between them.
Lids(mood) ==
    CASE mood = "happy"                    -> [from |-> 140, to |-> 275, open |-> 92]
      [] mood = "excited"                  -> [from |-> 90,  to |-> 190, open |-> 100]
      [] mood \in {"sad", "anxious"}       -> [from |-> 160, to |-> 350, open |-> 85]
      [] mood \in {"curious", "surprised"} -> [from |-> 200, to |-> 400, open |-> 100]
      [] mood = "thinking"                 -> [from |-> 150, to |-> 300, open |-> 90]
      [] OTHER                             -> [from |-> 125, to |-> 300, open |-> 100]

VARIABLES
    mood,     \* emotionState.primary
    pointer,  \* MouseTrackingController: where it is, and whether it is followed
    glance,   \* EyeTrackingController: glances away, and to which side
    nodding,  \* speechNodIntensity is above 0
    speaking, \* Live2DCoordinator.isSpeaking
    due,      \* nextBlinkDelay - timer
    blink,    \* the phase of the blink, its end, and whether a second follows
    lids,     \* ParamEyeLOpen and ParamEyeROpen: "open", "moving" or "shut"
    shutFor   \* (ghost) how long the lids have been shown shut

vars == <<mood, pointer, glance, nodding, speaking, due, blink, lids, shutFor>>

NoBlink == [on |-> FALSE, double |-> FALSE, elapsed |-> 0]

TypeOK ==
    /\ mood \in Moods
    /\ pointer \in [at : Spots \union {<<0, 0>>}, active : BOOLEAN]
    /\ glance \in {-1, 0, 1}
    /\ nodding \in BOOLEAN /\ speaking \in BOOLEAN
    /\ due \in 1..400
    /\ blink \in [on : BOOLEAN, double : BOOLEAN, elapsed : 0..Total]
    /\ lids \in {"open", "moving", "shut"}
    /\ shutFor \in Nat

Init ==
    /\ mood \in Moods
    /\ pointer = [at |-> <<0, 0>>, active |-> FALSE]
    /\ glance = 0
    /\ nodding = FALSE
    /\ speaking = FALSE
    /\ due \in {125, 300}
    /\ blink = NoBlink
    /\ lids = "open"
    /\ shutFor = 0

-----------------------------------------------------------------------------
(* What the user and the other modules do between two frames                *)

PointerMoves(s) ==
    /\ pointer' = [at |-> s, active |-> TRUE]
    /\ UNCHANGED <<mood, glance, nodding, speaking, due, blink, lids, shutFor>>

PointerLeaves ==
    /\ pointer.active
    /\ pointer' = [pointer EXCEPT !.active = FALSE]
    /\ UNCHANGED <<mood, glance, nodding, speaking, due, blink, lids, shutFor>>

\* triggerBlink.
Trigger(b, double) ==
    IF b.on THEN b ELSE [on |-> TRUE, double |-> double, elapsed |-> 0]

\* handleTapBody; the motion it plays is in Live2D.
Tap ==
    /\ blink' = Trigger(blink, TRUE)
    /\ UNCHANGED <<mood, pointer, glance, nodding, speaking, due, lids, shutFor>>

SetEmotionState(m) ==
    /\ mood' = m
    /\ UNCHANGED <<pointer, glance, nodding, speaking, due, blink, lids, shutFor>>

SetSpeaking(s) ==
    /\ speaking' = s
    /\ UNCHANGED <<mood, pointer, glance, nodding, due, blink, lids, shutFor>>

-----------------------------------------------------------------------------
(* A frame of d units                                                       *)

\* MouseTrackingController.update: 3.5 s without a move make it inactive.
MouseUpdate ==
    \/ UNCHANGED pointer
    \/ pointer.active /\ pointer' = [pointer EXCEPT !.active = FALSE]

\* EyeTrackingController.update: it glances away now and then, for a while.
GlanceUpdate ==
    \/ UNCHANGED glance
    \/ glance = 0 /\ glance' \in {-1, 1}
    \/ glance # 0 /\ glance' = 0

\* HeadRotationController.update: the nods of speech, which fade after it.
NodUpdate ==
    IF speaking THEN nodding' = TRUE ELSE nodding' \in {nodding, FALSE}

\* BlinkController.update while no blink is under way.
WaitUpdate(d) ==
    /\ ~blink.on
    /\ IF due - d > 0
       THEN /\ due' = due - d
            /\ UNCHANGED blink
       ELSE /\ due' \in {Lids(mood).from, Lids(mood).to}
            /\ \E double \in BOOLEAN : blink' = Trigger(blink, double)
    /\ lids' = "open"

\* BlinkController.update in a blink.
BlinkUpdate(d) ==
    LET e == blink.elapsed + d IN
    /\ blink.on
    /\ IF e < Total
       THEN /\ blink' = [blink EXCEPT !.elapsed = e]
            /\ lids' = IF e >= Closing /\ e <= Closing + Held THEN "shut" ELSE "moving"
            /\ UNCHANGED due
       ELSE /\ blink' = NoBlink
            /\ lids' = "open"
            /\ due' = IF blink.double THEN Second ELSE due

\* tick.
Frame(d) ==
    /\ MouseUpdate
    /\ GlanceUpdate
    /\ NodUpdate
    /\ WaitUpdate(d) \/ BlinkUpdate(d)
    /\ shutFor' = IF lids' = "shut" THEN shutFor + d ELSE 0
    /\ UNCHANGED <<mood, speaking>>

Next ==
    \/ \E s \in Spots : PointerMoves(s)
    \/ PointerLeaves
    \/ Tap
    \/ \E m \in Moods : SetEmotionState(m)
    \/ \E s \in BOOLEAN : SetSpeaking(s)
    \/ \E d \in Frames : Frame(d)

Spec == Init /\ [][Next]_vars

-----------------------------------------------------------------------------
(* Where the eyes and the head go                                           *)

Clamp(low, high, x) == IF x < low THEN low ELSE IF x > high THEN high ELSE x

\* The smoothed pointer goes to the pointer, or to the middle.
Target == IF pointer.active THEN pointer.at ELSE <<0, 0>>

\* The bias of the gaze; the restless one of "anxious" is left at 0.
GazeBias ==
    CASE mood = "thinking"       -> <<35, 45>>
      [] mood \in {"sad", "shy"} -> <<0, -35>>
      [] mood = "curious"        -> <<0, 5>>
      [] OTHER                   -> <<0, 0>>

\* The weight of a glance at its height, a fifth of it for the curious.
GlanceX == glance * (IF mood = "curious" THEN 12 ELSE 60)

EyeBallX == Clamp(-100, 100, Target[1] + GazeBias[1] + GlanceX)
EyeBallY == Clamp(-100, 100, Target[2] + GazeBias[2] - 30 * glance * glance)

\* The posture of a mood, in tenths of a degree; the sways are left at 0.
Posture ==
    CASE mood = "curious"  -> <<0, 30, 120>>
      [] mood = "happy"    -> <<0, 40, 0>>
      [] mood = "excited"  -> <<0, 60, 0>>
      [] mood = "thinking" -> <<80, 100, -80>>
      [] mood = "sad"      -> <<0, -120, 0>>
      [] mood = "anxious"  -> <<0, -40, 0>>
      [] mood = "angry"    -> <<0, -60, 0>>
      [] OTHER             -> <<0, 0, 0>>

\* The nod at its lowest and its highest.
Nods == IF nodding THEN {-20, 0, 35} ELSE {0}

HeadX == Clamp(-300, 300, (5 * Target[1]) \div 2 + Posture[1])
HeadY(nod) == Clamp(-300, 300, (11 * Target[2]) \div 5 + Posture[2] + nod)
HeadZ == Clamp(-300, 300, Posture[3] - Target[1])

\* IdleMotionManager.update: the drift of the head, at its extremes.
DriftX == {-24, 0, 24}
DriftY == {-19, 0, 19}

\* tick, lines 181-183: what is written of the head.
WrittenX == {HeadX + drift : drift \in DriftX}
WrittenY == {HeadY(nod) + drift : nod \in Nods, drift \in DriftY}

-----------------------------------------------------------------------------
(* However often the user taps the character, and whatever it feels, its    *)
(* eyes are not shown shut for longer than they are held shut and a frame.  *)
EyesReopen == \E d \in Frames : shutFor <= Held + d

(* Live2DCoordinator writes an angle of the head that is in the range the   *)
(* parameter has (HeadRotationController.js:9).                             *)
AnglesInRange == WrittenX \union WrittenY \subseteq -300..300
=============================================================================
