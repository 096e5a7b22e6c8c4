----------------------------- MODULE ClientProofs ----------------------------
(***************************************************************************)
(* What is proved of the client: of its components one by one, and then of *)
(* the specification in which all of them run.  Every component keeps its  *)
(* own variables, so that what is proved of one holds whatever the others  *)
(* do.  Connection, Images, WakeChat and Terminal are in                   *)
(* ClientSocketProofs.                                                     *)
(***************************************************************************)
EXTENDS MCClient, FiniteSetTheorems, SequenceTheorems, TLAPS

(***************************************************************************)
(* Live2D.tla                                                              *)
(***************************************************************************)
LEMMA InitLiveInv == Init => LiveInv
<1> SUFFICES ASSUME Init PROVE LiveInv
  OBVIOUS
<1>1. Placed
  BY Live2DAssumption DEF Init, Placed, None
<1>2. Flags /\ loads \subseteq Sessions
  BY DEF Init, Flags
<1>3. begun \in Seq({IDLE, FORCE})
  BY DEF Init
<1>4. MotionTypes
  BY <1>3 DEF Init, MotionTypes
<1>5. ShownIsCurrent /\ Awaited
  BY DEF Init, ShownIsCurrent, Awaited, None
<1> QED
  BY <1>1, <1>2, <1>4, <1>5 DEF LiveInv, TypeOK

LEMMA MountStep == ASSUME LiveInv, Mount PROVE LiveInv'
<1>1. last \in Nat /\ last + 1 \in Sessions /\ last' = last + 1
  BY Live2DAssumption DEF LiveInv, TypeOK, Placed, Mount, Sessions
<1>2. last + 1 \notin loads /\ last + 1 > 0
  BY <1>1 DEF LiveInv, Awaited
<1>3. Placed'
  BY <1>1, Live2DAssumption DEF LiveInv, TypeOK, Placed, Mount, Sessions, None
<1>4. Flags'
  BY DEF Mount, Flags
<1>5. loads' \subseteq loads \union {last + 1}
  BY DEF Mount
<1>6. loads' \subseteq Sessions
  BY <1>1, <1>5 DEF LiveInv, TypeOK
<1>7. MotionTypes'
  BY DEF LiveInv, TypeOK, MotionTypes, Mount, motion
<1>8. Awaited'
  <2>1. loads' \subseteq 1..last'
    BY <1>1, <1>5 DEF LiveInv, Awaited
  <2>2. session' \in loads' => app' = session'
    BY <1>2 DEF Mount
  <2> QED
    BY <1>1, <2>1, <2>2 DEF Awaited, Mount
<1>9. ShownIsCurrent'
  BY <1>1, <1>2 DEF ShownIsCurrent, Mount, None
<1> QED
  BY <1>3, <1>4, <1>6, <1>7, <1>8, <1>9 DEF LiveInv, TypeOK

LEMMA UnmountStep == ASSUME LiveInv, Unmount PROVE LiveInv'
<1>1. 0 \notin loads
  BY DEF LiveInv, Awaited
<1>2. Placed'
  BY Live2DAssumption DEF LiveInv, TypeOK, Placed, Unmount, None
<1>3. Flags' /\ loads' \subseteq Sessions
  BY DEF LiveInv, TypeOK, Flags, Unmount
<1>4. MotionTypes'
  BY DEF LiveInv, TypeOK, MotionTypes, Unmount, motion
<1>5. Awaited'
  BY <1>1 DEF LiveInv, Awaited, TypeOK, Placed, Unmount, None
<1>6. ShownIsCurrent'
  BY <1>1 DEF ShownIsCurrent, Unmount, None
<1> QED
  BY <1>2, <1>3, <1>4, <1>5, <1>6 DEF LiveInv, TypeOK

LEMMA LoadedStep ==
    ASSUME LiveInv, NEW s \in Sessions, Loaded(s) PROVE LiveInv'
<1>1. s \in 0..MaxSessions /\ s # None
  BY Live2DAssumption DEF Sessions, None
<1>2. Placed'
  BY <1>1 DEF LiveInv, TypeOK, Placed, Loaded
<1>3. Flags' /\ loads' \subseteq Sessions
  BY DEF LiveInv, TypeOK, Flags, Loaded
<1>4. MotionTypes'
  BY DEF LiveInv, TypeOK, MotionTypes, Loaded, motion
<1>5. Awaited'
  BY DEF LiveInv, Awaited, Loaded
<1>6. ShownIsCurrent'
  BY <1>1 DEF LiveInv, Awaited, ShownIsCurrent, Loaded
<1> QED
  BY <1>2, <1>3, <1>4, <1>5, <1>6 DEF LiveInv, TypeOK

LEMMA LoadFailsStep ==
    ASSUME LiveInv, NEW s \in Sessions, LoadFails(s) PROVE LiveInv'
<1>1. Placed'
  BY DEF LiveInv, TypeOK, Placed, LoadFails
<1>2. Flags' /\ loads' \subseteq Sessions
  BY DEF LiveInv, TypeOK, Flags, LoadFails
<1>3. MotionTypes'
  BY DEF LiveInv, TypeOK, MotionTypes, LoadFails, motion
<1>4. Awaited'
  BY DEF LiveInv, Awaited, LoadFails
<1>5. loading' <=> session' \in loads'
  BY DEF LiveInv, ShownIsCurrent, LoadFails
<1>6. ShownIsCurrent'
  BY <1>5 DEF LiveInv, ShownIsCurrent, LoadFails
<1> QED
  BY <1>1, <1>2, <1>3, <1>4, <1>6 DEF LiveInv, TypeOK

\* The motions leave the canvas and its model alone.
LEMMA MotionStep ==
    ASSUME LiveInv, Tap \/ Idle \/ \E m \in DOMAIN begun : Answer(m)
    PROVE  LiveInv'
<1>1. UNCHANGED manager
  BY DEF Tap, Idle, PlayMotion, Answer
<1>2. Placed' /\ Flags' /\ loads' \subseteq Sessions
  BY <1>1 DEF LiveInv, TypeOK, Placed, Flags, manager
<1>3. Awaited' /\ ShownIsCurrent'
  BY <1>1 DEF LiveInv, Awaited, ShownIsCurrent, manager
<1>4. ASSUME NEW p \in {IDLE, FORCE}, PlayMotion(p) PROVE MotionTypes'
  <2>1. /\ begun' \in Seq({IDLE, FORCE})
        /\ DOMAIN begun' = DOMAIN begun \union {Len(begun')}
    BY <1>4 DEF LiveInv, TypeOK, MotionTypes, PlayMotion
  <2> QED
    BY <1>4, <2>1 DEF LiveInv, TypeOK, MotionTypes, PlayMotion
<1>5. ASSUME NEW m \in DOMAIN begun, Answer(m) PROVE MotionTypes'
  BY <1>5 DEF LiveInv, TypeOK, MotionTypes, Answer
<1>6. MotionTypes'
  BY <1>4, <1>5 DEF Tap, Idle
<1> QED
  BY <1>2, <1>3, <1>6 DEF LiveInv, TypeOK

LEMMA SameStep == ASSUME LiveInv, UNCHANGED vars PROVE LiveInv'
<1>1. Placed' /\ Flags' /\ loads' \subseteq Sessions
  BY DEF LiveInv, TypeOK, Placed, Flags, vars, manager
<1>2. MotionTypes' /\ Awaited' /\ ShownIsCurrent'
  BY DEF LiveInv, TypeOK, MotionTypes, Awaited, ShownIsCurrent, vars, manager, motion
<1> QED
  BY <1>1, <1>2 DEF LiveInv, TypeOK

\* LiveInv is an invariant: it holds at the start and every step keeps it.
THEOREM LiveInvariance == Spec => []LiveInv
<1>1. ASSUME LiveInv, [Next]_vars PROVE LiveInv'
  BY <1>1, MountStep, UnmountStep, LoadedStep, LoadFailsStep, MotionStep, SameStep DEF Next
<1> QED
  BY InitLiveInv, <1>1, PTL DEF Spec

\* Every variable of the character holds values of its kind.
THEOREM LiveTypes == Spec => []TypeOK
<1>1. LiveInv => TypeOK
  BY DEF LiveInv
<1> QED
  BY LiveInvariance, <1>1, PTL

\* What is shown belongs to the canvas that is mounted, however initialize,
\* destroy and the ends of the loads follow each other.
THEOREM Shows == Spec => []ShownIsCurrent
<1>1. LiveInv => ShownIsCurrent
  BY DEF LiveInv
<1> QED
  BY LiveInvariance, <1>1, PTL

(***************************************************************************)
(* Expression.tla                                                          *)
(***************************************************************************)

(* How far the mouth may still be open after a silence.                     *)
FaceOpenAfter(s) ==
    CASE s = 0 -> 100 [] s = 1 -> 55 [] s = 2 -> 30 [] s = 3 -> 16 [] s = 4 -> 9
      [] s = 5 -> 4 [] s = 6 -> 2 [] s = 7 -> 1 [] OTHER -> 1

(* The mouth closes in time, and stays closed.                              *)
FaceMouth == /\ aperture \in 0..100 /\ opening \in 0..100 /\ silence \in 0..Face!Rest
             /\ opening <= FaceOpenAfter(silence)

(* What is rendered is what the store says; what has been blended is the    *)
(* target, which is what is felt unless the character thinks.               *)
FaceBlended ==
    /\ elapsed = Face!Duration => wears = target
    /\ ~changed => /\ pensive = thinking /\ seen.thinking = thinking
                   /\ ~thinking => target = Face!Preset(felt)

FaceNames == /\ felt \in FaceMoods \union {"neutral"} /\ primary \in FaceMoods \union {"neutral"}
             /\ target \in Face!Presets
             /\ elapsed \in 0..Face!Duration
             /\ wears \in Face!Presets \union {Face!Between}

FaceSwitches == /\ thinking \in BOOLEAN /\ typing \in BOOLEAN /\ audible \in BOOLEAN
                /\ changed \in BOOLEAN /\ pensive \in BOOLEAN /\ talks \in BOOLEAN
                /\ seen \in [thinking : BOOLEAN, typing : BOOLEAN]

FaceInv == FaceNames /\ FaceSwitches /\ FaceMouth /\ FaceBlended

LEMMA FacePresetOf == ASSUME NEW name PROVE Face!Preset(name) \in Face!Presets
  BY DEF Face!Preset, Face!Presets

LEMMA FaceStarts == ASSUME Face!ExpressionAssumption, Face!Init PROVE FaceInv
  <1>1. FaceNames BY DEF Face!Init, FaceNames, Face!Presets, Face!Duration
  <1>2. FaceSwitches BY DEF Face!Init, FaceSwitches
  <1>3. FaceMouth BY DEF Face!Init, FaceMouth, Face!Rest, FaceOpenAfter
  <1>4. FaceBlended BY DEF Face!Init, FaceBlended, Face!Preset, Face!Presets
  <1> QED BY <1>1, <1>2, <1>3, <1>4 DEF FaceInv

LEMMA FaceSpeakingSet ==
    ASSUME FaceMouth, NEW s \in BOOLEAN, Face!SetSpeaking(s)
        PROVE talks' \in BOOLEAN /\ FaceMouth'
  BY DEF Face!SetSpeaking, FaceMouth

(* A frame closes the mouth by what is left of the distance.                *)
LEMMA FaceMouthFrame ==
    ASSUME Face!ExpressionAssumption, FaceMouth, NEW d \in FaceFrames,
           IF talks
           THEN Face!Speak(d) /\ silence' = 0
           ELSE Face!Close(d) /\ silence' = IF silence + d > Face!Rest THEN Face!Rest ELSE silence + d
    PROVE  FaceMouth'
  <1>1. d \in {1, 2} BY DEF Face!ExpressionAssumption
  <1>2. CASE talks
    <2>1. aperture' \in {0, 100} /\ silence' = 0 BY <1>2 DEF Face!Speak, Face!Volume
    <2>2. /\ opening' = IF aperture' > opening
                        THEN aperture' - ((aperture' - opening) * (IF d = 1 THEN 25 ELSE 6)) \div 100
                        ELSE (opening * (IF d = 1 THEN 55 ELSE 30)) \div 100
      BY <1>2 DEF Face!Speak, Face!Opens, Face!Closes
    <2>3. opening \in 0..100 BY DEF FaceMouth
    <2>8. opening' \in 0..100
      <3>1. CASE aperture' > opening /\ d = 1
        <4>1. opening' = 100 - ((100 - opening) * 25) \div 100 BY <2>1, <2>2, <2>3, <3>1
        <4> QED BY <2>3, <4>1
      <3>2. CASE aperture' > opening /\ d = 2
        <4>1. opening' = 100 - ((100 - opening) * 6) \div 100 BY <2>1, <2>2, <2>3, <3>2
        <4> QED BY <2>3, <4>1
      <3>3. CASE ~(aperture' > opening) /\ d = 1
        <4>1. opening' = (opening * 55) \div 100 BY <2>2, <3>3
        <4> QED BY <2>3, <4>1
      <3>4. CASE ~(aperture' > opening) /\ d = 2
        <4>1. opening' = (opening * 30) \div 100 BY <2>2, <3>4
        <4> QED BY <2>3, <4>1
      <3> QED BY <1>1, <3>1, <3>2, <3>3, <3>4
    <2> QED BY <2>1, <2>8 DEF FaceMouth, Face!Rest, FaceOpenAfter
  <1>3. CASE ~talks
    <2>1. /\ opening' = (opening * (IF d = 1 THEN 55 ELSE 30)) \div 100 /\ aperture' = aperture
          /\ silence' = IF silence + d > 8 THEN 8 ELSE silence + d
      BY <1>3 DEF Face!Close, Face!Closes, Face!Rest
    <2>2. silence \in 0..8 /\ opening \in 0..100 /\ opening <= FaceOpenAfter(silence)
      BY DEF FaceMouth, Face!Rest
    <2>3. silence' \in 0..8 /\ opening' \in 0..100 BY <1>1, <2>1, <2>2
    <2>4. CASE d = 1
      <3>1. opening' = (opening * 55) \div 100 BY <2>1, <2>4
      <3> QED BY <2>1, <2>2, <2>3, <2>4, <3>1 DEF FaceOpenAfter, FaceMouth, Face!Rest
    <2>5. CASE d = 2
      <3>1. opening' = (opening * 30) \div 100 BY <2>1, <2>5
      <3> QED BY <2>1, <2>2, <2>3, <2>5, <3>1 DEF FaceOpenAfter, FaceMouth, Face!Rest
    <2> QED BY <1>1, <2>4, <2>5
  <1> QED BY <1>2, <1>3

LEMMA FaceStep ==
    ASSUME Face!ExpressionAssumption, FaceInv, [Face!Next]_(Face!vars)
    PROVE  FaceInv'
  <1>i. FaceNames /\ FaceSwitches /\ FaceMouth /\ FaceBlended BY DEF FaceInv
  <1>1. ASSUME NEW m \in FaceMoods, Face!EmotionUpdate(m) PROVE FaceInv'
    <2>1. felt' = m /\ changed' = TRUE
          /\ UNCHANGED <<thinking, typing, audible, seen, primary, pensive, talks, target,
                         elapsed, wears, aperture, opening, silence>>
      BY <1>1 DEF Face!EmotionUpdate, Face!brow, Face!mouth
    <2> QED BY <1>i, <2>1 DEF FaceInv, FaceNames, FaceSwitches, FaceMouth, FaceBlended
  <1>2. CASE Face!StoreChanges
    <2>1. changed' = TRUE /\ thinking' \in BOOLEAN /\ typing' \in BOOLEAN
          /\ UNCHANGED <<felt, audible, seen, primary, pensive, talks, target,
                         elapsed, wears, aperture, opening, silence>>
      BY <1>2, <1>i DEF Face!StoreChanges, Face!brow, Face!mouth, FaceSwitches
    <2> QED BY <1>i, <2>1 DEF FaceInv, FaceNames, FaceSwitches, FaceMouth, FaceBlended
  <1>3. CASE Face!PanelChanges
    <2>1. changed' = TRUE
          /\ UNCHANGED <<felt, thinking, typing, audible, seen, primary, pensive, talks, target,
                         elapsed, wears, aperture, opening, silence>>
      BY <1>3 DEF Face!PanelChanges, Face!brow, Face!mouth
    <2> QED BY <1>i, <2>1 DEF FaceInv, FaceNames, FaceSwitches, FaceMouth, FaceBlended
  <1>4. CASE Face!AudioChanges
    <2>1. audible' = ~audible /\ Face!SetSpeaking(audible')
          /\ UNCHANGED <<felt, thinking, typing, changed, seen, primary, pensive, target,
                         elapsed, wears>>
      BY <1>4 DEF Face!AudioChanges, Face!brow
    <2>2. audible' \in BOOLEAN BY <2>1
    <2>3. talks' \in BOOLEAN /\ FaceMouth' BY <1>i, <2>1, <2>2, FaceSpeakingSet
    <2>4. FaceNames' /\ FaceBlended' BY <1>i, <2>1 DEF FaceNames, FaceBlended
    <2>5. FaceSwitches' BY <1>i, <2>1, <2>2, <2>3 DEF FaceSwitches
    <2> QED BY <2>3, <2>4, <2>5 DEF FaceInv
  <1>5. CASE Face!Render
    <2> DEFINE a == Face!SetEmotion(felt, Face!Blend(target, elapsed))
               b == IF thinking = seen.thinking THEN a
                    ELSE Face!SetEmotion(IF thinking THEN "thinking" ELSE felt, a)
    <2>1. /\ changed' = FALSE /\ seen' = [thinking |-> thinking, typing |-> typing]
          /\ primary' = felt
          /\ pensive' = thinking
          /\ target' = b.target
          /\ elapsed' = b.elapsed
          /\ wears' = (IF b.elapsed = 0 THEN Face!Between ELSE wears)
          /\ (IF typing = seen.typing THEN UNCHANGED <<talks, Face!mouth>> ELSE Face!SetSpeaking(typing))
          /\ UNCHANGED <<felt, thinking, typing, audible>>
      BY <1>5 DEF Face!Render
    <2>2. /\ a.target = Face!Preset(felt)
          /\ a.elapsed = 0 \/ (a.elapsed = Face!Duration /\ elapsed = Face!Duration /\ target = a.target)
      BY DEF Face!SetEmotion, Face!Blend
    <2>3. /\ ~thinking => b.target = Face!Preset(felt)
          /\ b.target \in Face!Presets
          /\ b.elapsed = 0 \/ (b.elapsed = Face!Duration /\ elapsed = Face!Duration /\ target = b.target)
      <3>1. CASE thinking = seen.thinking BY <2>2, <3>1, FacePresetOf
      <3>2. CASE thinking # seen.thinking
        <4> DEFINE n == IF thinking THEN "thinking" ELSE felt
        <4>1. b = Face!SetEmotion(n, a) BY <3>2
        <4>2. /\ b.target = Face!Preset(n)
              /\ b.elapsed = 0
                   \/ (b.elapsed = Face!Duration /\ a.elapsed = Face!Duration /\ a.target = b.target)
          <5> HIDE DEF a, n
          <5>1. b = IF a.target = Face!Preset(n) /\ a.elapsed = Face!Duration THEN a
                    ELSE [target |-> Face!Preset(n), elapsed |-> 0]
            BY <4>1 DEF Face!SetEmotion, Face!Blend
          <5> HIDE DEF b
          <5> QED BY <5>1
        <4>3. Face!Duration # 0 BY DEF Face!Duration
        <4>4. ~thinking => n = felt OBVIOUS
        <4>5. Face!Preset(n) \in Face!Presets BY FacePresetOf
        <4> HIDE DEF a, b, n
        <4> QED BY <2>2, <4>2, <4>3, <4>4, <4>5
      <3> QED BY <3>1, <3>2
    <2> HIDE DEF a, b
    <2>4. talks' \in BOOLEAN /\ FaceMouth'
      <3>1. CASE typing = seen.typing
        <4>1. UNCHANGED <<talks, aperture, opening, silence>> BY <2>1, <3>1 DEF Face!mouth
        <4> QED BY <1>i, <4>1 DEF FaceMouth, FaceSwitches
      <3>2. CASE typing # seen.typing
        <4>1. typing \in BOOLEAN BY <1>i DEF FaceSwitches
        <4> QED BY <1>i, <2>1, <3>2, <4>1, FaceSpeakingSet
      <3> QED BY <3>1, <3>2
    <2>5. FaceSwitches' BY <1>i, <2>1, <2>4 DEF FaceSwitches
    <2>6. FaceNames'
      <3>1. elapsed' \in 0..Face!Duration BY <2>1, <2>3 DEF Face!Duration
      <3>2. target' \in Face!Presets BY <2>1, <2>3
      <3>3. wears' \in Face!Presets \union {Face!Between} BY <1>i, <2>1 DEF FaceNames
      <3> QED BY <1>i, <2>1, <3>1, <3>2, <3>3 DEF FaceNames
    <2>7. FaceBlended'
      <3>1. elapsed' = Face!Duration => wears' = target'
        BY <1>i, <2>1, <2>3 DEF FaceBlended, Face!Duration
      <3>2. ~thinking' => target' = Face!Preset(felt') BY <2>1, <2>3
      <3>3. pensive' = thinking' /\ seen'.thinking = thinking' BY <2>1
      <3> QED BY <3>1, <3>2, <3>3 DEF FaceBlended
    <2> QED BY <2>4, <2>5, <2>6, <2>7 DEF FaceInv
  <1>6. ASSUME NEW d \in FaceFrames, Face!Frame(d) PROVE FaceInv'
    <2>1. /\ Face!BrowUpdate(d)
          /\ UNCHANGED <<felt, thinking, typing, audible, changed, seen, primary, pensive, talks>>
      BY <1>6 DEF Face!Frame, Face!store
    <2>2. FaceMouth' BY <1>6, <1>i, FaceMouthFrame DEF Face!Frame
    <2>3. FaceSwitches' BY <1>i, <2>1 DEF FaceSwitches
    <2>4. FaceNames' /\ FaceBlended'
      <3>1. CASE elapsed = Face!Duration
        <4>1. UNCHANGED <<target, elapsed, wears>>
          BY <2>1, <3>1 DEF Face!BrowUpdate, Face!AtRest, Face!brow
        <4> QED BY <1>i, <2>1, <4>1 DEF FaceNames, FaceBlended
      <3>2. CASE elapsed # Face!Duration
        <4>1. /\ target' = target
              /\ elapsed' = IF elapsed + d >= Face!Duration THEN Face!Duration ELSE elapsed + d
              /\ wears' = IF elapsed' = Face!Duration THEN target ELSE Face!Between
          BY <2>1, <3>2 DEF Face!BrowUpdate, Face!AtRest
        <4>2. d \in {1, 2} BY DEF Face!ExpressionAssumption
        <4>3. elapsed' \in 0..Face!Duration BY <1>i, <4>1, <4>2 DEF FaceNames, Face!Duration
        <4> QED BY <1>i, <2>1, <4>1, <4>3 DEF FaceNames, FaceBlended
      <3> QED BY <3>1, <3>2
    <2> QED BY <2>2, <2>3, <2>4 DEF FaceInv
  <1>7. CASE UNCHANGED Face!vars
    <2>1. UNCHANGED <<felt, thinking, typing, audible, changed, seen, primary, pensive, talks,
                      target, elapsed, wears, aperture, opening, silence>>
      BY <1>7 DEF Face!vars, Face!store, Face!brow, Face!mouth
    <2> QED BY <1>i, <2>1 DEF FaceInv, FaceNames, FaceSwitches, FaceMouth, FaceBlended
  <1> QED BY <1>1, <1>2, <1>3, <1>4, <1>5, <1>6, <1>7 DEF Face!Next

LEMMA FaceInvariance == ASSUME Face!ExpressionAssumption PROVE Face!Spec => []FaceInv
  <1> QED BY FaceStarts, FaceStep, PTL DEF Face!Spec

(* The face wears what is felt, and the mouth closes.                       *)
LEMMA FaceShows == ASSUME FaceInv PROVE Face!TypeOK /\ Face!FaceIsFelt /\ Face!MouthCloses
  <1>1. Face!TypeOK
    <2>1. {thinking, typing, audible, changed, pensive, talks} \subseteq BOOLEAN
      BY DEF FaceInv, FaceSwitches
    <2> QED BY <2>1 DEF FaceInv, FaceNames, FaceSwitches, FaceMouth, Face!TypeOK
  <1>2. Face!FaceIsFelt BY DEF FaceInv, FaceBlended, Face!FaceIsFelt, Face!AtRest
  <1>3. Face!MouthCloses BY DEF FaceInv, FaceMouth, Face!MouthCloses, FaceOpenAfter, Face!Rest
  <1> QED BY <1>1, <1>2, <1>3

(***************************************************************************)
(* Eyes.tla                                                                *)
(***************************************************************************)

(* The lids are shut only while they are held: the blink was not yet over    *)
(* Closing before the frame that began it.                                   *)
EyesShutInABlink ==
    IF lids = "shut"
    THEN blink.on /\ blink.elapsed \in Eyes!Closing..(Eyes!Closing + Eyes!Held)
         /\ \E d \in EyeFrames : shutFor <= (blink.elapsed - Eyes!Closing) + d
    ELSE shutFor = 0

(* What the gaze is about, and the time to the next blink.                   *)
EyesGaze == /\ mood \in EyeMoods /\ pointer \in [at : {<<100, -50>>} \union {<<0, 0>>}, active : BOOLEAN]
            /\ glance \in {-1, 0, 1}

EyesTimes == due \in 1..400 /\ shutFor \in Nat

EyesInv ==
    /\ EyesGaze /\ EyesTimes
    /\ nodding \in BOOLEAN /\ speaking \in BOOLEAN
    /\ blink \in [on : BOOLEAN, double : BOOLEAN, elapsed : 0..Eyes!Total]
    /\ lids \in {"open", "moving", "shut"}
    /\ EyesShutInABlink

LEMMA EyesStart == ASSUME Eyes!EyesAssumption, Eyes!Init PROVE EyesInv
  <1>1. EyesGaze BY DEF Eyes!Init, EyesGaze
  <1>2. EyesTimes BY DEF Eyes!Init, EyesTimes
  <1>3. blink \in [on : BOOLEAN, double : BOOLEAN, elapsed : 0..Eyes!Total]
    BY DEF Eyes!Init, Eyes!NoBlink, Eyes!Total, Eyes!Closing, Eyes!Held, Eyes!Opening
  <1> QED BY <1>1, <1>2, <1>3 DEF Eyes!Init, EyesInv, EyesShutInABlink

LEMMA EyesLidTimes ==
    ASSUME NEW m
    PROVE  Eyes!Lids(m).from \in 1..400 /\ Eyes!Lids(m).to \in 1..400
  BY DEF Eyes!Lids

LEMMA EyesFrameStep ==
    ASSUME Eyes!EyesAssumption, EyesInv, NEW d \in EyeFrames, Eyes!Frame(d)
    PROVE  EyesInv'
  <1>0. d \in 1..5 /\ d \in Nat BY DEF Eyes!EyesAssumption
  <1>1. mood' = mood /\ speaking' = speaking BY DEF Eyes!Frame
  <1>2. pointer' \in [at : {<<100, -50>>} \union {<<0, 0>>}, active : BOOLEAN]
    BY DEF EyesInv, EyesGaze, Eyes!Frame, Eyes!MouseUpdate
  <1>3. glance' \in {-1, 0, 1} BY DEF EyesInv, EyesGaze, Eyes!Frame, Eyes!GlanceUpdate
  <1>4. nodding' \in BOOLEAN BY DEF EyesInv, Eyes!Frame, Eyes!NodUpdate
  <1>5. EyesGaze' BY <1>1, <1>2, <1>3 DEF EyesInv, EyesGaze
  <1>6. shutFor' = IF lids' = "shut" THEN shutFor + d ELSE 0 BY DEF Eyes!Frame
  <1>7. CASE Eyes!WaitUpdate(d)
    <2>1. lids' = "open" /\ ~blink.on BY <1>7 DEF Eyes!WaitUpdate
    <2>2. /\ due' \in 1..400
          /\ blink' \in [on : BOOLEAN, double : BOOLEAN, elapsed : 0..Eyes!Total]
      <3>1. CASE due - d > 0
        <4>1. due' = due - d /\ blink' = blink BY <1>7, <3>1 DEF Eyes!WaitUpdate
        <4>2. due' \in 1..400 BY <1>0, <3>1, <4>1 DEF EyesInv, EyesTimes
        <4> QED BY <4>1, <4>2 DEF EyesInv
      <3>2. CASE ~(due - d > 0)
        <4>1. due' \in {Eyes!Lids(mood).from, Eyes!Lids(mood).to}
          BY <1>7, <3>2 DEF Eyes!WaitUpdate
        <4>2. PICK double \in BOOLEAN : blink' = Eyes!Trigger(blink, double)
          BY <1>7, <3>2 DEF Eyes!WaitUpdate
        <4>3. blink' = [on |-> TRUE, double |-> double, elapsed |-> 0]
          BY <2>1, <4>2 DEF Eyes!Trigger
        <4>4. 0 \in 0..Eyes!Total BY DEF Eyes!Total, Eyes!Closing, Eyes!Held, Eyes!Opening
        <4>5. blink' \in [on : BOOLEAN, double : BOOLEAN, elapsed : 0..Eyes!Total] BY <4>3, <4>4
        <4> QED BY <4>1, <4>5, EyesLidTimes
      <3> QED BY <3>1, <3>2
    <2>3. shutFor' = 0 BY <1>6, <2>1
    <2> QED BY <1>1, <1>4, <1>5, <2>1, <2>2, <2>3 DEF EyesInv, EyesTimes, EyesShutInABlink
  <1>8. CASE Eyes!BlinkUpdate(d)
    <2> DEFINE e == blink.elapsed + d
    <2>0. blink \in [on : BOOLEAN, double : BOOLEAN, elapsed : 0..Eyes!Total] /\ blink.on
      BY <1>8 DEF EyesInv, Eyes!BlinkUpdate
    <2>1. blink.elapsed \in 0..Eyes!Total /\ e \in Nat
      BY <1>0, <2>0 DEF Eyes!Total, Eyes!Closing, Eyes!Held, Eyes!Opening
    <2>2. CASE e < Eyes!Total
      <3>1. /\ blink' = [blink EXCEPT !.elapsed = e] /\ due' = due
            /\ lids' = IF e >= Eyes!Closing /\ e <= Eyes!Closing + Eyes!Held THEN "shut" ELSE "moving"
        BY <1>8, <2>2 DEF Eyes!BlinkUpdate
      <3>2. e \in 0..Eyes!Total
        BY <2>1, <2>2 DEF Eyes!Total, Eyes!Closing, Eyes!Held, Eyes!Opening
      <3> HIDE DEF e
      <3>3. /\ blink' \in [on : BOOLEAN, double : BOOLEAN, elapsed : 0..Eyes!Total]
            /\ blink'.on /\ blink'.elapsed = e
        BY <2>0, <3>1, <3>2
      <3>4. EyesTimes' BY <1>0, <1>6, <3>1 DEF EyesInv, EyesTimes
      <3>5. lids' \in {"open", "moving", "shut"} BY <3>1
      <3>6. EyesShutInABlink'
        <4>1. CASE lids' # "shut" BY <1>6, <4>1 DEF EyesShutInABlink
        <4>2. CASE lids' = "shut"
          <5>1. e \in Eyes!Closing..(Eyes!Closing + Eyes!Held)
            BY <2>1, <3>1, <4>2 DEF Eyes!Closing, Eyes!Held
          <5>2. shutFor' = shutFor + d BY <1>6, <4>2
          <5>3. CASE lids # "shut"
            <6>1. shutFor' = d BY <1>0, <5>2, <5>3 DEF EyesInv, EyesShutInABlink
            <6>2. shutFor' <= (e - Eyes!Closing) + d
              BY <1>0, <5>1, <6>1 DEF Eyes!Closing, Eyes!Held
            <6> QED BY <3>3, <4>2, <5>1, <6>2 DEF EyesShutInABlink
          <5>4. CASE lids = "shut"
            <6>1. PICK g \in EyeFrames : shutFor <= (blink.elapsed - Eyes!Closing) + g
              BY <5>4 DEF EyesInv, EyesShutInABlink
            <6>2. g \in 1..5 BY DEF Eyes!EyesAssumption
            <6>3. e = blink.elapsed + d BY DEF e
            <6>4. shutFor' <= (e - Eyes!Closing) + g
              BY <1>0, <2>1, <5>2, <6>1, <6>2, <6>3
                 DEF EyesInv, EyesTimes, Eyes!Closing, Eyes!Total, Eyes!Held, Eyes!Opening
            <6> QED BY <3>3, <4>2, <5>1, <6>4 DEF EyesShutInABlink
          <5> QED BY <5>3, <5>4
        <4> QED BY <4>1, <4>2
      <3> QED BY <1>1, <1>4, <1>5, <3>3, <3>4, <3>5, <3>6 DEF EyesInv
    <2>3. CASE ~(e < Eyes!Total)
      <3>1. /\ blink' = Eyes!NoBlink
            /\ lids' = "open"
            /\ due' = IF blink.double THEN Eyes!Second ELSE due
        BY <1>8, <2>3 DEF Eyes!BlinkUpdate
      <3>2. Eyes!NoBlink \in [on : BOOLEAN, double : BOOLEAN, elapsed : 0..Eyes!Total]
        BY DEF Eyes!NoBlink, Eyes!Total, Eyes!Closing, Eyes!Held, Eyes!Opening
      <3>3. due' \in 1..400 BY <3>1 DEF EyesInv, EyesTimes, Eyes!Second
      <3>4. shutFor' = 0 BY <1>6, <3>1
      <3> QED BY <1>1, <1>4, <1>5, <3>1, <3>2, <3>3, <3>4
          DEF EyesInv, EyesTimes, EyesShutInABlink
    <2> QED BY <2>2, <2>3
  <1> QED BY <1>7, <1>8 DEF Eyes!Frame

LEMMA EyesStep == ASSUME Eyes!EyesAssumption, EyesInv, [Eyes!Next]_(Eyes!vars) PROVE EyesInv'
  <1>1. ASSUME NEW s \in {<<100, -50>>}, Eyes!PointerMoves(s) PROVE EyesInv'
    <2>1. pointer' = [at |-> s, active |-> TRUE]
          /\ UNCHANGED <<mood, glance, nodding, speaking, due, blink, lids, shutFor>>
      BY <1>1 DEF Eyes!PointerMoves
    <2>2. pointer' \in [at : {<<100, -50>>} \union {<<0, 0>>}, active : BOOLEAN] BY <2>1
    <2> QED BY <2>1, <2>2 DEF EyesInv, EyesGaze, EyesTimes, EyesShutInABlink
  <1>2. CASE Eyes!PointerLeaves
    <2>1. pointer' = [pointer EXCEPT !.active = FALSE]
          /\ UNCHANGED <<mood, glance, nodding, speaking, due, blink, lids, shutFor>>
      BY <1>2 DEF Eyes!PointerLeaves
    <2>2. pointer' \in [at : {<<100, -50>>} \union {<<0, 0>>}, active : BOOLEAN]
      BY <2>1 DEF EyesInv, EyesGaze
    <2> QED BY <2>1, <2>2 DEF EyesInv, EyesGaze, EyesTimes, EyesShutInABlink
  <1>3. CASE Eyes!Tap
    <2>1. blink' = Eyes!Trigger(blink, TRUE)
          /\ UNCHANGED <<mood, pointer, glance, nodding, speaking, due, lids, shutFor>>
      BY <1>3 DEF Eyes!Tap
    <2>2. CASE blink.on
      <3>1. blink' = blink BY <2>1, <2>2 DEF Eyes!Trigger
      <3> QED BY <2>1, <3>1 DEF EyesInv, EyesGaze, EyesTimes, EyesShutInABlink
    <2>3. CASE ~blink.on
      <3>1. blink' = [on |-> TRUE, double |-> TRUE, elapsed |-> 0]
        BY <2>1, <2>3 DEF Eyes!Trigger
      <3>2. 0 \in 0..Eyes!Total BY DEF Eyes!Total, Eyes!Closing, Eyes!Held, Eyes!Opening
      <3>3. blink' \in [on : BOOLEAN, double : BOOLEAN, elapsed : 0..Eyes!Total] BY <3>1, <3>2
      <3>4. EyesShutInABlink' BY <2>1, <2>3 DEF EyesInv, EyesShutInABlink
      <3> QED BY <2>1, <3>3, <3>4 DEF EyesInv, EyesGaze, EyesTimes
    <2> QED BY <2>2, <2>3
  <1>4. ASSUME NEW m \in EyeMoods, Eyes!SetEmotionState(m) PROVE EyesInv'
    BY <1>4 DEF Eyes!SetEmotionState, EyesInv, EyesGaze, EyesTimes, EyesShutInABlink
  <1>5. ASSUME NEW s \in BOOLEAN, Eyes!SetSpeaking(s) PROVE EyesInv'
    <2>1. speaking' \in BOOLEAN
          /\ UNCHANGED <<mood, pointer, glance, nodding, due, blink, lids, shutFor>>
      BY <1>5 DEF Eyes!SetSpeaking
    <2> QED BY <2>1 DEF EyesInv, EyesGaze, EyesTimes, EyesShutInABlink
  <1>6. CASE UNCHANGED Eyes!vars
    BY <1>6 DEF Eyes!vars, EyesInv, EyesGaze, EyesTimes, EyesShutInABlink
  <1> QED BY <1>1, <1>2, <1>3, <1>4, <1>5, <1>6, EyesFrameStep DEF Eyes!Next

LEMMA EyesInvariance == ASSUME Eyes!EyesAssumption PROVE Eyes!Spec => []EyesInv
  <1> QED BY EyesStart, EyesStep, PTL DEF Eyes!Spec

(* Shut is the first frame of the hold and what is left of it.              *)
LEMMA EyesShow == ASSUME Eyes!EyesAssumption, EyesInv PROVE Eyes!TypeOK /\ Eyes!EyesReopen
  <1>1. Eyes!TypeOK BY DEF EyesInv, EyesGaze, EyesTimes, Eyes!TypeOK
  <1>2. Eyes!EyesReopen
    <2>1. CASE lids = "shut"
      <3>1. PICK d \in EyeFrames : shutFor <= (blink.elapsed - Eyes!Closing) + d
        BY <2>1 DEF EyesInv, EyesShutInABlink
      <3>2. blink.elapsed \in Eyes!Closing..(Eyes!Closing + Eyes!Held)
        BY <2>1 DEF EyesInv, EyesShutInABlink
      <3>3. d \in 1..5 BY DEF Eyes!EyesAssumption
      <3>4. shutFor <= Eyes!Held + d
        BY <3>1, <3>2, <3>3 DEF EyesInv, EyesTimes, Eyes!Closing, Eyes!Held
      <3> QED BY <3>4 DEF Eyes!EyesReopen
    <2>2. CASE lids # "shut"
      <3>1. shutFor = 0 BY <2>2 DEF EyesInv, EyesShutInABlink
      <3>2. PICK d \in EyeFrames : TRUE BY DEF Eyes!EyesAssumption
      <3>3. d \in 1..5 BY DEF Eyes!EyesAssumption
      <3>4. shutFor <= Eyes!Held + d BY <3>1, <3>3 DEF Eyes!Held
      <3> QED BY <3>4 DEF Eyes!EyesReopen
    <2> QED BY <2>1, <2>2
  <1> QED BY <1>1, <1>2

(***************************************************************************)
(* Editor.tla                                                              *)
(***************************************************************************)

(* A save carries a text, and the hash of one that the tab has shown.       *)
EditorSent == {c \in Editor!FileCalls :
                  /\ c.op \in {"save", "fresh", "resave"} => c.text \in Editor!Texts
                  /\ c.op = "save" => c.hash \in shown}

(* What was read is a text.                                                 *)
EditorTold == {a \in Editor!Answers :
                  /\ a.call \in EditorSent
                  /\ a.call.op \in Editor!Reads /\ a.result = "ok" => a.found \in Editor!Texts}

EditorMail == {m \in [answer : Editor!Answers] : m.answer \in EditorTold} \union [news : Editor!News]

EditorTab == [view : {"closed", "loading", "ready", "error"},
              content : Editor!Texts \union {Absent}, original : Editor!Texts \union {Absent},
              hash : Editor!Texts \union {NoHash}, dirty : BOOLEAN]

(* What can be typed in, or was, is a text that the tab has shown, changed. *)
EditorTabInv ==
    /\ tab \in EditorTab
    /\ tab.view = "ready" \/ tab.dirty =>
          /\ tab.content \in Editor!Texts /\ tab.original \in Editor!Texts /\ tab.hash \in shown

EditorFlags == /\ autoSave \in BOOLEAN /\ timer \in BOOLEAN /\ saving \in BOOLEAN /\ visible \in BOOLEAN

EditorWritten == disk \in Editor!Texts \union {Absent} /\ unused \subseteq Editor!Texts

EditorInv ==
    /\ EditorWritten /\ EditorTabInv /\ EditorFlags
    /\ requests \in Seq(EditorSent) /\ messages \in Seq(EditorMail)
    /\ shown \subseteq Editor!Texts

LEMMA EditorSeqSub == ASSUME NEW S, NEW T, S \subseteq T, NEW q \in Seq(S) PROVE q \in Seq(T)
  OBVIOUS

LEMMA EditorTypes == ASSUME EditorInv PROVE Editor!TypeOK
  <1>1. EditorSent \subseteq Editor!FileCalls BY DEF EditorSent
  <1>2. EditorMail \subseteq [answer : Editor!Answers] \union [news : Editor!News]
    BY DEF EditorMail
  <1>3. requests \in Seq(Editor!FileCalls) BY <1>1, EditorSeqSub DEF EditorInv
  <1>4. messages \in Seq([answer : Editor!Answers] \union [news : Editor!News])
    BY <1>2, EditorSeqSub DEF EditorInv
  <1>5. <<autoSave, timer, saving, visible>> \in BOOLEAN \X BOOLEAN \X BOOLEAN \X BOOLEAN
    BY DEF EditorInv, EditorFlags
  <1> QED BY <1>3, <1>4, <1>5
      DEF EditorInv, EditorWritten, EditorTabInv, EditorTab, Editor!TypeOK

(* What travels stays as it is when more has been shown.                    *)
LEMMA EditorMoreShown ==
    ASSUME shown \subseteq shown', requests \in Seq(EditorSent), messages \in Seq(EditorMail)
    PROVE  /\ EditorSent \subseteq EditorSent' /\ EditorMail \subseteq EditorMail'
           /\ requests \in Seq(EditorSent') /\ messages \in Seq(EditorMail')
  <1>1. EditorSent \subseteq EditorSent' BY DEF EditorSent
  <1>2. EditorTold \subseteq EditorTold' BY <1>1 DEF EditorTold
  <1>3. EditorMail \subseteq EditorMail' BY <1>2 DEF EditorMail
  <1> QED BY <1>1, <1>3, EditorSeqSub

LEMMA EditorStarts == ASSUME Editor!EditorAssumption, Editor!Init PROVE EditorInv
  <1>1. EditorWritten BY DEF Editor!Init, EditorWritten, Editor!Texts
  <1>2. EditorTabInv BY DEF Editor!Init, EditorTabInv, Editor!Closed, EditorTab
  <1>3. EditorFlags BY DEF Editor!Init, EditorFlags
  <1> QED BY <1>1, <1>2, <1>3 DEF Editor!Init, EditorInv

(* The two ways a tab takes a text over.                                    *)
LEMMA EditorLoads ==
    ASSUME EditorInv, NEW text \in Editor!Texts,
           Editor!SetTabContent(text) \/ Editor!MarkTabSaved(text)
    PROVE  EditorTabInv' /\ shown' \subseteq Editor!Texts /\ shown \subseteq shown'
  <1>1. CASE tab.view = "closed"
    <2>1. tab' = tab /\ shown' = shown BY <1>1 DEF Editor!SetTabContent, Editor!MarkTabSaved
    <2> QED BY <2>1 DEF EditorInv, EditorTabInv
  <1>2. CASE tab.view # "closed" /\ Editor!SetTabContent(text)
    <2>1. /\ tab' = [view |-> "ready", content |-> text, original |-> text,
                     hash |-> text, dirty |-> FALSE]
          /\ shown' = shown \union {text}
      BY <1>2 DEF Editor!SetTabContent
    <2> QED BY <2>1 DEF EditorInv, EditorTabInv, EditorTab
  <1>3. CASE tab.view # "closed" /\ Editor!MarkTabSaved(text)
    <2>1. /\ tab' = [tab EXCEPT !.content = text, !.original = text, !.hash = text, !.dirty = FALSE]
          /\ shown' = shown \union {text}
      BY <1>3 DEF Editor!MarkTabSaved
    <2> QED BY <2>1 DEF EditorInv, EditorTabInv, EditorTab
  <1> QED BY <1>1, <1>2, <1>3

LEMMA EditorErrs == ASSUME EditorInv, Editor!SetTabError, shown' = shown PROVE EditorTabInv'
  <1>1. CASE tab.view = "closed" BY <1>1 DEF Editor!SetTabError, EditorInv, EditorTabInv
  <1>2. CASE tab.view # "closed"
    <2>1. tab' = [tab EXCEPT !.view = "error"] BY <1>2 DEF Editor!SetTabError
    <2> QED BY <2>1 DEF EditorInv, EditorTabInv, EditorTab
  <1> QED BY <1>1, <1>2

LEMMA EditorAsks ==
    ASSUME EditorInv, NEW op \in {"open", "reload", "save", "fresh", "resave"},
           NEW text \in Editor!Texts \union {Absent}, NEW hash \in Editor!Texts \union {NoHash},
           op \in {"save", "fresh", "resave"} => text \in Editor!Texts,
           op = "save" => hash \in shown,
           Editor!Ask(op, text, hash), shown' = shown
    PROVE  requests' \in Seq(EditorSent')
  <1>1. Editor!Call(op, text, hash) \in EditorSent
    BY DEF Editor!Call, EditorSent, Editor!FileCalls
  <1>2. EditorSent' = EditorSent BY DEF EditorSent
  <1> QED BY <1>1, <1>2 DEF EditorInv, Editor!Ask

LEMMA EditorSaves ==
    ASSUME EditorInv, tab.dirty, Editor!SaveFile, shown' = shown
    PROVE  requests' \in Seq(EditorSent') /\ saving' \in BOOLEAN
  <1>1. /\ tab.content \in Editor!Texts /\ tab.hash \in shown /\ tab.hash \in Editor!Texts
    BY DEF EditorInv, EditorTabInv, EditorTab
  <1> QED BY <1>1, EditorAsks DEF Editor!SaveFile

LEMMA EditorUserSteps ==
    ASSUME Editor!EditorAssumption, EditorInv,
           Editor!Open \/ Editor!Type \/ Editor!TimerFires \/ Editor!SaveButton \/ Editor!Toggle
             \/ Editor!CloseTab \/ Editor!Leave \/ Editor!Return
    PROVE  EditorInv'
  <1>i. /\ EditorWritten
        /\ EditorTabInv
        /\ EditorFlags
        /\ requests \in Seq(EditorSent)
        /\ messages \in Seq(EditorMail)
        /\ shown \subseteq Editor!Texts
    BY DEF EditorInv
  <1>s. shown' = shown
    BY
       DEF Editor!Open, Editor!Type, Editor!TimerFires, Editor!SaveButton, Editor!Toggle,
           Editor!CloseTab, Editor!Leave, Editor!Return
  <1>t. EditorSent' = EditorSent /\ EditorMail' = EditorMail
    BY <1>s DEF EditorSent, EditorTold, EditorMail
  <1>1. CASE Editor!Open
    <2>1. /\ Editor!Ask("open", Absent, NoHash)
          /\ UNCHANGED <<disk, unused, autoSave, timer, saving, visible, messages>>
          /\ tab' = IF tab.view = "closed" THEN [Editor!Closed EXCEPT !.view = "loading"] ELSE tab
      BY <1>1 DEF Editor!Open
    <2>2. requests' \in Seq(EditorSent') BY <1>s, <2>1, EditorAsks
    <2>c. Editor!Closed \in EditorTab /\ Editor!Closed.dirty = FALSE
      BY DEF Editor!Closed, EditorTab
    <2>3. /\ [Editor!Closed EXCEPT !.view = "loading"] \in EditorTab
          /\ [Editor!Closed EXCEPT !.view = "loading"].view = "loading"
          /\ [Editor!Closed EXCEPT !.view = "loading"].dirty = FALSE
      BY <2>c DEF EditorTab
    <2>4. EditorTabInv' BY <1>i, <1>s, <2>1, <2>3 DEF EditorTabInv
    <2> QED BY <1>i, <1>s, <1>t, <2>1, <2>2, <2>4 DEF EditorInv, EditorWritten, EditorFlags
  <1>2. CASE Editor!Type
    <2>1. PICK text \in (unused \intersect UserTexts) \union {tab.original} :
             /\ text # tab.content
             /\ tab' = [tab EXCEPT !.content = text, !.dirty = (text # tab.original)]
             /\ unused' = unused \ {text}
      BY <1>2 DEF Editor!Type
    <2>2. tab.view = "ready" /\ timer' = (timer \/ autoSave)
          /\ UNCHANGED <<disk, autoSave, saving, visible, requests, messages>>
      BY <1>2 DEF Editor!Type
    <2>3. text \in Editor!Texts BY <1>i, <2>1, <2>2 DEF EditorTabInv, Editor!Texts
    <2>4. EditorTabInv'
      <3>1. PICK d \in BOOLEAN : d = (text # tab.original) OBVIOUS
      <3>2. tab' = [tab EXCEPT !.content = text, !.dirty = d] BY <2>1, <3>1
      <3> QED BY <1>i, <1>s, <2>2, <2>3, <3>2 DEF EditorTabInv, EditorTab
    <2>5. timer' \in BOOLEAN BY <2>2
    <2> QED BY <1>i, <1>s, <1>t, <2>1, <2>2, <2>4, <2>5
        DEF EditorInv, EditorWritten, EditorFlags
  <1>3. CASE Editor!TimerFires
    <2>1. timer' = FALSE /\ UNCHANGED <<disk, unused, tab, autoSave, visible, messages>>
          /\ (IF tab.dirty THEN Editor!SaveFile ELSE UNCHANGED <<requests, saving>>)
      BY <1>3 DEF Editor!TimerFires
    <2>2. requests' \in Seq(EditorSent') /\ saving' \in BOOLEAN
      <3>1. CASE tab.dirty BY <1>s, <2>1, <3>1, EditorSaves
      <3>2. CASE ~tab.dirty BY <1>i, <1>t, <2>1, <3>2 DEF EditorFlags
      <3> QED BY <3>1, <3>2
    <2> QED BY <1>i, <1>s, <1>t, <2>1, <2>2
        DEF EditorInv, EditorWritten, EditorFlags, EditorTabInv
  <1>4. CASE Editor!SaveButton
    <2>1. /\ tab.dirty
          /\ Editor!SaveFile
          /\ UNCHANGED <<disk, unused, tab, autoSave, timer, visible, messages>>
      BY <1>4 DEF Editor!SaveButton
    <2>2. requests' \in Seq(EditorSent') /\ saving' \in BOOLEAN BY <1>s, <2>1, EditorSaves
    <2> QED BY <1>i, <1>s, <1>t, <2>1, <2>2
        DEF EditorInv, EditorWritten, EditorFlags, EditorTabInv
  <1>5. CASE Editor!Toggle
    <2>1. /\ autoSave' \in BOOLEAN
          /\ UNCHANGED <<disk, unused, tab, timer, saving, visible, requests, messages>>
      BY <1>5 DEF Editor!Toggle
    <2> QED BY <1>i, <1>s, <1>t, <2>1 DEF EditorInv, EditorWritten, EditorFlags, EditorTabInv
  <1>6. CASE Editor!CloseTab
    <2>1. tab' = Editor!Closed
          /\ UNCHANGED <<disk, unused, autoSave, timer, saving, visible, requests, messages>>
      BY <1>6 DEF Editor!CloseTab
    <2>2. EditorTabInv' BY <2>1 DEF EditorTabInv, EditorTab, Editor!Closed
    <2> QED BY <1>i, <1>s, <1>t, <2>1, <2>2 DEF EditorInv, EditorWritten, EditorFlags
  <1>7. CASE Editor!Leave \/ Editor!Return
    <2>1. EditorFlags' /\ UNCHANGED <<disk, unused, tab, requests, messages>>
      BY <1>i, <1>7 DEF Editor!Leave, Editor!Return, EditorFlags
    <2> QED BY <1>i, <1>s, <1>t, <2>1 DEF EditorInv, EditorWritten, EditorTabInv
  <1> QED BY <1>1, <1>2, <1>3, <1>4, <1>5, <1>6, <1>7

(* What is served is answered.                                              *)
LEMMA EditorServeStep ==
    ASSUME Editor!EditorAssumption, EditorInv, Editor!Serve
    PROVE  EditorInv'
  <1>i. /\ EditorWritten
        /\ EditorTabInv
        /\ EditorFlags
        /\ requests \in Seq(EditorSent)
        /\ messages \in Seq(EditorMail)
        /\ shown \subseteq Editor!Texts
    BY DEF EditorInv
  <1> DEFINE c == Head(requests)
  <1>1. /\ requests # <<>>
        /\ requests' = Tail(requests)
        /\ (Editor!ServeRead(c) \/ Editor!ServeWrite(c))
    BY DEF Editor!Serve
  <1>2. UNCHANGED <<unused, tab, autoSave, timer, saving, visible, shown>> BY DEF Editor!Serve
  <1>3. c \in EditorSent BY <1>i, <1>1
  <1>t. EditorSent' = EditorSent /\ EditorMail' = EditorMail
    BY <1>2 DEF EditorSent, EditorTold, EditorMail
  <1>4. requests' \in Seq(EditorSent') BY <1>i, <1>1, <1>t
  <1> HIDE DEF c
  <1>5. c \in Editor!FileCalls BY <1>3 DEF EditorSent
  <1>6. ASSUME NEW result \in {"ok", "conflict", "failed"},
  NEW found \in Editor!Texts \union {Absent},
               c.op \in Editor!Reads /\ result = "ok" => found \in Editor!Texts,
               Editor!Answer(c, result, found)
        PROVE  messages' \in Seq(EditorMail')
    <2>1. [call |-> c, result |-> result, found |-> found] \in EditorTold
      BY <1>3, <1>5, <1>6 DEF EditorTold, Editor!Answers
    <2>2. [answer |-> [call |-> c, result |-> result, found |-> found]] \in EditorMail
      BY <2>1 DEF EditorMail, EditorTold
    <2> QED BY <1>6, <1>i, <1>t, <2>2 DEF Editor!Answer
  <1>7. CASE Editor!ServeRead(c)
    <2>1. disk' = disk /\ Editor!Answer(c, IF disk = Absent THEN "failed" ELSE "ok", disk)
      BY <1>7 DEF Editor!ServeRead
    <2>2. messages' \in Seq(EditorMail') BY <1>6, <1>i, <2>1 DEF EditorWritten
    <2> QED BY <1>i, <1>2, <1>4, <2>1, <2>2
        DEF EditorInv, EditorWritten, EditorTabInv, EditorFlags
  <1>8. CASE Editor!ServeWrite(c)
    <2>1. c.op \notin Editor!Reads BY <1>8 DEF Editor!ServeWrite
    <2>2. c.text \in Editor!Texts
      BY <1>3, <1>5, <2>1 DEF EditorSent, Editor!FileCalls, Editor!Reads
    <2>3. CASE disk' = c.text /\ Editor!Answer(c, "ok", c.text)
      <3>1. messages' \in Seq(EditorMail') BY <1>6, <2>1, <2>2, <2>3
      <3> QED BY <1>i, <1>2, <1>4, <2>2, <2>3, <3>1
          DEF EditorInv, EditorWritten, EditorTabInv, EditorFlags
    <2>4. CASE disk' = disk /\ Editor!Answer(c, "conflict", Absent)
      <3>1. messages' \in Seq(EditorMail') BY <1>6, <2>1, <2>4
      <3> QED BY <1>i, <1>2, <1>4, <2>4, <3>1
          DEF EditorInv, EditorWritten, EditorTabInv, EditorFlags
    <2> QED BY <1>8, <2>3, <2>4 DEF Editor!ServeWrite
  <1> QED BY <1>1, <1>7, <1>8

LEMMA EditorOthersSteps ==
    ASSUME Editor!EditorAssumption, EditorInv, Editor!AgentChanges \/ Editor!Elsewhere
    PROVE  EditorInv'
  <1>i. /\ EditorWritten
        /\ EditorTabInv
        /\ EditorFlags
        /\ requests \in Seq(EditorSent)
        /\ messages \in Seq(EditorMail)
        /\ shown \subseteq Editor!Texts
    BY DEF EditorInv
  <1>1. UNCHANGED <<tab, autoSave, timer, saving, visible, requests, shown>>
    BY DEF Editor!AgentChanges, Editor!Elsewhere
  <1>2. PICK text \in Editor!NextOther \union {Absent} : disk' = text /\ unused' = unused \ {text}
    BY DEF Editor!AgentChanges, Editor!Elsewhere
  <1>3. text \in Editor!Texts \union {Absent} BY <1>i, <1>2 DEF Editor!NextOther, EditorWritten
  <1>t. EditorSent' = EditorSent /\ EditorMail' = EditorMail
    BY <1>1 DEF EditorSent, EditorTold, EditorMail
  <1>4. messages' \in Seq(EditorMail')
    <2>1. [news |-> "changed"] \in EditorMail BY DEF EditorMail, Editor!News
    <2>2. messages' = Append(messages, [news |-> "changed"]) \/ messages' = messages
      BY DEF Editor!AgentChanges, Editor!Elsewhere
    <2>3. Append(messages, [news |-> "changed"]) \in Seq(EditorMail)
      BY <1>i, <2>1, AppendProperties
    <2> QED BY <1>i, <1>t, <2>2, <2>3
  <1> QED BY <1>i, <1>1, <1>2, <1>3, <1>t, <1>4
      DEF EditorInv, EditorWritten, EditorTabInv, EditorFlags

(* An answer, or news, arrives.                                             *)
LEMMA EditorArriveStep ==
    ASSUME Editor!EditorAssumption, EditorInv, Editor!Arrive
    PROVE  EditorInv'
  <1>i. /\ EditorWritten
        /\ EditorTabInv
        /\ EditorFlags
        /\ requests \in Seq(EditorSent)
        /\ messages \in Seq(EditorMail)
        /\ shown \subseteq Editor!Texts
    BY DEF EditorInv
  <1> DEFINE m == Head(messages)
  <1>1. /\ messages # <<>> /\ messages' = Tail(messages)
        /\ UNCHANGED <<disk, unused, autoSave, timer, visible>>
        /\ \/ "news" \in DOMAIN m /\ Editor!NewsArrives
           \/ /\ "answer" \in DOMAIN m /\ m.answer.call.live
              /\ Editor!ReadAnswered(m.answer) \/ Editor!SaveAnswered(m.answer)
           \/ /\ "answer" \in DOMAIN m /\ ~m.answer.call.live
              /\ UNCHANGED <<requests, tab, shown, saving>>
    BY DEF Editor!Arrive
  <1>2. m \in EditorMail /\ messages' \in Seq(EditorMail) BY <1>i, <1>1
  <1> HIDE DEF m
  <1>3. ASSUME shown \subseteq shown', requests' \in Seq(EditorSent'), EditorTabInv',
               shown' \subseteq Editor!Texts, saving' \in BOOLEAN
        PROVE  EditorInv'
    <2>1. EditorMail \subseteq EditorMail' BY <1>3, <1>i, EditorMoreShown
    <2>2. messages' \in Seq(EditorMail') BY <1>2, <2>1, EditorSeqSub
    <2> QED BY <1>i, <1>1, <1>3, <2>2 DEF EditorInv, EditorWritten, EditorFlags
  <1>4. shown' = shown => EditorSent' = EditorSent BY DEF EditorSent
  <1>5. CASE Editor!NewsArrives
    <2>1. UNCHANGED <<tab, shown, saving>> BY <1>5 DEF Editor!NewsArrives
    <2>2. Editor!Ask("reload", Absent, NoHash) \/ requests' = requests
      BY <1>5 DEF Editor!NewsArrives
    <2>3. requests' \in Seq(EditorSent') BY <1>i, <1>4, <2>1, <2>2, EditorAsks
    <2>4. EditorTabInv' BY <1>i, <2>1 DEF EditorTabInv
    <2> QED BY <1>i, <1>3, <2>1, <2>3, <2>4 DEF EditorFlags
  <1>6. CASE UNCHANGED <<requests, tab, shown, saving>>
    <2>1. EditorTabInv' BY <1>i, <1>6 DEF EditorTabInv
    <2> QED BY <1>i, <1>3, <1>4, <1>6, <2>1 DEF EditorFlags
  <1>7. CASE /\ "answer" \in DOMAIN m
             /\ (Editor!ReadAnswered(m.answer) \/ Editor!SaveAnswered(m.answer))
    <2> DEFINE a == m.answer
    <2>1. a \in EditorTold BY <1>2, <1>7 DEF EditorMail
    <2> HIDE DEF a
    <2>2. /\ a \in Editor!Answers /\ a.call \in EditorSent /\ a.call \in Editor!FileCalls
          /\ (a.call.op \in Editor!Reads /\ a.result = "ok" => a.found \in Editor!Texts)
          /\ (a.call.op \in {"save", "fresh", "resave"} => a.call.text \in Editor!Texts)
      BY <2>1 DEF EditorTold, EditorSent, Editor!Answers
    <2>3. CASE Editor!ReadAnswered(a)
      <3>0. a.call.op \in Editor!Reads /\ UNCHANGED <<requests, saving>>
        BY <2>3 DEF Editor!ReadAnswered, Editor!Reads
      <3>1. CASE a.result = "ok" /\ Editor!SetTabContent(a.found)
        <4>1. EditorTabInv' /\ shown' \subseteq Editor!Texts /\ shown \subseteq shown'
          BY <2>2, <3>0, <3>1, EditorLoads
        <4>2. requests' \in Seq(EditorSent') BY <1>i, <3>0, <4>1, EditorMoreShown
        <4> QED BY <1>i, <1>3, <3>0, <4>1, <4>2 DEF EditorFlags
      <3>2. CASE Editor!SetTabError /\ shown' = shown
        <4>1. EditorTabInv' BY <3>2, EditorErrs
        <4> QED BY <1>i, <1>3, <1>4, <3>0, <3>2, <4>1 DEF EditorFlags
      <3>3. CASE tab' = tab /\ shown' = shown BY <1>6, <3>0, <3>3
      <3> QED BY <2>3, <3>1, <3>2, <3>3 DEF Editor!ReadAnswered
    <2>4. CASE Editor!SaveAnswered(a)
      <3>0. a.call.op \in {"save", "resave", "fresh"} /\ a.call.text \in Editor!Texts
        BY <2>2, <2>4 DEF Editor!SaveAnswered
      <3>1. CASE Editor!MarkTabSaved(a.call.text) /\ saving' = FALSE /\ UNCHANGED requests
        <4>1. EditorTabInv' /\ shown' \subseteq Editor!Texts /\ shown \subseteq shown'
          BY <3>0, <3>1, EditorLoads
        <4>2. requests' \in Seq(EditorSent') BY <1>i, <3>1, <4>1, EditorMoreShown
        <4> QED BY <1>3, <3>1, <4>1, <4>2
      <3>2. CASE Editor!Ask("fresh", a.call.text, NoHash) /\ UNCHANGED <<tab, shown, saving>>
        <4>1. requests' \in Seq(EditorSent') BY <3>0, <3>2, EditorAsks
        <4>2. EditorTabInv' BY <1>i, <3>2 DEF EditorTabInv
        <4> QED BY <1>i, <1>3, <3>2, <4>1, <4>2 DEF EditorFlags
      <3>3. CASE /\ a.call.op = "fresh" /\ a.result = "ok"
                 /\ Editor!Ask("resave", a.call.text, a.found)
                 /\ UNCHANGED <<tab, shown, saving>>
        <4>1. a.found \in Editor!Texts BY <2>2, <3>3 DEF Editor!Reads
        <4>2. requests' \in Seq(EditorSent') BY <3>0, <3>3, <4>1, EditorAsks
        <4>3. EditorTabInv' BY <1>i, <3>3 DEF EditorTabInv
        <4> QED BY <1>i, <1>3, <3>3, <4>2, <4>3 DEF EditorFlags
      <3>4. CASE saving' = FALSE /\ UNCHANGED <<requests, tab, shown>>
        <4>1. EditorTabInv' BY <1>i, <3>4 DEF EditorTabInv
        <4> QED BY <1>i, <1>3, <1>4, <3>4, <4>1
      <3> QED BY <2>4, <3>1, <3>2, <3>3, <3>4 DEF Editor!SaveAnswered
    <2> QED BY <1>7, <2>3, <2>4 DEF a
  <1> QED BY <1>1, <1>5, <1>6, <1>7

(* A call that is given up stays what it was.                               *)
LEMMA EditorForgotten ==
    ASSUME NEW c \in EditorSent
    PROVE  [c EXCEPT !.live = FALSE] \in EditorSent
  BY DEF EditorSent, Editor!FileCalls

LEMMA EditorTimeoutStep ==
    ASSUME Editor!EditorAssumption, EditorInv, Editor!Timeout
    PROVE  EditorInv'
  <1>i. /\ EditorWritten
        /\ EditorTabInv
        /\ EditorFlags
        /\ requests \in Seq(EditorSent)
        /\ messages \in Seq(EditorMail)
        /\ shown \subseteq Editor!Texts
    BY DEF EditorInv
  <1>1. UNCHANGED <<disk, unused, autoSave, timer, visible, shown>> BY DEF Editor!Timeout
  <1>t. EditorSent' = EditorSent /\ EditorMail' = EditorMail
    BY <1>1 DEF EditorSent, EditorTold, EditorMail
  <1>2. ASSUME NEW c, Editor!GivenUp(c) PROVE EditorTabInv' /\ saving' \in BOOLEAN
    <2>1. Editor!SetTabError \/ tab' = tab BY <1>2 DEF Editor!GivenUp
    <2>2. EditorTabInv' BY <1>i, <1>1, <2>1, EditorErrs DEF EditorTabInv
    <2>3. saving' = (saving /\ c.op \in {"open", "reload"}) BY <1>2 DEF Editor!GivenUp
    <2> QED BY <2>2, <2>3
  <1>3. CASE \E i \in DOMAIN requests :
                /\ Editor!GivenUp(requests[i])
                /\ requests' = [requests EXCEPT ![i].live = FALSE]
                /\ UNCHANGED messages
    <2>1. PICK i \in DOMAIN requests :
                /\ Editor!GivenUp(requests[i])
                /\ requests' = [requests EXCEPT ![i].live = FALSE]
                /\ UNCHANGED messages
      BY <1>3
    <2>2. requests[i] \in EditorSent BY <1>i
    <2>3. [requests[i] EXCEPT !.live = FALSE] \in EditorSent BY <2>2, EditorForgotten
    <2>4. requests' = [requests EXCEPT ![i] = [requests[i] EXCEPT !.live = FALSE]] BY <2>1
    <2>5. requests' \in Seq(EditorSent) BY <1>i, <2>3, <2>4
    <2> QED BY <1>i, <1>1, <1>t, <1>2, <2>1, <2>5 DEF EditorInv, EditorWritten, EditorFlags
  <1>4. CASE \E i \in DOMAIN messages :
                /\ "answer" \in DOMAIN messages[i]
                /\ Editor!GivenUp(messages[i].answer.call)
                /\ messages' = [messages EXCEPT ![i].answer.call.live = FALSE]
                /\ UNCHANGED requests
    <2>1. PICK i \in DOMAIN messages :
                /\ "answer" \in DOMAIN messages[i]
                /\ Editor!GivenUp(messages[i].answer.call)
                /\ messages' = [messages EXCEPT ![i].answer.call.live = FALSE]
                /\ UNCHANGED requests
      BY <1>4
    <2> DEFINE m == messages[i]
               a == m.answer
               c == [a.call EXCEPT !.live = FALSE]
               b == [a EXCEPT !.call = c]
               n == [m EXCEPT !.answer = b]
    <2>2. m \in EditorMail BY <1>i
    <2>3. m \in [answer : Editor!Answers] /\ a \in EditorTold BY <2>1, <2>2 DEF EditorMail
    <2>4. messages' = [messages EXCEPT ![i] = n] BY <2>1
    <2> HIDE DEF m
    <2>5. /\ a \in Editor!Answers
          /\ a.call \in EditorSent
          /\ (a.call.op \in Editor!Reads /\ a.result = "ok" => a.found \in Editor!Texts)
      BY <2>3 DEF EditorTold
    <2>6. ASSUME b \in Editor!Answers
        PROVE n \in [answer : Editor!Answers] /\ n.answer = b
          BY <2>3, <2>6
    <2> HIDE DEF a, n
    <2>7. c \in EditorSent /\ c.op = a.call.op
      BY <2>5, EditorForgotten DEF EditorSent, Editor!FileCalls
    <2> HIDE DEF c
    <2>8. b = [call |-> c, result |-> a.result, found |-> a.found] BY <2>5 DEF Editor!Answers
    <2> HIDE DEF b
    <2>9. b \in EditorTold BY <2>5, <2>7, <2>8 DEF EditorTold, Editor!Answers, EditorSent
    <2>10. n \in EditorMail
      <3>1. b \in Editor!Answers BY <2>9 DEF EditorTold
      <3> QED BY <2>6, <2>9, <3>1 DEF EditorMail
    <2>11. messages' \in Seq(EditorMail) BY <1>i, <2>4, <2>10
    <2> QED BY <1>i, <1>1, <1>t, <1>2, <2>1, <2>11 DEF EditorInv, EditorWritten, EditorFlags
  <1> QED BY <1>3, <1>4 DEF Editor!Timeout

LEMMA EditorStep ==
    ASSUME Editor!EditorAssumption, EditorInv, [Editor!Next]_(Editor!vars)
    PROVE  EditorInv'
  <1>1. CASE UNCHANGED Editor!vars
    <2>1. EditorSent' = EditorSent /\ EditorMail' = EditorMail
      BY <1>1 DEF Editor!vars, EditorSent, EditorTold, EditorMail
    <2> QED BY <1>1, <2>1 DEF Editor!vars, EditorInv, EditorWritten, EditorTabInv, EditorFlags
  <1> QED BY <1>1, EditorUserSteps, EditorServeStep, EditorOthersSteps, EditorArriveStep,
      EditorTimeoutStep
      DEF Editor!Next

LEMMA EditorInvariance == ASSUME Editor!EditorAssumption PROVE Editor!Spec => []EditorInv
  <1> QED BY EditorStarts, EditorStep, PTL DEF Editor!Spec

(* Only a save writes what the user has typed, and it may only over the     *)
(* text whose hash it carries.                                              *)
LEMMA EditorOverSeen ==
    ASSUME Editor!EditorAssumption, EditorInv, [Editor!Next]_(Editor!vars),
           disk' \in UserTexts, disk' # disk, disk \in OtherTexts
    PROVE  disk \in shown \/ Head(requests).op = "resave"
  <1>1. CASE Editor!Serve
    <2> DEFINE c == Head(requests)
    <2>1. c \in EditorSent BY <1>1 DEF EditorInv, Editor!Serve
    <2>2. Editor!ServeWrite(c) BY <1>1 DEF Editor!Serve, Editor!ServeRead
    <2> HIDE DEF c
    <2>3. c.op \notin Editor!Reads /\ Editor!MayWrite(c) BY <2>2 DEF Editor!ServeWrite
    <2>4. c.op \in {"open", "reload", "save", "fresh", "resave"}
      BY <2>1 DEF EditorSent, Editor!FileCalls
    <2>5. CASE c.op = "save"
      <3>1. c.hash \in shown BY <2>1, <2>5 DEF EditorSent
      <3>2. c.hash # NoHash /\ disk # Absent
        BY <3>1 DEF EditorInv, Editor!EditorAssumption, Editor!Texts
      <3> QED BY <2>3, <3>1, <3>2 DEF Editor!MayWrite
    <2>6. CASE c.op = "resave" BY <2>6 DEF c
    <2> QED BY <2>3, <2>4, <2>5, <2>6 DEF Editor!Reads
  <1>2. CASE Editor!AgentChanges \/ Editor!Elsewhere
    <2>1. disk' \in OtherTexts \union {Absent}
      BY <1>2 DEF Editor!AgentChanges, Editor!Elsewhere, Editor!NextOther
    <2> QED BY <2>1 DEF Editor!EditorAssumption
  <1>3. CASE UNCHANGED disk BY <1>3
  <1> QED BY <1>1, <1>2, <1>3
          DEF Editor!Next, Editor!Open, Editor!Type, Editor!TimerFires, Editor!SaveButton,
              Editor!Toggle, Editor!CloseTab, Editor!Leave, Editor!Return, Editor!Arrive,
              Editor!Timeout, Editor!vars

LEMMA EditorSavesOverSeen ==
    ASSUME Editor!EditorAssumption
    PROVE  Editor!Spec => Editor!SilentOnlyOverSeen
  <1>1. EditorInv /\ [Editor!Next]_(Editor!vars) =>
           [(disk' \in UserTexts /\ disk' # disk /\ disk \in OtherTexts)
               => disk \in shown \/ Head(requests).op = "resave"]_(Editor!vars)
    BY EditorOverSeen
  <1> QED BY EditorInvariance, <1>1, PTL DEF Editor!Spec, Editor!SilentOnlyOverSeen

(***************************************************************************)
(* Git.tla                                                                 *)
(***************************************************************************)

(* What a status may be: letters for some of the files.                     *)
GitLettered(s) == DOMAIN s \subseteq Files /\ \A f \in DOMAIN s : s[f] \in Git!Letters \X Git!Letters

(* A call that is under way.                                                *)
GitUnderWay(r) ==
    /\ r = [op |-> r.op, step |-> r.step, file |-> r.file, late |-> r.late, shows |-> r.shows]
    /\ r.op # "none"
    /\ r.step \in Git!Steps
    /\ r.file \in Files \union {Git!NoFile}
    /\ r.late \in BOOLEAN
    /\ GitLettered(r.shows)

(* The three places where a file has a version.                             *)
GitStored ==
    /\ head \in [Files -> Git!Versions] /\ index \in [Files -> Git!Versions]
    /\ work \in [Files -> Git!Versions] /\ edits \in Nat

GitCallsOK == DOMAIN call = Calls /\ \A c \in Calls : call[c] = Git!Idle \/ GitUnderWay(call[c])

(* What the panel names it shows, unless the diff came for an earlier panel. *)
GitPanelOK ==
    /\ GitLettered(status)
    /\ selected \in Files \union {Git!NoFile} /\ diff \in Files \union {Git!NoFile}
    /\ selected # Git!NoFile => diff = selected \/ foreign
    /\ viewing \in BOOLEAN /\ foreign \in BOOLEAN /\ message \in BOOLEAN

GitInv == GitStored /\ GitCallsOK /\ GitPanelOK /\ committed \subseteq Files
            /\ call = [c \in Calls |-> call[c]]

LEMMA GitNothingLettered == GitLettered(<<>>)
  BY DEF GitLettered

LEMMA GitNewCall ==
    ASSUME NEW op, op # "none", NEW step \in Git!Steps, NEW f \in Files \union {Git!NoFile},
           NEW late \in BOOLEAN
    PROVE  GitUnderWay(Git!Asked(op, step, f, late))
  BY GitNothingLettered, Zenon DEF GitUnderWay, Git!Asked

(* The letters of all files.                                                *)
LEMMA GitNowLettered == ASSUME GitStored PROVE GitLettered(Git!StatusNow)
  <1>1. \A u, v : u \in Git!Versions /\ v \in Git!Versions => Git!Letter(u, v) \in Git!Letters
    BY DEF Git!Letter, Git!Letters, Git!Versions
  <1>2. ASSUME NEW f \in Files PROVE Git!StatusNow[f] \in Git!Letters \X Git!Letters
    <2>1. /\ Git!Letter(head[f], index[f]) \in Git!Letters
          /\ Git!Letter(index[f], work[f]) \in Git!Letters
      BY <1>1 DEF GitStored
    <2>2. "?" \in Git!Letters BY DEF Git!Letters
    <2> QED BY <2>1, <2>2 DEF Git!StatusNow
  <1>3. DOMAIN Git!StatusNow = Files BY DEF Git!StatusNow
  <1> QED BY <1>2, <1>3 DEF GitLettered

LEMMA GitOneCall ==
    ASSUME GitInv, NEW c \in Calls, NEW r, r = Git!Idle \/ GitUnderWay(r),
           call' = [call EXCEPT ![c] = r]
    PROVE  GitCallsOK' /\ (call = [d \in Calls |-> call[d]])'
  BY DEF GitInv, GitCallsOK

LEMMA GitNotIdle == \A r : GitUnderWay(r) => r # Git!Idle
  BY DEF GitUnderWay, Git!Idle

(* A call goes on with its next command.                                    *)
LEMMA GitWent ==
    ASSUME GitInv, NEW c \in Calls, call[c] # Git!Idle, NEW step \in Git!Steps,
           Git!Goes(c, step)
    PROVE  GitCallsOK' /\ (call = [d \in Calls |-> call[d]])'
  <1>1. PICK r : r = call[c] OBVIOUS
  <1>2. GitUnderWay(r) BY <1>1 DEF GitInv, GitCallsOK
  <1>3. PICK s : s = [op |-> r.op, step |-> step, file |-> r.file, late |-> r.late, shows |-> r.shows]
    OBVIOUS
  <1>4. s = [r EXCEPT !.step = step] BY <1>2, <1>3 DEF GitUnderWay
  <1>5. GitUnderWay(s) BY <1>2, <1>3 DEF GitUnderWay
  <1>6. call' = [call EXCEPT ![c] = s] BY <1>1, <1>4 DEF Git!Goes
  <1> QED BY <1>5, <1>6, GitOneCall

(* A version written to the index.                                          *)
LEMMA GitWrote ==
    ASSUME GitStored, NEW f, NEW g \in [Files -> Git!Versions],
           index' = [index EXCEPT ![f] = g[f]],
           UNCHANGED <<head, work, edits>>
    PROVE  GitStored'
  <1>1. CASE f \in Files BY <1>1 DEF GitStored
  <1>2. CASE f \notin Files
    <2>1. index' = index BY <1>2 DEF GitStored
    <2> QED BY <2>1 DEF GitStored
  <1> QED BY <1>1, <1>2

LEMMA GitCommandStep == ASSUME GitInv, NEW c \in Calls, Git!Command(c) PROVE GitInv'
  <1>a. GitPanelOK' BY DEF GitInv, GitPanelOK, Git!Command, Git!panel, GitLettered
  <1>b. call[c] # Git!Idle /\ GitUnderWay(call[c]) BY DEF GitInv, GitCallsOK, Git!Command
  <1>s. {"status", "commit", "failed", "done"} \subseteq Git!Steps BY DEF Git!Steps
  <1>1. CASE Git!Add(c)
    <2>1. GitStored' BY <1>1, GitWrote DEF Git!Add, GitInv, GitStored
    <2>2. GitCallsOK' /\ (call = [d \in Calls |-> call[d]])'
      BY <1>1, <1>b, <1>s, GitWent DEF Git!Add
    <2> QED BY <1>1, <1>a, <2>1, <2>2 DEF Git!Add, GitInv
  <1>2. CASE Git!Restore(c)
    <2>1. GitStored' BY <1>2, GitWrote DEF Git!Restore, GitInv, GitStored
    <2>2. GitCallsOK' /\ (call = [d \in Calls |-> call[d]])'
      BY <1>2, <1>b, <1>s, GitWent DEF Git!Restore
    <2> QED BY <1>2, <1>a, <2>1, <2>2 DEF Git!Restore, GitInv
  <1>3. CASE Git!ReadStatus(c)
    <2>1. PICK r : r = call[c] OBVIOUS
    <2>2. PICK now : now = Git!StatusNow OBVIOUS
    <2>3. GitLettered(now) BY <2>2, GitNowLettered DEF GitInv
    <2>4. PICK s : s = [op |-> r.op, step |-> "done", file |-> r.file, late |-> r.late, shows |-> now]
      OBVIOUS
    <2>5. GitUnderWay(r) BY <1>b, <2>1
    <2>a. PICK q : q = [r EXCEPT !.step = "done"] OBVIOUS
    <2>b. q = [op |-> r.op, step |-> "done", file |-> r.file, late |-> r.late, shows |-> r.shows]
      BY <2>5, <2>a DEF GitUnderWay
    <2>c. s = [q EXCEPT !.shows = now] BY <2>4, <2>b
    <2>6. s = [r EXCEPT !.step = "done", !.shows = now] BY <2>a, <2>c
    <2>7. call' = [call EXCEPT ![c] = s] BY <1>3, <2>1, <2>2, <2>6 DEF Git!ReadStatus
    <2>8. GitUnderWay(s) BY <2>3, <2>4, <2>5, <1>s DEF GitUnderWay
    <2>9. GitCallsOK' /\ (call = [d \in Calls |-> call[d]])' BY <2>7, <2>8, GitOneCall
    <2> QED BY <1>3, <1>a, <2>9 DEF Git!ReadStatus, GitInv, GitStored, Git!repository
  <1>4. CASE Git!Check(c)
    <2>1. PICK step \in Git!Steps : Git!Goes(c, step) BY <1>4, <1>s DEF Git!Check
    <2>2. GitCallsOK' /\ (call = [d \in Calls |-> call[d]])' BY <1>b, <2>1, GitWent
    <2> QED BY <1>4, <1>a, <2>2 DEF Git!Check, GitInv, GitStored, Git!repository
  <1>5. CASE Git!Commit(c)
    <2>1. PICK step \in Git!Steps : Git!Goes(c, step) BY <1>5, <1>s DEF Git!Commit
    <2>2. GitCallsOK' /\ (call = [d \in Calls |-> call[d]])' BY <1>b, <2>1, GitWent
    <2>3. GitStored' BY <1>5 DEF Git!Commit, GitInv, GitStored
    <2>4. committed' \subseteq Files BY <1>5 DEF Git!Commit
    <2> QED BY <1>a, <2>2, <2>3, <2>4 DEF GitInv
  <1>6. CASE Git!Diff(c)
    <2>1. GitCallsOK' /\ (call = [d \in Calls |-> call[d]])'
      BY <1>6, <1>b, <1>s, GitWent DEF Git!Diff
    <2> QED BY <1>6, <1>a, <2>1 DEF Git!Diff, GitInv, GitStored, Git!repository
  <1>7. CASE Git!Fails(c)
    <2>1. GitCallsOK' /\ (call = [d \in Calls |-> call[d]])'
      BY <1>7, <1>b, <1>s, GitWent DEF Git!Fails
    <2> QED BY <1>7, <1>a, <2>1 DEF Git!Fails, GitInv, GitStored, Git!repository
  <1> QED BY <1>1, <1>2, <1>3, <1>4, <1>5, <1>6, <1>7 DEF Git!Command

LEMMA GitAnswerStep == ASSUME GitInv, NEW c \in Calls, Git!Answer(c) PROVE GitInv'
  <1>1. GitUnderWay(call[c]) BY DEF GitInv, GitCallsOK, Git!Answer
  <1>2. PICK r : call' = [call EXCEPT ![c] = r] /\
             (r = Git!Idle \/ r = Git!Asked("status", "status", Git!NoFile, call[c].late))
    BY DEF Git!Answer
  <1>3. r = Git!Idle \/ GitUnderWay(r)
    <2>1. "status" \in Git!Steps BY DEF Git!Steps
    <2>2. call[c].late \in BOOLEAN BY <1>1 DEF GitUnderWay
    <2> QED BY <1>2, <2>1, <2>2, GitNewCall
  <1>4. GitCallsOK' /\ (call = [d \in Calls |-> call[d]])' BY <1>2, <1>3, GitOneCall
  <1>5. status' \in {call[c].shows, status} BY DEF Git!Answer
  <1>6. GitLettered(status') BY <1>1, <1>5 DEF GitInv, GitPanelOK, GitUnderWay
  <1>7. \/ diff' = call[c].file /\ selected' = call[c].file /\ foreign' = call[c].late
        \/ diff' = call[c].file /\ selected' = selected /\ call[c].late /\ foreign' = call[c].late
        \/ diff' = diff /\ selected' = selected /\ foreign' = foreign
    <2>1. CASE call[c].op = "diff" /\ call[c].step = "done" BY <2>1 DEF Git!Answer
    <2>2. CASE ~(call[c].op = "diff" /\ call[c].step = "done") BY <2>2 DEF Git!Answer
    <2> QED BY <2>1, <2>2
  <1>8. message' \in BOOLEAN /\ viewing' = viewing BY DEF Git!Answer
  <1>9. GitPanelOK'
    <2>1. call[c].late \in BOOLEAN /\ call[c].file \in Files \union {Git!NoFile}
      BY <1>1 DEF GitUnderWay
    <2> QED BY <1>6, <1>7, <1>8, <2>1 DEF GitInv, GitPanelOK
  <1> QED BY <1>4, <1>9 DEF Git!Answer, GitInv, GitStored, Git!repository

LEMMA GitBeginStep ==
    ASSUME GitInv, NEW op, op # "none", NEW step \in Git!Steps,
           NEW f \in Files \union {Git!NoFile},
           Git!Begin(op, step, f), GitPanelOK'
    PROVE  GitInv'
  <1>1. PICK c \in Calls : call' = [call EXCEPT ![c] = Git!Asked(op, step, f, FALSE)]
    BY DEF Git!Begin
  <1>2. GitCallsOK' /\ (call = [d \in Calls |-> call[d]])' BY <1>1, GitNewCall, GitOneCall
  <1> QED BY <1>2 DEF Git!Begin, GitInv, GitStored, Git!repository

LEMMA GitPanelStays == ASSUME GitInv, UNCHANGED Git!panel PROVE GitPanelOK'
  BY DEF GitInv, GitPanelOK, GitLettered, Git!panel

(* The panel is closed: what is under way is late.                          *)
LEMMA GitCloseStep == ASSUME GitInv, Git!Close PROVE GitInv'
  <1>1. ASSUME NEW c \in Calls, call[c] # Git!Idle
        PROVE  GitUnderWay([call[c] EXCEPT !.late = TRUE])
    <2>1. PICK r : r = call[c] OBVIOUS
    <2>2. GitUnderWay(r) BY <1>1, <2>1 DEF GitInv, GitCallsOK
    <2>a. PICK late \in BOOLEAN : late = TRUE OBVIOUS
    <2>3. PICK s : s = [op |-> r.op, step |-> r.step, file |-> r.file, late |-> late, shows |-> r.shows]
      OBVIOUS
    <2>4. s = [r EXCEPT !.late = late] BY <2>2, <2>3 DEF GitUnderWay
    <2>5. GitUnderWay(s) BY <2>2, <2>3 DEF GitUnderWay
    <2> QED BY <2>1, <2>a, <2>4, <2>5, Zenon
  <1>2. call' = [c \in Calls |-> IF call[c] = Git!Idle THEN Git!Idle ELSE [call[c] EXCEPT !.late = TRUE]]
    BY DEF Git!Close
  <1>3. GitCallsOK' /\ (call = [d \in Calls |-> call[d]])' BY <1>1, <1>2 DEF GitCallsOK
  <1>4. GitPanelOK' BY DEF Git!Close, GitInv, GitPanelOK, GitLettered
  <1> QED BY <1>3, <1>4 DEF Git!Close, GitInv, GitStored, Git!repository

LEMMA GitStep == ASSUME GitInv, [Git!Next]_(Git!vars) PROVE GitInv'
  <1>s. {"status", "check", "add", "restore", "diff"} \subseteq Git!Steps BY DEF Git!Steps
  <1>1. CASE Git!RefreshStatus BY <1>1, <1>s, GitBeginStep, GitPanelStays DEF Git!RefreshStatus
  <1>2. CASE Git!HandleCommit BY <1>2, <1>s, GitBeginStep, GitPanelStays DEF Git!HandleCommit
  <1>3. CASE Git!Type
    BY <1>3 DEF Git!Type, GitInv, GitStored, GitCallsOK, GitPanelOK, Git!repository, Git!panel
  <1>4. ASSUME NEW f \in Files, Git!LoadDiff(f)
      PROVE GitInv'
        BY <1>4, <1>s, GitBeginStep, GitPanelStays DEF Git!LoadDiff
  <1>5. ASSUME NEW f \in Files, Git!ToggleStage(f)
      PROVE GitInv'
        BY <1>5, <1>s, GitBeginStep, GitPanelStays DEF Git!ToggleStage
  <1>6. ASSUME NEW f \in Files, Git!Edit(f) PROVE GitInv'
    BY <1>6 DEF Git!Edit, GitInv, GitStored, GitCallsOK, GitPanelOK, Git!panel
  <1>7. CASE UNCHANGED Git!vars
    BY <1>7 DEF Git!vars, GitInv, GitStored, GitCallsOK, GitPanelOK, Git!repository, Git!panel
  <1>8. CASE Git!Open
    <2>1. GitPanelOK' BY <1>8 DEF Git!Open, GitInv, GitPanelOK, GitLettered
    <2> QED BY <1>8, <1>s, <2>1, GitBeginStep DEF Git!Open
  <1> QED BY <1>1, <1>2, <1>3, <1>4, <1>5, <1>6, <1>7, <1>8, GitCloseStep, GitCommandStep, GitAnswerStep
      DEF Git!Next

LEMMA GitStart == ASSUME Git!Init PROVE GitInv
  <1>1. GitPanelOK BY GitNothingLettered DEF Git!Init, GitPanelOK
  <1>2. GitCallsOK /\ call = [c \in Calls |-> call[c]] BY DEF Git!Init, GitCallsOK
  <1> QED BY <1>1, <1>2 DEF Git!Init, GitInv, GitStored

LEMMA GitInvariance == Git!Spec => []GitInv
  <1>1. Git!Init => GitInv BY GitStart
  <1>2. GitInv /\ [Git!Next]_(Git!vars) => GitInv' BY GitStep
  <1> QED BY <1>1, <1>2, PTL DEF Git!Spec

LEMMA GitTypes == ASSUME GitInv PROVE Git!TypeOK
  <1>1. \A c \in Calls : call[c] # Git!Idle
          => /\ call[c].step \in Git!Steps /\ call[c].file \in Files \union {Git!NoFile}
             /\ call[c].late \in BOOLEAN
    BY DEF GitInv, GitCallsOK, GitUnderWay
  <1> QED BY <1>1 DEF GitInv, GitStored, GitPanelOK, GitLettered, Git!TypeOK

LEMMA GitShows == Git!Spec => [](Git!TypeOK /\ Git!DiffIsOfItsHeader)
  <1>1. GitInv => Git!TypeOK /\ Git!DiffIsOfItsHeader
    BY GitTypes DEF GitInv, GitPanelOK, Git!DiffIsOfItsHeader
  <1> QED BY <1>1, GitInvariance, PTL

(***************************************************************************)
(* Explorer.tla                                                            *)
(***************************************************************************)

ExplorerListable == (SUBSET Names) \union {Missing}

(* A call about d that was served and whose answer the page will take, and  *)
(* a listing of d that is still to be served.                               *)
ExplorerTells(c, d) ==
    /\ c.waits /\ c.dir = d /\ c.op # "root" /\ c.res # "asked"
    /\ c.op = "list" \/ c.res = "ok"
ExplorerToBeListed(c, d) == c.waits /\ c.dir = d /\ c.op = "list" /\ c.res = "asked"

(* What such a call knows of the directory.                                 *)
ExplorerSays(c, files) ==
    /\ c.op = "list" /\ c.res = "ok" => c.entries = files
    /\ c.op = "list" /\ c.res # "ok" => files = Missing
    /\ c.op = "deleteDir" => files = Missing

(* The latest of them says what the directory holds.                        *)
ExplorerLatestSays ==
    \A d \in Explorer!Dirs \ stale : \A i \in DOMAIN lists :
        ExplorerTells(lists[i], d) /\ (\A j \in DOMAIN lists : j > i => ~ExplorerTells(lists[j], d))
            => ExplorerSays(lists[i], folders[root][d])

(* When there is none, and none is to come, the tree shows it.              *)
ExplorerTreeSays ==
    \A d \in Explorer!Dirs \ stale :
        /\ \A i \in DOMAIN lists : ~ExplorerTells(lists[i], d) /\ ~ExplorerToBeListed(lists[i], d)
        /\ tree[d].known
        /\ ~tree[d].error
        /\ ~(d = Explorer!Top /\ emptied)
        /\ folders[root][d] # Missing
        => tree[d].entries = folders[root][d]

ExplorerServedFirst ==
    \A i, j \in DOMAIN lists : i < j /\ lists[i].res = "asked" => lists[j].res = "asked"

ExplorerKept == /\ folders \in [Roots -> [Explorer!Dirs -> ExplorerListable]] /\ root \in Roots
                     /\ top \in Roots
                /\ tree \in [Explorer!Dirs -> Explorer!Listings]
                /\ stale \subseteq Explorer!Dirs
                /\ emptied \in BOOLEAN

ExplorerUnder == lists \in Seq(Explorer!TreeCalls) /\ Len(lists) <= MaxCalls

ExplorerInv ==
    ExplorerKept /\ ExplorerUnder /\ turns \in 0..MaxTurns /\ ExplorerServedFirst
      /\ ExplorerLatestSays /\ ExplorerTreeSays

LEMMA ExplorerTypes == ASSUME ExplorerInv PROVE Explorer!TypeOK
  BY DEF ExplorerInv, ExplorerKept, ExplorerUnder, Explorer!TypeOK, ExplorerListable

LEMMA ExplorerSomeOfEach ==
    ASSUME Explorer!ExplorerAssumption
    PROVE  Explorer!SomeRoot \in Roots /\ Explorer!SomeName \in Names
  BY DEF Explorer!ExplorerAssumption, Explorer!SomeRoot, Explorer!SomeName

LEMMA ExplorerStarts == ASSUME Explorer!ExplorerAssumption, Explorer!Init PROVE ExplorerInv
  <1>1. Explorer!SomeRoot \in Roots BY ExplorerSomeOfEach
  <1>2. Explorer!Unknown \in Explorer!Listings BY DEF Explorer!Unknown, Explorer!Listings
  <1>3. Names \in ExplorerListable BY DEF ExplorerListable
  <1>4. folders \in [Roots -> [Explorer!Dirs -> ExplorerListable]] BY <1>3 DEF Explorer!Init
  <1>5. tree \in [Explorer!Dirs -> Explorer!Listings] /\ \A d \in Explorer!Dirs : ~tree[d].known
    BY <1>2 DEF Explorer!Init, Explorer!Unknown
  <1>6. ExplorerKept BY <1>1, <1>4, <1>5 DEF Explorer!Init, ExplorerKept
  <1>7. ExplorerUnder /\ turns \in 0..MaxTurns
    BY DEF Explorer!Init, ExplorerUnder, Explorer!ExplorerAssumption
  <1>8. lists = <<>> BY DEF Explorer!Init
  <1>9. DOMAIN lists = {} BY <1>8
  <1> QED BY <1>5, <1>6, <1>7, <1>9
      DEF ExplorerInv, ExplorerServedFirst, ExplorerLatestSays, ExplorerTreeSays

LEMMA ExplorerMade ==
    ASSUME Explorer!ExplorerAssumption, NEW op \in Explorer!Ops, NEW d \in Explorer!Dirs,
           NEW n \in Names \union Refused,
           NEW m \in Names \union Refused, NEW r \in Roots
    PROVE  Explorer!Call(op, d, n, m, r) \in Explorer!TreeCalls
  BY DEF Explorer!Call, Explorer!TreeCalls

(* A call that is added is still to be served: it tells nothing yet.        *)
LEMMA ExplorerAdded ==
    ASSUME Explorer!ExplorerAssumption, ExplorerUnder, ExplorerServedFirst,
           NEW c \in Explorer!TreeCalls, c.res = "asked",
           Len(lists) < MaxCalls, lists' = Append(lists, c)
    PROVE  /\ ExplorerUnder' /\ ExplorerServedFirst'
           /\ Len(lists') = Len(lists) + 1 /\ lists'[Len(lists')] = c
           /\ \A i \in DOMAIN lists : lists'[i] = lists[i] /\ i \in DOMAIN lists'
           /\ \A i \in DOMAIN lists' : i \in DOMAIN lists \/ i = Len(lists')
  <1>1. /\ Len(lists') = Len(lists) + 1 /\ lists'[Len(lists')] = c
        /\ \A i \in DOMAIN lists : lists'[i] = lists[i] /\ i \in DOMAIN lists'
        /\ \A i \in DOMAIN lists' : i \in DOMAIN lists \/ i = Len(lists')
    <2>1. lists \in Seq(Explorer!TreeCalls) BY DEF ExplorerUnder
    <2>2. Len(lists) \in Nat /\ DOMAIN lists = 1..Len(lists) BY <2>1
    <2>3. Len(lists') = Len(lists) + 1 /\ DOMAIN lists' = 1..(Len(lists) + 1) BY <2>1
    <2>4. \A i \in 1..Len(lists) : lists'[i] = lists[i] BY <2>1
    <2>5. lists'[Len(lists) + 1] = c BY <2>1
    <2> QED BY <2>2, <2>3, <2>4, <2>5
  <1>2. ExplorerUnder'
    <2>1. Len(lists) \in Nat /\ MaxCalls \in Nat
      BY DEF ExplorerUnder, Explorer!ExplorerAssumption
    <2>2. lists' \in Seq(Explorer!TreeCalls) BY DEF ExplorerUnder
    <2> QED BY <1>1, <2>1, <2>2 DEF ExplorerUnder
  <1>3. ExplorerServedFirst' BY <1>1 DEF ExplorerServedFirst, ExplorerUnder
  <1> QED BY <1>1, <1>2, <1>3

(* What a step says of the calls that tell of d: those of a call added.     *)
LEMMA ExplorerAddedSays ==
    ASSUME Explorer!ExplorerAssumption, ExplorerInv, NEW c \in Explorer!TreeCalls,
           c.res = "asked", Len(lists) < MaxCalls,
           lists' = Append(lists, c), UNCHANGED <<folders, root, stale>>
    PROVE  ExplorerLatestSays'
  <1>1. /\ \A i \in DOMAIN lists : lists'[i] = lists[i] /\ i \in DOMAIN lists'
        /\ \A i \in DOMAIN lists' : i \in DOMAIN lists \/ (i = Len(lists') /\ lists'[i] = c)
    BY ExplorerAdded DEF ExplorerInv
  <1>2. \A d : ~ExplorerTells(c, d) BY DEF ExplorerTells
  <1> SUFFICES ASSUME NEW d \in Explorer!Dirs \ stale, NEW i \in DOMAIN lists',
                      ExplorerTells(lists'[i], d),
                      \A j \in DOMAIN lists' : j > i => ~ExplorerTells(lists'[j], d)
               PROVE  ExplorerSays(lists'[i], folders[root][d])
    BY DEF ExplorerLatestSays
  <1>3. i \in DOMAIN lists /\ lists'[i] = lists[i] BY <1>1, <1>2
  <1>4. \A j \in DOMAIN lists : j > i => ~ExplorerTells(lists[j], d) BY <1>1
  <1> QED BY <1>3, <1>4 DEF ExplorerInv, ExplorerLatestSays

LEMMA ExplorerLoadingTypes ==
    ASSUME tree \in [Explorer!Dirs -> Explorer!Listings], NEW d \in Explorer!Dirs
    PROVE  /\ Explorer!Loading(d, tree[d].entries) \in [Explorer!Dirs -> Explorer!Listings]
           /\ \A e \in Explorer!Dirs : e # d => Explorer!Loading(d, tree[d].entries)[e] = tree[e]
           /\ tree[d] \in Explorer!Listings
  <1>1. tree[d] \in Explorer!Listings OBVIOUS
  <1>2. [known |-> TRUE, entries |-> tree[d].entries, loading |-> TRUE,
          error |-> tree[d].error] \in Explorer!Listings
    BY <1>1 DEF Explorer!Listings
  <1> QED BY <1>1, <1>2 DEF Explorer!Loading

(* A directory that is listed again: nothing is said of it until it is.     *)
LEMMA ExplorerBrowseStep ==
    ASSUME Explorer!ExplorerAssumption, ExplorerInv, NEW d \in Explorer!Dirs, Explorer!Browse(d)
    PROVE  ExplorerInv'
  <1>i. ExplorerKept /\ ExplorerUnder /\ ExplorerServedFirst /\ ExplorerTreeSays
    BY DEF ExplorerInv
  <1>1. /\ Len(lists) < MaxCalls
        /\ lists' = Append(lists, Explorer!List(d))
        /\ tree' = Explorer!Loading(d, tree[d].entries)
        /\ UNCHANGED <<folders, root, top, turns, stale, emptied>>
    BY DEF Explorer!Browse, Explorer!LoadDir
  <1>2. /\ Explorer!List(d) \in Explorer!TreeCalls
        /\ Explorer!List(d).res = "asked"
        /\ Explorer!List(d).waits
        /\ Explorer!List(d).dir = d
        /\ Explorer!List(d).op = "list"
    <2>1. "list" \in Explorer!Ops BY DEF Explorer!Ops
    <2>2. Explorer!List(d) \in Explorer!TreeCalls
      BY <1>i, <2>1, ExplorerMade, ExplorerSomeOfEach DEF Explorer!List, ExplorerKept
    <2> QED BY <2>2 DEF Explorer!List, Explorer!Call
  <1>3. ExplorerUnder' /\ ExplorerServedFirst' /\ ExplorerLatestSays'
    BY <1>1, <1>2, <1>i, ExplorerAdded, ExplorerAddedSays
  <1>4. ExplorerKept' BY <1>1, <1>i, ExplorerLoadingTypes DEF ExplorerKept
  <1>5. ExplorerTreeSays'
    <2>1. ExplorerToBeListed(lists'[Len(lists')], d) /\ Len(lists') \in DOMAIN lists'
      BY <1>1, <1>2, <1>i, ExplorerAdded DEF ExplorerToBeListed, ExplorerUnder
    <2>2. \A e \in Explorer!Dirs : e # d => tree'[e] = tree[e]
      BY <1>1, <1>i, ExplorerLoadingTypes DEF ExplorerKept
    <2>3. \A i \in DOMAIN lists : lists'[i] = lists[i] /\ i \in DOMAIN lists'
      BY <1>1, <1>2, <1>i, ExplorerAdded
    <2> QED BY <1>1, <1>i, <2>1, <2>2, <2>3 DEF ExplorerTreeSays
  <1> QED BY <1>1, <1>3, <1>4, <1>5 DEF ExplorerInv

LEMMA ExplorerAskStep ==
    ASSUME Explorer!ExplorerAssumption, ExplorerInv, NEW c \in Explorer!TreeCalls,
           c.res = "asked", Explorer!Turn,
           Len(lists) < MaxCalls, lists' = Append(lists, c),
           UNCHANGED <<folders, root, top, tree, stale, emptied>>
    PROVE  ExplorerInv'
  <1>i. ExplorerKept /\ ExplorerUnder /\ ExplorerServedFirst /\ ExplorerTreeSays
    BY DEF ExplorerInv
  <1>1. ExplorerUnder' /\ ExplorerServedFirst' /\ ExplorerLatestSays'
    BY <1>i, ExplorerAdded, ExplorerAddedSays
  <1>2. ExplorerKept' BY <1>i DEF ExplorerKept
  <1>3. turns' \in 0..MaxTurns BY DEF ExplorerInv, Explorer!Turn, Explorer!ExplorerAssumption
  <1>4. ExplorerTreeSays'
    <2>1. \A i \in DOMAIN lists : lists'[i] = lists[i] /\ i \in DOMAIN lists'
      BY <1>i, ExplorerAdded
    <2> QED BY <1>i, <2>1 DEF ExplorerTreeSays
  <1> QED BY <1>1, <1>2, <1>3, <1>4 DEF ExplorerInv

(* The first call that waits to be served is the last that tells anything.  *)
LEMMA ExplorerServeStep ==
    ASSUME Explorer!ExplorerAssumption, ExplorerInv, Explorer!Serve
    PROVE  ExplorerInv'
  <1>i. ExplorerKept /\ ExplorerUnder /\ ExplorerServedFirst /\ ExplorerLatestSays
          /\ ExplorerTreeSays /\ turns \in 0..MaxTurns
    BY DEF ExplorerInv
  <1>1. PICK i \in DOMAIN lists :
          LET c     == lists[i]
              files == folders[root][c.dir]
              ok    == Explorer!Allowed(c, files)
          IN /\ c.res = "asked" /\ \A j \in 1..(i - 1) : lists[j].res # "asked"
             /\ lists' = [lists EXCEPT ![i].res = IF ok THEN "ok" ELSE "failed",
                                       ![i].entries = IF ok /\ c.op = "list"
                                                      THEN files ELSE {}]
             /\ folders' = IF ok THEN [folders EXCEPT ![root][c.dir] = Explorer!Changed(c, files)]
                  ELSE folders
             /\ root' = IF c.op = "root" THEN c.root ELSE root
             /\ stale' = IF c.op = "root" /\ c.root # root THEN Explorer!Dirs
                         ELSE CASE c.op = "list" /\ c.waits  -> stale \ {c.dir}
                                [] c.op # "list" /\ ~c.waits -> stale \union {c.dir}
                                [] OTHER                     -> stale
             /\ UNCHANGED <<top, tree, turns, emptied>>
    BY DEF Explorer!Serve
  <1> DEFINE c     == lists[i]
             files == folders[root][c.dir]
             ok    == Explorer!Allowed(c, files)
             n     == lists'[i]
  <1>2. c \in Explorer!TreeCalls BY <1>i DEF ExplorerUnder
  <1>3. /\ c.op \in Explorer!Ops
        /\ c.dir \in Explorer!Dirs
        /\ c.root \in Roots
        /\ c.waits \in BOOLEAN
        /\ c.name \in Names \union Refused /\ c.to \in Names \union Refused
    BY <1>2 DEF Explorer!TreeCalls
  <1>4. files \in ExplorerListable BY <1>i, <1>3 DEF ExplorerKept
  <1>5. PICK res \in {"ok", "failed"} : res = IF ok THEN "ok" ELSE "failed" OBVIOUS
  <1>6. PICK got \in SUBSET Names : got = IF ok /\ c.op = "list" THEN files ELSE {}
    <2>1. ok /\ c.op = "list" => files # Missing BY DEF Explorer!Allowed
    <2> HIDE DEF ok, files
    <2> QED BY <1>4, <2>1 DEF ExplorerListable
  <1>7. c.res = "asked" /\ \A j \in 1..(i - 1) : lists[j].res # "asked" BY <1>1
  <1>8. /\ DOMAIN lists' = DOMAIN lists
        /\ Len(lists') = Len(lists)
        /\ lists' \in Seq(Explorer!TreeCalls)
        /\ \A j \in DOMAIN lists : j # i => lists'[j] = lists[j]
        /\ n.op = c.op /\ n.dir = c.dir /\ n.waits = c.waits /\ n.res = res /\ n.entries = got
    <2> DEFINE new == [[c EXCEPT !.res = res] EXCEPT !.entries = got]
    <2>1. lists' = [lists EXCEPT ![i] = new]
      BY <1>1, <1>5, <1>6, <1>i DEF ExplorerUnder
    <2>2. new \in Explorer!TreeCalls /\ new.op = c.op /\ new.dir = c.dir /\ new.waits = c.waits
          /\ new.res = res /\ new.entries = got
      BY <1>2 DEF Explorer!TreeCalls
    <2> HIDE DEF new
    <2>3. lists \in Seq(Explorer!TreeCalls) BY <1>i DEF ExplorerUnder
    <2>4. DOMAIN lists' = DOMAIN lists /\ Len(lists') = Len(lists) BY <2>1, <2>3
    <2>n. new \in Explorer!TreeCalls BY <2>2
    <2>5. lists' \in Seq(Explorer!TreeCalls) BY <2>1, <2>n, <2>3
    <2>6. lists'[i] = new /\ \A j \in DOMAIN lists : j # i => lists'[j] = lists[j] BY <2>1, <2>3
    <2> QED BY <2>2, <2>4, <2>5, <2>6
  <1>9. /\ folders' = IF ok THEN [folders EXCEPT ![root][c.dir] = Explorer!Changed(c, files)] ELSE folders
        /\ root' = IF c.op = "root" THEN c.root ELSE root
        /\ stale' = IF c.op = "root" /\ c.root # root THEN Explorer!Dirs
                    ELSE CASE c.op = "list" /\ c.waits  -> stale \ {c.dir}
                           [] c.op # "list" /\ ~c.waits -> stale \union {c.dir}
                           [] OTHER                     -> stale
        /\ UNCHANGED <<top, tree, turns, emptied>>
    BY <1>1
  <1>10. ok => Explorer!Changed(c, files) \in ExplorerListable
    <2> SUFFICES ASSUME ok PROVE Explorer!Changed(c, files) \in ExplorerListable OBVIOUS
    <2>1. CASE c.op = "create"
      BY <1>3, <1>4, <2>1 DEF Explorer!Allowed, Explorer!Changed, ExplorerListable
    <2>2. CASE c.op = "rename"
      BY <1>3, <1>4, <2>2 DEF Explorer!Allowed, Explorer!Changed, ExplorerListable
    <2>3. CASE c.op = "delete"
      BY <1>3, <1>4, <2>3 DEF Explorer!Allowed, Explorer!Changed, ExplorerListable
    <2>4. CASE c.op = "deleteDir" BY <2>4 DEF Explorer!Changed, ExplorerListable
    <2>5. CASE c.op \in {"list", "root"} BY <1>4, <2>5 DEF Explorer!Changed
    <2> QED BY <1>3, <2>1, <2>2, <2>3, <2>4, <2>5 DEF Explorer!Ops
  <1>11. c.op \in {"list", "root"} => Explorer!Changed(c, files) = files BY DEF Explorer!Changed
  <1>12. c.op = "deleteDir" => Explorer!Changed(c, files) = Missing BY DEF Explorer!Changed
  <1>13. c.op = "list" => (ok <=> files # Missing) BY DEF Explorer!Allowed
  <1>14. /\ folders' \in [Roots -> [Explorer!Dirs -> ExplorerListable]]
         /\ \A d \in Explorer!Dirs : d # c.dir => folders'[root][d] = folders[root][d]
         /\ ok => folders'[root][c.dir] = Explorer!Changed(c, files)
         /\ ~ok => folders' = folders
    <2> HIDE DEF ok, files
    <2>1. CASE ok
      <3>1. folders' = [folders EXCEPT ![root] = [folders[root] EXCEPT ![c.dir] = Explorer!Changed(c, files)]]
        BY <1>9, <2>1
      <3> QED BY <1>3, <1>10, <1>i, <2>1, <3>1 DEF ExplorerKept
    <2>2. CASE ~ok BY <1>9, <1>i, <2>2 DEF ExplorerKept
    <2> QED BY <2>1, <2>2
  <1>15. stale' \subseteq Explorer!Dirs /\ root' \in Roots BY <1>3, <1>9, <1>i DEF ExplorerKept
  <1>16. ExplorerKept' BY <1>9, <1>14, <1>15, <1>i DEF ExplorerKept
  <1>17. ExplorerUnder' BY <1>8, <1>i DEF ExplorerUnder
  <1>18. \A j \in DOMAIN lists : j > i => lists'[j].res = "asked"
    BY <1>7, <1>8, <1>i DEF ExplorerServedFirst
  <1>19. ExplorerServedFirst'
    <2> SUFFICES ASSUME NEW j \in DOMAIN lists, NEW k \in DOMAIN lists, j < k, lists'[j].res = "asked"
                 PROVE  lists'[k].res = "asked"
      BY <1>8 DEF ExplorerServedFirst
    <2>1. j \in 1..Len(lists) /\ k \in 1..Len(lists) /\ i \in 1..Len(lists)
      BY <1>i DEF ExplorerUnder
    <2>2. j > i
      <3>1. j # i BY <1>8, <1>5
      <3>2. ~(j < i) BY <1>7, <1>8, <2>1, <3>1
      <3> QED BY <2>1, <3>1, <3>2
    <2> QED BY <1>18, <2>1, <2>2
  <1>20. \A d \in Explorer!Dirs \ stale' :
            /\ root' = root
            /\ d \in Explorer!Dirs \ stale \/ (d = c.dir /\ c.op = "list" /\ c.waits)
            /\ d = c.dir /\ c.op # "root" => c.waits \/ c.op = "list"
    <2> HIDE DEF c
    <2>0. /\ root' = IF c.op = "root" THEN c.root ELSE root
          /\ stale' = IF c.op = "root" /\ c.root # root THEN Explorer!Dirs
                      ELSE CASE c.op = "list" /\ c.waits  -> stale \ {c.dir}
                             [] c.op # "list" /\ ~c.waits -> stale \union {c.dir}
                             [] OTHER                     -> stale
      BY <1>9
    <2>1. CASE c.op = "root" /\ c.root # root
      <3>1. stale' = Explorer!Dirs
        <4>1. c.op = "root" /\ c.root # root BY <2>1
        <4>2. c.op # "list" BY <4>1
        <4> QED BY <2>0, <4>1, <4>2
      <3> QED BY <3>1
    <2>2. CASE c.op = "root" /\ c.root = root
      <3>1. stale' \in {stale, stale \union {c.dir}} /\ root' = root BY <2>0, <2>2
      <3> QED BY <2>2, <3>1
    <2>3. CASE c.op = "list"
      <3>1. (stale' = stale \/ (c.waits /\ stale' = stale \ {c.dir})) /\ root' = root
        BY <2>0, <2>3
      <3> QED BY <2>3, <3>1
    <2>4. CASE c.op \notin {"list", "root"}
      <3>1. /\ ((c.waits /\ stale' = stale) \/ (~c.waits /\ stale' = stale \union {c.dir}))
            /\ root' = root
        BY <1>3, <2>0, <2>4
      <3> QED BY <2>4, <3>1
    <2> QED BY <2>1, <2>2, <2>3, <2>4
  <1>21. \A j \in DOMAIN lists : j > i => \A d : ~ExplorerTells(lists'[j], d)
    BY <1>18 DEF ExplorerTells
  <1>22. \A d : ~ExplorerTells(c, d) BY <1>7 DEF ExplorerTells
  <1>23. \A d \in Explorer!Dirs \ stale' : ~ExplorerTells(n, d) =>
            /\ d \notin stale /\ folders'[root][d] = folders[root][d]
            /\ \A j \in DOMAIN lists : ExplorerTells(lists'[j], d) <=> ExplorerTells(lists[j], d)
            /\ \A j \in DOMAIN lists : ExplorerToBeListed(lists[j], d) => ExplorerToBeListed(lists'[j], d)
    <2> SUFFICES ASSUME NEW d \in Explorer!Dirs \ stale', ~ExplorerTells(n, d)
                 PROVE  /\ d \notin stale /\ folders'[root][d] = folders[root][d]
                        /\ \A j \in DOMAIN lists : ExplorerTells(lists'[j], d) <=> ExplorerTells(lists[j], d)
                        /\ \A j \in DOMAIN lists : ExplorerToBeListed(lists[j], d)
                             => ExplorerToBeListed(lists'[j], d)
      OBVIOUS
    <2>1. ~(d = c.dir /\ c.op = "list" /\ c.waits) BY <1>5, <1>8 DEF ExplorerTells
    <2>2. d \notin stale BY <1>20, <2>1
    <2>3. folders'[root][d] = folders[root][d]
      <3>1. CASE d # c.dir BY <1>14, <3>1
      <3>2. CASE d = c.dir /\ ~ok BY <1>14, <3>2
      <3>3. CASE d = c.dir /\ ok
        <4>1. c.op \in {"list", "root"}
          <5>1. res = "ok" BY <1>5, <3>3
          <5>2. ~(c.waits /\ c.op # "root") BY <1>8, <3>3, <5>1 DEF ExplorerTells
          <5> QED BY <1>20, <3>3, <5>2
        <4> QED BY <1>11, <1>14, <3>3, <4>1
      <3> QED BY <3>1, <3>2, <3>3
    <2>4. ASSUME NEW j \in DOMAIN lists
          PROVE  /\ ExplorerTells(lists'[j], d) <=> ExplorerTells(lists[j], d)
                 /\ ExplorerToBeListed(lists[j], d) => ExplorerToBeListed(lists'[j], d)
      <3>1. CASE j # i BY <1>8, <3>1
      <3>2. CASE j = i
        <4>1. ~ExplorerTells(lists[j], d) /\ ~ExplorerTells(lists'[j], d) BY <1>22, <3>2
        <4>2. ~ExplorerToBeListed(lists[j], d) BY <2>1, <3>2 DEF ExplorerToBeListed
        <4> QED BY <4>1, <4>2
      <3> QED BY <3>1, <3>2
    <2> QED BY <2>2, <2>3, <2>4
  <1>24. ExplorerLatestSays'
    <2> SUFFICES ASSUME NEW d \in Explorer!Dirs \ stale', NEW k \in DOMAIN lists,
                        ExplorerTells(lists'[k], d),
                        \A j \in DOMAIN lists : j > k => ~ExplorerTells(lists'[j], d)
                 PROVE  ExplorerSays(lists'[k], folders'[root'][d])
      BY <1>8 DEF ExplorerLatestSays
    <2>1. root' = root BY <1>20
    <2>2. CASE ~ExplorerTells(n, d)
      <3>1. lists'[k] = lists[k] BY <1>8, <2>2
      <3>2. d \in Explorer!Dirs \ stale /\ folders'[root][d] = folders[root][d] BY <1>23, <2>2
      <3>3. ExplorerTells(lists[k], d) /\ \A j \in DOMAIN lists : j > k => ~ExplorerTells(lists[j], d)
        BY <1>23, <2>2
      <3> QED BY <1>i, <2>1, <3>1, <3>2, <3>3 DEF ExplorerLatestSays
    <2>3. CASE ExplorerTells(n, d)
      <3>1. k = i
        <4>1. k \in 1..Len(lists) /\ i \in 1..Len(lists) BY <1>i DEF ExplorerUnder
        <4>2. ~(k > i) BY <1>21
        <4>3. ~(i > k) BY <2>3
        <4> QED BY <4>1, <4>2, <4>3
      <3>2. d = c.dir /\ c.op # "root" BY <1>8, <2>3 DEF ExplorerTells
      <3>3. n.op = "list" /\ n.res = "ok" => n.entries = folders'[root][d]
        <4>1. SUFFICES ASSUME n.op = "list", n.res = "ok"
            PROVE n.entries = folders'[root][d] OBVIOUS
        <4>2. ok /\ c.op = "list" BY <1>5, <1>8, <4>1
        <4>3. got = files BY <1>6, <4>2
        <4> QED BY <1>8, <1>11, <1>14, <3>2, <4>2, <4>3
      <3>4. n.op = "list" /\ n.res # "ok" => folders'[root][d] = Missing
        <4>1. SUFFICES ASSUME n.op = "list", n.res # "ok"
            PROVE folders'[root][d] = Missing OBVIOUS
        <4>2. ~ok /\ c.op = "list" BY <1>5, <1>8, <4>1
        <4> QED BY <1>13, <1>14, <3>2, <4>2
      <3>5. n.op = "deleteDir" => folders'[root][d] = Missing
        <4>1. SUFFICES ASSUME n.op = "deleteDir" PROVE folders'[root][d] = Missing OBVIOUS
        <4>2. n.res = "ok" BY <2>3, <4>1 DEF ExplorerTells
        <4>3. ok /\ c.op = "deleteDir" BY <1>5, <1>8, <4>1, <4>2
        <4> QED BY <1>12, <1>14, <3>2, <4>3
      <3> QED BY <2>1, <3>1, <3>3, <3>4, <3>5 DEF ExplorerSays
    <2> QED BY <2>2, <2>3
  <1>25. ExplorerTreeSays'
    <2> SUFFICES ASSUME NEW d \in Explorer!Dirs \ stale',
                        \A k \in DOMAIN lists : ~ExplorerTells(lists'[k], d)
                          /\ ~ExplorerToBeListed(lists'[k], d),
                        tree[d].known, ~tree[d].error, ~(d = Explorer!Top /\ emptied),
                        folders'[root'][d] # Missing
                 PROVE  tree[d].entries = folders'[root'][d]
      BY <1>8, <1>9 DEF ExplorerTreeSays
    <2>1. root' = root /\ ~ExplorerTells(n, d) BY <1>20
    <2>2. d \in Explorer!Dirs \ stale /\ folders'[root][d] = folders[root][d] BY <1>23, <2>1
    <2>3. \A k \in DOMAIN lists : ~ExplorerTells(lists[k], d) /\ ~ExplorerToBeListed(lists[k], d)
      BY <1>23, <2>1
    <2> QED BY <1>i, <2>1, <2>2, <2>3 DEF ExplorerTreeSays
  <1>26. turns' \in 0..MaxTurns BY <1>9, <1>i
  <1> QED BY <1>16, <1>17, <1>19, <1>24, <1>25, <1>26 DEF ExplorerInv

LEMMA ExplorerOthersStep ==
    ASSUME Explorer!ExplorerAssumption, ExplorerInv, NEW d \in Explorer!Dirs, NEW n \in Names,
           Explorer!OthersChange(d, n)
    PROVE  ExplorerInv'
  <1>i. ExplorerKept /\ ExplorerUnder /\ ExplorerServedFirst /\ ExplorerLatestSays
          /\ ExplorerTreeSays /\ turns \in 0..MaxTurns
    BY DEF ExplorerInv
  <1> DEFINE files == folders[root][d]
             new == IF n \in files THEN files \ {n} ELSE files \union {n}
  <1>1. /\ files # Missing
        /\ folders' = [folders EXCEPT ![root][d] = new]
        /\ stale' = stale \union {d}
        /\ Explorer!Turn /\ UNCHANGED <<root, lists, top, tree, emptied>>
    BY DEF Explorer!OthersChange
  <1>2. files \in ExplorerListable BY <1>i DEF ExplorerKept
  <1>3. new \in ExplorerListable BY <1>1, <1>2 DEF ExplorerListable
  <1> HIDE DEF files, new
  <1>4. folders' = [folders EXCEPT ![root] = [folders[root] EXCEPT ![d] = new]] BY <1>1
  <1>5. /\ folders' \in [Roots -> [Explorer!Dirs -> ExplorerListable]]
        /\ \A e \in Explorer!Dirs : e # d => folders'[root][e] = folders[root][e]
    BY <1>3, <1>4, <1>i DEF ExplorerKept
  <1>6. ExplorerKept' BY <1>1, <1>5, <1>i DEF ExplorerKept
  <1>7. turns' \in 0..MaxTurns BY <1>1, <1>i DEF Explorer!Turn, Explorer!ExplorerAssumption
  <1>8. \A e \in Explorer!Dirs \ stale' : e \in Explorer!Dirs \ stale /\ folders'[root'][e] = folders[root][e]
    BY <1>1, <1>5
  <1>9. ExplorerLatestSays' BY <1>1, <1>8, <1>i DEF ExplorerLatestSays
  <1>10. ExplorerTreeSays' BY <1>1, <1>8, <1>i DEF ExplorerTreeSays
  <1> QED BY <1>1, <1>6, <1>7, <1>9, <1>10, <1>i
      DEF ExplorerInv, ExplorerUnder, ExplorerServedFirst

LEMMA ExplorerGiveUpStep ==
    ASSUME Explorer!ExplorerAssumption, ExplorerInv, Explorer!GiveUp
    PROVE  ExplorerInv'
  <1>i. ExplorerKept /\ ExplorerUnder /\ ExplorerServedFirst /\ ExplorerLatestSays
          /\ ExplorerTreeSays /\ turns \in 0..MaxTurns
    BY DEF ExplorerInv
  <1>1. PICK i \in DOMAIN lists :
           LET c == lists[i]
           IN /\ c.waits /\ \A j \in 1..(i - 1) : ~lists[j].waits
              /\ lists' = [lists EXCEPT ![i].waits = FALSE]
              /\ tree' = IF c.op = "list" THEN [tree EXCEPT ![c.dir] = Explorer!Failed(c.dir)] ELSE tree
              /\ stale' = stale \union IF c.op = "root" THEN Explorer!Dirs ELSE {c.dir}
              /\ emptied' = (emptied /\ ~(c.op = "list" /\ c.dir = Explorer!Top))
    BY DEF Explorer!GiveUp
  <1>2. UNCHANGED <<folders, root, turns, top>> BY DEF Explorer!GiveUp
  <1> DEFINE c == lists[i]
  <1>3. c \in Explorer!TreeCalls /\ c.dir \in Explorer!Dirs
    <2>1. c \in Explorer!TreeCalls BY <1>i DEF ExplorerUnder
    <2> QED BY <2>1 DEF Explorer!TreeCalls
  <1>4. /\ DOMAIN lists' = DOMAIN lists
        /\ Len(lists') = Len(lists)
        /\ lists' \in Seq(Explorer!TreeCalls)
        /\ \A j \in DOMAIN lists : j # i => lists'[j] = lists[j]
        /\ \A j \in DOMAIN lists : lists'[j].res = lists[j].res
        /\ lists'[i].waits = FALSE
    <2> DEFINE new == [c EXCEPT !.waits = FALSE]
    <2>1. lists' = [lists EXCEPT ![i] = new] BY <1>1
    <2>2. new \in Explorer!TreeCalls /\ new.res = c.res /\ new.waits = FALSE
      BY <1>3 DEF Explorer!TreeCalls
    <2> HIDE DEF new
    <2>3. lists \in Seq(Explorer!TreeCalls) BY <1>i DEF ExplorerUnder
    <2>4. DOMAIN lists' = DOMAIN lists /\ Len(lists') = Len(lists) BY <2>1, <2>3
    <2>n. new \in Explorer!TreeCalls BY <2>2
    <2>5. lists' \in Seq(Explorer!TreeCalls) BY <2>1, <2>n, <2>3
    <2>6. lists'[i] = new /\ \A j \in DOMAIN lists : j # i => lists'[j] = lists[j] BY <2>1, <2>3
    <2> QED BY <2>2, <2>4, <2>5, <2>6
  <1>5. /\ tree' \in [Explorer!Dirs -> Explorer!Listings]
        /\ \A d \in Explorer!Dirs : d # c.dir => tree'[d] = tree[d]
    <2>1. tree[c.dir] \in Explorer!Listings BY <1>3, <1>i DEF ExplorerKept
    <2>2. Explorer!Failed(c.dir) \in Explorer!Listings
      BY <2>1 DEF Explorer!Failed, Explorer!Listings
    <2> QED BY <1>1, <1>i, <2>2 DEF ExplorerKept
  <1>6. stale' \subseteq Explorer!Dirs /\ c.dir \in stale' /\ stale \subseteq stale'
    BY <1>1, <1>3, <1>i DEF ExplorerKept
  <1>7. emptied' \in BOOLEAN /\ (c.dir # Explorer!Top => emptied' = emptied)
    BY <1>1, <1>i DEF ExplorerKept
  <1>8. ExplorerKept' BY <1>2, <1>5, <1>6, <1>7, <1>i DEF ExplorerKept
  <1>9. ExplorerUnder' BY <1>4, <1>i DEF ExplorerUnder
  <1>10. ExplorerServedFirst' BY <1>4, <1>i DEF ExplorerServedFirst
  <1>11. \A d \in Explorer!Dirs \ stale' : d \in Explorer!Dirs \ stale /\ d # c.dir BY <1>6
  <1>12. \A d \in Explorer!Dirs \ stale' : \A j \in DOMAIN lists :
            /\ ExplorerTells(lists'[j], d) <=> ExplorerTells(lists[j], d)
            /\ ExplorerToBeListed(lists'[j], d) <=> ExplorerToBeListed(lists[j], d)
            /\ ExplorerTells(lists[j], d) => lists'[j] = lists[j]
    <2> SUFFICES ASSUME NEW d \in Explorer!Dirs \ stale', NEW j \in DOMAIN lists
                 PROVE  /\ ExplorerTells(lists'[j], d) <=> ExplorerTells(lists[j], d)
                        /\ ExplorerToBeListed(lists'[j], d) <=> ExplorerToBeListed(lists[j], d)
                        /\ ExplorerTells(lists[j], d) => lists'[j] = lists[j]
      OBVIOUS
    <2>1. CASE j # i BY <1>4, <2>1
    <2>2. CASE j = i BY <1>4, <1>11, <2>2 DEF ExplorerTells, ExplorerToBeListed
    <2> QED BY <2>1, <2>2
  <1>13. ExplorerLatestSays'
    <2> SUFFICES ASSUME NEW d \in Explorer!Dirs \ stale', NEW k \in DOMAIN lists,
                        ExplorerTells(lists'[k], d),
                        \A j \in DOMAIN lists : j > k => ~ExplorerTells(lists'[j], d)
                 PROVE  ExplorerSays(lists'[k], folders[root][d])
      BY <1>2, <1>4 DEF ExplorerLatestSays
    <2> QED BY <1>11, <1>12, <1>i DEF ExplorerLatestSays
  <1>14. ExplorerTreeSays'
    <2> SUFFICES ASSUME NEW d \in Explorer!Dirs \ stale',
                        \A k \in DOMAIN lists : ~ExplorerTells(lists'[k], d)
                          /\ ~ExplorerToBeListed(lists'[k], d),
                        tree'[d].known, ~tree'[d].error, ~(d = Explorer!Top /\ emptied'),
                        folders[root][d] # Missing
                 PROVE  tree'[d].entries = folders[root][d]
      BY <1>2, <1>4 DEF ExplorerTreeSays
    <2>1. tree'[d] = tree[d] /\ ~(d = Explorer!Top /\ emptied) BY <1>5, <1>7, <1>11
    <2> QED BY <1>11, <1>12, <1>i, <2>1 DEF ExplorerTreeSays
  <1> QED BY <1>2, <1>8, <1>9, <1>10, <1>13, <1>14, <1>i DEF ExplorerInv

(* The first answer is taken: the others move up.                           *)
LEMMA ExplorerTaken ==
    ASSUME ExplorerInv, lists # <<>>
    PROVE  /\ Head(lists) = lists[1] /\ 1 \in DOMAIN lists /\ Head(lists) \in Explorer!TreeCalls
           /\ Tail(lists) \in Seq(Explorer!TreeCalls) /\ Len(Tail(lists)) = Len(lists) - 1
           /\ Len(lists) \in Nat /\ Len(lists) <= MaxCalls /\ DOMAIN lists = 1..Len(lists)
           /\ DOMAIN Tail(lists) = 1..(Len(lists) - 1)
           /\ \A i \in 1..(Len(lists) - 1) : Tail(lists)[i] = lists[i + 1]
  <1>1. lists \in Seq(Explorer!TreeCalls) /\ Len(lists) <= MaxCalls
    BY DEF ExplorerInv, ExplorerUnder
  <1>2. Len(lists) \in Nat /\ Len(lists) >= 1 /\ DOMAIN lists = 1..Len(lists) BY <1>1
  <1>3. Head(lists) = lists[1] /\ Head(lists) \in Explorer!TreeCalls BY <1>1, <1>2
  <1>4. Tail(lists) \in Seq(Explorer!TreeCalls) /\ Len(Tail(lists)) = Len(lists) - 1 BY <1>1
  <1>5. DOMAIN Tail(lists) = 1..(Len(lists) - 1) BY <1>4
  <1>6. \A i \in 1..(Len(lists) - 1) : Tail(lists)[i] = lists[i + 1] BY <1>1, <1>2
  <1> QED BY <1>1, <1>2, <1>3, <1>4, <1>5, <1>6

(* What the answer leaves: the calls that follow it, and one more to be     *)
(* served if it asks for one.                                               *)
ExplorerLeaves(rest) ==
    lists' = rest \/ \E c \in Explorer!TreeCalls : c.res = "asked" /\ lists' = Append(rest, c)

LEMMA ExplorerLeftOver ==
    ASSUME Explorer!ExplorerAssumption, ExplorerInv, lists # <<>>, ExplorerLeaves(Tail(lists)),
           UNCHANGED <<folders, root, stale>>
    PROVE  /\ ExplorerUnder' /\ ExplorerServedFirst' /\ ExplorerLatestSays'
           /\ \A i \in DOMAIN lists : i # 1 => i - 1 \in DOMAIN lists' /\ lists'[i - 1] = lists[i]
  <1>i. ExplorerServedFirst /\ ExplorerLatestSays BY DEF ExplorerInv
  <1> DEFINE rest == Tail(lists)
  <1>1. /\ rest \in Seq(Explorer!TreeCalls) /\ Len(rest) = Len(lists) - 1
        /\ Len(lists) \in Nat /\ Len(lists) <= MaxCalls /\ DOMAIN lists = 1..Len(lists)
        /\ DOMAIN rest = 1..(Len(lists) - 1)
        /\ \A i \in 1..(Len(lists) - 1) : rest[i] = lists[i + 1]
        /\ 1 \in DOMAIN lists
    BY ExplorerTaken
  <1>0. MaxCalls \in Nat BY DEF Explorer!ExplorerAssumption
  <1>2. /\ lists' \in Seq(Explorer!TreeCalls) /\ Len(lists') <= MaxCalls 
        /\ Len(lists') = Len(lists) - 1 \/ Len(lists') = Len(lists)
        /\ DOMAIN lists' = 1..Len(lists')
        /\ \A i \in 1..(Len(lists) - 1) : lists'[i] = rest[i]
        /\ Len(lists') = Len(lists) => lists'[Len(lists)].res = "asked"
    <2> HIDE DEF rest
    <2>1. CASE lists' = rest
      <3>1. DOMAIN lists' = 1..Len(lists') /\ Len(lists') = Len(lists) - 1 BY <1>1, <2>1
      <3>2. Len(lists') # Len(lists) BY <1>1, <3>1
      <3>3. Len(lists') <= MaxCalls BY <1>0, <1>1, <3>1
      <3> QED BY <1>1, <2>1, <3>1, <3>2, <3>3
    <2>2. CASE \E c \in Explorer!TreeCalls : c.res = "asked" /\ lists' = Append(rest, c)
      <3>1. PICK c \in Explorer!TreeCalls : c.res = "asked" /\ lists' = Append(rest, c) BY <2>2
      <3>2. lists' \in Seq(Explorer!TreeCalls) BY <1>1, <3>1
      <3>3. Len(lists') = Len(rest) + 1 BY <1>1, <3>1
      <3>4. Len(lists') = Len(lists) BY <1>1, <3>3
      <3>5. \A i \in 1..Len(rest) : lists'[i] = rest[i] BY <1>1, <3>1
      <3>6. lists'[Len(rest) + 1] = c BY <1>1, <3>1
      <3>7. Len(rest) + 1 = Len(lists) BY <1>1
      <3> QED BY <1>1, <3>1, <3>2, <3>4, <3>5, <3>6, <3>7
    <2> QED BY <2>1, <2>2 DEF ExplorerLeaves, rest
  <1> HIDE DEF rest
  <1>l. /\ Len(lists) \in Nat
        /\ Len(lists') \in Nat
        /\ DOMAIN lists' = 1..Len(lists')
        /\ DOMAIN lists = 1..Len(lists)
        /\ Len(lists') = Len(lists) - 1 \/ Len(lists') = Len(lists)
    <2>1. lists' \in Seq(Explorer!TreeCalls) BY <1>2
    <2>2. Len(lists') \in Nat BY <2>1
    <2>3. Len(lists) \in Nat /\ DOMAIN lists = 1..Len(lists) BY <1>1
    <2>4. DOMAIN lists' = 1..Len(lists') BY <1>2
    <2>5. Len(lists') = Len(lists) - 1 \/ Len(lists') = Len(lists) BY <1>2
    <2> QED BY <2>2, <2>3, <2>4, <2>5
  <1>n. PICK n \in Nat : n = Len(lists) BY <1>l
  <1>m. PICK m \in Nat : m = Len(lists') BY <1>l
  <1>d. DOMAIN lists' = 1..m /\ DOMAIN lists = 1..n /\ (m = n - 1 \/ m = n) BY <1>l, <1>n, <1>m
  <1>3. \A i \in DOMAIN lists : i # 1 => i - 1 \in DOMAIN lists' /\ lists'[i - 1] = lists[i]
    <2> SUFFICES ASSUME NEW i \in 1..Len(lists), i # 1
                 PROVE  i - 1 \in DOMAIN lists' /\ lists'[i - 1] = lists[i]
      BY <1>1
    <2>1. i - 1 \in 1..(Len(lists) - 1) /\ (i - 1) + 1 = i BY <1>1
    <2>2. rest[i - 1] = lists[i] BY <1>1, <2>1
    <2>3. i - 1 \in 1..m BY <1>n, <1>d
    <2>4. i - 1 \in DOMAIN lists' BY <1>d, <2>3
    <2> QED BY <1>2, <2>1, <2>2, <2>4
  <1>4. \A i \in DOMAIN lists' : lists'[i].res = "asked"
          \/ (i + 1 \in DOMAIN lists /\ lists'[i] = lists[i + 1])
    <2> SUFFICES ASSUME NEW i \in 1..Len(lists'), lists'[i].res # "asked"
                 PROVE  i + 1 \in DOMAIN lists /\ lists'[i] = lists[i + 1]
      BY <1>2
    <2>1. i \in 1..(Len(lists) - 1)
      <3>1. ~(m = n /\ i = n) BY <1>2, <1>n, <1>m
      <3> QED BY <1>n, <1>m, <1>d, <3>1
    <2>2. i + 1 \in DOMAIN lists BY <1>1, <2>1
    <2> QED BY <1>1, <1>2, <2>1, <2>2
  <1>5. ExplorerUnder' BY <1>2 DEF ExplorerUnder
  <1>6. ExplorerServedFirst'
    <2> SUFFICES ASSUME NEW i \in DOMAIN lists', NEW j \in DOMAIN lists', i < j,
                        lists'[i].res = "asked", lists'[j].res # "asked"
                 PROVE  FALSE
      BY DEF ExplorerServedFirst
    <2>1. i \in 1..Len(lists') /\ j \in 1..Len(lists') BY <1>2
    <2>2. j + 1 \in DOMAIN lists /\ lists'[j] = lists[j + 1] BY <1>4
    <2>3. i \in 1..(Len(lists) - 1) /\ i + 1 \in DOMAIN lists /\ i + 1 < j + 1
      <3>1. i \in 1..m /\ j \in 1..m /\ j + 1 \in 1..n BY <1>d, <1>m, <2>1, <2>2
      <3>2. i \in 1..(n - 1) /\ i + 1 \in 1..n /\ i + 1 < j + 1 BY <3>1
      <3> QED BY <1>n, <1>d, <3>2
    <2>4. lists'[i] = lists[i + 1] BY <1>1, <1>2, <2>3
    <2> QED BY <1>i, <2>2, <2>3, <2>4 DEF ExplorerServedFirst
  <1>7. ExplorerLatestSays'
    <2> SUFFICES ASSUME NEW d \in Explorer!Dirs \ stale, NEW i \in DOMAIN lists',
                        ExplorerTells(lists'[i], d),
                        \A j \in DOMAIN lists' : j > i => ~ExplorerTells(lists'[j], d)
                 PROVE  ExplorerSays(lists'[i], folders[root][d])
      BY DEF ExplorerLatestSays
    <2>1. lists'[i].res # "asked" BY DEF ExplorerTells
    <2>2. i + 1 \in DOMAIN lists /\ lists'[i] = lists[i + 1] BY <1>4, <2>1
    <2>3. i \in 1..Len(lists') BY <1>2
    <2>4. ASSUME NEW j \in DOMAIN lists, j > i + 1 PROVE ~ExplorerTells(lists[j], d)
      <3>1. j \in 1..Len(lists) /\ j # 1 /\ j - 1 > i BY <1>1, <2>3, <2>4
      <3>2. j - 1 \in DOMAIN lists' /\ lists'[j - 1] = lists[j] BY <1>3, <3>1
      <3> QED BY <3>1, <3>2
    <2> QED BY <1>i, <2>2, <2>4 DEF ExplorerLatestSays
  <1> QED BY <1>3, <1>5, <1>6, <1>7

LEMMA ExplorerArriveStep ==
    ASSUME Explorer!ExplorerAssumption, ExplorerInv, Explorer!Arrive
    PROVE  ExplorerInv'
  <1>i. ExplorerKept /\ ExplorerUnder /\ ExplorerLatestSays /\ ExplorerTreeSays /\ turns \in 0..MaxTurns
    BY DEF ExplorerInv
  <1> DEFINE c == Head(lists)
             rest == Tail(lists)
  <1>1. /\ lists # <<>> /\ c.res # "asked" /\ UNCHANGED <<folders, root, turns, stale>>
        /\ CASE ~c.waits -> lists' = rest /\ UNCHANGED <<top, tree, emptied>>
             [] c.waits /\ c.op = "list" -> Explorer!ListArrives(c, rest)
             [] c.waits /\ c.op = "root" -> Explorer!RootArrives(c, rest)
             [] c.waits /\ c.op \notin {"list", "root"} -> Explorer!ChangeArrives(c, rest)
    BY DEF Explorer!Arrive
  <1>2. /\ c = lists[1] /\ 1 \in DOMAIN lists /\ c \in Explorer!TreeCalls
        /\ DOMAIN lists = 1..Len(lists) /\ Len(lists) \in Nat
    BY <1>1, ExplorerTaken
  <1>3. /\ c.op \in Explorer!Ops
        /\ c.dir \in Explorer!Dirs
        /\ c.root \in Roots
        /\ c.entries \in SUBSET Names
        /\ c.waits \in BOOLEAN /\ c.res \in {"ok", "failed"}
    BY <1>1, <1>2 DEF Explorer!TreeCalls
  <1> HIDE DEF c, rest
  <1>4. Explorer!Top \in Explorer!Dirs BY DEF Explorer!Dirs
  <1>5. /\ Explorer!Listed(c) \in Explorer!Listings
        /\ Explorer!Listed(c).entries = c.entries
        /\ [Explorer!Listed(c) EXCEPT !.loading = TRUE] \in Explorer!Listings
    BY <1>3 DEF Explorer!Listed, Explorer!Listings
  <1>6. \A d \in Explorer!Dirs : tree[d] \in Explorer!Listings
          /\ Explorer!Failed(d) \in Explorer!Listings /\ Explorer!Failed(d).error
    <2>1. \A d \in Explorer!Dirs : tree[d] \in Explorer!Listings BY <1>i DEF ExplorerKept
    <2> QED BY <2>1 DEF Explorer!Failed, Explorer!Listings
  (* What is left to show: the directories that no call is about.           *)
  <1>7. ASSUME ExplorerLeaves(rest), ExplorerKept',
               \A d \in Explorer!Dirs \ stale :
                  /\ \A i \in DOMAIN lists' : ~ExplorerTells(lists'[i], d)
                       /\ ~ExplorerToBeListed(lists'[i], d)
                  /\ tree'[d].known /\ ~tree'[d].error /\ ~(d = Explorer!Top /\ emptied')
                  => \/ ~ExplorerTells(c, d) /\ tree'[d] = tree[d] /\ emptied' = emptied
                     \/ ~ExplorerTells(c, d) /\ tree'[d] = tree[d] /\ d # Explorer!Top
                     \/ ExplorerTells(c, d) /\ c.op = "list" /\ c.res = "ok" /\ tree'[d].entries = c.entries
                     \/ ExplorerTells(c, d) /\ c.op = "deleteDir"
        PROVE  ExplorerInv'
    <2>1. /\ ExplorerUnder' /\ ExplorerServedFirst' /\ ExplorerLatestSays'
          /\ \A i \in DOMAIN lists : i # 1 => i - 1 \in DOMAIN lists' /\ lists'[i - 1] = lists[i]
      BY <1>1, <1>7, ExplorerLeftOver DEF rest
    <2>2. ExplorerTreeSays'
      <3> SUFFICES ASSUME NEW d \in Explorer!Dirs \ stale,
                          \A i \in DOMAIN lists' : ~ExplorerTells(lists'[i], d)
                            /\ ~ExplorerToBeListed(lists'[i], d),
                          tree'[d].known, ~tree'[d].error, ~(d = Explorer!Top /\ emptied'),
                          folders[root][d] # Missing
                   PROVE  tree'[d].entries = folders[root][d]
        BY <1>1 DEF ExplorerTreeSays
      <3>1. \A i \in DOMAIN lists : i # 1 => ~ExplorerTells(lists[i], d) /\ ~ExplorerToBeListed(lists[i], d)
        BY <2>1
      <3>2. CASE ~ExplorerTells(c, d)
        <4>1. ~ExplorerToBeListed(c, d) BY <1>1 DEF ExplorerToBeListed
        <4>2. \A i \in DOMAIN lists : ~ExplorerTells(lists[i], d) /\ ~ExplorerToBeListed(lists[i], d)
          BY <1>2, <3>1, <3>2, <4>1
        <4>3. tree'[d] = tree[d] /\ ~(d = Explorer!Top /\ emptied) BY <1>7, <3>2
        <4> QED BY <1>i, <4>2, <4>3 DEF ExplorerTreeSays
      <3>3. CASE ExplorerTells(c, d)
        <4>1. \A j \in DOMAIN lists : j > 1 => ~ExplorerTells(lists[j], d) BY <3>1
        <4>2. ExplorerSays(c, folders[root][d]) BY <1>i, <1>2, <3>3, <4>1 DEF ExplorerLatestSays
        <4>3. c.op # "deleteDir" BY <4>2 DEF ExplorerSays
        <4>4. c.op = "list" /\ c.res = "ok" /\ tree'[d].entries = c.entries BY <1>7, <3>3, <4>3
        <4> QED BY <4>2, <4>4 DEF ExplorerSays
      <3> QED BY <3>2, <3>3
    <2> QED BY <1>1, <1>7, <1>i, <2>1, <2>2 DEF ExplorerInv
  <1>8. CASE ~c.waits
    <2>1. lists' = rest /\ UNCHANGED <<top, tree, emptied>> BY <1>1, <1>8
    <2>2. ExplorerLeaves(rest) BY <2>1 DEF ExplorerLeaves
    <2>3. ExplorerKept' BY <1>1, <1>i, <2>1 DEF ExplorerKept
    <2>4. \A d : ~ExplorerTells(c, d) BY <1>8 DEF ExplorerTells
    <2> QED BY <1>7, <2>1, <2>2, <2>3, <2>4
  <1>9. CASE c.waits /\ c.op = "list"
    <2>1. /\ tree' = [tree EXCEPT ![c.dir] = IF c.res = "ok" THEN Explorer!Listed(c)
               ELSE Explorer!Failed(c.dir)]
          /\ lists' = rest /\ top' = top /\ emptied' = (emptied /\ c.dir # Explorer!Top)
      BY <1>1, <1>9 DEF Explorer!ListArrives
    <2>2. ExplorerLeaves(rest) BY <2>1 DEF ExplorerLeaves
    <2> DEFINE new == IF c.res = "ok" THEN Explorer!Listed(c) ELSE Explorer!Failed(c.dir)
    <2>3. new \in Explorer!Listings BY <1>3, <1>5, <1>6
    <2>4. ~new.error => c.res = "ok" /\ new.entries = c.entries BY <1>3, <1>5, <1>6
    <2> HIDE DEF new
    <2>5. /\ tree' \in [Explorer!Dirs -> Explorer!Listings] /\ tree'[c.dir] = new
          /\ \A d \in Explorer!Dirs : d # c.dir => tree'[d] = tree[d]
      BY <1>3, <1>i, <2>1, <2>3 DEF ExplorerKept, new
    <2>6. emptied' \in BOOLEAN BY <2>1
    <2>7. ExplorerKept' BY <1>1, <1>i, <2>1, <2>5, <2>6 DEF ExplorerKept
    <2>8. ASSUME NEW d \in Explorer!Dirs \ stale, ~tree'[d].error
          PROVE  \/ ~ExplorerTells(c, d) /\ tree'[d] = tree[d] /\ emptied' = emptied
                 \/ ~ExplorerTells(c, d) /\ tree'[d] = tree[d] /\ d # Explorer!Top
                 \/ ExplorerTells(c, d) /\ c.op = "list" /\ c.res = "ok" /\ tree'[d].entries = c.entries
      <3>1. CASE d = c.dir
        <4>1. c.res = "ok" /\ tree'[d].entries = c.entries BY <2>4, <2>5, <2>8, <3>1
        <4>2. ExplorerTells(c, d) BY <1>1, <1>9, <3>1 DEF ExplorerTells
        <4> QED BY <1>9, <4>1, <4>2
      <3>2. CASE d # c.dir
        <4>1. ~ExplorerTells(c, d) BY <3>2 DEF ExplorerTells
        <4>2. tree'[d] = tree[d] BY <2>5, <3>2
        <4>3. d = Explorer!Top => emptied' = emptied BY <1>i, <2>1, <3>2 DEF ExplorerKept
        <4> QED BY <4>1, <4>2, <4>3
      <3> QED BY <3>1, <3>2
    <2> QED BY <1>7, <2>2, <2>7, <2>8
  <1>10. CASE c.waits /\ c.op = "root"
    <2>1. Explorer!RootArrives(c, rest) BY <1>1, <1>10
    <2>2. top' = c.root /\ emptied' = TRUE BY <2>1 DEF Explorer!RootArrives
    <2>3. PICK new \in Explorer!Listings : tree' = [tree EXCEPT ![Explorer!Top] = new]
      BY <1>5, <2>1 DEF Explorer!RootArrives
    <2>4. /\ tree' \in [Explorer!Dirs -> Explorer!Listings]
          /\ \A d \in Explorer!Dirs : d # Explorer!Top => tree'[d] = tree[d]
      BY <1>4, <1>i, <2>3 DEF ExplorerKept
    <2>5. ExplorerKept' BY <1>1, <1>3, <1>i, <2>2, <2>4 DEF ExplorerKept
    <2>6. ExplorerLeaves(rest)
      <3>1. CASE c.root = top BY <2>1, <3>1 DEF Explorer!RootArrives, ExplorerLeaves
      <3>2. CASE c.root # top
        <4> DEFINE l == [Explorer!List(Explorer!Top) EXCEPT !.root = c.root]
        <4>1. lists' = Append(rest, l) BY <2>1, <3>2 DEF Explorer!RootArrives
        <4>2. /\ Explorer!List(Explorer!Top) \in Explorer!TreeCalls
              /\ Explorer!List(Explorer!Top).res = "asked"
          <5>1. "list" \in Explorer!Ops /\ Explorer!SomeName \in Names /\ top \in Roots
            BY <1>i, ExplorerSomeOfEach DEF Explorer!Ops, ExplorerKept
          <5>2. Explorer!List(Explorer!Top) \in Explorer!TreeCalls
            BY <1>4, <5>1, ExplorerMade DEF Explorer!List
          <5> QED BY <5>2 DEF Explorer!List, Explorer!Call
        <4>3. l \in Explorer!TreeCalls /\ l.res = "asked" BY <1>3, <4>2 DEF Explorer!TreeCalls
        <4> HIDE DEF l
        <4> QED BY <4>1, <4>3 DEF ExplorerLeaves
      <3> QED BY <3>1, <3>2
    <2>7. \A d : ~ExplorerTells(c, d) BY <1>10 DEF ExplorerTells
    <2> QED BY <1>7, <2>2, <2>4, <2>5, <2>6, <2>7
  <1>11. CASE c.waits /\ c.op \notin {"list", "root"}
    <2>1. Explorer!ChangeArrives(c, rest) BY <1>1, <1>11
    <2>2. UNCHANGED <<top, emptied>> BY <2>1 DEF Explorer!ChangeArrives
    <2>3. CASE c.res # "ok"
      <3>1. lists' = rest /\ tree' = tree BY <2>1, <2>3 DEF Explorer!ChangeArrives
      <3>2. ExplorerLeaves(rest) BY <3>1 DEF ExplorerLeaves
      <3>3. ExplorerKept' BY <1>1, <1>i, <2>2, <3>1 DEF ExplorerKept
      <3>4. \A d : ~ExplorerTells(c, d) BY <1>11, <2>3 DEF ExplorerTells
      <3> QED BY <1>7, <2>2, <3>1, <3>2, <3>3, <3>4
    <2>4. CASE c.res = "ok"
      <3> DEFINE d == IF c.op = "deleteDir" THEN Explorer!Top ELSE c.dir
      <3>1. /\ lists' = Append(rest, Explorer!List(d))
            /\ tree' = Explorer!Loading(d, tree[d].entries)
        BY <2>1, <2>4 DEF Explorer!ChangeArrives
      <3>2. d \in Explorer!Dirs /\ (d = c.dir \/ c.op = "deleteDir") BY <1>3, <1>4
      <3> HIDE DEF d
      <3>3. /\ Explorer!List(d) \in Explorer!TreeCalls
            /\ Explorer!List(d).res = "asked"
            /\ ExplorerToBeListed(Explorer!List(d), d)
        <4>1. "list" \in Explorer!Ops /\ Explorer!SomeName \in Names /\ top \in Roots
          BY <1>i, ExplorerSomeOfEach DEF Explorer!Ops, ExplorerKept
        <4>2. Explorer!List(d) \in Explorer!TreeCalls
          BY <3>2, <4>1, ExplorerMade DEF Explorer!List
        <4> QED BY <4>2 DEF Explorer!List, Explorer!Call, ExplorerToBeListed
      <3>4. ExplorerLeaves(rest) BY <3>1, <3>3 DEF ExplorerLeaves
      <3>5. /\ tree' \in [Explorer!Dirs -> Explorer!Listings]
            /\ \A e \in Explorer!Dirs : e # d => tree'[e] = tree[e]
        BY <1>i, <3>1, <3>2, ExplorerLoadingTypes DEF ExplorerKept
      <3>6. ExplorerKept' BY <1>1, <1>i, <2>2, <3>5 DEF ExplorerKept
      <3>7. \E i \in DOMAIN lists' : ExplorerToBeListed(lists'[i], d)
        <4>1. rest \in Seq(Explorer!TreeCalls) BY <1>1, ExplorerTaken DEF rest
        <4>2. Len(rest) + 1 \in DOMAIN lists' /\ lists'[Len(rest) + 1] = Explorer!List(d)
          BY <3>1, <3>3, <4>1
        <4> QED BY <3>3, <4>2
      <3>8. ASSUME NEW e \in Explorer!Dirs \ stale, \A i \in DOMAIN lists' : ~ExplorerToBeListed(lists'[i], e)
            PROVE  \/ ~ExplorerTells(c, e) /\ tree'[e] = tree[e] /\ emptied' = emptied
                   \/ ExplorerTells(c, e) /\ c.op = "deleteDir"
        <4>1. e # d BY <3>7, <3>8
        <4>2. tree'[e] = tree[e] BY <3>5, <4>1
        <4>3. ExplorerTells(c, e) => c.op = "deleteDir" BY <3>2, <4>1 DEF ExplorerTells
        <4> QED BY <2>2, <4>2, <4>3
      <3> QED BY <1>7, <3>4, <3>6, <3>8
    <2> QED BY <2>3, <2>4
  <1> QED BY <1>3, <1>8, <1>9, <1>10, <1>11

LEMMA ExplorerStep ==
    ASSUME Explorer!ExplorerAssumption, ExplorerInv, [Explorer!Next]_(Explorer!vars)
    PROVE  ExplorerInv'
  <1>s. Explorer!SomeName \in Names BY ExplorerSomeOfEach
  <1>1. ASSUME NEW op \in Explorer!Ops, NEW d \in Explorer!Dirs,
  NEW n \in Names \union Refused, NEW m \in Names \union Refused,
               Explorer!Change(op, d, n, m)
        PROVE  ExplorerInv'
    <2>1. /\ Explorer!Call(op, d, n, m, top) \in Explorer!TreeCalls
          /\ Explorer!Call(op, d, n, m, top).res = "asked"
      <3>1. top \in Roots BY DEF ExplorerInv, ExplorerKept
      <3>2. Explorer!Call(op, d, n, m, top) \in Explorer!TreeCalls BY <3>1, ExplorerMade
      <3> QED BY <3>2 DEF Explorer!Call
    <2>2. /\ Explorer!Turn
          /\ Len(lists) < MaxCalls
          /\ lists' = Append(lists, Explorer!Call(op, d, n, m, top))
          /\ UNCHANGED <<folders, root, top, tree, stale, emptied>>
      BY <1>1 DEF Explorer!Change
    <2> QED BY <2>1, <2>2, ExplorerAskStep
  <1>2. ASSUME NEW r \in Roots, Explorer!SetWorkspace(r) PROVE ExplorerInv'
    <2>1. Explorer!Call("root", Explorer!Top, Explorer!SomeName, Explorer!SomeName, r) \in Explorer!TreeCalls
          /\ Explorer!Call("root", Explorer!Top, Explorer!SomeName, Explorer!SomeName, r).res = "asked"
      <3>1. "root" \in Explorer!Ops /\ Explorer!Top \in Explorer!Dirs
        BY DEF Explorer!Ops, Explorer!Dirs
      <3>2. Explorer!Call("root", Explorer!Top, Explorer!SomeName, Explorer!SomeName,
              r) \in Explorer!TreeCalls
        BY <1>s, <3>1, ExplorerMade
      <3> QED BY <3>2 DEF Explorer!Call
    <2>2. /\ Explorer!Turn
          /\ Len(lists) < MaxCalls
          /\ lists' = Append(lists,
               Explorer!Call("root", Explorer!Top, Explorer!SomeName, Explorer!SomeName, r))
          /\ UNCHANGED <<folders, root, top, tree, stale, emptied>>
      BY <1>2 DEF Explorer!SetWorkspace
    <2> QED BY <2>1, <2>2, ExplorerAskStep
  <1>3. CASE UNCHANGED Explorer!vars
    BY <1>3
       DEF Explorer!vars, ExplorerInv, ExplorerKept, ExplorerUnder, ExplorerServedFirst,
           ExplorerLatestSays, ExplorerTreeSays
  <1>4. {"create", "rename", "delete", "deleteDir"} \subseteq Explorer!Ops /\ "sub" \in Explorer!Dirs
    BY DEF Explorer!Ops, Explorer!Dirs
  <1>5. CASE \E d \in Explorer!Dirs, n \in Names, m \in Names \union Refused :
                \/ Explorer!Change("create", d, m, n) \/ Explorer!Change("rename", d, n, m)
                     \/ Explorer!Change("delete", d, n, n)
    BY <1>1, <1>4, <1>5
  <1>6. CASE Explorer!Change("deleteDir", "sub", Explorer!SomeName, Explorer!SomeName)
    BY <1>1, <1>4, <1>6, <1>s
  <1>7. CASE \E d \in Explorer!Dirs : Explorer!Browse(d) \/ \E n \in Names : Explorer!OthersChange(d, n)
    BY <1>7, ExplorerBrowseStep, ExplorerOthersStep
  <1>8. CASE \E r \in Roots : Explorer!SetWorkspace(r) BY <1>2, <1>8
  <1> QED BY <1>3, <1>5, <1>6, <1>7, <1>8, ExplorerServeStep, ExplorerArriveStep,
      ExplorerGiveUpStep
      DEF Explorer!Next

LEMMA ExplorerInvariance ==
    ASSUME Explorer!ExplorerAssumption
    PROVE  Explorer!Spec => []ExplorerInv
  <1> QED BY ExplorerStarts, ExplorerStep, PTL DEF Explorer!Spec

(* With nothing under way, what the tree shows is what the directory holds. *)
LEMMA ExplorerShows == ASSUME ExplorerInv PROVE Explorer!TreeIsTheDisk
  <1> SUFFICES ASSUME lists = <<>> PROVE \A d \in Explorer!Dirs \ stale :
            tree[d].known /\ ~tree[d].error /\ ~(d = Explorer!Top /\ emptied) /\ folders[root][d] # Missing
                => tree[d].entries = folders[root][d]
    BY DEF Explorer!TreeIsTheDisk
  <1>1. DOMAIN lists = {} OBVIOUS
  <1> QED BY <1>1 DEF ExplorerInv, ExplorerTreeSays

(***************************************************************************)
(* Providers.tla                                                           *)
(***************************************************************************)

(* The list of providers: it is finite, and one that is enabled is found.   *)
ProvidersListOK ==
    /\ IsFiniteSet(Providers!ProviderNames)
    /\ <<"gemini", "claude">>[1] \in Providers!ProviderNames
    /\ \A S \in SUBSET Providers!ProviderNames : Providers!FirstOf(S) \in Providers!ProviderNames \union {NoChoice}

ProvidersOps == Providers!Changes \union {"status", "providers", "models", "run"}
ProvidersSays == [Providers!ProviderNames -> Providers!States]
ProvidersAsking == [op : ProvidersOps, of : Providers!ProviderNames,
                     with : Providers!Models \union {NoChoice},
                    answer : {"none", "failed", "ok"}, says : ProvidersSays, heard : BOOLEAN]
ListStates == {"unknown", "loading", "listed", "error"}

(* What is shown of the providers; before it is read, nothing that was asked *)
(* on the page is heard of.                                                  *)
ProvidersPanelOK ==
    \/ panel \in ProvidersSays
    \/ panel = NoChoice /\ \A r \in choices : r.op \in Providers!Changes => ~r.heard

(* What is under way, and that an answer which nobody hears is not kept.     *)
AskingOK == choices \subseteq ProvidersAsking /\ \A r \in choices : r.answer # "none" => r.heard

(* A list of models is asked for once.                                       *)
Known == {p \in Providers!ProviderNames : models[p] # "unknown"}
FewAsked == IsFiniteSet(choices) /\ Cardinality(choices) <= MaxRequests + Cardinality(Known)

ChoiceOK ==
    /\ enabled \subseteq Providers!ProviderNames
    /\ models \in [Providers!ProviderNames -> ListStates]
    /\ provider \in Providers!ProviderNames \union {NoChoice}
    /\ chosen \in Providers!Models \union {NoChoice}

ProvidersInv ==
    /\ credential \in ProvidersSays /\ AskingOK /\ FewAsked /\ ProvidersPanelOK /\ ChoiceOK
    /\ page \in {"settings", "coding"} /\ changes \in 0..MaxChanges /\ fellBack \in BOOLEAN
    /\ Providers!ModelOfItsProvider

(* The module counts what it holds as the library does.                     *)
LEMMA ProvidersAlike == \A s : Providers!Cardinality(s) = Cardinality(s)
  BY DEF Providers!Cardinality, Cardinality

(* Sets of requests, counted.                                                *)
LEMMA CountOf == \A S : IsFiniteSet(S) => Cardinality(S) \in Nat
  BY FS_CardinalityType

LEMMA KnownOnes ==
    ASSUME ProvidersListOK, ProvidersInv
    PROVE  Cardinality(Known) \in Nat /\ IsFiniteSet(Known)
  BY FS_Subset, CountOf DEF ProvidersListOK, Known

LEMMA NobodySays == Providers!Nobody \in ProvidersSays
  BY DEF Providers!Nobody, ProvidersSays, Providers!States

LEMMA ARequest ==
    ASSUME NEW op \in ProvidersOps, NEW p \in Providers!ProviderNames,
           NEW m \in Providers!Models \union {NoChoice}
    PROVE  /\ Providers!Request(op, p, m) \in ProvidersAsking
           /\ Providers!Request(op, p, m).op = op
           /\ Providers!Request(op, p, m).answer = "none" /\ Providers!Request(op, p, m).of = p
  <1>1. Providers!Nobody \in ProvidersSays BY NobodySays
  <1> QED BY <1>1 DEF Providers!Request, ProvidersAsking

(* One request less, and at most one instead of it.                          *)
LEMMA ProvidersOneLess ==
    ASSUME NEW S, IsFiniteSet(S), NEW r \in S, NEW T,
           T \in {S \ {r}} \union {(S \ {r}) \union {q} : q \in T}
    PROVE  IsFiniteSet(T) /\ Cardinality(T) <= Cardinality(S)
  <1>1. IsFiniteSet(S \ {r}) /\ Cardinality(S \ {r}) = Cardinality(S) - 1 BY FS_RemoveElement
  <1>2. Cardinality(S) \in Nat /\ Cardinality(S \ {r}) \in Nat BY <1>1, CountOf
  <1>3. CASE T = S \ {r} BY <1>1, <1>2, <1>3
  <1>4. ASSUME NEW q, T = (S \ {r}) \union {q}
      PROVE IsFiniteSet(T) /\ Cardinality(T) <= Cardinality(S)
    <2>1. IsFiniteSet((S \ {r}) \union {q}) /\ Cardinality((S \ {r}) \union {q}) \in
             {Cardinality(S \ {r}), Cardinality(S \ {r}) + 1}
      BY <1>1, FS_AddElement
    <2> QED BY <1>1, <1>2, <1>4, <2>1
  <1> QED BY <1>3, <1>4

LEMMA ProvidersOneMore ==
    ASSUME NEW S, IsFiniteSet(S), NEW q, NEW n \in Nat, Cardinality(S) < n
    PROVE  IsFiniteSet(S \union {q}) /\ Cardinality(S \union {q}) <= n
  <1>1. Cardinality(S) \in Nat BY CountOf
  <1>2. /\ IsFiniteSet(S \union {q})
        /\ Cardinality(S \union {q}) \in {Cardinality(S), Cardinality(S) + 1}
    BY FS_AddElement
  <1> QED BY <1>1, <1>2

(* What a request becomes keeps its type.                                    *)
LEMMA Became ==
    ASSUME Providers!ProvidersAssumption, ProvidersListOK, ProvidersInv, NEW r \in choices,
           NEW answer \in {"failed", "ok"}, NEW marks \in ProvidersSays,
           Providers!Answered(r, answer, marks)
    PROVE  /\ AskingOK'
           /\ (\A q \in choices : q.op \in Providers!Changes => ~q.heard) =>
                  \A q \in choices' : q.op \in Providers!Changes => ~q.heard
           /\ UNCHANGED models => FewAsked'
  <1>1. r \in ProvidersAsking BY DEF ProvidersInv, AskingOK
  <1>2. PICK s : s = [r EXCEPT !.answer = answer, !.says = marks] OBVIOUS
  <1>3. s \in ProvidersAsking /\ s.op = r.op /\ s.heard = r.heard
    BY <1>1, <1>2 DEF ProvidersAsking
  <1>4. choices' = (choices \ {r}) \union IF r.heard THEN {s} ELSE {}
    BY <1>2 DEF Providers!Answered
  <1>5. AskingOK' BY <1>3, <1>4 DEF ProvidersInv, AskingOK
  <1>6. (\A q \in choices : q.op \in Providers!Changes => ~q.heard) =>
           \A q \in choices' : q.op \in Providers!Changes => ~q.heard
    BY <1>3, <1>4
  <1>7. ASSUME UNCHANGED models PROVE FewAsked'
    <2>1. PICK T : T = choices' OBVIOUS
    <2>2. T = choices \ {r} \/ T = (choices \ {r}) \union {s} BY <1>4, <2>1
    <2>3. IsFiniteSet(choices) BY DEF ProvidersInv, FewAsked
    <2>4. IsFiniteSet(T) /\ Cardinality(T) <= Cardinality(choices)
      BY <2>2, <2>3, ProvidersOneLess
    <2>5. Known' = Known BY <1>7 DEF Known
    <2>6. Cardinality(choices) \in Nat /\ Cardinality(T) \in Nat BY <2>3, <2>4, CountOf
    <2>7. Cardinality(Known) \in Nat /\ MaxRequests \in Nat
      BY KnownOnes DEF Providers!ProvidersAssumption
    <2>8. Cardinality(choices) <= MaxRequests + Cardinality(Known) BY DEF ProvidersInv, FewAsked
    <2>9. Cardinality(T) <= MaxRequests + Cardinality(Known) BY <2>4, <2>6, <2>7, <2>8
    <2> QED BY <2>1, <2>4, <2>5, <2>9 DEF FewAsked
  <1> QED BY <1>5, <1>6, <1>7

(* A request is taken out.                                                   *)
LEMMA TakenOut ==
    ASSUME Providers!ProvidersAssumption, ProvidersListOK, ProvidersInv, NEW r \in choices,
           choices' = choices \ {r}
    PROVE  AskingOK' /\ (UNCHANGED models => FewAsked')
  <1>1. AskingOK' BY DEF ProvidersInv, AskingOK
  <1>2. ASSUME UNCHANGED models PROVE FewAsked'
    <2>1. IsFiniteSet(choices) /\ Cardinality(choices) \in Nat
      BY CountOf DEF ProvidersInv, FewAsked
    <2>2. IsFiniteSet(choices') /\ Cardinality(choices') = Cardinality(choices) - 1
      BY <2>1, FS_RemoveElement
    <2>3. Known' = Known BY <1>2 DEF Known
    <2>4. Cardinality(Known) \in Nat /\ MaxRequests \in Nat
      BY KnownOnes DEF Providers!ProvidersAssumption
    <2>5. Cardinality(choices) <= MaxRequests + Cardinality(Known) BY DEF ProvidersInv, FewAsked
    <2>6. Cardinality(choices') <= MaxRequests + Cardinality(Known) BY <2>1, <2>2, <2>4, <2>5
    <2> QED BY <2>2, <2>3, <2>6 DEF FewAsked
  <1> QED BY <1>1, <1>2

(* A page is left, and the other one asks for what it shows.                 *)
LEMMA LeftOnes ==
    ASSUME ProvidersListOK, ProvidersInv
    PROVE  /\ Providers!Left \subseteq ProvidersAsking
           /\ IsFiniteSet(Providers!Left)
           /\ Cardinality(Providers!Left) \in Nat
           /\ \A q \in Providers!Left : (q.answer # "none" => q.heard)
                /\ (q.op \in Providers!Changes => ~q.heard)
  <1> DEFINE answered == {q \in choices : q.answer = "none" \/ q.op = "models"}
             became == [r \in answered |-> [r EXCEPT !.heard = r.op = "models"]]
  <1>1. choices \subseteq ProvidersAsking /\ IsFiniteSet(choices)
    BY DEF ProvidersInv, AskingOK, FewAsked
  <1>2. IsFiniteSet(answered) BY <1>1, FS_Subset
  <1>3. ASSUME NEW r \in answered
        PROVE  /\ became[r] \in ProvidersAsking
               /\ became[r].op = r.op
               /\ became[r].answer = r.answer
               /\ became[r].heard = (r.op = "models")
    <2>1. r \in ProvidersAsking BY <1>1
    <2>2. PICK b \in BOOLEAN : b = (r.op = "models") OBVIOUS
    <2>3. PICK s : s = [r EXCEPT !.heard = b] OBVIOUS
    <2>4. s \in ProvidersAsking /\ s.op = r.op /\ s.answer = r.answer /\ s.heard = b
      BY <2>1, <2>3 DEF ProvidersAsking
    <2>5. became[r] = s BY <2>2, <2>3
    <2> QED BY <2>2, <2>4, <2>5
  <1>4. Providers!Left = {became[r] : r \in answered} BY DEF Providers!Left
  <1>5. became \in Surjection(answered, Providers!Left) BY <1>4 DEF Surjection
  <1>6. DOMAIN became = answered OBVIOUS
  <1> HIDE DEF became
  <1>7. IsFiniteSet(Providers!Left) BY <1>2, <1>5, FS_Surjection
  <1>8. \A q \in Providers!Left : \E r \in answered : q = became[r] BY <1>4
  <1>9. "models" \notin Providers!Changes BY DEF Providers!Changes
  <1>10. ASSUME NEW q \in Providers!Left
         PROVE  /\ q \in ProvidersAsking
                /\ (q.answer # "none" => q.heard)
                /\ (q.op \in Providers!Changes => ~q.heard)
    <2>1. PICK r \in answered : q = became[r] BY <1>8
    <2>2. r.answer = "none" \/ r.op = "models" BY <2>1
    <2>3. /\ q \in ProvidersAsking /\ q.op = r.op /\ q.answer = r.answer
          /\ q.heard = (r.op = "models")
      BY <1>3, <2>1
    <2> QED BY <1>9, <2>2, <2>3
  <1>11. Cardinality(Providers!Left) \in Nat BY <1>7, CountOf
  <1> QED BY <1>7, <1>10, <1>11

LEMMA PageIsLeft ==
    ASSUME Providers!ProvidersAssumption, ProvidersListOK, ProvidersInv,
           NEW op \in {"status", "providers"},
           Cardinality(Providers!Left) < MaxRequests, panel' = NoChoice,
           choices' = Providers!Left \union {Providers!Request(op, <<"gemini", "claude">>[1],
           NoChoice)}, UNCHANGED <<Providers!choice, credential, changes, fellBack>>,
           page' \in {"settings", "coding"}
    PROVE  ProvidersInv'
  <1>1. PICK q : q = Providers!Request(op, <<"gemini", "claude">>[1], NoChoice) OBVIOUS
  <1>2. q \in ProvidersAsking /\ q.answer = "none" /\ q.op = op
    BY <1>1, ARequest DEF ProvidersListOK, ProvidersOps
  <1>3. choices' = Providers!Left \union {q} BY <1>1
  <1>4. AskingOK' BY <1>2, <1>3, LeftOnes DEF AskingOK
  <1>5. op \notin Providers!Changes BY DEF Providers!Changes
  <1>6. ProvidersPanelOK' BY <1>2, <1>3, <1>5, LeftOnes DEF ProvidersPanelOK
  <1>7. FewAsked'
    <2>1. IsFiniteSet(choices') /\ Cardinality(choices') <= MaxRequests
      <3>1. MaxRequests \in Nat BY DEF Providers!ProvidersAssumption
      <3>2. IsFiniteSet(Providers!Left) /\ Cardinality(Providers!Left) < MaxRequests BY LeftOnes
      <3>3. PICK n \in Nat : n = MaxRequests BY <3>1
      <3>4. IsFiniteSet(Providers!Left \union {q}) /\ Cardinality(Providers!Left \union {q}) <= n
        BY <3>2, <3>3, ProvidersOneMore
      <3> QED BY <1>3, <3>3, <3>4
    <2>2. Cardinality(choices') \in Nat BY <2>1, CountOf
    <2>3. Known' = Known BY DEF Known, Providers!choice
    <2>4. Cardinality(Known) \in Nat /\ MaxRequests \in Nat
      BY KnownOnes DEF Providers!ProvidersAssumption
    <2>5. Cardinality(choices') <= MaxRequests + Cardinality(Known) BY <2>1, <2>2, <2>4
    <2> QED BY <2>1, <2>3, <2>5 DEF FewAsked
  <1>8. ChoiceOK' /\ Providers!ModelOfItsProvider'
    BY DEF ProvidersInv, ChoiceOK, Providers!choice, Providers!ModelOfItsProvider
  <1> QED BY <1>4, <1>6, <1>7, <1>8 DEF ProvidersInv

(* A request is sent from where there is room for it.                        *)
LEMMA Asked ==
    ASSUME Providers!ProvidersAssumption, ProvidersListOK, ProvidersInv,
           NEW q \in ProvidersAsking, q.answer = "none", Providers!Room,
           choices' = choices \union {q}, UNCHANGED models
    PROVE  AskingOK' /\ FewAsked'
  <1>1. AskingOK' BY DEF ProvidersInv, AskingOK
  <1>2. FewAsked'
    <2>1. IsFiniteSet(choices) /\ Cardinality(choices) < MaxRequests
      BY ProvidersAlike DEF ProvidersInv, FewAsked, Providers!Room
    <2>2. IsFiniteSet(choices') /\ Cardinality(choices') <= MaxRequests
      BY <2>1, ProvidersOneMore DEF Providers!ProvidersAssumption
    <2>3. Cardinality(choices') \in Nat BY <2>2, CountOf
    <2>4. Known' = Known BY DEF Known
    <2>5. Cardinality(Known) \in Nat /\ MaxRequests \in Nat
      BY KnownOnes DEF Providers!ProvidersAssumption
    <2>6. Cardinality(choices') <= MaxRequests + Cardinality(Known) BY <2>2, <2>3, <2>5
    <2> QED BY <2>2, <2>4, <2>6 DEF FewAsked
  <1> QED BY <1>1, <1>2

LEMMA ProvidersServeStep ==
    ASSUME Providers!ProvidersAssumption, ProvidersListOK, ProvidersInv, NEW r \in choices,
           Providers!Serve(r)
    PROVE  ProvidersInv'
  <1>1. r \in ProvidersAsking BY DEF ProvidersInv, AskingOK
  <1>2. credential' \in ProvidersSays
    <2>1. credential \in [Providers!ProviderNames -> Providers!States]
      BY DEF ProvidersInv, ProvidersSays
    <2>2. credential' \in {credential, Providers!Stored(r)} BY DEF Providers!Serve
    <2>3. Providers!Stored(r) \in [Providers!ProviderNames -> Providers!States]
      <3>1. r.of \in Providers!ProviderNames /\ r.op \in ProvidersOps
        BY <1>1 DEF ProvidersAsking
      <3>2. CASE r.op = "key" BY <2>1, <3>1, <3>2 DEF Providers!Stored, Providers!States
      <3>3. CASE r.op = "remove" BY <2>1, <3>1, <3>3 DEF Providers!Stored, Providers!States
      <3>4. CASE r.op \in {"on", "off"}
        BY <2>1, <3>1, <3>4 DEF Providers!Stored, Providers!States
      <3>5. CASE r.op \notin Providers!Changes
        BY <2>1, <3>1, <3>5 DEF Providers!Stored, Providers!Changes
      <3> QED BY <3>1, <3>2, <3>3, <3>4, <3>5 DEF ProvidersOps, Providers!Changes
    <2> QED BY <2>1, <2>2, <2>3 DEF ProvidersSays
  <1>3. Providers!Told(r) \in ProvidersSays
    <2>1. r.of \in Providers!ProviderNames /\ r.op \in ProvidersOps BY <1>1 DEF ProvidersAsking
    <2>2. PICK s \in Providers!States : s = credential'[r.of] BY <1>2, <2>1 DEF ProvidersSays
    <2>3. PICK n \in [Providers!ProviderNames -> Providers!States] : n = Providers!Nobody
      BY NobodySays DEF ProvidersSays
    <2>4. [n EXCEPT ![r.of] = s] \in [Providers!ProviderNames -> Providers!States] BY <2>2, <2>3
    <2>5. CASE r.op \in {"status", "providers"}
      BY <2>5 DEF Providers!Told, ProvidersInv, Providers!Changes
    <2>6. CASE r.op \in Providers!Changes
      <3>1. Providers!Told(r) = [n EXCEPT ![r.of] = s]
        BY <2>2, <2>3, <2>6 DEF Providers!Told, Providers!Changes
      <3> QED BY <2>4, <3>1 DEF ProvidersSays
    <2>7. CASE r.op \in {"models", "run"}
      BY <2>7, NobodySays DEF Providers!Told, Providers!Changes
    <2> QED BY <2>1, <2>5, <2>6, <2>7 DEF ProvidersOps
  <1>4. PICK answer \in {"failed", "ok"}, marks \in ProvidersSays : Providers!Answered(r, answer, marks)
    BY <1>3, NobodySays DEF Providers!Serve
  <1>5. UNCHANGED <<page, panel, enabled, models, provider, chosen, changes, fellBack>>
    BY DEF Providers!Serve, Providers!choice
  <1>6. /\ AskingOK' /\ FewAsked'
        /\ (\A q \in choices : q.op \in Providers!Changes => ~q.heard) =>
              \A q \in choices' : q.op \in Providers!Changes => ~q.heard
    BY <1>4, <1>5, Became
  <1>7. ProvidersPanelOK' BY <1>5, <1>6 DEF ProvidersInv, ProvidersPanelOK
  <1>8. ChoiceOK' /\ Providers!ModelOfItsProvider'
    BY <1>5 DEF ProvidersInv, ChoiceOK, Providers!ModelOfItsProvider
  <1> QED BY <1>2, <1>5, <1>6, <1>7, <1>8 DEF ProvidersInv

LEMMA FailStep ==
    ASSUME Providers!ProvidersAssumption, ProvidersListOK, ProvidersInv, NEW r \in choices,
           Providers!Fail(r)
    PROVE  ProvidersInv'
  <1>4. Providers!Answered(r, "failed", Providers!Nobody) /\ Providers!Nobody \in ProvidersSays
    BY NobodySays DEF Providers!Fail
  <1>5. UNCHANGED <<credential, page, panel, enabled, models, provider, chosen, changes, fellBack>>
    BY DEF Providers!Fail, Providers!choice
  <1>6. /\ AskingOK' /\ FewAsked'
        /\ (\A q \in choices : q.op \in Providers!Changes => ~q.heard) =>
              \A q \in choices' : q.op \in Providers!Changes => ~q.heard
    BY <1>4, <1>5, Became
  <1>7. ProvidersPanelOK' BY <1>5, <1>6 DEF ProvidersInv, ProvidersPanelOK
  <1>8. ChoiceOK' /\ Providers!ModelOfItsProvider'
    BY <1>5 DEF ProvidersInv, ChoiceOK, Providers!ModelOfItsProvider
  <1> QED BY <1>5, <1>6, <1>7, <1>8 DEF ProvidersInv

LEMMA ProvidersAskStep ==
    ASSUME Providers!ProvidersAssumption, ProvidersListOK, ProvidersInv,
           NEW op \in Providers!Changes, NEW p \in Providers!ProviderNames, Providers!Ask(op, p)
    PROVE  ProvidersInv'
  <1>1. PICK q : q = Providers!Request(op, p, NoChoice) OBVIOUS
  <1>2. q \in ProvidersAsking /\ q.answer = "none" BY <1>1, ARequest DEF ProvidersOps
  <1>3. Providers!Room /\ choices' = choices \union {q}
    BY <1>1 DEF Providers!Ask, Providers!Sent
  <1>4. UNCHANGED <<credential, page, enabled, models, provider, chosen, fellBack>>
    BY DEF Providers!Ask, Providers!choice
  <1>5. AskingOK' /\ FewAsked' BY <1>2, <1>3, <1>4, Asked
  <1>6. ProvidersPanelOK'
    <2>1. panel \in [Providers!ProviderNames -> Providers!States]
      BY DEF Providers!Ask, ProvidersInv, ProvidersPanelOK, ProvidersSays
    <2>2. panel' \in [Providers!ProviderNames -> Providers!States]
      <3>1. CASE op \in {"on", "off"} BY <2>1, <3>1 DEF Providers!Ask, Providers!States
      <3>2. CASE op \notin {"on", "off"} BY <2>1, <3>2 DEF Providers!Ask
      <3> QED BY <3>1, <3>2
    <2> QED BY <2>2 DEF ProvidersPanelOK, ProvidersSays
  <1>7. changes' \in 0..MaxChanges
    <2>1. changes < MaxChanges /\ changes' = changes + 1 BY DEF Providers!Ask
    <2> QED BY <2>1 DEF ProvidersInv, Providers!ProvidersAssumption
  <1>8. ChoiceOK' /\ Providers!ModelOfItsProvider'
    BY <1>4 DEF ProvidersInv, ChoiceOK, Providers!ModelOfItsProvider
  <1> QED BY <1>4, <1>5, <1>6, <1>7, <1>8 DEF ProvidersInv

LEMMA PanelStep ==
    ASSUME Providers!ProvidersAssumption, ProvidersListOK, ProvidersInv, NEW r \in choices,
        Providers!PanelAnswered(r)
        PROVE ProvidersInv'
  <1>1. r \in ProvidersAsking /\ r.heard BY DEF ProvidersInv, AskingOK, Providers!PanelAnswered
  <1>2. UNCHANGED <<credential, page, enabled, models, provider, chosen, changes, fellBack>>
    BY DEF Providers!PanelAnswered, Providers!choice
  <1>3. choices' = choices \ {r} BY DEF Providers!PanelAnswered
  <1>4. AskingOK' /\ FewAsked' BY <1>2, <1>3, TakenOut
  <1>5. ProvidersPanelOK'
    <2>1. CASE panel' = panel BY <1>3, <2>1 DEF ProvidersInv, ProvidersPanelOK
    <2>2. CASE panel' = r.says BY <1>1, <2>2 DEF ProvidersAsking, ProvidersPanelOK
    <2>3. CASE r.op \in Providers!Changes
      <3>1. panel \in [Providers!ProviderNames -> Providers!States]
        BY <1>1, <2>3 DEF ProvidersInv, ProvidersPanelOK, ProvidersSays
      <3>2. r.of \in Providers!ProviderNames /\ r.says \in [Providers!ProviderNames -> Providers!States]
        BY <1>1 DEF ProvidersAsking, ProvidersSays
      <3>3. r.op # "status" BY <2>3 DEF Providers!Changes
      <3>4. PICK s \in Providers!States : panel' \in {panel, [panel EXCEPT ![r.of] = s]}
        <4>1. r.says[r.of] \in Providers!States BY <3>2
        <4>2. Providers!Other(r.op) \in Providers!States
          BY DEF Providers!Other, Providers!States
        <4>3. panel' \in {panel, [panel EXCEPT ![r.of] = r.says[r.of]],
                [panel EXCEPT ![r.of] = Providers!Other(r.op)]}
          BY <3>3 DEF Providers!PanelAnswered
        <4> QED BY <4>1, <4>2, <4>3
      <3>5. panel' \in [Providers!ProviderNames -> Providers!States] BY <3>1, <3>2, <3>4
      <3> QED BY <3>5 DEF ProvidersPanelOK, ProvidersSays
    <2>4. CASE r.op \notin Providers!Changes
      <3>1. r.op = "status" /\ r.op \notin {"on", "off"}
        BY <2>4 DEF Providers!PanelAnswered, Providers!Changes
      <3>2. panel' \in {panel, r.says} BY <2>4, <3>1 DEF Providers!PanelAnswered
      <3> QED BY <2>1, <2>2, <3>2
    <2> QED BY <2>3, <2>4
  <1>8. ChoiceOK' /\ Providers!ModelOfItsProvider'
    BY <1>2 DEF ProvidersInv, ChoiceOK, Providers!ModelOfItsProvider
  <1> QED BY <1>2, <1>4, <1>5, <1>8 DEF ProvidersInv

(* The providers are known, and the lists of those that are enabled are      *)
(* asked for.                                                                *)
LEMMA ListStep ==
    ASSUME Providers!ProvidersAssumption, ProvidersListOK, ProvidersInv, NEW r \in choices,
        Providers!ProvidersAnswered(r)
        PROVE ProvidersInv'
  <1>0. r \in ProvidersAsking BY DEF ProvidersInv, AskingOK
  <1>1. UNCHANGED <<credential, page, panel, chosen, changes>>
    BY DEF Providers!ProvidersAnswered
  <1>2. CASE r.answer # "ok"
    <2>1. choices' = choices \ {r} /\ UNCHANGED <<enabled, provider, fellBack, models>>
      BY <1>2 DEF Providers!ProvidersAnswered
    <2>2. AskingOK' /\ FewAsked' BY <2>1, TakenOut
    <2>3. ProvidersPanelOK' BY <1>1, <2>1 DEF ProvidersInv, ProvidersPanelOK
    <2>4. ChoiceOK' /\ Providers!ModelOfItsProvider'
      BY <1>1, <2>1 DEF ProvidersInv, ChoiceOK, Providers!ModelOfItsProvider
    <2> QED BY <1>1, <2>1, <2>2, <2>3, <2>4 DEF ProvidersInv
  <1>3. CASE r.answer = "ok"
    <2> DEFINE new == {p \in Providers!ProviderNames : r.says[p] = "on" /\ models[p] = "unknown"}
               listings == {Providers!Request("models", p, NoChoice) : p \in new}
               ask == [p \in new |-> Providers!Request("models", p, NoChoice)]
    <2>1. /\ enabled' = {p \in Providers!ProviderNames : r.says[p] = "on"}
          /\ provider' = IF provider \in enabled' THEN provider ELSE Providers!FirstOf(enabled')
          /\ fellBack' = (fellBack \/ (provider' # provider /\ chosen # NoChoice))
          /\ models' = [p \in Providers!ProviderNames |-> IF p \in new THEN "loading" ELSE models[p]]
          /\ choices' = (choices \ {r}) \union listings
      BY <1>3 DEF Providers!ProvidersAnswered
    <2>2. \A q \in listings : q \in ProvidersAsking /\ q.answer = "none" /\ q.op = "models"
      BY ARequest DEF ProvidersOps
    <2>3. ask \in Surjection(new, listings) BY DEF Surjection
    <2>4. \A p \in new : p \in Providers!ProviderNames /\ models[p] = "unknown" OBVIOUS
    <2>5. new \subseteq Providers!ProviderNames OBVIOUS
    <2> HIDE DEF new, listings, ask
    <2>6. IsFiniteSet(new) /\ IsFiniteSet(Known)
      BY <2>5, FS_Subset, KnownOnes DEF ProvidersListOK
    <2>7. IsFiniteSet(listings) /\ Cardinality(listings) <= Cardinality(new)
      BY <2>3, <2>6, FS_Surjection
    <2>8. Known' = Known \union new /\ Known \cap new = {}
      BY <2>1, <2>4, <2>5 DEF Known
    <2>9. Cardinality(Known') = Cardinality(Known) + Cardinality(new)
      <3>1. Cardinality(Known \cap new) = 0 BY <2>8, FS_EmptySet
      <3>2. Cardinality(Known \union new) = Cardinality(Known) + Cardinality(new) - Cardinality(Known \cap new)
        BY <2>6, FS_Union
      <3>3. Cardinality(Known) \in Nat /\ Cardinality(new) \in Nat BY <2>6, CountOf
      <3> QED BY <2>8, <3>1, <3>2, <3>3
    <2>10. FewAsked'
      <3>1. IsFiniteSet(choices) /\ Cardinality(choices) <= MaxRequests + Cardinality(Known)
        BY DEF ProvidersInv, FewAsked
      <3>2. IsFiniteSet(choices \ {r}) /\ Cardinality(choices \ {r}) = Cardinality(choices) - 1
        BY <3>1, FS_RemoveElement
      <3>3. IsFiniteSet(choices') /\ Cardinality(choices') =
               Cardinality(choices \ {r}) + Cardinality(listings) - Cardinality((choices \ {r}) \cap listings)
        BY <2>1, <2>7, <3>2, FS_Union
      <3>4. IsFiniteSet((choices \ {r}) \cap listings) BY <3>2, FS_Intersection
      <3>5. /\ Cardinality(choices) \in Nat /\ Cardinality(choices \ {r}) \in Nat
            /\ Cardinality(listings) \in Nat
            /\ Cardinality((choices \ {r}) \cap listings) \in Nat
            /\ Cardinality(Known) \in Nat /\ Cardinality(new) \in Nat
        BY <2>6, <2>7, <3>1, <3>2, <3>4, CountOf
      <3>6. MaxRequests \in Nat BY DEF Providers!ProvidersAssumption
      <3>7. Cardinality(choices') <= MaxRequests + Cardinality(Known')
        BY <2>7, <2>9, <3>1, <3>2, <3>3, <3>5, <3>6
      <3> QED BY <3>3, <3>7 DEF FewAsked
    <2>11. AskingOK' BY <2>1, <2>2 DEF ProvidersInv, AskingOK
    <2>12. "models" \notin Providers!Changes BY DEF Providers!Changes
    <2>13. ProvidersPanelOK' BY <1>1, <2>1, <2>2, <2>12 DEF ProvidersInv, ProvidersPanelOK
    <2>14. enabled' \subseteq Providers!ProviderNames BY <2>1
    <2>15. provider' \in Providers!ProviderNames \union {NoChoice}
      BY <2>1, <2>14 DEF ProvidersListOK, ProvidersInv, ChoiceOK
    <2>16. models' \in [Providers!ProviderNames -> ListStates]
      BY <2>1 DEF ProvidersInv, ChoiceOK, ListStates
    <2>17. ChoiceOK' BY <1>1, <2>14, <2>15, <2>16 DEF ProvidersInv, ChoiceOK
    <2>18. fellBack' \in BOOLEAN BY <2>1 DEF ProvidersInv
    <2>19. Providers!ModelOfItsProvider'
      BY <1>1, <2>1 DEF ProvidersInv, Providers!ModelOfItsProvider
    <2> QED BY <1>1, <2>10, <2>11, <2>13, <2>17, <2>18, <2>19 DEF ProvidersInv
  <1> QED BY <1>2, <1>3

LEMMA ModelsStep ==
    ASSUME Providers!ProvidersAssumption, ProvidersListOK, ProvidersInv, NEW r \in choices,
        Providers!ModelsAnswered(r)
        PROVE ProvidersInv'
  <1>0. r \in ProvidersAsking /\ r.of \in Providers!ProviderNames
    BY DEF ProvidersInv, AskingOK, ProvidersAsking
  <1>1. UNCHANGED <<credential, page, panel, enabled, provider, changes, fellBack>>
    BY DEF Providers!ModelsAnswered
  <1>2. choices' = choices \ {r} BY DEF Providers!ModelsAnswered
  <1>3. PICK s \in {"listed", "error"} : models' = [models EXCEPT ![r.of] = s]
    BY DEF Providers!ModelsAnswered
  <1>4. models' \in [Providers!ProviderNames -> ListStates]
    BY <1>0, <1>3 DEF ProvidersInv, ChoiceOK, ListStates
  <1>5. AskingOK' BY <1>2, TakenOut
  <1>6. FewAsked'
    <2>1. Known \subseteq Known' BY <1>0, <1>3 DEF Known, ProvidersInv, ChoiceOK
    <2>2. IsFiniteSet(Known') /\ Known' \subseteq Providers!ProviderNames
      BY FS_Subset DEF Known, ProvidersListOK
    <2>3. Cardinality(Known) <= Cardinality(Known') BY <2>1, <2>2, FS_Subset
    <2>4. IsFiniteSet(choices) /\ Cardinality(choices) <= MaxRequests + Cardinality(Known)
      BY DEF ProvidersInv, FewAsked
    <2>5. IsFiniteSet(choices') /\ Cardinality(choices') = Cardinality(choices) - 1
      BY <1>2, <2>4, FS_RemoveElement
    <2>6. /\ Cardinality(Known) \in Nat /\ Cardinality(Known') \in Nat
          /\ Cardinality(choices) \in Nat /\ MaxRequests \in Nat
      BY <2>2, <2>4, KnownOnes, CountOf DEF Providers!ProvidersAssumption
    <2>7. Cardinality(choices') <= MaxRequests + Cardinality(Known') BY <2>3, <2>4, <2>5, <2>6
    <2> QED BY <2>5, <2>7 DEF FewAsked
  <1>7. ProvidersPanelOK' BY <1>1, <1>2 DEF ProvidersInv, ProvidersPanelOK
  <1>8. chosen' = chosen \/ (chosen' = Providers!Model(r.of) /\ provider = r.of)
    BY DEF Providers!ModelsAnswered
  <1>9. chosen' \in Providers!Models \union {NoChoice}
    BY <1>0, <1>8 DEF ProvidersInv, ChoiceOK, Providers!Models
  <1>10. Providers!ModelOfItsProvider'
    BY <1>1, <1>8 DEF ProvidersInv, Providers!ModelOfItsProvider
  <1>11. ChoiceOK' BY <1>1, <1>4, <1>9 DEF ProvidersInv, ChoiceOK
  <1> QED BY <1>1, <1>5, <1>6, <1>7, <1>10, <1>11 DEF ProvidersInv

LEMMA ChangeStep ==
    ASSUME ProvidersInv, NEW p \in Providers!ProviderNames, Providers!HandleModelChange(p)
        PROVE ProvidersInv'
  <1>1. /\ provider' = p /\ chosen' = Providers!Model(p) /\ fellBack' = FALSE
        /\ UNCHANGED <<credential, choices, page, panel, enabled, models, changes>>
    BY DEF Providers!HandleModelChange
  <1>2. AskingOK' /\ ProvidersPanelOK' BY <1>1 DEF ProvidersInv, AskingOK, ProvidersPanelOK
  <1>3. FewAsked' BY <1>1 DEF ProvidersInv, FewAsked, Known
  <1>4. ChoiceOK' /\ Providers!ModelOfItsProvider'
    BY <1>1 DEF ProvidersInv, ChoiceOK, Providers!Models, Providers!ModelOfItsProvider
  <1> QED BY <1>1, <1>2, <1>3, <1>4 DEF ProvidersInv

LEMMA RunStep ==
    ASSUME Providers!ProvidersAssumption, ProvidersListOK, ProvidersInv, Providers!Run
    PROVE  ProvidersInv'
  <1>1. PICK q : q = Providers!Request("run", provider, chosen) OBVIOUS
  <1>2. provider \in Providers!ProviderNames BY DEF ProvidersInv, ChoiceOK, Providers!Run
  <1>3. q \in ProvidersAsking /\ q.answer = "none" /\ q.op = "run"
    <2>1. "run" \in ProvidersOps BY DEF ProvidersOps
    <2>2. chosen \in Providers!Models \union {NoChoice} BY DEF ProvidersInv, ChoiceOK
    <2>3. Providers!Request("run", provider, chosen) \in ProvidersAsking
      BY <1>2, <2>1, <2>2, ARequest
    <2> QED BY <1>1, <2>3 DEF Providers!Request
  <1>4. Providers!Room /\ choices' = choices \union {q} BY <1>1 DEF Providers!Run
  <1>5. UNCHANGED <<credential, page, panel, enabled, models, provider, chosen, changes, fellBack>>
    BY DEF Providers!Run, Providers!choice
  <1>6. AskingOK' /\ FewAsked' BY <1>3, <1>4, <1>5, Asked
  <1>7. "run" \notin Providers!Changes BY DEF Providers!Changes
  <1>8. ProvidersPanelOK' BY <1>3, <1>4, <1>5, <1>7 DEF ProvidersInv, ProvidersPanelOK
  <1>9. ChoiceOK' /\ Providers!ModelOfItsProvider'
    BY <1>5 DEF ProvidersInv, ChoiceOK, Providers!ModelOfItsProvider
  <1> QED BY <1>5, <1>6, <1>8, <1>9 DEF ProvidersInv

LEMMA ProvidersRunEnds ==
    ASSUME Providers!ProvidersAssumption, ProvidersListOK, ProvidersInv, NEW r \in choices,
        Providers!RunAnswered(r)
        PROVE ProvidersInv'
  <1>1. UNCHANGED <<credential, page, panel, enabled, models, provider, chosen, changes, fellBack>>
    BY DEF Providers!RunAnswered, Providers!choice
  <1>2. choices' = choices \ {r} BY DEF Providers!RunAnswered
  <1>3. AskingOK' /\ FewAsked' BY <1>1, <1>2, TakenOut
  <1>4. ProvidersPanelOK' BY <1>1, <1>2 DEF ProvidersInv, ProvidersPanelOK
  <1>5. ChoiceOK' /\ Providers!ModelOfItsProvider'
    BY <1>1 DEF ProvidersInv, ChoiceOK, Providers!ModelOfItsProvider
  <1> QED BY <1>1, <1>3, <1>4, <1>5 DEF ProvidersInv

LEMMA ProvidersStart ==
    ASSUME Providers!ProvidersAssumption, ProvidersListOK, Providers!Init
    PROVE  ProvidersInv
  <1>1. FewAsked
    <2>1. Known = {} BY DEF Providers!Init, Known
    <2>2. IsFiniteSet(choices) /\ Cardinality(choices) = 0 /\ Cardinality(Known) = 0
      BY <2>1, FS_EmptySet DEF Providers!Init
    <2> QED BY <2>2 DEF FewAsked, Providers!ProvidersAssumption
  <1>2. ChoiceOK /\ Providers!ModelOfItsProvider
    BY DEF Providers!Init, ChoiceOK, ListStates, Providers!ModelOfItsProvider
  <1>3. AskingOK /\ ProvidersPanelOK BY DEF Providers!Init, AskingOK, ProvidersPanelOK
  <1>4. credential \in ProvidersSays BY NobodySays DEF Providers!Init
  <1>5. changes \in 0..MaxChanges BY DEF Providers!Init, Providers!ProvidersAssumption
  <1> QED BY <1>1, <1>2, <1>3, <1>4, <1>5 DEF Providers!Init, ProvidersInv

LEMMA ProvidersStep ==
    ASSUME Providers!ProvidersAssumption, ProvidersListOK, ProvidersInv,
           [Providers!Next]_(Providers!vars)
    PROVE  ProvidersInv'
  <1>1. CASE Providers!OpenSettings
    BY <1>1, PageIsLeft, ProvidersAlike DEF Providers!OpenSettings
  <1>2. CASE Providers!OpenCoding BY <1>2, PageIsLeft, ProvidersAlike DEF Providers!OpenCoding
  <1>3. CASE UNCHANGED Providers!vars
    <2>1. UNCHANGED <<credential, choices, page, panel, enabled, models, provider, chosen, changes, fellBack>>
      BY <1>3 DEF Providers!vars, Providers!choice
    <2>2. AskingOK' /\ ProvidersPanelOK' BY <2>1 DEF ProvidersInv, AskingOK, ProvidersPanelOK
    <2>3. FewAsked' BY <2>1 DEF ProvidersInv, FewAsked, Known
    <2>4. ChoiceOK' /\ Providers!ModelOfItsProvider'
      BY <2>1 DEF ProvidersInv, ChoiceOK, Providers!ModelOfItsProvider
    <2> QED BY <2>1, <2>2, <2>3, <2>4 DEF ProvidersInv
  <1> QED BY <1>1, <1>2, <1>3, RunStep, ChangeStep, ProvidersAskStep, ProvidersServeStep,
      FailStep, PanelStep, ListStep, ModelsStep, ProvidersRunEnds
      DEF Providers!Next

LEMMA ProvidersInvariance ==
    ASSUME Providers!ProvidersAssumption, ProvidersListOK
    PROVE  Providers!Spec => []ProvidersInv
  <1>1. Providers!Init => ProvidersInv BY ProvidersStart
  <1>2. ProvidersInv /\ [Providers!Next]_(Providers!vars) => ProvidersInv' BY ProvidersStep
  <1> QED BY <1>1, <1>2, PTL DEF Providers!Spec

LEMMA ProvidersTypes ==
    ASSUME Providers!ProvidersAssumption, ProvidersListOK, ProvidersInv
    PROVE  Providers!TypeOK
  <1>1. Cardinality(choices) <= MaxRequests + Cardinality(Providers!ProviderNames)
    <2>1. Cardinality(Known) <= Cardinality(Providers!ProviderNames)
      BY FS_Subset DEF ProvidersListOK, Known
    <2>2. /\ Cardinality(choices) \in Nat
          /\ Cardinality(choices) <= MaxRequests + Cardinality(Known)
          /\ MaxRequests \in Nat /\ Cardinality(Providers!ProviderNames) \in Nat
      BY CountOf DEF ProvidersInv, FewAsked, Providers!ProvidersAssumption, ProvidersListOK
    <2> QED BY <2>1, <2>2, KnownOnes
  <1>2. \A r \in choices :
         /\ r.op \in Providers!Changes \union {"status", "providers", "models", "run"}
         /\ r.of \in Providers!ProviderNames
         /\ r.answer \in {"none", "failed", "ok"} /\ r.heard \in BOOLEAN
         /\ r.says \in [Providers!ProviderNames -> Providers!States]
         /\ r.with \in Providers!Models \union {NoChoice}
    BY DEF ProvidersInv, AskingOK, ProvidersAsking, ProvidersOps, ProvidersSays
  <1> QED BY <1>1, <1>2, ProvidersAlike
      DEF ProvidersInv, ChoiceOK, ProvidersPanelOK, ProvidersSays, ListStates, Providers!TypeOK

LEMMA ProvidersShow ==
    ASSUME Providers!ProvidersAssumption, ProvidersListOK
    PROVE  Providers!Spec => [](Providers!TypeOK /\ Providers!ModelOfItsProvider)
  <1>1. ProvidersInv => Providers!TypeOK /\ Providers!ModelOfItsProvider
    BY ProvidersTypes DEF ProvidersInv
  <1> QED BY <1>1, ProvidersInvariance, PTL

(***************************************************************************)
(* CodingClient.tla                                                        *)
(***************************************************************************)

CodingTold == [kind : {"start", "work", "approval", "end", "record"}, of : Nat]
Wanted == [kind : {"run", "cancel", "approve", "deny", "get"}, of : Nat]
Slip(kind, of) == [kind |-> kind, of |-> of]

In(q, x) == \E i \in 1..Len(q) : q[i] = x
Answering(q, a) == In(q, Slip("approve", a)) \/ In(q, Slip("deny", a))

(* The run that an event is about.                                           *)
RunIn(asker, x) == IF x.kind = "approval" THEN asker[x.of] ELSE x.of

(* What the runtime does not tell in this order: nothing of a run before its *)
(* start or, except for its record, after its end, and an approval once,     *)
(* before any record that offers it.                                         *)
Wrong(asker, x, y) ==
    \/ y.kind = "start" /\ x.kind \in {"work", "approval", "end"} /\ RunIn(asker, x) = y.of
    \/ x.kind = "end" /\ y.kind \in {"approval", "end"} /\ RunIn(asker, y) = x.of
    \/ x.kind \in {"record", "approval"} /\ y.kind = "approval" /\ x.of = y.of

InOrder == \A i, j \in 1..Len(mail) : i < j => ~Wrong(issued, mail[i], mail[j])

(* The runtime: a run waits for the approval that it has asked for.          *)
RunStates == [Coding!Runs -> {"NONE", "RUNNING", "WAITING", "ENDED"}]
RuntimeOK ==
    /\ state \in RunStates /\ issued \in Seq(Coding!Runs) /\ pending \in [Coding!Runs -> Nat]
    /\ \A s \in Coding!Runs :
          /\ pending[s] <= Len(issued)
          /\ pending[s] # Coding!Nothing <=> state[s] = "WAITING"
          /\ pending[s] # Coding!Nothing => issued[pending[s]] = s
    /\ \A a \in 1..Len(issued) : state[issued[a]] # "NONE"

Fits(x) ==
    /\ x.kind \in {"start", "work", "end"} => x.of \in Coding!Runs /\ state[x.of] # "NONE"
    /\ x.kind = "end" => state[x.of] = "ENDED"
    /\ x.kind = "approval" => x.of \in 1..Len(issued)
    /\ x.kind = "record" => x.of \in 0..Len(issued)
MailOK ==
    /\ mail \in Seq(CodingTold) /\ Len(mail) <= MaxMail /\ InOrder
    /\ \A x \in CodingTold : In(mail, x) => Fits(x)

AsksOK ==
    /\ asks \in Seq(Wanted) /\ Len(asks) <= MaxMail
    /\ \A x \in Wanted : In(asks, x) /\ x.kind \in {"approve", "deny"} => x.of \in 1..Len(issued)

ViewOK ==
    /\ starting \subseteq Buttons /\ run \in 0..MaxRuns /\ activity \subseteq Coding!Runs
    /\ says \in {"NONE", "RUNNING", "ENDED"}
    /\ run # Coding!Nothing => state[run] # "NONE" /\ says # "NONE"
    /\ run = Coding!Nothing => says = "NONE"
    /\ approval \in 0..Len(issued) /\ detail \in 0..Len(issued)

CodingSwitches == connected \in BOOLEAN /\ mounted \in BOOLEAN /\ lost \in BOOLEAN

(* Nothing is asked for a run that is shown as ended.                        *)
EndedIsQuiet ==
    says = "ENDED" => \A x \in CodingTold : In(mail, x) /\ x.kind = "approval" => RunIn(issued, x) # run

(* As long as nothing was lost, what is under way makes the panel say what   *)
(* the runtime says.                                                         *)
EndsAreTold ==
    /\ run # Coding!Nothing =>
          (says = "RUNNING" <=> state[run] # "ENDED" \/ In(mail, Slip("end", run)))
    /\ \A s \in Coding!Runs : In(mail, Slip("start", s)) /\ state[s] = "ENDED" => In(mail, Slip("end", s))

ApprovalsAreTold ==
    /\ approval # Coding!Nothing => pending[run] = approval /\ ~Answering(asks, approval)
    /\ \A a \in 1..Len(issued) : In(mail, Slip("approval", a)) =>
          pending[issued[a]] = a /\ ~Answering(asks, a) /\ detail # a /\ approval # a
    /\ run # Coding!Nothing /\ pending[run] # Coding!Nothing /\ approval # pending[run] =>
          In(mail, Slip("approval", pending[run])) \/ Answering(asks, pending[run])
    /\ \A s \in Coding!Runs : In(mail, Slip("start", s)) /\ pending[s] # Coding!Nothing =>
          In(mail, Slip("approval", pending[s]))

CodingInv ==
    /\ RuntimeOK
    /\ MailOK
    /\ AsksOK
    /\ ViewOK
    /\ CodingSwitches
    /\ EndedIsQuiet
    /\ Coding!ShownIsOneRun
    /\ ~lost => EndsAreTold /\ ApprovalsAreTold

(* What is in a queue after one more, and after one less.                    *)
LEMMA CodingOneMore ==
    ASSUME NEW S, NEW s \in Seq(S), NEW x \in S, NEW t, t = Append(s, x)
    PROVE  /\ t \in Seq(S) /\ Len(t) = Len(s) + 1 /\ Len(s) \in Nat
           /\ \A i \in 1..Len(s) : t[i] = s[i]
           /\ t[Len(s) + 1] = x
           /\ \A y : (\E i \in 1..Len(t) : t[i] = y) <=> (\E i \in 1..Len(s) : s[i] = y) \/ y = x
  <1>1. PICK n \in Nat : n = Len(s) BY LenProperties
  <1>2. t \in Seq(S) /\ Len(t) = n + 1 /\ (\A i \in 1..n : t[i] = s[i]) /\ t[n + 1] = x
    BY <1>1, AppendProperties
  <1>3. \A i \in 1..(n + 1) : i \in 1..n \/ i = n + 1 BY <1>1
  <1>4. n + 1 \in 1..(n + 1) /\ 1..n \subseteq 1..(n + 1) BY <1>1
  <1> QED BY <1>1, <1>2, <1>3, <1>4

LEMMA CodingOneLess ==
    ASSUME NEW S, NEW s \in Seq(S), s # <<>>, NEW t, t = Tail(s)
    PROVE  /\ t \in Seq(S) /\ Len(t) = Len(s) - 1 /\ Len(s) \in Nat \ {0} /\ Head(s) = s[1]
           /\ Head(s) \in S
           /\ \A i \in 1..Len(t) : t[i] = s[i + 1]
           /\ \A y : (\E i \in 1..Len(t) : t[i] = y) => \E i \in 1..Len(s) : s[i] = y
           /\ \A i \in 1..Len(s) : s[i] = Head(s) \/ \E j \in 1..Len(t) : t[j] = s[i]
  <1>1. PICK n \in Nat : n = Len(s) BY LenProperties
  <1>2. n # 0 BY <1>1, EmptySeq
  <1>3. t \in Seq(S) /\ Len(t) = n - 1 /\ Head(s) \in S /\ Head(s) = s[1]
    BY <1>1, HeadTailProperties
  <1>4. \A i \in 1..(n - 1) : t[i] = s[i + 1] BY <1>1, <1>2, HeadTailProperties
  <1>5. \A i \in 1..(n - 1) : i + 1 \in 1..n BY <1>1, <1>2
  <1>6. ASSUME NEW i \in 1..n
      PROVE i = 1 \/ (i - 1 \in 1..(n - 1) /\ (i - 1) + 1 = i)
        BY <1>1, <1>2, <1>6
  <1>7. ASSUME NEW i \in 1..n PROVE s[i] = Head(s) \/ \E j \in 1..(n - 1) : t[j] = s[i]
    <2>1. CASE i = 1 BY <1>3, <2>1
    <2>2. CASE i - 1 \in 1..(n - 1) /\ (i - 1) + 1 = i
      <3>1. t[i - 1] = s[i] BY <1>4, <2>2
      <3> QED BY <2>2, <3>1
    <2> QED BY <1>6, <2>1, <2>2
  <1>8. ASSUME NEW i \in 1..(n - 1) PROVE \E j \in 1..n : s[j] = t[i]
    <2>1. i + 1 \in 1..n /\ s[i + 1] = t[i] BY <1>4, <1>5
    <2> QED BY <2>1
  <1> QED BY <1>1, <1>2, <1>3, <1>4, <1>7, <1>8

(* A message is sent; one is received.                                       *)
LEMMA CodingSends ==
    ASSUME MailOK, NEW x \in CodingTold, mail' = Append(mail, x), Len(mail) < MaxMail,
           MaxMail \in Nat,
           \A y \in CodingTold : In(mail, y) => ~Wrong(issued', y, x),
           \A y, z \in CodingTold : In(mail, y) /\ In(mail, z) /\ Wrong(issued', y, z) => Wrong(issued, y, z)
    PROVE  /\ mail' \in Seq(CodingTold) /\ Len(mail') <= MaxMail /\ InOrder'
           /\ \A y : In(mail', y) <=> In(mail, y) \/ y = x
  <1>1. mail \in Seq(CodingTold) BY DEF MailOK
  <1>2. /\ mail' \in Seq(CodingTold) /\ Len(mail') = Len(mail) + 1 /\ Len(mail) \in Nat
        /\ \A i \in 1..Len(mail) : mail'[i] = mail[i]
        /\ mail'[Len(mail) + 1] = x
        /\ \A y : (\E i \in 1..Len(mail') : mail'[i] = y) <=> (\E i \in 1..Len(mail) : mail[i] = y) \/ y = x
    BY <1>1, CodingOneMore
  <1>3. \A y : In(mail', y) <=> In(mail, y) \/ y = x BY <1>2 DEF In
  <1>4. \A i \in 1..Len(mail) : mail[i] \in CodingTold /\ In(mail, mail[i])
    BY <1>1, ElementOfSeq DEF In
  <1>5. ASSUME NEW i \in 1..Len(mail'), NEW j \in 1..Len(mail'), i < j
        PROVE  ~Wrong(issued', mail'[i], mail'[j])
    <2>1. i \in 1..Len(mail) /\ mail'[i] = mail[i] BY <1>2, <1>5
    <2>2. CASE j \in 1..Len(mail)
      <3>1. ~Wrong(issued, mail[i], mail[j]) BY <1>5, <2>1, <2>2 DEF MailOK, InOrder
      <3>2. mail'[j] = mail[j] BY <1>2, <2>2
      <3> QED BY <1>4, <2>1, <2>2, <3>1, <3>2
    <2>3. CASE j = Len(mail) + 1
      <3>1. mail'[j] = x BY <1>2, <2>3
      <3> QED BY <1>4, <2>1, <3>1
    <2> QED BY <1>2, <2>2, <2>3
  <1>6. Len(mail') <= MaxMail BY <1>2
  <1> QED BY <1>2, <1>3, <1>5, <1>6 DEF InOrder

LEMMA Receives ==
    ASSUME MailOK, mail # <<>>, mail' = Tail(mail), issued' = issued, MaxMail \in Nat
    PROVE  /\ mail' \in Seq(CodingTold) /\ Len(mail') <= MaxMail /\ InOrder'
           /\ Head(mail) \in CodingTold /\ In(mail, Head(mail))
           /\ \A y : In(mail', y) => In(mail, y) /\ ~Wrong(issued, Head(mail), y)
           /\ \A y : In(mail, y) => In(mail', y) \/ y = Head(mail)
  <1>1. mail \in Seq(CodingTold) /\ Len(mail) <= MaxMail BY DEF MailOK
  <1>2. /\ mail' \in Seq(CodingTold) /\ Len(mail') = Len(mail) - 1 /\ Len(mail) \in Nat \ {0}
        /\ Head(mail) = mail[1] /\ Head(mail) \in CodingTold
        /\ \A i \in 1..Len(mail') : mail'[i] = mail[i + 1]
        /\ \A y : (\E i \in 1..Len(mail') : mail'[i] = y) => \E i \in 1..Len(mail) : mail[i] = y
        /\ \A i \in 1..Len(mail) : mail[i] = Head(mail) \/ \E j \in 1..Len(mail') : mail'[j] = mail[i]
    BY <1>1, CodingOneLess
  <1>3. \A y : (In(mail', y) => In(mail, y)) /\ (In(mail, y) => In(mail', y) \/ y = Head(mail))
    BY <1>2 DEF In
  <1>4. 1 \in 1..Len(mail) BY <1>2
  <1>5. In(mail, Head(mail)) BY <1>2, <1>4 DEF In
  <1>6. \A i \in 1..Len(mail') : i + 1 \in 1..Len(mail) /\ 1 < i + 1 BY <1>2
  <1>7. ASSUME NEW i \in 1..Len(mail'), NEW j \in 1..Len(mail'), i < j
        PROVE  ~Wrong(issued', mail'[i], mail'[j])
    <2>1. i + 1 \in 1..Len(mail) /\ j + 1 \in 1..Len(mail) BY <1>6
    <2>2. i + 1 < j + 1 BY <1>2, <1>7
    <2>3. ~Wrong(issued, mail[i + 1], mail[j + 1]) BY <2>1, <2>2 DEF MailOK, InOrder
    <2> QED BY <1>2, <2>3
  <1>8. ASSUME NEW y, In(mail', y) PROVE ~Wrong(issued, Head(mail), y)
    <2>1. PICK i \in 1..Len(mail') : mail'[i] = y BY <1>8 DEF In
    <2>2. i + 1 \in 1..Len(mail) /\ 1 < i + 1 /\ mail[i + 1] = y BY <1>2, <1>6, <2>1
    <2>3. ~Wrong(issued, mail[1], mail[i + 1]) BY <1>4, <2>2 DEF MailOK, InOrder
    <2> QED BY <1>2, <2>2, <2>3
  <1>9. Len(mail') <= MaxMail BY <1>1, <1>2
  <1> QED BY <1>2, <1>3, <1>5, <1>7, <1>8, <1>9 DEF InOrder

(* What an event says of the run that it is about.                           *)
LEMMA SlipOf ==
    ASSUME NEW x \in CodingTold
    PROVE  /\ x = Slip(x.kind, x.of)
           /\ x.of \in Nat
           /\ x.kind \in {"start", "work", "approval", "end", "record"}
  BY DEF CodingTold, Slip

LEMMA ASlip ==
    ASSUME NEW kind \in {"start", "work", "approval", "end", "record"}, NEW of \in Nat
    PROVE  Slip(kind, of) \in CodingTold /\ Slip(kind, of).kind = kind /\ Slip(kind, of).of = of
  BY DEF CodingTold, Slip

LEMMA AWish ==
    ASSUME NEW kind \in {"run", "cancel", "approve", "deny", "get"}, NEW of \in Nat
    PROVE  Slip(kind, of) \in Wanted /\ Slip(kind, of).kind = kind /\ Slip(kind, of).of = of
  BY DEF Wanted, Slip

(* What is told is of a run that runs: then nothing else of it is wrong.     *)
LEMMA RuntimeFacts ==
    ASSUME Coding!CodingClientAssumption, RuntimeOK
    PROVE  /\ MaxRuns \in Nat /\ MaxMail \in Nat /\ MaxApprovals \in Nat /\ Len(issued) \in Nat
           /\ \A a \in 1..Len(issued) : issued[a] \in Coding!Runs
           /\ \A s \in Coding!Runs : s \in Nat /\ s # Coding!Nothing /\ pending[s] \in Nat
  <1>1. Len(issued) \in Nat /\ \A a \in 1..Len(issued) : issued[a] \in Coding!Runs
    BY LenProperties, ElementOfSeq DEF RuntimeOK
  <1>2. MaxRuns \in Nat /\ MaxMail \in Nat /\ MaxApprovals \in Nat
    BY DEF Coding!CodingClientAssumption
  <1>3. \A s \in Coding!Runs : s \in Nat /\ s # Coding!Nothing
    BY <1>2 DEF Coding!Runs, Coding!Nothing
  <1> QED BY <1>1, <1>2, <1>3 DEF RuntimeOK

(* The runtime tells of a run: of the start of one that has not been, and of *)
(* work of one that has not ended.                                           *)
LEMMA TellsOfRun ==
    ASSUME Coding!CodingClientAssumption, RuntimeOK, MailOK, NEW s \in Coding!Runs,
           state[s] # "ENDED",
           NEW kind \in {"start", "work", "end"}, kind = "start" => state[s] = "NONE",
           Coding!Emit(kind, s), connected, issued' = issued
    PROVE  /\ mail' \in Seq(CodingTold) /\ Len(mail') <= MaxMail /\ InOrder' /\ lost' = lost
           /\ \A y : In(mail', y) <=> In(mail, y) \/ y = Slip(kind, s)
  <1>1. PICK x : x = Slip(kind, s) OBVIOUS
  <1>2. s \in Nat /\ MaxMail \in Nat BY RuntimeFacts
  <1>3. x \in CodingTold /\ x.kind = kind /\ x.of = s BY <1>1, <1>2, ASlip
  <1>4. mail' = Append(mail, x) /\ Len(mail) < MaxMail /\ lost' = lost
    BY <1>1 DEF Coding!Emit, Slip
  <1>5. ASSUME NEW y \in CodingTold, In(mail, y), Wrong(issued', y, x) PROVE FALSE
    <2>1. y.kind = "end" => state[y.of] = "ENDED" BY <1>5 DEF MailOK, Fits
    <2>2. x.kind # "approval" BY <1>3
    <2>3. CASE /\ x.kind = "start"
               /\ y.kind \in {"work", "approval", "end"}
               /\ RunIn(issued', y) = x.of
      <3>1. state[s] = "NONE" BY <1>3, <2>3
      <3>2. CASE y.kind = "approval"
        <4>1. y.of \in 1..Len(issued) /\ issued[y.of] = s
          BY <1>3, <1>5, <2>3, <3>2 DEF MailOK, Fits, RunIn
        <4> QED BY <3>1, <4>1 DEF RuntimeOK
      <3>3. CASE y.kind # "approval" BY <1>3, <1>5, <2>3, <3>1, <3>3 DEF MailOK, Fits, RunIn
      <3> QED BY <3>2, <3>3
    <2>4. CASE y.kind = "end" /\ x.kind \in {"approval", "end"} /\ RunIn(issued', x) = y.of
      BY <1>3, <2>1, <2>2, <2>4 DEF RunIn
    <2> QED BY <1>5, <2>2, <2>3, <2>4 DEF Wrong
  <1> QED BY <1>1, <1>2, <1>3, <1>4, <1>5, CodingSends

(* What the client asks, and what is served.                                 *)
LEMMA CodingAsks ==
    ASSUME Coding!CodingClientAssumption, AsksOK,
           NEW kind \in {"run", "cancel", "approve", "deny", "get"},
           NEW of \in Nat, kind \in {"approve", "deny"} => of \in 1..Len(issued), Coding!Ask(kind, of)
    PROVE  AsksOK' /\ \A y : In(asks', y) <=> In(asks, y) \/ y = Slip(kind, of)
  <1>1. PICK x : x = Slip(kind, of) OBVIOUS
  <1>2. x \in Wanted /\ x.kind = kind /\ x.of = of BY <1>1, AWish
  <1>3. asks' = Append(asks, x) /\ Len(asks) < MaxMail /\ issued' = issued
    BY <1>1 DEF Coding!Ask, Slip, Coding!runtime
  <1>4. asks \in Seq(Wanted) /\ MaxMail \in Nat BY DEF AsksOK, Coding!CodingClientAssumption
  <1>5. /\ asks' \in Seq(Wanted) /\ Len(asks') = Len(asks) + 1 /\ Len(asks) \in Nat
        /\ \A y : (\E i \in 1..Len(asks') : asks'[i] = y) <=> (\E i \in 1..Len(asks) : asks[i] = y) \/ y = x
    BY <1>2, <1>3, <1>4, CodingOneMore
  <1>6. \A y : In(asks', y) <=> In(asks, y) \/ y = x BY <1>5 DEF In
  <1>7. Len(asks') <= MaxMail BY <1>3, <1>4, <1>5
  <1>8. \A y \in Wanted : In(asks', y) /\ y.kind \in {"approve", "deny"} => y.of \in 1..Len(issued')
    BY <1>2, <1>3, <1>6 DEF AsksOK
  <1> QED BY <1>1, <1>5, <1>6, <1>7, <1>8 DEF AsksOK

LEMMA Served ==
    ASSUME Coding!CodingClientAssumption, AsksOK, asks # <<>>, asks' = Tail(asks)
    PROVE  /\ asks' \in Seq(Wanted) /\ Len(asks') <= MaxMail
           /\ Head(asks) \in Wanted /\ In(asks, Head(asks))
           /\ \A y : (In(asks', y) => In(asks, y)) /\ (In(asks, y) => In(asks', y) \/ y = Head(asks))
  <1>1. asks \in Seq(Wanted) /\ Len(asks) <= MaxMail /\ MaxMail \in Nat
    BY DEF AsksOK, Coding!CodingClientAssumption
  <1>2. /\ asks' \in Seq(Wanted) /\ Len(asks') = Len(asks) - 1 /\ Len(asks) \in Nat \ {0}
        /\ Head(asks) = asks[1] /\ Head(asks) \in Wanted
        /\ \A y : (\E i \in 1..Len(asks') : asks'[i] = y) => \E i \in 1..Len(asks) : asks[i] = y
        /\ \A i \in 1..Len(asks) : asks[i] = Head(asks) \/ \E j \in 1..Len(asks') : asks'[j] = asks[i]
    BY <1>1, CodingOneLess
  <1>3. \A y : (In(asks', y) => In(asks, y)) /\ (In(asks, y) => In(asks', y) \/ y = Head(asks))
    BY <1>2 DEF In
  <1>4. 1 \in 1..Len(asks) BY <1>2
  <1>5. In(asks, Head(asks)) BY <1>2, <1>4 DEF In
  <1>6. Len(asks') <= MaxMail BY <1>1, <1>2
  <1> QED BY <1>2, <1>3, <1>5, <1>6

(* Two messages that are the same say the same.                             *)
LEMMA SlipsDiffer ==
    \A k, l, a, b : Slip(k, a) = Slip(l, b) => k = l /\ a = b
  <1> SUFFICES ASSUME NEW k, NEW l, NEW a, NEW b, Slip(k, a) = Slip(l, b) PROVE k = l /\ a = b
    OBVIOUS
  <1>1. Slip(k, a).kind = k /\ Slip(k, a).of = a /\ Slip(l, b).kind = l /\ Slip(l, b).of = b
    BY DEF Slip
  <1> QED BY <1>1

(* The runtime goes forward: what has been asked for or has ended stays so.  *)
Forward ==
    /\ Len(issued') \in Nat /\ Len(issued) <= Len(issued')
    /\ \A a \in 1..Len(issued) : issued'[a] = issued[a]
    /\ \A s \in Coding!Runs : /\ state[s] # "NONE" => state'[s] # "NONE"
                              /\ state[s] = "ENDED" => state'[s] = "ENDED"

LEMMA FitsStays ==
    ASSUME Coding!CodingClientAssumption, RuntimeOK, Forward, NEW x \in CodingTold, Fits(x)
    PROVE  Fits(x)' /\ (x.kind = "approval" => RunIn(issued', x) = RunIn(issued, x))
  <1>1. Len(issued) \in Nat BY RuntimeFacts
  <1>2. 1..Len(issued) \subseteq 1..Len(issued') /\ 0..Len(issued) \subseteq 0..Len(issued')
    BY <1>1 DEF Forward
  <1>3. x.kind = "approval" => RunIn(issued', x) = RunIn(issued, x) BY DEF Fits, Forward, RunIn
  <1>4. x.kind \in {"start", "work", "end"} => x.of \in Coding!Runs /\ state'[x.of] # "NONE"
    BY DEF Fits, Forward
  <1>5. x.kind = "end" => state'[x.of] = "ENDED" BY DEF Fits, Forward
  <1>6. x.kind = "approval" => x.of \in 1..Len(issued') BY <1>2 DEF Fits
  <1>7. x.kind = "record" => x.of \in 0..Len(issued') BY <1>2 DEF Fits
  <1> QED BY <1>3, <1>4, <1>5, <1>6, <1>7 DEF Fits

(* The view stays as it is.                                                  *)
LEMMA ViewStays ==
    ASSUME Coding!CodingClientAssumption, CodingInv, Forward, RuntimeOK', UNCHANGED Coding!view,
           mail' \in Seq(CodingTold), Len(mail') <= MaxMail, InOrder',
           \A y \in CodingTold : In(mail', y) =>
              In(mail, y)
                \/ (Fits(y)'
                     /\ (y.kind = "approval"
                          => RunIn(issued', y) \in Coding!Runs /\ state[RunIn(issued', y)] # "ENDED")),
           AsksOK', CodingSwitches', ~lost' => EndsAreTold' /\ ApprovalsAreTold'
    PROVE  CodingInv'
  <1>1. Len(issued) \in Nat /\ MaxRuns \in Nat BY RuntimeFacts DEF CodingInv
  <1>2. \A y \in CodingTold : In(mail, y)
          => Fits(y)' /\ (y.kind = "approval" => RunIn(issued', y) = RunIn(issued, y))
    BY FitsStays DEF CodingInv, MailOK
  <1>3. MailOK' BY <1>2 DEF MailOK
  <1>4. run \in 0..MaxRuns /\ (run # Coding!Nothing => run \in Coding!Runs)
    BY <1>1 DEF CodingInv, ViewOK, Coding!Runs, Coding!Nothing
  <1>5. ViewOK'
    <2>1. 0..Len(issued) \subseteq 0..Len(issued') BY <1>1 DEF Forward
    <2>2. ASSUME run # Coding!Nothing PROVE state'[run] # "NONE"
      <3>1. run \in Coding!Runs /\ state[run] # "NONE" BY <1>4, <2>2 DEF CodingInv, ViewOK
      <3> QED BY <3>1 DEF Forward
    <2>3. approval' \in 0..Len(issued') /\ detail' \in 0..Len(issued')
      BY <2>1 DEF CodingInv, ViewOK, Coding!view
    <2> QED BY <2>2, <2>3 DEF CodingInv, ViewOK, Coding!view
  <1>6. ASSUME says = "ENDED"
      PROVE run \in Coding!Runs /\ state[run] = "ENDED" /\ state'[run] = "ENDED"
    <2>1. state[run] = "ENDED" BY <1>6 DEF CodingInv, Coding!ShownIsOneRun
    <2>2. run \in Coding!Runs BY <1>4, <1>6 DEF CodingInv, ViewOK
    <2> QED BY <2>1, <2>2 DEF Forward
  <1>7. EndedIsQuiet' BY <1>2, <1>6 DEF CodingInv, EndedIsQuiet, Coding!view
  <1>8. approval # Coding!Nothing => approval \in 1..Len(issued)
    BY <1>1 DEF CodingInv, ViewOK, Coding!Nothing
  <1>9. Coding!ShownIsOneRun'
    <2>1. approval' # Coding!Nothing => issued'[approval'] = run' /\ Coding!Running'
      BY <1>8 DEF CodingInv, Coding!ShownIsOneRun, Forward, Coding!view, Coding!Running
    <2>2. says' = "ENDED" => state'[run'] = "ENDED" BY <1>6 DEF Coding!view
    <2>3. activity' \subseteq {run'} BY DEF CodingInv, Coding!ShownIsOneRun, Coding!view
    <2> QED BY <2>1, <2>2, <2>3 DEF Coding!ShownIsOneRun
  <1> QED BY <1>3, <1>5, <1>7, <1>9 DEF CodingInv

(* What is about to be told is heard of as long as nothing is lost.          *)
LEMMA WorksStep ==
    ASSUME Coding!CodingClientAssumption, CodingInv, NEW s \in Coding!Runs, Coding!Works(s)
        PROVE CodingInv'
  <1>0. /\ state[s] = "RUNNING"
        /\ Coding!Emit("work", s)
        /\ UNCHANGED <<state, issued, pending, connected, asks>>
        /\ UNCHANGED Coding!view
    BY DEF Coding!Works, Coding!runtime
  <1>i. RuntimeOK /\ MailOK /\ AsksOK /\ CodingSwitches BY DEF CodingInv
  <1>1. RuntimeOK' BY <1>0, <1>i DEF RuntimeOK, RunStates
  <1>2. Forward BY <1>0, <1>i, RuntimeFacts DEF Forward
  <1>3. AsksOK' BY <1>0, <1>i DEF AsksOK
  <1>4. CASE connected
    <2>1. /\ mail' \in Seq(CodingTold) /\ Len(mail') <= MaxMail /\ InOrder' /\ lost' = lost
          /\ \A y : In(mail', y) <=> In(mail, y) \/ y = Slip("work", s)
      <3>1. state[s] # "ENDED" BY <1>0
      <3> QED BY <1>0, <1>4, <1>i, <3>1, TellsOfRun
    <2>2. s \in Nat BY <1>i, RuntimeFacts
    <2>3. Slip("work", s) \in CodingTold /\ Slip("work", s).kind = "work" /\ Slip("work", s).of = s
      BY <2>2, ASlip
    <2>4. Fits(Slip("work", s))' BY <1>0, <2>3 DEF Fits
    <2>5. \A k, a : Slip(k, a) = Slip("work", s) => k = "work" BY SlipsDiffer
    <2>6. \A a : /\ In(mail', Slip("end", a)) <=> In(mail, Slip("end", a))
                 /\ In(mail', Slip("start", a)) <=> In(mail, Slip("start", a))
                 /\ In(mail', Slip("approval", a)) <=> In(mail, Slip("approval", a))
      BY <2>1, <2>5
    <2>7. EndsAreTold => EndsAreTold' BY <1>0, <2>6 DEF EndsAreTold, Coding!view
    <2>8. ApprovalsAreTold => ApprovalsAreTold' BY <1>0, <2>6 DEF ApprovalsAreTold, Coding!view
    <2>9. ~lost' => EndsAreTold' /\ ApprovalsAreTold' BY <2>1, <2>7, <2>8 DEF CodingInv
    <2>10. CodingSwitches' BY <1>0, <1>i, <2>1 DEF CodingSwitches, Coding!view
    <2>11. \A y \in CodingTold : In(mail', y) =>
              In(mail, y)
                \/ (Fits(y)'
                     /\ (y.kind = "approval"
                          => RunIn(issued', y) \in Coding!Runs /\ state[RunIn(issued', y)] # "ENDED"))
      BY <2>1, <2>3, <2>4
    <2> QED BY <1>0, <1>1, <1>2, <1>3, <2>1, <2>9, <2>10, <2>11, ViewStays
  <1>5. CASE ~connected
    <2>1. mail' = mail /\ lost' = TRUE BY <1>0, <1>5 DEF Coding!Emit
    <2>2. CodingSwitches' BY <1>0, <1>i, <2>1 DEF CodingSwitches, Coding!view
    <2>3. mail' \in Seq(CodingTold) /\ Len(mail') <= MaxMail /\ InOrder'
      BY <1>0, <1>i, <2>1 DEF MailOK, InOrder
    <2> QED BY <1>0, <1>1, <1>2, <1>3, <2>1, <2>2, <2>3, ViewStays
  <1> QED BY <1>4, <1>5

LEMMA AsksForApprovalStep ==
    ASSUME Coding!CodingClientAssumption, CodingInv, NEW s \in Coding!Runs,
        Coding!AsksForApproval(s)
        PROVE CodingInv'
  <1>p. PICK n : n = Len(issued) + 1 OBVIOUS
  <1>i. RuntimeOK /\ MailOK /\ AsksOK /\ CodingSwitches BY DEF CodingInv
  <1>f. /\ MaxMail \in Nat /\ Len(issued) \in Nat
        /\ \A a \in 1..Len(issued) : issued[a] \in Coding!Runs
        /\ \A r \in Coding!Runs : r \in Nat /\ r # Coding!Nothing /\ pending[r] \in Nat
    BY <1>i, RuntimeFacts
  <1>0. /\ state[s] = "RUNNING" /\ issued' = Append(issued, s)
        /\ state' = [state EXCEPT ![s] = "WAITING"]
        /\ UNCHANGED <<connected, asks>> /\ UNCHANGED Coding!view
    BY DEF Coding!AsksForApproval
  <1>1. /\ issued' \in Seq(Coding!Runs) /\ Len(issued') = n /\ issued'[n] = s
        /\ \A a \in 1..Len(issued) : issued'[a] = issued[a]
    <2>1. issued \in Seq(Coding!Runs) BY <1>i DEF RuntimeOK
    <2> QED BY <1>0, <1>p, <2>1, CodingOneMore
  <1>2. pending' = [pending EXCEPT ![s] = n] /\ Coding!Emit("approval", n)
    BY <1>1 DEF Coding!AsksForApproval
  <1>n. /\ n \in Nat
        /\ n # Coding!Nothing
        /\ n > Len(issued)
        /\ (\A a \in 1..n : a \in 1..Len(issued) \/ a = n)
        /\ n \notin 0..Len(issued) /\ n \in 1..n /\ 1..Len(issued) \subseteq 1..n
    BY <1>f, <1>p DEF Coding!Nothing
  <1>3. state' \in RunStates /\ pending' \in [Coding!Runs -> Nat]
    BY <1>0, <1>2, <1>i, <1>n DEF RuntimeOK, RunStates
  <1>4. \A r \in Coding!Runs : r # s => state'[r] = state[r] /\ pending'[r] = pending[r]
    BY <1>0, <1>2, <1>i DEF RuntimeOK, RunStates
  <1>5. state'[s] = "WAITING" /\ pending'[s] = n BY <1>0, <1>2, <1>i DEF RuntimeOK, RunStates
  <1>6. RuntimeOK'
    <2>1. ASSUME NEW r \in Coding!Runs
          PROVE  /\ pending'[r] <= Len(issued')
                 /\ pending'[r] # Coding!Nothing <=> state'[r] = "WAITING"
                 /\ pending'[r] # Coding!Nothing => issued'[pending'[r]] = r
      <3>1. CASE r = s BY <1>1, <1>5, <1>n, <3>1
      <3>2. CASE r # s
        <4>1. /\ pending[r] <= Len(issued)
              /\ (pending[r] # Coding!Nothing <=> state[r] = "WAITING")
              /\ pending[r] # Coding!Nothing => issued[pending[r]] = r
          BY <1>i DEF RuntimeOK
        <4>2. pending'[r] = pending[r] /\ state'[r] = state[r] BY <1>4, <3>2
        <4>3. pending[r] # Coding!Nothing => pending[r] \in 1..Len(issued)
          BY <1>f, <4>1 DEF Coding!Nothing
        <4>4. pending[r] <= n BY <1>f, <1>n, <4>1
        <4> QED BY <1>1, <4>1, <4>2, <4>3, <4>4
      <3> QED BY <3>1, <3>2
    <2>2. ASSUME NEW a \in 1..n PROVE state'[issued'[a]] # "NONE"
      <3>1. CASE a = n BY <1>1, <1>5, <3>1
      <3>2. CASE a \in 1..Len(issued)
        <4>1. issued'[a] = issued[a] /\ issued[a] \in Coding!Runs /\ state[issued[a]] # "NONE"
          BY <1>1, <1>f, <1>i, <3>2 DEF RuntimeOK
        <4> QED BY <1>4, <1>5, <4>1
      <3> QED BY <1>n, <3>1, <3>2
    <2> QED BY <1>1, <1>3, <2>1, <2>2 DEF RuntimeOK
  <1>7. Forward
    <2>1. \A r \in Coding!Runs : /\ state[r] # "NONE" => state'[r] # "NONE"
                                 /\ state[r] = "ENDED" => state'[r] = "ENDED"
      BY <1>0, <1>4, <1>5
    <2>2. Len(issued') \in Nat /\ Len(issued) <= Len(issued') BY <1>1, <1>f, <1>n
    <2> QED BY <1>1, <2>1, <2>2 DEF Forward
  <1>8. AsksOK' BY <1>0, <1>1, <1>i, <1>n DEF AsksOK
  <1>9. CASE connected
    <2>p. PICK x : x = Slip("approval", n) OBVIOUS
    <2>1. x \in CodingTold /\ x.kind = "approval" /\ x.of = n BY <1>n, <2>p, ASlip
    <2>2. mail' = Append(mail, x) /\ Len(mail) < MaxMail /\ lost' = lost
      BY <1>2, <1>9, <2>p DEF Coding!Emit, Slip
    <2>3. \A y \in CodingTold : In(mail, y) => RunIn(issued', y) = RunIn(issued, y) /\ Fits(y)
      <3> SUFFICES ASSUME NEW y \in CodingTold, In(mail, y)
          PROVE RunIn(issued', y) = RunIn(issued, y) /\ Fits(y)
        OBVIOUS
      <3>1. Fits(y) BY <1>i DEF MailOK
      <3> QED BY <1>7, <1>i, <3>1, FitsStays DEF RunIn
    <2>4. ASSUME NEW y \in CodingTold, In(mail, y), Wrong(issued', y, x) PROVE FALSE
      <3>1. Fits(y) BY <2>3, <2>4
      <3>2. RunIn(issued', x) = s BY <1>1, <2>1 DEF RunIn
      <3>3. CASE y.kind = "end" /\ RunIn(issued', x) = y.of BY <1>0, <3>1, <3>2, <3>3 DEF Fits
      <3>4. CASE y.kind \in {"record", "approval"} /\ y.of = n BY <1>n, <3>1, <3>4 DEF Fits
      <3> QED BY <2>1, <2>4, <3>3, <3>4 DEF Wrong
    <2>5. \A y, z \in CodingTold : In(mail, y) /\ In(mail, z) /\ Wrong(issued', y, z) => Wrong(issued, y, z)
      BY <2>3 DEF Wrong
    <2>6. /\ mail' \in Seq(CodingTold) /\ Len(mail') <= MaxMail /\ InOrder'
          /\ \A y : In(mail', y) <=> In(mail, y) \/ y = x
      BY <1>f, <1>i, <2>1, <2>2, <2>4, <2>5, CodingSends
    <2>7. \A y \in CodingTold : In(mail', y) =>
              In(mail, y)
                \/ (Fits(y)'
                     /\ (y.kind = "approval"
                          => RunIn(issued', y) \in Coding!Runs /\ state[RunIn(issued', y)] # "ENDED"))
      <3>1. Fits(x)' BY <1>1, <1>n, <2>1 DEF Fits
      <3>2. RunIn(issued', x) = s BY <1>1, <2>1 DEF RunIn
      <3> QED BY <1>0, <2>6, <3>1, <3>2
    <2>8. \A k, a : Slip(k, a) = x => k = "approval" /\ a = n BY <2>p, SlipsDiffer
    <2>9. \A a : /\ In(mail', Slip("end", a)) <=> In(mail, Slip("end", a))
                 /\ In(mail', Slip("start", a)) <=> In(mail, Slip("start", a))
                 /\ In(mail', Slip("approval", a)) <=> In(mail, Slip("approval", a)) \/ a = n
      BY <2>6, <2>8, <2>p
    <2>10. run # Coding!Nothing => run \in Coding!Runs
      BY <1>i, RuntimeFacts DEF CodingInv, ViewOK, Coding!Runs, Coding!Nothing
    <2>11. ASSUME EndsAreTold PROVE EndsAreTold'
      <3>1. \A r \in Coding!Runs : state'[r] = "ENDED" <=> state[r] = "ENDED"
        BY <1>0, <1>4, <1>5
      <3> QED BY <1>0, <2>9, <2>10, <2>11, <3>1 DEF EndsAreTold, Coding!view
    <2>12. ASSUME EndsAreTold, ApprovalsAreTold PROVE ApprovalsAreTold'
      <3>a. approval \in 0..Len(issued) /\ detail \in 0..Len(issued) BY DEF CodingInv, ViewOK
      <3>1. approval' # Coding!Nothing => pending'[run'] = approval' /\ ~Answering(asks', approval')
        <4> SUFFICES ASSUME approval # Coding!Nothing
            PROVE pending'[run] = approval /\ ~Answering(asks, approval)
          BY <1>0 DEF Coding!view
        <4>1. pending[run] = approval /\ ~Answering(asks, approval)
          BY <2>12 DEF ApprovalsAreTold
        <4>2. run # Coding!Nothing
          BY DEF CodingInv, ViewOK, Coding!ShownIsOneRun, Coding!Running
        <4>3. run # s BY <1>0, <1>i, <2>10, <4>1, <4>2 DEF RuntimeOK
        <4> QED BY <1>4, <2>10, <4>1, <4>2, <4>3
      <3>2. ASSUME NEW a \in 1..Len(issued'), In(mail', Slip("approval", a))
            PROVE  /\ pending'[issued'[a]] = a
                   /\ ~Answering(asks', a)
                   /\ detail' # a
                   /\ approval' # a
        <4>1. CASE a = n
          <5>1. pending'[issued'[a]] = a BY <1>1, <1>5, <4>1
          <5>2. detail' # a /\ approval' # a BY <1>0, <1>n, <3>a, <4>1 DEF Coding!view
          <5>3. \A k \in {"approve", "deny"} : Slip(k, n) \in Wanted /\ Slip(k, n).kind = k
                  /\ Slip(k, n).of = n
            BY <1>n, AWish
          <5>4. \A k \in {"approve", "deny"} : ~In(asks, Slip(k, n))
            BY <1>i, <1>n, <5>3 DEF AsksOK
          <5> QED BY <1>0, <4>1, <5>1, <5>2, <5>4 DEF Answering
        <4>2. CASE a # n
          <5>1. a \in 1..Len(issued) BY <1>1, <1>n, <4>2
          <5>2. In(mail, Slip("approval", a)) BY <2>9, <3>2, <4>2
          <5>3. pending[issued[a]] = a /\ ~Answering(asks, a) /\ detail # a /\ approval # a
            BY <2>12, <5>1, <5>2 DEF ApprovalsAreTold
          <5>4. issued[a] # s BY <1>0, <1>i, <5>1, <5>3 DEF RuntimeOK, Coding!Nothing
          <5> QED BY <1>0, <1>1, <1>4, <1>f, <5>1, <5>3, <5>4 DEF Coding!view
        <4> QED BY <4>1, <4>2
      <3>3. (run' # Coding!Nothing /\ pending'[run'] # Coding!Nothing
               /\ approval' # pending'[run']) =>
              In(mail', Slip("approval", pending'[run'])) \/ Answering(asks', pending'[run'])
        <4> SUFFICES ASSUME run # Coding!Nothing, pending'[run] # Coding!Nothing, approval # pending'[run]
                     PROVE  In(mail', Slip("approval", pending'[run])) \/ Answering(asks, pending'[run])
          BY <1>0 DEF Coding!view
        <4>1. CASE run = s BY <1>5, <2>9, <4>1
        <4>2. CASE run # s BY <1>4, <2>9, <2>10, <2>12, <4>2 DEF ApprovalsAreTold
        <4> QED BY <4>1, <4>2
      <3>4. \A r \in Coding!Runs : In(mail', Slip("start", r)) /\ pending'[r] # Coding!Nothing =>
               In(mail', Slip("approval", pending'[r]))
        BY <1>4, <1>5, <2>9, <2>12 DEF ApprovalsAreTold
      <3> QED BY <3>1, <3>2, <3>3, <3>4 DEF ApprovalsAreTold
    <2>13. ~lost' => EndsAreTold' /\ ApprovalsAreTold' BY <2>2, <2>11, <2>12 DEF CodingInv
    <2>14. CodingSwitches' BY <1>0, <1>i, <2>2 DEF CodingSwitches, Coding!view
    <2> QED BY <1>0, <1>6, <1>7, <1>8, <2>6, <2>7, <2>13, <2>14, ViewStays
  <1>10. CASE ~connected
    <2>1. mail' = mail /\ lost' = TRUE BY <1>2, <1>10 DEF Coding!Emit
    <2>2. CodingSwitches' BY <1>0, <1>i, <2>1 DEF CodingSwitches, Coding!view
    <2>3. \A i \in 1..Len(mail) : mail[i] \in CodingTold /\ In(mail, mail[i])
      BY <1>i, ElementOfSeq DEF MailOK, In
    <2>4. \A y \in CodingTold : In(mail, y) => RunIn(issued', y) = RunIn(issued, y)
      <3> SUFFICES ASSUME NEW y \in CodingTold, In(mail, y)
          PROVE RunIn(issued', y) = RunIn(issued, y)
        OBVIOUS
      <3>1. Fits(y) BY <1>i DEF MailOK
      <3> QED BY <1>7, <1>i, <3>1, FitsStays DEF RunIn
    <2>5. InOrder' BY <1>i, <2>1, <2>3, <2>4 DEF MailOK, InOrder, Wrong
    <2>6. mail' \in Seq(CodingTold) /\ Len(mail') <= MaxMail BY <1>i, <2>1 DEF MailOK
    <2> QED BY <1>0, <1>6, <1>7, <1>8, <2>1, <2>2, <2>5, <2>6, ViewStays
  <1> QED BY <1>9, <1>10

(* A run that works or waits goes on, or ends; it waits for nothing.         *)
LEMMA RunMoves ==
    ASSUME Coding!CodingClientAssumption, CodingInv, NEW r \in Coding!Runs,
           state[r] \in {"RUNNING", "WAITING"},
           NEW v \in {"RUNNING", "ENDED"}, state' = [state EXCEPT ![r] = v], issued' = issued,
           pending' \in [Coding!Runs -> Nat], pending'[r] = Coding!Nothing,
           \A q \in Coding!Runs : q # r => pending'[q] = pending[q]
    PROVE  /\ RuntimeOK' /\ Forward /\ state'[r] = v
           /\ \A q \in Coding!Runs : q # r => state'[q] = state[q]
  <1>i. RuntimeOK BY DEF CodingInv
  <1>1. /\ state' \in RunStates
        /\ state'[r] = v
        /\ \A q \in Coding!Runs : q # r => state'[q] = state[q]
    BY <1>i DEF RuntimeOK, RunStates
  <1>2. Len(issued) \in Nat /\ \A a \in 1..Len(issued) : issued[a] \in Coding!Runs
    BY <1>i, RuntimeFacts
  <1>3. ASSUME NEW q \in Coding!Runs
        PROVE  /\ pending'[q] <= Len(issued')
               /\ pending'[q] # Coding!Nothing <=> state'[q] = "WAITING"
               /\ pending'[q] # Coding!Nothing => issued'[pending'[q]] = q
    <2>1. CASE q = r BY <1>1, <1>2, <2>1 DEF Coding!Nothing
    <2>2. CASE q # r BY <1>1, <1>i, <2>2 DEF RuntimeOK
    <2> QED BY <2>1, <2>2
  <1>4. \A a \in 1..Len(issued) : state'[issued[a]] # "NONE" BY <1>1, <1>2, <1>i DEF RuntimeOK
  <1>5. RuntimeOK' BY <1>1, <1>3, <1>4, <1>i DEF RuntimeOK
  <1>6. \A q \in Coding!Runs : /\ state[q] # "NONE" => state'[q] # "NONE"
                               /\ state[q] = "ENDED" => state'[q] = "ENDED"
    BY <1>1
  <1>7. Forward BY <1>2, <1>6 DEF Forward
  <1> QED BY <1>1, <1>5, <1>7

LEMMA MoveIsTold ==
    ASSUME Coding!CodingClientAssumption, CodingInv, NEW r \in Coding!Runs,
           state[r] \in {"RUNNING", "WAITING"},
           NEW v \in {"RUNNING", "ENDED"}, state' = [state EXCEPT ![r] = v], issued' = issued,
           pending' \in [Coding!Runs -> Nat], pending'[r] = Coding!Nothing,
           \A q \in Coding!Runs : q # r => pending'[q] = pending[q],
           v = "ENDED" => \A y : In(mail', y) <=> In(mail, y) \/ y = Slip("end", r),
           v = "RUNNING" => \A y : In(mail', y) <=> In(mail, y),
           \A a : Answering(asks', a) => Answering(asks, a),
           \A a : a # pending[r] /\ Answering(asks, a) => Answering(asks', a),
           pending[r] # Coding!Nothing => Answering(asks, pending[r]),
           UNCHANGED Coding!view, EndsAreTold, ApprovalsAreTold
    PROVE  EndsAreTold' /\ ApprovalsAreTold'
  <1>i. RuntimeOK BY DEF CodingInv
  <1>0. UNCHANGED <<mounted, starting, run, says, activity, approval, detail>>
    BY DEF Coding!view
  <1>1. state'[r] = v /\ \A q \in Coding!Runs : q # r => state'[q] = state[q] BY RunMoves
  <1>2. run # Coding!Nothing => run \in Coding!Runs
    BY <1>i, RuntimeFacts DEF CodingInv, ViewOK, Coding!Runs, Coding!Nothing
  <1>3. \A k, a : Slip(k, a) = Slip("end", r) => k = "end" /\ a = r BY SlipsDiffer
  <1>4. \A a : /\ In(mail', Slip("start", a)) <=> In(mail, Slip("start", a))
               /\ In(mail', Slip("approval", a)) <=> In(mail, Slip("approval", a))
               /\ In(mail, Slip("end", a)) => In(mail', Slip("end", a))
               /\ a # r => (In(mail', Slip("end", a)) <=> In(mail, Slip("end", a)))
    <2>1. CASE v = "ENDED" BY <1>3, <2>1
    <2>2. CASE v = "RUNNING" BY <2>2
    <2> QED BY <2>1, <2>2
  <1>5. /\ v = "ENDED" => In(mail', Slip("end", r))
        /\ v = "RUNNING" => (In(mail', Slip("end", r)) <=> In(mail, Slip("end", r)))
    OBVIOUS
  <1>6. EndsAreTold'
    <2>1. run' # Coding!Nothing =>
             (says' = "RUNNING" <=> state'[run'] # "ENDED" \/ In(mail', Slip("end", run')))
      <3> SUFFICES ASSUME run # Coding!Nothing
                   PROVE  says = "RUNNING" <=> state'[run] # "ENDED" \/ In(mail', Slip("end", run))
        BY <1>0
      <3>1. says = "RUNNING" <=> state[run] # "ENDED" \/ In(mail, Slip("end", run))
        BY DEF EndsAreTold
      <3>2. CASE run = r BY <1>1, <1>5, <3>1, <3>2
      <3>3. CASE run # r BY <1>1, <1>2, <1>4, <3>1, <3>3
      <3> QED BY <3>2, <3>3
    <2>2. ASSUME NEW q \in Coding!Runs, In(mail', Slip("start", q)), state'[q] = "ENDED"
          PROVE  In(mail', Slip("end", q))
      <3>1. CASE q = r BY <1>1, <1>5, <2>2, <3>1
      <3>2. CASE q # r BY <1>1, <1>4, <2>2, <3>2 DEF EndsAreTold
      <3> QED BY <3>1, <3>2
    <2> QED BY <2>1, <2>2 DEF EndsAreTold
  <1>7. ApprovalsAreTold'
    <2>1. ASSUME NEW a \in 1..Len(issued), pending[issued[a]] = a, ~Answering(asks, a)
          PROVE  pending'[issued[a]] = a
      <3>1. issued[a] \in Coding!Runs /\ a # Coding!Nothing
        BY <1>i, RuntimeFacts DEF Coding!Nothing
      <3> QED BY <2>1, <3>1
    <2>2. approval' # Coding!Nothing => pending'[run'] = approval' /\ ~Answering(asks', approval')
      <3> SUFFICES ASSUME approval # Coding!Nothing
          PROVE pending'[run] = approval /\ ~Answering(asks', approval)
        BY <1>0
      <3>1. pending[run] = approval /\ ~Answering(asks, approval) BY DEF ApprovalsAreTold
      <3>2. run # Coding!Nothing BY DEF CodingInv, ViewOK, Coding!ShownIsOneRun, Coding!Running
      <3> QED BY <1>2, <3>1, <3>2
    <2>3. \A a \in 1..Len(issued') : In(mail', Slip("approval", a)) =>
             pending'[issued'[a]] = a /\ ~Answering(asks', a) /\ detail' # a /\ approval' # a
      BY <1>0, <1>4, <2>1 DEF ApprovalsAreTold
    <2>4. (run' # Coding!Nothing /\ pending'[run'] # Coding!Nothing
             /\ approval' # pending'[run']) =>
             In(mail', Slip("approval", pending'[run'])) \/ Answering(asks', pending'[run'])
      <3> SUFFICES ASSUME run # Coding!Nothing, pending'[run] # Coding!Nothing, approval # pending'[run]
                   PROVE  In(mail', Slip("approval", pending'[run])) \/ Answering(asks', pending'[run])
        BY <1>0
      <3>1. run \in Coding!Runs /\ run # r BY <1>2
      <3>2. pending'[run] = pending[run] BY <3>1
      <3>3. In(mail, Slip("approval", pending[run])) \/ Answering(asks, pending[run])
        BY <3>2 DEF ApprovalsAreTold
      <3>4. pending[run] # pending[r] BY <1>i, <3>1, <3>2 DEF RuntimeOK
      <3> QED BY <1>4, <3>2, <3>3, <3>4
    <2>5. \A q \in Coding!Runs : In(mail', Slip("start", q)) /\ pending'[q] # Coding!Nothing =>
             In(mail', Slip("approval", pending'[q]))
      BY <1>4 DEF ApprovalsAreTold
    <2> QED BY <2>2, <2>3, <2>4, <2>5 DEF ApprovalsAreTold
  <1> QED BY <1>6, <1>7

(* The end of a run is told, whoever asks for it.                            *)
LEMMA CodingRunEnds ==
    ASSUME Coding!CodingClientAssumption, CodingInv, NEW r \in Coding!Runs,
           state[r] \in {"RUNNING", "WAITING"},
           state' = [state EXCEPT ![r] = "ENDED"], issued' = issued,
           pending' \in [Coding!Runs -> Nat], pending'[r] = Coding!Nothing,
           \A q \in Coding!Runs : q # r => pending'[q] = pending[q],
           Coding!Emit("end", r), AsksOK', UNCHANGED connected, UNCHANGED Coding!view,
           \A a : Answering(asks', a) => Answering(asks, a),
           \A a : a # pending[r] /\ Answering(asks, a) => Answering(asks', a),
           pending[r] # Coding!Nothing => Answering(asks, pending[r])
    PROVE  CodingInv'
  <1>i. RuntimeOK /\ MailOK /\ CodingSwitches BY DEF CodingInv
  <1>1. RuntimeOK' /\ Forward /\ state'[r] = "ENDED" BY RunMoves
  <1>2. CASE connected
    <2>1. /\ mail' \in Seq(CodingTold) /\ Len(mail') <= MaxMail /\ InOrder' /\ lost' = lost
          /\ \A y : In(mail', y) <=> In(mail, y) \/ y = Slip("end", r)
      <3>1. state[r] # "ENDED" OBVIOUS
      <3> QED BY <1>2, <1>i, <3>1, TellsOfRun
    <2>2. r \in Nat BY <1>i, RuntimeFacts
    <2>3. Slip("end", r) \in CodingTold /\ Slip("end", r).kind = "end" /\ Slip("end", r).of = r
      BY <2>2, ASlip
    <2>4. Fits(Slip("end", r))' BY <1>1, <2>3 DEF Fits
    <2>5. ~lost' => EndsAreTold' /\ ApprovalsAreTold'
      <3> SUFFICES ASSUME ~lost PROVE EndsAreTold' /\ ApprovalsAreTold' BY <2>1
      <3>1. EndsAreTold /\ ApprovalsAreTold BY DEF CodingInv
      <3> QED BY <2>1, <3>1, MoveIsTold
    <2>6. CodingSwitches' BY <1>i, <2>1 DEF CodingSwitches, Coding!view
    <2>7. \A y \in CodingTold : In(mail', y) =>
              In(mail, y)
                \/ (Fits(y)'
                     /\ (y.kind = "approval"
                          => RunIn(issued', y) \in Coding!Runs /\ state[RunIn(issued', y)] # "ENDED"))
      BY <2>1, <2>3, <2>4
    <2> QED BY <1>1, <2>1, <2>5, <2>6, <2>7, ViewStays
  <1>3. CASE ~connected
    <2>1. mail' = mail /\ lost' = TRUE BY <1>3 DEF Coding!Emit
    <2>2. CodingSwitches' BY <1>i, <2>1 DEF CodingSwitches, Coding!view
    <2>3. mail' \in Seq(CodingTold) /\ Len(mail') <= MaxMail /\ InOrder'
      BY <1>i, <2>1 DEF MailOK, InOrder
    <2> QED BY <1>1, <2>1, <2>2, <2>3, ViewStays
  <1> QED BY <1>2, <1>3

LEMMA EndsStep ==
    ASSUME Coding!CodingClientAssumption, CodingInv, NEW s \in Coding!Runs, Coding!Ends(s)
        PROVE CodingInv'
  <1>i. RuntimeOK /\ AsksOK BY DEF CodingInv
  <1>0. /\ state[s] = "RUNNING"
        /\ state' = [state EXCEPT ![s] = "ENDED"]
        /\ Coding!Emit("end", s)
        /\ issued' = issued /\ pending' = pending /\ connected' = connected /\ asks' = asks
        /\ UNCHANGED Coding!view
    BY DEF Coding!Ends
  <1>1. pending' \in [Coding!Runs -> Nat] /\ pending[s] = Coding!Nothing
    BY <1>0, <1>i DEF RuntimeOK
  <1>2. AsksOK' BY <1>0, <1>i DEF AsksOK
  <1> QED BY <1>0, <1>1, <1>2, CodingRunEnds

(* Nothing but the requests changes: none is added, and those that are gone  *)
(* answer no approval that a run waits for.                                  *)
LEMMA OnlyAsked ==
    ASSUME Coding!CodingClientAssumption, CodingInv, AsksOK',
           UNCHANGED <<state, issued, pending, connected, mail, lost>>, UNCHANGED Coding!view,
           \A a : Answering(asks', a) => Answering(asks, a),
           \A s \in Coding!Runs : pending[s] # Coding!Nothing /\ Answering(asks, pending[s])
             => Answering(asks', pending[s])
    PROVE  CodingInv'
  <1>i. RuntimeOK /\ MailOK /\ CodingSwitches BY DEF CodingInv
  <1>0. UNCHANGED <<mounted, starting, run, says, activity, approval, detail>>
    BY DEF Coding!view
  <1>1. RuntimeOK' BY <1>i DEF RuntimeOK, RunStates
  <1>2. Forward BY <1>i, RuntimeFacts DEF Forward
  <1>3. mail' \in Seq(CodingTold) /\ Len(mail') <= MaxMail /\ InOrder'
    BY <1>i DEF MailOK, InOrder
  <1>4. CodingSwitches' BY <1>0, <1>i DEF CodingSwitches
  <1>5. run # Coding!Nothing => run \in Coding!Runs
    BY <1>i, RuntimeFacts DEF CodingInv, ViewOK, Coding!Runs, Coding!Nothing
  <1>6. EndsAreTold => EndsAreTold' BY <1>0 DEF EndsAreTold
  <1>7. ApprovalsAreTold => ApprovalsAreTold' BY <1>0, <1>5 DEF ApprovalsAreTold
  <1>8. ~lost' => EndsAreTold' /\ ApprovalsAreTold' BY <1>6, <1>7 DEF CodingInv
  <1> QED BY <1>1, <1>2, <1>3, <1>4, <1>8, ViewStays

(* The request that is served answers one approval at most.                  *)
LEMMA HeadAnswers ==
    ASSUME Coding!CodingClientAssumption, AsksOK, asks # <<>>, asks' = Tail(asks),
           UNCHANGED issued
    PROVE  /\ AsksOK' /\ Head(asks) \in Wanted
           /\ \A a : Answering(asks', a) => Answering(asks, a)
           /\ \A a : Answering(asks, a) =>
                 Answering(asks', a) \/ (Head(asks).kind \in {"approve", "deny"} /\ Head(asks).of = a)
           /\ Head(asks).kind \in {"approve", "deny"} =>
                 Head(asks).of \in 1..Len(issued) /\ Answering(asks, Head(asks).of)
  <1>1. /\ asks' \in Seq(Wanted) /\ Len(asks') <= MaxMail
        /\ Head(asks) \in Wanted /\ In(asks, Head(asks))
        /\ \A y : (In(asks', y) => In(asks, y)) /\ (In(asks, y) => In(asks', y) \/ y = Head(asks))
    BY Served
  <1>2. AsksOK' BY <1>1 DEF AsksOK
  <1>3. PICK h \in Wanted : h = Head(asks) BY <1>1
  <1>4. h = Slip(h.kind, h.of) BY DEF Wanted, Slip
  <1>5. \A k, a : Slip(k, a) = h => k = h.kind /\ a = h.of BY <1>4, SlipsDiffer
  <1>6. \A a : Answering(asks', a) => Answering(asks, a) BY <1>1 DEF Answering
  <1>7. \A a : Answering(asks, a) => Answering(asks', a) \/ (h.kind \in {"approve", "deny"} /\ h.of = a)
    BY <1>1, <1>3, <1>5 DEF Answering
  <1>8. h.kind \in {"approve", "deny"} => h.of \in 1..Len(issued) BY <1>1, <1>3 DEF AsksOK
  <1>9. h.kind \in {"approve", "deny"} => Answering(asks, h.of)
    BY <1>1, <1>3, <1>4 DEF Answering
  <1> QED BY <1>1, <1>2, <1>3, <1>6, <1>7, <1>8, <1>9

LEMMA ServeRunStep ==
    ASSUME Coding!CodingClientAssumption, CodingInv, connected, AsksOK', Coding!ServeRun,
           UNCHANGED connected, UNCHANGED Coding!view,
           \A a : Answering(asks', a) <=> Answering(asks, a)
    PROVE  CodingInv'
  <1>i. RuntimeOK /\ MailOK /\ CodingSwitches BY DEF CodingInv
  <1>0. UNCHANGED <<mounted, starting, run, says, activity, approval, detail>>
    BY DEF Coding!view
  <1>1. CASE UNCHANGED <<Coding!runtime, mail, lost>>
    BY <1>1, OnlyAsked DEF Coding!runtime
  <1>2. ASSUME NEW s \in Coding!Runs, state[s] = "NONE",
  state' = [state EXCEPT ![s] = "RUNNING"],
               UNCHANGED <<issued, pending>>, Coding!Emit("start", s)
        PROVE  CodingInv'
    <2>1. /\ state' \in RunStates
          /\ state'[s] = "RUNNING"
          /\ \A r \in Coding!Runs : r # s => state'[r] = state[r]
      BY <1>2, <1>i DEF RuntimeOK, RunStates
    <2>2. /\ Len(issued) \in Nat
          /\ (\A a \in 1..Len(issued) : issued[a] \in Coding!Runs)
          /\ s \in Nat
      BY <1>i, RuntimeFacts
    <2>3. RuntimeOK'
      <3>1. pending[s] = Coding!Nothing BY <1>2, <1>i DEF RuntimeOK
      <3>2. \A r \in Coding!Runs : /\ pending'[r] <= Len(issued')
                                   /\ pending'[r] # Coding!Nothing <=> state'[r] = "WAITING"
                                   /\ pending'[r] # Coding!Nothing => issued'[pending'[r]] = r
        BY <1>2, <1>i, <2>1, <3>1 DEF RuntimeOK
      <3>3. \A a \in 1..Len(issued) : state'[issued[a]] # "NONE"
        BY <1>i, <2>1, <2>2 DEF RuntimeOK
      <3> QED BY <1>2, <1>i, <2>1, <3>2, <3>3 DEF RuntimeOK
    <2>4. Forward BY <1>2, <2>1, <2>2 DEF Forward
    <2>5. /\ mail' \in Seq(CodingTold) /\ Len(mail') <= MaxMail /\ InOrder' /\ lost' = lost
          /\ \A y : In(mail', y) <=> In(mail, y) \/ y = Slip("start", s)
      <3>1. state[s] # "ENDED" BY <1>2
      <3> QED BY <1>2, <1>i, <3>1, TellsOfRun
    <2>6. Slip("start", s) \in CodingTold /\ Slip("start", s).kind = "start" /\ Slip("start", s).of = s
      BY <2>2, ASlip
    <2>7. Fits(Slip("start", s))' BY <2>1, <2>6 DEF Fits
    <2>8. \A k, a : Slip(k, a) = Slip("start", s) => k = "start" /\ a = s BY SlipsDiffer
    <2>9. \A a : /\ In(mail', Slip("end", a)) <=> In(mail, Slip("end", a))
                 /\ In(mail', Slip("approval", a)) <=> In(mail, Slip("approval", a))
                 /\ In(mail', Slip("start", a)) <=> In(mail, Slip("start", a)) \/ a = s
      BY <2>5, <2>8
    <2>10. run # Coding!Nothing => run \in Coding!Runs /\ run # s
      BY <1>2, <1>i, RuntimeFacts DEF CodingInv, ViewOK, Coding!Runs, Coding!Nothing
    <2>11. ASSUME EndsAreTold PROVE EndsAreTold'
      BY <1>0, <2>1, <2>9, <2>10, <2>11 DEF EndsAreTold
    <2>12. ASSUME ApprovalsAreTold PROVE ApprovalsAreTold'
      <3>1. pending'[s] = Coding!Nothing BY <1>2, <1>i DEF RuntimeOK
      <3> QED BY <1>0, <1>2, <2>9, <2>12, <3>1 DEF ApprovalsAreTold
    <2>13. ~lost' => EndsAreTold' /\ ApprovalsAreTold' BY <2>5, <2>11, <2>12 DEF CodingInv
    <2>14. CodingSwitches' BY <1>0, <1>i, <2>5 DEF CodingSwitches
    <2>15. \A y \in CodingTold : In(mail', y) =>
              In(mail, y)
                \/ (Fits(y)'
                     /\ (y.kind = "approval"
                          => RunIn(issued', y) \in Coding!Runs /\ state[RunIn(issued', y)] # "ENDED"))
      BY <2>5, <2>6, <2>7
    <2> QED BY <2>3, <2>4, <2>5, <2>13, <2>14, <2>15, ViewStays
  <1> QED BY <1>1, <1>2 DEF Coding!ServeRun

(* The record of a run is told: it is about no run that the panel shows.     *)
LEMMA GetStep ==
    ASSUME Coding!CodingClientAssumption, CodingInv, connected, AsksOK', Coding!Get,
           UNCHANGED connected, UNCHANGED Coding!view,
           \A a : Answering(asks', a) <=> Answering(asks, a)
    PROVE  CodingInv'
  <1>i. RuntimeOK /\ MailOK /\ CodingSwitches BY DEF CodingInv
  <1>0. UNCHANGED <<mounted, starting, run, says, activity, approval, detail>>
    BY DEF Coding!view
  <1>1. PICK a \in 0..Len(issued) : Coding!Emit("record", a) BY DEF Coding!Get, Coding!Approvals
  <1>2. UNCHANGED <<state, issued, pending>> BY DEF Coding!Get, Coding!runtime
  <1>3. Len(issued) \in Nat /\ MaxMail \in Nat BY <1>i, RuntimeFacts
  <1>4. a \in Nat BY <1>3
  <1>p. PICK x : x = Slip("record", a) OBVIOUS
  <1>5. x \in CodingTold /\ x.kind = "record" /\ x.of = a BY <1>4, <1>p, ASlip
  <1>6. mail' = Append(mail, x) /\ Len(mail) < MaxMail /\ lost' = lost
    BY <1>1, <1>p DEF Coding!Emit, Slip
  <1>7. \A y \in CodingTold : ~Wrong(issued', y, x) BY <1>5 DEF Wrong
  <1>8. /\ mail' \in Seq(CodingTold) /\ Len(mail') <= MaxMail /\ InOrder'
        /\ \A y : In(mail', y) <=> In(mail, y) \/ y = x
    BY <1>2, <1>3, <1>5, <1>6, <1>7, <1>i, CodingSends
  <1>9. Fits(x)' BY <1>2, <1>5 DEF Fits
  <1>10. \A k, b : Slip(k, b) = x => k = "record" BY <1>p, SlipsDiffer
  <1>11. \A b : /\ In(mail', Slip("end", b)) <=> In(mail, Slip("end", b))
                /\ In(mail', Slip("approval", b)) <=> In(mail, Slip("approval", b))
                /\ In(mail', Slip("start", b)) <=> In(mail, Slip("start", b))
    BY <1>8, <1>10
  <1>12. RuntimeOK' BY <1>2, <1>i DEF RuntimeOK, RunStates
  <1>13. Forward BY <1>2, <1>3 DEF Forward
  <1>14. EndsAreTold => EndsAreTold' BY <1>0, <1>2, <1>11 DEF EndsAreTold
  <1>15. ApprovalsAreTold => ApprovalsAreTold' BY <1>0, <1>2, <1>11 DEF ApprovalsAreTold
  <1>16. ~lost' => EndsAreTold' /\ ApprovalsAreTold' BY <1>6, <1>14, <1>15 DEF CodingInv
  <1>17. CodingSwitches' BY <1>0, <1>6, <1>i DEF CodingSwitches
  <1>18. \A y \in CodingTold : In(mail', y) =>
            In(mail, y)
              \/ (Fits(y)'
                   /\ (y.kind = "approval"
                        => RunIn(issued', y) \in Coding!Runs /\ state[RunIn(issued', y)] # "ENDED"))
    BY <1>5, <1>8, <1>9
  <1> QED BY <1>8, <1>12, <1>13, <1>16, <1>17, <1>18, ViewStays

LEMMA ServeResumeStep ==
    ASSUME Coding!CodingClientAssumption, CodingInv, AsksOK', NEW a \in 1..Len(issued),
           NEW b \in BOOLEAN,
           Coding!ServeResume(a, b), UNCHANGED connected, UNCHANGED Coding!view,
           Answering(asks, a), \A c : Answering(asks', c) => Answering(asks, c),
           \A c : c # a /\ Answering(asks, c) => Answering(asks', c)
    PROVE  CodingInv'
  <1>i. RuntimeOK /\ MailOK /\ CodingSwitches BY DEF CodingInv
  <1>0. UNCHANGED <<mounted, starting, run, says, activity, approval, detail>>
    BY DEF Coding!view
  <1>1. PICK r \in Coding!Runs : r = issued[a] BY <1>i, RuntimeFacts
  <1>2. Len(issued) \in Nat /\ a # Coding!Nothing BY <1>i, RuntimeFacts DEF Coding!Nothing
  <1>3. CASE ~Coding!Waits(a)
    <2>1. UNCHANGED <<Coding!runtime, mail, lost>> BY <1>3 DEF Coding!ServeResume
    <2>2. ASSUME NEW s \in Coding!Runs, pending[s] # Coding!Nothing PROVE pending[s] # a
      BY <1>2, <1>3, <1>i, <2>2 DEF Coding!Waits, RuntimeOK
    <2> QED BY <2>1, <2>2, OnlyAsked DEF Coding!runtime
  <1>4. CASE Coding!Waits(a)
    <2>1. /\ pending' = [pending EXCEPT ![r] = Coding!Nothing] /\ issued' = issued
          /\ state' = [state EXCEPT ![r] = IF b THEN "RUNNING" ELSE "ENDED"]
          /\ IF b THEN UNCHANGED <<mail, lost>> ELSE Coding!Emit("end", r)
      BY <1>1, <1>4 DEF Coding!ServeResume
    <2>2. state[r] = "WAITING" /\ pending[r] = a BY <1>1, <1>4 DEF Coding!Waits
    <2>3. /\ pending' \in [Coding!Runs -> Nat] /\ pending'[r] = Coding!Nothing
          /\ \A q \in Coding!Runs : q # r => pending'[q] = pending[q]
      BY <1>i, <2>1 DEF RuntimeOK, Coding!Nothing
    <2>4. CASE ~b
      <3>1. state' = [state EXCEPT ![r] = "ENDED"] /\ Coding!Emit("end", r) BY <2>1, <2>4
      <3> QED BY <2>1, <2>2, <2>3, <3>1, CodingRunEnds
    <2>5. CASE b
      <3>1. state' = [state EXCEPT ![r] = "RUNNING"] /\ mail' = mail /\ lost' = lost
        BY <2>1, <2>5
      <3>2. RuntimeOK' /\ Forward BY <2>1, <2>2, <2>3, <3>1, RunMoves
      <3>3. ~lost' => EndsAreTold' /\ ApprovalsAreTold'
        <4> SUFFICES ASSUME ~lost PROVE EndsAreTold' /\ ApprovalsAreTold' BY <3>1
        <4>1. EndsAreTold /\ ApprovalsAreTold BY DEF CodingInv
        <4> QED BY <2>1, <2>2, <2>3, <3>1, <4>1, MoveIsTold
      <3>4. mail' \in Seq(CodingTold) /\ Len(mail') <= MaxMail /\ InOrder'
        BY <1>i, <2>1, <3>1 DEF MailOK, InOrder
      <3>5. CodingSwitches' BY <1>0, <1>i, <3>1 DEF CodingSwitches
      <3> QED BY <3>1, <3>2, <3>3, <3>4, <3>5, ViewStays
    <2> QED BY <2>4, <2>5
  <1> QED BY <1>3, <1>4

LEMMA CodingServeStep ==
    ASSUME Coding!CodingClientAssumption, CodingInv, Coding!Serve
    PROVE  CodingInv'
  <1>i. AsksOK BY DEF CodingInv
  <1>0. /\ connected
        /\ asks # <<>>
        /\ asks' = Tail(asks)
        /\ UNCHANGED connected
        /\ UNCHANGED Coding!view
    BY DEF Coding!Serve
  <1>s. issued' = issued
    <2>1. Head(asks).kind \in {"run", "cancel", "approve", "deny", "get"}
      <3>1. Head(asks) \in Wanted BY <1>0, <1>i, Served
      <3> QED BY <3>1 DEF Wanted
    <2>2. CASE Head(asks).kind = "run"
      <3>1. Coding!ServeRun BY <2>2 DEF Coding!Serve
      <3> QED BY <3>1 DEF Coding!ServeRun, Coding!runtime
    <2>3. CASE Head(asks).kind = "cancel"
      <3>1. UNCHANGED Coding!runtime BY <2>3 DEF Coding!Serve
      <3> QED BY <3>1 DEF Coding!runtime
    <2>4. CASE Head(asks).kind = "get"
      <3>1. Coding!Get BY <2>4 DEF Coding!Serve
      <3> QED BY <3>1 DEF Coding!Get, Coding!runtime
    <2>5. ASSUME NEW b \in BOOLEAN, Coding!ServeResume(Head(asks).of, b) PROVE issued' = issued
      BY <2>5 DEF Coding!ServeResume, Coding!runtime
    <2>6. Head(asks).kind = "approve" => Coding!ServeResume(Head(asks).of, TRUE)
      BY DEF Coding!Serve
    <2>7. Head(asks).kind = "deny" => Coding!ServeResume(Head(asks).of, FALSE)
      BY DEF Coding!Serve
    <2> QED BY <2>1, <2>2, <2>3, <2>4, <2>5, <2>6, <2>7
  <1>1. /\ AsksOK' /\ Head(asks) \in Wanted
        /\ \A a : Answering(asks', a) => Answering(asks, a)
        /\ \A a : Answering(asks, a) =>
              Answering(asks', a) \/ (Head(asks).kind \in {"approve", "deny"} /\ Head(asks).of = a)
        /\ Head(asks).kind \in {"approve", "deny"} =>
              Head(asks).of \in 1..Len(issued) /\ Answering(asks, Head(asks).of)
    BY <1>0, <1>i, <1>s, HeadAnswers
  <1>2. CASE Head(asks).kind = "run"
    <2>1. Coding!ServeRun BY <1>2 DEF Coding!Serve
    <2>2. \A a : Answering(asks', a) <=> Answering(asks, a) BY <1>1, <1>2
    <2> QED BY <1>0, <1>1, <2>1, <2>2, ServeRunStep
  <1>3. CASE Head(asks).kind = "cancel"
    <2>1. UNCHANGED <<Coding!runtime, mail, lost>> BY <1>3 DEF Coding!Serve
    <2>2. \A a : Answering(asks', a) <=> Answering(asks, a) BY <1>1, <1>3
    <2> QED BY <1>0, <1>1, <2>1, <2>2, OnlyAsked DEF Coding!runtime
  <1>4. CASE Head(asks).kind = "get"
    <2>1. Coding!Get BY <1>4 DEF Coding!Serve
    <2>2. \A a : Answering(asks', a) <=> Answering(asks, a) BY <1>1, <1>4
    <2> QED BY <1>0, <1>1, <2>1, <2>2, GetStep
  <1>5. ASSUME NEW b \in BOOLEAN, Head(asks).kind = (IF b THEN "approve" ELSE "deny")
      PROVE CodingInv'
    <2>1. PICK a : a = Head(asks).of OBVIOUS
    <2>2. Coding!ServeResume(a, b) BY <1>5, <2>1 DEF Coding!Serve
    <2>3. a \in 1..Len(issued) /\ Answering(asks, a) BY <1>1, <1>5, <2>1
    <2>4. \A c : c # a /\ Answering(asks, c) => Answering(asks', c) BY <1>1, <2>1
    <2> QED BY <1>0, <1>1, <2>2, <2>3, <2>4, ServeResumeStep
  <1>6. Head(asks).kind \in {"run", "cancel", "approve", "deny", "get"} BY <1>1 DEF Wanted
  <1> QED BY <1>2, <1>3, <1>4, <1>5, <1>6

(* What is under way is lost, and what is asked waits.                       *)
LEMMA SocketStep ==
    ASSUME Coding!CodingClientAssumption, CodingInv, Coding!Disconnect \/ Coding!Reconnect
        PROVE CodingInv'
  <1>i. RuntimeOK /\ MailOK /\ AsksOK /\ CodingSwitches BY DEF CodingInv
  <1>0. UNCHANGED <<state, issued, pending>> /\ UNCHANGED Coding!view
    BY DEF Coding!Disconnect, Coding!Reconnect, Coding!runtime
  <1>v. UNCHANGED <<mounted, starting, run, says, activity, approval, detail>>
    BY <1>0 DEF Coding!view
  <1>1. RuntimeOK' BY <1>0, <1>i DEF RuntimeOK, RunStates
  <1>2. Forward BY <1>0, <1>i, RuntimeFacts DEF Forward
  <1>3. CASE Coding!Reconnect
    <2>1. UNCHANGED <<asks, mail, lost>> /\ connected' = TRUE BY <1>3 DEF Coding!Reconnect
    <2>2. AsksOK' BY <1>0, <1>i, <2>1 DEF AsksOK
    <2>3. mail' \in Seq(CodingTold) /\ Len(mail') <= MaxMail /\ InOrder'
      BY <1>0, <1>i, <2>1 DEF MailOK, InOrder
    <2>4. CodingSwitches' BY <1>i, <1>v, <2>1 DEF CodingSwitches
    <2>5. EndsAreTold => EndsAreTold' BY <1>0, <1>v, <2>1 DEF EndsAreTold
    <2>6. ApprovalsAreTold => ApprovalsAreTold' BY <1>0, <1>v, <2>1 DEF ApprovalsAreTold
    <2>7. ~lost' => EndsAreTold' /\ ApprovalsAreTold' BY <2>1, <2>5, <2>6 DEF CodingInv
    <2> QED BY <1>0, <1>1, <1>2, <2>1, <2>2, <2>3, <2>4, <2>7, ViewStays
  <1>4. CASE Coding!Disconnect
    <2>1. /\ connected' = FALSE /\ asks' = <<>> /\ mail' = <<>>
          /\ lost' = (lost \/ asks # <<>> \/ mail # <<>>)
      BY <1>4 DEF Coding!Disconnect
    <2>2. \A x : ~In(<<>>, x) BY DEF In
    <2>3. MaxMail \in Nat BY <1>i, RuntimeFacts
    <2>4. <<>> \in Seq(Wanted) /\ <<>> \in Seq(CodingTold) /\ Len(<<>>) = 0 OBVIOUS
    <2>5. AsksOK' BY <2>1, <2>2, <2>3, <2>4 DEF AsksOK
    <2>6. mail' \in Seq(CodingTold) /\ Len(mail') <= MaxMail /\ InOrder'
      BY <2>1, <2>3, <2>4 DEF InOrder
    <2>7. ASSUME ~lost' PROVE ~lost /\ asks' = asks /\ mail' = mail BY <2>1, <2>7
    <2>8. ASSUME asks' = asks, mail' = mail, EndsAreTold, ApprovalsAreTold
        PROVE EndsAreTold' /\ ApprovalsAreTold'
      <3>1. EndsAreTold' BY <1>0, <1>v, <2>8 DEF EndsAreTold
      <3>2. ApprovalsAreTold' BY <1>0, <1>v, <2>8 DEF ApprovalsAreTold
      <3> QED BY <3>1, <3>2
    <2>9. ~lost' => EndsAreTold' /\ ApprovalsAreTold' BY <2>7, <2>8 DEF CodingInv
    <2>10. lost' \in BOOLEAN BY <2>1
    <2>11. CodingSwitches' BY <1>i, <1>v, <2>1, <2>10 DEF CodingSwitches
    <2>12. \A y \in CodingTold : ~In(mail', y) BY <2>1, <2>2
    <2> QED BY <1>0, <1>1, <1>2, <2>5, <2>6, <2>9, <2>11, <2>12, ViewStays
  <1> QED BY <1>3, <1>4

(* The user: what changes of the view is a button, the dialog or the drawer. *)
LEMMA UserStays ==
    ASSUME Coding!CodingClientAssumption, CodingInv, AsksOK',
           UNCHANGED <<state, issued, pending, connected, mail, lost, run, says, activity>>,
           mounted' \in BOOLEAN, starting' \subseteq Buttons, detail' \in 0..Len(issued),
           approval' \in {approval, Coding!Nothing},
           ~lost => ApprovalsAreTold'
    PROVE  CodingInv'
  <1>i. RuntimeOK /\ MailOK /\ CodingSwitches /\ ViewOK BY DEF CodingInv
  <1>1. RuntimeOK' BY <1>i DEF RuntimeOK, RunStates
  <1>2. MailOK' BY <1>i DEF MailOK, InOrder, Fits
  <1>3. Len(issued) \in Nat BY <1>i, RuntimeFacts
  <1>4. approval' \in 0..Len(issued) BY <1>3, <1>i DEF ViewOK, Coding!Nothing
  <1>5. ViewOK' BY <1>4, <1>i DEF ViewOK
  <1>6. CodingSwitches' BY <1>i DEF CodingSwitches
  <1>7. EndedIsQuiet' BY DEF CodingInv, EndedIsQuiet
  <1>8. Coding!ShownIsOneRun' BY DEF CodingInv, Coding!ShownIsOneRun, Coding!Running
  <1>9. EndsAreTold => EndsAreTold' BY DEF EndsAreTold
  <1>10. ~lost' => EndsAreTold' /\ ApprovalsAreTold' BY <1>9 DEF CodingInv
  <1> QED BY <1>1, <1>2, <1>5, <1>6, <1>7, <1>8, <1>10 DEF CodingInv

LEMMA UserStep ==
    ASSUME Coding!CodingClientAssumption, CodingInv,
           \/ \E b \in Buttons : Coding!HandleRun(b) \/ Coding!StartingTimesOut(b)
           \/ Coding!HandleStop \/ Coding!OpenDetail \/ Coding!ResumeSession \/ Coding!Navigate
           \/ \E approved \in BOOLEAN : Coding!Respond(approved)
    PROVE  CodingInv'
  <1>i. RuntimeOK /\ MailOK /\ AsksOK /\ CodingSwitches /\ ViewOK BY DEF CodingInv
  <1>f. Len(issued) \in Nat /\ MaxRuns \in Nat BY <1>i, RuntimeFacts
  <1>v. /\ starting \subseteq Buttons
        /\ approval \in 0..Len(issued)
        /\ detail \in 0..Len(issued)
        /\ mounted \in BOOLEAN /\ run \in Nat
    BY <1>f, <1>i DEF ViewOK, CodingSwitches
  (* Requests that answer nothing.                                           *)
  <1>1. ASSUME NEW kind \in {"run", "cancel", "get"}, NEW of \in Nat, Coding!Ask(kind, of),
               UNCHANGED <<mounted, run, says, activity, approval, detail>>,
               starting' \subseteq Buttons
        PROVE  CodingInv'
    <2>1. AsksOK' /\ \A y : In(asks', y) <=> In(asks, y) \/ y = Slip(kind, of)
      BY <1>1, <1>i, CodingAsks
    <2>2. \A k, a : Slip(k, a) = Slip(kind, of) => k = kind BY SlipsDiffer
    <2>3. \A a : Answering(asks', a) <=> Answering(asks, a) BY <2>1, <2>2 DEF Answering
    <2>4. UNCHANGED <<state, issued, pending, connected, mail, lost>>
      BY <1>1 DEF Coding!Ask, Coding!runtime
    <2>5. ApprovalsAreTold => ApprovalsAreTold' BY <1>1, <2>3, <2>4 DEF ApprovalsAreTold
    <2>6. ~lost => ApprovalsAreTold' BY <2>5 DEF CodingInv
    <2> QED BY <1>1, <1>v, <2>1, <2>4, <2>6, UserStays
  <1>2. ASSUME NEW b \in Buttons, Coding!HandleRun(b) PROVE CodingInv'
    <2>1. /\ Coding!Ask("run", Coding!Nothing)
          /\ UNCHANGED <<mounted, run, says, activity, approval, detail>>
          /\ starting' \subseteq Buttons
      BY <1>2, <1>v DEF Coding!HandleRun
    <2>2. Coding!Nothing \in Nat BY DEF Coding!Nothing
    <2> QED BY <1>1, <2>1, <2>2
  <1>3. CASE Coding!HandleStop
    <2>1. Coding!Ask("cancel", run) /\ UNCHANGED Coding!view BY <1>3 DEF Coding!HandleStop
    <2> QED BY <1>1, <1>v, <2>1 DEF Coding!view
  <1>4. CASE Coding!OpenDetail
    <2>1. Coding!Ask("get", Coding!Nothing) /\ UNCHANGED Coding!view /\ Coding!Nothing \in Nat
      BY <1>4 DEF Coding!OpenDetail, Coding!Nothing
    <2> QED BY <1>1, <1>v, <2>1 DEF Coding!view
  <1>5. ASSUME NEW b \in Buttons, Coding!StartingTimesOut(b) PROVE CodingInv'
    <2>1. /\ UNCHANGED <<state, issued, pending, connected, asks, mail, lost>>
          /\ UNCHANGED <<mounted, run, says, activity, approval, detail>>
          /\ starting' \subseteq Buttons
      BY <1>5, <1>v DEF Coding!StartingTimesOut, Coding!runtime
    <2>2. AsksOK' BY <1>i, <2>1 DEF AsksOK
    <2>3. ApprovalsAreTold => ApprovalsAreTold' BY <2>1 DEF ApprovalsAreTold
    <2>4. ~lost => ApprovalsAreTold' BY <2>3 DEF CodingInv
    <2> QED BY <1>v, <2>1, <2>2, <2>4, UserStays
  <1>6. CASE Coding!Navigate
    <2>1. /\ UNCHANGED <<state, issued, pending, connected, asks, mail, lost>>
          /\ UNCHANGED <<run, says, activity, approval>>
          /\ starting' = {} /\ detail' = Coding!Nothing /\ mounted' = ~mounted
      BY <1>6 DEF Coding!Navigate, Coding!runtime
    <2>2. AsksOK' BY <1>i, <2>1 DEF AsksOK
    <2>3. \A a \in 1..Len(issued) : a # Coding!Nothing BY DEF Coding!Nothing
    <2>4. ApprovalsAreTold => ApprovalsAreTold' BY <2>1, <2>3 DEF ApprovalsAreTold
    <2>5. ~lost => ApprovalsAreTold' BY <2>4 DEF CodingInv
    <2>6. detail' \in 0..Len(issued) BY <1>f, <2>1 DEF Coding!Nothing
    <2>7. mounted' \in BOOLEAN BY <2>1
    <2>8. starting' \subseteq Buttons BY <2>1
    <2> QED BY <2>1, <2>2, <2>5, <2>6, <2>7, <2>8, UserStays
  (* Requests that answer an approval: the one asked for, or the one of the  *)
  (* record that is open.                                                    *)
  <1>7. ASSUME NEW kind \in {"approve", "deny"}, NEW a \in 1..Len(issued), Coding!Ask(kind, a),
               UNCHANGED <<mounted, starting, run, says, activity, detail>>,
               approval' = Coding!Nothing,
               approval \in {a, Coding!Nothing}, approval = Coding!Nothing => detail = a
        PROVE  CodingInv'
    <2>1. a \in Nat BY <1>f
    <2>2. AsksOK' /\ \A y : In(asks', y) <=> In(asks, y) \/ y = Slip(kind, a)
      BY <1>7, <1>i, <2>1, CodingAsks
    <2>3. \A k, c : Slip(k, c) = Slip(kind, a) => c = a BY SlipsDiffer
    <2>4. \A c : c # a => (Answering(asks', c) <=> Answering(asks, c))
      BY <2>2, <2>3 DEF Answering
    <2>5. Answering(asks', a) BY <2>2 DEF Answering
    <2>6. UNCHANGED <<state, issued, pending, connected, mail, lost>>
      BY <1>7 DEF Coding!Ask, Coding!runtime
    <2>7. ASSUME ApprovalsAreTold PROVE ApprovalsAreTold'
      <3>1. \A c \in 1..Len(issued) : In(mail, Slip("approval", c)) => c # a /\ c # Coding!Nothing
        BY <1>7, <2>7 DEF ApprovalsAreTold, Coding!Nothing
      <3>2. \A c \in 1..Len(issued') : In(mail', Slip("approval", c)) =>
               pending'[issued'[c]] = c /\ ~Answering(asks', c) /\ detail' # c /\ approval' # c
        BY <1>7, <2>4, <2>6, <2>7, <3>1 DEF ApprovalsAreTold
      <3>3. (run' # Coding!Nothing /\ pending'[run'] # Coding!Nothing
               /\ approval' # pending'[run']) =>
               In(mail', Slip("approval", pending'[run'])) \/ Answering(asks', pending'[run'])
        <4> SUFFICES ASSUME run # Coding!Nothing, pending[run] # Coding!Nothing
                     PROVE  In(mail, Slip("approval", pending[run])) \/ Answering(asks', pending[run])
          BY <1>7, <2>6
        <4>1. CASE pending[run] = a BY <2>5, <4>1
        <4>2. CASE pending[run] # a BY <1>7, <2>4, <2>7, <4>2 DEF ApprovalsAreTold
        <4> QED BY <4>1, <4>2
      <3>4. \A s \in Coding!Runs : In(mail', Slip("start", s)) /\ pending'[s] # Coding!Nothing =>
               In(mail', Slip("approval", pending'[s]))
        BY <2>6, <2>7 DEF ApprovalsAreTold
      <3> QED BY <1>7, <3>2, <3>3, <3>4 DEF ApprovalsAreTold
    <2>8. ~lost => ApprovalsAreTold' BY <2>7 DEF CodingInv
    <2> QED BY <1>7, <1>v, <2>2, <2>6, <2>8, UserStays
  <1>8. ASSUME NEW b \in BOOLEAN, Coding!Respond(b) PROVE CodingInv'
    <2>1. /\ approval # Coding!Nothing /\ approval' = Coding!Nothing
          /\ UNCHANGED <<mounted, starting, run, says, activity, detail>>
      BY <1>8 DEF Coding!Respond
    <2>2. PICK kind \in {"approve", "deny"} : kind = (IF b THEN "approve" ELSE "deny") OBVIOUS
    <2>3. Coding!Ask(kind, approval) BY <1>8, <2>2 DEF Coding!Respond
    <2>4. approval \in 1..Len(issued) BY <1>f, <1>v, <2>1 DEF Coding!Nothing
    <2> QED BY <1>7, <2>1, <2>3, <2>4
  <1>9. CASE Coding!ResumeSession
    <2>1. /\ approval = Coding!Nothing
          /\ detail # Coding!Nothing
          /\ Coding!Ask("approve", detail)
          /\ UNCHANGED Coding!view
      BY <1>9 DEF Coding!ResumeSession, Coding!Clicks
    <2>2. detail \in 1..Len(issued) BY <1>f, <1>v, <2>1 DEF Coding!Nothing
    <2> QED BY <1>7, <2>1, <2>2 DEF Coding!view
  <1> QED BY <1>2, <1>3, <1>4, <1>5, <1>6, <1>8, <1>9

(* What is left in the mail after the first message was taken.               *)
LEMMA MailLeft ==
    ASSUME Coding!CodingClientAssumption, CodingInv, mail # <<>>, mail' = Tail(mail),
           UNCHANGED <<state, issued, pending, connected, asks>>
    PROVE  /\ MailOK' /\ RuntimeOK' /\ AsksOK'
           /\ Head(mail) \in CodingTold /\ In(mail, Head(mail)) /\ Fits(Head(mail))
           /\ \A y : In(mail', y) => In(mail, y) /\ ~Wrong(issued, Head(mail), y)
           /\ \A y : In(mail, y) => In(mail', y) \/ y = Head(mail)
           /\ \A k, a : (In(mail', Slip(k, a)) => In(mail, Slip(k, a)))
                        /\ (Head(mail).kind # k \/ Head(mail).of # a =>
                               (In(mail', Slip(k, a)) <=> In(mail, Slip(k, a))))
  <1>i. RuntimeOK /\ MailOK /\ AsksOK BY DEF CodingInv
  <1>1. MaxMail \in Nat BY <1>i, RuntimeFacts
  <1>2. /\ mail' \in Seq(CodingTold) /\ Len(mail') <= MaxMail /\ InOrder'
        /\ Head(mail) \in CodingTold /\ In(mail, Head(mail))
        /\ \A y : In(mail', y) => In(mail, y) /\ ~Wrong(issued, Head(mail), y)
        /\ \A y : In(mail, y) => In(mail', y) \/ y = Head(mail)
    BY <1>1, <1>i, Receives DEF In
  <1>3. MailOK' BY <1>2, <1>i DEF MailOK, Fits
  <1>4. RuntimeOK' BY <1>i DEF RuntimeOK, RunStates
  <1>5. AsksOK' BY <1>i DEF AsksOK
  <1>6. Fits(Head(mail)) BY <1>2, <1>i DEF MailOK
  <1>7. \A k, a : Slip(k, a) = Head(mail) => k = Head(mail).kind /\ a = Head(mail).of
    BY <1>2, SlipOf, SlipsDiffer
  <1>8. \A k, a : (In(mail', Slip(k, a)) => In(mail, Slip(k, a)))
                  /\ (Head(mail).kind # k \/ Head(mail).of # a =>
                         (In(mail', Slip(k, a)) <=> In(mail, Slip(k, a))))
    BY <1>2, <1>7
  <1> QED BY <1>2, <1>3, <1>4, <1>5, <1>6, <1>8

(* What is left is told as before, if what was taken says nothing new.       *)
LEMMA LeftIsTold ==
    ASSUME Coding!CodingClientAssumption, CodingInv, mail # <<>>, mail' = Tail(mail),
           UNCHANGED <<state, issued, pending, connected, asks>>
    PROVE  /\ EndsAreTold
                => \A s \in Coding!Runs : In(mail', Slip("start", s)) /\ state[s] = "ENDED"
                  => In(mail', Slip("end", s))
           /\ ApprovalsAreTold
                => \A s \in Coding!Runs : In(mail', Slip("start", s)) /\ pending[s] # Coding!Nothing =>
                                     In(mail', Slip("approval", pending[s]))
           /\ \A a \in Nat : In(mail', Slip("approval", a)) =>
                 Head(mail).kind \notin {"approval", "record"} \/ Head(mail).of # a
  <1>i. RuntimeOK BY DEF CodingInv
  <1>1. /\ Head(mail) \in CodingTold /\ Fits(Head(mail))
        /\ \A y : In(mail', y) => In(mail, y) /\ ~Wrong(issued, Head(mail), y)
        /\ \A k, a : (In(mail', Slip(k, a)) => In(mail, Slip(k, a)))
                     /\ (Head(mail).kind # k \/ Head(mail).of # a =>
                            (In(mail', Slip(k, a)) <=> In(mail, Slip(k, a))))
    BY MailLeft
  <1>2. ASSUME EndsAreTold, NEW s \in Coding!Runs, In(mail', Slip("start", s)), state[s] = "ENDED"
        PROVE  In(mail', Slip("end", s))
    <2>1. In(mail, Slip("end", s)) BY <1>1, <1>2 DEF EndsAreTold
    <2>2. ASSUME Head(mail).kind = "end", Head(mail).of = s PROVE FALSE
      <3>1. s \in Nat BY <1>i, RuntimeFacts
      <3>2. Slip("start", s).kind = "start" /\ Slip("start", s).of = s BY <3>1, ASlip
      <3>3. Wrong(issued, Head(mail), Slip("start", s)) BY <2>2, <3>2 DEF Wrong, RunIn
      <3> QED BY <1>1, <1>2, <3>3
    <2> QED BY <1>1, <2>1, <2>2
  <1>3. ASSUME ApprovalsAreTold, NEW s \in Coding!Runs, In(mail', Slip("start", s)),
               pending[s] # Coding!Nothing
        PROVE  In(mail', Slip("approval", pending[s]))
    <2>1. In(mail, Slip("approval", pending[s])) BY <1>1, <1>3 DEF ApprovalsAreTold
    <2>2. ASSUME Head(mail).kind = "approval", Head(mail).of = pending[s] PROVE FALSE
      <3>1. s \in Nat BY <1>i, RuntimeFacts
      <3>2. Slip("start", s).kind = "start" /\ Slip("start", s).of = s BY <3>1, ASlip
      <3>3. issued[pending[s]] = s BY <1>3, <1>i DEF RuntimeOK
      <3>4. Wrong(issued, Head(mail), Slip("start", s)) BY <2>2, <3>2, <3>3 DEF Wrong, RunIn
      <3> QED BY <1>1, <1>3, <3>4
    <2> QED BY <1>1, <2>1, <2>2
  <1>4. ASSUME NEW a \in Nat, In(mail', Slip("approval", a)), Head(mail).kind \in {"approval", "record"}
        PROVE  Head(mail).of # a
    <2>1. Slip("approval", a).kind = "approval" /\ Slip("approval", a).of = a BY ASlip
    <2> QED BY <1>1, <1>4, <2>1 DEF Wrong
  <1> QED BY <1>2, <1>3, <1>4

LEMMA CodingReceiveStep ==
    ASSUME Coding!CodingClientAssumption, CodingInv, Coding!Receive
    PROVE  CodingInv'
  <1>i. RuntimeOK /\ MailOK /\ AsksOK /\ CodingSwitches /\ ViewOK BY DEF CodingInv
  <1>0. /\ mail # <<>> /\ mail' = Tail(mail)
        /\ UNCHANGED <<state, issued, pending, connected, asks>>
        /\ UNCHANGED <<mounted, starting>>
    BY DEF Coding!Receive, Coding!runtime
  <1>f. /\ Len(issued) \in Nat /\ MaxRuns \in Nat
        /\ \A a \in 1..Len(issued) : issued[a] \in Coding!Runs
        /\ \A s \in Coding!Runs : s \in Nat /\ s # Coding!Nothing /\ pending[s] \in Nat
    BY <1>i, RuntimeFacts
  <1>r. PICK e : e = Head(mail) OBVIOUS
  <1>1. /\ MailOK' /\ RuntimeOK' /\ AsksOK'
        /\ e \in CodingTold /\ In(mail, e) /\ Fits(e)
        /\ \A y : In(mail', y) => In(mail, y) /\ ~Wrong(issued, e, y)
        /\ \A y : In(mail, y) => In(mail', y) \/ y = e
        /\ \A k, a : (In(mail', Slip(k, a)) => In(mail, Slip(k, a)))
                     /\ (e.kind # k \/ e.of # a => (In(mail', Slip(k, a)) <=> In(mail, Slip(k, a))))
    BY <1>0, <1>r, MailLeft
  <1>2. /\ EndsAreTold => \A s \in Coding!Runs : In(mail', Slip("start", s)) /\ state[s] = "ENDED"
             => In(mail', Slip("end", s))
        /\ ApprovalsAreTold
             => \A s \in Coding!Runs : In(mail', Slip("start", s)) /\ pending[s] # Coding!Nothing =>
                                  In(mail', Slip("approval", pending[s]))
        /\ \A a \in Nat : In(mail', Slip("approval", a)) =>
              e.kind \notin {"approval", "record"} \/ e.of # a
    BY <1>0, <1>r, LeftIsTold
  <1>v. /\ starting \subseteq Buttons
        /\ activity \subseteq Coding!Runs
        /\ says \in {"NONE", "RUNNING", "ENDED"}
        /\ approval \in 0..Len(issued) /\ detail \in 0..Len(issued)
        /\ (run # Coding!Nothing => run \in Coding!Runs /\ state[run] # "NONE" /\ says # "NONE")
        /\ (run = Coding!Nothing => says = "NONE")
    BY <1>f, <1>i DEF ViewOK, Coding!Runs, Coding!Nothing
  <1>e. e.kind \in {"start", "work", "approval", "end", "record"} /\ e.of \in Nat
    BY <1>1 DEF CodingTold
  <1>s. run \in 0..MaxRuns BY <1>i DEF ViewOK
  (* What is seen of the run shown stays: nothing of it was taken.           *)
  <1>3. ASSUME UNCHANGED <<run, says, activity, approval>>, detail' \in 0..Len(issued),
  lost' \in BOOLEAN,
               lost => lost',
               ~lost' => /\ run # Coding!Nothing => e # Slip("end", run)
                         /\ run # Coding!Nothing /\ pending[run] # Coding!Nothing
                              => e # Slip("approval", pending[run])
                         /\ \A a \in 1..Len(issued) : In(mail', Slip("approval", a)) => detail' # a
        PROVE  CodingInv'
    <2>1. ViewOK' BY <1>0, <1>3, <1>s, <1>v DEF ViewOK
    <2>2. CodingSwitches' BY <1>0, <1>3, <1>i DEF CodingSwitches
    <2>3. EndedIsQuiet' BY <1>0, <1>1, <1>3 DEF CodingInv, EndedIsQuiet
    <2>4. Coding!ShownIsOneRun'
      BY <1>0, <1>3 DEF CodingInv, Coding!ShownIsOneRun, Coding!Running
    <2>5. ASSUME ~lost' PROVE EndsAreTold' /\ ApprovalsAreTold'
      <3>0. EndsAreTold /\ ApprovalsAreTold BY <1>3, <2>5 DEF CodingInv
      <3>1. run # Coding!Nothing => (In(mail', Slip("end", run)) <=> In(mail, Slip("end", run)))
        BY <1>1, <1>3, <2>5
      <3>2. run # Coding!Nothing /\ pending[run] # Coding!Nothing =>
               (In(mail', Slip("approval", pending[run])) <=> In(mail, Slip("approval", pending[run])))
        BY <1>1, <1>3, <2>5
      <3>3. EndsAreTold' BY <1>0, <1>2, <1>3, <3>0, <3>1 DEF EndsAreTold
      <3>4. \A a \in 1..Len(issued') : In(mail', Slip("approval", a)) =>
               pending'[issued'[a]] = a /\ ~Answering(asks', a) /\ detail' # a /\ approval' # a
        BY <1>0, <1>1, <1>3, <2>5, <3>0 DEF ApprovalsAreTold
      <3>5. (run' # Coding!Nothing /\ pending'[run'] # Coding!Nothing
               /\ approval' # pending'[run']) =>
               In(mail', Slip("approval", pending'[run'])) \/ Answering(asks', pending'[run'])
        BY <1>0, <1>3, <3>0, <3>2 DEF ApprovalsAreTold
      <3>6. approval' # Coding!Nothing => pending'[run'] = approval' /\ ~Answering(asks', approval')
        BY <1>0, <1>3, <3>0 DEF ApprovalsAreTold
      <3>7. \A s \in Coding!Runs : In(mail', Slip("start", s)) /\ pending'[s] # Coding!Nothing =>
               In(mail', Slip("approval", pending'[s]))
        BY <1>0, <1>2, <3>0
      <3> QED BY <3>3, <3>4, <3>5, <3>6, <3>7 DEF ApprovalsAreTold
    <2> QED BY <1>1, <2>1, <2>2, <2>3, <2>4, <2>5 DEF CodingInv
  <1>4. CASE ~mounted
    <2>1. lost' = TRUE /\ UNCHANGED <<run, says, approval, activity, detail>>
      BY <1>4 DEF Coding!Receive
    <2> QED BY <1>3, <1>v, <2>1
  <1>5. CASE mounted /\ e.kind = "record"
    <2>1. detail' = e.of /\ UNCHANGED <<run, says, approval, activity, lost>>
      BY <1>5, <1>r DEF Coding!Receive
    <2>2. detail' \in 0..Len(issued) BY <1>1, <1>5, <2>1 DEF Fits
    <2>3. \A k, a : k # "record" => e # Slip(k, a) BY <1>5 DEF Slip
    <2>4. \A a \in 1..Len(issued) : In(mail', Slip("approval", a)) => detail' # a
      BY <1>2, <1>5, <1>f, <2>1
    <2> QED BY <1>3, <1>i, <2>1, <2>2, <2>3, <2>4 DEF CodingSwitches
  <1>6. CASE mounted /\ e.kind # "record"
    <2>h. Coding!Handle(e) /\ UNCHANGED <<detail, lost>> BY <1>6, <1>r DEF Coding!Receive
    <2>b. CodingSwitches' BY <1>0, <1>i, <2>h DEF CodingSwitches
    <2>d. \A a \in 1..Len(issued) : ApprovalsAreTold /\ In(mail', Slip("approval", a)) =>
             pending[issued[a]] = a /\ ~Answering(asks, a) /\ detail # a /\ approval # a
      BY <1>1 DEF ApprovalsAreTold
    <2>1. CASE e.kind = "start"
      <3>1. /\ run' = e.of /\ says' = "RUNNING" /\ activity' = {} /\ approval' = Coding!Nothing
        BY <2>1, <2>h DEF Coding!Handle, Coding!StartSession
      <3>2. PICK s \in Coding!Runs : s = e.of BY <1>1, <2>1 DEF Fits
      <3>3. state[s] # "NONE" /\ s # Coding!Nothing /\ s \in 0..MaxRuns
        BY <1>1, <1>f, <2>1, <3>2 DEF Fits, Coding!Runs
      <3>4. ViewOK' BY <1>0, <1>f, <1>v, <2>h, <3>1, <3>2, <3>3 DEF ViewOK, Coding!Nothing
      <3>5. EndedIsQuiet' BY <3>1 DEF EndedIsQuiet
      <3>6. Coding!ShownIsOneRun' BY <3>1 DEF Coding!ShownIsOneRun
      <3>7. e = Slip("start", s) BY <1>1, <2>1, <3>2, SlipOf
      <3>8. ASSUME ~lost' PROVE EndsAreTold' /\ ApprovalsAreTold'
        <4>0. EndsAreTold /\ ApprovalsAreTold BY <2>h, <3>8 DEF CodingInv
        <4>1. state[s] = "ENDED" => In(mail', Slip("end", s))
          BY <1>1, <2>1, <3>7, <4>0 DEF EndsAreTold
        <4>2. EndsAreTold' BY <1>0, <1>2, <3>1, <3>2, <4>0, <4>1 DEF EndsAreTold
        <4>3. \A a \in 1..Len(issued') : In(mail', Slip("approval", a)) =>
                 pending'[issued'[a]] = a /\ ~Answering(asks', a) /\ detail' # a /\ approval' # a
          BY <1>0, <2>d, <2>h, <3>1, <4>0 DEF Coding!Nothing
        <4>4. pending[s] # Coding!Nothing => In(mail', Slip("approval", pending[s]))
          BY <1>1, <2>1, <3>7, <4>0 DEF ApprovalsAreTold
        <4>5. \A r \in Coding!Runs : In(mail', Slip("start", r)) /\ pending'[r] # Coding!Nothing =>
                 In(mail', Slip("approval", pending'[r]))
          BY <1>0, <1>2, <4>0
        <4> QED BY <1>0, <3>1, <3>2, <4>2, <4>3, <4>4, <4>5 DEF ApprovalsAreTold
      <3> QED BY <1>1, <2>b, <3>4, <3>5, <3>6, <3>8 DEF CodingInv
    <2>2. CASE e.kind # "start" /\ ~Coding!IsCurrent(e)
      <3>1. UNCHANGED <<run, says, approval, activity>> BY <2>2, <2>h DEF Coding!Handle
      <3>2. run # RunIn(issued, e) BY <2>2 DEF Coding!IsCurrent, RunIn
      <3>3. run # Coding!Nothing => e # Slip("end", run)
        <4> SUFFICES ASSUME e = Slip("end", run) PROVE FALSE OBVIOUS
        <4>1. e.kind = "end" /\ e.of = run BY DEF Slip
        <4> QED BY <3>2, <4>1 DEF RunIn
      <3>4. run # Coding!Nothing /\ pending[run] # Coding!Nothing => e # Slip("approval", pending[run])
        <4> SUFFICES ASSUME run # Coding!Nothing, pending[run] # Coding!Nothing,
        e = Slip("approval", pending[run])
                     PROVE FALSE
          OBVIOUS
        <4>1. e.kind = "approval" /\ e.of = pending[run] BY DEF Slip
        <4>2. issued[pending[run]] = run BY <1>i, <1>v DEF RuntimeOK
        <4> QED BY <3>2, <4>1, <4>2 DEF RunIn
      <3>5. ~lost' => \A a \in 1..Len(issued) : In(mail', Slip("approval", a)) => detail' # a
        BY <2>d, <2>h DEF CodingInv
      <3> QED BY <1>3, <1>i, <1>v, <2>h, <3>1, <3>3, <3>4, <3>5 DEF CodingSwitches
    <2>3. CASE e.kind # "start" /\ Coding!IsCurrent(e)
      <3>1. /\ activity' = activity \union {run} /\ run' = run
            /\ says' = (IF e.kind = "end" THEN "ENDED" ELSE says)
            /\ approval' = CASE e.kind = "approval" -> e.of
                             [] e.kind = "end"      -> Coding!Nothing
                             [] e.kind = "work"     -> approval
        BY <2>3, <2>h DEF Coding!Handle
      <3>2. run = RunIn(issued, e) BY <2>3 DEF Coding!IsCurrent, RunIn
      <3>3. run \in Coding!Runs /\ run # Coding!Nothing /\ state[run] # "NONE"
        BY <1>1, <1>6, <1>e, <1>f, <1>v, <2>3, <3>2 DEF Fits, RunIn
      <3>4. activity' \subseteq {run} /\ activity' \subseteq Coding!Runs
        BY <1>v, <3>1, <3>3 DEF CodingInv, Coding!ShownIsOneRun
      <3>a. CASE e.kind = "work"
        <4>1. UNCHANGED <<run, says, approval>> BY <3>1, <3>a
        <4>2. ViewOK' BY <1>0, <1>s, <1>v, <2>h, <3>4, <4>1 DEF ViewOK
        <4>3. EndedIsQuiet' BY <1>0, <1>1, <4>1 DEF CodingInv, EndedIsQuiet
        <4>4. Coding!ShownIsOneRun'
          BY <1>0, <3>4, <4>1 DEF CodingInv, Coding!ShownIsOneRun, Coding!Running
        <4>5. \A k, a : k # "work" => (In(mail', Slip(k, a)) <=> In(mail, Slip(k, a)))
          BY <1>1, <3>a
        <4>6. EndsAreTold => EndsAreTold' BY <1>0, <4>1, <4>5 DEF EndsAreTold
        <4>7. ApprovalsAreTold => ApprovalsAreTold'
          BY <1>0, <2>h, <4>1, <4>5 DEF ApprovalsAreTold
        <4>8. ~lost' => EndsAreTold' /\ ApprovalsAreTold' BY <2>h, <4>6, <4>7 DEF CodingInv
        <4> QED BY <1>1, <2>b, <4>2, <4>3, <4>4, <4>8 DEF CodingInv
      <3>b. CASE e.kind = "approval"
        <4>1. approval' = e.of /\ UNCHANGED <<run, says>> BY <3>1, <3>b
        <4>2. PICK a \in 1..Len(issued) : a = e.of BY <1>1, <3>b DEF Fits
        <4>3. issued[a] = run /\ a # Coding!Nothing
          BY <3>2, <3>b, <4>2 DEF RunIn, Coding!Nothing
        <4>4. says = "RUNNING"
          <5>1. says # "ENDED" BY <1>1, <3>2, <3>b DEF CodingInv, EndedIsQuiet
          <5> QED BY <1>v, <3>3, <5>1
        <4>5. ViewOK' BY <1>0, <1>f, <1>s, <1>v, <2>h, <3>4, <4>1, <4>2 DEF ViewOK
        <4>6. EndedIsQuiet' BY <4>1, <4>4 DEF EndedIsQuiet
        <4>7. Coding!ShownIsOneRun'
          BY <1>0, <3>4, <4>1, <4>2, <4>3, <4>4 DEF Coding!ShownIsOneRun, Coding!Running
        <4>8. ASSUME ~lost' PROVE EndsAreTold' /\ ApprovalsAreTold'
          <5>0. EndsAreTold /\ ApprovalsAreTold BY <2>h, <4>8 DEF CodingInv
          <5>1. \A k, c : k # "approval" => (In(mail', Slip(k, c)) <=> In(mail, Slip(k, c)))
            BY <1>1, <3>b
          <5>2. EndsAreTold' BY <1>0, <4>1, <5>0, <5>1 DEF EndsAreTold
          <5>3. e = Slip("approval", a) BY <1>1, <3>b, <4>2, SlipOf
          <5>4. pending[run] = a /\ ~Answering(asks, a)
            BY <1>1, <4>3, <5>0, <5>3 DEF ApprovalsAreTold
          <5>5. \A c \in 1..Len(issued') : In(mail', Slip("approval", c)) =>
                   pending'[issued'[c]] = c /\ ~Answering(asks', c) /\ detail' # c /\ approval' # c
            BY <1>0, <1>2, <1>f, <2>d, <2>h, <3>b, <4>1, <5>0
          <5>6. \A r \in Coding!Runs : In(mail', Slip("start", r)) /\ pending'[r] # Coding!Nothing =>
                   In(mail', Slip("approval", pending'[r]))
            BY <1>0, <1>2, <5>0
          <5> QED BY <1>0, <4>1, <4>2, <5>2, <5>4, <5>5, <5>6 DEF ApprovalsAreTold
        <4> QED BY <1>1, <2>b, <4>5, <4>6, <4>7, <4>8 DEF CodingInv
      <3>c. CASE e.kind = "end"
        <4>1. approval' = Coding!Nothing /\ says' = "ENDED" /\ run' = run BY <3>1, <3>c
        <4>2. e.of = run /\ state[run] = "ENDED" BY <1>1, <3>2, <3>c DEF RunIn, Fits
        <4>3. ViewOK'
          BY <1>0, <1>f, <1>s, <1>v, <2>h, <3>3, <3>4, <4>1 DEF ViewOK, Coding!Nothing
        <4>4. Coding!ShownIsOneRun' BY <1>0, <3>4, <4>1, <4>2 DEF Coding!ShownIsOneRun
        <4>5. EndedIsQuiet'
          <5> SUFFICES ASSUME NEW x \in CodingTold, In(mail', x), x.kind = "approval"
              PROVE RunIn(issued, x) # run
            BY <1>0, <4>1 DEF EndedIsQuiet
          <5>1. ~Wrong(issued, e, x) BY <1>1
          <5> QED BY <3>c, <4>2, <5>1 DEF Wrong
        <4>6. ASSUME ~lost' PROVE EndsAreTold' /\ ApprovalsAreTold'
          <5>0. EndsAreTold /\ ApprovalsAreTold BY <2>h, <4>6 DEF CodingInv
          <5>1. ~In(mail', Slip("end", run))
            <6>1. run \in Nat BY <1>f, <3>3
            <6>2. Slip("end", run).kind = "end" /\ Slip("end", run).of = run BY <6>1, ASlip
            <6>3. Wrong(issued, e, Slip("end", run)) BY <3>c, <4>2, <6>2 DEF Wrong, RunIn
            <6> QED BY <1>1, <6>3
          <5>2. EndsAreTold' BY <1>0, <1>2, <4>1, <4>2, <5>0, <5>1 DEF EndsAreTold
          <5>3. pending[run] = Coding!Nothing BY <1>i, <3>3, <4>2 DEF RuntimeOK
          <5>4. \A c \in 1..Len(issued') : In(mail', Slip("approval", c)) =>
                   pending'[issued'[c]] = c /\ ~Answering(asks', c) /\ detail' # c /\ approval' # c
            BY <1>0, <2>d, <2>h, <4>1, <5>0 DEF Coding!Nothing
          <5>5. \A r \in Coding!Runs : In(mail', Slip("start", r)) /\ pending'[r] # Coding!Nothing =>
                   In(mail', Slip("approval", pending'[r]))
            BY <1>0, <1>2, <5>0
          <5> QED BY <1>0, <4>1, <5>2, <5>3, <5>4, <5>5 DEF ApprovalsAreTold
        <4> QED BY <1>1, <2>b, <4>3, <4>4, <4>5, <4>6 DEF CodingInv
      <3> QED BY <1>6, <1>e, <2>3, <3>a, <3>b, <3>c
    <2> QED BY <2>1, <2>2, <2>3
  <1> QED BY <1>4, <1>5, <1>6

LEMMA CodingStart == ASSUME Coding!CodingClientAssumption, Coding!Init PROVE CodingInv
  <1>1. /\ <<>> \in Seq(Wanted)
        /\ <<>> \in Seq(CodingTold)
        /\ <<>> \in Seq(Coding!Runs)
        /\ Len(<<>>) = 0
    OBVIOUS
  <1>2. \A x : ~In(<<>>, x) BY DEF In
  <1>3. MaxMail \in Nat /\ MaxRuns \in Nat BY DEF Coding!CodingClientAssumption
  <1>4. RuntimeOK BY <1>1 DEF Coding!Init, RuntimeOK, RunStates, Coding!Nothing
  <1>5. MailOK BY <1>1, <1>2, <1>3 DEF Coding!Init, MailOK, InOrder
  <1>6. AsksOK BY <1>1, <1>2, <1>3 DEF Coding!Init, AsksOK
  <1>7. ViewOK BY <1>1, <1>3 DEF Coding!Init, ViewOK, Coding!Nothing
  <1>8. CodingSwitches BY DEF Coding!Init, CodingSwitches
  <1>9. EndedIsQuiet /\ Coding!ShownIsOneRun
    BY DEF Coding!Init, EndedIsQuiet, Coding!ShownIsOneRun
  <1>10. EndsAreTold BY <1>2 DEF Coding!Init, EndsAreTold
  <1>11. ApprovalsAreTold BY <1>2 DEF Coding!Init, ApprovalsAreTold
  <1> QED BY <1>4, <1>5, <1>6, <1>7, <1>8, <1>9, <1>10, <1>11 DEF CodingInv

LEMMA CodingStep ==
    ASSUME Coding!CodingClientAssumption, CodingInv, [Coding!Next]_(Coding!vars)
    PROVE  CodingInv'
  <1>1. CASE Coding!Next
    BY <1>1, WorksStep, AsksForApprovalStep, EndsStep, CodingServeStep, SocketStep,
       CodingReceiveStep, UserStep
       DEF Coding!Next
  <1>2. CASE UNCHANGED Coding!vars
    <2>1. /\ UNCHANGED <<state, issued, pending, connected, asks, mail, lost>>
          /\ UNCHANGED Coding!view
      BY <1>2 DEF Coding!vars, Coding!runtime
    <2>2. AsksOK' BY <2>1 DEF CodingInv, AsksOK
    <2> QED BY <2>1, <2>2, OnlyAsked
  <1> QED BY <1>1, <1>2

LEMMA CodingInvariance == ASSUME Coding!CodingClientAssumption PROVE Coding!Spec => []CodingInv
  <1> QED BY CodingStart, CodingStep, PTL DEF Coding!Spec

LEMMA CodingTypes == ASSUME Coding!CodingClientAssumption, CodingInv PROVE Coding!TypeOK
  <1>i. RuntimeOK /\ MailOK /\ AsksOK /\ CodingSwitches /\ ViewOK BY DEF CodingInv
  <1>1. pending \in [Coding!Runs -> Coding!Approvals]
    <2>1. Len(issued) \in Nat /\ \A s \in Coding!Runs : pending[s] \in Nat BY <1>i, RuntimeFacts
    <2>2. \A s \in Coding!Runs : pending[s] \in 0..Len(issued) BY <1>i, <2>1 DEF RuntimeOK
    <2> QED BY <1>i, <2>2 DEF RuntimeOK, Coding!Approvals
  <1>2. /\ state \in [Coding!Runs -> {"NONE", "RUNNING", "WAITING", "ENDED"}]
        /\ issued \in Seq(Coding!Runs)
    BY <1>i DEF RuntimeOK, RunStates
  <1>3. /\ asks \in Seq([kind : {"run", "cancel", "approve", "deny", "get"}, of : Nat])
        /\ mail \in Seq([kind : {"start", "work", "approval", "end", "record"}, of : Nat])
        /\ Len(asks) <= MaxMail /\ Len(mail) <= MaxMail
    BY <1>i DEF AsksOK, MailOK, Wanted, CodingTold
  <1>4. {approval, detail} \subseteq Coding!Approvals BY <1>i DEF ViewOK, Coding!Approvals
  <1>5. {connected, mounted, lost} \subseteq BOOLEAN BY <1>i DEF CodingSwitches
  <1> QED BY <1>1, <1>2, <1>3, <1>4, <1>5, <1>i DEF Coding!TypeOK, ViewOK

LEMMA CodingPanelStaysAgreed ==
    ASSUME Coding!CodingClientAssumption, CodingInv
    PROVE  Coding!ShownIsOneRun /\ Coding!PanelAgrees
  <1>1. ASSUME ~lost, mail = <<>>, asks = <<>>, run # Coding!Nothing
        PROVE  (Coding!Running <=> state[run] # "ENDED") /\ approval = pending[run]
    <2>1. EndsAreTold /\ ApprovalsAreTold BY <1>1 DEF CodingInv
    <2>2. \A x : ~In(<<>>, x) BY DEF In
    <2>3. \A a : ~Answering(asks, a) BY <1>1, <2>2 DEF Answering
    <2>4. Coding!Running <=> state[run] # "ENDED"
      BY <1>1, <2>1, <2>2 DEF EndsAreTold, Coding!Running
    <2>5. approval = pending[run] BY <1>1, <2>1, <2>2, <2>3 DEF ApprovalsAreTold
    <2> QED BY <2>4, <2>5
  <1> QED BY <1>1 DEF CodingInv, Coding!PanelAgrees

-----------------------------------------------------------------------------
(* The client: each of its components runs as if it were alone, and as long *)
(* as it does not run it keeps its values.                                  *)
LEMMA EachSteps ==
    ASSUME [Step]_all
    PROVE  /\ [Next]_vars
           /\ [Face!Next]_(Face!vars)
           /\ [Eyes!Next]_(Eyes!vars)
           /\ [Editor!Next]_(Editor!vars)
           /\ [Git!Next]_(Git!vars)
           /\ [Explorer!Next]_(Explorer!vars)
           /\ [Providers!Next]_(Providers!vars)
           /\ [Coding!Next]_(Coding!vars)
           /\ [Connection!Next]_(Connection!vars)
           /\ [Images!Next]_(Images!vars)
           /\ [WakeChat!Next]_(WakeChat!vars)
           /\ [Terminal!Next]_(Terminal!vars)
  <1>1. CASE UNCHANGED all
    BY <1>1 DEF all, vars, manager, motion, faceVars, Face!vars, Face!store, Face!brow,
                Face!mouth, eyesVars, Eyes!vars, editorVars, Editor!vars, gitVars, Git!vars,
                Git!repository, Git!panel, explorerVars, Explorer!vars, providersVars,
                Providers!vars, Providers!choice, codingVars, Coding!vars, Coding!runtime,
                Coding!view, connectionVars, Connection!vars, Connection!auths,
                Connection!sockets, Connection!acks, imagesVars, Images!vars, wakeChatVars,
                WakeChat!vars, WakeChat!page, WakeChat!server, WakeChat!net, terminalVars,
                Terminal!vars
  <1>2. CASE Step
    <2>1. UNCHANGED vars \/ Next BY <1>2 DEF Step, OthersStay
    <2>2. UNCHANGED Face!vars \/ Face!Next
      BY <1>2 DEF Step, OthersStay, faceVars, Face!vars, Face!store, Face!brow, Face!mouth
    <2>3. UNCHANGED Eyes!vars \/ Eyes!Next
      BY <1>2 DEF Step, OthersStay, eyesVars, Eyes!vars
    <2>4. UNCHANGED Editor!vars \/ Editor!Next
      BY <1>2 DEF Step, OthersStay, editorVars, Editor!vars
    <2>5. UNCHANGED Git!vars \/ Git!Next
      BY <1>2 DEF Step, OthersStay, gitVars, Git!vars, Git!repository, Git!panel
    <2>6. UNCHANGED Explorer!vars \/ Explorer!Next
      BY <1>2 DEF Step, OthersStay, explorerVars, Explorer!vars
    <2>7. UNCHANGED Providers!vars \/ Providers!Next
      BY <1>2 DEF Step, OthersStay, providersVars, Providers!vars, Providers!choice
    <2>8. UNCHANGED Coding!vars \/ Coding!Next
      BY <1>2 DEF Step, OthersStay, codingVars, Coding!vars, Coding!runtime, Coding!view
    <2>9. UNCHANGED Connection!vars \/ Connection!Next
      BY <1>2 DEF Step, OthersStay, connectionVars, Connection!vars, Connection!auths,
         Connection!sockets, Connection!acks
    <2>10. UNCHANGED Images!vars \/ Images!Next
      BY <1>2 DEF Step, OthersStay, imagesVars, Images!vars
    <2>11. UNCHANGED WakeChat!vars \/ WakeChat!Next
      BY <1>2 DEF Step, OthersStay, wakeChatVars, WakeChat!vars, WakeChat!page, WakeChat!server, WakeChat!net
    <2>12. UNCHANGED Terminal!vars \/ Terminal!Next
      BY <1>2 DEF Step, OthersStay, terminalVars, Terminal!vars
    <2> QED BY <2>1, <2>2, <2>3, <2>4, <2>5, <2>6, <2>7, <2>8, <2>9, <2>10, <2>11, <2>12
  <1> QED BY <1>1, <1>2

LEMMA EachRuns ==
    Client => /\ Spec
              /\ Face!Spec
              /\ Eyes!Spec
              /\ Editor!Spec
              /\ Git!Spec
              /\ Explorer!Spec
              /\ Providers!Spec
              /\ Coding!Spec
              /\ Connection!Spec
              /\ Images!Spec
              /\ WakeChat!Spec
              /\ Terminal!Spec
  <1>1. Start => /\ Init
                 /\ Face!Init
                 /\ Eyes!Init
                 /\ Editor!Init
                 /\ Git!Init
                 /\ Explorer!Init
                 /\ Providers!Init
                 /\ Coding!Init
                 /\ Connection!Init
                 /\ Images!Init
                 /\ WakeChat!Init
                 /\ Terminal!Init
    BY DEF Start
  <1>2. [Step]_all =>
           /\ [Next]_vars
           /\ [Face!Next]_(Face!vars)
           /\ [Eyes!Next]_(Eyes!vars)
           /\ [Editor!Next]_(Editor!vars)
           /\ [Git!Next]_(Git!vars)
           /\ [Explorer!Next]_(Explorer!vars)
           /\ [Providers!Next]_(Providers!vars)
           /\ [Coding!Next]_(Coding!vars)
           /\ [Connection!Next]_(Connection!vars)
           /\ [Images!Next]_(Images!vars)
           /\ [WakeChat!Next]_(WakeChat!vars)
           /\ [Terminal!Next]_(Terminal!vars)
    BY EachSteps
  <1> QED
    BY <1>1, <1>2, PTL
    DEF Client, Spec, Face!Spec, Eyes!Spec, Editor!Spec, Git!Spec, Explorer!Spec,
        Providers!Spec, Coding!Spec, Connection!Spec, Images!Spec, WakeChat!Spec,
        Terminal!Spec

(* The two providers of the client, in the order of its list.               *)
LEMMA ProvidersOfTheClient == ProvidersListOK
  <1>1. /\ DOMAIN <<"gemini", "claude">> = {1, 2}
        /\ <<"gemini", "claude">>[1] = "gemini" /\ <<"gemini", "claude">>[2] = "claude"
    OBVIOUS
  <1>2. Providers!ProviderNames = {"gemini", "claude"}
    BY <1>1 DEF Providers!ProviderNames
  <1>3. IsFiniteSet({"gemini", "claude"})
    <2>1. IsFiniteSet({"gemini"}) BY FS_Singleton
    <2>2. {"gemini", "claude"} = {"gemini"} \union {"claude"} OBVIOUS
    <2> QED BY <2>1, <2>2, FS_AddElement
  <1>4. ASSUME NEW S \in SUBSET Providers!ProviderNames
        PROVE  Providers!FirstOf(S) \in Providers!ProviderNames \union {NoChoice}
    <2>1. CASE S = {} BY <2>1 DEF Providers!FirstOf
    <2>2. CASE S # {}
      <3> DEFINE first(i) == /\ <<"gemini", "claude">>[i] \in S
                             /\ \A j \in 1..(i - 1) : <<"gemini", "claude">>[j] \notin S
      <3>1. \E i \in {1, 2} : first(i)
        <4>1. CASE "gemini" \in S
          <5>1. 1..(1 - 1) = {} OBVIOUS
          <5>2. first(1) BY <1>1, <4>1, <5>1
          <5> QED BY <5>2
        <4>2. CASE "gemini" \notin S
          <5>1. "claude" \in S BY <1>2, <2>2, <4>2
          <5>2. \A j \in 1..(2 - 1) : j = 1 OBVIOUS
          <5>3. first(2) BY <1>1, <4>2, <5>1, <5>2
          <5> QED BY <5>3
        <4> QED BY <4>1, <4>2
      <3>2. (CHOOSE i \in {1, 2} : first(i)) \in {1, 2} BY <3>1
      <3>3. Providers!FirstOf(S) = <<"gemini", "claude">>[CHOOSE i \in {1, 2} : first(i)]
        BY <1>1, <2>2 DEF Providers!FirstOf
      <3> HIDE DEF first
      <3> QED BY <1>1, <1>2, <3>2, <3>3
    <2> QED BY <2>1, <2>2
  <1> QED BY <1>1, <1>2, <1>3, <1>4 DEF ProvidersListOK

(* What is assumed of the constants, for every component.                   *)
LEMMA EachAssumption ==
    /\ Face!ExpressionAssumption /\ Eyes!EyesAssumption /\ Editor!EditorAssumption
    /\ Explorer!ExplorerAssumption /\ Providers!ProvidersAssumption
    /\ Coding!CodingClientAssumption /\ Terminal!TerminalAssumption
    /\ Connection!ConnectionAssumption /\ Images!ImagesAssumption
    /\ WakeChat!WakeChatAssumption
  BY ClientAssumption

(* The face wears what the character feels once it does not think, its      *)
(* mouth is closed when nobody speaks, and its eyes are never shut for long *)
(* (ExpressionEngine.js, LipSyncEngine.js, BlinkController.js).             *)
THEOREM FaceComesBackAlways == Client => []FaceComesBack
  <1>1. Face!Spec => []FaceInv BY EachAssumption, FaceInvariance
  <1>2. Eyes!Spec => []EyesInv BY EachAssumption, EyesInvariance
  <1>3. FaceInv /\ EyesInv => FaceComesBack
    BY EachAssumption, FaceShows, EyesShow DEF FaceComesBack
  <1> QED BY EachRuns, <1>1, <1>2, <1>3, PTL

(* A save that overwrites a file without a conflict overwrites what the tab *)
(* has shown, however loads, saves, reloads and the work of the agent       *)
(* follow each other (components/Coding/CodeEditor.jsx).                    *)
THEOREM SavesStayOverSeen == Client => SilentOnlyOverSeen
  <1>1. Editor!Spec => Editor!SilentOnlyOverSeen BY EachAssumption, EditorSavesOverSeen
  <1>2. Client => Editor!Spec BY EachRuns
  <1> QED BY <1>1, <1>2 DEF SilentOnlyOverSeen

(* The tree that is shown is of the root that is shown and of what the      *)
(* directory holds, and a diff is of the file that its header names unless  *)
(* it was asked for a panel that was closed meanwhile (GitPanel.jsx), in    *)
(* whatever order the answers come.                                         *)
THEOREM PanelsStayFresh == Client => []PanelsAreFresh
  <1>1. Explorer!Spec => []ExplorerInv BY EachAssumption, ExplorerInvariance
  <1>2. Git!Spec => [](Git!TypeOK /\ Git!DiffIsOfItsHeader) BY GitShows
  <1>3. ExplorerInv => Explorer!TreeIsTheDisk BY EachAssumption, ExplorerShows
  <1>4. ExplorerInv /\ Git!TypeOK /\ Git!DiffIsOfItsHeader => PanelsAreFresh
    BY <1>3 DEF PanelsAreFresh
  <1> QED BY EachRuns, <1>1, <1>2, <1>4, PTL

(* The panel of the coding view is about one run, and when nothing is under *)
(* way and nothing was lost it says of that run what the runtime says; the  *)
(* model that is selected is one of the provider that is                    *)
(* (CodingProvider.jsx, store/codingStore.js, WorkspaceBar.jsx).            *)
THEOREM PanelStaysOfItsRun == Client => []PanelIsOfItsRun
  <1>1. Coding!Spec => []CodingInv BY EachAssumption, CodingInvariance
  <1>2. Providers!Spec => [](Providers!TypeOK /\ Providers!ModelOfItsProvider)
    BY EachAssumption, ProvidersOfTheClient, ProvidersShow
  <1>3. CodingInv => Coding!ShownIsOneRun /\ Coding!PanelAgrees
    BY EachAssumption, CodingPanelStaysAgreed
  <1>4. CodingInv /\ Providers!TypeOK /\ Providers!ModelOfItsProvider => PanelIsOfItsRun
    BY <1>3 DEF PanelIsOfItsRun
  <1> QED BY EachRuns, <1>1, <1>2, <1>4, PTL
===============================================================================
