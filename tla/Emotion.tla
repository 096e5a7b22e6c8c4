-------------------------------- MODULE Emotion --------------------------------
(***************************************************************************)
(* The emotion towards one user: nine axes (EmotionState.js), moved by the *)
(* texts of a chat and by time (EmotionEngine.js), and the copy that the   *)
(* client shows (its EmotionEngine.js), which is sent with a reply.        *)
(* An axis is counted in thousandths; a decay is rounded towards rest,     *)
(* which the code's fractions approach without end.                        *)
(***************************************************************************)
EXTENDS Integers, FiniteSets

CONSTANTS
    Words,     \* the keywords that occur
    Cues,      \* the cues that occur
    MaxTexts,  \* bound: texts that are analysed
    MaxCalm    \* bound: decays in a row, of 5 seconds each

EmotionAssumption ==
    /\ Words \subseteq {"excited", "sad", "angry", "scared", "confused", "love"}
    /\ Cues \subseteq {"none", "question", "shout", "long"}
    /\ MaxTexts \in Nat /\ MaxCalm \in Nat

VARIABLES
    state,  \* the axes on the server
    shown,  \* the primary emotion that the client was sent
    calm,   \* decays since the last text
    texts   \* texts that were analysed

vars == <<state, shown, calm, texts>>

Axes == {"joy", "stress", "trust", "attachment", "confidence", "curiosity", "energy",
         "focus", "mood"}
Low(axis) == IF axis = "mood" THEN -1000 ELSE 0
Clamp(axis, v) == IF v < Low(axis) THEN Low(axis) ELSE IF v > 1000 THEN 1000 ELSE v

\* The constructor's values without data.
Fresh == [joy |-> 500, stress |-> 100, trust |-> 500, attachment |-> 300, confidence |-> 600,
          curiosity |-> 500, energy |-> 700, focus |-> 500, mood |-> 0]

TypeOK ==
    /\ DOMAIN state = Axes
    /\ \A axis \in Axes : state[axis] \in Low(axis)..1000
    /\ calm \in 0..MaxCalm /\ texts \in 0..MaxTexts
    /\ shown \in {"anxious", "excited", "happy", "sad", "angry", "curious", "focused",
                  "confused", "neutral"}

\* toPrimaryEmotion: the first that applies.
Primary(s) ==
    CASE s.stress > 650 -> "anxious"
      [] s.stress =< 650 /\ s.joy > 650 ->
            IF s.joy > 750 /\ s.energy > 700 THEN "excited" ELSE "happy"
      [] s.stress =< 650 /\ s.joy =< 650 ->
            IF s.mood < -400 THEN "sad"
            ELSE IF s.stress > 450 /\ s.mood < -200 THEN "angry"
            ELSE IF s.curiosity > 700 THEN "curious"
            ELSE IF s.focus > 700 THEN "focused"
            ELSE IF s.focus < 300 /\ s.stress > 300 THEN "confused"
            ELSE "neutral"

\* KEYWORD_DELTAS, of the keywords in Words.
Keyword == [
    excited  |-> [joy |-> 200, energy |-> 200, curiosity |-> 100, mood |-> 180],
    sad      |-> [joy |-> -200, mood |-> -250, stress |-> 100, energy |-> -100],
    angry    |-> [stress |-> 300, mood |-> -300, energy |-> 100, confidence |-> -100],
    scared   |-> [stress |-> 250, confidence |-> -150, focus |-> -100, mood |-> -150],
    confused |-> [focus |-> -200, curiosity |-> 100, stress |-> 80, confidence |-> -100],
    love     |-> [joy |-> 120, attachment |-> 80, trust |-> 50, mood |-> 150]]

Of(word, axis) == IF axis \in DOMAIN Keyword[word] THEN Keyword[word][axis] ELSE 0

\* Question marks, exclamation marks, or many words; the intents of the detector have no row
\* in INTENT_DELTAS.
Cue(cue, axis) ==
    CASE cue = "question" /\ axis = "curiosity" -> 50
      [] cue = "question" /\ axis = "focus"     -> 30
      [] cue = "shout"    /\ axis = "energy"    -> 80
      [] cue = "shout"    /\ axis = "joy"       -> 50
      [] cue = "long"     /\ axis = "focus"     -> 50
      [] cue = "long"     /\ axis = "energy"    -> 30
      [] OTHER -> 0

\* An axis moves by 0.4 at most in one text.
Limited(d) == IF d > 400 THEN 400 ELSE IF d < -400 THEN -400 ELSE d

\* The keywords of a text, at most two here, and its cue.
Delta(words, cue, axis) ==
    LET first == CHOOSE w \in words : TRUE
    IN Limited(Cue(cue, axis) +
               (IF words = {} THEN 0
                ELSE Of(first, axis) +
                     (IF words = {first} THEN 0
                      ELSE Of(CHOOSE w \in words \ {first} : TRUE, axis))))

\* applyDeltas.
Moved(words, cue) == [axis \in Axes |-> Clamp(axis, state[axis] + Delta(words, cue, axis))]

\* decay(5): each axis goes towards its rest by a part of the way; trust and
\* attachment are held.
Rest == [joy |-> 500, stress |-> 0, confidence |-> 600, curiosity |-> 500, energy |-> 700,
         focus |-> 500, mood |-> 0]
Rate == [joy |-> 50, stress |-> 100, confidence |-> 25, curiosity |-> 150, energy |-> 25,
         focus |-> 125, mood |-> 50]
Towards(v, rest, rate) ==
    IF v > rest THEN v - ((v - rest) * rate + 999) \div 1000
    ELSE v + ((rest - v) * rate + 999) \div 1000

Decayed(s) == [axis \in Axes |-> IF axis \in DOMAIN Rest
                                 THEN Towards(s[axis], Rest[axis], Rate[axis])
                                 ELSE s[axis]]

Init ==
    /\ state = Fresh
    /\ shown = "neutral"
    /\ calm = 0
    /\ texts = 0

\* analyzeText: of a message, or of a reply that is then sent with the emotion,
\* unless it was stopped.
AnalyzeText(words, cue, told) ==
    /\ texts < MaxTexts
    /\ texts' = texts + 1
    /\ calm' = 0
    /\ state' = Moved(words, cue)
    /\ shown' = IF told THEN Primary(state') ELSE shown

\* applyRelationshipBoost has no caller.  The timer: the clients are told nothing.
TickDecay ==
    /\ calm < MaxCalm
    /\ calm' = calm + 1
    /\ state' = Decayed(state)
    /\ UNCHANGED <<shown, texts>>

Next ==
    \/ TickDecay
    \/ \E words \in {w \in SUBSET Words : Cardinality(w) =< 2},
          cue \in Cues, told \in BOOLEAN : AnalyzeText(words, cue, told)

Spec == Init /\ [][Next]_vars

-----------------------------------------------------------------------------
\* Whatever was said, Yuna is calm after two minutes of silence: 24 decays.
CalmsDown == calm >= 24 => Primary(state) = "neutral"

\* The client shows the emotion of the server.  It does not hold: no decay, and
\* nothing of a message before its reply, is sent.
ShownIsFelt == shown = Primary(state)
=============================================================================
