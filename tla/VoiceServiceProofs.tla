-------------------------- MODULE VoiceServiceProofs --------------------------
(***************************************************************************)
(* Proofs about VoiceService, for any number of users, segments and        *)
(* overlapping invocations of playQueue().  That audio is sent once rests  *)
(* on where a segment may be: in the queue, or begun, or dropped, and with *)
(* one invocation at most while it is synthesised.                         *)
(***************************************************************************)
EXTENDS VoiceService, TLAPS

(* Where segments are. *)
Ledger ==
    /\ Len(segs) <= MaxSegments
    /\ \A g \in queue \cup begun \cup dropped : g <= Len(segs)
    /\ queue \cap begun = {}
    /\ queue \cap dropped = {}
    /\ dropped \cap begun = {}
    /\ \A g \in Segments : heard[g] <= 1 /\ (heard[g] > 0 => g \in begun)
    /\ \A p \in Players : at[p] = "synth" => seg[p] \in begun /\ heard[seg[p]] = 0
    /\ \A p, r \in Players : (at[p] = "synth" /\ at[r] = "synth" /\ p # r) => seg[p] # seg[r]

VInv == TypeOK /\ Ledger /\ Attended /\ OneVoice

-----------------------------------------------------------------------------
(* Lemmas about the loop of playQueue() *)

(* The loop leaves values of their kinds. *)
LEMMA PlayTypes ==
    ASSUME TypeOK, NEW p \in Players, NEW st \in SPEECH_STATES, NEW q \in SUBSET Segments,
           NEW owners \in Seq(Users), \A g \in q : g <= Len(owners),
           PlayQueue(p, st, q, owners)
    PROVE  /\ at' \in [Players -> {"off", "synth", "delay"}]
           /\ seg' \in [Players -> Nat]
           /\ state' \in SPEECH_STATES
           /\ queue' \in SUBSET Segments
           /\ current' \in Users \cup {None}
           /\ begun' \in SUBSET Segments
<1>1. \A g \in q : g \in Nat /\ owners[g] \in Users
  BY VoiceAssumption DEF Segments
<1>2. \E place \in {"off", "synth"}, n \in Nat : /\ at' = [at EXCEPT ![p] = place]
                                                 /\ seg' = [seg EXCEPT ![p] = n]
  BY <1>1 DEF PlayQueue
<1>3. queue' \subseteq q /\ begun' \subseteq begun \cup q
  BY DEF PlayQueue
<1>4. queue' \in SUBSET Segments /\ begun' \in SUBSET Segments
  BY <1>3 DEF TypeOK
<1>5. state' \in SPEECH_STATES /\ current' \in Users \cup {None}
  BY <1>1 DEF PlayQueue, TypeOK, SPEECH_STATES
<1>6. seg' \in [Players -> Nat] /\ at' \in [Players -> {"off", "synth", "delay"}]
  BY <1>2 DEF TypeOK
<1> QED
  BY <1>4, <1>5, <1>6

(* It moves segments from the queue to the begun ones, and one of them to p. *)
LEMMA PlayLedger ==
    ASSUME TypeOK, Ledger, NEW p \in Players, NEW st, NEW q \in SUBSET Segments, NEW owners,
           q \cap begun = {}, q \cap dropped = {},
           segs' \in Seq(Users), Len(segs) <= Len(segs'), Len(segs') <= MaxSegments,
           \A g \in q : g <= Len(segs'),
           UNCHANGED <<heard, dropped>>,
           PlayQueue(p, st, q, owners)
    PROVE  Ledger'
<1>1. /\ begun \subseteq begun' /\ begun' \subseteq begun \cup q
      /\ queue' \subseteq q /\ queue' \cap begun' = {}
  <2>1. \A g \in q : g \in Nat
    BY DEF Segments
  <2>2. CASE queue' = q /\ begun' = begun
    BY <2>2
  <2>3. CASE queue' = {} /\ begun' = begun \cup q
    BY <2>3
  <2>4. ASSUME NEW g \in q, queue' = {h \in q : h > g}, begun' = begun \cup {h \in q : h <= g}
        PROVE  /\ begun \subseteq begun' /\ begun' \subseteq begun \cup q
               /\ queue' \subseteq q /\ queue' \cap begun' = {}
    BY <2>1, <2>4
  <2> QED
    BY <2>2, <2>3, <2>4 DEF PlayQueue
<1>2. \A r \in Players : r # p => at'[r] = at[r] /\ seg'[r] = seg[r]
  BY DEF PlayQueue, TypeOK
<1>3. at'[p] = "synth" => seg'[p] \in q /\ seg'[p] \in begun'
  BY VoiceAssumption DEF PlayQueue, TypeOK, Segments
<1>4. \A g \in queue' \cup begun' \cup dropped : g <= Len(segs')
  <2>1. \A g \in begun \cup dropped : g <= Len(segs')
    BY VoiceAssumption DEF Ledger, TypeOK, Segments
  <2> QED
    BY <1>1, <2>1
<1>5. \A g \in q : heard[g] = 0
  BY DEF Ledger, TypeOK
<1>6. \A r \in Players : at'[r] = "synth" => seg'[r] \in begun' /\ heard[seg'[r]] = 0
  BY <1>1, <1>2, <1>3, <1>5 DEF Ledger
<1>7. \A r \in Players : (r # p /\ at'[r] = "synth") => seg'[r] \in begun
  BY <1>2 DEF Ledger
<1>8. \A r, t \in Players : (at'[r] = "synth" /\ at'[t] = "synth" /\ r # t) => seg'[r] # seg'[t]
  <2> SUFFICES ASSUME NEW r \in Players, NEW t \in Players,
                      at'[r] = "synth", at'[t] = "synth", r # t
               PROVE  seg'[r] # seg'[t]
    OBVIOUS
  <2>1. CASE r = p
    BY <2>1, <1>3, <1>7
  <2>2. CASE t = p
    BY <2>2, <1>3, <1>7
  <2>3. CASE r # p /\ t # p
    BY <2>3, <1>2 DEF Ledger
  <2> QED
    BY <2>1, <2>2, <2>3
<1> QED
  BY <1>1, <1>4, <1>6, <1>8 DEF Ledger

(* It ends idle, or busy with p at work, unless it saw an interrupt. *)
LEMMA PlayControl ==
    ASSUME TypeOK, NEW p \in Players, NEW st, NEW q, NEW owners,
           PlayQueue(p, st, q, owners)
    PROVE  /\ \A r \in Players : r # p => at'[r] = at[r]
           /\ \/ st = "interrupted" /\ state' = "interrupted" /\ at'[p] = "off"
              \/ st # "interrupted" /\ state' = "idle" /\ at'[p] = "off" /\ queue' = {}
              \/ st # "interrupted" /\ state' = "generating" /\ at'[p] = "synth"
  BY DEF PlayQueue, TypeOK

-----------------------------------------------------------------------------
(* One lemma for each action *)

(* A step of an invocation that was at work and continues its loop. *)
LEMMA LoopGoesOn ==
    ASSUME VInv, NEW p \in Players, at[p] # "off",
           NEW st \in SPEECH_STATES,
           st = "interrupted" => state = "interrupted",
           PlayQueue(p, st, queue, segs),
           UNCHANGED <<segs, releases, stops, heard, dropped, cut, hushed>>
    PROVE  VInv'
<1>1. TypeOK'
  <2>1. queue \in SUBSET Segments /\ segs \in Seq(Users) /\ \A g \in queue : g <= Len(segs)
    BY DEF VInv, TypeOK, Ledger
  <2> QED
    BY <2>1, PlayTypes DEF VInv, TypeOK
<1>2. Ledger'
  <2>1. /\ TypeOK /\ Ledger
        /\ queue \in SUBSET Segments /\ queue \cap begun = {} /\ queue \cap dropped = {}
        /\ segs' \in Seq(Users) /\ Len(segs) <= Len(segs') /\ Len(segs') <= MaxSegments
        /\ \A g \in queue : g <= Len(segs')
    BY DEF VInv, TypeOK, Ledger
  <2> QED
    BY <2>1, PlayLedger
<1>3. /\ \A r \in Players : r # p => at'[r] = at[r]
      /\ \/ st = "interrupted" /\ state' = "interrupted" /\ at'[p] = "off"
         \/ st # "interrupted" /\ state' = "idle" /\ at'[p] = "off" /\ queue' = {}
         \/ st # "interrupted" /\ state' = "generating" /\ at'[p] = "synth"
  BY PlayControl DEF VInv
<1>4. Attended'
  BY <1>3 DEF VInv, Attended, Active, isBusy
<1>5. OneVoice'
  <2> SUFFICES ASSUME hushed = {}, stops = 0
               PROVE  /\ \A r, t \in Active' : r = t
                      /\ \A r \in Active' :
                            state' = IF at'[r] = "synth" THEN "generating" ELSE "speaking"
                      /\ Active' = {} => state' = "idle" /\ queue' = {}
    BY DEF OneVoice
  <2>1. \A r \in Players : r # p => at[r] = "off"
    BY DEF VInv, OneVoice, Active
  <2>2. \A r \in Players : r # p => at'[r] = "off"
    BY <1>3, <2>1
  <2>3. st # "interrupted"
    BY DEF VInv, OneVoice, Active
  <2>4. Active' \subseteq {p} /\ (at'[p] = "synth" => p \in Active')
    BY <2>2 DEF Active
  <2> QED
    BY <1>3, <2>3, <2>4 DEF Active
<1> QED
  BY <1>1, <1>2, <1>4, <1>5 DEF VInv

(* The synthesised speech is dropped, or sent for the first time. *)
LEMMA SynthReturnsStep ==
    ASSUME VInv, NEW p \in Players, SynthReturns(p)
    PROVE  VInv'
<1>1. CASE state = "interrupted"
  BY <1>1, LoopGoesOn DEF SynthReturns, VInv, TypeOK, SPEECH_STATES
<1>2. CASE state # "interrupted"
  <2>1. /\ at[p] = "synth"
        /\ state' = "speaking"
        /\ heard' = [heard EXCEPT ![seg[p]] = @ + 1]
        /\ at' = [at EXCEPT ![p] = "delay"]
        /\ UNCHANGED <<queue, current, seg, begun>>
        /\ UNCHANGED <<segs, releases, stops, dropped, cut, hushed>>
    BY <1>2 DEF SynthReturns
  <2>2. /\ at'[p] = "delay"
        /\ \A r \in Players : r # p => at'[r] = at[r]
    BY <2>1 DEF VInv, TypeOK
  <2>3. seg[p] \in begun /\ seg[p] \in Segments /\ heard[seg[p]] = 0
    BY <2>1 DEF VInv, Ledger, TypeOK
  <2>4. TypeOK'
    <3>1. heard' \in [Segments -> Nat] /\ at' \in [Players -> {"off", "synth", "delay"}]
      BY <2>1, <2>3 DEF VInv, TypeOK
    <3>2. state' \in SPEECH_STATES
      BY <2>1 DEF SPEECH_STATES
    <3> QED
      BY <2>1, <3>1, <3>2 DEF VInv, TypeOK
  <2>5. /\ heard'[seg[p]] = 1
        /\ \A g \in Segments : g # seg[p] => heard'[g] = heard[g]
    BY <2>1, <2>3 DEF VInv, TypeOK
  <2>6. \A r \in Players : at'[r] = "synth" => seg[r] # seg[p] /\ seg[r] \in begun /\ heard'[seg[r]] = 0
    <3> SUFFICES ASSUME NEW r \in Players, at'[r] = "synth"
                 PROVE  seg[r] # seg[p] /\ seg[r] \in begun /\ heard'[seg[r]] = 0
      OBVIOUS
    <3>1. r # p /\ at[r] = "synth"
      BY <2>2
    <3>2. seg[r] # seg[p] /\ seg[r] \in begun /\ heard[seg[r]] = 0 /\ seg[r] \in Segments
      BY <2>1, <3>1 DEF VInv, Ledger, TypeOK
    <3> QED
      BY <2>5, <3>2
  <2>7. \A r, t \in Players : (at'[r] = "synth" /\ at'[t] = "synth" /\ r # t) => seg[r] # seg[t]
    BY <2>2 DEF VInv, Ledger
  <2>8. \A g \in Segments : heard'[g] <= 1 /\ (heard'[g] > 0 => g \in begun)
    BY <2>3, <2>5 DEF VInv, Ledger
  <2>9. Ledger'
    BY <2>1, <2>6, <2>7, <2>8 DEF VInv, Ledger
  <2>10. Active' = Active /\ p \in Active
    BY <2>1, <2>2 DEF Active
  <2>11. Attended'
    BY <2>1, <2>10 DEF VInv, Attended, isBusy
  <2>12. OneVoice'
    BY <2>1, <2>2, <2>10 DEF VInv, OneVoice
  <2> QED
    BY <2>4, <2>9, <2>11, <2>12 DEF VInv
<1> QED
  BY <1>1, <1>2

(* An error of the synthesiser releases any interrupt and goes on. *)
LEMMA SynthFailsStep ==
    ASSUME VInv, NEW p \in Players, SynthFails(p)
    PROVE  VInv'
<1>1. /\ at[p] # "off" /\ "idle" \in SPEECH_STATES
      /\ PlayQueue(p, "idle", queue, segs)
      /\ UNCHANGED <<segs, releases, stops, heard, dropped, cut, hushed>>
  BY DEF SynthFails, SPEECH_STATES
<1> QED
  BY <1>1, LoopGoesOn

(* The audio has had its time. *)
LEMMA DelayEndsStep ==
    ASSUME VInv, NEW p \in Players, DelayEnds(p)
    PROVE  VInv'
<1> DEFINE st == IF state = "speaking" THEN "idle" ELSE state
<1>1. /\ at[p] # "off" /\ st \in SPEECH_STATES
      /\ st = "interrupted" => state = "interrupted"
      /\ PlayQueue(p, st, queue, segs)
      /\ UNCHANGED <<segs, releases, stops, heard, dropped, cut, hushed>>
  BY DEF DelayEnds, SPEECH_STATES, VInv, TypeOK
<1> HIDE DEF st
<1> QED
  BY <1>1, LoopGoesOn

(* New segments wait behind the others, or start an invocation. *)
LEMMA enqueueStep ==
    ASSUME VInv, NEW u \in Users, NEW n \in 1 .. MaxSplit, enqueue(u, n)
    PROVE  VInv'
<1> DEFINE new == [i \in 1 .. n |-> u]
           q == queue \cup (Len(segs) + 1 .. Len(segs) + n)
<1>1. n \in Nat /\ new \in Seq(Users) /\ Len(new) = n
  <2>1. n \in Nat
    BY VoiceAssumption
  <2> QED
    BY <2>1
<1>2. segs' = segs \o new /\ Len(segs) + n <= MaxSegments
  BY DEF enqueue
<1>3. segs' \in Seq(Users) /\ Len(segs') = Len(segs) + n /\ Len(segs) \in Nat
  BY <1>1, <1>2 DEF VInv, TypeOK
<1>4. q \in SUBSET Segments
  <2>1. queue \subseteq Segments
    BY DEF VInv, TypeOK
  <2>2. \A g \in Len(segs) + 1 .. Len(segs) + n : g \in 1 .. MaxSegments
    BY <1>1, <1>2, <1>3, VoiceAssumption
  <2> QED
    BY <2>1, <2>2 DEF Segments
<1>5. /\ q \cap begun = {} /\ q \cap dropped = {}
      /\ \A g \in q : g <= Len(segs')
  <2>1. \A g \in begun \cup dropped \cup queue : g \in Nat /\ g <= Len(segs)
    BY DEF VInv, Ledger, TypeOK, Segments
  <2> QED
    BY <1>1, <1>3, <2>1 DEF VInv, Ledger
<1>6. CASE state = "idle"
  <2>1. PICK p \in Players : at[p] = "off" /\ PlayQueue(p, "idle", q, segs')
    BY <1>6 DEF enqueue
  <2>2. UNCHANGED <<releases, stops, heard, dropped, cut, hushed>>
    BY DEF enqueue
  <2> HIDE DEF q, new
  <2>3. TypeOK'
    <3>1. TypeOK /\ "idle" \in SPEECH_STATES
      BY DEF VInv, SPEECH_STATES
    <3>2. /\ at' \in [Players -> {"off", "synth", "delay"}]
          /\ seg' \in [Players -> Nat]
          /\ state' \in SPEECH_STATES
          /\ queue' \in SUBSET Segments
          /\ current' \in Users \cup {None}
          /\ begun' \in SUBSET Segments
      BY <1>3, <1>4, <1>5, <2>1, <3>1, PlayTypes
    <3> QED
      BY <1>3, <2>2, <3>1, <3>2 DEF TypeOK
  <2>4. Ledger'
    <3>1. TypeOK /\ Ledger /\ Len(segs) <= Len(segs') /\ Len(segs') <= MaxSegments
      BY <1>1, <1>2, <1>3 DEF VInv
    <3> QED
      BY <1>3, <1>4, <1>5, <2>1, <2>2, <3>1, PlayLedger
  <2>5. /\ \A r \in Players : r # p => at'[r] = at[r]
        /\ \/ state' = "idle" /\ at'[p] = "off" /\ queue' = {}
           \/ state' = "generating" /\ at'[p] = "synth"
    BY <2>1, PlayControl DEF VInv
  <2>6. Attended'
    BY <2>5 DEF Attended, Active, isBusy
  <2>7. OneVoice'
    <3> SUFFICES ASSUME hushed = {}, stops = 0
                 PROVE  /\ \A r, t \in Active' : r = t
                        /\ \A r \in Active' :
                              state' = IF at'[r] = "synth" THEN "generating" ELSE "speaking"
                        /\ Active' = {} => state' = "idle" /\ queue' = {}
      BY <2>2 DEF OneVoice
    <3>1. Active = {}
      BY <1>6 DEF VInv, OneVoice, Active
    <3>2. Active' \subseteq {p} /\ (at'[p] = "synth" => p \in Active')
      BY <2>5, <3>1 DEF Active
    <3> QED
      BY <2>5, <3>2 DEF Active
  <2> QED
    BY <2>3, <2>4, <2>6, <2>7 DEF VInv
<1>7. CASE state # "idle"
  <2>1. /\ queue' = q
        /\ UNCHANGED <<state, current, at, seg, begun>>
        /\ UNCHANGED <<releases, stops, heard, dropped, cut, hushed>>
    BY <1>7 DEF enqueue
  <2>2. TypeOK'
    BY <1>3, <1>4, <2>1 DEF VInv, TypeOK
  <2>3. Ledger'
    <3>1. \A g \in begun \cup dropped : g \in Nat /\ g <= Len(segs)
      BY DEF VInv, Ledger, TypeOK, Segments
    <3>2. \A g \in queue' \cup begun' \cup dropped' : g <= Len(segs')
      BY <1>1, <1>3, <1>5, <2>1, <3>1
    <3> HIDE DEF q, new
    <3> QED
      BY <1>1, <1>2, <1>3, <1>5, <2>1, <3>2 DEF VInv, Ledger
  <2>4. Attended' /\ OneVoice'
    BY <1>7, <2>1 DEF VInv, Attended, OneVoice, Active, isBusy
  <2> QED
    BY <2>2, <2>3, <2>4 DEF VInv
<1> QED
  BY <1>6, <1>7

(* A cancellation takes segments from the queue, and may interrupt. *)
LEMMA cancelForUserStep ==
    ASSUME VInv, NEW u \in Users, cancelForUser(u)
    PROVE  VInv'
<1>1. /\ queue' = queue \ Mine(u) /\ dropped' = dropped \cup Mine(u)
      /\ cut' = cut \cup Underway({u})
      /\ UNCHANGED <<segs, current, at, seg, stops, heard, begun>>
      /\ \/ /\ state' = "interrupted" /\ releases' = releases + 1
            /\ hushed' = hushed \cup {u}
         \/ UNCHANGED <<state, releases, hushed>>
  BY DEF cancelForUser
<1>2. Mine(u) \subseteq queue /\ Underway({u}) \subseteq Nat
  BY DEF Mine, Underway, VInv, TypeOK
<1>3. TypeOK'
  <2>1. queue' \in SUBSET Segments /\ dropped' \in SUBSET Segments /\ cut' \in SUBSET Nat
    BY <1>1, <1>2 DEF VInv, TypeOK
  <2>2. state' \in SPEECH_STATES /\ releases' \in Nat /\ hushed' \in SUBSET Users
    BY <1>1 DEF VInv, TypeOK, SPEECH_STATES
  <2> QED
    BY <1>1, <2>1, <2>2 DEF VInv, TypeOK
<1>4. Ledger'
  BY <1>1, <1>2 DEF VInv, Ledger
<1>5. Attended'
  BY <1>1 DEF VInv, Attended, Active, isBusy, TypeOK
<1>6. OneVoice'
  <2>1. u \in hushed' => hushed' # {}
    OBVIOUS
  <2> QED
    BY <1>1, <2>1 DEF VInv, OneVoice, Active
<1> QED
  BY <1>3, <1>4, <1>5, <1>6 DEF VInv

(* stop() empties the queue and interrupts. *)
LEMMA stopStep ==
    ASSUME VInv, stop
    PROVE  VInv'
<1>1. Underway(Users) \subseteq Nat
  BY DEF Underway, VInv, TypeOK
<1>2. TypeOK'
  <2>1. queue' \in SUBSET Segments /\ dropped' \in SUBSET Segments /\ cut' \in SUBSET Nat
    BY <1>1 DEF stop, VInv, TypeOK
  <2>2. /\ state' \in SPEECH_STATES /\ releases' \in Nat /\ stops' \in Nat
        /\ hushed' \in SUBSET Users
    BY DEF stop, VInv, TypeOK, SPEECH_STATES
  <2> QED
    BY <2>1, <2>2 DEF stop, VInv, TypeOK
<1>3. Ledger'
  BY DEF stop, VInv, Ledger
<1>4. Attended' /\ OneVoice'
  BY DEF stop, VInv, Attended, OneVoice, isBusy, TypeOK
<1> QED
  BY <1>2, <1>3, <1>4 DEF VInv

(* A timer releases the interrupt, if there still is one. *)
LEMMA ReleaseStep ==
    ASSUME VInv, Release
    PROVE  VInv'
<1>1. TypeOK'
  BY DEF Release, VInv, TypeOK, SPEECH_STATES
<1>2. Ledger'
  BY DEF Release, VInv, Ledger
<1>3. Attended'
  BY DEF Release, VInv, Attended, Active, isBusy
<1>4. OneVoice'
  BY DEF Release, VInv, OneVoice, Active
<1> QED
  BY <1>1, <1>2, <1>3, <1>4 DEF VInv

-----------------------------------------------------------------------------
(* The invariant holds initially. *)
LEMMA InitInv == Init => VInv
<1> SUFFICES ASSUME Init PROVE VInv
  OBVIOUS
<1>1. TypeOK
  BY DEF Init, TypeOK, SPEECH_STATES
<1>2. Ledger
  BY VoiceAssumption DEF Init, Ledger
<1>3. Attended /\ OneVoice
  BY DEF Init, Attended, OneVoice, Active, isBusy
<1> QED
  BY <1>1, <1>2, <1>3 DEF VInv

(* Every step keeps it. *)
LEMMA StepInv == VInv /\ [Next]_vars => VInv'
<1> SUFFICES ASSUME VInv, [Next]_vars PROVE VInv'
  OBVIOUS
<1>1. CASE UNCHANGED vars
  BY <1>1 DEF vars, VInv, TypeOK, Ledger, Attended, OneVoice, Active, isBusy
<1>2. ASSUME NEW p \in Players, Step(p) PROVE VInv'
  BY <1>2, SynthReturnsStep, SynthFailsStep, DelayEndsStep DEF Step
<1>3. ASSUME NEW u \in Users, cancelForUser(u) PROVE VInv'
  BY <1>3, cancelForUserStep
<1>4. ASSUME NEW u \in Users, NEW n \in 1 .. MaxSplit, enqueue(u, n) PROVE VInv'
  BY <1>4, enqueueStep
<1>5. CASE stop
  BY <1>5, stopStep
<1>6. CASE Release
  BY <1>6, ReleaseStep
<1> QED
  BY <1>1, <1>2, <1>3, <1>4, <1>5, <1>6 DEF Next

(* Every reachable state of the service satisfies the inductive invariant. *)
THEOREM Invariance == Spec => []VInv
  BY InitInv, StepInv, PTL DEF Spec

-----------------------------------------------------------------------------
(* What follows from it *)

(* Every variable holds values of its kind. *)
THEOREM VoiceTypes == Spec => []TypeOK
<1>1. VInv => TypeOK
  BY DEF VInv
<1> QED
  BY <1>1, Invariance, PTL

(* A busy machine has an invocation at work, an interrupt has a timer. *)
THEOREM NeverStuck == Spec => []Attended
<1>1. VInv => Attended
  BY DEF VInv
<1> QED
  BY <1>1, Invariance, PTL

(* Without interrupts there is one invocation, and the state tells where it is. *)
THEOREM OneAtATime == Spec => []OneVoice
<1>1. VInv => OneVoice
  BY DEF VInv
<1> QED
  BY <1>1, Invariance, PTL

(* The audio of a segment is sent once at most. *)
THEOREM SentOnce == Spec => []HeardOnce
<1>1. VInv => HeardOnce
  BY DEF VInv, Ledger, HeardOnce
<1> QED
  BY <1>1, Invariance, PTL

(* What was dropped from the queue is never begun. *)
THEOREM DroppedForGood == Spec => []DroppedIsSilent
<1>1. VInv => DroppedIsSilent
  BY DEF VInv, Ledger, DroppedIsSilent
<1> QED
  BY <1>1, Invariance, PTL
=============================================================================
