----------------------------- MODULE VoiceService -----------------------------
(***************************************************************************)
(* The speech queue of the server: one queue and one state machine shared  *)
(* by all connected users.  (voiceService.js.)                             *)
(*                                                                         *)
(* playQueue() is an asynchronous loop that shifts segments and speaks     *)
(* them; enqueue() starts one whenever it finds the machine idle, so there *)
(* may be several at once.  An element of Players is one invocation.  An   *)
(* invocation gives way to others while the speech of its segment is       *)
(* synthesised ("synth") and while it waits for the time the audio takes   *)
(* ("delay"); what happens between these awaits is one action.             *)
(*                                                                         *)
(* A segment is the number of its enqueueing, segs[g] the user it belongs  *)
(* to.  The array queue is only pushed to at its end, shifted and          *)
(* filtered, so it always lists its segments in the order of their         *)
(* numbers: it is represented by the set of them, its head by the least.   *)
(*                                                                         *)
(* A definition headed "Slip" is not part of the specification: it is the  *)
(* definition below it with a plausible mistake.                           *)
(***************************************************************************)
EXTENDS Integers, Sequences

CONSTANTS
    Users,        \* connected users
    None,         \* no owner yet
    Players,      \* invocations of playQueue() that may overlap (a bound)
    MaxSegments,  \* bound: segments enqueued
    MaxSplit,     \* bound: segments one reply is split into
    MaxStops      \* bound: calls of stop(), which nothing in the server makes

ASSUME VoiceAssumption == /\ MaxSegments \in Nat
                          /\ MaxSplit \in Nat
                          /\ MaxStops \in Nat
                          /\ None \notin Users

VARIABLES
    segs,      \* the owners of the segments enqueued so far
    queue,     \* queue
    state,     \* currentState
    current,   \* _currentOwnerId
    at,        \* where each invocation of playQueue() is
    seg,       \* the segment it is speaking (0: none)
    releases,  \* setTimeout callbacks that will release an interrupt
    stops,     \* how often stop() was called
    heard,     \* history: how often the audio of a segment was emitted
    begun,     \* history: segments taken from the queue
    dropped,   \* history: segments discarded while they were queued
    cut,       \* history: segments discarded while they were synthesised
    hushed     \* history: users on whose behalf speech was interrupted

vars == <<segs, queue, state, current, at, seg, releases, stops,
          heard, begun, dropped, cut, hushed>>

Segments == 1 .. MaxSegments
SPEECH_STATES == {"idle", "generating", "speaking", "interrupted"}

isBusy == state \in {"speaking", "generating"}

Init ==
    /\ segs = <<>>
    /\ queue = {}
    /\ state = "idle"
    /\ current = None
    /\ at = [p \in Players |-> "off"]
    /\ seg = [p \in Players |-> 0]
    /\ releases = 0
    /\ stops = 0
    /\ heard = [g \in Segments |-> 0]
    /\ begun = {}
    /\ dropped = {}
    /\ cut = {}
    /\ hushed = {}

-----------------------------------------------------------------------------
(* playQueue() and speak() *)

(***************************************************************************)
(* The loop of playQueue() in invocation p, entered in state st with queue *)
(* q, up to its next await.  Segments with nothing to speak in them are    *)
(* taken and pass at once; the loop ends when the queue is empty, which    *)
(* makes the machine idle, or when it sees an interrupt.                   *)
(***************************************************************************)
\* Slip: a segment is looked at, and not taken.
PlayQueuePeeks(p, st, q, owners) ==
    /\ st # "interrupted"
    /\ \E g \in q :
          /\ at' = [at EXCEPT ![p] = "synth"]
          /\ seg' = [seg EXCEPT ![p] = g]
          /\ state' = "generating"
          /\ queue' = q
          /\ current' = owners[g]
          /\ begun' = begun \cup {g}

PlayQueue(p, st, q, owners) ==
    \/ /\ st = "interrupted"
       /\ at' = [at EXCEPT ![p] = "off"]
       /\ seg' = [seg EXCEPT ![p] = 0]
       /\ state' = st
       /\ queue' = q
       /\ UNCHANGED <<current, begun>>
    \/ /\ st # "interrupted"
       /\ at' = [at EXCEPT ![p] = "off"]
       /\ state' = "idle"
       /\ queue' = {}
       /\ begun' = begun \cup q
       /\ \/ q = {} /\ current' = current
          \/ \E g \in q : (\A h \in q : h <= g) /\ current' = owners[g]
       /\ seg' = [seg EXCEPT ![p] = 0]
    \/ /\ st # "interrupted"
       /\ \E g \in q :
             /\ at' = [at EXCEPT ![p] = "synth"]
             /\ seg' = [seg EXCEPT ![p] = g]
             /\ state' = "generating"
             /\ queue' = {h \in q : h > g}
             /\ current' = owners[g]
             /\ begun' = begun \cup {h \in q : h <= g}

(* The speech of p's segment is there: dropped under an interrupt, else emitted. *)
SynthReturns(p) ==
    /\ at[p] = "synth"
    /\ \/ /\ state = "interrupted"
          /\ PlayQueue(p, state, queue, segs)
          /\ heard' = heard
       \/ /\ state # "interrupted"
          /\ state' = "speaking"
          /\ heard' = [heard EXCEPT ![seg[p]] = @ + 1]
          /\ at' = [at EXCEPT ![p] = "delay"]
          /\ UNCHANGED <<queue, current, seg, begun>>
    /\ UNCHANGED <<segs, releases, stops, dropped, cut, hushed>>

(* It is not: voice:error, and idle whatever the state was. *)
\* Slip: an error ends the loop.
SynthFailsForGood(p) ==
    /\ at[p] = "synth"
    /\ at' = [at EXCEPT ![p] = "off"]
    /\ seg' = [seg EXCEPT ![p] = 0]
    /\ state' = "idle"
    /\ UNCHANGED <<segs, queue, current, releases, stops, heard, begun, dropped, cut, hushed>>

SynthFails(p) ==
    /\ at[p] = "synth"
    /\ PlayQueue(p, "idle", queue, segs)
    /\ UNCHANGED <<segs, releases, stops, heard, dropped, cut, hushed>>

(* The audio has had its time. *)
DelayEnds(p) ==
    /\ at[p] = "delay"
    /\ PlayQueue(p, IF state = "speaking" THEN "idle" ELSE state, queue, segs)
    /\ UNCHANGED <<segs, releases, stops, heard, dropped, cut, hushed>>

-----------------------------------------------------------------------------
(* Operations *)

(* A reply of user u, split into n segments; the queue is started if idle. *)
\* Slip: started unless audio is playing.
enqueueUnlessSpeaking(u, n) ==
    /\ Len(segs) + n <= MaxSegments
    /\ segs' = segs \o [i \in 1 .. n |-> u]
    /\ LET q == queue \cup (Len(segs) + 1 .. Len(segs) + n) IN
       \/ /\ state \in {"idle", "generating"}
          /\ \E p \in Players : at[p] = "off" /\ PlayQueue(p, state, q, segs')
       \/ /\ state \notin {"idle", "generating"}
          /\ queue' = q
          /\ UNCHANGED <<state, current, at, seg, begun>>
    /\ UNCHANGED <<releases, stops, heard, dropped, cut, hushed>>

enqueue(u, n) ==
    /\ Len(segs) + n <= MaxSegments
    /\ segs' = segs \o [i \in 1 .. n |-> u]
    /\ LET q == queue \cup (Len(segs) + 1 .. Len(segs) + n) IN
       \/ /\ state = "idle"
          /\ \E p \in Players : at[p] = "off" /\ PlayQueue(p, state, q, segs')
       \/ /\ state # "idle"
          /\ queue' = q
          /\ UNCHANGED <<state, current, at, seg, begun>>
    /\ UNCHANGED <<releases, stops, heard, dropped, cut, hushed>>

(* What is being synthesised for the users of set us. *)
Underway(us) == {seg[p] : p \in {r \in Players : at[r] = "synth" /\ segs[seg[r]] \in us}}

Mine(u) == {g \in queue : segs[g] = u}

(* The queued segments of u go; its speech under way is interrupted. *)
\* Slip: the interrupt is not released.
cancelForUserForGood(u) ==
    /\ isBusy /\ current = u
    /\ queue' = queue \ Mine(u)
    /\ dropped' = dropped \cup Mine(u)
    /\ cut' = cut \cup Underway({u})
    /\ state' = "interrupted"
    /\ hushed' = hushed \cup {u}
    /\ UNCHANGED <<segs, current, at, seg, releases, stops, heard, begun>>

\* Slip: the queue keeps the segments of u behind the one that is interrupted.
cancelForUserKeepsQueue(u) ==
    /\ isBusy /\ current = u
    /\ dropped' = dropped \cup Mine(u)
    /\ cut' = cut \cup Underway({u})
    /\ state' = "interrupted"
    /\ releases' = releases + 1
    /\ hushed' = hushed \cup {u}
    /\ UNCHANGED <<segs, queue, current, at, seg, stops, heard, begun>>

cancelForUser(u) ==
    /\ queue' = queue \ Mine(u)
    /\ dropped' = dropped \cup Mine(u)
    /\ cut' = cut \cup Underway({u})
    /\ \/ /\ isBusy /\ current = u
          /\ state' = "interrupted"
          /\ releases' = releases + 1
          /\ hushed' = hushed \cup {u}
       \/ /\ ~(isBusy /\ current = u)
          /\ UNCHANGED <<state, releases, hushed>>
    /\ UNCHANGED <<segs, current, at, seg, stops, heard, begun>>

(* Everybody is silenced. *)
stop ==
    /\ stops < MaxStops
    /\ stops' = stops + 1
    /\ queue' = {}
    /\ dropped' = dropped \cup queue
    /\ cut' = cut \cup Underway(Users)
    /\ state' = "interrupted"
    /\ releases' = releases + 1
    /\ hushed' = Users
    /\ UNCHANGED <<segs, current, at, seg, heard, begun>>

(* 300 ms after an interrupt, of whichever interrupt is in force then. *)
\* Slip: the timers are not counted.
ReleaseUncounted ==
    /\ releases' = releases - 1
    /\ state' = IF state = "interrupted" THEN "idle" ELSE state
    /\ UNCHANGED <<segs, queue, current, at, seg, stops, heard, begun, dropped, cut, hushed>>

Release ==
    /\ releases > 0
    /\ releases' = releases - 1
    /\ state' = IF state = "interrupted" THEN "idle" ELSE state
    /\ UNCHANGED <<segs, queue, current, at, seg, stops, heard, begun, dropped, cut, hushed>>

-----------------------------------------------------------------------------
Step(p) == SynthReturns(p) \/ SynthFails(p) \/ DelayEnds(p)

Next ==
    \/ \E p \in Players : Step(p)
    \/ \E u \in Users : cancelForUser(u) \/ \E n \in 1 .. MaxSplit : enqueue(u, n)
    \/ stop
    \/ Release

Spec == Init /\ [][Next]_vars

(***************************************************************************)
(* A request to the speech synthesiser ends and timers fire; nobody is     *)
(* obliged to say or to cancel anything.                                   *)
(***************************************************************************)
FairSpec == Spec /\ WF_vars(Release) /\ \A p \in Players : WF_vars(Step(p))

-----------------------------------------------------------------------------
(* Correctness *)

(* Every variable holds values of its kind. *)
TypeOK ==
    /\ segs \in Seq(Users)
    /\ queue \in SUBSET Segments
    /\ state \in SPEECH_STATES
    /\ current \in Users \cup {None}
    /\ at \in [Players -> {"off", "synth", "delay"}]
    /\ seg \in [Players -> Nat]
    /\ releases \in Nat
    /\ stops \in Nat
    /\ heard \in [Segments -> Nat]
    /\ begun \in SUBSET Segments
    /\ dropped \in SUBSET Segments
    /\ cut \in SUBSET Nat
    /\ hushed \in SUBSET Users

(***************************************************************************)
(* The machine is never in a state that nothing will end: while it is busy *)
(* an invocation of playQueue() is at work, and an interrupt has a timer   *)
(* that releases it, also when interrupts, late synthesis and errors of    *)
(* overlapping invocations write the one state in any order.               *)
(***************************************************************************)
Active == {p \in Players : at[p] # "off"}

Attended ==
    /\ isBusy => Active # {}
    /\ state = "interrupted" => releases > 0

(***************************************************************************)
(* As long as nobody's speech was interrupted, one invocation at most is   *)
(* at work and the state tells exactly where it is; an idle machine has an *)
(* empty queue.                                                            *)
(***************************************************************************)
OneVoice ==
    hushed = {} /\ stops = 0 =>
        /\ \A p, r \in Active : p = r
        /\ \A p \in Active : state = IF at[p] = "synth" THEN "generating" ELSE "speaking"
        /\ Active = {} => state = "idle" /\ queue = {}

(* The audio of a segment is sent once at most, however many invocations play. *)
HeardOnce == \A g \in Segments : heard[g] <= 1

(* What was queued when its owner cancelled is never begun afterwards. *)
DroppedIsSilent == dropped \cap begun = {}

(***************************************************************************)
(* Unless speech is interrupted, every segment is taken from the queue at  *)
(* some time: failures of the synthesiser and cancellations of queued      *)
(* segments do not stall it.                                               *)
(***************************************************************************)
EveryoneIsServed ==
    \A g \in Segments : g \in queue ~> (g \notin queue \/ hushed # {} \/ stops > 0)

(* An interrupt is released, and speech under way ends. *)
ComesToRest == isBusy \/ state = "interrupted" ~> state = "idle"

(***************************************************************************)
(* What the comment of cancelForUser() promises: when one user cancels,    *)
(* "a genuinely concurrent different user's speech is left alone"; what    *)
(* that user has queued is still spoken.                                   *)
(***************************************************************************)
OthersAreHeard ==
    \A g \in Segments : g \in queue ~> (g \notin queue \/ segs[g] \in hushed)

(***************************************************************************)
(* What chatController.js says of a cancelled stream: its voice is not     *)
(* delivered to the client at all.                                         *)
(***************************************************************************)
CutIsSilent == \A g \in cut : heard[g] = 0
=============================================================================
