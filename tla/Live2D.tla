--------------------------------- MODULE Live2D --------------------------------
(***************************************************************************)
(* The character on the canvas of the web client: the canvas that is       *)
(* mounted and unmounted (live2d/Live2DCanvas.jsx), the manager that loads *)
(* the model for it (Live2DManager.js), the coordinator the model is given *)
(* to (Live2DCoordinator.js), and the motions that are played on it        *)
(* (MotionController.js, IdleMotionManager.js).                            *)
(*                                                                         *)
(* Loading a model and playing a motion are calls of the Live2D library,   *)
(* which answer, or fail, in their own time and in any order.              *)
(***************************************************************************)
EXTENDS Naturals, Sequences

CONSTANTS
    MaxSessions, \* BOUND: how often the canvas is mounted
    MaxMotions   \* BOUND: the motions that are begun

ASSUME Live2DAssumption == MaxSessions \in Nat /\ MaxMotions \in Nat

Sessions == 1..MaxSessions
None == 0

\* MOTION_PRIORITY, the priorities in use.
IDLE == 0
FORCE == 3

VARIABLES
    last,        \* the session that was begun last
    session,     \* sessionToken
    app,         \* the session of the Pixi application, if there is one
    loading,     \* isLoading
    ready,       \* isReady
    model,       \* the session whose load has made the model of the manager
    bound,       \* the model of the coordinator and of the motion controller
    loads,       \* the loads under way
    begun,       \* the priorities of the motions begun so far
    active,      \* (ghost) the motion that the model shows
    answering,   \* the motions whose call has not answered
    playing,     \* isPlaying
    priority     \* currentPriority

manager == <<last, session, app, loading, ready, model, bound, loads>>
motion == <<begun, active, answering, playing, priority>>
vars == <<manager, motion>>

Placed ==
    /\ last \in 0..MaxSessions /\ session \in 0..MaxSessions /\ app \in 0..MaxSessions
    /\ model \in 0..MaxSessions /\ bound \in 0..MaxSessions

Flags == loading \in BOOLEAN /\ ready \in BOOLEAN

MotionTypes ==
    /\ begun \in Seq({IDLE, FORCE})
    /\ active \in DOMAIN begun \union {None}
    /\ answering \subseteq DOMAIN begun
    /\ playing \in BOOLEAN
    /\ priority \in {IDLE, FORCE}

TypeOK == Placed /\ Flags /\ loads \subseteq Sessions /\ MotionTypes

Init ==
    /\ last = 0
    /\ session = None
    /\ app = None
    /\ loading = FALSE
    /\ ready = FALSE
    /\ model = None
    /\ bound = None
    /\ loads = {}
    /\ begun = <<>>
    /\ active = None
    /\ answering = {}
    /\ playing = FALSE
    /\ priority = IDLE

(***************************************************************************)
(* The canvas and the model                                                *)
(***************************************************************************)

\* initialize: what is there is destroyed first.  Without an application, which
\* may be refused, nothing is loaded.
Mount ==
    /\ last < MaxSessions
    /\ last' = last + 1
    /\ session' = last'
    /\ ready' = FALSE
    /\ model' = None
    /\ \/ app' = last' /\ loading' = TRUE /\ loads' = loads \union {last'}
       \/ app' = None /\ loading' = FALSE /\ loads' = loads
    /\ UNCHANGED bound /\ UNCHANGED motion

\* destroy: the coordinator keeps the model it has.
Unmount ==
    /\ session # None
    /\ session' = None
    /\ app' = None
    /\ loading' = FALSE
    /\ ready' = FALSE
    /\ model' = None
    /\ UNCHANGED <<last, bound, loads>> /\ UNCHANGED motion

\* A load has ended, for a session that may be over.
LoadedSlip(s) ==
    /\ s \in loads
    /\ loads' = loads \ {s}
    /\ IF app # None
       THEN model' = s /\ bound' = s /\ ready' = TRUE /\ loading' = FALSE
       ELSE UNCHANGED <<model, bound, ready, loading>>
    /\ UNCHANGED <<last, session, app>> /\ UNCHANGED motion

Loaded(s) ==
    /\ s \in loads
    /\ loads' = loads \ {s}
    /\ IF session = s
       THEN model' = s /\ bound' = s /\ ready' = TRUE /\ loading' = FALSE
       ELSE UNCHANGED <<model, bound, ready, loading>>
    /\ UNCHANGED <<last, session, app>> /\ UNCHANGED motion

LoadFails(s) ==
    /\ s \in loads
    /\ loads' = loads \ {s}
    /\ loading' = (loading /\ session # s)
    /\ UNCHANGED <<last, session, app, ready, model, bound>> /\ UNCHANGED motion

(***************************************************************************)
(* Motions                                                                 *)
(***************************************************************************)

\* playMotion: what is asked for becomes the active motion of the model.
PlayMotion(p) ==
    /\ Len(begun) < MaxMotions
    /\ ~(playing /\ p < priority)
    /\ begun' = Append(begun, p)
    /\ active' = Len(begun')
    /\ answering' = answering \union {active'}
    /\ playing' = TRUE
    /\ priority' = p
    /\ UNCHANGED manager

\* The user taps the character; the canvas may be between two models.
Tap == bound # None /\ PlayMotion(FORCE)

\* The ticker of the model begins an idle motion when none is played.
Idle == ready /\ ~playing /\ PlayMotion(IDLE)

\* A motion is over, or gave way to another one.
Answer(m) ==
    /\ m \in answering
    /\ answering' = answering \ {m}
    /\ active' = IF active = m THEN None ELSE active
    /\ playing' = FALSE
    /\ priority' = IDLE
    /\ UNCHANGED begun /\ UNCHANGED manager

Next ==
    \/ Mount \/ Unmount \/ Tap \/ Idle
    \/ \E s \in Sessions : Loaded(s) \/ LoadFails(s)
    \/ \E m \in DOMAIN begun : Answer(m)

Spec == Init /\ [][Next]_vars

(***************************************************************************)
(* Properties                                                              *)
(***************************************************************************)

\* What is shown belongs to the canvas that is mounted: a load that ends after
\* its canvas is gone, or after another canvas has taken its place, shows
\* nothing and ends no other load.
ShownIsCurrent ==
    /\ model # None => model = session
    /\ ready => app = session /\ model = session /\ bound = session
    /\ loading <=> session \in loads

\* "A lower priority motion cannot interrupt an active higher priority motion."
\* The code breaks it: the answer for a motion that gave way to a tap also
\* marks the tap's own motion as over, and an idle motion may begin.
HigherIsNotInterrupted ==
    [][active' > active /\ active # None => begun'[active'] >= begun[active]]_vars

(***************************************************************************)
(* Proofs, for every number of mountings and motions.  A load that is      *)
(* awaited was begun for a session up to the last one, and the one of the  *)
(* present session only while its application exists: without these two    *)
(* facts ShownIsCurrent does not keep itself.                              *)
(***************************************************************************)
Awaited ==
    /\ session \in 0..last
    /\ loads \subseteq 1..last
    /\ session \in loads => app = session

LiveInv == TypeOK /\ ShownIsCurrent /\ Awaited
================================================================================
