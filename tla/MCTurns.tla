------------------------------- MODULE MCTurns -------------------------------
(* What must go on, for TLC: one of the components runs, the others stay as *)
(* they begin.  They share no state, so that each is checked as in a run of *)
(* its own, under the fairness of its own module.                           *)
EXTENDS Coordinator, TLC

CONSTANTS
    Parts,  \* the components to run
    Mics, Listener, Sessions, NoSession, MaxMail, MaxPresses,
    MaxHeard,
    MaxTracks, Moods, Answers,
    Signals, Requests

VARIABLES
    part,   \* the component that runs
    setting, boot, flags, timer, session, current, mic, mail, deserted, presses,
    window, pending, inits, calls, shown, heard, missed,
    told, typing, thinking, listening, machine, engine, queue, playing, element,
    rejected, rendered, speaking, fate,
    mongo, stage, port, watched, reload, store, shutdown, request, failing, end

(* Plans with and without steps that need a permission, with a step for an  *)
(* agent that does not listen.                                              *)
Safe(a) == [agent |-> a, risky |-> FALSE]
Risky(a) == [agent |-> a, risky |-> TRUE]
MCPlans == {<<>>, <<Safe("Executor"), Risky("Coding")>>, <<Risky("Executor"), Safe("Memory")>>}

WakeMic   == INSTANCE WakeMic
WakePopup == INSTANCE WakePopup
Speech    == INSTANCE Speech
Boot      == INSTANCE Boot WITH listening <- port

ASSUME TurnsAssumption ==
    /\ Parts \subseteq {"coordinator", "wakemic", "wakepopup", "speech", "boot"}
    /\ WakeMic!WakeMicAssumption /\ Speech!SpeechAssumption /\ WakePopup!WakePopupAssumption

wakeMicVars == <<setting, boot, flags, timer, session, current, mic, mail, deserted, presses>>
wakePopupVars == <<window, pending, inits, calls, shown, heard, missed>>
speechVars == <<told, typing, thinking, listening, machine, engine, queue, playing,
                element, rejected, rendered, speaking, fate>>
bootVars == <<mongo, stage, port, watched, reload, store, shutdown, request, failing, end>>
all == <<part, vars, wakeMicVars, wakePopupVars, speechVars, bootVars>>

(* A component that does not run begins in one state only, and in one that  *)
(* no action under fairness can leave.                                      *)
Asleep ==
    /\ setting = TRUE /\ boot = "off" /\ timer = FALSE /\ mail = <<>> /\ presses = 0
    /\ deserted = FALSE
    /\ flags = [enabled |-> TRUE, stopped |-> FALSE, paused |-> FALSE]
    /\ session = [s \in Sessions |-> WakeMic!Over]
    /\ current = [o \in Mics \union {Listener} |-> NoSession]
    /\ mic = [m \in Mics |-> WakeMic!AtRest]

Down ==
    /\ mongo = FALSE /\ stage = 0 /\ port = "no" /\ watched = "no" /\ reload = FALSE
    /\ store = "disconnected" /\ failing = FALSE /\ end = "killed"
    /\ shutdown = [s \in Signals |-> "none"]
    /\ request = [r \in Requests |-> "none"]

Start ==
    /\ part \in Parts
    /\ IF part = "wakemic" THEN WakeMic!Init ELSE Asleep
    /\ IF part = "boot" THEN Boot!Init ELSE Down
    /\ Init /\ WakePopup!Init /\ Speech!Init

(* Only the component that runs takes a step.                               *)
OthersStay ==
    /\ UNCHANGED part
    /\ part # "coordinator" => UNCHANGED vars
    /\ part # "wakemic"     => UNCHANGED wakeMicVars
    /\ part # "wakepopup"   => UNCHANGED wakePopupVars
    /\ part # "speech"      => UNCHANGED speechVars
    /\ part # "boot"        => UNCHANGED bootVars

Step ==
    /\ OthersStay
    /\ CASE part = "coordinator" -> Next
         [] part = "wakemic"     -> WakeMic!Next
         [] part = "wakepopup"   -> WakePopup!Next
         [] part = "speech"      -> Speech!Next
         [] part = "boot"        -> Boot!Next

Turns == Start /\ [][Step]_all /\ Fairness /\ WakeMic!Fairness /\ Speech!Fairness /\ Boot!Fairness

-----------------------------------------------------------------------------
(* Every variable of the component that runs has its type.                  *)
AllTypesOK ==
    CASE part = "coordinator" -> TypeOK
      [] part = "wakemic"     -> WakeMic!TypeOK
      [] part = "wakepopup"   -> WakePopup!TypeOK
      [] part = "speech"      -> Speech!TypeOK
      [] part = "boot"        -> Boot!TypeOK

(* Wake popup: it shows the phrase that was heard last.                     *)
LatestIsShown == WakePopup!LatestIsShown

(* Wake microphone and speech: wake detection that is turned off does not   *)
(* listen, and it listens again when the manual microphones are done,       *)
(* unless the window of the last one in use is gone; whatever the browser   *)
(* refuses, a queue with tracks goes on, and the lips rest when nothing is  *)
(* heard.                                                                   *)
VoiceServes ==
    /\ [](part = "wakemic" => WakeMic!SwitchedOffIsSilent) /\ WakeMic!ListeningResumes
    /\ [](part = "speech" => Speech!LipsRest) /\ Speech!QueueMovesOn

(* Boot: the boot ends, a signal ends a server that is up, and one that     *)
(* ends well has answered its requests, closed its store unless that failed *)
(* or is under way for another signal, and watches nothing but what it      *)
(* could not close or a hot reload opened meanwhile.                        *)
ServerEndsWell == Boot!BootEnds /\ Boot!ShutdownEnds
=============================================================================
