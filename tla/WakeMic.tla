-------------------------------- MODULE WakeMic --------------------------------
(***************************************************************************)
(* Who holds the microphone: the hidden wake listener                      *)
(* (yuna/src/wake/WakeListener.jsx), which runs one session of speech      *)
(* recognition after another, and the manual microphones                   *)
(* (yuna/src/hooks/useSpeechRecognition.js) of the other windows, which    *)
(* ask it through the main process (electron/ipc/wake.js) to pause.  A     *)
(* window that is closed or reloaded takes its hooks with it, and React    *)
(* runs no cleanup then.                                                   *)
(*                                                                         *)
(* Chromium is external: a session ends when it likes, or some time after  *)
(* stop(), and then fires onend; a session that starts ends the one that   *)
(* is live anywhere in the application, the contention that the comments   *)
(* of the two files describe.                                              *)
(***************************************************************************)
EXTENDS Naturals, Sequences, FiniteSets

CONSTANTS
    Mics,       \* the mounted components that use the hook
    Listener,   \* the wake listener, as the owner of a session
    Sessions,   \* the sessions that are not over at one time
    NoSession,
    MaxMail,    \* bound: messages on their way to the listener window
    MaxPresses  \* bound: presses of a microphone button and of the wake switch

WakeMicAssumption ==
    /\ Listener \notin Mics
    /\ NoSession \notin Sessions
    /\ MaxMail \in Nat
    /\ MaxPresses \in Nat

VARIABLES
    setting,   \* wake detection, as the settings of the desktop have it
    boot,      \* how far the mount effect of the listener is
    flags,     \* enabledRef, stoppedRef and pausedForMicRef of the listener
    timer,     \* the restart of the listener is scheduled
    session,   \* the sessions: their owner and what Chromium does with them
    current,   \* recognitionRef of the listener and of each hook
    mic,       \* of each hook: listening, and the calls of start() that wait
    mail,      \* IPC messages on their way to the listener window
    deserted,  \* history: a hook went in use, and none has given the microphone back since
    presses

vars == <<setting, boot, flags, timer, session, current, mic, mail, deserted, presses>>

Owners == Mics \union {Listener}

Over == [owner |-> Listener, at |-> "over"]
AtRest == [on |-> FALSE, starts |-> 0]

\* A manual microphone asks for a pause or takes it back, naming the hook.
Busy(b, m) == [kind |-> "busy", on |-> b, of |-> m]
Enable(b)  == [kind |-> "enabled", on |-> b, of |-> Listener]
\* The answer to wake:settings:get comes over the same channel.
Reply(b)   == [kind |-> "settings", on |-> b, of |-> Listener]

TypeOK ==
    /\ setting \in BOOLEAN
    /\ boot \in {"mounted", "asked", "priming", "up", "failed", "off"}
    /\ flags \in [enabled : BOOLEAN, stopped : BOOLEAN, paused : BOOLEAN]
    /\ timer \in BOOLEAN
    /\ session \in [Sessions -> [owner : Owners, at : {"over", "live", "ending"}]]
    /\ current \in [Owners -> Sessions \union {NoSession}]
    /\ mic \in [Mics -> [on : BOOLEAN, starts : Nat]]
    /\ mail \in Seq([kind : {"busy", "enabled", "settings"}, on : BOOLEAN, of : Owners])
    /\ deserted \in BOOLEAN
    /\ presses \in 0..MaxPresses

Init ==
    /\ setting \in BOOLEAN
    /\ boot = "mounted"
    /\ flags = [enabled |-> TRUE, stopped |-> FALSE, paused |-> FALSE]
    /\ timer = FALSE
    /\ session = [s \in Sessions |-> Over]
    /\ current = [o \in Owners |-> NoSession]
    /\ mic = [m \in Mics |-> AtRest]
    /\ mail = <<>>
    /\ deserted = FALSE
    /\ presses = 0

(***************************************************************************)
(* Sessions                                                                *)
(***************************************************************************)

\* recognition.start() for owner o: Chromium ends the session that is live.
Started(o, s) ==
    /\ session[s].at = "over"
    /\ session' = [t \in Sessions |->
          IF t = s THEN [owner |-> o, at |-> "live"]
          ELSE IF session[t].at = "live" THEN [session[t] EXCEPT !.at = "ending"]
          ELSE session[t]]
    /\ current' = [current EXCEPT ![o] = s]

\* recognitionRef.current?.stop(): the session stops listening, and ends later.
Ending(s) ==
    IF s = NoSession \/ session[s].at # "live" THEN session
    ELSE [session EXCEPT ![s].at = "ending"]

MayListen(f) == f.enabled /\ ~f.stopped /\ ~f.paused

\* startRecognition of the listener, under the flags f.
StartRecognition(f) ==
    \/ /\ MayListen(f)
       /\ \E s \in Sessions : Started(Listener, s)
    \/ /\ ~MayListen(f)
       /\ UNCHANGED <<session, current>>

(***************************************************************************)
(* The listener                                                            *)
(***************************************************************************)

\* The main process answers with the settings it reads.
SettingsRead ==
    /\ boot = "mounted" /\ Len(mail) < MaxMail
    /\ boot' = "asked"
    /\ mail' = Append(mail, Reply(setting))
    /\ UNCHANGED <<setting, flags, timer, session, current, mic, deserted, presses>>

\* The mount effect goes on with the settings.
Settled ==
    /\ mail # <<>> /\ Head(mail).kind = "settings"
    /\ flags' = [flags EXCEPT !.enabled = Head(mail).on]
    /\ boot' = IF Head(mail).on THEN "priming" ELSE "off"
    /\ mail' = Tail(mail)
    /\ UNCHANGED <<setting, timer, session, current, mic, deserted, presses>>

\* getUserMedia answers: the listener starts.
Primed ==
    /\ boot = "priming"
    /\ boot' = "up"
    /\ flags' = [flags EXCEPT !.stopped = FALSE]
    /\ StartRecognition(flags')
    /\ UNCHANGED <<setting, timer, mic, mail, deserted, presses>>

\* getUserMedia fails: the listener waits for a change of the settings.
NotPrimed ==
    /\ boot = "priming"
    /\ boot' = "failed"
    /\ UNCHANGED <<setting, flags, timer, session, current, mic, mail, deserted, presses>>

\* A change of the settings reaches the listener window.
SettingsChanged ==
    /\ mail # <<>> /\ Head(mail).kind = "enabled"
    /\ IF Head(mail).on
       THEN /\ flags' = [flags EXCEPT !.enabled = TRUE, !.stopped = FALSE]
            /\ StartRecognition(flags')
            /\ UNCHANGED timer
       ELSE /\ flags' = [flags EXCEPT !.enabled = FALSE, !.stopped = TRUE]
            /\ timer' = FALSE
            /\ session' = Ending(current[Listener])
            /\ current' = [current EXCEPT ![Listener] = NoSession]
    /\ mail' = Tail(mail)
    /\ UNCHANGED <<setting, boot, mic, deserted, presses>>

\* A pause that is never taken back.
BusyChangedSlip ==
    /\ mail # <<>> /\ Head(mail).kind = "busy"
    /\ flags' = [flags EXCEPT !.paused = Head(mail).on]
    /\ timer' = FALSE
    /\ session' = Ending(current[Listener])
    /\ current' = [current EXCEPT ![Listener] = NoSession]
    /\ mail' = Tail(mail)
    /\ UNCHANGED <<setting, boot, mic, deserted, presses>>

\* A microphone starts or stops: the listener pauses or resumes.
BusyChanged ==
    /\ mail # <<>> /\ Head(mail).kind = "busy"
    /\ flags' = [flags EXCEPT !.paused = Head(mail).on]
    /\ IF Head(mail).on
       THEN /\ timer' = FALSE
            /\ session' = Ending(current[Listener])
            /\ current' = [current EXCEPT ![Listener] = NoSession]
       ELSE StartRecognition(flags') /\ UNCHANGED timer
    /\ mail' = Tail(mail)
    /\ UNCHANGED <<setting, boot, mic, deserted, presses>>

\* The restart that onend scheduled.
Restart ==
    /\ timer
    /\ timer' = FALSE
    /\ StartRecognition(flags)
    /\ UNCHANGED <<setting, boot, flags, mic, mail, deserted, presses>>

\* onerror with "not-allowed", and the end of the session that follows it.
Refused(s) ==
    /\ session[s].owner = Listener /\ session[s].at = "live"
    /\ flags' = [flags EXCEPT !.stopped = TRUE]
    /\ session' = [session EXCEPT ![s] = Over]
    /\ current' = [current EXCEPT ![Listener] = IF @ = s THEN NoSession ELSE @]
    /\ UNCHANGED <<setting, boot, timer, mic, mail, deserted, presses>>

(***************************************************************************)
(* The end of a session.  A reference to a session that is over is like    *)
(* none: its stop() does nothing.                                          *)
(***************************************************************************)
Forgotten(s) == [o \in Owners |-> IF current[o] = s THEN NoSession ELSE current[o]]

ListenerEnds(s) ==
    /\ session[s].owner = Listener /\ session[s].at # "over"
    /\ timer' = (timer \/ MayListen(flags))
    /\ session' = [session EXCEPT ![s] = Over]
    /\ current' = Forgotten(s)
    /\ UNCHANGED <<setting, boot, flags, mic, mail, deserted, presses>>

MicEnds(s) ==
    LET m == session[s].owner IN
    /\ m \in Mics /\ session[s].at # "over"
    /\ Len(mail) < MaxMail
    /\ mic' = [mic EXCEPT ![m].on = FALSE]
    /\ mail' = Append(mail, Busy(FALSE, m)) /\ deserted' = FALSE
    /\ session' = [session EXCEPT ![s] = Over]
    /\ current' = Forgotten(s)
    /\ UNCHANGED <<setting, boot, flags, timer, presses>>

(***************************************************************************)
(* The manual microphones and the switch of the settings                   *)
(***************************************************************************)

Pressed == presses < MaxPresses /\ Len(mail) < MaxMail /\ presses' = presses + 1

\* The button, while the hook does not listen: start() stops an earlier session of
\* this hook and asks the listener to pause.  A start() that waits is not looked at.
Press(m) ==
    /\ Pressed
    /\ ~mic[m].on
    /\ session' = Ending(current[m])
    /\ mic' = [mic EXCEPT ![m].starts = @ + 1]
    /\ mail' = Append(mail, Busy(TRUE, m))
    /\ UNCHANGED <<setting, boot, flags, timer, current, deserted>>

\* The requests of a hook to pause that have not arrived.
OnTheWay(m) == Cardinality({i \in DOMAIN mail : mail[i] = Busy(TRUE, m)})

\* 200 ms after the main process has passed the request on, which is taken to
\* be long enough for it to arrive, a session of the hook starts.
Open(m) ==
    /\ OnTheWay(m) < mic[m].starts
    /\ mic' = [mic EXCEPT ![m] = [on |-> TRUE, starts |-> @.starts - 1]]
    /\ \E s \in Sessions : Started(m, s)
    /\ UNCHANGED <<setting, boot, flags, timer, mail, deserted, presses>>

\* stop(), or the component is unmounted, which takes back a pause even if
\* the hook never asked for one; a start() that waits still goes on.
Stop(m) ==
    /\ Pressed
    /\ session' = Ending(current[m])
    /\ mic' = [mic EXCEPT ![m].on = FALSE]
    /\ mail' = Append(mail, Busy(FALSE, m)) /\ deserted' = FALSE
    /\ UNCHANGED <<setting, boot, flags, timer, current>>

\* The window of a hook in use is closed or reloaded: its sessions and what waits go
\* with it, and nobody takes the pause back.
Destroy(m) ==
    /\ mic[m] # AtRest \/ \E s \in Sessions : session[s].at # "over" /\ session[s].owner = m
    /\ mic' = [mic EXCEPT ![m] = AtRest]
    /\ session' = [s \in Sessions |-> IF session[s].owner = m THEN Over ELSE session[s]]
    /\ current' = [current EXCEPT ![m] = NoSession]
    /\ deserted' = TRUE
    /\ UNCHANGED <<setting, boot, flags, timer, mail, presses>>

\* wake:settings:set: the setting is stored and every window is told.
Toggle(b) ==
    /\ Pressed
    /\ setting' = b
    /\ mail' = Append(mail, Enable(b))
    /\ UNCHANGED <<boot, flags, timer, session, current, mic, deserted>>

Next ==
    \/ SettingsRead \/ Settled \/ Primed \/ NotPrimed
    \/ SettingsChanged \/ BusyChanged \/ Restart
    \/ \E s \in Sessions : Refused(s) \/ ListenerEnds(s) \/ MicEnds(s)
    \/ \E m \in Mics : Press(m) \/ Open(m) \/ Stop(m) \/ Destroy(m)
    \/ \E b \in BOOLEAN : Toggle(b)

(***************************************************************************)
(* Messages are delivered, timers fire, a stopped session ends, and so     *)
(* does a manual one: it is not continuous.  A session of the listener may *)
(* stay live for ever.                                                     *)
(***************************************************************************)
Fairness ==
    /\ WF_vars(SettingsRead) /\ WF_vars(Settled) /\ WF_vars(Primed \/ NotPrimed)
    /\ WF_vars(SettingsChanged) /\ WF_vars(BusyChanged) /\ WF_vars(Restart)
    /\ \A s \in Sessions :
          /\ WF_vars(session[s].at = "ending" /\ ListenerEnds(s))
          /\ WF_vars(MicEnds(s))
    /\ \A m \in Mics : WF_vars(Open(m))

Spec == Init /\ [][Next]_vars /\ Fairness

(***************************************************************************)
(* Properties                                                              *)
(***************************************************************************)

Live(o) == \E s \in Sessions : session[s] = [owner |-> o, at |-> "live"]

\* Turning wake detection off turns its microphone off, "not just a UI flag"
\* (wake.js, 45-49), although onend, the restart timer, the pause of a manual
\* microphone and the mount effect all start sessions of their own.
OffIsSilent == ~flags.enabled => ~Live(Listener)

\* That holds of a listener that was mounted while wake detection was on: one
\* mounted while it is off may be started by the end of a manual microphone
\* before its settings arrive, and nothing ends that session then.
SwitchedOffIsSilent == boot # "off" => OffIsSilent

\* The pause is "always temporary and auto-resumes on its own once the manual
\* mic stops" (WakeListener.jsx, 43-46): when the manual microphones are at
\* rest for good, wake detection comes back, unless it is off, was refused the
\* microphone or never got it, or the window of the last one to pause it is gone.
AtPeace ==
    /\ \A m \in Mics : mic[m] = AtRest /\ ~Live(m)
    /\ flags.enabled /\ ~flags.stopped /\ boot = "up"

ListeningResumes == <>[](AtPeace /\ ~(flags.paused /\ deserted)) => []<>Live(Listener)

\* The code breaks it without the excuse: no window but the hook's own takes a pause
\* back, and "closed" (wakeWindowManager.js, 140-142) says nothing to the listener.
AlwaysResumes == <>[]AtPeace => []<>Live(Listener)

\* "pause its continuous session for that duration" (wake.js, 111-118): the wake
\* listener is silent while a manual microphone listens.  The code breaks it: the
\* pause is one flag, and the end of an earlier session of the same hook, or a stop
\* of another one, takes it back.
GivesWay == (\E m \in Mics : mic[m].on) => ~Live(Listener)

===============================================================================
