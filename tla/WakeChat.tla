-------------------------------- MODULE WakeChat --------------------------------
(***************************************************************************)
(* What the user asks in the popup of a wake phrase                        *)
(* (yuna/src/wake/WakePopup.jsx), and in the main window meanwhile: both   *)
(* speak to the server as the same user, whose one registered stream       *)
(* (controllers/chatController.js) is the last that began.  The page of    *)
(* the popup is used again for the next phrase, whatever is under way.     *)
(*                                                                         *)
(* A packet is handled in the step that emits it: a turn that is "asked"   *)
(* may wait, which lets both sides see every order (as in Chat).           *)
(* The attempts behind a turn are those of Chat; here it streams once.     *)
(***************************************************************************)
EXTENDS Naturals, FiniteSets

CONSTANTS
    MaxTurns,  \* BOUND: the messages sent from both windows, numbered from 1
    MaxBreaks  \* BOUND: how often the popup's connection breaks

WakeChatAssumption == {MaxTurns, MaxBreaks} \subseteq Nat

Turns == 1..MaxTurns
None == 0
Senders == {"popup", "main"}

VARIABLES
    status, reply, streaming, image,  \* the page; the turns whose text the reply shows
    voice,      \* what the microphone's callback knows of the status
    by,         \* the window each turn was sent from
    place,      \* where the server is with it
    sock,       \* the connection it came by
    drawing,    \* the turns that have a picture drawn
    active,     \* activeStreams.get(userId)
    cancelled,
    online, conn,
    lost        \* history: a packet to the popup was lost

page == <<status, reply, streaming, image>>
server == <<place, drawing, active, cancelled>>
net == <<online, conn, lost>>
vars == <<page, voice, by, sock, server, net>>

TypeOK ==
    /\ status \in {"idle", "sending", "error"}
    /\ reply \subseteq Turns
    /\ streaming \in BOOLEAN
    /\ image \in {"none", "loading", "done", "error"}
    /\ voice \in {"off", "free", "sending"}
    /\ by \in [Turns -> Senders \union {"nobody"}]
    /\ place \in [Turns -> {"unsent", "asked", "thinking", "streaming", "done"}]
    /\ sock \in [Turns -> 0..MaxBreaks]
    /\ drawing \subseteq Turns /\ cancelled \subseteq Turns
    /\ active \in Turns \union {None}
    /\ online \in BOOLEAN /\ conn \in 0..MaxBreaks /\ lost \in BOOLEAN

Init ==
    /\ status = "idle" /\ reply = {} /\ streaming = FALSE /\ image = "none"
    /\ voice = "off"
    /\ by = [t \in Turns |-> "nobody"]
    /\ place = [t \in Turns |-> "unsent"]
    /\ sock = [t \in Turns |-> 0]
    /\ drawing = {} /\ active = None /\ cancelled = {}
    /\ online = TRUE /\ conn = 0 /\ lost = FALSE

Of(w) == {t \in Turns : by[t] = w}
Running(t) == place[t] \in {"asked", "thinking", "streaming"}

(***************************************************************************)
(* The page                                                                *)
(***************************************************************************)

\* onInit: the page is cleared of the previous turn; what it awaits is not.
Phrase ==
    /\ reply' = {} /\ image' = "none" /\ status' = "idle"
    /\ UNCHANGED <<streaming, voice, by, sock, server, net>>

\* The next turn, sent from a window.
Asks(t, w) ==
    /\ by[t] = "nobody" /\ \A u \in Turns : u < t => by[u] # "nobody"
    /\ by' = [by EXCEPT ![t] = w]
    /\ place' = [place EXCEPT ![t] = "asked"]
    /\ sock' = [sock EXCEPT ![t] = conn]
    /\ UNCHANGED <<drawing, active, cancelled, net>>

\* send, given the status that its closure holds; also what retry does.
SendIn(known, t) ==
    /\ known # "sending" /\ online
    /\ Asks(t, "popup")
    /\ status' = "sending" /\ reply' = {} /\ image' = "none"
    /\ UNCHANGED streaming

Send(t) == SendIn(status, t) /\ UNCHANGED voice

\* toggleMic: what is heard is sent by the callback made at the click.
ToggleMic ==
    /\ voice' = CASE voice # "off" -> "off"
                [] voice = "off" /\ status = "sending" -> "sending"
                [] OTHER -> "free"
    /\ UNCHANGED <<page, by, sock, server, net>>

Heard(t) == voice # "off" /\ SendIn(voice, t) /\ voice' = "off"

\* A packet of turn t arrives.
Handle(t, e) ==
    \/ e = "start" /\ streaming' = TRUE /\ reply' = {} /\ UNCHANGED <<status, image>>
    \/ e = "chunk" /\ reply' = reply \union {t} /\ UNCHANGED <<status, streaming, image>>
    \/ e = "end" /\ streaming' = FALSE /\ UNCHANGED <<status, reply, image>>
    \/ e = "answer" /\ streaming' = FALSE /\ status' = "idle" /\ reply' = {t} /\ UNCHANGED image
    \/ e = "error" /\ status' = "error" /\ UNCHANGED <<reply, streaming, image>>
    \/ /\ e \in {"loading", "done", "failed"}
       /\ image' = (IF e = "failed" THEN "error" ELSE e)
       /\ UNCHANGED <<status, reply, streaming>>

(***************************************************************************)
(* The server                                                              *)
(***************************************************************************)

\* To the connection that a turn came by.
Emit(t, e) ==
    IF by[t] = "popup" /\ online /\ sock[t] = conn
    THEN Handle(t, e) /\ UNCHANGED lost
    ELSE UNCHANGED page /\ lost' = (lost \/ by[t] = "popup")

\* To every connection of the user.
Route(t, e) ==
    IF online THEN Handle(t, e) /\ UNCHANGED lost ELSE UNCHANGED page /\ lost' = TRUE

MainSends(t) == Asks(t, "main") /\ UNCHANGED <<page, voice>>

\* The account may not chat (socketHandler.js).
Refuse(t) ==
    /\ place[t] = "asked"
    /\ place' = [place EXCEPT ![t] = "done"]
    /\ Emit(t, "error")
    /\ UNCHANGED <<voice, by, sock, drawing, active, cancelled, online, conn>>

\* handleChatMessage: the stream takes the place of the one registered.
Begin(t) ==
    /\ place[t] = "asked"
    /\ place' = [place EXCEPT ![t] = "thinking"]
    /\ active' = t
    /\ UNCHANGED <<page, voice, by, sock, drawing, cancelled, net>>

Tell(t, e) == IF t \in cancelled THEN UNCHANGED <<page, lost>> ELSE Emit(t, e)

Start(t) ==
    /\ place[t] = "thinking"
    /\ place' = [place EXCEPT ![t] = "streaming"]
    /\ Tell(t, "start")
    /\ UNCHANGED <<voice, by, sock, drawing, active, cancelled, online, conn>>

Chunk(t) ==
    /\ place[t] = "streaming"
    /\ Tell(t, "chunk")
    /\ UNCHANGED <<voice, by, sock, server, online, conn>>

\* The reply, or the fallback of a turn that failed; whatever stream is registered
\* is forgotten, and a turn that was cancelled is ended without a reply.
Answer(t) ==
    /\ place[t] \in {"thinking", "streaming"} /\ t \notin drawing
    /\ place' = [place EXCEPT ![t] = "done"]
    /\ active' = None
    /\ Emit(t, IF t \in cancelled THEN "end" ELSE "answer")
    /\ UNCHANGED <<voice, by, sock, drawing, cancelled, online, conn>>

\* A turn has a picture drawn; its news go to both windows.
Draw(t) ==
    /\ place[t] = "thinking" /\ t \notin drawing
    /\ drawing' = drawing \union {t}
    /\ Route(t, "loading")
    /\ UNCHANGED <<voice, by, sock, place, active, cancelled, online, conn>>

Drawn(t) ==
    /\ t \in drawing
    /\ drawing' = drawing \ {t}
    /\ \E e \in {"done", "failed"} : Route(t, e)
    /\ UNCHANGED <<voice, by, sock, place, active, cancelled, online, conn>>

\* Stop in the main window cancels the stream that is registered.
CancelStream ==
    /\ Of("main") # {}
    /\ cancelled' = cancelled \union ({active} \ {None})
    /\ UNCHANGED <<page, voice, by, sock, place, drawing, active, net>>

\* A reminder is a MESSAGE_REPLY to every connection, with no text.
Reminder ==
    /\ status' = IF online THEN "idle" ELSE status
    /\ UNCHANGED <<reply, streaming, image, voice, by, sock, server, net>>

Break ==
    /\ online /\ conn < MaxBreaks
    /\ online' = FALSE
    /\ UNCHANGED <<page, voice, by, sock, server, conn, lost>>

Reconnect ==
    /\ ~online
    /\ online' = TRUE /\ conn' = conn + 1
    /\ UNCHANGED <<page, voice, by, sock, server, lost>>

Next ==
    \/ Phrase \/ ToggleMic \/ CancelStream \/ Reminder \/ Break \/ Reconnect
    \/ \E t \in Turns :
        \/ Send(t) \/ Heard(t) \/ MainSends(t)
        \/ Refuse(t) \/ Begin(t) \/ Start(t) \/ Chunk(t) \/ Answer(t)
        \/ Draw(t) \/ Drawn(t)

Spec == Init /\ [][Next]_vars

(***************************************************************************)
(* Properties                                                              *)
(***************************************************************************)

\* A popup that says "sending", for which its input is closed, awaits the turn it
\* has sent last, or that turn was cancelled or its answer lost: no reply, refusal,
\* phrase, reminder or turn of the other window leaves it so.
SendingIsAwaited ==
    status = "sending" =>
        \/ lost
        \/ \E t \in Of("popup") :
            /\ \A u \in Of("popup") : u <= t
            /\ Running(t) \/ t \in cancelled

\* The popup shows that text is coming, or a picture, only while it is.
ComingIsAwaited ==
    /\ streaming => lost \/ \E t \in Of("popup") : place[t] = "streaming"
    /\ image = "loading" => lost \/ drawing # {}

\* Turns of the popup that overlap, as after a phrase or what the microphone heard,
\* may mix their texts while they stream; in the end one answer is shown.
OneAnswerInTheEnd ==
    /\ ~lost
    /\ \A t \in Of("popup") : place[t] = "done" /\ t \notin cancelled
    => Cardinality(reply) <= 1

SaysWhatIs == SendingIsAwaited /\ ComingIsAwaited /\ OneAnswerInTheEnd

\* "without this the previous turn's reply/image/error would still be showing the
\* next time" (WakePopup.jsx:59-62): the code breaks it, for the reply of a turn
\* that is under way comes after the page was cleared.
OnlyTheLastIsShown == \A t \in reply : \A u \in Of("popup") : u <= t

\* One turn of the popup at a time, for which send tests its status: the code breaks
\* it, by a phrase, a reminder, and the status that the microphone's callback holds.
OneTurnAtATime == Cardinality({t \in Of("popup") : Running(t)}) <= 1

=================================================================================
