-------------------------------- MODULE Chat --------------------------------
(***************************************************************************)
(* A user's chat: the composer and the message list of the client, the     *)
(* socket between them and the server, the controller that streams a       *)
(* reply, and the retry loop behind it.  (ChatComposer.jsx,                *)
(* ChatProvider.jsx, chatController.js, AIOrchestrator.streamReply,        *)
(* GeminiProvider.stream.)                                                 *)
(*                                                                         *)
(* The server handles every message in an invocation of its own, which     *)
(* gives way while the prompt is prepared, while the model streams and     *)
(* while a failed attempt waits to be repeated; an action is what happens  *)
(* between these awaits.  An attempt is given up after a time, but nothing *)
(* aborts its request: it may go on streaming behind the next attempt, or  *)
(* after the message was answered.                                         *)
(*                                                                         *)
(* What the client sends waits in up until the server handles it.  What a  *)
(* step of the server emits is handled by the client in the same step: a   *)
(* delay in one direction already lets both sides see every order of the   *)
(* packets that a delay in both would.  "start" stands for THINKING_START, *)
(* TYPING_START and STREAM_START, "end" for STREAM_END, TYPING_STOP and    *)
(* THINKING_END, "answer" for these and the MESSAGE_REPLY after them.  A   *)
(* message is answered on the connection it came by, if that still exists. *)
(*                                                                         *)
(* A reply is also spoken.  What becomes of it once it is queued, also     *)
(* when the user's speech is cancelled, is VoiceService; replies counts    *)
(* what the chat queues there.                                             *)
(*                                                                         *)
(* A definition headed "Slip" is not part of the specification: it is the  *)
(* definition below it with a plausible mistake.                           *)
(***************************************************************************)
EXTENDS Integers, Sequences

CONSTANTS
    Messages,     \* the messages the user may send
    None,         \* undefined
    maxAttempts,  \* attempts to stream a reply
    MaxChunks,    \* bound: chunks an attempt streams
    MaxStops,     \* bound: how often the user presses Stop
    MaxDrops      \* bound: how often the connection breaks

ASSUME ChatAssumption == /\ None \notin Messages
                         /\ maxAttempts \in Nat \ {0}
                         /\ MaxChunks \in Nat
                         /\ MaxStops \in Nat
                         /\ MaxDrops \in Nat

VARIABLES
    busy,       \* client: the message whose start set thinking and typing, which
                \* change together (None: they are false)
    text,       \* client: the message whose text streamingText shows
    stops,      \* how often Stop was pressed
    conn,       \* the number of the connection in use
    up,         \* packets on their way to the server
    at,         \* where the handling of each message is
    sock,       \* the connection it came by
    attempt,    \* attempt, the number of the one under way
    open,       \* the requests that are streaming
    chunks,     \* the chunks each of them has streamed
    active,     \* activeStreams.get(userId)
    cancelled,  \* messages whose streamState says cancelled
    timedOut,   \* history: messages of which an attempt has timed out
    crowded,    \* history: messages in flight together with another
    answered,   \* history: messages whose reply was sent
    replies     \* history: replies logged and queued as speech for each message

client  == <<busy, text, stops>>
server  == <<at, sock, attempt, open, chunks, active, cancelled>>
history == <<timedOut, crowded, replies>>
screen  == <<busy, text>>
vars    == <<busy, text, stops, conn, up, at, sock, attempt, open,
             chunks, active, cancelled, timedOut, crowded, replies, answered>>

Attempts == 1 .. maxAttempts

InFlight == {m \in Messages : at[m] \in {"prepare", "stream", "backoff"}}

Init ==
    /\ busy = None /\ text = None
    /\ stops = 0 /\ conn = 0
    /\ up = <<>>
    /\ at = [m \in Messages |-> "unsent"]
    /\ sock = [m \in Messages |-> 0]
    /\ attempt = [m \in Messages |-> 0]
    /\ open = {}
    /\ chunks = [m \in Messages |-> [k \in Attempts |-> 0]]
    /\ active = None
    /\ cancelled = {}
    /\ timedOut = {} /\ crowded = {}
    /\ replies = [m \in Messages |-> 0]
    /\ answered = {}

-----------------------------------------------------------------------------
(* The client *)

(* Only when nothing is shown to be under way. *)
send(m) ==
    /\ busy = None
    /\ at[m] = "unsent"
    /\ at' = [at EXCEPT ![m] = "sent"]
    /\ sock' = [sock EXCEPT ![m] = conn]
    /\ up' = Append(up, <<"send", m>>)
    /\ UNCHANGED <<client, conn, attempt, open, chunks, active, cancelled, history, answered>>

(***************************************************************************)
(* The Stop button, which is there only while something is under way.  The *)
(* packet names no message; here it carries the one the user sees, for the *)
(* properties only.                                                        *)
(***************************************************************************)
stopGeneration ==
    /\ busy # None
    /\ stops < MaxStops
    /\ stops' = stops + 1
    /\ busy' = None
    /\ up' = Append(up, <<"cancel", busy>>)
    /\ UNCHANGED <<text, conn, server, history, answered>>

(* A packet of message m arrives. *)
Handle(m, e) ==
    \/ e = "start" /\ busy' = m /\ text' = None
    \/ e = "chunk" /\ text' = m /\ UNCHANGED busy
    \/ e \in {"end", "answer"} /\ busy' = None /\ text' = None

(* The connection breaks and is made again; some of what was sent arrives. *)
Reconnect ==
    /\ conn < MaxDrops
    /\ conn' = conn + 1
    /\ \E n \in 0 .. Len(up) :
          /\ up' = SubSeq(up, 1, n)
          /\ at' = [m \in Messages |->
                      IF \E i \in n + 1 .. Len(up) : up[i] = <<"send", m>> THEN "lost" ELSE at[m]]
    /\ UNCHANGED <<client, sock, attempt, open, chunks, active, cancelled, history, answered>>

-----------------------------------------------------------------------------
(* The server: what the handling of message m sends *)

Emit(m, e) == IF sock[m] = conn THEN Handle(m, e) ELSE UNCHANGED screen

(* What onStart and onChunk emit: nothing once the stream is cancelled. *)
Tell(m, e) == IF m \in cancelled THEN UNCHANGED screen ELSE Emit(m, e)

(* streamReply() returns, and the controller answers. *)
\* Slip: the stream stays registered.
AnswerRegistered(m) ==
    /\ at' = [at EXCEPT ![m] = "done"]
    /\ \/ m \in cancelled /\ Emit(m, "end") /\ UNCHANGED answered
       \/ m \notin cancelled /\ Emit(m, "answer") /\ answered' = answered \cup {m}
    /\ UNCHANGED <<attempt, active>>

\* Slip: a cancelled stream is not ended for the client either.
AnswerUncancelled(m) ==
    /\ at' = [at EXCEPT ![m] = "done"]
    /\ active' = None
    /\ \/ m \in cancelled /\ UNCHANGED <<screen, answered>>
       \/ m \notin cancelled /\ Emit(m, "answer") /\ answered' = answered \cup {m}
    /\ UNCHANGED attempt

Answer(m) ==
    /\ at' = [at EXCEPT ![m] = "done"]
    /\ active' = None
    /\ \/ m \in cancelled /\ Emit(m, "end") /\ UNCHANGED answered
       \/ m \notin cancelled /\ Emit(m, "answer") /\ answered' = answered \cup {m}
    /\ UNCHANGED attempt

(* Attempt k at streaming a reply to m. *)
Start(m, k) ==
    /\ at' = [at EXCEPT ![m] = "stream"]
    /\ attempt' = [attempt EXCEPT ![m] = k]
    /\ open' = open \cup {<<m, k>>}
    /\ Tell(m, "start")
    /\ UNCHANGED <<active, answered>>

streamed(m) == \E k \in Attempts : chunks[m][k] > 0

(* The attempt under way has failed: it is repeated unless it said something. *)
\* Slip: a stream that waits to be repeated is not registered.
AttemptFailsForgets(m) ==
    LET final == streamed(m) \/ attempt[m] = maxAttempts IN
    \/ /\ ~final
       /\ at' = [at EXCEPT ![m] = "backoff"]
       /\ active' = None
       /\ UNCHANGED <<attempt, screen, answered>>
    \/ final /\ Answer(m)

\* Slip: it is repeated also then.
AttemptFailsAnyway(m) ==
    \/ /\ attempt[m] < maxAttempts
       /\ at' = [at EXCEPT ![m] = "backoff"]
       /\ UNCHANGED <<attempt, active, screen, answered>>
    \/ attempt[m] = maxAttempts /\ Answer(m)

\* Slip: the last attempt is repeated once more.
AttemptFailsWithoutEnd(m) ==
    \/ /\ ~streamed(m)
       /\ at' = [at EXCEPT ![m] = "backoff"]
       /\ UNCHANGED <<attempt, active, screen, answered>>
    \/ streamed(m) /\ Answer(m)

AttemptFails(m) ==
    LET final == streamed(m) \/ attempt[m] = maxAttempts IN
    \/ /\ ~final
       /\ at' = [at EXCEPT ![m] = "backoff"]
       /\ UNCHANGED <<attempt, active, screen, answered>>
    \/ final /\ Answer(m)

-----------------------------------------------------------------------------
(* The server: handlers and what continues them *)

(* handleChatMessage() up to its first await; m replaces what is registered. *)
receive(m) ==
    /\ up # <<>> /\ Head(up) = <<"send", m>>
    /\ up' = Tail(up)
    /\ at' = [at EXCEPT ![m] = "prepare"]
    /\ active' = m
    /\ crowded' = IF InFlight = {} THEN crowded ELSE crowded \cup InFlight \cup {m}
    /\ UNCHANGED <<client, conn, sock, attempt, open, chunks, cancelled,
                   timedOut, replies, answered>>

(* Whatever stream is registered is cancelled, and the user's speech with it. *)
cancelStream ==
    /\ up # <<>> /\ Head(up)[1] = "cancel"
    /\ up' = Tail(up)
    /\ cancelled' = cancelled \cup ({active} \ {None})
    /\ UNCHANGED <<client, conn, at, sock, attempt, open, chunks, active, history, answered>>

(* Intent, memories, tools and prompt are ready. *)
Prepared(m) ==
    /\ at[m] = "prepare"
    /\ Start(m, 1)
    /\ UNCHANGED <<stops, conn, up, sock, chunks, cancelled, history>>

(* Or one of them failed, or the user has no provider: a fallback is the answer. *)
PrepareFails(m) ==
    /\ at[m] = "prepare"
    /\ Answer(m)
    /\ UNCHANGED <<stops, conn, up, sock, open, chunks, cancelled, history>>

(* A request says something, also when it was given up long ago. *)
Chunk(m, k) ==
    /\ <<m, k>> \in open
    /\ chunks[m][k] < MaxChunks
    /\ chunks' = [chunks EXCEPT ![m][k] = @ + 1]
    /\ Tell(m, "chunk")
    /\ UNCHANGED <<stops, conn, up, at, sock, attempt, open, active, cancelled,
                   history, answered>>

Current(m, k) == at[m] = "stream" /\ attempt[m] = k

(* It has said all: the reply is logged and spoken, and answers m if it is awaited. *)
Complete(m, k) ==
    /\ <<m, k>> \in open
    /\ open' = open \ {<<m, k>>}
    /\ replies' = [replies EXCEPT ![m] = @ + 1]
    /\ \/ Current(m, k) /\ Answer(m)
       \/ ~Current(m, k) /\ Emit(m, "end") /\ UNCHANGED <<at, attempt, active, answered>>
    /\ UNCHANGED <<stops, conn, up, sock, chunks, cancelled, timedOut, crowded>>

(* It breaks off. *)
Fail(m, k) ==
    /\ <<m, k>> \in open
    /\ open' = open \ {<<m, k>>}
    /\ \/ Current(m, k) /\ AttemptFails(m)
       \/ ~Current(m, k) /\ UNCHANGED <<at, attempt, active, screen, answered>>
    /\ UNCHANGED <<stops, conn, up, sock, chunks, cancelled, history>>

(* 30 s after the start of an attempt that is still awaited. *)
\* Slip: only the first attempt has a time limit.
TimesOutOnce(m) ==
    /\ at[m] = "stream"
    /\ attempt[m] = 1
    /\ AttemptFails(m)
    /\ timedOut' = timedOut \cup {m}
    /\ UNCHANGED <<stops, conn, up, sock, open, chunks, cancelled, crowded, replies>>

TimesOut(m) ==
    /\ at[m] = "stream"
    /\ AttemptFails(m)
    /\ timedOut' = timedOut \cup {m}
    /\ UNCHANGED <<stops, conn, up, sock, open, chunks, cancelled, crowded, replies>>

BackoffEnds(m) ==
    /\ at[m] = "backoff"
    /\ Start(m, attempt[m] + 1)
    /\ UNCHANGED <<stops, conn, up, sock, chunks, cancelled, history>>

-----------------------------------------------------------------------------
Next ==
    \/ stopGeneration \/ Reconnect \/ cancelStream
    \/ \E m \in Messages :
          \/ send(m) \/ receive(m)
          \/ Prepared(m) \/ PrepareFails(m) \/ TimesOut(m) \/ BackoffEnds(m)
          \/ \E k \in Attempts : Chunk(m, k) \/ Complete(m, k) \/ Fail(m, k)

Spec == Init /\ [][Next]_vars

(* Timers fire.  Nothing is assumed of the model, the network or the user. *)
FairSpec == Spec /\ \A m \in Messages : WF_vars(TimesOut(m) \/ BackoffEnds(m))

-----------------------------------------------------------------------------
(* Correctness *)

Places == {"unsent", "sent", "lost", "prepare", "stream", "backoff", "done"}

(* Every variable holds values of its kind. *)
TypeOK ==
    /\ busy \in Messages \cup {None}
    /\ text \in Messages \cup {None}
    /\ stops \in Nat /\ conn \in Nat
    /\ up \in Seq({"send", "cancel"} \X Messages)
    /\ at \in [Messages -> Places]
    /\ sock \in [Messages -> Nat]
    /\ attempt \in [Messages -> 0 .. maxAttempts]
    /\ open \in SUBSET (Messages \X Attempts)
    /\ chunks \in [Messages -> [Attempts -> Nat]]
    /\ active \in Messages \cup {None}
    /\ cancelled \in SUBSET Messages
    /\ timedOut \in SUBSET Messages
    /\ crowded \in SUBSET Messages
    /\ replies \in [Messages -> Nat]
    /\ answered \in SUBSET Messages

(***************************************************************************)
(* What is registered is in flight, so that a cancel never marks a stream  *)
(* that is over; and a stream that has had the user to itself from its     *)
(* beginning is registered, so that a cancel finds it: the entry survives  *)
(* attempts, timeouts and the ends of earlier streams.                     *)
(***************************************************************************)
Registered ==
    /\ active # None => active \in InFlight
    /\ \A m \in InFlight \ crowded : active = m

(***************************************************************************)
(* Unless an attempt times out, a message is answered from one request:    *)
(* requests do not overlap, none outlives the answer, what the user has    *)
(* read comes from one attempt, and the reply is logged and spoken once.   *)
(***************************************************************************)
AnsweredOnce ==
    \A m \in Messages \ timedOut :
        /\ \A k \in Attempts : <<m, k>> \in open => Current(m, k)
        /\ \A j, k \in Attempts : chunks[m][j] > 0 /\ chunks[m][k] > 0 => j = k
        /\ replies[m] <= 1

(***************************************************************************)
(* What the client shows to be under way is under way, whatever was        *)
(* stopped, overlapped or given up: it waits for a stream of its           *)
(* connection that is still to end, and the half of a reply on its screen  *)
(* is of such a stream, or of one of which an attempt that timed out spoke *)
(* up later.  Only of a stream that came by a connection that broke the    *)
(* end is lost, and the client waits until Stop is pressed.                *)
(***************************************************************************)
ClientSettles ==
    LET ends(m) == at[m] \in {"stream", "backoff"} \/ sock[m] # conn IN
    /\ busy # None => ends(busy)
    /\ text # None => ends(text) \/ text \in timedOut

(***************************************************************************)
(* What a Stop achieves.  The server finds the stream that the user saw    *)
(* when pressing it, if it is still in flight then and has had the user to *)
(* itself, whichever attempt it has come to, and cancels it.  And once a   *)
(* stream is cancelled, nothing of it but its end is shown any more,       *)
(* neither of the attempt under way nor of one given up or yet to be       *)
(* started, nor is it answered.                                            *)
(***************************************************************************)
StopIsHeeded ==
    [][/\ \A m \in InFlight \ crowded :
              cancelStream /\ Head(up) = <<"cancel", m>> => cancelled' = cancelled \cup {m}
       /\ \A m \in cancelled : /\ text' = m => text = m
                               /\ busy' = m => busy = m
                               /\ m \in answered' => m \in answered]_vars

(***************************************************************************)
(* "A cancelled stream's reply (and any voice for it) is deliberately not  *)
(* delivered to the client at all" (chatController.js, 74-75).  The code   *)
(* breaks it: the reply that is complete after the cancel is logged and    *)
(* queued as speech all the same, which is sent to the user.               *)
(***************************************************************************)
CancelledIsNotSpoken == [][\A m \in cancelled : replies'[m] = replies[m]]_vars

(***************************************************************************)
(* Once the model is asked, a message is answered, also when the model     *)
(* never says anything.                                                    *)
(***************************************************************************)
EveryStreamEnds == \A m \in Messages : []<>(at[m] \notin {"stream", "backoff"})

(***************************************************************************)
(* What the comment in stopGeneration() of the client says: "the server    *)
(* also stops emitting further chunks/voice for this stream once it        *)
(* processes the cancel."  If the stream that the user saw when pressing   *)
(* Stop is still in flight then, it is cancelled.                          *)
(***************************************************************************)
StopStopsStream ==
    [][(cancelStream /\ Head(up)[2] \in InFlight) => Head(up)[2] \in cancelled']_vars
=============================================================================
