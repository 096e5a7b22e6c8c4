--------------------------------- MODULE Images ---------------------------------
(***************************************************************************)
(* The pictures a user asks for: the cards in the chat of each window      *)
(* (components/Chat/ChatComposer.jsx, ChatMessageBubble.jsx, the image     *)
(* handlers of providers/ChatProvider.jsx, store/chatStore.js), the events *)
(* of socket/socketHandler.js, and the capability that makes one picture   *)
(* of a user at a time (capabilities/ImageGenerationCapability.js,         *)
(* GeminiProvider.generateImage).                                          *)
(*                                                                         *)
(* What the server sends names no request: a window gives it to the card   *)
(* that loads, the last one if there are several.  A connection that drops *)
(* loses what was sent to the window and keeps what the window sends.      *)
(***************************************************************************)
EXTENDS Naturals, Sequences, FiniteSets, SequencesExt

CONSTANTS
    Windows,      \* the windows of one user
    MaxRequests,  \* BOUND: the pictures that are asked for
    MaxPerWindow, \* RATE_LIMIT_MAX_PER_WINDOW
    MaxDrops      \* BOUND: how often a connection drops

ImagesAssumption == {MaxRequests, MaxPerWindow, MaxDrops} \subseteq Nat

Requests == 1..MaxRequests
Nobody == 0

VARIABLES
    asked,    \* the window of each request, in their order
    blank,    \* the requests of a retry that has no prompt
    cards,    \* the messages with an image of each window
    online,   \* the windows whose socket is connected
    drops,    \* how often a connection has dropped
    sent,     \* what is on its way to the server
    inbox,    \* what is on its way to each window
    inFlight, \* _inFlight: the request that is being made
    recent,   \* _requestTimestamps: how many of the last minute
    lost,     \* (ghost) the pictures that no card of the asking window took
    away      \* (ghost) the requests whose window was offline since

vars == <<asked, blank, cards, online, drops, sent, inbox, inFlight, recent, lost, away>>

Card == [status : {"loading", "done", "error"}, prompt : 0..MaxRequests]
Event == [kind : {"start", "result", "error"}, of : 0..MaxRequests]

TypeOK ==
    /\ asked \in Seq(Windows) /\ Len(asked) <= MaxRequests
    /\ blank \subseteq Requests
    /\ cards \in [Windows -> Seq(Card)]
    /\ online \subseteq Windows
    /\ drops \in 0..MaxDrops
    /\ sent \in [Windows -> Seq(Requests)]
    /\ inbox \in [Windows -> Seq(Event)]
    /\ inFlight \in 0..MaxRequests
    /\ recent \in 0..MaxPerWindow
    /\ lost \subseteq Requests /\ away \subseteq Requests

Init ==
    /\ asked = <<>>
    /\ blank = {}
    /\ cards = [w \in Windows |-> <<>>]
    /\ online = Windows
    /\ drops = 0
    /\ sent = [w \in Windows |-> <<>>]
    /\ inbox = [w \in Windows |-> <<>>]
    /\ inFlight = Nobody
    /\ recent = 0
    /\ lost = {} /\ away = {}

-----------------------------------------------------------------------------
(* The window                                                               *)

Ask(w) ==
    /\ Len(asked) < MaxRequests
    /\ asked' = Append(asked, w)
    /\ sent' = [sent EXCEPT ![w] = Append(@, Len(asked'))]
    /\ UNCHANGED <<online, drops, inbox, inFlight, recent, lost, away>>

\* generateImage of the composer.
GenerateImage(w) ==
    /\ w \in online
    /\ Ask(w)
    /\ cards' = [cards EXCEPT ![w] = Append(@, [status |-> "loading", prompt |-> Len(asked')])]
    /\ UNCHANGED blank

\* The Retry of a card; socket.io keeps it for a connection that is down.
Retry(w, i) ==
    /\ i \in DOMAIN cards[w]
    /\ cards[w][i].status = "error"
    /\ Ask(w)
    /\ cards' = [cards EXCEPT ![w][i].status = "loading"]
    /\ blank' = IF cards[w][i].prompt = Nobody THEN blank \union {Len(asked')} ELSE blank

\* findLoadingImageMessageId, or 0.
Loading(w) == SelectLastInSeq(cards[w], LAMBDA c : c.status = "loading")

\* onImageStart: a picture that another window asked for gets a card as well.
Started(w, e) ==
    cards' = IF Loading(w) # 0 THEN cards
             ELSE [cards EXCEPT ![w] = Append(@, [status |-> "loading", prompt |-> e.of])]

\* onImageResult.
Result(w, e) ==
    /\ cards' = IF Loading(w) = 0 THEN cards
                ELSE [cards EXCEPT ![w][Loading(w)] = [status |-> "done", prompt |-> e.of]]
    /\ lost' = IF Loading(w) = 0 /\ asked[e.of] = w THEN lost \union {e.of} ELSE lost

\* onImageError: a notice if no card loads.
Failed(w, e) ==
    cards' = IF Loading(w) = 0 THEN cards
             ELSE [cards EXCEPT ![w][Loading(w)] = [status |-> "error", prompt |-> e.of]]

Arrives(w) ==
    /\ w \in online
    /\ inbox[w] # <<>>
    /\ inbox' = [inbox EXCEPT ![w] = Tail(@)]
    /\ LET e == Head(inbox[w]) IN
       \/ e.kind = "start" /\ Started(w, e) /\ UNCHANGED lost
       \/ e.kind = "result" /\ Result(w, e)
       \/ e.kind = "error" /\ Failed(w, e) /\ UNCHANGED lost
    /\ UNCHANGED <<asked, blank, online, drops, sent, inFlight, recent, away>>

Drop(w) ==
    /\ w \in online
    /\ drops < MaxDrops
    /\ drops' = drops + 1
    /\ online' = online \ {w}
    /\ inbox' = [inbox EXCEPT ![w] = <<>>]
    /\ away' = away \union {r \in DOMAIN asked : asked[r] = w}
    /\ UNCHANGED <<asked, blank, cards, sent, inFlight, recent, lost>>

Reconnect(w) ==
    /\ w \in Windows \ online
    /\ online' = online \union {w}
    /\ UNCHANGED <<asked, blank, cards, drops, sent, inbox, inFlight, recent, lost, away>>

-----------------------------------------------------------------------------
(* The server                                                               *)

\* _routeToOwner: to every connected window.
Routed(e) == [w \in Windows |-> IF w \in online THEN Append(inbox[w], e) ELSE inbox[w]]

\* The answer of the handler goes to the socket that asked, if it is still
\* there; it tells no prompt.
Refusal(r, boxes) ==
    IF r \in away THEN boxes
    ELSE [boxes EXCEPT ![asked[r]] = Append(@, [kind |-> "error", of |-> Nobody])]

MayStart(r) == r \notin blank /\ inFlight = Nobody /\ recent < MaxPerWindow

\* IMAGE_GENERATE and generate, up to the provider.
Receive(w) ==
    /\ w \in online
    /\ sent[w] # <<>>
    /\ sent' = [sent EXCEPT ![w] = Tail(@)]
    /\ LET r == Head(sent[w]) IN
       IF MayStart(r)
       THEN /\ inFlight' = r
            /\ recent' = recent + 1
            /\ inbox' = Routed([kind |-> "start", of |-> r])
       ELSE /\ inbox' = Refusal(r, inbox)
            /\ UNCHANGED <<inFlight, recent>>
    /\ UNCHANGED <<asked, blank, cards, online, drops, lost, away>>

Generated ==
    /\ inFlight # Nobody
    /\ inbox' = Routed([kind |-> "result", of |-> inFlight])
    /\ inFlight' = Nobody
    /\ UNCHANGED <<asked, blank, cards, online, drops, sent, recent, lost, away>>

\* The event of the capability, and what the handler makes of its answer.
GenerationFails ==
    /\ inFlight # Nobody
    /\ inbox' = Refusal(inFlight, Routed([kind |-> "error", of |-> inFlight]))
    /\ inFlight' = Nobody
    /\ UNCHANGED <<asked, blank, cards, online, drops, sent, recent, lost, away>>

MinutePasses ==
    /\ recent > 0
    /\ recent' = recent - 1
    /\ UNCHANGED <<asked, blank, cards, online, drops, sent, inbox, inFlight, lost, away>>

Next ==
    \/ \E w \in Windows :
          \/ GenerateImage(w) \/ Arrives(w) \/ Drop(w) \/ Reconnect(w) \/ Receive(w)
          \/ \E i \in 1..MaxRequests : Retry(w, i)
    \/ Generated \/ GenerationFails \/ MinutePasses

Spec == Init /\ [][Next]_vars

-----------------------------------------------------------------------------
(* A picture that is made finds a card in the window that asked for it, if  *)
(* that window has stayed connected: errors, retries, refusals and pictures *)
(* of the other windows take no card from it that is not given back.        *)
NoPictureIsLost == lost \subseteq away

(* A card of a window that has stayed connected loads only while something  *)
(* is on its way.                                                           *)
LoadingIsAwaited ==
    \A w \in Windows :
        /\ Loading(w) # 0
        /\ \A r \in DOMAIN asked : asked[r] = w => r \notin away
        /\ w \in online /\ drops = 0
        => sent[w] # <<>> \/ inbox[w] # <<>> \/ inFlight # Nobody

(* "there's at most one candidate to update" (ChatProvider.jsx:150-153).    *)
OneCandidate ==
    \A w \in Windows : Cardinality({i \in DOMAIN cards[w] : cards[w][i].status = "loading"}) <= 1

(* An error of the server marks a card whose picture is not being made.     *)
ErrorsAreTrue ==
    [][\A w \in Windows : \A i \in DOMAIN cards[w] :
          cards'[w][i].status = "error" /\ cards[w][i].status = "loading"
             => cards[w][i].prompt # inFlight]_vars
=============================================================================
