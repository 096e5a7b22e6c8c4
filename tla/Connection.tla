------------------------------- MODULE Connection -------------------------------
(***************************************************************************)
(* The connection of one window: the socket of services/socketService.js,  *)
(* the token of store/authStore.js that it is opened with, the handlers    *)
(* that providers/ChatProvider.jsx adds and removes when the token         *)
(* changes, with the "connected" they keep in store/chatStore.js, and the  *)
(* calls that wait for an answer (emitWithAck, codingSocketService.js,     *)
(* CODING_CAPABILITY_ACTION of socket/socketHandler.js).                   *)
(*                                                                         *)
(* socket.io connects again by itself, keeps what is emitted while it is   *)
(* down, and sends nothing twice: what is under way when the connection    *)
(* drops is lost.                                                          *)
(***************************************************************************)
EXTENDS Naturals, FiniteSets

CONSTANTS
    MaxTokens, \* BOUND: the tokens that are given
    MaxDowns,  \* BOUND: how often the connection drops
    Calls      \* the calls of emitWithAck

ConnectionAssumption == MaxTokens \in Nat \ {0} /\ MaxDowns \in Nat

Tokens == 1..MaxTokens
None == 0

VARIABLES
    given,    \* the tokens given so far, the stored one included
    token,    \* token of the auth store
    auth,     \* what the store waits for
    wired,    \* the token for which the handlers of ChatProvider were added
    sock,     \* the socket, by its token
    up,       \* it is connected
    downs,
    says,     \* "connected" of the chat store
    orphaned, \* (ghost) a token has gone and left its socket
    told,     \* what each call was told
    place,    \* where each call is
    done      \* (ghost) how often each call was executed

auths == <<given, token, auth>>
sockets == <<sock, up, downs, says>>
acks == <<told, place, done>>
vars == <<auths, wired, sockets, orphaned, acks>>

TypeOK ==
    /\ given \in 0..MaxTokens
    /\ {token, wired, sock} \subseteq 0..given
    /\ auth \in {"out", "me", "in", "leaving"}
    /\ up \in BOOLEAN /\ downs \in 0..MaxDowns
    /\ {says, orphaned} \subseteq BOOLEAN
    /\ told \in [Calls -> {"nothing", "waits", "result", "refused", "timeout"}]
    /\ place \in [Calls -> {"nowhere", "buffer", "wire", "server", "left", "back"}]
    /\ done \in [Calls -> 0..2]

\* A token is stored, or none.
Init ==
    /\ given \in {0, 1}
    /\ token = None
    /\ auth = "out"
    /\ wired = None
    /\ sock = None
    /\ up = FALSE
    /\ downs = 0
    /\ says = FALSE
    /\ orphaned = FALSE
    /\ told = [c \in Calls |-> "nothing"]
    /\ place = [c \in Calls |-> "nowhere"]
    /\ done = [c \in Calls |-> 0]

\* What is under way is lost with the connection; the server goes on with what
\* it has begun.
Lost(p) ==
    CASE p \in {"wire", "back"} -> "nowhere"
      [] p = "server"           -> "left"
      [] OTHER                  -> p

\* A socket that is given up loses what it has kept as well.
Discarded(p) == IF p = "buffer" THEN "nowhere" ELSE Lost(p)

\* The handler of "disconnect", if there is one.
Disconnected == says' = (says /\ ~(up /\ wired # None))

-----------------------------------------------------------------------------
(* connect and disconnect of the socket service                             *)

Connect(t) ==
    IF sock = t THEN UNCHANGED <<sock, up, says, place>>
    ELSE /\ Disconnected
         /\ sock' = t
         /\ up' = FALSE
         /\ place' = [c \in Calls |-> Discarded(place[c])]

Disconnect ==
    /\ Disconnected
    /\ sock' = None
    /\ up' = FALSE
    /\ place' = [c \in Calls |-> Discarded(place[c])]

-----------------------------------------------------------------------------
(* The auth store                                                           *)

Restore ==
    /\ auth = "out" /\ token = None /\ given = 1 /\ sock = None /\ wired = None
    /\ token' = given
    /\ auth' = "me"
    /\ UNCHANGED <<given, wired, sockets, orphaned, acks>>

Restored ==
    /\ auth = "me"
    /\ auth' = "in"
    /\ Connect(token)
    /\ UNCHANGED <<given, token, wired, downs, orphaned, told, done>>

\* The token goes and the socket stays.
RestoreFails ==
    /\ auth = "me"
    /\ auth' = "out"
    /\ token' = None
    /\ orphaned' = (orphaned \/ sock # None)
    /\ UNCHANGED <<given, wired, sockets, acks>>

\* login and signup.
Enters ==
    /\ auth = "out" /\ given < MaxTokens
    /\ given' = given + 1
    /\ token' = given'
    /\ auth' = "in"
    /\ Connect(given')
    /\ UNCHANGED <<wired, downs, orphaned, told, done>>

\* Nobody presses the button before the effects of the login have run.
Logout ==
    /\ auth = "in" /\ wired = token
    /\ auth' = "leaving"
    /\ Disconnect
    /\ UNCHANGED <<given, token, wired, downs, orphaned, told, done>>

LoggedOut ==
    /\ auth = "leaving"
    /\ auth' = "out"
    /\ token' = None
    /\ UNCHANGED <<given, wired, sockets, orphaned, acks>>

-----------------------------------------------------------------------------
(* ChatProvider, and the events of the socket                               *)

\* connect, after the old handlers were removed.
Rewired ==
    IF token \in {None, sock} THEN UNCHANGED <<sock, up, place>>
    ELSE /\ sock' = token
         /\ up' = FALSE
         /\ place' = [c \in Calls |-> Discarded(place[c])]

\* A handler of "connect" that waits for the next one.
WireSlip ==
    /\ wired # token
    /\ wired' = token
    /\ Rewired
    /\ UNCHANGED <<auths, says, downs, orphaned, told, done>>

\* The effect: the handlers of the token before are removed, and those of the
\* new one are added; on calls that of "connect" at once on a live connection.
Wire ==
    /\ wired # token
    /\ wired' = token
    /\ Rewired
    /\ says' = (says \/ (token # None /\ up'))
    /\ UNCHANGED <<auths, downs, orphaned, told, done>>

\* What was kept is sent.
Up ==
    /\ sock # None /\ ~up
    /\ up' = TRUE
    /\ says' = (says \/ wired # None)
    /\ place' = [c \in Calls |-> IF place[c] = "buffer" THEN "wire" ELSE place[c]]
    /\ UNCHANGED <<auths, wired, sock, downs, orphaned, told, done>>

Down ==
    /\ up
    /\ downs < MaxDowns
    /\ downs' = downs + 1
    /\ Disconnected
    /\ up' = FALSE
    /\ place' = [c \in Calls |-> Lost(place[c])]
    /\ UNCHANGED <<auths, wired, sock, orphaned, told, done>>

-----------------------------------------------------------------------------
(* emitWithAck and the server                                               *)

Call(c) ==
    /\ told[c] = "nothing"
    /\ auth = "in"
    /\ told' = [told EXCEPT ![c] = IF sock = None THEN "refused" ELSE "waits"]
    /\ place' = [place EXCEPT ![c] = IF up THEN "wire" ELSE IF sock = None THEN @ ELSE "buffer"]
    /\ UNCHANGED <<auths, wired, sockets, orphaned, done>>

Execute(c) ==
    /\ place[c] = "wire"
    /\ place' = [place EXCEPT ![c] = "server"]
    /\ done' = [done EXCEPT ![c] = @ + 1]
    /\ UNCHANGED <<auths, wired, sockets, orphaned, told>>

Respond(c) ==
    /\ place[c] \in {"server", "left"}
    /\ place' = [place EXCEPT ![c] = IF @ = "server" THEN "back" ELSE "nowhere"]
    /\ UNCHANGED <<auths, wired, sockets, orphaned, told, done>>

\* An answer after the timeout changes nothing.
Answered(c) ==
    /\ place[c] = "back"
    /\ place' = [place EXCEPT ![c] = "nowhere"]
    /\ told' = [told EXCEPT ![c] = IF @ = "waits" THEN "result" ELSE @]
    /\ UNCHANGED <<auths, wired, sockets, orphaned, done>>

TimesOut(c) ==
    /\ told[c] = "waits"
    /\ told' = [told EXCEPT ![c] = "timeout"]
    /\ UNCHANGED <<auths, wired, sockets, orphaned, place, done>>

Next ==
    \/ Restore \/ Restored \/ RestoreFails \/ Enters \/ Logout \/ LoggedOut
    \/ Wire \/ Up \/ Down
    \/ \E c \in Calls : Call(c) \/ Execute(c) \/ Respond(c) \/ Answered(c) \/ TimesOut(c)

Spec == Init /\ [][Next]_vars

-----------------------------------------------------------------------------
(* Once its handlers are those of the token, a window says that it is       *)
(* connected exactly when it is, "the true current state" (on, 158-167),    *)
(* unless a token that could not be restored has left its socket behind.    *)
SaysWhatIs == wired = token /\ token # None /\ ~orphaned => says = up

(* A call that was told a result was executed, once; one that was refused   *)
(* was not, and no call is executed twice.                                  *)
ToldIsDone ==
    \A c \in Calls :
        /\ told[c] = "result" => done[c] = 1
        /\ told[c] \in {"nothing", "refused"} => done[c] = 0
        /\ done[c] <= 1

(* A call that was told "Request timed out." is not executed any more.  It  *)
(* does not hold: what the socket has kept is sent when it connects again.  *)
TimedOutIsOver == [][\A c \in Calls : told[c] = "timeout" => done'[c] = done[c]]_vars
=============================================================================
