------------------------------- MODULE Sessions -------------------------------
(***************************************************************************)
(* Signing up, signing in and out: the server's authService.js over the    *)
(* file of users, and the authStore.js of two windows of one desktop, the  *)
(* main window and the popup of the wake phrase.  They share localStorage. *)
(* A token is the id of its account: tokens are stateless.  Calls for a    *)
(* code and a new password are Accounts'.                                  *)
(***************************************************************************)
EXTENDS Naturals, FiniteSets

CONSTANTS
    Emails,
    Tries,     \* bound: sign-ups and sign-ins that are submitted
    MaxIds,    \* bound: accounts that are created
    MaxLeaves  \* bound: clicks on "Log out", and starts of a window

SessionsAssumption ==
    /\ IsFiniteSet(Emails) /\ IsFiniteSet(Tries)
    /\ MaxIds \in Nat \ {0} /\ MaxLeaves \in Nat

Ids     == 1..MaxIds
NoId    == 0         \* no token, no user, no socket
Windows == {"main", "popup"}
Nobody  == "nobody"  \* the email of an id that has no account
Unused  == [op |-> "none"]

VARIABLES
    owner,    \* the account with an id: its email
    made,     \* how many accounts were created
    try,      \* each submitted call, here and at the server
    local,    \* the token in localStorage
    ofWindow, \* the token in the sessionStorage of the main window
    win,      \* the auth store of each window, and its socket
    restoring,\* the windows whose /auth/me is not answered
    leaving,  \* the calls of logout() that are not answered
    chat,     \* the accounts whose messages the chat store of the main window holds
    leaves    \* how often a logout or a window was begun

vars == <<owner, made, try, local, ofWindow, win, restoring, leaving, chat, leaves>>

Closed == [open |-> FALSE, ready |-> FALSE, token |-> NoId, user |-> NoId, socket |-> NoId]
Fresh  == [Closed EXCEPT !.open = TRUE]

Try == [op : {"signup", "login"}, email : Emails, remember : BOOLEAN,
        at : {"find", "hash", "done"}, id : Ids \cup {NoId}, awaited : BOOLEAN]

TypeOK ==
    /\ owner \in [Ids -> Emails \cup {Nobody}]
    /\ made \in 0..MaxIds
    /\ try \in [Tries -> Try \cup {Unused}]
    /\ local \in Ids \cup {NoId} /\ ofWindow \in Ids \cup {NoId}
    /\ win \in [Windows -> [open : BOOLEAN, ready : BOOLEAN, token : Ids \cup {NoId},
                            user : Ids \cup {NoId}, socket : Ids \cup {NoId}]]
    /\ restoring \subseteq Windows
    /\ leaving \in 0..MaxLeaves
    /\ chat \subseteq Ids
    /\ leaves \in 0..MaxLeaves

Init ==
    /\ owner = [i \in Ids |-> Nobody]
    /\ made = 0
    /\ try = [k \in Tries |-> Unused]
    /\ local = NoId /\ ofWindow = NoId
    /\ win = [w \in Windows |-> IF w = "main" THEN [Fresh EXCEPT !.ready = TRUE] ELSE Closed]
    /\ restoring = {}
    /\ leaving = 0
    /\ chat = {}
    /\ leaves = 0

Exists(i) == i # NoId /\ owner[i] # Nobody
HasAccount(email) == \E i \in Ids : owner[i] = email
IdOf(email) == CHOOSE i \in Ids : owner[i] = email

(***************************************************************************)
(* The windows.                                                            *)
(***************************************************************************)
\* tokenStorage.read: the popup never signs in, its sessionStorage is empty.
Stored(w) == IF local = NoId /\ w = "main" THEN ofWindow ELSE local

\* A window loads its page, again or for the first time: whatever it awaited is
\* lost to it.  restoreSession is ready at once when no token is stored.
Load(w) ==
    /\ leaves < MaxLeaves
    /\ leaves' = leaves + 1
    /\ win' = [win EXCEPT ![w] = [Fresh EXCEPT !.ready = (Stored(w) = NoId),
                                               !.token = Stored(w)]]
    /\ restoring' = IF Stored(w) = NoId THEN restoring \ {w} ELSE restoring \cup {w}
    /\ IF w = "main"
       THEN /\ try' = [k \in Tries |-> IF try[k] = Unused THEN Unused
                                       ELSE [try[k] EXCEPT !.awaited = FALSE]]
            /\ leaving' = 0
            /\ chat' = {}
       ELSE UNCHANGED <<try, leaving, chat>>
    /\ UNCHANGED <<owner, made, local, ofWindow>>

\* The application ends, and with it what is kept for a window only.
Quit ==
    /\ win["main"].open
    /\ win' = [w \in Windows |-> Closed]
    /\ restoring' = {} /\ leaving' = 0 /\ chat' = {}
    /\ try' = [k \in Tries |-> IF try[k] = Unused THEN Unused
                               ELSE [try[k] EXCEPT !.awaited = FALSE]]
    /\ ofWindow' = NoId
    /\ UNCHANGED <<owner, made, local, leaves>>

\* GET /auth/me finds the account of the token.
Restored(w) ==
    /\ w \in restoring /\ Exists(win[w].token)
    /\ restoring' = restoring \ {w}
    /\ win' = [win EXCEPT ![w].ready = TRUE, ![w].user = win[w].token,
                          ![w].socket = win[w].token]
    /\ UNCHANGED <<owner, made, try, local, ofWindow, leaving, chat, leaves>>

\* It is refused, or the server cannot be reached: the stored token is cleared.
RestoreFails(w) ==
    /\ w \in restoring
    /\ restoring' = restoring \ {w}
    /\ win' = [win EXCEPT ![w].ready = TRUE, ![w].token = NoId]
    /\ local' = NoId
    /\ ofWindow' = IF w = "main" THEN NoId ELSE ofWindow
    /\ UNCHANGED <<owner, made, try, leaving, chat, leaves>>

\* `loading`: the form of LoginView or SignupView is disabled.
Loading ==
    \/ "main" \in restoring
    \/ \E k \in Tries : try[k] # Unused /\ try[k].awaited

\* PublicOnlyRoute shows the forms, ProtectedRoute the application.
Submit(k, op, email, remember) ==
    /\ win["main"].ready /\ win["main"].user = NoId /\ ~Loading
    /\ try[k] = Unused
    /\ try' = [try EXCEPT ![k] = [op |-> op, email |-> email, at |-> "find", id |-> NoId,
                                  remember |-> (op = "signup" \/ remember), awaited |-> TRUE]]
    /\ UNCHANGED <<owner, made, local, ofWindow, win, restoring, leaving, chat, leaves>>

\* The answer is an error, or none comes: the server may still be at work.
Fails(k) ==
    /\ try[k] # Unused /\ try[k].awaited
    /\ try' = [try EXCEPT ![k].awaited = FALSE]
    /\ UNCHANGED <<owner, made, local, ofWindow, win, restoring, leaving, chat, leaves>>

\* The token is kept, the user shown, the socket connected with the token.
Enters(k) ==
    /\ try[k] # Unused /\ try[k].awaited /\ try[k].at = "done" /\ try[k].id # NoId
    /\ try' = [try EXCEPT ![k].awaited = FALSE]
    /\ local' = IF try[k].remember THEN try[k].id ELSE NoId
    /\ ofWindow' = IF try[k].remember THEN NoId ELSE try[k].id
    /\ win' = [win EXCEPT !["main"].token = try[k].id, !["main"].user = try[k].id,
                          !["main"].socket = try[k].id]
    /\ UNCHANGED <<owner, made, restoring, leaving, chat, leaves>>

\* A message of the user, or a reply on the socket, in the chat of the main window.
Talk ==
    /\ win["main"].user # NoId
    /\ \E i \in {win["main"].user, win["main"].socket} \ {NoId} : chat' = chat \cup {i}
    /\ UNCHANGED <<owner, made, try, local, ofWindow, win, restoring, leaving, leaves>>

\* The button "Log out", which stays enabled: the socket is closed first.
Logout ==
    /\ win["main"].user # NoId
    /\ leaves < MaxLeaves
    /\ leaves' = leaves + 1
    /\ leaving' = leaving + 1
    /\ win' = [win EXCEPT !["main"].socket = NoId]
    /\ UNCHANGED <<owner, made, try, local, ofWindow, restoring, chat>>

\* A logout that leaves the messages in the store.
LoggedOutSlip ==
    /\ leaving > 0
    /\ leaving' = leaving - 1
    /\ local' = NoId /\ ofWindow' = NoId
    /\ win' = [win EXCEPT !["main"].token = NoId, !["main"].user = NoId]
    /\ UNCHANGED <<owner, made, try, restoring, chat, leaves>>

\* /auth/logout is answered, or fails: whoever is signed in now is signed out.
LoggedOut ==
    /\ leaving > 0
    /\ leaving' = leaving - 1
    /\ local' = NoId /\ ofWindow' = NoId
    /\ chat' = {}
    /\ win' = [win EXCEPT !["main"].token = NoId, !["main"].user = NoId]
    /\ UNCHANGED <<owner, made, try, restoring, leaves>>

(***************************************************************************)
(* The server.                                                             *)
(***************************************************************************)
\* findByEmail: an email that has an account, or has none, refuses the call.
Find(k) ==
    /\ try[k] # Unused /\ try[k].at = "find"
    /\ LET refused == HasAccount(try[k].email) <=> try[k].op = "signup"
           found   == IF try[k].op = "login" /\ ~refused THEN IdOf(try[k].email) ELSE NoId
       IN try' = [try EXCEPT ![k].at = IF refused THEN "done" ELSE "hash", ![k].id = found]
    /\ UNCHANGED <<owner, made, local, ofWindow, win, restoring, leaving, chat, leaves>>

\* bcrypt.hash has ended; create looks for the email again, under the lock.
Create(k) ==
    /\ try[k] # Unused /\ try[k].op = "signup" /\ try[k].at = "hash"
    /\ made < MaxIds
    /\ IF HasAccount(try[k].email)
       THEN /\ try' = [try EXCEPT ![k].at = "done"]
            /\ UNCHANGED <<owner, made>>
       ELSE /\ made' = made + 1
            /\ owner' = [owner EXCEPT ![made'] = try[k].email]
            /\ try' = [try EXCEPT ![k].at = "done", ![k].id = made']
    /\ UNCHANGED <<local, ofWindow, win, restoring, leaving, chat, leaves>>

\* bcrypt.compare has ended: the token of the account read before it, which may
\* have been deleted since, or a refusal.
Compare(k) ==
    /\ try[k] # Unused /\ try[k].op = "login" /\ try[k].at = "hash"
    /\ \E id \in {try[k].id, NoId} : try' = [try EXCEPT ![k].at = "done", ![k].id = id]
    /\ UNCHANGED <<owner, made, local, ofWindow, win, restoring, leaving, chat, leaves>>

\* The administrator deletes an account; no token or socket is told.
Delete(i) ==
    /\ Exists(i)
    /\ owner' = [owner EXCEPT ![i] = Nobody]
    /\ UNCHANGED <<made, try, local, ofWindow, win, restoring, leaving, chat, leaves>>

Next ==
    \/ \E w \in Windows :
          \/ (w = "popup" => win["main"].open) /\ Load(w)
          \/ Restored(w) \/ RestoreFails(w)
    \/ Quit \/ Talk \/ Logout \/ LoggedOut
    \/ \E k \in Tries, op \in {"signup", "login"}, email \in Emails, remember \in BOOLEAN :
          Submit(k, op, email, remember)
    \/ \E k \in Tries : Fails(k) \/ Enters(k) \/ Find(k) \/ Create(k) \/ Compare(k)
    \/ \E i \in Ids : Delete(i)

Spec == Init /\ [][Next]_vars

-----------------------------------------------------------------------------
\* The chat store holds no message of another account, "so a second account on
\* the same machine never sees the previous user's chat history in memory"
\* (authStore.js:114-115): what is written while the logout waits goes as well.
ChatIsOfItsUser == chat \subseteq {win["main"].user}

\* Sign-ups that overlap, or follow one whose answer was lost, make one account
\* of an email (FileUserRepository.create, 106-112).
OneAccountPerEmail ==
    \A i, j \in Ids : Exists(i) /\ owner[i] = owner[j] => i = j

\* A window that shows a user has that user's socket or none.
SocketIsOfItsUser ==
    \A w \in Windows : win[w].user # NoId => win[w].socket \in {win[w].user, NoId}

\* Whoever is signed out is off the socket.  It does not hold: the answer of a
\* second logout signs out who has signed in after the first.
SignedOutIsOffline ==
    \A w \in Windows : win[w].user = NoId => win[w].socket = NoId

\* A stored token goes when it is refused or its user leaves ("Token
\* expired/invalid - clear it", authStore.js:77).  It does not hold: a server
\* that cannot be reached, asked by either window, has the same effect.
TokenGoesForAReason ==
    [][local # NoId /\ local' = NoId => leaving > 0 \/ ~Exists(local)]_vars
=============================================================================
