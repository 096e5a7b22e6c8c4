--------------------------------- MODULE Admin ---------------------------------
(***************************************************************************)
(* The page of the administrator (AdminView.jsx) and what it asks of       *)
(* admin.controller.js: the list of the accounts, the switch of a feature, *)
(* shown before the server has answered, and the deletion of an account.   *)
(* There is one administrator, who has one such page.                      *)
(***************************************************************************)
EXTENDS Naturals, FiniteSets

CONSTANTS
    People,   \* the accounts that are not the administrator's
    MaxAsked  \* bound: lists, switches and deletions asked for

AdminAssumption == IsFiniteSet(People) /\ MaxAsked \in Nat

Rowless == "none"     \* no account, or no row of it
Row     == {"on", "off"}  \* the feature
Quiet   == [op |-> "none"]
Other(v) == IF v = "on" THEN "off" ELSE "on"

VARIABLES
    account,  \* each account: the feature is on, off, or Rowless
    owned,    \* the people with data in the stores of the services
    rows,     \* what the page shows
    ask,      \* the call in flight about each person: busyIds are those with one
    list,     \* the list in flight
    since,    \* the accounts changed since that list was read
    astray,   \* the rows of an older list, or with an answer that was lost
    asked     \* how many calls were made

vars == <<account, owned, rows, ask, list, since, astray, asked>>

Accounts == [People -> Row \cup {Rowless}]
Ask == [op : {"toggle"}, to : Row, previous : Row, at : {"sent", "done", "refused"}]
       \cup [op : {"delete"}, at : {"sent", "found", "cleaned", "done", "refused"}]

TypeOK ==
    /\ account \in Accounts
    /\ owned \subseteq People
    /\ rows \in Accounts
    /\ ask \in [People -> Ask \cup {Quiet}]
    /\ list \in [at : {"none", "sent", "read"}, seen : Accounts]
    /\ since \subseteq People /\ astray \subseteq People
    /\ asked \in 0..MaxAsked

NoList == [at |-> "none", seen |-> [u \in People |-> Rowless]]
Busy == {u \in People : ask[u] # Quiet}

Init ==
    /\ account = [u \in People |-> "on"]
    /\ owned = {}
    /\ rows = [u \in People |-> Rowless]
    /\ ask = [u \in People |-> Quiet]
    /\ list = [NoList EXCEPT !.at = "sent"]
    /\ since = {}
    /\ astray = People
    /\ asked = 0

(***************************************************************************)
(* The page.                                                               *)
(***************************************************************************)
\* The button "Refresh", unless a list is loading.
Refresh ==
    /\ list.at = "none" /\ asked < MaxAsked
    /\ list' = [NoList EXCEPT !.at = "sent"] /\ asked' = asked + 1
    /\ UNCHANGED <<account, owned, rows, ask, since, astray>>

\* The answer replaces every row, those with a call in flight too.
Listed ==
    /\ list.at = "read"
    /\ rows' = list.seen
    /\ astray' = since \cup (astray \cap Busy)
    /\ list' = NoList
    /\ UNCHANGED <<account, owned, ask, since, asked>>

ListFails ==
    /\ list # NoList
    /\ list' = NoList
    /\ UNCHANGED <<account, owned, rows, ask, since, astray, asked>>

\* handleToggle: the row shows the choice at once.
Toggle(u) ==
    /\ u \notin Busy /\ rows[u] # Rowless /\ asked < MaxAsked
    /\ asked' = asked + 1
    /\ ask' = [ask EXCEPT ![u] = [op |-> "toggle", to |-> Other(rows[u]), previous |-> rows[u],
                                  at |-> "sent"]]
    /\ rows' = [rows EXCEPT ![u] = Other(rows[u])]
    /\ UNCHANGED <<account, owned, list, since, astray>>

\* handleDelete, once the question was confirmed.
Remove(u) ==
    /\ u \notin Busy /\ rows[u] # Rowless /\ asked < MaxAsked
    /\ asked' = asked + 1
    /\ ask' = [ask EXCEPT ![u] = [op |-> "delete", at |-> "sent"]]
    /\ UNCHANGED <<account, owned, rows, list, since, astray>>

\* The row becomes the account that was answered, or goes.
Succeeds(u) ==
    /\ ask[u] # Quiet /\ ask[u].at = "done"
    /\ rows' = IF ask[u].op = "delete" THEN [rows EXCEPT ![u] = Rowless]
               ELSE IF rows[u] = Rowless THEN rows ELSE [rows EXCEPT ![u] = ask[u].to]
    /\ astray' = IF ask[u].op = "toggle" /\ rows[u] = Rowless THEN astray ELSE astray \ {u}
    /\ ask' = [ask EXCEPT ![u] = Quiet]
    /\ UNCHANGED <<account, owned, list, since, asked>>

\* A failure that leaves the row as it was chosen.
RevertSlip(u) == rows

\* A switch that fails goes back to what it was.
Revert(u) ==
    IF ask[u].op = "toggle" /\ rows[u] # Rowless
    THEN [rows EXCEPT ![u] = ask[u].previous]
    ELSE rows

\* A refusal, or no answer: the server may have done its work, and may still do it.
Fails(u) ==
    /\ ask[u] # Quiet
    /\ rows' = Revert(u)
    /\ astray' = IF ask[u].at = "refused" THEN astray ELSE astray \cup {u}
    /\ ask' = [ask EXCEPT ![u] = Quiet]
    /\ \E served \in BOOLEAN :
          IF served /\ ask[u].op = "toggle" /\ ask[u].at = "sent" /\ account[u] # Rowless
          THEN account' = [account EXCEPT ![u] = ask[u].to] /\ since' = since \cup {u}
          ELSE IF served /\ ask[u].op = "delete" /\ ask[u].at # "refused"
          THEN account' = [account EXCEPT ![u] = Rowless] /\ since' = since \cup {u}
          ELSE UNCHANGED <<account, since>>
    /\ UNCHANGED <<owned, list, asked>>

(***************************************************************************)
(* The server.                                                             *)
(***************************************************************************)
ReadList ==
    /\ list.at = "sent"
    /\ list' = [at |-> "read", seen |-> account]
    /\ since' = {}
    /\ UNCHANGED <<account, owned, rows, ask, astray, asked>>

\* updateUserModules: 404 without the account, else its features are merged.
UpdateFeatures(u) ==
    /\ ask[u] # Quiet /\ ask[u].op = "toggle" /\ ask[u].at = "sent"
    /\ IF account[u] = Rowless
       THEN /\ ask' = [ask EXCEPT ![u].at = "refused"]
            /\ UNCHANGED <<account, since>>
       ELSE /\ ask' = [ask EXCEPT ![u].at = "done"]
            /\ account' = [account EXCEPT ![u] = ask[u].to]
            /\ since' = since \cup {u}
    /\ UNCHANGED <<owned, rows, list, astray, asked>>

\* Repositories can fail: the answer is an error and nothing was changed.
ServerFails(u) ==
    /\ ask[u] # Quiet /\ ask[u].at = "sent"
    /\ ask' = [ask EXCEPT ![u].at = "refused"]
    /\ UNCHANGED <<account, owned, rows, list, since, astray, asked>>

FindTarget(u) ==
    /\ ask[u] # Quiet /\ ask[u].op = "delete" /\ ask[u].at = "sent"
    /\ ask' = [ask EXCEPT ![u].at = IF account[u] = Rowless THEN "refused" ELSE "found"]
    /\ UNCHANGED <<account, owned, rows, list, since, astray, asked>>

\* cleanupUserOwnedData; one of the services may fail, which is only logged.
Cleanup(u) ==
    /\ ask[u] # Quiet /\ ask[u].op = "delete" /\ ask[u].at = "found"
    /\ ask' = [ask EXCEPT ![u].at = "cleaned"]
    /\ owned' \in {owned, owned \ {u}}
    /\ UNCHANGED <<account, rows, list, since, astray, asked>>

DeleteById(u) ==
    /\ ask[u] # Quiet /\ ask[u].op = "delete" /\ ask[u].at = "cleaned"
    /\ IF account[u] = Rowless
       THEN /\ ask' = [ask EXCEPT ![u].at = "refused"]
            /\ UNCHANGED <<account, since>>
       ELSE /\ ask' = [ask EXCEPT ![u].at = "done"]
            /\ account' = [account EXCEPT ![u] = Rowless]
            /\ since' = since \cup {u}
    /\ UNCHANGED <<owned, rows, list, astray, asked>>

\* A person works: the socket stays open when the account goes.
Work(u) ==
    /\ u \notin owned
    /\ owned' = owned \cup {u}
    /\ UNCHANGED <<account, rows, ask, list, since, astray, asked>>

Next ==
    \/ Refresh \/ ReadList \/ Listed \/ ListFails
    \/ \E u \in People :
          \/ Toggle(u) \/ Remove(u) \/ Succeeds(u) \/ Fails(u)
          \/ UpdateFeatures(u) \/ ServerFails(u)
          \/ FindTarget(u) \/ Cleanup(u) \/ DeleteById(u) \/ Work(u)

Spec == Init /\ [][Next]_vars

-----------------------------------------------------------------------------
\* A row without a call in flight is the account: "the UI never claims a change
\* took when the backend actually rejected it" (AdminView.jsx:22-24), and never
\* the reverse, unless its answer was lost, or a list was older than the change.
RowIsTheAccount ==
    \A u \in People : u \notin Busy /\ u \notin astray => rows[u] = account[u]

\* No list that is shown was read before a change of an account.  It does not
\* hold: "Refresh" does not wait for the switches, nor they for it.
NoListIsOlder == [][Listed => since = {}]_vars

\* "This permanently removes the account and its data" (AdminView.jsx:167).  It
\* does not hold: what is written after the clean-up, or not cleaned up, stays.
NothingIsOrphaned == \A u \in owned : account[u] # Rowless
=============================================================================
