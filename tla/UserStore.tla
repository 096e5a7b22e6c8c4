------------------------------- MODULE UserStore -------------------------------
(***************************************************************************)
(* What a user repository promises: every write is one step on the account *)
(* it is about, and an answer says what that step did.  It is the          *)
(* repository over MongoDB (infrastructure/MongoUserRepository.js), where  *)
(* each operation is one command on one document; the repository over a    *)
(* JSON file (FileUsers.tla) implements it.                                *)
(*                                                                         *)
(* An account is an e-mail address and some fields: a module each that is  *)
(* on or off, the role, the password hash, the last login.                 *)
(***************************************************************************)
EXTENDS Naturals

CONSTANTS
    Calls,    \* the calls of the repository that may be under way at once
    Emails,
    Fields, Values,
    Unset,    \* the value of every field of a new account
    NoUser,
    MaxUsers  \* BOUND: the accounts that are created

Ids == 1..MaxUsers
User == [email : Emails, data : [Fields -> Values]]
Accounts == [Ids -> User \union {NoUser}]

UserStoreAssumption == /\ MaxUsers \in Nat /\ Unset \in Values /\ NoUser \notin User

Create == [kind : {"create"}, email : Emails]
Update == [kind : {"update"}, id : Ids, field : Fields, value : Values]
Delete == [kind : {"delete"}, id : Ids]
Ops == Create \union Update \union Delete
Idle == [kind |-> "idle"]

VARIABLES
    users,  \* the accounts that are stored
    given,  \* how many ids have been given
    call,   \* what each call asks, or Idle
    answer  \* what the last call of each was told

vars == <<users, given, call, answer>>

TypeOK ==
    /\ users \in Accounts
    /\ given \in 0..MaxUsers
    /\ call \in [Calls -> Ops \union {Idle}]
    /\ answer \in [Calls -> {"none", "done", "taken", "absent", "error"}]

Init ==
    /\ users = [i \in Ids |-> NoUser]
    /\ given = 0
    /\ call = [c \in Calls |-> Idle]
    /\ answer = [c \in Calls |-> "none"]

Taken(all, email) == \E i \in Ids : all[i] # NoUser /\ all[i].email = email

\* The unique index, and an id that is not there.
Refused(all, op) ==
    IF op.kind = "create" THEN Taken(all, op.email) ELSE all[op.id] = NoUser

Changed(user, op) == [user EXCEPT !.data = [user.data EXCEPT ![op.field] = op.value]]

\* The accounts after an operation that is not refused; id is the next one.
After(all, op, id) ==
    CASE op.kind = "create" -> [all EXCEPT ![id] = [email |-> op.email,
                                                    data |-> [f \in Fields |-> Unset]]]
      [] op.kind = "update" -> [all EXCEPT ![op.id] = Changed(all[op.id], op)]
      [] op.kind = "delete" -> [all EXCEPT ![op.id] = NoUser]

Given(op) == IF op.kind = "create" THEN given + 1 ELSE given

Answers(c, what) ==
    /\ call' = [call EXCEPT ![c] = Idle]
    /\ answer' = [answer EXCEPT ![c] = what]

Ask(c, op) ==
    /\ call[c] = Idle
    /\ op.kind = "create" => given < MaxUsers
    /\ call' = [call EXCEPT ![c] = op]
    /\ UNCHANGED <<users, given, answer>>

\* create, updateFeatures, updateRole, touchLastLogin, updatePasswordHash and
\* deleteById.
Apply(c) ==
    /\ call[c] # Idle
    /\ ~Refused(users, call[c])
    /\ Given(call[c]) <= MaxUsers
    /\ users' = After(users, call[c], given + 1)
    /\ given' = Given(call[c])
    /\ Answers(c, "done")

Refuse(c) ==
    /\ call[c] # Idle
    /\ Refused(users, call[c])
    /\ Answers(c, IF call[c].kind = "create" THEN "taken" ELSE "absent")
    /\ UNCHANGED <<users, given>>

\* An error of the store: nothing has changed.
Fail(c) ==
    /\ call[c] # Idle
    /\ Answers(c, "error")
    /\ UNCHANGED <<users, given>>

\* The process ends and starts again: its calls are gone, the accounts stay.
Restart ==
    /\ call' = [c \in Calls |-> Idle]
    /\ answer' = [c \in Calls |-> "none"]
    /\ UNCHANGED <<users, given>>

Next ==
    \/ \E c \in Calls : \E op \in Ops : Ask(c, op)
    \/ \E c \in Calls : Apply(c) \/ Refuse(c) \/ Fail(c)
    \/ Restart

Spec == Init /\ [][Next]_vars

-----------------------------------------------------------------------------
(* Two accounts never have the same e-mail address, however signups         *)
(* overlap: "in case of a race between two concurrent signups"              *)
(* (FileUserRepository.js:107-109).                                         *)
EmailsAreUnique ==
    \A i, j \in Ids :
        users[i] # NoUser /\ users[j] # NoUser /\ users[i].email = users[j].email => i = j
=============================================================================
