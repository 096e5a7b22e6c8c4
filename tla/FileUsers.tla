------------------------------- MODULE FileUsers -------------------------------
(***************************************************************************)
(* The user repository over one JSON file                                  *)
(* (infrastructure/FileUserRepository.js): every write reads the whole     *)
(* file, changes one account, writes a temporary file and renames it over  *)
(* the old one; a chain of promises runs one write after the other.  The   *)
(* process may end between any two of these steps, and writing a file may  *)
(* fail.  It implements UserStore: from outside, each write is one step.   *)
(*                                                                         *)
(* "users" is what users.json holds.  A file that cannot be read, which    *)
(* counts as one without accounts (_readAll, 45-48), is not modelled.      *)
(***************************************************************************)
EXTENDS UserStore, Sequences

CONSTANT NoFile  \* no temporary file

FileUsersAssumption == UserStoreAssumption /\ NoFile \notin Accounts

VARIABLES
    draft,  \* users.json.tmp: what is about to be renamed
    queue   \* _writeQueue: the calls that wait, the first one runs

fileVars == <<users, given, call, answer, draft, queue>>

FileTypeOK ==
    /\ TypeOK
    /\ draft \in Accounts \union {NoFile}
    /\ queue \in Seq(Calls)

FileInit ==
    /\ Init
    /\ draft = NoFile
    /\ queue = <<>>

\* A call waits behind the others.
Enqueue(c, op) ==
    /\ Ask(c, op)
    /\ queue' = Append(queue, c)
    /\ UNCHANGED draft

Runs(c) == queue # <<>> /\ Head(queue) = c

\* The next write begins when this one has ended, well or not.
Leaves == queue' = Tail(queue)

\* An e-mail address that is taken, or an id that is not there: no write.
TurnDown(c) ==
    /\ Runs(c)
    /\ draft = NoFile
    /\ Refused(users, call[c])
    /\ Answers(c, IF call[c].kind = "create" THEN "taken" ELSE "absent")
    /\ Leaves
    /\ UNCHANGED <<users, given, draft>>

\* A write that does not wait for the one before it.
WriteDraftSlip(c) ==
    /\ call[c] # Idle
    /\ ~Refused(users, call[c])
    /\ Given(call[c]) <= MaxUsers
    /\ draft' = After(users, call[c], given + 1)
    /\ UNCHANGED <<users, given, call, answer, queue>>

\* The temporary file, with what the file holds and the change.
WriteDraft(c) ==
    /\ Runs(c)
    /\ draft = NoFile
    /\ ~Refused(users, call[c])
    /\ Given(call[c]) <= MaxUsers
    /\ draft' = After(users, call[c], given + 1)
    /\ UNCHANGED <<users, given, call, answer, queue>>

Rename(c) ==
    /\ Runs(c)
    /\ draft # NoFile
    /\ users' = draft
    /\ given' = Given(call[c])
    /\ draft' = NoFile
    /\ Answers(c, "done")
    /\ Leaves

WriteFails(c) ==
    /\ Runs(c)
    /\ draft' = NoFile
    /\ Answers(c, "error")
    /\ Leaves
    /\ UNCHANGED <<users, given>>

\* The process ends; a temporary file that it leaves is never read.
Crash ==
    /\ Restart
    /\ draft' = NoFile
    /\ queue' = <<>>

FileNext ==
    \/ \E c \in Calls : \E op \in Ops : Enqueue(c, op)
    \/ \E c \in Calls : TurnDown(c) \/ WriteDraft(c) \/ Rename(c) \/ WriteFails(c)
    \/ Crash

FileSpec == FileInit /\ [][FileNext]_fileVars

-----------------------------------------------------------------------------
(* The repository over a file does what the one over MongoDB does.          *)
ImplementsStore == Spec

(* What is about to be renamed is the file with the change of the call that *)
(* runs: no other write has come between.                                   *)
DraftIsNext ==
    draft # NoFile =>
        /\ queue # <<>>
        /\ LET op == call[Head(queue)] IN
           /\ op # Idle
           /\ ~Refused(users, op)
           /\ Given(op) <= MaxUsers
           /\ draft = After(users, op, given + 1)
===============================================================================
