----------------------------------- MODULE Git -----------------------------------
(***************************************************************************)
(* The source control panel of the coding view (Coding/GitPanel.jsx) and   *)
(* the git commands that the server runs for it (codingGitService.js).     *)
(*                                                                         *)
(* A call of the panel is served by one or two git commands, one after the *)
(* other; calls are served next to each other, so that their commands      *)
(* alternate and their answers overtake each other.                        *)
(*                                                                         *)
(* The panel is mounted while it is the active one of the side bar.  What  *)
(* it has selected and typed is its own and goes with it; the status and   *)
(* the diff are in the store and stay.                                     *)
(***************************************************************************)
EXTENDS Naturals, Sequences, FiniteSets

CONSTANTS
    Files,    \* the files of the workspace
    Contents, \* what a file may hold
    Absent,   \* there is no such file
    Calls,    \* BOUND: the calls that may be under way at a time
    MaxEdits  \* BOUND: the changes of a file by the user or the agent

GitAssumption == Files # {} /\ Absent \notin Contents /\ MaxEdits \in Nat

VARIABLES
    head, index, work, \* the last commit, the index and the files of the workspace
    edits,             \* how many changes there were
    call,              \* the call under way, by its number
    viewing,           \* the panel is mounted
    status,            \* gitStatus: the two letters of every file
    selected, diff,    \* selectedFile, and the file that gitDiff is about
    foreign,           \* (ghost) the diff came for a panel that was closed meanwhile
    message,           \* the user has typed a commit message
    committed          \* (ghost) the files that were staged when the last commit ran

repository == <<head, index, work, edits>>
panel == <<viewing, status, selected, diff, foreign, message>>
vars == <<repository, call, panel, committed>>

Versions == Contents \union {Absent}
Letters == {" ", "A", "M", "D", "?"}
NoFile == "no file"
Idle == [op |-> "none"]

\* A call, for a panel that was closed since when it is late.
Asked(op, step, f, late) == [op |-> op, step |-> step, file |-> f, late |-> late, shows |-> <<>>]

\* The two letters of `git status --porcelain`.
Letter(old, new) ==
    CASE old = new                      -> " "
      [] old # new /\ old = Absent      -> "A"
      [] old # new /\ new = Absent      -> "D"
      [] Absent \notin {old, new} /\ old # new -> "M"

Untracked(f) == head[f] = Absent /\ index[f] = Absent /\ work[f] # Absent

StatusNow ==
    [f \in Files |->
        IF Untracked(f) THEN <<"?", "?">>
        ELSE <<Letter(head[f], index[f]), Letter(index[f], work[f])>>]

Steps == {"add", "restore", "status", "check", "commit", "diff", "done", "failed"}

TypeOK ==
    /\ {head, index, work} \subseteq [Files -> Versions] /\ edits \in Nat
    /\ \A c \in Calls : call[c] # Idle =>
         /\ call[c].step \in Steps /\ call[c].file \in Files \union {NoFile}
         /\ call[c].late \in BOOLEAN
    /\ DOMAIN status \subseteq Files /\ \A f \in DOMAIN status : status[f] \in Letters \X Letters
    /\ {selected, diff} \subseteq Files \union {NoFile}
    /\ {viewing, foreign, message} \subseteq BOOLEAN /\ committed \subseteq Files

Init ==
    /\ head \in [Files -> Versions] /\ index = head /\ work = head /\ edits = 0
    /\ call = [c \in Calls |-> Idle]
    /\ viewing = FALSE
    /\ status = <<>>
    /\ selected = NoFile /\ diff = NoFile /\ foreign = FALSE
    /\ message = FALSE
    /\ committed = Files

(***************************************************************************)
(* What the panel reads in a status                                        *)
(***************************************************************************)

\* The server trims the two letters, and the first that is left is looked at:
\* for a file that is changed and not staged that is the second one.
FirstLetter(letters) == IF letters[1] = " " THEN letters[2] ELSE letters[1]

IsStaged(letters) == FirstLetter(letters) \notin {" ", "?"}

StagedFiles == {f \in DOMAIN status : IsStaged(status[f])}
UnstagedFiles == {f \in DOMAIN status : status[f] # <<" ", " ">>} \ StagedFiles

(***************************************************************************)
(* The calls                                                               *)
(***************************************************************************)

Begin(op, step, f) ==
    /\ \E c \in Calls :
         /\ call[c] = Idle
         /\ call' = [call EXCEPT ![c] = Asked(op, step, f, FALSE)]
    /\ UNCHANGED <<repository, committed>>

\* The panel becomes the active one: it is mounted and reads the status.
Open ==
    /\ ~viewing /\ viewing' = TRUE
    /\ Begin("status", "status", NoFile)
    /\ UNCHANGED <<status, selected, diff, foreign, message>>

\* Another panel becomes active, or none: what is asked is asked for nobody now.
Close ==
    /\ viewing /\ viewing' = FALSE
    /\ call' = [c \in Calls |-> IF call[c] = Idle THEN Idle ELSE [call[c] EXCEPT !.late = TRUE]]
    /\ selected' = NoFile /\ message' = FALSE
    /\ UNCHANGED <<repository, status, diff, foreign, committed>>

RefreshStatus == viewing /\ Begin("status", "status", NoFile) /\ UNCHANGED panel

\* The header names the file as soon as it is clicked.
LoadDiffSlip(f) ==
    /\ viewing /\ f \in StagedFiles \union UnstagedFiles
    /\ Begin("diff", "diff", f)
    /\ selected' = f
    /\ UNCHANGED <<viewing, status, diff, foreign, message>>

LoadDiff(f) ==
    /\ viewing /\ f \in StagedFiles \union UnstagedFiles
    /\ Begin("diff", "diff", f)
    /\ UNCHANGED panel

\* What the panel lists as staged it offers to unstage.
ToggleStage(f) ==
    /\ viewing
    /\ \/ f \in UnstagedFiles /\ Begin("stage", "add", f)
       \/ f \in StagedFiles /\ Begin("unstage", "restore", f)
    /\ UNCHANGED panel

HandleCommit ==
    /\ viewing /\ message /\ StagedFiles # {}
    /\ Begin("commit", "check", NoFile)
    /\ UNCHANGED panel

Type ==
    /\ viewing /\ ~message /\ message' = TRUE
    /\ UNCHANGED <<repository, call, viewing, status, selected, diff, foreign, committed>>

\* The commands.
Goes(c, step) == call' = [call EXCEPT ![c].step = step]

Add(c) ==
    /\ call[c].step = "add"
    /\ index' = [index EXCEPT ![call[c].file] = work[call[c].file]]
    /\ Goes(c, "status")
    /\ UNCHANGED <<head, work, edits, committed>>

Restore(c) ==
    /\ call[c].step = "restore"
    /\ index' = [index EXCEPT ![call[c].file] = head[call[c].file]]
    /\ Goes(c, "status")
    /\ UNCHANGED <<head, work, edits, committed>>

ReadStatus(c) ==
    /\ call[c].step = "status"
    /\ call' = [call EXCEPT ![c].step = "done", ![c].shows = StatusNow]
    /\ UNCHANGED <<repository, committed>>

\* commit(): what is staged is looked at before git is asked to commit it.
Check(c) ==
    /\ call[c].step = "check"
    /\ Goes(c, IF \E f \in Files : IsStaged(StatusNow[f]) THEN "commit" ELSE "failed")
    /\ UNCHANGED <<repository, committed>>

Commit(c) ==
    /\ call[c].step = "commit"
    /\ committed' = {f \in Files : index[f] # head[f]}
    /\ Goes(c, IF committed' = {} THEN "failed" ELSE "done")
    /\ head' = index
    /\ UNCHANGED <<index, work, edits>>

Diff(c) == call[c].step = "diff" /\ Goes(c, "done") /\ UNCHANGED <<repository, committed>>

\* A command fails: no repository, another git at work, 30 seconds.
Fails(c) ==
    /\ call[c].step \notin {"done", "failed"}
    /\ Goes(c, "failed")
    /\ UNCHANGED <<repository, committed>>

Command(c) ==
    /\ call[c] # Idle
    /\ Add(c) \/ Restore(c) \/ ReadStatus(c) \/ Check(c) \/ Commit(c) \/ Diff(c) \/ Fails(c)
    /\ UNCHANGED panel

\* The answer arrives: a status and a diff are kept in the store, and the panel that
\* asked names the file of the diff, if it is still mounted.  A commit clears the
\* message and reads the status again.
Answer(c) ==
    /\ call[c] # Idle /\ call[c].step \in {"done", "failed"}
    /\ LET done(op) == call[c].op = op /\ call[c].step = "done"
           late == call[c].late
       IN /\ status' = IF done("status") \/ done("stage") \/ done("unstage")
                       THEN call[c].shows ELSE status
          /\ diff' = IF done("diff") THEN call[c].file ELSE diff
          /\ selected' = IF done("diff") /\ ~late THEN call[c].file ELSE selected
          /\ foreign' = IF done("diff") THEN late ELSE foreign
          /\ message' = (message /\ ~(done("commit") /\ ~late))
          /\ call' = [call EXCEPT ![c] =
                        IF done("commit") THEN Asked("status", "status", NoFile, late) ELSE Idle]
    /\ UNCHANGED <<repository, viewing, committed>>

\* The user or the agent changes a file.
Edit(f) ==
    /\ edits < MaxEdits /\ edits' = edits + 1
    /\ \E v \in Versions \ {work[f]} : work' = [work EXCEPT ![f] = v]
    /\ UNCHANGED <<head, index, call, panel, committed>>

Next ==
    \/ Open \/ Close \/ RefreshStatus \/ HandleCommit \/ Type
    \/ \E f \in Files : LoadDiff(f) \/ ToggleStage(f) \/ Edit(f)
    \/ \E c \in Calls : Command(c) \/ Answer(c)

Spec == Init /\ [][Next]_vars

(***************************************************************************)
(* Properties                                                              *)
(***************************************************************************)

\* The diff that is shown is that of the file named above it, in whatever order
\* the answers come and whichever of them fail, unless it was asked for a panel that
\* was closed before it came.
DiffIsOfItsHeader == selected # NoFile => diff = selected \/ foreign

\* The code breaks it: the header is of the panel and the diff of the store
\* (GitPanel.jsx, 26 and 54), so that the answer for a panel that was closed puts its
\* diff under the header of the one that was opened since.
DiffIsAlwaysOfItsHeader == selected # NoFile => diff = selected

\* "commit rejects with nothing staged": git is asked to commit only what the
\* server has found staged.  The code breaks it: a file that is changed and not
\* staged counts as staged, and git fails instead.
NothingStagedIsRefused == committed # {}

\* "Real git status/diff/log/stage/unstage/commit": what the panel has read as
\* changed and not staged it offers to stage.  The code breaks it.
OffersToStage ==
    \A f \in DOMAIN status :
        status[f][1] = " " /\ status[f][2] # " " => f \in UnstagedFiles

================================================================================
