-------------------------------- MODULE Editor --------------------------------
(***************************************************************************)
(* One file that is open in the code editor of the web client              *)
(* (components/Coding/CodeEditor.jsx, openFile.js, store/codingStore.js,   *)
(* providers/CodingProvider.jsx), and the file on the server that it is    *)
(* read from and saved to (services/codingWorkspaceService.js), which the  *)
(* coding agent and other programs change as well.                         *)
(*                                                                         *)
(* Requests and answers travel on one socket, in order.  A request is      *)
(* answered at once by the server; the client gives up on an answer after  *)
(* 15 seconds and then ignores it.  The hash of a text is taken to be the  *)
(* text.  Tabs share nothing, so the module models one.                    *)
(***************************************************************************)
EXTENDS Naturals, Sequences

CONSTANTS
    UserTexts,   \* what the user may type, each once
    OtherTexts,  \* what the agent and other programs may write, numbered in their order
    Absent,      \* the content of a file that does not exist
    NoHash,      \* the null hash of a tab that is not loaded
    MaxTravel    \* BOUND: requests and messages under way

EditorAssumption ==
    /\ OtherTexts \subseteq Nat /\ UserTexts \intersect OtherTexts = {}
    /\ {Absent, NoHash} \intersect (UserTexts \union OtherTexts) = {}
    /\ MaxTravel \in Nat

Texts == UserTexts \union OtherTexts

VARIABLES
    disk,      \* the file on the server
    unused,    \* the texts nobody has written yet
    tab,       \* the tab of the store, "closed" when there is none
    autoSave,  \* the switch of the editor
    timer,     \* the auto-save timer of the tab is set
    saving,    \* the status shown for the tab is "saving"
    visible,   \* the coding view is mounted
    requests,  \* what travels to the server
    messages,  \* what travels to the client: answers and events of the agent
    shown      \* the texts the tab has shown or knows as saved

vars == <<disk, unused, tab, autoSave, timer, saving, visible, requests, messages, shown>>

Closed == [view |-> "closed", content |-> Absent, original |-> Absent,
           hash |-> NoHash, dirty |-> FALSE]

\* A request of the client, with the buffer that a save carries along.
FileCalls == [op : {"open", "reload", "save", "fresh", "resave"},
          text : Texts \union {Absent}, hash : Texts \union {NoHash}, live : BOOLEAN]

\* The answer to a call.
Answers == [call : FileCalls, result : {"ok", "conflict", "failed"},
            found : Texts \union {Absent}]

\* The news that the agent has changed the file.  It names the tool that did,
\* and the client looks for a name that no tool has when it tests for a
\* deletion: all news are alike to it.
News == {"changed"}

TypeOK ==
    /\ disk \in Texts \union {Absent}
    /\ unused \subseteq Texts
    /\ tab \in [view : {"closed", "loading", "ready", "error"},
                content : Texts \union {Absent}, original : Texts \union {Absent},
                hash : Texts \union {NoHash}, dirty : BOOLEAN]
    /\ <<autoSave, timer, saving, visible>> \in BOOLEAN \X BOOLEAN \X BOOLEAN \X BOOLEAN
    /\ requests \in Seq(FileCalls)
    /\ messages \in Seq([answer : Answers] \union [news : News])
    /\ shown \subseteq Texts

Init ==
    /\ disk \in {text \in OtherTexts : \A next \in OtherTexts : text <= next} \union {Absent}
    /\ unused = Texts \ {disk}
    /\ tab = Closed
    /\ autoSave \in BOOLEAN
    /\ timer = FALSE
    /\ saving = FALSE
    /\ visible = TRUE
    /\ requests = <<>>
    /\ messages = <<>>
    /\ shown = {}

(***************************************************************************)
(* The store                                                               *)
(***************************************************************************)

\* setTabContent, which takes no notice of what the user has typed meanwhile.
\* A tab that is closed stays closed.
SetTabContent(text) ==
    /\ tab' = IF tab.view = "closed" THEN tab
              ELSE [view |-> "ready", content |-> text, original |-> text,
                    hash |-> text, dirty |-> FALSE]
    /\ shown' = IF tab.view = "closed" THEN shown ELSE shown \union {text}

\* markTabSaved: the tab goes back to the text that was saved.
MarkTabSaved(text) ==
    /\ tab' = IF tab.view = "closed" THEN tab
              ELSE [tab EXCEPT !.content = text, !.original = text,
                               !.hash = text, !.dirty = FALSE]
    /\ shown' = IF tab.view = "closed" THEN shown ELSE shown \union {text}

SetTabError ==
    tab' = IF tab.view = "closed" THEN tab ELSE [tab EXCEPT !.view = "error"]

Call(op, text, hash) == [op |-> op, text |-> text, hash |-> hash, live |-> TRUE]

Ask(op, text, hash) ==
    requests' = Append(requests, Call(op, text, hash))

(***************************************************************************)
(* The user                                                                *)
(***************************************************************************)
Room == Len(requests) + Len(messages) < MaxTravel

\* A click in the explorer or on a result of the search.  A tab that is there
\* is activated, and the file is read again all the same.
Open ==
    /\ visible /\ Room
    /\ tab' = IF tab.view = "closed" THEN [Closed EXCEPT !.view = "loading"] ELSE tab
    /\ Ask("open", Absent, NoHash)
    /\ UNCHANGED <<disk, unused, autoSave, timer, saving, visible, messages, shown>>

\* The user types something new, or undoes what was typed.
Type ==
    /\ visible /\ tab.view = "ready"
    /\ \E text \in (unused \intersect UserTexts) \union {tab.original} :
          /\ text # tab.content
          /\ tab' = [tab EXCEPT !.content = text, !.dirty = (text # tab.original)]
          /\ unused' = unused \ {text}
    /\ timer' = (timer \/ autoSave)
    /\ UNCHANGED <<disk, autoSave, saving, visible, requests, messages, shown>>

SaveFile ==
    /\ Ask("save", tab.content, tab.hash)
    /\ saving' = TRUE

\* The auto-save timer fires; it survives its tab being closed.
TimerFires ==
    /\ timer /\ Room
    /\ timer' = FALSE
    /\ IF tab.dirty THEN SaveFile ELSE UNCHANGED <<requests, saving>>
    /\ UNCHANGED <<disk, unused, tab, autoSave, visible, messages, shown>>

SaveButton ==
    /\ visible /\ ~autoSave /\ tab.dirty /\ ~saving /\ Room
    /\ SaveFile
    /\ UNCHANGED <<disk, unused, tab, autoSave, timer, visible, messages, shown>>

Toggle ==
    /\ visible
    /\ autoSave' = ~autoSave
    /\ UNCHANGED <<disk, unused, tab, timer, saving, visible, requests, messages, shown>>

CloseTab ==
    /\ visible /\ tab.view # "closed"
    /\ tab' = Closed
    /\ UNCHANGED <<disk, unused, autoSave, timer, saving, visible, requests, messages, shown>>

\* The coding view is left: its timers are cleared, its tabs stay in the store.
Leave ==
    /\ visible
    /\ visible' = FALSE
    /\ timer' = FALSE
    /\ saving' = FALSE
    /\ UNCHANGED <<disk, unused, tab, autoSave, requests, messages, shown>>

Return ==
    /\ ~visible
    /\ visible' = TRUE
    /\ UNCHANGED <<disk, unused, tab, autoSave, timer, saving, requests, messages, shown>>

(***************************************************************************)
(* The server                                                              *)
(***************************************************************************)

\* writeFile: the caller's hash must be that of the file, when it gives one
\* and the file exists.
MayWriteSlip(c) == TRUE

MayWrite(c) == c.hash = NoHash \/ disk = Absent \/ disk = c.hash

Reads == {"open", "reload", "fresh"}

Answer(c, result, found) ==
    messages' = Append(messages, [answer |-> [call |-> c, result |-> result, found |-> found]])

\* readFile
ServeRead(c) ==
    /\ c.op \in Reads
    /\ Answer(c, IF disk = Absent THEN "failed" ELSE "ok", disk)
    /\ UNCHANGED disk

ServeWrite(c) ==
    /\ c.op \notin Reads
    /\ \/ /\ MayWrite(c)
          /\ disk' = c.text
          /\ Answer(c, "ok", c.text)
       \/ /\ ~MayWrite(c)
          /\ Answer(c, "conflict", Absent)
          /\ UNCHANGED disk

Serve ==
    /\ requests # <<>>
    /\ requests' = Tail(requests)
    /\ ServeRead(Head(requests)) \/ ServeWrite(Head(requests))
    /\ UNCHANGED <<unused, tab, autoSave, timer, saving, visible, shown>>

\* The next text of others.
NextOther == {text \in unused \intersect OtherTexts :
                 \A next \in unused \intersect OtherTexts : text <= next}

\* The agent of the user's session writes or deletes the file; the client is
\* told.
AgentChanges ==
    /\ Room
    /\ \E text \in NextOther \union {Absent} :
          /\ text # disk
          /\ disk' = text
          /\ unused' = unused \ {text}
    /\ messages' = Append(messages, [news |-> "changed"])
    /\ UNCHANGED <<tab, autoSave, timer, saving, visible, requests, shown>>

\* Another program, or an agent whose session the client does not show.
Elsewhere ==
    /\ \E text \in NextOther \union {Absent} :
          /\ text # disk
          /\ disk' = text
          /\ unused' = unused \ {text}
    /\ UNCHANGED <<tab, autoSave, timer, saving, visible, requests, messages, shown>>

(***************************************************************************)
(* The answers                                                             *)
(***************************************************************************)

\* openCodingFile, and the reload of onFileChanged, which ignores a failure.
ReadAnswered(a) ==
    /\ a.call.op \in {"open", "reload"}
    /\ \/ a.result = "ok" /\ SetTabContent(a.found)
       \/ a.result # "ok" /\ a.call.op = "open" /\ SetTabError /\ UNCHANGED shown
       \/ a.result # "ok" /\ a.call.op = "reload" /\ UNCHANGED <<tab, shown>>
    /\ UNCHANGED <<requests, saving>>

\* saveFile goes on.  After a conflict the file is read for its hash alone,
\* and the same text is saved over it.
SaveAnswered(a) ==
    /\ a.call.op \in {"save", "resave", "fresh"}
    /\ \/ /\ a.call.op \in {"save", "resave"} /\ a.result = "ok"
          /\ MarkTabSaved(a.call.text)
          /\ saving' = FALSE
          /\ UNCHANGED requests
       \/ /\ a.call.op = "save" /\ a.result = "conflict"
          /\ Ask("fresh", a.call.text, NoHash)
          /\ UNCHANGED <<tab, shown, saving>>
       \/ /\ a.call.op = "fresh" /\ a.result = "ok"
          /\ Ask("resave", a.call.text, a.found)
          /\ UNCHANGED <<tab, shown, saving>>
       \/ /\ a.call.op \in {"fresh", "resave"} /\ a.result # "ok"
          /\ saving' = FALSE
          /\ UNCHANGED <<requests, tab, shown>>

\* onFileChanged: a tab without unsaved typing is loaded again.
NewsArrives ==
    /\ IF visible /\ tab.view # "closed" /\ ~tab.dirty
       THEN Ask("reload", Absent, NoHash)
       ELSE UNCHANGED requests
    /\ UNCHANGED <<tab, shown, saving>>

Arrive ==
    /\ messages # <<>>
    /\ messages' = Tail(messages)
    /\ LET m == Head(messages) IN
          \/ "news" \in DOMAIN m /\ NewsArrives
          \/ /\ "answer" \in DOMAIN m /\ m.answer.call.live
             /\ ReadAnswered(m.answer) \/ SaveAnswered(m.answer)
          \/ /\ "answer" \in DOMAIN m /\ ~m.answer.call.live
             /\ UNCHANGED <<requests, tab, shown, saving>>
    /\ UNCHANGED <<disk, unused, autoSave, timer, visible>>

\* emitWithAck gives up on a call: it ends as one that failed, and its answer,
\* when it comes, is ignored.
GivenUp(c) ==
    /\ c.live
    /\ IF c.op = "open" THEN SetTabError ELSE UNCHANGED tab
    /\ saving' = (saving /\ c.op \in {"open", "reload"})

Timeout ==
    /\ \/ \E i \in DOMAIN requests :
             /\ GivenUp(requests[i])
             /\ requests' = [requests EXCEPT ![i].live = FALSE]
             /\ UNCHANGED messages
       \/ \E i \in DOMAIN messages :
             /\ "answer" \in DOMAIN messages[i]
             /\ GivenUp(messages[i].answer.call)
             /\ messages' = [messages EXCEPT ![i].answer.call.live = FALSE]
             /\ UNCHANGED requests
    /\ UNCHANGED <<disk, unused, autoSave, timer, visible, shown>>

Next ==
    \/ Open \/ Type \/ TimerFires \/ SaveButton \/ Toggle \/ CloseTab
    \/ Leave \/ Return
    \/ Serve \/ AgentChanges \/ Elsewhere
    \/ Arrive \/ Timeout

Spec == Init /\ [][Next]_vars

(***************************************************************************)
(* Properties                                                              *)
(***************************************************************************)

\* What somebody else wrote into the file is replaced without a notice only
\* when the tab has shown it: whatever is saved late, twice or after a
\* timeout, the hash it carries is that of a text the user has seen.  Only the
\* save that follows a conflict may replace a text the user has not seen, and
\* the user is told of that one.
SilentOnlyOverSeen ==
    [][(disk' \in UserTexts /\ disk' # disk /\ disk \in OtherTexts)
          => disk \in shown \/ Head(requests).op = "resave"]_vars

\* "the user's own edits are what auto-save exists to protect": nothing but the
\* user's typing, or closing the tab, replaces a text that is not saved yet.
\* The code breaks it: a reload or a save that was under way when the user
\* began to type, and a second click on the file, put their text into the tab.
EditsSurvive ==
    [][(tab.dirty /\ tab'.view # "closed" /\ tab'.content # tab.content)
          => tab'.original = tab.original]_vars

================================================================================
