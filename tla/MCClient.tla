------------------------------ MODULE MCClient ------------------------------
(* What the client shows, for TLC: one of the components runs, the others   *)
(* stay as they begin.  They share no state, so that each is checked as in  *)
(* a run of its own.                                                        *)
EXTENDS Live2D, Integers

CONSTANTS
    Parts,  \* the components to run
    UserTexts, OtherTexts, Absent, NoHash, MaxTravel,
    Agent, Tabs, Manual, ByAgent, NoRun, MaxMounts, MaxInbox, MaxMail,
    MaxRuns, MaxApprovals, Buttons,
    Roots, Names, Refused, Missing, MaxCalls, MaxTurns,
    Files, Contents, Calls, MaxEdits,
    NoChoice, MaxRequests, MaxChanges,
    EyeFrames, EyeMoods, FaceFrames, FaceMoods,
    MaxTokens, MaxDowns, Emits,
    Windows, MaxPictures, MaxPerWindow, MaxDrops,
    MaxAsked, MaxBreaks

VARIABLES
    part,   \* the component that runs
    disk, unused, tab, autoSave, timer, saving, visible, requests, messages, shown,
    process, open, closed, entries, busy, runId, calls, asked, inbox, mounts,
    state, issued, pending, connected, asks, mail, mounted, starting, run, says,
    activity, approval, detail, lost,
    folders, root, lists, top, tree, turns, stale, emptied,
    head, index, work, edits, call, viewing, status, selected, diff, foreign, message, committed,
    credential, choices, page, panel, enabled, models, provider, chosen, changes, fellBack,
    mood, pointer, glance, nodding, speaking, due, blink, lids, shutFor,
    felt, thinking, typing, audible, changed, seen, primary, pensive, talks,
    target, elapsed, wears, aperture, opening, silence,
    given, token, auth, wired, sock, up, downs, connects, orphaned, told, place, done,
    pictures, blank, cards, online, drops, sent, arriving, inFlight, recent, missing, away,
    phase, reply, streaming, image, voice, by, stage, origin, drawing, streams,
    cancelled, linked, conn, unheard

Editor    == INSTANCE Editor
Terminal  == INSTANCE Terminal WITH None <- NoRun, MaxMail <- MaxInbox
Coding    == INSTANCE CodingClient WITH session <- run, shown <- says
Explorer  == INSTANCE Explorer WITH disk <- folders, calls <- lists, shown <- top
Git       == INSTANCE Git
Providers == INSTANCE Providers WITH
                 Order <- <<"gemini", "claude">>, MaxTurns <- MaxChanges,
                 requests <- choices, model <- chosen, turns <- changes
Eyes      == INSTANCE Eyes WITH
                 Frames <- EyeFrames, Moods <- EyeMoods, Spots <- {<<100, -50>>}
Face      == INSTANCE Expression WITH
                 Frames <- FaceFrames, Moods <- FaceMoods, speaking <- talks, shown <- wears
Connection == INSTANCE Connection WITH Calls <- Emits, says <- connects
Images    == INSTANCE Images WITH
                 MaxRequests <- MaxPictures, asked <- pictures, inbox <- arriving, lost <- missing
WakeChat  == INSTANCE WakeChat WITH
                 MaxTurns <- MaxAsked, status <- phase, place <- stage, sock <- origin,
                 online <- linked, lost <- unheard, active <- streams

ASSUME ClientAssumption ==
       /\ Parts \subseteq {"live2d", "editor", "terminal", "coding", "explorer", "git",
                           "providers", "eyes", "face", "connection", "images", "wakechat"}
       /\ Editor!EditorAssumption /\ Terminal!TerminalAssumption
       /\ Coding!CodingClientAssumption /\ Explorer!ExplorerAssumption
       /\ Git!GitAssumption /\ Providers!ProvidersAssumption
       /\ Eyes!EyesAssumption /\ Face!ExpressionAssumption
       /\ Connection!ConnectionAssumption /\ Images!ImagesAssumption
       /\ WakeChat!WakeChatAssumption

editorVars == <<disk, unused, tab, autoSave, timer, saving, visible, requests,
                messages, shown>>
terminalVars == <<process, open, closed, entries, busy, runId, calls, asked,
                  inbox, mounts>>
codingVars == <<state, issued, pending, connected, asks, mail, mounted, starting,
                run, says, activity, approval, detail, lost>>
explorerVars == <<folders, root, lists, top, tree, turns, stale, emptied>>
gitVars == <<head, index, work, edits, call, viewing, status, selected, diff, foreign,
             message, committed>>
providersVars == <<credential, choices, page, panel, enabled, models, provider,
                   chosen, changes, fellBack>>
eyesVars == <<mood, pointer, glance, nodding, speaking, due, blink, lids, shutFor>>
faceVars == <<felt, thinking, typing, audible, changed, seen, primary, pensive, talks,
              target, elapsed, wears, aperture, opening, silence>>
connectionVars == <<given, token, auth, wired, sock, up, downs, connects, orphaned,
                    told, place, done>>
imagesVars == <<pictures, blank, cards, online, drops, sent, arriving, inFlight, recent,
                missing, away>>
wakeChatVars == <<phase, reply, streaming, image, voice, by, stage, origin, drawing,
                  streams, cancelled, linked, conn, unheard>>
all == <<part, vars, editorVars, terminalVars, codingVars, explorerVars, gitVars,
         providersVars, eyesVars, faceVars, connectionVars, imagesVars,
         wakeChatVars>>

(* A component that does not run begins in one state only.  The commit that *)
(* Git begins with is empty.                                                *)
Start ==
    /\ part \in Parts
    /\ Init /\ Editor!Init /\ Terminal!Init /\ Coding!Init
    /\ Explorer!Init /\ Git!Init /\ Providers!Init /\ Eyes!Init /\ Face!Init
    /\ Connection!Init /\ Images!Init /\ WakeChat!Init
    /\ part # "editor" => disk = Absent /\ ~autoSave
    /\ part # "explorer" => root = CHOOSE r \in Roots : TRUE
    /\ head = [f \in Files |-> Absent]
    /\ part # "eyes" => mood = (CHOOSE m \in EyeMoods : TRUE) /\ due = 300
    /\ part # "connection" => given = 0

(* Only the component that runs takes a step.                               *)
OthersStay ==
    /\ UNCHANGED part
    /\ part # "live2d"     => UNCHANGED vars
    /\ part # "editor"     => UNCHANGED editorVars
    /\ part # "terminal"   => UNCHANGED terminalVars
    /\ part # "coding"     => UNCHANGED codingVars
    /\ part # "explorer"   => UNCHANGED explorerVars
    /\ part # "git"        => UNCHANGED gitVars
    /\ part # "providers"  => UNCHANGED providersVars
    /\ part # "eyes"       => UNCHANGED eyesVars
    /\ part # "face"       => UNCHANGED faceVars
    /\ part # "connection" => UNCHANGED connectionVars
    /\ part # "images"     => UNCHANGED imagesVars
    /\ part # "wakechat"   => UNCHANGED wakeChatVars

Step ==
    /\ OthersStay
    /\ CASE part = "live2d"     -> Next
         [] part = "editor"     -> Editor!Next
         [] part = "terminal"   -> Terminal!Next
         [] part = "coding"     -> Coding!Next
         [] part = "explorer"   -> Explorer!Next
         [] part = "git"        -> Git!Next
         [] part = "providers"  -> Providers!Next
         [] part = "eyes"       -> Eyes!Next
         [] part = "face"       -> Face!Next
         [] part = "connection" -> Connection!Next
         [] part = "images"     -> Images!Next
         [] part = "wakechat"   -> WakeChat!Next

Client == Start /\ [][Step]_all

(* What is still to be read of a call of Git: an answer that failed is not    *)
(* looked at; once a file is staged or unstaged the status is read as for a   *)
(* refresh; and only a diff and a commit ask whether the panel is closed.     *)
ToCome(k) ==
    IF k = Git!Idle \/ k.step = "failed" THEN [op |-> IF k = Git!Idle THEN "none" ELSE "failed"]
    ELSE LET staging == k.op \in {"stage", "unstage"} /\ k.step \in {"status", "done"}
         IN [k EXCEPT !.op   = IF staging THEN "status" ELSE @,
                      !.file = IF staging THEN Git!NoFile ELSE @,
                      !.late = @ /\ k.op \in {"diff", "commit"}]

(* What tells the states of a run apart: the components that do not run keep *)
(* their values; which of the calls of Git is which makes no difference, and *)
(* nothing that is checked reads its history `committed'.                   *)
Running ==
    CASE part = "live2d"    -> <<part, vars>>
      [] part = "editor"    -> <<part, editorVars>>
      [] part = "terminal"  -> <<part, terminalVars>>
      [] part = "coding"    -> <<part, codingVars>>
      [] part = "explorer"  -> <<part, explorerVars>>
      [] part = "git"       -> <<part, head, index, work, edits, {ToCome(call[c]) : c \in Calls},
                                viewing, status, selected, diff, foreign, message>>
      [] part = "providers" -> <<part, providersVars>>
      [] part = "eyes"      -> <<part, eyesVars>>
      [] part = "face"      -> <<part, faceVars>>
      [] part = "connection" -> <<part, connectionVars>>
      [] part = "images"    -> <<part, imagesVars>>
      [] part = "wakechat"  -> <<part, wakeChatVars>>

-----------------------------------------------------------------------------
(* Every variable of the component that runs has its type.                  *)
AllTypesOK ==
    CASE part = "live2d"   -> TypeOK
      [] part = "editor"   -> Editor!TypeOK
      [] part = "terminal" -> Terminal!TypeOK
      [] part = "coding"   -> Coding!TypeOK
      [] part = "explorer" -> Explorer!TypeOK
      [] part = "git"      -> Git!TypeOK
      [] part = "providers" -> Providers!TypeOK
      [] part = "eyes"     -> Eyes!TypeOK
      [] part = "face"     -> Face!TypeOK
      [] part = "connection" -> Connection!TypeOK
      [] part = "images"   -> Images!TypeOK
      [] part = "wakechat" -> WakeChat!TypeOK

(* Editor: a save that overwrites a file without a conflict overwrites what *)
(* the tab has shown.                                                       *)
SilentOnlyOverSeen == Editor!SilentOnlyOverSeen

(* Editor: what the user typed is not replaced by what another one wrote.   *)
EditsSurvive == Editor!EditsSurvive

(* Terminal: Cancel ends the command of its own terminal.                   *)
CancelsItsOwn == Terminal!CancelsItsOwn

(* Coding view: the panel is about one run, and says of it what is true,    *)
(* and the model that is selected is one of the selected provider.          *)
PanelIsOfItsRun ==
    Coding!ShownIsOneRun /\ Coding!PanelAgrees /\ Providers!ModelOfItsProvider

(* Explorer and Git: the tree is of the root that is shown and holds what   *)
(* is there, and a diff is of the file that is named above it, unless it    *)
(* was asked for a panel that was closed before it came.                    *)
PanelsAreFresh == Explorer!TreeIsTheDisk /\ Git!DiffIsOfItsHeader

(* Eyes and Expression: the face comes back from what moves it.  It wears   *)
(* what the character feels once it does not think, the mouth is closed     *)
(* when nobody speaks, and the eyes are never shut for long.                *)
FaceComesBack == Face!FaceIsFelt /\ Face!MouthCloses /\ Eyes!EyesReopen

(* Connection, Images and WakeChat: a window says that it is connected when *)
(* it is, a call that was told a result was executed once, a picture that   *)
(* loads is awaited, and so is the answer of a popup that is sending.       *)
WindowIsTold ==
    /\ Connection!SaysWhatIs /\ Connection!ToldIsDone
    /\ Images!LoadingIsAwaited /\ WakeChat!SaysWhatIs
=============================================================================
