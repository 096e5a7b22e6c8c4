------------------------------- MODULE WakePopup -------------------------------
(***************************************************************************)
(* The popup that a wake phrase opens: the main process                    *)
(* (electron/wake/wakeWindowManager.js, electron/ipc/wake.js) creates and  *)
(* shows one window, and hands it what was heard.  The window may still be *)
(* loading, hidden or gone; its page (yuna/src/wake/WakePopup.jsx) says    *)
(* "ready" when it is mounted.                                             *)
(***************************************************************************)
EXTENDS Naturals, Sequences

CONSTANT MaxHeard  \* bound: wake phrases heard, numbered from 1

WakePopupAssumption == MaxHeard \in Nat

Nothing == 0       \* no payload

VARIABLES
    window,   \* the popup window and its page
    pending,  \* _pendingPopupPayload
    inits,    \* "wake:popup:init" messages on their way to the page
    calls,    \* "wake:popup:ready" and "wake:popup:hide" on their way to main
    shown,    \* the payload that the page shows
    heard,    \* the last phrase that opened the popup
    missed    \* it was heard after the page had asked, and before the load ended

vars == <<window, pending, inits, calls, shown, heard, missed>>

NoWindow == [exists |-> FALSE, loading |-> FALSE, mounted |-> FALSE, visible |-> FALSE]

TypeOK ==
    /\ window \in [exists : BOOLEAN, loading : BOOLEAN, mounted : BOOLEAN, visible : BOOLEAN]
    /\ pending \in 0..MaxHeard
    /\ inits \in Seq(1..MaxHeard)
    /\ calls \in Seq({"ready", "hide"})
    /\ shown \in 0..MaxHeard
    /\ heard \in 0..MaxHeard
    /\ missed \in BOOLEAN

Init ==
    /\ window = NoWindow
    /\ pending = Nothing
    /\ inits = <<>>
    /\ calls = <<>>
    /\ shown = Nothing
    /\ heard = Nothing
    /\ missed = FALSE

\* _ensurePopupWindow: the window there is, or a new one that starts to load.
Ensured ==
    IF window.exists THEN window
    ELSE [exists |-> TRUE, loading |-> TRUE, mounted |-> FALSE, visible |-> FALSE]

\* The page has asked for its payload and was answered.
Asked == window.exists /\ window.mounted /\ "ready" \notin {calls[i] : i \in DOMAIN calls}

\* A payload that is only sent, and races the load of the page.
ShowPopupSlip ==
    /\ heard < MaxHeard
    /\ heard' = heard + 1
    /\ window' = [Ensured EXCEPT !.visible = TRUE]
    /\ inits' = Append(inits, heard')
    /\ missed' = (window'.loading /\ Asked)
    /\ UNCHANGED <<pending, calls, shown>>

\* wake:popup:show: the payload is kept, and sent unless the window is loading.
ShowPopup ==
    /\ heard < MaxHeard
    /\ heard' = heard + 1
    /\ window' = [Ensured EXCEPT !.visible = TRUE]
    /\ pending' = heard'
    /\ inits' = IF window'.loading THEN inits ELSE Append(inits, heard')
    /\ missed' = (window'.loading /\ Asked)
    /\ UNCHANGED <<calls, shown>>

\* The page has loaded; its component may be mounted before or after that.
Loaded ==
    /\ window.loading
    /\ window' = [window EXCEPT !.loading = FALSE]
    /\ UNCHANGED <<pending, inits, calls, shown, heard, missed>>

Mounted ==
    /\ window.exists /\ ~window.mounted
    /\ window' = [window EXCEPT !.mounted = TRUE]
    /\ calls' = Append(calls, "ready")
    /\ UNCHANGED <<pending, inits, shown, heard, missed>>

\* deliverPendingPayload.
Ready ==
    /\ calls # <<>> /\ Head(calls) = "ready"
    /\ calls' = Tail(calls)
    /\ inits' = IF pending = Nothing THEN inits ELSE Append(inits, pending)
    /\ UNCHANGED <<window, pending, shown, heard, missed>>

\* A message reaches the page, which listens once it is mounted.
InitReceived ==
    /\ inits # <<>>
    /\ inits' = Tail(inits)
    /\ shown' = IF window.mounted THEN Head(inits) ELSE shown
    /\ UNCHANGED <<window, pending, calls, heard, missed>>

\* The close button of the page, and what the main process does about it.
Close ==
    /\ window.visible /\ window.mounted
    /\ Len(calls) < 2
    /\ calls' = Append(calls, "hide")
    /\ UNCHANGED <<window, pending, inits, shown, heard, missed>>

HidePopup ==
    /\ calls # <<>> /\ Head(calls) = "hide"
    /\ calls' = Tail(calls)
    /\ window' = [window EXCEPT !.visible = FALSE]
    /\ pending' = Nothing
    /\ UNCHANGED <<inits, shown, heard, missed>>

\* A click elsewhere hides the window and keeps the payload.
Blur ==
    /\ window.visible
    /\ window' = [window EXCEPT !.visible = FALSE]
    /\ UNCHANGED <<pending, inits, calls, shown, heard, missed>>

\* The window is closed; the next phrase creates another.
Closed ==
    /\ window.exists
    /\ window' = NoWindow
    /\ inits' = <<>>
    /\ calls' = <<>>
    /\ shown' = Nothing
    /\ UNCHANGED <<pending, heard, missed>>

Next ==
    \/ ShowPopup \/ Loaded \/ Mounted \/ Ready \/ InitReceived
    \/ Close \/ HidePopup \/ Blur \/ Closed

Spec == Init /\ [][Next]_vars

\* A popup that is up and has received everything shows the phrase that opened
\* it last, "instead of racing webContents.send() against page load"
\* (showPopup, 182-191): a phrase is missed only when it is heard after the
\* page has asked for its payload and before the load of the page has ended.
LatestIsShown ==
    window.visible /\ Asked /\ inits = <<>> /\ ~missed => shown = heard
===============================================================================
