-------------------------------- MODULE Browser --------------------------------
(***************************************************************************)
(* The headless browser (capabilities/BrowserCapability.js): one instance, *)
(* one list of tabs and one active index for every caller.  The callers    *)
(* are plan steps, once their permission is granted, and plugins that have *)
(* the scope "browser"; nothing keeps their calls from overlapping.        *)
(*                                                                         *)
(* Launching, opening and closing a page, and what is done on a page are   *)
(* calls of Puppeteer, which answer or fail in their own time.  The log of *)
(* visited addresses, the bookmarks and the memory are not modelled.       *)
(***************************************************************************)
EXTENDS Naturals, Sequences, FiniteSets, SequencesExt

CONSTANTS
    Calls,    \* the calls of execute that may be under way at once
    MaxPages  \* BOUND: the pages that are opened

BrowserAssumption == MaxPages \in Nat /\ IsFiniteSet(Calls)

PageIds == 1..MaxPages
None == 0

VARIABLES
    browser,    \* this.browser: how many have been launched, 0 for null
    tabs,       \* this.pages
    activeTab,  \* this.activePageIndex, counted from 0
    alive,      \* the pages that are open in a browser
    opened,     \* the pages opened so far
    act,        \* each call: what it was asked for
    at,         \* each call: what it awaits
    page,       \* each call: the page it works on
    overlapped, \* (ghost) two calls have been under way at once
    crashed     \* a browser has died

vars == <<browser, tabs, activeTab, alive, opened, act, at, page, overlapped, crashed>>

Ask == [kind : {"none", "use", "new"}] \union [kind : {"close"}, index : 0..MaxPages]

TypeOK ==
    /\ browser \in 0..Cardinality(Calls)
    /\ tabs \in Seq(PageIds)
    /\ activeTab \in 0..MaxPages
    /\ alive \subseteq 1..opened
    /\ opened \in 0..MaxPages
    /\ act \in [Calls -> Ask]
    /\ at \in [Calls -> {"idle", "launch", "first", "page", "tab", "work", "front", "close"}]
    /\ page \in [Calls -> 0..MaxPages]
    /\ {overlapped, crashed} \subseteq BOOLEAN

Init ==
    /\ browser = 0
    /\ tabs = <<>>
    /\ activeTab = 0
    /\ alive = {}
    /\ opened = 0
    /\ act = [c \in Calls |-> [kind |-> "none"]]
    /\ at = [c \in Calls |-> "idle"]
    /\ page = [c \in Calls |-> None]
    /\ overlapped = FALSE
    /\ crashed = FALSE

Under(c) == at[c] # "idle"
Awaits(c, what) == at' = [at EXCEPT ![c] = what]

Ends(c) ==
    /\ Awaits(c, "idle")
    /\ act' = [act EXCEPT ![c] = [kind |-> "none"]]
    /\ page' = [page EXCEPT ![c] = None]

\* What a call does once ensureBrowser has returned: newTab opens a page, the
\* others take the active page, or open one if there is none.
AfterBrowser(c, list, index) ==
    IF act'[c].kind = "new" THEN Awaits(c, "tab") /\ UNCHANGED page
    ELSE IF list = <<>> THEN Awaits(c, "page") /\ UNCHANGED page
    ELSE Awaits(c, "work") /\ page' = [page EXCEPT ![c] = list[index + 1]]

Begin(c) ==
    /\ at[c] = "idle"
    /\ overlapped' = (overlapped \/ \E d \in Calls : Under(d))

\* navigate, readText, search, newTab and the operations on a page.
Open(c, kind) ==
    /\ Begin(c)
    /\ act' = [act EXCEPT ![c] = [kind |-> kind]]
    /\ IF browser = 0 THEN Awaits(c, "launch") /\ UNCHANGED page
       ELSE AfterBrowser(c, tabs, activeTab)
    /\ UNCHANGED <<browser, tabs, activeTab, alive, opened, crashed>>

\* An index that is not that of a tab is refused and changes nothing.
SwitchTab(c, i) ==
    /\ Begin(c)
    /\ i < Len(tabs)
    /\ activeTab' = i
    /\ Awaits(c, "front")
    /\ UNCHANGED <<browser, tabs, alive, opened, act, page, crashed>>

CloseTab(c, i) ==
    /\ Begin(c)
    /\ i < Len(tabs)
    /\ act' = [act EXCEPT ![c] = [kind |-> "close", index |-> i]]
    /\ Awaits(c, "close")
    /\ page' = [page EXCEPT ![c] = tabs[i + 1]]
    /\ UNCHANGED <<browser, tabs, activeTab, alive, opened, crashed>>

-----------------------------------------------------------------------------
(* Puppeteer answers                                                        *)

Launched(c) ==
    /\ at[c] = "launch"
    /\ browser' = browser + 1
    /\ Awaits(c, "first")
    /\ UNCHANGED <<tabs, activeTab, alive, opened, act, page, overlapped, crashed>>

\* newPage, for whichever caller of it.
Made(c, from) ==
    /\ at[c] = from
    /\ ~crashed
    /\ opened < MaxPages
    /\ opened' = opened + 1
    /\ alive' = alive \union {opened'}
    /\ tabs' = Append(tabs, opened')
    /\ UNCHANGED <<browser, overlapped, crashed>>

\* ensureBrowser is done.
FirstPage(c) ==
    /\ Made(c, "first")
    /\ UNCHANGED <<act, activeTab>>
    /\ AfterBrowser(c, tabs', activeTab)

\* getActivePage.
ActivePage(c) ==
    /\ Made(c, "page")
    /\ activeTab' = 0
    /\ Awaits(c, "work")
    /\ page' = [page EXCEPT ![c] = tabs'[1]]
    /\ UNCHANGED act

Tabbed(c) ==
    /\ Made(c, "tab")
    /\ activeTab' = Len(tabs') - 1
    /\ Ends(c)

\* An active index that is left where it was.
ClosedSlip(c) ==
    /\ at[c] = "close"
    /\ ~crashed
    /\ alive' = alive \ {page[c]}
    /\ tabs' = IF act[c].index < Len(tabs) THEN RemoveAt(tabs, act[c].index + 1) ELSE tabs
    /\ Ends(c)
    /\ UNCHANGED <<browser, activeTab, opened, overlapped, crashed>>

\* The tab at the index is taken out, whichever tab that is by now.
Closed(c) ==
    /\ at[c] = "close"
    /\ ~crashed
    /\ alive' = alive \ {page[c]}
    /\ tabs' = IF act[c].index < Len(tabs) THEN RemoveAt(tabs, act[c].index + 1) ELSE tabs
    /\ activeTab' = IF activeTab < Len(tabs') THEN activeTab
                    ELSE IF tabs' = <<>> THEN 0 ELSE Len(tabs') - 1
    /\ Ends(c)
    /\ UNCHANGED <<browser, opened, overlapped, crashed>>

\* What was asked of a page or of its window is done.
Works(c) ==
    /\ at[c] \in {"work", "front"}
    /\ Ends(c)
    /\ UNCHANGED <<browser, tabs, activeTab, alive, opened, overlapped, crashed>>

\* A call of Puppeteer rejects, and with it the operation.
Rejects(c) ==
    /\ Under(c)
    /\ Ends(c)
    /\ UNCHANGED <<browser, tabs, activeTab, alive, opened, overlapped, crashed>>

\* The browsers that run die; nobody listens for that, and none is launched
\* in their place.
Crash ==
    /\ browser > 0 /\ ~crashed
    /\ \A c \in Calls : at[c] # "launch"
    /\ crashed' = TRUE
    /\ alive' = {}
    /\ UNCHANGED <<browser, tabs, activeTab, opened, act, at, page, overlapped>>

Next ==
    \/ \E c \in Calls :
          \/ \E kind \in {"use", "new"} : Open(c, kind)
          \/ \E i \in 0..MaxPages : SwitchTab(c, i) \/ CloseTab(c, i)
          \/ Launched(c) \/ FirstPage(c) \/ ActivePage(c) \/ Tabbed(c)
          \/ Closed(c) \/ Works(c) \/ Rejects(c)
    \/ Crash

Spec == Init /\ [][Next]_vars

-----------------------------------------------------------------------------
(* However the calls overlap, the active index is that of a tab when there  *)
(* is one: getActivePage returns a page to every caller.                    *)
ActiveIsATab == tabs = <<>> \/ activeTab < Len(tabs)

(* As long as no two calls have overlapped and the browser is alive, the    *)
(* tabs are the pages that are open.                                        *)
TabsAreThePages == ~overlapped /\ ~crashed => ToSet(tabs) = alive

(* A tab that is closed does not change which page is the active one, if    *)
(* that is another.  It does not hold: a tab before the active one moves it.*)
ActiveStays ==
    [][\A c \in Calls :
          at[c] = "close" /\ tabs' \notin {tabs, <<>>} /\ ~overlapped
             => \/ page[c] = tabs[activeTab + 1]
                \/ tabs'[activeTab' + 1] = tabs[activeTab + 1]]_vars
=============================================================================
