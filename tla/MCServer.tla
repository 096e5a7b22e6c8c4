------------------------------ MODULE MCServer ------------------------------
(* What the server keeps, for TLC: one of the components runs, the others   *)
(* stay as they begin.  They share no state, so that each is checked as in  *)
(* a run of its own.                                                        *)
EXTENDS Memory, TLC

CONSTANTS
    Parts,  \* the components to run
    f1, f2, \* the facts
    Users, Providers, Keys, NoKey, Faults, MaxChanges,
    Requests, Pages, MaxAttempts, MaxCodes, MaxTokens, MaxAccounts,
    MaxLoads, MaxEdits,
    Emails, Tries, MaxIds, MaxLeaves,
    People, MaxAsked,
    Speakers, Turns, Undefined, MaxHistory,
    Words, Cues, MaxTexts, MaxCalm,
    Visits, MaxPages,
    Signups, Addresses, Fields, Values, Unset, NoUser, MaxUsers, NoFile

VARIABLES
    part,   \* the component that runs
    legacy, file, page, changes, chosen, excused, heirs, cut,
    account, accounts, record, codes, tokens, mailed, call, forgot, misses, spent, uses,
    edits, good, task, old, instance, active, watcher, timers, down,
    owner, made, try, local, ofWindow, win, restoring, leaving, chat, leaves,
    feature, owned, rows, ask, list, since, astray, asked,
    turn, session, felt, personality, machine, prompt, crossed,
    state, shown, calm, texts,
    browser, tabs, activeTab, alive, opened, act, stage, visited, overlapped, crashed,
    users, given, asks, answer, draft, queue

(* What one compression may make of its messages: a fact to save, or one to *)
(* note.                                                                    *)
MCDigests ==
    {<<Save(f1)>>, <<Note(f2)>>}

Settings == INSTANCE Settings
Accounts == INSTANCE Accounts WITH page <- forgot, Calls <- Requests
Plugins  == INSTANCE Plugins
Sessions == INSTANCE Sessions
Admin    == INSTANCE Admin WITH account <- feature
Mind     == INSTANCE Mind
Emotion  == INSTANCE Emotion
Browser  == INSTANCE Browser WITH Calls <- Visits, page <- visited, at <- stage
Stored   == INSTANCE FileUsers WITH
                Calls <- Signups, Emails <- Addresses, call <- asks

ASSUME ServerAssumption ==
       /\ Parts \subseteq {"settings", "memory", "accounts", "plugins", "sessions", "admin",
                          "mind", "emotion", "browser", "users"}
       /\ Settings!SettingsAssumption
       /\ Accounts!AccountsAssumption
       /\ Plugins!PluginsAssumption
       /\ Sessions!SessionsAssumption
       /\ Admin!AdminAssumption
       /\ Mind!MindAssumption
       /\ Emotion!EmotionAssumption
       /\ Browser!BrowserAssumption
       /\ Stored!FileUsersAssumption

settingsVars == <<legacy, file, page, changes, chosen, excused, heirs, cut>>
accountsVars == <<account, accounts, record, codes, tokens, mailed, call, forgot,
                  misses, spent, uses>>
pluginsVars == <<edits, good, task, old, instance, active, watcher, timers, down>>
sessionsVars == <<owner, made, try, local, ofWindow, win, restoring, leaving, chat, leaves>>
adminVars == <<feature, owned, rows, ask, list, since, astray, asked>>
mindVars == <<turn, session, felt, personality, machine, prompt, crossed>>
emotionVars == <<state, shown, calm, texts>>
browserVars == <<browser, tabs, activeTab, alive, opened, act, stage, visited, overlapped,
                 crashed>>
storeVars == <<users, given, asks, answer>>
usersVars == <<storeVars, draft, queue>>
all == <<part, vars, settingsVars, accountsVars, pluginsVars, sessionsVars, adminVars,
         mindVars, emotionVars, browserVars, usersVars>>

(* A component that does not run begins in one state only.                  *)
Start ==
    /\ part \in Parts
    /\ Init /\ Settings!Init /\ Accounts!Init /\ Plugins!Init
    /\ Sessions!Init /\ Admin!Init /\ Mind!Init /\ Emotion!Init
    /\ Browser!Init /\ Stored!FileInit
    /\ part # "settings" => ~legacy
    /\ part # "plugins" => good

(* Only the component that runs takes a step.                               *)
OthersStay ==
    /\ UNCHANGED part
    /\ part # "memory"   => UNCHANGED vars
    /\ part # "settings" => UNCHANGED settingsVars
    /\ part # "accounts" => UNCHANGED accountsVars
    /\ part # "plugins"  => UNCHANGED pluginsVars
    /\ part # "sessions" => UNCHANGED sessionsVars
    /\ part # "admin"    => UNCHANGED adminVars
    /\ part # "mind"     => UNCHANGED mindVars
    /\ part # "emotion"  => UNCHANGED emotionVars
    /\ part # "browser"  => UNCHANGED browserVars
    /\ part # "users"    => UNCHANGED usersVars

Step ==
    /\ OthersStay
    /\ CASE part = "memory"   -> Next
         [] part = "settings" -> Settings!Next
         [] part = "accounts" -> Accounts!Next
         [] part = "plugins"  -> Plugins!Next
         [] part = "sessions" -> Sessions!Next
         [] part = "admin"    -> Admin!Next
         [] part = "mind"     -> Mind!Next
         [] part = "emotion"  -> Emotion!Next
         [] part = "browser"  -> Browser!Next
         [] part = "users"    -> Stored!FileNext

Server == Start /\ [][Step]_all

(* What tells the states of a run apart: the components that do not run keep *)
(* their values.                                                            *)
Running ==
    CASE part = "memory"   -> <<part, vars>>
      [] part = "settings" -> <<part, settingsVars>>
      [] part = "accounts" -> <<part, accountsVars>>
      [] part = "plugins"  -> <<part, pluginsVars>>
      [] part = "sessions" -> <<part, sessionsVars>>
      [] part = "admin"    -> <<part, adminVars>>
      [] part = "mind"     -> <<part, mindVars>>
      [] part = "emotion"  -> <<part, emotionVars>>
      [] part = "browser"  -> <<part, browserVars>>
      [] part = "users"    -> <<part, usersVars>>

(* Compressions, Requests, Users, Tries, People and Turns have the same      *)
(* values: a state uses only one of them.                                   *)
Symmetry == Permutations(Compressions)

-----------------------------------------------------------------------------
(* Every variable of the component that runs has its type.                  *)
AllTypesOK ==
    CASE part = "memory"   -> TypeOK
      [] part = "settings" -> Settings!TypeOK
      [] part = "accounts" -> Accounts!TypeOK
      [] part = "plugins"  -> Plugins!TypeOK
      [] part = "sessions" -> Sessions!TypeOK
      [] part = "admin"    -> Admin!TypeOK
      [] part = "mind"     -> Mind!TypeOK
      [] part = "emotion"  -> Emotion!TypeOK
      [] part = "browser"  -> Browser!TypeOK
      [] part = "users"    -> Stored!FileTypeOK

(* Settings: the stored key of a provider is the one the user saved last.   *)
KeysAreAsChosen == Settings!KeysAreAsChosen

(* Settings: one user alone is given the settings of the time before users. *)
OneHeir == Settings!OneHeir

(* Settings: there is no key but the one the user saved.                    *)
KeyIsSavedByTheUser == Settings!KeyIsSavedByTheUser

(* Accounts: a one-time code is compared with a bounded number of guesses,   *)
(* the token it earns changes the password no more often than there are     *)
(* requests that overlap, and is refused once one of them has ended.        *)
CodesAreSpent ==
    [][part = "accounts" => /\ (Accounts!GuessesAreBounded)'
                            /\ (Accounts!TokensAreBounded)'
                            /\ Accounts!SpentIsRefused]_all

(* Plugins: the instance that is active is one that runs.                   *)
ActiveRuns == Plugins!ActiveRuns

(* Sessions: the chat that a window holds is of the user it shows, however   *)
(* logouts and sign-ins overlap.                                            *)
ChatIsOfItsUser == Sessions!ChatIsOfItsUser

(* Admin: a row that waits for no answer is what the account is.            *)
RowIsTheAccount == Admin!RowIsTheAccount

(* Mind and Emotion: a turn that ran alone is kept by the personality and   *)
(* the emotion, and after two minutes of silence Yuna is calm.              *)
FeelingsLast == Mind!AdaptationsAreKept /\ Emotion!CalmsDown

(* Mind: the conversation history of a prompt is what was said.             *)
HistoryIsRead == Mind!HistoryIsRead

(* Browser: every caller finds an active tab if there is one, and as long   *)
(* as no two calls overlap the tabs are the pages that are open.            *)
TabsAreKept == Browser!ActiveIsATab /\ Browser!TabsAreThePages

(* Accounts in a file: the repository over a file does what the one over    *)
(* MongoDB does, and no two accounts have the same e-mail address.          *)
AccountsAreStored ==
    [][part = "users" => [Stored!Next]_storeVars /\ (Stored!EmailsAreUnique)']_all
=============================================================================
