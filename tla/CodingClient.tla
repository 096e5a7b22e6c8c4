------------------------------ MODULE CodingClient ------------------------------
(***************************************************************************)
(* A run of the coding agent as its user sees it: the Run and Stop buttons *)
(* (hooks/useCodingAgentRunner.js), the panel of the run shown             *)
(* (providers/CodingProvider.jsx, store/codingStore.js, AgentPanel.jsx),   *)
(* the dialog that asks for an approval (ApprovalDialog.jsx), the drawer   *)
(* of earlier runs (SessionHistory.jsx), and the socket between them and   *)
(* the runtime (socketHandler.js).                                         *)
(*                                                                         *)
(* The runtime is that of CodingAgent.tla, seen by the events it emits: a  *)
(* run works, waits for an approval and ends at any time.  Events reach    *)
(* one socket in order; they are lost while it is disconnected, and while  *)
(* the coding view is not mounted nobody listens to them.                  *)
(***************************************************************************)
EXTENDS Naturals, Sequences

CONSTANTS
    MaxRuns,      \* BOUND: the runs that are started
    MaxApprovals, \* BOUND: the approvals that are asked for
    MaxMail,      \* BOUND: the messages under way in one direction
    Buttons       \* the Run buttons of the view, each with its own hook

CodingClientAssumption ==
    /\ {MaxRuns, MaxApprovals, MaxMail} \subseteq Nat
    /\ Buttons # {}

Runs == 1..MaxRuns
Nothing == 0

VARIABLES
    \* the runtime
    state,     \* the state of every run
    issued,    \* issued[a]: the run that asked for approval a
    pending,   \* the approval that a run waits for
    \* the socket
    connected, asks, mail,
    \* the client
    mounted,   \* the coding view is mounted
    starting,  \* the buttons whose `starting` is set
    session,   \* the run that the store has as its session
    shown,     \* the state that the panel shows for it
    activity,  \* the runs that the entries of the timeline are from
    approval,  \* pendingApproval
    detail,    \* the approval that the open record of the drawer offers
    lost       \* (ghost) an event or a request has been lost

runtime == <<state, issued, pending>>
view == <<mounted, starting, session, shown, activity, approval, detail>>
vars == <<runtime, connected, asks, mail, view, lost>>

Approvals == 0..Len(issued)
Running == shown = "RUNNING"

TypeOK ==
    /\ state \in [Runs -> {"NONE", "RUNNING", "WAITING", "ENDED"}]
    /\ issued \in Seq(Runs) /\ pending \in [Runs -> Approvals]
    /\ asks \in Seq([kind : {"run", "cancel", "approve", "deny", "get"}, of : Nat])
    /\ mail \in Seq([kind : {"start", "work", "approval", "end", "record"}, of : Nat])
    /\ Len(asks) <= MaxMail /\ Len(mail) <= MaxMail
    /\ starting \subseteq Buttons
    /\ session \in 0..MaxRuns /\ activity \subseteq Runs
    /\ shown \in {"NONE", "RUNNING", "ENDED"}
    /\ {approval, detail} \subseteq Approvals
    /\ {connected, mounted, lost} \subseteq BOOLEAN

Init ==
    /\ state = [s \in Runs |-> "NONE"] /\ issued = <<>> /\ pending = [s \in Runs |-> Nothing]
    /\ connected = TRUE /\ asks = <<>> /\ mail = <<>>
    /\ mounted = TRUE /\ starting = {} /\ session = Nothing /\ shown = "NONE"
    /\ activity = {} /\ approval = Nothing /\ detail = Nothing
    /\ lost = FALSE

(***************************************************************************)
(* The runtime and the socket                                              *)
(***************************************************************************)

\* _routeToOwner: an event goes to the socket, if there is one.
Emit(kind, of) ==
    IF connected
    THEN /\ Len(mail) < MaxMail
         /\ mail' = Append(mail, [kind |-> kind, of |-> of])
         /\ lost' = lost
    ELSE lost' = TRUE /\ mail' = mail

Works(s) ==
    /\ state[s] = "RUNNING"
    /\ Emit("work", s)
    /\ UNCHANGED <<runtime, connected, asks, view>>

AsksForApproval(s) ==
    /\ state[s] = "RUNNING" /\ Len(issued) < MaxApprovals
    /\ issued' = Append(issued, s)
    /\ pending' = [pending EXCEPT ![s] = Len(issued')]
    /\ state' = [state EXCEPT ![s] = "WAITING"]
    /\ Emit("approval", Len(issued'))
    /\ UNCHANGED <<connected, asks, view>>

Ends(s) ==
    /\ state[s] = "RUNNING"
    /\ state' = [state EXCEPT ![s] = "ENDED"]
    /\ Emit("end", s)
    /\ UNCHANGED <<issued, pending, connected, asks, view>>

\* A request is served.  What is refused is answered with an error that names
\* no run, which no handler of the client takes.
ServeRun ==
    \/ \E s \in Runs :
         /\ state[s] = "NONE" /\ \A r \in Runs : r < s => state[r] # "NONE"
         /\ state' = [state EXCEPT ![s] = "RUNNING"]
         /\ UNCHANGED <<issued, pending>>
         /\ Emit("start", s)
    \/ UNCHANGED <<runtime, mail, lost>>

Waits(a) == a # Nothing /\ state[issued[a]] = "WAITING" /\ pending[issued[a]] = a

ServeResume(a, approved) ==
    IF Waits(a)
    THEN /\ pending' = [pending EXCEPT ![issued[a]] = Nothing]
         /\ state' = [state EXCEPT ![issued[a]] = IF approved THEN "RUNNING" ELSE "ENDED"]
         /\ issued' = issued
         /\ IF approved THEN UNCHANGED <<mail, lost>> ELSE Emit("end", issued[a])
    ELSE UNCHANGED <<runtime, mail, lost>>

\* The record of a run is read: the approval in it may have been answered.
Get == (\E a \in Approvals : Emit("record", a)) /\ UNCHANGED runtime

Serve ==
    /\ connected /\ asks # <<>>
    /\ asks' = Tail(asks)
    /\ CASE Head(asks).kind = "run"     -> ServeRun
         [] Head(asks).kind = "cancel"  -> UNCHANGED <<runtime, mail, lost>>
         [] Head(asks).kind = "get"     -> Get
         [] Head(asks).kind = "approve" -> ServeResume(Head(asks).of, TRUE)
         [] Head(asks).kind = "deny"    -> ServeResume(Head(asks).of, FALSE)
    /\ UNCHANGED <<connected, view>>

\* What is under way is lost; what is asked afterwards waits for the socket.
Disconnect ==
    /\ connected
    /\ connected' = FALSE /\ asks' = <<>> /\ mail' = <<>>
    /\ lost' = (lost \/ asks # <<>> \/ mail # <<>>)
    /\ UNCHANGED <<runtime, view>>

Reconnect ==
    /\ ~connected /\ connected' = TRUE
    /\ UNCHANGED <<runtime, asks, mail, view, lost>>

(***************************************************************************)
(* The user                                                                *)
(***************************************************************************)

Ask(kind, of) ==
    /\ Len(asks) < MaxMail
    /\ asks' = Append(asks, [kind |-> kind, of |-> of])
    /\ UNCHANGED <<runtime, connected, mail, lost>>

\* The dialog covers the view: nothing else is clicked while it is open.
Clicks == mounted /\ approval = Nothing

HandleRun(b) ==
    /\ Clicks
    /\ ~(b \in starting /\ session = Nothing) /\ ~Running
    /\ starting' = starting \union {b}
    /\ Ask("run", Nothing)
    /\ UNCHANGED <<mounted, session, shown, activity, approval, detail>>

StartingTimesOut(b) ==
    /\ b \in starting /\ starting' = starting \ {b}
    /\ UNCHANGED <<runtime, connected, asks, mail, lost>>
    /\ UNCHANGED <<mounted, session, shown, activity, approval, detail>>

HandleStop == Clicks /\ Running /\ Ask("cancel", session) /\ UNCHANGED view

Respond(approved) ==
    /\ mounted /\ approval # Nothing
    /\ approval' = Nothing
    /\ Ask(IF approved THEN "approve" ELSE "deny", approval)
    /\ UNCHANGED <<mounted, starting, session, shown, activity, detail>>

OpenDetail == Clicks /\ Ask("get", Nothing) /\ UNCHANGED view

ResumeSession ==
    /\ Clicks /\ detail # Nothing
    /\ Ask("approve", detail)
    /\ UNCHANGED view

\* The user leaves the coding view, and comes back: the store stays.
Navigate ==
    /\ mounted' = ~mounted /\ starting' = {} /\ detail' = Nothing
    /\ UNCHANGED <<runtime, connected, asks, mail, lost>>
    /\ UNCHANGED <<session, shown, activity, approval>>

(***************************************************************************)
(* The events of the run                                                   *)
(***************************************************************************)

StartSession(s) ==
    session' = s /\ shown' = "RUNNING" /\ activity' = {} /\ approval' = Nothing

HandleSlip(e) ==
    CASE e.kind = "start"    -> StartSession(e.of)
      [] e.kind = "approval" -> /\ approval' = e.of
                                /\ activity' = activity \union {issued[e.of]}
                                /\ UNCHANGED <<session, shown>>
      [] e.kind = "end"      -> /\ shown' = IF session = e.of THEN "ENDED" ELSE shown
                                /\ approval' = Nothing
                                /\ UNCHANGED <<session, activity>>
      [] OTHER               -> UNCHANGED <<session, shown, approval, activity>>

\* Every handler but that of the start looks at the run of the event first.
IsCurrent(e) == session = IF e.kind = "approval" THEN issued[e.of] ELSE e.of

Handle(e) ==
    CASE e.kind = "start" -> StartSession(e.of)
      [] e.kind # "start" /\ IsCurrent(e) ->
           /\ activity' = activity \union {session}
           /\ shown' = IF e.kind = "end" THEN "ENDED" ELSE shown
           /\ approval' = CASE e.kind = "approval" -> e.of
                            [] e.kind = "end"      -> Nothing
                            [] e.kind = "work"     -> approval
           /\ session' = session
      [] OTHER -> UNCHANGED <<session, shown, approval, activity>>

Receive ==
    /\ mail # <<>> /\ mail' = Tail(mail)
    /\ CASE mounted /\ Head(mail).kind = "record" ->
              detail' = Head(mail).of /\ UNCHANGED <<session, shown, approval, activity, lost>>
         [] mounted /\ Head(mail).kind # "record" ->
              Handle(Head(mail)) /\ UNCHANGED <<detail, lost>>
         [] ~mounted ->
              lost' = TRUE /\ UNCHANGED <<session, shown, approval, activity, detail>>
    /\ UNCHANGED <<runtime, connected, asks, mounted, starting>>

Next ==
    \/ \E s \in Runs : Works(s) \/ AsksForApproval(s) \/ Ends(s)
    \/ Serve \/ Disconnect \/ Reconnect \/ Receive
    \/ \E b \in Buttons : HandleRun(b) \/ StartingTimesOut(b)
    \/ HandleStop \/ OpenDetail \/ ResumeSession \/ Navigate
    \/ \E approved \in BOOLEAN : Respond(approved)

Spec == Init /\ [][Next]_vars

(***************************************************************************)
(* Properties                                                              *)
(***************************************************************************)

\* The panel is about one run, also when another one works at the same time:
\* its timeline is of that run, a run shown as ended has ended, and an approval
\* is asked for the run shown, while it is shown as running.
ShownIsOneRun ==
    /\ activity \subseteq {session}
    /\ shown = "ENDED" => state[session] = "ENDED"
    /\ approval # Nothing => issued[approval] = session /\ Running

\* When nothing was lost and nothing is under way, the panel says of its run
\* what the runtime says, and asks for the approval that the run waits for.
PanelAgrees ==
    ~lost /\ mail = <<>> /\ asks = <<>> /\ session # Nothing =>
        /\ Running <=> state[session] # "ENDED"
        /\ approval = pending[session]

\* "already starting or running - ignore a rapid double-click": one request to
\* start a run at a time.  The code breaks it when an earlier run is shown as
\* ended (`starting && !session`), and with the button of the other panel.
OneStartAtATime ==
    \A i, j \in DOMAIN asks : asks[i].kind = "run" /\ asks[j].kind = "run" => i = j

================================================================================
