------------------------------ MODULE Coordinator ------------------------------
(***************************************************************************)
(* The coordinator of the agents (core/AgentCoordinator.js), with the      *)
(* permission service it asks and the agents it delegates to.              *)
(*                                                                         *)
(* A message of a user is planned, and each step of its plan is delegated  *)
(* over the event bus to the agent that owns the capability, after the     *)
(* user was asked when the capability is risky.  A new message of the same *)
(* user aborts the one before it.  Users share nothing, so the module      *)
(* models one of them; identifiers of tasks and requests are taken to be   *)
(* distinct, although the code draws them from the clock and one number of *)
(* a thousand.                                                             *)
(***************************************************************************)
EXTENDS Naturals, Sequences, FiniteSets

CONSTANTS
    Messages,   \* the messages of the user
    NoMessage,
    Plans,      \* the plans the planner may answer: sequences of steps
    Registered  \* the agents that bootstrap registers and that listen

\* A step is routed to an agent by the prefix of its capability, and is risky
\* when the capability is registered with a risk above "low".
ASSUME CoordinatorAssumption ==
    /\ NoMessage \notin Messages
    /\ \A p \in Plans :
          /\ Len(p) \in Nat /\ DOMAIN p = 1..Len(p)
          /\ \A i \in 1..Len(p) :
                DOMAIN p[i] = {"agent", "risky"} /\ p[i].risky \in BOOLEAN

Steps == UNION {1..Len(p) : p \in Plans}

VARIABLES
    controller,  \* activeControllers: the message that a new one would abort
    call,        \* what each call of handleUserMessage is doing
    running,     \* the tasks whose capability is being executed
    finished,    \* the tasks whose capability has ended well
    granted      \* the steps that the user allowed

vars == <<controller, call, running, finished, granted>>

Waiting == {"planning", "permission", "delegated", "resolved", "rejected"}

NoCall == [at |-> "out", plan |-> <<>>, next |-> 0, aborted |-> FALSE]

TypeOK ==
    /\ controller \in Messages \union {NoMessage}
    /\ call \in [Messages -> [at : Waiting \union {"out", "chat", "success", "failure"},
                              plan : Plans \union {<<>>},
                              next : Steps \union {0},
                              aborted : BOOLEAN]]
    /\ running \subseteq Messages \X Steps
    /\ finished \subseteq Messages \X Steps
    /\ granted \subseteq Messages \X Steps

Init ==
    /\ controller = NoMessage
    /\ call = [m \in Messages |-> NoCall]
    /\ running = {}
    /\ finished = {}
    /\ granted = {}

(***************************************************************************)
(* handleUserMessage                                                       *)
(***************************************************************************)

\* controller.abort(): the listener of the task in hand rejects its promise;
\* a call that waits for its plan or for the user only finds the signal set.
Aborted(c) ==
    [c EXCEPT !.aborted = TRUE,
              !.at = IF @ = "delegated" THEN "rejected" ELSE @]

\* A message arrives: the one that holds the entry is aborted, the new one
\* takes it.
Receive(m) ==
    /\ call[m].at = "out"
    /\ call' = [n \in Messages |->
                   IF n = m THEN [NoCall EXCEPT !.at = "planning"]
                   ELSE IF n = controller THEN Aborted(call[n])
                   ELSE call[n]]
    /\ controller' = m
    /\ UNCHANGED <<running, finished, granted>>

\* The call returns: the entry of the user is deleted, whoever put it there.
End(m, result) ==
    /\ call' = [call EXCEPT ![m].at = result]
    /\ controller' = NoMessage
    /\ UNCHANGED <<running, granted>>

\* The call c at step i of its plan.
AtStep(c, at, i, plan) ==
    [at |-> at, plan |-> plan, next |-> i, aborted |-> c.aborted]

\* The task of step i is requested; an agent that is not registered never
\* hears of it, and the timeout of the task rejects nothing, because it looks
\* for an entry of the shared context that no code writes.
Request(m, i, plan) ==
    /\ call' = [call EXCEPT ![m] = AtStep(@, "delegated", i, plan)]
    /\ running' = running \union
          (IF plan[i].agent \in Registered THEN {<<m, i>>} ELSE {})
    /\ UNCHANGED controller

\* Delegates step i to its agent, unless the call was aborted: then the plan
\* stops as it does for a step that failed.
Delegate(m, i, plan) ==
    \/ ~call[m].aborted /\ Request(m, i, plan)
    \/ /\ call[m].aborted
       /\ call' = [call EXCEPT ![m] = AtStep(@, "failure", i, plan)]
       /\ controller' = NoMessage
       /\ UNCHANGED running

\* Step i of the plan begins: a risky one first asks the user.
Begin(m, i, plan) ==
    \/ /\ plan[i].risky
       /\ call' = [call EXCEPT ![m] = AtStep(@, "permission", i, plan)]
       /\ UNCHANGED <<controller, running>>
    \/ /\ ~plan[i].risky
       /\ Delegate(m, i, plan)

\* The planner answers.  A plan without steps is left to ordinary chat, and
\* the entry of the user stays.
Planned(m, plan) ==
    /\ call[m].at = "planning"
    /\ \/ /\ plan = <<>>
          /\ call' = [call EXCEPT ![m].at = "chat"]
          /\ UNCHANGED <<controller, running>>
       \/ /\ plan # <<>>
          /\ Begin(m, 1, plan)
    /\ UNCHANGED <<finished, granted>>

\* requestPermission resolves: the user allows the step.
Granted(m) ==
    /\ call[m].at = "permission"
    /\ granted' = granted \union {<<m, call[m].next>>}
    /\ Delegate(m, call[m].next, call[m].plan)
    /\ UNCHANGED finished

\* The timer of a request does nothing for an aborted call in this one.
DeniedSlip(m) ==
    /\ call[m].at = "permission"
    /\ ~call[m].aborted
    /\ End(m, "failure")
    /\ UNCHANGED finished

\* The user refuses the step, or does not answer within a minute.
Denied(m) ==
    /\ call[m].at = "permission"
    /\ End(m, "failure")
    /\ UNCHANGED finished

\* The promise of the delegated task is settled; nobody listens any more for
\* the task of a call that was aborted.
Settle(m, i, how) ==
    call' = IF call[m].at = "delegated" /\ call[m].next = i
            THEN [call EXCEPT ![m].at = how]
            ELSE call

\* The capability returns or throws, and its agent broadcasts it.
TaskEnds(m, i) ==
    /\ <<m, i>> \in running
    /\ running' = running \ {<<m, i>>}
    /\ \/ finished' = finished \union {<<m, i>>} /\ Settle(m, i, "resolved")
       \/ UNCHANGED finished /\ Settle(m, i, "rejected")
    /\ UNCHANGED <<controller, granted>>

\* A failed step does not stop the plan in this one.
NextStepSlip(m) ==
    /\ call[m].at \in {"resolved", "rejected"}
    /\ LET i == call[m].next + 1 IN
       \/ i > Len(call[m].plan) /\ End(m, "success")
       \/ i <= Len(call[m].plan) /\ Begin(m, i, call[m].plan) /\ UNCHANGED granted
    /\ UNCHANGED finished

\* A slip: the step is counted before it is known that there is one more.
NextStepPast(m) ==
    /\ call[m].at = "resolved"
    /\ LET i == call[m].next + 1 IN
       \/ /\ i > Len(call[m].plan)
          /\ call' = [call EXCEPT ![m].at = "success", ![m].next = i]
          /\ controller' = NoMessage
          /\ UNCHANGED <<running, granted>>
       \/ i <= Len(call[m].plan) /\ Begin(m, i, call[m].plan) /\ UNCHANGED granted
    /\ UNCHANGED finished

\* The call goes on with the result of its step.
NextStep(m) ==
    /\ call[m].at = "resolved"
    /\ LET i == call[m].next + 1 IN
       \/ i > Len(call[m].plan) /\ End(m, "success")
       \/ i <= Len(call[m].plan) /\ Begin(m, i, call[m].plan) /\ UNCHANGED granted
    /\ UNCHANGED finished

\* A failed or aborted step stops the plan.
StopPlan(m) ==
    /\ call[m].at = "rejected"
    /\ End(m, "failure")
    /\ UNCHANGED finished

Next ==
    \E m \in Messages :
        \/ Receive(m)
        \/ \E p \in Plans : Planned(m, p)
        \/ Granted(m)
        \/ Denied(m)
        \/ \E i \in Steps : TaskEnds(m, i)
        \/ NextStep(m)
        \/ StopPlan(m)

(***************************************************************************)
(* The timers of the permission service and the event loop see to every    *)
(* step but the arrival of messages; a capability that was started is      *)
(* assumed to return or throw.                                             *)
(***************************************************************************)
Fairness ==
    \A m \in Messages :
        /\ WF_vars(\E p \in Plans : Planned(m, p))
        /\ WF_vars(Denied(m))
        /\ \A i \in Steps : WF_vars(TaskEnds(m, i))
        /\ WF_vars(NextStep(m))
        /\ WF_vars(StopPlan(m))

Spec == Init /\ [][Next]_vars /\ Fairness

(***************************************************************************)
(* Properties                                                              *)
(***************************************************************************)

Begun == running \union finished

\* A capability is executed for step i of a message only when every earlier
\* step ended well and the user allowed it if it is risky; and a message is
\* reported a success only when all its steps ended well.  Steps of several
\* messages, late results and answers of the user interleave, and an error or
\* a cancellation breaks out of the loop (handleUserMessage, 91-136).
StepsAreEarned ==
    /\ \A t \in Begun :
          /\ \A j \in 1..(t[2] - 1) : <<t[1], j>> \in finished
          /\ call[t[1]].plan[t[2]].risky => t \in granted
    /\ \A m \in Messages : call[m].at = "success" =>
          \A i \in 1..Len(call[m].plan) : <<m, i>> \in finished

\* Once a message was aborted none of its remaining steps is started, even if
\* the user allows one or the task in hand ends well (113, 222).
AbortedStartsNothing ==
    [][\A m \in Messages : call[m].aborted =>
          \A i \in Steps : <<m, i>> \in running' => <<m, i>> \in running]_vars

\* Every message is answered, or waits for an agent that was never registered:
\* an abort, a refusal, a timeout of the permission, a failure and a late
\* result all lead handleUserMessage to its return.
EveryMessageEnds ==
    \A m \in Messages :
        call[m].at = "planning" ~>
            \/ call[m].at \in {"chat", "success", "failure"}
            \/ /\ call[m].at = "delegated"
               /\ call[m].plan[call[m].next].agent \notin Registered

\* "Fallback timeout to prevent hanging" (235): every message is answered.
NoTaskHangs ==
    \A m \in Messages :
        call[m].at = "planning" ~> call[m].at \in {"chat", "success", "failure"}

\* "Cancel previous active task for this user" (63): when a message arrives,
\* the messages of the user that are still being handled have been aborted,
\* so that one plan at most is being carried out.
OnePlanAtATime ==
    \A m, n \in Messages :
        m # n /\ call[m].at \in Waiting /\ call[n].at \in Waiting =>
            call[m].aborted \/ call[n].aborted
===============================================================================
