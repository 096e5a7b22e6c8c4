------------------------------ MODULE Approvals ------------------------------
(***************************************************************************)
(* What the approval handshake of the coding agent promises to the user,   *)
(* seen from outside: an action that needs approval is offered once, the   *)
(* user's first decision is the one that counts, and an approved action    *)
(* is carried out once (or found to be impossible).  The promise is that   *)
(* of the comments of CodingAgentRuntime.resume(); CodingAgent implements  *)
(* it as long as the server process lives.                                 *)
(***************************************************************************)
EXTENDS Naturals

CONSTANT Approval

VARIABLES
    status,   \* where each approval is in its life
    effects   \* how often its action took effect

Status == {"unasked", "open", "granted", "denied", "spent"}

Init ==
    /\ status = [a \in Approval |-> "unasked"]
    /\ effects = [a \in Approval |-> 0]

Become(a, from, to) ==
    /\ status[a] = from
    /\ status' = [status EXCEPT ![a] = to]

(* The agent asks. *)
Ask(a) == Become(a, "unasked", "open") /\ UNCHANGED effects

(* The user decides. *)
Grant(a) == Become(a, "open", "granted") /\ UNCHANGED effects
Deny(a)  == Become(a, "open", "denied") /\ UNCHANGED effects

(* The approved action is carried out: it takes effect or fails. *)
Act(a) ==
    /\ Become(a, "granted", "spent")
    /\ \E n \in {0, 1} : effects' = [effects EXCEPT ![a] = @ + n]

Next == \E a \in Approval : Ask(a) \/ Grant(a) \/ Deny(a) \/ Act(a)

(* An approved action does not stay undone. *)
Spec == /\ Init
        /\ [][Next]_<<status, effects>>
        /\ \A a \in Approval : WF_<<status, effects>>(Act(a))
=============================================================================
