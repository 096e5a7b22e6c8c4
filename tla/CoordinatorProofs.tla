--------------------------- MODULE CoordinatorProofs ---------------------------
(***************************************************************************)
(* Proofs about what MCTurns runs.  The coordinator, for every set of      *)
(* messages, plans and agents: a step is executed only when it was earned  *)
(* (StepsAreEarned), and what a message that was aborted has not begun is  *)
(* not begun any more.  The wake popup, for every number of phrases: one   *)
(* that is up shows the phrase that opened it last.                        *)
(***************************************************************************)
EXTENDS MCTurns, SequenceTheorems, FiniteSetTheorems, TLAPS

\* The states of a call that stands at a step of its plan, or stopped there.
AtAStep == {"permission", "delegated", "resolved", "rejected", "success", "failure"}

\* A call stands at a step of its plan once it has one, and not before.
Standing(m) ==
    /\ call[m].at \in AtAStep => call[m].next \in 1..Len(call[m].plan)
    /\ call[m].at \notin AtAStep => call[m].next = 0

\* What has begun of a message stands no further than its call, comes after
\* steps that have ended well, and was allowed if it is risky.
Earned(m, i) ==
    /\ i \in 1..call[m].next
    /\ \A j \in 1..(i - 1) : <<m, j>> \in finished
    /\ call[m].plan[i].risky => <<m, i>> \in granted

\* The steps before the one in hand have ended well, and so has the one in
\* hand when its promise is resolved.
Behind(m) ==
    /\ call[m].at \in AtAStep => \A j \in 1..(call[m].next - 1) : <<m, j>> \in finished
    /\ call[m].at = "resolved" => <<m, call[m].next>> \in finished
    /\ call[m].at = "success" => /\ <<m, call[m].next>> \in finished
                                 /\ call[m].next = Len(call[m].plan)

\* The inductive invariant.
CoInv ==
    /\ TypeOK
    /\ \A m \in Messages : Standing(m) /\ Behind(m)
    /\ \A m \in Messages : \A i \in Steps : <<m, i>> \in Begun => Earned(m, i)

-----------------------------------------------------------------------------
\* What a plan is.
LEMMA PlanFacts ==
    ASSUME NEW p \in Plans
    PROVE  /\ Len(p) \in Nat
           /\ 1..Len(p) \subseteq Steps
           /\ \A i \in 1..Len(p) : p[i].risky \in BOOLEAN
BY CoordinatorAssumption DEF Steps

LEMMA StepsAreNumbers == \A i \in Steps : i \in Nat /\ i > 0
BY CoordinatorAssumption DEF Steps

\* What a call is made of.
Ats == Waiting \union {"out", "chat", "success", "failure"}
CallType == [at : Ats, plan : Plans \union {<<>>}, next : Steps \union {0}, aborted : BOOLEAN]

LEMMA CallTypes ==
    ASSUME TypeOK, NEW m \in Messages
    PROVE  /\ call[m] \in CallType /\ call[m].at \in Ats
           /\ call[m].plan \in Plans \union {<<>>} /\ call[m].next \in Nat
           /\ call[m].aborted \in BOOLEAN
<1>1. call[m] \in CallType
  BY DEF TypeOK, CallType, Ats
<1>2. /\ call[m].at \in Ats /\ call[m].plan \in Plans \union {<<>>}
      /\ call[m].next \in Steps \union {0} /\ call[m].aborted \in BOOLEAN
  BY <1>1 DEF CallType
<1>3. call[m].next \in Nat
  BY <1>2, StepsAreNumbers
<1> QED
  BY <1>1, <1>2, <1>3

LEMMA CallMoves ==
    ASSUME TypeOK, NEW m \in Messages, NEW a \in Ats, NEW p \in Plans, NEW i \in Steps,
           call' = [call EXCEPT ![m] = AtStep(@, a, i, p)]
    PROVE  /\ call' \in [Messages -> CallType]
           /\ call'[m].at = a /\ call'[m].next = i /\ call'[m].plan = p
           /\ \A n \in Messages : n # m => call'[n] = call[n]
<1>1. call \in [Messages -> CallType]
  BY DEF TypeOK, CallType, Ats
<1>2. AtStep(call[m], a, i, p) \in CallType
  BY CallTypes DEF AtStep, CallType
<1>3. call' = [call EXCEPT ![m] = AtStep(call[m], a, i, p)]
  BY <1>1
<1>4. call'[m] = AtStep(call[m], a, i, p)
  BY <1>1, <1>3
<1> QED
  BY <1>1, <1>2, <1>3, <1>4 DEF AtStep

\* The invariant says of the tasks what the property says.
THEOREM CoInvEarns == CoInv => StepsAreEarned
<1> SUFFICES ASSUME CoInv PROVE StepsAreEarned
  OBVIOUS
<1>1. ASSUME NEW t \in Begun
      PROVE  /\ \A j \in 1..(t[2] - 1) : <<t[1], j>> \in finished
             /\ call[t[1]].plan[t[2]].risky => t \in granted
  <2>1. PICK m \in Messages, i \in Steps : t = <<m, i>>
    BY <1>1 DEF CoInv, TypeOK, Begun
  <2>2. Earned(m, i)
    BY <1>1, <2>1 DEF CoInv
  <2> QED
    BY <2>1, <2>2 DEF Earned
<1>2. ASSUME NEW m \in Messages, call[m].at = "success"
      PROVE  \A i \in 1..Len(call[m].plan) : <<m, i>> \in finished
  <2>1. /\ call[m].next \in 1..Len(call[m].plan)
        /\ \A j \in 1..(call[m].next - 1) : <<m, j>> \in finished
        /\ <<m, call[m].next>> \in finished
        /\ call[m].next = Len(call[m].plan)
    BY <1>2 DEF CoInv, Standing, Behind, AtAStep
  <2>2. call[m].next \in Nat
    BY CallTypes DEF CoInv
  <2> QED
    BY <2>1, <2>2
<1> QED
  BY <1>1, <1>2 DEF StepsAreEarned

-----------------------------------------------------------------------------
\* A call that keeps its place keeps what it has earned, whatever else ends or
\* is allowed; so does one whose task is rejected by an abort.
LEMMA Kept ==
    ASSUME CoInv, NEW n \in Messages,
           call'[n].plan = call[n].plan, call'[n].next = call[n].next,
           \/ call'[n].at = call[n].at
           \/ call[n].at = "delegated" /\ call'[n].at = "rejected",
           finished \subseteq finished', granted \subseteq granted',
           \A i \in Steps : <<n, i>> \in Begun' => <<n, i>> \in Begun
    PROVE  /\ Standing(n)' /\ Behind(n)'
           /\ \A i \in Steps : <<n, i>> \in Begun' => Earned(n, i)'
<1>1. Standing(n) /\ Behind(n)
  BY DEF CoInv
<1>2. Standing(n)' /\ Behind(n)'
  BY <1>1 DEF Standing, Behind, AtAStep
<1>3. ASSUME NEW i \in Steps, <<n, i>> \in Begun' PROVE Earned(n, i)'
  <2>1. Earned(n, i)
    BY <1>3 DEF CoInv
  <2> QED
    BY <2>1 DEF Earned
<1> QED
  BY <1>2, <1>3

\* Step i of a plan is delegated, or refused to a call that was aborted, with
\* all the steps before it behind.
LEMMA DelegateStep ==
    ASSUME CoInv, NEW m \in Messages, NEW plan \in Plans, NEW i \in 1..Len(plan),
           \A j \in 1..(i - 1) : <<m, j>> \in finished,
           call[m].plan = plan \/ \A k \in Steps : <<m, k>> \notin Begun,
           call[m].next <= i,
           plan[i].risky => <<m, i>> \in granted',
           granted \subseteq granted', granted' \subseteq Messages \X Steps,
           finished' = finished,
           Delegate(m, i, plan)
    PROVE  CoInv'
<1> i \in Steps /\ i \in Nat
  BY PlanFacts, StepsAreNumbers
<1>1. PICK a \in {"delegated", "failure"} :
         call' = [call EXCEPT ![m] = AtStep(@, a, i, plan)]
  BY DEF Delegate, Request
<1>2. /\ running \subseteq running' /\ running' \subseteq running \union {<<m, i>>}
      /\ controller' \in {controller, NoMessage}
  BY DEF Delegate, Request
<1>3. /\ call' \in [Messages -> CallType]
      /\ call'[m].at = a /\ call'[m].next = i /\ call'[m].plan = plan
      /\ \A n \in Messages : n # m => call'[n] = call[n]
  BY <1>1, CallMoves DEF CoInv, Ats, Waiting
<1>4. TypeOK'
  BY <1>2, <1>3 DEF CoInv, TypeOK, CallType, Ats
<1>7. Standing(m)' /\ Behind(m)'
  BY <1>3 DEF Standing, Behind, AtAStep
<1>5. ASSUME NEW k \in Steps, <<m, k>> \in Begun' PROVE Earned(m, k)'
  <2>1. CASE k = i
    BY <1>3, <2>1 DEF Earned
  <2>2. CASE k # i
    <3>1. <<m, k>> \in Begun
      BY <1>2, <1>5, <2>2 DEF Begun
    <3>2. Earned(m, k) /\ call[m].plan = plan
      BY <3>1 DEF CoInv
    <3>3. k \in 1..i
      <4>1. k \in 1..call[m].next /\ call[m].next \in Nat
        BY <3>2, CallTypes DEF Earned, CoInv
      <4> QED
        BY <4>1
    <3> QED
      BY <1>3, <3>2, <3>3 DEF Earned
  <2> QED
    BY <2>1, <2>2
<1>6. ASSUME NEW n \in Messages, n # m
      PROVE  /\ Standing(n)' /\ Behind(n)'
             /\ \A k \in Steps : <<n, k>> \in Begun' => Earned(n, k)'
  <2>1. call'[n] = call[n]
    BY <1>3, <1>6
  <2>2. \A k \in Steps : <<n, k>> \in Begun' => <<n, k>> \in Begun
    BY <1>2, <1>6 DEF Begun
  <2> QED
    BY <2>1, <2>2, Kept
<1> QED
  BY <1>4, <1>5, <1>6, <1>7 DEF CoInv

\* Step i of a plan begins.
LEMMA BeginStep ==
    ASSUME CoInv, NEW m \in Messages, NEW plan \in Plans, NEW i \in 1..Len(plan),
           \A j \in 1..(i - 1) : <<m, j>> \in finished,
           call[m].plan = plan \/ \A k \in Steps : <<m, k>> \notin Begun,
           call[m].next <= i,
           granted' = granted, finished' = finished,
           Begin(m, i, plan)
    PROVE  CoInv'
<1> i \in Steps /\ i \in Nat
  BY PlanFacts, StepsAreNumbers
<1>1. CASE ~plan[i].risky /\ Delegate(m, i, plan)
  BY <1>1, DelegateStep DEF CoInv, TypeOK
<1>2. CASE /\ call' = [call EXCEPT ![m] = AtStep(@, "permission", i, plan)]
           /\ UNCHANGED <<controller, running>>
  <2>2. /\ call' \in [Messages -> CallType]
        /\ call'[m].at = "permission" /\ call'[m].next = i /\ call'[m].plan = plan
        /\ \A n \in Messages : n # m => call'[n] = call[n]
    BY <1>2, CallMoves DEF CoInv, Ats, Waiting
  <2>1. TypeOK'
    BY <1>2, <2>2 DEF CoInv, TypeOK, CallType, Ats
  <2>3. Standing(m)' /\ Behind(m)'
    BY <2>2 DEF Standing, Behind, AtAStep
  <2>4. ASSUME NEW k \in Steps, <<m, k>> \in Begun' PROVE Earned(m, k)'
    <3>1. Earned(m, k) /\ call[m].plan = plan
      BY <1>2, <2>4 DEF Begun, CoInv
    <3>2. k \in 1..i
      <4>1. k \in 1..call[m].next /\ call[m].next \in Nat
        BY <3>1, CallTypes DEF Earned, CoInv
      <4> QED
        BY <4>1
    <3> QED
      BY <2>2, <3>1, <3>2 DEF Earned
  <2>5. ASSUME NEW n \in Messages, n # m
        PROVE  /\ Standing(n)' /\ Behind(n)'
               /\ \A k \in Steps : <<n, k>> \in Begun' => Earned(n, k)'
    <3>1. call'[n] = call[n]
      BY <2>2, <2>5
    <3>2. \A k \in Steps : <<n, k>> \in Begun' => <<n, k>> \in Begun
      BY <1>2 DEF Begun
    <3> QED
      BY <3>1, <3>2, Kept
  <2> QED
    BY <2>1, <2>3, <2>4, <2>5 DEF CoInv
<1> QED
  BY <1>1, <1>2 DEF Begin

\* A call returns with a failure, or with a success behind its last step.
LEMMA EndStep ==
    ASSUME CoInv, NEW m \in Messages, NEW result \in {"success", "failure"},
           call[m].at \in {"permission", "resolved", "rejected"},
           result = "success" => /\ call[m].at = "resolved"
                                 /\ call[m].next = Len(call[m].plan),
           End(m, result), finished' = finished
    PROVE  CoInv'
<1>1. TypeOK'
  BY DEF End, CoInv, TypeOK, Waiting
<1>2. /\ call'[m].at = result /\ call'[m].next = call[m].next
      /\ call'[m].plan = call[m].plan
  BY DEF End, CoInv, TypeOK
<1>3. Begun' = Begun
  BY DEF End, Begun
<1>4. Standing(m) /\ Behind(m)
  BY DEF CoInv
<1>5. Standing(m)' /\ Behind(m)'
  BY <1>2, <1>4 DEF Standing, Behind, AtAStep
<1>6. ASSUME NEW k \in Steps, <<m, k>> \in Begun' PROVE Earned(m, k)'
  <2>1. Earned(m, k)
    BY <1>3, <1>6 DEF CoInv
  <2> QED
    BY <1>2, <2>1 DEF Earned, End
<1>7. ASSUME NEW n \in Messages, n # m
      PROVE  /\ Standing(n)' /\ Behind(n)'
             /\ \A k \in Steps : <<n, k>> \in Begun' => Earned(n, k)'
  <2>1. call'[n] = call[n] /\ granted' = granted
    BY <1>7 DEF End, CoInv, TypeOK
  <2> QED
    BY <1>3, <2>1, Kept
<1> QED
  BY <1>1, <1>5, <1>6, <1>7 DEF CoInv

-----------------------------------------------------------------------------
LEMMA InitCoInv == Init => CoInv
BY DEF Init, CoInv, TypeOK, NoCall, Waiting, Standing, Behind, AtAStep, Begun

LEMMA ReceiveStep == ASSUME CoInv, NEW m \in Messages, Receive(m) PROVE CoInv'
<1>1. TypeOK'
  <2>1. \A n \in Messages : call[n] \in CallType
    BY CallTypes DEF CoInv
  <2>2. [NoCall EXCEPT !.at = "planning"] \in CallType
    BY DEF NoCall, CallType, Ats, Waiting
  <2>3. \A n \in Messages : Aborted(call[n]) \in CallType
    BY <2>1 DEF Aborted, CallType, Ats, Waiting
  <2>4. call' \in [Messages -> CallType]
    BY <2>1, <2>2, <2>3 DEF Receive
  <2> QED
    BY <2>4 DEF Receive, CoInv, TypeOK, CallType, Ats
<1>2. Begun' = Begun
  BY DEF Receive, Begun
<1>3. /\ call'[m] = [NoCall EXCEPT !.at = "planning"]
      /\ call[m].next = 0
  BY DEF Receive, CoInv, Standing, AtAStep
<1>4. Standing(m)' /\ Behind(m)'
  BY <1>3 DEF Standing, Behind, AtAStep, NoCall
<1>5. \A k \in Steps : <<m, k>> \notin Begun
  BY <1>3, StepsAreNumbers DEF CoInv, Earned
<1>6. ASSUME NEW n \in Messages, n # m
      PROVE  /\ Standing(n)' /\ Behind(n)'
             /\ \A k \in Steps : <<n, k>> \in Begun' => Earned(n, k)'
  <2>1. /\ call'[n].plan = call[n].plan /\ call'[n].next = call[n].next
        /\ \/ call'[n].at = call[n].at
           \/ call[n].at = "delegated" /\ call'[n].at = "rejected"
        /\ finished' = finished /\ granted' = granted
    BY <1>6 DEF Receive, Aborted, CoInv, TypeOK
  <2> QED
    BY <1>2, <2>1, Kept
<1> QED
  BY <1>1, <1>2, <1>4, <1>5, <1>6 DEF CoInv

LEMMA PlannedStep ==
    ASSUME CoInv, NEW m \in Messages, NEW p \in Plans, Planned(m, p) PROVE CoInv'
<1>1. call[m].at = "planning" /\ call[m].next = 0 /\ finished' = finished /\ granted' = granted
  BY DEF Planned, CoInv, Standing, AtAStep
<1>2. \A k \in Steps : <<m, k>> \notin Begun
  BY <1>1, StepsAreNumbers DEF CoInv, Earned
<1>3. CASE p = <<>>
  <2>1. /\ call' = [call EXCEPT ![m].at = "chat"]
        /\ UNCHANGED <<controller, running>>
    BY <1>3, PlanFacts DEF Planned
  <2>2. TypeOK'
    BY <1>1, <2>1 DEF CoInv, TypeOK, Waiting
  <2>3. call'[m].at = "chat" /\ call'[m].next = 0
    BY <1>1, <2>1 DEF CoInv, TypeOK
  <2>4. Standing(m)' /\ Behind(m)'
    BY <2>3 DEF Standing, Behind, AtAStep
  <2>5. Begun' = Begun
    BY <1>1, <2>1 DEF Begun
  <2>6. ASSUME NEW n \in Messages, n # m
        PROVE  /\ Standing(n)' /\ Behind(n)'
               /\ \A k \in Steps : <<n, k>> \in Begun' => Earned(n, k)'
    <3>1. call'[n] = call[n]
      BY <2>1, <2>6 DEF CoInv, TypeOK
    <3> QED
      BY <1>1, <2>5, <3>1, Kept
  <2> QED
    BY <1>2, <2>2, <2>4, <2>5, <2>6 DEF CoInv
<1>4. CASE p # <<>>
  <2>1. Begin(m, 1, p) /\ 1 \in 1..Len(p)
    BY <1>4, CoordinatorAssumption DEF Planned
  <2> QED
    BY <1>1, <1>2, <2>1, BeginStep
<1> QED
  BY <1>3, <1>4

LEMMA GrantedStep == ASSUME CoInv, NEW m \in Messages, Granted(m) PROVE CoInv'
<1> DEFINE i == call[m].next
           plan == call[m].plan
<1>1. i \in 1..Len(plan) /\ \A j \in 1..(i - 1) : <<m, j>> \in finished
  BY DEF Granted, CoInv, Standing, Behind, AtAStep
<1>2. plan \in Plans
  BY <1>1 DEF CoInv, TypeOK
<1>3. i \in Steps /\ i \in Nat
  BY <1>1, <1>2, PlanFacts, StepsAreNumbers
<1>4. /\ granted' = granted \union {<<m, i>>} /\ finished' = finished
      /\ Delegate(m, i, plan)
  BY DEF Granted
<1>5. granted' \subseteq Messages \X Steps
  BY <1>3, <1>4 DEF CoInv, TypeOK
<1> HIDE DEF i, plan
<1>6. call[m].plan = plan /\ call[m].next <= i
  BY <1>3 DEF i, plan
<1> QED
  BY <1>1, <1>2, <1>4, <1>5, <1>6, DelegateStep

LEMMA DeniedStep == ASSUME CoInv, NEW m \in Messages, Denied(m) PROVE CoInv'
BY EndStep DEF Denied

LEMMA StopPlanStep == ASSUME CoInv, NEW m \in Messages, StopPlan(m) PROVE CoInv'
BY EndStep DEF StopPlan

LEMMA TaskEndsStep ==
    ASSUME CoInv, NEW m \in Messages, NEW i \in Steps, TaskEnds(m, i) PROVE CoInv'
<1>1. /\ <<m, i>> \in Begun
      /\ finished \subseteq finished' /\ finished' \subseteq finished \union {<<m, i>>}
      /\ controller' = controller /\ granted' = granted /\ running' = running \ {<<m, i>>}
      /\ \A n \in Messages : \A k \in Steps : <<n, k>> \in Begun' => <<n, k>> \in Begun
  BY DEF TaskEnds, Begun
<1>2. \/ call' = call
      \/ /\ call[m].at = "delegated" /\ call[m].next = i
         /\ \/ finished' = finished \union {<<m, i>>} /\ call' = [call EXCEPT ![m].at = "resolved"]
            \/ call' = [call EXCEPT ![m].at = "rejected"]
  BY DEF TaskEnds, Settle
<1>3. TypeOK'
  BY <1>1, <1>2 DEF CoInv, TypeOK, Waiting
<1>4. CASE call' = call
  BY <1>1, <1>3, <1>4, Kept DEF CoInv
<1>5. CASE /\ call[m].at = "delegated" /\ call[m].next = i
           /\ call' = [call EXCEPT ![m].at = "rejected"]
  <2>1. ASSUME NEW n \in Messages
        PROVE  /\ Standing(n)' /\ Behind(n)'
               /\ \A k \in Steps : <<n, k>> \in Begun' => Earned(n, k)'
    <3>1. /\ call'[n].plan = call[n].plan /\ call'[n].next = call[n].next
          /\ \/ call'[n].at = call[n].at
             \/ call[n].at = "delegated" /\ call'[n].at = "rejected"
      BY <1>5 DEF CoInv, TypeOK
    <3> QED
      BY <1>1, <3>1, Kept
  <2> QED
    BY <1>3, <2>1 DEF CoInv
<1>6. CASE /\ call[m].at = "delegated" /\ call[m].next = i
           /\ finished' = finished \union {<<m, i>>}
           /\ call' = [call EXCEPT ![m].at = "resolved"]
  <2>1. /\ call'[m].at = "resolved" /\ call'[m].next = i
        /\ call'[m].plan = call[m].plan
    BY <1>6 DEF CoInv, TypeOK
  <2>2. Standing(m) /\ Behind(m)
    BY DEF CoInv
  <2>3. Standing(m)' /\ Behind(m)'
    BY <1>1, <1>6, <2>1, <2>2 DEF Standing, Behind, AtAStep
  <2>4. ASSUME NEW k \in Steps, <<m, k>> \in Begun' PROVE Earned(m, k)'
    <3>1. Earned(m, k)
      BY <1>1, <2>4 DEF CoInv
    <3> QED
      BY <1>1, <1>6, <2>1, <3>1 DEF Earned
  <2>5. ASSUME NEW n \in Messages, n # m
        PROVE  /\ Standing(n)' /\ Behind(n)'
               /\ \A k \in Steps : <<n, k>> \in Begun' => Earned(n, k)'
    <3>1. call'[n] = call[n]
      BY <1>6, <2>5 DEF CoInv, TypeOK
    <3> QED
      BY <1>1, <3>1, Kept
  <2> QED
    BY <1>3, <2>3, <2>4, <2>5 DEF CoInv
<1> QED
  BY <1>2, <1>4, <1>5, <1>6

LEMMA NextStepStep == ASSUME CoInv, NEW m \in Messages, NextStep(m) PROVE CoInv'
<1> DEFINE i == call[m].next
           plan == call[m].plan
<1>1. /\ i \in 1..Len(plan) /\ <<m, i>> \in finished
      /\ \A j \in 1..(i - 1) : <<m, j>> \in finished
  BY DEF NextStep, CoInv, Standing, Behind, AtAStep
<1>2. plan \in Plans
  BY <1>1 DEF CoInv, TypeOK
<1>3. i \in Nat /\ Len(plan) \in Nat
  BY <1>1, <1>2, PlanFacts, StepsAreNumbers
<1>4. call[m].at = "resolved" /\ finished' = finished
  BY DEF NextStep
<1>5. CASE i + 1 > Len(plan) /\ End(m, "success")
  <2>1. call[m].next = Len(call[m].plan)
    BY <1>1, <1>3, <1>5
  <2> QED
    BY <1>4, <1>5, <2>1, EndStep
<1>6. CASE i + 1 <= Len(plan) /\ Begin(m, i + 1, plan) /\ granted' = granted
  <2>1. i + 1 \in 1..Len(plan) /\ call[m].next <= i + 1
    BY <1>3, <1>6
  <2>2. \A j \in 1..((i + 1) - 1) : <<m, j>> \in finished
    BY <1>1, <1>3
  <2> QED
    BY <1>2, <1>4, <1>6, <2>1, <2>2, BeginStep
<1> QED
  BY <1>5, <1>6 DEF NextStep

LEMMA StutterStep == ASSUME CoInv, UNCHANGED vars PROVE CoInv'
BY DEF CoInv, TypeOK, Standing, Behind, Earned, Begun, vars

LEMMA CoStep == ASSUME CoInv, [Next]_vars PROVE CoInv'
BY ReceiveStep, PlannedStep, GrantedStep, DeniedStep, TaskEndsStep,
   NextStepStep, StopPlanStep, StutterStep DEF Next

\* CoInv is an invariant: it holds at the start and every step keeps it.
THEOREM CoInvariance == Spec => []CoInv
<1>1. CoInv /\ [Next]_vars => CoInv'
  BY CoStep
<1> QED
  BY InitCoInv, <1>1, PTL DEF Spec

\* Types, for every plan: the position of a call stays within its plan.
THEOREM CoordinatorTypes == Spec => []TypeOK
<1>1. CoInv => TypeOK
  BY DEF CoInv
<1> QED
  BY CoInvariance, <1>1, PTL

\* A task is executed only when the steps before it have ended well and it was
\* allowed if it is risky; a success is one of all the steps.
THEOREM Earns == Spec => []StepsAreEarned
BY CoInvariance, CoInvEarns, PTL

\* A message that was aborted has no further task executed.
THEOREM AbortedIsOver == Spec => AbortedStartsNothing
<1>1. ASSUME TypeOK, [Next]_vars, NEW m \in Messages, call[m].aborted,
             NEW i \in Steps, <<m, i>> \in running'
      PROVE  <<m, i>> \in running
  <2>1. ASSUME NEW n \in Messages, NEW k, NEW p, Delegate(n, k, p)
        PROVE  <<m, i>> \in running
    BY <1>1, <2>1 DEF Delegate, Request
  <2>2. CASE \E n \in Messages : \E p \in Plans : Planned(n, p)
    BY <1>1, <2>1, <2>2 DEF Planned, Begin
  <2>3. CASE \E n \in Messages : Granted(n)
    BY <1>1, <2>1, <2>3 DEF Granted
  <2>4. CASE \E n \in Messages : NextStep(n)
    BY <1>1, <2>1, <2>4 DEF NextStep, Begin, End
  <2>5. CASE \E n \in Messages : Receive(n) \/ Denied(n) \/ StopPlan(n)
    BY <1>1, <2>5 DEF Receive, Denied, StopPlan, End
  <2>6. CASE \E n \in Messages, k \in Steps : TaskEnds(n, k)
    BY <1>1, <2>6 DEF TaskEnds
  <2>7. CASE UNCHANGED vars
    BY <1>1, <2>7 DEF vars
  <2> QED
    BY <1>1, <2>2, <2>3, <2>4, <2>5, <2>6, <2>7 DEF Next
<1>2. TypeOK /\ [Next]_vars =>
         [\A m \in Messages : call[m].aborted =>
             \A i \in Steps : <<m, i>> \in running' => <<m, i>> \in running]_vars
  BY <1>1
<1> QED
  BY CoordinatorTypes, <1>2, PTL DEF AbortedStartsNothing, Spec

-----------------------------------------------------------------------------
(* The wake popup.                                                         *)


(* A popup that is up belongs to the phrase that is kept, and once its page  *)
(* has asked, that phrase is shown or the last that is on its way.           *)
PopupInv ==
    /\ WakePopup!TypeOK
    /\ window.visible => window.exists /\ pending = heard /\ heard # WakePopup!Nothing
    /\ window.visible /\ WakePopup!Asked /\ ~missed =>
          IF inits = <<>> THEN shown = heard ELSE inits[Len(inits)] = heard

LEMMA PopupStep == ASSUME WakePopup!WakePopupAssumption, PopupInv, WakePopup!Next PROVE PopupInv'
  <1>t. /\ window \in [exists : BOOLEAN, loading : BOOLEAN, mounted : BOOLEAN, visible : BOOLEAN]
        /\ pending \in 0 .. MaxHeard /\ inits \in Seq(1 .. MaxHeard)
        /\ calls \in Seq({"ready", "hide"})
        /\ shown \in 0 .. MaxHeard /\ heard \in 0 .. MaxHeard /\ missed \in BOOLEAN
        /\ MaxHeard \in Nat
    BY DEF PopupInv, WakePopup!TypeOK, WakePopup!WakePopupAssumption
  <1>1. CASE WakePopup!ShowPopup
    <2>1. /\ heard < MaxHeard /\ heard' = heard + 1 /\ window' = [WakePopup!Ensured EXCEPT !.visible = TRUE]
          /\ pending' = heard' /\ UNCHANGED <<calls, shown>>
          /\ inits' = (IF window'.loading THEN inits ELSE Append(inits, heard'))
          /\ missed' = (window'.loading /\ WakePopup!Asked)
      BY <1>1 DEF WakePopup!ShowPopup
    <2>2. WakePopup!Ensured \in [exists : BOOLEAN, loading : BOOLEAN, mounted : BOOLEAN, visible : BOOLEAN]
          /\ WakePopup!Ensured.exists /\ (window.exists => WakePopup!Ensured = window)
          /\ (~window.exists => ~WakePopup!Ensured.mounted)
      BY <1>t DEF WakePopup!Ensured
    <2>3. window' \in [exists : BOOLEAN, loading : BOOLEAN, mounted : BOOLEAN, visible : BOOLEAN]
          /\ window'.exists /\ window'.mounted = WakePopup!Ensured.mounted /\ window'.visible
      BY <2>1, <2>2
    <2>4. heard' \in 1 .. MaxHeard BY <1>t, <2>1
    <2>5. inits' \in Seq(1 .. MaxHeard)
          /\ (~window'.loading => inits' # <<>> /\ inits'[Len(inits')] = heard')
      <3>1. CASE window'.loading BY <1>t, <2>1, <3>1
      <3>2. CASE ~window'.loading
        <4>1. inits' = Append(inits, heard') BY <2>1, <3>2
        <4> QED BY <1>t, <2>4, <3>2, <4>1, AppendProperties
      <3> QED BY <3>1, <3>2
    <2>6. missed' \in BOOLEAN BY <1>t, <2>1, <2>3 DEF WakePopup!Asked
    <2>7. WakePopup!TypeOK' BY <1>t, <2>1, <2>3, <2>4, <2>5, <2>6 DEF WakePopup!TypeOK
    <2>8. WakePopup!Asked' => WakePopup!Asked BY <2>1, <2>2, <2>3 DEF WakePopup!Asked
    <2> QED BY <2>1, <2>3, <2>4, <2>5, <2>7, <2>8 DEF PopupInv, WakePopup!Nothing
  <1>2. CASE WakePopup!Loaded
    <2>1. /\ window' = [window EXCEPT !.loading = FALSE]
          /\ UNCHANGED <<pending, inits, calls, shown, heard, missed>>
      BY <1>2 DEF WakePopup!Loaded
    <2>2. window' \in [exists : BOOLEAN, loading : BOOLEAN, mounted : BOOLEAN, visible : BOOLEAN]
          /\ window'.exists = window.exists /\ window'.mounted = window.mounted
          /\ window'.visible = window.visible
      BY <1>t, <2>1
    <2>3. WakePopup!Asked' = WakePopup!Asked BY <2>1, <2>2 DEF WakePopup!Asked
    <2> QED BY <1>t, <2>1, <2>2, <2>3 DEF PopupInv, WakePopup!TypeOK
  <1>3. CASE WakePopup!Mounted
    <2>1. /\ window' = [window EXCEPT !.mounted = TRUE] /\ calls' = Append(calls, "ready")
          /\ UNCHANGED <<pending, inits, shown, heard, missed>>
      BY <1>3 DEF WakePopup!Mounted
    <2>2. window' \in [exists : BOOLEAN, loading : BOOLEAN, mounted : BOOLEAN, visible : BOOLEAN]
          /\ window'.exists = window.exists /\ window'.visible = window.visible
      BY <1>t, <2>1
    <2>3. calls' \in Seq({"ready", "hide"}) /\ Len(calls') \in DOMAIN calls' /\ calls'[Len(calls')] = "ready"
      BY <1>t, <2>1, AppendProperties
    <2>4. ~WakePopup!Asked' BY <2>3 DEF WakePopup!Asked
    <2> QED BY <1>t, <2>1, <2>2, <2>3, <2>4 DEF PopupInv, WakePopup!TypeOK
  <1>4. CASE WakePopup!Ready
    <2>1. /\ calls # <<>> /\ calls' = Tail(calls) /\ UNCHANGED <<window, pending, shown, heard, missed>>
          /\ inits' = (IF pending = WakePopup!Nothing THEN inits ELSE Append(inits, pending))
      BY <1>4 DEF WakePopup!Ready
    <2>2. calls' \in Seq({"ready", "hide"}) BY <1>t, <2>1, HeadTailProperties
    <2>3. inits' \in Seq(1 .. MaxHeard)
          /\ (pending # WakePopup!Nothing => inits' # <<>> /\ inits'[Len(inits')] = pending)
      <3>1. CASE pending = WakePopup!Nothing BY <1>t, <2>1, <3>1
      <3>2. CASE pending # WakePopup!Nothing
        <4>1. inits' = Append(inits, pending) BY <2>1, <3>2
        <4>2. pending \in 1 .. MaxHeard BY <1>t, <3>2 DEF WakePopup!Nothing
        <4> QED BY <1>t, <3>2, <4>1, <4>2, AppendProperties
      <3> QED BY <3>1, <3>2
    <2> QED BY <1>t, <2>1, <2>2, <2>3 DEF PopupInv, WakePopup!TypeOK
  <1>5. CASE WakePopup!InitReceived
    <2>1. /\ inits # <<>> /\ inits' = Tail(inits)
          /\ shown' = (IF window.mounted THEN Head(inits) ELSE shown)
          /\ UNCHANGED <<window, pending, calls, heard, missed>>
      BY <1>5 DEF WakePopup!InitReceived
    <2>2. /\ inits' \in Seq(1 .. MaxHeard) /\ Head(inits) \in 1 .. MaxHeard /\ Head(inits) = inits[1]
          /\ Len(inits') = Len(inits) - 1
          /\ \A i \in 1 .. Len(inits') : inits'[i] = inits[i + 1]
      BY <1>t, <2>1, HeadTailProperties
    <2>3. shown' \in 0 .. MaxHeard BY <1>t, <2>1, <2>2
    <2>4. WakePopup!Asked' = WakePopup!Asked /\ (WakePopup!Asked => window.mounted) BY <2>1 DEF WakePopup!Asked
    <2>5. Len(inits) \in Nat \ {0} BY <1>t, <2>1, EmptySeq, LenProperties
    <2>6. IF inits' = <<>> THEN inits[Len(inits)] = inits[1] ELSE inits'[Len(inits')] = inits[Len(inits)]
      <3>1. CASE inits' = <<>>
        <4>1. Len(inits') = 0 BY <3>1
        <4>2. Len(inits) = 1 BY <2>2, <2>5, <4>1
        <4> QED BY <3>1, <4>2
      <3>2. CASE inits' # <<>>
        <4>1. Len(inits') \in 1 .. Len(inits') BY <2>2, <3>2, EmptySeq, LenProperties
        <4> QED BY <2>2, <2>5, <3>2, <4>1
      <3> QED BY <3>1, <3>2
    <2>7. window.visible /\ WakePopup!Asked /\ ~missed => inits[Len(inits)] = heard BY <2>1 DEF PopupInv
    <2> QED BY <1>t, <2>1, <2>2, <2>3, <2>4, <2>6, <2>7 DEF PopupInv, WakePopup!TypeOK
  <1>6. CASE WakePopup!Close
    <2>1. calls' = Append(calls, "hide") /\ UNCHANGED <<window, pending, inits, shown, heard, missed>>
      BY <1>6 DEF WakePopup!Close
    <2>2. calls' \in Seq({"ready", "hide"})
          /\ Len(calls') = Len(calls) + 1 /\ (\A i \in 1 .. Len(calls) : calls'[i] = calls[i])
      BY <1>t, <2>1, AppendProperties
    <2>3. WakePopup!Asked' => WakePopup!Asked
      <3>1. \A i \in DOMAIN calls : i \in DOMAIN calls' /\ calls'[i] = calls[i]
        BY <1>t, <2>2, LenProperties
      <3> QED BY <2>1, <3>1 DEF WakePopup!Asked
    <2> QED BY <1>t, <2>1, <2>2, <2>3 DEF PopupInv, WakePopup!TypeOK
  <1>7. CASE WakePopup!HidePopup
    <2>1. /\ calls # <<>> /\ calls' = Tail(calls) /\ window' = [window EXCEPT !.visible = FALSE]
          /\ pending' = WakePopup!Nothing /\ UNCHANGED <<inits, shown, heard, missed>>
      BY <1>7 DEF WakePopup!HidePopup
    <2>2. window' \in [exists : BOOLEAN, loading : BOOLEAN, mounted : BOOLEAN, visible : BOOLEAN]
          /\ ~window'.visible
      BY <1>t, <2>1
    <2>3. calls' \in Seq({"ready", "hide"}) BY <1>t, <2>1, HeadTailProperties
    <2>4. pending' \in 0 .. MaxHeard BY <1>t, <2>1 DEF WakePopup!Nothing
    <2> QED BY <1>t, <2>1, <2>2, <2>3, <2>4 DEF PopupInv, WakePopup!TypeOK
  <1>8. CASE WakePopup!Blur
    <2>1. window' = [window EXCEPT !.visible = FALSE] /\ UNCHANGED <<pending, inits, calls, shown, heard, missed>>
      BY <1>8 DEF WakePopup!Blur
    <2>2. window' \in [exists : BOOLEAN, loading : BOOLEAN, mounted : BOOLEAN, visible : BOOLEAN]
          /\ ~window'.visible
      BY <1>t, <2>1
    <2> QED BY <1>t, <2>1, <2>2 DEF PopupInv, WakePopup!TypeOK
  <1>9. CASE WakePopup!Closed
    <2>1. /\ window' = WakePopup!NoWindow /\ inits' = <<>> /\ calls' = <<>> /\ shown' = WakePopup!Nothing
          /\ UNCHANGED <<pending, heard, missed>>
      BY <1>9 DEF WakePopup!Closed
    <2>2. window' \in [exists : BOOLEAN, loading : BOOLEAN, mounted : BOOLEAN, visible : BOOLEAN]
          /\ ~window'.visible
      BY <2>1 DEF WakePopup!NoWindow
    <2>3. inits' \in Seq(1 .. MaxHeard) /\ calls' \in Seq({"ready", "hide"}) /\ shown' \in 0 .. MaxHeard
      BY <1>t, <2>1 DEF WakePopup!Nothing
    <2> QED BY <1>t, <2>1, <2>2, <2>3 DEF PopupInv, WakePopup!TypeOK
  <1> QED BY <1>1, <1>2, <1>3, <1>4, <1>5, <1>6, <1>7, <1>8, <1>9 DEF WakePopup!Next

LEMMA PopupStarts == ASSUME WakePopup!WakePopupAssumption, WakePopup!Init PROVE PopupInv
  <1>1. window \in [exists : BOOLEAN, loading : BOOLEAN, mounted : BOOLEAN, visible : BOOLEAN] /\ ~window.visible
    BY DEF WakePopup!Init, WakePopup!NoWindow
  <1>2. /\ pending \in 0 .. MaxHeard /\ inits \in Seq(1 .. MaxHeard) /\ calls \in Seq({"ready", "hide"})
        /\ shown \in 0 .. MaxHeard /\ heard \in 0 .. MaxHeard
    BY DEF WakePopup!Init, WakePopup!Nothing, WakePopup!WakePopupAssumption
  <1>3. missed \in BOOLEAN BY DEF WakePopup!Init
  <1> QED BY <1>1, <1>2, <1>3 DEF PopupInv, WakePopup!TypeOK

LEMMA PopupStays == ASSUME PopupInv, UNCHANGED WakePopup!vars PROVE PopupInv'
  BY DEF WakePopup!vars, PopupInv, WakePopup!TypeOK, WakePopup!Asked

(* A popup that is up and has received everything shows the phrase that     *)
(* opened it last: showPopup keeps the payload until the page asks.         *)
THEOREM LatestStaysShown ==
    ASSUME WakePopup!WakePopupAssumption
    PROVE  WakePopup!Spec => []LatestIsShown
  <1>1. PopupInv => LatestIsShown
    BY DEF PopupInv, LatestIsShown, WakePopup!LatestIsShown
  <1>2. WakePopup!Init => PopupInv BY PopupStarts
  <1>3. PopupInv /\ [WakePopup!Next]_(WakePopup!vars) => PopupInv' BY PopupStep, PopupStays
  <1> QED BY <1>1, <1>2, <1>3, PTL DEF WakePopup!Spec

-----------------------------------------------------------------------------
(* The wake microphone.                                                     *)


Phases == {"over", "live", "ending"}
Letters == [kind : {"busy", "enabled", "settings"}, on : BOOLEAN, of : WakeMic!Owners]
Flags == [enabled : BOOLEAN, stopped : BOOLEAN, paused : BOOLEAN]
Manuals == [Mics -> [on : BOOLEAN, starts : Nat]]

(* The listener knows the session of its own that is live.                  *)
LiveIsKnown ==
    \A s \in Sessions :
        session[s].owner = Listener /\ session[s].at = "live" => current[Listener] = s

MicInv == WakeMic!TypeOK /\ LiveIsKnown /\ WakeMic!SwitchedOffIsSilent

(* Silence spelled out.                                                     *)
LEMMA SilentIs ==
    ASSUME WakeMic!TypeOK
    PROVE  WakeMic!Live(Listener) <=> \E s \in Sessions : session[s].owner = Listener /\ session[s].at = "live"
  <1>1. \A s \in Sessions : session[s] = [owner |-> session[s].owner, at |-> session[s].at]
    BY DEF WakeMic!TypeOK
  <1> QED BY <1>1 DEF WakeMic!Live

LEMMA SilentIsNext ==
    ASSUME WakeMic!TypeOK'
    PROVE  WakeMic!Live(Listener)' <=> \E s \in Sessions : session'[s].owner = Listener /\ session'[s].at = "live"
  <1>1. \A s \in Sessions : session'[s] = [owner |-> session'[s].owner, at |-> session'[s].at]
    BY DEF WakeMic!TypeOK
  <1> QED BY <1>1 DEF WakeMic!Live

(* What the types of the parts say of all of them.                          *)
LEMMA MicTypes ==
    ASSUME setting' \in BOOLEAN,
           boot' \in {"mounted", "asked", "priming", "up", "failed", "off"},
           flags' \in Flags, timer' \in BOOLEAN,
           session' \in [Sessions -> [owner : WakeMic!Owners, at : Phases]],
           current' \in [WakeMic!Owners -> Sessions \union {NoSession}],
           mic' \in Manuals, deserted' \in BOOLEAN,
           mail' \in Seq(Letters), presses' \in 0..MaxPresses
    PROVE  WakeMic!TypeOK'
  BY DEF WakeMic!TypeOK, Flags, Phases, Letters, Manuals

LEMMA MicTyped ==
    ASSUME WakeMic!TypeOK
    PROVE  /\ setting \in BOOLEAN
           /\ boot \in {"mounted", "asked", "priming", "up", "failed", "off"}
           /\ flags \in Flags /\ timer \in BOOLEAN
           /\ session \in [Sessions -> [owner : WakeMic!Owners, at : Phases]]
           /\ current \in [WakeMic!Owners -> Sessions \union {NoSession}]
           /\ mic \in Manuals /\ deserted \in BOOLEAN
           /\ mail \in Seq(Letters) /\ presses \in 0..MaxPresses
  BY DEF WakeMic!TypeOK, Flags, Phases, Letters, Manuals

(* No session of the listener begins to be live, and none that is live is   *)
(* forgotten: what an action may do besides starting the listener.          *)
Quieter ==
    /\ \A s \in Sessions : session'[s].owner = Listener /\ session'[s].at = "live" =>
          session[s].owner = Listener /\ session[s].at = "live"
    /\ \A s \in Sessions : session'[s].owner = Listener /\ session'[s].at = "live" =>
          current'[Listener] = current[Listener]

LEMMA QuietKeeps ==
    ASSUME MicInv, WakeMic!TypeOK', Quieter,
           boot' # "off" /\ ~flags'.enabled => boot # "off" /\ ~flags.enabled
    PROVE  MicInv'
  <1>1. LiveIsKnown' BY DEF MicInv, LiveIsKnown, Quieter
  <1>2. WakeMic!SwitchedOffIsSilent'
    BY SilentIs, SilentIsNext DEF MicInv, WakeMic!SwitchedOffIsSilent, WakeMic!OffIsSilent, Quieter
  <1> QED BY <1>1, <1>2 DEF MicInv

(* A session that starts is the only live one, and its owner knows it.      *)
LEMMA StartsOne ==
    ASSUME WakeMic!TypeOK, NEW o \in WakeMic!Owners, NEW s \in Sessions, WakeMic!Started(o, s)
    PROVE  /\ session' \in [Sessions -> [owner : WakeMic!Owners, at : Phases]]
           /\ current' \in [WakeMic!Owners -> Sessions \union {NoSession}]
           /\ \A t \in Sessions : session'[t].at = "live" => t = s
           /\ session'[s].owner = o
           /\ current'[o] = s
  <1>1. /\ session' = [t \in Sessions |->
              IF t = s THEN [owner |-> o, at |-> "live"]
              ELSE IF session[t].at = "live" THEN [session[t] EXCEPT !.at = "ending"]
              ELSE session[t]]
        /\ current' = [current EXCEPT ![o] = s]
    BY DEF WakeMic!Started
  <1>2. session \in [Sessions -> [owner : WakeMic!Owners, at : Phases]]
        /\ current \in [WakeMic!Owners -> Sessions \union {NoSession}]
    BY MicTyped
  <1>3. \A t \in Sessions : session[t].at = "live" => [session[t] EXCEPT !.at = "ending"].at = "ending"
        /\ [session[t] EXCEPT !.at = "ending"] \in [owner : WakeMic!Owners, at : Phases]
    BY <1>2 DEF Phases
  <1>4. [owner |-> o, at |-> "live"] \in [owner : WakeMic!Owners, at : Phases] BY DEF Phases
  <1> QED BY <1>1, <1>2, <1>3, <1>4

(* The listener starts only when it may.                                    *)
LEMMA ListenerStarts ==
    ASSUME MicInv, flags' \in Flags, WakeMic!StartRecognition(flags'),
           boot' # "off" /\ ~flags'.enabled => boot # "off" /\ ~flags.enabled,
           setting' \in BOOLEAN,
           boot' \in {"mounted", "asked", "priming", "up", "failed", "off"}, timer' \in BOOLEAN,
           mic' \in Manuals, deserted' \in BOOLEAN,
           mail' \in Seq(Letters), presses' \in 0..MaxPresses
    PROVE  MicInv'
  <1>t. WakeMic!TypeOK BY DEF MicInv
  <1>1. CASE ~WakeMic!MayListen(flags')
    <2>1. UNCHANGED <<session, current>> BY <1>1 DEF WakeMic!StartRecognition
    <2>2. WakeMic!TypeOK' BY <1>t, <2>1, MicTyped, MicTypes
    <2> QED BY <2>1, <2>2, QuietKeeps DEF Quieter
  <1>2. CASE WakeMic!MayListen(flags')
    <2>1. PICK s \in Sessions : WakeMic!Started(Listener, s) BY <1>2 DEF WakeMic!StartRecognition
    <2>2. Listener \in WakeMic!Owners BY DEF WakeMic!Owners
    <2>3. WakeMic!TypeOK' BY <1>t, <2>1, <2>2, StartsOne, MicTypes
    <2>4. LiveIsKnown' BY <1>t, <2>1, <2>2, StartsOne DEF LiveIsKnown
    <2>5. flags'.enabled BY <1>2 DEF WakeMic!MayListen
    <2> QED BY <2>3, <2>4, <2>5 DEF MicInv, WakeMic!SwitchedOffIsSilent, WakeMic!OffIsSilent
  <1> QED BY <1>1, <1>2

(* stop() of the session that an owner knows.                               *)
LEMMA EndingOne ==
    ASSUME WakeMic!WakeMicAssumption, WakeMic!TypeOK, NEW c \in Sessions \union {NoSession}, session' = WakeMic!Ending(c)
    PROVE  /\ session' \in [Sessions -> [owner : WakeMic!Owners, at : Phases]]
           /\ \A s \in Sessions : session'[s].at = "live" => session[s].at = "live" /\ s # c
           /\ \A s \in Sessions : session'[s].owner = session[s].owner
  <1>1. session \in [Sessions -> [owner : WakeMic!Owners, at : Phases]] BY MicTyped
  <1>2. CASE c = NoSession \/ session[c].at # "live"
    <2>1. session' = session BY <1>2 DEF WakeMic!Ending
    <2> QED BY <1>1, <1>2, <2>1 DEF WakeMic!WakeMicAssumption
  <1>3. CASE c # NoSession /\ session[c].at = "live"
    <2>1. session' = [session EXCEPT ![c].at = "ending"] BY <1>3 DEF WakeMic!Ending
    <2> QED BY <1>1, <1>3, <2>1 DEF Phases
  <1> QED BY <1>2, <1>3

(* The listener stops: its session no longer listens and is forgotten.      *)
LEMMA ListenerStops ==
    ASSUME WakeMic!WakeMicAssumption, MicInv, session' = WakeMic!Ending(current[Listener]),
           current' = [current EXCEPT ![Listener] = NoSession],
           setting' \in BOOLEAN, flags' \in Flags, timer' \in BOOLEAN,
           boot' \in {"mounted", "asked", "priming", "up", "failed", "off"},
           mic' \in Manuals, deserted' \in BOOLEAN,
           mail' \in Seq(Letters), presses' \in 0..MaxPresses
    PROVE  MicInv'
  <1>1. WakeMic!TypeOK /\ Listener \in WakeMic!Owners BY DEF MicInv, WakeMic!Owners
  <1>2. current \in [WakeMic!Owners -> Sessions \union {NoSession}] BY <1>1, MicTyped
  <1>3. current[Listener] \in Sessions \union {NoSession} BY <1>1, <1>2
  <1>4. current' \in [WakeMic!Owners -> Sessions \union {NoSession}] BY <1>1, <1>2
  <1>5. WakeMic!TypeOK' BY <1>1, <1>3, <1>4, EndingOne, MicTypes
  <1>6. \A s \in Sessions : ~(session'[s].owner = Listener /\ session'[s].at = "live")
    BY <1>1, <1>3, EndingOne DEF MicInv, LiveIsKnown
  <1>7. ~WakeMic!Live(Listener)' BY <1>5, <1>6, SilentIsNext
  <1> QED BY <1>5, <1>6, <1>7 DEF MicInv, LiveIsKnown, WakeMic!SwitchedOffIsSilent, WakeMic!OffIsSilent

(* A session ends and is forgotten by whoever knows it.                     *)
LEMMA SessionEnds ==
    ASSUME MicInv, NEW s \in Sessions, session' = [session EXCEPT ![s] = WakeMic!Over],
           \A o \in WakeMic!Owners : current'[o] = IF current[o] = s THEN NoSession ELSE current[o],
           current' \in [WakeMic!Owners -> Sessions \union {NoSession}],
           setting' = setting, flags' \in Flags, flags'.enabled = flags.enabled,
           timer' \in BOOLEAN, boot' = boot,
           mic' \in Manuals, deserted' \in BOOLEAN,
           mail' \in Seq(Letters), presses' \in 0..MaxPresses
    PROVE  MicInv'
  <1>1. WakeMic!TypeOK /\ Listener \in WakeMic!Owners BY DEF MicInv, WakeMic!Owners
  <1>2. session \in [Sessions -> [owner : WakeMic!Owners, at : Phases]] BY <1>1, MicTyped
  <1>3. WakeMic!Over \in [owner : WakeMic!Owners, at : Phases] /\ WakeMic!Over.at # "live" BY <1>1 DEF WakeMic!Over, Phases
  <1>4. session' \in [Sessions -> [owner : WakeMic!Owners, at : Phases]] BY <1>2, <1>3
  <1>5. WakeMic!TypeOK' BY <1>1, <1>4, MicTyped, MicTypes
  <1>6. \A t \in Sessions : session'[t].at = "live" => t # s /\ session'[t] = session[t]
    BY <1>2, <1>3
  <1>7. \A t \in Sessions : session'[t].owner = Listener /\ session'[t].at = "live" =>
            current'[Listener] = current[Listener]
    BY <1>1, <1>6 DEF MicInv, LiveIsKnown
  <1>8. Quieter BY <1>6, <1>7 DEF Quieter
  <1> QED BY <1>5, <1>8, QuietKeeps

(* Setting a flag of the listener leaves the other flags.                   *)
LEMMA FlagEnabled ==
    ASSUME NEW f \in Flags, NEW b \in BOOLEAN
    PROVE  [f EXCEPT !.enabled = b] \in Flags /\ [f EXCEPT !.enabled = b].enabled = b
  BY DEF Flags

LEMMA FlagStopped ==
    ASSUME NEW f \in Flags, NEW b \in BOOLEAN
    PROVE  [f EXCEPT !.stopped = b] \in Flags /\ [f EXCEPT !.stopped = b].enabled = f.enabled
  BY DEF Flags

LEMMA FlagPaused ==
    ASSUME NEW f \in Flags, NEW b \in BOOLEAN
    PROVE  [f EXCEPT !.paused = b] \in Flags /\ [f EXCEPT !.paused = b].enabled = f.enabled
  BY DEF Flags

(* What the manual microphones do keeps their type.                         *)
LEMMA ManualsGoOn ==
    ASSUME mic \in Manuals, NEW m \in Mics
    PROVE  /\ [mic EXCEPT ![m].on = FALSE] \in Manuals
           /\ [mic EXCEPT ![m].starts = mic[m].starts + 1] \in Manuals
           /\ [mic EXCEPT ![m] = WakeMic!AtRest] \in Manuals
  <1>1. mic[m] \in [on : BOOLEAN, starts : Nat] BY DEF Manuals
  <1>2. \A r \in [on : BOOLEAN, starts : Nat] : [mic EXCEPT ![m] = r] \in Manuals BY DEF Manuals
  <1>3. [mic[m] EXCEPT !.on = FALSE] \in [on : BOOLEAN, starts : Nat] BY <1>1
  <1>4. [mic[m] EXCEPT !.starts = mic[m].starts + 1] \in [on : BOOLEAN, starts : Nat] BY <1>1
  <1>5. WakeMic!AtRest \in [on : BOOLEAN, starts : Nat] BY DEF WakeMic!AtRest
  <1> QED BY <1>2, <1>3, <1>4, <1>5

(* A session of a hook starts for a start() that waits.                     *)
LEMMA OpenOne ==
    ASSUME WakeMic!TypeOK, NEW m \in Mics, WakeMic!Open(m)
    PROVE  mic' \in Manuals
  <1> DEFINE asked == {i \in DOMAIN mail : mail[i] = WakeMic!Busy(TRUE, m)}
  <1>1. mic \in Manuals /\ mail \in Seq(Letters) BY MicTyped
  <1>2. mic[m].starts \in Nat BY <1>1 DEF Manuals
  <1>3. WakeMic!OnTheWay(m) \in Nat
    <2>1. DOMAIN mail = 1 .. Len(mail) /\ Len(mail) \in Nat BY <1>1
    <2>2. IsFiniteSet(1 .. Len(mail)) BY <2>1, FS_Interval
    <2>3. asked \subseteq 1 .. Len(mail) BY <2>1
    <2>4. Cardinality(asked) \in Nat BY <2>2, <2>3, FS_Subset, FS_CardinalityType
    <2>5. WakeMic!OnTheWay(m) = Cardinality(asked)
      BY Zenon DEF WakeMic!OnTheWay, WakeMic!Cardinality, Cardinality
    <2> QED BY <2>4, <2>5
  <1>4. mic' = [mic EXCEPT ![m] = [on |-> TRUE, starts |-> mic[m].starts - 1]]
    BY Zenon DEF WakeMic!Open
  <1>a. WakeMic!OnTheWay(m) < mic[m].starts BY Zenon DEF WakeMic!Open
  <1>5. mic[m].starts - 1 \in Nat BY <1>2, <1>3, <1>a
  <1>6. [on |-> TRUE, starts |-> mic[m].starts - 1] \in [on : BOOLEAN, starts : Nat] BY <1>5
  <1> QED BY <1>1, <1>4, <1>6 DEF Manuals

LEMMA MicStep == ASSUME WakeMic!WakeMicAssumption, MicInv, WakeMic!Next PROVE MicInv'
  <1>t. WakeMic!TypeOK BY DEF MicInv
  <1>m. \A x \in Letters : Append(mail, x) \in Seq(Letters)
    BY <1>t, MicTyped, AppendProperties
  <1>n. mail # <<>> => Head(mail) \in Letters /\ Tail(mail) \in Seq(Letters)
    BY <1>t, MicTyped, HeadTailProperties
  <1>q. \A x \in Letters : x.on \in BOOLEAN BY DEF Letters
  <1>r. \A m \in WakeMic!Owners, b \in BOOLEAN : WakeMic!Busy(b, m) \in Letters /\ WakeMic!Enable(b) \in Letters /\ WakeMic!Reply(b) \in Letters
    BY DEF WakeMic!Busy, WakeMic!Enable, WakeMic!Reply, Letters, WakeMic!Owners
  <1>s. Mics \subseteq WakeMic!Owners /\ Listener \in WakeMic!Owners /\ Listener \notin Mics
    BY DEF WakeMic!Owners, WakeMic!WakeMicAssumption
  <1>u. presses < MaxPresses /\ presses' = presses + 1 => presses' \in 0 .. MaxPresses
    BY <1>t, MicTyped DEF WakeMic!WakeMicAssumption
  <1>1. CASE WakeMic!SettingsRead
    <2>1. mail' \in Seq(Letters)
      BY <1>1, <1>t, <1>m, <1>r, <1>s, MicTyped DEF WakeMic!SettingsRead
    <2>2. /\ boot = "mounted" /\ boot' = "asked"
          /\ UNCHANGED <<setting, flags, timer, session, current, mic, deserted, presses>>
      BY <1>1 DEF WakeMic!SettingsRead
    <2>3. WakeMic!TypeOK' BY <1>t, <2>1, <2>2, MicTyped, MicTypes
    <2> QED BY <2>2, <2>3, QuietKeeps DEF Quieter
  <1>2. CASE WakeMic!Settled
    <2>1. /\ mail # <<>> /\ flags' = [flags EXCEPT !.enabled = Head(mail).on]
          /\ boot' = (IF Head(mail).on THEN "priming" ELSE "off") /\ mail' = Tail(mail)
          /\ UNCHANGED <<setting, timer, session, current, mic, deserted, presses>>
      BY <1>2 DEF WakeMic!Settled
    <2>2. Head(mail).on \in BOOLEAN BY <2>1, <1>n, <1>q
    <2>3. flags' \in Flags /\ flags'.enabled = Head(mail).on
      <3>1. PICK b \in BOOLEAN : b = Head(mail).on BY <2>2
      <3>2. flags' = [flags EXCEPT !.enabled = b] BY <2>1, <3>1
      <3>3. flags \in Flags BY <1>t, MicTyped
      <3>4. flags' \in Flags /\ flags'.enabled = b BY <3>2, <3>3, FlagEnabled
      <3> QED BY <3>1, <3>4
    <2>4. WakeMic!TypeOK' BY <1>t, <1>n, <2>1, <2>3, MicTyped, MicTypes
    <2> QED BY <2>1, <2>3, <2>4, QuietKeeps DEF Quieter
  <1>3. CASE WakeMic!Primed
    <2>1. /\ boot = "priming" /\ boot' = "up" /\ flags' = [flags EXCEPT !.stopped = FALSE]
          /\ WakeMic!StartRecognition(flags') /\ UNCHANGED <<setting, timer, mic, mail, deserted, presses>>
      BY <1>3 DEF WakeMic!Primed
    <2>2. flags' \in Flags /\ flags'.enabled = flags.enabled
      <3>1. flags \in Flags BY <1>t, MicTyped
      <3> QED BY <2>1, <3>1, FlagStopped
    <2> QED BY <1>t, <2>1, <2>2, MicTyped, ListenerStarts
  <1>4. CASE WakeMic!NotPrimed
    <2>1. /\ boot = "priming" /\ boot' = "failed"
          /\ UNCHANGED <<setting, flags, timer, session, current, mic, mail, deserted, presses>>
      BY <1>4 DEF WakeMic!NotPrimed
    <2>2. WakeMic!TypeOK' BY <1>t, <2>1, MicTyped, MicTypes
    <2> QED BY <2>1, <2>2, QuietKeeps DEF Quieter
  <1>5. CASE WakeMic!SettingsChanged
    <2>1. mail # <<>> /\ mail' = Tail(mail) /\ UNCHANGED <<setting, boot, mic, deserted, presses>>
      BY <1>5 DEF WakeMic!SettingsChanged
    <2>2. CASE Head(mail).on
      <3>1. /\ flags' = [flags EXCEPT !.enabled = TRUE, !.stopped = FALSE]
            /\ WakeMic!StartRecognition(flags') /\ UNCHANGED timer
        BY <1>5, <2>2 DEF WakeMic!SettingsChanged
      <3>2. flags' \in Flags /\ flags'.enabled
        <4>1. flags \in Flags BY <1>t, MicTyped
        <4> QED BY <3>1, <4>1 DEF Flags
      <3> QED BY <1>t, <1>n, <2>1, <3>1, <3>2, MicTyped, ListenerStarts
    <2>3. CASE ~Head(mail).on
      <3>1. /\ flags' = [flags EXCEPT !.enabled = FALSE, !.stopped = TRUE] /\ timer' = FALSE
            /\ session' = WakeMic!Ending(current[Listener])
            /\ current' = [current EXCEPT ![Listener] = NoSession]
        BY <1>5, <2>3 DEF WakeMic!SettingsChanged
      <3>2. flags' \in Flags
        <4>1. flags \in Flags BY <1>t, MicTyped
        <4> QED BY <3>1, <4>1 DEF Flags
      <3> QED BY <1>t, <1>n, <2>1, <3>1, <3>2, MicTyped, ListenerStops
    <2> QED BY <2>2, <2>3
  <1>6. CASE WakeMic!BusyChanged
    <2>1. mail # <<>> /\ mail' = Tail(mail) /\ flags' = [flags EXCEPT !.paused = Head(mail).on]
          /\ UNCHANGED <<setting, boot, mic, deserted, presses>>
      BY <1>6 DEF WakeMic!BusyChanged
    <2>2. Head(mail).on \in BOOLEAN BY <2>1, <1>n, <1>q
    <2>3. flags' \in Flags /\ flags'.enabled = flags.enabled
      <3>1. PICK b \in BOOLEAN : b = Head(mail).on BY <2>2
      <3>2. flags' = [flags EXCEPT !.paused = b] BY <2>1, <3>1
      <3>3. flags \in Flags BY <1>t, MicTyped
      <3> QED BY <3>2, <3>3, FlagPaused
    <2>4. CASE Head(mail).on
      <3>1. /\ timer' = FALSE /\ session' = WakeMic!Ending(current[Listener])
            /\ current' = [current EXCEPT ![Listener] = NoSession]
        BY <1>6, <2>4 DEF WakeMic!BusyChanged
      <3> QED BY <1>t, <1>n, <2>1, <2>3, <3>1, MicTyped, ListenerStops
    <2>5. CASE ~Head(mail).on
      <3>1. WakeMic!StartRecognition(flags') /\ UNCHANGED timer BY <1>6, <2>5 DEF WakeMic!BusyChanged
      <3> QED BY <1>t, <1>n, <2>1, <2>3, <3>1, MicTyped, ListenerStarts
    <2> QED BY <2>4, <2>5
  <1>7. CASE WakeMic!Restart
    <2>1. /\ timer' = FALSE /\ WakeMic!StartRecognition(flags) /\ flags' = flags
          /\ UNCHANGED <<setting, boot, mic, mail, deserted, presses>>
      BY <1>7 DEF WakeMic!Restart
    <2>2. WakeMic!StartRecognition(flags') BY <2>1
    <2> QED BY <1>t, <2>1, <2>2, MicTyped, ListenerStarts
  <1>8. ASSUME NEW s \in Sessions, WakeMic!Refused(s) PROVE MicInv'
    <2>1. /\ flags' = [flags EXCEPT !.stopped = TRUE] /\ session' = [session EXCEPT ![s] = WakeMic!Over]
          /\ current' = [current EXCEPT ![Listener] =
                            IF current[Listener] = s THEN NoSession ELSE current[Listener]]
          /\ UNCHANGED <<setting, boot, timer, mic, mail, deserted, presses>>
          /\ session[s].owner = Listener /\ session[s].at = "live"
      BY <1>8 DEF WakeMic!Refused
    <2>2. flags' \in Flags /\ flags'.enabled = flags.enabled
      <3>1. flags \in Flags BY <1>t, MicTyped
      <3> QED BY <2>1, <3>1, FlagStopped
    <2>3. current \in [WakeMic!Owners -> Sessions \union {NoSession}] BY <1>t, MicTyped
    <2>4. current' \in [WakeMic!Owners -> Sessions \union {NoSession}] /\ current'[Listener] # s
      BY <1>s, <2>1, <2>3 DEF WakeMic!WakeMicAssumption
    <2>5. session \in [Sessions -> [owner : WakeMic!Owners, at : Phases]] BY <1>t, MicTyped
    <2>6. WakeMic!Over \in [owner : WakeMic!Owners, at : Phases] /\ WakeMic!Over.at # "live" BY <1>s DEF WakeMic!Over, Phases
    <2>7. session' \in [Sessions -> [owner : WakeMic!Owners, at : Phases]] BY <2>1, <2>5, <2>6
    <2>8. WakeMic!TypeOK' BY <1>t, <2>1, <2>2, <2>4, <2>7, MicTyped, MicTypes
    <2>9. \A t \in Sessions : session'[t].at = "live" => t # s /\ session'[t] = session[t]
      BY <2>1, <2>5, <2>6
    <2>10. \A t \in Sessions : session'[t].owner = Listener /\ session'[t].at = "live" =>
              current'[Listener] = current[Listener]
      BY <1>s, <2>1, <2>3, <2>9 DEF MicInv, LiveIsKnown
    <2>11. Quieter BY <2>9, <2>10 DEF Quieter
    <2> QED BY <2>1, <2>2, <2>8, <2>11, QuietKeeps
  <1>f. \A s \in Sessions : current' = WakeMic!Forgotten(s) =>
           /\ \A o \in WakeMic!Owners : current'[o] = IF current[o] = s THEN NoSession ELSE current[o]
           /\ current' \in [WakeMic!Owners -> Sessions \union {NoSession}]
    BY <1>t, MicTyped DEF WakeMic!Forgotten
  <1>9. ASSUME NEW s \in Sessions, WakeMic!ListenerEnds(s) PROVE MicInv'
    <2>1. /\ timer' = (timer \/ WakeMic!MayListen(flags)) /\ session' = [session EXCEPT ![s] = WakeMic!Over]
          /\ current' = WakeMic!Forgotten(s) /\ UNCHANGED <<setting, boot, flags, mic, mail, deserted, presses>>
      BY <1>9 DEF WakeMic!ListenerEnds
    <2>2. timer' \in BOOLEAN BY <2>1
    <2> QED BY <1>t, <1>f, <2>1, <2>2, MicTyped, SessionEnds
  <1>w. ASSUME NEW m \in Mics
        PROVE  /\ [mic EXCEPT ![m].on = FALSE] \in Manuals
               /\ [mic EXCEPT ![m].starts = mic[m].starts + 1] \in Manuals
               /\ [mic EXCEPT ![m] = WakeMic!AtRest] \in Manuals
    BY <1>t, MicTyped, ManualsGoOn
  <1>10. ASSUME NEW s \in Sessions, WakeMic!MicEnds(s) PROVE MicInv'
    <2>1. PICK m : m = session[s].owner OBVIOUS
    <2>2. /\ m \in Mics /\ mic' = [mic EXCEPT ![m].on = FALSE] /\ deserted' = FALSE
          /\ mail' = Append(mail, WakeMic!Busy(FALSE, m)) /\ session' = [session EXCEPT ![s] = WakeMic!Over]
          /\ current' = WakeMic!Forgotten(s) /\ UNCHANGED <<setting, boot, flags, timer, presses>>
      BY <1>10, <2>1 DEF WakeMic!MicEnds
    <2>3. mic' \in Manuals BY <1>w, <2>2
    <2>4. mail' \in Seq(Letters) BY <1>m, <1>r, <1>s, <2>2
    <2> QED BY <1>t, <1>f, <2>2, <2>3, <2>4, MicTyped, SessionEnds
  <1>11. ASSUME NEW m \in Mics, WakeMic!Press(m) \/ WakeMic!Stop(m) PROVE MicInv'
    <2>1. /\ presses < MaxPresses /\ presses' = presses + 1 /\ session' = WakeMic!Ending(current[m])
          /\ \/ mic' = [mic EXCEPT ![m].starts = mic[m].starts + 1]
             \/ mic' = [mic EXCEPT ![m].on = FALSE]
          /\ mail' = Append(mail, WakeMic!Busy(TRUE, m)) \/ mail' = Append(mail, WakeMic!Busy(FALSE, m))
          /\ deserted' = deserted \/ deserted' = FALSE
          /\ UNCHANGED <<setting, boot, flags, timer, current>>
      BY <1>11 DEF WakeMic!Press, WakeMic!Stop, WakeMic!Pressed
    <2>2. mic' \in Manuals /\ deserted' \in BOOLEAN BY <1>t, <1>w, <2>1, MicTyped
    <2>3. mail' \in Seq(Letters) BY <1>m, <1>r, <1>s, <2>1
    <2>4. current[m] \in Sessions \union {NoSession} BY <1>s, <1>t, MicTyped
    <2>5. presses' \in 0 .. MaxPresses BY <1>u, <2>1
    <2>6. WakeMic!TypeOK' BY <1>t, <2>1, <2>2, <2>3, <2>4, <2>5, MicTyped, EndingOne, MicTypes
    <2>7. Quieter BY <1>t, <2>1, <2>4, EndingOne DEF Quieter
    <2> QED BY <2>1, <2>6, <2>7, QuietKeeps
  <1>12. ASSUME NEW m \in Mics, WakeMic!Open(m) PROVE MicInv'
    <2>1. UNCHANGED <<setting, boot, flags, timer, mail, deserted, presses>>
      BY <1>12 DEF WakeMic!Open
    <2>2. PICK s \in Sessions : WakeMic!Started(m, s) BY <1>12 DEF WakeMic!Open
    <2>3. mic' \in Manuals BY <1>t, <1>12, OpenOne
    <2>4. WakeMic!TypeOK' BY <1>s, <1>t, <2>1, <2>2, <2>3, MicTyped, StartsOne, MicTypes
    <2>5. \A t \in Sessions : ~(session'[t].owner = Listener /\ session'[t].at = "live")
      BY <1>s, <1>t, <2>2, StartsOne
    <2>6. Quieter BY <2>5 DEF Quieter
    <2> QED BY <2>1, <2>4, <2>6, QuietKeeps
  <1>14. ASSUME NEW m \in Mics, WakeMic!Destroy(m) PROVE MicInv'
    <2>1. /\ mic' = [mic EXCEPT ![m] = WakeMic!AtRest] /\ deserted' = TRUE
          /\ session' = [s \in Sessions |-> IF session[s].owner = m THEN WakeMic!Over ELSE session[s]]
          /\ current' = [current EXCEPT ![m] = NoSession]
          /\ UNCHANGED <<setting, boot, flags, timer, mail, presses>>
      BY <1>14 DEF WakeMic!Destroy
    <2>2. mic' \in Manuals BY <1>w, <2>1
    <2>3. current \in [WakeMic!Owners -> Sessions \union {NoSession}]
          /\ session \in [Sessions -> [owner : WakeMic!Owners, at : Phases]]
      BY <1>t, MicTyped
    <2>4. WakeMic!Over \in [owner : WakeMic!Owners, at : Phases] /\ WakeMic!Over.at # "live"
      BY <1>s DEF WakeMic!Over, Phases
    <2>5. session' \in [Sessions -> [owner : WakeMic!Owners, at : Phases]]
          /\ \A s \in Sessions : session'[s].at = "live" => session'[s] = session[s]
      BY <2>1, <2>3, <2>4
    <2>6. current' \in [WakeMic!Owners -> Sessions \union {NoSession}]
          /\ current'[Listener] = current[Listener]
      BY <1>s, <2>1, <2>3
    <2>7. WakeMic!TypeOK' BY <1>t, <2>1, <2>2, <2>5, <2>6, MicTyped, MicTypes
    <2>8. Quieter BY <2>5, <2>6 DEF Quieter
    <2> QED BY <2>1, <2>7, <2>8, QuietKeeps
  <1>13. ASSUME NEW b \in BOOLEAN, WakeMic!Toggle(b) PROVE MicInv'
    <2>1. /\ presses < MaxPresses /\ presses' = presses + 1 /\ setting' = b
          /\ mail' = Append(mail, WakeMic!Enable(b))
          /\ UNCHANGED <<boot, flags, timer, session, current, mic, deserted>>
      BY <1>13 DEF WakeMic!Toggle, WakeMic!Pressed
    <2>2. mail' \in Seq(Letters) BY <1>m, <1>r, <1>s, <2>1
    <2>3. presses' \in 0 .. MaxPresses BY <1>u, <2>1
    <2>4. WakeMic!TypeOK' BY <1>t, <2>1, <2>2, <2>3, MicTyped, MicTypes
    <2> QED BY <2>1, <2>4, QuietKeeps DEF Quieter
  <1> QED BY <1>1, <1>2, <1>3, <1>4, <1>5, <1>6, <1>7, <1>8, <1>9, <1>10, <1>11, <1>12, <1>13, <1>14
    DEF WakeMic!Next

LEMMA MicStarts == ASSUME WakeMic!WakeMicAssumption, WakeMic!Init PROVE MicInv
  <1>1. WakeMic!Over \in [owner : WakeMic!Owners, at : Phases] /\ WakeMic!Over.at # "live" BY DEF WakeMic!Over, Phases, WakeMic!Owners
  <1>2. /\ session \in [Sessions -> [owner : WakeMic!Owners, at : Phases]]
        /\ \A s \in Sessions : session[s].at # "live"
    BY <1>1 DEF WakeMic!Init
  <1>3. /\ current \in [WakeMic!Owners -> Sessions \union {NoSession}]
        /\ mail \in Seq(Letters)
        /\ flags \in Flags
    BY DEF WakeMic!Init, Flags
  <1>a. mic \in Manuals
    <2>1. WakeMic!AtRest \in [on : BOOLEAN, starts : Nat] BY DEF WakeMic!AtRest
    <2> QED BY <2>1 DEF WakeMic!Init, Manuals
  <1>4. presses \in 0 .. MaxPresses BY DEF WakeMic!Init, WakeMic!WakeMicAssumption
  <1>5. setting \in BOOLEAN /\ timer \in BOOLEAN /\ deserted \in BOOLEAN /\ boot = "mounted" BY DEF WakeMic!Init
  <1>6. WakeMic!TypeOK BY <1>2, <1>3, <1>a, <1>4, <1>5 DEF WakeMic!TypeOK, Flags, Phases, Letters, Manuals
  <1> QED BY <1>2, <1>6, SilentIs DEF MicInv, LiveIsKnown, WakeMic!SwitchedOffIsSilent, WakeMic!OffIsSilent

LEMMA MicStays == ASSUME MicInv, UNCHANGED WakeMic!vars PROVE MicInv'
  <1>1. WakeMic!TypeOK' BY DEF MicInv, WakeMic!TypeOK, WakeMic!vars
  <1> QED BY <1>1, QuietKeeps DEF WakeMic!vars, Quieter

(* Wake detection that was turned off holds no live microphone, for every   *)
(* number of hooks, sessions and messages under way.                        *)
THEOREM OffIsOff == ASSUME WakeMic!WakeMicAssumption PROVE WakeMic!Spec => []WakeMic!SwitchedOffIsSilent
  <1>1. MicInv /\ [WakeMic!Next]_(WakeMic!vars) => MicInv' BY MicStep, MicStays
  <1>2. MicInv => WakeMic!SwitchedOffIsSilent BY DEF MicInv
  <1>3. WakeMic!Init => MicInv BY MicStarts
  <1> QED BY <1>1, <1>2, <1>3, PTL DEF WakeMic!Spec

-----------------------------------------------------------------------------
(* The spoken reply.                                                        *)


Stations == {"none", "started", "streaming", "ended", "done", "replied", "over", "refused"}
Elements == [src : Speech!Tracks \union {Speech!NoTrack}, phase : {"none", "asked", "starting", "sounding", "over"}]
Fates == [Speech!Tracks -> {"none", "waiting", "over", "dropped"}]

(* A source that is on its way is one of the tracks.                         *)
Sourced(e) == Speech!Pending(e) \/ e.phase = "sounding" => e.src \in Speech!Tracks

(* The types of the two halves: the audio, and what is shown.                *)
AudioTypes ==
    /\ queue \in Seq(Speech!Tracks) /\ playing \in BOOLEAN
    /\ element \in Elements /\ Sourced(element)
    /\ rejected \in Seq(Speech!Tracks) /\ fate \in Fates

ShownTypes ==
    /\ told \in [Answers -> Stations]
    /\ typing \in BOOLEAN /\ thinking \in BOOLEAN /\ listening \in BOOLEAN
    /\ machine \in Speech!States /\ engine \in Speech!States

(* The lips of a queue that plays follow the track, those of one that does   *)
(* not follow the text.                                                      *)
LipsFollow ==
    speaking => rendered \/ (playing /\ element.phase \in {"starting", "sounding"})

SpeechInv ==
    /\ AudioTypes /\ ShownTypes
    /\ rendered \in BOOLEAN /\ speaking \in BOOLEAN
    /\ LipsFollow
    /\ Speech!BusyShows

LEMMA SpeechTypes == SpeechInv => Speech!TypeOK
  BY DEF SpeechInv, AudioTypes, ShownTypes, Speech!TypeOK, Stations, Elements, Fates

(* What is heard is untouched, or what is shown is.                          *)
LEMMA HeardStays == ASSUME AudioTypes, UNCHANGED Speech!Unheard PROVE AudioTypes'
  BY DEF AudioTypes, Speech!Unheard, Elements, Fates, Sourced, Speech!Pending

LEMMA ShownStays == ASSUME ShownTypes, Speech!BusyShows, UNCHANGED Speech!Others PROVE ShownTypes' /\ Speech!BusyShows'
  BY DEF ShownTypes, Speech!Others, Speech!BusyShows

(* The machine and the engine agree on a busy character: changeState.        *)
LEMMA Changes ==
    ASSUME machine \in Speech!States, engine \in Speech!States, Speech!BusyShows, NEW s \in Speech!States, Speech!ChangeState(s)
    PROVE  machine' \in Speech!States /\ engine' \in Speech!States /\ Speech!BusyShows'
  BY DEF Speech!ChangeState, Speech!BusyShows

LEMMA Updates ==
    ASSUME Speech!SpeechAssumption, machine \in Speech!States, engine \in Speech!States, Speech!BusyShows,
           NEW mood \in Moods, Speech!EmotionUpdate(mood)
    PROVE  machine' \in Speech!States /\ engine' \in Speech!States /\ Speech!BusyShows'
  BY DEF Speech!EmotionUpdate, Speech!BusyShows, Speech!States

(* The queue moves on: it plays, or it is at the end.                        *)
LEMMA Moves ==
    ASSUME queue \in Seq(Speech!Tracks), NEW e \in Elements, Sourced(e), NEW f \in Fates,
           Speech!PlayNext(queue, e, f)
    PROVE  /\ queue' \in Seq(Speech!Tracks) /\ playing' \in BOOLEAN
           /\ element' \in Elements /\ Sourced(element') /\ fate' \in Fates
           /\ Speech!GivenUp(queue, e) \in Seq(Speech!Tracks)
  <1>1. CASE queue = <<>>
    <2>1. queue' = queue /\ playing' = FALSE /\ element' = e /\ fate' = f BY <1>1 DEF Speech!PlayNext
    <2>2. Speech!GivenUp(queue, e) = <<>> BY <1>1 DEF Speech!GivenUp
    <2>3. Speech!GivenUp(queue, e) \in Seq(Speech!Tracks) BY <2>2
    <2>4. playing' \in BOOLEAN BY <2>1
    <2> QED BY <2>1, <2>3, <2>4
  <1>2. CASE queue # <<>>
    <2>1. /\ playing' = TRUE /\ queue' = Tail(queue)
          /\ element' = [src |-> Head(queue), phase |-> "asked"]
          /\ fate' = (IF Speech!Pending(e) THEN [f EXCEPT ![e.src] = "dropped"] ELSE f)
      BY <1>2 DEF Speech!PlayNext
    <2>2. Head(queue) \in Speech!Tracks /\ Tail(queue) \in Seq(Speech!Tracks) BY <1>2, HeadTailProperties
    <2>3. element' \in Elements /\ Sourced(element') BY <2>1, <2>2 DEF Elements, Sourced
    <2>4. fate' \in Fates
      <3>1. CASE ~Speech!Pending(e) BY <2>1, <3>1
      <3>2. CASE Speech!Pending(e) BY <2>1, <3>2 DEF Fates
      <3> QED BY <3>1, <3>2
    <2>5. Speech!GivenUp(queue, e) \in Seq(Speech!Tracks)
      <3>1. CASE ~Speech!Pending(e)
        <4>1. Speech!GivenUp(queue, e) = <<>> BY <3>1 DEF Speech!GivenUp
        <4> QED BY <4>1
      <3>2. CASE Speech!Pending(e)
        <4>1. Speech!GivenUp(queue, e) = <<e.src>> BY <1>2, <3>2 DEF Speech!GivenUp
        <4>2. e.src \in Speech!Tracks BY <3>2 DEF Sourced
        <4> QED BY <4>1, <4>2
      <3> QED BY <3>1, <3>2
    <2> QED BY <2>1, <2>2, <2>3, <2>4, <2>5
  <1> QED BY <1>1, <1>2

(* A stop empties the queue and stills the lips.                             *)
LEMMA Stops ==
    ASSUME AudioTypes, Speech!Stop
    PROVE  AudioTypes' /\ speaking' = FALSE
  <1>1. /\ queue' = <<>> /\ playing' = FALSE /\ speaking' = FALSE /\ element' = Speech!Over
        /\ rejected' = (IF Speech!Pending(element) THEN <<element.src>> ELSE <<>>)
        /\ fate' = [t \in Speech!Tracks |-> IF fate[t] = "waiting" THEN "over" ELSE fate[t]]
    BY DEF Speech!Stop
  <1>2. element' \in Elements /\ Sourced(element')
    BY <1>1 DEF Speech!Over, AudioTypes, Elements, Sourced, Speech!Pending
  <1>3. fate' \in Fates BY <1>1 DEF AudioTypes, Fates
  <1>4. rejected' \in Seq(Speech!Tracks)
    <2>1. CASE Speech!Pending(element)
      <3>1. element.src \in Speech!Tracks BY <2>1 DEF AudioTypes, Sourced
      <3> QED BY <1>1, <2>1, <3>1
    <2>2. CASE ~Speech!Pending(element) BY <1>1, <2>2
    <2> QED BY <2>1, <2>2
  <1>5. queue' \in Seq(Speech!Tracks) BY <1>1
  <1> QED BY <1>1, <1>2, <1>3, <1>4, <1>5 DEF AudioTypes

LEMMA SpeechStep == ASSUME Speech!SpeechAssumption, SpeechInv, Speech!Next PROVE SpeechInv'
  <1>t. /\ AudioTypes /\ ShownTypes /\ rendered \in BOOLEAN /\ speaking \in BOOLEAN
        /\ LipsFollow /\ Speech!BusyShows
    BY DEF SpeechInv
  <1>a. /\ queue \in Seq(Speech!Tracks) /\ playing \in BOOLEAN /\ element \in Elements
        /\ Sourced(element) /\ rejected \in Seq(Speech!Tracks) /\ fate \in Fates
    BY <1>t DEF AudioTypes
  <1>s. /\ told \in [Answers -> Stations] /\ typing \in BOOLEAN /\ thinking \in BOOLEAN
        /\ listening \in BOOLEAN /\ machine \in Speech!States /\ engine \in Speech!States
    BY <1>t DEF ShownTypes
  <1>g. /\ {"idle", "thinking", "talking", "listening"} \subseteq Speech!States /\ Moods \subseteq Speech!States
    BY DEF Speech!States, Speech!Busy, Speech!SpeechAssumption
  <1>k. ASSUME UNCHANGED Speech!Others, AudioTypes', speaking' \in BOOLEAN, LipsFollow' PROVE SpeechInv'
    <2>1. ShownTypes' /\ Speech!BusyShows' BY <1>t, <1>k, ShownStays
    <2>2. rendered' = rendered BY <1>k DEF Speech!Others
    <2> QED BY <1>t, <1>k, <2>1, <2>2 DEF SpeechInv
  <1>l. ASSUME UNCHANGED Speech!Unheard, ShownTypes', Speech!BusyShows', rendered' = rendered PROVE SpeechInv'
    <2>1. AudioTypes' BY <1>t, <1>l, HeardStays
    <2>2. speaking' = speaking /\ LipsFollow' BY <1>t, <1>l DEF Speech!Unheard, LipsFollow
    <2> QED BY <1>t, <1>l, <2>1, <2>2 DEF SpeechInv
  <1>o. Speech!Over \in Elements /\ Sourced(Speech!Over) /\ ~Speech!Pending(Speech!Over)
    BY <1>a DEF Speech!Over, Elements, Sourced, Speech!Pending
  <1>1. CASE Speech!Starts
    <2>1. /\ element.phase = "asked" /\ element' = [element EXCEPT !.phase = "starting"]
          /\ playing' = TRUE /\ speaking' = TRUE /\ UNCHANGED <<queue, rejected, fate>>
          /\ UNCHANGED Speech!Others
      BY <1>1 DEF Speech!Starts
    <2>2. element' \in Elements /\ element'.phase = "starting" /\ Sourced(element')
      BY <1>a, <2>1 DEF Elements, Sourced, Speech!Pending
    <2>3. AudioTypes' BY <1>a, <2>1, <2>2 DEF AudioTypes
    <2>4. LipsFollow' BY <2>1, <2>2 DEF LipsFollow
    <2> QED BY <1>k, <2>1, <2>3, <2>4
  <1>2. CASE Speech!Sounds
    <2>1. /\ element.phase = "starting" /\ element' = [element EXCEPT !.phase = "sounding"]
          /\ UNCHANGED <<queue, playing, rejected, speaking, fate>> /\ UNCHANGED Speech!Others
      BY <1>2 DEF Speech!Sounds
    <2>2. element' \in Elements /\ element'.phase = "sounding" /\ Sourced(element')
      BY <1>a, <2>1 DEF Elements, Sourced, Speech!Pending
    <2>3. AudioTypes' BY <1>a, <2>1, <2>2 DEF AudioTypes
    <2>4. LipsFollow' BY <1>t, <2>1, <2>2 DEF LipsFollow, Speech!Others
    <2> QED BY <1>k, <1>t, <2>1, <2>3, <2>4
  <1>3. CASE Speech!Finished
    <2>1. /\ element.phase = "sounding" /\ Speech!PlayNext(queue, Speech!Over, Speech!Marked) /\ speaking' = FALSE
          /\ UNCHANGED rejected /\ UNCHANGED Speech!Others
      BY <1>3 DEF Speech!Finished
    <2>2. Speech!Marked \in Fates BY <1>a DEF Speech!Marked, Fates
    <2>3. AudioTypes' BY <1>a, <1>o, <2>1, <2>2, Moves DEF AudioTypes
    <2>4. LipsFollow' BY <2>1 DEF LipsFollow
    <2> QED BY <1>k, <2>1, <2>3, <2>4
  <1>4. CASE Speech!CannotPlay
    <2>1. /\ element.phase = "starting" /\ Speech!PlayNext(queue, Speech!Over, Speech!Marked) /\ speaking' = FALSE
          /\ rejected' = <<element.src>> /\ UNCHANGED Speech!Others
      BY <1>4 DEF Speech!CannotPlay
    <2>2. Speech!Marked \in Fates BY <1>a DEF Speech!Marked, Fates
    <2>3. element.src \in Speech!Tracks BY <1>a, <2>1 DEF Sourced, Speech!Pending
    <2>4. rejected' \in Seq(Speech!Tracks) BY <2>1, <2>3
    <2>5. AudioTypes' BY <1>a, <1>o, <2>1, <2>2, <2>4, Moves DEF AudioTypes
    <2>6. LipsFollow' BY <2>1 DEF LipsFollow
    <2> QED BY <1>k, <2>1, <2>5, <2>6
  <1>5. CASE Speech!NotAllowed
    <2>1. /\ element.phase = "asked" /\ element' = Speech!Over /\ fate' = Speech!Marked
          /\ rejected' = <<element.src>> /\ UNCHANGED <<queue, playing, speaking>> /\ UNCHANGED Speech!Others
      BY <1>5 DEF Speech!NotAllowed
    <2>2. Speech!Marked \in Fates BY <1>a DEF Speech!Marked, Fates
    <2>3. element.src \in Speech!Tracks BY <1>a, <2>1 DEF Sourced, Speech!Pending
    <2>4. rejected' \in Seq(Speech!Tracks) BY <2>1, <2>3
    <2>5. AudioTypes' BY <1>a, <1>o, <2>1, <2>2, <2>4 DEF AudioTypes
    <2>6. LipsFollow' BY <1>t, <2>1 DEF LipsFollow, Speech!Others
    <2> QED BY <1>k, <1>t, <2>1, <2>5, <2>6
  <1>6. CASE Speech!Rejected
    <2>1. /\ rejected # <<>> /\ Speech!PlayNext(queue, element, fate) /\ speaking' = FALSE
          /\ rejected' = Tail(rejected) \o Speech!GivenUp(queue, element) /\ UNCHANGED Speech!Others
      BY <1>6 DEF Speech!Rejected, Speech!Quiet
    <2>2. Tail(rejected) \in Seq(Speech!Tracks) BY <1>a, <2>1, HeadTailProperties
    <2>3. Speech!GivenUp(queue, element) \in Seq(Speech!Tracks) BY <1>a, <2>1, Moves
    <2>4. rejected' \in Seq(Speech!Tracks) BY <2>1, <2>2, <2>3, ConcatProperties
    <2>5. AudioTypes' BY <1>a, <2>1, <2>4, Moves DEF AudioTypes
    <2>6. LipsFollow' BY <2>1 DEF LipsFollow
    <2> QED BY <1>k, <2>1, <2>5, <2>6
  <1>7. CASE Speech!Render
    <2>1. /\ rendered' = typing /\ speaking' = typing
          /\ UNCHANGED <<told, typing, thinking, listening, machine, engine,
                         queue, playing, element, rejected, fate>>
      BY <1>7 DEF Speech!Render
    <2>2. AudioTypes' BY <1>a, <2>1 DEF AudioTypes, Sourced, Speech!Pending
    <2>3. ShownTypes' /\ Speech!BusyShows' BY <1>t, <1>s, <2>1 DEF ShownTypes, Speech!BusyShows
    <2>4. LipsFollow' BY <2>1 DEF LipsFollow
    <2> QED BY <1>s, <2>1, <2>2, <2>3, <2>4 DEF SpeechInv
  <1>8. ASSUME NEW a \in Answers,
               \/ Speech!ThinkingStart(a) \/ Speech!StreamStart(a) \/ Speech!StreamEnd(a)
               \/ Speech!ThinkingEnd(a) \/ Speech!Reply(a) \/ Speech!Emotion(a) \/ Speech!Fails(a)
        PROVE  SpeechInv'
    <2>1. /\ told' \in [Answers -> Stations]
          /\ UNCHANGED Speech!Unheard /\ rendered' = rendered /\ listening' = listening
          /\ typing' \in {TRUE, FALSE, typing} /\ thinking' \in {TRUE, FALSE, thinking}
      <3>1. ASSUME NEW from, NEW to \in Stations, Speech!Tell(a, from, to) PROVE told' \in [Answers -> Stations]
        BY <1>s, <3>1 DEF Speech!Tell
      <3>2. {"started", "streaming", "ended", "done", "replied", "over", "refused"} \subseteq Stations
        BY DEF Stations
      <3>3. CASE Speech!ThinkingStart(a) BY <3>1, <3>2, <3>3 DEF Speech!ThinkingStart
      <3>4. CASE Speech!StreamStart(a) BY <3>1, <3>2, <3>4 DEF Speech!StreamStart
      <3>5. CASE Speech!StreamEnd(a) BY <3>1, <3>2, <3>5 DEF Speech!StreamEnd
      <3>6. CASE Speech!ThinkingEnd(a) BY <3>1, <3>2, <3>6 DEF Speech!ThinkingEnd
      <3>7. CASE Speech!Reply(a) BY <3>1, <3>2, <3>7 DEF Speech!Reply
      <3>8. CASE Speech!Emotion(a) BY <3>1, <3>2, <3>8 DEF Speech!Emotion
      <3>9. CASE Speech!Fails(a)
        <4>1. told' = [told EXCEPT ![a] = IF told[a] = "none" THEN "refused" ELSE "over"]
          BY <3>9 DEF Speech!Fails
        <4> QED BY <1>s, <3>2, <3>9, <4>1 DEF Speech!Fails
      <3> QED BY <1>8, <3>3, <3>4, <3>5, <3>6, <3>7, <3>8, <3>9
    <2>2. machine' \in Speech!States /\ engine' \in Speech!States /\ Speech!BusyShows'
      <3>1. CASE Speech!StreamEnd(a)
        <4>1. UNCHANGED <<machine, engine>> BY <3>1 DEF Speech!StreamEnd
        <4> QED BY <1>s, <1>t, <4>1 DEF Speech!BusyShows
      <3>2. CASE Speech!Emotion(a)
        <4>1. PICK mood \in Moods : Speech!EmotionUpdate(mood) BY <3>2 DEF Speech!Emotion
        <4> QED BY <1>s, <1>t, <4>1, Updates
      <3>3. CASE Speech!ThinkingStart(a) \/ Speech!StreamStart(a) \/ Speech!ThinkingEnd(a) \/ Speech!Fails(a) \/ Speech!Reply(a)
        <4>1. PICK s \in Speech!States : Speech!ChangeState(s)
          BY <1>g, <3>3 DEF Speech!ThinkingStart, Speech!StreamStart, Speech!ThinkingEnd, Speech!Fails, Speech!Reply
        <4> QED BY <1>s, <1>t, <4>1, Changes
      <3> QED BY <1>8, <3>1, <3>2, <3>3
    <2>3. typing' \in BOOLEAN /\ thinking' \in BOOLEAN BY <1>s, <2>1
    <2>4. ShownTypes' BY <1>s, <2>1, <2>2, <2>3 DEF ShownTypes
    <2> QED BY <1>l, <2>1, <2>2, <2>4
  <1>9. CASE Speech!VoiceAudio
    <2>1. PICK t \in Speech!Tracks : Speech!Add(t) BY <1>9 DEF Speech!VoiceAudio
    <2>2. UNCHANGED Speech!Others BY <1>9 DEF Speech!VoiceAudio
    <2>3. PICK f : f = [fate EXCEPT ![t] = "waiting"] OBVIOUS
    <2>4. f \in Fates BY <1>a, <2>3 DEF Fates
    <2>5. PICK q : q = Append(queue, t) OBVIOUS
    <2>6. q \in Seq(Speech!Tracks) /\ q # <<>> /\ Head(q) \in Speech!Tracks /\ Tail(q) \in Seq(Speech!Tracks)
      BY <1>a, <2>5, AppendProperties, HeadTailProperties
    <2>7. CASE playing
      <3>1. queue' = q /\ fate' = f /\ UNCHANGED <<playing, element, rejected, speaking>>
        BY <2>1, <2>3, <2>5, <2>7 DEF Speech!Add
      <3>2. AudioTypes' BY <1>a, <2>4, <2>6, <3>1 DEF AudioTypes, Sourced, Speech!Pending
      <3>3. LipsFollow' BY <1>t, <2>2, <3>1 DEF LipsFollow, Speech!Others
      <3> QED BY <1>k, <1>t, <2>2, <3>1, <3>2, <3>3
    <2>8. CASE ~playing
      <3>1. Speech!PlayNext(q, element, f) /\ rejected' = Speech!GivenUp(q, element) /\ UNCHANGED speaking
        BY <2>1, <2>3, <2>5, <2>8 DEF Speech!Add
      <3>2. /\ playing' = TRUE /\ queue' = Tail(q) /\ element' = [src |-> Head(q), phase |-> "asked"]
            /\ fate' = (IF Speech!Pending(element) THEN [f EXCEPT ![element.src] = "dropped"] ELSE f)
        BY <2>6, <3>1 DEF Speech!PlayNext
      <3>3. element' \in Elements /\ Sourced(element') BY <2>6, <3>2 DEF Elements, Sourced
      <3>4. fate' \in Fates
        <4>1. CASE ~Speech!Pending(element) BY <2>4, <3>2, <4>1
        <4>2. CASE Speech!Pending(element) BY <2>4, <3>2, <4>2 DEF Fates
        <4> QED BY <4>1, <4>2
      <3>5. rejected' \in Seq(Speech!Tracks)
        <4>1. CASE ~Speech!Pending(element)
          <5>1. rejected' = <<>> BY <3>1, <4>1 DEF Speech!GivenUp
          <5> QED BY <5>1
        <4>2. CASE Speech!Pending(element)
          <5>1. rejected' = <<element.src>> BY <2>6, <3>1, <4>2 DEF Speech!GivenUp
          <5>2. element.src \in Speech!Tracks BY <1>a, <4>2 DEF Sourced
          <5> QED BY <5>1, <5>2
        <4> QED BY <4>1, <4>2
      <3>6. AudioTypes' BY <2>6, <3>2, <3>3, <3>4, <3>5 DEF AudioTypes
      <3>7. LipsFollow' BY <1>t, <2>2, <2>8, <3>1 DEF LipsFollow, Speech!Others
      <3> QED BY <1>k, <1>t, <2>2, <3>1, <3>6, <3>7
    <2> QED BY <1>a, <2>7, <2>8
  <1>10. CASE Speech!Disconnect
    <2>1. /\ Speech!ChangeState("idle") /\ Speech!Stop /\ UNCHANGED <<typing, thinking, listening, rendered>>
          /\ told' = [a \in Answers |-> IF told[a] = "none" THEN "none" ELSE "over"]
      BY <1>10 DEF Speech!Disconnect
    <2>2. told' \in [Answers -> Stations] BY <2>1 DEF Stations
    <2>3. machine' \in Speech!States /\ engine' \in Speech!States /\ Speech!BusyShows' BY <1>g, <1>s, <1>t, <2>1, Changes
    <2>4. ShownTypes' BY <1>s, <2>1, <2>2, <2>3 DEF ShownTypes
    <2>5. AudioTypes' /\ speaking' = FALSE BY <1>t, <2>1, Stops
    <2> QED BY <1>t, <2>1, <2>3, <2>4, <2>5 DEF SpeechInv, LipsFollow
  <1>11. CASE Speech!StopGeneration
    <2>1. /\ typing' = FALSE /\ thinking' = FALSE /\ Speech!Stop
          /\ UNCHANGED <<told, listening, machine, engine, rendered>>
      BY <1>11 DEF Speech!StopGeneration
    <2>2. ShownTypes' /\ Speech!BusyShows' BY <1>s, <1>t, <2>1 DEF ShownTypes, Speech!BusyShows
    <2>3. AudioTypes' /\ speaking' = FALSE BY <1>t, <2>1, Stops
    <2> QED BY <1>t, <2>1, <2>2, <2>3 DEF SpeechInv, LipsFollow
  <1>12. CASE Speech!SwitchOff
    <2>1. /\ listening' = FALSE /\ Speech!ChangeState("idle") /\ UNCHANGED <<told, typing, thinking, rendered>>
          /\ UNCHANGED Speech!Unheard
      BY <1>12 DEF Speech!SwitchOff
    <2>2. machine' \in Speech!States /\ engine' \in Speech!States /\ Speech!BusyShows' BY <1>g, <1>s, <1>t, <2>1, Changes
    <2>3. ShownTypes' BY <1>s, <2>1, <2>2 DEF ShownTypes
    <2> QED BY <1>l, <2>1, <2>2, <2>3
  <1>13. CASE Speech!SwitchOn
    <2>1. /\ listening' = TRUE /\ typing' = FALSE /\ thinking' = FALSE /\ machine' = "listening"
          /\ UNCHANGED <<told, rendered>>
          /\ IF typing \/ thinking THEN Speech!Stop /\ engine' = "listening"
             ELSE Speech!ChangeState("listening") /\ UNCHANGED Speech!Unheard
      BY <1>13 DEF Speech!SwitchOn
    <2>2. engine' \in Speech!States /\ machine' \in Speech!States BY <1>g, <1>s, <2>1 DEF Speech!ChangeState
    <2>3. Speech!BusyShows' BY <2>1 DEF Speech!BusyShows, Speech!Busy
    <2>4. ShownTypes' BY <1>s, <2>1, <2>2 DEF ShownTypes
    <2>5. CASE typing \/ thinking
      <3>1. AudioTypes' /\ speaking' = FALSE BY <1>t, <2>1, <2>5, Stops
      <3> QED BY <1>t, <2>1, <2>3, <2>4, <3>1 DEF SpeechInv, LipsFollow
    <2>6. CASE ~(typing \/ thinking) BY <1>l, <2>1, <2>3, <2>4, <2>6
    <2> QED BY <2>5, <2>6
  <1>14. CASE Speech!Recognised
    <2>1. /\ listening' = FALSE /\ UNCHANGED <<told, typing, thinking, machine, engine, rendered>>
          /\ UNCHANGED Speech!Unheard
      BY <1>14 DEF Speech!Recognised
    <2>2. ShownTypes' /\ Speech!BusyShows' BY <1>s, <1>t, <2>1 DEF ShownTypes, Speech!BusyShows
    <2> QED BY <1>l, <2>1, <2>2
  <1> QED BY <1>1, <1>2, <1>3, <1>4, <1>5, <1>6, <1>7, <1>8, <1>9, <1>10, <1>11, <1>12, <1>13, <1>14
          DEF Speech!Next

LEMMA SpeechStarts == ASSUME Speech!SpeechAssumption, Speech!Init PROVE SpeechInv
  <1>1. /\ queue \in Seq(Speech!Tracks) /\ rejected \in Seq(Speech!Tracks) /\ fate \in Fates /\ playing = FALSE
    BY DEF Speech!Init, Fates
  <1>2. element \in Elements /\ Sourced(element) BY DEF Speech!Init, Speech!Silence, Elements, Sourced, Speech!Pending
  <1>3. AudioTypes BY <1>1, <1>2 DEF AudioTypes
  <1>4. ShownTypes BY DEF Speech!Init, ShownTypes, Stations, Speech!States, Speech!SpeechAssumption
  <1>5. LipsFollow BY DEF Speech!Init, LipsFollow
  <1>6. Speech!BusyShows BY DEF Speech!Init, Speech!BusyShows
  <1> QED BY <1>3, <1>4, <1>5, <1>6 DEF Speech!Init, SpeechInv

LEMMA SpeechStays == ASSUME SpeechInv, UNCHANGED Speech!vars PROVE SpeechInv'
  <1>1. AudioTypes' BY HeardStays DEF SpeechInv, Speech!vars, Speech!Unheard
  <1>2. ShownTypes' /\ Speech!BusyShows' BY ShownStays DEF SpeechInv, Speech!vars, Speech!Others
  <1>3. LipsFollow' BY DEF SpeechInv, Speech!vars, LipsFollow
  <1> QED BY <1>1, <1>2, <1>3 DEF SpeechInv, Speech!vars

(* The lips rest unless a track is heard or text is written, and a busy      *)
(* character is shown as one, for every number of tracks and answers.        *)
THEOREM LipsAndMood == ASSUME Speech!SpeechAssumption PROVE Speech!Spec => [](Speech!LipsRest /\ Speech!BusyShows)
  <1>1. SpeechInv /\ [Speech!Next]_(Speech!vars) => SpeechInv' BY SpeechStep, SpeechStays
  <1>2. SpeechInv => Speech!LipsRest /\ Speech!BusyShows BY DEF SpeechInv, LipsFollow, Speech!LipsRest
  <1>3. Speech!Init => SpeechInv BY SpeechStarts
  <1> QED BY <1>1, <1>2, <1>3, PTL DEF Speech!Spec

-----------------------------------------------------------------------------
(* The server process.                                                      *)


BootTypes ==
    /\ mongo \in BOOLEAN
    /\ stage \in 0 .. 7
    /\ port \in {"no", "asked", "yes", "closed"}
    /\ watched \in {"no", "yes", "stray"}
    /\ reload \in BOOLEAN
    /\ store \in {"disconnected", "connected", "disconnecting"}
    /\ shutdown \in [Signals -> {"none", "watchers", "store", "requests"}]
    /\ request \in [Requests -> {"none", "open", "asks", "answered", "cut"}]
    /\ failing \in BOOLEAN
    /\ end \in {"none", "ok", "error", "killed"}

(* The store is closed, was not to be closed, or some shutdown waits for it. *)
StoreSeen == store = "disconnected" \/ failing \/ \E s \in Signals : shutdown[s] = "store"

(* A signal is handled once the boot is over, so that only a hot reload can *)
(* watch again; a shutdown that waits for the requests has tried to close   *)
(* the watchers and seen to the store.                                      *)
BootInv ==
    /\ BootTypes
    /\ \A s \in Signals : shutdown[s] # "none" => stage = 7
    /\ end = "none" /\ port # "no" => stage = 7
    /\ \A s \in Signals : shutdown[s] = "requests" => StoreSeen
    /\ \A s \in Signals : shutdown[s] \in {"store", "requests"} => watched # "yes"
    /\ store = "disconnecting" => \E s \in Signals : shutdown[s] = "store"
    /\ end = "none" => \A r \in Requests : request[r] # "cut"
    /\ Boot!EndsWell

LEMMA SevenStages == Len(Boot!Stages) = 7
  BY DEF Boot!Stages

LEMMA BootTypesAre == Boot!TypeOK <=> BootTypes
  BY SevenStages DEF Boot!TypeOK, BootTypes

LEMMA BootExits ==
    ASSUME BootInv, ~Boot!Ended, NEW how \in {"error", "killed"}, Boot!Exit(how),
           UNCHANGED <<mongo, stage, shutdown, failing>>
    PROVE  BootInv'
  <1>1. /\ end' = how /\ port' = "closed" /\ watched' = "no" /\ reload' = FALSE
        /\ store' = "disconnected"
        /\ request' = [r \in Requests |-> IF Boot!Open(r) THEN "cut" ELSE request[r]]
    BY DEF Boot!Exit
  <1>2. request' \in [Requests -> {"none", "open", "asks", "answered", "cut"}]
    BY <1>1 DEF BootInv, BootTypes
  <1>3. BootTypes' BY <1>1, <1>2 DEF BootInv, BootTypes
  <1>4. StoreSeen' BY <1>1 DEF StoreSeen
  <1>5. Boot!EndsWell' BY <1>1 DEF Boot!EndsWell
  <1> QED BY <1>1, <1>3, <1>4, <1>5 DEF BootInv

LEMMA BootStep == ASSUME BootInv, Boot!Next PROVE BootInv'
  <1>t. BootTypes BY DEF BootInv
  <1>1. CASE Boot!Initialize
    <2>1. /\ end = "none" /\ stage < 7 /\ stage' = stage + 1
          /\ store' \in {"connected", store}
          /\ watched' = (IF Boot!Stages[stage'] = "plugins" THEN "yes" ELSE watched)
          /\ UNCHANGED <<mongo, port, reload, shutdown, request, failing, end>>
      BY <1>1, SevenStages DEF Boot!Initialize, Boot!Booting, Boot!Ended, Boot!asked
    <2>2. \A s \in Signals : shutdown[s] = "none" BY <1>t, <2>1 DEF BootInv, BootTypes
    <2>3. port = "no" BY <1>t, <2>1 DEF BootInv, BootTypes
    <2>4. watched' \in {"no", "yes", "stray"} BY <1>t, <2>1 DEF BootTypes
    <2>5. stage' \in 0 .. 7 BY <1>t, <2>1 DEF BootTypes
    <2>6. BootTypes' BY <1>t, <2>1, <2>4, <2>5 DEF BootTypes
    <2>7. store # "disconnecting" /\ store' # "disconnecting" BY <2>1, <2>2 DEF BootInv
    <2>8. Boot!EndsWell' BY <2>1 DEF Boot!EndsWell
    <2> QED BY <2>1, <2>2, <2>3, <2>6, <2>7, <2>8 DEF BootInv
  <1>2. CASE Boot!FailToStart BY <1>2, BootExits DEF Boot!FailToStart, Boot!Booting
  <1>3. CASE Boot!UncaughtException BY <1>3, BootExits DEF Boot!UncaughtException
  <1>4. ASSUME NEW s \in Signals, Boot!Kill(s) PROVE BootInv' BY <1>4, BootExits DEF Boot!Kill
  <1>5. CASE Boot!Listen
    <2>1. /\ stage = 7 /\ end = "none" /\ port' = "asked"
          /\ UNCHANGED <<mongo, stage, watched, reload, store, shutdown, request, failing, end>>
      BY <1>5, SevenStages DEF Boot!Listen, Boot!Ended, Boot!asked, Boot!plugins
    <2>2. BootTypes' BY <1>t, <2>1 DEF BootTypes
    <2>3. StoreSeen' = StoreSeen BY <2>1 DEF StoreSeen
    <2>4. Boot!EndsWell' BY <2>1 DEF Boot!EndsWell
    <2> QED BY <2>1, <2>2, <2>3, <2>4 DEF BootInv
  <1>6. CASE Boot!Listening
    <2>1. /\ port = "asked" /\ port' = "yes"
          /\ UNCHANGED <<mongo, stage, watched, reload, store, shutdown, request, failing, end>>
      BY <1>6 DEF Boot!Listening, Boot!asked, Boot!plugins
    <2>2. BootTypes' BY <1>t, <2>1 DEF BootTypes
    <2>3. StoreSeen' = StoreSeen BY <2>1 DEF StoreSeen
    <2>4. Boot!EndsWell' BY <2>1 DEF Boot!EndsWell, BootInv, Boot!Open
    <2> QED BY <2>1, <2>2, <2>3, <2>4 DEF BootInv
  <1>7. ASSUME NEW s \in Signals, Boot!Shutdown(s) PROVE BootInv'
    <2>1. /\ end = "none" /\ port # "no" /\ shutdown[s] = "none"
          /\ shutdown' = [shutdown EXCEPT ![s] = "watchers"] /\ port' = "closed"
          /\ UNCHANGED <<mongo, stage, watched, reload, store, request, failing, end>>
      BY <1>7 DEF Boot!Shutdown, Boot!Ended, Boot!asked, Boot!plugins
    <2>2. \A q \in Signals : shutdown'[q] = IF q = s THEN "watchers" ELSE shutdown[q]
      BY <1>t, <2>1 DEF BootTypes
    <2>3. BootTypes' BY <1>t, <2>1 DEF BootTypes
    <2>4. StoreSeen => StoreSeen' BY <2>1, <2>2 DEF StoreSeen
    <2>5. Boot!EndsWell' BY <2>1 DEF Boot!EndsWell
    <2>6. store' = "disconnecting" => \E q \in Signals : shutdown'[q] = "store" BY <2>1, <2>2 DEF BootInv
    <2> QED BY <2>1, <2>2, <2>3, <2>4, <2>5, <2>6 DEF BootInv
  <1>8. ASSUME NEW s \in Signals, Boot!WatchersClosed(s) PROVE BootInv'
    <2>1. /\ end = "none" /\ shutdown[s] = "watchers" /\ watched' \in {"no", "stray"}
          /\ store' = (IF store = "connected" THEN "disconnecting" ELSE store)
          /\ shutdown' = [shutdown EXCEPT ![s] = IF store = "connected" THEN "store" ELSE "requests"]
          /\ UNCHANGED <<mongo, stage, port, reload, request, failing, end>>
      BY <1>8 DEF Boot!WatchersClosed, Boot!CloseWatchers, Boot!Ended, Boot!asked
    <2>2. \A q \in Signals : shutdown'[q] =
            IF q = s THEN (IF store = "connected" THEN "store" ELSE "requests") ELSE shutdown[q]
      BY <1>t, <2>1 DEF BootTypes
    <2>3. BootTypes' BY <1>t, <2>1 DEF BootTypes
    <2>4. StoreSeen'
      <3>1. CASE store = "connected" BY <2>1, <2>2, <3>1 DEF StoreSeen
      <3>2. CASE store = "disconnected" BY <2>1, <3>2 DEF StoreSeen
      <3>3. CASE store = "disconnecting" BY <2>1, <2>2, <3>3 DEF StoreSeen, BootInv
      <3> QED BY <1>t, <3>1, <3>2, <3>3 DEF BootTypes
    <2>5. Boot!EndsWell' BY <2>1 DEF Boot!EndsWell
    <2>6. store' = "disconnecting" => \E q \in Signals : shutdown'[q] = "store"
      <3>1. CASE store = "connected" BY <2>1, <2>2, <3>1
      <3>2. CASE store # "connected" BY <2>1, <2>2, <3>2 DEF BootInv
      <3> QED BY <3>1, <3>2
    <2> QED BY <2>1, <2>2, <2>3, <2>4, <2>5, <2>6 DEF BootInv
  <1>9. ASSUME NEW s \in Signals, Boot!StoreClosed(s) PROVE BootInv'
    <2>1. /\ end = "none" /\ shutdown[s] = "store"
          /\ shutdown' = [shutdown EXCEPT ![s] = "requests"]
          /\ (store' = "disconnected" /\ failing' = failing) \/ (store' = "connected" /\ failing' = TRUE)
          /\ UNCHANGED <<mongo, stage, port, watched, reload, request, end>>
      BY <1>9 DEF Boot!StoreClosed, Boot!Ended, Boot!plugins
    <2>2. \A q \in Signals : shutdown'[q] = IF q = s THEN "requests" ELSE shutdown[q]
      BY <1>t, <2>1 DEF BootTypes
    <2>3. failing' \in BOOLEAN /\ store' \in {"disconnected", "connected"} BY <1>t, <2>1 DEF BootTypes
    <2>4. BootTypes' BY <1>t, <2>1, <2>3 DEF BootTypes
    <2>5. StoreSeen' BY <2>1 DEF StoreSeen
    <2>6. Boot!EndsWell' BY <2>1 DEF Boot!EndsWell
    <2>7. watched' # "yes" BY <2>1 DEF BootInv
    <2> QED BY <2>1, <2>2, <2>3, <2>4, <2>5, <2>6, <2>7 DEF BootInv
  <1>10. ASSUME NEW s \in Signals, Boot!ServerClosed(s) PROVE BootInv'
    <2>1. /\ end = "none" /\ shutdown[s] = "requests" /\ (\A r \in Requests : ~Boot!Open(r)) /\ end' = "ok"
          /\ UNCHANGED <<mongo, stage, port, watched, reload, store, shutdown, request, failing>>
      BY <1>10 DEF Boot!ServerClosed, Boot!Ended, Boot!asked, Boot!plugins
    <2>2. BootTypes' BY <1>t, <2>1 DEF BootTypes
    <2>3. StoreSeen /\ watched # "yes" /\ StoreSeen' = StoreSeen BY <2>1 DEF BootInv, StoreSeen
    <2>4. Boot!EndsWell' BY <2>1, <2>3 DEF Boot!EndsWell, BootInv, StoreSeen, Boot!Open
    <2> QED BY <2>1, <2>2, <2>3, <2>4 DEF BootInv
  <1>11. ASSUME NEW r \in Requests, Boot!Arrive(r) \/ Boot!Ask(r) \/ Boot!Answer(r) PROVE BootInv'
    <2>1. PICK a \in {"open", "asks", "answered"} :
             /\ end = "none" /\ request' = [request EXCEPT ![r] = a]
             /\ UNCHANGED <<mongo, stage, port, watched, reload, store, shutdown, failing, end>>
      BY <1>11 DEF Boot!Arrive, Boot!Ask, Boot!Answer, Boot!Ended, Boot!plugins
    <2>2. BootTypes' BY <1>t, <2>1 DEF BootTypes
    <2>3. StoreSeen' = StoreSeen BY <2>1 DEF StoreSeen
    <2>4. Boot!EndsWell' BY <2>1 DEF Boot!EndsWell
    <2>5. \A q \in Requests : request'[q] # "cut" BY <1>t, <2>1 DEF BootInv, BootTypes
    <2> QED BY <2>1, <2>2, <2>3, <2>4, <2>5 DEF BootInv
  <1>12. CASE Boot!Change
    <2>1. /\ end = "none" /\ reload' = TRUE
          /\ UNCHANGED <<mongo, stage, port, watched, store, shutdown, request, failing, end>>
      BY <1>12 DEF Boot!Change, Boot!Ended, Boot!asked
    <2>2. BootTypes' BY <1>t, <2>1 DEF BootTypes
    <2>3. StoreSeen' = StoreSeen BY <2>1 DEF StoreSeen
    <2>4. Boot!EndsWell' BY <2>1 DEF Boot!EndsWell
    <2> QED BY <2>1, <2>2, <2>3, <2>4 DEF BootInv
  <1>13. CASE Boot!Reload
    <2>1. /\ end = "none" /\ reload' = FALSE
          /\ watched' \in {watched, "no", IF Boot!Swept THEN "stray" ELSE "yes"}
          /\ UNCHANGED <<mongo, stage, port, store, shutdown, request, failing, end>>
      BY <1>13 DEF Boot!Reload, Boot!Ended, Boot!asked
    <2>2. watched' \in {"no", "yes", "stray"} BY <1>t, <2>1 DEF BootTypes
    <2>3. BootTypes' BY <1>t, <2>1, <2>2 DEF BootTypes
    <2>4. StoreSeen' = StoreSeen BY <2>1 DEF StoreSeen
    <2>5. Boot!EndsWell' BY <2>1 DEF Boot!EndsWell
    <2>6. ASSUME NEW s \in Signals, shutdown'[s] \in {"store", "requests"} PROVE watched' # "yes"
      <3>1. Boot!Swept BY <2>1, <2>6 DEF Boot!Swept
      <3>2. watched # "yes" BY <2>1, <2>6 DEF BootInv
      <3> QED BY <2>1, <3>1, <3>2
    <2> QED BY <2>1, <2>3, <2>4, <2>5, <2>6 DEF BootInv
  <1> QED
    BY <1>1, <1>2, <1>3, <1>4, <1>5, <1>6, <1>7, <1>8, <1>9, <1>10, <1>11, <1>12, <1>13 DEF Boot!Next

LEMMA BootStarts == Boot!Init => BootInv
  <1> SUFFICES ASSUME Boot!Init PROVE BootInv OBVIOUS
  <1>0. stage \in 0 .. 7 BY DEF Boot!Init
  <1>3. shutdown \in [Signals -> {"none", "watchers", "store", "requests"}]
        /\ request \in [Requests -> {"none", "open", "asks", "answered", "cut"}]
    BY DEF Boot!Init
  <1>1. BootTypes BY <1>0, <1>3 DEF Boot!Init, BootTypes
  <1>2. Boot!EndsWell BY DEF Boot!Init, Boot!EndsWell
  <1> QED BY <1>1, <1>2 DEF Boot!Init, BootInv

LEMMA BootStays == ASSUME BootInv, UNCHANGED Boot!vars PROVE BootInv'
  <1>1. BootTypes' BY DEF BootInv, BootTypes, Boot!vars
  <1>2. StoreSeen' = StoreSeen BY DEF StoreSeen, Boot!vars
  <1>3. Boot!EndsWell' BY DEF BootInv, Boot!EndsWell, Boot!vars, Boot!Open
  <1> QED BY <1>1, <1>2, <1>3 DEF BootInv, Boot!vars

(* A server process that says it has ended well has cut no request, watches  *)
(* at most what a failed closing or a hot reload left watched, and has       *)
(* closed its store unless that failed or was under way for another signal,  *)
(* for every number of signals and requests, and in whatever order the parts *)
(* of the shutdowns and the hot reloads end.                                 *)
THEOREM ServerEnds == Boot!Spec => []Boot!EndsWell
  <1>1. BootInv /\ [Boot!Next]_(Boot!vars) => BootInv' BY BootStep, BootStays
  <1>2. BootInv => Boot!EndsWell BY DEF BootInv
  <1> QED BY BootStarts, <1>1, <1>2, PTL DEF Boot!Spec

-----------------------------------------------------------------------------
(* All of them: the component that runs keeps its invariant, and the others  *)
(* do not move.                                                             *)
TurnsInv ==
    /\ part \in {"coordinator", "wakemic", "wakepopup", "speech", "boot"}
    /\ part = "coordinator" => CoInv
    /\ part = "wakemic" => MicInv
    /\ part = "wakepopup" => PopupInv
    /\ part = "speech" => SpeechInv
    /\ part = "boot" => BootInv

LEMMA TurnsStart == Start => TurnsInv
  <1> SUFFICES ASSUME Start PROVE TurnsInv OBVIOUS
  <1>1. part \in {"coordinator", "wakemic", "wakepopup", "speech", "boot"}
    BY TurnsAssumption DEF Start
  <1>2. CoInv BY InitCoInv DEF Start
  <1>3. part = "wakemic" => MicInv BY MicStarts, TurnsAssumption DEF Start
  <1>4. PopupInv BY PopupStarts, TurnsAssumption DEF Start
  <1>5. SpeechInv BY SpeechStarts, TurnsAssumption DEF Start
  <1>6. part = "boot" => BootInv BY BootStarts DEF Start
  <1> QED BY <1>1, <1>2, <1>3, <1>4, <1>5, <1>6 DEF TurnsInv

LEMMA TurnsStep == ASSUME TurnsInv, [Step]_all PROVE TurnsInv'
  <1>1. part' = part BY DEF Step, OthersStay, all
  <1>2. CASE part = "coordinator"
    <2>1. [Next]_vars BY <1>2 DEF Step, all
    <2>2. CoInv' BY <1>2, <2>1, CoStep DEF TurnsInv
    <2> QED BY <1>1, <1>2, <2>2 DEF TurnsInv
  <1>3. CASE part = "wakemic"
    <2>1. [WakeMic!Next]_(WakeMic!vars) BY <1>3 DEF Step, all, wakeMicVars, WakeMic!vars
    <2>2. MicInv' BY <1>3, <2>1, MicStep, MicStays, TurnsAssumption DEF TurnsInv
    <2> QED BY <1>1, <1>3, <2>2 DEF TurnsInv
  <1>4. CASE part = "wakepopup"
    <2>1. [WakePopup!Next]_(WakePopup!vars) BY <1>4 DEF Step, all, wakePopupVars, WakePopup!vars
    <2>2. PopupInv' BY <1>4, <2>1, PopupStep, PopupStays, TurnsAssumption DEF TurnsInv
    <2> QED BY <1>1, <1>4, <2>2 DEF TurnsInv
  <1>5. CASE part = "speech"
    <2>1. [Speech!Next]_(Speech!vars) BY <1>5 DEF Step, all, speechVars, Speech!vars
    <2>2. SpeechInv' BY <1>5, <2>1, SpeechStep, SpeechStays, TurnsAssumption DEF TurnsInv
    <2> QED BY <1>1, <1>5, <2>2 DEF TurnsInv
  <1>6. CASE part = "boot"
    <2>1. [Boot!Next]_(Boot!vars) BY <1>6 DEF Step, all, bootVars, Boot!vars
    <2>2. BootInv' BY <1>6, <2>1, BootStep, BootStays DEF TurnsInv
    <2> QED BY <1>1, <1>6, <2>2 DEF TurnsInv
  <1> QED BY <1>2, <1>3, <1>4, <1>5, <1>6 DEF TurnsInv

(* What runs keeps its types, whichever of the five components it is, for    *)
(* every size of each.                                                      *)
THEOREM TurnsTypes == Turns => []AllTypesOK
  <1>1. TurnsInv => AllTypesOK
    <2> SUFFICES ASSUME TurnsInv PROVE AllTypesOK OBVIOUS
    <2>1. CASE part = "coordinator" BY <2>1 DEF TurnsInv, AllTypesOK, CoInv
    <2>2. CASE part = "wakemic" BY <2>2 DEF TurnsInv, AllTypesOK, MicInv
    <2>3. CASE part = "wakepopup" BY <2>3 DEF TurnsInv, AllTypesOK, PopupInv
    <2>4. CASE part = "speech" BY <2>4, SpeechTypes DEF TurnsInv, AllTypesOK
    <2>5. CASE part = "boot" BY <2>5, BootTypesAre DEF TurnsInv, AllTypesOK, BootInv
    <2> QED BY <2>1, <2>2, <2>3, <2>4, <2>5 DEF TurnsInv
  <1>2. TurnsInv /\ [Step]_all => TurnsInv' BY TurnsStep
  <1> QED BY TurnsStart, <1>1, <1>2, PTL DEF Turns
=============================================================================
