--------------------------------- MODULE Mind ---------------------------------
(***************************************************************************)
(* What a turn of a chat reads and writes on the server                    *)
(* (AIOrchestrator.js): the session of its user, the emotion and the       *)
(* personality towards that user, and the one state machine of the process. *)
(* A turn gives way at every await; the turns of one user overlap when a   *)
(* reply was stopped, or a second window sends.  How a reply is streamed,  *)
(* retried and cancelled is Chat's, what is remembered is Memory's.        *)
(***************************************************************************)
EXTENDS Naturals, Sequences

CONSTANTS
    Speakers,    \* the users
    Turns,       \* bound: the messages that are sent
    Undefined,   \* a value that no code has set
    MaxHistory   \* MAX_HISTORY: the messages a session keeps

MindAssumption == MaxHistory \in Nat \ {0} /\ Undefined \notin Turns \cup Speakers

VARIABLES
    turn,        \* each turn: where it is and what it has read
    session,     \* the messages of each user's session
    felt,        \* the texts that each user's emotion was changed by
    personality, \* the turns that each user's personality was adapted by
    machine,     \* StateMachine: the state, and whose reply set the emotion
    prompt,      \* what the prompt of each turn says
    crossed      \* the turns that adapted while another of their user did

vars == <<turn, session, felt, personality, machine, prompt, crossed>>

Unsent == [at |-> "unsent", by |-> Undefined, seen |-> {}, emotion |-> Undefined]
Stages == {"detect", "recall", "profile", "save", "agents", "stream", "failed", "done"}
Text(k, role) == <<role, k>>
Texts == {"user", "model"} \X Turns

TypeOK ==
    /\ turn \in [Turns -> {Unsent} \cup
          [at : Stages, by : Speakers, seen : SUBSET Turns, emotion : Speakers \cup {Undefined}]]
    /\ \A u \in Speakers : /\ session[u] \in Seq([role : {"user", "model"}, parts : Texts])
                           /\ Len(session[u]) =< MaxHistory
    /\ felt \in [Speakers -> SUBSET Texts]
    /\ personality \in [Speakers -> SUBSET Turns]
    /\ machine \in [state : {"idle", "thinking", "emotion"}, emotion : Speakers \cup {Undefined}]
    /\ \A k \in Turns : prompt[k].emotion \in Speakers \cup {Undefined}
    /\ crossed \subseteq Turns

NoPrompt == [emotion |-> Undefined, history |-> <<>>, shown |-> <<>>]

Init ==
    /\ turn = [k \in Turns |-> Unsent]
    /\ session = [u \in Speakers |-> <<>>]
    /\ felt = [u \in Speakers |-> {}]
    /\ personality = [u \in Speakers |-> {}]
    /\ machine = [state |-> "idle", emotion |-> Undefined]
    /\ prompt = [k \in Turns |-> NoPrompt]
    /\ crossed = {}

At(k, stage) == turn[k].at = stage
Go(k, stage) == turn' = [turn EXCEPT ![k].at = stage]

\* ConversationService: addMessage, then trim.
Trim(s) == IF Len(s) > MaxHistory THEN SubSeq(s, Len(s) - MaxHistory + 1, Len(s)) ELSE s
Say(u, role, k) ==
    session' = [session EXCEPT ![u] =
        Trim(Append(@, [role |-> role, parts |-> Text(k, role)]))]

\* EmotionEngine.analyzeText: what was read and what is written, with no await between.
Analyze(u, role, k) == felt' = [felt EXCEPT ![u] = @ \cup {Text(k, role)}]

\* 1, 2: the machine thinks, the message is in the session; detect() is awaited.
Begin(k, u) ==
    /\ At(k, "unsent")
    /\ turn' = [turn EXCEPT ![k] = [Unsent EXCEPT !.at = "detect", !.by = u]]
    /\ machine' = [machine EXCEPT !.state = "thinking"]
    /\ Say(u, "user", k)
    /\ UNCHANGED <<felt, personality, prompt, crossed>>

\* 3: detect() answers; a model that fails makes it "conversation".
Detected(k) ==
    /\ At(k, "detect")
    /\ Go(k, "recall")
    /\ UNCHANGED <<session, felt, personality, machine, prompt, crossed>>

\* 4: the memories are there: the emotion of the machine is read, the message
\* analysed, and adapt() reads the personality before it awaits the profile.
Recalled(k) ==
    /\ At(k, "recall")
    /\ LET u == turn[k].by
           others == {j \in Turns : turn[j].by = u /\ turn[j].at \in {"profile", "save"}}
       IN /\ turn' = [turn EXCEPT ![k] = [@ EXCEPT !.at = "profile",
                                                   !.seen = personality[u],
                                                   !.emotion = machine.emotion]]
          /\ Analyze(u, "user", k)
          /\ crossed' = IF others = {} THEN crossed ELSE crossed \cup others \cup {k}
    /\ UNCHANGED <<session, personality, machine, prompt>>

\* adapt() has read the profile; a preference in the message is saved, and awaited.
Profiled(k) ==
    /\ At(k, "profile")
    /\ Go(k, "save")
    /\ UNCHANGED <<session, felt, personality, machine, prompt, crossed>>

\* A line of the history: contextService takes .text of {role, parts}, and puts
\* it in a string; promptBuilder takes .role and .parts of that string.
Line(m) == [role |-> "User", text |-> Undefined]

\* An adaptation that starts from nothing.
AdaptSlip(k) == [personality EXCEPT ![turn[k].by] = {k}]

\* current.copy(deltas), of the personality read before the awaits.
Adapt(k) == [personality EXCEPT ![turn[k].by] = turn[k].seen \cup {k}]

\* The new personality is kept, and the context built; agents may have to work.
Adapted(k) ==
    /\ At(k, "save")
    /\ personality' = Adapt(k)
    /\ LET history == session[turn[k].by]
       IN prompt' = [prompt EXCEPT ![k] =
             [emotion |-> turn[k].emotion, history |-> history,
              shown |-> [i \in DOMAIN history |-> Line(history[i])]]]
    /\ \E next \in {"agents", "stream"} : Go(k, next)
    /\ UNCHANGED <<session, felt, machine, crossed>>

\* 5, 6: handleUserMessage has answered, and the prompt is compiled.
AgentsAnswer(k) ==
    /\ At(k, "agents")
    /\ Go(k, "stream")
    /\ UNCHANGED <<session, felt, personality, machine, prompt, crossed>>

\* onComplete: the reply is in the session, analysed, and sets the emotion.
Complete(k) ==
    /\ At(k, "stream")
    /\ Go(k, "done")
    /\ Say(turn[k].by, "model", k)
    /\ Analyze(turn[k].by, "model", k)
    /\ machine' = [state |-> "emotion", emotion |-> turn[k].by]
    /\ UNCHANGED <<personality, prompt, crossed>>

\* The catch of streamReply: the answer is a fallback.  detect() never throws.
Fail(k) ==
    /\ turn[k].at \in {"recall", "profile", "save", "agents", "stream"}
    /\ Go(k, "failed")
    /\ machine' = [machine EXCEPT !.state = "idle"]
    /\ UNCHANGED <<session, felt, personality, prompt, crossed>>

Next ==
    \E k \in Turns :
        \/ \E u \in Speakers : Begin(k, u)
        \/ Detected(k) \/ Recalled(k) \/ Profiled(k) \/ Adapted(k)
        \/ AgentsAnswer(k) \/ Complete(k) \/ Fail(k)

Spec == Init /\ [][Next]_vars

-----------------------------------------------------------------------------
Adapting(k) == turn[k].by # Undefined /\ turn[k].at \in {"agents", "stream", "done"}

\* A turn that adapted the personality alone among the turns of its user is
\* never forgotten by a later one; nor is any text by the emotion.
AdaptationsAreKept ==
    /\ \A k \in Turns : Adapting(k) /\ k \notin crossed => k \in personality[turn[k].by]
    /\ \A k \in Turns : At(k, "done") => Texts \cap ({"user", "model"} \X {k}) \subseteq felt[turn[k].by]

\* No turn is forgotten.  It does not hold: adapt() (PersonalityEngine.js:27-29,
\* 136) writes what it read before its awaits.
EveryTurnAdapts == \A k \in Turns : Adapting(k) => k \in personality[turn[k].by]

\* "Current Emotion" in a prompt (promptBuilder.js:36) is the one towards its
\* user.  It does not hold: the state machine is one for all users.
EmotionIsOfItsUser ==
    \A k \in Turns : prompt[k].emotion \in {turn[k].by, Undefined}

\* The "Conversation History" of a prompt (promptBuilder.js:106-114) says who said
\* what.  It does not hold: contextService.js:61 reads a field that is not there.
HistoryIsRead ==
    \A k \in Turns : \A i \in DOMAIN prompt[k].shown :
        prompt[k].shown[i].text = prompt[k].history[i].parts

\* While a turn is at work the machine thinks.  It does not hold: the end, or the
\* failure, of any user's turn changes it.
ThinksWhileAtWork ==
    (\E k \in Turns : turn[k].at \in Stages \ {"failed", "done"}) => machine.state = "thinking"
=============================================================================
