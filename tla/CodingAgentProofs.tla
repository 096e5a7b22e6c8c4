-------------------------- MODULE CodingAgentProofs --------------------------
(***************************************************************************)
(* Proofs about CodingAgent, for every number of run()s, resume()s and     *)
(* restarts and every limit.  The safety invariants are not inductive by   *)
(* themselves: that a tool started by resume() stays within maxToolCalls   *)
(* rests on the count at which the approval was asked for, on the fact     *)
(* that nobody else drove the object since, and on what a record carries   *)
(* of it over a restart.  IInv collects these facts.  Once and Kept, in    *)
(* the second half, add what holds within one life of the process: who may *)
(* act on an approval, and which record of a session is stored last.       *)
(***************************************************************************)
EXTENDS CodingAgent, TLAPS

(* What a session and its record both satisfy: an approval on offer        *)
(* reserves a tool execution and an unanswered call.                       *)
Sound(s) ==
    /\ s.ran <= s.toolCalls
    /\ s.ran <= MaxToolCalls
    /\ s.toolCalls <= MaxToolCalls + 1
    /\ s.iterations <= MaxIterations
    /\ s.pending # None => /\ s.state = "WAITING_FOR_APPROVAL"
                           /\ s.ran < MaxToolCalls
                           /\ s.toolCalls <= MaxToolCalls
                           /\ s.open >= 1

SoundRecord(r) ==
    Sound(r) /\ (r.state = "WAITING_FOR_APPROVAL" => r.pending # None)

SoundObject(s) ==
    Sound(s) /\ (s.state = "WAITING_FOR_APPROVAL" /\ s.provider => s.pending # None)

(* What is known of a session object s while an invocation drives it: p is *)
(* where the invocation stands, a the approval it acts on, n the number of *)
(* calls of its current turn that are answered or not yet started.         *)
Driver(p, a, n, s) ==
    /\ s.pending = None
    /\ p = "provider" => /\ s.state = "WAITING_FOR_APPROVAL"
                         /\ ~s.provider
                         /\ a # None
                         /\ s.ran < MaxToolCalls
                         /\ s.toolCalls <= MaxToolCalls
                         /\ s.open >= 1
    /\ p # "provider" => s.state = "RUNNING" /\ s.provider
    /\ p = "tool" => /\ s.ran < MaxToolCalls
                     /\ s.ran < s.toolCalls
                     /\ a = None => s.toolCalls <= MaxToolCalls /\ n + 1 <= s.open
                     /\ a # None => s.open >= 1
    /\ p = "calls" => n <= s.open
    /\ p \notin {"provider", "tool"} => a = None

Drivers ==
    \A c \in Call : pc[c] \in Driving =>
        /\ ref[c] \in Call
        /\ Driver(pc[c], acting[c], got[c] + todo[c], obj[ref[c]])
        /\ \A d \in Call \ {c} : pc[d] \in Driving => ref[d] # ref[c]

(* An invocation that has paused and saves the pause. *)
Pausing == {"savePause", "paused", "saveBlock"}

Pausers ==
    \A c \in Call : pc[c] \in Pausing => /\ ref[c] \in Call
                                         /\ obj[ref[c]].provider

(* Nobody holds the object of an invocation that has not constructed one. *)
Unborn == {"idle", "load"}

Fresh ==
    /\ \A c \in Call : ref[c] # None => pc[ref[c]] \notin Unborn
    /\ \A x \in Runs : sessions[x] # None => pc[sessions[x]] \notin Unborn
    /\ \A c \in Call : pc[c] \in Unborn => acting[c] = None
    /\ \A c \in Call : pc[c] = "load" => sid[c] \in Runs

Decisions ==
    /\ \A c \in Call : acting[c] # None => <<acting[c], TRUE>> \in decided
    /\ EffectNeedsItsApproval

(* The invariant, in three parts: what the invocations and the objects are *)
(* at, what the repository holds or is about to, and the types of the rest.*)
Control ==
    /\ pc \in [Call -> Places]
    /\ ref \in [Call -> Call \cup {None}]
    /\ obj \in [Call -> Object]
    /\ \A o \in Call : SoundObject(obj[o])
    /\ Drivers
    /\ Pausers
    /\ Fresh
    /\ Decisions

Saves ==
    /\ store \in [Runs -> Record]
    /\ writing \in SUBSET Call
    /\ ahead \in [Call -> SUBSET Call]
    /\ rec \in [Call -> Record]
    /\ \A x \in Runs : SoundRecord(store[x])
    /\ \A c \in Call : SoundRecord(rec[c])

Rest ==
    /\ sid \in [Call -> Runs \cup {None}]
    /\ ask \in [Call -> [id : Call \cup {None}, yes : BOOLEAN]]
    /\ acting \in [Call -> Call \cup {None}]
    /\ todo \in [Call -> Nat]
    /\ got \in [Call -> Nat]
    /\ sessions \in [Runs -> Call \cup {None}]
    /\ ordered \in BOOLEAN
    /\ late \in SUBSET Runs
    /\ restarts \in Nat
    /\ effects \in [Call -> Nat]
    /\ decided \in SUBSET (Call \X BOOLEAN)
    /\ unsaved \in BOOLEAN

IInv == Control /\ Saves /\ Rest

USE DEF Call

-----------------------------------------------------------------------------
(* Lemmas about the pieces of an action *)

(* The session of a fresh object is sound. *)
LEMMA NewSession ==
    ASSUME NEW st \in {"IDLE", "RUNNING"}, NEW p \in BOOLEAN
    PROVE  LET s == CodingAgentSession(st, p)
           IN  s \in Object /\ SoundObject(s)
  BY LimitAssumption DEF CodingAgentSession, Object, State, Terminal, SoundObject, Sound

(* A snapshot of a sound object is a sound record, unless it waits for nothing. *)
LEMMA Snapshot ==
    ASSUME NEW s \in Object, SoundObject(s),
           s.state = "WAITING_FOR_APPROVAL" => s.pending # None
    PROVE  toSessionRecord(s) \in Record /\ SoundRecord(toSessionRecord(s))
  BY DEF Object, Record, toSessionRecord, SoundObject, SoundRecord, Sound

(* _persist keeps the repository and the saves under way sound. *)
LEMMA PersistSaves ==
    ASSUME IInv, NEW c \in Call, NEW s \in Object, SoundObject(s),
           s.state = "WAITING_FOR_APPROVAL" => s.pending # None,
           Persist(c, s)
    PROVE  Saves'
<1>1. toSessionRecord(s) \in Record /\ SoundRecord(toSessionRecord(s))
  BY Snapshot
<1> QED
  BY <1>1 DEF IInv, Saves, Persist

(* An action that leaves the saves alone keeps the repository sound. *)
LEMMA SavesUnchanged ==
    ASSUME IInv, UNCHANGED saveVars
    PROVE  Saves'
  BY DEF IInv, Saves, saveVars

(* What IInv says of an invocation that drives an object. *)
LEMMA DriverFacts ==
    ASSUME IInv, NEW c \in Call, pc[c] \in Driving
    PROVE  /\ ref[c] \in Call
           /\ pc[ref[c]] \notin Unborn
           /\ obj[ref[c]] \in Object
           /\ SoundObject(obj[ref[c]])
           /\ Driver(pc[c], acting[c], got[c] + todo[c], obj[ref[c]])
           /\ \A d \in Call \ {c} : pc[d] \in Driving => ref[d] # ref[c]
<1>1. /\ ref[c] \in Call
      /\ Driver(pc[c], acting[c], got[c] + todo[c], obj[ref[c]])
      /\ \A d \in Call \ {c} : pc[d] \in Driving => ref[d] # ref[c]
  BY DEF IInv, Control, Drivers
<1>2. pc[ref[c]] \notin Unborn
  BY <1>1, CallAssumption DEF IInv, Control, Fresh
<1> QED
  BY <1>1, <1>2 DEF IInv, Control

(***************************************************************************)
(* Invocation c takes a step to place p and leaves object o, which only it *)
(* drives, as s.                                                           *)
(***************************************************************************)
LEMMA OneStep ==
    ASSUME IInv, NEW c \in Call, NEW o \in Call, NEW s \in Object,
           NEW p \in Places \ Unborn,
           SoundObject(s),
           obj' = [obj EXCEPT ![o] = s],
           pc' = [pc EXCEPT ![c] = p],
           ref' = [ref EXCEPT ![c] = o],
           o = c \/ pc[o] \notin Unborn,
           \A x \in Runs : sessions'[x] \in {sessions[x], o},
           \A d \in Call \ {c} : /\ acting'[d] = acting[d]
                                 /\ got'[d] = got[d]
                                 /\ todo'[d] = todo[d]
                                 /\ sid'[d] = sid[d],
           \A d \in Call \ {c} : pc[d] \in Driving => ref[d] # o,
           \A d \in Call \ {c} : pc[d] \in Pausing /\ ref[d] = o => s.provider,
           p \in Driving => Driver(p, acting'[c], got'[c] + todo'[c], s),
           p \in Pausing => s.provider,
           acting'[c] # None => <<acting'[c], TRUE>> \in decided',
           decided \subseteq decided',
           \A a \in Call : effects'[a] > 0 => effects[a] > 0 \/ <<a, TRUE>> \in decided
    PROVE  Control'
<1>1. /\ pc' \in [Call -> Places]
      /\ ref' \in [Call -> Call \cup {None}]
      /\ obj' \in [Call -> Object]
  BY DEF IInv, Control
<1>2. \A x \in Call : SoundObject(obj'[x])
  BY DEF IInv, Control
<1>3. \A d \in Call : d # c => pc'[d] = pc[d] /\ ref'[d] = ref[d]
  BY DEF IInv, Control
<1>4. /\ pc'[c] = p
      /\ ref'[c] = o
      /\ obj'[o] = s
      /\ \A x \in Call : x # o => obj'[x] = obj[x]
  BY DEF IInv, Control
<1>5. Drivers'
  <2> SUFFICES ASSUME NEW d \in Call, pc'[d] \in Driving
               PROVE  /\ ref'[d] \in Call
                      /\ Driver(pc'[d], acting'[d], got'[d] + todo'[d], obj'[ref'[d]])
                      /\ \A e \in Call \ {d} : pc'[e] \in Driving => ref'[e] # ref'[d]
    BY DEF Drivers
  <2>1. CASE d = c
    BY <1>3, <1>4, <2>1
  <2>2. CASE d # c
    <3>1. /\ ref[d] \in Call
          /\ Driver(pc[d], acting[d], got[d] + todo[d], obj[ref[d]])
          /\ \A e \in Call \ {d} : pc[e] \in Driving => ref[e] # ref[d]
      BY <1>3, <2>2 DEF IInv, Control, Drivers
    <3>2. ref[d] # o
      BY <1>3, <2>2
    <3> QED
      BY <1>3, <1>4, <2>2, <3>1, <3>2
  <2> QED
    BY <2>1, <2>2
<1>6. Pausers'
  <2> SUFFICES ASSUME NEW d \in Call, pc'[d] \in Pausing
               PROVE  ref'[d] \in Call /\ obj'[ref'[d]].provider
    BY DEF Pausers
  <2>1. CASE d = c
    BY <1>4, <2>1
  <2>2. CASE d # c
    <3>1. pc[d] \in Pausing /\ ref'[d] = ref[d] /\ ref[d] \in Call /\ obj[ref[d]].provider
      BY <1>3, <2>2 DEF IInv, Control, Pausers
    <3>2. CASE ref[d] = o
      BY <1>4, <2>2, <3>1, <3>2
    <3>3. CASE ref[d] # o
      BY <1>4, <3>1, <3>3
    <3> QED
      BY <3>2, <3>3
  <2> QED
    BY <2>1, <2>2
<1>7. Fresh'
  <2>1. \A x \in Call : pc[x] \notin Unborn => pc'[x] \notin Unborn
    BY <1>3, <1>4
  <2>2. pc'[o] \notin Unborn
    BY <2>1, <1>4
  <2>3. \A d \in Call : ref'[d] # None => pc'[ref'[d]] \notin Unborn
    BY <1>3, <1>4, <2>1, <2>2 DEF IInv, Control, Fresh
  <2>4. \A x \in Runs : sessions'[x] # None => pc'[sessions'[x]] \notin Unborn
    BY <2>1, <2>2 DEF IInv, Rest, Control, Fresh
  <2>5. \A d \in Call : pc'[d] \in Unborn => acting'[d] = None
    BY <1>3, <1>4 DEF IInv, Control, Fresh
  <2>6. \A d \in Call : pc'[d] = "load" => sid'[d] \in Runs
    BY <1>3, <1>4 DEF IInv, Control, Fresh, Unborn
  <2> QED
    BY <2>3, <2>4, <2>5, <2>6 DEF Fresh
<1>8. Decisions'
  BY DEF IInv, Control, Decisions, EffectNeedsItsApproval
<1> QED
  BY <1>1, <1>2, <1>5, <1>6, <1>7, <1>8 DEF Control

(* _finish by the invocation that drives the object. *)
LEMMA FinishStep ==
    ASSUME IInv, NEW c \in Call, NEW st \in Terminal,
           pc[c] \in Driving \ {"provider"},
           acting[c] = None,
           Finish(c, obj[ref[c]], st),
           UNCHANGED <<sid, ref, ask, acting, todo, got, world, ghosts>>
    PROVE  IInv'
<1> DEFINE s == obj[ref[c]]
           e == [s EXCEPT !.state = st]
<1>1. /\ ref[c] \in Call
      /\ pc[ref[c]] \notin Unborn
      /\ s \in Object
      /\ SoundObject(s)
      /\ s.pending = None
      /\ s.provider
      /\ \A d \in Call \ {c} : pc[d] \in Driving => ref[d] # ref[c]
  BY DriverFacts DEF Driver
<1>2. e \in Object /\ SoundObject(e) /\ e.provider /\ e.state # "WAITING_FOR_APPROVAL"
  BY <1>1 DEF Object, State, Terminal, SoundObject, Sound
<1>3. /\ obj' = [obj EXCEPT ![ref[c]] = e]
      /\ pc' = [pc EXCEPT ![c] = "done"]
      /\ sessions' = [sessions EXCEPT ![sid[c]] = ref[c]]
      /\ Persist(c, e)
  BY DEF Finish
<1> HIDE DEF e, s
<1>4. Saves'
  BY <1>2, <1>3, PersistSaves
<1>5. Control'
  <2>1. ref' = [ref EXCEPT ![c] = ref[c]]
    BY DEF IInv, Control
  <2>2. \A x \in Runs : sessions'[x] \in {sessions[x], ref[c]}
    BY <1>3 DEF IInv, Rest
  <2>3. acting[c] # None => <<acting[c], TRUE>> \in decided
    BY DEF IInv, Control, Decisions
  <2>4. "done" \in Places \ Unborn /\ "done" \notin Driving /\ "done" \notin Pausing
    BY DEF Places, Unborn, Driving, Pausing
  <2>5. /\ acting' = acting /\ got' = got /\ todo' = todo /\ sid' = sid
        /\ decided' = decided /\ effects' = effects
    BY DEF ghosts
  <2> QED
    BY ONLY IInv, c \in Call, <1>1, <1>2, <1>3, <2>1, <2>2, <2>3, <2>4, <2>5, OneStep
<1>6. Rest'
  BY <1>1, <1>3 DEF IInv, Rest, world, ghosts
<1> QED
  BY <1>4, <1>5, <1>6 DEF IInv

(***************************************************************************)
(* A step of the invocation that drives an object, within the loops of     *)
(* _loop: the object becomes s, c stands at p, and nothing is decided.     *)
(***************************************************************************)
LEMMA LoopStep ==
    ASSUME IInv, NEW c \in Call, NEW s \in Object, NEW p \in Places \ Unborn,
           pc[c] \in Driving \ {"provider"},
           SoundObject(s),
           s.provider,
           obj' = [obj EXCEPT ![ref[c]] = s],
           pc' = [pc EXCEPT ![c] = p],
           p \in Driving => Driver(p, acting[c], got'[c] + todo'[c], s),
           \A d \in Call \ {c} : got'[d] = got[d] /\ todo'[d] = todo[d],
           got' \in [Call -> Nat],
           todo' \in [Call -> Nat],
           Saves',
           UNCHANGED <<sid, ref, ask, acting, sessions, world, ghosts>>
    PROVE  IInv'
<1>1. /\ ref[c] \in Call
      /\ pc[ref[c]] \notin Unborn
      /\ \A d \in Call \ {c} : pc[d] \in Driving => ref[d] # ref[c]
  BY DriverFacts
<1>2. ref' = [ref EXCEPT ![c] = ref[c]]
  BY DEF IInv, Control
<1>3. acting[c] # None => <<acting[c], TRUE>> \in decided
  BY DEF IInv, Control, Decisions
<1>4. \A x \in Runs : sessions'[x] \in {sessions[x], ref[c]}
  OBVIOUS
<1>5. /\ acting' = acting /\ sid' = sid /\ decided' = decided /\ effects' = effects
      /\ s.provider = TRUE
  BY DEF ghosts, Object
<1>6. Control'
  <2>1. \A d \in Call \ {c} : /\ acting'[d] = acting[d]
                              /\ got'[d] = got[d]
                              /\ todo'[d] = todo[d]
                              /\ sid'[d] = sid[d]
    BY <1>5
  <2>2. \A d \in Call \ {c} : pc[d] \in Pausing /\ ref[d] = ref[c] => s.provider
    OBVIOUS
  <2>3. p \in Driving => Driver(p, acting'[c], got'[c] + todo'[c], s)
    BY <1>5
  <2>4. acting'[c] # None => <<acting'[c], TRUE>> \in decided'
    BY <1>3, <1>5
  <2>5. /\ decided \subseteq decided'
        /\ \A a \in Call : effects'[a] > 0 => effects[a] > 0 \/ <<a, TRUE>> \in decided
    BY <1>5
  <2>6. p \in Pausing => s.provider
    OBVIOUS
  <2> QED
    BY <1>1, <1>2, <1>4, <2>1, <2>2, <2>3, <2>4, <2>5, <2>6, OneStep
<1>7. Rest'
  BY DEF IInv, Rest, world, ghosts
<1> QED
  BY <1>6, <1>7 DEF IInv

(* A step of invocation c that changes no session object. *)
LEMMA Bystander ==
    ASSUME IInv, NEW c \in Call, NEW p \in Places \ {"idle"}, NEW r \in Call \cup {None},
           obj' = obj,
           pc' = [pc EXCEPT ![c] = p],
           ref' = [ref EXCEPT ![c] = r],
           r # None => pc[r] \notin Unborn,
           p \in Driving => /\ pc[c] \in Driving /\ r = ref[c]
                            /\ Driver(p, acting[c], got[c] + todo[c], obj[r]),
           p \in Pausing => pc[c] \in Pausing /\ r = ref[c],
           p = "load" => pc[c] = "idle" /\ sid'[c] \in Runs,
           \A d \in Call \ {c} : sid'[d] = sid[d],
           acting' = acting, got' = got, todo' = todo, sessions' = sessions,
           effects' = effects, decided' = decided
    PROVE  Control'
<1>1. /\ pc' \in [Call -> Places]
      /\ ref' \in [Call -> Call \cup {None}]
      /\ obj' \in [Call -> Object]
      /\ \A x \in Call : SoundObject(obj'[x])
  BY DEF IInv, Control
<1>2. /\ \A d \in Call : d # c => pc'[d] = pc[d] /\ ref'[d] = ref[d]
      /\ pc'[c] = p
      /\ ref'[c] = r
  BY DEF IInv, Control
<1>3. Drivers'
  <2> SUFFICES ASSUME NEW d \in Call, pc'[d] \in Driving
               PROVE  /\ ref'[d] \in Call
                      /\ Driver(pc'[d], acting'[d], got'[d] + todo'[d], obj'[ref'[d]])
                      /\ \A e \in Call \ {d} : pc'[e] \in Driving => ref'[e] # ref'[d]
    BY DEF Drivers
  <2>1. /\ pc[d] \in Driving /\ ref'[d] = ref[d]
        /\ \A e \in Call : pc'[e] \in Driving => pc[e] \in Driving /\ ref'[e] = ref[e]
    BY <1>2
  <2>2. /\ ref[d] \in Call
        /\ Driver(pc[d], acting[d], got[d] + todo[d], obj[ref[d]])
        /\ \A e \in Call \ {d} : pc[e] \in Driving => ref[e] # ref[d]
    BY <2>1 DEF IInv, Control, Drivers
  <2>3. Driver(pc'[d], acting'[d], got'[d] + todo'[d], obj'[ref'[d]])
    <3>1. CASE d = c
      BY <1>2, <2>1, <3>1
    <3>2. CASE d # c
      BY <1>2, <2>1, <2>2, <3>2
    <3> QED
      BY <3>1, <3>2
  <2> QED
    BY <2>1, <2>2, <2>3
<1>4. Pausers'
  <2> SUFFICES ASSUME NEW d \in Call, pc'[d] \in Pausing
               PROVE  ref'[d] \in Call /\ obj'[ref'[d]].provider
    BY DEF Pausers
  <2>1. pc[d] \in Pausing /\ ref'[d] = ref[d]
    BY <1>2
  <2> QED
    BY <2>1 DEF IInv, Control, Pausers
<1>5. Fresh'
  <2>1. \A x \in Call : pc[x] \notin Unborn => pc'[x] \notin Unborn
    BY <1>2 DEF Unborn
  <2>2. \A d \in Call : ref'[d] # None => pc'[ref'[d]] \notin Unborn
    BY <1>2, <2>1 DEF IInv, Control, Fresh
  <2>3. \A x \in Runs : sessions'[x] # None => pc'[sessions'[x]] \notin Unborn
    BY <2>1 DEF IInv, Rest, Control, Fresh
  <2>4. \A d \in Call : pc'[d] \in Unborn => acting'[d] = None
    BY <1>2 DEF IInv, Control, Fresh, Unborn
  <2>5. \A d \in Call : pc'[d] = "load" => sid'[d] \in Runs
    BY <1>2 DEF IInv, Control, Fresh
  <2> QED
    BY <2>2, <2>3, <2>4, <2>5 DEF Fresh
<1>6. Decisions'
  BY DEF IInv, Control, Decisions, EffectNeedsItsApproval
<1> QED
  BY <1>1, <1>3, <1>4, <1>5, <1>6 DEF Control

-----------------------------------------------------------------------------
(* One lemma for each action *)

(* run() starts a session nobody else holds. *)
LEMMA RunStep ==
    ASSUME IInv, NEW c \in Runs, Run(c)
    PROVE  IInv'
<1> DEFINE s == CodingAgentSession("RUNNING", TRUE)
<1>1. /\ s \in Object /\ SoundObject(s) /\ s.provider
      /\ s.state = "RUNNING" /\ s.pending = None /\ s.open = 0
      /\ Driver("saveTurn", None, got[c] + todo[c], s)
  BY NewSession DEF CodingAgentSession, Driver
<1>2. /\ c \in Call
      /\ pc[c] = "idle"
      /\ acting[c] = None
      /\ obj' = [obj EXCEPT ![c] = s]
      /\ pc' = [pc EXCEPT ![c] = "saveTurn"]
      /\ ref' = [ref EXCEPT ![c] = c]
      /\ sid' = [sid EXCEPT ![c] = c]
      /\ sessions' = [sessions EXCEPT ![c] = c]
      /\ Persist(c, s)
  BY DEF Run, IInv, Control, Fresh, Unborn
<1> HIDE DEF s
<1>3. Saves'
  BY <1>1, <1>2, PersistSaves
<1>4. \A d \in Call : ref[d] # c
  BY <1>2, CallAssumption DEF IInv, Control, Fresh, Unborn
<1>5. Control'
  <2>1. /\ \A x \in Runs : sessions'[x] \in {sessions[x], c}
        /\ \A d \in Call \ {c} : sid'[d] = sid[d]
    BY <1>2 DEF IInv, Rest
  <2>2. /\ acting' = acting /\ got' = got /\ todo' = todo
        /\ decided' = decided /\ effects' = effects
    BY DEF Run, ghosts
  <2>3. "saveTurn" \in Places \ Unborn /\ "saveTurn" \notin Pausing
    BY DEF Places, Unborn, Pausing
  <2>4. Driver("saveTurn", acting'[c], got'[c] + todo'[c], s) /\ acting'[c] = None
    BY <1>1, <1>2, <2>2
  <2>5. \A d \in Call \ {c} : /\ acting'[d] = acting[d]
                              /\ got'[d] = got[d]
                              /\ todo'[d] = todo[d]
                              /\ sid'[d] = sid[d]
    BY <2>1, <2>2
  <2>6. /\ decided \subseteq decided'
        /\ \A a \in Call : effects'[a] > 0 => effects[a] > 0 \/ <<a, TRUE>> \in decided
    BY <2>2
  <2> QED
    BY <1>1, <1>2, <1>4, <2>1, <2>3, <2>4, <2>5, <2>6, OneStep
<1>6. Rest'
  BY <1>2 DEF IInv, Rest, Run, world, ghosts
<1> QED
  BY <1>3, <1>5, <1>6 DEF IInv

(* The head of the loop: an end, or a turn that is counted within its limit. *)
LEMMA LoopTopStep ==
    ASSUME IInv, NEW c \in Call, LoopTop(c)
    PROVE  IInv'
<1> DEFINE s == obj[ref[c]]
           t == [s EXCEPT !.iterations = @ + 1]
<1>1. /\ pc[c] = "top" /\ pc[c] \in Driving \ {"provider"}
      /\ UNCHANGED <<sid, ref, ask, acting, todo, got, world, ghosts>>
  BY DEF LoopTop, Driving
<1>2. acting[c] = None /\ s \in Object /\ SoundObject(s)
      /\ s.pending = None /\ s.state = "RUNNING" /\ s.provider
  BY <1>1, DriverFacts DEF Driver
<1>3. CASE \E st \in Terminal : Finish(c, s, st)
  BY <1>1, <1>2, <1>3, FinishStep
<1>4. CASE /\ s.iterations < MaxIterations
           /\ obj' = [obj EXCEPT ![ref[c]].iterations = @ + 1]
           /\ pc' = [pc EXCEPT ![c] = "model"]
           /\ UNCHANGED <<sessions, saveVars>>
  <2>1. /\ t \in Object /\ t.provider /\ SoundObject(t)
        /\ Driver("model", acting[c], got'[c] + todo'[c], t)
    BY <1>2, <1>4, LimitAssumption DEF Object, SoundObject, Sound, Driver
  <2>2. obj' = [obj EXCEPT ![ref[c]] = t]
    BY <1>4
  <2>3. "model" \in Places \ Unborn /\ Saves'
    BY <1>4, SavesUnchanged DEF Places, Unborn
  <2>4. got' \in [Call -> Nat] /\ todo' \in [Call -> Nat]
    BY <1>1 DEF IInv, Rest
  <2> HIDE DEF t
  <2> QED
    BY <1>1, <1>2, <1>4, <2>1, <2>2, <2>3, <2>4, LoopStep
<1> QED
  BY <1>3, <1>4 DEF LoopTop, Terminal

(* A turn of the model: the end, or calls that all await a result. *)
LEMMA ModelTurnStep ==
    ASSUME IInv, NEW c \in Call, ModelTurn(c)
    PROVE  IInv'
<1> DEFINE s == obj[ref[c]]
           t(n) == [s EXCEPT !.open = @ + n]
<1>1. /\ pc[c] = "model" /\ pc[c] \in Driving \ {"provider"}
      /\ UNCHANGED <<sid, ref, ask, acting, world, ghosts>>
  BY DEF ModelTurn, Driving
<1>2. acting[c] = None /\ s \in Object /\ SoundObject(s)
      /\ s.pending = None /\ s.state = "RUNNING" /\ s.provider
  BY <1>1, DriverFacts DEF Driver
<1>3. CASE Finish(c, s, "COMPLETED") /\ UNCHANGED <<todo, got>>
  BY <1>1, <1>2, <1>3, FinishStep DEF Terminal
<1>4. ASSUME NEW n \in 1 .. MaxTurnCalls,
             obj' = [obj EXCEPT ![ref[c]].open = @ + n],
             todo' = [todo EXCEPT ![c] = n],
             got' = [got EXCEPT ![c] = 0],
             pc' = [pc EXCEPT ![c] = "calls"],
             UNCHANGED <<sessions, saveVars>>
      PROVE  IInv'
  <2>1. /\ t(n) \in Object /\ t(n).provider /\ SoundObject(t(n))
        /\ Driver("calls", None, n, t(n))
    BY <1>2, LimitAssumption DEF Object, SoundObject, Sound, Driver
  <2>2. obj' = [obj EXCEPT ![ref[c]] = t(n)]
    BY <1>4
  <2>3. "calls" \in Places \ Unborn /\ Saves'
    BY <1>4, SavesUnchanged DEF Places, Unborn
  <2>4. /\ got' \in [Call -> Nat] /\ todo' \in [Call -> Nat]
        /\ got'[c] + todo'[c] = n
        /\ \A d \in Call \ {c} : got'[d] = got[d] /\ todo'[d] = todo[d]
    BY <1>4, LimitAssumption DEF IInv, Rest
  <2> HIDE DEF t
  <2> QED
    BY <1>1, <1>2, <1>4, <2>1, <2>2, <2>3, <2>4, LoopStep
<1> QED
  BY <1>3, <1>4 DEF ModelTurn

(* A turn that fails ends the session. *)
LEMMA ModelThrowsStep ==
    ASSUME IInv, NEW c \in Call, ModelThrows(c)
    PROVE  IInv'
<1>1. pc[c] = "model" /\ pc[c] \in Driving \ {"provider"}
  BY DEF ModelThrows, Driving
<1>2. acting[c] = None
  BY <1>1, DriverFacts DEF Driver
<1> QED
  BY <1>1, <1>2, FinishStep DEF ModelThrows, Terminal

(* A call of a turn starts within maxToolCalls, or the session ends. *)
LEMMA NextCallStep ==
    ASSUME IInv, NEW c \in Call, NextCall(c)
    PROVE  IInv'
<1> DEFINE s == obj[ref[c]]
           t == [s EXCEPT !.toolCalls = @ + 1]
<1>1. /\ pc[c] = "calls" /\ pc[c] \in Driving \ {"provider"}
      /\ todo[c] > 0
      /\ UNCHANGED <<sid, ref, ask, acting, world, ghosts>>
  BY DEF NextCall, Driving
<1>2. /\ acting[c] = None /\ s \in Object /\ SoundObject(s)
      /\ s.pending = None /\ s.state = "RUNNING" /\ s.provider
      /\ got[c] + todo[c] <= s.open
  BY <1>1, DriverFacts DEF Driver
<1>3. CASE \E st \in Terminal : Finish(c, s, st) /\ UNCHANGED <<todo, got>>
  BY <1>1, <1>2, <1>3, FinishStep
<1>4. CASE /\ s.toolCalls < MaxToolCalls
           /\ todo' = [todo EXCEPT ![c] = @ - 1]
           /\ StartTool(c, ref[c], s)
           /\ got' = got
           /\ UNCHANGED <<sessions, saveVars>>
  <2>1. /\ got' \in [Call -> Nat] /\ todo' \in [Call -> Nat]
        /\ got'[c] + todo'[c] + 1 = got[c] + todo[c]
        /\ got'[c] + todo'[c] \in Nat
        /\ \A d \in Call \ {c} : got'[d] = got[d] /\ todo'[d] = todo[d]
    BY <1>1, <1>4 DEF IInv, Rest
  <2>2. t \in Object /\ t.provider /\ SoundObject(t)
    BY <1>2, <1>4, LimitAssumption DEF Object, SoundObject, Sound
  <2>3. Driver("tool", acting[c], got'[c] + todo'[c], t)
    BY <1>2, <1>4, <2>1, LimitAssumption DEF Object, SoundObject, Sound, Driver
  <2>4. obj' = [obj EXCEPT ![ref[c]] = t] /\ pc' = [pc EXCEPT ![c] = "tool"]
    BY <1>4 DEF StartTool
  <2>5. "tool" \in Places \ Unborn /\ Saves'
    BY <1>4, SavesUnchanged DEF Places, Unborn
  <2> HIDE DEF t
  <2> QED
    BY <1>1, <1>2, <1>4, <2>1, <2>2, <2>3, <2>4, <2>5, LoopStep
<1>5. CASE /\ todo' = [todo EXCEPT ![c] = @ - 1]
           /\ got' = [got EXCEPT ![c] = @ + 1]
           /\ UNCHANGED <<pc, obj>>
           /\ UNCHANGED <<sessions, saveVars>>
  <2>1. /\ got' \in [Call -> Nat] /\ todo' \in [Call -> Nat]
        /\ got'[c] + todo'[c] = got[c] + todo[c]
        /\ \A d \in Call \ {c} : got'[d] = got[d] /\ todo'[d] = todo[d]
    BY <1>1, <1>5 DEF IInv, Rest
  <2>2. Driver("calls", acting[c], got'[c] + todo'[c], s)
    BY <1>2, <2>1 DEF Driver
  <2>3. obj' = [obj EXCEPT ![ref[c]] = s] /\ pc' = [pc EXCEPT ![c] = "calls"]
    BY <1>1, <1>5 DEF IInv, Control
  <2>4. "calls" \in Places \ Unborn /\ Saves'
    BY <1>5, SavesUnchanged DEF Places, Unborn
  <2> HIDE DEF s
  <2> QED
    BY <1>1, <1>2, <1>5, <2>1, <2>2, <2>3, <2>4, LoopStep
<1> QED
  BY <1>3, <1>4, <1>5 DEF NextCall, Terminal

(* The results of a turn answer calls of that turn. *)
LEMMA TurnAnsweredStep ==
    ASSUME IInv, NEW c \in Call, TurnAnswered(c)
    PROVE  IInv'
<1> DEFINE t == [obj[ref[c]] EXCEPT !.open = @ - got[c]]
<1>1. /\ pc[c] = "calls" /\ pc[c] \in Driving \ {"provider"}
      /\ todo[c] = 0
      /\ obj' = [obj EXCEPT ![ref[c]] = t]
      /\ Persist(c, t)
      /\ pc' = [pc EXCEPT ![c] = "saveTurn"]
      /\ UNCHANGED <<sid, ref, ask, acting, todo, got, sessions, world, ghosts>>
  BY DEF TurnAnswered, Driving
<1>2. got \in [Call -> Nat] /\ todo \in [Call -> Nat]
  BY DEF IInv, Rest
<1>3. /\ t \in Object /\ SoundObject(t) /\ t.provider
      /\ t.state = "RUNNING"
      /\ Driver("saveTurn", acting[c], got'[c] + todo'[c], t)
  BY <1>1, <1>2, DriverFacts DEF Driver, Object, SoundObject, Sound
<1>4. "saveTurn" \in Places \ Unborn
  BY DEF Places, Unborn
<1> HIDE DEF t
<1>5. Saves'
  BY <1>1, <1>3, PersistSaves
<1> QED
  BY <1>1, <1>2, <1>3, <1>4, <1>5, LoopStep

(* A tool that ran had been counted. *)
LEMMA ToolReturnsStep ==
    ASSUME IInv, NEW c \in Call, ToolReturns(c)
    PROVE  IInv'
<1> DEFINE t == [obj[ref[c]] EXCEPT !.ran = @ + 1]
<1>1. /\ pc[c] = "tool" /\ pc[c] \in Driving \ {"provider"}
      /\ acting[c] = None
      /\ obj' = [obj EXCEPT ![ref[c]] = t]
      /\ got' = [got EXCEPT ![c] = @ + 1]
      /\ pc' = [pc EXCEPT ![c] = "calls"]
      /\ UNCHANGED <<sid, ref, ask, acting, todo, sessions, saveVars, world, ghosts>>
  BY DEF ToolReturns, Driving
<1>2. /\ got' \in [Call -> Nat] /\ todo' \in [Call -> Nat]
      /\ got[c] + todo[c] \in Nat
      /\ got'[c] + todo'[c] = got[c] + todo[c] + 1
      /\ \A d \in Call \ {c} : got'[d] = got[d] /\ todo'[d] = todo[d]
  BY <1>1 DEF IInv, Rest
<1>3. /\ t \in Object /\ SoundObject(t) /\ t.provider
      /\ Driver("calls", acting[c], got'[c] + todo'[c], t)
  BY <1>1, <1>2, DriverFacts, LimitAssumption DEF Driver, Object, SoundObject, Sound
<1>4. "calls" \in Places \ Unborn /\ Saves'
  BY <1>1, SavesUnchanged DEF Places, Unborn
<1> HIDE DEF t
<1> QED
  BY <1>1, <1>2, <1>3, <1>4, LoopStep

(* A refused tool leaves an approval that reserves one execution. *)
LEMMA ToolBlockedStep ==
    ASSUME IInv, NEW c \in Call, ToolBlocked(c)
    PROVE  IInv'
<1> DEFINE t == [obj[ref[c]] EXCEPT !.pending = c, !.state = "WAITING_FOR_APPROVAL"]
<1>1. /\ pc[c] = "tool" /\ pc[c] \in Driving \ {"provider"}
      /\ acting[c] = None
      /\ obj' = [obj EXCEPT ![ref[c]] = t]
      /\ Persist(c, t)
      /\ pc' = [pc EXCEPT ![c] = "savePause"]
      /\ UNCHANGED <<sid, ref, ask, acting, todo, got, sessions, world, ghosts>>
  BY DEF ToolBlocked, Driving
<1>2. got \in [Call -> Nat] /\ todo \in [Call -> Nat]
  BY DEF IInv, Rest
<1>3. /\ t \in Object /\ SoundObject(t) /\ t.provider
      /\ t.pending # None
  <2> DEFINE s == obj[ref[c]]
  <2>1. /\ s \in Object /\ SoundObject(s) /\ s.provider
        /\ s.ran < MaxToolCalls /\ s.toolCalls <= MaxToolCalls
        /\ got[c] + todo[c] + 1 <= s.open
    BY <1>1, DriverFacts DEF Driver
  <2>2. /\ t \in Object
        /\ t.pending = c /\ t.state = "WAITING_FOR_APPROVAL" /\ t.provider = s.provider
        /\ t.ran = s.ran /\ t.toolCalls = s.toolCalls /\ t.iterations = s.iterations
        /\ t.open = s.open
    BY <2>1 DEF Object, State
  <2>3. t.open >= 1
    BY <1>2, <2>1, <2>2 DEF Object
  <2> HIDE DEF s, t
  <2> QED
    BY <2>1, <2>2, <2>3, CallAssumption DEF SoundObject, Sound
<1>4. "savePause" \in Places \ Unborn /\ "savePause" \notin Driving
  BY DEF Places, Unborn, Driving
<1> HIDE DEF t
<1>5. Saves'
  BY <1>1, <1>3, PersistSaves
<1> QED
  BY <1>1, <1>2, <1>3, <1>4, <1>5, LoopStep

(* An approved tool ran under its own approval. *)
LEMMA ApprovedToolReturnsStep ==
    ASSUME IInv, NEW c \in Call, ApprovedToolReturns(c)
    PROVE  IInv'
<1> DEFINE s == obj[ref[c]]
           t == [s EXCEPT !.ran = @ + 1, !.open = @ - 1]
<1>1. /\ pc[c] = "tool" /\ pc[c] \in Driving
      /\ acting[c] # None
      /\ obj' = [obj EXCEPT ![ref[c]] = t]
      /\ Persist(c, t)
      /\ acting' = [acting EXCEPT ![c] = None]
      /\ pc' = [pc EXCEPT ![c] = "saveTurn"]
      /\ UNCHANGED <<sid, ref, ask, todo, got, sessions, world, decided>>
  BY DEF ApprovedToolReturns, Driving
<1>2. acting[c] \in Call /\ <<acting[c], TRUE>> \in decided
  BY <1>1 DEF IInv, Rest, Control, Decisions
<1>3. PICK n \in {0, 1} : effects' = [effects EXCEPT ![acting[c]] = @ + n]
  BY DEF ApprovedToolReturns
<1>4. /\ s \in Object /\ SoundObject(s) /\ s.provider /\ s.pending = None
      /\ s.state = "RUNNING" /\ s.ran < MaxToolCalls /\ s.ran < s.toolCalls /\ s.open >= 1
  BY <1>1, DriverFacts DEF Driver
<1>5. /\ t \in Object /\ t.provider = s.provider /\ t.pending = None /\ t.state = "RUNNING"
      /\ t.ran = s.ran + 1 /\ t.toolCalls = s.toolCalls /\ t.iterations = s.iterations
  <2> HIDE DEF s
  <2>1. s.ran + 1 \in Nat /\ s.open - 1 \in Nat
    BY <1>4 DEF Object
  <2>2. t \in Object
    BY <1>4, <2>1 DEF Object
  <2>3. /\ t.provider = s.provider /\ t.pending = s.pending /\ t.state = s.state
        /\ t.ran = s.ran + 1 /\ t.toolCalls = s.toolCalls /\ t.iterations = s.iterations
    BY <1>4 DEF Object
  <2> QED
    BY <1>4, <2>2, <2>3
<1>6. SoundObject(t) /\ t.provider
  <2> HIDE DEF s, t
  <2> QED
    BY <1>4, <1>5, LimitAssumption DEF Object, SoundObject, Sound
<1> HIDE DEF s, t
<1>7. Saves'
  BY <1>1, <1>5, <1>6, PersistSaves
<1>8. Control'
  <2>1. /\ ref' = [ref EXCEPT ![c] = ref[c]]
        /\ acting'[c] = None
        /\ \A d \in Call \ {c} : /\ acting'[d] = acting[d]
                                 /\ got'[d] = got[d]
                                 /\ todo'[d] = todo[d]
                                 /\ sid'[d] = sid[d]
    BY <1>1 DEF IInv, Control, Rest
  <2>2. "saveTurn" \in Places \ Unborn /\ "saveTurn" \notin Pausing
    BY DEF Places, Unborn, Pausing
  <2>3. Driver("saveTurn", acting'[c], got'[c] + todo'[c], t)
    BY <1>5, <1>6, <2>1 DEF Driver
  <2>4. \A a \in Call : effects'[a] > 0 => effects[a] > 0 \/ <<a, TRUE>> \in decided
    BY <1>2, <1>3 DEF IInv, Rest
  <2>5. decided \subseteq decided' /\ \A x \in Runs : sessions'[x] \in {sessions[x], ref[c]}
    BY <1>1
  <2>6. /\ ref[c] \in Call
        /\ pc[ref[c]] \notin Unborn
        /\ \A d \in Call \ {c} : pc[d] \in Driving => ref[d] # ref[c]
    BY <1>1, DriverFacts
  <2> QED
    BY <1>1, <1>5, <1>6, <2>1, <2>2, <2>3, <2>4, <2>5, <2>6, OneStep
<1>9. Rest'
  BY <1>1, <1>3 DEF IInv, Rest, world
<1> QED
  BY <1>7, <1>8, <1>9 DEF IInv

(* The second save of a pause: the object is whole even if it was resumed. *)
LEMMA BlockPersistStep ==
    ASSUME IInv, NEW c \in Call, BlockPersist(c)
    PROVE  IInv'
<1>1. /\ pc[c] = "paused" /\ pc[c] \in Pausing
      /\ Persist(c, obj[ref[c]])
      /\ pc' = [pc EXCEPT ![c] = "saveBlock"]
      /\ UNCHANGED <<sid, ref, ask, acting, todo, got, obj, sessions, world, ghosts>>
  BY DEF BlockPersist, Pausing
<1>2. /\ ref[c] \in Call /\ obj[ref[c]] \in Object
      /\ obj[ref[c]].provider /\ SoundObject(obj[ref[c]])
  BY <1>1 DEF IInv, Control, Pausers
<1>3. Saves'
  BY <1>1, <1>2, PersistSaves DEF SoundObject
<1>4. Control'
  <2>1. ref' = [ref EXCEPT ![c] = ref[c]] /\ pc[ref[c]] \notin Unborn
    BY <1>1, <1>2, CallAssumption DEF IInv, Control, Fresh
  <2>2. "saveBlock" \in Places \ {"idle", "load"} /\ "saveBlock" \notin Driving
    BY DEF Places, Driving
  <2> QED
    BY <1>1, <1>2, <2>1, <2>2, Bystander DEF ghosts
<1>5. Rest'
  BY <1>1 DEF IInv, Rest, world, ghosts
<1> QED
  BY <1>3, <1>4, <1>5 DEF IInv

(***************************************************************************)
(* The accepted half of Decide: c enters with object o, whose content is   *)
(* to be s and which nobody drives, because it offers its approval.        *)
(***************************************************************************)
LEMMA AcceptStep ==
    ASSUME IInv, NEW c \in Call, NEW o \in Call, NEW s \in Object,
           NEW d \in [id : Call \cup {None}, yes : BOOLEAN],
           pc[c] \in Unborn,
           SoundObject(s),
           Matches(s, d),
           Decide(c, o, s, d),
           ref' = [ref EXCEPT ![c] = o],
           o = c \/ pc[o] \notin Unborn,
           \A x \in Runs : sessions'[x] \in {sessions[x], o},
           \A e \in Call \ {c} : pc[e] \in Driving => ref[e] # o,
           \A e \in Call \ {c} : pc[e] \in Pausing /\ ref[e] = o => s.provider,
           \A e \in Call \ {c} : sid'[e] = sid[e],
           UNCHANGED <<todo, got, world, effects>>
    PROVE  /\ Control'
           /\ Saves'
           /\ acting' \in [Call -> Call \cup {None}]
           /\ decided' \in SUBSET (Call \X BOOLEAN)
<1>1. /\ s.state = "WAITING_FOR_APPROVAL" /\ s.pending # None /\ s.pending \in Call
      /\ d.id = s.pending
      /\ s.ran <= s.toolCalls /\ s.ran < MaxToolCalls /\ s.toolCalls <= MaxToolCalls
      /\ s.open >= 1 /\ s.iterations <= MaxIterations
  BY DEF Matches, SoundObject, Sound, Object
<1>2. acting[c] = None /\ acting \in [Call -> Call \cup {None}] /\ decided \in SUBSET (Call \X BOOLEAN)
  BY DEF IInv, Control, Rest, Fresh
<1>3. \A e \in Call \ {c} : got'[e] = got[e] /\ todo'[e] = todo[e] /\ sid'[e] = sid[e]
  OBVIOUS
<1>4. \A a \in Call : effects'[a] > 0 => effects[a] > 0 \/ <<a, TRUE>> \in decided
  OBVIOUS
<1>5. CASE ~d.yes
  <2> DEFINE t == [Consumed(s) EXCEPT !.state = "CANCELLED"]
  <2>1. /\ obj' = [obj EXCEPT ![o] = t]
        /\ Persist(c, t)
        /\ pc' = [pc EXCEPT ![c] = "done"]
        /\ decided' = decided \cup {<<d.id, FALSE>>}
        /\ acting' = acting
    BY <1>5 DEF Decide
  <2>2. /\ t \in Object /\ t.state = "CANCELLED" /\ t.pending = None /\ t.provider = s.provider
        /\ t.ran = s.ran /\ t.toolCalls = s.toolCalls /\ t.iterations = s.iterations
    BY DEF Consumed, Object, State, Terminal
  <2> HIDE DEF t
  <2>3. SoundObject(t)
    BY <1>1, <2>2, LimitAssumption DEF SoundObject, Sound, Object
  <2>4. Saves'
    BY <2>1, <2>2, <2>3, PersistSaves
  <2>5. "done" \in Places \ Unborn /\ "done" \notin Driving /\ "done" \notin Pausing
    BY DEF Places, Unborn, Driving, Pausing
  <2>6. \A e \in Call \ {c} : pc[e] \in Pausing /\ ref[e] = o => t.provider
    BY <2>2
  <2>7. \A e \in Call \ {c} : acting'[e] = acting[e]
    BY <2>1
  <2>8. acting'[c] # None => <<acting'[c], TRUE>> \in decided'
    BY <1>2, <2>1
  <2>9. decided \subseteq decided' /\ decided' \in SUBSET (Call \X BOOLEAN)
    <3>1. <<d.id, FALSE>> \in Call \X BOOLEAN
      BY <1>1
    <3> QED
      BY <1>2, <2>1, <3>1
  <2>10. Control'
    BY <1>3, <1>4, <2>1, <2>2, <2>3, <2>5, <2>6, <2>7, <2>8, <2>9, OneStep
  <2> QED
    BY <1>2, <2>1, <2>4, <2>9, <2>10
<1>6. CASE d.yes
  <2>1. /\ acting' = [acting EXCEPT ![c] = s.pending]
        /\ decided' = decided \cup {<<d.id, TRUE>>}
        /\ UNCHANGED saveVars
    BY <1>6 DEF Decide
  <2>2. /\ Saves'
        /\ acting' \in [Call -> Call \cup {None}]
        /\ decided \subseteq decided' /\ decided' \in SUBSET (Call \X BOOLEAN)
    <3>1. <<d.id, TRUE>> \in Call \X BOOLEAN
      BY <1>1
    <3>2. decided \subseteq decided' /\ decided' \in SUBSET (Call \X BOOLEAN)
      BY <1>2, <2>1, <3>1
    <3>3. acting' \in [Call -> Call \cup {None}]
      BY <1>1, <1>2, <2>1
    <3> QED
      BY <2>1, <3>2, <3>3, SavesUnchanged
  <2>3. /\ acting'[c] = s.pending /\ acting'[c] # None
        /\ \A e \in Call \ {c} : acting'[e] = acting[e]
        /\ <<acting'[c], TRUE>> \in decided'
    BY <1>1, <1>2, <2>1
  <2>4. CASE s.provider /\ StartTool(c, o, Running(s))
    <3> DEFINE r == Running(s)
               t == [r EXCEPT !.toolCalls = @ + 1]
    <3>1. /\ r \in Object /\ r.state = "RUNNING" /\ r.pending = None /\ r.provider = s.provider
          /\ r.ran = s.ran /\ r.toolCalls = s.toolCalls /\ r.iterations = s.iterations
          /\ r.open = s.open
      BY DEF Running, Consumed, Object, State
    <3>2. obj' = [obj EXCEPT ![o] = t] /\ pc' = [pc EXCEPT ![c] = "tool"]
      BY <2>4 DEF StartTool
    <3> HIDE DEF r
    <3>3. /\ t \in Object /\ t.state = "RUNNING" /\ t.pending = None /\ t.provider = s.provider
          /\ t.ran = s.ran /\ t.toolCalls = s.toolCalls + 1 /\ t.iterations = s.iterations
          /\ t.open = s.open
      BY <3>1 DEF Object
    <3> HIDE DEF t
    <3>4. SoundObject(t) /\ t.provider
      BY <1>1, <2>4, <3>3, LimitAssumption DEF SoundObject, Sound, Object
    <3>5. Driver("tool", acting'[c], got'[c] + todo'[c], t)
      BY <1>1, <2>3, <3>3, <3>4 DEF Driver, Object
    <3>6. "tool" \in Places \ Unborn /\ "tool" \notin Pausing
      BY DEF Places, Unborn, Pausing
    <3>7. /\ t \in Object /\ SoundObject(t)
          /\ "tool" \in Driving => Driver("tool", acting'[c], got'[c] + todo'[c], t)
      BY <3>3, <3>4, <3>5
    <3>8. /\ o = c \/ pc[o] \notin Unborn
          /\ ref' = [ref EXCEPT ![c] = o]
          /\ \A x \in Runs : sessions'[x] \in {sessions[x], o}
          /\ \A e \in Call \ {c} : pc[e] \in Driving => ref[e] # o
      OBVIOUS
    <3>9. \A e \in Call \ {c} : /\ acting'[e] = acting[e] /\ got'[e] = got[e]
                                 /\ todo'[e] = todo[e] /\ sid'[e] = sid[e]
      BY <1>3, <2>3
    <3>10. \A e \in Call \ {c} : pc[e] \in Pausing /\ ref[e] = o => t.provider
      BY <3>3
    <3>11. /\ acting'[c] # None => <<acting'[c], TRUE>> \in decided'
           /\ decided \subseteq decided'
      BY <2>2, <2>3
    <3>12. Control'
      BY ONLY IInv, c \in Call, o \in Call, <1>4, <3>2, <3>6, <3>7, <3>8, <3>9, <3>10, <3>11,
              OneStep
    <3> QED
      BY <2>2, <3>12
  <2>5. CASE /\ ~s.provider
             /\ obj' = [obj EXCEPT ![o] = Consumed(s)]
             /\ pc' = [pc EXCEPT ![c] = "provider"]
    <3> DEFINE t == Consumed(s)
    <3>1. /\ t \in Object /\ t.state = s.state /\ t.pending = None /\ t.provider = s.provider
          /\ t.ran = s.ran /\ t.toolCalls = s.toolCalls /\ t.iterations = s.iterations
          /\ t.open = s.open
      BY DEF Consumed, Object
    <3> HIDE DEF t
    <3>2. SoundObject(t) /\ ~t.provider
      BY <1>1, <2>5, <3>1, LimitAssumption DEF SoundObject, Sound, Object
    <3>3. Driver("provider", acting'[c], got'[c] + todo'[c], t)
      BY <1>1, <2>3, <3>1, <3>2 DEF Driver
    <3>4. "provider" \in Places \ Unborn /\ "provider" \notin Pausing
      BY DEF Places, Unborn, Pausing
    <3>5. obj' = [obj EXCEPT ![o] = t]
      BY <2>5 DEF t
    <3>6. \A e \in Call \ {c} : pc[e] \in Pausing /\ ref[e] = o => t.provider
      BY <3>1
    <3>7. Control'
      BY <1>3, <1>4, <2>2, <2>3, <2>5, <3>1, <3>2, <3>3, <3>4, <3>5, <3>6, OneStep
    <3> QED
      BY <2>2, <3>7
  <2> QED
    BY <1>6, <2>4, <2>5 DEF Decide
<1> QED
  BY <1>5, <1>6

(* resume() on a session in memory. *)
LEMMA ResumeStep ==
    ASSUME IInv, NEW c \in Resumes, NEW x \in Runs, NEW a \in Call \cup {None},
           NEW yes \in BOOLEAN, Resume(c, x, a, yes)
    PROVE  IInv'
<1> DEFINE o == sessions[x]
           s == obj[o]
           d == [id |-> a, yes |-> yes]
<1>1. /\ pc[c] = "idle"
      /\ sid' = [sid EXCEPT ![c] = x]
      /\ ref' = [ref EXCEPT ![c] = o]
      /\ Decide(c, o, s, d)
      /\ UNCHANGED <<ask, todo, got, sessions, world, effects>>
  BY DEF Resume
<1>2. /\ c \in Call /\ o \in Call /\ pc[o] \notin Unborn /\ pc[c] \in Unborn
      /\ s \in Object /\ SoundObject(s)
      /\ d \in [id : Call \cup {None}, yes : BOOLEAN]
  BY <1>1 DEF Resume, IInv, Rest, Control, Fresh, Unborn
<1>3. \A e \in Call \ {c} : sid'[e] = sid[e]
  BY <1>1 DEF IInv, Rest
<1>4. /\ Control' /\ Saves'
      /\ acting' \in [Call -> Call \cup {None}]
      /\ decided' \in SUBSET (Call \X BOOLEAN)
  <2>1. CASE Matches(s, d)
    <3>1. \A e \in Call \ {c} : pc[e] \in Driving => ref[e] # o
      BY <2>1 DEF Matches, IInv, Control, Drivers, Driver
    <3>2. \A e \in Call \ {c} : pc[e] \in Pausing /\ ref[e] = o => s.provider
      BY DEF IInv, Control, Pausers
    <3> HIDE DEF o, s, d
    <3> QED
      BY <1>1, <1>2, <1>3, <2>1, <3>1, <3>2, AcceptStep
  <2>2. CASE ~Matches(s, d)
    <3>1. /\ obj' = [obj EXCEPT ![o] = s]
          /\ pc' = [pc EXCEPT ![c] = "threw"]
          /\ UNCHANGED <<saveVars, acting, decided>>
      BY <1>1, <2>2 DEF Decide
    <3>2. obj' = obj
      BY <3>1 DEF IInv, Control
    <3>3. "threw" \in Places \ {"idle", "load"} /\ "threw" \notin Driving /\ "threw" \notin Pausing
      BY DEF Places, Driving, Pausing
    <3> HIDE DEF o
    <3>4. Control'
      BY <1>1, <1>2, <1>3, <3>1, <3>2, <3>3, Bystander
    <3> QED
      BY <3>1, <3>4, SavesUnchanged DEF IInv, Rest
  <2> QED
    BY <2>1, <2>2
<1>5. Rest'
  BY <1>1, <1>2, <1>4 DEF IInv, Rest, world
<1> QED
  BY <1>4, <1>5 DEF IInv

(* resume() on a session that is not in memory. *)
LEMMA ResumeUnknownStep ==
    ASSUME IInv, NEW c \in Resumes, NEW x \in Runs, NEW a \in Call \cup {None},
           NEW yes \in BOOLEAN, ResumeUnknown(c, x, a, yes)
    PROVE  IInv'
<1>1. /\ c \in Call
      /\ pc[c] = "idle"
      /\ sid' = [sid EXCEPT ![c] = x]
      /\ ask' = [ask EXCEPT ![c] = [id |-> a, yes |-> yes]]
      /\ pc' = [pc EXCEPT ![c] = "load"]
      /\ UNCHANGED <<ref, acting, todo, got, obj, sessions, saveVars, world, ghosts>>
  BY DEF ResumeUnknown
<1>2. /\ ref' = [ref EXCEPT ![c] = ref[c]]
      /\ ref[c] \in Call \cup {None}
      /\ ref[c] # None => pc[ref[c]] \notin Unborn
  BY <1>1 DEF IInv, Control, Fresh
<1>3. sid'[c] \in Runs /\ \A e \in Call \ {c} : sid'[e] = sid[e]
  BY <1>1 DEF IInv, Rest
<1>4. "load" \in Places \ {"idle"} /\ "load" \notin Driving /\ "load" \notin Pausing
  BY DEF Places, Driving, Pausing
<1>5. Control'
  BY <1>1, <1>2, <1>3, <1>4, Bystander DEF ghosts
<1>6. Rest'
  BY <1>1 DEF IInv, Rest, world, ghosts
<1> QED
  BY <1>1, <1>5, <1>6, SavesUnchanged DEF IInv

(* A record becomes an object that only its resume() knows. *)
LEMMA LoadStep ==
    ASSUME IInv, NEW c \in Call, Load(c)
    PROVE  IInv'
<1> DEFINE x == sid[c]
           s == fromRecord(store[x])
           d == ask[c]
<1>1. /\ pc[c] = "load"
      /\ ref' = [ref EXCEPT ![c] = c]
      /\ sessions' = [sessions EXCEPT ![x] = c]
      /\ Decide(c, c, s, d)
      /\ ask' = [ask EXCEPT ![c] = NoAsk]
      /\ UNCHANGED <<sid, todo, got, world, effects>>
  BY DEF Load
<1>2. /\ pc[c] \in Unborn /\ x \in Runs /\ acting[c] = None
      /\ d \in [id : Call \cup {None}, yes : BOOLEAN]
      /\ store[x] \in Record /\ SoundRecord(store[x])
  BY <1>1 DEF IInv, Rest, Saves, Control, Fresh, Unborn
<1>3. s \in Object /\ SoundObject(s)
  BY <1>2 DEF fromRecord, Object, Record, SoundObject, SoundRecord, Sound
<1>4. \A e \in Call : ref[e] # c
  BY <1>2, CallAssumption DEF IInv, Control, Fresh
<1>5. \A y \in Runs : sessions'[y] \in {sessions[y], c}
  BY <1>1 DEF IInv, Rest
<1> HIDE DEF s, d
<1>6. /\ Control' /\ Saves'
      /\ acting' \in [Call -> Call \cup {None}]
      /\ decided' \in SUBSET (Call \X BOOLEAN)
  <2>1. CASE Matches(s, d)
    BY <1>1, <1>2, <1>3, <1>4, <1>5, <2>1, AcceptStep
  <2>2. CASE ~Matches(s, d)
    <3>1. /\ obj' = [obj EXCEPT ![c] = s]
          /\ pc' = [pc EXCEPT ![c] = "threw"]
          /\ UNCHANGED <<saveVars, acting, decided>>
      BY <1>1, <2>2 DEF Decide
    <3>2. "threw" \in Places \ Unborn /\ "threw" \notin Driving /\ "threw" \notin Pausing
      BY DEF Places, Unborn, Driving, Pausing
    <3>3. \A e \in Call \ {c} : /\ acting'[e] = acting[e]
                                /\ got'[e] = got[e]
                                /\ todo'[e] = todo[e]
                                /\ sid'[e] = sid[e]
      BY <1>1, <3>1
    <3>4. acting'[c] = None /\ decided \subseteq decided'
      BY <1>2, <3>1
    <3>5. \A a \in Call : effects'[a] > 0 => effects[a] > 0 \/ <<a, TRUE>> \in decided
      BY <1>1
    <3>6. Control'
      BY <1>1, <1>2, <1>3, <1>4, <1>5, <3>1, <3>2, <3>3, <3>4, <3>5, OneStep
    <3> QED
      BY <3>1, <3>6, SavesUnchanged DEF IInv, Rest
  <2> QED
    BY <2>1, <2>2
<1>7. Rest'
  BY <1>1, <1>6 DEF IInv, Rest, world, NoAsk
<1> QED
  BY <1>6, <1>7 DEF IInv

(* The two failures that end a resume() and change nothing. *)
LEMMA RejectStep ==
    ASSUME IInv, NEW c \in Call, Reject(c),
           pc[c] \in {"load", "provider"},
           ask' \in [Call -> [id : Call \cup {None}, yes : BOOLEAN]],
           UNCHANGED <<sid, ref, todo, got, world, effects>>
    PROVE  IInv'
<1>1. /\ pc' = [pc EXCEPT ![c] = "threw"]
      /\ UNCHANGED <<obj, sessions, saveVars, acting, decided>>
  BY DEF Reject
<1>2. /\ ref' = [ref EXCEPT ![c] = ref[c]]
      /\ ref[c] \in Call \cup {None}
      /\ ref[c] # None => pc[ref[c]] \notin Unborn
  BY DEF IInv, Control, Fresh
<1>3. "threw" \in Places \ {"idle", "load"} /\ "threw" \notin Driving /\ "threw" \notin Pausing
  BY DEF Places, Driving, Pausing
<1>4. Control'
  BY <1>1, <1>2, <1>3, Bystander
<1>5. Rest'
  BY <1>1 DEF IInv, Rest, world
<1> QED
  BY <1>1, <1>4, <1>5, SavesUnchanged DEF IInv

(* A record that cannot be read. *)
LEMMA LoadThrowsStep ==
    ASSUME IInv, NEW c \in Call, LoadThrows(c)
    PROVE  IInv'
  BY RejectStep DEF LoadThrows, IInv, Rest, NoAsk

(* A provider that cannot be rebuilt. *)
LEMMA ProviderThrowsStep ==
    ASSUME IInv, NEW c \in Call, ProviderThrows(c)
    PROVE  IInv'
  BY RejectStep DEF ProviderThrows, IInv, Rest

(* The approved tool starts on a reconstructed session. *)
LEMMA ProviderReadyStep ==
    ASSUME IInv, NEW c \in Call, ProviderReady(c)
    PROVE  IInv'
<1> DEFINE s == obj[ref[c]]
           r == [s EXCEPT !.provider = TRUE, !.state = "RUNNING"]
           t == [r EXCEPT !.toolCalls = @ + 1]
<1>1. /\ pc[c] = "provider" /\ pc[c] \in Driving
      /\ obj' = [obj EXCEPT ![ref[c]] = t]
      /\ pc' = [pc EXCEPT ![c] = "tool"]
      /\ UNCHANGED <<sid, ref, ask, acting, todo, got, sessions, saveVars, world, ghosts>>
  BY DEF ProviderReady, StartTool, Driving
<1>2. /\ s \in Object /\ SoundObject(s) /\ s.pending = None
      /\ s.ran < MaxToolCalls /\ s.toolCalls <= MaxToolCalls /\ s.open >= 1
      /\ acting[c] # None
  BY <1>1, DriverFacts DEF Driver
<1>3. /\ r \in Object /\ r.provider = TRUE /\ r.state = "RUNNING" /\ r.pending = s.pending
      /\ r.ran = s.ran /\ r.toolCalls = s.toolCalls /\ r.iterations = s.iterations
      /\ r.open = s.open
  BY <1>2 DEF Object, State
<1> HIDE DEF r
<1>4. /\ t \in Object /\ t.provider = TRUE /\ t.state = "RUNNING" /\ t.pending = None
      /\ t.ran = s.ran /\ t.toolCalls = s.toolCalls + 1 /\ t.iterations = s.iterations
      /\ t.open = s.open
  BY <1>2, <1>3 DEF Object
<1> HIDE DEF t, s
<1>5. SoundObject(t) /\ t.provider
  BY <1>2, <1>4, LimitAssumption DEF SoundObject, Sound, Object
<1>6. Driver("tool", acting'[c], got'[c] + todo'[c], t)
  BY <1>1, <1>2, <1>4, <1>5 DEF Driver, Object, SoundObject, Sound
<1>7. Control'
  <2>1. /\ ref' = [ref EXCEPT ![c] = ref[c]]
        /\ acting[c] # None => <<acting[c], TRUE>> \in decided
    BY <1>1 DEF IInv, Control, Decisions
  <2>2. /\ ref[c] \in Call
        /\ pc[ref[c]] \notin Unborn
        /\ \A d \in Call \ {c} : pc[d] \in Driving => ref[d] # ref[c]
    BY <1>1, DriverFacts
  <2>3. /\ acting' = acting /\ got' = got /\ todo' = todo /\ sid' = sid /\ sessions' = sessions
        /\ effects' = effects /\ decided' = decided
    BY <1>1 DEF ghosts
  <2>4. \A d \in Call \ {c} : /\ acting'[d] = acting[d]
                              /\ got'[d] = got[d]
                              /\ todo'[d] = todo[d]
                              /\ sid'[d] = sid[d]
    BY <2>3
  <2>5. "tool" \in Places \ Unborn /\ "tool" \notin Pausing
    BY DEF Places, Unborn, Pausing
  <2>6. \A x \in Runs : sessions'[x] \in {sessions[x], ref[c]}
    BY <2>3
  <2>7. /\ decided \subseteq decided'
        /\ \A a \in Call : effects'[a] > 0 => effects[a] > 0 \/ <<a, TRUE>> \in decided
        /\ acting'[c] # None => <<acting'[c], TRUE>> \in decided'
    BY <2>1, <2>3
  <2> QED
    BY <1>1, <1>4, <1>5, <1>6, <2>1, <2>2, <2>4, <2>5, <2>6, <2>7, OneStep
<1>8. Rest'
  BY <1>1 DEF IInv, Rest, world, ghosts
<1> QED
  BY <1>1, <1>7, <1>8, SavesUnchanged DEF IInv

(* cancel() only raises a flag that no part of the invariant reads. *)
LEMMA cancelStep ==
    ASSUME IInv, NEW x \in Runs, cancel(x)
    PROVE  IInv'
<1> DEFINE o == sessions[x]
           s == obj[o]
           t == [s EXCEPT !.cancelled = TRUE]
<1>1. /\ o \in Call
      /\ obj' = [obj EXCEPT ![o] = t]
      /\ UNCHANGED <<callVars, sessions, saveVars, world, ghosts>>
  BY DEF cancel, IInv, Rest
<1>2. s \in Object /\ SoundObject(s)
  BY <1>1 DEF IInv, Control
<1>3. /\ t \in Object /\ t.provider = s.provider /\ t.state = s.state /\ t.pending = s.pending
      /\ t.ran = s.ran /\ t.toolCalls = s.toolCalls /\ t.iterations = s.iterations
      /\ t.open = s.open
  BY <1>2 DEF Object
<1> HIDE DEF t, s, o
<1>4. SoundObject(t)
  BY <1>2, <1>3 DEF SoundObject, Sound
<1>5. \A p, a, n : Driver(p, a, n, s) => Driver(p, a, n, t)
  BY <1>3 DEF Driver
<1>6. obj' \in [Call -> Object] /\ \A e \in Call : SoundObject(obj'[e])
  BY <1>1, <1>3, <1>4 DEF IInv, Control
<1>7. obj'[o] = t /\ obj[o] = s /\ \A e \in Call : e # o => obj'[e] = obj[e]
  BY <1>1 DEF IInv, Control, s
<1>8. /\ pc' = pc /\ ref' = ref /\ acting' = acting /\ got' = got /\ todo' = todo
      /\ sid' = sid /\ ask' = ask
  BY <1>1 DEF callVars
<1>9. Drivers'
  <2> SUFFICES ASSUME NEW d \in Call, pc[d] \in Driving
               PROVE  /\ ref[d] \in Call
                      /\ Driver(pc[d], acting[d], got[d] + todo[d], obj'[ref[d]])
                      /\ \A e \in Call \ {d} : pc[e] \in Driving => ref[e] # ref[d]
    BY <1>8 DEF Drivers
  <2>1. /\ ref[d] \in Call
        /\ Driver(pc[d], acting[d], got[d] + todo[d], obj[ref[d]])
        /\ \A e \in Call \ {d} : pc[e] \in Driving => ref[e] # ref[d]
    BY DEF IInv, Control, Drivers
  <2>2. CASE ref[d] = o
    BY <1>5, <1>7, <2>1, <2>2
  <2>3. CASE ref[d] # o
    BY <1>7, <2>1, <2>3
  <2> QED
    BY <2>2, <2>3
<1>10. Pausers'
  BY <1>3, <1>7, <1>8 DEF IInv, Control, Pausers
<1>11. Fresh' /\ Decisions'
  BY <1>1, <1>8 DEF IInv, Control, Fresh, Decisions, EffectNeedsItsApproval, ghosts
<1>12. Control'
  BY <1>6, <1>8, <1>9, <1>10, <1>11 DEF IInv, Control
<1>13. Rest'
  BY <1>1, <1>8 DEF IInv, Rest, world, ghosts
<1> QED
  BY <1>1, <1>12, <1>13, SavesUnchanged DEF IInv

(* A save that lands stores a sound record; one that fails stores none. *)
LEMMA SaveEndsStep ==
    ASSUME IInv, NEW c \in Call, SaveEnds(c),
           store' \in {store, [store EXCEPT ![sid[c]] = rec[c]]},
           unsaved' \in BOOLEAN
    PROVE  IInv'
<1>1. /\ writing' = writing \ {c}
      /\ ahead' = [d \in Call |-> ahead[d] \ {c}]
      /\ rec' = [rec EXCEPT ![c] = NoRecord]
      /\ UNCHANGED <<sid, ref, ask, acting, todo, got, obj, sessions, late, restarts, ordered, ghosts>>
  BY DEF SaveEnds
<1>2. NoRecord \in Record /\ SoundRecord(NoRecord)
  BY NewSession, Snapshot DEF NoRecord, Blank, CodingAgentSession
<1>3. Saves'
  <2>1. store' \in [Runs -> Record] /\ \A x \in Runs : SoundRecord(store'[x])
    BY DEF IInv, Saves
  <2>2. rec' \in [Call -> Record] /\ \A d \in Call : SoundRecord(rec'[d])
    BY <1>1, <1>2 DEF IInv, Saves
  <2>3. writing' \in SUBSET Call /\ ahead' \in [Call -> SUBSET Call]
    BY <1>1 DEF IInv, Saves
  <2> QED
    BY <2>1, <2>2, <2>3 DEF Saves
<1>4. PICK p : /\ pc' = [pc EXCEPT ![c] = p]
               /\ \/ pc[c] = "saveTurn" /\ p = "top"
                  \/ pc[c] = "savePause" /\ p = "paused"
                  \/ pc[c] = "saveBlock" /\ p = "done"
                  \/ pc[c] \notin {"saveTurn", "savePause", "saveBlock"} /\ p = pc[c]
  BY DEF SaveEnds, IInv, Control
<1>5. Control'
  <2>1. /\ ref' = [ref EXCEPT ![c] = ref[c]]
        /\ ref[c] \in Call \cup {None}
        /\ ref[c] # None => pc[ref[c]] \notin Unborn
        /\ pc[c] \in Places
    BY <1>1 DEF IInv, Control, Fresh
  <2>2. CASE p = pc[c]
    <3>1. pc' = pc
      BY <1>4, <2>2 DEF IInv, Control
    <3> QED
      BY <1>1, <3>1 DEF IInv, Control, Drivers, Pausers, Fresh, Decisions,
            EffectNeedsItsApproval, ghosts
  <2>3. CASE p # pc[c]
    <3>1. p \in {"top", "paused", "done"}
      BY <1>4, <2>3
    <3>2. p \in Places \ {"idle"} /\ p # "load"
      BY <3>1 DEF Places
    <3>3. p \in Driving => /\ pc[c] \in Driving
                           /\ Driver(p, acting[c], got[c] + todo[c], obj[ref[c]])
      BY <1>4, <3>1, DriverFacts DEF Driving, Driver
    <3>4. p \in Pausing => pc[c] \in Pausing
      BY <1>4, <3>1 DEF Pausing
    <3>5. /\ acting' = acting /\ got' = got /\ todo' = todo /\ sid' = sid /\ sessions' = sessions
          /\ effects' = effects /\ decided' = decided /\ obj' = obj
      BY <1>1 DEF ghosts
    <3> QED
      BY <1>4, <2>1, <3>2, <3>3, <3>4, <3>5, Bystander
  <2> QED
    BY <2>2, <2>3
<1>6. Rest'
  BY <1>1 DEF IInv, Rest, ghosts
<1> QED
  BY <1>3, <1>5, <1>6 DEF IInv

(* Time passes. *)
LEMMA RuntimeElapsesStep ==
    ASSUME IInv, NEW x \in Runs, RuntimeElapses(x)
    PROVE  IInv'
<1>1. /\ late' \in SUBSET Runs
      /\ UNCHANGED <<callVars, obj, sessions, saveVars, restarts, ordered, unsaved, ghosts>>
  BY DEF RuntimeElapses, IInv, Rest
<1>2. Control'
  BY <1>1 DEF IInv, Control, Drivers, Pausers, Fresh, Decisions, EffectNeedsItsApproval,
        callVars, ghosts
<1>3. Rest'
  BY <1>1 DEF IInv, Rest, callVars, ghosts
<1> QED
  BY <1>1, <1>2, <1>3, SavesUnchanged DEF IInv

(* A restart leaves only what the repository holds, which is sound. *)
LEMMA RestartStep ==
    ASSUME IInv, Restart
    PROVE  IInv'
<1>1. /\ pc' = [c \in Call |-> IF pc[c] \in {"idle", "done", "threw"} THEN pc[c] ELSE "lost"]
      /\ obj' = [c \in Call |-> Blank]
      /\ sessions' = [x \in Runs |-> None]
      /\ writing' = {} /\ ahead' = [c \in Call |-> {}] /\ rec' = [c \in Call |-> NoRecord]
      /\ restarts' = restarts + 1
      /\ UNCHANGED <<sid, ref, ask, acting, todo, got, store, late, ordered, unsaved, ghosts>>
  BY DEF Restart
<1>2. NoRecord \in Record /\ SoundRecord(NoRecord) /\ Blank \in Object /\ SoundObject(Blank)
  BY NewSession, Snapshot DEF NoRecord, Blank, CodingAgentSession
<1>3. Saves'
  BY <1>1, <1>2 DEF IInv, Saves
<1>4. Control'
  <2>1. /\ pc' \in [Call -> Places]
        /\ \A c \in Call : pc'[c] \notin Driving /\ pc'[c] \notin Pausing /\ pc'[c] # "load"
        /\ \A c \in Call : pc'[c] = "idle" => pc[c] = "idle"
    BY <1>1 DEF IInv, Control, Places, Driving, Pausing
  <2>2. /\ ref' \in [Call -> Call \cup {None}]
        /\ obj' \in [Call -> Object]
        /\ \A c \in Call : SoundObject(obj'[c])
    BY <1>1, <1>2 DEF IInv, Control
  <2>3. Drivers' /\ Pausers'
    BY <2>1 DEF Drivers, Pausers
  <2>4. \A c \in Call : ref'[c] # None => pc'[ref'[c]] \notin Unborn
    BY <1>1, <2>1 DEF IInv, Control, Fresh, Unborn
  <2>5. Fresh'
    BY <1>1, <2>1, <2>4 DEF IInv, Control, Fresh, Unborn
  <2>6. Decisions'
    BY <1>1 DEF IInv, Control, Decisions, EffectNeedsItsApproval, ghosts
  <2> QED
    BY <2>1, <2>2, <2>3, <2>5, <2>6 DEF Control
<1>5. Rest'
  BY <1>1 DEF IInv, Rest, ghosts
<1> QED
  BY <1>3, <1>4, <1>5 DEF IInv

-----------------------------------------------------------------------------
(* The invariant holds initially, and every step keeps it. *)

(* The invariant holds initially. *)
LEMMA InitInv == Init => IInv
<1> SUFFICES ASSUME Init PROVE IInv
  OBVIOUS
<1>1. /\ Blank \in Object /\ SoundObject(Blank)
      /\ NoRecord \in Record /\ SoundRecord(NoRecord)
  BY NewSession, Snapshot DEF NoRecord, Blank, CodingAgentSession
<1>2. Control
  BY <1>1 DEF Init, Control, Places, Drivers, Driving, Pausers, Pausing, Fresh, Decisions,
        EffectNeedsItsApproval
<1>3. Saves
  BY <1>1 DEF Init, Saves
<1>4. Rest
  BY DEF Init, Rest, NoAsk
<1> QED
  BY <1>2, <1>3, <1>4 DEF IInv

(* Every step keeps the invariant: one step of the proof for each action. *)
LEMMA StepInv == IInv /\ [Next]_vars => IInv'
<1> SUFFICES ASSUME IInv, [Next]_vars PROVE IInv'
  OBVIOUS
<1>1. CASE UNCHANGED vars
  BY <1>1 DEF vars, IInv, Control, Saves, Rest, Drivers, Pausers, Fresh, Decisions,
        EffectNeedsItsApproval
<1>2. ASSUME NEW c \in Runs, Run(c) PROVE IInv'
  BY <1>2, RunStep
<1>3. ASSUME NEW c \in Call, Progress(c) PROVE IInv'
  BY <1>3, LoopTopStep, ModelTurnStep, ModelThrowsStep, NextCallStep, TurnAnsweredStep,
     ToolReturnsStep, ToolBlockedStep, ApprovedToolReturnsStep, BlockPersistStep, LoadStep,
     LoadThrowsStep, ProviderReadyStep, ProviderThrowsStep DEF Progress
<1>4. ASSUME NEW c \in Call, SaveLands(c) \/ SaveFails(c) PROVE IInv'
  BY <1>4, SaveEndsStep DEF SaveLands, SaveFails, IInv, Rest
<1>5. ASSUME NEW c \in Resumes, NEW x \in Runs, NEW a \in Call \cup {None}, NEW yes \in BOOLEAN,
             Resume(c, x, a, yes) \/ ResumeUnknown(c, x, a, yes)
      PROVE  IInv'
  BY <1>5, ResumeStep, ResumeUnknownStep
<1>6. ASSUME NEW x \in Runs, cancel(x) \/ RuntimeElapses(x) PROVE IInv'
  BY <1>6, cancelStep, RuntimeElapsesStep
<1>7. CASE Restart
  BY <1>7, RestartStep
<1> QED
  BY <1>1, <1>2, <1>3, <1>4, <1>5, <1>6, <1>7 DEF Next

(* Every reachable state of the runtime satisfies the inductive invariant. *)
THEOREM Invariance == Spec => []IInv
  BY InitInv, StepInv, PTL DEF Spec

-----------------------------------------------------------------------------
(* What follows from it *)

(* Every variable holds values of its kind. *)
THEOREM TypeCorrect == Spec => []TypeOK
<1>1. IInv => TypeOK
  BY DEF IInv, Control, Saves, Rest, TypeOK
<1> QED
  BY <1>1, Invariance, PTL

(* The limits of a session hold across pauses, resumes and restarts. *)
THEOREM LimitsHold == Spec => []Limits
<1>1. IInv => Limits
  BY DEF IInv, Control, Saves, Limits, WithinLimits, SoundObject, SoundRecord, Sound
<1> QED
  BY <1>1, Invariance, PTL

(* A session object has one driver, and offers no approval meanwhile. *)
THEOREM OneDriver == Spec => []SingleDriver
<1>1. IInv => SingleDriver
  BY DEF IInv, Control, Drivers, Driver, SingleDriver
<1> QED
  BY <1>1, Invariance, PTL

(* A stored pause carries its approval. *)
THEOREM StoredApproval == Spec => []StoredApprovalIsWhole
<1>1. IInv => StoredApprovalIsWhole
  BY DEF IInv, Saves, SoundRecord, StoredApprovalIsWhole
<1> QED
  BY <1>1, Invariance, PTL

(* A refused action takes effect only under its own approval. *)
THEOREM EffectApproved == Spec => []EffectNeedsItsApproval
<1>1. IInv => EffectNeedsItsApproval
  BY DEF IInv, Control, Decisions
<1> QED
  BY <1>1, Invariance, PTL
-----------------------------------------------------------------------------
(***************************************************************************)
(* One life of the process.  That an approval is resolved once rests on    *)
(* where the invocation that asked for it stands: an approval is offered   *)
(* by one object, before anybody decided it, and decided before anybody    *)
(* acts on it; who acts on it is the only one to, and has no effect yet.   *)
(* A restart breaks this, since the record brings the approval back.       *)
(***************************************************************************)
Asked == {"savePause", "paused", "saveBlock", "done"}

Offers ==
    \A o \in Call : obj[o].pending # None =>
        /\ ref[obj[o].pending] = o
        /\ pc[obj[o].pending] \in Asked
        /\ \A yes \in BOOLEAN : <<obj[o].pending, yes>> \notin decided

Settled ==
    \A a \in Call : /\ \A yes \in BOOLEAN : <<a, yes>> \in decided => pc[a] \in Asked
                    /\ <<a, TRUE>> \in decided => <<a, FALSE>> \notin decided

Acts ==
    /\ \A c, d \in Call : acting[c] # None /\ acting[c] = acting[d] => c = d
    /\ \A a \in Call : /\ effects[a] <= 1
                       /\ effects[a] = 1 => \A c \in Call : acting[c] # a

(* No session has left the memory: no resume() needs its record. *)
InMemory ==
    /\ \A c \in Call : pc[c] # "load"
    /\ \A x \in Runs : sid[x] = x => sessions[x] # None

Once == Offers /\ Settled /\ Acts /\ InMemory

(* A step that asks for, decides and performs nothing. *)
Still ==
    /\ \A o \in Call : obj'[o].pending = obj[o].pending
    /\ UNCHANGED <<acting, effects, decided>>

(* A step that decides on the approval a that o offers; c is to perform it. *)
Takes(c, o, a, yes) ==
    /\ a \in Call /\ o \in Call
    /\ obj[o].pending = a
    /\ obj'[o].pending = None
    /\ \A e \in Call \ {o} : obj'[e].pending = obj[e].pending
    /\ acting[c] = None
    /\ acting' = IF yes THEN [acting EXCEPT ![c] = a] ELSE acting
    /\ decided' = decided \cup {<<a, yes>>}
    /\ effects' = effects

(* The types, as they follow from the invariant. *)
LEMMA Types == IInv => TypeOK
  BY DEF IInv, Control, Saves, Rest, TypeOK

(* A step that decides nothing, and takes nobody back from where he asked. *)
LEMMA QuietOnce ==
    ASSUME Once, Still,
           \A a \in Call : pc[a] \in Asked => pc'[a] \in Asked /\ ref'[a] = ref[a],
           obj \in [Call -> Object],
           InMemory'
    PROVE  Once'
<1>1. Offers'
  BY DEF Once, Offers, Object, Still
<1>2. Settled' /\ Acts'
  BY DEF Once, Settled, Acts, Still
<1> QED
  BY <1>1, <1>2 DEF Once

(* A step of c within the loops of _loop, up to a pause or the end. *)
LEMMA QuietStep ==
    ASSUME IInv, Once, NEW c \in Call, NEW p \in Places \ {"load"},
           pc' = [pc EXCEPT ![c] = p],
           pc[c] \in Asked => p \in Asked,
           \A o \in Call : obj'[o].pending = obj[o].pending,
           \A x \in Runs : sessions[x] # None => sessions'[x] # None,
           UNCHANGED <<sid, ref, acting, effects, decided>>
    PROVE  Once' /\ Still
<1>1. TypeOK
  BY Types
<1>2. InMemory'
  BY <1>1 DEF Once, InMemory, TypeOK
<1>3. Still
  BY DEF Still
<1> QED
  BY <1>1, <1>2, <1>3, QuietOnce DEF TypeOK

(* _finish. *)
LEMMA QuietFinish ==
    ASSUME IInv, Once, NEW c \in Call, NEW st, pc[c] \in Driving, Finish(c, obj[ref[c]], st),
           UNCHANGED <<sid, ref, acting, effects, decided>>
    PROVE  Once' /\ Still
<1>1. /\ TypeOK /\ ref[c] \in Call /\ obj[ref[c]] \in Object
      /\ obj' = [obj EXCEPT ![ref[c]] = [obj[ref[c]] EXCEPT !.state = st]]
      /\ pc' = [pc EXCEPT ![c] = "done"]
      /\ sessions' = [sessions EXCEPT ![sid[c]] = ref[c]]
  BY Types, DriverFacts DEF Finish
<1>2. \A o \in Call : obj'[o].pending = obj[o].pending
  BY <1>1 DEF TypeOK, Object
<1>3. \A x \in Runs : sessions[x] # None => sessions'[x] # None
  BY <1>1, CallAssumption DEF TypeOK
<1>4. "done" \in Places \ {"load"} /\ pc[c] \notin Asked
  BY DEF Places, Asked, Driving
<1> QED
  BY <1>1, <1>2, <1>3, <1>4, QuietStep

(* The steps of _loop and of a tool that was not refused. *)
LEMMA LoopOnce ==
    ASSUME IInv, Once, NEW c \in Call,
           LoopTop(c) \/ ModelTurn(c) \/ ModelThrows(c) \/ NextCall(c) \/ TurnAnswered(c)
             \/ ToolReturns(c) \/ BlockPersist(c) \/ ProviderReady(c) \/ ProviderThrows(c)
    PROVE  Once' /\ Still
<1> USE DEF ghosts
<1>1. /\ TypeOK
      /\ pc[c] \in Driving => ref[c] \in Call /\ obj[ref[c]] \in Object
  BY Types, DriverFacts
<1>2. {"top", "model", "calls", "tool", "saveTurn", "provider"} \subseteq Driving
  BY DEF Driving
<1>3. ASSUME NEW p \in Places \ {"load"}, NEW s,
             pc[c] \in Driving, pc' = [pc EXCEPT ![c] = p],
             obj' = [obj EXCEPT ![ref[c]] = s], s.pending = obj[ref[c]].pending,
             UNCHANGED <<sid, ref, sessions, acting, effects, decided>>
      PROVE  Once' /\ Still
  <2>1. \A o \in Call : obj'[o].pending = obj[o].pending
    BY <1>1, <1>3 DEF TypeOK
  <2>2. pc[c] \notin Asked
    BY <1>3 DEF Driving, Asked
  <2> QED
    BY <1>3, <2>1, <2>2, QuietStep
<1>4. {"model", "calls", "tool", "saveTurn", "saveBlock", "threw"} \subseteq Places \ {"load"}
  BY DEF Places
<1>5. CASE LoopTop(c)
  <2>1. CASE \E st \in Terminal : Finish(c, obj[ref[c]], st)
    BY <1>2, <1>5, <2>1, QuietFinish DEF LoopTop
  <2>2. CASE /\ obj' = [obj EXCEPT ![ref[c]].iterations = @ + 1]
             /\ pc' = [pc EXCEPT ![c] = "model"]
             /\ UNCHANGED <<sessions, saveVars>>
    <3> DEFINE s == [obj[ref[c]] EXCEPT !.iterations = @ + 1]
    <3>1. obj' = [obj EXCEPT ![ref[c]] = s] /\ s.pending = obj[ref[c]].pending
      BY <1>1, <1>2, <1>5, <2>2 DEF LoopTop, Object
    <3> HIDE DEF s
    <3> QED
      BY <1>2, <1>3, <1>4, <1>5, <2>2, <3>1 DEF LoopTop
  <2> QED
    BY <1>5, <2>1, <2>2 DEF LoopTop, Terminal
<1>6. CASE ModelTurn(c)
  <2>1. CASE Finish(c, obj[ref[c]], "COMPLETED")
    BY <1>2, <1>6, <2>1, QuietFinish DEF ModelTurn
  <2>2. ASSUME NEW n \in 1 .. MaxTurnCalls,
               obj' = [obj EXCEPT ![ref[c]].open = @ + n],
               pc' = [pc EXCEPT ![c] = "calls"], UNCHANGED <<sessions, saveVars>>
        PROVE  Once' /\ Still
    <3> DEFINE s == [obj[ref[c]] EXCEPT !.open = @ + n]
    <3>1. obj' = [obj EXCEPT ![ref[c]] = s] /\ s.pending = obj[ref[c]].pending
      BY <1>1, <1>2, <1>6, <2>2 DEF ModelTurn, Object
    <3> HIDE DEF s
    <3> QED
      BY <1>2, <1>3, <1>4, <1>6, <2>2, <3>1 DEF ModelTurn
  <2> QED
    BY <1>6, <2>1, <2>2 DEF ModelTurn
<1>7. CASE ModelThrows(c)
  BY <1>2, <1>7, QuietFinish DEF ModelThrows
<1>8. CASE NextCall(c)
  <2>1. CASE \E st \in Terminal : Finish(c, obj[ref[c]], st)
    BY <1>2, <1>8, <2>1, QuietFinish DEF NextCall
  <2>2. CASE StartTool(c, ref[c], obj[ref[c]]) /\ UNCHANGED sessions
    <3> DEFINE s == [obj[ref[c]] EXCEPT !.toolCalls = @ + 1]
    <3>1. /\ obj' = [obj EXCEPT ![ref[c]] = s] /\ s.pending = obj[ref[c]].pending
          /\ pc' = [pc EXCEPT ![c] = "tool"]
      BY <1>1, <1>2, <1>8, <2>2 DEF NextCall, StartTool, Object
    <3> HIDE DEF s
    <3> QED
      BY <1>2, <1>3, <1>4, <1>8, <2>2, <3>1 DEF NextCall
  <2>3. CASE UNCHANGED <<pc, obj, sessions>>
    <3>1. InMemory' /\ Still
      BY <1>8, <2>3 DEF NextCall, Once, InMemory, Still
    <3> QED
      BY <1>1, <1>8, <2>3, <3>1, QuietOnce DEF NextCall, TypeOK
  <2> QED
    BY <1>8, <2>1, <2>2, <2>3 DEF NextCall, Terminal
<1>9. CASE TurnAnswered(c)
  <2> DEFINE s == [obj[ref[c]] EXCEPT !.open = @ - got[c]]
  <2>1. obj' = [obj EXCEPT ![ref[c]] = s] /\ s.pending = obj[ref[c]].pending
    BY <1>1, <1>2, <1>9 DEF TurnAnswered, Object
  <2> HIDE DEF s
  <2> QED
    BY <1>2, <1>3, <1>4, <1>9, <2>1 DEF TurnAnswered
<1>10. CASE ToolReturns(c)
  <2> DEFINE s == [obj[ref[c]] EXCEPT !.ran = @ + 1]
  <2>1. obj' = [obj EXCEPT ![ref[c]] = s] /\ s.pending = obj[ref[c]].pending
    BY <1>1, <1>2, <1>10 DEF ToolReturns, Object
  <2> HIDE DEF s
  <2> QED
    BY <1>2, <1>3, <1>4, <1>10, <2>1 DEF ToolReturns
<1>11. CASE BlockPersist(c)
  BY <1>4, <1>11, QuietStep DEF BlockPersist, Asked
<1>12. CASE ProviderReady(c)
  <2> DEFINE r == [obj[ref[c]] EXCEPT !.provider = TRUE, !.state = "RUNNING"]
             s == [r EXCEPT !.toolCalls = @ + 1]
  <2>1. r.pending = obj[ref[c]].pending /\ DOMAIN r = DOMAIN obj[ref[c]]
    BY <1>1, <1>2, <1>12 DEF ProviderReady, Object
  <2>2. obj' = [obj EXCEPT ![ref[c]] = s] /\ s.pending = obj[ref[c]].pending
    BY <1>12, <2>1 DEF ProviderReady, StartTool
  <2>3. pc' = [pc EXCEPT ![c] = "tool"]
    BY <1>12 DEF ProviderReady, StartTool
  <2> HIDE DEF s, r
  <2> QED
    BY <1>2, <1>3, <1>4, <1>12, <2>2, <2>3 DEF ProviderReady
<1>13. CASE ProviderThrows(c)
  BY <1>4, <1>13, QuietStep DEF ProviderThrows, Reject, Asked
<1> QED
  BY <1>5, <1>6, <1>7, <1>8, <1>9, <1>10, <1>11, <1>12, <1>13

(* A refused tool: its invocation offers an approval that is its own and new. *)
LEMMA ToolBlockedOnce ==
    ASSUME IInv, Once, NEW c \in Call, ToolBlocked(c)
    PROVE  Once'
<1> DEFINE t == [obj[ref[c]] EXCEPT !.pending = c, !.state = "WAITING_FOR_APPROVAL"]
<1>1. /\ TypeOK
      /\ pc[c] = "tool" /\ pc[c] \notin Asked
      /\ ref[c] \in Call /\ obj[ref[c]] \in Object
      /\ obj' = [obj EXCEPT ![ref[c]] = t] /\ t.pending = c
      /\ pc' = [pc EXCEPT ![c] = "savePause"]
      /\ UNCHANGED <<sid, ref, sessions, acting, effects, decided>>
  BY Types, DriverFacts DEF ToolBlocked, Driving, Asked, Object, ghosts
<1> HIDE DEF t
<1>2. \A yes \in BOOLEAN : <<c, yes>> \notin decided
  BY <1>1 DEF Once, Settled
<1>3. "savePause" \in Asked /\ \A a \in Call : pc[a] \in Asked => pc'[a] \in Asked
  BY <1>1 DEF Asked, TypeOK
<1>4. Offers'
  <2> SUFFICES ASSUME NEW o \in Call, obj'[o].pending # None
               PROVE  /\ ref[obj'[o].pending] = o
                      /\ pc'[obj'[o].pending] \in Asked
                      /\ \A yes \in BOOLEAN : <<obj'[o].pending, yes>> \notin decided
    BY <1>1 DEF Offers
  <2>1. CASE o = ref[c]
    BY <1>1, <1>2, <1>3, <2>1 DEF TypeOK
  <2>2. CASE o # ref[c]
    BY <1>1, <1>3, <2>2 DEF Once, Offers, TypeOK, Object
  <2> QED
    BY <2>1, <2>2
<1>5. Settled' /\ Acts' /\ InMemory'
  BY <1>1, <1>3 DEF Once, Settled, Acts, InMemory, TypeOK
<1> QED
  BY <1>4, <1>5 DEF Once

(* The approved action takes effect for the first time, and its actor is done with it. *)
LEMMA ApprovedToolReturnsOnce ==
    ASSUME IInv, Once, NEW c \in Call, ApprovedToolReturns(c)
    PROVE  Once'
<1> DEFINE t == [obj[ref[c]] EXCEPT !.ran = @ + 1, !.open = @ - 1]
<1>1. /\ TypeOK
      /\ pc[c] = "tool" /\ pc[c] \notin Asked
      /\ acting[c] \in Call /\ None \notin Call
      /\ ref[c] \in Call /\ obj[ref[c]] \in Object
      /\ obj' = [obj EXCEPT ![ref[c]] = t] /\ t.pending = obj[ref[c]].pending
      /\ acting' = [acting EXCEPT ![c] = None]
      /\ pc' = [pc EXCEPT ![c] = "saveTurn"]
      /\ UNCHANGED <<sid, ref, sessions, decided>>
  BY Types, DriverFacts, CallAssumption
     DEF ApprovedToolReturns, Driving, Asked, Object, TypeOK
<1>2. PICK n \in {0, 1} : effects' = [effects EXCEPT ![acting[c]] = @ + n]
  BY DEF ApprovedToolReturns
<1> HIDE DEF t
<1>3. /\ \A o \in Call : obj'[o].pending = obj[o].pending
      /\ \A a \in Call : pc[a] \in Asked => pc'[a] \in Asked
  BY <1>1 DEF TypeOK
<1>4. Offers' /\ Settled' /\ InMemory'
  <2>1. Settled' /\ InMemory'
    <3>1. \A d \in Call : pc'[d] # "load"
      BY <1>1 DEF TypeOK, Once, InMemory
    <3> QED
      BY <1>1, <1>3, <3>1 DEF Once, Settled, InMemory
  <2>2. \A o \in Call : obj[o].pending \in Call \cup {None}
    BY <1>1 DEF TypeOK, Object
  <2>3. Offers'
    BY <1>1, <1>3, <2>2 DEF Once, Offers
  <2> QED
    BY <2>1, <2>3
<1>5. \A d \in Call \ {c} : acting'[d] = acting[d] /\ acting[d] # acting[c]
  BY <1>1 DEF Once, Acts, TypeOK
<1>6. effects[acting[c]] = 0
  <2>1. effects[acting[c]] \in Nat
    BY <1>1 DEF TypeOK
  <2> QED
    BY <1>1, <2>1 DEF Once, Acts
<1>7. \A c1, d1 \in Call : acting'[c1] # None /\ acting'[c1] = acting'[d1] => c1 = d1
  BY <1>1, <1>5 DEF Once, Acts, TypeOK
<1>8. ASSUME NEW a \in Call
      PROVE  effects'[a] <= 1 /\ (effects'[a] = 1 => \A d \in Call : acting'[d] # a)
  <2>1. CASE a = acting[c]
    BY <1>1, <1>2, <1>5, <1>6, <2>1 DEF TypeOK
  <2>2. CASE a # acting[c]
    BY <1>1, <1>2, <1>5, <2>2 DEF Once, Acts, TypeOK
  <2> QED
    BY <2>1, <2>2
<1> QED
  BY <1>4, <1>7, <1>8 DEF Once, Acts

(***************************************************************************)
(* A decision: it meets the approval on offer, which nobody has decided,   *)
(* and takes it off the table.                                             *)
(***************************************************************************)
LEMMA ResumeTakes ==
    ASSUME IInv, Once, NEW c \in Resumes, NEW x \in Runs, NEW a \in Call \cup {None},
           NEW yes \in BOOLEAN, Resume(c, x, a, yes)
    PROVE  /\ Still \/ Takes(c, sessions[x], a, yes)
           /\ InMemory'
           /\ \A b \in Call : pc[b] \in Asked => pc'[b] = pc[b] /\ ref'[b] = ref[b]
<1> DEFINE o == sessions[x]
           s == obj[o]
           d == [id |-> a, yes |-> yes]
<1>1. /\ TypeOK /\ c \in Call /\ o \in Call /\ s \in Object
      /\ pc[c] = "idle" /\ pc[c] \notin Asked /\ acting[c] = None
      /\ sid' = [sid EXCEPT ![c] = x]
      /\ ref' = [ref EXCEPT ![c] = o]
      /\ Decide(c, o, s, d)
      /\ UNCHANGED <<sessions, effects>>
  BY Types DEF Resume, TypeOK, Asked, IInv, Control, Fresh, Unborn
<1>2. ASSUME NEW p \in Places \ {"load"}, pc' = [pc EXCEPT ![c] = p]
      PROVE  /\ InMemory'
             /\ \A b \in Call : pc[b] \in Asked => pc'[b] = pc[b] /\ ref'[b] = ref[b]
  BY <1>1, <1>2, CallAssumption DEF Once, InMemory, TypeOK
<1>3. {"threw", "done", "tool", "provider"} \subseteq Places \ {"load"}
  BY DEF Places
<1>4. CASE ~Matches(s, d)
  <2>1. obj' = obj /\ pc' = [pc EXCEPT ![c] = "threw"] /\ UNCHANGED <<acting, decided>>
    BY <1>1, <1>4 DEF Decide, TypeOK
  <2> QED
    BY <1>1, <1>2, <1>3, <2>1 DEF Still
<1>5. CASE Matches(s, d)
  <2>1. a \in Call /\ s.pending = a
    BY <1>1, <1>5, CallAssumption DEF Matches, Object
  <2>2. \E p \in Places \ {"load"} : \E t :
           /\ pc' = [pc EXCEPT ![c] = p]
           /\ obj' = [obj EXCEPT ![o] = t]
           /\ t.pending = None
           /\ decided' = decided \cup {<<a, yes>>}
           /\ acting' = IF yes THEN [acting EXCEPT ![c] = a] ELSE acting
    <3> HIDE DEF s, o
    <3>1. CASE ~yes
      <4> DEFINE t == [Consumed(s) EXCEPT !.state = "CANCELLED"]
      <4>1. t.pending = None
        BY <1>1 DEF Consumed, Object
      <4>2. /\ obj' = [obj EXCEPT ![o] = t] /\ pc' = [pc EXCEPT ![c] = "done"]
            /\ decided' = decided \cup {<<d.id, FALSE>>} /\ acting' = acting
        BY <1>1, <1>5, <3>1 DEF Decide
      <4>3. decided' = decided \cup {<<a, yes>>}
        BY <3>1, <4>2
      <4> HIDE DEF t
      <4> QED
        BY <1>3, <3>1, <4>1, <4>2, <4>3
    <3>2. CASE yes /\ s.provider /\ StartTool(c, o, Running(s))
      <4> DEFINE t == [Running(s) EXCEPT !.toolCalls = @ + 1]
      <4>1. t.pending = None
        BY <1>1 DEF Running, Consumed, Object
      <4> HIDE DEF t
      <4>2. obj' = [obj EXCEPT ![o] = t] /\ pc' = [pc EXCEPT ![c] = "tool"]
        BY <3>2 DEF StartTool, t
      <4> QED
        BY <1>1, <1>3, <1>5, <2>1, <3>2, <4>1, <4>2 DEF Decide
    <3>3. CASE yes /\ ~s.provider
      <4>1. Consumed(s).pending = None
        BY <1>1 DEF Consumed, Object
      <4> QED
        BY <1>1, <1>3, <1>5, <2>1, <3>3, <4>1 DEF Decide
    <3> QED
      BY <1>1, <1>5, <3>1, <3>2, <3>3 DEF Decide
  <2>3. Takes(c, o, a, yes)
    BY <1>1, <2>1, <2>2 DEF Takes, TypeOK
  <2> QED
    BY <1>2, <2>2, <2>3
<1> QED
  BY <1>4, <1>5

(* Such a decision keeps Once: nobody has decided on what is offered. *)
LEMMA ResumeOnce ==
    ASSUME IInv, Once, NEW c \in Resumes, NEW x \in Runs, NEW a \in Call \cup {None},
           NEW yes \in BOOLEAN, Resume(c, x, a, yes)
    PROVE  Once'
<1> DEFINE o == sessions[x]
<1>1. /\ TypeOK /\ c \in Call
      /\ InMemory'
      /\ \A b \in Call : pc[b] \in Asked => pc'[b] = pc[b] /\ ref'[b] = ref[b]
  BY Types, ResumeTakes
<1>2. CASE Still
  BY <1>1, <1>2, QuietOnce DEF TypeOK
<1>3. CASE Takes(c, o, a, yes)
  <2>1. /\ a # None /\ ref[a] = o /\ pc[a] \in Asked
        /\ \A b \in BOOLEAN : <<a, b>> \notin decided
    BY <1>3, CallAssumption DEF Takes, Once, Offers
  <2>2. \A e \in Call : obj'[e].pending # None => /\ e # o /\ obj'[e].pending = obj[e].pending
                                                  /\ obj[e].pending # a
    BY <1>3, <2>1 DEF Takes, Once, Offers
  <2>3. Offers'
    <3>1. \A e \in Call : obj[e].pending \in Call \cup {None}
      BY <1>1 DEF TypeOK, Object
    <3> QED
      BY <1>1, <1>3, <2>2, <3>1 DEF Takes, Once, Offers
  <2>4. Settled'
    BY <1>1, <1>3, <2>1 DEF Takes, Once, Settled
  <2>5. Acts'
    <3>1. CASE ~yes
      BY <1>3, <3>1 DEF Takes, Once, Acts
    <3>2. CASE yes
      <4>1. /\ acting'[c] = a
            /\ \A e \in Call \ {c} : acting'[e] = acting[e]
        BY <1>1, <1>3, <3>2 DEF Takes, TypeOK
      <4>2. \A e \in Call : acting[e] # a
        BY <2>1 DEF IInv, Control, Decisions
      <4>3. effects[a] = 0
        <5>1. effects[a] \in Nat
          BY <1>1, <1>3 DEF Takes, TypeOK
        <5>2. ~(effects[a] > 0)
          BY <1>3, <2>1 DEF Takes, IInv, Control, Decisions, EffectNeedsItsApproval
        <5> QED
          BY <5>1, <5>2
      <4> QED
        BY <1>3, <4>1, <4>2, <4>3 DEF Takes, Once, Acts
    <3> QED
      BY <3>1, <3>2
  <2> QED
    BY <1>1, <2>3, <2>4, <2>5 DEF Once
<1> QED
  BY <1>2, <1>3, ResumeTakes

(* A new session: its run() has no object yet. *)
LEMMA RunOnce ==
    ASSUME IInv, Once, NEW c \in Runs, Run(c)
    PROVE  Once' /\ Still
<1> DEFINE s == CodingAgentSession("RUNNING", TRUE)
<1>1. /\ TypeOK /\ c \in Call /\ pc[c] = "idle" /\ pc[c] \notin Asked
      /\ obj' = [obj EXCEPT ![c] = s] /\ s.pending = None
      /\ sid' = [sid EXCEPT ![c] = c]
      /\ ref' = [ref EXCEPT ![c] = c]
      /\ sessions' = [sessions EXCEPT ![c] = c]
      /\ pc' = [pc EXCEPT ![c] = "saveTurn"]
      /\ UNCHANGED <<acting, effects, decided>>
  BY Types DEF Run, Asked, ghosts, CodingAgentSession
<1> HIDE DEF s
<1>2. obj[c].pending = None
  <2> SUFFICES ASSUME obj[c].pending # None PROVE FALSE
    OBVIOUS
  <2>1. obj[c].pending \in Call /\ ref[obj[c].pending] = c
    BY <1>1 DEF Once, Offers, TypeOK, Object
  <2> QED
    BY <1>1, <2>1, CallAssumption DEF IInv, Control, Fresh, Unborn
<1>3. \A o \in Call : obj'[o].pending = obj[o].pending
  BY <1>1, <1>2 DEF TypeOK
<1>4. InMemory'
  BY <1>1, CallAssumption DEF Once, InMemory, TypeOK
<1>5. Still
  BY <1>1, <1>3 DEF Still
<1> QED
  BY <1>1, <1>4, <1>5, QuietOnce DEF TypeOK

(* Saves, time and cancel() decide nothing. *)
LEMMA WorldOnce ==
    ASSUME IInv, Once,
           \/ \E c \in Call : SaveLands(c) \/ SaveFails(c)
           \/ \E x \in Runs : cancel(x) \/ RuntimeElapses(x)
           \/ UNCHANGED vars
    PROVE  Once' /\ Still
<1> USE DEF ghosts, callVars
<1>1. TypeOK
  BY Types
<1>2. ASSUME NEW c \in Call, SaveEnds(c)
      PROVE  Once' /\ Still
  <2>1. PICK p : /\ pc' = [pc EXCEPT ![c] = p]
                 /\ \/ pc[c] = "saveTurn" /\ p = "top"
                    \/ pc[c] = "savePause" /\ p = "paused"
                    \/ pc[c] = "saveBlock" /\ p = "done"
                    \/ p = pc[c]
    BY <1>1, <1>2 DEF SaveEnds, TypeOK
  <2>2. p \in Places \ {"load"} /\ (pc[c] \in Asked => p \in Asked)
    BY <1>1, <2>1 DEF Places, Asked, TypeOK, Once, InMemory
  <2> QED
    BY <1>2, <2>1, <2>2, QuietStep DEF SaveEnds
<1>3. ASSUME NEW x \in Runs, cancel(x)
      PROVE  Once' /\ Still
  <2>1. \A o \in Call : obj'[o].pending = obj[o].pending
    BY <1>1, <1>3 DEF cancel, TypeOK, Object
  <2>2. InMemory' /\ Still
    BY <1>3, <2>1 DEF cancel, Once, InMemory, Still
  <2> QED
    BY <1>1, <1>3, <2>1, <2>2, QuietOnce DEF cancel, TypeOK
<1>4. ASSUME NEW x \in Runs, RuntimeElapses(x)
      PROVE  Once' /\ Still
  BY <1>4 DEF RuntimeElapses, Once, Offers, Settled, Acts, InMemory, Still
<1>5. CASE UNCHANGED vars
  BY <1>5 DEF vars, Once, Offers, Settled, Acts, InMemory, Still
<1> QED
  BY <1>2, <1>3, <1>4, <1>5 DEF SaveLands, SaveFails

(* A life of the process ends with a restart only. *)
LEMMA OneLife ==
    ASSUME IInv, [Next]_vars, restarts' = 0
    PROVE  ~Restart /\ restarts = 0
<1>1. ~Restart
  BY DEF Restart, IInv, Rest
<1>2. restarts' = restarts
  <2>1. ASSUME NEW c \in Call, Progress(c) \/ SaveLands(c) \/ SaveFails(c) PROVE restarts' = restarts
    BY <2>1 DEF Progress, SaveLands, SaveFails, SaveEnds, LoopTop, ModelTurn, ModelThrows, NextCall,
       TurnAnswered, ToolReturns, ToolBlocked, ApprovedToolReturns, BlockPersist, Load, LoadThrows,
       ProviderReady, ProviderThrows, world
  <2>2. (\E c \in Runs : Run(c)) => restarts' = restarts
    BY DEF Run, world
  <2>3. (\E c \in Resumes, x \in Runs, a \in Call \cup {None}, yes \in BOOLEAN :
            Resume(c, x, a, yes) \/ ResumeUnknown(c, x, a, yes)) => restarts' = restarts
    BY DEF Resume, ResumeUnknown, world
  <2>4. (\E x \in Runs : cancel(x) \/ RuntimeElapses(x)) => restarts' = restarts
    BY DEF cancel, RuntimeElapses, world
  <2>5. UNCHANGED vars => restarts' = restarts
    BY DEF vars
  <2> QED
    BY <1>1, <2>1, <2>2, <2>3, <2>4, <2>5 DEF Next
<1> QED
  BY <1>1, <1>2

(* Within one life of the process, Once is kept. *)
LEMMA StepOnce ==
    ASSUME IInv, restarts = 0 => Once, [Next]_vars, restarts' = 0
    PROVE  Once'
<1>1. ~Restart /\ Once
  BY OneLife
<1>2. ASSUME NEW c \in Call PROVE ~Load(c) /\ ~LoadThrows(c)
  BY <1>1 DEF Once, InMemory, Load, LoadThrows
<1>3. ASSUME NEW c \in Resumes, NEW x \in Runs, NEW a \in Call \cup {None}, NEW yes \in BOOLEAN
      PROVE  ~ResumeUnknown(c, x, a, yes)
  BY <1>1 DEF Once, InMemory, ResumeUnknown
<1>4. ASSUME NEW c \in Call, Progress(c) PROVE Once'
  BY <1>1, <1>2, <1>4, LoopOnce, ToolBlockedOnce, ApprovedToolReturnsOnce DEF Progress
<1>5. ASSUME NEW c \in Resumes, NEW x \in Runs, NEW a \in Call \cup {None}, NEW yes \in BOOLEAN,
             Resume(c, x, a, yes) \/ ResumeUnknown(c, x, a, yes)
      PROVE  Once'
  BY <1>1, <1>3, <1>5, ResumeOnce
<1> QED
  BY <1>1, <1>4, <1>5, RunOnce, WorldOnce DEF Next

(* Within one life of the process, Once holds. *)
LEMMA OnceInvariance == Spec => [](restarts = 0 => Once)
<1>1. Init => Once
  <2> SUFFICES ASSUME Init PROVE Once
    OBVIOUS
  <2>1. Offers
    BY DEF Init, Offers, Blank, CodingAgentSession
  <2>2. Settled /\ InMemory
    BY CallAssumption DEF Init, Settled, InMemory
  <2>3. Acts
    BY CallAssumption DEF Init, Acts
  <2> QED
    BY <2>1, <2>2, <2>3 DEF Once
<1>2. IInv /\ IInv' /\ (restarts = 0 => Once) /\ [Next]_vars => (restarts = 0 => Once)'
  BY StepOnce
<1> QED
  BY <1>1, <1>2, Invariance, PTL DEF Spec

(* An approval is resolved once: its action takes effect once at most, and *)
(* never when it was denied.                                               *)
THEOREM ResolvedOnce == Spec => []ResolvedOnceInAProcess
<1>1. IInv /\ (restarts = 0 => Once) => ResolvedOnceInAProcess
  <2> SUFFICES ASSUME IInv, Once, NEW a \in Call
               PROVE  effects[a] <= 1 /\ (<<a, FALSE>> \in decided => effects[a] = 0)
    BY DEF ResolvedOnceInAProcess
  <2>1. effects[a] <= 1
    BY DEF Once, Acts
  <2>2. effects[a] > 0 => <<a, FALSE>> \notin decided
    BY DEF IInv, Control, Decisions, EffectNeedsItsApproval, Once, Settled
  <2>3. effects[a] \in Nat
    BY DEF IInv, Rest
  <2> QED
    BY <2>1, <2>2, <2>3
<1> QED
  BY <1>1, Invariance, OnceInvariance, PTL

-----------------------------------------------------------------------------
(* The handshake of Approvals, step by step *)

(* A step that asks, decides and performs nothing changes no approval. *)
LEMMA StillStatus ==
    ASSUME Still
    PROVE  UNCHANGED <<status, effects>>
<1>1. \A a \in Call : (\E o \in Call : obj'[o].pending = a) <=> (\E o \in Call : obj[o].pending = a)
  BY DEF Still
<1> QED
  BY <1>1 DEF Still, status

(* One approval goes from one state to the next, and the others stay. *)
LEMMA OneBecomes ==
    ASSUME NEW a \in Call, NEW from, NEW to,
           status[a] = from, status'[a] = to,
           \A b \in Call \ {a} : status'[b] = status[b]
    PROVE  Promise!Become(a, from, to)
<1>1. status = [b \in Call |-> status[b]] /\ status' = [b \in Call |-> status'[b]]
  BY DEF status
<1>2. status' = [status EXCEPT ![a] = to]
  BY <1>1
<1> QED
  BY <1>2 DEF Promise!Become

(* What the status of b depends on is the same before and after. *)
LEMMA SameStatus ==
    ASSUME NEW b \in Call,
           \A yes \in BOOLEAN : <<b, yes>> \in decided' <=> <<b, yes>> \in decided,
           (\E c \in Call : acting'[c] = b) <=> (\E c \in Call : acting[c] = b),
           (\E o \in Call : obj'[o].pending = b) <=> (\E o \in Call : obj[o].pending = b)
    PROVE  status'[b] = status[b]
  BY DEF status

(* The agent asks. *)
LEMMA BlockedAsks ==
    ASSUME IInv, Once, NEW c \in Call, ToolBlocked(c)
    PROVE  Promise!Ask(c)
<1> DEFINE t == [obj[ref[c]] EXCEPT !.pending = c, !.state = "WAITING_FOR_APPROVAL"]
<1>1. /\ TypeOK
      /\ pc[c] = "tool" /\ pc[c] \notin Asked
      /\ ref[c] \in Call /\ obj[ref[c]] \in Object /\ obj[ref[c]].pending = None
      /\ obj' = [obj EXCEPT ![ref[c]] = t] /\ t.pending = c
      /\ UNCHANGED <<acting, effects, decided>>
  BY Types, DriverFacts DEF ToolBlocked, Driving, Asked, Object, ghosts, Driver
<1> HIDE DEF t
<1>2. /\ \A yes \in BOOLEAN : <<c, yes>> \notin decided
      /\ \A o \in Call : obj[o].pending # c
  BY <1>1, CallAssumption DEF Once, Settled, Offers
<1>3. obj'[ref[c]].pending = c /\ \A o \in Call : o # ref[c] => obj'[o] = obj[o]
  BY <1>1 DEF TypeOK
<1>4. status[c] = "unasked" /\ status'[c] = "open"
  BY <1>1, <1>2, <1>3 DEF status
<1>5. \A b \in Call \ {c} : status'[b] = status[b]
  BY <1>1, <1>3, CallAssumption, SameStatus
<1> QED
  BY <1>1, <1>4, <1>5, OneBecomes DEF Promise!Ask

(* The approved action is carried out. *)
LEMMA ReturnsActs ==
    ASSUME IInv, Once, NEW c \in Call, ApprovedToolReturns(c)
    PROVE  Promise!Act(acting[c])
<1> DEFINE t == [obj[ref[c]] EXCEPT !.ran = @ + 1, !.open = @ - 1]
           a == acting[c]
<1>1. /\ TypeOK
      /\ a \in Call /\ None \notin Call
      /\ ref[c] \in Call /\ obj[ref[c]] \in Object
      /\ obj' = [obj EXCEPT ![ref[c]] = t] /\ t.pending = obj[ref[c]].pending
      /\ acting' = [acting EXCEPT ![c] = None]
      /\ decided' = decided
  BY Types, DriverFacts, CallAssumption DEF ApprovedToolReturns, Driving, Object, TypeOK
<1> HIDE DEF t
<1>2. <<a, TRUE>> \in decided /\ <<a, FALSE>> \notin decided
  BY <1>1 DEF IInv, Control, Decisions, Once, Settled
<1>3. /\ acting'[c] = None
      /\ \A d \in Call \ {c} : acting'[d] = acting[d] /\ acting[d] # a
  BY <1>1 DEF Once, Acts, TypeOK
<1>4. \A o \in Call : obj'[o].pending = obj[o].pending
  BY <1>1 DEF TypeOK
<1>5. status[a] = "granted" /\ status'[a] = "spent"
  BY <1>1, <1>2, <1>3 DEF status
<1>6. ASSUME NEW b \in Call \ {a} PROVE status'[b] = status[b]
  <2>1. (\E d \in Call : acting'[d] = b) <=> (\E d \in Call : acting[d] = b)
    BY <1>1, <1>3
  <2> QED
    BY <1>1, <1>4, <2>1, SameStatus
<1>7. \E n \in {0, 1} : effects' = [effects EXCEPT ![a] = @ + n]
  BY DEF ApprovedToolReturns
<1> QED
  BY <1>1, <1>5, <1>6, <1>7, OneBecomes DEF Promise!Act

(* The user decides. *)
LEMMA TakesDecides ==
    ASSUME IInv, Once, NEW c \in Call, NEW o \in Call, NEW a \in Call, NEW yes \in BOOLEAN,
           Takes(c, o, a, yes)
    PROVE  IF yes THEN Promise!Grant(a) ELSE Promise!Deny(a)
<1>1. TypeOK /\ None \notin Call
  BY Types, CallAssumption
<1>2. /\ \A b \in BOOLEAN : <<a, b>> \notin decided
      /\ \A e \in Call \ {o} : obj[e].pending # a
  BY <1>1 DEF Takes, Once, Offers
<1>3. status[a] = "open"
  BY <1>2 DEF status, Takes
<1>4. status'[a] = IF yes THEN "granted" ELSE "denied"
  <2>1. CASE yes
    <3>1. acting'[c] = a /\ <<a, TRUE>> \in decided' /\ <<a, FALSE>> \notin decided'
      BY <1>1, <1>2, <2>1 DEF Takes, TypeOK
    <3> QED
      BY <2>1, <3>1 DEF status
  <2>2. CASE ~yes
    BY <2>2 DEF status, Takes
  <2> QED
    BY <2>1, <2>2
<1>5. ASSUME NEW b \in Call \ {a} PROVE status'[b] = status[b]
  <2>1. \A v \in BOOLEAN : <<b, v>> \in decided' <=> <<b, v>> \in decided
    BY DEF Takes
  <2>2. (\E d \in Call : acting'[d] = b) <=> (\E d \in Call : acting[d] = b)
    BY <1>1 DEF Takes, TypeOK
  <2>3. (\E e \in Call : obj'[e].pending = b) <=> (\E e \in Call : obj[e].pending = b)
    BY <1>1 DEF Takes
  <2> QED
    BY <2>1, <2>2, <2>3, SameStatus
<1>6. effects' = effects
  BY DEF Takes
<1> QED
  BY <1>3, <1>4, <1>5, <1>6, OneBecomes DEF Promise!Grant, Promise!Deny

(* Every step of the runtime is one of the promise, or none. *)
LEMMA StepKeepsPromise ==
    ASSUME IInv, Once, [Next]_vars, ~Restart
    PROVE  [Promise!Next]_<<status, effects>>
<1>1. ASSUME NEW c \in Call PROVE ~Load(c) /\ ~LoadThrows(c)
  BY DEF Once, InMemory, Load, LoadThrows
<1>2. ASSUME NEW c \in Call, Progress(c) PROVE [Promise!Next]_<<status, effects>>
  <2>1. CASE ToolBlocked(c)
    BY <2>1, BlockedAsks DEF Promise!Next
  <2>2. CASE ApprovedToolReturns(c)
    <3>1. acting[c] \in Call
      BY <2>2 DEF ApprovedToolReturns, IInv, Rest
    <3> QED
      BY <2>2, <3>1, ReturnsActs DEF Promise!Next
  <2>3. CASE ~ToolBlocked(c) /\ ~ApprovedToolReturns(c)
    BY <1>1, <1>2, <2>3, LoopOnce, StillStatus DEF Progress
  <2> QED
    BY <2>1, <2>2, <2>3
<1>3. ASSUME NEW c \in Resumes, NEW x \in Runs, NEW a \in Call \cup {None}, NEW yes \in BOOLEAN,
             Resume(c, x, a, yes) \/ ResumeUnknown(c, x, a, yes)
      PROVE  [Promise!Next]_<<status, effects>>
  <2>1. Resume(c, x, a, yes)
    BY <1>3 DEF Once, InMemory, ResumeUnknown
  <2>2. Still \/ Takes(c, sessions[x], a, yes)
    BY <2>1, ResumeTakes
  <2>3. CASE Takes(c, sessions[x], a, yes)
    <3>1. a \in Call /\ sessions[x] \in Call /\ c \in Call
      BY <2>3 DEF Takes
    <3> QED
      BY <2>3, <3>1, TakesDecides DEF Promise!Next
  <2> QED
    BY <2>2, <2>3, StillStatus
<1> QED
  BY <1>2, <1>3, RunOnce, WorldOnce, StillStatus DEF Next

(***************************************************************************)
(* As long as the process lives, the runtime keeps the promise of          *)
(* Approvals: an approval is asked for once, decided once and by the first *)
(* decision, and carried out once.  (That what was granted is carried out  *)
(* is liveness, which ImplementsPromise adds and the run agent_live shows.)*)
(***************************************************************************)
THEOREM KeepsPromise ==
    Spec /\ [](restarts = 0) => Promise!Init /\ [][Promise!Next]_<<status, effects>>
<1>1. Init => Promise!Init
  BY CallAssumption DEF Init, Promise!Init, status, Blank, CodingAgentSession
<1>2. IInv /\ Once /\ restarts = 0 /\ (restarts = 0)' /\ [Next]_vars =>
          [Promise!Next]_<<status, effects>>
  <2> SUFFICES ASSUME IInv, Once, restarts = 0, restarts' = 0, [Next]_vars
               PROVE  [Promise!Next]_<<status, effects>>
    OBVIOUS
  <2>1. ~Restart
    BY DEF Restart
  <2> QED
    BY <2>1, StepKeepsPromise
<1> QED
  BY <1>1, <1>2, Invariance, OnceInvariance, PTL DEF Spec
-----------------------------------------------------------------------------
(* The end of a session, and its record *)

(***************************************************************************)
(* A step of the invocation c that drives its object, which becomes s: it  *)
(* is saved with it, or it runs on.                                        *)
(***************************************************************************)
Drives(c, s, p) ==
    /\ pc[c] \in {"top", "model", "calls", "tool", "provider"}
    /\ pc' = [pc EXCEPT ![c] = p]
    /\ obj' = [obj EXCEPT ![ref[c]] = s]
    /\ \/ Persist(c, s) /\ p \in {"saveTurn", "savePause", "done"}
       \/ UNCHANGED saveVars /\ s.state = "RUNNING" /\ p \in {"model", "calls", "tool"}
    /\ \/ UNCHANGED sessions
       \/ sessions' = [sessions EXCEPT ![sid[c]] = ref[c]]
    /\ UNCHANGED <<sid, ref, ordered, unsaved, restarts>>

(* Every step of _loop, and of the tools it calls, is of that kind. *)
LEMMA LoopDrives ==
    ASSUME IInv, NEW c \in Call,
           LoopTop(c) \/ ModelTurn(c) \/ ModelThrows(c) \/ NextCall(c) \/ TurnAnswered(c)
             \/ ToolReturns(c) \/ ToolBlocked(c) \/ ApprovedToolReturns(c) \/ ProviderReady(c)
    PROVE  \E s, p : Drives(c, s, p)
<1> DEFINE o == obj[ref[c]]
<1> USE DEF world
<1>1. /\ obj \in [Call -> Object] /\ pc \in [Call -> Places]
      /\ pc[c] \in Driving => ref[c] \in Call /\ o \in Object
      /\ pc[c] \in Driving \ {"provider"} => o.state = "RUNNING"
  BY DriverFacts DEF IInv, Control, Driver
<1>2. {"top", "model", "calls", "tool", "provider"} \subseteq Driving
  BY DEF Driving
<1>3. ASSUME NEW st, Finish(c, o, st), pc[c] \in {"top", "model", "calls"},
             UNCHANGED <<sid, ref, ordered, unsaved, restarts>>
      PROVE  \E s, p : Drives(c, s, p)
  <2>1. Drives(c, [o EXCEPT !.state = st], "done")
    BY <1>3 DEF Finish, Drives
  <2> QED
    BY <2>1
<1>4. CASE LoopTop(c)
  <2>1. CASE \E st \in Terminal : Finish(c, o, st)
    BY <1>3, <1>4, <2>1 DEF LoopTop
  <2>2. CASE /\ obj' = [obj EXCEPT ![ref[c]].iterations = @ + 1]
             /\ pc' = [pc EXCEPT ![c] = "model"]
             /\ UNCHANGED <<sessions, saveVars>>
    <3> DEFINE s == [o EXCEPT !.iterations = @ + 1]
    <3>1. obj' = [obj EXCEPT ![ref[c]] = s] /\ s.state = "RUNNING"
      BY <1>1, <1>2, <1>4, <2>2 DEF LoopTop, Object
    <3> HIDE DEF s
    <3>2. Drives(c, s, "model")
      BY <1>4, <2>2, <3>1 DEF LoopTop, Drives
    <3> QED
      BY <3>2
  <2> QED
    BY <1>4, <2>1, <2>2 DEF LoopTop, Terminal
<1>5. CASE ModelTurn(c)
  <2>1. CASE Finish(c, o, "COMPLETED")
    BY <1>3, <1>5, <2>1 DEF ModelTurn
  <2>2. ASSUME NEW n \in 1 .. MaxTurnCalls,
               obj' = [obj EXCEPT ![ref[c]].open = @ + n],
               pc' = [pc EXCEPT ![c] = "calls"], UNCHANGED <<sessions, saveVars>>
        PROVE  \E s, p : Drives(c, s, p)
    <3> DEFINE s == [o EXCEPT !.open = @ + n]
    <3>1. obj' = [obj EXCEPT ![ref[c]] = s] /\ s.state = "RUNNING"
      BY <1>1, <1>2, <1>5, <2>2 DEF ModelTurn, Object
    <3> HIDE DEF s
    <3>2. Drives(c, s, "calls")
      BY <1>5, <2>2, <3>1 DEF ModelTurn, Drives
    <3> QED
      BY <3>2
  <2> QED
    BY <1>5, <2>1, <2>2 DEF ModelTurn
<1>6. CASE ModelThrows(c)
  BY <1>3, <1>6 DEF ModelThrows
<1>7. CASE NextCall(c)
  <2>1. CASE \E st \in Terminal : Finish(c, o, st)
    BY <1>3, <1>7, <2>1 DEF NextCall
  <2>2. CASE StartTool(c, ref[c], o) /\ UNCHANGED <<sessions, saveVars>>
    <3> DEFINE s == [o EXCEPT !.toolCalls = @ + 1]
    <3>1. /\ obj' = [obj EXCEPT ![ref[c]] = s] /\ s.state = "RUNNING"
          /\ pc' = [pc EXCEPT ![c] = "tool"]
      BY <1>1, <1>2, <1>7, <2>2 DEF NextCall, StartTool, Object
    <3> HIDE DEF s
    <3>2. Drives(c, s, "tool")
      BY <1>7, <2>2, <3>1 DEF NextCall, Drives
    <3> QED
      BY <3>2
  <2>3. CASE UNCHANGED <<pc, obj, sessions, saveVars>>
    <3>1. obj' = [obj EXCEPT ![ref[c]] = o] /\ pc' = [pc EXCEPT ![c] = "calls"]
      BY <1>1, <1>7, <2>3 DEF NextCall
    <3>2. o.state = "RUNNING"
      BY <1>1, <1>2, <1>7 DEF NextCall
    <3>3. Drives(c, o, "calls")
      BY <1>7, <2>3, <3>1, <3>2 DEF NextCall, Drives
    <3> QED
      BY <3>3
  <2> QED
    BY <1>7, <2>1, <2>2, <2>3 DEF NextCall, Terminal
<1>8. CASE TurnAnswered(c)
  <2>1. Drives(c, [o EXCEPT !.open = @ - got[c]], "saveTurn")
    BY <1>8 DEF TurnAnswered, Drives
  <2> QED
    BY <2>1
<1>9. CASE ToolReturns(c)
  <2> DEFINE s == [o EXCEPT !.ran = @ + 1]
  <2>1. obj' = [obj EXCEPT ![ref[c]] = s] /\ s.state = "RUNNING"
    BY <1>1, <1>2, <1>9 DEF ToolReturns, Object
  <2> HIDE DEF s
  <2>2. Drives(c, s, "calls")
    BY <1>9, <2>1 DEF ToolReturns, Drives
  <2> QED
    BY <2>2
<1>10. CASE ToolBlocked(c)
  <2> DEFINE s == [o EXCEPT !.pending = c, !.state = "WAITING_FOR_APPROVAL"]
  <2>1. obj' = [obj EXCEPT ![ref[c]] = s] /\ Persist(c, s)
    BY <1>10 DEF ToolBlocked
  <2> HIDE DEF s
  <2>2. Drives(c, s, "savePause")
    BY <1>10, <2>1 DEF ToolBlocked, Drives
  <2> QED
    BY <2>2
<1>11. CASE ApprovedToolReturns(c)
  <2> DEFINE s == [o EXCEPT !.ran = @ + 1, !.open = @ - 1]
  <2>1. obj' = [obj EXCEPT ![ref[c]] = s] /\ Persist(c, s)
    BY <1>11 DEF ApprovedToolReturns
  <2> HIDE DEF s
  <2>2. Drives(c, s, "saveTurn")
    BY <1>11, <2>1 DEF ApprovedToolReturns, Drives
  <2> QED
    BY <2>2
<1>12. CASE ProviderReady(c)
  <2> DEFINE r == [o EXCEPT !.provider = TRUE, !.state = "RUNNING"]
             s == [r EXCEPT !.toolCalls = @ + 1]
  <2>1. /\ obj' = [obj EXCEPT ![ref[c]] = s] /\ pc' = [pc EXCEPT ![c] = "tool"]
        /\ UNCHANGED saveVars
    BY <1>12 DEF ProviderReady, StartTool
  <2>2. s.state = "RUNNING"
    BY <1>1, <1>2, <1>12 DEF ProviderReady, Object, State
  <2> HIDE DEF s
  <2>3. Drives(c, s, "tool")
    BY <1>12, <2>1, <2>2 DEF ProviderReady, Drives
  <2> QED
    BY <2>3
<1> QED
  BY <1>4, <1>5, <1>6, <1>7, <1>8, <1>9, <1>10, <1>11, <1>12

(* No invocation has touched the object it has not constructed. *)
Untouched == \A c \in Call : pc[c] \in Unborn => obj[c] = Blank

(* A step that leaves the unborn objects blank and the ended ones ended. *)
Ends ==
    /\ Untouched'
    /\ \A o \in Call : obj[o].state \in Terminal => obj'[o].state = obj[o].state

(* One object is changed, of a session that has not ended. *)
LEMMA OneEnds ==
    ASSUME IInv, Untouched, NEW c \in Call, NEW p \in Places \ Unborn, NEW o \in Call, NEW s,
           pc' = [pc EXCEPT ![c] = p],
           obj' = [obj EXCEPT ![o] = s],
           o = c \/ pc[o] \notin Unborn,
           obj[o].state \in Terminal => s.state = obj[o].state
    PROVE  Ends
<1>1. /\ \A a \in Call : a # o => obj'[a] = obj[a]
      /\ obj'[o] = s
      /\ \A a \in Call : pc'[a] \in Unborn => a # o /\ pc[a] \in Unborn
  BY DEF IInv, Control
<1> QED
  BY <1>1 DEF Ends, Untouched

(* No object is changed. *)
LEMMA NoneEnds ==
    ASSUME Untouched, UNCHANGED obj,
           \A a \in Call : pc'[a] \in Unborn => pc[a] \in Unborn
    PROVE  Ends
  BY DEF Ends, Untouched

(* Nobody drives a session that has ended, and it offers no approval. *)
LEMMA StepEnds ==
    ASSUME IInv, Untouched, [Next]_vars, ~Restart
    PROVE  Ends
<1>1. obj \in [Call -> Object] /\ pc \in [Call -> Places]
  BY DEF IInv, Control
<1>2. {"model", "calls", "tool", "saveTurn", "savePause", "saveBlock", "done", "threw", "provider"}
          \subseteq Places \ Unborn
  BY DEF Places, Unborn
<1>3. ASSUME NEW c \in Call, NEW s, NEW p, Drives(c, s, p) PROVE Ends
  <2>1. ref[c] \in Call /\ pc[ref[c]] \notin Unborn /\ obj[ref[c]].state \notin Terminal
    BY <1>3, DriverFacts DEF Drives, Driving, Driver, Terminal
  <2> QED
    BY <1>2, <1>3, <2>1, OneEnds DEF Drives
<1>4. ASSUME NEW c \in Call, BlockPersist(c) \/ ProviderThrows(c) \/ LoadThrows(c) PROVE Ends
  BY <1>1, <1>2, <1>4, NoneEnds DEF BlockPersist, ProviderThrows, LoadThrows, Reject, Unborn
<1>5. ASSUME NEW c \in Call, NEW o \in Call, NEW s, NEW d,
             Decide(c, o, s, d), pc[c] \in Unborn,
             \/ s = obj[o] /\ pc[o] \notin Unborn
             \/ o = c
      PROVE  Ends
  <2>1. PICK p \in Places \ Unborn : \E t :
           /\ pc' = [pc EXCEPT ![c] = p]
           /\ obj' = [obj EXCEPT ![o] = t]
           /\ s.state # "WAITING_FOR_APPROVAL" => t = s
    <3>1. CASE ~Matches(s, d)
      BY <1>2, <1>5, <3>1 DEF Decide
    <3>2. CASE Matches(s, d) /\ ~d.yes
      BY <1>2, <1>5, <3>2, Zenon DEF Decide, Matches
    <3>3. CASE Matches(s, d) /\ d.yes
      BY <1>2, <1>5, <3>3, Zenon DEF Decide, Matches, StartTool
    <3> QED
      BY <3>1, <3>2, <3>3
  <2>2. PICK t : /\ obj' = [obj EXCEPT ![o] = t]
                 /\ s.state # "WAITING_FOR_APPROVAL" => t = s
    BY <2>1
  <2>3. o = c => obj[o].state \notin Terminal
    BY <1>5 DEF Untouched, Blank, CodingAgentSession, Terminal
  <2> QED
    BY <1>5, <2>1, <2>2, <2>3, OneEnds DEF Terminal
<1>6. ASSUME NEW c \in Call, Progress(c) PROVE Ends
  <2>1. CASE Load(c)
    BY <1>5, <2>1 DEF Load, Unborn
  <2> QED
    BY <1>3, <1>4, <1>6, <2>1, LoopDrives DEF Progress
<1>7. ASSUME NEW c \in Runs, Run(c) PROVE Ends
  <2>1. obj[c].state \notin Terminal
    BY <1>7 DEF Run, Unborn, Untouched, Blank, CodingAgentSession, Terminal
  <2> QED
    BY <1>2, <1>7, <2>1, OneEnds DEF Run
<1>8. ASSUME NEW c \in Resumes, NEW x \in Runs, NEW a \in Call \cup {None}, NEW yes \in BOOLEAN,
             Resume(c, x, a, yes) \/ ResumeUnknown(c, x, a, yes)
      PROVE  Ends
  <2>1. CASE Resume(c, x, a, yes)
    <3>1. sessions[x] \in Call /\ pc[sessions[x]] \notin Unborn /\ pc[c] \in Unborn
      BY <2>1 DEF Resume, IInv, Rest, Control, Fresh, Unborn
    <3> QED
      BY <1>5, <2>1, <3>1 DEF Resume
  <2>2. CASE ResumeUnknown(c, x, a, yes)
    BY <1>1, <2>2, NoneEnds DEF ResumeUnknown, Unborn
  <2> QED
    BY <1>8, <2>1, <2>2
<1>9. ASSUME NEW c \in Call, SaveLands(c) \/ SaveFails(c) PROVE Ends
  <2>1. \A a \in Call : pc'[a] \in Unborn => pc[a] \in Unborn
    BY <1>1, <1>9 DEF SaveLands, SaveFails, SaveEnds, Unborn
  <2> QED
    BY <1>9, <2>1, NoneEnds DEF SaveLands, SaveFails, SaveEnds
<1>10. ASSUME NEW x \in Runs, cancel(x) \/ RuntimeElapses(x) PROVE Ends
  <2>1. CASE cancel(x)
    <3>1. /\ sessions[x] \in Call /\ pc[sessions[x]] \notin Unborn /\ pc' = pc
          /\ obj[sessions[x]].state = "RUNNING"
          /\ \A o \in Call : o # sessions[x] => obj'[o] = obj[o]
      BY <1>1, <2>1 DEF cancel, callVars, IInv, Rest, Control, Fresh
    <3> QED
      BY <3>1 DEF Ends, Untouched, Terminal
  <2>2. CASE RuntimeElapses(x)
    BY <2>2, NoneEnds DEF RuntimeElapses, callVars
  <2> QED
    BY <1>10, <2>1, <2>2
<1>11. CASE UNCHANGED vars
  BY <1>11, NoneEnds DEF vars
<1> QED
  BY <1>6, <1>7, <1>8, <1>9, <1>10, <1>11 DEF Next

(* Nobody ever touches the object of an invocation that has not begun. *)
LEMMA UntouchedInvariance == Spec => []Untouched
<1>1. Init => Untouched
  BY DEF Init, Untouched
<1>2. IInv /\ Untouched /\ [Next]_vars => Untouched'
  <2>1. ASSUME Restart PROVE Untouched'
    BY <2>1 DEF Restart, Untouched
  <2> QED
    BY <2>1, StepEnds DEF Ends
<1> QED
  BY <1>1, <1>2, Invariance, PTL DEF Spec

(* A session that has ended stays as it ended, whoever still holds it. *)
THEOREM EndsForGood == Spec => EndIsFinal
<1>1. IInv /\ Untouched /\ [Next]_vars =>
        [\A o \in Call : obj[o].state \in Terminal => obj'[o].state \in {obj[o].state, "IDLE"}]_vars
  <2>1. ASSUME Restart, NEW o \in Call PROVE obj'[o].state = "IDLE"
    BY <2>1 DEF Restart, Blank, CodingAgentSession
  <2> QED
    BY <2>1, StepEnds DEF Ends
<1> QED
  BY <1>1, Invariance, UntouchedInvariance, PTL DEF Spec, EndIsFinal
-----------------------------------------------------------------------------
(***************************************************************************)
(* The repository that saves in order, within one life of the process.     *)
(* Every session has one object, its own, and an invocation has one save   *)
(* under way at most, which it waits for or has ended with.                *)
(***************************************************************************)
Own ==
    /\ \A c \in Call : ref[c] # None => ref[c] \in Runs /\ sid[c] = ref[c]
    /\ \A x \in Runs : sessions[x] \in {None, x}

Saving == {"saveTurn", "savePause", "saveBlock", "done"}

Awaited == \A c \in writing : pc[c] \in Saving /\ ref[c] # None

(* The saves under way of the session x. *)
SavesOf(x) == {c \in writing : sid[c] = x}

(* The record of a session at rest is stored, or is in the save that is to *)
(* land after all others of the session.                                   *)
Latest(x) ==
    \/ SavesOf(x) = {} /\ store[x] = toSessionRecord(obj[x])
    \/ \E c \in SavesOf(x) : /\ rec[c] = toSessionRecord(obj[x])
                             /\ SavesOf(x) \ {c} \subseteq ahead[c]

Line ==
    ordered /\ ~unsaved => \A x \in Runs : AtRest(obj[x]) => Latest(x)

(* An ended session is saved as it ended from then on: every save that is  *)
(* to land after such a record is one too.                                 *)
Queued ==
    /\ \A c \in writing : ahead[c] \subseteq writing
    /\ \A c, d \in writing : c # d => c \in ahead[d] \/ d \in ahead[c]

Closed ==
    /\ \A c \in writing : rec[c].state \in Terminal => rec[c].state = obj[sid[c]].state
    /\ \A c, d \in writing : (sid[c] = sid[d] /\ c \in ahead[d] /\ rec[c].state \in Terminal) =>
          rec[d].state \in Terminal
    /\ \A x \in Runs : store[x].state \in Terminal =>
          /\ store[x].state = obj[x].state
          /\ \A c \in SavesOf(x) : rec[c].state \in Terminal

Kept == Own /\ Awaited /\ Line /\ (ordered => Queued /\ Closed)

(* What a step does to the saves: nothing that a record would tell of a    *)
(* session at rest; a new save, of the object as it is afterwards; or one  *)
(* of those under way ends.                                                *)
SavesNone ==
    /\ UNCHANGED <<saveVars, unsaved>>
    /\ \A o \in Call : AtRest(obj'[o]) => toSessionRecord(obj'[o]) = toSessionRecord(obj[o])

SavesOne(c, o) ==
    /\ c \notin writing
    /\ o \in Runs
    /\ sid'[c] = o
    /\ Persist(c, obj'[o])
    /\ \A x \in Call \ {o} : obj'[x] = obj[x]
    /\ unsaved' = unsaved

EndsOne(c) ==
    /\ SaveEnds(c)
    /\ \/ store' = [store EXCEPT ![sid[c]] = rec[c]] /\ unsaved' = unsaved
       \/ store' = store /\ unsaved' = TRUE

Files ==
    /\ Own' /\ Awaited'
    /\ ordered' = ordered
    /\ \A c \in writing : sid'[c] = sid[c]
    /\ SavesNone \/ (\E c \in Call, o \in Runs : SavesOne(c, o)) \/ (\E c \in Call : EndsOne(c))

(* A step that saves nothing keeps the order. *)
LEMMA NoneKept ==
    ASSUME IInv, Kept, Own', Awaited', ordered' = ordered, \A c \in writing : sid'[c] = sid[c],
           SavesNone, Ends
    PROVE  Kept'
<1>1. \A x : SavesOf(x)' = SavesOf(x)
  BY DEF SavesNone, saveVars, SavesOf
<1>2. UNCHANGED <<store, writing, ahead, rec, unsaved>>
  BY DEF SavesNone, saveVars
<1>3. \A o \in Call : AtRest(obj'[o]) => /\ AtRest(obj[o])
                                          /\ toSessionRecord(obj'[o]) = toSessionRecord(obj[o])
  BY DEF SavesNone, AtRest, toSessionRecord
<1>4. Line'
  <2> SUFFICES ASSUME ordered, ~unsaved, NEW x \in Runs, AtRest(obj'[x])
               PROVE  Latest(x)'
    BY <1>2 DEF Line
  <2>1. Latest(x) /\ toSessionRecord(obj'[x]) = toSessionRecord(obj[x])
    BY <1>3 DEF Kept, Line
  <2> QED
    BY <1>1, <1>2, <2>1 DEF Latest
<1>5. ASSUME ordered PROVE Queued' /\ Closed'
  <2>1. Queued'
    BY <1>2, <1>5 DEF Kept, Queued
  <2>2. \A c \in writing : sid[c] \in Call
    BY CallAssumption DEF Kept, Own, Awaited, IInv, Saves
  <2>3. \A c \in writing : rec'[c].state \in Terminal => rec'[c].state = obj'[sid'[c]].state
    BY <1>2, <1>5, <2>2 DEF Kept, Closed, Ends
  <2>4. \A c, d \in writing : (sid'[c] = sid'[d] /\ c \in ahead'[d] /\ rec'[c].state \in Terminal) =>
           rec'[d].state \in Terminal
    BY <1>2, <1>5 DEF Kept, Closed
  <2>5. \A x \in Runs : store'[x].state \in Terminal =>
           /\ store'[x].state = obj'[x].state
           /\ \A c \in SavesOf(x)' : rec'[c].state \in Terminal
    BY <1>1, <1>2, <1>5 DEF Kept, Closed, Ends
  <2> QED
    BY <1>2, <2>1, <2>3, <2>4, <2>5 DEF Closed
<1> QED
  BY <1>4, <1>5 DEF Kept

(* A new save is the last of its session, and tells what the object is. *)
LEMMA OneKept ==
    ASSUME IInv, Kept, Own', Awaited', ordered' = ordered, \A c \in writing : sid'[c] = sid[c],
           NEW c \in Call, NEW o \in Runs, SavesOne(c, o), Ends
    PROVE  Kept'
<1>1. /\ writing' = writing \cup {c} /\ c \notin writing
      /\ ahead' = [ahead EXCEPT ![c] = writing]
      /\ rec' = [rec EXCEPT ![c] = toSessionRecord(obj'[o])]
      /\ store' = store /\ unsaved' = unsaved
      /\ sid'[c] = o
  BY DEF SavesOne, Persist
<1>2. /\ ahead'[c] = writing
      /\ rec'[c] = toSessionRecord(obj'[o])
      /\ \A d \in writing : ahead'[d] = ahead[d] /\ rec'[d] = rec[d] /\ sid'[d] = sid[d] /\ d # c
      /\ writing \subseteq Call
  BY <1>1 DEF IInv, Saves
<1>3. /\ SavesOf(o)' = SavesOf(o) \cup {c}
      /\ \A x \in Runs \ {o} : SavesOf(x)' = SavesOf(x)
  BY <1>1, <1>2 DEF SavesOf
<1>4. Line'
  <2> SUFFICES ASSUME ordered, ~unsaved, NEW x \in Runs, AtRest(obj'[x])
               PROVE  Latest(x)'
    BY <1>1 DEF Line
  <2>1. CASE x = o
    <3>1. SavesOf(o) \subseteq writing
      BY DEF SavesOf
    <3>2. c \in SavesOf(o)' /\ SavesOf(o)' \ {c} \subseteq ahead'[c]
      BY <1>2, <1>3, <3>1
    <3> QED
      BY <1>2, <2>1, <3>2 DEF Latest
  <2>2. CASE x # o
    <3>1. obj'[x] = obj[x]
      BY <2>2 DEF SavesOne
    <3>2. Latest(x)
      BY <3>1 DEF Kept, Line
    <3>3. SavesOf(x)' = SavesOf(x) /\ SavesOf(x) \subseteq writing
      BY <1>3, <2>2 DEF SavesOf
    <3> QED
      BY <1>1, <1>2, <3>1, <3>2, <3>3 DEF Latest
  <2> QED
    BY <2>1, <2>2
<1>5. ASSUME ordered PROVE Queued' /\ Closed'
  <2>1. Queued'
    BY <1>1, <1>2, <1>5 DEF Kept, Queued
  <2>2. \A d \in writing : sid[d] \in Call
    BY CallAssumption DEF Kept, Own, Awaited, IInv, Saves
  <2>3. rec'[c].state = obj'[o].state
    BY <1>2 DEF toSessionRecord
  <2>4. \A d \in writing' : rec'[d].state \in Terminal => rec'[d].state = obj'[sid'[d]].state
    BY <1>1, <1>2, <1>5, <2>2, <2>3 DEF Kept, Closed, Ends
  <2>5. ASSUME NEW d \in writing', NEW e \in writing', sid'[d] = sid'[e], d \in ahead'[e],
               rec'[d].state \in Terminal
        PROVE  rec'[e].state \in Terminal
    <3>1. CASE e = c
      <4>1. d \in writing /\ rec[d].state \in Terminal /\ sid[d] = o
        BY <1>1, <1>2, <2>5, <3>1
      <4>2. obj[o].state \in Terminal
        BY <1>5, <4>1 DEF Kept, Closed
      <4> QED
        BY <2>3, <3>1, <4>2 DEF Ends
    <3>2. CASE e # c
      <4>1. e \in writing /\ d \in ahead[e]
        BY <1>1, <1>2, <2>5, <3>2
      <4>2. CASE d = c
        BY <1>1, <1>5, <4>1, <4>2 DEF Kept, Queued
      <4>3. CASE d # c
        BY <1>1, <1>2, <1>5, <2>5, <4>1, <4>3 DEF Kept, Closed
      <4> QED
        BY <4>2, <4>3
    <3> QED
      BY <3>1, <3>2
  <2>6. ASSUME NEW x \in Runs, store'[x].state \in Terminal
        PROVE  /\ store'[x].state = obj'[x].state
               /\ \A d \in SavesOf(x)' : rec'[d].state \in Terminal
    <3>1. /\ store[x].state = obj[x].state /\ obj[x].state \in Terminal
          /\ \A d \in SavesOf(x) : rec[d].state \in Terminal
      BY <1>1, <1>5, <2>6 DEF Kept, Closed
    <3>2. obj'[x].state = obj[x].state
      BY <3>1 DEF Ends
    <3>3. SavesOf(x) \subseteq writing /\ (x = o => rec'[c].state \in Terminal)
      BY <2>3, <3>1, <3>2 DEF SavesOf
    <3> QED
      BY <1>1, <1>2, <1>3, <3>1, <3>2, <3>3
  <2> QED
    BY <2>1, <2>4, <2>5, <2>6 DEF Closed
<1> QED
  BY <1>4, <1>5 DEF Kept

(***************************************************************************)
(* A save ends.  In order, all others of the session come after it; so if  *)
(* it is the last there is no other.                                       *)
(***************************************************************************)
LEMMA EndKept ==
    ASSUME IInv, Kept, Own', Awaited', ordered' = ordered, \A c \in writing : sid'[c] = sid[c],
           NEW c \in Call, EndsOne(c)
    PROVE  Kept'
<1>1. /\ c \in writing
      /\ ordered => ahead[c] = {}
      /\ writing' = writing \ {c}
      /\ rec' = [rec EXCEPT ![c] = NoRecord]
      /\ ahead' = [d \in Call |-> ahead[d] \ {c}]
      /\ obj' = obj /\ sid' = sid
  BY DEF EndsOne, SaveEnds
<1>2. /\ \A d \in writing' : ahead'[d] = ahead[d] \ {c} /\ rec'[d] = rec[d] /\ d # c
      /\ writing \subseteq Call
  BY <1>1 DEF IInv, Saves
<1>3. \A x \in Runs : SavesOf(x)' = SavesOf(x) \ {c}
  BY <1>1 DEF SavesOf
<1>4. \/ store' = store /\ unsaved' = TRUE
      \/ /\ unsaved' = unsaved
         /\ \A x \in Runs : store'[x] = IF x = sid[c] THEN rec[c] ELSE store[x]
  BY DEF EndsOne, IInv, Saves
<1>5. sid[c] \in Runs
  BY <1>1 DEF Kept, Own, Awaited
<1>6. Line'
  <2> SUFFICES ASSUME ordered, ~unsaved', NEW x \in Runs, AtRest(obj[x])
               PROVE  Latest(x)'
    BY <1>1 DEF Line
  <2>1. Latest(x) /\ ahead[c] = {}
    BY <1>1, <1>4 DEF Kept, Line
  <2>2. CASE SavesOf(x) = {} /\ store[x] = toSessionRecord(obj[x])
    <3>1. x # sid[c]
      BY <1>1, <2>2 DEF SavesOf
    <3> QED
      BY <1>1, <1>3, <1>4, <2>2, <3>1 DEF Latest
  <2>3. ASSUME NEW d \in SavesOf(x), rec[d] = toSessionRecord(obj[x]),
               SavesOf(x) \ {d} \subseteq ahead[d]
        PROVE  Latest(x)'
    <3>1. d \in writing /\ sid[d] = x
      BY DEF SavesOf
    <3>2. CASE d = c
      <4>1. SavesOf(x)' = {}
        BY <1>3, <2>1, <2>3, <3>2
      <4> QED
        BY <1>1, <1>4, <2>3, <3>1, <3>2, <4>1 DEF Latest
    <3>3. CASE d # c
      <4>1. d \in writing' /\ d \in SavesOf(x)' /\ SavesOf(x)' \ {d} \subseteq ahead'[d]
        BY <1>1, <1>2, <1>3, <2>3, <3>1, <3>3
      <4> QED
        BY <1>1, <1>2, <2>3, <4>1 DEF Latest
    <3> QED
      BY <3>2, <3>3
  <2> QED
    BY <2>1, <2>2, <2>3 DEF Latest
<1>7. ASSUME ordered PROVE Queued' /\ Closed'
  <2>1. Queued'
    BY <1>1, <1>2, <1>7 DEF Kept, Queued
  <2>2. \A d \in writing' : rec'[d].state \in Terminal => rec'[d].state = obj'[sid'[d]].state
    BY <1>1, <1>2, <1>7 DEF Kept, Closed
  <2>3. ASSUME NEW d \in writing', NEW e \in writing', sid'[d] = sid'[e], d \in ahead'[e],
               rec'[d].state \in Terminal
        PROVE  rec'[e].state \in Terminal
    BY <1>1, <1>2, <1>7, <2>3 DEF Kept, Closed
  <2>4. ASSUME NEW x \in Runs, store'[x].state \in Terminal
        PROVE  /\ store'[x].state = obj[x].state
               /\ \A d \in SavesOf(x)' : rec'[d].state \in Terminal
    <3>1. \A d \in SavesOf(x)' : d \in writing' /\ d \in writing /\ d # c /\ sid[d] = x
      BY <1>1 DEF SavesOf
    <3>2. CASE store'[x] = store[x]
      BY <1>2, <1>3, <1>7, <2>4, <3>1, <3>2 DEF Kept, Closed
    <3>3. CASE x = sid[c] /\ store'[x] = rec[c]
      <4>1. rec[c].state = obj[x].state
        BY <1>1, <1>7, <2>4, <3>3 DEF Kept, Closed
      <4>2. \A d \in SavesOf(x)' : c \in ahead[d]
        BY <1>1, <1>7, <3>1 DEF Kept, Queued
      <4>3. \A d \in SavesOf(x)' : rec[d].state \in Terminal
        BY <1>1, <1>7, <2>4, <3>1, <3>3, <4>2 DEF Kept, Closed
      <4> QED
        BY <1>2, <3>1, <3>3, <4>1, <4>3
    <3> QED
      BY <1>4, <3>2, <3>3
  <2> QED
    BY <1>1, <2>1, <2>2, <2>3, <2>4 DEF Closed
<1> QED
  BY <1>1, <1>6, <1>7 DEF Kept

(* What an invocation that stands where it has no save under way does to   *)
(* the saves: a step to p, with a save or without.                         *)
LEMMA OwnSteps ==
    ASSUME IInv, Own, Awaited, NEW c \in Call, NEW p \in Places, NEW o,
           pc[c] \notin Saving,
           pc' = [pc EXCEPT ![c] = p],
           ref' = [ref EXCEPT ![c] = o],
           \A d \in Call \ {c} : sid'[d] = sid[d],
           o # None => o \in Runs /\ sid'[c] = o,
           \A x \in Runs : sessions'[x] \in {sessions[x], x},
           \/ writing' = writing
           \/ writing' = writing \cup {c} /\ p \in Saving /\ o # None
    PROVE  /\ Own' /\ Awaited'
           /\ c \notin writing
           /\ \A d \in writing : sid'[d] = sid[d]
<1>1. /\ pc'[c] = p /\ ref'[c] = o
      /\ \A d \in Call \ {c} : pc'[d] = pc[d] /\ ref'[d] = ref[d]
      /\ writing \subseteq Call
  BY DEF IInv, Control, Saves
<1>2. c \notin writing
  BY DEF Awaited
<1> QED
  BY <1>1, <1>2 DEF Own, Awaited

(* The steps of an invocation that drives its object. *)
LEMMA DrivesFiles ==
    ASSUME IInv, Own, Awaited, NEW c \in Call, NEW s, NEW p \in Places, Drives(c, s, p)
    PROVE  Files
<1>1. /\ ref[c] \in Call /\ ref[c] # None /\ pc[c] \notin Saving
      /\ obj \in [Call -> Object]
      /\ ref' = [ref EXCEPT ![c] = ref[c]]
  BY DriverFacts, CallAssumption DEF Drives, Driving, Saving, IInv, Control
<1>2. ref[c] \in Runs /\ sid[c] = ref[c]
  BY <1>1 DEF Own
<1>3. \A x \in Runs : sessions'[x] \in {sessions[x], x}
  BY <1>2 DEF Drives, IInv, Rest
<1>4. \/ writing' = writing
      \/ writing' = writing \cup {c} /\ p \in Saving
  BY DEF Drives, Persist, saveVars, Saving
<1>5. /\ Own' /\ Awaited' /\ c \notin writing
      /\ \A d \in writing : sid'[d] = sid[d]
  <2>1. \A d \in Call \ {c} : sid'[d] = sid[d]
    BY DEF Drives
  <2>2. sid'[c] = ref[c]
    BY <1>2 DEF Drives
  <2>3. pc' = [pc EXCEPT ![c] = p]
    BY DEF Drives
  <2> QED
    BY <1>1, <1>2, <1>3, <1>4, <2>1, <2>2, <2>3, OwnSteps
<1>6. /\ obj'[ref[c]] = s
      /\ \A x \in Call \ {ref[c]} : obj'[x] = obj[x]
  BY <1>1 DEF Drives
<1>7. CASE Persist(c, s)
  <2>1. SavesOne(c, ref[c])
    BY <1>1, <1>2, <1>5, <1>6, <1>7 DEF SavesOne, Drives
  <2> QED
    BY <1>2, <1>5, <2>1 DEF Files, Drives
<1>8. CASE UNCHANGED saveVars /\ s.state = "RUNNING"
  <2>1. SavesNone
    BY <1>6, <1>8 DEF SavesNone, Drives, AtRest, Terminal
  <2> QED
    BY <1>5, <2>1 DEF Files, Drives
<1> QED
  BY <1>7, <1>8 DEF Drives

(* A decision: a denial is saved, and what was accepted is at rest no more. *)
LEMMA ResumeFiles ==
    ASSUME IInv, Own, Awaited, NEW c \in Resumes, NEW x \in Runs, NEW a \in Call \cup {None},
           NEW yes \in BOOLEAN, Resume(c, x, a, yes)
    PROVE  Files
<1> DEFINE s == obj[x]
           d == [id |-> a, yes |-> yes]
<1>1. /\ c \in Call /\ x \in Call /\ x # None /\ sessions[x] = x
      /\ pc[c] \notin Saving
      /\ obj \in [Call -> Object] /\ pc \in [Call -> Places]
      /\ sid' = [sid EXCEPT ![c] = x]
      /\ ref' = [ref EXCEPT ![c] = x]
      /\ sid \in [Call -> Runs \cup {None}]
      /\ Decide(c, x, s, d)
      /\ UNCHANGED <<sessions, ordered, unsaved>>
  BY CallAssumption DEF Resume, Own, Saving, IInv, Control, Rest, world
<1>2. ASSUME NEW p \in Places, pc' = [pc EXCEPT ![c] = p],
             writing' = writing \/ (writing' = writing \cup {c} /\ p \in Saving)
      PROVE  /\ Own' /\ Awaited' /\ c \notin writing
             /\ \A e \in writing : sid'[e] = sid[e]
  BY <1>1, <1>2, OwnSteps
<1>3. {"threw", "done", "tool", "provider"} \subseteq Places /\ "done" \in Saving
  BY DEF Places, Saving
<1>4. CASE ~Matches(s, d)
  <2>1. obj' = obj /\ pc' = [pc EXCEPT ![c] = "threw"] /\ UNCHANGED saveVars
    BY <1>1, <1>4 DEF Decide
  <2>2. SavesNone /\ writing' = writing
    BY <1>1, <2>1 DEF SavesNone, saveVars
  <2> QED
    BY <1>1, <1>2, <1>3, <2>1, <2>2 DEF Files
<1>5. CASE Matches(s, d) /\ ~yes
  <2> DEFINE t == [Consumed(s) EXCEPT !.state = "CANCELLED"]
  <2>1. /\ obj' = [obj EXCEPT ![x] = t] /\ Persist(c, t)
        /\ pc' = [pc EXCEPT ![c] = "done"]
    BY <1>1, <1>5 DEF Decide
  <2> HIDE DEF t
  <2>2. writing' = writing \cup {c}
    BY <2>1 DEF Persist
  <2>3. /\ Own' /\ Awaited' /\ c \notin writing
        /\ \A e \in writing : sid'[e] = sid[e]
    BY <1>2, <1>3, <2>1, <2>2
  <2>4. SavesOne(c, x)
    BY <1>1, <2>1, <2>3 DEF SavesOne
  <2> QED
    BY <1>1, <2>3, <2>4 DEF Files
<1>6. CASE Matches(s, d) /\ yes
  <2>1. PICK p \in Places : \E t :
           /\ pc' = [pc EXCEPT ![c] = p] /\ obj' = [obj EXCEPT ![x] = t]
           /\ t.pending = None /\ t.state \in {"RUNNING", "WAITING_FOR_APPROVAL"}
           /\ UNCHANGED saveVars
    <3>1. s \in Object /\ s.state = "WAITING_FOR_APPROVAL"
      BY <1>1, <1>6 DEF Matches
    <3> HIDE DEF s
    <3>2. CASE StartTool(c, x, Running(s))
      <4> DEFINE t == [Running(s) EXCEPT !.toolCalls = @ + 1]
      <4>1. t.pending = None /\ t.state = "RUNNING"
        BY <3>1 DEF Running, Consumed, Object
      <4>2. obj' = [obj EXCEPT ![x] = t] /\ pc' = [pc EXCEPT ![c] = "tool"]
        BY <3>2 DEF StartTool
      <4> HIDE DEF t
      <4> QED
        BY <1>1, <1>3, <1>6, <4>1, <4>2 DEF Decide
    <3>3. CASE /\ obj' = [obj EXCEPT ![x] = Consumed(s)] /\ pc' = [pc EXCEPT ![c] = "provider"]
      <4>1. Consumed(s).pending = None /\ Consumed(s).state = "WAITING_FOR_APPROVAL"
        BY <3>1 DEF Consumed, Object
      <4> QED
        BY <1>1, <1>3, <1>6, <3>3, <4>1 DEF Decide
    <3> QED
      BY <1>1, <1>6, <3>2, <3>3 DEF Decide
  <2>2. writing' = writing
    BY <2>1 DEF saveVars
  <2>3. SavesNone
    BY <1>1, <2>1 DEF SavesNone, AtRest, Terminal
  <2> QED
    BY <1>1, <1>2, <2>1, <2>2, <2>3 DEF Files
<1> QED
  BY <1>4, <1>5, <1>6

(* Every step within one life of the process is of one of the three kinds. *)
LEMMA StepFiles ==
    ASSUME IInv, Once, Own, Awaited, [Next]_vars, ~Restart
    PROVE  Files
<1>1. /\ obj \in [Call -> Object] /\ pc \in [Call -> Places]
      /\ sid \in [Call -> Runs \cup {None}] /\ ref \in [Call -> Call \cup {None}]
      /\ writing \subseteq Call
  BY DEF IInv, Control, Saves, Rest
<1>2. ASSUME NEW c \in Call PROVE ~Load(c) /\ ~LoadThrows(c)
  BY DEF Once, InMemory, Load, LoadThrows
<1>3. ASSUME NEW c \in Call, BlockPersist(c) PROVE Files
  <2>1. /\ ref[c] \in Call /\ ref[c] # None /\ pc[c] \notin Saving
        /\ ref' = [ref EXCEPT ![c] = ref[c]]
        /\ pc' = [pc EXCEPT ![c] = "saveBlock"] /\ "saveBlock" \in Places \cap Saving
        /\ Persist(c, obj[ref[c]]) /\ writing' = writing \cup {c}
        /\ UNCHANGED <<sid, obj, sessions, ordered, unsaved>>
    BY <1>1, <1>3, CallAssumption
       DEF BlockPersist, IInv, Control, Pausers, Pausing, Saving, Places, Persist, world
  <2>2. ref[c] \in Runs /\ sid[c] = ref[c]
    BY <2>1 DEF Own
  <2>3. /\ Own' /\ Awaited' /\ c \notin writing
        /\ \A d \in writing : sid'[d] = sid[d]
    BY <2>1, <2>2, OwnSteps
  <2>4. SavesOne(c, ref[c])
    BY <2>1, <2>2, <2>3 DEF SavesOne
  <2> QED
    BY <2>1, <2>2, <2>3, <2>4 DEF Files
<1>4. ASSUME NEW c \in Call, ProviderThrows(c) PROVE Files
  <2>1. /\ pc[c] \notin Saving
        /\ ref' = [ref EXCEPT ![c] = ref[c]]
        /\ pc' = [pc EXCEPT ![c] = "threw"] /\ "threw" \in Places
        /\ UNCHANGED <<sid, obj, sessions, ordered, unsaved, saveVars>>
    BY <1>1, <1>4 DEF ProviderThrows, Reject, Saving, Places, world
  <2>2. ref[c] # None => ref[c] \in Runs /\ sid[c] = ref[c]
    BY DEF Own
  <2>3. writing' = writing
    BY <2>1 DEF saveVars
  <2>4. /\ Own' /\ Awaited'
        /\ \A d \in writing : sid'[d] = sid[d]
    BY <2>1, <2>2, <2>3, OwnSteps
  <2>5. SavesNone
    BY <2>1 DEF SavesNone
  <2> QED
    BY <2>1, <2>4, <2>5 DEF Files
<1>5. ASSUME NEW c \in Call, Progress(c) PROVE Files
  <2>1. ASSUME NEW s, NEW p, Drives(c, s, p) PROVE Files
    <3>1. p \in Places
      BY <2>1 DEF Drives, Places
    <3> QED
      BY <2>1, <3>1, DrivesFiles
  <2> QED
    BY <1>2, <1>3, <1>4, <1>5, <2>1, LoopDrives DEF Progress
<1>6. ASSUME NEW c \in Runs, Run(c) PROVE Files
  <2> DEFINE s == CodingAgentSession("RUNNING", TRUE)
  <2>1. /\ c \in Call /\ c # None /\ pc[c] \notin Saving
        /\ obj' = [obj EXCEPT ![c] = s] /\ Persist(c, s) /\ writing' = writing \cup {c}
        /\ sid' = [sid EXCEPT ![c] = c]
        /\ ref' = [ref EXCEPT ![c] = c]
        /\ sessions' = [sessions EXCEPT ![c] = c]
        /\ pc' = [pc EXCEPT ![c] = "saveTurn"] /\ "saveTurn" \in Places \cap Saving
        /\ UNCHANGED <<ordered, unsaved>>
    BY <1>6, CallAssumption DEF Run, Saving, Places, Persist, world
  <2> HIDE DEF s
  <2>2. \A x \in Runs : sessions'[x] \in {sessions[x], x}
    BY <2>1 DEF IInv, Rest
  <2>3. /\ Own' /\ Awaited' /\ c \notin writing
        /\ \A d \in writing : sid'[d] = sid[d]
    BY <1>1, <2>1, <2>2, OwnSteps
  <2>4. SavesOne(c, c)
    BY <1>1, <2>1, <2>3 DEF SavesOne
  <2> QED
    BY <2>1, <2>3, <2>4 DEF Files
<1>7. ASSUME NEW c \in Resumes, NEW x \in Runs, NEW a \in Call \cup {None}, NEW yes \in BOOLEAN,
             Resume(c, x, a, yes) \/ ResumeUnknown(c, x, a, yes)
      PROVE  Files
  <2>1. ~ResumeUnknown(c, x, a, yes)
    BY DEF Once, InMemory, ResumeUnknown
  <2> QED
    BY <1>7, <2>1, ResumeFiles
<1>8. ASSUME NEW c \in Call, SaveLands(c) \/ SaveFails(c) PROVE Files
  <2>1. EndsOne(c)
    BY <1>8 DEF SaveLands, SaveFails, EndsOne
  <2>2. /\ UNCHANGED <<sid, ref, sessions, ordered>>
        /\ writing' = writing \ {c}
        /\ \A d \in Call \ {c} : pc'[d] = pc[d]
    BY <1>1, <1>8 DEF SaveLands, SaveFails, SaveEnds
  <2>3. Own' /\ Awaited'
    BY <1>1, <2>2 DEF Own, Awaited
  <2> QED
    BY <2>1, <2>2, <2>3 DEF Files
<1>9. ASSUME NEW x \in Runs, cancel(x) PROVE Files
  <2>1. /\ UNCHANGED <<callVars, sessions, saveVars, ordered, unsaved>>
        /\ obj' = [obj EXCEPT ![sessions[x]].cancelled = TRUE]
    BY <1>9 DEF cancel, world
  <2>2. \A o \in Call : toSessionRecord(obj'[o]) = toSessionRecord(obj[o])
    BY <1>1, <2>1 DEF toSessionRecord, Object
  <2>3. SavesNone /\ Own' /\ Awaited' /\ sid' = sid /\ ordered' = ordered
    BY <2>1, <2>2 DEF SavesNone, Own, Awaited, callVars, saveVars
  <2> QED
    BY <2>3 DEF Files
<1>10. ASSUME UNCHANGED vars \/ \E x \in Runs : RuntimeElapses(x) PROVE Files
  <2>1. UNCHANGED <<callVars, obj, sessions, saveVars, ordered, unsaved>>
    BY <1>10 DEF vars, callVars, saveVars, RuntimeElapses
  <2>2. SavesNone /\ Own' /\ Awaited' /\ sid' = sid /\ ordered' = ordered
    BY <2>1 DEF SavesNone, Own, Awaited, callVars, saveVars
  <2> QED
    BY <2>2 DEF Files
<1> QED
  BY <1>5, <1>6, <1>7, <1>8, <1>9, <1>10 DEF Next

(* Within one life of the process, the saves are in order. *)
LEMMA KeptInvariance == Spec => [](restarts = 0 => Kept)
<1>1. Init => Kept
  <2> SUFFICES ASSUME Init PROVE Kept
    OBVIOUS
  <2>1. Own /\ Awaited /\ Queued
    BY DEF Init, Own, Awaited, Queued
  <2>2. Line /\ Closed
    <3>1. \A o \in Call : ~AtRest(obj[o])
      BY DEF Init, AtRest, Blank, CodingAgentSession, Terminal
    <3>2. \A x \in Runs : store[x].state \notin Terminal
      BY DEF Init, NoRecord, toSessionRecord, Blank, CodingAgentSession, Terminal
    <3> QED
      BY <3>1, <3>2 DEF Init, Line, Closed
  <2> QED
    BY <2>1, <2>2 DEF Kept
<1>2. IInv /\ Untouched /\ (restarts = 0 => Once) /\ (restarts = 0 => Kept) /\ [Next]_vars
        => (restarts = 0 => Kept)'
  <2> SUFFICES ASSUME IInv, Untouched, restarts = 0 => Once, restarts = 0 => Kept, [Next]_vars,
                      restarts' = 0
               PROVE  Kept'
    OBVIOUS
  <2>1. ~Restart /\ restarts = 0
    BY OneLife
  <2>2. Once /\ Kept /\ Own /\ Awaited
    BY <2>1 DEF Kept
  <2>3. Files /\ Ends
    BY <2>1, <2>2, StepFiles, StepEnds
  <2> QED
    BY <2>2, <2>3, NoneKept, OneKept, EndKept DEF Files
<1> QED
  BY <1>1, <1>2, Invariance, UntouchedInvariance, OnceInvariance, PTL DEF Spec

(* What has ended or waits is on file as it is, once its saves have landed. *)
THEOREM CatchesUp == Spec => []StoreCatchesUp
<1>1. (restarts = 0 => Kept) => StoreCatchesUp
  <2> SUFFICES ASSUME Kept, ordered, ~unsaved, writing = {}, NEW x \in Runs,
                      sessions[x] # None, AtRest(obj[sessions[x]])
               PROVE  store[x] = toSessionRecord(obj[sessions[x]])
    BY DEF StoreCatchesUp
  <2>1. sessions[x] = x
    BY DEF Kept, Own
  <2> QED
    BY <2>1 DEF Kept, Line, Latest, SavesOf
<1> QED
  BY <1>1, KeptInvariance, PTL

(* In order, no save brings back a session that has ended on file. *)
THEOREM StoredEndsForGood == Spec => StoredEndIsFinal
<1> DEFINE Saved == IInv /\ (restarts = 0 => Once /\ Kept)
<1>1. Saved /\ [Next]_vars =>
        [\A s \in Runs : (ordered /\ restarts = 0 /\ store[s].state \in Terminal) =>
             store'[s].state = store[s].state]_vars
  <2> SUFFICES ASSUME IInv, Once, Kept, Next, NEW x \in Runs,
                      ordered, restarts = 0, store[x].state \in Terminal
               PROVE  store'[x].state = store[x].state
    OBVIOUS
  <2>1. CASE Restart
    BY <2>1 DEF Restart
  <2>2. CASE ~Restart
    <3>1. Files
      BY <2>2, StepFiles DEF Kept
    <3>2. CASE store' = store
      BY <3>2
    <3>3. ASSUME NEW c \in Call, EndsOne(c), store' = [store EXCEPT ![sid[c]] = rec[c]]
          PROVE  store'[x].state = store[x].state
      <4>1. c \in writing /\ store \in [Runs -> Record]
        BY <3>3 DEF EndsOne, SaveEnds, IInv, Saves
      <4>2. sid[c] = x => rec[c].state = store[x].state
        BY <4>1 DEF Kept, Closed, SavesOf
      <4> QED
        BY <3>3, <4>1, <4>2
    <3> QED
      BY <3>1, <3>2, <3>3 DEF Files, SavesNone, SavesOne, Persist, EndsOne, saveVars
  <2> QED
    BY <2>1, <2>2
<1>2. Spec => []Saved
  BY Invariance, OnceInvariance, KeptInvariance, PTL
<1> HIDE DEF Saved
<1> QED
  BY <1>1, <1>2, PTL DEF Spec, StoredEndIsFinal
=============================================================================
