------------------------ MODULE ScheduleServiceProofs ------------------------
(***************************************************************************)
(* Proofs about ScheduleService, for any calls, users and kinds of tasks   *)
(* and any number of restarts and failures: first what holds however       *)
(* operations overlap, then what holds for users whose operations do not.  *)
(***************************************************************************)
EXTENDS ScheduleService, FiniteSetTheorems, TLAPS

(* Tasks of u that have identifiers, each its own: what one writes to u's file. *)
Proper(S, u) ==
    \A s \in S \cap Calls :
        /\ owner[s] = u /\ id[s] # None
        /\ \A t \in S \cap Calls : id[s] = id[t] => s = t

(* So is what is stored, what was read, and what is being written. *)
Disk ==
    /\ \A u \in Owners : Proper(file[u], u)
    /\ \A p \in Loaders : Proper(got[p], User(p))
    /\ \A w \in saves : Proper(w.data, w.owner)

Early == {"idle", "read", "parse", "drop", "dropped"}

(* A call has no task before it adds it, and what is listed has an identifier. *)
Named ==
    /\ \A c \in Calls : pc[c] \in Early => id[c] = None
    /\ \A t \in tasks : id[t] # None

SInv == TypeOK /\ ListedIsArmed /\ Disk /\ Named

-----------------------------------------------------------------------------
(* Nothing is known at the start. *)
LEMMA InitSInv == Init => SInv
  <1> SUFFICES ASSUME Init PROVE SInv OBVIOUS
  <1> USE ScheduleAssumption DEF Init
  <1>1. TypeOK BY DEF TypeOK, Places, Loaders, Jobs
  <1>2. ListedIsArmed /\ Named BY DEF ListedIsArmed, Named, Early, Loaders
  <1>3. Disk BY DEF Disk, Proper
  <1> QED BY <1>1, <1>2, <1>3 DEF SInv

(* The files belong to users, and so does what is read from them. *)
LEMMA Users ==
    ASSUME TypeOK, NEW p \in Loaders
    PROVE  User(p) \in Owners
  BY DEF TypeOK, User, Loaders

(* Identifiers are given once. *)
IdsStay == \A t \in Calls : id[t] # None => id'[t] = id[t]

(***************************************************************************)
(* Entering proper tasks keeps the map a map, and its entries armed.       *)
(***************************************************************************)
LEMMA EnterKeeps ==
    ASSUME SInv, NEW p \in Loaders, NEW T \in SUBSET Calls, Enter(p, T), IdsStay,
           futile \subseteq futile',
           \A s, t \in T : id'[s] = id'[t] => s = t,
           \A t \in T : id'[t] # None
    PROVE  /\ tasks' \in SUBSET Calls
           /\ \A s, t \in tasks' : id'[s] = id'[t] => s = t
           /\ \A t \in tasks' : id'[t] # None
           /\ jobs' \in SUBSET Jobs /\ armed' \in SUBSET Jobs
           /\ ListedIsArmed'
  <1> DEFINE S   == T \ futile'
             new == {Job(p, t) : t \in S}
  <1>1. /\ tasks' = {s \in tasks : \A t \in T : id'[t] # id'[s]} \cup T
        /\ jobs' = {j \in jobs : \A t \in S : id'[t] # id'[Task(j)]} \cup new
        /\ armed' = armed \cup new
        BY DEF Enter, Put
  <1>2. \A j \in new : Task(j) \in S /\ j = Job(p, Task(j)) /\ j \in Jobs
        BY DEF Job, Task, Jobs
  <1>3. \A t \in S : Job(p, t) \in new /\ Task(Job(p, t)) = t BY DEF Job, Task
  <1>4. \A t \in T : t \notin futile' => t \in S OBVIOUS
  <1>5. S \subseteq T OBVIOUS
  <1> HIDE DEF S, new
  <1>6. /\ tasks \in SUBSET Calls /\ jobs \in SUBSET Jobs /\ armed \in SUBSET Jobs
        /\ \A s, t \in tasks : id[s] = id[t] => s = t
        /\ \A t \in tasks : id[t] # None
        BY DEF SInv, TypeOK, Named
  <1>7. \A t \in tasks : id'[t] = id[t] BY <1>6 DEF IdsStay
  <1>8. /\ \A t \in tasks \ futile : \E j \in jobs \cap armed : Task(j) = t
        /\ \A j \in jobs : \E t \in tasks : id[t] = id[Task(j)]
        /\ \A j, k \in jobs : id[Task(j)] = id[Task(k)] => j = k
        BY DEF SInv, ListedIsArmed
  <1>9. \A j \in jobs : Task(j) \in Calls BY <1>6 DEF Jobs, Task
  <1>10. \A j \in jobs : id'[Task(j)] = id[Task(j)] BY <1>6, <1>8, <1>9 DEF IdsStay
  <1>11. tasks' \in SUBSET Calls /\ jobs' \in SUBSET Jobs /\ armed' \in SUBSET Jobs
         BY <1>1, <1>2, <1>6
  <1>12. \A s, t \in tasks' : id'[s] = id'[t] => s = t BY <1>1, <1>6, <1>7
  <1>13. \A t \in tasks' : id'[t] # None BY <1>1, <1>6, <1>7
  <1>14. ListedIsArmed'
    <2>1. ASSUME NEW t \in tasks' \ futile' PROVE \E j \in jobs' \cap armed' : Task(j) = t
      <3>1. CASE t \in T BY <1>1, <1>3, <1>4, <3>1
      <3>2. CASE t \notin T
        <4>1. t \in tasks \ futile /\ \A x \in T : id'[x] # id'[t] BY <1>1, <3>2
        <4>2. PICK j \in jobs \cap armed : Task(j) = t BY <1>8, <4>1
        <4> QED BY <1>1, <1>5, <4>1, <4>2
      <3> QED BY <3>1, <3>2
    <2>2. ASSUME NEW j \in jobs' PROVE \E t \in tasks' : id'[t] = id'[Task(j)]
      <3>1. CASE j \in new BY <1>1, <1>2, <1>5, <3>1
      <3>2. CASE j \notin new
        <4>1. j \in jobs BY <1>1, <3>2
        <4>2. PICK t \in tasks : id[t] = id[Task(j)] BY <1>8, <4>1
        <4>3. id'[t] = id'[Task(j)] BY <1>7, <1>10, <4>1, <4>2
        <4> QED BY <1>1, <4>2, <4>3
      <3> QED BY <3>1, <3>2
    <2>3. ASSUME NEW j \in jobs', NEW k \in jobs', id'[Task(j)] = id'[Task(k)] PROVE j = k
      <3>1. CASE j \in new /\ k \in new BY <1>2, <1>5, <2>3, <3>1
      <3>2. CASE j \notin new /\ k \notin new
        <4>1. j \in jobs /\ k \in jobs BY <1>1, <3>2
        <4>2. id[Task(j)] = id[Task(k)] BY <1>10, <2>3, <4>1
        <4> QED BY <1>8, <4>1, <4>2
      <3>3. CASE j \in new /\ k \notin new BY <1>1, <1>2, <2>3, <3>3
      <3>4. CASE j \notin new /\ k \in new BY <1>1, <1>2, <2>3, <3>4
      <3> QED BY <3>1, <3>2, <3>3, <3>4
    <2> QED BY <2>1, <2>2, <2>3 DEF ListedIsArmed
  <1> QED BY <1>11, <1>12, <1>13, <1>14

(* Removing an entry removes its job. *)
LEMMA RemoveKeeps ==
    ASSUME SInv, NEW p, NEW u \in Owners, NEW i, Entry(u, i) # {}, Remove(p, u, i),
           p \in jobs => id[Task(p)] = i,
           UNCHANGED <<id, futile>>
    PROVE  /\ tasks' \in SUBSET tasks /\ jobs' \in SUBSET jobs /\ armed' \in SUBSET armed
           /\ ListedIsArmed'
  <1>1. /\ tasks' = tasks \ Entry(u, i)
        /\ jobs' = {j \in jobs : id[Task(j)] # i}
        /\ armed' = armed \ ({p} \cup {j \in jobs : id[Task(j)] = i})
        BY DEF Remove
  <1>2. PICK e \in tasks : owner[e] = u /\ id[e] = i BY DEF Entry
  <1>3. \A t \in tasks : t \in Entry(u, i) <=> id[t] = i
        BY <1>2 DEF SInv, TypeOK, Entry
  <1>4. /\ \A t \in tasks \ futile : \E j \in jobs \cap armed : Task(j) = t
        /\ \A j \in jobs : \E t \in tasks : id[t] = id[Task(j)]
        /\ \A j, k \in jobs : id[Task(j)] = id[Task(k)] => j = k
        BY DEF SInv, ListedIsArmed
  <1>5. ListedIsArmed'
    <2>1. \A t \in tasks' \ futile' : \E j \in jobs' \cap armed' : Task(j) = t
      <3> SUFFICES ASSUME NEW t \in tasks' \ futile'
                   PROVE  \E j \in jobs' \cap armed' : Task(j) = t OBVIOUS
      <3>1. t \in tasks \ futile /\ id[t] # i BY <1>1, <1>3
      <3>2. PICK j \in jobs \cap armed : Task(j) = t BY <1>4, <3>1
      <3> QED BY <1>1, <3>1, <3>2
    <2>2. \A j \in jobs' : \E t \in tasks' : id'[t] = id'[Task(j)]
      <3> SUFFICES ASSUME NEW j \in jobs' PROVE \E t \in tasks' : id[t] = id[Task(j)]
          OBVIOUS
      <3>1. j \in jobs /\ id[Task(j)] # i BY <1>1
      <3>2. PICK t \in tasks : id[t] = id[Task(j)] BY <1>4, <3>1
      <3> QED BY <1>1, <1>3, <3>1, <3>2
    <2>3. \A j, k \in jobs' : id'[Task(j)] = id'[Task(k)] => j = k BY <1>1, <1>4
    <2> QED BY <2>1, <2>2, <2>3 DEF ListedIsArmed
  <1> QED BY <1>1, <1>5

(* What is proper stays so. *)
LEMMA ProperStays ==
    ASSUME NEW S, NEW u, Proper(S, u), owner' = owner, IdsStay
    PROVE  Proper(S, u)'
  BY DEF Proper, IdsStay

(* Files and what is read from them come from files and from writes. *)
LEMMA DiskStays ==
    ASSUME Disk, TypeOK, owner' = owner, IdsStay,
           \A u \in Owners : \/ file'[u] \in {file[u], {}, Torn}
                             \/ \E w \in saves : w.owner = u /\ file'[u] = w.data,
           \A p \in Loaders : got'[p] \in {got[p], {}, file[User(p)]}
    PROVE  /\ \A u \in Owners : Proper(file[u], u)'
           /\ \A p \in Loaders : Proper(got[p], User(p))'
           /\ \A w \in saves : Proper(w.data, w.owner)'
  <1>1. \A w \in saves : Proper(w.data, w.owner)' BY ProperStays DEF Disk
  <1>2. ASSUME NEW u PROVE Proper({}, u)' /\ Proper(Torn, u)'
        BY ScheduleAssumption DEF Proper, Torn
  <1>3. ASSUME NEW u \in Owners PROVE Proper(file[u], u)'
    <2>1. CASE file'[u] = file[u]
      <3>1. PICK D : D = file[u] OBVIOUS
      <3>2. Proper(D, u)' BY <3>1, ProperStays DEF Disk
      <3> QED BY <2>1, <3>1, <3>2 DEF Proper
    <2>2. CASE file'[u] = {} BY <2>2 DEF Proper
    <2>3. CASE file'[u] = Torn BY <1>2, <2>3 DEF Proper, Torn
    <2>4. CASE \E w \in saves : w.owner = u /\ file'[u] = w.data
      <3>1. PICK w \in saves : w.owner = u /\ file'[u] = w.data BY <2>4
      <3> QED BY <1>1, <3>1 DEF Proper
    <2> QED BY <2>1, <2>2, <2>3, <2>4
  <1>4. ASSUME NEW p \in Loaders PROVE Proper(got[p], User(p))'
    <2>1. PICK u \in Owners : u = User(p) BY Users
    <2>2. User(p)' = u BY <2>1 DEF User
    <2>3. PICK D : D = got'[p] OBVIOUS
    <2>4. Proper(D, u)'
      <3>1. CASE D = {} BY <1>2, <3>1 DEF Proper
      <3>2. CASE D = got[p] BY <2>1, <3>2, ProperStays DEF Disk
      <3>3. CASE D = file[u] BY <3>3, ProperStays DEF Disk
      <3> QED BY <2>1, <2>3, <3>1, <3>2, <3>3
    <2> QED BY <2>2, <2>3, <2>4 DEF Proper
  <1> QED BY <1>1, <1>3, <1>4

(* A snapshot of proper memory is proper. *)
LEMMA SaveKeeps ==
    ASSUME NEW p \in Loaders \cup Jobs, NEW u \in Owners, Save(p, u), owner' = owner,
           saves \subseteq [by : Loaders \cup Jobs, owner : Owners, data : SUBSET Calls,
                            opened : BOOLEAN],
           tasks' \in SUBSET Calls,
           \A s, t \in tasks' : id'[s] = id'[t] => s = t,
           \A t \in tasks' : id'[t] # None,
           \A w \in saves : Proper(w.data, w.owner)'
    PROVE  /\ saves' \subseteq [by : Loaders \cup Jobs, owner : Owners, data : SUBSET Calls,
                                opened : BOOLEAN]
           /\ \A w \in saves' : Proper(w.data, w.owner)'
  <1>1. PICK S \in SUBSET Calls : S = Snapshot(tasks', u) BY DEF Snapshot
  <1> DEFINE new == [by |-> p, owner |-> u, data |-> S, opened |-> FALSE]
  <1>2. saves' = saves \cup {new} BY <1>1 DEF Save
  <1>3. S \subseteq tasks' /\ \A t \in S : owner'[t] = u BY <1>1 DEF Snapshot
  <1>4. Proper(S, u)' BY <1>3 DEF Proper
  <1>5. /\ new.data = S /\ new.owner = u
        /\ new \in [by : Loaders \cup Jobs, owner : Owners, data : SUBSET Calls,
                    opened : BOOLEAN]
        OBVIOUS
  <1> HIDE DEF new
  <1> QED BY <1>2, <1>4, <1>5

-----------------------------------------------------------------------------
(* The clock gives natural numbers, so that identifiers are not None. *)
LEMMA Clock ==
    ASSUME NEW kind
    PROVE  Latest(kind) \in Nat
  <1> DEFINE S == {c \in Calls : id[c] # None /\ id[c][1] = kind}
  <1>1. IsFiniteSet(S) BY ScheduleAssumption, FS_Subset, S \subseteq Calls
  <1> DEFINE T == {id[t] : t \in S}
             f == [t \in S |-> id[t]]
  <1> HIDE DEF S
  <1>2. f \in Surjection(S, T) BY DEF Surjection
  <1> HIDE DEF T, f
  <1>3. IsFiniteSet(T) BY <1>1, <1>2, FS_Surjection
  <1>4. Cardinality(T) \in Nat BY <1>3, FS_CardinalityType
  <1> QED BY <1>4 DEF Latest, S, T

(***************************************************************************)
(* The common end of the add*() calls: c enters its task and what it has   *)
(* loaded.                                                                 *)
(***************************************************************************)
LEMMA AddKeeps ==
    ASSUME SInv, NEW c \in Calls, pc[c] \in Early, NEW kind \in AllKinds,
           NEW L \in SUBSET Calls, Proper(L, owner[c]), Add(c, kind, L),
           UNCHANGED <<owner, file, due, restarts, failures, fired, cancels>>,
           got' = got \/ got' = [got EXCEPT ![c] = {}]
    PROVE  SInv'
  <1>1. PICK now \in {Latest(kind), Latest(kind) + 1} \ {0} :
          LET i    == <<kind, now>>
              same == {t \in Calls : id[t] = i}
          IN /\ same \cap L = {}
             /\ id' = [id EXCEPT ![c] = i]
             /\ spoilt' = spoilt \cup Spoils(c, owner[c]) \cup {owner[t] : t \in same}
                          \cup (IF same = {} THEN {} ELSE {owner[c]})
        BY DEF Add
  <1>2. /\ Enter(c, L \cup {c}) /\ Save(c, owner[c]) /\ pc' = [pc EXCEPT ![c] = "save"]
        /\ futile' \in {futile, futile \cup {c}}
        BY DEF Add
  <1> DEFINE i == <<kind, now>>
  <1>3. i \in AllKinds \X Nat /\ i # None
    <2>1. now \in Nat BY <1>1, Clock
    <2> QED BY <2>1, ScheduleAssumption
  <1> HIDE DEF i
  <1>4. id' = [id EXCEPT ![c] = i] /\ \A t \in L : id[t] # i BY <1>1 DEF i
  <1>5. id[c] = None /\ id \in [Calls -> (AllKinds \X Nat) \cup {None}]
        BY DEF SInv, Named, TypeOK
  <1>6. /\ id' \in [Calls -> (AllKinds \X Nat) \cup {None}] /\ id'[c] = i
        /\ \A t \in Calls \ {c} : id'[t] = id[t]
        /\ IdsStay
        BY <1>3, <1>4, <1>5 DEF IdsStay
  <1>7. c \in Loaders /\ owner[c] \in Owners BY DEF SInv, TypeOK, Loaders
  <1>8. /\ \A t \in L : t # c /\ id[t] # None
        /\ \A s, t \in L : id[s] = id[t] => s = t
        BY <1>5 DEF Proper
  <1>9. /\ \A s, t \in L \cup {c} : id'[s] = id'[t] => s = t
        /\ \A t \in L \cup {c} : id'[t] # None
        BY <1>3, <1>4, <1>6, <1>8
  <1>10. /\ tasks' \in SUBSET Calls
         /\ \A s, t \in tasks' : id'[s] = id'[t] => s = t
         /\ \A t \in tasks' : id'[t] # None
         /\ jobs' \in SUBSET Jobs /\ armed' \in SUBSET Jobs
         /\ ListedIsArmed'
         BY <1>2, <1>6, <1>7, <1>9, EnterKeeps
  <1>11. /\ \A u \in Owners : Proper(file[u], u)'
         /\ \A p \in Loaders : Proper(got[p], User(p))'
         /\ \A w \in saves : Proper(w.data, w.owner)'
    <2>1. TypeOK /\ Disk BY DEF SInv
    <2>2. \A u \in Owners : file'[u] \in {file[u], {}, Torn} OBVIOUS
    <2>3. \A p \in Loaders : got'[p] \in {got[p], {}, file[User(p)]} BY DEF SInv, TypeOK
    <2> QED BY <1>6, <2>1, <2>2, <2>3, DiskStays
  <1>12. /\ saves' \subseteq [by : Loaders \cup Jobs, owner : Owners, data : SUBSET Calls,
                              opened : BOOLEAN]
         /\ \A w \in saves' : Proper(w.data, w.owner)'
         BY <1>2, <1>7, <1>10, <1>11, SaveKeeps DEF SInv, TypeOK
  <1>13. Named'
    <2>1. \A d \in Calls : pc'[d] \in Early => d # c /\ pc[d] \in Early
          BY <1>2 DEF SInv, TypeOK, Early, Loaders
    <2> QED BY <1>6, <1>10, <2>1 DEF SInv, Named
  <1>14. TypeOK'
    <2>1. pc' \in [Loaders -> Places] BY <1>2 DEF SInv, TypeOK, Places
    <2>2. got' \in [Loaders -> (SUBSET Calls) \cup {Torn}] BY DEF SInv, TypeOK
    <2>3. spoilt' \in SUBSET Owners
      <3>1. Spoils(c, owner[c]) \subseteq Owners BY <1>7 DEF Spoils
      <3>2. \A t \in Calls : owner[t] \in Owners BY DEF SInv, TypeOK
      <3> QED BY <1>1, <1>7, <3>1, <3>2 DEF SInv, TypeOK
    <2> QED BY <1>2, <1>6, <1>10, <1>12, <2>1, <2>2, <2>3 DEF SInv, TypeOK
  <1> QED BY <1>10, <1>11, <1>12, <1>13, <1>14 DEF SInv, Disk

-----------------------------------------------------------------------------
(* The actions *)

SaveRecords == [by : Loaders \cup Jobs, owner : Owners, data : SUBSET Calls, opened : BOOLEAN]

(* What an action keeps that enters no tasks and lets call none return to before its add. *)
LEMMA NamedStays ==
    ASSUME SInv, id' = id, tasks' \in SUBSET tasks,
           \A c \in Calls : pc'[c] \in Early => pc[c] \in Early
    PROVE  Named'
  BY DEF SInv, Named, TypeOK

(* Users whose files are in use are users. *)
LEMMA SpoilsUsers ==
    ASSUME NEW p, NEW u \in Owners
    PROVE  Spoils(p, u) \in SUBSET Owners
  BY DEF Spoils

(* An add*() call without anything loaded. *)
LEMMA AddCalls ==
    ASSUME SInv, NEW c \in Calls, owner' = owner,
           \/ \E kind \in Kinds : add(c, kind)
           \/ AddAfterDrop(c)
    PROVE  SInv'
  <1>1. Proper({}, owner[c]) BY DEF Proper
  <1>2. CASE \E kind \in Kinds : add(c, kind)
    <2>1. PICK kind \in Kinds : add(c, kind) BY <1>2
    <2>2. kind \in AllKinds BY ScheduleAssumption
    <2>3. pc[c] \in Early BY <2>1 DEF add, Early
    <2> QED BY <1>1, <2>1, <2>2, <2>3, AddKeeps DEF add
  <1>3. CASE AddAfterDrop(c)
    <2>1. pc[c] \in Early BY <1>3 DEF AddAfterDrop, Early
    <2>2. "timer" \in AllKinds BY DEF AllKinds
    <2> QED BY <1>1, <1>3, <2>1, <2>2, AddKeeps DEF AddAfterDrop
  <1> QED BY <1>2, <1>3

(* addTimer() goes to load. *)
LEMMA AddTimer ==
    ASSUME SInv, NEW c \in Calls, addTimer(c), owner' = owner
    PROVE  SInv'
  <1> USE DEF addTimer, memory, times
  <1>1. c \in Loaders /\ owner[c] \in Owners BY DEF SInv, TypeOK, Loaders
  <1>2. TypeOK' BY <1>1, SpoilsUsers DEF SInv, TypeOK, Places
  <1>3. ListedIsArmed' BY DEF SInv, ListedIsArmed
  <1>4. Disk'
    <2>1. TypeOK /\ Disk /\ IdsStay BY DEF SInv, IdsStay
    <2> QED BY <2>1, DiskStays DEF Disk
  <1>5. Named' BY NamedStays DEF SInv, TypeOK, Early, Loaders
  <1> QED BY <1>2, <1>3, <1>4, <1>5 DEF SInv

(***************************************************************************)
(* Every removal, by a call or by a job that has run, with what the action *)
(* around it leaves alone.                                                 *)
(***************************************************************************)
LEMMA RemoveSaves ==
    ASSUME SInv, NEW p \in Calls \cup Jobs, NEW u \in Owners, NEW i,
           Entry(u, i) # {}, Remove(p, u, i),
           p \in Jobs => id[Task(p)] = i,
           UNCHANGED <<owner, got, file, times>>
    PROVE  /\ tasks' \in SUBSET tasks /\ jobs' \in SUBSET jobs /\ armed' \in SUBSET armed
           /\ saves' \subseteq SaveRecords
           /\ spoilt' \in SUBSET Owners
           /\ ListedIsArmed' /\ Disk'
  <1>1. /\ jobs \in SUBSET Jobs /\ tasks \in SUBSET Calls
        /\ \A s, t \in tasks : id[s] = id[t] => s = t
        /\ \A t \in tasks : id[t] # None
        /\ saves \subseteq SaveRecords /\ spoilt \in SUBSET Owners
        BY DEF SInv, TypeOK, Named, SaveRecords
  <1>2. /\ tasks' \in SUBSET tasks /\ jobs' \in SUBSET jobs /\ armed' \in SUBSET armed
        /\ ListedIsArmed'
        BY <1>1, RemoveKeeps DEF times
  <1>3. IdsStay /\ id' = id BY DEF IdsStay, times
  <1>4. /\ \A w \in Owners : Proper(file[w], w)'
        /\ \A q \in Loaders : Proper(got[q], User(q))'
        /\ \A w \in saves : Proper(w.data, w.owner)'
    <2>1. TypeOK /\ Disk BY DEF SInv
    <2> QED BY <1>3, <2>1, DiskStays
  <1>5. p \in Loaders \cup Jobs BY DEF Loaders
  <1>6. Save(p, u) BY DEF Remove
  <1>7. /\ saves' \subseteq SaveRecords
        /\ \A w \in saves' : Proper(w.data, w.owner)'
    <2>1. /\ tasks' \in SUBSET Calls
          /\ \A s, t \in tasks' : id'[s] = id'[t] => s = t
          /\ \A t \in tasks' : id'[t] # None
          BY <1>1, <1>2, <1>3
    <2> QED BY <1>1, <1>4, <1>5, <1>6, <2>1, SaveKeeps DEF SaveRecords
  <1>8. spoilt' \in SUBSET Owners
    <2>1. Spoils(p, u) \in SUBSET Owners BY SpoilsUsers
    <2> QED BY <1>1, <2>1 DEF Remove
  <1> QED BY <1>2, <1>4, <1>7, <1>8 DEF Disk

(* cancelTask() *)
LEMMA CancelTask ==
    ASSUME SInv, NEW c \in Calls, cancelTask(c), owner' = owner
    PROVE  SInv'
  <1>1. PICK t \in Calls : /\ Entry(owner[c], id[t]) # {}
                           /\ Remove(c, owner[c], id[t])
                           /\ cancels' = [cancels EXCEPT ![c] =
                                            CHOOSE e \in Entry(owner[c], id[t]) : TRUE]
        BY DEF cancelTask
  <1>2. PICK u \in Owners : u = owner[c] BY DEF SInv, TypeOK
  <1>3. PICK i : i = id[t] OBVIOUS
  <1>4. c \notin Jobs BY ScheduleAssumption DEF Jobs, Loaders
  <1>5. Entry(u, i) # {} /\ Remove(c, u, i) BY <1>1, <1>2, <1>3
  <1>6. /\ tasks' \in SUBSET tasks /\ jobs' \in SUBSET jobs /\ armed' \in SUBSET armed
        /\ saves' \subseteq SaveRecords
        /\ spoilt' \in SUBSET Owners
        /\ ListedIsArmed' /\ Disk'
        BY <1>4, <1>5, RemoveSaves DEF cancelTask
  <1>7. cancels' \in [Calls -> Calls \cup {None}]
    <2>1. (CHOOSE e \in Entry(owner[c], id[t]) : TRUE) \in Calls
          BY <1>1 DEF Entry, SInv, TypeOK
    <2> QED BY <1>1, <2>1 DEF SInv, TypeOK
  <1>8. TypeOK'
    <2>1. pc' \in [Loaders -> Places] BY DEF cancelTask, SInv, TypeOK, Places
    <2> QED BY <1>6, <1>7, <2>1 DEF cancelTask, times, SInv, TypeOK, SaveRecords
  <1>9. Named'
    <2>1. \A d \in Calls : pc'[d] \in Early => pc[d] \in Early
          BY DEF cancelTask, SInv, TypeOK, Early, Loaders
    <2> QED BY <1>6, <2>1, NamedStays DEF cancelTask, times
  <1> QED BY <1>6, <1>8, <1>9 DEF SInv

(* A job runs. *)
LEMMA TriggerJob ==
    ASSUME SInv, NEW j \in armed, Trigger(j), owner' = owner
    PROVE  SInv'
  <1> DEFINE t == Task(j)
  <1>1. j \in Jobs /\ t \in Calls /\ owner[t] \in Owners
        BY DEF SInv, TypeOK, Jobs, Task
  <1>2. /\ tasks' \in SUBSET tasks /\ jobs' \in SUBSET jobs /\ armed' \in SUBSET armed
        /\ saves' \subseteq SaveRecords
        /\ spoilt' \in SUBSET Owners
        /\ ListedIsArmed' /\ Disk'
    <2>1. CASE Entry(owner[t], id[t]) = {}
      <3>1. armed' = armed \ {j} /\ UNCHANGED <<tasks, jobs, saves, spoilt>>
            BY <2>1 DEF Trigger
      <3>2. UNCHANGED <<id, futile, got, file>> BY DEF Trigger, times
      <3>3. t \notin tasks BY <2>1 DEF Entry
      <3>4. ListedIsArmed'
        <4>1. \A s \in tasks \ futile : \E k \in jobs \cap armed' : Task(k) = s
              BY <3>1, <3>3 DEF SInv, ListedIsArmed
        <4> QED BY <3>1, <3>2, <4>1 DEF SInv, ListedIsArmed
      <3>5. Disk'
        <4>1. TypeOK /\ Disk /\ IdsStay BY <3>2 DEF SInv, IdsStay
        <4> QED BY <3>1, <3>2, <4>1, DiskStays DEF Disk
      <3> QED BY <3>1, <3>4, <3>5 DEF SInv, TypeOK, SaveRecords
    <2>2. CASE Entry(owner[t], id[t]) # {}
      <3>1. Remove(j, owner[t], id[t]) BY <2>2 DEF Trigger
      <3>2. PICK u \in Owners : u = owner[t] BY <1>1
      <3>3. PICK i : i = id[t] OBVIOUS
      <3>4. Entry(u, i) # {} /\ Remove(j, u, i) BY <2>2, <3>1, <3>2, <3>3
      <3> QED BY <1>1, <3>3, <3>4, RemoveSaves DEF Trigger
    <2> QED BY <2>1, <2>2
  <1>3. fired' \in [Calls -> Nat] BY <1>1 DEF Trigger, SInv, TypeOK
  <1>4. TypeOK' BY <1>2, <1>3 DEF Trigger, times, SInv, TypeOK, SaveRecords
  <1>5. Named' BY <1>2, NamedStays DEF Trigger, times
  <1> QED BY <1>2, <1>4, <1>5 DEF SInv

(***************************************************************************)
(* Actions that leave memory and identifiers alone, and bring to files and *)
(* readers only what was there before.                                     *)
(***************************************************************************)
LEMMA Quiet ==
    ASSUME SInv, owner' = owner, UNCHANGED <<memory, id, futile>>,
           TypeOK',
           \A c \in Calls : pc'[c] \in Early => pc[c] \in Early,
           \A u \in Owners : \/ file'[u] \in {file[u], {}, Torn}
                             \/ \E w \in saves : w.owner = u /\ file'[u] = w.data,
           \A p \in Loaders : got'[p] \in {got[p], {}, file[User(p)]},
           \A w \in saves' : \E v \in saves : v.owner = w.owner /\ v.data = w.data
    PROVE  SInv'
  <1>1. ListedIsArmed' BY DEF memory, SInv, ListedIsArmed
  <1>2. Named' BY NamedStays DEF memory
  <1>3. Disk'
    <2>1. TypeOK /\ Disk /\ IdsStay BY DEF SInv, IdsStay
    <2>2. /\ \A u \in Owners : Proper(file[u], u)'
          /\ \A p \in Loaders : Proper(got[p], User(p))'
          /\ \A w \in saves : Proper(w.data, w.owner)'
          BY <2>1, DiskStays
    <2> QED BY <2>2 DEF Disk
  <1> QED BY <1>1, <1>2, <1>3 DEF SInv

(* What is to come is part of what was read, and proper like it. *)
LEMMA Loaded ==
    ASSUME SInv, NEW p \in Loaders
    PROVE  ToCome(p) \in SUBSET Calls /\ Proper(ToCome(p), User(p))
  <1>1. Parsed(p) \in SUBSET Calls /\ Parsed(p) \subseteq got[p]
        BY DEF SInv, TypeOK, Parsed, Torn
  <1>2. Proper(got[p], User(p)) BY DEF SInv, Disk
  <1> QED BY <1>1, <1>2 DEF ToCome, Proper

(* Loading, with the rest of the add*() call that wanted it. *)
LEMMA ParseCall ==
    ASSUME SInv, NEW c \in Calls, Parse(c), owner' = owner
    PROVE  SInv'
  <1>1. c \in Loaders /\ c \notin Owners /\ User(c) = owner[c]
        BY ScheduleAssumption DEF Loaders, User
  <1>2. Add(c, "timer", ToCome(c)) BY <1>1 DEF Parse
  <1>3. PICK L \in SUBSET Calls : L = ToCome(c) BY <1>1, Loaded
  <1>4. Proper(L, owner[c]) BY <1>1, <1>3, Loaded
  <1>5. Add(c, "timer", L) BY <1>2, <1>3
  <1>6. pc[c] \in Early /\ "timer" \in AllKinds BY DEF Parse, Early, AllKinds
  <1> QED BY <1>4, <1>5, <1>6, AddKeeps DEF Parse

(* Loading only enters what is loaded, at boot and before the save of what was dropped. *)
LEMMA EnterLoaded ==
    ASSUME SInv, NEW p \in Loaders, Enter(p, ToCome(p)), UNCHANGED <<owner, id, futile>>
    PROVE  /\ tasks' \in SUBSET Calls
           /\ \A s, t \in tasks' : id'[s] = id'[t] => s = t
           /\ \A t \in tasks' : id'[t] # None
           /\ jobs' \in SUBSET Jobs /\ armed' \in SUBSET Jobs
           /\ ListedIsArmed'
  <1>1. PICK T \in SUBSET Calls : T = ToCome(p) BY Loaded
  <1>2. Enter(p, T) BY <1>1
  <1>3. Proper(T, User(p)) BY <1>1, Loaded
  <1>4. /\ \A s, t \in T : id'[s] = id'[t] => s = t
        /\ \A t \in T : id'[t] # None
        BY <1>3 DEF Proper
  <1> QED BY <1>2, <1>4, EnterKeeps DEF IdsStay

(* What a step of a load leaves on disk and in the hands of readers. *)
LEMMA DiskOfLoad ==
    ASSUME SInv, NEW p \in Loaders, UNCHANGED <<owner, id, file>>,
           got' = [got EXCEPT ![p] = {}]
    PROVE  /\ \A u \in Owners : Proper(file[u], u)'
           /\ \A q \in Loaders : Proper(got[q], User(q))'
           /\ \A w \in saves : Proper(w.data, w.owner)'
  <1>1. TypeOK /\ Disk /\ IdsStay BY DEF SInv, IdsStay
  <1>2. \A q \in Loaders : got'[q] \in {got[q], {}, file[User(q)]} BY DEF SInv, TypeOK
  <1>3. \A u \in Owners : file'[u] \in {file[u], {}, Torn} OBVIOUS
  <1> QED BY <1>1, <1>2, <1>3, DiskStays

(* Loading at boot, nothing dropped. *)
LEMMA ParseOwner ==
    ASSUME SInv, NEW u \in Owners, Parse(u), owner' = owner
    PROVE  SInv'
  <1>1. u \in Loaders /\ u \notin Calls BY ScheduleAssumption DEF Loaders
  <1>2. /\ UNCHANGED <<id, futile, saves, spoilt>> /\ Enter(u, ToCome(u))
        /\ pc' = [pc EXCEPT ![u] = "done"]
        BY <1>1 DEF Parse
  <1>3. /\ got' = [got EXCEPT ![u] = {}]
        /\ UNCHANGED <<file, due, restarts, failures, fired, cancels>>
        BY DEF Parse
  <1>4. /\ tasks' \in SUBSET Calls
        /\ \A s, t \in tasks' : id'[s] = id'[t] => s = t
        /\ \A t \in tasks' : id'[t] # None
        /\ jobs' \in SUBSET Jobs /\ armed' \in SUBSET Jobs
        /\ ListedIsArmed'
        BY <1>1, <1>2, EnterLoaded
  <1>5. Disk' BY <1>1, <1>2, <1>3, DiskOfLoad DEF Disk
  <1>6. Named' BY <1>1, <1>2, <1>4 DEF SInv, Named, TypeOK, Loaders
  <1>7. TypeOK'
    <2>1. pc' \in [Loaders -> Places] BY <1>2 DEF SInv, TypeOK, Places
    <2>2. got' \in [Loaders -> (SUBSET Calls) \cup {Torn}] BY <1>3 DEF SInv, TypeOK
    <2> QED BY <1>2, <1>3, <1>4, <2>1, <2>2 DEF SInv, TypeOK
  <1> QED BY <1>4, <1>5, <1>6, <1>7 DEF SInv

(* Loading, with the file saved without what was dropped. *)
LEMMA ParseDrops ==
    ASSUME SInv, NEW p \in Loaders, ParseDropping(p), owner' = owner
    PROVE  SInv'
  <1>1. /\ UNCHANGED <<id, futile, file, due, restarts, failures, fired, cancels>>
        /\ Enter(p, ToCome(p)) /\ Save(p, User(p))
        /\ pc[p] = "parse" /\ pc' = [pc EXCEPT ![p] = "drop"]
        /\ spoilt' = spoilt \cup Spoils(p, User(p))
        /\ got' = [got EXCEPT ![p] = {}]
        BY DEF ParseDropping
  <1>2. /\ tasks' \in SUBSET Calls
        /\ \A s, t \in tasks' : id'[s] = id'[t] => s = t
        /\ \A t \in tasks' : id'[t] # None
        /\ jobs' \in SUBSET Jobs /\ armed' \in SUBSET Jobs
        /\ ListedIsArmed'
        BY <1>1, EnterLoaded
  <1>3. /\ \A u \in Owners : Proper(file[u], u)'
        /\ \A q \in Loaders : Proper(got[q], User(q))'
        /\ \A w \in saves : Proper(w.data, w.owner)'
        BY <1>1, DiskOfLoad
  <1>4. PICK u \in Owners : u = User(p) BY Users DEF SInv
  <1>5. Save(p, u) BY <1>1, <1>4
  <1>6. /\ saves' \subseteq [by : Loaders \cup Jobs, owner : Owners, data : SUBSET Calls,
                             opened : BOOLEAN]
        /\ \A w \in saves' : Proper(w.data, w.owner)'
        BY <1>2, <1>3, <1>5, SaveKeeps DEF SInv, TypeOK
  <1>7. Named'
    <2>1. \A c \in Calls : pc'[c] \in Early => pc[c] \in Early
          BY <1>1 DEF SInv, TypeOK, Early, Loaders
    <2> QED BY <1>1, <1>2, <2>1 DEF SInv, Named
  <1>8. TypeOK'
    <2>1. pc' \in [Loaders -> Places] BY <1>1 DEF SInv, TypeOK, Places
    <2>2. got' \in [Loaders -> (SUBSET Calls) \cup {Torn}] BY <1>1 DEF SInv, TypeOK
    <2>3. spoilt' \in SUBSET Owners
      <3>1. Spoils(p, u) \in SUBSET Owners BY SpoilsUsers
      <3> QED BY <1>1, <1>4, <3>1 DEF SInv, TypeOK
    <2> QED BY <1>1, <1>2, <1>6, <2>1, <2>2, <2>3 DEF SInv, TypeOK
  <1> QED BY <1>2, <1>3, <1>6, <1>7, <1>8 DEF SInv, Disk

(* A file is read. *)
LEMMA ReadFile ==
    ASSUME SInv, NEW p \in Loaders, Read(p), owner' = owner
    PROVE  SInv'
  <1> USE DEF Read, times
  <1>1. User(p) \in Owners BY Users DEF SInv
  <1>2. TypeOK' BY <1>1 DEF memory, SInv, TypeOK, Places
  <1>3. \A c \in Calls : pc'[c] \in Early => pc[c] \in Early
        BY ScheduleAssumption DEF SInv, TypeOK, Early, Loaders
  <1>4. \A q \in Loaders : got'[q] \in {got[q], {}, file[User(q)]} BY DEF SInv, TypeOK
  <1> QED BY <1>2, <1>3, <1>4, Quiet

(* A file is emptied for a write. *)
LEMMA OpenFile ==
    ASSUME SInv, NEW w \in saves, SaveOpens(w), owner' = owner
    PROVE  SInv'
  <1> USE DEF SaveOpens, times
  <1> DEFINE v == [w EXCEPT !.opened = TRUE]
  <1>1. /\ w \in SaveRecords /\ v \in SaveRecords /\ saves \subseteq SaveRecords
        /\ v.owner = w.owner /\ v.data = w.data
        BY DEF SInv, TypeOK, SaveRecords
  <1>2. saves' = (saves \ {w}) \cup {v} OBVIOUS
  <1> HIDE DEF v
  <1>3. saves' \subseteq SaveRecords BY <1>1, <1>2
  <1>4. file' \in [Owners -> (SUBSET Calls) \cup {Torn}] BY DEF SInv, TypeOK
  <1>5. TypeOK' BY <1>3, <1>4 DEF memory, SInv, TypeOK, SaveRecords
  <1>6. \A u \in Owners : file'[u] \in {file[u], {}, Torn} BY DEF SInv, TypeOK
  <1>7. \A x \in saves' : \E y \in saves : y.owner = x.owner /\ y.data = x.data
        BY <1>1, <1>2
  <1> QED BY <1>5, <1>6, <1>7, Quiet

(* A file is written. *)
LEMMA WriteFile ==
    ASSUME SInv, NEW w \in saves, SaveWrites(w), owner' = owner
    PROVE  SInv'
  <1> USE DEF times
  <1>1. /\ w.owner \in Owners /\ w.data \in SUBSET Calls
        BY DEF SInv, TypeOK
  <1>2. PICK X \in {w.data, Torn} : file' = [file EXCEPT ![w.owner] = X]
        BY DEF SaveWrites, Overwritten
  <1>3. /\ saves' = saves \ {w}
        /\ UNCHANGED <<got, memory, times, restarts, failures, fired, cancels, spoilt>>
        BY DEF SaveWrites
  <1>4. pc' = [p \in Loaders |-> IF p # w.by THEN pc[p]
                                 ELSE IF p \in Calls /\ pc[p] = "drop" THEN "dropped"
                                 ELSE "done"]
        BY DEF SaveWrites
  <1>5. /\ pc' \in [Loaders -> Places]
        /\ \A c \in Calls : pc'[c] \in Early => pc[c] \in Early
        BY <1>4 DEF SInv, TypeOK, Places, Early, Loaders
  <1>6. file' \in [Owners -> (SUBSET Calls) \cup {Torn}]
        BY <1>1, <1>2 DEF SInv, TypeOK
  <1>7. TypeOK' BY <1>3, <1>5, <1>6 DEF memory, SInv, TypeOK
  <1>8. \A u \in Owners : \/ file'[u] \in {file[u], {}, Torn}
                          \/ \E v \in saves : v.owner = u /\ file'[u] = v.data
        BY <1>2 DEF SInv, TypeOK
  <1>9. \A p \in Loaders : got'[p] \in {got[p], {}, file[User(p)]} BY <1>3
  <1>10. \A x \in saves' : \E y \in saves : y.owner = x.owner /\ y.data = x.data BY <1>3
  <1> QED BY <1>3, <1>5, <1>7, <1>8, <1>9, <1>10, Quiet

(* A write fails. *)
LEMMA FailWrite ==
    ASSUME SInv, NEW w \in saves, SaveFails(w), owner' = owner
    PROVE  SInv'
  <1> USE DEF times
  <1> DEFINE unloaded == IF w.by \in Owners THEN {v \in Owners : pc[v] = "waiting"} ELSE {}
  <1>1. /\ failures' = failures + 1 /\ saves' = saves \ {w}
        /\ UNCHANGED <<got, memory, file, times, restarts, fired, cancels>>
        /\ spoilt' = spoilt \cup unloaded \cup {w.owner}
        /\ pc' = [p \in Loaders |-> IF p \in unloaded \/ (p = w.by /\ p \in Owners) THEN "done"
                                    ELSE IF p = w.by THEN "failed"
                                    ELSE pc[p]]
        BY DEF SaveFails
  <1>2. unloaded \in SUBSET Owners OBVIOUS
  <1> HIDE DEF unloaded
  <1>3. /\ pc' \in [Loaders -> Places]
        /\ \A c \in Calls : pc'[c] \in Early => pc[c] \in Early
        BY <1>1 DEF SInv, TypeOK, Places, Early, Loaders
  <1>4. w.owner \in Owners BY DEF SInv, TypeOK
  <1>5. TypeOK' BY <1>1, <1>2, <1>3, <1>4 DEF memory, SInv, TypeOK
  <1> QED BY <1>1, <1>3, <1>5, Quiet

(* The time of a task comes. *)
LEMMA ComesTime ==
    ASSUME SInv, NEW t \in Calls, TimeComes(t), owner' = owner
    PROVE  SInv'
  <1> USE DEF TimeComes
  <1>1. TypeOK' BY DEF memory, SInv, TypeOK
  <1> QED BY <1>1, Quiet

(* The process dies and is started again. *)
LEMMA Restarts ==
    ASSUME SInv, Restart, owner' = owner
    PROVE  SInv'
  <1> USE DEF Restart, times
  <1>1. pc' \in [Loaders -> Places] BY DEF SInv, TypeOK, Places
  <1>2. spoilt' \in SUBSET Owners BY DEF SInv, TypeOK
  <1>3. TypeOK' BY <1>1, <1>2 DEF SInv, TypeOK
  <1>4. ListedIsArmed' BY DEF ListedIsArmed
  <1>5. Disk'
    <2>1. TypeOK /\ Disk /\ IdsStay BY DEF SInv, IdsStay
    <2>2. \A p \in Loaders : got'[p] \in {got[p], {}, file[User(p)]} OBVIOUS
    <2>3. \A u \in Owners : file'[u] \in {file[u], {}, Torn} OBVIOUS
    <2> QED BY <2>1, <2>2, <2>3, DiskStays DEF Disk
  <1>6. Named'
    <2>1. \A c \in Calls : pc'[c] \in Early => pc[c] \in Early
          BY ScheduleAssumption DEF Loaders, Early
    <2>2. tasks' \in SUBSET tasks OBVIOUS
    <2> QED BY <2>1, <2>2, NamedStays
  <1> QED BY <1>3, <1>4, <1>5, <1>6 DEF SInv

-----------------------------------------------------------------------------
(***************************************************************************)
(* The invariant: whatever overlaps, fails, collides or dies.              *)
(***************************************************************************)
THEOREM Invariance == Spec => []SInv
  <1>1. ASSUME SInv, [Next]_vars PROVE SInv'
    <2>1. CASE UNCHANGED vars
      <3>1. UNCHANGED <<memory, id, futile>> BY <2>1 DEF vars, memory
      <3>2. TypeOK' BY <1>1, <2>1 DEF vars, SInv, TypeOK
      <3> QED BY <1>1, <2>1, <3>1, <3>2, Quiet DEF vars
    <2>2. CASE Next
      <3>1. owner' = owner BY <2>2 DEF Next
      <3>2. ASSUME NEW c \in Calls,
                   \/ \E kind \in Kinds : add(c, kind)
                   \/ addTimer(c) \/ cancelTask(c) \/ AddAfterDrop(c) \/ TimeComes(c)
            PROVE  SInv'
            BY <1>1, <3>1, <3>2, AddCalls, AddTimer, CancelTask, ComesTime
      <3>3. ASSUME NEW p \in Loaders, Read(p) \/ Parse(p) \/ ParseDropping(p)
            PROVE  SInv'
            BY <1>1, <3>1, <3>3, ReadFile, ParseCall, ParseOwner, ParseDrops DEF Loaders
      <3>4. ASSUME NEW w \in saves, SaveOpens(w) \/ SaveWrites(w) \/ SaveFails(w)
            PROVE  SInv'
            BY <1>1, <3>1, <3>4, OpenFile, WriteFile, FailWrite
      <3>5. ASSUME NEW j \in armed, Trigger(j) PROVE SInv' BY <1>1, <3>1, <3>5, TriggerJob
      <3>6. ASSUME Restart PROVE SInv' BY <1>1, <3>1, <3>6, Restarts
      <3> QED BY <2>2, <3>2, <3>3, <3>4, <3>5, <3>6 DEF Next
    <2> QED BY <1>1, <2>1, <2>2
  <1> QED BY <1>1, InitSInv, PTL DEF Spec

(* Type correctness of the scheduler; its maps have one entry for an identifier. *)
THEOREM TypeCorrect == Spec => []TypeOK
  <1>1. SInv => TypeOK BY DEF SInv
  <1> QED BY <1>1, Invariance, PTL

(* What a user is shown is armed, and can be cancelled: in every state. *)
THEOREM Armed == Spec => []ListedIsArmed
  <1>1. SInv => ListedIsArmed BY DEF SInv
  <1> QED BY <1>1, Invariance, PTL

(* No file, and no write under way, ever holds a task of another user. *)
THEOREM Apart == Spec => []FilesApart
  <1>1. SInv => FilesApart
    <2> SUFFICES ASSUME SInv PROVE FilesApart OBVIOUS
    <2>1. \A w \in saves : w.data \in SUBSET Calls BY DEF SInv, TypeOK
    <2> QED BY <2>1 DEF SInv, Disk, Proper, FilesApart
  <1> QED BY <1>1, Invariance, PTL

-----------------------------------------------------------------------------
(***************************************************************************)
(* Users whose operations have neither overlapped, nor failed, nor been    *)
(* cut off, nor given an identifier twice.  Each of them has one access to *)
(* the file at a time, which is what keeps the file in step with the map.  *)
(***************************************************************************)

Writes(u)  == {w \in saves : w.owner = u}
Readers(u) == {p \in Loaders : User(p) = u /\ pc[p] \in {"read", "parse"}}

(* u's tasks are in memory. *)
Up(u) == pc[u] \notin {"waiting", "parse"}

(* One access at a time. *)
Alone(u) ==
    /\ \A v, w \in Writes(u) : v = w
    /\ \A p, q \in Readers(u) : p = q
    /\ Writes(u) = {} \/ Readers(u) = {}

(* The file is what the map was, or will be when the write under way has landed; a call
   that reads it does so because there is nothing in either. *)
Image(u) ==
    /\ Garbage \notin file[u]
    /\ pc[u] = "waiting" => Listed(u) = {} /\ Writes(u) = {} /\ Readers(u) = {}
    /\ pc[u] = "parse" => Listed(u) = {} /\ got[u] = file[u]
    /\ Up(u) => /\ Writes(u) = {} => file[u] = Listed(u)
                /\ \A w \in Writes(u) : /\ w.data = Listed(u)
                                        /\ w.opened => file[u] = {}
                /\ \A c \in Readers(u) : /\ Listed(u) = {}
                                         /\ pc[c] = "parse" => got[c] = {}

(* Only what is listed is armed, within reach of cancelTask(); what was triggered is no
   longer listed, and past, so that no load brings it back. *)
Fires(u) ==
    /\ \A j \in armed : owner[Task(j)] = u => j \in jobs /\ Task(j) \in tasks
    /\ \A t \in Calls : owner[t] = u =>
          /\ fired[t] <= 1
          /\ fired[t] # 0 => t \in due /\ t \notin tasks

(* What was cancelled is not listed; once the cancellation has returned it is not stored. *)
Gone(u) ==
    \A c, t \in Calls :
        (owner[t] = u /\ cancels[c] = t /\ pc[c] \in {"save", "done"}) =>
            /\ t \notin tasks
            /\ pc[c] = "done" => t \notin file[u]

(* Neither cancelled, nor past. *)
Wanted(t) ==
    /\ id[t] # None
    /\ t \notin due \cup futile \/ Repeats(t)
    /\ \A c \in Calls : cancels[c] # t

(* What was added and is wanted is listed; once the call has returned it is stored, or
   being stored. *)
Stays(u) ==
    \A t \in Calls :
        (owner[t] = u /\ Wanted(t)) =>
            /\ Up(u) /\ pc[t] \in {"save", "done"} => t \in tasks
            /\ pc[t] = "done" => t \in file[u] \/ \E w \in Writes(u) : w.opened

Orderly(u) == Alone(u) /\ Image(u) /\ Fires(u) /\ Gone(u) /\ Stays(u)

(* Calls run once everything is loaded, and wait for writes to their own user's file. *)
Serving ==
    /\ \A w \in saves : w.by \in Loaders => User(w.by) = w.owner
    /\ \A c \in Calls : pc[c] \in {"read", "parse", "drop", "dropped", "save"} => Ready

(* A call waits for one write at a time, where it waits for a write. *)
Waits ==
    /\ \A w \in saves : w.by \in Calls => pc[w.by] \in {"drop", "save"}
    /\ \A v, w \in saves : (v.by = w.by /\ v.by \in Calls) => v = w

(* What calls cancel are tasks of their user; what is past has an identifier, and a time. *)
Ledger ==
    /\ \A c \in Calls : pc[c] \in Early => cancels[c] = None
    /\ \A c, t \in Calls : cancels[c] = t => owner[t] = owner[c] /\ id[t] # None
    /\ \A t \in due : id[t] # None /\ ~Repeats(t)

(* Two tasks with one identifier spoil both users. *)
Distinct ==
    \A s, t \in Calls : (id[s] # None /\ id[s] = id[t] /\ owner[s] \notin spoilt) => s = t

OInv == Serving /\ Waits /\ Ledger /\ Distinct /\ \A u \in Owners \ spoilt : Orderly(u)

(***************************************************************************)
(* A step that leaves v alone: what is v's stays as it is.  (Of two jobs   *)
(* armed for v none is forgotten; none is added.)                          *)
(***************************************************************************)
Unmoved(v) ==
    /\ Listed(v)' = Listed(v) /\ file'[v] = file[v] /\ Writes(v)' = Writes(v)
    /\ pc'[v] = pc[v] /\ got'[v] = got[v]
    /\ \A c \in Calls : owner[c] = v =>
          /\ pc'[c] = pc[c] /\ got'[c] = got[c]
          /\ fired'[c] = fired[c] /\ cancels'[c] = cancels[c] /\ id'[c] = id[c]
          /\ c \in due' <=> c \in due
          /\ c \in futile' <=> c \in futile
    /\ \A j \in armed' : owner[Task(j)] = v => j \in armed /\ (j \in jobs => j \in jobs')

LEMMA ReadersStay ==
    ASSUME NEW v \in Owners, owner' = owner, pc'[v] = pc[v],
           \A c \in Calls : owner[c] = v => pc'[c] = pc[c]
    PROVE  Readers(v)' = Readers(v)
  BY DEF Readers, User, Loaders

LEMMA UnmovedStays ==
    ASSUME TypeOK, TypeOK', Ledger, Ledger', owner' = owner, NEW v \in Owners,
           Orderly(v), Unmoved(v)
    PROVE  Orderly(v)'
  <1> USE DEF Unmoved
  <1>1. Readers(v)' = Readers(v) BY ReadersStay
  <1>2. Alone(v)' BY <1>1 DEF Orderly, Alone
  <1>3. Image(v)'
    <2>1. \A c \in Readers(v) : got'[c] = got[c] /\ pc'[c] = pc[c]
          BY DEF Readers, User, Loaders
    <2> QED BY <1>1, <2>1 DEF Orderly, Image, Up
  <1>4. \A t \in Calls : owner[t] = v => (t \in tasks' <=> t \in tasks)
        BY DEF Listed
  <1>5. Fires(v)'
    <2>1. \A j \in armed' : owner[Task(j)] = v => j \in jobs' /\ Task(j) \in tasks'
      <3> SUFFICES ASSUME NEW j \in armed', owner[Task(j)] = v
                   PROVE  j \in jobs' /\ Task(j) \in tasks' OBVIOUS
      <3>1. j \in armed OBVIOUS
      <3>2. j \in jobs /\ Task(j) \in tasks BY <3>1 DEF Orderly, Fires
      <3>3. Task(j) \in Calls BY <3>1 DEF TypeOK, Jobs, Task
      <3> QED BY <1>4, <3>2, <3>3
    <2> QED BY <1>4, <2>1 DEF Orderly, Fires
  <1>6. \A c, t \in Calls : owner[t] = v => (cancels'[c] = t <=> cancels[c] = t)
        BY DEF Ledger
  <1>7. \A c, t \in Calls : owner[t] = v /\ cancels[c] = t => owner[c] = v
        BY DEF Ledger
  <1>8. Gone(v)' BY <1>4, <1>6, <1>7 DEF Orderly, Gone
  <1>9. \A t \in Calls : owner[t] = v /\ Wanted(t)' => Wanted(t)
        BY <1>6 DEF Wanted, Repeats
  <1>10. Stays(v)' BY <1>4, <1>9 DEF Orderly, Stays, Up
  <1> QED BY <1>2, <1>3, <1>5, <1>8, <1>10 DEF Orderly

(* What steps within one life of the process do to the global facts. *)
Busy == {"read", "parse", "drop", "dropped", "save"}

LEMMA ServingStays ==
    ASSUME Serving, TypeOK, owner' = owner,
           \A u \in Owners : pc[u] = "done" => pc'[u] = "done",
           \A c \in Calls : pc'[c] \in Busy => pc[c] \in Busy \/ Ready,
           \A w \in saves' : \/ w.by \in Loaders => User(w.by) = w.owner
                             \/ \E v \in saves : v.by = w.by /\ v.owner = w.owner
    PROVE  Serving'
  <1>1. Ready => Ready' BY DEF Ready
  <1>2. \A p \in Loaders : User(p)' = User(p) BY DEF User
  <1> QED BY <1>1, <1>2 DEF Serving, Busy

(* Without a new write; with one; with one less. *)
LEMMA WaitsStays ==
    ASSUME Waits, saves' = saves,
           \A c \in Calls : pc[c] \in {"drop", "save"} => pc'[c] = pc[c]
    PROVE  Waits'
  BY DEF Waits

LEMMA WaitsBegun ==
    ASSUME Waits, NEW new, saves' = saves \cup {new},
           new.by \in Calls => /\ pc[new.by] \notin {"drop", "save"}
                               /\ pc'[new.by] \in {"drop", "save"},
           \A c \in Calls \ {new.by} : pc'[c] = pc[c]
    PROVE  Waits'
  <1>1. \A w \in saves : w.by \in Calls => w.by # new.by BY DEF Waits
  <1> QED BY <1>1 DEF Waits

LEMMA WaitsEnded ==
    ASSUME Waits, NEW w \in saves, saves' = saves \ {w},
           \A c \in Calls \ {w.by} : pc'[c] = pc[c]
    PROVE  Waits'
  <1>1. \A v \in saves' : v.by \in Calls => v.by # w.by BY DEF Waits
  <1> QED BY <1>1 DEF Waits

LEMMA LedgerStays ==
    ASSUME Ledger, TypeOK, owner' = owner, IdsStay, due' = due, cancels' = cancels,
           \A c \in Calls : pc'[c] \in Early => pc[c] \in Early
    PROVE  Ledger'
  <1>1. \A t \in due : t \in Calls /\ id'[t] = id[t] BY DEF Ledger, IdsStay, TypeOK
  <1>2. \A c, t \in Calls : cancels[c] = t => id'[t] = id[t] BY DEF Ledger, IdsStay
  <1> QED BY <1>1, <1>2 DEF Ledger, Repeats

LEMMA DistinctStays ==
    ASSUME Distinct, owner' = owner, id' = id, spoilt \subseteq spoilt'
    PROVE  Distinct'
  BY DEF Distinct

(* An access that does not spoil its user is the only one. *)
LEMMA Free ==
    ASSUME NEW p, NEW u \in Owners, u \notin Spoils(p, u)
    PROVE  Writes(u) = {} /\ Readers(u) \subseteq {p}
  BY DEF Spoils, Writes, Readers

(* Entering tasks changes what those users have who are entered tasks, and adds to it. *)
LEMMA EnterOrder ==
    ASSUME SInv, SInv', Distinct', owner' = owner, IdsStay,
           NEW p \in Loaders, NEW T \in SUBSET Calls, Enter(p, T),
           \A t \in T : id'[t] # None,
           NEW v \in Owners, v \notin spoilt', Fires(v), T \cap Listed(v) = {}
    PROVE  /\ Listed(v)' = Listed(v) \cup {t \in T : owner[t] = v}
           /\ \A j \in armed' : owner[Task(j)] = v =>
                 /\ j \in jobs' /\ Task(j) \in tasks'
                 /\ j \in armed \/ Task(j) \in T
  <1> DEFINE S   == T \ futile'
             new == {Job(p, t) : t \in S}
  <1>1. /\ tasks' = {s \in tasks : \A t \in T : id'[t] # id'[s]} \cup T
        /\ jobs' = {j \in jobs : \A t \in S : id'[t] # id'[Task(j)]} \cup new
        /\ armed' = armed \cup new
        BY DEF Enter, Put
  <1>2. \A j \in new : Task(j) \in T BY DEF Job, Task
  <1> HIDE DEF new
  <1>3. tasks \in SUBSET Calls /\ armed \in SUBSET Jobs BY DEF SInv, TypeOK
  <1>4. \A s, t \in Calls : (owner[s] = v /\ id'[t] # None /\ id'[s] = id'[t]) => s = t
        BY DEF Distinct
  <1>5. \A s \in tasks : owner[s] = v => \A t \in T : id'[t] # id'[s]
        BY <1>3, <1>4 DEF Listed
  <1>6. Listed(v)' = Listed(v) \cup {t \in T : owner[t] = v}
        BY <1>1, <1>5 DEF Listed
  <1>7. ASSUME NEW j \in armed', owner[Task(j)] = v
        PROVE  j \in jobs' /\ Task(j) \in tasks' /\ (j \in armed \/ Task(j) \in T)
    <2>1. CASE j \in new BY <1>1, <1>2, <2>1
    <2>2. CASE j \in armed
      <3>1. j \in jobs /\ Task(j) \in tasks BY <1>7, <2>2 DEF Fires
      <3>2. \A t \in T : id'[t] # id'[Task(j)] BY <1>5, <1>7, <3>1
      <3> QED BY <1>1, <2>2, <3>1, <3>2
    <2> QED BY <1>1, <1>7, <2>1, <2>2
  <1> QED BY <1>6, <1>7

(* Removing a task leaves nobody a job without its task. *)
LEMMA RemoveOrder ==
    ASSUME SInv, owner' = owner, UNCHANGED <<id, futile>>,
           NEW p, NEW u \in Owners, NEW i, Remove(p, u, i),
           NEW v \in Owners, Fires(v)
    PROVE  /\ Listed(v)' = Listed(v) \ Entry(u, i)
           /\ \A j \in armed' : owner[Task(j)] = v =>
                 j \in armed /\ j \in jobs' /\ Task(j) \in tasks'
  <1>1. /\ tasks' = tasks \ Entry(u, i)
        /\ jobs' = {j \in jobs : id[Task(j)] # i}
        /\ armed' = armed \ ({p} \cup {j \in jobs : id[Task(j)] = i})
        BY DEF Remove
  <1> QED BY <1>1 DEF Fires, Listed, Entry

(***************************************************************************)
(* The common end of the add*() calls: for a user without disorder there   *)
(* was nothing to load.                                                    *)
(***************************************************************************)
LEMMA AddOrder ==
    ASSUME SInv, SInv', OInv, NEW c \in Calls, pc[c] \in Early \ {"drop"}, Ready,
           NEW kind \in AllKinds, NEW L \in SUBSET Calls,
           \A t \in L : owner[t] = owner[c] /\ id[t] # None,
           owner[c] \notin spoilt => L = {},
           Add(c, kind, L),
           UNCHANGED <<owner, file, due, restarts, failures, fired, cancels>>,
           got' = got \/ got' = [got EXCEPT ![c] = {}]
    PROVE  OInv'
  <1>1. PICK now \in {Latest(kind), Latest(kind) + 1} \ {0} :
          LET i    == <<kind, now>>
              same == {t \in Calls : id[t] = i}
          IN /\ same \cap L = {}
             /\ id' = [id EXCEPT ![c] = i]
             /\ spoilt' = spoilt \cup Spoils(c, owner[c]) \cup {owner[t] : t \in same}
                          \cup (IF same = {} THEN {} ELSE {owner[c]})
        BY DEF Add
  <1>2. /\ Enter(c, L \cup {c}) /\ Save(c, owner[c]) /\ pc' = [pc EXCEPT ![c] = "save"]
        /\ futile' \in {futile, futile \cup {c}}
        BY DEF Add
  <1>0. PICK u \in Owners : u = owner[c] BY DEF SInv, TypeOK
  <1> DEFINE i == <<kind, now>>
             new == [by |-> c, owner |-> u, data |-> Snapshot(tasks', u), opened |-> FALSE]
  <1>3. i # None
    <2>1. now \in Nat BY <1>1, Clock
    <2> QED BY <2>1, ScheduleAssumption
  <1> HIDE DEF i
  <1>4. /\ id' = [id EXCEPT ![c] = i] /\ \A t \in L : id[t] # i
        /\ spoilt \subseteq spoilt' /\ Spoils(c, u) \subseteq spoilt'
        /\ \A t \in Calls : id[t] = i => owner[t] \in spoilt' /\ u \in spoilt'
        BY <1>0, <1>1 DEF i
  <1>5. /\ id[c] = None /\ id \in [Calls -> (AllKinds \X Nat) \cup {None}]
        /\ pc \in [Loaders -> Places] /\ got \in [Loaders -> (SUBSET Calls) \cup {Torn}]
        /\ owner \in [Calls -> Owners] /\ tasks \in SUBSET Calls
        /\ \A t \in tasks : id[t] # None
        /\ cancels[c] = None
        BY DEF SInv, Named, TypeOK, OInv, Ledger
  <1>6. /\ id'[c] = i /\ \A t \in Calls \ {c} : id'[t] = id[t]
        /\ IdsStay
        BY <1>3, <1>4, <1>5 DEF IdsStay
  <1>7. c \in Loaders /\ u \in Owners /\ c \notin Owners
        BY <1>0, <1>5, ScheduleAssumption DEF Loaders
  <1>8. saves' = saves \cup {new} /\ new.by = c /\ new.owner = u /\ ~new.opened
        /\ new.data = Listed(u)'
        BY <1>0, <1>2 DEF Save, Snapshot, Listed
  <1> HIDE DEF new
  <1>9. Distinct'
    <2> SUFFICES ASSUME NEW s \in Calls, NEW t \in Calls,
                        id'[s] # None, id'[s] = id'[t], owner[s] \notin spoilt'
                 PROVE  s = t
        BY DEF Distinct
    <2>1. owner[s] \notin spoilt BY <1>4
    <2>2. CASE s = c /\ t # c BY <1>0, <1>4, <1>6, <2>2
    <2>3. CASE s # c /\ t = c BY <1>4, <1>6, <2>3
    <2>4. CASE s # c /\ t # c BY <1>6, <2>1, <2>4 DEF OInv, Distinct
    <2> QED BY <2>2, <2>3, <2>4
  <1>10. Serving'
    <2>1. User(c) = u BY <1>0, <1>7 DEF User
    <2>2. \A w \in saves' : \/ w.by \in Loaders => User(w.by) = w.owner
                            \/ \E v \in saves : v.by = w.by /\ v.owner = w.owner
          BY <1>8, <2>1
    <2>3. \A v \in Owners : pc[v] = "done" => pc'[v] = "done" BY <1>2, <1>5, <1>7
    <2>4. \A d \in Calls : pc'[d] \in Busy => pc[d] \in Busy \/ Ready OBVIOUS
    <2> QED BY <2>2, <2>3, <2>4, ServingStays DEF OInv, SInv
  <1>11. Ledger'
    <2>1. \A d \in Calls : pc'[d] \in Early => pc[d] \in Early
          BY <1>2, <1>5 DEF Loaders, Early
    <2> QED BY <1>6, <2>1, LedgerStays DEF OInv, SInv
  <1>12. \A t \in L \cup {c} : id'[t] # None /\ owner[t] = u BY <1>0, <1>3, <1>6
  <1>13. ASSUME NEW v \in Owners, v \notin spoilt', v # u PROVE Orderly(v)'
    <2>1. Orderly(v) BY <1>4, <1>13 DEF OInv
    <2>2. (L \cup {c}) \cap Listed(v) = {} BY <1>12, <1>13 DEF Listed
    <2>3. /\ Listed(v)' = Listed(v) \cup {t \in L \cup {c} : owner[t] = v}
          /\ \A j \in armed' : owner[Task(j)] = v =>
                /\ j \in jobs' /\ Task(j) \in tasks'
                /\ j \in armed \/ Task(j) \in L \cup {c}
          BY <1>2, <1>6, <1>7, <1>9, <1>12, <1>13, <2>1, <2>2, EnterOrder DEF Orderly
    <2>4. Unmoved(v)
      <3>1. Listed(v)' = Listed(v) BY <1>12, <1>13, <2>3
      <3>2. Writes(v)' = Writes(v) BY <1>8, <1>13 DEF Writes
      <3>3. \A d \in Calls : owner[d] = v => d # c BY <1>0, <1>13
      <3>4. pc'[v] = pc[v] /\ got'[v] = got[v]
        <4>1. v # c /\ v \in Loaders BY <1>7 DEF Loaders
        <4>2. pc'[v] = pc[v] BY <1>2, <1>5, <4>1
        <4>3. got'[v] = got[v] BY <1>5, <4>1
        <4> QED BY <4>2, <4>3
      <3>5. \A d \in Calls : d # c => pc'[d] = pc[d] /\ got'[d] = got[d]
            BY <1>2, <1>5 DEF Loaders
      <3>6. \A j \in armed' : owner[Task(j)] = v => j \in armed /\ j \in jobs'
            BY <1>12, <1>13, <2>3
      <3>7. file'[v] = file[v] OBVIOUS
      <3>8. \A d \in Calls : d # c => (d \in futile' <=> d \in futile) BY <1>2
      <3> QED BY <1>6, <3>1, <3>2, <3>3, <3>4, <3>5, <3>6, <3>7, <3>8 DEF Unmoved
    <2> QED BY <1>11, <2>1, <2>4, UnmovedStays DEF OInv, SInv
  <1>14. ASSUME u \notin spoilt' PROVE Orderly(u)'
    <2>1. Orderly(u) /\ L = {} BY <1>0, <1>4, <1>7, <1>14 DEF OInv
    <2>2. Writes(u) = {} /\ Readers(u) \subseteq {c}
          BY <1>4, <1>7, <1>14, Free
    <2>3. c \notin tasks BY <1>5
    <2>4. /\ Listed(u)' = Listed(u) \cup {c}
          /\ \A j \in armed' : owner[Task(j)] = u =>
                j \in jobs' /\ Task(j) \in tasks'
      <3>1. {c} \cap Listed(u) = {} BY <2>3 DEF Listed
      <3>2. Enter(c, {c})
        <4>1. L \cup {c} = {c} BY <2>1
        <4> QED BY <1>2, <4>1, Zenon
      <3>3. {c} \in SUBSET Calls /\ {t \in {c} : owner[t] = u} = {c} BY <1>0
      <3> QED BY <1>6, <1>7, <1>9, <1>12, <1>14, <2>1, <3>1, <3>2, <3>3, EnterOrder DEF Orderly
    <2>5. Writes(u)' = {new} BY <1>8, <2>2 DEF Writes
    <2>6. pc'[u] = "done" /\ pc[u] = "done" /\ pc'[c] = "save"
          BY <1>2, <1>5, <1>7 DEF Ready
    <2>7. Readers(u)' = {}
      <3>1. \A d \in Loaders \ {c} : pc'[d] = pc[d] BY <1>2, <1>5
      <3> QED BY <1>0, <1>7, <2>2, <2>6, <3>1 DEF Readers, User
    <2>8. Alone(u)' BY <2>5, <2>7 DEF Alone
    <2>9. Image(u)' BY <1>8, <2>1, <2>5, <2>6, <2>7 DEF Image, Up, Orderly
    <2>10. \A t \in Calls : owner[t] = u => (t \in tasks' <=> t \in tasks \/ t = c)
           BY <2>4 DEF Listed
    <2>11. c \notin due BY <1>5 DEF OInv, Ledger
    <2>12. Fires(u)' BY <2>1, <2>4, <2>10, <2>11 DEF Orderly, Fires
    <2>13. \A d \in Calls : cancels[d] # c BY <1>5 DEF OInv, Ledger
    <2>14. Gone(u)'
      <3>1. \A d \in Calls : pc'[d] \in {"save", "done"} =>
               /\ d = c \/ pc[d] \in {"save", "done"}
               /\ pc'[d] = "done" => pc[d] = "done"
            BY <1>2, <1>5 DEF Loaders
      <3>2. \A t \in Calls : cancels[c] # t BY <1>5, ScheduleAssumption
      <3> QED BY <2>1, <2>10, <2>13, <3>1, <3>2 DEF Orderly, Gone
    <2>15. Stays(u)'
      <3>1. \A d \in Calls \ {c} : /\ pc'[d] = pc[d] /\ (Wanted(d)' => Wanted(d))
            BY <1>2, <1>5, <1>6 DEF Loaders, Wanted, Repeats
      <3> QED BY <2>1, <2>2, <2>6, <2>10, <3>1 DEF Orderly, Stays, Up
    <2> QED BY <2>8, <2>9, <2>12, <2>14, <2>15 DEF Orderly
  <1>15. Waits'
    <2>1. pc'[c] = "save" /\ \A d \in Calls \ {c} : pc'[d] = pc[d]
          BY <1>2, <1>5 DEF Loaders
    <2>2. pc[c] \notin {"drop", "save"} BY DEF Early
    <2> QED BY <1>8, <2>1, <2>2, WaitsBegun DEF OInv
  <1> QED BY <1>9, <1>10, <1>11, <1>13, <1>14, <1>15 DEF OInv

(* For users without disorder, a call finds nothing to load. *)
LEMMA NothingLoaded ==
    ASSUME SInv, OInv, NEW c \in Calls, pc[c] = "parse", owner[c] \notin spoilt
    PROVE  got[c] = {} /\ Parsed(c) = {} /\ ToCome(c) = {}
  <1>1. PICK u \in Owners : u = owner[c] BY DEF SInv, TypeOK
  <1>2. c \in Loaders /\ c \notin Owners BY ScheduleAssumption DEF Loaders
  <1>3. c \in Readers(u) BY <1>1, <1>2 DEF Readers, User
  <1>4. Up(u) BY DEF OInv, Serving, Ready, Up
  <1>5. got[c] = {} BY <1>1, <1>3, <1>4 DEF OInv, Orderly, Image
  <1> QED BY <1>5 DEF Parsed, ToCome

(* The add*() calls. *)
LEMMA AddsOrder ==
    ASSUME SInv, SInv', OInv, NEW c \in Calls, owner' = owner,
           \/ \E kind \in Kinds : add(c, kind)
           \/ Parse(c)
           \/ AddAfterDrop(c)
    PROVE  OInv'
  <1>1. "timer" \in AllKinds /\ Kinds \subseteq AllKinds
        BY ScheduleAssumption DEF AllKinds
  <1>2. CASE \E kind \in Kinds : add(c, kind)
    <2>1. PICK kind \in Kinds : add(c, kind) BY <1>2
    <2>2. /\ pc[c] \in Early \ {"drop"} /\ Ready /\ Add(c, kind, {}) /\ got' = got
          /\ UNCHANGED <<file, due, restarts, failures, fired, cancels>>
          BY <2>1 DEF add, Early
    <2> QED BY <1>1, <2>2, AddOrder
  <1>3. CASE AddAfterDrop(c)
    <2>1. /\ pc[c] \in Early \ {"drop"} /\ pc[c] = "dropped" /\ Add(c, "timer", {}) /\ got' = got
          /\ UNCHANGED <<file, due, restarts, failures, fired, cancels>>
          BY <1>3 DEF AddAfterDrop, Early
    <2>2. Ready BY <2>1 DEF OInv, Serving
    <2> QED BY <1>1, <2>1, <2>2, AddOrder
  <1>4. CASE Parse(c)
    <2>1. c \in Loaders /\ c \notin Owners /\ User(c) = owner[c]
          BY ScheduleAssumption DEF Loaders, User
    <2>2. /\ pc[c] \in Early \ {"drop"} /\ pc[c] = "parse" /\ Add(c, "timer", ToCome(c))
          /\ got' = [got EXCEPT ![c] = {}]
          /\ UNCHANGED <<file, due, restarts, failures, fired, cancels>>
          BY <1>4, <2>1 DEF Parse, Early
    <2>3. Ready BY <2>2 DEF OInv, Serving
    <2>4. PICK L \in SUBSET Calls : L = ToCome(c) BY <2>1, Loaded
    <2>5. Proper(L, owner[c]) BY <2>1, <2>4, Loaded
    <2>6. \A t \in L : owner[t] = owner[c] /\ id[t] # None BY <2>5 DEF Proper
    <2>7. owner[c] \notin spoilt => L = {} BY <2>2, <2>4, NothingLoaded
    <2>8. Add(c, "timer", L) BY <2>2, <2>4
    <2> QED BY <1>1, <2>2, <2>3, <2>6, <2>7, <2>8, AddOrder
  <1> QED BY <1>2, <1>3, <1>4

(* addTimer() goes to load, alone. *)
LEMMA AddTimerOrder ==
    ASSUME SInv, SInv', OInv, NEW c \in Calls, addTimer(c), owner' = owner
    PROVE  OInv'
  <1>1. PICK u \in Owners : u = owner[c] BY DEF SInv, TypeOK
  <1>2. /\ Ready /\ pc[c] = "idle" /\ Listed(u) = {} /\ pc' = [pc EXCEPT ![c] = "read"]
        /\ spoilt' = spoilt \cup Spoils(c, u)
        /\ UNCHANGED <<got, tasks, jobs, armed, file, saves, id, due, futile, fired, cancels>>
        BY <1>1 DEF addTimer, memory, times
  <1>3. /\ c \in Loaders /\ c \notin Owners /\ pc \in [Loaders -> Places]
        /\ owner \in [Calls -> Owners]
        BY ScheduleAssumption DEF SInv, TypeOK, Loaders
  <1>4. \A p \in Loaders : p # c => pc'[p] = pc[p] BY <1>2, <1>3
  <1>5. \A v \in Owners : pc'[v] = pc[v] BY <1>3, <1>4 DEF Loaders
  <1>6. Serving'
    <2>1. \A v \in Owners : pc[v] = "done" => pc'[v] = "done" BY <1>5
    <2>2. \A d \in Calls : pc'[d] \in Busy => pc[d] \in Busy \/ Ready BY <1>2
    <2>3. \A w \in saves' : \E v \in saves : v.by = w.by /\ v.owner = w.owner BY <1>2
    <2> QED BY <2>1, <2>2, <2>3, ServingStays DEF OInv, SInv
  <1>7. Ledger'
    <2>1. \A d \in Calls : pc'[d] \in Early => pc[d] \in Early
          BY <1>2, <1>4 DEF Loaders, Early
    <2> QED BY <1>2, <2>1, LedgerStays DEF OInv, SInv, IdsStay
  <1>8. Distinct' BY <1>2, DistinctStays DEF OInv
  <1>9. ASSUME NEW v \in Owners, v \notin spoilt', v # u PROVE Orderly(v)'
    <2>1. Unmoved(v)
      <3>1. \A d \in Calls : owner[d] = v => pc'[d] = pc[d]
            BY <1>1, <1>4, <1>9 DEF Loaders
      <3> QED BY <1>2, <1>5, <3>1 DEF Unmoved, Listed, Writes
    <2> QED BY <1>2, <1>7, <1>9, <2>1, UnmovedStays DEF OInv, SInv
  <1>10. ASSUME u \notin spoilt' PROVE Orderly(u)'
    <2>1. Orderly(u) BY <1>2, <1>10 DEF OInv
    <2>2. Writes(u) = {} /\ Readers(u) \subseteq {c} BY <1>2, <1>10, Free
    <2>3. Readers(u)' \subseteq {c} /\ Writes(u)' = {}
          BY <1>2, <1>3, <1>4, <2>2 DEF Readers, User, Writes
    <2>4. Up(u)' /\ Up(u) /\ pc'[u] = "done" /\ pc'[c] = "read"
          BY <1>2, <1>3, <1>5 DEF Ready, Up
    <2>5. Alone(u)' BY <2>3 DEF Alone
    <2>6. Image(u)' BY <1>2, <2>1, <2>2, <2>3, <2>4 DEF Orderly, Image, Listed, Up
    <2>7. Fires(u)' BY <1>2, <2>1 DEF Orderly, Fires
    <2>8. \A d \in Calls : pc'[d] \in {"save", "done"} => pc'[d] = pc[d]
          BY <1>2, <1>3, <1>4 DEF Loaders
    <2>9. Gone(u)' BY <1>2, <2>1, <2>8 DEF Orderly, Gone
    <2>10. Stays(u)'
      <3>1. \A t \in Calls : Wanted(t)' => Wanted(t) BY <1>2 DEF Wanted, Repeats
      <3> QED BY <1>2, <2>1, <2>2, <2>4, <2>8, <3>1 DEF Orderly, Stays
    <2> QED BY <2>5, <2>6, <2>7, <2>9, <2>10 DEF Orderly
  <1>11. Waits'
    <2>1. \A d \in Calls : pc[d] \in {"drop", "save"} => pc'[d] = pc[d]
          BY <1>2, <1>4 DEF Loaders
    <2> QED BY <1>2, <2>1, WaitsStays DEF OInv
  <1> QED BY <1>6, <1>7, <1>8, <1>9, <1>10, <1>11 DEF OInv

(* A call or the boot reads a file: nobody writes it. *)
LEMMA ReadOrder ==
    ASSUME SInv, SInv', OInv, NEW p \in Loaders, Read(p), owner' = owner
    PROVE  OInv'
  <1>1. PICK u \in Owners : u = User(p) BY Users DEF SInv
  <1>2. /\ pc' = [pc EXCEPT ![p] = "parse"] /\ got' = [got EXCEPT ![p] = file[u]]
        /\ UNCHANGED <<tasks, jobs, armed, file, saves, id, due, futile, fired, cancels, spoilt>>
        BY <1>1 DEF Read, memory, times
  <1>3. /\ pc \in [Loaders -> Places] /\ owner \in [Calls -> Owners]
        /\ got \in [Loaders -> (SUBSET Calls) \cup {Torn}]
        /\ \A d \in Calls : d \in Loaders /\ d \notin Owners /\ User(d) = owner[d]
        /\ \A v \in Owners : v \in Loaders /\ v \notin Calls /\ User(v) = v
        BY ScheduleAssumption DEF SInv, TypeOK, Loaders, User
  <1>4. \A q \in Loaders : q # p => pc'[q] = pc[q] /\ got'[q] = got[q] BY <1>2, <1>3
  <1>5. pc'[p] = "parse" /\ got'[p] = file[u] BY <1>2, <1>3
  <1>6. \/ p \in Calls /\ pc[p] = "read"
        \/ p \in Owners /\ p = u /\ pc[p] = "waiting"
        BY <1>1, <1>3 DEF Read
  <1>7. Serving'
    <2>1. \A v \in Owners : pc[v] = "done" => pc'[v] = "done" BY <1>3, <1>4, <1>6
    <2>2. \A d \in Calls : pc'[d] \in Busy => pc[d] \in Busy BY <1>3, <1>4, <1>6 DEF Busy
    <2>3. \A w \in saves' : \E v \in saves : v.by = w.by /\ v.owner = w.owner BY <1>2
    <2> QED BY <2>1, <2>2, <2>3, ServingStays DEF OInv, SInv
  <1>8. Ledger'
    <2>1. \A d \in Calls : pc'[d] \in Early => pc[d] \in Early
          BY <1>3, <1>4, <1>6 DEF Early
    <2> QED BY <1>2, <2>1, LedgerStays DEF OInv, SInv, IdsStay
  <1>9. Distinct' BY <1>2, DistinctStays DEF OInv
  <1>10. ASSUME NEW v \in Owners, v \notin spoilt', v # u PROVE Orderly(v)'
    <2>1. Unmoved(v)
      <3>1. \A d \in Calls : owner[d] = v => pc'[d] = pc[d] /\ got'[d] = got[d]
            BY <1>1, <1>3, <1>4, <1>10
      <3>2. pc'[v] = pc[v] /\ got'[v] = got[v] BY <1>1, <1>3, <1>4, <1>10
      <3> QED BY <1>2, <3>1, <3>2 DEF Unmoved, Listed, Writes
    <2> QED BY <1>2, <1>8, <1>10, <2>1, UnmovedStays DEF OInv, SInv
  <1>11. ASSUME u \notin spoilt' PROVE Orderly(u)'
    <2>1. Orderly(u) BY <1>2, <1>11 DEF OInv
    <2>2. Listed(u)' = Listed(u) /\ Writes(u)' = Writes(u) BY <1>2 DEF Listed, Writes
    <2>3. /\ Writes(u) = {} /\ Readers(u)' = {p}
          /\ Listed(u) = {} /\ Up(u)' = (p \in Calls) /\ (p \in Calls => Up(u))
          /\ p \in Calls => file[u] = {}
      <3>1. CASE p \in Calls /\ pc[p] = "read"
        <4>1. p \in Readers(u) BY <1>1, <3>1 DEF Readers
        <4>2. Up(u) BY <3>1 DEF OInv, Serving, Ready, Up
        <4>3. Writes(u) = {} /\ Readers(u) = {p}
              BY <2>1, <4>1 DEF Orderly, Alone
        <4>4. Listed(u) = {} /\ file[u] = {} BY <2>1, <4>1, <4>2, <4>3 DEF Orderly, Image
        <4>5. pc'[u] = pc[u] BY <1>3, <1>4, <3>1
        <4>6. Readers(u)' = {p}
              BY <1>1, <1>3, <1>4, <1>5, <4>3 DEF Readers, User
        <4> QED BY <3>1, <4>2, <4>3, <4>4, <4>5, <4>6 DEF Up
      <3>2. CASE p \in Owners /\ p = u /\ pc[p] = "waiting"
        <4>1. Listed(u) = {} /\ Writes(u) = {} /\ Readers(u) = {}
              BY <2>1, <3>2 DEF Orderly, Image
        <4>2. Readers(u)' = {p}
              BY <1>1, <1>3, <1>4, <1>5, <4>1 DEF Readers, User
        <4> QED BY <1>3, <1>5, <3>2, <4>1, <4>2 DEF Up
      <3> QED BY <1>6, <3>1, <3>2
    <2>4. Alone(u)' BY <2>2, <2>3 DEF Alone
    <2>5. pc'[u] = "waiting" => FALSE
      <3>1. CASE p \in Calls
        <4>1. Up(u) /\ pc'[u] = pc[u] BY <1>3, <1>4, <2>3, <3>1
        <4> QED BY <4>1 DEF Up
      <3>2. CASE p = u BY <1>5, <3>2
      <3> QED BY <1>6, <3>1, <3>2
    <2>6. pc'[u] = "parse" => got'[u] = file[u]
      <3>1. CASE p \in Calls BY <2>3, <3>1 DEF Up
      <3>2. CASE p = u BY <1>5, <3>2
      <3> QED BY <1>6, <3>1, <3>2
    <2>7. Garbage \notin file[u] BY <2>1 DEF Orderly, Image
    <2>8. Image(u)'
      <3>1. Up(u)' => /\ Writes(u)' = {} /\ file'[u] = Listed(u)'
                      /\ \A c \in Readers(u)' : Listed(u)' = {} /\ got'[c] = {}
            BY <1>2, <1>5, <2>2, <2>3
      <3> QED BY <1>2, <2>2, <2>3, <2>5, <2>6, <2>7, <3>1 DEF Image
    <2>9. Fires(u)' BY <1>2, <2>1 DEF Orderly, Fires
    <2>10. \A d \in Calls : pc'[d] \in {"save", "done"} => pc'[d] = pc[d]
           BY <1>3, <1>4, <1>5
    <2>11. Gone(u)' BY <1>2, <2>1, <2>10 DEF Orderly, Gone
    <2>12. Stays(u)'
      <3>1. \A t \in Calls : Wanted(t)' => Wanted(t) BY <1>2 DEF Wanted, Repeats
      <3>2. Up(u)' => Up(u) BY <2>3
      <3> QED BY <1>2, <2>1, <2>3, <2>10, <3>1, <3>2 DEF Orderly, Stays
    <2> QED BY <2>4, <2>8, <2>9, <2>11, <2>12 DEF Orderly
  <1>12. Waits'
    <2>1. \A d \in Calls : pc[d] \in {"drop", "save"} => pc'[d] = pc[d]
          BY <1>3, <1>4, <1>6
    <2> QED BY <1>2, <2>1, WaitsStays DEF OInv
  <1> QED BY <1>7, <1>8, <1>9, <1>10, <1>11, <1>12 DEF OInv

(* What the boot loads of u, when u is without disorder: what the file holds and is to
   come; nothing else goes on for u meanwhile. *)
FromFile(u) ==
    /\ Listed(u)' = ToCome(u) /\ Parsed(u) = file[u]
    /\ Writes(u) = {} /\ Readers(u) = {u}
    /\ Fires(u)' /\ Garbage \notin file[u]
    /\ \A c \in Calls : pc[c] \notin Busy
    /\ \A c, t \in Calls :
          (owner[t] = u /\ cancels[c] = t /\ pc[c] = "done") => t \notin file[u]
    /\ \A t \in Calls :
          (owner[t] = u /\ Wanted(t)' /\ pc[t] = "done") => t \in ToCome(u) /\ t \in file[u]

(***************************************************************************)
(* Loading at boot, as far as Parse and ParseDropping have it in common:   *)
(* what is to come is listed.                                              *)
(***************************************************************************)
LEMMA BootEnters ==
    ASSUME SInv, SInv', OInv, NEW u \in Owners, owner' = owner, pc[u] = "parse",
           Enter(u, ToCome(u)), UNCHANGED <<id, due, futile, fired, cancels, file>>,
           spoilt \subseteq spoilt', Distinct',
           \A c \in Calls : pc'[c] = pc[c] /\ got'[c] = got[c],
           \A v \in Owners \ {u} : pc'[v] = pc[v] /\ got'[v] = got[v],
           \A v \in Owners \ {u} : Writes(v)' = Writes(v),
           Ledger'
    PROVE  /\ \A v \in Owners : (v \notin spoilt' /\ v # u) => Orderly(v)'
           /\ u \notin spoilt' => FromFile(u)
  <1>1. u \in Loaders /\ User(u) = u BY DEF Loaders, User
  <1>2. PICK T \in SUBSET Calls : T = ToCome(u) BY <1>1, Loaded
  <1>3. Proper(T, u) BY <1>1, <1>2, Loaded
  <1>4. \A t \in T : owner[t] = u /\ id'[t] # None BY <1>3 DEF Proper
  <1>5. IdsStay /\ Enter(u, T) BY <1>2 DEF IdsStay
  <1>6. ASSUME NEW v \in Owners, v \notin spoilt', v # u PROVE Orderly(v)'
    <2>1. Orderly(v) BY <1>6 DEF OInv
    <2>2. T \cap Listed(v) = {} BY <1>4, <1>6 DEF Listed
    <2>3. /\ Listed(v)' = Listed(v) \cup {t \in T : owner[t] = v}
          /\ \A j \in armed' : owner[Task(j)] = v =>
                /\ j \in jobs' /\ Task(j) \in tasks'
                /\ j \in armed \/ Task(j) \in T
          BY <1>1, <1>4, <1>5, <1>6, <2>1, <2>2, EnterOrder DEF Orderly
    <2>4. Unmoved(v) BY <1>4, <1>6, <2>3 DEF Unmoved
    <2> QED BY <1>6, <2>1, <2>4, UnmovedStays DEF OInv, SInv
  <1>7. ASSUME u \notin spoilt'
        PROVE  FromFile(u)
    <2>1. Orderly(u) BY <1>7 DEF OInv
    <2>2. Listed(u) = {} /\ got[u] = file[u] /\ Garbage \notin file[u]
          BY <2>1 DEF Orderly, Image
    <2>3. u \in Readers(u) BY <1>1 DEF Readers
    <2>4. Writes(u) = {} /\ Readers(u) = {u} BY <2>1, <2>3 DEF Orderly, Alone
    <2>5. Parsed(u) = file[u] BY <2>2 DEF Parsed, Torn
    <2>6. T \cap Listed(u) = {} BY <2>2
    <2>7. /\ Listed(u)' = Listed(u) \cup {t \in T : owner[t] = u}
          /\ \A j \in armed' : owner[Task(j)] = u => j \in jobs' /\ Task(j) \in tasks'
          BY <1>1, <1>4, <1>5, <1>7, <2>1, <2>6, EnterOrder DEF Orderly
    <2>8. Listed(u)' = T BY <1>4, <2>2, <2>7
    <2>9. \A t \in T : t \notin due
      <3>1. \A t \in due : ~Repeats(t) BY DEF OInv, Ledger
      <3> QED BY <1>2, <3>1 DEF ToCome
    <2>10. \A t \in Calls : owner[t] = u => (t \in tasks' <=> t \in T) BY <2>8 DEF Listed
    <2>11. Fires(u)' BY <2>1, <2>7, <2>9, <2>10 DEF Orderly, Fires
    <2>12. ~Ready BY DEF Ready
    <2>13. \A c \in Calls : pc[c] \notin Busy BY <2>12 DEF OInv, Serving, Busy
    <2>14. \A c, t \in Calls :
              (owner[t] = u /\ cancels[c] = t /\ pc[c] = "done") => t \notin file[u]
           BY <2>1 DEF Orderly, Gone
    <2>15. ASSUME NEW t \in Calls, owner[t] = u, Wanted(t)', pc[t] = "done"
           PROVE  t \in T /\ t \in file[u]
      <3>1. Wanted(t) BY <2>15 DEF Wanted, Repeats
      <3>2. t \in file[u] BY <2>1, <2>4, <2>15, <3>1 DEF Orderly, Stays
      <3> QED BY <1>2, <2>5, <3>1, <3>2 DEF ToCome, Wanted
    <2> QED BY <1>2, <2>2, <2>4, <2>5, <2>8, <2>11, <2>13, <2>14, <2>15 DEF FromFile
  <1> QED BY <1>6, <1>7

(* Loading at boot with nothing to drop: the file is what is listed. *)
LEMMA ParseOrder ==
    ASSUME SInv, SInv', OInv, NEW u \in Owners, Parse(u), owner' = owner
    PROVE  OInv'
  <1>1. u \in Loaders /\ u \notin Calls /\ pc \in [Loaders -> Places]
        /\ got \in [Loaders -> (SUBSET Calls) \cup {Torn}]
        BY ScheduleAssumption DEF Loaders, SInv, TypeOK
  <1>2. /\ pc[u] = "parse" /\ pc' = [pc EXCEPT ![u] = "done"] /\ ToCome(u) = Parsed(u)
        /\ Enter(u, ToCome(u)) /\ got' = [got EXCEPT ![u] = {}]
        /\ UNCHANGED <<id, futile, saves, spoilt, file, due, fired, cancels>>
        BY <1>1 DEF Parse
  <1>3. pc'[u] = "done" /\ \A q \in Loaders \ {u} : pc'[q] = pc[q] /\ got'[q] = got[q]
        BY <1>1, <1>2
  <1>4. /\ \A c \in Calls : pc'[c] = pc[c] /\ got'[c] = got[c]
        /\ \A v \in Owners \ {u} : pc'[v] = pc[v] /\ got'[v] = got[v]
        BY <1>1, <1>3 DEF Loaders
  <1>5. Serving'
    <2>1. \A v \in Owners : pc[v] = "done" => pc'[v] = "done" BY <1>3, <1>4
    <2>2. \A w \in saves' : \E v \in saves : v.by = w.by /\ v.owner = w.owner BY <1>2
    <2> QED BY <1>4, <2>1, <2>2, ServingStays DEF OInv, SInv
  <1>6. Ledger' BY <1>2, <1>4, LedgerStays DEF OInv, SInv, IdsStay
  <1>7. Distinct' BY <1>2, DistinctStays DEF OInv
  <1>8. \A v \in Owners : Writes(v)' = Writes(v) BY <1>2 DEF Writes
  <1>9. /\ \A v \in Owners : (v \notin spoilt' /\ v # u) => Orderly(v)'
        /\ u \notin spoilt' => FromFile(u)
        BY <1>2, <1>4, <1>6, <1>7, <1>8, BootEnters
  <1>10. ASSUME u \notin spoilt' PROVE Orderly(u)'
    <2> USE DEF FromFile
    <2>1. /\ Listed(u)' = file'[u] /\ Writes(u)' = {} /\ Up(u)'
          BY <1>2, <1>3, <1>8, <1>9, <1>10 DEF Up
    <2>2. Readers(u)' = {}
      <3>1. \A q \in Loaders \ {u} : q \notin Readers(u) BY <1>9, <1>10
      <3> QED BY <1>3, <3>1 DEF Readers, User
    <2>3. Alone(u)' /\ Image(u)' BY <1>2, <1>3, <1>9, <1>10, <2>1, <2>2 DEF Alone, Image, Up
    <2>4. \A t \in Calls : owner[t] = u => (t \in tasks' <=> t \in file[u])
          BY <1>2, <2>1 DEF Listed
    <2>5. Gone(u)' BY <1>2, <1>4, <1>9, <1>10, <2>4 DEF Gone, Busy
    <2>6. Stays(u)' BY <1>2, <1>4, <1>9, <1>10, <2>4 DEF Stays, Busy
    <2> QED BY <1>9, <1>10, <2>3, <2>5, <2>6 DEF Orderly
  <1>11. Waits' BY <1>2, <1>4, WaitsStays DEF OInv
  <1> QED BY <1>5, <1>6, <1>7, <1>9, <1>10, <1>11 DEF OInv

(* With something to drop: the file will be what is listed.  Only the boot finds anything. *)
LEMMA ParseDropOrder ==
    ASSUME SInv, SInv', OInv, NEW p \in Loaders, ParseDropping(p), owner' = owner
    PROVE  OInv'
  <1>1. PICK u \in Owners : u = User(p) BY Users DEF SInv
  <1> DEFINE new == [by |-> p, owner |-> u, data |-> Snapshot(tasks', u), opened |-> FALSE]
  <1>2. /\ pc[p] = "parse" /\ ToCome(p) # Parsed(p) /\ pc' = [pc EXCEPT ![p] = "drop"]
        /\ Enter(p, ToCome(p)) /\ got' = [got EXCEPT ![p] = {}]
        /\ saves' = saves \cup {new} /\ spoilt' = spoilt \cup Spoils(p, u)
        /\ UNCHANGED <<id, futile, file, due, fired, cancels>>
        BY <1>1 DEF ParseDropping, Save
  <1>3. new.by = p /\ new.owner = u /\ ~new.opened /\ new.data = Listed(u)'
        BY DEF Snapshot, Listed
  <1> HIDE DEF new
  <1>4. /\ pc \in [Loaders -> Places] /\ owner \in [Calls -> Owners]
        /\ got \in [Loaders -> (SUBSET Calls) \cup {Torn}]
        /\ \A d \in Calls : d \in Loaders /\ d \notin Owners /\ User(d) = owner[d]
        /\ \A v \in Owners : v \in Loaders /\ v \notin Calls /\ User(v) = v
        BY ScheduleAssumption DEF SInv, TypeOK, Loaders, User
  <1>5. pc'[p] = "drop" /\ \A q \in Loaders \ {p} : pc'[q] = pc[q] /\ got'[q] = got[q]
        BY <1>2, <1>4
  <1>6. Serving'
    <2>1. \A v \in Owners : pc[v] = "done" => pc'[v] = "done" BY <1>2, <1>4, <1>5
    <2>2. \A d \in Calls : pc'[d] \in Busy => pc[d] \in Busy BY <1>2, <1>4, <1>5 DEF Busy
    <2>3. \A w \in saves' : \/ w.by \in Loaders => User(w.by) = w.owner
                            \/ \E v \in saves : v.by = w.by /\ v.owner = w.owner
          BY <1>1, <1>2, <1>3
    <2> QED BY <2>1, <2>2, <2>3, ServingStays DEF OInv, SInv
  <1>7. Ledger'
    <2>1. \A d \in Calls : pc'[d] \in Early => pc[d] \in Early
          BY <1>2, <1>4, <1>5 DEF Early
    <2> QED BY <1>2, <2>1, LedgerStays DEF OInv, SInv, IdsStay
  <1>8. Distinct' BY <1>2, DistinctStays DEF OInv
  <1>9. \A v \in Owners \ {u} : Writes(v)' = Writes(v) BY <1>2, <1>3 DEF Writes
  <1>12. Waits'
    <2>1. \A d \in Calls \ {p} : pc'[d] = pc[d] BY <1>4, <1>5
    <2>2. Waits BY DEF OInv
    <2>3. new.by \in Calls => /\ pc[new.by] \notin {"drop", "save"}
                              /\ pc'[new.by] \in {"drop", "save"}
      <3>1. pc[p] \notin {"drop", "save"} /\ pc'[p] \in {"drop", "save"} BY <1>2, <1>5
      <3> QED BY <1>3, <3>1
    <2>4. \A d \in Calls \ {new.by} : pc'[d] = pc[d] BY <1>3, <2>1
    <2>5. saves' = saves \cup {new} BY <1>2
    <2> QED BY <2>2, <2>3, <2>4, <2>5, WaitsBegun
  <1>10. CASE p \in Calls
    <2>1. u \in spoilt BY <1>1, <1>2, <1>4, <1>10, NothingLoaded
    <2>2. PICK T \in SUBSET Calls : T = ToCome(p) BY Loaded
    <2>3. Proper(T, u) BY <1>1, <2>2, Loaded
    <2>4. \A t \in T : owner[t] = u /\ id'[t] # None BY <1>2, <2>3 DEF Proper
    <2>5. IdsStay /\ Enter(p, T) BY <1>2, <2>2 DEF IdsStay
    <2>6. ASSUME NEW v \in Owners, v \notin spoilt' PROVE Orderly(v)'
      <3>1. Orderly(v) /\ v # u BY <1>2, <2>1, <2>6 DEF OInv
      <3>2. T \cap Listed(v) = {} BY <2>4, <3>1 DEF Listed
      <3>3. /\ Listed(v)' = Listed(v) \cup {t \in T : owner[t] = v}
            /\ \A j \in armed' : owner[Task(j)] = v =>
                  /\ j \in jobs' /\ Task(j) \in tasks'
                  /\ j \in armed \/ Task(j) \in T
            BY <1>8, <2>4, <2>5, <2>6, <3>1, <3>2, EnterOrder DEF Orderly
      <3>4. /\ \A d \in Calls : owner[d] = v => pc'[d] = pc[d] /\ got'[d] = got[d]
            /\ pc'[v] = pc[v] /\ got'[v] = got[v]
            BY <1>1, <1>4, <1>5, <1>10, <3>1
      <3>5. Unmoved(v) BY <1>2, <1>9, <2>4, <3>1, <3>3, <3>4 DEF Unmoved
      <3> QED BY <1>7, <3>1, <3>5, UnmovedStays DEF OInv, SInv
    <2> QED BY <1>6, <1>7, <1>8, <1>12, <2>6 DEF OInv
  <1>11. CASE p \in Owners
    <2>1. p = u BY <1>1, <1>4, <1>11
    <2>2. /\ \A c \in Calls : pc'[c] = pc[c] /\ got'[c] = got[c]
          /\ \A v \in Owners \ {u} : pc'[v] = pc[v] /\ got'[v] = got[v]
          BY <1>4, <1>5, <2>1
    <2>3. /\ \A v \in Owners : (v \notin spoilt' /\ v # u) => Orderly(v)'
          /\ u \notin spoilt' => FromFile(u)
          BY <1>2, <1>7, <1>8, <1>9, <2>1, <2>2, BootEnters
    <2>4. ASSUME u \notin spoilt' PROVE Orderly(u)'
      <3> USE DEF FromFile
      <3>1. Writes(u)' = {new} BY <1>2, <1>3, <2>3, <2>4 DEF Writes
      <3>2. Readers(u)' = {}
        <4>1. \A q \in Loaders \ {u} : q \notin Readers(u) BY <2>3, <2>4
        <4> QED BY <1>5, <2>1, <4>1 DEF Readers, User
      <3>3. Up(u)' BY <1>5, <2>1 DEF Up
      <3>4. Alone(u)' /\ Image(u)'
            BY <1>2, <1>3, <1>5, <2>1, <2>3, <2>4, <3>1, <3>2, <3>3 DEF Alone, Image, Up
      <3>5. \A t \in Calls : owner[t] = u => (t \in tasks' <=> t \in ToCome(u))
            BY <2>3, <2>4 DEF Listed
      <3>6. ToCome(u) \subseteq file[u] BY <2>3, <2>4 DEF ToCome
      <3>7. Gone(u)' BY <1>2, <2>2, <2>3, <2>4, <3>5, <3>6 DEF Gone, Busy
      <3>8. Stays(u)' BY <1>2, <2>2, <2>3, <2>4, <3>5 DEF Stays, Busy
      <3> QED BY <2>3, <2>4, <3>4, <3>7, <3>8 DEF Orderly
    <2> QED BY <1>6, <1>7, <1>8, <1>12, <2>3, <2>4 DEF OInv
  <1> QED BY <1>10, <1>11 DEF Loaders

(* After a removal the file will be what is listed. *)
LEMMA RemoveFiles ==
    ASSUME SInv, OInv, NEW p, NEW u \in Owners, NEW i, Remove(p, u, i),
           UNCHANGED <<owner, got, file>>,
           u \notin spoilt', Up(u), Up(u)',
           Readers(u)' \subseteq Readers(u), p \notin Readers(u)
    PROVE  Alone(u)' /\ Image(u)' /\ Writes(u) = {}
  <1> DEFINE new == [by |-> p, owner |-> u, data |-> Snapshot(tasks', u), opened |-> FALSE]
  <1>1. saves' = saves \cup {new} /\ spoilt' = spoilt \cup Spoils(p, u)
        BY DEF Remove, Save
  <1>2. new.owner = u /\ ~new.opened /\ new.data = Listed(u)'
        BY DEF Snapshot, Listed
  <1> HIDE DEF new
  <1>3. u \notin spoilt /\ u \notin Spoils(p, u) BY <1>1
  <1>4. Writes(u) = {} /\ Readers(u) = {} BY <1>3, Free
  <1>5. Writes(u)' = {new} /\ Readers(u)' = {} BY <1>1, <1>2, <1>4 DEF Writes
  <1>6. Garbage \notin file'[u] BY <1>3 DEF OInv, Orderly, Image
  <1> QED BY <1>2, <1>4, <1>5, <1>6 DEF Alone, Image, Up

(* What a removal does to the files of others. *)
LEMMA RemoveElsewhere ==
    ASSUME NEW p, NEW u \in Owners, NEW i, Remove(p, u, i),
           NEW v \in Owners, v # u
    PROVE  Writes(v)' = Writes(v) /\ Listed(v) \ Entry(u, i) = Listed(v)
  <1> DEFINE new == [by |-> p, owner |-> u, data |-> Snapshot(tasks', u), opened |-> FALSE]
  <1>1. saves' = saves \cup {new} /\ new.owner = u BY DEF Remove, Save
  <1> HIDE DEF new
  <1> QED BY <1>1 DEF Writes, Listed, Entry

(* cancelTask() *)
LEMMA CancelOrder ==
    ASSUME SInv, SInv', OInv, NEW c \in Calls, cancelTask(c), owner' = owner
    PROVE  OInv'
  <1>1. PICK u \in Owners : u = owner[c] BY DEF SInv, TypeOK
  <1>2. PICK t \in Calls : /\ Entry(u, id[t]) # {} /\ Remove(c, u, id[t])
                           /\ cancels' = [cancels EXCEPT ![c] =
                                            CHOOSE e \in Entry(u, id[t]) : TRUE]
        BY <1>1 DEF cancelTask
  <1>3. PICK i : i = id[t] OBVIOUS
  <1>4. PICK e : e \in Entry(u, i) /\ cancels' = [cancels EXCEPT ![c] = e]
        BY <1>2, <1>3
  <1>5. /\ Ready /\ pc[c] = "idle" /\ pc' = [pc EXCEPT ![c] = "save"] /\ Remove(c, u, i)
        /\ UNCHANGED <<got, file, id, due, futile, fired>>
        BY <1>2, <1>3 DEF cancelTask, times
  <1>6. /\ pc \in [Loaders -> Places] /\ cancels \in [Calls -> Calls \cup {None}]
        /\ c \in Loaders /\ c \notin Owners /\ tasks \in SUBSET Calls
        /\ owner \in [Calls -> Owners] /\ User(c) = u
        /\ \A r, s \in tasks : id[r] = id[s] => r = s
        /\ \A s \in tasks : id[s] # None
        /\ cancels[c] = None /\ id[c] = None
        BY <1>1, <1>5, ScheduleAssumption
        DEF SInv, TypeOK, Named, Loaders, User, OInv, Ledger, Early
  <1>7. e \in tasks /\ owner[e] = u /\ id[e] = i /\ Entry(u, i) = {e} /\ e # c
        BY <1>4, <1>6 DEF Entry
  <1>8. pc'[c] = "save" /\ \A p \in Loaders \ {c} : pc'[p] = pc[p] BY <1>5, <1>6
  <1>9. \A v \in Owners : pc'[v] = pc[v] /\ v \in Loaders BY <1>6, <1>8 DEF Loaders
  <1>10. cancels'[c] = e /\ \A d \in Calls \ {c} : cancels'[d] = cancels[d] /\ pc'[d] = pc[d]
         BY <1>4, <1>6, <1>8 DEF Loaders
  <1>11. Serving'
    <2>1. saves' = saves \cup {[by |-> c, owner |-> u, data |-> Snapshot(tasks', u),
                                opened |-> FALSE]}
          BY <1>5 DEF Remove, Save
    <2>2. \A w \in saves' : \/ w.by \in Loaders => User(w.by) = w.owner
                            \/ \E v \in saves : v.by = w.by /\ v.owner = w.owner
          BY <1>6, <2>1
    <2>3. \A d \in Calls : pc'[d] \in Busy => pc[d] \in Busy \/ Ready BY <1>5
    <2>4. \A v \in Owners : pc[v] = "done" => pc'[v] = "done" BY <1>9
    <2> QED BY <2>2, <2>3, <2>4, ServingStays DEF OInv, SInv
  <1>12. Ledger'
    <2>1. \A d \in Calls : pc'[d] \in Early => d # c /\ pc[d] \in Early
          BY <1>8, <1>10 DEF Early
    <2>2. \A d, s \in Calls : cancels'[d] = s => owner[s] = owner[d] /\ id[s] # None
          BY <1>1, <1>6, <1>7, <1>10 DEF OInv, Ledger
    <2> QED BY <1>5, <1>10, <2>1, <2>2 DEF OInv, Ledger, Repeats
  <1>13. spoilt \subseteq spoilt' BY <1>5 DEF Remove
  <1>14. Distinct' BY <1>5, <1>13, DistinctStays DEF OInv
  <1>15. ASSUME NEW v \in Owners, v \notin spoilt', v # u PROVE Orderly(v)'
    <2>1. Orderly(v) BY <1>13, <1>15 DEF OInv
    <2>2. /\ Listed(v)' = Listed(v) /\ Writes(v)' = Writes(v)
          /\ \A j \in armed' : owner[Task(j)] = v => j \in armed /\ j \in jobs'
      <3>1. Writes(v)' = Writes(v) /\ Listed(v) \ Entry(u, i) = Listed(v)
        BY <1>5, <1>15, RemoveElsewhere
      <3>2. Fires(v) /\ Remove(c, u, i) /\ UNCHANGED <<id, futile>> BY <1>5, <2>1 DEF Orderly
      <3>3. /\ Listed(v)' = Listed(v) \ Entry(u, i)
            /\ \A j \in armed' : owner[Task(j)] = v => j \in armed /\ j \in jobs'
        BY <1>15, <3>2, RemoveOrder
      <3> QED BY <3>1, <3>3
    <2>3. Unmoved(v) BY <1>1, <1>5, <1>9, <1>10, <1>15, <2>2 DEF Unmoved
    <2> QED BY <1>12, <2>1, <2>3, UnmovedStays DEF OInv, SInv
  <1>16. ASSUME u \notin spoilt' PROVE Orderly(u)'
    <2>1. Orderly(u) BY <1>13, <1>16 DEF OInv
    <2>2. Up(u) /\ Up(u)' BY <1>5, <1>9 DEF Ready, Up
    <2>3. Readers(u)' \subseteq Readers(u) /\ c \notin Readers(u)
          BY <1>5, <1>6, <1>8 DEF Readers, User
    <2>4. Alone(u)' /\ Image(u)' /\ Writes(u) = {} BY <1>5, <1>16, <2>2, <2>3, RemoveFiles
    <2>5. /\ Listed(u)' = Listed(u) \ {e}
          /\ \A j \in armed' : owner[Task(j)] = u => j \in jobs' /\ Task(j) \in tasks'
          BY <1>5, <1>7, <2>1, RemoveOrder DEF Orderly
    <2>6. \A s \in Calls : owner[s] = u => (s \in tasks' <=> s \in tasks /\ s # e)
          BY <2>5 DEF Listed
    <2>7. Fires(u)' BY <1>5, <2>1, <2>5, <2>6 DEF Orderly, Fires
    <2>8. Gone(u)' BY <1>5, <1>8, <1>10, <2>1, <2>6 DEF Orderly, Gone
    <2>9. Stays(u)'
      <3>1. ASSUME NEW s \in Calls, Wanted(s)' PROVE Wanted(s) /\ s # e /\ s # c
        <4>1. cancels[c] # s BY <1>6, ScheduleAssumption
        <4> QED BY <1>5, <1>6, <1>10, <3>1, <4>1 DEF Wanted, Repeats
      <3> QED BY <1>5, <1>10, <2>1, <2>2, <2>4, <2>6, <3>1 DEF Orderly, Stays
    <2> QED BY <2>4, <2>7, <2>8, <2>9 DEF Orderly
  <1>17. Waits'
    <2>1. PICK new : saves' = saves \cup {new} /\ new.by = c
      <3> DEFINE new == [by |-> c, owner |-> u, data |-> Snapshot(tasks', u), opened |-> FALSE]
      <3>1. saves' = saves \cup {new} /\ new.by = c BY <1>5 DEF Remove, Save
      <3> HIDE DEF new
      <3> QED BY <3>1
    <2> QED BY <1>5, <1>8, <1>10, <2>1, WaitsBegun DEF OInv
  <1> QED BY <1>11, <1>12, <1>14, <1>15, <1>16, <1>17 DEF OInv

(* A job runs: for a user without disorder it has its task. *)
LEMMA TriggerOrder ==
    ASSUME SInv, SInv', OInv, NEW j \in armed, Trigger(j), owner' = owner
    PROVE  OInv'
  <1>1. /\ j \in Jobs /\ j \notin Loaders /\ armed \subseteq Jobs
        /\ owner \in [Calls -> Owners] /\ fired \in [Calls -> Nat] /\ tasks \in SUBSET Calls
        /\ \A r, s \in tasks : id[r] = id[s] => r = s
        BY ScheduleAssumption DEF SInv, TypeOK, Jobs, Loaders
  <1>2. PICK t \in Calls : t = Task(j) BY <1>1 DEF Jobs, Task
  <1>3. PICK u \in Owners : u = owner[t] BY <1>1
  <1>4. PICK i : i = id[t] OBVIOUS
  <1>5. /\ t \in due /\ fired' = [fired EXCEPT ![t] = @ + 1]
        /\ UNCHANGED <<pc, got, file, id, due, futile, cancels>>
        /\ \/ /\ Entry(u, i) = {} /\ armed' = armed \ {j}
              /\ UNCHANGED <<tasks, jobs, saves, spoilt>>
           \/ Entry(u, i) # {} /\ Remove(j, u, i)
        BY <1>2, <1>3, <1>4 DEF Trigger, times
  <1>6. fired'[t] = fired[t] + 1 /\ \A s \in Calls \ {t} : fired'[s] = fired[s]
        BY <1>1, <1>5
  <1>7. Serving'
    <2>1. \A w \in saves' : \/ w.by \in Loaders => User(w.by) = w.owner
                            \/ \E v \in saves : v.by = w.by /\ v.owner = w.owner
      <3>1. CASE saves' = saves BY <3>1
      <3>2. CASE Remove(j, u, i)
        <4>1. saves' = saves \cup {[by |-> j, owner |-> u, data |-> Snapshot(tasks', u),
                                    opened |-> FALSE]}
              BY <3>2 DEF Remove, Save
        <4> QED BY <1>1, <4>1
      <3> QED BY <1>5, <3>1, <3>2
    <2> QED BY <1>5, <2>1, ServingStays DEF OInv, SInv
  <1>8. Ledger' BY <1>5, LedgerStays DEF OInv, SInv, IdsStay
  <1>9. spoilt \subseteq spoilt' BY <1>5 DEF Remove
  <1>10. Distinct' BY <1>5, <1>9, DistinctStays DEF OInv
  <1>11. ASSUME NEW v \in Owners, v \notin spoilt', v # u PROVE Orderly(v)'
    <2>1. Orderly(v) BY <1>9, <1>11 DEF OInv
    <2>2. /\ Listed(v)' = Listed(v) /\ Writes(v)' = Writes(v)
          /\ \A k \in armed' : owner[Task(k)] = v => k \in armed /\ k \in jobs'
      <3>1. CASE Remove(j, u, i)
        <4>1. Fires(v) /\ UNCHANGED <<id, futile>> BY <1>5, <2>1 DEF Orderly
        <4>2. /\ Listed(v)' = Listed(v) \ Entry(u, i)
              /\ \A k \in armed' : owner[Task(k)] = v =>
                    k \in armed /\ k \in jobs' /\ Task(k) \in tasks'
              BY <3>1, <4>1, RemoveOrder
        <4>3. Writes(v)' = Writes(v) /\ Listed(v) \ Entry(u, i) = Listed(v)
              BY <1>11, <3>1, RemoveElsewhere
        <4> QED BY <4>2, <4>3
      <3>2. CASE armed' = armed \ {j} /\ UNCHANGED <<tasks, jobs, saves, spoilt>>
            BY <2>1, <3>2 DEF Listed, Writes, Orderly, Fires
      <3> QED BY <1>5, <3>1, <3>2
    <2>3. \A s \in Calls : owner[s] = v => fired'[s] = fired[s] BY <1>3, <1>6, <1>11
    <2>4. Unmoved(v) BY <1>5, <2>2, <2>3 DEF Unmoved
    <2> QED BY <1>8, <2>1, <2>4, UnmovedStays DEF OInv, SInv
  <1>12. ASSUME u \notin spoilt' PROVE Orderly(u)'
    <2>1. Orderly(u) BY <1>9, <1>12 DEF OInv
    <2>2. t \in tasks /\ t \in Listed(u) BY <1>2, <1>3, <2>1 DEF Orderly, Fires, Listed
    <2>3. Entry(u, i) = {t} BY <1>1, <1>3, <1>4, <2>2 DEF Entry
    <2>4. Remove(j, u, i) BY <1>5, <2>3
    <2>5. Up(u) /\ Up(u)' BY <1>5, <2>1, <2>2 DEF Orderly, Image, Up
    <2>6. Readers(u)' \subseteq Readers(u) /\ j \notin Readers(u)
          BY <1>1, <1>5 DEF Readers, User
    <2>7. Alone(u)' /\ Image(u)' /\ Writes(u) = {}
          BY <1>5, <1>12, <2>4, <2>5, <2>6, RemoveFiles
    <2>8. /\ Listed(u)' = Listed(u) \ {t}
          /\ \A k \in armed' : owner[Task(k)] = u => k \in jobs' /\ Task(k) \in tasks'
          BY <1>5, <2>1, <2>3, <2>4, RemoveOrder DEF Orderly
    <2>9. \A s \in Calls : owner[s] = u => (s \in tasks' <=> s \in tasks /\ s # t)
          BY <2>8 DEF Listed
    <2>10. fired[t] = 0 BY <1>3, <2>1, <2>2 DEF Orderly, Fires
    <2>11. Fires(u)'
      <3>1. \A s \in Calls : owner[s] = u =>
               fired'[s] <= 1 /\ (fired'[s] # 0 => s \in due' /\ s \notin tasks')
        <4>1. fired'[t] = 1 BY <1>6, <2>10
        <4> QED BY <1>5, <1>6, <2>1, <2>9, <4>1 DEF Orderly, Fires
      <3> QED BY <2>8, <3>1 DEF Fires
    <2>12. Gone(u)' BY <1>5, <2>1, <2>9 DEF Orderly, Gone
    <2>13. Stays(u)'
      <3>1. \A s \in Calls : Wanted(s)' => Wanted(s) /\ s # t
            BY <1>5 DEF Wanted, Repeats, OInv, Ledger
      <3> QED BY <1>5, <2>1, <2>5, <2>7, <2>9, <3>1 DEF Orderly, Stays
    <2> QED BY <2>7, <2>11, <2>12, <2>13 DEF Orderly
  <1>13. Waits'
    <2>1. CASE saves' = saves BY <1>5, <2>1, WaitsStays DEF OInv
    <2>2. CASE Remove(j, u, i)
      <3>1. PICK new : saves' = saves \cup {new} /\ new.by = j
        <4> DEFINE new == [by |-> j, owner |-> u, data |-> Snapshot(tasks', u), opened |-> FALSE]
        <4>1. saves' = saves \cup {new} /\ new.by = j BY <2>2 DEF Remove, Save
        <4> HIDE DEF new
        <4> QED BY <4>1
      <3>2. j \notin Calls BY <1>1 DEF Loaders
      <3> QED BY <1>5, <3>1, <3>2, WaitsBegun DEF OInv
    <2> QED BY <1>5, <2>1, <2>2
  <1> QED BY <1>7, <1>8, <1>10, <1>11, <1>12, <1>13 DEF OInv

(* A file is emptied for a write. *)
LEMMA OpenOrder ==
    ASSUME SInv, SInv', OInv, NEW w \in saves, SaveOpens(w), owner' = owner
    PROVE  OInv'
  <1> DEFINE o == [w EXCEPT !.opened = TRUE]
  <1>1. /\ saves' = (saves \ {w}) \cup {o} /\ file' = [file EXCEPT ![w.owner] = {}]
        /\ UNCHANGED <<pc, got, tasks, jobs, armed, id, due, futile, fired, cancels, spoilt>>
        BY DEF SaveOpens, memory, times
  <1>2. PICK u \in Owners : u = w.owner BY DEF SInv, TypeOK
  <1>3. o.by = w.by /\ o.owner = u /\ o.data = w.data /\ o.opened
        BY <1>2 DEF SInv, TypeOK
  <1> HIDE DEF o
  <1>4. file'[u] = {} /\ \A v \in Owners \ {u} : file'[v] = file[v]
        BY <1>1, <1>2 DEF SInv, TypeOK
  <1>5. Serving'
    <2>1. \A x \in saves' : \E v \in saves : v.by = x.by /\ v.owner = x.owner
          BY <1>1, <1>2, <1>3
    <2> QED BY <1>1, <2>1, ServingStays DEF OInv, SInv
  <1>6. Ledger' BY <1>1, LedgerStays DEF OInv, SInv, IdsStay
  <1>7. Distinct' BY <1>1, DistinctStays DEF OInv
  <1>8. ASSUME NEW v \in Owners, v \notin spoilt', v # u PROVE Orderly(v)'
    <2>1. Writes(v)' = Writes(v) BY <1>1, <1>2, <1>3, <1>8 DEF Writes
    <2>2. Unmoved(v) BY <1>1, <1>4, <1>8, <2>1 DEF Unmoved, Listed
    <2> QED BY <1>1, <1>6, <1>8, <2>2, UnmovedStays DEF OInv, SInv
  <1>9. ASSUME u \notin spoilt' PROVE Orderly(u)'
    <2>1. Orderly(u) BY <1>1, <1>9 DEF OInv
    <2>2. w \in Writes(u) BY <1>2 DEF Writes
    <2>3. Writes(u) = {w} /\ Readers(u) = {} BY <2>1, <2>2 DEF Orderly, Alone
    <2>4. Up(u)
      <3>1. pc[u] # "waiting" BY <2>1, <2>3 DEF Orderly, Image
      <3>2. pc[u] # "parse" BY <2>3 DEF Readers, Loaders, User
      <3> QED BY <3>1, <3>2 DEF Up
    <2>5. Writes(u)' = {o}
      <3>1. \A x \in saves : x # w => x.owner # u BY <2>3 DEF Writes
      <3> QED BY <1>1, <1>3, <3>1 DEF Writes
    <2>6. Readers(u)' = {} /\ Listed(u)' = Listed(u) /\ Up(u)'
          BY <1>1, <2>3, <2>4 DEF Readers, User, Listed, Up
    <2>7. o.data = Listed(u) BY <1>3, <2>1, <2>3, <2>4 DEF Orderly, Image
    <2>8. Alone(u)' /\ Image(u)'
          BY <1>4, <2>5, <2>6, <2>7 DEF Alone, Image, Up
    <2>9. Fires(u)' BY <1>1, <2>1 DEF Orderly, Fires
    <2>10. Gone(u)' BY <1>1, <1>4, <2>1 DEF Orderly, Gone
    <2>11. Stays(u)'
      <3>1. \A s \in Calls : Wanted(s)' => Wanted(s) BY <1>1 DEF Wanted, Repeats
      <3> QED BY <1>1, <1>3, <2>1, <2>4, <2>5, <3>1 DEF Orderly, Stays
    <2> QED BY <2>8, <2>9, <2>10, <2>11 DEF Orderly
  <1>10. Waits' BY <1>1, <1>3 DEF OInv, Waits
  <1> QED BY <1>5, <1>6, <1>7, <1>8, <1>9, <1>10 DEF OInv

(* A write lands: nobody has written since it opened the file. *)
LEMMA WriteOrder ==
    ASSUME SInv, SInv', OInv, NEW w \in saves, SaveWrites(w), owner' = owner
    PROVE  OInv'
  <1>1. PICK u \in Owners : u = w.owner BY DEF SInv, TypeOK
  <1>2. PICK X \in Overwritten(file[u], w.data) : file' = [file EXCEPT ![u] = X]
        BY <1>1 DEF SaveWrites
  <1>3. /\ w.opened /\ saves' = saves \ {w}
        /\ pc' = [p \in Loaders |-> IF p # w.by THEN pc[p]
                                    ELSE IF p \in Calls /\ pc[p] = "drop" THEN "dropped"
                                    ELSE "done"]
        /\ UNCHANGED <<got, tasks, jobs, armed, id, due, futile, fired, cancels, spoilt>>
        BY DEF SaveWrites, memory, times
  <1>4. file'[u] = X /\ \A v \in Owners \ {u} : file'[v] = file[v]
        BY <1>2 DEF SInv, TypeOK
  <1>5. /\ \A d \in Calls : d \in Loaders /\ d \notin Owners /\ User(d) = owner[d]
        /\ \A v \in Owners : v \in Loaders /\ v \notin Calls /\ User(v) = v
        BY ScheduleAssumption DEF Loaders, User
  <1>6. /\ \A p \in Loaders : p # w.by => pc'[p] = pc[p]
        /\ w.by \in Loaders => pc'[w.by] \in {"dropped", "done"}
        /\ w.by \in Owners => pc'[w.by] = "done"
        /\ w.by \in Calls /\ pc'[w.by] = "dropped" => pc[w.by] = "drop"
        BY <1>3, <1>5
  <1>7. w.by \in Loaders => User(w.by) = u BY <1>1 DEF OInv, Serving
  <1>8. Serving'
    <2>1. \A v \in Owners : pc[v] = "done" => pc'[v] = "done" BY <1>5, <1>6
    <2>2. \A d \in Calls : pc'[d] \in Busy => pc[d] \in Busy BY <1>5, <1>6 DEF Busy
    <2>3. \A x \in saves' : \E v \in saves : v.by = x.by /\ v.owner = x.owner BY <1>3
    <2> QED BY <2>1, <2>2, <2>3, ServingStays DEF OInv, SInv
  <1>9. Ledger'
    <2>1. \A d \in Calls : pc'[d] \in Early => pc[d] \in Early
          BY <1>5, <1>6 DEF Early
    <2> QED BY <1>3, <2>1, LedgerStays DEF OInv, SInv, IdsStay
  <1>10. Distinct' BY <1>3, DistinctStays DEF OInv
  <1>11. ASSUME NEW v \in Owners, v \notin spoilt', v # u PROVE Orderly(v)'
    <2>1. Writes(v)' = Writes(v) BY <1>1, <1>3, <1>11 DEF Writes
    <2>2. pc'[v] = pc[v] /\ \A d \in Calls : owner[d] = v => pc'[d] = pc[d]
          BY <1>5, <1>6, <1>7, <1>11
    <2>3. Unmoved(v) BY <1>3, <1>4, <1>11, <2>1, <2>2 DEF Unmoved, Listed
    <2> QED BY <1>3, <1>9, <1>11, <2>3, UnmovedStays DEF OInv, SInv
  <1>12. ASSUME u \notin spoilt' PROVE Orderly(u)'
    <2>1. Orderly(u) BY <1>3, <1>12 DEF OInv
    <2>2. w \in Writes(u) BY <1>1 DEF Writes
    <2>3. Writes(u) = {w} /\ Readers(u) = {} BY <2>1, <2>2 DEF Orderly, Alone
    <2>4. Up(u)
      <3>1. pc[u] # "waiting" BY <2>1, <2>3 DEF Orderly, Image
      <3>2. pc[u] # "parse" BY <1>5, <2>3 DEF Readers
      <3> QED BY <3>1, <3>2 DEF Up
    <2>5. w.data = Listed(u) /\ file[u] = {}
          BY <1>3, <2>1, <2>3, <2>4 DEF Orderly, Image
    <2>6. X = Listed(u) BY <2>5 DEF Overwritten, Torn
    <2>7. Writes(u)' = {}
      <3>1. \A x \in saves : x # w => x.owner # u BY <2>3 DEF Writes
      <3> QED BY <1>3, <3>1 DEF Writes
    <2>8. Readers(u)' = {} BY <1>5, <1>6, <2>3 DEF Readers, User
    <2>9. Listed(u)' = Listed(u) /\ Garbage \notin Listed(u)
          BY <1>3, ScheduleAssumption DEF Listed, SInv, TypeOK
    <2>10. Up(u)' BY <1>5, <1>6, <2>4 DEF Up
    <2>11. Alone(u)' /\ Image(u)'
           BY <1>4, <2>6, <2>7, <2>8, <2>9, <2>10 DEF Alone, Image, Up
    <2>12. Fires(u)' BY <1>3, <2>1 DEF Orderly, Fires
    <2>13. w.by \in Calls => \/ pc[w.by] = "drop" /\ pc'[w.by] = "dropped"
                             \/ pc[w.by] = "save" /\ pc'[w.by] = "done"
      <3>1. w.by \in Calls => pc[w.by] \in {"drop", "save"} BY DEF OInv, Waits
      <3> QED BY <1>3, <1>5, <3>1
    <2>14. \A c \in Calls : pc'[c] \in {"save", "done"} => pc[c] \in {"save", "done"}
           BY <1>5, <1>6, <2>13
    <2>15. X \subseteq tasks BY <2>6 DEF Listed
    <2>16. Gone(u)' BY <1>3, <1>4, <2>1, <2>14, <2>15 DEF Orderly, Gone
    <2>17. Stays(u)'
      <3>1. \A s \in Calls : Wanted(s)' => Wanted(s) BY <1>3 DEF Wanted, Repeats
      <3>2. \A s \in Calls : owner[s] = u /\ s \in tasks => s \in X BY <2>6 DEF Listed
      <3> QED BY <1>3, <1>4, <2>1, <2>4, <2>14, <3>1, <3>2 DEF Orderly, Stays
    <2> QED BY <2>11, <2>12, <2>16, <2>17 DEF Orderly
  <1>13. Waits'
    <2>1. \A c \in Calls \ {w.by} : pc'[c] = pc[c] BY <1>5, <1>6
    <2> QED BY <1>3, <2>1, WaitsEnded DEF OInv
  <1> QED BY <1>8, <1>9, <1>10, <1>11, <1>12, <1>13 DEF OInv

(* A write fails, which spoils its user; at boot, those who are never loaded as well. *)
LEMMA FailOrder ==
    ASSUME SInv, SInv', OInv, NEW w \in saves, SaveFails(w), owner' = owner
    PROVE  OInv'
  <1>1. PICK u \in Owners : u = w.owner BY DEF SInv, TypeOK
  <1> DEFINE unloaded == IF w.by \in Owners THEN {v \in Owners : pc[v] = "waiting"} ELSE {}
  <1>2. /\ saves' = saves \ {w}
        /\ pc' = [p \in Loaders |-> IF p \in unloaded \/ (p = w.by /\ p \in Owners) THEN "done"
                                    ELSE IF p = w.by THEN "failed"
                                    ELSE pc[p]]
        /\ spoilt' = spoilt \cup unloaded \cup {u}
        /\ UNCHANGED <<got, tasks, jobs, armed, file, id, due, futile, fired, cancels>>
        BY <1>1 DEF SaveFails, memory, times
  <1>3. /\ \A d \in Calls : d \in Loaders /\ d \notin Owners /\ User(d) = owner[d]
        /\ \A v \in Owners : v \in Loaders /\ v \notin Calls /\ User(v) = v
        BY ScheduleAssumption DEF Loaders, User
  <1>4. unloaded \subseteq Owners OBVIOUS
  <1> HIDE DEF unloaded
  <1>5. /\ \A p \in Loaders : p # w.by /\ p \notin unloaded => pc'[p] = pc[p]
        /\ \A v \in Owners : pc'[v] \in {pc[v], "done"}
        /\ w.by \in Calls => pc'[w.by] = "failed"
        BY <1>2, <1>3, <1>4
  <1>6. \A c \in Calls \ {w.by} : pc'[c] = pc[c] BY <1>3, <1>4, <1>5
  <1>7. w.by \in Loaders => User(w.by) = u BY <1>1 DEF OInv, Serving
  <1>8. Serving'
    <2>1. \A v \in Owners : pc[v] = "done" => pc'[v] = "done" BY <1>5
    <2>2. \A d \in Calls : pc'[d] \in Busy => pc[d] \in Busy BY <1>5, <1>6 DEF Busy
    <2>3. \A x \in saves' : \E v \in saves : v.by = x.by /\ v.owner = x.owner BY <1>2
    <2> QED BY <2>1, <2>2, <2>3, ServingStays DEF OInv, SInv
  <1>9. Waits' BY <1>2, <1>6, WaitsEnded DEF OInv
  <1>10. Ledger'
    <2>1. \A d \in Calls : pc'[d] \in Early => pc[d] \in Early BY <1>5, <1>6 DEF Early
    <2> QED BY <1>2, <2>1, LedgerStays DEF OInv, SInv, IdsStay
  <1>11. Distinct' BY <1>2, DistinctStays DEF OInv
  <1>12. ASSUME NEW v \in Owners, v \notin spoilt' PROVE Orderly(v)'
    <2>1. v # u /\ v \notin unloaded /\ Orderly(v) BY <1>2, <1>12 DEF OInv
    <2>2. Writes(v)' = Writes(v) BY <1>1, <1>2, <2>1 DEF Writes
    <2>3. pc'[v] = pc[v] BY <1>3, <1>5, <1>7, <2>1
    <2>4. \A d \in Calls : owner[d] = v => pc'[d] = pc[d] BY <1>3, <1>6, <1>7, <2>1
    <2>5. Unmoved(v) BY <1>2, <2>2, <2>3, <2>4 DEF Unmoved, Listed
    <2> QED BY <1>10, <2>1, <2>5, UnmovedStays DEF SInv, OInv
  <1> QED BY <1>8, <1>9, <1>10, <1>11, <1>12 DEF OInv

(* Steps that change only what is past. *)
LEMMA TimeOrder ==
    ASSUME SInv, OInv, owner' = owner,
           UNCHANGED <<pc, got, tasks, jobs, armed, file, saves, id, futile, fired, cancels,
                       spoilt>>,
           due \subseteq due', \A t \in due' : id[t] # None /\ ~Repeats(t)
    PROVE  OInv'
  <1>1. Serving' BY ServingStays DEF OInv, SInv
  <1>2. Waits' BY WaitsStays DEF OInv
  <1>3. Ledger' BY DEF OInv, Ledger, Repeats
  <1>4. Distinct' BY DistinctStays DEF OInv
  <1>5. ASSUME NEW v \in Owners, v \notin spoilt' PROVE Orderly(v)'
    <2>1. Orderly(v) BY <1>5 DEF OInv
    <2>2. /\ Readers(v)' = Readers(v) /\ Writes(v)' = Writes(v) /\ Listed(v)' = Listed(v)
          BY ReadersStay DEF Writes, Listed
    <2>3. Alone(v)' /\ Image(v)' BY <2>1, <2>2 DEF Orderly, Alone, Image, Up
    <2>4. Fires(v)' /\ Gone(v)' BY <2>1 DEF Orderly, Fires, Gone
    <2>5. \A t \in Calls : Wanted(t)' => Wanted(t) BY DEF Wanted, Repeats
    <2>6. Stays(v)' BY <2>1, <2>2, <2>5 DEF Orderly, Stays, Up
    <2> QED BY <2>3, <2>4, <2>6 DEF Orderly
  <1> QED BY <1>1, <1>2, <1>3, <1>4, <1>5 DEF OInv

(* The process dies: what was being written is lost with it, or spoils its user. *)
LEMMA RestartOrder ==
    ASSUME SInv, SInv', OInv, Restart, owner' = owner
    PROVE  OInv'
  <1>1. /\ pc' = [p \in Loaders |-> IF p \in Owners THEN "waiting"
                                    ELSE IF pc[p] \in {"idle", "done"} THEN pc[p]
                                    ELSE "failed"]
        /\ tasks' = {} /\ armed' = {} /\ saves' = {}
        /\ spoilt' = spoilt \cup {w.owner : w \in {v \in saves : v.opened}}
        /\ UNCHANGED <<file, id, due, futile, fired, cancels>>
        BY DEF Restart, times
  <1>2. \A v \in Owners : v \in Loaders /\ pc'[v] = "waiting"
        BY <1>1 DEF Loaders
  <1>3. \A c \in Calls : /\ pc'[c] \in {"idle", "done", "failed"}
                         /\ pc'[c] \in {"idle", "done"} => pc[c] = pc'[c]
        BY <1>1, ScheduleAssumption DEF Loaders
  <1>4. Serving' /\ Waits' BY <1>1, <1>3 DEF Serving, Waits
  <1>5. Ledger'
    <2>1. \A d \in Calls : pc'[d] \in Early => pc[d] \in Early BY <1>3 DEF Early
    <2> QED BY <1>1, <2>1, LedgerStays DEF OInv, SInv, IdsStay
  <1>6. Distinct' BY <1>1, DistinctStays DEF OInv
  <1>7. ASSUME NEW v \in Owners, v \notin spoilt' PROVE Orderly(v)'
    <2>1. Orderly(v) /\ \A w \in Writes(v) : ~w.opened BY <1>1, <1>7 DEF OInv, Writes
    <2>2. Listed(v)' = {} /\ Writes(v)' = {} BY <1>1 DEF Listed, Writes
    <2>3. Readers(v)' = {} BY <1>2, <1>3 DEF Readers, Loaders
    <2>4. Alone(v)' /\ Image(v)'
          BY <1>1, <1>2, <2>1, <2>2, <2>3 DEF Orderly, Alone, Image, Up
    <2>5. Fires(v)' BY <1>1, <2>1 DEF Orderly, Fires
    <2>6. Gone(v)' BY <1>1, <1>3, <2>1 DEF Orderly, Gone
    <2>7. Stays(v)'
      <3>1. \A t \in Calls : Wanted(t)' => Wanted(t) BY <1>1 DEF Wanted, Repeats
      <3> QED BY <1>1, <1>2, <1>3, <2>1, <3>1 DEF Orderly, Stays, Up
    <2> QED BY <2>4, <2>5, <2>6, <2>7 DEF Orderly
  <1> QED BY <1>4, <1>5, <1>6, <1>7 DEF OInv

(* At the start the files are empty. *)
LEMMA InitOrder == Init => OInv
  <1> SUFFICES ASSUME Init PROVE OInv OBVIOUS
  <1> USE ScheduleAssumption DEF Init
  <1>1. \A c \in Calls : c \in Loaders /\ c \notin Owners /\ pc[c] = "idle" BY DEF Loaders
  <1>2. \A v \in Owners : v \in Loaders /\ pc[v] = "waiting" BY DEF Loaders
  <1>3. Serving /\ Waits /\ Ledger /\ Distinct
        BY <1>1 DEF Serving, Waits, Ledger, Distinct
  <1>4. ASSUME NEW v \in Owners PROVE Orderly(v)
    <2>1. Listed(v) = {} /\ Writes(v) = {} /\ Readers(v) = {}
          BY <1>1, <1>2 DEF Listed, Writes, Readers, Loaders
    <2>2. Alone(v) /\ Image(v) BY <1>2, <2>1 DEF Alone, Image, Up
    <2>3. Fires(v) /\ Gone(v) BY DEF Fires, Gone
    <2>4. Stays(v) BY DEF Stays, Wanted
    <2> QED BY <2>2, <2>3, <2>4 DEF Orderly
  <1> QED BY <1>3, <1>4 DEF OInv

(***************************************************************************)
(* The second invariant: what holds for users without disorder, and of     *)
(* calls and identifiers as far as that rests on it.                       *)
(***************************************************************************)
THEOREM Order == Spec => []OInv
  <1>1. ASSUME SInv, SInv', OInv, [Next]_vars PROVE OInv'
    <2>1. CASE UNCHANGED vars
      <3>1. \A t \in due' : id[t] # None /\ ~Repeats(t) BY <1>1, <2>1 DEF vars, OInv, Ledger
      <3> QED BY <1>1, <2>1, <3>1, TimeOrder DEF vars
    <2>2. CASE Next
      <3>1. owner' = owner BY <2>2 DEF Next
      <3>2. ASSUME NEW t \in Calls, TimeComes(t) PROVE OInv'
        <4>1. /\ UNCHANGED <<pc, got, tasks, jobs, armed, file, saves, id, futile, fired,
                             cancels, spoilt>>
              /\ due' = due \cup {t} /\ id[t] # None /\ ~Repeats(t)
              BY <3>2 DEF TimeComes, memory
        <4>2. \A s \in due' : id[s] # None /\ ~Repeats(s) BY <1>1, <4>1 DEF OInv, Ledger
        <4> QED BY <1>1, <3>1, <4>1, <4>2, TimeOrder
      <3>3. ASSUME NEW c \in Calls,
                   \/ \E kind \in Kinds : add(c, kind)
                   \/ addTimer(c) \/ cancelTask(c) \/ AddAfterDrop(c) \/ TimeComes(c)
            PROVE  OInv'
            BY <1>1, <3>1, <3>2, <3>3, AddsOrder, AddTimerOrder, CancelOrder
      <3>4. ASSUME NEW p \in Loaders, Read(p) \/ Parse(p) \/ ParseDropping(p)
            PROVE  OInv'
            BY <1>1, <3>1, <3>4, ReadOrder, AddsOrder, ParseOrder, ParseDropOrder DEF Loaders
      <3>5. ASSUME NEW w \in saves, SaveOpens(w) \/ SaveWrites(w) \/ SaveFails(w)
            PROVE  OInv'
            BY <1>1, <3>1, <3>5, OpenOrder, WriteOrder, FailOrder
      <3>6. ASSUME NEW j \in armed, Trigger(j) PROVE OInv' BY <1>1, <3>1, <3>6, TriggerOrder
      <3>7. ASSUME Restart PROVE OInv' BY <1>1, <3>1, <3>7, RestartOrder
      <3> QED BY <2>2, <3>3, <3>4, <3>5, <3>6, <3>7 DEF Next
    <2> QED BY <1>1, <2>1, <2>2
  <1> QED BY <1>1, InitOrder, Invariance, PTL DEF Spec

(* At rest the file of a user without disorder is what the user is shown. *)
THEOREM Images == Spec => []FileIsImage
  <1>1. SInv /\ OInv => FileIsImage
    <2> SUFFICES ASSUME SInv, OInv, NEW u \in Owners \ spoilt, AtRest(u)
                 PROVE  file[u] = Listed(u)
        BY DEF FileIsImage
    <2>1. pc[u] = "done" /\ Writes(u) = {} BY DEF AtRest, Ready, Writes
    <2> QED BY <2>1 DEF OInv, Orderly, Image, Up
  <1> QED BY <1>1, Invariance, Order, PTL

(* A timer or reminder is triggered once at most, in all lives of the process together. *)
THEOREM TriggersOnce == Spec => []TriggeredOnce
  <1>1. SInv /\ OInv => TriggeredOnce
    <2> SUFFICES ASSUME SInv, OInv, NEW t \in Calls, owner[t] \notin spoilt
                 PROVE  fired[t] <= 1
        BY DEF TriggeredOnce
    <2>1. owner[t] \in Owners BY DEF SInv, TypeOK
    <2> QED BY <2>1 DEF OInv, Orderly, Fires
  <1> QED BY <1>1, Invariance, Order, PTL

(* What was cancelled is not listed, not armed and not stored, after any restart. *)
THEOREM CancelledForGood == Spec => []CancelledIsGone
  <1>1. SInv /\ OInv => CancelledIsGone
    <2> SUFFICES ASSUME SInv, OInv, NEW c \in Calls, NEW t \in Calls,
                        cancels[c] = t, pc[c] = "done", owner[t] \notin spoilt
                 PROVE  /\ t \notin tasks
                        /\ \A j \in armed : Task(j) # t
                        /\ t \notin file[owner[t]]
        BY DEF CancelledIsGone
    <2>1. owner[t] \in Owners BY DEF SInv, TypeOK
    <2> QED BY <2>1 DEF OInv, Orderly, Gone, Fires
  <1> QED BY <1>1, Invariance, Order, PTL

(* What was added is listed until it is cancelled or its time has come. *)
THEOREM AddedForGood == Spec => []AddedIsKept
  <1>1. SInv /\ OInv => AddedIsKept
    <2> SUFFICES ASSUME SInv, OInv, NEW t \in Calls, Wanted(t), pc[t] = "done",
                        owner[t] \notin spoilt, Ready
                 PROVE  t \in tasks
        BY DEF AddedIsKept, Wanted
    <2>1. owner[t] \in Owners BY DEF SInv, TypeOK
    <2>2. Up(owner[t]) BY <2>1 DEF Ready, Up
    <2> QED BY <2>1, <2>2 DEF OInv, Orderly, Stays
  <1> QED BY <1>1, Invariance, Order, PTL
=============================================================================
