--------------------------- MODULE ScheduleService ---------------------------
(***************************************************************************)
(* Timers, reminders and recurring tasks: a map of tasks and a map of jobs *)
(* in memory, and a file per user (scheduleService.js).  Every change of a *)
(* user's tasks rewrites that user's file from a snapshot taken at once;   *)
(* nothing orders the writes.  After a restart the files are all there is. *)
(*                                                                         *)
(* An action is the code between two awaits.  What the thread pool does to *)
(* a file happens at some moment in between: writeFile() first empties the *)
(* file and then writes it, readFile() sees it as it is at that moment.    *)
(*                                                                         *)
(* A task is named by the call that adds it.  The identifier the code uses *)
(* is its kind and Date.now(): calls that happen in the same millisecond   *)
(* add tasks with the same identifier, whoever makes them.                 *)
(*                                                                         *)
(* A definition headed "Slip" is not part of the specification: it is the  *)
(* definition below it with a plausible mistake.                           *)
(***************************************************************************)
EXTENDS Integers, FiniteSets

CONSTANTS
    Calls,        \* invocations of the service's operations
    Owners,       \* users
    Kinds,        \* kinds of tasks they add
    None,         \* undefined
    Garbage,      \* what a file holds that is no JSON
    MaxRestarts,  \* bound: deaths of the process
    MaxFailures   \* bound: writes that fail

AllKinds == {"timer", "reminder", "recurring"}

ASSUME ScheduleAssumption == /\ IsFiniteSet(Calls)
                             /\ Kinds \subseteq AllKinds
                             /\ Calls \cap Owners = {}
                             /\ (Calls \cup Owners) \cap ((Calls \cup Owners) \X Calls) = {}
                             /\ Garbage \notin Calls
                             /\ None \notin Calls \cup (AllKinds \X Nat)
                             /\ MaxRestarts \in Nat /\ MaxFailures \in Nat

VARIABLES
    owner,      \* who makes each call, which is settled before it
    pc,         \* where each call is, and the loading of each user's file at boot
    got,        \* what each of them has read
    tasks,      \* the map tasks
    jobs,       \* the map jobs; a job is who scheduled it and its task
    armed,      \* jobs that node-schedule will run
    file,       \* schedule.json of each user: its tasks; a file that is missing or
                \* empty is loaded, and written over, like one of no tasks
    saves,      \* writes under way
    id,         \* the identifier of each task
    due,        \* tasks whose time has come
    futile,     \* tasks that node-schedule takes no job for: timers of no duration, and
                \* what is no cron expression; nobody checks either
    restarts, failures,
    fired,      \* history: how often each task was triggered
    cancels,    \* history: the task that each call has cancelled
    spoilt      \* history: see Spoils

memory  == <<tasks, jobs, armed>>
times   == <<id, due, futile>>
vars    == <<owner, pc, got, tasks, jobs, armed, file, saves, id, due, futile,
             restarts, failures, fired, cancels, spoilt>>

Torn == {Garbage}

Loaders == Calls \cup Owners
User(p) == IF p \in Owners THEN p ELSE owner[p]

Repeats(t) == id[t][1] = "recurring"

Listed(u) == {t \in tasks : owner[t] = u}

Init ==
    /\ owner \in [Calls -> Owners]
    /\ pc = [p \in Loaders |-> IF p \in Owners THEN "waiting" ELSE "idle"]
    /\ got = [p \in Loaders |-> {}]
    /\ tasks = {} /\ jobs = {} /\ armed = {}
    /\ file = [u \in Owners |-> {}]
    /\ saves = {}
    /\ id = [c \in Calls |-> None]
    /\ due = {} /\ futile = {}
    /\ restarts = 0 /\ failures = 0
    /\ fired = [c \in Calls |-> 0]
    /\ cancels = [c \in Calls |-> None]
    /\ spoilt = {}

-----------------------------------------------------------------------------
(* Helpers *)

(***************************************************************************)
(* When p accesses the file of u while somebody else does, the order of    *)
(* the two accesses is not known, and u counts as spoilt from then on; so  *)
(* do users whose write fails or is cut in two by the death of the process,*)
(* and users whose tasks have got the same identifier.                     *)
(***************************************************************************)
Spoils(p, u) ==
    IF \/ \E w \in saves : w.owner = u
       \/ \E q \in Loaders \ {p} : User(q) = u /\ pc[q] \in {"read", "parse"}
    THEN {u} ELSE {}

\* Slip: everybody's tasks.
SnapshotOfAll(S, u) == S

\* Slip: what the map held before the change.
SnapshotBefore(S, u) == {t \in tasks : owner[t] = u}

Snapshot(S, u) == {t \in S : owner[t] = u}

(* _saveOwnerTasks(u), called by p when tasks has got its new value. *)
Save(p, u) ==
    saves' = saves \cup {[by |-> p, owner |-> u, data |-> Snapshot(tasks', u), opened |-> FALSE]}

\* Slip: a list instead of a map.
AllOf(S, T) == S \cup T

(* The entries S of a map and then T, which replaces entries of the same identifier. *)
Put(S, T) == {s \in S : \A t \in T : id'[t] # id'[s]} \cup T

Job(p, t) == <<p, t>>
Task(j)   == j[2]

\* Slip: what is loaded is not scheduled, as is the default of _loadOwnerTasks().
EnterUnscheduled(p, T) ==
    LET S   == (T \cap {p}) \ futile'
        new == {Job(p, t) : t \in S}
    IN
    /\ tasks' = Put(tasks, T)
    /\ jobs' = {j \in jobs : \A t \in S : id'[t] # id'[Task(j)]} \cup new
    /\ armed' = armed \cup new

(* p enters the tasks T and schedules a job for each that is not futile. *)
Enter(p, T) ==
    LET S   == T \ futile'
        new == {Job(p, t) : t \in S}
    IN
    /\ tasks' = Put(tasks, T)
    /\ jobs' = {j \in jobs : \A t \in S : id'[t] # id'[Task(j)]} \cup new
    /\ armed' = armed \cup new

(* cancelTask(u, i) up to its await: the task with identifier i, if it is one of u. *)
Entry(u, i) == {t \in tasks : owner[t] = u /\ id[t] = i}

\* Slip: the job is only forgotten.
ForgetJob(p, u, i) ==
    /\ tasks' = tasks \ Entry(u, i)
    /\ jobs' = {j \in jobs : id[Task(j)] # i}
    /\ armed' = armed \ {p}
    /\ Save(p, u)
    /\ spoilt' = spoilt \cup Spoils(p, u)

Remove(p, u, i) ==
    /\ tasks' = tasks \ Entry(u, i)
    /\ jobs' = {j \in jobs : id[Task(j)] # i}
    /\ armed' = armed \ ({p} \cup {j \in jobs : id[Task(j)] = i})
    /\ Save(p, u)
    /\ spoilt' = spoilt \cup Spoils(p, u)

(***************************************************************************)
(* Date.now(), as far as it tells identifiers apart: it is at the last one *)
(* that was given to a task of this kind, or past it.                      *)
(***************************************************************************)
Latest(kind) == Cardinality({id[t] : t \in {c \in Calls : id[c] # None /\ id[c][1] = kind}})

(* The rest of an add*() call, which enters also what it has just loaded.  Only
   addReminder() checks that there is something to wait for. *)
Add(c, kind, loaded) ==
    \E now \in {Latest(kind), Latest(kind) + 1} \ {0} :
        LET i    == <<kind, now>>
            same == {t \in Calls : id[t] = i}
        IN /\ same \cap loaded = {}
           /\ id' = [id EXCEPT ![c] = i]
           /\ futile' \in {futile} \cup (IF kind = "reminder" THEN {} ELSE {futile \cup {c}})
           /\ Enter(c, loaded \cup {c})
           /\ Save(c, owner[c])
           /\ pc' = [pc EXCEPT ![c] = "save"]
           /\ spoilt' = spoilt \cup Spoils(c, owner[c])
                               \cup {owner[t] : t \in same}
                               \cup (IF same = {} THEN {} ELSE {owner[c]})

-----------------------------------------------------------------------------
(* Calls; the server accepts them once every file has been loaded *)

Ready == \A u \in Owners : pc[u] = "done"

(* addReminder(), addRecurring(), and addTimer() for a user who has tasks. *)
add(c, kind) ==
    /\ Ready /\ pc[c] = "idle"
    /\ kind = "timer" => Listed(owner[c]) # {}
    /\ Add(c, kind, {})
    /\ UNCHANGED <<got, file, due, restarts, failures, fired, cancels>>

(* addTimer() for a user without: the file is loaded first. *)
addTimer(c) ==
    /\ "timer" \in Kinds
    /\ Ready /\ pc[c] = "idle"
    /\ Listed(owner[c]) = {}
    /\ pc' = [pc EXCEPT ![c] = "read"]
    /\ spoilt' = spoilt \cup Spoils(c, owner[c])
    /\ UNCHANGED <<got, memory, file, saves, times, restarts, failures, fired, cancels>>

(* cancelTask() with any identifier that was ever given. *)
cancelTask(c) ==
    /\ Ready /\ pc[c] = "idle"
    /\ \E t \in Calls :
          /\ id[t] # None
          /\ Entry(owner[c], id[t]) # {}
          /\ Remove(c, owner[c], id[t])
          /\ cancels' = [cancels EXCEPT ![c] = CHOOSE e \in Entry(owner[c], id[t]) : TRUE]
    /\ pc' = [pc EXCEPT ![c] = "save"]
    /\ UNCHANGED <<got, file, times, restarts, failures, fired>>

-----------------------------------------------------------------------------
(* _loadOwnerTasks(), at boot (p is a user) or for addTimer() (p is a call) *)

(* The moment at which the file is read.  _loadAllUsers() takes one user after the other. *)
Read(p) ==
    /\ \/ p \in Calls /\ pc[p] = "read"
       \/ /\ p \in Owners /\ pc[p] = "waiting"
          /\ \A u \in Owners : pc[u] \in {"waiting", "done"}
    /\ got' = [got EXCEPT ![p] = file[User(p)]]
    /\ pc' = [pc EXCEPT ![p] = "parse"]
    /\ UNCHANGED <<memory, file, saves, times, restarts, failures, fired, cancels, spoilt>>

Parsed(p) == got[p] \ Torn

\* Slip: what is past is loaded as well.
ToComeOrMissed(p) == Parsed(p)

\* Slip: recurring tasks have no time, and pass for past.
ToComeOnce(p) == {t \in Parsed(p) : t \notin due \cup futile /\ ~Repeats(t)}

(* Past timers and reminders are dropped. *)
ToCome(p) == {t \in Parsed(p) : t \notin due \cup futile \/ Repeats(t)}

(* Without anything to drop. *)
Parse(p) ==
    /\ pc[p] = "parse"
    /\ ToCome(p) = Parsed(p)
    /\ \/ /\ p \in Calls
          /\ Add(p, "timer", ToCome(p))
       \/ /\ p \in Owners
          /\ UNCHANGED <<id, futile, saves, spoilt>>
          /\ Enter(p, ToCome(p))
          /\ pc' = [pc EXCEPT ![p] = "done"]
    /\ got' = [got EXCEPT ![p] = {}]
    /\ UNCHANGED <<file, due, restarts, failures, fired, cancels>>

(* Otherwise the file is saved without what was dropped. *)
ParseDropping(p) ==
    /\ pc[p] = "parse"
    /\ ToCome(p) # Parsed(p)
    /\ UNCHANGED <<id, futile>>
    /\ Enter(p, ToCome(p))
    /\ Save(p, User(p))
    /\ pc' = [pc EXCEPT ![p] = "drop"]
    /\ spoilt' = spoilt \cup Spoils(p, User(p))
    /\ got' = [got EXCEPT ![p] = {}]
    /\ UNCHANGED <<file, due, restarts, failures, fired, cancels>>

AddAfterDrop(c) ==
    /\ pc[c] = "dropped"
    /\ Add(c, "timer", {})
    /\ UNCHANGED <<got, file, due, restarts, failures, fired, cancels>>

-----------------------------------------------------------------------------
(* The thread pool *)

SaveOpens(w) ==
    /\ ~w.opened
    /\ saves' = (saves \ {w}) \cup {[w EXCEPT !.opened = TRUE]}
    /\ file' = [file EXCEPT ![w.owner] = {}]
    /\ UNCHANGED <<pc, got, memory, times, restarts, failures, fired, cancels, spoilt>>

(***************************************************************************)
(* What a file holds once D is written from its beginning over X.  A       *)
(* longer X leaves a rest that is no JSON; more tasks are longer.          *)
(***************************************************************************)
Overwritten(X, D) ==
    (IF X # Torn /\ D \subseteq X /\ D # X THEN {} ELSE {D})
        \cup (IF X \subseteq D THEN {} ELSE {Torn})

(* The write is done, and who waits for it goes on. *)
SaveWrites(w) ==
    /\ w.opened
    /\ \E X \in Overwritten(file[w.owner], w.data) : file' = [file EXCEPT ![w.owner] = X]
    /\ saves' = saves \ {w}
    /\ pc' = [p \in Loaders |-> IF p # w.by THEN pc[p]
                                ELSE IF p \in Calls /\ pc[p] = "drop" THEN "dropped"
                                ELSE "done"]
    /\ UNCHANGED <<got, memory, times, restarts, failures, fired, cancels, spoilt>>

(* The file cannot be opened.  At boot the users still to be loaded never are. *)
SaveFails(w) ==
    /\ ~w.opened
    /\ failures < MaxFailures
    /\ failures' = failures + 1
    /\ saves' = saves \ {w}
    /\ LET unloaded == IF w.by \in Owners THEN {v \in Owners : pc[v] = "waiting"} ELSE {}
       IN /\ pc' = [p \in Loaders |-> IF p \in unloaded \/ (p = w.by /\ p \in Owners) THEN "done"
                                      ELSE IF p = w.by THEN "failed"
                                      ELSE pc[p]]
          /\ spoilt' = spoilt \cup unloaded \cup {w.owner}
    /\ UNCHANGED <<got, memory, file, times, restarts, fired, cancels>>

-----------------------------------------------------------------------------
(* Time *)

TimeComes(t) ==
    /\ id[t] # None /\ ~Repeats(t)
    /\ t \notin due \cup futile
    /\ due' = due \cup {t}
    /\ UNCHANGED <<pc, got, memory, file, saves, id, futile, restarts, failures, fired,
                   cancels, spoilt>>

(***************************************************************************)
(* A job runs: its task is triggered and cancelled.  (A recurring one is   *)
(* triggered only, which leaves everything as it is.)                      *)
(***************************************************************************)
Trigger(j) ==
    LET t == Task(j) IN
    /\ j \in armed /\ t \in due
    /\ \/ /\ Entry(owner[t], id[t]) = {}
          /\ armed' = armed \ {j}
          /\ UNCHANGED <<tasks, jobs, saves, spoilt>>
       \/ /\ Entry(owner[t], id[t]) # {}
          /\ Remove(j, owner[t], id[t])
    /\ fired' = [fired EXCEPT ![t] = @ + 1]
    /\ UNCHANGED <<pc, got, file, times, restarts, failures, cancels>>

(* The process dies and is started again. *)
Restart ==
    /\ restarts < MaxRestarts
    /\ restarts' = restarts + 1
    /\ pc' = [p \in Loaders |-> IF p \in Owners THEN "waiting"
                                ELSE IF pc[p] \in {"idle", "done"} THEN pc[p]
                                ELSE "failed"]
    /\ got' = [p \in Loaders |-> {}]
    /\ tasks' = {} /\ jobs' = {} /\ armed' = {}
    /\ saves' = {}
    /\ spoilt' = spoilt \cup {w.owner : w \in {v \in saves : v.opened}}
    /\ UNCHANGED <<file, times, failures, fired, cancels>>

-----------------------------------------------------------------------------
Next ==
    /\ UNCHANGED owner
    /\ \/ \E c \in Calls : \/ \E kind \in Kinds : add(c, kind)
                           \/ addTimer(c) \/ cancelTask(c) \/ AddAfterDrop(c) \/ TimeComes(c)
       \/ \E p \in Loaders : Read(p) \/ Parse(p) \/ ParseDropping(p)
       \/ \E w \in saves : SaveOpens(w) \/ SaveWrites(w) \/ SaveFails(w)
       \/ \E j \in armed : Trigger(j)
       \/ Restart

Spec == Init /\ [][Next]_vars

-----------------------------------------------------------------------------
(* Correctness *)

Places == {"idle", "waiting", "read", "parse", "drop", "dropped", "save", "done", "failed"}

Jobs == Loaders \X Calls

(* Every variable holds values of its kind; what the code keeps in a map has one
   entry for an identifier. *)
TypeOK ==
    /\ owner \in [Calls -> Owners]
    /\ pc \in [Loaders -> Places]
    /\ got \in [Loaders -> (SUBSET Calls) \cup {Torn}]
    /\ tasks \in SUBSET Calls
    /\ \A s, t \in tasks : id[s] = id[t] => s = t
    /\ jobs \in SUBSET Jobs /\ armed \in SUBSET Jobs
    /\ file \in [Owners -> (SUBSET Calls) \cup {Torn}]
    /\ saves \subseteq [by : Loaders \cup Jobs, owner : Owners, data : SUBSET Calls,
                        opened : BOOLEAN]
    /\ id \in [Calls -> (AllKinds \X Nat) \cup {None}]
    /\ due \in SUBSET Calls /\ futile \in SUBSET Calls
    /\ restarts \in Nat /\ failures \in Nat
    /\ fired \in [Calls -> Nat]
    /\ cancels \in [Calls -> Calls \cup {None}]
    /\ spoilt \in SUBSET Owners

(***************************************************************************)
(* What a user is shown by listTasks() is what will happen: every entry    *)
(* that is not futile has a job, armed and within reach of cancelTask(),   *)
(* that triggers this very task.  The map of jobs has at most one for an   *)
(* identifier, and only for those of entries.  This holds whatever         *)
(* overlaps, fails or collides.                                            *)
(***************************************************************************)
ListedIsArmed ==
    /\ \A t \in tasks \ futile : \E j \in jobs \cap armed : Task(j) = t
    /\ \A j \in jobs : \E t \in tasks : id[t] = id[Task(j)]
    /\ \A j, k \in jobs : id[Task(j)] = id[Task(k)] => j = k

(***************************************************************************)
(* "Persists only this owner's tasks to their own file - never rewrites    *)
(* another user's data": files and the writes to them stay apart.          *)
(***************************************************************************)
FilesApart ==
    /\ \A u \in Owners : \A t \in file[u] \cap Calls : owner[t] = u
    /\ \A w \in saves : \A t \in w.data : owner[t] = w.owner

AtRest(u) ==
    /\ Ready
    /\ \A w \in saves : w.owner # u
    /\ \A c \in Calls : owner[c] = u => pc[c] \notin {"read", "parse"}

(***************************************************************************)
(* Between a user's operations the file is an image of the map, so that a  *)
(* restart loses nothing and brings nothing back; unless operations have   *)
(* overlapped, failed or been cut off.                                     *)
(***************************************************************************)
FileIsImage ==
    \A u \in Owners \ spoilt :
        AtRest(u) => file[u] = Listed(u)

(* A task whose cancellation has returned is nowhere any more, in no life of the process:
   not listed, not armed, not stored; so it is never triggered again. *)
CancelledIsGone ==
    \A c \in Calls : \A t \in Calls :
        (cancels[c] = t /\ pc[c] = "done" /\ owner[t] \notin spoilt) =>
            /\ t \notin tasks
            /\ \A j \in armed : Task(j) # t
            /\ t \notin file[owner[t]]

(* A task whose addition has returned stays listed until it is cancelled or its time has
   come, also over restarts. *)
AddedIsKept ==
    \A t \in Calls :
        (/\ id[t] # None /\ pc[t] = "done"
         /\ t \notin due \cup futile \/ Repeats(t)
         /\ \A c \in Calls : cancels[c] # t
         /\ owner[t] \notin spoilt /\ Ready) => t \in tasks

(* A timer or reminder is triggered once at most, however often it is loaded and whenever
   the process dies. *)
TriggeredOnce ==
    \A t \in Calls : (id[t] # None /\ owner[t] \notin spoilt) => fired[t] <= 1
=============================================================================
