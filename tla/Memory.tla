------------------------------- MODULE Memory -------------------------------
(***************************************************************************)
(* What the assistant remembers of one user (memoryService.js): the last    *)
(* messages in the memory of the process, which are compressed in the       *)
(* background when they become too many, and, in a repository, single       *)
(* facts and a profile.  Replies, compressions and the removal of the       *)
(* account run concurrently; what they do to the repository goes through a  *)
(* lock per user, except where the code leaves it out.                      *)
(*                                                                         *)
(* Users never share anything here, so there is one.  A fact stands for a   *)
(* text and its embedding: two texts are alike enough to be merged exactly  *)
(* when they are the same fact.  Of the profile only what was noted in it   *)
(* is kept, since the profile is always written as a whole.                 *)
(***************************************************************************)
EXTENDS Naturals, Sequences, SequencesExt, FiniteSets

CONSTANTS Facts,        \* what a reply or a compression may find worth keeping
          Replies,      \* replies that run at one time
          Compressions, \* compressions that run at one time
          Digests,      \* what the model may make of the messages it compresses
          MaxShort,     \* maxShortMemory: 20 in the code
          Batch,        \* messages one compression takes: 16 in the code
          MaxMessages   \* bound: messages a behaviour adds

ASSUME MemoryAssumption ==
    /\ MaxShort \in Nat /\ Batch \in Nat \ {0} /\ MaxMessages \in Nat
    /\ Batch =< MaxShort
    /\ Replies \intersect Compressions = {}

Calls == Replies \union Compressions

VARIABLES
    short,      \* shortMemory: the messages, oldest first
    added,      \* messages added so far; message n is the n-th
    at,         \* the await at which a call stands
    rest,       \* remainingMessages of a compression
    todo,       \* what a call is still going to do to the repository
    copy,       \* the profile a reply read when it began to retrieve
    lock,       \* the chain of _withLongTermLock: functions that have not ended
    memories,   \* how often the repository holds each fact
    profile,    \* the facts noted in the profile
    removal,    \* how far the removal of the account is
    taken,      \* history: messages that were in the batch of a compression
    exposed,    \* history: messages added while a compression was under way
    saved,      \* history: facts whose saving ended
    later,      \* history: a message came after the removal began
    noted       \* history: facts noted while no reply held an older profile

vars == <<short, added, at, rest, todo, copy, lock, memories, profile,
          removal, taken, exposed, later, saved, noted>>

history == <<taken, exposed, later, saved, noted>>
repository == <<lock, memories, profile, saved, noted>>

Nothing == [read |-> FALSE]
Read(value) == [read |-> TRUE, value |-> value]

(* What is done to the repository under the lock.                           *)
Save(f)    == [op |-> "save", fact |-> f]
Note(f)    == [op |-> "note", fact |-> f]
Points     == [op |-> "points"]
Stale      == [op |-> "stale"]       \* points, with the profile in copy
Cleanup    == [op |-> "cleanup"]
Steps      == {Save(f) : f \in Facts} \union {Note(f) : f \in Facts}
                 \union {Points, Stale}

OnMemories(step) == step.op \in {"save", "cleanup"}

(* An answer of the model is carried out in this order: facts to save, one  *)
(* to note, the points of the relationship; each part may be missing.       *)
ASSUME DigestAssumption ==
    \A steps \in Digests :
       /\ steps \in Seq(Steps \ {Stale})
       /\ \A i, j \in DOMAIN steps : i < j =>
             \/ steps[i].op = "save"
             \/ steps[i].op = "note" /\ steps[j].op = "points"

(* A function of the chain, before and after it has read; nobody awaits the  *)
(* cleaning up.                                                             *)
Job(k, step)     == [by |-> k, step |-> step, got |-> Nothing]
Done(job, value) == [by |-> job.by, step |-> job.step, got |-> Read(value)]
Cleaning         == Job(Nothing, Cleanup)

Compressing == {k \in Calls : rest[k] # Nothing}
HoldsProfile == {k \in Calls : copy[k] # Nothing}

(* The repository without a memory.                                         *)
Empty == [f \in Facts |-> 0]

TypeOK ==
    /\ short \in Seq(1 .. MaxMessages)
    /\ added \in 0 .. MaxMessages
    /\ at \in [Calls -> {"free", "digest", "profile", "search",
                         "embed", "locked", "generate"}]
    /\ \A k \in Calls :
          /\ rest[k] # Nothing => rest[k].value \in Seq(1 .. MaxMessages)
          /\ todo[k] \in Seq(Steps)
          /\ copy[k] # Nothing => copy[k].value \subseteq Facts
    /\ \A i \in DOMAIN lock :
          /\ lock[i].step \in Steps \union {Cleanup}
          /\ lock[i].step # Cleanup => lock[i].by \in Calls
          /\ lock[i].got.read =>
                lock[i].got.value \in IF OnMemories(lock[i].step) THEN [Facts -> Nat]
                                                                 ELSE SUBSET Facts
    /\ memories \in [Facts -> Nat]
    /\ profile \subseteq Facts
    /\ removal \in {"no", "memories", "profile", "done"}
    /\ taken \subseteq 1 .. MaxMessages /\ exposed \subseteq 1 .. MaxMessages
    /\ later \in BOOLEAN
    /\ saved \subseteq Facts /\ noted \subseteq Facts

Init ==
    /\ short = <<>> /\ added = 0
    /\ at = [k \in Calls |-> "free"]
    /\ rest = [k \in Calls |-> Nothing]
    /\ todo = [k \in Calls |-> <<>>]
    /\ copy = [k \in Calls |-> Nothing]
    /\ lock = <<>>
    /\ memories = Empty /\ profile = {}
    /\ removal = "no"
    /\ taken = {} /\ exposed = {} /\ later = FALSE
    /\ saved = {} /\ noted = {}

-----------------------------------------------------------------------------
(* Short-term memory                                                        *)

(* Slip: the batch and what is kept back do not meet.                       *)
KeptBackSlip(s) == SubSeq(s, Batch + 2, Len(s))

KeptBack(s) == SubSeq(s, Batch + 1, Len(s))

(* addShortMemory with the beginning of compressConversation.  The reply k  *)
(* continues at `next`; one more message than MaxShort starts a compression.  *)
Add(k, next) ==
    LET list == Append(short, added + 1) IN
    /\ added < MaxMessages
    /\ added' = added + 1
    /\ short' = list
    /\ later' = (later \/ removal # "no")
    /\ exposed' = IF Compressing = {} THEN exposed ELSE exposed \union {added + 1}
    /\ IF Len(list) > MaxShort
         THEN \E c \in Compressions :
                 /\ at[c] = "free"
                 /\ at' = [at EXCEPT ![k] = next, ![c] = "digest"]
                 /\ rest' = [rest EXCEPT ![c] = Read(KeptBack(list))]
                 /\ taken' = taken \union ToSet(SubSeq(list, 1, Batch))
         ELSE /\ at' = [at EXCEPT ![k] = next]
              /\ UNCHANGED <<rest, taken>>
    /\ UNCHANGED <<todo, copy, repository, removal>>

(* The call k, which has done what came before, goes on with the steps left *)
(* to it: a fact is given its embedding before it waits for the lock, all   *)
(* else waits at once.  A compression that has nothing left to do leaves    *)
(* what it kept back as the short memory; a reply goes on to the model.     *)
Continue(k, steps, chain) ==
    /\ todo' = [todo EXCEPT ![k] = steps]
    /\ \/ /\ steps = <<>>
          /\ rest[k] = Nothing
          /\ at' = [at EXCEPT ![k] = "generate"]
          /\ lock' = chain
          /\ UNCHANGED <<short, rest>>
       \/ /\ steps = <<>>
          /\ rest[k] # Nothing
          /\ at' = [at EXCEPT ![k] = "free"]
          /\ lock' = chain
          /\ short' = rest[k].value
          /\ rest' = [rest EXCEPT ![k] = Nothing]
       \/ /\ steps # <<>>
          /\ Head(steps).op = "save"
          /\ at' = [at EXCEPT ![k] = "embed"]
          /\ lock' = chain
          /\ UNCHANGED <<short, rest>>
       \/ /\ steps # <<>>
          /\ Head(steps).op # "save"
          /\ at' = [at EXCEPT ![k] = "locked"]
          /\ lock' = Append(chain, Job(k, Head(steps)))
          /\ UNCHANGED <<short, rest>>

(* The call k ends by an exception: a compression leaves the short memory   *)
(* as it is.                                                                *)
Throw(k, chain) ==
    /\ at' = [at EXCEPT ![k] = "free"]
    /\ todo' = [todo EXCEPT ![k] = <<>>]
    /\ rest' = [rest EXCEPT ![k] = Nothing]
    /\ lock' = chain
    /\ UNCHANGED short

(* The model answered the compression.                                      *)
Digested(c) ==
    /\ at[c] = "digest"
    /\ \E steps \in Digests : Continue(c, steps, lock)
    /\ UNCHANGED <<added, copy, memories, profile, removal, history>>

(* The model failed, or its answer was no JSON.                             *)
DigestFails(c) ==
    /\ at[c] = "digest"
    /\ Throw(c, lock)
    /\ UNCHANGED <<added, copy, memories, profile, removal, history>>

-----------------------------------------------------------------------------
(* A reply: the message is remembered, the profile read, the memories       *)
(* searched, the relationship updated, perhaps a preference saved, and the   *)
(* answer of the model remembered.                                          *)

Message(k) == at[k] = "free" /\ Add(k, "profile")

ReadProfile(k) ==
    /\ at[k] = "profile"
    /\ copy' = [copy EXCEPT ![k] = Read(profile)]
    /\ at' = [at EXCEPT ![k] = "search"]
    /\ UNCHANGED <<short, added, rest, todo, lock, memories, profile,
                   removal, history>>

Searched(k) ==
    /\ at[k] = "search"
    /\ \E steps \in {<<Stale>>} \union {<<Stale, Save(f)>> : f \in Facts} :
          Continue(k, steps, lock)
    /\ UNCHANGED <<added, copy, memories, profile, removal, history>>

Answer(k) ==
    /\ at[k] = "generate"
    /\ \/ Add(k, "free")
       \/ /\ at' = [at EXCEPT ![k] = "free"]
          /\ UNCHANGED <<short, added, rest, todo, copy, lock, memories,
                         profile, removal, history>>

-----------------------------------------------------------------------------
(* The repository                                                           *)

Embedded(k) ==
    /\ at[k] = "embed"
    /\ at' = [at EXCEPT ![k] = "locked"]
    /\ lock' = Append(lock, Job(k, Head(todo[k])))
    /\ UNCHANGED <<short, added, rest, todo, copy, memories, profile,
                   removal, history>>

(* saveLongTermMemory catches whatever happens in it.                       *)
EmbedFails(k) ==
    /\ at[k] = "embed"
    /\ Continue(k, Tail(todo[k]), lock)
    /\ UNCHANGED <<added, copy, memories, profile, removal, history>>

(* cleanupMemories: of the facts that are alike one stays.                  *)
Duplicates(m) == {f \in Facts : m[f] > 1}

WithoutDuplicates(m) == [f \in Facts |-> IF f \in Duplicates(m) THEN 1 ELSE m[f]]

(* Slip: no chain.                                                          *)
MayRunSlip(i) == TRUE

(* The i-th function of the chain may run once those before it have ended.  *)
MayRun(i) == i = 1

(* A function of the chain reads what it is about to change.  The update of *)
(* a relationship that was handed a profile reads nothing.                   *)
LockedRead(i) ==
    LET job == lock[i] IN
    /\ MayRun(i)
    /\ ~job.got.read
    /\ \/ /\ OnMemories(job.step)
          /\ lock' = [lock EXCEPT ![i] = Done(job, memories)]
       \/ /\ job.step.op = "stale"
          /\ lock' = [lock EXCEPT ![i] = Done(job, copy[job.by].value)]
       \/ /\ job.step.op \in {"note", "points"}
          /\ lock' = [lock EXCEPT ![i] = Done(job, profile)]
    /\ UNCHANGED <<short, added, at, rest, todo, copy, memories, profile,
                   removal, history>>

(* It writes, which ends it, and its caller goes on.  The cleaning up that  *)
(* follows a save is awaited by nobody.                                     *)
LockedWrite(i) ==
    LET job   == lock[i]
        left  == RemoveAt(lock, i)
        value == job.got.value
    IN
    /\ MayRun(i)
    /\ job.got.read
    /\ CASE job.step.op = "save" ->
              /\ memories' = [value EXCEPT ![job.step.fact] = @ + 1]
              /\ saved' = saved \union {job.step.fact}
              /\ Continue(job.by, Tail(todo[job.by]),
                          Append(left, Cleaning))
              /\ UNCHANGED <<profile, noted, copy>>
         [] job.step.op = "cleanup" ->
              /\ memories' = IF Duplicates(value) = {}
                               THEN memories ELSE WithoutDuplicates(value)
              /\ lock' = left
              /\ UNCHANGED <<profile, saved, noted, copy, at, todo, rest, short>>
         [] OTHER ->
              /\ profile' = IF job.step.op = "note"
                              THEN value \union {job.step.fact} ELSE value
              /\ noted' = IF job.step.op = "note" /\ HoldsProfile = {}
                            THEN noted \union {job.step.fact} ELSE noted
              /\ copy' = IF job.step.op = "stale"
                           THEN [copy EXCEPT ![job.by] = Nothing] ELSE copy
              /\ Continue(job.by, Tail(todo[job.by]), left)
              /\ UNCHANGED <<memories, saved>>
    /\ UNCHANGED <<added, removal, taken, exposed, later>>

(* The repository fails: saving and cleaning up swallow it, a compression   *)
(* or a reply ends by it.                                                   *)
LockedFails(i) ==
    LET job  == lock[i]
        left == RemoveAt(lock, i)
    IN
    /\ MayRun(i)
    /\ CASE job.step.op = "save" ->
              /\ Continue(job.by, Tail(todo[job.by]), left)
              /\ UNCHANGED copy
         [] job.step.op = "cleanup" ->
              /\ lock' = left
              /\ UNCHANGED <<copy, at, todo, rest, short>>
         [] OTHER ->
              /\ Throw(job.by, left)
              /\ copy' = [copy EXCEPT ![job.by] = Nothing]
    /\ UNCHANGED <<added, memories, profile, removal, history>>

-----------------------------------------------------------------------------
(* deleteAllForUser, called when an administrator removes the account.  It  *)
(* takes the lock of the repository and not the one of the service.         *)

RemoveShort ==
    /\ removal = "no"
    /\ short' = <<>>
    /\ exposed' = 1 .. added
    /\ removal' = "memories"
    /\ UNCHANGED <<added, at, rest, todo, copy, repository, taken, later>>

RemoveMemories ==
    /\ removal = "memories"
    /\ memories' = Empty
    /\ saved' = {}
    /\ removal' = "profile"
    /\ UNCHANGED <<short, added, at, rest, todo, copy, lock, profile, taken,
                   exposed, later, noted>>

RemoveProfile ==
    /\ removal = "profile"
    /\ profile' = {}
    /\ noted' = {}
    /\ removal' = "done"
    /\ UNCHANGED <<short, added, at, rest, todo, copy, lock, memories, taken,
                   exposed, later, saved>>

Next ==
    \/ \E r \in Replies : Message(r) \/ ReadProfile(r) \/ Searched(r) \/ Answer(r)
    \/ \E c \in Compressions : Digested(c) \/ DigestFails(c)
    \/ \E k \in Calls : Embedded(k) \/ EmbedFails(k)
    \/ \E i \in DOMAIN lock : LockedRead(i) \/ LockedWrite(i) \/ LockedFails(i)
    \/ RemoveShort \/ RemoveMemories \/ RemoveProfile

Spec == Init /\ [][Next]_vars

-----------------------------------------------------------------------------
(* A message is still in the short memory or was in the batch of some       *)
(* compression, unless it was added while a compression was under way (the  *)
(* compression then puts its own list in the place of the one the message   *)
(* is in) or before the removal of the account.  A failing compression, two *)
(* that overlap and one that ends after the next has begun lose no other    *)
(* message.                                                                 *)
LostOnlyMeanwhile == 1 .. added \subseteq ToSet(short) \union taken \union exposed

(* A fact whose saving ended stays in the repository until the account is   *)
(* removed, however savings and cleanings overlap: the comment at           *)
(* _withLongTermLock says the second write would discard the addition of    *)
(* the first.                                                               *)
SavedIsKept == \A f \in saved : memories[f] > 0

(* What a compression noted in the profile stays there, unless a reply had  *)
(* read the profile before and writes its copy back afterwards.             *)
NotedIsKept == noted \subseteq profile

(* What was saved, or noted in the profile, stays there however the calls    *)
(* under the lock overlap.                                                  *)
FactsAreKept == SavedIsKept /\ NotedIsKept

(* Once the account is removed and the calls that were under way have ended *)
(* nothing is left of the user ("so nothing is left behind after the User   *)
(* document itself is removed").                                            *)
NothingIsLeftBehind ==
    (removal = "done" /\ ~later /\ lock = <<>> /\ \A k \in Calls : at[k] = "free")
        => short = <<>> /\ memories = Empty /\ profile = {}

=============================================================================
